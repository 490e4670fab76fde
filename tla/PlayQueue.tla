------------------------------ MODULE PlayQueue ------------------------------
(***************************************************************************)
(* The client's queue: the tracks in the order they were added, the order  *)
(* they are played in as positions of the tracks, which of them the user   *)
(* queued up next or last, and where the playback is.  Removing a track    *)
(* renumbers every list of positions.                                      *)
(*                                                                         *)
(* Positions count from 1; 0 is none.  The tracks queued up next or last    *)
(* are sets: the code only asks whether they hold a position.  Whether the *)
(* end leads back to the start (repeatMode) is left open.                  *)
(***************************************************************************)
EXTENDS Filtering, FiniteSets, SequencesExt

CONSTANTS
  Library,    \* tracks of the library
  Previews,   \* tracks that are only previewed
  NoTrack,
  MaxTracks,  \* bound on the tracks of a queue
  MaxGeneration,
  MaxReplaced \* bound on the tracks of a queue that is replaced by another

\* What the constants have to be.
ASSUME PlayQueueAssumption ==
  /\ NoTrack \notin Library \cup Previews
  /\ Library \cap Previews = {}
  /\ MaxTracks \in Nat /\ MaxGeneration \in Nat /\ MaxReplaced \in Nat

VARIABLE queue  \* the store: tracks, playOrder, upNext, appended, currentIndex,
                \* shuffled, generation

Tracks     == Library \cup Previews
TrackLists == UNION {[1..n -> Tracks] : n \in 0..MaxTracks}

Initial == [tracks |-> <<>>, order |-> <<>>, upNext |-> {}, appended |-> {},
            current |-> 0, shuffled |-> FALSE, generation |-> 0]

QueueTypeOK ==
  /\ queue.tracks \in TrackLists
  /\ queue.order \in Seq(Nat) /\ queue.upNext \subseteq Nat /\ queue.appended \subseteq Nat
  /\ queue.current \in 0..MaxTracks
  /\ queue.shuffled \in BOOLEAN
  /\ queue.generation \in 0..MaxGeneration

QueueInit == queue = Initial

Identity(n)      == [i \in 1..n |-> i]
Permutations1(n) == {p \in [1..n -> 1..n] : \A i, j \in 1..n : p[i] = p[j] => i = j}
Ordered(q)       == [i \in DOMAIN q.order |-> q.tracks[q.order[i]]]
CurrentTrack(q)  == IF q.current = 0 THEN NoTrack ELSE q.tracks[q.order[q.current]]

\* What loads a queue: another generation.
FreshQueue(q, tracks, order, current, shuffled) ==
  [q EXCEPT !.tracks = tracks, !.order = order, !.current = current, !.shuffled = shuffled,
            !.upNext = {}, !.appended = {}, !.generation = @ + 1]

Cleared(q) == [Initial EXCEPT !.generation = q.generation + 1]

Clears == queue.generation < MaxGeneration
Loads  == Clears /\ Len(queue.tracks) <= MaxReplaced

-----------------------------------------------------------------------------
(* The operations                                                          *)

LoadQueue == Loads /\ \E ts \in TrackLists : \E i \in 0..Len(ts) :
  /\ i = 0 <=> ts = <<>>
  /\ queue' = FreshQueue(queue, ts, Identity(Len(ts)), i, FALSE)

LoadShuffled == Loads /\ \E ts \in TrackLists : \E p \in Permutations1(Len(ts)) :
  queue' = FreshQueue(queue, ts, p, IF ts = <<>> THEN 0 ELSE 1, TRUE)

Enqueue == \E t \in Tracks :
  /\ Len(queue.tracks) < MaxTracks
  /\ LET n == Len(queue.tracks) + 1 IN
     queue' = [queue EXCEPT !.tracks = Append(@, t), !.order = Append(@, n),
                            !.appended = @ \cup {n}]

PlayNext == \E t \in Tracks :
  /\ Len(queue.tracks) < MaxTracks
  /\ LET n == Len(queue.tracks) + 1 IN
     queue' = [queue EXCEPT !.tracks = Append(@, t), !.order = InsertAt(@, queue.current + 1, n),
                            !.upNext = @ \cup {n}]

SkipTo(i) == queue' = [queue EXCEPT !.current = i]

SkipToNext ==
  /\ queue.tracks # <<>>
  /\ \/ queue.current < Len(queue.order) /\ SkipTo(queue.current + 1)
     \/ queue.current = Len(queue.order) /\ SkipTo(1)

SkipToPrevious ==
  /\ queue.tracks # <<>>
  /\ \/ queue.current > 1 /\ SkipTo(queue.current - 1)
     \/ queue.current <= 1 /\ (SkipTo(Len(queue.order)) \/ SkipTo(1))

SkipToIndex == \E i \in DOMAIN queue.order : SkipTo(i)

\* The player reports what it plays, by place and track: the place, or the
\* nearest one with that track.
SyncCurrentIndex == \E i \in 1..MaxTracks, t \in Tracks :
  LET hits    == {j \in DOMAIN queue.order : Ordered(queue)[j] = t}
      away(j) == IF j < i THEN i - j ELSE j - i
      nearest == {j \in hits : \A k \in hits :
                    away(j) < away(k) \/ (away(j) = away(k) /\ j <= k)} IN
  \E j \in nearest : SkipTo(j)

Without(s, x) == Only(s, ToSet(s) \ {x})

ToggleShuffle ==
  LET keep   == SubSeq(queue.order, 1, queue.current)
      tail   == SubSeq(queue.order, queue.current + 1, Len(queue.order))
      next   == Only(tail, queue.upNext)
      last   == Only(tail, queue.appended)
      rest   == ToSet(tail) \ (queue.upNext \cup queue.appended) IN
  /\ Len(queue.tracks) > 1
  /\ \E r \in SetToSeqs(rest) :
       /\ queue.shuffled => \A i, j \in DOMAIN r : i < j => r[i] < r[j]
       /\ queue' = [queue EXCEPT !.order = keep \o next \o r \o last, !.shuffled = ~ @]

\* A slip: the entry that plays is not the one after it moves past the others.
CurrentAfterMoveOver(c, from, to) ==
  CASE from = c            -> to
    [] from < c /\ to > c  -> c - 1
    [] from > c /\ to < c  -> c + 1
    [] OTHER               -> c

CurrentAfterMove(c, from, to) ==
  CASE from = c            -> to
    [] from < c /\ to >= c -> c - 1
    [] from > c /\ to <= c -> c + 1
    [] OTHER               -> c

ReorderQueue(from, to) ==
  /\ from # to
  /\ queue' = [queue EXCEPT !.order = InsertAt(RemoveAt(@, from), to, @[from]),
                            !.current = CurrentAfterMove(@, from, to)]

\* The number of a place once one was removed.
Renumbered(i, removed) == IF i > removed THEN i - 1 ELSE i

CurrentAfterRemoval(c, at, n) ==
  CASE at < c  -> c - 1
    [] at = c  -> IF c < n THEN c ELSE n
    [] OTHER   -> c

RemoveFromQueue(at) ==
  LET removed == queue.order[at]
      n       == Len(queue.tracks) - 1 IN
  IF n = 0 THEN Clears /\ queue' = Cleared(queue)
  ELSE queue' = [queue EXCEPT
         !.tracks   = RemoveAt(@, removed),
         !.order    = LET kept == Without(@, removed) IN
                      [i \in DOMAIN kept |-> Renumbered(kept[i], removed)],
         !.upNext   = {Renumbered(i, removed) : i \in @ \ {removed}},
         !.appended = {Renumbered(i, removed) : i \in @ \ {removed}},
         !.current  = CurrentAfterRemoval(@, at, n),
         !.shuffled = @ /\ n > 1]

\* The kept tracks become the queue, in the order they are played.
WithoutUpcoming(q, kept) ==
  LET renumber(S) == {j \in DOMAIN kept : kept[j] \in S} IN
  [q EXCEPT !.tracks = [j \in DOMAIN kept |-> q.tracks[kept[j]]],
            !.order = Identity(Len(kept)),
            !.upNext = renumber(@), !.appended = renumber(@),
            !.shuffled = @ /\ Len(kept) > 1]

ClearUpcoming ==
  LET kept == SubSeq(queue.order, 1, queue.current) IN
  /\ kept # queue.order
  /\ IF kept = <<>> THEN Clears /\ queue' = Cleared(queue)
     ELSE queue' = WithoutUpcoming(queue, kept)

ClearQueue == Clears /\ queue' = Cleared(queue)

-----------------------------------------------------------------------------

Rearrange ==
  \/ Enqueue \/ PlayNext \/ ToggleShuffle \/ ClearUpcoming
  \/ \E i, j \in DOMAIN queue.order : ReorderQueue(i, j)
  \/ \E i \in DOMAIN queue.order : i # queue.current /\ RemoveFromQueue(i)

Operate ==
  \/ Rearrange
  \/ LoadQueue \/ LoadShuffled \/ ClearQueue
  \/ SkipToNext \/ SkipToPrevious \/ SkipToIndex \/ SyncCurrentIndex
  \/ queue.current # 0 /\ RemoveFromQueue(queue.current)

QueueSpec == QueueInit /\ [][Operate]_queue

-----------------------------------------------------------------------------
(* Properties                                                              *)

\* Rearranging what is to come never changes what plays.
RearrangingKeepsTheTrack ==
  [][Rearrange /\ queue.current # 0 => CurrentTrack(queue') = CurrentTrack(queue)]_queue
=============================================================================
