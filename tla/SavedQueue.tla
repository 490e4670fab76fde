----------------------------- MODULE SavedQueue -----------------------------
(***************************************************************************)
(* What is saved of a queue, what the server makes of it, and the queue    *)
(* that is rebuilt from it.  Only the library's tracks are saved, and no   *)
(* more than MaxSaved of them around the current one; a track that is not  *)
(* ready, or that is gone, is left out when the queue is rebuilt.          *)
(*                                                                         *)
(* A saved index counts from 0, as on the wire.                            *)
(***************************************************************************)
EXTENDS PlayQueue, Integers

CONSTANT MaxSaved  \* MAX_SAVED_QUEUE_IDS

\* What the constants have to be.
ASSUME SavedAssumption == MaxSaved \in Nat \ {0}

CountOf(s, x) == Cardinality({i \in DOMAIN s : s[i] = x})

\* How often the entry at i occurred before it.
Rank(s, i) == CountOf(SubSeq(s, 1, i - 1), s[i])

-----------------------------------------------------------------------------
(* Saving                                                                  *)

\* libraryIds
LibraryIds(s) == Only(s, Library)

Upto(q, c) == [q EXCEPT !.order = SubSeq(@, 1, c)]

SavedCurrentIndex(q) ==
  IF CurrentTrack(q) \in Library THEN Len(LibraryIds(Ordered(Upto(q, q.current - 1)))) ELSE 0

WindowStart(index, n) == Max({Min({index - MaxSaved \div 2, n - MaxSaved}), 0})

\* A slip: the natural order of all tracks, saved or not.
NaturalWithinAll(natural, window) == natural

\* Of each track, the first occurrences, as many as the window holds.
NaturalWithin(natural, window) ==
  LET kept == {i \in DOMAIN natural : Rank(natural, i) < CountOf(window, natural[i])}
      at   == Only(Identity(Len(natural)), kept) IN
  [i \in DOMAIN at |-> natural[at[i]]]

SavedQueueLists(q) ==
  LET ids    == LibraryIds(Ordered(q))
      index  == SavedCurrentIndex(q)
      start  == WindowStart(index, Len(ids))
      window == SubSeq(ids, start + 1, Min({start + MaxSaved, Len(ids)})) IN
  [trackIds |-> window, naturalOrder |-> NaturalWithin(LibraryIds(q.tracks), window),
   currentIndex |-> index - start, shuffled |-> q.shuffled]

\* isSkippable: nothing to save, or a preview plays.
IsSkippable(q) == q.tracks = <<>> \/ CurrentTrack(q) \notin Library

-----------------------------------------------------------------------------
(* The server: NewQueueState                                               *)

SameTracks(s, t) ==
  Len(s) = Len(t) /\ \A x \in ToSet(s) \cup ToSet(t) : CountOf(s, x) = CountOf(t, x)

NaturalOrderPermutes(saved) ==
  \/ saved.naturalOrder = <<>> /\ ~ saved.shuffled
  \/ SameTracks(saved.trackIds, saved.naturalOrder)

IndexWithinQueue(saved) ==
  saved.trackIds = <<>> \/ saved.currentIndex \in 0..(Len(saved.trackIds) - 1)

Accepted(saved) == IndexWithinQueue(saved) /\ NaturalOrderPermutes(saved)

-----------------------------------------------------------------------------
(* Rebuilding                                                              *)

\* The saved index, where it exists.
SavedCursor(saved) == IF saved.currentIndex < Len(saved.trackIds) THEN saved.currentIndex + 1 ELSE 1

Ready(s, ready) == Only(s, ready)

\* The position of the n-th occurrence of x, or of the last one.
NthPosition(s, x, n) ==
  LET positions == {i \in DOMAIN s : s[i] = x}
      nth       == {i \in positions : Rank(s, i) = n} IN
  IF nth # {} THEN CHOOSE i \in nth : TRUE ELSE Max(positions)

\* Of the places that hold the current track, the last one up to its occurrence.
FoundAt(ids, x, occurrence) ==
  LET places == {i \in DOMAIN ids : ids[i] = x /\ Rank(ids, i) <= occurrence} IN
  IF places = {} THEN 0 ELSE Max(places)

Rebuilt(tracks, order, current, shuffled) ==
  [Initial EXCEPT !.tracks = tracks, !.order = order, !.current = current, !.shuffled = shuffled]

\* reconstructPlayOrder and restoreQueue: the play order as positions of the
\* natural order; the first place when the current track is gone.
NaturalRung(saved, ready) ==
  LET natural == Ready(saved.naturalOrder, ready)
      play    == Only(Ready(saved.trackIds, ready), ToSet(natural))
      cursor  == SavedCursor(saved)
      found   == FoundAt(play, saved.trackIds[cursor], Rank(saved.trackIds, cursor)) IN
  Rebuilt(natural, [i \in DOMAIN play |-> NthPosition(natural, play[i], Rank(play, i))],
          IF found = 0 THEN 1 ELSE found, saved.shuffled)

\* Without a natural order: the saved order alone, from about the saved place.
PlayOrderRung(saved, ready) ==
  LET play   == Ready(saved.trackIds, ready)
      cursor == SavedCursor(saved)
      found  == FoundAt(play, saved.trackIds[cursor], Rank(saved.trackIds, cursor)) IN
  Rebuilt(play, Identity(Len(play)),
          IF found = 0 THEN Min({saved.currentIndex + 1, Len(play)}) ELSE found, saved.shuffled)

\* Only with a ready track: "exhausted" otherwise.
Rebuild(saved, ready) ==
  IF Ready(saved.naturalOrder, ready) # <<>> THEN NaturalRung(saved, ready)
  ELSE PlayOrderRung(saved, ready)

-----------------------------------------------------------------------------
(* Properties                                                              *)

\* What is left of a queue around its current track: those of its library
\* tracks that are ready, in the order they are played.
Expected(q, ready) == Ready(SavedQueueLists(q).trackIds, ready)

\* The entries before the current one that are ready.
ExpectedBefore(q, ready) ==
  Len(Ready(SubSeq(SavedQueueLists(q).trackIds, 1, SavedQueueLists(q).currentIndex), ready))

\* Whatever the user has done to a queue - duplicates, previews, shuffles,
\* removals, more tracks than are saved - the server accepts what is saved of
\* it, and what is rebuilt from it, with or without its natural order and
\* whichever tracks are ready, is a well-formed queue that plays the same
\* tracks in the same order, from the very entry that was playing.
SavedQueueResumes ==
  ~ IsSkippable(queue) =>
    LET saved == SavedQueueLists(queue) IN
    /\ Accepted(saved)
    /\ Len(saved.trackIds) = Min({MaxSaved, Len(LibraryIds(Ordered(queue)))})
    /\ saved.trackIds[saved.currentIndex + 1] = CurrentTrack(queue)
    /\ \A ready \in SUBSET Library, natural \in {saved.naturalOrder, <<>>} :
         Expected(queue, ready) # <<>> =>
           LET r == Rebuild([saved EXCEPT !.naturalOrder = natural], ready) IN
           /\ Ordered(r) = Expected(queue, ready)
           /\ IsInjective(r.order) /\ r.current \in DOMAIN r.order
           /\ CurrentTrack(queue) \in ready =>
                r.current = ExpectedBefore(queue, ready) + 1
=============================================================================
