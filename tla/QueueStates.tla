----------------------------- MODULE QueueStates -----------------------------
(***************************************************************************)
(* The playback queue each user resumes: one row per user.  A save is      *)
(* ordered by when the server handled it, on the database's clock: it      *)
(* carries its age, and the database takes that off its own time.  An      *)
(* erasure leaves a tombstone that keeps out the saves handled before it,  *)
(* for as long as one of them may still be on its way.                     *)
(*                                                                         *)
(* Time is in ticks.  Nothing in the database's clock and the server's is  *)
(* compared, so one clock stands for both.                                 *)
(***************************************************************************)
EXTENDS Naturals, Sequences, FiniteSets

CONSTANTS
  Users,
  Queues,     \* what a queue may be: nonempty sequences of tracks
  NoRow, Never,
  OpTimeout,  \* how long an operation may take, the grace of a save as well
  Transit,    \* how long a statement is on its way to the database at most
  Fence,      \* how long a tombstone is kept
  MaxTime, MaxOps

StoredTracks == UNION {{q[i] : i \in DOMAIN q} : q \in Queues}
Positions    == UNION {{<<i, q[i]>> : i \in DOMAIN q} : q \in Queues}

\* A row: its queue and index, updated_at, erased_at; and, as history, when the
\* state in it was handled.
Rows == [queue : Queues \cup {<<>>}, idx : Nat, updated : 0..MaxTime,
         erased : 0..MaxTime \cup {Never}, handled : 0..MaxTime \cup {Never}]

\* encoded: when the statement was sent, Never before that and once the
\* database has evaluated its stamp.
Ops == [kind : {"save", "position", "forget"}, user : Users, queue : Queues \cup {<<>>},
        idx : Nat, named : StoredTracks \cup {Never}, handled : 0..MaxTime,
        encoded : 0..MaxTime \cup {Never}, stamp : 0..MaxTime \cup {Never}]

\* What the constants have to be: the fence is minutes, the timeout seconds.
ASSUME QueueAssumption ==
  /\ Queues \subseteq Seq(StoredTracks) \ {<<>>}
  /\ Never \notin Nat /\ NoRow \notin Rows
  /\ OpTimeout \in Nat /\ Transit \in 0..OpTimeout
  /\ Fence \in Nat /\ Fence >= 2 * OpTimeout
  /\ MaxTime \in Nat /\ MaxOps \in Nat

VARIABLES
  now,
  row,     \* playback_queue_state
  ops,     \* the operations under way
  asked,   \* how many operations were asked for
  erased   \* history: when each user's latest erasure was stamped

vars == <<now, row, ops, asked, erased>>

TypeOK ==
  /\ now \in 0..MaxTime
  /\ row \in [Users -> Rows \cup {NoRow}]
  /\ ops \subseteq Ops
  /\ asked \in 0..MaxOps
  /\ erased \in [Users -> 0..MaxTime \cup {Never}]

Init ==
  /\ now = 0
  /\ row = [u \in Users |-> NoRow]
  /\ ops = {}
  /\ asked = 0
  /\ erased = [u \in Users |-> Never]

Op(kind, u, queue, idx, named) ==
  [kind |-> kind, user |-> u, queue |-> queue, idx |-> idx, named |-> named,
   handled |-> now, encoded |-> Never, stamp |-> Never]

Ask(op) ==
  /\ asked < MaxOps /\ asked' = asked + 1
  /\ op \notin ops
  /\ ops' = ops \cup {op}
  /\ UNCHANGED <<now, row, erased>>

Becomes(op, op2) == ops' = (ops \ {op}) \cup {op2} /\ UNCHANGED <<now, row, asked, erased>>

-----------------------------------------------------------------------------
(* Save, SavePosition, Forget: what is asked for, stamped on arrival       *)

Save(u) == \E q \in Queues : \E i \in DOMAIN q : Ask(Op("save", u, q, i, q[i]))

\* A position names the track the client plays, in whatever queue the client has.
SavePosition(u) == \E p \in Positions : Ask(Op("position", u, <<>>, p[1], p[2]))

Forget(u) == Ask(Op("forget", u, <<>>, 0, Never))

-----------------------------------------------------------------------------
(* The statement: its arguments are encoded once a connection of the pool  *)
(* is there, it is on its way, the database evaluates the stamp, and it    *)
(* applies the write, after the writes whose lock it waits for.  The       *)
(* operation's timeout covers all of that.                                 *)

Encode(op) ==
  /\ op.encoded = Never /\ op.stamp = Never
  /\ Becomes(op, [op EXCEPT !.encoded = now])

\* A slip: the stamp is the database's clock, as if a save were handled on arrival.
HandlingAgeIgnored(op) == 0

\* What the statement carries.
HandlingAge(op) == op.encoded - op.handled

HandledAt(op) == IF op.kind = "forget" THEN now ELSE now - HandlingAge(op)

Evaluate(op) ==
  /\ op.encoded # Never
  /\ Becomes(op, [op EXCEPT !.stamp = HandledAt(op), !.encoded = Never])

\* ErrQueueStateUnavailable: nothing is written.
TimesOut(op) == ops' = ops \ {op} /\ UNCHANGED <<now, row, asked, erased>>

Done(op, r) ==
  /\ op.stamp # Never
  /\ ops' = ops \ {op}
  /\ row' = r
  /\ UNCHANGED <<now, asked>>

Fresh(op, r) == r.updated <= op.stamp

\* A slip: no grace for a stamp that its way to the database made later.
UnfencedOnceStamped(op, r) == r.erased = Never \/ r.erased < op.stamp

Unfenced(op, r) == r.erased = Never \/ r.erased + OpTimeout < op.stamp

Takes(op) == LET r == row[op.user] IN r = NoRow \/ (Fresh(op, r) /\ Unfenced(op, r))

\* Without Takes: ErrStaleQueueWrite.
Upsert(op) ==
  /\ op.kind = "save"
  /\ Done(op, IF Takes(op)
              THEN [row EXCEPT ![op.user] =
                     [queue |-> op.queue, idx |-> op.idx, updated |-> op.stamp,
                      erased |-> Never, handled |-> op.handled]]
              ELSE row)
  /\ UNCHANGED erased

StoredTrackMatches(op, r) == op.idx \in DOMAIN r.queue /\ r.queue[op.idx] = op.named

Moves(op) == LET r == row[op.user] IN r # NoRow /\ StoredTrackMatches(op, r) /\ Fresh(op, r)

\* Without Moves: ErrQueuePositionMismatch or ErrStaleQueueWrite.
UpdatePosition(op) ==
  /\ op.kind = "position"
  /\ Done(op, IF Moves(op)
              THEN [row EXCEPT ![op.user] =
                     [@ EXCEPT !.idx = op.idx, !.updated = op.stamp,
                               !.handled = op.handled]]
              ELSE row)
  /\ UNCHANGED erased

ErasedPastFence(r) == r # NoRow /\ r.erased # Never /\ r.erased + Fence < now

Reaped(spared) ==
  [u \in Users |-> IF u # spared /\ ErasedPastFence(row[u]) THEN NoRow ELSE row[u]]

\* It reaps the tombstones of other users as well.
DeleteForUser(op) ==
  /\ op.kind = "forget"
  /\ Done(op, [Reaped(op.user) EXCEPT ![op.user] =
                [queue |-> <<>>, idx |-> 0, updated |-> op.stamp, erased |-> op.stamp,
                 handled |-> Never]])
  /\ erased' = [erased EXCEPT ![op.user] = IF @ # Never /\ @ > op.stamp THEN @ ELSE op.stamp]

\* The erasure sweep's housekeeping.
ReapErasedStates ==
  /\ row' = Reaped(NoRow)
  /\ row' # row
  /\ UNCHANGED <<now, ops, asked, erased>>

\* No operation outlives its timeout, no statement is longer on its way.
Tick ==
  /\ now < MaxTime
  /\ \A op \in ops :
       /\ now < op.handled + OpTimeout
       /\ op.encoded # Never => now < op.encoded + Transit
  /\ now' = now + 1
  /\ UNCHANGED <<row, ops, asked, erased>>

-----------------------------------------------------------------------------

Next ==
  \/ \E u \in Users : Save(u) \/ SavePosition(u) \/ Forget(u)
  \/ \E op \in ops :
       Encode(op) \/ Evaluate(op) \/ TimesOut(op)
         \/ Upsert(op) \/ UpdatePosition(op) \/ DeleteForUser(op)
  \/ ReapErasedStates
  \/ Tick

Spec == Init /\ [][Next]_vars

-----------------------------------------------------------------------------
(* Properties                                                              *)

Readable(u) == row[u] # NoRow /\ row[u].erased = Never

\* GetForUser never gives back a state that was handled before the user's
\* latest erasure, but for a statement's way to the database: whatever waits for
\* the pool, for a lock or is on its way when the erasure happens, in whatever
\* order erasures are applied, and whether or not the tombstone was reaped since.
ErasedStaysErased ==
  \A u \in Users : Readable(u) /\ erased[u] # Never => erased[u] < row[u].handled + Transit

\* No save or position replaces one that was handled after it by more than a
\* statement's way to the database, however long it waited in the server.
NewerSaveWins ==
  [][\A u \in Users : Readable(u) /\ row[u]' # row[u] /\ row[u]' # NoRow
       /\ row[u]'.erased = Never => row[u].handled <= row[u]'.handled + Transit]_row
=============================================================================
