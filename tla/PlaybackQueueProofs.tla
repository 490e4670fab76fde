------------------------- MODULE PlaybackQueueProofs -------------------------
(***************************************************************************)
(* What TLAPS proves of the playback queue and of the unreleased songs.    *)
(*                                                                         *)
(* QueueStates, for any number of users and operations, any queues, and    *)
(* any time, as long as a statement is on its way no longer than an        *)
(* operation may take, and a tombstone is kept for two operations at       *)
(* least.  The argument: a stamp lies between the moment its operation was *)
(* handled and now, at most a statement's way after the former.  A         *)
(* tombstone keeps out what was stamped before the user's latest erasure;  *)
(* when it is gone, that erasure is too long ago for an operation of       *)
(* before to be still under way.                                           *)
(*                                                                         *)
(* PlayQueue, for any library and queues of any length.  The argument: the *)
(* play order lists every entry once (Lists), and each operation takes     *)
(* such a list apart and puts it together again; what was queued up next   *)
(* and what was queued up last stay apart, or shuffling would play an      *)
(* entry twice.                                                            *)
(*                                                                         *)
(* SavedQueue, for any of these queues and any size of the window.  The    *)
(* argument: a sequence that is kept in part keeps, of every element that  *)
(* is kept, its count and the ranks of its places (CountKept, RankKept).   *)
(* What is saved as the natural order thus holds the tracks of the window  *)
(* as often as the window, and an occurrence that is looked up by its      *)
(* track and rank is found, and is a different one for each place.         *)
(*                                                                         *)
(* UnreleasedBuilds, for any finite sets of artists, processes and         *)
(* readers.  The argument: what is stored never goes back, as a claim is   *)
(* for a later build only, and nobody holds a newer list than what is      *)
(* stored.  A lookup that reads the store is thus given no older list than *)
(* its reader had; one that waits for a build does so because nothing was  *)
(* stored when it read, so that its reader had none.                       *)
(***************************************************************************)
EXTENDS
  QueueStates, SavedQueue, UnreleasedBuilds, FilteringProofs, FiniteSetTheorems, TLAPS

-----------------------------------------------------------------------------
(* The inductive invariant                                                 *)

\* An operation has not outlived its timeout, nor its statement its way, and its
\* stamp is of that time.
OpInv(op) ==
  /\ op.handled <= now /\ now <= op.handled + OpTimeout
  /\ op.encoded # Never =>
       op.handled <= op.encoded /\ op.encoded <= now /\ now <= op.encoded + Transit
  /\ op.stamp # Never =>
       /\ op.handled <= op.stamp /\ op.stamp <= now
       /\ op.kind # "forget" => op.stamp <= op.handled + Transit

PastInv(u) == erased[u] # Never => erased[u] <= now

\* Without a row, the latest erasure is longer ago than an operation takes.
NoRowInv(u) == row[u] = NoRow /\ erased[u] # Never => erased[u] + Fence < now + OpTimeout

\* A row that can be read has a stamp after the latest erasure.
ReadableInv(u) ==
  Readable(u) =>
    /\ row[u].handled \in Nat
    /\ row[u].handled <= row[u].updated
    /\ row[u].updated <= row[u].handled + Transit
    /\ erased[u] # Never => erased[u] < row[u].updated

\* A tombstone has the stamp of the latest erasure, or that of one applied later.
TombstoneInv(u) ==
  row[u] # NoRow /\ row[u].erased # Never =>
    erased[u] # Never /\ erased[u] <= row[u].erased + OpTimeout

UserInv(u) == PastInv(u) /\ NoRowInv(u) /\ ReadableInv(u) /\ TombstoneInv(u)

Inv ==
  /\ TypeOK
  /\ \A op \in ops : OpInv(op)
  /\ \A u \in Users : UserInv(u)

-----------------------------------------------------------------------------
(* Facts                                                                   *)

LEMMA Bounds ==
  ASSUME TypeOK
  PROVE  /\ now \in Nat /\ MaxTime \in Nat
         /\ OpTimeout \in Nat /\ Transit \in Nat /\ Fence \in Nat
         /\ Transit <= OpTimeout /\ OpTimeout + OpTimeout <= Fence
         /\ Never \notin Nat /\ NoRow \notin Rows
BY QueueAssumption DEF TypeOK

\* What the fields of an operation are.
LEMMA OpFields ==
  ASSUME NEW op \in Ops
  PROVE  /\ op.user \in Users /\ op.handled \in Nat /\ op.handled <= MaxTime
         /\ op.encoded # Never => op.encoded \in Nat
         /\ op.stamp # Never => op.stamp \in Nat /\ op.stamp <= MaxTime
BY QueueAssumption DEF Ops

\* What the fields of a row are.
LEMMA RowFields ==
  ASSUME TypeOK, NEW u \in Users
  PROVE  /\ erased[u] # Never => erased[u] \in Nat
         /\ row[u] # NoRow =>
              /\ row[u] \in Rows
              /\ row[u].updated \in Nat
              /\ row[u].erased # Never => row[u].erased \in Nat
              /\ row[u].handled # Never => row[u].handled \in Nat
BY QueueAssumption DEF TypeOK, Rows

-----------------------------------------------------------------------------
(* Steps that leave the rows alone                                         *)

LEMMA OpsKeepInv ==
  ASSUME Inv, UNCHANGED <<now, row, erased>>, TypeOK', \A op \in ops' : OpInv(op)'
  PROVE  Inv'
BY DEF Inv, UserInv, PastInv, NoRowInv, ReadableInv, Readable, TombstoneInv

LEMMA AskKeepsInv ==
  ASSUME Inv, NEW op \in Ops, Ask(op),
         op.handled = now, op.encoded = Never, op.stamp = Never
  PROVE  Inv'
<1> USE DEF Ask
<1>1. TypeOK'
  BY QueueAssumption DEF Inv, TypeOK
<1>2. OpInv(op)'
  BY Bounds DEF OpInv, Inv
<1>3. \A o \in ops : OpInv(o)'
  BY DEF Inv, OpInv
<1> QED BY <1>1, <1>2, <1>3, OpsKeepInv

LEMMA OperationsAreTyped ==
  ASSUME TypeOK, NEW u \in Users
  PROVE  /\ \A q \in Queues : \A i \in DOMAIN q : Op("save", u, q, i, q[i]) \in Ops
         /\ \A p \in Positions : Op("position", u, <<>>, p[1], p[2]) \in Ops
         /\ Op("forget", u, <<>>, 0, Never) \in Ops
<1>1. \A q \in Queues : \A i \in DOMAIN q : i \in Nat /\ q[i] \in StoredTracks
  BY QueueAssumption DEF StoredTracks
<1>2. \A p \in Positions : p[1] \in Nat /\ p[2] \in StoredTracks
  BY <1>1 DEF Positions
<1> QED BY <1>1, <1>2 DEF Op, Ops, TypeOK

LEMMA EncodeKeepsInv ==
  ASSUME Inv, NEW op \in ops, Encode(op)
  PROVE  Inv'
<1> DEFINE sent == [op EXCEPT !.encoded = now]
<1>1. op \in Ops /\ OpInv(op)
  BY DEF Inv, TypeOK
<1>2. sent \in Ops
  BY <1>1 DEF Inv, TypeOK, Ops
<1>3. TypeOK'
  BY <1>2 DEF Inv, TypeOK, Encode, Becomes
<1>4. OpInv(sent)'
  <2>1. /\ sent.handled = op.handled /\ sent.kind = op.kind /\ sent.encoded = now
        /\ sent.stamp = Never /\ now' = now
    BY <1>1 DEF Ops, Encode, Becomes
  <2> QED BY <1>1, <2>1, Bounds, OpFields DEF Inv, OpInv
<1>5. \A o \in ops : OpInv(o)'
  BY DEF Inv, OpInv, Encode, Becomes
<1> QED BY <1>3, <1>4, <1>5, OpsKeepInv DEF Encode, Becomes

\* The stamp is the database's time, less what the save has waited before it was sent.
LEMMA EvaluateKeepsInv ==
  ASSUME Inv, NEW op \in ops, Evaluate(op)
  PROVE  Inv'
<1>0. PICK stamped : stamped = [op EXCEPT !.stamp = HandledAt(op), !.encoded = Never]
  OBVIOUS
<1>1. op \in Ops /\ OpInv(op)
  BY DEF Inv, TypeOK
<1>2. /\ HandledAt(op) \in 0..MaxTime
      /\ op.handled <= HandledAt(op) /\ HandledAt(op) <= now
      /\ op.kind # "forget" => HandledAt(op) <= op.handled + Transit
  BY <1>1, Bounds, OpFields DEF OpInv, Evaluate, HandledAt, HandlingAge, Inv, TypeOK
<1>3. stamped \in Ops
  BY <1>0, <1>1, <1>2 DEF Ops
<1>4. TypeOK'
  BY <1>0, <1>3 DEF Inv, TypeOK, Evaluate, Becomes
<1>5. OpInv(stamped)'
  <2>1. /\ stamped.handled = op.handled /\ stamped.kind = op.kind /\ stamped.encoded = Never
        /\ stamped.stamp = HandledAt(op) /\ now' = now
    BY <1>0, <1>1 DEF Ops, Evaluate, Becomes
  <2> QED BY <1>1, <1>2, <2>1 DEF OpInv
<1>6. \A o \in ops : OpInv(o)'
  BY DEF Inv, OpInv, Evaluate, Becomes
<1> QED BY <1>0, <1>4, <1>5, <1>6, OpsKeepInv DEF Evaluate, Becomes

LEMMA TimesOutKeepsInv ==
  ASSUME Inv, NEW op \in ops, TimesOut(op)
  PROVE  Inv'
<1>1. TypeOK' /\ \A o \in ops' : OpInv(o)'
  BY DEF Inv, TypeOK, OpInv, TimesOut
<1> QED BY <1>1, OpsKeepInv DEF TimesOut

LEMMA TickKeepsInv ==
  ASSUME Inv, Tick
  PROVE  Inv'
<1> USE DEF Tick
<1>1. TypeOK' /\ now' = now + 1 /\ now \in Nat
  BY Bounds DEF Inv, TypeOK
<1>2. \A op \in ops' : OpInv(op)'
  <2> SUFFICES ASSUME NEW op \in ops PROVE OpInv(op)'
    OBVIOUS
  <2>1. op \in Ops /\ OpInv(op)
    BY DEF Inv, TypeOK
  <2> QED BY <1>1, <2>1, Bounds, OpFields DEF OpInv, Inv
<1>3. \A u \in Users : UserInv(u)'
  <2> SUFFICES ASSUME NEW u \in Users PROVE UserInv(u)'
    OBVIOUS
  <2>1. UserInv(u)
    BY DEF Inv
  <2>2. PastInv(u)' /\ NoRowInv(u)'
    BY <1>1, <2>1, Bounds, RowFields DEF UserInv, PastInv, NoRowInv, Inv
  <2>3. ReadableInv(u)' /\ TombstoneInv(u)'
    BY <2>1 DEF UserInv, ReadableInv, Readable, TombstoneInv
  <2> QED BY <2>2, <2>3 DEF UserInv
<1> QED BY <1>1, <1>2, <1>3 DEF Inv

-----------------------------------------------------------------------------
(* Steps that change rows                                                  *)

\* What an operation that writes has to leave behind: the row of its user as it
\* should be, and that of every other user as it was, or reaped.
LEMMA RowsKeepInv ==
  ASSUME Inv, now' = now, asked' = asked, ops' \subseteq ops,
         row' \in [Users -> Rows \cup {NoRow}],
         erased' \in [Users -> 0..MaxTime \cup {Never}],
         \A u \in Users : UserInv(u)'
  PROVE  Inv'
BY DEF Inv, TypeOK, OpInv

\* A row that is as it was, or reaped.
LEMMA ReapedKeepsUserInv ==
  ASSUME Inv, NEW u \in Users, now' = now, (erased[u])' = erased[u],
         (row[u])' = row[u] \/ (ErasedPastFence(row[u]) /\ (row[u])' = NoRow)
  PROVE  UserInv(u)'
<1>1. UserInv(u)
  BY DEF Inv
<1>2. CASE (row[u])' = row[u]
  BY <1>1, <1>2 DEF UserInv, PastInv, NoRowInv, ReadableInv, Readable, TombstoneInv
<1>3. CASE ErasedPastFence(row[u]) /\ (row[u])' = NoRow
  <2>1. NoRowInv(u)'
    <3>1. erased[u] <= row[u].erased + OpTimeout /\ row[u].erased + Fence < now
      BY <1>1, <1>3 DEF UserInv, TombstoneInv, ErasedPastFence
    <3>2. erased[u] \in Nat /\ row[u].erased \in Nat
      BY <1>1, <1>3, RowFields DEF UserInv, TombstoneInv, ErasedPastFence, Inv
    <3> QED BY <3>1, <3>2, Bounds DEF NoRowInv, Inv
  <2> QED
    BY <1>1, <1>3, <2>1 DEF UserInv, PastInv, ReadableInv, Readable, TombstoneInv
<1> QED BY <1>2, <1>3

\* Whatever a save finds, it has a stamp after the latest erasure if it is taken.
LEMMA TakenIsLate ==
  ASSUME Inv, NEW op \in ops, op.stamp # Never, Takes(op),
         erased[op.user] # Never
  PROVE  erased[op.user] < op.stamp
<1> DEFINE u == op.user
<1>1. op \in Ops /\ OpInv(op)
  BY DEF Inv, TypeOK
<1>2. u \in Users /\ op.stamp \in Nat /\ op.handled \in Nat
  BY <1>1, OpFields
<1>3. UserInv(u) /\ erased[u] \in Nat
  BY <1>2, RowFields DEF Inv
<1>4. CASE row[u] = NoRow
  <2>1. erased[u] + Fence < now + OpTimeout
    BY <1>3, <1>4 DEF UserInv, NoRowInv
  <2>2. now <= op.stamp + OpTimeout
    BY <1>1, <1>2, Bounds DEF OpInv, Inv
  <2> QED BY <1>2, <1>3, <2>1, <2>2, Bounds DEF Inv
<1>5. CASE row[u] # NoRow /\ row[u].erased = Never
  <2>1. erased[u] < row[u].updated /\ row[u].updated <= op.stamp
    BY <1>3, <1>5 DEF UserInv, ReadableInv, Readable, Takes, Fresh
  <2>2. row[u].updated \in Nat
    BY <1>2, <1>5, RowFields DEF Inv
  <2> QED BY <1>2, <1>3, <2>1, <2>2
<1>6. CASE row[u] # NoRow /\ row[u].erased # Never
  <2>1. erased[u] <= row[u].erased + OpTimeout /\ row[u].erased + OpTimeout < op.stamp
    BY <1>3, <1>6 DEF UserInv, TombstoneInv, Takes, Unfenced
  <2>2. row[u].erased \in Nat
    BY <1>2, <1>6, RowFields DEF Inv
  <2> QED BY <1>2, <1>3, <2>1, <2>2, Bounds DEF Inv
<1> QED BY <1>4, <1>5, <1>6

\* A row that an operation writes and that can be read.
LEMMA WrittenKeepsUserInv ==
  ASSUME Inv, NEW op \in ops, op.stamp # Never, op.kind # "forget",
         now' = now, erased' = erased, (row[op.user])' \in Rows,
         (row[op.user])'.updated = op.stamp, (row[op.user])'.handled = op.handled,
         (row[op.user])'.erased = Never,
         erased[op.user] # Never => erased[op.user] < op.stamp
  PROVE  UserInv(op.user)'
<1>1. op \in Ops /\ OpInv(op)
  BY DEF Inv, TypeOK
<1>2. op.user \in Users /\ op.handled \in Nat
  BY <1>1, OpFields
<1>3. PastInv(op.user)' /\ NoRowInv(op.user)' /\ TombstoneInv(op.user)'
  BY <1>2, Bounds DEF Inv, UserInv, PastInv, NoRowInv, TombstoneInv
<1>4. ReadableInv(op.user)'
  BY <1>1, <1>2 DEF OpInv, ReadableInv, Readable
<1> QED BY <1>3, <1>4 DEF UserInv

LEMMA UpsertKeepsInv ==
  ASSUME Inv, NEW op \in ops, Upsert(op)
  PROVE  Inv'
<1> USE DEF Upsert, Done
<1>1. op \in Ops /\ op.user \in Users /\ row \in [Users -> Rows \cup {NoRow}]
  BY OpFields DEF Inv, TypeOK
<1>2. CASE ~ Takes(op)
  BY <1>1, <1>2, RowsKeepInv, ReapedKeepsUserInv DEF Inv, TypeOK
<1>3. CASE Takes(op)
  <2> DEFINE saved == [queue |-> op.queue, idx |-> op.idx, updated |-> op.stamp,
                       erased |-> Never, handled |-> op.handled]
  <2>1. saved \in Rows
    BY <1>1, OpFields DEF Ops, Rows
  <2>2. row' = [row EXCEPT ![op.user] = saved]
    BY <1>3
  <2>3. row' \in [Users -> Rows \cup {NoRow}] /\ (row[op.user])' = saved
    BY <1>1, <2>1, <2>2
  <2>4. UserInv(op.user)'
    BY <1>3, <2>1, <2>3, TakenIsLate, WrittenKeepsUserInv
  <2>5. \A u \in Users : UserInv(u)'
    BY <1>1, <2>2, <2>4, ReapedKeepsUserInv
  <2> QED BY <2>3, <2>5, RowsKeepInv DEF Inv, TypeOK
<1> QED BY <1>2, <1>3

LEMMA UpdatePositionKeepsInv ==
  ASSUME Inv, NEW op \in ops, UpdatePosition(op)
  PROVE  Inv'
<1> USE DEF UpdatePosition, Done
<1>1. op \in Ops /\ op.user \in Users /\ row \in [Users -> Rows \cup {NoRow}]
  BY OpFields DEF Inv, TypeOK
<1>2. CASE ~ Moves(op)
  BY <1>1, <1>2, RowsKeepInv, ReapedKeepsUserInv DEF Inv, TypeOK
<1>3. CASE Moves(op)
  <2> DEFINE moved == [row[op.user] EXCEPT !.idx = op.idx, !.updated = op.stamp,
                                           !.handled = op.handled]
  <2>1. row[op.user] \in Rows /\ row[op.user].updated \in Nat /\ op.stamp \in Nat
    BY <1>1, <1>3, RowFields, OpFields DEF Moves, Inv
  <2>2. moved \in Rows
    BY <1>1, <2>1, OpFields DEF Ops, Rows
  <2>3. row' = [row EXCEPT ![op.user] = moved]
    BY <1>3
  <2>4. row' \in [Users -> Rows \cup {NoRow}] /\ (row[op.user])' = moved
    BY <1>1, <2>2, <2>3
  <2>5. /\ moved.updated = op.stamp /\ moved.handled = op.handled
        /\ moved.erased = row[op.user].erased
    BY <2>1 DEF Rows
  <2>6. UserInv(op.user) /\ row[op.user] # NoRow /\ row[op.user].updated <= op.stamp
    BY <1>1, <1>3 DEF Inv, Moves, Fresh
  <2>7. UserInv(op.user)'
    <3>1. CASE row[op.user].erased = Never
      <4>1. erased[op.user] # Never => erased[op.user] < op.stamp
        BY <1>1, <2>1, <2>6, <3>1, RowFields DEF UserInv, ReadableInv, Readable, Inv
      <4> QED BY <2>2, <2>4, <2>5, <3>1, <4>1, WrittenKeepsUserInv
    <3>2. CASE row[op.user].erased # Never
      <4>1. PastInv(op.user)' /\ NoRowInv(op.user)' /\ ReadableInv(op.user)'
        BY <2>2, <2>4, <2>5, <2>6, <3>2, Bounds
           DEF Inv, UserInv, PastInv, NoRowInv, ReadableInv, Readable
      <4>2. TombstoneInv(op.user)'
        BY <2>4, <2>5, <2>6, <3>2 DEF UserInv, TombstoneInv
      <4> QED BY <4>1, <4>2 DEF UserInv
    <3> QED BY <3>1, <3>2
  <2>8. \A u \in Users : UserInv(u)'
    BY <1>1, <2>3, <2>7, ReapedKeepsUserInv
  <2> QED BY <2>4, <2>8, RowsKeepInv DEF Inv, TypeOK
<1> QED BY <1>2, <1>3

\* An erasure that is applied after a later one was handled before it, and less
\* than an operation's time ago.
LEMMA DeleteForUserKeepsInv ==
  ASSUME Inv, NEW op \in ops, DeleteForUser(op)
  PROVE  Inv'
<1> USE DEF DeleteForUser, Done
<1> DEFINE tombstone == [queue |-> <<>>, idx |-> 0, updated |-> op.stamp,
                         erased |-> op.stamp, handled |-> Never]
           latest == IF erased[op.user] # Never /\ erased[op.user] > op.stamp
                     THEN erased[op.user] ELSE op.stamp
<1>1. op \in Ops /\ OpInv(op) /\ op.user \in Users /\ op.stamp \in 0..MaxTime
      /\ op.handled \in Nat /\ op.stamp \in Nat
  BY OpFields DEF Inv, TypeOK, Ops
<1>2. row \in [Users -> Rows \cup {NoRow}] /\ erased \in [Users -> 0..MaxTime \cup {Never}]
  BY DEF Inv, TypeOK
<1>3. tombstone \in Rows
  BY <1>1 DEF Rows
<1>4. Reaped(op.user) \in [Users -> Rows \cup {NoRow}]
  BY <1>2 DEF Reaped
<1>5. row' \in [Users -> Rows \cup {NoRow}] /\ (row[op.user])' = tombstone
  BY <1>1, <1>3, <1>4
<1>6. latest \in 0..MaxTime /\ latest <= now /\ latest <= op.stamp + OpTimeout
  <2>1. op.stamp <= now /\ now <= op.stamp + OpTimeout
    BY <1>1, Bounds DEF OpInv, Inv
  <2>2. erased[op.user] # Never =>
          erased[op.user] \in 0..MaxTime /\ erased[op.user] \in Nat /\ erased[op.user] <= now
    BY <1>1, <1>2, RowFields DEF Inv, UserInv, PastInv
  <2> QED BY <1>1, <2>1, <2>2, Bounds DEF Inv
<1>7. /\ erased' \in [Users -> 0..MaxTime \cup {Never}]
      /\ (erased[op.user])' = latest
      /\ \A u \in Users \ {op.user} : (erased[u])' = erased[u]
  BY <1>1, <1>2, <1>6
<1>8. UserInv(op.user)'
  <2>1. tombstone # NoRow /\ tombstone.erased = op.stamp /\ op.stamp # Never /\ latest # Never
    BY <1>1, <1>3, <1>6, Bounds DEF Inv
  <2> QED
    BY <1>5, <1>6, <1>7, <2>1
       DEF UserInv, PastInv, NoRowInv, ReadableInv, Readable, TombstoneInv
<1>9. ASSUME NEW u \in Users, u # op.user PROVE UserInv(u)'
  <2>1. (row[u])' = row[u] \/ (ErasedPastFence(row[u]) /\ (row[u])' = NoRow)
    BY <1>2, <1>4, <1>9 DEF Reaped
  <2> QED BY <1>7, <1>9, <2>1, ReapedKeepsUserInv
<1> QED BY <1>5, <1>7, <1>8, <1>9, RowsKeepInv DEF Inv, TypeOK

LEMMA ReapKeepsInv ==
  ASSUME Inv, ReapErasedStates
  PROVE  Inv'
<1> USE DEF ReapErasedStates, Reaped
<1>1. row' \in [Users -> Rows \cup {NoRow}]
  BY DEF Inv, TypeOK
<1>2. ASSUME NEW u \in Users PROVE UserInv(u)'
  <2>1. (row[u])' = row[u] \/ (ErasedPastFence(row[u]) /\ (row[u])' = NoRow)
    BY DEF Inv, TypeOK
  <2> QED BY <2>1, ReapedKeepsUserInv
<1> QED BY <1>1, <1>2, RowsKeepInv DEF Inv, TypeOK

\* Every step keeps the invariant.
LEMMA StepKeepsInv ==
  ASSUME Inv, [Next]_vars
  PROVE  Inv'
<1>1. CASE UNCHANGED vars
  BY <1>1, OpsKeepInv DEF vars, Inv, TypeOK, OpInv
<1>2. ASSUME NEW u \in Users, Save(u) \/ SavePosition(u) \/ Forget(u) PROVE Inv'
  BY <1>2, AskKeepsInv, OperationsAreTyped DEF Inv, Save, SavePosition, Forget, Op
<1>3. ASSUME NEW op \in ops, Encode(op) \/ Evaluate(op) \/ TimesOut(op) PROVE Inv'
  BY <1>3, EncodeKeepsInv, EvaluateKeepsInv, TimesOutKeepsInv
<1>4. ASSUME NEW op \in ops, Upsert(op) \/ UpdatePosition(op) \/ DeleteForUser(op)
      PROVE  Inv'
  BY <1>4, UpsertKeepsInv, UpdatePositionKeepsInv, DeleteForUserKeepsInv
<1>5. CASE ReapErasedStates
  BY <1>5, ReapKeepsInv
<1>6. CASE Tick
  BY <1>6, TickKeepsInv
<1> QED BY <1>1, <1>2, <1>3, <1>4, <1>5, <1>6 DEF Next

LEMMA InvHolds ==
  Spec => []Inv
<1>1. Init => Inv
  BY QueueAssumption
  DEF Init, Inv, TypeOK, UserInv, PastInv, NoRowInv, ReadableInv, Readable, TombstoneInv
<1>2. Inv /\ [Next]_vars => Inv'
  BY StepKeepsInv
<1> QED BY <1>1, <1>2, PTL DEF Spec

-----------------------------------------------------------------------------
(* Theorems                                                                *)

\* Rows, stamps and operations under way stay well formed, however many users and
\* operations there are.
THEOREM StatesTypeCorrect ==
  Spec => []TypeOK
<1>1. Inv => TypeOK
  BY DEF Inv
<1> QED BY <1>1, InvHolds, PTL

\* What GetForUser gives back was handled after the user's latest erasure, but for
\* a statement's way to the database: Upsert, UpdatePosition and DeleteForUser in
\* any order, and the reaper whenever it comes.
THEOREM NothingErasedComesBack ==
  Spec => []ErasedStaysErased
<1>1. Inv => ErasedStaysErased
  <2> SUFFICES ASSUME Inv, NEW u \in Users, Readable(u), erased[u] # Never
               PROVE  erased[u] < row[u].handled + Transit
    BY DEF ErasedStaysErased
  <2>1. /\ row[u].handled \in Nat /\ erased[u] < row[u].updated
        /\ row[u].updated <= row[u].handled + Transit
    BY DEF Inv, UserInv, ReadableInv
  <2>2. erased[u] \in Nat /\ row[u].updated \in Nat
    BY RowFields DEF Readable, Inv
  <2> QED BY <2>1, <2>2, Bounds DEF Inv
<1> QED BY <1>1, InvHolds, PTL

\* No save or position replaces one that the server handled after it by more than
\* a statement's way to the database.
THEOREM NoSaveIsReplacedByAnOlderOne ==
  Spec => NewerSaveWins
<1> DEFINE Wins(u) == Readable(u) /\ row[u]' # row[u] /\ row[u]' # NoRow
                        /\ row[u]'.erased = Never => row[u].handled <= row[u]'.handled + Transit
<1>1. ASSUME Inv, [Next]_vars, NEW u \in Users PROVE Wins(u)
  <2> SUFFICES ASSUME Readable(u), row[u]' # row[u], row[u]' # NoRow, row[u]'.erased = Never
               PROVE  row[u].handled <= row[u]'.handled + Transit
    OBVIOUS
  <2>1. row \in [Users -> Rows \cup {NoRow}] /\ row[u] \in Rows /\ row[u].updated \in Nat
    BY <1>1, RowFields DEF Inv, TypeOK, Readable
  <2>2. PICK op \in ops : Upsert(op) \/ UpdatePosition(op) \/ DeleteForUser(op)
    BY <1>1, <2>1 DEF Next, vars, Save, SavePosition, Forget, Ask, Encode, Evaluate, Becomes,
       TimesOut, ReapErasedStates, Reaped, Tick
  <2>3. op \in Ops /\ OpInv(op) /\ op.user \in Users /\ op.stamp \in Nat /\ op.handled \in Nat
    BY <1>1, <2>2, OpFields DEF Inv, TypeOK, Upsert, UpdatePosition, DeleteForUser, Done
  <2>4. ~ DeleteForUser(op)
    <3> SUFFICES ASSUME DeleteForUser(op) PROVE FALSE
      OBVIOUS
    <3>1. Reaped(op.user) = [v \in Users |-> Reaped(op.user)[v]]
      BY DEF Reaped
    <3>2. CASE u = op.user
      <4>1. row[u]'.erased = op.stamp
        BY <2>3, <3>1, <3>2 DEF DeleteForUser, Done
      <4> QED BY <2>3, <4>1, Bounds, <1>1 DEF Inv
    <3>3. CASE u # op.user
      BY <2>1, <2>3, <3>1, <3>3 DEF DeleteForUser, Done, Reaped
    <3> QED BY <3>2, <3>3
  <2>5. /\ u = op.user /\ row[u].updated <= op.stamp
        /\ row[u]'.handled = op.handled
        /\ op.stamp <= op.handled + Transit
    <3>1. CASE Upsert(op)
      BY <2>1, <2>3, <3>1 DEF Upsert, Done, Takes, Fresh, OpInv, Readable
    <3>2. CASE UpdatePosition(op)
      BY <2>1, <2>3, <3>2 DEF UpdatePosition, Done, Moves, Fresh, OpInv, Rows
    <3> QED BY <2>2, <2>4, <3>1, <3>2
  <2>6. row[u].handled \in Nat /\ row[u].handled <= row[u].updated
    BY <1>1 DEF Inv, UserInv, ReadableInv
  <2> QED BY <1>1, <2>1, <2>3, <2>5, <2>6, Bounds DEF Inv
<1>2. Inv /\ [Next]_vars => [\A u \in Users : Wins(u)]_row
  BY <1>1
<1> QED BY <1>2, InvHolds, PTL DEF Spec, NewerSaveWins

-----------------------------------------------------------------------------
(* Sequences that list a set                                               *)

\* s lists the elements of S, each of them once.
Lists(s, S) ==
  /\ s \in Seq(S)
  /\ \A i, j \in 1..Len(s) : s[i] = s[j] => i = j
  /\ \A x \in S : \E i \in 1..Len(s) : s[i] = x

LEMMA ListsLength ==
  ASSUME NEW s, NEW n \in Nat, Lists(s, 1..n)
  PROVE  Len(s) = n
<1>0. s \in Seq(1..n)
  BY DEF Lists
<1>1. Len(s) \in Nat /\ s \in [1..Len(s) -> 1..n]
  BY <1>0
<1>2. s \in Surjection(1..Len(s), 1..n)
  BY <1>1 DEF Lists, Surjection
<1>3. s \in Injection(1..Len(s), 1..n)
  BY <1>1 DEF Lists, Injection, IsInjective
<1>4. IsFiniteSet(1..n) /\ Cardinality(1..n) = n
  BY FS_Interval
<1>5. Cardinality(1..Len(s)) = Len(s)
  <2>1. PICK m \in Nat : m = Len(s)
    BY <1>1
  <2>2. Cardinality(1..m) = m
    BY FS_Interval
  <2> QED BY <2>1, <2>2
<1>6. Cardinality(1..Len(s)) = Cardinality(1..n)
  BY <1>2, <1>3, <1>4, FS_Injection
<1> QED BY <1>4, <1>5, <1>6

\* As many different elements of a finite set as it has are all of them.
LEMMA AllAreListed ==
  ASSUME NEW S, IsFiniteSet(S), NEW n \in Nat, n = Cardinality(S), NEW s \in [1..n -> S],
         \A i, j \in 1..n : s[i] = s[j] => i = j
  PROVE  Lists(s, S)
<1>1. s \in Seq(S) /\ Len(s) = n
  OBVIOUS
<1>2. s \in Injection(1..n, S)
  BY DEF Injection, IsInjective
<1>3. Cardinality(1..n) = n
  BY FS_Interval
<1>4. s \in Surjection(1..n, S)
  BY <1>2, <1>3, FS_Injection
<1>5. \A x \in S : \E i \in 1..n : s[i] = x
  BY <1>4 DEF Surjection
<1> QED BY <1>1, <1>5 DEF Lists

\* The first c elements of a list, and the others.
LEMMA ListsParts ==
  ASSUME NEW s, NEW S, Lists(s, S), NEW c \in 0..Len(s)
  PROVE  \E K \in SUBSET S :
            /\ Lists(SubSeq(s, 1, c), K)
            /\ Lists(SubSeq(s, c + 1, Len(s)), S \ K)
<1>1. s \in Seq(S) /\ Len(s) \in Nat /\ c \in Nat
  BY DEF Lists
<1>2. PICK a : a = SubSeq(s, 1, c)
  OBVIOUS
<1>3. PICK b : b = SubSeq(s, c + 1, Len(s))
  OBVIOUS
<1>4. PICK K : K = {s[i] : i \in 1..c}
  OBVIOUS
<1>5. a \in Seq(S) /\ Len(a) = c /\ \A i \in 1..c : a[i] = s[i]
  BY <1>1, <1>2
<1>6. b \in Seq(S)
  BY <1>1, <1>3
<1>7. Len(b) = Len(s) - c /\ \A i \in 1..(Len(s) - c) : b[i] = s[i + c]
  BY <1>1, <1>3
<1>8. K \subseteq S
  BY <1>1, <1>4
<1>9. Lists(a, K)
  <2>1. \A i \in 1..c : a[i] \in K
    BY <1>4, <1>5
  <2>2. a \in Seq(K)
    BY <1>5, <2>1
  <2>3. \A i \in 1..c : i \in 1..Len(s)
    BY <1>1
  <2>4. \A i, j \in 1..c : a[i] = a[j] => i = j
    <3>1. \A i, j \in 1..Len(s) : s[i] = s[j] => i = j
      BY DEF Lists
    <3>2. \A i, j \in 1..c : s[i] = s[j] => i = j
      BY <2>3, <3>1
    <3> QED BY <1>5, <3>2
  <2>5. \A x \in K : \E i \in 1..c : a[i] = x
    BY <1>4, <1>5
  <2> QED BY <1>5, <2>2, <2>4, <2>5 DEF Lists
<1>10. Lists(b, S \ K)
  <2>1. \A i \in 1..Len(b) : i + c \in 1..Len(s) /\ i + c \notin 1..c /\ b[i] = s[i + c]
    BY <1>1, <1>7
  <2>2. \A i \in 1..c : i \in 1..Len(s)
    BY <1>1
  <2>3. ASSUME NEW i \in 1..Len(b) PROVE b[i] \in S \ K
    <3>1. b[i] \in S
      BY <1>6
    <3>2. \A k \in 1..c : s[k] # s[i + c]
      BY <2>1, <2>2 DEF Lists
    <3> QED BY <1>4, <2>1, <3>1, <3>2
  <2>4. b \in Seq(S \ K)
    BY <1>6, <2>3
  <2>5. ASSUME NEW i \in 1..Len(b), NEW j \in 1..Len(b), b[i] = b[j] PROVE i = j
    <3>1. s[i + c] = s[j + c] /\ i + c \in 1..Len(s) /\ j + c \in 1..Len(s)
      BY <2>1, <2>5
    <3>2. i + c = j + c
      BY <3>1 DEF Lists
    <3> QED BY <1>1, <3>2
  <2>6. ASSUME NEW x \in S \ K PROVE \E i \in 1..Len(b) : b[i] = x
    <3>1. PICK k \in 1..Len(s) : s[k] = x
      BY DEF Lists
    <3>2. k \notin 1..c
      BY <1>4, <3>1
    <3>3. k - c \in 1..Len(b) /\ (k - c) + c = k
      BY <1>1, <1>7, <3>2
    <3> QED BY <2>1, <3>1, <3>3
  <2> QED BY <2>4, <2>5, <2>6 DEF Lists
<1> QED BY <1>2, <1>3, <1>8, <1>9, <1>10

LEMMA ListsBoth ==
  ASSUME NEW s, NEW S, Lists(s, S), NEW t, NEW T, Lists(t, T), S \cap T = {}
  PROVE  Lists(s \o t, S \cup T)
<1>1. s \in Seq(S \cup T) /\ t \in Seq(S \cup T) /\ Len(s) \in Nat /\ Len(t) \in Nat
  BY DEF Lists
<1>2. PICK u : u = s \o t
  OBVIOUS
<1>3. u \in Seq(S \cup T) /\ Len(u) = Len(s) + Len(t)
  BY <1>1, <1>2
<1>4. \A i \in 1..Len(s) : u[i] = s[i] /\ u[i] \in S /\ i \in 1..Len(u)
  BY <1>1, <1>2, <1>3 DEF Lists
<1>5. \A i \in 1..Len(t) : u[i + Len(s)] = t[i]
  BY <1>1, <1>2
<1>6. \A i \in 1..Len(t) : t[i] \in T /\ i + Len(s) \in 1..Len(u) /\ i + Len(s) \notin 1..Len(s)
  <2>1. \A i \in 1..Len(t) : t[i] \in T
    BY DEF Lists
  <2>2. \A i \in 1..Len(t) : i + Len(s) \in 1..(Len(s) + Len(t)) /\ i + Len(s) \notin 1..Len(s)
    BY <1>1
  <2> QED BY <1>3, <2>1, <2>2
<1>7. \A i \in 1..Len(u) : i \notin 1..Len(s) => i - Len(s) \in 1..Len(t) /\ (i - Len(s)) + Len(s) = i
  BY <1>1, <1>3
<1>8. \A i \in 1..Len(u) : i \notin 1..Len(s) => u[i] = t[i - Len(s)] /\ u[i] \in T
  BY <1>5, <1>6, <1>7
<1>9. ASSUME NEW i \in 1..Len(u), NEW j \in 1..Len(u), u[i] = u[j] PROVE i = j
  <2>1. CASE i \in 1..Len(s) /\ j \in 1..Len(s)
    BY <1>4, <1>9, <2>1 DEF Lists
  <2>2. CASE i \notin 1..Len(s) /\ j \notin 1..Len(s)
    <3>1. i - Len(s) = j - Len(s)
      BY <1>7, <1>8, <1>9, <2>2 DEF Lists
    <3> QED BY <1>1, <3>1
  <2>3. ~ ((i \in 1..Len(s)) # (j \in 1..Len(s)))
    BY <1>4, <1>8, <1>9
  <2> QED BY <2>1, <2>2, <2>3
<1>10. ASSUME NEW x \in S \cup T PROVE \E i \in 1..Len(u) : u[i] = x
  <2>1. CASE x \in S
    BY <1>4, <2>1 DEF Lists
  <2>2. CASE x \in T
    BY <1>5, <1>6, <2>2 DEF Lists
  <2> QED BY <2>1, <2>2
<1> QED BY <1>2, <1>3, <1>9, <1>10 DEF Lists

LEMMA ListsOne ==
  ASSUME NEW x
  PROVE  Lists(<<x>>, {x})
BY DEF Lists

LEMMA ListsOnly ==
  ASSUME NEW s, NEW S, Lists(s, S), NEW T
  PROVE  Lists(Only(s, T), S \cap T)
<1>1. s \in Seq(S) /\ Len(s) \in Nat
  BY DEF Lists
<1>2. PICK r : r = Only(s, T)
  OBVIOUS
<1>3. r \in Seq(S) /\ Filters(s, T, Len(s), r) /\ Len(r) \in Nat
  BY <1>1, <1>2, OnlyKeeps
<1>4. \A i \in 1..Len(r) : r[i] \in S \cap T
  BY <1>3 DEF Filters
<1>5. r \in Seq(S \cap T)
  BY <1>3, <1>4
<1>6. ASSUME NEW i \in 1..Len(r), NEW j \in 1..Len(r), i < j PROVE r[i] # r[j]
  <2>1. PICK k \in 1..Len(s), l \in 1..Len(s) : k < l /\ s[k] = r[i] /\ s[l] = r[j]
    BY <1>3, <1>6 DEF Filters
  <2>2. k # l
    BY <2>1
  <2> QED BY <2>1, <2>2 DEF Lists
<1>7. \A i, j \in 1..Len(r) : r[i] = r[j] => i = j
  BY <1>3, <1>6
<1>8. ASSUME NEW x \in S \cap T PROVE \E i \in 1..Len(r) : r[i] = x
  <2>1. PICK k \in 1..Len(s) : s[k] = x
    BY DEF Lists
  <2> QED BY <1>3, <2>1 DEF Filters
<1> QED BY <1>2, <1>5, <1>7, <1>8 DEF Lists

LEMMA Joined ==
  ASSUME NEW X, NEW s \in Seq(X), NEW t \in Seq(X), NEW m \in Nat, m = Len(s)
  PROVE  /\ s \o t \in Seq(X) /\ Len(s \o t) = m + Len(t)
         /\ \A j \in 1..m : (s \o t)[j] = s[j]
         /\ \A j \in 1..Len(t) : (s \o t)[j + m] = t[j]
OBVIOUS

LEMMA Between ==
  ASSUME NEW X, NEW s \in Seq(X), NEW a \in 1..(Len(s) + 1)
  PROVE  /\ SubSeq(s, a, Len(s)) \in Seq(X)
         /\ Len(SubSeq(s, a, Len(s))) = Len(s) - a + 1
         /\ \A j \in 1..(Len(s) - a + 1) : SubSeq(s, a, Len(s))[j] = s[j + a - 1]
         /\ SubSeq(s, 1, a - 1) \in Seq(X)
         /\ Len(SubSeq(s, 1, a - 1)) = a - 1
         /\ \A j \in 1..(a - 1) : SubSeq(s, 1, a - 1)[j] = s[j]
OBVIOUS

\* t is s with x at i.
HasInserted(t, s, i, x) ==
  /\ Len(t) = Len(s) + 1
  /\ \A j \in 1..(Len(s) + 1) : t[j] = IF j < i THEN s[j] ELSE IF j = i THEN x ELSE s[j - 1]

LEMMA ListsInserted ==
  ASSUME NEW s, NEW S, Lists(s, S), NEW i \in 1..(Len(s) + 1), NEW x, x \notin S
  PROVE  Lists(InsertAt(s, i, x), S \cup {x}) /\ HasInserted(InsertAt(s, i, x), s, i, x)
<1>1. s \in Seq(S) /\ Len(s) \in Nat
  BY DEF Lists
<1>2. PICK a : a = SubSeq(s, 1, i - 1)
  OBVIOUS
<1>3. PICK b : b = SubSeq(s, i, Len(s))
  OBVIOUS
<1>4. i - 1 \in 0..Len(s) /\ (i - 1) + 1 = i
  BY <1>1
<1>5. PICK K \in SUBSET S : Lists(a, K) /\ Lists(b, S \ K)
  BY <1>2, <1>3, <1>4, ListsParts
<1>6. Lists(<<x>> \o b, {x} \cup (S \ K))
  BY <1>5, ListsOne, ListsBoth
<1>7. Lists(a \o (<<x>> \o b), K \cup ({x} \cup (S \ K)))
  BY <1>5, <1>6, ListsBoth
<1>8. K \cup ({x} \cup (S \ K)) = S \cup {x}
  OBVIOUS
<1>9. a \in Seq(S \cup {x}) /\ b \in Seq(S \cup {x}) /\ <<x>> \in Seq(S \cup {x})
  BY <1>1, <1>2, <1>3, <1>4
<1>10. a \o (<<x>> \o b) = (a \o <<x>>) \o b
  BY <1>9
<1>11. InsertAt(s, i, x) = (a \o <<x>>) \o b
  BY <1>2, <1>3 DEF InsertAt
<1>12. Lists(InsertAt(s, i, x), S \cup {x})
  BY <1>7, <1>8, <1>10, <1>11
<1>13. Len(a) = i - 1 /\ \A j \in 1..(i - 1) : a[j] = s[j]
  BY <1>1, <1>2, <1>4
<1>14. Len(b) = Len(s) - i + 1 /\ \A j \in 1..(Len(s) - i + 1) : b[j] = s[j + i - 1]
  BY <1>1, <1>3, <1>4
<1>15. PICK u : u = a \o <<x>>
  OBVIOUS
<1>16. u \in Seq(S \cup {x}) /\ Len(u) = i
  BY <1>9, <1>13, <1>15
<1>17. \A j \in 1..i : u[j] = IF j < i THEN s[j] ELSE x
  BY <1>9, <1>13, <1>15
<1>18. Len(u \o b) = Len(s) + 1
  <2>1. i \in Nat /\ i + (Len(s) - i + 1) = Len(s) + 1
    BY <1>1
  <2> QED BY <1>9, <1>14, <1>16, <2>1, Joined
<1>19. ASSUME NEW j \in 1..(Len(s) + 1)
       PROVE  (u \o b)[j] = IF j < i THEN s[j] ELSE IF j = i THEN x ELSE s[j - 1]
  <2>1. CASE j <= i
    <3>1. i \in Nat /\ j \in 1..i /\ i = Len(u)
      BY <1>1, <1>16, <2>1
    <3>2. \A l \in 1..i : (u \o b)[l] = u[l]
      BY <1>9, <1>16, <3>1, Joined
    <3>3. u[j] = IF j < i THEN s[j] ELSE x
      BY <1>17, <3>1
    <3>4. j < i \/ j = i
      BY <3>1
    <3> QED BY <3>1, <3>2, <3>3, <3>4
  <2>2. CASE j > i
    <3>1. j - i \in 1..(Len(s) - i + 1) /\ (j - i) + i - 1 = j - 1
      BY <1>1, <2>2
    <3>2. (u \o b)[j] = b[j - i]
      <4>1. PICK k \in 1..Len(b) : k = j - i /\ k + i = j
        BY <1>1, <1>14, <3>1
      <4>2. i \in Nat /\ i = Len(u)
        BY <1>16
      <4>3. \A l \in 1..Len(b) : (u \o b)[l + i] = b[l]
        BY <1>9, <1>16, <4>2, Joined
      <4> QED BY <4>1, <4>3
    <3>3. b[j - i] = s[j - 1]
      BY <1>14, <3>1
    <3> QED BY <1>1, <2>2, <3>2, <3>3
  <2>3. j <= i \/ j > i
    OBVIOUS
  <2> QED BY <2>1, <2>2, <2>3
<1> QED BY <1>11, <1>12, <1>15, <1>18, <1>19 DEF HasInserted

LEMMA RemovedAt ==
  ASSUME NEW X, NEW s \in Seq(X), NEW at \in 1..Len(s)
  PROVE  /\ RemoveAt(s, at) \in Seq(X)
         /\ Len(RemoveAt(s, at)) = Len(s) - 1
         /\ \A j \in 1..(Len(s) - 1) : RemoveAt(s, at)[j] = IF j < at THEN s[j] ELSE s[j + 1]
<1>1. PICK m \in Nat : m = at - 1 /\ m + 1 = at
  OBVIOUS
<1>2. PICK a : a = SubSeq(s, 1, m)
  OBVIOUS
<1>3. PICK b : b = SubSeq(s, at + 1, Len(s))
  OBVIOUS
<1>4. a \in Seq(X) /\ Len(a) = m /\ \A j \in 1..m : a[j] = s[j]
  BY <1>1, <1>2
<1>5. b \in Seq(X) /\ Len(b) = Len(s) - at /\ \A j \in 1..(Len(s) - at) : b[j] = s[j + at]
  <2>1. PICK c \in 1..(Len(s) + 1) : c = at + 1
    OBVIOUS
  <2>2. b \in Seq(X) /\ Len(b) = Len(s) - c + 1
    BY <1>3, <2>1, Between
  <2>3. \A j \in 1..(Len(s) - c + 1) : b[j] = s[j + c - 1]
    BY <1>3, <2>1, Between
  <2>4. Len(s) - c + 1 = Len(s) - at /\ \A j \in 1..(Len(s) - at) : j + c - 1 = j + at
    BY <2>1
  <2> QED BY <2>2, <2>3, <2>4
<1>6. PICK u : u = a \o b
  OBVIOUS
<1>7. RemoveAt(s, at) = u
  BY <1>1, <1>2, <1>3, <1>6 DEF RemoveAt
<1>8. u \in Seq(X) /\ Len(u) = m + Len(b) /\ \A j \in 1..m : u[j] = a[j]
  <2>1. a \in Seq(X) /\ b \in Seq(X) /\ m = Len(a)
    BY <1>4, <1>5
  <2>2. /\ a \o b \in Seq(X) /\ Len(a \o b) = m + Len(b)
        /\ \A j \in 1..m : (a \o b)[j] = a[j]
    BY <2>1, Joined
  <2> QED BY <1>6, <2>2
<1>9. \A j \in 1..Len(b) : u[j + m] = b[j]
  <2>1. m = Len(a) /\ a \in Seq(X) /\ b \in Seq(X)
    BY <1>4, <1>5
  <2>2. \A j \in 1..Len(b) : (a \o b)[j + m] = b[j]
    BY <2>1, Joined
  <2> QED BY <1>6, <2>2
<1>10. Len(u) = Len(s) - 1
  BY <1>1, <1>8, <1>5
<1>11. ASSUME NEW j \in 1..(Len(s) - 1) PROVE u[j] = IF j < at THEN s[j] ELSE s[j + 1]
  <2>1. CASE j < at
    <3>1. j \in 1..m
      BY <1>1, <2>1
    <3> QED BY <1>8, <1>4, <2>1, <3>1
  <2>2. CASE ~ (j < at)
    <3>1. j - m \in 1..Len(b) /\ (j - m) + m = j /\ (j - m) + at = j + 1
      BY <1>1, <1>5, <2>2
    <3> QED BY <1>9, <1>5, <2>2, <3>1
  <2> QED BY <2>1, <2>2
<1> QED BY <1>7, <1>8, <1>10, <1>11

LEMMA ListsRemoved ==
  ASSUME NEW s, NEW S, Lists(s, S), NEW at \in 1..Len(s)
  PROVE  Lists(RemoveAt(s, at), S \ {s[at]})
<1>1. s \in Seq(S) /\ Len(s) \in Nat
  BY DEF Lists
<1>2. PICK r : r = RemoveAt(s, at)
  OBVIOUS
<1>3. r \in Seq(S) /\ Len(r) = Len(s) - 1
  BY <1>1, <1>2, RemovedAt
<1>4. \A j \in 1..Len(r) : r[j] = IF j < at THEN s[j] ELSE s[j + 1]
  BY <1>1, <1>2, <1>3, RemovedAt
<1>6. \A j \in 1..Len(r) : r[j] # s[at]
  <2>1. ASSUME NEW j \in 1..Len(r) PROVE r[j] # s[at]
    <3>1. PICK k \in 1..Len(s) : k = (IF j < at THEN j ELSE j + 1) /\ k # at
      BY <1>1, <1>3
    <3>2. r[j] = s[k]
      BY <1>4, <3>1
    <3>3. s[k] # s[at]
      BY <3>1 DEF Lists
    <3> QED BY <3>2, <3>3
  <2> QED BY <2>1
<1>7. r \in Seq(S \ {s[at]})
  BY <1>3, <1>6
<1>8. ASSUME NEW i \in 1..Len(r), NEW j \in 1..Len(r), r[i] = r[j] PROVE i = j
  <2>1. PICK k \in 1..Len(s) : k = (IF i < at THEN i ELSE i + 1)
    BY <1>1, <1>3
  <2>2. PICK l \in 1..Len(s) : l = (IF j < at THEN j ELSE j + 1)
    BY <1>1, <1>3
  <2>3. s[k] = s[l]
    BY <1>4, <1>8, <2>1, <2>2
  <2>4. k = l
    BY <2>3 DEF Lists
  <2> QED BY <1>1, <1>3, <2>1, <2>2, <2>4
<1>9. ASSUME NEW x \in S \ {s[at]} PROVE \E j \in 1..Len(r) : r[j] = x
  <2>1. PICK k \in 1..Len(s) : s[k] = x
    BY DEF Lists
  <2>2. k # at
    BY <1>9, <2>1
  <2>3. PICK j \in 1..Len(r) : k = (IF j < at THEN j ELSE j + 1)
    <3>1. CASE k < at
      BY <1>1, <1>3, <3>1
    <3>2. CASE k > at
      <4>1. k - 1 \in 1..Len(r) /\ k = (IF k - 1 < at THEN k - 1 ELSE (k - 1) + 1)
        BY <1>1, <1>3, <3>2
      <4> QED BY <4>1
    <3> QED BY <1>1, <2>2, <3>1, <3>2
  <2>4. r[j] = s[k]
    BY <1>4, <2>3
  <2> QED BY <2>1, <2>4
<1> QED BY <1>2, <1>7, <1>8, <1>9 DEF Lists

\* What is left of a list without one of its elements.
LEMMA OnlyOthers ==
  ASSUME NEW s, NEW S, Lists(s, S), NEW at \in 1..Len(s)
  PROVE  Only(s, ToSet(s) \ {s[at]}) = RemoveAt(s, at)
<1>1. s \in Seq(S) /\ Len(s) \in Nat
  BY DEF Lists
<1>2. PICK T : T = ToSet(s) \ {s[at]}
  OBVIOUS
<1>3. \A n \in 1..Len(s) : s[n] \in T <=> n # at
  <2>1. DOMAIN s = 1..Len(s)
    BY <1>1
  <2>2. \A n \in 1..Len(s) : s[n] \in ToSet(s)
    BY <2>1 DEF ToSet
  <2>3. \A n \in 1..Len(s) : s[n] = s[at] <=> n = at
    BY DEF Lists
  <2> QED BY <1>2, <2>2, <2>3
<1>4. PICK f : f = [n \in 0..Len(s) |-> Step(s, T, f, n)] /\ Only(s, T) = f[Len(s)]
  BY <1>1, OnlyDefined
<1> DEFINE Size(n) == IF n < at THEN n ELSE n - 1
<1>5. PICK D : D = {n \in 0..Len(s) :
                      /\ f[n] \in Seq(S) /\ Len(f[n]) = Size(n)
                      /\ \A j \in 1..Size(n) : f[n][j] = IF j < at THEN s[j] ELSE s[j + 1]}
  OBVIOUS
<1>6. 0 \in D
  <2>1. f[0] = <<>> /\ 0 \in 0..Len(s)
    BY <1>1, <1>4 DEF Step
  <2>2. Size(0) = 0
    BY <1>1
  <2>3. f[0] \in Seq(S) /\ Len(f[0]) = 0
    BY <2>1
  <2>4. \A j \in 1..Size(0) : FALSE
    BY <2>2
  <2> HIDE DEF Size
  <2> QED BY <1>5, <2>1, <2>2, <2>3, <2>4
<1>7. ASSUME NEW n \in D, n \in 0..(Len(s) - 1) PROVE n + 1 \in D
  <2>1. n \in Nat /\ n + 1 \in 0..Len(s) /\ n + 1 \in 1..Len(s) /\ n + 1 # 0 /\ (n + 1) - 1 = n
    BY <1>1, <1>7
  <2>2. f[n + 1] = Step(s, T, f, n + 1)
    BY <1>4, <2>1
  <2>3. f[n + 1] = IF n + 1 # at THEN Append(f[n], s[n + 1]) ELSE f[n]
    BY <1>3, <2>1, <2>2 DEF Step
  <2>4. PICK p \in Seq(S) : p = f[n]
    BY <1>5
  <2>5. Len(p) = Size(n) /\ \A j \in 1..Size(n) : p[j] = IF j < at THEN s[j] ELSE s[j + 1]
    BY <1>5, <2>4
  <2>6. CASE n + 1 = at
    <3>1. Size(n + 1) = Size(n) /\ f[n + 1] = p
      BY <1>1, <2>1, <2>3, <2>4, <2>6
    <3> QED BY <1>5, <2>1, <2>4, <2>5, <3>1
  <2>7. CASE n + 1 # at
    <3>1. PICK q : q = Append(p, s[n + 1])
      OBVIOUS
    <3>2. s[n + 1] \in S
      BY <1>1, <2>1
    <3>3. Size(n) \in Nat /\ Size(n + 1) = Size(n) + 1
      BY <1>1, <2>1, <2>7
    <3>4. q \in Seq(S) /\ Len(q) = Size(n + 1)
      BY <2>5, <3>1, <3>2, <3>3
    <3>5. q[Size(n + 1)] = s[n + 1] /\ \A j \in 1..Size(n) : q[j] = p[j]
      BY <2>5, <3>1, <3>2, <3>3
    <3>6. n + 1 = IF Size(n + 1) < at THEN Size(n + 1) ELSE Size(n + 1) + 1
      BY <1>1, <2>1, <2>7
    <3>7. \A j \in 1..Size(n + 1) : j \in 1..Size(n) \/ j = Size(n + 1)
      BY <3>3
    <3>8. \A j \in 1..Size(n + 1) : q[j] = IF j < at THEN s[j] ELSE s[j + 1]
      BY <2>5, <3>5, <3>6, <3>7
    <3>9. f[n + 1] = q
      BY <2>3, <2>4, <2>7, <3>1
    <3> QED BY <1>5, <2>1, <3>4, <3>8, <3>9
  <2> QED BY <2>6, <2>7
<1>8. Len(s) \in D
  <2>1. Len(s) \in 0..Len(s)
    BY <1>1
  <2>2. 0..Len(s) \subseteq D
    BY <1>1, <1>6, <1>7, UpTo
  <2> QED BY <2>1, <2>2
<1>9. PICK r \in Seq(S) : r = Only(s, T)
  BY <1>4, <1>5, <1>8
<1>10. Size(Len(s)) = Len(s) - 1
  BY <1>1
<1>11. Len(r) = Len(s) - 1 /\ \A j \in 1..(Len(s) - 1) : r[j] = IF j < at THEN s[j] ELSE s[j + 1]
  BY <1>4, <1>5, <1>8, <1>9, <1>10
<1>12. PICK q \in Seq(S) : q = RemoveAt(s, at)
  BY <1>1, RemovedAt
<1>13. Len(q) = Len(s) - 1 /\ \A j \in 1..(Len(s) - 1) : q[j] = IF j < at THEN s[j] ELSE s[j + 1]
  BY <1>1, <1>12, RemovedAt
<1>14. r = q
  BY <1>11, <1>13
<1> QED BY <1>2, <1>9, <1>12, <1>14

-----------------------------------------------------------------------------
(* The client's queue: the inductive invariant                             *)

\* What the queue is a record of.
QueueRecords ==
  [tracks : Seq(Tracks), order : Seq(Nat), upNext : SUBSET Nat, appended : SUBSET Nat,
   current : Nat, shuffled : BOOLEAN, generation : 0..MaxGeneration]

Entries(q) == 1..Len(q.tracks)

\* The play order lists every entry once; an entry was queued up next or last.
Well(q) ==
  /\ q \in QueueRecords
  /\ Len(q.tracks) <= MaxTracks
  /\ Lists(q.order, Entries(q))
  /\ q.upNext \subseteq Entries(q) /\ q.appended \subseteq Entries(q)
  /\ q.upNext \cap q.appended = {}
  /\ q.current <= Len(q.tracks)

PlayInv == Well(queue)

-----------------------------------------------------------------------------
(* The operations of the queue keep it, and what plays                     *)

LEMMA WellFacts ==
  ASSUME NEW q, Well(q)
  PROVE  /\ q.tracks \in Seq(Tracks) /\ Len(q.tracks) \in Nat
         /\ q.order \in Seq(Entries(q)) /\ q.order \in Seq(Nat)
         /\ Len(q.order) = Len(q.tracks)
         /\ q.current \in 0..Len(q.tracks)
         /\ q.shuffled \in BOOLEAN /\ q.generation \in 0..MaxGeneration
         /\ q.current # 0 =>
              q.order[q.current] \in Entries(q) /\ CurrentTrack(q) = q.tracks[q.order[q.current]]
<1>1. /\ q.tracks \in Seq(Tracks) /\ q.current \in Nat /\ q.order \in Seq(Nat)
      /\ q.shuffled \in BOOLEAN /\ q.generation \in 0..MaxGeneration
  BY DEF Well, QueueRecords
<1>2. Len(q.tracks) \in Nat
  BY <1>1
<1>3. Len(q.order) = Len(q.tracks)
  BY <1>2, ListsLength DEF Well, Entries
<1>4. q.order \in Seq(Entries(q))
  BY DEF Well, Lists
<1>5. q.current \in 0..Len(q.tracks)
  BY <1>1, <1>2 DEF Well
<1>6. q.current # 0 => q.order[q.current] \in Entries(q)
  BY <1>3, <1>4, <1>5
<1> QED BY <1>1, <1>2, <1>3, <1>4, <1>5, <1>6 DEF CurrentTrack

Placed(q, o, c, b) == [q EXCEPT !.order = o, !.current = c, !.shuffled = b]

Grown(q, t, o, up, ap) ==
  [q EXCEPT !.tracks = Append(q.tracks, t), !.order = o, !.upNext = up, !.appended = ap]

\* Another order of the same entries, after which the playback is at c.
LEMMA Reordered ==
  ASSUME NEW q, Well(q), NEW o, Lists(o, Entries(q)), NEW c \in 0..Len(q.tracks), NEW b \in BOOLEAN,
         NEW r, r = Placed(q, o, c, b)
  PROVE  /\ Well(r)
         /\ q.current # 0 /\ c # 0 /\ o[c] = q.order[q.current] => CurrentTrack(r) = CurrentTrack(q)
<1>1. q \in QueueRecords /\ Len(q.tracks) \in Nat
  BY WellFacts DEF Well
<1>2. o \in Seq(Entries(q))
  BY DEF Lists
<1>3. Entries(q) \subseteq Nat
  BY <1>1 DEF Entries
<1>4. o \in Seq(Nat)
  BY <1>2, <1>3
<1>5. /\ r.tracks = q.tracks /\ r.order = o /\ r.current = c
      /\ r.upNext = q.upNext /\ r.appended = q.appended
  BY <1>1 DEF QueueRecords, Placed
<1>6. r \in QueueRecords
  <2>1. c \in Nat
    BY <1>1
  <2> QED BY <1>1, <1>4, <2>1 DEF QueueRecords, Placed
<1>7. Entries(r) = Entries(q)
  BY <1>5 DEF Entries
<1> QED BY <1>1, <1>5, <1>6, <1>7 DEF Well, CurrentTrack

\* One more entry, anywhere after the current one.
LEMMA OneMore ==
  ASSUME NEW q, Well(q), Len(q.tracks) < MaxTracks, NEW t \in Tracks,
         NEW n, n = Len(q.tracks) + 1, NEW o, Lists(o, Entries(q) \cup {n}),
         NEW up, NEW ap, up \cap ap = {},
         up \subseteq Entries(q) \cup {n},
         ap \subseteq Entries(q) \cup {n},
         q.current # 0 => o[q.current] = q.order[q.current],
         NEW r, r = Grown(q, t, o, up, ap)
  PROVE  Well(r) /\ (q.current # 0 => CurrentTrack(r) = CurrentTrack(q))
<1>1. q \in QueueRecords /\ Len(q.tracks) \in Nat /\ q.tracks \in Seq(Tracks)
  BY WellFacts DEF Well
<1>2. PICK ts : ts = Append(q.tracks, t)
  OBVIOUS
<1>3. ts \in Seq(Tracks) /\ Len(ts) = Len(q.tracks) + 1 /\ \A i \in Entries(q) : ts[i] = q.tracks[i]
  BY <1>1, <1>2 DEF Entries
<1>4. /\ r.tracks = ts /\ r.order = o /\ r.current = q.current
      /\ r.upNext = up /\ r.appended = ap
  BY <1>1, <1>2 DEF QueueRecords, Grown
<1>5. Entries(r) = Entries(q) \cup {n}
  BY <1>1, <1>3, <1>4 DEF Entries
<1>6. Entries(r) \subseteq Nat
  BY <1>1, <1>3, <1>4 DEF Entries
<1>7. o \in Seq(Entries(r))
  BY <1>5 DEF Lists
<1>8. o \in Seq(Nat) /\ up \in SUBSET Nat /\ ap \in SUBSET Nat
  BY <1>5, <1>6, <1>7
<1>9. r \in QueueRecords
  BY <1>1, <1>2, <1>3, <1>8 DEF QueueRecords, Grown
<1>10. Len(r.tracks) <= MaxTracks /\ r.current <= Len(r.tracks)
  <2>1. MaxTracks \in Nat /\ q.current \in 0..Len(q.tracks)
    BY WellFacts, PlayQueueAssumption DEF PlayQueueAssumption
  <2> QED BY <1>1, <1>3, <1>4, <2>1
<1>11. Well(r)
  BY <1>4, <1>5, <1>9, <1>10 DEF Well
<1>12. ASSUME q.current # 0 PROVE CurrentTrack(r) = CurrentTrack(q)
  <2>1. q.order[q.current] \in Entries(q) /\ CurrentTrack(q) = q.tracks[q.order[q.current]]
    BY <1>12, WellFacts
  <2>2. CurrentTrack(r) = ts[q.order[q.current]]
    BY <1>4, <1>12 DEF CurrentTrack
  <2> QED BY <1>3, <2>1, <2>2
<1> QED BY <1>11, <1>12

LEMMA NewEntry ==
  ASSUME NEW q, Well(q)
  PROVE  Len(q.tracks) + 1 \notin Entries(q)
BY WellFacts DEF Entries

LEMMA EnqueueKeeps ==
  ASSUME PlayInv, Enqueue
  PROVE  PlayInv' /\ (queue.current # 0 => CurrentTrack(queue') = CurrentTrack(queue))
<1>1. PICK q : q = queue
  OBVIOUS
<1>2. PICK r : r = queue'
  OBVIOUS
<1>3. Well(q)
  BY <1>1 DEF PlayInv
<1>4. PICK n \in Nat : n = Len(q.tracks) + 1
  BY <1>3, WellFacts
<1>5. PICK t \in Tracks :
        /\ Len(q.tracks) < MaxTracks
        /\ r = [q EXCEPT !.tracks = Append(@, t), !.order = Append(@, n),
                         !.appended = @ \cup {n}]
  BY <1>1, <1>2, <1>4 DEF Enqueue
<1>6. PICK o : o = Append(q.order, n)
  OBVIOUS
<1>7. /\ q.order \in Seq(Nat) /\ Len(q.order) = Len(q.tracks) /\ Len(q.tracks) \in Nat
      /\ q.current \in 0..Len(q.tracks) /\ q.tracks \in Seq(Tracks) /\ q \in QueueRecords
  BY <1>3, WellFacts DEF Well
<1>8. Lists(o, Entries(q) \cup {n})
  <2>1. q.order \o <<n>> = o
    BY <1>4, <1>6, <1>7
  <2>2. Entries(q) \cap {n} = {} /\ Lists(q.order, Entries(q))
    BY <1>3, <1>4, NewEntry DEF Well
  <2> QED BY <2>1, <2>2, ListsOne, ListsBoth
<1>9. q.current # 0 => o[q.current] = q.order[q.current]
  BY <1>4, <1>6, <1>7
<1>10. PICK up, ap : up = q.upNext /\ ap = q.appended \cup {n}
  OBVIOUS
<1>11. up \cap ap = {} /\ up \subseteq Entries(q) \cup {n} /\ ap \subseteq Entries(q) \cup {n}
  BY <1>3, <1>4, <1>10, NewEntry DEF Well
<1>12. r = Grown(q, t, o, up, ap)
  BY <1>5, <1>6, <1>7, <1>10 DEF QueueRecords, Grown
<1>13. Well(r) /\ (q.current # 0 => CurrentTrack(r) = CurrentTrack(q))
  <2>1. Len(q.tracks) < MaxTracks
    BY <1>5
  <2> QED BY <1>3, <1>4, <1>8, <1>9, <1>11, <1>12, <2>1, OneMore
<1> QED BY <1>1, <1>2, <1>13 DEF PlayInv

LEMMA PlayNextKeeps ==
  ASSUME PlayInv, PlayNext
  PROVE  PlayInv' /\ (queue.current # 0 => CurrentTrack(queue') = CurrentTrack(queue))
<1>1. PICK q : q = queue
  OBVIOUS
<1>2. PICK r : r = queue'
  OBVIOUS
<1>3. Well(q)
  BY <1>1 DEF PlayInv
<1>4. PICK n \in Nat : n = Len(q.tracks) + 1
  BY <1>3, WellFacts
<1>5. PICK t \in Tracks :
        /\ Len(q.tracks) < MaxTracks
        /\ r = [q EXCEPT !.tracks = Append(@, t), !.order = InsertAt(@, q.current + 1, n),
                         !.upNext = @ \cup {n}]
  BY <1>1, <1>2, <1>4 DEF PlayNext
<1>6. PICK o : o = InsertAt(q.order, q.current + 1, n)
  OBVIOUS
<1>7. /\ q.order \in Seq(Nat) /\ Len(q.order) = Len(q.tracks) /\ Len(q.tracks) \in Nat
      /\ q.current \in 0..Len(q.tracks) /\ q.tracks \in Seq(Tracks) /\ q \in QueueRecords
  BY <1>3, WellFacts DEF Well
<1>8. PICK at \in 1..(Len(q.order) + 1) : at = q.current + 1
  BY <1>7
<1>9. /\ Lists(o, Entries(q) \cup {n})
      /\ \A j \in 1..(Len(q.order) + 1) :
           o[j] = IF j < at THEN q.order[j] ELSE IF j = at THEN n ELSE q.order[j - 1]
  <2>1. n \notin Entries(q) /\ Lists(q.order, Entries(q))
    BY <1>3, <1>4, NewEntry DEF Well
  <2>2. o = InsertAt(q.order, at, n)
    BY <1>6, <1>8
  <2>3. Lists(o, Entries(q) \cup {n}) /\ HasInserted(o, q.order, at, n)
    BY <2>1, <2>2, ListsInserted
  <2> QED BY <2>3 DEF HasInserted
<1>10. q.current # 0 => o[q.current] = q.order[q.current]
  <2>1. q.current # 0 => q.current \in 1..(Len(q.order) + 1) /\ q.current < at
    BY <1>7, <1>8
  <2> QED BY <1>9, <2>1
<1>11. PICK up, ap : up = q.upNext \cup {n} /\ ap = q.appended
  OBVIOUS
<1>12. up \cap ap = {} /\ up \subseteq Entries(q) \cup {n} /\ ap \subseteq Entries(q) \cup {n}
  BY <1>3, <1>4, <1>11, NewEntry DEF Well
<1>13. r = Grown(q, t, o, up, ap)
  BY <1>5, <1>6, <1>7, <1>11 DEF QueueRecords, Grown
<1>14. Well(r) /\ (q.current # 0 => CurrentTrack(r) = CurrentTrack(q))
  <2>1. Len(q.tracks) < MaxTracks /\ Lists(o, Entries(q) \cup {n})
    BY <1>5, <1>9
  <2> QED BY <1>3, <1>4, <1>10, <1>12, <1>13, <2>1, OneMore
<1> QED BY <1>1, <1>2, <1>14 DEF PlayInv

LEMMA ListsIn ==
  ASSUME NEW s, NEW S, Lists(s, S), NEW T, S \subseteq T
  PROVE  s \in Seq(T)
<1>1. s \in Seq(S)
  BY DEF Lists
<1> QED BY <1>1

LEMMA ToggleKeeps ==
  ASSUME PlayInv, ToggleShuffle
  PROVE  PlayInv' /\ (queue.current # 0 => CurrentTrack(queue') = CurrentTrack(queue))
<1>1. PICK q : q = queue
  OBVIOUS
<1>2. PICK s : s = queue'
  OBVIOUS
<1>3. Well(q)
  BY <1>1 DEF PlayInv
<1>4. PICK c : c = q.current
  OBVIOUS
<1>5. /\ q.order \in Seq(Nat) /\ Len(q.order) = Len(q.tracks) /\ Len(q.tracks) \in Nat
      /\ c \in 0..Len(q.tracks) /\ q.shuffled \in BOOLEAN /\ q \in QueueRecords
  BY <1>3, <1>4, WellFacts DEF Well
<1>6. PICK keep : keep = SubSeq(q.order, 1, c)
  OBVIOUS
<1>7. PICK tail : tail = SubSeq(q.order, c + 1, Len(q.order))
  OBVIOUS
<1>8. PICK next : next = Only(tail, q.upNext)
  OBVIOUS
<1>9. PICK last : last = Only(tail, q.appended)
  OBVIOUS
<1>10. PICK rest : rest = ToSet(tail) \ (q.upNext \cup q.appended)
  OBVIOUS
<1>11. PICK r \in SetToSeqs(rest) :
         s = [q EXCEPT !.order = keep \o next \o r \o last, !.shuffled = ~ @]
  BY <1>1, <1>2, <1>4, <1>6, <1>7, <1>8, <1>9, <1>10 DEF ToggleShuffle
<1>12. PICK K \in SUBSET Entries(q) : Lists(keep, K) /\ Lists(tail, Entries(q) \ K)
  <2>1. Lists(q.order, Entries(q)) /\ c \in 0..Len(q.order)
    BY <1>3, <1>5 DEF Well
  <2> QED BY <1>6, <1>7, <2>1, ListsParts
<1>13. PICK T : T = Entries(q) \ K
  OBVIOUS
<1>14. Lists(next, T \cap q.upNext) /\ Lists(last, T \cap q.appended)
  BY <1>8, <1>9, <1>12, <1>13, ListsOnly
<1>15. ToSet(tail) = T
  <2>1. tail \in Seq(T) /\ \A x \in T : \E i \in 1..Len(tail) : tail[i] = x
    BY <1>12, <1>13 DEF Lists
  <2>2. DOMAIN tail = 1..Len(tail) /\ \A i \in 1..Len(tail) : tail[i] \in T
    BY <2>1
  <2> QED BY <2>1, <2>2 DEF ToSet
<1>16. rest = T \ (q.upNext \cup q.appended)
  BY <1>10, <1>15
<1>17. Lists(r, rest)
  <2>1. rest \in SUBSET Entries(q)
    BY <1>13, <1>16
  <2>2. IsFiniteSet(Entries(q))
    BY <1>5, FS_Interval DEF Entries
  <2>3. IsFiniteSet(rest)
    BY <2>1, <2>2, FS_Subset
  <2>4. PICK n \in Nat : n = Cardinality(rest)
    BY <2>3, FS_CardinalityType
  <2>5. r \in [1..n -> rest] /\ \A i, j \in 1..n : i # j => r[i] # r[j]
    BY <2>4 DEF SetToSeqs
  <2>6. \A i, j \in 1..n : r[i] = r[j] => i = j
    BY <2>5
  <2> QED BY <2>3, <2>4, <2>5, <2>6, AllAreListed
<1>18. PICK o : o = ((keep \o next) \o r) \o last
  OBVIOUS
<1>19. Lists(o, Entries(q))
  <2>1. q.upNext \cap q.appended = {}
    BY <1>3 DEF Well
  <2>2. K \cap (T \cap q.upNext) = {}
    BY <1>13
  <2>3. Lists(keep \o next, K \cup (T \cap q.upNext))
    BY <1>12, <1>14, <2>2, ListsBoth
  <2>4. (K \cup (T \cap q.upNext)) \cap rest = {}
    BY <1>13, <1>16
  <2>5. Lists((keep \o next) \o r, (K \cup (T \cap q.upNext)) \cup rest)
    BY <1>17, <2>3, <2>4, ListsBoth
  <2>6. ((K \cup (T \cap q.upNext)) \cup rest) \cap (T \cap q.appended) = {}
    BY <1>13, <1>16, <2>1
  <2>7. Lists(o, ((K \cup (T \cap q.upNext)) \cup rest) \cup (T \cap q.appended))
    BY <1>14, <1>18, <2>5, <2>6, ListsBoth
  <2>8. ((K \cup (T \cap q.upNext)) \cup rest) \cup (T \cap q.appended) = Entries(q)
    BY <1>13, <1>16
  <2> QED BY <2>7, <2>8
<1>20. c # 0 => o[c] = q.order[c]
  <2>1. keep \in Seq(Nat) /\ Len(keep) = c /\ \A i \in 1..c : keep[i] = q.order[i]
    BY <1>5, <1>6
  <2>2. next \in Seq(Nat) /\ r \in Seq(Nat) /\ last \in Seq(Nat)
    <3>1. T \cap q.upNext \subseteq Nat /\ T \cap q.appended \subseteq Nat /\ rest \subseteq Nat
      BY <1>5, <1>13, <1>16 DEF Entries
    <3> QED BY <1>14, <1>17, <3>1, ListsIn
  <2>3. /\ keep \o next \in Seq(Nat) /\ Len(keep \o next) \in Nat /\ c <= Len(keep \o next)
        /\ \A i \in 1..c : (keep \o next)[i] = keep[i]
    BY <1>5, <2>1, <2>2
  <2>4. PICK a \in Seq(Nat) : a = keep \o next
    BY <2>3
  <2>5. PICK b \in Seq(Nat) : b = a \o r
    <3>1. a \o r \in Seq(Nat)
      BY <2>2, <2>4
    <3> QED BY <3>1
  <2>6. c <= Len(b) /\ \A i \in 1..c : b[i] = a[i]
    BY <1>5, <2>2, <2>3, <2>4, <2>5
  <2>7. o = b \o last
    BY <1>18, <2>4, <2>5
  <2>8. \A i \in 1..c : o[i] = b[i]
    BY <1>5, <2>2, <2>6, <2>7
  <2>9. \A i \in 1..c : o[i] = q.order[i]
    BY <2>1, <2>3, <2>4, <2>6, <2>8
  <2>10. c # 0 => c \in 1..c
    BY <1>5
  <2> QED BY <2>9, <2>10
<1>21. PICK d \in BOOLEAN : d = ~ q.shuffled
  BY <1>5
<1>22. s = Placed(q, o, c, d)
  BY <1>4, <1>5, <1>11, <1>18, <1>21 DEF Placed, QueueRecords
<1>23. Well(s) /\ (q.current # 0 => CurrentTrack(s) = CurrentTrack(q))
  BY <1>3, <1>4, <1>5, <1>19, <1>20, <1>22, Reordered
<1> QED BY <1>1, <1>2, <1>23 DEF PlayInv

LEMMA ReorderKeeps ==
  ASSUME PlayInv, NEW from \in DOMAIN queue.order, NEW to \in DOMAIN queue.order,
         ReorderQueue(from, to)
  PROVE  PlayInv' /\ (queue.current # 0 => CurrentTrack(queue') = CurrentTrack(queue))
<1>1. PICK q : q = queue
  OBVIOUS
<1>2. PICK s : s = queue'
  OBVIOUS
<1>3. Well(q) /\ Lists(q.order, Entries(q))
  BY <1>1 DEF PlayInv, Well
<1>4. PICK n \in Nat : n = Len(q.tracks)
  BY <1>3, WellFacts
<1>5. /\ q.order \in Seq(Nat) /\ Len(q.order) = n /\ q.order \in Seq(Entries(q))
      /\ q.current \in 0..n /\ q.shuffled \in BOOLEAN /\ q \in QueueRecords
  BY <1>3, <1>4, WellFacts DEF Well
<1>6. from \in 1..Len(q.order) /\ to \in 1..Len(q.order) /\ from \in 1..n /\ to \in 1..n
  BY <1>1, <1>5
<1>7. PICK x : x = q.order[from]
  OBVIOUS
<1>8. PICK p : p = RemoveAt(q.order, from)
  OBVIOUS
<1>9. Lists(p, Entries(q) \ {x})
  BY <1>3, <1>6, <1>7, <1>8, ListsRemoved
<1>10. /\ Len(p) = n - 1
       /\ \A j \in 1..(n - 1) : p[j] = IF j < from THEN q.order[j] ELSE q.order[j + 1]
  BY <1>5, <1>6, <1>8, RemovedAt
<1>11. to \in 1..(Len(p) + 1) /\ x \notin Entries(q) \ {x}
  BY <1>4, <1>6, <1>10
<1>12. PICK o : o = InsertAt(p, to, x)
  OBVIOUS
<1>13. /\ Lists(o, (Entries(q) \ {x}) \cup {x})
       /\ \A j \in 1..(Len(p) + 1) :
            o[j] = IF j < to THEN p[j] ELSE IF j = to THEN x ELSE p[j - 1]
  <2>1. Lists(o, (Entries(q) \ {x}) \cup {x}) /\ HasInserted(o, p, to, x)
    BY <1>9, <1>11, <1>12, ListsInserted
  <2> QED BY <2>1 DEF HasInserted
<1>14. (Entries(q) \ {x}) \cup {x} = Entries(q)
  <2>1. x \in Entries(q)
    BY <1>5, <1>6, <1>7
  <2> QED BY <2>1
<1>15. Lists(o, Entries(q))
  BY <1>13, <1>14
<1>16. PICK c : c = CurrentAfterMove(q.current, from, to)
  OBVIOUS
<1>17. PICK at \in 0..n : at = q.current
  BY <1>5
<1>18. from # to
  BY DEF ReorderQueue
<1>19. c \in 0..n /\ (at # 0 => c # 0)
  <2>1. c = CurrentAfterMove(at, from, to)
    BY <1>16, <1>17
  <2> QED BY <1>4, <1>6, <1>18, <2>1 DEF CurrentAfterMove
<1>20. ASSUME at # 0 PROVE o[c] = q.order[at]
  <2>1. at \in 1..n /\ c = CurrentAfterMove(at, from, to)
    BY <1>4, <1>16, <1>17, <1>20
  <2>2. \A j \in 1..n : o[j] = IF j < to THEN p[j] ELSE IF j = to THEN x ELSE p[j - 1]
    BY <1>4, <1>10, <1>13
  <2>3. CASE from = at
    <3>1. c = to
      BY <2>1, <2>3 DEF CurrentAfterMove
    <3>2. o[to] = x
      BY <1>4, <1>6, <2>2
    <3> QED BY <1>7, <2>3, <3>1, <3>2
  <2>4. CASE from < at
    <3>1. p[at - 1] = q.order[at]
      <4>1. at - 1 \in 1..(n - 1) /\ ~ (at - 1 < from) /\ (at - 1) + 1 = at
        BY <1>4, <1>6, <2>1, <2>4
      <4> QED BY <1>10, <4>1
    <3>2. CASE to >= at
      <4>1. c = at - 1 /\ c \in 1..n /\ c < to
        BY <1>4, <1>6, <2>1, <2>4, <3>2 DEF CurrentAfterMove
      <4> QED BY <2>2, <3>1, <4>1
    <3>3. CASE to < at
      <4>1. c = at /\ ~ (at < to) /\ at # to
        BY <1>4, <1>6, <2>1, <2>4, <3>3 DEF CurrentAfterMove
      <4> QED BY <2>1, <2>2, <3>1, <4>1
    <3> QED BY <1>4, <1>6, <2>1, <3>2, <3>3
  <2>5. CASE from > at
    <3>1. p[at] = q.order[at]
      <4>1. at \in 1..(n - 1) /\ at < from
        BY <1>4, <1>6, <2>1, <2>5
      <4> QED BY <1>10, <4>1
    <3>2. CASE to <= at
      <4>1. c = at + 1 /\ c \in 1..n /\ ~ (c < to) /\ c # to /\ c - 1 = at
        BY <1>4, <1>6, <2>1, <2>5, <3>2 DEF CurrentAfterMove
      <4> QED BY <2>2, <3>1, <4>1
    <3>3. CASE to > at
      <4>1. c = at /\ at < to
        BY <1>4, <1>6, <2>1, <2>5, <3>3 DEF CurrentAfterMove
      <4> QED BY <2>1, <2>2, <3>1, <4>1
    <3> QED BY <1>4, <1>6, <2>1, <3>2, <3>3
  <2> QED BY <1>4, <1>6, <2>1, <2>3, <2>4, <2>5
<1>21. s = Placed(q, o, c, q.shuffled)
  <2>1. s = [q EXCEPT !.order = InsertAt(RemoveAt(@, from), to, @[from]),
                      !.current = CurrentAfterMove(@, from, to)]
    BY <1>1, <1>2 DEF ReorderQueue
  <2> QED BY <1>5, <1>7, <1>8, <1>12, <1>16, <2>1 DEF Placed, QueueRecords
<1>22. c \in 0..Len(q.tracks)
  BY <1>4, <1>19
<1>23. Well(s) /\ (q.current # 0 /\ c # 0 /\ o[c] = q.order[q.current] =>
                     CurrentTrack(s) = CurrentTrack(q))
  BY <1>3, <1>5, <1>15, <1>21, <1>22, Reordered
<1>24. q.current # 0 => CurrentTrack(s) = CurrentTrack(q)
  BY <1>17, <1>19, <1>20, <1>23
<1> QED BY <1>1, <1>2, <1>23, <1>24 DEF PlayInv

LEMMA SkipKeeps ==
  ASSUME PlayInv, NEW i \in DOMAIN queue.order, SkipTo(i)
  PROVE  PlayInv'
<1>1. /\ queue \in QueueRecords /\ Len(queue.order) = Len(queue.tracks) /\ Len(queue.tracks) \in Nat
      /\ queue.order \in Seq(Nat) /\ Lists(queue.order, Entries(queue))
  BY WellFacts DEF PlayInv, Well
<1>2. queue.shuffled \in BOOLEAN
  BY <1>1 DEF QueueRecords
<1>3. i \in 0..Len(queue.tracks)
  BY <1>1
<1>4. queue' = Placed(queue, queue.order, i, queue.shuffled)
  BY <1>1 DEF SkipTo, Placed, QueueRecords
<1> QED BY <1>1, <1>2, <1>3, <1>4, Reordered DEF PlayInv

LEMMA ClearedIsWell ==
  ASSUME PlayInv, Clears
  PROVE  Well(Cleared(queue)) /\ queue.generation + 1 \in 0..MaxGeneration
<1>1. queue.generation + 1 \in 0..MaxGeneration
  BY PlayQueueAssumption, WellFacts DEF PlayInv, Clears, PlayQueueAssumption
<1>2. PICK q : q = Cleared(queue)
  OBVIOUS
<1>3. q = [tracks |-> <<>>, order |-> <<>>, upNext |-> {}, appended |-> {},
           current |-> 0, shuffled |-> FALSE, generation |-> queue.generation + 1]
  BY <1>2 DEF Cleared, Initial
<1>4. <<>> \in Seq(Tracks) /\ <<>> \in Seq(Nat) /\ Len(<<>>) = 0
  OBVIOUS
<1>5. q \in QueueRecords
  BY <1>1, <1>3, <1>4 DEF QueueRecords
<1>6. Entries(q) = {} /\ q.upNext = {} /\ q.appended = {} /\ q.order = <<>> /\ q.current = 0
      /\ Len(q.tracks) = 0
  BY <1>3, <1>4 DEF Entries
<1>7. Lists(q.order, Entries(q))
  BY <1>4, <1>6 DEF Lists
<1>8. 0 <= MaxTracks
  BY PlayQueueAssumption DEF PlayQueueAssumption
<1> QED BY <1>1, <1>2, <1>5, <1>6, <1>7, <1>8 DEF Well

LEMMA FreshIsWell ==
  ASSUME PlayInv, Clears, NEW ts \in TrackLists, NEW o, Lists(o, 1..Len(ts)),
         NEW c \in 0..Len(ts), NEW b \in BOOLEAN
  PROVE  Well(FreshQueue(queue, ts, o, c, b))
<1>1. queue.generation + 1 \in 0..MaxGeneration
  BY ClearedIsWell
<1>2. PICK m \in 0..MaxTracks : ts \in [1..m -> Tracks]
  BY DEF TrackLists
<1>3. ts \in Seq(Tracks) /\ Len(ts) = m
  BY <1>2
<1>4. m \in Nat /\ m <= MaxTracks
  BY <1>2, PlayQueueAssumption DEF PlayQueueAssumption
<1>5. PICK q : q = FreshQueue(queue, ts, o, c, b)
  OBVIOUS
<1>6. queue \in QueueRecords
  BY DEF PlayInv, Well
<1>7. o \in Seq(1..m) /\ 1..m \subseteq Nat
  BY <1>3, <1>4 DEF Lists
<1>8. o \in Seq(Nat) /\ c \in Nat
  BY <1>3, <1>4, <1>7
<1>9. q = [queue EXCEPT !.tracks = ts, !.order = o, !.current = c, !.shuffled = b,
                        !.upNext = {}, !.appended = {}, !.generation = @ + 1]
  BY <1>5 DEF FreshQueue
<1>10. q \in QueueRecords
  BY <1>1, <1>3, <1>6, <1>8, <1>9 DEF QueueRecords
<1>11. q.tracks = ts /\ q.order = o /\ q.current = c /\ q.upNext = {} /\ q.appended = {}
  BY <1>6, <1>9 DEF QueueRecords
<1>12. Entries(q) = 1..Len(ts) /\ Len(q.tracks) = m /\ c <= m
  BY <1>3, <1>4, <1>11 DEF Entries
<1> QED BY <1>4, <1>5, <1>10, <1>11, <1>12 DEF Well

LEMMA IdentityLists ==
  ASSUME NEW n \in Nat
  PROVE  Lists(Identity(n), 1..n)
<1>1. PICK s : s = Identity(n)
  OBVIOUS
<1>2. s = [i \in 1..n |-> i]
  BY <1>1 DEF Identity
<1>3. s \in Seq(1..n) /\ Len(s) = n /\ \A i \in 1..n : s[i] = i
  BY <1>2
<1> QED BY <1>1, <1>3 DEF Lists

LEMMA LoadsKeep ==
  ASSUME PlayInv, LoadQueue \/ LoadShuffled
  PROVE  PlayInv'
<1>1. Clears
  BY DEF LoadQueue, LoadShuffled, Loads
<1>2. ASSUME NEW ts \in TrackLists PROVE Len(ts) \in Nat
  BY DEF TrackLists
<1>3. CASE LoadQueue
  <2>1. PICK ts \in TrackLists : \E i \in 0..Len(ts) :
          queue' = FreshQueue(queue, ts, Identity(Len(ts)), i, FALSE)
    BY <1>3 DEF LoadQueue
  <2>2. Lists(Identity(Len(ts)), 1..Len(ts))
    BY <1>2, IdentityLists
  <2> QED BY <1>1, <2>1, <2>2, FreshIsWell DEF PlayInv
<1>4. CASE LoadShuffled
  <2>1. PICK ts \in TrackLists : \E p \in Permutations1(Len(ts)) :
          queue' = FreshQueue(queue, ts, p, IF ts = <<>> THEN 0 ELSE 1, TRUE)
    BY <1>4 DEF LoadShuffled
  <2>8. PICK p \in Permutations1(Len(ts)) :
          queue' = FreshQueue(queue, ts, p, IF ts = <<>> THEN 0 ELSE 1, TRUE)
    BY <2>1
  <2>2. PICK n \in Nat : n = Len(ts)
    BY <1>2
  <2>3. p \in [1..n -> 1..n] /\ \A i, j \in 1..n : p[i] = p[j] => i = j
    BY <2>2 DEF Permutations1
  <2>4. IsFiniteSet(1..n) /\ Cardinality(1..n) = n
    BY FS_Interval
  <2>5. Lists(p, 1..n)
    BY <2>3, <2>4, AllAreListed
  <2>6. PICK c : c = IF ts = <<>> THEN 0 ELSE 1
    OBVIOUS
  <2>7. c \in 0..Len(ts)
    <3>1. PICK m \in 0..MaxTracks : ts \in [1..m -> Tracks]
      BY DEF TrackLists
    <3>2. ts \in Seq(Tracks)
      BY <3>1
    <3>3. ts # <<>> => Len(ts) # 0
      BY <3>2
    <3> QED BY <2>2, <2>6, <3>3
  <2> QED BY <1>1, <2>2, <2>5, <2>6, <2>7, <2>8, FreshIsWell DEF PlayInv
<1> QED BY <1>3, <1>4

\* What removing an entry makes of the queue, unless it is the only one.
Removal(q, at, removed, n, kept, o, up, ap, ts, c, b) ==
  /\ removed = q.order[at]
  /\ n = Len(q.tracks) - 1
  /\ kept = Without(q.order, removed)
  /\ o = [i \in DOMAIN kept |-> Renumbered(kept[i], removed)]
  /\ up = {Renumbered(i, removed) : i \in q.upNext \ {removed}}
  /\ ap = {Renumbered(i, removed) : i \in q.appended \ {removed}}
  /\ ts = RemoveAt(q.tracks, removed)
  /\ c = CurrentAfterRemoval(q.current, at, n)
  /\ b = (q.shuffled /\ n > 1)

Shrunk(q, ts, o, up, ap, c, b) ==
  [q EXCEPT !.tracks = ts, !.order = o, !.upNext = up, !.appended = ap,
            !.current = c, !.shuffled = b]

LEMMA Removing ==
  ASSUME queue \in QueueRecords, NEW at, RemoveFromQueue(at), Len(queue.tracks) - 1 # 0
  PROVE  \E removed, n, kept, o, up, ap, ts, c, b :
            /\ Removal(queue, at, removed, n, kept, o, up, ap, ts, c, b)
            /\ queue' = Shrunk(queue, ts, o, up, ap, c, b)
<1> DEFINE removed == queue.order[at]
           n       == Len(queue.tracks) - 1
           kept    == Without(queue.order, removed)
           o       == [i \in DOMAIN kept |-> Renumbered(kept[i], removed)]
           up      == {Renumbered(i, removed) : i \in queue.upNext \ {removed}}
           ap      == {Renumbered(i, removed) : i \in queue.appended \ {removed}}
           ts      == RemoveAt(queue.tracks, removed)
           c       == CurrentAfterRemoval(queue.current, at, n)
           b       == queue.shuffled /\ n > 1
<1>1. queue' = Shrunk(queue, ts, o, up, ap, c, b)
  BY DEF RemoveFromQueue, QueueRecords, Shrunk
<1>2. Removal(queue, at, removed, n, kept, o, up, ap, ts, c, b)
  BY Zenon DEF Removal
<1> HIDE DEF removed, n, kept, o, up, ap, ts, c, b
<1> QED BY <1>1, <1>2

LEMMA RemoveKeeps ==
  ASSUME PlayInv, NEW at \in DOMAIN queue.order, RemoveFromQueue(at)
  PROVE  /\ PlayInv'
         /\ queue.current # 0 /\ at # queue.current => CurrentTrack(queue') = CurrentTrack(queue)
<1>1. PICK q : q = queue
  OBVIOUS
<1>2. PICK r : r = queue'
  OBVIOUS
<1>3. Well(q) /\ Lists(q.order, Entries(q))
  BY <1>1 DEF PlayInv, Well
<1>4. PICK n \in Nat : n + 1 = Len(q.tracks) /\ at \in 1..(n + 1)
  <2>1. at \in 1..Len(q.tracks) /\ Len(q.tracks) \in Nat
    BY <1>1, <1>3, WellFacts
  <2>2. Len(q.tracks) - 1 \in Nat /\ (Len(q.tracks) - 1) + 1 = Len(q.tracks)
    BY <2>1
  <2> QED BY <2>1, <2>2
<1>5. /\ q.order \in Seq(Nat) /\ Len(q.order) = n + 1 /\ q.order \in Seq(Entries(q))
      /\ q.current \in 0..(n + 1) /\ q.shuffled \in BOOLEAN /\ q \in QueueRecords
      /\ q.tracks \in Seq(Tracks) /\ Entries(q) = 1..(n + 1)
  BY <1>3, <1>4, WellFacts DEF Well, Entries
<1>6. PICK removed \in 1..(n + 1) : removed = q.order[at]
  <2>1. q.order[at] \in Entries(q)
    <3>1. PICK S : S = Entries(q)
      OBVIOUS
    <3>2. q.order \in Seq(S) /\ at \in 1..Len(q.order)
      BY <1>4, <1>5, <3>1
    <3>3. q.order[at] \in S
      BY <3>2
    <3> QED BY <3>1, <3>3
  <2> QED BY <1>5, <2>1
<1>7. CASE n = 0
  <2>1. Clears /\ queue' = Cleared(queue)
    BY <1>1, <1>4, <1>7 DEF RemoveFromQueue
  <2>2. queue.current # 0 => at = queue.current
    BY <1>1, <1>4, <1>5, <1>7
  <2> QED BY <2>1, <2>2, ClearedIsWell DEF PlayInv
<1>8. CASE n # 0
  <2>1. PICK m, kept, o, up, ap, ts, c, b :
          /\ Removal(q, at, removed, m, kept, o, up, ap, ts, c, b)
          /\ r = Shrunk(q, ts, o, up, ap, c, b)
    <3>1. Len(queue.tracks) - 1 # 0
      <4>1. n \in Nat /\ Len(q.tracks) = n + 1 /\ n # 0
        BY <1>4, <1>8
      <4>2. (n + 1) - 1 # 0
        BY <4>1
      <4>3. Len(q.tracks) - 1 # 0
        BY <4>1, <4>2
      <4> QED BY <1>1, <4>3
    <3>2. PICK e, m, kept, o, up, ap, ts, c, b :
            /\ Removal(queue, at, e, m, kept, o, up, ap, ts, c, b)
            /\ queue' = Shrunk(queue, ts, o, up, ap, c, b)
      BY <1>1, <1>5, <3>1, Removing
    <3>3. e = removed
      BY <1>1, <1>6, <3>2 DEF Removal
    <3> QED BY <1>1, <1>2, <3>2, <3>3, Zenon
  <2>2. /\ kept = Without(q.order, removed)
        /\ o = [i \in DOMAIN kept |-> Renumbered(kept[i], removed)]
        /\ up = {Renumbered(i, removed) : i \in q.upNext \ {removed}}
        /\ ap = {Renumbered(i, removed) : i \in q.appended \ {removed}}
        /\ ts = RemoveAt(q.tracks, removed)
    BY <2>1, Zenon DEF Removal
  <2>5. m = n /\ c = CurrentAfterRemoval(q.current, at, n) /\ b \in BOOLEAN
    <3>1. m = Len(q.tracks) - 1 /\ c = CurrentAfterRemoval(q.current, at, m)
      BY <2>1, Zenon DEF Removal
    <3>2. b \in BOOLEAN
      BY <2>1, Zenon DEF Removal
    <3> QED BY <1>4, <3>1, <3>2
  <2>8. \A i \in 1..(n + 1) : i # removed => Renumbered(i, removed) \in 1..n
    BY <1>6 DEF Renumbered
  <2>9. \A i, j \in 1..(n + 1) : i # removed /\ j # removed
                                  /\ Renumbered(i, removed) = Renumbered(j, removed) => i = j
    BY <1>6 DEF Renumbered
  <2>10. \A i \in 1..n : \E j \in 1..(n + 1) : j # removed /\ Renumbered(j, removed) = i
    <3>1. ASSUME NEW i \in 1..n
          PROVE  \E j \in 1..(n + 1) : j # removed /\ Renumbered(j, removed) = i
      <4>1. i \in 1..(n + 1) /\ i + 1 \in 1..(n + 1) /\ (i + 1) - 1 = i
        OBVIOUS
      <4>2. CASE i < removed
        BY <1>6, <4>1, <4>2 DEF Renumbered
      <4>3. CASE ~ (i < removed)
        <5>1. i + 1 > removed
          BY <1>6, <4>3
        <5>2. Renumbered(i + 1, removed) = i /\ i + 1 # removed
          BY <1>6, <4>1, <5>1 DEF Renumbered
        <5> QED BY <4>1, <5>2
      <4> QED BY <4>2, <4>3
    <3> QED BY <3>1
  <2>11. kept = RemoveAt(q.order, at) /\ Lists(kept, 1..(n + 1) \ {removed})
    <3>1. Lists(q.order, 1..(n + 1)) /\ at \in 1..Len(q.order)
      BY <1>3, <1>4, <1>5
    <3>2. Only(q.order, ToSet(q.order) \ {q.order[at]}) = RemoveAt(q.order, at)
      BY <3>1, OnlyOthers
    <3>3. Lists(RemoveAt(q.order, at), 1..(n + 1) \ {q.order[at]})
      BY <3>1, ListsRemoved
    <3> QED BY <1>6, <2>2, <3>2, <3>3 DEF Without
  <2>12. /\ kept \in Seq(Nat) /\ Len(kept) = n
         /\ \A j \in 1..n : kept[j] = IF j < at THEN q.order[j] ELSE q.order[j + 1]
    <3>1. at \in 1..Len(q.order) /\ q.order \in Seq(Nat) /\ Len(q.order) - 1 = n
      BY <1>4, <1>5
    <3>2. /\ kept \in Seq(Nat) /\ Len(kept) = Len(q.order) - 1
          /\ \A j \in 1..(Len(q.order) - 1) :
               kept[j] = IF j < at THEN q.order[j] ELSE q.order[j + 1]
      BY <2>11, <3>1, RemovedAt
    <3> QED BY <3>1, <3>2
  <2>13. DOMAIN kept = 1..n /\ \A j \in 1..n : kept[j] \in 1..(n + 1) /\ kept[j] # removed
    <3>1. kept \in Seq(1..(n + 1) \ {removed})
      BY <2>11 DEF Lists
    <3> QED BY <2>12, <3>1
  <2>14. o \in Seq(1..n) /\ Len(o) = n /\ \A j \in 1..n : o[j] = Renumbered(kept[j], removed)
    <3>1. o = [j \in 1..n |-> Renumbered(kept[j], removed)]
      BY <2>2, <2>13
    <3>2. o \in [1..n -> 1..n]
      BY <2>8, <2>13, <3>1
    <3> QED BY <3>1, <3>2
  <2>15. Lists(o, 1..n)
    <3>1. ASSUME NEW i \in 1..n, NEW j \in 1..n, o[i] = o[j] PROVE i = j
      <4>1. kept[i] = kept[j]
        <5>1. Renumbered(kept[i], removed) = Renumbered(kept[j], removed)
          BY <2>14, <3>1
        <5> QED BY <2>9, <2>13, <5>1
      <4> QED BY <2>11, <2>12, <4>1 DEF Lists
    <3>2. ASSUME NEW x \in 1..n PROVE \E i \in 1..n : o[i] = x
      <4>1. PICK y \in 1..(n + 1) : y # removed /\ Renumbered(y, removed) = x
        BY <2>10
      <4>2. PICK i \in 1..n : kept[i] = y
        BY <2>11, <2>12, <4>1 DEF Lists
      <4> QED BY <2>14, <4>1, <4>2
    <3> QED BY <2>14, <3>1, <3>2 DEF Lists
  <2>16. /\ ts \in Seq(Tracks) /\ Len(ts) = n
         /\ \A j \in 1..n : ts[j] = IF j < removed THEN q.tracks[j] ELSE q.tracks[j + 1]
    <3>1. /\ removed \in 1..Len(q.tracks) /\ q.tracks \in Seq(Tracks)
          /\ Len(q.tracks) - 1 = n
      BY <1>4, <1>5, <1>6
    <3>2. /\ ts \in Seq(Tracks) /\ Len(ts) = Len(q.tracks) - 1
          /\ \A j \in 1..(Len(q.tracks) - 1) :
               ts[j] = IF j < removed THEN q.tracks[j] ELSE q.tracks[j + 1]
      BY <2>2, <3>1, RemovedAt
    <3> QED BY <3>1, <3>2
  <2>17. up \subseteq 1..n /\ ap \subseteq 1..n
    BY <1>3, <1>5, <2>2, <2>8 DEF Well
  <2>18. up \cap ap = {}
    <3>1. ASSUME NEW x \in up, x \in ap PROVE FALSE
      <4>1. PICK i \in q.upNext \ {removed} : x = Renumbered(i, removed)
        BY <2>2
      <4>2. PICK j \in q.appended \ {removed} : x = Renumbered(j, removed)
        BY <2>2, <3>1
      <4>3. i \in 1..(n + 1) /\ j \in 1..(n + 1) /\ i # j
        BY <1>3, <1>5 DEF Well
      <4> QED BY <2>9, <4>1, <4>2, <4>3
    <3> QED BY <3>1
  <2>19. c \in 0..n
    <3>1. PICK k \in 0..(n + 1) : k = q.current
      BY <1>5
    <3>2. c = CurrentAfterRemoval(k, at, n)
      BY <2>5, <3>1
    <3> QED BY <1>4, <1>8, <3>2 DEF CurrentAfterRemoval
  <2>20. /\ r.tracks = ts /\ r.order = o /\ r.upNext = up /\ r.appended = ap
         /\ r.current = c
    BY <1>5, <2>1 DEF QueueRecords, Shrunk
  <2>21. r \in QueueRecords
    <3>1. up \in SUBSET Nat /\ ap \in SUBSET Nat /\ c \in Nat /\ b \in BOOLEAN
      BY <1>5, <2>5, <2>17, <2>19
    <3>2. o \in Seq(Nat)
      BY <2>15, ListsIn
    <3> QED BY <1>5, <2>1, <2>16, <3>1, <3>2 DEF QueueRecords, Shrunk
  <2>22. Well(r)
    <3>1. Entries(r) = 1..n
      BY <2>16, <2>20 DEF Entries
    <3>2. n <= MaxTracks
      BY <1>3, <1>4, PlayQueueAssumption DEF Well, PlayQueueAssumption
    <3>3. c <= n
      BY <2>19
    <3> QED BY <2>15, <2>16, <2>17, <2>18, <2>20, <2>21, <3>1, <3>2, <3>3 DEF Well
  <2>23. ASSUME q.current # 0, at # q.current PROVE CurrentTrack(r) = CurrentTrack(q)
    <3>1. PICK at0 \in 1..(n + 1) : at0 = q.current
      <4>1. q.current \in 0..(n + 1)
        BY <1>5
      <4>2. q.current \in 1..(n + 1)
        BY <2>23, <4>1
      <4> QED BY <4>2
    <3>2. PICK e \in 1..(n + 1) : e = q.order[at0]
      <4>1. PICK s : s = q.order
        OBVIOUS
      <4>2. s \in Seq(1..(n + 1)) /\ Len(s) = n + 1
        BY <1>5, <4>1
      <4>3. s[at0] \in 1..(n + 1)
        BY <4>2
      <4> QED BY <4>1, <4>3
    <3>3. CurrentTrack(q) = q.tracks[e]
      BY <2>23, <3>1, <3>2 DEF CurrentTrack
    <3>4. e # removed
      BY <1>3, <1>4, <1>5, <1>6, <2>23, <3>1, <3>2 DEF Lists
    <3>5. c = (IF at < at0 THEN at0 - 1 ELSE at0) /\ c \in 1..n
      BY <1>4, <2>5, <2>23, <3>1 DEF CurrentAfterRemoval
    <3>6. kept[c] = e
      <4>1. CASE at < at0
        <5>1. ~ (c < at) /\ c + 1 = at0
          BY <1>4, <3>1, <3>5, <4>1
        <5> QED BY <2>12, <3>2, <3>5, <5>1
      <4>2. CASE ~ (at < at0)
        <5>1. c < at /\ c = at0
          BY <1>4, <2>23, <3>1, <3>5, <4>2
        <5> QED BY <2>12, <3>2, <3>5, <5>1
      <4> QED BY <4>1, <4>2
    <3>7. o[c] = Renumbered(e, removed) /\ Renumbered(e, removed) \in 1..n
      BY <2>8, <2>14, <3>4, <3>5, <3>6
    <3>8. ts[Renumbered(e, removed)] = q.tracks[e]
      <4>1. PICK k \in 1..n : k = Renumbered(e, removed)
        BY <3>7
      <4>2. CASE e < removed
        <5>1. k = e /\ k < removed
          BY <1>6, <4>1, <4>2 DEF Renumbered
        <5> QED BY <2>16, <4>1, <5>1
      <4>3. CASE e > removed
        <5>1. k + 1 = e /\ ~ (k < removed)
          BY <1>6, <4>1, <4>3 DEF Renumbered
        <5> QED BY <2>16, <4>1, <5>1
      <4> QED BY <1>6, <3>4, <4>2, <4>3
    <3>9. CurrentTrack(r) = ts[o[c]]
      <4>1. c # 0
        BY <3>5
      <4> QED BY <2>20, <4>1 DEF CurrentTrack
    <3> QED BY <3>3, <3>7, <3>8, <3>9
  <2> QED BY <1>1, <1>2, <2>22, <2>23 DEF PlayInv
<1> QED BY <1>7, <1>8

Cut(q, ts, o, up, ap, b) ==
  [q EXCEPT !.tracks = ts, !.order = o, !.upNext = up, !.appended = ap, !.shuffled = b]

LEMMA Cutting ==
  ASSUME NEW q \in QueueRecords, NEW kept, kept \in Seq(Nat)
  PROVE  \E ts, o, up, ap, b :
           /\ ts = [j \in DOMAIN kept |-> q.tracks[kept[j]]]
           /\ o = Identity(Len(kept))
           /\ up = {j \in DOMAIN kept : kept[j] \in q.upNext}
           /\ ap = {j \in DOMAIN kept : kept[j] \in q.appended}
           /\ b \in BOOLEAN
           /\ WithoutUpcoming(q, kept) = Cut(q, ts, o, up, ap, b)
<1> DEFINE ts == [j \in DOMAIN kept |-> q.tracks[kept[j]]]
           o  == Identity(Len(kept))
           up == {j \in DOMAIN kept : kept[j] \in q.upNext}
           ap == {j \in DOMAIN kept : kept[j] \in q.appended}
           b  == q.shuffled /\ Len(kept) > 1
<1>1. WithoutUpcoming(q, kept) = Cut(q, ts, o, up, ap, b)
  BY DEF WithoutUpcoming, QueueRecords, Cut
<1>2. b \in BOOLEAN
  BY Zenon
<1>3. /\ ts = [j \in DOMAIN kept |-> q.tracks[kept[j]]]
      /\ o = Identity(Len(kept))
      /\ up = {j \in DOMAIN kept : kept[j] \in q.upNext}
      /\ ap = {j \in DOMAIN kept : kept[j] \in q.appended}
  OBVIOUS
<1> HIDE DEF ts, o, up, ap, b
<1> QED BY <1>1, <1>2, <1>3

LEMMA ClearUpcomingKeeps ==
  ASSUME PlayInv, ClearUpcoming
  PROVE  PlayInv' /\ (queue.current # 0 => CurrentTrack(queue') = CurrentTrack(queue))
<1>1. PICK q : q = queue
  OBVIOUS
<1>2. PICK r : r = queue'
  OBVIOUS
<1>3. Well(q)
  BY <1>1 DEF PlayInv
<1>4. PICK c \in 0..Len(q.tracks) : c = q.current
  BY <1>3, WellFacts
<1>5. /\ q.order \in Seq(Entries(q)) /\ Len(q.order) = Len(q.tracks) /\ Len(q.tracks) \in Nat
      /\ q.tracks \in Seq(Tracks) /\ q \in QueueRecords
  BY <1>3, WellFacts DEF Well
<1>6. PICK kept : kept = SubSeq(q.order, 1, c)
  OBVIOUS
<1>7. /\ kept \in Seq(Entries(q)) /\ Len(kept) = c /\ c \in Nat
      /\ \A j \in 1..c : kept[j] = q.order[j]
  BY <1>4, <1>5, <1>6
<1>8. /\ kept = <<>> => Clears /\ queue' = Cleared(queue)
      /\ kept # <<>> => r = WithoutUpcoming(q, kept)
  BY <1>1, <1>2, <1>4, <1>6 DEF ClearUpcoming
<1>9. CASE kept = <<>>
  <2>1. c = 0
    BY <1>7, <1>9
  <2> QED BY <1>1, <1>4, <1>8, <1>9, <2>1, ClearedIsWell DEF PlayInv
<1>10. CASE kept # <<>>
  <2>1. kept \in Seq(Nat)
    BY <1>7 DEF Entries
  <2>2. PICK ts, o, up, ap, b :
           /\ ts = [j \in DOMAIN kept |-> q.tracks[kept[j]]]
           /\ o = Identity(Len(kept))
           /\ up = {j \in DOMAIN kept : kept[j] \in q.upNext}
           /\ ap = {j \in DOMAIN kept : kept[j] \in q.appended}
           /\ b \in BOOLEAN
           /\ r = Cut(q, ts, o, up, ap, b)
    BY <1>5, <1>8, <1>10, <2>1, Cutting
  <2>3. DOMAIN kept = 1..c
    BY <1>7
  <2>4. \A j \in 1..c : kept[j] \in Entries(q) /\ q.tracks[kept[j]] \in Tracks
    <3>1. \A j \in 1..c : kept[j] \in Entries(q)
      BY <1>7
    <3>2. \A i \in Entries(q) : q.tracks[i] \in Tracks
      BY <1>5 DEF Entries
    <3> QED BY <3>1, <3>2
  <2>5. ts \in Seq(Tracks) /\ Len(ts) = c /\ \A j \in 1..c : ts[j] = q.tracks[kept[j]]
    <3>1. ts = [j \in 1..c |-> q.tracks[kept[j]]]
      BY <2>2, <2>3
    <3>2. ts \in [1..c -> Tracks]
      BY <2>4, <3>1
    <3> QED BY <1>7, <3>1, <3>2
  <2>6. o = Identity(c) /\ Lists(o, 1..c)
    BY <1>7, <2>2, IdentityLists
  <2>7. up \subseteq 1..c /\ ap \subseteq 1..c
    BY <2>2, <2>3
  <2>8. up \cap ap = {}
    BY <1>3, <2>2 DEF Well
  <2>9. /\ r.tracks = ts /\ r.order = o /\ r.upNext = up /\ r.appended = ap
        /\ r.current = c
    BY <1>4, <1>5, <2>2 DEF QueueRecords, Cut
  <2>10. r \in QueueRecords
    <3>1. up \in SUBSET Nat /\ ap \in SUBSET Nat
      BY <1>7, <2>7
    <3>2. o \in Seq(Nat)
      BY <1>7, <2>6, ListsIn
    <3> QED BY <1>5, <2>2, <2>5, <3>1, <3>2 DEF QueueRecords, Cut
  <2>11. Well(r)
    <3>1. Entries(r) = 1..c
      BY <2>5, <2>9 DEF Entries
    <3>2. c <= MaxTracks /\ c <= c
      BY <1>3, <1>4, <1>5, PlayQueueAssumption DEF Well, PlayQueueAssumption
    <3> QED BY <2>5, <2>6, <2>7, <2>8, <2>9, <2>10, <3>1, <3>2 DEF Well
  <2>12. ASSUME c # 0 PROVE CurrentTrack(r) = CurrentTrack(q)
    <3>1. c \in 1..c
      BY <1>7, <2>12
    <3>2. o[c] = c
      BY <2>6, <3>1 DEF Identity
    <3>3. CurrentTrack(r) = ts[c]
      BY <2>9, <2>12, <3>2 DEF CurrentTrack
    <3>4. CurrentTrack(q) = q.tracks[q.order[c]]
      BY <1>4, <2>12 DEF CurrentTrack
    <3> QED BY <1>7, <2>5, <3>1, <3>3, <3>4
  <2> QED BY <1>1, <1>2, <1>4, <2>11, <2>12 DEF PlayInv
<1> QED BY <1>9, <1>10

LEMMA SkipsKeep ==
  ASSUME PlayInv, SkipToNext \/ SkipToPrevious \/ SkipToIndex \/ SyncCurrentIndex
  PROVE  PlayInv'
<1>1. PICK n \in Nat : /\ n = Len(queue.order) /\ n = Len(queue.tracks) /\ DOMAIN queue.order = 1..n
                       /\ queue.current \in 0..n
  <2>1. /\ queue.order \in Seq(Nat) /\ Len(queue.order) = Len(queue.tracks)
        /\ Len(queue.tracks) \in Nat /\ queue.current \in 0..Len(queue.tracks)
    BY WellFacts DEF PlayInv
  <2> QED BY <2>1
<1>2. queue.tracks # <<>> => n # 0
  <2>1. queue.tracks \in Seq(Tracks)
    BY WellFacts DEF PlayInv
  <2> QED BY <1>1, <2>1
<1>3. \E i \in DOMAIN queue.order : SkipTo(i)
  <2>1. CASE SkipToNext
    BY <1>1, <1>2, <2>1 DEF SkipToNext
  <2>2. CASE SkipToPrevious
    BY <1>1, <1>2, <2>2 DEF SkipToPrevious
  <2>3. CASE SkipToIndex
    BY <2>3 DEF SkipToIndex
  <2>4. CASE SyncCurrentIndex
    BY <2>4 DEF SyncCurrentIndex
  <2> QED BY <2>1, <2>2, <2>3, <2>4
<1> QED BY <1>3, SkipKeeps

LEMMA RearrangeKeeps ==
  ASSUME PlayInv, Rearrange
  PROVE  PlayInv' /\ (queue.current # 0 => CurrentTrack(queue') = CurrentTrack(queue))
<1>1. CASE \E i, j \in DOMAIN queue.order : ReorderQueue(i, j)
  BY <1>1, ReorderKeeps
<1>2. CASE \E i \in DOMAIN queue.order : i # queue.current /\ RemoveFromQueue(i)
  BY <1>2, RemoveKeeps
<1> QED
  BY <1>1, <1>2, EnqueueKeeps, PlayNextKeeps, ToggleKeeps, ClearUpcomingKeeps DEF Rearrange

LEMMA OperateKeeps ==
  ASSUME PlayInv, Operate
  PROVE  PlayInv'
<1>1. CASE queue.current # 0 /\ RemoveFromQueue(queue.current)
  <2>1. queue.current \in DOMAIN queue.order
    <3>1. /\ queue.order \in Seq(Nat) /\ Len(queue.order) = Len(queue.tracks)
          /\ Len(queue.tracks) \in Nat /\ queue.current \in 0..Len(queue.tracks)
      BY WellFacts DEF PlayInv
    <3> QED BY <1>1, <3>1
  <2> QED BY <1>1, <2>1, RemoveKeeps
<1>2. CASE ClearQueue
  BY <1>2, ClearedIsWell DEF ClearQueue, PlayInv
<1> QED BY <1>1, <1>2, LoadsKeep, SkipsKeep, RearrangeKeeps DEF Operate

-----------------------------------------------------------------------------
(* The theorems about the queue                                            *)

LEMMA PlayInvHolds == QueueSpec => []PlayInv
<1>1. QueueInit => PlayInv
  <2>1. SUFFICES ASSUME QueueInit PROVE Well(queue)
    BY DEF PlayInv
  <2>2. <<>> \in Seq(Tracks) /\ <<>> \in Seq(Nat) /\ Len(<<>>) = 0 /\ 0 \in 0..MaxGeneration
        /\ 0 <= MaxTracks
    BY PlayQueueAssumption DEF PlayQueueAssumption
  <2>3. queue \in QueueRecords
    BY <2>1, <2>2 DEF QueueInit, Initial, QueueRecords
  <2>4. /\ Entries(queue) = {} /\ queue.upNext = {} /\ queue.appended = {} /\ queue.order = <<>>
        /\ queue.current = 0 /\ Len(queue.tracks) = 0
    BY <2>1, <2>2 DEF QueueInit, Initial, Entries
  <2>5. Lists(queue.order, Entries(queue))
    BY <2>2, <2>4 DEF Lists
  <2> QED BY <2>2, <2>3, <2>4, <2>5 DEF Well
<1>2. PlayInv /\ [Operate]_queue => PlayInv'
  BY OperateKeeps DEF PlayInv
<1> QED BY <1>1, <1>2, PTL DEF QueueSpec

\* Whatever is loaded, queued up, moved, shuffled and removed, the queue has no
\* more tracks than it may, and its cursor is a place of theirs.
THEOREM QueueTypeCorrect == QueueSpec => []QueueTypeOK
<1>1. PlayInv => QueueTypeOK
  <2>1. SUFFICES ASSUME PlayInv PROVE QueueTypeOK
    OBVIOUS
  <2>2. queue \in QueueRecords /\ Well(queue)
    BY <2>1 DEF PlayInv, Well
  <2>3. PICK n \in Nat : n = Len(queue.tracks)
    BY <2>2, WellFacts
  <2>4. n \in 0..MaxTracks
    BY <2>2, <2>3, PlayQueueAssumption DEF Well, PlayQueueAssumption
  <2>5. queue.tracks \in TrackLists
    <3>1. queue.tracks \in Seq(Tracks)
      BY <2>2 DEF QueueRecords
    <3>2. queue.tracks \in [1..n -> Tracks]
      BY <2>3, <3>1
    <3> QED BY <2>4, <3>2 DEF TrackLists
  <2>6. queue.current \in 0..MaxTracks
    <3>1. queue.current \in 0..n
      BY <2>2, <2>3, WellFacts
    <3>2. MaxTracks \in Nat
      BY PlayQueueAssumption DEF PlayQueueAssumption
    <3> QED BY <2>4, <3>1, <3>2
  <2> QED BY <2>2, <2>5, <2>6 DEF QueueTypeOK, QueueRecords
<1> QED BY <1>1, PlayInvHolds, PTL

\* The play order is a permutation of the queue's entries at all times: shuffling,
\* moving and removing lose none of them, and play none twice.
THEOREM EveryEntryIsPlayedOnce == QueueSpec => [](queue.order \in Permutations1(Len(queue.tracks)))
<1>1. PlayInv => queue.order \in Permutations1(Len(queue.tracks))
  <2>1. SUFFICES ASSUME PlayInv PROVE queue.order \in Permutations1(Len(queue.tracks))
    OBVIOUS
  <2>2. PICK n \in Nat : n = Len(queue.tracks)
    BY <2>1, WellFacts DEF PlayInv
  <2>3. Lists(queue.order, 1..n) /\ Len(queue.order) = n
    BY <2>1, <2>2, WellFacts DEF PlayInv, Well, Entries
  <2>4. queue.order \in [1..n -> 1..n]
    <3>1. queue.order \in Seq(1..n)
      BY <2>3 DEF Lists
    <3> QED BY <2>3, <3>1
  <2> QED BY <2>2, <2>3, <2>4 DEF Permutations1, Lists
<1> QED BY <1>1, PlayInvHolds, PTL

\* Queuing up, shuffling, moving, clearing what is to come and removing another
\* entry never change the track that plays: queue-logic's renumbering of positions
\* and of the cursor agree, however often a track is in the queue.
THEOREM RearrangingIsHarmless == QueueSpec => RearrangingKeepsTheTrack
<1>1. PlayInv /\ [Operate]_queue =>
        [Rearrange /\ queue.current # 0 => CurrentTrack(queue') = CurrentTrack(queue)]_queue
  BY RearrangeKeeps
<1> QED BY <1>1, PlayInvHolds, PTL DEF QueueSpec, RearrangingKeepsTheTrack

-----------------------------------------------------------------------------
(* Unreleased songs: finite sets of numbers                                  *)

\* A finite set of numbers has a greatest one.
LEMMA Greatest ==
  ASSUME NEW S, IsFiniteSet(S), S \subseteq Nat, S # {}
  PROVE  Max(S) \in S /\ \A x \in S : x <= Max(S)
<1>0. PICK n \in Nat : ExistsSurjection(1..n, S)
  BY FS_NatSurjection
<1>1. PICK f : f \in Surjection(1..n, S)
  BY <1>0 DEF ExistsSurjection
<1>2. f \in [1..n -> S] /\ \A x \in S : \E i \in 1..n : f[i] = x
  BY <1>1 DEF Surjection
<1>3. PICK T : T = {m \in Nat : m <= n => \E b \in Nat : \A i \in 1..m : f[i] <= b}
  OBVIOUS
<1>4. 0 \in T
  <2>1. \A i \in 1..0 : f[i] <= 0
    OBVIOUS
  <2> QED BY <1>3, <2>1
<1>5. ASSUME NEW m \in T PROVE m + 1 \in T
  <2>1. m \in Nat /\ m + 1 \in Nat
    BY <1>3
  <2>2. ASSUME m + 1 <= n PROVE \E b \in Nat : \A i \in 1..(m + 1) : f[i] <= b
    <3>1. m <= n
      BY <2>1, <2>2
    <3>2. PICK b \in Nat : \A i \in 1..m : f[i] <= b
      BY <1>3, <3>1
    <3>3. PICK c \in Nat : c = f[m + 1]
      <4>1. m + 1 \in 1..n
        BY <2>1, <2>2
      <4>2. f[m + 1] \in S
        BY <1>2, <4>1
      <4> QED BY <4>2
    <3>4. PICK d \in Nat : b <= d /\ c <= d
      <4>1. b + c \in Nat /\ b <= b + c /\ c <= b + c
        OBVIOUS
      <4> QED BY <4>1
    <3>5. \A i \in 1..(m + 1) : i \in 1..m \/ i = m + 1
      BY <2>1
    <3>6. \A i \in 1..m : f[i] \in Nat
      <4>1. \A i \in 1..m : i \in 1..n
        BY <2>1, <3>1
      <4>2. \A i \in 1..m : f[i] \in S
        BY <1>2, <4>1
      <4> QED BY <4>2
    <3>7. \A i \in 1..m : f[i] <= d
      BY <3>2, <3>4, <3>6
    <3> QED BY <3>3, <3>4, <3>5, <3>7
  <2> QED BY <1>3, <2>1, <2>2
<1>6. n \in T
  <2>1. 0..n \subseteq T
    BY <1>4, <1>5, UpTo
  <2> QED BY <2>1
<1>7. PICK b \in Nat : \A i \in 1..n : f[i] <= b
  BY <1>3, <1>6
<1>8. PICK U : U = {c \in Nat : \A x \in S : x <= c}
  OBVIOUS
<1>9. b \in U /\ U \subseteq Nat
  BY <1>2, <1>7, <1>8
<1>10. PICK g \in U : \A c \in U : g <= c
  BY <1>9, Least
<1>11. g \in Nat /\ \A x \in S : x <= g
  BY <1>8
<1>12. g \in S
  <2>1. SUFFICES ASSUME g \notin S PROVE FALSE
    OBVIOUS
  <2>2. \A x \in S : x \in Nat /\ x < g
    BY <1>11, <2>1
  <2>3. g # 0
    <3>1. PICK x \in S : x \in Nat /\ x < g
      BY <2>2
    <3> QED BY <1>11, <3>1
  <2>4. g - 1 \in Nat /\ ~ (g <= g - 1)
    BY <1>11, <2>3
  <2>5. \A x \in S : x <= g - 1
    BY <1>11, <2>2
  <2>6. g - 1 \in U
    BY <1>8, <2>4, <2>5
  <2> QED BY <1>10, <2>4, <2>6
<1>13. \E x \in S : \A y \in S : x >= y
  BY <1>11, <1>12
<1>14. Max(S) \in S /\ \A y \in S : Max(S) >= y
  BY <1>13 DEF Max
<1> QED BY <1>14

\* The values of a function of a finite set.
LEMMA ValuesFinite ==
  ASSUME NEW S, IsFiniteSet(S), NEW f, DOMAIN f = S
  PROVE  IsFiniteSet({f[x] : x \in S})
<1>1. PICK T : T = {f[x] : x \in S}
  OBVIOUS
<1>2. PICK g : g = [x \in S |-> f[x]]
  OBVIOUS
<1>3. g \in Surjection(S, T)
  BY <1>1, <1>2 DEF Surjection
<1> QED BY <1>1, <1>3, FS_Surjection

LEMMA MentionedIsFinite ==
  ASSUME BuildsAssumption, BuildsTypeOK
  PROVE  IsFiniteSet(Mentioned) /\ Mentioned \subseteq Nat /\ Mentioned # {}
<1>1. IsFiniteSet(Artists) /\ IsFiniteSet(Processes) /\ IsFiniteSet(Readers)
  BY DEF BuildsAssumption
<1>2. /\ \A a \in Artists : stored[a].built \in Nat
      /\ job \in [Processes \X Artists -> Builds]
      /\ sweep.build.start \in Nat
      /\ \A r \in Readers : lookup[r].list \in Nat
      /\ served \in [Readers \X Artists -> Nat]
  BY DEF BuildsTypeOK, StoredRows, Builds, Lookups
<1>3. PICK A : A = {stored[a].built : a \in Artists}
  OBVIOUS
<1>4. PICK B : B = {job[k].start : k \in DOMAIN job}
  OBVIOUS
<1>5. PICK C : C = {lookup[r].list : r \in Readers}
  OBVIOUS
<1>6. PICK D : D = {served[k] : k \in DOMAIN served}
  OBVIOUS
<1>7. IsFiniteSet(A) /\ A \subseteq Nat
  <2>1. PICK f : f = [a \in Artists |-> stored[a].built]
    OBVIOUS
  <2>2. DOMAIN f = Artists /\ A = {f[x] : x \in Artists}
    BY <1>3, <2>1
  <2>3. IsFiniteSet(A)
    BY <1>1, <2>2, ValuesFinite
  <2> QED BY <1>2, <1>3, <2>3
<1>8. IsFiniteSet(B) /\ B \subseteq Nat
  <2>1. PICK f : f = [k \in Processes \X Artists |-> job[k].start]
    OBVIOUS
  <2>2. DOMAIN f = Processes \X Artists /\ B = {f[x] : x \in Processes \X Artists}
    BY <1>2, <1>4, <2>1
  <2>3. IsFiniteSet(Processes \X Artists)
    BY <1>1, FS_Product
  <2>4. IsFiniteSet(B)
    BY <2>2, <2>3, ValuesFinite
  <2> QED BY <1>2, <1>4, <2>4 DEF Builds
<1>9. IsFiniteSet(C) /\ C \subseteq Nat
  <2>1. PICK f : f = [r \in Readers |-> lookup[r].list]
    OBVIOUS
  <2>2. DOMAIN f = Readers /\ C = {f[x] : x \in Readers}
    BY <1>5, <2>1
  <2>3. IsFiniteSet(C)
    BY <1>1, <2>2, ValuesFinite
  <2> QED BY <1>2, <1>5, <2>3
<1>10. IsFiniteSet(D) /\ D \subseteq Nat
  <2>1. DOMAIN served = Readers \X Artists /\ D = {served[x] : x \in Readers \X Artists}
    BY <1>2, <1>6
  <2>2. IsFiniteSet(Readers \X Artists)
    BY <1>1, FS_Product
  <2>3. IsFiniteSet(D)
    BY <2>1, <2>2, ValuesFinite
  <2> QED BY <1>2, <1>6, <2>3
<1>11. IsFiniteSet({sweep.build.start})
  BY FS_Singleton
<1>12. Mentioned = (((A \cup B) \cup {sweep.build.start}) \cup C) \cup D
  BY <1>3, <1>4, <1>5, <1>6 DEF Mentioned
<1>13. IsFiniteSet(Mentioned)
  BY <1>7, <1>8, <1>9, <1>10, <1>11, <1>12, FS_Union
<1> QED BY <1>2, <1>7, <1>8, <1>9, <1>10, <1>12, <1>13

LEMMA StartsAreNumbers ==
  ASSUME BuildsAssumption, BuildsTypeOK
  PROVE  StartedNow \in Nat
<1>1. Max(Mentioned) \in Nat
  BY MentionedIsFinite, Greatest
<1> QED BY <1>1 DEF StartedNow

LEMMA RanksAreNumbers ==
  ASSUME BuildsAssumption, NEW f
  PROVE  \A a \in Artists : Ranks(f)[a] \in Nat
<1>1. SUFFICES ASSUME NEW a \in Artists PROVE Ranks(f)[a] \in Nat
  OBVIOUS
<1>2. PICK S : S = {c \in Artists : 0 < f[c] /\ f[c] <= f[a]}
  OBVIOUS
<1>3. IsFiniteSet(S)
  BY <1>2, FS_Subset DEF BuildsAssumption
<1>4. PICK g : g = [b \in S |-> f[b]]
  OBVIOUS
<1>5. IsFiniteSet({g[b] : b \in S})
  BY <1>3, <1>4, ValuesFinite
<1>6. {g[b] : b \in S} = {f[b] : b \in S}
  BY <1>4
<1>7. Cardinality({f[b] : b \in S}) \in Nat
  BY <1>5, <1>6, FS_CardinalityType
<1>8. Ranks(f)[a] = Cardinality({f[b] : b \in {c \in Artists : 0 < f[c] /\ f[c] <= f[a]}})
  BY DEF Ranks
<1> QED BY <1>2, <1>7, <1>8

-----------------------------------------------------------------------------
(* The lists' inductive invariant                                           *)

\* Nobody was given a newer list than the one that is stored.
ServedInv == \A r \in Readers, a \in Artists : served[<<r, a>>] <= stored[a].built

\* A lookup that goes on to be given a list has read one that is no older than what
\* its reader had, or waits for a build because its reader had none.
LookupInv(r) ==
  LET l == lookup[r] IN
  l.pc # "idle" =>
    /\ l.artist \in Artists /\ l.process \in Processes
    /\ l.sure =>
         /\ l.pc = "reading" => l.list = 0
         /\ l.pc = "joining" =>
              served[<<r, l.artist>>] <= l.list /\ l.list <= stored[l.artist].built
         /\ l.pc = "waiting" => served[<<r, l.artist>>] = 0
         /\ l.pc = "served" =>
              served[<<r, l.artist>>] = 0 /\ l.list <= stored[l.artist].built

ListsInv == BuildsTypeOK /\ ServedInv /\ \A r \in Readers : LookupInv(r)

\* The sweep builds for the first artist that is left.
SweepInv == sweep.build.pc # "none" => sweep.todo # <<>>

BuildsInv == ListsInv /\ SweepInv

-----------------------------------------------------------------------------
(* Every step of the lists keeps it                                         *)

BuiltGrows == \A a \in Artists : stored[a].built <= stored'[a].built

\* A step that gives no reader a list: what has to be shown are the lookups it changes.
LEMMA StepKeeps ==
  ASSUME ListsInv, BuildsTypeOK', BuiltGrows, UNCHANGED served,
         \A r \in Readers : lookup'[r] = lookup[r] \/ LookupInv(r)'
  PROVE  ListsInv'
<1>1. \A a \in Artists : stored[a].built \in Nat /\ stored'[a].built \in Nat
  BY DEF ListsInv, BuildsTypeOK, StoredRows
<1>2. \A k \in Readers \X Artists : served[k] \in Nat
  BY DEF ListsInv, BuildsTypeOK
<1>3. \A r \in Readers : lookup[r].list \in Nat
  BY DEF ListsInv, BuildsTypeOK, Lookups
<1>4. ServedInv'
  <2>1. SUFFICES ASSUME NEW r \in Readers, NEW a \in Artists
                 PROVE  served[<<r, a>>] <= stored'[a].built
    BY DEF ServedInv
  <2>2. served[<<r, a>>] <= stored[a].built /\ stored[a].built <= stored'[a].built
    BY DEF ListsInv, ServedInv, BuiltGrows
  <2>3. <<r, a>> \in Readers \X Artists
    OBVIOUS
  <2> QED BY <1>1, <1>2, <2>2, <2>3
<1>5. ASSUME NEW r \in Readers, lookup'[r] = lookup[r] PROVE LookupInv(r)'
  <2>1. CASE lookup[r].artist \in Artists
    <3>1. PICK a \in Artists : a = lookup[r].artist
      BY <2>1
    <3>2. lookup[r].list <= stored[a].built => lookup[r].list <= stored'[a].built
      BY <1>1, <1>3 DEF BuiltGrows
    <3> QED BY <1>5, <3>1, <3>2 DEF ListsInv, LookupInv
  <2>2. CASE lookup[r].artist \notin Artists
    BY <1>5, <2>2 DEF ListsInv, LookupInv
  <2> QED BY <2>1, <2>2
<1> QED BY <1>4, <1>5 DEF ListsInv

\* A step that no lookup takes part in.
LEMMA WithoutLookups ==
  ASSUME ListsInv, BuildsTypeOK', BuiltGrows, UNCHANGED <<lookup, served>>
  PROVE  ListsInv'
BY StepKeeps

\* A step of a single lookup, that leaves what is built alone.
LEMMA OneLookup ==
  ASSUME ListsInv, BuildsTypeOK', NEW r \in Readers,
         \A a \in Artists : stored'[a].built = stored[a].built,
         \A q \in Readers : q # r => lookup'[q] = lookup[q],
         \A q \in Readers, a \in Artists : q # r => served'[<<q, a>>] = served[<<q, a>>],
         \A a \in Artists : served'[<<r, a>>] <= stored[a].built,
         LookupInv(r)'
  PROVE  ListsInv'
<1>1. ServedInv'
  <2>1. SUFFICES ASSUME NEW q \in Readers, NEW a \in Artists
                 PROVE  served'[<<q, a>>] <= stored'[a].built
    BY DEF ServedInv
  <2> QED BY DEF ListsInv, ServedInv
<1>2. ASSUME NEW q \in Readers, q # r PROVE LookupInv(q)'
  <2>1. CASE lookup[q].artist \in Artists
    <3>1. PICK a \in Artists : a = lookup[q].artist
      BY <2>1
    <3> QED BY <1>2, <3>1 DEF ListsInv, LookupInv
  <2>2. CASE lookup[q].artist \notin Artists
    BY <1>2, <2>2 DEF ListsInv, LookupInv
  <2> QED BY <2>1, <2>2
<1> QED BY <1>1, <1>2 DEF ListsInv

\* What an answer does: the reader holds this list of the artist, and is free again.
GivenTo(r, a, list) ==
  /\ lookup' \in [Readers -> Lookups] /\ lookup'[r] = NoLookup
  /\ \A q \in Readers : q # r => lookup'[q] = lookup[q]
  /\ served' \in [Readers \X Artists -> Nat]
  /\ \A q \in Readers, b \in Artists :
       q # r \/ b # a \/ ~ lookup[r].sure => served'[<<q, b>>] = served[<<q, b>>]
  /\ lookup[r].sure => served'[<<r, a>>] = list

LEMMA AnsweredFacts ==
  ASSUME BuildsTypeOK, NEW r \in Readers, NEW a \in Artists, a = lookup[r].artist,
         NEW list \in Nat, Answered(r, list)
  PROVE  GivenTo(r, a, list)
<1>1. lookup \in [Readers -> Lookups] /\ served \in [Readers \X Artists -> Nat]
  BY DEF BuildsTypeOK
<1>2. NoLookup \in Lookups
  BY DEF NoLookup, Lookups
<1>3. lookup' = [lookup EXCEPT ![r] = NoLookup]
  BY DEF Answered
<1>4. lookup' \in [Readers -> Lookups] /\ lookup'[r] = NoLookup
  BY <1>1, <1>2, <1>3
<1>5. \A q \in Readers : q # r => lookup'[q] = lookup[q]
  BY <1>1, <1>3
<1>6. PICK k \in Readers \X Artists : k = <<r, a>>
  OBVIOUS
<1>7. served' = IF lookup[r].sure THEN [served EXCEPT ![k] = list] ELSE served
  BY <1>6 DEF Answered
<1>8. served' \in [Readers \X Artists -> Nat]
  BY <1>1, <1>7
<1>9. lookup[r].sure => served'[k] = list
  BY <1>1, <1>7
<1>10. \A j \in Readers \X Artists : j # k \/ ~ lookup[r].sure => served'[j] = served[j]
  BY <1>1, <1>7
<1>11. ASSUME NEW q \in Readers, NEW b \in Artists, q # r \/ b # a \/ ~ lookup[r].sure
       PROVE  served'[<<q, b>>] = served[<<q, b>>]
  <2>1. PICK j \in Readers \X Artists : j = <<q, b>>
    OBVIOUS
  <2>2. j # k \/ ~ lookup[r].sure
    BY <1>6, <1>11, <2>1
  <2> QED BY <1>10, <2>1, <2>2
<1> QED BY <1>4, <1>5, <1>6, <1>8, <1>9, <1>11 DEF GivenTo

\* A list that is no older than what the reader had, nor newer than what is stored.
LEMMA AnsweredKeeps ==
  ASSUME ListsInv, NEW r \in Readers, NEW a \in Artists, a = lookup[r].artist,
         NEW list \in Nat, Answered(r, list),
         lookup[r].sure => served[<<r, a>>] <= list /\ list <= stored[a].built,
         UNCHANGED <<stored, old, resting, sweep, ages>>,
         job' \in [Processes \X Artists -> Builds], faults' \in 0..MaxFaults
  PROVE  ListsInv' /\ \A k \in DOMAIN served : served[k] <= served'[k]
<1>1. BuildsTypeOK
  BY DEF ListsInv
<1>2. /\ lookup' \in [Readers -> Lookups] /\ lookup'[r] = NoLookup
      /\ \A q \in Readers : q # r => lookup'[q] = lookup[q]
      /\ served' \in [Readers \X Artists -> Nat]
      /\ \A q \in Readers, b \in Artists :
           q # r \/ b # a \/ ~ lookup[r].sure => served'[<<q, b>>] = served[<<q, b>>]
      /\ lookup[r].sure => served'[<<r, a>>] = list
  <2>1. GivenTo(r, a, list)
    BY <1>1, AnsweredFacts
  <2> QED BY <2>1 DEF GivenTo
<1>3. BuildsTypeOK'
  BY <1>1, <1>2 DEF BuildsTypeOK
<1>4. ASSUME NEW b \in Artists PROVE served'[<<r, b>>] <= stored[b].built
  <2>1. CASE b = a /\ lookup[r].sure
    BY <1>2, <2>1
  <2>2. CASE ~ (b = a /\ lookup[r].sure)
    <3>1. served'[<<r, b>>] = served[<<r, b>>]
      BY <1>2, <2>2
    <3> QED BY <3>1 DEF ListsInv, ServedInv
  <2> QED BY <2>1, <2>2
<1>5. LookupInv(r)'
  BY <1>2 DEF LookupInv, NoLookup
<1>6. ListsInv'
  <2>1. \A q \in Readers, b \in Artists : q # r => served'[<<q, b>>] = served[<<q, b>>]
    BY <1>2
  <2>2. \A b \in Artists : stored'[b].built = stored[b].built
    OBVIOUS
  <2> QED BY <1>2, <1>3, <1>4, <1>5, <2>1, <2>2, OneLookup
<1>7. ASSUME NEW k \in DOMAIN served PROVE served[k] <= served'[k]
  <2>1. served \in [Readers \X Artists -> Nat]
    BY <1>1 DEF BuildsTypeOK
  <2>2. PICK q \in Readers, b \in Artists : k = <<q, b>>
    BY <1>7, <2>1
  <2>3. CASE q = r /\ b = a /\ lookup[r].sure
    BY <1>2, <2>2, <2>3
  <2>4. CASE ~ (q = r /\ b = a /\ lookup[r].sure)
    <3>1. served'[k] = served[k]
      BY <1>2, <2>2, <2>4
    <3>2. served[k] \in Nat
      BY <1>7, <2>1
    <3> QED BY <3>1, <3>2
  <2> QED BY <2>3, <2>4
<1> QED BY <1>6, <1>7

LEMMA WriteFacts ==
  ASSUME BuildsTypeOK, NEW a \in Artists, NEW start \in Nat, Write(a, start)
  PROVE  /\ stored' \in [Artists -> StoredRows] /\ old' \subseteq Artists
         /\ BuiltGrows
         /\ stored[a].known => start <= stored'[a].built
<1>1. stored \in [Artists -> StoredRows] /\ old \subseteq Artists
  BY DEF BuildsTypeOK
<1>2. \A b \in Artists : stored[b] \in StoredRows /\ stored[b].built \in Nat
  BY <1>1 DEF StoredRows
<1>3. CASE Claims(a, start)
  <2>1. /\ stored' = [stored EXCEPT ![a].built = start, ![a].current = TRUE]
        /\ old' = old \ {a}
    BY <1>3 DEF Write
  <2>2. PICK new : new = [stored[a] EXCEPT !.built = start, !.current = TRUE]
    OBVIOUS
  <2>3. new \in StoredRows /\ new.built = start
    BY <1>2, <2>2 DEF StoredRows
  <2>4. stored' = [stored EXCEPT ![a] = new]
    BY <1>1, <2>1, <2>2
  <2>5. stored' \in [Artists -> StoredRows] /\ stored'[a] = new
    BY <1>1, <2>3, <2>4
  <2>6. \A b \in Artists : b # a => stored'[b] = stored[b]
    BY <1>1, <2>4
  <2>7. stored[a].built <= start /\ start <= start
    BY <1>2, <1>3 DEF Claims
  <2>8. BuiltGrows
    <3>1. ASSUME NEW b \in Artists PROVE stored[b].built <= stored'[b].built
      BY <1>2, <2>3, <2>5, <2>6, <2>7
    <3> QED BY <3>1 DEF BuiltGrows
  <2> QED BY <1>1, <2>1, <2>3, <2>5, <2>7, <2>8
<1>4. CASE ~ Claims(a, start)
  <2>1. UNCHANGED <<stored, old>>
    BY <1>4 DEF Write
  <2>2. BuiltGrows
    BY <1>2, <2>1 DEF BuiltGrows
  <2>3. stored[a].known => start <= stored[a].built
    BY <1>2, <1>4 DEF Claims
  <2> QED BY <1>1, <2>1, <2>2, <2>3
<1> QED BY <1>3, <1>4

LEMMA FaultsAreCounted ==
  ASSUME BuildsAssumption, BuildsTypeOK, Fault \/ NoFault
  PROVE  faults' \in 0..MaxFaults
BY DEF BuildsAssumption, BuildsTypeOK, Fault, NoFault

LEMMA BuiltStays ==
  ASSUME BuildsTypeOK, \A a \in Artists : stored'[a].built = stored[a].built
  PROVE  BuiltGrows
<1>1. \A a \in Artists : stored[a].built \in Nat
  BY DEF BuildsTypeOK, StoredRows
<1> QED BY <1>1 DEF BuiltGrows

LEMMA RecordedFacts ==
  ASSUME BuildsTypeOK, NEW a \in Artists, stored' = Recorded(a)
  PROVE  /\ stored' \in [Artists -> StoredRows]
         /\ \A b \in Artists : stored'[b].built = stored[b].built
<1>1. stored \in [Artists -> StoredRows]
  BY DEF BuildsTypeOK
<1>2. PICK new : new = [stored[a] EXCEPT !.known = TRUE]
  OBVIOUS
<1>3. new \in StoredRows /\ new.built = stored[a].built
  BY <1>1, <1>2 DEF StoredRows
<1>4. stored' = [stored EXCEPT ![a] = new]
  BY <1>1, <1>2 DEF Recorded
<1>5. stored' \in [Artists -> StoredRows]
  BY <1>1, <1>3, <1>4
<1>6. \A b \in Artists : b # a => stored'[b] = stored[b]
  BY <1>1, <1>4
<1>7. stored'[a] = new
  BY <1>1, <1>4
<1> QED BY <1>3, <1>5, <1>6, <1>7

LEMMA StoreKeeps ==
  ASSUME BuildsAssumption, ListsInv, NEW a \in Artists, GetsOld(a) \/ Warm(a) \/ HourPasses(a)
  PROVE  ListsInv' /\ UNCHANGED served
<1>1. BuildsTypeOK
  BY DEF ListsInv
<1>2. CASE GetsOld(a)
  <2>1. BuildsTypeOK'
    BY <1>1, <1>2 DEF BuildsTypeOK, GetsOld, BuildsAssumption
  <2> QED BY <1>1, <1>2, <2>1, BuiltStays, WithoutLookups DEF GetsOld
<1>3. CASE Warm(a)
  <2>1. /\ stored' \in [Artists -> StoredRows]
        /\ \A b \in Artists : stored'[b].built = stored[b].built
    BY <1>1, <1>3, RecordedFacts DEF Warm
  <2>2. BuildsTypeOK'
    BY <1>1, <1>3, <2>1 DEF BuildsTypeOK, Warm
  <2> QED BY <1>1, <1>3, <2>1, <2>2, BuiltStays, WithoutLookups DEF Warm
<1>4. CASE HourPasses(a)
  <2>1. BuildsTypeOK'
    BY <1>1, <1>4 DEF BuildsTypeOK, HourPasses
  <2> QED BY <1>1, <1>4, <2>1, BuiltStays, WithoutLookups DEF HourPasses
<1> QED BY <1>2, <1>3, <1>4

\* What a step of a lookup that is not answered has to show.
LEMMA LookupChanges ==
  ASSUME ListsInv, NEW r \in Readers, NEW l \in Lookups, lookup' = [lookup EXCEPT ![r] = l],
         UNCHANGED <<old, resting, sweep, served, ages>>,
         stored' \in [Artists -> StoredRows],
         \A a \in Artists : stored'[a].built = stored[a].built,
         job' \in [Processes \X Artists -> Builds], faults' \in 0..MaxFaults,
         LookupInv(r)'
  PROVE  ListsInv' /\ UNCHANGED served
<1>1. BuildsTypeOK
  BY DEF ListsInv
<1>2. lookup \in [Readers -> Lookups]
  BY <1>1 DEF BuildsTypeOK
<1>3. lookup' \in [Readers -> Lookups]
  BY <1>2
<1>4. \A q \in Readers : q # r => lookup'[q] = lookup[q]
  BY <1>2
<1>5. BuildsTypeOK'
  BY <1>1, <1>3 DEF BuildsTypeOK
<1>6. \A a \in Artists : served'[<<r, a>>] <= stored[a].built
  BY DEF ListsInv, ServedInv
<1>7. \A q \in Readers, a \in Artists : q # r => served'[<<q, a>>] = served[<<q, a>>]
  OBVIOUS
<1> QED BY <1>4, <1>5, <1>6, <1>7, OneLookup

LEMMA LookKeeps ==
  ASSUME BuildsAssumption, ListsInv, NEW r \in Readers, NEW a \in Artists, NEW p \in Processes,
         Look(r, a, p)
  PROVE  ListsInv' /\ UNCHANGED served
<1>1. BuildsTypeOK
  BY DEF ListsInv
<1>2. /\ stored' \in [Artists -> StoredRows]
      /\ \A b \in Artists : stored'[b].built = stored[b].built
  <2>1. CASE stored' = Recorded(a)
    BY <1>1, <2>1, RecordedFacts
  <2>2. CASE UNCHANGED stored
    BY <1>1, <2>2 DEF BuildsTypeOK
  <2> QED BY <2>1, <2>2 DEF Look
<1>3. faults' \in 0..MaxFaults
  BY <1>1, FaultsAreCounted DEF Look
<1>4. PICK sure \in BOOLEAN : sure = (faults' = faults)
  OBVIOUS
<1>5. PICK l : l = [NoLookup EXCEPT !.pc = "reading", !.artist = a, !.process = p, !.sure = sure]
  OBVIOUS
<1>6. l \in Lookups /\ l.pc = "reading" /\ l.artist = a /\ l.process = p /\ l.list = 0
  BY <1>5 DEF NoLookup, Lookups
<1>7. lookup' = [lookup EXCEPT ![r] = l]
  BY <1>4, <1>5 DEF Look
<1>8. lookup'[r] = l
  BY <1>1, <1>7 DEF BuildsTypeOK
<1>9. LookupInv(r)'
  BY <1>6, <1>8 DEF LookupInv
<1>10. job' \in [Processes \X Artists -> Builds] /\ UNCHANGED <<old, resting, sweep, served, ages>>
  BY <1>1 DEF BuildsTypeOK, Look
<1> QED BY <1>2, <1>3, <1>6, <1>7, <1>9, <1>10, LookupChanges

LEMMA ReadKeeps ==
  ASSUME BuildsAssumption, ListsInv, NEW r \in Readers, ReadBuildState(r) \/ ReadFails(r)
  PROVE  ListsInv' /\ UNCHANGED served
<1>1. BuildsTypeOK
  BY DEF ListsInv
<1>2. lookup[r].pc \in {"reading", "listing"}
  BY DEF ReadBuildState, ReadFails
<1>3. lookup[r] \in Lookups /\ DOMAIN lookup = Readers
  BY <1>1 DEF BuildsTypeOK
<1>4. PICK a \in Artists : a = lookup[r].artist
  BY <1>2 DEF ListsInv, LookupInv
<1>5. lookup[r].process \in Processes
  BY <1>2 DEF ListsInv, LookupInv
<1>6. stored[a] \in StoredRows /\ stored[a].built \in Nat /\ stored[a].current \in BOOLEAN
  BY <1>1 DEF BuildsTypeOK, StoredRows
<1>7. served[<<r, a>>] <= stored[a].built /\ served[<<r, a>>] \in Nat
  BY <1>1 DEF ListsInv, ServedInv, BuildsTypeOK
<1>8. /\ stored' \in [Artists -> StoredRows]
      /\ \A b \in Artists : stored'[b].built = stored[b].built
      /\ job' \in [Processes \X Artists -> Builds]
      /\ faults' \in 0..MaxFaults
      /\ UNCHANGED <<stored, old, resting, sweep, served, ages>>
  BY <1>1, FaultsAreCounted DEF BuildsTypeOK, ReadBuildState, ReadFails
<1>9. CASE ReadBuildState(r)
  <2>1. PICK l : l = [lookup[r] EXCEPT !.pc = IF stored[a].built # 0 THEN "listing" ELSE "joining",
                                       !.current = stored[a].current]
    OBVIOUS
  <2>2. lookup' = [lookup EXCEPT ![r] = l]
    BY <1>3, <1>4, <1>9, <2>1 DEF ReadBuildState
  <2>3. l \in Lookups
    BY <1>3, <1>6, <2>1 DEF Lookups
  <2>4. /\ l.pc = IF stored[a].built # 0 THEN "listing" ELSE "joining"
        /\ l.artist = a /\ l.process = lookup[r].process /\ l.list = lookup[r].list
        /\ l.sure = lookup[r].sure
    BY <1>3, <1>4, <2>1 DEF Lookups
  <2>5. lookup'[r] = l
    BY <1>3, <2>2
  <2>6. l.sure => l.list = 0
    BY <1>9, <2>4 DEF ListsInv, LookupInv, ReadBuildState
  <2>7. l.sure /\ l.pc = "joining" => served[<<r, a>>] <= l.list /\ l.list <= stored[a].built
    BY <1>6, <1>7, <2>4, <2>6
  <2>8. LookupInv(r)'
    BY <1>5, <1>8, <2>4, <2>5, <2>7 DEF LookupInv
  <2> QED BY <1>8, <2>2, <2>3, <2>8, LookupChanges
<1>10. CASE ReadFails(r)
  <2>1. PICK l : l = [lookup[r] EXCEPT !.pc = "joining", !.sure = FALSE]
    OBVIOUS
  <2>2. lookup' = [lookup EXCEPT ![r] = l]
    BY <1>3, <1>10, <2>1 DEF ReadFails
  <2>3. /\ l \in Lookups /\ l.pc = "joining" /\ l.sure = FALSE
        /\ l.artist = a /\ l.process = lookup[r].process
    BY <1>3, <1>4, <2>1 DEF Lookups
  <2>4. lookup'[r] = l
    BY <1>3, <2>2
  <2>5. LookupInv(r)'
    BY <1>5, <2>3, <2>4 DEF LookupInv
  <2> QED BY <1>8, <2>2, <2>3, <2>5, LookupChanges
<1> QED BY <1>9, <1>10

Grows == \A k \in DOMAIN served : served[k] <= served'[k]

LEMMA ReadSongsKeeps ==
  ASSUME BuildsAssumption, ListsInv, NEW r \in Readers, ReadSongs(r)
  PROVE  ListsInv' /\ (UNCHANGED served \/ Grows)
<1>1. BuildsTypeOK
  BY DEF ListsInv
<1>2. lookup[r].pc = "listing"
  BY DEF ReadSongs
<1>3. lookup[r] \in Lookups /\ DOMAIN lookup = Readers
  BY <1>1 DEF BuildsTypeOK
<1>4. PICK a \in Artists : a = lookup[r].artist
  BY <1>2 DEF ListsInv, LookupInv
<1>5. lookup[r].process \in Processes
  BY <1>2 DEF ListsInv, LookupInv
<1>6. PICK list \in Nat : list = stored[a].built
  BY <1>1 DEF BuildsTypeOK, StoredRows
<1>7. served[<<r, a>>] <= list /\ list <= stored[a].built
  BY <1>6 DEF ListsInv, ServedInv
<1>8. /\ job' \in [Processes \X Artists -> Builds] /\ faults' \in 0..MaxFaults
      /\ UNCHANGED <<stored, old, resting, sweep, ages>>
  BY <1>1 DEF BuildsTypeOK, ReadSongs
<1>9. CASE lookup[r].current
  <2>1. Answered(r, list)
    BY <1>4, <1>6, <1>9 DEF ReadSongs
  <2> QED BY <1>4, <1>7, <1>8, <2>1, AnsweredKeeps DEF Grows
<1>10. CASE ~ lookup[r].current
  <2>1. PICK l : l = [lookup[r] EXCEPT !.pc = "joining", !.list = list]
    OBVIOUS
  <2>2. lookup' = [lookup EXCEPT ![r] = l] /\ UNCHANGED served
    BY <1>3, <1>4, <1>6, <1>10, <2>1 DEF ReadSongs
  <2>3. /\ l \in Lookups /\ l.pc = "joining" /\ l.list = list
        /\ l.artist = a /\ l.process = lookup[r].process
    BY <1>3, <1>4, <2>1 DEF Lookups
  <2>4. lookup'[r] = l
    BY <1>3, <2>2
  <2>5. LookupInv(r)'
    BY <1>5, <1>7, <1>8, <2>2, <2>3, <2>4 DEF LookupInv
  <2>6. stored' \in [Artists -> StoredRows] /\ \A b \in Artists : stored'[b].built = stored[b].built
    BY <1>1, <1>8 DEF BuildsTypeOK
  <2> QED BY <1>8, <2>2, <2>3, <2>5, <2>6, LookupChanges
<1> QED BY <1>9, <1>10

LEMMA JoinKeeps ==
  ASSUME BuildsAssumption, ListsInv, NEW r \in Readers, JoinJob(r)
  PROVE  ListsInv' /\ (UNCHANGED served \/ Grows)
<1>1. BuildsTypeOK
  BY DEF ListsInv
<1>2. lookup[r].pc = "joining"
  BY DEF JoinJob
<1>3. lookup[r] \in Lookups /\ DOMAIN lookup = Readers
  BY <1>1 DEF BuildsTypeOK
<1>4. PICK a \in Artists, p \in Processes : a = lookup[r].artist /\ p = lookup[r].process
  BY <1>2 DEF ListsInv, LookupInv
<1>5. PICK list \in Nat : list = lookup[r].list
  BY <1>3 DEF Lookups
<1>6. lookup[r].sure => served[<<r, a>>] <= list /\ list <= stored[a].built
  BY <1>2, <1>4, <1>5 DEF ListsInv, LookupInv
<1>7. job' \in [Processes \X Artists -> Builds]
  <2>1. PICK k \in Processes \X Artists : k = <<p, a>>
    OBVIOUS
  <2>2. job' = IF job[k] = NoBuild THEN [job EXCEPT ![k].pc = "queued"] ELSE job
    BY <1>4, <2>1 DEF JoinJob
  <2>3. job \in [Processes \X Artists -> Builds]
    BY <1>1 DEF BuildsTypeOK
  <2>4. [job[k] EXCEPT !.pc = "queued"] \in Builds
    BY <2>3 DEF Builds
  <2> QED BY <2>2, <2>3, <2>4
<1>8. faults' \in 0..MaxFaults /\ UNCHANGED <<stored, old, resting, sweep, ages>>
  BY <1>1 DEF BuildsTypeOK, JoinJob
<1>9. CASE list # 0
  <2>1. Answered(r, list)
    BY <1>5, <1>9 DEF JoinJob
  <2> QED BY <1>4, <1>6, <1>7, <1>8, <2>1, AnsweredKeeps DEF Grows
<1>10. CASE list = 0
  <2>1. PICK l : l = [lookup[r] EXCEPT !.pc = "waiting"]
    OBVIOUS
  <2>2. lookup' = [lookup EXCEPT ![r] = l] /\ UNCHANGED served
    BY <1>3, <1>5, <1>10, <2>1 DEF JoinJob, ToPlace
  <2>3. /\ l \in Lookups /\ l.pc = "waiting" /\ l.sure = lookup[r].sure
        /\ l.artist = a /\ l.process = p
    BY <1>3, <1>4, <2>1 DEF Lookups
  <2>4. lookup'[r] = l
    BY <1>3, <2>2
  <2>5. served[<<r, a>>] \in Nat
    BY <1>1 DEF BuildsTypeOK
  <2>6. l.sure => served[<<r, a>>] = 0
    BY <1>6, <1>10, <2>3, <2>5
  <2>7. LookupInv(r)'
    BY <2>2, <2>3, <2>4, <2>6 DEF LookupInv
  <2>8. stored' \in [Artists -> StoredRows] /\ \A b \in Artists : stored'[b].built = stored[b].built
    BY <1>1, <1>8 DEF BuildsTypeOK
  <2> QED BY <1>7, <1>8, <2>2, <2>3, <2>7, <2>8, LookupChanges
<1> QED BY <1>9, <1>10

LEMMA TakeKeeps ==
  ASSUME BuildsAssumption, ListsInv, NEW r \in Readers, Take(r)
  PROVE  ListsInv' /\ Grows
<1>1. BuildsTypeOK
  BY DEF ListsInv
<1>2. lookup[r].pc = "served"
  BY DEF Take
<1>3. lookup[r] \in Lookups
  BY <1>1 DEF BuildsTypeOK
<1>4. PICK a \in Artists : a = lookup[r].artist
  BY <1>2 DEF ListsInv, LookupInv
<1>5. PICK list \in Nat : list = lookup[r].list
  BY <1>3 DEF Lookups
<1>6. lookup[r].sure => served[<<r, a>>] <= list /\ list <= stored[a].built
  BY <1>2, <1>4, <1>5 DEF ListsInv, LookupInv
<1>7. /\ job' \in [Processes \X Artists -> Builds] /\ faults' \in 0..MaxFaults
      /\ UNCHANGED <<stored, old, resting, sweep, ages>>
  BY <1>1 DEF BuildsTypeOK, Take
<1>8. Answered(r, list)
  BY <1>5 DEF Take
<1> QED BY <1>4, <1>6, <1>7, <1>8, AnsweredKeeps DEF Grows

LEMMA LeaveKeeps ==
  ASSUME BuildsAssumption, ListsInv, NEW r \in Readers, Leave(r)
  PROVE  ListsInv' /\ UNCHANGED served
<1>1. BuildsTypeOK
  BY DEF ListsInv
<1>2. NoLookup \in Lookups /\ NoLookup.pc = "idle"
  BY DEF NoLookup, Lookups
<1>3. lookup' = [lookup EXCEPT ![r] = NoLookup]
  BY DEF Leave
<1>4. lookup'[r] = NoLookup
  BY <1>1, <1>3 DEF BuildsTypeOK
<1>5. LookupInv(r)'
  BY <1>2, <1>4 DEF LookupInv
<1>6. /\ stored' \in [Artists -> StoredRows]
      /\ \A a \in Artists : stored'[a].built = stored[a].built
      /\ job' \in [Processes \X Artists -> Builds] /\ faults' \in 0..MaxFaults
      /\ UNCHANGED <<old, resting, sweep, served, ages>>
  BY <1>1 DEF BuildsTypeOK, Leave
<1> QED BY <1>2, <1>3, <1>5, <1>6, LookupChanges

LEMMA JobGoesOnKeeps ==
  ASSUME BuildsAssumption, ListsInv, NEW k \in Processes \X Artists,
         JobBegins(k) \/ JobBuilds(k)
  PROVE  ListsInv' /\ UNCHANGED served
<1>1. BuildsTypeOK
  BY DEF ListsInv
<1>2. job \in [Processes \X Artists -> Builds]
  BY <1>1 DEF BuildsTypeOK
<1>3. job' \in [Processes \X Artists -> Builds]
  <2>1. CASE JobBegins(k)
    <3>1. PICK b : b = [pc |-> "building", start |-> StartedNow]
      OBVIOUS
    <3>2. b \in Builds
      BY <1>1, <3>1, StartsAreNumbers DEF Builds
    <3>3. job' = [job EXCEPT ![k] = b]
      BY <2>1, <3>1 DEF JobBegins
    <3> QED BY <1>2, <3>2, <3>3
  <2>2. CASE JobBuilds(k)
    <3>1. PICK b : b = [job[k] EXCEPT !.pc = "writing"]
      OBVIOUS
    <3>2. b \in Builds
      BY <1>2, <3>1 DEF Builds
    <3>3. job' = [job EXCEPT ![k] = b]
      BY <1>2, <2>2, <3>1 DEF JobBuilds, JobIs
    <3> QED BY <1>2, <3>2, <3>3
  <2> QED BY <2>1, <2>2
<1>4. UNCHANGED <<stored, old, resting, sweep, lookup, served, ages, faults>>
  BY DEF JobBegins, JobBuilds
<1>5. BuildsTypeOK'
  BY <1>1, <1>3, <1>4 DEF BuildsTypeOK
<1> QED BY <1>1, <1>4, <1>5, BuiltStays, WithoutLookups

LEMMA JobEndsFacts ==
  ASSUME BuildsTypeOK, NEW k \in Processes \X Artists, NEW outcome, JobEnds(k, outcome),
         \A r \in Readers : lookup[r].pc = "waiting" => outcome[r] \in Lookups
  PROVE  /\ job' \in [Processes \X Artists -> Builds]
         /\ lookup' \in [Readers -> Lookups]
         /\ \A r \in Readers :
              \/ lookup'[r] = lookup[r]
              \/ /\ lookup[r].pc = "waiting" /\ lookup'[r] = outcome[r]
                 /\ <<lookup[r].process, lookup[r].artist>> = k
<1>1. job \in [Processes \X Artists -> Builds] /\ lookup \in [Readers -> Lookups]
  BY DEF BuildsTypeOK
<1>2. NoBuild \in Builds
  BY DEF NoBuild, Builds
<1>3. job' = [job EXCEPT ![k] = NoBuild]
  BY DEF JobEnds
<1>4. job' \in [Processes \X Artists -> Builds]
  BY <1>1, <1>2, <1>3
<1>5. lookup' = [r \in Readers |->
         IF lookup[r].pc = "waiting" /\ <<lookup[r].process, lookup[r].artist>> = k
         THEN outcome[r] ELSE lookup[r]]
  BY DEF JobEnds
<1>6. \A r \in Readers :
        lookup'[r] = IF lookup[r].pc = "waiting" /\ <<lookup[r].process, lookup[r].artist>> = k
                     THEN outcome[r] ELSE lookup[r]
  BY <1>5
<1>7. \A r \in Readers : lookup'[r] \in Lookups
  BY <1>1, <1>6
<1>8. lookup' \in [Readers -> Lookups]
  <2>1. lookup' = [r \in Readers |-> lookup'[r]]
    BY <1>5
  <2> QED BY <1>7, <2>1
<1> QED BY <1>4, <1>6, <1>8

LEMMA NoLookupIsFine ==
  ASSUME NEW r, lookup'[r] = NoLookup
  PROVE  LookupInv(r)'
BY DEF LookupInv, NoLookup

LEMMA JobFailsKeeps ==
  ASSUME BuildsAssumption, ListsInv, NEW k \in Processes \X Artists, JobFails(k)
  PROVE  ListsInv' /\ UNCHANGED served
<1>1. BuildsTypeOK
  BY DEF ListsInv
<1>2. PICK outcome : outcome = [r \in Readers |-> NoLookup]
  OBVIOUS
<1>3. \A r \in Readers : outcome[r] = NoLookup /\ outcome[r] \in Lookups
  BY <1>2 DEF NoLookup, Lookups
<1>4. JobEnds(k, outcome)
  BY <1>2 DEF JobFails
<1>5. /\ job' \in [Processes \X Artists -> Builds]
      /\ lookup' \in [Readers -> Lookups]
      /\ \A r \in Readers :
           \/ lookup'[r] = lookup[r]
           \/ /\ lookup[r].pc = "waiting" /\ lookup'[r] = outcome[r]
              /\ <<lookup[r].process, lookup[r].artist>> = k
  BY <1>1, <1>3, <1>4, JobEndsFacts
<1>6. faults' \in 0..MaxFaults /\ UNCHANGED <<stored, old, resting, sweep, served, ages>>
  <2>1. Fault \/ NoFault
    BY DEF JobFails
  <2> QED BY <1>1, <2>1, FaultsAreCounted DEF JobFails
<1>7. BuildsTypeOK'
  BY <1>1, <1>5, <1>6 DEF BuildsTypeOK
<1>8. \A r \in Readers : lookup'[r] = lookup[r] \/ LookupInv(r)'
  BY <1>3, <1>5, NoLookupIsFine
<1> QED BY <1>1, <1>6, <1>7, <1>8, BuiltStays, StepKeeps

\* What was built is no newer than what is stored, if it was saved.
LEMMA GivenIsFine ==
  ASSUME ListsInv, NEW k \in Processes \X Artists, NEW saved \in BOOLEAN,
         JobEnds(k, Given(k, saved)), BuiltGrows,
         saved => job[k].start <= stored'[k[2]].built,
         stored' \in [Artists -> StoredRows], old' \subseteq Artists,
         faults' \in 0..MaxFaults, UNCHANGED <<resting, sweep, served, ages>>
  PROVE  ListsInv'
<1>1. BuildsTypeOK
  BY DEF ListsInv
<1>2. lookup \in [Readers -> Lookups]
  BY <1>1 DEF BuildsTypeOK
<1>3. PICK start \in Nat : start = job[k].start
  BY <1>1 DEF BuildsTypeOK, Builds
<1>4. PICK outcome : outcome = Given(k, saved)
  OBVIOUS
<1>5. ASSUME NEW r \in Readers
      PROVE  /\ outcome[r] \in Lookups /\ outcome[r].pc = "served"
             /\ outcome[r].list = start /\ outcome[r].sure = (lookup[r].sure /\ saved)
             /\ outcome[r].artist = lookup[r].artist
             /\ outcome[r].process = lookup[r].process
  <2>1. PICK l \in Lookups : l = lookup[r]
    BY <1>2
  <2>2. outcome[r] = [l EXCEPT !.pc = "served", !.list = start, !.sure = l.sure /\ saved]
    BY <1>3, <1>4, <2>1 DEF Given
  <2>3. (l.sure /\ saved) \in BOOLEAN
    BY <2>1
  <2>4. PICK sure \in BOOLEAN : sure = (l.sure /\ saved)
    BY <2>3
  <2>5. outcome[r] = [l EXCEPT !.pc = "served", !.list = start, !.sure = sure]
    BY <2>2, <2>4
  <2> QED BY <1>3, <2>1, <2>4, <2>5 DEF Lookups
<1>6. JobEnds(k, outcome)
  BY <1>4
<1>7. /\ job' \in [Processes \X Artists -> Builds]
      /\ lookup' \in [Readers -> Lookups]
      /\ \A r \in Readers :
           \/ lookup'[r] = lookup[r]
           \/ /\ lookup[r].pc = "waiting" /\ lookup'[r] = outcome[r]
              /\ <<lookup[r].process, lookup[r].artist>> = k
  BY <1>1, <1>5, <1>6, JobEndsFacts
<1>8. BuildsTypeOK'
  BY <1>1, <1>7 DEF BuildsTypeOK
<1>9. ASSUME NEW r \in Readers, lookup'[r] # lookup[r] PROVE LookupInv(r)'
  <2>1. /\ lookup[r].pc = "waiting" /\ lookup'[r] = outcome[r]
        /\ <<lookup[r].process, lookup[r].artist>> = k
    BY <1>7, <1>9
  <2>2. PICK a \in Artists, p \in Processes : a = lookup[r].artist /\ p = lookup[r].process
    BY <2>1 DEF ListsInv, LookupInv
  <2>3. k[2] = a
    BY <2>1, <2>2
  <2>4. lookup[r].sure => served[<<r, a>>] = 0
    BY <2>1, <2>2 DEF ListsInv, LookupInv
  <2>5. saved => start <= stored'[a].built
    BY <1>3, <2>3
  <2>6. PICK l : l = lookup'[r]
    OBVIOUS
  <2>7. /\ l.pc = "served" /\ l.list = start /\ l.artist = a /\ l.process = p
        /\ l.sure = (lookup[r].sure /\ saved)
    BY <1>5, <2>1, <2>2, <2>6
  <2>8. l.sure => served'[<<r, a>>] = 0 /\ l.list <= stored'[a].built
    BY <2>4, <2>5, <2>7
  <2> QED BY <2>6, <2>7, <2>8 DEF LookupInv
<1> QED BY <1>8, <1>9, StepKeeps

LEMMA JobWritesKeeps ==
  ASSUME BuildsAssumption, ListsInv, NEW k \in Processes \X Artists,
         JobWrites(k) \/ JobWriteFails(k)
  PROVE  ListsInv' /\ UNCHANGED served
<1>1. BuildsTypeOK
  BY DEF ListsInv
<1>2. k[2] \in Artists /\ job[k].start \in Nat
  BY <1>1 DEF BuildsTypeOK, Builds
<1>3. stored \in [Artists -> StoredRows] /\ old \subseteq Artists
  BY <1>1 DEF BuildsTypeOK
<1>4. CASE JobWrites(k)
  <2>1. /\ stored' \in [Artists -> StoredRows] /\ old' \subseteq Artists
        /\ BuiltGrows
        /\ stored[k[2]].known => job[k].start <= stored'[k[2]].built
    BY <1>1, <1>2, <1>4, WriteFacts DEF JobWrites
  <2>2. stored[k[2]].known \in BOOLEAN
    BY <1>2, <1>3 DEF StoredRows
  <2>3. faults' \in 0..MaxFaults /\ UNCHANGED <<resting, sweep, served, ages>>
    BY <1>1, <1>4 DEF BuildsTypeOK, JobWrites
  <2>4. JobEnds(k, Given(k, stored[k[2]].known))
    BY <1>4 DEF JobWrites
  <2> QED BY <2>1, <2>2, <2>3, <2>4, GivenIsFine
<1>5. CASE JobWriteFails(k)
  <2>1. faults' \in 0..MaxFaults
    BY <1>1, <1>5, FaultsAreCounted DEF JobWriteFails
  <2>2. UNCHANGED <<stored, old, resting, sweep, served, ages>>
    BY <1>5 DEF JobWriteFails
  <2>3. JobEnds(k, Given(k, FALSE))
    BY <1>5 DEF JobWriteFails
  <2>4. BuiltGrows
    BY <1>1, <2>2, BuiltStays
  <2>5. stored' \in [Artists -> StoredRows] /\ old' \subseteq Artists
    BY <1>3, <2>2
  <2> QED BY <2>1, <2>2, <2>3, <2>4, <2>5, GivenIsFine
<1> QED BY <1>4, <1>5

LEMMA CrashKeeps ==
  ASSUME BuildsAssumption, ListsInv, NEW p \in Processes, Crash(p)
  PROVE  ListsInv' /\ UNCHANGED served
<1>1. BuildsTypeOK
  BY DEF ListsInv
<1>2. job \in [Processes \X Artists -> Builds] /\ lookup \in [Readers -> Lookups]
  BY <1>1 DEF BuildsTypeOK
<1>3. NoBuild \in Builds /\ NoLookup \in Lookups
  BY DEF NoBuild, Builds, NoLookup, Lookups
<1>4. job' = [k \in Processes \X Artists |-> IF k[1] = p THEN NoBuild ELSE job[k]]
  BY <1>2 DEF Crash
<1>5. job' \in [Processes \X Artists -> Builds]
  BY <1>2, <1>3, <1>4
<1>6. lookup' = [r \in Readers |-> IF lookup[r].process = p THEN NoLookup ELSE lookup[r]]
  BY DEF Crash
<1>7. lookup' \in [Readers -> Lookups]
  BY <1>2, <1>3, <1>6
<1>8. \A r \in Readers : lookup'[r] = lookup[r] \/ lookup'[r] = NoLookup
  BY <1>6
<1>9. \A r \in Readers : lookup'[r] = lookup[r] \/ LookupInv(r)'
  BY <1>8, NoLookupIsFine
<1>10. faults' \in 0..MaxFaults
  BY <1>1, FaultsAreCounted DEF Crash
<1>11. UNCHANGED <<stored, old, resting, sweep, served, ages>>
  BY DEF Crash
<1>12. BuildsTypeOK'
  BY <1>1, <1>5, <1>7, <1>10, <1>11 DEF BuildsTypeOK
<1> QED BY <1>1, <1>9, <1>11, <1>12, BuiltStays, StepKeeps

LEMMA PickedAreArtists ==
  ASSUME BuildsAssumption, NEW due \in SUBSET Artists, NEW s \in Picked(due)
  PROVE  s \in Seq(Artists)
<1>1. IsFiniteSet(due)
  BY FS_Subset DEF BuildsAssumption
<1>2. Cardinality(due) \in Nat
  BY <1>1, FS_CardinalityType
<1>3. PICK n : n = IF Cardinality(due) < Limit THEN Cardinality(due) ELSE Limit
  OBVIOUS
<1>4. n \in Nat
  BY <1>2, <1>3 DEF BuildsAssumption
<1>5. s \in [1..n -> due]
  BY <1>3 DEF Picked
<1>6. s \in [1..n -> Artists]
  BY <1>5
<1> QED BY <1>4, <1>6

LEMMA DueKeeps ==
  ASSUME BuildsAssumption, BuildsInv, Due
  PROVE  BuildsInv' /\ UNCHANGED served
<1>1. BuildsTypeOK
  BY DEF BuildsInv, ListsInv
<1>2. PICK due : due = {a \in Artists : IsDue(a) /\ a \notin resting}
  OBVIOUS
<1>3. due \in SUBSET Artists
  BY <1>2
<1>4. PICK s \in Picked(due) : /\ sweep' = [sweep EXCEPT !.todo = s]
                               /\ Stamp({s[i] : i \in DOMAIN s})
  BY <1>2 DEF Due
<1>5. s \in Seq(Artists)
  BY <1>3, PickedAreArtists
<1>6. PICK picked : picked = {s[i] : i \in DOMAIN s}
  OBVIOUS
<1>7. picked \subseteq Artists
  BY <1>5, <1>6
<1>8. sweep' \in [todo : Seq(Artists), build : Builds] /\ sweep'.build = sweep.build
  BY <1>1, <1>4, <1>5 DEF BuildsTypeOK
<1>9. PICK f : f = [a \in Artists |-> IF a \in picked
                      THEN Max({stored[b].attempted : b \in Artists}) + 1
                      ELSE stored[a].attempted]
  OBVIOUS
<1>10. PICK ranks : ranks = Ranks(f)
  OBVIOUS
<1>11. \A a \in Artists : ranks[a] \in Nat
  BY <1>10, RanksAreNumbers
<1>12. /\ stored' = [a \in Artists |-> [stored[a] EXCEPT !.attempted = ranks[a]]]
       /\ resting' = resting \cup picked
  BY <1>4, <1>6, <1>9, <1>10 DEF Stamp
<1>13. ASSUME NEW a \in Artists
       PROVE  stored'[a] \in StoredRows /\ stored'[a].built = stored[a].built
  <2>1. PICK n \in Nat : n = ranks[a]
    BY <1>11
  <2>2. stored'[a] = [stored[a] EXCEPT !.attempted = n]
    BY <1>12, <2>1
  <2>3. stored[a] \in StoredRows
    BY <1>1 DEF BuildsTypeOK
  <2> QED BY <2>2, <2>3 DEF StoredRows
<1>14. stored' \in [Artists -> StoredRows]
  <2>1. stored' = [a \in Artists |-> stored'[a]]
    BY <1>12
  <2> QED BY <1>13, <2>1
<1>15. UNCHANGED <<old, job, lookup, served, ages, faults>>
  BY DEF Due
<1>16. resting' \subseteq Artists
  BY <1>1, <1>7, <1>12 DEF BuildsTypeOK
<1>17. BuildsTypeOK'
  BY <1>1, <1>8, <1>14, <1>15, <1>16 DEF BuildsTypeOK
<1>18. BuiltGrows
  BY <1>1, <1>13, BuiltStays
<1>19. ListsInv'
  BY <1>15, <1>17, <1>18, WithoutLookups DEF BuildsInv
<1>20. SweepInv'
  <2>1. sweep.todo = <<>>
    BY DEF Due
  <2>2. sweep.build.pc = "none"
    BY <2>1 DEF BuildsInv, SweepInv
  <2> QED BY <1>8, <2>2 DEF SweepInv
<1> QED BY <1>15, <1>19, <1>20 DEF BuildsInv

\* What is left after the first artist.
LEMMA NextArtistFacts ==
  ASSUME BuildsTypeOK, sweep.todo # <<>>
  PROVE  /\ Head(sweep.todo) \in Artists /\ Tail(sweep.todo) \in Seq(Artists)
         /\ ToNextArtist => sweep' \in [todo : Seq(Artists), build : Builds] /\ SweepInv'
<1>1. PICK s \in Seq(Artists) : s = sweep.todo
  BY DEF BuildsTypeOK
<1>2. Head(s) \in Artists /\ Tail(s) \in Seq(Artists)
  BY <1>1
<1>3. NoBuild \in Builds /\ NoBuild.pc = "none"
  BY DEF NoBuild, Builds
<1>4. ASSUME ToNextArtist
      PROVE  sweep' \in [todo : Seq(Artists), build : Builds] /\ sweep'.build = NoBuild
  BY <1>1, <1>2, <1>3, <1>4 DEF ToNextArtist
<1> QED BY <1>1, <1>2, <1>3, <1>4 DEF SweepInv

\* A step of the sweep that stores nothing.
LEMMA SweepAlone ==
  ASSUME BuildsInv, sweep' \in [todo : Seq(Artists), build : Builds], SweepInv',
         UNCHANGED <<stored, old, resting, job, lookup, served, ages>>,
         faults' \in 0..MaxFaults
  PROVE  BuildsInv' /\ UNCHANGED served
<1>1. BuildsTypeOK
  BY DEF BuildsInv, ListsInv
<1>2. BuildsTypeOK'
  BY <1>1 DEF BuildsTypeOK
<1>3. ListsInv'
  BY <1>1, <1>2, BuiltStays, WithoutLookups DEF BuildsInv
<1> QED BY <1>3 DEF BuildsInv

LEMMA SweepGoesOnKeeps ==
  ASSUME BuildsAssumption, BuildsInv,
         SweepBegins \/ SweepBuilds \/ SweepFails \/ SweepWriteFails \/ SweepDies
  PROVE  BuildsInv' /\ UNCHANGED served
<1>1. BuildsTypeOK
  BY DEF BuildsInv, ListsInv
<1>2. sweep \in [todo : Seq(Artists), build : Builds]
  BY <1>1 DEF BuildsTypeOK
<1>3. UNCHANGED <<stored, old, resting, job, lookup, served, ages>>
  BY DEF SweepBegins, SweepBuilds, SweepFails, SweepWriteFails, SweepDies
<1>4. faults' \in 0..MaxFaults
  <2>1. UNCHANGED faults \/ Fault \/ NoFault
    BY DEF SweepBegins, SweepBuilds, SweepFails, SweepWriteFails, SweepDies
  <2> QED BY <1>1, <2>1, FaultsAreCounted DEF NoFault
<1>5. sweep' \in [todo : Seq(Artists), build : Builds] /\ SweepInv'
  <2>1. CASE SweepBegins
    <3>1. PICK b \in Builds : b = [pc |-> "building", start |-> StartedNow]
      BY <1>1, StartsAreNumbers DEF Builds
    <3>2. sweep' = [sweep EXCEPT !.build = b] /\ sweep.todo # <<>>
      BY <2>1, <3>1 DEF SweepBegins
    <3>3. sweep' \in [todo : Seq(Artists), build : Builds] /\ sweep'.todo = sweep.todo
      BY <1>2, <3>2
    <3> QED BY <3>2, <3>3 DEF SweepInv
  <2>2. CASE SweepBuilds
    <3>1. PICK b : b = [sweep.build EXCEPT !.pc = "writing"]
      OBVIOUS
    <3>2. b \in Builds
      BY <1>2, <3>1 DEF Builds
    <3>3. sweep' = [sweep EXCEPT !.build = b] /\ sweep.todo # <<>>
      BY <1>2, <2>2, <3>1 DEF SweepBuilds, SweepIs
    <3>4. sweep' \in [todo : Seq(Artists), build : Builds] /\ sweep'.todo = sweep.todo
      BY <1>2, <3>2, <3>3
    <3> QED BY <3>3, <3>4 DEF SweepInv
  <2>3. CASE SweepFails \/ SweepWriteFails
    <3>1. sweep.build.pc # "none" /\ ToNextArtist
      BY <2>3 DEF SweepFails, SweepWriteFails
    <3>2. sweep.todo # <<>>
      BY <3>1 DEF BuildsInv, SweepInv
    <3> QED BY <1>1, <3>1, <3>2, NextArtistFacts
  <2>4. CASE SweepDies
    <3>1. NoBuild \in Builds /\ NoBuild.pc = "none"
      BY DEF NoBuild, Builds
    <3>2. sweep' = [todo |-> <<>>, build |-> NoBuild]
      BY <2>4 DEF SweepDies
    <3>3. << >> \in Seq(Artists)
      OBVIOUS
    <3> QED BY <3>1, <3>2, <3>3 DEF SweepInv
  <2> QED BY <2>1, <2>2, <2>3, <2>4
<1> QED BY <1>3, <1>4, <1>5, SweepAlone

LEMMA SweepWritesKeeps ==
  ASSUME BuildsAssumption, BuildsInv, SweepWrites
  PROVE  BuildsInv' /\ UNCHANGED served
<1>1. BuildsTypeOK
  BY DEF BuildsInv, ListsInv
<1>2. sweep.todo # <<>> /\ ToNextArtist
  BY DEF BuildsInv, SweepInv, SweepWrites
<1>3. PICK a \in Artists : a = Head(sweep.todo)
  BY <1>1, <1>2, NextArtistFacts
<1>4. PICK start \in Nat : start = sweep.build.start
  BY <1>1 DEF BuildsTypeOK, Builds
<1>5. Write(a, start)
  BY <1>3, <1>4 DEF SweepWrites
<1>6. stored' \in [Artists -> StoredRows] /\ old' \subseteq Artists /\ BuiltGrows
  BY <1>1, <1>5, WriteFacts
<1>7. sweep' \in [todo : Seq(Artists), build : Builds] /\ SweepInv'
  BY <1>1, <1>2, NextArtistFacts
<1>8. UNCHANGED <<resting, job, lookup, served, ages, faults>>
  BY DEF SweepWrites
<1>9. BuildsTypeOK'
  BY <1>1, <1>6, <1>7, <1>8 DEF BuildsTypeOK
<1>10. ListsInv'
  BY <1>6, <1>8, <1>9, WithoutLookups DEF BuildsInv
<1> QED BY <1>7, <1>8, <1>10 DEF BuildsInv

-----------------------------------------------------------------------------

LEMMA BuildsStart ==
  ASSUME BuildsAssumption, BuildsInit
  PROVE  BuildsInv
<1>1. NoBuild \in Builds /\ NoLookup \in Lookups /\ NoLookup.pc = "idle" /\ NoBuild.pc = "none"
  BY DEF NoBuild, NoLookup, Builds, Lookups
<1>2. PICK outdated \in SUBSET Artists :
         stored = [a \in Artists |->
                     [known |-> a \in outdated, attempted |-> 0,
                      built |-> IF a \in outdated THEN 1 ELSE 0, current |-> FALSE]]
  BY DEF BuildsInit
<1>3. ASSUME NEW a \in Artists
      PROVE  stored[a] \in StoredRows
  <2>1. PICK known : known = (a \in outdated)
    OBVIOUS
  <2>2. PICK n \in Nat : n = IF a \in outdated THEN 1 ELSE 0
    OBVIOUS
  <2>3. known \in BOOLEAN
    BY <2>1
  <2>4. stored[a] = [known |-> known, attempted |-> 0, built |-> n, current |-> FALSE]
    BY <1>2, <2>1, <2>2
  <2> QED BY <2>3, <2>4 DEF StoredRows
<1>4. stored \in [Artists -> StoredRows]
  BY <1>2, <1>3
<1>5. /\ job \in [Processes \X Artists -> Builds]
      /\ lookup = [r \in Readers |-> NoLookup] /\ lookup \in [Readers -> Lookups]
      /\ served \in [Readers \X Artists -> Nat]
  BY <1>1 DEF BuildsInit
<1>6. sweep \in [todo : Seq(Artists), build : Builds] /\ sweep.build = NoBuild
  <2>1. << >> \in Seq(Artists)
    OBVIOUS
  <2> QED BY <1>1, <2>1 DEF BuildsInit
<1>7. old \subseteq Artists /\ resting \subseteq Artists /\ ages \in 0..MaxAges /\ faults \in 0..MaxFaults
  BY DEF BuildsInit, BuildsAssumption
<1>8. BuildsTypeOK
  BY <1>4, <1>5, <1>6, <1>7 DEF BuildsTypeOK
<1>9. ServedInv
  <2>1. ASSUME NEW r \in Readers, NEW a \in Artists PROVE served[<<r, a>>] <= stored[a].built
    <3>1. PICK k \in Readers \X Artists : k = <<r, a>>
      OBVIOUS
    <3>2. served[k] = 0
      BY DEF BuildsInit
    <3>3. stored[a].built \in Nat
      BY <1>3 DEF StoredRows
    <3> QED BY <3>1, <3>2, <3>3
  <2> QED BY <2>1 DEF ServedInv
<1>10. \A r \in Readers : LookupInv(r)
  BY <1>1, <1>5 DEF LookupInv
<1>11. SweepInv
  BY <1>1, <1>6 DEF SweepInv
<1> QED BY <1>8, <1>9, <1>10, <1>11 DEF BuildsInv, ListsInv

LEMMA BuildsStepKeeps ==
  ASSUME BuildsAssumption, BuildsInv, [BuildsNext]_buildVars
  PROVE  BuildsInv' /\ (UNCHANGED served \/ Grows)
<1>1. ListsInv /\ SweepInv
  BY DEF BuildsInv
<1>2. CASE UNCHANGED buildVars
  <2>1. BuildsTypeOK'
    BY <1>1, <1>2 DEF ListsInv, BuildsTypeOK, buildVars
  <2>2. ListsInv'
    BY <1>1, <1>2, <2>1, BuiltStays, WithoutLookups DEF ListsInv, buildVars
  <2> QED BY <1>1, <1>2, <2>2 DEF BuildsInv, SweepInv, buildVars
<1>3. ASSUME NEW a \in Artists, GetsOld(a) \/ Warm(a) \/ HourPasses(a)
      PROVE  BuildsInv' /\ UNCHANGED served
  <2>1. ListsInv' /\ UNCHANGED served
    BY <1>1, <1>3, StoreKeeps
  <2>2. UNCHANGED sweep
    BY <1>3 DEF GetsOld, Warm, HourPasses
  <2> QED BY <1>1, <2>1, <2>2 DEF BuildsInv, SweepInv
<1>4. ASSUME NEW r \in Readers, NEW a \in Artists, NEW p \in Processes, Look(r, a, p)
      PROVE  BuildsInv' /\ UNCHANGED served
  <2>1. ListsInv' /\ UNCHANGED served
    BY <1>1, <1>4, LookKeeps
  <2>2. UNCHANGED sweep
    BY <1>4 DEF Look
  <2> QED BY <1>1, <2>1, <2>2 DEF BuildsInv, SweepInv
<1>5. ASSUME NEW r \in Readers,
             \/ ReadBuildState(r) \/ ReadSongs(r) \/ ReadFails(r) \/ JoinJob(r)
             \/ Take(r) \/ Leave(r)
      PROVE  BuildsInv' /\ (UNCHANGED served \/ Grows)
  <2>1. ListsInv' /\ (UNCHANGED served \/ Grows)
    <3>1. CASE ReadBuildState(r) \/ ReadFails(r)
      BY <1>1, <3>1, ReadKeeps
    <3>2. CASE ReadSongs(r)
      BY <1>1, <3>2, ReadSongsKeeps
    <3>3. CASE JoinJob(r)
      BY <1>1, <3>3, JoinKeeps
    <3>4. CASE Take(r)
      BY <1>1, <3>4, TakeKeeps
    <3>5. CASE Leave(r)
      BY <1>1, <3>5, LeaveKeeps
    <3> QED BY <1>5, <3>1, <3>2, <3>3, <3>4, <3>5
  <2>2. UNCHANGED sweep
    BY <1>5 DEF ReadBuildState, ReadSongs, ReadFails, JoinJob, Take, Leave
  <2> QED BY <1>1, <2>1, <2>2 DEF BuildsInv, SweepInv
<1>6. ASSUME NEW k \in Processes \X Artists,
             JobBegins(k) \/ JobBuilds(k) \/ JobFails(k) \/ JobWrites(k) \/ JobWriteFails(k)
      PROVE  BuildsInv' /\ UNCHANGED served
  <2>1. ListsInv' /\ UNCHANGED served
    <3>1. CASE JobBegins(k) \/ JobBuilds(k)
      BY <1>1, <3>1, JobGoesOnKeeps
    <3>2. CASE JobFails(k)
      BY <1>1, <3>2, JobFailsKeeps
    <3>3. CASE JobWrites(k) \/ JobWriteFails(k)
      BY <1>1, <3>3, JobWritesKeeps
    <3> QED BY <1>6, <3>1, <3>2, <3>3
  <2>2. UNCHANGED sweep
    BY <1>6 DEF JobBegins, JobBuilds, JobFails, JobWrites, JobWriteFails
  <2> QED BY <1>1, <2>1, <2>2 DEF BuildsInv, SweepInv
<1>7. ASSUME NEW p \in Processes, Crash(p)
      PROVE  BuildsInv' /\ UNCHANGED served
  <2>1. ListsInv' /\ UNCHANGED served
    BY <1>1, <1>7, CrashKeeps
  <2>2. UNCHANGED sweep
    BY <1>7 DEF Crash
  <2> QED BY <1>1, <2>1, <2>2 DEF BuildsInv, SweepInv
<1>8. CASE Due
  BY <1>8, DueKeeps
<1>9. CASE SweepBegins \/ SweepBuilds \/ SweepFails \/ SweepWriteFails \/ SweepDies
  BY <1>9, SweepGoesOnKeeps
<1>10. CASE SweepWrites
  BY <1>10, SweepWritesKeeps
<1> QED BY <1>2, <1>3, <1>4, <1>5, <1>6, <1>7, <1>8, <1>9, <1>10 DEF BuildsNext, SweepGoesOn

LEMMA BuildsAlways == BuildsSpec => []BuildsInv
<1>1. BuildsInit => BuildsInv
  BY BuildsStart, BuildsAssumption
<1>2. BuildsInv /\ [BuildsNext]_buildVars => BuildsInv'
  BY BuildsStepKeeps, BuildsAssumption
<1> QED BY <1>1, <1>2, PTL DEF BuildsSpec

\* The stored lists, builds and lookups have their types at all times.
THEOREM ListsTypeCorrect == BuildsSpec => []BuildsTypeOK
<1>1. BuildsInv => BuildsTypeOK
  BY DEF BuildsInv, ListsInv
<1> QED BY <1>1, BuildsAlways, PTL

\* Nobody is served an older list of an artist than before, unless a statement of
\* that lookup or of its build failed: the claim lets no older build replace a newer
\* one, and those who wait for a build have been given nothing yet.
THEOREM NoOlderListIsServed == BuildsSpec => ListsDoNotGoBack
<1>1. BuildsInv /\ [BuildsNext]_buildVars => [\A k \in DOMAIN served : served[k] <= served'[k]]_served
  BY BuildsStepKeeps, BuildsAssumption DEF Grows
<1> QED BY <1>1, BuildsAlways, PTL DEF BuildsSpec, ListsDoNotGoBack

-----------------------------------------------------------------------------
(* The saved queue: counting the places of an element                      *)

\* A function that is one to one and reaches all of a set counts it.
LEMMA SameSize ==
  ASSUME NEW S, NEW T, IsFiniteSet(S), NEW f, \A x \in S : f[x] \in T,
         \A x, y \in S : f[x] = f[y] => x = y, \A z \in T : \E x \in S : f[x] = z
  PROVE  IsFiniteSet(T) /\ Cardinality(T) = Cardinality(S)
<1>1. PICK g : g = [x \in S |-> f[x]]
  OBVIOUS
<1>2. g \in [S -> T]
  BY <1>1
<1>3. g \in Surjection(S, T)
  BY <1>1, <1>2 DEF Surjection
<1>4. IsInjective(g)
  BY <1>1 DEF IsInjective
<1>5. g \in Injection(S, T)
  BY <1>2, <1>4 DEF Injection
<1> QED BY <1>3, <1>5, FS_Surjection

LEMMA IntervalSize ==
  ASSUME NEW m \in Nat
  PROVE  /\ IsFiniteSet(1..m) /\ Cardinality(1..m) = m
         /\ IsFiniteSet(0..(m - 1)) /\ Cardinality(0..(m - 1)) = m
<1>1. PICK a \in Int, b \in Int, c \in Int : a = 0 /\ b = 1 /\ c = m - 1
  OBVIOUS
<1>2. IsFiniteSet(b..m) /\ Cardinality(b..m) = IF b > m THEN 0 ELSE m - b + 1
  BY FS_Interval
<1>3. IsFiniteSet(a..c) /\ Cardinality(a..c) = IF a > c THEN 0 ELSE c - a + 1
  BY FS_Interval
<1>4. (IF b > m THEN 0 ELSE m - b + 1) = m /\ (IF a > c THEN 0 ELSE c - a + 1) = m
  BY <1>1
<1> QED BY <1>1, <1>2, <1>3, <1>4

\* The places of x.
Places(s, x) == {i \in 1..Len(s) : s[i] = x}

\* The places of the same element before i.
Earlier(s, i) == {j \in 1..(i - 1) : s[j] = s[i]}

LEMMA PlacesFacts ==
  ASSUME NEW X, NEW s \in Seq(X), NEW x
  PROVE  /\ CountOf(s, x) = Cardinality(Places(s, x)) /\ IsFiniteSet(Places(s, x))
         /\ CountOf(s, x) \in Nat
<1>1. DOMAIN s = 1..Len(s) /\ Len(s) \in Nat
  OBVIOUS
<1>2. IsFiniteSet(1..Len(s))
  BY <1>1, FS_Interval
<1>3. IsFiniteSet(Places(s, x))
  BY <1>2, FS_Subset DEF Places
<1>4. CountOf(s, x) = Cardinality(Places(s, x))
  BY <1>1 DEF CountOf, Places
<1> QED BY <1>3, <1>4, FS_CardinalityType

LEMMA EarlierFacts ==
  ASSUME NEW X, NEW s \in Seq(X), NEW i \in 1..Len(s)
  PROVE  /\ Rank(s, i) = Cardinality(Earlier(s, i)) /\ IsFiniteSet(Earlier(s, i))
         /\ Rank(s, i) \in Nat
         /\ Earlier(s, i) \subseteq Places(s, s[i]) /\ i \notin Earlier(s, i)
<1>1. Len(s) \in Nat /\ i \in Nat
  OBVIOUS
<1>2. PICK t : t = SubSeq(s, 1, i - 1)
  OBVIOUS
<1>3. DOMAIN t = 1..(i - 1) /\ \A j \in 1..(i - 1) : t[j] = s[j]
  BY <1>1, <1>2
<1>4. Earlier(s, i) = {j \in DOMAIN t : t[j] = s[i]}
  BY <1>3 DEF Earlier
<1>5. Rank(s, i) = Cardinality(Earlier(s, i))
  BY <1>2, <1>4 DEF Rank, CountOf
<1>6. \A j \in 1..(i - 1) : j \in 1..Len(s) /\ j # i
  BY <1>1
<1>7. Earlier(s, i) \subseteq Places(s, s[i]) /\ i \notin Earlier(s, i)
  BY <1>6 DEF Earlier, Places
<1>8. IsFiniteSet(Earlier(s, i))
  BY <1>7, PlacesFacts, FS_Subset
<1> QED BY <1>5, <1>7, <1>8, FS_CardinalityType

LEMMA RankIsLess ==
  ASSUME NEW X, NEW s \in Seq(X), NEW i \in 1..Len(s)
  PROVE  Rank(s, i) < CountOf(s, s[i])
<1>1. PICK E, P : E = Earlier(s, i) /\ P = Places(s, s[i])
  OBVIOUS
<1>2. IsFiniteSet(E) /\ E \subseteq P /\ i \notin E /\ Rank(s, i) = Cardinality(E) /\ Rank(s, i) \in Nat
  BY <1>1, EarlierFacts
<1>3. IsFiniteSet(P) /\ CountOf(s, s[i]) = Cardinality(P) /\ CountOf(s, s[i]) \in Nat
  BY <1>1, PlacesFacts
<1>4. i \in P
  BY <1>1 DEF Places
<1>5. E \cup {i} \in SUBSET P
  BY <1>2, <1>4
<1>6. Cardinality(E \cup {i}) = Cardinality(E) + 1
  BY <1>2, FS_AddElement
<1>7. Cardinality(E \cup {i}) <= Cardinality(P)
  BY <1>3, <1>5, FS_Subset
<1>8. Rank(s, i) + 1 <= CountOf(s, s[i])
  BY <1>2, <1>3, <1>6, <1>7
<1> QED BY <1>2, <1>3, <1>8

LEMMA RankGrows ==
  ASSUME NEW X, NEW s \in Seq(X), NEW i \in 1..Len(s), NEW j \in 1..Len(s), i < j, s[i] = s[j]
  PROVE  Rank(s, i) < Rank(s, j)
<1>1. PICK E, F : E = Earlier(s, i) /\ F = Earlier(s, j)
  OBVIOUS
<1>2. IsFiniteSet(E) /\ i \notin E /\ Rank(s, i) = Cardinality(E) /\ Rank(s, i) \in Nat
  BY <1>1, EarlierFacts
<1>3. IsFiniteSet(F) /\ Rank(s, j) = Cardinality(F) /\ Rank(s, j) \in Nat
  BY <1>1, EarlierFacts
<1>4. i \in 1..(j - 1) /\ \A k \in 1..(i - 1) : k \in 1..(j - 1)
  OBVIOUS
<1>5. E \cup {i} \in SUBSET F
  BY <1>1, <1>4 DEF Earlier
<1>6. Cardinality(E \cup {i}) = Cardinality(E) + 1
  BY <1>2, FS_AddElement
<1>7. Cardinality(E \cup {i}) <= Cardinality(F)
  BY <1>3, <1>5, FS_Subset
<1>8. Rank(s, i) + 1 <= Rank(s, j)
  BY <1>2, <1>3, <1>6, <1>7
<1> QED BY <1>2, <1>3, <1>8

LEMMA RankTells ==
  ASSUME NEW X, NEW s \in Seq(X), NEW i \in 1..Len(s), NEW j \in 1..Len(s), s[i] = s[j],
         Rank(s, i) = Rank(s, j)
  PROVE  i = j
<1>1. Rank(s, i) \in Nat /\ Rank(s, j) \in Nat
  BY EarlierFacts
<1>2. ~ (i < j)
  <2>1. SUFFICES ASSUME i < j PROVE FALSE
    OBVIOUS
  <2>2. Rank(s, i) < Rank(s, j)
    BY <2>1, RankGrows
  <2> QED BY <1>1, <2>2
<1>3. ~ (j < i)
  <2>1. SUFFICES ASSUME j < i PROVE FALSE
    OBVIOUS
  <2>2. Rank(s, j) < Rank(s, i)
    BY <2>1, RankGrows
  <2> QED BY <1>1, <2>2
<1> QED BY <1>2, <1>3

\* The occurrences of x have the ranks from 0 on.
LEMMA RankReaches ==
  ASSUME NEW X, NEW s \in Seq(X), NEW x, NEW n \in Nat, n < CountOf(s, x)
  PROVE  \E i \in 1..Len(s) : s[i] = x /\ Rank(s, i) = n
<1>1. PICK P : P = Places(s, x)
  OBVIOUS
<1>2. PICK c \in Nat : c = CountOf(s, x) /\ c = Cardinality(P)
  BY <1>1, PlacesFacts
<1>3. PICK R : R = 0..(c - 1)
  OBVIOUS
<1>4. IsFiniteSet(R) /\ Cardinality(R) = c
  BY <1>2, <1>3, IntervalSize
<1>5. PICK f : f = [i \in P |-> Rank(s, i)]
  OBVIOUS
<1>6. \A i \in P : i \in 1..Len(s) /\ s[i] = x
  BY <1>1 DEF Places
<1>7. ASSUME NEW i \in P PROVE f[i] \in R
  <2>1. Rank(s, i) \in Nat /\ Rank(s, i) < c
    BY <1>2, <1>6, EarlierFacts, RankIsLess
  <2> QED BY <1>2, <1>3, <1>5, <2>1
<1>8. f \in [P -> R]
  BY <1>5, <1>7
<1>9. IsInjective(f)
  <2>1. ASSUME NEW i \in P, NEW j \in P, f[i] = f[j] PROVE i = j
    <3>1. Rank(s, i) = Rank(s, j)
      BY <1>5, <2>1
    <3> QED BY <1>6, <3>1, RankTells
  <2> QED BY <1>8, <2>1 DEF IsInjective
<1>10. f \in Injection(P, R)
  BY <1>8, <1>9 DEF Injection
<1>11. f \in Surjection(P, R)
  BY <1>2, <1>4, <1>10, FS_Injection
<1>12. n \in R
  BY <1>2, <1>3
<1>13. PICK i \in P : f[i] = n
  BY <1>11, <1>12 DEF Surjection
<1> QED BY <1>5, <1>6, <1>13

\* Two sequences with as many of each element are equally long.
LEMMA NoLonger ==
  ASSUME NEW X, NEW s \in Seq(X), NEW t \in Seq(X), \A x \in X : CountOf(s, x) <= CountOf(t, x)
  PROVE  Len(s) <= Len(t)
<1>1. Len(s) \in Nat /\ Len(t) \in Nat
  OBVIOUS
<1>2. ASSUME NEW i \in 1..Len(s)
      PROVE  \E j \in 1..Len(t) : t[j] = s[i] /\ Rank(t, j) = Rank(s, i)
  <2>1. s[i] \in X
    OBVIOUS
  <2>2. Rank(s, i) \in Nat /\ Rank(s, i) < CountOf(s, s[i])
    BY EarlierFacts, RankIsLess
  <2>3. CountOf(s, s[i]) \in Nat /\ CountOf(t, s[i]) \in Nat
    BY PlacesFacts
  <2>4. Rank(s, i) < CountOf(t, s[i])
    BY <2>1, <2>2, <2>3
  <2> QED BY <2>2, <2>4, RankReaches
<1>3. PICK f : f = [i \in 1..Len(s) |->
                      CHOOSE j \in 1..Len(t) : t[j] = s[i] /\ Rank(t, j) = Rank(s, i)]
  OBVIOUS
<1>4. \A i \in 1..Len(s) : f[i] \in 1..Len(t) /\ t[f[i]] = s[i] /\ Rank(t, f[i]) = Rank(s, i)
  BY <1>2, <1>3
<1>5. f \in [1..Len(s) -> 1..Len(t)]
  BY <1>3, <1>4
<1>6. IsInjective(f)
  <2>1. ASSUME NEW i \in 1..Len(s), NEW j \in 1..Len(s), f[i] = f[j] PROVE i = j
    <3>1. s[i] = s[j] /\ Rank(s, i) = Rank(s, j)
      BY <1>4, <2>1
    <3> QED BY <3>1, RankTells
  <2> QED BY <1>5, <2>1 DEF IsInjective
<1>7. f \in Injection(1..Len(s), 1..Len(t))
  BY <1>5, <1>6 DEF Injection
<1>8. IsFiniteSet(1..Len(s)) /\ Cardinality(1..Len(s)) = Len(s)
  BY <1>1, IntervalSize
<1>9. IsFiniteSet(1..Len(t)) /\ Cardinality(1..Len(t)) = Len(t)
  BY <1>1, IntervalSize
<1>10. Cardinality(1..Len(s)) <= Cardinality(1..Len(t))
  BY <1>7, <1>9, FS_Injection
<1> QED BY <1>8, <1>9, <1>10

-----------------------------------------------------------------------------

\* What is kept keeps its count and its ranks.
LEMMA CountKept ==
  ASSUME NEW X, NEW s \in Seq(X), NEW S, NEW r \in Seq(X), NEW f, Embeds(s, S, Len(s), r, f),
         NEW x \in S
  PROVE  CountOf(r, x) = CountOf(s, x)
<1>1. PICK P, Q : P = Places(r, x) /\ Q = Places(s, x)
  OBVIOUS
<1>2. /\ f \in [1..Len(r) -> 1..Len(s)]
      /\ \A i \in 1..Len(r) : s[f[i]] = r[i]
      /\ \A i, j \in 1..Len(r) : i < j => f[i] < f[j]
      /\ \A k \in 1..Len(s) : s[k] \in S <=> \E i \in 1..Len(r) : f[i] = k
  BY DEF Embeds
<1>3. \A i \in P : i \in 1..Len(r) /\ r[i] = x
  BY <1>1 DEF Places
<1>4. \A i \in P : f[i] \in Q
  BY <1>1, <1>2, <1>3 DEF Places
<1>5. \A i, j \in 1..Len(r) : f[i] = f[j] => i = j
  <2>1. ASSUME NEW i \in 1..Len(r), NEW j \in 1..Len(r), f[i] = f[j] PROVE i = j
    <3>1. ~ (i < j) /\ ~ (j < i)
      BY <1>2, <2>1
    <3> QED BY <3>1
  <2> QED BY <2>1
<1>6. \A k \in Q : \E i \in P : f[i] = k
  BY <1>1, <1>2 DEF Places
<1>7. IsFiniteSet(P) /\ CountOf(r, x) = Cardinality(P) /\ CountOf(s, x) = Cardinality(Q)
  BY <1>1, PlacesFacts
<1>8. Cardinality(Q) = Cardinality(P)
  <2>1. \A i, j \in P : f[i] = f[j] => i = j
    BY <1>3, <1>5
  <2> QED BY <1>4, <1>6, <1>7, <2>1, SameSize
<1> QED BY <1>7, <1>8

LEMMA RankKept ==
  ASSUME NEW X, NEW s \in Seq(X), NEW S, NEW r \in Seq(X), NEW f, Embeds(s, S, Len(s), r, f),
         NEW i \in 1..Len(r)
  PROVE  Rank(r, i) = Rank(s, f[i])
<1>1. PICK k \in 1..Len(s) : k = f[i]
  BY DEF Embeds
<1>2. /\ f \in [1..Len(r) -> 1..Len(s)]
      /\ \A j \in 1..Len(r) : s[f[j]] = r[j]
      /\ \A j, l \in 1..Len(r) : j < l => f[j] < f[l]
      /\ \A l \in 1..Len(s) : s[l] \in S <=> \E j \in 1..Len(r) : f[j] = l
  BY DEF Embeds
<1>3. PICK E, F : E = Earlier(r, i) /\ F = Earlier(s, k)
  OBVIOUS
<1>4. (\A j \in 1..(i - 1) : j \in 1..Len(r) /\ j < i) /\ (\A j \in 1..Len(r) : j < i => j \in 1..(i - 1))
  OBVIOUS
<1>5. (\A l \in 1..(k - 1) : l \in 1..Len(s) /\ l < k) /\ (\A l \in 1..Len(s) : l < k => l \in 1..(k - 1))
  OBVIOUS
<1>6. \A j, l \in 1..Len(r) : f[j] = f[l] => j = l
  <2>1. ASSUME NEW j \in 1..Len(r), NEW l \in 1..Len(r), f[j] = f[l] PROVE j = l
    <3>1. ~ (j < l) /\ ~ (l < j)
      BY <1>2, <2>1
    <3> QED BY <3>1
  <2> QED BY <2>1
<1>7. \A j \in E : j \in 1..Len(r) /\ j < i /\ r[j] = r[i]
  BY <1>3, <1>4 DEF Earlier
<1>8. ASSUME NEW j \in E PROVE f[j] \in F
  <2>1. f[j] \in 1..Len(s) /\ f[j] < k
    BY <1>1, <1>2, <1>7
  <2>2. s[f[j]] = s[k]
    BY <1>1, <1>2, <1>7
  <2> QED BY <1>3, <1>5, <2>1, <2>2 DEF Earlier
<1>9. ASSUME NEW l \in F PROVE \E j \in E : f[j] = l
  <2>1. l \in 1..Len(s) /\ l < k /\ s[l] = s[k]
    BY <1>3, <1>5 DEF Earlier
  <2>2. s[k] \in S
    BY <1>1, <1>2
  <2>3. PICK j \in 1..Len(r) : f[j] = l
    BY <1>2, <2>1, <2>2
  <2>4. r[j] = r[i]
    BY <1>1, <1>2, <2>1, <2>3
  <2>5. j < i
    <3>1. SUFFICES ASSUME ~ (j < i) PROVE FALSE
      OBVIOUS
    <3>2. j = i \/ i < j
      BY <3>1
    <3>3. k <= l
      BY <1>1, <1>2, <2>3, <3>2
    <3> QED BY <2>1, <3>3
  <2> QED BY <1>3, <1>4, <2>3, <2>4, <2>5 DEF Earlier
<1>10. IsFiniteSet(E) /\ Rank(r, i) = Cardinality(E) /\ Rank(s, k) = Cardinality(F)
  BY <1>3, EarlierFacts
<1>11. Cardinality(F) = Cardinality(E)
  <2>1. \A j, l \in E : f[j] = f[l] => j = l
    BY <1>6, <1>7
  <2> QED BY <1>8, <1>9, <1>10, <2>1, SameSize
<1> QED BY <1>1, <1>10, <1>11

\* The place where an element is kept is the number of those kept before it.
LEMMA LenBefore ==
  ASSUME NEW X, NEW s \in Seq(X), NEW S, NEW r \in Seq(X), NEW f, Embeds(s, S, Len(s), r, f),
         NEW i \in 1..Len(r)
  PROVE  Len(Only(SubSeq(s, 1, f[i] - 1), S)) = i - 1
<1>1. PICK k \in 1..Len(s) : k = f[i]
  BY DEF Embeds
<1>2. /\ f \in [1..Len(r) -> 1..Len(s)]
      /\ \A j \in 1..Len(r) : s[f[j]] = r[j]
      /\ \A j, l \in 1..Len(r) : j < l => f[j] < f[l]
      /\ \A l \in 1..Len(s) : s[l] \in S <=> \E j \in 1..Len(r) : f[j] = l
  BY DEF Embeds
<1>3. PICK t \in Seq(X) : t = SubSeq(s, 1, k - 1)
  <2>1. SubSeq(s, 1, k - 1) \in Seq(X)
    OBVIOUS
  <2> QED BY <2>1
<1>4. Len(t) = k - 1 /\ \A l \in 1..(k - 1) : t[l] = s[l]
  BY <1>3
<1>5. PICK u, g : u = Only(t, S) /\ u \in Seq(X) /\ Embeds(t, S, Len(t), u, g)
  BY OnlyEmbeds
<1>6. PICK n \in Nat : n = Len(u)
  BY <1>5
<1>7. /\ g \in [1..n -> 1..(k - 1)]
      /\ \A j, l \in 1..n : j < l => g[j] < g[l]
      /\ \A l \in 1..(k - 1) : t[l] \in S <=> \E j \in 1..n : g[j] = l
  BY <1>4, <1>5, <1>6 DEF Embeds
<1>8. PICK B : B = {l \in 1..(k - 1) : s[l] \in S}
  OBVIOUS
<1>9. Cardinality(B) = n
  <2>1. \A j \in 1..n : g[j] \in B
    BY <1>4, <1>7, <1>8
  <2>2. ASSUME NEW j \in 1..n, NEW l \in 1..n, g[j] = g[l] PROVE j = l
    <3>1. ~ (j < l) /\ ~ (l < j)
      BY <1>7, <2>2
    <3> QED BY <3>1
  <2>3. \A l \in B : \E j \in 1..n : g[j] = l
    BY <1>4, <1>7, <1>8
  <2>4. IsFiniteSet(1..n) /\ Cardinality(1..n) = n
    BY IntervalSize
  <2>5. \A j, l \in 1..n : g[j] = g[l] => j = l
    BY <2>2
  <2>6. Cardinality(B) = Cardinality(1..n)
    BY <2>1, <2>3, <2>4, <2>5, SameSize, Zenon
  <2> QED BY <2>4, <2>6
<1>10. Cardinality(B) = i - 1
  <2>1. (\A j \in 1..(i - 1) : j \in 1..Len(r) /\ j < i) /\ (\A j \in 1..Len(r) : j < i => j \in 1..(i - 1))
    OBVIOUS
  <2>2. \A j \in 1..(i - 1) : f[j] \in B
    <3>1. SUFFICES ASSUME NEW j \in 1..(i - 1) PROVE f[j] \in B
      OBVIOUS
    <3>2. f[j] \in 1..Len(s) /\ f[j] < k /\ s[f[j]] \in S
      BY <1>1, <1>2, <2>1
    <3>3. f[j] \in 1..(k - 1)
      BY <3>2
    <3> QED BY <1>8, <3>2, <3>3
  <2>3. ASSUME NEW j \in 1..(i - 1), NEW l \in 1..(i - 1), f[j] = f[l] PROVE j = l
    <3>1. j \in 1..Len(r) /\ l \in 1..Len(r)
      BY <2>1
    <3>2. (j < l => f[j] < f[l]) /\ (l < j => f[l] < f[j])
      BY <1>2, <3>1
    <3>3. f[j] \in 1..Len(s)
      BY <1>2, <3>1
    <3>4. ~ (j < l) /\ ~ (l < j)
      BY <2>3, <3>2, <3>3
    <3> QED BY <3>1, <3>4
  <2>4. ASSUME NEW l \in B PROVE \E j \in 1..(i - 1) : f[j] = l
    <3>1. l \in 1..Len(s) /\ l < k /\ s[l] \in S
      BY <1>8
    <3>2. PICK j \in 1..Len(r) : f[j] = l
      BY <1>2, <3>1
    <3>3. j < i
      <4>1. SUFFICES ASSUME ~ (j < i) PROVE FALSE
        OBVIOUS
      <4>2. j = i \/ i < j
        BY <4>1
      <4>3. k <= l
        BY <1>1, <1>2, <3>2, <4>2
      <4> QED BY <3>1, <4>3
    <3> QED BY <2>1, <3>2, <3>3
  <2>5. i - 1 \in Nat
    OBVIOUS
  <2>6. IsFiniteSet(1..(i - 1)) /\ Cardinality(1..(i - 1)) = i - 1
    BY <2>5, IntervalSize
  <2>7. \A j, l \in 1..(i - 1) : f[j] = f[l] => j = l
    BY <2>3
  <2>8. \A l \in B : \E j \in 1..(i - 1) : f[j] = l
    BY <2>4
  <2>9. PICK J : J = 1..(i - 1)
    OBVIOUS
  <2>10. /\ IsFiniteSet(J) /\ (\A j \in J : f[j] \in B)
         /\ (\A j, l \in J : f[j] = f[l] => j = l) /\ \A l \in B : \E j \in J : f[j] = l
    BY <2>2, <2>6, <2>7, <2>8, <2>9
  <2>11. Cardinality(B) = Cardinality(J)
    BY <2>10, SameSize
  <2> QED BY <2>6, <2>9, <2>11
<1> QED BY <1>1, <1>3, <1>5, <1>6, <1>9, <1>10

-----------------------------------------------------------------------------

\* The n-th occurrence is found where there is one.
LEMMA NthFound ==
  ASSUME NEW X, NEW s \in Seq(X), NEW x, NEW n \in Nat, n < CountOf(s, x)
  PROVE  /\ NthPosition(s, x, n) \in 1..Len(s)
         /\ s[NthPosition(s, x, n)] = x /\ Rank(s, NthPosition(s, x, n)) = n
<1>1. DOMAIN s = 1..Len(s)
  OBVIOUS
<1>2. PICK nth : nth = {i \in {j \in DOMAIN s : s[j] = x} : Rank(s, i) = n}
  OBVIOUS
<1>3. nth # {}
  BY <1>1, <1>2, RankReaches
<1>4. NthPosition(s, x, n) \in nth
  <2>1. NthPosition(s, x, n) = CHOOSE i \in nth : TRUE
    BY <1>2, <1>3 DEF NthPosition
  <2> QED BY <1>3, <2>1
<1> QED BY <1>1, <1>2, <1>4

\* Where a kept element is found again.
LEMMA FoundKept ==
  ASSUME NEW X, NEW s \in Seq(X), NEW S, NEW r \in Seq(X), NEW f, Embeds(s, S, Len(s), r, f),
         NEW c \in 1..Len(s), s[c] \in S
  PROVE  /\ FoundAt(r, s[c], Rank(s, c)) \in 1..Len(r)
         /\ FoundAt(r, s[c], Rank(s, c)) = Len(Only(SubSeq(s, 1, c - 1), S)) + 1
<1>1. PICK i \in 1..Len(r) : f[i] = c
  BY DEF Embeds
<1>2. r[i] = s[c] /\ Rank(r, i) = Rank(s, c)
  <2>1. s[f[i]] = r[i]
    BY DEF Embeds
  <2>2. Rank(r, i) = Rank(s, f[i])
    BY RankKept
  <2> QED BY <1>1, <2>1, <2>2
<1>3. DOMAIN r = 1..Len(r) /\ Len(r) \in Nat
  OBVIOUS
<1>4. PICK P : P = {j \in 1..Len(r) : r[j] = s[c] /\ Rank(r, j) <= Rank(s, c)}
  OBVIOUS
<1>5. Rank(r, i) \in Nat
  BY EarlierFacts
<1>6. i \in P
  BY <1>2, <1>4, <1>5
<1>7. \A j \in P : j <= i
  <2>1. SUFFICES ASSUME NEW j \in P, i < j PROVE FALSE
    BY <1>4
  <2>2. j \in 1..Len(r) /\ r[i] = r[j] /\ Rank(r, j) <= Rank(r, i)
    BY <1>2, <1>4
  <2>3. Rank(r, i) < Rank(r, j) /\ Rank(r, j) \in Nat
    BY <2>1, <2>2, RankGrows, EarlierFacts
  <2> QED BY <1>5, <2>2, <2>3
<1>8. IsFiniteSet(P) /\ P \subseteq Nat
  <2>1. IsFiniteSet(1..Len(r))
    BY <1>3, IntervalSize
  <2> QED BY <1>4, <2>1, FS_Subset
<1>9. Max(P) \in P /\ i <= Max(P)
  BY <1>6, <1>8, Greatest
<1>10. Max(P) = i
  <2>1. Max(P) \in Nat /\ Max(P) <= i
    BY <1>7, <1>8, <1>9
  <2> QED BY <1>9, <2>1
<1>11. FoundAt(r, s[c], Rank(s, c)) = i
  <2>1. P = {j \in DOMAIN r : r[j] = s[c] /\ Rank(r, j) <= Rank(s, c)}
    BY <1>3, <1>4
  <2> QED BY <1>6, <1>10, <2>1 DEF FoundAt
<1>12. Len(Only(SubSeq(s, 1, c - 1), S)) = i - 1
  <2>1. Len(Only(SubSeq(s, 1, f[i] - 1), S)) = i - 1
    BY LenBefore
  <2> QED BY <1>1, <2>1
<1> QED BY <1>11, <1>12

LEMMA FoundAnywhere ==
  ASSUME NEW X, NEW r \in Seq(X), NEW x, NEW n
  PROVE  FoundAt(r, x, n) \in 0..Len(r)
<1>1. DOMAIN r = 1..Len(r) /\ Len(r) \in Nat
  OBVIOUS
<1>2. PICK P : P = {j \in 1..Len(r) : r[j] = x /\ Rank(r, j) <= n}
  OBVIOUS
<1>3. IsFiniteSet(P) /\ P \subseteq Nat
  <2>1. IsFiniteSet(1..Len(r))
    BY <1>1, IntervalSize
  <2> QED BY <1>2, <2>1, FS_Subset
<1>4. FoundAt(r, x, n) = IF P = {} THEN 0 ELSE Max(P)
  BY <1>1, <1>2 DEF FoundAt
<1>5. P # {} => Max(P) \in 1..Len(r)
  BY <1>2, <1>3, Greatest
<1> QED BY <1>1, <1>4, <1>5

\* What is saved of a natural order: as many of each track as the window has.
LEMMA NaturalCounts ==
  ASSUME NEW X, NEW s \in Seq(X), NEW w \in Seq(X), \A x \in X : CountOf(w, x) <= CountOf(s, x)
  PROVE  NaturalWithin(s, w) \in Seq(X) /\ \A x \in X : CountOf(NaturalWithin(s, w), x) = CountOf(w, x)
<1>1. PICK n \in Nat : n = Len(s)
  OBVIOUS
<1>2. s \in [1..n -> X] /\ DOMAIN s = 1..n
  BY <1>1
<1>3. PICK kept : kept = {i \in 1..n : Rank(s, i) < CountOf(w, s[i])}
  OBVIOUS
<1>4. PICK d : d = Identity(n)
  OBVIOUS
<1>5. d \in Seq(1..n) /\ Len(d) = n /\ \A i \in 1..n : d[i] = i
  <2>1. d = [i \in 1..n |-> i]
    BY <1>4 DEF Identity
  <2>2. d \in [1..n -> 1..n]
    BY <2>1
  <2> QED BY <2>1, <2>2
<1>6. PICK at, f : at = Only(d, kept) /\ at \in Seq(1..n) /\ Embeds(d, kept, n, at, f)
  BY <1>5, OnlyEmbeds
<1>7. PICK m \in Nat : m = Len(at)
  BY <1>6
<1>8. at \in [1..m -> 1..n] /\ DOMAIN at = 1..m
  BY <1>6, <1>7
<1>9. /\ \A i, j \in 1..m : i < j => at[i] < at[j]
      /\ \A k \in 1..n : k \in kept <=> \E i \in 1..m : at[i] = k
  <2>1. /\ f \in [1..m -> 1..n]
        /\ \A i \in 1..m : d[f[i]] = at[i]
        /\ \A i, j \in 1..m : i < j => f[i] < f[j]
        /\ \A k \in 1..n : d[k] \in kept <=> \E i \in 1..m : f[i] = k
    BY <1>6, <1>7 DEF Embeds
  <2>2. \A i \in 1..m : at[i] = f[i]
    BY <1>5, <2>1
  <2>3. ASSUME NEW k \in 1..n PROVE k \in kept <=> \E i \in 1..m : at[i] = k
    <3>1. d[k] = k /\ (d[k] \in kept <=> \E i \in 1..m : f[i] = k)
      BY <1>5, <2>1
    <3>2. (\E i \in 1..m : f[i] = k) <=> \E i \in 1..m : at[i] = k
      BY <2>2
    <3> QED BY <3>1, <3>2
  <2> QED BY <2>1, <2>2, <2>3
<1>10. PICK t : t = [i \in 1..m |-> s[at[i]]]
  OBVIOUS
<1>11. NaturalWithin(s, w) = t
  BY <1>1, <1>2, <1>3, <1>4, <1>6, <1>8, <1>10 DEF NaturalWithin
<1>12. t \in Seq(X) /\ Len(t) = m /\ \A i \in 1..m : t[i] = s[at[i]]
  <2>1. t \in [1..m -> X]
    BY <1>2, <1>8, <1>10
  <2> QED BY <1>10, <2>1
<1>13. ASSUME NEW x \in X PROVE CountOf(t, x) = CountOf(w, x)
  <2>1. PICK P, Q : P = Places(t, x) /\ Q = {k \in kept : s[k] = x}
    OBVIOUS
  <2>2. IsFiniteSet(P) /\ CountOf(t, x) = Cardinality(P)
    BY <1>12, <2>1, PlacesFacts
  <2>3. \A i \in P : i \in 1..m /\ s[at[i]] = x
    BY <1>12, <2>1 DEF Places
  <2>4. \A i \in P : at[i] \in Q
    BY <1>8, <1>9, <2>1, <2>3
  <2>5. ASSUME NEW i \in P, NEW j \in P, at[i] = at[j] PROVE i = j
    <3>1. ~ (i < j) /\ ~ (j < i)
      BY <1>8, <1>9, <2>3, <2>5
    <3> QED BY <2>3, <3>1
  <2>6. ASSUME NEW k \in Q PROVE \E i \in P : at[i] = k
    <3>1. k \in 1..n /\ k \in kept /\ s[k] = x
      BY <1>3, <2>1
    <3>2. PICK i \in 1..m : at[i] = k
      BY <1>9, <3>1
    <3> QED BY <1>12, <2>1, <3>1, <3>2 DEF Places
  <2>7. IsFiniteSet(Q) /\ Cardinality(Q) = Cardinality(P)
    BY <2>2, <2>4, <2>5, <2>6, SameSize
  <2>8. PICK c \in Nat : c = CountOf(w, x) /\ c <= CountOf(s, x)
    BY PlacesFacts
  <2>9. CountOf(s, x) \in Nat
    BY PlacesFacts
  <2>10. PICK g : g = [k \in Q |-> Rank(s, k)]
    OBVIOUS
  <2>11. \A k \in Q : k \in 1..Len(s) /\ s[k] = x /\ Rank(s, k) < c
    BY <1>1, <1>3, <2>1, <2>8
  <2>12. \A k \in Q : g[k] \in 0..(c - 1)
    <3>1. SUFFICES ASSUME NEW k \in Q PROVE g[k] \in 0..(c - 1)
      OBVIOUS
    <3>2. Rank(s, k) \in Nat /\ Rank(s, k) < c
      BY <2>11, EarlierFacts
    <3> QED BY <2>8, <2>10, <3>2
  <2>13. ASSUME NEW k \in Q, NEW l \in Q, g[k] = g[l] PROVE k = l
    <3>1. Rank(s, k) = Rank(s, l)
      BY <2>10, <2>13
    <3> QED BY <2>11, <3>1, RankTells
  <2>14. ASSUME NEW z \in 0..(c - 1) PROVE \E k \in Q : g[k] = z
    <3>1. z \in Nat /\ z < c /\ z < CountOf(s, x)
      BY <2>8, <2>9
    <3>2. PICK k \in 1..Len(s) : s[k] = x /\ Rank(s, k) = z
      BY <3>1, RankReaches
    <3>3. k \in Q
      BY <1>1, <1>3, <2>1, <2>8, <3>1, <3>2
    <3> QED BY <2>10, <3>2, <3>3
  <2>15. Cardinality(0..(c - 1)) = Cardinality(Q)
    BY <2>7, <2>12, <2>13, <2>14, SameSize
  <2>16. Cardinality(0..(c - 1)) = c
    BY IntervalSize
  <2> QED BY <2>2, <2>7, <2>8, <2>15, <2>16
<1> QED BY <1>11, <1>12, <1>13

-----------------------------------------------------------------------------
(* The saved queue: the play order of a well-formed queue                  *)

\* The play order of a queue holds every track as often as the queue.
LEMMA OrderedCounts ==
  ASSUME NEW q, Well(q)
  PROVE  /\ Ordered(q) \in Seq(Tracks) /\ Len(Ordered(q)) = Len(q.tracks)
         /\ \A i \in 1..Len(q.tracks) : Ordered(q)[i] = q.tracks[q.order[i]]
         /\ \A x : CountOf(Ordered(q), x) = CountOf(q.tracks, x)
<1>1. PICK n \in Nat : n = Len(q.tracks)
  BY WellFacts
<1>2. PICK o, t, u : o = q.order /\ t = q.tracks /\ u = Ordered(q)
  OBVIOUS
<1>3. t \in [1..n -> Tracks] /\ t \in Seq(Tracks) /\ Len(t) = n
  BY <1>1, <1>2, WellFacts
<1>4. o \in [1..n -> 1..n] /\ DOMAIN o = 1..n
  <2>1. o \in Seq(1..n) /\ Len(o) = n
    BY <1>1, <1>2, WellFacts DEF Entries
  <2> QED BY <2>1
<1>5. /\ \A i, j \in 1..n : o[i] = o[j] => i = j
      /\ \A k \in 1..n : \E i \in 1..n : o[i] = k
  <2>1. Lists(o, 1..n) /\ Len(o) = n
    BY <1>1, <1>2, WellFacts DEF Well, Entries
  <2> QED BY <2>1 DEF Lists
<1>6. u = [i \in 1..n |-> t[o[i]]]
  BY <1>2, <1>4 DEF Ordered
<1>7. u \in Seq(Tracks) /\ Len(u) = n /\ \A i \in 1..n : u[i] = t[o[i]]
  <2>1. u \in [1..n -> Tracks]
    BY <1>3, <1>4, <1>6
  <2> QED BY <1>6, <2>1
<1>8. ASSUME NEW x PROVE CountOf(u, x) = CountOf(t, x)
  <2>1. PICK P, Q : P = Places(u, x) /\ Q = Places(t, x)
    OBVIOUS
  <2>2. \A i : i \in P <=> i \in 1..n /\ u[i] = x
    BY <1>7, <2>1 DEF Places
  <2>3. \A i : i \in Q <=> i \in 1..n /\ t[i] = x
    BY <1>3, <2>1 DEF Places
  <2>4. \A i \in P : o[i] \in Q
    BY <1>4, <1>7, <2>2, <2>3
  <2>5. \A i, j \in P : o[i] = o[j] => i = j
    BY <1>5, <2>2
  <2>6. \A k \in Q : \E i \in P : o[i] = k
    <3>1. SUFFICES ASSUME NEW k \in Q PROVE \E i \in P : o[i] = k
      OBVIOUS
    <3>2. k \in 1..n /\ t[k] = x
      BY <2>3
    <3>3. PICK i \in 1..n : o[i] = k
      BY <1>5, <3>2
    <3>4. u[i] = x
      BY <1>7, <3>2, <3>3
    <3> QED BY <2>2, <3>3, <3>4
  <2>7. IsFiniteSet(P) /\ CountOf(u, x) = Cardinality(P) /\ CountOf(t, x) = Cardinality(Q)
    BY <1>3, <1>7, <2>1, PlacesFacts
  <2>8. Cardinality(Q) = Cardinality(P)
    BY <2>4, <2>5, <2>6, <2>7, SameSize
  <2> QED BY <2>7, <2>8
<1> QED BY <1>1, <1>2, <1>7, <1>8

LEMMA OrderedUpto ==
  ASSUME NEW q, Well(q), NEW c \in 0..Len(q.tracks)
  PROVE  Ordered(Upto(q, c)) = SubSeq(Ordered(q), 1, c)
<1>1. PICK n \in Nat : n = Len(q.tracks)
  BY WellFacts
<1>2. q \in QueueRecords /\ q.order \in Seq(Nat) /\ Len(q.order) = n
  BY <1>1, WellFacts DEF Well
<1>3. PICK u : u = Ordered(q)
  OBVIOUS
<1>4. u \in Seq(Tracks) /\ Len(u) = n /\ \A i \in 1..n : u[i] = q.tracks[q.order[i]]
  BY <1>1, <1>3, OrderedCounts
<1>5. PICK o : o = SubSeq(q.order, 1, c)
  OBVIOUS
<1>6. Upto(q, c).order = o /\ Upto(q, c).tracks = q.tracks
  BY <1>2, <1>5 DEF QueueRecords, Upto
<1>7. c \in Nat /\ c <= n /\ \A i \in 1..c : i \in 1..n
  BY <1>1
<1>8. DOMAIN o = 1..c /\ \A i \in 1..c : o[i] = q.order[i]
  BY <1>2, <1>5, <1>7
<1>9. Ordered(Upto(q, c)) = [i \in 1..c |-> q.tracks[o[i]]]
  BY <1>6, <1>8 DEF Ordered
<1>10. SubSeq(u, 1, c) = [i \in 1..c |-> u[i]]
  BY <1>4, <1>7
<1>11. \A i \in 1..c : q.tracks[o[i]] = u[i]
  BY <1>4, <1>7, <1>8
<1> QED BY <1>3, <1>9, <1>10, <1>11

\* The saved index is that of the current track.
LEMMA CurrentIsSaved ==
  ASSUME NEW q, Well(q), q.current # 0, CurrentTrack(q) \in Library
  PROVE  /\ SavedCurrentIndex(q) \in 0..(Len(LibraryIds(Ordered(q))) - 1)
         /\ LibraryIds(Ordered(q))[SavedCurrentIndex(q) + 1] = CurrentTrack(q)
<1>1. PICK s, c : s = Ordered(q) /\ c = q.current
  OBVIOUS
<1>2. s \in Seq(Tracks) /\ c \in 1..Len(s) /\ c - 1 \in 0..Len(q.tracks)
  <2>1. c \in 0..Len(q.tracks) /\ c # 0 /\ Len(s) = Len(q.tracks) /\ Len(q.tracks) \in Nat
    BY <1>1, WellFacts, OrderedCounts
  <2>2. s \in Seq(Tracks)
    BY <1>1, OrderedCounts
  <2> QED BY <2>1, <2>2
<1>3. s[c] = CurrentTrack(q)
  <2>1. c \in 1..Len(q.tracks)
    BY <1>1, <1>2, OrderedCounts
  <2>2. s[c] = q.tracks[q.order[c]]
    BY <1>1, <2>1, OrderedCounts
  <2> QED BY <1>1, <2>2, WellFacts
<1>4. PICK r, f : r = Only(s, Library) /\ r \in Seq(Tracks) /\ Embeds(s, Library, Len(s), r, f)
  BY <1>2, OnlyEmbeds
<1>5. s[c] \in Library
  BY <1>3
<1>6. PICK i \in 1..Len(r) : f[i] = c
  BY <1>2, <1>4, <1>5 DEF Embeds
<1>7. r[i] = s[c]
  BY <1>4, <1>6 DEF Embeds
<1>8. Len(Only(SubSeq(s, 1, c - 1), Library)) = i - 1
  <2>1. Len(Only(SubSeq(s, 1, f[i] - 1), Library)) = i - 1
    BY <1>2, <1>4, LenBefore
  <2> QED BY <1>6, <2>1
<1>9. SavedCurrentIndex(q) = i - 1
  <2>1. Ordered(Upto(q, c - 1)) = SubSeq(s, 1, c - 1)
    BY <1>1, <1>2, OrderedUpto
  <2>2. SavedCurrentIndex(q) = Len(LibraryIds(Ordered(Upto(q, c - 1))))
    BY <1>1 DEF SavedCurrentIndex
  <2> QED BY <1>8, <2>1, <2>2 DEF LibraryIds
<1>10. LibraryIds(Ordered(q)) = r
  BY <1>1, <1>4 DEF LibraryIds
<1>11. Len(r) \in Nat /\ i - 1 \in 0..(Len(r) - 1) /\ (i - 1) + 1 = i
  BY <1>4
<1> QED BY <1>3, <1>7, <1>9, <1>10, <1>11

-----------------------------------------------------------------------------
(* The saved queue: the window around the current entry                    *)

LEMMA LeastOfTwo ==
  ASSUME NEW a \in Int, NEW b \in Int
  PROVE  /\ Min({a, b}) = IF a <= b THEN a ELSE b
         /\ Max({a, b}) = IF a <= b THEN b ELSE a
<1>1. PICK m : m = IF a <= b THEN a ELSE b
  OBVIOUS
<1>2. PICK n : n = IF a <= b THEN b ELSE a
  OBVIOUS
<1>3. m \in {a, b} /\ m \in Int /\ m <= a /\ m <= b
  BY <1>1
<1>4. n \in {a, b} /\ n \in Int /\ a <= n /\ b <= n
  BY <1>2
<1>5. \A x \in {a, b} : (\A y \in {a, b} : x <= y) => x = m
  BY <1>3
<1>6. \A x \in {a, b} : (\A y \in {a, b} : x >= y) => x = n
  BY <1>4
<1>7. \A y \in {a, b} : m <= y /\ n >= y
  BY <1>3, <1>4
<1>8. Min({a, b}) = m
  BY <1>3, <1>5, <1>7 DEF Min
<1>9. Max({a, b}) = n
  BY <1>4, <1>6, <1>7 DEF Max
<1> QED BY <1>1, <1>2, <1>8, <1>9

\* A window around an index is within the sequence, as long as it may be, and
\* holds the index.
LEMMA WindowHolds ==
  ASSUME NEW n \in Nat, NEW index \in 0..(n - 1)
  PROVE  /\ WindowStart(index, n) \in Nat
         /\ Min({MaxSaved, n}) \in Nat
         /\ Min({WindowStart(index, n) + MaxSaved, n}) = WindowStart(index, n) + Min({MaxSaved, n})
         /\ WindowStart(index, n) + Min({MaxSaved, n}) <= n
         /\ index - WindowStart(index, n) \in 0..(Min({MaxSaved, n}) - 1)
<1>1. PICK M \in Nat : M = MaxSaved /\ M >= 1
  BY SavedAssumption DEF SavedAssumption
<1>2. PICK h \in Nat : h = M \div 2 /\ h < M
  <2>1. M \div 2 \in Nat /\ M \div 2 < M
    BY <1>1
  <2> QED BY <2>1
<1>3. PICK a \in Int, b \in Int : a = index - h /\ b = n - M
  <2>1. index - h \in Int /\ n - M \in Int
    BY <1>1, <1>2
  <2> QED BY <2>1
<1>4. PICK m \in Int : m = Min({a, b}) /\ m = IF a <= b THEN a ELSE b
  BY <1>3, LeastOfTwo
<1>5. PICK w \in Int : w = Max({m, 0}) /\ w = IF m <= 0 THEN 0 ELSE m
  <2>1. Max({m, 0}) = IF m <= 0 THEN 0 ELSE m
    BY <1>4, LeastOfTwo
  <2> QED BY <1>4, <2>1
<1>6. WindowStart(index, n) = w
  BY <1>1, <1>2, <1>3, <1>4, <1>5 DEF WindowStart
<1>7. PICK k \in Int : k = Min({M, n}) /\ k = IF M <= n THEN M ELSE n
  <2>1. Min({M, n}) = IF M <= n THEN M ELSE n
    BY <1>1, LeastOfTwo
  <2> QED BY <1>1, <2>1
<1>8. Min({w + M, n}) = IF w + M <= n THEN w + M ELSE n
  <2>1. w + M \in Int
    BY <1>1, <1>5
  <2> QED BY <2>1, LeastOfTwo
<1>9. /\ (a <= b => m = a) /\ (~ (a <= b) => m = b)
      /\ (m <= 0 => w = 0) /\ (~ (m <= 0) => w = m)
      /\ (M <= n => k = M) /\ (~ (M <= n) => k = n)
      /\ a = index - h /\ b = n - M /\ h < M /\ M >= 1
  BY <1>1, <1>2, <1>3, <1>4, <1>5, <1>7
<1>10. index \in Int /\ 0 <= index /\ index + 1 <= n
  OBVIOUS
<1>11. 0 <= w /\ w + k <= n /\ 0 <= k
  BY <1>9, <1>10
<1>12. w <= index /\ index + 1 <= w + k
  BY <1>9, <1>10
<1>13. w \in Nat /\ k \in Nat /\ index - w \in 0..(k - 1)
  BY <1>10, <1>11, <1>12
<1>14. (IF w + M <= n THEN w + M ELSE n) = w + k
  <2>1. (w + M <= n => w + M = w + k) /\ (~ (w + M <= n) => n = w + k)
    BY <1>9, <1>10
  <2> QED BY <2>1
<1> QED BY <1>1, <1>6, <1>7, <1>8, <1>11, <1>13, <1>14

\* A part holds an element no more often than the whole.
LEMMA PartCounts ==
  ASSUME NEW X, NEW s \in Seq(X), NEW a \in Nat, NEW k \in Nat, a + k <= Len(s), NEW x
  PROVE  /\ SubSeq(s, a + 1, a + k) \in Seq(X) /\ Len(SubSeq(s, a + 1, a + k)) = k
         /\ \A i \in 1..k : SubSeq(s, a + 1, a + k)[i] = s[a + i]
         /\ CountOf(SubSeq(s, a + 1, a + k), x) <= CountOf(s, x)
<1>1. PICK n \in Nat : n = Len(s)
  OBVIOUS
<1>2. PICK t : t = SubSeq(s, a + 1, a + k)
  OBVIOUS
<1>3. \A i \in 1..k : a + i \in 1..n
  BY <1>1
<1>4. t \in Seq(X) /\ Len(t) = k /\ \A i \in 1..k : t[i] = s[a + i]
  <2>1. t = [i \in 1..k |-> s[a + i]]
    BY <1>1, <1>2, <1>3
  <2>2. \A i \in 1..k : s[a + i] \in X
    BY <1>1, <1>3
  <2>3. t \in [1..k -> X]
    BY <2>1, <2>2
  <2> QED BY <2>1, <2>3
<1>5. PICK P, Q : P = Places(t, x) /\ Q = Places(s, x)
  OBVIOUS
<1>6. \A i : i \in P <=> i \in 1..k /\ t[i] = x
  BY <1>4, <1>5 DEF Places
<1>7. PICK R : R = {a + i : i \in P}
  OBVIOUS
<1>8. PICK f : f = [i \in P |-> a + i]
  OBVIOUS
<1>9. /\ IsFiniteSet(P) /\ CountOf(t, x) = Cardinality(P) /\ CountOf(t, x) \in Nat
      /\ IsFiniteSet(Q) /\ CountOf(s, x) = Cardinality(Q) /\ CountOf(s, x) \in Nat
  BY <1>4, <1>5, PlacesFacts
<1>10. \A i \in P : f[i] \in R
  BY <1>7, <1>8
<1>11. \A i, j \in P : f[i] = f[j] => i = j
  BY <1>6, <1>8
<1>12. \A z \in R : \E i \in P : f[i] = z
  BY <1>7, <1>8
<1>13. Cardinality(R) = Cardinality(P)
  <2>1. IsFiniteSet(P)
    BY <1>9
  <2> QED BY <2>1, <1>10, <1>11, <1>12, SameSize, Zenon
<1>14. R \in SUBSET Q
  <2>1. SUFFICES ASSUME NEW i \in P PROVE a + i \in Q
    BY <1>7
  <2>2. a + i \in 1..n /\ s[a + i] = x
    BY <1>3, <1>4, <1>6
  <2> QED BY <1>1, <1>5, <2>2 DEF Places
<1>15. Cardinality(R) <= Cardinality(Q)
  BY <1>9, <1>14, FS_Subset
<1> QED BY <1>2, <1>4, <1>9, <1>13, <1>15

\* Sequences that hold every element equally often.
LEMMA EquallyLong ==
  ASSUME NEW X, NEW s \in Seq(X), NEW t \in Seq(X), \A x \in X : CountOf(s, x) = CountOf(t, x)
  PROVE  SameTracks(s, t)
<1>1. Len(s) \in Nat /\ Len(t) \in Nat
  OBVIOUS
<1>2. \A x \in X : CountOf(s, x) <= CountOf(t, x) /\ CountOf(t, x) <= CountOf(s, x)
  BY PlacesFacts
<1>3. Len(s) <= Len(t) /\ Len(t) <= Len(s)
  BY <1>2, NoLonger
<1>4. ToSet(s) \cup ToSet(t) \subseteq X
  BY DEF ToSet
<1> QED BY <1>1, <1>3, <1>4 DEF SameTracks

-----------------------------------------------------------------------------
(* What is saved of a well-formed queue                                    *)

\* The window of n tracks that is saved of a queue, and where it plays.
IsWindow(q, w, c) ==
  /\ w \in Seq(Library) /\ c \in 0..(Len(w) - 1)
  /\ Len(w) = Min({MaxSaved, Len(LibraryIds(Ordered(q)))})
  /\ w[c + 1] = CurrentTrack(q)
  /\ \A x \in Library : CountOf(w, x) <= CountOf(LibraryIds(q.tracks), x)

LEMMA WindowFacts ==
  ASSUME NEW q, Well(q), q.current # 0, CurrentTrack(q) \in Library
  PROVE  \E w, c :
           /\ IsWindow(q, w, c)
           /\ SavedQueueLists(q) =
                [trackIds |-> w, naturalOrder |-> NaturalWithin(LibraryIds(q.tracks), w),
                 currentIndex |-> c, shuffled |-> q.shuffled]
<1>1. PICK s : s = Ordered(q) /\ s \in Seq(Tracks)
  BY OrderedCounts
<1>2. PICK ids : ids = LibraryIds(s) /\ ids \in Seq(Library)
  BY <1>1, OnlyMembers DEF LibraryIds
<1>3. PICK n \in Nat : n = Len(ids)
  BY <1>2
<1>4. PICK index \in 0..(n - 1) : index = SavedCurrentIndex(q) /\ ids[index + 1] = CurrentTrack(q)
  BY <1>1, <1>2, <1>3, CurrentIsSaved
<1>5. PICK st \in Nat, k \in Nat :
        /\ st = WindowStart(index, n) /\ k = Min({MaxSaved, n})
        /\ Min({st + MaxSaved, n}) = st + k /\ st + k <= n /\ index - st \in 0..(k - 1)
  BY WindowHolds
<1>6. PICK w : w = SubSeq(ids, st + 1, st + k)
  OBVIOUS
<1>7. w \in Seq(Library) /\ Len(w) = k /\ \A i \in 1..k : w[i] = ids[st + i]
  <2>1. st + k <= Len(ids)
    BY <1>3, <1>5
  <2>2. /\ SubSeq(ids, st + 1, st + k) \in Seq(Library) /\ Len(SubSeq(ids, st + 1, st + k)) = k
        /\ \A i \in 1..k : SubSeq(ids, st + 1, st + k)[i] = ids[st + i]
    BY <1>2, <2>1, PartCounts
  <2> QED BY <1>6, <2>2
<1>8. PICK c : c = index - st
  OBVIOUS
<1>9. w[c + 1] = CurrentTrack(q)
  <2>1. c + 1 \in 1..k /\ st + (c + 1) = index + 1
    BY <1>5, <1>8
  <2> QED BY <1>4, <1>7, <2>1
<1>10. ASSUME NEW x \in Library PROVE CountOf(w, x) <= CountOf(LibraryIds(q.tracks), x)
  <2>1. CountOf(w, x) <= CountOf(ids, x)
    BY <1>2, <1>3, <1>5, <1>6, PartCounts
  <2>2. CountOf(ids, x) = CountOf(s, x)
    BY <1>1, <1>2, OnlyEmbeds, CountKept DEF LibraryIds
  <2>3. CountOf(s, x) = CountOf(q.tracks, x)
    BY <1>1, OrderedCounts
  <2>4. q.tracks \in Seq(Tracks)
    BY WellFacts
  <2>5. CountOf(LibraryIds(q.tracks), x) = CountOf(q.tracks, x)
    BY <2>4, OnlyEmbeds, CountKept DEF LibraryIds
  <2> QED BY <2>1, <2>2, <2>3, <2>5
<1>11. IsWindow(q, w, c)
  BY <1>1, <1>2, <1>3, <1>5, <1>7, <1>8, <1>9, <1>10 DEF IsWindow
<1>12. SavedQueueLists(q) =
         [trackIds |-> w, naturalOrder |-> NaturalWithin(LibraryIds(q.tracks), w),
          currentIndex |-> c, shuffled |-> q.shuffled]
  BY <1>1, <1>2, <1>3, <1>4, <1>5, <1>6, <1>8 DEF SavedQueueLists
<1> QED BY <1>11, <1>12

\* The server accepts it.
LEMMA SavedIsAccepted ==
  ASSUME NEW q, Well(q), NEW w, NEW c, IsWindow(q, w, c), NEW nat,
         nat = NaturalWithin(LibraryIds(q.tracks), w), NEW saved,
         saved = [trackIds |-> w, naturalOrder |-> nat, currentIndex |-> c, shuffled |-> q.shuffled]
  PROVE  /\ nat \in Seq(Library) /\ \A x \in Library : CountOf(nat, x) = CountOf(w, x)
         /\ Accepted(saved)
<1>1. w \in Seq(Library) /\ c \in 0..(Len(w) - 1)
  BY DEF IsWindow
<1>2. PICK t : t = LibraryIds(q.tracks) /\ t \in Seq(Library)
  BY WellFacts, OnlyMembers DEF LibraryIds
<1>3. \A x \in Library : CountOf(w, x) <= CountOf(t, x)
  BY <1>2 DEF IsWindow
<1>4. nat \in Seq(Library) /\ \A x \in Library : CountOf(nat, x) = CountOf(w, x)
  BY <1>1, <1>2, <1>3, NaturalCounts
<1>5. SameTracks(w, nat)
  BY <1>1, <1>4, EquallyLong
<1> QED BY <1>1, <1>4, <1>5 DEF Accepted, IndexWithinQueue, NaturalOrderPermutes

-----------------------------------------------------------------------------
(* What is rebuilt                                                         *)

\* A queue that plays the tracks of play, from the place of the c-th track of w if
\* that is ready.
Plays(r, play, w, c, ready) ==
  /\ Ordered(r) = play
  /\ IsInjective(r.order) /\ r.current \in DOMAIN r.order
  /\ w[c] \in ready => r.current = Len(Only(SubSeq(w, 1, c - 1), ready)) + 1

\* tracks, in the order o and from cur on, is what is ready of w, the c-th first.
IsRebuilt(tracks, o, cur, play, w, c, ready) ==
  /\ play = Only(w, ready) /\ play # <<>>
  /\ o \in [1..Len(play) -> Nat] /\ \A i, j \in 1..Len(play) : o[i] = o[j] => i = j
  /\ \A i \in 1..Len(play) : tracks[o[i]] = play[i]
  /\ LET found == FoundAt(play, w[c], Rank(w, c)) IN
     (found # 0 => cur = found) /\ (found = 0 => cur \in 1..Len(play))

LEMMA RebuiltPlays ==
  ASSUME NEW X, NEW w \in Seq(X), NEW c \in 1..Len(w), NEW ready, NEW play, NEW tracks, NEW o,
         NEW cur, NEW b, IsRebuilt(tracks, o, cur, play, w, c, ready)
  PROVE  Plays(Rebuilt(tracks, o, cur, b), play, w, c, ready)
<1>1. /\ play = Only(w, ready) /\ play # <<>>
      /\ o \in [1..Len(play) -> Nat] /\ \A i, j \in 1..Len(play) : o[i] = o[j] => i = j
      /\ \A i \in 1..Len(play) : tracks[o[i]] = play[i]
  BY DEF IsRebuilt
<1>2. PICK found : /\ found = FoundAt(play, w[c], Rank(w, c))
                   /\ (found # 0 => cur = found) /\ (found = 0 => cur \in 1..Len(play))
  BY DEF IsRebuilt
<1>3. PICK f : play \in Seq(X) /\ Embeds(w, ready, Len(w), play, f)
  BY <1>1, OnlyEmbeds
<1>4. PICK r : r = Rebuilt(tracks, o, cur, b)
  OBVIOUS
<1>5. r.order = o /\ r.tracks = tracks /\ r.current = cur
  BY <1>4 DEF Rebuilt, Initial
<1>6. DOMAIN o = 1..Len(play)
  BY <1>1
<1>7. Ordered(r) = play
  <2>1. Ordered(r) = [i \in 1..Len(play) |-> tracks[o[i]]]
    BY <1>5, <1>6 DEF Ordered
  <2>2. play = [i \in 1..Len(play) |-> play[i]]
    BY <1>3
  <2> QED BY <1>1, <2>1, <2>2
<1>8. IsInjective(r.order)
  BY <1>1, <1>5, <1>6 DEF IsInjective
<1>9. r.current \in DOMAIN r.order
  <2>1. found \in 0..Len(play) /\ Len(play) \in Nat
    BY <1>2, <1>3, FoundAnywhere
  <2>2. cur \in 1..Len(play)
    BY <1>2, <2>1
  <2> QED BY <1>5, <1>6, <2>2
<1>10. ASSUME w[c] \in ready PROVE r.current = Len(Only(SubSeq(w, 1, c - 1), ready)) + 1
  <2>1. /\ FoundAt(play, w[c], Rank(w, c)) \in 1..Len(play)
        /\ FoundAt(play, w[c], Rank(w, c)) = Len(Only(SubSeq(w, 1, c - 1), ready)) + 1
    BY <1>3, <1>10, FoundKept
  <2>2. found # 0
    BY <1>2, <2>1
  <2> QED BY <1>2, <1>5, <2>1, <2>2
<1> QED BY <1>4, <1>7, <1>8, <1>9, <1>10 DEF Plays

LEMMA PlayOrderPlays ==
  ASSUME NEW X, NEW w \in Seq(X), NEW c \in 0..(Len(w) - 1), NEW ready, NEW saved,
         saved.trackIds = w, saved.currentIndex = c, Only(w, ready) # <<>>
  PROVE  Plays(PlayOrderRung(saved, ready), Only(w, ready), w, c + 1, ready)
<1>1. PICK play : play = Only(w, ready) /\ play \in Seq(X)
  BY OnlyEmbeds
<1>2. PICK m \in Nat : m = Len(play) /\ m # 0
  BY <1>1
<1>3. c < Len(w) /\ c + 1 \in 1..Len(w) /\ c + 1 \in Nat \ {0}
  OBVIOUS
<1>4. SavedCursor(saved) = c + 1
  BY <1>3 DEF SavedCursor
<1>5. PICK found : found = FoundAt(play, w[c + 1], Rank(w, c + 1))
  OBVIOUS
<1>6. PICK cur : cur = IF found = 0 THEN Min({c + 1, m}) ELSE found
  OBVIOUS
<1>7. PICK o : o = Identity(m)
  OBVIOUS
<1>8. o \in [1..m -> Nat] /\ \A i \in 1..m : o[i] = i
  BY <1>7 DEF Identity
<1>9. Min({c + 1, m}) \in 1..m
  <2>1. Min({c + 1, m}) = IF c + 1 <= m THEN c + 1 ELSE m
    BY <1>3, LeastOfTwo
  <2> QED BY <1>2, <1>3, <2>1
<1>10. (found # 0 => cur = found) /\ (found = 0 => cur \in 1..m)
  BY <1>6, <1>9
<1>11. PlayOrderRung(saved, ready) = Rebuilt(play, o, cur, saved.shuffled)
  BY <1>1, <1>2, <1>4, <1>5, <1>6, <1>7 DEF PlayOrderRung, Ready
<1>12. \A i \in 1..m : play[o[i]] = play[i]
  BY <1>8
<1>13. \A i, j \in 1..m : o[i] = o[j] => i = j
  BY <1>8
<1>14. IsRebuilt(play, o, cur, play, w, c + 1, ready)
  BY <1>1, <1>2, <1>5, <1>8, <1>10, <1>12, <1>13 DEF IsRebuilt
<1>15. Plays(Rebuilt(play, o, cur, saved.shuffled), play, w, c + 1, ready)
  BY <1>3, <1>14, RebuiltPlays
<1> QED BY <1>1, <1>11, <1>15

LEMMA NaturalPlays ==
  ASSUME NEW X, NEW w \in Seq(X), NEW c \in 0..(Len(w) - 1), NEW ready, NEW saved,
         saved.trackIds = w, saved.currentIndex = c, Only(w, ready) # <<>>,
         saved.naturalOrder \in Seq(X),
         \A x \in X : CountOf(saved.naturalOrder, x) = CountOf(w, x)
  PROVE  Plays(NaturalRung(saved, ready), Only(w, ready), w, c + 1, ready)
<1>1. PICK play, f : play = Only(w, ready) /\ play \in Seq(X) /\ Embeds(w, ready, Len(w), play, f)
  BY OnlyEmbeds
<1>2. PICK nat : nat = saved.naturalOrder
  OBVIOUS
<1>3. PICK natural, g :
        natural = Only(nat, ready) /\ natural \in Seq(X) /\ Embeds(nat, ready, Len(nat), natural, g)
  BY <1>2, OnlyEmbeds
<1>4. PICK m \in Nat : m = Len(play) /\ m # 0
  BY <1>1
<1>5. \A i \in 1..m : play[i] \in X /\ play[i] \in ready
  <2>1. play \in Seq(ready)
    BY <1>1, OnlyMembers
  <2> QED BY <1>1, <1>4, <2>1
<1>6. ASSUME NEW x \in X, x \in ready PROVE CountOf(natural, x) = CountOf(play, x)
  <2>1. CountOf(natural, x) = CountOf(nat, x)
    BY <1>2, <1>3, <1>6, CountKept
  <2>2. CountOf(play, x) = CountOf(w, x)
    BY <1>1, <1>6, CountKept
  <2> QED BY <1>2, <2>1, <2>2
<1>7. PICK o : o = [i \in 1..m |-> NthPosition(natural, play[i], Rank(play, i))]
  OBVIOUS
<1>8. ASSUME NEW i \in 1..m
      PROVE  o[i] \in 1..Len(natural) /\ natural[o[i]] = play[i] /\ Rank(natural, o[i]) = Rank(play, i)
  <2>1. Rank(play, i) \in Nat /\ Rank(play, i) < CountOf(play, play[i])
    BY <1>1, <1>4, EarlierFacts, RankIsLess
  <2>2. CountOf(natural, play[i]) = CountOf(play, play[i])
    BY <1>5, <1>6
  <2>3. Rank(play, i) < CountOf(natural, play[i])
    BY <2>1, <2>2
  <2>4. PICK p : p = NthPosition(natural, play[i], Rank(play, i))
    OBVIOUS
  <2>5. p \in 1..Len(natural) /\ natural[p] = play[i] /\ Rank(natural, p) = Rank(play, i)
    BY <1>3, <2>1, <2>3, <2>4, NthFound
  <2>6. o[i] = p
    BY <1>7, <2>4
  <2> QED BY <2>5, <2>6
<1>9. Only(play, ToSet(natural)) = play
  <2>1. \A i \in 1..Len(play) : play[i] \in ToSet(natural)
    <3>1. SUFFICES ASSUME NEW i \in 1..m PROVE play[i] \in ToSet(natural)
      BY <1>4
    <3>2. o[i] \in DOMAIN natural /\ natural[o[i]] = play[i]
      BY <1>3, <1>8
    <3> QED BY <3>2 DEF ToSet
  <2> QED BY <1>1, <2>1, OnlyAll
<1>10. c < Len(w) /\ c + 1 \in 1..Len(w)
  OBVIOUS
<1>11. SavedCursor(saved) = c + 1
  BY <1>10 DEF SavedCursor
<1>12. PICK found : found = FoundAt(play, w[c + 1], Rank(w, c + 1))
  OBVIOUS
<1>13. PICK cur : cur = IF found = 0 THEN 1 ELSE found
  OBVIOUS
<1>14. DOMAIN play = 1..m
  BY <1>1, <1>4
<1>15. NaturalRung(saved, ready) = Rebuilt(natural, o, cur, saved.shuffled)
  BY <1>1, <1>2, <1>3, <1>7, <1>9, <1>11, <1>12, <1>13, <1>14 DEF NaturalRung, Ready
<1>16. o \in [1..m -> Nat]
  <2>1. \A i \in 1..m : o[i] \in Nat
    BY <1>8
  <2> QED BY <1>7, <2>1
<1>17. ASSUME NEW i \in 1..m, NEW j \in 1..m, o[i] = o[j] PROVE i = j
  <2>1. play[i] = play[j] /\ Rank(play, i) = Rank(play, j)
    BY <1>8, <1>17
  <2> QED BY <1>1, <1>4, <2>1, RankTells
<1>18. (found # 0 => cur = found) /\ (found = 0 => cur \in 1..m)
  BY <1>4, <1>13
<1>19. /\ \A i, j \in 1..m : o[i] = o[j] => i = j
       /\ \A i \in 1..m : natural[o[i]] = play[i]
  BY <1>8, <1>17
<1>20. IsRebuilt(natural, o, cur, play, w, c + 1, ready)
  BY <1>1, <1>4, <1>12, <1>16, <1>18, <1>19 DEF IsRebuilt
<1>21. Plays(Rebuilt(natural, o, cur, saved.shuffled), play, w, c + 1, ready)
  BY <1>10, <1>20, RebuiltPlays
<1> QED BY <1>1, <1>15, <1>21

\* Whatever the user has done to a queue, what is saved of it is accepted, and what
\* is rebuilt from it plays the ready tracks of the window in their order, each as
\* often as before, from the entry that was playing: toSavedQueueState and
\* reconstructPlayOrder agree about duplicates, previews and tracks that are gone.
THEOREM SavedQueuesResume == QueueSpec => []SavedQueueResumes
<1>1. ASSUME PlayInv PROVE SavedQueueResumes
  <2>0. Well(queue)
    BY <1>1 DEF PlayInv
  <2>1. SUFFICES ASSUME ~ IsSkippable(queue)
                 PROVE  LET saved == SavedQueueLists(queue) IN
    /\ Accepted(saved)
    /\ Len(saved.trackIds) = Min({MaxSaved, Len(LibraryIds(Ordered(queue)))})
    /\ saved.trackIds[saved.currentIndex + 1] = CurrentTrack(queue)
    /\ \A ready \in SUBSET Library, natural \in {saved.naturalOrder, <<>>} :
         Expected(queue, ready) # <<>> =>
           LET r == Rebuild([saved EXCEPT !.naturalOrder = natural], ready) IN
           /\ Ordered(r) = Expected(queue, ready)
           /\ IsInjective(r.order) /\ r.current \in DOMAIN r.order
           /\ CurrentTrack(queue) \in ready =>
                r.current = ExpectedBefore(queue, ready) + 1
    BY DEF SavedQueueResumes
  <2>2. CurrentTrack(queue) \in Library
    BY <2>1 DEF IsSkippable
  <2>3. queue.current # 0
    BY <2>2, PlayQueueAssumption DEF PlayQueueAssumption, CurrentTrack
  <2>4. PICK w, c :
          /\ IsWindow(queue, w, c)
          /\ SavedQueueLists(queue) =
               [trackIds |-> w, naturalOrder |-> NaturalWithin(LibraryIds(queue.tracks), w),
                currentIndex |-> c, shuffled |-> queue.shuffled]
    BY <2>0, <2>2, <2>3, WindowFacts
  <2>5. PICK nat : nat = NaturalWithin(LibraryIds(queue.tracks), w)
    OBVIOUS
  <2>6. PICK saved : saved = SavedQueueLists(queue)
    OBVIOUS
  <2>7. saved = [trackIds |-> w, naturalOrder |-> nat, currentIndex |-> c, shuffled |-> queue.shuffled]
    BY <2>4, <2>5, <2>6
  <2>8. /\ nat \in Seq(Library) /\ \A x \in Library : CountOf(nat, x) = CountOf(w, x)
        /\ Accepted(saved)
    BY <2>0, <2>4, <2>5, <2>7, SavedIsAccepted
  <2>9. /\ w \in Seq(Library) /\ c \in 0..(Len(w) - 1)
        /\ Len(w) = Min({MaxSaved, Len(LibraryIds(Ordered(queue)))})
        /\ w[c + 1] = CurrentTrack(queue)
    BY <2>4 DEF IsWindow
  <2>10. saved.trackIds = w /\ saved.naturalOrder = nat /\ saved.currentIndex = c
    BY <2>7
  <2>11. ASSUME NEW ready \in SUBSET Library, NEW natural \in {nat, <<>>},
                Expected(queue, ready) # <<>>, NEW r,
                r = Rebuild([saved EXCEPT !.naturalOrder = natural], ready)
         PROVE  /\ Ordered(r) = Expected(queue, ready)
                /\ IsInjective(r.order) /\ r.current \in DOMAIN r.order
                /\ CurrentTrack(queue) \in ready => r.current = ExpectedBefore(queue, ready) + 1
    <3>1. Expected(queue, ready) = Only(w, ready)
      BY <2>6, <2>10 DEF Expected, Ready
    <3>2. ExpectedBefore(queue, ready) = Len(Only(SubSeq(w, 1, c), ready))
      BY <2>6, <2>10 DEF ExpectedBefore, Ready
    <3>3. PICK s : s = [saved EXCEPT !.naturalOrder = natural]
      OBVIOUS
    <3>4. s.trackIds = w /\ s.currentIndex = c /\ s.naturalOrder = natural
      BY <2>7, <3>3
    <3>5. Plays(r, Only(w, ready), w, c + 1, ready)
      <4>1. CASE Only(natural, ready) # <<>>
        <5>1. Only(<<>>, ready) = <<>>
          <6>1. PICK e \in Seq(Library) : e = <<>> /\ Len(e) = 0
            <7>1. <<>> \in Seq(Library) /\ Len(<<>>) = 0
              OBVIOUS
            <7> QED BY <7>1
          <6>2. \A i \in 1..Len(e) : e[i] \in ready
            BY <6>1
          <6> QED BY <6>1, <6>2, OnlyAll
        <5>2. natural = nat
          BY <2>11, <4>1, <5>1
        <5>3. r = NaturalRung(s, ready)
          BY <2>11, <3>3, <3>4, <4>1 DEF Rebuild, Ready
        <5>4. s.naturalOrder \in Seq(Library) /\ \A x \in Library : CountOf(s.naturalOrder, x) = CountOf(w, x)
          BY <2>8, <3>4, <5>2
        <5> QED BY <2>9, <2>11, <3>1, <3>4, <5>3, <5>4, NaturalPlays
      <4>2. CASE Only(natural, ready) = <<>>
        <5>1. r = PlayOrderRung(s, ready)
          BY <2>11, <3>3, <3>4, <4>2 DEF Rebuild, Ready
        <5> QED BY <2>9, <2>11, <3>1, <3>4, <5>1, PlayOrderPlays
      <4> QED BY <4>1, <4>2
    <3>6. (c + 1) - 1 = c
      BY <2>9
    <3> QED BY <2>9, <3>1, <3>2, <3>5, <3>6 DEF Plays
  <2> QED BY <2>6, <2>8, <2>9, <2>10, <2>11
<1> QED BY <1>1, PlayInvHolds, PTL
=============================================================================
