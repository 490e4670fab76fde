--------------------------- MODULE JobQueueProofs ---------------------------
(***************************************************************************)
(* What TLAPS proves of JobQueue, for any number of tracks, workers and    *)
(* requests, with workers that may outlive their leases.                   *)
(*                                                                         *)
(* The argument for the fence: a claim hands out a fence above every fence *)
(* ever handed out for its track, so that two claimants of one track never *)
(* hold the same one, and the row matches at most one of them.  The rest   *)
(* follows: who may land an outcome, that no request is lost, and what may *)
(* take a pending track out of the queue.                                  *)
(*                                                                         *)
(* At the end: the queue implements FencedLease.  What a statement makes   *)
(* of one row decides which step of the lease it is; that only the owner   *)
(* publishes is VersionInv.                                                *)
(***************************************************************************)
EXTENDS JobQueue, TLAPS

\* The statements of the queue and of the catalog keep a row a row.
LEMMA RowTypes ==
  ASSUME NEW r \in Row
  PROVE  /\ \A kind \in Kinds, a \in Avails : Enqueued(r, kind, a) \in Row
         /\ Leased(r) \in Row
         /\ \A a \in Avails : Released(r, a) \in Row
         /\ Settled(r) \in Row
         /\ \A s \in Statuses : Written(r, s) \in Row
         /\ \A a \in Avails : [r EXCEPT !.avail = a] \in Row
         /\ \A l \in Leases : [r EXCEPT !.lease = l] \in Row
<1> USE DEF Row, Kinds, Statuses, Avails, Leases
<1>0. r.attempts + 1 \in Nat /\ r.runs + 1 \in Nat /\ r.version + 1 \in Nat
  OBVIOUS
<1>1. ASSUME NEW kind \in Kinds, NEW a \in Avails
      PROVE  Enqueued(r, kind, a) \in Row
  BY <1>0, <1>1 DEF Enqueued
<1>2. Leased(r) \in Row
  BY <1>0 DEF Leased
<1>3. ASSUME NEW a \in Avails
      PROVE  Released(r, a) \in Row /\ [r EXCEPT !.avail = a] \in Row
  BY <1>3 DEF Released
<1>4. Settled(r) \in Row
  BY DEF Settled
<1>5. ASSUME NEW s \in Statuses
      PROVE  Written(r, s) \in Row
  BY <1>0, <1>5 DEF Written
<1>6. ASSUME NEW l \in Leases
      PROVE  [r EXCEPT !.lease = l] \in Row
  BY <1>6
<1> QED
  BY <1>1, <1>2, <1>3, <1>4, <1>5, <1>6

LEMMA ConstantRows == InsertedRow \in Row /\ DeletedRow \in Row /\ AbsentRow \in Row
BY DEF Row, InsertedRow, DeletedRow, AbsentRow, Kinds, Statuses, Avails, Leases

\* One statement on one row keeps the table typed.
LEMMA SetRowType ==
  ASSUME row \in [Tracks -> Row], NEW t \in Tracks, NEW r \in Row, SetRow(t, r)
  PROVE  row' \in [Tracks -> Row]
BY DEF SetRow

LEMMA InitTypeOK == Init => TypeOK
BY ConstantRows DEF Init, TypeOK, View, NoView, Outcomes, PCs, NoJob, NoReq

LEMMA ViewVersionType ==
  ASSUME view \in [Workers -> View], NEW w \in Workers, NEW n \in Nat
  PROVE  [view EXCEPT ![w].version = n] \in [Workers -> View]
BY DEF View

\* A claim keeps the state typed.
LEMMA HandType ==
  ASSUME TypeOK, NEW w \in Workers, NEW t \in Tracks, Hand(w, t)
  PROVE  TypeOK'
<1>1. row[t] \in Row
  BY DEF TypeOK
<1>2. row' \in [Tracks -> Row]
  BY <1>1, RowTypes, SetRowType DEF Hand, TypeOK
<1> DEFINE token == [track |-> t, kind |-> row[t].kind,
                     run |-> row[t].runs + 1, fence |-> row[t].attempts + 1]
<1>3. token \in Token
  BY <1>1 DEF Token, Row
<1>4. job' = [job EXCEPT ![w] = token] /\ pc' = [pc EXCEPT ![w] = "claimed"]
  BY DEF Hand, Goto
<1> HIDE DEF token
<1> QED
  BY <1>2, <1>3, <1>4 DEF TypeOK, Hand, PCs

\* Every step of the system keeps the state typed.
LEMMA NextTypeOK ==
  ASSUME TypeOK, [Next]_vars
  PROVE  TypeOK'
<1> USE DEF TypeOK
<1>1. ASSUME NEW c \in Clients, NEW t \in Tracks, AddTrack(c, t) PROVE TypeOK'
  BY <1>1, ConstantRows, SetRowType DEF AddTrack, Ask, Req, Wants, Kinds, InsertedRow, AbsentRow
<1>2. ASSUME NEW c \in Clients, NEW t \in Tracks, NEW p \in Purposes, ReadTrack(c, t, p) PROVE TypeOK'
  BY <1>2, QueueAssumption DEF ReadTrack, Ask, Spend, Req, Wants, Kinds, Row
<1>3. ASSUME NEW c \in Clients, Enqueue(c) PROVE TypeOK'
  <2> DEFINE t    == req[c].track
             kind == req[c].want
  <2>1. t \in Tracks /\ kind \in Kinds /\ row[t] \in Row
    BY <1>3 DEF Enqueue, Req, NoReq
  <2>2. Enqueued(row[t], kind, "due") \in Row
    BY <2>1, RowTypes DEF Avails
  <2>3. row' \in [Tracks -> Row]
    BY <1>3, <2>1, <2>2, SetRowType DEF Enqueue
  <2>4. row[t].attempts \in Nat /\ Enqueued(row[t], kind, "due").attempts + 1 \in Nat
    BY <2>1, <2>2 DEF Row
  <2>5. owed' \in [Tracks -> Nat]
    <3>1. \A f, g \in Nat : LatestFence(f, g) \in Nat
      BY DEF LatestFence
    <3>2. AnswerFence(row[t], kind) \in Nat
      BY <2>4 DEF AnswerFence
    <3> QED
      BY <1>3, <2>1, <3>1, <3>2 DEF Enqueue
  <2>6. req' \in [Clients -> Req \cup {NoReq}]
    BY <1>3 DEF Enqueue, Refused, Ask, Req, Wants, NoReq
  <2> QED
    BY <1>3, <2>3, <2>5, <2>6 DEF Enqueue
<1>4. ASSUME NEW c \in Clients, EnqueueRefused(c) PROVE TypeOK'
  BY <1>4 DEF EnqueueRefused, Refused, Ask, Req, Wants, NoReq
<1>5. ASSUME NEW c \in Clients, MarkFailed(c) PROVE TypeOK'
  BY <1>5, RowTypes, SetRowType DEF MarkFailed, Ask, Req, Wants, NoReq, Kinds, Statuses
<1>6. ASSUME NEW t \in Tracks, DeleteTrack(t) PROVE TypeOK'
  BY <1>6, ConstantRows, SetRowType DEF DeleteTrack
<1>7. ASSUME NEW t \in Tracks, BecomesDue(t) PROVE TypeOK'
  BY <1>7, RowTypes, SetRowType DEF BecomesDue, Avails
<1>8. ASSUME NEW t \in Tracks, LeaseLapses(t) PROVE TypeOK'
  <2>1. row' \in [Tracks -> Row]
    BY <1>8, RowTypes, SetRowType DEF LeaseLapses, Leases
  <2>2. spent' \in Nat
    BY <1>8 DEF LeaseLapses, Spend
  <2> QED
    BY <1>8, <2>1, <2>2 DEF LeaseLapses
<1>9. ASSUME NEW w \in Workers, Claim(w) PROVE TypeOK'
  BY <1>9, HandType DEF Claim
<1>10. ASSUME NEW w \in Workers, ClaimUpgrade(w) PROVE TypeOK'
  BY <1>10, HandType DEF ClaimUpgrade
<1>11. ASSUME NEW w \in Workers, LoadTrack(w) PROVE TypeOK'
  <2>1. row[TrackOf(w)].version \in Nat
    BY <1>11 DEF LoadTrack, Row, TrackOf, Token
  <2>2. view' \in [Workers -> View]
    <3>1. ASSUME NEW p \in BOOLEAN
          PROVE  [version |-> row[TrackOf(w)].version, preserved |-> p] \in View
      BY <2>1, <3>1 DEF View
    <3> QED
      BY <1>11, <3>1 DEF LoadTrack
  <2>3. outcome' \in [Workers -> Outcomes] /\ pc' \in [Workers -> PCs]
    BY <1>11 DEF LoadTrack, LoadVerdict, Unrecorded, Goto, EndRun, PCs, Outcomes
  <2>4. \A v \in Workers : pc'[v] # "idle" => pc[v] # "idle"
    BY <1>11 DEF LoadTrack, LoadVerdict, Unrecorded, Goto, EndRun, PCs
  <2>5. spent' \in Nat
    BY <1>11 DEF LoadTrack, LoadVerdict, Unrecorded, Spend
  <2> QED
    BY <1>11, <2>2, <2>3, <2>4, <2>5 DEF LoadTrack
<1>12. ASSUME NEW w \in Workers, RevertToPending(w) PROVE TypeOK'
  <2>1. row' \in [Tracks -> Row]
    BY <1>12, RowTypes, SetRowType DEF RevertToPending, TrackOf, Token, Statuses
  <2>2. outcome' \in [Workers -> Outcomes] /\ pc' \in [Workers -> PCs]
    BY <1>12 DEF RevertToPending, Goto, EndRun, PCs, Outcomes
  <2>3. \A v \in Workers : pc'[v] # "idle" => pc[v] # "idle"
    BY <1>12 DEF RevertToPending, Goto, EndRun, PCs
  <2>4. spent' \in Nat
    BY <1>12 DEF RevertToPending, Spend
  <2> QED
    BY <1>12, <2>1, <2>2, <2>3, <2>4 DEF RevertToPending
<1>13. ASSUME NEW w \in Workers, VerifyLease(w) PROVE TypeOK'
  BY <1>13 DEF VerifyLease, Goto, EndRun, PCs, Outcomes
<1>14. ASSUME NEW w \in Workers, CommitLoad(w) PROVE TypeOK'
  <2>1. row[TrackOf(w)].version \in Nat
    BY <1>14 DEF CommitLoad, Row, TrackOf, Token
  <2>2. view' \in [Workers -> View]
    BY <1>14, <2>1, ViewVersionType DEF CommitLoad
  <2>3. outcome' \in [Workers -> Outcomes] /\ pc' \in [Workers -> PCs]
    BY <1>14 DEF CommitLoad, FailTo, Goto, EndRun, PCs, Outcomes
  <2>4. \A v \in Workers : pc'[v] # "idle" => pc[v] # "idle"
    BY <1>14 DEF CommitLoad, FailTo, Goto, EndRun, PCs
  <2> QED
    BY <1>14, <2>2, <2>3, <2>4 DEF CommitLoad
<1>15. ASSUME NEW w \in Workers, CommitWrite(w) PROVE TypeOK'
  BY <1>15, RowTypes, SetRowType DEF CommitWrite, Landed, Goto, EndRun, PCs, Outcomes, TrackOf, Token, Statuses
<1>16. ASSUME NEW w \in Workers, RunFails(w) PROVE TypeOK'
  BY <1>16 DEF RunFails, FailTo, Goto, EndRun, PCs, Outcomes
<1>17. ASSUME NEW w \in Workers, RunRetries(w) PROVE TypeOK'
  BY <1>17 DEF RunRetries, Goto, EndRun, PCs, Outcomes
<1>18. ASSUME NEW w \in Workers, RunPanics(w) PROVE TypeOK'
  BY <1>18 DEF RunPanics, Goto, EndRun, PCs, Outcomes
<1>19. ASSUME NEW w \in Workers, FailLoad(w) PROVE TypeOK'
  <2>1. row[TrackOf(w)].version \in Nat
    BY <1>19 DEF FailLoad, Row, TrackOf, Token
  <2>2. view' \in [Workers -> View]
    BY <1>19, <2>1, ViewVersionType DEF FailLoad
  <2>3. /\ pc' \in [Workers -> PCs] /\ outcome' \in [Workers -> Outcomes]
        /\ spent' \in Nat
    BY <1>19 DEF FailLoad, Unrecorded, Spend, EndRun, Goto, PCs, Outcomes
  <2>4. \A v \in Workers : pc'[v] # "idle" => pc[v] # "idle"
    BY <1>19 DEF FailLoad, Unrecorded, EndRun, Goto, PCs
  <2> QED
    BY <1>19, <2>2, <2>3, <2>4 DEF FailLoad
<1>20. ASSUME NEW w \in Workers, FailWrite(w) PROVE TypeOK'
  <2>1. row' \in [Tracks -> Row]
    BY <1>20, RowTypes, SetRowType DEF FailWrite, TrackOf, Token, Statuses
  <2>2. /\ pc' \in [Workers -> PCs] /\ outcome' \in [Workers -> Outcomes]
        /\ spent' \in Nat
    BY <1>20 DEF FailWrite, Unrecorded, Spend, EndRun, Goto, PCs, Outcomes
  <2>3. \A v \in Workers : pc'[v] # "idle" => pc[v] # "idle"
    BY <1>20 DEF FailWrite, Unrecorded, EndRun, Goto, PCs
  <2>4. owed' \in [Tracks -> Nat]
    BY <1>20 DEF FailWrite, Landed, TrackOf, Token
  <2> QED
    BY <1>20, <2>1, <2>2, <2>3, <2>4 DEF FailWrite
<1>21. ASSUME NEW w \in Workers, Cancelled(w) PROVE TypeOK'
  BY <1>21 DEF Cancelled, Goto, EndRun, PCs, Outcomes
<1>22. ASSUME NEW w \in Workers, RefuseQueued(w) PROVE TypeOK'
  BY <1>22 DEF RefuseQueued, Goto, PCs, Outcomes
<1>23. ASSUME NEW w \in Workers, Settle(w) PROVE TypeOK'
  <2>1. row' \in [Tracks -> Row]
    BY <1>23, RowTypes, SetRowType DEF Settle, TrackOf, Token
  <2>2. owed' \in [Tracks -> Nat]
    BY <1>23 DEF Settle, LeftQueue
  <2> QED
    BY <1>23, <2>1, <2>2
       DEF Settle, GoIdle, Goto, PCs, Outcomes, View, NoView, NoJob
<1>24. ASSUME NEW w \in Workers, Release(w) PROVE TypeOK'
  BY <1>24, RowTypes, SetRowType DEF Release, GoIdle, Goto, PCs, Outcomes, View, NoView, NoJob, TrackOf, Token, Avails
<1>25. ASSUME NEW w \in Workers, Heartbeat(w) PROVE TypeOK'
  BY <1>25, RowTypes, SetRowType DEF Heartbeat, HeartbeatRuns, TrackOf, Token, Leases
<1>26. ASSUME NEW w \in Workers, ShutdownRelease(w) PROVE TypeOK'
  <2>1. row' \in [Tracks -> Row]
    BY <1>26, RowTypes, SetRowType DEF ShutdownRelease, TrackOf, Token, Avails
  <2>2. spent' \in Nat
    BY <1>26 DEF ShutdownRelease, Spend
  <2> QED
    BY <1>26, <2>1, <2>2
       DEF ShutdownRelease, GoIdle, Goto, PCs, Outcomes, View, NoView, NoJob
<1>27. ASSUME NEW w \in Workers, Crash(w) PROVE TypeOK'
  BY <1>27 DEF Crash, GoIdle, Goto, PCs, Outcomes, View, NoView, NoJob, Spend
<1>28. CASE UNCHANGED vars
  BY <1>28 DEF vars
<1> QED
  BY <1>1, <1>2, <1>3, <1>4, <1>5, <1>6, <1>7, <1>8, <1>9, <1>10, <1>11, <1>12, <1>13, <1>14, <1>15, <1>16, <1>17, <1>18, <1>19, <1>20, <1>21, <1>22, <1>23, <1>24, <1>25, <1>26, <1>27, <1>28
     DEF Next, Request, Time, Work, Interrupt

\* The state is always typed.
THEOREM TypeCorrect == Spec => []TypeOK
BY InitTypeOK, NextTypeOK, PTL DEF Spec

-----------------------------------------------------------------------------
(* How one step moves rows, jobs and views.                                *)

\* A row that exists only moves forward: its fence and its version never
\* fall, the fence never changes under an unchanged version, and a lapsed
\* lease is live again only under a higher fence.
RowMoves(r, q) ==
  /\ r.lease = "lapsed" /\ q.lease = "live" => q.attempts > r.attempts
  /\ r.status # "absent" => q.status # "absent"
  /\ Exists(q) /\ r.status # "absent" =>
       /\ Exists(r)
       /\ q.attempts >= r.attempts
       /\ q.version >= r.version
       /\ q.version = r.version => q.attempts = r.attempts

\* The two states in which a worker is about to land an outcome on the
\* version it has loaded.
Landing == {"committing", "marking"}

KeepsJobs ==
  \A w \in Workers : pc'[w] # "idle" => pc[w] # "idle" /\ job'[w] = job[w]

KeepsViews ==
  \A w \in Workers : pc'[w] \in Landing => pc[w] \in Landing /\ view'[w] = view[w]

HandsOut == \E w \in Workers, t \in Tracks :
  /\ Exists(row[t]) /\ row[t].avail # "never" /\ row[t].lease # "live"
  /\ Hand(w, t)

LoadsView == \E w \in Workers :
  /\ FenceMatches(row[TrackOf(w)], FenceOf(w))
  /\ view'[w].version = row[TrackOf(w)].version
  /\ row' = row
  /\ pc[w] # "idle"
  /\ \A v \in Workers \ {w} : pc'[v] = pc[v] /\ view'[v] = view[v]

StepShape ==
  /\ \A t \in Tracks : RowMoves(row[t], row'[t])
  /\ KeepsJobs \/ HandsOut
  /\ KeepsViews \/ LoadsView

LEMMA StatementsMoveRows ==
  ASSUME NEW r \in Row
  PROVE  /\ RowMoves(r, r)
         /\ Exists(r) => \A kind \in Kinds, a \in Avails :
                           RowMoves(r, Enqueued(r, kind, a))
         /\ RowMoves(r, Leased(r))
         /\ \A a \in Avails : RowMoves(r, Released(r, a))
         /\ RowMoves(r, Settled(r))
         /\ Exists(r) => \A s \in Statuses : RowMoves(r, Written(r, s))
         /\ \A a \in Avails : RowMoves(r, [r EXCEPT !.avail = a])
         /\ \A l \in Leases : r.lease = "live" => RowMoves(r, [r EXCEPT !.lease = l])
         /\ RowMoves(r, DeletedRow)
         /\ r.status = "absent" => RowMoves(r, InsertedRow)
<1> USE DEF Row, RowMoves, Exists, Kinds, Statuses, Avails, Leases
<1>0. /\ r.attempts \in Nat /\ r.version \in Nat
      /\ r.attempts + 1 >= r.attempts /\ r.attempts >= r.attempts
      /\ r.version + 1 >= r.version /\ r.version + 1 # r.version
  OBVIOUS
<1>1. RowMoves(r, r)
  OBVIOUS
<1>2. ASSUME Exists(r), NEW kind \in Kinds, NEW a \in Avails
      PROVE  RowMoves(r, Enqueued(r, kind, a))
  <2> DEFINE q == Enqueued(r, kind, a)
  <2>1. /\ q.status \in {r.status, "pending"}
        /\ q.attempts \in {r.attempts, r.attempts + 1}
        /\ q.version = r.version + 1
        /\ r.lease = "lapsed" => q.lease = "none"
    BY DEF Enqueued, KeepsLease
  <2> QED
    BY <1>0, <1>2, <2>1
<1>3. RowMoves(r, Leased(r))
  BY DEF Leased
<1>4. ASSUME NEW a \in Avails
      PROVE  RowMoves(r, Released(r, a)) /\ RowMoves(r, [r EXCEPT !.avail = a])
  BY <1>4 DEF Released
<1>5. RowMoves(r, Settled(r))
  BY DEF Settled
<1>6. ASSUME Exists(r), NEW s \in Statuses
      PROVE  RowMoves(r, Written(r, s))
  <2>1. /\ Written(r, s).status = s
        /\ Written(r, s).attempts = r.attempts
        /\ Written(r, s).version = r.version + 1
        /\ Written(r, s).lease = r.lease
    BY <1>0, <1>6 DEF Written
  <2> QED
    BY <1>0, <1>6, <2>1
<1>7. ASSUME NEW l \in Leases, r.lease = "live"
      PROVE  RowMoves(r, [r EXCEPT !.lease = l])
  BY <1>7
<1>8. RowMoves(r, DeletedRow)
  BY DEF DeletedRow, AbsentRow
<1>9. r.status = "absent" => RowMoves(r, InsertedRow)
  BY DEF InsertedRow, AbsentRow
<1> QED
  BY <1>1, <1>2, <1>3, <1>4, <1>5, <1>6, <1>7, <1>8, <1>9

\* One statement on one row moves that row only.
LEMMA SetRowMoves ==
  ASSUME row \in [Tracks -> Row], NEW t \in Tracks, NEW q, SetRow(t, q),
         RowMoves(row[t], q)
  PROVE  \A u \in Tracks : RowMoves(row[u], row'[u])
BY StatementsMoveRows DEF SetRow

LEMMA SameRowsMove ==
  ASSUME row \in [Tracks -> Row], row' = row
  PROVE  \A u \in Tracks : RowMoves(row[u], row'[u])
BY StatementsMoveRows

LEMMA StepsHaveShape ==
  ASSUME TypeOK, [Next]_vars
  PROVE  StepShape
<1> USE DEF TypeOK, StepShape, PCs
<1>1. ASSUME NEW c \in Clients, NEW t \in Tracks, AddTrack(c, t) PROVE StepShape
  <2>1. row[t].status = "absent" /\ row[t] \in Row
    BY <1>1 DEF AddTrack, AbsentRow
  <2>2. RowMoves(row[t], InsertedRow)
    BY <2>1, StatementsMoveRows
  <2>3. \A u \in Tracks : RowMoves(row[u], row'[u])
    BY <1>1, <2>2, SetRowMoves DEF AddTrack
  <2> QED
    BY <1>1, <2>3 DEF AddTrack, KeepsJobs, KeepsViews, Landing
<1>2. ASSUME NEW c \in Clients, NEW t \in Tracks, NEW p \in Purposes, ReadTrack(c, t, p) PROVE StepShape
  BY <1>2, SameRowsMove
     DEF ReadTrack, KeepsJobs, KeepsViews, Landing
<1>3. ASSUME NEW c \in Clients, Enqueue(c) PROVE StepShape
  BY <1>3, StatementsMoveRows, SetRowMoves
     DEF Enqueue, CanEnqueue, Req, NoReq, Avails, KeepsJobs, KeepsViews, Landing
<1>4. ASSUME NEW c \in Clients, EnqueueRefused(c) PROVE StepShape
  BY <1>4, SameRowsMove
     DEF EnqueueRefused, KeepsJobs, KeepsViews, Landing
<1>5. ASSUME NEW c \in Clients, MarkFailed(c) PROVE StepShape
  BY <1>5, StatementsMoveRows, SetRowMoves, SameRowsMove
     DEF MarkFailed, Req, NoReq, Statuses, KeepsJobs, KeepsViews, Landing
<1>6. ASSUME NEW t \in Tracks, DeleteTrack(t) PROVE StepShape
  BY <1>6, StatementsMoveRows, SetRowMoves
     DEF DeleteTrack, KeepsJobs, KeepsViews, Landing
<1>7. ASSUME NEW t \in Tracks, BecomesDue(t) PROVE StepShape
  BY <1>7, StatementsMoveRows, SetRowMoves
     DEF BecomesDue, Avails, KeepsJobs, KeepsViews, Landing
<1>8. ASSUME NEW t \in Tracks, LeaseLapses(t) PROVE StepShape
  BY <1>8, StatementsMoveRows, SetRowMoves
     DEF LeaseLapses, Leases, KeepsJobs, KeepsViews, Landing
<1>9. ASSUME NEW w \in Workers, Claim(w) PROVE StepShape
  BY <1>9, StatementsMoveRows, SetRowMoves
     DEF Claim, ClaimableUserJob, UserJobQueued, HandsOut, Hand, Goto, KeepsViews, Landing
<1>10. ASSUME NEW w \in Workers, ClaimUpgrade(w) PROVE StepShape
  BY <1>10, StatementsMoveRows, SetRowMoves
     DEF ClaimUpgrade, ClaimableUpgrade, HandsOut, Hand, Goto, KeepsViews, Landing
<1>11. ASSUME NEW w \in Workers, LoadTrack(w) PROVE StepShape
  BY <1>11, SameRowsMove
     DEF LoadTrack, LoadVerdict, Unrecorded, Goto, EndRun, KeepsJobs, KeepsViews, Landing
<1>12. ASSUME NEW w \in Workers, RevertToPending(w) PROVE StepShape
  BY <1>12, StatementsMoveRows, SetRowMoves, SameRowsMove
     DEF RevertToPending, Goto, EndRun, TrackOf, Token, Statuses, KeepsJobs, KeepsViews, Landing
<1>13. ASSUME NEW w \in Workers, VerifyLease(w) PROVE StepShape
  BY <1>13, SameRowsMove
     DEF VerifyLease, Goto, EndRun, KeepsJobs, KeepsViews, Landing
<1>14. ASSUME NEW w \in Workers, CommitLoad(w) PROVE StepShape
  <2>1. row' = row /\ job' = job /\ pc[w] # "idle"
    BY <1>14 DEF CommitLoad
  <2>2. \A v \in Workers \ {w} : pc'[v] = pc[v] /\ view'[v] = view[v]
    BY <1>14 DEF CommitLoad, FailTo, Goto, EndRun
  <2>3. KeepsJobs
    BY <2>1, <2>2 DEF KeepsJobs
  <2>4. CASE pc'[w] = "committing"
    <3>1. /\ FenceMatches(row[TrackOf(w)], FenceOf(w))
          /\ view' = [view EXCEPT ![w].version = row[TrackOf(w)].version]
      BY <1>14, <2>4 DEF CommitLoad, FailTo, Goto, EndRun
    <3>2. view'[w].version = row[TrackOf(w)].version
      BY <3>1 DEF View
    <3> QED
      BY <2>1, <2>2, <2>3, <3>1, <3>2, SameRowsMove DEF LoadsView
  <2>5. CASE pc'[w] # "committing"
    <3>1. pc'[w] \notin Landing
      BY <1>14, <2>5 DEF CommitLoad, FailTo, Goto, EndRun, Landing
    <3>2. KeepsViews
      BY <2>2, <3>1 DEF KeepsViews
    <3> QED
      BY <2>1, <2>3, <3>2, SameRowsMove
  <2> QED
    BY <2>4, <2>5
<1>15. ASSUME NEW w \in Workers, CommitWrite(w) PROVE StepShape
  BY <1>15, StatementsMoveRows, SetRowMoves, SameRowsMove
     DEF CommitWrite, Goto, EndRun, TrackOf, Token, Statuses, KeepsJobs, KeepsViews, Landing
<1>16. ASSUME NEW w \in Workers, RunFails(w) PROVE StepShape
  BY <1>16, SameRowsMove
     DEF RunFails, FailTo, Goto, EndRun, KeepsJobs, KeepsViews, Landing
<1>17. ASSUME NEW w \in Workers, RunRetries(w) PROVE StepShape
  BY <1>17, SameRowsMove
     DEF RunRetries, Goto, EndRun, KeepsJobs, KeepsViews, Landing
<1>18. ASSUME NEW w \in Workers, RunPanics(w) PROVE StepShape
  BY <1>18, SameRowsMove
     DEF RunPanics, Goto, EndRun, KeepsJobs, KeepsViews, Landing
<1>19. ASSUME NEW w \in Workers, FailLoad(w) PROVE StepShape
  <2>1. row' = row /\ job' = job /\ pc[w] # "idle"
    BY <1>19 DEF FailLoad
  <2>2. \A v \in Workers \ {w} : pc'[v] = pc[v] /\ view'[v] = view[v]
    BY <1>19 DEF FailLoad, Unrecorded, EndRun, Goto
  <2>3. KeepsJobs
    BY <2>1, <2>2 DEF KeepsJobs
  <2>4. CASE pc'[w] = "marking"
    <3>1. /\ FenceMatches(row[TrackOf(w)], FenceOf(w))
          /\ view' = [view EXCEPT ![w].version = row[TrackOf(w)].version]
      BY <1>19, <2>4 DEF FailLoad, Unrecorded, EndRun, Goto
    <3>2. view'[w].version = row[TrackOf(w)].version
      BY <3>1 DEF View
    <3> QED
      BY <2>1, <2>2, <2>3, <3>1, <3>2, SameRowsMove DEF LoadsView
  <2>5. CASE pc'[w] # "marking"
    <3>1. pc'[w] \notin Landing
      BY <1>19, <2>5 DEF FailLoad, Unrecorded, EndRun, Goto, Landing
    <3>2. KeepsViews
      BY <2>2, <3>1 DEF KeepsViews
    <3> QED
      BY <2>1, <2>3, <3>2, SameRowsMove
  <2> QED
    BY <2>4, <2>5
<1>20. ASSUME NEW w \in Workers, FailWrite(w) PROVE StepShape
  <2>1. /\ job' = job /\ view' = view /\ pc[w] # "idle"
        /\ pc'[w] \notin Landing
        /\ \A v \in Workers \ {w} : pc'[v] = pc[v]
    BY <1>20 DEF FailWrite, Unrecorded, EndRun, Goto, Landing
  <2>2. KeepsJobs /\ KeepsViews
    BY <2>1 DEF KeepsJobs, KeepsViews
  <2>3. \A u \in Tracks : RowMoves(row[u], row'[u])
    BY <1>20, StatementsMoveRows, SetRowMoves, SameRowsMove
       DEF FailWrite, TrackOf, Token, Statuses
  <2> QED
    BY <2>2, <2>3
<1>21. ASSUME NEW w \in Workers, Cancelled(w) PROVE StepShape
  BY <1>21, SameRowsMove
     DEF Cancelled, Goto, EndRun, KeepsJobs, KeepsViews, Landing
<1>22. ASSUME NEW w \in Workers, RefuseQueued(w) PROVE StepShape
  BY <1>22, SameRowsMove
     DEF RefuseQueued, Goto, KeepsJobs, KeepsViews, Landing
<1>23. ASSUME NEW w \in Workers, Settle(w) PROVE StepShape
  BY <1>23, StatementsMoveRows, SetRowMoves, SameRowsMove
     DEF Settle, GoIdle, Goto, TrackOf, Token, KeepsJobs, KeepsViews, Landing
<1>24. ASSUME NEW w \in Workers, Release(w) PROVE StepShape
  BY <1>24, StatementsMoveRows, SetRowMoves, SameRowsMove
     DEF Release, GoIdle, Goto, TrackOf, Token, Avails, KeepsJobs, KeepsViews, Landing
<1>25. ASSUME NEW w \in Workers, Heartbeat(w) PROVE StepShape
  BY <1>25, StatementsMoveRows, SetRowMoves
     DEF Heartbeat, HeartbeatRuns, HoldsLease, TrackOf, Token, Leases, KeepsJobs, KeepsViews, Landing
<1>26. ASSUME NEW w \in Workers, ShutdownRelease(w) PROVE StepShape
  BY <1>26, StatementsMoveRows, SetRowMoves, SameRowsMove
     DEF ShutdownRelease, GoIdle, Goto, TrackOf, Token, Avails, KeepsJobs, KeepsViews, Landing
<1>27. ASSUME NEW w \in Workers, Crash(w) PROVE StepShape
  BY <1>27, SameRowsMove
     DEF Crash, GoIdle, Goto, KeepsJobs, KeepsViews, Landing
<1>28. CASE UNCHANGED vars
  BY <1>28, SameRowsMove DEF vars, KeepsJobs, KeepsViews
<1> QED
  BY <1>1, <1>2, <1>3, <1>4, <1>5, <1>6, <1>7, <1>8, <1>9, <1>10, <1>11, <1>12, <1>13, <1>14, <1>15, <1>16, <1>17, <1>18, <1>19, <1>20, <1>21, <1>22, <1>23, <1>24, <1>25, <1>26, <1>27, <1>28
     DEF Next, Request, Time, Work, Interrupt

-----------------------------------------------------------------------------
(* The fence.                                                              *)

\* No fence in a worker's hands is above its row's, and no two workers of
\* one track hold the same.
FenceInv ==
  /\ \A w \in Workers : pc[w] # "idle" =>
       /\ row[TrackOf(w)].status # "absent"
       /\ Exists(row[TrackOf(w)]) => FenceOf(w) <= row[TrackOf(w)].attempts
  /\ \A v, w \in Workers :
       /\ v # w
       /\ pc[v] # "idle" /\ pc[w] # "idle"
       /\ TrackOf(v) = TrackOf(w)
       => FenceOf(v) # FenceOf(w)

LEMMA FenceInvStep ==
  ASSUME TypeOK, FenceInv, [Next]_vars
  PROVE  FenceInv'
<1>1. TypeOK' /\ StepShape
  BY NextTypeOK, StepsHaveShape
<1>2. \A t \in Tracks : RowMoves(row[t], row'[t]) /\ row[t] \in Row /\ row'[t] \in Row
  BY <1>1 DEF StepShape, TypeOK
<1>3. CASE KeepsJobs
  <2>1. ASSUME NEW w \in Workers, pc'[w] # "idle"
        PROVE  /\ pc[w] # "idle" /\ job[w] \in Token /\ job'[w] = job[w]
               /\ row'[TrackOf(w)].status # "absent"
               /\ Exists(row'[TrackOf(w)]) => FenceOf(w) <= row'[TrackOf(w)].attempts
    <3>1. pc[w] # "idle" /\ job[w] \in Token /\ job'[w] = job[w]
      BY <1>3, <2>1 DEF KeepsJobs, TypeOK
    <3>2. TrackOf(w) \in Tracks /\ FenceOf(w) \in Nat
      BY <3>1 DEF Token, TrackOf, FenceOf
    <3> QED
      BY <1>2, <3>1, <3>2 DEF FenceInv, RowMoves, Row
  <2> QED
    BY <2>1 DEF FenceInv, TrackOf, FenceOf
<1>4. CASE HandsOut
  <2>1. PICK w \in Workers, t \in Tracks : Exists(row[t]) /\ Hand(w, t)
    BY <1>4 DEF HandsOut
  <2>2. /\ job'[w] = [track |-> t, kind |-> row[t].kind,
                      run |-> row[t].runs + 1, fence |-> row[t].attempts + 1]
        /\ \A v \in Workers \ {w} : job'[v] = job[v] /\ pc'[v] = pc[v]
        /\ row'[t].attempts = row[t].attempts + 1
        /\ row'[t].status = row[t].status
        /\ row[t].attempts \in Nat
    BY <1>2, <2>1 DEF Hand, SetRow, Goto, Leased, TypeOK, Row
  <2>3. ASSUME NEW v \in Workers \ {w}, pc'[v] # "idle"
        PROVE  /\ pc[v] # "idle" /\ job[v] \in Token /\ job'[v] = job[v]
               /\ row'[TrackOf(v)].status # "absent"
               /\ Exists(row'[TrackOf(v)]) => FenceOf(v) <= row'[TrackOf(v)].attempts
               /\ TrackOf(v) = t => FenceOf(v) < row[t].attempts + 1
    <3>1. pc[v] # "idle" /\ job[v] \in Token /\ job'[v] = job[v]
      BY <2>2, <2>3 DEF TypeOK
    <3>2. TrackOf(v) \in Tracks /\ FenceOf(v) \in Nat
      BY <3>1 DEF Token, TrackOf, FenceOf
    <3>3. TrackOf(v) = t => FenceOf(v) < row[t].attempts + 1
      BY <2>1, <2>2, <3>1, <3>2 DEF FenceInv
    <3> QED
      BY <1>2, <3>1, <3>2, <3>3 DEF FenceInv, RowMoves, Row
  <2>4. /\ row'[t].status # "absent"
        /\ job'[w].fence <= row'[t].attempts
    BY <2>1, <2>2 DEF Exists, Statuses
  <2>5. \A v \in Workers \ {w} :
          pc'[v] # "idle" /\ job'[v].track = t => job'[v].fence # row[t].attempts + 1
    <3> SUFFICES ASSUME NEW v \in Workers \ {w}, pc'[v] # "idle", job'[v].track = t
                 PROVE  job'[v].fence # row[t].attempts + 1
      OBVIOUS
    <3>1. job[v] \in Token /\ job'[v] = job[v] /\ job[v].fence < row[t].attempts + 1
      BY <2>3 DEF TrackOf, FenceOf
    <3> QED
      BY <2>2, <3>1 DEF Token
  <2> QED
    BY <2>2, <2>3, <2>4, <2>5 DEF FenceInv, TrackOf, FenceOf
<1> QED
  BY <1>1, <1>3, <1>4 DEF StepShape

LEMMA OneHolderFollows == FenceInv => OneLeaseHolder
BY DEF FenceInv, OneLeaseHolder, Holds, HoldsLease, FenceMatches

\* No two workers ever hold the lease of the same track.
THEOREM AtMostOneHolder == Spec => []OneLeaseHolder
<1>1. Init => TypeOK /\ FenceInv
  BY InitTypeOK DEF Init, FenceInv
<1>2. TypeOK /\ FenceInv /\ [Next]_vars => TypeOK' /\ FenceInv'
  BY NextTypeOK, FenceInvStep
<1> QED
  BY <1>1, <1>2, OneHolderFollows, PTL DEF Spec

-----------------------------------------------------------------------------
(* The outcome lands from the owner.  The fence is compared when the track *)
(* is loaded, the version when it is written: the two agree because no     *)
(* statement changes the fence and leaves the version alone.               *)

\* What a worker about to land an outcome knows of its row: the version it
\* loaded is not ahead, and if it is still current so is the fence.
VersionInv ==
  \A w \in Workers : pc[w] \in Landing /\ Exists(row[TrackOf(w)]) =>
    /\ view[w].version <= row[TrackOf(w)].version
    /\ view[w].version = row[TrackOf(w)].version
         => row[TrackOf(w)].attempts = FenceOf(w)

LEMMA VersionInvStep ==
  ASSUME TypeOK, FenceInv, VersionInv, [Next]_vars
  PROVE  VersionInv'
<1>1. TypeOK' /\ StepShape
  BY NextTypeOK, StepsHaveShape
<1>2. \A t \in Tracks : RowMoves(row[t], row'[t]) /\ row[t] \in Row /\ row'[t] \in Row
  BY <1>1 DEF StepShape, TypeOK
\* A worker that is landing after the step was working before it, on the
\* same job.
<1>3. ASSUME NEW w \in Workers, pc[w] # "idle", pc'[w] \in Landing
      PROVE  /\ job'[w] = job[w] /\ job[w] \in Token
             /\ TrackOf(w) \in Tracks /\ FenceOf(w) \in Nat
  <2>1. job'[w] = job[w]
    BY <1>1, <1>3 DEF StepShape, KeepsJobs, HandsOut, Hand, Goto, Landing, TypeOK
  <2> QED
    BY <1>3, <2>1 DEF TypeOK, Token, TrackOf, FenceOf
\* A worker that was landing, and keeps its view, keeps what it knows.
<1>4. ASSUME NEW w \in Workers, pc[w] \in Landing, pc'[w] \in Landing,
             view'[w] = view[w], Exists(row'[TrackOf(w)])
      PROVE  /\ view[w].version <= row'[TrackOf(w)].version
             /\ view[w].version = row'[TrackOf(w)].version
                  => row'[TrackOf(w)].attempts = FenceOf(w)
  <2>1. pc[w] # "idle" /\ view[w].version \in Nat
    BY <1>4 DEF Landing, TypeOK, View
  <2>2. TrackOf(w) \in Tracks /\ row[TrackOf(w)].status # "absent"
    BY <1>3, <1>4, <2>1 DEF FenceInv
  <2>3. /\ Exists(row[TrackOf(w)])
        /\ row'[TrackOf(w)].version >= row[TrackOf(w)].version
        /\ row'[TrackOf(w)].version = row[TrackOf(w)].version
             => row'[TrackOf(w)].attempts = row[TrackOf(w)].attempts
        /\ row[TrackOf(w)].version \in Nat /\ row'[TrackOf(w)].version \in Nat
    BY <1>2, <1>4, <2>2 DEF RowMoves, Row
  <2> QED
    BY <1>4, <2>1, <2>3 DEF VersionInv
<1>5. CASE KeepsViews
  <2> SUFFICES ASSUME NEW w \in Workers, pc'[w] \in Landing
               PROVE  /\ job'[w] = job[w]
                      /\ Exists(row'[TrackOf(w)]) =>
                           /\ view'[w].version <= row'[TrackOf(w)].version
                           /\ view'[w].version = row'[TrackOf(w)].version
                                => row'[TrackOf(w)].attempts = FenceOf(w)
    BY DEF VersionInv, TrackOf, FenceOf
  <2>1. pc[w] \in Landing /\ view'[w] = view[w] /\ pc[w] # "idle"
    BY <1>5 DEF KeepsViews, Landing
  <2> QED
    BY <1>3, <1>4, <2>1
<1>6. CASE LoadsView
  <2>1. PICK w \in Workers :
          /\ FenceMatches(row[TrackOf(w)], FenceOf(w))
          /\ view'[w].version = row[TrackOf(w)].version
          /\ row' = row
          /\ pc[w] # "idle"
          /\ \A v \in Workers \ {w} : pc'[v] = pc[v] /\ view'[v] = view[v]
    BY <1>6 DEF LoadsView
  <2> SUFFICES ASSUME NEW v \in Workers, pc'[v] \in Landing
               PROVE  /\ job'[v] = job[v]
                      /\ Exists(row'[TrackOf(v)]) =>
                           /\ view'[v].version <= row'[TrackOf(v)].version
                           /\ view'[v].version = row'[TrackOf(v)].version
                                => row'[TrackOf(v)].attempts = FenceOf(v)
    BY DEF VersionInv, TrackOf, FenceOf
  <2>2. CASE v = w
    <3>1. row[TrackOf(w)].version \in Nat
      BY <1>2, <1>3, <2>1, <2>2 DEF Row
    <3> QED
      BY <1>3, <2>1, <2>2, <3>1 DEF FenceMatches
  <2>3. CASE v # w
    <3>1. pc[v] \in Landing /\ view'[v] = view[v] /\ pc[v] # "idle"
      BY <2>1, <2>3 DEF Landing
    <3> QED
      BY <1>3, <1>4, <3>1
  <2> QED
    BY <2>2, <2>3
<1> QED
  BY <1>1, <1>5, <1>6 DEF StepShape

OutcomeFromOwner == \A w \in Workers :
  (CommitWrite(w) \/ FailWrite(w)) /\ row' # row
    => FenceMatches(row[TrackOf(w)], FenceOf(w))

LEMMA WriterIsOwner == VersionInv => OutcomeFromOwner
BY DEF VersionInv, Landing, OutcomeFromOwner, CommitWrite, FailWrite, FenceMatches

\* An outcome only lands from the claimant the row's fence names: the check
\* of the fence on load and the compare-and-set of the version suffice.
THEOREM OwnerLandsOutcome == Spec => OutcomeLandsFromOwner
<1> DEFINE Inv == TypeOK /\ FenceInv /\ VersionInv
<1>1. Init => Inv
  BY InitTypeOK DEF Init, FenceInv, VersionInv, Landing
<1>2. Inv /\ [Next]_vars => Inv'
  BY NextTypeOK, FenceInvStep, VersionInvStep
<1>3. Inv => [OutcomeFromOwner]_vars
  BY WriterIsOwner
<1>4. Spec => [][OutcomeFromOwner]_vars
  BY <1>1, <1>2, <1>3, PTL DEF Spec
<1> QED
  BY <1>4 DEF OutcomeFromOwner, OutcomeLandsFromOwner

LapsedOnlyReclaimed == \A t \in Tracks :
  row[t].lease = "lapsed" /\ row'[t].lease = "live"
    => row'[t].attempts > row[t].attempts

\* No statement, heartbeats included, revives a lapsed lease under its fence.
THEOREM LapsedIsLost == Spec => LapsedLeaseStaysLapsed
<1>1. TypeOK /\ [Next]_vars => [LapsedOnlyReclaimed]_vars
  BY StepsHaveShape DEF StepShape, RowMoves, LapsedOnlyReclaimed
<1>2. Spec => [][LapsedOnlyReclaimed]_vars
  BY <1>1, TypeCorrect, PTL DEF Spec
<1> QED
  BY <1>2 DEF LapsedOnlyReclaimed, LapsedLeaseStaysLapsed

-----------------------------------------------------------------------------
(* No accepted request is lost.  A row whose queue columns are empty is    *)
(* leased to nobody, a row leased to nobody has no owner, and an owner     *)
(* that came before the open request finds the track pending: so the       *)
(* owner's settle keeps the job, and every other statement that empties    *)
(* the queue columns or the status lands the answer.                       *)

\* Some worker still has the fence of the row of t.
Owned(t) == \E w \in Workers :
  pc[w] # "idle" /\ TrackOf(w) = t /\ FenceMatches(row[t], FenceOf(w))

\* What row r is worth to a request that the fence o may answer.
KeepsRequest(r, o, owned) ==
  /\ owned => r.lease # "none"
  /\ r.avail = "never" => r.lease = "none"
  /\ owned /\ o > r.attempts => r.status = "pending"
  /\ o <= r.attempts + 1
  /\ o > 0 => UserJobQueued(r)

RequestInv == \A t \in Tracks : KeepsRequest(row[t], owed[t], Owned(t))

LEMMA RequestInvInit == Init => RequestInv
BY DEF Init, RequestInv, KeepsRequest, Owned, AbsentRow

\* An owner after a step that hands out no job was one before it, under the
\* same fence.
LEMMA OwnersRemain ==
  ASSUME TypeOK, TypeOK', FenceInv, StepShape, KeepsJobs,
         NEW t \in Tracks, NEW w \in Workers,
         pc'[w] # "idle", job'[w].track = t, Exists(row'[t]),
         row'[t].attempts = job'[w].fence
  PROVE  /\ pc[w] # "idle" /\ job'[w] = job[w]
         /\ FenceMatches(row[t], FenceOf(w))
         /\ row'[t].attempts = row[t].attempts
<1>1. pc[w] # "idle" /\ job'[w] = job[w] /\ job[w] \in Token
  BY DEF KeepsJobs, TypeOK
<1>2. FenceOf(w) \in Nat /\ TrackOf(w) = t /\ row'[t].attempts = FenceOf(w)
  BY <1>1 DEF Token, TrackOf, FenceOf
<1>3. row[t].attempts \in Nat /\ row'[t].attempts \in Nat
  BY DEF TypeOK, Row
<1>4. /\ row[t].status # "absent"
      /\ Exists(row[t]) => FenceOf(w) <= row[t].attempts
  BY <1>1, <1>2 DEF FenceInv
<1>5. Exists(row[t]) /\ row'[t].attempts >= row[t].attempts
  BY <1>4 DEF StepShape, RowMoves
<1> QED
  BY <1>1, <1>2, <1>3, <1>4, <1>5 DEF FenceMatches

LEMMA OwnedRemains ==
  ASSUME TypeOK, TypeOK', FenceInv, StepShape, KeepsJobs, NEW t \in Tracks, Owned(t)'
  PROVE  Owned(t) /\ row'[t].attempts = row[t].attempts
<1>1. PICK w \in Workers : /\ pc'[w] # "idle" /\ job'[w].track = t
                           /\ Exists(row'[t]) /\ row'[t].attempts = job'[w].fence
  BY DEF Owned, FenceMatches, TrackOf, FenceOf
<1> QED
  BY <1>1, OwnersRemain DEF Owned, TrackOf

\* When the owner is done with its job, the row has no owner left.
LEMMA OwnerLeaves ==
  ASSUME TypeOK, TypeOK', FenceInv, StepShape, KeepsJobs,
         NEW t \in Tracks, NEW w \in Workers,
         pc[w] # "idle", pc'[w] = "idle", TrackOf(w) = t,
         FenceMatches(row[t], FenceOf(w))
  PROVE  ~ Owned(t)'
<1> SUFFICES ASSUME Owned(t)' PROVE FALSE
  OBVIOUS
<1>1. PICK v \in Workers : /\ pc'[v] # "idle" /\ job'[v].track = t
                           /\ Exists(row'[t]) /\ row'[t].attempts = job'[v].fence
  BY DEF Owned, FenceMatches, TrackOf, FenceOf
<1>2. pc[v] # "idle" /\ job'[v] = job[v] /\ FenceMatches(row[t], FenceOf(v))
  BY <1>1, OwnersRemain
<1> QED
  BY <1>1, <1>2 DEF FenceInv, FenceMatches, TrackOf, FenceOf

-----------------------------------------------------------------------------
(* What the statements do to a request, owned or not.                      *)

LEMMA FewerOwners ==
  ASSUME NEW r, NEW o, NEW owned \in BOOLEAN, NEW now \in BOOLEAN,
         KeepsRequest(r, o, owned), now => owned
  PROVE  KeepsRequest(r, o, now)
BY DEF KeepsRequest

\* The enqueue statement: an owner it leaves behind finds the track pending
\* when it is to answer an older request only.
LEMMA EnqueueKeepsRequest ==
  ASSUME NEW r \in Row, NEW o \in Nat, NEW owned \in BOOLEAN,
         NEW now \in BOOLEAN, NEW kind \in Kinds,
         KeepsRequest(r, o, owned), CanEnqueue(r, kind),
         now => owned /\ Enqueued(r, kind, "due").attempts = r.attempts
  PROVE  KeepsRequest(Enqueued(r, kind, "due"),
           IF kind = "upgrade" THEN o ELSE LatestFence(o, AnswerFence(r, kind)), now)
<1> DEFINE q == Enqueued(r, kind, "due")
           n == IF kind = "upgrade" THEN o ELSE LatestFence(o, AnswerFence(r, kind))
<1>1. /\ q.avail = "due" /\ q.kind = kind /\ Exists(r)
      /\ q.status = IF kind \in {"replace", "upgrade"} /\ r.status = "ready"
                    THEN "ready" ELSE "pending"
      /\ q.lease = IF KeepsLease(r, kind) THEN "live" ELSE "none"
      /\ q.attempts = IF BumpsFence(r, kind) THEN r.attempts + 1 ELSE r.attempts
  BY DEF Enqueued, CanEnqueue
<1>2. r.attempts \in Nat /\ q.attempts \in Nat /\ q.attempts >= r.attempts
  BY <1>1 DEF Row
\* A row whose lease is dropped has no owner.
<1>3. now => KeepsLease(r, kind)
  <2> SUFFICES ASSUME now, ~ KeepsLease(r, kind) PROVE FALSE
    OBVIOUS
  <2>1. ~ BumpsFence(r, kind) /\ owned
    BY <1>1, <1>2
  <2>2. r.lease = "live"
    BY <2>1 DEF BumpsFence, KeepsRequest, Row, Leases
  <2>3. r.avail # "never"
    BY <2>2 DEF KeepsRequest
  <2> QED
    BY <2>1, <2>2, <2>3 DEF KeepsLease, BumpsFence
\* The lane of upgrades takes no row that owes an answer.
<1>4. kind = "upgrade" => o = 0
  BY DEF CanEnqueue, KeepsRequest, UserJobQueued
<1>5. AnswerFence(r, kind) \in {r.attempts, q.attempts + 1}
  BY DEF AnswerFence
<1>6. n \in Nat /\ n <= q.attempts + 1
  BY <1>2, <1>4, <1>5 DEF LatestFence, KeepsRequest
<1>7. n > 0 => UserJobQueued(q)
  <2>1. kind # "upgrade" => q.status = "pending" \/ q.kind = "replace"
    BY <1>1 DEF Kinds
  <2>2. Exists(q)
    BY <1>1 DEF Exists, Statuses
  <2> QED
    BY <1>1, <1>4, <2>1, <2>2 DEF UserJobQueued
<1>8. ASSUME now, n > q.attempts
      PROVE  q.status = "pending"
  <2>1. KeepsLease(r, kind) /\ owned /\ q.attempts = r.attempts
    BY <1>3, <1>8
  <2>2. kind # "upgrade"
    BY <1>2, <1>4, <1>8
  <2>3. CASE r.status = "failed"
    BY <1>1, <2>3
  <2>4. CASE r.status # "failed"
    <3>1. n = LatestFence(o, r.attempts)
      BY <2>1, <2>2, <2>4 DEF AnswerFence
    <3>2. o > r.attempts
      BY <1>2, <1>8, <2>1, <3>1 DEF LatestFence
    <3>3. r.status = "pending"
      BY <2>1, <3>2 DEF KeepsRequest
    <3> QED
      BY <1>1, <3>3
  <2> QED
    BY <2>3, <2>4
<1>9. now => q.lease # "none"
  BY <1>1, <1>3
<1> HIDE DEF q, n
<1>10. KeepsRequest(q, n, now)
  BY <1>1, <1>6, <1>7, <1>8, <1>9 DEF KeepsRequest
<1> QED
  BY <1>10 DEF q, n

\* Every other statement.
LEMMA StatementsKeepRequest ==
  ASSUME NEW r \in Row, NEW o \in Nat, NEW owned \in BOOLEAN,
         KeepsRequest(r, o, owned)
  PROVE  /\ Exists(r) /\ r.avail # "never" =>
              KeepsRequest(Leased(r), o, TRUE) /\ KeepsRequest(Leased(r), o, FALSE)
         /\ Exists(r) => KeepsRequest(Written(r, "pending"), o, owned)
         /\ Exists(r) /\ (r.status # "pending" \/ o = 0) =>
              \A s \in Statuses : KeepsRequest(Written(r, s), o, owned)
         /\ \A a \in {"later", "due"} : KeepsRequest(Released(r, a), o, FALSE)
         /\ r.status = "pending" \/ o = 0 => KeepsRequest(Settled(r), o, FALSE)
         /\ r.avail = "later" => KeepsRequest([r EXCEPT !.avail = "due"], o, owned)
         /\ r.avail # "never" => /\ KeepsRequest([r EXCEPT !.lease = "live"], o, owned)
                                 /\ KeepsRequest([r EXCEPT !.lease = "lapsed"], o, owned)
<1> USE DEF Row, Kinds, Statuses, Avails, Leases, KeepsRequest, UserJobQueued, Exists
<1>1. r.attempts \in Nat
  OBVIOUS
<1>2. ASSUME Exists(r), r.avail # "never"
      PROVE  KeepsRequest(Leased(r), o, TRUE) /\ KeepsRequest(Leased(r), o, FALSE)
  BY <1>1, <1>2 DEF Leased
<1>3. ASSUME Exists(r)
      PROVE  KeepsRequest(Written(r, "pending"), o, owned)
  BY <1>1, <1>3 DEF Written
<1>4. ASSUME Exists(r), r.status # "pending" \/ o = 0, NEW s \in Statuses
      PROVE  KeepsRequest(Written(r, s), o, owned)
  BY <1>1, <1>4 DEF Written
<1>5. ASSUME NEW a \in {"later", "due"}
      PROVE  KeepsRequest(Released(r, a), o, FALSE)
  BY <1>1, <1>5 DEF Released
<1>6. ASSUME r.status = "pending" \/ o = 0
      PROVE  KeepsRequest(Settled(r), o, FALSE)
  BY <1>1, <1>6 DEF Settled
<1>7. ASSUME r.avail = "later"
      PROVE  KeepsRequest([r EXCEPT !.avail = "due"], o, owned)
  BY <1>1, <1>7
<1>8. ASSUME r.avail # "never"
      PROVE  /\ KeepsRequest([r EXCEPT !.lease = "live"], o, owned)
             /\ KeepsRequest([r EXCEPT !.lease = "lapsed"], o, owned)
  BY <1>1, <1>8
<1> QED
  BY <1>2, <1>3, <1>4, <1>5, <1>6, <1>7, <1>8

\* The catalog's write, of whatever status, by one who owes nothing more or on
\* a track that is not pending.
LEMMA WriteKeepsRequest ==
  ASSUME NEW r \in Row, NEW o \in Nat, NEW owned \in BOOLEAN, NEW s \in Statuses,
         KeepsRequest(r, o, owned), Exists(r),
         r.status # "pending" \/ o = 0
  PROVE  KeepsRequest(Written(r, s), o, owned)
BY StatementsKeepRequest

LEMMA FreshRowsKeepRequest ==
  KeepsRequest(DeletedRow, 0, FALSE) /\ KeepsRequest(InsertedRow, 1, FALSE)
BY DEF KeepsRequest, UserJobQueued, Exists, Statuses, InsertedRow, DeletedRow, AbsentRow

-----------------------------------------------------------------------------
(* What a step does to the requests.                                       *)

LEMMA RowsUnchanged ==
  ASSUME TypeOK, TypeOK', FenceInv, StepShape, KeepsJobs, RequestInv,
         row' = row, owed' = owed
  PROVE  RequestInv'
<1> SUFFICES ASSUME NEW t \in Tracks
             PROVE  KeepsRequest(row'[t], owed'[t], Owned(t)')
  BY DEF RequestInv
<1>1. Owned(t) \in BOOLEAN /\ Owned(t)' \in BOOLEAN
  BY DEF Owned
<1>2. Owned(t)' => Owned(t)
  BY OwnedRemains
<1>3. KeepsRequest(row[t], owed[t], Owned(t))
  BY DEF RequestInv
<1> HIDE DEF Owned
<1> QED
  BY <1>1, <1>2, <1>3, FewerOwners

\* One statement on the row of t, that owes f from now on.
Changes(t, q, f) == SetRow(t, q) /\ owed' = [owed EXCEPT ![t] = f]

LEMMA OneRowChanges ==
  ASSUME TypeOK, TypeOK', FenceInv, StepShape, KeepsJobs, RequestInv,
         NEW t \in Tracks, NEW q, NEW f, NEW owned \in BOOLEAN,
         Changes(t, q, f), KeepsRequest(q, f, owned), Owned(t)' => owned
  PROVE  RequestInv'
<1> SUFFICES ASSUME NEW u \in Tracks
             PROVE  KeepsRequest(row'[u], owed'[u], Owned(u)')
  BY DEF RequestInv
<1>1. /\ row'[t] = q /\ owed'[t] = f
      /\ u # t => row'[u] = row[u] /\ owed'[u] = owed[u]
  BY DEF Changes, SetRow, TypeOK
<1>2. Owned(u) \in BOOLEAN /\ Owned(u)' \in BOOLEAN
  BY DEF Owned
<1>3. Owned(u)' => Owned(u)
  BY OwnedRemains
<1>4. KeepsRequest(row[u], owed[u], Owned(u))
  BY DEF RequestInv
<1>5. CASE u = t
  BY <1>1, <1>2, <1>5, FewerOwners
<1>6. CASE u # t
  BY <1>1, <1>2, <1>3, <1>4, <1>6, FewerOwners
<1> QED
  BY <1>5, <1>6

\* A claim: the new owner's fence may answer whatever is open, and nobody
\* else is left with the row.
LEMMA HandKeepsRequests ==
  ASSUME TypeOK, FenceInv, RequestInv, HandsOut
  PROVE  RequestInv'
<1>1. PICK w \in Workers, t \in Tracks :
        Exists(row[t]) /\ row[t].avail # "never" /\ Hand(w, t)
  BY DEF HandsOut
<1> SUFFICES ASSUME NEW u \in Tracks
             PROVE  KeepsRequest(row'[u], owed'[u], Owned(u)')
  BY DEF RequestInv
<1>2. Owned(u) \in BOOLEAN /\ Owned(u)' \in BOOLEAN /\ row[u] \in Row /\ owed[u] \in Nat
  BY DEF Owned, TypeOK
<1>3. KeepsRequest(row[u], owed[u], Owned(u)) /\ owed' = owed
  BY <1>1 DEF RequestInv, Hand
<1>4. CASE u = t
  <2>1. row'[u] = Leased(row[u])
    BY <1>1, <1>4 DEF Hand, SetRow, TypeOK
  <2>2. /\ KeepsRequest(Leased(row[u]), owed[u], TRUE)
        /\ KeepsRequest(Leased(row[u]), owed[u], FALSE)
    BY <1>1, <1>2, <1>3, <1>4, StatementsKeepRequest
  <2> QED
    BY <1>2, <1>3, <2>1, <2>2
<1>5. CASE u # t
  <2>1. row'[u] = row[u]
    BY <1>1, <1>5 DEF Hand, SetRow, TypeOK
  <2>2. Owned(u)' => Owned(u)
    BY <1>1, <1>5, <2>1 DEF Hand, Goto, Owned, TypeOK, TrackOf, FenceOf, FenceMatches
  <2> QED
    BY <1>2, <1>3, <2>1, <2>2, FewerOwners
<1> QED
  BY <1>4, <1>5

LEMMA RequestInvStep ==
  ASSUME TypeOK, FenceInv, VersionInv, RequestInv, [Next]_vars
  PROVE  RequestInv'
<1>a. TypeOK' /\ StepShape
  BY NextTypeOK, StepsHaveShape
<1>b. CASE HandsOut
  BY <1>b, HandKeepsRequests
<1>c. CASE KeepsJobs
  <2> USE <1>a, <1>c
  <2>a. ASSUME row' = row, owed' = owed PROVE RequestInv'
    BY <2>a, RowsUnchanged
  <2>b. ASSUME NEW t \in Tracks
        PROVE  /\ row[t] \in Row /\ owed[t] \in Nat /\ Owned(t) \in BOOLEAN
               /\ KeepsRequest(row[t], owed[t], Owned(t))
               /\ KeepsRequest(row[t], 0, Owned(t))
               /\ Owned(t)' => Owned(t) /\ row'[t].attempts = row[t].attempts
               /\ owed = [owed EXCEPT ![t] = owed[t]]
               /\ Owned(t)' \in BOOLEAN
    <3>1. row[t] \in Row /\ owed[t] \in Nat /\ owed = [owed EXCEPT ![t] = owed[t]]
      BY DEF TypeOK
    <3>2. Owned(t) \in BOOLEAN /\ Owned(t)' \in BOOLEAN
      BY DEF Owned
    <3>3. Owned(t)' => Owned(t) /\ row'[t].attempts = row[t].attempts
      BY OwnedRemains
    <3>4. KeepsRequest(row[t], owed[t], Owned(t))
      BY DEF RequestInv
    <3>5. row[t].attempts \in Nat
      BY <3>1 DEF Row
    <3>6. KeepsRequest(row[t], 0, Owned(t))
      BY <3>4, <3>5 DEF KeepsRequest
    <3> QED
      BY <3>1, <3>2, <3>3, <3>4, <3>6
  <2>c. ASSUME NEW w \in Workers, pc[w] # "idle"
        PROVE  TrackOf(w) \in Tracks /\ FenceOf(w) \in Nat
    BY <2>c DEF TypeOK, Token, TrackOf, FenceOf
  <2>d. "ready" \in Statuses /\ "failed" \in Statuses
    BY DEF Statuses
  <2>1. ASSUME NEW c \in Clients, NEW t \in Tracks, AddTrack(c, t) PROVE RequestInv'
    <3>1. Changes(t, InsertedRow, 1)
      BY <2>1 DEF AddTrack, Changes
    <3>2. KeepsRequest(InsertedRow, 1, FALSE)
      BY FreshRowsKeepRequest
    <3>3. ~ Owned(t)
      BY <2>1 DEF AddTrack, AbsentRow, Owned, FenceMatches, Exists, Statuses
    <3> QED
      BY <2>b, <3>1, <3>2, <3>3, OneRowChanges
  <2>2. ASSUME NEW c \in Clients, NEW t \in Tracks, NEW p \in Purposes, ReadTrack(c, t, p) PROVE RequestInv'
    BY <2>2, <2>a DEF ReadTrack
  <2>3. ASSUME NEW c \in Clients, Enqueue(c) PROVE RequestInv'
    <3>1. PICK t \in Tracks, kind \in Kinds : t = req[c].track /\ kind = req[c].want
      BY <2>3 DEF Enqueue, TypeOK, Req, NoReq
    <3> DEFINE q    == Enqueued(row[t], kind, "due")
               f    == IF kind = "upgrade" THEN owed[t]
                       ELSE LatestFence(owed[t], AnswerFence(row[t], kind))
    <3>2. CanEnqueue(row[t], kind) /\ SetRow(t, q)
      BY <2>3, <3>1 DEF Enqueue
    <3>3. owed' = [owed EXCEPT ![t] = f]
      BY <2>3, <2>b, <3>1 DEF Enqueue
    <3>4. Owned(t)' => Owned(t) /\ q.attempts = row[t].attempts
      BY <2>b, <3>1, <3>2 DEF SetRow, TypeOK
    <3>5. KeepsRequest(q, f, Owned(t)')
      BY <2>b, <3>1, <3>2, <3>4, EnqueueKeepsRequest
    <3> HIDE DEF q, f
    <3>6. Changes(t, q, f)
      BY <3>2, <3>3 DEF Changes
    <3> QED
      BY <2>b, <3>1, <3>5, <3>6, OneRowChanges
  <2>4. ASSUME NEW c \in Clients, EnqueueRefused(c) PROVE RequestInv'
    BY <2>4, <2>a DEF EnqueueRefused
  <2>5. ASSUME NEW c \in Clients, MarkFailed(c) PROVE RequestInv'
    <3>1. PICK t \in Tracks : t = req[c].track
      BY <2>5 DEF MarkFailed, TypeOK, Req, NoReq
    <3> DEFINE q == Written(row[t], "failed")
               f == IF row[t].status = "pending" THEN 0 ELSE owed[t]
    <3>2. CASE Exists(row[t]) /\ SetRow(t, q) /\ owed' = [owed EXCEPT ![t] = f]
      <4>1. KeepsRequest(q, f, Owned(t))
        <5>1. /\ row[t] \in Row /\ Owned(t) \in BOOLEAN /\ f \in Nat
              /\ KeepsRequest(row[t], f, Owned(t))
          BY <2>b
        <5>2. row[t].status # "pending" \/ f = 0
          OBVIOUS
        <5> QED
          BY <2>d, <3>2, <5>1, <5>2, WriteKeepsRequest
      <4>2. Changes(t, q, f)
        BY <3>2 DEF Changes
      <4> HIDE DEF q, f
      <4> QED
        BY <2>b, <4>1, <4>2, OneRowChanges
    <3>3. CASE row' = row /\ owed' = owed
      BY <2>a, <3>3
    <3> QED
      BY <2>5, <2>b, <3>1, <3>2, <3>3 DEF MarkFailed
  <2>6. ASSUME NEW t \in Tracks, DeleteTrack(t) PROVE RequestInv'
    <3>1. Changes(t, DeletedRow, 0)
      BY <2>6 DEF DeleteTrack, Changes
    <3>2. KeepsRequest(DeletedRow, 0, FALSE)
      BY FreshRowsKeepRequest
    <3>3. ~ Owned(t)'
      BY <3>1 DEF Changes, SetRow, Owned, FenceMatches, Exists, Statuses, DeletedRow, AbsentRow, TypeOK
    <3> QED
      BY <2>b, <3>1, <3>2, <3>3, OneRowChanges
  <2>7. ASSUME NEW t \in Tracks, BecomesDue(t) PROVE RequestInv'
    <3>1. Changes(t, [row[t] EXCEPT !.avail = "due"], owed[t]) /\ row[t].avail = "later"
      BY <2>7, <2>b DEF BecomesDue, Changes
    <3>2. KeepsRequest([row[t] EXCEPT !.avail = "due"], owed[t], Owned(t))
      BY <2>b, <3>1, StatementsKeepRequest
    <3> QED
      BY <2>b, <3>1, <3>2, OneRowChanges
  <2>8. ASSUME NEW t \in Tracks, LeaseLapses(t) PROVE RequestInv'
    <3>1. Changes(t, [row[t] EXCEPT !.lease = "lapsed"], owed[t]) /\ row[t].lease = "live"
      BY <2>8, <2>b DEF LeaseLapses, Changes
    <3>2. row[t].avail # "never"
      BY <2>b, <3>1 DEF KeepsRequest
    <3>3. KeepsRequest([row[t] EXCEPT !.lease = "lapsed"], owed[t], Owned(t))
      BY <2>b, <3>2, StatementsKeepRequest
    <3> QED
      BY <2>b, <3>1, <3>3, OneRowChanges
  <2>9. ASSUME NEW w \in Workers, Claim(w) PROVE RequestInv'
    BY <2>9, HandKeepsRequests DEF Claim, HandsOut, ClaimableUserJob, UserJobQueued
  <2>10. ASSUME NEW w \in Workers, ClaimUpgrade(w) PROVE RequestInv'
    BY <2>10, HandKeepsRequests DEF ClaimUpgrade, HandsOut, ClaimableUpgrade
  <2>11. ASSUME NEW w \in Workers, LoadTrack(w) PROVE RequestInv'
    BY <2>11, <2>a DEF LoadTrack
  <2>12. ASSUME NEW w \in Workers, RevertToPending(w) PROVE RequestInv'
    <3>1. PICK t \in Tracks : t = TrackOf(w)
      BY <2>12, <2>c DEF RevertToPending
    <3>2. CASE Exists(row[t]) /\ SetRow(t, Written(row[t], "pending"))
      <4>1. KeepsRequest(Written(row[t], "pending"), owed[t], Owned(t))
        <5>1. /\ row[t] \in Row /\ owed[t] \in Nat /\ Owned(t) \in BOOLEAN
              /\ KeepsRequest(row[t], owed[t], Owned(t))
          BY <2>b
        <5> QED
          BY <3>2, <5>1, StatementsKeepRequest
      <4>2. Changes(t, Written(row[t], "pending"), owed[t])
        BY <2>12, <2>b, <3>1, <3>2 DEF RevertToPending, Changes
      <4> QED
        BY <2>b, <3>1, <4>1, <4>2, OneRowChanges
    <3> QED
      BY <2>12, <3>1, <2>a, <3>2 DEF RevertToPending
  <2>13. ASSUME NEW w \in Workers, VerifyLease(w) PROVE RequestInv'
    BY <2>13, <2>a DEF VerifyLease
  <2>14. ASSUME NEW w \in Workers, CommitLoad(w) PROVE RequestInv'
    BY <2>14, <2>a DEF CommitLoad
  <2>15. ASSUME NEW w \in Workers, CommitWrite(w) PROVE RequestInv'
    <3>1. PICK t \in Tracks : t = TrackOf(w)
      BY <2>15, <2>c DEF CommitWrite
    <3>2. CASE Exists(row[t]) /\ row[t].version = view[w].version
      <4>1. FenceMatches(row[t], FenceOf(w))
        BY <2>15, <3>1, <3>2 DEF CommitWrite, VersionInv, Landing, FenceMatches
      <4>2. Changes(t, Written(row[t], "ready"), 0)
        BY <2>15, <3>1, <3>2, <4>1 DEF CommitWrite, Landed, Changes
      <4>3. KeepsRequest(Written(row[t], "ready"), 0, Owned(t))
        <5>1. /\ row[t] \in Row /\ Owned(t) \in BOOLEAN
              /\ KeepsRequest(row[t], 0, Owned(t)) /\ 0 \in Nat
          BY <2>b, <3>1
        <5> QED
          BY <2>d, <3>2, <5>1, WriteKeepsRequest
      <4> QED
        BY <2>b, <3>1, <4>2, <4>3, OneRowChanges
    <3>3. CASE ~ (Exists(row[t]) /\ row[t].version = view[w].version)
      BY <2>15, <3>1, <2>a, <3>3 DEF CommitWrite
    <3> QED
      BY <3>2, <3>3
  <2>16. ASSUME NEW w \in Workers, RunFails(w) PROVE RequestInv'
    BY <2>16, <2>a DEF RunFails
  <2>17. ASSUME NEW w \in Workers, RunRetries(w) PROVE RequestInv'
    BY <2>17, <2>a DEF RunRetries
  <2>18. ASSUME NEW w \in Workers, RunPanics(w) PROVE RequestInv'
    BY <2>18, <2>a DEF RunPanics
  <2>19. ASSUME NEW w \in Workers, FailLoad(w) PROVE RequestInv'
    BY <2>19, <2>a DEF FailLoad
  <2>20. ASSUME NEW w \in Workers, FailWrite(w) PROVE RequestInv'
    <3>1. PICK t \in Tracks : t = TrackOf(w)
      BY <2>20, <2>c DEF FailWrite
    <3>2. CASE ~ (row' = row /\ owed' = owed)
      <4>0. /\ Exists(row[t]) /\ row[t].version = view[w].version
            /\ SetRow(t, Written(row[t], "failed")) /\ Landed(t, FenceOf(w))
        BY <2>20, <3>1, <3>2 DEF FailWrite
      <4>1. FenceMatches(row[t], FenceOf(w))
        BY <2>20, <3>1, <4>0 DEF FailWrite, VersionInv, Landing, FenceMatches
      <4>2. Changes(t, Written(row[t], "failed"), 0)
        BY <4>0, <4>1 DEF Landed, Changes
      <4>3. KeepsRequest(Written(row[t], "failed"), 0, Owned(t))
        <5>1. /\ row[t] \in Row /\ Owned(t) \in BOOLEAN
              /\ KeepsRequest(row[t], 0, Owned(t)) /\ 0 \in Nat
          BY <2>b, <3>1
        <5> QED
          BY <2>d, <4>0, <5>1, WriteKeepsRequest
      <4> QED
        BY <2>b, <3>1, <4>2, <4>3, OneRowChanges
    <3>3. CASE row' = row /\ owed' = owed
      BY <2>20, <2>a, <3>3 DEF FailWrite
    <3> QED
      BY <3>2, <3>3
  <2>21. ASSUME NEW w \in Workers, Cancelled(w) PROVE RequestInv'
    BY <2>21, <2>a DEF Cancelled
  <2>22. ASSUME NEW w \in Workers, RefuseQueued(w) PROVE RequestInv'
    BY <2>22, <2>a DEF RefuseQueued
  <2>23. ASSUME NEW w \in Workers, Settle(w) PROVE RequestInv'
    <3>1. PICK t \in Tracks : t = TrackOf(w) /\ FenceOf(w) \in Nat
      BY <2>23, <2>c DEF Settle
    <3>2. CASE FenceMatches(row[t], FenceOf(w))
      <4>1. ~ Owned(t)' /\ Owned(t) /\ SetRow(t, Settled(row[t]))
        BY <2>23, <3>1, <3>2, OwnerLeaves DEF Settle, GoIdle, Goto, Owned, TypeOK
      <4>2. CASE row[t].status = "pending"
        <5>1. Changes(t, Settled(row[t]), owed[t])
          BY <2>23, <2>b, <3>1, <4>1, <4>2 DEF Settle, Changes
        <5>2. KeepsRequest(Settled(row[t]), owed[t], FALSE)
          BY <2>b, <3>1, <4>2, StatementsKeepRequest
        <5> QED
          BY <2>b, <3>1, <4>1, <5>1, <5>2, OneRowChanges
      <4>3. CASE row[t].status # "pending"
        <5>1. row[t].attempts = FenceOf(w) /\ ~ (owed[t] > row[t].attempts)
          BY <2>b, <3>1, <3>2, <4>1, <4>3 DEF FenceMatches, KeepsRequest
        <5>2. FenceOf(w) >= owed[t]
          BY <2>b, <3>1, <5>1
        <5>3. Changes(t, Settled(row[t]), 0)
          BY <2>23, <3>1, <3>2, <4>1, <4>3, <5>2 DEF Settle, LeftQueue, Changes
        <5>4. KeepsRequest(Settled(row[t]), 0, FALSE)
          BY <2>b, <3>1, StatementsKeepRequest
        <5> QED
          BY <2>b, <3>1, <4>1, <5>3, <5>4, OneRowChanges
      <4> QED
        BY <4>2, <4>3
    <3>3. CASE ~ FenceMatches(row[t], FenceOf(w))
      BY <2>23, <3>1, <2>a, <3>3 DEF Settle
    <3> QED
      BY <3>2, <3>3
  <2>24. ASSUME NEW w \in Workers, Release(w) PROVE RequestInv'
    <3>1. PICK t \in Tracks : t = TrackOf(w)
      BY <2>24, <2>c DEF Release
    <3>2. CASE FenceMatches(row[t], FenceOf(w))
      <4>1. ~ Owned(t)'
        BY <2>24, <3>1, <3>2, OwnerLeaves DEF Release, GoIdle, Goto, TypeOK
      <4>2. Changes(t, Released(row[t], "later"), owed[t])
        BY <2>24, <2>b, <3>1, <3>2 DEF Release, Changes
      <4>3. KeepsRequest(Released(row[t], "later"), owed[t], FALSE)
        BY <2>b, <3>1, StatementsKeepRequest
      <4> QED
        BY <2>b, <3>1, <4>1, <4>2, <4>3, OneRowChanges
    <3>3. CASE ~ FenceMatches(row[t], FenceOf(w))
      BY <2>24, <3>1, <2>a, <3>3 DEF Release
    <3> QED
      BY <3>2, <3>3
  <2>25. ASSUME NEW w \in Workers, Heartbeat(w) PROVE RequestInv'
    <3>1. PICK t \in Tracks : t = TrackOf(w) /\ row[t].avail # "never"
      BY <2>25, <2>c DEF Heartbeat, HeartbeatRuns, HoldsLease
    <3>2. Changes(t, [row[t] EXCEPT !.lease = "live"], owed[t])
      BY <2>25, <2>b, <3>1 DEF Heartbeat, Changes
    <3>3. KeepsRequest([row[t] EXCEPT !.lease = "live"], owed[t], Owned(t))
      <4>1. /\ row[t] \in Row /\ owed[t] \in Nat /\ Owned(t) \in BOOLEAN
            /\ KeepsRequest(row[t], owed[t], Owned(t)) /\ row[t].avail # "never"
        BY <2>b, <3>1
      <4> QED
        BY <4>1, StatementsKeepRequest
    <3> QED
      BY <2>b, <3>1, <3>2, <3>3, OneRowChanges
  <2>26. ASSUME NEW w \in Workers, ShutdownRelease(w) PROVE RequestInv'
    <3>1. PICK t \in Tracks : t = TrackOf(w)
      BY <2>26, <2>c DEF ShutdownRelease
    <3>2. CASE FenceMatches(row[t], FenceOf(w))
      <4>1. ~ Owned(t)'
        BY <2>26, <3>1, <3>2, OwnerLeaves DEF ShutdownRelease, GoIdle, Goto, TypeOK
      <4>2. Changes(t, Released(row[t], "due"), owed[t])
        BY <2>26, <2>b, <3>1, <3>2 DEF ShutdownRelease, Changes
      <4>3. KeepsRequest(Released(row[t], "due"), owed[t], FALSE)
        BY <2>b, <3>1, StatementsKeepRequest
      <4> QED
        BY <2>b, <3>1, <4>1, <4>2, <4>3, OneRowChanges
    <3>3. CASE ~ FenceMatches(row[t], FenceOf(w))
      BY <2>26, <3>1, <2>a, <3>3 DEF ShutdownRelease
    <3> QED
      BY <3>2, <3>3
  <2>27. ASSUME NEW w \in Workers, Crash(w) PROVE RequestInv'
    BY <2>27, <2>a DEF Crash
  <2>28. CASE UNCHANGED vars
    BY <2>28, <2>a DEF vars
  <2> QED
    BY <2>1, <2>2, <2>3, <2>4, <2>5, <2>6, <2>7, <2>8, <2>9, <2>10, <2>11, <2>12, <2>13, <2>14, <2>15, <2>16, <2>17, <2>18, <2>19, <2>20, <2>21, <2>22, <2>23, <2>24, <2>25, <2>26, <2>27, <2>28
       DEF Next, Request, Time, Work, Interrupt
<1> QED
  BY <1>a, <1>b, <1>c DEF StepShape

LEMMA RequestsQueued == RequestInv => AcceptedRequestStaysQueued
BY DEF RequestInv, KeepsRequest, AcceptedRequestStaysQueued

\* An accepted add, retry or replace stays claimable by the user lane until a
\* claim that could see it has landed an outcome.
THEOREM RequestsStayQueued == Spec => []AcceptedRequestStaysQueued
<1> DEFINE Inv == TypeOK /\ FenceInv /\ VersionInv /\ RequestInv
<1>1. Init => Inv
  BY InitTypeOK, RequestInvInit DEF Init, FenceInv, VersionInv, Landing
<1>2. Inv /\ [Next]_vars => Inv'
  BY NextTypeOK, FenceInvStep, VersionInvStep, RequestInvStep
<1> QED
  BY <1>1, <1>2, RequestsQueued, PTL DEF Spec

-----------------------------------------------------------------------------
(* What strands a track.  An owner finds its row as it was handed to it: in *)
(* the queue and of the job's kind, and, as long as no worker outlives its  *)
(* lease, with a live lease that nobody but an upgrade can lose.            *)

\* A track that is shown as pending has a job that the user lane may claim.
StaysQueued(r) == r.status = "pending" => r.avail # "never" /\ r.kind # "upgrade"

\* What anybody may do to a row at any time.
Statement(r, q) ==
  \/ q = r
  \/ r = AbsentRow /\ q = InsertedRow
  \/ q = DeletedRow
  \/ \E kind \in Kinds : CanEnqueue(r, kind) /\ q = Enqueued(r, kind, "due")
  \/ r.lease # "live" /\ q = Leased(r)
  \/ Exists(r) /\ \E s \in {"ready", "failed"} : q = Written(r, s)
  \/ r.avail = "later" /\ q = [r EXCEPT !.avail = "due"]
  \/ q = [r EXCEPT !.lease = "live"]

\* The lease lapses, under its holder if that is stalled.
Lapses(t) ==
  /\ row'[t] = [row[t] EXCEPT !.lease = "lapsed"]
  /\ row[t].lease = "live"
  /\ MayStall \/ \A w \in Workers : TrackOf(w) = t => ~ Holds(w)

Reverts(t, w) ==
  /\ RevertToPending(w) /\ TrackOf(w) = t /\ pc[w] = "reverting"
  /\ Exists(row[t]) /\ row'[t] = Written(row[t], "pending")

\* The owner is done with its job.
Ends(t, w) ==
  /\ pc[w] # "idle" /\ pc'[w] = "idle" /\ TrackOf(w) = t
  /\ FenceMatches(row[t], FenceOf(w))
  /\ row'[t] \in {Settled(row[t]), Released(row[t], "later"), Released(row[t], "due")}

RowChange(t) ==
  \/ Statement(row[t], row'[t])
  \/ Lapses(t)
  \/ \E w \in Workers : Reverts(t, w) \/ Ends(t, w)

\* Every step changes a row in one of these ways.
LEMMA RowsChange ==
  ASSUME TypeOK, [Next]_vars, NEW u \in Tracks
  PROVE  RowChange(u)
<1> USE DEF TypeOK
<1>0. row' = row => RowChange(u)
  BY DEF RowChange, Statement
\* A statement on the row of t leaves the others as they are.
<1>a. ASSUME NEW t \in Tracks, NEW q, SetRow(t, q), t = u => RowChange(u)
      PROVE  RowChange(u)
  <2>1. t # u => row'[u] = row[u]
    BY <1>a DEF SetRow
  <2> QED
    BY <1>a, <2>1 DEF RowChange, Statement
<1>b. ASSUME NEW t \in Tracks, NEW q, SetRow(t, q), Statement(row[t], q)
      PROVE  RowChange(u)
  <2>1. row'[t] = q
    BY <1>b DEF SetRow
  <2> QED
    BY <1>a, <1>b, <2>1 DEF RowChange
<1>c. ASSUME NEW w \in Workers, pc[w] # "idle" PROVE TrackOf(w) \in Tracks
  BY <1>c DEF Token, TrackOf
<1>1. ASSUME NEW c \in Clients, NEW t \in Tracks, AddTrack(c, t) PROVE RowChange(u)
  BY <1>1, <1>b DEF AddTrack, Statement
<1>2. ASSUME NEW c \in Clients, NEW t \in Tracks, NEW p \in Purposes, ReadTrack(c, t, p) PROVE RowChange(u)
  BY <1>2, <1>0 DEF ReadTrack
<1>3. ASSUME NEW c \in Clients, Enqueue(c) PROVE RowChange(u)
  <2>1. PICK t \in Tracks, kind \in Kinds : t = req[c].track /\ kind = req[c].want
    BY <1>3 DEF Enqueue, Req, NoReq
  <2>2. CanEnqueue(row[t], kind) /\ SetRow(t, Enqueued(row[t], kind, "due"))
    BY <1>3, <2>1 DEF Enqueue
  <2> QED
    BY <1>b, <2>2 DEF Statement
<1>4. ASSUME NEW c \in Clients, EnqueueRefused(c) PROVE RowChange(u)
  BY <1>4, <1>0 DEF EnqueueRefused
<1>5. ASSUME NEW c \in Clients, MarkFailed(c) PROVE RowChange(u)
  <2>1. PICK t \in Tracks : t = req[c].track
    BY <1>5 DEF MarkFailed, Req, NoReq
  <2> QED
    BY <1>5, <1>0, <1>b, <2>1 DEF MarkFailed, Statement
<1>6. ASSUME NEW t \in Tracks, DeleteTrack(t) PROVE RowChange(u)
  BY <1>6, <1>b DEF DeleteTrack, Statement
<1>7. ASSUME NEW t \in Tracks, BecomesDue(t) PROVE RowChange(u)
  BY <1>7, <1>b DEF BecomesDue, Statement
<1>8. ASSUME NEW t \in Tracks, LeaseLapses(t) PROVE RowChange(u)
  <2>1. row'[t] = [row[t] EXCEPT !.lease = "lapsed"] /\ row[t].lease = "live"
    BY <1>8 DEF LeaseLapses, SetRow
  <2>2. MayStall \/ \A w \in Workers : TrackOf(w) = t => ~ Holds(w)
    BY <1>8 DEF LeaseLapses
  <2>3. RowChange(t)
    BY <2>1, <2>2 DEF RowChange, Lapses
  <2> QED
    BY <1>8, <1>a, <2>3 DEF LeaseLapses
<1>9. ASSUME NEW w \in Workers, Claim(w) PROVE RowChange(u)
  BY <1>9, <1>b DEF Claim, ClaimableUserJob, Hand, Statement
<1>10. ASSUME NEW w \in Workers, ClaimUpgrade(w) PROVE RowChange(u)
  BY <1>10, <1>b DEF ClaimUpgrade, ClaimableUpgrade, Hand, Statement
<1>11. ASSUME NEW w \in Workers, LoadTrack(w) PROVE RowChange(u)
  BY <1>11, <1>0 DEF LoadTrack
<1>12. ASSUME NEW w \in Workers, RevertToPending(w) PROVE RowChange(u)
  <2>1. PICK t \in Tracks : t = TrackOf(w)
    BY <1>12, <1>c DEF RevertToPending
  <2>2. CASE Exists(row[t]) /\ SetRow(t, Written(row[t], "pending"))
    <3>1. Reverts(t, w)
      BY <1>12, <2>1, <2>2 DEF RevertToPending, SetRow, Reverts
    <3> QED
      BY <1>a, <2>2, <3>1 DEF RowChange
  <2> QED
    BY <1>12, <1>0, <2>1, <2>2 DEF RevertToPending
<1>13. ASSUME NEW w \in Workers, VerifyLease(w) PROVE RowChange(u)
  BY <1>13, <1>0 DEF VerifyLease
<1>14. ASSUME NEW w \in Workers, CommitLoad(w) PROVE RowChange(u)
  BY <1>14, <1>0 DEF CommitLoad
<1>15. ASSUME NEW w \in Workers, CommitWrite(w) PROVE RowChange(u)
  BY <1>15, <1>0, <1>b, <1>c DEF CommitWrite, Statement
<1>16. ASSUME NEW w \in Workers, RunFails(w) PROVE RowChange(u)
  BY <1>16, <1>0 DEF RunFails
<1>17. ASSUME NEW w \in Workers, RunRetries(w) PROVE RowChange(u)
  BY <1>17, <1>0 DEF RunRetries
<1>18. ASSUME NEW w \in Workers, RunPanics(w) PROVE RowChange(u)
  BY <1>18, <1>0 DEF RunPanics
<1>19. ASSUME NEW w \in Workers, FailLoad(w) PROVE RowChange(u)
  BY <1>19, <1>0 DEF FailLoad
<1>20. ASSUME NEW w \in Workers, FailWrite(w) PROVE RowChange(u)
  BY <1>20, <1>0, <1>b, <1>c DEF FailWrite, Statement
<1>21. ASSUME NEW w \in Workers, Cancelled(w) PROVE RowChange(u)
  BY <1>21, <1>0 DEF Cancelled
<1>22. ASSUME NEW w \in Workers, RefuseQueued(w) PROVE RowChange(u)
  BY <1>22, <1>0 DEF RefuseQueued
\* The statements that end a job are the owner's, or they do nothing.
<1>d. ASSUME NEW w \in Workers, pc[w] # "idle", GoIdle(w), NEW q,
             q \in {Settled(row[TrackOf(w)]), Released(row[TrackOf(w)], "later"),
                    Released(row[TrackOf(w)], "due")},
             IF FenceMatches(row[TrackOf(w)], FenceOf(w))
             THEN SetRow(TrackOf(w), q) ELSE UNCHANGED row
      PROVE  RowChange(u)
  <2>1. PICK t \in Tracks : t = TrackOf(w)
    BY <1>c, <1>d
  <2>2. CASE FenceMatches(row[t], FenceOf(w))
    <3>1. SetRow(t, q) /\ row'[t] = q
      BY <1>d, <2>1, <2>2 DEF SetRow
    <3>2. pc'[w] = "idle"
      BY <1>d DEF GoIdle, Goto
    <3>3. Ends(t, w)
      BY <1>d, <2>1, <2>2, <3>1, <3>2 DEF Ends
    <3> QED
      BY <1>a, <3>1, <3>3 DEF RowChange
  <2> QED
    BY <1>0, <1>d, <2>1, <2>2
<1>23. ASSUME NEW w \in Workers, Settle(w) PROVE RowChange(u)
  BY <1>23, <1>d DEF Settle
<1>24. ASSUME NEW w \in Workers, Release(w) PROVE RowChange(u)
  BY <1>24, <1>d DEF Release
<1>25. ASSUME NEW w \in Workers, Heartbeat(w) PROVE RowChange(u)
  BY <1>25, <1>b, <1>c DEF Heartbeat, HeartbeatRuns, Statement
<1>26. ASSUME NEW w \in Workers, ShutdownRelease(w) PROVE RowChange(u)
  BY <1>26, <1>d DEF ShutdownRelease
<1>27. ASSUME NEW w \in Workers, Crash(w) PROVE RowChange(u)
  BY <1>27, <1>0 DEF Crash
<1>28. CASE UNCHANGED vars
  BY <1>28, <1>0 DEF vars
<1> QED
  BY <1>1, <1>2, <1>3, <1>4, <1>5, <1>6, <1>7, <1>8, <1>9, <1>10, <1>11, <1>12, <1>13, <1>14, <1>15, <1>16, <1>17, <1>18, <1>19, <1>20, <1>21, <1>22, <1>23, <1>24, <1>25, <1>26, <1>27, <1>28
     DEF Next, Request, Time, Work, Interrupt

\* No statement strands a track, and a revert does not if the job is there.
LEMMA StatementsKeepQueued ==
  ASSUME NEW r \in Row, StaysQueued(r)
  PROVE  /\ \A q : Statement(r, q) => StaysQueued(q)
         /\ StaysQueued(Settled(r))
         /\ \A a \in {"later", "due"} : StaysQueued(Released(r, a))
         /\ \A l \in Leases : StaysQueued([r EXCEPT !.lease = l])
         /\ r.avail # "never" /\ r.kind # "upgrade" => StaysQueued(Written(r, "pending"))
<1> USE DEF Row, StaysQueued
<1>1. ASSUME NEW q, Statement(r, q) PROVE StaysQueued(q)
  <2>1. ASSUME NEW kind \in Kinds, CanEnqueue(r, kind)
        PROVE  StaysQueued(Enqueued(r, kind, "due"))
    BY <2>1 DEF CanEnqueue, Enqueued, Kinds
  <2>2. StaysQueued(InsertedRow) /\ StaysQueued(DeletedRow)
    BY DEF InsertedRow, DeletedRow, AbsentRow
  <2>3. StaysQueued(Leased(r))
    BY DEF Leased
  <2>4. \A s \in {"ready", "failed"} : StaysQueued(Written(r, s))
    BY DEF Written
  <2>5. StaysQueued([r EXCEPT !.avail = "due"]) /\ StaysQueued([r EXCEPT !.lease = "live"])
    OBVIOUS
  <2> HIDE DEF StaysQueued
  <2> QED
    BY <1>1, <2>1, <2>2, <2>3, <2>4, <2>5 DEF Statement
<1>2. StaysQueued(Settled(r))
  BY DEF Settled
<1>3. \A a \in {"later", "due"} : StaysQueued(Released(r, a))
  BY DEF Released
<1>4. \A l \in Leases : StaysQueued([r EXCEPT !.lease = l])
  OBVIOUS
<1>5. r.avail # "never" /\ r.kind # "upgrade" => StaysQueued(Written(r, "pending"))
  BY DEF Written
<1> QED
  BY <1>1, <1>2, <1>3, <1>4, <1>5

\* What an owner knows of its row.
KnowsRow(r, kind) ==
  /\ r.kind = kind
  /\ MayStall \/ r.lease = "live"

OwnerInv == \A w \in Workers :
  /\ pc[w] # "idle" /\ FenceMatches(row[TrackOf(w)], FenceOf(w))
       => KnowsRow(row[TrackOf(w)], job[w].kind)
  /\ pc[w] = "reverting" => job[w].kind = "acquire"

\* Only a worker that loads a track starts to revert it.
LEMMA WhoReverts ==
  ASSUME TypeOK, [Next]_vars, NEW w \in Workers, pc'[w] = "reverting"
  PROVE  /\ pc[w] # "idle" /\ job'[w] = job[w]
         /\ pc[w] = "reverting" \/ job[w].kind = "acquire"
<1> USE DEF TypeOK, Goto, EndRun, FailTo, GoIdle
<1>1. ASSUME Request \/ Time \/ UNCHANGED vars
      PROVE  pc' = pc /\ job' = job
  BY <1>1 DEF Request, Time, AddTrack, ReadTrack, Enqueue, EnqueueRefused, MarkFailed,
              DeleteTrack, BecomesDue, LeaseLapses, vars
<1>2. ASSUME NEW v \in Workers, Claim(v) \/ ClaimUpgrade(v)
      PROVE  pc'[w] = "claimed" \/ (pc'[w] = pc[w] /\ job'[w] = job[w])
  BY <1>2 DEF Claim, ClaimUpgrade, Hand
<1>3. ASSUME NEW v \in Workers, LoadTrack(v)
      PROVE  /\ job' = job
             /\ pc'[w] = pc[w] \/ pc[w] = "claimed"
             /\ pc'[w] = "reverting" => pc'[w] = pc[w] \/ job[w].kind = "acquire"
  BY <1>3 DEF LoadTrack, LoadVerdict, Unrecorded
<1>4. ASSUME NEW v \in Workers, Work(v) \/ Interrupt(v),
             ~ (Claim(v) \/ ClaimUpgrade(v) \/ LoadTrack(v))
      PROVE  pc'[w] # "reverting" \/ (pc'[w] = pc[w] /\ job'[w] = job[w])
  BY <1>4 DEF Work, Interrupt, RevertToPending, VerifyLease, CommitLoad, CommitWrite,
              RunFails, RunRetries, RunPanics, FailLoad, FailWrite, Unrecorded, Cancelled,
              RefuseQueued, Settle, Release, Heartbeat, ShutdownRelease, Crash
<1>5. pc'[w] = pc[w] /\ job'[w] = job[w] => pc[w] # "idle" /\ pc[w] = "reverting"
  OBVIOUS
<1>6. CASE Request \/ Time \/ UNCHANGED vars
  BY <1>1, <1>5, <1>6
<1>7. CASE \E v \in Workers : Work(v) \/ Interrupt(v)
  <2>1. PICK v \in Workers : Work(v) \/ Interrupt(v)
    BY <1>7
  <2>2. CASE Claim(v) \/ ClaimUpgrade(v)
    BY <1>2, <1>5, <2>2
  <2>3. CASE LoadTrack(v)
    BY <1>3, <2>3
  <2> QED
    BY <1>4, <1>5, <2>1, <2>2, <2>3
<1> QED
  BY <1>6, <1>7 DEF Next

\* What does not take a row from its owner leaves it as the owner knows it.
LEMMA StatementsKeepOwner ==
  ASSUME NEW r \in Row, NEW o \in Nat, NEW kind \in Kinds, NEW q,
         KeepsRequest(r, o, TRUE), KnowsRow(r, kind),
         Statement(r, q), Exists(q), q.attempts = r.attempts
  PROVE  KnowsRow(q, kind)
<1>1. r.attempts \in Nat /\ r.lease \in {"live", "lapsed"} /\ r.avail # "never"
  BY DEF Row, Leases, KeepsRequest
<1>2. ASSUME NEW k \in Kinds, CanEnqueue(r, k), q = Enqueued(r, k, "due")
      PROVE  KnowsRow(q, kind)
  <2>1. ~ BumpsFence(r, k)
    BY <1>1, <1>2 DEF Enqueued
  <2>2. ~ Preempts(r, k) /\ r.lease = "live"
    BY <1>1, <2>1 DEF BumpsFence
  <2>3. r.kind = k /\ KeepsLease(r, k)
    BY <1>1, <1>2, <2>2 DEF CanEnqueue, KeepsLease
  <2> QED
    BY <1>2, <2>3 DEF Enqueued, KnowsRow
<1>3. q # Leased(r)
  <2>1. Leased(r).attempts = r.attempts + 1
    BY DEF Leased, Row
  <2> QED
    BY <1>1, <2>1
<1>4. r # AbsentRow
  BY <1>1 DEF AbsentRow
<1>5. q # DeletedRow
  BY DEF DeletedRow, AbsentRow, Exists, Statuses
<1>6. ASSUME NEW s \in {"ready", "failed"}, q = Written(r, s)
      PROVE  KnowsRow(q, kind)
  BY <1>6 DEF Written, KnowsRow, Row
<1>7. ASSUME q = [r EXCEPT !.avail = "due"] \/ q = [r EXCEPT !.lease = "live"]
      PROVE  KnowsRow(q, kind)
  BY <1>7 DEF KnowsRow, Row
<1> QED
  BY <1>2, <1>3, <1>4, <1>5, <1>6, <1>7 DEF Statement

LEMMA OwnerInvStep ==
  ASSUME TypeOK, FenceInv, RequestInv, OwnerInv, [Next]_vars
  PROVE  OwnerInv'
<1>1. TypeOK' /\ StepShape
  BY NextTypeOK, StepsHaveShape
<1>2. ASSUME NEW w \in Workers, pc'[w] = "reverting" PROVE job'[w].kind = "acquire"
  BY <1>2, WhoReverts DEF OwnerInv
<1> SUFFICES ASSUME NEW w \in Workers, pc'[w] # "idle",
                    FenceMatches(row'[TrackOf(w)'], FenceOf(w)')
             PROVE  KnowsRow(row'[TrackOf(w)'], job'[w].kind)
  BY <1>2 DEF OwnerInv, KnowsRow, FenceMatches, Exists, TrackOf, FenceOf
<1>3. PICK t \in Tracks : t = job'[w].track
  BY <1>1 DEF TypeOK, Token
<1>4. Exists(row'[t]) /\ row'[t].attempts = job'[w].fence /\ TrackOf(w)' = t
  BY <1>3 DEF FenceMatches, TrackOf, FenceOf
<1>5. row[t] \in Row /\ row'[t] \in Row /\ owed[t] \in Nat
  BY <1>1 DEF TypeOK
\* An owner that was one before the step.
<1>a. ASSUME pc[w] # "idle", job'[w] = job[w], FenceMatches(row[t], FenceOf(w))
      PROVE  /\ KeepsRequest(row[t], owed[t], TRUE) /\ KnowsRow(row[t], job[w].kind)
             /\ TrackOf(w) = t /\ job[w].kind \in Kinds
             /\ row[t].avail # "never"
  <2>1. TrackOf(w) = t /\ job[w].kind \in Kinds
    BY <1>3, <1>a DEF TypeOK, Token, TrackOf
  <2>2. Owned(t)
    BY <1>a, <2>1 DEF Owned
  <2>3. KeepsRequest(row[t], owed[t], TRUE)
    BY <2>2 DEF RequestInv
  <2>4. KnowsRow(row[t], job[w].kind)
    BY <1>a, <2>1 DEF OwnerInv
  <2> QED
    BY <2>1, <2>3, <2>4 DEF KeepsRequest
<1>6. CASE KeepsJobs
  <2>1. /\ pc[w] # "idle" /\ job'[w] = job[w]
        /\ FenceMatches(row[t], FenceOf(w))
        /\ row'[t].attempts = row[t].attempts
    BY <1>1, <1>3, <1>4, <1>6, OwnersRemain
  <2>2. /\ KeepsRequest(row[t], owed[t], TRUE) /\ KnowsRow(row[t], job[w].kind)
        /\ TrackOf(w) = t /\ job[w].kind \in Kinds /\ row[t].avail # "never"
    BY <1>a, <2>1
  <2>3. CASE Statement(row[t], row'[t])
    BY <1>4, <1>5, <2>1, <2>2, <2>3, StatementsKeepOwner
  <2>4. CASE Lapses(t)
    <3>1. Holds(w)
      BY <2>1, <2>2, <2>4 DEF Lapses, Holds, HoldsLease
    <3> QED
      BY <1>4, <1>5, <2>1, <2>2, <2>4, <3>1 DEF Lapses, KnowsRow, Row
  <2>5. ASSUME NEW v \in Workers, Reverts(t, v) PROVE KnowsRow(row'[t], job[w].kind)
    BY <1>5, <2>2, <2>5 DEF Reverts, Written, KnowsRow, Row
  <2>6. ASSUME NEW v \in Workers, Ends(t, v) PROVE FALSE
    <3>1. FenceOf(v) = FenceOf(w) /\ TrackOf(v) = TrackOf(w) /\ pc[v] # "idle" /\ v # w
      BY <2>1, <2>2, <2>6 DEF Ends, FenceMatches
    <3> QED
      BY <2>1, <3>1 DEF FenceInv
  <2> QED
    BY <1>4, <2>1, <2>3, <2>4, <2>5, <2>6, RowsChange DEF RowChange
<1>7. CASE HandsOut
  <2>1. PICK v \in Workers, u \in Tracks : Exists(row[u]) /\ Hand(v, u)
    BY <1>7 DEF HandsOut
  <2>2. /\ job'[v] = [track |-> u, kind |-> row[u].kind,
                      run |-> row[u].runs + 1, fence |-> row[u].attempts + 1]
        /\ row'[u] = Leased(row[u])
        /\ w # v => job'[w] = job[w] /\ pc'[w] = pc[w]
        /\ t # u => row'[t] = row[t]
    BY <2>1 DEF Hand, SetRow, Goto, TypeOK
  <2>3. CASE w = v
    <3>1. t = u /\ job'[w].kind = row[t].kind
      BY <1>3, <2>2, <2>3
    <3>2. Leased(row[t]).kind = row[t].kind /\ Leased(row[t]).lease = "live"
      BY <1>5 DEF Leased, Row
    <3> QED
      BY <1>4, <2>2, <3>1, <3>2 DEF KnowsRow
  <2>4. CASE w # v /\ t = u
    <3>1. job[w] \in Token /\ TrackOf(w) = t /\ pc[w] # "idle"
      BY <1>3, <2>2, <2>4 DEF TypeOK, TrackOf
    <3>2. FenceOf(w) <= row[t].attempts
      BY <2>1, <2>4, <3>1 DEF FenceInv
    <3>3. row'[t].attempts = row[t].attempts + 1 /\ FenceOf(w) = row'[t].attempts
      BY <1>4, <1>5, <2>2, <2>4 DEF Leased, FenceOf, Row
    <3>4. row[t].attempts \in Nat
      BY <1>5 DEF Row
    <3> QED
      BY <3>2, <3>3, <3>4
  <2>5. CASE w # v /\ t # u
    <3>1. pc[w] # "idle" /\ job'[w] = job[w] /\ FenceMatches(row[t], FenceOf(w))
      BY <1>4, <2>2, <2>5 DEF FenceMatches, FenceOf
    <3> QED
      BY <1>a, <1>4, <2>2, <2>5, <3>1
  <2> QED
    BY <2>3, <2>4, <2>5
<1> QED
  BY <1>1, <1>6, <1>7 DEF StepShape

\* A revert by the owner leaves the track queued.
LEMMA OnlyLateReverts ==
  ASSUME TypeOK, RequestInv, OwnerInv, [Next]_vars, PendingIsQueued, ~ PendingIsQueued'
  PROVE  \E w \in Workers :
           /\ pc[w] = "reverting" /\ ~ FenceMatches(row[TrackOf(w)], FenceOf(w))
           /\ RevertToPending(w)
<1>1. PICK t \in Tracks : ~ StaysQueued(row'[t])
  BY DEF PendingIsQueued, StaysQueued
<1>2. StaysQueued(row[t]) /\ row[t] \in Row
  BY DEF PendingIsQueued, StaysQueued, TypeOK
<1>3. RowChange(t)
  BY RowsChange
<1>4. ~ Statement(row[t], row'[t]) /\ ~ Lapses(t)
  BY <1>1, <1>2, StatementsKeepQueued DEF Lapses, Leases
<1>5. \A w \in Workers : ~ Ends(t, w)
  BY <1>1, <1>2, StatementsKeepQueued DEF Ends
<1>6. PICK w \in Workers : Reverts(t, w)
  BY <1>3, <1>4, <1>5 DEF RowChange
<1>7. ASSUME FenceMatches(row[t], FenceOf(w)) PROVE FALSE
  <2>1. Owned(t) /\ KnowsRow(row[t], "acquire")
    BY <1>6, <1>7 DEF Owned, OwnerInv, Reverts
  <2>2. row[t].avail # "never"
    BY <2>1 DEF RequestInv, KeepsRequest
  <2> QED
    BY <1>1, <1>2, <1>6, <2>1, <2>2, StatementsKeepQueued DEF Reverts, KnowsRow
<1> QED
  BY <1>6, <1>7 DEF Reverts

QueueInv == TypeOK /\ FenceInv /\ VersionInv /\ RequestInv /\ OwnerInv

LEMMA QueueInvHolds == Spec => []QueueInv
<1>1. Init => QueueInv
  BY InitTypeOK, RequestInvInit DEF Init, QueueInv, FenceInv, VersionInv, OwnerInv, Landing
<1>2. QueueInv /\ [Next]_vars => QueueInv'
  BY NextTypeOK, FenceInvStep, VersionInvStep, RequestInvStep, OwnerInvStep DEF QueueInv
<1> QED
  BY <1>1, <1>2, PTL DEF Spec

StrandsLate ==
  PendingIsQueued /\ ~ PendingIsQueued' =>
    \E w \in Workers :
      /\ pc[w] = "reverting" /\ ~ FenceMatches(row[TrackOf(w)], FenceOf(w))
      /\ RevertToPending(w)

\* A pending track leaves the queue by nothing but the revert of a worker that
\* is no longer its owner: not by a request, a settle, a preemption, a release.
THEOREM LateRevertsStrand == Spec => OnlyLateRevertsStrand
<1>1. QueueInv /\ [Next]_vars => [StrandsLate]_vars
  BY OnlyLateReverts DEF QueueInv, StrandsLate
<1>2. Spec => [][StrandsLate]_vars
  BY <1>1, QueueInvHolds, PTL DEF Spec
<1> QED
  BY <1>2 DEF StrandsLate, OnlyLateRevertsStrand

-----------------------------------------------------------------------------
(* When no worker outlives its lease                                       *)

\* Only an upgrade loses its track to somebody else: another worker is the
\* owner for as long as the track exists.
StillOwner == \A w \in Workers :
  pc[w] # "idle" /\ job[w].kind # "upgrade" /\ Exists(row[TrackOf(w)])
    => FenceMatches(row[TrackOf(w)], FenceOf(w))

\* A statement takes a live lease from nobody but an upgrade.
LEMMA FenceIsKept ==
  ASSUME NEW r \in Row, NEW o \in Nat, NEW kind \in Kinds \ {"upgrade"}, NEW q,
         KeepsRequest(r, o, TRUE), r.lease = "live", r.kind = kind,
         Statement(r, q), Exists(q)
  PROVE  q.attempts = r.attempts
<1>1. r.avail # "never" /\ r # AbsentRow
  BY DEF KeepsRequest, AbsentRow
<1>2. q # DeletedRow
  BY DEF DeletedRow, AbsentRow, Exists, Statuses
<1>3. ASSUME NEW k \in Kinds, q = Enqueued(r, k, "due") PROVE q.attempts = r.attempts
  BY <1>3 DEF Enqueued, BumpsFence, Preempts
<1>4. ASSUME NEW s \in {"ready", "failed"}, q = Written(r, s) PROVE q.attempts = r.attempts
  BY <1>4 DEF Written, Row
<1>5. ASSUME q = [r EXCEPT !.avail = "due"] \/ q = [r EXCEPT !.lease = "live"]
      PROVE  q.attempts = r.attempts
  BY <1>5 DEF Row
<1> QED
  BY <1>1, <1>2, <1>3, <1>4, <1>5 DEF Statement

LEMMA StillOwnerStep ==
  ASSUME ~ MayStall, QueueInv, StillOwner, [Next]_vars
  PROVE  StillOwner'
<1> USE DEF QueueInv
<1>1. TypeOK' /\ StepShape
  BY NextTypeOK, StepsHaveShape
<1> SUFFICES ASSUME NEW w \in Workers, NEW t \in Tracks, t = job'[w].track,
                    pc'[w] # "idle", job'[w].kind # "upgrade", Exists(row'[t])
             PROVE  row'[t].attempts = job'[w].fence
  BY <1>1 DEF StillOwner, FenceMatches, TrackOf, FenceOf, TypeOK, Token
<1>2. row[t] \in Row /\ row'[t] \in Row /\ owed[t] \in Nat
  BY <1>1 DEF TypeOK
<1>a. ASSUME pc[w] # "idle", job'[w] = job[w], Exists(row[t])
      PROVE  /\ FenceMatches(row[t], FenceOf(w)) /\ TrackOf(w) = t
             /\ row[t].attempts = job'[w].fence
             /\ KeepsRequest(row[t], owed[t], TRUE)
             /\ row[t].lease = "live" /\ row[t].kind = job[w].kind
             /\ job[w].kind \in Kinds \ {"upgrade"}
  <2>1. TrackOf(w) = t /\ job[w].kind \in Kinds \ {"upgrade"}
    BY <1>a DEF TypeOK, Token, TrackOf
  <2>2. FenceMatches(row[t], FenceOf(w))
    BY <1>a, <2>1 DEF StillOwner
  <2>3. KnowsRow(row[t], job[w].kind)
    BY <1>a, <2>1, <2>2 DEF OwnerInv
  <2>4. KeepsRequest(row[t], owed[t], TRUE)
    BY <1>a, <2>1, <2>2 DEF RequestInv, Owned
  <2> QED
    BY <1>a, <2>1, <2>2, <2>3, <2>4 DEF KnowsRow, FenceMatches, FenceOf
<1>3. CASE KeepsJobs
  <2>1. pc[w] # "idle" /\ job'[w] = job[w] /\ job[w] \in Token
    BY <1>3 DEF KeepsJobs, TypeOK
  <2>2. row[t].status # "absent"
    BY <2>1 DEF FenceInv, TrackOf
  <2>3. Exists(row[t])
    BY <1>1, <2>2 DEF StepShape, RowMoves
  <2>4. /\ FenceMatches(row[t], FenceOf(w)) /\ TrackOf(w) = t
        /\ row[t].attempts = job'[w].fence
        /\ KeepsRequest(row[t], owed[t], TRUE)
        /\ row[t].lease = "live" /\ row[t].kind = job[w].kind
        /\ job[w].kind \in Kinds \ {"upgrade"}
    BY <1>a, <2>1, <2>3
  <2>5. CASE Statement(row[t], row'[t])
    <3>1. row'[t].attempts = row[t].attempts
      BY <1>2, <2>4, <2>5, FenceIsKept
    <3> QED
      BY <2>4, <3>1
  <2>6. CASE Lapses(t)
    BY <1>2, <2>4, <2>6 DEF Lapses, Row
  <2>7. ASSUME NEW v \in Workers, Reverts(t, v) PROVE row'[t].attempts = job'[w].fence
    BY <1>2, <2>4, <2>7 DEF Reverts, Written, Row
  <2>8. ASSUME NEW v \in Workers, Ends(t, v) PROVE row'[t].attempts = job'[w].fence
    BY <1>2, <2>4, <2>8 DEF Ends, Settled, Released, Row
  <2> QED
    BY <2>5, <2>6, <2>7, <2>8, RowsChange DEF RowChange
<1>4. CASE HandsOut
  <2>1. PICK v \in Workers, u \in Tracks : row[u].lease # "live" /\ Hand(v, u)
    BY <1>4 DEF HandsOut
  <2>2. /\ job'[v] = [track |-> u, kind |-> row[u].kind,
                      run |-> row[u].runs + 1, fence |-> row[u].attempts + 1]
        /\ row'[u] = Leased(row[u])
        /\ w # v => job'[w] = job[w] /\ pc'[w] = pc[w]
        /\ t # u => row'[t] = row[t]
    BY <2>1 DEF Hand, SetRow, Goto, TypeOK
  <2>3. CASE w = v
    <3>1. t = u /\ job'[w].fence = row[t].attempts + 1
      BY <2>2, <2>3
    <3>2. Leased(row[t]).attempts = row[t].attempts + 1
      BY <1>2 DEF Leased, Row
    <3> QED
      BY <2>2, <3>1, <3>2
  <2>4. CASE w # v
    <3>1. Exists(row[t])
      <4>1. row[t].status # "absent"
        BY <2>2, <2>4 DEF FenceInv, TrackOf
      <4> QED
        BY <1>1, <4>1 DEF StepShape, RowMoves
    <3>2. t # u
      <4>1. row[t].lease = "live"
        BY <1>a, <2>2, <2>4, <3>1
      <4> QED
        BY <2>1, <4>1
    <3> QED
      BY <1>a, <2>2, <2>4, <3>1, <3>2
  <2> QED
    BY <2>3, <2>4
<1> QED
  BY <1>1, <1>3, <1>4 DEF StepShape

\* A pending track leaves the queue by late reverts only, and there are none.
LEMMA NobodyStrands ==
  ASSUME ~ MayStall, QueueInv, StillOwner, PendingIsQueued, [Next]_vars
  PROVE  PendingIsQueued'
<1> USE DEF QueueInv
<1> SUFFICES ASSUME ~ PendingIsQueued' PROVE FALSE
  OBVIOUS
<1>1. PICK w \in Workers : /\ pc[w] = "reverting" /\ RevertToPending(w)
                           /\ ~ FenceMatches(row[TrackOf(w)], FenceOf(w))
  BY OnlyLateReverts
<1>2. job[w].kind = "acquire"
  BY <1>1 DEF OwnerInv
<1>3. ~ Exists(row[TrackOf(w)])
  BY <1>1, <1>2 DEF StillOwner
<1>4. row' = row
  BY <1>1, <1>3 DEF RevertToPending
<1> QED
  BY <1>4 DEF PendingIsQueued

\* The run of w failed for good, or may still turn out to have: a revert that
\* is refused ends as a failure.
Doomed(w) == pc[w] = "reverting" \/ (pc[w] = "finishing" /\ outcome[w] = "failed")

\* The track of an acquire run that failed is pending only for a request that
\* a later run is to answer.
FailedInv == \A w \in Workers :
  /\ Doomed(w) /\ job[w].kind = "acquire"
  /\ row[TrackOf(w)].status = "pending"
  /\ FenceMatches(row[TrackOf(w)], FenceOf(w))
  => owed[TrackOf(w)] > FenceOf(w)

\* How a run comes to have failed.
FoundFailed(w) ==
  \/ Doomed(w)
  \/ job[w].kind # "acquire"
  \/ row'[TrackOf(w)].status # "pending"
  \/ row' = row /\ ~ FenceMatches(row[TrackOf(w)], FenceOf(w))

LEMMA RunsFail ==
  ASSUME TypeOK, [Next]_vars, NEW w \in Workers, Doomed(w)'
  PROVE  /\ pc[w] # "idle" /\ job'[w] = job[w]
         /\ FoundFailed(w)
<1> USE DEF TypeOK
<1> DEFINE Goal == pc[w] # "idle" /\ job'[w] = job[w] /\ FoundFailed(w)
<1> SUFFICES Goal
  OBVIOUS
<1>0. ASSUME pc'[w] = pc[w], outcome'[w] = outcome[w], job'[w] = job[w]
      PROVE  Goal
  BY <1>0 DEF Doomed, FoundFailed
\* Somebody else's step.
<1>a. ASSUME NEW v \in Workers, v # w, Work(v) \/ Interrupt(v)
      PROVE  pc'[w] = pc[w] /\ outcome'[w] = outcome[w] /\ job'[w] = job[w]
  BY <1>a DEF Work, Interrupt, Claim, ClaimUpgrade, Hand, LoadTrack, LoadVerdict,
              RevertToPending, VerifyLease, CommitLoad, CommitWrite, RunFails, RunRetries,
              RunPanics, FailLoad, FailWrite, Unrecorded, Cancelled, RefuseQueued, Settle,
              Release, Heartbeat, ShutdownRelease, Crash, Goto, EndRun, FailTo, GoIdle
<1>1. CASE Request \/ Time \/ UNCHANGED vars
  <2>1. pc' = pc /\ job' = job /\ outcome' = outcome
    BY <1>1 DEF Request, Time, AddTrack, ReadTrack, Enqueue, EnqueueRefused, MarkFailed,
                DeleteTrack, BecomesDue, LeaseLapses, vars
  <2> QED
    BY <1>0, <2>1
\* The steps of w after which it is not doomed.
<1>2. ~ (\/ Claim(w) \/ ClaimUpgrade(w) \/ VerifyLease(w) \/ CommitWrite(w)
         \/ RunRetries(w) \/ RunPanics(w) \/ Cancelled(w) \/ RefuseQueued(w)
         \/ Settle(w) \/ Release(w) \/ ShutdownRelease(w) \/ Crash(w))
  BY DEF Claim, ClaimUpgrade, Hand, VerifyLease, CommitWrite, RunRetries, RunPanics,
         Cancelled, RefuseQueued, Settle, Release, ShutdownRelease, Crash, Doomed,
         Goto, EndRun, GoIdle
<1>3. ASSUME LoadTrack(w) PROVE Goal
  BY <1>3 DEF LoadTrack, LoadVerdict, Unrecorded, Goto, EndRun, Doomed, FoundFailed, TrackOf
<1>4. ASSUME RevertToPending(w) PROVE Goal
  BY <1>4 DEF RevertToPending, Goto, EndRun, Doomed, FoundFailed
<1>5. ASSUME CommitLoad(w) \/ RunFails(w) PROVE Goal
  BY <1>5 DEF CommitLoad, RunFails, FailTo, Goto, EndRun, Doomed, FoundFailed
<1>6. ASSUME FailLoad(w) PROVE Goal
  BY <1>6 DEF FailLoad, Unrecorded, EndRun, Goto, Doomed, FoundFailed
<1>7. ASSUME FailWrite(w) PROVE Goal
  <2>1. pc[w] # "idle" /\ job'[w] = job[w] /\ TrackOf(w) \in Tracks
    BY <1>7 DEF FailWrite, TrackOf, Token
  <2>2. SetRow(TrackOf(w), Written(row[TrackOf(w)], "failed"))
    BY <1>7 DEF FailWrite, Unrecorded, EndRun, Goto, Doomed
  <2>3. row'[TrackOf(w)] = Written(row[TrackOf(w)], "failed")
    BY <2>1, <2>2 DEF SetRow
  <2>4. Written(row[TrackOf(w)], "failed").status = "failed"
    BY <2>1 DEF Written, Row
  <2> QED
    BY <2>1, <2>3, <2>4 DEF FoundFailed
<1>8. ASSUME Heartbeat(w) PROVE Goal
  BY <1>8, <1>0 DEF Heartbeat
<1> HIDE DEF Goal
<1>9. CASE \E v \in Workers : Work(v) \/ Interrupt(v)
  <2>1. PICK v \in Workers : Work(v) \/ Interrupt(v)
    BY <1>9
  <2>2. CASE v # w
    BY <1>0, <1>a, <2>1, <2>2
  <2>3. CASE v = w
    BY <1>2, <1>3, <1>4, <1>5, <1>6, <1>7, <1>8, <2>1, <2>3 DEF Work, Interrupt
  <2> QED
    BY <2>2, <2>3
<1> QED
  BY <1>1, <1>9 DEF Next

\* What a step that leaves a track pending makes of the request it owes: an
\* open one is not forgotten, and one that puts a failed track back is owed
\* to a run that has not begun.
Owes(t) ==
  \/ row[t].status = "pending" /\ owed'[t] >= owed[t]
  \/ row[t].status # "pending" /\ owed'[t] > row[t].attempts
  \/ \E w \in Workers : Reverts(t, w)

LEMMA RequestsAreOwed ==
  ASSUME TypeOK, [Next]_vars, NEW u \in Tracks,
         row'[u].status = "pending", Exists(row[u])
  PROVE  Owes(u)
<1> USE DEF TypeOK
<1>0. /\ row[u] \in Row /\ owed[u] \in Nat /\ owed[u] >= owed[u]
      /\ row'[u] = row[u] /\ owed'[u] = owed[u] => Owes(u)
  BY DEF Owes
<1>c. ASSUME NEW w \in Workers, pc[w] # "idle" PROVE TrackOf(w) \in Tracks
  BY <1>c DEF Token, TrackOf
\* A statement on another row.
<1>a. ASSUME NEW t \in Tracks, t # u, NEW q, SetRow(t, q), NEW f,
             owed' = owed \/ owed' = [owed EXCEPT ![t] = f]
      PROVE  Owes(u)
  BY <1>a, <1>0 DEF SetRow
\* A statement on this one that changes no status.
<1>b. ASSUME NEW q, SetRow(u, q), q.status = row[u].status, owed' = owed
      PROVE  Owes(u)
  BY <1>b, <1>0 DEF SetRow, Owes
<1>1. ASSUME NEW c \in Clients, NEW t \in Tracks, AddTrack(c, t) PROVE Owes(u)
  <2>1. t # u
    BY <1>1 DEF AddTrack, AbsentRow, Exists, Statuses
  <2> QED
    BY <1>1, <1>a, <2>1 DEF AddTrack
<1>2. ASSUME NEW c \in Clients, NEW t \in Tracks, NEW p \in Purposes, ReadTrack(c, t, p) PROVE Owes(u)
  BY <1>2, <1>0 DEF ReadTrack
<1>3. ASSUME NEW c \in Clients, Enqueue(c) PROVE Owes(u)
  <2>1. PICK t \in Tracks, kind \in Kinds : t = req[c].track /\ kind = req[c].want
    BY <1>3 DEF Enqueue, Req, NoReq
  <2> DEFINE q == Enqueued(row[t], kind, "due")
             f == LatestFence(owed[t], AnswerFence(row[t], kind))
  <2>2. /\ CanEnqueue(row[t], kind) /\ SetRow(t, q)
        /\ owed' = IF kind = "upgrade" THEN owed ELSE [owed EXCEPT ![t] = f]
    BY <1>3, <2>1 DEF Enqueue
  <2>3. CASE t # u
    BY <1>a, <2>2, <2>3
  <2>4. CASE t = u
    <3>1. q.status = "pending"
      BY <2>2, <2>4 DEF SetRow
    <3>2. kind # "upgrade"
      BY <2>2, <3>1 DEF Enqueued, CanEnqueue
    <3>3. owed'[u] = f
      BY <2>2, <2>4, <3>2
    <3>4. /\ row[u].attempts \in Nat
          /\ q.attempts \in {row[u].attempts, row[u].attempts + 1}
      BY <1>0, <2>4 DEF Enqueued, Row
    <3>5. AnswerFence(row[u], kind) \in Nat
      BY <2>4, <3>4 DEF AnswerFence
    <3>6. CASE row[u].status = "pending"
      <4>1. f >= owed[u]
        BY <1>0, <2>4, <3>5 DEF LatestFence
      <4> QED
        BY <3>3, <3>6, <4>1 DEF Owes
    <3>7. CASE row[u].status # "pending"
      <4>1. row[u].status = "failed"
        BY <2>2, <2>4, <3>1, <3>2, <3>7 DEF Enqueued, CanEnqueue, Exists, Statuses, Kinds
      <4>2. AnswerFence(row[u], kind) = q.attempts + 1
        BY <2>4, <4>1 DEF AnswerFence
      <4>3. f >= q.attempts + 1
        BY <1>0, <2>4, <3>4, <4>2 DEF LatestFence
      <4>4. f \in Nat
        BY <1>0, <2>4, <3>5 DEF LatestFence
      <4> HIDE DEF q, f
      <4>5. f > row[u].attempts
        BY <3>4, <4>3, <4>4
      <4> QED
        BY <3>3, <3>7, <4>5 DEF Owes
    <3> QED
      BY <3>6, <3>7
  <2> QED
    BY <2>3, <2>4
<1>4. ASSUME NEW c \in Clients, EnqueueRefused(c) PROVE Owes(u)
  BY <1>4, <1>0 DEF EnqueueRefused
\* A write that leaves the track ready or failed is one of another track.
<1>d. ASSUME NEW t \in Tracks, NEW s \in {"ready", "failed"}, SetRow(t, Written(row[t], s))
      PROVE  t # u
  <2>1. Written(row[t], s).status = s
    BY DEF Written, Row
  <2> QED
    BY <1>d, <2>1 DEF SetRow
<1>5. ASSUME NEW c \in Clients, MarkFailed(c) PROVE Owes(u)
  <2>1. PICK t \in Tracks : t = req[c].track
    BY <1>5 DEF MarkFailed, Req, NoReq
  <2>2. CASE SetRow(t, Written(row[t], "failed"))
    BY <1>5, <1>a, <1>d, <2>1, <2>2 DEF MarkFailed
  <2> QED
    BY <1>0, <1>5, <2>1, <2>2 DEF MarkFailed
<1>6. ASSUME NEW t \in Tracks, DeleteTrack(t) PROVE Owes(u)
  <2>1. t # u
    BY <1>6 DEF DeleteTrack, SetRow, DeletedRow, AbsentRow
  <2> QED
    BY <1>6, <1>a, <2>1 DEF DeleteTrack
<1>7. ASSUME NEW t \in Tracks, BecomesDue(t) \/ LeaseLapses(t) PROVE Owes(u)
  <2>1. PICK q \in Row : SetRow(t, q) /\ owed' = owed /\ q.status = row[t].status
    <3>1. ASSUME BecomesDue(t)
          PROVE  \E q \in Row : SetRow(t, q) /\ owed' = owed /\ q.status = row[t].status
      <4> DEFINE q == [row[t] EXCEPT !.avail = "due"]
      <4>1. q \in Row /\ q.status = row[t].status
        BY DEF Row, Avails
      <4>2. SetRow(t, q) /\ owed' = owed
        BY <3>1 DEF BecomesDue
      <4> HIDE DEF q
      <4> QED
        BY <4>1, <4>2
    <3>2. ASSUME LeaseLapses(t)
          PROVE  \E q \in Row : SetRow(t, q) /\ owed' = owed /\ q.status = row[t].status
      <4> DEFINE q == [row[t] EXCEPT !.lease = "lapsed"]
      <4>1. q \in Row /\ q.status = row[t].status
        BY DEF Row, Leases
      <4>2. SetRow(t, q) /\ owed' = owed
        BY <3>2 DEF LeaseLapses
      <4> HIDE DEF q
      <4> QED
        BY <4>1, <4>2
    <3> QED
      BY <1>7, <3>1, <3>2
  <2> QED
    BY <1>a, <1>b, <2>1
<1>8. ASSUME NEW w \in Workers, NEW t \in Tracks, Hand(w, t) PROVE Owes(u)
  <2>1. Leased(row[t]).status = row[t].status
    BY DEF Leased, Row
  <2> QED
    BY <1>8, <1>a, <1>b, <2>1 DEF Hand
<1>9. ASSUME NEW w \in Workers, Claim(w) \/ ClaimUpgrade(w) PROVE Owes(u)
  BY <1>8, <1>9 DEF Claim, ClaimUpgrade
<1>10. ASSUME NEW w \in Workers,
              \/ LoadTrack(w) \/ VerifyLease(w) \/ CommitLoad(w) \/ RunFails(w)
              \/ RunRetries(w) \/ RunPanics(w) \/ FailLoad(w) \/ Cancelled(w)
              \/ RefuseQueued(w) \/ Crash(w)
       PROVE  Owes(u)
  <2>1. row' = row /\ owed' = owed
    BY <1>10 DEF LoadTrack, VerifyLease, CommitLoad, RunFails, RunRetries, RunPanics,
                 FailLoad, Cancelled, RefuseQueued, Crash
  <2> QED
    BY <1>0, <2>1
<1>11. ASSUME NEW w \in Workers, RevertToPending(w) PROVE Owes(u)
  <2>1. PICK t \in Tracks : t = TrackOf(w)
    BY <1>11, <1>c DEF RevertToPending
  <2>2. owed' = owed
    BY <1>11 DEF RevertToPending
  <2>3. CASE SetRow(t, Written(row[t], "pending")) /\ t # u
    BY <1>a, <2>2, <2>3
  <2>4. CASE SetRow(t, Written(row[t], "pending")) /\ t = u
    <3>1. Reverts(u, w)
      BY <1>11, <2>1, <2>4 DEF RevertToPending, SetRow, Reverts
    <3> QED
      BY <3>1 DEF Owes
  <2> QED
    BY <1>0, <1>11, <2>1, <2>2, <2>3, <2>4 DEF RevertToPending
<1>12. ASSUME NEW w \in Workers, CommitWrite(w) \/ FailWrite(w) PROVE Owes(u)
  <2>1. PICK t \in Tracks : t = TrackOf(w)
    BY <1>12, <1>c DEF CommitWrite, FailWrite
  <2>2. CASE \E s \in {"ready", "failed"} : SetRow(t, Written(row[t], s))
    <3>1. t # u
      BY <1>d, <2>2
    <3>2. owed' = owed \/ owed' = [owed EXCEPT ![t] = 0]
      BY <1>12, <2>1 DEF CommitWrite, FailWrite, Landed
    <3> QED
      BY <1>a, <2>2, <3>1, <3>2
  <2>3. CASE row' = row /\ owed' = owed
    BY <1>0, <2>3
  <2> QED
    BY <1>12, <2>1, <2>2, <2>3 DEF CommitWrite, FailWrite
<1>13. ASSUME NEW w \in Workers, Settle(w) PROVE Owes(u)
  <2>1. PICK t \in Tracks : t = TrackOf(w)
    BY <1>13, <1>c DEF Settle
  <2>2. row[t] \in Row /\ Settled(row[t]).status = row[t].status
    BY DEF Settled, Row
  <2>3. CASE FenceMatches(row[t], FenceOf(w))
    <3>1. SetRow(t, Settled(row[t])) /\ (owed' = owed \/ owed' = [owed EXCEPT ![t] = 0])
      BY <1>13, <2>1, <2>3 DEF Settle, LeftQueue
    <3>2. CASE t # u
      BY <1>a, <3>1, <3>2
    <3>3. CASE t = u
      <4>1. row[t].status = "pending"
        BY <2>2, <3>1, <3>3 DEF SetRow
      <4>2. owed' = owed
        BY <1>13, <2>1, <4>1 DEF Settle
      <4> QED
        BY <1>b, <2>2, <3>1, <3>3, <4>2
    <3> QED
      BY <3>2, <3>3
  <2>4. CASE ~ FenceMatches(row[t], FenceOf(w))
    <3>1. row' = row /\ owed' = owed
      BY <1>13, <2>1, <2>4 DEF Settle
    <3> QED
      BY <1>0, <3>1
  <2> QED
    BY <2>3, <2>4
<1>14. ASSUME NEW w \in Workers, Release(w) \/ ShutdownRelease(w) PROVE Owes(u)
  <2>1. PICK t \in Tracks : t = TrackOf(w)
    BY <1>14, <1>c DEF Release, ShutdownRelease
  <2>2. \A a \in {"later", "due"} : Released(row[t], a).status = row[t].status
    BY DEF Released, Row
  <2>3. owed' = owed
    BY <1>14 DEF Release, ShutdownRelease
  <2>4. \/ row' = row
        \/ \E a \in {"later", "due"} : SetRow(t, Released(row[t], a))
    BY <1>14, <2>1 DEF Release, ShutdownRelease
  <2> QED
    BY <1>0, <1>a, <1>b, <2>2, <2>3, <2>4
<1>15. ASSUME NEW w \in Workers, Heartbeat(w) PROVE Owes(u)
  <2>1. PICK t \in Tracks : t = TrackOf(w)
    BY <1>15, <1>c DEF Heartbeat, HeartbeatRuns
  <2> DEFINE q == [row[t] EXCEPT !.lease = "live"]
  <2>2. q.status = row[t].status
    BY DEF Row
  <2>3. SetRow(t, q) /\ owed' = owed
    BY <1>15, <2>1 DEF Heartbeat
  <2> HIDE DEF q
  <2> QED
    BY <1>a, <1>b, <2>2, <2>3
<1>16. CASE UNCHANGED vars
  BY <1>16, <1>0 DEF vars
<1> QED
  BY <1>1, <1>2, <1>3, <1>4, <1>5, <1>6, <1>7, <1>9, <1>10, <1>11, <1>12, <1>13, <1>14, <1>15, <1>16
     DEF Next, Request, Time, Work, Interrupt

LEMMA FailedInvStep ==
  ASSUME ~ MayStall, QueueInv, StillOwner, FailedInv, [Next]_vars
  PROVE  FailedInv'
<1> USE DEF QueueInv
<1>1. TypeOK' /\ StepShape
  BY NextTypeOK, StepsHaveShape
<1> SUFFICES ASSUME NEW w \in Workers, Doomed(w)', job'[w].kind = "acquire",
                    row'[TrackOf(w)'].status = "pending",
                    FenceMatches(row'[TrackOf(w)'], FenceOf(w)')
             PROVE  owed'[TrackOf(w)'] > FenceOf(w)'
  BY DEF FailedInv, FenceMatches, Exists
<1>2. pc[w] # "idle" /\ job'[w] = job[w] /\ FoundFailed(w)
  BY RunsFail
<1>3. PICK t \in Tracks : t = TrackOf(w)
  BY <1>2 DEF TypeOK, Token, TrackOf
<1>4. TrackOf(w)' = t /\ FenceOf(w)' = FenceOf(w) /\ FenceOf(w) \in Nat
  BY <1>2, <1>3 DEF TypeOK, Token, TrackOf, FenceOf
<1>5. Exists(row[t])
  <2>1. row[t].status # "absent"
    BY <1>2, <1>3 DEF FenceInv
  <2> QED
    BY <1>1, <1>4, <2>1 DEF StepShape, RowMoves, FenceMatches
<1>6. FenceMatches(row[t], FenceOf(w))
  BY <1>2, <1>3, <1>5 DEF StillOwner
<1>7. Doomed(w)
  BY <1>2, <1>3, <1>4, <1>6 DEF FoundFailed
<1>8. Owes(t)
  BY <1>4, <1>5, RequestsAreOwed
<1>9. owed[t] \in Nat /\ owed'[t] \in Nat
  BY <1>1 DEF TypeOK
<1>10. CASE row[t].status = "pending" /\ owed'[t] >= owed[t]
  <2>1. owed[t] > FenceOf(w)
    BY <1>2, <1>3, <1>6, <1>7, <1>10 DEF FailedInv
  <2> QED
    BY <1>4, <1>9, <1>10, <2>1
<1>11. CASE owed'[t] > row[t].attempts
  BY <1>4, <1>6, <1>11 DEF FenceMatches
\* Nobody reverts the track of w but w, and then its run goes on.
<1>12. ASSUME NEW v \in Workers, Reverts(t, v) PROVE FALSE
  <2>1. job[v].kind = "acquire" /\ TrackOf(v) = t /\ pc[v] # "idle"
    BY <1>12 DEF Reverts, OwnerInv
  <2>2. FenceMatches(row[t], FenceOf(v))
    BY <1>5, <2>1 DEF StillOwner
  <2>3. v = w
    BY <1>2, <1>3, <1>6, <2>1, <2>2 DEF FenceInv, FenceMatches
  <2>4. row'[t] # row[t] /\ RevertToPending(w)
    <3>1. row[t].version \in Nat /\ row'[t].version = row[t].version + 1
      BY <1>12 DEF Reverts, Written, TypeOK, Row
    <3> QED
      BY <1>12, <2>3, <3>1 DEF Reverts
  <2>5. pc' = [pc EXCEPT ![w] = "running"]
    BY <2>4 DEF RevertToPending, Goto
  <2> QED
    BY <2>5 DEF Doomed, TypeOK
<1> QED
  BY <1>8, <1>10, <1>11, <1>12 DEF Owes

PromptInv == QueueInv /\ StillOwner /\ PendingIsQueued /\ FailedInv

LEMMA PromptInvHolds ==
  ASSUME ~ MayStall
  PROVE  Spec => []PromptInv
<1>1. Init => QueueInv
  BY InitTypeOK, RequestInvInit DEF Init, QueueInv, FenceInv, VersionInv, OwnerInv, Landing
<1>2. Init => StillOwner /\ PendingIsQueued /\ FailedInv
  BY DEF Init, StillOwner, PendingIsQueued, FailedInv, Doomed, AbsentRow
<1>3. QueueInv /\ [Next]_vars => QueueInv'
  BY NextTypeOK, FenceInvStep, VersionInvStep, RequestInvStep, OwnerInvStep DEF QueueInv
<1>4. PromptInv /\ [Next]_vars => PromptInv'
  BY <1>3, StillOwnerStep, NobodyStrands, FailedInvStep DEF PromptInv
<1> QED
  BY <1>1, <1>2, <1>4, PTL DEF Spec, PromptInv

\* If no worker outlives its lease, a pending track is in the queue, and the
\* user lane may claim it: late reverts are all that ever strands one.
THEOREM PendingStaysQueued ==
  ASSUME ~ MayStall
  PROVE  Spec => []PendingIsQueued
<1>1. PromptInv => PendingIsQueued
  BY DEF PromptInv
<1> QED
  BY <1>1, PromptInvHolds, PTL

FailureLeavesQueue ==
  \A w \in Workers :
    job[w] # NoJob /\ job[w].kind # "replace" => LeavesQueueOnFailure(w)

LEMMA FailuresLeaveQueue ==
  ASSUME PromptInv, [Next]_vars
  PROVE  FailureLeavesQueue
<1> USE DEF PromptInv, QueueInv
<1> SUFFICES ASSUME NEW w \in Workers, job[w].kind # "replace", Settle(w),
                    outcome[w] = "failed",
                    FenceMatches(row[TrackOf(w)], FenceOf(w)),
                    owed[TrackOf(w)] <= FenceOf(w)
             PROVE  row'[TrackOf(w)].avail = "never"
  BY DEF FailureLeavesQueue, LeavesQueueOnFailure
<1>1. pc[w] # "idle" /\ Doomed(w)
  BY DEF Settle, Doomed
<1>2. PICK t \in Tracks : t = TrackOf(w)
  BY <1>1 DEF TypeOK, Token, TrackOf
<1>3. FenceOf(w) \in Nat /\ owed[t] \in Nat /\ job[w].kind \in Kinds /\ row[t] \in Row
  BY <1>1 DEF TypeOK, Token, FenceOf
<1>4. row[t].status # "pending"
  <2>1. CASE job[w].kind = "acquire"
    <3>1. ~ (owed[t] > FenceOf(w))
      BY <1>2, <1>3
    <3> QED
      BY <1>1, <1>2, <2>1, <3>1 DEF FailedInv
  <2>2. CASE job[w].kind = "upgrade"
    BY <1>1, <1>2, <2>2 DEF OwnerInv, KnowsRow, PendingIsQueued
  <2> QED
    BY <1>3, <2>1, <2>2 DEF Kinds
<1>5. row' = [row EXCEPT ![t] = Settled(row[t])]
  BY <1>2 DEF Settle, SetRow
<1>6. Settled(row[t]).avail = "never"
  BY <1>3, <1>4 DEF Settled, Row
<1> QED
  BY <1>2, <1>5, <1>6 DEF TypeOK

\* If no worker outlives its lease, an acquire or upgrade run that failed for
\* good takes its job out of the queue, unless a later run owes an answer or the
\* ledger could not be read or written: it is not claimed over and over.
THEOREM FailuresAreFinal ==
  ASSUME ~ MayStall
  PROVE  Spec => FailedRunLeavesQueue
<1>1. PromptInv /\ [Next]_vars => [FailureLeavesQueue]_vars
  BY FailuresLeaveQueue
<1>2. Spec => [][FailureLeavesQueue]_vars
  BY <1>1, PromptInvHolds, PTL DEF Spec
<1> QED
  BY <1>2 DEF FailureLeavesQueue, FailedRunLeavesQueue

-----------------------------------------------------------------------------
(* The refinement of FencedLease                                           *)

LeaseStep == [Lease!LeaseNext]_(Lease!leaseVars)

-----------------------------------------------------------------------------
(* What the lease sees of a step.                                          *)

LeaseFenceOf(r) == IF r.status = "deleted" THEN -1 ELSE r.attempts

\* A statement on one row changes the lease of that track only.
LEMMA SetRowSeen ==
  ASSUME row \in [Tracks -> Row], NEW t \in Tracks, NEW q, SetRow(t, q)
  PROVE  /\ LeaseFence' = [LeaseFence EXCEPT ![t] = LeaseFenceOf(q)]
         /\ LiveTracks' = IF q.lease = "live" THEN LiveTracks \cup {t} ELSE LiveTracks \ {t}
         /\ ReadyTracks' = IF q.status = "ready" THEN ReadyTracks \cup {t} ELSE ReadyTracks \ {t}
<1>1. row' = [row EXCEPT ![t] = q]
  BY DEF SetRow
<1>2. LeaseFence' = [LeaseFence EXCEPT ![t] = LeaseFenceOf(q)]
  BY <1>1 DEF LeaseFence, LeaseFenceOf
<1>3. LiveTracks' = IF q.lease = "live" THEN LiveTracks \cup {t} ELSE LiveTracks \ {t}
  BY <1>1 DEF LiveTracks
<1>4. ReadyTracks' = IF q.status = "ready" THEN ReadyTracks \cup {t} ELSE ReadyTracks \ {t}
  BY <1>1 DEF ReadyTracks
<1> QED
  BY <1>2, <1>3, <1>4

LEMMA SameRowsSeen ==
  ASSUME row' = row
  PROVE  LeaseFence' = LeaseFence /\ LiveTracks' = LiveTracks /\ ReadyTracks' = ReadyTracks
BY DEF LeaseFence, LiveTracks, ReadyTracks

\* The jobs are as they were, and so is who is idle.
SameJobs == job' = job /\ \A w \in Workers : pc'[w] = "idle" <=> pc[w] = "idle"

LEMMA SameGrants ==
  ASSUME SameJobs
  PROVE  Grants' = Grants
BY DEF SameJobs, Grants, TrackOf, FenceOf

LEMMA StepsOn ==
  ASSUME TypeOK, NEW w \in Workers, NEW to, pc[w] # "idle", to # "idle",
         Goto(w, to), job' = job
  PROVE  SameJobs
BY DEF TypeOK, Goto, SameJobs

\* Nothing the lease speaks of changes.
LEMMA Stutters ==
  ASSUME SameJobs, row' = row
  PROVE  LeaseStep
BY SameGrants, SameRowsSeen DEF LeaseStep, Lease!leaseVars

LEMMA SameFenceSeen ==
  ASSUME row \in [Tracks -> Row], NEW t \in Tracks, NEW q, SetRow(t, q),
         LeaseFenceOf(q) = LeaseFenceOf(row[t])
  PROVE  LeaseFence' = LeaseFence
<1>1. \A u \in Tracks : LeaseFenceOf(row'[u]) = LeaseFenceOf(row[u])
  BY DEF SetRow
<1> QED
  BY <1>1 DEF LeaseFence, LeaseFenceOf

-----------------------------------------------------------------------------
(* Which step of the lease a statement on the row of t is.                 *)

LEMMA SeenAsNothing ==
  ASSUME TypeOK, SameJobs, NEW t \in Tracks, NEW q, SetRow(t, q),
         LeaseFenceOf(q) = LeaseFenceOf(row[t]),
         q.lease = "live" <=> row[t].lease = "live",
         q.status = "ready" <=> row[t].status = "ready"
  PROVE  LeaseStep
<1>1. row \in [Tracks -> Row]
  BY DEF TypeOK
<1>2. LeaseFence' = LeaseFence
  BY <1>1, SameFenceSeen
<1>3. LiveTracks' = LiveTracks
  BY <1>1, SetRowSeen DEF LiveTracks
<1>4. ReadyTracks' = ReadyTracks
  BY <1>1, SetRowSeen DEF ReadyTracks
<1> QED
  BY <1>2, <1>3, <1>4, SameGrants DEF LeaseStep, Lease!leaseVars

LEMMA SeenAsExpire ==
  ASSUME TypeOK, SameJobs, NEW t \in Tracks, NEW q, SetRow(t, q),
         LeaseFenceOf(q) = LeaseFenceOf(row[t]),
         q.lease # "live",
         q.status = "ready" <=> row[t].status = "ready"
  PROVE  LeaseStep
<1>1. row \in [Tracks -> Row]
  BY DEF TypeOK
<1>2. LeaseFence' = LeaseFence
  BY <1>1, SameFenceSeen
<1>3. LiveTracks' = LiveTracks \ {t}
  BY <1>1, SetRowSeen
<1>4. ReadyTracks' = ReadyTracks
  BY <1>1, SetRowSeen DEF ReadyTracks
<1>5. Lease!Expire(t)
  BY <1>2, <1>3, <1>4, SameGrants DEF Lease!Expire
<1> QED
  BY <1>5 DEF LeaseStep, Lease!LeaseNext

LEMMA SeenAsRevoke ==
  ASSUME TypeOK, SameJobs, NEW t \in Tracks, NEW q, SetRow(t, q),
         Exists(row[t]), Exists(q),
         q.attempts = row[t].attempts + 1,
         q.lease # "live",
         q.status = "ready" <=> row[t].status = "ready"
  PROVE  LeaseStep
<1>1. row \in [Tracks -> Row] /\ row[t] \in Row
  BY DEF TypeOK
<1>2. LeaseFence[t] = row[t].attempts /\ LeaseFenceOf(q) = row[t].attempts + 1
  BY DEF LeaseFence, LeaseFenceOf, Exists, Statuses
<1>3. LeaseFence' = [LeaseFence EXCEPT ![t] = @ + 1]
  BY <1>1, <1>2, SetRowSeen DEF LeaseFence
<1>4. LiveTracks' = LiveTracks \ {t}
  BY <1>1, SetRowSeen
<1>5. ReadyTracks' = ReadyTracks
  BY <1>1, SetRowSeen DEF ReadyTracks
<1>6. LeaseFence[t] # Lease!Gone
  BY <1>1, <1>2 DEF Row, Lease!Gone
<1>7. Lease!Revoke(t)
  BY <1>3, <1>4, <1>5, <1>6, SameGrants DEF Lease!Revoke
<1> QED
  BY <1>7 DEF LeaseStep, Lease!LeaseNext

LEMMA SeenAsWithdraw ==
  ASSUME TypeOK, SameJobs, NEW t \in Tracks, NEW q, SetRow(t, q),
         LeaseFenceOf(q) = LeaseFenceOf(row[t]),
         q.lease = row[t].lease,
         q.status # "ready"
  PROVE  LeaseStep
<1>1. row \in [Tracks -> Row]
  BY DEF TypeOK
<1>2. LeaseFence' = LeaseFence
  BY <1>1, SameFenceSeen
<1>3. LiveTracks' = LiveTracks
  BY <1>1, SetRowSeen DEF LiveTracks
<1>4. ReadyTracks' = ReadyTracks \ {t}
  BY <1>1, SetRowSeen
<1>5. Lease!Withdraw(t)
  BY <1>2, <1>3, <1>4, SameGrants DEF Lease!Withdraw
<1> QED
  BY <1>5 DEF LeaseStep, Lease!LeaseNext

LEMMA SeenAsRetire ==
  ASSUME TypeOK, SameJobs, NEW t \in Tracks, SetRow(t, DeletedRow)
  PROVE  LeaseStep
<1>1. row \in [Tracks -> Row]
  BY DEF TypeOK
<1>2. LeaseFenceOf(DeletedRow) = -1 /\ DeletedRow.lease # "live" /\ DeletedRow.status # "ready"
  BY DEF LeaseFenceOf, DeletedRow, AbsentRow
<1>3. /\ LeaseFence' = [LeaseFence EXCEPT ![t] = -1]
      /\ LiveTracks' = LiveTracks \ {t}
      /\ ReadyTracks' = ReadyTracks \ {t}
  BY <1>1, <1>2, SetRowSeen
<1>4. Lease!Retire(t)
  BY <1>3, SameGrants DEF Lease!Retire, Lease!Gone
<1> QED
  BY <1>4 DEF LeaseStep, Lease!LeaseNext

\* The claimant whose fence the row carries is the lease's current holder.
LEMMA OwnerIsCurrent ==
  ASSUME TypeOK, NEW w \in Workers, pc[w] # "idle", FenceMatches(row[TrackOf(w)], FenceOf(w))
  PROVE  Lease!Current(w, TrackOf(w))
<1>1. job[w] \in Token /\ TrackOf(w) \in Tracks
  BY DEF TypeOK, Token, TrackOf
<1>2. Grants[w] = [resource |-> TrackOf(w), fence |-> FenceOf(w)]
  BY DEF Grants
<1>3. LeaseFence[TrackOf(w)] = FenceOf(w)
  BY <1>1 DEF LeaseFence, FenceMatches, Exists, Statuses
<1>4. Grants[w] # Lease!NoGrant
  BY <1>2 DEF Lease!NoGrant
<1> QED
  BY <1>2, <1>3, <1>4 DEF Lease!Current

LEMMA SeenAsPublish ==
  ASSUME TypeOK, SameJobs, NEW w \in Workers, pc[w] # "idle",
         FenceMatches(row[TrackOf(w)], FenceOf(w)),
         SetRow(TrackOf(w), Written(row[TrackOf(w)], "ready"))
  PROVE  LeaseStep
<1>1. PICK t \in Tracks : t = TrackOf(w)
  BY DEF TypeOK, Token, TrackOf
<1>2. row \in [Tracks -> Row] /\ row[t] \in Row
  BY DEF TypeOK
<1>3. PICK q : q = Written(row[t], "ready")
  OBVIOUS
<1>4. q.status = "ready" /\ q.lease = row[t].lease /\ q.attempts = row[t].attempts
  BY <1>2, <1>3 DEF Written, Row
<1>5. LeaseFenceOf(q) = LeaseFenceOf(row[t])
  BY <1>1, <1>4 DEF LeaseFenceOf, FenceMatches, Exists, Statuses
<1>6. SetRow(t, q)
  BY <1>1, <1>3
<1>7. LeaseFence' = LeaseFence
  BY <1>2, <1>5, <1>6, SameFenceSeen
<1>8. LiveTracks' = LiveTracks
  BY <1>2, <1>4, <1>6, SetRowSeen DEF LiveTracks
<1>9. ReadyTracks' = ReadyTracks \cup {t}
  BY <1>2, <1>4, <1>6, SetRowSeen
<1>10. Lease!Publish(w, t)
  BY <1>1, <1>7, <1>8, <1>9, SameGrants, OwnerIsCurrent DEF Lease!Publish
<1> QED
  BY <1>10 DEF LeaseStep, Lease!LeaseNext

\* A worker that is done leaves; its last statement, if its fence is the
\* row's, frees the row.
LEMMA GoesIdle ==
  ASSUME TypeOK, NEW w \in Workers, pc[w] # "idle", GoIdle(w)
  PROVE  Grants' = [Grants EXCEPT ![w] = Lease!NoGrant]
BY DEF TypeOK, GoIdle, Goto, Grants, TrackOf, FenceOf, Lease!NoGrant

LEMMA SeenAsLeave ==
  ASSUME TypeOK, NEW w \in Workers, pc[w] # "idle", GoIdle(w),
         NEW q, q.lease # "live", q.status = row[TrackOf(w)].status,
         q.attempts = row[TrackOf(w)].attempts,
         row' = row \/ /\ FenceMatches(row[TrackOf(w)], FenceOf(w))
                       /\ SetRow(TrackOf(w), q)
  PROVE  LeaseStep
<1>1. PICK t \in Tracks : t = TrackOf(w)
  BY DEF TypeOK, Token, TrackOf
<1>2. row \in [Tracks -> Row] /\ row[t] \in Row
  BY DEF TypeOK
<1>3. Grants[w] # Lease!NoGrant /\ Grants[w].resource = t
  BY <1>1 DEF Grants, Lease!NoGrant
<1>4. Grants' = [Grants EXCEPT ![w] = Lease!NoGrant]
  BY GoesIdle
<1>5. CASE row' = row
  <2>1. Lease!Leave(w)
    BY <1>3, <1>4, <1>5, SameRowsSeen DEF Lease!Leave
  <2> QED
    BY <2>1 DEF LeaseStep, Lease!LeaseNext
<1>6. CASE FenceMatches(row[TrackOf(w)], FenceOf(w)) /\ SetRow(TrackOf(w), q)
  <2>1. LeaseFence' = LeaseFence
    BY <1>1, <1>2, <1>6, SameFenceSeen DEF LeaseFenceOf
  <2>2. ReadyTracks' = ReadyTracks
    BY <1>1, <1>2, <1>6, SetRowSeen DEF ReadyTracks
  <2>3. LiveTracks' = LiveTracks \ {t}
    BY <1>1, <1>2, <1>6, SetRowSeen
  <2>4. Lease!Current(w, t)
    BY <1>1, <1>6, OwnerIsCurrent
  <2>5. Lease!Leave(w)
    BY <1>3, <1>4, <2>1, <2>2, <2>3, <2>4 DEF Lease!Leave
  <2> QED
    BY <2>5 DEF LeaseStep, Lease!LeaseNext
<1> QED
  BY <1>5, <1>6

LEMMA SeenAsAcquire ==
  ASSUME TypeOK, NEW w \in Workers, NEW t \in Tracks, pc[w] = "idle",
         Exists(row[t]), row[t].lease # "live", Hand(w, t)
  PROVE  LeaseStep
<1>1. row \in [Tracks -> Row] /\ row[t] \in Row
  BY DEF TypeOK
<1>2. PICK q : q = Leased(row[t])
  OBVIOUS
<1>3. q.status = row[t].status /\ q.lease = "live" /\ q.attempts = row[t].attempts + 1
  BY <1>1, <1>2 DEF Leased, Row
<1>4. SetRow(t, q)
  BY <1>2 DEF Hand
<1>5. LeaseFence[t] = row[t].attempts /\ LeaseFenceOf(q) = row[t].attempts + 1
  BY <1>3 DEF LeaseFence, LeaseFenceOf, Exists, Statuses
<1>6. LeaseFence' = [LeaseFence EXCEPT ![t] = @ + 1]
  BY <1>1, <1>4, <1>5, SetRowSeen DEF LeaseFence
<1>7. LiveTracks' = LiveTracks \cup {t} /\ t \notin LiveTracks
  BY <1>1, <1>3, <1>4, SetRowSeen DEF LiveTracks
<1>8. ReadyTracks' = ReadyTracks
  BY <1>1, <1>3, <1>4, SetRowSeen DEF ReadyTracks
<1>9. Grants[w] = Lease!NoGrant
  BY DEF Grants, Lease!NoGrant
<1>10. Grants' = [Grants EXCEPT ![w] = [resource |-> t, fence |-> LeaseFence[t] + 1]]
  <2>1. /\ pc' = [pc EXCEPT ![w] = "claimed"]
        /\ job' = [job EXCEPT ![w] =
             [track |-> t, kind |-> row[t].kind, run |-> row[t].runs + 1,
              fence |-> row[t].attempts + 1]]
    BY DEF Hand, Goto
  <2> QED
    BY <1>5, <2>1 DEF TypeOK, Grants, TrackOf, FenceOf
<1>11. LeaseFence[t] # Lease!Gone
  BY <1>1, <1>5 DEF Row, Lease!Gone
<1>12. Lease!Acquire(w, t)
  BY <1>6, <1>7, <1>8, <1>9, <1>10, <1>11 DEF Lease!Acquire
<1> QED
  BY <1>12 DEF LeaseStep, Lease!LeaseNext

-----------------------------------------------------------------------------
(* Every step of the queue.                                                *)

LEMMA StepsRefine ==
  ASSUME TypeOK, VersionInv, [Next]_vars
  PROVE  LeaseStep
<1>t. \A t \in Tracks : row[t] \in Row
  BY DEF TypeOK
<1>w. \A w \in Workers : pc[w] # "idle" => TrackOf(w) \in Tracks
  BY DEF TypeOK, Token, TrackOf
<1>1. ASSUME NEW c \in Clients, NEW t \in Tracks, AddTrack(c, t) PROVE LeaseStep
  <2>1. SameJobs /\ SetRow(t, InsertedRow) /\ row[t] = AbsentRow
    BY <1>1 DEF AddTrack, SameJobs
  <2>2. PICK q : q = InsertedRow
    OBVIOUS
  <2>3. /\ q.status = "pending" /\ q.lease = "none" /\ q.attempts = 0
        /\ row[t].status = "absent" /\ row[t].lease = "none" /\ row[t].attempts = 0
    BY <2>1, <2>2 DEF InsertedRow, AbsentRow
  <2> QED
    BY <2>1, <2>2, <2>3, SeenAsNothing DEF LeaseFenceOf
<1>2. ASSUME NEW c \in Clients, NEW t \in Tracks, NEW p \in Purposes, ReadTrack(c, t, p) PROVE LeaseStep
  BY <1>2, Stutters DEF ReadTrack, SameJobs
<1>3. ASSUME NEW c \in Clients, Enqueue(c) PROVE LeaseStep
  <2>1. PICK t \in Tracks, kind \in Kinds : t = req[c].track /\ kind = req[c].want
    BY <1>3 DEF Enqueue, TypeOK, Req, NoReq
  <2>2. PICK q : q = Enqueued(row[t], kind, "due")
    OBVIOUS
  <2>3. SameJobs /\ SetRow(t, q) /\ CanEnqueue(row[t], kind)
    BY <1>3, <2>1, <2>2 DEF Enqueue, SameJobs
  <2>4. /\ Exists(row[t]) /\ Exists(q)
        /\ q.status = "ready" <=> row[t].status = "ready"
    BY <2>2, <2>3 DEF CanEnqueue, Enqueued, Exists, Statuses, Kinds
  <2>5. /\ q.lease = IF KeepsLease(row[t], kind) THEN "live" ELSE "none"
        /\ q.attempts = IF BumpsFence(row[t], kind)
                        THEN row[t].attempts + 1 ELSE row[t].attempts
    BY <2>2 DEF Enqueued
  <2>6. CASE BumpsFence(row[t], kind)
    <3>1. ~ KeepsLease(row[t], kind)
      BY <2>6 DEF BumpsFence, KeepsLease
    <3>2. q.attempts = row[t].attempts + 1 /\ q.lease # "live"
      BY <2>5, <2>6, <3>1
    <3> QED
      BY <2>3, <2>4, <3>2, SeenAsRevoke
  <2>7. CASE ~ BumpsFence(row[t], kind)
    <3>1. LeaseFenceOf(q) = LeaseFenceOf(row[t])
      BY <2>4, <2>5, <2>7 DEF LeaseFenceOf, Exists, Statuses
    <3>2. CASE KeepsLease(row[t], kind)
      BY <2>3, <2>4, <2>5, <3>1, <3>2, SeenAsNothing DEF KeepsLease
    <3>3. CASE ~ KeepsLease(row[t], kind)
      BY <2>3, <2>4, <2>5, <3>1, <3>3, SeenAsExpire
    <3> QED
      BY <3>2, <3>3
  <2> QED
    BY <2>6, <2>7
<1>4. ASSUME NEW c \in Clients, EnqueueRefused(c) PROVE LeaseStep
  BY <1>4, Stutters DEF EnqueueRefused, SameJobs
<1>5. ASSUME NEW c \in Clients, MarkFailed(c) PROVE LeaseStep
  <2>1. SameJobs
    BY <1>5 DEF MarkFailed, SameJobs
  <2>2. CASE row' = row
    BY <2>1, <2>2, Stutters
  <2>3. CASE row' # row
    <3>1. PICK t \in Tracks : t = req[c].track
      BY <1>5 DEF MarkFailed, TypeOK, Req, NoReq
    <3>2. PICK q : q = Written(row[t], "failed")
      OBVIOUS
    <3>3. SetRow(t, q) /\ Exists(row[t])
      BY <1>5, <2>3, <3>1, <3>2 DEF MarkFailed
    <3>4. q.status = "failed" /\ q.lease = row[t].lease /\ q.attempts = row[t].attempts
      BY <1>t, <3>2 DEF Written, Row
    <3> QED
      BY <2>1, <3>3, <3>4, SeenAsWithdraw DEF LeaseFenceOf, Exists, Statuses
  <2> QED
    BY <2>2, <2>3
<1>6. ASSUME NEW t \in Tracks, DeleteTrack(t) PROVE LeaseStep
  BY <1>6, SeenAsRetire DEF DeleteTrack, SameJobs
<1>7. ASSUME NEW t \in Tracks, BecomesDue(t) PROVE LeaseStep
  <2>1. SameJobs /\ SetRow(t, [row[t] EXCEPT !.avail = "due"])
    BY <1>7 DEF BecomesDue, SameJobs
  <2> QED
    BY <1>t, <2>1, SeenAsNothing DEF Row, LeaseFenceOf
<1>8. ASSUME NEW t \in Tracks, LeaseLapses(t) PROVE LeaseStep
  <2>1. SameJobs /\ SetRow(t, [row[t] EXCEPT !.lease = "lapsed"])
    BY <1>8 DEF LeaseLapses, SameJobs
  <2> QED
    BY <1>t, <2>1, SeenAsExpire DEF Row, LeaseFenceOf
<1>9. ASSUME NEW w \in Workers, Claim(w) \/ ClaimUpgrade(w) PROVE LeaseStep
  <2>1. PICK t \in Tracks : /\ pc[w] = "idle" /\ Hand(w, t)
                            /\ Exists(row[t]) /\ row[t].lease # "live"
    BY <1>9 DEF Claim, ClaimUpgrade, ClaimableUserJob, ClaimableUpgrade, UserJobQueued
  <2> QED
    BY <2>1, SeenAsAcquire
<1>10. ASSUME NEW w \in Workers, Heartbeat(w) PROVE LeaseStep
  <2>1. PICK t \in Tracks : t = TrackOf(w)
    BY <1>10, <1>w DEF Heartbeat, HeartbeatRuns
  <2>2. /\ SameJobs /\ row[t].lease = "live"
        /\ SetRow(t, [row[t] EXCEPT !.lease = "live"])
    BY <1>10, <2>1 DEF Heartbeat, SameJobs, HoldsLease
  <2> QED
    BY <1>t, <2>2, SeenAsNothing DEF Row, LeaseFenceOf
<1>11. ASSUME NEW w \in Workers,
              \/ Cancelled(w) \/ LoadTrack(w) \/ VerifyLease(w) \/ CommitLoad(w)
              \/ RunFails(w) \/ RunRetries(w) \/ RunPanics(w) \/ FailLoad(w)
              \/ RefuseQueued(w)
       PROVE  LeaseStep
  <2>1. /\ row' = row /\ job' = job /\ pc[w] # "idle"
        /\ \E to \in PCs \ {"idle"} : Goto(w, to)
    BY <1>11 DEF Cancelled, LoadTrack, LoadVerdict, VerifyLease, CommitLoad, RunFails,
                 RunRetries, RunPanics, FailLoad, Unrecorded, RefuseQueued, FailTo, EndRun,
                 PCs
  <2> QED
    BY <2>1, StepsOn, Stutters
<1>12. ASSUME NEW w \in Workers, RevertToPending(w) \/ FailWrite(w) PROVE LeaseStep
  <2>1. /\ job' = job /\ pc[w] # "idle"
        /\ \E to \in PCs \ {"idle"} : Goto(w, to)
    BY <1>12 DEF RevertToPending, FailWrite, Unrecorded, EndRun, PCs
  <2>2. SameJobs
    BY <2>1, StepsOn
  <2>3. PICK t \in Tracks : t = TrackOf(w)
    BY <1>w, <2>1
  <2>4. ASSUME NEW s \in {"pending", "failed"}, Exists(row[t]), SetRow(t, Written(row[t], s))
        PROVE  LeaseStep
    <3>1. PICK q : q = Written(row[t], s)
      OBVIOUS
    <3>2. q.status # "ready" /\ q.lease = row[t].lease
          /\ q.attempts = row[t].attempts /\ q.status # "deleted"
      BY <1>t, <3>1 DEF Written, Row
    <3> QED
      BY <2>2, <2>4, <3>1, <3>2, SeenAsWithdraw DEF LeaseFenceOf, Exists, Statuses
  <2> QED
    BY <1>12, <2>2, <2>3, <2>4, Stutters DEF RevertToPending, FailWrite
<1>13. ASSUME NEW w \in Workers, CommitWrite(w) PROVE LeaseStep
  <2>1. /\ job' = job /\ pc[w] = "committing"
        /\ \E to \in PCs \ {"idle"} : Goto(w, to)
    BY <1>13 DEF CommitWrite, EndRun, PCs
  <2>2. SameJobs
    BY <2>1, StepsOn
  <2>3. CASE row' = row
    BY <2>2, <2>3, Stutters
  <2>4. CASE row' # row
    <3>1. /\ Exists(row[TrackOf(w)])
          /\ row[TrackOf(w)].version = view[w].version
          /\ SetRow(TrackOf(w), Written(row[TrackOf(w)], "ready"))
      BY <1>13, <2>4 DEF CommitWrite
    <3>2. FenceMatches(row[TrackOf(w)], FenceOf(w))
      BY <2>1, <3>1 DEF VersionInv, Landing, FenceMatches
    <3> QED
      BY <2>1, <2>2, <3>1, <3>2, SeenAsPublish
  <2> QED
    BY <2>3, <2>4
<1>14. ASSUME NEW w \in Workers, Settle(w) \/ Release(w) \/ ShutdownRelease(w) PROVE LeaseStep
  <2>1. pc[w] # "idle" /\ GoIdle(w)
    BY <1>14 DEF Settle, Release, ShutdownRelease
  <2>2. PICK t \in Tracks : t = TrackOf(w)
    BY <1>w, <2>1
  <2>3. ASSUME NEW q, q \in {Settled(row[t]), Released(row[t], "later"), Released(row[t], "due")},
               \/ row' = row
               \/ FenceMatches(row[t], FenceOf(w)) /\ SetRow(t, q)
        PROVE  LeaseStep
    <3>1. q.lease # "live" /\ q.status = row[t].status /\ q.attempts = row[t].attempts
      BY <1>t, <2>3 DEF Settled, Released, Row
    <3> QED
      BY <2>1, <2>2, <2>3, <3>1, SeenAsLeave
  <2>4. CASE row' = row
    <3>1. PICK q : q = Settled(row[t])
      OBVIOUS
    <3> QED
      BY <2>3, <2>4, <3>1
  <2>5. CASE row' # row
    <3>1. /\ FenceMatches(row[t], FenceOf(w))
          /\ \/ SetRow(t, Settled(row[t]))
             \/ SetRow(t, Released(row[t], "later"))
             \/ SetRow(t, Released(row[t], "due"))
      BY <1>14, <2>2, <2>5 DEF Settle, Release, ShutdownRelease
    <3>2. PICK q : /\ q \in {Settled(row[t]), Released(row[t], "later"), Released(row[t], "due")}
                   /\ SetRow(t, q)
      BY <3>1
    <3>3. FenceMatches(row[t], FenceOf(w)) /\ SetRow(t, q)
      BY <3>1, <3>2
    <3> QED
      BY <3>2, <3>3, <2>3
  <2> QED
    BY <2>4, <2>5
<1>15. ASSUME NEW w \in Workers, Crash(w) PROVE LeaseStep
  <2>1. pc[w] # "idle" /\ GoIdle(w) /\ row' = row
    BY <1>15 DEF Crash
  <2>2. PICK t \in Tracks : t = TrackOf(w)
    BY <1>w, <2>1
  <2>3. PICK q : q = Released(row[t], "due")
    OBVIOUS
  <2>4. q.lease # "live" /\ q.status = row[t].status /\ q.attempts = row[t].attempts
    BY <1>t, <2>3 DEF Released, Row
  <2> QED
    BY <2>1, <2>2, <2>4, SeenAsLeave
<1>16. CASE UNCHANGED vars
  BY <1>16, Stutters DEF vars, SameJobs
<1> QED
  BY <1>1, <1>2, <1>3, <1>4, <1>5, <1>6, <1>7, <1>8, <1>9, <1>10, <1>11, <1>12,
     <1>13, <1>14, <1>15, <1>16 DEF Next, Request, Time, Work, Interrupt

LEMMA InitRefines == Init => Lease!LeaseInit
BY DEF Init, Lease!LeaseInit, LeaseFence, LiveTracks, Grants, ReadyTracks, AbsentRow,
       Lease!NoGrant

\* The job queue implements the fenced lease: whatever the queue, the ledger
\* and the catalog do to a row is a step of the lease, and only the current
\* holder publishes.
THEOREM QueueRefinesLease == Spec => ImplementsFencedLease
<1> DEFINE Inv == TypeOK /\ FenceInv /\ VersionInv
<1>1. Init => Inv
  BY InitTypeOK DEF Init, FenceInv, VersionInv, Landing
<1>2. Inv /\ [Next]_vars => Inv'
  BY NextTypeOK, FenceInvStep, VersionInvStep
<1>3. Inv /\ [Next]_vars => [Lease!LeaseNext]_(Lease!leaseVars)
  BY StepsRefine DEF LeaseStep
<1> QED
  BY <1>1, <1>2, <1>3, InitRefines, PTL DEF Spec, ImplementsFencedLease, Lease!LeaseSpec
=============================================================================
