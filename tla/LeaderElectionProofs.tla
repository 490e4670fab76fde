------------------------ MODULE LeaderElectionProofs ------------------------
(***************************************************************************)
(* What TLAPS proves of LeaderElection, for any number of instances and    *)
(* any interval.                                                           *)
(*                                                                         *)
(* The argument for the settle window: an instance whose session has died  *)
(* begins its next ping within one interval and sees it fail within a      *)
(* second one, while its successor, which was granted the lock no earlier  *)
(* than that, waits for two and a half.                                    *)
(***************************************************************************)
EXTENDS LeaderElection, TLAPS

-----------------------------------------------------------------------------
(* The inductive invariant                                                 *)

\* The session that p relies on no longer holds the lock.
Dead(p) == Took(p) /\ lock # p

\* Only calls take time, and a call is over, or the next tick is due, within
\* an interval of the call's beginning.
SpentInv ==
  \A p \in Instances :
    /\ pc[p] = "waiting" => spent[p] = 0
    /\ ~ stopping[p] /\ pc[p] \in {"locking", "granted", "pinging"}
         => spent[p] + wait[p] <= Interval

\* How long a session can have been dead before its instance knows.
LossInv ==
  \A p \in Instances :
    /\ ~ Dead(p) => lost[p] = 0
    /\ Dead(p) /\ ~ stopping[p] =>
         /\ pc[p] = "waiting" => lost[p] + wait[p] <= Interval
         /\ pc[p] \in {"granted", "pinging"} => lost[p] <= spent[p]
         /\ pc[p] = "doomed" => lost[p] <= Interval + spent[p]

\* A term needs the whole window.
HeldInv ==
  \A p \in Instances :
    /\ ~ conn[p] => held[p] = 0
    /\ leads[p] => held[p] = settleWindow

\* Of two instances that believe they have the lock one is dead, and died no
\* later than the other one won.
ExclInv ==
  \A p, q \in Instances :
    p # q /\ Took(p) /\ Took(q) =>
      \/ Dead(p) /\ held[q] <= lost[p]
      \/ Dead(q) /\ held[p] <= lost[q]

\* A context that is live, or may become so, belongs to the current term.
CtxInv ==
  \A p \in Instances : ctx[p] \in {"asked", "live"} => Leads(p)

-----------------------------------------------------------------------------

LEMMA Window == settleWindow \in Nat /\ Interval \in Nat /\ 2 * Interval < settleWindow
BY ElectionAssumption DEF settleWindow, Interval

LEMMA CancelledType == \A c \in Contexts : cancelled(c) \in Contexts
BY DEF Contexts, cancelled

LEMMA InitInv == Init => TypeOK /\ SpentInv /\ LossInv /\ HeldInv /\ ExclInv /\ CtxInv
BY Window, ElectionAssumption DEF Init, TypeOK, SpentInv, LossInv, HeldInv, ExclInv, CtxInv,
  Took, Dead, PCs, Contexts

\* Every step keeps the state typed, the timers in their limits and a term on
\* a connection.
LEMMA NextTypeOK ==
  ASSUME TypeOK, [Next]_vars
  PROVE  TypeOK'
<1> USE DEF TypeOK
<1>1. ASSUME Tick PROVE TypeOK'
  BY <1>1, Window DEF Tick, UpTo
<1>2. ASSUME SessionDies PROVE TypeOK'
  BY <1>2 DEF SessionDies, timers
<1>3. ASSUME NEW p \in Instances, BeginTick(p) PROVE TypeOK'
  BY <1>3, Window DEF BeginTick, Goto, PCs
<1>4. ASSUME NEW p \in Instances, GrantLock(p) PROVE TypeOK'
  BY <1>4 DEF GrantLock, Goto, timers, PCs
<1>5. ASSUME NEW p \in Instances, WinLock(p) PROVE TypeOK'
  BY <1>5, Window DEF WinLock, Return, Goto, PCs
<1>6. ASSUME NEW p \in Instances, MissLock(p) PROVE TypeOK'
  BY <1>6, Window DEF MissLock, Return, Goto, PCs
<1>7. ASSUME NEW p \in Instances, PingOk(p) PROVE TypeOK'
  BY <1>7, Window DEF PingOk, Return, Goto, PCs
<1>8. ASSUME NEW p \in Instances, PingFails(p) PROVE TypeOK'
  <2>1. ctx' \in [Instances -> Contexts]
    BY <1>8, CancelledType DEF PingFails, Detach
  <2>2. leads' \in [Instances -> BOOLEAN] /\ conn' \in [Instances -> BOOLEAN]
    BY <1>8 DEF PingFails, Detach
  <2>3. /\ held' \in [Instances -> 0..settleWindow]
        /\ lost' \in [Instances -> 0..settleWindow]
        /\ spent' \in [Instances -> 0..Interval]
    BY <1>8, Window DEF PingFails, Detach, Return
  <2>4. pc' \in [Instances -> PCs]
    BY <1>8 DEF PingFails, Return, Goto, PCs
  <2>5. \A q \in Instances : leads'[q] => conn'[q]
    BY <1>8 DEF PingFails, Detach
  <2>6. \A q \in Instances :
          /\ pc'[q] \in {"locking", "granted", "unlocking", "stopped"} => ~ conn'[q]
          /\ pc'[q] \in {"pinging", "doomed"} => conn'[q]
    BY <1>8 DEF PingFails, Detach, Return, Goto, PCs
  <2> QED
    BY <1>8, <2>1, <2>2, <2>3, <2>4, <2>5, <2>6 DEF PingFails
<1>9. ASSUME NEW p \in Instances, Unlock(p) PROVE TypeOK'
  BY <1>9, Window DEF Unlock, Return, Goto, PCs
<1>10. ASSUME NEW p \in Instances, Stop(p) PROVE TypeOK'
  BY <1>10 DEF Stop, timers, Contexts
<1>11. ASSUME NEW p \in Instances, Shutdown(p) PROVE TypeOK'
  <2>1. ctx' \in [Instances -> Contexts]
    BY <1>11, CancelledType DEF Shutdown, Detach
  <2>2. leads' \in [Instances -> BOOLEAN] /\ conn' \in [Instances -> BOOLEAN]
    BY <1>11 DEF Shutdown, Detach
  <2>3. /\ held' \in [Instances -> 0..settleWindow]
        /\ lost' \in [Instances -> 0..settleWindow]
        /\ spent' \in [Instances -> 0..Interval]
    BY <1>11, Window DEF Shutdown, Detach
  <2>4. pc' \in [Instances -> PCs]
    BY <1>11 DEF Shutdown, Goto, PCs
  <2>5. \A q \in Instances : leads'[q] => conn'[q]
    BY <1>11 DEF Shutdown, Detach
  <2>6. \A q \in Instances :
          /\ pc'[q] \in {"locking", "granted", "unlocking", "stopped"} => ~ conn'[q]
          /\ pc'[q] \in {"pinging", "doomed"} => conn'[q]
    BY <1>11 DEF Shutdown, Detach, Goto, PCs
  <2> QED
    BY <1>11, <2>1, <2>2, <2>3, <2>4, <2>5, <2>6 DEF Shutdown
<1>12. ASSUME NEW p \in Instances, Restart(p) PROVE TypeOK'
  BY <1>12, Window DEF Restart, Return, Goto, PCs, Contexts
<1>13. ASSUME NEW p \in Instances, AskContext(p) PROVE TypeOK'
  BY <1>13 DEF AskContext, timers, Contexts
<1>14. ASSUME NEW p \in Instances, IssueContext(p) PROVE TypeOK'
  BY <1>14 DEF IssueContext, timers, Contexts
<1>15. ASSUME NEW p \in Instances, JobEnds(p) PROVE TypeOK'
  BY <1>15 DEF JobEnds, timers, Contexts
<1>16. CASE UNCHANGED vars
  BY <1>16 DEF vars
<1> QED
  BY <1>1, <1>2, <1>3, <1>4, <1>5, <1>6, <1>7, <1>8, <1>9, <1>10, <1>11, <1>12, <1>13, <1>14, <1>15, <1>16 DEF Next, Loop, Process, Job

\* Calls keep within their timeout as long as the instances are on time.
LEMMA NextSpentInv ==
  ASSUME ~ MayStall, TypeOK, SpentInv, [Next]_vars
  PROVE  SpentInv'
<1> USE DEF TypeOK, SpentInv, PCs
<1>1. ASSUME Tick PROVE SpentInv'
  BY <1>1, Window DEF Tick, UpTo, OnTime
<1>2. ASSUME SessionDies PROVE SpentInv'
  BY <1>2 DEF SessionDies, timers
<1>3. ASSUME NEW p \in Instances, BeginTick(p) PROVE SpentInv'
  BY <1>3, Window DEF BeginTick, Goto
<1>4. ASSUME NEW p \in Instances, GrantLock(p) PROVE SpentInv'
  BY <1>4 DEF GrantLock, Goto, timers
<1>5. ASSUME NEW p \in Instances, WinLock(p) PROVE SpentInv'
  BY <1>5 DEF WinLock, Return, Goto
<1>6. ASSUME NEW p \in Instances, MissLock(p) PROVE SpentInv'
  BY <1>6 DEF MissLock, Return, Goto
<1>7. ASSUME NEW p \in Instances, PingOk(p) PROVE SpentInv'
  BY <1>7 DEF PingOk, Return, Goto
<1>8. ASSUME NEW p \in Instances, PingFails(p) PROVE SpentInv'
  BY <1>8 DEF PingFails, Return, Goto, Detach
<1>9. ASSUME NEW p \in Instances, Unlock(p) PROVE SpentInv'
  BY <1>9 DEF Unlock, Return, Goto
<1>10. ASSUME NEW p \in Instances, Stop(p) PROVE SpentInv'
  BY <1>10 DEF Stop, timers
<1>11. ASSUME NEW p \in Instances, Shutdown(p) PROVE SpentInv'
  BY <1>11 DEF Shutdown, Goto, Detach
<1>12. ASSUME NEW p \in Instances, Restart(p) PROVE SpentInv'
  BY <1>12 DEF Restart, Return, Goto
<1>13. ASSUME NEW p \in Instances, AskContext(p) PROVE SpentInv'
  BY <1>13 DEF AskContext, timers
<1>14. ASSUME NEW p \in Instances, IssueContext(p) PROVE SpentInv'
  BY <1>14 DEF IssueContext, timers
<1>15. ASSUME NEW p \in Instances, JobEnds(p) PROVE SpentInv'
  BY <1>15 DEF JobEnds, timers
<1>16. CASE UNCHANGED vars
  BY <1>16 DEF vars
<1> QED
  BY <1>1, <1>2, <1>3, <1>4, <1>5, <1>6, <1>7, <1>8, <1>9, <1>10, <1>11, <1>12, <1>13, <1>14, <1>15, <1>16 DEF Next, Loop, Process, Job

\* A loss is noticed in time.
LEMMA NextLossInv ==
  ASSUME ~ MayStall, TypeOK, SpentInv, LossInv, [Next]_vars
  PROVE  LossInv'
<1> USE DEF TypeOK, SpentInv, LossInv, Dead, Took, PCs
<1>1. ASSUME Tick PROVE LossInv'
  BY <1>1, Window DEF Tick, UpTo, OnTime
<1>2. ASSUME SessionDies PROVE LossInv'
  BY <1>2, ElectionAssumption, Window DEF SessionDies, timers
<1>3. ASSUME NEW p \in Instances, BeginTick(p) PROVE LossInv'
  BY <1>3, Window DEF BeginTick, Goto
<1>4. ASSUME NEW p \in Instances, GrantLock(p) PROVE LossInv'
  BY <1>4, Window, ElectionAssumption DEF GrantLock, Goto, timers
<1>5. ASSUME NEW p \in Instances, WinLock(p) PROVE LossInv'
  BY <1>5, Window DEF WinLock, Return, Goto
<1>6. ASSUME NEW p \in Instances, MissLock(p) PROVE LossInv'
  BY <1>6, ElectionAssumption, Window DEF MissLock, Return, Goto
<1>7. ASSUME NEW p \in Instances, PingOk(p) PROVE LossInv'
  BY <1>7, Window DEF PingOk, Return, Goto
<1>8. ASSUME NEW p \in Instances, PingFails(p) PROVE LossInv'
  BY <1>8 DEF PingFails, Return, Goto, Detach
<1>9. ASSUME NEW p \in Instances, Unlock(p) PROVE LossInv'
  BY <1>9, Window, ElectionAssumption DEF Unlock, Return, Goto
<1>10. ASSUME NEW p \in Instances, Stop(p) PROVE LossInv'
  BY <1>10 DEF Stop, timers
<1>11. ASSUME NEW p \in Instances, Shutdown(p) PROVE LossInv'
  BY <1>11 DEF Shutdown, Goto, Detach
<1>12. ASSUME NEW p \in Instances, Restart(p) PROVE LossInv'
  BY <1>12, Window, ElectionAssumption DEF Restart, Return, Goto
<1>13. ASSUME NEW p \in Instances, AskContext(p) PROVE LossInv'
  BY <1>13 DEF AskContext, timers
<1>14. ASSUME NEW p \in Instances, IssueContext(p) PROVE LossInv'
  BY <1>14 DEF IssueContext, timers
<1>15. ASSUME NEW p \in Instances, JobEnds(p) PROVE LossInv'
  BY <1>15 DEF JobEnds, timers
<1>16. CASE UNCHANGED vars
  BY <1>16 DEF vars
<1> QED
  BY <1>1, <1>2, <1>3, <1>4, <1>5, <1>6, <1>7, <1>8, <1>9, <1>10, <1>11, <1>12, <1>13, <1>14, <1>15, <1>16 DEF Next, Loop, Process, Job

\* A term begins no earlier than the window ends, and lasts no longer than
\* the connection.
LEMMA NextHeldInv ==
  ASSUME TypeOK, HeldInv, [Next]_vars
  PROVE  HeldInv'
<1> USE DEF TypeOK, HeldInv, PCs
<1>1. ASSUME Tick PROVE HeldInv'
  BY <1>1, Window DEF Tick, UpTo
<1>2. ASSUME SessionDies PROVE HeldInv'
  BY <1>2 DEF SessionDies, timers
<1>3. ASSUME NEW p \in Instances, BeginTick(p) PROVE HeldInv'
  BY <1>3 DEF BeginTick, Goto
<1>4. ASSUME NEW p \in Instances, GrantLock(p) PROVE HeldInv'
  BY <1>4 DEF GrantLock, Goto, timers
<1>5. ASSUME NEW p \in Instances, WinLock(p) PROVE HeldInv'
  BY <1>5 DEF WinLock, Return, Goto
<1>6. ASSUME NEW p \in Instances, MissLock(p) PROVE HeldInv'
  BY <1>6 DEF MissLock, Return, Goto
<1>7. ASSUME NEW p \in Instances, PingOk(p) PROVE HeldInv'
  BY <1>7, Window DEF PingOk, Return, Goto
<1>8. ASSUME NEW p \in Instances, PingFails(p) PROVE HeldInv'
  BY <1>8 DEF PingFails, Return, Goto, Detach
<1>9. ASSUME NEW p \in Instances, Unlock(p) PROVE HeldInv'
  BY <1>9 DEF Unlock, Return, Goto
<1>10. ASSUME NEW p \in Instances, Stop(p) PROVE HeldInv'
  BY <1>10 DEF Stop, timers
<1>11. ASSUME NEW p \in Instances, Shutdown(p) PROVE HeldInv'
  BY <1>11 DEF Shutdown, Goto, Detach
<1>12. ASSUME NEW p \in Instances, Restart(p) PROVE HeldInv'
  BY <1>12 DEF Restart, Return, Goto
<1>13. ASSUME NEW p \in Instances, AskContext(p) PROVE HeldInv'
  BY <1>13 DEF AskContext, timers
<1>14. ASSUME NEW p \in Instances, IssueContext(p) PROVE HeldInv'
  BY <1>14 DEF IssueContext, timers
<1>15. ASSUME NEW p \in Instances, JobEnds(p) PROVE HeldInv'
  BY <1>15 DEF JobEnds, timers
<1>16. CASE UNCHANGED vars
  BY <1>16 DEF vars
<1> QED
  BY <1>1, <1>2, <1>3, <1>4, <1>5, <1>6, <1>7, <1>8, <1>9, <1>10, <1>11, <1>12, <1>13, <1>14, <1>15, <1>16 DEF Next, Loop, Process, Job

\* A grant finds every other believer dead.
LEMMA NextExclInv ==
  ASSUME TypeOK, LossInv, HeldInv, ExclInv, [Next]_vars
  PROVE  ExclInv'
<1> USE DEF TypeOK, LossInv, HeldInv, ExclInv, Dead, Took, PCs
<1>1. ASSUME Tick PROVE ExclInv'
  BY <1>1, Window DEF Tick, UpTo
<1>2. ASSUME SessionDies PROVE ExclInv'
  BY <1>2, ElectionAssumption DEF SessionDies, timers
<1>3. ASSUME NEW p \in Instances, BeginTick(p) PROVE ExclInv'
  BY <1>3 DEF BeginTick, Goto
<1>4. ASSUME NEW p \in Instances, GrantLock(p) PROVE ExclInv'
  BY <1>4, Window DEF GrantLock, Goto, timers
<1>5. ASSUME NEW p \in Instances, WinLock(p) PROVE ExclInv'
  BY <1>5 DEF WinLock, Return, Goto
<1>6. ASSUME NEW p \in Instances, MissLock(p) PROVE ExclInv'
  BY <1>6, ElectionAssumption DEF MissLock, Return, Goto
<1>7. ASSUME NEW p \in Instances, PingOk(p) PROVE ExclInv'
  BY <1>7 DEF PingOk, Return, Goto
<1>8. ASSUME NEW p \in Instances, PingFails(p) PROVE ExclInv'
  BY <1>8 DEF PingFails, Return, Goto, Detach
<1>9. ASSUME NEW p \in Instances, Unlock(p) PROVE ExclInv'
  BY <1>9, ElectionAssumption DEF Unlock, Return, Goto
<1>10. ASSUME NEW p \in Instances, Stop(p) PROVE ExclInv'
  BY <1>10 DEF Stop, timers
<1>11. ASSUME NEW p \in Instances, Shutdown(p) PROVE ExclInv'
  BY <1>11 DEF Shutdown, Goto, Detach
<1>12. ASSUME NEW p \in Instances, Restart(p) PROVE ExclInv'
  BY <1>12, ElectionAssumption DEF Restart, Return, Goto
<1>13. ASSUME NEW p \in Instances, AskContext(p) PROVE ExclInv'
  BY <1>13 DEF AskContext, timers
<1>14. ASSUME NEW p \in Instances, IssueContext(p) PROVE ExclInv'
  BY <1>14 DEF IssueContext, timers
<1>15. ASSUME NEW p \in Instances, JobEnds(p) PROVE ExclInv'
  BY <1>15 DEF JobEnds, timers
<1>16. CASE UNCHANGED vars
  BY <1>16 DEF vars
<1> QED
  BY <1>1, <1>2, <1>3, <1>4, <1>5, <1>6, <1>7, <1>8, <1>9, <1>10, <1>11, <1>12, <1>13, <1>14, <1>15, <1>16 DEF Next, Loop, Process, Job

\* A context dies with its term.
LEMMA NextCtxInv ==
  ASSUME TypeOK, CtxInv, [Next]_vars
  PROVE  CtxInv'
<1> USE DEF TypeOK, CtxInv, Leads, Contexts
<1>1. ASSUME Tick PROVE CtxInv'
  BY <1>1 DEF Tick, UpTo
<1>2. ASSUME SessionDies PROVE CtxInv'
  BY <1>2 DEF SessionDies, timers
<1>3. ASSUME NEW p \in Instances, BeginTick(p) PROVE CtxInv'
  BY <1>3 DEF BeginTick, Goto
<1>4. ASSUME NEW p \in Instances, GrantLock(p) PROVE CtxInv'
  BY <1>4 DEF GrantLock, Goto, timers
<1>5. ASSUME NEW p \in Instances, WinLock(p) PROVE CtxInv'
  BY <1>5 DEF WinLock, Return, Goto
<1>6. ASSUME NEW p \in Instances, MissLock(p) PROVE CtxInv'
  BY <1>6 DEF MissLock, Return, Goto
<1>7. ASSUME NEW p \in Instances, PingOk(p) PROVE CtxInv'
  BY <1>7 DEF PingOk, Return, Goto
<1>8. ASSUME NEW p \in Instances, PingFails(p) PROVE CtxInv'
  BY <1>8 DEF PingFails, Return, Goto, Detach, cancelled
<1>9. ASSUME NEW p \in Instances, Unlock(p) PROVE CtxInv'
  BY <1>9 DEF Unlock, Return, Goto
<1>10. ASSUME NEW p \in Instances, Stop(p) PROVE CtxInv'
  BY <1>10 DEF Stop, timers
<1>11. ASSUME NEW p \in Instances, Shutdown(p) PROVE CtxInv'
  BY <1>11 DEF Shutdown, Goto, Detach, cancelled
<1>12. ASSUME NEW p \in Instances, Restart(p) PROVE CtxInv'
  BY <1>12 DEF Restart, Return, Goto
<1>13. ASSUME NEW p \in Instances, AskContext(p) PROVE CtxInv'
  BY <1>13 DEF AskContext, timers
<1>14. ASSUME NEW p \in Instances, IssueContext(p) PROVE CtxInv'
  BY <1>14 DEF IssueContext, timers
<1>15. ASSUME NEW p \in Instances, JobEnds(p) PROVE CtxInv'
  BY <1>15 DEF JobEnds, timers
<1>16. CASE UNCHANGED vars
  BY <1>16 DEF vars
<1> QED
  BY <1>1, <1>2, <1>3, <1>4, <1>5, <1>6, <1>7, <1>8, <1>9, <1>10, <1>11, <1>12, <1>13, <1>14, <1>15, <1>16 DEF Next, Loop, Process, Job

-----------------------------------------------------------------------------
(* What follows                                                            *)

LEMMA WindowIsEnough ==
  ASSUME TypeOK, SpentInv, LossInv, HeldInv, ExclInv
  PROVE  AtMostOneLeader
<1> SUFFICES ASSUME NEW p \in Instances, NEW q \in Instances, p # q, Leads(p), Leads(q)
             PROVE  FALSE
  BY DEF AtMostOneLeader
<1> DEFINE Loses(i, j) == Dead(i) /\ held[j] <= lost[i]
<1>1. ASSUME NEW i \in Instances, NEW j \in Instances, Leads(i), Leads(j), Loses(i, j)
      PROVE  FALSE
  <2>1. held[j] = settleWindow
    BY <1>1 DEF HeldInv, Leads
  <2>2. lost[i] <= 2 * Interval
    <3>1. pc[i] \in {"waiting", "pinging", "doomed"} /\ ~ stopping[i]
      BY <1>1 DEF TypeOK, Leads, PCs
    <3>2. lost[i] \in Nat /\ wait[i] \in Nat /\ spent[i] \in Nat /\ spent[i] <= Interval
      BY Window DEF TypeOK
    <3> QED
      BY <1>1, <3>1, <3>2, Window DEF LossInv
  <2> QED
    BY <1>1, <2>1, <2>2, Window DEF TypeOK
<1>2. Loses(p, q) \/ Loses(q, p)
  BY DEF ExclInv, Leads, TypeOK, Took
<1> QED
  BY <1>1, <1>2

\* The variables keep their types, for any number of instances, and even if
\* instances stall.
THEOREM TypeCorrect == Spec => []TypeOK
<1>1. Init => TypeOK
  BY InitInv
<1>2. TypeOK /\ [Next]_vars => TypeOK'
  BY NextTypeOK
<1> QED
  BY <1>1, <1>2, PTL DEF Spec

IInv == TypeOK /\ SpentInv /\ LossInv /\ HeldInv /\ ExclInv /\ CtxInv

LEMMA IInvInductive == ASSUME ~ MayStall PROVE Spec => []IInv
<1>1. Init => IInv
  BY InitInv DEF IInv
<1>2. IInv /\ [Next]_vars => IInv'
  BY NextTypeOK, NextSpentInv, NextLossInv, NextHeldInv, NextExclInv, NextCtxInv DEF IInv
<1> QED
  BY <1>1, <1>2, PTL DEF Spec

\* However many instances compete and whatever the interval, two of them
\* never lead at once as long as none is late.
THEOREM OneLeader == ASSUME ~ MayStall PROVE Spec => []AtMostOneLeader
<1>1. IInv => AtMostOneLeader
  BY WindowIsEnough DEF IInv
<1> QED
  BY <1>1, IInvInductive, PTL

\* Nor do two instances ever run leader-only work under a live context.
THEOREM OneInstanceAtWork == ASSUME ~ MayStall PROVE Spec => []LeaderWorkIsExclusive
<1>1. IInv => LeaderWorkIsExclusive
  BY WindowIsEnough DEF IInv, CtxInv, AtMostOneLeader, LeaderWorkIsExclusive
<1> QED
  BY <1>1, IInvInductive, PTL
=============================================================================
