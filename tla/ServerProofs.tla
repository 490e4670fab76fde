---------------------------- MODULE ServerProofs ----------------------------
(***************************************************************************)
(* What TLAPS proves of the parts of the servers that MC_Server checks on  *)
(* finite instances: SchedulerShutdown, ErasureSweep and RefreshingToken,  *)
(* for any number of workers, calls, tracks, owners and processes, and     *)
(* whatever fails, however often.                                          *)
(***************************************************************************)
EXTENDS SchedulerShutdown, ErasureSweep, RefreshingToken, TLAPS

-----------------------------------------------------------------------------
(* The shutdown of the scheduler.  Closing the admission waits for the     *)
(* claims under way, so that no job begins once it is closed, and what     *)
(* Shutdown has found empty stays empty.  A track that is counted after    *)
(* the sweep belongs to a call that counted it and has not looked at       *)
(* closed yet.                                                             *)

\* No claim is under way once the admission is closed.
AdmissionInv ==
  /\ closed <=> shutdown \notin {"serving", "closing"}
  /\ closed => Admission

DrainInv == drained => closed /\ Jobs = {}

\* What Shutdown has waited for, unless its context ended.
WaitInv ==
  \/ expired
  \/ /\ shutdown = "runners" => drained
     /\ shutdown \in {"outcomes", "sweep", "done"} => Runners = {} /\ ~ listening
     /\ shutdown \in {"sweep", "done"} => outcomes = 0

\* A call that was made names a track.
CallInv == \A c \in Calls : call[c].pc # "new" => call[c].track \in Tracks

\* The call has counted the track, and will uncount it if it finds closed.
Counts(c, t) ==
  call[c].pc \in {"enqueue", "finish"} /\ call[c].track = t /\ ~ call[c].already

LateInv == shutdown = "done" => \A t \in pending : \E c \in Calls : Counts(c, t)

Inv == TypeOK /\ CallInv /\ AdmissionInv /\ DrainInv /\ WaitInv /\ LateInv

-----------------------------------------------------------------------------
(* Calls                                                                   *)

\* A call changes nothing that the workers and Shutdown look at.
LEMMA CallLeavesTheRest ==
  ASSUME AdmissionInv, DrainInv, WaitInv, UNCHANGED <<stop, signals, worker, outcomes>>
  PROVE  AdmissionInv' /\ DrainInv' /\ WaitInv'
BY DEF AdmissionInv, DrainInv, WaitInv, stop, signals, Admission, Jobs, Runners

\* Of the tracks that stay counted, those a call counts that goes on keep it.
LEMMA CallKeepsLate ==
  ASSUME Inv, NEW c \in Calls, UNCHANGED shutdown,
         \A d \in Calls \ {c} : (call[d])' = call[d],
         pending' \subseteq pending,
         \A t \in pending' : Counts(c, t) => Counts(c, t)'
  PROVE  LateInv'
<1> SUFFICES ASSUME shutdown = "done", NEW t \in pending'
             PROVE  \E d \in Calls : Counts(d, t)'
  BY DEF LateInv
<1>1. PICK d \in Calls : Counts(d, t)
  BY DEF Inv, LateInv
<1>2. Counts(d, t)'
  BY <1>1 DEF Counts
<1> QED BY <1>2

LEMMA CallKeepsInv ==
  ASSUME Inv, NEW c \in Calls, NEW t \in Tracks, Call(c, t)
  PROVE  Inv'
<1> USE DEF Call
<1>1. TypeOK' /\ CallInv'
  BY DEF Inv, TypeOK, CallInv, CallSteps, stop, signals
<1>2. LateInv'
  BY CallKeepsLate DEF Inv, TypeOK, Counts, stop
<1> QED BY <1>1, <1>2, CallLeavesTheRest DEF Inv

\* A call that counts the track first vouches for it.
LEMMA TrackKeepsInv ==
  ASSUME Inv, NEW c \in Calls, Track(c)
  PROVE  Inv'
<1> USE DEF Track
<1>1. TypeOK' /\ CallInv'
  <2>1. call[c].track \in Tracks /\ (call[c].track \in pending) \in BOOLEAN
    BY DEF Inv, CallInv
  <2>2. call' \in [Calls -> [pc : CallSteps, track : Tracks \cup {NoTrack}, already : BOOLEAN]]
    BY <2>1 DEF Inv, TypeOK, CallSteps
  <2>3. CallInv'
    BY <2>1 DEF Inv, TypeOK, CallInv
  <2> QED BY <2>1, <2>2, <2>3 DEF Inv, TypeOK, stop, signals
<1>2. LateInv'
  <2> SUFFICES ASSUME shutdown = "done", NEW t \in pending'
               PROVE  \E d \in Calls : Counts(d, t)'
    BY DEF LateInv, stop
  <2>1. CASE t \in pending
    <3>1. PICK d \in Calls : Counts(d, t)
      BY <2>1 DEF Inv, LateInv
    <3>2. d # c
      BY <3>1 DEF Counts
    <3> QED BY <3>1, <3>2 DEF Inv, TypeOK, Counts
  <2>2. CASE t \notin pending
    <3>1. Counts(c, t)'
      BY <2>2 DEF Inv, TypeOK, Counts
    <3> QED BY <3>1
  <2> QED BY <2>1, <2>2
<1> QED BY <1>1, <1>2, CallLeavesTheRest DEF Inv

LEMMA EnqueueKeepsInv ==
  ASSUME Inv, NEW c \in Calls, Enqueue(c)
  PROVE  Inv'
<1> USE DEF Enqueue, CallAt
<1>1. TypeOK' /\ CallInv'
  BY DEF Inv, TypeOK, CallInv, CallSteps, stop, signals
<1>2. LateInv'
  BY CallKeepsLate DEF Inv, TypeOK, Counts, stop
<1> QED BY <1>1, <1>2, CallLeavesTheRest DEF Inv

\* A call that fails uncounts its track if it was the one that counted it.
LEMMA EnqueueFailsKeepsInv ==
  ASSUME Inv, NEW c \in Calls, EnqueueFails(c)
  PROVE  Inv'
<1> USE DEF EnqueueFails, CallAt
<1>1. TypeOK' /\ CallInv'
  BY DEF Inv, TypeOK, CallInv, CallSteps, stop, signals
<1>2. LateInv'
  <2>1. \A t \in pending' : ~ Counts(c, t)
    BY DEF Counts
  <2> QED BY <2>1, CallKeepsLate DEF Inv, TypeOK, stop
<1> QED BY <1>1, <1>2, CallLeavesTheRest DEF Inv

\* A call that comes late finds the scheduler closed.
LEMMA FinishEnqueueKeepsInv ==
  ASSUME Inv, NEW c \in Calls, FinishEnqueue(c)
  PROVE  Inv'
<1> USE DEF FinishEnqueue, UntrackedIfLate, CallAt
<1>1. TypeOK' /\ CallInv'
  BY DEF Inv, TypeOK, CallInv, CallSteps, stop, signals
<1>2. LateInv'
  <2>1. CASE shutdown = "done"
    <3>1. closed
      BY <2>1 DEF Inv, AdmissionInv
    <3>2. \A t \in pending' : ~ Counts(c, t)
      BY <3>1 DEF Counts
    <3> QED BY <3>2, CallKeepsLate DEF Inv, TypeOK, stop
  <2>2. CASE shutdown # "done"
    BY <2>2 DEF LateInv, stop
  <2> QED BY <2>1, <2>2
<1> QED BY <1>1, <1>2, CallLeavesTheRest DEF Inv

-----------------------------------------------------------------------------
(* Workers                                                                 *)

\* What a worker does keeps the invariant, if no worker claims or takes up a job
\* once the admission is closed, nobody comes back, and outcomes come from runs.
LEMMA WorkerKeepsInv ==
  ASSUME Inv, NEW w \in Workers, TypeOK', UNCHANGED <<stop, signals, call>>,
         pending' \subseteq pending,
         \A x \in Workers \ {w} : (worker[x])' = worker[x],
         closed => (worker[w])'.pc # "claim",
         closed /\ w \notin Jobs => w \notin Jobs',
         worker[w].pc # "gone",
         outcomes' = outcomes \/ worker[w].pc = "run"
  PROVE  Inv'
<1>1. CallInv' /\ LateInv'
  BY DEF Inv, CallInv, LateInv, Counts, stop
<1>2. AdmissionInv'
  BY DEF Inv, AdmissionInv, Admission, stop
<1>3. DrainInv'
  BY DEF Inv, DrainInv, Jobs, stop
<1>4. w \in Runners
  BY DEF Runners
<1>5. WaitInv'
  BY <1>4 DEF Inv, WaitInv, stop, signals
<1> QED BY <1>1, <1>2, <1>3, <1>5 DEF Inv

LEMMA WorkerStepKeepsInv ==
  ASSUME Inv, NEW w \in Workers, WorkerStep(w)
  PROVE  Inv'
<1> USE DEF At
<1>1. /\ worker[w].pc \in WorkerSteps
      /\ worker[w].track \in Tracks \cup {NoTrack}
      /\ closed => worker[w].pc # "claim"
  BY DEF Inv, TypeOK, AdmissionInv, Admission
<1>2. CASE Loop(w)
  BY <1>1, <1>2, WorkerKeepsInv DEF Loop, Inv, TypeOK, WorkerSteps, Jobs, stop, signals
<1>3. CASE Claim(w)
  BY <1>1, <1>3, WorkerKeepsInv DEF Claim, Inv, TypeOK, WorkerSteps, Jobs, stop, signals
<1>4. CASE NoClaim(w)
  BY <1>1, <1>4, WorkerKeepsInv DEF NoClaim, Inv, TypeOK, WorkerSteps, Jobs, stop, signals
<1>5. CASE IdleWait(w)
  BY <1>1, <1>5, WorkerKeepsInv DEF IdleWait, Inv, TypeOK, WorkerSteps, Jobs, stop, signals
<1>6. CASE RunEnds(w)
  BY <1>1, <1>6, WorkerKeepsInv DEF RunEnds, Inv, TypeOK, WorkerSteps, Jobs, stop, signals
<1>7. CASE Finish(w)
  BY <1>1, <1>7, WorkerKeepsInv DEF Finish, Inv, TypeOK, WorkerSteps, Jobs, stop, signals
<1>8. CASE Untrack(w)
  BY <1>1, <1>8, WorkerKeepsInv DEF Untrack, Inv, TypeOK, WorkerSteps, Jobs, stop, signals
<1> QED BY <1>2, <1>3, <1>4, <1>5, <1>6, <1>7, <1>8 DEF WorkerStep

-----------------------------------------------------------------------------
(* Recorders, the listener, the pause, and the context of Shutdown         *)

\* Outcomes, the listener and the context only go one way.
LEMMA SignalKeepsInv ==
  ASSUME Inv, Recorded \/ ListenerEnds \/ PauseOrResume \/ Expire
  PROVE  Inv'
<1> USE DEF Recorded, ListenerEnds, PauseOrResume, Expire
<1>1. TypeOK'
  <2>1. outcomes' \in Nat
    BY DEF Inv, TypeOK, signals
  <2>2. expired' \in BOOLEAN /\ paused' \in BOOLEAN /\ listening' \in BOOLEAN
    BY DEF Inv, TypeOK, signals
  <2> QED BY <2>1, <2>2 DEF Inv, TypeOK, stop, signals
<1>2. UNCHANGED <<stop, worker, call, pending>>
  BY DEF signals
<1>3. CallInv' /\ AdmissionInv' /\ DrainInv' /\ LateInv'
  BY <1>2 DEF Inv, CallInv, AdmissionInv, Admission, DrainInv, Jobs, LateInv, Counts, stop
<1>4. WaitInv'
  BY <1>2 DEF Inv, TypeOK, WaitInv, Runners, stop, signals
<1> QED BY <1>1, <1>3, <1>4 DEF Inv

-----------------------------------------------------------------------------
(* Shutdown                                                                *)

LEMMA ShutdownKeepsInv ==
  ASSUME Inv, ShutdownStep
  PROVE  Inv'
<1>1. UNCHANGED <<signals, worker, outcomes, call, queued>>
  BY DEF ShutdownStep
<1>2. CallInv' /\ Jobs' = Jobs /\ Runners' = Runners /\ Admission' = Admission
  BY <1>1 DEF Inv, CallInv, Jobs, Runners, Admission
<1>3. ASSUME TypeOK', AdmissionInv', DrainInv', WaitInv', LateInv' PROVE Inv'
  BY <1>2, <1>3 DEF Inv
<1> USE <1>1, <1>2 DEF Inv, TypeOK, Stages, AdmissionInv, DrainInv, WaitInv, LateInv, signals
<1>4. CASE Begin
  BY <1>3, <1>4 DEF Begin
<1>5. CASE CloseAdmission
  BY <1>3, <1>5 DEF CloseAdmission
<1>6. CASE AwaitDrainBudget
  BY <1>3, <1>6 DEF AwaitDrainBudget
<1>7. CASE Cancel
  BY <1>3, <1>7 DEF Cancel
<1>8. CASE AwaitCancelledJobs
  BY <1>3, <1>8 DEF AwaitCancelledJobs
<1>9. CASE WaitRunners
  BY <1>3, <1>9 DEF WaitRunners
<1>10. CASE WaitOutcomes
  BY <1>3, <1>10 DEF WaitOutcomes
<1>11. CASE Sweep
  BY <1>3, <1>11 DEF Sweep
<1> QED
  BY <1>4, <1>5, <1>6, <1>7, <1>8, <1>9, <1>10, <1>11 DEF ShutdownStep

\* Every step keeps the invariant.
LEMMA StepKeepsInv ==
  ASSUME Inv, [Next]_vars
  PROVE  Inv'
<1>1. CASE UNCHANGED vars
  BY <1>1 DEF vars, stop, signals, Inv, TypeOK, CallInv, AdmissionInv, Admission, DrainInv,
              Jobs, WaitInv, Runners, LateInv, Counts
<1>2. ASSUME NEW c \in Calls, NEW t \in Tracks, Call(c, t) PROVE Inv'
  BY <1>2, CallKeepsInv
<1>3. ASSUME NEW c \in Calls, CallStep(c) PROVE Inv'
  BY <1>3, TrackKeepsInv, EnqueueKeepsInv, EnqueueFailsKeepsInv, FinishEnqueueKeepsInv
     DEF CallStep
<1>4. ASSUME NEW w \in Workers, WorkerStep(w) PROVE Inv'
  BY <1>4, WorkerStepKeepsInv
<1>5. CASE Recorded \/ ListenerEnds \/ PauseOrResume \/ Expire
  BY <1>5, SignalKeepsInv
<1>6. CASE ShutdownStep
  BY <1>6, ShutdownKeepsInv
<1> QED BY <1>1, <1>2, <1>3, <1>4, <1>5, <1>6 DEF Next

-----------------------------------------------------------------------------
(* Theorems                                                                *)

LEMMA InvHolds == Spec => []Inv
<1>1. Init => Inv
  <2> SUFFICES ASSUME Init PROVE Inv
    OBVIOUS
  <2>1. TypeOK
    BY DEF Init, TypeOK, Stages, WorkerSteps, CallSteps
  <2>2. CallInv /\ AdmissionInv /\ DrainInv /\ WaitInv /\ LateInv
    BY DEF Init, CallInv, AdmissionInv, DrainInv, WaitInv, LateInv
  <2> QED BY <2>1, <2>2 DEF Inv
<1>2. Inv /\ [Next]_vars => Inv'
  BY StepKeepsInv
<1> QED BY <1>1, <1>2, PTL DEF Spec

\* The worker loops, the calls of enqueue and the stages of Shutdown stay among
\* those of the code, and the tracks that are counted or queued are tracks.
THEOREM SchedulerTypeCorrect == Spec => []TypeOK
<1>1. Inv => TypeOK
  BY DEF Inv
<1> QED BY <1>1, InvHolds, PTL

\* Once Scheduler.Shutdown has found the jobs drained none runs again, and unless
\* its context ends first it leaves no worker, listener or outcome behind.
THEOREM ShutdownIsClean == Spec => []StopsCleanly
<1>1. Inv => StopsCleanly
  BY DEF Inv, DrainInv, WaitInv, StopsCleanly
<1> QED BY <1>1, InvHolds, PTL

\* After Scheduler.Shutdown, when the calls of enqueue have returned, the wait
\* group that its caller waits for is at zero.
THEOREM NobodyStaysCounted == Spec => []NothingLeftPending
<1>1. Inv => NothingLeftPending
  BY DEF Inv, LateInv, Counts, NothingLeftPending
<1> QED BY <1>1, InvHolds, PTL

-----------------------------------------------------------------------------
(* The erasure sweep.  Whoever a run is about to forget, failed to forget  *)
(* or kept for the next run has been deleted, since the owners were listed *)
(* while some identity could be seen, and nobody is ever restored.         *)

SweepInv == todo \subseteq deleted /\ failed \subseteq deleted /\ retry \subseteq deleted

\* keepForRetry keeps nobody else than those it is given.
LEMMA KeptAreGiven ==
  ASSUME NEW owners, Keep(owners)
  PROVE  retry' \subseteq retry \cup owners
BY DEF Keep

LEMMA SweepStepKeepsInv ==
  ASSUME SweepInv, [SweepNext]_sweepVars
  PROVE  SweepInv' /\ (live' = live \/ live \ live' \subseteq deleted)
<1> USE DEF SweepInv
<1>1. CASE BeginRun
  BY <1>1 DEF BeginRun
<1>2. CASE ForgetDeletedAccount
  BY <1>2 DEF ForgetDeletedAccount
<1>3. CASE RetriesDone
  BY <1>3, KeptAreGiven DEF RetriesDone, ToList
<1>4. CASE ListOwners
  <2>1. todo' \subseteq deleted
    BY <1>4 DEF ListOwners, SomeIdentity
  <2> QED BY <1>4, <2>1 DEF ListOwners
<1>5. CASE PageDone
  BY <1>5, KeptAreGiven DEF PageDone, ToList, EndRun
<1>6. CASE RetriesInterrupted
  BY <1>6, KeptAreGiven DEF RetriesInterrupted, EndRun
<1>7. CASE ListFails
  BY <1>7 DEF ListFails, EndRun
<1>8. CASE PageInterrupted
  BY <1>8, KeptAreGiven DEF PageInterrupted, EndRun
<1>9. CASE SweepRestart
  BY <1>9 DEF SweepRestart
<1>10. CASE \E u \in Users : Delete(u) \/ SaveOnceMore(u)
  BY <1>10 DEF Delete, SaveOnceMore, run
<1>11. CASE Hide \/ Unhide
  BY <1>11 DEF Hide, Unhide, run
<1>12. CASE UNCHANGED sweepVars
  BY <1>12 DEF sweepVars
<1> QED BY <1>1, <1>2, <1>3, <1>4, <1>5, <1>6, <1>7, <1>8, <1>9, <1>10, <1>11, <1>12
        DEF SweepNext, GoOn

\* ForgetDeletedAccount erases the queue state of deleted accounts only, though
\* it works from lists that are as old as the retry set and though the service
\* may lose sight of the identities at any time.
THEOREM OnlyDeletedForgotten == SweepSpec => OnlyDeletedAreErased
<1>1. SweepInit => SweepInv
  BY DEF SweepInit, SweepInv
<1>2. SweepInv /\ [SweepNext]_sweepVars => SweepInv'
  BY SweepStepKeepsInv
<1>3. SweepInv /\ [SweepNext]_sweepVars => [live \ live' \subseteq deleted]_live
  BY SweepStepKeepsInv
<1> QED BY <1>1, <1>2, <1>3, PTL DEF SweepSpec, OnlyDeletedAreErased

-----------------------------------------------------------------------------
(* The refresh tokens.  While no rotation was missed, who works on the     *)
(* chain holds the lock, and what it presents is the token at the end of   *)
(* the chain: the one in the file, or the configured one before the first  *)
(* rotation.                                                               *)

Critical == {"adopt", "send", "sign", "save"}

Chain == IF file = 0 THEN Configured ELSE file

LockInv == \A p \in Processes : proc[p].pc \in Critical => lock = p

\* A source holds what it last read from the file or wrote to it.
HeldInv ==
  \A p \in Processes :
    proc[p].pc # "save" =>
      /\ proc[p].held = IF proc[p].stored = 0 THEN Configured ELSE proc[p].stored
      /\ file = 0 => proc[p].stored = 0

\* The chain is good, but for a rotation that is about to be saved.
ChainInv ==
  /\ \A p \in Processes : proc[p].pc = "send" => proc[p].held = Chain
  /\ \A p \in Processes : proc[p].pc = "save" => proc[p].held \in valid
  /\ (\A p \in Processes : proc[p].pc # "save") => Chain = 0 \/ Chain \in valid

SpentInv == \A t \in 1..issued : presented[t] <= 1 /\ (t \in valid => presented[t] = 0)

Unbroken == LockInv /\ HeldInv /\ ChainInv /\ SpentInv

TokenInv == TokenTypeOK /\ Configured <= issued /\ (~ broken => Unbroken)

LEMMA SetChanges ==
  ASSUME DOMAIN proc = Processes, NEW p \in Processes, NEW s, Set(p, s)
  PROVE  /\ DOMAIN proc' = Processes /\ proc'[p] = s
         /\ \A q \in Processes \ {p} : proc'[q] = proc[q]
BY DEF Set

\* The tokens issued stay issued.
LEMMA MoreToks ==
  ASSUME TokenTypeOK, issued' \in Nat, issued <= issued'
  PROVE  /\ Toks \subseteq Toks' /\ \A p \in Processes : proc[p] \in Sources'
         /\ file \in Toks'
<1>1. Toks \subseteq Toks'
  BY DEF TokenTypeOK, Toks
<1>2. ASSUME NEW p \in Processes PROVE proc[p] \in Sources'
  <2>1. proc[p] \in Sources
    BY DEF TokenTypeOK
  <2> QED BY <1>1, <2>1 DEF Sources, PCs
<1> QED BY <1>1, <1>2 DEF TokenTypeOK

\* A step that issues nothing, of which a new source and a counter remain to be
\* typed.
LEMMA SourceTypes ==
  ASSUME TokenTypeOK, NEW p \in Processes, NEW s \in Sources, Set(p, s), UNCHANGED issued
  PROVE  DOMAIN proc' = Processes /\ \A q \in Processes : proc'[q] \in Sources'
<1>1. DOMAIN proc' = Processes /\ proc'[p] = s /\ \A q \in Processes \ {p} : proc'[q] = proc[q]
  BY SetChanges DEF TokenTypeOK
<1>2. Sources' = Sources
  BY DEF Sources, Toks, PCs
<1>3. \A q \in Processes : proc[q] \in Sources
  BY DEF TokenTypeOK
<1> QED BY <1>1, <1>2, <1>3

LEMMA ReleaseTypes ==
  ASSUME TokenTypeOK, NEW p \in Processes, Release(p)
  PROVE  lock' \in Processes \cup {NoProcess}
BY DEF TokenTypeOK, Release

LEMMA FaultTypes ==
  ASSUME faults \in 0..MaxFaults, Fault \/ UNCHANGED faults
  PROVE  faults' \in 0..MaxFaults
BY TokenAssumption DEF Fault

LEMMA EndedTypes ==
  ASSUME NEW s \in Sources, NEW b \in BOOLEAN
  PROVE  Ended(s, b) \in Sources
BY DEF Ended, Sources, PCs

LEMMA FailTypes ==
  ASSUME TokenTypeOK, NEW p \in Processes, Fail(p), UNCHANGED issued
  PROVE  /\ DOMAIN proc' = Processes /\ \A q \in Processes : proc'[q] \in Sources'
         /\ lock' \in Processes \cup {NoProcess}
<1>1. proc[p] \in Sources
  BY DEF TokenTypeOK
<1>2. Ended(proc[p], TRUE) \in Sources
  BY <1>1, EndedTypes
<1>3. Set(p, Ended(proc[p], TRUE)) /\ Release(p)
  BY DEF Fail
<1> QED BY <1>2, <1>3, SourceTypes, ReleaseTypes

\* What is left of the types once the sources and the lock are typed.
LEMMA TypesFrom ==
  ASSUME TokenTypeOK, Configured <= issued,
         DOMAIN proc' = Processes, \A q \in Processes : proc'[q] \in Sources',
         lock' \in Processes \cup {NoProcess}, file' \in Toks,
         UNCHANGED <<issued, valid>>, broken' \in BOOLEAN,
         ages' \in 0..MaxAges, faults' \in 0..MaxFaults,
         \/ UNCHANGED presented
         \/ \E t \in 1..issued : presented' = [presented EXCEPT ![t] = Once(@)]
  PROVE  TokenTypeOK' /\ Configured <= issued'
<1>1. file' \in Toks'
  BY DEF Toks
<1>2. DOMAIN presented' = 1..issued' /\ \A t \in 1..issued' : presented'[t] \in 0..2
  BY DEF TokenTypeOK, Once
<1> QED BY <1>1, <1>2 DEF TokenTypeOK

LEMMA IssueTypes ==
  ASSUME TokenTypeOK, Configured <= issued, NEW p \in Processes,
         NEW spent \in SUBSET (1..issued), NEW reached \in BOOLEAN,
         Issue(p, spent, reached), UNCHANGED <<file, ages>>
  PROVE  TokenTypeOK' /\ Configured <= issued'
<1>1. issued \in Nat /\ issued' = issued + 1
  BY DEF TokenTypeOK, Issue
<1>2. /\ Toks \subseteq Toks' /\ file' \in Toks' /\ issued' \in Toks'
      /\ \A q \in Processes : proc[q] \in Sources'
  BY <1>1, MoreToks DEF Toks
<1>3. /\ DOMAIN proc' = Processes /\ \A q \in Processes : proc'[q] \in Sources'
      /\ lock' \in Processes \cup {NoProcess} /\ faults' \in 0..MaxFaults
      /\ broken' \in BOOLEAN
  <2>1. CASE reached
    <3>1. PICK r : r = [proc[p] EXCEPT !.pc = "save", !.held = issued', !.access = "fresh"]
      OBVIOUS
    <3>2. Set(p, r) /\ UNCHANGED <<lock, broken, faults>>
      BY <1>1, <2>1, <3>1 DEF Issue
    <3>3. r \in Sources'
      BY <1>2, <3>1 DEF Sources, PCs
    <3>4. /\ DOMAIN proc' = Processes /\ proc'[p] = r
          /\ \A q \in Processes \ {p} : proc'[q] = proc[q]
      BY <3>2, SetChanges DEF TokenTypeOK
    <3> QED BY <1>2, <3>2, <3>3, <3>4 DEF TokenTypeOK
  <2>2. CASE ~ reached
    <3>1. Fail(p) /\ Fault /\ broken'
      BY <2>2 DEF Issue
    <3>2. PICK r : r = Ended(proc[p], TRUE)
      OBVIOUS
    <3>3. r \in Sources'
      BY <1>2, <3>2 DEF Ended, Sources, PCs
    <3>4. /\ DOMAIN proc' = Processes /\ proc'[p] = r
          /\ \A q \in Processes \ {p} : proc'[q] = proc[q]
      BY <3>1, <3>2, SetChanges DEF TokenTypeOK, Fail
    <3>5. lock' \in Processes \cup {NoProcess}
      BY <3>1, ReleaseTypes DEF Fail
    <3>6. broken' \in BOOLEAN /\ faults' \in 0..MaxFaults
      BY <2>2, <3>1, FaultTypes DEF Issue, TokenTypeOK
    <3> QED BY <1>2, <3>3, <3>4, <3>5, <3>6
  <2> QED BY <2>1, <2>2
<1>4. valid' \subseteq 1..issued'
  BY <1>1 DEF Issue, TokenTypeOK
<1>5. DOMAIN presented' = 1..issued' /\ \A t \in 1..issued' : presented'[t] \in 0..2
  <2>1. presented' = [t \in 1..issued' |->
                        IF t > issued THEN 0
                        ELSE IF t \in spent THEN Once(presented[t]) ELSE presented[t]]
    BY <1>1 DEF Issue
  <2>2. ASSUME NEW t \in 1..issued', ~ (t > issued)
        PROVE  presented[t] \in 0..2 /\ Once(presented[t]) \in 0..2
    BY <1>1, <2>2 DEF TokenTypeOK, Once
  <2> QED BY <1>1, <2>1, <2>2
<1>6. Configured <= issued' /\ ages' \in 0..MaxAges
  BY <1>1, TokenAssumption DEF TokenTypeOK
<1> QED BY <1>1, <1>2, <1>3, <1>4, <1>5, <1>6 DEF TokenTypeOK

LEMMA TokenTypesKept ==
  ASSUME TokenTypeOK, Configured <= issued, NEW p \in Processes,
         Refresh(p) \/ Ask(p) \/ BackoffPasses(p) \/ AccessAges(p) \/ Restart(p)
  PROVE  TokenTypeOK' /\ Configured <= issued'
<1>1. /\ DOMAIN proc = Processes /\ lock \in Processes \cup {NoProcess}
      /\ file \in Toks /\ broken \in BOOLEAN /\ issued \in Nat /\ valid \subseteq 1..issued
      /\ ages \in 0..MaxAges /\ faults \in 0..MaxFaults
  BY DEF TokenTypeOK
<1>2. PICK s \in Sources : s = proc[p]
  BY DEF TokenTypeOK
<1>3. CASE Start(p)
  <2>1. PICK r \in Sources : r = [s EXCEPT !.pc = "idle"]
    BY <1>2 DEF Sources, PCs
  <2>2. PICK a \in Sources : a = Adopted(r, file)
    BY <1>1, <2>1 DEF Adopted, Sources
  <2>3. \E v \in Sources : Set(p, v)
    BY <1>2, <1>3, <2>1, <2>2 DEF Start
  <2>4. broken' = broken /\ UNCHANGED <<lock, file, server, ages>> /\ (Fault \/ UNCHANGED faults)
    BY <1>3 DEF Start
  <2> QED BY <1>1, <2>3, <2>4, SourceTypes, FaultTypes, TypesFrom DEF server
<1>4. CASE Ask(p)
  <2>1. [s EXCEPT !.pc = "lock"] \in Sources
    BY <1>2 DEF Sources, PCs
  <2>2. Set(p, [s EXCEPT !.pc = "lock"]) /\ UNCHANGED <<lock, file, server, broken, ages, faults>>
    BY <1>2, <1>4 DEF Ask
  <2> QED BY <1>1, <2>1, <2>2, SourceTypes, TypesFrom DEF server
<1>5. CASE BackoffPasses(p)
  <2>1. [s EXCEPT !.backoff = FALSE] \in Sources
    BY <1>2 DEF Sources
  <2>2. Set(p, [s EXCEPT !.backoff = FALSE]) /\ UNCHANGED <<lock, file, server, broken, ages, faults>>
    BY <1>2, <1>5 DEF BackoffPasses
  <2> QED BY <1>1, <2>1, <2>2, SourceTypes, TypesFrom DEF server
<1>6. CASE AccessAges(p)
  <2>1. [s EXCEPT !.access = "due"] \in Sources /\ [s EXCEPT !.access = "none"] \in Sources
    BY <1>2 DEF Sources
  <2>2. \E v \in Sources : Set(p, v)
    BY <1>2, <1>6, <2>1 DEF AccessAges
  <2>3. ages' \in 0..MaxAges
    BY <1>1, <1>6, TokenAssumption DEF AccessAges
  <2>4. UNCHANGED <<lock, file, server, broken, faults>>
    BY <1>6 DEF AccessAges
  <2> QED BY <1>1, <2>2, <2>3, <2>4, SourceTypes, TypesFrom DEF server
<1>7. CASE Restart(p)
  <2>1. Source \in Sources
    BY <1>1, TokenAssumption DEF Source, Sources, PCs, Toks
  <2>2. /\ Set(p, Source) /\ Release(p) /\ UNCHANGED <<file, server, ages>> /\ Fault
        /\ broken' \in BOOLEAN
    BY <1>1, <1>7 DEF Restart
  <2> QED BY <1>1, <2>1, <2>2, SourceTypes, ReleaseTypes, FaultTypes, TypesFrom DEF server
<1>8. CASE Lock(p)
  <2>1. broken' \in BOOLEAN /\ UNCHANGED <<file, server, ages>> /\ (Fault \/ UNCHANGED faults)
    BY <1>1, <1>8 DEF Lock
  <2>2. [s EXCEPT !.pc = "adopt"] \in Sources /\ [s EXCEPT !.pc = "send"] \in Sources
    BY <1>2 DEF Sources, PCs
  <2>3. CASE Fail(p)
    BY <1>1, <2>1, <2>3, FailTypes, FaultTypes, TypesFrom DEF server
  <2>4. CASE ~ Fail(p)
    <3>1. \E v \in Sources : Set(p, v)
      BY <1>2, <1>8, <2>2, <2>4 DEF Lock
    <3>2. lock' \in Processes \cup {NoProcess}
      BY <1>1, <1>8, <2>4 DEF Lock
    <3> QED BY <1>1, <2>1, <3>1, <3>2, SourceTypes, FaultTypes, TypesFrom DEF server
  <2> QED BY <2>3, <2>4
<1>9. CASE Adopt(p)
  <2>1. PICK r \in Sources : r = [s EXCEPT !.pc = "send"]
    BY <1>2 DEF Sources, PCs
  <2>2. PICK a \in Sources : a = Adopted(r, file)
    BY <1>1, <2>1 DEF Adopted, Sources
  <2>3. \E v \in Sources : Set(p, v)
    BY <1>2, <1>9, <2>1, <2>2 DEF Adopt
  <2>4. broken' \in BOOLEAN /\ UNCHANGED <<lock, file, server, ages>> /\ (Fault \/ UNCHANGED faults)
    BY <1>1, <1>9 DEF Adopt
  <2> QED BY <1>1, <2>3, <2>4, SourceTypes, FaultTypes, TypesFrom DEF server
<1>10. ASSUME NeedsSignIn(p), UNCHANGED <<issued>>
       PROVE  /\ DOMAIN proc' = Processes /\ \A q \in Processes : proc'[q] \in Sources'
              /\ lock' \in Processes \cup {NoProcess}
  <2>1. [s EXCEPT !.pc = "sign"] \in Sources
    BY <1>2 DEF Sources, PCs
  <2>2. CASE MaySignIn
    BY <1>1, <1>2, <1>10, <2>1, <2>2, SourceTypes DEF NeedsSignIn
  <2>3. CASE ~ MaySignIn
    BY <1>10, <2>3, FailTypes DEF NeedsSignIn
  <2> QED BY <2>2, <2>3
<1>11. CASE Exchange(p)
  <2>1. UNCHANGED <<file, ages>>
    BY <1>11 DEF Exchange
  <2>2. CASE s.held \in valid /\ \E reached \in BOOLEAN : Issue(p, {s.held}, reached)
    <3>1. {s.held} \in SUBSET (1..issued)
      BY <1>1, <2>2
    <3> QED BY <2>1, <2>2, <3>1, IssueTypes
  <2>3. CASE s.held # 0 /\ Fail(p) /\ Fault /\ UNCHANGED <<server, broken>>
    BY <1>1, <2>1, <2>3, FailTypes, FaultTypes, TypesFrom DEF server
  <2>4. CASE s.held = 0 /\ NeedsSignIn(p) /\ UNCHANGED <<server, broken, faults>>
    BY <1>1, <1>10, <2>1, <2>4, TypesFrom DEF server
  <2>5. CASE /\ s.held # 0 /\ s.held \notin valid
             /\ presented' = [presented EXCEPT ![s.held] = Once(@)]
             /\ IF lock = p /\ ~ s.again /\ file \notin {0, s.held}
                THEN Set(p, [Adopted(s, file) EXCEPT !.again = TRUE]) /\ UNCHANGED lock
                ELSE NeedsSignIn(p)
             /\ UNCHANGED <<issued, valid, broken, faults>>
    <3>1. s.held \in 1..issued
      BY <1>1, <1>2, <2>5 DEF Sources, Toks
    <3>2. \E t \in 1..issued : presented' = [presented EXCEPT ![t] = Once(@)]
      BY <2>5, <3>1
    <3>3. [Adopted(s, file) EXCEPT !.again = TRUE] \in Sources
      BY <1>1, <1>2 DEF Adopted, Sources
    <3>4. /\ DOMAIN proc' = Processes /\ \A q \in Processes : proc'[q] \in Sources'
          /\ lock' \in Processes \cup {NoProcess}
      BY <1>1, <1>10, <2>5, <3>3, SourceTypes
    <3> QED BY <1>1, <2>1, <2>5, <3>2, <3>4, TypesFrom
  <2> QED BY <1>2, <1>11, <2>2, <2>3, <2>4, <2>5 DEF Exchange
<1>12. CASE SignIn(p)
  <2>1. UNCHANGED <<file, ages>>
    BY <1>12 DEF SignIn
  <2>2. CASE \E reached \in BOOLEAN : Issue(p, {}, reached)
    BY <2>1, <2>2, IssueTypes
  <2>3. CASE Fail(p) /\ Fault /\ UNCHANGED <<server, broken>>
    BY <1>1, <2>1, <2>3, FailTypes, FaultTypes, TypesFrom DEF server
  <2> QED BY <1>12, <2>2, <2>3 DEF SignIn
<1>13. CASE Save(p)
  <2>1. PICK r \in Sources : r = [s EXCEPT !.stored = s.held]
    BY <1>2 DEF Sources
  <2>2. Ended(r, FALSE) \in Sources /\ Ended(s, FALSE) \in Sources
    BY <1>2, <2>1, EndedTypes
  <2>3. \E v \in Sources : Set(p, v)
    BY <1>2, <1>13, <2>1, <2>2 DEF Save, Succeed
  <2>4. Release(p) /\ UNCHANGED <<server, ages>> /\ (Fault \/ UNCHANGED faults)
    BY <1>13 DEF Save, Succeed
  <2>5. broken' \in BOOLEAN /\ file' \in Toks
    BY <1>1, <1>2, <1>13 DEF Save, Sources
  <2> QED BY <1>1, <2>3, <2>4, <2>5, SourceTypes, ReleaseTypes, FaultTypes, TypesFrom DEF server
<1> QED BY <1>3, <1>4, <1>5, <1>6, <1>7, <1>8, <1>9, <1>11, <1>12, <1>13 DEF Refresh

\* A source that neither works on the chain afterwards nor learns a token, and
\* that did not have a rotation to save, changes nothing of the chain.
LEMMA IdleKeepsChain ==
  ASSUME TokenTypeOK, Unbroken, NEW p \in Processes, NEW s, Set(p, s),
         s.pc \notin Critical, proc[p].pc # "save",
         s.held = proc[p].held, s.stored = proc[p].stored,
         UNCHANGED <<file, server>>, UNCHANGED lock \/ Release(p)
  PROVE  Unbroken'
<1>1. proc'[p] = s /\ \A q \in Processes \ {p} : proc'[q] = proc[q]
  BY SetChanges DEF TokenTypeOK
<1>2. LockInv'
  BY <1>1 DEF Unbroken, LockInv, Release
<1>3. HeldInv'
  BY <1>1 DEF Unbroken, HeldInv
<1>4. ChainInv'
  BY <1>1 DEF Unbroken, ChainInv, Chain, server, Critical
<1>5. SpentInv'
  BY DEF Unbroken, SpentInv, server
<1> QED BY <1>2, <1>3, <1>4, <1>5 DEF Unbroken

LEMMA FailKeepsChain ==
  ASSUME TokenTypeOK, Unbroken, NEW p \in Processes, Fail(p), proc[p].pc # "save",
         UNCHANGED <<file, server>>
  PROVE  Unbroken'
<1>1. PICK s : s = Ended(proc[p], TRUE)
  OBVIOUS
<1>2. proc[p] \in Sources
  BY DEF TokenTypeOK
<1>3. s.pc = "idle" /\ s.held = proc[p].held /\ s.stored = proc[p].stored
  BY <1>1, <1>2 DEF Ended, Sources
<1>4. Set(p, s) /\ Release(p)
  BY <1>1 DEF Fail
<1> QED BY <1>3, <1>4, IdleKeepsChain DEF Critical

\* The token that is presented ends the chain, and the next one is to be saved.
LEMMA IssueKeepsChain ==
  ASSUME TokenTypeOK, Unbroken, NEW p \in Processes, lock = p,
         NEW spent \in SUBSET valid, Issue(p, spent, TRUE), UNCHANGED file
  PROVE  Unbroken'
<1>1. PICK s : s = [proc[p] EXCEPT !.pc = "save", !.held = issued + 1, !.access = "fresh"]
  OBVIOUS
<1>2. issued \in Nat /\ issued' = issued + 1 /\ proc[p] \in Sources /\ lock' = lock
  BY DEF TokenTypeOK, Issue
<1>3. s.pc = "save" /\ s.held = issued' /\ s.stored = proc[p].stored
  BY <1>1, <1>2 DEF Sources
<1>4. proc'[p] = s /\ \A q \in Processes \ {p} : proc'[q] = proc[q]
  BY <1>1, SetChanges DEF Issue, TokenTypeOK
<1>5. \A q \in Processes \ {p} : proc[q].pc \notin Critical
  BY DEF Unbroken, LockInv
<1>6. LockInv'
  BY <1>2, <1>4, <1>5 DEF LockInv
<1>7. HeldInv'
  BY <1>3, <1>4 DEF Unbroken, HeldInv
<1>8. ChainInv'
  BY <1>2, <1>3, <1>4, <1>5 DEF ChainInv, Issue, Critical
<1>9. SpentInv'
  <2> SUFFICES ASSUME NEW t \in 1..issued'
               PROVE  presented'[t] <= 1 /\ (t \in valid' => presented'[t] = 0)
    BY DEF SpentInv
  <2>1. presented'[t] = IF t > issued THEN 0
                        ELSE IF t \in spent THEN Once(presented[t]) ELSE presented[t]
    BY <1>2 DEF Issue
  <2>2. valid' = (valid \ spent) \cup {issued + 1} /\ valid \subseteq 1..issued
    BY DEF Issue, TokenTypeOK
  <2>3. CASE t > issued
    BY <2>1, <2>3
  <2>4. CASE ~ (t > issued) /\ t \in spent
    <3>1. presented[t] = 0 /\ t \notin valid'
      BY <1>2, <2>2, <2>4 DEF Unbroken, SpentInv
    <3> QED BY <2>1, <2>4, <3>1 DEF Once
  <2>5. CASE ~ (t > issued) /\ t \notin spent
    <3>1. t \in 1..issued /\ (t \in valid' => t \in valid)
      BY <1>2, <2>2, <2>5
    <3> QED BY <2>1, <2>5, <3>1 DEF Unbroken, SpentInv
  <2> QED BY <2>3, <2>4, <2>5
<1> QED BY <1>6, <1>7, <1>8, <1>9 DEF Unbroken

LEMMA ChainStep ==
  ASSUME TokenTypeOK, Unbroken, NEW p \in Processes, ~ broken',
         Refresh(p) \/ Ask(p) \/ BackoffPasses(p) \/ AccessAges(p) \/ Restart(p)
  PROVE  Unbroken'
<1>1. PICK s \in Sources : s = proc[p]
  BY DEF TokenTypeOK
<1>2. LockInv /\ HeldInv /\ ChainInv /\ SpentInv
  BY DEF Unbroken
<1>3. CASE Start(p)
  <2>1. PICK r : r = [s EXCEPT !.pc = "idle"]
    OBVIOUS
  <2>2. r.pc = "idle" /\ r.held = s.held /\ r.stored = s.stored /\ s.pc = "new"
    BY <1>1, <1>3, <2>1 DEF Start, Sources
  <2>3. UNCHANGED <<lock, file, server>>
    BY <1>3 DEF Start
  <2>4. CASE Set(p, r)
    BY <1>1, <2>2, <2>3, <2>4, IdleKeepsChain DEF Critical
  <2>5. CASE file # 0 /\ Set(p, Adopted(r, file))
    <3>1. PICK a : a = Adopted(r, file)
      OBVIOUS
    <3>2. a.pc = "idle" /\ a.held = file /\ a.stored = file
      BY <1>1, <2>1, <3>1 DEF Adopted, Sources
    <3>3. proc'[p] = a /\ \A q \in Processes \ {p} : proc'[q] = proc[q]
      BY <2>5, <3>1, SetChanges DEF TokenTypeOK
    <3>4. LockInv'
      BY <1>2, <2>3, <3>2, <3>3 DEF LockInv, Critical
    <3>5. HeldInv'
      BY <1>2, <2>3, <2>5, <3>2, <3>3 DEF HeldInv
    <3>6. ChainInv'
      BY <1>1, <1>2, <2>2, <2>3, <3>2, <3>3 DEF ChainInv, Chain, server
    <3>7. SpentInv'
      BY <1>2, <2>3 DEF SpentInv, server
    <3> QED BY <3>4, <3>5, <3>6, <3>7 DEF Unbroken
  <2> QED BY <1>1, <1>3, <2>1, <2>4, <2>5 DEF Start
<1>4. CASE Ask(p)
  <2>1. PICK r : r = [s EXCEPT !.pc = "lock"]
    OBVIOUS
  <2>2. r.pc = "lock" /\ r.held = s.held /\ r.stored = s.stored
    BY <1>1, <2>1 DEF Sources
  <2>3. Set(p, r) /\ s.pc = "idle" /\ UNCHANGED <<lock, file, server>>
    BY <1>1, <1>4, <2>1 DEF Ask
  <2> QED BY <1>1, <2>2, <2>3, IdleKeepsChain DEF Critical
<1>5. CASE BackoffPasses(p) \/ AccessAges(p)
  <2>1. PICK r : Set(p, r) /\ r.pc = s.pc /\ r.held = s.held /\ r.stored = s.stored
    BY <1>1, <1>5 DEF BackoffPasses, AccessAges, Sources
  <2>2. proc'[p] = r /\ \A q \in Processes \ {p} : proc'[q] = proc[q]
    BY <2>1, SetChanges DEF TokenTypeOK
  <2>3. UNCHANGED <<lock, file, server>>
    BY <1>5 DEF BackoffPasses, AccessAges
  <2>4. LockInv' /\ HeldInv'
    BY <1>1, <1>2, <2>1, <2>2, <2>3 DEF LockInv, HeldInv
  <2>5. ChainInv'
    BY <1>1, <1>2, <2>1, <2>2, <2>3 DEF ChainInv, Chain, server
  <2>6. SpentInv'
    BY <1>2, <2>3 DEF SpentInv, server
  <2> QED BY <2>4, <2>5, <2>6 DEF Unbroken
<1>6. CASE Restart(p)
  <2>1. s.pc # "save" /\ Set(p, Source) /\ Release(p) /\ UNCHANGED <<file, server>>
    BY <1>1, <1>6 DEF Restart
  <2>2. proc'[p] = Source /\ \A q \in Processes \ {p} : proc'[q] = proc[q]
    BY <2>1, SetChanges DEF TokenTypeOK
  <2>3. Source.pc = "new" /\ Source.held = Configured /\ Source.stored = 0
    BY DEF Source
  <2>4. LockInv'
    BY <1>2, <2>1, <2>2, <2>3 DEF LockInv, Critical, Release
  <2>5. HeldInv'
    BY <1>2, <2>1, <2>2, <2>3 DEF HeldInv
  <2>6. ChainInv'
    BY <1>1, <1>2, <2>1, <2>2, <2>3 DEF ChainInv, Chain, server
  <2>7. SpentInv'
    BY <1>2, <2>1 DEF SpentInv, server
  <2> QED BY <2>4, <2>5, <2>6, <2>7 DEF Unbroken
<1>7. CASE Lock(p)
  <2>1. s.pc = "lock" /\ UNCHANGED <<file, server>>
    BY <1>1, <1>7 DEF Lock
  <2>2. CASE Fail(p)
    BY <1>1, <2>1, <2>2, FailKeepsChain
  <2>3. CASE ~ Fail(p)
    <3>1. PICK r : r = [s EXCEPT !.pc = "adopt"]
      OBVIOUS
    <3>2. r.pc = "adopt" /\ r.held = s.held /\ r.stored = s.stored
      BY <1>1, <3>1 DEF Sources
    <3>3. lock = NoProcess /\ lock' = p /\ Set(p, r)
      BY <1>1, <1>7, <2>3, <3>1 DEF Lock
    <3>4. proc'[p] = r /\ \A q \in Processes \ {p} : proc'[q] = proc[q]
      BY <3>3, SetChanges DEF TokenTypeOK
    <3>5. \A q \in Processes : proc[q].pc \notin Critical
      BY <1>2, <3>3, TokenAssumption DEF LockInv
    <3>6. LockInv'
      BY <3>3, <3>4, <3>5 DEF LockInv
    <3>7. HeldInv'
      BY <1>1, <1>2, <2>1, <3>2, <3>4 DEF HeldInv
    <3>8. ChainInv'
      BY <1>1, <1>2, <2>1, <3>2, <3>4 DEF ChainInv, Chain, server
    <3>9. SpentInv'
      BY <1>2, <2>1 DEF SpentInv, server
    <3> QED BY <3>6, <3>7, <3>8, <3>9 DEF Unbroken
  <2> QED BY <2>2, <2>3
<1>8. CASE Adopt(p)
  <2>1. PICK r : r = [s EXCEPT !.pc = "send"]
    OBVIOUS
  <2>2. r.pc = "send" /\ r.held = s.held /\ r.stored = s.stored
    BY <1>1, <2>1 DEF Sources
  <2>3. PICK a : a = IF file # 0 /\ file # r.stored THEN Adopted(r, file) ELSE r
    OBVIOUS
  <2>4. Set(p, a) /\ s.pc = "adopt" /\ UNCHANGED <<lock, file, server>>
    BY <1>1, <1>8, <2>1, <2>3 DEF Adopt, RotatedElsewhere
  <2>5. a.pc = "send" /\ file # 0 => a.held = file /\ a.stored = file
    <3>1. CASE file # 0 /\ file # r.stored
      BY <1>1, <2>1, <2>3, <3>1 DEF Adopted, Sources
    <3>2. CASE file # 0 /\ file = r.stored
      BY <1>1, <1>2, <2>2, <2>3, <2>4, <3>2 DEF HeldInv
    <3> QED BY <3>1, <3>2
  <2>6. a.pc = "send"
    BY <1>1, <2>1, <2>2, <2>3 DEF Adopted, Sources
  <2>7. file = 0 => a.held = Configured /\ a.stored = 0
    BY <1>1, <1>2, <2>2, <2>3, <2>4 DEF HeldInv
  <2>8. proc'[p] = a /\ \A q \in Processes \ {p} : proc'[q] = proc[q]
    BY <2>4, SetChanges DEF TokenTypeOK
  <2>9. LockInv'
    BY <1>1, <1>2, <2>4, <2>8 DEF LockInv, Critical
  <2>10. HeldInv'
    BY <1>2, <2>4, <2>5, <2>6, <2>7, <2>8 DEF HeldInv
  <2>11. ChainInv'
    BY <1>1, <1>2, <2>4, <2>5, <2>6, <2>7, <2>8 DEF ChainInv, Chain, server
  <2>12. SpentInv'
    BY <1>2, <2>4 DEF SpentInv, server
  <2> QED BY <2>9, <2>10, <2>11, <2>12 DEF Unbroken
<1>9. ASSUME NeedsSignIn(p), s.pc = "send", UNCHANGED <<file, server>> PROVE Unbroken'
  <2>1. CASE ~ MaySignIn
    BY <1>1, <1>9, <2>1, FailKeepsChain DEF NeedsSignIn
  <2>2. CASE MaySignIn
    <3>1. PICK r : r = [s EXCEPT !.pc = "sign"]
      OBVIOUS
    <3>2. r.pc = "sign" /\ r.held = s.held /\ r.stored = s.stored
      BY <1>1, <3>1 DEF Sources
    <3>3. Set(p, r) /\ UNCHANGED lock
      BY <1>1, <1>9, <2>2, <3>1 DEF NeedsSignIn
    <3>4. proc'[p] = r /\ \A q \in Processes \ {p} : proc'[q] = proc[q]
      BY <3>3, SetChanges DEF TokenTypeOK
    <3>5. LockInv'
      BY <1>1, <1>2, <1>9, <3>3, <3>4 DEF LockInv, Critical
    <3>6. HeldInv'
      BY <1>1, <1>2, <1>9, <3>2, <3>4 DEF HeldInv
    <3>7. ChainInv'
      BY <1>1, <1>2, <1>9, <3>2, <3>4 DEF ChainInv, Chain, server
    <3>8. SpentInv'
      BY <1>2, <1>9 DEF SpentInv, server
    <3> QED BY <3>5, <3>6, <3>7, <3>8 DEF Unbroken
  <2> QED BY <2>1, <2>2
<1>10. CASE Exchange(p)
  <2>1. s.pc = "send" /\ UNCHANGED file
    BY <1>1, <1>10 DEF Exchange
  <2>2. lock = p /\ (s.held = 0 \/ s.held \in valid)
    <3>1. \A q \in Processes : proc[q].pc # "save"
      BY <1>1, <1>2, <2>1 DEF LockInv, Critical
    <3> QED BY <1>1, <1>2, <2>1, <3>1 DEF LockInv, ChainInv, Critical
  <2>3. CASE s.held \in valid /\ \E reached \in BOOLEAN : Issue(p, {s.held}, reached)
    <3>1. {s.held} \in SUBSET valid /\ Issue(p, {s.held}, TRUE)
      BY <2>3 DEF Issue
    <3> QED BY <2>1, <2>2, <3>1, IssueKeepsChain
  <2>4. CASE Fail(p) /\ UNCHANGED <<server, broken>>
    BY <1>1, <2>1, <2>4, FailKeepsChain
  <2>5. CASE NeedsSignIn(p) /\ UNCHANGED <<server, broken, faults>>
    BY <1>9, <2>1, <2>5
  <2> QED BY <1>1, <1>10, <2>2, <2>3, <2>4, <2>5 DEF Exchange
<1>11. CASE SignIn(p)
  <2>1. s.pc = "sign" /\ lock = p /\ UNCHANGED file
    BY <1>1, <1>2, <1>11 DEF SignIn, LockInv, Critical
  <2>2. CASE \E reached \in BOOLEAN : Issue(p, {}, reached)
    <3>1. {} \in SUBSET valid /\ Issue(p, {}, TRUE)
      BY <2>2 DEF Issue
    <3> QED BY <2>1, <3>1, IssueKeepsChain
  <2>3. CASE Fail(p) /\ UNCHANGED <<server, broken>>
    BY <1>1, <2>1, <2>3, FailKeepsChain
  <2> QED BY <1>11, <2>2, <2>3 DEF SignIn
<1>12. CASE Save(p)
  <2>1. PICK r : r = [s EXCEPT !.stored = s.held]
    OBVIOUS
  <2>2. PICK a : a = Ended(r, FALSE)
    OBVIOUS
  <2>3. a.pc = "idle" /\ a.held = s.held /\ a.stored = s.held
    BY <1>1, <2>1, <2>2 DEF Ended, Sources
  <2>4. /\ s.pc = "save" /\ file' = s.held /\ Set(p, a) /\ Release(p) /\ UNCHANGED server
    BY <1>1, <1>12, <2>1, <2>2 DEF Save, Succeed
  <2>5. proc'[p] = a /\ \A q \in Processes \ {p} : proc'[q] = proc[q]
    BY <2>4, SetChanges DEF TokenTypeOK
  <2>6. \A q \in Processes \ {p} : proc[q].pc \notin Critical
    BY <1>1, <1>2, <2>4 DEF LockInv, Critical
  <2>7. s.held \in valid /\ s.held # 0
    BY <1>1, <1>2, <2>4 DEF ChainInv, TokenTypeOK
  <2>8. LockInv'
    BY <2>3, <2>5, <2>6 DEF LockInv, Critical
  <2>9. HeldInv'
    BY <1>2, <2>3, <2>4, <2>5, <2>7 DEF HeldInv
  <2>10. ChainInv'
    BY <2>3, <2>4, <2>5, <2>6, <2>7 DEF ChainInv, Chain, server, Critical
  <2>11. SpentInv'
    BY <1>2, <2>4 DEF SpentInv, server
  <2> QED BY <2>8, <2>9, <2>10, <2>11 DEF Unbroken
<1> QED BY <1>3, <1>4, <1>5, <1>6, <1>7, <1>8, <1>10, <1>11, <1>12 DEF Refresh

\* What was missed stays missed.
LEMMA BrokenStays ==
  ASSUME broken \in BOOLEAN, NEW p \in Processes,
         Refresh(p) \/ Ask(p) \/ BackoffPasses(p) \/ AccessAges(p) \/ Restart(p)
  PROVE  broken => broken'
BY DEF Refresh, Start, Lock, Adopt, Exchange, SignIn, Issue, Save, Ask, BackoffPasses,
       AccessAges, Restart, NeedsSignIn, Fail

LEMMA TokenStepKeepsInv ==
  ASSUME TokenInv, [TokenNext]_tokenVars
  PROVE  TokenInv'
<1>1. CASE UNCHANGED tokenVars
  <2>1. TokenTypeOK' /\ Configured <= issued'
    BY <1>1 DEF TokenInv, TokenTypeOK, tokenVars, Sources, Toks
  <2>2. ~ broken' => Unbroken'
    BY <1>1 DEF TokenInv, Unbroken, LockInv, HeldInv, ChainInv, SpentInv, Chain, tokenVars
  <2> QED BY <2>1, <2>2 DEF TokenInv
<1>2. ASSUME NEW p \in Processes,
             Refresh(p) \/ Ask(p) \/ BackoffPasses(p) \/ AccessAges(p) \/ Restart(p)
      PROVE  TokenInv'
  <2>1. TokenTypeOK' /\ Configured <= issued'
    BY <1>2, TokenTypesKept DEF TokenInv
  <2>2. ~ broken' => ~ broken
    BY <1>2, BrokenStays DEF TokenInv, TokenTypeOK
  <2>3. ~ broken' => Unbroken'
    BY <1>2, <2>2, ChainStep DEF TokenInv
  <2> QED BY <2>1, <2>3 DEF TokenInv
<1> QED BY <1>1, <1>2 DEF TokenNext

LEMMA TokenInvHolds == TokenSpec => []TokenInv
<1>1. TokenInit => TokenInv
  <2> SUFFICES ASSUME TokenInit PROVE TokenInv
    OBVIOUS
  <2>1. Configured \in 0..1 /\ issued = Configured
    BY TokenAssumption DEF TokenInit
  <2>2. Source \in Sources
    BY <2>1 DEF Source, Sources, PCs, Toks
  <2>3. DOMAIN proc = Processes /\ \A p \in Processes : proc[p] = Source
    BY DEF TokenInit
  <2>4. TokenTypeOK
    <3>1. DOMAIN presented = 1..issued /\ \A t \in 1..issued : presented[t] \in 0..2
      BY DEF TokenInit
    <3>2. valid \subseteq 1..issued /\ issued \in Nat /\ file \in Toks
      BY <2>1 DEF TokenInit, Toks
    <3>3. lock \in Processes \cup {NoProcess} /\ broken \in BOOLEAN
      BY DEF TokenInit
    <3>4. ages \in 0..MaxAges /\ faults \in 0..MaxFaults
      BY TokenAssumption DEF TokenInit
    <3> QED BY <2>2, <2>3, <3>1, <3>2, <3>3, <3>4 DEF TokenTypeOK
  <2>5. Source.pc = "new" /\ Source.held = Configured /\ Source.stored = 0
    BY DEF Source
  <2>6. LockInv /\ HeldInv
    BY <2>3, <2>5 DEF LockInv, HeldInv, Critical
  <2>7. ChainInv
    BY <2>1, <2>3, <2>5 DEF TokenInit, ChainInv, Chain
  <2>8. SpentInv
    BY DEF TokenInit, SpentInv
  <2> QED BY <2>1, <2>4, <2>6, <2>7, <2>8 DEF TokenInv, Unbroken
<1>2. TokenInv /\ [TokenNext]_tokenVars => TokenInv'
  BY TokenStepKeepsInv
<1> QED BY <1>1, <1>2, PTL DEF TokenSpec

\* The state of refreshing_token.go and of the auth server has its type.
THEOREM TokenTypeCorrect == TokenSpec => []TokenTypeOK
<1>1. TokenInv => TokenTypeOK
  BY DEF TokenInv
<1> QED BY <1>1, TokenInvHolds, PTL

\* However many processes share the file, and however they are started, killed
\* and delayed, no refresh token is presented twice while rotations reach the
\* file: advanceChain works on it under the lock and adopts what it finds.
THEOREM TokensAreSpentOnce == TokenSpec => []NoTokenPresentedTwice
<1>1. TokenInv => NoTokenPresentedTwice
  BY DEF TokenInv, TokenTypeOK, Unbroken, SpentInv, NoTokenPresentedTwice
<1> QED BY <1>1, TokenInvHolds, PTL

\* Whoever seeds its chain from the file, or from the configuration before
\* anything was saved, gets the token that the auth server will accept.
THEOREM NoChainIsLost == TokenSpec => []ChainIsKept
<1>1. TokenInv => ChainIsKept
  <2> SUFFICES ASSUME TokenInv, ~ broken, lock = NoProcess PROVE Chain = 0 \/ Chain \in valid
    BY DEF ChainIsKept, Chain
  <2>1. \A p \in Processes : proc[p].pc # "save"
    BY TokenAssumption DEF TokenInv, Unbroken, LockInv, Critical
  <2> QED BY <2>1 DEF TokenInv, Unbroken, ChainInv
<1> QED BY <1>1, TokenInvHolds, PTL
=============================================================================
