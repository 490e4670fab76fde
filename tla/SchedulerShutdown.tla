-------------------------- MODULE SchedulerShutdown --------------------------
(***************************************************************************)
(* How the acquisition scheduler stops: requests, workers and recorders of *)
(* outcomes come and go while Shutdown closes the admission, waits for the *)
(* jobs, cancels what is left, waits for the workers and for the outcomes, *)
(* and releases the wait group its caller waits for.                       *)
(***************************************************************************)
EXTENDS Naturals, FiniteSets

CONSTANTS
  Workers,
  Calls,     \* calls of enqueue
  Tracks,
  NoTrack

\* What the constants have to be.
ASSUME ShutdownAssumption == NoTrack \notin Tracks

VARIABLES
  shutdown,   \* where Shutdown is
  closed,     \* closed is set, and the channel stop closed
  cancelled,  \* baseCtx
  drained,    \* what Shutdown has found out
  expired,    \* the context of Shutdown has ended
  paused,
  listening,  \* the notifier's goroutine runs
  worker,     \* the workers
  outcomes,   \* outcomeWG
  call,       \* the calls of enqueue
  queued,     \* tracks with a job in the queue
  pending     \* pendingTracker: the tracks that the caller's wait group counts

vars == <<shutdown, closed, cancelled, drained, expired, paused, listening, worker,
          outcomes, call, queued, pending>>

stop    == <<shutdown, closed, cancelled, drained>>
signals == <<expired, paused, listening>>

\* A worker is at its loop, waits, holds the admission to claim, runs a job,
\* ends it, or is gone.
Stages      == {"serving", "closing", "drain", "cancel", "await",
                "runners", "outcomes", "sweep", "done"}
WorkerSteps == {"loop", "idle", "claim", "run", "settle", "retry", "untrack", "gone"}
CallSteps   == {"new", "track", "enqueue", "finish", "done"}

TypeOK ==
  /\ shutdown \in Stages
  /\ closed \in BOOLEAN /\ cancelled \in BOOLEAN /\ drained \in BOOLEAN
  /\ expired \in BOOLEAN /\ paused \in BOOLEAN /\ listening \in BOOLEAN
  /\ worker \in [Workers -> [pc : WorkerSteps, track : Tracks \cup {NoTrack}]]
  /\ call \in [Calls -> [pc : CallSteps, track : Tracks \cup {NoTrack}, already : BOOLEAN]]
  /\ outcomes \in Nat
  /\ queued \subseteq Tracks /\ pending \subseteq Tracks

Init ==
  /\ shutdown = "serving"
  /\ closed = FALSE /\ cancelled = FALSE /\ drained = FALSE
  /\ expired = FALSE /\ paused = FALSE /\ listening = TRUE
  /\ worker = [w \in Workers |-> [pc |-> "loop", track |-> NoTrack]]
  /\ outcomes = 0
  /\ call = [c \in Calls |-> [pc |-> "new", track |-> NoTrack, already |-> FALSE]]
  /\ queued = {} /\ pending = {}

At(w, step)     == worker' = [worker EXCEPT ![w].pc = step]
CallAt(c, step) == call' = [call EXCEPT ![c].pc = step]

\* jobsWG and runnersWG.
Jobs    == {w \in Workers : worker[w].pc \in {"run", "settle", "retry", "untrack"}}
Runners == {w \in Workers : worker[w].pc # "gone"}

-----------------------------------------------------------------------------
(* enqueue                                                                 *)

\* Refused when shut down or paused.
Call(c, t) ==
  /\ call[c].pc = "new"
  /\ call' = [call EXCEPT ![c] = [pc |-> IF closed \/ paused THEN "done" ELSE "track",
                                  track |-> t, already |-> FALSE]]
  /\ UNCHANGED <<stop, signals, worker, outcomes, queued, pending>>

Track(c) ==
  /\ call[c].pc = "track"
  /\ call' = [call EXCEPT ![c].pc = "enqueue", ![c].already = call[c].track \in pending]
  /\ pending' = pending \cup {call[c].track}
  /\ UNCHANGED <<stop, signals, worker, outcomes, queued>>

\* A job that runs takes a request of its kind; one of another kind conflicts.
Enqueue(c) ==
  /\ call[c].pc = "enqueue"
  /\ queued' = queued \cup {call[c].track}
  /\ CallAt(c, "finish")
  /\ UNCHANGED <<stop, signals, worker, outcomes, pending>>

EnqueueFails(c) ==
  /\ call[c].pc = "enqueue"
  /\ pending' = IF call[c].already THEN pending ELSE pending \ {call[c].track}
  /\ CallAt(c, "done")
  /\ UNCHANGED <<stop, signals, worker, outcomes, queued>>

\* A slip: a request that finds the scheduler closed stays tracked.
UntrackedIfLateNot(c) == pending

\* After the enqueue: nobody untracks the job any more once Shutdown has swept.
UntrackedIfLate(c) == IF closed THEN pending \ {call[c].track} ELSE pending

FinishEnqueue(c) ==
  /\ call[c].pc = "finish"
  /\ pending' = UntrackedIfLate(c)
  /\ CallAt(c, "done")
  /\ UNCHANGED <<stop, signals, worker, outcomes, queued>>

-----------------------------------------------------------------------------
(* runWorker                                                               *)

\* The admission lock is read-locked for the claim; a writer that waits keeps
\* new readers out.
Loop(w) ==
  /\ worker[w].pc = "loop"
  /\ \/ closed /\ At(w, "gone")
     \/ ~ closed /\ paused /\ At(w, "idle")
     \/ ~ closed /\ ~ paused /\ shutdown # "closing" /\ At(w, "claim")
  /\ UNCHANGED <<stop, signals, outcomes, call, queued, pending>>

\* A slip: Shutdown does not wait for the claims under way.
AdmissionIgnored == TRUE

\* closeAdmission has the lock.
Admission == \A w \in Workers : worker[w].pc # "claim"

\* claimFrom: under the lock, a job is claimed and counted.
Claim(w) ==
  /\ worker[w].pc = "claim"
  /\ \E t \in queued \ {worker[x].track : x \in Workers} :
       worker' = [worker EXCEPT ![w] = [pc |-> "run", track |-> t]]
  /\ UNCHANGED <<stop, signals, outcomes, call, queued, pending>>

\* Nothing to claim, an error, or closed meanwhile.
NoClaim(w) ==
  /\ worker[w].pc = "claim"
  /\ At(w, "idle")
  /\ UNCHANGED <<stop, signals, outcomes, call, queued, pending>>

\* idleWait: until stopped, woken, or the poll is due.
IdleWait(w) ==
  /\ worker[w].pc = "idle"
  /\ \/ closed /\ At(w, "gone")
     \/ At(w, "loop")
  /\ UNCHANGED <<stop, signals, outcomes, call, queued, pending>>

\* The run ends. Its outcome is recorded, unless it is to be retried or has
\* panicked; a run that fails once it is cancelled is not retried.
RunEnds(w) ==
  /\ worker[w].pc = "run"
  /\ \/ At(w, "settle") /\ outcomes' = outcomes + 1
     \/ At(w, "retry") /\ UNCHANGED outcomes
  /\ UNCHANGED <<stop, signals, call, queued, pending>>

\* finishJob: a job is settled, or released to be run again, by the next process
\* if it was cancelled. One that has panicked at the cap is settled.
Finish(w) ==
  /\ worker[w].pc \in {"settle", "retry"}
  /\ \/ ~ cancelled /\ queued' = queued \ {worker[w].track}
     \/ (cancelled \/ worker[w].pc = "retry") /\ UNCHANGED queued
  /\ At(w, "untrack")
  /\ UNCHANGED <<stop, signals, outcomes, call, pending>>

Untrack(w) ==
  /\ worker[w].pc = "untrack"
  /\ pending' = pending \ {worker[w].track}
  /\ worker' = [worker EXCEPT ![w] = [pc |-> "loop", track |-> NoTrack]]
  /\ UNCHANGED <<stop, signals, outcomes, call, queued>>

\* Recorded, or given up at its timeout.
Recorded ==
  /\ outcomes > 0 /\ outcomes' = outcomes - 1
  /\ UNCHANGED <<stop, signals, worker, call, queued, pending>>

ListenerEnds ==
  /\ listening /\ cancelled
  /\ listening' = FALSE
  /\ UNCHANGED <<stop, expired, paused, worker, outcomes, call, queued, pending>>

PauseOrResume ==
  /\ paused' = ~ paused
  /\ UNCHANGED <<stop, expired, listening, worker, outcomes, call, queued, pending>>

-----------------------------------------------------------------------------
(* Shutdown                                                                *)

Begin ==
  /\ shutdown = "serving" /\ shutdown' = "closing"
  /\ UNCHANGED <<closed, cancelled, drained, pending>>

CloseAdmission ==
  /\ shutdown = "closing" /\ Admission
  /\ closed' = TRUE /\ shutdown' = "drain"
  /\ UNCHANGED <<cancelled, drained, pending>>

\* The jobs are done, the budget has passed, or the context has ended.
AwaitDrainBudget ==
  /\ shutdown = "drain" /\ shutdown' = "cancel"
  /\ drained' \in {FALSE, Jobs = {}}
  /\ UNCHANGED <<closed, cancelled, pending>>

\* A slip: only what is left running is cancelled.
CancelUnlessDrained ==
  /\ shutdown = "cancel" /\ shutdown' = IF drained THEN "runners" ELSE "await"
  /\ cancelled' = ~ drained
  /\ UNCHANGED <<closed, drained, pending>>

Cancel ==
  /\ shutdown = "cancel" /\ shutdown' = IF drained THEN "runners" ELSE "await"
  /\ cancelled' = TRUE
  /\ UNCHANGED <<closed, drained, pending>>

AwaitCancelledJobs ==
  /\ shutdown = "await" /\ shutdown' = "runners"
  /\ \/ Jobs = {} /\ drained' = TRUE
     \/ expired /\ UNCHANGED drained
  /\ UNCHANGED <<closed, cancelled, pending>>

WaitRunners ==
  /\ shutdown = "runners" /\ shutdown' = IF drained THEN "outcomes" ELSE "sweep"
  /\ (Runners = {} /\ ~ listening) \/ expired
  /\ UNCHANGED <<closed, cancelled, drained, pending>>

WaitOutcomes ==
  /\ shutdown = "outcomes" /\ shutdown' = "sweep"
  /\ outcomes = 0 \/ expired
  /\ UNCHANGED <<closed, cancelled, drained, pending>>

Sweep ==
  /\ shutdown = "sweep" /\ shutdown' = "done"
  /\ pending' = {}
  /\ UNCHANGED <<closed, cancelled, drained>>

ShutdownStep ==
  /\ \/ Begin \/ CloseAdmission \/ AwaitDrainBudget \/ Cancel
     \/ AwaitCancelledJobs \/ WaitRunners \/ WaitOutcomes \/ Sweep
  /\ UNCHANGED <<signals, worker, outcomes, call, queued>>

Expire ==
  /\ ~ expired /\ shutdown # "serving"
  /\ expired' = TRUE
  /\ UNCHANGED <<stop, paused, listening, worker, outcomes, call, queued, pending>>

-----------------------------------------------------------------------------

WorkerStep(w) ==
  Loop(w) \/ Claim(w) \/ NoClaim(w) \/ IdleWait(w) \/ RunEnds(w) \/ Finish(w) \/ Untrack(w)

CallStep(c) == Track(c) \/ Enqueue(c) \/ EnqueueFails(c) \/ FinishEnqueue(c)

Next ==
  \/ \E c \in Calls : CallStep(c) \/ \E t \in Tracks : Call(c, t)
  \/ \E w \in Workers : WorkerStep(w)
  \/ Recorded \/ ListenerEnds \/ PauseOrResume
  \/ ShutdownStep \/ Expire

Spec == Init /\ [][Next]_vars

Stopping == shutdown # "serving"

\* Goroutines go on, runs end once they are cancelled, and select does not pass
\* over the closed channel for ever. Nothing makes the context expire.
FairSpec ==
  /\ Spec
  /\ WF_vars(Stopping /\ ShutdownStep)
  /\ WF_vars(Recorded) /\ WF_vars(ListenerEnds)
  /\ \A w \in Workers : WF_vars(WorkerStep(w))

-----------------------------------------------------------------------------
(* Properties                                                              *)

\* Once Shutdown has found the jobs drained none runs again, and unless its
\* context ends first, Shutdown leaves no worker, listener or outcome behind.
StopsCleanly ==
  /\ drained => Jobs = {}
  /\ shutdown = "done" /\ ~ expired => Runners = {} /\ ~ listening /\ outcomes = 0

\* After Shutdown the caller's wait group gets to zero, whatever requests were
\* let in before it and whichever of their enqueues fail or come late.
NothingLeftPending ==
  shutdown = "done" /\ (\A c \in Calls : call[c].pc \in {"new", "done"}) => pending = {}

\* Shutdown returns, even if its context never ends.
ShutdownEnds == Stopping ~> shutdown = "done"
=============================================================================
