------------------------------ MODULE JobQueue ------------------------------
(***************************************************************************)
(* The durable acquisition queue of go-api: the rows of `tracks` that      *)
(* carry jobs (JobRow), the scheduler's workers that claim them under a    *)
(* fenced lease, the track ledger through which a worker lands its         *)
(* outcome, and the catalog writers that change the same rows behind the   *)
(* queue's back.                                                           *)
(*                                                                         *)
(* One SQL statement is one step.  Whatever the code does in two           *)
(* statements (load then compare-and-set, verify then commit, fail then    *)
(* settle) is two steps here, and anything may happen in between.          *)
(***************************************************************************)
EXTENDS JobRow, Integers, FiniteSets

CONSTANTS
  Tracks,          \* track ids
  UserWorkers,     \* workers that claim acquire and replace jobs
  UpgradeWorkers,  \* workers that claim upgrade jobs
  Clients,         \* catalog requests in flight
  Purposes,        \* what requests are made for, adding a track aside
  MaxRuns,         \* maxAcquisitionAttempts
  MaxFence,        \* bound on the claims of one track
  MayStall,        \* may a worker outlive its lease?
  AudioVanishes,   \* may the object of a ready track go missing?
  Budget           \* bound on requests, stalls, crashes, shutdowns and calls of
                   \* the database that fail a run

Workers == UserWorkers \cup UpgradeWorkers

ASSUME QueueAssumption ==
  /\ UserWorkers \cap UpgradeWorkers = {}
  /\ Purposes \subseteq {"retry", "reacquire", "recover", "plan"}
  /\ MaxRuns \in Nat \ {0}
  /\ MaxFence \in Nat
  /\ MayStall \in BOOLEAN
  /\ AudioVanishes \in BOOLEAN
  /\ Budget \in Nat

VARIABLES
  row,      \* row[t]     : the columns of track t
  job,      \* job[w]     : the ports.Job worker w was handed
  pc,       \* pc[w]      : where worker w is in runClaimedJob
  view,     \* view[w]    : what w read of the track when it last loaded it
  outcome,  \* outcome[w] : what completeClaimedJob recorded for the run
  req,      \* req[c]     : a request in flight: the track it read and what it
            \*              wants to do with it next
  owed,     \* owed[t]    : history: the first fence that may answer the latest
            \*              accepted user request for t; 0 when none is open
  spent     \* what Budget bounds, so far

vars == <<row, job, pc, view, outcome, req, owed, spent>>

Token    == [track : Tracks, kind : Kinds, run : Nat, fence : Nat]
NoJob    == [kind |-> "none"]
View     == [version : Nat, preserved : BOOLEAN]
NoView   == [version |-> 0, preserved |-> FALSE]
Wants    == Kinds \cup {"fail"}
Req      == [purpose : {"add", "retry", "reacquire", "recover", "plan"},
             track : Tracks, version : Nat, want : Wants]
NoReq    == [purpose |-> "none"]
PCs      == {"idle", "claimed", "reverting", "running", "verified",
             "committing", "failing", "marking", "finishing"}
Outcomes == {"none", "succeeded", "failed", "unrecorded", "cancelled", "retrying",
             "panicked"}

TypeOK ==
  /\ row \in [Tracks -> Row]
  /\ job \in [Workers -> Token \cup {NoJob}]
  /\ pc \in [Workers -> PCs]
  /\ \A w \in Workers : pc[w] # "idle" => job[w] \in Token
  /\ view \in [Workers -> View]
  /\ outcome \in [Workers -> Outcomes]
  /\ req \in [Clients -> Req \cup {NoReq}]
  /\ owed \in [Tracks -> Nat]
  /\ spent \in Nat

Init ==
  /\ row = [t \in Tracks |-> AbsentRow]
  /\ job = [w \in Workers |-> NoJob]
  /\ pc = [w \in Workers |-> "idle"]
  /\ view = [w \in Workers |-> NoView]
  /\ outcome = [w \in Workers |-> "none"]
  /\ req = [c \in Clients |-> NoReq]
  /\ owed = [t \in Tracks |-> 0]
  /\ spent = 0

-----------------------------------------------------------------------------
(* Helpers                                                                 *)

TrackOf(w) == job[w].track
FenceOf(w) == job[w].fence

\* Worker w is still the owner its fence says it is (VerifyLease's predicate).
Holds(w) == pc[w] # "idle" /\ HoldsLease(row[TrackOf(w)], FenceOf(w))

SetRow(t, r) == row' = [row EXCEPT ![t] = r]
Goto(w, to)  == pc' = [pc EXCEPT ![w] = to]
Spend        == spent < Budget /\ spent' = spent + 1

\* The run of w ended as o: completeClaimedJob records it, finishJob comes next.
EndRun(w, o) == Goto(w, "finishing") /\ outcome' = [outcome EXCEPT ![w] = o]

\* The ledger could not be read, or not be told that the run failed: the job log
\* has it as failed, and the track stays as it is.
Unrecorded(w) == Spend /\ EndRun(w, "unrecorded")

\* Worker w is done with its job.
GoIdle(w) ==
  /\ Goto(w, "idle")
  /\ job' = [job EXCEPT ![w] = NoJob]
  /\ view' = [view EXCEPT ![w] = NoView]
  /\ outcome' = [outcome EXCEPT ![w] = "none"]

\* The open request on t is answered by the outcome its owner lands: the
\* compare-and-set shows that the owner saw the request.
Landed(t, fence) ==
  owed' = IF FenceMatches(row[t], fence) THEN [owed EXCEPT ![t] = 0] ELSE owed

\* It is answered, too, when a run that was to answer it leaves the queue.
LeftQueue(t, fence) ==
  owed' = IF fence >= owed[t] THEN [owed EXCEPT ![t] = 0] ELSE owed

-----------------------------------------------------------------------------
(* Requests: who puts work on a row.  A request reads the track, decides,  *)
(* and acts on what it read in a later step, when the row may be in any    *)
(* other state.                                                            *)

Ask(c, r) == req' = [req EXCEPT ![c] = r]

\* AddTrackService: insert the row, then schedule it.
AddTrack(c, t) ==
  /\ req[c] = NoReq
  /\ row[t] = AbsentRow
  /\ SetRow(t, InsertedRow)
  /\ Ask(c, [purpose |-> "add", track |-> t, version |-> InsertedRow.version,
             want |-> "acquire"])
  /\ owed' = [owed EXCEPT ![t] = 1]
  /\ UNCHANGED <<job, pc, view, outcome, spent>>

\* What each purpose reads the track as, and what it then asks for: a manual
\* retry of a failed track, a manual replacement of a ready one, a stream
\* that found the object of a ready track missing, the upgrade planner.
ReadTrack(c, t, purpose) ==
  /\ req[c] = NoReq
  /\ row[t].status = IF purpose = "retry" THEN "failed" ELSE "ready"
  /\ purpose = "recover" => AudioVanishes
  /\ purpose = "plan" => row[t].avail = "never"
  /\ Spend
  /\ Ask(c, [purpose |-> purpose, track |-> t, version |-> row[t].version,
             want |-> CASE purpose = "retry"     -> "acquire"
                        [] purpose = "reacquire" -> "replace"
                        [] purpose = "recover"   -> "fail"
                        [] purpose = "plan"      -> "upgrade"])
  /\ UNCHANGED <<row, job, pc, view, outcome, owed>>

\* What is left to do for a request whose scheduling was refused: only an
\* add marks its track failed.
Refused(c) ==
  Ask(c, IF req[c].purpose = "add" THEN [req[c] EXCEPT !.want = "fail"]
                                   ELSE NoReq)

\* The first fence that may answer a request for kind accepted on row r: a run
\* that keeps its lease and has landed no failure is to answer it too.
AnswerFence(r, kind) ==
  IF KeepsLease(r, kind) /\ r.status # "failed"
  THEN r.attempts ELSE Enqueued(r, kind, "due").attempts + 1

LatestFence(f, g) == IF f > g THEN f ELSE g

\* The enqueue statement of request c, applied.  The reply may still be an
\* error: the call's deadline can pass after the row was written.
Enqueue(c) ==
  /\ req[c] # NoReq /\ req[c].want \in Kinds
  /\ LET t == req[c].track
         kind == req[c].want
     IN
     /\ CanEnqueue(row[t], kind)
     /\ SetRow(t, Enqueued(row[t], kind, "due"))
     /\ owed' = IF kind = "upgrade" THEN owed
                ELSE [owed EXCEPT ![t] = LatestFence(@, AnswerFence(row[t], kind))]
  /\ Ask(c, NoReq) \/ Refused(c)
  /\ UNCHANGED <<job, pc, view, outcome, spent>>

\* Not applied: refused by the row, by a paused or closed scheduler, or lost.
EnqueueRefused(c) ==
  /\ req[c] # NoReq /\ req[c].want \in Kinds
  /\ Refused(c)
  /\ UNCHANGED <<row, job, pc, view, outcome, owed, spent>>

\* The compare-and-set of an add whose scheduling was refused, or of a stream
\* recovery, which then schedules an acquisition.  A conflict drops it, and so
\* does an error.
MarkFailed(c) ==
  /\ req[c] # NoReq /\ req[c].want = "fail"
  /\ LET t == req[c].track IN
     \/ /\ Exists(row[t]) /\ row[t].version = req[c].version
        /\ SetRow(t, Written(row[t], "failed"))
        /\ owed' = IF row[t].status = "pending"
                   THEN [owed EXCEPT ![t] = 0] ELSE owed
        /\ Ask(c, IF req[c].purpose = "recover"
                  THEN [req[c] EXCEPT !.want = "acquire"] ELSE NoReq)
     \/ Ask(c, NoReq) /\ UNCHANGED <<row, owed>>
  /\ UNCHANGED <<job, pc, view, outcome, spent>>

DeleteTrack(t) ==
  /\ Exists(row[t])
  /\ SetRow(t, DeletedRow)
  /\ owed' = [owed EXCEPT ![t] = 0]
  /\ UNCHANGED <<job, pc, view, outcome, req, spent>>

-----------------------------------------------------------------------------
(* Time                                                                    *)

BecomesDue(t) ==
  /\ row[t].avail = "later"
  /\ SetRow(t, [row[t] EXCEPT !.avail = "due"])
  /\ UNCHANGED <<job, pc, view, outcome, req, owed, spent>>

\* A lease nobody heartbeats lapses.  While its holder runs, the heartbeat
\* keeps it, unless the holder is stalled for longer than a lease.
LeaseLapses(t) ==
  /\ row[t].lease = "live"
  /\ SetRow(t, [row[t] EXCEPT !.lease = "lapsed"])
  /\ IF \E w \in Workers : Holds(w) /\ TrackOf(w) = t
     THEN MayStall /\ Spend ELSE UNCHANGED spent
  /\ UNCHANGED <<job, pc, view, outcome, req, owed>>

-----------------------------------------------------------------------------
(* Claiming                                                                *)

Hand(w, t) ==
  /\ row[t].attempts < MaxFence
  /\ SetRow(t, Leased(row[t]))
  /\ job' = [job EXCEPT ![w] =
       [track |-> t, kind |-> row[t].kind,
        run |-> row[t].runs + 1, fence |-> row[t].attempts + 1]]
  /\ Goto(w, "claimed")
  /\ UNCHANGED <<view, outcome, req, owed, spent>>

Claim(w) ==
  /\ w \in UserWorkers
  /\ pc[w] = "idle"
  /\ \E t \in Tracks : ClaimableUserJob(row[t]) /\ Hand(w, t)

ClaimUpgrade(w) ==
  /\ w \in UpgradeWorkers
  /\ pc[w] = "idle"
  /\ \A t \in Tracks : ~ ClaimableUserJob(row[t])
  /\ \E t \in Tracks : ClaimableUpgrade(row[t]) /\ Hand(w, t)

-----------------------------------------------------------------------------
(* Running a claimed job                                                   *)

\* The heartbeat goroutine lives as long as the run.
HeartbeatRuns(w) == pc[w] \notin {"idle", "finishing"}

Heartbeat(w) ==
  /\ HeartbeatRuns(w)
  /\ HoldsLease(row[TrackOf(w)], FenceOf(w))
  /\ SetRow(TrackOf(w), [row[TrackOf(w)] EXCEPT !.lease = "live"])
  /\ UNCHANGED <<job, pc, view, outcome, req, owed, spent>>

\* A heartbeat was refused, or none got through for a whole lease: the job
\* context is cancelled, and the run returns without touching the track.
\* The failure path writes on a detached context and is not cut short.
Cancelled(w) ==
  /\ pc[w] \in {"claimed", "reverting", "running", "verified", "committing"}
  /\ ~ Holds(w)
  /\ EndRun(w, "cancelled")
  /\ UNCHANGED <<row, job, view, req, owed, spent>>

\* What the policy of each kind makes of the track it loaded. Whether the object
\* of a ready track exists may not be found out.
LoadVerdict(w, r) ==
  \/ /\ \/ job[w].kind = "acquire" /\ r.status = "pending"
        \/ job[w].kind = "replace"
        \/ job[w].kind = "upgrade" /\ r.status = "ready"
     /\ Goto(w, "running") /\ UNCHANGED <<outcome, spent>>
  \/ /\ job[w].kind = "acquire"
     /\ r.status = "failed" \/ (r.status = "ready" /\ AudioVanishes)
     /\ Goto(w, "reverting") /\ UNCHANGED <<outcome, spent>>
  \/ /\ \/ job[w].kind = "acquire" /\ r.status = "ready"
        \/ job[w].kind = "upgrade" /\ r.status # "ready"
     /\ EndRun(w, "succeeded") /\ UNCHANGED spent
  \/ /\ job[w].kind = "acquire" /\ r.status = "ready"
     /\ Spend /\ EndRun(w, "failed")

\* loadTrack, then per kind: Execute reconciles a track that is not pending,
\* ExecuteReplace runs on what it finds and keeps what is being served,
\* ExecuteUpgrade skips a track with no playable file. A load that fails ends the
\* run: nobody marks the track failed, whatever its status.
LoadTrack(w) ==
  /\ pc[w] = "claimed"
  /\ \/ /\ LET r == row[TrackOf(w)] IN
           /\ view' = [view EXCEPT ![w] =
                [version   |-> r.version,
                 preserved |-> job[w].kind # "acquire" /\ r.status = "ready"]]
           /\ \/ ~ Exists(r) /\ EndRun(w, "succeeded") /\ UNCHANGED spent
              \/ Exists(r) /\ LoadVerdict(w, r)
     \/ Unrecorded(w) /\ UNCHANGED view
  /\ UNCHANGED <<row, job, req, owed>>

\* reacquirePolicy.revertToPending: RevertAt compares the version and not the
\* fence.  A conflict or an error ends the run as it is.
RevertToPending(w) ==
  /\ pc[w] = "reverting"
  /\ LET r == row[TrackOf(w)]
         current == Exists(r) /\ r.version = view[w].version
     IN
     \/ /\ current
        /\ SetRow(TrackOf(w), Written(r, "pending"))
        /\ Goto(w, "running")
        /\ UNCHANGED <<outcome, spent>>
     \/ /\ IF current THEN Spend ELSE UNCHANGED spent
        /\ EndRun(w, "failed") /\ UNCHANGED row
  /\ UNCHANGED <<job, view, req, owed>>

\* Only an upgrade asks the queue before it commits (verifyCommitAllowed).
VerifyLease(w) ==
  /\ pc[w] = "running"
  /\ job[w].kind = "upgrade"
  /\ IF Holds(w) THEN Goto(w, "verified") /\ UNCHANGED outcome
                 ELSE EndRun(w, "cancelled")
  /\ UNCHANGED <<row, job, view, req, owed, spent>>

\* A permanent failure: Execute marks the track failed, a replace or an
\* upgrade leaves it as it is.
FailTo(w) ==
  IF job[w].kind = "acquire"
  THEN Goto(w, "failing") /\ outcome' = [outcome EXCEPT ![w] = "failed"]
  ELSE EndRun(w, "failed")

\* What Complete asks of the domain: ReplaceAudio needs a ready track.  A
\* track that is ready on another object refuses MarkReady.
Completable(w, r) ==
  IF view[w].preserved THEN r.status = "ready" ELSE r.status # "ready"

\* ledger.Complete, first half: load, compare the fence, apply in memory.
CommitLoad(w) ==
  /\ pc[w] = IF job[w].kind = "upgrade" THEN "verified" ELSE "running"
  /\ LET r == row[TrackOf(w)] IN
     \/ /\ FenceMatches(r, FenceOf(w)) /\ Completable(w, r)
        /\ Goto(w, "committing")
        /\ view' = [view EXCEPT ![w].version = r.version]
        /\ UNCHANGED outcome
     \/ /\ Exists(r) /\ r.attempts # FenceOf(w)
        /\ EndRun(w, "cancelled")
        /\ UNCHANGED view
     \/ /\ \/ ~ Exists(r)
           \/ FenceMatches(r, FenceOf(w)) /\ ~ Completable(w, r)
        /\ FailTo(w)
        /\ UNCHANGED view
  /\ UNCHANGED <<row, job, req, owed, spent>>

\* ledger.Complete, second half: the compare-and-set; a conflict loads again.
CommitWrite(w) ==
  /\ pc[w] = "committing"
  /\ LET r == row[TrackOf(w)] IN
     IF Exists(r) /\ r.version = view[w].version
     THEN /\ SetRow(TrackOf(w), Written(r, "ready"))
          /\ EndRun(w, "succeeded")
          /\ Landed(TrackOf(w), FenceOf(w))
     ELSE /\ Goto(w, IF job[w].kind = "upgrade" THEN "verified" ELSE "running")
          /\ UNCHANGED <<row, outcome, owed>>
  /\ UNCHANGED <<job, view, req, spent>>

\* The pipeline failed for good, the ledger's load or write of the outcome among
\* its steps, or an upgrade was kept.
RunFails(w) ==
  /\ pc[w] \in {"running", "verified", "committing"}
  /\ FailTo(w)
  /\ UNCHANGED <<row, job, view, req, owed, spent>>

\* A transient failure below the cap: the track stays as it is.
RunRetries(w) ==
  /\ pc[w] = "running"
  /\ job[w].kind # "upgrade"
  /\ job[w].run < MaxRuns
  /\ EndRun(w, "retrying")
  /\ UNCHANGED <<row, job, view, req, owed, spent>>

RunPanics(w) ==
  /\ pc[w] = "running"
  /\ EndRun(w, "panicked")
  /\ UNCHANGED <<row, job, view, req, owed, spent>>

\* ledger.Fail, first half: FailAcquisition is legal from pending only. An error
\* of either half is logged, and the run ends as one that failed all the same.
FailLoad(w) ==
  /\ pc[w] = "failing"
  /\ LET r == row[TrackOf(w)]
         legal == FenceMatches(r, FenceOf(w)) /\ r.status = "pending"
     IN
     \/ /\ legal
        /\ Goto(w, "marking")
        /\ view' = [view EXCEPT ![w].version = r.version]
        /\ UNCHANGED <<outcome, spent>>
     \/ /\ ~ legal
        /\ Goto(w, "finishing") /\ UNCHANGED <<view, outcome, spent>>
     \/ Unrecorded(w) /\ UNCHANGED view
  /\ UNCHANGED <<row, job, req, owed>>

\* The second half; the error may be the last of five conflicts.
FailWrite(w) ==
  /\ pc[w] = "marking"
  /\ LET r == row[TrackOf(w)]
         current == Exists(r) /\ r.version = view[w].version
     IN
     \/ /\ current
        /\ SetRow(TrackOf(w), Written(r, "failed"))
        /\ Goto(w, "finishing")
        /\ Landed(TrackOf(w), FenceOf(w))
        /\ UNCHANGED <<outcome, spent>>
     \/ /\ ~ current
        /\ Goto(w, "failing") /\ UNCHANGED <<row, owed, outcome, spent>>
     \/ Unrecorded(w) /\ UNCHANGED <<row, owed>>
  /\ UNCHANGED <<job, view, req>>

-----------------------------------------------------------------------------
(* finishJob                                                               *)

PanickedAtCap(w) == outcome[w] = "panicked" /\ job[w].run >= MaxRuns

\* releasePanickedJob at the cap marks the track failed before it settles,
\* whatever the kind; the outcome then reads "failed".
RefuseQueued(w) ==
  /\ pc[w] = "finishing"
  /\ PanickedAtCap(w)
  /\ Goto(w, "failing")
  /\ outcome' = [outcome EXCEPT ![w] = "failed"]
  /\ UNCHANGED <<row, job, view, req, owed, spent>>

Settle(w) ==
  /\ pc[w] = "finishing"
  /\ outcome[w] \in {"succeeded", "failed", "unrecorded", "cancelled"}
  /\ LET t == TrackOf(w) IN
     /\ IF FenceMatches(row[t], FenceOf(w))
        THEN SetRow(t, Settled(row[t])) ELSE UNCHANGED row
     /\ IF FenceMatches(row[t], FenceOf(w)) /\ row[t].status # "pending"
        THEN LeftQueue(t, FenceOf(w)) ELSE UNCHANGED owed
  /\ GoIdle(w)
  /\ UNCHANGED <<req, spent>>

\* retryBackoff is never zero.
Release(w) ==
  /\ pc[w] = "finishing"
  /\ outcome[w] \in {"retrying", "panicked"} /\ ~ PanickedAtCap(w)
  /\ IF FenceMatches(row[TrackOf(w)], FenceOf(w))
     THEN SetRow(TrackOf(w), Released(row[TrackOf(w)], "later"))
     ELSE UNCHANGED row
  /\ GoIdle(w)
  /\ UNCHANGED <<req, owed, spent>>

\* The scheduler is shutting down: the run is cancelled and, whatever it
\* returned, the job is released with no delay.
ShutdownRelease(w) ==
  /\ pc[w] \notin {"idle", "failing", "marking"}
  /\ Spend
  /\ IF FenceMatches(row[TrackOf(w)], FenceOf(w))
     THEN SetRow(TrackOf(w), Released(row[TrackOf(w)], "due"))
     ELSE UNCHANGED row
  /\ GoIdle(w)
  /\ UNCHANGED <<req, owed>>

\* The process dies: the row keeps its lease until it lapses. So it does when
\* the statement that settles or releases the job fails.
Crash(w) ==
  /\ pc[w] # "idle"
  /\ Spend
  /\ GoIdle(w)
  /\ UNCHANGED <<row, req, owed>>

-----------------------------------------------------------------------------

Request ==
  \/ \E c \in Clients, t \in Tracks : AddTrack(c, t)
  \/ \E c \in Clients, t \in Tracks, p \in Purposes : ReadTrack(c, t, p)
  \/ \E c \in Clients : Enqueue(c) \/ EnqueueRefused(c) \/ MarkFailed(c)
  \/ \E t \in Tracks : DeleteTrack(t)

Time == \E t \in Tracks : BecomesDue(t) \/ LeaseLapses(t)

\* What a live worker does next.
Work(w) ==
  \/ Claim(w) \/ ClaimUpgrade(w)
  \/ LoadTrack(w) \/ RevertToPending(w) \/ VerifyLease(w)
  \/ CommitLoad(w) \/ CommitWrite(w)
  \/ RunFails(w) \/ RunRetries(w) \/ RunPanics(w)
  \/ FailLoad(w) \/ FailWrite(w)
  \/ Cancelled(w) \/ RefuseQueued(w) \/ Settle(w) \/ Release(w)

Interrupt(w) == Heartbeat(w) \/ ShutdownRelease(w) \/ Crash(w)

Next ==
  \/ Request
  \/ Time
  \/ \E w \in Workers : Work(w) \/ Interrupt(w)

Spec == Init /\ [][Next]_vars

\* Workers keep working and the clock keeps running; nobody has to ask for
\* anything, to crash or to stall.
Fairness ==
  /\ \A w \in Workers : WF_vars(Work(w))
  /\ \A t \in Tracks : WF_vars(BecomesDue(t)) /\ WF_vars(LeaseLapses(t))

FairSpec == Spec /\ Fairness

-----------------------------------------------------------------------------
(* Properties                                                              *)

\* No two workers hold the lease of the same track: however claims, lapses,
\* re-enqueues and preemptions interleave, at most one claimant passes the
\* fenced predicate that heartbeat and VerifyLease test.
OneLeaseHolder ==
  \A v, w \in Workers :
    v # w /\ Holds(v) /\ Holds(w) => TrackOf(v) # TrackOf(w)

\* The ledger's fence check happens on load and its write on a version
\* compare-and-set, two statements apart: even so, an outcome (ready or
\* failed) only ever lands from the claimant the row's fence names at the
\* moment of the write.
OutcomeLandsFromOwner ==
  [][\A w \in Workers :
       (CommitWrite(w) \/ FailWrite(w)) /\ row' # row
         => FenceMatches(row[TrackOf(w)], FenceOf(w))]_vars

\* An accepted user request (an add, a retry, a replace) stays in the queue
\* until a claim that could see it has landed an outcome: no stale settle, no
\* stale catalog write, no preempted upgrade and no crash makes it vanish.
AcceptedRequestStaysQueued ==
  \A t \in Tracks : owed[t] > 0 => UserJobQueued(row[t])

\* A track shown as pending has a job in the queue, and not an upgrade, which
\* the user lane would not claim.  If it had none, nothing would ever move it:
\* no worker claims it, and a manual retry wants a failed track (violated by a
\* worker that outlives its lease: see the README).
PendingIsQueued ==
  \A t \in Tracks : row[t].status = "pending" =>
    row[t].avail # "never" /\ row[t].kind # "upgrade"

\* Nothing else strands a track: it stays queued while it is pending, through
\* requests of every kind, settles, preemptions and crashes, but for a revert
\* by a worker that is no longer its owner.
OnlyLateRevertsStrand ==
  [][PendingIsQueued /\ ~ PendingIsQueued'
       => \E w \in Workers :
            /\ pc[w] = "reverting" /\ ~ FenceMatches(row[TrackOf(w)], FenceOf(w))
            /\ RevertToPending(w)]_vars

LeavesQueueOnFailure(w) ==
  (/\ Settle(w)
   /\ outcome[w] = "failed"
   /\ FenceMatches(row[TrackOf(w)], FenceOf(w))
   /\ owed[TrackOf(w)] <= FenceOf(w))
     => row'[TrackOf(w)].avail = "never"

\* An acquire or upgrade run that failed for good leaves the queue when it
\* settles: it is not claimed again at once, with no backoff and no cap, for as
\* long as it keeps failing. There are two exceptions. A newer request is open;
\* or the failure is unrecorded, since the ledger could not be read when the run
\* began or not be written when it failed. Then a pending track stays due at once,
\* and is run over and over until the ledger answers.
FailedRunLeavesQueue ==
  [][\A w \in Workers :
       job[w] # NoJob /\ job[w].kind # "replace" => LeavesQueueOnFailure(w)]_vars

\* So does a replacement (violated: see the README).
FailedReplaceLeavesQueue ==
  [][\A w \in Workers :
       job[w] # NoJob /\ job[w].kind = "replace" => LeavesQueueOnFailure(w)]_vars

\* A lapsed lease is never revived under its own fence: only a new claim,
\* with a higher fence, makes a lapsed row live again.
LapsedLeaseStaysLapsed ==
  [][\A t \in Tracks :
       row[t].lease = "lapsed" /\ row'[t].lease = "live"
         => row'[t].attempts > row[t].attempts]_vars

\* A replacement that was accepted for a track that is not ready (any more).
ReplacesUnready(r) == r.kind = "replace" /\ r.status # "ready"

\* Every accepted user request, an add, a retry, a replacement or a recovery, is
\* eventually answered, through retries, panics, stalls, shutdowns, crashes and
\* failures of the ledger, unless it becomes a replacement of a track that is not
\* ready: such a run is repeated for as long as it fails (see the README).
EveryRequestAnswered ==
  \A t \in Tracks : owed[t] > 0 ~> owed[t] = 0 \/ ReplacesUnready(row[t])

-----------------------------------------------------------------------------
(* The queue as a fenced lease: a track is leased through its row, a       *)
(* worker is granted what it was handed, and what an owner publishes is a  *)
(* ready track.                                                            *)

LeaseFence  == [t \in Tracks |-> IF row[t].status = "deleted"
                                 THEN -1 ELSE row[t].attempts]
LiveTracks  == {t \in Tracks : row[t].lease = "live"}
Grants      == [w \in Workers |->
                  IF pc[w] = "idle" THEN [resource |-> "none"]
                  ELSE [resource |-> TrackOf(w), fence |-> FenceOf(w)]]
ReadyTracks == {t \in Tracks : row[t].status = "ready"}

Lease == INSTANCE FencedLease WITH
  Resources <- Tracks, Holders <- Workers, fence <- LeaseFence,
  live <- LiveTracks, grant <- Grants, published <- ReadyTracks

\* The queue implements the fenced lease: every statement of the queue and of
\* the catalog is one of its steps or changes nothing it speaks of. Above all,
\* a track becomes ready by nobody but the claimant its row names.
ImplementsFencedLease == Lease!LeaseSpec
=============================================================================
