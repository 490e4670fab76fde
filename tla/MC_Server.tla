------------------------------ MODULE MC_Server ------------------------------
(***************************************************************************)
(* Finite instances of four parts of the servers that have to go on, or to *)
(* end, whatever fails: the shutdown of the acquisition scheduler, the     *)
(* sweep that erases deleted users' queues, overseer's source of access    *)
(* tokens, and the sweep that builds the lists of unreleased songs.        *)
(* They share no state, so a behaviour is one of a single subject: the     *)
(* others stay as they begin, where their safety properties hold.          *)
(*                                                                         *)
(* All requests are for one track: either two workers race with a request, *)
(* a pause and a shutdown, or one worker and two requests with a shutdown. *)
(* Three owners in windows of one, of which one can be kept for a retry,   *)
(* fill the retry set and wrap the scan.  Two token sources share a file.  *)
(* Two artists that cannot be built fill the sweep before the third.       *)
(***************************************************************************)
EXTENDS SchedulerShutdown, ErasureSweep, RefreshingToken

CONSTANTS w2, c1, c2, a1, a2, a3, None

VARIABLES
  subject,
  stored, old, resting, job, builder, lookup, served, buildAges, buildFaults

buildVars == <<stored, old, resting, job, builder, lookup, served, buildAges, buildFaults>>

Lists == INSTANCE UnreleasedBuilds WITH
  Artists <- {a1, a2, a3}, Processes <- {}, Readers <- {}, Broken <- {a1, a2}, Limit <- 2,
  Nobody <- None, MaxAges <- 1, MaxFaults <- 1,
  sweep <- builder, ages <- buildAges, faults <- buildFaults

ASSUME ListsAssumption == Lists!BuildsAssumption

-----------------------------------------------------------------------------

Subjects == {"scheduler", "sweep", "token", "builds"}

MCInit ==
  /\ subject \in Subjects
  /\ Init /\ SweepInit /\ TokenInit /\ Lists!BuildsInit
  /\ subject # "builds" => \A a \in {a1, a2, a3} : ~ stored[a].known

\* The second request comes after the first one, while the second worker has no
\* job, and then it gets none.
SchedulerBounds ==
  call[c2].pc # "new" =>
    call[c1].pc # "new" /\ worker[w2].track = NoTrack /\ ~ paused

\* What the other subjects leave alone.
Beside(own) ==
  /\ UNCHANGED subject
  /\ own # "scheduler" => UNCHANGED vars
  /\ own # "sweep" => UNCHANGED sweepVars
  /\ own # "token" => UNCHANGED tokenVars
  /\ own # "builds" => UNCHANGED buildVars

MCNext ==
  \/ subject = "scheduler" /\ Next /\ SchedulerBounds' /\ Beside("scheduler")
  \/ subject = "sweep" /\ SweepNext /\ Beside("sweep")
  \/ subject = "token" /\ TokenNext /\ Beside("token")
  \/ subject = "builds" /\ Lists!BuildsNext /\ Beside("builds")

\* The fairness of the modules, for the subject.
MCSpec ==
  /\ MCInit /\ [][MCNext]_<<subject, vars, sweepVars, tokenVars, buildVars>>
  /\ WF_vars(subject = "scheduler" /\ Stopping /\ ShutdownStep)
  /\ WF_vars(subject = "scheduler" /\ Recorded)
  /\ WF_vars(subject = "scheduler" /\ ListenerEnds)
  /\ \A w \in Workers : WF_vars(subject = "scheduler" /\ WorkerStep(w))
  /\ WF_sweepVars(subject = "sweep" /\ GoOn)
  /\ WF_sweepVars(subject = "sweep" /\ Unhide)
  /\ \A p \in Processes :
       /\ WF_tokenVars(subject = "token" /\ Refresh(p))
       /\ WF_tokenVars(subject = "token" /\ Ask(p))
       /\ WF_tokenVars(subject = "token" /\ BackoffPasses(p))
  /\ WF_buildVars(subject = "builds" /\ Lists!SweepGoesOn)
  /\ \A a \in {a1, a2, a3} : WF_buildVars(subject = "builds" /\ Lists!HourPasses(a))

-----------------------------------------------------------------------------
(* Properties, besides those of SchedulerShutdown, ErasureSweep and        *)
(* RefreshingToken                                                         *)

\* A process without an access token gets one in the end: the subject's do.
TokensComeBack == subject = "token" => AccessComesBack

\* An artist that is requested is built, though others never can be.
RequestedIsBuilt == subject = "builds" => Lists!RequestedIsBuilt
=============================================================================
