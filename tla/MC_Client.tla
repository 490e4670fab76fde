------------------------------ MODULE MC_Client ------------------------------
(***************************************************************************)
(* Finite instances of what the client keeps on the device for the user:   *)
(* the offline downloads and the telemetry outbox.  They share no state,   *)
(* so a behaviour is one of a single subject: the other one stays as it    *)
(* begins, where its safety properties hold.                               *)
(*                                                                         *)
(* Two users make every change of user; two downloads of one of them, of   *)
(* which one waits while the other is at the network, two labels and a     *)
(* diagnostic that do not fit together, let every two of them interact.    *)
(* What two users download side by side is left to the theorems.           *)
(***************************************************************************)
EXTENDS PinnedDownloads, Outbox, TLC

CONSTANTS u1, u2, t1, t2

VARIABLE subject

LibraryOfTracks == t1 :> u1 @@ t2 :> u1

\* Only the outbox starts in more than one state; users are interchangeable.
MCInit ==
  /\ subject \in {"pins", "outbox"}
  /\ Init /\ OutboxInit
  /\ user # u2
  /\ subject = "pins" => user = Nobody

MCNext ==
  \/ subject = "pins" /\ Next /\ UNCHANGED <<subject, outboxVars>>
  \/ subject = "outbox" /\ OutboxNext /\ UNCHANGED <<subject, vars>>

\* The fairness of the modules, for the subject.
MCSpec ==
  /\ MCInit /\ [][MCNext]_<<subject, vars, outboxVars>>
  /\ WF_vars(subject = "pins" /\ Work)
  /\ WF_vars(subject = "pins" /\ ~ reconciled /\ Reconcile)
  /\ WF_vars(subject = "pins" /\ ~ pinSeeded /\ \E u \in Owners \cup {NoUser} : Apply(u))
  /\ WF_outboxVars(subject = "outbox" /\ Send)
  /\ WF_outboxVars(subject = "outbox" /\ RetryTimer)
=============================================================================
