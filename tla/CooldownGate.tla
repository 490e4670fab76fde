---------------------------- MODULE CooldownGate ----------------------------
(***************************************************************************)
(* The cooldown of manual retries and reacquisitions: a request is         *)
(* scheduled only if no other one for the same track and kind was admitted *)
(* within the cooldown, by whatever process.  The window is a row of       *)
(* acquisition_cooldowns; rows do not meet, so one is modelled.  A request *)
(* whose job could not be scheduled gives its window back.                 *)
(*                                                                         *)
(* Time is in ticks of the database's clock.                               *)
(***************************************************************************)
EXTENDS Naturals

CONSTANTS
  Retries,     \* requests to retry one track, in any process
  Cooldown,    \* RetryCooldown
  Statement,   \* how long a statement takes at most, after it has read the clock
  Unreserved,  \* nothing is reserved
  MaxTime

\* What the constants have to be: a statement is over long before a cooldown is.
ASSUME CooldownAssumption ==
  /\ Cooldown \in Nat /\ Statement \in Nat /\ Statement < Cooldown
  /\ MaxTime \in Nat
  /\ Unreserved \notin Nat

VARIABLES
  now,
  reserved,  \* admitted_at
  place,     \* where each request is
  admitted   \* when it read the clock; its admission, if it has one

gateVars == <<now, reserved, place, admitted>>

\* accepted: its job is scheduled, for good.
Places == {"idle", "reserving", "scheduling", "releasing", "accepted"}

GateTypeOK ==
  /\ now \in 0..MaxTime
  /\ reserved \in 0..MaxTime \cup {Unreserved}
  /\ place \in [Retries -> Places]
  /\ admitted \in [Retries -> 0..MaxTime]

GateInit ==
  /\ now = 0
  /\ reserved = Unreserved
  /\ place = [r \in Retries |-> "idle"]
  /\ admitted = [r \in Retries |-> 0]

Goes(r, from, to) == place[r] = from /\ place' = [place EXCEPT ![r] = to]

-----------------------------------------------------------------------------
(* Reserve: one statement.  clock_timestamp() is evaluated with the values *)
(* to insert, before the statement waits for a conflicting one.            *)

ReadClock(r) ==
  /\ Goes(r, "idle", "reserving")
  /\ admitted' = [admitted EXCEPT ![r] = now]
  /\ UNCHANGED <<now, reserved>>

\* The WHERE of the upsert.
Open(r) == reserved # Unreserved => reserved + Cooldown <= admitted[r]

Reserve(r) ==
  /\ Open(r) /\ Goes(r, "reserving", "scheduling")
  /\ reserved' = admitted[r]
  /\ UNCHANGED <<now, admitted>>

\* The reply is lost: nothing is scheduled, and nothing is given back.
ReserveUnanswered(r) ==
  /\ Open(r) /\ Goes(r, "reserving", "idle")
  /\ reserved' = admitted[r]
  /\ UNCHANGED <<now, admitted>>

\* cooldownRefusal, or the statement failed.
Refuse(r) ==
  Goes(r, "reserving", "idle") /\ UNCHANGED <<now, reserved, admitted>>

-----------------------------------------------------------------------------
(* run: schedule, and release what could not be scheduled                  *)

Schedule(r) ==
  Goes(r, "scheduling", "accepted") /\ UNCHANGED <<now, reserved, admitted>>

ScheduleFails(r) ==
  Goes(r, "scheduling", "releasing") /\ UNCHANGED <<now, reserved, admitted>>

\* A slip: the DELETE without admitted_at = $3.
WhateverIsReserved(r) == TRUE

\* WHERE admitted_at = $3
OwnReservation(r) == reserved = admitted[r]

ReleaseWindow(r) ==
  /\ Goes(r, "releasing", "idle")
  /\ reserved' = IF OwnReservation(r) THEN Unreserved ELSE reserved
  /\ UNCHANGED <<now, admitted>>

\* It is logged and forgotten: the window stays closed for its time.
ReleaseWindowFails(r) ==
  Goes(r, "releasing", "idle") /\ UNCHANGED <<now, reserved, admitted>>

Tick ==
  /\ now < MaxTime
  /\ \A r \in Retries : place[r] = "reserving" => now < admitted[r] + Statement
  /\ now' = now + 1
  /\ UNCHANGED <<reserved, place, admitted>>

-----------------------------------------------------------------------------

GateNext ==
  \/ \E r \in Retries :
       \/ ReadClock(r) \/ Reserve(r) \/ ReserveUnanswered(r) \/ Refuse(r)
       \/ Schedule(r) \/ ScheduleFails(r)
       \/ ReleaseWindow(r) \/ ReleaseWindowFails(r)
  \/ Tick

GateSpec == GateInit /\ [][GateNext]_gateVars

-----------------------------------------------------------------------------
(* Properties                                                              *)

\* Of two requests whose jobs were scheduled one was admitted a cooldown after
\* the other, but for the time a statement takes: whatever requests were
\* admitted in between, failed to schedule and gave their window back, however
\* late they did.
WindowIsKept ==
  \A r, s \in Retries :
    /\ r # s /\ place[r] = "accepted" /\ place[s] = "accepted"
    /\ admitted[r] <= admitted[s]
    => admitted[r] + Cooldown <= admitted[s] + Statement
=============================================================================
