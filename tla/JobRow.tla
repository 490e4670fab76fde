------------------------------- MODULE JobRow -------------------------------
(***************************************************************************)
(* The acquisition queue has no table of its own: a job is a set of        *)
(* columns on its row of `tracks`, and every queue operation is one UPDATE *)
(* of that row (job_queue.go).  This module states what each statement     *)
(* requires of the row (its WHERE clause) and what it leaves behind (its   *)
(* SET clause), as operators on a record.                                  *)
(*                                                                         *)
(* Time is kept only as far as the statements can tell it apart:           *)
(*   avail  "never"  acquisition_available_at IS NULL                      *)
(*          "later"  acquisition_available_at > now()                      *)
(*          "due"    acquisition_available_at <= now()                     *)
(*   lease  "none"   acquisition_lease_until IS NULL                       *)
(*          "live"   acquisition_lease_until >= now()                      *)
(*          "lapsed" acquisition_lease_until < now()                       *)
(***************************************************************************)
EXTENDS Naturals

Kinds    == {"acquire", "replace", "upgrade"}
Statuses == {"pending", "ready", "failed"}
Avails   == {"never", "later", "due"}
Leases   == {"none", "live", "lapsed"}

\* "absent" stands for a row that is not in the table: not yet inserted, or
\* deleted.  A track id is never used twice.
Row == [status   : Statuses \cup {"absent", "deleted"},
        kind     : Kinds,
        avail    : Avails,
        lease    : Leases,
        attempts : Nat,      \* acquisition_attempts: the fence
        runs     : Nat,      \* acquisition_run_attempts
        version  : Nat]

AbsentRow == [status |-> "absent", kind |-> "acquire", avail |-> "never",
              lease |-> "none", attempts |-> 0, runs |-> 0, version |-> 0]

DeletedRow == [AbsentRow EXCEPT !.status = "deleted"]

\* track_repo.go Add: a track is inserted pending with available_at = now().
InsertedRow == [AbsentRow EXCEPT !.status = "pending", !.avail = "due",
                                 !.version = 1]

Exists(r) == r.status \in Statuses

-----------------------------------------------------------------------------
(* Enqueue                                                                 *)

Preempts(r, kind) == r.kind = "upgrade" /\ kind # "upgrade"

CanEnqueue(r, kind) ==
  /\ Exists(r)
  /\ ~ (kind = "acquire" /\ r.status = "ready")
  /\ kind = "upgrade" =>
       r.status = "ready" /\ (r.avail = "never" \/ r.kind = "upgrade")
  /\ \/ Preempts(r, kind)
     \/ r.status # "pending" /\ r.avail = "never"
     \/ r.lease \in {"none", "lapsed"}
     \/ r.kind = kind

KeepsLease(r, kind) ==
  /\ ~ Preempts(r, kind)
  /\ r.status = "pending" \/ r.avail # "never"
  /\ r.lease = "live"

BumpsFence(r, kind) == Preempts(r, kind) \/ r.lease = "lapsed"

\* Slip: only a replace keeps a ready track ready.
EnqueuedUpgradePends(r, kind, avail) ==
  [status   |-> IF kind = "replace" /\ r.status = "ready"
                THEN r.status ELSE "pending",
   kind     |-> kind,
   avail    |-> avail,
   lease    |-> IF KeepsLease(r, kind) THEN "live" ELSE "none",
   attempts |-> IF BumpsFence(r, kind) THEN r.attempts + 1 ELSE r.attempts,
   runs     |-> 0,
   version  |-> r.version + 1]

Enqueued(r, kind, avail) ==
  [status   |-> IF kind \in {"replace", "upgrade"} /\ r.status = "ready"
                THEN r.status ELSE "pending",
   kind     |-> kind,
   avail    |-> avail,
   lease    |-> IF KeepsLease(r, kind) THEN "live" ELSE "none",
   attempts |-> IF BumpsFence(r, kind) THEN r.attempts + 1 ELSE r.attempts,
   runs     |-> 0,
   version  |-> r.version + 1]

-----------------------------------------------------------------------------
(* Claim: what claimJobSQL and claimUpgradeJobSQL accept, and the lease    *)
(* both of them write.                                                     *)

UserJobQueued(r) ==
  /\ Exists(r)
  /\ r.avail # "never"
  /\ r.kind # "upgrade"
  /\ r.status = "pending" \/ r.kind = "replace"

\* Slip: a job whose worker died is not taken over.
ClaimableUnleased(r) ==
  UserJobQueued(r) /\ r.avail = "due" /\ r.lease = "none"

ClaimableUserJob(r) ==
  UserJobQueued(r) /\ r.avail = "due" /\ r.lease # "live"

ClaimableUpgrade(r) ==
  /\ Exists(r)
  /\ r.avail = "due"
  /\ r.kind = "upgrade"
  /\ r.lease # "live"

\* Slips: the claim leaves the fence, or the version, as it was.
LeasedSameFence(r) ==
  [r EXCEPT !.lease = "live", !.runs = @ + 1, !.version = @ + 1]

LeasedSameVersion(r) ==
  [r EXCEPT !.lease = "live", !.attempts = @ + 1, !.runs = @ + 1]

Leased(r) ==
  [r EXCEPT !.lease = "live", !.attempts = @ + 1, !.runs = @ + 1,
            !.version = @ + 1]

-----------------------------------------------------------------------------
(* The fenced statements: heartbeat, verify, release, settle.              *)

FenceMatches(r, fence) == Exists(r) /\ r.attempts = fence

HoldsLease(r, fence) ==
  FenceMatches(r, fence) /\ r.avail # "never" /\ r.lease = "live"

Released(r, avail) == [r EXCEPT !.lease = "none", !.avail = avail]

\* Slips: settling takes a pending job out of the queue, or keeps in it one
\* whose track is not pending.
SettledDropping(r) == [r EXCEPT !.lease = "none", !.avail = "never", !.kind = "acquire"]

SettledKeeping(r) ==
  [r EXCEPT !.lease = "none", !.avail = IF @ = "never" THEN "due" ELSE @]

Settled(r) ==
  IF r.status = "pending"
  THEN [r EXCEPT !.lease = "none",
                 !.avail = IF @ = "never" THEN "due" ELSE @]
  ELSE [r EXCEPT !.lease = "none", !.avail = "never", !.kind = "acquire"]

-----------------------------------------------------------------------------
(* The catalog's compare-and-set: track_repo.go Update writes the domain   *)
(* columns WHERE version = expected and leaves the queue columns alone.    *)

Written(r, status) == [r EXCEPT !.status = status, !.version = @ + 1]
=============================================================================
