---------------------------- MODULE ErasureSweep ----------------------------
(***************************************************************************)
(* The sweep that erases the queue states of deleted accounts.  A run      *)
(* first retries the owners an earlier run failed on, then pages through   *)
(* the owners in the order of their keys from where the last run stopped,  *)
(* and stops when its budget is spent or the owners cannot be listed.  The *)
(* retry set and the cursor are lost in a restart.                         *)
(*                                                                         *)
(* An owner is its place in the order of keys; 0 is before all of them.    *)
(* The order in which a list of owners is worked off, and in which those   *)
(* that failed are kept, is left open.                                     *)
(***************************************************************************)
EXTENDS Naturals, FiniteSets, FiniteSetsExt

CONSTANTS
  Owners,      \* how many users there are
  Window,      \* ownerScanWindow
  RetryCap,    \* maxRetryOwners
  MaxReturns,  \* bound on saves by deleted accounts whose token still holds
  MaxSweepFaults

\* What the constants have to be.
ASSUME SweepAssumption ==
  /\ Owners \in Nat /\ Window \in Nat \ {0} /\ RetryCap \in Nat
  /\ MaxReturns \in Nat /\ MaxSweepFaults \in Nat

VARIABLES
  live,     \* owners of a queue state that is not erased
  deleted,  \* users without an identity
  hidden,   \* the identity store reads as empty
  phase,    \* where the run is: retrying or scanning
  todo,     \* forgetAll: owners still to forget
  failed,   \* forgetAll: owners that could not be forgotten
  at,       \* the run's cursor
  next,     \* the page's end, and whether it is the last one
  cursor,   \* resumeAfter
  retry,    \* retryOwners
  returns, sweepFaults

sweepVars == <<live, deleted, hidden, phase, todo, failed, at, next, cursor, retry,
               returns, sweepFaults>>

run == <<phase, todo, failed, at, next, cursor, retry>>

Users  == 1..Owners
NoPage == [end |-> 0, done |-> FALSE]

SweepTypeOK ==
  /\ live \subseteq Users /\ deleted \subseteq Users
  /\ hidden \in BOOLEAN
  /\ phase \in {"idle", "retry", "list", "page"}
  /\ todo \subseteq Users /\ failed \subseteq Users
  /\ at \in 0..Owners /\ cursor \in 0..Owners
  /\ next \in [end : 0..Owners, done : BOOLEAN]
  /\ retry \subseteq Users /\ Cardinality(retry) <= RetryCap
  /\ returns \in 0..MaxReturns /\ sweepFaults \in 0..MaxSweepFaults

SweepInit ==
  /\ live = Users
  /\ deleted = {}
  /\ hidden = FALSE
  /\ phase = "idle"
  /\ todo = {} /\ failed = {}
  /\ at = 0 /\ next = NoPage
  /\ cursor = 0
  /\ retry = {}
  /\ returns = 0 /\ sweepFaults = 0

SweepFault == sweepFaults < MaxSweepFaults /\ sweepFaults' = sweepFaults + 1

-----------------------------------------------------------------------------
(* Accounts                                                                *)

\* An account is deleted, in the identity provider.
Delete(u) ==
  /\ u \notin deleted
  /\ deleted' = deleted \cup {u}
  /\ UNCHANGED <<live, hidden, run, returns, sweepFaults>>

\* Its token is valid for a while: a client may save once more.
SaveOnceMore(u) ==
  /\ u \in deleted \ live
  /\ returns < MaxReturns /\ returns' = returns + 1
  /\ live' = live \cup {u}
  /\ UNCHANGED <<deleted, hidden, run, sweepFaults>>

\* The role the service uses loses or regains sight of the identities.
Hide   == ~ hidden /\ SweepFault /\ hidden' = TRUE /\ UNCHANGED <<live, deleted, run, returns>>
Unhide == hidden /\ hidden' = FALSE /\ UNCHANGED <<live, deleted, run, returns, sweepFaults>>

-----------------------------------------------------------------------------
(* Execute                                                                 *)

ToList == phase' = "list" /\ todo' = {} /\ failed' = {} /\ next' = NoPage

EndRun(c) ==
  /\ phase' = "idle" /\ todo' = {} /\ failed' = {} /\ next' = NoPage /\ at' = 0
  /\ cursor' = c

\* Execute takes retryOwners; each of them is kept again only when it fails.
BeginRun ==
  /\ phase = "idle"
  /\ phase' = "retry"
  /\ todo' = retry
  /\ retry' = {}
  /\ at' = cursor
  /\ UNCHANGED <<live, deleted, hidden, failed, next, cursor, returns, sweepFaults>>

ForgetDeletedAccount ==
  /\ \E u \in todo :
       /\ todo' = todo \ {u}
       /\ \/ live' = live \ {u} /\ UNCHANGED <<failed, sweepFaults>>
          \/ SweepFault /\ failed' = failed \cup {u} /\ UNCHANGED live
  /\ UNCHANGED <<deleted, hidden, phase, at, next, cursor, retry, returns>>

\* keepForRetry: owners are dropped only when there is no room for them.
Keep(owners) ==
  \E kept \in SUBSET owners :
    /\ retry' = retry \cup kept
    /\ Cardinality(retry') <= RetryCap
    /\ owners \subseteq retry' \/ Cardinality(retry') = RetryCap

RetriesDone ==
  /\ phase = "retry" /\ todo = {}
  /\ Keep(failed)
  /\ ToList
  /\ UNCHANGED <<live, deleted, hidden, at, cursor, returns, sweepFaults>>

\* The run's budget is spent, or it is stopped, with retries to do.
RetriesInterrupted ==
  /\ phase = "retry" /\ todo # {} /\ SweepFault
  /\ Keep(failed \cup todo)
  /\ EndRun(at)
  /\ UNCHANGED <<live, deleted, hidden, returns>>

\* A slip: an identity store without identities makes everyone an orphan.
IdentitiesAnyway == TRUE

\* WHERE EXISTS (SELECT 1 FROM auth.users)
SomeIdentity == ~ hidden /\ deleted # Users

\* The first Window live owners after the cursor, those without identity to
\* be forgotten.
ListOwners ==
  /\ phase = "list"
  /\ LET after == {u \in live : u > at /\ SomeIdentity}
         page  == {u \in after : Cardinality({v \in after : v <= u}) <= Window} IN
     /\ todo' = {u \in page : u \in deleted \/ hidden}
     /\ next' = [end  |-> IF page = {} THEN at ELSE Max(page),
                 done |-> Cardinality(page) < Window]
  /\ phase' = "page"
  /\ UNCHANGED <<live, deleted, hidden, failed, at, cursor, retry, returns, sweepFaults>>

\* The list times out or the identity store is unavailable.
ListFails ==
  /\ phase = "list" /\ SweepFault
  /\ EndRun(at)
  /\ UNCHANGED <<live, deleted, hidden, retry, returns>>

\* A slip: after the last page the scan stays at the end.
WrappedNot == next.end

\* Where the scan goes on after a page: back to the start after the last one.
Wrapped == IF next.done THEN 0 ELSE next.end

PageDone ==
  /\ phase = "page" /\ todo = {}
  /\ Keep(failed)
  /\ IF next.done THEN EndRun(Wrapped)
     ELSE at' = Wrapped /\ ToList /\ UNCHANGED cursor
  /\ UNCHANGED <<live, deleted, hidden, returns, sweepFaults>>

\* The cursor stays before the page; what is left of it is listed again.
PageInterrupted ==
  /\ phase = "page" /\ todo # {} /\ SweepFault
  /\ Keep(failed)
  /\ EndRun(at)
  /\ UNCHANGED <<live, deleted, hidden, returns>>

SweepRestart ==
  /\ SweepFault
  /\ phase' = "idle" /\ todo' = {} /\ failed' = {} /\ next' = NoPage /\ at' = 0
  /\ cursor' = 0 /\ retry' = {}
  /\ UNCHANGED <<live, deleted, hidden, returns>>

-----------------------------------------------------------------------------

GoOn == BeginRun \/ ForgetDeletedAccount \/ RetriesDone \/ ListOwners \/ PageDone

SweepNext ==
  \/ GoOn \/ RetriesInterrupted \/ ListFails \/ PageInterrupted \/ SweepRestart
  \/ \E u \in Users : Delete(u) \/ SaveOnceMore(u)
  \/ Hide \/ Unhide

SweepSpec == SweepInit /\ [][SweepNext]_sweepVars

\* The job's ticker starts runs, and a run goes on.
SweepFairSpec == SweepSpec /\ WF_sweepVars(GoOn) /\ WF_sweepVars(Unhide)

-----------------------------------------------------------------------------
(* Properties                                                              *)

\* The sweep erases nobody's queue who has an identity, whatever it can see of
\* the identity store.
OnlyDeletedAreErased == [][live \ live' \subseteq deleted]_live

\* Every deleted account's queue state is erased in the end, through failed
\* erasures, a full retry set, interrupted runs, restarts and late saves -
\* unless nobody at all has an identity, which the sweep takes for a fault.
DeletedAreErased ==
  \A u \in Users : u \in deleted ~> (u \notin live \/ deleted = Users)
=============================================================================
