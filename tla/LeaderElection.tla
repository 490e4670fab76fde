--------------------------- MODULE LeaderElection ---------------------------
(***************************************************************************)
(* Which instance of go-api may run the background jobs.  An instance      *)
(* leads while a session of its connection pool holds a Postgres advisory  *)
(* lock.  It learns that the session is gone only from its next ping, when *)
(* another instance may have the lock already: that one waits for a settle *)
(* window before it leads.  Whether the window is long enough is a matter  *)
(* of time, which passes in Tick for every timer at once; a unit of it is  *)
(* a fraction of half an interval.                                         *)
(*                                                                         *)
(* A leader's term issues a context to every run of a job, and ends with   *)
(* all of them cancelled.  Each instance has one job here: contexts of one *)
(* term do not interact.                                                   *)
(***************************************************************************)
EXTENDS Naturals

CONSTANTS
  Instances,     \* processes that run go-api on one database
  NoOne,         \* nobody's session holds the lock
  Orphaned,      \* the lock is held by a session that no pool uses any more
  HalfInterval,  \* half of Election.interval
  MayStall       \* may an instance act later than its ticker and timeouts say?

ASSUME ElectionAssumption ==
  /\ NoOne \notin Instances /\ Orphaned \notin Instances /\ NoOne # Orphaned
  /\ HalfInterval \in Nat \ {0}
  /\ MayStall \in BOOLEAN

Interval == 2 * HalfInterval

\* Slip: the window is no longer than it takes a predecessor to find out.
settleWindowTwoIntervals == 4 * HalfInterval

\* settleIntervals = 2.5
settleWindow == 5 * HalfInterval

VARIABLES
  lock,      \* whose session holds the advisory lock
  pc,        \* pc[p]      : where the election loop of p is
  conn,      \* conn[p]    : e.conn # nil
  held,      \* held[p]    : time since e.heldSince, up to the settle window
  lost,      \* lost[p]    : history: time since the session of p lost the lock
  wait,      \* wait[p]    : time to the next tick; 0 when one is due
  spent,     \* spent[p]   : time spent in the call p is in
  leads,     \* leads[p]   : e.term # nil
  ctx,       \* ctx[p]     : the leader context of p's job
  stopping   \* stopping[p] : the context of the process is cancelled

vars == <<lock, pc, conn, held, lost, wait, spent, leads, ctx, stopping>>
timers == <<held, lost, wait, spent>>

\* "doomed" is a ping sent on a session that is gone.
PCs == {"waiting", "locking", "granted", "pinging", "doomed", "unlocking",
        "stopped"}

\* A context is asked for on a term; the term may end ("stale") before it is
\* issued.
Contexts == {"none", "asked", "stale", "live"}

\* Besides the types: no timer runs beyond its limit, a term needs a
\* connection, and the loop looks for one while it has none and pings the one
\* it has.
TypeOK ==
  /\ lock \in Instances \cup {NoOne, Orphaned}
  /\ pc \in [Instances -> PCs]
  /\ conn \in [Instances -> BOOLEAN]
  /\ held \in [Instances -> 0..settleWindow]
  /\ lost \in [Instances -> 0..settleWindow]
  /\ wait \in [Instances -> 0..Interval]
  /\ spent \in [Instances -> 0..Interval]
  /\ leads \in [Instances -> BOOLEAN]
  /\ \A p \in Instances : leads[p] => conn[p]
  /\ \A p \in Instances :
       /\ pc[p] \in {"locking", "granted", "unlocking", "stopped"} => ~ conn[p]
       /\ pc[p] \in {"pinging", "doomed"} => conn[p]
  /\ ctx \in [Instances -> Contexts]
  /\ stopping \in [Instances -> BOOLEAN]

Init ==
  /\ lock = NoOne
  /\ pc = [p \in Instances |-> "waiting"]
  /\ conn = [p \in Instances |-> FALSE]
  /\ held = [p \in Instances |-> 0]
  /\ lost = [p \in Instances |-> 0]
  /\ wait = [p \in Instances |-> 0]
  /\ spent = [p \in Instances |-> 0]
  /\ leads = [p \in Instances |-> FALSE]
  /\ ctx = [p \in Instances |-> "none"]
  /\ stopping = [p \in Instances |-> FALSE]

Goto(p, to) == pc' = [pc EXCEPT ![p] = to]

\* The call of p is over.
Return(p, to) == Goto(p, to) /\ spent' = [spent EXCEPT ![p] = 0]

\* A session of p has, or may turn out to have, taken the lock.
Took(p) == conn[p] \/ pc[p] = "granted"

-----------------------------------------------------------------------------
(* Time and the database                                                   *)

\* An instance begins a tick when it is due and ends each call within its
\* timeout, one interval.
OnTime(p) ==
  \/ stopping[p]
  \/ IF pc[p] = "waiting" THEN wait[p] > 0 ELSE spent[p] < Interval

UpTo(n, limit) == IF n < limit THEN n + 1 ELSE n

\* A stopping instance waits for nothing.
Tick ==
  /\ MayStall \/ \A p \in Instances : OnTime(p)
  /\ held' = [p \in Instances |->
       IF conn[p] THEN UpTo(held[p], settleWindow) ELSE 0]
  /\ lost' = [p \in Instances |->
       IF Took(p) /\ lock # p THEN UpTo(lost[p], settleWindow) ELSE 0]
  /\ wait' = [p \in Instances |-> IF wait[p] > 0 THEN wait[p] - 1 ELSE 0]
  /\ spent' = [p \in Instances |->
       IF pc[p] = "waiting" \/ stopping[p] THEN 0 ELSE UpTo(spent[p], Interval)]
  /\ UNCHANGED <<lock, pc, conn, leads, ctx, stopping>>

\* The database ends the session that holds the lock: a failover, a broken
\* connection, the pool retiring an idle one.
SessionDies ==
  /\ lock # NoOne
  /\ lock' = NoOne
  /\ UNCHANGED <<timers, pc, conn, leads, ctx, stopping>>

-----------------------------------------------------------------------------
(* The election loop                                                       *)

\* The ticker holds one tick for a loop that is busy.  Its phase is not kept:
\* the next tick comes within an interval.
BeginTick(p) ==
  /\ pc[p] = "waiting"
  /\ ~ stopping[p]
  /\ wait[p] = 0
  /\ Goto(p, IF ~ conn[p] THEN "locking"
             ELSE IF lock = p THEN "pinging" ELSE "doomed")
  /\ \E d \in 1..Interval : wait' = [wait EXCEPT ![p] = d]
  /\ UNCHANGED <<lock, conn, held, lost, spent, leads, ctx, stopping>>

\* pg_try_advisory_lock, in the database.  It is reentrant: a session of p
\* that kept the lock may be the one the pool handed out.
GrantLock(p) ==
  /\ pc[p] = "locking"
  /\ lock \in {NoOne, p}
  /\ lock' = p
  /\ Goto(p, "granted")
  /\ UNCHANGED <<timers, conn, leads, ctx, stopping>>

\* The reply arrives.
WinLock(p) ==
  /\ pc[p] = "granted"
  /\ conn' = [conn EXCEPT ![p] = TRUE]
  /\ Return(p, "waiting")
  /\ UNCHANGED <<lock, held, lost, wait, leads, ctx, stopping>>

\* Contended, no connection, an error, or a reply that came too late: the
\* driver closes that connection.
MissLock(p) ==
  /\ pc[p] \in {"locking", "granted"}
  /\ lock' = IF pc[p] = "granted" /\ lock = p THEN Orphaned ELSE lock
  /\ lost' = [lost EXCEPT ![p] = 0]
  /\ Return(p, "waiting")
  /\ UNCHANGED <<conn, held, wait, leads, ctx, stopping>>

\* Slip: every ping that succeeds restarts the window.
PingOkHoldingAnew(p) ==
  /\ pc[p] = "pinging"
  /\ leads' = [leads EXCEPT ![p] = @ \/ held[p] >= settleWindow]
  /\ held' = [held EXCEPT ![p] = 0]
  /\ Return(p, "waiting")
  /\ UNCHANGED <<lock, conn, lost, wait, ctx, stopping>>

\* verify, then settle.
PingOk(p) ==
  /\ pc[p] = "pinging"
  /\ leads' = [leads EXCEPT ![p] = @ \/ held[p] >= settleWindow]
  /\ Return(p, "waiting")
  /\ UNCHANGED <<lock, conn, held, lost, wait, ctx, stopping>>

\* term.end cancels what was issued and refuses what is asked for.
cancelled(c) == CASE c = "live" -> "none" [] c = "asked" -> "stale" [] OTHER -> c

\* detach: the term ends before the lock is given back.
Detach(p) ==
  /\ conn' = [conn EXCEPT ![p] = FALSE]
  /\ held' = [held EXCEPT ![p] = 0]
  /\ lost' = [lost EXCEPT ![p] = 0]
  /\ leads' = [leads EXCEPT ![p] = FALSE]
  /\ ctx' = [ctx EXCEPT ![p] = IF leads[p] THEN cancelled(@) ELSE @]

\* A ping may fail on a session that is alive.  A loop that is being stopped
\* leaves the release to Shutdown.
PingFails(p) ==
  /\ pc[p] \in {"pinging", "doomed"}
  /\ IF stopping[p]
     THEN Return(p, "waiting") /\ UNCHANGED <<conn, held, lost, leads, ctx>>
     ELSE Return(p, "unlocking") /\ Detach(p)
  /\ UNCHANGED <<lock, wait, stopping>>

\* pg_advisory_unlock.  If it fails the session keeps the lock, in the pool
\* or, when the driver closed the connection, until the database notices; it
\* keeps it, too, if it was granted the lock before.
Unlock(p) ==
  /\ pc[p] = "unlocking"
  /\ IF lock = p THEN lock' \in {NoOne, p, Orphaned} ELSE UNCHANGED lock
  /\ Return(p, IF stopping[p] THEN "stopped" ELSE "waiting")
  /\ UNCHANGED <<conn, held, lost, wait, leads, ctx, stopping>>

-----------------------------------------------------------------------------
(* Stopping                                                                *)

\* The context of the process is cancelled: it is the parent of the loop's
\* context and of every job's.
Stop(p) ==
  /\ ~ stopping[p]
  /\ stopping' = [stopping EXCEPT ![p] = TRUE]
  /\ ctx' = [ctx EXCEPT ![p] = "none"]
  /\ UNCHANGED <<lock, timers, pc, conn, leads>>

\* Election.Shutdown, once the loop has exited and the jobs have drained.
Shutdown(p) ==
  /\ stopping[p]
  /\ pc[p] = "waiting"
  /\ IF conn[p] THEN Goto(p, "unlocking") /\ Detach(p)
                ELSE Goto(p, "stopped") /\ UNCHANGED <<conn, held, lost, leads, ctx>>
  /\ UNCHANGED <<lock, wait, spent, stopping>>

\* The process exits, by itself or not, and another takes its place.
Restart(p) ==
  /\ IF lock = p THEN lock' \in {NoOne, Orphaned} ELSE UNCHANGED lock
  /\ Return(p, "waiting")
  /\ conn' = [conn EXCEPT ![p] = FALSE]
  /\ held' = [held EXCEPT ![p] = 0]
  /\ lost' = [lost EXCEPT ![p] = 0]
  /\ wait' = [wait EXCEPT ![p] = 0]
  /\ leads' = [leads EXCEPT ![p] = FALSE]
  /\ ctx' = [ctx EXCEPT ![p] = "none"]
  /\ stopping' = [stopping EXCEPT ![p] = FALSE]

-----------------------------------------------------------------------------
(* Jobs                                                                    *)

\* LeaderContext: read the term, and ask it for a context afterwards.
AskContext(p) ==
  /\ ctx[p] = "none"
  /\ leads[p]
  /\ ~ stopping[p]
  /\ ctx' = [ctx EXCEPT ![p] = "asked"]
  /\ UNCHANGED <<lock, timers, pc, conn, leads, stopping>>

\* Slip: a term that has ended still issues a context.
IssueContextAnyway(p) ==
  /\ ctx[p] \in {"asked", "stale"}
  /\ ctx' = [ctx EXCEPT ![p] = "live"]
  /\ UNCHANGED <<lock, timers, pc, conn, leads, stopping>>

IssueContext(p) ==
  /\ ctx[p] \in {"asked", "stale"}
  /\ ctx' = [ctx EXCEPT ![p] = IF @ = "asked" THEN "live" ELSE "none"]
  /\ UNCHANGED <<lock, timers, pc, conn, leads, stopping>>

JobEnds(p) ==
  /\ ctx[p] = "live"
  /\ ctx' = [ctx EXCEPT ![p] = "none"]
  /\ UNCHANGED <<lock, timers, pc, conn, leads, stopping>>

-----------------------------------------------------------------------------

Loop(p) ==
  \/ BeginTick(p) \/ GrantLock(p) \/ WinLock(p) \/ MissLock(p)
  \/ PingOk(p) \/ PingFails(p) \/ Unlock(p)

Process(p) == Stop(p) \/ Shutdown(p) \/ Restart(p)

Job(p) == AskContext(p) \/ IssueContext(p) \/ JobEnds(p)

Next ==
  \/ Tick
  \/ SessionDies
  \/ \E p \in Instances : Loop(p) \/ Process(p) \/ Job(p)

Spec == Init /\ [][Next]_vars

\* Time passes, the loops run, a process that is stopping exits in the end,
\* and the database or the pool closes a session nobody uses: every
\* connection of a pool has a limited lifetime.
Unused == \A p \in Instances : lock = p => ~ Took(p) /\ pc[p] # "unlocking"

Fairness ==
  /\ WF_vars(Tick)
  /\ WF_vars(Unused /\ SessionDies)
  /\ \A p \in Instances :
       WF_vars(Loop(p)) /\ WF_vars(stopping[p] /\ Restart(p))

FairSpec == Spec /\ Fairness

-----------------------------------------------------------------------------
(* Properties                                                              *)

\* An instance that hands out contexts to its jobs.
Leads(p) == leads[p] /\ ~ stopping[p]

\* Two instances never lead at once: although a leader learns of the death of
\* its session only later, its term has ended before its successor settles.
\* It rests on the instances being on time.
AtMostOneLeader ==
  \A p, q \in Instances : p # q => ~ (Leads(p) /\ Leads(q))

\* No two instances run leader-only work at once: a context is never issued
\* by a term that ended meanwhile, and dies with the term that issued it.
LeaderWorkIsExclusive ==
  \A p, q \in Instances : p # q => ~ (ctx[p] = "live" /\ ctx[q] = "live")

\* A session in use dies, a call fails though nothing stands in its way, an
\* instance is stopped.
Fault ==
  \/ ~ Unused /\ SessionDies
  \/ \E p \in Instances :
       \/ PingFails(p) /\ pc[p] = "pinging"
       \/ MissLock(p) /\ (pc[p] = "granted" \/ lock = NoOne)
       \/ Unlock(p) /\ lock = p /\ lock' # NoOne
       \/ Stop(p)
       \/ ~ stopping[p] /\ Restart(p)

\* Once faults end, somebody leads again, and for good: whatever sessions,
\* terms and half-finished calls the faults have left behind.
SomebodyLeads ==
  <>[][~ Fault]_vars => <>[](\E p \in Instances : Leads(p))
=============================================================================
