--------------------------- MODULE RefreshingToken ---------------------------
(***************************************************************************)
(* The overseer's read-only access token.  Refresh tokens are used once:   *)
(* every exchange spends one and returns the next.  Processes that share   *)
(* an account share its chain through a file, under a lock, and sign in    *)
(* with a password once the chain is lost.                                 *)
(*                                                                         *)
(* A refresh token is its number in the order of issue; the configured one *)
(* is the first, and 0 is none.                                            *)
(***************************************************************************)
EXTENDS Naturals, FiniteSets

CONSTANTS
  Processes,
  NoProcess,
  Configured,  \* 1 if a refresh token is configured, else 0
  MaySignIn,   \* the password grant is configured
  MaxAges,     \* bound on access tokens that age or are rejected
  MaxFaults

\* What the constants have to be.
ASSUME TokenAssumption ==
  /\ NoProcess \notin Processes
  /\ Configured \in {0, 1} /\ MaySignIn \in BOOLEAN
  /\ Configured = 1 \/ MaySignIn
  /\ MaxAges \in Nat /\ MaxFaults \in Nat

VARIABLES
  proc,       \* the processes' token sources
  lock,       \* who holds the lock of the file
  file,       \* the refresh token in the file
  issued,     \* the auth server: the latest refresh token issued
  valid,      \* the auth server: refresh tokens that were not spent
  presented,  \* history: how often each refresh token was presented, up to twice
  broken,     \* history: a rotation did not reach the file, or a process
              \*          went without lock or file
  ages, faults

tokenVars == <<proc, lock, file, issued, valid, presented, broken, ages, faults>>

server == <<issued, valid, presented>>

\* pc: where runRefresh is; held: refreshTok; stored: storedTok; access: the
\* access token's age; again: the stored token was adopted after a rejection.
Source == [pc |-> "new", held |-> Configured, stored |-> 0, access |-> "none",
           backoff |-> FALSE, again |-> FALSE]

PCs  == {"new", "idle", "lock", "adopt", "send", "sign", "save"}
Toks == 0..issued

Sources == [pc : PCs, held : Toks, stored : Toks, access : {"none", "fresh", "due"},
            backoff : BOOLEAN, again : BOOLEAN]

TokenTypeOK ==
  /\ DOMAIN proc = Processes /\ \A p \in Processes : proc[p] \in Sources
  /\ lock \in Processes \cup {NoProcess}
  /\ file \in Toks
  /\ issued \in Nat /\ valid \subseteq 1..issued
  /\ DOMAIN presented = 1..issued /\ \A t \in 1..issued : presented[t] \in 0..2
  /\ broken \in BOOLEAN
  /\ ages \in 0..MaxAges /\ faults \in 0..MaxFaults

TokenInit ==
  /\ proc = [p \in Processes |-> Source]
  /\ lock = NoProcess
  /\ file = 0
  /\ issued = Configured
  /\ valid = 1..Configured
  /\ presented = [t \in 1..issued |-> 0]
  /\ broken = FALSE
  /\ ages = 0
  /\ faults = 0

Fault == faults < MaxFaults /\ faults' = faults + 1

Set(p, s) == proc' = [proc EXCEPT ![p] = s]

Release(p) == lock' = IF lock = p THEN NoProcess ELSE lock

\* runRefresh ends: a failure is not repeated before its backoff has passed.
Ended(s, backoff) == [s EXCEPT !.pc = "idle", !.again = FALSE, !.backoff = backoff]
Succeed(p, s)     == Set(p, Ended(s, FALSE)) /\ Release(p)
Fail(p)           == Set(p, Ended(proc[p], TRUE)) /\ Release(p)

Adopted(s, t) == [s EXCEPT !.held = t, !.stored = t]

-----------------------------------------------------------------------------
(* Start, Token                                                            *)

\* seedFromStore: a process that cannot have the lock or read the file goes on
\* with the configured token.
Start(p) ==
  LET s == [proc[p] EXCEPT !.pc = "idle"] IN
  /\ proc[p].pc = "new"
  /\ \/ /\ lock = NoProcess
        /\ Set(p, IF file = 0 THEN s ELSE Adopted(s, file))
        /\ UNCHANGED <<broken, faults>>
     \/ /\ Set(p, s)
        /\ IF lock = NoProcess THEN Fault ELSE UNCHANGED faults
        /\ UNCHANGED broken
  /\ UNCHANGED <<lock, file, server, ages>>

\* cachedLocked: a token that is due serves while a failure is backed off.
Cached(s) == s.access = "fresh" \/ (s.access = "due" /\ s.backoff)

\* Token, when there is none to serve and no refresh runs.
Ask(p) ==
  /\ proc[p].pc = "idle"
  /\ ~ Cached(proc[p]) /\ ~ proc[p].backoff
  /\ Set(p, [proc[p] EXCEPT !.pc = "lock"])
  /\ UNCHANGED <<lock, file, server, broken, ages, faults>>

BackoffPasses(p) ==
  /\ proc[p].backoff
  /\ Set(p, [proc[p] EXCEPT !.backoff = FALSE])
  /\ UNCHANGED <<lock, file, server, broken, ages, faults>>

-----------------------------------------------------------------------------
(* advanceChain                                                            *)

\* The lock is had, or waited for too long, or cannot be taken at all: then the
\* exchange goes ahead without it.
Lock(p) ==
  /\ proc[p].pc = "lock"
  /\ \/ /\ lock = NoProcess
        /\ lock' = p
        /\ Set(p, [proc[p] EXCEPT !.pc = "adopt"])
        /\ UNCHANGED <<broken, faults>>
     \/ /\ lock # NoProcess
        /\ Fail(p)
        /\ UNCHANGED <<broken, faults>>
     \/ /\ Fault
        /\ broken' = TRUE
        /\ Set(p, [proc[p] EXCEPT !.pc = "send"])
        /\ UNCHANGED lock
  /\ UNCHANGED <<file, server, ages>>

\* Slip: the file is read at the start of the process only.
RotatedElsewhereNever(s) == FALSE

\* rotatedElsewhereLocked
RotatedElsewhere(s) == file # s.stored

\* adoptStoredIf, before the exchange.
Adopt(p) ==
  LET s == [proc[p] EXCEPT !.pc = "send"] IN
  /\ proc[p].pc = "adopt"
  /\ \/ /\ Set(p, IF file # 0 /\ RotatedElsewhere(s) THEN Adopted(s, file) ELSE s)
        /\ UNCHANGED <<broken, faults>>
     \/ Set(p, s) /\ Fault /\ broken' = TRUE
  /\ UNCHANGED <<lock, file, server, ages>>

Once(n) == IF n = 2 THEN 2 ELSE n + 1

\* The auth server spends the token and issues the next one; reached: its
\* answer arrives and can be read.
Issue(p, spent, reached) ==
  /\ issued' = issued + 1
  /\ valid' = (valid \ spent) \cup {issued + 1}
  /\ presented' = [t \in 1..(issued + 1) |->
                     IF t > issued THEN 0
                     ELSE IF t \in spent THEN Once(presented[t]) ELSE presented[t]]
  /\ IF reached
     THEN /\ Set(p, [proc[p] EXCEPT !.pc = "save", !.held = issued + 1, !.access = "fresh"])
          /\ UNCHANGED <<lock, broken, faults>>
     ELSE Fail(p) /\ Fault /\ broken' = TRUE

\* Slip: a spent token is an error like any other.
NeedsSignInNot(p) == Fail(p)

\* signInIfSpent
NeedsSignIn(p) ==
  IF MaySignIn
  THEN Set(p, [proc[p] EXCEPT !.pc = "sign"]) /\ UNCHANGED lock
  ELSE Fail(p)

\* exchangeHeld. Any error but a rejection ends the refresh. A rejected token
\* may have been spent by another process that has saved the next one.
Exchange(p) ==
  LET s == proc[p] IN
  /\ s.pc = "send"
  /\ \/ /\ s.held \in valid
        /\ \E reached \in BOOLEAN : Issue(p, {s.held}, reached)
     \/ /\ s.held # 0 /\ Fail(p) /\ Fault
        /\ UNCHANGED <<server, broken>>
     \/ /\ s.held = 0
        /\ NeedsSignIn(p)
        /\ UNCHANGED <<server, broken, faults>>
     \/ /\ s.held # 0 /\ s.held \notin valid
        /\ presented' = [presented EXCEPT ![s.held] = Once(@)]
        /\ IF lock = p /\ ~ s.again /\ file \notin {0, s.held}
           THEN Set(p, [Adopted(s, file) EXCEPT !.again = TRUE]) /\ UNCHANGED lock
           ELSE NeedsSignIn(p)
        /\ UNCHANGED <<issued, valid, broken, faults>>
  /\ UNCHANGED <<file, ages>>

\* The password grant starts another chain.
SignIn(p) ==
  /\ proc[p].pc = "sign"
  /\ \/ \E reached \in BOOLEAN : Issue(p, {}, reached)
     \/ Fail(p) /\ Fault /\ UNCHANGED <<server, broken>>
  /\ UNCHANGED <<file, ages>>

\* Slip: the lock is given back before the rotation is saved.
SaveUnlocked(p) ==
  /\ proc[p].pc = "save"
  /\ IF lock = p
     THEN /\ lock' = NoProcess
          /\ UNCHANGED <<proc, file, broken, faults>>
     ELSE /\ file' = proc[p].held
          /\ Succeed(p, [proc[p] EXCEPT !.stored = @])
          /\ UNCHANGED <<broken, faults>>
  /\ UNCHANGED <<server, ages>>

\* persistRotation: a failure is remembered and does not fail the refresh.
Save(p) ==
  /\ proc[p].pc = "save"
  /\ \/ /\ file' = proc[p].held
        /\ Succeed(p, [proc[p] EXCEPT !.stored = proc[p].held])
        /\ UNCHANGED <<broken, faults>>
     \/ /\ Fault /\ broken' = TRUE
        /\ Succeed(p, proc[p])
        /\ UNCHANGED file
  /\ UNCHANGED <<server, ages>>

-----------------------------------------------------------------------------
(* The access token ages and expires; or the API rejects it, and it is     *)
(* dropped (invalidateRejected).                                           *)

AccessAges(p) ==
  /\ ages < MaxAges /\ ages' = ages + 1
  /\ \/ proc[p].access = "fresh" /\ Set(p, [proc[p] EXCEPT !.access = "due"])
     \/ proc[p].access # "none" /\ Set(p, [proc[p] EXCEPT !.access = "none"])
  /\ UNCHANGED <<lock, file, server, broken, faults>>

\* A process ends, at any step, and another is started; its lock is freed.
Restart(p) ==
  /\ Fault
  /\ broken' = (broken \/ proc[p].pc = "save")
  /\ Set(p, Source)
  /\ Release(p)
  /\ UNCHANGED <<file, server, ages>>

-----------------------------------------------------------------------------

Refresh(p) == Start(p) \/ Lock(p) \/ Adopt(p) \/ Exchange(p) \/ SignIn(p) \/ Save(p)

TokenNext ==
  \E p \in Processes :
    Refresh(p) \/ Ask(p) \/ BackoffPasses(p) \/ AccessAges(p) \/ Restart(p)

TokenSpec == TokenInit /\ [][TokenNext]_tokenVars

\* A refresh goes on by itself, and the dashboard polls: it asks again.
TokenFairness ==
  \A p \in Processes :
    WF_tokenVars(Refresh(p)) /\ WF_tokenVars(Ask(p)) /\ WF_tokenVars(BackoffPasses(p))

TokenFairSpec == TokenSpec /\ TokenFairness

-----------------------------------------------------------------------------
(* Properties                                                              *)

\* As long as every rotation reaches the file, no two exchanges, of whatever
\* processes started and restarted in whatever order, present one refresh token.
NoTokenPresentedTwice == ~ broken => \A t \in DOMAIN presented : presented[t] <= 1

\* ... and whenever nobody is at the file, a process started now gets a token
\* that is still good: a restart or a crash does not lose the chain.
ChainIsKept ==
  ~ broken /\ lock = NoProcess =>
    LET seed == IF file = 0 THEN Configured ELSE file IN seed = 0 \/ seed \in valid

\* Whatever was lost - answers, rotations, the lock, processes - every process
\* has an access token again in the end, if it may sign in.
AccessComesBack ==
  \A p \in Processes : proc[p].access = "none" ~> proc[p].access # "none"
=============================================================================
