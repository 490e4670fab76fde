------------------------------- MODULE Outbox -------------------------------
(***************************************************************************)
(* The client's outbox of telemetry events that must not be lost: the      *)
(* queue in memory, its file, the one pass that sends it entry by entry,   *)
(* the retry timer and the user the entries belong to.                     *)
(*                                                                         *)
(* The client has one thread: a step is what runs between two awaits.      *)
(***************************************************************************)
EXTENDS Filtering, FiniteSets, SequencesExt

CONSTANTS
  Events, Users,
  Diagnostic,     \* events whose type is a diagnostic one
  Nothing,        \* no event, and no token yet
  Nobody,         \* no user
  MaxEntries, MaxDiagnostic,
  MaxFaults,      \* bound on failed sends and writes, relaunches and kill
                  \* switches, together
  MaxSwitches     \* bound on changes of the user

\* What the constants have to be.
ASSUME OutboxAssumption ==
  /\ Diagnostic \subseteq Events /\ Nobody \notin Users
  /\ Nothing \notin Events \cup Users \cup {Nobody}
  /\ MaxEntries \in Nat \ {0} /\ MaxDiagnostic \in Nat
  /\ MaxFaults \in Nat /\ MaxSwitches \in Nat

VARIABLES
  outbox,     \* _queue
  disk,       \* the entries of the file
  restored,   \* _restored
  listening,  \* _listening
  timer,      \* a retry is due later: _retryTimer, _retryAt
  owner,      \* _owner
  ownerOf,    \* the owner each event was tagged with; Nothing: not enqueued
  pass,       \* the flush that runs: the entry at the network, the user of
              \* its token, the entries attempted, whether one is retryable
  user,       \* the user of the stored session
  seeded,     \* the session has been applied since launch
  enabled,    \* the kill switch lets telemetry flush
  received,   \* history: events the server recorded for a user who did not cause
              \* them, and that user
  causedBy,   \* history: the user each event was enqueued for
  owed,       \* history: events enqueued that nothing has settled yet
  fresh,      \* history: those enqueued since the session was applied
  straddled,  \* history: those whose token was looked up during a sign-in
  unsaved,    \* history: a write of the file failed
  illegible,  \* entries of the file that cannot be read, until the queue is restored
  faults, switches

outboxVars == <<outbox, disk, restored, listening, timer, owner, ownerOf, pass, user,
                seeded, enabled, received, causedBy, owed, fresh, straddled,
                unsaved, illegible, faults, switches>>

stored == <<outbox, disk, restored, unsaved, illegible>>
flush  == <<pass, timer>>
who    == <<owner, user, seeded>>
past   == <<causedBy, owed, fresh, straddled, switches>>

NoPass == [sending |-> Nothing, token |-> Nothing, attempted |-> {},
           retryable |-> FALSE]

OutboxTypeOK ==
  /\ outbox \in Seq(Events) /\ disk \in Seq(Events)
  /\ Len(outbox) <= MaxEntries /\ Len(disk) <= MaxEntries
  /\ owner \in Users \cup {Nobody} /\ user \in Users \cup {Nobody}
  /\ ownerOf \in [Events -> Users \cup {Nobody, Nothing}]
  /\ causedBy \in [Events -> Users \cup {Nobody, Nothing}]
  /\ pass \in [sending : Events \cup {Nothing}, retryable : BOOLEAN,
               token : Users \cup {Nobody, Nothing}, attempted : SUBSET Events]
  /\ restored \in BOOLEAN /\ listening \in BOOLEAN /\ timer \in BOOLEAN
  /\ seeded \in BOOLEAN /\ enabled \in BOOLEAN
  /\ received \subseteq Events \X Users
  /\ unsaved \in BOOLEAN /\ faults \in 0..MaxFaults /\ switches \in 0..MaxSwitches
  /\ owed \subseteq Events /\ fresh \subseteq owed /\ straddled \subseteq Events
  /\ illegible \subseteq Events

OutboxInit ==
  /\ outbox = <<>> /\ disk = <<>>
  /\ restored = FALSE /\ listening = FALSE /\ timer = FALSE
  /\ owner = Nobody
  /\ ownerOf = [e \in Events |-> Nothing] /\ causedBy = ownerOf
  /\ pass = NoPass
  /\ user \in Users \cup {Nobody} /\ seeded = FALSE /\ enabled = TRUE
  /\ received = {} /\ owed = {} /\ fresh = {} /\ straddled = {}
  /\ unsaved = FALSE /\ illegible = {} /\ faults = 0 /\ switches = 0

Fault == faults < MaxFaults /\ faults' = faults + 1

-----------------------------------------------------------------------------
(* The queue and its file                                                  *)

Latest(s, n) == IF Len(s) <= n THEN s ELSE SubSeq(s, Len(s) - n + 1, Len(s))

\* capOutbox: the latest labels, and the latest diagnostics in what is left.
Cap(s) ==
  LET labels == Latest(Only(s, Events \ Diagnostic), MaxEntries)
      room   == MaxEntries - Len(labels)
      others == Latest(Only(s, Diagnostic),
                       IF room < MaxDiagnostic THEN room ELSE MaxDiagnostic)
      kept   == ToSet(labels) \cup ToSet(others)
  IN Only(s, kept)

\* Slip: what the file holds is not looked at before the queue is written.
RestoredNever == outbox

\* loadPersistedOutbox: a file that cannot be read counts as empty, and of one
\* that can the malformed entries are left out.
Loaded == Only(disk, Events \ illegible)

\* ensureRestored: the file is read once, before the queue is used.
Restored == IF restored THEN outbox ELSE Cap(Loaded \o outbox)

\* commit: a write that fails leaves the file as it was.
Commit(q) ==
  /\ outbox' = q
  /\ restored' = TRUE /\ illegible' = {}
  /\ \/ disk' = q /\ UNCHANGED <<unsaved, faults>>
     \/ Fault /\ unsaved' = TRUE /\ UNCHANGED disk

Restore ==
  /\ outbox' = Restored /\ restored' = TRUE /\ illegible' = {}
  /\ UNCHANGED <<disk, unsaved, faults>>

-----------------------------------------------------------------------------
(* A pass over the queue. It works on what a step leaves: a step states the *)
(* queue, the owner, the tags and the switch before it flushes.             *)

Passing == pass # NoPass

\* Slip: the owner of an entry is not asked before it is sent.
StillOursAnyway(e) == TRUE

\* ownedByCurrentUser
StillOurs(e) == ownerOf'[e] = owner'

\* Slip: a failure leaves the rest to the next trigger.
EndPassQuietly(retryable) == pass' = NoPass /\ timer' = FALSE

\* A retry is scheduled if a failure can be retried, or the backoff is reset.
EndPass(retryable) == pass' = NoPass /\ timer' = (retryable /\ outbox' # <<>>)

\* The pass goes on with the first entry that is the owner's and was not
\* attempted, and passes over what comes before it, until there is none, the
\* kill switch is off or the network is away. A retry that is due later stays so.
Continue(tried, retryable, halted, due) ==
  LET mine == Only(outbox', {e \in Events \ tried : StillOurs(e)}) IN
  IF halted \/ ~ enabled' \/ mine = <<>>
  THEN EndPass(retryable)
  ELSE LET next == Head(mine)
           over == {outbox'[i] : i \in {i \in 1..Len(outbox') :
                                          \A j \in 1..(i - 1) : outbox'[j] # next}}
       IN /\ pass' = [sending |-> next, token |-> Nothing,
                      attempted |-> tried \cup over, retryable |-> retryable]
          /\ timer' = due

\* flushOutbox
Flush(due) ==
  IF Passing \/ outbox' = <<>> THEN UNCHANGED pass /\ timer' = due
  ELSE Continue({}, FALSE, FALSE, due)

\* requestFlush waits for a retry that is due later.
RequestFlush == IF timer THEN UNCHANGED flush ELSE Flush(FALSE)

\* enqueueCritical
Enqueue(e) ==
  /\ ownerOf[e] = Nothing
  /\ ownerOf' = [ownerOf EXCEPT ![e] = owner]
  /\ causedBy' = [causedBy EXCEPT ![e] = user]
  /\ listening' = TRUE
  /\ LET q == Append(Restored, e) IN
     /\ Commit(Cap(q))
     /\ owed' = (owed \cup {e}) \ (ToSet(q) \ ToSet(Cap(q)))
  /\ fresh' = (fresh \cup (IF owner = Nobody THEN {} ELSE {e})) \cap owed'
  /\ UNCHANGED <<who, enabled, received, straddled, switches>>
  /\ RequestFlush

\* send, up to the request: authorization() reads the stored session.
ReadToken ==
  /\ pass.sending # Nothing /\ pass.token = Nothing
  /\ pass' = [pass EXCEPT !.token = user]
  /\ UNCHANGED <<stored, timer, listening, who, ownerOf, enabled, received, past, faults>>

\* What a request leaves with the server if it records the event.
Recorded(e, u) == IF u \in Users \ {causedBy[e]} THEN {<<e, u>>} ELSE {}

\* The request is answered for good, accepted or rejected: the entry goes.
Answered ==
  /\ pass.token \in Users
  /\ received' \in {received, received \cup Recorded(pass.sending, pass.token)}
  /\ owed' = owed \ {pass.sending}
  /\ fresh' = fresh \ {pass.sending}
  /\ UNCHANGED <<listening, who, ownerOf, enabled, causedBy, straddled, switches>>
  /\ Commit(Only(outbox, Events \ {pass.sending}))
  /\ Continue(pass.attempted, pass.retryable, FALSE, timer)

\* There was no token, or the server failed: the pass goes on with the rest.
RetryableFailure ==
  /\ pass.token # Nothing
  /\ IF pass.token = Nobody THEN UNCHANGED faults ELSE Fault
  /\ UNCHANGED <<stored, listening, who, ownerOf, enabled, received, past>>
  /\ Continue(pass.attempted, TRUE, FALSE, timer)

\* The request or its answer was lost, or the token not got in time.
Offline ==
  /\ pass.sending # Nothing
  /\ Fault
  /\ received' \in {received, received \cup Recorded(pass.sending, pass.token)}
  /\ UNCHANGED <<stored, listening, who, ownerOf, enabled, past>>
  /\ Continue(pass.attempted, TRUE, TRUE, timer)

-----------------------------------------------------------------------------
(* Triggers                                                                *)

RetryTimer ==
  /\ timer
  /\ Restore
  /\ UNCHANGED <<listening, who, ownerOf, enabled, received, past, faults>>
  /\ Flush(FALSE)

\* The app becomes active, which is listened to since the first enqueue.
Foreground ==
  /\ listening
  /\ IF timer THEN UNCHANGED stored ELSE Restore
  /\ UNCHANGED <<listening, who, ownerOf, enabled, received, past, faults>>
  /\ RequestFlush

\* A pass notices at its next entry.
KillSwitchOff ==
  /\ enabled /\ Fault
  /\ enabled' = FALSE
  /\ UNCHANGED <<stored, flush, listening, who, ownerOf, received, past>>

\* A flush at once: a retry that is due later does not hold it up.
KillSwitchOn ==
  /\ ~ enabled
  /\ enabled' = TRUE
  /\ Restore
  /\ UNCHANGED <<listening, who, ownerOf, received, past, faults>>
  /\ Flush(timer)

\* The session of an auth event is applied: a change of user clears the outbox,
\* and setOutboxOwner keeps what is tagged with the user. The auth client holds
\* its lock until the session was applied, so nobody reads the new token before.
ApplySession(u) ==
  LET leaves == seeded /\ user # u
      base   == IF leaves THEN <<>> ELSE Restored
      kept   == IF u = Nobody THEN base ELSE Only(base, {e \in Events : ownerOf[e] = u})
  IN
  /\ IF user # u THEN seeded /\ switches < MaxSwitches /\ switches' = switches + 1
                 ELSE UNCHANGED switches
  /\ seeded' = TRUE
  /\ user' = u /\ owner' = u
  /\ IF leaves \/ kept # base THEN Commit(kept) ELSE Restore
  /\ timer' = (timer /\ ~ leaves)
  /\ owed' = IF leaves THEN {}
             ELSE IF u = Nobody THEN owed ELSE {e \in owed : ownerOf[e] = u}
  /\ fresh' = fresh \cap owed'
  /\ straddled' = straddled \cup
       (IF user # u /\ pass.token = Nothing THEN {pass.sending} \ {Nothing} ELSE {})
  /\ UNCHANGED <<listening, ownerOf, pass, enabled, received, causedBy>>

\* The process ends and the app is launched again. The stored session and the
\* file stay; a file that was not written for a failure has lost entries. Which
\* of the others the launch will not be able to read is chosen here: nothing reads
\* the file before the queue is restored.
RelaunchApp ==
  /\ Fault
  /\ outbox' = <<>> /\ restored' = FALSE
  /\ listening' = FALSE /\ timer' = FALSE /\ pass' = NoPass
  /\ owner' = Nobody /\ seeded' = FALSE
  /\ fresh' = {}
  /\ illegible' \in SUBSET ToSet(disk)
  /\ owed' = (IF ~ unsaved THEN owed ELSE owed \cap ToSet(disk)) \ illegible'
  /\ UNCHANGED <<disk, unsaved, ownerOf, user, enabled, received, causedBy, straddled,
                 switches>>

-----------------------------------------------------------------------------

Send == ReadToken \/ Answered \/ RetryableFailure \/ Offline

OutboxNext ==
  \/ \E e \in Events : Enqueue(e)
  \/ Send \/ RetryTimer \/ Foreground \/ KillSwitchOff \/ KillSwitchOn
  \/ \E u \in Users \cup {Nobody} : ApplySession(u)
  \/ RelaunchApp

OutboxSpec == OutboxInit /\ [][OutboxNext]_outboxVars

\* A request ends by its deadline at the latest, and a timer fires.
OutboxFairness == WF_outboxVars(Send) /\ WF_outboxVars(RetryTimer)

OutboxFairSpec == OutboxSpec /\ OutboxFairness

-----------------------------------------------------------------------------
(* Properties                                                              *)

\* The server records an event for the user who caused it, whoever signed in
\* while it was queued, on disk or on its way. Excepted are the one whose token
\* was looked up while the user changed, and those enqueued before a launch
\* had applied its session, if the file could not be written.
SentAsItsUser ==
  \A r \in received :
    \/ r[1] \in straddled
    \/ ownerOf[r[1]] = Nobody /\ unsaved

\* An event is in the queue, or in the file until the queue is restored, until
\* it is answered for good, dropped at the cap or its user leaves, whatever else
\* is enqueued, flushed, switched off or relaunched meanwhile. The device loses
\* events in two more ways, and in no other: the queue could not be written
\* before the process ended, or the launch could not read them in the file, which
\* the next write of the queue replaces.
NoEventLost == owed \subseteq ToSet(IF restored THEN outbox ELSE disk)

\* An event that was enqueued for a signed-in user is sent without any further
\* trigger, after failures of any kind, unless the process ends.
FreshIsSent ==
  \A e \in Events : e \in fresh ~> e \notin fresh \/ ~ enabled
=============================================================================
