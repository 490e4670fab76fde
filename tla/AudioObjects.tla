---------------------------- MODULE AudioObjects ----------------------------
(***************************************************************************)
(* Which audio objects exist in the store, who refers to them, and who is  *)
(* about to delete one.  No transaction spans the database and the object  *)
(* store: an acquisition stores an object and only then commits its key to *)
(* the row of its track, a failed one looks whether the key is in use and  *)
(* only then deletes the object, and so do the deletion of a track and the *)
(* sweep of the orphaned_audio queue.                                      *)
(*                                                                         *)
(* The tracks are those of one user that share artist, album and title,    *)
(* for a key starts with the user and is built from that metadata: they    *)
(* all have the same canonical key.  The queue (JobQueue) is kept as far   *)
(* as the fence goes.  ledger.Complete, a load and a compare-and-set, is   *)
(* one step: JobQueue shows (OutcomeLandsFromOwner) that its write lands   *)
(* from the owner, whatever happens between the two.  RevertAt and the     *)
(* stream recovery, guarded by the version alone, are one step likewise.   *)
(***************************************************************************)
EXTENDS Naturals

CONSTANTS
  Tracks,      \* track ids of one user and one title
  Workers,     \* acquisition workers
  Deleters,    \* deletions of tracks in flight
  MaxFence,    \* bound on the claims of one track
  Settings     \* sets of happenings: a behaviour is in one of them

Processes == Workers \cup Deleters

\* A worker may outlive its lease, a process die, the store lose an object; the
\* query for the users of a key may fail, the recording of an orphan, and the
\* store of an object that it stores all the same; and the sweep may be on.
Happenings == {"stall", "crash", "vanish", "usageFails", "recordFails", "storeFails",
               "sweep"}

\* What the constants have to be.
ASSUME AudioAssumption ==
  /\ Workers \cap Deleters = {}
  /\ MaxFence \in Nat
  /\ Settings \subseteq SUBSET Happenings

VARIABLES
  may,      \* what may happen in this behaviour
  row,      \* row[t]  : status, audio_ref, live lease or not, fence of track t
  proc,     \* proc[p] : a run of a worker, or a deletion, and where it is
  objects,  \* the keys that exist in the object store
  orphan,   \* orphan[o] : the orphaned_audio entry of key o
  sweep,    \* the entry the sweep is at
  abandoned \* history: keys given up for an error that was only logged, or by a
            \* process that died, and not stored anew since

vars == <<may, row, proc, objects, orphan, sweep, abandoned>>

queue == <<orphan, abandoned>>

-----------------------------------------------------------------------------
(* Keys                                                                    *)

Canonical          == <<"canonical">>
TrackScopedRef(t)  == <<"scoped", t>>

\* Slip: attempts of one track stage under one key.
SharedStagedRef(t, fence) == <<"staged", t>>

\* The attempt id is random: no two attempts stage under the same key.
StagedRef(t, fence) == <<"staged", t, fence>>

StagedRefs == {StagedRef(t, f) : t \in Tracks, f \in 0..MaxFence}
Refs       == {Canonical} \cup {TrackScopedRef(t) : t \in Tracks} \cup StagedRefs
NoRef      == <<>>

Statuses == {"absent", "pending", "ready", "failed", "deleted"}
Row      == [status : Statuses, ref : Refs \cup {NoRef},
             leased : BOOLEAN, fence : 0..MaxFence]
NoRow(status) == [status |-> status, ref |-> NoRef, leased |-> FALSE, fence |-> 0]
PCs      == {"claimed", "working", "storing", "stored", "superseding",
             "checking", "deleting", "failed", "settling"}
Proc     == [pc : PCs, track : Tracks, fence : 0..MaxFence,
             kind : {"acquire", "replace"},
             ref : Refs \cup {NoRef},    \* ac.AudioRef, or the key to delete
             old : Refs \cup {NoRef}]    \* Replace.PreservedRef
Idle     == [pc |-> "idle"]
Sweep    == [pc : {"listed", "unused", "resolving"}, ref : Refs]

\* Besides the types: a track has a key exactly while it is ready, and no
\* process handles an empty key.
TypeOK ==
  /\ may \in Settings
  /\ row \in [Tracks -> Row]
  /\ \A t \in Tracks : row[t].status = "ready" <=> row[t].ref # NoRef
  /\ proc \in [Processes -> Proc \cup {Idle}]
  /\ \A p \in Processes :
       proc[p].pc \in {"storing", "stored", "checking", "deleting"}
         => proc[p].ref \in Refs
  /\ \A p \in Processes : proc[p].pc = "superseding" => proc[p].old \in Refs
  /\ objects \subseteq Refs
  /\ orphan \in [Refs -> {"none", "held", "due"}]
  /\ sweep \in Sweep \cup {Idle}
  /\ abandoned \subseteq Refs

Init ==
  /\ may \in Settings
  /\ row = [t \in Tracks |-> NoRow("absent")]
  /\ proc = [p \in Processes |-> Idle]
  /\ objects = {}
  /\ orphan = [o \in Refs |-> "none"]
  /\ sweep = Idle
  /\ abandoned = {}

-----------------------------------------------------------------------------
(* Helpers                                                                 *)

MayStall    == "stall" \in may
MayCrash    == "crash" \in may
Vanishes    == "vanish" \in may
UsageFails  == "usageFails" \in may
RecordFails == "recordFails" \in may
StoreFails  == "storeFails" \in may
Sweeps      == "sweep" \in may

InTable(t) == row[t].status \in {"pending", "ready", "failed"}

\* AudioRefInUse: does a track other than t refer to key o?
InUseByAnother(o, t) == \E u \in Tracks \ {t} : row[u].ref = o

FenceMatches(w) ==
  InTable(proc[w].track) /\ row[proc[w].track].fence = proc[w].fence

Holds(w) ==
  proc[w] # Idle /\ FenceMatches(w) /\ row[proc[w].track].leased

SetRow(t, r)   == row' = [row EXCEPT ![t] = r]
Goto(p, to)    == proc' = [proc EXCEPT ![p].pc = to]
SetOrphan(o, entry) == orphan' = [orphan EXCEPT ![o] = entry]

\* Key o is left to nobody.
Abandon(o) == abandoned' = abandoned \cup {o} /\ UNCHANGED orphan

\* A recording that fails is logged, and forgotten.
RecordOrphan(o, entry) ==
  \/ SetOrphan(o, entry) /\ UNCHANGED abandoned
  \/ RecordFails /\ Abandon(o)

\* The run of w has no more business with keys.
Leave(w, to) ==
  proc' = [proc EXCEPT ![w] = [@ EXCEPT !.pc = to, !.ref = NoRef, !.old = NoRef]]

\* The disposal of a key is over: a worker still has to report its failure.
Disposed(p) ==
  IF p \in Workers THEN Leave(p, "failed") ELSE proc' = [proc EXCEPT ![p] = Idle]

-----------------------------------------------------------------------------
(* The rows of the catalog                                                 *)

AddTrack(t) ==
  /\ row[t].status = "absent"
  /\ SetRow(t, [row[t] EXCEPT !.status = "pending"])
  /\ UNCHANGED <<proc, objects, queue, sweep>>

\* The scheduling of the new track was refused.
MarkRefused(t) ==
  /\ row[t] = NoRow("pending")
  /\ SetRow(t, [row[t] EXCEPT !.status = "failed"])
  /\ UNCHANGED <<proc, objects, queue, sweep>>

\* A manual retry puts a failed track back to pending.
Retry(t) ==
  /\ row[t].status = "failed"
  /\ SetRow(t, [row[t] EXCEPT !.status = "pending"])
  /\ UNCHANGED <<proc, objects, queue, sweep>>

\* A stream finds the object of a ready track missing: markAudioMissing.
LoseAudio(t) ==
  /\ row[t].status = "ready"
  /\ row[t].ref \notin objects
  /\ SetRow(t, [row[t] EXCEPT !.status = "failed", !.ref = NoRef])
  /\ UNCHANGED <<proc, objects, queue, sweep>>

\* DeleteTrackService: the row goes first and hands back its key.
DeleteTrack(d, t) ==
  /\ d \in Deleters
  /\ proc[d] = Idle
  /\ InTable(t)
  /\ SetRow(t, NoRow("deleted"))
  /\ IF row[t].ref = NoRef THEN UNCHANGED proc
     ELSE proc' = [proc EXCEPT ![d] =
            [pc |-> "checking", track |-> t, fence |-> 0, kind |-> "acquire",
             ref |-> row[t].ref, old |-> NoRef]]
  /\ UNCHANGED <<objects, queue, sweep>>

-----------------------------------------------------------------------------
(* A run: claim, load, store, commit                                       *)

\* A pending track is acquired, any other may be replaced.
Claim(w, t, kind) ==
  /\ w \in Workers
  /\ proc[w] = Idle
  /\ InTable(t)
  /\ kind = "acquire" => row[t].status = "pending"
  /\ ~ row[t].leased
  /\ row[t].fence < MaxFence
  /\ SetRow(t, [row[t] EXCEPT !.leased = TRUE, !.fence = @ + 1])
  /\ proc' = [proc EXCEPT ![w] =
       [pc |-> "claimed", track |-> t, fence |-> row[t].fence + 1,
        kind |-> kind, ref |-> NoRef, old |-> NoRef]]
  /\ UNCHANGED <<objects, queue, sweep>>

LeaseLapses(t) ==
  /\ row[t].leased
  /\ MayStall \/ \A w \in Workers : ~ (Holds(w) /\ proc[w].track = t)
  /\ SetRow(t, [row[t] EXCEPT !.leased = FALSE])
  /\ UNCHANGED <<proc, objects, queue, sweep>>

\* A user job enqueued over a live upgrade takes the lease and the fence away.
Preempt(t) ==
  /\ row[t].leased
  /\ row[t].fence < MaxFence
  /\ \E w \in Workers : Holds(w) /\ proc[w].track = t /\ proc[w].kind = "replace"
  /\ SetRow(t, [row[t] EXCEPT !.leased = FALSE, !.fence = @ + 1])
  /\ UNCHANGED <<proc, objects, queue, sweep>>

\* reconcileReady: an acquisition of a track that is served has nothing to do.
LoadTrack(w) ==
  /\ proc[w].pc = "claimed"
  /\ LET t == proc[w].track
         served == row[t].status = "ready" /\ row[t].ref \in objects
     IN
     \/ /\ proc[w].kind = "replace" /\ InTable(t)
        /\ proc' = [proc EXCEPT ![w].pc = "working", ![w].old = row[t].ref]
        /\ UNCHANGED row
     \/ /\ proc[w].kind = "acquire" /\ InTable(t) /\ ~ served
        /\ SetRow(t, [row[t] EXCEPT !.status = "pending", !.ref = NoRef])
        /\ Goto(w, "working")
     \/ /\ ~ InTable(t) \/ (proc[w].kind = "acquire" /\ served)
        /\ Goto(w, "settling")
        /\ UNCHANGED row
  /\ UNCHANGED <<objects, queue, sweep>>

\* StoreStep picks the key: a replacement of a served object is staged, and
\* the canonical key is left to another track that uses it.
ChooseRef(w) ==
  /\ proc[w].pc = "working"
  /\ LET t == proc[w].track IN
     \E o \in Refs :
       /\ \/ o = StagedRef(t, proc[w].fence) /\ proc[w].old # NoRef
          \/ /\ o = TrackScopedRef(t) /\ proc[w].old = NoRef
             /\ InUseByAnother(Canonical, t) \/ UsageFails
          \/ /\ o = Canonical /\ proc[w].old = NoRef
             /\ ~ InUseByAnother(Canonical, t)
       /\ proc' = [proc EXCEPT ![w].pc = "storing", ![w].ref = o]
  /\ UNCHANGED <<row, objects, queue, sweep>>

StoreObject(w) ==
  /\ proc[w].pc = "storing"
  /\ objects' = objects \cup {proc[w].ref}
  /\ abandoned' = abandoned \ {proc[w].ref}
  /\ Goto(w, "stored")
  /\ UNCHANGED <<row, orphan, sweep>>

\* A stage that failed is not rolled back, whatever it has done.
NotStored(w) ==
  \/ UNCHANGED <<objects, abandoned>>
  \/ /\ StoreFails /\ proc[w].pc = "storing"
     /\ objects' = objects \cup {proc[w].ref}
     /\ abandoned' = abandoned \cup {proc[w].ref}

\* A stage up to the store failed: no object is undone.
FailBeforeStored(w) ==
  /\ proc[w].pc \in {"working", "storing"}
  /\ NotStored(w)
  /\ Leave(w, "failed")
  /\ UNCHANGED <<row, orphan, sweep>>

\* ReplaceAudio wants a ready track, MarkReady none that is ready on another
\* object.
Completable(w, r) ==
  IF proc[w].old # NoRef THEN r.status = "ready"
  ELSE r.status = "ready" => r.ref = proc[w].ref

Commit(w) ==
  /\ proc[w].pc = "stored"
  /\ FenceMatches(w)
  /\ Completable(w, row[proc[w].track])
  /\ SetRow(proc[w].track,
            [row[proc[w].track] EXCEPT !.status = "ready", !.ref = proc[w].ref])
  /\ IF proc[w].old # NoRef THEN Goto(w, "superseding") ELSE Leave(w, "settling")
  /\ UNCHANGED <<objects, queue, sweep>>

\* deleteSupersededAudio: the old object stays for a grace period.
QueueSuperseded(w) ==
  /\ proc[w].pc = "superseding"
  /\ \/ /\ ~ InUseByAnother(proc[w].old, proc[w].track)
        /\ RecordOrphan(proc[w].old, "held")
     \/ InUseByAnother(proc[w].old, proc[w].track) /\ UNCHANGED queue
     \/ UsageFails /\ Abandon(proc[w].old)
  /\ Leave(w, "settling")
  /\ UNCHANGED <<row, objects, sweep>>

-----------------------------------------------------------------------------
(* Rolling back                                                            *)

\* The commit was refused, or failed: the lease was lost, the track is gone,
\* it cannot be completed, the statement did not get through.
RollBack(w) ==
  /\ proc[w].pc = "stored"
  /\ proc' = [proc EXCEPT ![w].pc = "checking", ![w].old = NoRef]
  /\ UNCHANGED <<row, objects, queue, sweep>>

\* The job was cancelled (shutdown, or a heartbeat that saw the lease gone):
\* what it stored is handed over to the sweep.
Cancel(w) ==
  /\ proc[w].pc \in {"working", "storing", "stored"}
  /\ IF proc[w].pc = "stored"
     THEN RecordOrphan(proc[w].ref, "due") /\ UNCHANGED objects
     ELSE NotStored(w) /\ UNCHANGED orphan
  /\ Leave(w, "settling")
  /\ UNCHANGED <<row, sweep>>

\* Slip: a delete that failed is not queued.
DeleteObjectOnce(p) ==
  /\ proc[p].pc = "deleting"
  /\ objects' = objects \ {proc[p].ref} \/ UNCHANGED objects
  /\ Disposed(p)
  /\ UNCHANGED <<row, queue, sweep>>

\* Is the key in use?  A run that cannot tell keeps the object, a deletion
\* that cannot tell queues it.
CheckInUse(p) ==
  /\ proc[p].pc = "checking"
  /\ LET o == proc[p].ref
         shared == InUseByAnother(o, proc[p].track)
     IN
     \/ ~ shared /\ Goto(p, "deleting") /\ UNCHANGED queue
     \/ shared /\ Disposed(p) /\ UNCHANGED queue
     \/ /\ UsageFails /\ Disposed(p)
        /\ IF p \in Deleters THEN RecordOrphan(o, "due") ELSE Abandon(o)
  /\ UNCHANGED <<row, objects, sweep>>

DeleteObject(p) ==
  /\ proc[p].pc = "deleting"
  /\ \/ objects' = objects \ {proc[p].ref} /\ UNCHANGED queue
     \/ RecordOrphan(proc[p].ref, "due") /\ UNCHANGED objects
  /\ Disposed(p)
  /\ UNCHANGED <<row, sweep>>

-----------------------------------------------------------------------------
(* The end of a run                                                        *)

Release(w) ==
  row' = IF FenceMatches(w)
         THEN [row EXCEPT ![proc[w].track].leased = FALSE] ELSE row

\* The owner of a failed acquisition marks the track, or leaves it to a retry;
\* a replacement marks a pending track once it has panicked at the cap.
Fail(w) ==
  /\ proc[w].pc = "failed"
  /\ \/ /\ FenceMatches(w)
        /\ row[proc[w].track].status = "pending"
        /\ SetRow(proc[w].track, [row[proc[w].track] EXCEPT !.status = "failed"])
     \/ UNCHANGED row
  /\ Goto(w, "settling")
  /\ UNCHANGED <<objects, queue, sweep>>

Settle(w) ==
  /\ proc[w].pc = "settling"
  /\ Release(w)
  /\ proc' = [proc EXCEPT ![w] = Idle]
  /\ UNCHANGED <<objects, queue, sweep>>

\* The object a process has in hand, until it is done with it.
InHand(p, o) ==
  \/ proc[p].pc \in {"stored", "checking", "deleting"} /\ proc[p].ref = o
  \/ proc[p].pc = "superseding" /\ proc[p].old = o

Crash(p) ==
  /\ MayCrash
  /\ proc[p] # Idle
  /\ proc' = [proc EXCEPT ![p] = Idle]
  /\ abandoned' = abandoned \cup {o \in Refs : InHand(p, o)}
  /\ UNCHANGED <<row, objects, orphan, sweep>>

-----------------------------------------------------------------------------
(* The sweep                                                               *)

\* Only the sweep tells an entry in its grace period from one that is due.
GraceEnds(o) ==
  /\ Sweeps
  /\ orphan[o] = "held"
  /\ SetOrphan(o, "due")
  /\ UNCHANGED <<row, proc, objects, sweep, abandoned>>

\* A batch is listed once and worked off entry by entry: the entry the sweep
\* turns to is the one it listed, whatever happened to it since.
ListOrphan(o) ==
  /\ Sweeps
  /\ sweep = Idle
  /\ orphan[o] = "due"
  /\ sweep' = [pc |-> "listed", ref |-> o]
  /\ UNCHANGED <<row, proc, objects, queue>>

ReadUsage ==
  /\ sweep.pc = "listed"
  /\ LET referenced == \E t \in Tracks : row[t].ref = sweep.ref
         acquiring == \E t \in Tracks : row[t].status = "pending"
     IN sweep' = IF referenced THEN [sweep EXCEPT !.pc = "resolving"]
                 ELSE IF acquiring THEN Idle
                 ELSE [sweep EXCEPT !.pc = "unused"]
  /\ UNCHANGED <<row, proc, objects, queue>>

DeleteOrphan ==
  /\ sweep.pc = "unused"
  /\ \/ objects' = objects \ {sweep.ref} /\ sweep' = [sweep EXCEPT !.pc = "resolving"]
     \/ sweep.ref \in objects /\ sweep' = Idle /\ UNCHANGED objects
  /\ UNCHANGED <<row, proc, queue>>

ResolveOrphan ==
  /\ sweep.pc = "resolving"
  /\ SetOrphan(sweep.ref, "none")
  /\ sweep' = Idle
  /\ UNCHANGED <<row, proc, objects, abandoned>>

\* The store loses an object.
Vanish(o) ==
  /\ Vanishes
  /\ o \in objects
  /\ objects' = objects \ {o}
  /\ UNCHANGED <<row, proc, queue, sweep>>

-----------------------------------------------------------------------------

Catalog ==
  \/ \E t \in Tracks :
       \/ AddTrack(t) \/ MarkRefused(t) \/ Retry(t) \/ LoseAudio(t)
       \/ LeaseLapses(t) \/ Preempt(t)
  \/ \E d \in Deleters, t \in Tracks : DeleteTrack(d, t)

Run(w) ==
  \/ \E t \in Tracks, kind \in {"acquire", "replace"} : Claim(w, t, kind)
  \/ LoadTrack(w) \/ ChooseRef(w) \/ StoreObject(w) \/ FailBeforeStored(w)
  \/ Commit(w) \/ QueueSuperseded(w) \/ RollBack(w) \/ Cancel(w)
  \/ Fail(w) \/ Settle(w)

Dispose(p) == CheckInUse(p) \/ DeleteObject(p) \/ Crash(p)

SweepStep ==
  \/ \E o \in Refs : GraceEnds(o) \/ ListOrphan(o)
  \/ ReadUsage \/ DeleteOrphan \/ ResolveOrphan

Next ==
  /\ \/ Catalog
     \/ \E w \in Workers : Run(w)
     \/ \E p \in Processes : Dispose(p)
     \/ SweepStep
     \/ \E o \in Refs : Vanish(o)
  /\ UNCHANGED may

Spec == Init /\ [][Next]_vars

-----------------------------------------------------------------------------
(* Properties                                                              *)

\* A track that serves a staged object has it: whatever zombies, rollbacks,
\* deletions of tracks and sweeps delete, it is never the object a
\* replacement has put in place; only the store itself can lose it.
StagedAudioIsServed ==
  ~ Vanishes =>
    \A t \in Tracks : row[t].ref \in StagedRefs => row[t].ref \in objects

\* No object is leaked but by the death of the process that had it in hand, or
\* by an error that is only logged: of a usage query, of the recording of an
\* orphan, of a store that took effect.  Any other object that exists is referred
\* to by a track, queued as an orphan, or in the hands of a process that will see
\* to it.  That the sweep keeps to this while it works off its queue is not
\* claimed.
NoLeakedObject ==
  ~ Sweeps =>
    \A o \in objects :
      \/ \E t \in Tracks : row[t].ref = o
      \/ orphan[o] # "none"
      \/ \E p \in Processes : InHand(p, o)
      \/ o \in abandoned

\* No rollback deletes the object its track serves by now (violated: see the
\* README).
RollbackSparesItsTrack ==
  [][\A w \in Workers :
       DeleteObject(w) /\ row[proc[w].track].ref = proc[w].ref
         => proc[w].ref \in objects' \/ proc[w].ref \notin objects]_vars

\* The sweep deletes no object inside its grace period (violated: see the
\* README).
SweepKeepsGrace ==
  [][\A o \in objects :
       DeleteOrphan /\ orphan[o] = "held" => o \in objects']_vars
=============================================================================
