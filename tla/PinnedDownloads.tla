-------------------------- MODULE PinnedDownloads --------------------------
(***************************************************************************)
(* The offline downloads of the client: the tracks a user pinned, the one  *)
(* worker that downloads them, the files on the device, the saved index    *)
(* and the record of whose downloads they are.                             *)
(*                                                                         *)
(* The client has one thread: a step is what runs between two awaits.      *)
(***************************************************************************)
EXTENDS Filtering, FiniteSets, SequencesExt

CONSTANTS
  Tracks, Owners,
  LibraryOf,      \* whose library a track is in
  NoTrack, NoUser,
  MaxAttempts,    \* downloads tried before a track is failed
  MaxDiskFaults,  \* bound on what fails of the device's file system
  MaxLaunches     \* bound on relaunches, remounts and replacements heard of

\* What the constants have to be.
ASSUME PinnedAssumption ==
  /\ NoTrack \notin Tracks /\ NoUser \notin Owners
  /\ LibraryOf \in [Tracks -> Owners]
  /\ IsFiniteSet(Tracks)
  /\ MaxAttempts \in Nat \ {0} /\ MaxDiskFaults \in Nat /\ MaxLaunches \in Nat

VARIABLES
  entries,      \* the status of each track in the store
  downloads,    \* queue: the tracks to download
  job,          \* the download the worker is at: its track, attempt and phase
  files,        \* tracks with a pinned file on the device
  index,        \* the saved entries
  pending,      \* entries that wait to be saved
  stale,        \* the last write of the index failed, since the launch
  indexOwner,   \* the saved owner
  pinUser,      \* the user of the stored session
  pinSeeded,    \* the session has been applied since launch
  survivors,    \* previousUserSurvivors
  pinsEnabled,  \* the kill switch lets downloads run
  reconciled,   \* the bridge was mounted since launch or sign-out
  unlisted,     \* the last reconcile could not list the files, since the launch
  pinned,       \* history: tracks the user pinned and did not unpin
  diskFaults, launches

vars == <<entries, downloads, job, files, index, pending, stale, indexOwner, pinUser,
          pinSeeded, survivors, pinsEnabled, reconciled, unlisted, pinned, diskFaults,
          launches>>

stock == <<entries, index, pending, stale>>
session == <<indexOwner, pinUser, pinSeeded, survivors>>
pinSwitches == <<pinsEnabled, reconciled, unlisted, launches>>

Statuses == {"none", "queued", "downloading", "ready", "failed"}
Entries  == [Tracks -> Statuses]
Unsaved  == [t \in Tracks |-> "unsaved"]  \* no entries wait to be saved
Idle     == [track |-> NoTrack, attempt |-> 0, phase |-> "idle"]

TypeOK ==
  /\ entries \in Entries /\ index \in Entries
  /\ pending \in Entries \cup {Unsaved}
  /\ downloads \in Seq(Tracks)
  /\ job \in [track : Tracks \cup {NoTrack}, attempt : 0..MaxAttempts,
              phase : {"idle", "fetch", "wait"}]
  /\ files \subseteq Tracks /\ survivors \subseteq Tracks /\ pinned \subseteq Tracks
  /\ indexOwner \in Owners \cup {NoUser} /\ pinUser \in Owners \cup {NoUser}
  /\ pinSeeded \in BOOLEAN /\ pinsEnabled \in BOOLEAN /\ reconciled \in BOOLEAN
  /\ stale \in BOOLEAN /\ unlisted \in BOOLEAN
  /\ diskFaults \in 0..MaxDiskFaults /\ launches \in 0..MaxLaunches

Init ==
  /\ entries = [t \in Tracks |-> "none"]
  /\ downloads = <<>>
  /\ job = Idle
  /\ files = {}
  /\ index = entries
  /\ pending = Unsaved
  /\ stale = FALSE
  /\ indexOwner = NoUser
  /\ pinUser = NoUser
  /\ pinSeeded = FALSE
  /\ survivors = {}
  /\ pinsEnabled = TRUE
  /\ reconciled = FALSE
  /\ unlisted = FALSE
  /\ pinned = {}
  /\ diskFaults = 0
  /\ launches = 0

-----------------------------------------------------------------------------
(* The device: what fails of a step is a set of the following              *)
(*   "delete"      files are left        "list"       files are not seen   *)
(*   "indexWrite"  the index stays       "indexRead"  entries are lost     *)
(*   "ownerWrite"  the owner stays       "ownerRead"  the owner is not seen *)

Failures(kinds) ==
  IF diskFaults = MaxDiskFaults THEN {{}}
  ELSE {f \in SUBSET kinds : diskFaults + Cardinality(f) <= MaxDiskFaults}

Count(failed) == diskFaults' = diskFaults + Cardinality(failed)

\* A write of the index that fails is logged and forgotten.
Write(e, old, failed) ==
  IF "indexWrite" \in failed THEN index' = old /\ stale' = TRUE
                             ELSE index' = e /\ stale' = FALSE

\* saveIndex cancels the pending save; scheduleSaveIndex writes later.
Save(e, failed) == entries' = e /\ pending' = Unsaved /\ Write(e, index, failed)
Later(e) == entries' = e /\ pending' = e /\ UNCHANGED <<index, stale>>

\* What a delete of a set of files may leave.
Left(gone, failed) ==
  IF "delete" \in failed THEN (SUBSET (gone \cap files)) \ {{}} ELSE {{}}

\* When the directory cannot be listed a delete finds no file, which counts as
\* deleted.
Delete(gone, stuck, failed) ==
  IF "list" \in failed THEN stuck = {} /\ UNCHANGED files
                      ELSE files' = files \ (gone \ stuck)

Without(q, gone) == Only(q, Tracks \ gone)

-----------------------------------------------------------------------------
(* The worker. It is idle, and stays so while its queue is empty or the    *)
(* kill switch is off, or it has a track in hand.                          *)

FirstJob(t) == [track |-> t, attempt |-> 1, phase |-> "fetch"]

\* The entries are saved. Then drainQueue takes the first track; a track that
\* was unpinned is skipped.
Take(e, q, old, failed) ==
  /\ Write(e, old, failed)
  /\ IF job # Idle \/ q = <<>> \/ ~ pinsEnabled
     THEN job' = job /\ downloads' = q /\ entries' = e /\ pending' = Unsaved
     ELSE /\ downloads' = Tail(q)
          /\ job' = FirstJob(Head(q))
          /\ entries' = [e EXCEPT ![Head(q)] = "downloading"]
          /\ pending' = entries'

\* The worker goes on with its queue once a track is settled: when nothing is
\* left to do it saves what waits to be saved.
Settle(e, failed) ==
  IF downloads = <<>> \/ ~ pinsEnabled
  THEN /\ job' = Idle /\ UNCHANGED downloads
       /\ \/ (e # entries \/ pending # Unsaved) /\ Save(e, failed)
          \/ e = entries /\ pending = Unsaved /\ "indexWrite" \notin failed
             /\ UNCHANGED stock
  ELSE /\ "indexWrite" \notin failed
       /\ downloads' = Tail(downloads)
       /\ job' = FirstJob(Head(downloads))
       /\ Later([e EXCEPT ![Head(downloads)] = "downloading"])

StillDownloading == entries[job.track] = "downloading"

\* The track is settled with what its download came to.
SettledAs(status) ==
  \E failed \in Failures({"indexWrite"}) :
    Count(failed) /\ Settle([entries EXCEPT ![job.track] = status], failed)

\* A download that nobody waits for any more deletes its file.
Abandon(stored) ==
  \E failed \in Failures({"delete", "indexWrite"}) :
    /\ Count(failed)
    /\ "delete" \in failed => job.track \in stored
    /\ files' = IF "delete" \in failed THEN stored ELSE stored \ {job.track}
    /\ Settle(entries, failed)

\* Slip: a finished download is ready, whatever became of its entry.
DownloadedAnyway ==
  /\ job.phase = "fetch"
  /\ UNCHANGED <<session, pinSwitches, pinned>>
  /\ files' = files \cup {job.track}
  /\ SettledAs("ready")

\* The server signs the audio of the tracks of the token's user, who is still
\* the session's as long as the download is waited for.
Downloaded ==
  /\ job.phase = "fetch"
  /\ UNCHANGED <<session, pinSwitches, pinned>>
  /\ LET stored == files \cup {job.track} IN
     IF StillDownloading
     THEN LibraryOf[job.track] = pinUser /\ files' = stored /\ SettledAs("ready")
     ELSE Abandon(stored)

\* An attempt fails for good, at the last attempt at the latest, or is tried
\* again after a delay.
AttemptFails ==
  /\ job.phase = "fetch"
  /\ UNCHANGED <<session, pinSwitches, pinned>>
  /\ \/ IF StillDownloading THEN SettledAs("failed") /\ UNCHANGED files
                            ELSE Abandon(files)
     \/ /\ job.attempt < MaxAttempts
        /\ job' = [job EXCEPT !.phase = "wait"]
        /\ UNCHANGED <<stock, downloads, files, diskFaults>>

\* Slip: the attempts are not counted.
RetryDueUncounted ==
  /\ job.phase = "wait"
  /\ UNCHANGED <<session, pinSwitches, pinned>>
  /\ IF StillDownloading
     THEN /\ job' = [job EXCEPT !.phase = "fetch"]
          /\ UNCHANGED <<stock, downloads, files, diskFaults>>
     ELSE Abandon(files)

RetryDue ==
  /\ job.phase = "wait"
  /\ UNCHANGED <<session, pinSwitches, pinned>>
  /\ IF StillDownloading
     THEN /\ job' = [job EXCEPT !.attempt = @ + 1, !.phase = "fetch"]
          /\ UNCHANGED <<stock, downloads, files, diskFaults>>
     ELSE Abandon(files)

\* flushIndex by its timer.
FlushIndex ==
  /\ pending # Unsaved
  /\ \E failed \in Failures({"indexWrite"}) :
       Count(failed) /\ Write(pending, index, failed)
  /\ pending' = Unsaved
  /\ UNCHANGED <<entries, downloads, job, files, session, pinSwitches, pinned>>

-----------------------------------------------------------------------------
(* The user                                                                *)

\* pin, and pinMany a track at a time: a track that has an entry which did not
\* fail is left alone. A full storage refuses the pin: nothing happens.
Pin(t) ==
  /\ reconciled /\ pinUser = LibraryOf[t]
  /\ entries[t] \in {"none", "failed"}
  /\ \E failed \in Failures({"indexWrite"}) :
       /\ Count(failed)
       /\ Take([entries EXCEPT ![t] = "queued"], Append(downloads, t), index, failed)
  /\ pinned' = pinned \cup {t}
  /\ UNCHANGED <<files, session, pinSwitches>>

\* unpin: a ready track whose file cannot be deleted keeps its entry.
Unpin(t) ==
  /\ reconciled /\ pinUser = LibraryOf[t]
  /\ entries[t] # "none"
  /\ \E failed \in Failures({"delete", "list", "indexWrite"}) :
     \E stuck \in Left({t}, failed) :
       /\ Count(failed)
       /\ Delete({t}, stuck, failed)
       /\ IF stuck # {} /\ entries[t] = "ready"
          THEN "indexWrite" \notin failed /\ UNCHANGED <<stock, downloads, pinned>>
          ELSE /\ Save([entries EXCEPT ![t] = "none"], failed)
               /\ downloads' = Without(downloads, {t})
               /\ pinned' = pinned \ {t}
  /\ UNCHANGED <<job, session, pinSwitches>>

\* removeChunk, of unpinMany, which is asked for what has entries: its save waits.
\* A directory that cannot be listed counts as one that nothing is deleted from.
UnpinChunk(chunk) ==
  /\ reconciled /\ chunk # {}
  /\ \A t \in chunk : pinUser = LibraryOf[t] /\ entries[t] # "none"
  /\ \E failed \in Failures({"delete", "list"}) : \E stuck \in Left(chunk, failed) :
       LET left == IF "list" \in failed THEN chunk ELSE stuck
           kept == {t \in left : entries[t] = "ready"}
       IN
       /\ Count(failed)
       /\ Delete(chunk, stuck, failed)
       /\ Later([t \in Tracks |-> IF t \in chunk \ kept THEN "none" ELSE entries[t]])
       /\ downloads' = Without(downloads, chunk \ kept)
       /\ pinned' = pinned \ (chunk \ kept)
  /\ UNCHANGED <<job, session, pinSwitches>>

\* unpinAll: what cannot be deleted and is ready keeps its entry.
ReadyAnd(stuck) == [t \in Tracks |-> IF t \in stuck /\ entries[t] = "ready"
                                     THEN "ready" ELSE "none"]

\* The user removes all downloads in the settings.
UnpinAll ==
  /\ reconciled /\ pinUser # NoUser
  /\ \E failed \in Failures({"delete", "list", "indexWrite"}) :
     \E stuck \in Left(files, failed) :
       /\ Count(failed)
       /\ Delete(files, stuck, failed)
       /\ Save(ReadyAnd(stuck), failed)
       /\ pinned' = {t \in pinned : ReadyAnd(stuck)[t] # "none"}
  /\ downloads' = <<>>
  /\ UNCHANGED <<job, session, pinSwitches>>

\* repinIfPinned: a file that is ready turns out to be of another version, or an
\* event says that the track was replaced. It is unpinned, and pinned again
\* unless the storage is full.
Repin(t) ==
  /\ reconciled /\ pinUser = LibraryOf[t]
  /\ entries[t] # "none"
  /\ \/ entries[t] = "ready" /\ t \notin survivors /\ UNCHANGED launches
     \/ launches < MaxLaunches /\ launches' = launches + 1
  /\ \E failed \in Failures({"delete", "list", "indexWrite"}) :
     \E stuck \in Left({t}, failed) :
       LET gone == [entries EXCEPT ![t] = "none"]
           left == Without(downloads, {t})
       IN
       /\ Count(failed)
       /\ Delete({t}, stuck, failed)
       /\ \/ /\ stuck # {} /\ entries[t] = "ready" /\ "indexWrite" \notin failed
             /\ UNCHANGED <<stock, downloads, job, pinned>>
          \/ /\ stuck = {} \/ entries[t] # "ready"
             /\ \E old \in {index, gone} :
                  Take([gone EXCEPT ![t] = "queued"], Append(left, t), old, failed)
             /\ UNCHANGED pinned
          \/ /\ stuck = {} \/ entries[t] # "ready"
             /\ Save(gone, failed) /\ downloads' = left /\ UNCHANGED job
             /\ pinned' = pinned \ {t}
  /\ UNCHANGED <<session, pinsEnabled, reconciled, unlisted>>

KillSwitch ==
  /\ pinsEnabled' = ~ pinsEnabled
  /\ IF pinsEnabled' /\ downloads # <<>> /\ job = Idle
     THEN /\ job' = FirstJob(Head(downloads))
          /\ downloads' = Tail(downloads)
          /\ Later([entries EXCEPT ![Head(downloads)] = "downloading"])
     ELSE UNCHANGED <<stock, downloads, job>>
  /\ UNCHANGED <<files, session, reconciled, unlisted, launches, pinned, diskFaults>>

\* Slip: a download that was interrupted is dropped.
ReconciledDropping ==
  [t \in Tracks |-> IF entries[t] = "none" THEN "none"
                    ELSE IF t \in files THEN "ready"
                    ELSE IF entries[t] = "queued" THEN "queued" ELSE "none"]

\* reconcile: a file on the device is ready, a download that was not finished
\* is queued again, and every other entry is dropped.
Reconciled ==
  [t \in Tracks |->
     IF entries[t] = "none" THEN "none"
     ELSE IF t \in files THEN "ready"
     ELSE IF entries[t] \in {"queued", "downloading"} THEN "queued"
     ELSE "none"]

\* The bridge reconciles when it is mounted: with the first screens of a
\* session, and again after a notice that the session expired. It does nothing
\* if the files cannot be listed, until it is mounted again.
Reconcile ==
  /\ pinSeeded
  /\ IF reconciled
     THEN pinUser # NoUser /\ launches < MaxLaunches /\ launches' = launches + 1
     ELSE UNCHANGED launches
  /\ reconciled' = TRUE
  /\ \/ /\ {"list"} \in Failures({"list"}) /\ Count({"list"})
        /\ unlisted' = TRUE
        /\ UNCHANGED <<stock, downloads, job, pinned>>
     \/ \E failed \in Failures({"indexWrite"}) :
          /\ Count(failed)
          /\ unlisted' = FALSE
          /\ Take(Reconciled, SetToSeq({t \in Tracks : Reconciled[t] = "queued"}), index,
                  failed)
          /\ pinned' = {t \in pinned : t \in files \/ entries[t] \notin {"ready", "failed"}}
  /\ UNCHANGED <<files, session, pinsEnabled>>

-----------------------------------------------------------------------------
(* The session                                                             *)

\* useSession applies the session of every auth event: a change of user clears
\* the downloads, and a user who is not the saved owner claims them, which
\* clears them again. Deleting twice is deleting with the outcome of the last.
\* An owner that cannot be read is nobody, so that the user is not the owner.
Apply(u) ==
  /\ pinSeeded \/ u \in {pinUser, NoUser}
  /\ pinSeeded' = TRUE
  /\ pinUser' = u
  /\ \E failed \in Failures({"delete", "list", "indexWrite", "ownerRead", "ownerWrite"}) :
     \E stuck \in Left(files, failed) :
       LET leaves  == pinSeeded /\ pinUser # u
           foreign == u # NoUser /\ (indexOwner # u \/ "ownerRead" \in failed)
           claims  == foreign /\ stuck = {}
       IN
       /\ Count(failed)
       /\ "ownerRead" \in failed => u # NoUser
       /\ "ownerWrite" \in failed => claims
       /\ IF leaves \/ foreign
          THEN /\ Delete(files, stuck, failed)
               /\ Save(ReadyAnd(stuck), failed)
               /\ survivors' = IF foreign THEN {t \in stuck : entries[t] = "ready"} ELSE {}
               /\ indexOwner' = IF claims /\ "ownerWrite" \notin failed THEN u ELSE indexOwner
               /\ downloads' = <<>>
               /\ pinned' = {}
          ELSE /\ failed = {} /\ stuck = {}
               /\ survivors' = IF u # NoUser THEN {} ELSE survivors
               /\ UNCHANGED <<stock, downloads, files, indexOwner, pinned>>
  /\ reconciled' = (reconciled /\ (u = NoUser => pinUser = NoUser))
  /\ UNCHANGED <<job, pinsEnabled, unlisted, launches>>

\* The process ends and the app is launched again; the session is stored. The
\* store has what can be read of the index: nothing at all if the file cannot.
Relaunch ==
  /\ launches < MaxLaunches
  /\ launches' = launches + 1
  /\ \E bad \in SUBSET {t \in Tracks : index[t] # "none"},
        failed \in Failures({"indexRead"}) :
       /\ Count(failed)
       /\ failed = {} => bad = {}
       /\ entries' = [t \in Tracks |-> IF t \in bad THEN "none" ELSE index[t]]
       /\ pinned' = {t \in pinned \ bad : stale => index[t] # "none"}
  /\ downloads' = <<>>
  /\ job' = Idle
  /\ pending' = Unsaved /\ stale' = FALSE
  /\ pinSeeded' = FALSE
  /\ survivors' = {}
  /\ reconciled' = FALSE /\ unlisted' = FALSE
  /\ UNCHANGED <<files, index, indexOwner, pinUser, pinsEnabled>>

-----------------------------------------------------------------------------

Work == Downloaded \/ AttemptFails \/ RetryDue

Next ==
  \/ \E u \in Owners \cup {NoUser} : Apply(u)
  \/ Work \/ FlushIndex
  \/ \E t \in Tracks : Pin(t) \/ Unpin(t) \/ Repin(t)
  \/ \E chunk \in SUBSET Tracks : UnpinChunk(chunk)
  \/ UnpinAll \/ KillSwitch \/ Reconcile \/ Relaunch

Spec == Init /\ [][Next]_vars

\* A download ends, by its deadline at the latest, and so does a delay; a launch
\* applies the stored session and shows its first screens.
FairSpec ==
  /\ Spec
  /\ WF_vars(Work)
  /\ WF_vars(~ reconciled /\ Reconcile)
  /\ WF_vars(~ pinSeeded /\ \E u \in Owners \cup {NoUser} : Apply(u))

-----------------------------------------------------------------------------
(* Properties                                                              *)

Servable(t) == entries[t] = "ready" /\ t \notin survivors

\* What the player is told to play offline belongs to the library of the user
\* of the session, whatever the device failed at once: a delete that left files
\* behind or did not see them, an owner or an index that was not written or not
\* read. It is on the device if nothing failed. (When a delete and the write of
\* the owner fail at two changes of user, the file of the one can be served to
\* the other.)
ServesOwnFiles ==
  \A t \in Tracks :
    Servable(t) /\ reconciled /\ pinUser # NoUser =>
      /\ diskFaults <= 1 => LibraryOf[t] = pinUser
      /\ diskFaults = 0 => t \in files

\* A pin has its entry until one of these takes it away, and goes in no other
\* way, through crashes, late saves, retries, the kill switch and files that
\* cannot be deleted: an unpin, a change of user, a claim by a user who is not
\* the saved owner or whose owner record could not be read, a new version that
\* the full storage refuses, a reconcile that finds it neither on the device nor
\* waiting, and a launch whose index could not be read, or lacks it because the
\* last write of the run before failed.
PinsAreKept == \A t \in pinned : entries[t] # "none"

\* A track that waits for its download is not left waiting, unless the store
\* could not list the files when it was mounted.
QueuedIsSettled ==
  \A t \in Tracks :
    entries[t] = "queued" ~> entries[t] # "queued" \/ ~ pinsEnabled \/ unlisted
=============================================================================
