# TLA+ verification of altune

altune is a self-hosted music manager: a phone client on which a user searches for
music and adds tracks to a library, and a Go service that finds, downloads, judges,
tags and stores the audio of every track, serves it, and replaces it by better audio
when it can. The modules here specify where the system is hard to get right: the
**acquisition** of a track's audio, whose state is shared by the most actors and the
least protected by a transaction, with the **election** of the instance that runs
the background jobs; and then the parts whose promises hold only over long sequences
of events: the **event stream**, the **client's stores** of downloads, telemetry and
the playback queue, and the server's **sweeps, shutdown, cooldown and token
rotation**. TLC checks the modules on small instances, and TLAPS proves most of
their safety properties for instances of any size.

Paths below are relative to `src/services/go-api/internal/` unless they start with
`src/`.

    tlc -workers 2 -config JobQueue_Leases.cfg MC_JobQueue
    tlc -workers 2 -config JobQueue_Answered.cfg MC_JobQueue
    tlc -workers 2 -config Audio_Objects.cfg MC_AudioSafety
    tlc -workers 2 -config Leader.cfg MC_LeaderElection
    tlc -workers 2 -config EventStream.cfg MC_EventStream
    tlc -workers 2 -config Client.cfg MC_Client
    tlc -workers 2 -config PlaybackQueue.cfg MC_PlaybackQueue
    tlc -workers 2 -config Server.cfg MC_Server
    tlapm JobQueueProofs.tla
    tlapm LeaderElectionProofs.tla
    tlapm AudioProofs.tla
    tlapm PlaybackQueueProofs.tla
    tlapm ServerProofs.tla
    tlapm StreamProofs.tla
    tlapm FilteringProofs.tla
    tlapm ClientProofs.tla

## 1. Inventory

### 1.1 Components

| Component | State it keeps | Operations | What makes it correct |
|---|---|---|---|
| **Job queue** `acquisition/adapters/persistence/job_queue.go` | six columns of a row of `tracks`: kind, available_at, lease_until, attempts (the fence), run_attempts, version. No job table: a track *is* its job | enqueue, claim, claim upgrade, heartbeat, verify, release, settle | one holder per lease; a fence never serves two claims; an accepted request is not lost; a pending track is always queued |
| **Scheduler** `acquisition/service/scheduler*.go`, `pending_tracker.go` | workers, job contexts, heartbeats, wait groups, the closed and paused flags, the tracks the caller waits for | schedule, claim loop, run, heartbeat, finish, release, shutdown | every accepted request is answered; no job runs after the jobs were found drained; a shutdown ends and leaves nothing pending |
| **Acquisition use case** `acquisition/service/acquire.go`, `pipeline.go`, `step_*.go`, `reacquire.go`, `upgrade/` | the acquisition context of a run (selected candidate, temp file, stored key, preserved key) | acquire, replace, upgrade: load, reconcile, search, select, download, tag, store, commit; roll back in reverse | the outcome of a run is committed by the owner of the lease; what failed is undone and nothing else is |
| **Download step** `acquisition/service/step_download*.go`, `download_limiter.go` | candidates left, the window under way, the book of held and muxed files, a temporary directory per attempt | walk, start window, attempt, merge, give up, clean up | concurrent attempts select what trying them one by one would; one directory is left, or none |
| **Track ledger** `acquisition/adapters/catalogbridge/track_ledger.go` | none: load, fence check, compare-and-set | Complete, Fail, Revert, RevertAt | a superseded run writes nothing |
| **Catalog tracks** `catalog/domain/track.go`, `catalog/adapters/persistence/track_repo.go`, `catalog/service/track` | the domain columns of the same row: status, audio_ref, version | add, update, delete, retry | status and job agree; a version guards every write |
| **Audio objects** `catalog/adapters/storage`, `acquisition/service/step_store.go`, `catalog/service/track/delete_track.go` | objects in a store outside the database | put, delete, exists | a ready track has its object; an object nobody uses is deleted in the end |
| **Orphan sweep** `catalog/service/audio/reconcile_orphaned_audio.go`, `catalog/adapters/persistence/orphaned_audio_repo.go` | `orphaned_audio(ref, not_before, attempts)` | record, list due, usage, delete, resolve, defer | deletes nothing that is used or inside its grace period; loses no entry |
| **Streaming** `catalog/service/audio/stream_track.go` | none | finds an object missing, fails the track by version, schedules a reacquisition | a concurrent replacement wins |
| **Memory queue** `acquisition/service/mem_job_queue.go` | map of jobs with a re-enqueued flag | as the job queue | promises what the job queue promises within one process |
| **Cooldown admission** `acquisition/service/retry_admission.go`, `acquisition/adapters/persistence/cooldown_store.go` | a time per track and kind of request, shared by processes | reserve, schedule, release | what is scheduled was admitted a cooldown apart; a release frees the caller's own window only |
| **Leader election** `shared/leader`, `app/leader_ticker.go`, `shared/runloop` | the held connection, when it was won, the current term and the contexts issued in it | tick: try lock, ping, settle, detach; shutdown | two processes never lead at once; work of an ended term is cancelled; somebody leads in the end |
| **Event bus and handler** `shared/events`, `eventstream` | replay ring, subscriber's channel, id floor, connection counts | publish, subscribe with replay, drop a slow subscriber, deliver, heartbeat | no gap without a resync; ids only grow |
| **Event stream client** `src/client/src/shared/events` | the SSEClient in use, its request, timers and last event id | connect, look up the token, read, reconnect, disconnect, dispose | the resume point is honest; no stream for a user who left; a wanted stream comes back |
| **Playback queue, server** `playback/service/queue`, `playback/adapters/persistence/pgx_queue_state_repository.go` | one row per user: queue, index, updated_at, erased_at | save, save position, forget, reap | the newer save wins; erased state stays erased |
| **Erasure sweep** `playback/service/erasure/sweeper.go` | cursor, owners to retry | run: retry, page, forget | erases every deleted user's queue and no other |
| **Playback queue, client** `src/client/src/shared/playback` | tracks, play order, up next, appended, place, generation | load, enqueue, insert, move, remove, shuffle, advance, save, rebuild | every entry is played once; what is saved rebuilds the queue |
| **Offline downloads** `src/client/src/shared/offline/state` | entries, download queue, files, the index on disk and its owner | pin, unpin, download, retry, persist, reconcile, change user | serves only one's own files; keeps what was pinned |
| **Telemetry outbox** `src/client/src/shared/telemetry` | queue, its file, the pass that sends it, the owner of each entry | enqueue, flush, retry, restore, change user | an entry is sent as its user or kept, never lost |
| **Overseer token source** `src/services/overseer/internal/goapi/refreshing_token.go` | access and refresh token, the file shared by processes | token, refresh, adopt, sign in | a refresh token is spent once; the chain is not lost |
| **Unreleased songs** `discovery/service/unreleased`, `discovery/adapters/persistence/unreleased_store.go` | a row and a list of songs per artist, the builds in flight of a process | look up, warm, build, write, refresh what is due | an older build never replaces a newer one; every artist that can be built is built |
| **Discovery** `discovery` | caches, circuit breakers | search fan-out, merge, rank | a breaker admits one probe when half-open |
| **Auth**, **Observability** `auth`, `observe` | key cache; counters | verify; report | pure computation and reads |
| **Overseer dashboard** `src/services/overseer` | history ring | poll | read-only view |

### 1.2 How they interact

* The client's requests reach the catalog and the acquisition handlers. *Add*
  inserts a row that is already a queued job (`track_repo.go` Add writes
  available_at) and then enqueues it; *retry*, *reacquire*, *stream recovery* and
  the *upgrade planner* enqueue on an existing row.
* Workers of any number of processes claim rows under a lease. Catalog writers
  change the same rows through `version`, the queue through `attempts`. Nobody holds
  a lock between two statements.
* A run stores an object and commits its key afterwards. A delete of a track, a
  rollback, a superseded object and the sweep all delete objects after asking the
  database who uses them.
* Background jobs (the orphan sweep, the planner, the erasure sweep, the refresh of
  unreleased songs) run in the process that leads.
* What changes a track or a playlist publishes an event; the bus hands it to the
  handlers of the user's streams, and the client invalidates its caches.
* The client's session decides whose downloads, outbox entries and stream there are;
  each of the three stores learns of a change of user in its own step.

### 1.3 Where it is hard

The hazards are listed one by one, each at its line, in `PROJECT.json` (`hazards`).
They fall into eight groups: a lease that outlives or is outlived by its worker; two
statements with a gap (fence check and write, outcome and settle, usage query and
delete, list and delete); requests that arrive while a job of the same or another
kind runs; partial failures and crashes between the database and the object store;
goroutines that cancel or wait for each other (shutdown, downloads in windows,
contexts of a term); events that are dropped, replayed and overtaken by others; on
the client, anything that is read before an await and used after it, with a change
of user or a kill in between; and single-use credentials shared by processes.

## 2. Modules

| Module | Models |
|---|---|
| `JobRow` | one row and what each SQL statement asks of it (WHERE) and makes of it (SET) |
| `JobQueue` | requests, time, workers and the ledger as interleaved steps on the rows (EXTENDS `JobRow`) |
| `FencedLease` | the abstract lease with fencing tokens that the job queue implements |
| `JobQueueProofs` | theorems about `JobQueue`, with the refinement of `FencedLease` |
| `SchedulerShutdown` | the scheduler's admission, wait groups and shutdown |
| `AudioObjects` | keys, objects, rollbacks, deletions of tracks and the orphan sweep |
| `DownloadWalk` | the download stage: windows of concurrent attempts |
| `LeaderElection` | the advisory lock, the election loop, terms and their contexts, with time |
| `LeaderElectionProofs` | theorems about `LeaderElection` |
| `EventStream` | the bus, a stream's handler, the frames in flight and what the client makes of them |
| `StreamClient` | when the client opens, watches, closes and reopens the stream |
| `PinnedDownloads`, `Outbox` | the client's offline downloads and its telemetry outbox |
| `PlayQueue`, `SavedQueue` | the client's playback queue; what is saved and rebuilt of it (EXTENDS `PlayQueue`) |
| `QueueStates` | the server's row of a playback queue |
| `ErasureSweep` | the sweep over deleted accounts |
| `RefreshingToken` | overseer's token sources that share a file |
| `CooldownGate` | the cooldown of retries and reacquisitions, across processes |
| `Filtering`, `FilteringProofs` | the elements of a sequence that are in a set (`filter`), and what is proved of them |
| `AudioProofs` | theorems about `AudioObjects`, `CooldownGate` and `DownloadWalk` |
| `PlaybackQueueProofs` | theorems about `QueueStates`, `PlayQueue`, `SavedQueue` and `UnreleasedBuilds` |
| `StreamProofs` | theorems about `EventStream` and `StreamClient` |
| `ServerProofs` | theorems about `SchedulerShutdown`, `ErasureSweep` and `RefreshingToken` |
| `ClientProofs` | theorems about `PinnedDownloads` and `Outbox` |
| `UnreleasedBuilds` | the stored lists of unreleased songs, the lookups that join builds, and the refresh sweep |
| `MC_JobQueue`, `MC_AudioObjects`, `MC_AudioSafety`, `MC_LeaderElection`, `MC_EventStream`, `MC_Client`, `MC_PlaybackQueue`, `MC_Server` | their finite instances |

`JobQueue` and `AudioObjects` are two views of one program, split where they meet:
`AudioObjects` keeps of the queue only the fence and whether a lease is live, and
lets its steps happen in any order the fence allows. `DownloadWalk` is what
`AudioObjects` and `JobQueue` take for one nondeterministic result, and
`SchedulerShutdown` what `JobQueue` takes for a release at any moment.
`LeaderElection` decides where the sweeps and the planner run, and nothing in the
queue relies on it.

`MC_AudioSafety`, `MC_EventStream`, `MC_Client`, `MC_PlaybackQueue` and `MC_Server`
hold several components that share no state. They EXTEND the components' modules,
whose names differ for this reason (`Next`, `SweepNext`, `TokenNext`), so that a run
checks the very definitions that the theorems are about; what is needed with other
constants as well (the wider windows of `DownloadWalk`, the artists of
`UnreleasedBuilds` in `MC_Server`) is an INSTANCE. A behaviour is one of a single
component (`subject`, `half`, `side`), chosen in the initial state; the others stay
as they begin, where every property holds. So the run checks each component over
exactly its own states.

### 2.1 `JobQueue`: state and actions

| Variable | In the code |
|---|---|
| `row[t]` | status, acquisition_kind, acquisition_available_at, acquisition_lease_until, acquisition_attempts, acquisition_run_attempts, version |
| `job[w]`, `pc[w]` | the `ports.Job` a worker was handed and its place in `runClaimedJob` |
| `view[w]` | the version it last loaded and whether it preserves the served object |
| `outcome[w]` | what `completeClaimedJob` recorded |
| `req[c]` | a request that has read a track and has not acted yet |
| `owed[t]` | history: the first fence that may answer the latest accepted user request |
| `spent` | a bound on requests, stalls, crashes, shutdowns and failures of the ledger |

One SQL statement is one step, since each is atomic on its row; everything the code
does in two statements is two steps. Time is kept as far as the statements can tell
it apart: a job is due *never*, *later* or now, a lease is absent, *live* or
*lapsed*, and `BecomesDue` and `LeaseLapses` move time on. With `MayStall = FALSE`
the lease of a worker that runs its job does not lapse (its heartbeat gets through);
with `TRUE` it may at any moment (a stopped process, a database away for longer than
a lease).

Requests: `AddTrack`, `ReadTrack`, `Enqueue`, `EnqueueRefused`, `MarkFailed`,
`DeleteTrack`. A request acts on what it read, in a later step. An enqueue may be
applied and still reported as failed. `resolveRefusedEnqueue`, which tries the
statement again, is the same statement at a later moment.

Workers: `Claim`/`ClaimUpgrade`, `LoadTrack`, `RevertToPending`, `VerifyLease`,
`CommitLoad`/`CommitWrite` and `FailLoad`/`FailWrite` (the ledger's load and its
compare-and-set), `RunFails`/`RunRetries`/`RunPanics` (what the pipeline came to),
`Cancelled`, `RefuseQueued`, `Settle`, `Release`, `ShutdownRelease`, `Crash`,
`Heartbeat`.

What is abstracted: which due job a claim picks (oldest first, users in turn) is
nondeterministic; the pipeline's result is nondeterministic; metadata is left out; a
compare-and-set retries without counting to five, and may end with an error at any
attempt; the recording pass that a failed acquisition adds happens before anything
is stored and is part of `running`; panics are those outside the pipeline's steps,
which recover their own; the reply of a *committing* update is never lost.

Errors of the ledger end a run where they do in the code. A load that fails
(`loadTrack`), an object whose existence cannot be found out (`reconcileReady`) and
a revert that fails end it as it is, without a mark on the track; a failure that
cannot be persisted (`failTrack`) is logged, and the run is settled as a failed one.
Where the track may still be pending the outcome is `unrecorded` (`Unrecorded`): its
settle keeps the job, which is due at once.

`FencedLease` states what the queue promises whoever works from it: a lease alone
excludes nobody, since it expires under a holder that goes on; but the fence of the
latest grant does: only its holder publishes. Its steps are `Acquire`, `Expire`,
`Revoke`, `Leave`, `Publish` and `Withdraw`. The refinement mapping of `JobQueue`
takes the fence of a track for `attempts` (`Gone` when it is deleted), the live
resources for the rows with a live lease, the grants for the jobs of workers that
are not idle, and the published ones for the ready tracks. A claim is `Acquire`, a
preempting enqueue `Revoke`, settling and releasing are `Leave`, `CommitWrite` is
`Publish`, and an object that is found missing is `Withdraw`.

### 2.2 `SchedulerShutdown`: state and actions

| Variable | In the code |
|---|---|
| `shutdown` | where `Shutdown` is: closing the admission, draining, cancelling, awaiting the cancelled jobs, the runners, the outcomes, sweeping the tracker |
| `closed`, `cancelled`, `drained`, `expired` | the flag and the channel `stop`; `baseCtx`; whether the jobs were found drained; the context given to `Shutdown` |
| `paused`, `listening` | the pause of the scheduler; the notifier's goroutine |
| `worker[w]`, `outcomes` | `runnersWG` and `jobsWG` by where each worker is; `outcomeWG` |
| `call[c]`, `queued`, `pending` | calls of `enqueue`; the queue; `pendingTracker` and with it the caller's wait group |

The admission lock is held over the steps a worker or a request takes under it, and
released before the rest, as in the code: a request that was admitted tracks its
pending count, enqueues and undoes the count later. Every wait may end with its
condition or with its budget. Waiting again for what an earlier wait found done is
one step.

### 2.3 `AudioObjects` and `DownloadWalk`

| Variable | In the code |
|---|---|
| `row[t]` | status, audio_ref, whether the lease is live, the fence |
| `proc[p]` | a run of a worker, or a deletion of a track, with the key it is about |
| `objects` | the keys in the store |
| `orphan[o]` | the `orphaned_audio` entry of a key: none, inside its grace period, due |
| `sweep` | the listed entry the sweep is at, and how far it is with it |
| `abandoned` | history: keys given up for an error that was only logged, or by a process that died |

The tracks are one user's and share artist, album and title: a key is built from
user and metadata, so all of them have one *canonical* key, each has a
*track-scoped* one, and every attempt to replace has a *staged* one with a random
part. `ChooseRef`, `StoreObject`, `Commit`, `QueueSuperseded` are the store and
update steps and `deleteSupersededAudio`; `RollBack`, `CheckInUse`, `DeleteObject`
undo them, `Cancel` hands the object of a cancelled job over to the sweep;
`DeleteTrack` is followed by the same `CheckInUse` and `DeleteObject`; `ListOrphan`,
`ReadUsage`, `DeleteOrphan`, `ResolveOrphan` are the sweep. `ledger.Complete` is one
step here, which `OutcomeLandsFromOwner` (proved of `JobQueue`) allows. A batch of
the sweep is a listed entry at a time, with any delay between listing and turn.

What may go wrong is chosen at the start (`may`): stalls, crashes, the loss of an
object, and errors of a usage query, of the recording of an orphan and of a store
that took effect all the same. Such an error is logged and the run goes on, as in
the code: `CheckInUse` of a rollback and `QueueSuperseded` keep the object and queue
nothing, `RecordOrphan` of a cancelled run, a superseded object, a failed delete or
a deletion without an answer queues nothing (`recordOrphanedAudio`,
`DeleteTrackService.recordOrphan`), and a failed store is not rolled back, since
`execStage` undoes the completed stages only. The key is then `abandoned`.

`DownloadWalk` is one job. `stage` is where it is, `rest`, `window` and `used` are
the candidates to try, those under way and the attempts spent; `at` and `outcome`
follow each attempt through its directory, the limiter and the checks; `cancelled`
and `cut` are the contexts of the job and of each attempt; `best`, `muxed`,
`retryGiven` are the `holdBook`, `dead` the sources that failed for good, `dirs` the
temporary directories. An attempt decides what its candidate is like, once. An
attempt that was cut may come to anything, since its checks are skipped or fail.
`MergeWindow` takes the results in rank order. The walk of width one, which is not
what production configures, the directory of the preview, a directory that cannot be
removed and other jobs at the limiter are left out.

### 2.4 `LeaderElection`: state and actions

| Variable | In the code |
|---|---|
| `lock` | whose session holds the advisory lock, in the database |
| `pc[p]`, `conn[p]`, `leads[p]` | where `Election.loop` is, `e.conn # nil`, `e.term # nil` |
| `held[p]`, `wait[p]`, `spent[p]` | time since `heldSince`, time to the next tick, time in the current call |
| `lost[p]` | history: time since the session of `p` lost the lock |
| `ctx[p]` | the leader context of a run of a job: asked for, live, or asked of a term that ended |
| `stopping[p]` | the process context is cancelled |

Time is discrete: `Tick` moves every timer at once, and no timer runs beyond the
limit at which the code stops telling times apart, so the state space is finite
without a bound on the clock. With `MayStall = FALSE` a tick begins when it is due
and a call ends within its timeout (`opCtx`, one interval); time cannot pass
otherwise. The ticker's phase is not kept: the next tick comes within an interval,
and one tick is held for a busy loop. A ping and its answer are two steps, the fate
of the session is fixed when the ping is sent; the grant of the lock in the database
and the reply to it are two steps; reading the term and asking it for a context are
two steps. The session can die at any moment. An unlock can fail and leave the lock
with a session in the pool, which the same instance may get again (the lock is
reentrant), or with one that nobody has (`Orphaned`). The counters are left out, and
so is `Await`, which only delays the start of the jobs: every pass of a job asks for
its own leader context.

### 2.5 `EventStream` and `StreamClient`

An event is its id. `highest`, `user` and `ring` are the bus: the highest id issued
to anybody (with the persisted floor that a restart begins above), the user's
`firstID` and `nextID`, the replay ring. `handler` is the one stream of the user:
where the handler is (`resume`, `check`, `start`, `live`, `beat`) and its ids, for
it reads the bus several times with publishes in between: the ring, then whether the
resume has a gap, then where the stream stands. `chan` is the subscriber's channel,
`wire` the frames not yet read, `last` the client's `lastEventId`. The histories
`published`, `covered` and `excused` judge the client by the ids its caches reflect.
Several short blocks under one lock are one step each. The writing and reading of
the id floor, which is never lost here, the connection limiter (a refusal is a
`Cut`), malformed payloads and further streams of the user are left out; a handler
of an earlier stream is gone when the next stream is opened.

`StreamClient` is the other half: `clients[c]` are the SSEClients made so far with
their request, timers and the lookup under way; `current`, `mounted`, `active`,
`enabled`, `session` are what `useServerEvents` goes by. `LookUp` and `Open` are the
two sides of the await in `connect`; everything that the app, the session or a timer
does may come between them.

### 2.6 `PinnedDownloads` and `Outbox`

The client has one thread, so a step is what runs between two awaits. In
`PinnedDownloads`, `entries` and `downloads` are the store, `job` the worker's
download with its attempt, `files` the files, `index`, `pending` and `indexOwner`
the saved index, the save that is due later, and the record of whose it is;
`pinUser`, `pinSeeded`, `survivors` are what the session has told the store,
`reconciled` whether the bridge has run. What fails on the device is counted by
`diskFaults`: a delete leaves files, the directory cannot be listed, the index or
the owner is not written or not read. The code logs each of these and goes on, and
so do the steps: an index that was not written stays as it was until the next save
(`stale`), one that cannot be read gives an empty store or one without the entries
that are malformed, an owner that cannot be read is nobody. A storage that is full
refuses a pin; of a replaced track the old file and its entry are then gone
(`Repin`). A download may fail, and the app may be killed between any two steps.
`Outbox` has the queue and its file, one pass at a time (`pass`: the entry at the
network, the token it was looked up for, the entries attempted), the retry timer,
and the tag that each entry was given (`ownerOf`); the server's side is what it
`received` and for whom. A reply may be lost after the server recorded the entry; a
write of the file may fail; the file, or entries in it, may not be readable at a
launch (`illegible`), which the code takes for an empty outbox and writes over; the
user may change between any two awaits.

Left out of the first: temporary files, versions and extensions of files, the
microtask in which the worker is done and not yet idle.

### 2.7 `PlayQueue`, `SavedQueue`, `QueueStates`

`PlayQueue` has the store's record (`tracks`, `order`, `upNext`, `appended`,
`current`, `shuffled`, `generation`) and every operation that changes order or
place. `SavedQueue` adds what is saved of it (the library's tracks, a window around
the current one, the natural order), what the server's domain accepts, and the queue
rebuilt from it with whatever tracks are still ready; those are operators, compared
for every queue that the operations reach. Filtering is `Only` of `Filtering`
throughout, so that it can be proved about. `QueueStates` is the row of a user: an
operation is asked for (`Save`, `SavePosition`, `Forget`), encoded when it gets a
connection, stamped by the database, and applied; `handled` in the row is a history.
Time is in ticks, and only differences to the database's clock are used, as in the
code.

Not modelled: the native player's copy of the queue, `repeatMode`, the single save
in flight, and the asynchronous restore at launch (`restoreSavedQueue.ts`), during
which an enqueued track would be lost with the placeholder.

### 2.8 `ErasureSweep` and `RefreshingToken`

An owner is its place in the order of keys. `live` and `deleted` are the rows and
the identities, `hidden` says that the identity store reads as empty; `phase`,
`todo`, `failed`, `at`, `next` are a run, `cursor` and `retry` what is kept between
runs. A run may fail to list, fail on an owner, run out of its budget or die at any
step.

A refresh token is its number in the order of issue. `proc[p]` is a token source of
a process, `lock` and `file` what they share, `issued` and `valid` the auth server
(external), `presented` a history. `broken` becomes true when a rotation did not
reach the file or a process went without the lock or the file, which the code does
rather than fail.

### 2.9 `CooldownGate` and `UnreleasedBuilds`

`reserved` is the row of `acquisition_cooldowns` of one track and kind, `place[r]`
where a request is in `cooldownGate.run`, `admitted[r]` the time its statement read.
The upsert is two steps, `ReadClock` and `Reserve`: the database evaluates
`clock_timestamp()` with the values to insert, and only then waits for a statement
that holds the row. `Statement` is the longest this takes (`dbCallTimeout`, 5 of the
60 seconds). What schedules the job, and the status of the track that is asked for
first, are in `JobQueue`. A request waits for nothing between its reservation and
the job, but no bound on that time is needed: a release may come at any later
moment.

| Variable | In the code |
|---|---|
| `stored[a]` | `unreleased_artists`: requested, attempted_at, built_at and whether the current version of the program built it; the songs are those of `built` |
| `old`, `resting` | artists built long enough ago to be due, and attempted within the hour |
| `job[p, a]` | `inflight` of a process, with the moment the build began |
| `sweep` | the artists of this run of `RefreshDue` that are left, and the build of the first |
| `lookup[r]`, `served` | a lookup with what it has read; history: the list a reader was given last |

A list is the moment its build began, and only the order of those moments is kept: a
new one comes after all that are still mentioned, and `attempted_at` is its rank
among the artists'. The record, the two reads of a lookup, joining, the parts of a
build and its write are steps of their own; the claim and the songs are written in
one transaction. A failed statement is followed as the code does: the lookup goes on
without, builds anew, or serves a list that is not stored. What a build finds,
lookups with a cache instead of a store, the search over stored songs, artists that
nobody asked for in thirty days, and two sweeps at a time (the leader runs one) are
left out.

## 3. Runs

| Run | Instance | Shows |
|---|---|---|
| `JobQueue_Leases` | 1 track, 2 user workers, 1 upgrade worker, 2 requests, 3 claims, stalls, crashes, shutdowns | `OneLeaseHolder`, `AcceptedRequestStaysQueued`, `OutcomeLandsFromOwner`, `OnlyLateRevertsStrand`, `ImplementsFencedLease` |
| `JobQueue_Answered` | 1 track, 1 worker a lane, requests of every kind, 3 of faults and requests on an existing track, `FairSpec` | `EveryRequestAnswered`, `FailedRunLeavesQueue` |
| `JobQueue_Stranded` | 2 workers, 1 stall | violates `PendingIsQueued` |
| `JobQueue_ReplaceLoop` | 1 worker, 2 requests | violates `FailedReplaceLeavesQueue` |
| `Audio_Objects` | 1 track with every fault but vanishing objects, with the sweep, or without it and with failing recordings and stores; 2 tracks of one canonical key with failing queries and recordings, with stalls, or with vanishing objects; 5 candidates in windows of two and of three; 3 retries, a cooldown of 2 ticks, statements of up to 1, 5 ticks | `StagedAudioIsServed`, `NoLeakedObject`; `BestIsKept`, `OnlySelectedIsLeft`; `WindowIsKept` |
| `Audio_Zombie` | 1 track, 2 workers | violates `RollbackSparesItsTrack` |
| `Audio_Grace` | 1 track, 1 worker, sweep | violates `SweepKeepsGrace` |
| `Leader` | 2 instances on time, interval of 2 units, `FairSpec` | `AtMostOneLeader`, `LeaderWorkIsExclusive`, `SomebodyLeads` |
| `EventStream` | ring of 2, channel of 1, 5 ids, 2 faults; 2 users, 3 clients, 3 faults | `ResumePointIsHonest`, `EventsInOrder`, `CatchesUp`; `NoStreamUnlessWanted`, `StreamComesBack` |
| `Client` | 2 users, 2 tracks of one of them, 2 attempts, 2 launches, a device fault; 3 events of 2 labels, 2 faults, a change of user | `ServesOwnFiles`, `PinsAreKept`, `QueuedIsSettled`; `SentAsItsUser`, `NoEventLost`, `FreshIsSent` |
| `PlaybackQueue` | queues of up to 3 entries of 2 library tracks and a preview, saved by twos; 3 operations on a row, of queues of one track, in 7 ticks; 1 artist, a reader's process and the sweep, 1 fault | `RearrangingKeepsTheTrack`, `SavedQueueResumes`; `ErasedStaysErased`, `NewerSaveWins`; `ListsDoNotGoBack` |
| `Server` | 2 requests and a worker, or 1 request and 2 workers, against a shutdown; 3 owners in windows of one; 2 token sources; 3 artists, of which 2 cannot be built, in a sweep that takes 2 | `StopsCleanly`, `NothingLeftPending`, `ShutdownEnds`; `OnlyDeletedAreErased`, `DeletedAreErased`; `NoTokenPresentedTwice`, `ChainIsKept`, `TokensComeBack`; `RequestedIsBuilt` |

Each module of the code has a type invariant. They are proved, or part of an
invariant that is, where there is a proof module, but for the erasure sweep's; those
of the others held on the instances above while they were written.
`TokensComeBack` is `AccessComesBack` for the behaviours of the token sources.
`PendingIsQueued`, which `JobQueue_Stranded` violates, is what
`OnlyLateRevertsStrand` speaks of: every other step preserves it. With one worker a
lane a late worker has no successor, and there `FailedRunLeavesQueue` holds; with
two, a track that a late worker has put back to pending is kept by the settle of its
owner. Without stalls both hold for any number of workers (section 5).

**Bounds.** Statements touch one row, and rows meet only in their workers and in the
rule that upgrades wait for user jobs, so one track shows the races on it. Two user
workers are a zombie and its successor; the upgrade worker is the third party that a
user request preempts; two requests are a decision made on a stale read against
another one. `MaxFence` bounds the claims of a track: three are an owner, a
successor and the successor's successor, or a preempted upgrade between two runs.
`MaxRuns = 2` reaches both a retry and the cap. `Budget` bounds requests on existing
tracks, stalls, crashes, shutdowns and failures of the ledger together; in
`JobQueue_Answered` `MaxFence` is set where only a replacement that loops gets to,
for a bound on claims would otherwise starve a request.

In `Audio_Objects` one track has every fault; two tracks, which is what a shared
canonical key takes, are too many states for that, and have stalls, errors or lost
objects one at a time. The variable `may`, chosen in the initial state and never
changed, says which faults there are. Five candidates in pairs leave a third window,
which is what a muxed file waits for; in threes they use up four attempts in the
second window.

Two instances of the election are a leader whose session died and its successor; a
unit of half an interval puts the window (five units) on the grid, and the slack of
the argument is exactly one unit.

A ring of two and a channel of one overflow after three events, and five ids are
enough to do that, resume and do it again. Two users make every change of user, with
sign-out as a third value; three SSEClients are a change of user and back. One user
has two downloads, so that one waits for the other; the other user has none to pin,
which leaves what two users download side by side to the theorems. The device fails
once, in any operation. The outbox holds two entries and one diagnostic one, so that
both caps evict. Three operations on a saved queue are an erasure between two saves,
or a save and two erasures that cross; seven ticks are longer than a tombstone is
kept, which is twice the two ticks of an operation. Three owners in windows of one,
with room for one to retry, fill the retry set and wrap the scan around with a
failure on either side. In the shutdown all requests are for one track;
`SchedulerBounds` lets a second request in only while the second worker is without a
job, so that either two requests or two workers race with everything else. Two
processes that share a token file are one that rotates and one that has yet to
notice; two faults are a lost rotation and a restart on top. Three retries are one
that is admitted, one that fails and gives its window back, and one whose statement
was under way meanwhile. A lookup's build and the sweep's are two builds of one
artist; two artists that can never be built fill a run of the sweep, so that the
third one needs them to move back.

Deadlock is not checked: requests, pins, plays, events and faults are bounded, and a
system that has settled and is asked nothing rests.

**Fairness.** Each worker's own steps are weakly fair, because a worker polls for
jobs for as long as its process runs and a run always ends (its job context has a
deadline); due times and lease times pass because the clock does. Requests, crashes,
stalls, shutdowns and heartbeats are not fair. In the election time passes, the
loops run, a stopping process exits in the end (its shutdown has budgets), and a
session that holds the lock for nobody is closed in the end: the pool limits the
lifetime of its connections and the database notices broken ones.

In the scheduler's shutdown its goroutines go on and runs end once they are
cancelled, but nothing makes the context given to `Shutdown` expire: `ShutdownEnds`
does not lean on it. In `EventStream` the client reconnects and reads, and the
handler's loop goes on; `Deliver` is *strongly* fair, because the handler's `select`
takes a ready event or a heartbeat at random. In `StreamClient` a lookup ends (its
deadline sees to that) and the reconnect timer fires; the watchdog is not fair, so
the properties do not rely on it. In `PinnedDownloads` a download and a delay end, a
launch applies the stored session and shows its first screens. In `Outbox` an entry
at the network is answered or times out, and the retry timer fires. The erasure
sweep is run again by its ticker, and an identity store that reads as empty is one
that comes back. A token source goes on with a refresh, is asked again by the
dashboard's poll, and its backoff passes. The refresh sweep is run by its ticker,
its builds end because their requests have timeouts, and an hour passes. Faults are
never fair and always bounded: the liveness properties say what happens once they
end.

## 4. What the violations show, and what bounds the claims

1. **A reverted track can be stranded** (`JobQueue_Stranded`). `RevertAt`
   (`track_ledger.go:213`) compares the version but not the fence. A worker that
   outlived its lease loads the track after its successor marked it failed, the
   successor settles (available_at becomes NULL), and the late worker reverts the
   track to pending. No worker claims it and a manual retry wants a failed track.
   Nothing else strands a track (`OnlyLateRevertsStrand`).
2. **A failed replacement can loop** (`JobQueue_ReplaceLoop`). A replacement that is
   enqueued when its track is no longer ready makes the row pending; when it fails
   it leaves the status as it is, `Settle` keeps a pending job due, and it is
   claimed again at once, with no backoff and no cap. Runs of the other kinds leave
   the queue (`FailedRunLeavesQueue`), unless a late worker reverts their track as
   in the first finding, or the failure is unrecorded (below). For the same reason
   `EveryRequestAnswered` excepts a replacement of a track that is not ready.
3. **A late rollback can delete served audio** (`Audio_Zombie`). A run that was
   cancelled hands its object to the sweep; one whose commit was refused because the
   lease was lost before its heartbeat noticed asks whether *another* track uses the
   key and deletes it, though its own track may serve that key by now through the
   successor. Only canonical and track-scoped keys are exposed: staged keys are not
   (`StagedAudioIsServed`).
4. **The sweep can delete inside the grace period** (`Audio_Grace`). It lists a
   batch once; an entry recorded again while the batch is worked off is deleted
   without another look at not_before.

What the passing runs do not claim, because the code does otherwise or the model
stops short:

* *Audio.* Two tracks of the same metadata may both choose the canonical key before
  either commits, and the rollback of one deletes the other's object. The sweep
  checks and deletes in two steps. `NoLeakedObject` excepts the objects that the
  code does leak, each by its key: what was in the hands of a process that died, and
  what an error that is only logged left to nobody (a usage query of a rollback or
  of a superseded object, the recording of an orphan, a store that took effect and
  was reported as failed). It claims nothing with the sweep on, which resolves an
  entry that was recorded again between the delete and the resolve together with the
  old one. Lost replies of the committing update are not modelled.
* *Queue.* A job whose worker dies every time never reaches the cap of runs
  (`scheduler.go:430` looks at it only when a run returns); the five attempts of a
  compare-and-set are not counted. A run that could not load its track, or not
  persist that it failed (`acquire.go:620`, ignored at 567), leaves a pending track
  in the queue, and its settle keeps the job due at once: it is run again, with
  neither backoff nor cap, until the ledger answers. `FailedRunLeavesQueue` excepts
  exactly these runs.
* *Election.* A leader that is stalled for longer than the window leads beside its
  successor until it runs again (`election.go:131`): `AtMostOneLeader` needs
  `MayStall = FALSE`.
* *Download step.* A doubtful file that comes after an accepted muxed one discards
  it (`step_download.go:231`), though `settle` would prefer it: the job ends with a
  best effort or none. `step_download_test.go:2581` wants the first accepted muxed
  file only when every candidate is muxed, so this contradicts no test; `BestIsKept`
  claims nothing of it.
* *Event stream.* A client without a last event id whose first stream ends before
  its first event opens the next one without an id: what was published in between is
  neither replayed nor covered by a resync (`event_stream_handler.go:105`).
  `excused` marks those events, and `ResumePointIsHonest` and `CatchesUp` except
  them.
* *Offline downloads.* `ServesOwnFiles` claims nothing of whose files are served
  after two faults of the device, and nothing of their presence after one. If the
  owner file cannot be written (`pinnedStore.ts:318` goes on) and a later delete
  leaves files, another user is served them; so they are when a delete leaves files
  at two changes of user, since the claim of the second one, whose owner is already
  written, forgets the first one's survivors. An owner that was not written, or that
  cannot be read once, makes the next auth event of the same user clear the
  downloads. An index that cannot be read at a launch loses its pins, and so does
  one whose last write failed, if the app is killed before another one; a new
  version of a pinned track that comes when the storage is full takes the old file
  and its entry away. `PinsAreKept` lists these ways. An unpin of many within two
  seconds of a crash comes back.
* *Outbox.* An entry enqueued before a launch has applied its session has no owner;
  it goes when a session is applied. An entry whose token is looked up while a user
  changes is sent as either of them (`straddled`). After a relaunch restored entries
  wait for the next enqueue, foreground or switch: `FreshIsSent` claims nothing of
  them.
* *Playback queue.* An erasure that waits for the row's lock puts its own stamp over
  a later one. The fence then ends too early by a statement's way to the database,
  and a save that was handled less than that before the later erasure lands:
  `ErasedStaysErased` allows for that, and no more. A position may land on another
  queue that has the same track at the same index. A save within the grace after an
  erasure is refused. Tracks that are not ready when a queue is rebuilt are missing
  from the next save.
* *Cooldown.* Two retries may be admitted up to a statement's time closer together
  than the cooldown: one reads the clock, waits for the row while another is
  admitted and later gives it back, and is admitted with the time it read.
  `WindowIsKept` allows for that, and no more. The reply to a reservation may be
  lost, and then the window stays closed though nothing was scheduled.
* *Unreleased songs.* A list that was served but not stored, because a statement
  failed, may be followed by an older one: `ListsDoNotGoBack` speaks of the lists
  that no failed statement stands behind.
* *Token.* Without the password grant a lost reply, or a crash between the exchange
  and the save, ends the chain; `AccessComesBack` is for `MaySignIn = TRUE`.

## 5. What is proved

Eight modules hold the theorems; they are listed one by one in `PROJECT.json`. Each
is about the module as TLC runs it, for every value of the constants that the named
assumption admits. Bounds on faults, launches, clocks and operations are constants
too, so a proof covers however many there are. Each invariant was checked with TLC
before it was proved.

**`JobQueueProofs`**: any number of tracks, workers and requests, with stalls, under
`QueueAssumption` (lanes are disjoint, bounds are numbers).

* `TypeCorrect`: `Spec => []TypeOK`.
* `AtMostOneHolder`: `Spec => []OneLeaseHolder`. `OneLeaseHolder` is not inductive:
  it says nothing of the fences of workers that hold no lease. `FenceInv` adds that
  every fence in a worker's hand is at most the row's, and that two workers on one
  track carry different ones. A claim hands out the row's fence plus one, above
  both.
* `OwnerLandsOutcome`: `Spec => [][OutcomeLandsFromOwner]`. The fence is checked on
  load, the write is guarded by the version. `VersionInv` relates the two: a worker
  between load and write has seen a version at most the row's, and if it is the
  row's, the fence still is the worker's, since every statement that changes the
  fence changes the version.
* `LapsedIsLost`: `Spec => [][LapsedLeaseStaysLapsed]`. A lemma gives the shape of
  every step's effect on a row; of those only a claim makes a lapsed row live.
* `RequestsStayQueued`: `Spec => []AcceptedRequestStaysQueued`. By itself the
  property does not survive a settle, which takes whatever is not pending out of the
  queue. `RequestInv` says why that is harmless: a row without an `available_at` has
  no lease, a row without a lease has no owner (no worker carries its fence), the
  open request asks for at most the fence after the row's, and an owner that claimed
  before the open request was accepted finds the track pending, so that its settle
  keeps the job. `EnqueueKeepsRequest` is the heart of it: an enqueue that drops the
  lease has no owner to leave behind. `VersionInv` is needed for the ledger's
  writes, which answer the request because they come from the owner.
* `LateRevertsStrand`: `Spec => OnlyLateRevertsStrand`. `RowsChange` lists what a
  step can make of a row; of that only a revert can strand a track. A revert by the
  owner does not: by `RequestInv` its row is in the queue, and by `OwnerInv` it is of
  the kind that the owner was handed, since no enqueue changes the kind of an owned
  row without raising its fence.
* `PendingStaysQueued`: `Spec => []PendingIsQueued` if `~ MayStall`. Then an owner's
  lease is live (`OwnerInv`), and so only an upgrade can lose its track to another
  worker (`StillOwner`): the others are preempted by nobody and outlive no lease, so
  there are no late reverts. `JobQueue_Stranded` shows that the condition is needed.
* `FailuresAreFinal`: `Spec => FailedRunLeavesQueue` under the same condition. A
  failed acquire run may find its track pending again, which its settle would keep
  in the queue. `FailedInv` says that this is so only for a request that was
  accepted since, which `owed` ascribes to a run with a higher fence (`Owes`). The
  run may have failed in several ways, of which the refused revert is the one that
  leaves the track as somebody else wrote it (`RunsFail`); runs whose failure the
  ledger did not take are no part of the claim, and the property says so.
* `QueueRefinesLease`: `Spec => ImplementsFencedLease`, the queue implements
  `FencedLease`. A statement changes one row, and one lemma for each kind of step of
  the lease says which change of a row is that step (`SeenAsNothing` and its
  neighbours); the theorem then takes the actions of the queue one by one. Who
  leaves may free the lease only if the fence is still its own, which is the guard
  of settle and release; who publishes is the holder of the latest grant, which is
  `VersionInv`.

**`LeaderElectionProofs`**: any number of instances and any interval, under
`ElectionAssumption`.

* `TypeCorrect`: `Spec => []TypeOK`, with or without stalls.
* `OneLeader`: `Spec => []AtMostOneLeader` without stalls. `SpentInv` bounds the
  time in a call, `LossInv` the time a session can have been dead in each place of
  the loop (one interval until the next ping, one more until it fails), `HeldInv`
  says that a term has waited for the whole window, and `ExclInv` that of two
  instances that believe they have the lock one is dead, and died no later than the
  other one won. Two leaders would put two and a half intervals between the loss and
  now, and at most two.
* `OneInstanceAtWork`: `Spec => []LeaderWorkIsExclusive`; `CtxInv` ties a live
  context, and one that is asked for, to the current term.

**`AudioProofs`**: any number of tracks, workers and deletions, any set of settings,
under `AudioAssumption`; any number of requests, under `CooldownAssumption` (the
cooldown is longer than a statement); and any number of candidates, any width of the
windows, any limits and sources, under `WalkAssumption`. That one is a hypothesis of
the theorems: `MC_AudioSafety` has two instances of `DownloadWalk`, of windows of two
and of three, and states it of both.

* `AudioTypeCorrect`, and `ReplacementsStay`: `Spec => []StagedAudioIsServed`. That
  a served object is in the store says nothing of who is about to delete it.
  `Doomed` names them: a rollback or a deletion that checks or deletes, a run that
  supersedes, an orphan entry, the sweep's current one. A staged key belongs to one
  attempt, which the fence identifies (`FenceInv`, `KeyInv`). It is `Upcoming` while
  that attempt may still commit it, and then nobody knows it (`UpcomingInv`); once
  it is served nobody is about to delete it (`ServedInv`); when it is given up it
  will never be upcoming again.
* `NoObjectIsLeaked`: `Spec => []NoLeakedObject`, for every setting without the
  sweep: stalls, crashes and all errors may happen. It is a matter of handing over:
  whoever lets go of an object leaves it in a row, to the orphans or in the hands of
  a process, or is one of the cases that enter the key into `abandoned`; a key
  leaves that set only when it is stored anew. The one hand-over that is not obvious
  is the commit of a replacement, which overwrites the key its track has and sees to
  the one it *loaded*: `OldInv` says that these are the same as long as its fence
  matches.
* `CooldownIsKept`: `GateSpec => []WindowIsKept`. `GapInv` is the property of every
  request that was admitted and has not given its window back, scheduled or not;
  `AdmissionInv` says that such an admission is in the row, or its cooldown is over;
  `StatementInv` that a statement read the clock a statement's time ago at most. So
  whoever finds the row open comes late enough (`OpenIsLate`), and a release, which
  compares the time, cannot take another request's admission out of the row: by
  `GapInv` no two of them have the same time.
* `WalkTypeCorrect`; `NoDirIsLeft`: `WalkSpec => []OnlySelectedIsLeft`, and
  `BestIsSelected`: `WalkSpec => []BestIsKept`. The properties speak of what is left
  at the end, the invariant of every moment: during a window a candidate has a
  directory exactly while its attempt may need it or its file was not rejected
  (`DirInv`); between windows no audio-only file has been found, and the best effort
  is the best of all that was held (`BookInv`); nobody was cut short but by a sound
  file ranked above (`CutInv`), so that the first audio-only file of a window has run
  to its end. `Merged` is a recursive function over the ranks (`MergedDefined` shows
  that it exists), and `MergedIs` is an induction along it: after each result the
  book accounts for every file that was not rejected, as held or as removed and not
  both (`BookAccounts`); its winner is the first audio-only file or the better muxed
  one before it (`FirstWins`); its best effort is beaten by nobody (`BestHeld`),
  because "better" is an order (`BeatsOrders`).

**`PlaybackQueueProofs`**: any number of users and operations, any queues and times,
under `QueueAssumption` of `QueueStates` (a statement takes no longer than an
operation, a tombstone is kept for two operations); any library, queues of any
length and any window that is saved of them, under `PlayQueueAssumption` and
`SavedAssumption`; and any finite sets of artists, processes and
readers, under `BuildsAssumption`.

* `StatesTypeCorrect`.
* `NothingErasedComesBack`: `Spec => []ErasedStaysErased`, and
  `NoSaveIsReplacedByAnOlderOne`: `Spec => NewerSaveWins`. `OpInv` places the stamp
  of an operation between the moment it was handled and now, at most `Transit` after
  the former. While there is a tombstone it has the stamp of the latest erasure or
  of one applied later (`TombstoneInv`) and keeps out what was stamped before; when
  the reaper has removed it, the erasure is longer ago than an operation may take
  (`NoRowInv`), which is what the factor of two in the assumption is for.
* `QueueTypeCorrect`; `EveryEntryIsPlayedOnce`: `QueueSpec => [](queue.order \in
  Permutations1(Len(queue.tracks)))`. `Lists(s, S)` says that a sequence has every
  element of a set and each once. Joining two such lists of disjoint sets, cutting
  one in two, inserting, removing and filtering all give such lists (`ListsBoth`,
  `ListsParts`, `ListsInserted`, `ListsRemoved`, `ListsOnly`), and each operation is
  made of these. Shuffling puts together what was queued up next, the rest and what
  was queued up last, which lists every entry once only if no entry was queued up
  both next and last: the invariant (`Well`) needs `upNext` and `appended` disjoint,
  through every renumbering.
* `RearrangingIsHarmless`: `QueueSpec => RearrangingKeepsTheTrack`. Removal renumbers
  tracks, order, marks and place, each by itself; `RemoveKeeps` shows that the entry
  at the new place is the old one, renumbered, and that its track is the same.
* `SavedQueuesResume`: `QueueSpec => []SavedQueueResumes`. It needs nothing of the
  queue but `Well`; the work is in what filtering does to duplicates, which are told
  apart by how often their track came before (`Rank`). The part of a sequence that is
  kept has a growing list of places (`OnlyEmbeds`), so every element that is kept
  keeps its count (`CountKept`), each place its rank (`RankKept`), and a place has as
  many before it as were kept before it (`LenBefore`). The window is within the
  library's tracks and holds the current one (`WindowHolds`), and the natural order
  is cut to the same tracks, each as often (`NaturalCounts`); so the server accepts
  it, and every occurrence of the play order is found in the natural order by its
  track and rank, a different one for each (`NthFound`, `RankTells`).
* `ListsTypeCorrect`; `NoOlderListIsServed`: `BuildsSpec => ListsDoNotGoBack`. The
  property compares two lookups of a reader, between which anything may have been
  built and stored. `ServedInv` puts the store between them: nobody was given a newer
  list than the one that is stored, and the store never goes back, because a claim
  is for a later build only (`WriteFacts`). `LookupInv` says of a lookup under way
  that the list it has read is no older than its reader's, and that one that waits
  for a build has a reader who was given none: it read that nothing was stored, so
  that whatever the build finds will not be a step back. A build whose write failed,
  or that the artist's row did not wait for, is beyond this, and `sure` marks it.

**`ServerProofs`**: any number of workers, calls and tracks, of owners and windows,
and of processes that share a token file.

* `SchedulerTypeCorrect`; `ShutdownIsClean`: `Spec => []StopsCleanly`. Closing the
  admission waits for the claims under way (`AdmissionInv`), so no job begins once
  it is closed, and what Shutdown found empty stays empty (`DrainInv`, `WaitInv`).
* `NobodyStaysCounted`: `Spec => []NothingLeftPending`. After the sweep of the
  tracker a track is counted only by a call that has counted it and has yet to look
  at `closed` (`LateInv`).
* `OnlyDeletedForgotten`: `SweepSpec => OnlyDeletedAreErased`. Whoever is on a list
  of the run or kept for a retry has been deleted, for the list was made while
  identities could be seen, and accounts do not come back.
* `TokenTypeCorrect`; `TokensAreSpentOnce`: `TokenSpec => []NoTokenPresentedTwice`,
  and `NoChainIsLost`: `TokenSpec => []ChainIsKept`. Unless a rotation was missed
  (`broken`), whoever works on the chain has the lock (`LockInv`), a source holds
  what it last read or wrote (`HeldInv`), and what it presents is the chain's end
  (`ChainInv`), which was not presented before (`SpentInv`).

**`StreamProofs`**: rings and channels of any size, any number of ids and faults,
under `StreamAssumption`; any number of users and clients, under
`StreamClientAssumption`.

* `StreamTypeCorrect`; `ResumePointStaysHonest`: `Spec => []ResumePointIsHonest`. The
  property speaks of the id that the client has and the events its caches reflect;
  that it lasts depends on what is on its way. `WireInv` says that whatever was
  published before an event on the wire is reached, or comes before it on the wire,
  or follows a resync that does. `OrderInv` puts the channel after the wire, and
  `GapInv` says what the handler relies on: an event that will neither come nor be
  taken from the channel has an id above the one the handler stands at
  (`through`), so that the next event it delivers leaves a gap, or a heartbeat finds
  the channel empty and the id behind. Of the replay, `BusInv` and `ReplayInv` say
  that ring and replay have no gap in them (`ReplayFacts`, from `OnlyKeeps`), so that
  it is complete unless `Gapped` finds one before it. The case that takes the most
  care is an event that is both replayed and in the channel (`HandlerInv`): it is not
  written twice, and it must not count as a gap either.
* `EventsStayInOrder`: `Spec => EventsInOrder`, from `WireInv`: what is read next is
  above `last`.
* `ClientTypeCorrect`; `StreamsAreWanted`: `ClientSpec => []NoStreamUnlessWanted`.
  Whoever disconnects a client takes its stream, watchdog and timer away
  (`RequestInv`), so that only a lookup can outlast it, whose answer is dropped; and
  only the current client is ever requested (`CurrentInv`), which is as old as the
  session, so that its token is the session's user's (`SessionInv`).

**`ClientProofs`**: any number of users, tracks, events, entries and faults, under
`PinnedAssumption` and `OutboxAssumption`.

* `PinTypeCorrect`; `PinsStay`: `Spec => []PinsAreKept`. A save that is due later
  holds what the store has, and every entry of the store is in the saved index
  unless its last write failed (`SavedInv`); the tracks that wait are queued, each
  once (`QueueInv`).
* `OnlyOwnFilesAreServed`: `Spec => []ServesOwnFiles`. The property speaks of the
  store, but the store comes from the index and the index survives users. `OwnInv`
  says, for one fault at most, whose library the index holds: its owner's, or that
  of the session's user and the survivors; an index that was not written is the one
  fault there is. `FileInv` says, for none, that the files are those of the ready
  entries. `SessionInv` ties both to what the session has told the store. The first
  version of the property, without the count of faults, was not inductive for a good
  reason: with two of them it is false (section 4).
* `OutboxTypeCorrect`, with it that both caps hold; `OwedIsKept`: `OutboxSpec =>
  []NoEventLost`. What is owed is in the file unless a write failed, and is none of
  what the launch will not be able to read there (`OwedInv`), a queue that is not
  restored is empty (`PassInv`), and the cap of a queue that fits is the queue
  itself (`CapAll`), so that restoring and capping again drops nobody.
* `NoEventForAnother`: `OutboxSpec => []SentAsItsUser`. Every entry that is queued,
  at the network or received has been tagged (`TagInv`); an entry without an owner
  was caused by the user of the session, and what is at the network may be recorded
  for the user of its token (`SendInv`).

**`FilteringProofs`** holds what these proofs need of `Only`, the elements of a
sequence that are in a set: it is defined as a recursive function, not with
RECURSIVE. `UpTo` is induction over an initial segment of the numbers, stated for a
*set* of numbers and derived from the well-foundedness of `<` (`Least`): the
positions for which a fact holds are all, since the least of the others has a
predecessor. In this form no operator is passed to a theorem, and the provers can
use it. `OnlyDefined` derives with it that the recursive function exists, and
`OnlyKeeps` what it computes.

**Model-checked only.** Every safety and every action property of the passing runs is
stated by a theorem. The liveness properties stay with TLC, for liveness under
fairness is outside the reach of the prover, as are ENABLED and RECURSIVE operators
(none is used).

## 6. Plan

In this order; each step names what it adds.

1. Lost replies of the committing update, in `JobQueue` and `AudioObjects`; liveness
   of the orphan sweep.
2. `MemJobQueue`, the second implementation of `FencedLease`.
3. The asynchronous restore of the playback queue and the native player's copy of
   it.
4. The circuit breaker of the discovery's providers, where "one probe at a time"
   rests on the timeouts of the calls; the wait groups and budgets of the process's
   shutdown sequence.

## 7. Not modelled

Scoring, judging, fingerprinting, tagging, ranking and merging are data: what they
decide is a nondeterministic outcome where it matters. Authentication is computation
and library calls. Observability and the dashboard read what others recorded. The
user interface, the query cache and the native player are library calls around the
stores that are modelled. The command-line tools and evaluation harnesses under
`cmd`, `scripts` and `adapters/eval` run by themselves and share no state with the
service. Together these are most of the repository's lines.
