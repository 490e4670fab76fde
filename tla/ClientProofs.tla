---------------------------- MODULE ClientProofs ----------------------------
(***************************************************************************)
(* Proofs of what the client keeps on the device, for all constants: the   *)
(* offline downloads (PinnedDownloads) with their inductive invariant      *)
(* PinInv, and the telemetry outbox (Outbox) with OutInv.                  *)
(***************************************************************************)
EXTENDS PinnedDownloads, Outbox, FilteringProofs, FiniteSetTheorems, SequenceTheorems,
        TLAPS

-----------------------------------------------------------------------------
(* Offline downloads: the invariant                                        *)

\* What waits to be saved is what the store has; and unless the last write of
\* the index failed, a track is in the index as long as it is in the store.
SavedInv ==
  /\ pending \in {entries, Unsaved}
  /\ stale => diskFaults # 0
  /\ ~ stale => \A t \in Tracks : entries[t] # "none" => index[t] # "none"

\* The tracks of a queue wait, each of them once.
Waiting(e, q) ==
  /\ \A i \in 1..Len(q) : e[q[i]] = "queued"
  /\ \A i, j \in 1..Len(q) : i < j => q[i] # q[j]

QueueInv == Waiting(entries, downloads)

\* Only what the session was applied to is reconciled, downloaded and hidden.
SessionInv ==
  /\ reconciled => pinSeeded
  /\ downloads # <<>> => reconciled
  /\ survivors # {} => pinSeeded

\* The worker has a track in hand, and waits before another attempt only.
JobInv ==
  /\ job # Idle => job.track \in Tracks
  /\ job.phase = "wait" => job.attempt < MaxAttempts

\* Without faults, the files are those of the ready entries.
FileInv ==
  /\ \A t \in files : entries[t] # "none"
  /\ reconciled => \A t \in Tracks : t \in files <=> entries[t] = "ready"
  /\ job # Idle => job.track \notin files

\* The track is of the library of the session's user, or not on the device.
Own(t) == LibraryOf[t] = pinUser \/ t \notin files

Known(t) == entries[t] # "none" \/ index[t] # "none"

\* With one fault at most, the files that are known are of the library of their
\* owner, or of that of the session's user, or hidden; and what is reconciled
\* and ready is of the user's.
OwnInv ==
  /\ survivors # {} => pinUser # NoUser /\ indexOwner # pinUser
  /\ diskFaults = 0 =>
       /\ pinUser \in {NoUser, indexOwner}
       /\ \A t \in Tracks : index[t] # "none" => LibraryOf[t] = indexOwner
  /\ pinUser # NoUser /\ indexOwner = pinUser => \A t \in Tracks : Known(t) => Own(t)
  /\ pinSeeded /\ pinUser # NoUser =>
       \A t \in Tracks : entries[t] # "none" /\ t \notin survivors => Own(t)
  /\ reconciled /\ pinUser # NoUser =>
       \A t \in Tracks :
         entries[t] = "ready" /\ t \notin survivors => LibraryOf[t] = pinUser

PinInv ==
  /\ TypeOK /\ SavedInv /\ QueueInv /\ JobInv /\ SessionInv /\ PinsAreKept
  /\ diskFaults = 0 => FileInv
  /\ diskFaults <= 1 => OwnInv

-----------------------------------------------------------------------------
(* Faults                                                                  *)

Kinds == {"delete", "list", "indexWrite", "indexRead", "ownerWrite", "ownerRead"}

\* What the failures of a step say of the count of faults.
Counts(failed) ==
  /\ diskFaults' \in 0..MaxDiskFaults
  /\ diskFaults' = 0 => diskFaults = 0 /\ failed = {}
  /\ diskFaults' <= 1 =>
       /\ diskFaults <= 1 /\ (failed = {} \/ diskFaults = 0)
       /\ \A a, b \in failed : a = b

LEMMA FailuresCount ==
  ASSUME TypeOK, NEW kinds \in SUBSET Kinds, NEW failed \in Failures(kinds), Count(failed)
  PROVE  Counts(failed) /\ failed \subseteq kinds
<1>1. diskFaults \in 0..MaxDiskFaults /\ MaxDiskFaults \in Nat
  BY PinnedAssumption DEF TypeOK
<1>2. IsFiniteSet(Kinds)
  <2>1. IsFiniteSet({"delete"})
    BY FS_Singleton
  <2>2. IsFiniteSet({"delete"} \cup {"list"})
    BY <2>1, FS_AddElement
  <2>3. IsFiniteSet({"delete"} \cup {"list"} \cup {"indexWrite"})
    BY <2>2, FS_AddElement
  <2>4. IsFiniteSet({"delete"} \cup {"list"} \cup {"indexWrite"} \cup {"indexRead"})
    BY <2>3, FS_AddElement
  <2>5. IsFiniteSet({"delete"} \cup {"list"} \cup {"indexWrite"} \cup {"indexRead"}
                      \cup {"ownerWrite"})
    BY <2>4, FS_AddElement
  <2>6. IsFiniteSet({"delete"} \cup {"list"} \cup {"indexWrite"} \cup {"indexRead"}
                      \cup {"ownerWrite"} \cup {"ownerRead"})
    BY <2>5, FS_AddElement
  <2>7. Kinds = {"delete"} \cup {"list"} \cup {"indexWrite"} \cup {"indexRead"}
                  \cup {"ownerWrite"} \cup {"ownerRead"}
    BY Zenon DEF Kinds
  <2> QED BY <2>6, <2>7
<1>3. /\ failed \subseteq kinds
      /\ failed = {} \/ diskFaults + Cardinality(failed) <= MaxDiskFaults
  BY DEF Failures
<1>4. IsFiniteSet(failed)
  <2>1. failed \subseteq Kinds
    BY <1>3
  <2> QED BY <1>2, <2>1, FS_Subset
<1>5. PICK n \in Nat : n = Cardinality(failed) /\ (n = 0 <=> failed = {})
  BY <1>4, FS_CardinalityType, FS_EmptySet
<1>6. diskFaults' = diskFaults + n
  BY <1>5 DEF Count
<1>7. ASSUME NEW a \in failed, NEW b \in failed, a # b PROVE n >= 2
  <2>1. Cardinality({a}) = 1 /\ IsFiniteSet({a})
    BY FS_Singleton
  <2>2. Cardinality({a} \cup {b}) = 2
    BY <1>7, <2>1, FS_AddElement
  <2>3. {a} \cup {b} \subseteq failed
    OBVIOUS
  <2>4. Cardinality({a} \cup {b}) <= Cardinality(failed)
    BY <1>4, <2>3, FS_Subset
  <2> QED BY <1>5, <2>2, <2>4
<1>8. diskFaults' \in 0..MaxDiskFaults
  BY <1>1, <1>3, <1>5, <1>6
<1>9. diskFaults' = 0 => diskFaults = 0 /\ n = 0
  BY <1>1, <1>6
<1>10. diskFaults' <= 1 => diskFaults <= 1 /\ (n = 0 \/ diskFaults = 0) /\ ~ (n >= 2)
  BY <1>1, <1>6
<1> QED BY <1>3, <1>5, <1>7, <1>8, <1>9, <1>10 DEF Counts

LEMMA NothingFailed ==
  ASSUME TypeOK, diskFaults' = diskFaults
  PROVE  Counts({})
BY DEF TypeOK, Counts

-----------------------------------------------------------------------------
(* Queues                                                                  *)

Jobs == [track : Tracks \cup {NoTrack}, attempt : 0..MaxAttempts,
         phase : {"idle", "fetch", "wait"}]

LEMMA FirstJobType ==
  ASSUME NEW t \in Tracks
  PROVE  FirstJob(t) \in Jobs /\ FirstJob(t).track = t /\ FirstJob(t).phase = "fetch"
BY PinnedAssumption DEF FirstJob, Jobs

LEMMA HeadIsTaken ==
  ASSUME NEW e \in Entries, NEW q \in Seq(Tracks), Waiting(e, q), q # <<>>
  PROVE  /\ Head(q) \in Tracks /\ e[Head(q)] = "queued"
         /\ Tail(q) \in Seq(Tracks)
         /\ [e EXCEPT ![Head(q)] = "downloading"] \in Entries
         /\ Waiting([e EXCEPT ![Head(q)] = "downloading"], Tail(q))
<1>1. Head(q) \in Tracks /\ Tail(q) \in Seq(Tracks) /\ Head(q) = q[1] /\ 1 \in 1..Len(q)
  OBVIOUS
<1>2. e[Head(q)] = "queued"
  BY <1>1 DEF Waiting
<1>3. PICK d \in Entries : d = [e EXCEPT ![Head(q)] = "downloading"]
  BY <1>1 DEF Entries, Statuses
<1>4. \A t \in Tracks : t # Head(q) => d[t] = e[t]
  BY <1>3 DEF Entries
<1>5. PICK r \in Seq(Tracks) : r = Tail(q)
  BY <1>1
<1>6. \A i \in 1..Len(r) : r[i] = q[i + 1] /\ i + 1 \in 1..Len(q) /\ 1 < i + 1 /\ r[i] \in Tracks
  BY <1>5
<1>7. \A i \in 1..Len(r) : d[r[i]] = "queued"
  BY <1>1, <1>4, <1>6 DEF Waiting
<1>8. ASSUME NEW i \in 1..Len(r), NEW j \in 1..Len(r), i < j PROVE r[i] # r[j]
  <2>1. i + 1 < j + 1 /\ i + 1 \in 1..Len(q) /\ j + 1 \in 1..Len(q)
    BY <1>6, <1>8
  <2> QED BY <1>6, <2>1 DEF Waiting
<1>9. Waiting(d, r)
  BY <1>7, <1>8 DEF Waiting
<1> QED BY <1>1, <1>2, <1>3, <1>5, <1>9

LEMMA AppendWaits ==
  ASSUME NEW e \in Entries, NEW q \in Seq(Tracks), Waiting(e, q), NEW t \in Tracks,
         e[t] # "queued"
  PROVE  /\ [e EXCEPT ![t] = "queued"] \in Entries /\ Append(q, t) \in Seq(Tracks)
         /\ Waiting([e EXCEPT ![t] = "queued"], Append(q, t))
<1>1. PICK d \in Entries : d = [e EXCEPT ![t] = "queued"]
  BY DEF Entries, Statuses
<1>2. PICK r \in Seq(Tracks) : r = Append(q, t)
  <2>1. Append(q, t) \in Seq(Tracks)
    OBVIOUS
  <2> QED BY <2>1, Zenon
<1>3. /\ Len(r) = Len(q) + 1 /\ r[Len(r)] = t /\ Len(q) \in Nat
      /\ \A i \in 1..Len(q) : r[i] = q[i] /\ q[i] \in Tracks
  <2>1. Len(r) = Len(q) + 1 /\ Len(q) \in Nat
    BY <1>2
  <2>2. \A i \in 1..Len(q) : q[i] \in Tracks
    OBVIOUS
  <2>3. \A i \in 1..Len(q) : r[i] = q[i]
    BY <1>2
  <2>4. r[Len(q) + 1] = t
    BY <1>2
  <2> QED BY <2>1, <2>2, <2>3, <2>4
<1>4. \A i \in 1..Len(r) : i \in 1..Len(q) \/ i = Len(r)
  BY <1>3
<1>5. d[t] = "queued" /\ \A u \in Tracks : u # t => d[u] = e[u]
  BY <1>1 DEF Entries
<1>6. \A i \in 1..Len(q) : e[q[i]] = "queued" /\ q[i] # t
  BY DEF Waiting
<1>7. \A i \in 1..Len(r) : d[r[i]] = "queued"
  BY <1>3, <1>4, <1>5, <1>6
<1>8. ASSUME NEW i \in 1..Len(r), NEW j \in 1..Len(r), i < j PROVE r[i] # r[j]
  <2>1. i \in 1..Len(q)
    BY <1>3, <1>8
  <2>2. CASE j \in 1..Len(q)
    BY <1>3, <1>8, <2>1, <2>2 DEF Waiting
  <2>3. CASE j = Len(r)
    BY <1>3, <1>6, <2>1, <2>3
  <2> QED BY <1>4, <2>2, <2>3
<1> QED BY <1>1, <1>2, <1>7, <1>8 DEF Waiting

LEMMA OthersWait ==
  ASSUME NEW e, NEW d, NEW q \in Seq(Tracks), Waiting(e, q), NEW gone,
         \A t \in Tracks \ gone : d[t] = e[t]
  PROVE  Without(q, gone) \in Seq(Tracks) /\ Waiting(d, Without(q, gone))
<1>1. PICK r \in Seq(Tracks) : r = Without(q, gone) /\ Filters(q, Tracks \ gone, Len(q), r)
  BY OnlyKeeps DEF Without
<1>2. ASSUME NEW i \in 1..Len(r) PROVE d[r[i]] = "queued"
  <2>1. r[i] \in Tracks \ gone /\ \E k \in 1..Len(q) : q[k] = r[i]
    BY <1>1 DEF Filters
  <2> QED BY <2>1 DEF Waiting
<1>3. ASSUME NEW i \in 1..Len(r), NEW j \in 1..Len(r), i < j PROVE r[i] # r[j]
  BY <1>1, <1>3 DEF Filters, Waiting
<1> QED BY <1>1, <1>2, <1>3 DEF Waiting

LEMMA SetWaits ==
  ASSUME NEW e, NEW S \in SUBSET Tracks, \A t \in S : e[t] = "queued"
  PROVE  /\ SetToSeq(S) \in Seq(Tracks) /\ Waiting(e, SetToSeq(S))
<1>1. IsFiniteSet(S)
  BY PinnedAssumption, FS_Subset
<1>2. PICK n \in Nat : n = Cardinality(S)
  BY <1>1, FS_CardinalityType
<1>3. ExistsBijection(1..n, S)
  BY <1>1, <1>2, FS_CardinalityType
<1>4. \E f \in [1..n -> S] : IsInjective(f)
  BY <1>3 DEF ExistsBijection, Bijection, Injection, Surjection, IsInjective
<1>5. PICK r : r = SetToSeq(S)
  OBVIOUS
<1>6. r \in [1..n -> S] /\ IsInjective(r)
  BY <1>2, <1>4, <1>5 DEF SetToSeq
<1>7. r \in Seq(Tracks) /\ Len(r) = n
  BY <1>6
<1>8. Waiting(e, r)
  BY <1>6, <1>7 DEF Waiting, IsInjective
<1> QED BY <1>5, <1>7, <1>8

-----------------------------------------------------------------------------
(* The worker's steps                                                      *)

\* The store has the given entries, but for a track the worker was handed, and
\* the rest of the given queue waits.
Follows(e, q) ==
  /\ entries' \in Entries /\ downloads' \in Seq(Tracks) /\ job' \in Jobs
  /\ pending' \in {entries', Unsaved}
  /\ Waiting(entries', downloads')
  /\ \A t \in Tracks :
       entries'[t] = e[t] \/ (e[t] = "queued" /\ entries'[t] = "downloading")
  /\ downloads' # <<>> => q # <<>>

\* The worker was handed a track of the given queue.
Handed(e, q) ==
  /\ q # <<>> /\ job'.track \in Tracks /\ e[job'.track] = "queued"
  /\ job'.phase = "fetch"

LEMMA HandOver ==
  ASSUME NEW e \in Entries, NEW q \in Seq(Tracks), Waiting(e, q), q # <<>>,
         downloads' = Tail(q), job' = FirstJob(Head(q)),
         entries' = [e EXCEPT ![Head(q)] = "downloading"], pending' = entries'
  PROVE  Follows(e, q) /\ Handed(e, q)
<1>1. /\ Head(q) \in Tracks /\ e[Head(q)] = "queued"
      /\ entries' \in Entries /\ downloads' \in Seq(Tracks)
      /\ Waiting(entries', downloads')
  BY HeadIsTaken
<1>2. job' \in Jobs /\ job'.track = Head(q) /\ job'.phase = "fetch"
  BY <1>1, FirstJobType
<1>3. \A t \in Tracks :
       entries'[t] = e[t] \/ (e[t] = "queued" /\ entries'[t] = "downloading")
  <2>1. PICK h \in Tracks : h = Head(q) /\ e[h] = "queued"
    BY <1>1
  <2>2. entries' = [e EXCEPT ![h] = "downloading"]
    BY <2>1
  <2>3. TAKE t \in Tracks
  <2>4. CASE t = h
    BY <2>1, <2>2, <2>4 DEF Entries
  <2>5. CASE t # h
    BY <2>2, <2>5 DEF Entries
  <2> QED BY <2>4, <2>5
<1> QED BY <1>1, <1>2, <1>3 DEF Follows, Handed

LEMMA TakeFollows ==
  ASSUME TypeOK, NEW e \in Entries, NEW q \in Seq(Tracks), Waiting(e, q), NEW old, NEW failed,
         Take(e, q, old, failed)
  PROVE  Follows(e, q) /\ Write(e, old, failed) /\ (job' = job \/ Handed(e, q))
<1>1. job \in Jobs /\ Write(e, old, failed)
  BY DEF TypeOK, Jobs, Take
<1>2. CASE job # Idle \/ q = <<>> \/ ~ pinsEnabled
  <2>1. job' = job /\ downloads' = q /\ entries' = e /\ pending' = Unsaved
    BY <1>2 DEF Take
  <2>2. Waiting(entries', downloads')
    BY <2>1
  <2> QED BY <1>1, <2>1, <2>2 DEF Follows
<1>3. CASE ~ (job # Idle \/ q = <<>> \/ ~ pinsEnabled)
  <2>1. /\ downloads' = Tail(q) /\ job' = FirstJob(Head(q)) /\ q # <<>>
        /\ entries' = [e EXCEPT ![Head(q)] = "downloading"] /\ pending' = entries'
    BY <1>3 DEF Take
  <2> QED BY <1>1, <2>1, HandOver
<1> QED BY <1>2, <1>3

\* The index is written, or its write waits.
Writes(e, failed) == Write(e, index, failed) \/ UNCHANGED <<index, stale>>

LEMMA SettleFollows ==
  ASSUME TypeOK, NEW e \in Entries, Waiting(e, downloads), NEW failed, Settle(e, failed),
         pending \in {entries, Unsaved}
  PROVE  /\ Follows(e, downloads) /\ Writes(e, failed)
         /\ job' = Idle \/ Handed(e, downloads)
<1>1. downloads \in Seq(Tracks) /\ Idle \in Jobs
  BY PinnedAssumption DEF TypeOK, Idle, Jobs
<1>2. CASE downloads = <<>> \/ ~ pinsEnabled
  <2>1. /\ job' = Idle /\ downloads' = downloads /\ entries' = e /\ Writes(e, failed)
        /\ pending' = Unsaved
    BY <1>2 DEF Settle, Save, Writes, stock
  <2>2. Waiting(entries', downloads')
    BY <2>1
  <2> QED BY <1>1, <2>1, <2>2 DEF Follows
<1>3. CASE ~ (downloads = <<>> \/ ~ pinsEnabled)
  <2>1. /\ downloads' = Tail(downloads) /\ job' = FirstJob(Head(downloads))
        /\ downloads # <<>>
        /\ entries' = [e EXCEPT ![Head(downloads)] = "downloading"]
        /\ pending' = entries' /\ UNCHANGED <<index, stale>>
    BY <1>3 DEF Settle, Later
  <2> QED BY <1>1, <2>1, HandOver DEF Writes
<1> QED BY <1>2, <1>3

\* What may become of the files and the entries in a session.
Goes(failed) ==
  /\ \A t \in Tracks : entries'[t] # "none" => entries[t] # "none" \/ LibraryOf[t] = pinUser
  /\ \A t \in Tracks : index'[t] # "none" => Known(t) \/ LibraryOf[t] = pinUser
  /\ diskFaults' <= 1 /\ diskFaults # 0 =>
       \A t \in files' : t \in files \/ LibraryOf[t] = pinUser
  /\ reconciled' => pinSeeded
  /\ reconciled' /\ diskFaults # 0 => \A t \in Tracks :
       entries'[t] = "ready" =>
         \/ LibraryOf[t] = pinUser
         \/ entries[t] # "none" /\ (t \in files \/ (reconciled /\ entries[t] = "ready"))
         \/ failed # {}

\* In a session only what is of its user's library comes to be known.
LEMMA OwnKept ==
  ASSUME TypeOK, SavedInv, diskFaults <= 1 => OwnInv, UNCHANGED session,
         NEW failed, Counts(failed), Goes(failed)
  PROVE  diskFaults' <= 1 => OwnInv'
<1> SUFFICES ASSUME diskFaults' <= 1 PROVE OwnInv'
  OBVIOUS
<1>1. \A t \in Tracks : LibraryOf[t] # NoUser
  BY PinnedAssumption
<1>2. OwnInv /\ (failed = {} \/ diskFaults = 0)
  BY DEF Counts
<1>3. /\ pinUser' = pinUser /\ indexOwner' = indexOwner /\ survivors' = survivors
      /\ pinSeeded' = pinSeeded
  BY DEF session
<1>4. diskFaults' = 0 => diskFaults = 0
  BY DEF Counts
<1>5. CASE diskFaults = 0
  <2>1. \A t \in Tracks : Known(t) => LibraryOf[t] = indexOwner
    BY <1>2, <1>5 DEF OwnInv, SavedInv, Known
  <2>2. pinUser \in {NoUser, indexOwner}
    BY <1>2, <1>5 DEF OwnInv
  <2>3. \A t \in Tracks : Known(t)' => LibraryOf[t] = indexOwner \/ LibraryOf[t] = pinUser
    BY <2>1 DEF Goes, Known
  <2>4. \A t \in Tracks : Known(t)' => LibraryOf[t] = indexOwner
    BY <1>1, <2>2, <2>3
  <2>5. pinUser # NoUser => \A t \in Tracks : Known(t)' => LibraryOf[t] = pinUser
    BY <2>2, <2>4
  <2> QED BY <1>2, <1>3, <2>2, <2>4, <2>5 DEF OwnInv, Own, Known
<1>6. CASE diskFaults # 0
  <2>1. diskFaults' # 0 /\ failed = {}
    BY <1>2, <1>4, <1>6
  <2>2. \A t \in Tracks : Own(t) => Own(t)'
    BY <1>3, <1>6 DEF Goes, Own
  <2>3. \A t \in Tracks : LibraryOf[t] = pinUser => Own(t)'
    BY <1>3 DEF Own
  <2>4. \A t \in Tracks : Known(t)' => Known(t) \/ LibraryOf[t] = pinUser
    BY DEF Goes, Known
  <2>5. pinUser # NoUser /\ indexOwner = pinUser => \A t \in Tracks : Known(t)' => Own(t)'
    BY <1>2, <2>2, <2>3, <2>4 DEF OwnInv
  <2>6. pinSeeded /\ pinUser # NoUser =>
          \A t \in Tracks : entries'[t] # "none" /\ t \notin survivors => Own(t)'
    BY <1>2, <2>2, <2>3 DEF OwnInv, Goes
  <2>7. reconciled' /\ pinUser # NoUser =>
          \A t \in Tracks :
            entries'[t] = "ready" /\ t \notin survivors => LibraryOf[t] = pinUser
    <3> SUFFICES ASSUME reconciled', pinUser # NoUser, NEW t \in Tracks,
                        entries'[t] = "ready", t \notin survivors
                 PROVE  LibraryOf[t] = pinUser
      OBVIOUS
    <3>1. \/ LibraryOf[t] = pinUser
          \/ entries[t] # "none" /\ t \in files
          \/ reconciled /\ entries[t] = "ready"
      BY <1>6, <2>1 DEF Goes
    <3>2. entries[t] # "none" => Own(t)
      BY <1>2 DEF OwnInv, Goes
    <3> QED BY <1>2, <3>1, <3>2 DEF OwnInv, Own
  <2> QED BY <1>2, <1>3, <2>1, <2>5, <2>6, <2>7 DEF OwnInv
<1> QED BY <1>5, <1>6

-----------------------------------------------------------------------------
(* The index                                                               *)

\* The store is saved, or its save waits and nothing was added to it.
LEMMA SavedFollows ==
  ASSUME NEW e \in Entries, NEW q, Follows(e, q), SavedInv, NEW failed, Counts(failed), NEW old,
         \/ Write(e, old, failed)
         \/ /\ UNCHANGED <<index, stale>>
            /\ \A t \in Tracks : e[t] # "none" => entries[t] # "none"
  PROVE  SavedInv'
<1>1. \A t \in Tracks : entries'[t] # "none" => e[t] # "none"
  BY DEF Follows
<1>2. stale' => diskFaults' # 0
  BY DEF SavedInv, Write, Counts
<1>3. ~ stale' => \A t \in Tracks : e[t] # "none" => index'[t] # "none"
  BY DEF SavedInv, Write
<1> QED BY <1>1, <1>2, <1>3 DEF SavedInv, Follows

\* A queue still waits when other entries change.
LEMMA WaitsOn ==
  ASSUME NEW e, NEW d, NEW q \in Seq(Tracks), Waiting(e, q),
         \A t \in Tracks : e[t] = "queued" => d[t] = "queued"
  PROVE  Waiting(d, q)
<1>1. \A i \in 1..Len(q) : q[i] \in Tracks
  OBVIOUS
<1> QED BY <1>1 DEF Waiting

-----------------------------------------------------------------------------
(* The worker's actions                                                    *)

\* The worker settles its track: it is ready with its file, has failed, or was
\* given up.
LEMMA Settled ==
  ASSUME PinInv, job # Idle, NEW e \in Entries, NEW failed, Counts(failed), Settle(e, failed),
         \A t \in Tracks \ {job.track} : e[t] = entries[t],
         \/ e[job.track] = entries[job.track]
         \/ entries[job.track] = "downloading" /\ e[job.track] = "failed"
         \/ /\ entries[job.track] = "downloading" /\ e[job.track] = "ready"
            /\ LibraryOf[job.track] = pinUser,
         files' \subseteq Tracks,
         diskFaults' <= 1 /\ diskFaults # 0 =>
           \A t \in files' : t \in files \/ LibraryOf[t] = pinUser,
         diskFaults' = 0 =>
           \/ files' = files /\ (e[job.track] = entries[job.track] \/ e[job.track] = "failed")
           \/ files' = files \cup {job.track} /\ e[job.track] = "ready",
         UNCHANGED <<session, pinSwitches, pinned>>
  PROVE  PinInv'
<1>1. PICK j \in Tracks : j = job.track
  BY DEF PinInv, JobInv
<1>2. /\ \A t \in Tracks : e[t] # "none" <=> entries[t] # "none"
      /\ \A t \in Tracks : entries[t] = "queued" => e[t] = "queued"
      /\ \A t \in Tracks : e[t] = "queued" => entries[t] = "queued"
  BY <1>1
<1>3. TypeOK /\ downloads \in Seq(Tracks)
  BY DEF PinInv, TypeOK
<1>4. Waiting(e, downloads)
  BY <1>2, <1>3, WaitsOn DEF PinInv, QueueInv
<1>5. /\ Follows(e, downloads) /\ Writes(e, failed)
      /\ job' = Idle \/ Handed(e, downloads)
  BY <1>3, <1>4, SettleFollows DEF PinInv, SavedInv
<1>6. /\ pinUser' = pinUser /\ indexOwner' = indexOwner /\ survivors' = survivors
      /\ pinSeeded' = pinSeeded /\ pinsEnabled' = pinsEnabled /\ reconciled' = reconciled
      /\ launches' = launches /\ pinned' = pinned /\ unlisted' = unlisted
  BY DEF session, pinSwitches
<1>7. TypeOK'
  <2>1. index' \in Entries /\ stale' \in BOOLEAN
    BY <1>3, <1>5 DEF TypeOK, Writes, Write
  <2> QED BY <1>3, <1>5, <1>6, <2>1 DEF TypeOK, Follows, Jobs, Counts
<1>8. SavedInv'
  BY <1>2, <1>5, SavedFollows DEF PinInv, Writes
<1>9. QueueInv' /\ JobInv' /\ SessionInv' /\ PinsAreKept'
  <2>1. QueueInv'
    BY <1>5 DEF Follows, QueueInv
  <2>2. JobInv'
    BY <1>5 DEF JobInv, Handed, Idle
  <2>3. SessionInv'
    BY <1>5, <1>6 DEF PinInv, SessionInv, Follows
  <2>4. \A t \in pinned : t \in Tracks /\ e[t] # "none"
    BY <1>2, <1>3 DEF PinInv, PinsAreKept, TypeOK
  <2>5. PinsAreKept'
    BY <1>5, <1>6, <2>4 DEF PinsAreKept, Follows
  <2> QED BY <2>1, <2>2, <2>3, <2>5
<1>10. diskFaults' = 0 => FileInv'
  <2> SUFFICES ASSUME diskFaults' = 0 PROVE FileInv'
    OBVIOUS
  <2>1. FileInv /\ diskFaults = 0
    BY DEF PinInv, Counts
  <2>2. /\ \A t \in Tracks : entries'[t] = "ready" <=> e[t] = "ready"
        /\ \A t \in Tracks : entries'[t] = "none" <=> e[t] = "none"
    BY <1>5 DEF Follows
  <2>3. j \notin files /\ \A t \in files : t \in Tracks
    BY <1>1, <1>3, <2>1 DEF FileInv, TypeOK
  <2>4. \A t \in files' : entries'[t] # "none"
    BY <1>1, <1>2, <2>1, <2>2, <2>3 DEF FileInv
  <2>5. reconciled => \A t \in Tracks : t \in files' <=> e[t] = "ready"
    BY <1>1, <2>1, <2>3 DEF FileInv
  <2>6. job' # Idle => job'.track \notin files'
    <3>1. Handed(e, downloads) => reconciled
      BY DEF Handed, PinInv, SessionInv
    <3> QED BY <1>5, <2>5, <3>1 DEF Handed
  <2> QED BY <1>6, <2>2, <2>4, <2>5, <2>6 DEF FileInv
<1>11. diskFaults' <= 1 => OwnInv'
  <2>1. \A t \in Tracks : entries'[t] # "none" => entries[t] # "none"
    BY <1>2, <1>5 DEF Follows
  <2>2. \A t \in Tracks : index'[t] # "none" => Known(t)
    BY <1>2, <1>5 DEF Writes, Write, Known
  <2>3. \A t \in Tracks : entries'[t] = "ready" => e[t] = "ready"
    BY <1>5 DEF Follows
  <2>4. \A t \in Tracks :
          entries'[t] = "ready" => LibraryOf[t] = pinUser \/ entries[t] = "ready"
    BY <1>1, <2>3
  <2>5. Goes(failed)
    BY <1>6, <2>1, <2>2, <2>4 DEF Goes, PinInv, SessionInv
  <2> QED BY <1>3, <2>5, OwnKept DEF PinInv
<1> QED BY <1>7, <1>8, <1>9, <1>10, <1>11 DEF PinInv

\* A track nobody waits for is given up, with its file or without.
LEMMA AbandonKeeps ==
  ASSUME PinInv, job # Idle, NEW found, found \in {files, files \cup {job.track}},
         Abandon(found), UNCHANGED <<session, pinSwitches, pinned>>
  PROVE  PinInv'
<1>1. {"delete", "indexWrite"} \in SUBSET Kinds /\ TypeOK /\ job.track \in Tracks
  BY DEF Kinds, PinInv, JobInv
<1>2. PICK failed \in Failures({"delete", "indexWrite"}) :
        /\ Count(failed) /\ Settle(entries, failed)
        /\ files' = IF "delete" \in failed THEN found ELSE found \ {job.track}
  BY DEF Abandon
<1>3. Counts(failed)
  BY <1>1, <1>2, FailuresCount
<1>4. entries \in Entries /\ files \subseteq Tracks
  BY <1>1 DEF TypeOK
<1>5. files' \subseteq Tracks
  BY <1>1, <1>2, <1>4
<1>6. diskFaults' = 0 => files' = files
  <2>1. diskFaults' = 0 => job.track \notin files /\ failed = {}
    BY <1>3 DEF PinInv, FileInv, Counts
  <2> QED BY <1>2, <2>1
<1>7. diskFaults' <= 1 /\ diskFaults # 0 =>
        \A t \in files' : t \in files \/ LibraryOf[t] = pinUser
  <2>1. diskFaults' <= 1 /\ diskFaults # 0 => failed = {}
    BY <1>3 DEF Counts
  <2> QED BY <1>2, <2>1
<1> QED BY <1>2, <1>3, <1>4, <1>5, <1>6, <1>7, Settled

\* The download is waited for.
LEMMA SettledAsKeeps ==
  ASSUME PinInv, job # Idle, StillDownloading, NEW status \in {"ready", "failed"},
         SettledAs(status), status = "ready" => LibraryOf[job.track] = pinUser,
         files' = IF status = "ready" THEN files \cup {job.track} ELSE files,
         UNCHANGED <<session, pinSwitches, pinned>>
  PROVE  PinInv'
<1>1. {"indexWrite"} \in SUBSET Kinds /\ TypeOK /\ job.track \in Tracks
  BY DEF Kinds, PinInv, JobInv
<1>2. PICK failed \in Failures({"indexWrite"}) :
        Count(failed) /\ Settle([entries EXCEPT ![job.track] = status], failed)
  BY DEF SettledAs
<1>3. Counts(failed)
  BY <1>1, <1>2, FailuresCount
<1>4. PICK e \in Entries : e = [entries EXCEPT ![job.track] = status]
  BY <1>1 DEF TypeOK, Entries, Statuses
<1>5. e[job.track] = status /\ \A t \in Tracks \ {job.track} : e[t] = entries[t]
  BY <1>1, <1>4 DEF TypeOK, Entries
<1>6. files' \subseteq Tracks /\ entries[job.track] = "downloading"
  BY <1>1 DEF TypeOK, StillDownloading
<1>7. \A t \in files' : t \in files \/ LibraryOf[t] = pinUser
  OBVIOUS
<1>8. Settle(e, failed)
  BY <1>2, <1>4
<1> QED BY <1>3, <1>5, <1>6, <1>7, <1>8, Settled

LEMMA DownloadedKeeps ==
  ASSUME PinInv, Downloaded
  PROVE  PinInv'
<1>1. job # Idle /\ UNCHANGED <<session, pinSwitches, pinned>>
  BY DEF Downloaded, Idle
<1>2. CASE StillDownloading
  BY <1>1, <1>2, SettledAsKeeps DEF Downloaded
<1>3. CASE ~ StillDownloading
  BY <1>1, <1>3, AbandonKeeps DEF Downloaded
<1> QED BY <1>2, <1>3

\* Nothing happens but that the job goes on, or that faults are counted, or that
\* the files could not be listed.
LEMMA NothingElse ==
  ASSUME PinInv, NEW failed, Counts(failed), job' \in Jobs, job'.track = job.track,
         job # Idle \/ job' = job,
         job'.phase = "wait" => job'.attempt < MaxAttempts,
         UNCHANGED <<stock, downloads, files, session, pinsEnabled, pinned>>,
         reconciled' \in BOOLEAN, reconciled' => reconciled \/ (pinSeeded /\ failed # {}),
         reconciled => reconciled',
         unlisted' \in BOOLEAN, launches' \in 0..MaxLaunches
  PROVE  PinInv'
<1>1. /\ TypeOK
      /\ pinUser' = pinUser /\ indexOwner' = indexOwner /\ survivors' = survivors
      /\ pinSeeded' = pinSeeded /\ pinsEnabled' = pinsEnabled
      /\ entries' = entries /\ index' = index /\ pending' = pending /\ stale' = stale
  BY DEF session, stock, PinInv
<1>2. TypeOK'
  BY <1>1 DEF TypeOK, Jobs, Counts
<1>3. SavedInv'
  BY <1>1 DEF PinInv, SavedInv, Counts
<1>4. QueueInv' /\ SessionInv' /\ PinsAreKept'
  BY <1>1 DEF PinInv, QueueInv, Waiting, SessionInv, PinsAreKept
<1>5. JobInv'
  BY <1>1 DEF PinInv, JobInv
<1>6. diskFaults' = 0 => FileInv'
  <2>1. diskFaults' = 0 => FileInv /\ (reconciled' <=> reconciled)
    BY <1>1 DEF PinInv, Counts, TypeOK
  <2> QED BY <1>1, <2>1 DEF FileInv
<1>7. diskFaults' <= 1 => OwnInv'
  <2>1. reconciled' => pinSeeded
    BY DEF PinInv, SessionInv
  <2>2. Goes(failed)
    BY <1>1, <2>1 DEF Goes, Known
  <2> QED BY <1>1, <2>2, OwnKept DEF PinInv
<1> QED BY <1>2, <1>3, <1>4, <1>5, <1>6, <1>7 DEF PinInv

LEMMA JobGoesOn ==
  ASSUME PinInv, job # Idle, NEW a \in 0..MaxAttempts, NEW p \in {"fetch", "wait"},
         p = "wait" => a < MaxAttempts,
         job' = [job EXCEPT !.attempt = a, !.phase = p],
         UNCHANGED <<stock, downloads, files, diskFaults>>,
         UNCHANGED <<session, pinSwitches, pinned>>
  PROVE  PinInv'
<1>1. /\ TypeOK /\ pinsEnabled' = pinsEnabled /\ reconciled' = reconciled
      /\ unlisted' = unlisted /\ launches' = launches
  BY DEF pinSwitches, PinInv
<1>2. job \in Jobs
  BY <1>1 DEF TypeOK, Jobs
<1>3. /\ job' \in Jobs /\ job'.track = job.track
      /\ job'.phase = p /\ job'.attempt = a
  BY <1>2 DEF Jobs
<1>4. Counts({}) /\ reconciled \in BOOLEAN /\ unlisted \in BOOLEAN /\ launches \in 0..MaxLaunches
  BY <1>1, NothingFailed DEF TypeOK
<1> QED BY <1>1, <1>3, <1>4, NothingElse

LEMMA AttemptFailsKeeps ==
  ASSUME PinInv, AttemptFails
  PROVE  PinInv'
<1>1. job # Idle /\ UNCHANGED <<session, pinSwitches, pinned>>
  BY DEF AttemptFails, Idle
<1>2. TypeOK
  BY <1>1 DEF PinInv
<1>3. CASE StillDownloading /\ SettledAs("failed") /\ UNCHANGED files
  BY <1>1, <1>3, SettledAsKeeps
<1>4. CASE ~ StillDownloading /\ Abandon(files)
  BY <1>1, <1>4, AbandonKeeps
<1>5. CASE /\ job.attempt < MaxAttempts /\ job' = [job EXCEPT !.phase = "wait"]
           /\ UNCHANGED <<stock, downloads, files, diskFaults>>
  <2>1. job' = [job EXCEPT !.attempt = job.attempt, !.phase = "wait"]
    BY <1>2, <1>5 DEF TypeOK
  <2>2. job.attempt \in 0..MaxAttempts
    BY <1>2 DEF TypeOK
  <2> QED BY <1>1, <1>5, <2>1, <2>2, JobGoesOn
<1> QED BY <1>3, <1>4, <1>5 DEF AttemptFails

LEMMA RetryDueKeeps ==
  ASSUME PinInv, RetryDue
  PROVE  PinInv'
<1>1. job # Idle /\ UNCHANGED <<session, pinSwitches, pinned>> /\ job.phase = "wait"
  BY DEF RetryDue, Idle
<1>2. TypeOK /\ job.attempt < MaxAttempts
  BY <1>1 DEF PinInv, JobInv
<1>3. CASE StillDownloading
  <2>1. job.attempt + 1 \in 0..MaxAttempts
    BY <1>2, PinnedAssumption DEF TypeOK
  <2>2. /\ job' = [job EXCEPT !.attempt = job.attempt + 1, !.phase = "fetch"]
        /\ UNCHANGED <<stock, downloads, files, diskFaults>>
    BY <1>3 DEF RetryDue
  <2> QED BY <1>1, <2>1, <2>2, JobGoesOn
<1>4. CASE ~ StillDownloading
  BY <1>1, <1>4, AbandonKeeps DEF RetryDue
<1> QED BY <1>3, <1>4

LEMMA FlushIndexKeeps ==
  ASSUME PinInv, FlushIndex
  PROVE  PinInv'
<1>1. /\ pinUser' = pinUser /\ indexOwner' = indexOwner /\ survivors' = survivors
      /\ pinSeeded' = pinSeeded /\ pinsEnabled' = pinsEnabled /\ reconciled' = reconciled
      /\ launches' = launches /\ pinned' = pinned /\ entries' = entries
      /\ downloads' = downloads /\ job' = job /\ files' = files /\ unlisted' = unlisted
      /\ UNCHANGED session
  BY DEF FlushIndex, session, pinSwitches
<1>2. TypeOK /\ pending' = Unsaved /\ pending = entries /\ {"indexWrite"} \in SUBSET Kinds
  BY DEF FlushIndex, PinInv, SavedInv, Kinds
<1>3. PICK failed \in Failures({"indexWrite"}) :
        Count(failed) /\ Write(entries, index, failed)
  BY <1>2 DEF FlushIndex
<1>4. Counts(failed)
  BY <1>2, <1>3, FailuresCount
<1>5. TypeOK'
  <2>1. index' \in Entries /\ stale' \in BOOLEAN
    BY <1>2, <1>3 DEF TypeOK, Write
  <2> QED BY <1>1, <1>2, <1>4, <2>1 DEF TypeOK, Counts
<1>6. SavedInv'
  BY <1>1, <1>2, <1>3, <1>4 DEF SavedInv, Write, Counts
<1>7. QueueInv' /\ JobInv' /\ SessionInv' /\ PinsAreKept'
  BY <1>1 DEF PinInv, QueueInv, Waiting, JobInv, SessionInv, PinsAreKept
<1>8. diskFaults' = 0 => FileInv'
  BY <1>1, <1>4 DEF PinInv, FileInv, Counts
<1>9. diskFaults' <= 1 => OwnInv'
  <2>1. \A t \in Tracks : index'[t] # "none" => Known(t)
    BY <1>3 DEF Write, Known
  <2>2. Goes(failed)
    BY <1>1, <2>1 DEF Goes, PinInv, SessionInv
  <2> QED BY <1>1, <1>2, <1>4, <2>2, OwnKept DEF PinInv
<1> QED BY <1>5, <1>6, <1>7, <1>8, <1>9 DEF PinInv

-----------------------------------------------------------------------------
(* The user's actions                                                      *)

\* The faults of the actions that delete.
DeleteKinds == {"delete", "list", "indexWrite"}

\* What is left of a delete was on the device, and is left for a fault; without
\* one the files are gone.
LEMMA Deleted ==
  ASSUME TypeOK, NEW failed, Counts(failed), NEW gone \in SUBSET Tracks,
         NEW stuck \in Left(gone, failed), Delete(gone, stuck, failed)
  PROVE  /\ files' \subseteq files /\ stuck \subseteq gone \cap files
         /\ stuck # {} => "delete" \in failed /\ "list" \notin failed /\ failed # {}
         /\ stuck = {} => "delete" \notin failed
         /\ "list" \notin failed => files' = files \ (gone \ stuck)
         /\ diskFaults' = 0 => files' = files \ gone /\ stuck = {}
<1>1. stuck \subseteq gone \cap files /\ (stuck = {} <=> "delete" \notin failed)
  BY DEF Left
<1>2. IF "list" \in failed THEN stuck = {} /\ files' = files ELSE files' = files \ (gone \ stuck)
  BY DEF Delete
<1>3. diskFaults' = 0 => failed = {}
  BY DEF Counts
<1>4. files' \subseteq files
  BY <1>2
<1>5. diskFaults' = 0 => files' = files \ gone /\ stuck = {}
  <2>1. diskFaults' = 0 => stuck = {} /\ files' = files \ (gone \ stuck)
    BY <1>1, <1>2, <1>3
  <2> QED BY <2>1
<1> QED BY <1>1, <1>2, <1>4, <1>5

\* A store that was reconciled is given new entries and a new queue, and the
\* worker goes to its queue if it was idle.
LEMMA Taken ==
  ASSUME PinInv, NEW e \in Entries, NEW q \in Seq(Tracks), Waiting(e, q),
         NEW old \in Entries, NEW failed, Counts(failed), Take(e, q, old, failed),
         \A t \in Tracks : old[t] # "none" => Known(t),
         \A t \in Tracks : e[t] # "none" => entries[t] # "none" \/ LibraryOf[t] = pinUser,
         \A t \in Tracks : e[t] = "ready" =>
           entries[t] # "none" /\ (t \in files \/ (reconciled /\ entries[t] = "ready")),
         pinSeeded, reconciled', launches' \in 0..MaxLaunches,
         files' \subseteq files,
         diskFaults' = 0 => \A t \in Tracks : t \in files' <=> e[t] = "ready",
         pinned' \subseteq Tracks, \A t \in pinned' : e[t] # "none",
         reconciled' \in BOOLEAN, unlisted' \in BOOLEAN, UNCHANGED <<session, pinsEnabled>>
  PROVE  PinInv'
<1>1. TypeOK
  BY DEF PinInv
<1>2. Follows(e, q) /\ Write(e, old, failed) /\ (job' = job \/ Handed(e, q))
  BY <1>1, TakeFollows
<1>3. /\ pinUser' = pinUser /\ indexOwner' = indexOwner /\ survivors' = survivors
      /\ pinSeeded' = pinSeeded /\ pinsEnabled' = pinsEnabled
  BY DEF session
<1>4. TypeOK'
  <2>1. index' \in Entries /\ stale' \in BOOLEAN
    <3>1. Write(e, old, failed)
      BY <1>2
    <3>2. index' \in {e, old}
      BY <3>1 DEF Write
    <3>3. (stale' = TRUE) \/ (stale' = FALSE)
      BY <3>1 DEF Write
    <3> QED BY <3>2, <3>3
  <2>2. /\ entries' \in Entries /\ pending' \in Entries \cup {Unsaved}
        /\ downloads' \in Seq(Tracks) /\ job' \in Jobs
    BY <1>2 DEF Follows
  <2>3. files' \subseteq Tracks /\ survivors' \subseteq Tracks
    BY <1>1, <1>3 DEF TypeOK
  <2>4. /\ indexOwner' \in Owners \cup {NoUser} /\ pinUser' \in Owners \cup {NoUser}
        /\ pinSeeded' \in BOOLEAN /\ pinsEnabled' \in BOOLEAN
    BY <1>1, <1>3 DEF TypeOK
  <2>5. diskFaults' \in 0..MaxDiskFaults
    BY DEF Counts
  <2> QED BY <2>1, <2>2, <2>3, <2>4, <2>5 DEF TypeOK, Jobs
<1>5. SavedInv'
  BY <1>2, SavedFollows DEF PinInv
<1>6. QueueInv'
  BY <1>2 DEF Follows, QueueInv
<1>7. JobInv'
  BY <1>2 DEF PinInv, JobInv, Handed
<1>8. SessionInv'
  BY <1>3 DEF PinInv, SessionInv
<1>9. PinsAreKept'
  BY <1>2 DEF PinsAreKept, Follows
<1>10. diskFaults' = 0 => FileInv'
  <2> SUFFICES ASSUME diskFaults' = 0 PROVE FileInv'
    OBVIOUS
  <2>1. FileInv
    BY DEF PinInv, Counts
  <2>2. \A t \in Tracks : entries'[t] = "ready" <=> e[t] = "ready"
    BY <1>2 DEF Follows
  <2>3. \A t \in Tracks : t \in files' <=> entries'[t] = "ready"
    BY <2>2
  <2>4. \A t \in files' : entries'[t] # "none"
    BY <1>1, <2>3 DEF TypeOK
  <2>5. job' # Idle => job'.track \notin files'
    BY <1>2, <2>1 DEF FileInv, Handed
  <2> QED BY <2>3, <2>4, <2>5 DEF FileInv
<1>11. diskFaults' <= 1 => OwnInv'
  <2>1. \A t \in Tracks : entries'[t] # "none" => e[t] # "none"
    BY <1>2 DEF Follows
  <2>2. \A t \in Tracks : index'[t] # "none" => Known(t) \/ LibraryOf[t] = pinUser
    BY <1>2 DEF Write, Known
  <2>3. \A t \in Tracks : entries'[t] = "ready" => e[t] = "ready"
    BY <1>2 DEF Follows
  <2>4. Goes(failed)
    BY <2>1, <2>2, <2>3 DEF Goes
  <2>5. UNCHANGED session
    OBVIOUS
  <2> QED BY <1>1, <2>4, <2>5, OwnKept DEF PinInv
<1> QED BY <1>4, <1>5, <1>6, <1>7, <1>8, <1>9, <1>10, <1>11 DEF PinInv

\* A track is queued: it is of the user's library, and its file is deleted.
LEMMA TrackQueued ==
  ASSUME PinInv, NEW t \in Tracks, reconciled, pinUser = LibraryOf[t],
         NEW d \in Entries, NEW r \in Seq(Tracks), Waiting(d, r), d[t] # "queued",
         \A u \in Tracks \ {t} : d[u] = entries[u], d[t] # "none" => entries[t] # "none",
         NEW old \in {index, d}, NEW failed, Counts(failed),
         Take([d EXCEPT ![t] = "queued"], Append(r, t), old, failed),
         files' \subseteq files, diskFaults' = 0 => files' = files \ {t},
         pinned' \in {pinned, pinned \cup {t}}, launches' \in 0..MaxLaunches,
         UNCHANGED <<session, pinsEnabled, reconciled, unlisted>>
  PROVE  PinInv'
<1>1. /\ TypeOK /\ pinSeeded /\ pinned \subseteq Tracks /\ PinsAreKept
      /\ old \in Entries /\ reconciled' /\ reconciled' \in BOOLEAN /\ unlisted' \in BOOLEAN
  BY DEF PinInv, TypeOK, SessionInv
<1>2. PICK e \in Entries : e = [d EXCEPT ![t] = "queued"]
  BY AppendWaits
<1>3. PICK q \in Seq(Tracks) : q = Append(r, t)
  BY AppendWaits
<1>4. Waiting(e, q) /\ Take(e, q, old, failed)
  BY <1>2, <1>3, AppendWaits
<1>5. e[t] = "queued" /\ \A u \in Tracks \ {t} : e[u] = entries[u]
  BY <1>2 DEF Entries
<1>6. \A u \in Tracks : e[u] # "none" => entries[u] # "none" \/ LibraryOf[u] = pinUser
  BY <1>5
<1>7. \A u \in Tracks : e[u] = "ready" => reconciled /\ entries[u] = "ready"
  BY <1>5
<1>8. \A u \in Tracks : old[u] # "none" => Known(u)
  BY DEF Known
<1>9. diskFaults' = 0 => \A u \in Tracks : u \in files' <=> e[u] = "ready"
  BY <1>5 DEF PinInv, FileInv, Counts
<1>10. pinned' \subseteq Tracks /\ \A u \in pinned' : e[u] # "none"
  BY <1>1, <1>5 DEF PinsAreKept
<1>11. UNCHANGED <<session, pinsEnabled>>
  OBVIOUS
<1> QED BY <1>1, <1>4, <1>6, <1>7, <1>8, <1>9, <1>10, <1>11, Taken

LEMMA PinKeeps ==
  ASSUME PinInv, NEW t \in Tracks, Pin(t)
  PROVE  PinInv'
<1>1. /\ reconciled /\ pinUser = LibraryOf[t] /\ entries[t] \in {"none", "failed"}
      /\ pinned' = pinned \cup {t} /\ files' = files
      /\ UNCHANGED <<session, pinsEnabled, reconciled, unlisted, launches>>
  BY DEF Pin, pinSwitches
<1>2. PICK failed \in Failures({"indexWrite"}) :
        /\ Count(failed)
        /\ Take([entries EXCEPT ![t] = "queued"], Append(downloads, t), index, failed)
  BY DEF Pin
<1>3. /\ TypeOK /\ downloads \in Seq(Tracks) /\ entries \in Entries
      /\ Waiting(entries, downloads) /\ {"indexWrite"} \in SUBSET Kinds
      /\ launches' \in 0..MaxLaunches
  BY <1>1 DEF PinInv, TypeOK, QueueInv, Kinds
<1>4. Counts(failed)
  BY <1>2, <1>3, FailuresCount
<1>5. diskFaults' = 0 => files' = files \ {t}
  BY <1>1, <1>4 DEF PinInv, FileInv, Counts
<1> QED BY <1>1, <1>2, <1>3, <1>4, <1>5, TrackQueued

\* A file that could not be deleted stays, and so does all else.
LEMMA StuckKeeps ==
  ASSUME PinInv, NEW failed, Counts(failed), NEW t, NEW stuck \in Left({t}, failed),
         Delete({t}, stuck, failed), stuck # {}, launches' \in 0..MaxLaunches,
         UNCHANGED <<stock, downloads, job, session, pinsEnabled, pinned>>,
         UNCHANGED <<reconciled, unlisted>>
  PROVE  PinInv'
<1>1. /\ TypeOK /\ files' = files /\ failed # {}
  BY DEF PinInv, Left, Delete
<1>2. job' \in Jobs /\ reconciled \in BOOLEAN /\ unlisted \in BOOLEAN
      /\ (job.phase = "wait" => job.attempt < MaxAttempts)
  BY <1>1 DEF TypeOK, Jobs, PinInv, JobInv
<1> QED BY <1>1, <1>2, NothingElse

\* Tracks are taken out of the store, of the queue and off the device.
LEMMA Dropped ==
  ASSUME PinInv, reconciled, NEW gone \in SUBSET Tracks,
         entries' = [t \in Tracks |-> IF t \in gone THEN "none" ELSE entries[t]],
         pending' \in {entries', Unsaved}, NEW failed, Counts(failed),
         Writes(entries', failed),
         downloads' \in Seq(Tracks), Waiting(entries', downloads'),
         pinned' = pinned \ gone, files' \subseteq files,
         diskFaults' = 0 => files' = files \ gone,
         job' = job \/ job' = Idle, launches' \in 0..MaxLaunches,
         UNCHANGED <<session, pinsEnabled, reconciled, unlisted>>
  PROVE  PinInv'
<1>1. /\ pinUser' = pinUser /\ indexOwner' = indexOwner /\ survivors' = survivors
      /\ pinSeeded' = pinSeeded /\ pinsEnabled' = pinsEnabled /\ reconciled' = reconciled
      /\ unlisted' = unlisted /\ TypeOK /\ Idle \in Jobs
  BY PinnedAssumption DEF session, PinInv, Idle, Jobs
<1>2. /\ \A t \in gone : entries'[t] = "none"
      /\ \A t \in Tracks \ gone : entries'[t] = entries[t]
  OBVIOUS
<1>3. entries' \in Entries
  BY <1>1 DEF TypeOK, Entries, Statuses
<1>4. TypeOK'
  <2>1. index' \in Entries /\ stale' \in BOOLEAN
    BY <1>1, <1>3 DEF TypeOK, Writes, Write
  <2>2. pending' \in Entries \cup {Unsaved}
    BY <1>3
  <2>3. job' \in Jobs
    BY <1>1 DEF TypeOK, Jobs
  <2>4. files' \subseteq Tracks /\ pinned' \subseteq Tracks
    BY <1>1 DEF TypeOK
  <2> QED BY <1>1, <1>3, <2>1, <2>2, <2>3, <2>4 DEF TypeOK, Jobs, Counts
<1>5. SavedInv'
  <2>1. stale' => diskFaults' # 0
    BY DEF PinInv, SavedInv, Writes, Write, Counts
  <2>2. ~ stale' => \A t \in Tracks : entries'[t] # "none" => index'[t] # "none"
    BY <1>2 DEF PinInv, SavedInv, Writes, Write
  <2> QED BY <2>1, <2>2 DEF SavedInv
<1>6. QueueInv' /\ JobInv' /\ SessionInv'
  BY <1>1 DEF PinInv, QueueInv, JobInv, SessionInv, Idle
<1>7. PinsAreKept'
  BY <1>1, <1>2 DEF PinInv, PinsAreKept, TypeOK
<1>8. diskFaults' = 0 => FileInv'
  <2>1. diskFaults' = 0 => FileInv
    BY DEF PinInv, Counts
  <2> QED BY <1>1, <1>2, <2>1 DEF FileInv, TypeOK
<1>9. diskFaults' <= 1 => OwnInv'
  <2>1. \A t \in Tracks : index'[t] # "none" => Known(t)
    BY <1>2 DEF Writes, Write, Known
  <2>2. Goes(failed)
    BY <1>1, <1>2, <2>1 DEF Goes, PinInv, SessionInv
  <2>3. UNCHANGED session
    OBVIOUS
  <2> QED BY <1>1, <2>2, <2>3, OwnKept DEF PinInv
<1> QED BY <1>4, <1>5, <1>6, <1>7, <1>8, <1>9 DEF PinInv

\* One track is taken out of the store.
LEMMA TrackDropped ==
  ASSUME PinInv, reconciled, NEW t \in Tracks, NEW failed, Counts(failed),
         Save([entries EXCEPT ![t] = "none"], failed),
         downloads' = Without(downloads, {t}), pinned' = pinned \ {t},
         files' \subseteq files, diskFaults' = 0 => files' = files \ {t},
         launches' \in 0..MaxLaunches,
         UNCHANGED <<job, session, pinsEnabled, reconciled, unlisted>>
  PROVE  PinInv'
<1>1. TypeOK /\ entries \in Entries /\ downloads \in Seq(Tracks) /\ Waiting(entries, downloads)
  BY DEF PinInv, TypeOK, QueueInv
<1>2. /\ entries' = [entries EXCEPT ![t] = "none"] /\ pending' = Unsaved
      /\ Writes(entries', failed)
  BY DEF Save, Writes
<1>3. entries' = [u \in Tracks |-> IF u \in {t} THEN "none" ELSE entries[u]]
  BY <1>1, <1>2 DEF Entries
<1>4. \A u \in Tracks \ {t} : entries'[u] = entries[u]
  BY <1>3
<1>5. downloads' \in Seq(Tracks) /\ Waiting(entries', downloads')
  BY <1>1, <1>4, OthersWait
<1>6. {t} \in SUBSET Tracks
  OBVIOUS
<1> QED BY <1>2, <1>3, <1>5, <1>6, Dropped

LEMMA UnpinKeeps ==
  ASSUME PinInv, NEW t \in Tracks, Unpin(t)
  PROVE  PinInv'
<1>1. /\ reconciled /\ TypeOK /\ DeleteKinds \in SUBSET Kinds /\ {t} \in SUBSET Tracks
      /\ UNCHANGED <<job, session, pinsEnabled, reconciled, unlisted, launches>>
      /\ launches' \in 0..MaxLaunches
  BY DEF Unpin, PinInv, TypeOK, DeleteKinds, Kinds, pinSwitches
<1>2. PICK failed \in Failures(DeleteKinds) : \E stuck \in Left({t}, failed) :
        /\ Count(failed)
        /\ Delete({t}, stuck, failed)
        /\ IF stuck # {} /\ entries[t] = "ready"
           THEN UNCHANGED <<stock, downloads, pinned>>
           ELSE /\ Save([entries EXCEPT ![t] = "none"], failed)
                /\ downloads' = Without(downloads, {t})
                /\ pinned' = pinned \ {t}
  BY DEF Unpin, DeleteKinds
<1>3. PICK stuck \in Left({t}, failed) :
        /\ Count(failed)
        /\ Delete({t}, stuck, failed)
        /\ IF stuck # {} /\ entries[t] = "ready"
           THEN UNCHANGED <<stock, downloads, pinned>>
           ELSE /\ Save([entries EXCEPT ![t] = "none"], failed)
                /\ downloads' = Without(downloads, {t})
                /\ pinned' = pinned \ {t}
  BY <1>2
<1>4. Counts(failed)
  BY <1>1, <1>3, FailuresCount
<1>5. CASE stuck # {} /\ entries[t] = "ready"
  BY <1>1, <1>3, <1>4, <1>5, StuckKeeps
<1>6. CASE ~ (stuck # {} /\ entries[t] = "ready")
  <2>1. files' \subseteq files /\ (diskFaults' = 0 => files' = files \ {t})
    BY <1>1, <1>3, <1>4, Deleted
  <2> QED BY <1>1, <1>3, <1>4, <1>6, <2>1, TrackDropped
<1> QED BY <1>5, <1>6

LEMMA UnpinChunkKeeps ==
  ASSUME PinInv, NEW chunk \in SUBSET Tracks, UnpinChunk(chunk)
  PROVE  PinInv'
<1>1. /\ reconciled /\ TypeOK /\ {"delete", "list"} \in SUBSET Kinds
      /\ UNCHANGED <<job, session, pinsEnabled, reconciled, unlisted, launches>>
      /\ launches' \in 0..MaxLaunches
  BY DEF UnpinChunk, PinInv, TypeOK, Kinds, pinSwitches
<1>2. PICK failed \in Failures({"delete", "list"}) : \E stuck \in Left(chunk, failed) :
        LET left == IF "list" \in failed THEN chunk ELSE stuck
            kept == {t \in left : entries[t] = "ready"}
        IN
        /\ Count(failed)
        /\ Delete(chunk, stuck, failed)
        /\ Later([t \in Tracks |-> IF t \in chunk \ kept THEN "none" ELSE entries[t]])
        /\ downloads' = Without(downloads, chunk \ kept)
        /\ pinned' = pinned \ (chunk \ kept)
  BY DEF UnpinChunk
<1>3. PICK stuck \in Left(chunk, failed) : \E gone \in SUBSET chunk :
        /\ Count(failed) /\ Delete(chunk, stuck, failed)
        /\ "list" \notin failed /\ stuck = {} => gone = chunk
        /\ Later([t \in Tracks |-> IF t \in gone THEN "none" ELSE entries[t]])
        /\ downloads' = Without(downloads, gone)
        /\ pinned' = pinned \ gone
  <2>1. PICK stuck \in Left(chunk, failed) :
          LET left == IF "list" \in failed THEN chunk ELSE stuck
              kept == {t \in left : entries[t] = "ready"}
          IN
          /\ Count(failed)
          /\ Delete(chunk, stuck, failed)
          /\ Later([t \in Tracks |-> IF t \in chunk \ kept THEN "none" ELSE entries[t]])
          /\ downloads' = Without(downloads, chunk \ kept)
          /\ pinned' = pinned \ (chunk \ kept)
    BY <1>2
  <2>2. PICK gone \in SUBSET chunk :
          gone = chunk \ {t \in IF "list" \in failed THEN chunk ELSE stuck : entries[t] = "ready"}
    OBVIOUS
  <2>3. "list" \notin failed /\ stuck = {} => gone = chunk
    BY <2>2
  <2>4. /\ Later([t \in Tracks |-> IF t \in gone THEN "none" ELSE entries[t]])
        /\ downloads' = Without(downloads, gone)
        /\ pinned' = pinned \ gone
    BY <2>1, <2>2
  <2> QED BY <2>1, <2>3, <2>4
<1>4. PICK gone \in SUBSET chunk :
        /\ Count(failed) /\ Delete(chunk, stuck, failed)
        /\ "list" \notin failed /\ stuck = {} => gone = chunk
        /\ Later([t \in Tracks |-> IF t \in gone THEN "none" ELSE entries[t]])
        /\ downloads' = Without(downloads, gone)
        /\ pinned' = pinned \ gone
  BY <1>3
<1>5. Counts(failed)
  BY <1>1, <1>4, FailuresCount
<1>6. files' \subseteq files /\ (diskFaults' = 0 => files' = files \ gone)
  <2>1. files' \subseteq files
        /\ (diskFaults' = 0 => files' = files \ chunk /\ stuck = {} /\ failed = {})
    BY <1>1, <1>4, <1>5, Deleted DEF Counts
  <2> QED BY <1>4, <2>1
<1>7. /\ entries' = [t \in Tracks |-> IF t \in gone THEN "none" ELSE entries[t]]
      /\ pending' = entries' /\ Writes(entries', failed)
  BY <1>4 DEF Later, Writes
<1>8. downloads' \in Seq(Tracks) /\ Waiting(entries', downloads')
  <2>1. downloads \in Seq(Tracks) /\ Waiting(entries, downloads)
    BY <1>1 DEF TypeOK, PinInv, QueueInv
  <2>2. \A t \in Tracks \ gone : entries'[t] = entries[t]
    BY <1>7
  <2> QED BY <1>4, <2>1, <2>2, OthersWait
<1>9. gone \in SUBSET Tracks
  OBVIOUS
<1> QED BY <1>1, <1>4, <1>5, <1>6, <1>7, <1>8, <1>9, Dropped

LEMMA UnpinAllKeeps ==
  ASSUME PinInv, UnpinAll
  PROVE  PinInv'
<1>1. /\ reconciled /\ TypeOK /\ DeleteKinds \in SUBSET Kinds /\ files \in SUBSET Tracks
      /\ UNCHANGED <<job, session, pinsEnabled, reconciled, unlisted, launches>>
      /\ launches' \in 0..MaxLaunches /\ downloads' = <<>> /\ pinned \subseteq Tracks
  BY DEF UnpinAll, PinInv, TypeOK, DeleteKinds, Kinds, pinSwitches
<1>2. PICK failed \in Failures(DeleteKinds) : \E stuck \in Left(files, failed) :
        /\ Count(failed)
        /\ Delete(files, stuck, failed)
        /\ Save(ReadyAnd(stuck), failed)
        /\ pinned' = {t \in pinned : ReadyAnd(stuck)[t] # "none"}
  BY DEF UnpinAll, DeleteKinds
<1>3. PICK stuck \in Left(files, failed) :
        /\ Count(failed)
        /\ Delete(files, stuck, failed)
        /\ Save(ReadyAnd(stuck), failed)
        /\ pinned' = {t \in pinned : ReadyAnd(stuck)[t] # "none"}
  BY <1>2
<1>4. Counts(failed)
  BY <1>1, <1>3, FailuresCount
<1>5. PICK gone \in SUBSET Tracks :
        gone = {t \in Tracks : ~ (t \in stuck /\ entries[t] = "ready")}
  OBVIOUS
<1>6. \A t \in Tracks : ReadyAnd(stuck)[t] = IF t \in gone THEN "none" ELSE entries[t]
  BY <1>5 DEF ReadyAnd
<1>7. ReadyAnd(stuck) = [t \in Tracks |-> IF t \in gone THEN "none" ELSE entries[t]]
  BY <1>6 DEF ReadyAnd
<1>8. pinned' = pinned \ gone
  <2>1. \A t \in pinned : ReadyAnd(stuck)[t] # "none" <=> t \notin gone
    BY <1>1, <1>5 DEF ReadyAnd
  <2> QED BY <1>3, <2>1
<1>9. files' \subseteq files /\ (diskFaults' = 0 => files' = files \ gone)
  <2>1. files' \subseteq files /\ (diskFaults' = 0 => files' = files \ files /\ stuck = {})
    BY <1>1, <1>3, <1>4, Deleted
  <2> QED BY <1>1, <1>5, <2>1
<1>10. /\ entries' = [t \in Tracks |-> IF t \in gone THEN "none" ELSE entries[t]]
       /\ pending' = Unsaved /\ Writes(entries', failed)
  BY <1>3, <1>7 DEF Save, Writes
<1>11. downloads' \in Seq(Tracks) /\ Waiting(entries', downloads')
  BY <1>1 DEF Waiting
<1> QED BY <1>1, <1>4, <1>8, <1>9, <1>10, <1>11, Dropped

LEMMA RepinKeeps ==
  ASSUME PinInv, NEW t \in Tracks, Repin(t)
  PROVE  PinInv'
<1>1. /\ reconciled /\ pinUser = LibraryOf[t] /\ TypeOK /\ DeleteKinds \in SUBSET Kinds
      /\ UNCHANGED <<session, pinsEnabled, reconciled, unlisted>> /\ {t} \in SUBSET Tracks
  BY DEF Repin, PinInv, DeleteKinds, Kinds
<1>2. launches' \in 0..MaxLaunches
  BY <1>1, PinnedAssumption DEF Repin, TypeOK
<1>3. PICK gone \in Entries, left \in Seq(Tracks) :
        /\ gone = [entries EXCEPT ![t] = "none"] /\ left = Without(downloads, {t})
        /\ Waiting(gone, left)
  <2>1. entries \in Entries /\ downloads \in Seq(Tracks) /\ Waiting(entries, downloads)
    BY <1>1 DEF PinInv, TypeOK, QueueInv
  <2>2. PICK gone \in Entries : gone = [entries EXCEPT ![t] = "none"]
    BY <2>1 DEF Entries, Statuses
  <2>3. \A u \in Tracks \ {t} : gone[u] = entries[u]
    BY <2>1, <2>2 DEF Entries
  <2>4. Without(downloads, {t}) \in Seq(Tracks) /\ Waiting(gone, Without(downloads, {t}))
    BY <2>1, <2>3, OthersWait
  <2> QED BY <2>2, <2>4
<1>4. PICK failed \in Failures(DeleteKinds) : \E stuck \in Left({t}, failed) :
        /\ Count(failed)
        /\ Delete({t}, stuck, failed)
        /\ \/ stuck # {} /\ UNCHANGED <<stock, downloads, job, pinned>>
           \/ /\ \E old \in {index, gone} :
                   Take([gone EXCEPT ![t] = "queued"], Append(left, t), old, failed)
              /\ UNCHANGED pinned
           \/ /\ Save(gone, failed) /\ downloads' = left /\ UNCHANGED job
              /\ pinned' = pinned \ {t}
  BY <1>3 DEF Repin, DeleteKinds
<1>5. PICK stuck \in Left({t}, failed) :
        /\ Count(failed)
        /\ Delete({t}, stuck, failed)
        /\ \/ stuck # {} /\ UNCHANGED <<stock, downloads, job, pinned>>
           \/ /\ \E old \in {index, gone} :
                   Take([gone EXCEPT ![t] = "queued"], Append(left, t), old, failed)
              /\ UNCHANGED pinned
           \/ /\ Save(gone, failed) /\ downloads' = left /\ UNCHANGED job
              /\ pinned' = pinned \ {t}
  BY <1>4
<1>6. Counts(failed)
  BY <1>1, <1>5, FailuresCount
<1>7. files' \subseteq files /\ (diskFaults' = 0 => files' = files \ {t})
  BY <1>1, <1>5, <1>6, Deleted
<1>8. CASE stuck # {} /\ UNCHANGED <<stock, downloads, job, pinned>>
  BY <1>1, <1>2, <1>5, <1>6, <1>8, StuckKeeps
<1>9. ASSUME NEW old \in {index, gone}, UNCHANGED pinned,
             Take([gone EXCEPT ![t] = "queued"], Append(left, t), old, failed)
      PROVE  PinInv'
  <2>1. gone[t] = "none" /\ \A u \in Tracks \ {t} : gone[u] = entries[u]
    BY <1>1, <1>3 DEF Entries, TypeOK
  <2> QED BY <1>1, <1>2, <1>3, <1>6, <1>7, <1>9, <2>1, TrackQueued
<1>10. CASE /\ Save(gone, failed) /\ downloads' = left /\ UNCHANGED job
            /\ pinned' = pinned \ {t}
  BY <1>1, <1>2, <1>3, <1>6, <1>7, <1>10, TrackDropped
<1> QED BY <1>5, <1>8, <1>9, <1>10

LEMMA ReconcileKeeps ==
  ASSUME PinInv, Reconcile
  PROVE  PinInv'
<1>1. /\ pinSeeded /\ reconciled' = TRUE /\ TypeOK
      /\ files' = files /\ UNCHANGED <<session, pinsEnabled>>
      /\ {"list"} \in SUBSET Kinds /\ {"indexWrite"} \in SUBSET Kinds
  BY DEF Reconcile, PinInv, Kinds
<1>2. launches' \in 0..MaxLaunches
  BY <1>1, PinnedAssumption DEF Reconcile, TypeOK
<1>3. CASE /\ {"list"} \in Failures({"list"}) /\ Count({"list"})
           /\ unlisted' = TRUE
           /\ UNCHANGED <<stock, downloads, job, pinned>>
  <2>1. Counts({"list"})
    BY <1>1, <1>3, FailuresCount
  <2>2. job' \in Jobs /\ (job.phase = "wait" => job.attempt < MaxAttempts) /\ {"list"} # {}
    BY <1>1, <1>3 DEF TypeOK, Jobs, PinInv, JobInv
  <2> QED BY <1>1, <1>2, <1>3, <2>1, <2>2, NothingElse
<1>4. ASSUME NEW failed \in Failures({"indexWrite"}), Count(failed), unlisted' = FALSE,
             Take(Reconciled, SetToSeq({t \in Tracks : Reconciled[t] = "queued"}), index, failed),
             pinned' = {t \in pinned : t \in files \/ entries[t] \notin {"ready", "failed"}}
      PROVE  PinInv'
  <2>1. PICK e \in Entries : e = Reconciled
    BY <1>1 DEF TypeOK, Entries, Reconciled, Statuses
  <2>2. \A t \in Tracks : e[t] = IF entries[t] = "none" THEN "none"
                               ELSE IF t \in files THEN "ready"
                               ELSE IF entries[t] \in {"queued", "downloading"} THEN "queued"
                               ELSE "none"
    BY <2>1 DEF Reconciled
  <2>3. PICK q \in Seq(Tracks) : q = SetToSeq({t \in Tracks : Reconciled[t] = "queued"})
                               /\ Waiting(e, q)
    BY <2>1, SetWaits
  <2>4. Take(e, q, index, failed)
    BY <1>4, <2>1, <2>3
  <2>5. /\ \A t \in Tracks : e[t] # "none" => entries[t] # "none"
        /\ \A t \in Tracks : e[t] = "ready" => entries[t] # "none" /\ t \in files
        /\ \A t \in Tracks : index[t] # "none" => Known(t)
    BY <2>2 DEF Known
  <2>6. Counts(failed) /\ index \in Entries /\ reconciled' \in BOOLEAN /\ unlisted' \in BOOLEAN
    BY <1>1, <1>4, FailuresCount DEF TypeOK
  <2>7. diskFaults' = 0 => \A t \in Tracks : t \in files' <=> e[t] = "ready"
    BY <1>1, <2>2, <2>6 DEF PinInv, FileInv, Counts
  <2>8. \A t \in pinned' : t \in Tracks /\ e[t] # "none"
    <3> TAKE t \in pinned'
    <3>1. t \in pinned /\ (t \in files \/ entries[t] \notin {"ready", "failed"})
      BY <1>4
    <3>2. t \in Tracks /\ entries[t] # "none"
      BY <1>1, <3>1 DEF PinInv, PinsAreKept, TypeOK
    <3>3. entries[t] \in Statuses
      BY <1>1, <3>2 DEF TypeOK, Entries
    <3> QED BY <2>2, <3>1, <3>2, <3>3 DEF Statuses
  <2> QED BY <1>1, <1>2, <2>3, <2>4, <2>5, <2>6, <2>7, <2>8, Taken
<1> QED BY <1>3, <1>4 DEF Reconcile

LEMMA KillSwitchKeeps ==
  ASSUME PinInv, KillSwitch
  PROVE  PinInv'
<1>1. /\ pinUser' = pinUser /\ indexOwner' = indexOwner /\ survivors' = survivors
      /\ pinSeeded' = pinSeeded /\ reconciled' = reconciled /\ launches' = launches
      /\ files' = files /\ pinned' = pinned /\ diskFaults' = diskFaults
      /\ unlisted' = unlisted /\ UNCHANGED session /\ TypeOK
  BY DEF KillSwitch, session, PinInv
<1>2. pinsEnabled' \in BOOLEAN /\ Counts({})
  BY <1>1, NothingFailed DEF KillSwitch
<1>3. /\ downloads \in Seq(Tracks) /\ entries \in Entries
      /\ Waiting(entries, downloads)
  BY <1>1 DEF TypeOK, PinInv, QueueInv
<1>4. CASE UNCHANGED <<stock, downloads, job>>
  <2>0. entries' = entries /\ index' = index /\ pending' = pending /\ stale' = stale
        /\ downloads' = downloads /\ job' = job
    BY <1>4 DEF stock
  <2>1. TypeOK'
    BY <1>1, <1>2, <2>0 DEF TypeOK
  <2>2. SavedInv' /\ QueueInv' /\ JobInv' /\ SessionInv' /\ PinsAreKept'
    BY <1>1, <2>0 DEF PinInv, SavedInv, QueueInv, Waiting, JobInv, SessionInv, PinsAreKept
  <2>3. diskFaults' = 0 => FileInv'
    BY <1>1, <2>0 DEF PinInv, FileInv
  <2>4. diskFaults' <= 1 => OwnInv'
    BY <1>1, <2>0 DEF PinInv, OwnInv, Own, Known
  <2> QED BY <2>1, <2>2, <2>3, <2>4 DEF PinInv
<1>5. CASE /\ downloads # <<>> /\ job = Idle
           /\ job' = FirstJob(Head(downloads))
           /\ downloads' = Tail(downloads)
           /\ Later([entries EXCEPT ![Head(downloads)] = "downloading"])
  <2>1. /\ Follows(entries, downloads) /\ Handed(entries, downloads)
        /\ index' = index /\ stale' = stale
    BY <1>3, <1>5, HandOver DEF Later
  <2>2. TypeOK'
    BY <1>1, <1>2, <2>1 DEF TypeOK, Follows, Jobs
  <2>3. \A t \in Tracks : /\ entries'[t] = "ready" <=> entries[t] = "ready"
                          /\ entries'[t] = "none" <=> entries[t] = "none"
    BY <2>1 DEF Follows
  <2>4. SavedInv'
    BY <1>1, <2>1, <2>3 DEF PinInv, SavedInv, Follows
  <2>5. QueueInv'
    BY <2>1 DEF QueueInv, Follows
  <2>6. JobInv'
    BY <2>1 DEF JobInv, Handed
  <2>7. SessionInv'
    BY <1>1, <1>5 DEF PinInv, SessionInv
  <2>8. PinsAreKept'
    BY <1>1, <2>3 DEF PinInv, PinsAreKept, TypeOK
  <2>9. diskFaults' = 0 => FileInv'
    <3>1. diskFaults' = 0 => FileInv /\ reconciled
      BY <1>1, <1>5 DEF PinInv, SessionInv
    <3> QED BY <1>1, <2>1, <2>3, <3>1 DEF FileInv, Handed, TypeOK
  <2>10. diskFaults' <= 1 => OwnInv'
    BY <1>1, <2>1, <2>3 DEF PinInv, OwnInv, Own, Known
  <2> QED BY <2>2, <2>4, <2>5, <2>6, <2>7, <2>8, <2>9, <2>10 DEF PinInv
<1> QED BY <1>4, <1>5 DEF KillSwitch

-----------------------------------------------------------------------------
(* The session                                                             *)

Leaves(u) == pinSeeded /\ pinUser # u
Foreign(u, failed) == u # NoUser /\ (indexOwner # u \/ "ownerRead" \in failed)

ApplyKinds == {"delete", "list", "indexWrite", "ownerRead", "ownerWrite"}

\* The downloads are cleared for a session.
Clears(u, failed, stuck) ==
  /\ Leaves(u) \/ Foreign(u, failed)
  /\ Delete(files, stuck, failed)
  /\ Save(ReadyAnd(stuck), failed)
  /\ survivors' = IF Foreign(u, failed) THEN {t \in stuck : entries[t] = "ready"} ELSE {}
  /\ indexOwner' = IF Foreign(u, failed) /\ stuck = {} /\ "ownerWrite" \notin failed
                   THEN u ELSE indexOwner
  /\ pinUser' = u /\ pinSeeded' = TRUE /\ downloads' = <<>> /\ pinned' = {}
  /\ reconciled' = (reconciled /\ (u = NoUser => pinUser = NoUser))
  /\ UNCHANGED <<job, pinsEnabled, unlisted, launches>>

\* What is known then: nothing that is on the device, or what one failed delete
\* left of the owner's tracks.
LEMMA OwnAfterClear ==
  ASSUME PinInv, NEW u \in Owners \cup {NoUser}, NEW failed, Counts(failed),
         NEW stuck \in Left(files, failed), Clears(u, failed, stuck),
         diskFaults' <= 1
  PROVE  OwnInv'
<1>1. /\ TypeOK /\ files \subseteq Tracks /\ files \in SUBSET Tracks
      /\ pinUser' = u /\ \A t \in Tracks : ReadyAnd(stuck)[t] \in {"none", "ready"}
      /\ \A t \in Tracks : ReadyAnd(stuck)[t] # "none" <=> t \in stuck /\ entries[t] = "ready"
  BY DEF PinInv, TypeOK, Clears, ReadyAnd
<1>2. /\ stuck \subseteq files
      /\ stuck # {} => "delete" \in failed /\ "list" \notin failed
      /\ "list" \notin failed => files' = stuck
  <2>1. Delete(files, stuck, failed)
    BY DEF Clears
  <2>2. /\ stuck \subseteq files \cap files
        /\ stuck # {} => "delete" \in failed /\ "list" \notin failed
        /\ "list" \notin failed => files' = files \ (files \ stuck)
    BY <1>1, <2>1, Deleted
  <2> QED BY <2>2
<1>3. \A a, b \in failed : a = b
  BY DEF Counts
<1>4. /\ \A t \in Tracks : entries'[t] # "none" => t \in stuck /\ entries[t] = "ready"
      /\ "indexWrite" \notin failed =>
           \A t \in Tracks : index'[t] # "none" => t \in stuck /\ entries[t] = "ready"
  BY <1>1 DEF Clears, Save, Write
<1>5. CASE stuck = {}
  <2>1. \A t \in Tracks : entries'[t] = "none"
    BY <1>4, <1>5
  <2>2. "indexWrite" \in failed => files' = {}
    BY <1>2, <1>3, <1>5
  <2>3. \A t \in Tracks : index'[t] # "none" => t \notin files'
    BY <1>4, <1>5, <2>2
  <2>4. \A t \in Tracks : Known(t)' => Own(t)'
    BY <2>1, <2>3 DEF Known, Own
  <2>5. survivors' = {}
    BY <1>5 DEF Clears
  <2>6. diskFaults' = 0 => failed = {}
    BY DEF Counts
  <2>7. failed = {} => pinUser' \in {NoUser, indexOwner'}
    BY <1>1, <1>5 DEF Clears, Foreign
  <2>8. failed = {} => \A t \in Tracks : index'[t] = "none"
    BY <1>4, <1>5
  <2> QED BY <2>1, <2>4, <2>5, <2>6, <2>7, <2>8 DEF OwnInv
<1>6. CASE stuck # {}
  <2>1. /\ "delete" \in failed /\ "indexWrite" \notin failed /\ "ownerRead" \notin failed
        /\ diskFaults = 0 /\ diskFaults' # 0
    <3>1. "delete" \in failed
      BY <1>2, <1>6
    <3>2. diskFaults = 0 /\ diskFaults' # 0
      BY <3>1 DEF Counts
    <3> QED BY <1>3, <3>1, <3>2
  <2>2. \A t \in Tracks : entries[t] # "none" => LibraryOf[t] = indexOwner
    BY <2>1 DEF PinInv, SavedInv, OwnInv
  <2>3. \A t \in Tracks :
          Known(t)' => t \in stuck /\ entries[t] = "ready" /\ LibraryOf[t] = indexOwner
    BY <1>4, <2>1, <2>2 DEF Known
  <2>4. indexOwner' = indexOwner
    BY <1>6 DEF Clears
  <2>5. CASE Foreign(u, failed)
    <3>1. u # NoUser /\ indexOwner # u
      BY <2>1, <2>5 DEF Foreign
    <3>2. \A t \in Tracks : Known(t)' => t \in survivors'
      BY <2>3, <2>5 DEF Clears
    <3> QED BY <1>1, <2>1, <2>4, <3>1, <3>2 DEF OwnInv, Known
  <2>6. CASE ~ Foreign(u, failed)
    <3>1. u = NoUser \/ u = indexOwner
      BY <2>6 DEF Foreign
    <3>2. survivors' = {}
      BY <2>6 DEF Clears
    <3>3. u # NoUser => \A t \in Tracks : Known(t)' => LibraryOf[t] = pinUser'
      BY <1>1, <2>3, <3>1
    <3> QED BY <1>1, <2>1, <3>2, <3>3 DEF OwnInv, Known, Own
  <2> QED BY <2>5, <2>6
<1> QED BY <1>5, <1>6

LEMMA Cleared ==
  ASSUME PinInv, NEW u \in Owners \cup {NoUser}, NEW failed, Counts(failed),
         NEW stuck \in Left(files, failed), Clears(u, failed, stuck)
  PROVE  PinInv'
<1>1. /\ TypeOK /\ files \subseteq Tracks /\ files \in SUBSET Tracks
      /\ Delete(files, stuck, failed)
  BY DEF PinInv, TypeOK, Clears
<1>2. /\ files' \subseteq files /\ stuck \subseteq files
      /\ diskFaults' = 0 => files' = {} /\ stuck = {}
  <2>1. /\ files' \subseteq files /\ stuck \subseteq files \cap files
        /\ diskFaults' = 0 => files' = files \ files /\ stuck = {}
    BY <1>1, Deleted
  <2> QED BY <2>1
<1>3. PICK e \in Entries : /\ e = ReadyAnd(stuck)
                           /\ \A t \in Tracks : e[t] # "none" => e[t] = "ready" /\ t \in stuck
  <2>1. ReadyAnd(stuck) \in Entries
    BY DEF ReadyAnd, Entries, Statuses
  <2>2. \A t \in Tracks :
          ReadyAnd(stuck)[t] # "none" => ReadyAnd(stuck)[t] = "ready" /\ t \in stuck
    BY DEF ReadyAnd
  <2> QED BY <2>1, <2>2
<1>4. entries' = e /\ pending' = Unsaved /\ Write(e, index, failed)
  BY <1>3 DEF Clears, Save
<1>5. /\ pinUser' = u /\ pinSeeded' = TRUE /\ downloads' = <<>> /\ pinned' = {}
      /\ reconciled' = (reconciled /\ (u = NoUser => pinUser = NoUser))
      /\ job' = job /\ pinsEnabled' = pinsEnabled /\ unlisted' = unlisted
      /\ launches' = launches
  BY DEF Clears
<1>6. TypeOK'
  <2>1. index' \in Entries /\ stale' \in BOOLEAN
    BY <1>1, <1>4 DEF TypeOK, Write
  <2>2. reconciled' \in BOOLEAN /\ <<>> \in Seq(Tracks)
    BY <1>1, <1>5 DEF TypeOK
  <2>3. indexOwner' \in Owners \cup {NoUser}
    BY <1>1 DEF TypeOK, Clears
  <2>4. files' \subseteq Tracks /\ survivors' \subseteq Tracks
    BY <1>1, <1>2 DEF Clears
  <2> QED BY <1>1, <1>4, <1>5, <2>1, <2>2, <2>3, <2>4 DEF TypeOK, Counts
<1>7. SavedInv'
  BY <1>4 DEF SavedInv, PinInv, Write, Counts
<1>8. QueueInv' /\ JobInv' /\ SessionInv' /\ PinsAreKept'
  BY <1>5 DEF PinInv, QueueInv, Waiting, JobInv, SessionInv, PinsAreKept
<1>9. diskFaults' = 0 => FileInv'
  BY <1>2, <1>3, <1>4 DEF FileInv
<1>10. diskFaults' <= 1 => OwnInv'
  BY OwnAfterClear
<1> QED BY <1>6, <1>7, <1>8, <1>9, <1>10 DEF PinInv

\* A session is applied to the downloads of its own user.
LEMMA Unclaimed ==
  ASSUME PinInv, NEW u \in Owners \cup {NoUser}, ~ Leaves(u), ~ Foreign(u, {}),
         diskFaults' = diskFaults,
         pinSeeded \/ u \in {pinUser, NoUser}, pinSeeded' = TRUE, pinUser' = u,
         survivors' = IF u # NoUser THEN {} ELSE survivors,
         reconciled' = (reconciled /\ (u = NoUser => pinUser = NoUser)),
         UNCHANGED <<stock, downloads, files, indexOwner, pinned>>,
         UNCHANGED <<job, pinsEnabled, unlisted, launches>>
  PROVE  PinInv'
<1>1. /\ TypeOK /\ (pinSeeded => pinUser = u) /\ (u = NoUser \/ indexOwner = u)
      /\ u \in {pinUser, NoUser}
      /\ entries' = entries /\ index' = index /\ pending' = pending /\ stale' = stale
  BY DEF Leaves, Foreign, PinInv, stock
<1>2. /\ reconciled' \in BOOLEAN /\ (reconciled' => reconciled)
      /\ pinSeeded /\ reconciled => reconciled'
  BY <1>1 DEF TypeOK
<1>3. survivors' \subseteq Tracks
  BY <1>1 DEF TypeOK
<1>4. TypeOK'
  BY <1>1, <1>2, <1>3 DEF TypeOK
<1>5. SavedInv' /\ QueueInv' /\ JobInv' /\ PinsAreKept'
  BY <1>1 DEF PinInv, SavedInv, QueueInv, Waiting, JobInv, PinsAreKept
<1>6. SessionInv'
  BY <1>1, <1>2 DEF PinInv, SessionInv
<1>7. diskFaults' = 0 => FileInv'
  BY <1>1, <1>2 DEF PinInv, FileInv
<1>8. diskFaults' <= 1 => OwnInv'
  <2> SUFFICES ASSUME diskFaults <= 1 PROVE OwnInv'
    OBVIOUS
  <2>1. OwnInv
    BY DEF PinInv
  <2>2. survivors' = {}
    BY <1>1, <2>1 DEF PinInv, SessionInv, OwnInv
  <2>3. u # NoUser => pinUser = u /\ indexOwner = pinUser /\ survivors = {}
    BY <1>1, <2>1 DEF OwnInv
  <2>4. u # NoUser => \A t \in Tracks : Known(t)' => Own(t)'
    BY <1>1, <2>1, <2>3 DEF OwnInv, Known, Own
  <2>5. reconciled' /\ u # NoUser =>
          \A t \in Tracks : entries'[t] = "ready" => LibraryOf[t] = u
    BY <1>1, <1>2, <2>1, <2>3 DEF OwnInv
  <2> QED BY <1>1, <2>1, <2>2, <2>4, <2>5 DEF OwnInv, Known
<1> QED BY <1>4, <1>5, <1>6, <1>7, <1>8 DEF PinInv

LEMMA ApplyKeeps ==
  ASSUME PinInv, NEW u \in Owners \cup {NoUser}, Apply(u)
  PROVE  PinInv'
<1>1. /\ pinSeeded \/ u \in {pinUser, NoUser}
      /\ pinSeeded' = TRUE /\ pinUser' = u
      /\ reconciled' = (reconciled /\ (u = NoUser => pinUser = NoUser))
      /\ UNCHANGED <<job, pinsEnabled, unlisted, launches>>
      /\ TypeOK /\ ApplyKinds \in SUBSET Kinds
  BY DEF Apply, PinInv, ApplyKinds, Kinds
<1>2. PICK failed \in Failures(ApplyKinds) : \E stuck \in Left(files, failed) :
        /\ Count(failed)
        /\ IF Leaves(u) \/ Foreign(u, failed)
           THEN /\ Delete(files, stuck, failed)
                /\ Save(ReadyAnd(stuck), failed)
                /\ survivors' = IF Foreign(u, failed)
                                THEN {t \in stuck : entries[t] = "ready"} ELSE {}
                /\ indexOwner' = IF Foreign(u, failed) /\ stuck = {} /\ "ownerWrite" \notin failed
                                 THEN u ELSE indexOwner
                /\ downloads' = <<>>
                /\ pinned' = {}
           ELSE /\ failed = {}
                /\ survivors' = IF u # NoUser THEN {} ELSE survivors
                /\ UNCHANGED <<stock, downloads, files, indexOwner, pinned>>
  BY DEF Apply, ApplyKinds, Leaves, Foreign
<1>3. PICK stuck \in Left(files, failed) :
        /\ Count(failed)
        /\ IF Leaves(u) \/ Foreign(u, failed)
           THEN /\ Delete(files, stuck, failed)
                /\ Save(ReadyAnd(stuck), failed)
                /\ survivors' = IF Foreign(u, failed)
                                THEN {t \in stuck : entries[t] = "ready"} ELSE {}
                /\ indexOwner' = IF Foreign(u, failed) /\ stuck = {} /\ "ownerWrite" \notin failed
                                 THEN u ELSE indexOwner
                /\ downloads' = <<>>
                /\ pinned' = {}
           ELSE /\ failed = {}
                /\ survivors' = IF u # NoUser THEN {} ELSE survivors
                /\ UNCHANGED <<stock, downloads, files, indexOwner, pinned>>
  BY <1>2
<1>4. Counts(failed)
  BY <1>1, <1>3, FailuresCount
<1>5. CASE Leaves(u) \/ Foreign(u, failed)
  <2>1. Clears(u, failed, stuck)
    BY <1>1, <1>3, <1>5 DEF Clears
  <2> QED BY <1>4, <2>1, Cleared
<1>6. CASE ~ (Leaves(u) \/ Foreign(u, failed))
  <2>1. /\ failed = {} /\ Count({}) /\ ~ Leaves(u) /\ ~ Foreign(u, {})
        /\ survivors' = IF u # NoUser THEN {} ELSE survivors
        /\ UNCHANGED <<stock, downloads, files, indexOwner, pinned>>
    BY <1>3, <1>6
  <2>2. diskFaults' = diskFaults
    BY <1>1, <2>1, FS_EmptySet DEF Count, TypeOK
  <2> QED BY <1>1, <2>1, <2>2, Unclaimed
<1> QED BY <1>5, <1>6

LEMMA RelaunchKeeps ==
  ASSUME PinInv, Relaunch
  PROVE  PinInv'
<1>1. /\ downloads' = <<>> /\ job' = Idle /\ pending' = Unsaved /\ stale' = FALSE
      /\ pinSeeded' = FALSE /\ survivors' = {} /\ reconciled' = FALSE /\ unlisted' = FALSE
      /\ launches' = launches + 1
      /\ UNCHANGED <<files, index, indexOwner, pinUser, pinsEnabled>>
      /\ launches < MaxLaunches /\ TypeOK /\ {"indexRead"} \in SUBSET Kinds
  BY DEF Relaunch, PinInv, Kinds
<1>2. PICK bad \in SUBSET Tracks, failed \in Failures({"indexRead"}) :
        /\ Count(failed)
        /\ failed = {} => bad = {}
        /\ entries' = [t \in Tracks |-> IF t \in bad THEN "none" ELSE index[t]]
        /\ pinned' = {t \in pinned \ bad : stale => index[t] # "none"}
  BY DEF Relaunch
<1>3. Counts(failed)
  BY <1>1, <1>2, FailuresCount
<1>4. Idle \in Jobs /\ launches + 1 \in 0..MaxLaunches
  BY <1>1, PinnedAssumption DEF Idle, Jobs, TypeOK
<1>5. \A t \in Tracks : entries'[t] = IF t \in bad THEN "none" ELSE index[t]
  BY <1>2
<1>6. TypeOK'
  <2>1. index \in Entries /\ entries' \in Entries /\ <<>> \in Seq(Tracks) /\ {} \subseteq Tracks
    BY <1>1, <1>2 DEF TypeOK, Entries, Statuses
  <2>2. job' \in Jobs
    BY <1>1, <1>4
  <2>3. pinned' \subseteq Tracks
    BY <1>1, <1>2 DEF TypeOK
  <2> QED BY <1>1, <1>3, <1>4, <2>1, <2>2, <2>3 DEF TypeOK, Jobs, Counts
<1>7. SavedInv' /\ QueueInv' /\ SessionInv'
  BY <1>1, <1>5 DEF SavedInv, QueueInv, Waiting, SessionInv
<1>8. JobInv'
  BY <1>1 DEF JobInv, Idle
<1>9. PinsAreKept'
  BY <1>1, <1>2, <1>5 DEF PinInv, PinsAreKept, SavedInv, TypeOK
<1>10. diskFaults' = 0 => FileInv'
  <2>1. diskFaults' = 0 => bad = {} /\ FileInv /\ ~ stale
    BY <1>2, <1>3 DEF Counts, PinInv, SavedInv
  <2> QED BY <1>1, <1>5, <2>1 DEF PinInv, FileInv, SavedInv, TypeOK
<1>11. diskFaults' <= 1 => OwnInv'
  <2> SUFFICES ASSUME diskFaults' <= 1 PROVE OwnInv'
    OBVIOUS
  <2>1. OwnInv /\ (diskFaults' = 0 => diskFaults = 0)
    BY <1>3 DEF Counts, PinInv
  <2>2. \A t \in Tracks : Known(t)' => Known(t)
    BY <1>1, <1>5 DEF Known
  <2>3. \A t \in Tracks : Own(t)' <=> Own(t)
    BY <1>1 DEF Own
  <2> QED BY <1>1, <2>1, <2>2, <2>3 DEF OwnInv
<1> QED BY <1>6, <1>7, <1>8, <1>9, <1>10, <1>11 DEF PinInv

-----------------------------------------------------------------------------
(* The theorems                                                            *)

LEMMA PinInit ==
  ASSUME Init
  PROVE  PinInv
<1>1. entries \in Entries /\ Idle \in Jobs /\ 0 \in 0..MaxDiskFaults /\ 0 \in 0..MaxLaunches
  BY PinnedAssumption DEF Init, Entries, Statuses, Idle, Jobs
<1>2. TypeOK
  <2>1. <<>> \in Seq(Tracks) /\ job \in Jobs
    BY <1>1 DEF Init
  <2> QED BY <1>1, <2>1 DEF Init, TypeOK, Jobs
<1>3. SavedInv /\ QueueInv /\ JobInv /\ SessionInv /\ PinsAreKept
  BY DEF Init, SavedInv, QueueInv, Waiting, JobInv, SessionInv, PinsAreKept, Idle
<1>4. FileInv /\ OwnInv
  BY DEF Init, FileInv, OwnInv, Known
<1> QED BY <1>2, <1>3, <1>4 DEF PinInv

LEMMA PinStep ==
  ASSUME PinInv, [Next]_vars
  PROVE  PinInv'
<1>1. CASE \E u \in Owners \cup {NoUser} : Apply(u)
  BY <1>1, ApplyKeeps
<1>2. CASE Work
  BY <1>2, DownloadedKeeps, AttemptFailsKeeps, RetryDueKeeps DEF Work
<1>3. CASE FlushIndex
  BY <1>3, FlushIndexKeeps
<1>4. CASE \E t \in Tracks : Pin(t) \/ Unpin(t) \/ Repin(t)
  BY <1>4, PinKeeps, UnpinKeeps, RepinKeeps
<1>5. CASE \E chunk \in SUBSET Tracks : UnpinChunk(chunk)
  BY <1>5, UnpinChunkKeeps
<1>6. CASE UnpinAll
  BY <1>6, UnpinAllKeeps
<1>7. CASE KillSwitch \/ Reconcile \/ Relaunch
  BY <1>7, KillSwitchKeeps, ReconcileKeeps, RelaunchKeeps
<1>8. CASE UNCHANGED vars
  <2>1. /\ entries' = entries /\ downloads' = downloads /\ job' = job /\ files' = files
        /\ index' = index /\ pending' = pending /\ stale' = stale
        /\ indexOwner' = indexOwner /\ pinUser' = pinUser /\ pinSeeded' = pinSeeded
        /\ survivors' = survivors /\ pinsEnabled' = pinsEnabled
        /\ reconciled' = reconciled /\ unlisted' = unlisted /\ pinned' = pinned
        /\ diskFaults' = diskFaults /\ launches' = launches
    BY <1>8 DEF vars, stock, session, pinSwitches
  <2>2. TypeOK'
    BY <2>1 DEF PinInv, TypeOK
  <2>3. SavedInv' /\ QueueInv' /\ JobInv' /\ SessionInv' /\ PinsAreKept'
    BY <2>1 DEF PinInv, SavedInv, QueueInv, Waiting, JobInv, SessionInv, PinsAreKept
  <2>4. diskFaults' = 0 => FileInv'
    BY <2>1 DEF PinInv, FileInv
  <2>5. diskFaults' <= 1 => OwnInv'
    BY <2>1 DEF PinInv, OwnInv, Known, Own
  <2> QED BY <2>2, <2>3, <2>4, <2>5 DEF PinInv
<1> QED BY <1>1, <1>2, <1>3, <1>4, <1>5, <1>6, <1>7, <1>8 DEF Next

\* The type invariant of the offline downloads.
THEOREM PinTypeCorrect == Spec => []TypeOK
<1> QED BY PinInit, PinStep, PTL DEF Spec, PinInv

\* A pin of pinnedStore keeps its entry, whatever fails of the device and however
\* often, until it goes in one of the ways PinsAreKept lists: a crash, a save
\* that comes late or fails, a retry, the kill switch and a file that cannot be
\* deleted take no pin away while the app runs.
THEOREM PinsStay == Spec => []PinsAreKept
<1> QED BY PinInit, PinStep, PTL DEF Spec, PinInv

\* What is served offline is of the library of the session's user as long as the
\* device failed once at most, and on the device if it never did, for every
\* number of users, tracks, attempts and launches.
THEOREM OnlyOwnFilesAreServed == Spec => []ServesOwnFiles
<1>1. PinInv => ServesOwnFiles
  <2> SUFFICES ASSUME PinInv, NEW t \in Tracks, Servable(t), reconciled, pinUser # NoUser
               PROVE  /\ diskFaults <= 1 => LibraryOf[t] = pinUser
                      /\ diskFaults = 0 => t \in files
    BY DEF ServesOwnFiles
  <2>1. entries[t] = "ready" /\ t \notin survivors
    BY DEF Servable
  <2>2. diskFaults <= 1 => LibraryOf[t] = pinUser
    BY <2>1 DEF PinInv, OwnInv
  <2>3. diskFaults = 0 => t \in files
    BY <2>1 DEF PinInv, FileInv
  <2> QED BY <2>2, <2>3
<1> QED BY <1>1, PinInit, PinStep, PTL DEF Spec

-----------------------------------------------------------------------------
(* Outbox: what it has room for                                            *)

\* No element twice.
Distinct(s) == \A i, j \in 1..Len(s) : i < j => s[i] # s[j]

\* A set of events the outbox has room for.
Fits(S) ==
  /\ S \subseteq Events /\ IsFiniteSet(S)
  /\ Cardinality(S) <= MaxEntries
  /\ Cardinality(S \cap Diagnostic) <= MaxDiagnostic

Kept(s) == s \in Seq(Events) /\ Distinct(s) /\ Fits(ToSet(s))

-----------------------------------------------------------------------------
(* Sequences                                                               *)

LEMMA ElementsOf ==
  ASSUME NEW X, NEW s \in Seq(X)
  PROVE  /\ Len(s) \in Nat /\ ToSet(s) = {s[i] : i \in 1..Len(s)} /\ ToSet(s) \subseteq X
         /\ IsFiniteSet(ToSet(s)) /\ Cardinality(ToSet(s)) \in Nat
         /\ Cardinality(ToSet(s)) <= Len(s)
         /\ Distinct(s) => Cardinality(ToSet(s)) = Len(s)
<1>1. Len(s) \in Nat /\ s \in [1..Len(s) -> X] /\ DOMAIN s = 1..Len(s)
  OBVIOUS
<1>2. ToSet(s) = {s[i] : i \in 1..Len(s)} /\ ToSet(s) \subseteq X
  BY <1>1 DEF ToSet
<1>3. s \in Surjection(1..Len(s), ToSet(s))
  BY <1>1, <1>2 DEF Surjection
<1>4. IsFiniteSet(1..Len(s)) /\ Cardinality(1..Len(s)) = Len(s)
  BY <1>1, FS_Interval
<1>5. /\ IsFiniteSet(ToSet(s)) /\ Cardinality(ToSet(s)) <= Len(s)
      /\ Cardinality(ToSet(s)) = Len(s) <=> s \in Injection(1..Len(s), ToSet(s))
  BY <1>3, <1>4, FS_Surjection
<1>6. Cardinality(ToSet(s)) \in Nat
  BY <1>5, FS_CardinalityType
<1>7. ASSUME Distinct(s) PROVE s \in Injection(1..Len(s), ToSet(s))
  <2>1. s \in [1..Len(s) -> ToSet(s)]
    BY <1>1, <1>2
  <2>2. \A i, j \in 1..Len(s) : s[i] = s[j] => i = j
    BY <1>1, <1>7 DEF Distinct
  <2> QED BY <2>1, <2>2 DEF Injection, IsInjective
<1> QED BY <1>1, <1>2, <1>5, <1>6, <1>7

LEMMA OnlyOf ==
  ASSUME NEW X, NEW s \in Seq(X), NEW S
  PROVE  /\ Only(s, S) \in Seq(X) /\ ToSet(Only(s, S)) = ToSet(s) \cap S
         /\ Len(Only(s, S)) <= Len(s) /\ (Distinct(s) => Distinct(Only(s, S)))
<1>1. PICK r \in Seq(X) : r = Only(s, S) /\ Filters(s, S, Len(s), r)
  BY OnlyKeeps
<1>2. /\ ToSet(r) = {r[i] : i \in 1..Len(r)} /\ ToSet(s) = {s[i] : i \in 1..Len(s)}
  BY ElementsOf
<1>3. ToSet(r) = ToSet(s) \cap S
  <2>1. ASSUME NEW x \in ToSet(r) PROVE x \in ToSet(s) \cap S
    <3>1. PICK i \in 1..Len(r) : x = r[i]
      BY <1>2
    <3>2. x \in S /\ \E k \in 1..Len(s) : s[k] = x
      BY <1>1, <3>1 DEF Filters
    <3> QED BY <1>2, <3>2
  <2>2. ASSUME NEW x \in ToSet(s) \cap S PROVE x \in ToSet(r)
    <3>1. PICK k \in 1..Len(s) : x = s[k] /\ s[k] \in S
      BY <1>2
    <3>2. \E i \in 1..Len(r) : r[i] = x
      BY <1>1, <3>1 DEF Filters
    <3> QED BY <1>2, <3>2
  <2> QED BY <2>1, <2>2
<1>4. Len(r) <= Len(s)
  BY <1>1 DEF Filters
<1>5. ASSUME Distinct(s) PROVE Distinct(r)
  BY <1>1, <1>5 DEF Filters, Distinct
<1> QED BY <1>1, <1>3, <1>4, <1>5

LEMMA LatestOf ==
  ASSUME NEW X, NEW s \in Seq(X), NEW n \in Nat
  PROVE  /\ Latest(s, n) \in Seq(X) /\ Len(Latest(s, n)) <= n
         /\ ToSet(Latest(s, n)) \subseteq ToSet(s)
         /\ Len(s) <= n => Latest(s, n) = s
<1>1. Len(s) \in Nat
  OBVIOUS
<1>2. CASE Len(s) <= n
  BY <1>1, <1>2 DEF Latest
<1>3. CASE ~ (Len(s) <= n)
  <2>1. PICK m \in 1..(Len(s) + 1) : m = Len(s) - n + 1
    BY <1>1, <1>3
  <2>2. Latest(s, n) = SubSeq(s, m, Len(s))
    BY <1>3, <2>1 DEF Latest
  <2>3. PICK r : r = SubSeq(s, m, Len(s))
    OBVIOUS
  <2>4. /\ r \in Seq(X) /\ Len(r) = n
        /\ \A i \in 1..n : r[i] = s[m + i - 1] /\ m + i - 1 \in 1..Len(s)
    BY <1>1, <1>3, <2>1, <2>3
  <2>5. /\ ToSet(r) = {r[i] : i \in 1..Len(r)} /\ ToSet(s) = {s[i] : i \in 1..Len(s)}
    BY <2>4, ElementsOf
  <2>6. ToSet(r) \subseteq ToSet(s)
    BY <2>4, <2>5
  <2> QED BY <1>3, <2>2, <2>3, <2>4, <2>6
<1> QED BY <1>2, <1>3

LEMMA AppendedOf ==
  ASSUME NEW X, NEW s \in Seq(X), NEW e \in X
  PROVE  /\ Append(s, e) \in Seq(X) /\ ToSet(Append(s, e)) = ToSet(s) \cup {e}
         /\ Distinct(s) /\ e \notin ToSet(s) => Distinct(Append(s, e))
<1>1. Append(s, e) \in Seq(X)
  OBVIOUS
<1>2. PICK r \in Seq(X) : r = Append(s, e)
  BY <1>1, Zenon
<1>3. Len(r) = Len(s) + 1 /\ Len(s) \in Nat /\ r[Len(s) + 1] = e
  BY <1>2
<1>4. \A i \in 1..Len(s) : r[i] = s[i]
  BY <1>2
<1>5. ToSet(r) = {r[i] : i \in 1..Len(r)} /\ ToSet(s) = {s[i] : i \in 1..Len(s)}
  BY ElementsOf
<1>6. 1..Len(r) = 1..Len(s) \cup {Len(s) + 1}
  BY <1>3
<1>7. ToSet(r) = ToSet(s) \cup {e}
  BY <1>3, <1>4, <1>5, <1>6
<1>8. ASSUME Distinct(s), e \notin ToSet(s) PROVE Distinct(r)
  <2>1. \A i \in 1..Len(s) : s[i] # e
    BY <1>5, <1>8
  <2>2. \A i, j \in 1..Len(r) : i < j => i \in 1..Len(s) /\ (j \in 1..Len(s) \/ j = Len(s) + 1)
    BY <1>3
  <2> QED BY <1>3, <1>4, <1>8, <2>1, <2>2 DEF Distinct
<1> QED BY <1>1, <1>2, <1>7, <1>8

-----------------------------------------------------------------------------
(* The cap                                                                 *)

LEMMA FitsLess ==
  ASSUME NEW S, Fits(S), NEW T, T \subseteq S
  PROVE  Fits(T)
<1>1. /\ IsFiniteSet(S) /\ IsFiniteSet(S \cap Diagnostic)
      /\ T \in SUBSET S /\ T \cap Diagnostic \in SUBSET (S \cap Diagnostic)
  BY FS_Intersection DEF Fits
<1>2. IsFiniteSet(T) /\ Cardinality(T) <= Cardinality(S)
  BY <1>1, FS_Subset
<1>3. Cardinality(T \cap Diagnostic) <= Cardinality(S \cap Diagnostic)
  BY <1>1, FS_Subset
<1>4. /\ Cardinality(T) \in Nat /\ Cardinality(S) \in Nat
      /\ Cardinality(S \cap Diagnostic) \in Nat /\ Cardinality(T \cap Diagnostic) \in Nat
  BY <1>1, <1>2, FS_CardinalityType, FS_Intersection
<1>5. MaxEntries \in Nat /\ MaxDiagnostic \in Nat
  BY OutboxAssumption
<1> QED BY <1>2, <1>3, <1>4, <1>5 DEF Fits

LEMMA KeptLess ==
  ASSUME NEW s, Kept(s), NEW S
  PROVE  Kept(Only(s, S)) /\ ToSet(Only(s, S)) = ToSet(s) \cap S
<1>1. s \in Seq(Events) /\ Distinct(s) /\ Fits(ToSet(s))
  BY DEF Kept
<1>2. /\ Only(s, S) \in Seq(Events) /\ Distinct(Only(s, S))
      /\ ToSet(Only(s, S)) = ToSet(s) \cap S
  BY <1>1, OnlyOf
<1>3. Fits(ToSet(Only(s, S)))
  BY <1>1, <1>2, FitsLess
<1> QED BY <1>2, <1>3 DEF Kept

LEMMA NothingKept == Kept(<<>>) /\ ToSet(<<>>) = {}
<1>1. <<>> \in Seq(Events) /\ Len(<<>>) = 0
  OBVIOUS
<1>2. ToSet(<<>>) = {}
  <2>1. PICK r \in Seq(Events) : r = <<>> /\ Len(r) = 0
    BY <1>1
  <2>2. ToSet(r) = {r[i] : i \in 1..Len(r)}
    BY ElementsOf
  <2>3. ToSet(r) = {}
    BY <2>1, <2>2
  <2> QED BY <2>1, <2>3
<1>3. Distinct(<<>>)
  BY <1>1 DEF Distinct
<1>4. IsFiniteSet({}) /\ Cardinality({}) = 0 /\ {} \cap Diagnostic = {}
  BY FS_EmptySet
<1>5. Fits({})
  BY <1>4, OutboxAssumption DEF Fits
<1> QED BY <1>1, <1>2, <1>3, <1>5 DEF Kept

\* The two parts of a capped queue, and the room that is left for diagnostics.
Labels(s) == Latest(Only(s, Events \ Diagnostic), MaxEntries)
Room(s)   == MaxEntries - Len(Labels(s))
Others(s) == Latest(Only(s, Diagnostic),
                    IF Room(s) < MaxDiagnostic THEN Room(s) ELSE MaxDiagnostic)

LEMMA CapParts ==
  ASSUME NEW s \in Seq(Events)
  PROVE  /\ Labels(s) \in Seq(Events) /\ Others(s) \in Seq(Events)
         /\ ToSet(Labels(s)) \subseteq ToSet(s) \ Diagnostic
         /\ ToSet(Others(s)) \subseteq ToSet(s) \cap Diagnostic
         /\ Len(Labels(s)) + Len(Others(s)) <= MaxEntries
         /\ Len(Others(s)) <= MaxDiagnostic
         /\ Cap(s) = Only(s, ToSet(Labels(s)) \cup ToSet(Others(s)))
<1>1. MaxEntries \in Nat /\ MaxDiagnostic \in Nat
  BY OutboxAssumption
<1>2. /\ Only(s, Events \ Diagnostic) \in Seq(Events)
      /\ ToSet(Only(s, Events \ Diagnostic)) = ToSet(s) \cap (Events \ Diagnostic)
      /\ Only(s, Diagnostic) \in Seq(Events)
      /\ ToSet(Only(s, Diagnostic)) = ToSet(s) \cap Diagnostic
  BY OnlyOf
<1>3. /\ Labels(s) \in Seq(Events) /\ Len(Labels(s)) <= MaxEntries
      /\ ToSet(Labels(s)) \subseteq ToSet(s) \ Diagnostic
  BY <1>1, <1>2, LatestOf DEF Labels
<1>4. PICK n \in Nat : /\ n = (IF Room(s) < MaxDiagnostic THEN Room(s) ELSE MaxDiagnostic)
                       /\ n <= MaxDiagnostic /\ n <= MaxEntries - Len(Labels(s))
  <2>1. PICK m \in Nat : m = Len(Labels(s)) /\ m <= MaxEntries
    BY <1>3
  <2>2. PICK k \in Nat : k = Room(s) /\ k = MaxEntries - m
    BY <1>1, <2>1 DEF Room
  <2>3. CASE k < MaxDiagnostic
    BY <1>1, <2>1, <2>2, <2>3
  <2>4. CASE ~ (k < MaxDiagnostic)
    BY <1>1, <2>1, <2>2, <2>4
  <2> QED BY <2>3, <2>4
<1>5. Others(s) = Latest(Only(s, Diagnostic), n)
  BY <1>4 DEF Others
<1>6. /\ Others(s) \in Seq(Events) /\ Len(Others(s)) <= n
      /\ ToSet(Others(s)) \subseteq ToSet(s) \cap Diagnostic
  BY <1>2, <1>5, LatestOf
<1>7. Len(Labels(s)) \in Nat /\ Len(Others(s)) \in Nat
  BY <1>3, <1>6
<1>8. Len(Labels(s)) + Len(Others(s)) <= MaxEntries /\ Len(Others(s)) <= MaxDiagnostic
  BY <1>1, <1>4, <1>6, <1>7
<1>9. Cap(s) = Only(s, ToSet(Labels(s)) \cup ToSet(Others(s)))
  BY DEF Cap, Labels, Others, Room
<1> QED BY <1>3, <1>6, <1>8, <1>9

\* What was capped fits, and is from the queue.
LEMMA CapKeeps ==
  ASSUME NEW s \in Seq(Events), Distinct(s)
  PROVE  Kept(Cap(s)) /\ ToSet(Cap(s)) \subseteq ToSet(s)
<1>1. PICK L, O : L = ToSet(Labels(s)) /\ O = ToSet(Others(s))
  OBVIOUS
<1>2. /\ L \subseteq ToSet(s) \ Diagnostic /\ O \subseteq ToSet(s) \cap Diagnostic
      /\ Cap(s) = Only(s, L \cup O) /\ Labels(s) \in Seq(Events) /\ Others(s) \in Seq(Events)
      /\ Len(Labels(s)) + Len(Others(s)) <= MaxEntries /\ Len(Others(s)) <= MaxDiagnostic
  BY <1>1, CapParts
<1>3. /\ Cap(s) \in Seq(Events) /\ Distinct(Cap(s)) /\ ToSet(s) \subseteq Events
      /\ ToSet(Cap(s)) = ToSet(s) \cap (L \cup O)
  BY <1>2, OnlyOf, ElementsOf
<1>4. /\ IsFiniteSet(L) /\ Cardinality(L) <= Len(Labels(s)) /\ Len(Labels(s)) \in Nat
      /\ IsFiniteSet(O) /\ Cardinality(O) <= Len(Others(s)) /\ Len(Others(s)) \in Nat
      /\ Cardinality(L) \in Nat /\ Cardinality(O) \in Nat
  BY <1>1, <1>2, ElementsOf
<1>5. /\ IsFiniteSet(L \cup O)
      /\ Cardinality(L \cup O) = Cardinality(L) + Cardinality(O) - Cardinality(L \cap O)
  BY <1>4, FS_Union
<1>6. L \cap O = {} /\ Cardinality({}) = 0 /\ (L \cup O) \cap Diagnostic = O
  BY <1>2, FS_EmptySet
<1>7. /\ Cardinality(L \cup O) <= MaxEntries
      /\ Cardinality((L \cup O) \cap Diagnostic) <= MaxDiagnostic
  <2>1. Cardinality(L \cup O) = Cardinality(L) + Cardinality(O)
    <3>1. Cardinality(L \cap O) = 0
      BY <1>6
    <3> QED BY <1>4, <1>5, <3>1
  <2>2. MaxEntries \in Nat /\ MaxDiagnostic \in Nat
    BY OutboxAssumption
  <2>3. Cardinality((L \cup O) \cap Diagnostic) = Cardinality(O)
    BY <1>6
  <2>4. Cardinality(L \cup O) <= MaxEntries
    BY <1>2, <1>4, <2>1, <2>2
  <2>5. Cardinality(O) <= MaxDiagnostic
    BY <1>2, <1>4, <2>2
  <2> QED BY <2>3, <2>4, <2>5
<1>8. ToSet(Cap(s)) = L \cup O /\ L \cup O \subseteq Events
  BY <1>2, <1>3
<1> QED BY <1>2, <1>3, <1>5, <1>7, <1>8 DEF Kept, Fits

\* A queue that fits is capped to itself.
LEMMA CapAll ==
  ASSUME NEW s, Kept(s)
  PROVE  ToSet(Cap(s)) = ToSet(s)
<1>1. /\ s \in Seq(Events) /\ Distinct(s) /\ Fits(ToSet(s)) /\ IsFiniteSet(ToSet(s))
      /\ ToSet(s) \subseteq Events /\ Diagnostic \subseteq Events
      /\ MaxEntries \in Nat /\ MaxDiagnostic \in Nat
  BY OutboxAssumption DEF Kept, Fits
<1>2. PICK a, b \in Seq(Events) : a = Only(s, Events \ Diagnostic) /\ b = Only(s, Diagnostic)
  BY <1>1, OnlyOf
<1>3. /\ Distinct(a) /\ ToSet(a) = ToSet(s) \ Diagnostic
      /\ Distinct(b) /\ ToSet(b) = ToSet(s) \cap Diagnostic
  BY <1>1, <1>2, OnlyOf
<1>4. /\ Len(a) = Cardinality(ToSet(a)) /\ Len(a) \in Nat /\ IsFiniteSet(ToSet(a))
      /\ Len(b) = Cardinality(ToSet(b)) /\ Len(b) \in Nat /\ IsFiniteSet(ToSet(b))
  BY <1>2, <1>3, ElementsOf
<1>5. Cardinality(ToSet(s)) = Len(a) + Len(b)
  <2>1. ToSet(a) \cap ToSet(b) = {} /\ ToSet(a) \cup ToSet(b) = ToSet(s) /\ Cardinality({}) = 0
    BY <1>3, FS_EmptySet
  <2>2. Cardinality(ToSet(a) \cup ToSet(b)) =
          Cardinality(ToSet(a)) + Cardinality(ToSet(b)) - Cardinality(ToSet(a) \cap ToSet(b))
    BY <1>4, FS_Union
  <2>3. Cardinality(ToSet(a) \cap ToSet(b)) = 0
    BY <2>1
  <2>4. Cardinality(ToSet(a) \cup ToSet(b)) = Cardinality(ToSet(s))
    BY <2>1
  <2> QED BY <1>4, <2>2, <2>3, <2>4
<1>6. Len(a) + Len(b) <= MaxEntries /\ Len(b) <= MaxDiagnostic
  BY <1>1, <1>3, <1>4, <1>5 DEF Fits
<1>7. Labels(s) = a
  BY <1>1, <1>2, <1>4, <1>6, LatestOf DEF Labels
<1>8. PICK n \in Nat : /\ n = (IF Room(s) < MaxDiagnostic THEN Room(s) ELSE MaxDiagnostic)
                       /\ Len(b) <= n
  BY <1>1, <1>4, <1>6, <1>7 DEF Room
<1>9. Others(s) = b
  BY <1>2, <1>8, LatestOf DEF Others
<1>10. Cap(s) = Only(s, ToSet(a) \cup ToSet(b))
  BY <1>1, <1>7, <1>9, CapParts
<1>11. ToSet(Cap(s)) = ToSet(s) \cap (ToSet(a) \cup ToSet(b))
  BY <1>1, <1>10, OnlyOf
<1> QED BY <1>3, <1>11

\* What is restored is the queue in memory, or what can be read of the file
\* before that.
LEMMA RestoredAll ==
  ASSUME Kept(outbox), Kept(disk), ~ restored => outbox = <<>>, illegible \subseteq Events
  PROVE  /\ Kept(Restored)
         /\ restored => ToSet(Restored) = ToSet(outbox)
         /\ ~ restored => ToSet(Restored) = ToSet(disk) \ illegible
<1>1. CASE restored
  BY <1>1 DEF Restored
<1>2. CASE ~ restored
  <2>1. Kept(Loaded) /\ ToSet(Loaded) = ToSet(disk) \cap (Events \ illegible)
    BY KeptLess DEF Loaded
  <2>2. ToSet(disk) \subseteq Events
    BY DEF Kept, Fits
  <2>3. Loaded \in Seq(Events) /\ Loaded \o <<>> = Loaded /\ Distinct(Loaded)
    BY <2>1, ConcatEmptySeq DEF Kept
  <2>4. Restored = Cap(Loaded)
    BY <1>2, <2>3 DEF Restored
  <2>5. Kept(Cap(Loaded)) /\ ToSet(Cap(Loaded)) = ToSet(Loaded)
    BY <2>1, <2>3, CapKeeps, CapAll
  <2> QED BY <1>2, <2>1, <2>2, <2>4, <2>5
<1> QED BY <1>1, <1>2

-----------------------------------------------------------------------------
(* The invariant                                                           *)

Passes == [sending : Events \cup {Nothing}, retryable : BOOLEAN,
           token : Users \cup {Nobody, Nothing}, attempted : SUBSET Events]

FieldsInv ==
  /\ owner \in Users \cup {Nobody} /\ user \in Users \cup {Nobody}
  /\ ownerOf \in [Events -> Users \cup {Nobody, Nothing}]
  /\ causedBy \in [Events -> Users \cup {Nobody, Nothing}]
  /\ pass \in Passes
  /\ restored \in BOOLEAN /\ listening \in BOOLEAN /\ timer \in BOOLEAN
  /\ seeded \in BOOLEAN /\ enabled \in BOOLEAN
  /\ received \subseteq Events \X Users
  /\ unsaved \in BOOLEAN /\ faults \in 0..MaxFaults /\ switches \in 0..MaxSwitches
  /\ owed \subseteq Events /\ fresh \subseteq owed /\ straddled \subseteq Events
  /\ illegible \subseteq Events

KeptInv == Kept(outbox) /\ Kept(disk)

\* A pass runs over a queue that was restored.
PassInv ==
  /\ ~ restored => outbox = <<>>
  /\ pass.token # Nothing => pass.sending # Nothing
  /\ pass.sending # Nothing => restored

\* The file has what is owed, if it could be written, and what is owed can be
\* read there until the queue is restored.
OwedInv ==
  /\ ~ unsaved => owed \subseteq ToSet(disk)
  /\ ~ restored => owed \cap illegible = {}

Queued == ToSet(outbox) \cup ToSet(disk)

\* What is queued, sent or received was tagged, with the user who caused it
\* unless nobody had signed in.
TagInv ==
  /\ \A e \in Queued : ownerOf[e] # Nothing
  /\ pass.sending # Nothing => ownerOf[pass.sending] # Nothing
  /\ \A r \in received : ownerOf[r[1]] # Nothing
  /\ \A e \in Events : ownerOf[e] \in Users => causedBy[e] = ownerOf[e]
  /\ owner = IF seeded THEN user ELSE Nobody

\* An event may be recorded for a user.
Rightful(e, u) == causedBy[e] = u \/ e \in straddled \/ (ownerOf[e] = Nobody /\ unsaved)

\* What is queued without an owner was caused by the user of the session, and
\* what is sent may be recorded for the user of the token.
SendInv ==
  /\ ~ unsaved => \A e \in Queued : ownerOf[e] = Nobody => causedBy[e] = user
  /\ pass.sending # Nothing =>
       Rightful(pass.sending, IF pass.token = Nothing THEN user ELSE pass.token)

OutInv ==
  /\ FieldsInv /\ KeptInv /\ PassInv /\ OwedInv /\ NoEventLost
  /\ TagInv /\ SendInv /\ SentAsItsUser

-----------------------------------------------------------------------------
(* What the actions do to the file and to the pass                         *)

\* The queue is written to the file, or the write fails.
LEMMA CommitWrites ==
  ASSUME FieldsInv, KeptInv, NEW q, Kept(q), Commit(q)
  PROVE  /\ outbox' = q /\ restored' = TRUE /\ KeptInv' /\ disk' \in {q, disk}
         /\ unsaved' \in BOOLEAN /\ faults' \in 0..MaxFaults /\ illegible' = {}
         /\ unsaved => unsaved'
         /\ ~ unsaved' => disk' = q
<1>1. faults \in 0..MaxFaults /\ MaxFaults \in Nat /\ unsaved \in BOOLEAN
  BY OutboxAssumption DEF FieldsInv
<1>2. outbox' = q /\ restored' = TRUE /\ illegible' = {}
  BY DEF Commit
<1>3. CASE disk' = q /\ UNCHANGED <<unsaved, faults>>
  BY <1>1, <1>2, <1>3 DEF KeptInv
<1>4. CASE Fault /\ unsaved' = TRUE /\ UNCHANGED disk
  BY <1>1, <1>2, <1>4 DEF KeptInv, Fault
<1> QED BY <1>3, <1>4 DEF Commit

\* A new pass, or a pass that went on, has nothing at the network yet: its entry
\* is of the queue, and the owner's.
Picked ==
  /\ pass' \in Passes /\ timer' \in BOOLEAN /\ pass'.token = Nothing
  /\ pass'.sending # Nothing =>
       pass'.sending \in ToSet(outbox') /\ ownerOf'[pass'.sending] = owner'

LEMMA NoPassPicked ==
  /\ NoPass \in Passes /\ NoPass.token = Nothing /\ NoPass.sending = Nothing
BY DEF NoPass, Passes

LEMMA ContinuePicks ==
  ASSUME Kept(outbox'), NEW tried \in SUBSET Events, NEW retryable \in BOOLEAN,
         NEW halted, NEW due \in BOOLEAN, Continue(tried, retryable, halted, due)
  PROVE  Picked
<1>1. PICK q : q = outbox'
  OBVIOUS
<1>2. q \in Seq(Events) /\ ToSet(q) \subseteq Events /\ ToSet(q) = {q[i] : i \in 1..Len(q)}
  BY <1>1, ElementsOf DEF Kept
<1>3. PICK S : S = {e \in Events \ tried : StillOurs(e)}
  OBVIOUS
<1>4. PICK mine \in Seq(Events) : mine = Only(q, S) /\ ToSet(mine) = ToSet(q) \cap S
  BY <1>2, OnlyOf
<1>5. CASE EndPass(retryable)
  <2>1. timer' \in BOOLEAN
    BY <1>5 DEF EndPass
  <2> QED BY <1>5, <2>1, NoPassPicked DEF EndPass, Picked
<1>6. CASE /\ mine # <<>> /\ timer' = due
           /\ pass' = [sending |-> Head(mine), token |-> Nothing,
                       attempted |-> tried \cup {q[i] : i \in {i \in 1..Len(q) :
                                       \A j \in 1..(i - 1) : q[j] # Head(mine)}},
                       retryable |-> retryable]
  <2>1. PICK next \in Events : next = Head(mine) /\ next = mine[1] /\ 1 \in 1..Len(mine)
    BY <1>4, <1>6
  <2>2. next \in ToSet(q) \cap S
    BY <1>4, <2>1, ElementsOf
  <2>3. PICK over \in SUBSET Events :
          over = {q[i] : i \in {i \in 1..Len(q) : \A j \in 1..(i - 1) : q[j] # Head(mine)}}
    BY <1>2
  <2>4. pass' = [sending |-> next, token |-> Nothing, attempted |-> tried \cup over,
                 retryable |-> retryable]
    BY <1>6, <2>1, <2>3
  <2>5. pass' \in Passes /\ pass'.token = Nothing /\ pass'.sending = next
    BY <2>4 DEF Passes
  <2>6. ownerOf'[next] = owner'
    BY <1>3, <2>2 DEF StillOurs
  <2> QED BY <1>1, <1>6, <2>2, <2>5, <2>6 DEF Picked
<1> QED BY <1>1, <1>3, <1>4, <1>5, <1>6 DEF Continue

LEMMA FlushPicks ==
  ASSUME Kept(outbox'), NEW due \in BOOLEAN, Flush(due)
  PROVE  Picked \/ (pass' = pass /\ timer' \in BOOLEAN)
<1>1. CASE Passing \/ outbox' = <<>>
  BY <1>1 DEF Flush
<1>2. CASE ~ (Passing \/ outbox' = <<>>)
  <2>1. Continue({}, FALSE, FALSE, due) /\ {} \in SUBSET Events
    BY <1>2 DEF Flush
  <2> QED BY <2>1, ContinuePicks
<1> QED BY <1>1, <1>2

LEMMA RequestPicks ==
  ASSUME FieldsInv, Kept(outbox'), RequestFlush
  PROVE  Picked \/ (pass' = pass /\ timer' \in BOOLEAN)
BY FlushPicks DEF RequestFlush, FieldsInv, flush

\* What was picked may be recorded for the user of the session.
LEMMA PickedIsOurs ==
  ASSUME FieldsInv', KeptInv', TagInv', Picked,
         ~ unsaved' => \A e \in Queued' : ownerOf'[e] = Nobody => causedBy'[e] = user'
  PROVE  SendInv'
<1>1. CASE pass'.sending = Nothing
  BY <1>1 DEF SendInv
<1>2. CASE pass'.sending # Nothing
  <2>1. PICK e \in Events : e = pass'.sending /\ e \in ToSet(outbox') /\ ownerOf'[e] = owner'
    BY <1>2, ElementsOf DEF Picked, KeptInv, Kept
  <2>2. CASE owner' = Nobody
    BY <2>1, <2>2 DEF SendInv, Rightful, Picked, Queued
  <2>3. CASE owner' # Nobody
    <3>1. owner' = user' /\ owner' \in Users
      BY <2>3 DEF TagInv, FieldsInv
    <3>2. causedBy'[e] = user'
      BY <2>1, <3>1 DEF TagInv
    <3> QED BY <2>1, <3>2 DEF SendInv, Rightful, Picked
  <2> QED BY <2>2, <2>3
<1> QED BY <1>1, <1>2

-----------------------------------------------------------------------------
(* Actions within a session                                                *)

\* A step within a session tags no event, queues nothing that was not queued,
\* and has events recorded for the user of the token at the network only.
Within ==
  /\ ownerOf' = ownerOf /\ causedBy' = causedBy /\ straddled' = straddled
  /\ user' = user /\ owner' = IF seeded' THEN user' ELSE Nobody
  /\ unsaved => unsaved'
  /\ ToSet(outbox') \subseteq Queued /\ ToSet(disk') \subseteq Queued
  /\ \A r \in received' :
       r \in received \/ r \in Recorded(pass.sending, pass.token)
  /\ \/ Picked
     \/ pass'.sending = pass.sending /\ pass'.token = pass.token
     \/ /\ pass'.sending = pass.sending /\ pass.sending # Nothing
        /\ pass.token = Nothing /\ pass'.token = user

LEMMA WithinKeeps ==
  ASSUME OutInv, FieldsInv', KeptInv', PassInv', OwedInv', NoEventLost', Within
  PROVE  OutInv'
<1>1. \A e \in Queued' : e \in Queued
  BY DEF Within, Queued
<1>2. TagInv'
  <2>1. \A e \in Queued' : ownerOf'[e] # Nothing
    BY <1>1 DEF Within, OutInv, TagInv
  <2>2. pass'.sending # Nothing => ownerOf'[pass'.sending] # Nothing
    <3>1. CASE Picked
      BY <2>1, <3>1 DEF Picked, Queued
    <3>2. CASE pass'.sending = pass.sending
      BY <3>2 DEF Within, OutInv, TagInv
    <3> QED BY <3>1, <3>2 DEF Within
  <2>3. \A r \in received' : ownerOf'[r[1]] # Nothing
    <3> TAKE r \in received'
    <3>1. CASE r \in received
      BY <3>1 DEF Within, OutInv, TagInv
    <3>2. CASE r \in Recorded(pass.sending, pass.token)
      <4>1. r[1] = pass.sending /\ pass.token \in Users
        BY <3>2 DEF Recorded
      <4>2. pass.token # Nothing
        BY <4>1, OutboxAssumption
      <4> QED BY <4>1, <4>2 DEF Within, OutInv, TagInv, PassInv
    <3> QED BY <3>1, <3>2 DEF Within
  <2>4. \A e \in Events : ownerOf'[e] \in Users => causedBy'[e] = ownerOf'[e]
    BY DEF Within, OutInv, TagInv
  <2> QED BY <2>1, <2>2, <2>3, <2>4 DEF TagInv, Within
<1>3. ~ unsaved' => \A e \in Queued' : ownerOf'[e] = Nobody => causedBy'[e] = user'
  BY <1>1 DEF Within, OutInv, SendInv
<1>4. SendInv'
  <2>1. CASE Picked
    BY <1>2, <1>3, <2>1, PickedIsOurs
  <2>2. CASE pass'.sending = pass.sending /\ pass'.token = pass.token
    BY <1>3, <2>2 DEF Within, OutInv, SendInv, Rightful
  <2>3. CASE /\ pass'.sending = pass.sending /\ pass.sending # Nothing
             /\ pass.token = Nothing /\ pass'.token = user
    BY <1>3, <2>3 DEF Within, OutInv, SendInv, Rightful
  <2> QED BY <2>1, <2>2, <2>3 DEF Within
<1>5. SentAsItsUser'
  <2> SUFFICES ASSUME NEW r \in received'
               PROVE  r[1] \in straddled' \/ (ownerOf'[r[1]] = Nobody /\ unsaved')
    BY DEF SentAsItsUser
  <2>1. CASE r \in received
    BY <2>1 DEF Within, OutInv, SentAsItsUser
  <2>2. CASE r \in Recorded(pass.sending, pass.token)
    <3>1. r[1] = pass.sending /\ pass.token \in Users /\ causedBy[pass.sending] # pass.token
      BY <2>2 DEF Recorded
    <3>2. pass.token # Nothing
      BY <3>1, OutboxAssumption
    <3>3. Rightful(pass.sending, pass.token)
      BY <3>2 DEF OutInv, PassInv, SendInv
    <3> QED BY <3>1, <3>3 DEF Within, Rightful
  <2> QED BY <2>1, <2>2 DEF Within
<1> QED BY <1>2, <1>4, <1>5 DEF OutInv

LEMMA OutInvFacts ==
  ASSUME OutInv
  PROVE  /\ FieldsInv /\ KeptInv /\ PassInv /\ OwedInv /\ NoEventLost /\ TagInv /\ SendInv
         /\ Kept(outbox) /\ Kept(disk) /\ (~ restored => outbox = <<>>)
         /\ Kept(Restored) /\ ToSet(Restored) \subseteq Queued /\ owed \subseteq ToSet(Restored)
         /\ ToSet(outbox) \subseteq Queued /\ ToSet(disk) \subseteq Queued
         /\ pass \in Passes
<1>1. /\ FieldsInv /\ KeptInv /\ PassInv /\ OwedInv /\ NoEventLost /\ TagInv /\ SendInv
      /\ Kept(outbox) /\ Kept(disk) /\ (~ restored => outbox = <<>>) /\ pass \in Passes
  BY DEF OutInv, KeptInv, PassInv, FieldsInv
<1>2. /\ Kept(Restored)
      /\ restored => ToSet(Restored) = ToSet(outbox)
      /\ ~ restored => ToSet(Restored) = ToSet(disk) \ illegible
  BY <1>1, RestoredAll DEF FieldsInv
<1>3. ToSet(Restored) \subseteq Queued /\ owed \subseteq ToSet(Restored)
  <2>1. CASE restored
    BY <1>1, <1>2, <2>1 DEF Queued, NoEventLost
  <2>2. CASE ~ restored
    <3>1. owed \subseteq ToSet(disk) /\ owed \cap illegible = {}
      BY <1>1, <2>2 DEF NoEventLost, OwedInv
    <3> QED BY <1>2, <2>2, <3>1 DEF Queued
  <2> QED BY <2>1, <2>2
<1> QED BY <1>1, <1>2, <1>3 DEF Queued

LEMMA ReadTokenKeeps ==
  ASSUME OutInv, ReadToken
  PROVE  OutInv'
<1>1. /\ pass.sending # Nothing /\ pass.token = Nothing /\ pass' = [pass EXCEPT !.token = user]
      /\ UNCHANGED <<outbox, disk, restored, unsaved, illegible>>
      /\ UNCHANGED <<timer, listening, owner, user, seeded>>
      /\ UNCHANGED <<ownerOf, enabled, received, causedBy, owed, fresh, straddled>>
      /\ UNCHANGED <<switches, faults>>
  BY DEF ReadToken, stored, who, past
<1>2. pass \in Passes /\ user \in Users \cup {Nobody}
  BY DEF OutInv, FieldsInv
<1>3. /\ pass' \in Passes /\ pass'.sending = pass.sending /\ pass'.token = user
  BY <1>1, <1>2 DEF Passes
<1>4. FieldsInv'
  BY <1>1, <1>3, OutInvFacts DEF FieldsInv
<1>5. KeptInv' /\ OwedInv' /\ NoEventLost'
  BY <1>1, OutInvFacts DEF KeptInv, OwedInv, NoEventLost
<1>6. PassInv'
  BY <1>1, <1>3, OutInvFacts DEF PassInv
<1>7. Within
  BY <1>1, <1>3, OutInvFacts DEF Within, TagInv
<1> QED BY <1>4, <1>5, <1>6, <1>7, WithinKeeps

\* A pass over a queue that was restored.
LEMMA PickedPass ==
  ASSUME Picked, restored'
  PROVE  PassInv'
BY DEF Picked, PassInv

LEMMA RecordedType ==
  ASSUME NEW e \in Events, NEW u
  PROVE  Recorded(e, u) \subseteq Events \X Users
BY DEF Recorded

LEMMA AnsweredKeeps ==
  ASSUME OutInv, Answered
  PROVE  OutInv'
<1>1. /\ pass.token \in Users
      /\ received' \in {received, received \cup Recorded(pass.sending, pass.token)}
      /\ Commit(Only(outbox, Events \ {pass.sending}))
      /\ owed' = owed \ {pass.sending} /\ fresh' = fresh \ {pass.sending}
      /\ UNCHANGED <<listening, owner, user, seeded, ownerOf, enabled, causedBy>>
      /\ UNCHANGED <<straddled, switches>>
      /\ Continue(pass.attempted, pass.retryable, FALSE, timer)
  BY DEF Answered, who
<1>2. pass.token # Nothing /\ pass.sending # Nothing /\ restored
  BY <1>1, OutboxAssumption DEF OutInv, PassInv
<1>3. PICK q : q = Only(outbox, Events \ {pass.sending})
  OBVIOUS
<1>4. Kept(q) /\ ToSet(q) = ToSet(outbox) \cap (Events \ {pass.sending})
  BY <1>3, OutInvFacts, KeptLess
<1>5. /\ outbox' = q /\ restored' = TRUE /\ KeptInv' /\ disk' \in {q, disk}
      /\ unsaved' \in BOOLEAN /\ faults' \in 0..MaxFaults /\ illegible' = {}
      /\ unsaved => unsaved'
      /\ ~ unsaved' => disk' = q
  BY <1>1, <1>3, <1>4, OutInvFacts, CommitWrites
<1>6. /\ pass.attempted \in SUBSET Events /\ pass.retryable \in BOOLEAN /\ timer \in BOOLEAN
      /\ pass.sending \in Events
  BY <1>2, OutInvFacts DEF Passes, FieldsInv
<1>7. Picked
  BY <1>1, <1>4, <1>5, <1>6, ContinuePicks
<1>8. FieldsInv'
  <2>1. Recorded(pass.sending, pass.token) \subseteq Events \X Users
    BY <1>6, RecordedType
  <2> QED BY <1>1, <1>5, <1>6, <1>7, <2>1, OutInvFacts DEF FieldsInv, Picked
<1>9. owed' \subseteq ToSet(q)
  <2>1. owed \subseteq ToSet(outbox) /\ owed \subseteq Events
    BY <1>2, OutInvFacts DEF NoEventLost, FieldsInv
  <2> QED BY <1>1, <1>4, <2>1
<1>10. NoEventLost' /\ OwedInv'
  BY <1>5, <1>9 DEF NoEventLost, OwedInv
<1>11. PassInv'
  BY <1>5, <1>7, PickedPass
<1>12. Within
  <2>1. ToSet(outbox') \subseteq Queued /\ ToSet(disk') \subseteq Queued
    BY <1>4, <1>5 DEF Queued
  <2> QED BY <1>1, <1>5, <1>7, <2>1, OutInvFacts DEF Within, TagInv
<1> QED BY <1>5, <1>8, <1>10, <1>11, <1>12, WithinKeeps

\* The pass goes on after a failure, or ends: the queue stays as it is.
LEMMA FailureKeeps ==
  ASSUME OutInv, pass.sending # Nothing, NEW halted, Continue(pass.attempted, TRUE, halted, timer),
         UNCHANGED <<outbox, disk, restored, unsaved, illegible>>, faults' \in 0..MaxFaults,
         UNCHANGED <<listening, owner, user, seeded, ownerOf, enabled>>,
         UNCHANGED <<causedBy, owed, fresh, straddled, switches>>,
         received' \in {received, received \cup Recorded(pass.sending, pass.token)}
  PROVE  OutInv'
<1>1. /\ pass.attempted \in SUBSET Events /\ TRUE \in BOOLEAN /\ timer \in BOOLEAN
      /\ pass.sending \in Events
  BY OutInvFacts DEF Passes, FieldsInv
<1>2. KeptInv' /\ Kept(outbox') /\ restored'
  BY OutInvFacts DEF KeptInv, PassInv
<1>3. Picked
  BY <1>1, <1>2, ContinuePicks
<1>4. FieldsInv'
  <2>1. Recorded(pass.sending, pass.token) \subseteq Events \X Users
    BY <1>1, RecordedType
  <2> QED BY <1>1, <1>3, <2>1, OutInvFacts DEF FieldsInv, Picked
<1>5. NoEventLost' /\ OwedInv'
  BY OutInvFacts DEF NoEventLost, OwedInv
<1>6. PassInv'
  BY <1>2, <1>3, PickedPass
<1>7. Within
  BY <1>3, OutInvFacts DEF Within, TagInv
<1> QED BY <1>2, <1>4, <1>5, <1>6, <1>7, WithinKeeps

LEMMA RetryableFailureKeeps ==
  ASSUME OutInv, RetryableFailure
  PROVE  OutInv'
<1>1. pass.sending # Nothing
  BY DEF RetryableFailure, OutInv, PassInv
<1>2. faults' \in 0..MaxFaults
  BY OutInvFacts, OutboxAssumption DEF RetryableFailure, Fault, FieldsInv
<1>3. /\ Continue(pass.attempted, TRUE, FALSE, timer) /\ received' = received
      /\ UNCHANGED <<outbox, disk, restored, unsaved, illegible>>
      /\ UNCHANGED <<listening, owner, user, seeded, ownerOf, enabled>>
      /\ UNCHANGED <<causedBy, owed, fresh, straddled, switches>>
  BY DEF RetryableFailure, stored, who, past
<1> QED BY <1>1, <1>2, <1>3, FailureKeeps

LEMMA OfflineKeeps ==
  ASSUME OutInv, Offline
  PROVE  OutInv'
<1>1. pass.sending # Nothing
  BY DEF Offline
<1>2. faults' \in 0..MaxFaults
  BY OutInvFacts, OutboxAssumption DEF Offline, Fault, FieldsInv
<1>3. /\ Continue(pass.attempted, TRUE, TRUE, timer)
      /\ UNCHANGED <<outbox, disk, restored, unsaved, illegible>>
      /\ UNCHANGED <<listening, owner, user, seeded, ownerOf, enabled>>
      /\ UNCHANGED <<causedBy, owed, fresh, straddled, switches>>
  BY DEF Offline, stored, who, past
<1>4. received' \in {received, received \cup Recorded(pass.sending, pass.token)}
  BY DEF Offline
<1> QED BY <1>1, <1>2, <1>3, <1>4, FailureKeeps

\* The queue is restored, and a pass may begin.
LEMMA RestoreKeeps ==
  ASSUME OutInv, Restore, Picked \/ (pass' = pass /\ timer' \in BOOLEAN), enabled' \in BOOLEAN,
         UNCHANGED <<listening, owner, user, seeded, ownerOf, received, faults>>,
         UNCHANGED <<causedBy, owed, fresh, straddled, switches>>
  PROVE  OutInv'
<1>1. /\ outbox' = Restored /\ restored' = TRUE /\ disk' = disk /\ unsaved' = unsaved
      /\ illegible' = {}
  BY DEF Restore
<1>2. pass' \in Passes /\ timer' \in BOOLEAN
  BY OutInvFacts DEF Picked
<1>3. FieldsInv'
  BY <1>1, <1>2, OutInvFacts DEF FieldsInv
<1>4. KeptInv' /\ OwedInv' /\ NoEventLost'
  BY <1>1, OutInvFacts DEF KeptInv, OwedInv, NoEventLost
<1>5. PassInv'
  BY <1>1, OutInvFacts, PickedPass DEF PassInv
<1>6. Within
  <2>1. ToSet(outbox') \subseteq Queued /\ ToSet(disk') \subseteq Queued
    BY <1>1, OutInvFacts
  <2> QED BY <1>1, <2>1, OutInvFacts DEF Within, TagInv
<1> QED BY <1>3, <1>4, <1>5, <1>6, WithinKeeps

\* Nothing changes but the kill switch.
LEMMA SwitchKeeps ==
  ASSUME OutInv, UNCHANGED <<outbox, disk, restored, unsaved, illegible>>,
         UNCHANGED <<pass, timer>>,
         enabled' \in BOOLEAN, faults' \in 0..MaxFaults,
         UNCHANGED <<listening, owner, user, seeded, ownerOf, received>>,
         UNCHANGED <<causedBy, owed, fresh, straddled, switches>>
  PROVE  OutInv'
<1>1. FieldsInv'
  BY OutInvFacts DEF FieldsInv
<1>2. KeptInv' /\ PassInv' /\ OwedInv' /\ NoEventLost'
  BY OutInvFacts DEF KeptInv, PassInv, OwedInv, NoEventLost
<1>3. Within
  BY OutInvFacts DEF Within, TagInv
<1> QED BY <1>1, <1>2, <1>3, WithinKeeps

LEMMA RetryTimerKeeps ==
  ASSUME OutInv, RetryTimer
  PROVE  OutInv'
<1>1. /\ Restore /\ Flush(FALSE) /\ enabled' \in BOOLEAN
      /\ UNCHANGED <<listening, owner, user, seeded, ownerOf, received, faults>>
      /\ UNCHANGED <<causedBy, owed, fresh, straddled, switches>>
  BY OutInvFacts DEF RetryTimer, who, past, FieldsInv
<1>2. Kept(outbox') /\ FALSE \in BOOLEAN
  BY <1>1, OutInvFacts DEF Restore
<1>3. Picked \/ (pass' = pass /\ timer' \in BOOLEAN)
  BY <1>1, <1>2, FlushPicks
<1> QED BY <1>1, <1>3, RestoreKeeps

LEMMA ForegroundKeeps ==
  ASSUME OutInv, Foreground
  PROVE  OutInv'
<1>1. /\ RequestFlush /\ enabled' \in BOOLEAN /\ faults' \in 0..MaxFaults
      /\ UNCHANGED <<listening, owner, user, seeded, ownerOf, received, faults>>
      /\ UNCHANGED <<causedBy, owed, fresh, straddled, switches>>
  BY OutInvFacts DEF Foreground, who, past, FieldsInv
<1>2. CASE timer
  BY <1>1, <1>2, SwitchKeeps DEF Foreground, RequestFlush, stored, flush
<1>3. CASE ~ timer
  <2>1. Restore
    BY <1>3 DEF Foreground
  <2>2. Kept(outbox')
    BY <2>1, OutInvFacts DEF Restore
  <2>3. Picked \/ (pass' = pass /\ timer' \in BOOLEAN)
    BY <1>1, <2>2, OutInvFacts, RequestPicks
  <2> QED BY <1>1, <2>1, <2>3, RestoreKeeps
<1> QED BY <1>2, <1>3

LEMMA KillSwitchOffKeeps ==
  ASSUME OutInv, KillSwitchOff
  PROVE  OutInv'
<1>1. faults' \in 0..MaxFaults
  BY OutInvFacts, OutboxAssumption DEF KillSwitchOff, Fault, FieldsInv
<1> QED BY <1>1, SwitchKeeps DEF KillSwitchOff, stored, flush, who, past

LEMMA KillSwitchOnKeeps ==
  ASSUME OutInv, KillSwitchOn
  PROVE  OutInv'
<1>1. /\ Restore /\ Flush(timer) /\ enabled' \in BOOLEAN /\ timer \in BOOLEAN
      /\ UNCHANGED <<listening, owner, user, seeded, ownerOf, received, faults>>
      /\ UNCHANGED <<causedBy, owed, fresh, straddled, switches>>
  BY OutInvFacts DEF KillSwitchOn, who, past, FieldsInv
<1>2. Kept(outbox')
  BY <1>1, OutInvFacts DEF Restore
<1>3. Picked \/ (pass' = pass /\ timer' \in BOOLEAN)
  BY <1>1, <1>2, FlushPicks
<1> QED BY <1>1, <1>3, RestoreKeeps

LEMMA RelaunchAppKeeps ==
  ASSUME OutInv, RelaunchApp
  PROVE  OutInv'
<1>1. /\ outbox' = <<>> /\ restored' = FALSE /\ listening' = FALSE /\ timer' = FALSE
      /\ pass' = NoPass /\ owner' = Nobody /\ seeded' = FALSE /\ fresh' = {}
      /\ illegible' \subseteq ToSet(disk)
      /\ owed' = (IF ~ unsaved THEN owed ELSE owed \cap ToSet(disk)) \ illegible'
      /\ UNCHANGED <<disk, unsaved, ownerOf, user, enabled, received, causedBy>>
      /\ UNCHANGED <<straddled, switches>> /\ faults' \in 0..MaxFaults
  BY OutInvFacts, OutboxAssumption DEF RelaunchApp, Fault, FieldsInv
<1>2. /\ pass' \in Passes /\ pass'.token = Nothing /\ pass'.sending = Nothing
  BY <1>1, NoPassPicked
<1>3. /\ owed' \subseteq ToSet(disk) /\ owed' \subseteq owed
      /\ owed' \cap illegible' = {} /\ illegible' \subseteq Events
  <2>1. ToSet(disk) \subseteq Events
    BY OutInvFacts DEF Kept, Fits
  <2> QED BY <1>1, <2>1, OutInvFacts DEF OwedInv
<1>4. FieldsInv'
  BY <1>1, <1>2, <1>3, OutInvFacts DEF FieldsInv
<1>5. Kept(outbox') /\ ToSet(outbox') = {}
  BY <1>1, NothingKept
<1>6. KeptInv' /\ OwedInv' /\ NoEventLost'
  BY <1>1, <1>3, <1>5, OutInvFacts DEF KeptInv, OwedInv, NoEventLost
<1>7. PassInv'
  BY <1>1, <1>2 DEF PassInv
<1>8. Within
  <2>1. Picked
    BY <1>1, <1>2 DEF Picked
  <2> QED BY <1>1, <1>5, <2>1, OutInvFacts DEF Within
<1> QED BY <1>4, <1>6, <1>7, <1>8, WithinKeeps

-----------------------------------------------------------------------------
(* Enqueue, and the session                                                *)

LEMMA EnqueueKeeps ==
  ASSUME OutInv, NEW e \in Events, Enqueue(e)
  PROVE  OutInv'
<1>1. PICK q : q = Append(Restored, e)
  OBVIOUS
<1>2. /\ ownerOf[e] = Nothing /\ ownerOf' = [ownerOf EXCEPT ![e] = owner]
      /\ causedBy' = [causedBy EXCEPT ![e] = user] /\ listening' = TRUE
      /\ Commit(Cap(q)) /\ owed' = (owed \cup {e}) \ (ToSet(q) \ ToSet(Cap(q)))
      /\ fresh' = (fresh \cup (IF owner = Nobody THEN {} ELSE {e})) \cap owed'
      /\ UNCHANGED <<owner, user, seeded, enabled, received, straddled, switches>>
      /\ RequestFlush
  BY <1>1 DEF Enqueue, who
<1>3. /\ Restored \in Seq(Events) /\ Distinct(Restored) /\ e \notin ToSet(Restored)
  BY <1>2, OutInvFacts DEF Kept, TagInv
<1>4. q \in Seq(Events) /\ Distinct(q) /\ ToSet(q) = ToSet(Restored) \cup {e}
  BY <1>1, <1>3, AppendedOf
<1>5. Kept(Cap(q)) /\ ToSet(Cap(q)) \subseteq ToSet(q)
  BY <1>4, CapKeeps
<1>6. /\ outbox' = Cap(q) /\ restored' = TRUE /\ KeptInv' /\ disk' \in {Cap(q), disk}
      /\ unsaved' \in BOOLEAN /\ faults' \in 0..MaxFaults /\ illegible' = {}
      /\ unsaved => unsaved'
      /\ ~ unsaved' => disk' = Cap(q)
  BY <1>2, <1>5, OutInvFacts, CommitWrites
<1>7. Picked \/ (pass' = pass /\ timer' \in BOOLEAN)
  <2>1. Kept(outbox')
    BY <1>5, <1>6
  <2> QED BY <1>2, <2>1, OutInvFacts, RequestPicks
<1>8. FieldsInv
  BY OutInvFacts
<1>9. /\ ownerOf'[e] = owner /\ causedBy'[e] = user /\ owner # Nothing
      /\ \A x \in Events : x # e => ownerOf'[x] = ownerOf[x] /\ causedBy'[x] = causedBy[x]
  BY <1>2, <1>8, OutboxAssumption DEF FieldsInv
<1>10. FieldsInv'
  <2>1. /\ ownerOf' \in [Events -> Users \cup {Nobody, Nothing}]
        /\ causedBy' \in [Events -> Users \cup {Nobody, Nothing}]
    BY <1>2, <1>8 DEF FieldsInv
  <2>2. owed' \subseteq Events /\ fresh' \subseteq owed'
    BY <1>2, <1>8 DEF FieldsInv
  <2>3. pass' \in Passes /\ timer' \in BOOLEAN
    BY <1>7, <1>8 DEF FieldsInv, Picked
  <2> QED BY <1>2, <1>6, <1>8, <2>1, <2>2, <2>3 DEF FieldsInv
<1>11. owed' \subseteq ToSet(Cap(q))
  BY <1>2, <1>4, OutInvFacts
<1>12. NoEventLost' /\ OwedInv'
  BY <1>6, <1>11 DEF NoEventLost, OwedInv
<1>13. PassInv'
  BY <1>6, <1>7, OutInvFacts, PickedPass DEF PassInv
<1>14. \A x \in Queued' : x \in Events /\ (x = e \/ x \in Queued)
  <2>1. ToSet(outbox') \subseteq ToSet(q) /\ ToSet(disk') \subseteq ToSet(q) \cup ToSet(disk)
    BY <1>5, <1>6
  <2>2. ToSet(q) \subseteq Queued \cup {e} /\ ToSet(disk) \subseteq Queued
    BY <1>4, OutInvFacts
  <2>3. ToSet(outbox') \subseteq Events /\ ToSet(disk') \subseteq Events
    BY <1>6, ElementsOf DEF KeptInv, Kept
  <2> QED BY <2>1, <2>2, <2>3 DEF Queued
<1>15. /\ pass.sending # Nothing => pass.sending \in Events /\ pass.sending # e
       /\ \A r \in received : r[1] \in Events /\ r[1] # e
  BY <1>2, OutInvFacts DEF TagInv, FieldsInv, Passes
<1>16. TagInv'
  <2>1. \A x \in Queued' : ownerOf'[x] # Nothing
    BY <1>9, <1>14, OutInvFacts DEF TagInv
  <2>2. pass'.sending # Nothing => ownerOf'[pass'.sending] # Nothing
    BY <1>7, <1>9, <1>15, <2>1, OutInvFacts DEF Picked, Queued, TagInv
  <2>3. \A r \in received' : ownerOf'[r[1]] # Nothing
    BY <1>2, <1>9, <1>15, OutInvFacts DEF TagInv
  <2>4. owner \in Users => owner = user
    BY OutInvFacts, OutboxAssumption DEF TagInv
  <2>5. \A x \in Events : ownerOf'[x] \in Users => causedBy'[x] = ownerOf'[x]
    BY <1>9, <2>4, OutInvFacts DEF TagInv
  <2>6. owner' = IF seeded' THEN user' ELSE Nobody
    BY <1>2, OutInvFacts DEF TagInv
  <2> QED BY <2>1, <2>2, <2>3, <2>5, <2>6 DEF TagInv
<1>17. ~ unsaved' => \A x \in Queued' : ownerOf'[x] = Nobody => causedBy'[x] = user'
  BY <1>2, <1>6, <1>9, <1>14, OutInvFacts DEF SendInv
<1>18. SendInv'
  <2>1. CASE Picked
    BY <1>6, <1>10, <1>16, <1>17, <2>1, PickedIsOurs
  <2>2. CASE pass' = pass
    BY <1>2, <1>6, <1>9, <1>15, <1>17, <2>2, OutInvFacts DEF SendInv, Rightful
  <2> QED BY <1>7, <2>1, <2>2
<1>19. SentAsItsUser'
  BY <1>2, <1>6, <1>9, <1>15 DEF OutInv, SentAsItsUser
<1> QED BY <1>6, <1>10, <1>12, <1>13, <1>16, <1>18, <1>19 DEF OutInv

\* The queue, the file, and the owner after the session of u was applied.
LEMMA SessionKeeps ==
  ASSUME OutInv, NEW u \in Users \cup {Nobody}, seeded' = TRUE, user' = u, owner' = u,
         KeptInv', restored' = TRUE, illegible' = {},
         unsaved' \in BOOLEAN, faults' \in 0..MaxFaults,
         unsaved => unsaved', switches' \in 0..MaxSwitches, timer' \in BOOLEAN,
         ToSet(outbox') \subseteq Queued, ToSet(disk') \subseteq Queued,
         ~ unsaved' => user = u \/ Queued' = {},
         owed' \subseteq ToSet(outbox'), owed' \subseteq owed, OwedInv', fresh' = fresh \cap owed',
         straddled' = straddled \cup
           (IF user # u /\ pass.token = Nothing THEN {pass.sending} \ {Nothing} ELSE {}),
         UNCHANGED <<listening, ownerOf, pass, enabled, received, causedBy>>
  PROVE  OutInv'
<1>1. pass.sending # Nothing => pass.sending \in Events
  BY OutInvFacts DEF Passes
<1>2. FieldsInv'
  BY <1>1, OutInvFacts DEF FieldsInv
<1>3. NoEventLost' /\ PassInv'
  BY OutInvFacts DEF NoEventLost, PassInv
<1>4. \A e \in Queued' : e \in Queued
  BY DEF Queued
<1>5. TagInv'
  BY <1>4, OutInvFacts DEF TagInv
<1>6. ~ unsaved' => \A e \in Queued' : ownerOf'[e] = Nobody => causedBy'[e] = user'
  BY <1>4, OutInvFacts DEF SendInv
<1>7. pass.sending # Nothing =>
        Rightful(pass.sending, IF pass.token = Nothing THEN u ELSE pass.token)'
  <2> SUFFICES ASSUME pass.sending # Nothing
               PROVE  Rightful(pass.sending, IF pass.token = Nothing THEN u ELSE pass.token)'
    OBVIOUS
  <2>1. Rightful(pass.sending, IF pass.token = Nothing THEN user ELSE pass.token)
    BY OutInvFacts DEF SendInv
  <2>2. CASE user # u /\ pass.token = Nothing
    BY <2>2 DEF Rightful
  <2>3. CASE ~ (user # u /\ pass.token = Nothing)
    BY <2>1, <2>3 DEF Rightful
  <2> QED BY <2>2, <2>3
<1>8. SendInv'
  BY <1>6, <1>7 DEF SendInv, Rightful
<1>9. SentAsItsUser'
  BY DEF OutInv, SentAsItsUser
<1> QED BY <1>2, <1>3, <1>5, <1>8, <1>9 DEF OutInv

LEMMA ApplySessionKeeps ==
  ASSUME OutInv, NEW u \in Users \cup {Nobody}, ApplySession(u)
  PROVE  OutInv'
<1>1. PICK leaves \in BOOLEAN : leaves = (seeded /\ user # u)
  OBVIOUS
<1>2. PICK base : base = IF leaves THEN <<>> ELSE Restored
  OBVIOUS
<1>3. PICK kept : kept = IF u = Nobody THEN base ELSE Only(base, {e \in Events : ownerOf[e] = u})
  OBVIOUS
<1>4. /\ IF user # u THEN seeded /\ switches < MaxSwitches /\ switches' = switches + 1
                     ELSE UNCHANGED switches
      /\ seeded' = TRUE /\ user' = u /\ owner' = u
      /\ IF leaves \/ kept # base THEN Commit(kept) ELSE Restore
      /\ timer' = (timer /\ ~ leaves)
      /\ owed' = IF leaves THEN {}
                 ELSE IF u = Nobody THEN owed ELSE {e \in owed : ownerOf[e] = u}
      /\ fresh' = fresh \cap owed'
      /\ straddled' = straddled \cup
           (IF user # u /\ pass.token = Nothing THEN {pass.sending} \ {Nothing} ELSE {})
      /\ UNCHANGED <<listening, ownerOf, pass, enabled, received, causedBy>>
  BY <1>1, <1>2, <1>3 DEF ApplySession
<1>5. Kept(base) /\ ToSet(base) \subseteq Queued /\ (leaves => ToSet(base) = {})
  BY <1>2, OutInvFacts, NothingKept
<1>6. /\ Kept(kept) /\ ToSet(kept) \subseteq ToSet(base)
      /\ u # Nobody => ToSet(kept) = ToSet(base) \cap {e \in Events : ownerOf[e] = u}
  BY <1>3, <1>5, KeptLess
<1>7. /\ outbox' = kept /\ restored' = TRUE /\ KeptInv' /\ illegible' = {}
      /\ unsaved' \in BOOLEAN /\ faults' \in 0..MaxFaults /\ (unsaved => unsaved')
      /\ disk' \in {kept, disk}
      /\ leaves /\ ~ unsaved' => disk' = kept
      /\ ~ unsaved' => disk' = kept \/ (disk' = disk /\ ~ unsaved)
  <2>1. CASE leaves \/ kept # base
    <3>1. Commit(kept)
      BY <1>4, <2>1
    <3> QED BY <1>6, <3>1, OutInvFacts, CommitWrites
  <2>2. CASE ~ (leaves \/ kept # base)
    <3>1. /\ outbox' = Restored /\ restored' = TRUE /\ disk' = disk /\ unsaved' = unsaved
          /\ faults' = faults /\ kept = Restored /\ illegible' = {}
      BY <1>2, <1>4, <2>2 DEF Restore
    <3> QED BY <2>2, <3>1, OutInvFacts DEF KeptInv, FieldsInv
  <2> QED BY <2>1, <2>2
<1>8. owed' \subseteq owed /\ owed \subseteq Events
  BY <1>4, OutInvFacts DEF FieldsInv
<1>9. owed' \subseteq ToSet(kept)
  <2>1. CASE leaves
    BY <1>4, <2>1
  <2>2. CASE ~ leaves
    <3>1. ToSet(base) = ToSet(Restored) /\ owed \subseteq ToSet(base)
      BY <1>2, <2>2, OutInvFacts
    <3>2. CASE u = Nobody
      BY <1>3, <1>4, <2>2, <3>1, <3>2
    <3>3. CASE u # Nobody
      BY <1>4, <1>6, <1>8, <2>2, <3>1, <3>3
    <3> QED BY <3>2, <3>3
  <2> QED BY <2>1, <2>2
<1>10. OwedInv'
  BY <1>7, <1>8, <1>9, OutInvFacts DEF OwedInv
<1>11. ToSet(outbox') \subseteq Queued /\ ToSet(disk') \subseteq Queued
  BY <1>5, <1>6, <1>7, OutInvFacts
<1>12. ~ unsaved' => user = u \/ Queued' = {}
  <2>1. user # u => leaves
    BY <1>1, <1>4
  <2>2. leaves /\ ~ unsaved' => ToSet(outbox') = {} /\ ToSet(disk') = {}
    BY <1>5, <1>6, <1>7
  <2> QED BY <2>1, <2>2 DEF Queued
<1>13. switches' \in 0..MaxSwitches /\ timer' \in BOOLEAN
  BY <1>4, OutInvFacts, OutboxAssumption DEF FieldsInv
<1> QED BY <1>4, <1>7, <1>8, <1>9, <1>10, <1>11, <1>12, <1>13, SessionKeeps

-----------------------------------------------------------------------------
(* The theorems                                                            *)

LEMMA OutInit ==
  ASSUME OutboxInit
  PROVE  OutInv
<1>1. /\ 0 \in 0..MaxFaults /\ 0 \in 0..MaxSwitches
  BY OutboxAssumption
<1>2. FieldsInv
  BY <1>1, NoPassPicked DEF OutboxInit, FieldsInv
<1>3. KeptInv /\ ToSet(outbox) = {} /\ ToSet(disk) = {}
  BY NothingKept DEF OutboxInit, KeptInv
<1>4. PassInv /\ OwedInv /\ NoEventLost
  BY NoPassPicked DEF OutboxInit, PassInv, OwedInv, NoEventLost
<1>5. TagInv
  BY <1>3, NoPassPicked, OutboxAssumption DEF OutboxInit, TagInv, Queued
<1>6. SendInv /\ SentAsItsUser
  BY <1>3, NoPassPicked DEF OutboxInit, SendInv, Queued, SentAsItsUser
<1> QED BY <1>2, <1>3, <1>4, <1>5, <1>6 DEF OutInv

LEMMA OutStep ==
  ASSUME OutInv, [OutboxNext]_outboxVars
  PROVE  OutInv'
<1>1. CASE \E e \in Events : Enqueue(e)
  BY <1>1, EnqueueKeeps
<1>2. CASE Send
  BY <1>2, ReadTokenKeeps, AnsweredKeeps, RetryableFailureKeeps, OfflineKeeps DEF Send
<1>3. CASE RetryTimer \/ Foreground
  BY <1>3, RetryTimerKeeps, ForegroundKeeps
<1>4. CASE KillSwitchOff \/ KillSwitchOn \/ RelaunchApp
  BY <1>4, KillSwitchOffKeeps, KillSwitchOnKeeps, RelaunchAppKeeps
<1>5. CASE \E u \in Users \cup {Nobody} : ApplySession(u)
  BY <1>5, ApplySessionKeeps
<1>6. CASE UNCHANGED outboxVars
  <2>1. enabled' \in BOOLEAN /\ faults' \in 0..MaxFaults
    BY <1>6, OutInvFacts DEF outboxVars, FieldsInv
  <2> QED BY <1>6, <2>1, SwitchKeeps DEF outboxVars
<1> QED BY <1>1, <1>2, <1>3, <1>4, <1>5, <1>6 DEF OutboxNext

\* The type invariant of the outbox: in particular, neither the queue nor its
\* file ever has more entries than the cap (capOutbox) lets through.
THEOREM OutboxTypeCorrect == OutboxSpec => []OutboxTypeOK
<1>1. OutInv => OutboxTypeOK
  <2> SUFFICES ASSUME OutInv PROVE OutboxTypeOK
    OBVIOUS
  <2>1. ASSUME NEW s, Kept(s) PROVE s \in Seq(Events) /\ Len(s) <= MaxEntries
    <3>1. s \in Seq(Events) /\ Len(s) = Cardinality(ToSet(s))
      BY <2>1, ElementsOf DEF Kept
    <3> QED BY <2>1, <3>1 DEF Kept, Fits
  <2> QED BY <2>1, OutInvFacts DEF OutboxTypeOK, FieldsInv, Passes
<1> QED BY <1>1, OutInit, OutStep, PTL DEF OutboxSpec

\* Whatever was enqueued and is not settled is in the queue, or in the file
\* until the queue is restored from it, through every flush, answer, change of
\* session and failed write, for every cap and number of events: only a process
\* that ends before a write got through, and a launch that cannot read the file
\* or some of its entries, lose any.
THEOREM OwedIsKept == OutboxSpec => []NoEventLost
<1>1. OutInv => NoEventLost
  BY DEF OutInv
<1> QED BY <1>1, OutInit, OutStep, PTL DEF OutboxSpec

\* The server records an event for the user who caused it, with the exceptions
\* SentAsItsUser names: send's token is of the user the entry is tagged with.
THEOREM NoEventForAnother == OutboxSpec => []SentAsItsUser
<1>1. OutInv => SentAsItsUser
  BY DEF OutInv
<1> QED BY <1>1, OutInit, OutStep, PTL DEF OutboxSpec
=============================================================================
