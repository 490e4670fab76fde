---------------------------- MODULE AudioProofs ----------------------------
(***************************************************************************)
(* What TLAPS proves of AudioObjects, for any number of tracks, workers    *)
(* and deletions.  No staged object that is served is deleted, with        *)
(* stalls, crashes, the sweep and failing queries, as long as the store    *)
(* loses nothing by itself; and without the sweep no object is leaked but  *)
(* by the death of who had it in hand or an error that is only logged.     *)
(*                                                                         *)
(* The argument: a staged key belongs to one attempt, the fence says to    *)
(* which.  It is upcoming while its attempt may still commit it, and never *)
(* again once that attempt is past.  Whoever may delete an object has got  *)
(* its key from a past attempt, so an upcoming key is in nobody's hands,   *)
(* and one that is served is not in the hands of those who delete.         *)
(*                                                                         *)
(* That nothing is leaked is a matter of handing over: who lets go of an   *)
(* object has put somebody else in charge of it.  The one hand-over that   *)
(* is not obvious is the commit of a replacement, which overwrites the key *)
(* its track has and sees to the one it loaded: while its fence matches    *)
(* these are the same (OldInv).                                            *)
(*                                                                         *)
(* Of CooldownGate, for any number of requests and any cooldown that is    *)
(* longer than a statement: the window is kept.                            *)
(*                                                                         *)
(* The argument: an admission stays in the row for a cooldown, unless the  *)
(* request itself takes it back.  Once it has left the row, its cooldown   *)
(* is over, and a statement that finds the row free then has read the      *)
(* clock at most the time of a statement ago.                              *)
(*                                                                         *)
(* Of DownloadWalk, for any number of candidates, any width of the windows *)
(* and any limits: only the selected file's directory is left, and what is *)
(* handed over is what trying the candidates one by one would hand over.   *)
(*                                                                         *)
(* The argument: nobody is cut short but by an audio-only file ranked      *)
(* above, so the first such file of a window has run to its end.  Merging  *)
(* goes through the window in the order of the ranks; after each result    *)
(* the book accounts for every file not rejected (BookAccounts), its       *)
(* winner is the first audio-only file or the better muxed one before it   *)
(* (FirstWins), and its best effort is the best that was held (BestHeld).  *)
(***************************************************************************)
EXTENDS AudioObjects, CooldownGate, DownloadWalk, FilteringProofs, FiniteSetTheorems,
        TLAPS

-----------------------------------------------------------------------------
(* The inductive invariant                                                 *)

Fences == 0..MaxFence

\* The attempt that carries fence f of track t may still commit.
Underway == {"claimed", "working", "storing", "stored"}

\* The attempt knows what its track served when it was loaded.
Working == {"working", "storing", "stored"}

Carries(w, t, f) ==
  proc[w].pc \in Underway /\ proc[w].track = t /\ proc[w].fence = f

Upcoming(t, f) ==
  \/ row[t].status # "deleted" /\ f > row[t].fence
  \/ \E w \in Workers : Carries(w, t, f)

\* A process or the sweep may come to delete the object, now or later.
DoomedBy(p, o) ==
  \/ proc[p].pc \in {"checking", "deleting"} /\ proc[p].ref = o
  \/ proc[p].pc = "superseding" /\ proc[p].old = o

Doomed(o) ==
  \/ \E p \in Processes : DoomedBy(p, o)
  \/ orphan[o] # "none"
  \/ sweep # Idle /\ sweep.ref = o

\* The run of w replaces the object.
Replaces(w, o) == proc[w].pc \in Working /\ proc[w].old = o

\* The key is known to others than its attempt.
Spent(t, o) == Doomed(o) \/ row[t].ref = o \/ \E w \in Workers : Replaces(w, o)

\* Two runs carry different fences, none beyond that of the row.
FenceInv ==
  /\ \A w \in Workers :
       proc[w].pc # "idle" /\ row[proc[w].track].status # "deleted"
         => proc[w].fence <= row[proc[w].track].fence
  /\ \A v, w \in Workers :
       v # w /\ proc[v].pc # "idle" /\ proc[w].pc # "idle" /\ proc[v].track = proc[w].track
         => proc[v].fence # proc[w].fence

\* A staged key names the track that serves or replaces it, and the attempt
\* that stores it.
OfTrack(t, o) == o \in StagedRefs => \E f \in Fences : o = StagedRef(t, f)

RunInv(w) ==
  /\ proc[w].pc = "claimed" => proc[w].old = NoRef
  /\ proc[w].pc \in {"storing", "stored"} /\ proc[w].ref \in StagedRefs
       => proc[w].ref = StagedRef(proc[w].track, proc[w].fence)
  /\ proc[w].pc = "stored" /\ proc[w].ref \in StagedRefs
       => proc[w].ref \in objects \/ "vanish" \in may
  /\ proc[w].pc \in Working => OfTrack(proc[w].track, proc[w].old)

KeyInv == (\A t \in Tracks : OfTrack(t, row[t].ref)) /\ (\A w \in Workers : RunInv(w))

\* Nobody but its attempt knows an upcoming key.
UpcomingInv ==
  \A t \in Tracks, f \in Fences : Upcoming(t, f) => ~ Spent(t, StagedRef(t, f))

\* A staged object that is served is there, and nobody comes to delete it.
ServedInv ==
  \A t \in Tracks : row[t].ref \in StagedRefs =>
    (row[t].ref \in objects \/ "vanish" \in may) /\ ~ Doomed(row[t].ref)

\* As long as the fence of a replacement matches, its track serves what the
\* replacement loaded, or nothing.
OldInv ==
  \A w \in Workers :
    proc[w].pc \in Working /\ FenceMatches(w) /\ proc[w].old # NoRef
      => row[proc[w].track].ref \in {NoRef, proc[w].old}

Inv == TypeOK /\ FenceInv /\ KeyInv /\ UpcomingInv /\ ServedInv /\ OldInv

USE DEF Working, queue

-----------------------------------------------------------------------------
(* Keys                                                                    *)

LEMMA KeysDiffer ==
  ASSUME NEW t \in Tracks, NEW f \in Fences
  PROVE  /\ \A u \in Tracks, g \in Fences : StagedRef(t, f) = StagedRef(u, g) => t = u /\ f = g
         /\ StagedRef(t, f) \in StagedRefs /\ StagedRef(t, f) \in Refs
         /\ StagedRef(t, f) # NoRef
BY DEF StagedRef, StagedRefs, Refs, NoRef, Fences

LEMMA KeysOfRefs ==
  /\ NoRef \notin Refs /\ StagedRefs \subseteq Refs
  /\ Canonical \in Refs \ StagedRefs
  /\ \A t \in Tracks : TrackScopedRef(t) \in Refs \ StagedRefs
BY DEF Refs, StagedRefs, StagedRef, Canonical, TrackScopedRef, NoRef

\* What is known of a process that is not idle.
LEMMA ProcFields ==
  ASSUME Inv, NEW p \in Processes
  PROVE  /\ proc[p].pc # "idle" => proc[p] \in Proc /\ proc[p] # Idle
         /\ proc[p] # Idle => proc[p] \in Proc /\ proc[p].pc # "idle"
         /\ Idle.pc = "idle"
BY DEF Inv, TypeOK, Proc, PCs, Idle

-----------------------------------------------------------------------------
(* Steps that claim and commit nothing                                     *)

\* A row keeps its key or loses it, and its fence does not go back.
RowGoesOn(t) ==
  /\ row'[t] \in Row
  /\ row'[t].status = "ready" <=> row'[t].ref # NoRef
  /\ row'[t].ref \in {row[t].ref, NoRef}
  /\ row'[t].status # "deleted" => row[t].status # "deleted" /\ row'[t].fence >= row[t].fence

\* The keys in G are given up: neither served nor upcoming after the step.
GivesUp(G) ==
  /\ \A t \in Tracks : row'[t].ref \notin G
  /\ \A t \in Tracks, f \in Fences : StagedRef(t, f) \in G => ~ Upcoming(t, f)'

\* A run stays with its track and fence.
RunGoesOn(w) ==
  LET k == proc'[w] IN
  /\ proc[w].pc # "idle"
  /\ k.track = proc[w].track /\ k.fence = proc[w].fence
  /\ k.pc \in Underway => proc[w].pc \in Underway
  /\ k.pc = "claimed" => k.old = NoRef
  /\ k.pc \in {"storing", "stored"} /\ k.ref \in StagedRefs
       => k.ref = StagedRef(k.track, k.fence)
  /\ k.pc = "stored" /\ k.ref \in StagedRefs => k.ref \in objects' \/ "vanish" \in may
  /\ k.pc \in Working =>
       \/ k.old = row[k.track].ref \/ k.old = NoRef
       \/ proc[w].pc \in Working /\ k.old = proc[w].old

\* The staged keys that a process is going to delete, or to have deleted, are
\* doomed already, or given up.
ProcGoesOn(p, G) ==
  LET k == proc'[p] IN
  \/ k = Idle
  \/ /\ k \in Proc
     /\ p \in Workers => RunGoesOn(p)
     /\ k.pc \in {"storing", "stored", "checking", "deleting"} => k.ref \in Refs
     /\ k.pc \in {"checking", "deleting"} /\ k.ref \in StagedRefs
          => Doomed(k.ref) \/ k.ref \in G
     /\ k.pc = "superseding" => k.old \in Refs
     /\ k.pc = "superseding" /\ k.old \in StagedRefs => Doomed(k.old)

\* Of the staged keys only what is doomed is deleted and swept, and that or what
\* is given up queued.
StoreGoesOn(G) ==
  /\ objects' \subseteq Refs /\ abandoned' \subseteq Refs
  /\ orphan' \in [Refs -> {"none", "held", "due"}]
  /\ sweep' \in Sweep \cup {Idle}
  /\ \A o \in StagedRefs \cap (objects \ objects') : Doomed(o) \/ "vanish" \in may
  /\ \A o \in StagedRefs : orphan'[o] # "none" => Doomed(o) \/ o \in G
  /\ sweep' # Idle /\ sweep'.ref \in StagedRefs => Doomed(sweep'.ref)

LEMMA GoesOnKeepsInv ==
  ASSUME Inv, may' = may, NEW G \in SUBSET StagedRefs,
         row' \in [Tracks -> Row], proc' \in [Processes -> Proc \cup {Idle}],
         \A t \in Tracks : RowGoesOn(t), \A p \in Processes : ProcGoesOn(p, G), StoreGoesOn(G),
         GivesUp(G)
  PROVE  Inv'
<1>0. Workers \subseteq Processes
  BY DEF Processes
<1>1. TypeOK'
  BY DEF Inv, TypeOK, RowGoesOn, ProcGoesOn, StoreGoesOn, Idle
<1>2. FenceInv'
  <2>1. \A w \in Workers : proc'[w].pc # "idle" =>
          proc[w].pc # "idle" /\ proc'[w].track = proc[w].track
            /\ proc'[w].fence = proc[w].fence /\ proc'[w].track \in Tracks
    BY <1>0 DEF ProcGoesOn, RunGoesOn, Idle, Proc
  <2>2. \A t \in Tracks : row[t].fence \in Nat /\ row'[t].fence \in Nat
    BY DEF Inv, TypeOK, Row, RowGoesOn
  <2>3. \A w \in Workers : proc[w].pc # "idle" => proc[w].fence \in Nat
    BY <1>0, ProcFields DEF Proc
  <2>4. ASSUME NEW w \in Workers, proc'[w].pc # "idle", row'[proc'[w].track].status # "deleted"
        PROVE  proc'[w].fence <= row'[proc'[w].track].fence
    BY <2>1, <2>2, <2>3, <2>4 DEF Inv, FenceInv, RowGoesOn
  <2> QED BY <2>1, <2>4 DEF Inv, FenceInv
<1>3. KeyInv'
  <2>1. \A t \in Tracks : OfTrack(t, row'[t].ref)
    BY KeysOfRefs DEF Inv, KeyInv, RowGoesOn, OfTrack
  <2>2. ASSUME NEW w \in Workers PROVE RunInv(w)'
    <3>1. ProcGoesOn(w, G) /\ RunInv(w)
      BY <1>0 DEF Inv, KeyInv
    <3>2. \A t \in Tracks : OfTrack(t, row[t].ref) /\ OfTrack(t, NoRef)
      BY KeysOfRefs DEF Inv, KeyInv, OfTrack
    <3>3. CASE proc'[w] = Idle
      BY <3>3 DEF RunInv, Idle
    <3>4. CASE proc'[w] # Idle
      <4>1. proc'[w].track \in Tracks /\ proc'[w].track = proc[w].track
        BY <3>1, <3>4 DEF ProcGoesOn, RunGoesOn, Proc
      <4>2. proc'[w].pc \in Working =>
              OfTrack(proc'[w].track, proc'[w].old)
        BY <3>1, <3>2, <3>4, <4>1 DEF ProcGoesOn, RunGoesOn, RunInv
      <4> QED BY <3>1, <3>4, <4>2 DEF ProcGoesOn, RunGoesOn, RunInv, OfTrack
    <3> QED BY <3>3, <3>4
  <2> QED BY <2>1, <2>2 DEF KeyInv, OfTrack
<1>4. \A o \in StagedRefs : Doomed(o)' => Doomed(o) \/ o \in G
  BY DEF ProcGoesOn, RunGoesOn, StoreGoesOn, Doomed, DoomedBy, Idle
<1>5. UpcomingInv'
  <2> SUFFICES ASSUME NEW t \in Tracks, NEW f \in Fences, Upcoming(t, f)'
               PROVE  ~ Spent(t, StagedRef(t, f))'
    BY DEF UpcomingInv, StagedRef
  <2> DEFINE o == StagedRef(t, f)
  <2>0. o \notin G
    BY DEF GivesUp, StagedRef
  <2>1. Upcoming(t, f)
    <3>1. \A w \in Workers : Carries(w, t, f)' => Carries(w, t, f)
      BY <1>0 DEF Carries, ProcGoesOn, RunGoesOn, Underway, Idle
    <3>2. f \in Nat /\ row[t].fence \in Nat /\ row'[t].fence \in Nat
      BY DEF Inv, TypeOK, Row, RowGoesOn, Fences
    <3> QED BY <3>1, <3>2 DEF Upcoming, RowGoesOn
  <2>2. ~ Spent(t, o)
    BY <2>1 DEF Inv, UpcomingInv
  <2>3. o \in Refs /\ o # NoRef /\ o \in StagedRefs
    BY KeysDiffer
  <2>4. ~ Doomed(o)' /\ row'[t].ref # o
    BY <1>4, <2>0, <2>2, <2>3 DEF Spent, RowGoesOn, StagedRef
  <2>5. ASSUME NEW w \in Workers, Replaces(w, o)' PROVE FALSE
    <3>1. /\ ProcGoesOn(w, G) /\ proc'[w] # Idle
          /\ proc'[w].pc \in Working /\ proc'[w].old = o
      BY <1>0, <2>5 DEF Replaces, Idle, StagedRef
    <3>2. proc'[w].track \in Tracks
      BY <3>1 DEF ProcGoesOn, RunGoesOn, Proc
    <3>3. CASE proc'[w].old = row[proc'[w].track].ref
      <4>1. OfTrack(proc'[w].track, o)
        BY <3>1, <3>2, <3>3 DEF Inv, KeyInv
      <4>2. proc'[w].track = t
        BY <2>3, <3>2, <4>1, KeysDiffer DEF OfTrack
      <4> QED BY <2>2, <3>1, <3>3, <4>2 DEF Spent
    <3>4. CASE proc[w].pc \in Working /\ proc'[w].old = proc[w].old
      BY <2>2, <3>1, <3>4 DEF Spent, Replaces
    <3> QED BY <2>3, <3>1, <3>3, <3>4 DEF ProcGoesOn, RunGoesOn
  <2> QED BY <2>4, <2>5 DEF Spent, StagedRef
<1>6. ServedInv'
  BY <1>4, KeysOfRefs DEF Inv, ServedInv, RowGoesOn, StoreGoesOn, GivesUp
<1>7. OldInv'
  <2> SUFFICES ASSUME NEW w \in Workers, proc'[w].pc \in Working, FenceMatches(w)',
                      proc'[w].old # NoRef
               PROVE  row'[proc'[w].track].ref \in {NoRef, proc'[w].old}
    BY DEF OldInv
  <2>1. /\ w \in Processes /\ proc'[w].pc # "idle" /\ proc'[w] \in Proc /\ RunGoesOn(w)
    BY <1>0 DEF ProcGoesOn, Idle
  <2>2. PICK t \in Tracks, g \in {proc[w].fence} :
          proc'[w].track = t /\ proc[w].track = t /\ proc'[w].fence = g /\ proc[w].fence = g
    BY <2>1 DEF RunGoesOn, Proc
  <2>3. RowGoesOn(t)
    OBVIOUS
  <2>4. CASE proc'[w].old = row[t].ref
    BY <2>2, <2>3, <2>4 DEF RowGoesOn
  <2>5. CASE proc[w].pc \in Working /\ proc'[w].old = proc[w].old
    <3>1. CASE row[t].ref = NoRef
      BY <2>2, <2>3, <3>1 DEF RowGoesOn
    <3>2. CASE row[t].ref # NoRef
      <4>1. row[t].status = "ready"
        BY <3>2 DEF Inv, TypeOK
      <4>2. g <= row[t].fence /\ row'[t].fence = g
        BY <2>1, <2>2, <2>5, <4>1 DEF Inv, FenceInv, FenceMatches
      <4>3. row'[t].status # "deleted"
        BY <2>2 DEF FenceMatches, InTable
      <4>4. row'[t].fence >= row[t].fence /\ row[t].fence \in Nat /\ row'[t].fence \in Nat
        BY <2>3, <4>3 DEF RowGoesOn, Inv, TypeOK, Row
      <4>5. row[t].fence = g
        BY <4>2, <4>4
      <4>6. FenceMatches(w)
        BY <2>2, <4>1, <4>5 DEF FenceMatches, InTable
      <4> QED BY <2>2, <2>3, <2>5, <4>6 DEF RowGoesOn, Inv, OldInv
    <3> QED BY <3>1, <3>2
  <2> QED BY <2>1, <2>2, <2>4, <2>5 DEF RunGoesOn
<1> QED BY <1>1, <1>2, <1>3, <1>5, <1>6, <1>7 DEF Inv

\* The same without anything given up.
LEMMA NothingGivenUp ==
  ASSUME Inv, may' = may, row' \in [Tracks -> Row],
         proc' \in [Processes -> Proc \cup {Idle}],
         \A t \in Tracks : RowGoesOn(t), \A p \in Processes : ProcGoesOn(p, {}),
         StoreGoesOn({})
  PROVE  Inv'
BY GoesOnKeepsInv DEF GivesUp

\* What a run has stored and may still commit is in nobody else's hands.
LEMMA OwnKeyIsUpcoming ==
  ASSUME Inv, NEW w \in Workers, proc[w].pc \in {"storing", "stored"},
         proc[w].ref \in StagedRefs
  PROVE  /\ proc[w].track \in Tracks /\ proc[w].fence \in Fences
         /\ proc[w].ref = StagedRef(proc[w].track, proc[w].fence)
         /\ ~ Spent(proc[w].track, proc[w].ref)
<1>1. proc[w].track \in Tracks /\ proc[w].fence \in Fences
  BY ProcFields DEF Processes, Proc, Fences
<1>2. Upcoming(proc[w].track, proc[w].fence)
  BY DEF Upcoming, Carries, Underway
<1>3. proc[w].ref = StagedRef(proc[w].track, proc[w].fence)
  BY DEF Inv, KeyInv, RunInv
<1> QED BY <1>1, <1>2, <1>3 DEF Inv, UpcomingInv

\* Whoever does nothing goes on.
LEMMA Stays ==
  ASSUME Inv, may' = may
  PROVE  /\ \A t \in Tracks : row'[t] = row[t] => RowGoesOn(t)
         /\ \A p \in Processes : 
                /\ proc'[p] = proc[p]
                /\ \A o \in StagedRefs \cap (objects \ objects') :
                     Doomed(o) \/ "vanish" \in may
              => ProcGoesOn(p, {})
         /\ UNCHANGED <<objects, queue, sweep>> => StoreGoesOn({})
<1>1. \A t \in Tracks : row'[t] = row[t] => RowGoesOn(t)
  BY DEF Inv, TypeOK, Row, RowGoesOn
<1>2. ASSUME NEW p \in Processes, proc'[p] = proc[p],
             \A o \in StagedRefs \cap (objects \ objects') : Doomed(o) \/ "vanish" \in may
      PROVE  ProcGoesOn(p, {})
  <2>1. CASE proc[p] = Idle
    BY <1>2, <2>1 DEF ProcGoesOn
  <2>2. CASE proc[p] # Idle
    <3>1. proc[p] \in Proc /\ proc[p].pc # "idle"
      BY <2>2, ProcFields
    <3>2. proc[p].pc \in {"checking", "deleting"} => Doomed(proc[p].ref)
      BY DEF Doomed, DoomedBy
    <3>3. proc[p].pc = "superseding" => Doomed(proc[p].old)
      BY DEF Doomed, DoomedBy
    <3>4. ASSUME p \in Workers PROVE RunGoesOn(p)
      <4>1. RunInv(p)
        BY <3>4 DEF Inv, KeyInv
      <4>2. proc[p].pc = "stored" /\ proc[p].ref \in StagedRefs => ~ Doomed(proc[p].ref)
        BY <3>4, OwnKeyIsUpcoming DEF Spent
      <4> QED BY <1>2, <3>1, <4>1, <4>2 DEF RunGoesOn, RunInv
    <3> QED
      BY <1>2, <3>1, <3>2, <3>3, <3>4 DEF ProcGoesOn, Inv, TypeOK
  <2> QED BY <2>1, <2>2
<1>3. UNCHANGED <<objects, queue, sweep>> => StoreGoesOn({})
  BY DEF Inv, TypeOK, StoreGoesOn, Doomed
<1> QED BY <1>1, <1>2, <1>3

-----------------------------------------------------------------------------
(* The rows of the catalog                                                 *)

LEMMA RowStepKeepsInv ==
  ASSUME Inv, may' = may, NEW t \in Tracks, NEW r \in Row, SetRow(t, r),
         r.status = "ready" <=> r.ref # NoRef, r.ref \in {row[t].ref, NoRef},
         r.status # "deleted" => row[t].status # "deleted" /\ r.fence >= row[t].fence,
         UNCHANGED <<proc, objects, queue, sweep>>
  PROVE  Inv'
<1>1. row \in [Tracks -> Row] /\ proc \in [Processes -> Proc \cup {Idle}]
  BY DEF Inv, TypeOK
<1>2. row' \in [Tracks -> Row] /\ row'[t] = r /\ \A u \in Tracks \ {t} : row'[u] = row[u]
  BY <1>1 DEF SetRow
<1>3. \A u \in Tracks : RowGoesOn(u)
  BY <1>2, Stays DEF RowGoesOn
<1> QED BY <1>1, <1>2, <1>3, Stays, NothingGivenUp

LEMMA CatalogKeepsInv ==
  ASSUME Inv, may' = may, NEW t \in Tracks,
         \/ AddTrack(t) \/ MarkRefused(t) \/ Retry(t) \/ LoseAudio(t)
         \/ LeaseLapses(t) \/ Preempt(t)
  PROVE  Inv'
<1>1. /\ row[t] \in Row /\ row[t].fence \in Nat /\ MaxFence \in Nat
      /\ row[t].status = "ready" <=> row[t].ref # NoRef
  BY AudioAssumption DEF Inv, TypeOK, Row
<1>2. CASE AddTrack(t) \/ MarkRefused(t) \/ Retry(t)
  <2>1. PICK to \in {"pending", "failed"} : SetRow(t, [row[t] EXCEPT !.status = to])
    BY <1>2 DEF AddTrack, MarkRefused, Retry
  <2>2. PICK r : r = [row[t] EXCEPT !.status = to]
    OBVIOUS
  <2>3. r \in Row /\ r.status = to /\ r.ref = row[t].ref /\ r.fence = row[t].fence
    BY <1>1, <2>1, <2>2 DEF Row, Statuses
  <2>4. row[t].status \in {"absent", "failed", "pending"} /\ row[t].ref = NoRef
    BY <1>1, <1>2 DEF AddTrack, MarkRefused, Retry, NoRow
  <2>5. UNCHANGED <<proc, objects, queue, sweep>>
    BY <1>2 DEF AddTrack, MarkRefused, Retry
  <2>6. SetRow(t, r) /\ r.status # "ready" /\ r.ref = NoRef
    BY <2>1, <2>2, <2>3, <2>4
  <2> QED BY <1>1, <2>3, <2>4, <2>5, <2>6, RowStepKeepsInv
<1>3. CASE LoseAudio(t)
  <2>1. PICK r : r = [row[t] EXCEPT !.status = "failed", !.ref = NoRef]
    OBVIOUS
  <2>2. r \in Row /\ r.status = "failed" /\ r.ref = NoRef /\ r.fence = row[t].fence
    BY <1>1, <2>1 DEF Row, Statuses
  <2>3. SetRow(t, r) /\ UNCHANGED <<proc, objects, queue, sweep>>
    BY <1>3, <2>1 DEF LoseAudio
  <2>4. row[t].status # "deleted"
    BY <1>3 DEF LoseAudio
  <2> QED BY <1>1, <2>2, <2>3, <2>4, RowStepKeepsInv
<1>4. CASE LeaseLapses(t)
  <2>1. PICK r : r = [row[t] EXCEPT !.leased = FALSE]
    OBVIOUS
  <2>2. /\ r \in Row /\ r.status = row[t].status /\ r.ref = row[t].ref
        /\ r.fence = row[t].fence
    BY <1>1, <2>1 DEF Row
  <2>3. SetRow(t, r) /\ UNCHANGED <<proc, objects, queue, sweep>>
    BY <1>4, <2>1 DEF LeaseLapses
  <2> QED BY <1>1, <2>2, <2>3, RowStepKeepsInv
<1>5. CASE Preempt(t)
  <2>1. PICK r : r = [row[t] EXCEPT !.leased = FALSE, !.fence = @ + 1]
    OBVIOUS
  <2>2. row[t].fence + 1 \in 0..MaxFence
    BY <1>1, <1>5 DEF Preempt
  <2>3. /\ r \in Row /\ r.status = row[t].status /\ r.ref = row[t].ref
        /\ r.fence = row[t].fence + 1
    BY <1>1, <2>1, <2>2 DEF Row
  <2>4. row[t].status # "deleted"
    BY <1>5 DEF Preempt, Holds, FenceMatches, InTable
  <2>5. SetRow(t, r) /\ UNCHANGED <<proc, objects, queue, sweep>>
    BY <1>5, <2>1 DEF Preempt
  <2> QED BY <1>1, <2>3, <2>4, <2>5, RowStepKeepsInv
<1> QED BY <1>2, <1>3, <1>4, <1>5

-----------------------------------------------------------------------------
(* A run that goes on, and what disposes of an object                      *)

\* One process goes on, and every row and object does.
LEMMA ProcStepKeepsInv ==
  ASSUME Inv, may' = may, NEW p \in Processes, NEW k \in Proc \cup {Idle},
         proc' = [proc EXCEPT ![p] = k], ProcGoesOn(p, {}),
         row' \in [Tracks -> Row], \A t \in Tracks : RowGoesOn(t), StoreGoesOn({})
  PROVE  Inv'
<1>1. proc' \in [Processes -> Proc \cup {Idle}]
      /\ \A q \in Processes \ {p} : proc'[q] = proc[q]
  BY DEF Inv, TypeOK
<1>2. \A q \in Processes : ProcGoesOn(q, {})
  BY <1>1, Stays DEF StoreGoesOn
<1> QED BY <1>1, <1>2, NothingGivenUp

\* What is known of a run.
LEMMA RunFields ==
  ASSUME Inv, NEW w \in Processes, proc[w].pc # "idle"
  PROVE  /\ proc[w] \in Proc /\ proc[w].track \in Tracks /\ proc[w].fence \in Fences
         /\ proc[w].ref \in Refs \cup {NoRef} /\ proc[w].old \in Refs \cup {NoRef}
         /\ proc \in [Processes -> Proc \cup {Idle}] /\ row \in [Tracks -> Row]
BY ProcFields DEF Proc, Fences, Inv, TypeOK

LEMMA RowsStay ==
  ASSUME Inv, may' = may, UNCHANGED row
  PROVE  row' \in [Tracks -> Row] /\ \A t \in Tracks : RowGoesOn(t)
BY Stays DEF Inv, TypeOK

\* A process whose run is over.
LEMMA LeaveKeepsInv ==
  ASSUME Inv, may' = may, NEW w \in Processes, proc[w].pc # "idle",
         NEW to \in {"failed", "settling"},
         Leave(w, to) \/ Goto(w, to) \/ proc' = [proc EXCEPT ![w] = Idle],
         row' \in [Tracks -> Row], \A t \in Tracks : RowGoesOn(t), StoreGoesOn({})
  PROVE  Inv'
<1>1. CASE proc' = [proc EXCEPT ![w] = Idle]
  <2>1. ProcGoesOn(w, {})
    BY <1>1, RunFields DEF ProcGoesOn
  <2> QED BY <1>1, <2>1, ProcStepKeepsInv
<1>2. CASE Leave(w, to) \/ Goto(w, to)
  <2>1. PICK k : /\ k = [proc[w] EXCEPT !.pc = to, !.ref = NoRef, !.old = NoRef]
                      \/ k = [proc[w] EXCEPT !.pc = to]
                 /\ proc' = [proc EXCEPT ![w] = k]
    BY <1>2 DEF Leave, Goto
  <2>2. k \in Proc /\ k.pc = to /\ k.track = proc[w].track /\ k.fence = proc[w].fence
    BY <2>1, RunFields DEF Proc, PCs
  <2>3. ProcGoesOn(w, {})
    BY <2>1, <2>2, RunFields DEF ProcGoesOn, RunGoesOn, Underway
  <2> QED BY <2>1, <2>2, <2>3, ProcStepKeepsInv
<1> QED BY <1>1, <1>2

LEMMA LoadTrackKeepsInv ==
  ASSUME Inv, may' = may, NEW w \in Workers, LoadTrack(w)
  PROVE  Inv'
<1> DEFINE t == proc[w].track
<1>0. proc[w].pc = "claimed" /\ w \in Processes /\ UNCHANGED <<objects, queue, sweep>>
  BY DEF LoadTrack, Processes
<1>1. StoreGoesOn({})
  BY <1>0, Stays
<1>2. CASE Goto(w, "settling") /\ UNCHANGED row
  BY <1>0, <1>1, <1>2, RowsStay, LeaveKeepsInv
<1>3. CASE proc' = [proc EXCEPT ![w].pc = "working", ![w].old = row[t].ref] /\ UNCHANGED row
  <2>1. PICK k : k = [proc[w] EXCEPT !.pc = "working", !.old = row[t].ref]
    OBVIOUS
  <2>2. proc' = [proc EXCEPT ![w] = k]
    BY <1>0, <1>3, <2>1, RunFields
  <2>3. /\ k \in Proc /\ k.pc = "working" /\ k.track = t /\ k.fence = proc[w].fence
        /\ k.old = row[t].ref
    BY <1>0, <2>1, RunFields DEF Proc, PCs, Row
  <2>4. ProcGoesOn(w, {})
    BY <1>0, <2>2, <2>3, RunFields DEF ProcGoesOn, RunGoesOn, Underway
  <2> QED BY <1>0, <1>1, <1>3, <2>2, <2>3, <2>4, RowsStay, ProcStepKeepsInv
<1>4. CASE /\ InTable(t) /\ Goto(w, "working")
           /\ SetRow(t, [row[t] EXCEPT !.status = "pending", !.ref = NoRef])
  <2>1. PICK r : r = [row[t] EXCEPT !.status = "pending", !.ref = NoRef]
    OBVIOUS
  <2>0. row[t] \in Row /\ row[t].fence \in Nat
    BY <1>0, RunFields DEF Row
  <2>2. r \in Row /\ r.status = "pending" /\ r.ref = NoRef /\ r.fence = row[t].fence
    BY <2>0, <2>1 DEF Row, Statuses
  <2>3. row' \in [Tracks -> Row] /\ row'[t] = r /\ \A u \in Tracks \ {t} : row'[u] = row[u]
    BY <1>0, <1>4, <2>1, <2>2, RunFields DEF SetRow
  <2>4. \A u \in Tracks : RowGoesOn(u)
    BY <1>4, <2>0, <2>2, <2>3, Stays DEF RowGoesOn, InTable
  <2>5. PICK k : k = [proc[w] EXCEPT !.pc = "working"]
    OBVIOUS
  <2>6. proc' = [proc EXCEPT ![w] = k]
    BY <1>4, <2>5 DEF Goto
  <2>7. /\ k \in Proc /\ k.pc = "working" /\ k.track = t /\ k.fence = proc[w].fence
        /\ k.old = NoRef
    BY <1>0, <2>5, RunFields DEF Proc, PCs, Inv, KeyInv, RunInv
  <2>8. ProcGoesOn(w, {})
    BY <1>0, <2>6, <2>7, RunFields DEF ProcGoesOn, RunGoesOn, Underway
  <2> QED BY <1>0, <1>1, <2>3, <2>4, <2>6, <2>7, <2>8, ProcStepKeepsInv
<1> QED BY <1>2, <1>3, <1>4 DEF LoadTrack

LEMMA ChooseRefKeepsInv ==
  ASSUME Inv, may' = may, NEW w \in Workers, ChooseRef(w)
  PROVE  Inv'
<1>1. /\ proc[w].pc = "working" /\ w \in Processes /\ UNCHANGED <<row, objects, queue, sweep>>
      /\ \A t \in Tracks : RowGoesOn(t)
  BY Stays DEF ChooseRef, Processes
<1>2. PICK o \in Refs :
        /\ o \in StagedRefs => o = StagedRef(proc[w].track, proc[w].fence)
        /\ proc' = [proc EXCEPT ![w].pc = "storing", ![w].ref = o]
  BY <1>1, RunFields, KeysOfRefs DEF ChooseRef
<1>3. PICK k : k = [proc[w] EXCEPT !.pc = "storing", !.ref = o]
  OBVIOUS
<1>4. proc' = [proc EXCEPT ![w] = k]
  BY <1>1, <1>2, <1>3, RunFields
<1>5. /\ k \in Proc /\ k.pc = "storing" /\ k.track = proc[w].track /\ k.fence = proc[w].fence
      /\ k.old = proc[w].old /\ k.ref = o
  BY <1>1, <1>3, RunFields DEF Proc, PCs
<1>6. ProcGoesOn(w, {})
  BY <1>1, <1>2, <1>4, <1>5, RunFields DEF ProcGoesOn, RunGoesOn, Underway
<1> QED BY <1>1, <1>4, <1>5, <1>6, RunFields, Stays, ProcStepKeepsInv

LEMMA StoreObjectKeepsInv ==
  ASSUME Inv, may' = may, NEW w \in Workers, StoreObject(w)
  PROVE  Inv'
<1>1. /\ proc[w].pc = "storing" /\ w \in Processes /\ UNCHANGED <<row, orphan, sweep>>
      /\ objects' = objects \cup {proc[w].ref} /\ proc[w].ref \in Refs
      /\ abandoned' = abandoned \ {proc[w].ref}
  BY DEF StoreObject, Processes, Inv, TypeOK
<1>2. StoreGoesOn({})
  BY <1>1 DEF StoreGoesOn, Inv, TypeOK, Doomed
<1>3. PICK k : k = [proc[w] EXCEPT !.pc = "stored"]
  OBVIOUS
<1>4. proc' = [proc EXCEPT ![w] = k]
  BY <1>3 DEF StoreObject, Goto
<1>5. /\ k \in Proc /\ k.pc = "stored" /\ k.track = proc[w].track /\ k.fence = proc[w].fence
      /\ k.old = proc[w].old /\ k.ref = proc[w].ref
  BY <1>1, <1>3, RunFields DEF Proc, PCs
<1>6. RunInv(w)
  BY DEF Inv, KeyInv
<1>7. ProcGoesOn(w, {})
  BY <1>1, <1>4, <1>5, <1>6, RunFields DEF ProcGoesOn, RunGoesOn, Underway, RunInv
<1> QED BY <1>1, <1>2, <1>4, <1>5, <1>7, RowsStay, ProcStepKeepsInv

\* What a stage that failed leaves behind is typed.
LEMMA NotStoredGoesOn ==
  ASSUME Inv, NEW w \in Processes, NotStored(w), UNCHANGED <<orphan, sweep>>
  PROVE  StoreGoesOn({})
<1>1. proc[w].pc = "storing" => proc[w].ref \in Refs
  BY DEF Inv, TypeOK
<1> QED BY <1>1, KeysOfRefs DEF NotStored, StoreGoesOn, Inv, TypeOK, Doomed

\* The fence of a run is that of its row, or the row has gone on.
LEMMA EndOfRunKeepsInv ==
  ASSUME Inv, may' = may, NEW w \in Workers, FailBeforeStored(w) \/ Fail(w) \/ Settle(w)
  PROVE  Inv'
<1> DEFINE t == proc[w].track
<1>0. w \in Processes /\ proc[w].pc # "idle" /\ StoreGoesOn({})
  BY Stays, NotStoredGoesOn DEF Processes, FailBeforeStored, Fail, Settle
<1>1. CASE FailBeforeStored(w)
  BY <1>0, <1>1, RowsStay, LeaveKeepsInv DEF FailBeforeStored
<1>2. CASE UNCHANGED row
  BY <1>0, <1>2, RowsStay, LeaveKeepsInv DEF FailBeforeStored, Fail, Settle
<1>3. CASE Fail(w) /\ ~ UNCHANGED row
  <2>1. PICK r : r = [row[t] EXCEPT !.status = "failed"]
    OBVIOUS
  <2>2. row[t].status = "pending" /\ SetRow(t, r)
    BY <1>3, <2>1 DEF Fail
  <2>3. /\ r \in Row /\ r.status = "failed" /\ r.ref = row[t].ref /\ r.fence = row[t].fence
        /\ row[t].fence \in Nat /\ row[t].ref = NoRef
    BY <1>0, <2>1, <2>2, RunFields DEF Row, Statuses, Inv, TypeOK
  <2>4. row' \in [Tracks -> Row] /\ row'[t] = r /\ \A u \in Tracks \ {t} : row'[u] = row[u]
    BY <1>0, <2>2, <2>3, RunFields DEF SetRow
  <2>5. \A u \in Tracks : RowGoesOn(u)
    BY <2>2, <2>3, <2>4, Stays DEF RowGoesOn
  <2> QED BY <1>0, <1>3, <2>4, <2>5, LeaveKeepsInv DEF Fail
<1>4. CASE Settle(w) /\ ~ UNCHANGED row
  <2>1. PICK r : r = [row[t] EXCEPT !.leased = FALSE]
    OBVIOUS
  <2>2. row' = [row EXCEPT ![t] = r]
    BY <1>0, <1>4, <2>1, RunFields DEF Settle, Release
  <2>0. row[t] \in Row /\ row[t].fence \in Nat
    BY <1>0, RunFields DEF Row
  <2>3. /\ r \in Row /\ r.status = row[t].status /\ r.ref = row[t].ref
        /\ r.fence = row[t].fence
    BY <2>0, <2>1 DEF Row
  <2>4. row' \in [Tracks -> Row] /\ row'[t] = r /\ \A u \in Tracks \ {t} : row'[u] = row[u]
    BY <1>0, <2>2, <2>3, RunFields
  <2>5. row[t].status = "ready" <=> row[t].ref # NoRef
    BY <1>0, RunFields DEF Inv, TypeOK
  <2>6. \A u \in Tracks : RowGoesOn(u)
    BY <2>0, <2>3, <2>4, <2>5, Stays DEF RowGoesOn
  <2> QED BY <1>0, <1>4, <2>4, <2>6, LeaveKeepsInv DEF Settle
<1> QED BY <1>1, <1>2, <1>3, <1>4

LEMMA QueueSupersededKeepsInv ==
  ASSUME Inv, may' = may, NEW w \in Workers, QueueSuperseded(w)
  PROVE  Inv'
<1>1. /\ w \in Processes /\ proc[w].pc = "superseding" /\ Leave(w, "settling")
      /\ UNCHANGED <<row, objects, sweep>>
  BY DEF QueueSuperseded, Processes
<1>2. Doomed(proc[w].old)
  BY <1>1 DEF Doomed, DoomedBy
<1>3. StoreGoesOn({})
  <2>1. orphan \in [Refs -> {"none", "held", "due"}]
    BY DEF Inv, TypeOK
  <2>2. orphan' = orphan \/ orphan' = [orphan EXCEPT ![proc[w].old] = "held"]
    BY DEF QueueSuperseded, RecordOrphan, SetOrphan, Abandon
  <2>3. abandoned' \subseteq Refs
    <3>1. proc[w].old \in Refs
      BY <1>1 DEF Inv, TypeOK
    <3> QED BY <3>1 DEF QueueSuperseded, RecordOrphan, Abandon, Inv, TypeOK
  <2> QED BY <1>1, <1>2, <2>1, <2>2, <2>3, KeysOfRefs DEF StoreGoesOn, Inv, TypeOK, Doomed
<1> QED BY <1>1, <1>3, RowsStay, LeaveKeepsInv

\* What a process checks and deletes is doomed already.
LEMMA DisposalKeepsInv ==
  ASSUME Inv, may' = may, NEW p \in Processes, CheckInUse(p) \/ DeleteObject(p) \/ Crash(p)
  PROVE  Inv'
<1>1. proc[p].pc # "idle" /\ UNCHANGED <<row, sweep>>
  BY ProcFields DEF CheckInUse, DeleteObject, Crash
<1>2. CASE Crash(p)
  <2>1. StoreGoesOn({})
    BY <1>1, <1>2 DEF Crash, StoreGoesOn, Inv, TypeOK, Doomed
  <2> QED BY <1>1, <1>2, <2>1, RowsStay, LeaveKeepsInv DEF Crash
<1>3. CASE CheckInUse(p) \/ DeleteObject(p)
  <2> DEFINE o == proc[p].ref
  <2>1. /\ o \in Refs /\ Doomed(o)
        /\ orphan \in [Refs -> {"none", "held", "due"}] /\ objects \subseteq Refs
    BY <1>3 DEF CheckInUse, DeleteObject, Inv, TypeOK, Doomed, DoomedBy
  <2>2. /\ orphan' = orphan \/ orphan' = [orphan EXCEPT ![o] = "due"]
        /\ objects' = objects \/ objects' = objects \ {o}
    BY <1>3 DEF CheckInUse, DeleteObject, RecordOrphan, SetOrphan, Abandon
  <2>6. abandoned' \subseteq Refs
    BY <1>3, <2>1 DEF CheckInUse, DeleteObject, RecordOrphan, Abandon, Inv, TypeOK
  <2>3. StoreGoesOn({})
    BY <1>1, <2>1, <2>2, <2>6, KeysOfRefs DEF StoreGoesOn, Inv, TypeOK, Doomed
  <2>4. CASE Disposed(p)
    BY <1>1, <2>3, <2>4, RowsStay, LeaveKeepsInv DEF Disposed
  <2>5. CASE proc[p].pc = "checking" /\ Goto(p, "deleting")
    <3>1. PICK k : k = [proc[p] EXCEPT !.pc = "deleting"]
      OBVIOUS
    <3>2. proc' = [proc EXCEPT ![p] = k]
      BY <2>5, <3>1 DEF Goto
    <3>3. k \in Proc /\ k.pc = "deleting" /\ k.track = proc[p].track
          /\ k.fence = proc[p].fence /\ k.ref = o
      BY <1>1, <3>1, RunFields DEF Proc, PCs
    <3>4. ProcGoesOn(p, {})
      BY <1>1, <2>1, <3>2, <3>3, RunFields DEF ProcGoesOn, RunGoesOn, Underway
    <3> QED BY <1>1, <2>3, <3>2, <3>3, <3>4, RowsStay, ProcStepKeepsInv
  <2> QED BY <1>3, <2>4, <2>5 DEF CheckInUse, DeleteObject
<1> QED BY <1>2, <1>3

\* The sweep deletes what is queued, and queued is only what is doomed.
LEMMA SweepKeepsInv ==
  ASSUME Inv, may' = may, SweepStep
  PROVE  Inv'
<1>1. UNCHANGED <<row, proc>>
  BY DEF SweepStep, GraceEnds, ListOrphan, ReadUsage, DeleteOrphan, ResolveOrphan
<1>2. /\ orphan \in [Refs -> {"none", "held", "due"}] /\ objects \subseteq Refs
      /\ abandoned' \subseteq Refs
      /\ sweep \in Sweep \cup {Idle} /\ (sweep.pc # "idle" => sweep # Idle /\ sweep \in Sweep)
      /\ Idle \notin Sweep
  BY DEF Inv, TypeOK, Sweep, Idle, SweepStep, GraceEnds, ListOrphan, ReadUsage, DeleteOrphan,
         ResolveOrphan
<1>3. sweep # Idle => Doomed(sweep.ref)
  BY DEF Doomed
<1>4. \A o \in Refs : orphan[o] # "none" => Doomed(o)
  BY DEF Doomed
<1>5. StoreGoesOn({})
  <2>1. CASE \E o \in Refs : GraceEnds(o)
    BY <1>2, <1>3, <1>4, <2>1, KeysOfRefs DEF StoreGoesOn, GraceEnds, SetOrphan
  <2>2. CASE \E o \in Refs : ListOrphan(o)
    BY <1>2, <1>3, <1>4, <2>2, KeysOfRefs DEF StoreGoesOn, ListOrphan, Sweep
  <2>3. CASE ReadUsage
    BY <1>2, <1>3, <1>4, <2>3, KeysOfRefs DEF StoreGoesOn, ReadUsage, Sweep
  <2>4. CASE DeleteOrphan
    BY <1>2, <1>3, <1>4, <2>4, KeysOfRefs DEF StoreGoesOn, DeleteOrphan, Sweep
  <2>5. CASE ResolveOrphan
    BY <1>2, <1>3, <1>4, <2>5, KeysOfRefs DEF StoreGoesOn, ResolveOrphan, SetOrphan
  <2> QED BY <2>1, <2>2, <2>3, <2>4, <2>5 DEF SweepStep
<1>6. proc' \in [Processes -> Proc \cup {Idle}] /\ \A p \in Processes : ProcGoesOn(p, {})
  BY <1>1, <1>5, Stays DEF Inv, TypeOK, StoreGoesOn
<1> QED BY <1>1, <1>5, <1>6, RowsStay, NothingGivenUp
-----------------------------------------------------------------------------
(* What gives a key up                                                     *)

\* The row of a deleted track lets go of its key.
LEMMA DeleteTrackKeepsInv ==
  ASSUME Inv, may' = may, NEW d \in Deleters, NEW t \in Tracks, DeleteTrack(d, t)
  PROVE  Inv'
<1> DEFINE o == row[t].ref
           G == {o} \cap StagedRefs
<1>1. /\ d \in Deleters /\ d \in Processes /\ proc[d] = Idle /\ InTable(t)
      /\ UNCHANGED <<objects, queue, sweep>>
      /\ row \in [Tracks -> Row] /\ proc \in [Processes -> Proc \cup {Idle}]
  BY DEF DeleteTrack, Processes, Inv, TypeOK
<1>2. /\ row' \in [Tracks -> Row] /\ row'[t] = NoRow("deleted")
      /\ \A u \in Tracks \ {t} : row'[u] = row[u]
  <2>1. NoRow("deleted") \in Row
    BY <1>1, AudioAssumption DEF NoRow, Row, Statuses
  <2> QED BY <1>1, <2>1 DEF DeleteTrack, SetRow
<1>3. \A u \in Tracks : RowGoesOn(u)
  BY <1>2, Stays DEF RowGoesOn, NoRow
<1>4. PICK k \in Proc \cup {Idle} :
        /\ proc' = [proc EXCEPT ![d] = k]
        /\ k # Idle => k.pc = "checking" /\ k.ref = o /\ o \in Refs
  <2>1. CASE o = NoRef
    BY <1>1, <2>1 DEF DeleteTrack
  <2>2. CASE o # NoRef
    <3>1. PICK k : k = [pc |-> "checking", track |-> t, fence |-> 0, kind |-> "acquire",
                        ref |-> o, old |-> NoRef]
      OBVIOUS
    <3>2. row[t] \in Row
      BY <1>1
    <3>3. o \in Refs /\ 0 \in 0..MaxFence
      BY <2>2, <3>2, AudioAssumption DEF Row
    <3> QED BY <2>2, <3>1, <3>3 DEF Proc, PCs, DeleteTrack
  <2> QED BY <2>1, <2>2
<1>5. \A p \in Processes : ProcGoesOn(p, G)
  <2>1. \A p \in Processes \ {d} : proc'[p] = proc[p]
    BY <1>1, <1>4
  <2>2. \A p \in Processes \ {d} : ProcGoesOn(p, G)
    BY <1>1, <2>1, Stays DEF ProcGoesOn
  <2>3. ProcGoesOn(d, G)
    BY <1>1, <1>4, AudioAssumption DEF ProcGoesOn
  <2> QED BY <2>2, <2>3
<1>6. StoreGoesOn(G)
  BY <1>1, Stays DEF StoreGoesOn
<1>7. GivesUp(G)
  <2>1. \A u \in Tracks : OfTrack(u, row[u].ref)
    BY DEF Inv, KeyInv
  <2>2. \A u \in Tracks : row'[u].ref \notin G
    BY <1>2, <2>1, KeysDiffer, KeysOfRefs DEF OfTrack, NoRow
  <2>3. ASSUME NEW u \in Tracks, NEW f \in Fences, StagedRef(u, f) \in G, Upcoming(u, f)'
        PROVE  FALSE
    <3>1. u = t
      BY <2>1, <2>3, KeysDiffer DEF OfTrack
    <3>2. PICK w \in Workers : Carries(w, u, f)'
      BY <1>2, <2>3, <3>1 DEF Upcoming, NoRow
    <3>3. w # d /\ w \in Processes
      BY <1>1, AudioAssumption DEF Processes
    <3>4. Carries(w, u, f)
      BY <1>1, <1>4, <3>2, <3>3 DEF Carries
    <3>5. ~ Spent(u, StagedRef(u, f))
      BY <3>4 DEF Inv, UpcomingInv, Upcoming
    <3> QED BY <2>3, <3>1, <3>5 DEF Spent
  <2> QED BY <2>2, <2>3 DEF GivesUp, StagedRef
<1>8. proc' \in [Processes -> Proc \cup {Idle}]
  BY <1>1, <1>4
<1> QED BY <1>2, <1>3, <1>5, <1>6, <1>7, <1>8, GoesOnKeepsInv

\* A run that stops after it has stored cannot commit its key any more, and no
\* other can.
LEMMA OwnKeyIsGivenUp ==
  ASSUME Inv, may' = may, NEW w \in Workers, proc[w].pc = "stored", UNCHANGED row,
         proc'[w].pc \notin Underway, \A v \in Workers \ {w} : proc'[v] = proc[v]
  PROVE  GivesUp({proc[w].ref} \cap StagedRefs)
<1>1. SUFFICES ASSUME proc[w].ref \in StagedRefs
               PROVE  GivesUp({proc[w].ref})
  BY DEF GivesUp
<1>2. PICK t \in Tracks, g \in Fences :
        /\ proc[w].track = t /\ proc[w].fence = g /\ proc[w].ref = StagedRef(t, g)
        /\ ~ Spent(t, proc[w].ref)
  BY <1>1, OwnKeyIsUpcoming
<1>3. \A u \in Tracks : row'[u].ref # proc[w].ref
  BY <1>1, <1>2, KeysDiffer DEF Inv, KeyInv, OfTrack, Spent
<1>4. ASSUME NEW u \in Tracks, NEW f \in Fences, StagedRef(u, f) = proc[w].ref, Upcoming(u, f)'
      PROVE  FALSE
  <2>1. u = t /\ f = g
    BY <1>2, <1>4, KeysDiffer
  <2>2. row[t].status # "deleted" => g <= row[t].fence
    BY <1>2 DEF Inv, FenceInv
  <2>3. g \in Nat /\ row[t].fence \in Nat
    BY <1>2 DEF Fences, Inv, TypeOK, Row
  <2>4. PICK v \in Workers : Carries(v, t, g)'
    BY <1>4, <2>1, <2>2, <2>3 DEF Upcoming
  <2>5. v # w /\ Carries(v, t, g)
    BY <2>4 DEF Carries
  <2> QED BY <1>2, <2>5 DEF Inv, FenceInv, Carries, Underway
<1> QED BY <1>3, <1>4 DEF GivesUp, StagedRef

LEMMA GiveUpKeepsInv ==
  ASSUME Inv, may' = may, NEW w \in Workers, RollBack(w) \/ Cancel(w)
  PROVE  Inv'
<1> DEFINE o == proc[w].ref
           G == {o} \cap StagedRefs
<1>1. /\ w \in Processes /\ proc[w].pc # "idle" /\ UNCHANGED <<row, sweep>>
      /\ orphan \in [Refs -> {"none", "held", "due"}] /\ abandoned \subseteq Refs
  BY DEF Processes, RollBack, Cancel, Inv, TypeOK
<1>2. CASE Cancel(w) /\ proc[w].pc # "stored"
  <2>1. Leave(w, "settling") /\ StoreGoesOn({})
    BY <1>1, <1>2, NotStoredGoesOn DEF Cancel
  <2> QED BY <1>1, <2>1, RowsStay, LeaveKeepsInv
<1>3. CASE proc[w].pc = "stored"
  <2>1. o \in Refs
    BY <1>1, <1>3 DEF Inv, TypeOK
  <2>2. PICK k : /\ \/ k = [proc[w] EXCEPT !.pc = "checking", !.old = NoRef]
                    \/ k = [proc[w] EXCEPT !.pc = "settling", !.ref = NoRef, !.old = NoRef]
                 /\ proc' = [proc EXCEPT ![w] = k]
    BY <1>1, <1>3, RunFields DEF RollBack, Cancel, Leave
  <2>3. /\ k \in Proc /\ k.pc \in {"checking", "settling"} /\ k.track = proc[w].track
        /\ k.fence = proc[w].fence /\ (k.pc = "checking" => k.ref = o)
    BY <1>1, <2>2, RunFields DEF Proc, PCs
  <2>4. ProcGoesOn(w, G)
    BY <1>1, <2>1, <2>2, <2>3, RunFields DEF ProcGoesOn, RunGoesOn, Underway
  <2>5. /\ proc' \in [Processes -> Proc \cup {Idle}]
        /\ \A q \in Processes \ {w} : proc'[q] = proc[q]
    BY <1>1, <2>2, <2>3, RunFields
  <2>6. \A q \in Processes \ {w} : ProcGoesOn(q, G)
    <3>1. UNCHANGED objects
      BY <1>3 DEF RollBack, Cancel
    <3> QED BY <1>1, <2>5, <3>1, Stays DEF ProcGoesOn
  <2>7. StoreGoesOn(G)
    <3>1. orphan' = orphan \/ orphan' = [orphan EXCEPT ![o] = "due"]
      BY <1>3 DEF RollBack, Cancel, RecordOrphan, SetOrphan, Abandon
    <3>2. UNCHANGED objects /\ abandoned' \subseteq Refs
      BY <1>1, <1>3, <2>1 DEF RollBack, Cancel, RecordOrphan, Abandon
    <3> QED BY <1>1, <2>1, <3>1, <3>2, KeysOfRefs DEF StoreGoesOn, Inv, TypeOK, Doomed
  <2>8. GivesUp(G)
    <3>1. proc'[w].pc \notin Underway
      BY <1>1, <2>2, <2>3, RunFields DEF Underway
    <3>2. \A v \in Workers \ {w} : proc'[v] = proc[v]
      BY <2>5 DEF Processes
    <3> QED BY <1>1, <1>3, <3>1, <3>2, OwnKeyIsGivenUp
  <2> QED BY <1>1, <2>4, <2>5, <2>6, <2>7, <2>8, RowsStay, GoesOnKeepsInv
<1> QED BY <1>2, <1>3 DEF RollBack, Cancel

-----------------------------------------------------------------------------
(* Claiming and committing                                                 *)

\* The fence of a claim is beyond all that were given out for the track.
LEMMA ClaimKeepsInv ==
  ASSUME Inv, may' = may, NEW w \in Workers, NEW t \in Tracks,
         NEW kind \in {"acquire", "replace"}, Claim(w, t, kind)
  PROVE  Inv'
<1>1. /\ w \in Processes /\ proc[w] = Idle /\ InTable(t) /\ row[t].fence < MaxFence
      /\ UNCHANGED <<objects, queue, sweep>>
      /\ row \in [Tracks -> Row] /\ proc \in [Processes -> Proc \cup {Idle}]
  BY DEF Claim, Processes, Inv, TypeOK
<1>2. /\ row[t] \in Row /\ row[t].fence \in Nat /\ MaxFence \in Nat
      /\ row[t].status # "deleted"
  BY <1>1, AudioAssumption DEF Row, InTable
<1>3. PICK g \in Fences : g = row[t].fence + 1
  BY <1>1, <1>2 DEF Fences
<1>4. PICK r : r = [row[t] EXCEPT !.leased = TRUE, !.fence = @ + 1]
  OBVIOUS
<1>5. r \in Row /\ r.status = row[t].status /\ r.ref = row[t].ref /\ r.fence = g
  BY <1>2, <1>3, <1>4 DEF Row, Fences
<1>6. row' \in [Tracks -> Row] /\ row'[t] = r /\ \A u \in Tracks \ {t} : row'[u] = row[u]
  BY <1>1, <1>4, <1>5 DEF Claim, SetRow
<1>7. PICK k : k = [pc |-> "claimed", track |-> t, fence |-> g,
                    kind |-> kind, ref |-> NoRef, old |-> NoRef]
  OBVIOUS
<1>8. /\ k \in Proc /\ k.pc = "claimed" /\ k.track = t /\ k.fence = g /\ k.old = NoRef
  BY <1>7 DEF Proc, PCs, Fences
<1>9. /\ proc' \in [Processes -> Proc \cup {Idle}] /\ proc'[w] = k
      /\ \A p \in Processes \ {w} : proc'[p] = proc[p]
  BY <1>1, <1>3, <1>7, <1>8 DEF Claim
<1>10. \A u \in Tracks : /\ row'[u].ref = row[u].ref /\ row'[u].status = row[u].status
                         /\ row'[u].fence >= row[u].fence
  BY <1>1, <1>2, <1>3, <1>5, <1>6 DEF Row
<1>11. TypeOK'
  BY <1>1, <1>6, <1>8, <1>9, <1>10 DEF Inv, TypeOK
<1>12. FenceInv'
  <2>1. \A v \in Workers \ {w} : proc'[v] = proc[v]
    BY <1>9 DEF Processes
  <2>2. ASSUME NEW v \in Workers, proc'[v].pc # "idle",
               row'[proc'[v].track].status # "deleted"
        PROVE  proc'[v].fence <= row'[proc'[v].track].fence
    <3>1. CASE v = w
      BY <1>3, <1>5, <1>6, <1>8, <1>9, <3>1 DEF Fences
    <3>2. CASE v # w
      <4>1. proc[v] \in Proc /\ proc'[v] = proc[v]
        BY <2>1, <2>2, <3>2, ProcFields DEF Processes
      <4>2. PICK u \in Tracks : u = proc[v].track
        BY <4>1 DEF Proc
      <4>3. proc[v].fence <= row[u].fence
        BY <1>10, <2>2, <4>1, <4>2 DEF Inv, FenceInv
      <4>4. proc[v].fence \in Nat /\ row[u].fence \in Nat /\ row'[u].fence \in Nat
        BY <1>1, <1>6, <4>1, <4>2 DEF Proc, Row
      <4>5. row'[u].fence >= row[u].fence
        BY <1>10
      <4> QED BY <4>1, <4>2, <4>3, <4>4, <4>5
    <3> QED BY <3>1, <3>2
  <2>3. ASSUME NEW v \in Workers \ {w}, proc[v].pc # "idle", proc[v].track = t
        PROVE  proc[v].fence # g
    <3>1. proc[v].fence <= row[t].fence
      BY <1>2, <2>3 DEF Inv, FenceInv
    <3>2. proc[v].fence \in Nat
      BY <2>3, ProcFields DEF Processes, Proc
    <3> QED BY <1>2, <1>3, <3>1, <3>2
  <2> QED BY <1>8, <1>9, <2>1, <2>2, <2>3 DEF Inv, FenceInv
<1>13. KeyInv'
  BY <1>1, <1>8, <1>9, <1>10 DEF Inv, KeyInv, RunInv, OfTrack, Processes
<1>14. \A o : Doomed(o)' <=> Doomed(o)
  BY <1>1, <1>8, <1>9 DEF Doomed, DoomedBy, Idle
<1>15. UpcomingInv'
  <2> SUFFICES ASSUME NEW u \in Tracks, NEW f \in Fences, Upcoming(u, f)'
               PROVE  ~ Spent(u, StagedRef(u, f))'
    BY DEF UpcomingInv
  <2>1. Upcoming(u, f)
    <3>1. CASE row'[u].status # "deleted" /\ f > row'[u].fence
      <4>1. f \in Nat /\ row[u].fence \in Nat /\ row'[u].fence \in Nat
        BY <1>1, <1>6 DEF Fences, Row
      <4>2. row'[u].fence >= row[u].fence
        BY <1>10
      <4>3. row[u].status # "deleted"
        BY <1>10, <3>1
      <4> QED BY <3>1, <4>1, <4>2, <4>3 DEF Upcoming
    <3>2. CASE \E v \in Workers : Carries(v, u, f)'
      <4>1. PICK v \in Workers : Carries(v, u, f)'
        BY <3>2
      <4>2. CASE v = w
        <5>1. u = t /\ f = g
          BY <1>8, <1>9, <4>1, <4>2 DEF Carries
        <5> QED BY <1>2, <1>3, <5>1 DEF Upcoming
      <4>3. CASE v # w
        BY <1>9, <4>1, <4>3 DEF Carries, Upcoming, Processes
      <4> QED BY <4>2, <4>3
    <3> QED BY <3>1, <3>2 DEF Upcoming
  <2>2. Spent(u, StagedRef(u, f))' => Spent(u, StagedRef(u, f))
    BY <1>8, <1>9, <1>10, <1>14 DEF Spent, Replaces, Processes, StagedRef
  <2> QED BY <2>1, <2>2 DEF Inv, UpcomingInv
<1>16. ServedInv'
  BY <1>1, <1>10, <1>14 DEF Inv, ServedInv
<1>17. OldInv'
  <2> SUFFICES ASSUME NEW v \in Workers, proc'[v].pc \in Working, FenceMatches(v)',
                      proc'[v].old # NoRef
               PROVE  row'[proc'[v].track].ref \in {NoRef, proc'[v].old}
    BY DEF OldInv
  <2>1. v # w /\ v \in Processes /\ proc'[v] = proc[v] /\ proc[v].pc # "idle"
    BY <1>8, <1>9 DEF Processes
  <2>2. PICK u \in Tracks : proc[v].track = u
    BY <2>1, RunFields
  <2>3. u # t
    <3>1. ASSUME u = t PROVE FALSE
      <4>1. proc[v].fence <= row[t].fence
        BY <1>2, <2>1, <2>2, <3>1 DEF Inv, FenceInv
      <4>2. proc[v].fence = g /\ proc[v].fence \in Nat
        BY <1>5, <1>6, <2>1, <2>2, <3>1, RunFields DEF FenceMatches, Fences
      <4> QED BY <1>2, <1>3, <4>1, <4>2
    <3> QED BY <3>1
  <2>4. FenceMatches(v)
    BY <1>6, <2>1, <2>2, <2>3 DEF FenceMatches, InTable
  <2> QED BY <1>6, <2>1, <2>2, <2>3, <2>4 DEF Inv, OldInv
<1> QED BY <1>11, <1>12, <1>13, <1>15, <1>16, <1>17 DEF Inv

\* What is committed is the run's own key, and what it supersedes is doomed only
\* after its row has let go of it.
LEMMA CommitKeepsInv ==
  ASSUME Inv, may' = may, NEW w \in Workers, Commit(w)
  PROVE  Inv'
<1>1. /\ w \in Processes /\ proc[w].pc = "stored" /\ proc[w].pc # "idle"
      /\ UNCHANGED <<objects, queue, sweep>> /\ FenceMatches(w)
      /\ row \in [Tracks -> Row] /\ proc \in [Processes -> Proc \cup {Idle}]
  BY DEF Commit, Processes, Inv, TypeOK
<1>2. PICK t \in Tracks, g \in Fences, o \in Refs, old \in Refs \cup {NoRef} :
        proc[w].track = t /\ proc[w].fence = g /\ proc[w].ref = o /\ proc[w].old = old
  <2>1. proc[w].ref \in Refs
    BY <1>1 DEF Inv, TypeOK
  <2> QED BY <1>1, <2>1, RunFields
<1>3. row[t].fence = g /\ row[t].status # "deleted" /\ row[t] \in Row
  BY <1>1, <1>2 DEF FenceMatches, InTable
<1>4. PICK r : r = [row[t] EXCEPT !.status = "ready", !.ref = o]
  OBVIOUS
<1>5. r \in Row /\ r.status = "ready" /\ r.ref = o /\ r.fence = g
  BY <1>3, <1>4 DEF Row, Statuses
<1>6. row' \in [Tracks -> Row] /\ row'[t] = r /\ \A u \in Tracks \ {t} : row'[u] = row[u]
  BY <1>1, <1>2, <1>4, <1>5 DEF Commit, SetRow
<1>7. PICK k : /\ proc' = [proc EXCEPT ![w] = k]
               /\ \/ k = [proc[w] EXCEPT !.pc = "superseding"] /\ proc[w].old # NoRef
                  \/ k = [proc[w] EXCEPT !.pc = "settling", !.ref = NoRef, !.old = NoRef]
  BY <1>1 DEF Commit, Goto, Leave
<1>8. /\ k \in Proc /\ k.track = t /\ k.fence = g /\ k.pc \in {"superseding", "settling"}
      /\ k.pc = "superseding" => k.old = old /\ old \in Refs
  BY <1>1, <1>2, <1>7, RunFields DEF Proc, PCs
<1>9. /\ proc' \in [Processes -> Proc \cup {Idle}] /\ proc'[w] = k
      /\ \A p \in Processes \ {w} : proc'[p] = proc[p]
  BY <1>1, <1>7, <1>8
<1>10. \A u \in Tracks : row'[u].fence = row[u].fence
                        /\ (row'[u].status # "deleted" => row[u].status # "deleted")
  BY <1>3, <1>5, <1>6
<1>11. RunInv(w) /\ OfTrack(t, old)
  BY <1>1, <1>2 DEF Inv, KeyInv, RunInv
<1>12. o \in StagedRefs =>
         /\ o = StagedRef(t, g) /\ (o \in objects \/ "vanish" \in may)
         /\ ~ Doomed(o) /\ old # o
         /\ \A u \in Tracks \ {t} : row[u].ref # o
  <2>1. o \in StagedRefs =>
          o = StagedRef(t, g) /\ ~ Spent(t, o) /\ (o \in objects \/ "vanish" \in may)
    BY <1>1, <1>2, <1>11, OwnKeyIsUpcoming DEF RunInv
  <2>2. Replaces(w, old)
    BY <1>1, <1>2 DEF Replaces
  <2>3. \A u \in Tracks : OfTrack(u, row[u].ref)
    BY DEF Inv, KeyInv
  <2> QED BY <2>1, <2>2, <2>3, KeysDiffer DEF Spent, OfTrack
<1>13. TypeOK'
  <2>1. TypeOK
    BY DEF Inv
  <2>2. \A u \in Tracks : row'[u].status = "ready" <=> row'[u].ref # NoRef
    BY <1>5, <1>6, <2>1, KeysOfRefs DEF TypeOK
  <2>3. \A p \in Processes : proc'[p].pc \in {"storing", "stored", "checking", "deleting"}
          => proc'[p].ref \in Refs
    BY <1>8, <1>9, <2>1 DEF TypeOK
  <2>4. \A p \in Processes : proc'[p].pc = "superseding" => proc'[p].old \in Refs
    BY <1>8, <1>9, <2>1 DEF TypeOK
  <2> QED BY <1>1, <1>6, <1>9, <2>1, <2>2, <2>3, <2>4 DEF TypeOK
<1>14. FenceInv'
  <2>1. \A v \in Workers : proc'[v].pc # "idle" =>
          /\ proc[v].pc # "idle" /\ proc'[v].track = proc[v].track
          /\ proc'[v].fence = proc[v].fence /\ proc[v].track \in Tracks
    BY <1>1, <1>2, <1>8, <1>9, RunFields DEF Processes
  <2>2. FenceInv
    BY DEF Inv
  <2>3. ASSUME NEW v \in Workers, proc'[v].pc # "idle",
               row'[proc'[v].track].status # "deleted"
        PROVE  proc'[v].fence <= row'[proc'[v].track].fence
    BY <1>10, <2>1, <2>2, <2>3 DEF FenceInv
  <2> QED BY <2>1, <2>2, <2>3 DEF FenceInv
<1>15. KeyInv'
  <2>1. OfTrack(t, o)
    BY <1>12 DEF OfTrack
  <2>2. \A u \in Tracks : OfTrack(u, row'[u].ref)
    BY <1>5, <1>6, <2>1 DEF Inv, KeyInv
  <2>3. \A v \in Workers : RunInv(v)'
    BY <1>1, <1>8, <1>9 DEF Inv, KeyInv, RunInv, OfTrack, Processes
  <2> QED BY <2>2, <2>3 DEF KeyInv, OfTrack
<1>16. \A q : Doomed(q)' => Doomed(q) \/ q = old
  BY <1>1, <1>8, <1>9 DEF Doomed, DoomedBy
<1>17. UpcomingInv'
  <2> SUFFICES ASSUME NEW u \in Tracks, NEW f \in Fences, Upcoming(u, f)'
               PROVE  ~ Spent(u, StagedRef(u, f))'
    BY DEF UpcomingInv
  <2>0. PICK q \in StagedRefs : q = StagedRef(u, f)
    BY KeysDiffer
  <2>1. Upcoming(u, f) /\ ~ (u = t /\ f = g)
    <3>1. ASSUME NEW v \in Workers, Carries(v, u, f)'
          PROVE  v # w /\ Carries(v, u, f)
      BY <1>8, <1>9, <3>1 DEF Carries, Underway, Processes
    <3>2. \A v \in Workers : Carries(v, u, f)' => ~ (u = t /\ f = g)
      BY <1>1, <1>2, <3>1 DEF Carries, Underway, Inv, FenceInv
    <3>3. f \in Nat /\ g \in Nat
      BY DEF Fences
    <3> QED BY <1>3, <1>10, <3>1, <3>2, <3>3 DEF Upcoming
  <2>2. ~ Spent(u, q)
    BY <2>0, <2>1 DEF Inv, UpcomingInv
  <2>3. q # old
    <3>1. Replaces(w, old)
      BY <1>1, <1>2 DEF Replaces
    <3>2. ASSUME q = old PROVE u = t
      BY <1>11, <2>0, <3>2, KeysDiffer DEF OfTrack
    <3> QED BY <2>2, <3>1, <3>2 DEF Spent
  <2>4. ~ Doomed(q)'
    BY <1>16, <2>2, <2>3 DEF Spent
  <2>5. row'[u].ref # q
    BY <1>5, <1>6, <1>12, <2>0, <2>1, <2>2, KeysDiffer DEF Spent
  <2>6. \A v \in Workers : Replaces(v, q)' => Replaces(v, q)
    BY <1>8, <1>9 DEF Replaces, Processes
  <2>7. ~ Spent(u, q)'
    BY <2>2, <2>4, <2>5, <2>6 DEF Spent
  <2> QED BY <2>0, <2>7 DEF StagedRef
<1>18. ServedInv'
  <2>1. ASSUME NEW u \in Tracks, NEW q \in StagedRefs, row'[u].ref = q
        PROVE  (q \in objects' \/ "vanish" \in may) /\ ~ Doomed(q)'
    <3>1. CASE u = t
      BY <1>1, <1>5, <1>6, <1>12, <1>16, <2>1, <3>1
    <3>2. CASE u # t
      <4>1. row[u].ref = q /\ (q \in objects \/ "vanish" \in may) /\ ~ Doomed(q)
        BY <1>6, <2>1, <3>2 DEF Inv, ServedInv
      <4>2. q # old
        BY <1>11, <2>1, <3>2, <4>1, KeysDiffer DEF OfTrack, Inv, KeyInv
      <4> QED BY <1>1, <1>16, <4>1, <4>2
    <3> QED BY <3>1, <3>2
  <2> QED BY <2>1 DEF ServedInv, Doomed, DoomedBy
<1>19. OldInv'
  <2> SUFFICES ASSUME NEW v \in Workers, proc'[v].pc \in Working, FenceMatches(v)',
                      proc'[v].old # NoRef
               PROVE  row'[proc'[v].track].ref \in {NoRef, proc'[v].old}
    BY DEF OldInv
  <2>1. v # w /\ v \in Processes /\ proc'[v] = proc[v] /\ proc[v].pc # "idle"
    BY <1>8, <1>9 DEF Processes
  <2>2. PICK u \in Tracks : proc[v].track = u
    BY <2>1, RunFields
  <2>3. u # t
    BY <1>1, <1>2, <1>5, <1>6, <2>1, <2>2 DEF Inv, FenceInv, FenceMatches
  <2>4. FenceMatches(v)
    BY <1>6, <2>1, <2>2, <2>3 DEF FenceMatches, InTable
  <2> QED BY <1>6, <2>1, <2>2, <2>3, <2>4 DEF Inv, OldInv
<1> QED BY <1>13, <1>14, <1>15, <1>17, <1>18, <1>19 DEF Inv

-----------------------------------------------------------------------------
(* The theorem                                                             *)

LEMMA InitHasInv ==
  ASSUME Init
  PROVE  Inv
<1>1. MaxFence \in Nat
  BY AudioAssumption
<1>2. \A p \in Processes : proc[p] = Idle
  BY DEF Init
<1>3. TypeOK
  BY <1>1 DEF Init, TypeOK, NoRow, Row, Statuses, Idle
<1>4. \A t \in Tracks : row[t].ref = NoRef /\ row[t].fence = 0
  BY DEF Init, NoRow
<1>5. \A o \in Refs : ~ Doomed(o)
  BY <1>2 DEF Init, Doomed, DoomedBy, Idle
<1>6. FenceInv /\ KeyInv /\ ServedInv
  BY <1>2, <1>4, KeysOfRefs DEF FenceInv, KeyInv, RunInv, OfTrack, ServedInv, Idle, Processes
<1>7. UpcomingInv
  BY <1>2, <1>4, <1>5, KeysDiffer DEF UpcomingInv, Spent, Replaces, Idle, Processes
<1>8. OldInv
  BY <1>2 DEF OldInv, Idle, Processes
<1> QED BY <1>3, <1>6, <1>7, <1>8 DEF Inv

\* An object that vanishes is excused.
LEMMA VanishKeepsInv ==
  ASSUME Inv, may' = may, NEW o \in Refs, Vanish(o)
  PROVE  Inv'
<1>1. /\ UNCHANGED <<row, proc, queue, sweep>> /\ "vanish" \in may
      /\ objects' \subseteq objects
  BY DEF Vanish, Vanishes
<1>2. StoreGoesOn({})
  BY <1>1 DEF StoreGoesOn, Inv, TypeOK, Doomed
<1>3. proc' \in [Processes -> Proc \cup {Idle}] /\ \A p \in Processes : ProcGoesOn(p, {})
  BY <1>1, Stays DEF Inv, TypeOK
<1> QED BY <1>1, <1>2, <1>3, RowsStay, NothingGivenUp

LEMMA StepKeepsInv ==
  ASSUME Inv, [Next]_vars
  PROVE  Inv'
<1>0. may' = may
  BY DEF Next, vars
<1>1. CASE UNCHANGED vars
  <2>1. /\ row' \in [Tracks -> Row] /\ proc' \in [Processes -> Proc \cup {Idle}]
        /\ \A t \in Tracks : RowGoesOn(t)
    BY <1>0, <1>1, RowsStay DEF vars, Inv, TypeOK
  <2> QED BY <1>0, <1>1, <2>1, Stays, NothingGivenUp DEF vars
<1>2. CASE Catalog
  BY <1>0, <1>2, CatalogKeepsInv, DeleteTrackKeepsInv DEF Catalog
<1>3. ASSUME NEW w \in Workers, Run(w) PROVE Inv'
  BY <1>0, <1>3, ClaimKeepsInv, LoadTrackKeepsInv, ChooseRefKeepsInv, StoreObjectKeepsInv,
     EndOfRunKeepsInv, CommitKeepsInv, QueueSupersededKeepsInv, GiveUpKeepsInv DEF Run
<1>4. CASE \E p \in Processes : Dispose(p)
  BY <1>0, <1>4, DisposalKeepsInv DEF Dispose
<1>5. CASE SweepStep
  BY <1>0, <1>5, SweepKeepsInv
<1>6. CASE \E o \in Refs : Vanish(o)
  BY <1>0, <1>6, VanishKeepsInv
<1> QED BY <1>1, <1>2, <1>3, <1>4, <1>5, <1>6 DEF Next

LEMMA InvHolds == Spec => []Inv
<1>1. Init => Inv
  BY InitHasInv
<1>2. Inv /\ [Next]_vars => Inv'
  BY StepKeepsInv
<1> QED BY <1>1, <1>2, PTL DEF Spec

\* Every row, run, queue entry and key has its type, and a track has a key
\* exactly while it is ready.
THEOREM AudioTypeCorrect == Spec => []TypeOK
<1>1. Inv => TypeOK
  BY DEF Inv
<1> QED BY <1>1, InvHolds, PTL

\* Whatever zombies, rollbacks, deletions of tracks and sweeps delete, it is
\* never the object a replacement has put in place.
THEOREM ReplacementsStay == Spec => []StagedAudioIsServed
<1>1. Inv => StagedAudioIsServed
  BY DEF Inv, ServedInv, StagedAudioIsServed, Vanishes
<1> QED BY <1>1, InvHolds, PTL

-----------------------------------------------------------------------------
(* No object is leaked                                                     *)

\* Somebody refers to the object or sees to it, or it was given up.
Accounted(o) ==
  \/ \E t \in Tracks : row[t].ref = o
  \/ orphan[o] # "none"
  \/ \E p \in Processes : InHand(p, o)
  \/ o \in abandoned

AccountInv == ~ Sweeps => sweep = Idle /\ \A o \in objects : Accounted(o)

\* In a step of one process only the object it had in hand, and those that rows
\* let go of, need somebody new.
LEMMA OthersAccount ==
  ASSUME NEW p \in Processes, NEW o, Accounted(o), UNCHANGED sweep,
         \A q \in Processes \ {p} : proc'[q] = proc[q],
         orphan[o] # "none" => orphan'[o] # "none", o \in abandoned => Accounted(o)',
         \A t \in Tracks : row[t].ref = o => Accounted(o)',
         InHand(p, o) => Accounted(o)'
  PROVE  Accounted(o)'
BY DEF Accounted, InHand

LEMMA CatalogAccounts ==
  ASSUME Inv, NEW t \in Tracks, NEW o \in objects, Accounted(o),
         \/ AddTrack(t) \/ MarkRefused(t) \/ Retry(t) \/ LoseAudio(t)
         \/ LeaseLapses(t) \/ Preempt(t)
  PROVE  Accounted(o)' /\ objects' = objects /\ UNCHANGED sweep
<1>1. UNCHANGED <<proc, objects, queue, sweep>>
  BY DEF AddTrack, MarkRefused, Retry, LoseAudio, LeaseLapses, Preempt
<1>2. row \in [Tracks -> Row] /\ row[t] \in Row
  BY DEF Inv, TypeOK
<1>3. \A u \in Tracks : row[u].ref = o => row'[u].ref = o
  <2>1. CASE LoseAudio(t)
    BY <1>2, <2>1 DEF LoseAudio, SetRow
  <2>2. CASE AddTrack(t) \/ MarkRefused(t) \/ Retry(t)
    BY <1>2, <2>2 DEF AddTrack, MarkRefused, Retry, SetRow, Row
  <2>3. CASE LeaseLapses(t)
    BY <1>2, <2>3 DEF LeaseLapses, SetRow, Row
  <2>4. CASE Preempt(t)
    BY <1>2, <2>4 DEF Preempt, SetRow, Row
  <2> QED BY <2>1, <2>2, <2>3, <2>4
<1> QED BY <1>1, <1>3 DEF Accounted, InHand

LEMMA DeletionAccounts ==
  ASSUME Inv, NEW d \in Deleters, NEW t \in Tracks, DeleteTrack(d, t), NEW o \in objects,
         Accounted(o)
  PROVE  Accounted(o)' /\ objects' = objects /\ UNCHANGED sweep
<1>1. /\ d \in Processes /\ proc[d] = Idle /\ UNCHANGED <<objects, queue, sweep>>
      /\ row \in [Tracks -> Row] /\ proc \in [Processes -> Proc \cup {Idle}]
      /\ o # NoRef
  BY KeysOfRefs DEF DeleteTrack, Processes, Inv, TypeOK
<1>2. ~ InHand(d, o)
  BY <1>1 DEF InHand, Idle
<1>3. \A u \in Tracks \ {t} : row'[u] = row[u]
  BY <1>1 DEF DeleteTrack, SetRow
<1>4. \A q \in Processes \ {d} : proc'[q] = proc[q]
  BY <1>1 DEF DeleteTrack
<1>5. row[t].ref = o => Accounted(o)'
  BY <1>1 DEF DeleteTrack, Accounted, InHand
<1>6. \A u \in Tracks : row[u].ref = o => Accounted(o)'
  BY <1>3, <1>5 DEF Accounted
<1>7. /\ o \in abandoned => Accounted(o)'
      /\ orphan[o] # "none" => orphan'[o] # "none"
      /\ UNCHANGED <<objects, sweep>>
  BY <1>1 DEF Accounted
<1> QED BY <1>1, <1>2, <1>4, <1>6, <1>7, OthersAccount

\* A run accounts for what it stores, commits, supersedes and rolls back.
LEMMA RunAccounts ==
  ASSUME Inv, NEW w \in Workers, Run(w), NEW o \in objects',
         o \in objects => Accounted(o)
  PROVE  Accounted(o)' /\ UNCHANGED sweep
<1>1. /\ w \in Processes /\ proc \in [Processes -> Proc \cup {Idle}]
      /\ row \in [Tracks -> Row] /\ objects \subseteq Refs
      /\ orphan \in [Refs -> {"none", "held", "due"}] /\ NoRef \notin Refs
  BY KeysOfRefs DEF Processes, Inv, TypeOK
<1>2. UNCHANGED sweep
  BY DEF Run, Claim, LoadTrack, ChooseRef, StoreObject, FailBeforeStored, Commit,
         QueueSuperseded, RollBack, Cancel, Fail, Settle
<1>3. \A q \in Processes \ {w} : proc'[q] = proc[q]
  BY <1>1 DEF Run, Claim, LoadTrack, ChooseRef, StoreObject, FailBeforeStored, Commit,
         QueueSuperseded, RollBack, Cancel, Fail, Settle, Goto, Leave
<1>4. orphan[o] # "none" => orphan'[o] # "none"
  BY <1>1 DEF Run, Claim, LoadTrack, ChooseRef, StoreObject, FailBeforeStored, Commit,
         QueueSuperseded, RollBack, Cancel, Fail, Settle, RecordOrphan, SetOrphan, Abandon
<1>14. CASE StoreObject(w) /\ o = proc[w].ref
  <2>1. proc'[w].pc = "stored" /\ proc'[w].ref = o
    BY <1>1, <1>14, ProcFields DEF StoreObject, Goto, Proc
  <2> QED BY <1>1, <1>2, <2>1 DEF Accounted, InHand
<1>15. CASE ~ (StoreObject(w) /\ o = proc[w].ref) /\ o \in abandoned
  <2>1. o \in abandoned'
    BY <1>15 DEF Run, Claim, LoadTrack, ChooseRef, StoreObject, FailBeforeStored, Commit,
         QueueSuperseded, RollBack, Cancel, Fail, Settle, RecordOrphan, Abandon, NotStored
  <2> QED BY <1>2, <2>1 DEF Accounted
<1>5. CASE ~ (StoreObject(w) /\ o = proc[w].ref) /\ o \notin objects
  <2>1. NotStored(w) /\ o \in abandoned'
    BY <1>5 DEF Run, Claim, LoadTrack, ChooseRef, StoreObject, FailBeforeStored, Commit,
         QueueSuperseded, RollBack, Cancel, Fail, Settle, NotStored
  <2> QED BY <1>2, <2>1 DEF Accounted
<1> SUFFICES ASSUME o \in objects, o \notin abandoned PROVE Accounted(o)'
  BY <1>2, <1>5, <1>14, <1>15
<1>6. SUFFICES /\ \A t \in Tracks : row[t].ref = o => Accounted(o)'
               /\ InHand(w, o) => Accounted(o)'
  BY <1>1, <1>2, <1>3, <1>4, OthersAccount
<1>7. ASSUME NEW t \in Tracks, NEW kind \in {"acquire", "replace"}, Claim(w, t, kind)
      PROVE  (\A u \in Tracks : row[u].ref = o => Accounted(o)')
             /\ (InHand(w, o) => Accounted(o)')
  <2>1. \A u \in Tracks : row'[u].ref = row[u].ref
    <3>1. row[t] \in Row
      BY <1>1
    <3>2. PICK r : r = [row[t] EXCEPT !.leased = TRUE, !.fence = @ + 1]
      OBVIOUS
    <3>3. r.ref = row[t].ref
      BY <3>1, <3>2 DEF Row
    <3> QED BY <1>1, <1>7, <3>2, <3>3 DEF Claim, SetRow
  <2>2. ~ InHand(w, o)
    BY <1>7 DEF Claim, InHand, Idle
  <2> QED BY <2>1, <2>2 DEF Accounted
<1>8. CASE LoadTrack(w)
  <2>1. proc[w].track \in Tracks /\ ~ InHand(w, o)
    BY <1>1, <1>8, RunFields DEF LoadTrack, InHand
  <2>2. \A u \in Tracks : row[u].ref = o => row'[u].ref = o
    BY <1>1, <1>8, <2>1 DEF LoadTrack, InTable, SetRow, Inv, TypeOK
  <2> QED BY <2>1, <2>2 DEF Accounted
<1>9. CASE ChooseRef(w) \/ StoreObject(w) \/ FailBeforeStored(w)
  BY <1>9 DEF ChooseRef, StoreObject, FailBeforeStored, InHand, Accounted
<1>10. CASE Commit(w)
  <2>1. PICK t \in Tracks, old \in Refs \cup {NoRef}, q \in {proc[w].ref} :
          proc[w].track = t /\ proc[w].old = old /\ proc[w].ref = q
    BY <1>1, <1>10, RunFields DEF Commit
  <2>2. /\ proc[w].pc = "stored" /\ row'[t].ref = q
        /\ \A u \in Tracks \ {t} : row'[u] = row[u]
    <3>1. row[t] \in Row
      BY <1>1
    <3> QED BY <1>1, <1>10, <2>1, <3>1 DEF Commit, SetRow, Row
  <2>3. InHand(w, o) => Accounted(o)'
    BY <2>1, <2>2 DEF InHand, Accounted
  <2>4. ASSUME row[t].ref = o PROVE Accounted(o)'
    <3>1. row[t].status = "ready" /\ o # NoRef
      BY <1>1, <2>4 DEF Inv, TypeOK
    <3>2. CASE old = NoRef
      BY <1>10, <2>1, <2>2, <2>4, <3>1, <3>2 DEF Commit, Completable, Accounted
    <3>3. CASE old # NoRef
      <4>1. o = old
        BY <1>10, <2>1, <2>2, <2>4, <3>1, <3>3 DEF Commit, Inv, OldInv
      <4>2. proc'[w].pc = "superseding" /\ proc'[w].old = old
        <5>1. proc[w] \in Proc
          BY <1>1, <2>2, ProcFields
        <5> QED BY <1>1, <1>10, <2>1, <3>3, <5>1 DEF Commit, Goto, Proc
      <4> QED BY <1>1, <4>1, <4>2 DEF Accounted, InHand
    <3> QED BY <3>2, <3>3
  <2> QED BY <2>2, <2>3, <2>4 DEF Accounted
<1>11. CASE QueueSuperseded(w)
  <2>1. UNCHANGED row /\ (InHand(w, o) => proc[w].old = o)
    BY <1>11 DEF QueueSuperseded, InHand
  <2>2. proc[w].old = o =>
          InUseByAnother(o, proc[w].track) \/ orphan'[o] # "none" \/ o \in abandoned'
    BY <1>1, <1>11 DEF QueueSuperseded, RecordOrphan, SetOrphan, Abandon
  <2> QED BY <2>1, <2>2 DEF Accounted, InUseByAnother
<1>12. CASE RollBack(w) \/ Cancel(w)
  <2>1. UNCHANGED row
    BY <1>12 DEF RollBack, Cancel
  <2>2. CASE Cancel(w)
    BY <1>1, <2>1, <2>2 DEF Cancel, RecordOrphan, SetOrphan, Abandon, InHand, Accounted
  <2>3. CASE RollBack(w)
    <3>1. proc[w] \in Proc
      BY <1>1, <2>3, ProcFields DEF RollBack
    <3>2. proc'[w].pc = "checking" /\ proc'[w].ref = proc[w].ref
      BY <1>1, <2>3, <3>1 DEF RollBack, Proc
    <3>3. InHand(w, o) => proc[w].ref = o
      BY <2>3 DEF RollBack, InHand
    <3> QED BY <1>1, <2>1, <3>2, <3>3 DEF InHand, Accounted
  <2> QED BY <1>12, <2>2, <2>3
<1>13. CASE Fail(w) \/ Settle(w)
  <2>1. proc[w].track \in Tracks /\ ~ InHand(w, o)
    BY <1>1, <1>13, RunFields DEF Fail, Settle, InHand
  <2>2. row[proc[w].track] \in Row
    BY <1>1, <2>1
  <2>3. \A u \in Tracks : row'[u].ref = row[u].ref
    BY <1>1, <1>13, <2>1, <2>2 DEF Fail, Settle, Release, SetRow, Row
  <2> QED BY <2>1, <2>3 DEF Accounted
<1> QED BY <1>7, <1>8, <1>9, <1>10, <1>11, <1>12, <1>13 DEF Run

\* A process that disposes of an object deletes it, queues it or gives it up.
LEMMA DisposalAccounts ==
  ASSUME Inv, NEW p \in Processes, Dispose(p), NEW o \in objects', Accounted(o)
  PROVE  Accounted(o)' /\ UNCHANGED sweep
<1>1. /\ proc \in [Processes -> Proc \cup {Idle}] /\ objects' \subseteq Refs
      /\ orphan \in [Refs -> {"none", "held", "due"}] /\ UNCHANGED <<row, sweep>>
      /\ proc[p].pc # "idle"
  BY ProcFields DEF Dispose, CheckInUse, DeleteObject, Crash, Inv, TypeOK
<1>2. \A q \in Processes \ {p} : proc'[q] = proc[q]
  BY <1>1 DEF Dispose, CheckInUse, DeleteObject, Crash, Disposed, Goto, Leave
<1>3. orphan[o] # "none" => orphan'[o] # "none"
  BY <1>1 DEF Dispose, CheckInUse, DeleteObject, Crash, RecordOrphan, SetOrphan, Abandon
<1>4. o \in abandoned => o \in abandoned'
  BY DEF Dispose, CheckInUse, DeleteObject, Crash, RecordOrphan, Abandon
<1>5. ASSUME InHand(p, o) PROVE Accounted(o)'
  <2>1. CASE Crash(p)
    BY <1>1, <1>5, <2>1 DEF Crash, Accounted
  <2>2. CASE CheckInUse(p) \/ DeleteObject(p)
    <3>1. proc[p].ref = o
      BY <1>5, <2>2 DEF CheckInUse, DeleteObject, InHand
    <3>2. CASE orphan'[o] # "none" \/ o \in abandoned' \/ InUseByAnother(o, proc[p].track)
      BY <1>1, <3>2 DEF Accounted, InUseByAnother
    <3>3. CASE proc[p].pc = "checking" /\ Goto(p, "deleting")
      <4>1. proc[p] \in Proc
        BY <1>1, ProcFields
      <4>2. proc'[p].pc = "deleting" /\ proc'[p].ref = o
        BY <1>1, <3>1, <3>3, <4>1 DEF Goto, Proc
      <4> QED BY <4>2 DEF InHand, Accounted
    <3> QED
      BY <1>1, <2>2, <3>1, <3>2, <3>3
      DEF CheckInUse, DeleteObject, RecordOrphan, SetOrphan, Abandon
  <2> QED BY <2>1, <2>2 DEF Dispose
<1> QED BY <1>1, <1>2, <1>3, <1>4, <1>5, OthersAccount DEF Accounted

LEMMA StepKeepsAccounts ==
  ASSUME Inv, AccountInv, [Next]_vars
  PROVE  AccountInv'
<1>1. SUFFICES ASSUME ~ Sweeps, sweep = Idle, \A o \in objects : Accounted(o)
               PROVE  sweep' = Idle /\ \A o \in objects' : Accounted(o)'
  BY DEF AccountInv, Sweeps, Next, vars
<1>2. CASE UNCHANGED vars
  BY <1>1, <1>2 DEF vars, Accounted, InHand
<1>3. CASE Catalog
  <2>1. ASSUME NEW o \in objects PROVE Accounted(o)' /\ objects' = objects /\ sweep' = Idle
    BY <1>1, <1>3, CatalogAccounts, DeletionAccounts DEF Catalog
  <2>2. UNCHANGED <<objects, sweep>>
    BY <1>3 DEF Catalog, AddTrack, MarkRefused, Retry, LoseAudio, LeaseLapses, Preempt,
       DeleteTrack
  <2> QED BY <1>1, <2>1, <2>2
<1>4. ASSUME NEW w \in Workers, Run(w)
      PROVE  sweep' = Idle /\ \A o \in objects' : Accounted(o)'
  <2>1. sweep' = Idle
    BY <1>1, <1>4 DEF Run, Claim, LoadTrack, ChooseRef, StoreObject, FailBeforeStored,
       Commit, QueueSuperseded, RollBack, Cancel, Fail, Settle
  <2> QED BY <1>1, <1>4, <2>1, RunAccounts
<1>5. ASSUME NEW p \in Processes, Dispose(p)
      PROVE  sweep' = Idle /\ \A o \in objects' : Accounted(o)'
  <2>1. objects' \subseteq objects /\ sweep' = Idle
    BY <1>1, <1>5 DEF Dispose, CheckInUse, DeleteObject, Crash
  <2> QED BY <1>1, <1>5, <2>1, DisposalAccounts
<1>6. ~ SweepStep
  BY <1>1 DEF SweepStep, GraceEnds, ListOrphan, ReadUsage, DeleteOrphan,
     ResolveOrphan, Idle
<1>7. CASE \E o \in Refs : Vanish(o)
  BY <1>1, <1>7 DEF Vanish, Accounted, InHand
<1> QED BY <1>2, <1>3, <1>4, <1>5, <1>6, <1>7 DEF Next

\* As long as the sweep is off, whatever fails and dies: every object that exists
\* is referred to, queued as an orphan, in the hands of a process, or was given
\* up by an error that is only logged or by the death of the process.
THEOREM NoObjectIsLeaked == Spec => []NoLeakedObject
<1>1. Init => AccountInv
  BY DEF Init, AccountInv
<1>2. Inv /\ AccountInv /\ [Next]_vars => AccountInv'
  BY StepKeepsAccounts
<1>3. AccountInv => NoLeakedObject
  BY DEF AccountInv, Accounted, NoLeakedObject
<1> QED BY <1>1, <1>2, <1>3, InvHolds, PTL DEF Spec

-----------------------------------------------------------------------------
(* The cooldown                                                            *)

-----------------------------------------------------------------------------
(* The inductive invariant                                                 *)

\* The request was admitted, and has not given its window back.
HoldsWindow(r) == place[r] \in {"scheduling", "releasing", "accepted"}

\* A statement has read the clock at most Statement ago.
StatementInv ==
  \A r \in Retries :
    place[r] = "reserving" => admitted[r] <= now /\ now <= admitted[r] + Statement

\* An admission is in the row, or its cooldown is over.
AdmissionInv ==
  \A r \in Retries : HoldsWindow(r) =>
    /\ admitted[r] <= now
    /\ reserved = admitted[r] \/ admitted[r] + Cooldown <= now

\* The property, of every request that was admitted.
GapInv ==
  \A r, s \in Retries :
    r # s /\ HoldsWindow(r) /\ HoldsWindow(s) /\ admitted[r] <= admitted[s]
      => admitted[r] + Cooldown <= admitted[s] + Statement

GateInv == GateTypeOK /\ StatementInv /\ AdmissionInv /\ GapInv

-----------------------------------------------------------------------------
(* Reserving                                                               *)

\* Whoever finds the row open was admitted a cooldown after every request that
\* holds an admission, but for the time of a statement.
LEMMA OpenIsLate ==
  ASSUME GateInv, NEW r \in Retries, NEW s \in Retries,
         place[r] = "reserving", Open(r), HoldsWindow(s)
  PROVE  /\ admitted[s] + Cooldown <= admitted[r] + Statement
         /\ admitted[s] + Cooldown <= now
         /\ admitted[r] > admitted[s]
<1>1. admitted[r] \in Nat /\ admitted[s] \in Nat /\ now \in Nat /\ Cooldown \in Nat
      /\ Statement \in Nat /\ Statement < Cooldown
  BY CooldownAssumption DEF GateInv, GateTypeOK
<1>2. admitted[r] <= now /\ now <= admitted[r] + Statement
  BY DEF GateInv, StatementInv
<1>3. reserved = admitted[s] \/ admitted[s] + Cooldown <= now
  BY DEF GateInv, AdmissionInv
<1>4. CASE reserved = admitted[s]
  <2>1. reserved # Unreserved
    BY <1>1, <1>4, CooldownAssumption
  <2>2. admitted[s] + Cooldown <= admitted[r]
    BY <1>4, <2>1 DEF Open
  <2> QED BY <1>1, <1>2, <2>2
<1>5. CASE admitted[s] + Cooldown <= now
  BY <1>1, <1>2, <1>5
<1> QED BY <1>3, <1>4, <1>5

-----------------------------------------------------------------------------
(* Steps                                                                   *)

\* A step that leaves the clock and the row alone, and gives nobody an admission
\* or a statement, keeps the invariant.
LEMMA PlaceKeepsInv ==
  ASSUME GateInv, UNCHANGED <<now, reserved, admitted>>, NEW r \in Retries,
         NEW to \in Places, place' = [place EXCEPT ![r] = to], to # "reserving",
         to \in {"scheduling", "releasing", "accepted"} => HoldsWindow(r)
  PROVE  GateInv'
<1>1. GateTypeOK'
  BY DEF GateInv, GateTypeOK
<1>2. \A s \in Retries : /\ (place[s])' = "reserving" => place[s] = "reserving"
                         /\ HoldsWindow(s)' => HoldsWindow(s)
  BY DEF GateInv, GateTypeOK, HoldsWindow
<1>3. StatementInv'
  BY <1>2 DEF GateInv, StatementInv
<1>4. AdmissionInv'
  BY <1>2 DEF GateInv, AdmissionInv
<1>5. GapInv'
  BY <1>2 DEF GateInv, GapInv
<1> QED BY <1>1, <1>3, <1>4, <1>5 DEF GateInv

\* Reading the clock begins a statement.
LEMMA ReadClockKeepsInv ==
  ASSUME GateInv, NEW r \in Retries, ReadClock(r)
  PROVE  GateInv'
<1> USE DEF ReadClock, Goes
<1>1. GateTypeOK'
  BY DEF GateInv, GateTypeOK, Places
<1>2. \A s \in Retries :
        HoldsWindow(s)' => s # r /\ HoldsWindow(s) /\ (admitted[s])' = admitted[s]
  BY DEF GateInv, GateTypeOK, HoldsWindow
<1>3. StatementInv'
  <2> SUFFICES ASSUME NEW s \in Retries, (place[s])' = "reserving"
               PROVE  (admitted[s])' <= now /\ now <= (admitted[s])' + Statement
    BY DEF StatementInv
  <2>1. CASE s = r
    BY <2>1, CooldownAssumption DEF GateInv, GateTypeOK
  <2>2. CASE s # r
    <3>1. place[s] = "reserving" /\ (admitted[s])' = admitted[s]
      BY <2>2 DEF GateInv, GateTypeOK
    <3> QED BY <3>1 DEF GateInv, StatementInv
  <2> QED BY <2>1, <2>2
<1>4. AdmissionInv'
  BY <1>2 DEF GateInv, AdmissionInv
<1>5. GapInv'
  BY <1>2 DEF GateInv, GapInv
<1> QED BY <1>1, <1>3, <1>4, <1>5 DEF GateInv

\* A reservation, answered or not.
LEMMA ReservationKeepsInv ==
  ASSUME GateInv, NEW r \in Retries, NEW to \in {"scheduling", "idle"},
         Open(r), Goes(r, "reserving", to), reserved' = admitted[r],
         UNCHANGED <<now, admitted>>
  PROVE  GateInv'
<1> USE DEF Goes
<1>1. GateTypeOK'
  BY DEF GateInv, GateTypeOK, Places
<1>2. \A s \in Retries : s # r => HoldsWindow(s)' = HoldsWindow(s) /\ (place[s])' = place[s]
  BY DEF GateInv, GateTypeOK, HoldsWindow
<1>3. (place[r])' = to
  BY DEF GateInv, GateTypeOK
<1>4. \A s \in Retries : s # r /\ HoldsWindow(s) =>
        /\ admitted[s] + Cooldown <= admitted[r] + Statement
        /\ admitted[s] + Cooldown <= now
        /\ admitted[r] > admitted[s]
  BY OpenIsLate
<1>5. StatementInv'
  BY <1>2, <1>3 DEF GateInv, StatementInv
<1>6. AdmissionInv'
  <2>1. admitted[r] <= now
    BY DEF GateInv, StatementInv
  <2> QED BY <1>2, <1>4, <2>1 DEF GateInv, AdmissionInv
<1>7. GapInv'
  <2> SUFFICES ASSUME NEW s \in Retries, NEW t \in Retries, s # t,
                      HoldsWindow(s)', HoldsWindow(t)',
                      admitted[s] <= admitted[t]
               PROVE  admitted[s] + Cooldown <= admitted[t] + Statement
    BY DEF GapInv
  <2>1. CASE t = r
    BY <1>2, <1>4, <2>1
  <2>2. CASE s = r
    <3>1. admitted[r] > admitted[t]
      BY <1>2, <1>4, <2>2
    <3>2. admitted[r] \in Nat /\ admitted[t] \in Nat
      BY DEF GateInv, GateTypeOK
    <3> QED BY <2>2, <3>1, <3>2
  <2>3. CASE s # r /\ t # r
    BY <1>2, <2>3 DEF GateInv, GapInv
  <2> QED BY <2>1, <2>2, <2>3
<1> QED BY <1>1, <1>5, <1>6, <1>7 DEF GateInv

\* A release opens the row only if it is the request's own admission.
LEMMA ReleaseKeepsInv ==
  ASSUME GateInv, NEW r \in Retries, ReleaseWindow(r)
  PROVE  GateInv'
<1> USE DEF ReleaseWindow, Goes
<1>1. GateTypeOK'
  BY DEF GateInv, GateTypeOK, Places
<1>2. \A s \in Retries : /\ HoldsWindow(s)' => s # r /\ HoldsWindow(s)
                         /\ (place[s])' = "reserving" => place[s] = "reserving"
  BY DEF GateInv, GateTypeOK, HoldsWindow
<1>3. StatementInv'
  BY <1>2 DEF GateInv, StatementInv
<1>4. AdmissionInv'
  <2> SUFFICES ASSUME NEW s \in Retries, HoldsWindow(s)'
               PROVE  /\ admitted[s] <= now
                      /\ reserved' = admitted[s] \/ admitted[s] + Cooldown <= now
    BY DEF AdmissionInv
  <2>1. s # r /\ HoldsWindow(s) /\ HoldsWindow(r)
    BY <1>2 DEF HoldsWindow
  <2>2. admitted[s] # admitted[r]
    <3>1. admitted[s] <= admitted[r] =>
            admitted[s] + Cooldown <= admitted[r] + Statement
      BY <2>1 DEF GateInv, GapInv
    <3>2. admitted[s] \in Nat /\ admitted[r] \in Nat
          /\ Cooldown \in Nat /\ Statement \in Nat
          /\ Statement < Cooldown
      BY CooldownAssumption DEF GateInv, GateTypeOK
    <3> QED BY <3>1, <3>2
  <2>3. /\ admitted[s] <= now
        /\ reserved = admitted[s] \/ admitted[s] + Cooldown <= now
    BY <2>1 DEF GateInv, AdmissionInv
  <2>4. reserved = admitted[s] => reserved' = admitted[s]
    BY <2>2 DEF OwnReservation
  <2> QED BY <2>3, <2>4
<1>5. GapInv'
  BY <1>2 DEF GateInv, GapInv
<1> QED BY <1>1, <1>3, <1>4, <1>5 DEF GateInv

\* Time passes, but not beyond the end of a statement.
LEMMA TickKeepsInv ==
  ASSUME GateInv, Tick
  PROVE  GateInv'
<1> USE DEF Tick
<1>1. GateTypeOK'
  BY CooldownAssumption DEF GateInv, GateTypeOK
<1>2. /\ now \in Nat /\ Statement \in Nat /\ Cooldown \in Nat
      /\ \A r \in Retries : admitted[r] \in Nat
  BY CooldownAssumption DEF GateInv, GateTypeOK
<1>3. StatementInv'
  BY <1>2 DEF GateInv, StatementInv
<1>4. AdmissionInv'
  BY <1>2 DEF GateInv, AdmissionInv, HoldsWindow
<1>5. GapInv'
  BY DEF GateInv, GapInv, HoldsWindow
<1> QED BY <1>1, <1>3, <1>4, <1>5 DEF GateInv

\* Every step keeps the invariant.
LEMMA StepKeepsGateInv ==
  ASSUME GateInv, [GateNext]_gateVars
  PROVE  GateInv'
<1>1. CASE UNCHANGED gateVars
  BY <1>1 DEF gateVars, GateInv, GateTypeOK, StatementInv, AdmissionInv, GapInv, HoldsWindow
<1>2. CASE Tick
  BY <1>2, TickKeepsInv
<1>3. ASSUME NEW r \in Retries, ReadClock(r) PROVE GateInv'
  BY <1>3, ReadClockKeepsInv
<1>4. ASSUME NEW r \in Retries, Reserve(r) PROVE GateInv'
  BY <1>4, ReservationKeepsInv DEF Reserve
<1>5. ASSUME NEW r \in Retries, ReserveUnanswered(r) PROVE GateInv'
  BY <1>5, ReservationKeepsInv DEF ReserveUnanswered
<1>6. ASSUME NEW r \in Retries, Refuse(r) PROVE GateInv'
  BY <1>6, PlaceKeepsInv DEF Refuse, Goes, Places
<1>7. ASSUME NEW r \in Retries, Schedule(r) PROVE GateInv'
  BY <1>7, PlaceKeepsInv DEF Schedule, Goes, Places, HoldsWindow
<1>8. ASSUME NEW r \in Retries, ScheduleFails(r) PROVE GateInv'
  BY <1>8, PlaceKeepsInv DEF ScheduleFails, Goes, Places, HoldsWindow
<1>9. ASSUME NEW r \in Retries, ReleaseWindow(r) PROVE GateInv'
  BY <1>9, ReleaseKeepsInv
<1>10. ASSUME NEW r \in Retries, ReleaseWindowFails(r) PROVE GateInv'
  BY <1>10, PlaceKeepsInv DEF ReleaseWindowFails, Goes, Places
<1> QED
  BY <1>1, <1>2, <1>3, <1>4, <1>5, <1>6, <1>7, <1>8, <1>9, <1>10 DEF GateNext

-----------------------------------------------------------------------------
(* Theorems                                                                *)

\* Of two requests whose jobs were scheduled, one was admitted a cooldown after
\* the other but for the time of a statement: cooldownGate.run with Reserve and
\* Release of the store, from any number of processes.
THEOREM CooldownIsKept ==
  GateSpec => []WindowIsKept
<1>1. GateInit => GateInv
  BY CooldownAssumption
  DEF GateInit, GateInv, GateTypeOK, StatementInv, AdmissionInv, GapInv, HoldsWindow, Places
<1>2. GateInv /\ [GateNext]_gateVars => GateInv'
  BY StepKeepsGateInv
<1>3. GateInv => WindowIsKept
  BY DEF GateInv, GapInv, WindowIsKept, HoldsWindow
<1> QED BY <1>1, <1>2, <1>3, PTL DEF GateSpec

-----------------------------------------------------------------------------
(* The download stage: the invariant                                       *)

Tried(c)    == at[c] # "none"
UnderWay(c) == at[c] \in {"new", "queued", "fetching", "checking"}

\* What was merged already.
Past(c) == at[c] = "ended" /\ (stage = "window" => c \notin window)

\* Who is under way is in the window and has no result; candidates are tried in
\* the order of their ranks.
AtInv ==
  /\ \A c \in Candidates :
       /\ at[c] = "none" => outcome[c] = "none" /\ c \notin window
       /\ UnderWay(c) => outcome[c] = "none" /\ stage = "window" /\ c \in window
       /\ at[c] = "ended" => outcome[c] \in Outcomes
       /\ c \in cut => Tried(c)
       /\ c \in rest => at[c] = "none"
  /\ \A c \in rest, d \in Candidates : Tried(d) => d < c
  /\ stage = "window" => \A c \in window, d \in Candidates \ window : Tried(d) => d < c

\* The book of a walk that has not ended: no audio-only file was merged, and the
\* best effort is the best of the held ones.
BookInv ==
  stage \in {"walk", "window"} =>
    /\ selected = NoOne
    /\ best # NoOne => Past(best) /\ outcome[best] \in Held
    /\ muxed # NoOne => Past(muxed) /\ outcome[muxed] \in Muxed
    /\ \A c \in Candidates : Past(c) =>
         /\ outcome[c] # "audio"
         /\ outcome[c] \in Held => best # NoOne /\ ~ Beats(c, best)

HasDir(c) == at[c] \in {"queued", "fetching", "checking"}
             \/ (at[c] = "ended" /\ outcome[c] \notin Rejected)

\* The directories during a window, and that a selected file has been tried.
DirInv ==
  /\ stage = "window" => dirs = ({best, muxed} \ {NoOne}) \cup {c \in window : HasDir(c)}
  /\ stage \in {"picked", "kept"} => selected \in Candidates

\* Whoever was cut short was so by a sound file ranked above it.
CutInv == ~ cancelled => \A c \in cut : \E a \in 1 .. c - 1 : Sound(a)

\* The result is the one of trying one candidate after the other.
InOrder ==
  /\ selected \notin cut
  /\ \A a \in Candidates : Sound(a) =>
       /\ selected \in 1 .. a
       /\ selected = a \/ outcome[selected] \in {"audio", "betterMuxed"}
  /\ selected # NoOne /\ outcome[selected] \in Held =>
       \A c \in Candidates : ~ Beats(c, selected)

ResultInv ==
  /\ stage \in {"picked", "kept", "failed"} /\ ~ cancelled => InOrder
  /\ stage = "kept" => selected \notin cut

WalkInv ==
  /\ WalkTypeOK /\ AtInv /\ BookInv /\ DirInv /\ CutInv /\ ResultInv
  /\ OnlySelectedIsLeft

-----------------------------------------------------------------------------
(* What the invariant says of a candidate                                  *)

LEMMA RankFacts ==
  ASSUME WalkAssumption
  PROVE  /\ Ranked \in Nat /\ MaxAttempts \in Nat /\ Width \in Nat
         /\ Candidates \subseteq Nat /\ NoOne \notin Candidates /\ NoOne = 0
         /\ Outcomes \subseteq {"audio"} \cup Muxed \cup Held \cup Rejected
         /\ "none" \notin Outcomes
<1>1. /\ Ranked \in Nat /\ MaxAttempts \in Nat /\ Width \in Nat
      /\ Outcomes \subseteq {"audio"} \cup Muxed \cup Held \cup Rejected
  BY DEF WalkAssumption
<1>2. Candidates \subseteq Nat /\ NoOne \notin Candidates /\ NoOne = 0
  BY <1>1 DEF Candidates, NoOne
<1>3. "none" \notin Outcomes
  BY <1>1 DEF Muxed, Held, Rejected
<1> QED BY <1>1, <1>2, <1>3

LEMMA WalkTypes ==
  ASSUME WalkAssumption, WalkTypeOK
  PROVE  /\ rest \subseteq Candidates /\ window \subseteq Candidates
         /\ cut \subseteq Candidates /\ dirs \subseteq Candidates
         /\ best \in Candidates \cup {NoOne} /\ muxed \in Candidates \cup {NoOne}
         /\ selected \in Candidates \cup {NoOne}
         /\ at \in [Candidates -> {"none", "new", "queued", "fetching", "checking", "ended"}]
         /\ outcome \in [Candidates -> Outcomes \cup {"none"}]
         /\ cancelled \in BOOLEAN /\ retryGiven \in BOOLEAN
         /\ used \in 0..MaxAttempts /\ used \in Nat /\ used <= MaxAttempts
         /\ dead \subseteq {Source[c] : c \in Candidates}
<1>1. used \in Nat /\ used <= MaxAttempts
  BY RankFacts DEF WalkTypeOK
<1> QED BY <1>1 DEF WalkTypeOK

\* Between windows nobody is under way, no audio-only file was found, and nobody
\* was cut short while the job goes on.
LEMMA BetweenWindows ==
  ASSUME WalkAssumption, WalkInv, stage = "walk"
  PROVE  /\ \A c \in Candidates : at[c] \in {"none", "ended"}
         /\ \A c \in Candidates : Past(c) <=> at[c] = "ended"
         /\ \A c \in Candidates : ~ Sound(c)
         /\ ~ cancelled => cut = {}
         /\ selected = NoOne /\ dirs = {best, muxed} \ {NoOne}
<1> USE DEF WalkInv
<1>1. \A c \in Candidates : at[c] \in {"none", "ended"}
  BY WalkTypes DEF AtInv, UnderWay
<1>2. \A c \in Candidates : Past(c) <=> at[c] = "ended"
  BY DEF Past
<1>3. \A c \in Candidates : ~ Sound(c)
  BY <1>1, <1>2 DEF AtInv, BookInv, Sound
<1>4. ASSUME ~ cancelled PROVE cut = {}
  <2>1. \A c \in cut : c \in Candidates /\ \A a \in 1 .. c - 1 : a \in Candidates
    <3>1. SUFFICES ASSUME NEW c \in cut, NEW a \in 1 .. c - 1
                   PROVE  a \in Candidates
      BY WalkTypes
    <3>2. c \in 1..Ranked
      BY WalkTypes DEF Candidates
    <3> QED BY <3>2, RankFacts DEF Candidates
  <2> QED BY <1>3, <1>4, <2>1 DEF CutInv
<1> QED BY <1>1, <1>2, <1>3, <1>4 DEF BookInv, OnlySelectedIsLeft

\* What is in the book is one of the candidates done with, not of the window.
LEMMA BookFacts ==
  ASSUME WalkAssumption, WalkInv, stage \in {"walk", "window"}
  PROVE  \A c \in {best, muxed} \ {NoOne} :
           /\ c \in Candidates /\ at[c] = "ended" /\ Past(c)
           /\ outcome[c] \in Held \cup Muxed
BY WalkTypes DEF WalkInv, BookInv, Past

-----------------------------------------------------------------------------
(* The walk                                                                *)

\* No more than so many elements have fewer than so many before them.
LEMMA FirstFew ==
  ASSUME NEW N \in Nat, NEW S \in SUBSET (1..N), NEW L \in Nat,
         NEW W, W = {c \in S : Cardinality({d \in S : d < c}) < L}
  PROVE  IsFiniteSet(W) /\ Cardinality(W) \in Nat /\ Cardinality(W) <= L
<1>1. IsFiniteSet(1..N)
  BY FS_Interval
<1>2. IsFiniteSet(S) /\ IsFiniteSet(W) /\ Cardinality(W) \in Nat
  BY <1>1, FS_Subset, FS_CardinalityType
<1>3. CASE W = {}
  <2>1. Cardinality(W) = 0
    BY <1>3, FS_EmptySet
  <2> QED BY <1>2, <2>1
<1>4. CASE W # {}
  <2>1. PICK m \in W : \A c \in W : c <= m
    <3>1. PICK T : T = {N - c : c \in W}
      OBVIOUS
    <3>2. T \subseteq Nat /\ T # {}
      <4>1. \A c \in W : N - c \in Nat
        <5>1. SUFFICES ASSUME NEW c \in W PROVE N - c \in Nat
          OBVIOUS
        <5>2. c \in 1..N
          OBVIOUS
        <5> QED BY <5>2
      <4> QED BY <1>4, <3>1, <4>1
    <3>3. PICK t \in T : \A u \in T : t <= u
      BY <3>2, Least
    <3>4. PICK m \in W : t = N - m
      BY <3>1
    <3>5. ASSUME NEW c \in W PROVE c <= m
      <4>1. N - c \in T
        BY <3>1
      <4>2. N - m <= N - c
        BY <3>3, <3>4, <4>1
      <4>3. c \in 1..N /\ m \in 1..N
        OBVIOUS
      <4> QED BY <4>2, <4>3
    <3> QED BY <3>5
  <2>2. PICK B : B = {d \in S : d < m}
    OBVIOUS
  <2>3. IsFiniteSet(B) /\ Cardinality(B) \in Nat
    BY <1>2, <2>2, FS_Subset, FS_CardinalityType
  <2>4. Cardinality(B) < L
    BY <2>2
  <2>5. W \ {m} \subseteq B
    <3>1. SUFFICES ASSUME NEW c \in W, c # m PROVE c \in B
      OBVIOUS
    <3>2. c \in Nat /\ m \in Nat /\ c <= m
      BY <2>1
    <3> QED BY <2>2, <3>1, <3>2
  <2>6. Cardinality(W \ {m}) <= Cardinality(B)
    BY <2>3, <2>5, FS_Subset
  <2>7. Cardinality(W \ {m}) = Cardinality(W) - 1
    BY <1>2, FS_RemoveElement
  <2> QED BY <1>2, <2>3, <2>4, <2>6, <2>7
<1> QED BY <1>3, <1>4

LEMMA WindowFits ==
  ASSUME WalkAssumption, WalkTypeOK
  PROVE  /\ NextWindow \subseteq rest
         /\ used + Cardinality(NextWindow) \in 0..MaxAttempts
<1>1. PICK L \in Nat : L = Limit /\ used + L <= MaxAttempts
  BY WalkTypes, RankFacts DEF Limit
<1>2. PICK S \in SUBSET (1..Ranked) : S = Worthwhile
  BY WalkTypes DEF Worthwhile, Candidates
<1>3. PICK W : W = NextWindow
  OBVIOUS
<1>4. W = {c \in S : Cardinality({d \in S : d < c}) < L}
  BY <1>1, <1>2, <1>3 DEF NextWindow
<1>5. Cardinality(W) \in Nat /\ Cardinality(W) <= L
  BY <1>4, FirstFew, RankFacts
<1>6. used + Cardinality(W) \in 0..MaxAttempts
  BY <1>1, <1>5, WalkTypes, RankFacts
<1> QED BY <1>3, <1>6 DEF NextWindow, Worthwhile

LEMMA StartWindowKeepsInv ==
  ASSUME WalkAssumption, WalkInv, StartWindow
  PROVE  WalkInv'
<1>1. PICK W : W = NextWindow
  OBVIOUS
<1>2. /\ stage = "walk" /\ stage' = "window" /\ ~ cancelled
      /\ window' = W /\ rest' = RestAfter(W)
      /\ used' = used + Cardinality(W)
      /\ at' = [c \in Candidates |-> IF c \in W THEN "new" ELSE at[c]]
      /\ retryGiven' = (retryGiven \/ muxed # NoOne)
      /\ UNCHANGED <<outcome, cancelled, cut, best, muxed, dead, selected, dirs>>
  BY <1>1 DEF StartWindow, book
<1>3. W \subseteq rest /\ used + Cardinality(W) \in 0..MaxAttempts
  BY <1>1, WindowFits DEF WalkInv
<1>4. /\ rest' \subseteq rest \ W
      /\ \A c \in rest', d \in W : d < c
  <2>1. rest' \subseteq rest /\ \A c \in rest', d \in W : d < c
    BY <1>2 DEF RestAfter
  <2>2. \A c \in rest' : c \in Nat
    BY <2>1, RankFacts, WalkTypes DEF WalkInv
  <2>3. \A c \in rest' : ~ (c < c)
    BY <2>2
  <2> QED BY <2>1, <2>3
<1>5. /\ \A c \in W : at'[c] = "new" /\ at[c] = "none" /\ outcome[c] = "none"
      /\ \A c \in Candidates \ W : at'[c] = at[c]
      /\ \A c \in Candidates : at[c] \in {"none", "ended"}
  BY <1>2, <1>3, WalkTypes, BetweenWindows DEF WalkInv, AtInv
<1>6. WalkTypeOK'
  <2>1. rest' \subseteq Candidates /\ window' \subseteq Candidates
    BY <1>2, <1>3, <1>4, WalkTypes DEF WalkInv
  <2>2. retryGiven' \in BOOLEAN
    BY <1>2
  <2>3. at' \in [Candidates -> {"none", "new", "queued", "fetching", "checking", "ended"}]
    BY <1>2, WalkTypes DEF WalkInv
  <2> QED BY <1>2, <1>3, <2>1, <2>2, <2>3 DEF WalkInv, WalkTypeOK
<1>7. \A c \in Candidates : Tried(c)' <=> Tried(c) \/ c \in W
  BY <1>5 DEF Tried
<1>8. AtInv'
  <2>1. ASSUME NEW c \in Candidates
        PROVE  /\ at'[c] = "none" => outcome'[c] = "none" /\ c \notin window'
               /\ UnderWay(c)' => outcome'[c] = "none" /\ stage' = "window" /\ c \in window'
               /\ at'[c] = "ended" => outcome'[c] \in Outcomes
               /\ c \in cut' => Tried(c)'
               /\ c \in rest' => at'[c] = "none"
    BY <1>2, <1>4, <1>5, <1>7 DEF WalkInv, AtInv, UnderWay
  <2>2. \A c \in rest', d \in Candidates : Tried(d)' => d < c
    BY <1>4, <1>7 DEF WalkInv, AtInv
  <2>3. \A c \in window', d \in Candidates \ window' : Tried(d)' => d < c
    BY <1>2, <1>3, <1>7 DEF WalkInv, AtInv
  <2> QED BY <2>1, <2>2, <2>3 DEF AtInv
<1>9. \A c \in Candidates : Past(c)' <=> Past(c)
  BY <1>2, <1>5 DEF Past
<1>10. BookInv'
  BY <1>2, <1>9, WalkTypes DEF WalkInv, BookInv, Beats
<1>11. DirInv'
  <2>1. \A c \in window' : ~ HasDir(c)'
    BY <1>2, <1>5 DEF HasDir
  <2> QED BY <1>2, <2>1, BetweenWindows DEF DirInv
<1>12. CutInv'
  BY <1>2 DEF WalkInv, CutInv, Sound
<1>13. ResultInv' /\ OnlySelectedIsLeft'
  BY <1>2 DEF ResultInv, OnlySelectedIsLeft
<1> QED BY <1>6, <1>8, <1>10, <1>11, <1>12, <1>13 DEF WalkInv

\* Steps that end the walk, or follow it, try nobody.
LEMMA NobodyTried ==
  ASSUME WalkInv, \A c \in Candidates : ~ UnderWay(c),
         UNCHANGED <<rest, window, at, outcome, cut>>, stage' # "window"
  PROVE  AtInv'
BY DEF WalkInv, AtInv, UnderWay, Tried

LEMMA SettleKeepsInv ==
  ASSUME WalkAssumption, WalkInv, SettleWalk
  PROVE  WalkInv'
<1>1. /\ stage = "walk"
      /\ selected' = CASE muxed # NoOne -> muxed
                       [] muxed = NoOne /\ best # NoOne /\ outcome[best] # "weak" -> best
                       [] OTHER -> NoOne
      /\ stage' = IF selected' = NoOne THEN "failed" ELSE "picked"
      /\ dirs' = dirs \ ({best, muxed} \ {selected'})
      /\ UNCHANGED <<rest, window, used, retryGiven, at, outcome, cancelled, cut,
                     best, muxed, dead>>
  BY DEF SettleWalk, walk
<1>2. /\ selected' # NoOne => selected' \in {best, muxed}
      /\ selected' = NoOne => stage' = "failed"
      /\ selected' # NoOne => stage' = "picked"
  BY <1>1
<1>3. /\ selected' # NoOne =>
           /\ selected' \in Candidates /\ at[selected'] = "ended" /\ Past(selected')
           /\ outcome[selected'] \in Held \cup Muxed
  BY <1>1, <1>2, BookFacts
<1>4. WalkTypeOK'
  BY <1>1, <1>2, <1>3 DEF WalkInv, WalkTypeOK
<1>5. AtInv'
  BY <1>1, <1>2, BetweenWindows, NobodyTried DEF UnderWay
<1>6. BookInv'
  BY <1>1 DEF BookInv
<1>7. DirInv'
  BY <1>2, <1>3 DEF DirInv
<1>8. CutInv'
  BY <1>1 DEF WalkInv, CutInv, Sound
<1>9. ResultInv'
  <2>1. ~ cancelled => selected' \notin cut
    BY <1>1, BetweenWindows
  <2>2. ASSUME selected' # NoOne, outcome[selected'] \in Held, NEW c \in Candidates
        PROVE  ~ Beats(c, selected')
    <3>1. selected' = best
      BY <1>1, <2>2 DEF WalkInv, BookInv, Held, Muxed
    <3>2. Beats(c, best) => outcome[c] \in Held /\ outcome[c] # "none"
      BY DEF Beats, Held
    <3>3. outcome[c] # "none" => Past(c)
      BY <1>1, BetweenWindows DEF WalkInv, AtInv
    <3> QED BY <1>1, <3>1, <3>2, <3>3 DEF WalkInv, BookInv
  <2>3. \A c \in Candidates : Beats(c, selected)' <=> Beats(c, selected')
    BY <1>1 DEF Beats
  <2>4. \A c \in Candidates : ~ Sound(c)'
    BY <1>1, BetweenWindows DEF Sound
  <2>5. ~ cancelled => InOrder'
    BY <1>1, <2>1, <2>2, <2>3, <2>4 DEF InOrder
  <2> QED BY <1>1, <1>2, <2>5 DEF ResultInv
<1>10. OnlySelectedIsLeft'
  BY <1>1, <1>2, <1>3, RankFacts, BetweenWindows DEF OnlySelectedIsLeft
<1> QED BY <1>4, <1>5, <1>6, <1>7, <1>8, <1>9, <1>10 DEF WalkInv

LEMMA GiveUpWalkKeepsInv ==
  ASSUME WalkAssumption, WalkInv, GiveUp
  PROVE  WalkInv'
<1>1. /\ stage = "walk" /\ cancelled
      /\ stage' = "failed" /\ dirs' = dirs \ {best, muxed}
      /\ UNCHANGED <<rest, window, used, retryGiven, at, outcome, cancelled, cut,
                     best, muxed, dead, selected>>
  BY DEF GiveUp, walk, book
<1>2. WalkTypeOK'
  BY <1>1 DEF WalkInv, WalkTypeOK
<1>3. AtInv'
  BY <1>1, BetweenWindows, NobodyTried DEF UnderWay
<1>4. BookInv' /\ DirInv' /\ CutInv' /\ ResultInv'
  BY <1>1 DEF BookInv, DirInv, CutInv, ResultInv
<1>5. OnlySelectedIsLeft'
  BY <1>1, BetweenWindows DEF OnlySelectedIsLeft
<1> QED BY <1>2, <1>3, <1>4, <1>5 DEF WalkInv

-----------------------------------------------------------------------------
(* An attempt                                                              *)

\* What a step of one attempt preserves: it has a directory if it should, and
\* stops nobody but those ranked below an audio-only file.
LEMMA AttemptKeepsInv ==
  ASSUME WalkAssumption, WalkInv, NEW c \in Candidates, UnderWay(c),
         NEW v \in {"queued", "fetching", "checking", "ended"}, NEW r \in Outcomes,
         at' = [at EXCEPT ![c] = v],
         outcome' = IF v = "ended" THEN [outcome EXCEPT ![c] = r] ELSE outcome,
         dirs' \subseteq Candidates,
         \A d \in Candidates \ {c} : d \in dirs' <=> d \in dirs,
         c \in dirs' <=> (v # "ended" \/ r \notin Rejected),
         \/ cut' = cut
         \/ /\ v = "ended" /\ r = "audio"
            /\ cut' = cut \cup {d \in Stops(c) : at[d] # "ended"},
         UNCHANGED <<stage, walk, cancelled, book>>
  PROVE  WalkInv'
<1> USE DEF WalkInv
<1>1. UNCHANGED <<stage, rest, window, used, retryGiven, cancelled,
                  best, muxed, dead, selected>>
  BY DEF walk, book
<1>2. stage = "window" /\ c \in window /\ outcome[c] = "none" /\ at[c] # "none"
      /\ at[c] # "ended"
  BY DEF AtInv, UnderWay
<1>3. /\ at'[c] = v /\ \A d \in Candidates \ {c} : at'[d] = at[d] /\ outcome'[d] = outcome[d]
      /\ outcome'[c] = (IF v = "ended" THEN r ELSE "none")
      /\ at' \in [Candidates -> {"none", "new", "queued", "fetching", "checking", "ended"}]
      /\ outcome' \in [Candidates -> Outcomes \cup {"none"}]
  BY <1>2, WalkTypes
<1>4. \A d \in Candidates : Tried(d)' <=> Tried(d)
  BY <1>2, <1>3 DEF Tried
<1>5. /\ cut \subseteq cut' /\ cut' \subseteq Candidates
      /\ \A d \in cut' \ cut : /\ v = "ended" /\ r = "audio"
                               /\ d \in window /\ d > c /\ at[d] # "ended"
  BY WalkTypes DEF Stops
<1>6. WalkTypeOK'
  BY <1>1, <1>3, <1>5, WalkTypes DEF WalkTypeOK
<1>7. AtInv'
  <2>1. ASSUME NEW d \in Candidates
        PROVE  /\ at'[d] = "none" => outcome'[d] = "none" /\ d \notin window'
               /\ UnderWay(d)' => outcome'[d] = "none" /\ stage' = "window" /\ d \in window'
               /\ at'[d] = "ended" => outcome'[d] \in Outcomes
               /\ d \in rest' => at'[d] = "none"
    <3>1. CASE d = c
      BY <1>1, <1>2, <1>3, <3>1 DEF AtInv, UnderWay
    <3>2. CASE d # c
      BY <1>1, <1>3, <3>2 DEF AtInv, UnderWay
    <3> QED BY <3>1, <3>2
  <2>2. ASSUME NEW d \in cut' PROVE Tried(d)'
    <3>1. d \in Candidates
      BY <1>5
    <3>2. CASE d \in cut
      BY <1>4, <3>1, <3>2 DEF AtInv
    <3>3. CASE d \notin cut
      BY <1>4, <1>5, <3>1, <3>3 DEF AtInv, Tried
    <3> QED BY <3>2, <3>3
  <2>3. /\ \A x \in rest', d \in Candidates : Tried(d)' => d < x
        /\ stage' = "window" =>
             \A x \in window', d \in Candidates \ window' : Tried(d)' => d < x
    BY <1>1, <1>4 DEF AtInv
  <2> QED BY <2>1, <2>2, <2>3 DEF AtInv
<1>8. \A d \in Candidates : Past(d)' <=> (d # c /\ Past(d))
  BY <1>1, <1>2, <1>3 DEF Past
<1>9. \A d \in Candidates : Past(d) => d # c
  BY <1>2 DEF Past
<1>10. BookInv'
  <2>1. \A x, y \in Candidates \ {c} : Beats(x, y)' <=> Beats(x, y)
    BY <1>3 DEF Beats
  <2>2. /\ selected' = NoOne
        /\ best' # NoOne => Past(best)' /\ outcome'[best'] \in Held /\ best' \in Candidates \ {c}
        /\ muxed' # NoOne => Past(muxed)' /\ outcome'[muxed'] \in Muxed
    BY <1>1, <1>2, <1>3, <1>8, <1>9, WalkTypes DEF BookInv
  <2>3. ASSUME NEW x \in Candidates, Past(x)'
        PROVE  /\ outcome'[x] # "audio"
               /\ outcome'[x] \in Held => best' # NoOne /\ ~ Beats(x, best)'
    BY <1>1, <1>2, <1>3, <1>8, <2>1, <2>2, <2>3 DEF BookInv
  <2> QED BY <2>2, <2>3 DEF BookInv
<1>11. DirInv'
  <2>1. \A d \in Candidates \ {c} : HasDir(d)' <=> HasDir(d)
    BY <1>3 DEF HasDir
  <2>2. c \notin {best, muxed} \ {NoOne}
    BY <1>2, <1>9, BookFacts
  <2>3. HasDir(c)' <=> c \in dirs'
    BY <1>3 DEF HasDir
  <2>4. \A d \in Candidates \ {c} :
          d \in dirs' <=> d \in {best, muxed} \ {NoOne} \/ (d \in window /\ HasDir(d)')
    BY <1>2, <2>1 DEF DirInv
  <2>5. \A d \in Candidates :
          d \in dirs' <=> d \in {best, muxed} \ {NoOne} \/ (d \in window /\ HasDir(d)')
    BY <1>2, <2>2, <2>3, <2>4
  <2>6. window \subseteq Candidates /\ {best, muxed} \ {NoOne} \subseteq Candidates
    BY WalkTypes
  <2>7. dirs' = ({best, muxed} \ {NoOne}) \cup {d \in window : HasDir(d)'}
    BY <2>5, <2>6
  <2>8. dirs' = ({best', muxed'} \ {NoOne}) \cup {d \in window' : HasDir(d)'}
    BY <1>1, <2>7
  <2> QED BY <1>1, <1>2, <2>8 DEF DirInv
<1>12. CutInv'
  <2>1. SUFFICES ASSUME ~ cancelled, NEW d \in cut'
                 PROVE  \E a \in 1 .. d - 1 : Sound(a)'
    BY <1>1 DEF CutInv
  <2>2. \A x \in cut : \E a \in 1 .. x - 1 : a \in Candidates /\ Sound(a)
    <3>1. \A x \in cut : \A a \in 1 .. x - 1 : a \in Candidates
      <4>1. SUFFICES ASSUME NEW x \in cut, NEW a \in 1 .. x - 1 PROVE a \in Candidates
        OBVIOUS
      <4>2. x \in 1..Ranked /\ Ranked \in Nat
        BY WalkTypes, RankFacts DEF Candidates
      <4> QED BY <4>2 DEF Candidates
    <3> QED BY <2>1, <3>1 DEF CutInv
  <2>3. \A a \in Candidates : Sound(a) => Sound(a)' /\ a # c
    BY <1>1, <1>2, <1>3, <1>5 DEF Sound, AtInv, UnderWay
  <2>4. \A x \in cut : \E a \in 1 .. x - 1 : Sound(a)'
    BY <2>2, <2>3
  <2>5. CASE d \in cut
    BY <2>4, <2>5
  <2>6. CASE d \notin cut /\ c \notin cut
    <3>1. Sound(c)'
      <4>1. c \in Nat /\ ~ (c > c)
        BY RankFacts
      <4> QED BY <1>3, <1>5, <2>6, <4>1 DEF Sound
    <3>2. d \in Nat /\ c \in Nat /\ c # 0 /\ d > c
      <4>1. d \in Candidates /\ d > c
        BY <1>5, <2>6
      <4> QED BY <4>1, RankFacts
    <3>3. c \in 1 .. d - 1
      BY <3>2
    <3> QED BY <3>1, <3>3
  <2>7. CASE d \notin cut /\ c \in cut
    <3>1. PICK a \in 1 .. c - 1 : Sound(a)'
      BY <2>4, <2>7
    <3>2. d \in Nat /\ c \in Nat /\ d > c
      BY <1>5, <2>7, RankFacts
    <3>3. a \in 1 .. d - 1
      BY <3>2
    <3> QED BY <3>1, <3>3
  <2> QED BY <2>5, <2>6, <2>7
<1>13. ResultInv' /\ OnlySelectedIsLeft'
  BY <1>1, <1>2 DEF ResultInv, OnlySelectedIsLeft
<1> QED BY <1>6, <1>7, <1>10, <1>11, <1>12, <1>13

\* During a window exactly these have a directory.
LEMMA DirsOfWindow ==
  ASSUME WalkAssumption, WalkInv, NEW c \in Candidates, UnderWay(c)
  PROVE  c \in dirs <=> HasDir(c)
<1>1. stage = "window" /\ c \in window /\ ~ Past(c)
  BY DEF WalkInv, AtInv, UnderWay, Past
<1>2. c \notin {best, muxed} \ {NoOne}
  BY <1>1, BookFacts
<1> QED BY <1>1, <1>2 DEF WalkInv, DirInv

LEMMA AttemptStepKeepsInv ==
  ASSUME WalkAssumption, WalkInv, NEW c \in Candidates, Attempt(c)
  PROVE  WalkInv'
<1>1. CASE CreateDir(c)
  <2>1. UnderWay(c) /\ ~ HasDir(c) /\ "rejected" \in Outcomes /\ "rejected" \in Rejected
    BY <1>1 DEF CreateDir, UnderWay, HasDir, WalkAssumption, Rejected
  <2>2. c \notin dirs /\ dirs \subseteq Candidates
    BY <2>1, DirsOfWindow, WalkTypes DEF WalkInv
  <2>3. CASE at' = [at EXCEPT ![c] = "queued"] /\ dirs' = dirs \cup {c} /\ UNCHANGED outcome
    BY <1>1, <2>1, <2>2, <2>3, AttemptKeepsInv DEF CreateDir
  <2>4. CASE at' = [at EXCEPT ![c] = "ended"] /\ UNCHANGED dirs
             /\ outcome' = [outcome EXCEPT ![c] = "rejected"]
    BY <1>1, <2>1, <2>2, <2>4, AttemptKeepsInv DEF CreateDir
  <2> QED BY <1>1, <2>3, <2>4 DEF CreateDir
<1>2. CASE AcquireSlot(c) \/ Fetched(c)
  <2>1. UnderWay(c) /\ HasDir(c) /\ "rejected" \in Outcomes
    BY <1>2 DEF AcquireSlot, Fetched, UnderWay, HasDir, WalkAssumption
  <2>2. c \in dirs /\ dirs \subseteq Candidates
    BY <2>1, DirsOfWindow, WalkTypes DEF WalkInv
  <2>3. PICK v \in {"fetching", "checking"} : at' = [at EXCEPT ![c] = v]
    BY <1>2 DEF AcquireSlot, Fetched
  <2>4. UNCHANGED <<stage, walk, outcome, cancelled, cut, book, dirs>>
    BY <1>2 DEF AcquireSlot, Fetched
  <2> QED BY <2>1, <2>2, <2>3, <2>4, AttemptKeepsInv
<1>3. ASSUME NEW result \in Outcomes, EndAttempt(c, result)
      PROVE  WalkInv'
  <2>1. /\ result \in Possible(c) \cap Outcomes
        /\ at' = [at EXCEPT ![c] = "ended"]
        /\ outcome' = [outcome EXCEPT ![c] = result]
        /\ dirs' = IF result \in Rejected THEN dirs \ {c} ELSE dirs
        /\ cut' = IF result = "audio" THEN cut \cup {d \in Stops(c) : at[d] # "ended"} ELSE cut
        /\ UNCHANGED <<stage, walk, cancelled, book>>
    BY <1>3 DEF EndAttempt
  <2>2. UnderWay(c) /\ HasDir(c)
    BY <2>1 DEF Possible, UnderWay, HasDir
  <2>3. c \in dirs /\ dirs \subseteq Candidates
    BY <2>2, DirsOfWindow, WalkTypes DEF WalkInv
  <2>4. /\ dirs' \subseteq Candidates
        /\ \A d \in Candidates \ {c} : d \in dirs' <=> d \in dirs
        /\ c \in dirs' <=> result \notin Rejected
    BY <2>1, <2>3
  <2> QED BY <2>1, <2>2, <2>4, AttemptKeepsInv
<1> QED BY <1>1, <1>2, <1>3 DEF Attempt

-----------------------------------------------------------------------------
(* The results of a window                                                 *)

Sources == {Source[c] : c \in Candidates}
OrNoOne == Candidates \cup {NoOne}

Books == [best : OrNoOne, muxed : OrNoOne, dead : SUBSET Sources,
          selected : OrNoOne, removed : SUBSET OrNoOne]

\* Candidates whose results the book reflects, those in S of the window.
Seen(S, c) == Past(c) \/ c \in S

\* Every file that was not rejected is held or removed, and not both.
BookAccounts(S, m) ==
  /\ \A c \in Candidates :
       c \in {m.best, m.muxed, m.selected} \cup m.removed
         <=> c \in {best, muxed} \/ (c \in S /\ outcome[c] \notin Rejected)
  /\ \A c \in Candidates : c \in m.removed => c \notin {m.best, m.muxed, m.selected}
  /\ m.selected # NoOne => m.selected \notin {m.best, m.muxed}

\* The first audio-only file, or the better muxed one before it, is selected.
FirstWins(S, m) ==
  /\ m.selected = NoOne => \A c \in S : outcome[c] # "audio"
  /\ m.selected # NoOne =>
       \E f \in S : /\ outcome[f] = "audio"
                    /\ \A c \in S : c < f => outcome[c] # "audio"
                    /\ \/ m.selected = f
                       \/ m.selected < f /\ outcome[m.selected] = "betterMuxed"

\* The best of the held files, and a muxed one.
BestHeld(S, m) ==
  /\ m.best # NoOne => outcome[m.best] \in Held /\ Seen(S, m.best)
  /\ m.muxed # NoOne => outcome[m.muxed] \in Muxed /\ Seen(S, m.muxed)
  /\ m.selected = NoOne => \A c \in Candidates :
       Seen(S, c) /\ outcome[c] \in Held => m.best # NoOne /\ ~ Beats(c, m.best)

MergedTo(S, m) ==
  m \in Books /\ BookAccounts(S, m) /\ FirstWins(S, m) /\ BestHeld(S, m)

\* All attempts of the window have ended.
Complete == stage = "window" /\ \A c \in window : at[c] = "ended"

LEMMA CompleteFacts ==
  ASSUME WalkAssumption, WalkInv, Complete
  PROVE  /\ \A c \in Candidates : at[c] \in {"none", "ended"}
         /\ \A c \in Candidates : at[c] = "ended" <=> Past(c) \/ c \in window
         /\ \A c \in Candidates : outcome[c] # "none" <=> at[c] = "ended"
         /\ \A c \in window : outcome[c] \in Outcomes /\ ~ Past(c)
         /\ \A c \in window, d \in Candidates : Past(d) => d < c
         /\ \A c \in {best, muxed} \ {NoOne} : c \in Candidates /\ Past(c)
         /\ window \subseteq Candidates
<1>1. /\ window \subseteq Candidates /\ \A c \in window : ~ Past(c)
      /\ \A c \in Candidates : at[c] \in {"none", "ended"}
  BY WalkTypes DEF WalkInv, AtInv, UnderWay, Complete, Past
<1>2. \A c \in Candidates : at[c] = "ended" <=> Past(c) \/ c \in window
  BY <1>1 DEF Past, Complete
<1>3. /\ \A c \in window : outcome[c] \in Outcomes
      /\ \A c \in Candidates : outcome[c] # "none" <=> at[c] = "ended"
  BY <1>1, <1>2, RankFacts DEF WalkInv, AtInv, Complete
<1>4. \A c \in window, d \in Candidates : Past(d) => d < c
  BY <1>1 DEF WalkInv, AtInv, Complete, Past, Tried
<1>5. \A c \in {best, muxed} \ {NoOne} : c \in Candidates /\ Past(c)
  BY BookFacts DEF Complete
<1> QED BY <1>1, <1>2, <1>3, <1>4, <1>5

\* The quality of held files is an order.
LEMMA BeatsOrders ==
  /\ \A c : ~ Beats(c, c)
  /\ \A c, d, e : Beats(c, d) /\ Beats(d, e) => Beats(c, e)
  /\ \A c, d : Beats(c, d) => outcome[c] \in Held /\ outcome[d] \in Held
BY DEF Beats, Held

\* A candidate that comes next: nobody knows of it yet.
LEMMA NextIsNew ==
  ASSUME WalkAssumption, WalkInv, Complete,
         NEW S \in SUBSET window, NEW c \in window, \A d \in S : d < c,
         NEW m, MergedTo(S, m)
  PROVE  /\ c \in Candidates /\ c # NoOne /\ c \notin S /\ ~ Past(c)
         /\ c \notin {m.best, m.muxed, m.selected} \cup m.removed
         /\ \A d \in Candidates : Seen(S, d) => d < c
         /\ \A d \in Candidates : Seen(S \cup {c}, d) <=> Seen(S, d) \/ d = c
         /\ outcome[c] \in {"audio"} \cup Muxed \cup Held \cup Rejected
<1>1. c \in Candidates /\ ~ Past(c) /\ c \in Nat /\ ~ (c < c) /\ c # NoOne
  BY CompleteFacts, RankFacts
<1>2. c \notin S
  BY <1>1
<1>3. c \notin {best, muxed}
  BY <1>1, CompleteFacts
<1>4. c \notin {m.best, m.muxed, m.selected} \cup m.removed
  BY <1>1, <1>2, <1>3 DEF MergedTo, BookAccounts
<1>5. \A d \in Candidates : Seen(S, d) => d < c
  BY CompleteFacts DEF Seen
<1>6. \A d \in Candidates : Seen(S \cup {c}, d) <=> Seen(S, d) \/ d = c
  BY DEF Seen
<1>7. outcome[c] \in {"audio"} \cup Muxed \cup Held \cup Rejected
  BY CompleteFacts, RankFacts
<1> QED BY <1>1, <1>2, <1>4, <1>5, <1>6, <1>7

\* The fields of a book.
LEMMA BookFields ==
  ASSUME WalkAssumption, NEW m \in Books
  PROVE  /\ {m.best, m.muxed, m.selected} \subseteq OrNoOne
         /\ m.removed \subseteq OrNoOne /\ m.dead \subseteq Sources
         /\ NoOne \in OrNoOne /\ NoOne \notin Candidates /\ Candidates \subseteq OrNoOne
BY RankFacts DEF Books, OrNoOne

\* What the result of one more candidate does to the book m.
KeepsBook(m, c, r) ==
  /\ outcome[c] \in Rejected
  /\ r.best = m.best /\ r.muxed = m.muxed /\ r.selected = m.selected
  /\ r.removed = m.removed

Discards(m, c, r) ==
  /\ outcome[c] \notin Rejected
  /\ m.selected = NoOne => \/ outcome[c] \in Muxed /\ m.muxed # NoOne
                           \/ outcome[c] \in Held /\ m.best # NoOne /\ ~ Beats(c, m.best)
  /\ r.best = m.best /\ r.muxed = m.muxed /\ r.selected = m.selected
  /\ r.removed = m.removed \cup {c}

SelectsFirst(m, c, r) ==
  /\ outcome[c] = "audio" /\ m.selected = NoOne /\ m.muxed = NoOne
  /\ r.best = m.best /\ r.muxed = m.muxed /\ r.selected = c
  /\ r.removed = m.removed

SelectsOne(m, c, r) ==
  /\ outcome[c] = "audio" /\ m.selected = NoOne /\ m.muxed # NoOne
  /\ r.best = m.best /\ r.muxed = NoOne
  /\ r.selected = c \/ (r.selected = m.muxed /\ outcome[m.muxed] = "betterMuxed")
  /\ r.removed = m.removed \cup ({m.muxed, c} \ {r.selected})

HoldsMuxed(m, c, r) ==
  /\ outcome[c] \in Muxed /\ m.selected = NoOne /\ m.muxed = NoOne
  /\ r.best = m.best /\ r.muxed = c /\ r.selected = m.selected
  /\ r.removed = m.removed

HoldsBest(m, c, r) ==
  /\ outcome[c] \in Held /\ m.selected = NoOne
  /\ m.best # NoOne => Beats(c, m.best)
  /\ r.best = c /\ r.muxed = NoOne /\ r.selected = m.selected
  /\ r.removed = m.removed \cup {m.best, m.muxed}

LEMMA OfferedFields ==
  ASSUME WalkAssumption, NEW m \in Books, NEW c \in Candidates,
         outcome[c] \in {"audio"} \cup Muxed \cup Held \cup Rejected,
         NEW r, r = Offered(m, c)
  PROVE  /\ r \in Books
         /\ \/ KeepsBook(m, c, r) \/ Discards(m, c, r) \/ SelectsFirst(m, c, r)
            \/ SelectsOne(m, c, r) \/ HoldsMuxed(m, c, r) \/ HoldsBest(m, c, r)
<1>1. PICK keep : keep = [m EXCEPT !.removed = @ \cup {c}]
  OBVIOUS
<1>2. c \in OrNoOne /\ NoOne \in OrNoOne
  BY BookFields
<1>3. m.removed \cup {c} \subseteq OrNoOne /\ m.removed \cup {m.best, m.muxed} \subseteq OrNoOne
  BY <1>2, BookFields
<1>4. /\ keep \in Books /\ keep.best = m.best /\ keep.muxed = m.muxed
      /\ keep.selected = m.selected /\ keep.removed = m.removed \cup {c}
  BY <1>1, <1>3 DEF Books
<1>5. CASE outcome[c] \in Rejected
  <2>1. PICK D : D = m.dead \cup IF outcome[c] = "unavailable" THEN {Source[c]} ELSE {}
    OBVIOUS
  <2>2. D \subseteq Sources
    BY <2>1, BookFields DEF Sources
  <2>3. r = [m EXCEPT !.dead = D]
    BY <1>5, <2>1 DEF Offered, Rejected, Muxed, Held
  <2>4. r \in Books /\ r.best = m.best /\ r.muxed = m.muxed /\ r.selected = m.selected
        /\ r.removed = m.removed
    BY <2>2, <2>3 DEF Books
  <2>5. KeepsBook(m, c, r)
    BY <1>5, <2>4 DEF KeepsBook
  <2> QED BY <2>4, <2>5
<1>6. CASE outcome[c] \notin Rejected /\ m.selected # NoOne
  <2>1. r = keep
    BY <1>1, <1>6 DEF Offered
  <2>2. Discards(m, c, r)
    BY <1>4, <1>6, <2>1 DEF Discards
  <2> QED BY <1>4, <2>1, <2>2
<1>7. CASE outcome[c] = "audio" /\ m.selected = NoOne /\ m.muxed = NoOne
  <2>1. r = [m EXCEPT !.selected = c]
    BY <1>7 DEF Offered, Rejected, Muxed, Held
  <2>2. r \in Books /\ r.best = m.best /\ r.muxed = m.muxed /\ r.selected = c
        /\ r.removed = m.removed
    BY <1>2, <2>1 DEF Books
  <2>3. SelectsFirst(m, c, r)
    BY <1>7, <2>2 DEF SelectsFirst
  <2> QED BY <2>2, <2>3
<1>8. CASE outcome[c] = "audio" /\ m.selected = NoOne /\ m.muxed # NoOne
  <2>1. PICK w : w = IF outcome[m.muxed] = "betterMuxed" THEN m.muxed ELSE c
    OBVIOUS
  <2>2. r = [m EXCEPT !.muxed = NoOne, !.selected = w,
                      !.removed = @ \cup ({m.muxed, c} \ {w})]
    BY <1>8, <2>1 DEF Offered, Rejected, Muxed, Held, AgainstMuxed
  <2>3. w \in OrNoOne /\ m.removed \cup ({m.muxed, c} \ {w}) \subseteq OrNoOne
    BY <1>2, <2>1, BookFields
  <2>4. r \in Books /\ r.best = m.best /\ r.muxed = NoOne /\ r.selected = w
        /\ r.removed = m.removed \cup ({m.muxed, c} \ {w})
    BY <1>2, <2>2, <2>3 DEF Books
  <2>5. SelectsOne(m, c, r)
    BY <1>8, <2>1, <2>4 DEF SelectsOne
  <2> QED BY <2>4, <2>5
<1>9. CASE outcome[c] \in Muxed /\ m.selected = NoOne
  <2>1. CASE m.muxed = NoOne
    <3>1. r = [m EXCEPT !.muxed = c]
      BY <1>9, <2>1 DEF Offered, Rejected, Muxed, Held
    <3>2. r \in Books /\ r.best = m.best /\ r.muxed = c /\ r.selected = m.selected
          /\ r.removed = m.removed
      BY <1>2, <3>1 DEF Books
    <3>3. HoldsMuxed(m, c, r)
      BY <1>9, <2>1, <3>2 DEF HoldsMuxed
    <3> QED BY <3>2, <3>3
  <2>2. CASE m.muxed # NoOne
    <3>1. r = keep /\ outcome[c] \notin Rejected
      BY <1>1, <1>9, <2>2 DEF Offered, Rejected, Muxed, Held
    <3>2. Discards(m, c, r)
      BY <1>4, <1>9, <2>2, <3>1 DEF Discards
    <3> QED BY <1>4, <3>1, <3>2
  <2> QED BY <2>1, <2>2
<1>10. CASE outcome[c] \in Held /\ m.selected = NoOne
  <2>1. CASE m.best # NoOne /\ ~ Beats(c, m.best)
    <3>1. r = keep /\ outcome[c] \notin Rejected
      BY <1>1, <1>10, <2>1 DEF Offered, Rejected, Muxed, Held
    <3>2. Discards(m, c, r)
      BY <1>4, <1>10, <2>1, <3>1 DEF Discards
    <3> QED BY <1>4, <3>1, <3>2
  <2>2. CASE ~ (m.best # NoOne /\ ~ Beats(c, m.best))
    <3>1. r = [m EXCEPT !.removed = @ \cup {m.best, m.muxed}, !.best = c, !.muxed = NoOne]
      BY <1>10, <2>2 DEF Offered, Rejected, Muxed, Held
    <3>2. r \in Books /\ r.best = c /\ r.muxed = NoOne /\ r.selected = m.selected
          /\ r.removed = m.removed \cup {m.best, m.muxed}
      BY <1>2, <1>3, <3>1 DEF Books
    <3>3. HoldsBest(m, c, r)
      BY <1>10, <2>2, <3>2 DEF HoldsBest
    <3> QED BY <3>2, <3>3
  <2> QED BY <2>1, <2>2
<1> QED BY <1>5, <1>6, <1>7, <1>8, <1>9, <1>10

\* One more result.
LEMMA OfferedKeeps ==
  ASSUME WalkAssumption, WalkInv, Complete,
         NEW S \in SUBSET window, NEW c \in window, \A d \in S : d < c,
         NEW m, MergedTo(S, m), NEW r, r = Offered(m, c)
  PROVE  MergedTo(S \cup {c}, r)
<1>1. m \in Books /\ BookAccounts(S, m) /\ FirstWins(S, m) /\ BestHeld(S, m)
  BY DEF MergedTo
<1>2. /\ c \in Candidates /\ c # NoOne /\ c \notin S /\ ~ Past(c)
      /\ c \notin {m.best, m.muxed, m.selected} \cup m.removed
      /\ \A d \in Candidates : Seen(S, d) => d < c
      /\ \A d \in Candidates : Seen(S \cup {c}, d) <=> Seen(S, d) \/ d = c
      /\ outcome[c] \in {"audio"} \cup Muxed \cup Held \cup Rejected
  BY NextIsNew
<1>3. /\ {m.best, m.muxed, m.selected} \subseteq OrNoOne /\ m.removed \subseteq OrNoOne
      /\ \A x \in OrNoOne : x # NoOne => x \in Candidates
      /\ NoOne \notin Candidates /\ Candidates \subseteq Nat /\ S \subseteq Candidates
  BY <1>1, BookFields, RankFacts, CompleteFacts DEF OrNoOne
<1>4. /\ r \in Books
      /\ \/ KeepsBook(m, c, r) \/ Discards(m, c, r) \/ SelectsFirst(m, c, r)
         \/ SelectsOne(m, c, r) \/ HoldsMuxed(m, c, r) \/ HoldsBest(m, c, r)
  BY <1>1, <1>2, OfferedFields
<1>5. PICK T : T = S \cup {c}
  OBVIOUS
<1>6. /\ \A d \in Candidates : Seen(T, d) <=> Seen(S, d) \/ d = c
      /\ \A d \in T : d \in S \/ d = c
      /\ S \subseteq T /\ c \in T
  BY <1>2, <1>5
<1>7. \A f \in S : f \in Nat /\ f < c /\ ~ (c < f)
  BY <1>2, <1>3
\* Nothing is selected, or what was is still the winner.
<1>8. ASSUME r.selected = m.selected,
             m.selected = NoOne => outcome[c] # "audio"
      PROVE  FirstWins(T, r)
  <2>1. CASE m.selected = NoOne
    BY <1>1, <1>6, <1>8, <2>1 DEF FirstWins
  <2>2. CASE m.selected # NoOne
    <3>1. PICK f \in S : /\ outcome[f] = "audio"
                         /\ \A d \in S : d < f => outcome[d] # "audio"
                         /\ \/ m.selected = f
                            \/ m.selected < f /\ outcome[m.selected] = "betterMuxed"
      BY <1>1, <2>2 DEF FirstWins
    <3>2. \A d \in T : d < f => outcome[d] # "audio"
      BY <1>6, <1>7, <3>1
    <3> QED BY <1>6, <1>8, <2>2, <3>1, <3>2 DEF FirstWins
  <2> QED BY <2>1, <2>2
\* If nothing is selected, this is the first audio-only file.
<1>9. m.selected = NoOne => \A d \in T : d < c => outcome[d] # "audio"
  <2>1. c \in Nat /\ ~ (c < c)
    BY <1>2, <1>3
  <2> QED BY <1>1, <1>6, <2>1 DEF FirstWins
<1>10. m.muxed # NoOne => m.muxed # m.best /\ m.muxed \in Candidates /\ m.muxed < c
  BY <1>1, <1>2, <1>3 DEF BestHeld, Muxed, Held
<1>11. CASE KeepsBook(m, c, r)
  <2>1. BookAccounts(T, r)
    BY <1>1, <1>2, <1>6, <1>11 DEF KeepsBook, BookAccounts
  <2>2. FirstWins(T, r)
    BY <1>8, <1>11 DEF KeepsBook, Rejected
  <2>3. BestHeld(T, r)
    BY <1>1, <1>3, <1>6, <1>11 DEF KeepsBook, BestHeld, Rejected, Held
  <2> QED BY <1>4, <1>5, <2>1, <2>2, <2>3 DEF MergedTo
<1>12. CASE Discards(m, c, r)
  <2>1. BookAccounts(T, r)
    BY <1>1, <1>2, <1>6, <1>12 DEF Discards, BookAccounts
  <2>2. FirstWins(T, r)
    BY <1>8, <1>12 DEF Discards, Muxed, Held
  <2>3. BestHeld(T, r)
    BY <1>1, <1>3, <1>6, <1>12 DEF Discards, BestHeld, Muxed, Held
  <2> QED BY <1>4, <1>5, <2>1, <2>2, <2>3 DEF MergedTo
<1>13. CASE SelectsFirst(m, c, r)
  <2>1. BookAccounts(T, r)
    BY <1>1, <1>2, <1>3, <1>6, <1>13 DEF SelectsFirst, BookAccounts, Rejected
  <2>2. FirstWins(T, r)
    BY <1>2, <1>6, <1>13, <1>9 DEF SelectsFirst, FirstWins
  <2>3. BestHeld(T, r)
    BY <1>1, <1>2, <1>3, <1>6, <1>13 DEF SelectsFirst, BestHeld
  <2> QED BY <1>4, <1>5, <2>1, <2>2, <2>3 DEF MergedTo
<1>14. CASE SelectsOne(m, c, r)
  <2>1. BookAccounts(T, r)
    <3>1. outcome[c] \notin Rejected
      BY <1>14 DEF SelectsOne, Rejected
    <3>2. /\ r.best = m.best /\ r.muxed = NoOne /\ r.selected \in {c, m.muxed}
          /\ m.selected = NoOne /\ m.muxed # NoOne
          /\ r.removed = m.removed \cup ({m.muxed, c} \ {r.selected})
      BY <1>14 DEF SelectsOne
    <3>3. r.selected # NoOne /\ r.selected \notin m.removed
      BY <1>1, <1>2, <1>10, <3>2 DEF BookAccounts
    <3>4. {r.best, r.muxed, r.selected} \cup r.removed
            = {m.best, m.muxed, m.selected, c} \cup m.removed
      BY <3>2
    <3>5. /\ {r.best, r.muxed, r.selected} \cup r.removed
               = {m.best, m.muxed, m.selected, c} \cup m.removed
          /\ r.best = m.best /\ r.muxed = NoOne /\ r.selected \in {c, m.muxed}
          /\ r.selected # NoOne
          /\ r.removed \subseteq (m.removed \cup {c, m.muxed}) \ {r.selected}
      BY <3>2, <3>3, <3>4
    <3>6. \A d \in Candidates :
            d \in {r.best, r.muxed, r.selected} \cup r.removed
              <=> d \in {best, muxed} \/ (d \in T /\ outcome[d] \notin Rejected)
      BY <1>1, <1>6, <3>1, <3>5 DEF BookAccounts
    <3>7. \A d \in Candidates : d \in r.removed => d \notin {r.best, r.muxed, r.selected}
      BY <1>1, <1>2, <1>3, <1>10, <3>5 DEF BookAccounts
    <3>8. r.selected \notin {r.best, r.muxed}
      BY <1>2, <1>14, <1>10, <3>5 DEF SelectsOne
    <3> QED BY <3>6, <3>7, <3>8 DEF BookAccounts
  <2>2. FirstWins(T, r)
    BY <1>2, <1>6, <1>14, <1>9, <1>10 DEF SelectsOne, FirstWins
  <2>3. BestHeld(T, r)
    BY <1>1, <1>2, <1>3, <1>6, <1>14 DEF SelectsOne, BestHeld
  <2> QED BY <1>4, <1>5, <2>1, <2>2, <2>3 DEF MergedTo
<1>15. CASE HoldsMuxed(m, c, r)
  <2>1. BookAccounts(T, r)
    BY <1>1, <1>2, <1>3, <1>6, <1>15 DEF HoldsMuxed, BookAccounts, Muxed, Rejected
  <2>2. FirstWins(T, r)
    BY <1>8, <1>15 DEF HoldsMuxed, Muxed
  <2>3. BestHeld(T, r)
    BY <1>1, <1>2, <1>3, <1>6, <1>15 DEF HoldsMuxed, BestHeld, Muxed, Held
  <2> QED BY <1>4, <1>5, <2>1, <2>2, <2>3 DEF MergedTo
<1>16. CASE HoldsBest(m, c, r)
  <2>1. BookAccounts(T, r)
    BY <1>1, <1>2, <1>3, <1>6, <1>16 DEF HoldsBest, BookAccounts, Held, Rejected
  <2>2. FirstWins(T, r)
    BY <1>8, <1>16 DEF HoldsBest, Held
  <2>3. BestHeld(T, r)
    <3>1. \A d \in Candidates : Seen(S, d) /\ outcome[d] \in Held =>
            m.best # NoOne /\ ~ Beats(d, m.best) /\ Beats(c, m.best)
      BY <1>1, <1>16 DEF HoldsBest, BestHeld
    <3>2. \A d \in Candidates : Seen(T, d) /\ outcome[d] \in Held => ~ Beats(d, c)
      BY <1>6, <3>1, BeatsOrders
    <3> QED BY <1>2, <1>6, <1>16, <3>2 DEF HoldsBest, BestHeld
  <2> QED BY <1>4, <1>5, <2>1, <2>2, <2>3 DEF MergedTo
<1> QED BY <1>4, <1>11, <1>12, <1>13, <1>14, <1>15, <1>16

-----------------------------------------------------------------------------
(* The recursive definition of Merged                                      *)

MergeStep(f, c) ==
  IF c = 0
  THEN [best |-> best, muxed |-> muxed, dead |-> dead, selected |-> NoOne, removed |-> {}]
  ELSE IF c \in window THEN Offered(f[c - 1], c) ELSE f[c - 1]

LEMMA MergedDefined ==
  ASSUME WalkAssumption
  PROVE  \E f : f = [c \in 0 .. Ranked |-> MergeStep(f, c)] /\ Merged = f[Ranked]
<1>1. PICK T : T = {m \in Nat : \E f : f = [c \in 0 .. m |-> MergeStep(f, c)]}
  OBVIOUS
<1>2. 0 \in T
  <2>1. PICK f : f = [c \in 0 .. 0 |->
          [best |-> best, muxed |-> muxed, dead |-> dead, selected |-> NoOne, removed |-> {}]]
    OBVIOUS
  <2>2. f = [c \in 0 .. 0 |-> MergeStep(f, c)]
    BY <2>1 DEF MergeStep
  <2> QED BY <1>1, <2>2
<1>3. ASSUME NEW m \in T PROVE m + 1 \in T
  <2>1. m \in Nat
    BY <1>1
  <2>2. PICK f : f = [c \in 0 .. m |-> MergeStep(f, c)]
    BY <1>1
  <2>3. PICK g : g = [c \in 0 .. (m + 1) |-> MergeStep(f, c)]
    OBVIOUS
  <2>4. \A c \in 0 .. m : g[c] = f[c]
    BY <2>1, <2>2, <2>3
  <2>5. \A c \in 0 .. (m + 1) : c = 0 \/ c - 1 \in 0 .. m
    BY <2>1
  <2>6. \A c \in 0 .. (m + 1) : MergeStep(f, c) = MergeStep(g, c)
    BY <2>4, <2>5 DEF MergeStep
  <2>7. g = [c \in 0 .. (m + 1) |-> MergeStep(g, c)]
    BY <2>3, <2>6
  <2> QED BY <1>1, <2>1, <2>7
<1>4. Ranked \in T
  <2>1. Ranked \in Nat
    BY RankFacts
  <2>2. 0 .. Ranked \subseteq T
    BY <1>2, <1>3, <2>1, UpTo
  <2> QED BY <2>1, <2>2
<1>5. PICK f : f = CHOOSE g : g = [c \in 0 .. Ranked |-> MergeStep(g, c)]
  OBVIOUS
<1>6. f = [c \in 0 .. Ranked |-> MergeStep(f, c)]
  BY <1>1, <1>4, <1>5
<1>7. Merged = f[Ranked]
  BY <1>5 DEF Merged, MergeStep
<1> QED BY <1>6, <1>7

LEMMA MergedIs ==
  ASSUME WalkAssumption, WalkInv, Complete
  PROVE  MergedTo(window, Merged)
<1>1. PICK f : f = [c \in 0 .. Ranked |-> MergeStep(f, c)] /\ Merged = f[Ranked]
  BY MergedDefined
<1>2. window \subseteq 1 .. Ranked /\ Ranked \in Nat
  BY CompleteFacts, RankFacts DEF Candidates
<1>3. PICK T : T = {n \in 0 .. Ranked : MergedTo({d \in window : d <= n}, f[n])}
  OBVIOUS
<1>4. 0 \in T
  <2>1. {d \in window : d <= 0} = {}
    <3>1. \A d \in 1 .. Ranked : ~ (d <= 0)
      BY <1>2
    <3> QED BY <1>2, <3>1
  <2>2. PICK m : m = [best |-> best, muxed |-> muxed, dead |-> dead, selected |-> NoOne,
                      removed |-> {}]
    OBVIOUS
  <2>3. f[0] = m
    BY <1>1, <1>2, <2>2 DEF MergeStep
  <2>4. /\ m.best = best /\ m.muxed = muxed /\ m.dead = dead /\ m.selected = NoOne
        /\ m.removed = {}
    BY <2>2
  <2>5. m \in Books
    <3>1. best \in OrNoOne /\ muxed \in OrNoOne /\ NoOne \in OrNoOne /\ dead \subseteq Sources
      BY WalkTypes DEF WalkInv, OrNoOne, Sources
    <3> QED BY <2>2, <3>1 DEF Books
  <2>6. BookAccounts({}, m) /\ FirstWins({}, m)
    BY <2>4, RankFacts DEF BookAccounts, FirstWins
  <2>7. BestHeld({}, m)
    BY <2>4 DEF BestHeld, Seen, WalkInv, BookInv, Complete
  <2>8. MergedTo({}, m)
    BY <2>5, <2>6, <2>7 DEF MergedTo
  <2> QED BY <1>2, <1>3, <2>1, <2>3, <2>8
<1>5. ASSUME NEW n \in T, n < Ranked PROVE n + 1 \in T
  <2>1. /\ n \in 0 .. Ranked /\ n \in Nat /\ n + 1 \in 0 .. Ranked /\ n + 1 # 0
        /\ (n + 1) - 1 = n
    BY <1>2, <1>3, <1>5
  <2>2. PICK S : S = {d \in window : d <= n}
    OBVIOUS
  <2>3. MergedTo(S, f[n])
    BY <1>3, <2>2
  <2>4. f[n + 1] = IF n + 1 \in window THEN Offered(f[n], n + 1) ELSE f[n]
    BY <1>1, <2>1 DEF MergeStep
  <2>5. PICK c : c = n + 1
    OBVIOUS
  <2>6. \A d \in window : d <= c <=> d <= n \/ d = c
    BY <1>2, <2>1, <2>5
  <2>7. CASE c \in window
    <3>1. {d \in window : d <= c} = S \cup {c}
      BY <2>2, <2>6, <2>7
    <3>2. S \in SUBSET window /\ \A d \in S : d < c
      BY <1>2, <2>1, <2>2, <2>5
    <3>3. MergedTo(S \cup {c}, f[c])
      BY <2>3, <2>4, <2>5, <2>7, <3>2, OfferedKeeps
    <3> QED BY <1>3, <2>1, <2>5, <3>1, <3>3
  <2>8. CASE c \notin window
    <3>1. {d \in window : d <= c} = S
      BY <2>2, <2>6, <2>8
    <3> QED BY <1>3, <2>1, <2>3, <2>4, <2>5, <2>8, <3>1
  <2> QED BY <2>5, <2>7, <2>8
<1>6. Ranked \in T
  <2>1. PICK U : U = T \cup {n \in Nat : n > Ranked}
    OBVIOUS
  <2>2. 0 \in U
    BY <1>4, <2>1
  <2>3. ASSUME NEW n \in U PROVE n + 1 \in U
    <3>1. CASE n \in T /\ n < Ranked
      BY <1>5, <2>1, <3>1
    <3>2. CASE ~ (n \in T /\ n < Ranked)
      <4>1. n \in Nat /\ n >= Ranked
        BY <1>2, <1>3, <2>1, <3>2
      <4> QED BY <1>2, <2>1, <4>1
    <3> QED BY <3>1, <3>2
  <2>4. 0 .. Ranked \subseteq U
    BY <1>2, <2>2, <2>3, UpTo
  <2>5. Ranked \in 0 .. Ranked /\ ~ (Ranked > Ranked)
    BY <1>2
  <2> QED BY <2>1, <2>4, <2>5
<1>7. {d \in window : d <= Ranked} = window
  <2>1. \A d \in 1 .. Ranked : d <= Ranked
    BY <1>2
  <2> QED BY <1>2, <2>1
<1> QED BY <1>1, <1>3, <1>6, <1>7

\* The directories that a result leaves.
LEMMA BookKeepsDirs ==
  ASSUME WalkAssumption, WalkInv, Complete, NEW m, MergedTo(window, m)
  PROVE  /\ m.selected = NoOne => dirs \ m.removed = {m.best, m.muxed} \ {NoOne}
         /\ m.selected # NoOne =>
              /\ m.selected \in Candidates
              /\ dirs \ (m.removed \cup {m.best, m.muxed}) = {m.selected}
<1>1. m \in Books /\ BookAccounts(window, m)
  BY DEF MergedTo
<1>2. /\ {m.best, m.muxed, m.selected} \subseteq Candidates \cup {NoOne}
      /\ NoOne \notin Candidates /\ window \subseteq Candidates
  BY <1>1, BookFields, CompleteFacts DEF OrNoOne
<1>3. dirs \subseteq Candidates /\ {best, muxed} \ {NoOne} \subseteq Candidates
  BY WalkTypes DEF WalkInv
<1>4. \A c \in Candidates :
        c \in dirs <=> c \in {best, muxed} \/ (c \in window /\ outcome[c] \notin Rejected)
  <2>1. \A c \in window : HasDir(c) <=> outcome[c] \notin Rejected
    BY DEF HasDir, Complete
  <2> QED BY <1>2, <1>3, <2>1 DEF WalkInv, DirInv, Complete
<1>5. \A c \in Candidates : c \in dirs <=> c \in {m.best, m.muxed, m.selected} \cup m.removed
  BY <1>1, <1>4 DEF BookAccounts
<1>6. \A c \in Candidates : c \in m.removed => c \notin {m.best, m.muxed, m.selected}
  BY <1>1 DEF BookAccounts
<1>7. ASSUME m.selected = NoOne
      PROVE  dirs \ m.removed = {m.best, m.muxed} \ {NoOne}
  <2>1. \A c \in Candidates :
          c \in dirs \ m.removed <=> c \in {m.best, m.muxed} \ {NoOne}
    BY <1>2, <1>5, <1>6, <1>7
  <2> QED BY <1>2, <1>3, <2>1
<1>8. ASSUME m.selected # NoOne
      PROVE  /\ m.selected \in Candidates
             /\ dirs \ (m.removed \cup {m.best, m.muxed}) = {m.selected}
  <2>1. m.selected \in Candidates /\ m.selected \notin {m.best, m.muxed}
    BY <1>1, <1>2, <1>8 DEF BookAccounts
  <2>2. \A c \in Candidates :
          c \in dirs \ (m.removed \cup {m.best, m.muxed}) <=> c = m.selected
    BY <1>5, <1>6, <2>1
  <2> QED BY <1>3, <2>1, <2>2
<1> QED BY <1>7, <1>8

LEMMA MergeWindowKeepsInv ==
  ASSUME WalkAssumption, WalkInv, MergeWindow
  PROVE  WalkInv'
<1>1. PICK m : m = Merged
  OBVIOUS
<1>2. /\ best' = m.best /\ muxed' = m.muxed /\ dead' = m.dead
      /\ selected' = m.selected
      /\ stage' = (IF m.selected = NoOne THEN "walk" ELSE "picked")
      /\ dirs' = (IF m.selected = NoOne THEN dirs \ m.removed
                  ELSE dirs \ (m.removed \cup {m.best, m.muxed}))
      /\ UNCHANGED <<rest, window, used, retryGiven, at, outcome, cancelled, cut>>
  BY <1>1 DEF MergeWindow, walk
<1>3. Complete
  BY DEF MergeWindow, Complete
<1>4. m \in Books /\ MergedTo(window, m) /\ FirstWins(window, m) /\ BestHeld(window, m)
  BY <1>1, <1>3, MergedIs DEF MergedTo
<1>5. /\ {m.best, m.muxed, m.selected} \subseteq Candidates \cup {NoOne}
      /\ m.dead \subseteq Sources /\ NoOne \notin Candidates
  BY <1>4, BookFields DEF OrNoOne
<1>6. /\ \A c \in Candidates : at[c] \in {"none", "ended"}
      /\ \A c \in Candidates : at[c] = "ended" <=> Seen(window, c)
      /\ \A c \in Candidates : outcome[c] # "none" => Seen(window, c)
      /\ \A c \in Candidates : Past(c) => outcome[c] # "audio"
  BY <1>3, CompleteFacts DEF Seen, WalkInv, BookInv, Complete
<1>7. WalkTypeOK'
  <2>1. dirs' \subseteq dirs /\ stage' \in {"walk", "picked"}
    BY <1>2
  <2>2. dirs' \subseteq Candidates
    BY <2>1, WalkTypes DEF WalkInv
  <2> QED BY <1>2, <1>5, <2>1, <2>2 DEF WalkInv, WalkTypeOK, Sources
<1>8. AtInv'
  BY <1>2, <1>6, NobodyTried DEF UnderWay
<1>9. BookInv'
  <2>1. SUFFICES ASSUME m.selected = NoOne PROVE BookInv'
    BY <1>2 DEF BookInv
  <2>2. stage' = "walk" /\ selected' = NoOne
    BY <1>2, <2>1
  <2>3. \A c \in Candidates : Past(c)' <=> Seen(window, c)
    BY <1>2, <1>6, <2>2 DEF Past
  <2>4. /\ best' # NoOne => Past(best)' /\ outcome'[best'] \in Held
        /\ muxed' # NoOne => Past(muxed)' /\ outcome'[muxed'] \in Muxed
    <3>1. \A c \in {m.best, m.muxed} \ {NoOne} : c \in Candidates /\ Seen(window, c)
      BY <1>4, <1>5 DEF BestHeld
    <3>2. \A c \in Candidates : Seen(window, c) => at[c] = "ended"
      BY <1>6
    <3>3. \A c \in {m.best, m.muxed} \ {NoOne} : at[c] = "ended"
      BY <3>1, <3>2
    <3> QED BY <1>2, <1>4, <2>2, <3>3 DEF BestHeld, Past
  <2>5. ASSUME NEW c \in Candidates, Seen(window, c)
        PROVE  /\ outcome'[c] # "audio"
               /\ outcome'[c] \in Held => best' # NoOne /\ ~ Beats(c, best)'
    <3>1. outcome[c] # "audio"
      BY <1>4, <1>6, <2>1, <2>5 DEF FirstWins, Seen
    <3>2. outcome[c] \in Held => m.best # NoOne /\ ~ Beats(c, m.best)
      BY <1>4, <2>1, <2>5 DEF BestHeld
    <3>3. Beats(c, best)' <=> Beats(c, m.best)
      BY <1>2 DEF Beats
    <3> QED BY <1>2, <3>1, <3>2, <3>3
  <2> QED BY <2>2, <2>3, <2>4, <2>5 DEF BookInv
<1>10. DirInv'
  BY <1>2, <1>3, <1>4, BookKeepsDirs DEF DirInv
<1>11. CutInv'
  BY <1>2 DEF WalkInv, CutInv, Sound
<1>12. OnlySelectedIsLeft'
  BY <1>2, <1>3, <1>4, BookKeepsDirs DEF OnlySelectedIsLeft
<1>13. ResultInv'
  <2>1. SUFFICES ASSUME m.selected # NoOne, ~ cancelled PROVE InOrder'
    BY <1>2 DEF ResultInv
  <2>2. PICK f \in window : /\ outcome[f] = "audio"
                            /\ \A c \in window : c < f => outcome[c] # "audio"
                            /\ \/ m.selected = f
                               \/ m.selected < f /\ outcome[m.selected] = "betterMuxed"
    BY <1>4, <2>1 DEF FirstWins
  <2>3. f \in Candidates /\ f \in Nat /\ m.selected \in Candidates /\ m.selected \in Nat
        /\ m.selected # 0 /\ m.selected <= f
    BY <1>3, <1>5, <2>1, <2>2, CompleteFacts, RankFacts
  <2>4. \A a \in Candidates : Sound(a) => a \in window
    <3>1. \A a \in Candidates : outcome[a] = "audio" => Past(a) \/ a \in window
      BY <1>6 DEF Seen
    <3> QED BY <1>6, <3>1 DEF Sound
  <2>5. \A a \in Candidates : Sound(a) => a \in Nat /\ f <= a
    <3>1. SUFFICES ASSUME NEW a \in Candidates, Sound(a) PROVE a \in Nat /\ f <= a
      OBVIOUS
    <3>2. a \in Nat /\ ~ (a < f)
      BY <2>2, <2>4, <3>1, RankFacts DEF Sound
    <3> QED BY <2>3, <3>2
  <2>6. m.selected \notin cut
    <3>1. SUFFICES ASSUME m.selected \in cut PROVE FALSE
      OBVIOUS
    <3>2. PICK a \in 1 .. m.selected - 1 : Sound(a)
      BY <2>1, <3>1 DEF WalkInv, CutInv
    <3>3. a \in Candidates
      <4>1. m.selected \in 1..Ranked /\ Ranked \in Nat
        BY <2>3, RankFacts DEF Candidates
      <4> QED BY <4>1 DEF Candidates
    <3>4. f <= a
      BY <2>5, <3>2, <3>3
    <3> QED BY <2>3, <3>4
  <2>7. \A a \in Candidates : Sound(a)' <=> Sound(a)
    BY <1>2 DEF Sound
  <2>8. \A a \in Candidates : Sound(a)' => m.selected \in 1 .. a
    BY <2>3, <2>5, <2>7
  <2>9. outcome[m.selected] \in {"audio", "betterMuxed"}
    BY <2>2
  <2> QED BY <1>2, <2>6, <2>8, <2>9 DEF InOrder, Held
<1> QED BY <1>7, <1>8, <1>9, <1>10, <1>11, <1>12, <1>13 DEF WalkInv

-----------------------------------------------------------------------------
(* The job around the step                                                 *)

LEMMA CancelKeepsInv ==
  ASSUME WalkAssumption, WalkInv, CancelJob
  PROVE  WalkInv'
<1>1. /\ stage \in {"walk", "window", "picked", "kept"} /\ cancelled' = TRUE
      /\ cut' = cut \cup {c \in window : at[c] # "ended"}
      /\ UNCHANGED <<stage, rest, window, used, retryGiven, at, outcome,
                     best, muxed, dead, selected, dirs>>
  BY DEF CancelJob, walk, book
<1>2. \A c \in window : c \in Candidates /\ Tried(c)
  BY WalkTypes DEF WalkInv, AtInv, Tried
<1>3. cut' \subseteq Candidates /\ \A c \in cut' : Tried(c)
  BY <1>1, <1>2, WalkTypes DEF WalkInv, AtInv
<1>4. stage # "window" => cut' = cut
  <2>1. stage # "window" => \A c \in window : at[c] = "ended"
    BY <1>2, WalkTypes DEF WalkInv, AtInv, UnderWay, Tried
  <2> QED BY <1>1, <2>1
<1>5. WalkTypeOK'
  BY <1>1, <1>3 DEF WalkInv, WalkTypeOK
<1>6. AtInv'
  BY <1>1, <1>3 DEF WalkInv, AtInv, UnderWay, Tried
<1>7. BookInv' /\ DirInv'
  BY <1>1 DEF WalkInv, BookInv, DirInv, Past, Beats, HasDir
<1>8. CutInv' /\ ResultInv' /\ OnlySelectedIsLeft'
  BY <1>1, <1>4 DEF WalkInv, CutInv, ResultInv, OnlySelectedIsLeft
<1> QED BY <1>5, <1>6, <1>7, <1>8 DEF WalkInv

LEMMA NextStageKeepsInv ==
  ASSUME WalkAssumption, WalkInv, NextStage \/ EndJob
  PROVE  WalkInv'
<1>1. /\ \/ stage = "picked" /\ cancelled /\ stage' = "undone" /\ dirs' = dirs \ {selected}
         \/ stage = "picked" /\ ~ cancelled /\ stage' = "kept" /\ dirs' = dirs
         \/ stage = "kept" /\ stage' = "done" /\ dirs' = dirs \ {selected}
      /\ UNCHANGED <<rest, window, used, retryGiven, at, outcome, cancelled, cut,
                     best, muxed, dead, selected>>
  BY DEF NextStage, EndJob, walk, book
<1>2. \A c \in Candidates : ~ UnderWay(c)
  BY <1>1 DEF WalkInv, AtInv
<1>3. WalkTypeOK'
  BY <1>1 DEF WalkInv, WalkTypeOK
<1>4. AtInv'
  BY <1>1, <1>2, NobodyTried
<1>5. BookInv' /\ DirInv'
  BY <1>1 DEF WalkInv, BookInv, DirInv
<1>6. CutInv'
  BY <1>1 DEF WalkInv, CutInv, Sound
<1>7. ResultInv'
  BY <1>1 DEF WalkInv, ResultInv, InOrder, Sound, Beats
<1>8. OnlySelectedIsLeft'
  BY <1>1 DEF WalkInv, OnlySelectedIsLeft
<1> QED BY <1>3, <1>4, <1>5, <1>6, <1>7, <1>8 DEF WalkInv

-----------------------------------------------------------------------------
(* Theorems                                                                *)

LEMMA WalkInitHasInv ==
  ASSUME WalkAssumption, WalkInit
  PROVE  WalkInv
<1>1. WalkTypeOK
  <2>1. 0 \in 0 .. MaxAttempts
    BY RankFacts
  <2>2. /\ at \in [Candidates -> {"none"}] /\ outcome \in [Candidates -> {"none"}]
        /\ dead = {} /\ rest = Candidates /\ window = {} /\ cut = {} /\ dirs = {}
    BY DEF WalkInit
  <2>3. /\ at \in [Candidates -> {"none", "new", "queued", "fetching", "checking", "ended"}]
        /\ outcome \in [Candidates -> Outcomes \cup {"none"}]
    BY <2>2
  <2>4. /\ stage = "walk" /\ used = 0 /\ {cancelled, retryGiven} \subseteq BOOLEAN
        /\ {best, muxed, selected} \subseteq Candidates \cup {NoOne}
    BY DEF WalkInit
  <2>5. {rest, window, cut, dirs} \subseteq SUBSET Candidates
    BY <2>2
  <2> QED BY <2>1, <2>2, <2>3, <2>4, <2>5 DEF WalkTypeOK
<1>2. AtInv
  BY DEF WalkInit, AtInv, Tried, UnderWay
<1>3. BookInv /\ DirInv /\ CutInv /\ ResultInv /\ OnlySelectedIsLeft
  BY DEF WalkInit, BookInv, DirInv, CutInv, ResultInv, OnlySelectedIsLeft, Past
<1> QED BY <1>1, <1>2, <1>3 DEF WalkInv

LEMMA WalkStepKeepsInv ==
  ASSUME WalkAssumption, WalkInv, [WalkNext]_walkVars
  PROVE  WalkInv'
<1>1. CASE UNCHANGED walkVars
  <2>1. WalkTypeOK' /\ AtInv'
    BY <1>1 DEF walkVars, WalkInv, WalkTypeOK, AtInv, UnderWay, Tried
  <2>2. BookInv' /\ DirInv' /\ CutInv'
    BY <1>1 DEF walkVars, WalkInv, BookInv, DirInv, CutInv, Past, Beats, HasDir, Sound
  <2>3. ResultInv' /\ OnlySelectedIsLeft'
    BY <1>1 DEF walkVars, WalkInv, ResultInv, InOrder, OnlySelectedIsLeft, Sound, Beats
  <2> QED BY <2>1, <2>2, <2>3 DEF WalkInv
<1>2. CASE StartWindow
  BY <1>2, StartWindowKeepsInv
<1>3. CASE SettleWalk
  BY <1>3, SettleKeepsInv
<1>4. CASE GiveUp
  BY <1>4, GiveUpWalkKeepsInv
<1>5. ASSUME NEW c \in Candidates, Attempt(c) PROVE WalkInv'
  BY <1>5, AttemptStepKeepsInv
<1>6. CASE MergeWindow
  BY <1>6, MergeWindowKeepsInv
<1>7. CASE CancelJob
  BY <1>7, CancelKeepsInv
<1>8. CASE NextStage \/ EndJob
  BY <1>8, NextStageKeepsInv
<1> QED BY <1>1, <1>2, <1>3, <1>4, <1>5, <1>6, <1>7, <1>8 DEF WalkNext

THEOREM WalkTypeCorrect ==
  ASSUME WalkAssumption
  PROVE  WalkSpec => []WalkTypeOK
<1>1. WalkInit => WalkInv
  BY WalkInitHasInv
<1>2. WalkInv /\ [WalkNext]_walkVars => WalkInv'
  BY WalkStepKeepsInv
<1>3. WalkInv => WalkTypeOK
  BY DEF WalkInv
<1> QED BY <1>1, <1>2, <1>3, PTL DEF WalkSpec

\* As a directory is created, kept or removed by attempts of a window in any
\* order: only the selected file's directory is left, and none when the stage
\* failed or the job is over.
THEOREM NoDirIsLeft ==
  ASSUME WalkAssumption
  PROVE  WalkSpec => []OnlySelectedIsLeft
<1>1. WalkInit => WalkInv
  BY WalkInitHasInv
<1>2. WalkInv /\ [WalkNext]_walkVars => WalkInv'
  BY WalkStepKeepsInv
<1>3. WalkInv => OnlySelectedIsLeft
  BY DEF WalkInv
<1> QED BY <1>1, <1>2, <1>3, PTL DEF WalkSpec

\* Attempts side by side hand over the file that trying one candidate after the
\* other would.
THEOREM BestIsSelected ==
  ASSUME WalkAssumption
  PROVE  WalkSpec => []BestIsKept
<1>1. WalkInit => WalkInv
  BY WalkInitHasInv
<1>2. WalkInv /\ [WalkNext]_walkVars => WalkInv'
  BY WalkStepKeepsInv
<1>3. WalkInv => BestIsKept
  BY DEF WalkInv, CutInv, ResultInv, InOrder, BestIsKept
<1> QED BY <1>1, <1>2, <1>3, PTL DEF WalkSpec
=============================================================================
