-------------------------- MODULE UnreleasedBuilds --------------------------
(***************************************************************************)
(* The list of an artist's unreleased songs takes up to a minute to build, *)
(* so it is stored.  A lookup records the artist as requested, reads what  *)
(* is stored, in two statements, and joins the process's build of that     *)
(* artist, or starts one, if nothing is stored or an older version of the  *)
(* program built it.  A sweep in the process that leads builds what was    *)
(* requested and is due, a few artists at a time.                          *)
(*                                                                         *)
(* Builds of one artist run side by side, in processes and in the sweep.   *)
(* A list stands for the moment its build began (startedAt).  Only the     *)
(* order of those moments matters: a new one comes after all that are      *)
(* still mentioned.                                                        *)
(***************************************************************************)
EXTENDS Naturals, Sequences, FiniteSets, FiniteSetsExt

CONSTANTS
  Artists, Processes, Readers,
  Broken,    \* artists that no build succeeds for
  Limit,     \* unreleasedRefreshPerRun
  Nobody,    \* no artist, no process
  MaxAges,   \* bound on how often a stored list gets old
  MaxFaults

\* What the constants have to be.
ASSUME BuildsAssumption ==
  /\ IsFiniteSet(Artists) /\ IsFiniteSet(Processes) /\ IsFiniteSet(Readers)
  /\ Broken \subseteq Artists
  /\ Limit \in Nat \ {0}
  /\ MaxAges \in Nat /\ MaxFaults \in Nat
  /\ Nobody \notin Artists \cup Processes

VARIABLES
  stored,   \* unreleased_artists, and unreleased_songs as the build they are of
  old,      \* artists whose built_at is long enough ago to build them again
  resting,  \* artists whose attempted_at is less than an hour ago
  job,      \* inflight, of each process
  sweep,    \* RefreshDue: the artists left, and the build of the first one
  lookup,   \* where each reader's lookup is, and what it has read
  served,   \* history: the list each reader was given last of each artist
  ages, faults

buildVars == <<stored, old, resting, job, sweep, lookup, served, ages, faults>>

\* 0 is NULL.  attempted_at is kept as its rank among the artists'.
StoredRows == [known : BOOLEAN, attempted : Nat, built : Nat, current : BOOLEAN]

Builds  == [pc : {"none", "queued", "building", "writing"}, start : Nat]
NoBuild == [pc |-> "none", start |-> 0]

\* sure: no statement of the lookup failed, nor one that what it waits for took.
Lookups ==
  [pc : {"idle", "reading", "listing", "joining", "waiting", "served"},
   artist : Artists \cup {Nobody}, process : Processes \cup {Nobody},
   list : Nat, current : BOOLEAN, sure : BOOLEAN]
NoLookup ==
  [pc |-> "idle", artist |-> Nobody, process |-> Nobody,
   list |-> 0, current |-> FALSE, sure |-> TRUE]

BuildsTypeOK ==
  /\ stored \in [Artists -> StoredRows]
  /\ old \subseteq Artists /\ resting \subseteq Artists
  /\ job \in [Processes \X Artists -> Builds]
  /\ sweep \in [todo : Seq(Artists), build : Builds]
  /\ lookup \in [Readers -> Lookups]
  /\ served \in [Readers \X Artists -> Nat]
  /\ ages \in 0..MaxAges /\ faults \in 0..MaxFaults

\* Lists that an older version built may be there.
BuildsInit ==
  /\ \E outdated \in SUBSET Artists :
       stored = [a \in Artists |->
                [known |-> a \in outdated, attempted |-> 0,
                 built |-> IF a \in outdated THEN 1 ELSE 0, current |-> FALSE]]
  /\ old = {} /\ resting = {}
  /\ job = [k \in Processes \X Artists |-> NoBuild]
  /\ sweep = [todo |-> <<>>, build |-> NoBuild]
  /\ lookup = [r \in Readers |-> NoLookup]
  /\ served = [k \in Readers \X Artists |-> 0]
  /\ ages = 0 /\ faults = 0

Fault   == faults < MaxFaults /\ faults' = faults + 1
NoFault == UNCHANGED faults

-----------------------------------------------------------------------------
(* The store                                                               *)

\* The moments that are still mentioned.
Mentioned ==
  {stored[a].built : a \in Artists} \cup {job[k].start : k \in DOMAIN job}
    \cup {sweep.build.start} \cup {lookup[r].list : r \in Readers}
    \cup {served[k] : k \in DOMAIN served}

StartedNow == Max(Mentioned) + 1

\* A slip: whoever writes last has its list stored.
LastWriterClaims(a, start) == stored[a].known

\* claimUnreleasedBuildSQL: the artist was recorded, and holds no later build.
Claims(a, start) == stored[a].known /\ stored[a].built < start

\* Write: the claim and the songs, in one transaction.
Write(a, start) ==
  IF Claims(a, start)
  THEN /\ stored' = [stored EXCEPT ![a].built = start, ![a].current = TRUE]
       /\ old' = old \ {a}
  ELSE UNCHANGED <<stored, old>>

\* A stored list gets a week old, or an hour, if it is incomplete or empty.
GetsOld(a) ==
  /\ stored[a].built # 0 /\ a \notin old
  /\ ages < MaxAges /\ ages' = ages + 1
  /\ old' = old \cup {a}
  /\ UNCHANGED <<stored, resting, job, sweep, lookup, served, faults>>

\* recordUnreleasedArtistSQL
Recorded(a) == [stored EXCEPT ![a].known = TRUE]

\* Warm: an artist that is likely to be looked up is recorded.
Warm(a) ==
  /\ ~ stored[a].known
  /\ stored' = Recorded(a)
  /\ UNCHANGED <<old, resting, job, sweep, lookup, served, ages, faults>>

-----------------------------------------------------------------------------
(* lookupStored                                                            *)

ToPlace(r, pc) == lookup' = [lookup EXCEPT ![r].pc = pc]

Answered(r, list) ==
  /\ lookup' = [lookup EXCEPT ![r] = NoLookup]
  /\ served' = IF lookup[r].sure THEN [served EXCEPT ![<<r, lookup[r].artist>>] = list]
               ELSE served

\* The artist is recorded first; a lookup goes on without.
Look(r, a, p) ==
  /\ lookup[r].pc = "idle"
  /\ \/ stored' = Recorded(a) /\ NoFault
     \/ UNCHANGED stored /\ Fault
  /\ lookup' = [lookup EXCEPT ![r] = [NoLookup EXCEPT !.pc = "reading", !.artist = a,
                                        !.process = p, !.sure = faults' = faults]]
  /\ UNCHANGED <<old, resting, job, sweep, served, ages>>

ReadBuildState(r) ==
  /\ lookup[r].pc = "reading"
  /\ LET state == stored[lookup[r].artist] IN
     lookup' = [lookup EXCEPT ![r].pc = IF state.built # 0 THEN "listing" ELSE "joining",
                              ![r].current = state.current]
  /\ UNCHANGED <<stored, old, resting, job, sweep, served, ages, faults>>

ReadSongs(r) ==
  /\ lookup[r].pc = "listing"
  /\ LET list == stored[lookup[r].artist].built IN
     IF lookup[r].current THEN Answered(r, list)
     ELSE /\ lookup' = [lookup EXCEPT ![r].pc = "joining", ![r].list = list]
          /\ UNCHANGED served
  /\ UNCHANGED <<stored, old, resting, job, sweep, ages, faults>>

\* A list that cannot be read counts as not built.
ReadFails(r) ==
  /\ lookup[r].pc \in {"reading", "listing"} /\ Fault
  /\ lookup' = [lookup EXCEPT ![r].pc = "joining", ![r].sure = FALSE]
  /\ UNCHANGED <<stored, old, resting, job, sweep, served, ages>>

\* joinJob; an outdated list is answered at once.
JoinJob(r) ==
  /\ lookup[r].pc = "joining"
  /\ LET k == <<lookup[r].process, lookup[r].artist>> IN
     job' = IF job[k] = NoBuild THEN [job EXCEPT ![k].pc = "queued"] ELSE job
  /\ IF lookup[r].list # 0 THEN Answered(r, lookup[r].list)
     ELSE ToPlace(r, "waiting") /\ UNCHANGED served
  /\ UNCHANGED <<stored, old, resting, sweep, ages, faults>>

\* awaitJob: the job is done.
Take(r) ==
  /\ lookup[r].pc = "served"
  /\ Answered(r, lookup[r].list)
  /\ UNCHANGED <<stored, old, resting, job, sweep, ages, faults>>

\* awaitJob: the answer is Pending, or the request is gone.
Leave(r) ==
  /\ lookup[r].pc \in {"waiting", "served"}
  /\ lookup' = [lookup EXCEPT ![r] = NoLookup]
  /\ UNCHANGED <<stored, old, resting, job, sweep, served, ages, faults>>

-----------------------------------------------------------------------------
(* runJob: Rebuild for those who wait                                      *)

JobIs(k, from, to) == job[k].pc = from /\ job' = [job EXCEPT ![k].pc = to]

JobBegins(k) ==
  /\ job[k].pc = "queued"
  /\ job' = [job EXCEPT ![k] = [pc |-> "building", start |-> StartedNow]]
  /\ UNCHANGED <<stored, old, resting, sweep, lookup, served, ages, faults>>

JobBuilds(k) ==
  /\ k[2] \notin Broken
  /\ JobIs(k, "building", "writing")
  /\ UNCHANGED <<stored, old, resting, sweep, lookup, served, ages, faults>>

\* The job leaves inflight, and is done for all who wait for it.
JobEnds(k, outcome) ==
  /\ job' = [job EXCEPT ![k] = NoBuild]
  /\ lookup' = [r \in Readers |->
       IF lookup[r].pc = "waiting" /\ <<lookup[r].process, lookup[r].artist>> = k
       THEN outcome[r] ELSE lookup[r]]

\* Everybody gets an error, of a panic as well.
JobFails(k) ==
  /\ job[k].pc = "building" /\ IF k[2] \in Broken THEN NoFault ELSE Fault
  /\ JobEnds(k, [r \in Readers |-> NoLookup])
  /\ UNCHANGED <<stored, old, resting, sweep, served, ages>>

Given(k, saved) ==
  [r \in Readers |-> [lookup[r] EXCEPT !.pc = "served", !.list = job[k].start,
                                       !.sure = @ /\ saved]]

JobWrites(k) ==
  /\ job[k].pc = "writing"
  /\ Write(k[2], job[k].start)
  /\ JobEnds(k, Given(k, stored[k[2]].known))
  /\ UNCHANGED <<resting, sweep, served, ages, faults>>

\* What was built is served all the same.
JobWriteFails(k) ==
  /\ job[k].pc = "writing" /\ Fault
  /\ JobEnds(k, Given(k, FALSE))
  /\ UNCHANGED <<stored, old, resting, sweep, served, ages>>

Crash(p) ==
  /\ Fault
  /\ job' = [k \in DOMAIN job |-> IF k[1] = p THEN NoBuild ELSE job[k]]
  /\ lookup' = [r \in Readers |-> IF lookup[r].process = p THEN NoLookup ELSE lookup[r]]
  /\ UNCHANGED <<stored, old, resting, sweep, served, ages>>

-----------------------------------------------------------------------------
(* RefreshDue                                                              *)

IsDue(a) == stored[a].known /\ (stored[a].built = 0 \/ a \in old)

\* ORDER BY attempted_at ASC NULLS FIRST LIMIT
Picked(due) ==
  {s \in [1..(IF Cardinality(due) < Limit THEN Cardinality(due) ELSE Limit) -> due] :
     /\ \A i, j \in DOMAIN s : i < j =>
          s[i] # s[j] /\ stored[s[i]].attempted <= stored[s[j]].attempted
     /\ \A a \in due, i \in DOMAIN s :
          (\E j \in DOMAIN s : s[j] = a) \/ stored[s[i]].attempted <= stored[a].attempted}

\* A slip: an attempt leaves no trace until its list is stored.
Unstamped(picked) == UNCHANGED <<stored, resting>>

Ranks(attempted) ==
  [a \in Artists |-> Cardinality({attempted[b] : b \in {c \in Artists :
                       0 < attempted[c] /\ attempted[c] <= attempted[a]}})]

\* They are stamped with now, whatever becomes of their builds.
Stamp(picked) ==
  LET latest == Max({stored[a].attempted : a \in Artists}) + 1
      ranks  == Ranks([a \in Artists |->
                         IF a \in picked THEN latest ELSE stored[a].attempted]) IN
  /\ stored' = [a \in Artists |-> [stored[a] EXCEPT !.attempted = ranks[a]]]
  /\ resting' = resting \cup picked

Due ==
  /\ sweep.todo = <<>>
  /\ LET due == {a \in Artists : IsDue(a) /\ a \notin resting} IN
     /\ due # {}
     /\ \E s \in Picked(due) :
          /\ sweep' = [sweep EXCEPT !.todo = s]
          /\ Stamp({s[i] : i \in DOMAIN s})
  /\ UNCHANGED <<old, job, lookup, served, ages, faults>>

SweepIs(from, to) == sweep.build.pc = from /\ sweep' = [sweep EXCEPT !.build.pc = to]

SweepBegins ==
  /\ sweep.todo # <<>> /\ sweep.build = NoBuild
  /\ sweep' = [sweep EXCEPT !.build = [pc |-> "building", start |-> StartedNow]]
  /\ UNCHANGED <<stored, old, resting, job, lookup, served, ages, faults>>

SweepBuilds ==
  /\ sweep.todo # <<>> /\ Head(sweep.todo) \notin Broken
  /\ SweepIs("building", "writing")
  /\ UNCHANGED <<stored, old, resting, job, lookup, served, ages, faults>>

ToNextArtist == sweep' = [todo |-> Tail(sweep.todo), build |-> NoBuild]

SweepFails ==
  /\ sweep.build.pc = "building" /\ IF Head(sweep.todo) \in Broken THEN NoFault ELSE Fault
  /\ ToNextArtist
  /\ UNCHANGED <<stored, old, resting, job, lookup, served, ages>>

SweepWrites ==
  /\ sweep.build.pc = "writing"
  /\ Write(Head(sweep.todo), sweep.build.start)
  /\ ToNextArtist
  /\ UNCHANGED <<resting, job, lookup, served, ages, faults>>

SweepWriteFails ==
  /\ sweep.build.pc = "writing" /\ Fault
  /\ ToNextArtist
  /\ UNCHANGED <<stored, old, resting, job, lookup, served, ages>>

\* A build panics, the process ends, or another one leads.
SweepDies ==
  /\ sweep.todo # <<>> /\ Fault
  /\ sweep' = [todo |-> <<>>, build |-> NoBuild]
  /\ UNCHANGED <<stored, old, resting, job, lookup, served, ages>>

\* An hour after an artist was attempted; those before it are rested as well.
HourPasses(a) ==
  /\ a \in resting
  /\ resting' = {b \in resting : stored[b].attempted > stored[a].attempted}
  /\ UNCHANGED <<stored, old, job, sweep, lookup, served, ages, faults>>

-----------------------------------------------------------------------------

SweepGoesOn ==
  Due \/ SweepBegins \/ SweepBuilds \/ SweepFails \/ SweepWrites \/ SweepWriteFails

BuildsNext ==
  \/ \E a \in Artists : GetsOld(a) \/ Warm(a) \/ HourPasses(a)
  \/ \E r \in Readers :
       \/ \E a \in Artists, p \in Processes : Look(r, a, p)
       \/ ReadBuildState(r) \/ ReadSongs(r) \/ ReadFails(r) \/ JoinJob(r)
       \/ Take(r) \/ Leave(r)
  \/ \E k \in Processes \X Artists :
       JobBegins(k) \/ JobBuilds(k) \/ JobFails(k) \/ JobWrites(k) \/ JobWriteFails(k)
  \/ \E p \in Processes : Crash(p)
  \/ SweepGoesOn \/ SweepDies

BuildsSpec == BuildsInit /\ [][BuildsNext]_buildVars

\* The ticker starts sweeps in whatever process leads, builds end (their
\* requests have timeouts), and time passes.
FairBuildsSpec ==
  /\ BuildsSpec /\ WF_buildVars(SweepGoesOn)
  /\ \A a \in Artists : WF_buildVars(HourPasses(a))

-----------------------------------------------------------------------------
(* Properties                                                              *)

\* Nobody is served an older list of an artist than before, whichever builds
\* overlap, wherever they run and in whatever order they are written - unless
\* a statement failed, of the lookup or of the build it was answered by.
ListsDoNotGoBack ==
  [][\A k \in DOMAIN served : served[k] <= served'[k]]_served

\* Every artist that was requested and can be built is built in the end, and
\* again when its list is old: though builds of others fail every time and are
\* due as long, sweeps die and writes fail.
RequestedIsBuilt == \A a \in Artists \ Broken : IsDue(a) ~> ~ IsDue(a)
=============================================================================
