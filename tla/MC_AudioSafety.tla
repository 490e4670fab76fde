--------------------------- MODULE MC_AudioSafety ---------------------------
(***************************************************************************)
(* The instances of AudioObjects and CooldownGate whose properties hold,   *)
(* and those of DownloadWalk; a behaviour is one of a single subject, and  *)
(* the other components rest.                                              *)
(*                                                                         *)
(* In two settings of AudioObjects nearly everything may go wrong, but     *)
(* that the store loses an object by itself: in one with the sweep, in the *)
(* other without it but with errors of the store and of the recording of   *)
(* orphans.  Then the second track is never added, for one is enough to    *)
(* race with itself.  In the others the sweep is switched off and no       *)
(* process dies, but two tracks share a canonical key; and either queries  *)
(* and recordings fail, or leases lapse under workers, or the store loses  *)
(* objects.                                                                *)
(*                                                                         *)
(* Five candidates of two sources are downloaded in pairs, one download    *)
(* at a time, which leaves a window after the one that a muxed file waits  *)
(* for; and in threes, two at a time, where the attempts are used up.      *)
(*                                                                         *)
(* Three retries are one that is admitted, one that gives its window back, *)
(* and one whose statement was on its way meanwhile.                       *)
(***************************************************************************)
EXTENDS AudioObjects, CooldownGate, DownloadWalk, FiniteSets, TLC

VARIABLE subject

TwoSources == [c \in 1 .. 5 |-> c % 2]

Threes == INSTANCE DownloadWalk WITH
  Width <- 3, MaxAttempts <- 4, Slots <- 2, Implausible <- {2}

ASSUME WalksAssumption == WalkAssumption /\ Threes!WalkAssumption

-----------------------------------------------------------------------------

\* No walk while another component is the subject.
NoWalk ==
  /\ stage = "none" /\ at = <<>> /\ outcome = <<>>
  /\ rest = {} /\ window = {} /\ cut = {} /\ dead = {} /\ dirs = {}
  /\ used = 0 /\ best = 0 /\ muxed = 0 /\ selected = 0
  /\ cancelled = FALSE /\ retryGiven = FALSE

\* The bounds: one track with all faults, or two tracks of fewer claims.
Bounds ==
  IF MayCrash
  THEN Cardinality({t \in Tracks : row[t].status # "absent"}) <= 1
  ELSE \A t \in Tracks : row[t].fence < MaxFence

MCInit ==
  /\ \/ subject = "objects" /\ NoWalk
     \/ subject = "pairs"   /\ WalkInit         /\ may = {"vanish"}
     \/ subject = "threes"  /\ Threes!WalkInit /\ may = {"vanish"}
     \/ subject = "gate"    /\ NoWalk           /\ may = {"vanish"}
  /\ Init
  /\ GateInit

MCNext ==
  /\ \/ subject = "objects" /\ Next /\ Bounds' /\ UNCHANGED <<walkVars, gateVars>>
     \/ subject = "pairs" /\ WalkNext /\ UNCHANGED <<vars, gateVars>>
     \/ subject = "threes" /\ Threes!WalkNext /\ UNCHANGED <<vars, gateVars>>
     \/ subject = "gate" /\ GateNext /\ UNCHANGED <<vars, walkVars>>
  /\ UNCHANGED subject

MCSpec == MCInit /\ [][MCNext]_<<subject, vars, walkVars, gateVars>>

\* Tracks are interchangeable, and so are workers.
Symmetry == Permutations(Tracks) \cup Permutations(Workers)
=============================================================================
