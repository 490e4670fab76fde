---------------------------- MODULE MC_JobQueue ----------------------------
(***************************************************************************)
(* Finite instances of JobQueue.  A model checks one or two tracks: rows   *)
(* interact only through the workers that serve them and through the       *)
(* upgrade lane, which waits for every claimable user job.                 *)
(***************************************************************************)
EXTENDS JobQueue, TLC

\* Workers of one lane are interchangeable, and so are requests and tracks.
Symmetry ==
  Permutations(UserWorkers) \cup Permutations(Clients) \cup Permutations(Tracks)
=============================================================================
