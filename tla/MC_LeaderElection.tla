------------------------- MODULE MC_LeaderElection -------------------------
(***************************************************************************)
(* Finite instances of LeaderElection: a leader that lost its session and  *)
(* its successor.                                                          *)
(***************************************************************************)
EXTENDS LeaderElection
=============================================================================
