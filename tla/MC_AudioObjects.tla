-------------------------- MODULE MC_AudioObjects --------------------------
(***************************************************************************)
(* Finite instances of AudioObjects: two tracks that share a canonical     *)
(* key, two workers and one deletion in flight show every race between two *)
(* users of a key; a third process adds nobody new to race with.           *)
(***************************************************************************)
EXTENDS AudioObjects, TLC

\* Tracks are interchangeable, and so are workers.
Symmetry == Permutations(Tracks) \cup Permutations(Workers)
=============================================================================
