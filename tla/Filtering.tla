----------------------------- MODULE Filtering -----------------------------
(***************************************************************************)
(* Filtering a sequence without RECURSIVE, so that it can be proved about. *)
(***************************************************************************)
EXTENDS Naturals, Sequences

\* The elements of a sequence that are in a set, in their order.
Only(s, S) ==
  LET only[n \in 0..Len(s)] ==
        IF n = 0 THEN <<>>
        ELSE IF s[n] \in S THEN Append(only[n - 1], s[n]) ELSE only[n - 1]
  IN only[Len(s)]
=============================================================================
