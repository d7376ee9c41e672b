----------------------------- MODULE MCLibrary ------------------------------
EXTENDS Library, TLC

(* Books are interchangeable: no definition singles one out.  Sound for      *)
(* safety only, so the liveness run does not use it.                         *)
Symmetry == Permutations(Contents) \cup Permutations(Writers) \cup Permutations(Admins)
=============================================================================
