----------------------------- MODULE MCAccounts -----------------------------
EXTENDS Accounts, TLC

(* The values of these sets are interchangeable. *)
Symmetry == Permutations(Users)
            \cup Permutations(Handlers) \cup Permutations(Subjects)
=============================================================================
