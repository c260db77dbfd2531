---- MODULE MCContract ----
(* Contract on a small instance: window [1, 4), times on both sides of it. *)
EXTENDS Contract
CSymmetry == Permutations(Rand)
====
