---- MODULE MCStore ----
(* Store on a small instance: two handles, one contract, at most MaxCalls  *)
(* calls and MaxFaults faults.                                             *)
EXTENDS Store
StSymmetry == Permutations(Proc) \cup Permutations(OpID)
                \cup Permutations(Rand) \cup Permutations(Key)
====
