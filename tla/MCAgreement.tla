---- MODULE MCAgreement ----
(* Agreement on a small instance: two parties and an outsider, an amount   *)
(* that two partials can reach or overshoot, times two ticks to a second.  *)
EXTENDS Agreement
SomePartials == {-1, 1, 2}
Symmetry == Permutations(Rand) \cup Permutations(Key)
====
