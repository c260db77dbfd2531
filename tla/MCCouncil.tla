----------------------------- MODULE MCCouncil ------------------------------
(* Three parties and an outsider, no, one or two requirements with every    *)
(* choice of holders.                                                       *)
EXTENDS Council, TLC
Symmetry == Permutations(Member) \cup Permutations(Req) \cup Permutations(Citation)
=============================================================================
