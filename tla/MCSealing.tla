---- MODULE MCSealing ----
(* Sealing on a small instance: four nonces with at most one zero bit, up  *)
(* to three workers; every list of up to four commitments as the input of  *)
(* one worker, a few lists for several workers.                            *)
EXTENDS Sealing, TLC
CONSTANTS a1, a2, p1, p2
SomeCommitments == [seq : 1 .. 2, rest : {"x"}] \cup [seq : {2, 3}, rest : {"y"}]
c(k, x) == [seq |-> k, rest |-> x]
Job == [height |-> 0, parent |-> p1, bits |-> 1, workers |-> 1]
With(kind, input) == [kind |-> kind, input |-> input] @@ Job
ReceiptJobs ==
    LET three == With("receipts", <<c(1, "x"), c(2, "y"), c(3, "y")>>)
    IN  {With("receipts", cs) : cs \in Lists}
          \cup {[three EXCEPT !.workers = k] : k \in 2 .. 3}
          \cup {[three EXCEPT !.bits = b] : b \in {-1, 0, 25, 65}}
AgreementJobs ==
    {[With("agreements", as) EXCEPT !.workers = 2, !.bits = b] :
        as \in {<<>>, <<a1>>, <<a1, a2>>, <<a1, Nil>>}, b \in {-1, 0, 1, 65}}
SettleJobs == {[With("settle", cs) EXCEPT !.height = h] : cs \in Lists, h \in 0 .. 1}
SomeJobs == ReceiptJobs \cup AgreementJobs \cup SettleJobs
====
