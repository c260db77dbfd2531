------------------------------ MODULE Sealing -------------------------------
(***************************************************************************)
(* Sealing a batch: the root of what goes into it (internal/l2 batch.go    *)
(* and receipts.go, internal/settle batch.go) and the proof-of-work search *)
(* of internal/pow by several workers that share a found nonce and a flag; *)
(* then the verifiers of internal/l2.  Agreements are shared by pointer,   *)
(* so they may move on while the workers search.                           *)
(*                                                                         *)
(* A hash is the tuple it is taken of.  How many leading zero bits each    *)
(* nonce gives the header being sealed is chosen at the start; a header    *)
(* with another parent or root is never hashed.                            *)
(***************************************************************************)
EXTENDS Integers, Sequences, FiniteSets

CONSTANTS
    Nonces,     \* number of nonces, 2^64 in the code
    MaxZeros,   \* most leading zero bits a hash has
    Commitment, \* receipt commitments: a sequence number and the rest
    MaxLen,     \* bound on the lists batches are compared with
    Agreements, \* the agreements of a batch, shared with their owners
    MaxTail,    \* bound on the receipts of an agreement
    MaxWorkers, \* bound on the workers of a search
    Nil,        \* a missing agreement, an absent batch
    Parents,    \* hashes of earlier headers
    Jobs        \* the calls explored

ASSUME SealingAssumption ==
    Nonces \in Nat \ {0} /\ MaxZeros \in Nat /\ MaxLen \in Nat /\ MaxTail \in Nat \ {0}

(* What the Go types of a call allow.  pow.Search replaces a count of      *)
(* workers that is not positive, and an int counts fewer of them than a    *)
(* uint64 has nonces.                                                      *)
ASSUME JobsAssumption ==
    /\ \A c \in Commitment : c.seq \in Int
    /\ \A j \in Jobs :
          /\ j.kind \in {"receipts", "agreements", "settle"}
          /\ j.bits \in Int /\ j.workers \in 1 .. Nonces
          /\ j.input \in Seq(IF j.kind = "agreements" THEN Agreements \cup {Nil} ELSE Commitment)

VARIABLES
    job,        \* the call: kind, input, bits, parent, workers
    live,       \* terms and receipt tail of each agreement
    zeros,      \* leading zero bits of the header's hash, by nonce
    phase,      \* "called", "refused", "searching", "failed" or "done"
    header,     \* the header being sealed
    pc, n,      \* where each worker stands, and its nonce
    found, ok,  \* the shared atomics
    batch,      \* what the call returned
    rooted      \* the agreements as they were when rooted (history)

searchVars == <<pc, n, found, ok>>
sealVars == <<job, live, zeros, phase, header, pc, n, found, ok, batch, rooted>>

(***************************************************************************)
(* Roots.                                                                  *)
(***************************************************************************)
(* One layer up: pairs are hashed, an odd last node is paired with itself. *)
Pairs(layer) ==
    IF Len(layer) = 1 THEN layer
    ELSE [i \in 1 .. (Len(layer) + 1) \div 2 |->
            <<"node", layer[2 * i - 1],
              IF 2 * i <= Len(layer) THEN layer[2 * i] ELSE layer[2 * i - 1]>>]

(* The layers of the tree; once one node is left the layers repeat it.     *)
Layers(leaves) ==
    LET up[k \in 0 .. Len(leaves)] == IF k = 0 THEN leaves ELSE Pairs(up[k - 1])
    IN  up

Merkle(leaves) == Layers(leaves)[Len(leaves)][1]

Leaf(c) == <<"leaf", c>>

MaxReceipts == 4096

(* Mutant: a sequence number may repeat. *)
CanRootRepeated(cs) ==
    /\ cs # <<>> /\ Len(cs) <= MaxReceipts
    /\ \A i \in DOMAIN cs : cs[i].seq >= IF i = 1 THEN 1 ELSE cs[i - 1].seq

(* Sequence numbers are positive and strictly increase. *)
CanRoot(cs) ==
    /\ cs # <<>> /\ Len(cs) <= MaxReceipts
    /\ \A i \in DOMAIN cs : cs[i].seq > IF i = 1 THEN 0 ELSE cs[i - 1].seq

ReceiptRoot(cs) == Merkle([i \in DOMAIN cs |-> Leaf(cs[i])])

(* settle.Root takes any list, also the empty one, and sets leaves apart   *)
(* from nodes by nothing: a leaf is the hash itself.  Receipt hashes are   *)
(* hex, so each decodes to its own bytes.                                  *)
SettleRoot(hashes) == IF hashes = <<>> THEN <<"empty">> ELSE Merkle(hashes)

(* What l2.Root folds: of each agreement its terms digest, which covers    *)
(* its ID, and its last receipt.                                           *)
Folded(as, at) == [i \in DOMAIN as |-> <<as[i], at[as[i]].terms, at[as[i]].tail>>]

(* Every agreement has a receipt; its chain verifies because the kernel    *)
(* wrote it.                                                               *)
CanFold(as) == \A i \in DOMAIN as : as[i] # Nil

Valid(h) == h.bits >= 0 /\ zeros[h.nonce] >= h.bits

(***************************************************************************)
(* The verifiers.                                                          *)
(***************************************************************************)
VerifyReceiptBatch(b, parent, minBits) ==
    /\ CanRoot(b.input)
    /\ minBits >= 1 /\ b.header.bits >= minBits /\ b.header.parent = parent
    /\ b.header.root = ReceiptRoot(b.input)
    /\ Valid(b.header)

Verify(as, at, h, minBits) ==
    /\ h.bits >= minBits /\ CanFold(as) /\ h.root = Folded(as, at) /\ Valid(h)

(***************************************************************************)
(* The calls.                                                              *)
(***************************************************************************)
SealInit ==
    /\ job \in Jobs
    /\ zeros \in [0 .. Nonces - 1 -> 0 .. MaxZeros]
    /\ live = [a \in Agreements |-> [terms |-> 0, tail |-> 1]]
    /\ phase = "called" /\ header = Nil /\ batch = Nil /\ rooted = Nil
    /\ pc = <<>> /\ n = <<>> /\ found = Nonces - 1 /\ ok = FALSE

Accepts ==
    /\ job.bits \in 0 .. 64
    /\ CASE job.kind = "receipts" -> job.bits \in 1 .. 24 /\ CanRoot(job.input)
         [] job.kind = "agreements" -> CanFold(job.input)

Root == IF job.kind = "receipts" THEN ReceiptRoot(job.input) ELSE Folded(job.input, live)

(* SealReceipts and Seal up to the loop of pow.Search that starts the      *)
(* workers; Seal leaves the parent zero.                                   *)
StartSeal ==
    /\ phase = "called" /\ job.kind \in {"receipts", "agreements"}
    /\ IF Accepts
       THEN /\ phase' = "searching"
            /\ header' = [parent |-> job.parent, root |-> Root, bits |-> job.bits]
            /\ rooted' = live
            /\ pc' = [w \in 0 .. job.workers - 1 |-> "poll"]
            /\ n' = [w \in 0 .. job.workers - 1 |-> w]
            /\ UNCHANGED <<found, ok>>
       ELSE phase' = "refused" /\ UNCHANGED <<header, rooted, searchVars>>
    /\ UNCHANGED <<job, live, zeros, batch>>

(* settle.Commit builds its batch without work. *)
Commit ==
    /\ phase = "called" /\ job.kind = "settle"
    /\ phase' = "done"
    /\ batch' = [height |-> IF job.height = 0 THEN 1 ELSE job.height,
                 root |-> SettleRoot(job.input), input |-> job.input]
    /\ UNCHANGED <<job, live, zeros, header, searchVars, rooted>>

(***************************************************************************)
(* The workers of pow.Search.                                              *)
(***************************************************************************)
Goto(w, label) == pc' = [pc EXCEPT ![w] = label]

(* Mutant: the flag is not polled. *)
PollNothing(w) ==
    /\ pc[w] = "poll" /\ Goto(w, "test")
    /\ UNCHANGED <<job, live, zeros, phase, header, n, found, ok, batch, rooted>>

Poll(w) ==
    /\ pc[w] = "poll" /\ Goto(w, IF ok THEN "returned" ELSE "test")
    /\ UNCHANGED <<job, live, zeros, phase, header, n, found, ok, batch, rooted>>

(* The nonce wraps around at its width. *)
Test(w) ==
    /\ pc[w] = "test"
    /\ IF zeros[n[w]] >= job.bits
       THEN Goto(w, "store") /\ n' = n
       ELSE Goto(w, "poll") /\ n' = [n EXCEPT ![w] = (@ + job.workers) % Nonces]
    /\ UNCHANGED <<job, live, zeros, phase, header, found, ok, batch, rooted>>

(* Mutant: the worker has advanced its nonce already. *)
StoreNext(w) ==
    /\ pc[w] = "store" /\ Goto(w, "flag")
    /\ found' = (n[w] + job.workers) % Nonces
    /\ UNCHANGED <<job, live, zeros, phase, header, n, ok, batch, rooted>>

StoreFound(w) ==
    /\ pc[w] = "store" /\ Goto(w, "flag")
    /\ found' = n[w]
    /\ UNCHANGED <<job, live, zeros, phase, header, n, ok, batch, rooted>>

StoreFlag(w) ==
    /\ pc[w] = "flag" /\ Goto(w, "returned")
    /\ ok' = TRUE
    /\ UNCHANGED <<job, live, zeros, phase, header, n, found, batch, rooted>>

Worker(w) == Poll(w) \/ Test(w) \/ StoreFound(w) \/ StoreFlag(w)

(* All workers have returned; the nonce is tested once more. *)
Finish ==
    LET h == [parent |-> header.parent, root |-> header.root, bits |-> header.bits,
              nonce |-> found]
    IN  /\ phase = "searching" /\ \A w \in DOMAIN pc : pc[w] = "returned"
        /\ IF Valid(h)
           THEN phase' = "done" /\ batch' = [input |-> job.input, header |-> h]
           ELSE phase' = "failed" /\ UNCHANGED batch
        /\ UNCHANGED <<job, live, zeros, header, searchVars, rooted>>

(* The owner of an agreement calls the kernel: a receipt, changed terms    *)
(* (a unit) or both (a deadline).                                          *)
Move(a) ==
    /\ phase # "called" /\ job.kind = "agreements" /\ \E i \in DOMAIN job.input : job.input[i] = a
    /\ \E terms \in {live[a].terms, 1}, tail \in {live[a].tail, live[a].tail + 1} :
          tail <= MaxTail /\ live' = [live EXCEPT ![a] = [terms |-> terms, tail |-> tail]]
    /\ UNCHANGED <<job, zeros, phase, header, searchVars, batch, rooted>>

SealNext ==
    \/ StartSeal
    \/ Commit
    \/ \E w \in DOMAIN pc : Worker(w)
    \/ Finish
    \/ \E a \in Agreements : Move(a)

(* Goroutines are scheduled preemptively, so each worker keeps going, and  *)
(* wg.Wait returns once all of them have.                                  *)
SealSpec ==
    /\ SealInit /\ [][SealNext]_sealVars
    /\ WF_sealVars(Finish)
    /\ \A w \in 0 .. MaxWorkers - 1 : WF_sealVars(w \in DOMAIN pc /\ Worker(w))

-----------------------------------------------------------------------------
(* Whatever the interleaving of the workers, also when several of them     *)
(* find a nonce and overwrite each other's, the search does not fail, and  *)
(* the batch it returns passes the verifier for its own parent at every    *)
(* floor up to its difficulty, and for no other parent or floor.           *)
SealVerifies ==
    /\ phase # "failed"
    /\ phase = "done" => \A parent \in Parents, floor \in 0 .. MaxZeros + 1 :
          /\ job.kind = "receipts" =>
                (VerifyReceiptBatch(batch, parent, floor)
                    <=> parent = job.parent /\ floor \in 1 .. job.bits)
          /\ job.kind = "agreements" =>
                (Verify(batch.input, rooted, batch.header, floor) <=> floor <= job.bits)

Lists == UNION {[1 .. len -> Commitment] : len \in 0 .. MaxLen}

(* A batch is bound to what was sealed, although a Merkle tree that pairs  *)
(* an odd last node with itself has one root for several lists: no other   *)
(* list of commitments verifies under a receipt seal, no other list of the *)
(* same length has the root of a settlement batch, and a seal over         *)
(* agreements verifies exactly for these, in this order, and as long as    *)
(* none of them has moved since the root was taken, during the search      *)
(* included.                                                               *)
BatchBinds ==
    phase = "done" =>
        CASE job.kind = "receipts" ->
                \A cs \in Lists :
                    VerifyReceiptBatch([batch EXCEPT !.input = cs], job.parent, 1)
                        <=> cs = job.input
          [] job.kind = "agreements" ->
                \A as \in UNION {[1 .. len -> Agreements \cup {Nil}] : len \in 0 .. MaxLen} :
                    Verify(as, live, batch.header, 0)
                        <=> /\ as = job.input
                            /\ \A i \in DOMAIN as : live[as[i]] = rooted[as[i]]
          [] job.kind = "settle" ->
                \A cs \in Lists : Len(cs) = Len(job.input) =>
                    (batch.root = SettleRoot(cs) <=> cs = job.input)

(* TestVerifyEmptyRoot's comment: "Verify refuses to bless an empty        *)
(* batch", and "nothing seals without barter behind it."  Were it so,      *)
(* no header that Seal returns, work included, would verify with no        *)
(* agreements.                                                             *)
EmptyBatchRefused ==
    phase = "done" /\ job.kind = "agreements" => ~Verify(<<>>, live, batch.header, 1)

(* A search that has a solution ends: every nonce is tried by some worker, *)
(* the wrap-around included, and workers that find nothing stop.           *)
SearchReturns ==
    phase = "searching" /\ (\E k \in DOMAIN zeros : zeros[k] >= job.bits) ~> phase = "done"
=============================================================================
