------------------------------ MODULE Commands ------------------------------
(***************************************************************************)
(* The signed commands of the public client (nex/contract.go) as operators *)
(* on one contract record [agreement, agreed], and the replay check of the *)
(* stored form of a contract (restore in nex/store.go).                    *)
(*                                                                         *)
(* A signature is the pair of who signed and what was signed; Verify       *)
(* compares both, so nobody signs for somebody else.                       *)
(***************************************************************************)
EXTENDS Kernel, FiniteSets

CONSTANTS
    ContractID,         \* the hash of this contract's terms
    Created, Deadline   \* the time window in the terms

(* What New makes sure of: the window is not empty, and a contract, which  *)
(* writes at most six receipts, has room for them (New gives it 128 steps).*)
ProperTerms ==
    Created \in Nat /\ Deadline \in Nat /\ Created < Deadline /\ MaxSteps >= 6

(* New opens the agreement, records the deadline and arms the ledger. *)
NewContract(k) ==
    [agreement |->
        DoStartSealed(DoSetDeadline(OpenAgreement(Created), Buyer, Deadline, Created), k),
     agreed |-> FALSE]

HeadOf(c) == c.agreement.receipts

(* Mutant: the buyer's signature is enough for everything. *)
SignerIsBuyer(action) == Buyer

(* Who must sign an action. *)
Signer(action) == IF action \in {"agree", "reject"} THEN Seller ELSE Buyer

Verify(party, body, sig) == sig.by = party /\ sig.body = body

InWindow(c, now) == c.agreement.createdAt <= now /\ now < c.agreement.deadline

ConsentNote(sig) == [consent |-> sig]

(***************************************************************************)
(* applyVerified: the checks of one command, then its effect.  r is the    *)
(* blinding factor a lock draws.                                           *)
(***************************************************************************)
(* Mutant: the time window is checked before expire is dispatched. *)
CanApplyInWindow(c, cmd, sig, r, now) ==
    LET a == c.agreement
    IN  /\ cmd.terms = ContractID /\ cmd.head = HeadOf(c) /\ InWindow(c, now)
        /\ \/ cmd.action = "expire" /\ CanExpire(a, Buyer, now)
           \/ cmd.action = "lock" /\ a.status = "open" /\ CanSealLock(a, Buyer, Amount, r)

CanApplyVerified(c, cmd, sig, r, now) ==
    LET a == c.agreement
    IN  /\ cmd.terms = ContractID
        /\ cmd.head = HeadOf(c)
        /\ \/ cmd.action = "expire" /\ CanExpire(a, Buyer, now)
           \/ /\ InWindow(c, now)
              /\ \/ /\ cmd.action = "lock" /\ a.status = "open"
                    /\ CanSealLock(a, Buyer, Amount, r)
                 \/ /\ cmd.action = "agree" /\ a.status = "locked" /\ ~c.agreed
                    /\ CanNote(a, Seller, ConsentNote(sig))
                 \/ /\ cmd.action = "settle" /\ c.agreed
                    /\ cmd.evidence # NoText /\ a.status = "locked"
                    /\ CanAcceptWithEvidence(a, Buyer, Seller, cmd.evidence, now)
                 \/ cmd.action = "reject" /\ CanReject(a, Seller)

(* Mutant: lock seals one unit instead of the whole amount. *)
DoApplyPartialLock(c, cmd, sig, r, now) ==
    [c EXCEPT !.agreement = CASE cmd.action = "lock" -> DoSealLock(@, Buyer, 1, r, now)
                              [] cmd.action = "reject" -> DoReject(@, Seller, now)
                              [] cmd.action = "expire" -> DoExpire(@, Buyer, now)
                              [] OTHER -> @]

DoApplyVerified(c, cmd, sig, r, now) ==
    LET a == c.agreement
    IN  CASE cmd.action = "expire" -> [c EXCEPT !.agreement = DoExpire(a, Buyer, now)]
          [] cmd.action = "lock" ->
                [c EXCEPT !.agreement = DoSealLock(a, Buyer, Amount, r, now)]
          [] cmd.action = "agree" ->
                [c EXCEPT !.agreement = DoNote(a, Seller, ConsentNote(sig), now),
                          !.agreed = TRUE]
          [] cmd.action = "settle" ->
                [c EXCEPT !.agreement =
                    DoAcceptWithEvidence(a, Buyer, Seller, cmd.evidence, now)]
          [] cmd.action = "reject" -> [c EXCEPT !.agreement = DoReject(a, Seller, now)]

(***************************************************************************)
(* restore: a stored contract is accepted only when its committed          *)
(* operations account for its receipts one after the other, from the third *)
(* receipt to the last, and reproduce its status and consent.              *)
(*                                                                         *)
(* An entry is [command, sig, head, status]: the signed command with the   *)
(* head and status of its result.                                          *)
(***************************************************************************)
(* The entry found at the head of i receipts accounts for the next ones. *)
Explains(e, a, i, status, consent) ==
    LET r == a.receipts[i + 1]
    IN  \/ /\ e.command.action = "lock" /\ status = "open"
           /\ r.action = "seal" /\ r.actor = Buyer /\ e.status = "locked"
        \/ /\ e.command.action = "agree" /\ status = "locked" /\ ~consent
           /\ r.action = "evidence" /\ r.actor = Seller /\ r.note = ConsentNote(e.sig)
           /\ e.status = "locked"
        \/ /\ e.command.action = "settle" /\ status = "locked" /\ consent
           /\ r.action = "evidence" /\ r.actor = Buyer /\ r.note = e.command.evidence
           /\ i + 1 < Len(a.receipts)
           /\ a.receipts[i + 2].action = "accept" /\ a.receipts[i + 2].actor = Seller
           /\ e.status = "accepted"
        \/ /\ e.command.action = "reject" /\ status = "locked"
           /\ r.action = "reject" /\ r.actor = Seller /\ e.status = "rejected"
        \/ /\ e.command.action = "expire" /\ status \in {"open", "locked"}
           /\ r.action = "expire" /\ r.actor = Buyer /\ e.status = "expired"

(* Mutant: replay forgets that a settlement left two receipts. *)
OneReceiptOf(action) == 1

ReceiptsOf(action) == IF action = "settle" THEN 2 ELSE 1

(* The loop as the entries it visits.  Where it stands before turn k is    *)
(* told by the entries of the turns before.                                *)
At(visited, k) == IF k = 1 THEN 2 ELSE Len(visited[k - 1].head)
StatusAt(visited, k) == IF k = 1 THEN "open" ELSE visited[k - 1].status
ConsentAt(visited, k) == \E j \in 1 .. k - 1 : visited[j].command.action = "agree"

Visits(visited, k, a) ==
    LET e == visited[k]
        i == At(visited, k)
    IN  /\ i < Len(a.receipts)
        /\ e.command.head = SubSeq(a.receipts, 1, i)
        /\ Explains(e, a, i, StatusAt(visited, k), ConsentAt(visited, k))
        /\ e.head = SubSeq(a.receipts, 1, i + ReceiptsOf(e.command.action))

Replays(c, entries) ==
    LET used == Cardinality(entries)
    IN  \E visited \in [1 .. used -> entries] :
            /\ \A k \in 1 .. used : Visits(visited, k, c.agreement)
            /\ At(visited, used + 1) = Len(c.agreement.receipts)
            /\ StatusAt(visited, used + 1) = c.agreement.status
            /\ ConsentAt(visited, used + 1) = c.agreed

Restores(c, entries) ==
    LET a == c.agreement
    IN  /\ RestorePrivate(a)
        /\ a.createdAt = Created /\ a.deadline = Deadline /\ IsSealed(a)
        /\ \A e \in entries :
              /\ e.command.terms = ContractID
              /\ e.sig.by = Signer(e.command.action)
              /\ \A f \in entries : e.command.head = f.command.head => e = f
        /\ Len(a.receipts) >= 2
        /\ a.receipts[1].action = "open" /\ a.receipts[2].action = "deadline"
        /\ Replays(c, entries)
=============================================================================
