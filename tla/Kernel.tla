------------------------------- MODULE Kernel -------------------------------
(***************************************************************************)
(* The two-party agreement kernel of internal/nexum (agreement.go,         *)
(* room.go, token.go, checkpoint.go) and the encrypted ledger it settles   *)
(* on (internal/settle/encsum.go over internal/he/paillier.go), as         *)
(* operators on one agreement record.                                      *)
(*                                                                         *)
(* Every method M of the code is a pair: CanM(a, ...) is the conjunction   *)
(* of its checks, DoM(a, ...) the agreement it leaves behind.  A method    *)
(* whose checks fail returns an error and changes nothing.                 *)
(*                                                                         *)
(* Abstractions of data.  A receipt hash stands for the whole chain up to  *)
(* it (SHA-256 is taken to be injective), so the head of an agreement is   *)
(* its receipt sequence.  A Paillier ciphertext is the triple of the key   *)
(* it was made under, its plaintext and the set of blinding factors        *)
(* multiplied into it; a blinding factor is never drawn twice.  CostUSD    *)
(* and BudgetUSD matter only through the comparison append makes: over.    *)
(***************************************************************************)
EXTENDS Integers, Sequences, SequencesExt

CONSTANTS
    Party,          \* every identity that may call a method
    Buyer, Seller,  \* the two parties of the agreement
    Nobody,         \* ReleasedTo before value is released
    Amount,         \* the committed amount, in integer units
    MaxSteps,       \* Meter.MaxSteps after openAgreement's default
    Key,            \* Paillier key pairs NewEncryptedLedger may mint
    Rand,           \* blinding factors (units modulo n)
    NoLedger,       \* Sealed = nil
    NoCipher,       \* SealedSum = nil
    Citation,       \* nonempty citations
    NoText,         \* the empty string, and fixed wording no check reads
    Symbol,         \* nonempty unit symbols
    NoUnit,         \* Unit{}
    SecondTicks     \* clock ticks per second: RFC3339 drops the fraction

ASSUME PartyAssumption ==
    Buyer \in Party /\ Seller \in Party /\ Buyer # Seller /\ Nobody \notin Party

ASSUME TermsAssumption ==
    /\ Amount \in Nat \ {0}
    /\ MaxSteps \in 1 .. 128        \* RestorePrivate refuses more than 128
    /\ SecondTicks \in Nat \ {0}

ASSUME NothingAssumption ==
    /\ NoCipher \notin [key : Key, m : Nat, rs : SUBSET Rand]
    /\ NoLedger \notin [key : Key, rs : Seq(Rand)]
    /\ NoText \notin Citation
    /\ NoUnit \notin Symbol

NoTime == -1                    \* the zero time.Time, a nil *time.Time

Status == {"open", "locked", "accepted", "rejected", "expired"}
TerminalStatus == {"accepted", "rejected", "expired"}
Cipher == [key : Key, m : Nat, rs : SUBSET Rand]
Ledger == [key : Key, rs : Seq(Rand)]

(***************************************************************************)
(* The encrypted ledger: EncryptedLedger{p, rs} and Paillier ciphertexts.  *)
(***************************************************************************)
NewEncryptedLedger(k) == [key |-> k, rs |-> <<>>]

Encrypt(l, m, r) == [key |-> l.key, m |-> m, rs |-> {r}]

(* Mutant: the newest factor is put in front. *)
RememberFirst(l, r) == [l EXCEPT !.rs = <<r>> \o @]

(* SealLock remembers the factor it blinded with, in order. *)
Remember(l, r) == [l EXCEPT !.rs = Append(@, r)]

(* Homomorphic addition adds plaintexts and multiplies blinding factors. *)
Add(c, d) == [c EXCEPT !.m = @ + d.m, !.rs = @ \cup d.rs]

(* Aggregate fails closed on no locks: there is no sum to store. *)
Aggregate(sealed) ==
    IF sealed = <<>> THEN NoCipher ELSE FoldLeft(Add, sealed[1], Tail(sealed))

(* A transcript verifies exactly when the ciphertext encrypts m under this *)
(* key with the product of the remembered factors as its randomness.       *)
ProvesEqual(l, c, m) ==
    /\ l.rs # <<>>
    /\ c.key = l.key
    /\ c.m = m
    /\ c.rs = ToSet(l.rs)

(***************************************************************************)
(* Receipts and metering.                                                  *)
(***************************************************************************)
Terminal(a) == a.status \in TerminalStatus
IsParty(actor) == actor \in {Buyer, Seller}
IsSealed(a) == a.sealed # NoLedger

CanAppend(a) == a.steps < MaxSteps /\ ~a.over

DoAppend(a, actor, action, note, now) ==
    [a EXCEPT !.receipts = Append(@, [action |-> action, actor |-> actor,
                                      at |-> now, note |-> note]),
              !.steps = @ + 1]

OpenAgreement(now) ==
    DoAppend([status |-> "open", unit |-> NoUnit, over |-> FALSE,
              deadline |-> NoTime, createdAt |-> now, lockedAt |-> NoTime,
              closedAt |-> NoTime, releasedTo |-> Nobody,
              receipts |-> <<>>, steps |-> 0,
              sealed |-> NoLedger, locks |-> <<>>, sum |-> NoCipher],
             Buyer, "open", NoText, now)

(***************************************************************************)
(* The methods.                                                            *)
(***************************************************************************)
WithUnit(a, symbol) == [a EXCEPT !.unit = symbol]

CanLock(a, actor) == actor = Buyer /\ a.status = "open" /\ CanAppend(a)

DoLock(a, actor, now) ==
    [DoAppend(a, actor, "lock", NoText, now)
        EXCEPT !.lockedAt = now, !.status = "locked"]

CanStartSealed(a) == a.status = "open"

DoStartSealed(a, k) == [a EXCEPT !.sealed = NewEncryptedLedger(k)]

(* Mutant: SealLock takes any amount. *)
CanStageAnyAmount(a, actor, partial, r) ==
    actor = Buyer /\ ~Terminal(a) /\ IsSealed(a) /\ r \notin ToSet(a.sealed.rs)

(* sealLock up to its append: the buyer's positive partial is encrypted   *)
(* with a fresh factor on a clone of the ledger.                           *)
CanStageSeal(a, actor, partial, r) ==
    /\ actor = Buyer
    /\ ~Terminal(a)
    /\ IsSealed(a)
    /\ partial > 0
    /\ r \notin ToSet(a.sealed.rs)

CanSealLock(a, actor, partial, r) == CanStageSeal(a, actor, partial, r) /\ CanAppend(a)

(* Mutant: the seal receipt carries the new aggregate, not the partial. *)
DoSealLockNotingSum(a, actor, partial, r, now) ==
    LET locks == Append(a.locks, Encrypt(a.sealed, partial, r))
    IN  [DoAppend(a, actor, "seal", Aggregate(locks), now)
            EXCEPT !.sealed = Remember(@, r), !.locks = locks,
                   !.sum = Aggregate(locks),
                   !.status = "locked", !.lockedAt = now]

DoSealLock(a, actor, partial, r, now) ==
    LET ct == Encrypt(a.sealed, partial, r)
        locks == Append(a.locks, ct)
    IN  [DoAppend(a, actor, "seal", ct, now)
            EXCEPT !.sealed = Remember(@, r), !.locks = locks,
                   !.sum = Aggregate(locks),
                   !.status = "locked", !.lockedAt = now]

(* Mutant: direct Accept does not ask for the equality proof. *)
CanAcceptUnproved(a, actor) ==
    actor = Seller /\ a.status = "locked" /\ CanAppend(a)

(* Accept dispatches on isSealed; only the sealed path checks the proof    *)
(* and drops the sum.                                                      *)
CanAccept(a, actor) ==
    /\ actor = Seller
    /\ a.status = "locked"
    /\ IsSealed(a) => a.locks # <<>> /\ ProvesEqual(a.sealed, a.sum, Amount)
    /\ CanAppend(a)

(* Mutant: the aggregate is kept after release. *)
DoAcceptKeepingSum(a, actor, now) ==
    [DoAppend(a, actor, "accept", NoText, now)
        EXCEPT !.closedAt = now, !.releasedTo = Seller, !.status = "accepted"]

DoAccept(a, actor, now) ==
    [DoAppend(a, actor, "accept", NoText, now)
        EXCEPT !.closedAt = now, !.releasedTo = Seller, !.status = "accepted",
               !.sum = IF IsSealed(a) THEN NoCipher ELSE @]

(* Mutant: either party may return locked value. *)
CanRejectByEither(a, actor) == IsParty(actor) /\ a.status = "locked" /\ CanAppend(a)

CanReject(a, actor) == actor = Seller /\ a.status = "locked" /\ CanAppend(a)

DoReject(a, actor, now) ==
    [DoAppend(a, actor, "reject", NoText, now)
        EXCEPT !.closedAt = now, !.releasedTo = Buyer, !.status = "rejected"]

CanSetDeadline(a, actor, deadline, now) ==
    IsParty(actor) /\ ~Terminal(a) /\ deadline > now /\ CanAppend(a)

(* The receipt carries the deadline formatted as RFC3339: whole seconds. *)
DeadlineNote(deadline) == [second |-> deadline \div SecondTicks]

(* Mutant: the receipt is written but an earlier deadline stays in force. *)
DoSetDeadlineOnce(a, actor, deadline, now) ==
    [DoAppend(a, actor, "deadline", DeadlineNote(deadline), now)
        EXCEPT !.deadline = IF @ = NoTime THEN deadline ELSE @]

DoSetDeadline(a, actor, deadline, now) ==
    [DoAppend(a, actor, "deadline", DeadlineNote(deadline), now)
        EXCEPT !.deadline = deadline]

(* Mutant: expiry does not wait for the deadline. *)
CanExpireEarly(a, actor, now) ==
    /\ IsParty(actor) /\ a.status \in {"open", "locked"}
    /\ a.deadline # NoTime /\ CanAppend(a)

CanExpire(a, actor, now) ==
    /\ IsParty(actor)
    /\ a.status \in {"open", "locked"}
    /\ a.deadline # NoTime
    /\ now >= a.deadline
    /\ CanAppend(a)

DoExpire(a, actor, now) ==
    [DoAppend(a, actor, "expire", NoText, now)
        EXCEPT !.closedAt = now, !.releasedTo = Buyer, !.status = "expired"]

CanNote(a, actor, citation) ==
    IsParty(actor) /\ ~Terminal(a) /\ citation # NoText /\ CanAppend(a)

DoNote(a, actor, citation, now) == DoAppend(a, actor, "evidence", citation, now)

(* AcceptWithEvidence runs Note and Accept on a copy, and keeps the copy   *)
(* only if both succeed.                                                   *)
CanAcceptWithEvidence(a, author, actor, citation, now) ==
    /\ CanNote(a, author, citation)
    /\ CanAccept(DoNote(a, author, citation, now), actor)

DoAcceptWithEvidence(a, author, actor, citation, now) ==
    DoAccept(DoNote(a, author, citation, now), actor, now)

(***************************************************************************)
(* RestorePrivate's verdict on the private checkpoint of an agreement.     *)
(***************************************************************************)
MomentsMatchStatus(a) ==
    CASE a.status = "open" ->
            a.lockedAt = NoTime /\ a.closedAt = NoTime /\ a.releasedTo = Nobody
      [] a.status = "locked" ->
            a.lockedAt # NoTime /\ a.closedAt = NoTime /\ a.releasedTo = Nobody
      [] a.status = "accepted" ->
            a.lockedAt # NoTime /\ a.closedAt # NoTime /\ a.releasedTo = Seller
      [] a.status = "rejected" ->
            a.lockedAt # NoTime /\ a.closedAt # NoTime /\ a.releasedTo = Buyer
      [] a.status = "expired" ->
            a.closedAt # NoTime /\ a.releasedTo = Buyer

SumMatchesLocks(a) ==
    IF ~IsSealed(a) THEN a.locks = <<>> /\ a.sum = NoCipher
    ELSE /\ Len(a.sealed.rs) = Len(a.locks)
         /\ a.sum = IF a.status = "accepted" THEN NoCipher ELSE Aggregate(a.locks)

RestorePrivate(a) ==
    /\ a.steps = Len(a.receipts) /\ a.steps \in 1 .. MaxSteps
    /\ MomentsMatchStatus(a)
    /\ SumMatchesLocks(a)

(***************************************************************************)
(* What holds of one agreement, for the invariants of the modules that     *)
(* keep one.                                                               *)
(***************************************************************************)
Action == {"open", "lock", "seal", "accept", "reject", "deadline", "expire", "evidence"}
TerminalAction == {"accept", "reject", "expire"}
LockAction == {"lock", "seal"}

AgreementRecord(notes, sums) ==
    [status : Status, unit : Symbol \cup {NoUnit}, over : BOOLEAN,
     deadline : Nat \cup {NoTime}, createdAt : Nat,
     lockedAt : Nat \cup {NoTime}, closedAt : Nat \cup {NoTime},
     releasedTo : {Nobody, Buyer, Seller},
     receipts : Seq([action : Action, actor : Party, at : Nat, note : notes]),
     steps : Nat,
     sealed : Ledger \cup {NoLedger}, locks : Seq(Cipher), sum : sums]

(* Its aggregate is absent or is that of its own locks. *)
WellTyped(a, notes) == a \in AgreementRecord(notes, {NoCipher, Aggregate(a.locks)})

LastReceipt(a) == a.receipts[Len(a.receipts)]

(* Outcome, closing time and payee can be read off the last receipt. *)
ClosedBy(a, action, payee) ==
    /\ LastReceipt(a).action = action
    /\ LastReceipt(a).at = a.closedAt
    /\ a.releasedTo = payee

OutcomeOnChain(a) ==
    /\ \A i \in 1 .. Len(a.receipts) :
          a.receipts[i].action \in TerminalAction => Terminal(a) /\ i = Len(a.receipts)
    /\ a.status = "accepted" => ClosedBy(a, "accept", Seller) /\ LastReceipt(a).actor = Seller
    /\ a.status = "rejected" => ClosedBy(a, "reject", Buyer) /\ LastReceipt(a).actor = Seller
    /\ a.status = "expired" => ClosedBy(a, "expire", Buyer) /\ LastReceipt(a).at >= a.deadline

ValuePlaced(a) == \E i \in 1 .. Len(a.receipts) : a.receipts[i].action \in LockAction

LockOnChain(a) == a.status # "expired" => (a.status # "open" <=> ValuePlaced(a))

ProvablyFunded(a) ==
    a.status = "accepted" /\ IsSealed(a) => ProvesEqual(a.sealed, Aggregate(a.locks), Amount)

(* The same told without the aggregate: counted one after another, the     *)
(* partials arrive at the amount.                                          *)
PartialsAddUp(a) ==
    a.status = "accepted" /\ IsSealed(a) =>
        \E total \in [0 .. Len(a.locks) -> 0 .. Amount] :
            /\ total[0] = 0 /\ total[Len(a.locks)] = Amount
            /\ \A i \in 1 .. Len(a.locks) : total[i] = total[i - 1] + a.locks[i].m

FactorsMatchLocks(a) ==
    IsSealed(a) =>
        /\ Len(a.sealed.rs) = Len(a.locks)
        /\ \A i \in 1 .. Len(a.locks) :
              a.locks[i].rs = {a.sealed.rs[i]} /\ a.locks[i].key = a.sealed.key
=============================================================================
