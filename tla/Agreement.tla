----------------------------- MODULE Agreement ------------------------------
(***************************************************************************)
(* One in-memory agreement of internal/nexum under every sequence of       *)
(* method calls its callers can make.  The caller supplies the actor and   *)
(* the time of each call; the kernel does not order those times.  Access   *)
(* is serialized by the caller, so one call is one step.                   *)
(***************************************************************************)
EXTENDS Kernel

CONSTANTS
    Time,           \* the times callers pass as now
    Due,            \* the times callers pass as a deadline
    Partial         \* the partial amounts the buyer may seal

ASSUME TimeAssumption == Time \subseteq Nat /\ Due \subseteq Nat /\ Partial \subseteq Int

VARIABLES
    agr,            \* the Agreement
    reply           \* whether the last call returned nil or an error

vars == <<agr, reply>>

Init == reply = "ok" /\ \E now \in Time : agr = OpenAgreement(now)

Commit(next) == agr' = next /\ reply' = "ok"

Denominate(symbol) == Commit(WithUnit(agr, symbol))

(* The host owns Meter.CostUSD: spending moves it past BudgetUSD and a     *)
(* correction moves it back.                                               *)
SpendBudget == Commit([agr EXCEPT !.over = ~@])

Lock(actor, now) == CanLock(agr, actor) /\ Commit(DoLock(agr, actor, now))

StartSealed(k) == CanStartSealed(agr) /\ Commit(DoStartSealed(agr, k))

SealLock(actor, partial, r, now) ==
    CanSealLock(agr, actor, partial, r) /\ Commit(DoSealLock(agr, actor, partial, r, now))

(* sealLock refused by append after the factor was drawn: the clone of the *)
(* ledger that remembers it is dropped.                                    *)
SealLockRefused(actor, partial, r) ==
    /\ CanStageSeal(agr, actor, partial, r) /\ ~CanAppend(agr)
    /\ agr' = agr /\ reply' = "refused"

Accept(actor, now) == CanAccept(agr, actor) /\ Commit(DoAccept(agr, actor, now))

Reject(actor, now) == CanReject(agr, actor) /\ Commit(DoReject(agr, actor, now))

SetDeadline(actor, deadline, now) ==
    /\ CanSetDeadline(agr, actor, deadline, now)
    /\ Commit(DoSetDeadline(agr, actor, deadline, now))

Expire(actor, now) == CanExpire(agr, actor, now) /\ Commit(DoExpire(agr, actor, now))

Note(actor, citation, now) ==
    CanNote(agr, actor, citation) /\ Commit(DoNote(agr, actor, citation, now))

AcceptWithEvidence(author, actor, citation, now) ==
    /\ CanAcceptWithEvidence(agr, author, actor, citation, now)
    /\ Commit(DoAcceptWithEvidence(agr, author, actor, citation, now))

(* Mutant: AcceptWithEvidence works on the agreement itself, not a copy. *)
EvidenceUnstaged(author, actor, citation, now) ==
    /\ CanNote(agr, author, citation)
    /\ ~CanAccept(DoNote(agr, author, citation, now), actor)
    /\ agr' = DoNote(agr, author, citation, now) /\ reply' = "refused"

(* AcceptWithEvidence refused by Accept after Note succeeded: the copy     *)
(* that holds the evidence is dropped.                                     *)
EvidenceRefused(author, actor, citation, now) ==
    /\ CanNote(agr, author, citation)
    /\ ~CanAccept(DoNote(agr, author, citation, now), actor)
    /\ agr' = agr /\ reply' = "refused"

Next ==
    \/ \E symbol \in Symbol : Denominate(symbol)
    \/ SpendBudget
    \/ \E k \in Key : StartSealed(k)
    \/ \E actor \in Party, partial \in Partial, r \in Rand :
          \/ SealLockRefused(actor, partial, r)
          \/ \E now \in Time : SealLock(actor, partial, r, now)
    \/ \E actor \in Party, now \in Time :
          \/ Lock(actor, now)
          \/ Accept(actor, now)
          \/ Reject(actor, now)
          \/ Expire(actor, now)
          \/ \E deadline \in Due : SetDeadline(actor, deadline, now)
          \/ \E citation \in Citation \cup {NoText} :
                \/ Note(actor, citation, now)
                \/ \E author \in Party :
                      \/ AcceptWithEvidence(author, actor, citation, now)
                      \/ EvidenceRefused(author, actor, citation, now)

Spec == Init /\ [][Next]_vars

-----------------------------------------------------------------------------
Text == {NoText} \cup Citation \cup Cipher \cup [second : Nat]

(* The agreement is a record of the kernel's shape.  Its aggregate is      *)
(* absent or is the aggregate of its own locks, never a third ciphertext.  *)
TypeOK == WellTyped(agr, Text) /\ reply \in {"ok", "refused"}

(* The receipt chain alone tells how the agreement stands: a terminal      *)
(* receipt is the last one and names the outcome, its time is ClosedAt and *)
(* its meaning fixes who was paid, an expiry came no earlier than the      *)
(* deadline, and unless expired the agreement is past open exactly when    *)
(* some receipt placed value.                                              *)
ChainTellsOutcome == OutcomeOnChain(agr) /\ LockOnChain(agr)

(* Sealed value is released to the seller only when the stored partials,   *)
(* all of them and nothing else, provably add up to the committed amount,  *)
(* also when they are counted one after another instead of aggregated:     *)
(* the sum acceptSealed checked is that of the locks, not a stale one, and *)
(* nothing was sealed after it.                                            *)
FundedExactly == ProvablyFunded(agr) /\ PartialsAddUp(agr)

(* The ciphertexts that were aggregated are those on the receipt chain, in *)
(* the order they were sealed: lock k is the note of the k-th seal receipt *)
(* and there is no further one, so an auditor of the chain sees every      *)
(* partial.                                                                *)
SealsReceipted ==
    \E seal \in [1 .. Len(agr.locks) -> 1 .. Len(agr.receipts)] :
        /\ \A i, j \in DOMAIN seal : i < j => seal[i] < seal[j]
        /\ \A n \in 1 .. Len(agr.receipts) :
              agr.receipts[n].action = "seal" <=> \E k \in DOMAIN seal : seal[k] = n
        /\ \A k \in DOMAIN seal : agr.locks[k] = agr.receipts[seal[k]].note

(* Whatever was refused on the way, a locked agreement whose partials add  *)
(* up to the amount can still prove it: the blinding factors the ledger    *)
(* remembers are exactly those of the stored locks, in the same order.     *)
ProofAvailable == FactorsMatchLocks(agr)

(* PrivateCheckpoint of every agreement the methods can reach is one that  *)
(* RestorePrivate takes back.                                              *)
CheckpointRestores == RestorePrivate(agr)

(* The deadline in force is on the ledger: the last "deadline" receipt     *)
(* carries it, to the second, and there is none while it is unset.         *)
DeadlineOnLedger ==
    LET set == {i \in 1 .. Len(agr.receipts) : agr.receipts[i].action = "deadline"}
    IN  IF agr.deadline = NoTime THEN set = {}
        ELSE \E i \in set : /\ \A j \in set : j <= i
                            /\ agr.receipts[i].note = DeadlineNote(agr.deadline)

(* No call rewrites or drops a receipt, and no call changes a material     *)
(* term without one: status, deadline, locks, payee and closing time move  *)
(* only together with a longer chain.  A closed agreement is closed for    *)
(* good: nothing but its meter and its unit changes.  And a call that      *)
(* fails half way, a settlement whose proof or metering fails after its    *)
(* evidence was recorded or a seal whose receipt is refused after its      *)
(* factor was drawn, leaves chain, meter and factors as they were.         *)
Material(a) == <<a.status, a.deadline, a.locks, a.sum, a.lockedAt, a.closedAt,
                 a.releasedTo, a.steps>>

NoSilentChange ==
    [][ /\ IsPrefix(agr.receipts, agr'.receipts)
        /\ Material(agr') # Material(agr) => IsStrictPrefix(agr.receipts, agr'.receipts)
        /\ Terminal(agr) =>
              Material(agr') = Material(agr) /\ agr'.sealed = agr.sealed
        /\ reply' = "refused" => agr' = agr
      ]_vars

(* After lock the buyer cannot unwind: locked value goes to the seller by  *)
(* the seller's acceptance, or back by the seller's rejection or because   *)
(* the deadline in force when the call came had been reached.              *)
NoTakeback ==
    [][ agr.status = "locked" /\ agr'.status # "locked" =>
          \/ agr'.status \in {"accepted", "rejected"}
             /\ agr'.receipts[Len(agr'.receipts)].actor = Seller
          \/ agr'.status = "expired" /\ agr.deadline # NoTime
             /\ agr'.closedAt >= agr.deadline
      ]_vars

(* SetDeadline's comment: "Either party may set or extend it".             *)
DeadlineNeverShortened ==
    [][agr.deadline # NoTime => agr'.deadline >= agr.deadline]_vars
=============================================================================
