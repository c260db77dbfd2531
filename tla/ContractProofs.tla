--------------------------- MODULE ContractProofs ---------------------------
(***************************************************************************)
(* The properties of the in-memory contract for every set of parties,      *)
(* citations, times and keys, every amount and every step bound that       *)
(* leaves room for six receipts.                                           *)
(***************************************************************************)
EXTENDS Contract, KernelProofs

(* The operations restore is given: what was applied, without the times.   *)
Entry(x) == [command |-> x.command, sig |-> x.sig, head |-> x.head, status |-> x.status]
Entries == {Entry(applied[i]) : i \in 1 .. Len(applied)}

(* The first n commands were those of the way to payment, each signed over *)
(* what the one before it left, in time, and the last one left this chain. *)
Turn(i) == IF i = 1 THEN "lock" ELSE IF i = 2 THEN "agree" ELSE "settle"

Went(n) ==
    /\ Len(applied) = n
    /\ \A i \in 1 .. n :
          /\ applied[i].command.action = Turn(i)
          /\ applied[i].sig.by = Signer(Turn(i))
          /\ Created <= applied[i].at /\ applied[i].at < Deadline
    /\ \A i \in 2 .. n : applied[i].command.head = applied[i - 1].head
    /\ n > 0 => applied[n].head = HeadOf(contract)

Story ==
    /\ contract.agreement.status = "open" => Went(0)
    /\ contract.agreement.status = "locked" => Went(IF contract.agreed THEN 2 ELSE 1)
    /\ contract.agreement.status = "accepted" => Went(3)

(* The inductive invariant: the commands applied account for the contract  *)
(* and, unless value went back, they are the way to payment so far.        *)
CInv ==
    /\ Accounted(contract, Entries)
    /\ \E S : applied \in Seq(S)
    /\ Story

(* A new contract has no history.                                          *)
LEMMA CInitInv == CInit => CInv
PROOF
<1> SUFFICES ASSUME CInit
             PROVE  CInv
  OBVIOUS
<1>1. PICK k \in Key : contract = NewContract(k)
  BY DEF CInit
<1>2. Accounted(contract, {})
  BY <1>1, NewAccounted, ContractTermsAssumption
<1>3. contract.agreement.status = "open"
  BY <1>1, NewSound, ContractTermsAssumption
<1>4. applied = <<>> /\ Len(applied) = 0 /\ applied \in Seq({})
  BY DEF CInit
<1>5. Entries = {}
  BY <1>4 DEF Entries
<1>6. Story
  BY <1>3, <1>4 DEF Story, Went
<1> QED
  BY <1>2, <1>4, <1>5, <1>6 DEF CInv

(* What a step that applies a command leaves behind.                       *)
Applies(x) ==
    /\ applied' = Append(applied, x)
    /\ Entries' = Entries \cup {Entry(x)}
    /\ Accounted(contract', Entries \cup {Entry(x)})
    /\ Effect(contract, x.command, x.sig, contract')
    /\ x.head = HeadOf(contract') /\ x.status = contract'.agreement.status
    /\ x.command.head = HeadOf(contract)
    /\ x.command.action \in CommandAction
    /\ x.sig.by = Signer(x.command.action)
    /\ x.command.action # "expire" => Created <= x.at /\ x.at < Deadline

(* Every step of the contract applies one command.                         *)
LEMMA StepApplies ==
    ASSUME CInv, CNext
    PROVE  \E x : Applies(x)
PROOF
<1>1. PICK cmd \in Signable(contract), by \in Party, r \in Rand, now \in Time :
          Apply(cmd, [by |-> by, body |-> cmd], r, now)
  BY DEF CNext
<1> DEFINE sig == [by |-> by, body |-> cmd]
           x == [command |-> cmd, sig |-> sig, at |-> now,
                 head |-> HeadOf(contract'), status |-> contract'.agreement.status]
           e == Entry(x)
<1>2. /\ sig.by = Signer(cmd.action)
      /\ CanApplyVerified(contract, cmd, sig, r, now)
      /\ contract' = DoApplyVerified(contract, cmd, sig, r, now)
      /\ applied' = Append(applied, x)
  BY <1>1 DEF Apply, Verify
<1> HIDE DEF sig
<1>3. /\ x.command = cmd /\ x.sig = sig /\ x.at = now /\ x.head = HeadOf(contract')
      /\ x.status = contract'.agreement.status
  OBVIOUS
<1>4. /\ e.command = cmd /\ e.sig = sig /\ e.head = HeadOf(contract')
      /\ e.status = contract'.agreement.status
  BY DEF Entry
<1> HIDE DEF x, e
<1>5. now \in Nat /\ Accounted(contract, Entries)
  BY ContractTimeAssumption DEF CInv
<1>6. Accounted(contract', Entries \cup {e}) /\ Effect(contract, cmd, sig, contract')
  BY <1>2, <1>4, <1>5, ApplyAccounted
<1>7. Entries' = Entries \cup {e}
  <2>1. PICK S : applied \in Seq(S)
    BY DEF CInv
  <2>2. /\ Len(applied) \in Nat /\ Len(applied') = Len(applied) + 1
        /\ \A i \in 1 .. Len(applied) : applied'[i] = applied[i]
        /\ applied'[Len(applied) + 1] = x
    BY <1>2, <2>1
  <2>3. 1 .. Len(applied') = (1 .. Len(applied)) \cup {Len(applied) + 1}
    BY <2>2
  <2> QED
    BY <2>2, <2>3 DEF Entries, e
<1>8. cmd.action \in CommandAction /\ cmd.head = HeadOf(contract)
  BY <1>2 DEF CommandAction, CanApplyVerified
<1>9. cmd.action # "expire" => Created <= now /\ now < Deadline
  BY <1>2, <1>5 DEF CanApplyVerified, InWindow, Accounted, SoundContract
<1> QED
  BY <1>2, <1>3, <1>6, <1>7, <1>8, <1>9 DEF Applies, e

(* Where such a step takes the status and the consent.                     *)
Moves(c, action, d) ==
    \/ /\ action = "lock" /\ c.agreement.status = "open" /\ c.agreed = FALSE
       /\ d.agreement.status = "locked" /\ d.agreed = FALSE
    \/ /\ action = "agree" /\ c.agreement.status = "locked" /\ c.agreed = FALSE
       /\ d.agreement.status = "locked" /\ d.agreed = TRUE
    \/ /\ action = "settle" /\ c.agreement.status = "locked" /\ c.agreed = TRUE
       /\ d.agreement.status = "accepted" /\ d.agreed = TRUE
    \/ /\ action = "reject" /\ c.agreement.status = "locked"
       /\ d.agreement.status = "rejected" /\ d.agreed = c.agreed
    \/ /\ action = "expire" /\ c.agreement.status \in {"open", "locked"}
       /\ d.agreement.status = "expired" /\ d.agreed = c.agreed

(* The receipt a command writes tells which of the five moves it was.      *)
LEMMA StepMoves ==
    ASSUME CInv, NEW x, Applies(x)
    PROVE  Moves(contract, x.command.action, contract')
PROOF
<1>1. SoundContract(contract) /\ SoundContract(contract')
  BY DEF CInv, Applies, Accounted
<1>2. contract.agreed \in BOOLEAN /\ (contract.agreement.status = "open" => ~contract.agreed)
  BY <1>1 DEF SoundContract, ReceiptCount
<1>3. Explains(x, contract'.agreement, Len(HeadOf(contract)), contract.agreement.status,
               contract.agreed)
  BY DEF Applies, Effect
<1>4. contract'.agreed = (contract.agreed \/ x.command.action = "agree")
  BY DEF Applies, Effect
<1>5. x.status = contract'.agreement.status
  BY DEF Applies
<1> QED
  BY <1>2, <1>3, <1>4, <1>5 DEF Explains, Moves

(* The way to payment gets one command longer, whichever it is.            *)
LEMMA WentOneMore ==
    ASSUME NEW S, applied \in Seq(S), NEW x, Applies(x), NEW n \in Nat, Went(n),
           x.command.action = Turn(n + 1), x.command.action # "expire"
    PROVE  Went(n + 1)'
PROOF
<1>1. /\ Len(applied') = n + 1 /\ applied'[n + 1] = x
      /\ \A i \in 1 .. n : applied'[i] = applied[i]
  BY DEF Applies, Went
<1>2. ASSUME NEW i \in 1 .. n + 1
      PROVE  /\ applied'[i].command.action = Turn(i)
             /\ applied'[i].sig.by = Signer(Turn(i))
             /\ Created <= applied'[i].at /\ applied'[i].at < Deadline
  <2>1. CASE i = n + 1
    BY <1>1, <2>1 DEF Applies
  <2>2. CASE i \in 1 .. n
    BY <1>1, <2>2 DEF Went
  <2> QED
    BY <2>1, <2>2
<1>3. ASSUME NEW i \in 2 .. n + 1
      PROVE  applied'[i].command.head = applied'[i - 1].head
  <2>1. CASE i = n + 1
    <3>1. n \in 1 .. n /\ i - 1 = n
      BY <2>1
    <3>2. applied[n].head = HeadOf(contract) /\ applied'[n] = applied[n]
      BY <1>1, <3>1 DEF Went
    <3> QED
      BY <1>1, <2>1, <3>1, <3>2 DEF Applies
  <2>2. CASE i \in 2 .. n
    <3>1. i - 1 \in 1 .. n /\ i \in 1 .. n
      BY <2>2
    <3>2. applied'[i - 1] = applied[i - 1] /\ applied'[i] = applied[i]
      BY <1>1, <3>1
    <3> QED
      BY <2>2, <3>2 DEF Went
  <2> QED
    BY <2>1, <2>2
<1>4. applied'[n + 1].head = HeadOf(contract')
  BY <1>1 DEF Applies
<1> QED
  BY <1>1, <1>2, <1>3, <1>4 DEF Went, Turn, HeadOf

(* Every step keeps the inductive invariant.                               *)
LEMMA CNextInv == CInv /\ [CNext]_contractVars => CInv'
PROOF
<1> SUFFICES ASSUME CInv, [CNext]_contractVars
             PROVE  CInv'
  OBVIOUS
<1>1. CASE UNCHANGED contractVars
  BY <1>1 DEF CInv, contractVars, Entries, Story, Went, HeadOf
<1>2. CASE CNext
  <2>1. PICK x : Applies(x)
    BY <1>2, StepApplies
  <2>2. PICK S : applied \in Seq(S)
    BY DEF CInv
  <2>3. Moves(contract, x.command.action, contract')
    BY <2>1, StepMoves
  <2>4. Accounted(contract, Entries)'
    BY <2>1 DEF Applies
  <2>5. applied' \in Seq(S \cup {x})
    BY <2>1, <2>2 DEF Applies
  <2>6. Story'
    <3>1. CASE x.command.action = "lock"
      <4>1. Went(0) /\ contract'.agreement.status = "locked" /\ contract'.agreed = FALSE
        BY <2>3, <3>1 DEF Moves, CInv, Story
      <4>2. x.command.action = Turn(0 + 1)
        BY <3>1 DEF Turn
      <4>3. Went(0 + 1)'
        BY <2>1, <2>2, <3>1, <4>1, <4>2, WentOneMore
      <4> QED
        BY <4>1, <4>3 DEF Story
    <3>2. CASE x.command.action = "agree"
      <4>1. Went(1) /\ contract'.agreement.status = "locked" /\ contract'.agreed = TRUE
        BY <2>3, <3>2 DEF Moves, CInv, Story
      <4>2. x.command.action = Turn(1 + 1)
        BY <3>2 DEF Turn
      <4>3. Went(1 + 1)'
        BY <2>1, <2>2, <3>2, <4>1, <4>2, WentOneMore
      <4> QED
        BY <4>1, <4>3 DEF Story
    <3>3. CASE x.command.action = "settle"
      <4>1. Went(2) /\ contract'.agreement.status = "accepted"
        BY <2>3, <3>3 DEF Moves, CInv, Story
      <4>2. x.command.action = Turn(2 + 1)
        BY <3>3 DEF Turn
      <4>3. Went(2 + 1)'
        BY <2>1, <2>2, <3>3, <4>1, <4>2, WentOneMore
      <4> QED
        BY <4>1, <4>3 DEF Story
    <3>4. CASE contract'.agreement.status \in {"rejected", "expired"}
      BY <3>4 DEF Story
    <3> QED
      BY <2>3, <3>1, <3>2, <3>3, <3>4 DEF Moves
  <2> QED
    BY <2>4, <2>5, <2>6 DEF CInv
<1> QED
  BY <1>1, <1>2

(* The inductive invariant implies the three invariants below.             *)
LEMMA CInvImplies == CInv => PaidByBothSignatures /\ HistoryReplays /\ ExpiryNeverBlocked
PROOF
<1> SUFFICES ASSUME CInv
             PROVE  PaidByBothSignatures /\ HistoryReplays /\ ExpiryNeverBlocked
  OBVIOUS
<1>1. SoundContract(contract) /\ Accounted(contract, Entries)
  BY DEF CInv, Accounted
<1>2. PaidByBothSignatures
  <2> SUFFICES ASSUME Held("accepted")
               PROVE  PaidByBothSignatures
    BY DEF PaidByBothSignatures
  <2>1. Went(3)
    BY DEF CInv, Story, Held
  <2>2. /\ [i \in 1 .. 3 |-> applied[i].command.action] = <<"lock", "agree", "settle">>
        /\ [i \in 1 .. 3 |-> applied[i].sig.by] = <<Buyer, Seller, Buyer>>
    BY <2>1 DEF Went, Turn, Signer
  <2> QED
    BY <2>1, <2>2 DEF Went, PaidByBothSignatures
<1>3. HistoryReplays
  <2>1. Restores(contract, Entries)
    BY <1>1, AccountedRestores
  <2> QED
    BY <2>1, Zenon DEF HistoryReplays, Entries, Entry
<1>4. ExpiryNeverBlocked
  <2> DEFINE a == contract.agreement
  <2> SUFFICES ASSUME ~Terminal(a), NEW now \in Time, now >= Deadline, NEW r \in Rand,
                      NEW cmd, cmd = [terms |-> ContractID, head |-> HeadOf(contract),
                                      action |-> "expire", evidence |-> NoText]
               PROVE  CanApplyVerified(contract, cmd, [by |-> Buyer, body |-> cmd], r, now)
    BY DEF ExpiryNeverBlocked
  <2>1. PICK notes : Sound(a, notes)
    BY <1>1 DEF SoundContract
  <2>2. a.status \in {"open", "locked"}
    BY <2>1 DEF Sound, WellTyped, AgreementRecord, Status, Terminal, TerminalStatus
  <2>3. Len(a.receipts) \in {2, 3, 4} /\ a.deadline = Deadline /\ a.over = FALSE
    BY <1>1, <2>2 DEF SoundContract, ReceiptCount
  <2>4. a.steps < MaxSteps
    <3>1. a.steps = Len(a.receipts)
      BY <2>1 DEF Sound, Metered
    <3>2. MaxSteps \in Nat /\ MaxSteps >= 6
      BY ContractTermsAssumption, TermsAssumption DEF ProperTerms
    <3>3. a.steps \in {2, 3, 4}
      BY <2>3, <3>1
    <3> HIDE DEF a
    <3> QED
      BY <3>2, <3>3
  <2>5. CanExpire(a, Buyer, now)
    BY <2>2, <2>3, <2>4, ContractTermsAssumption DEF ProperTerms, CanExpire, IsParty, CanAppend, NoTime
  <2>6. cmd.terms = ContractID /\ cmd.head = HeadOf(contract) /\ cmd.action = "expire"
    OBVIOUS
  <2> QED
    BY <2>5, <2>6 DEF CanApplyVerified
<1> QED
  BY <1>2, <1>3, <1>4

(* Safety: the seller is paid only by the buyer's lock, the seller's       *)
(* consent to what it left and the buyer's settlement of what that left.   *)
THEOREM PaymentTakesBoth == CSpec => []PaidByBothSignatures
PROOF
  BY CInitInv, CNextInv, CInvImplies, PTL DEF CSpec

(* Safety: restore accepts every reachable contract with the commands that *)
(* produced it.                                                            *)
THEOREM ReplayAgrees == CSpec => []HistoryReplays
PROOF
  BY CInitInv, CNextInv, CInvImplies, PTL DEF CSpec

(* Safety: whatever the parties did, the step bound leaves room for the    *)
(* buyer's expiry, so value is never stranded.                             *)
THEOREM NeverStranded == CSpec => []ExpiryNeverBlocked
PROOF
  BY CInitInv, CNextInv, CInvImplies, PTL DEF CSpec

(***************************************************************************)
(* Refinement: the contract implements Lifecycle.                          *)
(***************************************************************************)
Phase(c) == IF Terminal(c.agreement) THEN "closed"
            ELSE IF c.agreement.status = "open" THEN "open"
            ELSE IF c.agreed THEN "consented" ELSE "escrowed"
WithBuyer(c) == IF c.agreement.status \in {"locked", "accepted"} THEN 0 ELSE Amount
InEscrow(c) == IF c.agreement.status = "locked" THEN c.agreement.sum.m ELSE 0
WithSeller(c) == IF c.agreement.releasedTo = Seller THEN Aggregate(c.agreement.locks).m ELSE 0

(* The four values the mapping reads off a sound contract: the escrowed    *)
(* ciphertext aggregate always decrypts to the whole amount.               *)
LEMMA MappedValues ==
    ASSUME NEW c, SoundContract(c)
    PROVE  LET s == c.agreement.status
           IN  /\ s = "open" => /\ Phase(c) = "open" /\ WithBuyer(c) = Amount
                                /\ InEscrow(c) = 0 /\ WithSeller(c) = 0
               /\ s = "locked" => /\ Phase(c) = IF c.agreed THEN "consented" ELSE "escrowed"
                                  /\ WithBuyer(c) = 0
                                  /\ InEscrow(c) = Amount /\ WithSeller(c) = 0
               /\ s = "accepted" => /\ Phase(c) = "closed" /\ WithBuyer(c) = 0
                                    /\ InEscrow(c) = 0 /\ WithSeller(c) = Amount
               /\ s \in {"rejected", "expired"} =>
                       /\ Phase(c) = "closed" /\ WithBuyer(c) = Amount
                       /\ InEscrow(c) = 0 /\ WithSeller(c) = 0
PROOF
<1> DEFINE a == c.agreement
<1>1. PICK notes : Sound(a, notes)
  BY DEF SoundContract
<1>2. Buyer # Seller /\ Nobody # Seller
  BY PartyAssumption
<1>3. a.status \in Status /\ (a.releasedTo = Seller <=> a.status = "accepted")
  BY <1>1, <1>2 DEF Sound, WellTyped, AgreementRecord, Status, MomentsMatchStatus
<1>4. ASSUME a.status \in {"locked", "accepted"}
      PROVE  Aggregate(a.locks).m = Amount
  <2>1. PICK ct \in Cipher : a.locks = <<ct>> /\ ct.m = Amount
    BY <1>4 DEF SoundContract, OneLock
  <2> QED
    BY <2>1, AggregateOne
<1>5. a.status = "locked" => a.sum = Aggregate(a.locks)
  BY <1>1 DEF Sound, SumMatchesLocks, SoundContract
<1> QED
  BY <1>3, <1>4, <1>5 DEF Phase, WithBuyer, InEscrow, WithSeller, Terminal, TerminalStatus

(* The mapping of the refinement, by the names above.                      *)
LEMMA MappingNamed ==
    /\ Abstract!LInit <=> /\ Phase(contract) = "open" /\ WithBuyer(contract) = Amount
                          /\ InEscrow(contract) = 0 /\ WithSeller(contract) = 0
    /\ Abstract!Fund <=>
          /\ Phase(contract) = "open" /\ Phase(contract') = "escrowed"
          /\ WithBuyer(contract') = 0 /\ InEscrow(contract') = Amount
          /\ WithSeller(contract') = WithSeller(contract)
    /\ Abstract!Consent <=>
          /\ Phase(contract) = "escrowed" /\ Phase(contract') = "consented"
          /\ WithBuyer(contract') = WithBuyer(contract)
          /\ InEscrow(contract') = InEscrow(contract)
          /\ WithSeller(contract') = WithSeller(contract)
    /\ Abstract!Pay <=>
          /\ Phase(contract) = "consented" /\ Phase(contract') = "closed"
          /\ WithSeller(contract') = InEscrow(contract) /\ InEscrow(contract') = 0
          /\ WithBuyer(contract') = WithBuyer(contract)
    /\ Abstract!Return <=>
          /\ Phase(contract) # "closed" /\ Phase(contract') = "closed"
          /\ WithBuyer(contract') = WithBuyer(contract) + InEscrow(contract)
          /\ InEscrow(contract') = 0 /\ WithSeller(contract') = WithSeller(contract)
PROOF
<1> USE DEF Phase, WithBuyer, InEscrow, WithSeller, Held
<1>1. Abstract!LInit <=> /\ Phase(contract) = "open" /\ WithBuyer(contract) = Amount
                         /\ InEscrow(contract) = 0 /\ WithSeller(contract) = 0
  BY DEF Abstract!LInit
<1>2. Abstract!Fund <=>
          /\ Phase(contract) = "open" /\ Phase(contract') = "escrowed"
          /\ WithBuyer(contract') = 0 /\ InEscrow(contract') = Amount
          /\ WithSeller(contract') = WithSeller(contract)
  BY DEF Abstract!Fund
<1>3. Abstract!Consent <=>
          /\ Phase(contract) = "escrowed" /\ Phase(contract') = "consented"
          /\ WithBuyer(contract') = WithBuyer(contract)
          /\ InEscrow(contract') = InEscrow(contract)
          /\ WithSeller(contract') = WithSeller(contract)
  BY DEF Abstract!Consent
<1>4. Abstract!Pay <=>
          /\ Phase(contract) = "consented" /\ Phase(contract') = "closed"
          /\ WithSeller(contract') = InEscrow(contract) /\ InEscrow(contract') = 0
          /\ WithBuyer(contract') = WithBuyer(contract)
  BY DEF Abstract!Pay
<1>5. Abstract!Return <=>
          /\ Phase(contract) # "closed" /\ Phase(contract') = "closed"
          /\ WithBuyer(contract') = WithBuyer(contract) + InEscrow(contract)
          /\ InEscrow(contract') = 0 /\ WithSeller(contract') = WithSeller(contract)
  BY DEF Abstract!Return
<1> QED
  BY <1>1, <1>2, <1>3, <1>4, <1>5

(* Every command is a step of the lifecycle: lock funds it, agree consents *)
(* to it, settle pays, reject and expire return.                           *)
LEMMA StepsImplement ==
    CInv /\ [CNext]_contractVars => [Abstract!LNext]_(Abstract!lifecycleVars)
PROOF
<1> SUFFICES ASSUME CInv, [CNext]_contractVars
             PROVE  [Abstract!LNext]_(Abstract!lifecycleVars)
  OBVIOUS
<1>1. CASE UNCHANGED contractVars
  BY <1>1 DEF contractVars, Abstract!lifecycleVars, Held, Terminal
<1>2. CASE CNext
  <2>1. PICK x : Applies(x)
    BY <1>2, StepApplies
  <2>2. Moves(contract, x.command.action, contract')
    BY <2>1, StepMoves
  <2>3. SoundContract(contract) /\ SoundContract(contract')
    BY <2>1 DEF CInv, Applies, Accounted
  <2> DEFINE Values(c, phase, buyer, escrow, seller) ==
                 /\ Phase(c) = phase /\ WithBuyer(c) = buyer
                 /\ InEscrow(c) = escrow /\ WithSeller(c) = seller
  <2>4. ASSUME NEW c, SoundContract(c)
        PROVE  /\ c.agreement.status = "open" => Values(c, "open", Amount, 0, 0)
               /\ c.agreement.status = "locked" /\ c.agreed = FALSE
                    => Values(c, "escrowed", 0, Amount, 0)
               /\ c.agreement.status = "locked" /\ c.agreed = TRUE
                    => Values(c, "consented", 0, Amount, 0)
               /\ c.agreement.status = "accepted" => Values(c, "closed", 0, 0, Amount)
               /\ c.agreement.status \in {"rejected", "expired"}
                    => Values(c, "closed", Amount, 0, 0)
    BY <2>4, MappedValues
  <2>5. contract.agreed \in BOOLEAN /\ Amount \in Nat
    BY <2>3, TermsAssumption DEF SoundContract
  <2>6. CASE x.command.action = "lock"
    <3>1. Values(contract, "open", Amount, 0, 0) /\ Values(contract', "escrowed", 0, Amount, 0)
      BY <2>2, <2>3, <2>4, <2>6 DEF Moves
    <3> QED
      BY <3>1, MappingNamed DEF Abstract!LNext
  <2>7. CASE x.command.action = "agree"
    <3>1. Values(contract, "escrowed", 0, Amount, 0)
          /\ Values(contract', "consented", 0, Amount, 0)
      BY <2>2, <2>3, <2>4, <2>7 DEF Moves
    <3> QED
      BY <3>1, MappingNamed DEF Abstract!LNext
  <2>8. CASE x.command.action = "settle"
    <3>1. Values(contract, "consented", 0, Amount, 0)
          /\ Values(contract', "closed", 0, 0, Amount)
      BY <2>2, <2>3, <2>4, <2>8 DEF Moves
    <3> QED
      BY <3>1, MappingNamed DEF Abstract!LNext
  <2>9. CASE contract'.agreement.status \in {"rejected", "expired"}
    <3>1. Values(contract', "closed", Amount, 0, 0)
      BY <2>3, <2>4, <2>9
    <3>2. contract.agreement.status \in {"open", "locked"}
      BY <2>2, <2>9 DEF Moves
    <3>3. \/ Values(contract, "open", Amount, 0, 0)
          \/ Values(contract, "escrowed", 0, Amount, 0)
          \/ Values(contract, "consented", 0, Amount, 0)
      BY <2>3, <2>4, <2>5, <3>2
    <3>4. /\ Phase(contract) # "closed" /\ WithSeller(contract) = 0
          /\ WithBuyer(contract) + InEscrow(contract) = Amount
      BY <2>5, <3>3
    <3> QED
      BY <3>1, <3>4, MappingNamed DEF Abstract!LNext
  <2> QED
    BY <2>2, <2>6, <2>7, <2>8, <2>9 DEF Moves
<1> QED
  BY <1>1, <1>2

(* Refinement: every behaviour of the contract, under any signed commands  *)
(* in any order, is one of the lifecycle its parties rely on.              *)
THEOREM ContractImplements == CSpec => ImplementsLifecycle
PROOF
<1>1. CInit => Abstract!LInit
  <2> SUFFICES ASSUME CInit
               PROVE  Abstract!LInit
    OBVIOUS
  <2>1. PICK k \in Key : contract = NewContract(k)
    BY DEF CInit
  <2>2. SoundContract(contract) /\ contract.agreement.status = "open"
    BY <2>1, NewSound, ContractTermsAssumption
  <2> QED
    BY <2>2, MappedValues, MappingNamed
<1> QED
  BY <1>1, CInitInv, CNextInv, StepsImplement, PTL DEF CSpec, ImplementsLifecycle, Abstract!LSpec
=============================================================================
