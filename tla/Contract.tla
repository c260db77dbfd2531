------------------------------ MODULE Contract ------------------------------
(***************************************************************************)
(* One in-memory Contract of nex/contract.go fed with signed commands.     *)
(* Signed commands travel outside the library: any of them, signed by      *)
(* anybody over any head the contract has had, may arrive at any time, in  *)
(* any order and any number of times.  A refused command changes nothing.  *)
(***************************************************************************)
EXTENDS Commands

CONSTANTS
    ForeignID,      \* the terms of some other contract
    Time            \* the times the owner passes to Apply

ASSUME ContractTimeAssumption == Time \subseteq Nat

ASSUME ContractTermsAssumption == ProperTerms

VARIABLES
    contract,       \* [agreement, agreed]
    applied         \* the commands that took effect, in order (history)

contractVars == <<contract, applied>>

CommandAction == {"lock", "agree", "settle", "reject", "expire"}

(* Every command some signer may have produced so far. *)
Signable(c) ==
    [terms : {ContractID, ForeignID},
     head : {SubSeq(HeadOf(c), 1, n) : n \in 1 .. Len(HeadOf(c))},
     action : CommandAction,
     evidence : Citation \cup {NoText}]

CInit ==
    /\ \E k \in Key : contract = NewContract(k)
    /\ applied = <<>>

Apply(cmd, sig, r, now) ==
    /\ Verify(Signer(cmd.action), cmd, sig)
    /\ CanApplyVerified(contract, cmd, sig, r, now)
    /\ contract' = DoApplyVerified(contract, cmd, sig, r, now)
    /\ applied' = Append(applied, [command |-> cmd, sig |-> sig, at |-> now,
                                   head |-> HeadOf(contract'),
                                   status |-> contract'.agreement.status])

CNext ==
    \E cmd \in Signable(contract), by \in Party, r \in Rand, now \in Time :
        Apply(cmd, [by |-> by, body |-> cmd], r, now)

CSpec == CInit /\ [][CNext]_contractVars

-----------------------------------------------------------------------------
(* The value the contract accounts for, as the abstract lifecycle sees it. *)
Held(s) == contract.agreement.status = s
Abstract == INSTANCE Lifecycle WITH
    phase <- IF Terminal(contract.agreement) THEN "closed"
             ELSE IF Held("open") THEN "open"
             ELSE IF contract.agreed THEN "consented" ELSE "escrowed",
    buyer <- IF Held("locked") \/ Held("accepted") THEN 0 ELSE Amount,
    escrow <- IF Held("locked") THEN contract.agreement.sum.m ELSE 0,
    seller <- IF contract.agreement.releasedTo = Seller
              THEN Aggregate(contract.agreement.locks).m ELSE 0

(* The contract implements the lifecycle its parties rely on: value is     *)
(* conserved, the escrowed sum (read from the ciphertext aggregate) is the *)
(* whole amount, and it is paid out once.                                  *)
ImplementsLifecycle == Abstract!LSpec

(* Payment took three signatures over one history: the buyer's lock, then  *)
(* the seller's consent to exactly the chain that lock left, then the      *)
(* buyer's settlement of exactly the chain that consent left, each inside  *)
(* the time window of the terms.                                           *)
PaidByBothSignatures ==
    Held("accepted") =>
        LET n == Len(applied)
        IN  /\ n = 3
            /\ [i \in 1 .. n |-> applied[i].command.action] = <<"lock", "agree", "settle">>
            /\ [i \in 1 .. n |-> applied[i].sig.by] = <<Buyer, Seller, Buyer>>
            /\ \A i \in 2 .. n : applied[i].command.head = applied[i - 1].head
            /\ \A i \in 1 .. n : Created <= applied[i].at /\ applied[i].at < Deadline

(* restore accepts the record of every reachable contract together with    *)
(* the commands that produced it: replay and execution agree.              *)
HistoryReplays ==
    LET entry(i) == [command |-> applied[i].command, sig |-> applied[i].sig,
                     head |-> applied[i].head, status |-> applied[i].status]
    IN  Restores(contract, {entry(i) : i \in 1 .. Len(applied)})

(* Value is never stranded: as long as the contract is not closed, an      *)
(* expire command the buyer signs over the current head takes effect at    *)
(* any time from the deadline on.  The step bound must leave room for it   *)
(* whatever the parties did before.                                        *)
ExpiryNeverBlocked ==
    ~Terminal(contract.agreement) =>
        LET cmd == [terms |-> ContractID, head |-> HeadOf(contract),
                    action |-> "expire", evidence |-> NoText]
        IN  \A now \in {t \in Time : t >= Deadline}, r \in Rand :
                CanApplyVerified(contract, cmd, [by |-> Buyer, body |-> cmd], r, now)
=============================================================================
