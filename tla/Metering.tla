------------------------------ MODULE Metering ------------------------------
(***************************************************************************)
(* The append that councils, delegations and workflows share               *)
(* (internal/nexum/council.go, delegate.go, workflow.go): it counts a step *)
(* before it checks the limits, so a refused attempt uses up a step too.   *)
(* That is unlike the bilateral agreement of module Kernel, whose append   *)
(* checks first.                                                           *)
(***************************************************************************)
EXTENDS Integers, Sequences

CONSTANTS
    MaxSteps,   \* Meter.MaxSteps after the constructor's default
    NoText      \* the empty string, and fixed wording no check reads

ASSUME MeterAssumption == MaxSteps \in Nat \ {0}

(* A ledger is the receipts, the attempts and whether CostUSD exceeds a    *)
(* positive BudgetUSD.  Attempts past the limit all look alike, so the     *)
(* count stops one above it.                                               *)
Opened(actor, action) ==
    [receipts |-> <<[action |-> action, actor |-> actor, note |-> NoText]>>,
     steps |-> 1, over |-> FALSE]

(* Mutant: the limit is compared with the receipts, not with the attempts. *)
AdmitsByReceipts(led) == Len(led.receipts) < MaxSteps /\ ~led.over

Admits(led) == led.steps < MaxSteps /\ ~led.over

Charge(led) == [led EXCEPT !.steps = IF @ > MaxSteps THEN @ ELSE @ + 1]

(* Mutant: only a refused attempt is counted. *)
RecordUncounted(led, actor, action, note) ==
    [led EXCEPT !.receipts = Append(@, [action |-> action, actor |-> actor, note |-> note])]

Record(led, actor, action, note) ==
    [Charge(led) EXCEPT !.receipts =
        Append(@, [action |-> action, actor |-> actor, note |-> note])]

LedgerRecord(actors, actions, notes) ==
    [receipts : Seq([action : actions, actor : actors, note : notes]),
     steps : 1 .. MaxSteps + 1, over : BOOLEAN]

(* Every receipt was paid for by one attempt within the limit. *)
WithinLimit(led) == Len(led.receipts) <= led.steps /\ Len(led.receipts) <= MaxSteps
=============================================================================
