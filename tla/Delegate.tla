------------------------------ MODULE Delegate ------------------------------
(***************************************************************************)
(* A delegation of internal/nexum/delegate.go: a parent offers work and a  *)
(* reward to an intern, who claims it and cites a proof.  Callers          *)
(* serialize access, so one call is one step.                              *)
(***************************************************************************)
EXTENDS Metering

CONSTANTS
    Party,          \* identities that may call a method
    Parent, Intern, \* the two parties of the delegation
    Nobody,         \* ReleasedTo before the delegation is closed
    Citation        \* nonempty citations

ASSUME DelegateAssumption ==
    /\ {Parent, Intern} \subseteq Party /\ Parent # Intern /\ Nobody \notin Party
    /\ NoText \notin Citation

VARIABLES
    status,
    proof,          \* the citation the intern submitted
    releasedTo,     \* set together with ClosedAt
    led             \* the metered receipts

dvars == <<status, proof, releasedTo, led>>

OpenDelegate ==
    /\ status = "offered" /\ proof = NoText /\ releasedTo = Nobody
    /\ led = Opened(Parent, "offer")

DTerminal == status \in {"paid", "rejected"}

Recorded(actor, action, note) ==
    Admits(led) /\ led' = Record(led, actor, action, note)

(* A call that passed its own checks and was refused by append. *)
TurnedAway == ~Admits(led) /\ led' = Charge(led) /\ UNCHANGED <<status, proof, releasedTo>>

Close(actor, action, payee, outcome) ==
    \/ /\ Recorded(actor, action, NoText)
       /\ releasedTo' = payee /\ status' = outcome /\ proof' = proof
    \/ TurnedAway

Claim(actor) ==
    /\ actor = Intern /\ status = "offered"
    /\ \/ /\ Recorded(actor, "claim", NoText)
          /\ status' = "claimed" /\ UNCHANGED <<proof, releasedTo>>
       \/ TurnedAway

(* Mutant: a proof may be replaced until it is accepted. *)
CanResubmit(actor, citation) ==
    actor = Intern /\ status \in {"claimed", "proven"} /\ citation # NoText

CanSubmitProof(actor, citation) ==
    actor = Intern /\ status = "claimed" /\ citation # NoText

SubmitProof(actor, citation) ==
    /\ CanSubmitProof(actor, citation)
    /\ \/ /\ Recorded(actor, "proof", citation)
          /\ proof' = citation /\ status' = "proven" /\ releasedTo' = releasedTo
       \/ TurnedAway

AcceptProof(actor) ==
    actor = Parent /\ status = "proven" /\ Close(actor, "pay", Intern, "paid")

(* Mutant: the parent may refuse whatever was claimed, also once paid. *)
RejectAnyClaim(actor) ==
    actor = Parent /\ status # "offered" /\ Close(actor, "reject-proof", Parent, "rejected")

RejectProof(actor) ==
    /\ actor = Parent /\ status \in {"claimed", "proven"}
    /\ Close(actor, "reject-proof", Parent, "rejected")

Cancel(actor) ==
    actor = Parent /\ status = "offered" /\ Close(actor, "cancel", Parent, "rejected")

(* The host owns Meter.CostUSD: it may pass the budget and come back. *)
SpendBudget == led' = [led EXCEPT !.over = ~@] /\ UNCHANGED <<status, proof, releasedTo>>

DelegateNext ==
    \/ SpendBudget
    \/ \E actor \in Party :
          \/ Claim(actor)
          \/ \E citation \in Citation \cup {NoText} : SubmitProof(actor, citation)
          \/ AcceptProof(actor)
          \/ RejectProof(actor)
          \/ Cancel(actor)

DelegateSpec == OpenDelegate /\ [][DelegateNext]_dvars

-----------------------------------------------------------------------------
(* The delegation is well formed and its receipts fit the step limit.      *)
DelegateTypeOK ==
    /\ status \in {"offered", "claimed", "proven", "paid", "rejected"}
    /\ proof \in Citation \cup {NoText}
    /\ releasedTo \in {Nobody, Parent, Intern}
    /\ led \in LedgerRecord({Parent, Intern},
                            {"offer", "claim", "proof", "pay", "reject-proof", "cancel"},
                            Citation \cup {NoText})
    /\ WithinLimit(led)

By(actor, action) == [action |-> action, actor |-> actor, note |-> NoText]

(* The receipts tell the whole story, whatever attempts were refused in    *)
(* between: the reward goes to the intern only after the intern's claim    *)
(* and one proof and by the parent's hand, it returns to the parent by     *)
(* cancellation only before the claim, and the stored proof is the one on  *)
(* the chain.                                                              *)
StoryOnChain ==
    LET offered == <<By(Parent, "offer")>>
        claimed == Append(offered, By(Intern, "claim"))
        proven == Append(claimed, [By(Intern, "proof") EXCEPT !.note = proof])
        rejected == By(Parent, "reject-proof")
    IN  led.receipts \in
            CASE status = "offered" -> {offered}
              [] status = "claimed" -> {claimed}
              [] status = "proven" -> {proven}
              [] status = "paid" -> {Append(proven, By(Parent, "pay"))}
              [] status = "rejected" -> {Append(offered, By(Parent, "cancel")),
                                         Append(claimed, rejected), Append(proven, rejected)}

(* The reward is assigned once: to nobody before the outcome, then for     *)
(* good to the intern who was paid or to the parent who refused.  Refused  *)
(* attempts use up the step limit, and once it is used up the delegation   *)
(* stays as it is: claimed or proven work can no longer be paid or         *)
(* rejected, even when the budget is brought back.                         *)
RewardAssignedOnce ==
    [][ /\ releasedTo # Nobody \/ led.steps >= MaxSteps =>
              UNCHANGED <<status, proof, releasedTo, led.receipts>>
        /\ releasedTo' = Intern <=> status' = "paid"
        /\ releasedTo' = Parent <=> status' = "rejected" ]_dvars
=============================================================================
