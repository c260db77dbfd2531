--------------------------- MODULE DelegateProofs ---------------------------
(***************************************************************************)
(* The properties of a delegation for every step limit, every set of       *)
(* callers and every set of citations.                                     *)
(***************************************************************************)
EXTENDS Delegate, TLAPS

DelegateAction == {"offer", "claim", "proof", "pay", "reject-proof", "cancel"}
Note == Citation \cup {NoText}
Receipt == [action : DelegateAction, actor : {Parent, Intern}, note : Note]
LedgerOK(l) ==
    l \in LedgerRecord({Parent, Intern}, DelegateAction, Note) /\ WithinLimit(l)

(* The chains of the story.                                                *)
Offered == <<By(Parent, "offer")>>
Claimed == Append(Offered, By(Intern, "claim"))
Proven(citation) == Append(Claimed, [action |-> "proof", actor |-> Intern, note |-> citation])

Story(s, c, receipts) ==
    /\ s = "offered" => receipts = Offered
    /\ s = "claimed" => receipts = Claimed
    /\ s = "proven" => receipts = Proven(c)
    /\ s = "paid" => receipts = Append(Proven(c), By(Parent, "pay"))
    /\ s = "rejected" => receipts \in {Append(Offered, By(Parent, "cancel")),
                                       Append(Claimed, By(Parent, "reject-proof")),
                                       Append(Proven(c), By(Parent, "reject-proof"))}

(* The inductive invariant.                                                *)
DInv ==
    /\ status \in {"offered", "claimed", "proven", "paid", "rejected"}
    /\ proof \in Note
    /\ releasedTo = (IF status = "paid" THEN Intern
                     ELSE IF status = "rejected" THEN Parent ELSE Nobody)
    /\ LedgerOK(led)
    /\ Story(status, proof, led.receipts)

(* Charging an attempt keeps the receipts and stays within the limit.      *)
LEMMA ChargeKeeps ==
    ASSUME NEW l, LedgerOK(l)
    PROVE  /\ LedgerOK(Charge(l))
           /\ Charge(l).receipts = l.receipts
           /\ Charge(l).over = l.over
           /\ l.steps >= MaxSteps => Charge(l).steps >= MaxSteps
           /\ Admits(l) => Charge(l).steps = l.steps + 1
PROOF
<1> DEFINE n == IF l.steps > MaxSteps THEN l.steps ELSE l.steps + 1
           R == [action : DelegateAction, actor : {Parent, Intern}, note : Note]
<1>1. l \in [receipts : Seq(R), steps : 1 .. MaxSteps + 1, over : BOOLEAN] /\ MaxSteps \in Nat
  BY MeterAssumption DEF LedgerOK, LedgerRecord
<1>2. Charge(l) = [l EXCEPT !.steps = n]
  BY DEF Charge
<1>3. n \in 1 .. MaxSteps + 1 /\ n >= l.steps /\ (l.steps < MaxSteps => n = l.steps + 1)
  BY <1>1
<1> HIDE DEF n, R
<1>4. /\ [l EXCEPT !.steps = n] \in [receipts : Seq(R), steps : 1 .. MaxSteps + 1, over : BOOLEAN]
      /\ [l EXCEPT !.steps = n].receipts = l.receipts /\ [l EXCEPT !.steps = n].steps = n
      /\ [l EXCEPT !.steps = n].over = l.over
  BY <1>1, <1>3
<1>5. Len(l.receipts) <= l.steps /\ Len(l.receipts) <= MaxSteps /\ Len(l.receipts) \in Nat
  BY <1>1 DEF LedgerOK, WithinLimit
<1>6. Len(l.receipts) <= n
  BY <1>1, <1>3, <1>5
<1> QED
  BY <1>1, <1>2, <1>3, <1>4, <1>5, <1>6 DEF LedgerOK, LedgerRecord, WithinLimit, Admits, R

(* An admitted receipt goes to the end of the chain, within the limit.     *)
LEMMA RecordKeeps ==
    ASSUME NEW l, LedgerOK(l), Admits(l), NEW actor \in {Parent, Intern},
           NEW action \in DelegateAction, NEW note \in Note
    PROVE  /\ LedgerOK(Record(l, actor, action, note))
           /\ Record(l, actor, action, note).receipts =
                Append(l.receipts, [action |-> action, actor |-> actor, note |-> note])
PROOF
<1> DEFINE c == Charge(l)
           e == [action |-> action, actor |-> actor, note |-> note]
           rs == Append(c.receipts, e)
           R == [action : DelegateAction, actor : {Parent, Intern}, note : Note]
<1>1. LedgerOK(c) /\ c.receipts = l.receipts /\ c.steps = l.steps + 1
  BY ChargeKeeps
<1>2. Record(l, actor, action, note) = [c EXCEPT !.receipts = rs]
  BY DEF Record
<1>3. e \in R
  OBVIOUS
<1> HIDE DEF c, e, R
<1>4. c \in [receipts : Seq(R), steps : 1 .. MaxSteps + 1, over : BOOLEAN]
  BY <1>1 DEF LedgerOK, LedgerRecord, R
<1>5. rs \in Seq(R) /\ Len(rs) = Len(c.receipts) + 1 /\ Len(c.receipts) \in Nat
  BY <1>3, <1>4
<1>6. Len(l.receipts) <= l.steps /\ l.steps < MaxSteps /\ l.steps \in Nat /\ MaxSteps \in Nat
  BY MeterAssumption DEF LedgerOK, LedgerRecord, WithinLimit, Admits
<1>7. Len(rs) <= c.steps /\ Len(rs) <= MaxSteps
  BY <1>1, <1>5, <1>6
<1> HIDE DEF rs
<1>8. /\ [c EXCEPT !.receipts = rs] \in [receipts : Seq(R), steps : 1 .. MaxSteps + 1,
                                        over : BOOLEAN]
      /\ [c EXCEPT !.receipts = rs].receipts = rs /\ [c EXCEPT !.receipts = rs].steps = c.steps
  BY <1>4, <1>5
<1> QED
  BY <1>1, <1>2, <1>7, <1>8 DEF LedgerOK, LedgerRecord, WithinLimit, R, rs, e

(* A delegation is opened with its offer on the chain.                     *)
LEMMA OpenKeeps == OpenDelegate => DInv
PROOF
<1> SUFFICES ASSUME OpenDelegate PROVE DInv
  OBVIOUS
<1> USE DelegateAssumption, MeterAssumption
<1>1. /\ status = "offered" /\ proof = NoText /\ releasedTo = Nobody
      /\ led = [receipts |-> Offered, steps |-> 1, over |-> FALSE]
  BY DEF OpenDelegate, Opened, Offered, By
<1>2. Offered \in Seq(Receipt) /\ Len(Offered) = 1
  BY DEF Offered, By, Receipt, DelegateAction, Note
<1> HIDE DEF Offered
<1>3. led \in [receipts : Seq(Receipt), steps : 1 .. MaxSteps + 1, over : BOOLEAN]
  BY <1>1, <1>2
<1>4. led.receipts = Offered /\ led.steps = 1
  BY <1>1
<1>5. Len(led.receipts) <= led.steps /\ Len(led.receipts) <= MaxSteps
  <2>1. Len(led.receipts) = 1
    BY <1>2, <1>4
  <2>2. 1 <= MaxSteps
    BY MeterAssumption
  <2> QED
    BY <1>4, <2>1, <2>2
<1>6. LedgerOK(led)
  BY <1>3, <1>5 DEF LedgerOK, LedgerRecord, WithinLimit, Receipt
<1> QED
  BY <1>1, <1>4, <1>6 DEF DInv, Story, Note

(* A call that append refuses leaves the story alone.                      *)
LEMMA TurnedAwayKeeps ==
    ASSUME DInv, TurnedAway
    PROVE  DInv' /\ UNCHANGED <<status, proof, releasedTo, led.receipts>>
PROOF
<1>1. LedgerOK(Charge(led)) /\ Charge(led).receipts = led.receipts
  BY ChargeKeeps DEF DInv
<1>2. /\ status' = status /\ proof' = proof /\ releasedTo' = releasedTo
      /\ led' = Charge(led)
  BY DEF TurnedAway
<1>3. LedgerOK(led') /\ led'.receipts = led.receipts
  BY <1>1, <1>2
<1>4. LedgerOK(led)'
  BY <1>3 DEF LedgerOK, LedgerRecord, WithinLimit, DelegateAction, Note
<1>5. Story(status, proof, led.receipts)'
  BY <1>2, <1>3 DEF DInv, Story, Offered, Claimed, Proven, By
<1> QED
  BY <1>2, <1>3, <1>4, <1>5 DEF DInv, Note

(* What a recorded call leaves on the chain.                               *)
LEMMA RecordedKeeps ==
    ASSUME DInv, NEW actor \in {Parent, Intern}, NEW action \in DelegateAction,
           NEW note \in Note, Recorded(actor, action, note)
    PROVE  /\ LedgerOK(led)'
           /\ led'.receipts = Append(led.receipts, [action |-> action, actor |-> actor,
                                                    note |-> note])
           /\ ~ (led.steps >= MaxSteps)
PROOF
<1>1. Admits(led) /\ led' = Record(led, actor, action, note)
  BY DEF Recorded
<1>2. LedgerOK(led') /\ led'.receipts = Append(led.receipts, [action |-> action,
                                            actor |-> actor, note |-> note])
  BY <1>1, RecordKeeps DEF DInv
<1>3. ~ (led.steps >= MaxSteps)
  BY <1>1, MeterAssumption DEF Admits, DInv, LedgerOK, LedgerRecord
<1> QED
  BY <1>2, <1>3 DEF LedgerOK, LedgerRecord, WithinLimit, DelegateAction, Note

(* Closing ends the story with one receipt of the parent.                  *)
LEMMA CloseKeeps ==
    ASSUME DInv, NEW action \in DelegateAction, NEW payee, NEW outcome,
           Close(Parent, action, payee, outcome), status \notin {"paid", "rejected"},
           \/ /\ outcome = "paid" /\ payee = Intern
              /\ action = "pay" /\ status = "proven"
           \/ /\ outcome = "rejected" /\ payee = Parent
              /\ \/ action = "cancel" /\ status = "offered"
                 \/ action = "reject-proof" /\ status \in {"claimed", "proven"}
    PROVE  /\ DInv'
           /\ led.steps >= MaxSteps => UNCHANGED <<status, proof, releasedTo, led.receipts>>
PROOF
<1>1. CASE TurnedAway
  BY <1>1, TurnedAwayKeeps
<1>2. CASE /\ Recorded(Parent, action, NoText)
           /\ releasedTo' = payee /\ status' = outcome /\ proof' = proof
  <2>1. NoText \in Note /\ Parent \in {Parent, Intern}
    BY DEF Note
  <2>2. /\ LedgerOK(led)' /\ ~ (led.steps >= MaxSteps)
        /\ led'.receipts = Append(led.receipts, By(Parent, action))
    BY <1>2, <2>1, RecordedKeeps DEF By
  <2>3. Story(status', proof', led'.receipts)
    BY <1>2, <2>2 DEF DInv, Story
  <2>4. Story(status, proof, led.receipts)'
    BY <2>3 DEF Story, Offered, Claimed, Proven, By
  <2> QED
    BY <1>2, <2>2, <2>4, DelegateAssumption DEF DInv, Note
<1> QED
  BY <1>1, <1>2 DEF Close

(* Claim puts the intern's claim after the offer.                          *)
LEMMA ClaimKeeps ==
    ASSUME DInv, NEW actor, Claim(actor)
    PROVE  /\ DInv' /\ releasedTo = Nobody
           /\ led.steps >= MaxSteps => UNCHANGED <<status, proof, releasedTo, led.receipts>>
PROOF
<1>1. actor = Intern /\ status = "offered" /\ releasedTo = Nobody
  BY DEF Claim, DInv
<1>2. CASE TurnedAway
  BY <1>1, <1>2, TurnedAwayKeeps
<1>3. CASE /\ Recorded(actor, "claim", NoText)
           /\ status' = "claimed" /\ UNCHANGED <<proof, releasedTo>>
  <2>1. NoText \in Note /\ Intern \in {Parent, Intern} /\ "claim" \in DelegateAction
    BY DEF Note, DelegateAction
  <2>2. /\ LedgerOK(led)' /\ ~ (led.steps >= MaxSteps)
        /\ led'.receipts = Append(led.receipts, By(Intern, "claim"))
    BY <1>1, <1>3, <2>1, RecordedKeeps DEF By
  <2>3. Story(status', proof', led'.receipts)
    BY <1>1, <1>3, <2>2 DEF DInv, Story, Claimed
  <2>4. Story(status, proof, led.receipts)'
    BY <2>3 DEF Story, Offered, Claimed, Proven, By
  <2> QED
    BY <1>1, <1>3, <2>2, <2>4 DEF DInv, Note
<1> QED
  BY <1>2, <1>3 DEF Claim

(* SubmitProof puts the proof it stores after the claim.                   *)
LEMMA SubmitProofKeeps ==
    ASSUME DInv, NEW actor, NEW citation \in Note, SubmitProof(actor, citation)
    PROVE  /\ DInv' /\ releasedTo = Nobody
           /\ led.steps >= MaxSteps => UNCHANGED <<status, proof, releasedTo, led.receipts>>
PROOF
<1>1. actor = Intern /\ status = "claimed" /\ releasedTo = Nobody
  BY DEF SubmitProof, CanSubmitProof, DInv
<1>2. CASE TurnedAway
  BY <1>1, <1>2, TurnedAwayKeeps
<1>3. CASE /\ Recorded(actor, "proof", citation)
           /\ proof' = citation /\ status' = "proven" /\ releasedTo' = releasedTo
  <2>1. Intern \in {Parent, Intern} /\ "proof" \in DelegateAction
    BY DEF DelegateAction
  <2>2. /\ LedgerOK(led)' /\ ~ (led.steps >= MaxSteps)
        /\ led'.receipts = Append(led.receipts, [action |-> "proof", actor |-> Intern,
                                                 note |-> citation])
    BY <1>1, <1>3, <2>1, RecordedKeeps
  <2>3. Story(status', proof', led'.receipts)
    BY <1>1, <1>3, <2>2 DEF DInv, Story, Proven
  <2>4. Story(status, proof, led.receipts)'
    BY <2>3 DEF Story, Offered, Claimed, Proven, By
  <2> QED
    BY <1>1, <1>3, <2>2, <2>4 DEF DInv, Note
<1> QED
  BY <1>2, <1>3 DEF SubmitProof

(* The parent's three ways to close, each from the status it is meant for. *)
LEMMA ClosingKeeps ==
    ASSUME DInv, NEW actor, AcceptProof(actor) \/ RejectProof(actor) \/ Cancel(actor)
    PROVE  /\ DInv' /\ releasedTo = Nobody
           /\ led.steps >= MaxSteps => UNCHANGED <<status, proof, releasedTo, led.receipts>>
PROOF
<1> USE DEF DelegateAction
<1>1. CASE AcceptProof(actor)
  BY <1>1, CloseKeeps DEF AcceptProof, DInv
<1>2. CASE RejectProof(actor)
  BY <1>2, CloseKeeps DEF RejectProof, DInv
<1>3. CASE Cancel(actor)
  BY <1>3, CloseKeeps DEF Cancel, DInv
<1> QED
  BY <1>1, <1>2, <1>3

(* Spending changes nothing a property reads.                              *)
LEMMA SpendKeeps ==
    ASSUME DInv, SpendBudget
    PROVE  DInv' /\ UNCHANGED <<status, proof, releasedTo, led.receipts>>
PROOF
<1>1. led' = [led EXCEPT !.over = ~led.over] /\ UNCHANGED <<status, proof, releasedTo>>
  BY DEF SpendBudget
<1>2. led \in [receipts : Seq(Receipt), steps : 1 .. MaxSteps + 1, over : BOOLEAN]
  BY DEF DInv, LedgerOK, LedgerRecord, Receipt
<1> DEFINE flipped == ~led.over
<1>3. flipped \in BOOLEAN
  BY <1>2
<1> HIDE DEF flipped
<1>4. /\ [led EXCEPT !.over = flipped] \in [receipts : Seq(Receipt), steps : 1 .. MaxSteps + 1,
                                           over : BOOLEAN]
      /\ [led EXCEPT !.over = flipped].receipts = led.receipts
      /\ [led EXCEPT !.over = flipped].steps = led.steps
  BY <1>2, <1>3
<1>5. led' = [led EXCEPT !.over = flipped]
  BY <1>1 DEF flipped
<1>6. LedgerOK(led') /\ led'.receipts = led.receipts
  BY <1>4, <1>5 DEF DInv, LedgerOK, LedgerRecord, WithinLimit, Receipt
<1>7. LedgerOK(led)'
  BY <1>6 DEF LedgerOK, LedgerRecord, WithinLimit, DelegateAction, Note
<1>8. Story(status, proof, led.receipts)'
  BY <1>1, <1>6 DEF DInv, Story, Offered, Claimed, Proven, By
<1> QED
  BY <1>1, <1>6, <1>7, <1>8 DEF DInv, Note

(* Every step keeps the invariant, and none but spending touches a         *)
(* delegation that is closed or out of steps.                              *)
LEMMA StepKeeps ==
    ASSUME DInv, [DelegateNext]_dvars
    PROVE  /\ DInv'
           /\ releasedTo # Nobody \/ led.steps >= MaxSteps =>
                 UNCHANGED <<status, proof, releasedTo, led.receipts>>
PROOF
<1> DEFINE Kept == /\ DInv'
                   /\ releasedTo # Nobody \/ led.steps >= MaxSteps =>
                         UNCHANGED <<status, proof, releasedTo, led.receipts>>
<1> SUFFICES Kept
  OBVIOUS
<1>1. CASE UNCHANGED dvars
  <2>1. led' = led /\ status' = status /\ proof' = proof /\ releasedTo' = releasedTo
    BY <1>1 DEF dvars
  <2>2. LedgerOK(led)'
    BY <2>1 DEF DInv, LedgerOK, LedgerRecord, WithinLimit, DelegateAction, Note
  <2>3. Story(status, proof, led.receipts)'
    BY <2>1 DEF DInv, Story, Offered, Claimed, Proven, By
  <2> QED
    BY <2>1, <2>2, <2>3 DEF DInv, Note
<1>2. CASE SpendBudget
  BY <1>2, SpendKeeps
<1>3. ASSUME NEW actor \in Party, Claim(actor)
      PROVE  Kept
  BY <1>3, ClaimKeeps
<1>4. ASSUME NEW actor \in Party, NEW citation \in Citation \cup {NoText},
             SubmitProof(actor, citation)
      PROVE  Kept
  BY <1>4, SubmitProofKeeps DEF Note
<1>5. ASSUME NEW actor \in Party, AcceptProof(actor) \/ RejectProof(actor) \/ Cancel(actor)
      PROVE  Kept
  BY <1>5, ClosingKeeps
<1> HIDE DEF Kept
<1> QED
  BY <1>1, <1>2, <1>3, <1>4, <1>5 DEF DelegateNext

(* The invariant is the story the property reads off the receipts.         *)
LEMMA InvTellsStory == DInv => DelegateTypeOK /\ StoryOnChain
PROOF
<1> SUFFICES ASSUME DInv PROVE DelegateTypeOK /\ StoryOnChain
  OBVIOUS
<1>1. DelegateTypeOK
  BY DelegateAssumption DEF DInv, DelegateTypeOK, LedgerOK, DelegateAction, Note
<1> DEFINE q == By(Intern, "proof")
<1>2. q \in [action : {"proof"}, actor : {Intern}, note : Note]
  BY DEF By, Note
<1> HIDE DEF q
<1>3. proof \in Note
  BY DEF DInv
<1>4. [q EXCEPT !.note = proof] \in [action : {"proof"}, actor : {Intern}, note : {proof}]
  BY <1>2
<1>5. [q EXCEPT !.note = proof] = [action |-> "proof", actor |-> Intern, note |-> proof]
  <2> DEFINE e == [q EXCEPT !.note = proof]
  <2> HIDE DEF e
  <2>1. e \in [action : {"proof"}, actor : {Intern}, note : {proof}]
    BY <1>4 DEF e
  <2> QED
    BY <2>1 DEF e
<1>6. Proven(proof) = Append(Claimed, [By(Intern, "proof") EXCEPT !.note = proof])
  BY <1>5 DEF Proven, q
<1>7. StoryOnChain
  BY <1>6, Zenon DEF DInv, Story, StoryOnChain, Offered, Claimed
<1> QED
  BY <1>1, <1>7

(* The invariant of every delegation.                                      *)
LEMMA DelegateInvariant == DelegateSpec => []DInv
PROOF
<1>1. DInv /\ [DelegateNext]_dvars => DInv'
  BY StepKeeps
<1> QED
  BY <1>1, OpenKeeps, PTL DEF DelegateSpec

(* A delegation stays well formed and its receipts within the step limit,  *)
(* although refused attempts count against it (delegate.go append).        *)
THEOREM DelegateTyped == DelegateSpec => []DelegateTypeOK
BY DelegateInvariant, InvTellsStory, PTL

(* The receipts tell the whole story of the delegation, for any number of  *)
(* refused attempts: no reward without claim, proof and the parent's hand. *)
THEOREM ReceiptsTellStory == DelegateSpec => []StoryOnChain
BY DelegateInvariant, InvTellsStory, PTL

(* The reward is assigned once, and a delegation out of steps is stuck as  *)
(* it is.                                                                  *)
THEOREM RewardOnce == DelegateSpec => RewardAssignedOnce
PROOF
<1>1. DInv /\ [DelegateNext]_dvars =>
        [ /\ releasedTo # Nobody \/ led.steps >= MaxSteps =>
                UNCHANGED <<status, proof, releasedTo, led.receipts>>
          /\ releasedTo' = Intern <=> status' = "paid"
          /\ releasedTo' = Parent <=> status' = "rejected" ]_dvars
  BY StepKeeps, DelegateAssumption DEF DInv
<1> QED
  BY <1>1, DelegateInvariant, PTL DEF DelegateSpec, RewardAssignedOnce
=============================================================================
