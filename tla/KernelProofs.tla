---------------------------- MODULE KernelProofs ----------------------------
(***************************************************************************)
(* What the kernel's methods and the signed commands built on them         *)
(* preserve, for every value of the constants.                             *)
(*                                                                         *)
(* Sound(a, notes) is the inductive invariant of one agreement whose       *)
(* receipt notes come from the set notes.  Each lemma <Method>Sound says   *)
(* that a call that passes its checks turns a sound agreement into a sound *)
(* one; modules that keep an agreement cite them, one per action.          *)
(***************************************************************************)
EXTENDS Commands, FiniteSetTheorems, WellFoundedInduction, TLAPS

(* Nothing can be sealed while the agreement is open, which is why a       *)
(* second StartSealed cannot orphan a lock.                                *)
OpenIsUnsealed(a) == a.status = "open" => a.locks = <<>>

Metered(a) == a.steps = Len(a.receipts) /\ a.steps \in 1 .. MaxSteps

Sound(a, notes) ==
    /\ WellTyped(a, notes)
    /\ Metered(a)
    /\ MomentsMatchStatus(a)
    /\ SumMatchesLocks(a)
    /\ OpenIsUnsealed(a)
    /\ FactorsMatchLocks(a)
    /\ ProvablyFunded(a)
    /\ OutcomeOnChain(a)
    /\ LockOnChain(a)

(* A sound agreement passes RestorePrivate. *)
LEMMA SoundRestores ==
    ASSUME NEW notes, NEW a, Sound(a, notes)
    PROVE  RestorePrivate(a)
PROOF
  BY DEF Sound, Metered, RestorePrivate

NewReceipt(actor, action, note, now) ==
    [action |-> action, actor |-> actor, at |-> now, note |-> note]

(* What append leaves of the chain and the step count.                     *)
Appended(a, b, e) ==
    /\ b.receipts = Append(a.receipts, e)
    /\ b.steps = a.steps + 1

(* The chain of an agreement after one append: the old receipts keep their *)
(* places, the new one is last, and the meter still counts receipts.       *)
Lengthened(a, b, e, notes) ==
    /\ b.receipts \in Seq([action : Action, actor : Party, at : Nat, note : notes])
    /\ b.steps \in Nat
    /\ Len(a.receipts) \in Nat
    /\ Len(b.receipts) = Len(a.receipts) + 1
    /\ \A i \in 1 .. Len(a.receipts) : b.receipts[i] = a.receipts[i]
    /\ b.receipts[Len(b.receipts)] = e
    /\ Metered(a) /\ CanAppend(a) => Metered(b)

(* append leaves a chain one receipt longer than the one it found.         *)
LEMMA AppendLengthens ==
    ASSUME NEW notes, NEW sums, NEW a \in AgreementRecord(notes, sums),
           NEW actor \in Party, NEW action \in Action, NEW note \in notes, NEW now \in Nat,
           NEW b, Appended(a, b, NewReceipt(actor, action, note, now))
    PROVE  Lengthened(a, b, NewReceipt(actor, action, note, now), notes)
PROOF
<1> DEFINE R == [action : Action, actor : Party, at : Nat, note : notes]
           e == NewReceipt(actor, action, note, now)
<1>1. e \in R
  BY DEF NewReceipt
<1>2. a.receipts \in Seq(R) /\ a.steps \in Nat
  BY DEF AgreementRecord
<1>3. b.receipts = Append(a.receipts, e) /\ b.steps = a.steps + 1
  BY DEF Appended
<1> HIDE DEF e, R
<1>4. /\ b.receipts \in Seq(R) /\ b.steps \in Nat
      /\ Len(b.receipts) = Len(a.receipts) + 1
      /\ Len(a.receipts) \in Nat
      /\ \A i \in 1 .. Len(a.receipts) : b.receipts[i] = a.receipts[i]
      /\ b.receipts[Len(b.receipts)] = e
  BY <1>1, <1>2, <1>3
<1>5. Metered(a) /\ CanAppend(a) => Metered(b)
  BY <1>2, <1>3, <1>4, TermsAssumption DEF Metered, CanAppend
<1> QED
  BY <1>4, <1>5 DEF e, R, Lengthened

(* Until now no receipt closed the agreement, so only the new one can.     *)
LEMMA OnlyLastCloses ==
    ASSUME NEW notes, NEW a, NEW b, NEW e, OutcomeOnChain(a), ~Terminal(a),
           Lengthened(a, b, e, notes), e.action \in TerminalAction => Terminal(b)
    PROVE  \A i \in 1 .. Len(b.receipts) :
              b.receipts[i].action \in TerminalAction => Terminal(b) /\ i = Len(b.receipts)
PROOF
<1> SUFFICES ASSUME NEW i \in 1 .. Len(b.receipts), b.receipts[i].action \in TerminalAction
             PROVE  Terminal(b) /\ i = Len(b.receipts)
  OBVIOUS
<1>1. i \in 1 .. Len(a.receipts) \/ i = Len(b.receipts)
  BY DEF Lengthened
<1>2. CASE i \in 1 .. Len(a.receipts)
  BY <1>2 DEF Lengthened, OutcomeOnChain
<1>3. CASE i = Len(b.receipts)
  BY <1>3 DEF Lengthened
<1> QED
  BY <1>1, <1>2, <1>3

(* A receipt keeps its meaning when another is appended.                   *)
LEMMA ValuePlacedLengthened ==
    ASSUME NEW notes, NEW a, NEW b, NEW e, Lengthened(a, b, e, notes)
    PROVE  ValuePlaced(b) <=> ValuePlaced(a) \/ e.action \in LockAction
PROOF
<1>1. ASSUME ValuePlaced(b)
      PROVE  ValuePlaced(a) \/ e.action \in LockAction
  <2>1. PICK i \in 1 .. Len(b.receipts) : b.receipts[i].action \in LockAction
    BY <1>1 DEF ValuePlaced
  <2>2. i \in 1 .. Len(a.receipts) \/ i = Len(b.receipts)
    BY DEF Lengthened
  <2> QED
    BY <2>1, <2>2 DEF Lengthened, ValuePlaced
<1>2. ASSUME ValuePlaced(a)
      PROVE  ValuePlaced(b)
  <2>1. PICK i \in 1 .. Len(a.receipts) : a.receipts[i].action \in LockAction
    BY <1>2 DEF ValuePlaced
  <2>2. i \in 1 .. Len(b.receipts) /\ b.receipts[i].action \in LockAction
    BY <2>1 DEF Lengthened
  <2> QED
    BY <2>2 DEF ValuePlaced
<1>3. ASSUME e.action \in LockAction
      PROVE  ValuePlaced(b)
  <2>1. Len(b.receipts) \in 1 .. Len(b.receipts)
    BY DEF Lengthened
  <2> QED
    BY <1>3, <2>1 DEF Lengthened, ValuePlaced
<1> QED
  BY <1>1, <1>2, <1>3

(* Lock: value is placed, the agreement becomes locked.                    *)
LEMMA LockSound ==
    ASSUME NEW notes, NEW a, Sound(a, notes), NoText \in notes,
           NEW actor \in Party, NEW now \in Nat, CanLock(a, actor)
    PROVE  Sound(DoLock(a, actor, now), notes)
PROOF
<1> DEFINE sums == {NoCipher, Aggregate(a.locks)}
           b == DoLock(a, actor, now)
           e == NewReceipt(actor, "lock", NoText, now)
<1>1. a \in AgreementRecord(notes, sums)
  BY DEF Sound, WellTyped
<1> HIDE DEF sums
<1>2. /\ Appended(a, b, e)
      /\ b.status = "locked" /\ b.lockedAt = now /\ b.closedAt = a.closedAt
      /\ b.releasedTo = a.releasedTo /\ b.deadline = a.deadline
      /\ b.sealed = a.sealed /\ b.locks = a.locks
      /\ b.sum = a.sum
  BY <1>1 DEF DoLock, DoAppend, AgreementRecord, Appended, NewReceipt
<1> HIDE DEF b
<1>3. "lock" \in Action /\ ~Terminal(a)
  BY DEF Action, Terminal, TerminalStatus, CanLock
<1>4. Lengthened(a, b, e, notes)
  BY <1>1, <1>2, <1>3, AppendLengthens
<1>5. b \in AgreementRecord(notes, sums)
  BY <1>1, <1>2, <1>4 DEF b, Lengthened, DoLock, DoAppend, AgreementRecord, Status
<1>6. WellTyped(b, notes)
  BY <1>2, <1>5 DEF WellTyped, sums
<1>7. Metered(b)
  BY <1>4 DEF Sound, CanLock, Lengthened
<1>8. MomentsMatchStatus(b)
  BY <1>2 DEF Sound, MomentsMatchStatus, CanLock, NoTime
<1>9. SumMatchesLocks(b)
  BY <1>2 DEF Sound, SumMatchesLocks, IsSealed, CanLock
<1>10. OpenIsUnsealed(b) /\ FactorsMatchLocks(b) /\ ProvablyFunded(b)
  BY <1>2 DEF Sound, OpenIsUnsealed, FactorsMatchLocks, ProvablyFunded, IsSealed, CanLock
<1>11. OutcomeOnChain(b)
  <2>1. e.action \notin TerminalAction
    BY DEF NewReceipt, TerminalAction
  <2> QED
    BY <1>2, <1>3, <1>4, <2>1, OnlyLastCloses DEF Sound, OutcomeOnChain, Terminal, TerminalStatus
<1>12. LockOnChain(b)
  BY <1>2, <1>3, <1>4, ValuePlacedLengthened
    DEF Sound, LockOnChain, LockAction, NewReceipt, Terminal, TerminalStatus, CanLock
<1> QED
  BY <1>6, <1>7, <1>8, <1>9, <1>10, <1>11, <1>12 DEF Sound, b

(* Note: evidence is a receipt and nothing else.                           *)
LEMMA NoteSound ==
    ASSUME NEW notes, NEW a, NEW citation \in notes, Sound(a, notes),
           NEW actor \in Party, NEW now \in Nat, CanNote(a, actor, citation)
    PROVE  Sound(DoNote(a, actor, citation, now), notes)
PROOF
<1> DEFINE sums == {NoCipher, Aggregate(a.locks)}
           b == DoNote(a, actor, citation, now)
           e == NewReceipt(actor, "evidence", citation, now)
<1>1. a \in AgreementRecord(notes, sums)
  BY DEF Sound, WellTyped
<1> HIDE DEF sums
<1>2. /\ Appended(a, b, e)
      /\ b.status = a.status /\ b.lockedAt = a.lockedAt /\ b.closedAt = a.closedAt
      /\ b.releasedTo = a.releasedTo /\ b.deadline = a.deadline
      /\ b.sealed = a.sealed /\ b.locks = a.locks
      /\ b.sum = a.sum
  BY <1>1 DEF DoNote, DoAppend, AgreementRecord, Appended, NewReceipt
<1> HIDE DEF b
<1>3. "evidence" \in Action /\ ~Terminal(a)
  BY DEF Action, Terminal, TerminalStatus, CanNote
<1>4. Lengthened(a, b, e, notes)
  BY <1>1, <1>2, <1>3, AppendLengthens
<1>5. b \in AgreementRecord(notes, sums)
  BY <1>1, <1>2, <1>4 DEF b, Lengthened, DoNote, DoAppend, AgreementRecord, Status
<1>6. WellTyped(b, notes)
  BY <1>2, <1>5 DEF WellTyped, sums
<1>7. Metered(b)
  BY <1>4 DEF Sound, CanNote, Lengthened
<1>8. MomentsMatchStatus(b)
  BY <1>2 DEF Sound, MomentsMatchStatus, CanNote, NoTime
<1>9. SumMatchesLocks(b)
  BY <1>2 DEF Sound, SumMatchesLocks, IsSealed, CanNote
<1>10. OpenIsUnsealed(b) /\ FactorsMatchLocks(b) /\ ProvablyFunded(b)
  BY <1>2 DEF Sound, OpenIsUnsealed, FactorsMatchLocks, ProvablyFunded, IsSealed, CanNote
<1>11. OutcomeOnChain(b)
  <2>1. e.action \notin TerminalAction
    BY DEF NewReceipt, TerminalAction
  <2> QED
    BY <1>2, <1>3, <1>4, <2>1, OnlyLastCloses DEF Sound, OutcomeOnChain, Terminal, TerminalStatus
<1>12. LockOnChain(b)
  BY <1>2, <1>3, <1>4, ValuePlacedLengthened
    DEF Sound, LockOnChain, LockAction, NewReceipt, Terminal, TerminalStatus, CanNote
<1> QED
  BY <1>6, <1>7, <1>8, <1>9, <1>10, <1>11, <1>12 DEF Sound, b

(* SetDeadline: the deadline moves together with its receipt.              *)
LEMMA SetDeadlineSound ==
    ASSUME NEW notes, NEW a, NEW deadline \in Nat, Sound(a, notes),
           DeadlineNote(deadline) \in notes,
           NEW actor \in Party, NEW now \in Nat, CanSetDeadline(a, actor, deadline, now)
    PROVE  Sound(DoSetDeadline(a, actor, deadline, now), notes)
PROOF
<1> DEFINE sums == {NoCipher, Aggregate(a.locks)}
           b == DoSetDeadline(a, actor, deadline, now)
           e == NewReceipt(actor, "deadline", DeadlineNote(deadline), now)
<1>1. a \in AgreementRecord(notes, sums)
  BY DEF Sound, WellTyped
<1> HIDE DEF sums
<1>2. /\ Appended(a, b, e)
      /\ b.status = a.status /\ b.lockedAt = a.lockedAt /\ b.closedAt = a.closedAt
      /\ b.releasedTo = a.releasedTo /\ b.deadline = deadline
      /\ b.sealed = a.sealed /\ b.locks = a.locks
      /\ b.sum = a.sum
  BY <1>1 DEF DoSetDeadline, DoAppend, AgreementRecord, Appended, NewReceipt
<1> HIDE DEF b
<1>3. "deadline" \in Action /\ ~Terminal(a)
  BY DEF Action, Terminal, TerminalStatus, CanSetDeadline
<1>4. Lengthened(a, b, e, notes)
  BY <1>1, <1>2, <1>3, AppendLengthens
<1>5. b \in AgreementRecord(notes, sums)
  BY <1>1, <1>2, <1>4 DEF b, Lengthened, DoSetDeadline, DoAppend, AgreementRecord, Status
<1>6. WellTyped(b, notes)
  BY <1>2, <1>5 DEF WellTyped, sums
<1>7. Metered(b)
  BY <1>4 DEF Sound, CanSetDeadline, Lengthened
<1>8. MomentsMatchStatus(b)
  BY <1>2 DEF Sound, MomentsMatchStatus, CanSetDeadline, NoTime
<1>9. SumMatchesLocks(b)
  BY <1>2 DEF Sound, SumMatchesLocks, IsSealed, CanSetDeadline
<1>10. OpenIsUnsealed(b) /\ FactorsMatchLocks(b) /\ ProvablyFunded(b)
  BY <1>2 DEF Sound, OpenIsUnsealed, FactorsMatchLocks, ProvablyFunded, IsSealed, CanSetDeadline
<1>11. OutcomeOnChain(b)
  <2>1. e.action \notin TerminalAction
    BY DEF NewReceipt, TerminalAction
  <2> QED
    BY <1>2, <1>3, <1>4, <2>1, OnlyLastCloses DEF Sound, OutcomeOnChain, Terminal, TerminalStatus
<1>12. LockOnChain(b)
  BY <1>2, <1>3, <1>4, ValuePlacedLengthened
    DEF Sound, LockOnChain, LockAction, NewReceipt, Terminal, TerminalStatus, CanSetDeadline
<1> QED
  BY <1>6, <1>7, <1>8, <1>9, <1>10, <1>11, <1>12 DEF Sound, b

(* Reject: the seller returns the locked value.                            *)
LEMMA RejectSound ==
    ASSUME NEW notes, NEW a, Sound(a, notes), NoText \in notes,
           NEW actor \in Party, NEW now \in Nat, CanReject(a, actor)
    PROVE  Sound(DoReject(a, actor, now), notes)
PROOF
<1> DEFINE sums == {NoCipher, Aggregate(a.locks)}
           b == DoReject(a, actor, now)
           e == NewReceipt(actor, "reject", NoText, now)
<1>1. a \in AgreementRecord(notes, sums)
  BY DEF Sound, WellTyped
<1> HIDE DEF sums
<1>2. /\ Appended(a, b, e)
      /\ b.status = "rejected" /\ b.lockedAt = a.lockedAt /\ b.closedAt = now
      /\ b.releasedTo = Buyer /\ b.deadline = a.deadline
      /\ b.sealed = a.sealed /\ b.locks = a.locks
      /\ b.sum = a.sum
  BY <1>1 DEF DoReject, DoAppend, AgreementRecord, Appended, NewReceipt
<1> HIDE DEF b
<1>3. "reject" \in Action /\ ~Terminal(a)
  BY DEF Action, Terminal, TerminalStatus, CanReject
<1>4. Lengthened(a, b, e, notes)
  BY <1>1, <1>2, <1>3, AppendLengthens
<1>5. b \in AgreementRecord(notes, sums)
  BY <1>1, <1>2, <1>4 DEF b, Lengthened, DoReject, DoAppend, AgreementRecord, Status
<1>6. WellTyped(b, notes)
  BY <1>2, <1>5 DEF WellTyped, sums
<1>7. Metered(b)
  BY <1>4 DEF Sound, CanReject, Lengthened
<1>8. MomentsMatchStatus(b)
  BY <1>2 DEF Sound, MomentsMatchStatus, CanReject, NoTime
<1>9. SumMatchesLocks(b)
  BY <1>2 DEF Sound, SumMatchesLocks, IsSealed, CanReject
<1>10. OpenIsUnsealed(b) /\ FactorsMatchLocks(b) /\ ProvablyFunded(b)
  BY <1>2 DEF Sound, OpenIsUnsealed, FactorsMatchLocks, ProvablyFunded, IsSealed
<1>11. OutcomeOnChain(b)
  <2>1. Terminal(b) /\ LastReceipt(b) = e
    BY <1>2, <1>4 DEF Terminal, TerminalStatus, LastReceipt, Lengthened
  <2>2. \A i \in 1 .. Len(b.receipts) :
           b.receipts[i].action \in TerminalAction => Terminal(b) /\ i = Len(b.receipts)
    BY <1>3, <1>4, <2>1, OnlyLastCloses DEF Sound
  <2> QED
    BY <1>2, <2>1, <2>2 DEF OutcomeOnChain, ClosedBy, NewReceipt, CanReject
<1>12. LockOnChain(b)
  BY <1>2, <1>4, ValuePlacedLengthened DEF Sound, LockOnChain, LockAction, NewReceipt, CanReject
<1> QED
  BY <1>6, <1>7, <1>8, <1>9, <1>10, <1>11, <1>12 DEF Sound, b

(* Expire: value returns to the buyer, at the deadline or later.           *)
LEMMA ExpireSound ==
    ASSUME NEW notes, NEW a, Sound(a, notes), NoText \in notes,
           NEW actor \in Party, NEW now \in Nat, CanExpire(a, actor, now)
    PROVE  Sound(DoExpire(a, actor, now), notes)
PROOF
<1> DEFINE sums == {NoCipher, Aggregate(a.locks)}
           b == DoExpire(a, actor, now)
           e == NewReceipt(actor, "expire", NoText, now)
<1>1. a \in AgreementRecord(notes, sums)
  BY DEF Sound, WellTyped
<1> HIDE DEF sums
<1>2. /\ Appended(a, b, e)
      /\ b.status = "expired" /\ b.lockedAt = a.lockedAt /\ b.closedAt = now
      /\ b.releasedTo = Buyer /\ b.deadline = a.deadline
      /\ b.sealed = a.sealed /\ b.locks = a.locks
      /\ b.sum = a.sum
  BY <1>1 DEF DoExpire, DoAppend, AgreementRecord, Appended, NewReceipt
<1> HIDE DEF b
<1>3. "expire" \in Action /\ ~Terminal(a)
  BY DEF Action, Terminal, TerminalStatus, CanExpire
<1>4. Lengthened(a, b, e, notes)
  BY <1>1, <1>2, <1>3, AppendLengthens
<1>5. b \in AgreementRecord(notes, sums)
  BY <1>1, <1>2, <1>4 DEF b, Lengthened, DoExpire, DoAppend, AgreementRecord, Status
<1>6. WellTyped(b, notes)
  BY <1>2, <1>5 DEF WellTyped, sums
<1>7. Metered(b)
  BY <1>4 DEF Sound, CanExpire, Lengthened
<1>8. MomentsMatchStatus(b)
  BY <1>2 DEF Sound, MomentsMatchStatus, CanExpire, NoTime
<1>9. SumMatchesLocks(b)
  BY <1>2 DEF Sound, SumMatchesLocks, IsSealed, CanExpire
<1>10. OpenIsUnsealed(b) /\ FactorsMatchLocks(b) /\ ProvablyFunded(b)
  BY <1>2 DEF Sound, OpenIsUnsealed, FactorsMatchLocks, ProvablyFunded, IsSealed
<1>11. OutcomeOnChain(b)
  <2>1. Terminal(b) /\ LastReceipt(b) = e
    BY <1>2, <1>4 DEF Terminal, TerminalStatus, LastReceipt, Lengthened
  <2>2. \A i \in 1 .. Len(b.receipts) :
           b.receipts[i].action \in TerminalAction => Terminal(b) /\ i = Len(b.receipts)
    BY <1>3, <1>4, <2>1, OnlyLastCloses DEF Sound
  <2> QED
    BY <1>2, <2>1, <2>2 DEF OutcomeOnChain, ClosedBy, NewReceipt, CanExpire
<1>12. LockOnChain(b)
  BY <1>2, <1>4, ValuePlacedLengthened DEF Sound, LockOnChain, LockAction, NewReceipt, CanExpire
<1> QED
  BY <1>6, <1>7, <1>8, <1>9, <1>10, <1>11, <1>12 DEF Sound, b

(* Accept: value goes to the seller, and a sealed agreement has just       *)
(* proved that its locks add up to the amount.                             *)
LEMMA AcceptSound ==
    ASSUME NEW notes, NEW a, Sound(a, notes), NoText \in notes,
           NEW actor \in Party, NEW now \in Nat, CanAccept(a, actor)
    PROVE  Sound(DoAccept(a, actor, now), notes)
PROOF
<1> DEFINE sums == {NoCipher, Aggregate(a.locks)}
           b == DoAccept(a, actor, now)
           e == NewReceipt(actor, "accept", NoText, now)
<1>1. a \in AgreementRecord(notes, sums)
  BY DEF Sound, WellTyped
<1> HIDE DEF sums
<1>2. /\ Appended(a, b, e)
      /\ b.status = "accepted" /\ b.lockedAt = a.lockedAt /\ b.closedAt = now
      /\ b.releasedTo = Seller /\ b.deadline = a.deadline
      /\ b.sealed = a.sealed /\ b.locks = a.locks
      /\ b.sum = (IF IsSealed(a) THEN NoCipher ELSE a.sum)
  BY <1>1 DEF DoAccept, DoAppend, AgreementRecord, Appended, NewReceipt
<1> HIDE DEF b
<1>3. "accept" \in Action /\ ~Terminal(a)
  BY DEF Action, Terminal, TerminalStatus, CanAccept
<1>4. Lengthened(a, b, e, notes)
  BY <1>1, <1>2, <1>3, AppendLengthens
<1>5. b \in AgreementRecord(notes, sums)
  <2> DEFINE s == IF IsSealed(a) THEN NoCipher ELSE a.sum
  <2>1. s \in sums
    BY <1>1 DEF sums, AgreementRecord
  <2>2. b = [DoAppend(a, actor, "accept", NoText, now)
                EXCEPT !.closedAt = now, !.releasedTo = Seller, !.status = "accepted",
                       !.sum = s]
    BY <1>1 DEF b, DoAccept, DoAppend, AgreementRecord
  <2> HIDE DEF s
  <2> QED
    BY <1>1, <1>2, <1>4, <2>1, <2>2 DEF Lengthened, DoAppend, AgreementRecord, Status
<1>6. WellTyped(b, notes)
  BY <1>2, <1>5 DEF WellTyped, sums
<1>7. Metered(b)
  BY <1>4 DEF Sound, CanAccept, Lengthened
<1>8. MomentsMatchStatus(b)
  BY <1>2 DEF Sound, MomentsMatchStatus, CanAccept, NoTime
<1>9. SumMatchesLocks(b)
  BY <1>2 DEF Sound, SumMatchesLocks, IsSealed, CanAccept
<1>10. OpenIsUnsealed(b) /\ FactorsMatchLocks(b) /\ ProvablyFunded(b)
  <2>1. IsSealed(a) => a.sum = Aggregate(a.locks) /\ ProvesEqual(a.sealed, a.sum, Amount)
    BY DEF Sound, SumMatchesLocks, CanAccept
  <2> QED
    BY <1>2, <2>1 DEF Sound, OpenIsUnsealed, FactorsMatchLocks, ProvablyFunded, IsSealed
<1>11. OutcomeOnChain(b)
  <2>1. Terminal(b) /\ LastReceipt(b) = e
    BY <1>2, <1>4 DEF Terminal, TerminalStatus, LastReceipt, Lengthened
  <2>2. \A i \in 1 .. Len(b.receipts) :
           b.receipts[i].action \in TerminalAction => Terminal(b) /\ i = Len(b.receipts)
    BY <1>3, <1>4, <2>1, OnlyLastCloses DEF Sound
  <2> QED
    BY <1>2, <2>1, <2>2 DEF OutcomeOnChain, ClosedBy, NewReceipt, CanAccept
<1>12. LockOnChain(b)
  BY <1>2, <1>4, ValuePlacedLengthened DEF Sound, LockOnChain, LockAction, NewReceipt, CanAccept
<1> QED
  BY <1>6, <1>7, <1>8, <1>9, <1>10, <1>11, <1>12 DEF Sound, b

(* Remember adds one factor and keeps the key.                             *)
LEMMA RememberType ==
    ASSUME NEW l \in Ledger, NEW r \in Rand
    PROVE  /\ Remember(l, r) \in Ledger
           /\ Remember(l, r).rs = Append(l.rs, r) /\ Remember(l, r).key = l.key
           /\ l.rs \in Seq(Rand)
PROOF
<1>1. l.rs \in Seq(Rand)
  BY DEF Ledger
<1> DEFINE rs == Append(l.rs, r)
<1>2. rs \in Seq(Rand)
  BY <1>1
<1>3. Remember(l, r) = [l EXCEPT !.rs = rs]
  BY DEF Remember
<1> HIDE DEF rs
<1>4. [l EXCEPT !.rs = rs] \in Ledger /\ [l EXCEPT !.rs = rs].rs = rs
      /\ [l EXCEPT !.rs = rs].key = l.key
  BY <1>2 DEF Ledger
<1> QED
  BY <1>1, <1>3, <1>4 DEF rs

(* Sealing one partial on a ledger: the new ciphertext is one of the       *)
(* ledger's, and the ledger still remembers one factor per lock, in order. *)
LEMMA SealKeepsFactors ==
    ASSUME NEW notes, NEW a, Sound(a, notes), NEW actor, NEW partial \in Int, NEW r \in Rand,
           CanStageSeal(a, actor, partial, r), NEW b,
           b.sealed = Remember(a.sealed, r),
           b.locks = Append(a.locks, Encrypt(a.sealed, partial, r))
    PROVE  /\ Encrypt(a.sealed, partial, r) \in Cipher
           /\ b.sealed \in Ledger /\ IsSealed(b)
           /\ b.locks \in Seq(Cipher)
           /\ FactorsMatchLocks(b)
PROOF
<1> DEFINE ct == Encrypt(a.sealed, partial, r)
<1>1. a.sealed \in Ledger /\ a.locks \in Seq(Cipher)
  BY DEF Sound, WellTyped, AgreementRecord, CanStageSeal, IsSealed
<1>2. ct \in Cipher /\ ct.key = a.sealed.key /\ ct.rs = {r}
  BY <1>1 DEF Encrypt, Cipher, Ledger, CanStageSeal
<1>3. /\ a.sealed.rs \in Seq(Rand)
      /\ b.sealed.rs = Append(a.sealed.rs, r)
      /\ b.sealed.key = a.sealed.key
      /\ b.sealed \in Ledger
  BY <1>1, RememberType
<1>4. IsSealed(b)
  BY <1>3, NothingAssumption DEF IsSealed, Ledger
<1> HIDE DEF ct
<1>5. b.locks = Append(a.locks, ct)
  BY DEF ct
<1>6. b.locks \in Seq(Cipher) /\ Len(b.locks) = Len(a.locks) + 1 /\ Len(a.locks) \in Nat
  BY <1>1, <1>2, <1>5
<1>7. /\ Len(a.sealed.rs) = Len(a.locks)
      /\ \A i \in 1 .. Len(a.locks) :
            a.locks[i].rs = {a.sealed.rs[i]} /\ a.locks[i].key = a.sealed.key
  BY DEF Sound, FactorsMatchLocks, CanStageSeal
<1>8. Len(b.sealed.rs) = Len(b.locks)
  BY <1>3, <1>6, <1>7
<1>9. ASSUME NEW i \in 1 .. Len(b.locks)
      PROVE  b.locks[i].rs = {b.sealed.rs[i]} /\ b.locks[i].key = b.sealed.key
  <2>1. CASE i \in 1 .. Len(a.locks)
    <3>1. b.locks[i] = a.locks[i] /\ b.sealed.rs[i] = a.sealed.rs[i]
      BY <1>1, <1>3, <1>5, <1>7, <2>1
    <3> QED
      BY <1>3, <1>7, <2>1, <3>1
  <2>2. CASE i = Len(a.locks) + 1
    <3>1. b.locks[i] = ct /\ b.sealed.rs[i] = r
      BY <1>1, <1>3, <1>5, <1>7, <2>2
    <3> QED
      BY <1>2, <1>3, <3>1
  <2> QED
    BY <1>6, <2>1, <2>2
<1> QED
  BY <1>2, <1>3, <1>4, <1>6, <1>8, <1>9 DEF FactorsMatchLocks, ct

(* sealLock: another partial is sealed, receipted and aggregated.          *)
LEMMA SealLockSound ==
    ASSUME NEW notes, NEW a, Sound(a, notes), Cipher \subseteq notes,
           NEW actor \in Party, NEW partial \in Int, NEW r \in Rand, NEW now \in Nat,
           CanSealLock(a, actor, partial, r)
    PROVE  Sound(DoSealLock(a, actor, partial, r, now), notes)
PROOF
<1> DEFINE ct == Encrypt(a.sealed, partial, r)
           sums == {NoCipher, Aggregate(a.locks)}
           b == DoSealLock(a, actor, partial, r, now)
           e == NewReceipt(actor, "seal", ct, now)
<1>1. a \in AgreementRecord(notes, sums)
  BY DEF Sound, WellTyped
<1> HIDE DEF sums
<1>2. /\ Appended(a, b, e)
      /\ b.status = "locked" /\ b.lockedAt = now /\ b.closedAt = a.closedAt
      /\ b.releasedTo = a.releasedTo /\ b.deadline = a.deadline
      /\ b.sealed = Remember(a.sealed, r) /\ b.locks = Append(a.locks, ct)
      /\ b.sum = Aggregate(b.locks)
  BY <1>1 DEF DoSealLock, DoAppend, AgreementRecord, Appended, NewReceipt
<1> HIDE DEF b, ct
<1>3. CanStageSeal(a, actor, partial, r) /\ CanAppend(a)
  BY DEF CanSealLock
<1>4. ct \in Cipher /\ b.sealed \in Ledger /\ IsSealed(b) /\ b.locks \in Seq(Cipher)
      /\ FactorsMatchLocks(b)
  BY <1>2, <1>3, SealKeepsFactors DEF ct
<1>5. "seal" \in Action /\ ~Terminal(a)
  BY <1>3 DEF Action, CanStageSeal
<1>6. Lengthened(a, b, e, notes)
  BY <1>1, <1>2, <1>4, <1>5, AppendLengthens
<1>7. WellTyped(b, notes)
  <2> DEFINE l == Remember(a.sealed, r)
             k == Append(a.locks, ct)
             s == Aggregate(k)
  <2>1. b = [DoAppend(a, actor, "seal", ct, now)
                EXCEPT !.sealed = l, !.locks = k, !.sum = s,
                       !.status = "locked", !.lockedAt = now]
    BY <1>1 DEF b, ct, DoSealLock, DoAppend, AgreementRecord
  <2>2. l \in Ledger /\ k \in Seq(Cipher) /\ k = b.locks /\ s = Aggregate(b.locks)
    BY <1>2, <1>4
  <2> HIDE DEF l, k, s
  <2>3. b \in AgreementRecord(notes, {NoCipher, s})
    BY <1>1, <1>2, <1>6, <2>1, <2>2 DEF Lengthened, DoAppend, AgreementRecord, Status
  <2> QED
    BY <2>2, <2>3 DEF WellTyped
<1>8. Metered(b)
  BY <1>3, <1>6 DEF Sound, Lengthened
<1>9. MomentsMatchStatus(b)
  <2>1. a.status \in {"open", "locked"}
    BY <1>1, <1>5 DEF AgreementRecord, Status, Terminal, TerminalStatus
  <2>2. a.closedAt = NoTime /\ a.releasedTo = Nobody
    BY <2>1 DEF Sound, MomentsMatchStatus
  <2> QED
    BY <1>2, <2>2 DEF MomentsMatchStatus, NoTime
<1>10. SumMatchesLocks(b) /\ OpenIsUnsealed(b) /\ ProvablyFunded(b)
  BY <1>2, <1>4 DEF SumMatchesLocks, OpenIsUnsealed, ProvablyFunded, FactorsMatchLocks
<1>11. OutcomeOnChain(b)
  <2>1. e.action \notin TerminalAction
    BY DEF NewReceipt, TerminalAction
  <2>2. \A i \in 1 .. Len(b.receipts) :
           b.receipts[i].action \in TerminalAction => Terminal(b) /\ i = Len(b.receipts)
    BY <1>5, <1>6, <2>1, OnlyLastCloses DEF Sound
  <2> QED
    BY <1>2, <2>2 DEF OutcomeOnChain
<1>12. LockOnChain(b)
  BY <1>2, <1>6, ValuePlacedLengthened DEF LockOnChain, LockAction, NewReceipt
<1> QED
  BY <1>4, <1>7, <1>8, <1>9, <1>10, <1>11, <1>12 DEF Sound, b

(* StartSealed: a fresh ledger replaces the old one, which held nothing.   *)
LEMMA StartSealedSound ==
    ASSUME NEW notes, NEW a, Sound(a, notes), NEW k \in Key, CanStartSealed(a)
    PROVE  Sound(DoStartSealed(a, k), notes)
PROOF
<1> DEFINE l == NewEncryptedLedger(k)
           sums == {NoCipher, Aggregate(a.locks)}
           b == DoStartSealed(a, k)
<1>1. a \in AgreementRecord(notes, sums)
  BY DEF Sound, WellTyped
<1>2. l \in Ledger /\ l.rs = <<>>
  BY DEF NewEncryptedLedger, Ledger
<1>3. l # NoLedger
  BY <1>2, NothingAssumption DEF Ledger
<1> HIDE DEF sums
<1>4. /\ b.status = a.status /\ b.lockedAt = a.lockedAt /\ b.closedAt = a.closedAt
      /\ b.releasedTo = a.releasedTo /\ b.deadline = a.deadline
      /\ b.receipts = a.receipts /\ b.steps = a.steps
      /\ b.sealed = l /\ b.locks = a.locks /\ b.sum = a.sum
  BY <1>1 DEF DoStartSealed, AgreementRecord
<1>5. b \in AgreementRecord(notes, sums)
  BY <1>1, <1>2 DEF DoStartSealed, AgreementRecord
<1> HIDE DEF b, l
<1>6. a.status = "open" /\ a.locks = <<>> /\ a.sum = NoCipher
  BY DEF CanStartSealed, Sound, OpenIsUnsealed, SumMatchesLocks, Aggregate
<1>7. WellTyped(b, notes) /\ Metered(b) /\ MomentsMatchStatus(b)
  BY <1>4, <1>5, <1>6 DEF sums, WellTyped, Sound, Metered, MomentsMatchStatus
<1>8. SumMatchesLocks(b) /\ OpenIsUnsealed(b) /\ FactorsMatchLocks(b) /\ ProvablyFunded(b)
  <2>1. Len(b.sealed.rs) = 0 /\ Len(b.locks) = 0 /\ Aggregate(b.locks) = NoCipher
    BY <1>2, <1>4, <1>6 DEF Aggregate
  <2> QED
    BY <1>3, <1>4, <1>6, <2>1
      DEF SumMatchesLocks, OpenIsUnsealed, FactorsMatchLocks, ProvablyFunded, IsSealed
<1>9. OutcomeOnChain(b) /\ LockOnChain(b)
  BY <1>4, <1>6 DEF Sound, OutcomeOnChain, LockOnChain, ValuePlaced, Terminal
<1> QED
  BY <1>7, <1>8, <1>9 DEF Sound, b

(* The unit and the host's budget are no part of what Sound speaks of.     *)
LEMMA TermsSound ==
    ASSUME NEW notes, NEW a, Sound(a, notes), NEW unit \in Symbol \cup {NoUnit},
           NEW over \in BOOLEAN
    PROVE  /\ Sound([a EXCEPT !.unit = unit], notes)
           /\ Sound([a EXCEPT !.over = over], notes)
PROOF
<1> DEFINE sums == {NoCipher, Aggregate(a.locks)}
<1>1. a \in AgreementRecord(notes, sums)
  BY DEF Sound, WellTyped
<1> HIDE DEF sums
<1>2. ASSUME NEW b \in {[a EXCEPT !.unit = unit], [a EXCEPT !.over = over]}
      PROVE  Sound(b, notes)
  <2>1. /\ b.status = a.status /\ b.lockedAt = a.lockedAt /\ b.closedAt = a.closedAt
        /\ b.releasedTo = a.releasedTo /\ b.deadline = a.deadline
        /\ b.receipts = a.receipts /\ b.steps = a.steps
        /\ b.sealed = a.sealed /\ b.locks = a.locks /\ b.sum = a.sum
    BY <1>1, <1>2 DEF AgreementRecord
  <2>2. b \in AgreementRecord(notes, sums)
    BY <1>1, <1>2 DEF AgreementRecord
  <2>3. WellTyped(b, notes) /\ Metered(b)
    BY <2>1, <2>2 DEF WellTyped, sums, Sound, Metered
  <2>4. MomentsMatchStatus(b) /\ SumMatchesLocks(b) /\ OpenIsUnsealed(b)
    BY <2>1 DEF Sound, MomentsMatchStatus, SumMatchesLocks, OpenIsUnsealed, IsSealed
  <2>5. FactorsMatchLocks(b) /\ ProvablyFunded(b)
    BY <2>1 DEF Sound, FactorsMatchLocks, ProvablyFunded, IsSealed
  <2>6. OutcomeOnChain(b) /\ LockOnChain(b)
    BY <2>1 DEF Sound, OutcomeOnChain, LockOnChain, ValuePlaced, Terminal, ClosedBy, LastReceipt
  <2> QED
    BY <2>3, <2>4, <2>5, <2>6 DEF Sound
<1> QED
  BY <1>2

(* openAgreement leaves a sound agreement with one receipt.                *)
LEMMA OpenSound ==
    ASSUME NEW notes, NoText \in notes, NEW now \in Nat
    PROVE  Sound(OpenAgreement(now), notes)
PROOF
<1> DEFINE a == [status |-> "open", unit |-> NoUnit, over |-> FALSE,
                 deadline |-> NoTime, createdAt |-> now, lockedAt |-> NoTime,
                 closedAt |-> NoTime, releasedTo |-> Nobody,
                 receipts |-> <<>>, steps |-> 0,
                 sealed |-> NoLedger, locks |-> <<>>, sum |-> NoCipher]
           b == OpenAgreement(now)
           e == NewReceipt(Buyer, "open", NoText, now)
<1>1. b = DoAppend(a, Buyer, "open", NoText, now)
  BY DEF OpenAgreement
<1>2. a \in AgreementRecord(notes, {NoCipher})
  BY DEF AgreementRecord, Status
<1>3. /\ a.status = "open" /\ a.lockedAt = NoTime /\ a.closedAt = NoTime
      /\ a.releasedTo = Nobody
      /\ a.receipts = <<>> /\ a.steps = 0
      /\ a.sealed = NoLedger /\ a.locks = <<>> /\ a.sum = NoCipher
  OBVIOUS
<1> HIDE DEF a, b
<1>4. /\ Appended(a, b, e)
      /\ b.status = "open" /\ b.lockedAt = NoTime /\ b.closedAt = NoTime
      /\ b.releasedTo = Nobody
      /\ b.sealed = NoLedger /\ b.locks = <<>> /\ b.sum = NoCipher
  BY <1>1, <1>2, <1>3 DEF DoAppend, AgreementRecord, Appended, NewReceipt
<1>5. Lengthened(a, b, e, notes)
  <2>1. "open" \in Action /\ Buyer \in Party
    BY PartyAssumption DEF Action
  <2> QED
    BY <1>2, <1>4, <2>1, AppendLengthens
<1>6. b \in AgreementRecord(notes, {NoCipher})
  BY <1>1, <1>2, <1>4, <1>5 DEF DoAppend, AgreementRecord, Lengthened
<1>7. Len(b.receipts) = 1 /\ b.receipts[1] = e /\ b.steps = 1 /\ e.action = "open"
  BY <1>3, <1>4, <1>5 DEF Lengthened, Appended, NewReceipt
<1> HIDE DEF e
<1>8. WellTyped(b, notes) /\ Metered(b)
  BY <1>6, <1>7, TermsAssumption DEF WellTyped, AgreementRecord, Metered
<1>9. /\ MomentsMatchStatus(b) /\ SumMatchesLocks(b) /\ OpenIsUnsealed(b)
      /\ FactorsMatchLocks(b) /\ ProvablyFunded(b)
  BY <1>4 DEF MomentsMatchStatus, SumMatchesLocks, OpenIsUnsealed, FactorsMatchLocks,
              ProvablyFunded, IsSealed
<1>10. OutcomeOnChain(b) /\ LockOnChain(b)
  BY <1>4, <1>7 DEF OutcomeOnChain, LockOnChain, ValuePlaced, TerminalAction, LockAction
<1> QED
  BY <1>8, <1>9, <1>10 DEF Sound, b

(* A settlement with evidence is a note followed by an acceptance, each of *)
(* which keeps the agreement sound.                                        *)
LEMMA AcceptWithEvidenceSound ==
    ASSUME NEW notes, NEW a, NEW citation \in notes, Sound(a, notes), NoText \in notes,
           NEW author \in Party, NEW actor \in Party, NEW now \in Nat,
           CanAcceptWithEvidence(a, author, actor, citation, now)
    PROVE  Sound(DoAcceptWithEvidence(a, author, actor, citation, now), notes)
PROOF
<1> DEFINE noted == DoNote(a, author, citation, now)
<1>1. Sound(noted, notes)
  BY NoteSound DEF CanAcceptWithEvidence
<1>2. CanAccept(noted, actor)
  BY DEF CanAcceptWithEvidence
<1> HIDE DEF noted
<1>3. Sound(DoAccept(noted, actor, now), notes)
  BY <1>1, <1>2, AcceptSound
<1> QED
  BY <1>3 DEF DoAcceptWithEvidence, noted

(* A wider set of notes takes nothing away.                                *)
LEMMA SoundWiden ==
    ASSUME NEW notes, NEW wider, notes \subseteq wider, NEW a, Sound(a, notes)
    PROVE  Sound(a, wider)
PROOF
<1> DEFINE sums == {NoCipher, Aggregate(a.locks)}
<1>1. a \in AgreementRecord(notes, sums)
  BY DEF Sound, WellTyped
<1> HIDE DEF sums
<1>2. a \in AgreementRecord(wider, sums)
  <2> DEFINE R(ns) == [action : Action, actor : Party, at : Nat, note : ns]
  <2>1. a.receipts \in Seq(R(notes)) /\ R(notes) \subseteq R(wider)
    BY <1>1 DEF AgreementRecord
  <2> HIDE DEF R
  <2>2. a.receipts \in Seq(R(wider))
    BY <2>1
  <2> QED
    BY <1>1, <2>2 DEF AgreementRecord, R
<1> QED
  BY <1>2 DEF Sound, WellTyped, sums

(***************************************************************************)
(* What the fold in Aggregate computes, by induction over the number of    *)
(* locks.                                                                  *)
(***************************************************************************)
(* Induction, with the property as a set of numbers: a least number        *)
(* outside the set would follow one inside it.                             *)
LEMMA Inductive ==
    ASSUME NEW T, 0 \in T, \A k \in Nat : k \in T => k + 1 \in T
    PROVE  \A k \in Nat : k \in T
PROOF
<1> SUFFICES ASSUME Nat \ T # {} PROVE FALSE
  OBVIOUS
<1>1. PICK x \in Nat \ T : \A y \in Nat \ T : ~(<<y, x>> \in OpToRel(<, Nat))
  BY NatLessThanWellFounded, WFMin
<1>2. ASSUME NEW y \in Nat, ~(<<y, x>> \in OpToRel(<, Nat))
      PROVE  ~(y < x)
  BY <1>1, <1>2 DEF OpToRel
<1>3. x \in Nat /\ x # 0 /\ x \notin T
  OBVIOUS
<1>4. x - 1 \in Nat /\ x - 1 < x /\ (x - 1) + 1 = x
  <2>1. \A z \in Nat : z # 0 => z - 1 \in Nat /\ z - 1 < z /\ (z - 1) + 1 = z
    OBVIOUS
  <2> QED
    BY <1>3, <2>1
<1>5. x - 1 \in T
  BY <1>1, <1>2, <1>4
<1> QED
  BY <1>3, <1>4, <1>5

(* The largest of a set of numbers that is bounded by one of them.         *)
LEMMA MaxIs ==
    ASSUME NEW S \in SUBSET Int, NEW x \in S, \A y \in S : y <= x
    PROVE  Max(S) = x
PROOF
<1> DEFINE P(z) == z \in S /\ \A y \in S : z >= y
<1>1. P(x)
  OBVIOUS
<1>2. P(CHOOSE z : P(z))
  BY <1>1
<1>3. Max(S) = CHOOSE z : P(z)
  BY DEF Max
<1> HIDE DEF P
<1>4. P(Max(S))
  BY <1>2, <1>3
<1>5. Max(S) \in S /\ Max(S) >= x /\ Max(S) <= x
  BY <1>4 DEF P
<1>6. Max(S) \in Int /\ x \in Int
  BY <1>5
<1> QED
  BY <1>5, <1>6

(* One solution of the recursion behind FoldLeft on sets of positions.     *)
Folds(g, c, s, n) ==
    g = [t \in SUBSET (1 .. n) |-> IF t = {} THEN c ELSE Add(g[t \ {Max(t)}], s[Max(t)])]

(* There is a solution, for any number of positions.                       *)
LEMMA FoldDefined ==
    ASSUME NEW c, NEW s
    PROVE  \A n \in Nat : \E g : Folds(g, c, s, n)
PROOF
<1> DEFINE T == {n \in Nat : \E g : Folds(g, c, s, n)}
<1>1. 0 \in T
  <2> DEFINE g == [t \in {{}} |-> c]
  <2>1. SUBSET (1 .. 0) = {{}}
    OBVIOUS
  <2>2. Folds(g, c, s, 0)
    BY <2>1 DEF Folds
  <2> QED
    BY <2>2
<1>2. ASSUME NEW n \in Nat, n \in T
      PROVE  n + 1 \in T
  <2>1. PICK g : Folds(g, c, s, n)
    BY <1>2
  <2> DEFINE G(t) == IF t = {} THEN c ELSE Add(g[t \ {Max(t)}], s[Max(t)])
  <2>2. \A t \in SUBSET (1 .. n) : g[t] = G(t)
    BY <2>1 DEF Folds
  <2> DEFINE h == [t \in SUBSET (1 .. n + 1) |->
                      IF n + 1 \in t THEN Add(g[t \ {n + 1}], s[n + 1]) ELSE g[t]]
             H(t) == IF t = {} THEN c ELSE Add(h[t \ {Max(t)}], s[Max(t)])
  <2>3. \A t \in SUBSET (1 .. n) : t \in SUBSET (1 .. n + 1) /\ n + 1 \notin t
    OBVIOUS
  <2>4. \A t \in SUBSET (1 .. n) : h[t] = g[t]
    BY <2>3
  <2>5. ASSUME NEW t \in SUBSET (1 .. n + 1)
        PROVE  h[t] = H(t)
    <3>1. CASE n + 1 \in t
      <4>1. t \in SUBSET Int /\ \A y \in t : y <= n + 1
        OBVIOUS
      <4>2. Max(t) = n + 1
        BY <3>1, <4>1, MaxIs
      <4>3. t \ {n + 1} \in SUBSET (1 .. n)
        OBVIOUS
      <4>4. h[t] = Add(g[t \ {n + 1}], s[n + 1]) /\ t # {}
        BY <3>1
      <4>5. h[t \ {n + 1}] = g[t \ {n + 1}]
        BY <2>4, <4>3
      <4> HIDE DEF h
      <4> QED
        BY <4>2, <4>4, <4>5
    <3>2. CASE n + 1 \notin t
      <4>1. t \in SUBSET (1 .. n)
        BY <3>2
      <4>2. t \ {Max(t)} \in SUBSET (1 .. n)
        BY <4>1
      <4>3. h[t] = g[t] /\ h[t \ {Max(t)}] = g[t \ {Max(t)}]
        BY <2>4, <4>1, <4>2
      <4>4. g[t] = G(t)
        BY <2>2, <4>1
      <4> HIDE DEF h
      <4> QED
        BY <4>3, <4>4
    <3> QED
      BY <3>1, <3>2
  <2>6. h = [t \in SUBSET (1 .. n + 1) |-> h[t]]
    OBVIOUS
  <2> HIDE DEF h
  <2>7. h = [t \in SUBSET (1 .. n + 1) |-> H(t)]
    BY <2>5, <2>6
  <2>8. Folds(h, c, s, n + 1)
    BY <2>7 DEF Folds
  <2> QED
    BY <2>8
<1> HIDE DEF T
<1>3. \A n \in Nat : n \in T
  BY <1>1, <1>2, Inductive
<1> QED
  BY <1>3 DEF T

AddAll(c, s) == FoldLeft(Add, c, s)

(* The sums on the way from c to AddAll(c, s).                             *)
Adds(sums, c, s, n) ==
    /\ sums[0] = c /\ AddAll(c, s) = sums[n]
    /\ \A k \in 1 .. n : sums[k] = Add(sums[k - 1], s[k])

(* FoldLeft adds one element after the other.                              *)
LEMMA FoldLeftSteps ==
    ASSUME NEW c, NEW s, NEW n \in Nat, DOMAIN s = 1 .. n
    PROVE  \E sums : Adds(sums, c, s, n)
PROOF
<1> DEFINE P(g) == Folds(g, c, s, n)
           fold == CHOOSE g : P(g)
           sums == [k \in 0 .. n |-> fold[1 .. k]]
<1>1. P(fold)
  <2>1. \E g : P(g)
    BY FoldDefined
  <2> HIDE DEF P
  <2> QED
    BY <2>1, Zenon
<1>2. AddAll(c, s) = fold[1 .. n]
  BY Zenon DEF AddAll, FoldLeft, MapThenFoldSet, Folds
<1> HIDE DEF fold
<1>3. \A t \in SUBSET (1 .. n) :
          fold[t] = IF t = {} THEN c ELSE Add(fold[t \ {Max(t)}], s[Max(t)])
  BY <1>1 DEF Folds
<1>4. sums[0] = c
  <2>1. 1 .. 0 = {} /\ {} \in SUBSET (1 .. n) /\ 0 \in 0 .. n
    OBVIOUS
  <2> QED
    BY <1>3, <2>1
<1>5. sums[n] = fold[1 .. n]
  OBVIOUS
<1>6. ASSUME NEW k \in 1 .. n
      PROVE  sums[k] = Add(sums[k - 1], s[k])
  <2>1. 1 .. k \in SUBSET (1 .. n) /\ 1 .. k # {} /\ k - 1 \in 0 .. n /\ k \in 0 .. n
    <3>1. \A i \in 1 .. k : i \in 1 .. n
      OBVIOUS
    <3>2. 1 \in 1 .. k /\ k - 1 \in 0 .. n /\ k \in 0 .. n
      OBVIOUS
    <3> QED
      BY <3>1, <3>2
  <2>2. (1 .. k) \ {k} = 1 .. k - 1
    OBVIOUS
  <2>3. Max(1 .. k) = k
    <3>1. 1 .. k \in SUBSET Int /\ k \in 1 .. k /\ \A y \in 1 .. k : y <= k
      OBVIOUS
    <3> QED
      BY <3>1, MaxIs
  <2>4. fold[1 .. k] = Add(fold[(1 .. k) \ {k}], s[k])
    BY <1>3, <2>1, <2>3
  <2> QED
    BY <2>1, <2>2, <2>4
<1> HIDE DEF sums
<1>7. Adds(sums, c, s, n)
  BY <1>2, <1>4, <1>5, <1>6 DEF Adds
<1> QED
  BY <1>7

(* The aggregate of one lock is that lock.                                 *)
LEMMA AggregateOne ==
    ASSUME NEW c
    PROVE  Aggregate(<<c>>) = c
PROOF
<1>1. Tail(<<c>>) = <<>> /\ <<c>> # <<>> /\ <<c>>[1] = c
  OBVIOUS
<1>2. AddAll(c, <<>>) = c
  <2>1. DOMAIN <<>> = 1 .. 0 /\ 0 \in Nat
    OBVIOUS
  <2> QED
    BY <2>1, FoldLeftSteps DEF Adds
<1>3. Aggregate(<<c>>) = AddAll(<<c>>[1], Tail(<<c>>))
  BY <1>1, Zenon DEF Aggregate, AddAll
<1> QED
  BY <1>1, <1>2, <1>3

(* A sum of ciphertexts is one, over the sum of their plaintexts.          *)
LEMMA AddAdds ==
    ASSUME NEW c \in Cipher, NEW d \in Cipher
    PROVE  Add(c, d) \in Cipher /\ Add(c, d).m = c.m + d.m /\ c.m \in Nat /\ d.m \in Nat
PROOF
<1> DEFINE m == c.m + d.m
           rs == c.rs \cup d.rs
<1>1. c.m \in Nat /\ d.m \in Nat /\ rs \in SUBSET Rand
  BY DEF Cipher
<1>2. m \in Nat
  BY <1>1
<1>3. Add(c, d) = [c EXCEPT !.m = m, !.rs = rs]
  BY DEF Add
<1> HIDE DEF rs
<1>4. Add(c, d) \in Cipher /\ Add(c, d).m = m
  BY <1>1, <1>2, <1>3 DEF Cipher
<1> QED
  BY <1>1, <1>4

(* The plaintext of the aggregate is the sum of the partials, counted one  *)
(* after another.                                                          *)
LEMMA AggregateIsSum ==
    ASSUME NEW locks \in Seq(Cipher), locks # <<>>
    PROVE  LET n == Len(locks)
               m == Aggregate(locks).m
           IN  \E total \in [0 .. n -> 0 .. m] :
                  /\ total[0] = 0 /\ total[n] = m
                  /\ \A i \in 1 .. n : total[i] = total[i - 1] + locks[i].m
PROOF
<1> DEFINE s == Tail(locks)
           m == Aggregate(locks).m
<1>1. PICK n \in Nat : n = Len(locks) /\ n # 0
  OBVIOUS
<1>2. PICK p \in Nat : p = n - 1
  BY <1>1
<1>3. p \in Nat /\ p + 1 = n
  BY <1>1, <1>2
<1>4. DOMAIN s = 1 .. p /\ \A k \in 1 .. p : s[k] = locks[k + 1]
  BY <1>1, <1>2
<1>5. \A i \in 1 .. n : locks[i] \in Cipher
  BY <1>1
<1> HIDE DEF s
<1>6. PICK sums : /\ sums[0] = locks[1] /\ AddAll(locks[1], s) = sums[p]
                  /\ \A k \in 1 .. p : sums[k] = Add(sums[k - 1], s[k])
  <2>1. DOMAIN s = 1 .. p
    BY <1>4
  <2>2. PICK sums : Adds(sums, locks[1], s, p)
    BY <2>1, FoldLeftSteps
  <2> QED
    BY <2>2 DEF Adds
<1>7. Aggregate(locks) = sums[p]
  <2>1. Aggregate(locks) = AddAll(locks[1], Tail(locks))
    BY Zenon DEF Aggregate, AddAll
  <2> QED
    BY <1>6, <2>1 DEF s
<1> DEFINE T == {k \in Nat : k <= p => sums[k] \in Cipher}
<1>8. \A k \in 1 .. p : k + 1 \in 1 .. n /\ s[k] \in Cipher
  <2> SUFFICES ASSUME NEW k \in 1 .. p PROVE k + 1 \in 1 .. n /\ s[k] \in Cipher
    OBVIOUS
  <2>1. k + 1 \in 1 .. n
    BY <1>3
  <2> QED
    BY <1>4, <1>5, <2>1
<1>9. 0 \in T
  <2>1. 1 \in 1 .. n
    BY <1>3
  <2> QED
    BY <1>5, <1>6, <2>1
<1>10. ASSUME NEW k \in Nat, k \in T
       PROVE  k + 1 \in T
  <2> SUFFICES ASSUME k + 1 <= p PROVE sums[k + 1] \in Cipher
    OBVIOUS
  <2>1. k + 1 \in 1 .. p /\ (k + 1) - 1 = k /\ k <= p
    BY <1>3
  <2>2. sums[k] \in Cipher
    BY <1>10, <2>1
  <2>3. sums[k + 1] = Add(sums[k], s[k + 1])
    BY <1>6, <2>1
  <2> QED
    BY <1>8, <2>1, <2>2, <2>3, AddAdds
<1> HIDE DEF T
<1>11. \A k \in Nat : k \in T
  BY <1>9, <1>10, Inductive
<1>12. \A k \in 0 .. p : sums[k] \in Cipher /\ sums[k].m \in Nat
  <2> SUFFICES ASSUME NEW k \in 0 .. p PROVE sums[k] \in Cipher /\ sums[k].m \in Nat
    OBVIOUS
  <2>1. k \in Nat /\ k <= p
    BY <1>3
  <2>2. sums[k] \in Cipher
    BY <1>11, <2>1 DEF T
  <2> QED
    BY <2>2 DEF Cipher
<1>13. \A k \in 1 .. p : sums[k].m = sums[k - 1].m + locks[k + 1].m
  <2> SUFFICES ASSUME NEW k \in 1 .. p PROVE sums[k].m = sums[k - 1].m + locks[k + 1].m
    OBVIOUS
  <2>1. k - 1 \in 0 .. p
    BY <1>3
  <2>2. sums[k - 1] \in Cipher /\ s[k] \in Cipher
    BY <1>8, <1>12, <2>1
  <2> QED
    BY <1>4, <1>6, <2>2, AddAdds
<1> DEFINE total == [i \in 0 .. n |-> IF i = 0 THEN 0 ELSE sums[i - 1].m]
<1>14. \A i \in 1 .. n : total[i] = sums[i - 1].m /\ total[i] \in Nat
  <2> SUFFICES ASSUME NEW i \in 1 .. n PROVE total[i] = sums[i - 1].m /\ total[i] \in Nat
    OBVIOUS
  <2>1. i \in 0 .. n /\ i # 0 /\ i - 1 \in 0 .. p
    BY <1>3
  <2> QED
    BY <1>12, <2>1
<1>15. total[0] = 0 /\ total = [i \in 0 .. n |-> total[i]]
  BY <1>3
<1> HIDE DEF total
<1>16. total[n] = m
  <2>1. n \in 1 .. n /\ n - 1 = p
    BY <1>3
  <2> QED
    BY <1>7, <1>14, <2>1
<1>17. ASSUME NEW i \in 1 .. n
       PROVE  total[i] = total[i - 1] + locks[i].m /\ total[i - 1] <= total[i]
  <2>1. locks[i].m \in Nat
    BY <1>5 DEF Cipher
  <2>2. total[i] = total[i - 1] + locks[i].m /\ total[i - 1] \in Nat
    <3>1. CASE i = 1
      <4>1. total[1] = sums[0].m /\ total[1 - 1] = 0
        BY <1>14, <1>15, <3>1
      <4> QED
        BY <1>6, <2>1, <3>1, <4>1
    <3>2. CASE i # 1
      <4>1. i - 1 \in 1 .. n /\ i - 1 \in 1 .. p /\ (i - 1) + 1 = i
        BY <1>3, <3>2
      <4>2. total[i] = sums[i - 1].m /\ total[i - 1] = sums[(i - 1) - 1].m /\ total[i - 1] \in Nat
        BY <1>14, <4>1
      <4>3. sums[i - 1].m = sums[(i - 1) - 1].m + locks[(i - 1) + 1].m
        BY <1>13, <4>1
      <4> QED
        BY <4>1, <4>2, <4>3
    <3> QED
      BY <3>1, <3>2
  <2> QED
    BY <2>1, <2>2
<1> DEFINE D == {j \in Nat : j <= n => total[n - j] <= m /\ total[n - j] \in Nat}
<1>18. 0 \in D
  <2>1. n - 0 = n /\ n \in 1 .. n
    BY <1>3
  <2>2. total[n] \in Nat
    BY <1>14, <2>1
  <2> HIDE DEF m
  <2> QED
    BY <1>16, <2>1, <2>2
<1>19. ASSUME NEW j \in Nat, j \in D
       PROVE  j + 1 \in D
  <2> SUFFICES ASSUME j + 1 <= n PROVE total[n - (j + 1)] <= m /\ total[n - (j + 1)] \in Nat
    OBVIOUS
  <2>1. j <= n /\ n - j \in 1 .. n /\ n - (j + 1) = (n - j) - 1 /\ n - (j + 1) \in 0 .. n
    BY <1>3
  <2>2. total[n - j] <= m /\ total[n - j] \in Nat
    BY <1>19, <2>1
  <2>3. total[n - (j + 1)] <= total[n - j]
    BY <1>17, <2>1
  <2>4. total[n - (j + 1)] \in Nat
    <3>1. CASE n - (j + 1) = 0
      BY <1>15, <3>1
    <3>2. CASE n - (j + 1) \in 1 .. n
      BY <1>14, <3>2
    <3> QED
      BY <2>1, <3>1, <3>2
  <2>5. m \in Nat
    <3>1. n \in 1 .. n
      BY <1>3
    <3> QED
      BY <1>14, <1>16, <3>1
  <2> HIDE DEF m
  <2>6. \A x, y, z \in Nat : x <= y /\ y <= z => x <= z
    OBVIOUS
  <2> QED
    BY <2>2, <2>3, <2>4, <2>5, <2>6
<1> HIDE DEF D
<1>20. \A j \in Nat : j \in D
  BY <1>18, <1>19, Inductive
<1>21. \A i \in 0 .. n : total[i] \in 0 .. m
  <2> SUFFICES ASSUME NEW i \in 0 .. n PROVE total[i] \in 0 .. m
    OBVIOUS
  <2>1. n - i \in Nat /\ n - i <= n /\ n - (n - i) = i
    BY <1>3
  <2>2. total[i] <= m /\ total[i] \in Nat
    BY <1>20, <2>1 DEF D
  <2>3. m \in Nat
    <3>1. n \in 1 .. n
      BY <1>3
    <3> QED
      BY <1>14, <1>16, <3>1
  <2> HIDE DEF m
  <2> QED
    BY <2>2, <2>3
<1> HIDE DEF m
<1>22. total \in [0 .. n -> 0 .. m]
  BY <1>15, <1>21
<1>23. \A i \in 1 .. n : total[i] = total[i - 1] + locks[i].m
  BY <1>17
<1> QED
  BY <1>1, <1>15, <1>16, <1>22, <1>23 DEF m

(* A sealed agreement that was accepted is funded by partials that add up  *)
(* to the amount.                                                          *)
LEMMA SoundAddsUp ==
    ASSUME NEW notes, NEW a, Sound(a, notes)
    PROVE  PartialsAddUp(a)
PROOF
<1> SUFFICES ASSUME a.status = "accepted", IsSealed(a)
             PROVE  \E total \in [0 .. Len(a.locks) -> 0 .. Amount] :
                       /\ total[0] = 0 /\ total[Len(a.locks)] = Amount
                       /\ \A i \in 1 .. Len(a.locks) : total[i] = total[i - 1] + a.locks[i].m
  BY DEF PartialsAddUp
<1> DEFINE sums == {NoCipher, Aggregate(a.locks)}
<1>1. a \in AgreementRecord(notes, sums)
  BY DEF Sound, WellTyped
<1> HIDE DEF sums
<1>2. a.locks \in Seq(Cipher) /\ a.sealed \in Ledger \cup {NoLedger}
  BY <1>1 DEF AgreementRecord
<1>3. /\ a.sealed.rs # <<>> /\ Aggregate(a.locks).m = Amount
      /\ Len(a.sealed.rs) = Len(a.locks)
  BY DEF Sound, ProvablyFunded, ProvesEqual, FactorsMatchLocks
<1>4. a.sealed.rs \in Seq(Rand)
  BY <1>2 DEF IsSealed, Ledger
<1>5. a.locks # <<>>
  BY <1>3, <1>4
<1> QED
  BY <1>2, <1>3, <1>5, AggregateIsSum

(***************************************************************************)
(* The signed commands: what they preserve of a contract, and that the     *)
(* commands applied to it account for its receipts the way restore asks.   *)
(* Modules Contract and Store keep such contracts; their proofs cite these *)
(* lemmas.                                                                 *)
(***************************************************************************)

(* Status, consent and number of receipts go together: nothing but the     *)
(* five commands ever writes to a contract.                                *)
ReceiptCount(c) ==
    LET n == Len(c.agreement.receipts)
    IN  /\ c.agreement.status = "open" => n = 2 /\ ~c.agreed
        /\ c.agreement.status = "locked" => n = IF c.agreed THEN 4 ELSE 3
        /\ c.agreement.status = "accepted" => c.agreed

(* A locked or settled contract holds the whole amount as one ciphertext.  *)
OneLock(a) ==
    a.status \in {"locked", "accepted"} =>
        \E ct \in Cipher : a.locks = <<ct>> /\ ct.m = Amount

(* The contract's agreement is sound, keeps to the terms, and starts with  *)
(* the two receipts New writes.                                            *)
SoundContract(c) ==
    LET a == c.agreement
    IN  /\ c \in [agreement : {a}, agreed : BOOLEAN]
        /\ \E notes : Sound(a, notes)
        /\ a.createdAt = Created /\ a.deadline = Deadline
        /\ IsSealed(a) /\ a.over = FALSE
        /\ Len(a.receipts) >= 2
        /\ a.receipts[1].action = "open" /\ a.receipts[2].action = "deadline"
        /\ ReceiptCount(c)
        /\ OneLock(a)

(* A command leaves receipts behind and nothing of the old chain changes.  *)
Continues(s, t, n) ==
    /\ Len(s) \in Nat /\ Len(t) = Len(s) + n
    /\ \A i \in 1 .. Len(s) : t[i] = s[i]

(* What one command does to a contract, as restore will read it later.     *)
Effect(c, cmd, sig, d) ==
    /\ Continues(HeadOf(c), HeadOf(d), ReceiptsOf(cmd.action))
    /\ d.agreed = (c.agreed \/ cmd.action = "agree")
    /\ d.agreement.sealed.key = c.agreement.sealed.key
    /\ \A e : e.command = cmd /\ e.sig = sig /\ e.status = d.agreement.status
              => Explains(e, d.agreement, Len(HeadOf(c)), c.agreement.status, c.agreed)

(* Whatever a command does to the status, the terms stay and so do the     *)
(* first two receipts.                                                     *)
LEMMA StaysSoundContract ==
    ASSUME NEW c, SoundContract(c), NEW d, NEW n \in Nat, NEW notes,
           d \in [agreement : {d.agreement}, agreed : BOOLEAN],
           Sound(d.agreement, notes),
           d.agreement.createdAt = c.agreement.createdAt,
           d.agreement.deadline = c.agreement.deadline,
           d.agreement.over = c.agreement.over,
           IsSealed(d.agreement),
           Continues(HeadOf(c), HeadOf(d), n),
           ReceiptCount(d), OneLock(d.agreement)
    PROVE  SoundContract(d)
PROOF
<1>1. /\ d.agreement.createdAt = Created /\ d.agreement.deadline = Deadline
      /\ d.agreement.over = FALSE
  BY DEF SoundContract
<1>2. /\ Len(d.agreement.receipts) >= 2
      /\ d.agreement.receipts[1].action = "open"
      /\ d.agreement.receipts[2].action = "deadline"
  <2> DEFINE s == c.agreement.receipts
             t == d.agreement.receipts
  <2>1. Len(s) \in Nat /\ Len(t) = Len(s) + n /\ \A i \in 1 .. Len(s) : t[i] = s[i]
    BY DEF Continues, HeadOf
  <2>2. Len(s) >= 2 /\ s[1].action = "open" /\ s[2].action = "deadline"
    BY DEF SoundContract
  <2> HIDE DEF s, t
  <2>3. Len(t) >= 2 /\ t[1] = s[1] /\ t[2] = s[2]
    BY <2>1, <2>2
  <2> QED
    BY <2>2, <2>3 DEF t
<1>3. \E ns : Sound(d.agreement, ns)
  OBVIOUS
<1> QED
  BY <1>1, <1>2, <1>3, Zenon DEF SoundContract

(* expire returns what was placed, with one receipt of the buyer's.        *)
LEMMA ExpireEffect ==
    ASSUME NEW c, SoundContract(c), NEW cmd, NEW sig, NEW now \in Nat,
           cmd.action = "expire", CanExpire(c.agreement, Buyer, now),
           NEW d, d = [c EXCEPT !.agreement = DoExpire(c.agreement, Buyer, now)]
    PROVE  SoundContract(d) /\ Effect(c, cmd, sig, d)
PROOF
<1> DEFINE a == c.agreement
           b == d.agreement
           e == NewReceipt(Buyer, "expire", NoText, now)
<1>1. PICK notes : Sound(a, notes)
  BY DEF SoundContract
<1> DEFINE wider == notes \cup {NoText}
           sums == {NoCipher, Aggregate(a.locks)}
<1>2. Sound(a, wider) /\ NoText \in wider
  BY <1>1, SoundWiden
<1> HIDE DEF wider
<1>3. a \in AgreementRecord(wider, sums)
  BY <1>2 DEF Sound, WellTyped
<1>4. c \in [agreement : {a}, agreed : BOOLEAN]
  BY DEF SoundContract
<1>5. b = DoExpire(a, Buyer, now) /\ d \in [agreement : {b}, agreed : BOOLEAN]
      /\ d.agreed = c.agreed
  BY <1>4
<1>6. Sound(b, wider)
  BY <1>2, <1>5, ExpireSound, PartyAssumption
<1> HIDE DEF sums
<1>7. /\ Appended(a, b, e) /\ b.status = "expired"
      /\ b.createdAt = a.createdAt /\ b.deadline = a.deadline /\ b.over = a.over
      /\ b.sealed = a.sealed
  BY <1>3, <1>5 DEF DoExpire, DoAppend, AgreementRecord, Appended, NewReceipt
<1> HIDE DEF b
<1>8. Lengthened(a, b, e, wider)
  <2>1. "expire" \in Action /\ Buyer \in Party
    BY PartyAssumption DEF Action
  <2> QED
    BY <1>2, <1>3, <1>7, <2>1, AppendLengthens
<1>9. Continues(HeadOf(c), HeadOf(d), 1)
  BY <1>8 DEF Continues, HeadOf, Lengthened, b
<1>10. SoundContract(d)
  <2>1. ReceiptCount(d) /\ OneLock(b) /\ IsSealed(b)
    BY <1>5, <1>7 DEF ReceiptCount, OneLock, IsSealed, SoundContract, b
  <2> QED
    BY <1>5, <1>6, <1>7, <1>9, <2>1, StaysSoundContract DEF b
<1>11. a.status \in {"open", "locked"}
  BY DEF CanExpire
<1>12. b.receipts[Len(a.receipts) + 1] = e
  BY <1>8 DEF Lengthened
<1> QED
  BY <1>5, <1>7, <1>9, <1>10, <1>11, <1>12
    DEF Effect, Explains, ReceiptsOf, HeadOf, NewReceipt, b

(* reject returns what was placed, with one receipt of the seller's.        *)
LEMMA RejectEffect ==
    ASSUME NEW c, SoundContract(c), NEW cmd, NEW sig, NEW now \in Nat,
           cmd.action = "reject", CanReject(c.agreement, Seller),
           NEW d, d = [c EXCEPT !.agreement = DoReject(c.agreement, Seller, now)]
    PROVE  SoundContract(d) /\ Effect(c, cmd, sig, d)
PROOF
<1> DEFINE a == c.agreement
           b == d.agreement
           e == NewReceipt(Seller, "reject", NoText, now)
<1>1. PICK notes : Sound(a, notes)
  BY DEF SoundContract
<1> DEFINE wider == notes \cup {NoText}
           sums == {NoCipher, Aggregate(a.locks)}
<1>2. Sound(a, wider) /\ NoText \in wider
  BY <1>1, SoundWiden
<1> HIDE DEF wider
<1>3. a \in AgreementRecord(wider, sums)
  BY <1>2 DEF Sound, WellTyped
<1>4. c \in [agreement : {a}, agreed : BOOLEAN]
  BY DEF SoundContract
<1>5. b = DoReject(a, Seller, now) /\ d \in [agreement : {b}, agreed : BOOLEAN]
      /\ d.agreed = c.agreed
  BY <1>4
<1>6. Sound(b, wider)
  BY <1>2, <1>5, RejectSound, PartyAssumption
<1> HIDE DEF sums
<1>7. /\ Appended(a, b, e) /\ b.status = "rejected"
      /\ b.createdAt = a.createdAt /\ b.deadline = a.deadline /\ b.over = a.over
      /\ b.sealed = a.sealed
  BY <1>3, <1>5 DEF DoReject, DoAppend, AgreementRecord, Appended, NewReceipt
<1> HIDE DEF b
<1>8. Lengthened(a, b, e, wider)
  <2>1. "reject" \in Action /\ Seller \in Party
    BY PartyAssumption DEF Action
  <2> QED
    BY <1>2, <1>3, <1>7, <2>1, AppendLengthens
<1>9. Continues(HeadOf(c), HeadOf(d), 1)
  BY <1>8 DEF Continues, HeadOf, Lengthened, b
<1>10. SoundContract(d)
  <2>1. ReceiptCount(d) /\ OneLock(b) /\ IsSealed(b)
    BY <1>5, <1>7 DEF ReceiptCount, OneLock, IsSealed, SoundContract, b
  <2> QED
    BY <1>5, <1>6, <1>7, <1>9, <2>1, StaysSoundContract DEF b
<1>11. a.status = "locked"
  BY DEF CanReject
<1>12. b.receipts[Len(a.receipts) + 1] = e
  BY <1>8 DEF Lengthened
<1> QED
  BY <1>5, <1>7, <1>9, <1>10, <1>11, <1>12
    DEF Effect, Explains, ReceiptsOf, HeadOf, NewReceipt, b

(* lock seals the whole amount at once, in one receipt of the buyer's.      *)
LEMMA LockEffect ==
    ASSUME NEW c, SoundContract(c), NEW cmd, NEW sig, NEW now \in Nat, NEW r \in Rand,
           cmd.action = "lock", c.agreement.status = "open",
           CanSealLock(c.agreement, Buyer, Amount, r),
           NEW d, d = [c EXCEPT !.agreement = DoSealLock(c.agreement, Buyer, Amount, r, now)]
    PROVE  SoundContract(d) /\ Effect(c, cmd, sig, d)
PROOF
<1> DEFINE a == c.agreement
           b == d.agreement
           ct == Encrypt(a.sealed, Amount, r)
           e == NewReceipt(Buyer, "seal", ct, now)
<1>1. PICK notes : Sound(a, notes)
  BY DEF SoundContract
<1> DEFINE wider == notes \cup Cipher
           sums == {NoCipher, Aggregate(a.locks)}
<1>2. Sound(a, wider) /\ Cipher \subseteq wider
  BY <1>1, SoundWiden
<1> HIDE DEF wider
<1>3. a \in AgreementRecord(wider, sums)
  BY <1>2 DEF Sound, WellTyped
<1>4. c \in [agreement : {a}, agreed : BOOLEAN]
  BY DEF SoundContract
<1>5. b = DoSealLock(a, Buyer, Amount, r, now) /\ d \in [agreement : {b}, agreed : BOOLEAN]
      /\ d.agreed = c.agreed
  BY <1>4
<1>6. Sound(b, wider)
  <2>1. Amount \in Int /\ Buyer \in Party
    BY TermsAssumption, PartyAssumption
  <2> QED
    BY <1>2, <1>5, <2>1, SealLockSound
<1> HIDE DEF sums
<1>7. /\ Appended(a, b, e) /\ b.status = "locked"
      /\ b.createdAt = a.createdAt /\ b.deadline = a.deadline /\ b.over = a.over
      /\ b.sealed = Remember(a.sealed, r) /\ b.locks = Append(a.locks, ct)
  BY <1>3, <1>5 DEF DoSealLock, DoAppend, AgreementRecord, Appended, NewReceipt
<1> HIDE DEF b
<1>8. /\ a.sealed \in Ledger /\ b.sealed.key = a.sealed.key
      /\ ct \in Cipher /\ ct.m = Amount
  <2>1. a.sealed \in Ledger
    BY <1>3 DEF AgreementRecord, SoundContract, IsSealed
  <2>2. b.sealed.key = a.sealed.key
    BY <1>7, <2>1, RememberType
  <2> QED
    BY <2>1, <2>2, TermsAssumption DEF Encrypt, Cipher, Ledger
<1>9. b.locks = <<ct>>
  <2>1. a.locks = <<>>
    BY <1>2 DEF Sound, OpenIsUnsealed
  <2> HIDE DEF ct
  <2> QED
    BY <1>7, <2>1
<1> HIDE DEF ct
<1>10. Lengthened(a, b, e, wider)
  <2>1. "seal" \in Action /\ Buyer \in Party /\ ct \in wider
    BY <1>2, <1>8, PartyAssumption DEF Action
  <2> QED
    BY <1>3, <1>7, <2>1, AppendLengthens
<1>11. Continues(HeadOf(c), HeadOf(d), 1)
  BY <1>10 DEF Continues, HeadOf, Lengthened, b
<1>12. SoundContract(d)
  <2>1. IsSealed(b)
    BY <1>7, <1>8, RememberType, NothingAssumption DEF IsSealed, Ledger
  <2>2. ReceiptCount(d)
    <3>1. ReceiptCount(c) /\ Len(b.receipts) = Len(a.receipts) + 1
      BY <1>10 DEF SoundContract, Lengthened
    <3>2. c.agreed = FALSE /\ Len(a.receipts) = 2
      BY <1>4, <3>1 DEF ReceiptCount
    <3>3. Len(b.receipts) = 3
      BY <3>1, <3>2
    <3> QED
      BY <1>5, <1>7, <3>2, <3>3 DEF ReceiptCount, b
  <2>3. OneLock(b)
    BY <1>8, <1>9 DEF OneLock
  <2> QED
    BY <1>5, <1>6, <1>7, <1>11, <2>1, <2>2, <2>3, StaysSoundContract DEF b
<1>13. b.receipts[Len(a.receipts) + 1] = e
  BY <1>10 DEF Lengthened
<1> QED
  BY <1>5, <1>7, <1>8, <1>11, <1>12, <1>13
    DEF Effect, Explains, ReceiptsOf, HeadOf, NewReceipt, b

(* agree records the seller's signature in one receipt and nothing else.    *)
LEMMA AgreeEffect ==
    ASSUME NEW c, SoundContract(c), NEW cmd, NEW sig, NEW now \in Nat,
           cmd.action = "agree", c.agreement.status = "locked", ~c.agreed,
           CanNote(c.agreement, Seller, ConsentNote(sig)),
           NEW d, d = [c EXCEPT !.agreement = DoNote(c.agreement, Seller, ConsentNote(sig), now),
                             !.agreed = TRUE]
    PROVE  SoundContract(d) /\ Effect(c, cmd, sig, d)
PROOF
<1> DEFINE a == c.agreement
           b == d.agreement
           note == ConsentNote(sig)
           e == NewReceipt(Seller, "evidence", note, now)
<1>1. PICK notes : Sound(a, notes)
  BY DEF SoundContract
<1> DEFINE wider == notes \cup {note}
           sums == {NoCipher, Aggregate(a.locks)}
<1> HIDE DEF note
<1>2. Sound(a, wider) /\ note \in wider
  BY <1>1, SoundWiden
<1> HIDE DEF wider
<1>3. a \in AgreementRecord(wider, sums)
  BY <1>2 DEF Sound, WellTyped
<1>4. c \in [agreement : {a}, agreed : BOOLEAN]
  BY DEF SoundContract
<1>5. b = DoNote(a, Seller, note, now) /\ d \in [agreement : {b}, agreed : BOOLEAN]
      /\ d.agreed = TRUE
  BY <1>4 DEF note
<1>6. Sound(b, wider)
  BY <1>2, <1>5, NoteSound, PartyAssumption DEF note
<1> HIDE DEF sums, b
<1>7. /\ Appended(a, b, e) /\ b.status = a.status
      /\ b.createdAt = a.createdAt /\ b.deadline = a.deadline /\ b.over = a.over
      /\ b.sealed = a.sealed /\ b.locks = a.locks
  BY <1>3, <1>5 DEF DoNote, DoAppend, AgreementRecord, Appended, NewReceipt
<1>8. Lengthened(a, b, e, wider)
  <2>1. "evidence" \in Action /\ Seller \in Party
    BY PartyAssumption DEF Action
  <2> QED
    BY <1>2, <1>3, <1>7, <2>1, AppendLengthens
<1>9. Continues(HeadOf(c), HeadOf(d), 1)
  BY <1>8 DEF Continues, HeadOf, Lengthened, b
<1>10. SoundContract(d)
  <2>1. ReceiptCount(d)
    <3>1. ReceiptCount(c) /\ Len(b.receipts) = Len(a.receipts) + 1
      BY <1>8 DEF SoundContract, Lengthened
    <3>2. c.agreed = FALSE /\ Len(a.receipts) = 3
      BY <1>4, <3>1 DEF ReceiptCount
    <3>3. Len(b.receipts) = 4
      BY <3>1, <3>2
    <3> QED
      BY <1>5, <1>7, <3>2, <3>3 DEF ReceiptCount, b
  <2>2. OneLock(b) /\ IsSealed(b)
    BY <1>7 DEF OneLock, IsSealed, SoundContract
  <2> QED
    BY <1>5, <1>6, <1>7, <1>9, <2>1, <2>2, StaysSoundContract DEF b
<1>11. b.receipts[Len(a.receipts) + 1] = e
  BY <1>8 DEF Lengthened
<1>12. ASSUME NEW x, x.command = cmd, x.sig = sig, x.status = b.status
       PROVE  Explains(x, b, Len(a.receipts), a.status, c.agreed)
  <2>1. /\ e.action = "evidence" /\ e.actor = Seller /\ e.note = ConsentNote(x.sig)
        /\ x.command.action = "agree" /\ x.status = "locked"
    BY <1>7, <1>12 DEF NewReceipt, note
  <2> QED
    BY <1>11, <2>1 DEF Explains
<1> QED
  BY <1>5, <1>7, <1>9, <1>10, <1>12 DEF Effect, ReceiptsOf, HeadOf, b

(* settle writes the buyer's evidence and the seller's acceptance, or       *)
(* neither.                                                                *)
LEMMA SettleEffect ==
    ASSUME NEW c, SoundContract(c), NEW cmd, NEW sig, NEW now \in Nat,
           cmd.action = "settle", c.agreed, c.agreement.status = "locked",
           CanAcceptWithEvidence(c.agreement, Buyer, Seller, cmd.evidence, now),
           NEW d, d = [c EXCEPT !.agreement =
                      DoAcceptWithEvidence(c.agreement, Buyer, Seller, cmd.evidence, now)]
    PROVE  SoundContract(d) /\ Effect(c, cmd, sig, d)
PROOF
<1> DEFINE a == c.agreement
           b == d.agreement
           note == cmd.evidence
           noted == DoNote(a, Buyer, note, now)
           e == NewReceipt(Buyer, "evidence", note, now)
           f == NewReceipt(Seller, "accept", NoText, now)
<1>1. PICK notes : Sound(a, notes)
  BY DEF SoundContract
<1> DEFINE wider == notes \cup {NoText, note}
           sums == {NoCipher, Aggregate(a.locks)}
<1> HIDE DEF note
<1>2. Sound(a, wider) /\ note \in wider /\ NoText \in wider
  BY <1>1, SoundWiden
<1> HIDE DEF wider
<1>3. a \in AgreementRecord(wider, sums)
  BY <1>2 DEF Sound, WellTyped
<1>4. c \in [agreement : {a}, agreed : BOOLEAN]
  BY DEF SoundContract
<1>5. b = DoAccept(noted, Seller, now) /\ d \in [agreement : {b}, agreed : BOOLEAN]
      /\ d.agreed = c.agreed
  BY <1>4 DEF DoAcceptWithEvidence, note
<1>6. Sound(noted, wider) /\ Sound(b, wider)
  <2>1. CanNote(a, Buyer, note) /\ CanAccept(noted, Seller)
    BY DEF CanAcceptWithEvidence, note
  <2>2. Sound(noted, wider)
    BY <1>2, <2>1, NoteSound, PartyAssumption
  <2> HIDE DEF noted
  <2>3. Sound(b, wider)
    BY <1>2, <1>5, <2>1, <2>2, AcceptSound, PartyAssumption
  <2> QED
    BY <2>2, <2>3
<1> HIDE DEF sums
<1>7. /\ Appended(a, noted, e) /\ noted.sealed = a.sealed /\ noted.locks = a.locks
      /\ noted.createdAt = a.createdAt /\ noted.deadline = a.deadline /\ noted.over = a.over
  BY <1>3 DEF DoNote, DoAppend, AgreementRecord, Appended, NewReceipt
<1> HIDE DEF noted, b
<1> DEFINE sums2 == {NoCipher, Aggregate(noted.locks)}
<1>8. noted \in AgreementRecord(wider, sums2)
  BY <1>6 DEF Sound, WellTyped
<1> HIDE DEF sums2
<1>9. /\ Appended(noted, b, f) /\ b.status = "accepted"
      /\ b.sealed = noted.sealed /\ b.locks = noted.locks
      /\ b.createdAt = noted.createdAt /\ b.deadline = noted.deadline /\ b.over = noted.over
  BY <1>5, <1>8 DEF DoAccept, DoAppend, AgreementRecord, Appended, NewReceipt
<1>10. Lengthened(a, noted, e, wider) /\ Lengthened(noted, b, f, wider)
  <2>1. {"evidence", "accept"} \subseteq Action /\ Seller \in Party /\ Buyer \in Party
    BY PartyAssumption DEF Action
  <2> QED
    BY <1>2, <1>3, <1>7, <1>8, <1>9, <2>1, AppendLengthens
<1>11. /\ Continues(HeadOf(c), HeadOf(d), 2)
       /\ b.receipts[Len(a.receipts) + 1] = e /\ b.receipts[Len(a.receipts) + 2] = f
       /\ Len(a.receipts) + 1 < Len(b.receipts)
  <2> DEFINE s == a.receipts
             t == noted.receipts
             u == b.receipts
  <2>1. /\ Len(s) \in Nat /\ Len(t) = Len(s) + 1 /\ Len(u) = Len(t) + 1
        /\ \A i \in 1 .. Len(s) : t[i] = s[i]
        /\ \A i \in 1 .. Len(t) : u[i] = t[i]
        /\ t[Len(t)] = e /\ u[Len(u)] = f
    BY <1>10 DEF Lengthened
  <2> HIDE DEF s, t, u, e, f
  <2>2. /\ Len(u) = Len(s) + 2 /\ u[Len(s) + 1] = e /\ u[Len(s) + 2] = f
        /\ \A i \in 1 .. Len(s) : u[i] = s[i]
    BY <2>1
  <2> QED
    BY <2>1, <2>2 DEF Continues, HeadOf, s, u, b
<1>12. SoundContract(d)
  <2>1. ReceiptCount(d)
    BY <1>5, <1>9 DEF ReceiptCount, b
  <2>2. OneLock(b) /\ IsSealed(b)
    BY <1>7, <1>9 DEF OneLock, IsSealed, SoundContract
  <2> QED
    BY <1>5, <1>6, <1>7, <1>9, <1>11, <2>1, <2>2, StaysSoundContract DEF b
<1>13. ASSUME NEW x, x.command = cmd, x.sig = sig, x.status = b.status
       PROVE  Explains(x, b, Len(a.receipts), a.status, c.agreed)
  <2>1. /\ e.action = "evidence" /\ e.actor = Buyer /\ e.note = x.command.evidence
        /\ f.action = "accept" /\ f.actor = Seller
        /\ x.command.action = "settle" /\ x.status = "accepted"
    BY <1>9, <1>13 DEF NewReceipt, note
  <2> QED
    BY <1>11, <2>1 DEF Explains
<1> QED
  BY <1>5, <1>7, <1>9, <1>11, <1>12, <1>13 DEF Effect, ReceiptsOf, HeadOf, b

(* A command that passes every check of applyVerified keeps the contract   *)
(* sound and has the effect restore expects of it.                         *)
LEMMA ApplyEffect ==
    ASSUME NEW c, SoundContract(c), NEW cmd, NEW sig, NEW r \in Rand, NEW now \in Nat,
           CanApplyVerified(c, cmd, sig, r, now),
           NEW d, d = DoApplyVerified(c, cmd, sig, r, now)
    PROVE  SoundContract(d) /\ Effect(c, cmd, sig, d)
PROOF
<1>1. CASE cmd.action = "expire"
  <2>1. CanExpire(c.agreement, Buyer, now)
    BY <1>1 DEF CanApplyVerified
  <2>2. d = [c EXCEPT !.agreement = DoExpire(c.agreement, Buyer, now)]
    BY <1>1 DEF DoApplyVerified
  <2> QED
    BY <1>1, <2>1, <2>2, ExpireEffect
<1>2. CASE cmd.action = "lock"
  <2>1. c.agreement.status = "open" /\ CanSealLock(c.agreement, Buyer, Amount, r)
    BY <1>2 DEF CanApplyVerified
  <2>2. d = [c EXCEPT !.agreement = DoSealLock(c.agreement, Buyer, Amount, r, now)]
    BY <1>2 DEF DoApplyVerified
  <2> QED
    BY <1>2, <2>1, <2>2, LockEffect
<1>3. CASE cmd.action = "agree"
  <2>1. /\ c.agreement.status = "locked" /\ ~c.agreed
        /\ CanNote(c.agreement, Seller, ConsentNote(sig))
    BY <1>3 DEF CanApplyVerified
  <2>2. d = [c EXCEPT !.agreement = DoNote(c.agreement, Seller, ConsentNote(sig), now),
                      !.agreed = TRUE]
    BY <1>3 DEF DoApplyVerified
  <2> QED
    BY <1>3, <2>1, <2>2, AgreeEffect
<1>4. CASE cmd.action = "settle"
  <2>1. /\ c.agreed /\ c.agreement.status = "locked"
        /\ CanAcceptWithEvidence(c.agreement, Buyer, Seller, cmd.evidence, now)
    BY <1>4 DEF CanApplyVerified
  <2>2. d = [c EXCEPT !.agreement =
                DoAcceptWithEvidence(c.agreement, Buyer, Seller, cmd.evidence, now)]
    BY <1>4 DEF DoApplyVerified
  <2> QED
    BY <1>4, <2>1, <2>2, SettleEffect
<1>5. CASE cmd.action = "reject"
  <2>1. CanReject(c.agreement, Seller)
    BY <1>5 DEF CanApplyVerified
  <2>2. d = [c EXCEPT !.agreement = DoReject(c.agreement, Seller, now)]
    BY <1>5 DEF DoApplyVerified
  <2> QED
    BY <1>5, <2>1, <2>2, RejectEffect
<1>6. cmd.action \in {"expire", "lock", "agree", "settle", "reject"}
  BY DEF CanApplyVerified
<1> QED
  BY <1>1, <1>2, <1>3, <1>4, <1>5, <1>6

(* New leaves a sound contract: opened, with its deadline on the chain and *)
(* its ledger armed.                                                       *)
LEMMA NewSound ==
    ASSUME NEW k \in Key, ProperTerms
    PROVE  /\ SoundContract(NewContract(k))
           /\ NewContract(k).agreement.status = "open" /\ NewContract(k).agreed = FALSE
           /\ NewContract(k).agreement.sealed.key = k
           /\ Len(HeadOf(NewContract(k))) = 2
PROOF
<1> DEFINE notes == {NoText, DeadlineNote(Deadline)}
           a == OpenAgreement(Created)
           b == DoSetDeadline(a, Buyer, Deadline, Created)
           d == DoStartSealed(b, k)
           e == NewReceipt(Buyer, "deadline", DeadlineNote(Deadline), Created)
           c == [agreement |-> d, agreed |-> FALSE]
<1>1. Created \in Nat /\ Deadline \in Nat /\ Deadline > Created /\ Buyer \in Party
  BY PartyAssumption DEF ProperTerms
<1>2. Sound(a, notes)
  BY <1>1, OpenSound
<1>3. /\ a.status = "open" /\ a.over = FALSE /\ a.createdAt = Created /\ a.steps = 1
      /\ Len(a.receipts) = 1 /\ a.receipts[1].action = "open"
  BY DEF OpenAgreement, DoAppend
<1>4. NoText \in notes /\ DeadlineNote(Deadline) \in notes
  OBVIOUS
<1> HIDE DEF a, notes
<1>5. a \in AgreementRecord(notes, {NoCipher, Aggregate(a.locks)})
  BY <1>2 DEF Sound, WellTyped
<1>6. /\ Appended(a, b, e) /\ b.status = "open" /\ b.deadline = Deadline
      /\ b.createdAt = Created /\ b.over = FALSE
  BY <1>3, <1>5 DEF DoSetDeadline, DoAppend, AgreementRecord, Appended, NewReceipt
<1>7. Sound(b, notes)
  <2>1. CanSetDeadline(a, Buyer, Deadline, Created)
    BY <1>1, <1>3, TermsAssumption
      DEF ProperTerms, CanSetDeadline, IsParty, Terminal, TerminalStatus, CanAppend
  <2> QED
    BY <1>1, <1>2, <1>4, <2>1, SetDeadlineSound
<1> HIDE DEF b
<1>8. Lengthened(a, b, e, notes)
  <2>1. "deadline" \in Action
    BY DEF Action
  <2> QED
    BY <1>1, <1>4, <1>5, <1>6, <2>1, AppendLengthens
<1>9. /\ Len(b.receipts) = 2 /\ b.receipts[1].action = "open"
      /\ b.receipts[2].action = "deadline"
  BY <1>3, <1>8 DEF Lengthened, NewReceipt
<1>10. b \in AgreementRecord(notes, {NoCipher, Aggregate(b.locks)})
  BY <1>7 DEF Sound, WellTyped
<1>11. /\ d.receipts = b.receipts /\ d.status = "open" /\ d.deadline = Deadline
       /\ d.createdAt = Created /\ d.over = FALSE /\ d.sealed = NewEncryptedLedger(k)
  BY <1>6, <1>10 DEF DoStartSealed, AgreementRecord
<1>12. Sound(d, notes)
  BY <1>6, <1>7, StartSealedSound DEF CanStartSealed
<1>13. IsSealed(d) /\ d.sealed.key = k
  <2>1. NewEncryptedLedger(k) \in Ledger /\ NewEncryptedLedger(k).key = k
    BY DEF NewEncryptedLedger, Ledger
  <2>2. NewEncryptedLedger(k) # NoLedger
    BY <2>1, NothingAssumption DEF Ledger
  <2> QED
    BY <1>11, <2>1, <2>2 DEF IsSealed
<1> HIDE DEF d
<1>14. c.agreement = d /\ c.agreed = FALSE /\ c \in [agreement : {d}, agreed : BOOLEAN]
  OBVIOUS
<1>15. NewContract(k) = c
  BY DEF NewContract, a, b, d
<1> HIDE DEF c
<1>16. ReceiptCount(c) /\ OneLock(d)
  BY <1>9, <1>11, <1>14 DEF ReceiptCount, OneLock
<1>17. Len(d.receipts) >= 2
  BY <1>9, <1>11
<1>18. SoundContract(c)
  BY <1>9, <1>11, <1>12, <1>13, <1>14, <1>16, <1>17 DEF SoundContract
<1> QED
  BY <1>9, <1>11, <1>13, <1>14, <1>15, <1>18 DEF HeadOf

(***************************************************************************)
(* Accounted(c, entries): the committed operations explain the contract.   *)
(* Every entry was signed by whoever had to, was prepared on a proper      *)
(* prefix of the chain and left a prefix of it; so two entries with the    *)
(* same head are one, and the loop of restore visits all of them.          *)
(***************************************************************************)
PrefixOf(h, s) == \E n \in 0 .. Len(s) : h = SubSeq(s, 1, n)

Accounted(c, entries) ==
    /\ SoundContract(c)
    /\ IsFiniteSet(entries)
    /\ \A e \in entries :
          /\ e.command.terms = ContractID
          /\ e.sig.by = Signer(e.command.action)
          /\ Len(e.command.head) < Len(HeadOf(c))
          /\ PrefixOf(e.head, HeadOf(c))
    /\ \A e, f \in entries : e.command.head = f.command.head => e = f
    /\ Replays(c, entries)

(* restore accepts a contract its operations account for.                  *)
LEMMA AccountedRestores ==
    ASSUME NEW c, NEW entries, Accounted(c, entries)
    PROVE  Restores(c, entries)
PROOF
<1>1. PICK notes : Sound(c.agreement, notes)
  BY DEF Accounted, SoundContract
<1>2. RestorePrivate(c.agreement)
  BY <1>1, SoundRestores
<1> QED
  BY <1>2 DEF Accounted, SoundContract, Restores

(* The chain of a sound contract is a sequence, and so is every prefix.    *)
LEMMA ChainType ==
    ASSUME NEW c, SoundContract(c)
    PROVE  \E R : HeadOf(c) \in Seq(R)
PROOF
<1>1. PICK notes : Sound(c.agreement, notes)
  BY DEF SoundContract
<1> DEFINE R == [action : Action, actor : Party, at : Nat, note : notes]
<1>2. c.agreement.receipts \in Seq(R)
  BY <1>1 DEF Sound, WellTyped, AgreementRecord
<1> HIDE DEF R
<1> QED
  BY <1>2 DEF HeadOf

(* A prefix of a chain is a prefix of every longer one.                    *)
LEMMA PrefixKept ==
    ASSUME NEW R, NEW S, NEW s \in Seq(R), NEW t \in Seq(S), NEW m,
           Continues(s, t, m), NEW n \in 0 .. Len(s)
    PROVE  SubSeq(t, 1, n) = SubSeq(s, 1, n)
PROOF
<1>1. ASSUME NEW i \in 1 .. n
      PROVE  t[i] = s[i]
  BY DEF Continues
<1> QED
  BY <1>1 DEF Continues

(* A whole chain is its longest prefix.                                    *)
LEMMA WholeChain ==
    ASSUME NEW R, NEW s \in Seq(R)
    PROVE  SubSeq(s, 1, Len(s)) = s
PROOF
  OBVIOUS

(* Prefixes: of itself, of a prefix's whole, and as IsPrefix has it.       *)
LEMMA PrefixFacts ==
    ASSUME NEW R, NEW s \in Seq(R)
    PROVE  /\ PrefixOf(s, s)
           /\ \A h : PrefixOf(h, s) => IsPrefix(h, s) /\ h \in Seq(R)
           /\ \A g, h : PrefixOf(g, h) /\ PrefixOf(h, s) => PrefixOf(g, s)
PROOF
<1>1. PrefixOf(s, s)
  BY WholeChain DEF PrefixOf
<1>2. ASSUME NEW h, PrefixOf(h, s)
      PROVE  IsPrefix(h, s) /\ h \in Seq(R)
  <2>1. PICK n \in 0 .. Len(s) : h = SubSeq(s, 1, n)
    BY <1>2 DEF PrefixOf
  <2>2. Len(h) = n /\ h \in Seq(R)
    BY <2>1
  <2>3. SubSeq(h, 1, n) = h
    BY <2>2, WholeChain
  <2> QED
    BY <2>1, <2>2, <2>3 DEF IsPrefix
<1>3. ASSUME NEW g, NEW h, PrefixOf(g, h), PrefixOf(h, s)
      PROVE  PrefixOf(g, s)
  <2>1. PICK n \in 0 .. Len(s) : h = SubSeq(s, 1, n)
    BY <1>3 DEF PrefixOf
  <2>2. PICK m \in 0 .. Len(h) : g = SubSeq(h, 1, m)
    BY <1>3 DEF PrefixOf
  <2>3. Len(h) = n /\ \A i \in 1 .. n : h[i] = s[i]
    BY <2>1
  <2>4. SubSeq(h, 1, m) = SubSeq(s, 1, m) /\ m \in 0 .. Len(s)
    BY <2>1, <2>2, <2>3
  <2> QED
    BY <2>2, <2>4 DEF PrefixOf
<1> QED
  BY <1>1, <1>2, <1>3

(* Where the loop stands depends only on the entries it has visited.       *)
LEMMA SameTurns ==
    ASSUME NEW v, NEW w, NEW n \in Nat, \A j \in 1 .. n : w[j] = v[j],
           NEW k \in 1 .. n + 1
    PROVE  /\ At(w, k) = At(v, k) /\ StatusAt(w, k) = StatusAt(v, k)
           /\ ConsentAt(w, k) = ConsentAt(v, k)
PROOF
<1>1. k # 1 => w[k - 1] = v[k - 1]
  OBVIOUS
<1>2. \A j \in 1 .. k - 1 : w[j] = v[j]
  OBVIOUS
<1> QED
  BY <1>1, <1>2 DEF At, StatusAt, ConsentAt

(* A turn of the loop on a chain is the same turn on every longer one.     *)
LEMMA SameVisit ==
    ASSUME NEW c, SoundContract(c), NEW d, SoundContract(d), NEW m \in Nat,
           Continues(HeadOf(c), HeadOf(d), m),
           NEW v, NEW w, NEW n \in Nat, \A j \in 1 .. n : w[j] = v[j], NEW k \in 1 .. n,
           At(v, k) \in Nat, Visits(v, k, c.agreement)
    PROVE  Visits(w, k, d.agreement)
PROOF
<1> DEFINE a == c.agreement
           b == d.agreement
           s == a.receipts
           t == b.receipts
           e == v[k]
           i == At(v, k)
           new == i + ReceiptsOf(e.command.action)
<1>1. At(w, k) = i /\ StatusAt(w, k) = StatusAt(v, k) /\ ConsentAt(w, k) = ConsentAt(v, k)
      /\ w[k] = e
  BY SameTurns
<1>2. PICK R : s \in Seq(R)
  BY ChainType DEF HeadOf
<1>3. PICK S : t \in Seq(S)
  BY ChainType DEF HeadOf
<1>4. Continues(s, t, m)
  BY DEF HeadOf
<1>5. /\ i < Len(s) /\ e.command.head = SubSeq(s, 1, i)
      /\ Explains(e, a, i, StatusAt(v, k), ConsentAt(v, k))
      /\ e.head = SubSeq(s, 1, new)
  BY DEF Visits
<1> HIDE DEF i
<1>6. i \in 0 .. Len(s) /\ i + 1 \in 1 .. Len(s) /\ i < Len(t) /\ Len(s) <= Len(t)
  BY <1>2, <1>4, <1>5 DEF i, Continues
<1>7. new \in 0 .. Len(s)
  BY <1>5, <1>6 DEF Explains, ReceiptsOf
<1>8. t[i + 1] = s[i + 1] /\ (i + 1 < Len(s) => t[i + 2] = s[i + 2] /\ i + 1 < Len(t))
  <2>1. i \in Nat /\ Len(s) \in Nat /\ Len(t) = Len(s) + m
    BY <1>4 DEF Continues, i
  <2>2. \A j \in 1 .. Len(s) : t[j] = s[j]
    BY <1>4 DEF Continues
  <2> HIDE DEF s, t
  <2>3. i + 1 < Len(s) => i + 2 \in 1 .. Len(s) /\ i + 1 < Len(t)
    BY <2>1
  <2> QED
    BY <1>6, <2>2, <2>3
<1> HIDE DEF new, e, a, b, s, t
<1>9. SubSeq(t, 1, i) = SubSeq(s, 1, i) /\ SubSeq(t, 1, new) = SubSeq(s, 1, new)
  BY <1>2, <1>3, <1>4, <1>6, <1>7, PrefixKept
<1>10. Explains(e, b, i, StatusAt(v, k), ConsentAt(v, k))
  BY <1>5, <1>8 DEF Explains, s, t
<1> QED
  BY <1>1, <1>5, <1>6, <1>9, <1>10 DEF Visits, new, e, b, t

(* The loop is always somewhere on the chain.                              *)
LEMMA TurnsOnChain ==
    ASSUME NEW c, SoundContract(c), NEW v, NEW n \in Nat,
           \A k \in 1 .. n : Visits(v, k, c.agreement), NEW k \in 1 .. n + 1,
           \A j \in 1 .. n : PrefixOf(v[j].head, HeadOf(c))
    PROVE  At(v, k) \in Nat
PROOF
<1>1. CASE k = 1
  BY <1>1 DEF At
<1>2. CASE k # 1
  <2>1. k - 1 \in 1 .. n
    BY <1>2
  <2>2. PICK l \in 0 .. Len(HeadOf(c)) : v[k - 1].head = SubSeq(HeadOf(c), 1, l)
    BY <2>1 DEF PrefixOf
  <2>3. PICK R : HeadOf(c) \in Seq(R)
    BY ChainType
  <2>4. Len(SubSeq(HeadOf(c), 1, l)) \in Nat
    BY <2>3
  <2> QED
    BY <1>2, <2>2, <2>4 DEF At
<1> QED
  BY <1>1, <1>2

(* One more turn: a command that took effect on a contract its operations  *)
(* account for leaves a contract that they and it account for.             *)
LEMMA ReplaysOneMore ==
    ASSUME NEW c, NEW entries, Accounted(c, entries), NEW cmd, NEW sig, NEW d,
           SoundContract(d), Effect(c, cmd, sig, d), cmd.head = HeadOf(c),
           NEW e, e \notin entries, e.command = cmd, e.sig = sig, e.head = HeadOf(d),
           e.status = d.agreement.status
    PROVE  Replays(d, entries \cup {e})
PROOF
<1> DEFINE a == c.agreement
           b == d.agreement
           used == Cardinality(entries)
           all == entries \cup {e}
           m == ReceiptsOf(cmd.action)
<1>1. used \in Nat /\ Cardinality(all) = used + 1
  BY FS_CardinalityType, FS_AddElement DEF Accounted
<1>2. PICK v \in [1 .. used -> entries] :
          /\ \A k \in 1 .. used : Visits(v, k, a)
          /\ At(v, used + 1) = Len(a.receipts)
          /\ StatusAt(v, used + 1) = a.status
          /\ ConsentAt(v, used + 1) = c.agreed
  BY DEF Accounted, Replays
<1> DEFINE w == [j \in 1 .. used + 1 |-> IF j = used + 1 THEN e ELSE v[j]]
<1> HIDE DEF used
<1>3. w \in [1 .. used + 1 -> all] /\ w[used + 1] = e /\ \A j \in 1 .. used : w[j] = v[j]
  BY <1>1, <1>2
<1> HIDE DEF w, all
<1>4. SoundContract(c) /\ m \in Nat /\ Continues(HeadOf(c), HeadOf(d), m)
  BY DEF Accounted, Effect, ReceiptsOf
<1>5. ASSUME NEW k \in 1 .. used
      PROVE  Visits(w, k, b)
  <2>1. \A j \in 1 .. used : PrefixOf(v[j].head, HeadOf(c))
    BY <1>2 DEF Accounted
  <2>2. At(v, k) \in Nat
    <3>1. k \in 1 .. used + 1
      BY <1>1
    <3> QED
      BY <1>1, <1>2, <1>4, <2>1, <3>1, TurnsOnChain
  <2> QED
    BY <1>1, <1>2, <1>3, <1>4, <2>2, SameVisit
<1>6. /\ At(w, used + 1) = Len(a.receipts) /\ StatusAt(w, used + 1) = a.status
      /\ ConsentAt(w, used + 1) = c.agreed
  <2>1. used + 1 \in 1 .. used + 1
    BY <1>1
  <2>2. /\ At(w, used + 1) = At(v, used + 1) /\ StatusAt(w, used + 1) = StatusAt(v, used + 1)
        /\ ConsentAt(w, used + 1) = ConsentAt(v, used + 1)
    BY <1>1, <1>3, <2>1, SameTurns
  <2> QED
    BY <1>2, <2>2
<1>7. Visits(w, used + 1, b)
  <2>1. PICK R : HeadOf(c) \in Seq(R)
    BY <1>4, ChainType
  <2>2. PICK S : HeadOf(d) \in Seq(S)
    BY ChainType
  <2>3. Len(a.receipts) < Len(b.receipts) /\ Len(b.receipts) = Len(a.receipts) + m
        /\ Len(a.receipts) \in 0 .. Len(a.receipts)
    <3>1. m \in {1, 2}
      BY DEF ReceiptsOf
    <3>2. Len(a.receipts) \in Nat /\ Len(b.receipts) = Len(a.receipts) + m
      BY <1>4 DEF Continues, HeadOf
    <3> HIDE DEF m
    <3> QED
      BY <3>1, <3>2
  <2>4. SubSeq(b.receipts, 1, Len(a.receipts)) = HeadOf(c)
    BY <1>4, <2>1, <2>2, <2>3, PrefixKept, WholeChain DEF HeadOf
  <2>5. SubSeq(b.receipts, 1, Len(b.receipts)) = HeadOf(d)
    BY <2>2, WholeChain DEF HeadOf
  <2>6. Explains(e, b, Len(a.receipts), a.status, c.agreed)
    BY DEF Effect, HeadOf
  <2> QED
    BY <1>3, <1>6, <2>3, <2>4, <2>5, <2>6 DEF Visits
<1>8. \A k \in 1 .. used + 1 : Visits(w, k, b)
  BY <1>1, <1>5, <1>7
<1>9. At(w, used + 2) = Len(b.receipts) /\ StatusAt(w, used + 2) = b.status
  BY <1>1, <1>3 DEF At, StatusAt, HeadOf
<1>10. ConsentAt(w, used + 2) = d.agreed
  <2>1. ConsentAt(w, used + 2) = (ConsentAt(w, used + 1) \/ e.command.action = "agree")
    <3>1. 1 .. (used + 2) - 1 = (1 .. (used + 1) - 1) \cup {used + 1}
      BY <1>1
    <3> QED
      BY <1>3, <3>1 DEF ConsentAt
  <2> QED
    BY <1>6, <2>1 DEF Effect
<1>11. Cardinality(all) + 1 = used + 2
  BY <1>1 DEF all
<1>12. /\ w \in [1 .. Cardinality(all) -> all]
       /\ \A k \in 1 .. Cardinality(all) : Visits(w, k, b)
       /\ At(w, Cardinality(all) + 1) = Len(b.receipts)
       /\ StatusAt(w, Cardinality(all) + 1) = b.status
       /\ ConsentAt(w, Cardinality(all) + 1) = d.agreed
  BY <1>1, <1>3, <1>8, <1>9, <1>10, <1>11 DEF all
<1> QED
  BY <1>12, Zenon DEF Replays, all

(* A contract just created is accounted for by no operations at all.       *)
LEMMA NewAccounted ==
    ASSUME NEW k \in Key, ProperTerms
    PROVE  Accounted(NewContract(k), {})
PROOF
<1> DEFINE c == NewContract(k)
<1>1. /\ SoundContract(c) /\ c.agreement.status = "open" /\ c.agreed = FALSE
      /\ Len(HeadOf(c)) = 2
  BY NewSound
<1> HIDE DEF c
<1>2. IsFiniteSet({}) /\ Cardinality({}) = 0
  BY FS_EmptySet
<1>3. Replays(c, {})
  <2> DEFINE v == [i \in 1 .. 0 |-> <<>>]
  <2>1. v \in [1 .. 0 -> {}] /\ 1 .. 0 = {} /\ 0 + 1 = 1
    OBVIOUS
  <2> HIDE DEF v
  <2>2. /\ At(v, 1) = Len(c.agreement.receipts) /\ StatusAt(v, 1) = c.agreement.status
        /\ ConsentAt(v, 1) = c.agreed
    <3>1. 1 .. 1 - 1 = {}
      OBVIOUS
    <3>2. ConsentAt(v, 1) = FALSE
      BY <3>1 DEF ConsentAt
    <3> QED
      BY <1>1, <3>2 DEF At, StatusAt, HeadOf
  <2>3. \A j \in 1 .. 0 : Visits(v, j, c.agreement)
    BY <2>1
  <2> QED
    BY <1>2, <2>1, <2>2, <2>3 DEF Replays
<1> QED
  BY <1>1, <1>2, <1>3 DEF Accounted, c

(* Applying a command with the right signature keeps a contract accounted  *)
(* for, once the command is added to its operations.                       *)
LEMMA ApplyAccounted ==
    ASSUME NEW c, NEW entries, Accounted(c, entries), NEW cmd, NEW sig,
           sig.by = Signer(cmd.action), NEW r \in Rand, NEW now \in Nat,
           CanApplyVerified(c, cmd, sig, r, now),
           NEW d, d = DoApplyVerified(c, cmd, sig, r, now),
           NEW e, e.command = cmd, e.sig = sig, e.head = HeadOf(d),
           e.status = d.agreement.status
    PROVE  /\ Accounted(d, entries \cup {e}) /\ e \notin entries
           /\ Effect(c, cmd, sig, d)
           /\ PrefixOf(HeadOf(c), HeadOf(d)) /\ HeadOf(c) # HeadOf(d)
PROOF
<1>1. SoundContract(c) /\ cmd.terms = ContractID /\ cmd.head = HeadOf(c)
  BY DEF Accounted, CanApplyVerified
<1>2. SoundContract(d) /\ Effect(c, cmd, sig, d)
  BY <1>1, ApplyEffect
<1> DEFINE m == ReceiptsOf(cmd.action)
<1>3. m \in {1, 2} /\ Continues(HeadOf(c), HeadOf(d), m)
  BY <1>2 DEF Effect, ReceiptsOf
<1> HIDE DEF m
<1>4. /\ Len(HeadOf(c)) \in Nat /\ Len(HeadOf(d)) \in Nat /\ Len(HeadOf(c)) < Len(HeadOf(d))
  BY <1>3 DEF Continues
<1>5. PICK R : HeadOf(c) \in Seq(R)
  BY <1>1, ChainType
<1>6. PICK S : HeadOf(d) \in Seq(S)
  BY <1>2, ChainType
<1>7. ASSUME NEW f \in entries
      PROVE  f.command.head # cmd.head
  BY <1>1, <1>4 DEF Accounted
<1>8. e \notin entries
  BY <1>7
<1>9. Replays(d, entries \cup {e})
  BY <1>1, <1>2, <1>8, ReplaysOneMore
<1>10. IsFiniteSet(entries \cup {e})
  BY FS_AddElement DEF Accounted
<1>11. ASSUME NEW n \in 0 .. Len(HeadOf(c))
       PROVE  /\ SubSeq(HeadOf(c), 1, n) = SubSeq(HeadOf(d), 1, n)
              /\ n \in 0 .. Len(HeadOf(d))
  BY <1>3, <1>4, <1>5, <1>6, PrefixKept
<1>12. HeadOf(d) = SubSeq(HeadOf(d), 1, Len(HeadOf(d)))
  BY <1>6, WholeChain
<1>13. ASSUME NEW f \in entries \cup {e}
       PROVE  /\ f.command.terms = ContractID
              /\ f.sig.by = Signer(f.command.action)
              /\ Len(f.command.head) < Len(HeadOf(d))
              /\ PrefixOf(f.head, HeadOf(d))
  <2>1. CASE f = e
    <3>1. Len(HeadOf(d)) \in 0 .. Len(HeadOf(d))
      BY <1>4
    <3> QED
      BY <1>1, <1>4, <1>12, <2>1, <3>1 DEF PrefixOf
  <2>2. CASE f \in entries
    <3>1. /\ f.command.terms = ContractID /\ f.sig.by = Signer(f.command.action)
          /\ Len(f.command.head) < Len(HeadOf(c))
      BY <2>2 DEF Accounted
    <3>2. PICK n \in 0 .. Len(HeadOf(c)) : f.head = SubSeq(HeadOf(c), 1, n)
      BY <2>2 DEF Accounted, PrefixOf
    <3>3. PrefixOf(f.head, HeadOf(d))
      BY <1>11, <3>2 DEF PrefixOf
    <3>4. Len(f.command.head) < Len(HeadOf(d))
      BY <1>4, <3>1
    <3> QED
      BY <3>1, <3>3, <3>4
  <2> QED
    BY <2>1, <2>2
<1>14. \A f, g \in entries \cup {e} : f.command.head = g.command.head => f = g
  BY <1>7 DEF Accounted
<1>15. PrefixOf(HeadOf(c), HeadOf(d))
  <2>1. Len(HeadOf(c)) \in 0 .. Len(HeadOf(c)) /\ HeadOf(c) = SubSeq(HeadOf(c), 1, Len(HeadOf(c)))
    BY <1>4, <1>5, WholeChain
  <2> QED
    BY <1>11, <2>1 DEF PrefixOf
<1> QED
  BY <1>2, <1>4, <1>8, <1>9, <1>10, <1>13, <1>14, <1>15 DEF Accounted
=============================================================================
