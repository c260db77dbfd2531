-------------------------- MODULE AgreementProofs ---------------------------
(***************************************************************************)
(* The invariants of Agreement for every number of parties, keys, factors, *)
(* citations and times, every amount and every step bound up to the 128    *)
(* RestorePrivate allows.                                                  *)
(***************************************************************************)
EXTENDS Agreement, KernelProofs

(* The inductive invariant: the agreement is sound over the notes the      *)
(* methods write.                                                          *)
IInv == Sound(agr, Text) /\ reply \in {"ok", "refused"}

(* What the kernel writes into a receipt is Text.                          *)
LEMMA WrittenNotes ==
    /\ NoText \in Text /\ Citation \subseteq Text /\ Cipher \subseteq Text
    /\ \A deadline \in Nat : DeadlineNote(deadline) \in Text
PROOF
<1>1. NoText \in Text /\ Citation \subseteq Text /\ Cipher \subseteq Text
  BY DEF Text
<1>2. ASSUME NEW deadline \in Nat
      PROVE  DeadlineNote(deadline) \in Text
  <2>1. deadline \div SecondTicks \in Nat
    BY TermsAssumption
  <2> QED
    BY <2>1 DEF Text, DeadlineNote
<1> QED
  BY <1>1, <1>2

(* An agreement just opened satisfies the inductive invariant.             *)
LEMMA InitInv == Init => IInv
PROOF
<1> SUFFICES ASSUME Init
             PROVE  IInv
  OBVIOUS
<1>1. PICK now \in Time : agr = OpenAgreement(now)
  BY DEF Init
<1>2. now \in Nat
  BY TimeAssumption
<1> QED
  BY <1>1, <1>2, WrittenNotes, OpenSound DEF Init, IInv

(* Every call preserves the inductive invariant: one step per action.      *)
LEMMA NextInv == IInv /\ [Next]_vars => IInv'
PROOF
<1> SUFFICES ASSUME IInv, [Next]_vars
             PROVE  IInv'
  OBVIOUS
<1>1. Sound(agr, Text) /\ Time \subseteq Nat /\ Due \subseteq Nat /\ Partial \subseteq Int
  BY TimeAssumption DEF IInv
<1>2. ASSUME NEW next, Sound(next, Text), Commit(next)
      PROVE  IInv'
  BY <1>2 DEF Commit, IInv
<1>3. ASSUME agr' = agr, reply' \in {"ok", "refused"}
      PROVE  IInv'
  BY <1>1, <1>3 DEF IInv
<1>4. CASE \E symbol \in Symbol : Denominate(symbol)
  BY <1>1, <1>2, <1>4, TermsSound DEF Denominate, WithUnit
<1>5. CASE SpendBudget
  <2> DEFINE over == ~agr.over
  <2>1. over \in BOOLEAN /\ NoUnit \in Symbol \cup {NoUnit}
    OBVIOUS
  <2>2. Commit([agr EXCEPT !.over = over])
    BY <1>5 DEF SpendBudget
  <2> HIDE DEF over
  <2>3. Sound([agr EXCEPT !.over = over], Text)
    BY <1>1, <2>1, TermsSound
  <2> QED
    BY <1>2, <2>2, <2>3
<1>6. ASSUME NEW k \in Key, StartSealed(k)
      PROVE  IInv'
  BY <1>1, <1>2, <1>6, StartSealedSound DEF StartSealed
<1>7. ASSUME NEW actor \in Party, NEW partial \in Partial, NEW r \in Rand,
             SealLockRefused(actor, partial, r)
      PROVE  IInv'
  BY <1>3, <1>7 DEF SealLockRefused
<1>8. ASSUME NEW actor \in Party, NEW partial \in Partial, NEW r \in Rand, NEW now \in Time,
             SealLock(actor, partial, r, now)
      PROVE  IInv'
  BY <1>1, <1>2, <1>8, WrittenNotes, SealLockSound DEF SealLock
<1>9. ASSUME NEW actor \in Party, NEW now \in Time, Lock(actor, now)
      PROVE  IInv'
  BY <1>1, <1>2, <1>9, WrittenNotes, LockSound DEF Lock
<1>10. ASSUME NEW actor \in Party, NEW now \in Time, Accept(actor, now)
       PROVE  IInv'
  BY <1>1, <1>2, <1>10, WrittenNotes, AcceptSound DEF Accept
<1>11. ASSUME NEW actor \in Party, NEW now \in Time, Reject(actor, now)
       PROVE  IInv'
  BY <1>1, <1>2, <1>11, WrittenNotes, RejectSound DEF Reject
<1>12. ASSUME NEW actor \in Party, NEW now \in Time, Expire(actor, now)
       PROVE  IInv'
  BY <1>1, <1>2, <1>12, WrittenNotes, ExpireSound DEF Expire
<1>13. ASSUME NEW actor \in Party, NEW now \in Time, NEW deadline \in Due,
              SetDeadline(actor, deadline, now)
       PROVE  IInv'
  BY <1>1, <1>2, <1>13, WrittenNotes, SetDeadlineSound DEF SetDeadline
<1>14. ASSUME NEW actor \in Party, NEW now \in Time, NEW citation \in Citation \cup {NoText},
              Note(actor, citation, now)
       PROVE  IInv'
  BY <1>1, <1>2, <1>14, WrittenNotes, NoteSound DEF Note
<1>15. ASSUME NEW author \in Party, NEW actor \in Party, NEW now \in Time,
              NEW citation \in Citation \cup {NoText},
              AcceptWithEvidence(author, actor, citation, now)
       PROVE  IInv'
  BY <1>1, <1>2, <1>15, WrittenNotes, AcceptWithEvidenceSound DEF AcceptWithEvidence
<1>16. ASSUME NEW author \in Party, NEW actor \in Party, NEW now \in Time,
              NEW citation \in Citation \cup {NoText},
              EvidenceRefused(author, actor, citation, now)
       PROVE  IInv'
  BY <1>3, <1>16 DEF EvidenceRefused
<1>17. CASE UNCHANGED vars
  BY <1>3, <1>17 DEF vars, IInv
<1> QED
  BY <1>4, <1>5, <1>6, <1>7, <1>8, <1>9, <1>10, <1>11, <1>12, <1>13, <1>14, <1>15, <1>16,
     <1>17 DEF Next

(* The inductive invariant implies every invariant proved below.           *)
LEMMA InvImplies ==
    IInv => /\ TypeOK /\ ChainTellsOutcome /\ FundedExactly
            /\ ProofAvailable /\ CheckpointRestores
PROOF
<1> SUFFICES ASSUME IInv
             PROVE  /\ TypeOK /\ ChainTellsOutcome /\ FundedExactly
                    /\ ProofAvailable /\ CheckpointRestores
  OBVIOUS
<1>1. Sound(agr, Text) /\ reply \in {"ok", "refused"}
  BY DEF IInv
<1>2. TypeOK /\ ChainTellsOutcome /\ FundedExactly /\ ProofAvailable
  BY <1>1, SoundAddsUp DEF Sound, TypeOK, ChainTellsOutcome, FundedExactly, ProofAvailable
<1>3. CheckpointRestores
  BY <1>1, SoundRestores DEF CheckpointRestores
<1> QED
  BY <1>2, <1>3

(* Type correctness: whatever calls are made on an agreement, it keeps the *)
(* kernel's shape and its stored sum is absent or the aggregate of its own *)
(* locks.                                                                  *)
THEOREM TypeCorrect == Spec => []TypeOK
PROOF
  BY InitInv, NextInv, InvImplies, PTL DEF Spec

(* Safety: sealed value reaches the seller only when the sealed partials,  *)
(* however many, add up to the committed amount and the ledger can prove   *)
(* it of their aggregate (acceptSealed).                                   *)
THEOREM SettlesFunded == Spec => []FundedExactly
PROOF
  BY InitInv, NextInv, InvImplies, PTL DEF Spec

(* Safety: status, payee and closing time are what the receipt chain says. *)
THEOREM ChainIsRecord == Spec => []ChainTellsOutcome
PROOF
  BY InitInv, NextInv, InvImplies, PTL DEF Spec

(* Safety: the encrypted ledger remembers exactly the factors of the       *)
(* stored locks, so an exact sum is always provable.                       *)
THEOREM ProofNeverLost == Spec => []ProofAvailable
PROOF
  BY InitInv, NextInv, InvImplies, PTL DEF Spec

(* Safety: RestorePrivate takes back the private checkpoint of every       *)
(* agreement that can be reached.                                          *)
THEOREM CheckpointsRestore == Spec => []CheckpointRestores
PROOF
  BY InitInv, NextInv, InvImplies, PTL DEF Spec

(* Where one call may take the status: it stays, becomes locked, is        *)
(* settled by the seller, or expires under the deadline that was in force. *)
StatusStep ==
    \/ agr'.status \in {agr.status, "locked", "accepted", "rejected"}
    \/ agr'.status = "expired" /\ agr'.deadline = agr.deadline /\ agr.deadline # NoTime

(* Every call takes such a step.                                           *)
LEMMA NextStatus == IInv /\ [Next]_vars => StatusStep
PROOF
<1> SUFFICES ASSUME IInv, [Next]_vars
             PROVE  StatusStep
  OBVIOUS
<1> DEFINE sums == {NoCipher, Aggregate(agr.locks)}
<1>1. agr \in AgreementRecord(Text, sums)
  BY DEF IInv, Sound, WellTyped
<1> HIDE DEF sums
<1>2. ASSUME NEW actor, NEW partial, NEW r, NEW now, SealLock(actor, partial, r, now)
      PROVE  StatusStep
  BY <1>1, <1>2 DEF SealLock, Commit, DoSealLock, DoAppend, AgreementRecord, StatusStep
<1>3. ASSUME NEW actor, NEW now, Lock(actor, now)
      PROVE  StatusStep
  BY <1>1, <1>3 DEF Lock, Commit, DoLock, DoAppend, AgreementRecord, StatusStep
<1>4. ASSUME NEW actor, NEW now, Accept(actor, now)
      PROVE  StatusStep
  BY <1>1, <1>4 DEF Accept, Commit, DoAccept, DoAppend, AgreementRecord, StatusStep
<1>5. ASSUME NEW actor, NEW now, Reject(actor, now)
      PROVE  StatusStep
  BY <1>1, <1>5 DEF Reject, Commit, DoReject, DoAppend, AgreementRecord, StatusStep
<1>6. ASSUME NEW actor, NEW now, Expire(actor, now)
      PROVE  StatusStep
  BY <1>1, <1>6 DEF Expire, Commit, DoExpire, CanExpire, DoAppend, AgreementRecord, StatusStep
<1>7. ASSUME NEW actor, NEW now, NEW deadline, SetDeadline(actor, deadline, now)
      PROVE  StatusStep
  BY <1>1, <1>7 DEF SetDeadline, Commit, DoSetDeadline, DoAppend, AgreementRecord, StatusStep
<1>8. ASSUME NEW actor, NEW now, NEW citation, Note(actor, citation, now)
      PROVE  StatusStep
  BY <1>1, <1>8 DEF Note, Commit, DoNote, DoAppend, AgreementRecord, StatusStep
<1>9. ASSUME NEW author, NEW actor, NEW now, NEW citation,
             AcceptWithEvidence(author, actor, citation, now)
      PROVE  StatusStep
  BY <1>1, <1>9 DEF AcceptWithEvidence, Commit, DoAcceptWithEvidence, DoAccept, DoNote, DoAppend, AgreementRecord, StatusStep
<1>10. ASSUME NEW k, StartSealed(k)
      PROVE  StatusStep
  BY <1>1, <1>10 DEF StartSealed, Commit, DoStartSealed, DoAppend, AgreementRecord, StatusStep
<1>11. ASSUME NEW symbol, Denominate(symbol)
       PROVE  StatusStep
  BY <1>1, <1>11 DEF Denominate, WithUnit, Commit, AgreementRecord, StatusStep
<1>12. CASE SpendBudget
  BY <1>1, <1>12 DEF SpendBudget, Commit, AgreementRecord, StatusStep
<1>13. ASSUME agr' = agr
       PROVE  StatusStep
  BY <1>13 DEF StatusStep
<1> QED
  BY <1>2, <1>3, <1>4, <1>5, <1>6, <1>7, <1>8, <1>9, <1>10,
     <1>11, <1>12, <1>13 DEF Next, SealLockRefused, EvidenceRefused, vars

(* Action property: locked value leaves the lock only by the seller's      *)
(* hand or at the deadline in force; the buyer has no takeback.            *)
THEOREM NoTakebackHolds == Spec => NoTakeback
PROOF
<1> DEFINE A == agr.status = "locked" /\ agr'.status # "locked" =>
                  \/ agr'.status \in {"accepted", "rejected"}
                     /\ agr'.receipts[Len(agr'.receipts)].actor = Seller
                  \/ agr'.status = "expired" /\ agr.deadline # NoTime
                     /\ agr'.closedAt >= agr.deadline
<1>1. ASSUME IInv, [Next]_vars
      PROVE  A
  <2>1. StatusStep
    BY <1>1, NextStatus
  <2>2. OutcomeOnChain(agr')
    BY <1>1, NextInv DEF IInv, Sound
  <2> QED
    BY <2>1, <2>2 DEF StatusStep, OutcomeOnChain, ClosedBy, LastReceipt
<1>2. IInv /\ [Next]_vars => [A]_vars
  BY <1>1
<1> QED
  BY <1>2, InitInv, NextInv, PTL DEF Spec, NoTakeback

-----------------------------------------------------------------------------
(***************************************************************************)
(* The kinds of step: a call that writes no receipt, one that writes a     *)
(* receipt and does what it says, and AcceptWithEvidence, which does that  *)
(* twice.                                                                  *)
(***************************************************************************)
ReceiptOf == [action : Action, actor : Party, at : Nat, note : Text]

(* No receipt and no material change; only an open agreement is sealed.    *)
Quiet(a, b) ==
    /\ b.receipts = a.receipts /\ Material(b) = Material(a)
    /\ Terminal(a) => b.sealed = a.sealed

(* Receipt e is appended, and deadline and locks are as it says.           *)
Bears(a, b, e) ==
    /\ ~Terminal(a)
    /\ b.receipts = Append(a.receipts, e)
    /\ e.action # "deadline" => b.deadline = a.deadline
    /\ e.action = "deadline" => b.deadline \in Nat /\ e.note = DeadlineNote(b.deadline)
    /\ e.action # "seal" => b.locks = a.locks
    /\ e.action = "seal" => b.locks = Append(a.locks, e.note)

Moves ==
    \/ Quiet(agr, agr')
    \/ \E e \in ReceiptOf : Bears(agr, agr', e)
    \/ \E mid, e, f : /\ e \in ReceiptOf /\ Bears(agr, mid, e)
                      /\ f \in ReceiptOf /\ Bears(mid, agr', f)

(* A call that succeeds bears one receipt: its fields, then the relation.  *)
LEMMA CallBears ==
    ASSUME NEW a, Sound(a, Text), ~Terminal(a), NEW actor \in Party, NEW now \in Nat
    PROVE  /\ Bears(a, DoLock(a, actor, now), NewReceipt(actor, "lock", NoText, now))
           /\ Bears(a, DoAccept(a, actor, now), NewReceipt(actor, "accept", NoText, now))
           /\ Bears(a, DoReject(a, actor, now), NewReceipt(actor, "reject", NoText, now))
           /\ Bears(a, DoExpire(a, actor, now), NewReceipt(actor, "expire", NoText, now))
           /\ \A citation : Bears(a, DoNote(a, actor, citation, now),
                                  NewReceipt(actor, "evidence", citation, now))
           /\ \A deadline \in Nat : Bears(a, DoSetDeadline(a, actor, deadline, now),
                                NewReceipt(actor, "deadline", DeadlineNote(deadline), now))
           /\ \A partial, r : Bears(a, DoSealLock(a, actor, partial, r, now),
                                NewReceipt(actor, "seal", Encrypt(a.sealed, partial, r), now))
PROOF
<1> DEFINE sums == {NoCipher, Aggregate(a.locks)}
<1>1. a \in AgreementRecord(Text, sums)
  BY DEF Sound, WellTyped
<1> HIDE DEF sums
<1> USE <1>1 DEF Bears, DoAppend, NewReceipt, AgreementRecord
<1>2. Bears(a, DoLock(a, actor, now), NewReceipt(actor, "lock", NoText, now))
  BY DEF DoLock
<1>3. Bears(a, DoAccept(a, actor, now), NewReceipt(actor, "accept", NoText, now))
  BY DEF DoAccept
<1>4. Bears(a, DoReject(a, actor, now), NewReceipt(actor, "reject", NoText, now))
  BY DEF DoReject
<1>5. Bears(a, DoExpire(a, actor, now), NewReceipt(actor, "expire", NoText, now))
  BY DEF DoExpire
<1>6. ASSUME NEW citation
      PROVE  Bears(a, DoNote(a, actor, citation, now), NewReceipt(actor, "evidence", citation, now))
  BY DEF DoNote
<1>7. ASSUME NEW deadline \in Nat
      PROVE  Bears(a, DoSetDeadline(a, actor, deadline, now),
                   NewReceipt(actor, "deadline", DeadlineNote(deadline), now))
  <2> DEFINE note == DeadlineNote(deadline)
  <2>1. DoSetDeadline(a, actor, deadline, now).deadline = deadline
    BY DEF DoSetDeadline
  <2> QED
    BY <2>1 DEF DoSetDeadline
<1>8. ASSUME NEW partial, NEW r
      PROVE  Bears(a, DoSealLock(a, actor, partial, r, now),
                   NewReceipt(actor, "seal", Encrypt(a.sealed, partial, r), now))
  BY DEF DoSealLock
<1> QED
  BY <1>2, <1>3, <1>4, <1>5, <1>6, <1>7, <1>8

(* Every step of the agreement is of one of these kinds, and a call that   *)
(* returns an error changes nothing.                                       *)
LEMMA NextMoves ==
    ASSUME IInv, [Next]_vars
    PROVE  Moves /\ (agr' = agr \/ reply' = "ok")
PROOF
<1> DEFINE Goal == Moves /\ (agr' = agr \/ reply' = "ok")
<1> SUFFICES Goal
  OBVIOUS
<1>1. Sound(agr, Text) /\ Time \subseteq Nat /\ Due \subseteq Nat
  BY TimeAssumption DEF IInv
<1> DEFINE sums == {NoCipher, Aggregate(agr.locks)}
<1>2. agr \in AgreementRecord(Text, sums)
  BY <1>1 DEF Sound, WellTyped
<1> HIDE DEF sums
<1>3. ASSUME NEW actor \in Party, NEW action \in Action, NEW note \in Text, NEW now \in Time,
             NEW next, Commit(next), Bears(agr, next, NewReceipt(actor, action, note, now))
      PROVE  Goal
  <2>1. NewReceipt(actor, action, note, now) \in ReceiptOf
    BY <1>1 DEF NewReceipt, ReceiptOf
  <2> QED
    BY <1>3, <2>1 DEF Commit, Moves
<1>4. ASSUME agr' = agr
      PROVE  Goal
  BY <1>4 DEF Moves, Quiet
<1>5. ASSUME NEW symbol, Denominate(symbol)
      PROVE  Goal
  BY <1>2, <1>5 DEF Denominate, WithUnit, Commit, Moves, Quiet, Material, AgreementRecord
<1>6. CASE SpendBudget
  BY <1>2, <1>6 DEF SpendBudget, Commit, Moves, Quiet, Material, AgreementRecord
<1>7. ASSUME NEW k, StartSealed(k)
      PROVE  Goal
  BY <1>2, <1>7 DEF StartSealed, CanStartSealed, DoStartSealed, Commit, Moves, Quiet,
                    Material, Terminal, TerminalStatus, AgreementRecord
<1> USE DEF Action
<1>8. ASSUME NEW actor \in Party, NEW now \in Time, Lock(actor, now)
      PROVE  Goal
  <2>1. ~Terminal(agr) /\ now \in Nat
    BY <1>1, <1>8 DEF Lock, CanLock, Terminal, TerminalStatus
  <2> QED
    BY <1>1, <1>3, <1>8, <2>1, CallBears, WrittenNotes DEF Lock
<1>9. ASSUME NEW actor \in Party, NEW now \in Time, Accept(actor, now)
      PROVE  Goal
  <2>1. ~Terminal(agr) /\ now \in Nat
    BY <1>1, <1>9 DEF Accept, CanAccept, Terminal, TerminalStatus
  <2> QED
    BY <1>1, <1>3, <1>9, <2>1, CallBears, WrittenNotes DEF Accept
<1>10. ASSUME NEW actor \in Party, NEW now \in Time, Reject(actor, now)
       PROVE  Goal
  <2>1. ~Terminal(agr) /\ now \in Nat
    BY <1>1, <1>10 DEF Reject, CanReject, Terminal, TerminalStatus
  <2> QED
    BY <1>1, <1>3, <1>10, <2>1, CallBears, WrittenNotes DEF Reject
<1>11. ASSUME NEW actor \in Party, NEW now \in Time, Expire(actor, now)
       PROVE  Goal
  <2>1. ~Terminal(agr) /\ now \in Nat
    BY <1>1, <1>11 DEF Expire, CanExpire, Terminal, TerminalStatus
  <2> QED
    BY <1>1, <1>3, <1>11, <2>1, CallBears, WrittenNotes DEF Expire
<1>12. ASSUME NEW actor \in Party, NEW now \in Time, NEW deadline \in Due,
              SetDeadline(actor, deadline, now)
       PROVE  Goal
  <2>1. ~Terminal(agr) /\ now \in Nat /\ deadline \in Nat
    BY <1>1, <1>12 DEF SetDeadline, CanSetDeadline
  <2> QED
    BY <1>1, <1>3, <1>12, <2>1, CallBears, WrittenNotes DEF SetDeadline
<1>13. ASSUME NEW actor \in Party, NEW now \in Time, NEW citation \in Citation \cup {NoText},
              Note(actor, citation, now)
       PROVE  Goal
  <2>1. ~Terminal(agr) /\ now \in Nat /\ citation \in Text
    BY <1>1, <1>13, WrittenNotes DEF Note, CanNote
  <2> QED
    BY <1>1, <1>3, <1>13, <2>1, CallBears DEF Note
<1>14. ASSUME NEW actor \in Party, NEW partial \in Partial, NEW r \in Rand, NEW now \in Time,
              SealLock(actor, partial, r, now)
       PROVE  Goal
  <2>1. ~Terminal(agr) /\ now \in Nat /\ CanStageSeal(agr, actor, partial, r)
    BY <1>1, <1>14 DEF SealLock, CanSealLock, CanStageSeal
  <2>2. Encrypt(agr.sealed, partial, r) \in Text
    <3> DEFINE b == DoSealLock(agr, actor, partial, r, now)
    <3>1. /\ b.sealed = Remember(agr.sealed, r)
          /\ b.locks = Append(agr.locks, Encrypt(agr.sealed, partial, r))
      BY <1>2 DEF DoSealLock, DoAppend, AgreementRecord
    <3> HIDE DEF b
    <3>2. partial \in Int
      BY TimeAssumption
    <3> QED
      BY <1>1, <2>1, <3>1, <3>2, SealKeepsFactors, WrittenNotes
  <2> QED
    BY <1>1, <1>3, <1>14, <2>1, <2>2, CallBears DEF SealLock
<1>15. ASSUME NEW author \in Party, NEW actor \in Party, NEW now \in Time,
              NEW citation \in Citation \cup {NoText},
              AcceptWithEvidence(author, actor, citation, now)
       PROVE  Goal
  <2> DEFINE mid == DoNote(agr, author, citation, now)
             e == NewReceipt(author, "evidence", citation, now)
             f == NewReceipt(actor, "accept", NoText, now)
  <2>1. /\ ~Terminal(agr) /\ now \in Nat /\ citation \in Text
        /\ CanNote(agr, author, citation) /\ CanAccept(mid, actor)
    BY <1>1, <1>15, WrittenNotes DEF AcceptWithEvidence, CanAcceptWithEvidence, CanNote
  <2>2. Bears(agr, mid, e) /\ e \in ReceiptOf /\ f \in ReceiptOf
    BY <1>1, <2>1, CallBears, WrittenNotes DEF NewReceipt, ReceiptOf
  <2>3. Sound(mid, Text)
    BY <1>1, <2>1, NoteSound
  <2>4. ~Terminal(mid)
    BY <2>1 DEF CanAccept, Terminal, TerminalStatus
  <2>5. agr' = DoAccept(mid, actor, now) /\ reply' = "ok"
    BY <1>15 DEF AcceptWithEvidence, DoAcceptWithEvidence, Commit
  <2> HIDE DEF mid, e
  <2>6. Bears(mid, agr', f)
    BY <2>1, <2>3, <2>4, <2>5, CallBears
  <2> QED
    BY <2>2, <2>5, <2>6 DEF Moves
<1> HIDE DEF Goal
<1> QED
  BY <1>4, <1>5, <1>6, <1>7, <1>8, <1>9, <1>10, <1>11, <1>12, <1>13, <1>14, <1>15
     DEF Next, SealLockRefused, EvidenceRefused, vars

(* A chain with one receipt more extends the chain.                        *)
LEMMA LongerChain ==
    ASSUME NEW rs \in Seq(ReceiptOf), NEW e \in ReceiptOf, NEW f \in ReceiptOf
    PROVE  /\ IsPrefix(rs, rs)
           /\ IsStrictPrefix(rs, Append(rs, e))
           /\ IsStrictPrefix(rs, Append(Append(rs, e), f))
PROOF
<1>1. ASSUME NEW s \in Seq(ReceiptOf), Len(s) > Len(rs), \A i \in 1 .. Len(rs) : s[i] = rs[i]
      PROVE  IsStrictPrefix(rs, s)
  <2>1. Len(rs) \in Nat /\ Len(s) \in Nat
    OBVIOUS
  <2>2. SubSeq(rs, 1, Len(rs)) = SubSeq(s, 1, Len(rs))
    BY <1>1, <2>1
  <2> QED
    BY <1>1, <2>1, <2>2 DEF IsStrictPrefix, IsPrefix
<1>2. IsPrefix(rs, rs)
  BY DEF IsPrefix
<1>3. /\ Append(rs, e) \in Seq(ReceiptOf) /\ Len(Append(rs, e)) = Len(rs) + 1
      /\ \A i \in 1 .. Len(rs) : Append(rs, e)[i] = rs[i]
  OBVIOUS
<1> DEFINE s == Append(rs, e)
<1> HIDE DEF s
<1>4. /\ Append(s, f) \in Seq(ReceiptOf) /\ Len(Append(s, f)) = Len(s) + 1
      /\ \A i \in 1 .. Len(s) : Append(s, f)[i] = s[i]
  BY <1>3 DEF s
<1>5. /\ s \in Seq(ReceiptOf) /\ Len(s) = Len(rs) + 1 /\ Len(rs) \in Nat
      /\ \A i \in 1 .. Len(rs) : s[i] = rs[i]
  BY <1>3 DEF s
<1>6. Len(Append(s, f)) > Len(rs) /\ \A i \in 1 .. Len(rs) : Append(s, f)[i] = rs[i]
  BY <1>4, <1>5
<1>7. Len(s) > Len(rs)
  BY <1>5
<1>8. IsStrictPrefix(rs, s)
  BY <1>1, <1>5, <1>7
<1>9. IsStrictPrefix(rs, Append(s, f))
  BY <1>1, <1>4, <1>6
<1> QED
  BY <1>2, <1>8, <1>9 DEF s

(* Action property: no receipt is rewritten, no material term moves        *)
(* without a new one, a closed agreement is closed for good and a call     *)
(* that returns an error leaves everything as it was.                      *)
THEOREM NoSilentChangeHolds == Spec => NoSilentChange
PROOF
<1> DEFINE A == /\ IsPrefix(agr.receipts, agr'.receipts)
                /\ Material(agr') # Material(agr) =>
                      IsStrictPrefix(agr.receipts, agr'.receipts)
                /\ Terminal(agr) =>
                      Material(agr') = Material(agr) /\ agr'.sealed = agr.sealed
                /\ reply' = "refused" => agr' = agr
<1>1. ASSUME IInv, [Next]_vars
      PROVE  A
  <2>1. Moves /\ (agr' = agr \/ reply' = "ok")
    BY <1>1, NextMoves
  <2>2. agr.receipts \in Seq(ReceiptOf)
    BY <1>1 DEF IInv, Sound, WellTyped, AgreementRecord, ReceiptOf
  <2>3. CASE Quiet(agr, agr')
    BY <2>1, <2>2, <2>3, LongerChain DEF Quiet, IsPrefix
  <2>4. ASSUME NEW e \in ReceiptOf, Bears(agr, agr', e)
        PROVE  A
    <3>1. IsStrictPrefix(agr.receipts, agr'.receipts) /\ ~Terminal(agr)
      BY <2>2, <2>4, LongerChain DEF Bears
    <3> QED
      BY <2>1, <3>1 DEF IsStrictPrefix
  <2>5. ASSUME NEW mid, NEW e \in ReceiptOf, NEW f \in ReceiptOf,
               Bears(agr, mid, e), Bears(mid, agr', f)
        PROVE  A
    <3>1. agr'.receipts = Append(Append(agr.receipts, e), f) /\ ~Terminal(agr)
      BY <2>5 DEF Bears
    <3>2. IsStrictPrefix(agr.receipts, agr'.receipts)
      BY <2>2, <3>1, LongerChain
    <3> QED
      BY <2>1, <3>1, <3>2 DEF IsStrictPrefix
  <2> HIDE DEF A
  <2> QED
    BY <2>1, <2>3, <2>4, <2>5 DEF Moves
<1>2. IInv /\ [Next]_vars => [A]_vars
  BY <1>1
<1> QED
  BY <1>2, InitInv, NextInv, PTL DEF Spec, NoSilentChange

-----------------------------------------------------------------------------
(* The deadline of an agreement is on its chain.                           *)
DeadlineOnChain(a) ==
    LET set == {i \in 1 .. Len(a.receipts) : a.receipts[i].action = "deadline"}
    IN  IF a.deadline = NoTime THEN set = {}
        ELSE \E i \in set : /\ \A j \in set : j <= i
                            /\ a.receipts[i].note = DeadlineNote(a.deadline)

(* The locks of an agreement are the notes of its seal receipts, in order. *)
SealsAt(a, seal) ==
    /\ seal \in [1 .. Len(a.locks) -> 1 .. Len(a.receipts)]
    /\ \A i, j \in DOMAIN seal : i < j => seal[i] < seal[j]
    /\ \A n \in 1 .. Len(a.receipts) :
          a.receipts[n].action = "seal" <=> \E k \in DOMAIN seal : seal[k] = n
    /\ \A k \in DOMAIN seal : a.locks[k] = a.receipts[seal[k]].note

SealsOnChain(a) == \E seal : SealsAt(a, seal)

(* A receipt keeps the deadline on the chain.                              *)
LEMMA BearsDeadline ==
    ASSUME NEW a, NEW b, NEW e \in ReceiptOf, a.receipts \in Seq(ReceiptOf),
           DeadlineOnChain(a), Bears(a, b, e)
    PROVE  DeadlineOnChain(b)
PROOF
<1> DEFINE n == Len(a.receipts)
           old == {i \in 1 .. n : a.receipts[i].action = "deadline"}
           new == {i \in 1 .. Len(b.receipts) : b.receipts[i].action = "deadline"}
<1>1. /\ n \in Nat /\ Len(b.receipts) = n + 1 /\ b.receipts[n + 1] = e
      /\ \A i \in 1 .. n : b.receipts[i] = a.receipts[i]
  BY DEF Bears
<1> HIDE DEF n
<1>2. CASE e.action = "deadline"
  <2>1. b.deadline \in Nat /\ e.note = DeadlineNote(b.deadline)
    BY <1>2 DEF Bears
  <2>2. b.deadline # NoTime
    BY <2>1 DEF NoTime
  <2>3. n + 1 \in new /\ \A j \in new : j <= n + 1
    BY <1>1, <1>2
  <2> QED
    BY <1>1, <2>1, <2>2, <2>3 DEF DeadlineOnChain
<1>3. CASE e.action # "deadline"
  <2>1. new = old
    BY <1>1, <1>3
  <2>2. b.deadline = a.deadline
    BY <1>3 DEF Bears
  <2>3. a.deadline = NoTime => old = {}
    BY DEF DeadlineOnChain, n
  <2>4. ASSUME a.deadline # NoTime
        PROVE  \E i \in old : /\ \A j \in old : j <= i
                              /\ a.receipts[i].note = DeadlineNote(a.deadline)
    BY <2>4 DEF DeadlineOnChain, n
  <2>5. \A i \in old : b.receipts[i] = a.receipts[i]
    BY <1>1
  <2> HIDE DEF old
  <2> QED
    BY <2>1, <2>2, <2>3, <2>4, <2>5 DEF DeadlineOnChain
<1> QED
  BY <1>2, <1>3

(* A receipt keeps the locks on the chain.                                 *)
LEMMA BearsSeals ==
    ASSUME NEW a, NEW b, NEW e \in ReceiptOf, a.receipts \in Seq(ReceiptOf),
           a.locks \in Seq(Text), SealsOnChain(a), Bears(a, b, e)
    PROVE  SealsOnChain(b) /\ b.locks \in Seq(Text)
PROOF
<1> DEFINE n == Len(a.receipts)
           m == Len(a.locks)
<1>1. /\ n \in Nat /\ Len(b.receipts) = n + 1 /\ b.receipts[n + 1] = e
      /\ \A i \in 1 .. n : b.receipts[i] = a.receipts[i]
  BY DEF Bears
<1>2. PICK seal : SealsAt(a, seal)
  BY DEF SealsOnChain
<1>3. m \in Nat
  OBVIOUS
<1>4. /\ seal \in [1 .. m -> 1 .. n]
      /\ \A i, j \in 1 .. m : i < j => seal[i] < seal[j]
      /\ \A i \in 1 .. n : a.receipts[i].action = "seal" <=> \E k \in 1 .. m : seal[k] = i
      /\ \A k \in 1 .. m : a.locks[k] = a.receipts[seal[k]].note
  BY <1>2 DEF SealsAt
<1>5. CASE e.action # "seal"
  <2>1. b.locks = a.locks
    BY <1>5 DEF Bears
  <2> HIDE DEF n
  <2>2. seal \in [1 .. m -> 1 .. n + 1] /\ \A k \in 1 .. m : seal[k] # n + 1
    <3>1. 1 .. n \subseteq 1 .. n + 1 /\ n + 1 \notin 1 .. n
      BY <1>1
    <3> QED
      BY <1>4, <3>1
  <2>3. \A i \in 1 .. n + 1 : b.receipts[i].action = "seal" <=> \E k \in 1 .. m : seal[k] = i
    BY <1>1, <1>4, <1>5, <2>2
  <2>4. \A k \in 1 .. m : a.locks[k] = b.receipts[seal[k]].note
    BY <1>1, <1>4
  <2>5. SealsAt(b, seal)
    BY <1>1, <1>4, <2>1, <2>2, <2>3, <2>4 DEF SealsAt
  <2> QED
    BY <2>1, <2>5 DEF SealsOnChain
<1>6. CASE e.action = "seal"
  <2>1. b.locks = Append(a.locks, e.note) /\ e.note \in Text
    BY <1>6 DEF Bears, ReceiptOf
  <2>2. /\ b.locks \in Seq(Text) /\ Len(b.locks) = m + 1 /\ b.locks[m + 1] = e.note
        /\ \A k \in 1 .. m : b.locks[k] = a.locks[k]
    BY <2>1
  <2> HIDE DEF n, m
  <2> DEFINE next == [k \in 1 .. m + 1 |-> IF k = m + 1 THEN n + 1 ELSE seal[k]]
  <2>3. /\ DOMAIN next = 1 .. m + 1 /\ next[m + 1] = n + 1
        /\ \A k \in 1 .. m : next[k] = seal[k] /\ next[k] \in 1 .. n
    BY <1>3, <1>4
  <2>4. next \in [1 .. m + 1 -> 1 .. n + 1]
    BY <1>1, <1>3, <1>4
  <2> HIDE DEF next
  <2>5. \A k \in 1 .. m + 1 : k = m + 1 \/ k \in 1 .. m
    BY <1>3
  <2>6. \A i, j \in 1 .. m + 1 : i < j => next[i] < next[j]
    <3> SUFFICES ASSUME NEW i \in 1 .. m + 1, NEW j \in 1 .. m + 1, i < j
                 PROVE  next[i] < next[j]
      OBVIOUS
    <3>1. i \in 1 .. m
      BY <1>3
    <3>2. CASE j = m + 1
      BY <1>1, <2>3, <3>1, <3>2
    <3>3. CASE j \in 1 .. m
      BY <1>4, <2>3, <3>1, <3>3
    <3> QED
      BY <2>5, <3>2, <3>3
  <2>7. \A i \in 1 .. n + 1 : b.receipts[i].action = "seal" <=>
                                 \E k \in 1 .. m + 1 : next[k] = i
    <3>1. ASSUME NEW i \in 1 .. n
          PROVE  b.receipts[i].action = "seal" <=> \E k \in 1 .. m + 1 : next[k] = i
      <4>1. (\E k \in 1 .. m : seal[k] = i) <=> (\E k \in 1 .. m + 1 : next[k] = i)
        <5>1. 1 .. m \subseteq 1 .. m + 1 /\ i # n + 1
          BY <1>1, <1>3, <3>1
        <5> QED
          BY <2>3, <2>5, <5>1
      <4> QED
        BY <1>1, <1>4, <3>1, <4>1
    <3>2. m + 1 \in 1 .. m + 1 /\ next[m + 1] = n + 1
      BY <1>3, <2>3
    <3>3. \A i \in 1 .. n + 1 : i = n + 1 \/ i \in 1 .. n
      BY <1>1
    <3> QED
      BY <1>1, <1>6, <3>1, <3>2, <3>3
  <2>8. \A k \in 1 .. m + 1 : b.locks[k] = b.receipts[next[k]].note
    BY <1>1, <1>4, <2>2, <2>3, <2>5
  <2>9. SealsAt(b, next)
    BY <1>1, <2>2, <2>3, <2>4, <2>6, <2>7, <2>8 DEF SealsAt
  <2> QED
    BY <2>2, <2>9 DEF SealsOnChain
<1> QED
  BY <1>5, <1>6

(* The second inductive invariant: deadline and locks are on the chain.    *)
ChainInv == DeadlineOnChain(agr) /\ SealsOnChain(agr)

(* An agreement just opened has neither deadline nor lock.                 *)
LEMMA InitChain == Init => ChainInv
PROOF
<1> SUFFICES ASSUME Init
             PROVE  ChainInv
  OBVIOUS
<1>1. PICK now \in Time : agr = OpenAgreement(now)
  BY DEF Init
<1> DEFINE e == NewReceipt(Buyer, "open", NoText, now)
<1>2. agr.deadline = NoTime /\ agr.locks = <<>> /\ agr.receipts = <<e>>
  BY <1>1 DEF OpenAgreement, DoAppend, NewReceipt
<1>3. e.action = "open"
  BY DEF NewReceipt
<1> HIDE DEF e
<1>4. Len(agr.receipts) = 1 /\ agr.receipts[1] = e /\ Len(agr.locks) = 0
  BY <1>2
<1>5. {i \in 1 .. Len(agr.receipts) : agr.receipts[i].action = "deadline"} = {}
  BY <1>3, <1>4
<1>6. DeadlineOnChain(agr)
  BY <1>2, <1>5 DEF DeadlineOnChain
<1> DEFINE none == [k \in 1 .. 0 |-> 1]
<1>7. DOMAIN none = {} /\ none \in [1 .. Len(agr.locks) -> 1 .. Len(agr.receipts)]
  BY <1>4
<1> HIDE DEF none
<1>8. SealsAt(agr, none)
  BY <1>3, <1>4, <1>7 DEF SealsAt
<1> QED
  BY <1>6, <1>8 DEF ChainInv, SealsOnChain

(* Every step keeps deadline and locks on the chain.                       *)
LEMMA NextChain ==
    ASSUME IInv, ChainInv, [Next]_vars
    PROVE  ChainInv'
PROOF
<1>1. Moves
  BY NextMoves
<1>2. agr.receipts \in Seq(ReceiptOf) /\ agr.locks \in Seq(Text)
  <2>1. agr.receipts \in Seq(ReceiptOf) /\ agr.locks \in Seq(Cipher)
    BY DEF IInv, Sound, WellTyped, AgreementRecord, ReceiptOf
  <2>2. Cipher \subseteq Text
    BY WrittenNotes
  <2> QED
    BY <2>1, <2>2
<1>3. DeadlineOnChain(agr) /\ SealsOnChain(agr)
  BY DEF ChainInv
<1>4. SUFFICES DeadlineOnChain(agr') /\ SealsOnChain(agr')
  <2>1. DeadlineOnChain(agr') => DeadlineOnChain(agr)'
    BY DEF DeadlineOnChain, DeadlineNote, NoTime
  <2>2. SealsOnChain(agr') => SealsOnChain(agr)'
    BY DEF SealsOnChain, SealsAt
  <2> QED
    BY <2>1, <2>2 DEF ChainInv
<1>5. CASE Quiet(agr, agr')
  <2>1. agr'.receipts = agr.receipts /\ agr'.deadline = agr.deadline /\ agr'.locks = agr.locks
    BY <1>5 DEF Quiet, Material
  <2>2. DeadlineOnChain(agr')
    BY <1>3, <2>1 DEF DeadlineOnChain
  <2>3. PICK seal : SealsAt(agr, seal)
    BY <1>3 DEF SealsOnChain
  <2>4. SealsAt(agr', seal)
    BY <2>1, <2>3 DEF SealsAt
  <2> QED
    BY <2>2, <2>4 DEF SealsOnChain
<1>6. ASSUME NEW e \in ReceiptOf, Bears(agr, agr', e)
      PROVE  DeadlineOnChain(agr') /\ SealsOnChain(agr')
  BY <1>2, <1>3, <1>6, BearsDeadline, BearsSeals
<1>7. ASSUME NEW mid, NEW e \in ReceiptOf, NEW f \in ReceiptOf,
             Bears(agr, mid, e), Bears(mid, agr', f)
      PROVE  DeadlineOnChain(agr') /\ SealsOnChain(agr')
  <2>1. DeadlineOnChain(mid) /\ SealsOnChain(mid) /\ mid.locks \in Seq(Text)
    BY <1>2, <1>3, <1>7, BearsDeadline, BearsSeals
  <2>2. mid.receipts \in Seq(ReceiptOf)
    BY <1>2, <1>7 DEF Bears
  <2> QED
    BY <1>7, <2>1, <2>2, BearsDeadline, BearsSeals
<1> QED
  BY <1>1, <1>5, <1>6, <1>7 DEF Moves

(* Both hold of every agreement that can be reached.                       *)
LEMMA ChainInvariant == Spec => [](IInv /\ ChainInv)
PROOF
<1>1. IInv /\ ChainInv /\ [Next]_vars => (IInv /\ ChainInv)'
  BY NextInv, NextChain
<1> QED
  BY <1>1, InitInv, InitChain, PTL DEF Spec

(* Safety: the deadline in force is the one of the last deadline receipt,  *)
(* to the second (SetDeadline), however often it was moved.                *)
THEOREM DeadlineIsOnLedger == Spec => []DeadlineOnLedger
PROOF
<1>1. ChainInv => DeadlineOnLedger
  BY DEF ChainInv, DeadlineOnChain, DeadlineOnLedger
<1> QED
  BY <1>1, ChainInvariant, PTL

(* Safety: the aggregated ciphertexts are the notes of the seal receipts,  *)
(* all of them and in order (sealLock).                                    *)
THEOREM SealsAreReceipted == Spec => []SealsReceipted
PROOF
<1>1. ChainInv => SealsReceipted
  <2> SUFFICES ASSUME ChainInv
               PROVE  SealsReceipted
    OBVIOUS
  <2>1. PICK seal : SealsAt(agr, seal)
    BY DEF ChainInv, SealsOnChain
  <2> QED
    BY <2>1, Zenon DEF SealsAt, SealsReceipted
<1> QED
  BY <1>1, ChainInvariant, PTL
=============================================================================
