--------------------------- MODULE ExchangeProofs ---------------------------
(***************************************************************************)
(* Theorems about module Exchange, for every set of agents, holders and    *)
(* studies.  The inductive invariant says where a held record comes from:  *)
(* it verifies, its decision and its release are ones its parties signed,  *)
(* and a release wraps the key of the offer it names.                      *)
(***************************************************************************)
EXTENDS Exchange, TLAPS

(* Offers carry the id they are filed under, and verified when sealed. *)
OffersSound ==
    /\ \E S : offers \in Seq(S)
    /\ \A n \in Ids : Hash(offers[n]) = n /\ OfferVerify(offers[n])

(* A release wraps the content key of the offer it names. *)
ReleasesSound == \A r \in releases : r.key = r.envelope

(* A record held under n is about offer n, verifies, and consists of what  *)
(* was signed.                                                             *)
RecordSound(rec, n) ==
    /\ rec = [offer |-> rec.offer, decision |-> rec.decision, release |-> rec.release]
    /\ n \in Ids /\ rec.offer = offers[n]
    /\ RecordVerify(rec)
    /\ rec.decision # None => rec.decision \in decisions
    /\ rec.release # None => rec.release \in releases

HeldSound ==
    /\ held = [h \in Holder |-> held[h]]
    /\ \A h \in Holder : \A n \in DOMAIN held[h] : RecordSound(held[h][n], n)

EInv == study \in Studies /\ OffersSound /\ ReleasesSound /\ HeldSound

(* Filing a record: the other records stay as they are. *)
LEMMA StoreFiles ==
    ASSUME NEW h, NEW rec, Store(h, rec), held = [x \in Holder |-> held[x]]
    PROVE  /\ held' = [x \in Holder |-> held'[x]]
           /\ \A x \in Holder : \A n \in DOMAIN held'[x] :
                 \/ x = h /\ n = Hash(rec.offer) /\ held'[x][n] = rec
                 \/ n \in DOMAIN held[x] /\ held'[x][n] = held[x][n]
           /\ \A x \in Holder : \A n \in DOMAIN held[x] :
                 /\ n \in DOMAIN held'[x]
                 /\ ~(x = h /\ n = Hash(rec.offer)) => held'[x][n] = held[x][n]
BY DEF Store

(* A decision that verifies for o was signed by its recipient, so it is on *)
(* the network and not somebody else's.                                    *)
LEMMA VerifiedIsSigned ==
    ASSUME NEW o, NEW d \in PresentedDecisions(o), DecisionVerify(d, o)
    PROVE  d \in decisions
BY DEF PresentedDecisions, DecisionVerify

(* A release that verifies for o and d was signed by the sender of o, so   *)
(* it is on the network and not somebody else's.                           *)
LEMMA ReleaseIsSigned ==
    ASSUME NEW o, NEW d, NEW r \in PresentedReleases(o), ReleaseVerify(r, o, d)
    PROVE  r \in releases
BY DEF PresentedReleases, ReleaseVerify

(* The initial states satisfy the invariant. *)
LEMMA InitSound == ExInit => EInv
<1> SUFFICES ASSUME ExInit PROVE EInv
  OBVIOUS
<1>1. offers \in Seq({}) /\ Ids = {}
  BY DEF ExInit, Ids
<1>2. \A h \in Holder : DOMAIN held[h] = {}
  BY DEF ExInit
<1>3. held = [h \in Holder |-> held[h]]
  BY DEF ExInit
<1>4. releases = {}
  BY DEF ExInit
<1> QED
  BY <1>1, <1>2, <1>3, <1>4 DEF EInv, OffersSound, ReleasesSound, HeldSound, ExInit

(* Nothing signed is taken back: the network only grows. *)
Grows ==
    /\ Ids \subseteq Ids' /\ \A n \in Ids : offers'[n] = offers[n]
    /\ decisions \subseteq decisions' /\ releases \subseteq releases'

(* Filing a sound record while the network grows keeps every record sound. *)
LEMMA FilingSound ==
    ASSUME HeldSound, Grows, NEW h, NEW rec, Store(h, rec), RecordSound(rec, Hash(rec.offer))'
    PROVE  HeldSound'
<1>1. /\ held' = [x \in Holder |-> held'[x]]
      /\ \A x \in Holder : \A n \in DOMAIN held'[x] :
            \/ x = h /\ n = Hash(rec.offer) /\ held'[x][n] = rec
            \/ n \in DOMAIN held[x] /\ held'[x][n] = held[x][n]
  BY StoreFiles DEF HeldSound
<1>2. ASSUME NEW x \in Holder, NEW n \in DOMAIN held'[x]
      PROVE  RecordSound(held[x][n], n)'
  <2>1. CASE x = h /\ n = Hash(rec.offer) /\ held'[x][n] = rec
    BY <2>1 DEF RecordSound
  <2>2. CASE n \in DOMAIN held[x] /\ held'[x][n] = held[x][n]
    <3>1. RecordSound(held[x][n], n)
      BY <2>2 DEF HeldSound
    <3> QED
      BY <2>2, <3>1 DEF RecordSound, Grows
  <2> QED
    BY <1>1, <1>2, <2>1, <2>2
<1> QED
  BY <1>1, <1>2 DEF HeldSound

(* While the network grows and no record is filed, records stay sound. *)
LEMMA KeepingSound ==
    ASSUME HeldSound, Grows, held' = held
    PROVE  HeldSound'
BY DEF HeldSound, RecordSound, Grows

(* A step that signs nothing leaves the network as it is. *)
LEMMA SameNetwork ==
    ASSUME EInv, study' = study,
           offers' = offers, decisions' = decisions, releases' = releases
    PROVE  study' \in Studies /\ Grows /\ OffersSound' /\ ReleasesSound'
BY DEF EInv, OffersSound, ReleasesSound, Grows, Ids

(* Every step of the exchange keeps the invariant. *)
LEMMA NextSound == EInv /\ [ExNext]_exVars => EInv'
<1> SUFFICES ASSUME EInv, [ExNext]_exVars PROVE EInv'
  OBVIOUS
<1>1. ASSUME NEW i, NEW recipient, NEW now, NEW expiry, NEW options, NEW h,
             Seal(i, recipient, now, expiry, options, h)
      PROVE  EInv'
  <2>1. PICK o : o = SealWithOptions(Len(offers) + 1, i, recipient, now, expiry, options)
    OBVIOUS
  <2>2. /\ OfferVerify(o) /\ offers' = Append(offers, o) /\ Store(h, NewRecord(o))
        /\ study' = study /\ decisions' = decisions /\ releases' = releases
    BY <1>1, <2>1 DEF Seal
  <2>3. PICK S : offers \in Seq(S)
    BY DEF EInv, OffersSound
  <2>4. o.id = Len(offers) + 1
    BY <2>1 DEF SealWithOptions
  <2>5. offers \in Seq(S \cup {o}) /\ o \in S \cup {o}
    BY <2>3
  <2>6. /\ offers' \in Seq(S \cup {o}) /\ Len(offers') = Len(offers) + 1
        /\ Len(offers) \in Nat
        /\ offers'[Len(offers) + 1] = o /\ \A n \in 1 .. Len(offers) : offers'[n] = offers[n]
    BY <2>2, <2>5
  <2>7. Ids \subseteq Ids' /\ Ids' = Ids \cup {o.id} /\ o.id \in Ids'
    BY <2>4, <2>6 DEF Ids
  <2>8. Grows
    BY <2>2, <2>6, <2>7 DEF Grows, Ids
  <2>9. OffersSound'
    <3>1. \A n \in Ids' : Hash(offers'[n]) = n /\ OfferVerify(offers'[n])
      BY <2>2, <2>4, <2>6, <2>7 DEF EInv, OffersSound, Ids, Hash
    <3> QED
      BY <2>6, <3>1 DEF OffersSound
  <2>10. RecordSound(NewRecord(o), Hash(NewRecord(o).offer))'
    BY <2>2, <2>4, <2>6, <2>7 DEF RecordSound, NewRecord, RecordVerify, Hash
  <2>11. HeldSound'
    <3>1. PICK rec : rec = NewRecord(o)
      OBVIOUS
    <3> QED
      BY <2>2, <2>8, <2>10, <3>1, FilingSound DEF EInv
  <2> QED
    BY <2>2, <2>9, <2>11 DEF EInv, ReleasesSound
<1>2. ASSUME NEW n \in Ids, NEW h, Forward(offers[n], h)
      PROVE  EInv'
  <2>1. study' \in Studies /\ Grows /\ OffersSound' /\ ReleasesSound'
    BY <1>2, SameNetwork DEF Forward
  <2>2. PICK rec : rec = NewRecord(offers[n])
    OBVIOUS
  <2>3. RecordSound(rec, Hash(rec.offer))'
    BY <1>2, <2>2 DEF Forward, EInv, OffersSound, RecordSound, NewRecord, RecordVerify, Ids
  <2> QED
    BY <1>2, <2>1, <2>2, <2>3, FilingSound DEF EInv, Forward
<1>3. ASSUME NEW n \in Ids, NEW i, NEW action, NEW now, DecideOffer(i, offers[n], action, now)
      PROVE  EInv'
  <2>1. Grows /\ held' = held
    BY <1>3 DEF DecideOffer, Grows, Ids
  <2>2. HeldSound'
    BY <2>1, KeepingSound DEF EInv
  <2> QED
    BY <1>3, <2>2 DEF DecideOffer, EInv, OffersSound, ReleasesSound, Ids
<1>4. ASSUME NEW n \in Ids, NEW i, NEW d, NEW key, NEW e, ReleaseKey(i, offers[n], d, key, e)
      PROVE  EInv'
  <2>1. Grows /\ held' = held
    BY <1>4 DEF ReleaseKey, Grows, Ids
  <2>2. HeldSound'
    BY <2>1, KeepingSound DEF EInv
  <2>3. ReleasesSound'
    BY <1>4 DEF ReleaseKey, EInv, ReleasesSound, WrapKey, CanWrapKey, ContentKey, Hash
  <2> QED
    BY <1>4, <2>2, <2>3 DEF ReleaseKey, EInv, OffersSound, Ids
<1>5. ASSUME NEW n \in Ids, NEW h \in Holder, NEW d \in PresentedDecisions(offers[n]), NEW now,
             TakeDecision(h, offers[n], d, now)
      PROVE  EInv'
  <2>1. study' \in Studies /\ Grows /\ OffersSound' /\ ReleasesSound'
    BY <1>5, SameNetwork DEF TakeDecision
  <2>2. PICK old : old = held[h][n]
    OBVIOUS
  <2>3. Hash(offers[n]) = n /\ n \in DOMAIN held[h] /\ RecordSound(old, n)
    BY <1>5, <2>2 DEF TakeDecision, EInv, OffersSound, HeldSound
  <2>4. CanApplyDecision(old, d, now) /\ Store(h, ApplyDecision(old, d))
    BY <1>5, <2>2, <2>3 DEF TakeDecision
  <2>5. d \in decisions /\ DecisionVerify(d, old.offer)
    BY <2>3, <2>4, VerifiedIsSigned DEF RecordSound, CanApplyDecision
  <2>6. PICK rec : rec = ApplyDecision(old, d)
    OBVIOUS
  <2>7. rec = [offer |-> old.offer, decision |-> d, release |-> old.release]
    BY <2>3, <2>6 DEF ApplyDecision, RecordSound
  <2>8. RecordVerify(rec)
    BY <2>3, <2>4, <2>5, <2>7 DEF RecordSound, RecordVerify, CanApplyDecision
  <2>9. RecordSound(rec, Hash(rec.offer))'
    BY <2>1, <2>3, <2>5, <2>7, <2>8 DEF RecordSound, Grows
  <2> QED
    BY <2>1, <2>4, <2>6, <2>9, FilingSound DEF EInv
<1>6. ASSUME NEW n \in Ids, NEW h \in Holder, NEW r \in PresentedReleases(offers[n]),
             TakeRelease(h, offers[n], r)
      PROVE  EInv'
  <2>1. study' \in Studies /\ Grows /\ OffersSound' /\ ReleasesSound'
    BY <1>6, SameNetwork DEF TakeRelease
  <2>2. PICK old : old = held[h][n]
    OBVIOUS
  <2>3. Hash(offers[n]) = n /\ n \in DOMAIN held[h] /\ RecordSound(old, n)
    BY <1>6, <2>2 DEF TakeRelease, EInv, OffersSound, HeldSound
  <2>4. CanApplyRelease(old, r) /\ Store(h, ApplyRelease(old, r))
    BY <1>6, <2>2, <2>3 DEF TakeRelease
  <2>5. r \in releases
    BY <2>3, <2>4, ReleaseIsSigned DEF RecordSound, CanApplyRelease
  <2>6. PICK rec : rec = ApplyRelease(old, r)
    OBVIOUS
  <2>7. rec = [offer |-> old.offer, decision |-> old.decision, release |-> r]
    BY <2>3, <2>6 DEF ApplyRelease, RecordSound
  <2>8. RecordVerify(rec)
    BY <2>3, <2>4, <2>7 DEF RecordSound, RecordVerify, CanApplyRelease
  <2>9. RecordSound(rec, Hash(rec.offer))'
    BY <2>1, <2>3, <2>5, <2>7, <2>8 DEF RecordSound, Grows
  <2> QED
    BY <2>1, <2>4, <2>6, <2>9, FilingSound DEF EInv
<1>7. CASE UNCHANGED exVars
  <2>1. study' \in Studies /\ Grows /\ OffersSound' /\ ReleasesSound' /\ held' = held
    BY <1>7, SameNetwork DEF exVars
  <2> QED
    BY <2>1, KeepingSound DEF EInv
<1>8. study.holders \subseteq Holder
  BY StudiesAssumption DEF EInv
<1> QED
  BY <1>1, <1>2, <1>3, <1>4, <1>5, <1>6, <1>7, <1>8 DEF ExNext

(* The exchange keeps its records sound in every reachable state. *)
LEMMA Sound == ExSpec => []EInv
<1> QED
  BY InitSound, NextSound, PTL DEF ExSpec

(* In every behaviour, whatever is lost, repeated, reordered or presented  *)
(* by somebody who did not sign it, a record that Open can open is opened  *)
(* by the recipient that agreed in time, with the key the sender wrapped   *)
(* for that agreement.                                                     *)
THEOREM ConsentGates == ExSpec => []ConsentGatesText
<1>1. EInv => ConsentGatesText
  <2> SUFFICES ASSUME EInv, NEW h \in Holder, NEW rec \in Held(h), NEW i \in Agent,
                      Opens(i, rec)
               PROVE  /\ i = rec.offer.recipient
                      /\ rec.decision \in decisions /\ rec.decision.by = i
                      /\ rec.decision.action = "agree" /\ rec.decision.at < rec.offer.expires
                      /\ rec.release \in releases
                      /\ rec.release.acceptance = rec.decision
                      /\ rec.release.by = rec.offer.sender
                      /\ \A now \in study.times : State(rec, now) = "key-released"
    BY DEF ConsentGatesText
  <2>1. PICK n \in DOMAIN held[h] : rec = held[h][n]
    BY DEF Held
  <2>2. RecordSound(rec, n)
    BY <2>1 DEF EInv, HeldSound
  <2>3. rec.release # None /\ i = rec.offer.recipient
    BY DEF Opens
  <2>4. rec.decision # None /\ ReleaseVerify(rec.release, rec.offer, rec.decision)
    BY <2>2, <2>3 DEF RecordSound, RecordVerify
  <2>5. \A now \in study.times : State(rec, now) = "key-released"
    BY <2>3 DEF State
  <2> QED
    BY <2>2, <2>3, <2>4, <2>5 DEF RecordSound, ReleaseVerify, DecisionVerify
<1> QED
  BY <1>1, Sound, PTL

(* In every behaviour the release a record carries works: it was signed by *)
(* the sender, who could wrap no other key than the offer's own, and so    *)
(* the recipient can open the record.                                      *)
THEOREM ReleaseWorks == ExSpec => []ReleasedOpens
<1>1. EInv => ReleasedOpens
  <2> SUFFICES ASSUME EInv, NEW h \in Holder, NEW rec \in Held(h), rec.release # None
               PROVE  Opens(rec.offer.recipient, rec)
    BY DEF ReleasedOpens
  <2>1. PICK n \in DOMAIN held[h] : rec = held[h][n]
    BY DEF Held
  <2>2. RecordSound(rec, n)
    BY <2>1 DEF EInv, HeldSound
  <2>3. rec.release.key = rec.release.envelope
    BY <2>2 DEF RecordSound, EInv, ReleasesSound
  <2>4. rec.release.envelope = Hash(rec.offer)
    BY <2>2 DEF RecordSound, RecordVerify, ReleaseVerify
  <2> QED
    BY <2>2, <2>3, <2>4 DEF Opens, RecordSound, ContentKey, Hash
<1> QED
  BY <1>1, Sound, PTL

(* In every behaviour ApplyDecision and ApplyRelease take the decision and *)
(* the release a record carries again at any clock reading, and no other.  *)
THEOREM RetryHonoured == ExSpec => []ExactRetryHonoured
<1>1. EInv => ExactRetryHonoured
  <2> SUFFICES ASSUME EInv, NEW h \in Holder, NEW rec \in Held(h)
               PROVE  /\ rec.decision # None =>
                            \A now \in study.times, d \in PresentedDecisions(rec.offer) :
                                CanApplyDecision(rec, d, now) <=> d = rec.decision
                      /\ rec.release # None =>
                            \A r \in PresentedReleases(rec.offer) :
                                CanApplyRelease(rec, r) <=> r = rec.release
    BY DEF ExactRetryHonoured
  <2>1. RecordVerify(rec)
    BY DEF Held, EInv, HeldSound, RecordSound
  <2> QED
    BY <2>1 DEF RecordVerify, CanApplyDecision, CanApplyRelease
<1> QED
  BY <1>1, Sound, PTL

(* Every record is still there after the step, and says what it said. *)
KeepsRecords ==
    \A h \in Holder : \A n \in DOMAIN held[h] :
        n \in DOMAIN held'[h] /\ StaysFinal(held[h][n], held'[h][n])

(* A record that stays as it is stays final. *)
LEMMA SameStaysFinal == ASSUME NEW rec PROVE StaysFinal(rec, rec)
BY DEF StaysFinal

(* Filing a record that stays final, or one for an offer the holder had no *)
(* record of, keeps every record.                                          *)
LEMMA FilingKeeps ==
    ASSUME HeldSound, NEW h, NEW rec, Store(h, rec),
           h \in Holder /\ Hash(rec.offer) \in DOMAIN held[h] =>
               StaysFinal(held[h][Hash(rec.offer)], rec)
    PROVE  KeepsRecords
<1> SUFFICES ASSUME NEW x \in Holder, NEW n \in DOMAIN held[x]
             PROVE  n \in DOMAIN held'[x] /\ StaysFinal(held[x][n], held'[x][n])
  BY DEF KeepsRecords
<1>1. /\ n \in DOMAIN held'[x]
      /\ \/ x = h /\ n = Hash(rec.offer) /\ held'[x][n] = rec
         \/ held'[x][n] = held[x][n]
  BY StoreFiles DEF HeldSound
<1>2. CASE held'[x][n] = held[x][n]
  BY <1>1, <1>2, SameStaysFinal
<1>3. CASE x = h /\ n = Hash(rec.offer) /\ held'[x][n] = rec
  BY <1>1, <1>3
<1> QED
  BY <1>1, <1>2, <1>3

(* No step replaces or withdraws what a record carries. *)
LEMMA StepKeeps == EInv /\ ExNext => KeepsRecords
<1> SUFFICES ASSUME EInv, ExNext PROVE KeepsRecords
  OBVIOUS
<1>1. ASSUME NEW i, NEW recipient, NEW now, NEW expiry, NEW options, NEW h,
             Seal(i, recipient, now, expiry, options, h)
      PROVE  KeepsRecords
  <2>1. PICK o : o = SealWithOptions(Len(offers) + 1, i, recipient, now, expiry, options)
    OBVIOUS
  <2>2. PICK rec : rec = NewRecord(o)
    OBVIOUS
  <2>3. Store(h, rec) /\ Hash(rec.offer) \notin DOMAIN held[h]
    BY <1>1, <2>1, <2>2 DEF Seal, Admits, NewRecord
  <2> QED
    BY <2>3, FilingKeeps DEF EInv
<1>2. ASSUME NEW n \in Ids, NEW h, Forward(offers[n], h)
      PROVE  KeepsRecords
  <2>1. PICK rec : rec = NewRecord(offers[n])
    OBVIOUS
  <2>2. Store(h, rec) /\ Hash(rec.offer) \notin DOMAIN held[h]
    BY <1>2, <2>1 DEF Forward, Admits, NewRecord
  <2> QED
    BY <2>2, FilingKeeps DEF EInv
<1>3. ASSUME held' = held
      PROVE  KeepsRecords
  BY <1>3, SameStaysFinal DEF KeepsRecords
<1>4. ASSUME NEW n \in Ids, NEW h \in Holder, NEW d, NEW now,
             TakeDecision(h, offers[n], d, now)
      PROVE  KeepsRecords
  <2>1. PICK old : old = held[h][n]
    OBVIOUS
  <2>2. Hash(offers[n]) = n /\ n \in DOMAIN held[h] /\ RecordSound(old, n)
    BY <1>4, <2>1 DEF TakeDecision, EInv, OffersSound, HeldSound
  <2>3. PICK rec : rec = ApplyDecision(old, d)
    OBVIOUS
  <2>4. CanApplyDecision(old, d, now) /\ Store(h, rec)
    BY <1>4, <2>1, <2>2, <2>3 DEF TakeDecision
  <2>5. rec = [offer |-> old.offer, decision |-> d, release |-> old.release]
    BY <2>2, <2>3 DEF ApplyDecision, RecordSound
  <2>6. CASE old.decision # None
    <3>1. rec = old
      BY <2>2, <2>4, <2>5, <2>6 DEF CanApplyDecision, RecordSound
    <3> QED
      BY <2>1, <2>2, <2>4, <3>1, SameStaysFinal, FilingKeeps DEF EInv, RecordSound
  <2>7. CASE old.decision = None
    <3>1. old.release = None
      BY <2>2, <2>7 DEF RecordSound, RecordVerify
    <3>2. \A t \in study.times : State(old, t) \notin {"accepted", "rejected"}
      BY <2>7, <3>1 DEF State
    <3>3. StaysFinal(old, rec)
      BY <2>5, <2>7, <3>1, <3>2 DEF StaysFinal
    <3> QED
      BY <2>1, <2>2, <2>4, <2>5, <3>3, FilingKeeps DEF EInv, RecordSound
  <2> QED
    BY <2>6, <2>7
<1>5. ASSUME NEW n \in Ids, NEW h \in Holder, NEW r, TakeRelease(h, offers[n], r)
      PROVE  KeepsRecords
  <2>1. PICK old : old = held[h][n]
    OBVIOUS
  <2>2. Hash(offers[n]) = n /\ n \in DOMAIN held[h] /\ RecordSound(old, n)
    BY <1>5, <2>1 DEF TakeRelease, EInv, OffersSound, HeldSound
  <2>3. PICK rec : rec = ApplyRelease(old, r)
    OBVIOUS
  <2>4. CanApplyRelease(old, r) /\ Store(h, rec)
    BY <1>5, <2>1, <2>2, <2>3 DEF TakeRelease
  <2>5. rec = [offer |-> old.offer, decision |-> old.decision, release |-> r]
    BY <2>2, <2>3 DEF ApplyRelease, RecordSound
  <2>6. old.decision # None /\ old.decision.action = "agree"
    BY <2>4 DEF CanApplyRelease, ReleaseVerify
  <2>7. \A t \in study.times :
           State(old, t) # "rejected" /\ State(rec, t) \in {"accepted", "key-released"}
    BY <2>5, <2>6 DEF State
  <2>8. old.release # None => r = old.release
    BY <2>4 DEF CanApplyRelease
  <2>9. StaysFinal(old, rec)
    BY <2>5, <2>7, <2>8 DEF StaysFinal
  <2> QED
    BY <2>1, <2>2, <2>4, <2>5, <2>9, FilingKeeps DEF EInv, RecordSound
<1>6. study.holders \subseteq Holder
  BY StudiesAssumption DEF EInv
<1> QED
  BY <1>1, <1>2, <1>3, <1>4, <1>5, <1>6 DEF ExNext, DecideOffer, ReleaseKey

(* In every behaviour, whatever decisions and releases arrive at a holder, *)
(* the first it recorded for an offer is the one it keeps.                 *)
THEOREM ConsentIsFinal == ExSpec => ConsentFinal
<1>1. EInv /\ [ExNext]_exVars => [KeepsRecords]_exVars
  BY StepKeeps
<1> QED
  BY <1>1, Sound, PTL DEF ExSpec, ConsentFinal, KeepsRecords

-----------------------------------------------------------------------------
(***************************************************************************)
(* Trades.  The second invariant: every answer is linked to the message it *)
(* answers, and a holder of the answer holds that message with its key     *)
(* released.                                                               *)
(***************************************************************************)
Linked(p, o) ==
    /\ p.trade # None
    /\ o.trade.id = p.trade.id /\ o.conv = p.conv
    /\ o.sender = p.recipient /\ o.recipient = p.sender
    /\ o.trade.action \in Allowed(p.trade.action)

AnswersLinked ==
    \A n \in Trades : Parent(n) # None =>
        Parent(n) \in Ids /\ Linked(offers[Parent(n)], offers[n])

ParentsHeld ==
    \A h \in Holder : \A n \in Trades \cap DOMAIN held[h] : Parent(n) # None =>
        Parent(n) \in DOMAIN held[h] /\ held[h][Parent(n)].release # None

(* What a step adds was admitted by a holder's record of the parent.       *)
AddsAdmitted ==
    /\ Ids \subseteq Ids' /\ \A n \in Ids : offers'[n] = offers[n]
    /\ \A n \in Ids' \ Ids : \E h \in Holder : Admits(h, offers'[n])
    /\ \A h \in Holder : \A n \in DOMAIN held'[h] \ DOMAIN held[h] : Admits(h, offers'[n])

(* Filing a record for an admitted offer, or replacing one.                *)
LEMMA FilingAdmits ==
    ASSUME HeldSound, NEW h \in Holder, NEW rec, Store(h, rec),
           Hash(rec.offer) \in DOMAIN held[h] \/ Admits(h, offers'[Hash(rec.offer)])
    PROVE  \A x \in Holder : \A n \in DOMAIN held'[x] \ DOMAIN held[x] : Admits(x, offers'[n])
<1> SUFFICES ASSUME NEW x \in Holder, NEW n \in DOMAIN held'[x] \ DOMAIN held[x]
             PROVE  Admits(x, offers'[n])
  OBVIOUS
<1>1. x = h /\ n = Hash(rec.offer)
  BY StoreFiles DEF HeldSound
<1> QED
  BY <1>1

(* Every step adds only what was admitted.                                 *)
LEMMA StepAdmits == EInv /\ ExNext => AddsAdmitted
<1> SUFFICES ASSUME EInv, ExNext PROVE AddsAdmitted
  OBVIOUS
<1>1. HeldSound /\ study.holders \subseteq Holder
  BY StudiesAssumption DEF EInv
<1>2. ASSUME NEW i, NEW recipient, NEW now, NEW expiry, NEW options, NEW h \in study.holders,
             Seal(i, recipient, now, expiry, options, h)
      PROVE  AddsAdmitted
  <2>1. PICK o : o = SealWithOptions(Len(offers) + 1, i, recipient, now, expiry, options)
    OBVIOUS
  <2>2. Admits(h, o) /\ offers' = Append(offers, o) /\ Store(h, NewRecord(o))
    BY <1>2, <2>1 DEF Seal
  <2>3. PICK S : offers \in Seq(S)
    BY DEF EInv, OffersSound
  <2>4. Hash(o) = Len(offers) + 1
    BY <2>1 DEF SealWithOptions, Hash
  <2>5. offers \in Seq(S \cup {o}) /\ o \in S \cup {o}
    BY <2>3
  <2>6. /\ Len(offers') = Len(offers) + 1 /\ Len(offers) \in Nat
        /\ offers'[Len(offers) + 1] = o /\ \A n \in 1 .. Len(offers) : offers'[n] = offers[n]
    BY <2>2, <2>5
  <2>7. /\ Ids \subseteq Ids' /\ Ids' = Ids \cup {Hash(o)}
        /\ \A n \in Ids : offers'[n] = offers[n] /\ offers'[Hash(o)] = o
    BY <2>4, <2>6 DEF Ids
  <2>8. \A n \in Ids' \ Ids : \E x \in Holder : Admits(x, offers'[n])
    <3> SUFFICES ASSUME NEW n \in Ids' \ Ids PROVE Admits(h, offers'[n])
      BY <1>1
    <3> QED
      BY <2>2, <2>4, <2>6, <2>7
  <2>9. NewRecord(o).offer = o
    BY DEF NewRecord
  <2>10. PICK rec : rec = NewRecord(o)
    OBVIOUS
  <2>11. Store(h, rec) /\ Admits(h, offers'[Hash(rec.offer)])
    BY <2>2, <2>4, <2>6, <2>9, <2>10
  <2>12. \A x \in Holder : \A n \in DOMAIN held'[x] \ DOMAIN held[x] : Admits(x, offers'[n])
    BY <1>1, <2>11, FilingAdmits
  <2> QED
    BY <2>7, <2>8, <2>12 DEF AddsAdmitted
<1>3. ASSUME offers' = offers,
             \A x \in Holder : \A n \in DOMAIN held'[x] \ DOMAIN held[x] : Admits(x, offers'[n])
      PROVE  AddsAdmitted
  BY <1>3 DEF AddsAdmitted, Ids
<1>4. ASSUME offers' = offers, held' = held
      PROVE  AddsAdmitted
  BY <1>3, <1>4
<1>5. ASSUME NEW n \in Ids, NEW h \in study.holders, Forward(offers[n], h)
      PROVE  AddsAdmitted
  <2>1. PICK rec : rec = NewRecord(offers[n])
    OBVIOUS
  <2>2. rec.offer = offers[n] /\ Hash(offers[n]) = n
    BY <2>1 DEF NewRecord, EInv, OffersSound
  <2>3. offers' = offers /\ Admits(h, offers[n]) /\ Store(h, rec)
    BY <1>5, <2>1 DEF Forward
  <2>4. Admits(h, offers'[Hash(rec.offer)])
    BY <2>2, <2>3
  <2> QED
    BY <1>1, <1>3, <2>3, <2>4, FilingAdmits
<1>6. ASSUME NEW n \in Ids, NEW h \in study.holders, NEW d, NEW now,
             TakeDecision(h, offers[n], d, now)
      PROVE  AddsAdmitted
  <2>1. PICK rec : rec = ApplyDecision(held[h][n], d)
    OBVIOUS
  <2>2. Hash(offers[n]) = n
    BY DEF EInv, OffersSound
  <2>3. offers' = offers /\ n \in DOMAIN held[h] /\ Store(h, rec)
    BY <1>6, <2>1, <2>2 DEF TakeDecision
  <2>4. RecordSound(held[h][n], n)
    BY <1>1, <2>3 DEF HeldSound
  <2>5. rec.offer = held[h][n].offer
    BY <2>1, <2>4 DEF ApplyDecision, RecordSound
  <2>6. Hash(rec.offer) \in DOMAIN held[h]
    BY <2>2, <2>3, <2>4, <2>5 DEF RecordSound
  <2> QED
    BY <1>1, <1>3, <2>3, <2>6, FilingAdmits
<1>7. ASSUME NEW n \in Ids, NEW h \in study.holders, NEW r, TakeRelease(h, offers[n], r)
      PROVE  AddsAdmitted
  <2>1. PICK rec : rec = ApplyRelease(held[h][n], r)
    OBVIOUS
  <2>2. Hash(offers[n]) = n
    BY DEF EInv, OffersSound
  <2>3. offers' = offers /\ n \in DOMAIN held[h] /\ Store(h, rec)
    BY <1>7, <2>1, <2>2 DEF TakeRelease
  <2>4. RecordSound(held[h][n], n)
    BY <1>1, <2>3 DEF HeldSound
  <2>5. rec.offer = held[h][n].offer
    BY <2>1, <2>4 DEF ApplyRelease, RecordSound
  <2>6. Hash(rec.offer) \in DOMAIN held[h]
    BY <2>2, <2>3, <2>4, <2>5 DEF RecordSound
  <2> QED
    BY <1>1, <1>3, <2>3, <2>6, FilingAdmits
<1>8. ASSUME NEW i, NEW o, NEW action, NEW now, DecideOffer(i, o, action, now)
      PROVE  AddsAdmitted
  BY <1>4, <1>8 DEF DecideOffer
<1>9. ASSUME NEW i, NEW o, NEW d, NEW key, NEW e, ReleaseKey(i, o, d, key, e)
      PROVE  AddsAdmitted
  BY <1>4, <1>9 DEF ReleaseKey
<1> QED
  BY <1>2, <1>5, <1>6, <1>7, <1>8, <1>9 DEF ExNext

(* An admitted answer is linked to a held message whose key was released.  *)
LEMMA AdmittedLinked ==
    ASSUME EInv, NEW h \in Holder, NEW o, Admits(h, o), o.trade # None, o.trade.parent # None
    PROVE  /\ o.trade.parent \in Ids /\ Linked(offers[o.trade.parent], o)
           /\ o.trade.parent \in DOMAIN held[h]
           /\ held[h][o.trade.parent].release # None
<1> DEFINE p == o.trade.parent
<1>1. p \in DOMAIN held[h] /\ ValidateTradeSuccessor(held[h][p], o)
  BY DEF Admits
<1>2. p \in Ids /\ held[h][p].offer = offers[p]
  BY <1>1 DEF EInv, HeldSound, RecordSound
<1> QED
  BY <1>1, <1>2 DEF ValidateTradeSuccessor, Linked

TInv == AnswersLinked /\ ParentsHeld

(* Every step keeps answers linked and their parents held.                 *)
LEMMA NextLinked ==
    ASSUME EInv, TInv, [ExNext]_exVars
    PROVE  TInv'
<1>1. CASE UNCHANGED exVars
  BY <1>1 DEF exVars, TInv, AnswersLinked, ParentsHeld, Trades, Parent, Ids
<1>2. CASE ExNext
  <2>1. AddsAdmitted /\ KeepsRecords
    BY <1>2, StepAdmits, StepKeeps
  <2>2. ASSUME NEW n \in Ids', offers'[n].trade # None, offers'[n].trade.parent # None
        PROVE  /\ offers'[n].trade.parent \in Ids'
               /\ Linked(offers'[offers'[n].trade.parent], offers'[n])
    <3> DEFINE o == offers'[n]
               p == o.trade.parent
    <3>1. p \in Ids /\ Linked(offers[p], o)
      <4>1. CASE n \in Ids
        BY <2>1, <2>2, <4>1 DEF AddsAdmitted, TInv, AnswersLinked, Trades, Parent
      <4>2. CASE n \notin Ids
        <5>1. PICK h \in Holder : Admits(h, o)
          BY <2>1, <2>2, <4>2 DEF AddsAdmitted
        <5> HIDE DEF o
        <5>2. o.trade # None /\ o.trade.parent # None
          BY <2>2 DEF o
        <5> QED
          BY <5>1, <5>2, AdmittedLinked
      <4> QED
        BY <4>1, <4>2
    <3>2. offers'[p] = offers[p] /\ p \in Ids'
      BY <2>1, <3>1 DEF AddsAdmitted
    <3> QED
      BY <3>1, <3>2
  <2>3. AnswersLinked'
    BY <2>2 DEF AnswersLinked, Trades, Parent
  <2>4. ASSUME NEW h \in Holder, NEW n \in DOMAIN held'[h], n \in Ids',
               offers'[n].trade # None, offers'[n].trade.parent # None
        PROVE  /\ offers'[n].trade.parent \in DOMAIN held'[h]
               /\ held'[h][offers'[n].trade.parent].release # None
    <3> DEFINE o == offers'[n]
               p == o.trade.parent
    <3>1. p \in DOMAIN held[h] /\ held[h][p].release # None
      <4>1. CASE n \in DOMAIN held[h]
        <5>1. n \in Ids
          BY <4>1 DEF EInv, HeldSound, RecordSound
        <5> QED
          BY <2>1, <2>4, <4>1, <5>1 DEF AddsAdmitted, TInv, ParentsHeld, Trades, Parent
      <4>2. CASE n \notin DOMAIN held[h]
        <5>1. Admits(h, o)
          BY <2>1, <2>4, <4>2 DEF AddsAdmitted
        <5> HIDE DEF o
        <5>2. o.trade # None /\ o.trade.parent # None
          BY <2>4 DEF o
        <5> QED
          BY <5>1, <5>2, AdmittedLinked
      <4> QED
        BY <4>1, <4>2
    <3>2. p \in DOMAIN held'[h] /\ StaysFinal(held[h][p], held'[h][p])
      BY <2>1, <3>1 DEF KeepsRecords
    <3>3. held'[h][p].release = held[h][p].release
      BY <3>1, <3>2 DEF StaysFinal
    <3> QED
      BY <3>1, <3>2, <3>3
  <2>5. ParentsHeld'
    BY <2>4 DEF ParentsHeld, Trades, Parent
  <2> QED
    BY <2>3, <2>5 DEF TInv
<1> QED
  BY <1>1, <1>2

(* Both invariants hold in every behaviour.                                *)
LEMMA TradesSound == ExSpec => [](EInv /\ TInv)
<1>1. ExInit => TInv
  <2> SUFFICES ASSUME ExInit PROVE TInv
    OBVIOUS
  <2>1. Ids = {}
    BY DEF ExInit, Ids
  <2> QED
    BY <2>1 DEF TInv, AnswersLinked, ParentsHeld, Trades
<1>2. EInv /\ TInv /\ [ExNext]_exVars => (EInv /\ TInv)'
  BY NextSound, NextLinked
<1> QED
  BY <1>1, <1>2, InitSound, PTL DEF ExSpec

Proposing == {"request", "offer", "counteroffer"}

(* Which action each action may follow, read backwards                     *)
(* (ValidateTradeSuccessor).                                               *)
LEMMA AllowedAfter ==
    ASSUME NEW a \in TradeAction, NEW b \in Allowed(a)
    PROVE  /\ a \notin {"reject", "settle"} /\ b # "request"
           /\ b = "settle" => a = "fulfill"
           /\ b = "fulfill" => a = "accept"
           /\ b = "accept" => a \in {"offer", "counteroffer"}
           /\ b \notin {"fulfill", "settle"} => a \in Proposing
BY DEF TradeAction, Allowed, Proposing

(* An answer in a trade and what it answers.                               *)
LEMMA Answer ==
    ASSUME EInv, TInv, NEW n \in Trades
    PROVE  /\ Action(n) \in TradeAction /\ offers[n].sender # offers[n].recipient
           /\ Action(n) = "request" <=> Parent(n) = None
           /\ Parent(n) # None =>
                 /\ Parent(n) \in Trades /\ Action(n) \in Allowed(Action(Parent(n)))
                 /\ Action(Parent(n)) \in TradeAction
                 /\ Linked(offers[Parent(n)], offers[n])
<1>1. \A k \in Trades : TradeLinkValid(offers[k].trade) /\ offers[k].trade # None
                        /\ offers[k].sender # offers[k].recipient
  BY DEF EInv, OffersSound, OfferVerify, Trades
<1>2. \A k \in Trades : Action(k) \in TradeAction /\ (Action(k) = "request" <=> Parent(k) = None)
  BY <1>1 DEF TradeLinkValid, Action, Parent
<1>3. ASSUME Parent(n) # None
      PROVE  Parent(n) \in Trades /\ Action(n) \in Allowed(Action(Parent(n)))
             /\ Linked(offers[Parent(n)], offers[n])
  BY <1>3 DEF TInv, AnswersLinked, Linked, Trades, Action
<1> QED
  BY <1>1, <1>2, <1>3

(* A thread lies within every lineage of its last message.                 *)
LEMMA ThreadWithin ==
    ASSUME NEW n, NEW s, n \in s, s \subseteq Trades,
           \A m \in s : Parent(m) # None => Parent(m) \in s
    PROVE  Thread(n) \subseteq s
<1>1. s \in Lineages
  BY DEF Lineages
<1> QED
  BY <1>1 DEF Thread

(* A thread holds its last message and the parent of each of its messages. *)
LEMMA ThreadHolds ==
    ASSUME EInv, TInv, NEW n \in Trades
    PROVE  /\ n \in Thread(n) /\ Thread(n) \subseteq Trades
           /\ \A m \in Thread(n) : Parent(m) # None => Parent(m) \in Thread(n)
<1>1. n \in Thread(n) /\ Thread(n) \subseteq Trades
  BY DEF Thread
<1>2. ASSUME NEW m \in Thread(n), Parent(m) # None
      PROVE  Parent(m) \in Thread(n)
  <2>1. Parent(m) \in Trades
    BY <1>1, <1>2, Answer
  <2>2. ASSUME NEW s \in Lineages, n \in s
        PROVE  Parent(m) \in s
    <3>1. m \in s
      BY <2>2 DEF Thread
    <3> QED
      BY <1>2, <3>1 DEF Lineages
  <2> QED
    BY <2>1, <2>2 DEF Thread
<1> QED
  BY <1>1, <1>2

(* One conversation between the same two agents.                           *)
LEMMA ThreadParties ==
    ASSUME EInv, TInv, NEW n \in Trades, NEW m \in Thread(n)
    PROVE  /\ {offers[m].sender, offers[m].recipient} = {offers[n].sender, offers[n].recipient}
           /\ offers[m].conv = offers[n].conv /\ offers[m].trade.id = offers[n].trade.id
<1> DEFINE Alike(k) ==
              /\ {offers[k].sender, offers[k].recipient} = {offers[n].sender, offers[n].recipient}
              /\ offers[k].conv = offers[n].conv /\ offers[k].trade.id = offers[n].trade.id
           s == {k \in Trades : Alike(k)}
<1>1. ASSUME NEW k \in s, Parent(k) # None
      PROVE  Parent(k) \in s
  <2>1. Parent(k) \in Trades /\ Linked(offers[Parent(k)], offers[k])
    BY <1>1, Answer
  <2> QED
    BY <1>1, <2>1 DEF Linked
<1>2. n \in s
  OBVIOUS
<1>3. Thread(n) \subseteq s
  <2> HIDE DEF s
  <2>1. s \subseteq Trades
    BY DEF s
  <2> QED
    BY <1>1, <1>2, <2>1, ThreadWithin
<1> QED
  BY <1>3

(* Nothing follows a rejection or a settlement.                            *)
LEMMA ThreadEnds ==
    ASSUME EInv, TInv, NEW n \in Trades, NEW m \in Thread(n), Action(m) \in {"reject", "settle"}
    PROVE  m = n
<1> DEFINE s == {k \in Trades : k = n \/ Action(k) \notin {"reject", "settle"}}
<1>1. ASSUME NEW k \in s, Parent(k) # None
      PROVE  Parent(k) \in s
  <2>1. /\ Parent(k) \in Trades /\ Action(Parent(k)) \in TradeAction
        /\ Action(k) \in Allowed(Action(Parent(k)))
    BY <1>1, Answer
  <2> QED
    BY <2>1, AllowedAfter
<1>2. n \in s
  OBVIOUS
<1>3. Thread(n) \subseteq s
  <2> HIDE DEF s
  <2>1. s \subseteq Trades
    BY DEF s
  <2> QED
    BY <1>1, <1>2, <2>1, ThreadWithin
<1> QED
  BY <1>3

(* Before the acceptance there are only requests and proposals, and after  *)
(* a message that neither fulfils nor settles no such message came before. *)
LEMMA ThreadOrder ==
    ASSUME EInv, TInv, NEW n \in Trades
    PROVE  /\ Action(n) \in Proposing => \A m \in Thread(n) : Action(m) \in Proposing
           /\ Action(n) \notin {"fulfill", "settle"} =>
                 \A m \in Thread(n) : m = n \/ Action(m) \in Proposing
<1>1. ASSUME NEW k \in Trades, Parent(k) # None, Action(k) \notin {"fulfill", "settle"}
      PROVE  Parent(k) \in Trades /\ Action(Parent(k)) \in Proposing
  BY <1>1, Answer, AllowedAfter
<1>2. ASSUME Action(n) \notin {"fulfill", "settle"}
      PROVE  \A m \in Thread(n) : m = n \/ Action(m) \in Proposing
  <2> DEFINE s == {k \in Trades : k = n \/ Action(k) \in Proposing}
  <2>1. ASSUME NEW k \in s, Parent(k) # None
        PROVE  Parent(k) \in s
    BY <1>1, <1>2, <2>1 DEF Proposing
  <2>2. n \in s
    OBVIOUS
  <2>3. Thread(n) \subseteq s
    <3> HIDE DEF s
    <3>1. s \subseteq Trades
      BY DEF s
    <3> QED
      BY <2>1, <2>2, <3>1, ThreadWithin
  <2> QED
    BY <2>3
<1> QED
  BY <1>2 DEF Proposing

(* The acceptance a, its proposal p and the fulfilment f of a branch that  *)
(* reached its fulfilment.                                                 *)
Fulfilled(n, a, p) ==
    /\ a \in Thread(n) /\ p \in Thread(n)
    /\ Parent(a) = p /\ Action(a) = "accept" /\ Action(p) \in {"offer", "counteroffer"}
    /\ \A m \in Thread(n) :
          /\ m = a \/ Action(m) \in Proposing \cup {"fulfill", "settle"}
          /\ Action(m) = "fulfill" => offers[m].sender = offers[p].sender
          /\ Action(m) = "settle" => offers[m].sender = offers[a].sender
    /\ offers[a].sender # offers[p].sender

(* A branch that ends in a fulfilment or a settlement has one acceptance.  *)
LEMMA OneAcceptance ==
    ASSUME EInv, TInv, NEW n \in Trades, Action(n) \in {"fulfill", "settle"}
    PROVE  \E a, p : Fulfilled(n, a, p)
<1>1. PICK f \in Thread(n) : Action(f) = "fulfill" /\ (f = n \/ Parent(n) = f)
  <2>1. CASE Action(n) = "fulfill"
    BY <2>1, ThreadHolds
  <2>2. CASE Action(n) = "settle"
    <3>1. Parent(n) # None
      BY <2>2, Answer
    <3>2. Action(Parent(n)) = "fulfill"
      BY <2>2, <3>1, Answer, AllowedAfter
    <3> QED
      BY <3>1, <3>2, ThreadHolds
  <2> QED
    BY <2>1, <2>2
<1>2. Thread(n) \subseteq Trades /\ f \in Trades
  BY ThreadHolds
<1>3. PICK a \in Thread(n) : a = Parent(f) /\ a # None /\ Action(a) = "accept"
  <2>1. Parent(f) # None
    BY <1>1, <1>2, Answer
  <2>2. Action(Parent(f)) = "accept"
    BY <1>1, <1>2, <2>1, Answer, AllowedAfter
  <2> QED
    BY <2>1, <2>2, ThreadHolds
<1>4. PICK p \in Thread(n) : p = Parent(a) /\ p # None
                             /\ Action(p) \in {"offer", "counteroffer"}
  <2>1. a \in Trades
    BY <1>2
  <2>2. Parent(a) # None
    BY <1>3, <2>1, Answer
  <2>3. Action(Parent(a)) \in {"offer", "counteroffer"}
    BY <1>3, <2>1, <2>2, Answer, AllowedAfter
  <2> QED
    BY <2>2, <2>3, ThreadHolds
<1>5. /\ Linked(offers[p], offers[a]) /\ Linked(offers[a], offers[f])
      /\ offers[p].sender # offers[p].recipient
      /\ f # n => Linked(offers[f], offers[n]) /\ Action(n) = "settle"
  <2>1. a \in Trades /\ p \in Trades
    BY <1>2
  <2>2. f # n => Parent(n) = f /\ f # None /\ Action(n) = "settle"
    <3>1. f # n => Parent(n) = f
      BY <1>1
    <3>2. Action(n) = "fulfill" => f = n
      <4> SUFFICES ASSUME Action(n) = "fulfill", f # n PROVE FALSE
        OBVIOUS
      <4>1. Parent(n) = f /\ Parent(n) # None
        BY <3>1, Answer
      <4>2. Action(f) = "accept"
        BY <4>1, Answer, AllowedAfter
      <4> QED
        BY <1>1, <4>2
    <3>3. f # n => Parent(n) # None
      BY Answer
    <3> QED
      BY <3>1, <3>2, <3>3
  <2> QED
    BY <1>2, <1>3, <1>4, <2>1, <2>2, Answer
<1>6. \A m \in Thread(n) : m \in {n, f, a} \/ Action(m) \in Proposing
  <2> DEFINE s == {k \in Trades : k \in {n, f, a} \/ Action(k) \in Proposing}
  <2>1. ASSUME NEW k \in s, Parent(k) # None
        PROVE  Parent(k) \in s
    <3>1. Parent(k) \in Trades /\ k \in Trades
      BY <2>1, Answer
    <3>2. CASE k = f
      BY <1>3, <3>1, <3>2
    <3>3. CASE k = a
      BY <1>4, <3>1, <3>3 DEF Proposing
    <3>4. CASE k = n /\ k # f
      BY <1>1, <3>1, <3>4
    <3>5. CASE Action(k) \in Proposing
      <4>1. Action(Parent(k)) \in Proposing
        BY <2>1, <3>1, <3>5, Answer, AllowedAfter DEF Proposing
      <4> QED
        BY <3>1, <4>1
    <3> QED
      BY <2>1, <3>2, <3>3, <3>4, <3>5
  <2>2. n \in s
    OBVIOUS
  <2>3. Thread(n) \subseteq s
    <3> HIDE DEF s
    <3>1. s \subseteq Trades
      BY DEF s
    <3> QED
      BY <2>1, <2>2, <3>1, ThreadWithin
  <2> QED
    BY <2>3
<1>7. /\ offers[a].sender = offers[p].recipient /\ offers[a].recipient = offers[p].sender
      /\ offers[f].sender = offers[a].recipient /\ offers[f].recipient = offers[a].sender
      /\ f # n => offers[n].sender = offers[f].recipient
  BY <1>5 DEF Linked
<1>8. ASSUME NEW m \in Thread(n)
      PROVE  /\ m = a \/ Action(m) \in Proposing \cup {"fulfill", "settle"}
             /\ Action(m) = "fulfill" => offers[m].sender = offers[p].sender
             /\ Action(m) = "settle" => offers[m].sender = offers[a].sender
  BY <1>1, <1>3, <1>5, <1>6, <1>7 DEF Proposing
<1>9. Fulfilled(n, a, p)
  BY <1>3, <1>4, <1>5, <1>7, <1>8 DEF Fulfilled
<1> QED
  BY <1>9

(* In every behaviour, at every holder, every branch of a trade is one     *)
(* story: two agents, one conversation, answers only to what could be      *)
(* read, nothing after an end, and one acceptance behind a settlement      *)
(* (ValidateTradeSuccessor), for any number of messages and forks.         *)
THEOREM TradeIsOneStory == ExSpec => []TradeStory
<1>1. ASSUME EInv, TInv, NEW h \in Holder, NEW n \in Trades \cap DOMAIN held[h],
             Parent(n) # None
      PROVE  /\ Opens(offers[n].sender, held[h][Parent(n)])
             /\ \A k \in Trades \cap DOMAIN held[h] :
                   Parent(k) = Parent(n) => offers[k].sender = offers[n].sender
  <2>1. Parent(n) \in DOMAIN held[h] /\ held[h][Parent(n)].release # None
    BY <1>1 DEF TInv, ParentsHeld
  <2>2. PICK rec : rec = held[h][Parent(n)]
    OBVIOUS
  <2>3. RecordSound(rec, Parent(n))
    BY <1>1, <2>1, <2>2 DEF EInv, HeldSound
  <2>4. rec.release.key = rec.release.envelope
    BY <1>1, <2>1, <2>2, <2>3 DEF RecordSound, EInv, ReleasesSound
  <2>5. rec.release.envelope = Hash(rec.offer)
    BY <2>1, <2>2, <2>3 DEF RecordSound, RecordVerify, ReleaseVerify
  <2>6. Opens(rec.offer.recipient, rec)
    BY <2>1, <2>2, <2>3, <2>4, <2>5 DEF Opens, RecordSound, ContentKey, Hash
  <2>7. \A k \in Trades : Parent(k) = Parent(n) =>
                            offers[k].sender = offers[Parent(n)].recipient
    BY <1>1, Answer DEF Linked
  <2>8. rec.offer = offers[Parent(n)]
    BY <2>3 DEF RecordSound
  <2> QED
    BY <1>1, <2>2, <2>6, <2>7, <2>8
<1>2. ASSUME EInv, TInv, NEW n \in Trades,
             {m \in Thread(n) : Action(m) \in {"fulfill", "settle"}} # {}
      PROVE  \E a \in Thread(n), proposal \in Thread(n) :
                /\ {m \in Thread(n) : Action(m) \in {"accept"}} = {a} /\ Parent(a) = proposal
                /\ Action(proposal) \in {"offer", "counteroffer"}
                /\ offers[a].sender # offers[proposal].sender
                /\ \A m \in {k \in Thread(n) : Action(k) \in {"fulfill"}} :
                      offers[m].sender = offers[proposal].sender
                /\ \A m \in {k \in Thread(n) : Action(k) \in {"settle"}} :
                      offers[m].sender = offers[a].sender
  <2>1. Action(n) \in {"fulfill", "settle"}
    BY <1>2, ThreadOrder DEF Proposing
  <2>2. PICK a, p : Fulfilled(n, a, p)
    BY <1>2, <2>1, OneAcceptance
  <2>3. {m \in Thread(n) : Action(m) \in {"accept"}} = {a}
    BY <2>2 DEF Fulfilled, Proposing
  <2> QED
    BY <2>2, <2>3 DEF Fulfilled
<1>3. ASSUME EInv, TInv, NEW n \in Trades
      PROVE  {m \in Thread(n) : Action(m) \in {"reject", "settle"}} \subseteq {n}
  BY <1>3, ThreadEnds
<1>4. EInv /\ TInv => TradeStory
  <2> SUFFICES ASSUME EInv, TInv PROVE TradeStory
    OBVIOUS
  <2> QED
    BY <1>1, <1>2, <1>3, ThreadParties, Zenon DEF TradeStory
<1> QED
  BY <1>4, TradesSound, PTL
=============================================================================
