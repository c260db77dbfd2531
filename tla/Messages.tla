------------------------------ MODULE Messages ------------------------------
(***************************************************************************)
(* The signed values of internal/message: offers, decisions, key releases, *)
(* the record that links them (contract.go, crypto.go) and the trade links *)
(* an offer may carry (trade_protocol.go).                                 *)
(*                                                                         *)
(* Seal draws a fresh id for every offer, so the hash of an offer is its   *)
(* id; the hash of a decision is the decision.  A signature is the agent   *)
(* in the field by, and the ciphertext of an offer opens under one content *)
(* key.  Text, invitation, trade payload and the two key suites are left   *)
(* out: the suites differ in the wrapping, not in what is checked.         *)
(***************************************************************************)
EXTENDS Integers, FiniteSets

CONSTANTS
    Skew,       \* how far ahead of the holder's clock a decision may be dated
    None        \* a field or link that is absent

ASSUME SkewAssumption == Skew \in Nat

TradeAction == {"request", "offer", "counteroffer", "accept", "reject", "fulfill", "settle"}

Hash(o) == o.id

(* A trade link names its parent by hash; only a request has none. *)
TradeLinkValid(t) ==
    t # None => t.action \in TradeAction /\ (t.action = "request" <=> t.parent = None)

(* Seal draws a fresh id and a fresh content key.  A message that joins no *)
(* conversation starts its own.                                            *)
SealWithOptions(id, i, recipient, now, expiry, options) ==
    [id |-> id, sender |-> i, recipient |-> recipient, created |-> now, expires |-> expiry,
     conv |-> IF options.conv = None THEN id ELSE options.conv,
     replyTo |-> options.replyTo, trade |-> options.trade]

(* The only key that opens the offer's ciphertext. *)
ContentKey(o) == o.id

OfferVerify(o) ==
    /\ TradeLinkValid(o.trade)
    /\ o.sender # o.recipient
    /\ o.created < o.expires

(* Mutant: the signature is not checked against the recipient. *)
DecisionVerifyUnsigned(d, o) ==
    /\ OfferVerify(o) /\ d.envelope = Hash(o) /\ d.action \in {"agree", "reject"}
    /\ o.created <= d.at /\ d.at < o.expires

DecisionVerify(d, o) ==
    /\ OfferVerify(o) /\ d.envelope = Hash(o) /\ d.action \in {"agree", "reject"}
    /\ o.created <= d.at /\ d.at < o.expires
    /\ d.by = o.recipient

ReleaseVerify(r, o, d) ==
    /\ DecisionVerify(d, o) /\ d.action = "agree"
    /\ r.envelope = Hash(o) /\ r.acceptance = d /\ r.by = o.sender

(* Mutant: any 32 bytes pass for the content key. *)
CanWrapAnyKey(i, o, d, key) ==
    i = o.sender /\ DecisionVerify(d, o) /\ d.action = "agree"

CanWrapKey(i, o, d, key) ==
    /\ i = o.sender
    /\ DecisionVerify(d, o) /\ d.action = "agree"
    /\ key = ContentKey(o)

WrapKey(i, o, d, key, ephemeral) ==
    [envelope |-> Hash(o), acceptance |-> d, by |-> i, ephemeral |-> ephemeral, key |-> key]

(***************************************************************************)
(* Records.                                                                *)
(***************************************************************************)
NewRecord(o) == [offer |-> o, decision |-> None, release |-> None]

RecordVerify(rec) ==
    /\ OfferVerify(rec.offer)
    /\ rec.decision # None => DecisionVerify(rec.decision, rec.offer)
    /\ rec.release # None =>
          rec.decision # None /\ ReleaseVerify(rec.release, rec.offer, rec.decision)

State(rec, now) ==
    CASE rec.release # None -> "key-released"
      [] rec.release = None /\ rec.decision # None ->
            IF rec.decision.action = "agree" THEN "accepted" ELSE "rejected"
      [] OTHER -> IF now >= rec.offer.expires THEN "expired" ELSE "offered"

(* Mutants: expiry is checked before an exact retry is recognised; a later *)
(* decision replaces an earlier one.                                       *)
CanApplyDecisionInTime(rec, d, now) ==
    /\ DecisionVerify(d, rec.offer) /\ now < rec.offer.expires
    /\ rec.decision # None => rec.decision = d
    /\ rec.decision = None => d.at <= now + Skew

CanReplaceDecision(rec, d, now) ==
    /\ DecisionVerify(d, rec.offer)
    /\ rec.decision = d \/ (now < rec.offer.expires /\ d.at <= now + Skew)

CanApplyDecision(rec, d, now) ==
    /\ DecisionVerify(d, rec.offer)
    /\ IF rec.decision # None THEN rec.decision = d
       ELSE now < rec.offer.expires /\ d.at <= now + Skew

ApplyDecision(rec, d) == [rec EXCEPT !.decision = d]

CanApplyRelease(rec, r) ==
    /\ rec.decision # None
    /\ ReleaseVerify(r, rec.offer, rec.decision)
    /\ rec.release # None => rec.release = r

ApplyRelease(rec, r) == [rec EXCEPT !.release = r]

(* Whether Open returns the text: the wrapping context binds offer,        *)
(* acceptance and recipient, so only the key inside can still be wrong.    *)
Opens(i, rec) ==
    /\ RecordVerify(rec) /\ i = rec.offer.recipient
    /\ rec.release # None /\ rec.release.key = ContentKey(rec.offer)

(***************************************************************************)
(* Trades: the only legal sequence, and whose turn it is.                  *)
(***************************************************************************)
Allowed(action) ==
    CASE action = "request" -> {"offer", "reject"}
      [] action \in {"offer", "counteroffer"} -> {"counteroffer", "accept", "reject"}
      [] action = "accept" -> {"fulfill"}
      [] action = "fulfill" -> {"settle"}
      [] OTHER -> {}

(* Mutant: the parent's key need not have been released. *)
SuccessorOfUnread(parent, child) ==
    LET p == parent.offer
    IN  /\ p.trade # None /\ child.trade # None
        /\ child.trade.id = p.trade.id /\ child.trade.parent = Hash(p)
        /\ child.replyTo = p.id /\ child.conv = p.conv
        /\ child.sender = p.recipient /\ child.recipient = p.sender
        /\ child.trade.action \in Allowed(p.trade.action)

ValidateTradeSuccessor(parent, child) ==
    LET p == parent.offer
    IN  /\ p.trade # None /\ child.trade # None
        /\ child.trade.id = p.trade.id /\ child.trade.parent = Hash(p)
        /\ child.replyTo = p.id /\ child.conv = p.conv
        /\ child.sender = p.recipient /\ child.recipient = p.sender
        /\ parent.release # None
        /\ child.trade.action \in Allowed(p.trade.action)
=============================================================================
