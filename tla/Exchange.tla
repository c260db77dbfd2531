------------------------------ MODULE Exchange ------------------------------
(***************************************************************************)
(* Agents exchange sealed messages through several holders of records,     *)
(* relays or the agents themselves (internal/message).  What an agent has  *)
(* signed stays on the network: it may be lost, delayed, repeated, sent to *)
(* any holder in any order, and mixed with values somebody else signed.    *)
(* Every clock is the caller's own.                                        *)
(*                                                                         *)
(* The library keeps no records.  That a holder keeps one record for each  *)
(* offer, and takes up a trade message other than a request only when      *)
(* ValidateTradeSuccessor accepts it against its own record of the parent, *)
(* is how its callers are meant to use it.                                 *)
(***************************************************************************)
EXTENDS Messages, Sequences

CONSTANTS
    Agent,      \* identities
    Holder,     \* who keeps records
    Studies     \* the instances explored: who takes part and the bounds

ASSUME StudiesAssumption ==
    \A s \in Studies : s.agents \subseteq Agent /\ s.holders \subseteq Holder

VARIABLES
    study,      \* the instance this behaviour belongs to
    offers,     \* sealed offers that some holder has taken up; ids count them
    decisions,  \* decisions the recipients have signed
    releases,   \* key releases the senders have signed
    held        \* the records of each holder, by offer

exVars == <<study, offers, decisions, releases, held>>

ExInit ==
    /\ study \in Studies
    /\ offers = <<>> /\ decisions = {} /\ releases = {}
    /\ held = [h \in Holder |-> <<>>]

Ids == 1 .. Len(offers)

Store(h, rec) == held' = [held EXCEPT ![h] =
    [n \in DOMAIN @ \cup {Hash(rec.offer)} |-> IF n = Hash(rec.offer) THEN rec ELSE @[n]]]

(* A holder takes up an offer it has no record of. *)
Admits(h, o) ==
    /\ Hash(o) \notin DOMAIN held[h]
    /\ o.trade # None /\ o.trade.parent # None =>
          /\ o.trade.parent \in DOMAIN held[h]
          /\ ValidateTradeSuccessor(held[h][o.trade.parent], o)

(* An ordinary message, or a trade operation: a request or the answer to a *)
(* message, with the conversation and reply fields set or forgotten.       *)
Options ==
    IF Len(offers) = study.offers THEN {}
    ELSE IF study.trades = {} THEN {[conv |-> None, replyTo |-> None, trade |-> None]}
    ELSE UNION {
        [conv : {None, IF n = None THEN None ELSE offers[n].conv}, replyTo : {None, n},
         trade : [id : study.trades, action : TradeAction, parent : {n}]]
        : n \in Ids \cup {None}}

(* Bounds on the trades explored: requests, and answers to messages that   *)
(* were answered before.                                                   *)
WithinBounds(os) ==
    LET parents == {os[n].trade.parent : n \in {k \in DOMAIN os : os[k].trade # None}}
        requests == {n \in DOMAIN os : os[n].trade # None /\ os[n].trade.parent = None}
    IN  /\ Cardinality(requests) <= study.requests
        /\ Len(os) - Cardinality(requests) - Cardinality(parents \ {None}) <= study.forks

(* Seal a message and hand it to a holder; a refused offer leaves nothing  *)
(* behind, and sealing it again draws a new id.                            *)
Seal(i, recipient, now, expiry, options, h) ==
    LET o == SealWithOptions(Len(offers) + 1, i, recipient, now, expiry, options)
    IN  /\ OfferVerify(o) /\ Admits(h, o)
        /\ offers' = Append(offers, o) /\ WithinBounds(offers')
        /\ Store(h, NewRecord(o))
        /\ UNCHANGED <<study, decisions, releases>>

Forward(o, h) ==
    /\ Admits(h, o) /\ Store(h, NewRecord(o))
    /\ UNCHANGED <<study, offers, decisions, releases>>

DecideOffer(i, o, action, now) ==
    LET d == [envelope |-> Hash(o), action |-> action, at |-> now, by |-> i]
    IN  /\ i = o.recipient /\ now < o.expires
        /\ DecisionVerify(d, o)
        /\ decisions' = decisions \cup {d}
        /\ Cardinality(decisions') <= study.decisions
        /\ UNCHANGED <<study, offers, releases, held>>

(* What may be presented as a decision on o: anything on the network, or a *)
(* decision that somebody other than the recipient put a signature to; and *)
(* likewise as a release.                                                  *)
PresentedDecisions(o) ==
    decisions \cup [envelope : {Hash(o)}, action : {"agree", "reject"}, at : study.times,
                    by : Agent \ {o.recipient}]

PresentedReleases(o) ==
    releases \cup [envelope : {Hash(o)}, acceptance : decisions, by : Agent \ {o.sender},
                   ephemeral : study.ephemerals, key : {None}]

ReleaseKey(i, o, d, key, ephemeral) ==
    LET r == WrapKey(i, o, d, key, ephemeral)
    IN  /\ CanWrapKey(i, o, d, key) /\ ReleaseVerify(r, o, d)
        /\ releases' = releases \cup {r}
        /\ Cardinality(releases') <= study.releases
        /\ UNCHANGED <<study, offers, decisions, held>>

TakeDecision(h, o, d, now) ==
    /\ Hash(o) \in DOMAIN held[h] /\ CanApplyDecision(held[h][Hash(o)], d, now)
    /\ Store(h, ApplyDecision(held[h][Hash(o)], d))
    /\ UNCHANGED <<study, offers, decisions, releases>>

TakeRelease(h, o, r) ==
    /\ Hash(o) \in DOMAIN held[h] /\ CanApplyRelease(held[h][Hash(o)], r)
    /\ Store(h, ApplyRelease(held[h][Hash(o)], r))
    /\ UNCHANGED <<study, offers, decisions, releases>>

ExNext ==
    \/ \E options \in Options, i, recipient \in study.agents :
          \E now \in study.times, expiry \in study.expiries, h \in study.holders :
              Seal(i, recipient, now, expiry, options, h)
    \/ \E n \in Ids, i \in study.agents :
          \/ \E action \in study.actions, now \in study.times :
                DecideOffer(i, offers[n], action, now)
          \/ \E d \in PresentedDecisions(offers[n]), key \in Ids \cup {None},
                e \in study.ephemerals :
                ReleaseKey(i, offers[n], d, key, e)
    \/ \E n \in Ids, h \in study.holders :
          \/ Forward(offers[n], h)
          \/ \E d \in PresentedDecisions(offers[n]), now \in study.times :
                TakeDecision(h, offers[n], d, now)
          \/ \E r \in PresentedReleases(offers[n]) : TakeRelease(h, offers[n], r)

ExSpec == ExInit /\ [][ExNext]_exVars

-----------------------------------------------------------------------------
Held(h) == {held[h][n] : n \in DOMAIN held[h]}

(* Consent gates the text: if anybody can open a record some holder keeps, *)
(* it is the recipient of the offer, who signed the agreement the record   *)
(* carries before the offer expired, and the sender wrapped the key for    *)
(* that very agreement.  A record that any clock shows as offered,         *)
(* expired, accepted or rejected opens for nobody.                         *)
ConsentGatesText ==
    \A h \in Holder : \A rec \in Held(h), i \in Agent :
        Opens(i, rec) =>
            /\ i = rec.offer.recipient
            /\ rec.decision \in decisions /\ rec.decision.by = i
            /\ rec.decision.action = "agree" /\ rec.decision.at < rec.offer.expires
            /\ rec.release \in releases
            /\ rec.release.acceptance = rec.decision /\ rec.release.by = rec.offer.sender
            /\ \A now \in study.times : State(rec, now) = "key-released"

(* A release is taken up once and for ever, so it has to be one that       *)
(* works: whichever decisions were signed, whichever of them each holder   *)
(* recorded and whichever of them the sender answered, a record that shows *)
(* its key as released opens for the recipient.                            *)
ReleasedOpens ==
    \A h \in Holder : \A rec \in Held(h) :
        rec.release # None => Opens(rec.offer.recipient, rec)

(* An exact retry is honoured at every later clock reading, also after the *)
(* offer expired and after the release, and changes nothing; any other     *)
(* decision or release is refused by then.                                 *)
ExactRetryHonoured ==
    \A h \in Holder : \A rec \in Held(h) :
        /\ rec.decision # None =>
              \A now \in study.times, d \in PresentedDecisions(rec.offer) :
                  CanApplyDecision(rec, d, now) <=> d = rec.decision
        /\ rec.release # None =>
              \A r \in PresentedReleases(rec.offer) :
                  CanApplyRelease(rec, r) <=> r = rec.release

(* What a record still says after it was replaced by a newer one. *)
StaysFinal(old, new) ==
    /\ new.offer = old.offer
    /\ old.decision # None => new.decision = old.decision
    /\ old.release # None => new.release = old.release
    /\ \A now \in study.times :
          /\ State(old, now) = "accepted" => State(new, now) \in {"accepted", "key-released"}
          /\ State(old, now) = "rejected" => new = old

(* Consent is final at every holder: a recorded decision and a recorded    *)
(* release are never replaced or withdrawn by whatever arrives later, no   *)
(* record is dropped, and no holder comes to show an answered offer as     *)
(* expired.                                                                *)
ConsentFinal ==
    [][ \A h \in Holder : \A n \in DOMAIN held[h] :
          n \in DOMAIN held'[h] /\ StaysFinal(held[h][n], held'[h][n])
      ]_exVars

Trades == {n \in Ids : offers[n].trade # None}
Action(n) == offers[n].trade.action
Parent(n) == offers[n].trade.parent

(* Sets of trade messages that hold the parent of each of their messages.  *)
Lineages == {s \in SUBSET Trades : \A n \in s : Parent(n) \in s \cup {None}}

(* The messages of a trade from its request to message n. *)
Thread(n) ==
    LET lineages == {s \in Lineages : n \in s}
    IN  {m \in Trades : \A s \in lineages : m \in s}

(* Every branch of a trade is one story.  Two agents take turns, in one    *)
(* conversation; each answered a message whose text it could open; nothing *)
(* follows a rejection or a settlement.  A settled branch has exactly one  *)
(* acceptance, of the other side's proposal; the side whose proposal was   *)
(* accepted fulfilled it and the side that accepted it settled.  Where a   *)
(* branch forks, both branches continue by the hand whose turn it was.     *)
TradeStory ==
    \A h \in Holder : \A n \in Trades \cap DOMAIN held[h] :
        LET o == offers[n]
            thread == Thread(n)
            Doing(actions) == {m \in thread : Action(m) \in actions}
        IN  /\ \A m \in thread :
                  /\ {offers[m].sender, offers[m].recipient} = {o.sender, o.recipient}
                  /\ offers[m].conv = o.conv /\ offers[m].trade.id = o.trade.id
            /\ Parent(n) # None =>
                  /\ Opens(o.sender, held[h][Parent(n)])
                  /\ \A k \in Trades \cap DOMAIN held[h] :
                        Parent(k) = Parent(n) => offers[k].sender = o.sender
            /\ Doing({"reject", "settle"}) \subseteq {n}
            /\ Doing({"fulfill", "settle"}) # {} =>
                  \E a \in thread, proposal \in thread :
                     /\ Doing({"accept"}) = {a} /\ Parent(a) = proposal
                     /\ Action(proposal) \in {"offer", "counteroffer"}
                     /\ offers[a].sender # offers[proposal].sender
                     /\ \A m \in Doing({"fulfill"}) : offers[m].sender = offers[proposal].sender
                     /\ \A m \in Doing({"settle"}) : offers[m].sender = offers[a].sender
=============================================================================
