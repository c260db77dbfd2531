--------------------------- MODULE CouncilProofs ----------------------------
(***************************************************************************)
(* The properties of a council for every step limit and every set of       *)
(* members, requirements and citations.                                    *)
(***************************************************************************)
EXTENDS Council, FiniteSetTheorems, TLAPS

CouncilAction == {"open", "satisfy", "opt-in", "refuse", "execute"}
Receipt == [action : CouncilAction, actor : Member, note : Notes]
LedgerOK(l) == l \in LedgerRecord(Member, CouncilAction, Notes) /\ WithinLimit(l)

(* The receipt that satisfies a requirement, for holders h, citations c.   *)
Satisfies(h, c, r) == [action |-> "satisfy", actor |-> h[r], note |-> <<r, c[r]>>]

(* Every citation is on the chain, by the holder's hand.                   *)
CitedOnChain(h, c, rs) ==
    \A r \in DOMAIN h : c[r] # NoText => \E j \in 1 .. Len(rs) : rs[j] = Satisfies(h, c, r)

(* Entry i is an opt-in of p, and before it p cited all it holds.          *)
OptsIn(h, c, rs, p, i) ==
    /\ rs[i].action = "opt-in" /\ rs[i].actor = p
    /\ \A r \in DOMAIN h : h[r] = p => \E j \in 1 .. i - 1 : rs[j] = Satisfies(h, c, r)

OptInsOnChain(h, c, o, rs) ==
    \A p \in o : \E i \in 1 .. Len(rs) : OptsIn(h, c, rs, p, i)

(* What the opt-ins and the status say of the citations.                   *)
Settled(h, c, o, s) ==
    /\ \A p \in o : \A r \in DOMAIN h : h[r] = p => c[r] # NoText
    /\ s = "open" => o = {} \/ \E r \in DOMAIN h : c[r] = NoText

(* An execution is the last receipt, and everyone had opted in.            *)
Executed(o, s, rs) ==
    s = "executed" => rs # <<>> /\ rs[Len(rs)].action = "execute" /\ Member \subseteq o

(* The shape of the council but for its ledger.                            *)
Shape ==
    /\ Requirements \subseteq Req /\ holder \in [Requirements -> Member]
    /\ cited \in [Requirements -> Citation \cup {NoText}]
    /\ optedIn \subseteq Member
    /\ status \in {"open", "ready", "executed", "refused"}
    /\ \/ closed = FALSE /\ status \in {"open", "ready"}
       \/ closed = TRUE /\ status \in {"executed", "refused"}

(* The inductive invariant.                                                *)
CoInv ==
    /\ Shape
    /\ LedgerOK(led)
    /\ Settled(holder, cited, optedIn, status)
    /\ CitedOnChain(holder, cited, led.receipts)
    /\ OptInsOnChain(holder, cited, optedIn, led.receipts)
    /\ Executed(optedIn, status, led.receipts)

(* Charging an attempt keeps the receipts and stays within the limit.      *)
LEMMA ChargeKeeps ==
    ASSUME NEW l, LedgerOK(l)
    PROVE  /\ LedgerOK(Charge(l))
           /\ Charge(l).receipts = l.receipts
           /\ Charge(l).over = l.over
           /\ l.steps >= MaxSteps => Charge(l).steps >= MaxSteps
           /\ Admits(l) => Charge(l).steps = l.steps + 1
PROOF
<1> DEFINE n == IF l.steps > MaxSteps THEN l.steps ELSE l.steps + 1
           R == [action : CouncilAction, actor : Member, note : Notes]
<1>1. l \in [receipts : Seq(R), steps : 1 .. MaxSteps + 1, over : BOOLEAN] /\ MaxSteps \in Nat
  BY MeterAssumption DEF LedgerOK, LedgerRecord
<1>2. Charge(l) = [l EXCEPT !.steps = n]
  BY DEF Charge
<1>3. n \in 1 .. MaxSteps + 1 /\ n >= l.steps /\ (l.steps < MaxSteps => n = l.steps + 1)
  BY <1>1
<1> HIDE DEF n, R
<1>4. /\ [l EXCEPT !.steps = n] \in [receipts : Seq(R), steps : 1 .. MaxSteps + 1, over : BOOLEAN]
      /\ [l EXCEPT !.steps = n].receipts = l.receipts /\ [l EXCEPT !.steps = n].steps = n
      /\ [l EXCEPT !.steps = n].over = l.over
  BY <1>1, <1>3
<1>5. Len(l.receipts) <= l.steps /\ Len(l.receipts) <= MaxSteps /\ Len(l.receipts) \in Nat
  BY <1>1 DEF LedgerOK, WithinLimit
<1>6. Len(l.receipts) <= n
  BY <1>1, <1>3, <1>5
<1> QED
  BY <1>1, <1>2, <1>3, <1>4, <1>5, <1>6 DEF LedgerOK, LedgerRecord, WithinLimit, Admits, R

(* An admitted receipt goes to the end of the chain, within the limit.     *)
LEMMA RecordKeeps ==
    ASSUME NEW l, LedgerOK(l), Admits(l), NEW actor \in Member,
           NEW action \in CouncilAction, NEW note \in Notes
    PROVE  /\ LedgerOK(Record(l, actor, action, note))
           /\ Record(l, actor, action, note).receipts =
                Append(l.receipts, [action |-> action, actor |-> actor, note |-> note])
PROOF
<1> DEFINE c == Charge(l)
           e == [action |-> action, actor |-> actor, note |-> note]
           rs == Append(c.receipts, e)
           R == [action : CouncilAction, actor : Member, note : Notes]
<1>1. LedgerOK(c) /\ c.receipts = l.receipts /\ c.steps = l.steps + 1
  BY ChargeKeeps
<1>2. Record(l, actor, action, note) = [c EXCEPT !.receipts = rs]
  BY DEF Record
<1>3. e \in R
  OBVIOUS
<1> HIDE DEF c, e, R
<1>4. c \in [receipts : Seq(R), steps : 1 .. MaxSteps + 1, over : BOOLEAN]
  BY <1>1 DEF LedgerOK, LedgerRecord, R
<1>5. rs \in Seq(R) /\ Len(rs) = Len(c.receipts) + 1 /\ Len(c.receipts) \in Nat
  BY <1>3, <1>4
<1>6. Len(l.receipts) <= l.steps /\ l.steps < MaxSteps /\ l.steps \in Nat /\ MaxSteps \in Nat
  BY MeterAssumption DEF LedgerOK, LedgerRecord, WithinLimit, Admits
<1>7. Len(rs) <= c.steps /\ Len(rs) <= MaxSteps
  BY <1>1, <1>5, <1>6
<1> HIDE DEF rs
<1>8. /\ [c EXCEPT !.receipts = rs] \in [receipts : Seq(R), steps : 1 .. MaxSteps + 1,
                                        over : BOOLEAN]
      /\ [c EXCEPT !.receipts = rs].receipts = rs /\ [c EXCEPT !.receipts = rs].steps = c.steps
  BY <1>4, <1>5
<1> QED
  BY <1>1, <1>2, <1>7, <1>8 DEF LedgerOK, LedgerRecord, WithinLimit, R, rs, e

(* What is on the chain stays on it when a receipt is added.               *)
LEMMA ChainGrows ==
    ASSUME NEW rs \in Seq(Receipt), NEW e \in Receipt, NEW h, NEW c, NEW o
    PROVE  /\ CitedOnChain(h, c, rs) => CitedOnChain(h, c, Append(rs, e))
           /\ OptInsOnChain(h, c, o, rs) => OptInsOnChain(h, c, o, Append(rs, e))
PROOF
<1> DEFINE n == Len(rs)
           rt == Append(rs, e)
<1>1. n \in Nat /\ Len(rt) = n + 1 /\ \A i \in 1 .. n : rt[i] = rs[i]
  OBVIOUS
<1> HIDE DEF n, rt
<1>2. 1 .. n \subseteq 1 .. Len(rt) /\ \A i \in 1 .. n : 1 .. i - 1 \subseteq 1 .. n
  BY <1>1
<1>3. ASSUME CitedOnChain(h, c, rs) PROVE CitedOnChain(h, c, rt)
  BY <1>1, <1>2, <1>3 DEF CitedOnChain, n
<1>4. ASSUME NEW p, NEW i \in 1 .. n, OptsIn(h, c, rs, p, i) PROVE OptsIn(h, c, rt, p, i)
  <2>1. rt[i] = rs[i] /\ \A j \in 1 .. i - 1 : rt[j] = rs[j]
    BY <1>1, <1>2
  <2> QED
    BY <1>4, <2>1 DEF OptsIn
<1>5. ASSUME OptInsOnChain(h, c, o, rs) PROVE OptInsOnChain(h, c, o, rt)
  BY <1>2, <1>4, <1>5 DEF OptInsOnChain, n
<1> QED
  BY <1>3, <1>5 DEF rt

(* Citing a requirement whose holder has not opted in disturbs no opt-in,  *)
(* and the new receipt carries the citation.                               *)
LEMMA CitingGrows ==
    ASSUME NEW rs \in Seq(Receipt), NEW h, NEW c \in [DOMAIN h -> Citation \cup {NoText}], NEW o,
           NEW r \in DOMAIN h, NEW citation \in Citation, h[r] \notin o, NEW e \in Receipt,
           e = [action |-> "satisfy", actor |-> h[r], note |-> <<r, citation>>],
           CitedOnChain(h, c, rs), OptInsOnChain(h, c, o, rs)
    PROVE  /\ CitedOnChain(h, [c EXCEPT ![r] = citation], Append(rs, e))
           /\ OptInsOnChain(h, [c EXCEPT ![r] = citation], o, Append(rs, e))
PROOF
<1> DEFINE d == [c EXCEPT ![r] = citation]
           rt == Append(rs, e)
<1>1. /\ d[r] = citation /\ \A q \in DOMAIN h : q # r => d[q] = c[q]
  OBVIOUS
<1>2. Satisfies(h, d, r) = e /\ \A q \in DOMAIN h : q # r => Satisfies(h, d, q) = Satisfies(h, c, q)
  BY <1>1 DEF Satisfies
<1> HIDE DEF d
<1>3. /\ Len(rt) \in Nat /\ Len(rt) >= 1 /\ rt[Len(rt)] = e
  OBVIOUS
<1>4. CitedOnChain(h, c, rt) /\ OptInsOnChain(h, c, o, rt)
  BY ChainGrows
<1> HIDE DEF rt
<1>5. CitedOnChain(h, d, rt)
  <2> SUFFICES ASSUME NEW q \in DOMAIN h, d[q] # NoText
               PROVE  \E j \in 1 .. Len(rt) : rt[j] = Satisfies(h, d, q)
    BY DEF CitedOnChain
  <2>1. CASE q = r
    BY <2>1, <1>2, <1>3
  <2>2. CASE q # r
    BY <2>2, <1>1, <1>2, <1>4 DEF CitedOnChain
  <2> QED
    BY <2>1, <2>2
<1>6. ASSUME NEW p \in o, NEW i, OptsIn(h, c, rt, p, i) PROVE OptsIn(h, d, rt, p, i)
  <2>1. \A q \in DOMAIN h : h[q] = p => q # r
    OBVIOUS
  <2> QED
    BY <1>2, <1>6, <2>1 DEF OptsIn
<1>7. OptInsOnChain(h, d, o, rt)
  BY <1>4, <1>6 DEF OptInsOnChain
<1> QED
  BY <1>5, <1>7 DEF d, rt

(* A party whose requirements are met opts in with a receipt that comes    *)
(* after those of its requirements.                                        *)
LEMMA OptingInGrows ==
    ASSUME NEW rs \in Seq(Receipt), NEW h, NEW c, NEW o, NEW p, NEW e \in Receipt,
           e.action = "opt-in", e.actor = p,
           \A r \in DOMAIN h : h[r] = p => c[r] # NoText,
           CitedOnChain(h, c, rs), OptInsOnChain(h, c, o, rs)
    PROVE  OptInsOnChain(h, c, o \cup {p}, Append(rs, e))
PROOF
<1> DEFINE n == Len(rs)
           rt == Append(rs, e)
<1>1. n \in Nat /\ Len(rt) = n + 1 /\ rt[n + 1] = e /\ \A i \in 1 .. n : rt[i] = rs[i]
  OBVIOUS
<1>2. OptInsOnChain(h, c, o, rt)
  BY ChainGrows
<1> HIDE DEF n, rt
<1>3. n + 1 \in 1 .. Len(rt) /\ 1 .. (n + 1) - 1 = 1 .. n
  BY <1>1
<1>4. \A r \in DOMAIN h : h[r] = p => \E j \in 1 .. n : rt[j] = Satisfies(h, c, r)
  BY <1>1 DEF CitedOnChain, n
<1>5. OptsIn(h, c, rt, p, n + 1)
  BY <1>1, <1>3, <1>4 DEF OptsIn
<1>6. OptInsOnChain(h, c, o \cup {p}, rt)
  BY <1>2, <1>3, <1>5 DEF OptInsOnChain
<1> QED
  BY <1>6 DEF rt

(* The ledger of an invariant state, unfolded and folded again.            *)
LEMMA LedgerFields ==
    ASSUME NEW l
    PROVE  LedgerOK(l) <=>
             /\ l \in [receipts : Seq(Receipt), steps : 1 .. MaxSteps + 1, over : BOOLEAN]
             /\ Len(l.receipts) <= l.steps /\ Len(l.receipts) <= MaxSteps
BY DEF LedgerOK, LedgerRecord, WithinLimit, Receipt

(* A step that leaves the council and its chain alone keeps the invariant. *)
LEMMA SameCouncil ==
    ASSUME CoInv, UNCHANGED <<holder, cited, optedIn, status, closed>>,
           LedgerOK(led'), led'.receipts = led.receipts
    PROVE  CoInv'
PROOF
<1> USE DEF CoInv
<1>1. /\ holder' = holder /\ cited' = cited /\ optedIn' = optedIn
      /\ status' = status /\ closed' = closed
  OBVIOUS
<1>2. Shape'
  BY <1>1 DEF Shape, Requirements, Terminal
<1>3. LedgerOK(led)'
  BY DEF LedgerOK, LedgerRecord, WithinLimit, CouncilAction, Notes
<1>4. Settled(holder, cited, optedIn, status)' /\ Executed(optedIn, status, led.receipts)'
  BY <1>1 DEF Settled, Executed
<1>5. /\ CitedOnChain(holder, cited, led.receipts)'
      /\ OptInsOnChain(holder, cited, optedIn, led.receipts)'
  BY <1>1 DEF CitedOnChain, OptInsOnChain, OptsIn, Satisfies
<1> QED
  BY <1>2, <1>3, <1>4, <1>5

(* A call that append refuses leaves the council alone.                    *)
LEMMA TurnedAwayKeeps ==
    ASSUME CoInv, TurnedAway
    PROVE  CoInv' /\ UNCHANGED <<cited, optedIn, status, closed, led.receipts>>
PROOF
<1>1. LedgerOK(Charge(led)) /\ Charge(led).receipts = led.receipts
  BY ChargeKeeps DEF CoInv
<1>2. UNCHANGED <<holder, cited, optedIn, status, closed>> /\ led' = Charge(led)
  BY DEF TurnedAway
<1> QED
  BY <1>1, <1>2, SameCouncil

(* What a recorded call leaves on the chain.                               *)
LEMMA RecordedKeeps ==
    ASSUME CoInv, NEW actor \in Member, NEW action \in CouncilAction,
           NEW note \in Notes, Recorded(actor, action, note)
    PROVE  /\ LedgerOK(led)' /\ ~ (led.steps >= MaxSteps)
           /\ led.receipts \in Seq(Receipt)
           /\ [action |-> action, actor |-> actor, note |-> note] \in Receipt
           /\ led'.receipts = Append(led.receipts, [action |-> action, actor |-> actor,
                                                    note |-> note])
PROOF
<1>1. Admits(led) /\ led' = Record(led, actor, action, note)
  BY DEF Recorded
<1>2. LedgerOK(led') /\ led'.receipts = Append(led.receipts, [action |-> action,
                                            actor |-> actor, note |-> note])
  BY <1>1, RecordKeeps DEF CoInv
<1>3. ~ (led.steps >= MaxSteps) /\ led.receipts \in Seq(Receipt)
  BY <1>1, LedgerFields, MeterAssumption DEF Admits, CoInv
<1>4. [action |-> action, actor |-> actor, note |-> note] \in Receipt
  BY DEF Receipt
<1> QED
  BY <1>2, <1>3, <1>4 DEF LedgerOK, LedgerRecord, WithinLimit, CouncilAction, Notes

(* A council is opened with nothing cited and nobody opted in.             *)
LEMMA OpenKeeps == OpenCouncil => CoInv
PROOF
<1> SUFFICES ASSUME OpenCouncil PROVE CoInv
  OBVIOUS
<1>1. PICK reqs \in SUBSET Req : holder \in [reqs -> Member] /\ cited = [r \in reqs |-> NoText]
  BY DEF OpenCouncil
<1>2. PICK first \in Member : led = Opened(first, "open")
  BY DEF OpenCouncil
<1>3. optedIn = {} /\ status = "open" /\ closed = FALSE
  BY DEF OpenCouncil
<1>4. Shape
  <2>1. DOMAIN holder = reqs /\ reqs \subseteq Req
    BY <1>1
  <2>2. cited \in [reqs -> Citation \cup {NoText}]
    BY <1>1
  <2>3. closed = FALSE /\ status \in {"open", "ready"} /\ optedIn = {}
    BY <1>3
  <2>4. holder \in [DOMAIN holder -> Member] /\ cited \in [DOMAIN holder -> Citation \cup {NoText}]
    BY <1>1, <2>1, <2>2
  <2> QED
    BY <2>1, <2>3, <2>4 DEF Shape, Requirements
<1> DEFINE e == [action |-> "open", actor |-> first, note |-> NoText]
           rs == <<e>>
<1>5. e \in Receipt
  BY DEF Receipt, CouncilAction, Notes
<1>6. led = [receipts |-> rs, steps |-> 1, over |-> FALSE]
  BY <1>2 DEF Opened
<1> HIDE DEF e
<1>7. rs \in Seq(Receipt) /\ Len(rs) = 1 /\ 1 <= MaxSteps /\ 1 \in 1 .. MaxSteps + 1
  BY <1>5, MeterAssumption
<1> HIDE DEF rs
<1>8. /\ led \in [receipts : Seq(Receipt), steps : 1 .. MaxSteps + 1, over : BOOLEAN]
      /\ led.receipts = rs /\ led.steps = 1
  BY <1>6, <1>7
<1>9. LedgerOK(led)
  <2>1. Len(led.receipts) = 1
    BY <1>7, <1>8
  <2>2. led.steps = 1 /\ 1 <= MaxSteps
    BY <1>7, <1>8
  <2>3. Len(led.receipts) <= led.steps /\ Len(led.receipts) <= MaxSteps
    BY <2>1, <2>2
  <2> QED
    BY <1>8, <2>3, LedgerFields
<1>10. Settled(holder, cited, optedIn, status)
  BY <1>3 DEF Settled
<1>11. /\ CitedOnChain(holder, cited, led.receipts)
       /\ OptInsOnChain(holder, cited, optedIn, led.receipts)
       /\ Executed(optedIn, status, led.receipts)
  BY <1>1, <1>3 DEF CitedOnChain, OptInsOnChain, Executed
<1> QED
  BY <1>4, <1>9, <1>10, <1>11 DEF CoInv

(* Satisfy cites a requirement of one who has not opted in yet.            *)
LEMMA SatisfyKeeps ==
    ASSUME CoInv, NEW actor, NEW r, NEW citation \in Citation \cup {NoText},
           Satisfy(actor, r, citation)
    PROVE  /\ CoInv' /\ ~Terminal
           /\ led.steps >= MaxSteps =>
                 UNCHANGED <<cited, optedIn, status, closed, led.receipts>>
PROOF
<1>1. /\ actor \in Member /\ ~Terminal /\ citation \in Citation /\ citation # NoText
      /\ r \in DOMAIN holder /\ holder[r] = actor /\ cited[r] = NoText
  BY DEF Satisfy, CanSatisfy, Requirements
<1>2. CASE TurnedAway
  BY <1>1, <1>2, TurnedAwayKeeps
<1>3. CASE /\ Recorded(actor, "satisfy", <<r, citation>>)
           /\ cited' = [cited EXCEPT ![r] = citation]
           /\ RefreshReady(cited')
           /\ UNCHANGED <<holder, optedIn, closed>>
  <2>1. "satisfy" \in CouncilAction /\ <<r, citation>> \in Notes /\ r \in Req
    BY <1>1 DEF CouncilAction, Notes, CoInv, Shape, Requirements
  <2> DEFINE e == [action |-> "satisfy", actor |-> actor, note |-> <<r, citation>>]
  <2>2. /\ LedgerOK(led)' /\ ~ (led.steps >= MaxSteps)
        /\ led.receipts \in Seq(Receipt) /\ e \in Receipt
        /\ led'.receipts = Append(led.receipts, e)
    BY <1>1, <1>3, <2>1, RecordedKeeps
  <2>3. actor \notin optedIn
    BY <1>1 DEF CoInv, Settled
  <2>4. /\ holder' = holder /\ optedIn' = optedIn /\ closed' = closed
        /\ status' = IF status = "open" /\ (\A q \in DOMAIN holder : cited'[q] # NoText)
                     THEN "ready" ELSE status
    BY <1>3 DEF RefreshReady, Satisfied, Requirements
  <2>5. /\ cited \in [DOMAIN holder -> Citation \cup {NoText}]
        /\ cited' \in [DOMAIN holder -> Citation \cup {NoText}]
    BY <1>1, <1>3 DEF CoInv, Shape, Requirements
  <2>6. /\ CitedOnChain(holder, cited', led'.receipts)
        /\ OptInsOnChain(holder, cited', optedIn, led'.receipts)
    <3>1. /\ e = [action |-> "satisfy", actor |-> holder[r], note |-> <<r, citation>>]
          /\ CitedOnChain(holder, cited, led.receipts)
          /\ OptInsOnChain(holder, cited, optedIn, led.receipts)
      BY <1>1 DEF CoInv
    <3>2. holder[r] \notin optedIn
      BY <1>1, <2>3
    <3> HIDE DEF e
    <3>3. /\ CitedOnChain(holder, [cited EXCEPT ![r] = citation], Append(led.receipts, e))
          /\ OptInsOnChain(holder, [cited EXCEPT ![r] = citation], optedIn,
                           Append(led.receipts, e))
      BY <1>1, <2>2, <2>5, <3>1, <3>2, CitingGrows
    <3> QED
      BY <1>3, <2>2, <3>3
  <2>7. /\ CitedOnChain(holder, cited, led.receipts)'
        /\ OptInsOnChain(holder, cited, optedIn, led.receipts)'
    BY <2>4, <2>6 DEF CitedOnChain, OptInsOnChain, OptsIn, Satisfies
  <2>8. status \in {"open", "ready"} /\ status' \in {"open", "ready"} /\ closed = FALSE
    BY <1>1, <2>4 DEF CoInv, Shape, Terminal
  <2>9. Shape'
    BY <2>4, <2>5, <2>8 DEF CoInv, Shape, Requirements, Terminal
  <2>10. Settled(holder', cited', optedIn', status')
    <3>1. \A q \in DOMAIN holder : cited[q] # NoText => cited'[q] # NoText
      BY <1>1, <1>3, <2>5
    <3>2. status' = "open" => \E q \in DOMAIN holder : cited'[q] = NoText
      BY <2>4
    <3> QED
      BY <2>4, <3>1, <3>2 DEF CoInv, Settled
  <2>11. Settled(holder, cited, optedIn, status)' /\ Executed(optedIn, status, led.receipts)'
    BY <2>8, <2>10 DEF Settled, Executed
  <2> QED
    BY <1>1, <2>2, <2>7, <2>9, <2>11 DEF CoInv
<1> QED
  BY <1>2, <1>3 DEF Satisfy

(* OptIn refreshes the status and comes after the party's citations.       *)
LEMMA OptInKeeps ==
    ASSUME CoInv, NEW actor, OptIn(actor)
    PROVE  /\ CoInv' /\ ~Terminal
           /\ led.steps >= MaxSteps =>
                 UNCHANGED <<cited, optedIn, status, closed, led.receipts>>
PROOF
<1>1. /\ actor \in Member /\ ~Terminal
      /\ \A r \in DOMAIN holder : holder[r] = actor => cited[r] # NoText
  BY DEF OptIn, CanOptIn, PartyReqsMet, Requirements
<1>2. CASE TurnedAway
  BY <1>1, <1>2, TurnedAwayKeeps
<1>3. CASE /\ Recorded(actor, "opt-in", NoText)
           /\ optedIn' = optedIn \cup {actor}
           /\ RefreshReady(cited)
           /\ UNCHANGED <<holder, cited, closed>>
  <2>1. "opt-in" \in CouncilAction /\ NoText \in Notes
    BY DEF CouncilAction, Notes
  <2> DEFINE e == [action |-> "opt-in", actor |-> actor, note |-> NoText]
  <2>2. /\ LedgerOK(led)' /\ ~ (led.steps >= MaxSteps)
        /\ led.receipts \in Seq(Receipt) /\ e \in Receipt
        /\ led'.receipts = Append(led.receipts, e)
    BY <1>1, <1>3, <2>1, RecordedKeeps
  <2>3. e.action = "opt-in" /\ e.actor = actor
    OBVIOUS
  <2>4. /\ holder' = holder /\ cited' = cited /\ closed' = closed
        /\ status' = IF status = "open" /\ (\A q \in DOMAIN holder : cited[q] # NoText)
                     THEN "ready" ELSE status
    BY <1>3 DEF RefreshReady, Satisfied, Requirements
  <2> HIDE DEF e
  <2>5. /\ CitedOnChain(holder, cited, led'.receipts)
        /\ OptInsOnChain(holder, cited, optedIn', led'.receipts)
    <3>1. CitedOnChain(holder, cited, led.receipts) /\ OptInsOnChain(holder, cited, optedIn, led.receipts)
      BY DEF CoInv
    <3>2. CitedOnChain(holder, cited, led'.receipts)
      BY <2>2, <3>1, ChainGrows
    <3>3. OptInsOnChain(holder, cited, optedIn \cup {actor}, Append(led.receipts, e))
      BY <1>1, <2>2, <2>3, <3>1, OptingInGrows
    <3> QED
      BY <1>3, <2>2, <3>2, <3>3
  <2>6. /\ CitedOnChain(holder, cited, led.receipts)'
        /\ OptInsOnChain(holder, cited, optedIn, led.receipts)'
    BY <2>4, <2>5 DEF CitedOnChain, OptInsOnChain, OptsIn, Satisfies
  <2>7. status \in {"open", "ready"} /\ status' \in {"open", "ready"} /\ closed = FALSE
    BY <1>1, <2>4 DEF CoInv, Shape, Terminal
  <2>8. Shape'
    BY <1>1, <1>3, <2>4, <2>7 DEF CoInv, Shape, Requirements, Terminal
  <2>9. Settled(holder, cited, optedIn, status)' /\ Executed(optedIn, status, led.receipts)'
    BY <1>1, <1>3, <2>4, <2>7 DEF CoInv, Settled, Executed
  <2> QED
    BY <1>1, <2>2, <2>6, <2>8, <2>9 DEF CoInv
<1> QED
  BY <1>2, <1>3 DEF OptIn

(* Refuse and Execute end the council with their receipt.                  *)
LEMMA CloseKeeps ==
    ASSUME CoInv, NEW actor, Refuse(actor) \/ Execute(actor)
    PROVE  /\ CoInv' /\ ~Terminal
           /\ led.steps >= MaxSteps =>
                 UNCHANGED <<cited, optedIn, status, closed, led.receipts>>
PROOF
<1>1. PICK action \in {"refuse", "execute"}, outcome \in {"refused", "executed"} :
         /\ Close(actor, action, outcome)
         /\ outcome = "executed" => action = "execute" /\ Member \subseteq optedIn
  BY DEF Refuse, Execute
<1>2. actor \in Member /\ ~Terminal
  BY DEF Refuse, Execute
<1>3. CASE TurnedAway
  BY <1>2, <1>3, TurnedAwayKeeps
<1>4. CASE /\ Recorded(actor, action, NoText)
           /\ status' = outcome /\ closed' = TRUE
           /\ UNCHANGED <<holder, cited, optedIn>>
  <2>1. action \in CouncilAction /\ NoText \in Notes
    BY DEF CouncilAction, Notes
  <2> DEFINE e == [action |-> action, actor |-> actor, note |-> NoText]
  <2>2. /\ LedgerOK(led)' /\ ~ (led.steps >= MaxSteps)
        /\ led.receipts \in Seq(Receipt) /\ e \in Receipt
        /\ led'.receipts = Append(led.receipts, e)
    BY <1>2, <1>4, <2>1, RecordedKeeps
  <2>3. e.action = action
    OBVIOUS
  <2>4. holder' = holder /\ cited' = cited /\ optedIn' = optedIn
    BY <1>4
  <2> HIDE DEF e
  <2>5. /\ CitedOnChain(holder, cited, led'.receipts)
        /\ OptInsOnChain(holder, cited, optedIn, led'.receipts)
    BY <2>2, ChainGrows DEF CoInv
  <2>6. /\ CitedOnChain(holder, cited, led.receipts)'
        /\ OptInsOnChain(holder, cited, optedIn, led.receipts)'
    BY <2>4, <2>5 DEF CitedOnChain, OptInsOnChain, OptsIn, Satisfies
  <2>7. Shape'
    BY <1>4, <2>4 DEF CoInv, Shape, Requirements, Terminal
  <2>8. Settled(holder, cited, optedIn, status)'
    BY <1>4, <2>4 DEF CoInv, Settled
  <2>9. led'.receipts # <<>> /\ led'.receipts[Len(led'.receipts)] = e
    BY <2>2
  <2>10. Executed(optedIn, status, led.receipts)'
    BY <1>1, <1>4, <2>3, <2>4, <2>9 DEF Executed
  <2> QED
    BY <1>2, <2>2, <2>6, <2>7, <2>8, <2>10 DEF CoInv
<1> QED
  BY <1>1, <1>3, <1>4 DEF Close

(* Spending changes nothing a property reads.                              *)
LEMMA SpendKeeps ==
    ASSUME CoInv, SpendBudget
    PROVE  /\ CoInv' /\ UNCHANGED <<cited, optedIn, status, closed, led.receipts>>
           /\ led'.steps = led.steps
PROOF
<1>1. /\ led' = [led EXCEPT !.over = ~led.over]
      /\ UNCHANGED <<holder, cited, optedIn, status, closed>>
  BY DEF SpendBudget
<1>2. /\ led \in [receipts : Seq(Receipt), steps : 1 .. MaxSteps + 1, over : BOOLEAN]
      /\ Len(led.receipts) <= led.steps /\ Len(led.receipts) <= MaxSteps
  BY LedgerFields DEF CoInv
<1> DEFINE flipped == ~led.over
<1>3. flipped \in BOOLEAN
  BY <1>2
<1> HIDE DEF flipped
<1>4. /\ [led EXCEPT !.over = flipped] \in [receipts : Seq(Receipt), steps : 1 .. MaxSteps + 1,
                                           over : BOOLEAN]
      /\ [led EXCEPT !.over = flipped].receipts = led.receipts
      /\ [led EXCEPT !.over = flipped].steps = led.steps
  BY <1>2, <1>3
<1>5. led' = [led EXCEPT !.over = flipped]
  BY <1>1 DEF flipped
<1>6. /\ led' \in [receipts : Seq(Receipt), steps : 1 .. MaxSteps + 1, over : BOOLEAN]
      /\ led'.receipts = led.receipts /\ led'.steps = led.steps
  BY <1>4, <1>5
<1>7. LedgerOK(led')
  BY <1>2, <1>6, LedgerFields
<1> QED
  BY <1>1, <1>6, <1>7, SameCouncil

(* Every step keeps the invariant, and none but spending touches a council *)
(* that is terminal or out of steps.                                       *)
LEMMA StepKeeps ==
    ASSUME CoInv, [CouncilNext]_cvars
    PROVE  /\ CoInv'
           /\ Terminal \/ led.steps >= MaxSteps =>
                 /\ UNCHANGED <<cited, optedIn, status, closed, led.receipts>>
                 /\ Terminal => UNCHANGED led.steps
PROOF
<1> DEFINE Kept == /\ CoInv'
                   /\ Terminal \/ led.steps >= MaxSteps =>
                         /\ UNCHANGED <<cited, optedIn, status, closed, led.receipts>>
                         /\ Terminal => UNCHANGED led.steps
<1> SUFFICES Kept
  OBVIOUS
<1>1. CASE UNCHANGED cvars
  <2>1. /\ UNCHANGED <<holder, cited, optedIn, status, closed>> /\ led' = led
    BY <1>1 DEF cvars
  <2>2. LedgerOK(led')
    BY <2>1 DEF CoInv
  <2> QED
    BY <2>1, <2>2, SameCouncil
<1>2. CASE SpendBudget
  BY <1>2, SpendKeeps
<1>3. ASSUME NEW actor \in Party, NEW r \in Req, NEW citation \in Citation \cup {NoText},
             Satisfy(actor, r, citation)
      PROVE  Kept
  BY <1>3, SatisfyKeeps
<1>4. ASSUME NEW actor \in Party, OptIn(actor)
      PROVE  Kept
  BY <1>4, OptInKeeps
<1>5. ASSUME NEW actor \in Party, Refuse(actor) \/ Execute(actor)
      PROVE  Kept
  BY <1>5, CloseKeeps
<1> HIDE DEF Kept
<1> QED
  BY <1>1, <1>2, <1>3, <1>4, <1>5 DEF CouncilNext

(* The invariant of every council.                                         *)
LEMMA CouncilInvariant == CouncilSpec => []CoInv
PROOF
<1>1. CoInv /\ [CouncilNext]_cvars => CoInv'
  BY StepKeeps
<1> QED
  BY <1>1, OpenKeeps, PTL DEF CouncilSpec

(* A council stays well formed, its receipts within the step limit that    *)
(* refused attempts use up too, and it is closed exactly when terminal.    *)
THEOREM CouncilTyped == CouncilSpec => []CouncilTypeOK
PROOF
<1>1. CoInv => CouncilTypeOK
  <2> SUFFICES ASSUME CoInv PROVE CouncilTypeOK
    OBVIOUS
  <2>1. CASE closed = FALSE /\ status \in {"open", "ready"}
    <3>1. Terminal = FALSE
      BY <2>1 DEF Terminal
    <3>2. closed = Terminal
      BY <2>1, <3>1, Zenon
    <3> QED
      BY <3>2, Zenon DEF CoInv, Shape, CouncilTypeOK, LedgerOK, CouncilAction
  <2>2. CASE closed = TRUE /\ status \in {"executed", "refused"}
    <3>1. Terminal = TRUE
      BY <2>2 DEF Terminal
    <3>2. closed = Terminal
      BY <2>2, <3>1, Zenon
    <3> QED
      BY <3>2, Zenon DEF CoInv, Shape, CouncilTypeOK, LedgerOK, CouncilAction
  <2> QED
    BY <2>1, <2>2 DEF CoInv, Shape
<1> QED
  BY <1>1, CouncilInvariant, PTL

(* Opt-in of every party implies that every requirement is satisfied and   *)
(* that the status says so (council.go optIn and refreshReady).            *)
THEOREM UnanimityIsReady == CouncilSpec => []UnanimousIsReady
PROOF
<1>1. Member # {}
  <2> SUFFICES ASSUME Member = {} PROVE FALSE
    OBVIOUS
  <2>1. Cardinality(Member) = 0
    BY FS_EmptySet
  <2> QED
    BY <2>1, CouncilAssumption
<1>2. CoInv => UnanimousIsReady
  BY <1>1 DEF CoInv, Shape, Settled, UnanimousIsReady, PartyReqsMet, Satisfied, Requirements
<1> QED
  BY <1>2, CouncilInvariant, PTL

(* An executed council is justified by its receipts alone: everyone opted  *)
(* in before the execution, and cited all it held before opting in.        *)
THEOREM ReceiptsJustifyExecution == CouncilSpec => []ExecutionJustified
PROOF
<1>1. CoInv => ExecutionJustified
  <2> SUFFICES ASSUME CoInv, status = "executed"
               PROVE  /\ led.receipts[Len(led.receipts)].action = "execute"
                      /\ \A p \in Member : \E i \in 1 .. Len(led.receipts) - 1 :
                            OptsIn(holder, cited, led.receipts, p, i)
    BY DEF ExecutionJustified, OptsIn, Satisfies, Requirements
  <2> DEFINE rs == led.receipts
  <2>1. rs \in Seq(Receipt)
    BY LedgerFields DEF CoInv
  <2>2. /\ rs # <<>> /\ rs[Len(rs)].action = "execute" /\ Member \subseteq optedIn
        /\ OptInsOnChain(holder, cited, optedIn, rs)
    BY DEF CoInv, Executed
  <2> HIDE DEF rs
  <2>3. Len(rs) \in Nat /\ Len(rs) >= 1
    BY <2>1, <2>2
  <2>4. ASSUME NEW p \in Member
        PROVE  \E i \in 1 .. Len(rs) - 1 : OptsIn(holder, cited, rs, p, i)
    <3>1. PICK i \in 1 .. Len(rs) : OptsIn(holder, cited, rs, p, i)
      BY <2>2 DEF OptInsOnChain
    <3>2. rs[i].action = "opt-in"
      BY <3>1 DEF OptsIn
    <3>3. i # Len(rs)
      BY <2>2, <3>2
    <3>4. i \in 1 .. Len(rs) - 1
      BY <2>3, <3>3
    <3> QED
      BY <3>1, <3>4
  <2> QED
    BY <2>2, <2>4 DEF rs
<1> QED
  BY <1>1, CouncilInvariant, PTL

(* A terminal council, or one whose steps are used up, never changes       *)
(* again.                                                                  *)
THEOREM OutcomeIsFinal == CouncilSpec => CouncilOutcomeFinal
PROOF
<1>1. CoInv /\ [CouncilNext]_cvars =>
        [ Terminal \/ led.steps >= MaxSteps =>
             /\ UNCHANGED <<cited, optedIn, status, closed, led.receipts>>
             /\ Terminal => UNCHANGED led.steps ]_cvars
  BY StepKeeps
<1> QED
  BY <1>1, CouncilInvariant, PTL DEF CouncilSpec, CouncilOutcomeFinal
=============================================================================
