------------------------------- MODULE Council ------------------------------
(***************************************************************************)
(* A council of internal/nexum/council.go: requirements assigned to        *)
(* holders, opt-in of every party, then one execution.  Callers serialize  *)
(* access, so one call is one step.                                        *)
(***************************************************************************)
EXTENDS Metering, FiniteSets

CONSTANTS
    Party,      \* identities that may call a method
    Member,     \* the council's parties
    Req,        \* requirement IDs
    Citation    \* nonempty citations

ASSUME CouncilAssumption ==
    Member \subseteq Party /\ Cardinality(Member) \in 3 .. 7 /\ NoText \notin Citation

VARIABLES
    holder,     \* the requirements and their holders, fixed at open
    cited,      \* citation of each requirement, NoText until satisfied
    optedIn,    \* the parties that opted in
    status,
    closed,     \* whether ClosedAt is set
    led         \* the metered receipts

cvars == <<holder, cited, optedIn, status, closed, led>>

(* Parties[0] opens; which one that is depends on the names only. *)
OpenCouncil ==
    /\ \E reqs \in SUBSET Req :
          /\ holder \in [reqs -> Member]
          /\ cited = [r \in reqs |-> NoText]
    /\ optedIn = {} /\ status = "open" /\ closed = FALSE
    /\ \E first \in Member : led = Opened(first, "open")

Terminal == status \in {"executed", "refused"}
Requirements == DOMAIN holder
Satisfied(c) == \A r \in Requirements : c[r] # NoText
PartyReqsMet(p) == \A r \in Requirements : holder[r] = p => cited[r] # NoText

RefreshReady(c) == status' = IF status = "open" /\ Satisfied(c) THEN "ready" ELSE status

Recorded(actor, action, note) ==
    Admits(led) /\ led' = Record(led, actor, action, note)

(* A call that passed its own checks and was refused by append. *)
TurnedAway ==
    ~Admits(led) /\ led' = Charge(led) /\ UNCHANGED <<holder, cited, optedIn, status, closed>>

CanSatisfy(actor, r, citation) ==
    /\ actor \in Member /\ ~Terminal /\ citation # NoText
    /\ r \in Requirements /\ holder[r] = actor /\ cited[r] = NoText

Satisfy(actor, r, citation) ==
    /\ CanSatisfy(actor, r, citation)
    /\ \/ /\ Recorded(actor, "satisfy", <<r, citation>>)
          /\ cited' = [cited EXCEPT ![r] = citation]
          /\ RefreshReady(cited')
          /\ UNCHANGED <<holder, optedIn, closed>>
       \/ TurnedAway

(* Mutants: any member may opt in early; opting in does not refresh. *)
CanOptInEarly(actor) == actor \in Member /\ ~Terminal /\ actor \notin optedIn

CanOptIn(actor) ==
    actor \in Member /\ ~Terminal /\ PartyReqsMet(actor) /\ actor \notin optedIn

OptInWithoutRefresh(actor) ==
    /\ CanOptIn(actor)
    /\ \/ /\ Recorded(actor, "opt-in", NoText)
          /\ optedIn' = optedIn \cup {actor}
          /\ UNCHANGED <<holder, cited, status, closed>>
       \/ TurnedAway

OptIn(actor) ==
    /\ CanOptIn(actor)
    /\ \/ /\ Recorded(actor, "opt-in", NoText)
          /\ optedIn' = optedIn \cup {actor}
          /\ RefreshReady(cited)
          /\ UNCHANGED <<holder, cited, closed>>
       \/ TurnedAway

(* Mutant: the closing time is not set. *)
CloseUndated(actor, action, outcome) ==
    \/ /\ Recorded(actor, action, NoText)
       /\ status' = outcome
       /\ UNCHANGED <<holder, cited, optedIn, closed>>
    \/ TurnedAway

Close(actor, action, outcome) ==
    \/ /\ Recorded(actor, action, NoText)
       /\ status' = outcome /\ closed' = TRUE
       /\ UNCHANGED <<holder, cited, optedIn>>
    \/ TurnedAway

Refuse(actor) == actor \in Member /\ ~Terminal /\ Close(actor, "refuse", "refused")

(* The kernel records the decision; running it is the host's. *)
Execute(actor) ==
    /\ actor \in Member /\ ~Terminal
    /\ Satisfied(cited) /\ Member \subseteq optedIn
    /\ Close(actor, "execute", "executed")

(* The host owns Meter.CostUSD: it may pass the budget and come back. *)
SpendBudget ==
    led' = [led EXCEPT !.over = ~@] /\ UNCHANGED <<holder, cited, optedIn, status, closed>>

CouncilNext ==
    \/ SpendBudget
    \/ \E actor \in Party :
          \/ \E r \in Req, citation \in Citation \cup {NoText} : Satisfy(actor, r, citation)
          \/ OptIn(actor)
          \/ Refuse(actor)
          \/ Execute(actor)

CouncilSpec == OpenCouncil /\ [][CouncilNext]_cvars

-----------------------------------------------------------------------------
Notes == {NoText} \cup (Req \X Citation)

(* The council is well formed, its receipts fit the step limit and it is   *)
(* closed exactly when it is terminal.                                     *)
CouncilTypeOK ==
    /\ Requirements \subseteq Req /\ holder \in [Requirements -> Member]
    /\ cited \in [Requirements -> Citation \cup {NoText}]
    /\ optedIn \subseteq Member
    /\ status \in {"open", "ready", "executed", "refused"}
    /\ closed = Terminal
    /\ led \in LedgerRecord(Member, {"open", "satisfy", "opt-in", "refuse", "execute"}, Notes)
    /\ WithinLimit(led)

(* Opt-in is only possible once one's own requirements are met, and a met  *)
(* requirement stays met.  So opt-in of every party already implies that   *)
(* every requirement is satisfied and the status says so, also for a       *)
(* council without requirements, which nobody ever satisfies.              *)
UnanimousIsReady ==
    /\ \A p \in optedIn : PartyReqsMet(p)
    /\ Member \subseteq optedIn => Satisfied(cited) /\ status # "open"

(* An executed council can be justified from its receipts alone: the last  *)
(* receipt is the execution, every party opted in before it, and before    *)
(* each opt-in the party itself had cited all of its requirements.         *)
ExecutionJustified ==
    LET rs == led.receipts
        SatisfiedBefore(r, i) ==
            \E j \in 1 .. i - 1 : rs[j] = [action |-> "satisfy", actor |-> holder[r],
                                           note |-> <<r, cited[r]>>]
    IN  status = "executed" =>
            /\ rs[Len(rs)].action = "execute"
            /\ \A p \in Member : \E i \in 1 .. Len(rs) - 1 :
                  /\ rs[i].action = "opt-in" /\ rs[i].actor = p
                  /\ \A r \in Requirements : holder[r] = p => SatisfiedBefore(r, i)

(* A terminal council never changes again: no refusal after execution, no  *)
(* execution after refusal, no late opt-in.  Neither does one whose step   *)
(* limit is used up, whether by receipts or by attempts refused while the  *)
(* budget was exceeded: bringing the budget back does not reopen it, and a *)
(* council that is not terminal by then can be neither executed nor        *)
(* refused.  Only the host's spending and the count of attempts go on.     *)
CouncilOutcomeFinal ==
    [][ Terminal \/ led.steps >= MaxSteps =>
          /\ UNCHANGED <<cited, optedIn, status, closed, led.receipts>>
          /\ Terminal => UNCHANGED led.steps ]_cvars
=============================================================================
