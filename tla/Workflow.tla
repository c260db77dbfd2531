------------------------------ MODULE Workflow ------------------------------
(***************************************************************************)
(* Workflows of internal/nexum/workflow.go: a decision tree is recorded,   *)
(* facts select one path through it, and executing records that path.      *)
(* Several hosts open the same tree, each for itself.                      *)
(*                                                                         *)
(* A tree is a Go map from keys to nodes.  OpenWorkflow files every node   *)
(* under its ID, so when two nodes share an ID the one that range visits   *)
(* last stays: the order of a Go map is a choice made anew at every open.  *)
(***************************************************************************)
EXTENDS Metering, FiniteSets, SequencesExt

CONSTANTS
    Host,       \* processes that open the same tree
    Party,      \* identities that may call Execute
    Actor,      \* the workflow's actor
    Key,        \* keys of the nodes map, and node IDs
    NoKey,      \* the empty string, which a nodes map may have as a key too
    Fact,       \* facts a node may require
    Trees       \* the nodes maps under study

ASSUME WorkflowAssumption == Actor \in Party

Node == [id : Key \cup {NoKey}, kind : {"gate", "action"}, require : SUBSET Fact, next : Seq(Key)]

(* A nodes map is finite and what it holds are nodes. *)
ASSUME TreesAssumption ==
    \A t \in Trees :
        /\ DOMAIN t.nodes \subseteq Key /\ IsFiniteSet(DOMAIN t.nodes)
        /\ t.nodes \in [DOMAIN t.nodes -> Node]

VARIABLES
    tree,       \* the nodes map and root given to OpenWorkflow
    flow        \* each host's Workflow, with status "none" before it is opened;
                \* facts remembers what the recorded path was walked with

wvars == <<tree, flow>>

(***************************************************************************)
(* OpenWorkflow's checks and its cleaned map.                              *)
(***************************************************************************)
IDOf(nodes, k) == IF nodes[k].id = NoKey THEN k ELSE nodes[k].id
IDs(nodes) == {IDOf(nodes, k) : k \in DOMAIN nodes}

(* Mutant: only the root is looked up. *)
RootPresent(nodes, root) ==
    /\ \A k \in DOMAIN nodes : nodes[k].kind = "action" <=> nodes[k].next = <<>>
    /\ root # NoKey /\ root \in IDs(nodes)

(* Children are looked up among the keys, the root among the IDs; only the *)
(* root must not be the empty string.                                      *)
WellFormed(nodes, root) ==
    /\ \A k \in DOMAIN nodes :
          /\ nodes[k].kind = "action" <=> nodes[k].next = <<>>
          /\ ToSet(nodes[k].next) \subseteq DOMAIN nodes
    /\ root # NoKey /\ root \in IDs(nodes)

(* Every map the loop may end with: for each ID one of the nodes with it. *)
Cleaned(nodes) ==
    {[i \in IDs(nodes) |-> nodes[visitedLast[i]]] :
        visitedLast \in {f \in [IDs(nodes) -> DOMAIN nodes] :
                            \A i \in IDs(nodes) : IDOf(nodes, f[i]) = i}}

(***************************************************************************)
(* Walk.                                                                   *)
(***************************************************************************)
ReqsMet(node, facts) == node.require \subseteq facts

(* A child that was filed under another ID is a zero Node here: nothing is *)
(* required of it, and the next turn of the loop finds it missing.         *)
Open(nodes, facts, k) == k \in DOMAIN nodes => ReqsMet(nodes[k], facts)

(* Mutant: the last open child. *)
LastChild(nodes, facts, next) == {next[i] : i \in {j \in DOMAIN next :
    /\ Open(nodes, facts, next[j])
    /\ \A l \in DOMAIN next : Open(nodes, facts, next[l]) => l <= j}}

(* The first open child, in listed order, if any. *)
FirstChild(nodes, facts, next) == {next[i] : i \in {j \in DOMAIN next :
    /\ Open(nodes, facts, next[j])
    /\ \A l \in DOMAIN next : Open(nodes, facts, next[l]) => j <= l}}

Failed(w, verdict) == [w EXCEPT !.verdict = verdict]

(* The rest of a turn, at a node whose requirements are met.  The code's   *)
(* next is the empty string when no child is open, and when the first open *)
(* child is the one under the empty key.                                   *)
Advance(nodes, facts, w) ==
    LET path == Append(w.path, w.cur)
        next == FirstChild(nodes, facts, nodes[w.cur].next)
    IN  IF nodes[w.cur].kind = "action" THEN [path |-> path, cur |-> w.cur, verdict |-> "done"]
        ELSE IF next \subseteq {NoKey} THEN Failed(w, "no path")
        ELSE IF Len(path) > Cardinality(DOMAIN nodes) + 1 THEN Failed(w, "overrun")
        ELSE [path |-> path, cur |-> CHOOSE k \in next : TRUE, verdict |-> "walking"]

(* Mutant: the loop check is missing, only the length bound is left. *)
TurnWithoutSeen(nodes, facts, w) ==
    IF w.verdict # "walking" THEN w
    ELSE IF w.cur \notin DOMAIN nodes THEN Failed(w, "missing")
    ELSE IF ~ReqsMet(nodes[w.cur], facts) THEN Failed(w, "no path")
    ELSE Advance(nodes, facts, w)

(* One turn of the loop, whose checks return in this order.  seen is the   *)
(* path walked so far.                                                     *)
Turn(nodes, facts, w) ==
    IF w.verdict # "walking" THEN w
    ELSE IF w.cur \in ToSet(w.path) THEN Failed(w, "loop")
    ELSE IF w.cur \notin DOMAIN nodes THEN Failed(w, "missing")
    ELSE IF ~ReqsMet(nodes[w.cur], facts) THEN Failed(w, "no path")
    ELSE Advance(nodes, facts, w)

(* More turns than the length bound admits: by then the loop has returned. *)
MostTurns(nodes) == Cardinality(DOMAIN nodes) + 3

Turns(nodes, root, facts) ==
    LET turns[t \in 0 .. MostTurns(nodes)] ==
            IF t = 0 THEN [path |-> <<>>, cur |-> root, verdict |-> "walking"]
            ELSE Turn(nodes, facts, turns[t - 1])
    IN  turns

Walk(nodes, root, facts) == Turns(nodes, root, facts)[MostTurns(nodes)]

(***************************************************************************)
(* The hosts.                                                              *)
(***************************************************************************)
Unopened == [status |-> "none", nodes |-> <<>>, path |-> <<>>, action |-> NoKey,
             facts |-> {}, led |-> Opened(Actor, "open")]

WInit == tree \in Trees /\ flow = [h \in Host |-> Unopened]

OpenWorkflow(h) ==
    /\ flow[h].status = "none"
    /\ WellFormed(tree.nodes, tree.root)
    /\ \E cleaned \in Cleaned(tree.nodes) :
          flow' = [flow EXCEPT ![h].status = "open", ![h].nodes = cleaned]
    /\ tree' = tree

(* A walk that fails returns its error before append and costs no step. *)
Execute(h, actor, facts) ==
    LET f == flow[h]
        walk == Walk(f.nodes, tree.root, facts)
        executed == [f EXCEPT !.status = "executed", !.path = walk.path, !.facts = facts,
                              !.action = walk.cur,
                              !.led = Record(f.led, actor, "execute", <<walk.path, walk.cur>>)]
    IN  /\ actor = Actor /\ f.status = "open" /\ walk.verdict = "done"
        /\ flow' = [flow EXCEPT ![h] =
              IF Admits(f.led) THEN executed ELSE [f EXCEPT !.led = Charge(f.led)]]
        /\ tree' = tree

WNext == \E h \in Host :
            \/ OpenWorkflow(h)
            \/ \E actor \in Party, facts \in SUBSET Fact : Execute(h, actor, facts)

WSpec == WInit /\ [][WNext]_wvars

-----------------------------------------------------------------------------
(* The path the tree prescribes, without walking: it starts at the root,   *)
(* visits no node twice, meets every requirement on the way, leaves each   *)
(* gate by its first open child and ends at the first action.              *)
Prescribed(nodes, root, facts, path) ==
    /\ path # <<>> /\ path[1] = root /\ IsInjective(path)
    /\ \A i \in DOMAIN path :
          /\ path[i] \in DOMAIN nodes /\ ReqsMet(nodes[path[i]], facts)
          /\ nodes[path[i]].kind = "action" <=> i = Len(path)
    /\ \A i \in 1 .. Len(path) - 1 : \E j \in DOMAIN nodes[path[i]].next :
          /\ nodes[path[i]].next[j] = path[i + 1]
          /\ \A l \in 1 .. j - 1 : ~Open(nodes, facts, nodes[path[i]].next[l])

(* What Execute records is the prescribed path and its action.             *)
PathPrescribed ==
    \A h \in Host : flow[h].status = "executed" =>
        /\ Prescribed(flow[h].nodes, tree.root, flow[h].facts, flow[h].path)
        /\ flow[h].action = Last(flow[h].path)
        /\ Last(flow[h].led.receipts).note = <<flow[h].path, flow[h].action>>

(* On every tree OpenWorkflow takes, cyclic or with mislaid children       *)
(* included, a walk ends with an action or an error, the loop is caught    *)
(* before the length bound, and it ends with an action exactly when the    *)
(* facts prescribe a path that does not pass the node under the empty key. *)
WalkSettles ==
    \A h \in Host, facts \in SUBSET Fact : flow[h].status # "none" =>
        LET nodes == flow[h].nodes
            walk == Walk(nodes, tree.root, facts)
        IN  /\ walk.verdict \in {"done", "no path", "loop", "missing"}
            /\ walk.verdict = "done" <=>
                  \E path \in SeqOf(DOMAIN nodes \ {NoKey}, Cardinality(DOMAIN nodes)) :
                      Prescribed(nodes, tree.root, facts, path)

(* OpenWorkflow's check of the children is enough when every node is filed *)
(* under its own key: then no facts can lead to a node that is missing.    *)
ValidatedTreeWalks ==
    \A h \in Host, facts \in SUBSET Fact :
        flow[h].status # "none" /\ (\A k \in DOMAIN tree.nodes : IDOf(tree.nodes, k) = k) =>
            Walk(flow[h].nodes, tree.root, facts).verdict # "missing"

(* KindWorkflow's comment: "a deterministic hierarchical decision tree.    *)
(* The tree walks; the agent does not invent the path."  Were it so, hosts *)
(* that opened the same tree would agree on where the same facts lead.     *)
SameFactsSamePath ==
    \A g, h \in Host, facts \in SUBSET Fact :
        flow[g].status # "none" /\ flow[h].status # "none" =>
            Walk(flow[g].nodes, tree.root, facts) = Walk(flow[h].nodes, tree.root, facts)
=============================================================================
