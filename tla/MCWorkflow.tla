----------------------------- MODULE MCWorkflow -----------------------------
(* Trees whose nodes have at most two children and one requirement.        *)
EXTENDS Workflow
CONSTANTS Root, Clash, Third

Children == UNION {[1 .. len -> {Root, Clash, Third}] : len \in 0 .. 2}
NodesWith(ids) ==
    {node \in [id : ids, kind : {"gate", "action"}, require : SUBSET Fact, next : Children] :
        node.kind = "action" <=> node.next = <<>>}

(* The key called Third is written as the given one. *)
Under(third, node) ==
    [node EXCEPT !.next = [i \in DOMAIN node.next |->
                              IF node.next[i] = Third THEN third ELSE node.next[i]]]
Tree(third, r, c, t) ==
    [nodes |-> [k \in {Root, Clash, third} |->
                  Under(third, CASE k = Root -> r [] k = Clash -> c [] OTHER -> t)],
     root |-> Root]

(* Three keys, the third named or empty; its node may claim the ID of      *)
(* another one.                                                            *)
ThreeNodes ==
    {Tree(third, r, c, t) : third \in {Third, NoKey}, r \in NodesWith({NoKey}),
                            c \in NodesWith({NoKey}), t \in NodesWith({NoKey, Clash})}
(* Two keys, so that a child may be missing, and a root that may be        *)
(* empty, or missing because its node claims another ID.                   *)
TwoNodes == [nodes : [{Root, Clash} -> NodesWith({NoKey, Clash})], root : {Root, Clash, NoKey}]
(* A gate over two nodes that may claim one ID.                            *)
ClashingTrees ==
    {Tree(Third, r, c, t) : r \in {node \in NodesWith({NoKey}) : node.next = <<Clash>>},
                            c \in NodesWith({NoKey}), t \in NodesWith({NoKey, Clash})}
AllTrees == ThreeNodes \cup TwoNodes
=============================================================================
