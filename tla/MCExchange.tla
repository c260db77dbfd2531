---- MODULE MCExchange ----
(* Exchange on four small instances: one offer at two holders under every  *)
(* order of clock readings; two offers between three agents, whose         *)
(* receipts get mixed up; a trade of up to six messages with a fork; two   *)
(* trades at two holders.                                                  *)
EXTENDS Exchange
CONSTANTS alice, bob, carol, h1, h2, e1, e2, t1, t2
SmallStudies == {
  [agents |-> {alice, bob}, holders |-> {h1, h2}, times |-> 1 .. 4, expiries |-> 1 .. 4,
   actions |-> {"agree", "reject"}, ephemerals |-> {e1, e2}, trades |-> {},
   offers |-> 1, requests |-> 0, forks |-> 1, decisions |-> 2, releases |-> 2],
  [agents |-> {alice, bob, carol}, holders |-> {h1}, times |-> 1 .. 2, expiries |-> 1 .. 2,
   actions |-> {"agree", "reject"}, ephemerals |-> {e1}, trades |-> {},
   offers |-> 2, requests |-> 0, forks |-> 2, decisions |-> 3, releases |-> 2],
  [agents |-> {alice, bob}, holders |-> {h1}, times |-> {1}, expiries |-> {2},
   actions |-> {"agree"}, ephemerals |-> {e1}, trades |-> {t1},
   offers |-> 6, requests |-> 1, forks |-> 1, decisions |-> 6, releases |-> 6],
  [agents |-> {alice, bob}, holders |-> {h1, h2}, times |-> {1}, expiries |-> {2},
   actions |-> {"agree"}, ephemerals |-> {e1}, trades |-> {t1, t2},
   offers |-> 2, requests |-> 2, forks |-> 1, decisions |-> 2, releases |-> 2]}
====
