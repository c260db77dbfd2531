------------------------------- MODULE OpLog --------------------------------
(***************************************************************************)
(* What the durable store promises about one contract, without files,      *)
(* locks or processes: a log that grows one entry at a time, one entry per *)
(* ID, of which a prefix is durable.  A power loss may cut the log back,   *)
(* never into its durable prefix, and nobody is told an entry before it is *)
(* durable.                                                                *)
(***************************************************************************)
EXTENDS Integers, Sequences

VARIABLES
    log,        \* the committed entries, each with an id
    durable,    \* how many of them no power loss can take
    told        \* entries reported to a caller

logVars == <<log, durable, told>>

LogInit == log = <<>> /\ durable = 0 /\ told = {}

Extend ==
    /\ Len(log') = Len(log) + 1 /\ SubSeq(log', 1, Len(log)) = log
    /\ \A i \in DOMAIN log : log[i].id # log'[Len(log')].id
    /\ UNCHANGED <<durable, told>>

(* All of the log is made durable; then one of its entries may be told. *)
Confirm ==
    /\ log' = log /\ durable' = Len(log)
    /\ told' = told \/ \E i \in DOMAIN log : told' = told \cup {log[i]}

Lose ==
    /\ durable' \in durable .. Len(log) /\ log' = SubSeq(log, 1, durable')
    /\ told' = told

LogNext == Extend \/ Confirm \/ Lose

LogSpec == LogInit /\ [][LogNext]_logVars
=============================================================================
