----------------------------- MODULE Lifecycle ------------------------------
(***************************************************************************)
(* What a two-party contract promises its parties, without commands,       *)
(* receipts, signatures or ciphertexts: value moves from the buyer into    *)
(* escrow and out of it exactly once, to the seller only with the seller's *)
(* consent and the buyer's word, back to the buyer otherwise.              *)
(***************************************************************************)
EXTENDS Integers

CONSTANTS Amount

VARIABLES
    phase,      \* "open", "escrowed", "consented" or "closed"
    buyer,      \* units with the buyer
    escrow,     \* units in escrow
    seller      \* units with the seller

lifecycleVars == <<phase, buyer, escrow, seller>>

LInit == phase = "open" /\ buyer = Amount /\ escrow = 0 /\ seller = 0

Fund ==
    /\ phase = "open" /\ phase' = "escrowed"
    /\ buyer' = 0 /\ escrow' = Amount /\ seller' = seller

Consent ==
    phase = "escrowed" /\ phase' = "consented" /\ UNCHANGED <<buyer, escrow, seller>>

Pay ==
    /\ phase = "consented" /\ phase' = "closed"
    /\ seller' = escrow /\ escrow' = 0 /\ buyer' = buyer

Return ==
    /\ phase # "closed" /\ phase' = "closed"
    /\ buyer' = buyer + escrow /\ escrow' = 0 /\ seller' = seller

LNext == Fund \/ Consent \/ Pay \/ Return

LSpec == LInit /\ [][LNext]_lifecycleVars
=============================================================================
