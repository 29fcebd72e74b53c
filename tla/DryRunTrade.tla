------------------------------ MODULE DryRunTrade -----------------------------
(***************************************************************************)
(* What the dry-run trade chain of one instrument promises, without saying *)
(* how: a risk snapshot is traded at most once, one trade is in hand at a  *)
(* time, and a trade only moves forward                                    *)
(*                                                                         *)
(*     NEW -> WORKING -> HELD -> CLOSED                                    *)
(*                                                                         *)
(* with CANCELLED and UNHELD (filled, but at a price no position may have) *)
(* as the other ways out of WORKING.                                       *)
(***************************************************************************)
CONSTANT Trades
VARIABLE phase

Phases == {"NEW", "WORKING", "HELD", "CLOSED", "CANCELLED", "UNHELD"}
InHand == {"WORKING", "HELD"}

TradeInit == phase = [t \in Trades |-> "NEW"]

Moves(t, from, to) == phase[t] = from /\ phase'[t] = to

\* A trade begins only when none is in hand; an immediate fill is held at once.
Begin(t) ==
    /\ \E to \in InHand : Moves(t, "NEW", to)
    /\ \A other \in Trades : phase[other] \notin InHand

Fill(t)   == \E to \in {"HELD", "UNHELD"} : Moves(t, "WORKING", to)
Cancel(t) == Moves(t, "WORKING", "CANCELLED")
Close(t)  == Moves(t, "HELD", "CLOSED")

TradeNext ==
    \E t \in Trades :
        /\ phase'[t] # phase[t]
        /\ Begin(t) \/ Fill(t) \/ Cancel(t) \/ Close(t)
        /\ \A other \in Trades \ {t} : phase'[other] = phase[other]

TradeSpec == TradeInit /\ [][TradeNext]_phase
===============================================================================
