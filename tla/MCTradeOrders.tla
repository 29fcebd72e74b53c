----------------------------- MODULE MCTradeOrders -----------------------------
(***************************************************************************)
(* Small instances of the two components that keep an abstract promise of  *)
(* what they do with a trade: the trade lifecycle coordinator, which       *)
(* implements DryRunTrade, and the order engine, which implements          *)
(* OrderBook.  A behaviour is about one of them; the other rests.          *)
(***************************************************************************)
EXTENDS TradeLifecycleV1, OrderManagementV1

VARIABLE driven   \* the component the behaviour is about

TradeOrdersInit ==
    /\ driven \in {"lifecycle", "orders"}
    /\ LcInit
    /\ OrderInit
    /\ driven # "lifecycle" => fillPolicy = "MANUAL_CONFIRMATION"

TradeOrdersNext ==
    \/ driven = "lifecycle" /\ LcNext /\ UNCHANGED <<driven, vars>>
    \/ driven = "orders" /\ OrderNext /\ UNCHANGED <<driven, allVars>>

TradeOrdersSpec == TradeOrdersInit /\ [][TradeOrdersNext]_<<driven, allVars, vars>>

-------------------------------------------------------------------------------
\* A LONG of two units, a SHORT of one, and a strategy that waits.
Long    == [stamp |-> 1, action |-> "CONSIDER_LONG", direction |-> "LONG", ready |-> TRUE,
            decision |-> "APPROVED", eligible |-> TRUE, quantity |-> 2, entry |-> 4,
            invalidation |-> 2, objective |-> 5]
Short   == [Long EXCEPT !.action = "CONSIDER_SHORT", !.direction = "SHORT", !.quantity = 1,
                        !.entry = 5, !.invalidation = 6, !.objective = 4]
Waiting == [Long EXCEPT !.stamp = 3, !.eligible = FALSE, !.action = "WAIT", !.ready = FALSE,
                        !.decision = "WAIT", !.quantity = 0]

MCRiskSnapshots == {Long, Short, Waiting}
TradeAndWait    == {Long, Waiting}

-------------------------------------------------------------------------------
Offer(id, side, type, quantity, limit, trigger, entry) ==
    [id |-> id, side |-> side, type |-> type, quantity |-> quantity, limit |-> limit,
     trigger |-> trigger, riskApproved |-> TRUE, riskSide |-> side,
     riskQuantity |-> quantity, riskEntry |-> entry]

\* Two orders: a stop-limit buy of three, whose limit may move, and a limit sell of one.
MCSnapshots ==
    {Offer("o1", "BUY", "STOP_LIMIT", 3, 1, 1, 1), Offer("o2", "SELL", "LIMIT", 1, 1, None, 1)}

Says(type, id) ==
    [type |-> type, id |-> id, broker |-> None, quantity |-> None, limit |-> None,
     trigger |-> None, fill |-> None, price |-> None]

\* Modifications below what is filled, above what is approved, to what the order already
\* is and of the limit price are among them.
MCContents ==
    {[Says("ACKNOWLEDGE", i) EXCEPT !.broker = "b1"] : i \in OrderIds}
    \cup {[Says("MODIFY", "o1") EXCEPT !.quantity = q] : q \in 1 .. 4}
    \cup {[Says("MODIFY", "o1") EXCEPT !.limit = 2]}
    \cup {[Says("FILL", "o1") EXCEPT !.fill = q, !.price = q] : q \in 1 .. 2}
    \cup {[Says("FILL", "o2") EXCEPT !.fill = 1, !.price = 2]}
    \cup {Says("CANCEL", "o1"), Says("REJECT", "o1")}
===============================================================================
