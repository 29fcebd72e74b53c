--------------------------- MODULE MCTradeComponents ---------------------------
(***************************************************************************)
(* Small instances of the components around a trade that keep books of     *)
(* their own: the execution runtime and the position engine a trade        *)
(* coordinator owns (TradeLifecycleV1 checks them together), the journal   *)
(* of closed positions, the reports of execution reconciliation, and the   *)
(* production safety engine.  A behaviour drives one of them through its   *)
(* whole interface; the others rest.                                       *)
(***************************************************************************)
EXTENDS ExecutionRuntimeV1, PositionManagementV1, TradeJournalV1, ReconciliationReportsV1,
        ProductionSafetyV1

VARIABLE driven   \* the component the behaviour is about

ComponentsInit ==
    /\ driven \in {"execution", "position", "journal", "reports", "safety"}
    /\ ExecInit
    /\ PosInit
    /\ JournalInit
    /\ ReportsInit
    /\ SafetyInit
    /\ driven # "execution" => fillPolicy = "MANUAL_CONFIRMATION"
    /\ driven # "position" => autoInvalidation = TRUE /\ objectiveMode = "MARK"
    /\ driven # "journal" => minimumTrend = 3 /\ callers = "ANY"
    /\ driven # "safety" => ordered = FALSE

ComponentsNext ==
    \/ driven = "execution" /\ ExecNext
         /\ UNCHANGED <<driven, posVars, journalVars, vars, safetyVars>>
    \/ driven = "position" /\ PosNext
         /\ UNCHANGED <<driven, execVars, journalVars, vars, safetyVars>>
    \/ driven = "journal" /\ JournalNext
         /\ UNCHANGED <<driven, execVars, posVars, vars, safetyVars>>
    \/ driven = "reports" /\ ReportsNext
         /\ UNCHANGED <<driven, execVars, posVars, journalVars, safetyVars>>
    \/ driven = "safety" /\ SafetyNext
         /\ UNCHANGED <<driven, execVars, posVars, journalVars, vars>>

ComponentsSpec ==
    ComponentsInit
    /\ [][ComponentsNext]_<<driven, execVars, posVars, journalVars, vars, safetyVars>>

-------------------------------------------------------------------------------
(* Execution runtime and position engine *)

Risk(stamp, direction, decision, quantity, invalidation, objective) ==
    [stamp |-> stamp, action |-> IF direction = "LONG" THEN "CONSIDER_LONG" ELSE "CONSIDER_SHORT",
     direction |-> direction, ready |-> TRUE, decision |-> decision,
     eligible |-> decision \in Approved, quantity |-> quantity, entry |-> 4,
     invalidation |-> invalidation, objective |-> objective]

\* Approved snapshots of three units, of two and of one, an approved one that is not
\* eligible, and one that risk management told to wait.
Long  == Risk(1, "LONG", "APPROVED", 3, 2, 6)
Short == Risk(2, "SHORT", "APPROVED", 2, 6, None)
Unit  == Risk(3, "SHORT", "APPROVED_REDUCED", 1, 6, None)
MCRiskSnapshots ==
    {Long, Short, Unit, [Long EXCEPT !.stamp = 4, !.eligible = FALSE],
     Risk(5, "LONG", "WAIT", 0, 2, 6)}

Execution(r, status, filled, notional) ==
    [decision |-> "ACCEPTED", intent |-> [risk |-> r, status |-> status],
     accepted |-> r.quantity, filled |-> filled, remaining |-> r.quantity - filled,
     notional |-> notional]

\* A full fill, a partial fill whose average price (7 for 2) is no integer, an
\* unfilled acknowledgement and a fill at the invalidation price: neither of the
\* last two can open a position.
MCExecutions ==
    {Execution(Long, "FILLED", 3, 13),
     Execution(Short, "CANCELLED", 1, 5),
     Execution(Long, "ACKNOWLEDGED", 0, 0),
     Execution(Long, "PARTIALLY_FILLED", 1, 2)}

-------------------------------------------------------------------------------
(* Journal and reports *)

MCGains == {-2, 1, 3}

\* A comparison that finds everything in order, and one that does not.
MCFound == [x1 |-> "CONSISTENT", x2 |-> "INVALID"]

-------------------------------------------------------------------------------
(* Production safety: an instrument, and inputs at two instants that are healthy, *)
(* have lost too much, or hold a position on ageing market data.                  *)

MCInstrumentOrder == <<"NIFTY">>
MCNoInput == [timestamp |-> -1]
MCMissing == -1

Healthy(ts) ==
  [timestamp |-> ts, unhealthy |-> {}, realized |-> 0, unrealized |-> 0,
   dayStart |-> 100, equity |-> 100, peak |-> 100, trades |-> 0, losses |-> 0,
   executing |-> {}, holding |-> {}, dataAt |-> [i \in SafetyInstruments |-> ts]]

Lossy(ts) == [Healthy(ts) EXCEPT !.realized = -1, !.unrealized = -1]
Held(ts)  == [Healthy(ts) EXCEPT !.holding = {"NIFTY"}, !.dataAt["NIFTY"] = ts - 1]
MCSafetyInputs == {Lossy(0), Healthy(1), Held(1)}

MCManualRelease == {"MANUAL_KILL_SWITCH", "DAILY_LOSS_LIMIT", "ACCOUNT_DRAWDOWN_LIMIT"}
===============================================================================
