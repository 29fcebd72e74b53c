------------------------- MODULE PositionManagementV1 -------------------------
(***************************************************************************)
(* engines/position_management_v1: the dry-run position of one instrument. *)
(* A filled execution opens it; price updates mark it to market and may    *)
(* exit it at its invalidation or objective price; partial_exit and close  *)
(* reduce it by hand.                                                      *)
(*                                                                         *)
(* Two clocks meet here: openings and manual exits carry the engine's own  *)
(* clock, price updates the timestamp of the market data.                  *)
(*                                                                         *)
(* Amounts of money about a position are kept multiplied by its            *)
(* initial_quantity, which makes the average entry price, and so every     *)
(* profit and loss, an integer.                                            *)
(***************************************************************************)
EXTENDS TradeTypes, FiniteSets

CONSTANTS
    AutoInvalidation,  \* configuration.auto_exit_on_invalidation: the values it may have
    ObjectiveModes,    \* what an objective may do: "MARK", "PARTIAL" or "FULL"
    MinRemaining,      \* configuration.minimum_remaining_quantity
    MarketPrices,      \* prices of updates and of manual exits
    PosHistoryLimit,   \* configuration.history_limit
    Executions,        \* execution results offered to open_from_execution
    MaxTime,           \* bound: timestamps are 0 .. MaxTime
    MaxEvents          \* bound: openings, and counted objective touches, between clears

ASSUME PositionAssumption ==
    /\ AutoInvalidation \subseteq BOOLEAN
    /\ ObjectiveModes \subseteq {"MARK", "PARTIAL", "FULL"}
    /\ MinRemaining \in Nat \ {0}
    /\ MarketPrices \subseteq Price
    /\ PosHistoryLimit \in Nat \ {0}
    /\ Executions \subseteq Result
    /\ MaxTime \in Nat
    /\ MaxEvents \in Nat

VARIABLES
    autoInvalidation,  \* configuration, fixed at construction
    objectiveMode,     \* configuration, fixed at construction
    clock,             \* the engine's clock
    position,          \* _active_position, or None
    posResult,         \* _last_result, or None
    openCache,         \* _open_cache: execution result -> what opening it returned
    lastUpdate,        \* _last_update, or None
    openedCount,
    partialExitCount,
    closedCount,
    invalidationCount,
    objectiveCount,
    posHistorySize     \* len(_history)

posCounts == <<openedCount, partialExitCount, closedCount, invalidationCount, objectiveCount>>
posVars == <<autoInvalidation, objectiveMode, clock, position, posResult, openCache,
             lastUpdate, posCounts, posHistorySize>>

Time == Nat

ExitReasons == {"NONE", "INVALIDATION", "OBJECTIVE", "MANUAL_DRY_RUN"}
PositionStatuses == {"OPEN", "PARTIALLY_CLOSED", "CLOSED", "INVALIDATED", "OBJECTIVE_REACHED"}
\* A faulty form: an invalidated position stays active.
FinishedByClose == {"CLOSED"}
Finished == {"CLOSED", "INVALIDATED"}

\* ManagedPosition.  average_entry_price is entryNotional / initial, and
\* average_exit_price is exitNotional / closed.
ManagedPosition ==
    [source        : Result,
     openedAt      : Time,
     updatedAt     : Time,
     initial       : Quantity,
     open          : Quantity,
     closed        : Quantity,
     entryNotional : Nat,
     exitNotional  : Nat,
     currentPrice  : Nat,     \* current_price     * initial
     realized      : Int,     \* realized_pnl      * initial
     unrealized    : Int,     \* unrealized_pnl    * initial
     status        : PositionStatuses,
     exitReason    : ExitReasons]

PriceUpdate == [timestamp : Time, price : MarketPrices]

PosDecisions == {"HOLD", "PARTIAL_EXIT", "FULL_EXIT", "NO_POSITION"}
PosChanges == {"OPENED", "PRICE_UPDATED", "PARTIALLY_CLOSED", "CLOSED", "INVALIDATED",
               "OBJECTIVE_REACHED", "UNCHANGED"}
PositionResult == [decision : PosDecisions, change : PosChanges,
                   position : ManagedPosition \cup {None}]

Managed(decision, change, p) ==
    [decision |-> decision, change |-> change, position |-> p]

\* None is no position, no answer and no update.
ASSUME NoPositionAssumption ==
    /\ None \notin ManagedPosition
    /\ None \notin PositionResult
    /\ None \notin PriceUpdate

-------------------------------------------------------------------------------
(* PositionManagementCalculator *)

Side(p) == IF SideFromRisk(p.source.intent.risk) = "BUY" THEN "LONG" ELSE "SHORT"
Invalidation(p) == p.source.intent.risk.invalidation
Objective(p) == p.source.intent.risk.objective

\* A faulty form: every position counted as a long one.
GainOfLong(p, price, q) == (price * p.initial - p.entryNotional) * q

\* _unrealized and _realized: what q units gain at a price, times initial.
Gain(p, price, q) ==
    IF Side(p) = "LONG" THEN (price * p.initial - p.entryNotional) * q
                        ELSE (p.entryNotional - price * p.initial) * q

\* PositionSourceValidator.validate, and the price geometry that
\* ManagedPosition.__post_init__ demands of the average fill price.
CanOpen(result) ==
    /\ result.decision = "ACCEPTED"
    /\ result.intent # None
    /\ result.filled > 0
    /\ result.filled <= result.intent.risk.quantity
    /\ LET r == result.intent.risk
       IN  IF SideFromRisk(r) = "BUY"
           THEN /\ r.invalidation * result.filled < result.notional
                /\ r.objective # None => r.objective * result.filled > result.notional
           ELSE /\ r.invalidation * result.filled > result.notional
                /\ r.objective # None => r.objective * result.filled < result.notional

Opened(result, now) ==
    [source |-> result, openedAt |-> now, updatedAt |-> now,
     initial |-> result.filled, open |-> result.filled, closed |-> 0,
     entryNotional |-> result.notional, exitNotional |-> 0,
     currentPrice |-> result.notional, realized |-> 0, unrealized |-> 0,
     status |-> "OPEN", exitReason |-> "NONE"]

\* calculator.update_price
Marked(p, u) ==
    [p EXCEPT !.updatedAt = u.timestamp, !.currentPrice = u.price * p.initial,
              !.unrealized = Gain(p, u.price, p.open)]

\* calculator.apply_exit
Exited(p, now, q, price, reason) ==
    [p EXCEPT !.updatedAt    = now,
              !.open         = @ - q,
              !.closed       = @ + q,
              !.exitNotional = @ + price * q,
              !.currentPrice = price * p.initial,
              !.realized     = @ + Gain(p, price, q),
              !.unrealized   = Gain(p, price, p.open - q),
              !.exitReason   = reason,
              !.status       = IF reason = "INVALIDATION" THEN "INVALIDATED"
                               ELSE IF q < p.open THEN "PARTIALLY_CLOSED" ELSE "CLOSED"]

InvalidationReached(p, price) ==
    IF Side(p) = "LONG" THEN price <= Invalidation(p) ELSE price >= Invalidation(p)

ObjectiveReached(p, price) ==
    /\ Objective(p) # None
    /\ IF Side(p) = "LONG" THEN price >= Objective(p) ELSE price <= Objective(p)

\* objective_partial_quantity with the default fraction of one half.
ObjectivePartialQuantity(p) ==
    LET half     == p.open \div 2
        quantity == IF p.open - half < MinRemaining THEN p.open - MinRemaining ELSE half
    IN  IF quantity > 0 THEN quantity ELSE 0

\* What update_price makes of the marked position p: the branches of the code in
\* their order, invalidation before objective.
AfterPrice(old, p, u) ==
    LET all == Exited(p, u.timestamp, p.open, u.price, "INVALIDATION")
        full == Exited(p, u.timestamp, p.open, u.price, "OBJECTIVE")
        part == Exited(p, u.timestamp, ObjectivePartialQuantity(p), u.price, "OBJECTIVE")
        held == IF p = old THEN "UNCHANGED" ELSE "PRICE_UPDATED"
    IN  IF InvalidationReached(p, u.price) /\ autoInvalidation
        THEN Managed("FULL_EXIT", "INVALIDATED", all)
        ELSE IF InvalidationReached(p, u.price) \/ ~ObjectiveReached(p, u.price)
        THEN Managed("HOLD", held, p)
        ELSE IF objectiveMode = "FULL"
        THEN Managed("FULL_EXIT", "CLOSED", full)
        ELSE IF objectiveMode = "PARTIAL" /\ ObjectivePartialQuantity(p) > 0
        THEN Managed("PARTIAL_EXIT", "PARTIALLY_CLOSED", part)
        ELSE Managed("HOLD", "OBJECTIVE_REACHED",
                     [p EXCEPT !.status = "OBJECTIVE_REACHED", !.exitReason = "NONE"])

-------------------------------------------------------------------------------
PosInit ==
    /\ autoInvalidation \in AutoInvalidation
    /\ objectiveMode \in ObjectiveModes
    /\ clock = 0
    /\ position = None
    /\ posResult = None
    /\ openCache = <<>>
    /\ lastUpdate = None
    /\ openedCount = 0
    /\ partialExitCount = 0
    /\ closedCount = 0
    /\ invalidationCount = 0
    /\ objectiveCount = 0
    /\ posHistorySize = 0

posConfig == <<autoInvalidation, objectiveMode>>

\* The engine's clock moves on its own.
Tick ==
    /\ clock < MaxTime
    /\ clock' = clock + 1
    /\ UNCHANGED <<posConfig, position, posResult, openCache, lastUpdate, posCounts,
                   posHistorySize>>

\* A faulty form: the history is never trimmed.
PosAppendUntrimmed == posHistorySize' = posHistorySize + 1

PosAppendHistory ==
    posHistorySize' = IF posHistorySize < PosHistoryLimit THEN posHistorySize + 1
                                                          ELSE PosHistoryLimit

\* What open_from_execution returns.
OpenResult(result) ==
    IF result \in DOMAIN openCache THEN openCache[result]
                                   ELSE Managed("HOLD", "OPENED", Opened(result, clock))

\* open_from_execution: a result seen before returns its cached answer even when
\* that position has long been closed.
OpenFromExecution(result) ==
    \/ /\ result \in DOMAIN openCache
       /\ UNCHANGED posVars
    \/ /\ result \notin DOMAIN openCache
       /\ position = None
       /\ CanOpen(result)
       /\ openedCount < MaxEvents
       /\ position' = OpenResult(result).position
       /\ posResult' = OpenResult(result)
       /\ openedCount' = openedCount + 1
       /\ openCache' = [x \in DOMAIN openCache \cup {result} |-> OpenResult(x)]
       /\ PosAppendHistory
       /\ UNCHANGED <<posConfig, clock, lastUpdate, partialExitCount, closedCount,
                      invalidationCount, objectiveCount>>

\* update_price(u) with no position: only the last result changes.
UpdateWithoutPosition ==
    /\ position = None
    /\ posResult' = Managed("NO_POSITION", "UNCHANGED", None)
    /\ UNCHANGED <<posConfig, clock, position, openCache, lastUpdate, posCounts,
                   posHistorySize>>

\* The tests on timestamps that update_price and the calculator make.
Fresh(p, u) ==
    /\ lastUpdate # None => u.timestamp >= lastUpdate.timestamp
    /\ u.timestamp >= p.updatedAt

UpdatePosition(u) ==
    LET marked == Marked(position, u)
        result == AfterPrice(position, marked, u)
        touched == ~InvalidationReached(marked, u.price) /\ ObjectiveReached(marked, u.price)
        sameTimestamp == lastUpdate # None /\ lastUpdate.timestamp = u.timestamp
    IN  /\ position # None
        /\ u # lastUpdate
        /\ Fresh(position, u)
        /\ position' = IF result.position.status \in Finished THEN None ELSE result.position
        /\ posResult' = result
        /\ lastUpdate' = u
        /\ partialExitCount' = partialExitCount + IF result.decision = "PARTIAL_EXIT" THEN 1 ELSE 0
        /\ closedCount' = closedCount + IF result.decision = "FULL_EXIT" THEN 1 ELSE 0
        /\ invalidationCount' =
             invalidationCount + IF result.change = "INVALIDATED" THEN 1 ELSE 0
        /\ objectiveCount' = objectiveCount + IF touched THEN 1 ELSE 0
        /\ objectiveCount' <= MaxEvents
        /\ IF sameTimestamp /\ posHistorySize > 0
           THEN UNCHANGED posHistorySize
           ELSE PosAppendHistory
        /\ UNCHANGED <<posConfig, clock, openCache, openedCount>>

\* An update equal to the last one returns the last result again.
RepeatUpdate(u) ==
    /\ position # None
    /\ u = lastUpdate
    /\ UNCHANGED posVars

UpdatePrice(u) == UpdateWithoutPosition \/ RepeatUpdate(u) \/ UpdatePosition(u)

\* A faulty form: a manual exit is stamped with the engine's clock.
ClockTimestamp == clock

\* _position_timestamp: a manual exit is never stamped before the position's last update.
PositionTimestamp == IF clock < position.updatedAt THEN position.updatedAt ELSE clock

\* partial_exit(quantity, exit_price), reason MANUAL_DRY_RUN
PartialExit(q, price) ==
    /\ position # None
    /\ q > 0
    /\ q < position.open
    /\ position' = Exited(position, PositionTimestamp, q, price, "MANUAL_DRY_RUN")
    /\ posResult' = Managed("PARTIAL_EXIT", "PARTIALLY_CLOSED", position')
    /\ partialExitCount' = partialExitCount + 1
    /\ PosAppendHistory
    /\ UNCHANGED <<posConfig, clock, openCache, lastUpdate, openedCount, closedCount,
                   invalidationCount, objectiveCount>>

\* close(exit_price, reason)
ClosePosition(price, reason) ==
    /\ position # None
    /\ position' = None
    /\ posResult' =
         Managed("FULL_EXIT", IF reason = "INVALIDATION" THEN "INVALIDATED" ELSE "CLOSED",
                 Exited(position, PositionTimestamp, position.open, price, reason))
    /\ closedCount' = closedCount + 1
    /\ invalidationCount' = invalidationCount + IF reason = "INVALIDATION" THEN 1 ELSE 0
    /\ PosAppendHistory
    /\ UNCHANGED <<posConfig, clock, openCache, lastUpdate, openedCount, partialExitCount,
                   objectiveCount>>

\* clear() is refused while a position is open; the engine's clock goes on.
PosClear ==
    /\ position = None
    /\ posResult' = None
    /\ openCache' = <<>>
    /\ lastUpdate' = None
    /\ openedCount' = 0
    /\ partialExitCount' = 0
    /\ closedCount' = 0
    /\ invalidationCount' = 0
    /\ objectiveCount' = 0
    /\ posHistorySize' = 0
    /\ UNCHANGED <<posConfig, clock, position>>

PosNext ==
    \/ Tick
    \/ \E result \in Executions : OpenFromExecution(result)
    \/ \E t \in 0 .. MaxTime : \E price \in MarketPrices :
         UpdatePrice([timestamp |-> t, price |-> price])
    \/ \E price \in MarketPrices :
         \E q \in 1 .. (IF position = None THEN 0 ELSE position.open) : PartialExit(q, price)
    \/ \E price \in MarketPrices : \E reason \in {"INVALIDATION", "MANUAL_DRY_RUN"} :
         ClosePosition(price, reason)
    \/ PosClear

PosSpec == PosInit /\ [][PosNext]_posVars

-------------------------------------------------------------------------------
(* Properties *)

PosTypeOK ==
    /\ autoInvalidation \in AutoInvalidation
    /\ objectiveMode \in ObjectiveModes
    /\ clock \in Time
    /\ position \in ManagedPosition \cup {None}
    /\ posResult \in PositionResult \cup {None}
    /\ \A result \in DOMAIN openCache :
         result \in Result /\ openCache[result] \in PositionResult
    /\ lastUpdate \in PriceUpdate \cup {None}
    /\ openedCount \in Nat
    /\ partialExitCount \in Nat
    /\ closedCount \in Nat
    /\ invalidationCount \in Nat
    /\ objectiveCount \in Nat
    /\ posHistorySize \in 0 .. PosHistoryLimit

\* The books of one position: no unit is lost or invented, it is finished exactly
\* when nothing is open, and what it has realized is the cash its exits brought in
\* less the cost of the units that left, however many partial exits at whatever
\* prices lie behind it.
Balanced(p) ==
    LET cash == p.exitNotional * p.initial
        cost == p.entryNotional * p.closed
        sign == IF Side(p) = "LONG" THEN 1 ELSE -1
    IN  /\ p.initial = p.source.filled
        /\ p.open + p.closed = p.initial
        /\ (p.open = 0) <=> (p.status \in Finished)
        /\ p.realized = sign * (cash - cost)
        /\ p.unrealized = sign * (p.currentPrice - p.entryNotional) * p.open

\* Both the open position and the one the last result reports (it may be closed)
\* keep balanced books after any sequence of updates and exits.
BooksBalance ==
    /\ position # None => Balanced(position) /\ position.open > 0
    /\ (posResult # None /\ posResult.position # None) => Balanced(posResult.position)

\* Every opening the engine counts is closed or still open, invalidations are
\* closings, and no execution result has opened two positions.
OpeningsAccountedFor ==
    /\ openedCount = closedCount + IF position = None THEN 0 ELSE 1
    /\ invalidationCount <= closedCount
    /\ openedCount = Cardinality(DOMAIN openCache)

\* Market timestamps and the engine's clock advance independently, yet a position
\* only ever moves forward in time: whatever touches it, price update or manual
\* exit, is stamped no earlier than what touched it before.
TimeNeverGoesBack ==
    [][(position # None /\ posResult' # posResult) =>
           /\ posResult'.position.openedAt = position.openedAt
           /\ posResult'.position.updatedAt >= position.updatedAt
           /\ (lastUpdate # None => lastUpdate'.timestamp >= lastUpdate.timestamp)]_posVars

\* A position is honest from its opening to its end: after any sequence of prices,
\* partial exits, closings and repeated openings its books balance, every opening is
\* closed or still open, and it never goes back in time (engine.py).
PositionsAreHonest ==
    /\ [](PosTypeOK /\ BooksBalance /\ OpeningsAccountedFor)
    /\ TimeNeverGoesBack
===============================================================================
