--------------------------- MODULE TradeLifecycleV1 ---------------------------
(***************************************************************************)
(* application/trade_lifecycle_v1: the coordinator that owns one execution *)
(* runtime and one position engine and moves a finalized strategy and risk *)
(* decision through them.  Every public method runs under the              *)
(* coordinator's RLock, calls into the two owned components included.      *)
(*                                                                         *)
(* A call that raises before it changed anything is a disabled action; a   *)
(* call that raises halfway (the fill is recorded, the position cannot be  *)
(* opened) is an action of its own.                                        *)
(***************************************************************************)
EXTENDS ExecutionRuntimeV1, PositionManagementV1

CONSTANTS
    AllowPartialOpen,  \* configuration.allow_partial_fill_position_open: its values
    MaxProcessed       \* bound: requests processed between two clears

ASSUME LifecycleAssumption ==
    /\ AllowPartialOpen \subseteq BOOLEAN
    /\ MaxProcessed \in Nat

VARIABLES
    allowPartialOpen,   \* configuration, fixed at construction
    lcStatus,           \* _status
    stage,              \* _stage
    outcome,            \* _outcome
    lcExecution,        \* _execution_result, or None
    lcPosition,         \* _position_result, or None
    lastRequest,        \* _last_request (its risk decision holds its strategy), or None
    lastPriceUpdate,    \* _last_position_update, or None
    hasHistory,         \* whether _history holds a snapshot
    processingCount,
    waitingCount,
    blockedCount,
    rejectedCount,
    executionCount,
    positionOpenCount,
    positionCloseCount,
    unitsOpened         \* auxiliary: units put into positions for each risk snapshot

lcCounts == <<processingCount, waitingCount, blockedCount, rejectedCount,
              executionCount, positionOpenCount, positionCloseCount>>
lcVars == <<allowPartialOpen, lcStatus, stage, outcome, lcExecution, lcPosition,
            lastRequest, lastPriceUpdate, hasHistory, lcCounts, unitsOpened>>
allVars == <<execVars, posVars, lcVars>>

LcStatuses == {"CREATED", "READY", "RUNNING", "STOPPED", "ERROR", "CLEARED"}
Stages == {"IDLE", "WAITING", "BLOCKED", "REJECTED", "INSUFFICIENT_DATA",
           "EXECUTION_SUBMITTED", "EXECUTION_ACKNOWLEDGED", "EXECUTION_PARTIALLY_FILLED",
           "EXECUTION_FILLED", "POSITION_OPEN", "POSITION_PARTIALLY_CLOSED", "POSITION_CLOSED"}
Outcomes == {"IN_PROGRESS", "WAITING", "BLOCKED", "REJECTED", "INSUFFICIENT_DATA",
             "EXECUTED_DRY_RUN", "POSITION_ACTIVE", "POSITION_CLOSED"}

LcInit ==
    /\ ExecInit
    /\ PosInit
    /\ allowPartialOpen \in AllowPartialOpen
    /\ lcStatus = "CREATED"
    /\ stage = "IDLE"
    /\ outcome = "IN_PROGRESS"
    /\ lcExecution = None
    /\ lcPosition = None
    /\ lastRequest = None
    /\ lastPriceUpdate = None
    /\ hasHistory = FALSE
    /\ processingCount = 0
    /\ waitingCount = 0
    /\ blockedCount = 0
    /\ rejectedCount = 0
    /\ executionCount = 0
    /\ positionOpenCount = 0
    /\ positionCloseCount = 0
    /\ unitsOpened = [r \in RiskSnapshots |-> 0]

-------------------------------------------------------------------------------
(* validate, start, stop, clear *)

Report(newStage, newOutcome) == stage' = newStage /\ outcome' = newOutcome

\* validate(): READY from any state, a running coordinator included, unless a
\* position is open, which makes it ERROR (and raises).
LcValidate ==
    /\ lcStatus' = IF position = None THEN "READY" ELSE "ERROR"
    /\ UNCHANGED <<execVars, posVars, allowPartialOpen, stage, outcome, lcExecution, lcPosition,
                   lastRequest, lastPriceUpdate, hasHistory, lcCounts, unitsOpened>>

\* start(): validates, starts the execution runtime if it is not running.
LcStart ==
    /\ lcStatus # "RUNNING"
    /\ IF position # None
       THEN /\ lcStatus' = "ERROR"
            /\ UNCHANGED <<execVars, stage, outcome, hasHistory>>
       ELSE /\ lcStatus' = "RUNNING"
            /\ IF execStatus = "RUNNING" THEN UNCHANGED execVars ELSE ExecStart
            /\ Report("IDLE", "IN_PROGRESS")
            /\ hasHistory' = TRUE
    /\ UNCHANGED <<posVars, allowPartialOpen, lcExecution, lcPosition, lastRequest,
                   lastPriceUpdate, lcCounts, unitsOpened>>

\* A faulty form: an open position does not keep the coordinator running.
LcStopHolding ==
    /\ activeIntent = None
    /\ IF execStatus = "RUNNING" THEN ExecStop ELSE UNCHANGED execVars
    /\ lcStatus' = "STOPPED"
    /\ UNCHANGED <<posVars, allowPartialOpen, stage, outcome, lcExecution, lcPosition,
                   lastRequest, lastPriceUpdate, hasHistory, lcCounts, unitsOpened>>

\* stop(): refused while an intent or a position is open.
LcStop ==
    /\ lcStatus # "STOPPED"
    /\ activeIntent = None
    /\ position = None
    /\ IF execStatus = "RUNNING" THEN ExecStop ELSE UNCHANGED execVars
    /\ lcStatus' = "STOPPED"
    /\ hasHistory' = TRUE
    /\ UNCHANGED <<posVars, allowPartialOpen, stage, outcome, lcExecution, lcPosition,
                   lastRequest, lastPriceUpdate, lcCounts, unitsOpened>>

\* clear(): the counters and the history go; the last request, the last results and
\* the two owned components keep theirs.
LcClear ==
    /\ lcStatus = "STOPPED"
    /\ activeIntent = None
    /\ position = None
    /\ lcStatus' = "CLEARED"
    /\ Report("IDLE", "IN_PROGRESS")
    /\ hasHistory' = FALSE
    /\ processingCount' = 0
    /\ waitingCount' = 0
    /\ blockedCount' = 0
    /\ rejectedCount' = 0
    /\ executionCount' = 0
    /\ positionOpenCount' = 0
    /\ positionCloseCount' = 0
    /\ UNCHANGED <<execVars, posVars, allowPartialOpen, lcExecution, lcPosition, lastRequest,
                   lastPriceUpdate, unitsOpened>>

-------------------------------------------------------------------------------
(* process and confirm_execution_fill *)

\* _strategy_gate, then _risk_gate: where the request stops before execution.
Gate(r) ==
    IF r.action = "WAIT" THEN "WAITING"
    ELSE IF r.action = "NO_TRADE" THEN "BLOCKED"
    ELSE IF r.action = "INSUFFICIENT_DATA" THEN "INSUFFICIENT_DATA"
    ELSE IF r.decision = "WAIT" THEN "WAITING"
    ELSE IF r.decision \in {"REJECTED", "INSUFFICIENT_DATA"} THEN r.decision
    ELSE "PASSED"

\* A faulty form: the partial-fill setting is ignored.
OpenOnAnyFill(result) == result.filled > 0

\* _should_open_position, with auto_open_position_on_fill on.
ShouldOpen(result) ==
    /\ result.filled > 0
    /\ allowPartialOpen \/ result.remaining = 0

\* A faulty form: the status names the stage, a cancelled intent's too.
StageNamedByStatus(result) ==
    CASE result.intent.status = "FILLED"    -> "EXECUTION_FILLED"
      [] result.intent.status = "CANCELLED" -> "EXECUTION_CANCELLED"
      [] OTHER                              -> "EXECUTION_ACKNOWLEDGED"

\* _record_execution_stages
ExecutionStage(result) ==
    CASE result.intent.status = "ACKNOWLEDGED"     -> "EXECUTION_ACKNOWLEDGED"
      [] result.intent.status = "PARTIALLY_FILLED" -> "EXECUTION_PARTIALLY_FILLED"
      [] result.intent.status = "FILLED"           -> "EXECUTION_FILLED"
      [] OTHER                                     -> "EXECUTION_SUBMITTED"

\* open_from_execution accepts the result or has its answer in the cache;
\* otherwise it raises.
Openable(result) == result \in DOMAIN openCache \/ CanOpen(result)

\* The coordinator after the position engine answered open_from_execution.
OpenPosition(result) ==
    /\ OpenFromExecution(result)
    /\ lcPosition' = OpenResult(result)
    /\ positionOpenCount' = positionOpenCount + 1
    /\ unitsOpened' = IF result \in DOMAIN openCache THEN unitsOpened
                      ELSE [unitsOpened EXCEPT ![result.intent.risk] = @ + result.filled]
    /\ Report("POSITION_OPEN", "POSITION_ACTIVE")

NoOpening == UNCHANGED <<posVars, lcPosition, positionOpenCount, unitsOpened>>

\* The guards of process.  A repetition of the last request changes nothing: it
\* raises once anything was ever executed and returns the old snapshot before.
MayProcess(r) ==
    /\ lcStatus = "RUNNING"
    /\ lastRequest # r
    /\ activeIntent = None
    /\ position = None
    /\ processingCount < MaxProcessed

ProcessGated(r) ==
    /\ MayProcess(r)
    /\ Gate(r) # "PASSED"
    /\ processingCount' = processingCount + 1
    /\ waitingCount' = waitingCount + IF Gate(r) = "WAITING" THEN 1 ELSE 0
    /\ blockedCount' =
         blockedCount + IF Gate(r) \in {"BLOCKED", "INSUFFICIENT_DATA"} THEN 1 ELSE 0
    /\ rejectedCount' = rejectedCount + IF Gate(r) = "REJECTED" THEN 1 ELSE 0
    /\ Report(Gate(r), Gate(r))
    /\ lastRequest' = r
    /\ hasHistory' = TRUE
    /\ UNCHANGED <<execVars, posVars, allowPartialOpen, lcStatus, lcExecution, lcPosition,
                   lastPriceUpdate, executionCount, positionOpenCount, positionCloseCount,
                   unitsOpened>>

\* What the execution runtime's answer makes of the request: blocked, in hand, a
\* position at once, or an exception out of open_from_execution.
ProcessExecuted(r) ==
    LET result == SubmitResult(r)
        raises == ShouldOpen(result) /\ ~Openable(result)
    IN  /\ MayProcess(r)
        /\ Gate(r) = "PASSED"
        /\ Submit(r)
        /\ processingCount' = processingCount + 1
        /\ lcExecution' = result
        /\ executionCount' = executionCount + 1
        /\ IF result.decision # "ACCEPTED" THEN Report("BLOCKED", "BLOCKED") /\ NoOpening
           ELSE IF ShouldOpen(result) /\ Openable(result) THEN OpenPosition(result)
           ELSE Report(ExecutionStage(result), IF raises THEN "EXECUTED_DRY_RUN" ELSE "IN_PROGRESS")
                  /\ NoOpening
        /\ lastRequest' = IF raises THEN lastRequest ELSE r
        /\ hasHistory' = IF raises THEN hasHistory ELSE TRUE
        /\ UNCHANGED <<allowPartialOpen, lcStatus, lastPriceUpdate, waitingCount, blockedCount,
                       rejectedCount, positionCloseCount>>

Process(r) == ProcessGated(r) \/ ProcessExecuted(r)

\* confirm_execution_fill: refused while a position is open; the fill stands even
\* when the position it should open is refused.
ConfirmExecutionFill(q, price) ==
    LET result == FillResult(q, price)
        raises == ShouldOpen(result) /\ ~Openable(result)
    IN  /\ lcStatus = "RUNNING"
        /\ position = None
        /\ ConfirmFill(q, price)
        /\ lcExecution' = result
        /\ IF ShouldOpen(result) /\ Openable(result) THEN OpenPosition(result)
           ELSE Report(ExecutionStage(result), IF raises THEN "EXECUTED_DRY_RUN" ELSE "IN_PROGRESS")
                  /\ NoOpening
        /\ hasHistory' = IF raises THEN hasHistory ELSE TRUE
        /\ UNCHANGED <<allowPartialOpen, lcStatus, lastRequest, lastPriceUpdate, processingCount,
                       waitingCount, blockedCount, rejectedCount, executionCount,
                       positionCloseCount>>

\* cancel_active is only reachable through the coordinator's execution_runtime.
CancelExecution ==
    /\ CancelActive
    /\ UNCHANGED <<posVars, lcVars>>

-------------------------------------------------------------------------------
(* update_position_price, partial_exit_position, close_position *)

\* _position_mapping: a NO_POSITION answer is reported as an open position too.
MappedStage(result) ==
    CASE result.decision = "PARTIAL_EXIT" -> "POSITION_PARTIALLY_CLOSED"
      [] result.decision = "FULL_EXIT"    -> "POSITION_CLOSED"
      [] OTHER                            -> "POSITION_OPEN"

UpdatePositionPrice(u) ==
    /\ ~(lastPriceUpdate = u /\ hasHistory)
    /\ UpdatePrice(u)
    /\ lcPosition' = posResult'
    /\ lastPriceUpdate' = u
    /\ LET newStage == MappedStage(posResult')
       IN  /\ Report(newStage,
                     IF newStage = "POSITION_CLOSED" THEN "POSITION_CLOSED" ELSE "POSITION_ACTIVE")
           /\ positionCloseCount' =
                positionCloseCount + IF newStage = "POSITION_CLOSED" THEN 1 ELSE 0
    /\ hasHistory' = TRUE
    /\ UNCHANGED <<execVars, allowPartialOpen, lcStatus, lcExecution, lastRequest,
                   processingCount, waitingCount, blockedCount, rejectedCount, executionCount,
                   positionOpenCount, unitsOpened>>

\* A faulty form: the coordinator keeps reporting the position before the exit.
PartialExitUnreported(q, price) ==
    /\ PartialExit(q, price)
    /\ Report("POSITION_PARTIALLY_CLOSED", "POSITION_ACTIVE")
    /\ hasHistory' = TRUE
    /\ UNCHANGED <<execVars, allowPartialOpen, lcStatus, lcExecution, lcPosition, lastRequest,
                   lastPriceUpdate, lcCounts, unitsOpened>>

PartialExitPosition(q, price) ==
    /\ PartialExit(q, price)
    /\ lcPosition' = posResult'
    /\ Report("POSITION_PARTIALLY_CLOSED", "POSITION_ACTIVE")
    /\ hasHistory' = TRUE
    /\ UNCHANGED <<execVars, allowPartialOpen, lcStatus, lcExecution, lastRequest,
                   lastPriceUpdate, lcCounts, unitsOpened>>

LcClosePosition(price) ==
    /\ ClosePosition(price, "MANUAL_DRY_RUN")
    /\ lcPosition' = posResult'
    /\ positionCloseCount' = positionCloseCount + 1
    /\ Report("POSITION_CLOSED", "POSITION_CLOSED")
    /\ hasHistory' = TRUE
    /\ UNCHANGED <<execVars, allowPartialOpen, lcStatus, lcExecution, lastRequest,
                   lastPriceUpdate, processingCount, waitingCount, blockedCount, rejectedCount,
                   executionCount, positionOpenCount, unitsOpened>>

LcTick == Tick /\ UNCHANGED <<execVars, lcVars>>

LcNext ==
    \/ LcValidate
    \/ LcStart
    \/ LcStop
    \/ LcClear
    \/ \E r \in RiskSnapshots : Process(r)
    \/ \E price \in FillPrices :
         \E q \in 1 .. (IF lastResult = None THEN 0 ELSE lastResult.remaining) :
           ConfirmExecutionFill(q, price)
    \/ CancelExecution
    \/ \E t \in 0 .. MaxTime : \E price \in MarketPrices :
         UpdatePositionPrice([timestamp |-> t, price |-> price])
    \/ \E price \in MarketPrices :
         \E q \in 1 .. (IF position = None THEN 0 ELSE position.open) :
           PartialExitPosition(q, price)
    \/ \E price \in MarketPrices : LcClosePosition(price)
    \/ LcTick

LcSpec == LcInit /\ [][LcNext]_allVars

-------------------------------------------------------------------------------
(* Properties *)

LcTypeOK ==
    /\ allowPartialOpen \in AllowPartialOpen
    /\ lcStatus \in LcStatuses
    /\ stage \in Stages
    /\ outcome \in Outcomes
    /\ lcExecution \in Result \cup {None}
    /\ lcPosition \in PositionResult \cup {None}
    /\ lastRequest \in RiskSnapshots \cup {None}
    /\ lastPriceUpdate \in PriceUpdate \cup {None}
    /\ hasHistory \in BOOLEAN
    /\ unitsOpened \in [RiskSnapshots -> Nat]
    /\ \A count \in {processingCount, waitingCount, blockedCount, rejectedCount,
                     executionCount, positionOpenCount, positionCloseCount} : count \in Nat

\* Stopping is only possible flat and nothing can be opened afterwards without a
\* start, although validate() may take a running coordinator to READY, and price
\* updates, exits and cancellations are accepted in every status.
StatusMatchesExposure ==
    /\ lcStatus = "RUNNING" => execStatus = "RUNNING"
    /\ lcStatus \in {"CREATED", "STOPPED", "CLEARED"} =>
         activeIntent = None /\ position = None

\* While a position is open, what the coordinator reports is that position as it
\* now stands and the execution that opened it.  Its copies of both results are
\* taken after each call into the two components, which also answer from caches
\* and can be cancelled behind its back.
ReportsHeldPosition ==
    position # None =>
        /\ lcExecution = position.source
        /\ lcPosition # None /\ lcPosition.position = position
        /\ outcome = "POSITION_ACTIVE"

\* No unit is held twice: for each risk snapshot the units that ever went into
\* positions are covered by the units the execution runtime filled for it, and so
\* by the quantity risk management approved.
PositionsCoveredByFills ==
    \A r \in RiskSnapshots : unitsOpened[r] <= filledFor[r]

\* Where the trade of risk snapshot r stands when neither component has it in hand.
PhaseAtRest(r) ==
    IF executedCache[r] = None THEN "NEW"
    ELSE IF executedCache[r].intent.status = "CANCELLED" THEN "CANCELLED"
    ELSE IF executedCache[r] \in DOMAIN openCache THEN "CLOSED"
    ELSE "UNHELD"

\* Where the two components together stand with the trade of r.
PhaseOf(r) ==
    IF activeIntent # None /\ activeIntent.risk = r THEN "WORKING"
    ELSE IF position # None /\ position.source.intent.risk = r THEN "HELD"
    ELSE PhaseAtRest(r)

Trade == INSTANCE DryRunTrade WITH Trades <- RiskSnapshots,
                                   phase  <- [r \in RiskSnapshots |-> PhaseOf(r)]

\* The coordinator, the execution runtime and the position engine together trade
\* each risk snapshot at most once and one at a time, whatever is submitted again,
\* cancelled, refused or priced in between.
ImplementsDryRunTrade == Trade!TradeSpec

\* What the coordinator says of a trade is so: the status it is in allows what is in
\* the market, the results it reports are those of the position held, and the units
\* it opened are units that were filled, although the components behind it answer
\* from caches, refuse, and can be cancelled without it (coordinator.py).
CoordinatorIsTruthful ==
    /\ LcTypeOK
    /\ StatusMatchesExposure
    /\ ReportsHeldPosition
    /\ PositionsCoveredByFills
===============================================================================
