-------------------------- MODULE ExecutionRuntimeV1 --------------------------
(***************************************************************************)
(* application/execution_runtime_v1: the dry-run execution runtime of one  *)
(* instrument.  It turns an approved risk snapshot into an execution       *)
(* intent, lets the simulator fill it at once or waits for manual fills,   *)
(* and remembers every finished intent so that the same risk snapshot is   *)
(* never executed twice.                                                   *)
(*                                                                         *)
(* Every public method runs under one RLock, so each is one action.  The   *)
(* configuration flags keep their defaults, except the fill policy, which  *)
(* is chosen when the runtime is built.                                    *)
(***************************************************************************)
EXTENDS TradeTypes

CONSTANTS
    FillPolicies,   \* the fill policies a runtime may be built with
    FillPrices,     \* prices a manual fill confirmation may carry
    HistoryLimit,   \* configuration.history_limit
    MaxSubmitted,   \* bound: submissions counted between two clears
    MaxRejected     \* bound: rejections counted between two clears

AllFillPolicies == {"IMMEDIATE_FULL", "IMMEDIATE_PARTIAL", "MANUAL_CONFIRMATION"}

ASSUME ExecutionAssumption ==
    /\ FillPolicies \subseteq AllFillPolicies
    /\ FillPrices \subseteq Price
    /\ HistoryLimit \in Nat \ {0}
    /\ MaxSubmitted \in Nat
    /\ MaxRejected \in Nat

VARIABLES
    fillPolicy,      \* configuration.fill_policy, fixed at construction
    execStatus,      \* _status
    activeIntent,    \* _active_intent, or None
    lastResult,      \* _last_result, or None
    executedCache,   \* _executed_cache: risk snapshot -> finished result, or None
    submittedCount,  \* acknowledged_count always moves with it
    partialFillCount,
    fillCount,
    cancelCount,
    rejectCount,
    execHistorySize, \* len(_history); only its length is ever published
    filledFor        \* auxiliary: units filled for each risk snapshot since clear

execCounts == <<submittedCount, partialFillCount, fillCount, cancelCount, rejectCount>>
execVars == <<fillPolicy, execStatus, activeIntent, lastResult, executedCache,
              execCounts, execHistorySize, filledFor>>

ExecStatuses   == {"CREATED", "RUNNING", "STOPPED", "CLEARED"}

-------------------------------------------------------------------------------
(* ExecutionEligibilityValidator and DryRunExecutionSimulator *)

Executable(r) ==
    /\ r.decision \in Approved
    /\ r.eligible
    /\ r.quantity > 0
    /\ r.action \in {"CONSIDER_LONG", "CONSIDER_SHORT"}
    /\ r.ready
    /\ SideFromRisk(r) # "NONE"

Validate(r) ==
    IF r.decision \in {"WAIT", "INSUFFICIENT_DATA", "REJECTED"} THEN r.decision
    ELSE IF Executable(r) THEN "ACCEPTED" ELSE "REJECTED"

Declined(decision) ==
    [decision |-> decision, intent |-> None, accepted |-> 0, filled |-> 0,
     remaining |-> 0, notional |-> 0]

\* What the simulator fills at once; IMMEDIATE_PARTIAL fills max(1, q // 2).
ImmediateFill(q) ==
    CASE fillPolicy = "IMMEDIATE_FULL"      -> q
      [] fillPolicy = "IMMEDIATE_PARTIAL"   -> IF q < 2 THEN q ELSE q \div 2
      [] fillPolicy = "MANUAL_CONFIRMATION" -> 0

\* A faulty form: the first fill finishes the intent.
FirstFillFinishes(filled, accepted) ==
    IF filled = 0 THEN "ACKNOWLEDGED" ELSE "FILLED"

StatusAfterFill(filled, accepted) ==
    IF filled = 0 THEN "ACKNOWLEDGED"
    ELSE IF filled = accepted THEN "FILLED" ELSE "PARTIALLY_FILLED"

Accepted(r) ==
    LET filled == ImmediateFill(r.quantity)
    IN  [decision  |-> "ACCEPTED",
         intent    |-> [risk |-> r, status |-> StatusAfterFill(filled, r.quantity)],
         accepted  |-> r.quantity,
         filled    |-> filled,
         remaining |-> r.quantity - filled,
         notional  |-> filled * r.entry]

Filled(result, q, price) ==
    [result EXCEPT
        !.intent.status = StatusAfterFill(result.filled + q, result.accepted),
        !.filled    = @ + q,
        !.remaining = @ - q,
        !.notional  = @ + q * price]

Cancelled(result) ==
    [result EXCEPT !.intent.status = "CANCELLED"]

-------------------------------------------------------------------------------
\* A faulty form: only filled intents are remembered.
RememberFilledOnly(r, result) ==
    IF result.intent.status = "FILLED" THEN [executedCache EXCEPT ![r] = result]
                                       ELSE executedCache

\* The cache after r's execution has ended with "result".
Remember(r, result) == [executedCache EXCEPT ![r] = result]

ExecInit ==
    /\ fillPolicy \in FillPolicies
    /\ execStatus = "CREATED"
    /\ activeIntent = None
    /\ lastResult = None
    /\ executedCache = [r \in RiskSnapshots |-> None]
    /\ submittedCount = 0
    /\ partialFillCount = 0
    /\ fillCount = 0
    /\ cancelCount = 0
    /\ rejectCount = 0
    /\ execHistorySize = 0
    /\ filledFor = [r \in RiskSnapshots |-> 0]

\* A faulty form: the history is never trimmed.
AppendUntrimmed == execHistorySize' = execHistorySize + 1

\* _append_history
AppendHistory ==
    execHistorySize' = IF execHistorySize < HistoryLimit THEN execHistorySize + 1
                                                         ELSE HistoryLimit

\* A faulty form: a restart forgets what was executed.
ExecStartAfresh ==
    /\ execStatus' = "RUNNING"
    /\ executedCache' = [r \in RiskSnapshots |-> None]
    /\ UNCHANGED <<fillPolicy, activeIntent, lastResult, execCounts, execHistorySize, filledFor>>

\* start() from any state; a second start changes nothing.
ExecStart ==
    /\ execStatus' = "RUNNING"
    /\ UNCHANGED <<fillPolicy, activeIntent, lastResult, executedCache, execCounts,
                   execHistorySize, filledFor>>

\* A faulty form: an open intent does not keep the runtime running.
ExecStopAnyway ==
    /\ execStatus' = "STOPPED"
    /\ UNCHANGED <<fillPolicy, activeIntent, lastResult, executedCache, execCounts,
                   execHistorySize, filledFor>>

\* stop() is refused while an intent is open.
ExecStop ==
    /\ activeIntent = None
    /\ execStatus' = "STOPPED"
    /\ UNCHANGED <<fillPolicy, activeIntent, lastResult, executedCache, execCounts,
                   execHistorySize, filledFor>>

\* What submit(r) returns.
SubmitResult(r) ==
    IF executedCache[r] # None
    THEN executedCache[r]
    ELSE IF Validate(r) = "ACCEPTED" THEN Accepted(r) ELSE Declined(Validate(r))

\* The three ways submit(r) leaves the runtime when it does not raise.
SubmitCached(r) ==
    /\ executedCache[r] # None
    /\ UNCHANGED execVars

SubmitDeclined(r) ==
    /\ executedCache[r] = None
    /\ Validate(r) # "ACCEPTED"
    /\ lastResult' = SubmitResult(r)
    /\ rejectCount' = rejectCount + IF Validate(r) = "REJECTED" THEN 1 ELSE 0
    /\ rejectCount' <= MaxRejected
    /\ AppendHistory
    /\ UNCHANGED <<fillPolicy, execStatus, activeIntent, executedCache, submittedCount,
                   partialFillCount, fillCount, cancelCount, filledFor>>

SubmitAccepted(r) ==
    LET result == SubmitResult(r)
    IN  /\ executedCache[r] = None
        /\ Validate(r) = "ACCEPTED"
        /\ submittedCount < MaxSubmitted
        /\ activeIntent' = IF result.remaining > 0 THEN result.intent ELSE None
        /\ lastResult' = result
        /\ executedCache' = IF result.remaining > 0 THEN executedCache
                            ELSE Remember(r, result)
        /\ submittedCount' = submittedCount + 1
        /\ partialFillCount' =
             partialFillCount + IF result.intent.status = "PARTIALLY_FILLED" THEN 1 ELSE 0
        /\ fillCount' = fillCount + IF result.intent.status = "FILLED" THEN 1 ELSE 0
        /\ filledFor' = [filledFor EXCEPT ![r] = @ + result.filled]
        /\ AppendHistory
        /\ UNCHANGED <<fillPolicy, execStatus, cancelCount, rejectCount>>

Submit(r) ==
    /\ execStatus = "RUNNING"
    /\ activeIntent = None
    /\ \/ SubmitCached(r)
       \/ SubmitDeclined(r)
       \/ SubmitAccepted(r)

\* What confirm_fill returns.
FillResult(q, price) == Filled(lastResult, q, price)

\* confirm_fill(fill_quantity, fill_price); the code asks for an active intent
\* but, unlike submit, not for a RUNNING runtime.
ConfirmFill(q, price) ==
    LET result == FillResult(q, price)
    IN  /\ activeIntent # None
        /\ lastResult # None
        /\ q > 0
        /\ q <= lastResult.remaining
        /\ activeIntent.status \in {"ACKNOWLEDGED", "PARTIALLY_FILLED"}
        /\ lastResult' = result
        /\ filledFor' = [filledFor EXCEPT ![activeIntent.risk] = @ + q]
        /\ IF result.intent.status = "FILLED"
           THEN /\ fillCount' = fillCount + 1
                /\ executedCache' = Remember(activeIntent.risk, result)
                /\ activeIntent' = None
                /\ UNCHANGED partialFillCount
           ELSE /\ partialFillCount' = partialFillCount + 1
                /\ activeIntent' = result.intent
                /\ UNCHANGED <<fillCount, executedCache>>
        /\ AppendHistory
        /\ UNCHANGED <<fillPolicy, execStatus, submittedCount, cancelCount, rejectCount>>

\* cancel_active(): the finished result is cached, so the risk snapshot is spent.
CancelActive ==
    /\ activeIntent # None
    /\ lastResult # None
    /\ lastResult.remaining > 0
    /\ lastResult' = Cancelled(lastResult)
    /\ executedCache' = Remember(activeIntent.risk, Cancelled(lastResult))
    /\ activeIntent' = None
    /\ cancelCount' = cancelCount + 1
    /\ AppendHistory
    /\ UNCHANGED <<fillPolicy, execStatus, submittedCount, partialFillCount, fillCount,
                   rejectCount, filledFor>>

\* clear(): only a stopped runtime without an open intent forgets its past.
ExecClear ==
    /\ execStatus = "STOPPED"
    /\ activeIntent = None
    /\ execStatus' = "CLEARED"
    /\ lastResult' = None
    /\ executedCache' = [r \in RiskSnapshots |-> None]
    /\ submittedCount' = 0
    /\ partialFillCount' = 0
    /\ fillCount' = 0
    /\ cancelCount' = 0
    /\ rejectCount' = 0
    /\ execHistorySize' = 0
    /\ filledFor' = [r \in RiskSnapshots |-> 0]
    /\ UNCHANGED <<fillPolicy, activeIntent>>

ExecNext ==
    \/ ExecStart
    \/ ExecStop
    \/ \E r \in RiskSnapshots : Submit(r)
    \/ \E price \in FillPrices :
         \E q \in 1 .. (IF lastResult = None THEN 0 ELSE lastResult.remaining) :
           ConfirmFill(q, price)
    \/ CancelActive
    \/ ExecClear

ExecSpec == ExecInit /\ [][ExecNext]_execVars

-------------------------------------------------------------------------------
(* Properties *)

ExecTypeOK ==
    /\ fillPolicy \in FillPolicies
    /\ execStatus \in ExecStatuses
    /\ activeIntent \in Intent \cup {None}
    /\ lastResult \in Result \cup {None}
    /\ executedCache \in [RiskSnapshots -> Result \cup {None}]
    /\ submittedCount \in Nat
    /\ partialFillCount \in Nat
    /\ fillCount \in Nat
    /\ cancelCount \in Nat
    /\ rejectCount \in Nat
    /\ execHistorySize \in 0 .. HistoryLimit
    /\ filledFor \in [RiskSnapshots -> Nat]

\* submit, confirm_fill and cancel_active keep two separate fields for the intent
\* in flight, _active_intent and _last_result.  They never come apart: the last
\* result is the active intent's own, units remain to be filled, and the
\* runtime has not been stopped under it (confirm_fill does not ask).
ActiveIntentIsLastResult ==
    activeIntent # None =>
        /\ execStatus = "RUNNING"
        /\ lastResult # None
        /\ lastResult.intent = activeIntent
        /\ lastResult.accepted = activeIntent.risk.quantity
        /\ lastResult.filled = filledFor[activeIntent.risk]
        /\ lastResult.remaining = lastResult.accepted - lastResult.filled
        /\ lastResult.remaining > 0
        /\ activeIntent.status \in {"ACKNOWLEDGED", "PARTIALLY_FILLED"}
        /\ executedCache[activeIntent.risk] = None

\* Every submission the runtime counts is filled, cancelled or still open.
SubmissionsAccountedFor ==
    submittedCount = fillCount + cancelCount + IF activeIntent = None THEN 0 ELSE 1

\* Whatever the order of submissions, confirmations, cancellations and repeated
\* submissions of the same snapshot, the fills of a risk snapshot never add up to
\* more than the quantity risk management approved for it.
NeverOverfilled ==
    \A r \in RiskSnapshots : filledFor[r] <= r.quantity

\* The cache is what stops a second execution: it holds only finished results of
\* its own risk snapshot, with the quantity that was really filled.
CacheHoldsFinishedResults ==
    \A r \in RiskSnapshots :
        executedCache[r] # None =>
            /\ executedCache[r].intent.risk = r
            /\ executedCache[r].filled = filledFor[r]
            /\ \/ executedCache[r].intent.status = "FILLED" /\ filledFor[r] = r.quantity
               \/ executedCache[r].intent.status = "CANCELLED" /\ filledFor[r] < r.quantity

\* Units are filled only for snapshots that were submitted since the last clear.
FillsComeFromSubmissions ==
    \A r \in RiskSnapshots :
        filledFor[r] > 0 => \/ executedCache[r] # None
                            \/ activeIntent # None /\ activeIntent.risk = r

\* The state the runtime keeps about intents, in flight and finished, is coherent.
ExecCoherent ==
    /\ ActiveIntentIsLastResult
    /\ CacheHoldsFinishedResults
    /\ FillsComeFromSubmissions

\* A finished execution is final: until clear() the cached result of a risk
\* snapshot is never replaced or withdrawn, and no unit is filled for it again.
FinishedIsFinal ==
    [][\A r \in RiskSnapshots :
         executedCache[r] # None =>
            \/ executedCache'[r] = executedCache[r] /\ filledFor'[r] = filledFor[r]
            \/ execStatus' = "CLEARED"]_execVars

\* Every unit and every submission is accounted for: the intent in flight, the last
\* result, the cache and the counters tell one story, and none of a risk snapshot's
\* fills goes beyond the quantity approved for it, in whatever order the runtime is
\* asked to submit, confirm, cancel, submit again, stop and clear (engine.py).
FillsAccountedFor ==
    /\ ExecTypeOK
    /\ ExecCoherent
    /\ SubmissionsAccountedFor
    /\ NeverOverfilled
===============================================================================
