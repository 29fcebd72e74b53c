------------------------------ MODULE MCDecisions ------------------------------
(***************************************************************************)
(* Small instances of what decides whether, how much and how a trade is    *)
(* made on paper, each driven on its own through its whole interface while *)
(* the others rest: the execution policy with the authorization and the    *)
(* handoff, both generations of risk management, the trade plans, the      *)
(* older gate, and paper trading with its journal.                         *)
(***************************************************************************)
EXTENDS AuthorizedPaperV1, RiskEngineV1, RiskTradePlansV1,
        PerformanceJournalV1, RiskManagementV2

CONSTANTS
    MaxInterruptions, \* bound on the stops and resets around authorizations
    MaxEvents         \* bound on the ticks, candles and calls of paper trading

VARIABLES
    driven, \* the part the behaviour is about
    calls,  \* the interruptions or events so far, where they are bounded
    cast    \* the names of the requests for an execution that are made

decisionVars ==
    <<driven, calls, cast, authVars, riskVars, planVars, calculatorVars, tradingVars, reviewVars>>
-----------------------------------------------------------------------------
(* Execution policy and authorization *)

Decided ==
    [valid |-> TRUE, id |-> "risk", signal |-> "signal", timestamp |-> 0, instrument |-> "NIFTY",
     direction |-> "BULLISH", approved |-> TRUE, quantity |-> 2, entry |-> 2000, stop |-> 1990,
     target |-> 2020, manual |-> FALSE]
Bearish == [Decided EXCEPT !.id = "bear", !.direction = "BEARISH", !.stop = 2010, !.target = 1980, !.signal = None]

Asked ==
    [name |-> "paper", instrument |-> "NIFTY", timestamp |-> 1, risk |-> Decided, mode |-> "PAPER",
     type |-> "LIMIT", entry |-> None, reference |-> None, trigger |-> None, quantity |-> None,
     manual |-> TRUE, signal |-> None, client |-> "c1", existing |-> {}, validUntil |-> None]
Risky(n, k) == [Asked EXCEPT !.name = n, !.risk = k]

\* Requests that are told apart by one check of the policy each, at its boundary where it has one.
MCRequests ==
    { Asked, [Asked EXCEPT !.name = "waiting", !.manual = FALSE, !.client = None],
      Risky("bear", Bearish),
      Risky("bearStopBelow", [Bearish EXCEPT !.stop = 1990]),
      Risky("invalid", [Decided EXCEPT !.valid = FALSE, !.approved = FALSE]),
      Risky("unapproved", [Decided EXCEPT !.approved = FALSE]),
      Risky("stale", [Decided EXCEPT !.timestamp = -1]),
      Risky("stopAbove", [Decided EXCEPT !.stop = 2000]),
      Risky("targetBelow", [Decided EXCEPT !.target = 2000]),
      Risky("unprotected", [Decided EXCEPT !.stop = None]),
      Risky("elsewhere", [Decided EXCEPT !.instrument = "SENSEX"]),
      [Asked EXCEPT !.name = "more", !.quantity = 3],
      [Asked EXCEPT !.name = "fewer", !.quantity = 1, !.client = "c2"],
      [Asked EXCEPT !.name = "slips", !.entry = 2004],
      [Asked EXCEPT !.name = "offTick", !.entry = 2001],
      [Asked EXCEPT !.name = "live", !.mode = "live"],
      [Asked EXCEPT !.name = "market", !.type = "MARKET"],
      [Asked EXCEPT !.name = "trigger", !.type = "STOP_LIMIT", !.trigger = 2000],
      [Asked EXCEPT !.name = "triggerAbove", !.type = "STOP_LIMIT", !.trigger = 2002],
      [Asked EXCEPT !.name = "short", !.validUntil = 2, !.mode = None],
      [Asked EXCEPT !.name = "after", !.existing = {<<"paper", "default">>}, !.client = "c2",
                    !.signal = "other", !.risk = [Decided EXCEPT !.id = "risk2"]] }

\* ExecutionPolicy with its defaults.
MCPolicies ==
    { [name |-> "default", enabled |-> TRUE, instruments |-> Instruments, modes |-> Modes,
       defaultMode |-> "PLAN_ONLY", types |-> OrderTypes, market |-> FALSE, limit |-> TRUE, stopLimit |-> TRUE,
       manual |-> TRUE, riskApproval |-> TRUE, stop |-> TRUE, target |-> TRUE, maxAge |-> 1, maxValidity |-> 2,
       points |-> None, permille |-> 1, ticks |-> Instruments, mustMatch |-> TRUE, reduction |-> FALSE,
       duplicates |-> FALSE, perSignal |-> TRUE, perRisk |-> TRUE] }

Agreed == [instrument |-> "NIFTY", direction |-> "BULLISH", timestamp |-> 0, verdict |-> "OK"]
Clear  == [id |-> "a1", timestamp |-> 1, strategy |-> Agreed, confidence |-> Agreed, risk |-> Agreed]
MCAuthRequests ==
    { Clear,
      [Clear EXCEPT !.confidence = [Agreed EXCEPT !.verdict = "REDUCE"]],
      [Clear EXCEPT !.confidence = [Agreed EXCEPT !.verdict = "BLOCK"]],
      [Clear EXCEPT !.risk = [Agreed EXCEPT !.direction = "BEARISH"]],
      [Clear EXCEPT !.strategy = None] }
MCHandoffs == {[id |-> "h1", timestamp |-> 2], [id |-> "h2", timestamp |-> 2], [id |-> "h2", timestamp |-> 3]}

\* Any request with one that may get a plan: most others get none, whoever comes before them.
Casts == {{q.name, n} : q \in Requests, n \in {"paper", "waiting", "bear", "after"}}

\* The casts whose plans go all the way to the paper coordinator.
Traded == {{"waiting"}}

Interrupted ==
    \/ engine # "STOPPED" /\ engine' = "STOPPED"
    \/ gate # "STOPPED" /\ gate' = "STOPPED"
    \/ handoff # "STOPPED" /\ handoff' \in {"STOPPED", "FAILED"}
    \/ engine # "CREATED" /\ ResetSession
    \/ gate # "CREATED" /\ ResetGate
    \/ handoff # "CREATED" /\ ResetDesk

\* PolicyNext for the requests of the cast.
PlansOfCast ==
    \/ StartPolicy \/ StopPolicy \/ ResetSession
    \/ \E q \in Requests, p \in Policies : q.name \in cast /\ (EvaluateStopped(q, p) \/ Evaluate(q, p))
    \/ \E id \in PlanIds : CancelPlan(id) \/ ExpirePlan(id) \/ \E t \in Times : ApproveManual(id, t)

AuthorizationSteps ==
    /\ driven = "authorization"
    /\ \/ PlansOfCast /\ UNCHANGED <<gateVars, handoffVars, keptPlan>>
       \/ cast \in Traded /\ (GateMoves \/ DeskMoves \/ \E id \in PlanIds : KeepPlan(id))
    /\ calls' = calls + (IF Interrupted THEN 1 ELSE 0)
    /\ calls' <= MaxInterruptions
    /\ UNCHANGED <<driven, cast, riskVars, planVars, calculatorVars, tradingVars, reviewVars>>
-----------------------------------------------------------------------------
(* Risk *)

MCRiskPolicy ==
    [enabled |-> TRUE, tradePercent |-> 10, tradeAmount |-> None, lossAmount |-> 8, lossPercent |-> None,
     profitTrigger |-> 5, profitGiveback |-> 2, maxTotal |-> 6, maxInstrument |-> 8, maxQuantity |-> None,
     maxTrades |-> 2, maxLosses |-> 1, maxLots |-> 3, minReward |-> 15, cooldown |-> 1, revengeWindow |-> 2,
     minStop |-> 10, maxStop |-> 200, opens |-> 1, lastEntry |-> 2, allow |-> {}, require |-> {"stop", "target"},
     lotSizes |-> [i \in {"n"} |-> 2], manualApproval |-> FALSE]
MCRiskPolicies == {MCRiskPolicy}
MCAccounts == {[capital |-> 60, dailyPnl |-> p, openRisk |-> 0, date |-> None] : p \in {-5, 5}}
Proposed ==
    [instrument |-> "n", direction |-> "bullish", entry |-> 20, stop |-> 18, target |-> 24, lot |-> 1, lots |-> 2,
     quantity |-> None, flags |-> {"approved"}, held |-> 0, heldDirection |-> None]
MCProposedPlans ==
    { Proposed,
      [Proposed EXCEPT !.direction = "bearish", !.stop = 21, !.target = 16, !.lots = 3, !.flags = {"fomo"}],
      [Proposed EXCEPT !.instrument = "b", !.stop = 19, !.lots = 9, !.flags = {"revenge"}],
      [Proposed EXCEPT !.lot = 3, !.quantity = 2] }

RiskSteps ==
    driven = "risk" /\ RiskNext
    /\ UNCHANGED <<driven, calls, cast, authVars, planVars, calculatorVars, tradingVars, reviewVars>>

MCConfiguration ==
    [capital |-> 100, maxAmount |-> None, riskPercent |-> 10, maxLots |-> 2, minReward |-> 15, maxStop |-> 10,
     maxTrades |-> 2, validity |-> 1, maxAge |-> 1, maxLoss |-> 5, live |-> TRUE, allowLow |-> FALSE,
     allowMixed |-> FALSE, lotSize |-> 2]
Strategic == [own |-> TRUE, eligible |-> TRUE, at |-> 1, direction |-> "bullish", lowConfidence |-> FALSE,
              unsuitable |-> FALSE]
MCStrategies ==
    { Strategic, [Strategic EXCEPT !.direction = "bearish"], [Strategic EXCEPT !.lowConfidence = TRUE, !.at = 2],
      [Strategic EXCEPT !.at = 4, !.unsuitable = TRUE], [Strategic EXCEPT !.own = FALSE] }
Seen ==
    [priceAction |-> TRUE, optionChain |-> TRUE, marketContext |-> TRUE, conflicted |-> FALSE,
     position |-> FALSE, foreignTick |-> FALSE, price |-> 20,
     lows |-> <<None, 18>>, highs |-> <<22>>, resistances |-> {19, 24}, supports |-> {18, 14}]
MCTradeEvidence ==
    { Seen, [Seen EXCEPT !.price = 21], [Seen EXCEPT !.position = TRUE],
      [Seen EXCEPT !.lows = <<>>, !.optionChain = FALSE], [Seen EXCEPT !.marketContext = FALSE],
      [Seen EXCEPT !.foreignTick = TRUE] }
MCResults == {-3, 2}

PlanSteps ==
    driven = "plans" /\ PlanNext
    /\ UNCHANGED <<driven, calls, cast, authVars, riskVars, calculatorVars, tradingVars, reviewVars>>

MCGatePolicy ==
    [maxRisk |-> 10, reducedRisk |-> 5, maxDailyLoss |-> 12, maxLosses |-> 2, reduceAfterLosses |-> 1,
     maxTrades |-> 3, reduceAfterTrades |-> 2, maxLots |-> 2, minReward |-> 15]
MCGateAccounts ==
    {[equity |-> 100, pnl |-> p, trades |-> t, losses |-> l] : p \in {-12, -6, 0}, t \in {0, 2}, l \in {0, 2}}
MCTrades ==
    {[entry |-> 20, stop |-> s, target |-> 20 + d, lot |-> 2, lots |-> n] :
        s \in {16, 21}, d \in {-5, 6}, n \in {1, 2}}
MCSignals ==
    {[eligible |-> TRUE, direction |-> d, complete |-> TRUE] : d \in {"bullish", "bearish"}}
        \cup {[eligible |-> FALSE, direction |-> "none", complete |-> FALSE]}
MCRecorded == {[approved |-> TRUE, reason |-> "none", quantity |-> 1, risk |-> 1]}

CalculatorSteps ==
    driven = "calculator" /\ GateNext
    /\ UNCHANGED <<driven, calls, cast, authVars, riskVars, planVars, tradingVars, reviewVars>>

\* Two instants and a correction: capital for eight units, limits reached one at a time,
\* reduced sizes, steps of three, and a strategy without a direction at its own price.
MCReviewPolicy ==
    [risk |-> 5, maxRisk |-> 10, maxDailyLoss |-> 5, maxDrawdown |-> 10, maxTotal |-> 50, maxInstrument |-> 40,
     reducedSize |-> 50, minReward |-> 15, maxQuantity |-> 7, maxTrades |-> 3, maxLosses |-> 2, minQuantity |-> 1,
     historyLimit |-> 2, needsObjective |-> TRUE, rejectLow |-> FALSE, reduceModerate |-> TRUE,
     blockAfterLosses |-> TRUE]
ReadyStrategy ==
    [at |-> 1, action |-> "CONSIDER_LONG", direction |-> "LONG", setup |-> "READY", quality |-> "HIGH",
     eligible |-> TRUE, review |-> TRUE]
Undecided == [ReadyStrategy EXCEPT !.action = "WAIT", !.direction = "NEUTRAL", !.setup = "WAITING",
                                   !.eligible = FALSE, !.review = FALSE]
Solid ==
    [equity |-> 200, available |-> 80, dayStart |-> 200, peak |-> 200, realized |-> 0, unrealized |-> 0, exposure |-> 20]
Reviewed ==
    [strategy |-> ReadyStrategy, account |-> Solid, session |-> [trades |-> 2, losses |-> 1], held |-> 0,
     entry |-> 10, invalidation |-> 8, objective |-> 13, step |-> 1, multiplier |-> 1]
Short2(i) == [i EXCEPT !.strategy.action = "CONSIDER_SHORT", !.strategy.direction = "SHORT",
                       !.invalidation = 11, !.objective = 8]
FirstReviews ==
    { Reviewed, Short2(Reviewed), [Reviewed EXCEPT !.step = 3], [Reviewed EXCEPT !.multiplier = 2, !.step = 2],
      [Reviewed EXCEPT !.strategy.quality = "LOW"], [Reviewed EXCEPT !.strategy.quality = "MODERATE"],
      [Reviewed EXCEPT !.strategy.quality = "UNAVAILABLE"],
      [Reviewed EXCEPT !.strategy = Undecided], [Reviewed EXCEPT !.strategy = Undecided, !.invalidation = 10],
      [Reviewed EXCEPT !.strategy = [Undecided EXCEPT !.action = "INSUFFICIENT_DATA", !.setup = "BLOCKED"]],
      [Reviewed EXCEPT !.strategy.review = FALSE] }
LaterReviews ==
    { Reviewed, Short2(Reviewed), [Reviewed EXCEPT !.account.unrealized = -10],
      [Reviewed EXCEPT !.account.unrealized = -9, !.objective = 12], [Reviewed EXCEPT !.account.peak = 220, !.account.unrealized = -2],
      [Reviewed EXCEPT !.account.available = 25], [Reviewed EXCEPT !.account.available = 0],
      [Reviewed EXCEPT !.account.exposure = 70], [Reviewed EXCEPT !.account.exposure = 95],
      [Reviewed EXCEPT !.held = 60], [Reviewed EXCEPT !.held = 75], [Reviewed EXCEPT !.objective = None],
      [Reviewed EXCEPT !.session = [trades |-> 3, losses |-> 0]], [Reviewed EXCEPT !.session.losses = 2],
      [Reviewed EXCEPT !.entry = 20, !.invalidation = 1, !.objective = 60, !.step = 2],
      [Reviewed EXCEPT !.account.exposure = 85, !.step = 2] }
MCReviewInputs ==
    FirstReviews \cup {[i EXCEPT !.strategy.at = 2] : i \in LaterReviews}
        \cup {[i EXCEPT !.strategy.at = 3] : i \in {Reviewed, [Reviewed EXCEPT !.strategy = Undecided]}}

ReviewSteps ==
    driven = "review" /\ ReviewNext
    /\ UNCHANGED <<driven, calls, cast, authVars, riskVars, planVars, calculatorVars, tradingVars>>
-----------------------------------------------------------------------------
(* Paper trading and its journal *)

MCPlans ==
    { [id |-> "p1", direction |-> "bullish", breakout |-> TRUE, entry |-> 5, stop |-> 3, target |-> 7,
       quantity |-> 1, from |-> 1, until |-> 3],
      [id |-> "p2", direction |-> "bearish", breakout |-> FALSE, entry |-> 5, stop |-> 7, target |-> 3,
       quantity |-> 2, from |-> 0, until |-> 2] }
MCConfig ==
    [enabled |-> TRUE, autoCreate |-> TRUE, slippage |-> 1, fee |-> 1, feePercent |-> 10, invalidation |-> TRUE,
     closeAtEnd |-> TRUE, cancelAtEnd |-> TRUE]
MCCandles == {<<3, 7, 5>>, <<5, 6, 6>>, <<2, 4, 2>>}

TradingSteps ==
    /\ driven = "paper"
    /\ TradingNext
    /\ calls < MaxEvents /\ calls' = calls + 1
    /\ UNCHANGED <<driven, cast, authVars, riskVars, planVars, calculatorVars, reviewVars>>
-----------------------------------------------------------------------------
DecisionInit ==
    /\ driven \in {"authorization", "risk", "plans", "calculator", "paper", "review"}
    /\ calls = 0
    /\ cast \in (IF driven = "authorization" THEN Casts ELSE {{}})
    /\ AuthInit /\ RiskInit /\ PlanInit /\ GateInit /\ TradingJournalInit /\ ReviewInit

DecisionNext ==
    AuthorizationSteps \/ RiskSteps \/ ReviewSteps \/ PlanSteps \/ CalculatorSteps \/ TradingSteps

DecisionSpec == DecisionInit /\ [][DecisionNext]_decisionVars
=============================================================================
