-------------------------- MODULE RiskTradePlansV1 --------------------------
(***************************************************************************)
(* The trade plan engine of one symbol runtime                             *)
(* (engines/risk/trade_plan_engine.py, configuration and models in         *)
(* engines/risk/models.py): each strategy decision is evaluated into a     *)
(* risk decision, an approved one carries a trade plan that is valid for a *)
(* while.  The engine keeps the day's count of plans, results and reserved *)
(* risk, the active plan, the state it last answered with and the          *)
(* evaluation behind that answer.                                          *)
(*                                                                         *)
(* Times are numbers, DayLength of them to a day; money and prices are     *)
(* whole numbers, reward to risk is in tenths.  The levels of price        *)
(* action, CPR and Camarilla are what the caller hands over: supports and  *)
(* resistances, once in the order they are tried as a stop and once as the *)
(* set the nearest target is picked from.                                  *)
(***************************************************************************)
EXTENDS NoneValue, Integers, Sequences, FiniteSets, SequencesExt

CONSTANTS
    Configuration,   \* the engine's RiskConfiguration
    Strategies,      \* strategy decisions it is given
    TradeEvidence,   \* price levels and readiness it is given with them
    EvaluationTimes, \* the times of evaluations
    ClockLength,     \* times per day
    Results,         \* profits and losses of closed paper trades
    MaxPlans         \* bound: plans and results recorded in a day

\* what the configuration's constructor accepts
ValidConfiguration(c) ==
    /\ {c.capital, c.maxAmount} \subseteq (Nat \ {0}) \cup {None}
    /\ c.riskPercent \in 1 .. 100
    /\ {c.maxLots, c.minReward, c.maxStop, c.maxTrades, c.validity, c.maxAge} \subseteq Nat \ {0}
    /\ c.maxLoss \in Nat
    /\ {c.live, c.allowLow, c.allowMixed} \subseteq BOOLEAN
    /\ c.lotSize \in (Nat \ {0}) \cup {None}

ASSUME ConfigurationIsValid == ValidConfiguration(Configuration)

\* _positive(): every price and level is read through it
Level == (Nat \ {0}) \cup {None}

ASSUME EvidenceIsRead ==
    /\ \A e \in TradeEvidence :
          /\ e.price \in Level
          /\ {e.lows, e.highs} \subseteq Seq(Level)
          /\ e.resistances \cup e.supports \subseteq Level
    /\ EvaluationTimes \subseteq Nat /\ ClockLength \in Nat \ {0}

VARIABLES daily,        \* the day's counts, None before the first evaluation
          activePlan,   \* the plan approved last
          activeState,  \* the answer given last
          evaluation,   \* the evaluation recorded last
          answered      \* history: the last evaluation's inputs and its answer

planVars == <<daily, activePlan, activeState, evaluation, answered>>

DayOf(t) == t \div ClockLength
NewDay(t) == [date |-> DayOf(t), approved |-> 0, completed |-> 0, pnl |-> 0, reserved |-> 0]

PlanInit ==
    /\ daily = None
    /\ activePlan = None
    /\ activeState = None
    /\ evaluation = None
    /\ answered = None

-----------------------------------------------------------------------------
FirstPositive(levels) ==
    LET known == {i \in DOMAIN levels : levels[i] # None}
    IN  IF known = {} THEN None
        ELSE levels[CHOOSE i \in known : \A j \in known : i <= j]

NextAbove(entry, levels) ==
    LET above == {x \in levels \ {None} : x > entry}
    IN  IF above = {} THEN None ELSE CHOOSE x \in above : \A y \in above : x <= y

NextBelow(entry, levels) ==
    LET below == {x \in levels \ {None} : x < entry}
    IN  IF below = {} THEN None ELSE CHOOSE x \in below : \A y \in below : x >= y

\* _resolve_levels
Levels(strategy, e) ==
    LET entry == e.price
    IN  CASE strategy.direction = "bullish" ->
               [entry |-> entry, stop |-> FirstPositive(e.lows),
                target |-> IF entry = None THEN None ELSE NextAbove(entry, e.resistances)]
          [] strategy.direction = "bearish" ->
               [entry |-> entry, stop |-> FirstPositive(e.highs),
                target |-> IF entry = None THEN None ELSE NextBelow(entry, e.supports)]
          [] OTHER -> [entry |-> entry, stop |-> None, target |-> None]

Distances(direction, l) ==
    CASE direction = "bullish" /\ l.stop < l.entry /\ l.entry < l.target ->
            [risk |-> l.entry - l.stop, reward |-> l.target - l.entry]
      [] direction = "bearish" /\ l.target < l.entry /\ l.entry < l.stop ->
            [risk |-> l.stop - l.entry, reward |-> l.entry - l.target]
      [] OTHER -> None

\* risk_budget of the configuration
Budget ==
    LET percent == (Configuration.capital * Configuration.riskPercent) \div 100
    IN  IF Configuration.maxAmount = None \/ percent <= Configuration.maxAmount
        THEN percent ELSE Configuration.maxAmount

SessionAllowed(t) ==
    /\ Configuration.live
    /\ t % ClockLength < ClockLength - 1    \* the last time of a day is after hours

\* _first_gate_failure: the gates in its order
Gates(strategy, e, t) ==
    << <<~strategy.own, "ANALYSIS_NOT_READY">>,    \* none, or of another symbol
       <<~strategy.eligible, "STRATEGY_NOT_ELIGIBLE">>,
       <<~e.priceAction, "PRICE_ACTION_UNAVAILABLE">>,
       <<~e.optionChain, "OPTION_CHAIN_UNAVAILABLE">>,
       <<~e.marketContext, "ANALYSIS_NOT_READY">>,
       <<t - strategy.at > Configuration.maxAge, "STALE_DATA">>,
       <<~SessionAllowed(t), "OUTSIDE_SESSION">>,
       <<strategy.lowConfidence /\ ~Configuration.allowLow, "LOW_CONFIDENCE">>,
       <<strategy.unsuitable, "UNSUITABLE_MARKET">>,
       <<e.conflicted /\ ~Configuration.allowMixed, "MIXED_SIGNALS_BLOCKED">>,
       <<e.position, "POSITION_ALREADY_ACTIVE">>,
       <<e.foreignTick, "ANALYSIS_NOT_READY">> >>

\* "NONE" when every gate is open
GateFailure(strategy, e, t) ==
    LET gates == Gates(strategy, e, t)
        closed == {i \in DOMAIN gates : gates[i][1]}
    IN  IF closed = {} THEN "NONE"
        ELSE gates[CHOOSE i \in closed : \A j \in closed : i <= j][2]

LevelFailure(strategy, l) ==
    LET g == Distances(strategy.direction, l)
    IN  IF l.entry = None THEN "ENTRY_UNAVAILABLE"
        ELSE IF l.stop = None THEN "STOP_UNAVAILABLE"
        ELSE IF l.target = None THEN "TARGET_UNAVAILABLE"
        ELSE IF g = None THEN "INVALID_PRICE_GEOMETRY"
        ELSE IF g.risk * 100 > Configuration.maxStop * l.entry THEN "STOP_TOO_WIDE"
        ELSE IF g.reward * 10 < Configuration.minReward * g.risk THEN "REWARD_RISK_TOO_LOW"
        ELSE "NONE"

ApprovedLots(g) ==
    LET byBudget == (Budget \div g.risk) \div Configuration.lotSize
    IN  IF byBudget < Configuration.maxLots THEN byBudget ELSE Configuration.maxLots

\* the limits of the day, reached in the order they are looked at
SizeFailure(g, day) ==
    IF Configuration.capital = None THEN "CAPITAL_UNAVAILABLE"
    ELSE IF Budget <= 0 THEN "RISK_BUDGET_EXHAUSTED"
    ELSE IF Configuration.lotSize = None THEN "LOT_SIZE_UNAVAILABLE"
    ELSE IF ApprovedLots(g) <= 0 THEN "QUANTITY_BELOW_ONE_LOT"
    ELSE IF day.approved >= Configuration.maxTrades THEN "DAILY_TRADE_LIMIT"
    ELSE IF Configuration.maxLoss > 0 /\ -day.pnl >= Configuration.maxLoss THEN "DAILY_LOSS_LIMIT"
    ELSE "NONE"

\* what a plan's identifier is made of
TradePlanId(strategy, l) == <<strategy.at, strategy.direction, l.entry, l.stop, l.target>>

\* a variant: a plan stands as long as its levels do
StandsForever(plan, id, t) == plan.id = id

StillStands(plan, id, t) == plan.id = id /\ plan.until > t

-----------------------------------------------------------------------------
\* _reset_daily_if_needed
Today(t) == IF daily = None THEN NewDay(t) ELSE IF daily.date # DayOf(t) THEN NewDay(t) ELSE daily
SameDay(t) == daily # None /\ daily.date = DayOf(t)
PlanToday(t) == IF SameDay(t) THEN activePlan ELSE None
StateToday(t) == IF SameDay(t) THEN activeState ELSE None

\* the answer: only one that hands a plan out approves
RiskDecisionState(code, plan) ==
    [approved |-> plan # None, code |-> code, plan |-> plan,
     risk |-> IF plan = None THEN 0 ELSE plan.risk]

Rejection(code) == RiskDecisionState(code, None)

RiskEvaluation(code) == [approved |-> code = "NONE", code |-> code]

Answer(s, e, t, state) ==
    /\ activeState' = state
    /\ answered' = [strategy |-> s, evidence |-> e, at |-> t, state |-> state]

Reject(s, e, t, code) ==
    /\ daily' = Today(t)
    /\ activePlan' = PlanToday(t)
    /\ evaluation' = RiskEvaluation(code)
    /\ Answer(s, e, t, Rejection(code))

Offered(plan) == RiskDecisionState("NONE", plan)

\* a plan of whole lots, good for the configured time
TradePlan(id, lots, g, t) ==
    [id |-> id, quantity |-> lots * Configuration.lotSize,
     risk |-> lots * Configuration.lotSize * g.risk, until |-> t + Configuration.validity]

\* evaluate(), the same plan again: nothing is reserved, and the answer is the
\* state the engine holds, whatever that is by now
AnswerAgain(s, e, t) ==
    /\ daily' = Today(t)
    /\ activePlan' = PlanToday(t)
    /\ evaluation' = RiskEvaluation("NONE")
    /\ Answer(s, e, t, StateToday(t))

Approve(s, e, t, id, g) ==
    LET plan == TradePlan(id, ApprovedLots(g), g, t)
    IN  /\ Today(t).approved < MaxPlans
        /\ activePlan' = plan
        /\ daily' = [Today(t) EXCEPT !.approved = @ + 1, !.reserved = @ + plan.risk]
        /\ evaluation' = RiskEvaluation("NONE")
        /\ Answer(s, e, t, Offered(plan))

EvaluatePlan(s, e, t) ==
    LET gate == GateFailure(s, e, t)
        l == Levels(s, e)
        level == LevelFailure(s, l)
        g == Distances(s.direction, l)
        size == SizeFailure(g, Today(t))
    IN  \/ /\ gate # "NONE"
           /\ Reject(s, e, t, gate)
        \/ /\ gate = "NONE" /\ level # "NONE"
           /\ Reject(s, e, t, level)
        \/ /\ gate = "NONE" /\ level = "NONE" /\ size # "NONE"
           /\ Reject(s, e, t, size)
        \/ /\ gate = "NONE" /\ level = "NONE" /\ size = "NONE"
           /\ \/ /\ PlanToday(t) # None /\ StateToday(t) # None
                 /\ StillStands(PlanToday(t), TradePlanId(s, l), t)
                 /\ AnswerAgain(s, e, t)
              \/ /\ \/ PlanToday(t) = None
                    \/ StateToday(t) = None
                    \/ /\ PlanToday(t) # None
                       /\ ~StillStands(PlanToday(t), TradePlanId(s, l), t)
                 /\ Approve(s, e, t, TradePlanId(s, l), g)

\* record_paper_trade_close: it releases the risk of whatever plan is active
RecordPaperTradeClose(pnl) ==
    LET released == IF activePlan = None THEN 0 ELSE activePlan.risk
    IN  /\ daily # None
        /\ activeState # None
        /\ daily.completed < MaxPlans
        /\ daily' = [daily EXCEPT !.completed = @ + 1, !.pnl = @ + pnl,
                                  !.reserved = IF @ > released THEN @ - released ELSE 0]
        /\ UNCHANGED <<activePlan, activeState, evaluation, answered>>

ResetPlans ==
    /\ daily # None
    /\ daily' = None
    /\ activePlan' = None
    /\ activeState' = None
    /\ evaluation' = None
    /\ answered' = None

PlanNext ==
    \/ \E s \in Strategies, e \in TradeEvidence, t \in EvaluationTimes : EvaluatePlan(s, e, t)
    \/ \E pnl \in Results : RecordPaperTradeClose(pnl)
    \/ ResetPlans

PlanSpec == PlanInit /\ [][PlanNext]_planVars

-----------------------------------------------------------------------------
(* Properties *)

\* A plan handed out stands: it is the active one, for exactly the levels and
\* the strategy that were evaluated, it has not run out and is of that day, it
\* risks no more than the budget, and it was handed out only while the day's
\* limits still allowed one more.
OfferedPlanStands ==
    (answered # None /\ answered.state # None) =>
        (answered.state.approved =>
            LET plan == answered.state.plan
            IN  /\ plan = activePlan
                /\ plan.id = TradePlanId(answered.strategy, Levels(answered.strategy, answered.evidence))
                /\ answered.at < plan.until
                /\ DayOf(answered.at) = daily.date
                /\ plan.risk <= Budget
                /\ plan.quantity % Configuration.lotSize = 0
                /\ daily.approved <= Configuration.maxTrades)

\* "Duplicate plan returns existing state" (tests/test_risk_trade_plan_engine.py):
\* evaluating a plan that still stands answers with its approval.
ApprovalIsAnswered ==
    (evaluation # None /\ answered # None) =>
        (evaluation.approved => answered.state.approved)
=============================================================================
