---------------------------- MODULE RiskEngineV1 ----------------------------
(***************************************************************************)
(* The risk engine of one symbol: the gate a trade passes before an order  *)
(* (engines/risk/risk_engine.py, models.py, calculator.py).                *)
(*                                                                         *)
(* It keeps a session - the trading date, the trades taken, the risk that  *)
(* is open in total and per instrument, the losses in a row and the locks  *)
(* - and decides on a plan by the policy and the account its caller hands  *)
(* it with each call.  The caller also reports the trades it opened and    *)
(* closed: an approval reserves nothing.  Next to this gate lives an older *)
(* one, update() and record_decision() over the stateless RiskCalculator,  *)
(* which shares only the published state with it: a snapshot is a strategy *)
(* decision, a policy, an account and a proposed trade, the answer an      *)
(* approval of all the lots asked for, or a rejection.                     *)
(*                                                                         *)
(* A time is a number, DayLength of them to a day.  Money, prices and      *)
(* percentages are whole numbers, so nothing is rounded to cents; reward   *)
(* to risk is in tenths.  Counts of wins and losses, realised profit and   *)
(* the wording of findings only reach the published snapshot and are left  *)
(* out.  Calls are serialised by the class's contract.                     *)
(***************************************************************************)
EXTENDS NoneValue, Integers, FiniteSets, Sequences, SequencesExt

CONSTANTS
    LimitedInstruments, \* those with a lot size of their own
    RiskPolicies,       \* the policies a caller evaluates under
    DefaultPolicy,      \* the one an engine is created with
    Accounts,           \* the account states it reports
    ProposedPlans,      \* the trades it proposes
    RiskTimes,          \* the times of its calls
    DayLength,          \* times per day
    MaxTrades,          \* bound: trades recorded in one session
    MaxLosses,          \* bound: losses in a row recorded in one session
    GatePolicy,         \* the older gate: the policy of its snapshots
    GateAccounts,       \* account states
    Trades,             \* proposed trades
    Signals,            \* strategy decisions
    Stamps,             \* the times of snapshots
    RecordedDecisions   \* decisions made elsewhere and recorded here

Limit == Nat \cup {None}
Directions == {"bullish", "bearish"}

\* what the constructor of a policy accepts
ValidPolicy(p) ==
    /\ p.enabled \in BOOLEAN
    /\ p.tradePercent \in 1 .. 100
    /\ {p.tradeAmount, p.lossAmount, p.profitTrigger, p.maxTotal,
        p.maxInstrument, p.maxQuantity} \subseteq Limit \ {0}
    /\ p.profitGiveback \in Limit
    /\ p.lossPercent \in 1 .. 100 \cup {None}
    /\ {p.maxTrades, p.maxLosses, p.maxLots, p.minReward} \subseteq Nat \ {0}
    /\ {p.cooldown, p.revengeWindow} \subseteq Nat
    /\ {p.minStop, p.maxStop} \subseteq Limit \ {0}
    /\ p.minStop # None /\ p.maxStop # None => p.minStop <= p.maxStop
    /\ {p.opens, p.lastEntry} \subseteq Nat /\ p.opens < p.lastEntry
    /\ p.lotSizes \in [DOMAIN p.lotSizes -> Nat \ {0}]
    /\ p.allow \subseteq {"averaging", "duplicate", "fomo"}
    /\ p.manualApproval \in BOOLEAN

\* what the constructors of an account state and of a plan accept
ValidAccount(a) ==
    /\ a.capital \in Nat
    /\ a.dailyPnl \in Int
    /\ a.openRisk \in Nat
    /\ a.date \in Limit

ValidPlan(p) ==
    /\ p.direction \in Directions
    /\ p.entry \in Nat \ {0}
    /\ {p.stop, p.target} \subseteq Limit \ {0}
    /\ {p.lot, p.lots} \subseteq Nat \ {0}
    /\ p.quantity \in Limit \ {0}
    /\ p.flags \subseteq {"fomo", "averaging", "revenge", "approved"}
    /\ p.held \in Nat
    /\ p.heldDirection \in Directions \cup {None}

ASSUME InputsAreValid ==
    /\ \A p \in RiskPolicies \cup {DefaultPolicy} : ValidPolicy(p)
    /\ \A a \in Accounts : ValidAccount(a)
    /\ \A p \in ProposedPlans : ValidPlan(p)

ASSUME TimesAreNumbers == RiskTimes \subseteq Nat /\ DayLength \in Nat \ {0}

RiskDecisionStatus == {"APPROVED", "APPROVED_WITH_REDUCED_SIZE", "REJECTED", "LOCKED", "INVALID"}
RiskReasonCode ==
    {"APPROVED", "SIZE_REDUCED", "INVALID_PLAN", "INVALID_STOP", "STOP_TOO_WIDE", "STOP_TOO_TIGHT",
     "INSUFFICIENT_REWARD_RISK", "RISK_PER_TRADE_EXCEEDED", "DAILY_LOSS_LIMIT_REACHED",
     "DAILY_PROFIT_LOCK_ACTIVE", "MAX_TRADES_REACHED", "CONSECUTIVE_LOSS_COOLDOWN",
     "REVENGE_TRADING_LOCKOUT", "MANUAL_LOCK_ACTIVE", "MANUAL_APPROVAL_REQUIRED",
     "EMERGENCY_LOCK_ACTIVE", "OUTSIDE_TRADING_WINDOW", "LATE_ENTRY", "FOMO_ENTRY",
     "AVERAGING_DOWN_BLOCKED", "DUPLICATE_POSITION", "INSTRUMENT_EXPOSURE_EXCEEDED",
     "TOTAL_OPEN_RISK_EXCEEDED", "INSUFFICIENT_CAPITAL", "MISSING_STOP_LOSS", "MISSING_TARGET",
     "UNSUPPORTED_INSTRUMENT"}

\* what stays of a decision, with what it was made of
RiskAnswers ==
    [status : RiskDecisionStatus, approved : BOOLEAN, code : RiskReasonCode, quantity : Nat, risk : Nat]
RiskDecisions ==
    [answer : RiskAnswers, policy : RiskPolicies, account : Accounts, plan : ProposedPlans, at : RiskTimes]

ASSUME NoDecision == None \notin RiskDecisions

VARIABLES lifecycle,   \* CREATED, READY, ACTIVE, LOCKED, STOPPED or FAILED
          session,     \* the session's state
          policy,      \* the policy of the latest evaluation
          decision,    \* the latest authoritative decision, None before it
          evaluated,   \* whether one was ever made since the last reset
          opened       \* history: whether the latest approval was reported opened

riskVars == <<lifecycle, session, policy, decision, evaluated, opened>>

DateOf(t) == t \div DayLength
ClockOf(t) == t % DayLength
FirstDate == 0    \* the date an engine is created with

Fresh(date, emergency) ==
    [date |-> date, trades |-> 0, losses |-> 0, open |-> 0,
     per |-> [i \in LimitedInstruments |-> 0], manual |-> FALSE,
     emergency |-> emergency, profitLock |-> FALSE, peak |-> 0,
     cooldown |-> None, revenge |-> None]

RiskInit ==
    /\ lifecycle = "CREATED"
    /\ session = Fresh(FirstDate, FALSE)
    /\ policy = DefaultPolicy
    /\ decision = None
    /\ evaluated = FALSE
    /\ opened = TRUE

-----------------------------------------------------------------------------
\* A call of another date starts that date's session; only the emergency lock
\* goes with it.
Untouched(s) ==
    /\ s.date = FirstDate
    /\ ~(s.manual \/ s.emergency \/ s.trades # 0 \/ s.open # 0 \/ evaluated)

\* a variant: every lock goes with the date
RolledClean(s, date) ==
    IF Untouched(s) \/ s.date # date THEN Fresh(date, FALSE) ELSE s

Rolled(s, date) ==
    IF Untouched(s) THEN Fresh(date, FALSE)
    ELSE IF s.date # date THEN Fresh(date, s.emergency) ELSE s

Least(S) == CHOOSE n \in S : \A m \in S : n <= m

LossLimit(p, capital) ==
    LET limits == {x \in {p.lossAmount} : x # None}
                    \cup {(capital * x) \div 100 : x \in {p.lossPercent} \ {None}}
    IN  IF limits = {} THEN None ELSE Least(limits)

\* the profit lock: armed at the trigger, it locks when enough is given back;
\* looking at it moves the peak and arms it
ProfitLock(s, p, pnl) ==
    LET peak == IF pnl > s.peak THEN pnl ELSE s.peak
        armed == s.profitLock \/ peak >= p.profitTrigger
    IN  IF p.profitTrigger = None \/ p.profitGiveback = None
        THEN [session |-> s, locks |-> s.profitLock]
        ELSE [session |-> [s EXCEPT !.peak = peak, !.profitLock = armed],
              locks |-> armed /\ pnl <= peak - p.profitGiveback]

\* distances to the stop and the target; None when the levels are out of order
Geometry(plan) ==
    IF None \in {plan.stop, plan.target} THEN None ELSE
    CASE plan.direction = "bullish" /\ plan.stop < plan.entry /\ plan.entry < plan.target ->
            [risk |-> plan.entry - plan.stop, reward |-> plan.target - plan.entry]
      [] plan.direction = "bearish" /\ plan.target < plan.entry /\ plan.entry < plan.stop ->
            [risk |-> plan.stop - plan.entry, reward |-> plan.entry - plan.target]
      [] OTHER -> None

\* the lot the policy fixes for the instrument replaces the plan's
LotOf(p, plan) ==
    IF plan.instrument \in DOMAIN p.lotSizes THEN p.lotSizes[plan.instrument] ELSE plan.lot

RequestedOf(p, plan) ==
    IF plan.quantity = None THEN plan.lots * LotOf(p, plan) ELSE plan.quantity

OpenFor(s, instrument) == IF instrument \in LimitedInstruments THEN s.per[instrument] ELSE 0

Greater(a, b) == IF a > b THEN a ELSE b

\* a variant: only the risk the account reports counts
OpenByAccount(s, account) == account.openRisk

OpenInAll(s, account) == Greater(account.openRisk, s.open)

\* what one trade may risk at most
MaxTradeRisk(p, account, s, instrument) ==
    LET capital == account.capital
        daily == LossLimit(p, capital)
    IN  Greater(0, Least(
          {(capital * p.tradePercent) \div 100}
            \cup ({p.tradeAmount} \ {None})
            \cup {Greater(0, d + (IF account.dailyPnl < 0 THEN account.dailyPnl ELSE 0)) :
                     d \in {daily} \ {None}}
            \cup {Greater(0, m - OpenInAll(s, account)) : m \in {p.maxTotal} \ {None}}
            \cup {Greater(0, m - OpenFor(s, instrument)) : m \in {p.maxInstrument} \ {None}}))

Over(limit, amount) == limit # None /\ amount > limit

-----------------------------------------------------------------------------
\* The checks in the code's order: whether each refuses, and with what answer.
SessionChecks(p, account, plan, s, t) ==
    LET loss == LossLimit(p, account.capital)
        lock == ProfitLock(s, p, account.dailyPnl)
        date == IF account.date = None THEN DateOf(t) ELSE account.date
    IN << <<~p.enabled, "INVALID", "INVALID_PLAN">>,
          <<s.emergency, "LOCKED", "EMERGENCY_LOCK_ACTIVE">>,
          <<s.manual, "LOCKED", "MANUAL_LOCK_ACTIVE">>,
          <<plan.instrument \notin LimitedInstruments, "INVALID", "UNSUPPORTED_INSTRUMENT">>,
          <<date # DateOf(t), "INVALID", "OUTSIDE_TRADING_WINDOW">>,
          <<ClockOf(t) > p.lastEntry, "REJECTED", "LATE_ENTRY">>,
          <<ClockOf(t) < p.opens, "REJECTED", "OUTSIDE_TRADING_WINDOW">>,
          <<account.capital <= 0, "REJECTED", "INSUFFICIENT_CAPITAL">>,
          <<loss # None /\ Greater(-account.dailyPnl, 0) >= loss,
            "LOCKED", "DAILY_LOSS_LIMIT_REACHED">>,
          <<lock.locks, "LOCKED", "DAILY_PROFIT_LOCK_ACTIVE">>,
          <<s.trades >= p.maxTrades, "LOCKED", "MAX_TRADES_REACHED">>,
          <<s.cooldown # None /\ t < s.cooldown, "LOCKED", "CONSECUTIVE_LOSS_COOLDOWN">>,
          <<s.revenge # None /\ t < s.revenge /\ plan.flags \cap {"revenge", "fomo"} # {},
            "LOCKED", "REVENGE_TRADING_LOCKOUT">> >>

\* the place of the profit lock, whose check changes the session
ProfitLockAt == 10

PlanChecks(p, account, plan, s) ==
    LET g == Geometry(plan)
        lot == LotOf(p, plan)
        sound == g # None
        least == lot * g.risk
    IN << <<"fomo" \in plan.flags /\ "fomo" \notin p.allow, "REJECTED", "FOMO_ENTRY">>,
          <<"averaging" \in plan.flags /\ "averaging" \notin p.allow,
            "REJECTED", "AVERAGING_DOWN_BLOCKED">>,
          <<plan.held > 0 /\ plan.heldDirection = plan.direction /\ "duplicate" \notin p.allow,
            "REJECTED", "DUPLICATE_POSITION">>,
          <<plan.stop = None /\ "stop" \in p.require, "INVALID", "MISSING_STOP_LOSS">>,
          <<plan.target = None /\ "target" \in p.require, "INVALID", "MISSING_TARGET">>,
          <<~sound, "INVALID", "INVALID_STOP">>,
          <<sound /\ p.minStop # None /\ g.risk * 1000 < p.minStop * plan.entry,
            "REJECTED", "STOP_TOO_TIGHT">>,
          <<sound /\ p.maxStop # None /\ g.risk * 1000 > p.maxStop * plan.entry,
            "REJECTED", "STOP_TOO_WIDE">>,
          <<sound /\ g.reward * 10 < p.minReward * g.risk,
            "REJECTED", "INSUFFICIENT_REWARD_RISK">>,
          <<p.manualApproval /\ "approved" \notin plan.flags,
            "LOCKED", "MANUAL_APPROVAL_REQUIRED">>,
          <<sound /\ Over(p.maxInstrument, OpenFor(s, plan.instrument) + least),
            "REJECTED", "INSTRUMENT_EXPOSURE_EXCEEDED">>,
          <<sound /\ Over(p.maxTotal, OpenInAll(s, account) + least),
            "REJECTED", "TOTAL_OPEN_RISK_EXCEEDED">>,
          <<MaxTradeRisk(p, account, s, plan.instrument) <= 0,
            "REJECTED", "INSUFFICIENT_CAPITAL">> >>

\* the first check that refuses, 0 when none does
FirstRefusal(checks) ==
    LET refusing == {i \in DOMAIN checks : checks[i][1]}
    IN  IF refusing = {} THEN 0 ELSE Least(refusing)

Refused(status, code) ==
    [status |-> status, approved |-> FALSE, code |-> code, quantity |-> 0, risk |-> 0]

\* a variant: the size is rounded up to the next lot
SizedUp(p, account, plan, s) ==
    LET g == Geometry(plan)
        lot == LotOf(p, plan)
        allowed == Least({MaxTradeRisk(p, account, s, plan.instrument) \div g.risk,
                          p.maxLots * lot, RequestedOf(p, plan)})
        quantity == ((allowed + lot - 1) \div lot) * lot
    IN  [status |-> "APPROVED", approved |-> TRUE, code |-> "APPROVED",
         quantity |-> quantity, risk |-> quantity * g.risk]

\* The size that every limit allows, in whole lots.
Sized(p, account, plan, s) ==
    LET g == Geometry(plan)
        lot == LotOf(p, plan)
        asked == RequestedOf(p, plan)
        limits == {MaxTradeRisk(p, account, s, plan.instrument) \div g.risk, p.maxLots * lot}
                    \cup ({p.maxQuantity} \ {None})
        allowed == Least(limits \cup {asked})
        quantity == (allowed \div lot) * lot
        risk == quantity * g.risk
    IN  IF quantity <= 0 THEN Refused("REJECTED", "RISK_PER_TRADE_EXCEEDED")
        ELSE IF Over(p.maxTotal, OpenInAll(s, account) + risk)
        THEN Refused("REJECTED", "TOTAL_OPEN_RISK_EXCEEDED")
        ELSE IF Over(p.maxInstrument, OpenFor(s, plan.instrument) + risk)
        THEN Refused("REJECTED", "INSTRUMENT_EXPOSURE_EXCEEDED")
        ELSE    [status |-> IF asked > Least(limits) THEN "APPROVED_WITH_REDUCED_SIZE"
                                                      ELSE "APPROVED",
                 approved |-> TRUE,
                 code |-> IF asked > Least(limits) THEN "SIZE_REDUCED" ELSE "APPROVED",
                 quantity |-> quantity, risk |-> risk]

\* _evaluate: the answer, and the session the profit lock's check left
Decide(p, account, plan, s, t) ==
    LET early == SessionChecks(p, account, plan, s, t)
        first == FirstRefusal(early)
        looked == IF first = 0 \/ first >= ProfitLockAt
                  THEN ProfitLock(s, p, account.dailyPnl).session ELSE s
        late == PlanChecks(p, account, plan, s)
        second == FirstRefusal(late)
        answer == CASE first # 0 -> Refused(early[first][2], early[first][3])
                    [] first = 0 /\ second # 0 -> Refused(late[second][2], late[second][3])
                    [] OTHER -> Sized(p, account, plan, looked)
    IN  [answer |-> answer, session |-> looked]

-----------------------------------------------------------------------------
Started == IF lifecycle \in {"CREATED", "STOPPED"} THEN "READY" ELSE lifecycle

\* _record_authoritative_decision
LifecycleAfter(answer) ==
    CASE answer.approved -> "ACTIVE"
      [] answer.status = "LOCKED" -> "LOCKED"
      [] OTHER -> Started

\* a plan that names fewer units than its own lot raises inside _evaluate
RefusedByValidation(plan) == plan.quantity # None /\ plan.quantity < plan.lot

RiskDecisionRecord(answer, p, account, plan, t) ==
    [answer |-> answer, policy |-> p, account |-> account, plan |-> plan, at |-> t]

EvaluateRisk(p, account, plan, t) ==
    LET s == Rolled(session, DateOf(t))
        d == Decide(p, account, plan, s, t)
    IN  /\ policy' = p
        /\ IF RefusedByValidation(plan)
           THEN /\ lifecycle' = "FAILED"
                /\ session' = s
                /\ UNCHANGED <<decision, evaluated, opened>>
           ELSE /\ lifecycle' = LifecycleAfter(d.answer)
                /\ session' = [d.session EXCEPT
                      !.profitLock = @ \/ d.answer.code = "DAILY_PROFIT_LOCK_ACTIVE"]
                /\ decision' = RiskDecisionRecord(d.answer, p, account, plan, t)
                /\ evaluated' = TRUE
                /\ opened' = ~d.answer.approved

\* The caller reports a trade it opened: here the one just approved, at its
\* approved risk.  The engine does not check either.
RecordTradeOpened(t) ==
    LET s == Rolled(session, DateOf(t))
        i == decision.plan.instrument
        amount == decision.answer.risk
    IN  /\ decision # None
        /\ ~opened
        /\ s.trades < MaxTrades
        /\ session' = [s EXCEPT !.trades = @ + 1, !.open = @ + amount, !.per[i] = @ + amount]
        /\ opened' = TRUE
        /\ UNCHANGED <<lifecycle, policy, decision, evaluated>>

\* The loss limit and the cooldown are those of the latest evaluated policy.
RecordTradeClosed(i, amount, outcome, t) ==
    LET s == Rolled(session, DateOf(t))
        losses == CASE outcome = "win" -> 0
                    [] outcome = "loss" -> s.losses + 1
                    [] OTHER -> s.losses
    IN  /\ amount <= s.per[i]
        /\ losses <= MaxLosses
        /\ session' = [s EXCEPT
              !.losses = losses,
              !.open = Greater(0, @ - amount),
              !.per[i] = Greater(0, @ - amount),
              !.cooldown = CASE outcome = "loss" /\ losses >= policy.maxLosses -> t + policy.cooldown
                             [] outcome = "win" -> None
                             [] OTHER -> @,
              !.revenge = CASE outcome = "loss" -> t + policy.revengeWindow
                            [] outcome = "win" -> None
                            [] OTHER -> @]
        /\ UNCHANGED <<lifecycle, policy, decision, evaluated, opened>>

\* record_loss() and record_win() release no risk
RecordResult(i, outcome, t) == RecordTradeClosed(i, 0, outcome, t)

StartRisk ==
    /\ lifecycle # "FAILED"
    /\ lifecycle' = "READY"
    /\ UNCHANGED <<session, policy, decision, evaluated, opened>>

StopRisk ==
    /\ lifecycle' = "STOPPED"
    /\ UNCHANGED <<session, policy, decision, evaluated, opened>>

ActivateLock(which) ==
    /\ session' = [session EXCEPT ![which] = TRUE]
    /\ lifecycle' = "LOCKED"
    /\ UNCHANGED <<policy, decision, evaluated, opened>>

ClearManualLock ==
    /\ session' = [session EXCEPT !.manual = FALSE]
    /\ lifecycle' = IF session.emergency THEN lifecycle ELSE "READY"
    /\ UNCHANGED <<policy, decision, evaluated, opened>>

ResetRiskSession(date) ==
    /\ session' = Fresh(date, session.emergency)
    /\ decision' = None
    /\ lifecycle' = IF session.emergency THEN "LOCKED" ELSE "READY"
    /\ opened' = TRUE
    /\ UNCHANGED <<policy, evaluated>>

\* reset() and clear() keep the date, the policy and the emergency lock
ResetRisk ==
    /\ session' = Fresh(session.date, session.emergency)
    /\ decision' = None
    /\ evaluated' = FALSE
    /\ lifecycle' = IF session.emergency THEN "LOCKED" ELSE "CREATED"
    /\ opened' = TRUE
    /\ UNCHANGED policy

RiskNext ==
    \/ \E p \in RiskPolicies, a \in Accounts, plan \in ProposedPlans, t \in RiskTimes : EvaluateRisk(p, a, plan, t)
    \/ \E t \in RiskTimes : RecordTradeOpened(t)
    \/ \E i \in LimitedInstruments, o \in {"win", "loss", "even"}, t \in RiskTimes :
          \/ RecordTradeClosed(i, session.per[i], o, t)
          \/ RecordResult(i, o, t)
    \/ StartRisk
    \/ StopRisk
    \/ \E which \in {"manual", "emergency"} : ActivateLock(which)
    \/ ClearManualLock
    \/ \E t \in RiskTimes : ResetRiskSession(DateOf(t))
    \/ ResetRisk

RiskSpec == RiskInit /\ [][RiskNext]_riskVars

-----------------------------------------------------------------------------
(* Properties *)

\* the limits of the policy an approval was given under
WithinPolicy(d) ==
    LET p == d.policy
        plan == d.plan
        account == d.account
        q == d.answer.quantity
        risk == d.answer.risk
        lot == LotOf(p, plan)
        loss == LossLimit(p, account.capital)
    IN  /\ q > 0 /\ q % lot = 0
        /\ q <= RequestedOf(p, plan) /\ q <= p.maxLots * lot
        /\ ~Over(p.maxQuantity, q)
        /\ risk * 100 <= account.capital * p.tradePercent
        /\ loss # None => account.dailyPnl - risk >= -loss
        /\ IF plan.direction = "bullish"
           THEN plan.stop < plan.entry /\ risk = q * (plan.entry - plan.stop)
           ELSE plan.entry < plan.stop /\ risk = q * (plan.stop - plan.entry)
        /\ ClockOf(d.at) \in p.opens .. p.lastEntry

\* Whatever is approved, the worst it can do stays within every limit of its
\* policy: losing all of its risk does not take the day past the daily loss
\* limit, nor a trade past what one trade may cost; it is whole lots, no more
\* than was asked for, and its levels are in order.
ApprovedWithinLimits ==
    (decision # None /\ decision.answer.approved) => WithinPolicy(decision)

\* A caller that opens only what was approved last, and only once, keeps the
\* session's trades and its open risk - in total, per instrument, and the one
\* as the sum of the other - within the policy of that approval, across
\* losses, locks, resets and changes of date.
OpeningsWithinLimits ==
    [][(opened' /\ ~opened /\ decision' = decision) =>
           LET p == decision.policy
               i == decision.plan.instrument
           IN  \/ session'.date # DateOf(decision.at)
               \/ /\ session'.trades <= p.maxTrades
                  /\ ~Over(p.maxTotal, session'.open)
                  /\ ~Over(p.maxInstrument, session'.per[i])]_riskVars

\* Nothing but a new engine ends an emergency lock - not a new date, a reset,
\* a restart nor the clearing of the manual lock - and while it is set nothing
\* is approved.
EmergencyLockHolds ==
    [][session.emergency =>
           /\ session'.emergency
           /\ decision' # decision => (decision' = None \/ ~decision'.answer.approved)]_riskVars

\* The limits hold over time: those of an approval when it is given, those of a session
\* when the approved trades are opened, and the lock that outlasts them all.
RiskLimitsHold == []ApprovedWithinLimits /\ OpeningsWithinLimits /\ EmergencyLockHolds

-----------------------------------------------------------------------------
(* The older gate *)

\* _validate_policy
ValidGatePolicy(p) ==
    /\ {p.maxRisk, p.maxDailyLoss, p.reducedRisk} \subseteq 1 .. 100
    /\ p.reducedRisk <= p.maxRisk
    /\ {p.maxLosses, p.maxTrades, p.maxLots, p.minReward} \subseteq Nat \ {0}
    /\ p.reduceAfterLosses \in 0 .. p.maxLosses - 1
    /\ p.reduceAfterTrades \in 0 .. p.maxTrades - 1

\* _validate_account and _validate_trade_plan
ValidGateAccount(a) ==
    a.equity \in Nat \ {0} /\ a.pnl \in Int /\ {a.trades, a.losses} \subseteq Nat

ValidTrade(t) == {t.entry, t.stop, t.target, t.lot, t.lots} \subseteq Nat \ {0}

\* _validate_strategy_structure: an eligible strategy has a side
ValidSignal(s) ==
    s.eligible => s.direction \in {"bullish", "bearish"} /\ s.complete

ASSUME GateInputsAreValid ==
    /\ ValidGatePolicy(GatePolicy)
    /\ \A a \in GateAccounts : ValidGateAccount(a)
    /\ \A t \in Trades : ValidTrade(t)

Snapshots == [signal : Signals, account : GateAccounts, trade : Trades, at : Stamps]

VARIABLES snapshot,    \* the latest accepted snapshot
          published,   \* the published risk state
          computed     \* history: the snapshot the published state is computed from

calculatorVars == <<snapshot, published, computed>>

GateInit ==
    /\ snapshot = None
    /\ published = None
    /\ computed = None

-----------------------------------------------------------------------------
\* _distances: both zero when the prices are out of order
GateDistances(direction, t) ==
    CASE direction = "bullish" /\ t.stop < t.entry /\ t.entry < t.target ->
            [stop |-> t.entry - t.stop, target |-> t.target - t.entry]
      [] direction = "bearish" /\ t.target < t.entry /\ t.entry < t.stop ->
            [stop |-> t.stop - t.entry, target |-> t.entry - t.target]
      [] OTHER -> [stop |-> 0, target |-> 0]

Loss(a) == IF a.pnl < 0 THEN -a.pnl ELSE 0

DailyLimit(p, a) == (a.equity * p.maxDailyLoss) \div 100

\* _reduction_reason
ReducedByLosses(p, a) == p.reduceAfterLosses > 0 /\ a.losses \in p.reduceAfterLosses .. p.maxLosses - 1
ReducedByTrades(p, a) == p.reduceAfterTrades > 0 /\ a.trades \in p.reduceAfterTrades .. p.maxTrades - 1

Smaller(a, b) == IF a < b THEN a ELSE b

\* a variant: the day's losses are not taken off the budget
BudgetOfPolicy(p, a) == (a.equity * p.maxRisk) \div 100

GateBudget(p, a) ==
    LET percent == IF ReducedByLosses(p, a) \/ ReducedByTrades(p, a)
                   THEN p.reducedRisk ELSE p.maxRisk
        left == DailyLimit(p, a) - Loss(a)
    IN  Smaller((a.equity * percent) \div 100, IF left > 0 THEN left ELSE 0)

MaxLotsFor(p, a, d, lot) ==
    IF d.stop = 0 THEN 0 ELSE Smaller(GateBudget(p, a) \div (d.stop * lot), p.maxLots)

\* _rejection_reason, in its order; "none" when nothing stands against it
RejectionReason(x) ==
    LET p == GatePolicy
        d == GateDistances(x.signal.direction, x.trade)
        most == MaxLotsFor(p, x.account, d, x.trade.lot)
    IN  IF ~x.signal.eligible THEN "strategy_no_trade"
        ELSE IF x.signal.direction = "none" THEN "invalid_trade_direction"
        ELSE IF d.stop <= 0 \/ d.target <= 0 THEN "invalid_price_structure"
        ELSE IF Loss(x.account) >= DailyLimit(p, x.account) THEN "daily_loss_limit_reached"
        ELSE IF x.account.losses >= p.maxLosses THEN "consecutive_loss_limit_reached"
        ELSE IF x.account.trades >= p.maxTrades THEN "daily_trade_limit_reached"
        ELSE IF d.target * 10 < p.minReward * d.stop THEN "reward_risk_below_minimum"
        ELSE IF GateBudget(p, x.account) <= 0 \/ most <= 0 THEN "insufficient_risk_budget"
        ELSE IF x.trade.lots > most THEN "requested_size_exceeds_limit"
        ELSE "none"

\* _state: a rejection keeps no size
Stated(reason, quantity, risk) ==
    IF reason = "none"
    THEN [approved |-> TRUE, reason |-> reason, quantity |-> quantity, risk |-> risk]
    ELSE [approved |-> FALSE, reason |-> reason, quantity |-> 0, risk |-> 0]

\* calculate(): all the lots asked for, or none
Calculated(x) ==
    LET d == GateDistances(x.signal.direction, x.trade)
        quantity == x.trade.lots * x.trade.lot
        risk == d.stop * quantity
        reason == RejectionReason(x)
    IN  Stated(IF reason = "none" /\ risk > GateBudget(GatePolicy, x.account)
               THEN "insufficient_risk_budget" ELSE reason, quantity, risk)

\* update() and process(): a stale snapshot raises, the same one again answers
\* with the published state, whoever wrote it
Update(x) ==
    /\ ValidSignal(x.signal)
    /\ \/ snapshot = None
       \/ snapshot # None /\ x.at >= snapshot.at /\ x # snapshot
    /\ snapshot' = x
    /\ published' = Calculated(x)
    /\ computed' = x

\* record_decision()
RecordDecision(state) ==
    /\ published # state
    /\ published' = state
    /\ computed' = None
    /\ UNCHANGED snapshot

ResetCalculator ==
    /\ snapshot # None \/ published # None
    /\ snapshot' = None
    /\ published' = None
    /\ computed' = None

GateNext ==
    \/ \E x \in Snapshots : Update(x)
    \/ \E state \in RecordedDecisions : RecordDecision(state)
    \/ ResetCalculator

GateSpec == GateInit /\ [][GateNext]_calculatorVars

-----------------------------------------------------------------------------
(* Properties *)

Opposite(side) == CASE side = "bullish" -> "bearish" [] side = "bearish" -> "bullish" [] OTHER -> side

\* prices reflected about the entry, and the side with them
Mirrored(x) ==
    LET signal == x.signal
        trade == x.trade
    IN  [signal |-> [eligible |-> signal.eligible, complete |-> signal.complete,
                     direction |-> Opposite(signal.direction)],
         trade |-> [entry |-> trade.entry, lot |-> trade.lot, lots |-> trade.lots,
                    stop |-> 2 * trade.entry - trade.stop,
                    target |-> 2 * trade.entry - trade.target],
         account |-> x.account,
         at |-> x.at]

\* The gate favours no side: the reflected trade gets the same answer, for the
\* same reason and size.  And what it approves the day can lose: the loss of
\* all of its risk stays within the daily limit.
SidesAreEqualAndCovered ==
    computed # None =>
        /\ Calculated(Mirrored(computed)) = published
        /\ published.approved =>
              Loss(computed.account) + published.risk <= DailyLimit(GatePolicy, computed.account)
=============================================================================
