--------------------------- MODULE RiskManagementV2 ---------------------------
(***************************************************************************)
(* Risk management of the second generation, one engine per instrument     *)
(* (engines/risk_management_v2): from a strategy decision, the account,    *)
(* the session and what is held of the instrument it answers whether a     *)
(* trade may be executed and with which quantity.  Fourteen rules are      *)
(* evaluated in order, the first that failed blocks; what no rule blocks   *)
(* is sized by the smallest of five limits.  The snapshots made here are   *)
(* the RiskSnapshots of TradeTypes.                                        *)
(*                                                                         *)
(* Money, prices and quantities are integers, fractions are hundredths.    *)
(* An amount of money that was multiplied by fractions is kept exact by    *)
(* its scale: Parts to the unit.  The reward for the risk is in tenths.    *)
(* The reference the strategy gave, the severity, the messages of the      *)
(* rules, the rationale and the warnings are left out.  Calls of process   *)
(* are serialised by the engine's lock.                                    *)
(***************************************************************************)
EXTENDS NoneValue, Integers, Sequences, SequencesExt

CONSTANTS
    ReviewInputs,   \* the RiskManagementV2Input the engine meets
    ReviewPolicy    \* its RiskManagementV2Configuration

Hundred == 100
Parts   == Hundred * Hundred

\* _positive_real and _positive_int
Positive == Nat \ {0}

\* RiskManagementV2Configuration.__post_init__: what the constructor accepts.
ValidReviewPolicy(c) ==
    /\ \A f \in {c.risk, c.maxRisk, c.maxDailyLoss, c.maxDrawdown, c.maxTotal, c.maxInstrument} :
          f \in 1 .. Hundred
    /\ c.risk <= c.maxRisk /\ c.maxDailyLoss <= c.maxDrawdown /\ c.maxInstrument <= c.maxTotal
    /\ c.reducedSize \in 1 .. Hundred - 1
    /\ {c.minReward, c.maxQuantity, c.maxTrades, c.maxLosses, c.minQuantity, c.historyLimit} \subseteq Positive
    /\ c.minQuantity <= c.maxQuantity
    /\ {c.needsObjective, c.rejectLow, c.reduceModerate, c.blockAfterLosses} \subseteq BOOLEAN

\* AccountRiskState: it is worth account_equity + unrealized_pnl.
Account ==
    [equity : Nat, available : Nat, dayStart : Positive, peak : Positive,
     realized : Int, unrealized : Int, exposure : Nat]
CurrentEquity(a) == a.equity + a.unrealized
DailyPnl(a) == a.realized + a.unrealized

ValidAccountRisk(a) == a \in Account /\ a.peak >= a.equity /\ CurrentEquity(a) >= 0

\* StrategyDecisionV2Snapshot with its risk handoff.
Strategy ==
    [at : Nat, action : {"CONSIDER_LONG", "CONSIDER_SHORT", "WAIT", "NO_TRADE", "INSUFFICIENT_DATA"},
     direction : {"LONG", "SHORT", "NEUTRAL", "NONE"}, setup : {"READY", "WAITING", "BLOCKED"},
     quality : {"HIGH", "MODERATE", "LOW", "UNAVAILABLE"}, eligible : BOOLEAN, review : BOOLEAN]

ValidStrategy(s) ==
    /\ s \in Strategy
    /\ s.eligible => s.action \in {"CONSIDER_LONG", "CONSIDER_SHORT"} /\ s.setup = "READY"
    /\ s.setup = "READY" => s.direction \in {"LONG", "SHORT"}
    /\ s.review => s.setup = "READY"

\* SessionRiskState: of its counts the rules read two.
ValidSession(s) == s.trades \in Nat /\ s.losses \in 0 .. s.trades

\* RiskManagementV2Input.__post_init__: the proposed prices lie on the sides the direction
\* asks for.  "held" is what is held of the instrument already.
ValidReviewInput(i) ==
    /\ ValidStrategy(i.strategy) /\ ValidAccountRisk(i.account) /\ ValidSession(i.session)
    /\ i.held \in Nat
    /\ {i.entry, i.invalidation, i.step, i.multiplier} \subseteq Positive
    /\ i.objective \in Positive \cup {None}
    /\ i.strategy.direction = "LONG" =>
          i.invalidation < i.entry /\ (i.objective # None => i.objective > i.entry)
    /\ i.strategy.direction = "SHORT" =>
          i.invalidation > i.entry /\ (i.objective # None => i.objective < i.entry)

ASSUME ReviewAssumption ==
    /\ ValidReviewPolicy(ReviewPolicy)
    /\ \A i \in ReviewInputs : ValidReviewInput(i)

ApprovedDecisions == {"APPROVED", "APPROVED_REDUCED"}
RiskDecisionV2    == ApprovedDecisions \cup {"REJECTED", "WAIT", "INSUFFICIENT_DATA"}

\* RiskStatus, its names shortened: a blocked one by what blocks.
RiskStatus ==
    {"READY", "REDUCED", "STRATEGY", "DAILY_LOSS", "DRAWDOWN", "EXPOSURE", "TRADE_LIMIT", "INVALIDATION",
     "CAPITAL", "DATA"}
RiskDecisionChange ==
    {"INITIAL", "BECAME_APPROVED", "BECAME_REDUCED", "BECAME_REJECTED", "BECAME_WAIT", "RISK_INCREASED",
     "RISK_DECREASED", "UNCHANGED"}

\* RiskManagementV2Snapshot
ReviewSnapshots ==
    [input : ReviewInputs, decision : RiskDecisionV2, status : RiskStatus, quantity : Nat, risk : Nat,
     eligible : BOOLEAN, change : RiskDecisionChange]

ASSUME NoReview == None \notin ReviewInputs /\ None \notin ReviewSnapshots

VARIABLES
    reviewInput,     \* _current_input
    review,          \* _snapshot
    previousReview,  \* _previous_snapshot
    reviews          \* _history

reviewVars == <<reviewInput, review, previousReview, reviews>>

ReviewInit == reviewInput = None /\ review = None /\ previousReview = None /\ reviews = <<>>

-------------------------------------------------------------------------------
(* The rules *)

StopDistance(i) == IF i.entry > i.invalidation THEN i.entry - i.invalidation ELSE i.invalidation - i.entry

\* _reward_distance
Reward(i) ==
    CASE i.objective # None /\ i.strategy.direction = "LONG"  -> i.objective - i.entry
      [] i.objective # None /\ i.strategy.direction = "SHORT" -> i.entry - i.objective
      [] OTHER -> None

RiskPerUnit(i) == StopDistance(i) * i.multiplier
UnitNotional(i) == i.entry * i.multiplier

StrategyRule(i) ==
    IF i.strategy.eligible /\ i.strategy.review THEN "PASSED" ELSE "FAILED"

DailyLossRule(i, c) ==
    LET pnl == DailyPnl(i.account)
    IN  IF pnl < 0 /\ -pnl * Hundred >= c.maxDailyLoss * i.account.dayStart THEN "FAILED" ELSE "PASSED"

DrawdownRule(i, c) ==
    LET fall == i.account.peak - CurrentEquity(i.account)
    IN  IF fall > 0 /\ fall * Hundred >= c.maxDrawdown * i.account.peak THEN "FAILED" ELSE "PASSED"

LossesRule(i, c) ==
    IF c.blockAfterLosses /\ i.session.losses >= c.maxLosses THEN "FAILED" ELSE "PASSED"

TradesRule(i, c) == IF i.session.trades >= c.maxTrades THEN "FAILED" ELSE "PASSED"

CapitalRule(i) ==
    IF i.account.available <= 0 \/ CurrentEquity(i.account) <= 0 THEN "FAILED" ELSE "PASSED"

InvalidationRule(i) == IF StopDistance(i) <= 0 THEN "FAILED" ELSE "PASSED"

ObjectiveRule(i, c) == IF c.needsObjective /\ i.objective = None THEN "FAILED" ELSE "PASSED"

RewardRule(i, c) ==
    IF Reward(i) # None /\ StopDistance(i) > 0 /\ Reward(i) * 10 < c.minReward * StopDistance(i)
    THEN "FAILED" ELSE "PASSED"

\* One step of quantity that costs more than a trade may only halves the risk.
TradeRiskRule(i, c) ==
    IF RiskPerUnit(i) * i.step * Hundred > CurrentEquity(i.account) * c.maxRisk THEN "REDUCED" ELSE "PASSED"

\* What the limit leaves in hundredths of a unit of money: of all exposure, of the instrument's.
TotalLeft(i, c)      == CurrentEquity(i.account) * c.maxTotal - i.account.exposure * Hundred
InstrumentLeft(i, c) == CurrentEquity(i.account) * c.maxInstrument - i.held * Hundred

ExposureRule(i, left) == IF left < UnitNotional(i) * Hundred THEN "FAILED" ELSE "PASSED"

QualityRule(i, c) ==
    CASE i.strategy.quality = "UNAVAILABLE"                       -> "FAILED"
      [] i.strategy.quality = "LOW"                               -> IF c.rejectLow THEN "FAILED" ELSE "REDUCED"
      [] i.strategy.quality = "MODERATE" /\ c.reduceModerate      -> "REDUCED"
      [] OTHER                                                    -> "PASSED"

\* RiskRuleValidator.evaluate: each rule's result and what a failure blocks by.  The cap
\* on the quantity of a position never fails here, it limits the size.
Evaluations(i, c) ==
    << <<StrategyRule(i),                        "STRATEGY">>,
       <<DailyLossRule(i, c),                    "DAILY_LOSS">>,
       <<DrawdownRule(i, c),                     "DRAWDOWN">>,
       <<LossesRule(i, c),                       "TRADE_LIMIT">>,
       <<TradesRule(i, c),                       "TRADE_LIMIT">>,
       <<CapitalRule(i),                         "CAPITAL">>,
       <<InvalidationRule(i),                    "INVALIDATION">>,
       <<ObjectiveRule(i, c),                    "DATA">>,
       <<RewardRule(i, c),                       "STRATEGY">>,
       <<TradeRiskRule(i, c),                    "STRATEGY">>,
       <<ExposureRule(i, TotalLeft(i, c)),       "EXPOSURE">>,
       <<ExposureRule(i, InstrumentLeft(i, c)),  "EXPOSURE">>,
       <<"PASSED",                               "STRATEGY">>,
       <<QualityRule(i, c),                      "STRATEGY">> >>

Fails(i, c)   == {n \in 1 .. 14 : Evaluations(i, c)[n][1] = "FAILED"}
Reduces(i, c) == \E n \in 1 .. 14 : Evaluations(i, c)[n][1] = "REDUCED"

\* _blocking_evaluation, for an input that some rule blocks: a strategy that waits or
\* lacks data is blocked by the first rule, which it fails.
Blocking(i, c) == CHOOSE n \in Fails(i, c) : \A m \in Fails(i, c) : n <= m

\* _strategy_decision and _strategy_status of a blocked input.
BlockedDecision(i) ==
    IF i.strategy.action \in {"WAIT", "INSUFFICIENT_DATA"} THEN i.strategy.action ELSE "REJECTED"
BlockedStatus(i, c) ==
    IF i.strategy.action = "INSUFFICIENT_DATA" THEN "DATA" ELSE Evaluations(i, c)[Blocking(i, c)][2]

-------------------------------------------------------------------------------
(* The size *)

SmallestOf(S) == CHOOSE x \in S : \A y \in S : x <= y

\* _risk_multiplier, in hundredths.
Multiplier(i, c) ==
    IF Reduces(i, c) THEN c.reducedSize ELSE Hundred

\* A faulty form: the next whole step.
NextSteps(quantity, step) == ((quantity + step - 1) \div step) * step

\* floor(quantity / step) * step
WholeSteps(quantity, step) == (quantity \div step) * step

\* What may be risked, in Parts.
RiskBudget(i, c) ==
    SmallestOf({CurrentEquity(i.account) * c.risk * Multiplier(i, c),
                CurrentEquity(i.account) * c.maxRisk * Hundred,
                i.account.available * Parts})

RoundedQuantity(i, c) == WholeSteps(RiskBudget(i, c) \div (RiskPerUnit(i) * Parts), i.step)

\* _quantity_capacity of an amount in hundredths.
Capacity(i, left) ==
    IF left <= 0 THEN 0 ELSE WholeSteps(left \div (UnitNotional(i) * Hundred), i.step)

CappedQuantity(i, c) ==
    SmallestOf({RoundedQuantity(i, c), c.maxQuantity, Capacity(i, TotalLeft(i, c)),
                Capacity(i, InstrumentLeft(i, c)), Capacity(i, i.account.available * Hundred)})

\* PositionSizeCalculator.calculate
FinalQuantity(i, c) ==
    LET quantity == WholeSteps(CappedQuantity(i, c), i.step)
    IN  IF quantity < c.minQuantity THEN 0 ELSE quantity

-------------------------------------------------------------------------------
(* The snapshot *)

\* _change against the snapshot of the time before.
Change(r, before) ==
    CASE before = None -> "INITIAL"
      [] before # None /\ r.decision \in ApprovedDecisions /\ before.decision # r.decision ->
            IF r.decision = "APPROVED" THEN "BECAME_APPROVED" ELSE "BECAME_REDUCED"
      [] before # None /\ r.decision = "REJECTED" /\ before.decision # "REJECTED" -> "BECAME_REJECTED"
      [] before # None /\ r.decision = "WAIT" /\ before.decision # "WAIT" -> "BECAME_WAIT"
      [] before # None /\ r.decision = before.decision
            /\ (r.risk > before.risk \/ r.quantity > before.quantity) -> "RISK_INCREASED"
      [] before # None /\ r.decision = before.decision
            /\ ~(r.risk > before.risk \/ r.quantity > before.quantity)
            /\ (r.risk < before.risk \/ r.quantity < before.quantity) -> "RISK_DECREASED"
      [] OTHER -> "UNCHANGED"

\* RiskManagementV2Calculator.calculate without the change.
AnswerTo(i, c) ==
    LET quantity == FinalQuantity(i, c)
        said(decision, status, q) ==
            [input |-> i, decision |-> decision, status |-> status, quantity |-> q,
             risk |-> q * RiskPerUnit(i), eligible |-> q > 0 /\ i.strategy.review]
    IN  CASE Fails(i, c) # {} -> said(BlockedDecision(i), BlockedStatus(i, c), 0)
          [] Fails(i, c) = {} /\ quantity = 0 -> said("REJECTED", "CAPITAL", 0)
          [] Fails(i, c) = {} /\ quantity > 0
                /\ (quantity < RoundedQuantity(i, c) \/ Reduces(i, c)) ->
                said("APPROVED_REDUCED", "REDUCED", quantity)
          [] OTHER -> said("APPROVED", "READY", quantity)

Changed(r, before) ==
    [input |-> r.input, decision |-> r.decision, status |-> r.status, quantity |-> r.quantity,
     risk |-> r.risk, eligible |-> r.eligible, change |-> Change(r, before)]

\* RiskManagementV2Snapshot.__post_init__ refuses an entry at its own invalidation: the
\* rule about it can fail, but no snapshot ever says so.
Raises(i) == StopDistance(i) = 0

-------------------------------------------------------------------------------
(* The engine *)

Latest(history, limit) ==
    IF Len(history) <= limit THEN history ELSE SubSeq(history, Len(history) - limit + 1, Len(history))

\* process: an input of an earlier time raises, the same again is answered by the snapshot
\* there is.  Another of the same time replaces the snapshot of that time, and is compared
\* with the one before it.
Process(i) ==
    LET again  == reviewInput # None /\ i.strategy.at = reviewInput.strategy.at
        before == IF again THEN previousReview ELSE review
        new    == Changed(AnswerTo(i, ReviewPolicy), before)
    IN  /\ reviewInput = None \/ reviewInput # i
        /\ reviewInput # None => i.strategy.at >= reviewInput.strategy.at
        /\ ~Raises(i)
        /\ review' = new
        /\ previousReview' = before
        /\ reviews' = Latest(IF again THEN Append(Front(reviews), new) ELSE Append(reviews, new),
                             ReviewPolicy.historyLimit)
        /\ reviewInput' = i

ResetReviews ==
    /\ review # None
    /\ reviewInput' = None /\ review' = None /\ previousReview' = None /\ reviews' = <<>>

ReviewNext == ResetReviews \/ \E i \in ReviewInputs : Process(i)

ReviewSpec == ReviewInit /\ [][ReviewNext]_reviewVars

-------------------------------------------------------------------------------
\* What PositionSizeRecommendation.__post_init__ asks of a size.
WellSized(i, c) ==
    /\ {RoundedQuantity(i, c), CappedQuantity(i, c), FinalQuantity(i, c)} \subseteq Nat
    /\ FinalQuantity(i, c) = WholeSteps(FinalQuantity(i, c), i.step)
    /\ FinalQuantity(i, c) <= CappedQuantity(i, c)

\* What RiskManagementV2Snapshot.__post_init__ and TradeTypes ask of an answer: it is
\* approved exactly when it has a quantity, and only then eligible.
WellFormed(r) ==
    /\ r.decision \in ApprovedDecisions <=> r.quantity > 0
    /\ r.eligible => r.quantity > 0
    /\ r.decision \in ApprovedDecisions => WellSized(r.input, ReviewPolicy)

\* An approval is within every limit there is: in whole steps between the smallest and the
\* largest position, it risks no more than a trade may, and a reduced one no more than the
\* reduced share; the available capital covers its risk and its price; with it the exposure
\* in all and in the instrument stays in bounds; and no limit of the day was reached.
WithinLimits(r) ==
    LET i == r.input
        c == ReviewPolicy
        equity == CurrentEquity(i.account)
        notional == r.quantity * UnitNotional(i)
    IN  r.decision \in ApprovedDecisions =>
          /\ r.quantity = WholeSteps(r.quantity, i.step)
          /\ c.minQuantity <= r.quantity /\ r.quantity <= c.maxQuantity
          /\ r.risk * Hundred <= equity * c.maxRisk
          /\ i.strategy.quality = "LOW" => r.risk * Parts <= equity * c.risk * c.reducedSize
          /\ r.risk <= i.account.available /\ notional <= i.account.available
          /\ (i.account.exposure + notional) * Hundred <= equity * c.maxTotal
          /\ (i.held + notional) * Hundred <= equity * c.maxInstrument
          /\ -DailyPnl(i.account) * Hundred < c.maxDailyLoss * i.account.dayStart
          /\ (i.account.peak - equity) * Hundred < c.maxDrawdown * i.account.peak
          /\ i.session.trades < c.maxTrades
          /\ c.blockAfterLosses => i.session.losses < c.maxLosses
          /\ i.strategy.direction \in {"LONG", "SHORT"} /\ i.strategy.eligible

\* The history has one answer for each time, the latest for it, in order; each says what
\* changed since the one before.
HistoryIsInOrder ==
    /\ review = None => reviews = <<>> /\ reviewInput = None
    /\ review # None =>
         /\ reviews # <<>> /\ reviews[Len(reviews)] = review /\ review.input = reviewInput
         /\ review.change = Change(review, previousReview)
    /\ Len(reviews) <= ReviewPolicy.historyLimit
    /\ \A n \in 1 .. Len(reviews) - 1 :
         /\ reviews[n].input.strategy.at < reviews[n + 1].input.strategy.at
         /\ reviews[n + 1].change = Change(reviews[n + 1], reviews[n])

\* Whatever strategies, accounts and corrections come in whichever order, every answer that
\* is kept is well formed and within the limits (calculator.py, sizing.py, validator.py),
\* and the history the engine publishes is one of distinct times (engine.py).
RiskReviewIsSound ==
    /\ \A n \in DOMAIN reviews : WellFormed(reviews[n]) /\ WithinLimits(reviews[n])
    /\ HistoryIsInOrder
===============================================================================
