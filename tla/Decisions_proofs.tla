---------------------------- MODULE Decisions_proofs ----------------------------
(***************************************************************************)
(* Proofs about what decides whether and how much is traded on paper, and  *)
(* what becomes of it: both gates of RiskEngineV1, the reviews of          *)
(* RiskManagementV2, the plans offered by RiskTradePlansV1 and made by     *)
(* ExecutionPolicyV1, the calls AuthorizedPaperV1 hands over, the books of *)
(* PaperTradingV1 and the journal of PerformanceJournalV1; for every set   *)
(* of policies, accounts, plans, prices and times they are given.          *)
(***************************************************************************)
EXTENDS AuthorizedPaperV1, RiskEngineV1, RiskManagementV2, RiskTradePlansV1, PerformanceJournalV1, FiniteSetTheorems, SequenceTheorems, TLAPS

-------------------------------------------------------------------------------
(* Numbers *)

HasLeast(S) == \E x \in S : \A y \in S : x <= y

LEMMA FiniteHasLeast ==
    ASSUME NEW S, S \subseteq Int, IsFiniteSet(S), S # {}
    PROVE  HasLeast(S)
<1> DEFINE R == StrictSubsetOrdering(S)
           F == FiniteSubsetsOf(S)
           Bad == {G \in F : G # {} /\ ~HasLeast(G)}
<1> SUFFICES ASSUME Bad # {} PROVE FALSE
  BY DEF FiniteSubsetsOf
<1>1. IsWellFoundedOn(R, F)
  BY FS_StrictSubsetOrderingWellFounded
<1>2. PICK G \in Bad : \A H \in Bad : ~(<<H, G>> \in R)
  <2>1. Bad \subseteq F
    OBVIOUS
  <2> HIDE DEF R, F, Bad
  <2> QED BY <1>1, <2>1, WFMin
<1>3. PICK x \in G : TRUE
  OBVIOUS
<1> DEFINE H == G \ {x}
<1>4. G \subseteq S /\ IsFiniteSet(G) /\ IsFiniteSet(H)
  BY FS_RemoveElement DEF FiniteSubsetsOf
<1>5. H \notin Bad
  <2>1. <<H, G>> \in R
    BY <1>4, <1>3 DEF StrictSubsetOrdering
  <2> QED BY <1>2, <2>1
<1>6. H = {} \/ HasLeast(H)
  BY <1>4, <1>5 DEF FiniteSubsetsOf
<1>7. CASE H = {}
  <2>1. G = {x}
    BY <1>3, <1>7
  <2> QED BY <2>1, <1>4, <1>3 DEF HasLeast
<1>8. CASE HasLeast(H)
  <2>1. PICK y \in H : \A z \in H : y <= z
    BY <1>8 DEF HasLeast
  <2>2. x \in Int /\ y \in Int /\ \A z \in G : z \in Int
    BY <1>4, <1>3, <2>1
  <2>3. \A z \in G : z = x \/ z \in H
    OBVIOUS
  <2>4. CASE x <= y
    BY <2>1, <2>2, <2>3, <2>4, <1>3 DEF HasLeast
  <2>5. CASE y <= x
    BY <2>1, <2>2, <2>3, <2>5 DEF HasLeast
  <2> QED BY <2>2, <2>4, <2>5
<1> QED BY <1>6, <1>7, <1>8

LEMMA LeastIsLeast ==
    ASSUME NEW S, S \subseteq Int, IsFiniteSet(S), S # {}
    PROVE  Least(S) \in S /\ \A m \in S : Least(S) <= m
BY FiniteHasLeast DEF HasLeast, Least

LEMMA WholeMultiple ==
    ASSUME NEW k \in Int, NEW l \in Nat \ {0}
    PROVE  (k * l) \div l = k /\ (k * l) % l = 0
OBVIOUS

LEMMA RoundedDown ==
    ASSUME NEW k \in Int, NEW l \in Nat \ {0}
    PROVE  k \div l \in Int /\ (k \div l) * l <= k
OBVIOUS

LEMMA TimesKeepsOrder ==
    ASSUME NEW a \in Int, NEW b \in Int, a <= b, NEW l \in Nat
    PROVE  a * l <= b * l
OBVIOUS

-------------------------------------------------------------------------------
(* The older gate: reflected trades *)

LEMMA ReflectedDistances ==
    ASSUME NEW side, NEW t, ValidTrade(t)
    PROVE  GateDistances(Opposite(side),
              [entry |-> t.entry, lot |-> t.lot, lots |-> t.lots,
               stop |-> 2 * t.entry - t.stop, target |-> 2 * t.entry - t.target])
           = GateDistances(side, t)
<1>1. t.entry \in Nat /\ t.stop \in Nat /\ t.target \in Nat
  BY DEF ValidTrade
<1> QED
  BY <1>1 DEF GateDistances, Opposite

LEMMA ReflectedAnswer ==
    ASSUME NEW x \in Snapshots
    PROVE  Calculated(Mirrored(x)) = Calculated(x)
<1>1. ValidTrade(x.trade)
  BY GateInputsAreValid DEF Snapshots
<1> DEFINE y == Mirrored(x)
<1>2. /\ y.signal.eligible = x.signal.eligible
      /\ y.signal.direction = Opposite(x.signal.direction)
      /\ y.account = x.account
      /\ y.trade.lot = x.trade.lot /\ y.trade.lots = x.trade.lots
  BY DEF Mirrored
<1>3. GateDistances(y.signal.direction, y.trade) = GateDistances(x.signal.direction, x.trade)
  BY <1>1, ReflectedDistances DEF Mirrored
<1>4. y.signal.direction = "none" <=> x.signal.direction = "none"
  BY <1>2 DEF Opposite
<1> HIDE DEF y
<1>5. RejectionReason(y) = RejectionReason(x)
  BY <1>2, <1>3, <1>4 DEF RejectionReason
<1> QED
  BY <1>2, <1>3, <1>5 DEF Calculated, y

-------------------------------------------------------------------------------
(* The older gate: the day can lose what is approved *)

LEMMA DivisionIsWhole == \A n \in Int : n \div 100 \in Int
OBVIOUS

LEMMA ApprovedIsCovered ==
    ASSUME NEW x \in Snapshots, Calculated(x).approved
    PROVE  Loss(x.account) + Calculated(x).risk <= DailyLimit(GatePolicy, x.account)
<1> DEFINE p == GatePolicy
           a == x.account
           d == GateDistances(x.signal.direction, x.trade)
           risk == d.stop * (x.trade.lots * x.trade.lot)
           left == DailyLimit(p, a) - Loss(a)
           percent == IF ReducedByLosses(p, a) \/ ReducedByTrades(p, a)
                      THEN p.reducedRisk ELSE p.maxRisk
           share == (a.equity * percent) \div 100
<1>1. /\ a.equity \in Nat /\ a.pnl \in Int
      /\ p.maxDailyLoss \in Int /\ p.reducedRisk \in Int /\ p.maxRisk \in Int
      /\ x.trade.lots \in Nat /\ x.trade.lot \in Nat
      /\ x.trade.entry \in Nat /\ x.trade.stop \in Nat /\ x.trade.target \in Nat
  BY GateInputsAreValid DEF Snapshots, ValidGatePolicy, ValidGateAccount, ValidTrade
<1>2. d.stop \in Int
  BY <1>1 DEF GateDistances
<1>3. DailyLimit(p, a) \in Int /\ Loss(a) \in Int
  <2>1. a.equity * p.maxDailyLoss \in Int
    BY <1>1
  <2> QED BY <1>1, <2>1, DivisionIsWhole DEF DailyLimit, Loss
<1>4. share \in Int
  <2>1. percent \in Int
    BY <1>1
  <2>2. a.equity * percent \in Int
    BY <1>1, <2>1
  <2> QED BY <2>2, DivisionIsWhole
<1>5. GateBudget(p, a) = Smaller(share, IF left > 0 THEN left ELSE 0)
  BY DEF GateBudget
<1>6. RejectionReason(x) = "none" /\ ~(risk > GateBudget(p, a)) /\ Calculated(x).risk = risk
  BY DEF Calculated, Stated
<1>7. Loss(a) < DailyLimit(p, a)
  <2>1. ~(Loss(a) >= DailyLimit(p, a))
    BY <1>6 DEF RejectionReason
  <2> QED BY <2>1, <1>3
<1>8. risk \in Int
  <2>1. x.trade.lots * x.trade.lot \in Int
    BY <1>1
  <2> QED BY <1>2, <2>1
<1> HIDE DEF p, a, d, risk, share
<1>9. risk <= left
  BY <1>3, <1>4, <1>5, <1>6, <1>7, <1>8 DEF Smaller
<1>10. Loss(a) + risk <= DailyLimit(p, a)
  BY <1>3, <1>8, <1>9
<1> QED
  BY <1>6, <1>10 DEF p, a

\* What is published is the answer to the snapshot it is published for.
GateIInv == computed # None => computed \in Snapshots /\ published = Calculated(computed)

\* The gate answers a trade and its reflection the same, and the day can lose what it
\* approves (engines/risk/calculator.py): for every policy, account, trade and signal, and
\* whatever is recorded next to it.
THEOREM GateStaysEvenAndCovered == GateSpec => []SidesAreEqualAndCovered
<1>1. GateInit => GateIInv
  BY DEF GateInit, GateIInv
<1>2. GateIInv /\ [GateNext]_calculatorVars => GateIInv'
  BY DEF GateIInv, GateNext, Update, RecordDecision, ResetCalculator, calculatorVars
<1>3. GateIInv => SidesAreEqualAndCovered
  BY ReflectedAnswer, ApprovedIsCovered DEF GateIInv, SidesAreEqualAndCovered
<1> QED
  BY <1>1, <1>2, <1>3, PTL DEF GateSpec

-------------------------------------------------------------------------------
(* The gate of the risk engine: what one trade may risk *)

SessionState ==
    [date : Nat, trades : Nat, losses : Nat, open : Nat, per : [LimitedInstruments -> Nat],
     manual : BOOLEAN, emergency : BOOLEAN, profitLock : BOOLEAN, peak : Int,
     cooldown : Limit, revenge : Limit]

\* None or one amount.
Amounts(S) == S = {} \/ \E x \in Int : S = {x}

LEMMA AmountsAreFinite ==
    ASSUME NEW S, Amounts(S)
    PROVE  S \subseteq Int /\ IsFiniteSet(S)
BY FS_EmptySet, FS_Singleton DEF Amounts

LEMMA LeastWithAmounts ==
    ASSUME NEW a \in Int, NEW S, Amounts(S), NEW T, Amounts(T),
           NEW U, Amounts(U), NEW V, Amounts(V)
    PROVE  LET all == {a} \cup S \cup T \cup U \cup V
           IN  Least(all) \in Int /\ \A m \in all : Least(all) <= m
<1> DEFINE all == {a} \cup S \cup T \cup U \cup V
<1>1. all \subseteq Int
  BY AmountsAreFinite
<1>2. IsFiniteSet(all)
  BY AmountsAreFinite, FS_Union, FS_Singleton
<1>3. all # {}
  OBVIOUS
<1> HIDE DEF all
<1>4. Least(all) \in all /\ \A m \in all : Least(all) <= m
  BY <1>1, <1>2, <1>3, LeastIsLeast
<1> QED BY <1>1, <1>4 DEF all

LEMMA LossLimitIsAmount ==
    ASSUME NEW p, ValidPolicy(p), NEW capital \in Nat
    PROVE  LossLimit(p, capital) # None => LossLimit(p, capital) \in Nat
<1> DEFINE A == {x \in {p.lossAmount} : x # None}
           B == {(capital * x) \div 100 : x \in {p.lossPercent} \ {None}}
<1>1. A = {} \/ (p.lossAmount \in Nat /\ A = {p.lossAmount})
  BY DEF ValidPolicy, Limit
<1>2. B = {} \/ \E x \in Nat : B = {x}
  <2>1. CASE p.lossPercent = None
    BY <2>1
  <2>2. CASE p.lossPercent # None
    <3>1. p.lossPercent \in Nat
      BY <2>2 DEF ValidPolicy
    <3>2. capital * p.lossPercent \in Nat
      BY <3>1
    <3> DEFINE n == capital * p.lossPercent
    <3>3. B = {n \div 100}
      BY <2>2
    <3> HIDE DEF n
    <3>4. n \div 100 \in Nat
      BY <3>2 DEF n
    <3> QED BY <3>3, <3>4
  <2> QED BY <2>1, <2>2
<1> HIDE DEF A, B
<1>3. A \cup B \subseteq Nat /\ IsFiniteSet(A \cup B)
  BY <1>1, <1>2, FS_EmptySet, FS_Singleton, FS_Union
<1>4. A \cup B # {} => Least(A \cup B) \in Nat
  BY <1>3, LeastIsLeast
<1> QED BY <1>4 DEF LossLimit, A, B

LEMMA TradeRiskIsBounded ==
    ASSUME NEW p, ValidPolicy(p), NEW account, ValidAccount(account),
           NEW s \in SessionState, NEW i
    PROVE  LET most == MaxTradeRisk(p, account, s, i)
               loss == LossLimit(p, account.capital)
               pnl == IF account.dailyPnl < 0 THEN account.dailyPnl ELSE 0
           IN  /\ most \in Nat
               /\ most > 0 => most <= (account.capital * p.tradePercent) \div 100
               /\ most > 0 /\ loss # None => most <= loss + pnl
<1> DEFINE loss == LossLimit(p, account.capital)
           pnl == IF account.dailyPnl < 0 THEN account.dailyPnl ELSE 0
           share == (account.capital * p.tradePercent) \div 100
           A == {p.tradeAmount} \ {None}
           B == {Greater(0, d + pnl) : d \in {loss} \ {None}}
           C == {Greater(0, m - OpenInAll(s, account)) : m \in {p.maxTotal} \ {None}}
           D == {Greater(0, m - OpenFor(s, i)) : m \in {p.maxInstrument} \ {None}}
           all == {share} \cup A \cup B \cup C \cup D
<1>1. account.capital \in Nat /\ p.tradePercent \in Nat /\ account.dailyPnl \in Int
      /\ account.openRisk \in Nat
  BY DEF ValidAccount, ValidPolicy
<1>2. share \in Int
  <2>1. account.capital * p.tradePercent \in Int
    BY <1>1
  <2> QED BY <2>1, DivisionIsWhole
<1>3. pnl \in Int
  BY <1>1
<1>4. Amounts(A)
  BY DEF ValidPolicy, Limit, Amounts
<1>5. loss # None => loss \in Nat
  BY <1>1, LossLimitIsAmount
<1>6. Amounts(B) /\ (loss # None => Greater(0, loss + pnl) \in B)
  <2>1. CASE loss = None
    BY <2>1 DEF Amounts
  <2>2. CASE loss # None
    <3>1. B = {Greater(0, loss + pnl)}
      BY <2>2
    <3>2. Greater(0, loss + pnl) \in Int
      BY <1>3, <1>5, <2>2 DEF Greater
    <3> HIDE DEF B, loss, pnl
    <3> QED BY <3>1, <3>2 DEF Amounts
  <2> QED BY <2>1, <2>2
<1>7. s.open \in Nat /\ OpenFor(s, i) \in Nat
  BY DEF SessionState, OpenFor
<1>8. OpenInAll(s, account) \in Int
  BY <1>1, <1>7 DEF OpenInAll, Greater
<1>9. Amounts(C)
  <2>1. CASE p.maxTotal = None
    BY <2>1 DEF Amounts
  <2>2. CASE p.maxTotal # None
    <3>1. p.maxTotal \in Nat
      BY <2>2 DEF ValidPolicy, Limit
    <3>2. C = {Greater(0, p.maxTotal - OpenInAll(s, account))}
      BY <2>2
    <3>3. Greater(0, p.maxTotal - OpenInAll(s, account)) \in Int
      BY <1>8, <3>1 DEF Greater
    <3> QED BY <3>2, <3>3 DEF Amounts
  <2> QED BY <2>1, <2>2
<1>10. Amounts(D)
  <2>1. CASE p.maxInstrument = None
    BY <2>1 DEF Amounts
  <2>2. CASE p.maxInstrument # None
    <3>1. p.maxInstrument \in Nat
      BY <2>2 DEF ValidPolicy, Limit
    <3>2. D = {Greater(0, p.maxInstrument - OpenFor(s, i))}
      BY <2>2
    <3>3. Greater(0, p.maxInstrument - OpenFor(s, i)) \in Int
      BY <1>7, <3>1 DEF Greater
    <3> QED BY <3>2, <3>3 DEF Amounts
  <2> QED BY <2>1, <2>2
<1>11. MaxTradeRisk(p, account, s, i) = Greater(0, Least(all))
  BY DEF MaxTradeRisk
<1>12. Greater(0, loss + pnl) \in all \/ loss = None
  BY <1>6
<1> HIDE DEF share, A, B, C, D, loss, pnl
<1>13. Least(all) \in Int /\ \A m \in all : Least(all) <= m
  BY <1>2, <1>4, <1>6, <1>9, <1>10, LeastWithAmounts
<1>14. share \in all
  OBVIOUS
<1> HIDE DEF all
<1> DEFINE most == MaxTradeRisk(p, account, s, i)
<1>15. most \in Nat /\ (most > 0 => most <= share)
  BY <1>2, <1>11, <1>13, <1>14 DEF Greater
<1>16. most > 0 /\ loss # None => most <= loss + pnl
  BY <1>3, <1>5, <1>11, <1>12, <1>13 DEF Greater
<1> QED
  BY <1>15, <1>16 DEF loss, pnl, share

-------------------------------------------------------------------------------
(* The gate of the risk engine: one decision *)

LEMMA FirstRefusalIsRefusal ==
    ASSUME NEW checks, NEW n \in Nat, DOMAIN checks = 1 .. n
    PROVE  /\ FirstRefusal(checks) = 0 => \A j \in 1 .. n : ~checks[j][1]
           /\ \A j \in 1 .. n : checks[j][1] => FirstRefusal(checks) \in 1 .. j
           /\ FirstRefusal(checks) \in 0 .. n
<1> DEFINE refusing == {j \in DOMAIN checks : checks[j][1]}
<1>1. IsFiniteSet(refusing)
  <2>1. IsFiniteSet(1 .. n)
    BY FS_Interval
  <2>2. refusing \in SUBSET (1 .. n)
    OBVIOUS
  <2> HIDE DEF refusing
  <2> QED BY <2>1, <2>2, FS_Subset
<1>2. refusing \subseteq 1 .. n /\ refusing \subseteq Int
  OBVIOUS
<1>3. refusing # {} => Least(refusing) \in refusing /\ \A m \in refusing : Least(refusing) <= m
  BY <1>1, <1>2, LeastIsLeast
<1>4. FirstRefusal(checks) = IF refusing = {} THEN 0 ELSE Least(refusing)
  BY DEF FirstRefusal
<1>5. \A j \in 1 .. n : checks[j][1] => j \in refusing
  OBVIOUS
<1> HIDE DEF refusing
<1>6. ASSUME NEW j \in 1 .. n, checks[j][1] PROVE FirstRefusal(checks) \in 1 .. j
  <2>1. j \in refusing
    BY <1>5, <1>6
  <2>2. FirstRefusal(checks) \in refusing /\ FirstRefusal(checks) <= j
    BY <1>3, <1>4, <2>1
  <2>3. FirstRefusal(checks) \in 1 .. n
    BY <1>2, <2>2
  <2> QED BY <2>2, <2>3
<1>7. ASSUME NEW j \in 1 .. n, checks[j][1] PROVE FirstRefusal(checks) # 0
  BY <1>6, <1>7
<1>8. FirstRefusal(checks) \in 0 .. n
  <2>1. CASE refusing = {}
    BY <1>4, <2>1
  <2>2. CASE refusing # {}
    <3>1. FirstRefusal(checks) \in 1 .. n
      BY <1>2, <1>3, <1>4, <2>2
    <3> QED BY <3>1
  <2> QED BY <2>1, <2>2
<1> QED BY <1>6, <1>7, <1>8

LEMMA LevelsInOrder ==
    ASSUME NEW plan, ValidPlan(plan), Geometry(plan) # None
    PROVE  LET g == Geometry(plan)
           IN  /\ g.risk \in Nat \ {0}
               /\ IF plan.direction = "bullish"
                  THEN plan.stop < plan.entry /\ g.risk = plan.entry - plan.stop
                  ELSE plan.entry < plan.stop /\ g.risk = plan.stop - plan.entry
<1>1. None \notin {plan.stop, plan.target}
  BY DEF Geometry
<1>2. plan.entry \in Nat /\ plan.stop \in Nat /\ plan.target \in Nat
  BY <1>1 DEF ValidPlan, Limit
<1>3. CASE plan.direction = "bullish" /\ plan.stop < plan.entry /\ plan.entry < plan.target
  BY <1>1, <1>2, <1>3 DEF Geometry
<1>4. CASE plan.direction = "bearish" /\ plan.target < plan.entry /\ plan.entry < plan.stop
  BY <1>1, <1>2, <1>4 DEF Geometry
<1>5. \/ plan.direction = "bullish" /\ plan.stop < plan.entry /\ plan.entry < plan.target
      \/ plan.direction = "bearish" /\ plan.target < plan.entry /\ plan.entry < plan.stop
  BY <1>1 DEF Geometry
<1> QED BY <1>3, <1>4, <1>5

\* What a size is tested against besides the day.
FitsEmpty(d) ==
    LET p == d.policy
        risk == d.answer.risk
    IN  /\ p.maxTrades >= 1
        /\ ~Over(p.maxTotal, risk)
        /\ ~Over(p.maxInstrument, risk)

\* One more trade at the approved risk is within the policy.
FitsSession(s, d) ==
    LET p == d.policy
        risk == d.answer.risk
    IN  /\ s.trades < p.maxTrades
        /\ ~Over(p.maxTotal, s.open + risk)
        /\ ~Over(p.maxInstrument, s.per[d.plan.instrument] + risk)

LEMMA LotsArePositive ==
    ASSUME NEW p, ValidPolicy(p), NEW plan, ValidPlan(plan)
    PROVE  LotOf(p, plan) \in Nat \ {0} /\ RequestedOf(p, plan) \in Nat
<1>1. LotOf(p, plan) \in Nat \ {0}
  <2>1. CASE plan.instrument \in DOMAIN p.lotSizes
    BY <2>1 DEF ValidPolicy, LotOf
  <2>2. CASE plan.instrument \notin DOMAIN p.lotSizes
    BY <2>2 DEF ValidPlan, LotOf
  <2> QED BY <2>1, <2>2
<1>2. plan.lots * LotOf(p, plan) \in Nat
  BY <1>1 DEF ValidPlan
<1>3. plan.quantity # None => plan.quantity \in Nat
  BY DEF ValidPlan, Limit
<1> QED BY <1>1, <1>2, <1>3 DEF RequestedOf

LEMMA RefusalIsAnswer ==
    ASSUME NEW status \in RiskDecisionStatus, NEW code \in RiskReasonCode
    PROVE  Refused(status, code) \in RiskAnswers /\ ~Refused(status, code).approved
BY DEF RiskAnswers, Refused

LEMMA ApprovalIsAnswer ==
    ASSUME NEW status \in RiskDecisionStatus, NEW code \in RiskReasonCode,
           NEW quantity \in Nat, NEW risk \in Nat
    PROVE  [status |-> status, approved |-> TRUE, code |-> code, quantity |-> quantity, risk |-> risk]
             \in RiskAnswers
BY DEF RiskAnswers

\* Of the size that every limit allows, in whole lots.
LEMMA SizeIsWithinLimits ==
    ASSUME NEW p, ValidPolicy(p), NEW account, ValidAccount(account),
           NEW plan, ValidPlan(plan), NEW s \in SessionState, Geometry(plan) # None
    PROVE  LET answer == Sized(p, account, plan, s)
               q == answer.quantity
               risk == answer.risk
               lot == LotOf(p, plan)
               most == MaxTradeRisk(p, account, s, plan.instrument)
           IN  /\ answer \in RiskAnswers
               /\ answer.approved =>
                    /\ q > 0 /\ q % lot = 0
                    /\ q <= RequestedOf(p, plan) /\ q <= p.maxLots * lot
                    /\ ~Over(p.maxQuantity, q)
                    /\ risk = q * Geometry(plan).risk
                    /\ risk > 0 /\ risk <= most
                    /\ ~Over(p.maxTotal, OpenInAll(s, account) + risk)
                    /\ ~Over(p.maxInstrument, OpenFor(s, plan.instrument) + risk)
<1> DEFINE g == Geometry(plan)
           lot == LotOf(p, plan)
           asked == RequestedOf(p, plan)
           most == MaxTradeRisk(p, account, s, plan.instrument)
           limits == {most \div g.risk, p.maxLots * lot} \cup ({p.maxQuantity} \ {None})
           allowed == Least(limits \cup {asked})
           quantity == (allowed \div lot) * lot
           risk == quantity * g.risk
           answer == Sized(p, account, plan, s)
           reduced == asked > Least(limits)
<1> DEFINE refused == \/ quantity <= 0
                     \/ Over(p.maxTotal, OpenInAll(s, account) + risk)
                     \/ Over(p.maxInstrument, OpenFor(s, plan.instrument) + risk)
<1>0. answer =
        IF quantity <= 0 THEN Refused("REJECTED", "RISK_PER_TRADE_EXCEEDED")
        ELSE IF Over(p.maxTotal, OpenInAll(s, account) + risk)
        THEN Refused("REJECTED", "TOTAL_OPEN_RISK_EXCEEDED")
        ELSE IF Over(p.maxInstrument, OpenFor(s, plan.instrument) + risk)
        THEN Refused("REJECTED", "INSTRUMENT_EXPOSURE_EXCEEDED")
        ELSE    [status |-> IF reduced THEN "APPROVED_WITH_REDUCED_SIZE" ELSE "APPROVED",
                 approved |-> TRUE, code |-> IF reduced THEN "SIZE_REDUCED" ELSE "APPROVED",
                 quantity |-> quantity, risk |-> risk]
  BY DEF Sized
<1> HIDE DEF answer, reduced, quantity, risk
<1>10. /\ refused => \/ answer = Refused("REJECTED", "RISK_PER_TRADE_EXCEEDED")
                     \/ answer = Refused("REJECTED", "TOTAL_OPEN_RISK_EXCEEDED")
                     \/ answer = Refused("REJECTED", "INSTRUMENT_EXPOSURE_EXCEEDED")
       /\ ~refused =>
            answer = [status |-> IF reduced THEN "APPROVED_WITH_REDUCED_SIZE" ELSE "APPROVED",
                      approved |-> TRUE, code |-> IF reduced THEN "SIZE_REDUCED" ELSE "APPROVED",
                      quantity |-> quantity, risk |-> risk]
  <2>1. CASE quantity <= 0
    BY <1>0, <2>1
  <2>2. CASE ~(quantity <= 0) /\ Over(p.maxTotal, OpenInAll(s, account) + risk)
    BY <1>0, <2>2
  <2>3. CASE /\ ~(quantity <= 0) /\ ~Over(p.maxTotal, OpenInAll(s, account) + risk)
             /\ Over(p.maxInstrument, OpenFor(s, plan.instrument) + risk)
    BY <1>0, <2>3
  <2>4. CASE ~refused
    BY <1>0, <2>4
  <2> QED BY <2>1, <2>2, <2>3, <2>4
<1> USE DEF quantity, risk
<1>1. g.risk \in Nat \ {0}
  BY LevelsInOrder
<1>2. lot \in Nat \ {0} /\ asked \in Nat
  BY LotsArePositive
<1>3. most \in Nat
  BY TradeRiskIsBounded
<1>4. p.maxLots * lot \in Int
  BY <1>2 DEF ValidPolicy
<1>5. most \div g.risk \in Int /\ (most \div g.risk) * g.risk <= most
  BY <1>1, <1>3, RoundedDown
<1>6. p.maxQuantity # None => p.maxQuantity \in Nat
  BY DEF ValidPolicy, Limit
<1> HIDE DEF g, lot, asked, most
<1>7. /\ allowed \in Int /\ allowed <= most \div g.risk /\ allowed <= p.maxLots * lot
      /\ allowed <= asked /\ (p.maxQuantity # None => allowed <= p.maxQuantity)
  <2>1. limits \cup {asked} \subseteq Int
    BY <1>2, <1>4, <1>5, <1>6
  <2>2. IsFiniteSet(limits \cup {asked})
    <3>1. p.maxQuantity = None \/ p.maxQuantity # None
      OBVIOUS
    <3>2. IsFiniteSet({p.maxQuantity} \ {None})
      BY FS_Singleton, FS_Difference
    <3>3. limits \cup {asked} =
            {most \div g.risk} \cup {p.maxLots * lot} \cup ({p.maxQuantity} \ {None}) \cup {asked}
      OBVIOUS
    <3> QED BY <3>2, <3>3, FS_Singleton, FS_Union
  <2>3. asked \in limits \cup {asked}
    OBVIOUS
  <2>4. allowed \in limits \cup {asked} /\ \A m \in limits \cup {asked} : allowed <= m
    <3> HIDE DEF limits
    <3> QED BY <2>1, <2>2, <2>3, LeastIsLeast
  <2> HIDE DEF allowed
  <2> QED BY <2>1, <2>4
<1> HIDE DEF limits, allowed
<1>8. quantity \in Int /\ quantity <= allowed /\ quantity % lot = 0
  BY <1>2, <1>7, RoundedDown, WholeMultiple
<1> HIDE DEF quantity
<1>9. risk \in Int /\ risk <= most /\ (quantity > 0 => risk > 0)
  <2>1. quantity <= most \div g.risk
    BY <1>5, <1>7, <1>8
  <2>2. quantity * g.risk <= (most \div g.risk) * g.risk
    BY <1>1, <1>5, <1>8, <2>1, TimesKeepsOrder
  <2>3. quantity > 0 => quantity * g.risk > 0
    BY <1>1, <1>8
  <2>4. (most \div g.risk) * g.risk \in Int
    BY <1>1, <1>5
  <2> QED BY <1>1, <1>3, <1>5, <1>8, <2>2, <2>3, <2>4
<1> HIDE DEF risk
<1>11. answer \in RiskAnswers
  <2>1. CASE refused
    <3>1. {"RISK_PER_TRADE_EXCEEDED", "TOTAL_OPEN_RISK_EXCEEDED", "INSTRUMENT_EXPOSURE_EXCEEDED"}
            \subseteq RiskReasonCode /\ "REJECTED" \in RiskDecisionStatus
      BY DEF RiskDecisionStatus, RiskReasonCode
    <3> QED BY <1>10, <2>1, <3>1, RefusalIsAnswer
  <2>2. CASE ~refused
    <3>1. quantity \in Nat /\ risk \in Nat
      BY <1>8, <1>9, <2>2
    <3>2. (IF reduced THEN "APPROVED_WITH_REDUCED_SIZE" ELSE "APPROVED") \in RiskDecisionStatus
          /\ (IF reduced THEN "SIZE_REDUCED" ELSE "APPROVED") \in RiskReasonCode
      BY DEF RiskDecisionStatus, RiskReasonCode
    <3> HIDE DEF reduced
    <3> QED BY <1>10, <2>2, <3>1, <3>2, ApprovalIsAnswer
  <2> QED BY <2>1, <2>2
<1>12. answer.approved =>
         /\ quantity > 0 /\ answer.quantity = quantity /\ answer.risk = risk
         /\ ~Over(p.maxTotal, OpenInAll(s, account) + risk)
         /\ ~Over(p.maxInstrument, OpenFor(s, plan.instrument) + risk)
  <2>1. CASE refused
    BY <1>10, <2>1 DEF Refused
  <2>2. CASE ~refused
    BY <1>8, <1>10, <2>2
  <2> QED BY <2>1, <2>2
<1>13. ~Over(p.maxQuantity, quantity)
  BY <1>6, <1>7, <1>8 DEF Over
<1>14. quantity <= asked /\ quantity <= p.maxLots * lot
  BY <1>2, <1>4, <1>7, <1>8
<1> QED
  BY <1>8, <1>9, <1>11, <1>12, <1>13, <1>14 DEF answer, g, lot, asked, most, risk

\* What a look at the profit lock leaves alone.
SameCounts(s, r) ==
    /\ r \in SessionState
    /\ r.date = s.date /\ r.trades = s.trades /\ r.open = s.open /\ r.per = s.per
    /\ r.emergency = s.emergency

LEMMA LookingKeepsCounts ==
    ASSUME NEW s \in SessionState, NEW p, NEW pnl \in Int
    PROVE  SameCounts(s, ProfitLock(s, p, pnl).session)
<1> DEFINE peak == IF pnl > s.peak THEN pnl ELSE s.peak
           armed == s.profitLock \/ peak >= p.profitTrigger
           off == p.profitTrigger = None \/ p.profitGiveback = None
<1>1. ProfitLock(s, p, pnl).session = IF off THEN s ELSE [s EXCEPT !.peak = peak, !.profitLock = armed]
  BY DEF ProfitLock
<1>2. peak \in Int /\ armed \in BOOLEAN
  BY DEF SessionState
<1> HIDE DEF peak, armed, off
<1>3. SameCounts(s, s) /\ SameCounts(s, [s EXCEPT !.peak = peak, !.profitLock = armed])
  BY <1>2 DEF SameCounts, SessionState
<1> QED BY <1>1, <1>3

LEMMA SessionChecksAre ==
    ASSUME NEW p, NEW account, NEW plan, NEW s, NEW t
    PROVE  LET checks == SessionChecks(p, account, plan, s, t)
               loss == LossLimit(p, account.capital)
           IN  /\ DOMAIN checks = 1 .. 13
               /\ \A j \in 1 .. 13 : checks[j][2] \in RiskDecisionStatus /\ checks[j][3] \in RiskReasonCode
               /\ checks[2][1] <=> s.emergency
               /\ checks[4][1] <=> plan.instrument \notin LimitedInstruments
               /\ checks[6][1] <=> ClockOf(t) > p.lastEntry
               /\ checks[7][1] <=> ClockOf(t) < p.opens
               /\ checks[9][1] <=> loss # None /\ Greater(-account.dailyPnl, 0) >= loss
               /\ checks[11][1] <=> s.trades >= p.maxTrades
<1> DEFINE checks == SessionChecks(p, account, plan, s, t)
<1>1. DOMAIN checks = 1 .. 13
  BY DEF SessionChecks
<1>2. ASSUME NEW j \in 1 .. 13
      PROVE  checks[j][2] \in RiskDecisionStatus /\ checks[j][3] \in RiskReasonCode
  BY DEF SessionChecks, RiskDecisionStatus, RiskReasonCode
<1>3. /\ checks[2][1] <=> s.emergency
      /\ checks[4][1] <=> plan.instrument \notin LimitedInstruments
      /\ checks[6][1] <=> ClockOf(t) > p.lastEntry
      /\ checks[7][1] <=> ClockOf(t) < p.opens
      /\ checks[11][1] <=> s.trades >= p.maxTrades
  BY DEF SessionChecks
<1>4. checks[9][1] <=> LossLimit(p, account.capital) # None
                         /\ Greater(-account.dailyPnl, 0) >= LossLimit(p, account.capital)
  BY DEF SessionChecks
<1> QED BY <1>1, <1>2, <1>3, <1>4

LEMMA PlanChecksAre ==
    ASSUME NEW p, NEW account, NEW plan, NEW s
    PROVE  LET checks == PlanChecks(p, account, plan, s)
           IN  /\ DOMAIN checks = 1 .. 13
               /\ \A j \in 1 .. 13 : checks[j][2] \in RiskDecisionStatus /\ checks[j][3] \in RiskReasonCode
               /\ checks[6][1] <=> Geometry(plan) = None
<1> DEFINE checks == PlanChecks(p, account, plan, s)
<1>1. DOMAIN checks = 1 .. 13
  BY DEF PlanChecks
<1>2. ASSUME NEW j \in 1 .. 13
      PROVE  checks[j][2] \in RiskDecisionStatus /\ checks[j][3] \in RiskReasonCode
  BY DEF PlanChecks, RiskDecisionStatus, RiskReasonCode
<1>3. checks[6][1] <=> Geometry(plan) = None
  BY DEF PlanChecks
<1> QED BY <1>1, <1>2, <1>3

\* A decision is one of the engine's, an approval among them stays within its policy and
\* fits the session it was made in, and none is made under the emergency lock.
LEMMA DecisionIsSound ==
    ASSUME NEW p \in RiskPolicies, NEW account \in Accounts, NEW plan \in ProposedPlans,
           NEW s \in SessionState, NEW t \in RiskTimes
    PROVE  LET decided == Decide(p, account, plan, s, t)
               d == RiskDecisionRecord(decided.answer, p, account, plan, t)
           IN  /\ SameCounts(s, decided.session)
               /\ d \in RiskDecisions
               /\ d.answer.approved =>
                     /\ ~s.emergency /\ plan.instrument \in LimitedInstruments
                     /\ WithinPolicy(d) /\ FitsEmpty(d) /\ FitsSession(s, d)
<1> DEFINE early == SessionChecks(p, account, plan, s, t)
           first == FirstRefusal(early)
           looked == IF first = 0 \/ first >= ProfitLockAt
                     THEN ProfitLock(s, p, account.dailyPnl).session ELSE s
           late == PlanChecks(p, account, plan, s)
           second == FirstRefusal(late)
           decided == Decide(p, account, plan, s, t)
           answer == decided.answer
           d == RiskDecisionRecord(answer, p, account, plan, t)
<1>1. ValidPolicy(p) /\ ValidAccount(account) /\ ValidPlan(plan)
  BY InputsAreValid
<1>2. account.dailyPnl \in Int /\ account.capital \in Nat /\ p.tradePercent \in Nat
      /\ p.lastEntry \in Nat /\ p.opens \in Nat /\ p.maxTrades \in Nat /\ plan.direction \in Directions
  BY <1>1 DEF ValidAccount, ValidPolicy, ValidPlan
<1>0. decided =
        [answer |-> CASE first # 0 -> Refused(early[first][2], early[first][3])
                      [] first = 0 /\ second # 0 -> Refused(late[second][2], late[second][3])
                      [] OTHER -> Sized(p, account, plan, looked),
         session |-> looked]
  BY DEF Decide
<1> HIDE DEF decided, early, first, looked, late, second
<1>3. /\ first # 0 => answer = Refused(early[first][2], early[first][3])
      /\ first = 0 /\ second # 0 => answer = Refused(late[second][2], late[second][3])
      /\ first = 0 /\ second = 0 => answer = Sized(p, account, plan, looked)
      /\ decided.session = looked
  <2>1. CASE first # 0
    BY <1>0, <2>1
  <2>2. CASE first = 0 /\ second # 0
    BY <1>0, <2>2
  <2>3. CASE first = 0 /\ second = 0
    BY <1>0, <2>3
  <2> QED BY <2>1, <2>2, <2>3
<1> USE DEF early, first, looked, late, second
<1>4. SameCounts(s, looked)
  <2>1. SameCounts(s, s)
    BY DEF SameCounts
  <2> QED BY <1>2, <2>1, LookingKeepsCounts
<1>5. /\ first = 0 => \A j \in 1 .. 13 : ~early[j][1]
      /\ first # 0 => first \in 1 .. 13
      /\ second = 0 => \A j \in 1 .. 13 : ~late[j][1]
      /\ second # 0 => second \in 1 .. 13
  <2>1. DOMAIN early = 1 .. 13 /\ DOMAIN late = 1 .. 13
    BY SessionChecksAre, PlanChecksAre
  <2> HIDE DEF early, late
  <2>2. ASSUME NEW checks, DOMAIN checks = 1 .. 13
        PROVE  /\ FirstRefusal(checks) = 0 => \A j \in 1 .. 13 : ~checks[j][1]
               /\ FirstRefusal(checks) # 0 => FirstRefusal(checks) \in 1 .. 13
    <3>1. 13 \in Nat
      OBVIOUS
    <3>2. FirstRefusal(checks) \in 0 .. 13
      BY <2>2, <3>1, FirstRefusalIsRefusal
    <3>3. FirstRefusal(checks) = 0 => \A j \in 1 .. 13 : ~checks[j][1]
      BY <2>2, <3>1, FirstRefusalIsRefusal
    <3> QED BY <3>2, <3>3
  <2> QED BY <2>1, <2>2
<1> HIDE DEF first, second, looked
<1>6. CASE first # 0 \/ second # 0
  <2>1. \E status \in RiskDecisionStatus, code \in RiskReasonCode : answer = Refused(status, code)
    <3>1. CASE first # 0
      <4>1. early[first][2] \in RiskDecisionStatus /\ early[first][3] \in RiskReasonCode
        BY <1>5, <3>1, SessionChecksAre
      <4> QED BY <1>3, <3>1, <4>1
    <3>2. CASE first = 0 /\ second # 0
      <4>1. late[second][2] \in RiskDecisionStatus /\ late[second][3] \in RiskReasonCode
        BY <1>5, <3>2, PlanChecksAre
      <4> QED BY <1>3, <3>2, <4>1
    <3> QED BY <1>6, <3>1, <3>2
  <2>2. answer \in RiskAnswers /\ ~answer.approved
    BY <2>1, RefusalIsAnswer
  <2>3. d \in RiskDecisions /\ d.answer = answer
    BY <2>2 DEF RiskDecisions, RiskDecisionRecord
  <2> QED BY <1>3, <1>4, <2>2, <2>3 DEF decided
<1>7. CASE first = 0 /\ second = 0
  <2>1. answer = Sized(p, account, plan, looked)
    BY <1>3, <1>7
  <2>2. /\ ~s.emergency /\ plan.instrument \in LimitedInstruments
        /\ ~(ClockOf(t) > p.lastEntry) /\ ~(ClockOf(t) < p.opens)
        /\ ~(LossLimit(p, account.capital) # None
               /\ Greater(-account.dailyPnl, 0) >= LossLimit(p, account.capital))
        /\ ~(s.trades >= p.maxTrades)
        /\ Geometry(plan) # None
    BY <1>5, <1>7, SessionChecksAre, PlanChecksAre
  <2> DEFINE q == answer.quantity
             risk == answer.risk
             lot == LotOf(p, plan)
             most == MaxTradeRisk(p, account, looked, plan.instrument)
             loss == LossLimit(p, account.capital)
  <2>3. looked \in SessionState /\ looked.open = s.open /\ looked.per = s.per
    BY <1>4 DEF SameCounts
  <2>4. /\ answer \in RiskAnswers
        /\ answer.approved =>
             /\ q > 0 /\ q % lot = 0
             /\ q <= RequestedOf(p, plan) /\ q <= p.maxLots * lot
             /\ ~Over(p.maxQuantity, q)
             /\ risk = q * Geometry(plan).risk
             /\ risk > 0 /\ risk <= most
             /\ ~Over(p.maxTotal, OpenInAll(looked, account) + risk)
             /\ ~Over(p.maxInstrument, OpenFor(looked, plan.instrument) + risk)
    BY <1>1, <2>1, <2>2, <2>3, SizeIsWithinLimits
  <2>5. /\ d \in RiskDecisions /\ d.answer = answer /\ d.policy = p /\ d.account = account
        /\ d.plan = plan /\ d.at = t
    BY <2>4 DEF RiskDecisions, RiskDecisionRecord
  <2> HIDE DEF answer, d
  <2>6. ASSUME answer.approved
        PROVE  WithinPolicy(d)
    <3>1. most \in Nat /\ most <= (account.capital * p.tradePercent) \div 100
          /\ (loss # None => most <= loss + (IF account.dailyPnl < 0 THEN account.dailyPnl ELSE 0))
      BY <1>1, <2>3, <2>4, <2>6, TradeRiskIsBounded DEF RiskAnswers
    <3>2. risk * 100 <= account.capital * p.tradePercent
      <4> DEFINE n == account.capital * p.tradePercent
      <4>1. n \in Int
        BY <1>2
      <4>2. risk \in Nat /\ most \in Nat
        BY <2>4, <3>1 DEF RiskAnswers
      <4>3. risk <= n \div 100
        BY <2>4, <2>6, <3>1, <4>1, <4>2, DivisionIsWhole
      <4> HIDE DEF n
      <4>4. risk * 100 <= n
        BY <4>1, <4>2, <4>3
      <4> QED BY <4>4 DEF n
    <3>3. loss # None => account.dailyPnl - risk >= -loss
      <4>1. loss # None => loss \in Nat
        BY <1>1, <1>2, LossLimitIsAmount
      <4>2. risk \in Nat
        BY <2>4 DEF RiskAnswers
      <4> HIDE DEF risk, most, loss
      <4> QED BY <1>2, <2>4, <2>6, <3>1, <4>1, <4>2 DEF risk, most
    <3>4. IF plan.direction = "bullish"
          THEN plan.stop < plan.entry /\ risk = q * (plan.entry - plan.stop)
          ELSE plan.entry < plan.stop /\ risk = q * (plan.stop - plan.entry)
      BY <1>1, <2>2, <2>4, <2>6, LevelsInOrder
    <3>5. ClockOf(t) \in p.opens .. p.lastEntry
      <4>1. ClockOf(t) \in Int
        BY TimesAreNumbers DEF ClockOf
      <4> QED BY <1>2, <2>2, <4>1
    <3> QED BY <2>4, <2>5, <2>6, <3>2, <3>3, <3>4, <3>5 DEF WithinPolicy
  <2>7. ASSUME answer.approved
        PROVE  FitsEmpty(d) /\ FitsSession(s, d)
    <3>1. s.open \in Nat /\ s.per[plan.instrument] \in Nat /\ account.openRisk \in Nat /\ risk \in Nat
          /\ s.trades \in Nat
      BY <1>1, <2>2, <2>4 DEF SessionState, ValidAccount, RiskAnswers
    <3>2. OpenInAll(looked, account) >= s.open /\ OpenInAll(looked, account) \in Nat
      BY <2>3, <3>1 DEF OpenInAll, Greater
    <3>3. OpenFor(looked, plan.instrument) = s.per[plan.instrument]
      BY <2>2, <2>3 DEF OpenFor
    <3>4. (p.maxTotal # None => p.maxTotal \in Nat) /\ (p.maxInstrument # None => p.maxInstrument \in Nat)
      BY <1>1 DEF ValidPolicy, Limit
    <3>5. ~Over(p.maxTotal, s.open + risk) /\ ~Over(p.maxTotal, risk)
      BY <2>4, <2>7, <3>1, <3>2, <3>4 DEF Over
    <3>6. ~Over(p.maxInstrument, s.per[plan.instrument] + risk) /\ ~Over(p.maxInstrument, risk)
      BY <2>4, <2>7, <3>1, <3>3, <3>4 DEF Over
    <3>7. s.trades < p.maxTrades /\ p.maxTrades >= 1
      BY <1>2, <2>2, <3>1
    <3> QED BY <2>5, <3>5, <3>6, <3>7 DEF FitsSession, FitsEmpty
  <2> QED BY <1>3, <1>4, <2>2, <2>5, <2>6, <2>7 DEF answer, d, decided
<1> QED BY <1>6, <1>7

-------------------------------------------------------------------------------
(* The gate of the risk engine: its session *)

LEMMA DatesAreNumbers ==
    ASSUME NEW t \in RiskTimes
    PROVE  DateOf(t) \in Nat /\ t \in Nat
BY TimesAreNumbers DEF DateOf

LEMMA FreshIsSession ==
    ASSUME NEW date \in Nat, NEW lock \in BOOLEAN
    PROVE  Fresh(date, lock) \in SessionState /\ Fresh(date, lock).date = date
           /\ Fresh(date, lock).emergency = lock
BY DEF Fresh, SessionState, Limit

LEMMA FreshFits ==
    ASSUME NEW d \in RiskDecisions, FitsEmpty(d), d.plan.instrument \in LimitedInstruments,
           NEW date, NEW lock
    PROVE  FitsSession(Fresh(date, lock), d)
<1>1. d.answer.risk \in Nat /\ d.policy \in RiskPolicies
  BY DEF RiskDecisions, RiskAnswers
<1>2. d.policy.maxTrades \in Nat
  BY <1>1, InputsAreValid DEF ValidPolicy
<1>3. 0 + d.answer.risk = d.answer.risk
  BY <1>1
<1>4. Fresh(date, lock).trades = 0 /\ Fresh(date, lock).open = 0
      /\ Fresh(date, lock).per[d.plan.instrument] = 0
  BY DEF Fresh
<1> QED BY <1>2, <1>3, <1>4 DEF FitsSession, FitsEmpty

\* Whether one more trade fits the session, should it be of the decision's date.
StillFits(s, d) == s.date = DateOf(d.at) => FitsSession(s, d)

LEMMA RollingIsSound ==
    ASSUME NEW s \in SessionState, NEW t \in RiskTimes
    PROVE  LET r == Rolled(s, DateOf(t))
           IN  /\ r \in SessionState /\ r.date = DateOf(t)
               /\ s.emergency => r.emergency
               /\ \A d \in RiskDecisions :
                     FitsEmpty(d) /\ d.plan.instrument \in LimitedInstruments /\ StillFits(s, d)
                       => StillFits(r, d)
<1> DEFINE date == DateOf(t)
           r == Rolled(s, date)
<1>1. s.emergency \in BOOLEAN /\ date \in Nat
  BY DatesAreNumbers DEF SessionState
<1>2. /\ r \in {s, Fresh(date, FALSE), Fresh(date, s.emergency)}
      /\ r = s => s.date = date
      /\ s.emergency => r \in {s, Fresh(date, s.emergency)}
  <2>1. s.emergency => ~Untouched(s)
    BY DEF Untouched
  <2>2. CASE Untouched(s)
    <3>1. r = Fresh(date, FALSE) /\ ~s.emergency
      BY <2>1, <2>2 DEF Rolled
    <3>2. Fresh(date, FALSE).date = date
      BY <1>1, FreshIsSession
    <3> QED BY <3>1, <3>2
  <2>3. CASE ~Untouched(s) /\ s.date # date
    <3>1. r = Fresh(date, s.emergency)
      BY <2>3 DEF Rolled
    <3>2. Fresh(date, s.emergency).date = date
      BY <1>1, FreshIsSession
    <3> QED BY <3>1, <3>2
  <2>4. CASE ~Untouched(s) /\ s.date = date
    BY <2>4 DEF Rolled
  <2> QED BY <2>2, <2>3, <2>4
<1> HIDE DEF r, date
<1>3. r \in SessionState /\ r.date = date /\ (s.emergency => r.emergency)
  BY <1>1, <1>2, FreshIsSession
<1>4. ASSUME NEW d \in RiskDecisions, FitsEmpty(d), d.plan.instrument \in LimitedInstruments,
             StillFits(s, d)
      PROVE  StillFits(r, d)
  BY <1>2, <1>4, FreshFits DEF StillFits
<1> QED BY <1>3, <1>4 DEF r, date

\* An approval not reported opened yet still fits the session it would be opened in.
ApprovalStands ==
    ~opened => /\ decision \in RiskDecisions /\ decision.answer.approved
               /\ decision.plan.instrument \in LimitedInstruments
               /\ FitsEmpty(decision) /\ StillFits(session, decision)

RiskIInv ==
    /\ session \in SessionState
    /\ policy \in RiskPolicies \cup {DefaultPolicy}
    /\ decision \in RiskDecisions \cup {None}
    /\ opened \in BOOLEAN
    /\ ApprovedWithinLimits
    /\ ApprovalStands

\* What the two action properties say of a step.
OpeningIsWithinLimits ==
    (opened' /\ ~opened /\ decision' = decision) =>
        \/ session'.date # DateOf(decision.at)
        \/ /\ session'.trades <= decision.policy.maxTrades
           /\ ~Over(decision.policy.maxTotal, session'.open)
           /\ ~Over(decision.policy.maxInstrument, session'.per[decision.plan.instrument])

LockOutlasts ==
    session.emergency =>
        /\ session'.emergency
        /\ decision' # decision => (decision' = None \/ ~decision'.answer.approved)

RiskStepIsSound == RiskIInv' /\ OpeningIsWithinLimits /\ LockOutlasts

\* A session that counts no more than before still fits what fitted it.
LEMMA LessStillFits ==
    ASSUME NEW s \in SessionState, NEW r \in SessionState, NEW d \in RiskDecisions,
           d.plan.instrument \in LimitedInstruments, StillFits(s, d), r.date = s.date,
           r.trades = s.trades, r.open <= s.open,
           r.per[d.plan.instrument] <= s.per[d.plan.instrument]
    PROVE  StillFits(r, d)
<1>1. s.open \in Nat /\ r.open \in Nat /\ s.per[d.plan.instrument] \in Nat
      /\ r.per[d.plan.instrument] \in Nat /\ d.answer.risk \in Nat
  BY DEF SessionState, RiskDecisions, RiskAnswers
<1>2. ValidPolicy(d.policy)
  BY InputsAreValid DEF RiskDecisions
<1>3. /\ d.policy.maxTotal # None => d.policy.maxTotal \in Nat
      /\ d.policy.maxInstrument # None => d.policy.maxInstrument \in Nat
  BY <1>2 DEF ValidPolicy, Limit
<1> QED BY <1>1, <1>3 DEF StillFits, FitsSession, Over

LEMMA EvaluationIsSound ==
    ASSUME RiskIInv, NEW p \in RiskPolicies, NEW a \in Accounts, NEW plan \in ProposedPlans,
           NEW t \in RiskTimes, EvaluateRisk(p, a, plan, t)
    PROVE  RiskStepIsSound
<1> DEFINE s == Rolled(session, DateOf(t))
           d == Decide(p, a, plan, s, t)
           made == RiskDecisionRecord(d.answer, p, a, plan, t)
<1>1. s \in SessionState /\ s.date = DateOf(t) /\ (session.emergency => s.emergency)
      /\ (ApprovalStands /\ ~opened => StillFits(s, decision))
  BY RollingIsSound DEF RiskIInv, ApprovalStands
<1>2. policy' = p
  BY DEF EvaluateRisk
<1>3. CASE RefusedByValidation(plan)
  <2>1. session' = s /\ UNCHANGED <<decision, evaluated, opened>>
    BY <1>3 DEF EvaluateRisk
  <2>2. RiskIInv'
    BY <1>1, <1>2, <2>1 DEF RiskIInv, ApprovalStands, ApprovedWithinLimits
  <2> QED BY <1>1, <2>1, <2>2 DEF RiskStepIsSound, OpeningIsWithinLimits, LockOutlasts
<1>4. CASE ~RefusedByValidation(plan)
  <2>1. /\ session' = [d.session EXCEPT !.profitLock = @ \/ d.answer.code = "DAILY_PROFIT_LOCK_ACTIVE"]
        /\ decision' = made
        /\ opened' = ~d.answer.approved
    BY <1>4 DEF EvaluateRisk
  <2>2. /\ SameCounts(s, d.session)
        /\ made \in RiskDecisions
        /\ made.answer.approved =>
              /\ ~s.emergency /\ plan.instrument \in LimitedInstruments
              /\ WithinPolicy(made) /\ FitsEmpty(made) /\ FitsSession(s, made)
    BY <1>1, DecisionIsSound
  <2>3. made.answer = d.answer /\ made.plan = plan
    BY DEF RiskDecisionRecord
  <2> HIDE DEF made, d, s
  <2>4. SameCounts(s, session')
    BY <2>1, <2>2 DEF SameCounts, SessionState
  <2>5. session' \in SessionState /\ d.answer.approved \in BOOLEAN
    BY <2>2, <2>3, <2>4 DEF SameCounts, RiskDecisions, RiskAnswers
  <2>6. made # None
    BY <2>2, NoDecision
  <2>7. FitsSession(s, made) => StillFits(session', made)
    BY <2>4 DEF SameCounts, FitsSession, StillFits
  <2>8. RiskIInv'
    BY <1>2, <2>1, <2>2, <2>3, <2>5, <2>6, <2>7 DEF RiskIInv, ApprovalStands, ApprovedWithinLimits
  <2>9. OpeningIsWithinLimits
    BY <2>1, <2>2, <2>3, NoDecision DEF OpeningIsWithinLimits, RiskIInv, ApprovalStands
  <2>10. LockOutlasts
    BY <1>1, <2>1, <2>2, <2>3, <2>4 DEF LockOutlasts, SameCounts
  <2> QED BY <2>8, <2>9, <2>10 DEF RiskStepIsSound
<1> QED BY <1>3, <1>4

LEMMA OpeningIsSound ==
    ASSUME RiskIInv, NEW t \in RiskTimes, RecordTradeOpened(t)
    PROVE  RiskStepIsSound
<1> DEFINE s == Rolled(session, DateOf(t))
           i == decision.plan.instrument
           amount == decision.answer.risk
<1>1. /\ ~opened /\ opened' = TRUE
      /\ session' = [s EXCEPT !.trades = @ + 1, !.open = @ + amount, !.per[i] = @ + amount]
      /\ UNCHANGED <<lifecycle, policy, decision, evaluated>>
  BY DEF RecordTradeOpened
<1>2. decision \in RiskDecisions /\ i \in LimitedInstruments /\ FitsEmpty(decision)
      /\ StillFits(session, decision)
  BY <1>1 DEF RiskIInv, ApprovalStands
<1>3. s \in SessionState /\ (session.emergency => s.emergency) /\ StillFits(s, decision)
  BY <1>2, RollingIsSound DEF RiskIInv
<1>4. amount \in Nat
  BY <1>2 DEF RiskDecisions, RiskAnswers
<1> HIDE DEF s, i, amount
<1>5. s.trades \in Nat /\ s.open \in Nat /\ s.per \in [LimitedInstruments -> Nat]
  BY <1>3 DEF SessionState
<1>6. [s.per EXCEPT ![i] = @ + amount] \in [LimitedInstruments -> Nat]
  BY <1>2, <1>4, <1>5
<1>7. session' \in SessionState
  <2>1. s.trades + 1 \in Nat /\ s.open + amount \in Nat
    BY <1>4, <1>5
  <2> QED BY <1>1, <1>3, <1>6, <2>1 DEF SessionState
<1>8. session'.date = s.date /\ session'.trades = s.trades + 1 /\ session'.open = s.open + amount
      /\ session'.per[i] = s.per[i] + amount /\ session'.emergency = s.emergency
  BY <1>1, <1>2, <1>3, <1>5 DEF SessionState
<1>9. RiskIInv'
  BY <1>1, <1>7 DEF RiskIInv, ApprovedWithinLimits, ApprovalStands
<1>10. OpeningIsWithinLimits
  <2> SUFFICES ASSUME s.date = DateOf(decision.at)
               PROVE  /\ session'.trades <= decision.policy.maxTrades
                      /\ ~Over(decision.policy.maxTotal, session'.open)
                      /\ ~Over(decision.policy.maxInstrument, session'.per[i])
    BY <1>8 DEF OpeningIsWithinLimits, i
  <2>1. FitsSession(s, decision)
    BY <1>3 DEF StillFits
  <2>2. decision.policy.maxTrades \in Nat
    BY <1>2, InputsAreValid DEF RiskDecisions, ValidPolicy
  <2> QED BY <1>5, <1>8, <2>1, <2>2 DEF FitsSession, i, amount
<1>11. LockOutlasts
  BY <1>1, <1>3, <1>8 DEF LockOutlasts
<1> QED BY <1>9, <1>10, <1>11 DEF RiskStepIsSound

LEMMA ClosingIsSound ==
    ASSUME RiskIInv, NEW i \in LimitedInstruments, NEW amount \in Nat, NEW outcome,
           NEW t \in RiskTimes, RecordTradeClosed(i, amount, outcome, t)
    PROVE  RiskStepIsSound
<1> DEFINE s == Rolled(session, DateOf(t))
           losses == CASE outcome = "win" -> 0 [] outcome = "loss" -> s.losses + 1 [] OTHER -> s.losses
           cooldown == CASE outcome = "loss" /\ losses >= policy.maxLosses -> t + policy.cooldown
                         [] outcome = "win" -> None
                         [] OTHER -> s.cooldown
           revenge == CASE outcome = "loss" -> t + policy.revengeWindow
                        [] outcome = "win" -> None
                        [] OTHER -> s.revenge
<1>1. /\ session' = [s EXCEPT !.losses = losses, !.open = Greater(0, @ - amount),
                              !.per[i] = Greater(0, @ - amount),
                              !.cooldown = cooldown, !.revenge = revenge]
      /\ UNCHANGED <<policy, decision, opened>>
  BY DEF RecordTradeClosed
<1>2. s \in SessionState /\ (session.emergency => s.emergency)
      /\ (~opened => StillFits(s, decision))
  BY RollingIsSound DEF RiskIInv, ApprovalStands
<1>3. s.losses \in Nat /\ s.open \in Nat /\ s.per \in [LimitedInstruments -> Nat]
      /\ s.cooldown \in Limit /\ s.revenge \in Limit
  BY <1>2 DEF SessionState
<1>4. policy.cooldown \in Nat /\ policy.revengeWindow \in Nat /\ t \in Nat
  BY InputsAreValid, DatesAreNumbers DEF RiskIInv, ValidPolicy
<1> HIDE DEF s
<1>5. losses \in Nat
  BY <1>3
<1>6. cooldown \in Limit /\ revenge \in Limit
  <2> HIDE DEF losses
  <2>1. t + policy.cooldown \in Limit /\ t + policy.revengeWindow \in Limit /\ None \in Limit
    BY <1>4 DEF Limit
  <2> QED BY <1>3, <2>1
<1> HIDE DEF losses, cooldown, revenge
<1>7. Greater(0, s.open - amount) \in Nat /\ Greater(0, s.open - amount) <= s.open
      /\ Greater(0, s.per[i] - amount) \in Nat /\ Greater(0, s.per[i] - amount) <= s.per[i]
  BY <1>3 DEF Greater
<1>8. [s.per EXCEPT ![i] = Greater(0, @ - amount)] \in [LimitedInstruments -> Nat]
  BY <1>3, <1>7
<1>9. session' \in SessionState
  BY <1>1, <1>2, <1>5, <1>6, <1>7, <1>8 DEF SessionState
<1>10. session'.date = s.date /\ session'.trades = s.trades /\ session'.open <= s.open
       /\ session'.emergency = s.emergency
       /\ \A j \in LimitedInstruments : session'.per[j] <= s.per[j]
  BY <1>1, <1>2, <1>3, <1>7 DEF SessionState
<1>11. ~opened => StillFits(session', decision)
  BY <1>2, <1>9, <1>10, LessStillFits DEF RiskIInv, ApprovalStands
<1>12. RiskIInv'
  BY <1>1, <1>9, <1>11 DEF RiskIInv, ApprovedWithinLimits, ApprovalStands
<1> QED BY <1>1, <1>2, <1>10, <1>12 DEF RiskStepIsSound, OpeningIsWithinLimits, LockOutlasts

\* A step that leaves the decision alone and no more in the session than there was.
LEMMA QuietStepIsSound ==
    ASSUME RiskIInv, session' \in SessionState, session'.date = session.date,
           session'.trades = session.trades, session'.open = session.open,
           session'.per = session.per, session.emergency => session'.emergency,
           UNCHANGED <<policy, decision, opened>>
    PROVE  RiskStepIsSound
<1>1. ~opened => StillFits(session', decision)
  BY DEF RiskIInv, ApprovalStands, StillFits, FitsSession
<1>2. RiskIInv'
  BY <1>1 DEF RiskIInv, ApprovedWithinLimits, ApprovalStands
<1> QED BY <1>2 DEF RiskStepIsSound, OpeningIsWithinLimits, LockOutlasts, RiskIInv

LEMMA LockingIsSound ==
    ASSUME RiskIInv, NEW which \in {"manual", "emergency"}, ActivateLock(which)
    PROVE  RiskStepIsSound
<1>1. session \in SessionState
  BY DEF RiskIInv
<1>2. session' = [session EXCEPT ![which] = TRUE] /\ UNCHANGED <<policy, decision, opened>>
  BY DEF ActivateLock
<1>3. CASE which = "manual"
  <2>1. session' \in SessionState /\ session'.date = session.date
        /\ session'.trades = session.trades /\ session'.open = session.open
        /\ session'.per = session.per /\ session'.emergency = session.emergency
    BY <1>1, <1>2, <1>3 DEF SessionState
  <2> QED BY <1>2, <2>1, QuietStepIsSound
<1>4. CASE which = "emergency"
  <2>1. session' \in SessionState /\ session'.date = session.date
        /\ session'.trades = session.trades /\ session'.open = session.open
        /\ session'.per = session.per /\ session'.emergency
    BY <1>1, <1>2, <1>4 DEF SessionState
  <2> QED BY <1>2, <2>1, QuietStepIsSound
<1> QED BY <1>3, <1>4

LEMMA ClearingIsSound ==
    ASSUME RiskIInv, ClearManualLock
    PROVE  RiskStepIsSound
<1>1. session \in SessionState
  BY DEF RiskIInv
<1>2. session' = [session EXCEPT !.manual = FALSE] /\ UNCHANGED <<policy, decision, opened>>
  BY DEF ClearManualLock
<1>3. session' \in SessionState /\ session'.date = session.date
      /\ session'.trades = session.trades /\ session'.open = session.open
      /\ session'.per = session.per /\ session'.emergency = session.emergency
  BY <1>1, <1>2 DEF SessionState
<1> QED BY <1>2, <1>3, QuietStepIsSound

\* Both resets forget the decision and keep the emergency lock.
LEMMA ResettingIsSound ==
    ASSUME RiskIInv, NEW date \in Nat, session' = Fresh(date, session.emergency),
           decision' = None, opened' = TRUE, UNCHANGED policy
    PROVE  RiskStepIsSound
<1>1. session.emergency \in BOOLEAN
  BY DEF RiskIInv, SessionState
<1>2. session' \in SessionState /\ session'.emergency = session.emergency
  BY <1>1, FreshIsSession
<1>3. RiskIInv'
  BY <1>2 DEF RiskIInv, ApprovedWithinLimits, ApprovalStands
<1>4. OpeningIsWithinLimits
  BY NoDecision DEF OpeningIsWithinLimits, RiskIInv, ApprovalStands
<1>5. LockOutlasts
  BY <1>2 DEF LockOutlasts
<1> QED BY <1>3, <1>4, <1>5 DEF RiskStepIsSound

LEMMA RiskStartsSound ==
    ASSUME RiskInit
    PROVE  RiskIInv
<1>1. session \in SessionState
  BY FreshIsSession DEF RiskInit, FirstDate
<1> QED BY <1>1 DEF RiskInit, RiskIInv, ApprovedWithinLimits, ApprovalStands

LEMMA RiskStepsAreSound ==
    ASSUME RiskIInv, [RiskNext]_riskVars
    PROVE  RiskStepIsSound
<1>1. session \in SessionState
  BY DEF RiskIInv
<1>2. ASSUME NEW p \in RiskPolicies, NEW a \in Accounts, NEW plan \in ProposedPlans,
             NEW t \in RiskTimes, EvaluateRisk(p, a, plan, t)
      PROVE  RiskStepIsSound
  BY <1>2, EvaluationIsSound
<1>3. ASSUME NEW t \in RiskTimes, RecordTradeOpened(t)
      PROVE  RiskStepIsSound
  BY <1>3, OpeningIsSound
<1>4. ASSUME NEW i \in LimitedInstruments, NEW o, NEW t \in RiskTimes,
             RecordTradeClosed(i, session.per[i], o, t) \/ RecordResult(i, o, t)
      PROVE  RiskStepIsSound
  <2>1. session.per[i] \in Nat /\ 0 \in Nat
    BY <1>1 DEF SessionState
  <2>2. CASE RecordTradeClosed(i, session.per[i], o, t)
    BY <2>1, <2>2, ClosingIsSound
  <2>3. CASE RecordResult(i, o, t)
    BY <2>1, <2>3, ClosingIsSound DEF RecordResult
  <2> QED BY <1>4, <2>2, <2>3
<1>5. CASE StartRisk \/ StopRisk
  BY <1>1, <1>5, QuietStepIsSound DEF StartRisk, StopRisk
<1>6. ASSUME NEW which \in {"manual", "emergency"}, ActivateLock(which)
      PROVE  RiskStepIsSound
  BY <1>6, LockingIsSound
<1>7. CASE ClearManualLock
  BY <1>7, ClearingIsSound
<1>8. ASSUME NEW t \in RiskTimes, ResetRiskSession(DateOf(t))
      PROVE  RiskStepIsSound
  BY <1>8, DatesAreNumbers, ResettingIsSound DEF ResetRiskSession
<1>9. CASE ResetRisk
  <2>1. session.date \in Nat
    BY <1>1 DEF SessionState
  <2> QED BY <1>9, <2>1, ResettingIsSound DEF ResetRisk
<1>10. CASE UNCHANGED riskVars
  BY <1>1, <1>10, QuietStepIsSound DEF riskVars
<1> QED BY <1>2, <1>3, <1>4, <1>5, <1>6, <1>7, <1>8, <1>9, <1>10 DEF RiskNext

\* Whatever the engine approves is within the limits of the policy it was
\* approved under; opened once and as approved, it keeps the session within
\* them too; and nothing ends the emergency lock.
THEOREM RiskLimitsStayHeld == RiskSpec => RiskLimitsHold
<1>1. RiskInit => RiskIInv
  BY RiskStartsSound
<1>2. RiskIInv /\ [RiskNext]_riskVars => RiskIInv'
  BY RiskStepsAreSound DEF RiskStepIsSound
<1>3. RiskIInv => ApprovedWithinLimits
  BY DEF RiskIInv
<1>4. RiskIInv /\ [RiskNext]_riskVars => [OpeningIsWithinLimits]_riskVars
  BY RiskStepsAreSound DEF RiskStepIsSound
<1>5. RiskIInv /\ [RiskNext]_riskVars => [LockOutlasts]_riskVars
  BY RiskStepsAreSound DEF RiskStepIsSound
<1>6. [][OpeningIsWithinLimits]_riskVars => OpeningsWithinLimits
  BY PTL DEF OpeningIsWithinLimits, OpeningsWithinLimits
<1>7. [][LockOutlasts]_riskVars => EmergencyLockHolds
  BY PTL DEF LockOutlasts, EmergencyLockHolds
<1> QED BY <1>1, <1>2, <1>3, <1>4, <1>5, <1>6, <1>7, PTL DEF RiskSpec, RiskLimitsHold

-------------------------------------------------------------------------------
(* Reviews of the second generation: the rules *)

LEMMA RulesThatPassed ==
    ASSUME NEW i, NEW c, Fails(i, c) = {}
    PROVE  /\ StrategyRule(i) # "FAILED" /\ DailyLossRule(i, c) # "FAILED"
           /\ DrawdownRule(i, c) # "FAILED" /\ LossesRule(i, c) # "FAILED"
           /\ TradesRule(i, c) # "FAILED" /\ CapitalRule(i) # "FAILED"
           /\ InvalidationRule(i) # "FAILED" /\ QualityRule(i, c) # "FAILED"
<1>1. \A n \in 1 .. 14 : Evaluations(i, c)[n][1] # "FAILED"
  BY DEF Fails
<1>2. /\ Evaluations(i, c)[1][1] # "FAILED" /\ Evaluations(i, c)[2][1] # "FAILED"
      /\ Evaluations(i, c)[3][1] # "FAILED" /\ Evaluations(i, c)[4][1] # "FAILED"
      /\ Evaluations(i, c)[5][1] # "FAILED" /\ Evaluations(i, c)[6][1] # "FAILED"
      /\ Evaluations(i, c)[7][1] # "FAILED" /\ Evaluations(i, c)[14][1] # "FAILED"
  BY <1>1
<1> QED BY <1>2 DEF Evaluations

LEMMA QualityReduces ==
    ASSUME NEW i, NEW c, QualityRule(i, c) = "REDUCED"
    PROVE  Reduces(i, c)
<1>1. Evaluations(i, c)[14][1] = "REDUCED"
  BY DEF Evaluations
<1> QED BY <1>1 DEF Reduces

LEMMA BlockedAnswersAre ==
    ASSUME NEW i, NEW c, Fails(i, c) # {}
    PROVE  BlockedDecision(i) \in RiskDecisionV2 \ ApprovedDecisions /\ BlockedStatus(i, c) \in RiskStatus
<1>1. Blocking(i, c) \in 1 .. 14
  <2>1. Fails(i, c) \subseteq 1 .. 14
    BY DEF Fails
  <2>2. IsFiniteSet(1 .. 14)
    <3>1. 1 \in Int /\ 14 \in Int
      OBVIOUS
    <3> QED BY <3>1, FS_Interval
  <2>3. IsFiniteSet(Fails(i, c)) /\ Fails(i, c) \subseteq Int
    BY <2>1, <2>2, FS_Subset
  <2>4. HasLeast(Fails(i, c))
    BY <2>3, FiniteHasLeast
  <2> HIDE DEF Fails
  <2> QED BY <2>1, <2>4 DEF Blocking, HasLeast
<1>2. \A n \in 1 .. 14 : Evaluations(i, c)[n][2] \in RiskStatus
  BY DEF Evaluations, RiskStatus
<1> QED BY <1>1, <1>2 DEF BlockedDecision, BlockedStatus, RiskDecisionV2, ApprovedDecisions, RiskStatus

\* What an input that may be traded says of the day, the account and the side.
LEMMA UnblockedIsWithinTheDay ==
    ASSUME NEW i, ValidReviewInput(i), NEW c, ValidReviewPolicy(c), Fails(i, c) = {}
    PROVE  LET equity == CurrentEquity(i.account)
           IN  /\ i.account.available > 0 /\ equity > 0 /\ StopDistance(i) > 0
               /\ -DailyPnl(i.account) * Hundred < c.maxDailyLoss * i.account.dayStart
               /\ (i.account.peak - equity) * Hundred < c.maxDrawdown * i.account.peak
               /\ i.session.trades < c.maxTrades
               /\ c.blockAfterLosses => i.session.losses < c.maxLosses
               /\ i.strategy.direction \in {"LONG", "SHORT"} /\ i.strategy.eligible
               /\ i.strategy.review
               /\ i.strategy.quality = "LOW" => Reduces(i, c)
<1> DEFINE a == i.account
           equity == CurrentEquity(a)
<1>1. a \in Account /\ equity \in Int /\ DailyPnl(a) \in Int
  BY DEF ValidReviewInput, ValidAccountRisk, Account, CurrentEquity, DailyPnl
<1>2. a.available \in Nat /\ a.peak \in Positive /\ a.dayStart \in Positive
  BY <1>1 DEF Account
<1>3. a.available > 0 /\ equity > 0
  BY <1>1, <1>2, RulesThatPassed DEF CapitalRule
<1>4. StopDistance(i) \in Int /\ StopDistance(i) > 0
  <2>1. StopDistance(i) \in Int
    BY DEF ValidReviewInput, StopDistance, Positive
  <2> QED BY <2>1, RulesThatPassed DEF InvalidationRule
<1>5. c.maxDailyLoss \in 1 .. 100 /\ c.maxDrawdown \in 1 .. 100
  BY DEF ValidReviewPolicy, Hundred
<1>6. -DailyPnl(a) * Hundred < c.maxDailyLoss * a.dayStart
  <2> DEFINE pnl == DailyPnl(a)
             most == c.maxDailyLoss * a.dayStart
  <2>1. ~(pnl < 0 /\ -pnl * Hundred >= most)
    BY RulesThatPassed DEF DailyLossRule
  <2>2. most \in Int /\ most > 0
    BY <1>2, <1>5 DEF Positive
  <2> HIDE DEF pnl, most
  <2>3. pnl \in Int
    BY <1>1 DEF pnl
  <2>4. -pnl * Hundred < most
    BY <2>1, <2>2, <2>3 DEF Hundred
  <2> QED BY <2>4 DEF pnl, most
<1>7. (a.peak - equity) * Hundred < c.maxDrawdown * a.peak
  <2> DEFINE fall == a.peak - equity
             most == c.maxDrawdown * a.peak
  <2>1. ~(fall > 0 /\ fall * Hundred >= most)
    BY RulesThatPassed DEF DrawdownRule
  <2>2. most \in Int /\ most > 0
    BY <1>2, <1>5 DEF Positive
  <2>3. fall \in Int
    BY <1>1, <1>2 DEF Positive
  <2> HIDE DEF fall, most
  <2>4. fall * Hundred < most
    BY <2>1, <2>2, <2>3 DEF Hundred
  <2> QED BY <2>4 DEF fall, most
<1>8. i.session.trades < c.maxTrades /\ (c.blockAfterLosses => i.session.losses < c.maxLosses)
  <2>1. i.session.trades \in Nat /\ i.session.losses \in Nat /\ c.maxTrades \in Nat /\ c.maxLosses \in Nat
    BY DEF ValidReviewInput, ValidSession, ValidReviewPolicy, Positive
  <2> QED BY <2>1, RulesThatPassed DEF TradesRule, LossesRule
<1>9. i.strategy.eligible /\ i.strategy.review
  BY RulesThatPassed DEF StrategyRule
<1>10. i.strategy.direction \in {"LONG", "SHORT"}
  BY <1>9 DEF ValidReviewInput, ValidStrategy
<1>11. i.strategy.quality = "LOW" => Reduces(i, c)
  <2>1. ASSUME i.strategy.quality = "LOW"
        PROVE  QualityRule(i, c) = "REDUCED"
    BY <2>1, RulesThatPassed DEF QualityRule
  <2> QED BY <2>1, QualityReduces
<1> QED BY <1>3, <1>4, <1>6, <1>7, <1>8, <1>9, <1>10, <1>11

-------------------------------------------------------------------------------
(* Reviews of the second generation: the size *)

LEMMA SmallestIsSmallest ==
    ASSUME NEW S, S \subseteq Int, IsFiniteSet(S), S # {}
    PROVE  SmallestOf(S) \in S /\ \A y \in S : SmallestOf(S) <= y
BY FiniteHasLeast DEF HasLeast, SmallestOf

LEMMA SmallestOfThree ==
    ASSUME NEW a \in Int, NEW b \in Int, NEW c \in Int
    PROVE  LET least == SmallestOf({a, b, c})
           IN  least \in {a, b, c} /\ least <= a /\ least <= b /\ least <= c
<1>1. IsFiniteSet({a} \cup {b} \cup {c})
  BY FS_Singleton, FS_Union
<1>2. {a} \cup {b} \cup {c} = {a, b, c}
  OBVIOUS
<1> QED BY <1>1, <1>2, SmallestIsSmallest

LEMMA SmallestOfFive ==
    ASSUME NEW a \in Int, NEW b \in Int, NEW c \in Int, NEW d \in Int, NEW e \in Int
    PROVE  LET least == SmallestOf({a, b, c, d, e})
           IN  /\ least \in {a, b, c, d, e}
               /\ least <= a /\ least <= b /\ least <= c /\ least <= d /\ least <= e
<1>1. IsFiniteSet({a} \cup {b} \cup {c} \cup {d} \cup {e})
  BY FS_Singleton, FS_Union
<1>2. {a} \cup {b} \cup {c} \cup {d} \cup {e} = {a, b, c, d, e}
  OBVIOUS
<1>3. {a, b, c, d, e} \subseteq Int
  OBVIOUS
<1>4. SmallestOf({a, b, c, d, e}) \in {a, b, c, d, e}
      /\ \A y \in {a, b, c, d, e} : SmallestOf({a, b, c, d, e}) <= y
  BY <1>1, <1>2, <1>3, SmallestIsSmallest
<1> QED BY <1>4

LEMMA StepsRoundDown ==
    ASSUME NEW q \in Int, NEW step \in Positive
    PROVE  /\ WholeSteps(q, step) \in Int /\ WholeSteps(q, step) <= q
           /\ WholeSteps(WholeSteps(q, step), step) = WholeSteps(q, step)
           /\ q >= 0 => WholeSteps(q, step) >= 0
<1> DEFINE k == q \div step
<1>1. step \in Nat \ {0}
  BY DEF Positive
<1>2. k \in Int /\ k * step <= q
  BY <1>1, RoundedDown
<1>3. (k * step) \div step = k
  BY <1>1, <1>2, WholeMultiple
<1>4. q >= 0 => k >= 0
  BY <1>1
<1> HIDE DEF k
<1>5. k >= 0 => k * step >= 0
  BY <1>1, <1>2
<1>6. k * step \in Int
  BY <1>1, <1>2
<1> QED BY <1>2, <1>3, <1>4, <1>5, <1>6 DEF WholeSteps, k

LEMMA StepsAreMonotone ==
    ASSUME NEW q \in Int, NEW n \in Int, q <= n, NEW d \in Nat \ {0}, n \in Int,
           NEW most \in Int, n * d <= most
    PROVE  q * d <= most
OBVIOUS

\* The money of an input and what the rules and the sizes count in.
LEMMA AmountsOfReview ==
    ASSUME NEW i, ValidReviewInput(i), NEW c, ValidReviewPolicy(c)
    PROVE  /\ CurrentEquity(i.account) \in Nat /\ i.account.available \in Nat
           /\ i.account.exposure \in Nat /\ i.held \in Nat
           /\ StopDistance(i) \in Nat /\ UnitNotional(i) \in Positive
           /\ i.step \in Positive /\ RiskPerUnit(i) \in Nat
           /\ StopDistance(i) > 0 => RiskPerUnit(i) \in Positive
           /\ TotalLeft(i, c) \in Int /\ InstrumentLeft(i, c) \in Int
           /\ c.maxQuantity \in Positive /\ c.minQuantity \in Positive
           /\ Multiplier(i, c) \in 1 .. Hundred
           /\ {c.risk, c.maxRisk, c.maxTotal, c.maxInstrument} \subseteq 1 .. Hundred
<1>1. {i.entry, i.invalidation, i.step, i.multiplier} \subseteq Nat \ {0}
  BY DEF ValidReviewInput, Positive
<1>2. {c.risk, c.maxRisk, c.maxTotal, c.maxInstrument} \subseteq 1 .. 100
  BY DEF ValidReviewPolicy, Hundred
<1>3. i.account \in Account /\ CurrentEquity(i.account) >= 0
  BY DEF ValidReviewInput, ValidAccountRisk
<1>4. CurrentEquity(i.account) \in Nat /\ i.account.available \in Nat /\ i.account.exposure \in Nat
  BY <1>3 DEF Account, CurrentEquity
<1>5. i.held \in Nat
  BY DEF ValidReviewInput
<1>6. StopDistance(i) \in Nat
  BY <1>1 DEF StopDistance
<1>7. UnitNotional(i) \in Positive
  BY <1>1 DEF UnitNotional, Positive
<1>8. RiskPerUnit(i) \in Nat /\ (StopDistance(i) > 0 => RiskPerUnit(i) \in Positive)
  BY <1>1, <1>6 DEF RiskPerUnit, Positive
<1>9. TotalLeft(i, c) \in Int /\ InstrumentLeft(i, c) \in Int
  BY <1>2, <1>4, <1>5 DEF TotalLeft, InstrumentLeft, Hundred
<1>10. Multiplier(i, c) \in 1 .. Hundred
  BY DEF Multiplier, ValidReviewPolicy, Hundred
<1>11. c.maxQuantity \in Positive /\ c.minQuantity \in Positive
  BY DEF ValidReviewPolicy
<1> QED BY <1>1, <1>2, <1>4, <1>5, <1>6, <1>7, <1>8, <1>9, <1>10, <1>11 DEF Positive, Hundred

\* What is left of a limit covers the price of the capacity it gives.
LEMMA CapacityIsCovered ==
    ASSUME NEW i, UnitNotional(i) \in Positive, i.step \in Positive, NEW left \in Int
    PROVE  /\ Capacity(i, left) \in Nat
           /\ \A q \in Nat : q > 0 /\ q <= Capacity(i, left) => q * UnitNotional(i) * Hundred <= left
<1> DEFINE d == UnitNotional(i) * Hundred
           n == left \div d
<1>1. d \in Nat \ {0}
  BY DEF Positive, Hundred
<1>2. CASE left <= 0
  BY <1>2 DEF Capacity
<1>3. CASE ~(left <= 0)
  <2>1. n \in Int /\ n * d <= left /\ n >= 0
    <3> HIDE DEF d
    <3> QED BY <1>1, <1>3, RoundedDown
  <2>2. Capacity(i, left) = WholeSteps(n, i.step)
    BY <1>3 DEF Capacity
  <2> HIDE DEF n
  <2>3. Capacity(i, left) \in Nat /\ Capacity(i, left) <= n
    BY <2>1, <2>2, StepsRoundDown
  <2>4. ASSUME NEW q \in Nat, q <= Capacity(i, left)
        PROVE  q * UnitNotional(i) * Hundred <= left
    <3>1. q <= n
      BY <2>1, <2>3, <2>4
    <3>2. q * d <= left
      <4> HIDE DEF d
      <4> QED BY <1>1, <2>1, <3>1, StepsAreMonotone
    <3>3. UnitNotional(i) \in Nat
      BY DEF Positive
    <3>4. q * d = q * UnitNotional(i) * Hundred
      BY <3>3 DEF Hundred
    <3> QED BY <3>2, <3>4
  <2> QED BY <2>3, <2>4
<1> QED BY <1>2, <1>3

\* What may be risked covers the risk of the rounded quantity.
LEMMA BudgetIsCovered ==
    ASSUME NEW i, ValidReviewInput(i), NEW c, ValidReviewPolicy(c), StopDistance(i) > 0
    PROVE  LET budget == RiskBudget(i, c)
               equity == CurrentEquity(i.account)
           IN  /\ budget \in Nat
               /\ budget <= equity * c.risk * Multiplier(i, c)
               /\ budget <= equity * c.maxRisk * Hundred
               /\ budget <= i.account.available * Parts
               /\ RoundedQuantity(i, c) \in Nat
               /\ \A q \in Nat : q <= RoundedQuantity(i, c) => q * (RiskPerUnit(i) * Parts) <= budget
<1> DEFINE budget == RiskBudget(i, c)
           equity == CurrentEquity(i.account)
           A == equity * c.risk * Multiplier(i, c)
           B == equity * c.maxRisk * Hundred
           C == i.account.available * Parts
           d == RiskPerUnit(i) * Parts
           n == budget \div d
<1>1. /\ equity \in Nat /\ i.account.available \in Nat /\ Multiplier(i, c) \in 1 .. 100
      /\ c.risk \in 1 .. 100 /\ c.maxRisk \in 1 .. 100 /\ RiskPerUnit(i) \in Nat \ {0}
      /\ i.step \in Positive
  BY AmountsOfReview DEF Hundred, Positive
<1>2. A \in Nat
  <2>1. equity * c.risk \in Nat
    BY <1>1
  <2> QED BY <1>1, <2>1
<1>3. B \in Nat /\ C \in Nat
  BY <1>1 DEF Hundred, Parts
<1>4. d \in Nat \ {0}
  BY <1>1 DEF Hundred, Parts
<1>5. budget = SmallestOf({A, B, C})
  BY DEF RiskBudget
<1> HIDE DEF budget, A, B, C, d
<1>6. budget \in Nat /\ budget <= A /\ budget <= B /\ budget <= C
  <2>1. A \in Int /\ B \in Int /\ C \in Int
    BY <1>2, <1>3
  <2>2. /\ SmallestOf({A, B, C}) \in {A, B, C}
        /\ SmallestOf({A, B, C}) <= A /\ SmallestOf({A, B, C}) <= B /\ SmallestOf({A, B, C}) <= C
    BY <2>1, SmallestOfThree
  <2> QED BY <1>2, <1>3, <1>5, <2>2
<1>7. n \in Int /\ n * d <= budget /\ n >= 0
  BY <1>4, <1>6, RoundedDown
<1>8. RoundedQuantity(i, c) = WholeSteps(n, i.step)
  BY DEF RoundedQuantity, n, budget, d
<1> HIDE DEF n
<1>9. RoundedQuantity(i, c) \in Nat /\ RoundedQuantity(i, c) <= n
  BY <1>1, <1>7, <1>8, StepsRoundDown
<1>10. ASSUME NEW q \in Nat, q <= RoundedQuantity(i, c)
       PROVE  q * d <= budget
  <2>1. q <= n
    BY <1>7, <1>9, <1>10
  <2> QED BY <1>4, <1>6, <1>7, <2>1, StepsAreMonotone
<1> QED BY <1>6, <1>9, <1>10 DEF budget, A, B, C, d

LEMMA SizesAreWell ==
    ASSUME NEW i, ValidReviewInput(i), NEW c, ValidReviewPolicy(c), StopDistance(i) > 0
    PROVE  LET q == FinalQuantity(i, c)
           IN  /\ q \in Nat /\ WellSized(i, c)
               /\ q > 0 =>
                    /\ c.minQuantity <= q /\ q <= c.maxQuantity /\ q <= RoundedQuantity(i, c)
                    /\ q <= Capacity(i, TotalLeft(i, c)) /\ q <= Capacity(i, InstrumentLeft(i, c))
                    /\ q <= Capacity(i, i.account.available * Hundred)
<1> DEFINE rounded == RoundedQuantity(i, c)
           total == Capacity(i, TotalLeft(i, c))
           own == Capacity(i, InstrumentLeft(i, c))
           paid == Capacity(i, i.account.available * Hundred)
           capped == CappedQuantity(i, c)
           stepped == WholeSteps(capped, i.step)
           q == FinalQuantity(i, c)
<1>1. i.step \in Positive /\ c.maxQuantity \in Nat /\ c.minQuantity \in Nat \ {0}
  BY AmountsOfReview DEF Positive
<1>2. rounded \in Nat
  BY BudgetIsCovered
<1>3. total \in Nat /\ own \in Nat /\ paid \in Nat
  <2>1. UnitNotional(i) \in Positive /\ TotalLeft(i, c) \in Int /\ InstrumentLeft(i, c) \in Int
        /\ i.account.available * Hundred \in Int
    BY AmountsOfReview DEF Hundred
  <2> QED BY <1>1, <2>1, CapacityIsCovered
<1>4. capped = SmallestOf({rounded, c.maxQuantity, total, own, paid})
  BY DEF CappedQuantity
<1>5. q = IF stepped < c.minQuantity THEN 0 ELSE stepped
  BY DEF FinalQuantity
<1> HIDE DEF rounded, total, own, paid, capped, q
<1>6. /\ capped \in Nat /\ capped <= rounded /\ capped <= c.maxQuantity
      /\ capped <= total /\ capped <= own /\ capped <= paid
  <2>1. rounded \in Int /\ c.maxQuantity \in Int /\ total \in Int /\ own \in Int /\ paid \in Int
    BY <1>1, <1>2, <1>3
  <2>2. LET least == SmallestOf({rounded, c.maxQuantity, total, own, paid})
        IN  /\ least \in {rounded, c.maxQuantity, total, own, paid}
            /\ least <= rounded /\ least <= c.maxQuantity /\ least <= total /\ least <= own /\ least <= paid
    BY <2>1, SmallestOfFive
  <2> QED BY <1>1, <1>2, <1>3, <1>4, <2>2
<1>7. stepped \in Nat /\ stepped <= capped /\ WholeSteps(stepped, i.step) = stepped
  BY <1>1, <1>6, StepsRoundDown
<1>8. WholeSteps(0, i.step) = 0
  <2>1. i.step \in Nat \ {0}
    BY <1>1 DEF Positive
  <2> QED BY <2>1 DEF WholeSteps
<1> HIDE DEF stepped
<1>9. q \in Nat /\ q <= capped /\ WholeSteps(q, i.step) = q
  BY <1>5, <1>6, <1>7, <1>8
<1>10. WellSized(i, c)
  BY <1>2, <1>6, <1>9 DEF WellSized, rounded, capped, q
<1>11. q > 0 => c.minQuantity <= q
  BY <1>1, <1>5, <1>7
<1>12. /\ q <= c.maxQuantity /\ q <= rounded /\ q <= total /\ q <= own /\ q <= paid
  BY <1>1, <1>2, <1>3, <1>6, <1>9
<1> QED BY <1>9, <1>10, <1>11, <1>12 DEF rounded, total, own, paid, q

\* From amounts in hundredths and in Parts back to units of money.
LEMMA BackToUnits ==
    /\ \A x, y \in Int : x * Hundred <= y * Hundred => x <= y
    /\ \A x, y \in Int : x * Parts <= y * Parts => x <= y
    /\ \A x, y \in Int : x * Parts <= y * Hundred => x * Hundred <= y
BY DEF Hundred, Parts

LEMMA SizeIsCovered ==
    ASSUME NEW i, ValidReviewInput(i), NEW c, ValidReviewPolicy(c), StopDistance(i) > 0,
           FinalQuantity(i, c) > 0
    PROVE  LET q == FinalQuantity(i, c)
               equity == CurrentEquity(i.account)
               notional == q * UnitNotional(i)
               risk == q * RiskPerUnit(i)
           IN  /\ risk * Hundred <= equity * c.maxRisk
               /\ risk * Parts <= equity * c.risk * Multiplier(i, c)
               /\ risk <= i.account.available /\ notional <= i.account.available
               /\ (i.account.exposure + notional) * Hundred <= equity * c.maxTotal
               /\ (i.held + notional) * Hundred <= equity * c.maxInstrument
<1> DEFINE q == FinalQuantity(i, c)
           equity == CurrentEquity(i.account)
           notional == q * UnitNotional(i)
           risk == q * RiskPerUnit(i)
           A == equity * c.risk * Multiplier(i, c)
           most == equity * c.maxRisk
           available == i.account.available
           budget == RiskBudget(i, c)
<1>1. /\ equity \in Nat /\ available \in Nat /\ Multiplier(i, c) \in 1 .. 100
      /\ i.account.exposure \in Nat /\ i.held \in Nat
      /\ {c.risk, c.maxRisk, c.maxTotal, c.maxInstrument} \subseteq 1 .. 100
      /\ RiskPerUnit(i) \in Nat /\ UnitNotional(i) \in Nat /\ UnitNotional(i) \in Positive
      /\ i.step \in Positive /\ TotalLeft(i, c) \in Int /\ InstrumentLeft(i, c) \in Int
  BY AmountsOfReview DEF Hundred, Positive
<1>2. q \in Nat /\ q > 0 /\ q <= RoundedQuantity(i, c)
      /\ q <= Capacity(i, TotalLeft(i, c)) /\ q <= Capacity(i, InstrumentLeft(i, c))
      /\ q <= Capacity(i, available * Hundred)
  BY SizesAreWell
<1>3. /\ budget \in Nat /\ budget <= A /\ budget <= most * Hundred /\ budget <= available * Parts
      /\ q * (RiskPerUnit(i) * Parts) <= budget
  BY <1>2, BudgetIsCovered
<1>4. /\ notional * Hundred <= TotalLeft(i, c) /\ notional * Hundred <= InstrumentLeft(i, c)
      /\ notional * Hundred <= available * Hundred
  <2>1. available * Hundred \in Int
    BY <1>1 DEF Hundred
  <2> QED BY <1>1, <1>2, <2>1, CapacityIsCovered
<1>5. TotalLeft(i, c) = equity * c.maxTotal - i.account.exposure * Hundred
      /\ InstrumentLeft(i, c) = equity * c.maxInstrument - i.held * Hundred
  BY DEF TotalLeft, InstrumentLeft
<1>6. risk \in Nat /\ notional \in Nat /\ most \in Nat /\ A \in Nat
  <2>1. equity * c.risk \in Nat
    BY <1>1
  <2> QED BY <1>1, <1>2, <2>1
<1>7. q * (RiskPerUnit(i) * Parts) = risk * Parts
  BY <1>1, <1>2 DEF Parts, Hundred
<1> HIDE DEF q, notional, risk, A, most, budget, equity, available
<1>8. risk * Parts <= A /\ risk * Parts <= most * Hundred /\ risk * Parts <= available * Parts
  BY <1>1, <1>3, <1>6, <1>7 DEF Parts, Hundred
<1>9. risk * Hundred <= most /\ risk <= available /\ notional <= available
  BY <1>1, <1>4, <1>6, <1>8, BackToUnits
<1>10. (i.account.exposure + notional) * Hundred <= equity * c.maxTotal
  <2> DEFINE bound == equity * c.maxTotal
  <2>1. bound \in Int /\ notional * Hundred <= bound - i.account.exposure * Hundred
    BY <1>1, <1>4, <1>5
  <2> HIDE DEF bound
  <2>2. (i.account.exposure + notional) * Hundred <= bound
    BY <1>1, <1>6, <2>1 DEF Hundred
  <2> QED BY <2>2 DEF bound
<1>11. (i.held + notional) * Hundred <= equity * c.maxInstrument
  <2> DEFINE bound == equity * c.maxInstrument
  <2>1. bound \in Int /\ notional * Hundred <= bound - i.held * Hundred
    BY <1>1, <1>4, <1>5
  <2> HIDE DEF bound
  <2>2. (i.held + notional) * Hundred <= bound
    BY <1>1, <1>6, <2>1 DEF Hundred
  <2> QED BY <2>2 DEF bound
<1> QED BY <1>8, <1>9, <1>10, <1>11 DEF q, notional, risk, A, most, equity, available

-------------------------------------------------------------------------------
(* Reviews of the second generation: the answers and their history *)

SaidOf(i, said, status, q) ==
    [input |-> i, decision |-> said, status |-> status, quantity |-> q,
     risk |-> q * RiskPerUnit(i), eligible |-> q > 0 /\ i.strategy.review]

\* An answer either approves the quantity of an input that nothing blocks, or has none.
LEMMA AnswersAre ==
    ASSUME NEW i, ValidReviewInput(i), NEW c, ValidReviewPolicy(c), StopDistance(i) > 0
    PROVE  LET a == AnswerTo(i, c)
               q == FinalQuantity(i, c)
           IN  \/ /\ Fails(i, c) = {} /\ q > 0
                  /\ \E said \in ApprovedDecisions, status \in RiskStatus : a = SaidOf(i, said, status, q)
               \/ \E said \in RiskDecisionV2 \ ApprovedDecisions, status \in RiskStatus :
                     a = SaidOf(i, said, status, 0)
<1> DEFINE a == AnswerTo(i, c)
           q == FinalQuantity(i, c)
           fails == Fails(i, c) # {}
           reduced == q < RoundedQuantity(i, c) \/ Reduces(i, c)
<1>1. a = CASE fails -> SaidOf(i, BlockedDecision(i), BlockedStatus(i, c), 0)
            [] ~fails /\ q = 0 -> SaidOf(i, "REJECTED", "CAPITAL", 0)
            [] ~fails /\ q > 0 /\ reduced -> SaidOf(i, "APPROVED_REDUCED", "REDUCED", q)
            [] OTHER -> SaidOf(i, "APPROVED", "READY", q)
  BY DEF AnswerTo, SaidOf
<1>2. q \in Nat
  BY SizesAreWell
<1>3. {"REJECTED"} \subseteq RiskDecisionV2 \ ApprovedDecisions
      /\ {"APPROVED", "APPROVED_REDUCED"} \subseteq ApprovedDecisions
      /\ {"CAPITAL", "REDUCED", "READY"} \subseteq RiskStatus
  BY DEF RiskDecisionV2, ApprovedDecisions, RiskStatus
<1>4. fails => /\ BlockedDecision(i) \in RiskDecisionV2 \ ApprovedDecisions
               /\ BlockedStatus(i, c) \in RiskStatus
  BY BlockedAnswersAre
<1> HIDE DEF a, q, reduced
<1>5. CASE fails
  <2>1. a = SaidOf(i, BlockedDecision(i), BlockedStatus(i, c), 0)
    BY <1>1, <1>5
  <2> QED BY <2>1, <1>4, <1>5 DEF a
<1>6. CASE ~fails /\ q = 0
  <2>1. a = SaidOf(i, "REJECTED", "CAPITAL", 0)
    BY <1>1, <1>6
  <2> QED BY <2>1, <1>3 DEF a
<1>7. CASE ~fails /\ q > 0 /\ reduced
  <2>1. a = SaidOf(i, "APPROVED_REDUCED", "REDUCED", q)
    BY <1>1, <1>2, <1>7
  <2> QED BY <2>1, <1>3, <1>7 DEF a, q
<1>8. CASE ~fails /\ q > 0 /\ ~reduced
  <2>1. a = SaidOf(i, "APPROVED", "READY", q)
    BY <1>1, <1>2, <1>8
  <2> QED BY <2>1, <1>3, <1>8 DEF a, q
<1> QED BY <1>2, <1>5, <1>6, <1>7, <1>8

LEMMA ChangeIsOfFields ==
    ASSUME NEW r, NEW s, NEW before, r.decision = s.decision, r.quantity = s.quantity, r.risk = s.risk
    PROVE  Change(r, before) = Change(s, before)
BY DEF Change

LEMMA ChangesAre ==
    ASSUME NEW r, NEW before
    PROVE  Change(r, before) \in RiskDecisionChange
BY DEF Change, RiskDecisionChange

LEMMA ReviewIsAnswered ==
    ASSUME NEW i \in ReviewInputs, ~Raises(i), NEW before
    PROVE  LET new == Changed(AnswerTo(i, ReviewPolicy), before)
           IN  /\ new \in ReviewSnapshots /\ new.input = i
               /\ WellFormed(new) /\ WithinLimits(new)
               /\ new.change = Change(new, before)
<1> DEFINE c == ReviewPolicy
           a == AnswerTo(i, c)
           new == Changed(a, before)
           size == FinalQuantity(i, c)
<1>1. ValidReviewInput(i) /\ ValidReviewPolicy(c)
  BY ReviewAssumption
<1>2. StopDistance(i) > 0 /\ RiskPerUnit(i) \in Nat
  <2>1. StopDistance(i) \in Nat /\ StopDistance(i) # 0 /\ RiskPerUnit(i) \in Nat
    BY <1>1, AmountsOfReview DEF Raises
  <2> QED BY <2>1
<1>3. /\ new.input = a.input /\ new.decision = a.decision /\ new.status = a.status
      /\ new.quantity = a.quantity /\ new.risk = a.risk /\ new.eligible = a.eligible
      /\ new.change = Change(a, before)
      /\ new = [input |-> a.input, decision |-> a.decision, status |-> a.status, quantity |-> a.quantity,
                risk |-> a.risk, eligible |-> a.eligible, change |-> Change(a, before)]
  BY DEF Changed
<1>4. i.strategy.review \in BOOLEAN
  BY <1>1 DEF ValidReviewInput, ValidStrategy, Strategy
<1>5. ASSUME NEW q \in Nat, NEW said \in RiskDecisionV2, NEW status \in RiskStatus,
             a = SaidOf(i, said, status, q)
      PROVE  /\ new \in ReviewSnapshots /\ new.input = i /\ new.decision = said
             /\ new.quantity = q /\ new.risk = q * RiskPerUnit(i)
             /\ new.eligible => q > 0
  <2>1. /\ a.input = i /\ a.decision = said /\ a.status = status /\ a.quantity = q
        /\ a.risk = q * RiskPerUnit(i) /\ a.eligible = (q > 0 /\ i.strategy.review)
    BY <1>5 DEF SaidOf
  <2>2. q * RiskPerUnit(i) \in Nat
    BY <1>2
  <2>3. a.eligible \in BOOLEAN /\ (a.eligible => q > 0)
    BY <1>4, <2>1
  <2>4. Change(a, before) \in RiskDecisionChange
    BY ChangesAre
  <2> HIDE DEF a, new
  <2> QED BY <1>3, <2>1, <2>2, <2>3, <2>4 DEF ReviewSnapshots
<1>6. new.change = Change(new, before)
  BY <1>3, ChangeIsOfFields
<1>7. ApprovedDecisions \subseteq RiskDecisionV2
  BY DEF RiskDecisionV2
<1> HIDE DEF c, a, new, size
<1>8. CASE \E said \in RiskDecisionV2 \ ApprovedDecisions, status \in RiskStatus :
              a = SaidOf(i, said, status, 0)
  <2>1. /\ new \in ReviewSnapshots /\ new.input = i /\ new.decision \notin ApprovedDecisions
        /\ new.quantity = 0 /\ ~new.eligible
    BY <1>5, <1>8
  <2> QED BY <1>6, <2>1 DEF WellFormed, WithinLimits, new, a, c
<1>9. CASE /\ Fails(i, c) = {} /\ size > 0
           /\ \E said \in ApprovedDecisions, status \in RiskStatus : a = SaidOf(i, said, status, size)
  <2>1. size \in Nat /\ WellSized(i, c) /\ size = WholeSteps(size, i.step)
        /\ c.minQuantity <= size /\ size <= c.maxQuantity
    BY <1>1, <1>2, <1>9, SizesAreWell DEF WellSized, size
  <2>2. /\ new \in ReviewSnapshots /\ new.input = i /\ new.decision \in ApprovedDecisions
        /\ new.quantity = size /\ new.risk = size * RiskPerUnit(i)
    BY <1>5, <1>7, <1>9, <2>1
  <2>3. WellFormed(new)
    BY <1>9, <2>1, <2>2 DEF WellFormed, c
  <2> DEFINE equity == CurrentEquity(i.account)
             notional == size * UnitNotional(i)
  <2>4. /\ new.risk * Hundred <= equity * c.maxRisk
        /\ new.risk * Parts <= equity * c.risk * Multiplier(i, c)
        /\ new.risk <= i.account.available /\ notional <= i.account.available
        /\ (i.account.exposure + notional) * Hundred <= equity * c.maxTotal
        /\ (i.held + notional) * Hundred <= equity * c.maxInstrument
    BY <1>1, <1>2, <1>9, <2>2, SizeIsCovered DEF size
  <2>5. /\ -DailyPnl(i.account) * Hundred < c.maxDailyLoss * i.account.dayStart
        /\ (i.account.peak - equity) * Hundred < c.maxDrawdown * i.account.peak
        /\ i.session.trades < c.maxTrades
        /\ c.blockAfterLosses => i.session.losses < c.maxLosses
        /\ i.strategy.direction \in {"LONG", "SHORT"} /\ i.strategy.eligible
        /\ i.strategy.quality = "LOW" => Reduces(i, c)
    BY <1>1, <1>9, UnblockedIsWithinTheDay
  <2>6. i.strategy.quality = "LOW" => new.risk * Parts <= equity * c.risk * c.reducedSize
    BY <2>4, <2>5 DEF Multiplier
  <2>7. WithinLimits(new)
    BY <2>1, <2>2, <2>4, <2>5, <2>6 DEF WithinLimits, c
  <2> QED BY <1>6, <2>2, <2>3, <2>7 DEF new, a, c
<1> QED BY <1>1, <1>2, <1>8, <1>9, AnswersAre DEF a, c, size

\* l is what comes after the first k of s.
EndAfter(l, s, k) == Len(l) = Len(s) - k /\ \A n \in 1 .. Len(l) : l[n] = s[n + k]

LEMMA LatestIsTheEnd ==
    ASSUME NEW S, NEW s \in Seq(S), NEW limit \in Nat \ {0}
    PROVE  LET l == Latest(s, limit)
           IN  /\ l \in Seq(S) /\ Len(l) <= limit
               /\ \E k \in Nat : EndAfter(l, s, k)
               /\ Len(s) > 0 => Len(l) > 0
<1>1. Len(s) \in Nat
  BY LenProperties
<1>2. CASE Len(s) <= limit
  <2>1. Latest(s, limit) = s
    BY <1>2 DEF Latest
  <2>2. 0 \in Nat /\ EndAfter(s, s, 0)
    BY <1>1 DEF EndAfter
  <2> QED BY <1>2, <2>1, <2>2
<1>3. CASE ~(Len(s) <= limit)
  <2> DEFINE k == Len(s) - limit
             m == Len(s) - limit + 1
             l == SubSeq(s, m, Len(s))
  <2>1. Latest(s, limit) = l
    BY <1>3 DEF Latest
  <2>2. m \in Int /\ Len(s) \in Int /\ k \in Nat /\ m = k + 1
    BY <1>1, <1>3
  <2>3. \A n \in m .. Len(s) : s[n] \in S
    BY <2>2, ElementOfSeq
  <2> HIDE DEF m
  <2>4. /\ l \in Seq(S) /\ Len(l) = IF m <= Len(s) THEN Len(s) - m + 1 ELSE 0
        /\ \A n \in 1 .. Len(s) - m + 1 : l[n] = s[m + n - 1]
    BY <2>2, <2>3, SubSeqProperties
  <2>5. Len(l) = limit
    BY <1>1, <2>2, <2>4
  <2>6. \A n \in 1 .. Len(l) : l[n] = s[n + k]
    <3> TAKE n \in 1 .. Len(l)
    <3>1. m + n - 1 = n + k /\ Len(s) - m + 1 = limit
      BY <1>1, <2>2
    <3> HIDE DEF l, k
    <3> QED BY <2>4, <2>5, <3>1
  <2>7. Len(l) = Len(s) - k
    BY <1>1, <2>5
  <2> HIDE DEF l, k
  <2>8. EndAfter(l, s, k)
    BY <2>6, <2>7 DEF EndAfter
  <2> QED BY <2>1, <2>2, <2>4, <2>5, <2>8
<1> QED BY <1>2, <1>3

ReviewIInv ==
    /\ reviews \in Seq(ReviewSnapshots)
    /\ review \in ReviewSnapshots \cup {None}
    /\ reviewInput \in ReviewInputs \cup {None}
    /\ Len(reviews) > 1 => reviews[Len(reviews) - 1] = previousReview
    /\ RiskReviewIsSound

\* What the answer to an input is appended to: the answers of earlier times, the last
\* of which is the one it is compared with.
LEMMA KeptIsEarlier ==
    ASSUME ReviewIInv, NEW i \in ReviewInputs, Process(i)
    PROVE  LET again  == reviewInput # None /\ i.strategy.at = reviewInput.strategy.at
               before == IF again THEN previousReview ELSE review
               kept   == IF again THEN Front(reviews) ELSE reviews
           IN  /\ kept \in Seq(ReviewSnapshots) /\ Len(kept) <= Len(reviews)
               /\ \A n \in 1 .. Len(kept) : kept[n] = reviews[n]
               /\ Len(kept) > 0 => /\ kept[Len(kept)] = before
                                   /\ kept[Len(kept)].input.strategy.at < i.strategy.at
<1> DEFINE again  == reviewInput # None /\ i.strategy.at = reviewInput.strategy.at
           before == IF again THEN previousReview ELSE review
           kept   == IF again THEN Front(reviews) ELSE reviews
           len    == Len(reviews)
<1>1. /\ reviews \in Seq(ReviewSnapshots) /\ len \in Nat
      /\ \A n \in 1 .. len : reviews[n] \in ReviewSnapshots
  BY LenProperties, ElementOfSeq DEF ReviewIInv
<1>2. reviewInput # None => i.strategy.at >= reviewInput.strategy.at
  BY DEF Process
<1>3. \A j \in ReviewInputs : j.strategy.at \in Nat
  BY ReviewAssumption DEF ValidReviewInput, ValidStrategy, Strategy
<1>4. \A r \in ReviewSnapshots : r.input \in ReviewInputs
  BY DEF ReviewSnapshots
<1>5. /\ review = None => reviews = <<>> /\ reviewInput = None
      /\ review # None => reviews # <<>> /\ reviews[len] = review /\ review.input = reviewInput
      /\ \A n \in 1 .. len - 1 : reviews[n].input.strategy.at < reviews[n + 1].input.strategy.at
      /\ len > 1 => reviews[len - 1] = previousReview
  BY DEF ReviewIInv, RiskReviewIsSound, HistoryIsInOrder
<1>6. reviewInput = None => review = None
  BY <1>4, <1>5, NoReview DEF ReviewIInv
<1>7. CASE again
  <2>1. review # None /\ reviewInput \in ReviewInputs
    BY <1>5, <1>7 DEF ReviewIInv
  <2>2. len > 0 /\ reviews[len] = review /\ review.input = reviewInput
    BY <1>1, <1>5, <2>1, EmptySeq
  <2>3. kept = SubSeq(reviews, 1, len - 1) /\ before = previousReview
    BY <1>7 DEF Front
  <2>4. /\ kept \in Seq(ReviewSnapshots) /\ Len(kept) = len - 1
        /\ \A n \in 1 .. len - 1 : kept[n] = reviews[n]
    <3>1. 1 \in Int /\ len - 1 \in Int /\ \A n \in 1 .. len - 1 : reviews[n] \in ReviewSnapshots
      BY <1>1
    <3>2. /\ SubSeq(reviews, 1, len - 1) \in Seq(ReviewSnapshots)
          /\ Len(SubSeq(reviews, 1, len - 1)) = IF 1 <= len - 1 THEN (len - 1) - 1 + 1 ELSE 0
          /\ \A n \in 1 .. (len - 1) - 1 + 1 : SubSeq(reviews, 1, len - 1)[n] = reviews[1 + n - 1]
      BY <3>1, SubSeqProperties
    <3>3. (IF 1 <= len - 1 THEN (len - 1) - 1 + 1 ELSE 0) = len - 1 /\ (len - 1) - 1 + 1 = len - 1
      BY <1>1, <2>2
    <3>4. \A n \in 1 .. len - 1 : 1 + n - 1 = n
      BY <1>1
    <3> HIDE DEF kept, len
    <3> QED BY <2>3, <3>2, <3>3, <3>4
  <2>5. ASSUME Len(kept) > 0
        PROVE  kept[Len(kept)] = before /\ kept[Len(kept)].input.strategy.at < i.strategy.at
    <3>1. len - 1 \in 1 .. len - 1 /\ len > 1
      BY <1>1, <2>4, <2>5
    <3>2. kept[Len(kept)] = reviews[len - 1]
      BY <2>4, <3>1
    <3>3. reviews[len - 1].input.strategy.at < reviews[(len - 1) + 1].input.strategy.at
      BY <1>5, <3>1
    <3>4. (len - 1) + 1 = len
      BY <1>1
    <3> QED BY <1>5, <1>7, <2>2, <2>3, <3>1, <3>2, <3>3, <3>4
  <2>6. Len(kept) <= len
    BY <1>1, <2>4
  <2>7. \A n \in 1 .. Len(kept) : kept[n] = reviews[n]
    BY <2>4
  <2> QED BY <2>4, <2>5, <2>6, <2>7
<1>8. CASE ~again
  <2>1. kept = reviews /\ before = review
    BY <1>8
  <2>2. ASSUME len > 0
        PROVE  reviews[len] = review /\ reviews[len].input.strategy.at < i.strategy.at
    <3>1. review # None
      BY <1>5, <2>2, EmptySeq
    <3>2. reviewInput \in ReviewInputs
      BY <1>6, <3>1 DEF ReviewIInv
    <3>3. i.strategy.at > reviewInput.strategy.at
      BY <1>2, <1>3, <1>8, <3>2, NoReview
    <3> QED BY <1>3, <1>5, <3>1, <3>2, <3>3
  <2>3. Len(kept) <= len
    BY <1>1, <2>1
  <2> QED BY <1>1, <2>1, <2>2, <2>3
<1> QED BY <1>7, <1>8

LEMMA AnsweringIsSound ==
    ASSUME ReviewIInv, NEW i \in ReviewInputs, Process(i)
    PROVE  ReviewIInv'
<1> DEFINE again  == reviewInput # None /\ i.strategy.at = reviewInput.strategy.at
           before == IF again THEN previousReview ELSE review
           kept   == IF again THEN Front(reviews) ELSE reviews
           new    == Changed(AnswerTo(i, ReviewPolicy), before)
           s      == Append(kept, new)
           limit  == ReviewPolicy.historyLimit
           sound(r) == WellFormed(r) /\ WithinLimits(r)
           len    == Len(kept)
<1>1. /\ ~Raises(i) /\ review' = new /\ previousReview' = before /\ reviewInput' = i
      /\ reviews' = Latest(s, limit)
  BY DEF Process
<1>2. new \in ReviewSnapshots /\ new.input = i /\ sound(new) /\ new.change = Change(new, before)
  BY <1>1, ReviewIsAnswered
<1>3. limit \in Nat \ {0}
  BY ReviewAssumption DEF ValidReviewPolicy, Positive
<1>4. /\ kept \in Seq(ReviewSnapshots) /\ Len(kept) <= Len(reviews)
      /\ \A n \in 1 .. Len(kept) : kept[n] = reviews[n]
      /\ Len(kept) > 0 => kept[Len(kept)] = before /\ kept[Len(kept)].input.strategy.at < i.strategy.at
  BY KeptIsEarlier
<1>5. /\ \A n \in 1 .. Len(reviews) : sound(reviews[n])
      /\ \A n \in 1 .. Len(reviews) - 1 :
           /\ reviews[n].input.strategy.at < reviews[n + 1].input.strategy.at
           /\ reviews[n + 1].change = Change(reviews[n + 1], reviews[n])
      /\ Len(reviews) \in Nat
  BY LenProperties DEF ReviewIInv, RiskReviewIsSound, HistoryIsInOrder
<1>6. new # None
  BY <1>2, NoReview
<1> HIDE DEF before, kept, new, limit, sound
<1>7. /\ s \in Seq(ReviewSnapshots) /\ Len(s) = len + 1 /\ s[len + 1] = new /\ len \in Nat
      /\ \A n \in 1 .. len : s[n] = kept[n]
  BY <1>2, <1>4, LenProperties
<1> HIDE DEF s
<1>8. \A n \in 1 .. len : sound(s[n]) /\ s[n] = reviews[n]
  BY <1>4, <1>5, <1>7
<1>9. \A n \in 1 .. len + 1 : sound(s[n])
  BY <1>2, <1>7, <1>8
<1>10. len > 0 => s[len] = before
  BY <1>4, <1>7
<1>11. ASSUME NEW n \in 1 .. len
       PROVE  /\ s[n].input.strategy.at < s[n + 1].input.strategy.at
              /\ s[n + 1].change = Change(s[n + 1], s[n])
  <2>1. CASE n = len
    <3>1. s[n] = before /\ s[n + 1] = new /\ s[n].input.strategy.at < i.strategy.at
      BY <1>4, <1>7, <1>10, <2>1
    <3> QED BY <1>2, <3>1
  <2>2. CASE n # len
    <3>1. n \in 1 .. Len(reviews) - 1 /\ n + 1 \in 1 .. len
      BY <1>4, <1>5, <1>7, <2>2
    <3>2. s[n] = reviews[n] /\ s[n + 1] = reviews[n + 1]
      BY <1>8, <3>1
    <3> QED BY <1>5, <3>1, <3>2
  <2> QED BY <2>1, <2>2
<1> DEFINE l == Latest(s, limit)
<1>12. l \in Seq(ReviewSnapshots) /\ Len(l) <= limit /\ Len(l) > 0
  <2>1. Len(s) > 0
    BY <1>7
  <2> QED BY <1>3, <1>7, <2>1, LatestIsTheEnd
<1>13. PICK k \in Nat : Len(l) = Len(s) - k /\ \A n \in 1 .. Len(l) : l[n] = s[n + k]
  <2>1. \E k \in Nat : EndAfter(l, s, k)
    BY <1>3, <1>7, LatestIsTheEnd
  <2> HIDE DEF l
  <2> QED BY <2>1 DEF EndAfter
<1> HIDE DEF l
<1>14. Len(l) \in Nat /\ Len(l) = len + 1 - k
  BY <1>7, <1>12, <1>13, LenProperties
<1>15. l[Len(l)] = new
  <2>1. Len(l) \in 1 .. Len(l) /\ Len(l) + k = len + 1
    BY <1>7, <1>12, <1>14
  <2> QED BY <1>7, <1>13, <2>1
<1>16. Len(l) > 1 => l[Len(l) - 1] = before
  <2> HAVE Len(l) > 1
  <2>1. Len(l) - 1 \in 1 .. Len(l) /\ (Len(l) - 1) + k = len /\ len > 0
    BY <1>7, <1>14
  <2> QED BY <1>10, <1>13, <2>1
<1>17. \A n \in 1 .. Len(l) : sound(l[n])
  <2> TAKE n \in 1 .. Len(l)
  <2>1. n + k \in 1 .. len + 1
    BY <1>7, <1>14
  <2> QED BY <1>9, <1>13, <2>1
<1>18. ASSUME NEW n \in 1 .. Len(l) - 1
       PROVE  /\ l[n].input.strategy.at < l[n + 1].input.strategy.at
              /\ l[n + 1].change = Change(l[n + 1], l[n])
  <2>1. n + k \in 1 .. len /\ n \in 1 .. Len(l) /\ n + 1 \in 1 .. Len(l) /\ (n + 1) + k = (n + k) + 1
    BY <1>7, <1>14
  <2>2. l[n] = s[n + k] /\ l[n + 1] = s[(n + k) + 1]
    BY <1>13, <2>1
  <2> QED BY <1>11, <2>1, <2>2
<1>19. reviews' = l /\ DOMAIN l = 1 .. Len(l) /\ l # <<>>
  <2>1. DOMAIN l = 1 .. Len(l)
    BY <1>12, LenProperties
  <2>2. l # <<>>
    BY <1>12, EmptySeq
  <2> QED BY <1>1, <2>1, <2>2 DEF l
<1>20. HistoryIsInOrder'
  BY <1>1, <1>2, <1>6, <1>12, <1>15, <1>18, <1>19 DEF HistoryIsInOrder, limit
<1>21. RiskReviewIsSound'
  BY <1>17, <1>19, <1>20 DEF RiskReviewIsSound, sound
<1> QED BY <1>1, <1>2, <1>12, <1>16, <1>19, <1>21 DEF ReviewIInv

\* Whatever strategies, accounts, sessions and corrections the engine reviews, in whichever
\* order, under whichever configuration: what it approves is within every limit there is,
\* and its history is one of distinct times, each telling what changed.
THEOREM ReviewsStaySound == ReviewSpec => []RiskReviewIsSound
<1>1. ReviewInit => ReviewIInv
  <2>1. ReviewPolicy.historyLimit \in Nat
    BY ReviewAssumption DEF ValidReviewPolicy, Positive
  <2>2. <<>> \in Seq(ReviewSnapshots) /\ Len(<<>>) = 0 /\ DOMAIN <<>> = {}
    BY EmptySeq
  <2> QED BY <2>1, <2>2 DEF ReviewInit, ReviewIInv, RiskReviewIsSound, HistoryIsInOrder
<1>2. ReviewIInv /\ [ReviewNext]_reviewVars => ReviewIInv'
  <2> SUFFICES ASSUME ReviewIInv, [ReviewNext]_reviewVars
               PROVE  ReviewIInv'
    OBVIOUS
  <2>1. ASSUME NEW i \in ReviewInputs, Process(i)
        PROVE  ReviewIInv'
    BY <2>1, AnsweringIsSound
  <2>2. CASE ResetReviews
    <3>1. ReviewPolicy.historyLimit \in Nat
      BY ReviewAssumption DEF ValidReviewPolicy, Positive
    <3>2. <<>> \in Seq(ReviewSnapshots) /\ Len(<<>>) = 0 /\ DOMAIN <<>> = {}
      BY EmptySeq
    <3> QED BY <2>2, <3>1, <3>2 DEF ResetReviews, ReviewIInv, RiskReviewIsSound, HistoryIsInOrder
  <2>3. CASE UNCHANGED reviewVars
    BY <2>3 DEF reviewVars, ReviewIInv, RiskReviewIsSound, HistoryIsInOrder, WellFormed, WithinLimits
  <2> QED BY <2>1, <2>2, <2>3 DEF ReviewNext
<1>3. ReviewIInv => RiskReviewIsSound
  BY DEF ReviewIInv
<1> QED BY <1>1, <1>2, <1>3, PTL DEF ReviewSpec

-------------------------------------------------------------------------------
(* The trade plans *)

LEMMA FirstPositiveIsLevel ==
    ASSUME NEW levels \in Seq(Level)
    PROVE  FirstPositive(levels) # None => FirstPositive(levels) \in Nat \ {0}
<1> DEFINE known == {i \in DOMAIN levels : levels[i] # None}
           first == CHOOSE i \in known : \A j \in known : i <= j
<1>1. CASE known = {}
  BY <1>1 DEF FirstPositive
<1>2. CASE known # {}
  <2>1. Len(levels) \in Nat /\ DOMAIN levels = 1 .. Len(levels)
        /\ \A i \in DOMAIN levels : levels[i] \in Level
    BY LenProperties, ElementOfSeq
  <2>2. known \subseteq 1 .. Len(levels) /\ known \subseteq Int
    BY <2>1
  <2>3. IsFiniteSet(known)
    <3>1. 1 \in Int /\ Len(levels) \in Int
      BY <2>1
    <3>2. IsFiniteSet(1 .. Len(levels))
      BY <3>1, FS_Interval
    <3> QED BY <2>2, <3>2, FS_Subset
  <2>4. first \in known
    <3> HIDE DEF known
    <3> QED BY <1>2, <2>2, <2>3, FiniteHasLeast DEF HasLeast
  <2>5. FirstPositive(levels) = levels[first]
    BY <1>2 DEF FirstPositive
  <2> QED BY <2>1, <2>4, <2>5 DEF Level
<1> QED BY <1>1, <1>2

LEMMA LevelsAreLevels ==
    ASSUME NEW s, NEW e \in TradeEvidence
    PROVE  LET l == Levels(s, e)
           IN  /\ l.entry # None => l.entry \in Nat \ {0}
               /\ l.stop # None => l.stop \in Nat \ {0}
<1>1. e.price \in Level /\ e.lows \in Seq(Level) /\ e.highs \in Seq(Level)
  BY EvidenceIsRead
<1>2. Levels(s, e).entry = e.price
  BY DEF Levels
<1>3. Levels(s, e).stop \in {FirstPositive(e.lows), FirstPositive(e.highs), None}
  BY DEF Levels
<1> QED BY <1>1, <1>2, <1>3, FirstPositiveIsLevel DEF Level

\* A level failure aside, the distance to the stop is one.
LEMMA DistanceIsPositive ==
    ASSUME NEW s, NEW e \in TradeEvidence, LevelFailure(s, Levels(s, e)) = "NONE"
    PROVE  Distances(s.direction, Levels(s, e)).risk \in Nat \ {0}
<1> DEFINE l == Levels(s, e)
           g == Distances(s.direction, l)
<1> SUFFICES g.risk \in Nat \ {0}
  OBVIOUS
<1>1. l.entry # None /\ l.stop # None /\ l.target # None /\ g # None
  BY DEF LevelFailure
<1>2. l.entry \in Nat \ {0} /\ l.stop \in Nat \ {0}
  BY <1>1, LevelsAreLevels
<1> HIDE DEF l
<1> DEFINE bull == s.direction = "bullish" /\ l.stop < l.entry /\ l.entry < l.target
           bear == s.direction = "bearish" /\ l.target < l.entry /\ l.entry < l.stop
<1>3. g = CASE bull -> [risk |-> l.entry - l.stop, reward |-> l.target - l.entry]
            [] bear -> [risk |-> l.stop - l.entry, reward |-> l.entry - l.target]
            [] OTHER -> None
  BY DEF Distances
<1>6. g # None
  BY <1>1
<1> HIDE DEF g
<1>4. CASE bull
  <2>1. g = [risk |-> l.entry - l.stop, reward |-> l.target - l.entry]
    BY <1>3, <1>4
  <2>2. g.risk = l.entry - l.stop
    BY <2>1
  <2>3. l.entry - l.stop \in Nat \ {0}
    BY <1>2, <1>4
  <2> QED BY <2>2, <2>3
<1>5. CASE bear
  <2>1. g = [risk |-> l.stop - l.entry, reward |-> l.entry - l.target]
    BY <1>3, <1>5
  <2>2. g.risk = l.stop - l.entry
    BY <2>1
  <2>3. l.stop - l.entry \in Nat \ {0}
    BY <1>2, <1>5
  <2> QED BY <2>2, <2>3
<1> QED BY <1>3, <1>4, <1>5, <1>6

LEMMA ProductsAreWhole == \A a, b \in Int : a * b \in Int
OBVIOUS

LEMMA PlanIsWithinBudget ==
    ASSUME NEW g, g.risk \in Nat \ {0}, NEW day, SizeFailure(g, day) = "NONE"
    PROVE  LET quantity == ApprovedLots(g) * Configuration.lotSize
           IN  quantity * g.risk <= Budget /\ quantity % Configuration.lotSize = 0
<1> DEFINE lot == Configuration.lotSize
           percent == (Configuration.capital * Configuration.riskPercent) \div 100
           units == Budget \div g.risk
           byBudget == units \div lot
           lots == ApprovedLots(g)
<1>1. Configuration.capital # None /\ lot # None
  BY DEF SizeFailure
<1>2. lot \in Nat \ {0}
  BY <1>1, ConfigurationIsValid DEF ValidConfiguration
<1>3. Configuration.maxLots \in Nat
  BY ConfigurationIsValid DEF ValidConfiguration
<1>4. Budget \in Int
  <2>1. Configuration.capital \in Nat \ {0}
    BY <1>1, ConfigurationIsValid DEF ValidConfiguration
  <2>2. Configuration.riskPercent \in 1 .. 100
    BY ConfigurationIsValid DEF ValidConfiguration
  <2>3. Configuration.capital * Configuration.riskPercent \in Int
    BY <2>1, <2>2
  <2>4. percent \in Int
    BY <2>3, DivisionIsWhole
  <2>5. Budget = percent \/ (Configuration.maxAmount # None /\ Budget = Configuration.maxAmount)
    BY DEF Budget
  <2>6. Configuration.maxAmount # None => Configuration.maxAmount \in Int
    BY ConfigurationIsValid DEF ValidConfiguration
  <2> HIDE DEF percent
  <2> QED BY <2>4, <2>5, <2>6
<1>5. units \in Int /\ units * g.risk <= Budget
  BY <1>4, RoundedDown
<1> HIDE DEF units
<1>6. byBudget \in Int /\ byBudget * lot <= units
  BY <1>2, <1>5, RoundedDown
<1>7. lots \in Int /\ lots <= byBudget
  <2>1. lots = IF byBudget < Configuration.maxLots THEN byBudget ELSE Configuration.maxLots
    BY DEF ApprovedLots, units
  <2> HIDE DEF byBudget, lots, lot
  <2> QED BY <1>3, <1>6, <2>1
<1> HIDE DEF byBudget, lots, lot
<1>8. lots * lot <= byBudget * lot
  BY <1>2, <1>6, <1>7, TimesKeepsOrder
<1>9. lots * lot \in Int /\ byBudget * lot \in Int
  <2>1. lot \in Int
    BY <1>2
  <2> QED BY <1>6, <1>7, <2>1, ProductsAreWhole
<1> DEFINE quantity == lots * lot
<1> HIDE DEF quantity
<1>10. quantity \in Int /\ quantity <= units
  BY <1>5, <1>6, <1>8, <1>9 DEF quantity
<1>11. quantity * g.risk <= units * g.risk
  BY <1>5, <1>10, TimesKeepsOrder
<1>12. quantity * g.risk \in Int /\ units * g.risk \in Int
  BY <1>5, <1>10, ProductsAreWhole
<1>13. quantity * g.risk <= Budget
  BY <1>4, <1>5, <1>11, <1>12
<1>14. quantity % lot = 0
  BY <1>2, <1>7, WholeMultiple DEF quantity
<1> QED BY <1>13, <1>14 DEF quantity, lots, lot

\* An approving answer is about the active plan, which is within the budget.
PlanIInv ==
    /\ daily # None =>
         /\ {"date", "approved"} \subseteq DOMAIN daily
         /\ daily.date \in Int /\ daily.approved \in Nat /\ daily.approved <= Configuration.maxTrades
    /\ activeState # None /\ activeState.approved =>
         /\ activeState.plan = activePlan
         /\ activePlan.risk <= Budget
         /\ activePlan.quantity % Configuration.lotSize = 0
    /\ OfferedPlanStands

LEMMA TodayIsCounted ==
    ASSUME PlanIInv, NEW t \in EvaluationTimes
    PROVE  /\ {"date", "approved"} \subseteq DOMAIN Today(t)
           /\ Today(t).date = DayOf(t) /\ DayOf(t) \in Int /\ t \in Int
           /\ Today(t).approved \in Nat /\ Today(t).approved <= Configuration.maxTrades
           /\ SameDay(t) => Today(t) = daily
<1>1. DayOf(t) \in Int /\ t \in Int
  BY EvidenceIsRead DEF DayOf
<1>2. Configuration.maxTrades \in Nat
  BY ConfigurationIsValid DEF ValidConfiguration
<1>3. {"date", "approved"} \subseteq DOMAIN NewDay(t) /\ NewDay(t).date = DayOf(t) /\ NewDay(t).approved = 0
  BY DEF NewDay
<1>4. Today(t) = NewDay(t) \/ (daily # None /\ daily.date = DayOf(t) /\ Today(t) = daily)
  BY DEF Today
<1>5. SameDay(t) => Today(t) = daily
  BY DEF Today, SameDay
<1> QED BY <1>1, <1>2, <1>3, <1>4, <1>5 DEF PlanIInv

LEMMA EvaluatingKeepsPlans ==
    ASSUME PlanIInv, NEW s \in Strategies, NEW e \in TradeEvidence, NEW t \in EvaluationTimes,
           EvaluatePlan(s, e, t)
    PROVE  PlanIInv'
<1> DEFINE l == Levels(s, e)
           g == Distances(s.direction, l)
           id == TradePlanId(s, l)
<1>1. /\ {"date", "approved"} \subseteq DOMAIN Today(t)
      /\ Today(t).date = DayOf(t) /\ DayOf(t) \in Int /\ t \in Int
      /\ Today(t).approved \in Nat /\ Today(t).approved <= Configuration.maxTrades
      /\ SameDay(t) => Today(t) = daily
  BY TodayIsCounted
<1>2. ASSUME NEW code, Reject(s, e, t, code)
      PROVE  PlanIInv'
  <2>1. daily' = Today(t) /\ activeState' = Rejection(code)
        /\ answered' = [strategy |-> s, evidence |-> e, at |-> t, state |-> Rejection(code)]
    BY <1>2 DEF Reject, Answer
  <2>2. ~Rejection(code).approved
    BY DEF Rejection, RiskDecisionState
  <2> QED BY <1>1, <2>1, <2>2 DEF PlanIInv, OfferedPlanStands
<1>3. ASSUME PlanToday(t) # None, StateToday(t) # None, StillStands(PlanToday(t), id, t),
             AnswerAgain(s, e, t)
      PROVE  PlanIInv'
  <2>1. SameDay(t) /\ PlanToday(t) = activePlan /\ StateToday(t) = activeState
    BY <1>3 DEF PlanToday, StateToday
  <2>2. /\ daily' = daily /\ activePlan' = activePlan /\ activeState' = activeState
        /\ answered' = [strategy |-> s, evidence |-> e, at |-> t, state |-> activeState]
    BY <1>1, <1>3, <2>1 DEF AnswerAgain, Answer
  <2>3. activePlan.id = id /\ activePlan.until > t /\ daily.date = DayOf(t) /\ daily # None
    BY <1>3, <2>1 DEF StillStands, SameDay
  <2>4. activeState.approved =>
           /\ activeState.plan = activePlan /\ t < activePlan.until
           /\ activePlan.risk <= Budget /\ activePlan.quantity % Configuration.lotSize = 0
    BY <1>3, <2>1, <2>3 DEF PlanIInv
  <2>5. daily.approved <= Configuration.maxTrades
    BY <2>3 DEF PlanIInv
  <2>6. OfferedPlanStands'
    BY <2>2, <2>3, <2>4, <2>5 DEF OfferedPlanStands
  <2> QED BY <2>2, <2>6 DEF PlanIInv
<1>4. ASSUME LevelFailure(s, l) = "NONE", SizeFailure(g, Today(t)) = "NONE", Approve(s, e, t, id, g)
      PROVE  PlanIInv'
  <2> DEFINE plan == TradePlan(id, ApprovedLots(g), g, t)
             quantity == ApprovedLots(g) * Configuration.lotSize
  <2>1. /\ activePlan' = plan /\ activeState' = Offered(plan)
        /\ daily' = [Today(t) EXCEPT !.approved = @ + 1, !.reserved = @ + plan.risk]
        /\ answered' = [strategy |-> s, evidence |-> e, at |-> t, state |-> Offered(plan)]
    BY <1>4 DEF Approve, Answer
  <2>2. g.risk \in Nat \ {0}
    BY <1>4, DistanceIsPositive
  <2>3. quantity * g.risk <= Budget /\ quantity % Configuration.lotSize = 0
    BY <1>4, <2>2, PlanIsWithinBudget
  <2>4. plan.id = id /\ plan.quantity = quantity /\ plan.risk = quantity * g.risk
        /\ plan.until = t + Configuration.validity
    BY DEF TradePlan
  <2>5. t < plan.until
    <3>1. Configuration.validity \in Nat \ {0}
      BY ConfigurationIsValid DEF ValidConfiguration
    <3> QED BY <1>1, <2>4, <3>1
  <2>6. Offered(plan).plan = plan
    BY DEF Offered, RiskDecisionState
  <2>7. Today(t).approved < Configuration.maxTrades
    <3>1. ~(Today(t).approved >= Configuration.maxTrades)
      BY <1>4 DEF SizeFailure
    <3>2. Configuration.maxTrades \in Nat
      BY ConfigurationIsValid DEF ValidConfiguration
    <3> QED BY <1>1, <3>1, <3>2
  <2> HIDE DEF plan, g, l, id
  <2>8. /\ DOMAIN daily' = DOMAIN Today(t)
        /\ daily'.date = Today(t).date /\ daily'.approved = Today(t).approved + 1
    BY <1>1, <2>1
  <2>9. daily'.approved \in Nat /\ daily'.approved <= Configuration.maxTrades
    <3>1. Configuration.maxTrades \in Nat
      BY ConfigurationIsValid DEF ValidConfiguration
    <3> QED BY <1>1, <2>7, <2>8, <3>1
  <2>10. OfferedPlanStands'
    BY <1>1, <2>1, <2>3, <2>4, <2>5, <2>6, <2>8, <2>9 DEF OfferedPlanStands, id, l
  <2> QED BY <1>1, <2>1, <2>3, <2>4, <2>6, <2>8, <2>9, <2>10 DEF PlanIInv
<1>5. \/ \E code : Reject(s, e, t, code)
      \/ /\ PlanToday(t) # None /\ StateToday(t) # None /\ StillStands(PlanToday(t), id, t)
         /\ AnswerAgain(s, e, t)
      \/ /\ LevelFailure(s, l) = "NONE" /\ SizeFailure(g, Today(t)) = "NONE"
         /\ Approve(s, e, t, id, g)
  BY DEF EvaluatePlan
<1> QED BY <1>2, <1>3, <1>4, <1>5

\* Whatever evidence and strategies come in and however trades end, a plan handed out is
\* the active one for what was evaluated, has not run out, is of that day, within the
\* budget of a trade and, as the day's count shows, one the day's limit still allowed.
THEOREM OfferedPlansStand == PlanSpec => []OfferedPlanStands
<1>1. PlanInit => PlanIInv
  BY DEF PlanInit, PlanIInv, OfferedPlanStands
<1>2. PlanIInv /\ [PlanNext]_planVars => PlanIInv'
  <2> SUFFICES ASSUME PlanIInv, [PlanNext]_planVars
               PROVE  PlanIInv'
    OBVIOUS
  <2>1. ASSUME NEW s \in Strategies, NEW e \in TradeEvidence, NEW t \in EvaluationTimes,
               EvaluatePlan(s, e, t)
        PROVE  PlanIInv'
    BY <2>1, EvaluatingKeepsPlans
  <2>2. ASSUME NEW pnl \in Results, RecordPaperTradeClose(pnl)
        PROVE  PlanIInv'
    <3>1. UNCHANGED <<activePlan, activeState, evaluation, answered>> /\ daily # None
      BY <2>2 DEF RecordPaperTradeClose
    <3>2. DOMAIN daily' = DOMAIN daily /\ daily'.date = daily.date /\ daily'.approved = daily.approved
      <4> DEFINE released == IF activePlan = None THEN 0 ELSE activePlan.risk
      <4>1. daily' = [daily EXCEPT !.completed = @ + 1, !.pnl = @ + pnl,
                                   !.reserved = IF @ > released THEN @ - released ELSE 0]
        BY <2>2 DEF RecordPaperTradeClose
      <4> HIDE DEF released
      <4>2. {"date", "approved"} \subseteq DOMAIN daily
        BY <3>1 DEF PlanIInv
      <4> QED BY <4>1, <4>2
    <3> QED BY <3>1, <3>2 DEF PlanIInv, OfferedPlanStands
  <2>3. CASE ResetPlans
    BY <2>3 DEF ResetPlans, PlanIInv, OfferedPlanStands
  <2>4. CASE UNCHANGED planVars
    BY <2>4 DEF planVars, PlanIInv, OfferedPlanStands
  <2> QED BY <2>1, <2>2, <2>3, <2>4 DEF PlanNext
<1>3. PlanIInv => OfferedPlanStands
  BY DEF PlanIInv
<1> QED BY <1>1, <1>2, <1>3, PTL DEF PlanSpec
-------------------------------------------------------------------------------
(* The execution policy *)

FailureCheck == [when : BOOLEAN, decision : Decisions, reason : ExecutionReasonCode \cup {None}]

LEMMA PartsOfNone ==
    ASSUME NEW S, NEW s \in Seq(S), NEW t \in Seq(S), NoneFails(s \o t)
    PROVE  NoneFails(s) /\ NoneFails(t)
<1>1. /\ Len(s \o t) = Len(s) + Len(t)
      /\ \A n \in 1 .. Len(s) + Len(t) : (s \o t)[n] = IF n <= Len(s) THEN s[n] ELSE t[n - Len(s)]
  BY ConcatProperties
<1>2. s \o t \in Seq(S)
  BY ConcatProperties
<1>3. /\ DOMAIN s = 1 .. Len(s) /\ DOMAIN t = 1 .. Len(t) /\ DOMAIN (s \o t) = 1 .. Len(s) + Len(t)
      /\ Len(s) \in Nat /\ Len(t) \in Nat
  BY <1>1, <1>2, LenProperties
<1>4. \A n \in 1 .. Len(s) + Len(t) : ~(s \o t)[n].when
  BY <1>3 DEF NoneFails
<1>5. ASSUME NEW n \in 1 .. Len(s) PROVE ~s[n].when
  <2>1. n \in 1 .. Len(s) + Len(t) /\ n <= Len(s)
    BY <1>3
  <2> QED BY <1>1, <1>4, <2>1
<1>6. ASSUME NEW n \in 1 .. Len(t) PROVE ~t[n].when
  <2>1. n + Len(s) \in 1 .. Len(s) + Len(t) /\ ~(n + Len(s) <= Len(s)) /\ n + Len(s) - Len(s) = n
    BY <1>3
  <2> QED BY <1>1, <1>4, <2>1
<1> QED BY <1>3, <1>5, <1>6 DEF NoneFails

LEMMA ChecksAreListed ==
    ASSUME NEW q, NEW p
    PROVE  EntryChecks(q) \in Seq(FailureCheck) /\ ProtectiveChecks(q) \in Seq(FailureCheck)
BY DEF EntryChecks, ProtectiveChecks, Check, FailureCheck, Decisions, ExecutionReasonCode

LEMMA RequestIsValid ==
    ASSUME NEW q \in Requests
    PROVE  /\ q.risk.entry \in Int /\ q.risk.quantity \in Int /\ q.risk.timestamp \in Int /\ q.timestamp \in Int
           /\ q.risk.direction \in {"BULLISH", "BEARISH"}
           /\ q.risk.stop = None \/ q.risk.stop \in Int
           /\ q.risk.target = None \/ q.risk.target \in Int
           /\ QuantityOf(q) \in Int /\ EntryOf(q) \in Int
           /\ q.validUntil = None \/ (q.validUntil \in Int /\ q.validUntil > q.timestamp)
<1>1. q \in ExecutionRequest
  BY PolicyAssumption
<1>2. /\ q.risk \in RiskView /\ q.timestamp \in Int /\ q.entry \in Optional(Nat \ {0})
      /\ q.quantity \in Optional(Nat \ {0})
      /\ q.validUntil = None \/ (q.validUntil \in Int /\ q.validUntil > q.timestamp)
  BY <1>1 DEF ExecutionRequest, Optional
<1>3. /\ q.risk.entry \in Int /\ q.risk.quantity \in Int /\ q.risk.timestamp \in Int
      /\ q.risk.direction \in {"BULLISH", "BEARISH"}
      /\ q.risk.stop = None \/ q.risk.stop \in Int
      /\ q.risk.target = None \/ q.risk.target \in Int
  BY <1>2 DEF RiskView, Optional
<1>4. QuantityOf(q) \in Int /\ EntryOf(q) \in Int
  BY <1>2, <1>3 DEF QuantityOf, EntryOf, Either, Optional
<1> QED BY <1>2, <1>3, <1>4

\* What the checks of a request and a policy leave true of a plan that passes them.
SoundAsk(q, p) ==
    /\ p.riskApproval => q.risk.approved
    /\ QuantityOf(q) \in 1 .. q.risk.quantity
    /\ q.instrument = Instrument /\ q.risk.instrument = Instrument
    /\ q.timestamp - q.risk.timestamp <= p.maxAge
    /\ ValidUntil(q, p) > q.timestamp
    /\ p.stop => q.risk.stop # None
    /\ q.risk.stop # None => (IF q.risk.direction = "BULLISH" THEN 1 ELSE -1) * (EntryOf(q) - q.risk.stop) > 0
    /\ q.risk.target # None => (IF q.risk.direction = "BULLISH" THEN 1 ELSE -1) * (q.risk.target - EntryOf(q)) > 0

LEMMA ChecksMakeSound ==
    ASSUME NEW q \in Requests, NEW p \in Policies, NoneFails(ContentChecks(q, p) \o DuplicateChecks(q, p))
    PROVE  SoundAsk(q, p) /\ NoneFails(DuplicateChecks(q, p))
<1> DEFINE slip == Distance(EntryOf(q), ReferenceOf(q))
           first ==
             << Check(~q.risk.valid, "INVALID", "INVALID_RISK_DECISION"),
                Check(~p.enabled, "REJECTED", "POLICY_DISABLED"),
                Check(q.instrument # Instrument, "REJECTED", "RISK_DECISION_MISMATCH"),
                Check(q.instrument \notin p.instruments, "REJECTED", "UNSUPPORTED_INSTRUMENT"),
                Check(ModeOf(q, p) = "live", "REJECTED", "LIVE_EXECUTION_BLOCKED"),
                Check(ModeOf(q, p) \notin p.modes, "REJECTED", "UNSUPPORTED_EXECUTION_MODE"),
                Check(p.riskApproval /\ ~q.risk.approved, "REJECTED", "RISK_NOT_APPROVED"),
                Check(q.risk.instrument # q.instrument, "REJECTED", "RISK_DECISION_MISMATCH"),
                Check(q.timestamp - q.risk.timestamp > p.maxAge, "EXPIRED", "RISK_DECISION_EXPIRED"),
                Check(QuantityOf(q) <= 0, "REJECTED", "ZERO_QUANTITY"),
                Check(QuantityOf(q) > q.risk.quantity, "REJECTED", "QUANTITY_INCREASE_BLOCKED"),
                Check(QuantityOf(q) < q.risk.quantity /\ ~p.reduction, "REJECTED", "QUANTITY_MISMATCH"),
                Check(p.mustMatch /\ QuantityOf(q) # q.risk.quantity, "REJECTED", "QUANTITY_MISMATCH"),
                Check(q.type \notin p.types, "REJECTED", "UNSUPPORTED_ORDER_TYPE"),
                Check(TypeReason(q, p) # None, "REJECTED", TypeReason(q, p)),
                Check(EntryOf(q) <= 0 \/ ReferenceOf(q) <= 0, "REJECTED", "INVALID_ENTRY_PRICE"),
                Check(q.instrument \notin p.ticks, "REJECTED", "UNSUPPORTED_INSTRUMENT") >>
           later ==
             << Check(p.points # None /\ slip > p.points, "REJECTED", "SLIPPAGE_LIMIT_EXCEEDED"),
                Check(p.permille # None /\ slip * 1000 > p.permille * ReferenceOf(q), "REJECTED", "SLIPPAGE_LIMIT_EXCEEDED"),
                Check(p.stop /\ q.risk.stop = None, "REJECTED", "MISSING_STOP_PLAN"),
                Check(p.target /\ q.risk.target = None, "REJECTED", "MISSING_TARGET_PLAN") >>
<1>1. TypeReason(q, p) \in ExecutionReasonCode \cup {None}
  BY DEF TypeReason, ExecutionReasonCode
<1>2. first \in Seq(FailureCheck)
  BY <1>1 DEF Check, FailureCheck, Decisions, ExecutionReasonCode
<1>3. later \in Seq(FailureCheck)
  BY DEF Check, FailureCheck, Decisions, ExecutionReasonCode
<1>4. DuplicateChecks(q, p) \in Seq(FailureCheck)
  BY DEF DuplicateChecks, Check, FailureCheck, Decisions, ExecutionReasonCode
<1>5. ContentChecks(q, p) = first \o EntryChecks(q) \o later \o ProtectiveChecks(q)
  BY DEF ContentChecks
<1> HIDE DEF first, later
<1>6. /\ NoneFails(first) /\ NoneFails(later) /\ NoneFails(ProtectiveChecks(q))
      /\ NoneFails(DuplicateChecks(q, p))
  <2>1. /\ first \o EntryChecks(q) \in Seq(FailureCheck)
        /\ first \o EntryChecks(q) \o later \in Seq(FailureCheck)
        /\ ContentChecks(q, p) \in Seq(FailureCheck)
    BY <1>2, <1>3, <1>5, ChecksAreListed, ConcatProperties
  <2>2. NoneFails(ContentChecks(q, p)) /\ NoneFails(DuplicateChecks(q, p))
    BY <1>4, <2>1, PartsOfNone
  <2>3. NoneFails(first \o EntryChecks(q) \o later) /\ NoneFails(ProtectiveChecks(q))
    BY <1>5, <2>1, <2>2, ChecksAreListed, PartsOfNone
  <2>4. NoneFails(first \o EntryChecks(q)) /\ NoneFails(later)
    BY <1>3, <2>1, <2>3, PartsOfNone
  <2>5. NoneFails(first)
    BY <1>2, <2>4, ChecksAreListed, PartsOfNone
  <2> QED BY <2>2, <2>3, <2>4, <2>5
<1>7. /\ ~first[3].when /\ ~first[7].when /\ ~first[8].when /\ ~first[9].when /\ ~first[10].when
      /\ ~first[11].when
  <2>1. DOMAIN first = 1 .. 17
    BY DEF first
  <2> QED BY <1>6, <2>1 DEF NoneFails
<1>8. ~later[3].when
  <2>1. DOMAIN later = 1 .. 4
    BY DEF later
  <2> QED BY <1>6, <2>1 DEF NoneFails
<1>9. /\ q.risk.stop # None => ~ProtectiveChecks(q)[3].when
      /\ q.risk.target # None => ~ProtectiveChecks(q)[4].when
  <2>1. DOMAIN ProtectiveChecks(q) = 1 .. 4
    BY DEF ProtectiveChecks
  <2> QED BY <1>6, <2>1 DEF NoneFails
<1>10. /\ q.instrument = Instrument /\ q.risk.instrument = Instrument
       /\ p.riskApproval => q.risk.approved
  BY <1>7 DEF first, Check
<1>11. /\ ~(q.timestamp - q.risk.timestamp > p.maxAge)
       /\ ~(QuantityOf(q) <= 0) /\ ~(QuantityOf(q) > q.risk.quantity)
  BY <1>7 DEF first, Check
<1>12. p.stop => q.risk.stop # None
  BY <1>8 DEF later, Check
<1>13. /\ q.risk.stop # None => IF q.risk.direction = "BULLISH" THEN q.risk.stop < EntryOf(q) ELSE EntryOf(q) < q.risk.stop
       /\ q.risk.target # None => IF q.risk.direction = "BULLISH" THEN EntryOf(q) < q.risk.target ELSE q.risk.target < EntryOf(q)
  BY <1>9 DEF ProtectiveChecks, Check
<1>14. p.maxAge \in Int /\ p.maxValidity \in Int /\ p.maxValidity > 0
  BY PolicyAssumption DEF ExecutionPolicy
<1>15. ValidUntil(q, p) > q.timestamp
  BY RequestIsValid, <1>14 DEF ValidUntil
<1>16. QuantityOf(q) \in 1 .. q.risk.quantity /\ q.timestamp - q.risk.timestamp <= p.maxAge
  BY <1>11, <1>14, RequestIsValid
<1>17. /\ q.risk.stop # None => (IF q.risk.direction = "BULLISH" THEN 1 ELSE -1) * (EntryOf(q) - q.risk.stop) > 0
       /\ q.risk.target # None => (IF q.risk.direction = "BULLISH" THEN 1 ELSE -1) * (q.risk.target - EntryOf(q)) > 0
  BY <1>13, RequestIsValid
<1> QED BY <1>6, <1>10, <1>12, <1>15, <1>16, <1>17 DEF SoundAsk

Strict == \A p \in Policies : ~p.duplicates /\ p.perRisk /\ p.perSignal

\* The tables know an active plan under each key of its request, and nothing else.
Known(id) ==
    LET q == RequestOf(id) IN
    /\ byRisk[q.risk.id] = id
    /\ q.client # None => byClient[q.client] = id
    /\ SignalOf(q) # None => bySignal[SignalOf(q)] = id

OnlyActive(f) == \A key \in DOMAIN f : f[key] # None => f[key] \in PlanIds /\ IsActive(f[key])

ReadyIsPaper(id) ==
    plans[id].status = "READY_FOR_PAPER" =>
        /\ ModeOf(RequestOf(id), PolicyOf(id)) = "PAPER"
        /\ ManualRequired(RequestOf(id), PolicyOf(id)) => plans[id].manualPresent

PolicyIInv ==
    /\ DOMAIN plans = PlanIds
    /\ DOMAIN byClient = {q.client : q \in Requests}
    /\ DOMAIN byRisk = {q.risk.id : q \in Requests}
    /\ DOMAIN bySignal = {q.signal : q \in Requests} \cup {q.risk.signal : q \in Requests}
    /\ \A id \in PlanIds : plans[id] # None => "status" \in DOMAIN plans[id]
    /\ Strict => /\ \A id \in PlanIds : IsActive(id) => Known(id)
                 /\ OnlyActive(byClient) /\ OnlyActive(byRisk) /\ OnlyActive(bySignal)
    /\ \A id \in PlanIds : IsActive(id) => SoundAsk(RequestOf(id), PolicyOf(id)) /\ ReadyIsPaper(id)

LEMMA IdsNameThem ==
    /\ \A q \in Requests, p \in Policies :
          PlanId(q, p) \in PlanIds /\ RequestOf(PlanId(q, p)) = q /\ PolicyOf(PlanId(q, p)) = p
    /\ \A id \in PlanIds : RequestOf(id) \in Requests /\ PolicyOf(id) \in Policies /\ id # None
<1>1. \A q, r \in Requests : q.name = r.name => q = r
  BY PolicyAssumption
<1>2. \A p, r \in Policies : p.name = r.name => p = r
  BY PolicyAssumption
<1>3. ASSUME NEW q \in Requests, NEW p \in Policies
      PROVE  PlanId(q, p) \in PlanIds /\ RequestOf(PlanId(q, p)) = q /\ PolicyOf(PlanId(q, p)) = p
  BY <1>1, <1>2 DEF PlanId, PlanIds, RequestOf, PolicyOf
<1>4. ASSUME NEW id \in PlanIds
      PROVE  RequestOf(id) \in Requests /\ PolicyOf(id) \in Policies /\ id # None
  <2>1. PICK q \in Requests, p \in Policies : id = <<q.name, p.name>>
    BY DEF PlanIds
  <2> QED BY <1>3, <2>1, NoneIsNoPlan DEF PlanId
<1> QED BY <1>3, <1>4

LEMMA KeysAreKeys ==
    ASSUME NEW q \in Requests
    PROVE  /\ q.client \in {r.client : r \in Requests} /\ q.risk.id \in {r.risk.id : r \in Requests}
           /\ SignalOf(q) \in {r.signal : r \in Requests} \cup {r.risk.signal : r \in Requests}
BY DEF SignalOf, Either

LEMMA TablesLearn ==
    ASSUME NEW f, NEW key, NEW id, key = None \/ key \in DOMAIN f
    PROVE  /\ DOMAIN With(f, key, id) = DOMAIN f
           /\ key # None => With(f, key, id)[key] = id
           /\ \A k \in DOMAIN f : With(f, key, id)[k] = f[k] \/ (k = key /\ With(f, key, id)[k] = id)
BY DEF With

LEMMA TablesForget ==
    ASSUME NEW f, NEW id
    PROVE  /\ DOMAIN Without(f, id) = DOMAIN f
           /\ \A k \in DOMAIN f : Without(f, id)[k] = IF f[k] = id THEN None ELSE f[k]
BY DEF Without

\* An active plan that no table refuses, or that every table knows already, is stored.
LEMMA StoringIsSound ==
    ASSUME PolicyIInv, NEW id \in PlanIds, NEW plan, plan # None, "status" \in DOMAIN plan,
           plan.status \in ActiveStatuses,
           SoundAsk(RequestOf(id), PolicyOf(id)),
           plan.status = "READY_FOR_PAPER" =>
               /\ ModeOf(RequestOf(id), PolicyOf(id)) = "PAPER"
               /\ ManualRequired(RequestOf(id), PolicyOf(id)) => plan.manualPresent,
           Strict =>
               LET q == RequestOf(id) IN
               /\ byRisk[q.risk.id] \in {None, id}
               /\ q.client # None => byClient[q.client] \in {None, id}
               /\ SignalOf(q) # None => bySignal[SignalOf(q)] \in {None, id},
           StoreActive(id, plan)
    PROVE  PolicyIInv'
<1> DEFINE q == RequestOf(id)
<1>1. q \in Requests
  BY IdsNameThem
<1>2. /\ plans' = [plans EXCEPT ![id] = plan]
      /\ byClient' = With(byClient, q.client, id)
      /\ byRisk' = With(byRisk, q.risk.id, id)
      /\ bySignal' = With(bySignal, SignalOf(q), id)
  BY DEF StoreActive
<1>3. /\ DOMAIN plans' = PlanIds /\ plans'[id] = plan
      /\ \A i \in PlanIds \ {id} : plans'[i] = plans[i]
  BY <1>2 DEF PolicyIInv
<1>4. /\ DOMAIN byClient' = DOMAIN byClient
      /\ q.client # None => byClient'[q.client] = id
      /\ \A k \in DOMAIN byClient : byClient'[k] = byClient[k] \/ (k = q.client /\ byClient'[k] = id)
  BY <1>1, <1>2, KeysAreKeys, TablesLearn DEF PolicyIInv
<1>5. /\ DOMAIN byRisk' = DOMAIN byRisk
      /\ q.risk.id # None => byRisk'[q.risk.id] = id
      /\ \A k \in DOMAIN byRisk : byRisk'[k] = byRisk[k] \/ (k = q.risk.id /\ byRisk'[k] = id)
  BY <1>1, <1>2, KeysAreKeys, TablesLearn DEF PolicyIInv
<1>6. /\ DOMAIN bySignal' = DOMAIN bySignal
      /\ SignalOf(q) # None => bySignal'[SignalOf(q)] = id
      /\ \A k \in DOMAIN bySignal : bySignal'[k] = bySignal[k] \/ (k = SignalOf(q) /\ bySignal'[k] = id)
  BY <1>1, <1>2, KeysAreKeys, TablesLearn DEF PolicyIInv
<1>7. IsActive(id)' /\ \A i \in PlanIds \ {id} : IsActive(i)' <=> IsActive(i)
  BY <1>3 DEF IsActive
<1>8. \A i \in PlanIds : plans'[i] # None => "status" \in DOMAIN plans'[i]
  BY <1>3 DEF PolicyIInv
<1>9. ASSUME NEW i \in PlanIds, IsActive(i)'
      PROVE  SoundAsk(RequestOf(i), PolicyOf(i)) /\ ReadyIsPaper(i)'
  BY <1>3, <1>7, <1>9 DEF PolicyIInv, ReadyIsPaper
<1>10. ASSUME Strict
       PROVE  /\ \A i \in PlanIds : IsActive(i)' => Known(i)'
              /\ OnlyActive(byClient)' /\ OnlyActive(byRisk)' /\ OnlyActive(bySignal)'
  <2>1. /\ \A i \in PlanIds : IsActive(i) => Known(i)
        /\ OnlyActive(byClient) /\ OnlyActive(byRisk) /\ OnlyActive(bySignal)
    BY <1>10 DEF PolicyIInv
  <2>2. /\ byRisk[q.risk.id] \in {None, id}
        /\ q.client # None => byClient[q.client] \in {None, id}
        /\ SignalOf(q) # None => bySignal[SignalOf(q)] \in {None, id}
    BY <1>10
  <2>3. q.risk.id # None
    BY <1>1, NoneIsNoPlan
  <2>4. Known(id)'
    BY <1>4, <1>5, <1>6, <2>3 DEF Known
  <2>5. ASSUME NEW i \in PlanIds \ {id}, IsActive(i)' PROVE Known(i)'
    <3> DEFINE r == RequestOf(i)
    <3>1. r \in Requests /\ i # None /\ id # None
      BY IdsNameThem
    <3>2. Known(i)
      BY <1>7, <2>1, <2>5
    <3>3. /\ r.client \in DOMAIN byClient /\ r.risk.id \in DOMAIN byRisk
          /\ SignalOf(r) \in DOMAIN bySignal
      BY <3>1, KeysAreKeys DEF PolicyIInv
    <3>4. byRisk'[r.risk.id] = i
      BY <1>5, <2>2, <3>1, <3>2, <3>3 DEF Known
    <3>5. r.client # None => byClient'[r.client] = i
      BY <1>4, <2>2, <3>1, <3>2, <3>3 DEF Known
    <3>6. SignalOf(r) # None => bySignal'[SignalOf(r)] = i
      BY <1>6, <2>2, <3>1, <3>2, <3>3 DEF Known
    <3> QED BY <3>4, <3>5, <3>6 DEF Known
  <2>6. OnlyActive(byClient)' /\ OnlyActive(byRisk)' /\ OnlyActive(bySignal)'
    <3>1. \A i \in PlanIds : IsActive(i) => IsActive(i)'
      BY <1>7
    <3>2. OnlyActive(byClient)'
      BY <1>4, <1>7, <2>1, <3>1 DEF OnlyActive
    <3>3. OnlyActive(byRisk)'
      BY <1>5, <1>7, <2>1, <3>1 DEF OnlyActive
    <3>4. OnlyActive(bySignal)'
      BY <1>6, <1>7, <2>1, <3>1 DEF OnlyActive
    <3> QED BY <3>2, <3>3, <3>4
  <2> QED BY <2>4, <2>5, <2>6
<1> QED BY <1>3, <1>4, <1>5, <1>6, <1>8, <1>9, <1>10 DEF PolicyIInv

\* So is the record of a plan that is not active, with the keys of the one it ends.
LEMMA EndingIsSound ==
    ASSUME PolicyIInv, NEW id \in PlanIds, NEW plan, plan # None => "status" \in DOMAIN plan,
           plan.status \notin ActiveStatuses, StoreTerminal(id, plan)
    PROVE  PolicyIInv'
<1>1. plans' = [plans EXCEPT ![id] = plan]
  BY DEF StoreTerminal
<1>2. /\ DOMAIN plans' = PlanIds /\ plans'[id] = plan
      /\ \A i \in PlanIds \ {id} : plans'[i] = plans[i]
  BY <1>1 DEF PolicyIInv
<1>3. ~IsActive(id)' /\ \A i \in PlanIds \ {id} : IsActive(i)' <=> IsActive(i)
  BY <1>2 DEF IsActive
<1>4. \A i \in PlanIds : plans'[i] # None => "status" \in DOMAIN plans'[i]
  BY <1>2 DEF PolicyIInv
<1>5. ASSUME NEW i \in PlanIds, IsActive(i)'
      PROVE  SoundAsk(RequestOf(i), PolicyOf(i)) /\ ReadyIsPaper(i)'
  BY <1>2, <1>3, <1>5 DEF PolicyIInv, ReadyIsPaper
<1>6. CASE IsActive(id)
  <2>1. byClient' = Without(byClient, id) /\ byRisk' = Without(byRisk, id) /\ bySignal' = Without(bySignal, id)
    BY <1>6 DEF StoreTerminal
  <2>2. /\ DOMAIN byClient' = DOMAIN byClient
        /\ \A k \in DOMAIN byClient : byClient'[k] = IF byClient[k] = id THEN None ELSE byClient[k]
    BY <2>1, TablesForget
  <2>3. /\ DOMAIN byRisk' = DOMAIN byRisk
        /\ \A k \in DOMAIN byRisk : byRisk'[k] = IF byRisk[k] = id THEN None ELSE byRisk[k]
    BY <2>1, TablesForget
  <2>4. /\ DOMAIN bySignal' = DOMAIN bySignal
        /\ \A k \in DOMAIN bySignal : bySignal'[k] = IF bySignal[k] = id THEN None ELSE bySignal[k]
    BY <2>1, TablesForget
  <2>5. ASSUME Strict
        PROVE  /\ \A i \in PlanIds : IsActive(i)' => Known(i)'
               /\ OnlyActive(byClient)' /\ OnlyActive(byRisk)' /\ OnlyActive(bySignal)'
    <3>1. /\ \A i \in PlanIds : IsActive(i) => Known(i)
          /\ OnlyActive(byClient) /\ OnlyActive(byRisk) /\ OnlyActive(bySignal)
      BY <2>5 DEF PolicyIInv
    <3>2. ASSUME NEW i \in PlanIds, IsActive(i)' PROVE Known(i)'
      <4> DEFINE r == RequestOf(i)
      <4>1. i # id /\ Known(i)
        BY <1>3, <3>1, <3>2
      <4>2. /\ r.client \in DOMAIN byClient /\ r.risk.id \in DOMAIN byRisk
            /\ SignalOf(r) \in DOMAIN bySignal
        BY IdsNameThem, KeysAreKeys DEF PolicyIInv
      <4> QED BY <2>2, <2>3, <2>4, <4>1, <4>2 DEF Known
    <3>3. OnlyActive(byClient)'
      BY <1>3, <2>2, <3>1 DEF OnlyActive
    <3>4. OnlyActive(byRisk)'
      BY <1>3, <2>3, <3>1 DEF OnlyActive
    <3>5. OnlyActive(bySignal)'
      BY <1>3, <2>4, <3>1 DEF OnlyActive
    <3> QED BY <3>2, <3>3, <3>4, <3>5
  <2> QED BY <1>2, <1>4, <1>5, <2>2, <2>3, <2>4, <2>5 DEF PolicyIInv
<1>7. CASE ~IsActive(id)
  <2>1. UNCHANGED <<byClient, byRisk, bySignal>>
    BY <1>7 DEF StoreTerminal
  <2>2. ASSUME Strict
        PROVE  /\ \A i \in PlanIds : IsActive(i)' => Known(i)'
               /\ OnlyActive(byClient)' /\ OnlyActive(byRisk)' /\ OnlyActive(bySignal)'
    BY <1>3, <1>7, <2>1, <2>2 DEF PolicyIInv, Known, OnlyActive
  <2> QED BY <1>2, <1>4, <1>5, <2>1, <2>2 DEF PolicyIInv
<1> QED BY <1>6, <1>7

LEMMA BlockedIsInactive ==
    ASSUME NEW q, NEW said, NEW reason
    PROVE  /\ "status" \in DOMAIN BlockedPlan(q, said, reason)
           /\ BlockedPlan(q, said, reason).status \notin ActiveStatuses
BY DEF BlockedPlan, ActiveStatuses

LEMMA PreparedIsActive ==
    ASSUME NEW q \in Requests, NEW p \in Policies
    PROVE  LET plan == PreparedPlan(q, p) IN
           /\ plan # None /\ "status" \in DOMAIN plan /\ plan.status \in ActiveStatuses
           /\ plan.status = "READY_FOR_PAPER" =>
                 ModeOf(q, p) = "PAPER" /\ (ManualRequired(q, p) => plan.manualPresent)
<1>1. q.manual \in BOOLEAN
  BY PolicyAssumption DEF ExecutionRequest
<1>2. ManualRequired(q, p) \in BOOLEAN
  BY DEF ManualRequired
<1>3. PreparedPlan(q, p) \in TradeExecutionPlan
  BY <1>1, <1>2 DEF PreparedPlan, TradeExecutionPlan, PlanStatuses, ActiveStatuses, Decisions, ExecutionReasonCode
<1>4. PreparedPlan(q, p) # None /\ "status" \in DOMAIN PreparedPlan(q, p)
  BY <1>3, NoneIsNoPlan DEF TradeExecutionPlan
<1>5. PreparedPlan(q, p).status \in ActiveStatuses
  BY DEF PreparedPlan, ActiveStatuses
<1>6. PreparedPlan(q, p).status = "READY_FOR_PAPER" =>
          ModeOf(q, p) = "PAPER" /\ (ManualRequired(q, p) => PreparedPlan(q, p).manualPresent)
  BY DEF PreparedPlan
<1> QED BY <1>4, <1>5, <1>6

\* The checks of duplicates let a request pass whose keys no table has.
LEMMA DuplicatesAreRefused ==
    ASSUME NEW q \in Requests, NEW p \in Policies, NoneFails(DuplicateChecks(q, p)), Strict
    PROVE  /\ byRisk[q.risk.id] = None
           /\ q.client # None => byClient[q.client] = None
           /\ SignalOf(q) # None => bySignal[SignalOf(q)] = None
<1>1. DOMAIN DuplicateChecks(q, p) = 1 .. 4
  BY DEF DuplicateChecks
<1>2. ~DuplicateChecks(q, p)[1].when /\ ~DuplicateChecks(q, p)[2].when /\ ~DuplicateChecks(q, p)[3].when
  BY <1>1 DEF NoneFails
<1> QED BY <1>2 DEF DuplicateChecks, Check, Strict

LEMMA PolicyStartsSound == PolicyInit => PolicyIInv
BY DEF PolicyInit, PolicyIInv, IsActive, OnlyActive

LEMMA PolicyStepsAreSound == PolicyIInv /\ [PolicyNext]_policyVars => PolicyIInv'
<1> SUFFICES ASSUME PolicyIInv, [PolicyNext]_policyVars PROVE PolicyIInv'
  OBVIOUS
<1>1. CASE UNCHANGED <<plans, byClient, byRisk, bySignal>>
  BY <1>1 DEF PolicyIInv, IsActive, Known, OnlyActive, ReadyIsPaper
<1>2. CASE ResetSession
  BY <1>2 DEF ResetSession, PolicyIInv, IsActive, Known, OnlyActive, ReadyIsPaper
<1>3. ASSUME NEW q \in Requests, NEW p \in Policies, EvaluateStopped(q, p)
      PROVE  PolicyIInv'
  BY <1>3, IdsNameThem, BlockedIsInactive, EndingIsSound DEF EvaluateStopped
<1>4. ASSUME NEW q \in Requests, NEW p \in Policies, Evaluate(q, p)
      PROVE  PolicyIInv'
  <2> DEFINE id     == PlanId(q, p)
             checks == ContentChecks(q, p) \o DuplicateChecks(q, p)
  <2>1. id \in PlanIds /\ RequestOf(id) = q /\ PolicyOf(id) = p
    BY IdsNameThem
  <2>2. IF Evaluated(q, p).status \in ActiveStatuses
        THEN StoreActive(id, Evaluated(q, p)) ELSE StoreTerminal(id, Evaluated(q, p))
    BY <1>4 DEF Evaluate
  <2>3. CASE NoneFails(checks)
    <3>1. Evaluated(q, p) = PreparedPlan(q, p)
      BY <2>3 DEF Evaluated
    <3>2. SoundAsk(q, p) /\ NoneFails(DuplicateChecks(q, p))
      BY <2>3, ChecksMakeSound
    <3>3. StoreActive(id, PreparedPlan(q, p))
      BY <2>2, <3>1, PreparedIsActive
    <3> QED BY <2>1, <3>2, <3>3, PreparedIsActive, DuplicatesAreRefused, StoringIsSound
  <2>4. CASE ~NoneFails(checks)
    <3>1. PICK said, reason : Evaluated(q, p) = BlockedPlan(q, said, reason)
      BY <2>4 DEF Evaluated
    <3> QED BY <2>1, <2>2, <3>1, BlockedIsInactive, EndingIsSound
  <2> QED BY <2>3, <2>4
<1>5. ASSUME NEW id \in PlanIds, NEW t \in Times, ApproveManual(id, t)
      PROVE  PolicyIInv'
  <2> DEFINE q == RequestOf(id)
             p == PolicyOf(id)
             plan == [status |-> IF ModeOf(q, p) = "PAPER" THEN "READY_FOR_PAPER" ELSE "PREPARED",
                      decision |-> "APPROVED", reason |-> "APPROVED", manualRequired |-> TRUE, manualPresent |-> TRUE]
  <2>1. IsActive(id) /\ StoreActive(id, plan)
    BY <1>5 DEF ApproveManual, IsActive, ActiveStatuses
  <2>2. plan \in TradeExecutionPlan
    BY DEF TradeExecutionPlan, PlanStatuses, ActiveStatuses, Decisions, ExecutionReasonCode
  <2>3. plan # None /\ "status" \in DOMAIN plan /\ plan.status \in ActiveStatuses
    BY <2>2, NoneIsNoPlan DEF ActiveStatuses
  <2>4. plan.status = "READY_FOR_PAPER" => ModeOf(q, p) = "PAPER" /\ plan.manualPresent
    OBVIOUS
  <2>5. SoundAsk(q, p) /\ (Strict => Known(id))
    BY <2>1 DEF PolicyIInv
  <2> HIDE DEF plan
  <2> QED BY <2>1, <2>3, <2>4, <2>5, StoringIsSound DEF Known
<1>6. ASSUME NEW id \in PlanIds, CancelPlan(id)
      PROVE  PolicyIInv'
  <2> DEFINE plan == [plans[id] EXCEPT !.status = "CANCELLED", !.decision = "REJECTED", !.reason = "INVALID_REQUEST"]
  <2>1. StoreTerminal(id, plan) /\ "status" \in DOMAIN plans[id]
    BY <1>6 DEF CancelPlan, PolicyIInv
  <2>2. "status" \in DOMAIN plan /\ plan.status \notin ActiveStatuses
    BY <2>1 DEF ActiveStatuses
  <2> HIDE DEF plan
  <2> QED BY <2>1, <2>2, EndingIsSound
<1>7. ASSUME NEW id \in PlanIds, ExpirePlan(id)
      PROVE  PolicyIInv'
  <2> DEFINE plan == [plans[id] EXCEPT !.status = "EXPIRED", !.decision = "EXPIRED", !.reason = "REQUEST_EXPIRED"]
  <2>1. StoreTerminal(id, plan) /\ "status" \in DOMAIN plans[id]
    BY <1>7 DEF ExpirePlan, PolicyIInv
  <2>2. "status" \in DOMAIN plan /\ plan.status \notin ActiveStatuses
    BY <2>1 DEF ActiveStatuses
  <2> HIDE DEF plan
  <2> QED BY <2>1, <2>2, EndingIsSound
<1> QED BY <1>1, <1>2, <1>3, <1>4, <1>5, <1>6, <1>7 DEF PolicyNext, policyVars, StartPolicy, StopPolicy

LEMMA PolicyIsSound == PolicyIInv => ActivePlansHold
<1> SUFFICES ASSUME PolicyIInv PROVE ActivePlansHold
  OBVIOUS
<1>1. OnePlanForEach
  BY DEF OnePlanForEach, PolicyIInv, Strict, Known, OnlyActive
<1>2. ActivePlansAreSound
  BY DEF ActivePlansAreSound, PolicyIInv, SoundAsk, ReadyIsPaper
<1> QED BY <1>1, <1>2 DEF ActivePlansHold

\* The policy engine's active plans are sound, and under policies that refuse duplicates each the only
\* one of its kind (engines/trade_execution_policy/engine.py), for every set of requests and policies,
\* and every order of evaluations, approvals, cancellations, expiries, stops and resets.
THEOREM PlansStandAlone == PolicySpec => []ActivePlansHold
<1> QED BY PolicyStartsSound, PolicyStepsAreSound, PolicyIsSound, PTL DEF PolicySpec
-------------------------------------------------------------------------------
(* The authorization and the handoff *)

\* What an authorization without a reason against it says.
SoundResult(r) ==
    /\ r.request \in AuthRequests
    /\ r.decision = "AUTHORIZE" =>
         /\ r.request.confidence.verdict = "OK" /\ r.request.risk.verdict = "OK"
         /\ {r.request.strategy.direction, r.request.confidence.direction, r.request.risk.direction}
                = {DirectionOf(r.plan)}

\* What a plan object that can be executed says, whenever it was taken.
SoundObject(o) ==
    /\ o.id \in PlanIds
    /\ Executable(o.plan) =>
         /\ SoundAsk(RequestOf(o.id), PolicyOf(o.id))
         /\ ManualRequired(RequestOf(o.id), PolicyOf(o.id)) => o.plan.manualPresent

SoundCall(c) ==
    LET h == c.request
        o == c.subject
        a == c.authorization.request
        q == RequestOf(o.id)
    IN  /\ a.confidence.verdict = "OK" /\ a.risk.verdict = "OK"
        /\ {a.strategy.direction, a.confidence.direction, a.risk.direction} = {q.risk.direction}
        /\ ManualRequired(q, PolicyOf(o.id)) => o.plan.manualPresent
        /\ QuantityOf(q) \in 1 .. q.risk.quantity
        /\ h.timestamp \in q.timestamp .. q.timestamp + PolicyOf(o.id).maxValidity - 1
        /\ h.timestamp - a.timestamp \in 0 .. MAX_AUTHORIZATION_AGE

AuthIInv ==
    /\ PolicyIInv
    /\ \A i \in DOMAIN results : results[i] # None => SoundResult(results[i])
    /\ keptPlan # None => SoundObject(keptPlan)
    /\ DOMAIN outcomes = {h.id : h \in Handoffs}
    /\ \A i \in DOMAIN outcomes : Called(i) => SoundCall(outcomes[i])
    /\ OneCallPerPlan

LEMMA NothingAgainst ==
    ASSUME NEW a \in AuthRequests, NEW o
    PROVE  SoundResult(Authorized(a, o))
<1> DEFINE r == Authorized(a, o)
<1>1. r.request = a /\ r.plan = o.id /\ r.decision = DecisionFrom(ReasonsOf(a, o))
  BY DEF Authorized
<1>2. SUFFICES ASSUME ReasonsOf(a, o) = {}
               PROVE  /\ a.confidence.verdict = "OK" /\ a.risk.verdict = "OK"
                      /\ {a.strategy.direction, a.confidence.direction, a.risk.direction} = {DirectionOf(o.id)}
  BY <1>1 DEF SoundResult, DecisionFrom
<1>3. None \notin {a.strategy, a.confidence, a.risk}
  BY <1>2 DEF ReasonsOf
<1> DEFINE elsewhere == {a.strategy.instrument, a.confidence.instrument, a.risk.instrument, InstrumentOf(o.id)}
                            # {Instrument}
           directions == {a.confidence.direction, a.risk.direction, DirectionOf(o.id)}
<1>4. /\ Reason(elsewhere, "INSTRUMENT_MISMATCH") = {}
      /\ Reason(~elsewhere /\ directions # {a.strategy.direction}, "DIRECTION_MISMATCH") = {}
      /\ VerdictReasons(a.confidence, "CONFIDENCE_BLOCKED", "CONFIDENCE_REDUCED") = {}
      /\ VerdictReasons(a.risk, "RISK_BLOCKED", "RISK_REDUCED") = {}
  BY <1>2, <1>3 DEF ReasonsOf
<1>5. directions = {a.strategy.direction}
  <2> HIDE DEF elsewhere, directions
  <2> QED BY <1>4 DEF Reason
<1>6. a.confidence \in Evidence /\ a.risk \in Evidence
  BY <1>3, AuthAssumption DEF TradeAuthorizationRequest, Optional
<1>7. a.confidence.verdict = "OK" /\ a.risk.verdict = "OK"
  BY <1>4, <1>6 DEF VerdictReasons, Reason, Evidence, Verdicts
<1> QED BY <1>5, <1>7

LEMMA AtHandIsSound ==
    ASSUME AuthIInv, NEW o \in PlansAtHand
    PROVE  SoundObject(o)
<1>1. CASE o = keptPlan /\ o # None
  BY <1>1 DEF AuthIInv
<1>2. CASE \E id \in PlanIds : plans[id] # None /\ o = CurrentPlan(id)
  <2>1. PICK id \in PlanIds : plans[id] # None /\ o = CurrentPlan(id)
    BY <1>2
  <2>2. o.id = id /\ o.plan = plans[id]
    BY <2>1 DEF CurrentPlan
  <2>3. ASSUME Executable(plans[id]) PROVE IsActive(id) /\ plans[id].status = "READY_FOR_PAPER"
    BY <2>1, <2>3 DEF Executable, IsActive, ActiveStatuses
  <2> QED BY <2>2, <2>3 DEF AuthIInv, PolicyIInv, ReadyIsPaper, SoundObject
<1> QED BY <1>1, <1>2 DEF PlansAtHand

LEMMA AdmittedIsSound ==
    ASSUME AuthIInv, NEW h \in Handoffs, NEW i \in DOMAIN results, NEW o \in PlansAtHand, NEW said,
           CanHandOff(h, results[i]), Admitted(h, results[i], o)
    PROVE  SoundCall([decision |-> said, request |-> h, authorization |-> results[i], subject |-> o])
<1> DEFINE r == results[i]
           q == RequestOf(o.id)
           p == PolicyOf(o.id)
<1>1. SoundObject(o) /\ SoundResult(r) /\ r.decision = "AUTHORIZE" /\ Fits(h, r, o)
  BY AtHandIsSound DEF AuthIInv, CanHandOff, Admitted
<1>2. /\ SoundAsk(q, p)
      /\ ManualRequired(q, p) => o.plan.manualPresent
      /\ q \in Requests /\ p \in Policies
  BY <1>1, IdsNameThem DEF SoundObject, Fits
<1>3. /\ r.request.confidence.verdict = "OK" /\ r.request.risk.verdict = "OK"
      /\ {r.request.strategy.direction, r.request.confidence.direction, r.request.risk.direction}
            = {q.risk.direction}
  BY <1>1 DEF SoundResult, Fits, DirectionOf
<1>4. h.timestamp \in Int /\ r.request.timestamp \in Int /\ r.request.timestamp <= h.timestamp
  <2>1. h \in [id : STRING, timestamp : Int] /\ r.request \in TradeAuthorizationRequest
    BY <1>1, AuthAssumption DEF SoundResult
  <2> QED BY <2>1 DEF TradeAuthorizationRequest, CanHandOff
<1>5. h.timestamp - r.request.timestamp \in 0 .. MAX_AUTHORIZATION_AGE
  BY <1>1, <1>4 DEF Fits, MAX_AUTHORIZATION_AGE
<1>6. p.maxValidity \in Int /\ q.timestamp \in Int /\ ValidUntil(q, p) <= q.timestamp + p.maxValidity
  <2>1. p.maxValidity \in Int
    BY <1>2, PolicyAssumption DEF ExecutionPolicy
  <2> QED BY <1>2, <2>1, RequestIsValid DEF ValidUntil
<1>7. ValidUntil(q, p) \in Int
  BY <1>2, <1>6, RequestIsValid DEF ValidUntil
<1>8. h.timestamp \in q.timestamp .. q.timestamp + p.maxValidity - 1
  BY <1>1, <1>4, <1>6, <1>7 DEF Fits, CreatedAt
<1>9. QuantityOf(q) \in 1 .. q.risk.quantity
  BY <1>2 DEF SoundAsk
<1> QED BY <1>2, <1>3, <1>5, <1>8, <1>9 DEF SoundCall

LEMMA AuthStartsSound == AuthInit => AuthIInv
BY PolicyStartsSound DEF AuthInit, AuthIInv, OneCallPerPlan, Called

LEMMA AuthStepsAreSound == AuthIInv /\ [AuthNext]_authVars => AuthIInv'
<1> SUFFICES ASSUME AuthIInv, [AuthNext]_authVars PROVE AuthIInv'
  OBVIOUS
<1>1. PolicyIInv'
  <2>1. ASSUME PlanMoves \/ UNCHANGED authVars PROVE [PolicyNext]_policyVars
    BY <2>1 DEF PlanMoves, authVars
  <2>2. ASSUME GateMoves PROVE [PolicyNext]_policyVars
    BY <2>2 DEF GateMoves, StartGate, StopGate, ResetGate, Authorize
  <2>3. ASSUME DeskMoves PROVE [PolicyNext]_policyVars
    <3>1. StartDesk \/ StopDesk \/ ResetDesk => UNCHANGED policyVars
      BY DEF StartDesk, StopDesk, ResetDesk
    <3>2. ASSUME NEW h \in Handoffs, NEW r, NEW o, NEW executes,
                 HandoffRefused(h, r, o) \/ HandoffFails(h, r, o, executes)
                     \/ \E approves \in BOOLEAN : HandoffCalls(h, r, o, executes, approves)
          PROVE  UNCHANGED policyVars
      BY <3>2 DEF HandoffRefused, HandoffCalls, HandoffFails
    <3> QED BY <2>3, <3>1, <3>2 DEF DeskMoves
  <2>4. ASSUME \E id \in PlanIds : KeepPlan(id) PROVE [PolicyNext]_policyVars
    BY <2>4 DEF KeepPlan
  <2>5. [PolicyNext]_policyVars
    BY <2>1, <2>2, <2>3, <2>4 DEF AuthNext
  <2> QED BY <2>5, PolicyStepsAreSound DEF AuthIInv
<1>2. CASE UNCHANGED <<results, outcomes, invoked, keptPlan>>
  BY <1>1, <1>2 DEF AuthIInv, OneCallPerPlan, Called
<1>3. ASSUME NEW a \in AuthRequests, NEW o \in PlansAtHand, Authorize(a, o)
      PROVE  AuthIInv'
  <2>1. /\ results' = [results EXCEPT ![a.id] = Authorized(a, o)]
        /\ UNCHANGED <<outcomes, invoked, keptPlan>>
    BY <1>3 DEF Authorize, handoffVars
  <2>2. \A i \in DOMAIN results' : results'[i] # None => SoundResult(results'[i])
    BY <2>1, NothingAgainst DEF AuthIInv
  <2> QED BY <1>1, <2>1, <2>2 DEF AuthIInv, OneCallPerPlan, Called
<1>4. ASSUME NEW id \in PlanIds, KeepPlan(id)
      PROVE  AuthIInv'
  <2>1. keptPlan' = CurrentPlan(id) /\ UNCHANGED <<results, outcomes, invoked>>
    BY <1>4 DEF KeepPlan, gateVars, handoffVars
  <2>2. SoundObject(CurrentPlan(id))
    BY <1>4, AtHandIsSound DEF KeepPlan, PlansAtHand
  <2> QED BY <1>1, <2>1, <2>2 DEF AuthIInv, OneCallPerPlan, Called
<1>5. CASE ResetDesk
  BY <1>1, <1>5 DEF ResetDesk, AuthIInv, OneCallPerPlan, Called, gateVars
<1>6. ASSUME NEW h \in Handoffs, NEW i \in DOMAIN results, NEW o \in PlansAtHand, HandoffRefused(h, results[i], o)
      PROVE  AuthIInv'
  <2>1. /\ outcomes' = [outcomes EXCEPT ![h.id] = [decision |-> HeldOrRejected(h, results[i], o)]]
        /\ UNCHANGED <<results, invoked, keptPlan>>
    BY <1>6 DEF HandoffRefused, gateVars
  <2>2. DOMAIN outcomes' = DOMAIN outcomes /\ ~Called(h.id)'
    BY <2>1 DEF AuthIInv, Called
  <2>3. \A j \in DOMAIN outcomes \ {h.id} : outcomes'[j] = outcomes[j] /\ (Called(j)' <=> Called(j))
    BY <2>1 DEF Called
  <2> QED BY <1>1, <2>1, <2>2, <2>3 DEF AuthIInv, OneCallPerPlan
<1>7. ASSUME NEW h \in Handoffs, NEW i \in DOMAIN results, NEW o \in PlansAtHand, NEW executes, NEW approves,
             HandoffCalls(h, results[i], o, executes, approves)
      PROVE  AuthIInv'
  <2> DEFINE made == [decision |-> IF approves THEN "EXECUTE" ELSE "REJECT", request |-> h,
                      authorization |-> results[i], subject |-> o]
  <2>1. /\ outcomes' = [outcomes EXCEPT ![h.id] = made] /\ invoked' = invoked \cup {o.id}
        /\ UNCHANGED <<results, keptPlan>> /\ o.id \notin invoked
    BY <1>7 DEF HandoffCalls, gateVars, Admitted
  <2>2. SoundCall(made)
    BY <1>7, AdmittedIsSound DEF HandoffCalls
  <2>3. made.subject = o
    OBVIOUS
  <2> HIDE DEF made
  <2>4. DOMAIN outcomes' = DOMAIN outcomes /\ outcomes'[h.id] = made
    BY <2>1 DEF AuthIInv
  <2>5. \A j \in DOMAIN outcomes \ {h.id} : outcomes'[j] = outcomes[j] /\ (Called(j)' <=> Called(j))
    BY <2>1 DEF Called
  <2>6. \A j \in DOMAIN outcomes' : Called(j)' => SoundCall(outcomes'[j])
    BY <2>2, <2>4, <2>5 DEF AuthIInv
  <2>7. OneCallPerPlan'
    BY <2>1, <2>3, <2>4, <2>5 DEF AuthIInv, OneCallPerPlan
  <2> QED BY <1>1, <2>1, <2>4, <2>6, <2>7 DEF AuthIInv
<1>8. ASSUME NEW h \in Handoffs, NEW i \in DOMAIN results, NEW o \in PlansAtHand, NEW executes,
             HandoffFails(h, results[i], o, executes)
      PROVE  AuthIInv'
  BY <1>2, <1>8 DEF HandoffFails, gateVars
<1>9. CASE PlanMoves \/ StartGate \/ StopGate \/ ResetGate \/ StartDesk \/ StopDesk \/ UNCHANGED authVars
  BY <1>2, <1>9 DEF PlanMoves, StartGate, StopGate, ResetGate, StartDesk, StopDesk, authVars, gateVars, handoffVars
<1> QED BY <1>3, <1>4, <1>5, <1>6, <1>7, <1>8, <1>9 DEF AuthNext, GateMoves, DeskMoves

\* The paper coordinator is called for approved plans, and between two resets once for each
\* (engines/trade_decision_authorization, application/authorized_paper_execution), for every set
\* of requests, policies, authorizations and handoffs, in any order, with a plan object of any age.
THEOREM CallsStayApproved == AuthSpec => []CallsWereApproved
<1>1. AuthIInv => CallsWereApproved
  BY DEF AuthIInv, CallsWereApproved, ExecutedWasApproved, SoundCall
<1> QED BY <1>1, AuthStartsSound, AuthStepsAreSound, PTL DEF AuthSpec

-------------------------------------------------------------------------------
(* Paper trading: the books *)

\* A record that is no better than the market allowed.
Honest(r) ==
    /\ IF Bullish(r.plan) THEN r.plan.entry <= r.entry ELSE r.plan.entry >= r.entry
    /\ r.type # "system_shutdown" => IF Bullish(r.plan) THEN r.exit <= r.plan.target ELSE r.exit >= r.plan.target
    /\ r.type = "stop_loss" => IF Bullish(r.plan) THEN r.exit <= r.plan.stop ELSE r.exit >= r.plan.stop
    /\ r.type = "target" => r.exit = r.plan.target
    /\ r.opened <= r.at

Desks ==
    [order : PaperOrders \cup {None}, position : PaperPositions \cup {None}, records : SUBSET PaperRecords,
     processed : SUBSET {p.id : p \in Plans},
     counts : [created : Int, triggered : Int, cancelled : Int, expired : Int, opened : Int, closed : Int]]

\* A plan that was taken on and has no record yet.
Untold(d, p) == p.id \in d.processed /\ \A r \in d.records : r.plan.id # p.id

Books(d) ==
    /\ d \in Desks /\ IsFiniteSet(d.records) /\ IsFiniteSet(d.processed)
    /\ d.counts.created = Cardinality(d.processed)
    /\ d.counts.created = d.counts.triggered + d.counts.cancelled + d.counts.expired
                              + (IF OrderPending(d) THEN 1 ELSE 0)
    /\ d.counts.opened = d.counts.closed + (IF PositionOpen(d) THEN 1 ELSE 0)
    /\ d.counts.closed = Cardinality(d.records)
    /\ \A r, s \in d.records : r.plan.id = s.plan.id => r = s
    /\ \A r \in d.records : r.plan.id \in d.processed /\ Honest(r)
    /\ OrderPending(d) => Untold(d, d.order.plan) /\ ~PositionOpen(d)
    /\ PositionOpen(d) =>
          /\ Untold(d, d.position.plan)
          /\ LET p == d.position IN
             IF Bullish(p.plan) THEN p.plan.entry <= p.entry ELSE p.plan.entry >= p.entry

\* An open position is within its levels, or was marked by a tick from before it.
Within(d) ==
    PositionOpen(d) =>
        SoundPosition(d.position.plan, d.position.last) \/ d.position.lastAt < d.position.at

\* What a call may add to the records: one, of the plan whose position was open.
AtMostOne(d, e) == \E r : e.records \subseteq d.records \cup {r} /\ d.records \subseteq e.records

LEMMA PlanIsSound ==
    ASSUME NEW p \in Plans
    PROVE  /\ p.entry \in Int /\ p.stop \in Int /\ p.target \in Int /\ p.from \in Int /\ p.until \in Int
           /\ p.quantity \in Int /\ p.direction \in {"bullish", "bearish"}
           /\ IF Bullish(p) THEN p.stop < p.entry /\ p.entry < p.target
                            ELSE p.target < p.entry /\ p.entry < p.stop
BY PlansAreSound DEF Bullish

\* The order of a desk leaves the pending state, and one of the counters tells how.
LEMMA OrderLeaves ==
    ASSUME NEW d, Books(d), OrderPending(d), NEW how \in {"cancelled", "expired", "triggered"}
    PROVE  LET e == Counted([d EXCEPT !.order.state = how], how) IN
           /\ Books(e) /\ ~OrderPending(e) /\ ~PositionOpen(e) /\ Untold(e, e.order.plan)
           /\ e.order.plan = d.order.plan /\ e.order.plan \in Plans
           /\ e.records = d.records /\ e.position = d.position /\ e.processed = d.processed
<1> DEFINE e == Counted([d EXCEPT !.order.state = how], how)
<1> SUFFICES /\ Books(e) /\ ~OrderPending(e) /\ ~PositionOpen(e) /\ Untold(e, e.order.plan)
             /\ e.order.plan = d.order.plan /\ e.order.plan \in Plans
             /\ e.records = d.records /\ e.position = d.position /\ e.processed = d.processed
  OBVIOUS
<1>1. d \in Desks /\ d.order \in PaperOrders
  BY DEF Books, OrderPending, Desks
<1>2. /\ e.order = [d.order EXCEPT !.state = how] /\ e.records = d.records /\ e.position = d.position
      /\ e.processed = d.processed /\ e.counts = [d.counts EXCEPT ![how] = @ + 1]
      /\ e = [order |-> e.order, position |-> e.position, records |-> e.records,
              processed |-> e.processed, counts |-> e.counts]
  <2> DEFINE m == [d EXCEPT !.order.state = how]
  <2>1. /\ m = [order |-> [d.order EXCEPT !.state = how], position |-> d.position, records |-> d.records,
                processed |-> d.processed, counts |-> d.counts]
    BY <1>1 DEF Desks
  <2>2. e = [m EXCEPT !.counts = [m.counts EXCEPT ![how] = @ + 1]]
    BY DEF Counted
  <2> HIDE DEF m, e
  <2> QED BY <2>1, <2>2
<1> HIDE DEF e
<1>3. e.order \in PaperOrders /\ e.order.plan = d.order.plan /\ e.order.state = how /\ e.order.plan \in Plans
  BY <1>1, <1>2 DEF PaperOrders
<1>4. /\ e.counts \in [created : Int, triggered : Int, cancelled : Int, expired : Int, opened : Int, closed : Int]
      /\ e.counts.created = d.counts.created /\ e.counts.opened = d.counts.opened
      /\ e.counts.closed = d.counts.closed
      /\ e.counts.triggered + e.counts.cancelled + e.counts.expired
            = d.counts.triggered + d.counts.cancelled + d.counts.expired + 1
  BY <1>1, <1>2 DEF Desks
<1>5. e \in Desks
  BY <1>1, <1>2, <1>3, <1>4 DEF Desks
<1>6. ~OrderPending(e) /\ ~PositionOpen(e) /\ Untold(e, e.order.plan)
  BY <1>2, <1>3 DEF OrderPending, Books, PositionOpen, Untold
<1>7. Books(e)
  <2>1. /\ IsFiniteSet(e.records) /\ IsFiniteSet(e.processed)
        /\ e.counts.created = Cardinality(e.processed)
        /\ e.counts.closed = Cardinality(e.records)
        /\ \A r, s \in e.records : r.plan.id = s.plan.id => r = s
        /\ \A r \in e.records : r.plan.id \in e.processed /\ Honest(r)
    BY <1>2, <1>4 DEF Books
  <2>2. /\ e.counts.created = e.counts.triggered + e.counts.cancelled + e.counts.expired
                                 + (IF OrderPending(e) THEN 1 ELSE 0)
    <3>1. d.counts.created = d.counts.triggered + d.counts.cancelled + d.counts.expired + 1
      BY DEF Books
    <3> QED BY <1>4, <1>6, <3>1
  <2>3. e.counts.opened = e.counts.closed + (IF PositionOpen(e) THEN 1 ELSE 0)
    <3>1. ~PositionOpen(d)
      BY DEF Books
    <3> QED BY <1>4, <1>6, <3>1 DEF Books
  <2> QED BY <1>5, <1>6, <2>1, <2>2, <2>3 DEF Books
<1> QED BY <1>2, <1>3, <1>6, <1>7

LEMMA PendingIsChecked ==
    ASSUME NEW d, Books(d), Within(d), NEW t, NEW price, NEW opinion, NEW approved
    PROVE  LET e == PendingChecked(d, t, price, opinion, approved) IN
           Books(e) /\ Within(e) /\ e.records = d.records
<1> DEFINE e == PendingChecked(d, t, price, opinion, approved)
<1>1. e = d \/ (OrderPending(d) /\ (e = Cancelled(d) \/ e = Expired(d)))
  BY DEF PendingChecked
<1> HIDE DEF e
<1>2. ASSUME OrderPending(d), e = Cancelled(d) \/ e = Expired(d)
      PROVE  Books(e) /\ ~PositionOpen(e) /\ e.records = d.records
  BY <1>2, OrderLeaves DEF Cancelled, Expired
<1> QED BY <1>1, <1>2 DEF e, Within

\* A triggered order, with the position it opens when the fill is between the levels.
LEMMA TriggeringIsSound ==
    ASSUME NEW d, Books(d), Within(d), OrderPending(d), NEW t \in Int, NEW price \in Int
    PROVE  LET e == Triggered(d, t, price) IN
           Books(e) /\ Within(e) /\ e.records = d.records
<1> DEFINE p      == d.order.plan
           fill   == EntryFill(p, price)
           marked == Counted([d EXCEPT !.order.state = "triggered"], "triggered")
           new    == [plan |-> p, at |-> t, entry |-> fill, last |-> fill, lastAt |-> t, open |-> TRUE]
           begun == Counted([marked EXCEPT !.position = new], "opened")
           e      == Triggered(d, t, price)
<1> SUFFICES Books(e) /\ Within(e) /\ e.records = d.records
  OBVIOUS
<1>1. /\ Books(marked) /\ ~OrderPending(marked) /\ ~PositionOpen(marked) /\ Untold(marked, p)
      /\ p \in Plans /\ marked.records = d.records
  BY OrderLeaves
<1>2. e = d \/ e = marked \/ (e = begun /\ SoundPosition(p, fill))
  BY DEF Triggered
<1>3. fill \in Int /\ IF Bullish(p) THEN p.entry <= fill ELSE p.entry >= fill
  BY <1>1, PlanIsSound, MarketIsRead DEF EntryFill, Larger, Lesser
<1> HIDE DEF marked, fill, p, e
<1>4. ASSUME SoundPosition(p, fill) PROVE Books(begun) /\ Within(begun) /\ begun.records = d.records
  <2>1. new \in PaperPositions /\ new # None
    <3>1. p \in Plans /\ fill \in Int
      BY <1>1, <1>3
    <3>2. new \in PaperPositions
      BY <3>1 DEF PaperPositions
    <3> HIDE DEF new
    <3> QED BY <3>2, NoneIsNoOrder
  <2>2. marked \in Desks
    BY <1>1 DEF Books
  <2>3. /\ begun.order = marked.order /\ begun.position = new /\ begun.records = marked.records
        /\ begun.processed = marked.processed
        /\ begun.counts = [marked.counts EXCEPT !["opened"] = @ + 1]
        /\ begun = [order |-> begun.order, position |-> begun.position, records |-> begun.records,
                      processed |-> begun.processed, counts |-> begun.counts]
    <3> DEFINE m == [marked EXCEPT !.position = new]
    <3> HIDE DEF new
    <3>1. m = [order |-> marked.order, position |-> new, records |-> marked.records,
               processed |-> marked.processed, counts |-> marked.counts]
      BY <2>2 DEF Desks
    <3>2. begun = [m EXCEPT !.counts = [m.counts EXCEPT !["opened"] = @ + 1]]
      BY DEF Counted
    <3> HIDE DEF m, begun
    <3> QED BY <3>1, <3>2
  <2>4. new.plan = p /\ new.last = fill /\ new.entry = fill /\ new.open
    OBVIOUS
  <2> HIDE DEF new, begun
  <2>5. /\ begun.counts \in [created : Int, triggered : Int, cancelled : Int, expired : Int, opened : Int, closed : Int]
        /\ begun.counts.created = marked.counts.created /\ begun.counts.triggered = marked.counts.triggered
        /\ begun.counts.cancelled = marked.counts.cancelled /\ begun.counts.expired = marked.counts.expired
        /\ begun.counts.closed = marked.counts.closed /\ begun.counts.opened = marked.counts.opened + 1
    BY <2>2, <2>3 DEF Desks
  <2>6. begun \in Desks
    BY <2>1, <2>2, <2>3, <2>5 DEF Desks
  <2>7. ~OrderPending(begun) /\ PositionOpen(begun)
    BY <1>1, <2>1, <2>3, <2>4 DEF OrderPending, PositionOpen
  <2>8. Untold(begun, begun.position.plan)
    BY <1>1, <2>3, <2>4 DEF Untold
  <2>9. begun.counts.opened = begun.counts.closed + 1
    BY <1>1, <2>5, <2>2 DEF Books, Desks
  <2>10. Books(begun)
    <3>1. /\ IsFiniteSet(begun.records) /\ IsFiniteSet(begun.processed)
          /\ begun.counts.created = Cardinality(begun.processed)
          /\ begun.counts.closed = Cardinality(begun.records)
          /\ \A r, s \in begun.records : r.plan.id = s.plan.id => r = s
          /\ \A r \in begun.records : r.plan.id \in begun.processed /\ Honest(r)
      BY <1>1, <2>3, <2>5 DEF Books
    <3>2. begun.counts.created = begun.counts.triggered + begun.counts.cancelled + begun.counts.expired
                                      + (IF OrderPending(begun) THEN 1 ELSE 0)
      BY <1>1, <2>5, <2>7 DEF Books
    <3>3. IF Bullish(begun.position.plan) THEN begun.position.plan.entry <= begun.position.entry
                                           ELSE begun.position.plan.entry >= begun.position.entry
      BY <1>3, <2>3, <2>4
    <3> QED BY <2>6, <2>7, <2>8, <2>9, <3>1, <3>2, <3>3 DEF Books
  <2> QED BY <1>1, <1>4, <2>3, <2>4, <2>10 DEF Within
<1> QED BY <1>1, <1>2, <1>4 DEF Within

LEMMA RecordIsHonest ==
    ASSUME NEW d, Books(d), PositionOpen(d), NEW t \in Int, t >= d.position.at, NEW exit \in Int,
           NEW type \in {"stop_loss", "target", "strategy_invalidated", "session_close", "system_shutdown"},
           LET p == d.position.plan IN
           /\ type # "system_shutdown" => IF Bullish(p) THEN exit <= p.target ELSE exit >= p.target
           /\ type = "stop_loss" => IF Bullish(p) THEN exit <= p.stop ELSE exit >= p.stop
           /\ type = "target" => exit = p.target
    PROVE  LET r == TradeRecord(d.position, t, exit, type) IN
           r \in PaperRecords /\ Honest(r) /\ r.plan = d.position.plan
<1> DEFINE pos == d.position
           r == TradeRecord(pos, t, exit, type)
           gross == Profit(pos.plan, pos.entry, exit)
<1>1. pos \in PaperPositions
  BY DEF Books, PositionOpen, Desks
<1>2. pos.plan \in Plans /\ pos.entry \in Int /\ pos.at \in Int /\ pos.plan.quantity \in Int
  BY <1>1, PlanIsSound DEF PaperPositions
<1>3. gross \in Int
  BY <1>2, ProductsAreWhole DEF Profit
<1>4. Fees(gross) \in Int
  <2> HIDE DEF gross
  <2>1. Magnitude(gross) \in Int
    BY <1>3 DEF Magnitude
  <2>2. (Magnitude(gross) * PaperConfig.feePercent) \div 100 \in Int
    BY <2>1, ProductsAreWhole, DivisionIsWhole, MarketIsRead
  <2> QED BY <2>2, MarketIsRead DEF Fees
<1>5. r = [plan |-> pos.plan, entry |-> pos.entry, exit |-> exit, type |-> type,
           opened |-> pos.at, at |-> t, net |-> gross - Fees(gross)]
  BY DEF TradeRecord
<1> HIDE DEF gross, r
<1>6. gross - Fees(gross) \in Int
  BY <1>3, <1>4
<1>7. r \in PaperRecords
  BY <1>2, <1>5, <1>6 DEF PaperRecords
<1>8. Honest(r)
  BY <1>2, <1>5 DEF Honest, Books
<1> QED BY <1>5, <1>7, <1>8 DEF r

LEMMA PositionIsChanged ==
    ASSUME NEW d \in Desks, NEW v
    PROVE  [d EXCEPT !.position.open = v] =
             [order |-> d.order, position |-> [d.position EXCEPT !.open = v], records |-> d.records,
              processed |-> d.processed, counts |-> d.counts]
BY DEF Desks

\* A position is closed and booked, or stays open when that would be before it was opened.
LEMMA BookingIsSound ==
    ASSUME NEW d, Books(d), PositionOpen(d), NEW t \in Int, NEW exit \in Int,
           NEW type \in {"stop_loss", "target", "strategy_invalidated", "session_close", "system_shutdown"},
           LET p == d.position.plan IN
           /\ type # "system_shutdown" => IF Bullish(p) THEN exit <= p.target ELSE exit >= p.target
           /\ type = "stop_loss" => IF Bullish(p) THEN exit <= p.stop ELSE exit >= p.stop
           /\ type = "target" => exit = p.target
    PROVE  LET e == Closed(d, t, exit, type) IN
           /\ Books(e) /\ AtMostOne(d, e)
           /\ (e = d /\ t < d.position.at) \/ ~PositionOpen(e)
<1> DEFINE pos == d.position
           r == TradeRecord(pos, t, exit, type)
           e == Closed(d, t, exit, type)
<1> SUFFICES /\ Books(e) /\ AtMostOne(d, e)
             /\ (e = d /\ t < d.position.at) \/ ~PositionOpen(e)
  OBVIOUS
<1>1. CASE t < pos.at
  <2>1. e = d
    BY <1>1 DEF Closed
  <2> QED BY <1>1, <2>1 DEF AtMostOne
<1>2. CASE ~(t < pos.at)
  <2>1. pos \in PaperPositions /\ pos # None /\ d \in Desks
    BY DEF Books, PositionOpen, Desks
  <2>2. t >= pos.at
    BY <1>2, <2>1 DEF PaperPositions
  <2>3. r \in PaperRecords /\ Honest(r) /\ r.plan = pos.plan
    BY <2>2, RecordIsHonest
  <2>4. /\ e.order = d.order /\ e.position = [pos EXCEPT !.open = FALSE, !.last = exit]
        /\ e.records = d.records \cup {r} /\ e.processed = d.processed
        /\ e.counts = [d.counts EXCEPT !["closed"] = @ + 1]
        /\ e = [order |-> e.order, position |-> e.position, records |-> e.records,
                processed |-> e.processed, counts |-> e.counts]
    <3> DEFINE m == [d EXCEPT !.position.open = FALSE, !.position.last = exit, !.records = @ \cup {r}]
    <3> HIDE DEF r
    <3>1. m = [order |-> d.order, position |-> [pos EXCEPT !.open = FALSE, !.last = exit],
               records |-> d.records \cup {r}, processed |-> d.processed, counts |-> d.counts]
      <4> DEFINE m1 == [d EXCEPT !.position.open = FALSE]
                 m2 == [m1 EXCEPT !.position.last = exit]
      <4>1. m1 = [order |-> d.order, position |-> [pos EXCEPT !.open = FALSE],
                  records |-> d.records, processed |-> d.processed, counts |-> d.counts]
        BY <2>1, PositionIsChanged
      <4>2. m = [m2 EXCEPT !.records = d.records \cup {r}]
        BY <2>1 DEF m, Desks
      <4> HIDE DEF m1
      <4>3. m2 = [order |-> d.order, position |-> [pos EXCEPT !.open = FALSE, !.last = exit],
                  records |-> d.records, processed |-> d.processed, counts |-> d.counts]
        BY <4>1
      <4> HIDE DEF m2, m
      <4> QED BY <4>2, <4>3
    <3>2. e = [m EXCEPT !.counts = [m.counts EXCEPT !["closed"] = @ + 1]]
      BY <1>2 DEF Closed, Counted, r
    <3> HIDE DEF m, e
    <3> QED BY <3>1, <3>2
  <2> HIDE DEF e, r
  <2>5. e.position \in PaperPositions /\ ~e.position.open
    BY <2>1, <2>4 DEF PaperPositions
  <2>6. /\ e.counts \in [created : Int, triggered : Int, cancelled : Int, expired : Int, opened : Int, closed : Int]
        /\ e.counts.created = d.counts.created /\ e.counts.triggered = d.counts.triggered
        /\ e.counts.cancelled = d.counts.cancelled /\ e.counts.expired = d.counts.expired
        /\ e.counts.closed = d.counts.closed + 1 /\ e.counts.opened = d.counts.opened
    BY <2>1, <2>4 DEF Desks
  <2>7. e \in Desks
    BY <2>1, <2>3, <2>4, <2>5, <2>6 DEF Desks
  <2>8. ~PositionOpen(e) /\ ~OrderPending(e)
    BY <2>4, <2>5 DEF PositionOpen, OrderPending, Books
  <2>9. r \notin d.records /\ \A s \in d.records : s.plan.id # r.plan.id
    BY <2>3 DEF Books, Untold
  <2>10. IsFiniteSet(e.records) /\ e.counts.closed = Cardinality(e.records)
    <3>1. IsFiniteSet(d.records) /\ d.counts.closed = Cardinality(d.records)
      BY DEF Books
    <3>2. IsFiniteSet(d.records \cup {r}) /\ Cardinality(d.records \cup {r}) = Cardinality(d.records) + 1
      BY <2>9, <3>1, FS_AddElement
    <3> QED BY <2>4, <2>6, <3>1, <3>2
  <2>11. /\ \A a, b \in e.records : a.plan.id = b.plan.id => a = b
         /\ \A a \in e.records : a.plan.id \in e.processed /\ Honest(a)
    BY <2>3, <2>4, <2>9 DEF Books, Untold
  <2>12. /\ IsFiniteSet(e.processed) /\ e.counts.created = Cardinality(e.processed)
         /\ e.counts.created = e.counts.triggered + e.counts.cancelled + e.counts.expired
                                  + (IF OrderPending(e) THEN 1 ELSE 0)
    <3>1. ~OrderPending(d)
      BY DEF Books
    <3> QED BY <2>4, <2>6, <2>8, <3>1 DEF Books
  <2>13. e.counts.opened = e.counts.closed + (IF PositionOpen(e) THEN 1 ELSE 0)
    BY <2>1, <2>6, <2>8 DEF Books, Desks
  <2>14. Books(e)
    BY <2>7, <2>8, <2>10, <2>11, <2>12, <2>13 DEF Books
  <2> QED BY <2>4, <2>8, <2>14 DEF AtMostOne
<1> QED BY <1>1, <1>2

\* A tick marks the open position, and closes it at a level, on an opinion or at the session's end.
LEMMA ExitIsChecked ==
    ASSUME NEW d, Books(d), PositionOpen(d), NEW t \in Int, NEW price \in Int, NEW opinion
    PROVE  LET e == ExitChecked(d, t, price, opinion) IN
           Books(e) /\ Within(e) /\ AtMostOne(d, e)
<1> DEFINE p      == d.position.plan
           marked == [d EXCEPT !.position.last = price, !.position.lastAt = t]
           e      == ExitChecked(d, t, price, opinion)
<1> SUFFICES Books(e) /\ Within(e) /\ AtMostOne(d, e)
  OBVIOUS
<1>1. d \in Desks /\ d.position \in PaperPositions /\ d.position # None
  BY DEF Books, PositionOpen, Desks
<1>2. /\ marked = [order |-> d.order, position |-> [d.position EXCEPT !.last = price, !.lastAt = t],
                   records |-> d.records, processed |-> d.processed, counts |-> d.counts]
  <2> DEFINE m == [d EXCEPT !.position.last = price]
  <2>1. m = [order |-> d.order, position |-> [d.position EXCEPT !.last = price], records |-> d.records,
             processed |-> d.processed, counts |-> d.counts]
    BY <1>1 DEF Desks
  <2>2. marked = [m EXCEPT !.position.lastAt = t]
    OBVIOUS
  <2> HIDE DEF m, marked
  <2> QED BY <2>1, <2>2
<1> HIDE DEF marked
<1>3. /\ marked.position \in PaperPositions /\ marked.position.plan = p /\ marked.position.open = d.position.open
      /\ marked.position.last = price /\ marked.position.lastAt = t /\ marked.position.at = d.position.at
      /\ marked.position.entry = d.position.entry /\ marked.position # None
      /\ marked.order = d.order /\ marked.records = d.records /\ marked.processed = d.processed
      /\ marked.counts = d.counts
  BY <1>1, <1>2, NoneIsNoOrder DEF PaperPositions
<1>4. marked \in Desks /\ PositionOpen(marked) /\ (OrderPending(marked) <=> OrderPending(d))
  BY <1>1, <1>2, <1>3 DEF Desks, PositionOpen, OrderPending
<1>5. Books(marked)
  BY <1>3, <1>4 DEF Books, Untold
<1>6. p \in Plans
  BY <1>1 DEF PaperPositions
<1>7. ASSUME NEW exit \in Int,
             NEW type \in {"stop_loss", "target", "strategy_invalidated", "session_close", "system_shutdown"},
             /\ type # "system_shutdown" => IF Bullish(p) THEN exit <= p.target ELSE exit >= p.target
             /\ type = "stop_loss" => IF Bullish(p) THEN exit <= p.stop ELSE exit >= p.stop
             /\ type = "target" => exit = p.target,
             e = Closed(marked, t, exit, type)
      PROVE  Books(e) /\ Within(e) /\ AtMostOne(d, e)
  <2>1. Books(e) /\ AtMostOne(marked, e) /\ ((e = marked /\ t < marked.position.at) \/ ~PositionOpen(e))
    BY <1>3, <1>4, <1>5, <1>7, BookingIsSound
  <2> HIDE DEF e
  <2> QED BY <1>3, <2>1 DEF Within, AtMostOne
<1>8. CASE StopReached(p, price)
  <2>1. e = Closed(marked, t, StopExit(p, price), "stop_loss")
    BY <1>8 DEF ExitChecked, marked
  <2>2. /\ StopExit(p, price) \in Int
        /\ IF Bullish(p) THEN StopExit(p, price) <= p.stop ELSE StopExit(p, price) >= p.stop
        /\ IF Bullish(p) THEN StopExit(p, price) <= p.target ELSE StopExit(p, price) >= p.target
    BY <1>6, PlanIsSound DEF StopExit, Lesser, Larger
  <2> HIDE DEF e, p
  <2> QED BY <1>7, <2>1, <2>2
<1>9. CASE ~StopReached(p, price) /\ TargetReached(p, price)
  <2>1. e = Closed(marked, t, p.target, "target")
    BY <1>9 DEF ExitChecked, marked
  <2>2. p.target \in Int
    BY <1>6, PlanIsSound
  <2> HIDE DEF e, p
  <2> QED BY <1>7, <2>1, <2>2
<1>10. CASE ~StopReached(p, price) /\ ~TargetReached(p, price)
  <2>1. \/ e = Closed(marked, t, price, "strategy_invalidated")
        \/ e = Closed(marked, t, price, "session_close")
        \/ e = marked
    BY <1>10 DEF ExitChecked, marked
  <2>2. /\ IF Bullish(p) THEN price <= p.target ELSE price >= p.target
        /\ SoundPosition(p, price)
    BY <1>6, <1>10, PlanIsSound DEF StopReached, TargetReached, SoundPosition
  <2>3. Within(marked) /\ AtMostOne(d, marked)
    BY <1>3, <2>2 DEF Within, AtMostOne
  <2> HIDE DEF e, p
  <2> QED BY <1>5, <1>7, <2>1, <2>2, <2>3
<1> QED BY <1>8, <1>9, <1>10

LEMMA TickIsHandled ==
    ASSUME NEW d, Books(d), Within(d), latest = None \/ latest \in Int, NEW t \in Int, NEW price \in Int,
           NEW opinion, NEW approved
    PROVE  LET e == TickHandled(d, t, price, opinion, approved) IN
           Books(e) /\ Within(e) /\ AtMostOne(d, e)
<1> DEFINE checked == PendingChecked(d, t, price, opinion, approved)
           filled  == IF OrderPending(checked) /\ EntryTriggered(checked.order.plan, latest, price)
                        THEN Triggered(checked, t, price) ELSE checked
           e       == TickHandled(d, t, price, opinion, approved)
<1>1. e = IF PositionOpen(filled) THEN ExitChecked(filled, t, price, opinion) ELSE filled
  BY DEF TickHandled
<1>2. Books(checked) /\ Within(checked) /\ checked.records = d.records
  BY PendingIsChecked
<1> HIDE DEF checked, e
<1>3. Books(filled) /\ Within(filled) /\ filled.records = d.records
  BY <1>2, TriggeringIsSound
<1> HIDE DEF filled
<1>4. Books(e) /\ Within(e) /\ AtMostOne(filled, e)
  BY <1>1, <1>3, ExitIsChecked DEF AtMostOne
<1> QED BY <1>3, <1>4 DEF AtMostOne, e

LEMMA CandleExitIsSound ==
    ASSUME NEW d, Books(d), Within(d), PositionOpen(d), NEW t \in Int, NEW low \in Int, NEW high \in Int, NEW close \in Int
    PROVE  LET e == CandleExit(d, t, low, high, close) IN
           Books(e) /\ Within(e) /\ AtMostOne(d, e)
<1> DEFINE p == d.position.plan
           e == CandleExit(d, t, low, high, close)
<1> SUFFICES Books(e) /\ Within(e) /\ AtMostOne(d, e)
  OBVIOUS
<1>1. p \in Plans
  BY DEF Books, PositionOpen, Desks, PaperPositions
<1>2. \/ e = Closed(d, t, StopExit(p, p.stop), "stop_loss")
      \/ e = Closed(d, t, StopExit(p, close), "stop_loss")
      \/ e = Closed(d, t, p.target, "target")
      \/ e = d
  BY DEF CandleExit
<1>3. /\ p.target \in Int /\ p.stop \in Int
      /\ \A price \in Int :
            /\ StopExit(p, price) \in Int
            /\ IF Bullish(p) THEN StopExit(p, price) <= p.stop ELSE StopExit(p, price) >= p.stop
            /\ IF Bullish(p) THEN StopExit(p, price) <= p.target ELSE StopExit(p, price) >= p.target
  BY <1>1, PlanIsSound DEF StopExit, Lesser, Larger
<1> HIDE DEF p, e
<1>4. ASSUME NEW exit \in Int, NEW type \in {"stop_loss", "target"}, e = Closed(d, t, exit, type),
             IF Bullish(p) THEN exit <= p.target ELSE exit >= p.target,
             type = "stop_loss" => IF Bullish(p) THEN exit <= p.stop ELSE exit >= p.stop,
             type = "target" => exit = p.target
      PROVE  Books(e) /\ Within(e) /\ AtMostOne(d, e)
  <2>1. Books(e) /\ AtMostOne(d, e) /\ (e = d \/ ~PositionOpen(e))
    BY <1>4, BookingIsSound DEF p
  <2> QED BY <2>1 DEF Within
<1> QED BY <1>2, <1>3, <1>4 DEF AtMostOne

LEMMA CandleIsHandled ==
    ASSUME Books(desk), Within(desk), NEW t \in Int, NEW low \in Int, NEW high \in Int, NEW close \in Int,
           NEW opinion, NEW approved, OnCandle(t, low, high, close, opinion, approved)
    PROVE  Books(desk') /\ Within(desk') /\ AtMostOne(desk, desk') /\ UNCHANGED latest
<1> DEFINE checked == PendingChecked(desk, t, close, opinion, approved)
           filled  == IF OrderPending(checked) /\ low <= checked.order.plan.entry
                                               /\ checked.order.plan.entry <= high
                        THEN Triggered(checked, t, EntryFill(checked.order.plan, close)) ELSE checked
<1>1. desk' = (IF PositionOpen(filled) THEN CandleExit(filled, t, low, high, close) ELSE filled) /\ UNCHANGED latest
  BY DEF OnCandle
<1>2. Books(checked) /\ Within(checked) /\ checked.records = desk.records
  BY PendingIsChecked
<1> HIDE DEF checked
<1>3. OrderPending(checked) => EntryFill(checked.order.plan, close) \in Int
  <2>1. OrderPending(checked) => checked.order.plan \in Plans
    BY <1>2 DEF Books, OrderPending, Desks, PaperOrders
  <2> QED BY <2>1, PlanIsSound, MarketIsRead DEF EntryFill, Larger, Lesser
<1>4. Books(filled) /\ Within(filled) /\ filled.records = desk.records
  BY <1>2, <1>3, TriggeringIsSound
<1> HIDE DEF filled
<1>5. Books(desk') /\ Within(desk') /\ AtMostOne(filled, desk')
  <2>1. CASE PositionOpen(filled)
    <3>1. desk' = CandleExit(filled, t, low, high, close)
      BY <1>1, <2>1
    <3> QED BY <1>4, <2>1, <3>1, CandleExitIsSound
  <2>2. CASE ~PositionOpen(filled)
    <3>1. desk' = filled
      BY <1>1, <2>2
    <3> QED BY <1>4, <3>1 DEF AtMostOne
  <2> QED BY <2>1, <2>2
<1> QED BY <1>1, <1>4, <1>5 DEF AtMostOne

LEMMA ShutdownIsSound ==
    ASSUME Books(desk), Within(desk), latest = None \/ latest \in Int, NEW t \in Int, ShutdownPaper(t)
    PROVE  Books(desk') /\ Within(desk') /\ AtMostOne(desk, desk') /\ UNCHANGED latest
<1>1. desk' = ShutdownAt(desk, t) /\ UNCHANGED latest
  BY DEF ShutdownPaper
<1>2. CASE PositionOpen(desk)
  <2> DEFINE exit == IF latest = None THEN desk.position.last ELSE latest
  <2>1. ~OrderPending(desk)
    BY <1>2 DEF Books
  <2>2. desk' = desk \/ desk' = Closed(desk, t, exit, "system_shutdown")
    BY <1>1, <1>2, <2>1 DEF ShutdownAt
  <2>3. exit \in Int
    BY <1>2 DEF Books, PositionOpen, Desks, PaperPositions
  <2> HIDE DEF exit
  <2>4. CASE desk' = Closed(desk, t, exit, "system_shutdown")
    <3>1. /\ Books(desk') /\ AtMostOne(desk, desk')
          /\ desk' = desk \/ ~PositionOpen(desk')
      BY <1>2, <2>3, <2>4, BookingIsSound
    <3> QED BY <1>1, <3>1 DEF Within
  <2> QED BY <1>1, <2>2, <2>4 DEF AtMostOne
<1>3. CASE ~PositionOpen(desk)
  <2>1. desk' = desk \/ (OrderPending(desk) /\ desk' = Cancelled(desk))
    BY <1>1, <1>3 DEF ShutdownAt
  <2>2. CASE OrderPending(desk) /\ desk' = Cancelled(desk)
    BY <1>1, <2>2, OrderLeaves DEF Cancelled, Within, AtMostOne
  <2> QED BY <1>1, <2>1, <2>2 DEF AtMostOne
<1> QED BY <1>2, <1>3

LEMMA PlanIsReceived ==
    ASSUME Books(desk), NEW p \in Plans, ReceivePlan(p)
    PROVE  Books(desk') /\ Within(desk') /\ desk'.records = desk.records /\ UNCHANGED latest
<1> DEFINE new == [plan |-> p, state |-> "pending"]
           m == [desk EXCEPT !.order = new, !.processed = @ \cup {p.id}]
<1>1. /\ desk' = [m EXCEPT !.counts = [m.counts EXCEPT !["created"] = @ + 1]] /\ UNCHANGED latest
      /\ ~OrderPending(desk) /\ ~PositionOpen(desk) /\ p.id \notin desk.processed
  BY DEF ReceivePlan, Counted
<1>2. desk \in Desks
  BY DEF Books
<1>3. new \in PaperOrders /\ new.plan = p /\ new.state = "pending"
  BY DEF PaperOrders
<1>4. new # None
  BY <1>3, NoneIsNoOrder
<1> HIDE DEF new
<1>5. m = [order |-> new, position |-> desk.position, records |-> desk.records,
           processed |-> desk.processed \cup {p.id}, counts |-> desk.counts]
  <2> DEFINE m1 == [desk EXCEPT !.order = new]
  <2>1. m1 = [order |-> new, position |-> desk.position, records |-> desk.records,
              processed |-> desk.processed, counts |-> desk.counts]
    BY <1>2 DEF Desks
  <2>2. m = [m1 EXCEPT !.processed = desk.processed \cup {p.id}]
    BY <1>2 DEF Desks
  <2> HIDE DEF m1, m
  <2> QED BY <2>1, <2>2
<1> HIDE DEF m
<1>6. /\ desk'.order = new /\ desk'.position = desk.position /\ desk'.records = desk.records
      /\ desk'.processed = desk.processed \cup {p.id}
      /\ desk'.counts = [desk.counts EXCEPT !["created"] = @ + 1]
      /\ desk' = [order |-> desk'.order, position |-> desk'.position, records |-> desk'.records,
                  processed |-> desk'.processed, counts |-> desk'.counts]
  BY <1>1, <1>5
<1>7. /\ desk'.counts \in [created : Int, triggered : Int, cancelled : Int, expired : Int, opened : Int, closed : Int]
      /\ desk'.counts.created = desk.counts.created + 1 /\ desk'.counts.triggered = desk.counts.triggered
      /\ desk'.counts.cancelled = desk.counts.cancelled /\ desk'.counts.expired = desk.counts.expired
      /\ desk'.counts.closed = desk.counts.closed /\ desk'.counts.opened = desk.counts.opened
  BY <1>2, <1>6 DEF Desks
<1>8. desk' \in Desks
  BY <1>2, <1>3, <1>6, <1>7 DEF Desks
<1>9. OrderPending(desk') /\ ~PositionOpen(desk')
  BY <1>1, <1>3, <1>4, <1>6 DEF OrderPending, PositionOpen
<1>10. IsFiniteSet(desk'.processed) /\ desk'.counts.created = Cardinality(desk'.processed)
  <2>1. IsFiniteSet(desk.processed) /\ desk.counts.created = Cardinality(desk.processed)
    BY DEF Books
  <2>2. /\ IsFiniteSet(desk.processed \cup {p.id})
        /\ Cardinality(desk.processed \cup {p.id}) = Cardinality(desk.processed) + 1
    BY <1>1, <2>1, FS_AddElement
  <2> QED BY <1>6, <1>7, <2>1, <2>2
<1>11. desk'.counts.created = desk'.counts.triggered + desk'.counts.cancelled + desk'.counts.expired
                                 + (IF OrderPending(desk') THEN 1 ELSE 0)
  BY <1>1, <1>2, <1>7, <1>9 DEF Books, Desks
<1>12. Untold(desk', desk'.order.plan)
  BY <1>1, <1>3, <1>6 DEF Books, Untold
<1>13. /\ IsFiniteSet(desk'.records) /\ desk'.counts.closed = Cardinality(desk'.records)
       /\ \A r, s \in desk'.records : r.plan.id = s.plan.id => r = s
       /\ \A r \in desk'.records : r.plan.id \in desk'.processed /\ Honest(r)
       /\ desk'.counts.opened = desk'.counts.closed + (IF PositionOpen(desk') THEN 1 ELSE 0)
  BY <1>1, <1>6, <1>7, <1>9 DEF Books
<1>14. Books(desk')
  BY <1>8, <1>9, <1>10, <1>11, <1>12, <1>13 DEF Books
<1> QED BY <1>1, <1>6, <1>9, <1>14 DEF Within

LEMMA EmptyIsSound == Books(EmptyDesk) /\ Within(EmptyDesk)
<1>1. /\ EmptyDesk \in Desks /\ EmptyDesk.order = None /\ EmptyDesk.position = None
      /\ EmptyDesk.records = {} /\ EmptyDesk.processed = {} /\ EmptyDesk.counts = NoCounts
  BY DEF EmptyDesk, Desks, NoCounts
<1>2. ~OrderPending(EmptyDesk) /\ ~PositionOpen(EmptyDesk)
  BY <1>1 DEF OrderPending, PositionOpen
<1> QED BY <1>1, <1>2, FS_EmptySet DEF Books, Within, NoCounts

BooksIInv == Books(desk) /\ Within(desk) /\ (latest = None \/ latest \in Int)

LEMMA PublishersAreSound ==
    ASSUME BooksIInv,
           \/ \E t \in TickTimes, price \in TickPrices, o \in Opinions, approved \in BOOLEAN : OnTick(t, price, o, approved)
           \/ \E t \in time .. time + DayTimes, c \in Candles, o \in Opinions, approved \in BOOLEAN :
                  OnCandle(t, c[1], c[2], c[3], o, approved)
           \/ \E t \in {time - 1, time} \cap Nat : ShutdownPaper(t)
    PROVE  BooksIInv' /\ AtMostOne(desk, desk')
<1>1. ASSUME NEW t \in TickTimes, NEW price \in TickPrices, NEW opinion, NEW approved,
             OnTick(t, price, opinion, approved)
      PROVE  BooksIInv' /\ AtMostOne(desk, desk')
  <2>1. t \in Int /\ price \in Int
    BY MarketIsRead DEF TickTimes
  <2>2. desk' = TickHandled(desk, t, price, opinion, approved) /\ latest' = price
    BY <1>1 DEF OnTick
  <2> QED BY <2>1, <2>2, TickIsHandled DEF BooksIInv
<1>2. ASSUME NEW t \in time .. time + DayTimes, NEW c \in Candles, NEW opinion, NEW approved,
             OnCandle(t, c[1], c[2], c[3], opinion, approved)
      PROVE  BooksIInv' /\ AtMostOne(desk, desk')
  <2>1. c[1] \in Int /\ c[2] \in Int /\ c[3] \in Int /\ t \in Int
    BY CandlesAreRead
  <2> QED BY <1>2, <2>1, CandleIsHandled DEF BooksIInv
<1>3. ASSUME NEW t \in {time - 1, time} \cap Nat, ShutdownPaper(t)
      PROVE  BooksIInv' /\ AtMostOne(desk, desk')
  <2>1. t \in Int
    OBVIOUS
  <2> QED BY <1>3, <2>1, ShutdownIsSound DEF BooksIInv
<1> QED BY <1>1, <1>2, <1>3

\* Every step is a publisher's, takes on a plan, forgets the desk or leaves it alone.
LEMMA StepsOfTrading ==
    ASSUME BooksIInv, [TradingNext]_tradingVars
    PROVE  /\ BooksIInv'
           /\ \/ AtMostOne(desk, desk') /\ Publishes
              \/ desk'.records = desk.records /\ UNCHANGED journalVars
              \/ UNCHANGED desk /\ ClearJournal
              \/ desk' = EmptyDesk /\ ResetAll
              \/ desk' = EmptyDesk /\ Restarted(file)
              \/ desk' = EmptyDesk /\ Persistent /\ \E r \in PaperRecords : \E f \in TornAppends(file, r) : Restarted(f)
<1> DEFINE Kind ==
             \/ AtMostOne(desk, desk') /\ Publishes
             \/ desk'.records = desk.records /\ UNCHANGED journalVars
             \/ UNCHANGED desk /\ ClearJournal
             \/ desk' = EmptyDesk /\ ResetAll
             \/ desk' = EmptyDesk /\ Restarted(file)
             \/ desk' = EmptyDesk /\ Persistent /\ \E r \in PaperRecords : \E f \in TornAppends(file, r) : Restarted(f)
<1> SUFFICES BooksIInv' /\ Kind
  OBVIOUS
<1>1. ASSUME NEW p \in Plans, PlanOffered(p)
      PROVE  BooksIInv' /\ Kind
  BY <1>1, PlanIsReceived DEF PlanOffered, BooksIInv
<1>2. ASSUME NEW t \in TickTimes, NEW price \in TickPrices, NEW o \in Opinions, NEW approved \in BOOLEAN,
             MarketTick(t, price, o, approved)
      PROVE  BooksIInv' /\ Kind
  <2>1. OnTick(t, price, o, approved) /\ Publishes
    BY <1>2 DEF MarketTick
  <2> QED BY <2>1, PublishersAreSound
<1>3. ASSUME NEW t \in time .. time + DayTimes, NEW c \in Candles, NEW o \in Opinions, NEW approved \in BOOLEAN,
             MarketCandle(t, c[1], c[2], c[3], o, approved)
      PROVE  BooksIInv' /\ Kind
  <2>1. OnCandle(t, c[1], c[2], c[3], o, approved) /\ Publishes
    BY <1>3 DEF MarketCandle
  <2> QED BY <2>1, PublishersAreSound
<1>4. ASSUME NEW t \in {time - 1, time} \cap Nat, StopPaper(t)
      PROVE  BooksIInv' /\ Kind
  <2>1. ShutdownPaper(t) /\ Publishes
    BY <1>4 DEF StopPaper
  <2> QED BY <2>1, PublishersAreSound
<1>5. ASSUME desk' = EmptyDesk, latest' = None PROVE BooksIInv'
  BY <1>5, EmptyIsSound DEF BooksIInv
<1>6. ASSUME NEW t \in TickTimes, NEW price \in TickPrices, CrashInAppend(t, price)
      PROVE  BooksIInv' /\ Kind
  <2>1. t \in Int /\ price \in Int
    BY MarketIsRead DEF TickTimes
  <2>2. TickHandled(desk, t, price, None, TRUE) \in Desks
    BY <2>1, TickIsHandled DEF BooksIInv, Books
  <2>3. TickHandled(desk, t, price, None, TRUE).records \subseteq PaperRecords
    BY <2>2 DEF Desks
  <2>4. Persistent /\ \E r \in PaperRecords : \E f \in TornAppends(file, r) : Restarted(f)
    BY <1>6, <2>3 DEF CrashInAppend
  <2>5. desk' = EmptyDesk /\ latest' = None
    BY <2>4 DEF Restarted
  <2> QED BY <1>5, <2>4, <2>5
<1>7. ASSUME ResetAll \/ Restart PROVE BooksIInv' /\ Kind
  <2>1. desk' = EmptyDesk /\ latest' = None
    BY <1>7 DEF ResetAll, ResetPaper, Restart, Restarted
  <2> QED BY <1>5, <1>7, <2>1 DEF Restart
<1>8. ASSUME ClearJournal \/ UNCHANGED tradingVars PROVE BooksIInv' /\ Kind
  <2>1. UNCHANGED <<desk, latest>>
    BY <1>8 DEF ClearJournal, paperVars, tradingVars
  <2> QED BY <1>8, <2>1 DEF tradingVars, journalVars, BooksIInv
<1> HIDE DEF Kind
<1> QED BY <1>1, <1>2, <1>3, <1>4, <1>6, <1>7, <1>8 DEF TradingNext

\* The paper books account for every order, position and plan, and no result is better than the market
\* allowed (engines/paper_trading/engine.py), for every set of plans, prices, candles and opinions,
\* every configuration of slippage and fees, and ticks of any order.
THEOREM BooksStayHonest == TradingSpec => []PaperBooksAreHonest
<1>1. TradingJournalInit => BooksIInv
  BY EmptyIsSound DEF TradingJournalInit, TradingInit, BooksIInv
<1>2. BooksIInv => PaperBooksAreHonest
  <2> SUFFICES ASSUME BooksIInv PROVE PaperBooksAreHonest
    OBVIOUS
  <2>1. EveryOrderAccountedFor
    BY DEF EveryOrderAccountedFor, BooksIInv, Books
  <2>2. ResultsNeverFlatter
    BY DEF ResultsNeverFlatter, BooksIInv, Books, Within, Honest
  <2> QED BY <2>1, <2>2 DEF PaperBooksAreHonest
<1>3. BooksIInv /\ [TradingNext]_tradingVars => BooksIInv'
  BY StepsOfTrading
<1> QED BY <1>1, <1>2, <1>3, PTL DEF TradingSpec
-------------------------------------------------------------------------------
(* The performance journal: what a line may tell, and what is read of a file *)

Single(S) == \A r, s \in S : r = s

Files == [lines : Seq({S \in SUBSET PaperRecords : Single(S)}),
          torn : {S \in SUBSET PaperRecords : Single(S)} \cup {None}]

OnLines(f, r) == \E i \in DOMAIN AllLines(f) : r \in AllLines(f)[i]

RepeatedAt(lines, i) == \E j \in 1 .. i - 1 : \E r \in lines[i], s \in lines[j] : SameTrade(r, s)

LEMMA LoadedIs ==
    ASSUME NEW f, NEW r
    PROVE  r \in Loaded(f) <=> \E i \in DOMAIN AllLines(f) : r \in AllLines(f)[i] /\ ~RepeatedAt(AllLines(f), i)
BY DEF Loaded, RepeatedAt

LEMMA LinesAre ==
    ASSUME NEW f \in Files
    PROVE  /\ AllLines(f) \in Seq({S \in SUBSET PaperRecords : Single(S)})
           /\ f.torn = None => AllLines(f) = f.lines
<1>1. f.lines \in Seq({S \in SUBSET PaperRecords : Single(S)}) /\ (f.torn # None => f.torn \in {S \in SUBSET PaperRecords : Single(S)})
  BY DEF Files
<1>2. Append(f.lines, f.torn) \in Seq({S \in SUBSET PaperRecords : Single(S)}) \/ f.torn = None
  BY <1>1, AppendProperties
<1> QED BY <1>1, <1>2 DEF AllLines

LEMMA SequencesHave ==
    ASSUME NEW S, NEW s \in Seq(S)
    PROVE  DOMAIN s = 1 .. Len(s) /\ Len(s) \in Nat /\ \A i \in DOMAIN s : s[i] \in S
BY LenProperties, ElementOfSeq

LEMMA LinesTellOneTrade ==
    ASSUME NEW f \in Files
    PROVE  /\ DOMAIN AllLines(f) = 1 .. Len(AllLines(f)) /\ Len(AllLines(f)) \in Nat
           /\ \A i \in DOMAIN AllLines(f) : AllLines(f)[i] \subseteq PaperRecords /\ Single(AllLines(f)[i])
<1> DEFINE T == {S \in SUBSET PaperRecords : Single(S)}
<1>1. AllLines(f) \in Seq(T)
  BY LinesAre
<1>2. \A S \in T : S \subseteq PaperRecords /\ Single(S)
  OBVIOUS
<1> HIDE DEF T
<1> QED BY <1>1, <1>2, SequencesHave

\* What is read of a file has each trade once, and all of it is on a line.
LEMMA LoadedOnce ==
    ASSUME NEW f \in Files
    PROVE  /\ \A r, s \in Loaded(f) : SameTrade(r, s) => r = s
           /\ \A r \in Loaded(f) : OnLines(f, r)
           /\ Loaded(f) \subseteq PaperRecords
<1> DEFINE lines == AllLines(f)
<1>1. /\ DOMAIN lines = 1 .. Len(lines) /\ Len(lines) \in Nat
      /\ \A i \in DOMAIN lines : lines[i] \subseteq PaperRecords /\ Single(lines[i])
  BY LinesTellOneTrade
<1>2. \A r \in Loaded(f) : OnLines(f, r) /\ r \in PaperRecords
  BY <1>1, LoadedIs DEF OnLines
<1>3. ASSUME NEW r \in Loaded(f), NEW s \in Loaded(f), SameTrade(r, s) PROVE r = s
  <2>1. PICK i \in DOMAIN lines : r \in lines[i] /\ ~RepeatedAt(lines, i)
    BY LoadedIs
  <2>2. PICK j \in DOMAIN lines : s \in lines[j] /\ ~RepeatedAt(lines, j)
    BY LoadedIs
  <2>3. SameTrade(s, r)
    BY <1>3 DEF SameTrade
  <2> HIDE DEF lines
  <2>4. ~(i < j)
    <3>1. i < j => i \in 1 .. j - 1
      BY <1>1
    <3> QED BY <2>1, <2>2, <2>3, <3>1 DEF RepeatedAt
  <2>5. ~(j < i)
    <3>1. j < i => j \in 1 .. i - 1
      BY <1>1
    <3> QED BY <1>3, <2>1, <2>2, <3>1 DEF RepeatedAt
  <2>6. i = j
    BY <1>1, <2>4, <2>5
  <2> QED BY <1>1, <2>1, <2>2, <2>6 DEF Single
<1> QED BY <1>2, <1>3

\* The first of the trades with an identifier is read.
LEMMA FirstIsLoaded ==
    ASSUME NEW f \in Files, NEW r, OnLines(f, r)
    PROVE  \E k \in Loaded(f) : SameTrade(k, r)
<1> DEFINE lines == AllLines(f)
           At == {i \in DOMAIN lines : \E s \in lines[i] : SameTrade(s, r)}
<1>1. DOMAIN lines = 1 .. Len(lines) /\ Len(lines) \in Nat
  BY LinesTellOneTrade
<1>2. At # {}
  BY DEF OnLines, SameTrade
<1>3. At \subseteq Int /\ IsFiniteSet(At)
  <2>1. IsFiniteSet(1 .. Len(lines))
    BY <1>1, FS_Interval
  <2> QED BY <1>1, <2>1, FS_Subset
<1> HIDE DEF At
<1>4. PICK i \in At : \A j \in At : i <= j
  BY <1>2, <1>3, FiniteHasLeast DEF HasLeast
<1>5. PICK s \in lines[i] : SameTrade(s, r)
  BY <1>4 DEF At
<1>6. ~RepeatedAt(lines, i)
  <2> SUFFICES ASSUME NEW j \in 1 .. i - 1, NEW a \in lines[i], NEW b \in lines[j], SameTrade(a, b)
               PROVE  FALSE
    BY DEF RepeatedAt
  <2>1. i \in DOMAIN lines
    BY DEF At
  <2>2. j \in DOMAIN lines /\ j < i
    BY <1>1, <2>1
  <2>3. Single(lines[i])
    BY <2>1, LinesTellOneTrade
  <2>4. SameTrade(b, r)
    BY <1>5, <2>3 DEF Single, SameTrade
  <2>5. j \in At
    BY <2>2, <2>4 DEF At
  <2>6. i \in Int /\ j \in Int
    BY <1>1, <2>1, <2>2
  <2> QED BY <1>4, <2>2, <2>5, <2>6
<1>7. i \in DOMAIN lines
  BY DEF At
<1> QED BY <1>5, <1>6, <1>7, LoadedIs

\* A line that is appended to a file without an unfinished one hides nothing, and is read unless an
\* earlier line has its trade.
LEMMA AppendedIsLoaded ==
    ASSUME NEW f \in Files, f.torn = None, NEW r \in PaperRecords
    PROVE  LET g == Appended(f, r) IN
           /\ g \in Files /\ g.torn = None
           /\ \A s : OnLines(g, s) => OnLines(f, s) \/ s = r
           /\ Loaded(f) \subseteq Loaded(g)
           /\ (\A s : OnLines(f, s) => ~SameTrade(r, s)) => r \in Loaded(g)
<1> DEFINE g == Appended(f, r)
           old == AllLines(f)
           new == AllLines(g)
<1>1. g = [lines |-> Append(f.lines, {r}), torn |-> None]
  BY DEF Appended
<1>2. /\ f.lines \in Seq({S \in SUBSET PaperRecords : Single(S)}) /\ {r} \in {S \in SUBSET PaperRecords : Single(S)}
      /\ old = f.lines
  BY LinesAre DEF Files, Single
<1>3. g \in Files /\ g.torn = None
  <2>1. Append(f.lines, {r}) \in Seq({S \in SUBSET PaperRecords : Single(S)})
    BY <1>2, AppendProperties
  <2> QED BY <1>1, <2>1 DEF Files
<1>4. new = Append(f.lines, {r})
  BY <1>1, <1>3, LinesAre
<1>5. /\ DOMAIN old = 1 .. Len(old) /\ DOMAIN new = 1 .. Len(old) + 1 /\ Len(old) \in Nat
      /\ \A i \in 1 .. Len(old) : new[i] = old[i]
      /\ new[Len(old) + 1] = {r}
  BY <1>2, <1>4, AppendProperties, SequencesHave
<1> HIDE DEF new, old, g
<1>6. \A i \in 1 .. Len(old) : RepeatedAt(new, i) <=> RepeatedAt(old, i)
  <2> SUFFICES ASSUME NEW i \in 1 .. Len(old) PROVE RepeatedAt(new, i) <=> RepeatedAt(old, i)
    OBVIOUS
  <2>1. new[i] = old[i] /\ \A j \in 1 .. i - 1 : new[j] = old[j]
    BY <1>5
  <2> QED BY <2>1 DEF RepeatedAt
<1>7. ASSUME NEW s, OnLines(g, s) PROVE OnLines(f, s) \/ s = r
  <2>1. PICK i \in 1 .. Len(old) + 1 : s \in new[i]
    BY <1>5, <1>7 DEF OnLines, new
  <2>2. i \in 1 .. Len(old) \/ i = Len(old) + 1
    BY <1>5
  <2> QED BY <1>5, <2>1, <2>2 DEF OnLines, old
<1>8. ASSUME NEW s \in Loaded(f) PROVE s \in Loaded(g)
  <2>1. PICK i \in 1 .. Len(old) : s \in old[i] /\ ~RepeatedAt(old, i)
    BY <1>5, LoadedIs DEF old
  <2>2. i \in DOMAIN new /\ s \in new[i] /\ ~RepeatedAt(new, i)
    BY <1>5, <1>6, <2>1
  <2> QED BY <2>2, LoadedIs DEF new
<1>9. ASSUME \A s : OnLines(f, s) => ~SameTrade(r, s) PROVE r \in Loaded(g)
  <2>1. ~RepeatedAt(new, Len(old) + 1)
    <3> SUFFICES ASSUME NEW j \in 1 .. Len(old) + 1 - 1, NEW a \in new[Len(old) + 1], NEW b \in new[j], SameTrade(a, b)
                 PROVE  FALSE
      BY DEF RepeatedAt
    <3>1. j \in 1 .. Len(old) /\ a = r
      BY <1>5
    <3>2. b \in old[j]
      BY <1>5, <3>1
    <3>3. OnLines(f, b)
      BY <1>5, <3>1, <3>2 DEF OnLines, old
    <3> QED BY <1>9, <3>1, <3>3
  <2>2. Len(old) + 1 \in DOMAIN new
    BY <1>5
  <2> QED BY <1>5, <2>1, <2>2, LoadedIs DEF new
<1> QED BY <1>3, <1>7, <1>8, <1>9 DEF g

Journals ==
    [kept : SUBSET PaperRecords, shown : SUBSET PaperRecords, accepted : Int, duplicates : Int, conflicts : Int]

LEMMA WritesAreFiles ==
    ASSUME NEW f \in Files, NEW r \in PaperRecords
    PROVE  /\ Appended(f, r) \in Files /\ Appended(f, r).torn = None
           /\ \A g \in TornAppends(f, r) : g \in Files /\ (f.torn = None /\ g.torn = None => g = f)
<1> DEFINE T == {S \in SUBSET PaperRecords : Single(S)}
<1>1. f.lines \in Seq(T) /\ {r} \in T /\ {} \in T /\ f = [lines |-> f.lines, torn |-> f.torn]
  BY DEF Files, Single
<1> HIDE DEF T
<1>2. Append(f.lines, {r}) \in Seq(T) /\ Append(f.lines, {}) \in Seq(T)
  BY <1>1, AppendProperties
<1>3. Appended(f, r) \in [lines : Seq(T), torn : T \cup {None}] /\ Appended(f, r).torn = None
  BY <1>2 DEF Appended
<1>4. ASSUME NEW g \in TornAppends(f, r)
      PROVE  g \in [lines : Seq(T), torn : T \cup {None}] /\ (f.torn = None /\ g.torn = None => g = f)
  <2>1. \E S \in {{r}, {}} : g = [f EXCEPT !.torn = S]
    BY <1>4 DEF TornAppends
  <2>2. PICK S \in {{r}, {}} : g = [lines |-> f.lines, torn |-> S]
    BY <1>1, <2>1
  <2> QED BY <1>1, <2>2
<1> QED BY <1>3, <1>4 DEF Files, T

\* What becomes of a trade that is published, and of the file.
Outcome(j, f, r, o) ==
    /\ o.journal \in Journals /\ o.journal.shown = o.journal.kept
    /\ \/ /\ o.journal.kept = j.kept
          /\ o.lost = IF r \in j.kept THEN {} ELSE {r}
       \/ /\ o.journal.kept = j.kept \cup {r} /\ o.lost = {}
          /\ Persistent => o.file = Appended(f, r)
          /\ \A s \in j.kept : ~SameTrade(r, s)
    /\ \/ o.file = f /\ (Persistent => o.journal.kept = j.kept)
       \/ o.file = Appended(f, r) /\ \A s \in j.kept : ~SameTrade(r, s)
       \/ o.file \in TornAppends(f, r) /\ o.journal.kept = j.kept

LEMMA RecordingIs ==
    ASSUME NEW j \in Journals, j.shown = j.kept, NEW f \in Files, NEW r \in PaperRecords, NEW o \in Recorded(j, f, r)
    PROVE  Outcome(j, f, r, o)
<1> USE DEF Outcome
<1>1. CASE r \in j.kept
  <2>1. o = [journal |-> [j EXCEPT !.duplicates = @ + 1], file |-> f, lost |-> {}]
    BY <1>1 DEF Recorded
  <2>2. /\ [j EXCEPT !.duplicates = @ + 1] \in Journals
        /\ [j EXCEPT !.duplicates = @ + 1].kept = j.kept /\ [j EXCEPT !.duplicates = @ + 1].shown = j.kept
    BY DEF Journals
  <2> QED BY <1>1, <2>1, <2>2
<1>2. CASE r \notin j.kept /\ \E s \in j.kept : SameTrade(r, s)
  <2>1. o = [journal |-> [j EXCEPT !.conflicts = @ + 1], file |-> f, lost |-> {r}]
    BY <1>2 DEF Recorded
  <2>2. /\ [j EXCEPT !.conflicts = @ + 1] \in Journals
        /\ [j EXCEPT !.conflicts = @ + 1].kept = j.kept /\ [j EXCEPT !.conflicts = @ + 1].shown = j.kept
    BY DEF Journals
  <2> QED BY <1>2, <2>1, <2>2
<1>3. CASE r \notin j.kept /\ ~\E s \in j.kept : SameTrade(r, s)
  <2> DEFINE new == [j EXCEPT !.kept = @ \cup {r}, !.shown = j.kept \cup {r}, !.accepted = @ + 1]
  <2>1. o \in Stored(j, f, r)
    BY <1>3 DEF Recorded
  <2>2. new \in Journals /\ new.kept = j.kept \cup {r} /\ new.shown = new.kept
    <3> DEFINE m == [j EXCEPT !.kept = j.kept \cup {r}]
               n == [m EXCEPT !.shown = j.kept \cup {r}]
    <3>1. m = [kept |-> j.kept \cup {r}, shown |-> j.shown, accepted |-> j.accepted,
               duplicates |-> j.duplicates, conflicts |-> j.conflicts]
      BY DEF Journals
    <3>2. new = [n EXCEPT !.accepted = j.accepted + 1]
      BY DEF Journals
    <3> HIDE DEF m
    <3>3. n = [kept |-> j.kept \cup {r}, shown |-> j.kept \cup {r}, accepted |-> j.accepted,
               duplicates |-> j.duplicates, conflicts |-> j.conflicts]
      BY <3>1
    <3> HIDE DEF n, new
    <3>4. new = [kept |-> j.kept \cup {r}, shown |-> j.kept \cup {r}, accepted |-> j.accepted + 1,
                 duplicates |-> j.duplicates, conflicts |-> j.conflicts]
      BY <3>2, <3>3
    <3>5. j.kept \cup {r} \in SUBSET PaperRecords /\ j.accepted + 1 \in Int /\ j.duplicates \in Int /\ j.conflicts \in Int
      BY DEF Journals
    <3> QED BY <3>4, <3>5 DEF Journals
  <2>3. CASE ~Persistent
    <3>1. o = [journal |-> new, file |-> f, lost |-> {}]
      BY <2>1, <2>3 DEF Stored
    <3> HIDE DEF new
    <3> QED BY <1>3, <2>2, <2>3, <3>1
  <2>4. CASE Persistent
    <3>1. PICK w \in Writes(f, r) :
             o = IF w.ok THEN [journal |-> new, file |-> w.file, lost |-> {}]
                         ELSE [journal |-> j, file |-> w.file, lost |-> {r}]
      BY <2>1, <2>4 DEF Stored
    <3> HIDE DEF new
    <3>2. CASE w.ok
      <4>1. w.file = Appended(f, r)
        BY <3>2 DEF Writes
      <4>2. o = [journal |-> new, file |-> w.file, lost |-> {}]
        BY <3>1, <3>2
      <4> QED BY <1>3, <2>2, <4>1, <4>2
    <3>3. CASE ~w.ok
      <4>1. w.file = f \/ w.file = Appended(f, r) \/ w.file \in TornAppends(f, r)
        BY DEF Writes
      <4>2. o = [journal |-> j, file |-> w.file, lost |-> {r}]
        BY <3>1, <3>3
      <4> QED BY <1>3, <4>1, <4>2
    <3> QED BY <3>2, <3>3
  <2> QED BY <2>3, <2>4
<1> QED BY <1>1, <1>2, <1>3

\* Whatever the file holds is a result of the desk's, or an earlier trade's with its identifier is kept.
OnFile ==
    /\ file.torn = None /\ journal.kept \subseteq Loaded(file)
    /\ \A s : OnLines(file, s) => s \in desk.records \/ \E k \in journal.kept : SameTrade(k, s)

JournalIInv ==
    /\ BooksIInv
    /\ journal \in Journals /\ file \in Files /\ fate \in [lost : SUBSET PaperRecords, damaged : BOOLEAN]
    /\ fate.lost \subseteq desk.records
    /\ desk.records \subseteq journal.kept \cup fate.lost
    /\ journal.kept \cap fate.lost = {}
    /\ \A r, s \in journal.kept : SameTrade(r, s) => r = s
    /\ journal.shown = journal.kept
    /\ Persistent /\ ~fate.damaged => OnFile

LEMMA PublishingIsSound ==
    ASSUME JournalIInv, BooksIInv', AtMostOne(desk, desk'), Publishes
    PROVE  JournalIInv'
<1>1. CASE desk'.records \ desk.records = {}
  <2>1. desk'.records = desk.records
    BY <1>1 DEF AtMostOne
  <2>2. UNCHANGED journalVars
    BY <1>1 DEF Publishes
  <2> QED BY <2>1, <2>2 DEF JournalIInv, OnFile, journalVars
<1>2. CASE desk'.records \ desk.records # {}
  <2>1. PICK r \in desk'.records \ desk.records : \E o \in Recorded(journal, file, r) :
            /\ journal' = o.journal /\ file' = o.file
            /\ fate' = [lost |-> fate.lost \cup o.lost, damaged |-> fate.damaged \/ o.file.torn # None]
    BY <1>2 DEF Publishes
  <2>2. PICK o \in Recorded(journal, file, r) :
            /\ journal' = o.journal /\ file' = o.file
            /\ fate' = [lost |-> fate.lost \cup o.lost, damaged |-> fate.damaged \/ o.file.torn # None]
    BY <2>1
  <2>3. desk'.records = desk.records \cup {r}
    BY <2>1 DEF AtMostOne
  <2>4. r \in PaperRecords /\ \A s \in desk.records : ~SameTrade(r, s)
    <3>1. desk' \in Desks /\ \A a, b \in desk'.records : a.plan.id = b.plan.id => a = b
      BY DEF BooksIInv, Books
    <3>2. desk'.records \subseteq PaperRecords
      BY <3>1 DEF Desks
    <3> QED BY <2>1, <2>3, <3>1, <3>2 DEF SameTrade
  <2>5. /\ journal' \in Journals /\ journal'.shown = journal'.kept
        /\ \/ /\ journal'.kept = journal.kept
              /\ o.lost = IF r \in journal.kept THEN {} ELSE {r}
           \/ /\ journal'.kept = journal.kept \cup {r} /\ o.lost = {}
              /\ Persistent => file' = Appended(file, r)
              /\ \A s \in journal.kept : ~SameTrade(r, s)
        /\ \/ file' = file /\ (Persistent => journal'.kept = journal.kept)
           \/ file' = Appended(file, r) /\ \A s \in journal.kept : ~SameTrade(r, s)
           \/ file' \in TornAppends(file, r) /\ journal'.kept = journal.kept
    <3>1. journal \in Journals /\ journal.shown = journal.kept /\ file \in Files
      BY DEF JournalIInv
    <3>2. o.journal = journal' /\ o.file = file'
      BY <2>2
    <3>3. Outcome(journal, file, r, o)
      BY <2>4, <3>1, RecordingIs
    <3> QED BY <3>2, <3>3 DEF Outcome
  <2>6. file' \in Files /\ file \in Files
    BY <2>4, <2>5, WritesAreFiles DEF JournalIInv
  <2>7. fate'.lost = fate.lost \cup o.lost /\ (fate'.damaged <=> fate.damaged \/ file'.torn # None)
    BY <2>2
  <2>8. fate' \in [lost : SUBSET PaperRecords, damaged : BOOLEAN]
    <3>1. o.lost \subseteq PaperRecords /\ fate.lost \subseteq PaperRecords
      BY <2>4, <2>5 DEF JournalIInv
    <3> QED BY <2>2, <3>1
  <2>9. /\ fate'.lost \subseteq desk'.records
        /\ desk'.records \subseteq journal'.kept \cup fate'.lost
        /\ journal'.kept \cap fate'.lost = {}
        /\ \A a, b \in journal'.kept : SameTrade(a, b) => a = b
    <3>1. \A a, b : SameTrade(a, b) => SameTrade(b, a)
      BY DEF SameTrade
    <3>2. r \notin fate.lost
      BY <2>1 DEF JournalIInv
    <3> QED BY <2>3, <2>5, <2>7, <3>1, <3>2 DEF JournalIInv
  <2>10. ASSUME Persistent, ~fate'.damaged PROVE OnFile'
    <3>1. OnFile /\ file'.torn = None /\ file.torn = None
      BY <2>7, <2>10 DEF JournalIInv, OnFile
    <3>2. \A a, b : SameTrade(a, b) => SameTrade(b, a)
      BY DEF SameTrade
    <3>3. CASE file' = file /\ journal'.kept = journal.kept
      BY <2>3, <3>1, <3>3 DEF OnFile
    <3>4. CASE file' = Appended(file, r) /\ \A s \in journal.kept : ~SameTrade(r, s)
      <4>1. \A s : OnLines(file, s) => ~SameTrade(r, s)
        <5>1. \A s, k : SameTrade(k, s) /\ SameTrade(r, s) => SameTrade(r, k)
          BY DEF SameTrade
        <5> QED BY <2>4, <3>1, <3>4, <5>1 DEF OnFile
      <4>2. /\ \A s : OnLines(file', s) => OnLines(file, s) \/ s = r
            /\ Loaded(file) \subseteq Loaded(file') /\ r \in Loaded(file')
        BY <2>4, <2>6, <3>1, <3>4, <4>1, AppendedIsLoaded
      <4>3. journal'.kept \subseteq journal.kept \cup {r} /\ journal.kept \subseteq journal'.kept
        BY <2>5
      <4>4. journal'.kept \subseteq Loaded(file')
        BY <3>1, <4>2, <4>3 DEF OnFile
      <4>5. \A s : OnLines(file', s) => s \in desk'.records \/ \E k \in journal'.kept : SameTrade(k, s)
        BY <2>3, <3>1, <4>2, <4>3 DEF OnFile
      <4> QED BY <3>1, <4>4, <4>5 DEF OnFile
    <3>5. CASE file' \in TornAppends(file, r) /\ journal'.kept = journal.kept
      <4>1. file' = file
        BY <2>4, <2>6, <3>1, <3>5, WritesAreFiles
      <4> QED BY <3>3, <3>5, <4>1
    <3> QED BY <2>5, <2>10, <3>3, <3>4, <3>5
  <2> QED BY <2>5, <2>6, <2>8, <2>9, <2>10 DEF JournalIInv
<1> QED BY <1>1, <1>2

\* A journal that is read from a file, beside an empty desk.
LEMMA ReadingIsSound ==
    ASSUME NEW f \in Files
    PROVE  /\ Reloaded(f) \in Journals /\ Reloaded(f).shown = Reloaded(f).kept
           /\ Reloaded(f).kept = Loaded(f)
           /\ NoJournal \in Journals /\ NoJournal.kept = {} /\ NoJournal.shown = {}
<1>1. Loaded(f) \in SUBSET PaperRecords
  BY LoadedOnce
<1> DEFINE L == Loaded(f)
           m == [NoJournal EXCEPT !.kept = L]
<1>2. Reloaded(f) = [kept |-> L, shown |-> L, accepted |-> 0, duplicates |-> 0, conflicts |-> 0]
  <2>1. Reloaded(f) = [m EXCEPT !.shown = L]
    BY DEF Reloaded, NoJournal
  <2> HIDE DEF L
  <2>2. m = [kept |-> L, shown |-> {}, accepted |-> 0, duplicates |-> 0, conflicts |-> 0]
    BY DEF NoJournal
  <2> QED BY <2>1, <2>2
<1>3. {} \in SUBSET PaperRecords
  OBVIOUS
<1> QED BY <1>1, <1>2, <1>3 DEF Journals, NoJournal

LEMMA RereadIsSound ==
    ASSUME BooksIInv', desk' = EmptyDesk, file' \in Files,
           journal' = IF Persistent THEN Reloaded(file') ELSE NoJournal,
           fate' \in [lost : {{}}, damaged : BOOLEAN],
           Persistent /\ ~fate'.damaged => file'.torn = None
    PROVE  JournalIInv'
<1>1. desk'.records = {} /\ fate'.lost = {} /\ fate' \in [lost : SUBSET PaperRecords, damaged : BOOLEAN]
  BY DEF EmptyDesk
<1>2. /\ journal' \in Journals /\ journal'.shown = journal'.kept
      /\ Persistent => journal'.kept = Loaded(file')
      /\ ~Persistent => journal'.kept = {}
  BY ReadingIsSound
<1>3. \A r, s \in journal'.kept : SameTrade(r, s) => r = s
  BY <1>2, LoadedOnce
<1>4. ASSUME Persistent, ~fate'.damaged PROVE OnFile'
  BY <1>2, <1>4, FirstIsLoaded DEF OnFile
<1> QED BY <1>1, <1>2, <1>3, <1>4 DEF JournalIInv

LEMMA JournalStartsSound == TradingJournalInit => JournalIInv
<1> SUFFICES ASSUME TradingJournalInit PROVE JournalIInv
  OBVIOUS
<1>1. /\ desk = EmptyDesk /\ latest = None /\ journal = NoJournal /\ file = NoFile
      /\ fate = [lost |-> {}, damaged |-> FALSE]
  BY DEF TradingJournalInit, TradingInit
<1>2. BooksIInv /\ desk.records = {}
  BY <1>1, EmptyIsSound DEF BooksIInv, EmptyDesk
<1>3. file \in Files /\ file.torn = None /\ AllLines(file) = <<>>
  BY <1>1, EmptySeq DEF NoFile, Files, AllLines
<1>4. journal \in Journals /\ journal.kept = {} /\ journal.shown = {}
  BY <1>1, <1>3, ReadingIsSound
<1>5. fate.lost = {} /\ fate \in [lost : SUBSET PaperRecords, damaged : BOOLEAN]
  BY <1>1
<1>6. OnFile
  BY <1>3, <1>4 DEF OnFile, OnLines
<1> QED BY <1>2, <1>3, <1>4, <1>5, <1>6 DEF JournalIInv

LEMMA JournalStepsAreSound == JournalIInv /\ [TradingNext]_tradingVars => JournalIInv'
<1> SUFFICES ASSUME JournalIInv, [TradingNext]_tradingVars PROVE JournalIInv'
  OBVIOUS
<1>1. /\ BooksIInv'
      /\ \/ AtMostOne(desk, desk') /\ Publishes
         \/ desk'.records = desk.records /\ UNCHANGED journalVars
         \/ UNCHANGED desk /\ ClearJournal
         \/ desk' = EmptyDesk /\ ResetAll
         \/ desk' = EmptyDesk /\ Restarted(file)
         \/ desk' = EmptyDesk /\ Persistent /\ \E r \in PaperRecords : \E f \in TornAppends(file, r) : Restarted(f)
  BY StepsOfTrading DEF JournalIInv
<1>2. file \in Files /\ fate.damaged \in BOOLEAN /\ (Persistent /\ ~fate.damaged => file.torn = None)
  BY DEF JournalIInv, OnFile
<1>3. CASE AtMostOne(desk, desk') /\ Publishes
  BY <1>1, <1>3, PublishingIsSound DEF JournalIInv
<1>4. CASE desk'.records = desk.records /\ UNCHANGED journalVars
  BY <1>1, <1>4 DEF JournalIInv, OnFile, journalVars
<1>5. CASE UNCHANGED desk /\ ClearJournal
  <2>1. /\ journal' = NoJournal /\ file' = NoFile /\ desk' = desk
        /\ fate' = [lost |-> fate.lost \cup desk.records, damaged |-> FALSE]
    BY <1>5 DEF ClearJournal
  <2>2. file' \in Files /\ file'.torn = None /\ AllLines(file') = <<>>
    BY <2>1, EmptySeq DEF NoFile, Files, AllLines
  <2>3. journal' \in Journals /\ journal'.kept = {} /\ journal'.shown = {}
    BY <2>1, <2>2, ReadingIsSound
  <2>4. /\ fate'.lost = desk'.records
        /\ fate' \in [lost : SUBSET PaperRecords, damaged : BOOLEAN]
    <3>1. desk.records \subseteq PaperRecords /\ fate.lost \subseteq desk.records
      BY DEF JournalIInv, BooksIInv, Books, Desks
    <3> QED BY <2>1, <3>1
  <2>5. OnFile'
    BY <2>2, <2>3 DEF OnFile, OnLines
  <2> QED BY <1>1, <2>2, <2>3, <2>4, <2>5 DEF JournalIInv
<1>6. CASE desk' = EmptyDesk /\ ResetAll
  <2>1. /\ file' = file /\ journal' = IF Persistent THEN Reloaded(file') ELSE NoJournal
        /\ fate' = [fate EXCEPT !.lost = {}]
    BY <1>6 DEF ResetAll
  <2>2. fate' \in [lost : {{}}, damaged : BOOLEAN] /\ fate'.damaged = fate.damaged
    BY <2>1 DEF JournalIInv
  <2> QED BY <1>1, <1>2, <1>6, <2>1, <2>2, RereadIsSound
<1>7. ASSUME NEW f \in Files, desk' = EmptyDesk, Restarted(f)
      PROVE  JournalIInv'
  <2>1. /\ file' = f /\ journal' = IF Persistent THEN Reloaded(file') ELSE NoJournal
        /\ fate' = [lost |-> {}, damaged |-> fate.damaged \/ f.torn # None]
    BY <1>7 DEF Restarted
  <2>2. fate' \in [lost : {{}}, damaged : BOOLEAN] /\ (~fate'.damaged => f.torn = None)
    BY <1>2, <2>1
  <2> QED BY <1>1, <1>7, <2>1, <2>2, RereadIsSound
<1>8. CASE desk' = EmptyDesk /\ Restarted(file)
  BY <1>2, <1>7, <1>8
<1>9. ASSUME desk' = EmptyDesk, NEW r \in PaperRecords, NEW f \in TornAppends(file, r), Restarted(f)
      PROVE  JournalIInv'
  BY <1>2, <1>7, <1>9, WritesAreFiles
<1> QED BY <1>1, <1>3, <1>4, <1>5, <1>6, <1>8, <1>9

\* Every result of paper trading is kept and shown once, or its append failed or its identifier was taken;
\* and as long as no append is torn a restart reads all that was kept (engines/performance_analytics),
\* for every market, and writes that fail, stop early or are cut off by the end of the process.
THEOREM ResultsStayKept == TradingSpec => []ResultsAreKept
<1>1. JournalIInv => ResultsAreKept
  BY DEF JournalIInv, OnFile, ResultsAreKept, EveryResultIsAnswered, KeptIsOnFile
<1> QED BY <1>1, JournalStartsSound, JournalStepsAreSound, PTL DEF TradingSpec
===============================================================================
