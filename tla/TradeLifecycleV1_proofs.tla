------------------------ MODULE TradeLifecycleV1_proofs -----------------------
(***************************************************************************)
(* Proofs about ExecutionRuntimeV1, the execution runtime, about           *)
(* PositionManagementV1, the position engine, and about TradeLifecycleV1,  *)
(* the coordinator that drives both, for every set of risk snapshots,      *)
(* fills, executions, prices, settings and bounds.                         *)
(***************************************************************************)
EXTENDS TradeLifecycleV1, FiniteSetTheorems, TLAPS

-------------------------------------------------------------------------------
(* The execution runtime *)

\* The inductive invariant.
ExecIInv == ExecTypeOK /\ ExecCoherent /\ SubmissionsAccountedFor

-------------------------------------------------------------------------------
(* What the validator and the simulator return *)

\* An executable snapshot has a positive quantity and positive prices.
LEMMA ExecutableSnapshot ==
    ASSUME NEW r \in RiskSnapshots, Validate(r) = "ACCEPTED"
    PROVE  r.quantity \in Nat \ {0} /\ r.entry \in Price
BY RiskSnapshotsAssumption DEF Validate, Executable, RiskSnapshot, Quantity

\* Every verdict is a decision.
LEMMA ValidateType ==
    ASSUME NEW r \in RiskSnapshots
    PROVE  Validate(r) \in Decisions
BY RiskSnapshotsAssumption DEF Validate, Decisions, RiskSnapshot, RiskDecisions

\* The simulator never fills at once more than it was given.
LEMMA ImmediateFillBounds ==
    ASSUME NEW q \in Nat \ {0}, fillPolicy \in FillPolicies
    PROVE  ImmediateFill(q) \in 0 .. q
<1>1. fillPolicy \in AllFillPolicies
  BY ExecutionAssumption
<1>2. CASE fillPolicy = "IMMEDIATE_PARTIAL"
  <2>1. CASE q < 2
    BY <1>2, <2>1 DEF ImmediateFill
  <2>2. CASE q >= 2
    <3>1. q \div 2 \in 0 .. q
      BY <2>2
    <3> QED
      BY <1>2, <2>2, <3>1 DEF ImmediateFill
  <2> QED
    BY <2>1, <2>2
<1> QED
  BY <1>1, <1>2 DEF ImmediateFill, AllFillPolicies

\* A product of naturals is a natural.
LEMMA NatProduct ==
    ASSUME NEW a \in Nat, NEW b \in Nat
    PROVE  a * b \in Nat
OBVIOUS

\* A declined submission is a well-formed result without an intent.
LEMMA DeclinedType ==
    ASSUME NEW decision \in Decisions
    PROVE  Declined(decision) \in Result
BY DEF Declined, Result, Quantity

\* An accepted submission: quantities add up, and the intent is finished exactly
\* when nothing remains.
LEMMA AcceptedResult ==
    ASSUME NEW r \in RiskSnapshots, Validate(r) = "ACCEPTED", fillPolicy \in FillPolicies
    PROVE  /\ Accepted(r) \in Result
           /\ Accepted(r).intent \in Intent
           /\ Accepted(r).intent.risk = r
           /\ Accepted(r).accepted = r.quantity
           /\ Accepted(r).remaining = r.quantity - Accepted(r).filled
           /\ Accepted(r).filled <= r.quantity
           /\ IF Accepted(r).remaining = 0
              THEN Accepted(r).intent.status = "FILLED"
              ELSE Accepted(r).intent.status \in {"ACKNOWLEDGED", "PARTIALLY_FILLED"}
<1> DEFINE filled == ImmediateFill(r.quantity)
<1>1. r.quantity \in Nat \ {0} /\ r.entry \in Nat
  BY ExecutableSnapshot DEF Price
<1>2. filled \in 0 .. r.quantity
  BY <1>1, ImmediateFillBounds
<1>3. filled * r.entry \in Nat
  BY <1>1, <1>2, NatProduct
<1>4. StatusAfterFill(filled, r.quantity) \in {"ACKNOWLEDGED", "PARTIALLY_FILLED", "FILLED"}
  BY DEF StatusAfterFill
<1>5. IF r.quantity - filled = 0
      THEN StatusAfterFill(filled, r.quantity) = "FILLED"
      ELSE StatusAfterFill(filled, r.quantity) \in {"ACKNOWLEDGED", "PARTIALLY_FILLED"}
  BY <1>1, <1>2 DEF StatusAfterFill
<1> HIDE DEF filled
<1>6. Accepted(r) = [decision  |-> "ACCEPTED",
                     intent    |-> [risk |-> r, status |-> StatusAfterFill(filled, r.quantity)],
                     accepted  |-> r.quantity,
                     filled    |-> filled,
                     remaining |-> r.quantity - filled,
                     notional  |-> filled * r.entry]
  BY DEF Accepted, filled
<1>7. [risk |-> r, status |-> StatusAfterFill(filled, r.quantity)] \in Intent
  BY <1>4 DEF Intent, IntentStatuses
<1>8. r.quantity - filled \in Nat
  BY <1>1, <1>2
<1>9. Accepted(r) \in Result
  BY <1>1, <1>2, <1>3, <1>6, <1>7, <1>8 DEF Result, Decisions, Quantity
<1> QED
  BY <1>1, <1>2, <1>5, <1>6, <1>7, <1>9

\* One confirmed fill moves q units from remaining to filled.
LEMMA FilledResult ==
    ASSUME NEW result \in Result, result.intent \in Intent,
           NEW q \in Nat \ {0}, q <= result.remaining,
           NEW price \in Price,
           result.remaining = result.accepted - result.filled
    PROVE  /\ Filled(result, q, price) \in Result
           /\ Filled(result, q, price).intent \in Intent
           /\ Filled(result, q, price).intent.risk = result.intent.risk
           /\ Filled(result, q, price).accepted = result.accepted
           /\ Filled(result, q, price).filled = result.filled + q
           /\ Filled(result, q, price).remaining = result.remaining - q
           /\ IF result.remaining = q
              THEN Filled(result, q, price).intent.status = "FILLED"
              ELSE Filled(result, q, price).intent.status = "PARTIALLY_FILLED"
<1> DEFINE status == StatusAfterFill(result.filled + q, result.accepted)
<1>1. result.filled \in Nat /\ result.accepted \in Nat /\ result.remaining \in Nat
      /\ result.notional \in Nat
  BY DEF Result, Quantity
<1>2. IF result.remaining = q THEN status = "FILLED" ELSE status = "PARTIALLY_FILLED"
  BY <1>1 DEF StatusAfterFill
<1>3. q * price \in Nat
  BY NatProduct DEF Price
<1> HIDE DEF status
<1>4. Filled(result, q, price) =
        [result EXCEPT !.intent.status = status, !.filled = @ + q,
                       !.remaining = @ - q, !.notional = @ + q * price]
  BY DEF Filled, status
<1>5. [result.intent EXCEPT !.status = status] \in Intent
  BY <1>2 DEF Intent, IntentStatuses
<1>6. /\ result.filled + q \in Nat
      /\ result.remaining - q \in Nat
      /\ result.notional + q * price \in Nat
  BY <1>1, <1>3
<1>7. /\ Filled(result, q, price).intent = [result.intent EXCEPT !.status = status]
      /\ Filled(result, q, price).accepted = result.accepted
      /\ Filled(result, q, price).filled = result.filled + q
      /\ Filled(result, q, price).remaining = result.remaining - q
  BY <1>4 DEF Result
<1>8. Filled(result, q, price) \in Result
  BY <1>4, <1>5, <1>6 DEF Result, Quantity
<1>9. /\ [result.intent EXCEPT !.status = status].risk = result.intent.risk
      /\ [result.intent EXCEPT !.status = status].status = status
  BY DEF Intent
<1> QED
  BY <1>2, <1>5, <1>7, <1>8, <1>9

\* A cancellation changes nothing but the status.
LEMMA CancelledResult ==
    ASSUME NEW result \in Result, result.intent \in Intent
    PROVE  /\ Cancelled(result) \in Result
           /\ Cancelled(result).intent \in Intent
           /\ Cancelled(result).intent.risk = result.intent.risk
           /\ Cancelled(result).intent.status = "CANCELLED"
           /\ Cancelled(result).filled = result.filled
<1>1. [result.intent EXCEPT !.status = "CANCELLED"] \in Intent
  BY DEF Intent, IntentStatuses
<1>2. Cancelled(result).intent = [result.intent EXCEPT !.status = "CANCELLED"]
  BY DEF Cancelled, Result
<1>3. /\ [result.intent EXCEPT !.status = "CANCELLED"].risk = result.intent.risk
      /\ [result.intent EXCEPT !.status = "CANCELLED"].status = "CANCELLED"
  BY DEF Intent
<1> QED
  BY <1>1, <1>2, <1>3 DEF Cancelled, Result

-------------------------------------------------------------------------------
(* The invariant is inductive *)

LEMMA ExecInitInvariant == ExecInit => ExecIInv
<1> SUFFICES ASSUME ExecInit PROVE ExecIInv
  OBVIOUS
<1> USE DEF ExecInit
<1>1. ExecTypeOK
  BY ExecutionAssumption DEF ExecTypeOK, ExecStatuses
<1>2. ExecCoherent
  BY DEF ExecCoherent, ActiveIntentIsLastResult, CacheHoldsFinishedResults,
         FillsComeFromSubmissions
<1>3. SubmissionsAccountedFor
  BY DEF SubmissionsAccountedFor
<1> QED
  BY <1>1, <1>2, <1>3 DEF ExecIInv

\* A declined submission replaces the last result and nothing else of weight.
LEMMA SubmitDeclinedStep ==
    ASSUME ExecIInv, NEW r \in RiskSnapshots, execStatus = "RUNNING",
           activeIntent = None, SubmitDeclined(r)
    PROVE  ExecIInv'
<1> USE DEF ExecIInv
<1>1. SubmitResult(r) \in Result
  <2>1. Declined(Validate(r)) \in Result
    BY ValidateType, DeclinedType
  <2> QED
    BY <2>1 DEF SubmitDeclined, SubmitResult
<1>2. rejectCount' \in Nat
  BY DEF SubmitDeclined, ExecTypeOK
<1>3. execHistorySize' \in 0 .. HistoryLimit
  BY ExecutionAssumption DEF SubmitDeclined, AppendHistory, ExecTypeOK
<1>4. ExecTypeOK'
  BY <1>1, <1>2, <1>3 DEF SubmitDeclined, ExecTypeOK
<1>5. ExecCoherent'
  BY DEF SubmitDeclined, ExecCoherent, ActiveIntentIsLastResult,
         CacheHoldsFinishedResults, FillsComeFromSubmissions
<1>6. SubmissionsAccountedFor'
  BY DEF SubmitDeclined, SubmissionsAccountedFor
<1> QED
  BY <1>4, <1>5, <1>6

\* An accepted submission starts an execution of a snapshot that has none.
LEMMA SubmitAcceptedStep ==
    ASSUME ExecIInv, NEW r \in RiskSnapshots, execStatus = "RUNNING",
           activeIntent = None, SubmitAccepted(r)
    PROVE  ExecIInv'
<1> USE DEF ExecIInv
<1> DEFINE result == Accepted(r)
<1>1. SubmitResult(r) = result
  BY DEF SubmitAccepted, SubmitResult
<1>2. /\ result \in Result
      /\ result.intent \in Intent
      /\ result.intent.risk = r
      /\ result.accepted = r.quantity
      /\ result.remaining = r.quantity - result.filled
      /\ result.filled <= r.quantity
      /\ IF result.remaining = 0
         THEN result.intent.status = "FILLED"
         ELSE result.intent.status \in {"ACKNOWLEDGED", "PARTIALLY_FILLED"}
  BY AcceptedResult DEF SubmitAccepted, ExecTypeOK
<1>3. /\ result.filled \in Nat
      /\ result.remaining \in Nat
      /\ r.quantity \in Nat
      /\ result # None
      /\ result.intent # None
  BY <1>2, NoneAssumption DEF Result, Quantity
<1>4. filledFor[r] = 0
  <2>1. executedCache[r] = None
    BY DEF SubmitAccepted
  <2> QED
    BY <2>1 DEF ExecCoherent, FillsComeFromSubmissions, ExecTypeOK
<1> HIDE DEF result
<1>5. /\ activeIntent' = IF result.remaining > 0 THEN result.intent ELSE None
      /\ lastResult' = result
      /\ executedCache' = IF result.remaining > 0 THEN executedCache
                          ELSE [executedCache EXCEPT ![r] = result]
      /\ filledFor' = [filledFor EXCEPT ![r] = result.filled]
      /\ executedCache[r] = None
      /\ execStatus' = execStatus
  <2>1. filledFor' = [filledFor EXCEPT ![r] = filledFor[r] + result.filled]
    BY <1>1 DEF SubmitAccepted
  <2>2. filledFor[r] + result.filled = result.filled
    BY <1>3, <1>4
  <2>3. executedCache[r] = None /\ execStatus' = execStatus
    BY DEF SubmitAccepted
  <2>4. /\ activeIntent' = IF result.remaining > 0 THEN result.intent ELSE None
        /\ lastResult' = result
        /\ executedCache' = IF result.remaining > 0 THEN executedCache
                            ELSE Remember(r, result)
    BY <1>1 DEF SubmitAccepted
  <2> QED
    BY <2>1, <2>2, <2>3, <2>4 DEF Remember
<1>6. ExecTypeOK'
  <2>1. submittedCount' \in Nat /\ partialFillCount' \in Nat /\ fillCount' \in Nat
    BY DEF SubmitAccepted, ExecTypeOK
  <2>2. execHistorySize' \in 0 .. HistoryLimit
    BY ExecutionAssumption DEF SubmitAccepted, AppendHistory, ExecTypeOK
  <2>3. activeIntent' \in Intent \cup {None}
    BY <1>2, <1>5
  <2>4. executedCache' \in [RiskSnapshots -> Result \cup {None}]
    BY <1>2, <1>5 DEF ExecTypeOK
  <2>5. filledFor' \in [RiskSnapshots -> Nat]
    BY <1>3, <1>5 DEF ExecTypeOK
  <2> QED
    BY <1>2, <1>5, <2>1, <2>2, <2>3, <2>4, <2>5 DEF SubmitAccepted, ExecTypeOK
<1>7. ActiveIntentIsLastResult'
  BY <1>2, <1>3, <1>5 DEF ActiveIntentIsLastResult, ExecTypeOK
<1>8. CacheHoldsFinishedResults'
  <2> SUFFICES ASSUME NEW s \in RiskSnapshots, executedCache'[s] # None
               PROVE  /\ executedCache'[s].intent.risk = s
                      /\ executedCache'[s].filled = filledFor'[s]
                      /\ \/ executedCache'[s].intent.status = "FILLED" /\ filledFor'[s] = s.quantity
                         \/ executedCache'[s].intent.status = "CANCELLED" /\ filledFor'[s] < s.quantity
    BY DEF CacheHoldsFinishedResults
  <2>1. CASE s = r
    <3>1. result.remaining = 0 /\ executedCache'[s] = result /\ filledFor'[s] = result.filled
      BY <1>3, <1>5, <2>1 DEF ExecTypeOK
    <3> QED
      BY <1>2, <1>3, <2>1, <3>1
  <2>2. CASE s # r
    <3>1. executedCache'[s] = executedCache[s] /\ filledFor'[s] = filledFor[s]
      BY <1>5, <2>2 DEF ExecTypeOK
    <3> QED
      BY <3>1 DEF ExecCoherent, CacheHoldsFinishedResults
  <2> QED
    BY <2>1, <2>2
<1>9. FillsComeFromSubmissions'
  <2> SUFFICES ASSUME NEW s \in RiskSnapshots, filledFor'[s] > 0
               PROVE  \/ executedCache'[s] # None
                      \/ activeIntent' # None /\ activeIntent'.risk = s
    BY DEF FillsComeFromSubmissions
  <2>1. CASE s = r
    BY <1>2, <1>3, <1>5, <2>1 DEF ExecTypeOK
  <2>2. CASE s # r
    <3>1. executedCache'[s] = executedCache[s] /\ filledFor'[s] = filledFor[s]
      BY <1>5, <2>2 DEF ExecTypeOK
    <3> QED
      BY <3>1 DEF ExecCoherent, FillsComeFromSubmissions
  <2> QED
    BY <2>1, <2>2
<1>10. SubmissionsAccountedFor'
  <2>1. fillCount' = fillCount + IF result.remaining = 0 THEN 1 ELSE 0
    BY <1>1, <1>2, <1>3 DEF SubmitAccepted, ExecTypeOK
  <2>2. submittedCount' = submittedCount + 1 /\ cancelCount' = cancelCount
    BY DEF SubmitAccepted
  <2> QED
    BY <1>3, <1>5, <2>1, <2>2 DEF SubmissionsAccountedFor, ExecTypeOK
<1> QED
  BY <1>6, <1>7, <1>8, <1>9, <1>10 DEF ExecCoherent

\* What is known of the two fields while an intent is in flight.
LEMMA ActiveExecution ==
    ASSUME ExecIInv, activeIntent # None
    PROVE  /\ lastResult \in Result
           /\ lastResult.intent = activeIntent
           /\ lastResult.intent \in Intent
           /\ activeIntent.risk \in RiskSnapshots
           /\ lastResult.accepted = activeIntent.risk.quantity
           /\ lastResult.filled = filledFor[activeIntent.risk]
           /\ lastResult.remaining = lastResult.accepted - lastResult.filled
           /\ lastResult.remaining > 0
           /\ {lastResult.accepted, lastResult.filled, lastResult.remaining} \subseteq Nat
           /\ executedCache[activeIntent.risk] = None
<1>1. /\ lastResult # None
      /\ lastResult.intent = activeIntent
      /\ lastResult.accepted = activeIntent.risk.quantity
      /\ lastResult.filled = filledFor[activeIntent.risk]
      /\ lastResult.remaining = lastResult.accepted - lastResult.filled
      /\ lastResult.remaining > 0
      /\ executedCache[activeIntent.risk] = None
  BY DEF ExecIInv, ExecCoherent, ActiveIntentIsLastResult
<1>2. lastResult \in Result /\ activeIntent \in Intent
  BY <1>1 DEF ExecIInv, ExecTypeOK
<1>3. activeIntent.risk \in RiskSnapshots
  BY <1>2 DEF Intent
<1>4. {lastResult.accepted, lastResult.filled, lastResult.remaining} \subseteq Nat
  BY <1>2 DEF Result, Quantity
<1> QED
  BY <1>1, <1>2, <1>3, <1>4

\* A confirmed fill moves units of the execution in flight and may finish it.
LEMMA ConfirmFillStep ==
    ASSUME ExecIInv, NEW price \in FillPrices, NEW q \in Nat, ConfirmFill(q, price)
    PROVE  ExecIInv'
<1> DEFINE r == activeIntent.risk
           result == Filled(lastResult, q, price)
<1>1. /\ activeIntent # None
      /\ q \in Nat \ {0}
      /\ q <= lastResult.remaining
      /\ price \in Price
  BY ExecutionAssumption DEF ConfirmFill
<1>2. /\ lastResult \in Result
      /\ lastResult.intent = activeIntent
      /\ lastResult.intent \in Intent
      /\ r \in RiskSnapshots
      /\ lastResult.accepted = r.quantity
      /\ lastResult.filled = filledFor[r]
      /\ lastResult.remaining = lastResult.accepted - lastResult.filled
      /\ lastResult.accepted \in Nat /\ lastResult.filled \in Nat /\ lastResult.remaining \in Nat
      /\ executedCache[r] = None
  BY <1>1, ActiveExecution
<1>3. /\ result \in Result
      /\ result.intent \in Intent
      /\ result.intent.risk = r
      /\ result.accepted = lastResult.accepted
      /\ result.filled = lastResult.filled + q
      /\ result.remaining = lastResult.remaining - q
      /\ IF lastResult.remaining = q
         THEN result.intent.status = "FILLED"
         ELSE result.intent.status = "PARTIALLY_FILLED"
  BY <1>1, <1>2, FilledResult
<1>4. result # None /\ result.intent # None
  BY <1>3, NoneAssumption
<1> HIDE DEF result
<1>5. /\ lastResult' = result
      /\ filledFor' = [filledFor EXCEPT ![r] = @ + q]
      /\ activeIntent' = IF lastResult.remaining = q THEN None ELSE result.intent
      /\ executedCache' = IF lastResult.remaining = q
                          THEN [executedCache EXCEPT ![r] = result] ELSE executedCache
      /\ fillCount' = fillCount + IF lastResult.remaining = q THEN 1 ELSE 0
      /\ partialFillCount' = partialFillCount + IF lastResult.remaining = q THEN 0 ELSE 1
  <2>1. FillResult(q, price) = result
    BY DEF FillResult, result
  <2>2. CASE lastResult.remaining = q
    BY <1>3, <2>1, <2>2 DEF ConfirmFill, Remember, ExecIInv, ExecTypeOK
  <2>3. CASE lastResult.remaining # q
    BY <1>3, <2>1, <2>3 DEF ConfirmFill, ExecIInv, ExecTypeOK
  <2> QED
    BY <2>2, <2>3
<1>6. /\ UNCHANGED <<fillPolicy, execStatus, submittedCount, cancelCount, rejectCount>>
      /\ execHistorySize' \in 0 .. HistoryLimit
  BY ExecutionAssumption DEF ConfirmFill, AppendHistory, ExecIInv, ExecTypeOK
<1>7. filledFor'[r] = result.filled
  BY <1>2, <1>3, <1>5 DEF ExecIInv, ExecTypeOK
<1>8. ExecTypeOK'
  <2>1. activeIntent' \in Intent \cup {None}
    BY <1>3, <1>5
  <2>2. executedCache' \in [RiskSnapshots -> Result \cup {None}]
    BY <1>3, <1>5 DEF ExecIInv, ExecTypeOK
  <2>3. filledFor' \in [RiskSnapshots -> Nat]
    BY <1>1, <1>2, <1>5 DEF ExecIInv, ExecTypeOK
  <2>4. fillCount' \in Nat /\ partialFillCount' \in Nat
    BY <1>5 DEF ExecIInv, ExecTypeOK
  <2> QED
    BY <1>3, <1>5, <1>6, <2>1, <2>2, <2>3, <2>4 DEF ExecIInv, ExecTypeOK
<1>9. ActiveIntentIsLastResult'
  <2> SUFFICES ASSUME activeIntent' # None
               PROVE  /\ execStatus' = "RUNNING"
                      /\ lastResult' # None
                      /\ lastResult'.intent = activeIntent'
                      /\ lastResult'.accepted = activeIntent'.risk.quantity
                      /\ lastResult'.filled = filledFor'[activeIntent'.risk]
                      /\ lastResult'.remaining = lastResult'.accepted - lastResult'.filled
                      /\ lastResult'.remaining > 0
                      /\ activeIntent'.status \in {"ACKNOWLEDGED", "PARTIALLY_FILLED"}
                      /\ executedCache'[activeIntent'.risk] = None
    BY DEF ActiveIntentIsLastResult
  <2>1. lastResult.remaining # q /\ activeIntent' = result.intent
        /\ executedCache' = executedCache
    BY <1>5
  <2>2. execStatus' = "RUNNING"
    BY <1>1, <1>6 DEF ExecIInv, ExecCoherent, ActiveIntentIsLastResult
  <2> QED
    BY <1>1, <1>2, <1>3, <1>4, <1>5, <1>7, <2>1, <2>2
<1>10. CacheHoldsFinishedResults'
  <2> SUFFICES ASSUME NEW s \in RiskSnapshots, executedCache'[s] # None
               PROVE  /\ executedCache'[s].intent.risk = s
                      /\ executedCache'[s].filled = filledFor'[s]
                      /\ \/ executedCache'[s].intent.status = "FILLED" /\ filledFor'[s] = s.quantity
                         \/ executedCache'[s].intent.status = "CANCELLED" /\ filledFor'[s] < s.quantity
    BY DEF CacheHoldsFinishedResults
  <2>1. CASE s = r
    <3>1. lastResult.remaining = q /\ executedCache'[s] = result
      BY <1>2, <1>5, <2>1 DEF ExecIInv, ExecTypeOK
    <3>2. result.filled = r.quantity
      BY <1>1, <1>2, <1>3, <3>1
    <3> QED
      BY <1>3, <1>7, <2>1, <3>1, <3>2
  <2>2. CASE s # r
    <3>1. executedCache'[s] = executedCache[s] /\ filledFor'[s] = filledFor[s]
      BY <1>5, <2>2 DEF ExecIInv, ExecTypeOK
    <3> QED
      BY <3>1 DEF ExecIInv, ExecCoherent, CacheHoldsFinishedResults
  <2> QED
    BY <2>1, <2>2
<1>11. FillsComeFromSubmissions'
  <2> SUFFICES ASSUME NEW s \in RiskSnapshots, filledFor'[s] > 0
               PROVE  \/ executedCache'[s] # None
                      \/ activeIntent' # None /\ activeIntent'.risk = s
    BY DEF FillsComeFromSubmissions
  <2>1. CASE s = r
    BY <1>2, <1>3, <1>4, <1>5, <2>1 DEF ExecIInv, ExecTypeOK
  <2>2. CASE s # r
    <3>1. executedCache'[s] = executedCache[s] /\ filledFor'[s] = filledFor[s]
      BY <1>5, <2>2 DEF ExecIInv, ExecTypeOK
    <3> QED
      BY <2>2, <3>1 DEF ExecIInv, ExecCoherent, FillsComeFromSubmissions
  <2> QED
    BY <2>1, <2>2
<1>12. SubmissionsAccountedFor'
  BY <1>1, <1>4, <1>5, <1>6 DEF ExecIInv, ExecTypeOK, SubmissionsAccountedFor
<1> QED
  BY <1>8, <1>9, <1>10, <1>11, <1>12 DEF ExecIInv, ExecCoherent

\* A cancellation ends the execution in flight short of its quantity.
LEMMA CancelActiveStep ==
    ASSUME ExecIInv, CancelActive
    PROVE  ExecIInv'
<1> DEFINE r == activeIntent.risk
           result == Cancelled(lastResult)
<1>1. activeIntent # None
  BY DEF CancelActive
<1>2. /\ lastResult \in Result
      /\ lastResult.intent = activeIntent
      /\ lastResult.intent \in Intent
      /\ r \in RiskSnapshots
      /\ lastResult.filled = filledFor[r]
      /\ filledFor[r] < r.quantity
      /\ executedCache[r] = None
  <2>1. r.quantity \in Nat
    BY <1>1, ActiveExecution
  <2> QED
    BY <1>1, <2>1, ActiveExecution
<1>3. /\ result \in Result
      /\ result.intent.risk = r
      /\ result.intent.status = "CANCELLED"
      /\ result.filled = filledFor[r]
  BY <1>2, CancelledResult
<1>4. result # None
  BY <1>3, NoneAssumption
<1> HIDE DEF result
<1>5. /\ lastResult' = result
      /\ activeIntent' = None
      /\ executedCache' = [executedCache EXCEPT ![r] = result]
      /\ cancelCount' = cancelCount + 1
      /\ UNCHANGED <<fillPolicy, execStatus, submittedCount, partialFillCount, fillCount,
                     rejectCount, filledFor>>
  BY DEF CancelActive, Remember, result
<1>6. execHistorySize' \in 0 .. HistoryLimit
  BY ExecutionAssumption DEF CancelActive, AppendHistory, ExecIInv, ExecTypeOK
<1>7. ExecTypeOK'
  <2>1. executedCache' \in [RiskSnapshots -> Result \cup {None}]
    BY <1>3, <1>5 DEF ExecIInv, ExecTypeOK
  <2> QED
    BY <1>3, <1>5, <1>6, <2>1 DEF ExecIInv, ExecTypeOK
<1>8. ActiveIntentIsLastResult'
  BY <1>5 DEF ActiveIntentIsLastResult
<1>9. CacheHoldsFinishedResults'
  <2> SUFFICES ASSUME NEW s \in RiskSnapshots, executedCache'[s] # None
               PROVE  /\ executedCache'[s].intent.risk = s
                      /\ executedCache'[s].filled = filledFor'[s]
                      /\ \/ executedCache'[s].intent.status = "FILLED" /\ filledFor'[s] = s.quantity
                         \/ executedCache'[s].intent.status = "CANCELLED" /\ filledFor'[s] < s.quantity
    BY DEF CacheHoldsFinishedResults
  <2>1. CASE s = r
    BY <1>2, <1>3, <1>5, <2>1 DEF ExecIInv, ExecTypeOK
  <2>2. CASE s # r
    <3>1. executedCache'[s] = executedCache[s] /\ filledFor'[s] = filledFor[s]
      BY <1>5, <2>2 DEF ExecIInv, ExecTypeOK
    <3> QED
      BY <3>1 DEF ExecIInv, ExecCoherent, CacheHoldsFinishedResults
  <2> QED
    BY <2>1, <2>2
<1>10. FillsComeFromSubmissions'
  <2> SUFFICES ASSUME NEW s \in RiskSnapshots, filledFor'[s] > 0
               PROVE  executedCache'[s] # None
    BY DEF FillsComeFromSubmissions
  <2>1. CASE s = r
    BY <1>2, <1>4, <1>5, <2>1 DEF ExecIInv, ExecTypeOK
  <2>2. CASE s # r
    <3>1. executedCache'[s] = executedCache[s] /\ filledFor'[s] = filledFor[s]
      BY <1>5, <2>2 DEF ExecIInv, ExecTypeOK
    <3> QED
      BY <2>2, <3>1 DEF ExecIInv, ExecCoherent, FillsComeFromSubmissions
  <2> QED
    BY <2>1, <2>2
<1>11. SubmissionsAccountedFor'
  BY <1>1, <1>5 DEF ExecIInv, ExecTypeOK, SubmissionsAccountedFor
<1> QED
  BY <1>7, <1>8, <1>9, <1>10, <1>11 DEF ExecIInv, ExecCoherent

\* The whole next-state relation, one step per action.
LEMMA ExecNextInvariant == ExecIInv /\ [ExecNext]_execVars => ExecIInv'
<1> SUFFICES ASSUME ExecIInv, [ExecNext]_execVars PROVE ExecIInv'
  OBVIOUS
<1> USE DEF ExecIInv
<1>1. CASE ExecStart
  <2>1. ExecTypeOK'
    BY <1>1 DEF ExecStart, execCounts, ExecTypeOK, ExecStatuses
  <2>2. ExecCoherent'
    BY <1>1 DEF ExecStart, ExecCoherent, ActiveIntentIsLastResult,
                CacheHoldsFinishedResults, FillsComeFromSubmissions
  <2>3. SubmissionsAccountedFor'
    BY <1>1 DEF ExecStart, execCounts, SubmissionsAccountedFor
  <2> QED
    BY <2>1, <2>2, <2>3
<1>2. CASE ExecStop
  <2>1. ExecTypeOK'
    BY <1>2 DEF ExecStop, execCounts, ExecTypeOK, ExecStatuses
  <2>2. ExecCoherent'
    BY <1>2 DEF ExecStop, ExecCoherent, ActiveIntentIsLastResult,
                CacheHoldsFinishedResults, FillsComeFromSubmissions
  <2>3. SubmissionsAccountedFor'
    BY <1>2 DEF ExecStop, execCounts, SubmissionsAccountedFor
  <2> QED
    BY <2>1, <2>2, <2>3
<1>3. ASSUME NEW r \in RiskSnapshots, Submit(r)
      PROVE  ExecIInv'
  <2>1. CASE SubmitCached(r)
    BY <2>1 DEF SubmitCached, execVars, execCounts, ExecTypeOK, ExecCoherent,
                ActiveIntentIsLastResult, CacheHoldsFinishedResults,
                FillsComeFromSubmissions, SubmissionsAccountedFor
  <2>2. CASE SubmitDeclined(r)
    BY <1>3, <2>2, SubmitDeclinedStep DEF Submit
  <2>3. CASE SubmitAccepted(r)
    BY <1>3, <2>3, SubmitAcceptedStep DEF Submit
  <2> QED
    BY <1>3, <2>1, <2>2, <2>3 DEF Submit
<1>4. ASSUME NEW price \in FillPrices,
             NEW q \in 1 .. (IF lastResult = None THEN 0 ELSE lastResult.remaining),
             ConfirmFill(q, price)
      PROVE  ExecIInv'
  <2>1. q \in Nat
    <3>1. lastResult # None /\ lastResult.remaining \in Nat
      BY <1>4, ActiveExecution, NoneAssumption DEF ConfirmFill
    <3> QED
      BY <3>1
  <2> QED
    BY <1>4, <2>1, ConfirmFillStep
<1>5. CASE CancelActive
  BY <1>5, CancelActiveStep
<1>6. CASE ExecClear
  <2>1. ExecTypeOK'
    BY <1>6, ExecutionAssumption DEF ExecClear, ExecTypeOK, ExecStatuses
  <2>2. ExecCoherent'
    BY <1>6 DEF ExecClear, ExecCoherent, ActiveIntentIsLastResult,
                CacheHoldsFinishedResults, FillsComeFromSubmissions
  <2>3. SubmissionsAccountedFor'
    BY <1>6 DEF ExecClear, SubmissionsAccountedFor
  <2> QED
    BY <2>1, <2>2, <2>3
<1>7. CASE UNCHANGED execVars
  BY <1>7 DEF execVars, execCounts, ExecTypeOK, ExecCoherent, ActiveIntentIsLastResult,
              CacheHoldsFinishedResults, FillsComeFromSubmissions, SubmissionsAccountedFor
<1> QED
  BY <1>1, <1>2, <1>3, <1>4, <1>5, <1>6, <1>7 DEF ExecNext

-------------------------------------------------------------------------------
(* Theorems *)

\* The inductive invariant holds throughout.
THEOREM ExecInvariance == ExecSpec => []ExecIInv
<1> QED
  BY ExecInitInvariant, ExecNextInvariant, PTL DEF ExecSpec

\* Type correctness of the runtime's state, whatever is submitted and confirmed.
THEOREM ExecTypeCorrect == ExecSpec => []ExecTypeOK
<1>1. ExecIInv => ExecTypeOK
  BY DEF ExecIInv
<1> QED
  BY <1>1, ExecInvariance, PTL

\* _active_intent, _last_result and _executed_cache never come apart.
THEOREM ExecStateCoherent == ExecSpec => []ExecCoherent
<1>1. ExecIInv => ExecCoherent
  BY DEF ExecIInv
<1> QED
  BY <1>1, ExecInvariance, PTL

\* Every counted submission is filled, cancelled or open.
THEOREM ExecSubmissionsAccounted == ExecSpec => []SubmissionsAccountedFor
<1>1. ExecIInv => SubmissionsAccountedFor
  BY DEF ExecIInv
<1> QED
  BY <1>1, ExecInvariance, PTL

\* No risk snapshot is ever filled beyond its approved quantity: an intent in
\* flight has units left, a finished one is cached with the units it got, and a
\* snapshot that is neither has no fills.
THEOREM ExecNeverOverfilled == ExecSpec => []NeverOverfilled
<1>1. ExecIInv => NeverOverfilled
  <2> SUFFICES ASSUME ExecIInv, NEW r \in RiskSnapshots
               PROVE  filledFor[r] <= r.quantity
    BY DEF NeverOverfilled
  <2>1. r.quantity \in Nat /\ filledFor[r] \in Nat
    BY RiskSnapshotsAssumption DEF RiskSnapshot, Quantity, ExecIInv, ExecTypeOK
  <2>2. CASE executedCache[r] # None
    BY <2>1, <2>2 DEF ExecIInv, ExecCoherent, CacheHoldsFinishedResults
  <2>3. CASE activeIntent # None /\ activeIntent.risk = r
    BY <2>1, <2>3, ActiveExecution
  <2>4. CASE filledFor[r] = 0
    BY <2>1, <2>4
  <2> QED
    BY <2>1, <2>2, <2>3, <2>4 DEF ExecIInv, ExecCoherent, FillsComeFromSubmissions
<1> QED
  BY <1>1, ExecInvariance, PTL

\* Between two clears a finished execution is neither replaced nor filled again.
THEOREM ExecFinishedIsFinal == ExecSpec => FinishedIsFinal
<1> DEFINE Final == \A r \in RiskSnapshots :
                      executedCache[r] # None =>
                        \/ executedCache'[r] = executedCache[r] /\ filledFor'[r] = filledFor[r]
                        \/ execStatus' = "CLEARED"
<1>1. ExecIInv /\ [ExecNext]_execVars => [Final]_execVars
  <2> SUFFICES ASSUME ExecIInv, ExecNext, NEW r \in RiskSnapshots, executedCache[r] # None
               PROVE  \/ executedCache'[r] = executedCache[r] /\ filledFor'[r] = filledFor[r]
                      \/ execStatus' = "CLEARED"
    OBVIOUS
  <2>1. CASE ExecStart \/ ExecStop \/ ExecClear
    BY <2>1 DEF ExecStart, ExecStop, ExecClear
  <2>2. ASSUME NEW s \in RiskSnapshots, Submit(s)
        PROVE  executedCache'[r] = executedCache[r] /\ filledFor'[r] = filledFor[r]
    <3>1. CASE SubmitCached(s) \/ SubmitDeclined(s)
      BY <3>1 DEF SubmitCached, SubmitDeclined, execVars
    <3>2. CASE SubmitAccepted(s)
      <4>1. r # s
        BY <3>2 DEF SubmitAccepted
      <4> QED
        BY <3>2, <4>1 DEF SubmitAccepted, Remember, ExecIInv, ExecTypeOK
    <3> QED
      BY <2>2, <3>1, <3>2 DEF Submit
  <2>3. ASSUME NEW q, NEW price, ConfirmFill(q, price)
        PROVE  executedCache'[r] = executedCache[r] /\ filledFor'[r] = filledFor[r]
    <3>1. activeIntent.risk # r
      BY <2>3, ActiveExecution DEF ConfirmFill
    <3> QED
      BY <2>3, <3>1 DEF ConfirmFill, Remember, ExecIInv, ExecTypeOK
  <2>4. CASE CancelActive
    <3>1. activeIntent.risk # r
      BY <2>4, ActiveExecution DEF CancelActive
    <3> QED
      BY <2>4, <3>1 DEF CancelActive, Remember, ExecIInv, ExecTypeOK
  <2> QED
    BY <2>1, <2>2, <2>3, <2>4 DEF ExecNext
<1> QED
  BY <1>1, ExecInvariance, PTL DEF ExecSpec, FinishedIsFinal

\* FillsAccountedFor: the runtime's intent, results, cache and counters tell one story, and
\* no snapshot is filled beyond its approval, for every set of risk snapshots and prices.
THEOREM ExecFillsAccountedFor == ExecSpec => []FillsAccountedFor
<1>1. ExecTypeOK /\ ExecCoherent /\ SubmissionsAccountedFor /\ NeverOverfilled => FillsAccountedFor
  BY DEF FillsAccountedFor
<1> QED
  BY <1>1, ExecTypeCorrect, ExecStateCoherent, ExecSubmissionsAccounted, ExecNeverOverfilled, PTL

-------------------------------------------------------------------------------
(* The position engine *)

\* The inductive invariant: besides what PositionsAreHonest says, the cache of
\* openings is finite, which is what makes counting it mean anything.
PosIInv ==
    /\ PosTypeOK
    /\ BooksBalance
    /\ OpeningsAccountedFor
    /\ IsFiniteSet(DOMAIN openCache)

\* What q units gain is a whole number.
LEMMA GainType ==
    ASSUME NEW p \in ManagedPosition, NEW price \in Nat, NEW q \in Int
    PROVE  Gain(p, price, q) \in Int
<1>1. p.initial \in Int /\ p.entryNotional \in Int
  BY DEF ManagedPosition, Quantity
<1>2. price * p.initial \in Int
  BY <1>1
<1>3. price * p.initial - p.entryNotional \in Int /\ p.entryNotional - price * p.initial \in Int
  BY <1>1, <1>2
<1>4. \A x \in Int : x * q \in Int
  OBVIOUS
<1> QED
  BY <1>3, <1>4 DEF Gain

\* A profit over cash x and cost e * c, and a further exit of q units at price m.
LEMMA ExitArithmetic ==
    ASSUME NEW x \in Int, NEW e \in Int, NEW i \in Int, NEW c \in Int, NEW m \in Int, NEW q \in Int
    PROVE  (x * i - e * c) + (m * i - e) * q = (x + m * q) * i - e * (c + q)
<1>1. (m * i - e) * q = (m * i) * q - e * q
  OBVIOUS
<1>2. (x + m * q) * i = x * i + (m * q) * i
  OBVIOUS
<1>3. e * (c + q) = e * c + e * q
  OBVIOUS
<1>4. (m * i) * q = (m * q) * i
  OBVIOUS
<1> QED
  BY <1>1, <1>2, <1>3, <1>4
\* What Balanced asks, with the side of the position settled.
LEMMA BalancedSides ==
    ASSUME NEW p \in ManagedPosition
    PROVE  Balanced(p) <=>
             /\ p.initial = p.source.filled
             /\ p.open + p.closed = p.initial
             /\ (p.open = 0) <=> (p.status \in Finished)
             /\ Side(p) = "LONG" =>
                  /\ p.realized = p.exitNotional * p.initial - p.entryNotional * p.closed
                  /\ p.unrealized = (p.currentPrice - p.entryNotional) * p.open
             /\ Side(p) # "LONG" =>
                  /\ p.realized = p.entryNotional * p.closed - p.exitNotional * p.initial
                  /\ p.unrealized = (p.entryNotional - p.currentPrice) * p.open
<1>1. /\ p.initial \in Int /\ p.open \in Int /\ p.closed \in Int /\ p.entryNotional \in Int
      /\ p.exitNotional \in Int /\ p.currentPrice \in Int
  BY DEF ManagedPosition, Quantity
<1>2. p.exitNotional * p.initial \in Int /\ p.entryNotional * p.closed \in Int
  BY <1>1
<1>3. \A a, b \in Int : 1 * (a - b) = a - b /\ -1 * (a - b) = b - a
  OBVIOUS
<1>4. \A a, b, c \in Int : 1 * (a - b) * c = (a - b) * c /\ -1 * (a - b) * c = (b - a) * c
  OBVIOUS
<1> QED
  BY <1>1, <1>2, <1>3, <1>4 DEF Balanced

\* A position just opened is well formed, balanced and has all its units open.
LEMMA OpenedIsSound ==
    ASSUME NEW result \in Result, CanOpen(result), NEW now \in Time
    PROVE  /\ Opened(result, now) \in ManagedPosition
           /\ Balanced(Opened(result, now))
           /\ Opened(result, now).open > 0
           /\ Opened(result, now).source = result
<1> DEFINE p == Opened(result, now)
<1>1. result.filled \in Nat /\ result.notional \in Nat /\ result.filled > 0
  BY DEF Result, Quantity, CanOpen
<1>2. p \in ManagedPosition
  BY <1>1 DEF Opened, ManagedPosition, Quantity, PositionStatuses, ExitReasons
<1>3. /\ p.initial = result.filled /\ p.open = result.filled /\ p.closed = 0
      /\ p.realized = 0 /\ p.unrealized = 0 /\ p.exitNotional = 0 /\ p.status = "OPEN"
      /\ p.source = result /\ p.entryNotional = result.notional
      /\ p.currentPrice = result.notional
  BY DEF Opened
<1>4. Balanced(p)
  <2>1. /\ p.exitNotional * p.initial = 0 /\ p.entryNotional * p.closed = 0
        /\ (p.currentPrice - p.entryNotional) * p.open = 0
        /\ (p.entryNotional - p.currentPrice) * p.open = 0
    BY <1>1, <1>3
  <2>2. p.status \notin Finished
    BY <1>3 DEF Finished
  <2> QED
    BY <1>1, <1>2, <1>3, <2>1, <2>2, BalancedSides
<1> QED
  BY <1>1, <1>2, <1>3, <1>4

\* Marking to market moves the price and what is unrealized, nothing else.
LEMMA MarkedIsSound ==
    ASSUME NEW p \in ManagedPosition, Balanced(p), NEW u \in PriceUpdate, MarketPrices \subseteq Price
    PROVE  /\ Marked(p, u) \in ManagedPosition
           /\ Balanced(Marked(p, u))
           /\ Marked(p, u).open = p.open
           /\ Marked(p, u).status = p.status
           /\ Marked(p, u).source = p.source
           /\ Marked(p, u).openedAt = p.openedAt
           /\ Marked(p, u).updatedAt = u.timestamp
<1> DEFINE m == Marked(p, u)
<1>1. u.timestamp \in Time /\ u.price \in Nat
  BY DEF PriceUpdate, Price
<1>2. p.initial \in Nat /\ p.open \in Nat /\ p.entryNotional \in Nat /\ p.closed \in Nat
  BY DEF ManagedPosition, Quantity
<1>3. u.price * p.initial \in Nat
  BY <1>1, <1>2, NatProduct
<1>4. Gain(p, u.price, p.open) \in Int
  BY <1>1, <1>2, GainType
<1>5. m \in ManagedPosition
  BY <1>1, <1>3, <1>4 DEF Marked, ManagedPosition
<1>6. /\ m.initial = p.initial /\ m.open = p.open /\ m.closed = p.closed /\ m.source = p.source
      /\ m.openedAt = p.openedAt /\ m.updatedAt = u.timestamp
      /\ m.entryNotional = p.entryNotional /\ m.exitNotional = p.exitNotional
      /\ m.realized = p.realized /\ m.status = p.status
      /\ m.currentPrice = u.price * p.initial /\ m.unrealized = Gain(p, u.price, p.open)
  BY DEF Marked, ManagedPosition
<1>7. Side(m) = Side(p)
  BY <1>6 DEF Side
<1>8. Balanced(m)
  <2>1. Side(p) = "LONG" => m.unrealized = (m.currentPrice - m.entryNotional) * m.open
    BY <1>6 DEF Gain
  <2>2. Side(p) # "LONG" => m.unrealized = (m.entryNotional - m.currentPrice) * m.open
    BY <1>6 DEF Gain
  <2>3. /\ p.initial = p.source.filled
        /\ p.open + p.closed = p.initial
        /\ (p.open = 0) <=> (p.status \in Finished)
        /\ Side(p) = "LONG" => p.realized = p.exitNotional * p.initial - p.entryNotional * p.closed
        /\ Side(p) # "LONG" => p.realized = p.entryNotional * p.closed - p.exitNotional * p.initial
    BY BalancedSides
  <2> HIDE DEF m
  <2> QED
    BY <1>5, <1>6, <1>7, <2>1, <2>2, <2>3, BalancedSides
<1> QED
  BY <1>5, <1>6, <1>8

\* An exit of q units, at any price and for any reason that fits: the position stays
\* balanced, and is finished exactly when nothing is left.
LEMMA ExitedIsSound ==
    ASSUME NEW p \in ManagedPosition, Balanced(p), NEW now \in Time,
           NEW q \in Nat \ {0}, q <= p.open, NEW price \in Price,
           NEW reason \in ExitReasons, reason = "INVALIDATION" => q = p.open
    PROVE  /\ Exited(p, now, q, price, reason) \in ManagedPosition
           /\ Balanced(Exited(p, now, q, price, reason))
           /\ Exited(p, now, q, price, reason).open = p.open - q
           /\ Exited(p, now, q, price, reason).source = p.source
           /\ Exited(p, now, q, price, reason).openedAt = p.openedAt
           /\ Exited(p, now, q, price, reason).updatedAt = now
           /\ (q = p.open) <=> (Exited(p, now, q, price, reason).status \in Finished)
<1> DEFINE x == Exited(p, now, q, price, reason)
           status == IF reason = "INVALIDATION" THEN "INVALIDATED"
                     ELSE IF q < p.open THEN "PARTIALLY_CLOSED" ELSE "CLOSED"
<1>1. /\ p.initial \in Nat /\ p.open \in Nat /\ p.entryNotional \in Nat /\ p.closed \in Nat
      /\ p.exitNotional \in Nat /\ p.realized \in Int
  BY DEF ManagedPosition, Quantity
<1>2. price \in Nat
  BY DEF Price
<1>3. price * p.initial \in Nat /\ price * q \in Nat
  BY <1>1, <1>2, NatProduct
<1>4. Gain(p, price, q) \in Int /\ Gain(p, price, p.open - q) \in Int
  BY <1>1, <1>2, GainType
<1>5. /\ p.open - q \in Nat /\ p.closed + q \in Nat /\ p.exitNotional + price * q \in Nat
      /\ p.realized + Gain(p, price, q) \in Int
  BY <1>1, <1>3, <1>4
<1>6. /\ status \in PositionStatuses
      /\ (status \in Finished) <=> (q = p.open)
  BY <1>1 DEF PositionStatuses, Finished
<1> HIDE DEF status
<1>7. x = [p EXCEPT !.updatedAt    = now,
                    !.open         = p.open - q,
                    !.closed       = p.closed + q,
                    !.exitNotional = p.exitNotional + price * q,
                    !.currentPrice = price * p.initial,
                    !.realized     = p.realized + Gain(p, price, q),
                    !.unrealized   = Gain(p, price, p.open - q),
                    !.exitReason   = reason,
                    !.status       = status]
  BY DEF Exited, status
<1> HIDE DEF x
<1>8. x \in ManagedPosition
  BY <1>3, <1>4, <1>5, <1>6, <1>7 DEF ManagedPosition, Quantity
<1>9. /\ x.initial = p.initial /\ x.open = p.open - q /\ x.closed = p.closed + q
      /\ x.source = p.source /\ x.openedAt = p.openedAt /\ x.updatedAt = now
      /\ x.entryNotional = p.entryNotional /\ x.exitNotional = p.exitNotional + price * q
      /\ x.currentPrice = price * p.initial /\ x.realized = p.realized + Gain(p, price, q)
      /\ x.unrealized = Gain(p, price, p.open - q) /\ x.status = status
  BY <1>7 DEF ManagedPosition
<1>10. Side(x) = Side(p)
  BY <1>9 DEF Side
<1>11. Balanced(x)
  <2>1. /\ p.initial = p.source.filled
        /\ p.open + p.closed = p.initial
        /\ Side(p) = "LONG" => p.realized = p.exitNotional * p.initial - p.entryNotional * p.closed
        /\ Side(p) # "LONG" => p.realized = p.entryNotional * p.closed - p.exitNotional * p.initial
    BY BalancedSides
  <2>2. (p.exitNotional * p.initial - p.entryNotional * p.closed)
          + (price * p.initial - p.entryNotional) * q
        = (p.exitNotional + price * q) * p.initial - p.entryNotional * (p.closed + q)
    BY <1>1, <1>2, ExitArithmetic
  <2>3. Side(p) = "LONG" => x.realized = x.exitNotional * x.initial - x.entryNotional * x.closed
    BY <1>9, <2>1, <2>2 DEF Gain
  <2>4. Side(p) # "LONG" => x.realized = x.entryNotional * x.closed - x.exitNotional * x.initial
    <3> DEFINE a == price * p.initial
               b == p.exitNotional * p.initial
               c == p.entryNotional * p.closed
               d == (p.exitNotional + price * q) * p.initial
               e == p.entryNotional * (p.closed + q)
    <3>1. a \in Int /\ b \in Int /\ c \in Int /\ d \in Int /\ e \in Int
      BY <1>1, <1>2, <1>3, <1>5, NatProduct
    <3>2. (p.entryNotional - a) * q = 0 - (a - p.entryNotional) * q
      BY <1>1, <3>1
    <3>3. (a - p.entryNotional) * q \in Int
      BY <1>1, <3>1
    <3>4. (b - c) + (a - p.entryNotional) * q = d - e
      BY <2>2
    <3>5. Side(p) # "LONG" => x.realized = (c - b) + (p.entryNotional - a) * q
      BY <1>9, <2>1 DEF Gain
    <3>6. x.entryNotional * x.closed = e /\ x.exitNotional * x.initial = d
      BY <1>9
    <3> HIDE DEF a, b, c, d, e
    <3> QED
      BY <3>1, <3>2, <3>3, <3>4, <3>5, <3>6
  <2>5. Side(p) = "LONG" => x.unrealized = (x.currentPrice - x.entryNotional) * x.open
    BY <1>9 DEF Gain
  <2>6. Side(p) # "LONG" => x.unrealized = (x.entryNotional - x.currentPrice) * x.open
    BY <1>9 DEF Gain
  <2>7. x.open + x.closed = x.initial
    BY <1>1, <1>9, <2>1
  <2>8. (x.open = 0) <=> (x.status \in Finished)
    BY <1>1, <1>6, <1>9
  <2>9. x.initial = x.source.filled
    BY <1>9, <2>1
  <2> QED
    BY <1>8, <1>10, <2>3, <2>4, <2>5, <2>6, <2>7, <2>8, <2>9, BalancedSides
<1> QED
  BY <1>6, <1>8, <1>9, <1>11 DEF x
\* The half that an objective takes leaves at least one unit open.
LEMMA PartialLeavesSome ==
    ASSUME NEW p \in ManagedPosition, p.open > 0, MinRemaining \in Nat \ {0}
    PROVE  ObjectivePartialQuantity(p) \in Nat /\ ObjectivePartialQuantity(p) < p.open
<1>1. p.open \in Nat
  BY DEF ManagedPosition, Quantity
<1>2. p.open \div 2 \in Nat /\ p.open \div 2 < p.open
  BY <1>1
<1> QED
  BY <1>1, <1>2 DEF ObjectivePartialQuantity

\* Every branch of update_price answers with a balanced position, which is finished
\* exactly when the answer is a full exit; an invalidation is a full exit.
LEMMA AfterPriceIsSound ==
    ASSUME NEW old \in ManagedPosition, NEW p \in ManagedPosition, Balanced(p), p.open > 0,
           NEW u \in PriceUpdate, MarketPrices \subseteq Price, MinRemaining \in Nat \ {0}
    PROVE  LET result == AfterPrice(old, p, u)
           IN  /\ result \in PositionResult
               /\ result.position \in ManagedPosition
               /\ Balanced(result.position)
               /\ result.position.source = p.source
               /\ result.position.openedAt = p.openedAt
               /\ result.position.updatedAt \in {p.updatedAt, u.timestamp}
               /\ (result.decision = "FULL_EXIT") <=> (result.position.status \in Finished)
               /\ result.change = "INVALIDATED" => result.decision = "FULL_EXIT"
               /\ result.position.status \notin Finished => result.position.open > 0
               /\ result.decision # "NO_POSITION"
<1> DEFINE result == AfterPrice(old, p, u)
           all    == Exited(p, u.timestamp, p.open, u.price, "INVALIDATION")
           full   == Exited(p, u.timestamp, p.open, u.price, "OBJECTIVE")
           half   == ObjectivePartialQuantity(p)
           part   == Exited(p, u.timestamp, half, u.price, "OBJECTIVE")
           held   == IF p = old THEN "UNCHANGED" ELSE "PRICE_UPDATED"
           touch  == [p EXCEPT !.status = "OBJECTIVE_REACHED", !.exitReason = "NONE"]
<1>1. u.timestamp \in Time /\ u.price \in Price
  BY DEF PriceUpdate
<1>2. p.open \in Nat \ {0} /\ p.open <= p.open
  BY DEF ManagedPosition, Quantity
<1>3. (p.open = 0) <=> (p.status \in Finished)
  BY BalancedSides
<1>4. p.status \notin Finished
  BY <1>2, <1>3
<1>5. {"INVALIDATION", "OBJECTIVE"} \subseteq ExitReasons
  BY DEF ExitReasons
<1>6. /\ all \in ManagedPosition /\ Balanced(all) /\ all.source = p.source
      /\ all.openedAt = p.openedAt /\ all.updatedAt = u.timestamp /\ all.status \in Finished
  BY <1>1, <1>2, <1>5, ExitedIsSound
<1>7. /\ full \in ManagedPosition /\ Balanced(full) /\ full.source = p.source
      /\ full.openedAt = p.openedAt /\ full.updatedAt = u.timestamp /\ full.status \in Finished
  BY <1>1, <1>2, <1>5, ExitedIsSound
<1>8. half \in Nat /\ half < p.open
  BY PartialLeavesSome
<1>9. half > 0 =>
        /\ part \in ManagedPosition /\ Balanced(part) /\ part.source = p.source
        /\ part.openedAt = p.openedAt /\ part.updatedAt = u.timestamp
        /\ part.status \notin Finished /\ part.open > 0
  <2> SUFFICES ASSUME half > 0
               PROVE  /\ part \in ManagedPosition /\ Balanced(part) /\ part.source = p.source
                      /\ part.openedAt = p.openedAt /\ part.updatedAt = u.timestamp
                      /\ part.status \notin Finished /\ part.open > 0
    OBVIOUS
  <2>1. half \in Nat \ {0} /\ half <= p.open /\ half # p.open /\ p.open - half > 0
    BY <1>2, <1>8
  <2> HIDE DEF half
  <2> QED
    BY <1>1, <1>5, <2>1, ExitedIsSound
<1>10. /\ touch \in ManagedPosition /\ touch.source = p.source /\ touch.openedAt = p.openedAt
       /\ touch.updatedAt = p.updatedAt /\ touch.open = p.open
       /\ touch.status = "OBJECTIVE_REACHED"
  BY DEF ManagedPosition, PositionStatuses, ExitReasons
<1>11. touch.status \notin Finished
  BY <1>10 DEF Finished
<1>12. Balanced(touch)
  <2>1. /\ touch.initial = p.initial /\ touch.closed = p.closed
        /\ touch.entryNotional = p.entryNotional /\ touch.exitNotional = p.exitNotional
        /\ touch.currentPrice = p.currentPrice /\ touch.realized = p.realized
        /\ touch.unrealized = p.unrealized
    BY DEF ManagedPosition
  <2>2. Side(touch) = Side(p)
    BY <1>10 DEF Side
  <2>3. touch.open # 0
    BY <1>2, <1>10
  <2> HIDE DEF touch
  <2> QED
    BY <1>10, <1>11, <2>1, <2>2, <2>3 DEF Balanced
<1>13. held \in PosChanges
  BY DEF PosChanges
<1>14. \A decision \in PosDecisions, change \in PosChanges, x \in ManagedPosition :
         Managed(decision, change, x) \in PositionResult
  BY DEF Managed, PositionResult
<1> HIDE DEF all, full, part, touch
<1>15. \/ result = Managed("FULL_EXIT", "INVALIDATED", all)
       \/ result = Managed("HOLD", held, p)
       \/ result = Managed("FULL_EXIT", "CLOSED", full)
       \/ half > 0 /\ result = Managed("PARTIAL_EXIT", "PARTIALLY_CLOSED", part)
       \/ result = Managed("HOLD", "OBJECTIVE_REACHED", touch)
  <2> DEFINE a == InvalidationReached(p, u.price) /\ autoInvalidation
             b == InvalidationReached(p, u.price) \/ ~ObjectiveReached(p, u.price)
             c == objectiveMode = "FULL"
             d == objectiveMode = "PARTIAL" /\ half > 0
  <2>1. result = IF a THEN Managed("FULL_EXIT", "INVALIDATED", all)
                 ELSE IF b THEN Managed("HOLD", held, p)
                 ELSE IF c THEN Managed("FULL_EXIT", "CLOSED", full)
                 ELSE IF d THEN Managed("PARTIAL_EXIT", "PARTIALLY_CLOSED", part)
                 ELSE Managed("HOLD", "OBJECTIVE_REACHED", touch)
    BY DEF AfterPrice, all, full, part, touch
  <2>2. d => half > 0
    OBVIOUS
  <2> HIDE DEF a, b, c, d, held, result
  <2> QED
    BY <2>1, <2>2
<1> HIDE DEF half
<1>16. result \in PositionResult
  BY <1>6, <1>7, <1>9, <1>10, <1>13, <1>14, <1>15 DEF PosDecisions, PosChanges
<1>17. CASE result = Managed("FULL_EXIT", "INVALIDATED", all)
  BY <1>6, <1>16, <1>17 DEF Managed
<1>18. CASE result = Managed("HOLD", held, p)
  BY <1>4, <1>16, <1>18 DEF Managed
<1>19. CASE result = Managed("FULL_EXIT", "CLOSED", full)
  BY <1>7, <1>16, <1>19 DEF Managed
<1>20. CASE half > 0 /\ result = Managed("PARTIAL_EXIT", "PARTIALLY_CLOSED", part)
  BY <1>9, <1>16, <1>20 DEF Managed
<1>21. CASE result = Managed("HOLD", "OBJECTIVE_REACHED", touch)
  BY <1>10, <1>11, <1>12, <1>16, <1>21 DEF Managed
<1> QED
  BY <1>15, <1>17, <1>18, <1>19, <1>20, <1>21
\* The held position, as every action on it finds it.
LEMMA HeldPosition ==
    ASSUME PosTypeOK, BooksBalance, position # None
    PROVE  /\ position \in ManagedPosition
           /\ Balanced(position)
           /\ position.open > 0
           /\ position.open \in Nat
           /\ position.updatedAt \in Time
           /\ position.status \notin Finished
<1>1. position \in ManagedPosition /\ Balanced(position) /\ position.open > 0
  BY DEF PosTypeOK, BooksBalance
<1>2. position.open \in Nat /\ position.updatedAt \in Time
  BY <1>1 DEF ManagedPosition, Quantity
<1> QED
  BY <1>1, <1>2, BalancedSides

\* BooksBalance of the next state, about the positions it holds.
LEMMA BooksOfNext ==
    BooksBalance' <=>
      /\ position' # None => Balanced(position') /\ position'.open > 0
      /\ (posResult' # None /\ posResult'.position # None) => Balanced(posResult'.position)
BY DEF BooksBalance, Balanced, Side, Finished

\* Doing nothing preserves the invariant.
LEMMA PosStutter ==
    ASSUME PosIInv, UNCHANGED posVars
    PROVE  PosIInv'
<1>1. PosTypeOK' /\ OpeningsAccountedFor' /\ IsFiniteSet(DOMAIN openCache)'
  BY DEF PosIInv, PosTypeOK, OpeningsAccountedFor, posVars, posCounts
<1>2. BooksBalance'
  BY BooksOfNext DEF PosIInv, BooksBalance, posVars
<1> QED
  BY <1>1, <1>2 DEF PosIInv

\* The history stays within its limit.
LEMMA PosHistoryBounded ==
    ASSUME posHistorySize \in 0 .. PosHistoryLimit, PosAppendHistory
    PROVE  posHistorySize' \in 0 .. PosHistoryLimit
BY PositionAssumption DEF PosAppendHistory

\* What a new opening puts into the cache.
LEMMA NewOpening ==
    ASSUME PosTypeOK, NEW result \in Result, result \notin DOMAIN openCache, CanOpen(result)
    PROVE  /\ OpenResult(result) \in PositionResult
           /\ OpenResult(result).position = Opened(result, clock)
           /\ OpenResult(result).position \in ManagedPosition
<1>1. Opened(result, clock) \in ManagedPosition
  BY OpenedIsSound DEF PosTypeOK
<1>2. OpenResult(result) = Managed("HOLD", "OPENED", Opened(result, clock))
  BY DEF OpenResult
<1> QED
  BY <1>1, <1>2 DEF Managed, PositionResult, PosDecisions, PosChanges

\* open_from_execution keeps the invariant: a cached answer changes nothing, and a new
\* one is counted once and remembered.
LEMMA OpenPreserves ==
    ASSUME PosIInv, NEW result \in Result, OpenFromExecution(result)
    PROVE  PosIInv'
<1>1. CASE result \in DOMAIN openCache /\ UNCHANGED posVars
  BY <1>1, PosStutter
<1>2. CASE result \notin DOMAIN openCache
  <2>1. /\ position = None /\ CanOpen(result)
        /\ position' = OpenResult(result).position /\ posResult' = OpenResult(result)
        /\ openedCount' = openedCount + 1
        /\ openCache' = [x \in DOMAIN openCache \cup {result} |-> OpenResult(x)]
        /\ PosAppendHistory
        /\ UNCHANGED <<posConfig, clock, lastUpdate, partialExitCount, closedCount,
                       invalidationCount, objectiveCount>>
    BY <1>2 DEF OpenFromExecution
  <2>2. PosTypeOK
    BY DEF PosIInv
  <2>3. /\ OpenResult(result) \in PositionResult
        /\ OpenResult(result).position = Opened(result, clock)
    BY <1>2, <2>1, <2>2, NewOpening
  <2>4. /\ position' \in ManagedPosition /\ Balanced(position') /\ position'.open > 0
    BY <2>1, <2>2, <2>3, OpenedIsSound DEF PosTypeOK
  <2>5. \A x \in DOMAIN openCache : OpenResult(x) = openCache[x]
    BY DEF OpenResult
  <2>6. PosTypeOK'
    <3>1. \A x \in DOMAIN openCache' : x \in Result /\ openCache'[x] \in PositionResult
      BY <2>1, <2>2, <2>3, <2>5 DEF PosTypeOK
    <3>2. posHistorySize' \in 0 .. PosHistoryLimit
      BY <2>1, <2>2, PosHistoryBounded DEF PosTypeOK
    <3>3. /\ UNCHANGED <<autoInvalidation, objectiveMode, clock, lastUpdate, partialExitCount,
                         closedCount, invalidationCount, objectiveCount>>
          /\ openedCount' = openedCount + 1
      BY <2>1 DEF posConfig
    <3>4. position' \in ManagedPosition /\ posResult' \in PositionResult
      BY <2>1, <2>3, <2>4
    <3> QED
      BY <2>2, <3>1, <3>2, <3>3, <3>4 DEF PosTypeOK
  <2>7. BooksBalance'
    BY <2>1, <2>4, BooksOfNext
  <2>8. OpeningsAccountedFor' /\ IsFiniteSet(DOMAIN openCache)'
    <3>1. DOMAIN openCache' = DOMAIN openCache \cup {result}
      BY <2>1
    <3>2. IsFiniteSet(DOMAIN openCache)
      BY DEF PosIInv
    <3>3. /\ IsFiniteSet(DOMAIN openCache \cup {result})
          /\ Cardinality(DOMAIN openCache \cup {result}) = Cardinality(DOMAIN openCache) + 1
      BY <1>2, <3>2, FS_AddElement
    <3>4. position' # None
      BY <2>4, NoPositionAssumption
    <3> QED
      BY <2>1, <2>2, <3>1, <3>3, <3>4 DEF PosIInv, OpeningsAccountedFor, PosTypeOK
  <2> QED
    BY <2>6, <2>7, <2>8 DEF PosIInv
<1> QED
  BY <1>1, <1>2 DEF OpenFromExecution

\* The held position after a price update, and the answer to it.
LEMMA UpdateResult ==
    ASSUME PosIInv, NEW u \in PriceUpdate, UpdatePosition(u)
    PROVE  /\ posResult' \in PositionResult
           /\ posResult'.position \in ManagedPosition
           /\ Balanced(posResult'.position)
           /\ posResult'.position.source = position.source
           /\ posResult'.position.openedAt = position.openedAt
           /\ posResult'.position.updatedAt = u.timestamp
           /\ (posResult'.decision = "FULL_EXIT") <=> (posResult'.position.status \in Finished)
           /\ posResult'.change = "INVALIDATED" => posResult'.decision = "FULL_EXIT"
           /\ posResult'.position.status \notin Finished => posResult'.position.open > 0
           /\ posResult'.decision # "NO_POSITION"
           /\ position' = IF posResult'.position.status \in Finished THEN None
                          ELSE posResult'.position
<1> DEFINE marked == Marked(position, u)
<1>1. MarketPrices \subseteq Price /\ MinRemaining \in Nat \ {0}
  BY PositionAssumption
<1>2. position # None
  BY DEF UpdatePosition
<1>3. position \in ManagedPosition /\ Balanced(position) /\ position.open > 0
  BY <1>2, HeldPosition DEF PosIInv
<1>4. /\ marked \in ManagedPosition /\ Balanced(marked) /\ marked.open = position.open
      /\ marked.source = position.source /\ marked.openedAt = position.openedAt
      /\ marked.updatedAt = u.timestamp
  BY <1>1, <1>3, MarkedIsSound
<1>5. posResult' = AfterPrice(position, marked, u)
  BY DEF UpdatePosition
<1>6. position' = IF posResult'.position.status \in Finished THEN None ELSE posResult'.position
  BY DEF UpdatePosition
<1> HIDE DEF marked
<1> QED
  BY <1>1, <1>3, <1>4, <1>5, <1>6, AfterPriceIsSound
\* A price update keeps the invariant.
LEMMA UpdatePreserves ==
    ASSUME PosIInv, NEW u \in PriceUpdate, UpdatePrice(u)
    PROVE  PosIInv'
<1>1. CASE UpdateWithoutPosition
  <2>1. /\ position = None /\ posResult' = Managed("NO_POSITION", "UNCHANGED", None)
        /\ UNCHANGED <<autoInvalidation, objectiveMode, clock, position, openCache, lastUpdate,
                       openedCount, partialExitCount, closedCount, invalidationCount,
                       objectiveCount, posHistorySize>>
    BY <1>1 DEF UpdateWithoutPosition, posConfig, posCounts
  <2>2. posResult' \in PositionResult /\ posResult'.position = None
    BY <2>1 DEF Managed, PositionResult, PosDecisions, PosChanges
  <2>3. PosTypeOK' /\ OpeningsAccountedFor' /\ IsFiniteSet(DOMAIN openCache)'
    BY <2>1, <2>2 DEF PosIInv, PosTypeOK, OpeningsAccountedFor
  <2>4. BooksBalance'
    BY <2>1, <2>2, BooksOfNext
  <2> QED
    BY <2>3, <2>4 DEF PosIInv
<1>2. CASE RepeatUpdate(u)
  BY <1>2, PosStutter DEF RepeatUpdate
<1>3. CASE UpdatePosition(u)
  <2> DEFINE result == posResult'
             touched == LET marked == Marked(position, u)
                        IN  ~InvalidationReached(marked, u.price) /\ ObjectiveReached(marked, u.price)
  <2>1. /\ result \in PositionResult /\ result.position \in ManagedPosition
        /\ Balanced(result.position)
        /\ (result.decision = "FULL_EXIT") <=> (result.position.status \in Finished)
        /\ result.change = "INVALIDATED" => result.decision = "FULL_EXIT"
        /\ result.position.status \notin Finished => result.position.open > 0
        /\ position' = IF result.position.status \in Finished THEN None ELSE result.position
    BY <1>3, UpdateResult
  <2>2. /\ position # None
        /\ lastUpdate' = u
        /\ UNCHANGED <<autoInvalidation, objectiveMode, clock, openCache, openedCount>>
        /\ partialExitCount' = partialExitCount + IF result.decision = "PARTIAL_EXIT" THEN 1 ELSE 0
        /\ closedCount' = closedCount + IF result.decision = "FULL_EXIT" THEN 1 ELSE 0
        /\ invalidationCount' = invalidationCount + IF result.change = "INVALIDATED" THEN 1 ELSE 0
        /\ objectiveCount' = objectiveCount + IF touched THEN 1 ELSE 0
        /\ posHistorySize' = posHistorySize \/ PosAppendHistory
    BY <1>3 DEF UpdatePosition, posConfig
  <2> HIDE DEF result, touched
  <2>3. posHistorySize' \in 0 .. PosHistoryLimit
    BY <2>2, PosHistoryBounded DEF PosIInv, PosTypeOK
  <2>4. result.position # None
    BY <2>1, NoPositionAssumption
  <2>5. PosTypeOK'
    <3>1. position' \in ManagedPosition \cup {None} /\ posResult' \in PositionResult
      BY <2>1 DEF result
    <3> QED
      BY <2>2, <2>3, <3>1 DEF PosIInv, PosTypeOK
  <2>6. BooksBalance'
    BY <2>1, BooksOfNext DEF result
  <2>7. OpeningsAccountedFor'
    BY <2>1, <2>2, <2>4 DEF PosIInv, PosTypeOK, OpeningsAccountedFor
  <2> QED
    BY <2>2, <2>5, <2>6, <2>7 DEF PosIInv
<1> QED
  BY <1>1, <1>2, <1>3 DEF UpdatePrice

\* A manual exit is stamped with a time, and never before the position was last touched.
LEMMA ExitTime ==
    ASSUME PosTypeOK, position \in ManagedPosition
    PROVE  PositionTimestamp \in Time /\ PositionTimestamp >= position.updatedAt
<1>1. clock \in Nat /\ position.updatedAt \in Nat
  BY DEF PosTypeOK, ManagedPosition, Time
<1> QED
  BY <1>1 DEF PositionTimestamp, Time

\* A partial exit keeps the invariant.
LEMMA PartialExitPreserves ==
    ASSUME PosIInv, NEW q \in Int, NEW price \in Price, PartialExit(q, price)
    PROVE  PosIInv'
<1>1. /\ position # None /\ q > 0 /\ q < position.open
      /\ position' = Exited(position, PositionTimestamp, q, price, "MANUAL_DRY_RUN")
      /\ posResult' = Managed("PARTIAL_EXIT", "PARTIALLY_CLOSED", position')
      /\ partialExitCount' = partialExitCount + 1
      /\ PosAppendHistory
      /\ UNCHANGED <<autoInvalidation, objectiveMode, clock, openCache, lastUpdate, openedCount,
                     closedCount, invalidationCount, objectiveCount>>
  BY DEF PartialExit, posConfig
<1>2. /\ position \in ManagedPosition /\ Balanced(position) /\ position.open \in Nat
      /\ position.open > 0
  BY <1>1, HeldPosition DEF PosIInv
<1>3. PositionTimestamp \in Time
  BY <1>2, ExitTime DEF PosIInv
<1>4. q \in Nat \ {0} /\ q <= position.open /\ position.open - q > 0
  BY <1>1, <1>2
<1>5. /\ position' \in ManagedPosition /\ Balanced(position') /\ position'.open > 0
  <2>1. "MANUAL_DRY_RUN" \in ExitReasons
    BY DEF ExitReasons
  <2>2. /\ Exited(position, PositionTimestamp, q, price, "MANUAL_DRY_RUN") \in ManagedPosition
        /\ Balanced(Exited(position, PositionTimestamp, q, price, "MANUAL_DRY_RUN"))
        /\ Exited(position, PositionTimestamp, q, price, "MANUAL_DRY_RUN").open = position.open - q
    BY <1>2, <1>3, <1>4, <2>1, ExitedIsSound
  <2> QED
    BY <1>1, <1>4, <2>2
<1>6. posResult' \in PositionResult /\ posResult'.position = position'
  BY <1>1, <1>5 DEF Managed, PositionResult, PosDecisions, PosChanges
<1>7. PosTypeOK'
  BY <1>1, <1>5, <1>6, PosHistoryBounded DEF PosIInv, PosTypeOK
<1>8. BooksBalance'
  BY <1>5, <1>6, BooksOfNext
<1>9. OpeningsAccountedFor'
  BY <1>1, <1>5, NoPositionAssumption DEF PosIInv, OpeningsAccountedFor
<1> QED
  BY <1>1, <1>7, <1>8, <1>9 DEF PosIInv

\* A close keeps the invariant.
LEMMA ClosePreserves ==
    ASSUME PosIInv, NEW price \in Price, NEW reason \in ExitReasons, ClosePosition(price, reason)
    PROVE  PosIInv'
<1> DEFINE gone == Exited(position, PositionTimestamp, position.open, price, reason)
<1>1. /\ position # None
      /\ position' = None
      /\ posResult' = Managed("FULL_EXIT", IF reason = "INVALIDATION" THEN "INVALIDATED"
                                                                    ELSE "CLOSED", gone)
      /\ closedCount' = closedCount + 1
      /\ invalidationCount' = invalidationCount + IF reason = "INVALIDATION" THEN 1 ELSE 0
      /\ PosAppendHistory
      /\ UNCHANGED <<autoInvalidation, objectiveMode, clock, openCache, lastUpdate, openedCount,
                     partialExitCount, objectiveCount>>
  BY DEF ClosePosition, posConfig
<1>2. /\ position \in ManagedPosition /\ Balanced(position) /\ position.open \in Nat \ {0}
      /\ position.open <= position.open
  BY <1>1, HeldPosition DEF PosIInv
<1>3. PositionTimestamp \in Time
  BY <1>2, ExitTime DEF PosIInv
<1>4. gone \in ManagedPosition /\ Balanced(gone)
  BY <1>2, <1>3, ExitedIsSound
<1> HIDE DEF gone
<1>5. posResult' \in PositionResult /\ posResult'.position = gone
  BY <1>1, <1>4 DEF Managed, PositionResult, PosDecisions, PosChanges
<1>6. PosTypeOK'
  BY <1>1, <1>5, PosHistoryBounded DEF PosIInv, PosTypeOK
<1>7. BooksBalance'
  BY <1>1, <1>4, <1>5, BooksOfNext
<1>8. OpeningsAccountedFor'
  BY <1>1 DEF PosIInv, PosTypeOK, OpeningsAccountedFor
<1> QED
  BY <1>1, <1>6, <1>7, <1>8 DEF PosIInv

\* clear() and the clock keep the invariant.
LEMMA ClearAndTickPreserve ==
    ASSUME PosIInv, PosClear \/ Tick
    PROVE  PosIInv'
<1>1. CASE PosClear
  <2>1. /\ position = None /\ posResult' = None /\ openCache' = <<>> /\ lastUpdate' = None
        /\ openedCount' = 0 /\ partialExitCount' = 0 /\ closedCount' = 0
        /\ invalidationCount' = 0 /\ objectiveCount' = 0 /\ posHistorySize' = 0
        /\ UNCHANGED <<autoInvalidation, objectiveMode, clock, position>>
    BY <1>1 DEF PosClear, posConfig
  <2>2. DOMAIN openCache' = {}
    BY <2>1
  <2>3. IsFiniteSet(DOMAIN openCache)' /\ Cardinality(DOMAIN openCache') = 0
    BY <2>2, FS_EmptySet
  <2>4. PosTypeOK'
    BY <2>1, <2>2, PositionAssumption DEF PosIInv, PosTypeOK
  <2>5. BooksBalance'
    BY <2>1, BooksOfNext
  <2>6. OpeningsAccountedFor'
    BY <2>1, <2>3 DEF OpeningsAccountedFor
  <2> QED
    BY <2>3, <2>4, <2>5, <2>6 DEF PosIInv
<1>2. CASE Tick
  <2>1. /\ clock' = clock + 1
        /\ UNCHANGED <<autoInvalidation, objectiveMode, position, posResult, openCache, lastUpdate,
                       openedCount, partialExitCount, closedCount, invalidationCount,
                       objectiveCount, posHistorySize>>
    BY <1>2 DEF Tick, posConfig, posCounts
  <2>2. PosTypeOK' /\ OpeningsAccountedFor' /\ IsFiniteSet(DOMAIN openCache)'
    BY <2>1 DEF PosIInv, PosTypeOK, OpeningsAccountedFor, Time
  <2>3. BooksBalance'
    BY <2>1, BooksOfNext DEF PosIInv, BooksBalance
  <2> QED
    BY <2>2, <2>3 DEF PosIInv
<1> QED
  BY <1>1, <1>2
\* The engine starts without a position.
LEMMA PosInitially == PosInit => PosIInv
<1> SUFFICES ASSUME PosInit PROVE PosIInv
  OBVIOUS
<1>1. DOMAIN openCache = {}
  BY DEF PosInit
<1>2. IsFiniteSet(DOMAIN openCache) /\ Cardinality(DOMAIN openCache) = 0
  BY <1>1, FS_EmptySet
<1>3. PosTypeOK
  BY <1>1, PositionAssumption DEF PosInit, PosTypeOK, Time
<1>4. BooksBalance
  BY DEF PosInit, BooksBalance
<1>5. OpeningsAccountedFor
  BY <1>2 DEF PosInit, OpeningsAccountedFor
<1> QED
  BY <1>2, <1>3, <1>4, <1>5 DEF PosIInv

\* The price updates of the next-state relation are well formed.
LEMMA UpdatesAreWellFormed ==
    ASSUME NEW t \in 0 .. MaxTime, NEW price \in MarketPrices
    PROVE  [timestamp |-> t, price |-> price] \in PriceUpdate
BY PositionAssumption DEF PriceUpdate, Time

\* Every step of the engine keeps the invariant.
LEMMA PosStep == PosIInv /\ [PosNext]_posVars => PosIInv'
<1> SUFFICES ASSUME PosIInv, [PosNext]_posVars PROVE PosIInv'
  OBVIOUS
<1>1. MarketPrices \subseteq Price /\ Executions \subseteq Result
  BY PositionAssumption
<1>2. CASE PosClear \/ Tick
  BY <1>2, ClearAndTickPreserve
<1>3. ASSUME NEW result \in Executions, OpenFromExecution(result) PROVE PosIInv'
  BY <1>1, <1>3, OpenPreserves
<1>4. ASSUME NEW t \in 0 .. MaxTime, NEW price \in MarketPrices,
             UpdatePrice([timestamp |-> t, price |-> price])
      PROVE  PosIInv'
  BY <1>4, UpdatesAreWellFormed, UpdatePreserves
<1>5. ASSUME NEW price \in MarketPrices,
             NEW q \in 1 .. (IF position = None THEN 0 ELSE position.open), PartialExit(q, price)
      PROVE  PosIInv'
  <2>1. q \in Int
    BY <1>5, HeldPosition DEF PosIInv, PartialExit
  <2> QED
    BY <1>1, <1>5, <2>1, PartialExitPreserves
<1>6. ASSUME NEW price \in MarketPrices, NEW reason \in {"INVALIDATION", "MANUAL_DRY_RUN"},
             ClosePosition(price, reason)
      PROVE  PosIInv'
  BY <1>1, <1>6, ClosePreserves DEF ExitReasons
<1>7. CASE UNCHANGED posVars
  BY <1>7, PosStutter
<1> QED
  BY <1>2, <1>3, <1>4, <1>5, <1>6, <1>7 DEF PosNext

\* The inductive invariant holds of every reachable state of the engine.
LEMMA PosInvariance == PosSpec => []PosIInv
BY PosInitially, PosStep, PTL DEF PosSpec

\* Whatever touches the open position moves it forward in time.
LEMMA PosMovesForward ==
    ASSUME PosIInv, PosNext, position # None, posResult' # posResult
    PROVE  /\ posResult'.position.openedAt = position.openedAt
           /\ posResult'.position.updatedAt >= position.updatedAt
           /\ (lastUpdate # None => lastUpdate'.timestamp >= lastUpdate.timestamp)
<1>1. /\ position \in ManagedPosition /\ Balanced(position) /\ position.open \in Nat
      /\ position.open > 0 /\ position.updatedAt \in Nat
  BY HeldPosition DEF PosIInv, Time
<1>2. lastUpdate # None => lastUpdate.timestamp \in Nat
  BY DEF PosIInv, PosTypeOK, PriceUpdate, Time
<1>3. MarketPrices \subseteq Price
  BY PositionAssumption
<1>4. PositionTimestamp \in Time /\ PositionTimestamp >= position.updatedAt
  BY <1>1, ExitTime DEF PosIInv
<1>5. ASSUME PosClear \/ Tick PROVE FALSE
  BY <1>5 DEF PosClear, Tick
<1>6. ASSUME NEW result \in Executions, OpenFromExecution(result) PROVE FALSE
  BY <1>6 DEF OpenFromExecution, posVars
<1>7. ASSUME NEW t \in 0 .. MaxTime, NEW price \in MarketPrices,
             UpdatePrice([timestamp |-> t, price |-> price])
      PROVE  /\ posResult'.position.openedAt = position.openedAt
             /\ posResult'.position.updatedAt >= position.updatedAt
             /\ (lastUpdate # None => lastUpdate'.timestamp >= lastUpdate.timestamp)
  <2> DEFINE u == [timestamp |-> t, price |-> price]
  <2>1. u \in PriceUpdate
    BY UpdatesAreWellFormed
  <2> HIDE DEF u
  <2>2. UpdatePosition(u)
    BY <1>7 DEF u, UpdatePrice, UpdateWithoutPosition, RepeatUpdate, posVars
  <2>3. /\ posResult'.position.openedAt = position.openedAt
        /\ posResult'.position.updatedAt = u.timestamp
    BY <2>1, <2>2, UpdateResult
  <2>4. Fresh(position, u) /\ lastUpdate' = u
    BY <2>2 DEF UpdatePosition
  <2> QED
    BY <2>3, <2>4 DEF Fresh
<1>8. ASSUME NEW price \in MarketPrices,
             NEW q \in 1 .. (IF position = None THEN 0 ELSE position.open), PartialExit(q, price)
      PROVE  /\ posResult'.position.openedAt = position.openedAt
             /\ posResult'.position.updatedAt >= position.updatedAt
             /\ (lastUpdate # None => lastUpdate'.timestamp >= lastUpdate.timestamp)
  <2>1. /\ q < position.open
        /\ posResult'.position = Exited(position, PositionTimestamp, q, price, "MANUAL_DRY_RUN")
        /\ lastUpdate' = lastUpdate
    BY <1>8 DEF PartialExit, Managed
  <2>2. q \in Nat \ {0} /\ q <= position.open
    BY <1>1, <2>1
  <2> QED
    BY <1>1, <1>2, <1>3, <1>4, <2>1, <2>2, ExitedIsSound DEF ExitReasons
<1>9. ASSUME NEW price \in MarketPrices, NEW reason \in {"INVALIDATION", "MANUAL_DRY_RUN"},
             ClosePosition(price, reason)
      PROVE  /\ posResult'.position.openedAt = position.openedAt
             /\ posResult'.position.updatedAt >= position.updatedAt
             /\ (lastUpdate # None => lastUpdate'.timestamp >= lastUpdate.timestamp)
  <2>1. /\ posResult'.position = Exited(position, PositionTimestamp, position.open, price, reason)
        /\ lastUpdate' = lastUpdate
    BY <1>9 DEF ClosePosition, Managed
  <2>2. position.open \in Nat \ {0} /\ position.open <= position.open
    BY <1>1
  <2> QED
    BY <1>1, <1>2, <1>3, <1>4, <2>1, <2>2, ExitedIsSound DEF ExitReasons
<1> QED
  BY <1>5, <1>6, <1>7, <1>8, <1>9 DEF PosNext

\* PositionsAreHonest: whatever executions are offered and whatever prices, partial exits,
\* closings and clears follow in whatever order, the position engine's books balance, each
\* opening it counts is closed or still open, and no position goes back in time.
THEOREM PositionsStayHonest == PosSpec => PositionsAreHonest
<1>1. PosIInv => PosTypeOK /\ BooksBalance /\ OpeningsAccountedFor
  BY DEF PosIInv
<1>2. PosIInv /\ [PosNext]_posVars =>
        [(position # None /\ posResult' # posResult) =>
           /\ posResult'.position.openedAt = position.openedAt
           /\ posResult'.position.updatedAt >= position.updatedAt
           /\ (lastUpdate # None => lastUpdate'.timestamp >= lastUpdate.timestamp)]_posVars
  BY PosMovesForward
<1> QED
  BY <1>1, <1>2, PosInvariance, PTL DEF PosSpec, PositionsAreHonest, TimeNeverGoesBack

-------------------------------------------------------------------------------
(* The coordinator: what it reports *)

\* The answer the position engine gave last is about the position that is open.
AnswerIsHeld ==
    position # None =>
        /\ posResult # None
        /\ posResult.position = position
        /\ posResult.decision # "FULL_EXIT"

\* The inductive invariant, for every setting of the coordinator.
LcIInv ==
    /\ ExecIInv
    /\ PosIInv
    /\ LcTypeOK
    /\ StatusMatchesExposure
    /\ ReportsHeldPosition
    /\ AnswerIsHeld

\* The execution runtime's own steps, as the coordinator takes them.
LEMMA ExecMoves ==
    ASSUME ExecIInv, ExecNext \/ UNCHANGED execVars
    PROVE  ExecIInv'
BY ExecNextInvariant

\* Nothing is open at first.
LEMMA LcInitially == LcInit => LcIInv
<1> SUFFICES ASSUME LcInit PROVE LcIInv
  OBVIOUS
<1>1. ExecIInv /\ PosIInv
  BY ExecInitInvariant, PosInitially DEF LcInit
<1>2. position = None /\ activeIntent = None
  BY DEF LcInit, ExecInit, PosInit
<1>3. LcTypeOK
  <2>1. unitsOpened \in [RiskSnapshots -> Nat]
    BY DEF LcInit
  <2>2. lcStatus \in LcStatuses /\ stage \in Stages /\ outcome \in Outcomes
    BY DEF LcInit, LcStatuses, Stages, Outcomes
  <2>3. \A count \in {processingCount, waitingCount, blockedCount, rejectedCount,
                      executionCount, positionOpenCount, positionCloseCount} : count = 0
    BY DEF LcInit
  <2>4. /\ allowPartialOpen \in AllowPartialOpen /\ hasHistory \in BOOLEAN
        /\ lcExecution = None /\ lcPosition = None /\ lastRequest = None /\ lastPriceUpdate = None
    BY DEF LcInit
  <2> QED
    BY <2>1, <2>2, <2>3, <2>4 DEF LcTypeOK
<1>4. StatusMatchesExposure
  BY <1>2 DEF LcInit, StatusMatchesExposure
<1> QED
  BY <1>1, <1>2, <1>3, <1>4 DEF LcIInv, ReportsHeldPosition, AnswerIsHeld

\* validate, start, stop and clear leave the position alone.
LEMMA LcControlStep ==
    ASSUME LcIInv, LcValidate \/ LcStart \/ LcStop \/ LcClear
    PROVE  LcIInv'
<1>1. UNCHANGED <<allowPartialOpen, lcExecution, lcPosition, lastRequest, lastPriceUpdate,
                  unitsOpened>>
  BY DEF LcValidate, LcStart, LcStop, LcClear
<1>2. UNCHANGED posVars /\ UNCHANGED <<position, posResult>>
  BY DEF LcValidate, LcStart, LcStop, LcClear, posVars
<1>3. PosIInv'
  BY <1>2, PosStutter DEF LcIInv
<1>4. ExecNext \/ UNCHANGED execVars
  BY DEF LcValidate, LcStart, LcStop, LcClear, ExecNext
<1>5. ExecIInv'
  BY <1>4, ExecMoves DEF LcIInv
<1>6. UNCHANGED activeIntent
  BY DEF LcValidate, LcStart, LcStop, LcClear, execVars, ExecStart, ExecStop
<1>7. LcTypeOK'
  <2>1. lcStatus' \in LcStatuses /\ stage' \in Stages /\ outcome' \in Outcomes /\ hasHistory' \in BOOLEAN
    BY DEF LcIInv, LcTypeOK, LcValidate, LcStart, LcStop, LcClear, Report, LcStatuses, Stages, Outcomes
  <2>2. \A count \in {processingCount', waitingCount', blockedCount', rejectedCount',
                      executionCount', positionOpenCount', positionCloseCount'} : count \in Nat
    <3>1. CASE LcClear
      BY <3>1 DEF LcClear
    <3>2. CASE ~LcClear
      BY <3>2 DEF LcIInv, LcTypeOK, LcValidate, LcStart, LcStop, lcCounts
    <3> QED
      BY <3>1, <3>2
  <2> QED
    BY <1>1, <2>1, <2>2 DEF LcIInv, LcTypeOK
<1>8. StatusMatchesExposure'
  <2>1. CASE LcValidate
    BY <1>2, <1>6, <2>1 DEF LcValidate, StatusMatchesExposure
  <2>2. CASE LcStart
    <3>1. lcStatus' = "RUNNING" => execStatus' = "RUNNING"
      BY <2>2 DEF LcStart, ExecStart, execVars
    <3>2. lcStatus' \in {"RUNNING", "ERROR"}
      BY <2>2 DEF LcStart
    <3> QED
      BY <3>1, <3>2 DEF StatusMatchesExposure
  <2>3. CASE LcStop
    BY <1>2, <1>6, <2>3 DEF LcStop, StatusMatchesExposure
  <2>4. CASE LcClear
    BY <1>2, <1>6, <2>4 DEF LcClear, StatusMatchesExposure
  <2> QED
    BY <2>1, <2>2, <2>3, <2>4
<1>9. ReportsHeldPosition'
  <2>1. position # None => outcome' = outcome
    BY DEF LcValidate, LcStart, LcStop, LcClear
  <2> QED
    BY <1>1, <1>2, <2>1 DEF LcIInv, ReportsHeldPosition
<1>10. AnswerIsHeld'
  BY <1>2 DEF LcIInv, AnswerIsHeld
<1> QED
  BY <1>3, <1>5, <1>7, <1>8, <1>9, <1>10 DEF LcIInv

\* A request stopped at a gate is counted, and nothing else.
LEMMA ProcessGatedStep ==
    ASSUME LcIInv, NEW r \in RiskSnapshots, ProcessGated(r)
    PROVE  LcIInv'
<1>1. /\ UNCHANGED <<allowPartialOpen, lcStatus, lcExecution, lcPosition, lastPriceUpdate,
                     executionCount, positionOpenCount, positionCloseCount, unitsOpened>>
      /\ lastRequest' = r /\ hasHistory' = TRUE /\ stage' = Gate(r) /\ outcome' = Gate(r)
      /\ processingCount' = processingCount + 1
      /\ waitingCount' = waitingCount + IF Gate(r) = "WAITING" THEN 1 ELSE 0
      /\ blockedCount' = blockedCount + IF Gate(r) \in {"BLOCKED", "INSUFFICIENT_DATA"} THEN 1 ELSE 0
      /\ rejectedCount' = rejectedCount + IF Gate(r) = "REJECTED" THEN 1 ELSE 0
  BY DEF ProcessGated, Report
<1>2. UNCHANGED execVars /\ UNCHANGED posVars /\ position = None /\ Gate(r) # "PASSED"
  BY DEF ProcessGated, MayProcess
<1>3. UNCHANGED <<execStatus, activeIntent, position, posResult>>
  BY <1>2 DEF execVars, posVars
<1>4. Gate(r) \in {"WAITING", "BLOCKED", "INSUFFICIENT_DATA", "REJECTED"}
  BY <1>2 DEF Gate
<1>5. ExecIInv' /\ PosIInv'
  BY <1>2, ExecMoves, PosStutter DEF LcIInv
<1>6. LcTypeOK'
  BY <1>1, <1>4 DEF LcIInv, LcTypeOK, Stages, Outcomes
<1> QED
  BY <1>1, <1>2, <1>3, <1>5, <1>6
     DEF LcIInv, StatusMatchesExposure, ReportsHeldPosition, AnswerIsHeld

\* Opening a position from a fill, or not: from no position, whatever the engine answers
\* is what the coordinator reports.
LEMMA OpeningStep ==
    ASSUME PosIInv, LcTypeOK, position = None, NEW result \in Result, lcExecution' = result,
           OpenPosition(result) \/ NoOpening
    PROVE  /\ PosIInv'
           /\ ReportsHeldPosition'
           /\ AnswerIsHeld'
           /\ lcPosition' \in PositionResult \cup {None}
           /\ unitsOpened' \in [RiskSnapshots -> Nat]
           /\ positionOpenCount' \in Nat
<1>1. CASE NoOpening
  <2>1. UNCHANGED posVars /\ UNCHANGED <<lcPosition, positionOpenCount, unitsOpened>>
    BY <1>1 DEF NoOpening
  <2>2. position' = None
    BY <2>1 DEF posVars
  <2>3. PosIInv'
    BY <2>1, PosStutter
  <2> QED
    BY <2>1, <2>2, <2>3 DEF LcTypeOK, ReportsHeldPosition, AnswerIsHeld
<1>2. CASE OpenPosition(result)
  <2>1. /\ OpenFromExecution(result)
        /\ lcPosition' = OpenResult(result)
        /\ positionOpenCount' = positionOpenCount + 1
        /\ outcome' = "POSITION_ACTIVE"
    BY <1>2 DEF OpenPosition, Report
  <2>2. PosIInv'
    BY <2>1, OpenPreserves
  <2>3. positionOpenCount' \in Nat
    BY <2>1 DEF LcTypeOK
  <2>4. CASE result \in DOMAIN openCache
    <3>1. UNCHANGED posVars /\ unitsOpened' = unitsOpened
      BY <1>2, <2>1, <2>4 DEF OpenFromExecution, OpenPosition
    <3>2. position' = None
      BY <3>1 DEF posVars
    <3>3. lcPosition' \in PositionResult
      BY <2>1, <2>4 DEF OpenResult, PosIInv, PosTypeOK
    <3> QED
      BY <2>2, <2>3, <3>1, <3>2, <3>3 DEF LcTypeOK, ReportsHeldPosition, AnswerIsHeld
  <2>5. CASE result \notin DOMAIN openCache
    <3>1. /\ CanOpen(result)
          /\ position' = OpenResult(result).position
          /\ posResult' = OpenResult(result)
      BY <2>1, <2>5 DEF OpenFromExecution
    <3>2. /\ OpenResult(result) \in PositionResult
          /\ OpenResult(result).position = Opened(result, clock)
          /\ OpenResult(result) = Managed("HOLD", "OPENED", Opened(result, clock))
      BY <2>5, <3>1, NewOpening DEF PosIInv, OpenResult
    <3>3. OpenResult(result).decision = "HOLD" /\ OpenResult(result) # None
      BY <3>2, NoPositionAssumption DEF Managed
    <3>4. position'.source = result
      BY <3>1, <3>2, OpenedIsSound DEF PosIInv, PosTypeOK
    <3>5. unitsOpened' \in [RiskSnapshots -> Nat]
      <4>1. result.intent \in Intent /\ result.filled \in Nat
        BY <3>1 DEF CanOpen, Result, Quantity
      <4>2. result.intent.risk \in RiskSnapshots
        BY <4>1 DEF Intent
      <4>3. unitsOpened' = [unitsOpened EXCEPT ![result.intent.risk] = @ + result.filled]
        BY <1>2, <2>5 DEF OpenPosition
      <4> QED
        BY <4>1, <4>2, <4>3 DEF LcTypeOK
    <3>6. ReportsHeldPosition'
      BY <2>1, <3>1, <3>3, <3>4 DEF ReportsHeldPosition
    <3>7. AnswerIsHeld'
      BY <3>1, <3>3 DEF AnswerIsHeld
    <3> QED
      BY <2>1, <2>2, <2>3, <3>2, <3>5, <3>6, <3>7
  <2> QED
    BY <2>4, <2>5
<1> QED
  BY <1>1, <1>2

\* Whatever submit(r) returns is a result.
LEMMA SubmitResultType ==
    ASSUME ExecIInv, NEW r \in RiskSnapshots
    PROVE  SubmitResult(r) \in Result
<1>1. CASE executedCache[r] # None
  BY <1>1 DEF SubmitResult, ExecIInv, ExecTypeOK
<1>2. CASE executedCache[r] = None /\ Validate(r) = "ACCEPTED"
  BY <1>2, AcceptedResult DEF SubmitResult, ExecIInv, ExecTypeOK
<1>3. CASE executedCache[r] = None /\ Validate(r) # "ACCEPTED"
  BY <1>3, ValidateType, DeclinedType DEF SubmitResult
<1> QED
  BY <1>1, <1>2, <1>3

\* A request that reaches the execution runtime.
LEMMA ProcessExecutedStep ==
    ASSUME LcIInv, NEW r \in RiskSnapshots, ProcessExecuted(r)
    PROVE  LcIInv'
<1> DEFINE result == SubmitResult(r)
<1>1. /\ lcStatus = "RUNNING" /\ position = None
      /\ Submit(r)
      /\ processingCount' = processingCount + 1
      /\ lcExecution' = result
      /\ executionCount' = executionCount + 1
      /\ lastRequest' \in {lastRequest, r}
      /\ hasHistory' \in {hasHistory, TRUE}
      /\ UNCHANGED <<allowPartialOpen, lcStatus, lastPriceUpdate, waitingCount, blockedCount,
                     rejectedCount, positionCloseCount>>
  BY DEF ProcessExecuted, MayProcess
<1>2. /\ OpenPosition(result) \/ NoOpening
      /\ stage' \in {"BLOCKED", "POSITION_OPEN", ExecutionStage(result)}
      /\ outcome' \in {"BLOCKED", "POSITION_ACTIVE", "EXECUTED_DRY_RUN", "IN_PROGRESS"}
  <2> DEFINE raises == ShouldOpen(result) /\ ~Openable(result)
  <2> DEFINE last == IF raises THEN "EXECUTED_DRY_RUN" ELSE "IN_PROGRESS"
  <2>1. IF result.decision # "ACCEPTED" THEN Report("BLOCKED", "BLOCKED") /\ NoOpening
        ELSE IF ShouldOpen(result) /\ Openable(result) THEN OpenPosition(result)
        ELSE Report(ExecutionStage(result), last) /\ NoOpening
    BY DEF ProcessExecuted
  <2>2. \/ Report("BLOCKED", "BLOCKED") /\ NoOpening
        \/ OpenPosition(result)
        \/ Report(ExecutionStage(result), last) /\ NoOpening
    <3> HIDE DEF last, result
    <3> QED
      BY <2>1
  <2>3. OpenPosition(result) => stage' = "POSITION_OPEN" /\ outcome' = "POSITION_ACTIVE"
    BY DEF OpenPosition, Report
  <2>4. last \in {"EXECUTED_DRY_RUN", "IN_PROGRESS"}
    OBVIOUS
  <2> HIDE DEF result, last
  <2> QED
    BY <2>2, <2>3, <2>4 DEF Report
<1> HIDE DEF result
<1>3. result \in Result
  BY SubmitResultType DEF LcIInv, result
<1>4. /\ PosIInv' /\ ReportsHeldPosition' /\ AnswerIsHeld'
      /\ lcPosition' \in PositionResult \cup {None}
      /\ unitsOpened' \in [RiskSnapshots -> Nat]
      /\ positionOpenCount' \in Nat
  BY <1>1, <1>2, <1>3, OpeningStep DEF LcIInv
<1>5. ExecNext
  BY <1>1 DEF ExecNext
<1>6. ExecIInv'
  BY <1>5, ExecMoves DEF LcIInv
<1>7. execStatus' = execStatus
  BY <1>1 DEF Submit, SubmitCached, SubmitDeclined, SubmitAccepted, execVars
<1>8. ExecutionStage(result) \in Stages
  BY DEF ExecutionStage, Stages
<1>9. LcTypeOK'
  <2>1. stage' \in Stages /\ outcome' \in Outcomes
    BY <1>2, <1>8 DEF Stages, Outcomes
  <2>2. lastRequest' \in RiskSnapshots \cup {None} /\ hasHistory' \in BOOLEAN
    BY <1>1 DEF LcIInv, LcTypeOK
  <2>3. \A count \in {processingCount', waitingCount', blockedCount', rejectedCount',
                      executionCount', positionOpenCount', positionCloseCount'} : count \in Nat
    BY <1>1, <1>4 DEF LcIInv, LcTypeOK
  <2> QED
    BY <1>1, <1>3, <1>4, <2>1, <2>2, <2>3 DEF LcIInv, LcTypeOK
<1>10. StatusMatchesExposure'
  BY <1>1, <1>7 DEF LcIInv, StatusMatchesExposure
<1> QED
  BY <1>4, <1>6, <1>9, <1>10 DEF LcIInv

\* The result of a confirmed fill, and what it says of the execution in flight.
LEMMA FillResultType ==
    ASSUME ExecIInv, NEW q \in Nat, NEW price \in FillPrices, ConfirmFill(q, price)
    PROVE  /\ FillResult(q, price) \in Result
           /\ FillResult(q, price).intent \in Intent
           /\ FillResult(q, price).intent.risk = activeIntent.risk
           /\ FillResult(q, price).filled = lastResult.filled + q
           /\ FillResult(q, price).remaining = lastResult.remaining - q
           /\ IF lastResult.remaining = q
              THEN FillResult(q, price).intent.status = "FILLED"
              ELSE FillResult(q, price).intent.status = "PARTIALLY_FILLED"
<1>1. activeIntent # None /\ q \in Nat \ {0} /\ q <= lastResult.remaining /\ price \in Price
  BY ExecutionAssumption DEF ConfirmFill
<1>2. /\ lastResult \in Result /\ lastResult.intent \in Intent
      /\ lastResult.intent = activeIntent
      /\ lastResult.remaining = lastResult.accepted - lastResult.filled
  BY <1>1, ActiveExecution
<1> QED
  BY <1>1, <1>2, FilledResult DEF FillResult

\* A confirmed fill.
LEMMA ConfirmStep ==
    ASSUME LcIInv, NEW price \in FillPrices,
           NEW q \in 1 .. (IF lastResult = None THEN 0 ELSE lastResult.remaining),
           ConfirmExecutionFill(q, price)
    PROVE  LcIInv'
<1> DEFINE result == FillResult(q, price)
<1>1. /\ lcStatus = "RUNNING" /\ position = None
      /\ ConfirmFill(q, price)
      /\ lcExecution' = result
      /\ hasHistory' \in {hasHistory, TRUE}
      /\ UNCHANGED <<allowPartialOpen, lcStatus, lastRequest, lastPriceUpdate, processingCount,
                     waitingCount, blockedCount, rejectedCount, executionCount,
                     positionCloseCount>>
  BY DEF ConfirmExecutionFill
<1>2. /\ OpenPosition(result) \/ NoOpening
      /\ stage' \in {"POSITION_OPEN", ExecutionStage(result)}
      /\ outcome' \in {"POSITION_ACTIVE", "EXECUTED_DRY_RUN", "IN_PROGRESS"}
  <2> DEFINE raises == ShouldOpen(result) /\ ~Openable(result)
  <2> DEFINE last == IF raises THEN "EXECUTED_DRY_RUN" ELSE "IN_PROGRESS"
  <2>1. IF ShouldOpen(result) /\ Openable(result) THEN OpenPosition(result)
        ELSE Report(ExecutionStage(result), last) /\ NoOpening
    BY DEF ConfirmExecutionFill
  <2>2. \/ OpenPosition(result)
        \/ Report(ExecutionStage(result), last) /\ NoOpening
    <3> HIDE DEF last, result
    <3> QED
      BY <2>1
  <2>3. OpenPosition(result) => stage' = "POSITION_OPEN" /\ outcome' = "POSITION_ACTIVE"
    BY DEF OpenPosition, Report
  <2>4. last \in {"EXECUTED_DRY_RUN", "IN_PROGRESS"}
    OBVIOUS
  <2> HIDE DEF result, last
  <2> QED
    BY <2>2, <2>3, <2>4 DEF Report
<1> HIDE DEF result
<1>3. q \in Nat
  <2>1. lastResult # None /\ lastResult.remaining \in Nat
    BY <1>1, ActiveExecution DEF ConfirmFill, LcIInv
  <2> QED
    BY <2>1
<1>4. result \in Result
  BY <1>1, <1>3, FillResultType DEF LcIInv, result
<1>5. /\ PosIInv' /\ ReportsHeldPosition' /\ AnswerIsHeld'
      /\ lcPosition' \in PositionResult \cup {None}
      /\ unitsOpened' \in [RiskSnapshots -> Nat]
      /\ positionOpenCount' \in Nat
  BY <1>1, <1>2, <1>4, OpeningStep DEF LcIInv
<1>6. ExecIInv'
  BY <1>1, <1>3, ConfirmFillStep DEF LcIInv
<1>7. execStatus' = execStatus
  BY <1>1 DEF ConfirmFill
<1>8. ExecutionStage(result) \in Stages
  BY DEF ExecutionStage, Stages
<1>9. LcTypeOK'
  <2>1. stage' \in Stages /\ outcome' \in Outcomes
    BY <1>2, <1>8 DEF Stages, Outcomes
  <2>2. hasHistory' \in BOOLEAN
    BY <1>1 DEF LcIInv, LcTypeOK
  <2>3. \A count \in {processingCount', waitingCount', blockedCount', rejectedCount',
                      executionCount', positionOpenCount', positionCloseCount'} : count \in Nat
    BY <1>1, <1>5 DEF LcIInv, LcTypeOK
  <2> QED
    BY <1>1, <1>4, <1>5, <2>1, <2>2, <2>3 DEF LcIInv, LcTypeOK
<1>10. StatusMatchesExposure'
  BY <1>1, <1>7 DEF LcIInv, StatusMatchesExposure
<1> QED
  BY <1>5, <1>6, <1>9, <1>10 DEF LcIInv

\* A cancellation behind the coordinator's back, and the clock.
LEMMA BehindTheBackStep ==
    ASSUME LcIInv, CancelExecution \/ LcTick
    PROVE  LcIInv'
<1>1. UNCHANGED lcVars
  BY DEF CancelExecution, LcTick
<1>2. LcTypeOK'
  BY <1>1 DEF lcVars, lcCounts, LcIInv, LcTypeOK
<1>3. UNCHANGED <<position, posResult>> /\ PosIInv'
  <2>1. CASE CancelExecution
    BY <2>1, PosStutter DEF CancelExecution, posVars, LcIInv
  <2>2. CASE LcTick
    BY <2>2, ClearAndTickPreserve DEF LcTick, Tick, LcIInv
  <2> QED
    BY <2>1, <2>2
<1>4. ExecIInv' /\ UNCHANGED execStatus /\ (activeIntent' = activeIntent \/ activeIntent' = None)
  <2>1. CASE CancelExecution
    BY <2>1, CancelActiveStep DEF CancelExecution, CancelActive, LcIInv
  <2>2. CASE LcTick
    BY <2>2, ExecMoves DEF LcTick, execVars, LcIInv
  <2> QED
    BY <2>1, <2>2
<1>5. UNCHANGED <<lcStatus, lcExecution, lcPosition, outcome>>
  BY <1>1 DEF lcVars
<1>6. StatusMatchesExposure' /\ ReportsHeldPosition' /\ AnswerIsHeld'
  BY <1>3, <1>4, <1>5
     DEF LcIInv, StatusMatchesExposure, ReportsHeldPosition, AnswerIsHeld
<1> QED
  BY <1>2, <1>3, <1>4, <1>6 DEF LcIInv

\* What a call that touches the position leaves behind, in each of the three ways it may
\* go: no position as before, the position as it was, or the position the answer is about.
LEMMA PositionCallStep ==
    ASSUME LcIInv, PosIInv', UNCHANGED execVars,
           UNCHANGED <<allowPartialOpen, lcStatus, lcExecution, lastRequest, unitsOpened>>,
           lcPosition' = posResult', posResult' # None,
           lastPriceUpdate' \in PriceUpdate \cup {None}, hasHistory' = TRUE,
           \A count \in {processingCount', waitingCount', blockedCount', rejectedCount',
                         executionCount', positionOpenCount', positionCloseCount'} : count \in Nat,
           stage' \in {"POSITION_OPEN", "POSITION_PARTIALLY_CLOSED", "POSITION_CLOSED"},
           outcome' = IF stage' = "POSITION_CLOSED" THEN "POSITION_CLOSED" ELSE "POSITION_ACTIVE",
           position' # None =>
             /\ position # None
             /\ position'.source = position.source
             /\ posResult'.position = position'
             /\ posResult'.decision # "FULL_EXIT"
             /\ stage' # "POSITION_CLOSED"
    PROVE  LcIInv'
<1>1. ExecIInv' /\ UNCHANGED <<execStatus, activeIntent>>
  BY ExecMoves DEF LcIInv, execVars
<1>2. posResult' \in PositionResult \cup {None}
  BY DEF PosIInv, PosTypeOK
<1>3. stage' \in Stages /\ outcome' \in Outcomes
  BY DEF Stages, Outcomes
<1>4. LcTypeOK'
  BY <1>2, <1>3 DEF LcIInv, LcTypeOK
<1>5. StatusMatchesExposure'
  BY <1>1 DEF LcIInv, StatusMatchesExposure
<1>6. ReportsHeldPosition' /\ AnswerIsHeld'
  BY DEF LcIInv, ReportsHeldPosition, AnswerIsHeld
<1> QED
  BY <1>1, <1>4, <1>5, <1>6 DEF LcIInv

\* A price update.
LEMMA UpdatePriceStep ==
    ASSUME LcIInv, NEW u \in PriceUpdate, UpdatePositionPrice(u)
    PROVE  LcIInv'
<1>1. /\ UpdatePrice(u)
      /\ lcPosition' = posResult'
      /\ lastPriceUpdate' = u /\ hasHistory' = TRUE
      /\ stage' = MappedStage(posResult')
      /\ outcome' = IF stage' = "POSITION_CLOSED" THEN "POSITION_CLOSED" ELSE "POSITION_ACTIVE"
      /\ positionCloseCount' = positionCloseCount + IF stage' = "POSITION_CLOSED" THEN 1 ELSE 0
      /\ UNCHANGED execVars
      /\ UNCHANGED <<allowPartialOpen, lcStatus, lcExecution, lastRequest,
                     processingCount, waitingCount, blockedCount, rejectedCount, executionCount,
                     positionOpenCount, unitsOpened>>
  BY DEF UpdatePositionPrice, Report
<1>2. PosIInv'
  BY <1>1, UpdatePreserves DEF LcIInv
<1>3. \A count \in {processingCount', waitingCount', blockedCount', rejectedCount',
                    executionCount', positionOpenCount', positionCloseCount'} : count \in Nat
  BY <1>1 DEF LcIInv, LcTypeOK
<1>4. stage' \in {"POSITION_OPEN", "POSITION_PARTIALLY_CLOSED", "POSITION_CLOSED"}
  BY <1>1 DEF MappedStage
<1>5. /\ posResult' # None
      /\ position' # None =>
           /\ position # None
           /\ position'.source = position.source
           /\ posResult'.position = position'
           /\ posResult'.decision # "FULL_EXIT"
  <2>1. CASE UpdateWithoutPosition
    <3>1. position' = None /\ posResult' = Managed("NO_POSITION", "UNCHANGED", None)
      BY <2>1 DEF UpdateWithoutPosition
    <3>2. posResult' \in PositionResult
      BY <3>1 DEF Managed, PositionResult, PosDecisions, PosChanges
    <3> QED
      BY <3>1, <3>2, NoPositionAssumption
  <2>2. CASE RepeatUpdate(u)
    <3>1. position # None /\ UNCHANGED <<position, posResult>>
      BY <2>2 DEF RepeatUpdate, posVars
    <3> QED
      BY <3>1 DEF LcIInv, AnswerIsHeld
  <2>3. CASE UpdatePosition(u)
    <3>1. position # None
      BY <2>3 DEF UpdatePosition
    <3>2. posResult' # None
      BY <2>3, UpdateResult, NoPositionAssumption DEF LcIInv
    <3> QED
      BY <2>3, <3>1, <3>2, UpdateResult DEF LcIInv
  <2> QED
    BY <1>1, <2>1, <2>2, <2>3 DEF UpdatePrice
<1>6. position' # None => stage' # "POSITION_CLOSED"
  BY <1>1, <1>5 DEF MappedStage
<1> QED
  BY <1>1, <1>2, <1>3, <1>4, <1>5, <1>6, PositionCallStep

\* A partial exit.
LEMMA PartialExitStep ==
    ASSUME LcIInv, NEW price \in MarketPrices,
           NEW q \in 1 .. (IF position = None THEN 0 ELSE position.open),
           PartialExitPosition(q, price)
    PROVE  LcIInv'
<1>1. /\ PartialExit(q, price)
      /\ lcPosition' = posResult' /\ hasHistory' = TRUE
      /\ stage' = "POSITION_PARTIALLY_CLOSED" /\ outcome' = "POSITION_ACTIVE"
      /\ UNCHANGED execVars
      /\ UNCHANGED <<allowPartialOpen, lcStatus, lcExecution, lastRequest, lastPriceUpdate,
                     processingCount, waitingCount, blockedCount, rejectedCount, executionCount,
                     positionOpenCount, positionCloseCount, unitsOpened>>
  BY DEF PartialExitPosition, Report, lcCounts
<1>2. price \in Price
  BY PositionAssumption
<1>3. /\ position # None /\ q \in Nat \ {0} /\ q <= position.open
  BY <1>1, HeldPosition DEF PartialExit, LcIInv, PosIInv
<1>4. PosIInv'
  BY <1>1, <1>2, <1>3, PartialExitPreserves DEF LcIInv
<1>5. /\ posResult' = Managed("PARTIAL_EXIT", "PARTIALLY_CLOSED", position')
      /\ position' = Exited(position, PositionTimestamp, q, price, "MANUAL_DRY_RUN")
  BY <1>1 DEF PartialExit
<1>6. /\ posResult'.position = position' /\ posResult'.decision = "PARTIAL_EXIT"
  BY <1>5 DEF Managed
<1>7. position'.source = position.source
  <2>1. position \in ManagedPosition
    BY <1>3, HeldPosition DEF LcIInv, PosIInv
  <2> QED
    BY <1>5, <2>1 DEF Exited, ManagedPosition
<1>8. posResult' # None
  <2>1. position' \in ManagedPosition \cup {None}
    BY <1>4 DEF PosIInv, PosTypeOK
  <2>2. posResult' \in PositionResult
    BY <1>5, <2>1 DEF Managed, PositionResult, PosDecisions, PosChanges
  <2> QED
    BY <2>2, NoPositionAssumption
<1>9. /\ \A count \in {processingCount', waitingCount', blockedCount', rejectedCount',
                       executionCount', positionOpenCount', positionCloseCount'} : count \in Nat
      /\ lastPriceUpdate' \in PriceUpdate \cup {None}
  BY <1>1 DEF LcIInv, LcTypeOK
<1> QED
  BY <1>1, <1>3, <1>4, <1>6, <1>7, <1>8, <1>9, PositionCallStep

\* A close.
LEMMA CloseStep ==
    ASSUME LcIInv, NEW price \in MarketPrices, LcClosePosition(price)
    PROVE  LcIInv'
<1>1. /\ ClosePosition(price, "MANUAL_DRY_RUN")
      /\ lcPosition' = posResult' /\ hasHistory' = TRUE
      /\ stage' = "POSITION_CLOSED" /\ outcome' = "POSITION_CLOSED"
      /\ positionCloseCount' = positionCloseCount + 1
      /\ UNCHANGED execVars
      /\ UNCHANGED <<allowPartialOpen, lcStatus, lcExecution, lastRequest, lastPriceUpdate,
                     processingCount, waitingCount, blockedCount, rejectedCount, executionCount,
                     positionOpenCount, unitsOpened>>
  BY DEF LcClosePosition, Report
<1>2. price \in Price /\ "MANUAL_DRY_RUN" \in ExitReasons
  BY PositionAssumption DEF ExitReasons
<1>3. PosIInv'
  BY <1>1, <1>2, ClosePreserves DEF LcIInv
<1>4. position' = None
  BY <1>1 DEF ClosePosition
<1>5. posResult' # None
  <2> DEFINE gone == Exited(position, PositionTimestamp, position.open, price, "MANUAL_DRY_RUN")
  <2>1. /\ position \in ManagedPosition /\ Balanced(position) /\ position.open \in Nat \ {0}
        /\ position.open <= position.open
    BY <1>1, HeldPosition DEF ClosePosition, LcIInv, PosIInv
  <2>2. PositionTimestamp \in Time
    BY <2>1, ExitTime DEF LcIInv, PosIInv
  <2>3. gone \in ManagedPosition
    BY <1>2, <2>1, <2>2, ExitedIsSound
  <2>4. posResult' = Managed("FULL_EXIT", "CLOSED", gone)
    BY <1>1 DEF ClosePosition
  <2> HIDE DEF gone
  <2>5. posResult' \in PositionResult
    BY <2>3, <2>4 DEF Managed, PositionResult, PosDecisions, PosChanges
  <2> QED
    BY <2>5, NoPositionAssumption
<1>6. /\ \A count \in {processingCount', waitingCount', blockedCount', rejectedCount',
                       executionCount', positionOpenCount', positionCloseCount'} : count \in Nat
      /\ lastPriceUpdate' \in PriceUpdate \cup {None}
  BY <1>1 DEF LcIInv, LcTypeOK
<1> QED
  BY <1>1, <1>3, <1>4, <1>5, <1>6, PositionCallStep

\* Doing nothing.
LEMMA LcStutter ==
    ASSUME LcIInv, UNCHANGED allVars
    PROVE  LcIInv'
<1>1. UNCHANGED execVars /\ UNCHANGED posVars /\ UNCHANGED lcVars
  BY DEF allVars
<1>2. ExecIInv' /\ PosIInv'
  BY <1>1, ExecMoves, PosStutter DEF LcIInv
<1>3. LcTypeOK'
  BY <1>1 DEF lcVars, lcCounts, LcIInv, LcTypeOK
<1> QED
  BY <1>1, <1>2, <1>3 DEF execVars, posVars, lcVars, LcIInv, StatusMatchesExposure,
                         ReportsHeldPosition, AnswerIsHeld

\* Every step of the coordinator keeps the invariant.
LEMMA LcStep == LcIInv /\ [LcNext]_allVars => LcIInv'
<1> SUFFICES ASSUME LcIInv, [LcNext]_allVars PROVE LcIInv'
  OBVIOUS
<1>1. CASE LcValidate \/ LcStart \/ LcStop \/ LcClear
  BY <1>1, LcControlStep
<1>2. ASSUME NEW r \in RiskSnapshots, Process(r) PROVE LcIInv'
  BY <1>2, ProcessGatedStep, ProcessExecutedStep DEF Process
<1>3. ASSUME NEW price \in FillPrices,
             NEW q \in 1 .. (IF lastResult = None THEN 0 ELSE lastResult.remaining),
             ConfirmExecutionFill(q, price)
      PROVE  LcIInv'
  BY <1>3, ConfirmStep
<1>4. CASE CancelExecution \/ LcTick
  BY <1>4, BehindTheBackStep
<1>5. ASSUME NEW t \in 0 .. MaxTime, NEW price \in MarketPrices,
             UpdatePositionPrice([timestamp |-> t, price |-> price])
      PROVE  LcIInv'
  BY <1>5, UpdatesAreWellFormed, UpdatePriceStep
<1>6. ASSUME NEW price \in MarketPrices,
             NEW q \in 1 .. (IF position = None THEN 0 ELSE position.open),
             PartialExitPosition(q, price)
      PROVE  LcIInv'
  BY <1>6, PartialExitStep
<1>7. ASSUME NEW price \in MarketPrices, LcClosePosition(price) PROVE LcIInv'
  BY <1>7, CloseStep
<1>8. CASE UNCHANGED allVars
  BY <1>8, LcStutter
<1> QED
  BY <1>1, <1>2, <1>3, <1>4, <1>5, <1>6, <1>7, <1>8 DEF LcNext

\* The inductive invariant holds of every reachable state of the coordinator.
LEMMA LcInvariance == LcSpec => []LcIInv
BY LcInitially, LcStep, PTL DEF LcSpec

\* Whatever its settings, the coordinator is only ever in a status that fits what is in the
\* market, and while a position is open it reports that position, as it stands, and the
\* execution that opened it.
THEOREM LcReportsHeldPosition ==
    LcSpec => [](LcTypeOK /\ StatusMatchesExposure /\ ReportsHeldPosition)
<1>1. LcIInv => LcTypeOK /\ StatusMatchesExposure /\ ReportsHeldPosition
  BY DEF LcIInv
<1> QED
  BY <1>1, LcInvariance, PTL

-------------------------------------------------------------------------------
(* The coordinator that opens positions from complete fills only            *)
(*                                                                          *)
(* With allow_partial_fill_position_open a partially filled execution opens  *)
(* a position, and its completion another one: PositionsCoveredByFills does  *)
(* not hold.  Without it the components trade each risk snapshot once.       *)

\* An open position is one the engine remembers opening, and no intent is in flight.
HeldAlone ==
    position # None =>
        /\ activeIntent = None
        /\ position.source \in DOMAIN openCache

\* Positions are only ever opened from completely filled executions, which the
\* execution runtime remembers too.
OpenedAreFilled ==
    \A x \in DOMAIN openCache :
        /\ x.intent \in Intent
        /\ x.intent.status = "FILLED"
        /\ executedCache[x.intent.risk] = x

\* The units opened for a risk snapshot are those filled for it, once.
UnitsAreFilledUnits ==
    \A r \in RiskSnapshots :
        unitsOpened[r] = IF executedCache[r] \in DOMAIN openCache THEN filledFor[r] ELSE 0

\* What the execution runtime remembers is finished, and no position that could be
\* opened from it is still to be opened.
FinishedExecutions ==
    \A r \in RiskSnapshots :
        executedCache[r] # None =>
            /\ executedCache[r].intent \in Intent
            /\ executedCache[r].intent.status = "FILLED" =>
                 executedCache[r] \in DOMAIN openCache \/ ~CanOpen(executedCache[r])
            /\ executedCache[r].intent.status = "CANCELLED" => executedCache[r].remaining > 0

\* What the two components know of the trades, together.
TradeBooks ==
    /\ HeldAlone
    /\ OpenedAreFilled
    /\ UnitsAreFilledUnits
    /\ FinishedExecutions

\* The inductive invariant of that setting.
WholeFillsIInv == LcIInv /\ TradeBooks

\* No trade goes on except that the open position, if there is one, may end.
Rests ==
    /\ UNCHANGED <<activeIntent, executedCache, filledFor, openCache, unitsOpened>>
    /\ \/ position' = None
       \/ position # None /\ position' # None /\ position'.source = position.source

\* The trade of r is, or stays, in the hands of the execution runtime.
Works(r) ==
    /\ position = None
    /\ position' = None
    /\ executedCache[r] = None
    /\ activeIntent # None => activeIntent.risk = r
    /\ activeIntent' # None
    /\ activeIntent'.risk = r
    /\ UNCHANGED <<executedCache, openCache, unitsOpened>>
    /\ \A s \in RiskSnapshots \ {r} : filledFor'[s] = filledFor[s]

BecomesHeld(r, x) ==
    /\ x.intent.status = "FILLED"
    /\ position' # None
    /\ position'.source = x
    /\ DOMAIN openCache' = DOMAIN openCache \cup {x}
    /\ unitsOpened' = [unitsOpened EXCEPT ![r] = @ + x.filled]

StaysUnheld(x) ==
    /\ activeIntent # None
    /\ position' = None
    /\ UNCHANGED <<openCache, unitsOpened>>
    /\ \/ x.intent.status = "FILLED" /\ ~CanOpen(x)
       \/ x.intent.status = "CANCELLED" /\ x.remaining > 0

\* The execution of r ends with result x.
Finishes(r, x) ==
    /\ position = None
    /\ executedCache[r] = None
    /\ activeIntent # None => activeIntent.risk = r
    /\ activeIntent' = None
    /\ executedCache' = Remember(r, x)
    /\ x \in Result
    /\ x.intent \in Intent
    /\ x.intent.risk = r
    /\ \A s \in RiskSnapshots \ {r} : filledFor'[s] = filledFor[s]
    /\ BecomesHeld(r, x) \/ StaysUnheld(x)

\* A product grows with either factor.
LEMMA ProductGrows ==
    ASSUME NEW a \in Nat, NEW b \in Nat, NEW n \in Nat \ {0}, a < b
    PROVE  a * n < n * b
<1>1. b = a + (b - a) /\ b - a \in Nat \ {0}
  OBVIOUS
<1>2. n * b = n * a + n * (b - a)
  BY <1>1
<1>3. n * (b - a) > 0
  BY <1>1
<1>4. a * n = n * a /\ n * a \in Int /\ n * (b - a) \in Int
  BY <1>1
<1> QED
  BY <1>2, <1>3, <1>4

\* An execution that is filled at once is filled at its entry price, and from there a
\* position can always be opened: the constructors of the risk snapshot saw to that.
LEMMA ImmediateFillOpens ==
    ASSUME NEW r \in RiskSnapshots, Validate(r) = "ACCEPTED", fillPolicy \in FillPolicies,
           Accepted(r).remaining = 0
    PROVE  CanOpen(Accepted(r)) /\ Accepted(r).filled > 0
<1> DEFINE x == Accepted(r)
<1>1. /\ x.intent \in Intent /\ x.intent.risk = r /\ x.accepted = r.quantity
      /\ x.remaining = r.quantity - x.filled /\ x \in Result
  BY AcceptedResult
<1>2. x.decision = "ACCEPTED" /\ x.notional = x.filled * r.entry
  BY DEF Accepted
<1>3. r.quantity \in Nat \ {0} /\ r.entry \in Nat \ {0} /\ x.filled \in Nat
  BY <1>1, ExecutableSnapshot DEF Price, Result, Quantity
<1>4. x.filled = r.quantity /\ x.filled \in Nat \ {0}
  BY <1>1, <1>3
<1>5. r \in RiskSnapshot /\ PricesWellFormed(r)
  BY RiskSnapshotsAssumption
<1>6. r.invalidation \in Nat /\ (r.objective # None => r.objective \in Nat)
  BY <1>5 DEF RiskSnapshot, Price
<1>7. r.direction = "LONG" \/ r.direction = "SHORT"
  <2>1. Executable(r)
    BY DEF Validate
  <2> QED
    BY <2>1 DEF Executable, SideFromRisk
<1>8. x.intent # None
  BY <1>1, NoneAssumption
<1> HIDE DEF x
<1>9. CASE r.direction = "LONG"
  <2>1. r.invalidation < r.entry /\ (r.objective # None => r.objective > r.entry)
    BY <1>5, <1>9 DEF PricesWellFormed
  <2>2. r.invalidation * x.filled < x.notional
    BY <1>2, <1>3, <1>4, <1>6, <2>1, ProductGrows
  <2>3. r.objective # None => r.objective * x.filled > x.notional
    <3> SUFFICES ASSUME r.objective # None PROVE r.entry * x.filled < x.filled * r.objective
      BY <1>2, <1>3, <1>4, <1>6
    <3> QED
      BY <1>3, <1>4, <1>6, <2>1, ProductGrows
  <2> QED
    BY <1>1, <1>2, <1>3, <1>4, <1>8, <1>9, <2>2, <2>3 DEF CanOpen, SideFromRisk, x
<1>10. CASE r.direction = "SHORT"
  <2>1. r.invalidation > r.entry /\ (r.objective # None => r.objective < r.entry)
    BY <1>5, <1>10 DEF PricesWellFormed
  <2>2. r.invalidation * x.filled > x.notional
    <3>1. r.entry * x.filled < x.filled * r.invalidation
      BY <1>3, <1>4, <1>6, <2>1, ProductGrows
    <3> QED
      BY <1>2, <1>3, <1>4, <1>6, <3>1
  <2>3. r.objective # None => r.objective * x.filled < x.notional
    BY <1>2, <1>3, <1>4, <1>6, <2>1, ProductGrows
  <2> QED
    BY <1>1, <1>2, <1>3, <1>4, <1>8, <1>10, <2>2, <2>3 DEF CanOpen, SideFromRisk, x
<1> QED
  BY <1>7, <1>9, <1>10

\* An execution never opened before opens a position of its own.
LEMMA OpeningHolds ==
    ASSUME PosIInv, NEW x \in Result, x \notin DOMAIN openCache, OpenPosition(x),
           x.intent.status = "FILLED"
    PROVE  BecomesHeld(x.intent.risk, x)
<1>1. /\ CanOpen(x)
      /\ position' = OpenResult(x).position
      /\ openCache' = [y \in DOMAIN openCache \cup {x} |-> OpenResult(y)]
      /\ unitsOpened' = [unitsOpened EXCEPT ![x.intent.risk] = @ + x.filled]
  BY DEF OpenPosition, OpenFromExecution
<1>2. position' = Opened(x, clock) /\ position' \in ManagedPosition
  BY <1>1, NewOpening DEF PosIInv
<1>3. position'.source = x
  BY <1>2 DEF Opened
<1> QED
  BY <1>1, <1>2, <1>3, NoPositionAssumption DEF BecomesHeld

\* What the runtime remembers of a finished execution that fits the setting.
LEMMA RememberedExecution ==
    ASSUME WholeFillsIInv, NEW r \in RiskSnapshots, executedCache[r] # None
    PROVE  /\ executedCache[r] \in Result
           /\ executedCache[r].intent \in Intent
           /\ executedCache[r].intent.risk = r
           /\ executedCache[r].filled = filledFor[r]
           /\ executedCache[r].intent.status \in {"FILLED", "CANCELLED"}
BY DEF WholeFillsIInv, LcIInv, ExecIInv, ExecTypeOK, ExecCoherent, CacheHoldsFinishedResults,
       TradeBooks, FinishedExecutions

\* A result the runtime had forgotten or not yet given has not been opened.
LEMMA NewIsUnopened ==
    ASSUME WholeFillsIInv, NEW x \in Result, executedCache[x.intent.risk] = None
    PROVE  x \notin DOMAIN openCache
BY NoneAssumption DEF WholeFillsIInv, TradeBooks, OpenedAreFilled

\* A request, seen as a move of the trades.
LEMMA ProcessMoves ==
    ASSUME WholeFillsIInv, allowPartialOpen = FALSE, NEW r \in RiskSnapshots, ProcessExecuted(r)
    PROVE  Rests \/ Works(r) \/ \E x : Finishes(r, x)
<1> DEFINE result == SubmitResult(r)
           raises == ShouldOpen(result) /\ ~Openable(result)
<1>1. /\ position = None /\ activeIntent = None /\ execStatus = "RUNNING"
      /\ SubmitCached(r) \/ SubmitDeclined(r) \/ SubmitAccepted(r)
  BY DEF ProcessExecuted, MayProcess, Submit
<1> DEFINE last == IF raises THEN "EXECUTED_DRY_RUN" ELSE "IN_PROGRESS"
<1>2. IF result.decision # "ACCEPTED" THEN Report("BLOCKED", "BLOCKED") /\ NoOpening
      ELSE IF ShouldOpen(result) /\ Openable(result) THEN OpenPosition(result)
      ELSE Report(ExecutionStage(result), last) /\ NoOpening
  BY DEF ProcessExecuted
<1> HIDE DEF raises, last
<1>3. \/ NoOpening
      \/ ShouldOpen(result) /\ Openable(result) /\ OpenPosition(result)
  <2> HIDE DEF result
  <2> QED
    BY <1>2
<1>4. result.decision = "ACCEPTED" /\ ShouldOpen(result) /\ Openable(result) => OpenPosition(result)
  <2> HIDE DEF result
  <2> QED
    BY <1>2 DEF raises
<1>5. NoOpening => UNCHANGED <<openCache, unitsOpened>> /\ position' = None
  BY <1>1 DEF NoOpening, posVars
<1>6. fillPolicy \in FillPolicies /\ PosIInv
  BY DEF WholeFillsIInv, LcIInv, ExecIInv, ExecTypeOK
<1>7. CASE SubmitCached(r)
  <2>1. /\ executedCache[r] # None /\ result = executedCache[r]
        /\ UNCHANGED <<activeIntent, executedCache, filledFor>>
    BY <1>7 DEF SubmitCached, SubmitResult, execVars
  <2>2. CASE NoOpening
    BY <1>5, <2>1, <2>2 DEF Rests
  <2>3. CASE ShouldOpen(result) /\ Openable(result) /\ OpenPosition(result)
    <3>1. result.remaining = 0
      BY <2>3 DEF ShouldOpen
    <3>2. result.intent.status = "FILLED"
      BY <2>1, <3>1, RememberedExecution DEF WholeFillsIInv, TradeBooks, FinishedExecutions
    <3>3. result \in DOMAIN openCache
      BY <2>1, <2>3, <3>2 DEF WholeFillsIInv, TradeBooks, FinishedExecutions, Openable
    <3>4. UNCHANGED posVars /\ unitsOpened' = unitsOpened
      BY <2>3, <3>3 DEF OpenPosition, OpenFromExecution
    <3> QED
      BY <1>1, <2>1, <3>4 DEF Rests, posVars
  <2> QED
    BY <1>3, <2>2, <2>3
<1>8. CASE SubmitDeclined(r)
  <2>1. result = Declined(Validate(r)) /\ UNCHANGED <<activeIntent, executedCache, filledFor>>
    BY <1>8 DEF SubmitDeclined, SubmitResult
  <2>2. ~ShouldOpen(result)
    BY <2>1 DEF ShouldOpen, Declined
  <2> QED
    BY <1>3, <1>5, <2>1, <2>2 DEF Rests
<1>9. CASE SubmitAccepted(r)
  <2>1. /\ executedCache[r] = None /\ Validate(r) = "ACCEPTED"
        /\ result = Accepted(r)
        /\ activeIntent' = IF result.remaining > 0 THEN result.intent ELSE None
        /\ executedCache' = IF result.remaining > 0 THEN executedCache ELSE Remember(r, result)
        /\ filledFor' = [filledFor EXCEPT ![r] = @ + result.filled]
    BY <1>9 DEF SubmitAccepted, SubmitResult
  <2>2. /\ result \in Result /\ result.intent \in Intent /\ result.intent.risk = r
        /\ result.remaining = 0 => result.intent.status = "FILLED"
        /\ result.remaining \in Nat
        /\ result.decision = "ACCEPTED"
    BY <1>6, <2>1, AcceptedResult DEF Result, Quantity, Accepted
  <2>3. \A s \in RiskSnapshots \ {r} : filledFor'[s] = filledFor[s]
    BY <2>1 DEF WholeFillsIInv, LcIInv, ExecIInv, ExecTypeOK
  <2>4. CASE result.remaining > 0
    <3>1. ~ShouldOpen(result)
      BY <2>4 DEF ShouldOpen
    <3>2. UNCHANGED <<openCache, unitsOpened>> /\ position' = None
      BY <1>3, <1>5, <3>1
    <3>3. activeIntent' # None /\ activeIntent'.risk = r
      BY <2>1, <2>2, <2>4, NoneAssumption
    <3> HIDE DEF result
    <3> QED
      BY <1>1, <2>1, <2>3, <2>4, <3>2, <3>3 DEF Works
  <2>5. CASE result.remaining = 0
    <3>1. CanOpen(result) /\ result.filled > 0
      BY <1>6, <2>1, <2>5, ImmediateFillOpens
    <3>2. OpenPosition(result)
      BY <1>4, <2>2, <2>5, <3>1 DEF ShouldOpen, Openable
    <3>3. result \notin DOMAIN openCache
      BY <2>1, <2>2, NewIsUnopened
    <3> HIDE DEF result
    <3>4. BecomesHeld(r, result)
      BY <1>6, <2>2, <2>5, <3>2, <3>3, OpeningHolds
    <3>5. activeIntent' = None /\ executedCache' = Remember(r, result)
      BY <2>1, <2>5
    <3>6. Finishes(r, result)
      BY <1>1, <2>1, <2>2, <2>3, <3>4, <3>5 DEF Finishes
    <3> QED
      BY <3>6
  <2> QED
    BY <2>2, <2>4, <2>5
<1> QED
  BY <1>1, <1>7, <1>8, <1>9

\* A confirmed fill, seen as a move of the trades.
LEMMA ConfirmMoves ==
    ASSUME WholeFillsIInv, allowPartialOpen = FALSE, NEW price \in FillPrices, NEW q \in Nat,
           ConfirmExecutionFill(q, price)
    PROVE  /\ activeIntent.risk \in RiskSnapshots
           /\ Works(activeIntent.risk) \/ \E x : Finishes(activeIntent.risk, x)
<1> DEFINE result == FillResult(q, price)
           raises == ShouldOpen(result) /\ ~Openable(result)
           r == activeIntent.risk
<1>1. position = None /\ ConfirmFill(q, price) /\ activeIntent # None
  BY DEF ConfirmExecutionFill, ConfirmFill
<1> DEFINE last == IF raises THEN "EXECUTED_DRY_RUN" ELSE "IN_PROGRESS"
<1>2. IF ShouldOpen(result) /\ Openable(result) THEN OpenPosition(result)
      ELSE Report(ExecutionStage(result), last) /\ NoOpening
  BY DEF ConfirmExecutionFill
<1> HIDE DEF raises, last
<1>3. /\ ShouldOpen(result) /\ Openable(result) => OpenPosition(result)
      /\ ~(ShouldOpen(result) /\ Openable(result)) => NoOpening
  <2> HIDE DEF result
  <2> QED
    BY <1>2 DEF raises
<1>4. NoOpening => UNCHANGED <<openCache, unitsOpened>> /\ position' = None
  BY <1>1 DEF NoOpening, posVars
<1>5. ExecIInv /\ PosIInv
  BY DEF WholeFillsIInv, LcIInv
<1>6. /\ r \in RiskSnapshots /\ executedCache[r] = None /\ lastResult.remaining \in Nat
      /\ q <= lastResult.remaining /\ lastResult.filled \in Nat /\ q > 0
  BY <1>1, <1>5, ActiveExecution DEF ConfirmFill, Result, Quantity
<1>7. /\ result \in Result /\ result.intent \in Intent /\ result.intent.risk = r
      /\ result.filled = lastResult.filled + q
      /\ result.remaining = lastResult.remaining - q
      /\ IF lastResult.remaining = q THEN result.intent.status = "FILLED"
                                     ELSE result.intent.status = "PARTIALLY_FILLED"
  BY <1>1, <1>5, FillResultType
<1>8. /\ filledFor' = [filledFor EXCEPT ![r] = @ + q]
      /\ IF result.intent.status = "FILLED"
         THEN executedCache' = Remember(r, result) /\ activeIntent' = None
         ELSE activeIntent' = result.intent /\ executedCache' = executedCache
  BY <1>1 DEF ConfirmFill
<1>9. \A s \in RiskSnapshots \ {r} : filledFor'[s] = filledFor[s]
  BY <1>8 DEF WholeFillsIInv, LcIInv, ExecIInv, ExecTypeOK
<1> HIDE DEF result, r
<1>10. CASE lastResult.remaining # q
  <2>1. ~ShouldOpen(result)
    BY <1>6, <1>7, <1>10 DEF ShouldOpen
  <2>2. UNCHANGED <<openCache, unitsOpened>> /\ position' = None
    BY <1>3, <1>4, <2>1
  <2>3. activeIntent' # None /\ activeIntent'.risk = r /\ executedCache' = executedCache
    BY <1>7, <1>8, <1>10, NoneAssumption
  <2>4. Works(r)
    BY <1>1, <1>6, <1>9, <2>2, <2>3 DEF Works, r
  <2> QED
    BY <1>6, <2>4 DEF r
<1>11. CASE lastResult.remaining = q
  <2>1. result.remaining = 0 /\ result.filled > 0 /\ result.intent.status = "FILLED"
    BY <1>6, <1>7, <1>11
  <2>2. ShouldOpen(result)
    BY <2>1 DEF ShouldOpen
  <2>3. result \notin DOMAIN openCache
    BY <1>6, <1>7, NewIsUnopened
  <2>4. executedCache' = Remember(r, result) /\ activeIntent' = None
    BY <1>8, <2>1
  <2>5. BecomesHeld(r, result) \/ StaysUnheld(result)
    <3>1. CASE CanOpen(result)
      <4>1. OpenPosition(result)
        BY <1>3, <2>2, <3>1 DEF Openable
      <4> QED
        BY <1>5, <1>7, <2>1, <2>3, <4>1, OpeningHolds
    <3>2. CASE ~CanOpen(result)
      <4>1. NoOpening
        BY <1>3, <2>3, <3>2 DEF Openable
      <4> QED
        BY <1>1, <1>4, <2>1, <3>2, <4>1 DEF StaysUnheld
    <3> QED
      BY <3>1, <3>2
  <2>6. Finishes(r, result)
    BY <1>1, <1>6, <1>7, <1>9, <2>4, <2>5 DEF Finishes, r
  <2> QED
    BY <1>6, <2>6 DEF r
<1> QED
  BY <1>10, <1>11

\* A cancellation, seen as a move of the trades.
LEMMA CancelMoves ==
    ASSUME WholeFillsIInv, CancelExecution
    PROVE  /\ activeIntent.risk \in RiskSnapshots
           /\ \E x : Finishes(activeIntent.risk, x)
<1> DEFINE x == Cancelled(lastResult)
           r == activeIntent.risk
<1>1. /\ activeIntent # None /\ activeIntent' = None /\ executedCache' = Remember(r, x)
      /\ filledFor' = filledFor
      /\ UNCHANGED posVars /\ unitsOpened' = unitsOpened
  BY DEF CancelExecution, CancelActive, lcVars
<1>2. ExecIInv
  BY DEF WholeFillsIInv, LcIInv
<1>3. /\ r \in RiskSnapshots /\ executedCache[r] = None
      /\ lastResult \in Result /\ lastResult.intent \in Intent /\ lastResult.intent = activeIntent
      /\ lastResult.remaining > 0
  BY <1>1, <1>2, ActiveExecution
<1>4. /\ x \in Result /\ x.intent \in Intent /\ x.intent.risk = r
      /\ x.intent.status = "CANCELLED"
  BY <1>3, CancelledResult
<1>5. x.remaining = lastResult.remaining
  BY <1>3 DEF Cancelled, Result
<1>6. position = None
  BY <1>1 DEF WholeFillsIInv, TradeBooks, HeldAlone
<1>7. position' = None /\ openCache' = openCache
  BY <1>1, <1>6 DEF posVars
<1> HIDE DEF x, r
<1>8. StaysUnheld(x)
  BY <1>1, <1>3, <1>4, <1>5, <1>7 DEF StaysUnheld
<1>9. Finishes(r, x)
  BY <1>1, <1>3, <1>4, <1>6, <1>8 DEF Finishes, r
<1> QED
  BY <1>3, <1>9 DEF r

\* The other calls of the coordinator leave the trades to rest.
LEMMA OtherMoves ==
    ASSUME WholeFillsIInv,
           \/ LcValidate \/ LcStart \/ LcStop \/ LcClear \/ LcTick
           \/ \E r \in RiskSnapshots : ProcessGated(r)
           \/ \E price \in MarketPrices : LcClosePosition(price)
    PROVE  Rests
<1>1. CASE LcValidate \/ LcStart \/ LcStop \/ LcClear
  BY <1>1 DEF LcValidate, LcStart, LcStop, LcClear, ExecStart, ExecStop, execVars, posVars, Rests
<1>2. CASE LcTick
  BY <1>2 DEF LcTick, Tick, execVars, lcVars, Rests
<1>3. ASSUME NEW r \in RiskSnapshots, ProcessGated(r) PROVE Rests
  BY <1>3 DEF ProcessGated, execVars, posVars, Rests
<1>4. ASSUME NEW price \in MarketPrices, LcClosePosition(price) PROVE Rests
  BY <1>4 DEF LcClosePosition, ClosePosition, execVars, Rests
<1> QED
  BY <1>1, <1>2, <1>3, <1>4

\* So do a price update and a partial exit.
LEMMA TouchMoves ==
    ASSUME WholeFillsIInv,
           \/ \E u \in PriceUpdate : UpdatePositionPrice(u)
           \/ \E price \in MarketPrices :
                \E q \in 1 .. (IF position = None THEN 0 ELSE position.open) :
                  PartialExitPosition(q, price)
    PROVE  Rests
<1>1. PosIInv
  BY DEF WholeFillsIInv, LcIInv
<1>2. ASSUME NEW u \in PriceUpdate, UpdatePositionPrice(u) PROVE Rests
  <2>1. /\ UpdatePrice(u) /\ UNCHANGED <<activeIntent, executedCache, filledFor, unitsOpened>>
    BY <1>2 DEF UpdatePositionPrice, execVars
  <2>2. UNCHANGED openCache
    BY <2>1 DEF UpdatePrice, UpdateWithoutPosition, RepeatUpdate, UpdatePosition, posVars
  <2>3. CASE UpdateWithoutPosition \/ RepeatUpdate(u)
    BY <2>1, <2>2, <2>3 DEF UpdateWithoutPosition, RepeatUpdate, posVars, Rests
  <2>4. CASE UpdatePosition(u)
    <3>1. position # None
      BY <2>4 DEF UpdatePosition
    <3> QED
      BY <1>1, <2>1, <2>2, <2>4, <3>1, UpdateResult DEF Rests
  <2> QED
    BY <2>1, <2>3, <2>4 DEF UpdatePrice
<1>3. ASSUME NEW price \in MarketPrices,
             NEW q \in 1 .. (IF position = None THEN 0 ELSE position.open),
             PartialExitPosition(q, price)
      PROVE  Rests
  <2>1. /\ position # None
        /\ position' = Exited(position, PositionTimestamp, q, price, "MANUAL_DRY_RUN")
        /\ UNCHANGED <<activeIntent, executedCache, filledFor, unitsOpened, openCache>>
    BY <1>3 DEF PartialExitPosition, PartialExit, execVars
  <2>2. position \in ManagedPosition
    BY <2>1 DEF PosIInv, PosTypeOK, WholeFillsIInv, LcIInv
  <2>3. position'.source = position.source
    BY <2>1, <2>2 DEF Exited, ManagedPosition
  <2> QED
    BY <2>1, <2>3 DEF Rests
<1> QED
  BY <1>2, <1>3

\* Every step of the coordinator is a move of the trades.
LEMMA LcMoves ==
    ASSUME WholeFillsIInv, allowPartialOpen = FALSE, [LcNext]_allVars
    PROVE  \/ Rests
           \/ \E r \in RiskSnapshots : Works(r)
           \/ \E r \in RiskSnapshots : \E x : Finishes(r, x)
<1>1. CASE UNCHANGED allVars
  BY <1>1 DEF allVars, execVars, posVars, lcVars, Rests
<1>2. ASSUME NEW r \in RiskSnapshots, Process(r)
      PROVE  Rests \/ Works(r) \/ \E x : Finishes(r, x)
  BY <1>2, OtherMoves, ProcessMoves DEF Process
<1>3. ASSUME NEW price \in FillPrices,
             NEW q \in 1 .. (IF lastResult = None THEN 0 ELSE lastResult.remaining),
             ConfirmExecutionFill(q, price)
      PROVE  \E r \in RiskSnapshots : Works(r) \/ \E x : Finishes(r, x)
  <2>1. lastResult # None /\ activeIntent # None
    BY <1>3 DEF ConfirmExecutionFill, ConfirmFill
  <2>2. lastResult.remaining \in Nat
    BY <2>1, ActiveExecution DEF WholeFillsIInv, LcIInv
  <2>3. q \in Nat
    BY <2>1, <2>2
  <2> QED
    BY <1>3, <2>3, ConfirmMoves
<1>4. CASE CancelExecution
  BY <1>4, CancelMoves
<1>5. ASSUME NEW t \in 0 .. MaxTime, NEW price \in MarketPrices,
             UpdatePositionPrice([timestamp |-> t, price |-> price])
      PROVE  Rests
  BY <1>5, UpdatesAreWellFormed, TouchMoves
<1>6. ASSUME NEW price \in MarketPrices,
             NEW q \in 1 .. (IF position = None THEN 0 ELSE position.open),
             PartialExitPosition(q, price)
      PROVE  Rests
  BY <1>6, TouchMoves
<1> QED
  BY <1>1, <1>2, <1>3, <1>4, <1>5, <1>6, OtherMoves DEF LcNext

\* The moves keep the books of the trades.
LEMMA RestsKeepsBooks ==
    ASSUME WholeFillsIInv, Rests
    PROVE  TradeBooks'
BY DEF WholeFillsIInv, Rests, TradeBooks, HeldAlone, OpenedAreFilled, UnitsAreFilledUnits,
       FinishedExecutions, CanOpen

LEMMA WorksKeepsBooks ==
    ASSUME WholeFillsIInv, NEW r \in RiskSnapshots, Works(r)
    PROVE  TradeBooks'
<1>1. HeldAlone' /\ OpenedAreFilled' /\ FinishedExecutions'
  BY DEF WholeFillsIInv, Works, TradeBooks, HeldAlone, OpenedAreFilled, FinishedExecutions, CanOpen
<1>2. UnitsAreFilledUnits'
  <2> SUFFICES ASSUME NEW s \in RiskSnapshots
               PROVE  unitsOpened'[s] =
                        IF executedCache'[s] \in DOMAIN openCache' THEN filledFor'[s] ELSE 0
    BY DEF UnitsAreFilledUnits
  <2>1. unitsOpened[s] = IF executedCache[s] \in DOMAIN openCache THEN filledFor[s] ELSE 0
    BY DEF WholeFillsIInv, TradeBooks, UnitsAreFilledUnits
  <2>2. CASE s # r
    BY <2>1, <2>2 DEF Works
  <2>3. CASE s = r
    <3>1. executedCache[s] \notin DOMAIN openCache
      BY <2>3, NoneAssumption DEF Works, WholeFillsIInv, LcIInv, PosIInv, PosTypeOK
    <3> QED
      BY <2>1, <3>1 DEF Works
  <2> QED
    BY <2>2, <2>3
<1> QED
  BY <1>1, <1>2 DEF TradeBooks

LEMMA FinishesKeepsBooks ==
    ASSUME WholeFillsIInv, ExecIInv', NEW r \in RiskSnapshots, NEW x, Finishes(r, x)
    PROVE  TradeBooks'
<1>1. /\ executedCache \in [RiskSnapshots -> Result \cup {None}]
      /\ unitsOpened \in [RiskSnapshots -> Nat]
      /\ \A y \in DOMAIN openCache : y \in Result
  BY DEF WholeFillsIInv, LcIInv, LcTypeOK, ExecIInv, ExecTypeOK, PosIInv, PosTypeOK
<1>2. /\ executedCache'[r] = x
      /\ \A s \in RiskSnapshots \ {r} : executedCache'[s] = executedCache[s]
  BY <1>1 DEF Finishes, Remember
<1>3. x \in Result /\ x.intent \in Intent /\ x.intent.risk = r /\ executedCache[r] = None /\ x # None
  BY NoneAssumption DEF Finishes
<1>4. x.filled = filledFor'[r] /\ x.filled \in Nat
  BY <1>2, <1>3 DEF ExecIInv, ExecCoherent, CacheHoldsFinishedResults, Result, Quantity
<1>5. x \notin DOMAIN openCache
  BY <1>3, NewIsUnopened
<1>6. \A y \in DOMAIN openCache : y.intent.risk # r
  BY <1>1, <1>3, NoneAssumption DEF WholeFillsIInv, TradeBooks, OpenedAreFilled
<1>7. unitsOpened[r] = 0
  BY <1>1, <1>3, NoneAssumption DEF WholeFillsIInv, TradeBooks, UnitsAreFilledUnits
<1>8. \A s \in RiskSnapshots \ {r} : executedCache[s] # x
  <2> SUFFICES ASSUME NEW s \in RiskSnapshots \ {r}, executedCache[s] = x PROVE FALSE
    OBVIOUS
  <2> QED
    BY <1>3, RememberedExecution
<1>9. \A s \in RiskSnapshots \ {r} : filledFor'[s] = filledFor[s]
  BY DEF Finishes
<1>10. CASE BecomesHeld(r, x)
  <2>1. /\ x.intent.status = "FILLED" /\ position'.source = x
        /\ DOMAIN openCache' = DOMAIN openCache \cup {x}
        /\ unitsOpened' = [unitsOpened EXCEPT ![r] = @ + x.filled]
    BY <1>10 DEF BecomesHeld
  <2>2. HeldAlone'
    BY <2>1 DEF HeldAlone, Finishes
  <2>3. OpenedAreFilled'
    <3> SUFFICES ASSUME NEW y \in DOMAIN openCache'
                 PROVE  /\ y.intent \in Intent /\ y.intent.status = "FILLED"
                        /\ executedCache'[y.intent.risk] = y
      BY DEF OpenedAreFilled
    <3>1. CASE y = x
      BY <1>2, <1>3, <2>1, <3>1
    <3>2. CASE y \in DOMAIN openCache
      <4>1. /\ y.intent \in Intent /\ y.intent.status = "FILLED"
            /\ executedCache[y.intent.risk] = y
        BY <3>2 DEF WholeFillsIInv, TradeBooks, OpenedAreFilled
      <4>2. y.intent.risk \in RiskSnapshots \ {r}
        BY <1>6, <3>2, <4>1 DEF Intent
      <4> QED
        BY <1>2, <4>1, <4>2
    <3> QED
      BY <2>1, <3>1, <3>2
  <2>4. UnitsAreFilledUnits'
    <3> SUFFICES ASSUME NEW s \in RiskSnapshots
                 PROVE  unitsOpened'[s] =
                          IF executedCache'[s] \in DOMAIN openCache' THEN filledFor'[s] ELSE 0
      BY DEF UnitsAreFilledUnits
    <3>1. CASE s = r
      BY <1>1, <1>2, <1>4, <1>7, <2>1, <3>1
    <3>2. CASE s # r
      <4>1. unitsOpened[s] = IF executedCache[s] \in DOMAIN openCache THEN filledFor[s] ELSE 0
        BY DEF WholeFillsIInv, TradeBooks, UnitsAreFilledUnits
      <4>2. unitsOpened'[s] = unitsOpened[s]
        BY <1>1, <2>1, <3>2
      <4> QED
        BY <1>2, <1>8, <1>9, <2>1, <3>2, <4>1, <4>2
    <3> QED
      BY <3>1, <3>2
  <2>5. FinishedExecutions'
    <3> SUFFICES ASSUME NEW s \in RiskSnapshots, executedCache'[s] # None
                 PROVE  /\ executedCache'[s].intent \in Intent
                        /\ executedCache'[s].intent.status = "FILLED" =>
                             executedCache'[s] \in DOMAIN openCache' \/ ~CanOpen(executedCache'[s])
                        /\ executedCache'[s].intent.status = "CANCELLED" =>
                             executedCache'[s].remaining > 0
      BY DEF FinishedExecutions, CanOpen
    <3>1. CASE s = r
      BY <1>2, <1>3, <2>1, <3>1
    <3>2. CASE s # r
      BY <1>2, <2>1, <3>2 DEF WholeFillsIInv, TradeBooks, FinishedExecutions
    <3> QED
      BY <3>1, <3>2
  <2> QED
    BY <2>2, <2>3, <2>4, <2>5 DEF TradeBooks
<1>11. CASE StaysUnheld(x)
  <2>1. /\ position' = None /\ UNCHANGED <<openCache, unitsOpened>>
        /\ \/ x.intent.status = "FILLED" /\ ~CanOpen(x)
           \/ x.intent.status = "CANCELLED" /\ x.remaining > 0
    BY <1>11 DEF StaysUnheld
  <2>2. HeldAlone'
    BY <2>1 DEF HeldAlone
  <2>3. OpenedAreFilled'
    <3> SUFFICES ASSUME NEW y \in DOMAIN openCache
                 PROVE  /\ y.intent \in Intent /\ y.intent.status = "FILLED"
                        /\ executedCache'[y.intent.risk] = y
      BY <2>1 DEF OpenedAreFilled
    <3>1. /\ y.intent \in Intent /\ y.intent.status = "FILLED"
          /\ executedCache[y.intent.risk] = y
      BY DEF WholeFillsIInv, TradeBooks, OpenedAreFilled
    <3>2. y.intent.risk \in RiskSnapshots \ {r}
      BY <1>6, <3>1 DEF Intent
    <3> QED
      BY <1>2, <3>1, <3>2
  <2>4. UnitsAreFilledUnits'
    <3> SUFFICES ASSUME NEW s \in RiskSnapshots
                 PROVE  unitsOpened[s] =
                          IF executedCache'[s] \in DOMAIN openCache THEN filledFor'[s] ELSE 0
      BY <2>1 DEF UnitsAreFilledUnits
    <3>1. CASE s = r
      BY <1>2, <1>5, <1>7, <3>1
    <3>2. CASE s # r
      BY <1>2, <1>9, <3>2 DEF WholeFillsIInv, TradeBooks, UnitsAreFilledUnits
    <3> QED
      BY <3>1, <3>2
  <2>5. FinishedExecutions'
    <3> SUFFICES ASSUME NEW s \in RiskSnapshots, executedCache'[s] # None
                 PROVE  /\ executedCache'[s].intent \in Intent
                        /\ executedCache'[s].intent.status = "FILLED" =>
                             executedCache'[s] \in DOMAIN openCache' \/ ~CanOpen(executedCache'[s])
                        /\ executedCache'[s].intent.status = "CANCELLED" =>
                             executedCache'[s].remaining > 0
      BY DEF FinishedExecutions, CanOpen
    <3>1. CASE s = r
      BY <1>2, <1>3, <2>1, <3>1
    <3>2. CASE s # r
      BY <1>2, <2>1, <3>2 DEF WholeFillsIInv, TradeBooks, FinishedExecutions
    <3> QED
      BY <3>1, <3>2
  <2> QED
    BY <2>2, <2>3, <2>4, <2>5 DEF TradeBooks
<1> QED
  BY <1>10, <1>11 DEF Finishes

\* Without partial openings the inductive invariant holds of every reachable state.
LEMMA WholeFillsInvariance ==
    ASSUME AllowPartialOpen = {FALSE}
    PROVE  LcSpec => []WholeFillsIInv
<1>1. LcInit => WholeFillsIInv
  <2> SUFFICES ASSUME LcInit PROVE WholeFillsIInv
    OBVIOUS
  <2>1. LcIInv
    BY LcInitially
  <2>2. /\ position = None /\ DOMAIN openCache = {}
        /\ \A r \in RiskSnapshots : executedCache[r] = None /\ unitsOpened[r] = 0
    BY DEF LcInit, ExecInit, PosInit
  <2>3. TradeBooks
    BY <2>2 DEF TradeBooks, HeldAlone, OpenedAreFilled, UnitsAreFilledUnits, FinishedExecutions
  <2> QED
    BY <2>1, <2>3 DEF WholeFillsIInv
<1>2. WholeFillsIInv /\ [LcNext]_allVars => WholeFillsIInv'
  <2> SUFFICES ASSUME WholeFillsIInv, [LcNext]_allVars PROVE WholeFillsIInv'
    OBVIOUS
  <2>1. LcIInv'
    BY LcStep DEF WholeFillsIInv
  <2>2. allowPartialOpen = FALSE
    BY DEF WholeFillsIInv, LcIInv, LcTypeOK
  <2>3. ExecIInv'
    BY <2>1 DEF LcIInv
  <2>4. TradeBooks'
    BY <2>2, <2>3, LcMoves, RestsKeepsBooks, WorksKeepsBooks, FinishesKeepsBooks
  <2> QED
    BY <2>1, <2>4 DEF WholeFillsIInv
<1> QED
  BY <1>1, <1>2, PTL DEF LcSpec

\* CoordinatorIsTruthful: with positions opened from complete fills only, the coordinator's
\* status fits what is in the market, what it reports is the position held, and no unit
\* that went into a position was not filled, for every set of risk snapshots and bound.
THEOREM CoordinatorStaysTruthful ==
    ASSUME AllowPartialOpen = {FALSE}
    PROVE  LcSpec => []CoordinatorIsTruthful
<1>1. WholeFillsIInv => CoordinatorIsTruthful
  <2> SUFFICES ASSUME WholeFillsIInv PROVE PositionsCoveredByFills
    BY DEF WholeFillsIInv, LcIInv, CoordinatorIsTruthful
  <2>1. \A r \in RiskSnapshots : filledFor[r] \in Nat
    BY DEF WholeFillsIInv, LcIInv, ExecIInv, ExecTypeOK
  <2> QED
    BY <2>1 DEF WholeFillsIInv, TradeBooks, UnitsAreFilledUnits, PositionsCoveredByFills
<1> QED
  BY <1>1, WholeFillsInvariance, PTL

-------------------------------------------------------------------------------
(* The coordinator implements DryRunTrade *)

\* The phase of a trade, now and after a step.
LEMMA PhaseValues ==
    ASSUME NEW r \in RiskSnapshots
    PROVE  /\ position = None /\ activeIntent # None /\ activeIntent.risk = r =>
                PhaseOf(r) = "WORKING"
           /\ activeIntent = None /\ position # None /\ position.source.intent.risk = r =>
                PhaseOf(r) = "HELD"
           /\ ~(activeIntent # None /\ activeIntent.risk = r)
              /\ ~(position # None /\ position.source.intent.risk = r) =>
                PhaseOf(r) = PhaseAtRest(r)
BY DEF PhaseOf

LEMMA PhaseValuesNext ==
    ASSUME NEW r \in RiskSnapshots
    PROVE  /\ position' = None /\ activeIntent' # None /\ activeIntent'.risk = r =>
                PhaseOf(r)' = "WORKING"
           /\ activeIntent' = None /\ position' # None /\ position'.source.intent.risk = r =>
                PhaseOf(r)' = "HELD"
           /\ ~(activeIntent' # None /\ activeIntent'.risk = r)
              /\ ~(position' # None /\ position'.source.intent.risk = r) =>
                PhaseOf(r)' = PhaseAtRest(r)'
BY DEF PhaseOf

LEMMA RestIsNotInHand ==
    ASSUME NEW r \in RiskSnapshots
    PROVE  PhaseAtRest(r) \in {"NEW", "CANCELLED", "CLOSED", "UNHELD"}
BY DEF PhaseAtRest

\* What changes the phase of one trade only is a step of DryRunTrade when the change is one
\* of its moves.
LEMMA OneTradeMoves ==
    ASSUME NEW r \in RiskSnapshots,
           \A s \in RiskSnapshots \ {r} : PhaseOf(s)' = PhaseOf(s),
           \/ PhaseOf(r)' = PhaseOf(r)
           \/ /\ PhaseOf(r) = "NEW"
              /\ PhaseOf(r)' \in {"WORKING", "HELD"}
              /\ \A s \in RiskSnapshots : PhaseOf(s) \notin {"WORKING", "HELD"}
           \/ PhaseOf(r) = "WORKING" /\ PhaseOf(r)' \in {"HELD", "UNHELD", "CANCELLED"}
           \/ PhaseOf(r) = "HELD" /\ PhaseOf(r)' = "CLOSED"
    PROVE  \/ Trade!TradeNext
           \/ [s \in RiskSnapshots |-> PhaseOf(s)]' = [s \in RiskSnapshots |-> PhaseOf(s)]
<1>1. CASE PhaseOf(r)' = PhaseOf(r)
  <2>1. \A s \in RiskSnapshots : PhaseOf(s)' = PhaseOf(s)
    BY <1>1
  <2> QED
    BY <2>1
<1>2. CASE PhaseOf(r)' # PhaseOf(r)
  <2>1. Trade!Begin(r) \/ Trade!Fill(r) \/ Trade!Cancel(r) \/ Trade!Close(r)
    BY <1>2 DEF Trade!Begin, Trade!Fill, Trade!Cancel, Trade!Close, Trade!Moves, Trade!InHand
  <2> QED
    BY <1>2, <2>1 DEF Trade!TradeNext
<1> QED
  BY <1>1, <1>2

\* Resting closes the trade held, or changes no phase.
LEMMA RestsImplementsTrade ==
    ASSUME WholeFillsIInv, Rests
    PROVE  \/ Trade!TradeNext
           \/ [s \in RiskSnapshots |-> PhaseOf(s)]' = [s \in RiskSnapshots |-> PhaseOf(s)]
<1>1. \A s \in RiskSnapshots : PhaseAtRest(s)' = PhaseAtRest(s)
  BY DEF Rests, PhaseAtRest
<1>2. UNCHANGED activeIntent
  BY DEF Rests
<1>3. position # None => activeIntent = None
  BY DEF WholeFillsIInv, TradeBooks, HeldAlone
<1>4. CASE position # None /\ position' = None
  <2>1. /\ position.source \in DOMAIN openCache
        /\ position.source.intent \in Intent /\ position.source.intent.status = "FILLED"
        /\ executedCache[position.source.intent.risk] = position.source
        /\ position.source \in Result
    BY <1>4 DEF WholeFillsIInv, LcIInv, PosIInv, PosTypeOK, TradeBooks, HeldAlone, OpenedAreFilled
  <2>2. position.source.intent.risk \in RiskSnapshots
    BY <2>1 DEF Intent
  <2>3. PICK h \in RiskSnapshots : h = position.source.intent.risk
    BY <2>2
  <2>4. PhaseAtRest(h) = "CLOSED"
    BY <2>1, <2>3, NoneAssumption DEF PhaseAtRest
  <2>5. PhaseOf(h) = "HELD"
    BY <1>3, <1>4, <2>3, PhaseValues
  <2>6. activeIntent' = None
    BY <1>2, <1>3, <1>4
  <2>7. \A s \in RiskSnapshots : PhaseOf(s)' = PhaseAtRest(s)
    BY <1>1, <1>4, <2>6, PhaseValuesNext
  <2>8. \A s \in RiskSnapshots \ {h} : PhaseOf(s)' = PhaseOf(s)
    BY <1>3, <1>4, <2>3, <2>7, PhaseValues
  <2> QED
    BY <2>4, <2>5, <2>7, <2>8, OneTradeMoves
<1>5. CASE ~(position # None /\ position' = None)
  <2>1. \A s \in RiskSnapshots : PhaseOf(s)' = PhaseOf(s)
    <3> SUFFICES ASSUME NEW s \in RiskSnapshots PROVE PhaseOf(s)' = PhaseOf(s)
      OBVIOUS
    <3>1. CASE position = None /\ position' = None
      BY <1>1, <1>2, <3>1, PhaseValues, PhaseValuesNext
    <3>2. CASE position # None /\ position' # None /\ position'.source = position.source
      BY <1>1, <1>2, <1>3, <3>2, PhaseValues, PhaseValuesNext
    <3> QED
      BY <1>5, <3>1, <3>2 DEF Rests
  <2> QED
    BY <2>1
<1> QED
  BY <1>4, <1>5

\* Handing a trade to the execution runtime begins it, or changes no phase.
LEMMA WorksImplementsTrade ==
    ASSUME WholeFillsIInv, NEW r \in RiskSnapshots, Works(r)
    PROVE  \/ Trade!TradeNext
           \/ [s \in RiskSnapshots |-> PhaseOf(s)]' = [s \in RiskSnapshots |-> PhaseOf(s)]
<1>1. /\ position = None /\ position' = None /\ executedCache[r] = None
      /\ activeIntent # None => activeIntent.risk = r
      /\ activeIntent' # None /\ activeIntent'.risk = r
      /\ UNCHANGED <<executedCache, openCache>>
  BY DEF Works
<1>2. \A s \in RiskSnapshots : PhaseAtRest(s)' = PhaseAtRest(s)
  BY <1>1 DEF PhaseAtRest
<1>3. \A s \in RiskSnapshots \ {r} : PhaseOf(s)' = PhaseOf(s)
  BY <1>1, <1>2, PhaseValues, PhaseValuesNext
<1>4. PhaseOf(r)' = "WORKING"
  BY <1>1, PhaseValuesNext
<1>5. CASE activeIntent # None
  <2>1. PhaseOf(r)' = PhaseOf(r)
    BY <1>1, <1>4, <1>5, PhaseValues
  <2> QED
    BY <1>3, <2>1, OneTradeMoves
<1>6. CASE activeIntent = None
  <2>1. \A s \in RiskSnapshots : PhaseOf(s) \notin {"WORKING", "HELD"}
    BY <1>1, <1>6, PhaseValues, RestIsNotInHand
  <2>2. PhaseOf(r) = "NEW"
    BY <1>1, <1>6, PhaseValues DEF PhaseAtRest
  <2> QED
    BY <1>3, <1>4, <2>1, <2>2, OneTradeMoves
<1> QED
  BY <1>5, <1>6

\* The end of an execution holds the trade, leaves it unheld or cancels it.
LEMMA FinishesImplementsTrade ==
    ASSUME WholeFillsIInv, NEW r \in RiskSnapshots, NEW x, Finishes(r, x)
    PROVE  \/ Trade!TradeNext
           \/ [s \in RiskSnapshots |-> PhaseOf(s)]' = [s \in RiskSnapshots |-> PhaseOf(s)]
<1>1. /\ position = None /\ executedCache[r] = None
      /\ activeIntent # None => activeIntent.risk = r
      /\ activeIntent' = None
      /\ x \in Result /\ x.intent \in Intent /\ x.intent.risk = r
      /\ BecomesHeld(r, x) \/ StaysUnheld(x)
  BY DEF Finishes
<1>2. /\ executedCache'[r] = x
      /\ \A s \in RiskSnapshots \ {r} : executedCache'[s] = executedCache[s]
  BY DEF Finishes, Remember, WholeFillsIInv, LcIInv, ExecIInv, ExecTypeOK
<1>3. x # None /\ x \notin DOMAIN openCache
  BY <1>1, NoneAssumption, NewIsUnopened
<1>4. \A s \in RiskSnapshots \ {r} : executedCache[s] # x
  <2> SUFFICES ASSUME NEW s \in RiskSnapshots \ {r}, executedCache[s] = x PROVE FALSE
    OBVIOUS
  <2> QED
    BY <1>1, <1>3, RememberedExecution
<1>5. DOMAIN openCache' \in {DOMAIN openCache, DOMAIN openCache \cup {x}}
  BY <1>1 DEF BecomesHeld, StaysUnheld
<1>6. \A s \in RiskSnapshots \ {r} : PhaseAtRest(s)' = PhaseAtRest(s)
  BY <1>2, <1>4, <1>5 DEF PhaseAtRest
<1>7. position' # None => position'.source = x
  BY <1>1 DEF BecomesHeld, StaysUnheld
<1>8. \A s \in RiskSnapshots \ {r} : PhaseOf(s)' = PhaseOf(s)
  <2> SUFFICES ASSUME NEW s \in RiskSnapshots \ {r} PROVE PhaseOf(s)' = PhaseOf(s)
    OBVIOUS
  <2>1. PhaseOf(s) = PhaseAtRest(s)
    BY <1>1, PhaseValues
  <2>2. PhaseOf(s)' = PhaseAtRest(s)'
    BY <1>1, <1>7, PhaseValuesNext
  <2> QED
    BY <1>6, <2>1, <2>2
<1>9. CASE BecomesHeld(r, x)
  <2>1. PhaseOf(r)' = "HELD"
    BY <1>1, <1>7, <1>9, PhaseValuesNext DEF BecomesHeld
  <2>2. CASE activeIntent # None
    <3>1. PhaseOf(r) = "WORKING"
      BY <1>1, <2>2, PhaseValues
    <3> QED
      BY <1>8, <2>1, <3>1, OneTradeMoves
  <2>3. CASE activeIntent = None
    <3>1. \A s \in RiskSnapshots : PhaseOf(s) \notin {"WORKING", "HELD"}
      BY <1>1, <2>3, PhaseValues, RestIsNotInHand
    <3>2. PhaseOf(r) = "NEW"
      BY <1>1, <2>3, PhaseValues DEF PhaseAtRest
    <3> QED
      BY <1>8, <2>1, <3>1, <3>2, OneTradeMoves
  <2> QED
    BY <2>2, <2>3
<1>10. CASE StaysUnheld(x)
  <2>1. PhaseOf(r) = "WORKING"
    BY <1>1, <1>10, PhaseValues DEF StaysUnheld
  <2>2. position' = None /\ openCache' = openCache
    BY <1>10 DEF StaysUnheld
  <2>3. PhaseOf(r)' = PhaseAtRest(r)'
    BY <1>1, <2>2, PhaseValuesNext
  <2>4. PhaseAtRest(r)' \in {"CANCELLED", "UNHELD"}
    BY <1>2, <1>3, <2>2 DEF PhaseAtRest
  <2> QED
    BY <1>8, <2>1, <2>3, <2>4, OneTradeMoves
<1> QED
  BY <1>1, <1>9, <1>10

\* ImplementsDryRunTrade: with positions opened from complete fills only, the coordinator,
\* the execution runtime and the position engine together trade each risk snapshot at most
\* once and one at a time, for every set of risk snapshots, fill policy and price.
THEOREM LifecycleImplementsTrade ==
    ASSUME AllowPartialOpen = {FALSE}
    PROVE  LcSpec => ImplementsDryRunTrade
<1>1. LcInit => Trade!TradeInit
  <2> SUFFICES ASSUME LcInit, NEW r \in RiskSnapshots PROVE PhaseOf(r) = "NEW"
    BY DEF Trade!TradeInit
  <2>1. activeIntent = None /\ position = None /\ executedCache[r] = None
    BY DEF LcInit, ExecInit, PosInit
  <2> QED
    BY <2>1, PhaseValues DEF PhaseAtRest
<1>2. WholeFillsIInv /\ [LcNext]_allVars =>
        [Trade!TradeNext]_([r \in RiskSnapshots |-> PhaseOf(r)])
  <2> SUFFICES ASSUME WholeFillsIInv, [LcNext]_allVars
               PROVE  \/ Trade!TradeNext
                      \/ [s \in RiskSnapshots |-> PhaseOf(s)]' = [s \in RiskSnapshots |-> PhaseOf(s)]
    OBVIOUS
  <2>1. allowPartialOpen = FALSE
    BY DEF WholeFillsIInv, LcIInv, LcTypeOK
  <2> QED
    BY <2>1, LcMoves, RestsImplementsTrade, WorksImplementsTrade, FinishesImplementsTrade
<1> QED
  BY <1>1, <1>2, WholeFillsInvariance, PTL DEF LcSpec, ImplementsDryRunTrade, Trade!TradeSpec
===============================================================================
