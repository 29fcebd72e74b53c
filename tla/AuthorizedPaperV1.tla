-------------------------- MODULE AuthorizedPaperV1 --------------------------
(***************************************************************************)
(* engines/trade_decision_authorization and                                *)
(* application/authorized_paper_execution: strategy, confidence, risk and  *)
(* the execution plan are authorized together, and an authorized plan is   *)
(* handed to the paper execution coordinator.                              *)
(*                                                                         *)
(* Both work on objects their callers hold: a plan as the policy engine    *)
(* returned it once, whatever became of it since (keptPlan), and a result  *)
(* of the gate, also after the gate was reset (results).  Times are the    *)
(* callers' and need not grow.  Requests are for the engine's instrument:  *)
(* the gate raises on another.  Counters are left out.                     *)
(***************************************************************************)
EXTENDS ExecutionPolicyV1

CONSTANTS
    AuthRequests,  \* the TradeAuthorizationRequests, but for the plan
    Handoffs       \* the AuthorizedPaperHandoffRequests, but for plan and authorization

VARIABLES
    gate,       \* the authorization engine's _lifecycle_state
    results,    \* the last result of each authorization id, in its callers' hands
    stored,     \* the ids of the gate's _results
    handoff,       \* the handoff coordinator's _lifecycle_state
    outcomes,   \* its _results, with what their requests were about
    invoked,    \* its _invoked_plan_ids
    keptPlan,   \* a plan somebody kept; bound: one at a time
    paper       \* the plans with an execution in the paper execution coordinator

gateVars == <<gate, results, stored>>
handoffVars == <<handoff, outcomes, invoked, paper>>
authVars == <<policyVars, gateVars, handoffVars, keptPlan>>

Verdicts   == {"OK", "REDUCE", "BLOCK"}
\* StrategyDecisionState, ConfidenceCalibrationResult and RiskDecisionState, as far as the gate reads them.
Evidence   == [instrument : Instruments, direction : {"BULLISH", "BEARISH"}, timestamp : Int, verdict : Verdicts]
AuthReasons ==
    {"INVALID_INPUT", "INSTRUMENT_MISMATCH", "DIRECTION_MISMATCH", "STALE_INPUT", "CONFIDENCE_BLOCKED", "RISK_BLOCKED",
     "POLICY_BLOCKED", "CONFIDENCE_REDUCED", "RISK_REDUCED", "POLICY_REDUCED"}
BlockReasons == AuthReasons \ {"CONFIDENCE_REDUCED", "RISK_REDUCED", "POLICY_REDUCED"}
Lifecycles   == {"CREATED", "READY", "ACTIVE", "STOPPED", "FAILED"}

\* TradeAuthorizationRequest: an input that is not of its type is None.
TradeAuthorizationRequest ==
    {a \in [id : STRING, timestamp : Int, strategy : Optional(Evidence),
            confidence : Optional(Evidence), risk : Optional(Evidence)] :
        \A e \in {a.strategy, a.confidence, a.risk} : e # None => e.timestamp <= a.timestamp}

\* A plan as an object: its id and what the policy engine made of it.
PlanObject == [id : PlanIds, plan : TradeExecutionPlan]

\* TradeAuthorizationResult, with its request (of which the code keeps the time, the direction and the ids).
TradeAuthorizationResult ==
    [request : AuthRequests, plan : PlanIds, decision : {"AUTHORIZE", "REDUCE", "BLOCK"}]

\* AuthorizedPaperHandoffResult; with what it was about if the paper coordinator was called.
HandoffResult ==
    [decision : {"HOLD_REDUCTION_REQUIRED", "REJECT"}]
    \cup [decision : {"EXECUTE", "REJECT"}, request : Handoffs, authorization : TradeAuthorizationResult,
          subject : PlanObject]

ASSUME AuthAssumption ==
    /\ \A a \in AuthRequests : a \in TradeAuthorizationRequest
    /\ \A h \in Handoffs : h \in [id : STRING, timestamp : Int]

AuthTypeOK ==
    /\ PolicyTypeOK
    /\ gate \in Lifecycles \ {"FAILED"} /\ handoff \in Lifecycles
    /\ results \in [{a.id : a \in AuthRequests} -> Optional(TradeAuthorizationResult)]
    /\ \A i \in stored : results[i] # None
    /\ outcomes \in [{h.id : h \in Handoffs} -> Optional(HandoffResult)]
    /\ invoked \subseteq PlanIds /\ paper \subseteq PlanIds
    /\ keptPlan \in Optional(PlanObject)
-----------------------------------------------------------------------------
(* The gate *)

MAX_INPUT_AGE         == 5   \* MAX_INPUT_AGE_SECONDS, in minutes
MAX_AUTHORIZATION_AGE == 2   \* MAX_AUTHORIZATION_AGE_SECONDS

DirectionOf(id)  == RequestOf(id).risk.direction
InstrumentOf(id) == RequestOf(id).instrument
CreatedAt(id)    == RequestOf(id).timestamp
CurrentPlan(id)  == [id |-> id, plan |-> plans[id]]
\* The plans a caller can pass: those of the engine, and the one that was kept.
PlansAtHand      == {CurrentPlan(id) : id \in {i \in PlanIds : plans[i] # None}} \cup ({keptPlan} \ {None})

Reason(when, reason) == IF when THEN {reason} ELSE {}

\* _policy_reasons.
PolicyReasons(plan) ==
    IF plan.decision # "APPROVED" \/ plan.status \in {"LOCKED", "REJECTED", "EXPIRED", "CANCELLED"}
    THEN {"POLICY_BLOCKED"}
    ELSE Reason(plan.status = "AWAITING_MANUAL_APPROVAL", "POLICY_REDUCED")

\* _confidence_reasons and _risk_reasons.
VerdictReasons(e, blocked, reduced) ==
    Reason(e.verdict = "BLOCK", blocked) \cup Reason(e.verdict = "REDUCE", reduced)

\* The reasons _authorize collects, with _invalid_inputs, _instrument_mismatch,
\* _direction_mismatch and _stale_inputs.
ReasonsOf(a, o) ==
    IF None \in {a.strategy, a.confidence, a.risk} THEN {"INVALID_INPUT"}
    ELSE LET elsewhere == {a.strategy.instrument, a.confidence.instrument, a.risk.instrument, InstrumentOf(o.id)}
                              # {Instrument}
             directions == {a.confidence.direction, a.risk.direction, DirectionOf(o.id)}
             times      == {a.strategy.timestamp, a.confidence.timestamp, a.risk.timestamp, CreatedAt(o.id)}
         IN  Reason(elsewhere, "INSTRUMENT_MISMATCH")
             \cup Reason(~elsewhere /\ directions # {a.strategy.direction}, "DIRECTION_MISMATCH")
             \cup Reason(\E t \in times : a.timestamp - t > MAX_INPUT_AGE, "STALE_INPUT")
             \cup VerdictReasons(a.confidence, "CONFIDENCE_BLOCKED", "CONFIDENCE_REDUCED")
             \cup VerdictReasons(a.risk, "RISK_BLOCKED", "RISK_REDUCED")
             \cup PolicyReasons(o.plan)

\* _decision_from_reasons; the multiplier follows the decision.
DecisionFrom(reasons) ==
    IF reasons \cap BlockReasons # {} THEN "BLOCK" ELSE IF reasons # {} THEN "REDUCE" ELSE "AUTHORIZE"

\* A faulty form of Authorized: the reasons of the confidence do not count.
AuthorizedUnasked(a, o) ==
    [request |-> a, plan |-> o.id,
     decision |-> DecisionFrom(ReasonsOf(a, o) \ {"CONFIDENCE_BLOCKED", "CONFIDENCE_REDUCED"})]

\* _authorize.
Authorized(a, o) == [request |-> a, plan |-> o.id, decision |-> DecisionFrom(ReasonsOf(a, o))]

\* authorize of an id the gate has no result of.  TradeAuthorizationRequest refuses an input of the future.
Authorize(a, o) ==
    /\ gate \in {"READY", "ACTIVE"}
    /\ a.id \notin stored
    /\ CreatedAt(o.id) <= a.timestamp
    /\ results' = [results EXCEPT ![a.id] = Authorized(a, o)]
    /\ stored' = stored \cup {a.id}
    /\ gate' = "ACTIVE"
    /\ UNCHANGED <<policyVars, handoffVars, keptPlan>>

StartGate == gate = "CREATED" /\ gate' = "READY" /\ UNCHANGED <<results, stored, policyVars, handoffVars, keptPlan>>
StopGate  == gate # "STOPPED" /\ gate' = "STOPPED" /\ UNCHANGED <<results, stored, policyVars, handoffVars, keptPlan>>
ResetGate == gate' = "READY" /\ stored' = {} /\ UNCHANGED <<results, policyVars, handoffVars, keptPlan>>
-----------------------------------------------------------------------------
(* The handoff *)

\* _plan_is_executable.
Executable(plan) == plan.status = "READY_FOR_PAPER" /\ plan.decision = "APPROVED" /\ plan.reason = "APPROVED"

\* That _handoff has no reason that comes before those of the authorization's decision in _REASON_PRIORITY:
\* it compares ids, directions and times, not the authorized plan with the one that is passed.
Fits(h, r, o) ==
    /\ InstrumentOf(o.id) = Instrument
    /\ r.request.strategy # None /\ r.request.strategy.direction = DirectionOf(o.id)
    /\ r.plan = o.id
    /\ h.timestamp - r.request.timestamp <= MAX_AUTHORIZATION_AGE
    /\ h.timestamp >= CreatedAt(o.id) /\ h.timestamp < ValidUntil(RequestOf(o.id), PolicyOf(o.id))
    /\ ModeOf(RequestOf(o.id), PolicyOf(o.id)) = "PAPER"
    /\ Executable(o.plan)

\* A faulty form of Admitted: _invoked_plan_ids is not asked.
AdmittedUncounted(h, r, o) == Fits(h, r, o) /\ r.decision = "AUTHORIZE"

\* Whether _handoff has no reason not to execute.
Admitted(h, r, o) == Fits(h, r, o) /\ r.decision = "AUTHORIZE" /\ o.id \notin invoked

\* _rejected_result: held if the reduction is the first reason.
HeldOrRejected(h, r, o) ==
    IF r.decision = "REDUCE" /\ Fits(h, r, o) THEN "HOLD_REDUCTION_REQUIRED" ELSE "REJECT"

Called(i) == outcomes[i] # None /\ "subject" \in DOMAIN outcomes[i]

CanHandOff(h, r) ==
    /\ handoff \in {"READY", "ACTIVE"}
    /\ outcomes[h.id] = None
    /\ r # None /\ r.request.timestamp <= h.timestamp

\* handoff that ends before the paper coordinator is called.
HandoffRefused(h, r, o) ==
    /\ CanHandOff(h, r)
    /\ ~Admitted(h, r, o)
    /\ outcomes' = [outcomes EXCEPT ![h.id] = [decision |-> HeldOrRejected(h, r, o)]]
    /\ handoff' = "ACTIVE"
    /\ UNCHANGED <<invoked, paper, policyVars, gateVars, keptPlan>>

\* handoff that calls execute_paper_plan: the coordinator executes the plan or not, a plan it has executed
\* never again, and approves or not: it may answer the same request from its receipts, and a
\* subscriber of its events may raise after the orders were made.
HandoffCalls(h, r, o, executes, approves) ==
    /\ CanHandOff(h, r)
    /\ Admitted(h, r, o)
    /\ executes => o.id \notin paper
    /\ approves => executes \/ o.id \in paper
    /\ paper' = IF executes THEN paper \cup {o.id} ELSE paper
    /\ invoked' = invoked \cup {o.id}
    /\ outcomes' = [outcomes EXCEPT ![h.id] = [decision |-> IF approves THEN "EXECUTE" ELSE "REJECT",
                        request |-> h, authorization |-> r, subject |-> o]]
    /\ handoff' = "ACTIVE"
    /\ UNCHANGED <<policyVars, gateVars, keptPlan>>

\* handoff in which something raises that is neither TypeError, ValueError nor RuntimeError.
HandoffFails(h, r, o, executes) ==
    /\ CanHandOff(h, r)
    /\ Admitted(h, r, o)
    /\ executes => o.id \notin paper
    /\ paper' = IF executes THEN paper \cup {o.id} ELSE paper
    /\ handoff' = "FAILED"
    /\ UNCHANGED <<outcomes, invoked, policyVars, gateVars, keptPlan>>

StartDesk == handoff = "CREATED" /\ handoff' = "READY" /\ UNCHANGED <<outcomes, invoked, paper, policyVars, gateVars, keptPlan>>
StopDesk  == handoff \in {"READY", "ACTIVE"} /\ handoff' = "STOPPED"
             /\ UNCHANGED <<outcomes, invoked, paper, policyVars, gateVars, keptPlan>>
\* reset: what was executed is forgotten here and remembered by the paper coordinator.
ResetDesk ==
    /\ handoff' = "READY"
    /\ outcomes' = [i \in DOMAIN outcomes |-> None]
    /\ invoked' = {}
    /\ UNCHANGED <<paper, policyVars, gateVars, keptPlan>>
-----------------------------------------------------------------------------
AuthInit ==
    /\ PolicyInit
    /\ gate = "CREATED" /\ results = [i \in {a.id : a \in AuthRequests} |-> None] /\ stored = {}
    /\ handoff = "CREATED" /\ outcomes = [i \in {h.id : h \in Handoffs} |-> None] /\ invoked = {}
    /\ keptPlan = None
    /\ paper = {}

\* A caller keeps a plan as the engine has it now; one that is not executable is refused everywhere.
KeepPlan(id) ==
    /\ plans[id] # None /\ Executable(plans[id])
    /\ keptPlan' = CurrentPlan(id)
    /\ UNCHANGED <<policyVars, gateVars, handoffVars>>

PlanMoves == PolicyNext /\ UNCHANGED <<gateVars, handoffVars, keptPlan>>

GateMoves ==
    \/ StartGate \/ StopGate \/ ResetGate
    \/ \E a \in AuthRequests, o \in PlansAtHand : Authorize(a, o)

DeskMoves ==
    \/ StartDesk \/ StopDesk \/ ResetDesk
    \/ \E h \in Handoffs, i \in DOMAIN results, o \in PlansAtHand, executes \in BOOLEAN :
          \/ HandoffRefused(h, results[i], o)
          \/ HandoffFails(h, results[i], o, executes)
          \/ \E approves \in BOOLEAN : HandoffCalls(h, results[i], o, executes, approves)

AuthNext == PlanMoves \/ GateMoves \/ DeskMoves \/ \E id \in PlanIds : KeepPlan(id)

AuthSpec == AuthInit /\ [][AuthNext]_authVars
-----------------------------------------------------------------------------
(* Properties *)

\* A plan the paper coordinator was called for had every approval at some time: the authorization found no
\* reason against it, all four decisions point the same way, the manual approval the policy
\* asks for was given, and the times passed are within the plan's validity.  No component checks all of
\* this: the handoff trusts the gate and the plan object, the gate trusts the policy engine.
ExecutedWasApproved ==
    \A i \in DOMAIN outcomes : Called(i) =>
        LET h == outcomes[i].request
            o == outcomes[i].subject
            a == outcomes[i].authorization.request
            q == RequestOf(o.id)
        IN  /\ a.confidence.verdict = "OK" /\ a.risk.verdict = "OK"
            /\ {a.strategy.direction, a.confidence.direction, a.risk.direction} = {q.risk.direction}
            /\ ManualRequired(q, PolicyOf(o.id)) => o.plan.manualPresent
            /\ QuantityOf(q) \in 1 .. q.risk.quantity
            /\ h.timestamp \in q.timestamp .. q.timestamp + PolicyOf(o.id).maxValidity - 1
            /\ h.timestamp - a.timestamp \in 0 .. MAX_AUTHORIZATION_AGE

\* Between two resets the paper coordinator is called for a plan once, whatever is handed over again under
\* other ids, with other copies of the plan or other authorizations, after a call that failed half-way.
OneCallPerPlan ==
    \A i \in DOMAIN outcomes : Called(i) =>
        /\ outcomes[i].subject.id \in invoked
        /\ \A j \in DOMAIN outcomes \ {i} : Called(j) => outcomes[j].subject.id # outcomes[i].subject.id

\* What the paper coordinator relies on: it is called for approved plans, and for each of them once.
CallsWereApproved == ExecutedWasApproved /\ OneCallPerPlan
=============================================================================
