-------------------------- MODULE ExecutionPolicyV1 --------------------------
(***************************************************************************)
(* engines/trade_execution_policy: a risk decision and a request for its   *)
(* execution become an execution plan, or the record of why there is none. *)
(*                                                                         *)
(* A request stands for its fingerprint (name), a plan's id for what it is *)
(* computed from: the request with its risk decision, and the policy.      *)
(* Prices are in half ticks, times in minutes.  The events published and   *)
(* the counters are left out, and the engine states LOCKED, which nothing  *)
(* sets, and FAILED, which only numbers that are not finite lead to.       *)
(***************************************************************************)
EXTENDS NoneValue, Integers, FiniteSets, Sequences

CONSTANTS
    Requests,   \* the requests for an execution the program meets
    Policies,   \* the policies they are evaluated under
    Instrument, \* the instrument of the engine
    Times       \* the times callers approve, authorize and execute at

VARIABLES
    engine,     \* _state
    plans,      \* _plans: what matters of a plan that its id does not tell
    byClient,   \* _by_client_request: id of the client's request -> plan id
    byRisk,     \* _by_risk_decision
    bySignal    \* _by_signal

policyVars == <<engine, plans, byClient, byRisk, bySignal>>

Instruments == {"NIFTY", "BANKNIFTY", "SENSEX"}
Modes       == {"PLAN_ONLY", "PAPER"}
OrderTypes  == {"MARKET", "LIMIT", "STOP_LIMIT"}
Optional(S) == S \cup {None}

\* _risk_view of a risk decision; an invalid one has its defaults.
RiskView ==
    [valid : BOOLEAN, id : STRING, signal : Optional(STRING), timestamp : Int,
     instrument : STRING, direction : {"BULLISH", "BEARISH"}, approved : BOOLEAN,
     quantity : Int, entry : Int, stop : Optional(Int), target : Optional(Int), manual : BOOLEAN]

\* ExecutionRequest, with what __post_init__ demands.
ExecutionRequest ==
    {q \in [name : STRING, instrument : Instruments, timestamp : Int, risk : RiskView,
            mode : Optional(Modes \cup {"live"}), type : OrderTypes,
            entry : Optional(Nat \ {0}), reference : Optional(Nat \ {0}),
            trigger : Optional(Nat \ {0}), quantity : Optional(Nat \ {0}),
            manual : BOOLEAN, signal : Optional(STRING), client : Optional(STRING),
            existing : SUBSET (STRING \X STRING), validUntil : Optional(Int)] :
        q.validUntil # None => q.validUntil > q.timestamp}

\* ExecutionPolicy, with what __post_init__ demands.  The slippage limits are in half ticks and in
\* thousandths of the reference price.
ExecutionPolicy ==
    {p \in [name : STRING, enabled : BOOLEAN, instruments : SUBSET Instruments,
            modes : SUBSET Modes, defaultMode : Modes, types : SUBSET OrderTypes,
            market : BOOLEAN, limit : BOOLEAN, stopLimit : BOOLEAN,
            manual : BOOLEAN, riskApproval : BOOLEAN, stop : BOOLEAN, target : BOOLEAN,
            maxAge : Nat \ {0}, maxValidity : Nat \ {0}, points : Optional(Nat), permille : Optional(Nat),
            ticks : SUBSET Instruments, mustMatch : BOOLEAN, reduction : BOOLEAN,
            duplicates : BOOLEAN, perSignal : BOOLEAN, perRisk : BOOLEAN] :
        /\ p.instruments # {} /\ p.types # {}
        /\ p.defaultMode \in p.modes}

ASSUME PolicyAssumption ==
    /\ \A q \in Requests : q \in ExecutionRequest
    /\ \A p \in Policies : p \in ExecutionPolicy
    /\ \A q, r \in Requests : q.name = r.name => q = r
    /\ \A p, r \in Policies : p.name = r.name => p = r
    /\ IsFiniteSet(Requests) /\ IsFiniteSet(Policies) /\ Times \subseteq Int

PlanIds    == {q.name : q \in Requests} \X {p.name : p \in Policies}
PlanId(q, p)  == <<q.name, p.name>>
RequestOf(id) == CHOOSE q \in Requests : q.name = id[1]
PolicyOf(id)  == CHOOSE p \in Policies : p.name = id[2]

ActiveStatuses == {"PREPARED", "AWAITING_MANUAL_APPROVAL", "READY_FOR_PAPER"}
PlanStatuses   == ActiveStatuses \cup {"LOCKED", "REJECTED", "EXPIRED", "CANCELLED"}
Decisions      == {"APPROVED", "REJECTED", "LOCKED", "INVALID", "EXPIRED"}

\* ExecutionReasonCode, without the members no plan of the modelled states has.
ExecutionReasonCode ==
    {"APPROVED", "POLICY_DISABLED", "INVALID_REQUEST", "INVALID_RISK_DECISION", "RISK_NOT_APPROVED",
     "RISK_DECISION_EXPIRED", "RISK_DECISION_MISMATCH", "UNSUPPORTED_INSTRUMENT", "UNSUPPORTED_EXECUTION_MODE",
     "LIVE_EXECUTION_BLOCKED", "UNSUPPORTED_ORDER_TYPE", "MARKET_ORDER_BLOCKED", "MISSING_MANUAL_APPROVAL",
     "QUANTITY_MISMATCH", "QUANTITY_INCREASE_BLOCKED", "ZERO_QUANTITY", "INVALID_ENTRY_PRICE",
     "INVALID_TRIGGER_PRICE", "INVALID_LIMIT_PRICE", "INVALID_STOP_PRICE", "INVALID_TARGET_PRICE",
     "PRICE_NOT_TICK_ALIGNED", "SLIPPAGE_LIMIT_EXCEEDED", "MISSING_STOP_PLAN", "MISSING_TARGET_PLAN",
     "INVALID_STOP_GEOMETRY", "INVALID_TARGET_GEOMETRY", "DUPLICATE_EXECUTION_PLAN", "SIGNAL_ALREADY_HAS_PLAN",
     "RISK_DECISION_ALREADY_HAS_PLAN", "REQUEST_EXPIRED", "ENGINE_STOPPED"}

\* TradeExecutionPlan: instrument, prices and quantities are those of its request and policy, and
\* only an active plan has protective orders (_plan, _blocked_plan).
TradeExecutionPlan ==
    [status : PlanStatuses, decision : Decisions, reason : ExecutionReasonCode,
     manualRequired : BOOLEAN, manualPresent : BOOLEAN]

\* None is neither a plan nor an id.
ASSUME NoneIsNoPlan ==
    /\ None \notin TradeExecutionPlan /\ None \notin PlanIds
    /\ \A q \in Requests : q.risk.id # None

PolicyTypeOK ==
    /\ engine \in {"CREATED", "READY", "ACTIVE", "STOPPED"}
    /\ plans \in [PlanIds -> Optional(TradeExecutionPlan)]
    /\ byClient \in [{q.client : q \in Requests} -> Optional(PlanIds)]
    /\ byRisk \in [{q.risk.id : q \in Requests} -> Optional(PlanIds)]
    /\ bySignal \in [{q.signal : q \in Requests} \cup {q.risk.signal : q \in Requests} -> Optional(PlanIds)]
-----------------------------------------------------------------------------
(* What a request and a policy alone decide *)

Either(a, b)    == IF a # None THEN a ELSE b
Aligned(price)  == price % 2 = 0
Distance(a, b)  == IF a >= b THEN a - b ELSE b - a
Side(direction) == IF direction = "BULLISH" THEN "BUY" ELSE "SELL"

ModeOf(q, p)     == Either(q.mode, p.defaultMode)
SignalOf(q)      == Either(q.signal, q.risk.signal)
QuantityOf(q)    == Either(q.quantity, q.risk.quantity)
EntryOf(q)       == Either(q.entry, q.risk.entry)
ReferenceOf(q)   == Either(q.reference, q.risk.entry)
ManualRequired(q, p) == p.manual \/ q.risk.manual

\* build_valid_until.
ValidUntil(q, p) ==
    LET latest == q.timestamp + p.maxValidity
    IN  IF q.validUntil # None /\ q.validUntil < latest THEN q.validUntil ELSE latest

\* _order_type_reason.
TypeReason(q, p) ==
    CASE q.type = "MARKET" /\ ~p.market        -> "MARKET_ORDER_BLOCKED"
      [] q.type = "LIMIT" /\ ~p.limit          -> "UNSUPPORTED_ORDER_TYPE"
      [] q.type = "STOP_LIMIT" /\ ~p.stopLimit -> "UNSUPPORTED_ORDER_TYPE"
      [] OTHER                                 -> None

Check(when, decision, reason) == [when |-> when, decision |-> decision, reason |-> reason]

\* _validate_entry_prices.
EntryChecks(q) ==
    LET stops == q.type = "STOP_LIMIT"
        side  == Side(q.risk.direction)
    IN << Check(q.type # "MARKET" /\ ~Aligned(EntryOf(q)), "REJECTED", "PRICE_NOT_TICK_ALIGNED"),
          Check(stops /\ q.trigger = None, "REJECTED", "INVALID_TRIGGER_PRICE"),
          Check(stops /\ q.trigger # None /\ ~Aligned(q.trigger), "REJECTED", "PRICE_NOT_TICK_ALIGNED"),
          Check(stops /\ q.trigger # None /\ side = "BUY" /\ EntryOf(q) < q.trigger, "REJECTED", "INVALID_LIMIT_PRICE"),
          Check(stops /\ q.trigger # None /\ side = "SELL" /\ EntryOf(q) > q.trigger, "REJECTED", "INVALID_LIMIT_PRICE") >>

\* A faulty form of ProtectiveChecks: the geometry is that of a bullish decision.
ProtectiveChecksOneSided(q) ==
    << Check(q.risk.stop # None /\ q.risk.stop >= EntryOf(q), "REJECTED", "INVALID_STOP_GEOMETRY"),
       Check(q.risk.target # None /\ q.risk.target <= EntryOf(q), "REJECTED", "INVALID_TARGET_GEOMETRY") >>

\* _validate_protective_prices, then _validate_geometry.
ProtectiveChecks(q) ==
    LET Bad(price)   == price # None /\ (price <= 0 \/ ~Aligned(price))
        bull         == q.risk.direction = "BULLISH"
        Below(a, b)  == a < b
        stop         == q.risk.stop
        target       == q.risk.target
    IN << Check(Bad(stop), "REJECTED", "INVALID_STOP_PRICE"),
          Check(Bad(target), "REJECTED", "INVALID_TARGET_PRICE"),
          Check(stop # None /\ ~(IF bull THEN Below(stop, EntryOf(q)) ELSE Below(EntryOf(q), stop)),
                "REJECTED", "INVALID_STOP_GEOMETRY"),
          Check(target # None /\ ~(IF bull THEN Below(EntryOf(q), target) ELSE Below(target, EntryOf(q))),
                "REJECTED", "INVALID_TARGET_GEOMETRY") >>

\* The checks of _evaluate before those of duplicates, in their order.
ContentChecks(q, p) ==
    LET slip == Distance(EntryOf(q), ReferenceOf(q))
    IN << Check(~q.risk.valid, "INVALID", "INVALID_RISK_DECISION"),
          Check(~p.enabled, "REJECTED", "POLICY_DISABLED"),
          Check(q.instrument # Instrument, "REJECTED", "RISK_DECISION_MISMATCH"),
          Check(q.instrument \notin p.instruments, "REJECTED", "UNSUPPORTED_INSTRUMENT"),
          Check(ModeOf(q, p) = "live", "REJECTED", "LIVE_EXECUTION_BLOCKED"),
          Check(ModeOf(q, p) \notin p.modes, "REJECTED", "UNSUPPORTED_EXECUTION_MODE"),
          Check(p.riskApproval /\ ~q.risk.approved, "REJECTED", "RISK_NOT_APPROVED"),
          Check(q.risk.instrument # q.instrument, "REJECTED", "RISK_DECISION_MISMATCH"),
          Check(q.timestamp - q.risk.timestamp > p.maxAge, "EXPIRED", "RISK_DECISION_EXPIRED"),
          Check(QuantityOf(q) <= 0, "REJECTED", "ZERO_QUANTITY"),
          Check(QuantityOf(q) > q.risk.quantity, "REJECTED", "QUANTITY_INCREASE_BLOCKED"),
          Check(QuantityOf(q) < q.risk.quantity /\ ~p.reduction, "REJECTED", "QUANTITY_MISMATCH"),
          Check(p.mustMatch /\ QuantityOf(q) # q.risk.quantity, "REJECTED", "QUANTITY_MISMATCH"),
          Check(q.type \notin p.types, "REJECTED", "UNSUPPORTED_ORDER_TYPE"),
          Check(TypeReason(q, p) # None, "REJECTED", TypeReason(q, p)),
          Check(EntryOf(q) <= 0 \/ ReferenceOf(q) <= 0, "REJECTED", "INVALID_ENTRY_PRICE"),
          Check(q.instrument \notin p.ticks, "REJECTED", "UNSUPPORTED_INSTRUMENT") >>
       \o EntryChecks(q) \o
       << Check(p.points # None /\ slip > p.points, "REJECTED", "SLIPPAGE_LIMIT_EXCEEDED"),
          Check(p.permille # None /\ slip * 1000 > p.permille * ReferenceOf(q), "REJECTED", "SLIPPAGE_LIMIT_EXCEEDED"),
          Check(p.stop /\ q.risk.stop = None, "REJECTED", "MISSING_STOP_PLAN"),
          Check(p.target /\ q.risk.target = None, "REJECTED", "MISSING_TARGET_PLAN") >>
       \o ProtectiveChecks(q)
-----------------------------------------------------------------------------
(* What the plans of before decide *)

IsActive(id) == plans[id] # None /\ plans[id].status \in ActiveStatuses

\* A faulty form of DuplicateChecks: it asks for the client's request only.
ClientChecksOnly(q, p) ==
    << Check(~p.duplicates /\ q.client # None /\ byClient[q.client] # None, "REJECTED", "DUPLICATE_EXECUTION_PLAN") >>

\* _duplicate_failure.
DuplicateChecks(q, p) ==
    LET strict == ~p.duplicates
    IN << Check(strict /\ q.client # None /\ byClient[q.client] # None, "REJECTED", "DUPLICATE_EXECUTION_PLAN"),
          Check(strict /\ p.perRisk /\ byRisk[q.risk.id] # None, "REJECTED", "RISK_DECISION_ALREADY_HAS_PLAN"),
          Check(strict /\ p.perSignal /\ SignalOf(q) # None /\ bySignal[SignalOf(q)] # None,
                "REJECTED", "SIGNAL_ALREADY_HAS_PLAN"),
          Check(strict /\ \E id \in q.existing \cap PlanIds : IsActive(id), "REJECTED", "DUPLICATE_EXECUTION_PLAN") >>

\* _blocked_plan: the record of a request that gets no plan.
BlockedPlan(q, decision, reason) ==
    [status |-> IF decision = "LOCKED" THEN "LOCKED" ELSE "REJECTED", decision |-> decision,
     reason |-> reason, manualRequired |-> FALSE, manualPresent |-> q.manual]

\* The plan _evaluate prepares when no check failed.
PreparedPlan(q, p) ==
    LET needed == ManualRequired(q, p)
        plan   == [status |-> IF ModeOf(q, p) = "PAPER" THEN "READY_FOR_PAPER" ELSE "PREPARED",
                   decision |-> "APPROVED", reason |-> "APPROVED",
                   manualRequired |-> needed, manualPresent |-> q.manual]
    IN  IF needed /\ ~q.manual
        THEN [plan EXCEPT !.status = "AWAITING_MANUAL_APPROVAL", !.decision = "LOCKED",
                          !.reason = "MISSING_MANUAL_APPROVAL"]
        ELSE plan

NoneFails(checks)    == \A n \in DOMAIN checks : ~checks[n].when
FirstFailure(checks) == checks[CHOOSE n \in DOMAIN checks : checks[n].when /\ \A m \in 1 .. n - 1 : ~checks[m].when]

\* _evaluate: the first check that fails blocks the plan.
Evaluated(q, p) ==
    LET checks  == ContentChecks(q, p) \o DuplicateChecks(q, p)
        failure == FirstFailure(checks)
    IN  IF NoneFails(checks) THEN PreparedPlan(q, p) ELSE BlockedPlan(q, failure.decision, failure.reason)

\* _idempotent_duplicate: active plans of the same request, whatever the policy.
SameRequest(q) == {id \in {PlanId(q, p) : p \in Policies} : IsActive(id)}

With(f, key, id)  == IF key = None THEN f ELSE [f EXCEPT ![key] = id]
Without(f, id)    == [key \in DOMAIN f |-> IF f[key] = id THEN None ELSE f[key]]

\* _store_active.
StoreActive(id, plan) ==
    LET q == RequestOf(id)
    IN  /\ plans' = [plans EXCEPT ![id] = plan]
        /\ byClient' = With(byClient, q.client, id)
        /\ byRisk' = With(byRisk, q.risk.id, id)
        /\ bySignal' = With(bySignal, SignalOf(q), id)

\* A faulty form of StoreTerminal: the table of risk decisions keeps the ended plan only.
StoreTerminalForgets(id, plan) ==
    /\ plans' = [plans EXCEPT ![id] = plan]
    /\ byClient' = Without(byClient, id)
    /\ byRisk' = [key \in DOMAIN byRisk |-> None]
    /\ bySignal' = Without(bySignal, id)

\* _store_terminal: the tables forget a plan that was active and no longer is.
StoreTerminal(id, plan) ==
    /\ plans' = [plans EXCEPT ![id] = plan]
    /\ IF IsActive(id) /\ plan.status \notin ActiveStatuses
       THEN /\ byClient' = Without(byClient, id)
            /\ byRisk' = Without(byRisk, id)
            /\ bySignal' = Without(bySignal, id)
       ELSE UNCHANGED <<byClient, byRisk, bySignal>>
-----------------------------------------------------------------------------
(* Operations *)

PolicyInit ==
    /\ engine = "CREATED"
    /\ plans = [id \in PlanIds |-> None]
    /\ byClient = [c \in {q.client : q \in Requests} |-> None]
    /\ byRisk = [r \in {q.risk.id : q \in Requests} |-> None]
    /\ bySignal = [s \in {q.signal : q \in Requests} \cup {q.risk.signal : q \in Requests} |-> None]

\* start: a stopped engine stays stopped.
StartPolicy ==
    /\ engine # "STOPPED"
    /\ engine' = "READY"
    /\ UNCHANGED <<plans, byClient, byRisk, bySignal>>

\* stop.
StopPolicy ==
    /\ engine' = "STOPPED"
    /\ UNCHANGED <<plans, byClient, byRisk, bySignal>>

\* evaluate while stopped: the record of the refusal takes the place of the request's plan.
EvaluateStopped(q, p) ==
    /\ engine = "STOPPED"
    /\ StoreTerminal(PlanId(q, p), BlockedPlan(q, "LOCKED", "ENGINE_STOPPED"))
    /\ UNCHANGED engine

\* evaluate of a request that has no active plan.
Evaluate(q, p) ==
    /\ engine # "STOPPED"
    /\ SameRequest(q) = {}
    /\ LET id   == PlanId(q, p)
           plan == Evaluated(q, p)
       IN  /\ IF plan.status \in ActiveStatuses THEN StoreActive(id, plan) ELSE StoreTerminal(id, plan)
           /\ engine' = IF plan.decision = "APPROVED" THEN "ACTIVE"
                        ELSE IF engine = "CREATED" THEN "READY" ELSE engine

\* approve_manual, with _manual_approval_eligible.  The state of the engine is not asked.
ApproveManual(id, t) ==
    /\ plans[id] # None
    /\ plans[id].status = "AWAITING_MANUAL_APPROVAL"
    /\ plans[id].decision = "LOCKED" /\ plans[id].reason = "MISSING_MANUAL_APPROVAL"
    /\ plans[id].manualRequired /\ ~plans[id].manualPresent
    /\ t < ValidUntil(RequestOf(id), PolicyOf(id))
    /\ StoreActive(id, [status |-> IF ModeOf(RequestOf(id), PolicyOf(id)) = "PAPER" THEN "READY_FOR_PAPER" ELSE "PREPARED",
                        decision |-> "APPROVED", reason |-> "APPROVED",
                        manualRequired |-> TRUE, manualPresent |-> TRUE])
    /\ UNCHANGED engine

\* cancel_plan, of a plan with any status.
CancelPlan(id) ==
    /\ plans[id] # None
    /\ StoreTerminal(id, [plans[id] EXCEPT !.status = "CANCELLED", !.decision = "REJECTED", !.reason = "INVALID_REQUEST"])
    /\ UNCHANGED engine

\* expire_plan, likewise; the time is not compared with valid_until.
ExpirePlan(id) ==
    /\ plans[id] # None
    /\ StoreTerminal(id, [plans[id] EXCEPT !.status = "EXPIRED", !.decision = "EXPIRED", !.reason = "REQUEST_EXPIRED"])
    /\ UNCHANGED engine

\* reset_session.
ResetSession ==
    /\ engine' = "READY"
    /\ plans' = [id \in PlanIds |-> None]
    /\ byClient' = [c \in DOMAIN byClient |-> None]
    /\ byRisk' = [r \in DOMAIN byRisk |-> None]
    /\ bySignal' = [s \in DOMAIN bySignal |-> None]

PolicyNext ==
    \/ StartPolicy \/ StopPolicy \/ ResetSession
    \/ \E q \in Requests, p \in Policies : EvaluateStopped(q, p) \/ Evaluate(q, p)
    \/ \E id \in PlanIds : CancelPlan(id) \/ ExpirePlan(id) \/ \E t \in Times : ApproveManual(id, t)

PolicySpec == PolicyInit /\ [][PolicyNext]_policyVars
-----------------------------------------------------------------------------
(* Properties *)

\* Of the plans that are active under policies that refuse duplicates, no two are for the same risk
\* decision, the same signal or the same request of a client, and the tables that refuse the
\* next one know each of them: no order of evaluations, cancellations, expiries, approvals
\* and stops may lose an active plan from a table, or keep an ended one in it.
OnePlanForEach ==
    (\A p \in Policies : ~p.duplicates /\ p.perRisk /\ p.perSignal) =>
        /\ \A id \in PlanIds : IsActive(id) =>
              LET q == RequestOf(id) IN
              /\ byRisk[q.risk.id] = id
              /\ q.client # None => byClient[q.client] = id
              /\ SignalOf(q) # None => bySignal[SignalOf(q)] = id
        /\ \A f \in {byClient, byRisk, bySignal} : \A key \in DOMAIN f : f[key] # None => IsActive(f[key])

\* What an active plan would have somebody buy or sell is what the risk decision approved: no more
\* units than it approved, on the instrument of the engine, entered near the reference price, with
\* a stop on the losing side and a target on the winning side of the entry, and while the decision
\* was young.  The checks of _evaluate return early, one by one, and none is repeated later.
ActivePlansAreSound ==
    \A id \in PlanIds : IsActive(id) =>
        LET q == RequestOf(id)
            p == PolicyOf(id)
            sign == IF q.risk.direction = "BULLISH" THEN 1 ELSE -1
        IN  /\ p.riskApproval => q.risk.approved
            /\ QuantityOf(q) \in 1 .. q.risk.quantity
            /\ q.instrument = Instrument /\ q.risk.instrument = Instrument
            /\ q.timestamp - q.risk.timestamp <= p.maxAge
            /\ ValidUntil(q, p) > q.timestamp
            /\ p.stop => q.risk.stop # None
            /\ q.risk.stop # None => sign * (EntryOf(q) - q.risk.stop) > 0
            /\ q.risk.target # None => sign * (q.risk.target - EntryOf(q)) > 0
            /\ plans[id].status = "READY_FOR_PAPER" =>
                  ModeOf(q, p) = "PAPER" /\ (ManualRequired(q, p) => plans[id].manualPresent)

\* The policy engine's promise to those it hands its plans to: each is sound, and the only one of its kind.
ActivePlansHold == OnePlanForEach /\ ActivePlansAreSound
=============================================================================
