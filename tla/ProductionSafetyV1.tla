-------------------------- MODULE ProductionSafetyV1 --------------------------
(***************************************************************************)
(* The production safety and recovery engine                               *)
(* (engines/production_safety_v1): safety rules evaluated over an input,   *)
(* manual kill switches, incidents that are opened and resolved, and the   *)
(* recovery decision.  Every public method holds the engine's lock and is  *)
(* one step, except request_recovery, which takes it twice and evaluates   *)
(* in between.                                                             *)
(*                                                                         *)
(* A safety target is GLOBAL or an instrument; a rule of the engine is a   *)
(* pair <<rule, target>>.  An evaluation is abstracted to its severity,    *)
(* which determines its result: INFO passes, MODERATE warns, HIGH and      *)
(* CRITICAL fail and block the target.  Counters, messages and the         *)
(* snapshot history are left out.                                          *)
(***************************************************************************)
EXTENDS Integers, Sequences, FiniteSets

CONSTANTS
  InstrumentOrder,        \* configuration.enabled_instruments
  SafetyInputs,           \* the inputs that may be evaluated
  NoInput,                \* _last_input before the first evaluation
  Missing,                \* no market data timestamp
  LossPercent, DrawdownPercent, MaxTrades, MaxLosses,
  WarningAfter, StaleAfter,
  ManualRelease,          \* rules whose incidents require a manual release
  IncidentLimit,          \* configuration.incident_history_limit
  Disciplines,            \* see ordered
  MaxTimestamp            \* bound on the timestamps of commands

SafetyInstruments == {InstrumentOrder[n] : n \in DOMAIN InstrumentOrder}

ASSUME SafetyAssumption ==
  /\ InstrumentOrder \in Seq(SafetyInstruments) /\ "GLOBAL" \notin SafetyInstruments
  /\ \A m, n \in DOMAIN InstrumentOrder : InstrumentOrder[m] = InstrumentOrder[n] => m = n
  /\ NoInput \notin SafetyInputs
  /\ \A inp \in SafetyInputs : inp.timestamp \in Nat
  /\ ManualRelease \subseteq
       {"MANUAL_KILL_SWITCH", "DAILY_LOSS_LIMIT", "ACCOUNT_DRAWDOWN_LIMIT"}
  /\ IncidentLimit \in Nat \ {0} /\ MaxTimestamp \in Nat
  /\ Disciplines \subseteq BOOLEAN

\* What the constructors of a configuration and of an input accept: a reading
\* of the market is never later than the input it belongs to.
ValidSafetyConfiguration ==
  /\ InstrumentOrder # <<>>
  /\ {LossPercent, DrawdownPercent} \subseteq 1 .. 100 /\ LossPercent <= DrawdownPercent
  /\ {MaxTrades, MaxLosses, WarningAfter, StaleAfter} \subseteq Nat \ {0}
  /\ WarningAfter < StaleAfter

ValidSafetyInput(inp) ==
  \A i \in SafetyInstruments : inp.dataAt[i] = Missing \/ inp.dataAt[i] \in 0 .. inp.timestamp

ASSUME SafetyInputsAreValid ==
  ValidSafetyConfiguration /\ \A inp \in SafetyInputs : ValidSafetyInput(inp)

VARIABLES
  safetyStatus,   \* _status
  kills,          \* the targets whose manual kill switch is on
  evaluations,    \* _evaluations: a severity for every rule evaluated
  incidents,      \* _incidents
  recovery,       \* _recovery.decision
  lastInput,      \* _last_input
  answered,       \* _last_snapshot_for_input is not None
  recoveryCall,   \* where a thread inside request_recovery stands
  ordered,        \* commands and inputs carry timestamps in calling order
  latest          \* the latest timestamp of the callers that keep order

safetyVars == <<safetyStatus, kills, evaluations, incidents, recovery, lastInput,
                answered, recoveryCall, ordered, latest>>

Targets == {"GLOBAL"} \cup SafetyInstruments

SafetyStatuses == {"CREATED", "MONITORING", "DEGRADED", "LOCKED",
                   "RECOVERY_PENDING", "STOPPED", "ERROR", "CLEARED"}

Severities == {"INFO", "MODERATE", "HIGH", "CRITICAL"}

RecoveryDecisions == {"READY", "NOT_READY", "MANUAL_RELEASE_REQUIRED",
                      "BLOCKED_BY_ACTIVE_STATE", "BLOCKED_BY_UNHEALTHY_DEPENDENCY"}

DependencyRules == {"APPLICATION_RUNTIME_HEALTH", "TRADE_LIFECYCLE_HEALTH",
                    "JOURNAL_RUNTIME_HEALTH"}

(***************************************************************************)
(* ProductionSafetyEvaluator, with the default block_on_... flags          *)
(***************************************************************************)
PerInstrument(rule) == [n \in DOMAIN InstrumentOrder |-> <<rule, InstrumentOrder[n]>>]

Globally(rule) == <<rule, "GLOBAL">>

\* The rules in the order in which the evaluator lists them.
RuleOrder ==
  <<Globally("MANUAL_KILL_SWITCH")>>
    \o PerInstrument("MANUAL_KILL_SWITCH")
    \o << Globally("APPLICATION_RUNTIME_HEALTH"), Globally("TRADE_LIFECYCLE_HEALTH"),
          Globally("JOURNAL_RUNTIME_HEALTH"), Globally("DAILY_LOSS_LIMIT"),
          Globally("ACCOUNT_DRAWDOWN_LIMIT"), Globally("MAXIMUM_TRADES_LIMIT"),
          Globally("CONSECUTIVE_LOSS_LIMIT") >>
    \o PerInstrument("ACTIVE_EXECUTION_PRESENT")
    \o PerInstrument("ACTIVE_POSITION_PRESENT")
    \o PerInstrument("MARKET_DATA_STALENESS")

SafetyRules == {RuleOrder[n] : n \in DOMAIN RuleOrder}

ManualRules == {r \in SafetyRules : r[1] = "MANUAL_KILL_SWITCH"}

AtLeastZero(n) == IF n > 0 THEN n ELSE 0

\* _daily_loss and _drawdown: a limit reached counts as breached.
DailyLossBreached(inp) ==
  100 * AtLeastZero(-(inp.realized + inp.unrealized)) >= LossPercent * inp.dayStart

DrawdownBreached(inp) ==
  100 * AtLeastZero(inp.peak - (inp.equity + inp.unrealized)) >= DrawdownPercent * inp.peak

\* _market_data
DataSeverity(inp, i) ==
  LET age == inp.timestamp - inp.dataAt[i]
  IN  CASE inp.dataAt[i] = Missing -> "CRITICAL"
        [] inp.dataAt[i] # Missing /\ age >= StaleAfter -> "HIGH"
        [] inp.dataAt[i] # Missing /\ age < StaleAfter /\ age >= WarningAfter -> "MODERATE"
        [] OTHER -> "INFO"

FailsWith(breached, severity) == IF breached THEN severity ELSE "INFO"

RuleSeverity(r, inp, switches) ==
  CASE r[1] = "MANUAL_KILL_SWITCH" -> FailsWith(r[2] \in switches, "CRITICAL")
    [] r[1] = "APPLICATION_RUNTIME_HEALTH" -> FailsWith("APPLICATION" \in inp.unhealthy, "CRITICAL")
    [] r[1] = "TRADE_LIFECYCLE_HEALTH" -> FailsWith("LIFECYCLE" \in inp.unhealthy, "CRITICAL")
    [] r[1] = "JOURNAL_RUNTIME_HEALTH" -> FailsWith("JOURNAL" \in inp.unhealthy, "HIGH")
    [] r[1] = "DAILY_LOSS_LIMIT" -> FailsWith(DailyLossBreached(inp), "CRITICAL")
    [] r[1] = "ACCOUNT_DRAWDOWN_LIMIT" -> FailsWith(DrawdownBreached(inp), "CRITICAL")
    [] r[1] = "MAXIMUM_TRADES_LIMIT" -> FailsWith(inp.trades >= MaxTrades, "HIGH")
    [] r[1] = "CONSECUTIVE_LOSS_LIMIT" -> FailsWith(inp.losses >= MaxLosses, "HIGH")
    [] r[1] = "ACTIVE_EXECUTION_PRESENT" -> FailsWith(r[2] \in inp.executing, "HIGH")
    [] r[1] = "ACTIVE_POSITION_PRESENT" -> FailsWith(r[2] \in inp.holding, "HIGH")
    [] OTHER -> DataSeverity(inp, r[2])

EvaluateRules(inp, switches) == [r \in SafetyRules |-> RuleSeverity(r, inp, switches)]

\* _manual_only_evaluations, before any input was evaluated.
ManualOnly(switches) ==
  [r \in ManualRules |-> FailsWith(r[2] \in switches, "CRITICAL")]

NoEvaluations == [r \in {} |-> "INFO"]

Fails(evs, r)  == r \in DOMAIN evs /\ evs[r] \in {"HIGH", "CRITICAL"}
Passes(evs, r) == r \in DOMAIN evs /\ evs[r] \in {"INFO", "MODERATE"}
Failed(evs)    == {r \in DOMAIN evs : Fails(evs, r)}

\* _overall_decision
OverallDecision(evs) ==
  CASE \E r \in Failed(evs) : r[2] = "GLOBAL" -> "BLOCK_GLOBAL"
    [] Failed(evs) # {} /\ \A r \in Failed(evs) : r[2] # "GLOBAL" -> "BLOCK_INSTRUMENT"
    [] Failed(evs) = {} /\ \E r \in DOMAIN evs : evs[r] = "MODERATE" -> "ALLOW_WITH_WARNING"
    [] OTHER -> "ALLOW"

(***************************************************************************)
(* Incidents                                                               *)
(***************************************************************************)
Incident(r, critical, ts) ==
  [rule |-> r, critical |-> critical, openedAt |-> ts, open |-> TRUE]

\* What is left of a resolved incident: its place in the bounded history.
ResolvedIncident ==
  [rule |-> <<"NONE", "GLOBAL">>, critical |-> FALSE, openedAt |-> 0, open |-> FALSE]

ManualRequired(r) == r[1] \in ManualRelease

OpenRules(incs) == {incs[n].rule : n \in {m \in DOMAIN incs : incs[m].open}}

\* A set of rules, in the order in which the evaluator lists them.
InRuleOrder(rules) ==
  LET places == {n \in DOMAIN RuleOrder : RuleOrder[n] \in rules}
  IN  [k \in 1..Cardinality(places) |->
         RuleOrder[CHOOSE n \in places : Cardinality({m \in places : m <= n}) = k]]

\* The incidents an evaluation opens, in the order of the rules.
NewIncidents(incs, evs, ts) ==
  LET rules == InRuleOrder(Failed(evs) \ OpenRules(incs))
  IN  [n \in DOMAIN rules |-> Incident(rules[n], evs[rules[n]] = "CRITICAL", ts)]

\* A faulty form: an incident resolves as soon as its rule passes.
ResolvesWhenPassing(inc, evs) ==
  inc.open /\ Passes(evs, inc.rule)

Resolves(inc, evs) ==
  /\ inc.open /\ Passes(evs, inc.rule)
  /\ ~ManualRequired(inc.rule)

\* Incidents the update rewrites; SafetyIncident refuses an update stamped
\* before the incident was opened, and the exception abandons the update.
UpdateRefused(incs, evs, ts) ==
  \E n \in DOMAIN incs :
    /\ incs[n].open /\ ts < incs[n].openedAt
    /\ Fails(evs, incs[n].rule) \/ Resolves(incs[n], evs)

\* A faulty form: the bound is not applied.
TrimNothing(incs) == incs

TrimIncidents(incs) ==
  IF Len(incs) > IncidentLimit
  THEN SubSeq(incs, Len(incs) - IncidentLimit + 1, Len(incs)) ELSE incs

\* _update_incidents
UpdateIncidents(incs, evs, ts) ==
  TrimIncidents(
    [n \in DOMAIN incs |-> IF Resolves(incs[n], evs) THEN ResolvedIncident ELSE incs[n]]
      \o NewIncidents(incs, evs, ts))

\* _resolve_manual
\* A faulty form: the incident of any kill switch will do.
IsAnySwitchIncident(inc, target) == inc.open /\ inc.rule[1] = "MANUAL_KILL_SWITCH"

IsSwitchIncident(inc, target) == inc.open /\ inc.rule = <<"MANUAL_KILL_SWITCH", target>>

ResolveManual(incs, target) ==
  [n \in DOMAIN incs |->
     IF IsSwitchIncident(incs[n], target) THEN ResolvedIncident ELSE incs[n]]

ResolveRefused(incs, target, ts) ==
  \E n \in DOMAIN incs : IsSwitchIncident(incs[n], target) /\ ts < incs[n].openedAt

(***************************************************************************)
(* ProductionRecoveryEvaluator                                             *)
(***************************************************************************)
ActiveState(inp) == inp # NoInput /\ (inp.executing # {} \/ inp.holding # {})

\* A faulty form: open incidents are not asked for.
RecoveryIgnoringIncidents(evs, incs, inp) ==
  CASE ActiveState(inp) -> "BLOCKED_BY_ACTIVE_STATE"
    [] ~ActiveState(inp) /\ Failed(evs) # {} -> "NOT_READY"
    [] OTHER -> "READY"

RecoveryDecision(evs, incs, inp) ==
  LET manual    == \E r \in OpenRules(incs) : ManualRequired(r)
      unhealthy == \E r \in Failed(evs) : r[1] \in DependencyRules
  IN  CASE manual -> "MANUAL_RELEASE_REQUIRED"
        [] ~manual /\ ActiveState(inp) -> "BLOCKED_BY_ACTIVE_STATE"
        [] ~manual /\ ~ActiveState(inp) /\ unhealthy -> "BLOCKED_BY_UNHEALTHY_DEPENDENCY"
        [] ~manual /\ ~ActiveState(inp) /\ ~unhealthy /\ Failed(evs) # {} -> "NOT_READY"
        [] OTHER -> "READY"

(***************************************************************************)
(* The engine                                                              *)
(***************************************************************************)
SafetyInit ==
  /\ safetyStatus = "CREATED" /\ kills = {} /\ evaluations = NoEvaluations
  /\ incidents = <<>> /\ recovery = "READY" /\ lastInput = NoInput
  /\ answered = FALSE /\ recoveryCall = "IDLE"
  /\ ordered \in Disciplines /\ latest = 0

\* A call stamped ts; callers that keep order never go back in time.
Stamped(ts) ==
  /\ ordered => ts >= latest
  /\ latest' = IF ordered THEN ts ELSE latest
  /\ UNCHANGED ordered

Running(status) == status \in {"MONITORING", "DEGRADED", "LOCKED", "RECOVERY_PENDING"}

\* A faulty form: any blocked instrument locks the engine.
LockedByAnyBlock(decision) ==
  CASE decision \in {"BLOCK_GLOBAL", "BLOCK_INSTRUMENT"} -> "LOCKED"
    [] decision = "ALLOW_WITH_WARNING" -> "DEGRADED"
    [] decision = "ALLOW" -> "MONITORING"

StatusFor(decision) ==
  CASE decision = "BLOCK_GLOBAL" -> "LOCKED"
    [] decision \in {"BLOCK_INSTRUMENT", "ALLOW_WITH_WARNING"} -> "DEGRADED"
    [] decision = "ALLOW" -> "MONITORING"

SafetyStart ==
  /\ safetyStatus \notin {"MONITORING", "DEGRADED", "LOCKED"}
  /\ safetyStatus' = "MONITORING"
  /\ UNCHANGED <<kills, evaluations, incidents, recovery, lastInput, answered,
                 recoveryCall, ordered, latest>>

SafetyStop ==
  /\ safetyStatus # "STOPPED"
  /\ safetyStatus' = "STOPPED"
  /\ UNCHANGED <<kills, evaluations, incidents, recovery, lastInput, answered,
                 recoveryCall, ordered, latest>>

\* evaluate raises before it changes anything.
EvaluateRaises(inp) ==
  \/ ~Running(safetyStatus)
  \/ /\ lastInput # NoInput /\ ~(lastInput = inp /\ answered)
     /\ inp.timestamp < lastInput.timestamp

\* The input just evaluated is answered from the last snapshot.
EvaluateCached(inp) ==
  /\ Running(safetyStatus) /\ lastInput = inp /\ answered
  /\ UNCHANGED <<safetyStatus, evaluations, incidents, recovery, lastInput, answered>>

\* A faulty form: the evaluation is made without the manual kill switches.
AccountForgettingKills(inp) ==
  LET evs  == EvaluateRules(inp, {})
      incs == UpdateIncidents(incidents, evs, inp.timestamp)
  IN  /\ ~UpdateRefused(incidents, evs, inp.timestamp)
      /\ incidents' = incs /\ evaluations' = evs
      /\ recovery' = RecoveryDecision(evs, incs, inp)
      /\ safetyStatus' = StatusFor(OverallDecision(evs))
      /\ lastInput' = inp /\ answered' = TRUE

EvaluateAccounted(inp) ==
  LET evs  == EvaluateRules(inp, kills)
      incs == UpdateIncidents(incidents, evs, inp.timestamp)
  IN  /\ ~UpdateRefused(incidents, evs, inp.timestamp)
      /\ incidents' = incs /\ evaluations' = evs
      /\ recovery' = RecoveryDecision(evs, incs, inp)
      /\ safetyStatus' = StatusFor(OverallDecision(evs))
      /\ lastInput' = inp /\ answered' = TRUE

\* The incident update raised: the engine is in ERROR, all else as before.
EvaluateFailed(inp) ==
  /\ UpdateRefused(incidents, EvaluateRules(inp, kills), inp.timestamp)
  /\ safetyStatus' = "ERROR"
  /\ UNCHANGED <<evaluations, incidents, recovery, lastInput, answered>>

EvaluateFresh(inp) == ~EvaluateRaises(inp) /\ ~(lastInput = inp /\ answered)

Evaluate(inp) ==
  /\ Stamped(inp.timestamp) /\ EvaluateFresh(inp)
  /\ EvaluateAccounted(inp) \/ EvaluateFailed(inp)
  /\ UNCHANGED <<kills, recoveryCall>>

\* request_recovery: the request, the evaluation and the verdict are three
\* critical sections; other threads may act between them.
RequestRecovery ==
  /\ recoveryCall = "IDLE"
  /\ safetyStatus \in {"LOCKED", "DEGRADED", "ERROR", "RECOVERY_PENDING"}
  /\ recoveryCall' = "REQUESTED"
  /\ UNCHANGED <<safetyStatus, kills, evaluations, incidents, recovery, lastInput,
                 answered, ordered, latest>>

EvaluateForRecovery(inp) ==
  /\ recoveryCall = "REQUESTED" /\ Stamped(inp.timestamp)
  /\ \/ /\ EvaluateRaises(inp)
        /\ recoveryCall' = "IDLE"
        /\ UNCHANGED <<safetyStatus, evaluations, incidents, recovery, lastInput, answered>>
     \/ EvaluateCached(inp) /\ recoveryCall' = "EVALUATED"
     \/ EvaluateFresh(inp) /\ EvaluateAccounted(inp) /\ recoveryCall' = "EVALUATED"
     \/ EvaluateFresh(inp) /\ EvaluateFailed(inp) /\ recoveryCall' = "IDLE"
  /\ UNCHANGED kills

FinishRecoveryRequest ==
  /\ recoveryCall = "EVALUATED"
  /\ recoveryCall' = "IDLE" /\ safetyStatus' = "RECOVERY_PENDING"
  /\ UNCHANGED <<kills, evaluations, incidents, recovery, lastInput, answered,
                 ordered, latest>>

\* _refresh_evaluations_for_manual_command, with the switches as they now are.
RefreshedEvaluations(switches) ==
  IF lastInput = NoInput THEN ManualOnly(switches) ELSE EvaluateRules(lastInput, switches)

RefreshRefused(ts, switches) == UpdateRefused(incidents, RefreshedEvaluations(switches), ts)

Activate(target, ts) ==
  LET switches == kills \cup {target}
      evs      == RefreshedEvaluations(switches)
      incs     == UpdateIncidents(incidents, evs, ts)
  IN  /\ ~RefreshRefused(ts, switches)
      /\ incidents' = incs /\ evaluations' = evs
      /\ recovery' = RecoveryDecision(evs, incs, lastInput)
      /\ safetyStatus' = IF target = "GLOBAL" \/ OverallDecision(evs) = "BLOCK_GLOBAL"
                         THEN "LOCKED" ELSE "DEGRADED"
      /\ answered' = FALSE

\* The switch is on, but the exception left the rest as it was.
ActivateInterrupted(target, ts) ==
  /\ RefreshRefused(ts, kills \cup {target})
  /\ UNCHANGED <<safetyStatus, evaluations, incidents, recovery, answered>>

ActivateKillSwitch(target, ts) ==
  /\ Stamped(ts)
  /\ target = "GLOBAL" => "GLOBAL" \notin kills
  /\ kills' = kills \cup {target}
  /\ Activate(target, ts) \/ ActivateInterrupted(target, ts)
  /\ UNCHANGED <<lastInput, recoveryCall>>

MayReleaseGlobal ==
  "GLOBAL" \in kills /\ recovery \in {"READY", "MANUAL_RELEASE_REQUIRED"}

ReleaseGlobalKillSwitch(ts) ==
  LET switches == kills \ {"GLOBAL"}
      evs      == RefreshedEvaluations(switches)
      updated  == UpdateIncidents(incidents, evs, ts)
      incs     == ResolveManual(updated, "GLOBAL")
  IN  /\ Stamped(ts) /\ MayReleaseGlobal
      /\ kills' = switches
      /\ \/ /\ RefreshRefused(ts, switches)
            /\ UNCHANGED <<safetyStatus, evaluations, incidents, recovery, answered>>
         \/ /\ ~RefreshRefused(ts, switches) /\ ResolveRefused(updated, "GLOBAL", ts)
            /\ incidents' = updated /\ evaluations' = evs
            /\ recovery' = RecoveryDecision(evs, updated, lastInput)
            /\ answered' = FALSE /\ UNCHANGED safetyStatus
         \/ /\ ~RefreshRefused(ts, switches) /\ ~ResolveRefused(updated, "GLOBAL", ts)
            /\ incidents' = incs /\ evaluations' = evs
            /\ recovery' = RecoveryDecision(evs, incs, lastInput)
            /\ safetyStatus' = StatusFor(OverallDecision(evs)) /\ answered' = FALSE
      /\ UNCHANGED <<lastInput, recoveryCall>>

\* release_instrument_kill_switch: the evaluations are not refreshed, and the
\* status is taken from the remaining switches alone.
ReleaseInstrumentKillSwitch(i, ts) ==
  /\ Stamped(ts)
  /\ kills' = kills \ {i}
  /\ \/ /\ ResolveRefused(incidents, i, ts)
        /\ UNCHANGED <<safetyStatus, incidents>>
     \/ /\ ~ResolveRefused(incidents, i, ts)
        /\ incidents' = ResolveManual(incidents, i)
        /\ safetyStatus' = IF kills' = {} THEN "MONITORING" ELSE "DEGRADED"
  /\ UNCHANGED <<evaluations, recovery, lastInput, answered, recoveryCall>>

\* clear: the last input and the recovery decision survive it.
SafetyClear ==
  /\ safetyStatus = "STOPPED" /\ kills = {}
  /\ ~\E n \in DOMAIN incidents : incidents[n].open /\ incidents[n].critical
  /\ safetyStatus' = "CLEARED" /\ evaluations' = NoEvaluations /\ incidents' = <<>>
  /\ UNCHANGED <<kills, recovery, lastInput, answered, recoveryCall, ordered, latest>>

SafetyNext ==
  \/ SafetyStart \/ SafetyStop \/ SafetyClear
  \/ \E inp \in SafetyInputs : Evaluate(inp) \/ EvaluateForRecovery(inp)
  \/ RequestRecovery \/ FinishRecoveryRequest
  \/ \E ts \in 0..MaxTimestamp :
       \/ \E target \in Targets : ActivateKillSwitch(target, ts)
       \/ ReleaseGlobalKillSwitch(ts)
       \/ \E i \in SafetyInstruments : ReleaseInstrumentKillSwitch(i, ts)

SafetySpec == SafetyInit /\ [][SafetyNext]_safetyVars

-----------------------------------------------------------------------------
OpenManualRules == {r \in OpenRules(incidents) : ManualRequired(r)}

\* The engine's state has the shape its methods keep; the incident history is
\* bounded (engine.py: _update_incidents).
SafetyTypeOK ==
  /\ safetyStatus \in SafetyStatuses /\ kills \subseteq Targets
  /\ DOMAIN evaluations \in {{}, ManualRules, SafetyRules}
  /\ \A r \in DOMAIN evaluations : evaluations[r] \in Severities
  /\ Len(incidents) <= IncidentLimit
  /\ \A n \in DOMAIN incidents : incidents[n].open => incidents[n].rule \in SafetyRules
  /\ recovery \in RecoveryDecisions
  /\ lastInput \in SafetyInputs \cup {NoInput} /\ answered \in BOOLEAN
  /\ recoveryCall \in {"IDLE", "REQUESTED", "EVALUATED"}
  /\ ordered \in BOOLEAN /\ latest \in Nat

\* Every kill switch that is on fails its rule in the evaluations the engine
\* publishes, whatever is evaluated, released, stopped or cleared in between.
\* The test test_repeated_global_kill_activation_is_idempotent expects it.
KillSwitchTakesEffect ==
  \A target \in kills : <<"MANUAL_KILL_SWITCH", target>> \in Failed(evaluations)

\* The same for callers that stamp their calls in calling order.
KillSwitchesBind == ordered => KillSwitchTakesEffect

\* A status of LOCKED is never a leftover: something blocks every instrument;
\* and a DEGRADED engine has something to warn of (engine.py: every method
\* that sets _status).
StatusTellsDecision ==
  ordered =>
    /\ safetyStatus = "LOCKED" => OverallDecision(evaluations) = "BLOCK_GLOBAL"
    /\ safetyStatus = "DEGRADED" => OverallDecision(evaluations) # "ALLOW"

\* A rule that keeps failing has one incident, however often it is evaluated
\* (engine.py: existing_index in _update_incidents).
OneOpenIncidentPerRule ==
  \A m, n \in DOMAIN incidents :
    m # n /\ incidents[m].open /\ incidents[n].open => incidents[m].rule # incidents[n].rule

\* While the history has room, what blocks trading is on record as an open
\* incident; a released instrument switch is resolved at once, although its
\* evaluation stays (engine.py: release_instrument_kill_switch).
BlockingRulesHaveIncidents ==
  Len(incidents) < IncidentLimit =>
    \A r \in Failed(evaluations) :
      r[1] # "MANUAL_KILL_SWITCH" \/ (ordered /\ r[2] \in kills) => r \in OpenRules(incidents)

\* The open incidents are the record of the rules that block.
IncidentsMatchRules == OneOpenIncidentPerRule /\ BlockingRulesHaveIncidents

\* Recovery is declared READY only when no rule blocks, no incident waits for
\* a manual release and nothing is in the market (recovery.py).
RecoveryReadyIsSafe ==
  recovery = "READY" => Failed(evaluations) = {} /\ OpenManualRules = {}

\* An incident that requires a manual release is closed by the release of its
\* kill switch and by nothing else, unless the bounded history drops it.  In
\* particular no operation ever closes a daily-loss or drawdown incident.
ClosedByReleaseOnly ==
  [][\A r \in OpenManualRules :
       \/ r \in OpenRules(incidents')
       \/ r[1] = "MANUAL_KILL_SWITCH" /\ r[2] \notin kills'
       \/ Len(incidents') = IncidentLimit]_safetyVars

\* A global lock outlives the release of an instrument switch: the engine goes
\* from LOCKED to MONITORING only when nothing blocks globally any more, as
\* release_global_kill_switch takes care of.
GlobalLockPrecedes ==
  [][safetyStatus = "LOCKED" /\ safetyStatus' = "MONITORING"
       => OverallDecision(evaluations') # "BLOCK_GLOBAL"]_safetyVars

\* What the engine publishes is what holds: a switch that is on fails its rule, LOCKED
\* and DEGRADED are never leftovers of an earlier evaluation (engine.py).
StandingIsTrue == SafetyTypeOK /\ KillSwitchesBind /\ StatusTellsDecision

\* The incidents are a true record of what blocks, from its first failure to its
\* resolution or its release, however often the rules are evaluated and whatever is
\* released meanwhile (engine.py: _update_incidents and the two releases).
IncidentsAreHonest == []IncidentsMatchRules /\ ClosedByReleaseOnly
=============================================================================
