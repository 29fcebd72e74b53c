------------------------ MODULE ApplicationLifecycleV1 ------------------------
(***************************************************************************)
(* The application's life: the lifecycle manager over the orchestrator,    *)
(* the orchestrator over one runtime per instrument and the authorized     *)
(* paper handoff, each runtime over the engines it starts, stops and       *)
(* resets.  An engine publishes its state, and a subscriber that raises    *)
(* leaves the call where it was: the calls are operators from a state to   *)
(* the states they may leave, with the flag `ok` for those that returned.  *)
(***************************************************************************)
EXTENDS NoneValue, Integers, Sequences, FiniteSets

CONSTANTS
  Order,             \* the configured instruments, in their order
  CloseAtSessionEnd, \* of the paper trading configuration
  MaxFaults,         \* bound on the subscribers that raise
  Findings           \* what a shadow session may find: [FindingKinds]

VARIABLES
  life,  \* the lifecycle manager: [status, error]
  app,   \* the orchestrator: [status, runs, handoff]
  faults \* how many subscribers have raised, of those the bound allows

Instruments == {Order[p] : p \in DOMAIN Order}

(* RuntimeConfiguration: instruments are given, and given once. *)
RuntimeConfiguration ==
  /\ Len(Order) > 0
  /\ \A p, q \in DOMAIN Order : Order[p] = Order[q] => p = q
  /\ CloseAtSessionEnd \in BOOLEAN

ASSUME InstrumentsAreUnique == RuntimeConfiguration

RuntimeStatus == {"CREATED", "RUNNING", "STOPPED", "ERROR"}

(* The engines a runtime starts, in order; "charts" stands for the fusion,  *)
(* market state, setup and explanation engines, which start alike.          *)
Engines ==
  <<"calibration", "evidence", "charts", "policy", "authorization", "paper", "reconciliation",
    "shadow">>

Shadow == Len(Engines)

(* What a shadow session counts that its status depends on. *)
FindingKinds == {"inconsistent", "warning", "approved", "rejected", "paper failed"}

ASSUME FindingsAreKnown == Findings \subseteq FindingKinds

SessionStatus == {"HEALTHY", "HEALTHY_WITH_WARNINGS", "DEGRADED", "BLOCKED", "FAILED"}

EngineState == {"created", "ready", "stopped", "running", "completed", "failed"}

ShadowSummary == [session: STRING, status: SessionStatus]

(* `paper` is what the paper trading engine holds, `session` and `found`    *)
(* the shadow session begun and what it has found, `summary` the last one.  *)
Runtime ==
  [status: RuntimeStatus, engines: [DOMAIN Engines -> EngineState],
   paper: {"none", "order", "position"}, session: STRING \cup {None},
   found: SUBSET Findings, summary: ShadowSummary \cup {None}]

NewRuntime ==
  [status |-> "CREATED", engines |-> [k \in DOMAIN Engines |-> "created"], paper |-> "none",
   session |-> None, found |-> {}, summary |-> None]

(* What validate_startup() lets through is created, not started. *)
AppInit ==
  /\ life = [status |-> "CREATED", error |-> None]
  /\ app = [status |-> "CREATED", runs |-> [i \in Instruments |-> NewRuntime],
            handoff |-> "created"]
  /\ faults \in 0..MaxFaults

-----------------------------------------------------------------------------
(* One runtime. *)

(* Some engines start only once, some unless stopped, some always. *)
EngineStarted(e, s) ==
  CASE e \in {"calibration", "evidence", "authorization", "shadow"} ->
         IF s = "created" THEN "ready" ELSE s
    [] e \in {"policy", "paper", "reconciliation"} -> IF s = "stopped" THEN s ELSE "ready"
    [] OTHER -> "ready"

EngineStopped(e, s) ==
  CASE e = "evidence" -> IF s = "ready" THEN "stopped" ELSE s
    [] e = "shadow" -> IF s = "failed" THEN s ELSE "stopped"
    [] OTHER -> "stopped"

(* Some engines publish only a state that changed. *)
Publishes(e, s, t) == e \in {"calibration", "evidence", "authorization"} => s # t

StartedTo(r, k) ==
  [r EXCEPT !.status = "RUNNING",
            !.engines = [j \in DOMAIN Engines |->
                           IF j <= k THEN EngineStarted(Engines[j], @[j]) ELSE @[j]]]

StartedRuntime(r) == StartedTo(r, Shadow)

(* A runtime whose start raised says RUNNING all the same. *)
StartRaised(r) ==
  {StartedTo(r, k) :
     k \in {j \in DOMAIN Engines :
              Publishes(Engines[j], r.engines[j], EngineStarted(Engines[j], r.engines[j]))}}

(* _shutdown_paper_trading(): the order is cancelled, the position closed   *)
(* where the configuration says so.                                         *)
PaperShutDown(r) ==
  [r EXCEPT !.paper = IF @ = "position" /\ ~CloseAtSessionEnd THEN @ ELSE "none"]

(* A variant: the paper trade is left to the engines. *)
StoppedWithPaper(r, k) ==
  [r EXCEPT !.engines = [j \in DOMAIN Engines |->
                           IF j >= k THEN EngineStopped(Engines[j], @[j]) ELSE @[j]]]

StoppedTo(r, k) ==
  [PaperShutDown(r) EXCEPT
     !.engines = [j \in DOMAIN Engines |->
                    IF j >= k THEN EngineStopped(Engines[j], @[j]) ELSE @[j]]]

StoppedRuntime(r) == [StoppedTo(r, 1) EXCEPT !.status = "STOPPED"]

(* A paper trade whose closing is published to a subscriber that raises     *)
(* leaves every engine running.                                             *)
StopRaised(r) ==
  {StoppedTo(r, k) :
     k \in {j \in DOMAIN Engines :
              Publishes(Engines[j], r.engines[j], EngineStopped(Engines[j], r.engines[j]))}}
    \cup (IF PaperShutDown(r) = r THEN {} ELSE {PaperShutDown(r)})

(* reset(): a shadow session that runs refuses, halfway through. *)
ResetRefused(r) == r.engines[Shadow] = "running"

HalfReset(r) ==
  [r EXCEPT !.engines = [j \in DOMAIN Engines |-> IF j = Shadow THEN @[j] ELSE "ready"]]

ResetRuntime(r) ==
  IF ResetRefused(r) THEN HalfReset(r)
  ELSE [NewRuntime EXCEPT !.engines = [j \in DOMAIN Engines |-> "ready"]]

(* After a reset a runtime is put back to what the orchestrator was. *)
ResetTo(r, status) ==
  IF ResetRefused(r) THEN HalfReset(r)
  ELSE CASE status = "RUNNING" -> StartedRuntime(ResetRuntime(r))
         [] status = "STOPPED" -> StoppedRuntime(ResetRuntime(r))
         [] OTHER -> ResetRuntime(r)

-----------------------------------------------------------------------------
(* The orchestrator, and the authorized paper handoff. *)

HandoffStarted(h) == IF h = "created" THEN "ready" ELSE h

HandoffStopped(h) == IF h = "ready" THEN "stopped" ELSE h

Mapped(runs, Done(_)) == [i \in Instruments |-> Done(runs[i])]

(* The runtimes when one of them raised: those before it are done. *)
Interrupted(runs, Done(_), Raised(_)) ==
  UNION {{[i \in Instruments |->
             IF \E q \in 1..(p - 1) : Order[q] = i THEN Done(runs[i])
             ELSE IF i = Order[p] THEN half ELSE runs[i]] : half \in Raised(runs[Order[p]])}
           : p \in DOMAIN Order}

MayRaise == faults < MaxFaults

Raising(as) == IF MayRaise THEN {[app |-> a, ok |-> FALSE] : a \in as} ELSE {}

OrchestratorStart(a) ==
  LET started == [a EXCEPT !.runs = Mapped(@, StartedRuntime), !.handoff = HandoffStarted(@)]
  IN {[app |-> [started EXCEPT !.status = "RUNNING"], ok |-> TRUE]}
       \cup Raising({started}
              \cup {[a EXCEPT !.runs = runs] : runs \in Interrupted(a.runs, StartedRuntime, StartRaised)})

OrchestratorStop(a) ==
  LET stopped == [a EXCEPT !.runs = Mapped(@, StoppedRuntime), !.handoff = HandoffStopped(@)]
  IN {[app |-> [stopped EXCEPT !.status = "STOPPED"], ok |-> TRUE]}
       \cup Raising((IF a.handoff = "ready" THEN {stopped} ELSE {})
              \cup {[a EXCEPT !.runs = runs] : runs \in Interrupted(a.runs, StoppedRuntime, StopRaised)})

(* reset_all(): the runtimes before the first that refuses are reset. *)
ResetAll(a) ==
  LET refused == {p \in DOMAIN Order : ResetRefused(a.runs[Order[p]])}
      reached(i) == \A p \in refused : \E q \in 1..p : Order[q] = i
  IN [app |-> [a EXCEPT !.handoff = "ready",
                        !.runs = [i \in Instruments |->
                                    IF reached(i) THEN ResetTo(@[i], a.status) ELSE @[i]]],
      ok |-> refused = {}]

-----------------------------------------------------------------------------
(* The lifecycle manager, over states [life, app, ok]. *)

(* A variant: a start that fails is not cleaned up after. *)
StartLeftHalfway(w) ==
  IF w.life.status = "RUNNING" THEN {[w EXCEPT !.ok = TRUE]}
  ELSE {IF o.ok THEN [life |-> [status |-> "RUNNING", error |-> None], app |-> o.app, ok |-> TRUE]
        ELSE [life |-> [status |-> "ERROR", error |-> "start"], app |-> o.app, ok |-> FALSE]
          : o \in OrchestratorStart(w.app)}

StartApplication(w) ==
  IF w.life.status = "RUNNING" THEN {[w EXCEPT !.ok = TRUE]}
  ELSE UNION {
    IF o.ok THEN {[life |-> [status |-> "RUNNING", error |-> None], app |-> o.app, ok |-> TRUE]}
    ELSE {[life |-> [status |-> "ERROR", error |-> IF c.ok THEN "start" ELSE "cleanup"],
           app |-> c.app, ok |-> FALSE] : c \in OrchestratorStop(o.app)}
    : o \in OrchestratorStart(w.app)}

StopApplication(w) ==
  IF w.life.status = "STOPPED" THEN {[w EXCEPT !.ok = TRUE]}
  ELSE {[life |-> IF o.ok THEN [w.life EXCEPT !.status = "STOPPED"]
                  ELSE [status |-> "ERROR", error |-> "stop"],
         app |-> o.app, ok |-> o.ok] : o \in OrchestratorStop(w.app)}

(* A restart records only the first of its errors. *)
RestartApplication(w) ==
  UNION {IF ~s.ok THEN {s}
         ELSE {[t EXCEPT !.life.error = IF @ = "cleanup" THEN "start" ELSE @]
                 : t \in StartApplication(s)}
           : s \in IF w.life.status = "RUNNING" THEN StopApplication(w) ELSE {w}}

ResetApplication(w) ==
  LET o == ResetAll(w.app)
  IN {[life |-> IF o.ok THEN [w.life EXCEPT !.status = o.app.status] ELSE w.life,
       app |-> o.app, ok |-> o.ok]}

World == [life |-> life, app |-> app, ok |-> TRUE]

Becomes(ws) ==
  \E w \in ws :
    /\ life' = w.life /\ app' = w.app
    /\ faults' = IF w.ok THEN faults ELSE faults + 1

Start == Becomes(StartApplication(World))
Stop == Becomes(StopApplication(World))
Restart == Becomes(RestartApplication(World))

(* A reset that is refused is no fault of a subscriber. *)
Reset ==
  /\ \E w \in ResetApplication(World) : life' = w.life /\ app' = w.app
  /\ UNCHANGED faults

-----------------------------------------------------------------------------
(* What reaches one runtime. *)

Runs(i, r) == app' = [app EXCEPT !.runs[i] = r]

ResetSymbol(i) == Runs(i, ResetTo(app.runs[i], app.status)) /\ UNCHANGED <<life, faults>>

(* observe_market_event() of the shadow session engine: what it records may *)
(* fail the session, which keeps its identity.                              *)
Observed(r) ==
  IF r.engines[Shadow] # "running" THEN {r}
  ELSE {r, [r EXCEPT !.engines[Shadow] = "failed"]}
         \cup {[r EXCEPT !.found = @ \cup {f}] : f \in Findings}

(* What a tick may do to the paper trade: a plan is taken, its entry is     *)
(* filled or expires, its exit is reached.                                  *)
PaperTicked(r) ==
  {[r EXCEPT !.paper = p] :
     p \in CASE r.paper = "none" -> {"none", "order"}
             [] r.paper = "order" -> {"order", "position", "none"}
             [] OTHER -> {"position", "none"}}

Processing(i) == app.status = "RUNNING" /\ app.runs[i].status = "RUNNING"

ProcessTick(i) ==
  /\ Processing(i)
  /\ \E r \in PaperTicked(app.runs[i]) : \E o \in Observed(r) : Runs(i, o)
  /\ UNCHANGED <<life, faults>>

(* start_session() of the session that runs already changes nothing. *)
ShadowStartable(r, s) ==
  /\ r.status = "RUNNING"
  /\ \/ r.engines[Shadow] \in {"created", "ready", "completed"}
     \/ r.engines[Shadow] = "running" /\ r.session = s

ShadowStarted(r, s) ==
  IF r.engines[Shadow] = "running" THEN r
  ELSE [r EXCEPT !.engines[Shadow] = "running", !.session = s, !.found = {}]

ClassifyStatus(r) ==
  IF r.engines[Shadow] = "failed" THEN "FAILED"
  ELSE IF "inconsistent" \in r.found THEN "DEGRADED"
  ELSE IF "rejected" \in r.found /\ "approved" \notin r.found THEN "BLOCKED"
  ELSE IF r.found \cap {"warning", "rejected", "paper failed"} # {} THEN "HEALTHY_WITH_WARNINGS"
  ELSE "HEALTHY"

SummaryOfShadow(r) == [session |-> r.session, status |-> ClassifyStatus(r)]

(* stop_session(): an ended engine answers with its last summary, whatever  *)
(* session it has begun since; a stopped engine's session is summarised.    *)
ShadowEnded(r) == r.engines[Shadow] \in {"completed", "failed"} /\ r.summary # None

ShadowStoppable(r) == r.session # None \/ r.summary # None

ShadowStopped(r) ==
  IF ShadowEnded(r) \/ r.session = None THEN r
  ELSE [r EXCEPT !.engines[Shadow] = IF @ = "failed" THEN @ ELSE "completed",
                 !.session = None,
                 !.summary = SummaryOfShadow(r)]

StartShadowSession(i, s) ==
  /\ app.status = "RUNNING" /\ ShadowStartable(app.runs[i], s)
  /\ Runs(i, ShadowStarted(app.runs[i], s))
  /\ UNCHANGED <<life, faults>>

StopShadowSession(i) ==
  /\ app.status = "RUNNING" /\ ShadowStoppable(app.runs[i])
  /\ Runs(i, ShadowStopped(app.runs[i]))
  /\ UNCHANGED <<life, faults>>

LifecycleNext == Start \/ Stop \/ Restart \/ Reset

AppNext ==
  \/ LifecycleNext
  \/ \E i \in Instruments :
       ResetSymbol(i) \/ ProcessTick(i) \/ StartShadowSession(i, "own") \/ StopShadowSession(i)

appVars == <<life, app, faults>>

AppSpec == AppInit /\ [][AppNext]_appVars

-----------------------------------------------------------------------------
AppTypeOK ==
  /\ life \in [status: RuntimeStatus, error: {None, "start", "cleanup", "stop"}]
  /\ app \in [status: RuntimeStatus, runs: [Instruments -> Runtime],
              handoff: {"created", "ready", "stopped"}]
  /\ faults \in 0..MaxFaults

(* An application that says it runs does: its orchestrator and each of its  *)
(* runtimes run, whatever starts, stops and resets failed before, in        *)
(* whatever engine of whatever runtime.                                     *)
RunningMeansRunning ==
  life.status = "RUNNING" =>
    /\ app.status = "RUNNING"
    /\ \A i \in Instruments : app.runs[i].status = "RUNNING"

(* A stopped runtime holds no paper order, and no paper position unless it  *)
(* is configured to keep one overnight.                                     *)
StoppedHoldsNothing ==
  \A i \in Instruments :
    app.runs[i].status = "STOPPED" =>
      app.runs[i].paper \in IF CloseAtSessionEnd THEN {"none"} ELSE {"none", "position"}

(* What the application and its runtimes say of themselves is so. *)
StatusIsTrue == RunningMeansRunning /\ StoppedHoldsNothing

(* A start that fails and can be cleaned up leaves no runtime running, and  *)
(* no engine of any runtime serving.                                        *)
FailedStartIsUndone ==
  [][life'.status = "ERROR" /\ life'.error = "start" /\ faults' # faults /\ Start =>
       /\ app'.status = "STOPPED"
       /\ \A i \in Instruments :
            /\ app'.runs[i].status = "STOPPED"
            /\ \A k \in DOMAIN Engines : app'.runs[i].engines[k] \in {"created", "stopped", "failed"}
    ]_appVars
=============================================================================
