-------------------------- MODULE LiveValidationV1 --------------------------
(***************************************************************************)
(* Live market validation (engines/live_market_validation): an observer of *)
(* the event bus that checks the ticks, candles, option chains and levels  *)
(* other engines publish, keeps findings about them, and writes a report   *)
(* when its session ends.                                                  *)
(*                                                                         *)
(* Payloads are abstracted to what the checks tell apart: a tick is its    *)
(* instrument, time and whether its price is one; a candle whether its     *)
(* OHLC values fit and how long it is; an option chain its shape.  The     *)
(* figures that are only reported (latencies, gaps, ages) are left out,    *)
(* the findings they lead to are not.                                      *)
(***************************************************************************)
EXTENDS NoneValue, Naturals, Sequences, FiniteSets, SequencesExt

CONSTANTS
    Configured,       \* the configured instruments
    Foreign,          \* an instrument that is none of them
    GapWarning, GapCritical, StaleAfter,   \* thresholds, in time units
    ChainStale, LatencyWarning, LatencyCritical,
    MaxFindings,      \* max_findings
    MaxRecent,        \* max_recent_identities
    SessionLength,    \* trading time of a day, from its start
    DayLength,
    MaxTime,          \* bound: the last instant
    BusEvents,        \* events the bus may carry
    FeedTicks         \* ticks the market data engine may accept

\* What the configuration's constructor accepts.
LiveMarketValidationConfiguration ==
    /\ Configured # {} /\ Foreign \notin Configured
    /\ {GapWarning, GapCritical, StaleAfter, ChainStale, LatencyWarning, LatencyCritical} \subseteq Nat
    /\ GapWarning <= GapCritical /\ LatencyWarning <= LatencyCritical
    /\ {MaxFindings, MaxRecent, SessionLength} \subseteq Nat \ {0}
    /\ SessionLength <= DayLength

ASSUME ThresholdsAreOrdered == LiveMarketValidationConfiguration

VARIABLES
    clock,
    watch,   \* the engine: lifecycle, findings, what it remembers of events
    report,    \* _last_report
    disk,      \* the repository's files: reports and batches of findings
    raised     \* history: <<key, severity>> of every finding of the session

valVars == <<clock, watch, report, disk, raised>>

Date(t) == t \div DayLength
InSession(t) == t % DayLength <= SessionLength

Outcomes == {"PASS", "PASS_WITH_WARNINGS", "FAIL", "INCOMPLETE"}

\* What the engine counts of an instrument's ticks.
NoTicksYet == [received |-> 0, valid |-> 0, duplicate |-> 0, disordered |-> 0, stale |-> 0, latest |-> None]

Sessionless == [state |-> "IDLE", mode |-> "OFF", id |-> 0]

\* _reset_transient: all that a session remembers.
Clean(session, instruments) ==
    [state |-> session.state, mode |-> session.mode, id |-> session.id,
     instruments |-> instruments,
     findings |-> <<>>,
     events |-> <<>>,
     recent |-> [i \in instruments |-> <<>>],
     ticks |-> [i \in instruments |-> NoTicksYet],
     candles |-> [i \in instruments |-> <<>>],
     lastEnd |-> [i \in instruments |-> None],
     expiry |-> [i \in instruments |-> None],
     fresh |-> {},
     paper |-> None,
     observed |-> 0, repeated |-> 0, writes |-> 0, writeFailures |-> 0,
     recovery |-> "CONNECTED", outage |-> None, outages |-> 0]

-----------------------------------------------------------------------------
(* Findings.                                                               *)

Troubles == {"WARNING", "ERROR", "CRITICAL"}

Key(component, instrument, code) == [component |-> component, instrument |-> instrument, code |-> code]

ValidationFinding(key, severity) == [key |-> key, severity |-> severity, count |-> 1]

\* ValidationFinding.aggregate: the severity stays that of the first occurrence.
Aggregated(f) == [f EXCEPT !.count = @ + 1]

Listed(s, key) == \E i \in DOMAIN s.findings : s.findings[i].key = key

\* The deque of findings drops its oldest when it is full.
Appended(queue, x, limit) ==
    IF Len(queue) = limit THEN Append(Tail(queue), x) ELSE Append(queue, x)

\* Mutant of DegradedBy: warnings do not count.
DegradedByErrors(s, severity) ==
    IF severity \in {"ERROR", "CRITICAL"} /\ s.state = "RUNNING" THEN "DEGRADED" ELSE s.state

\* What _add_finding does to the lifecycle.
DegradedBy(s, severity) ==
    IF severity \in Troubles /\ s.state = "RUNNING" THEN "DEGRADED" ELSE s.state

\* _add_finding.  `log' collects what was raised.
Found(w, severity, key) ==
    LET s == w.s
        kept == [i \in DOMAIN s.findings |->
                    IF s.findings[i].key = key THEN Aggregated(s.findings[i]) ELSE s.findings[i]]
    IN  [s |-> [s EXCEPT !.findings = IF Listed(s, key) THEN kept
                                      ELSE Appended(s.findings, ValidationFinding(key, severity), MaxFindings),
                         !.state = DegradedBy(s, severity)],
         log |-> w.log \cup {<<key, severity>>}]

FoundIf(w, condition, severity, key) == IF condition THEN Found(w, severity, key) ELSE w

\* _observe_component.
HealthObserved(w, component, instrument) ==
    IF instrument # None /\ instrument \notin w.s.instruments THEN w
    ELSE [w EXCEPT !.s.fresh = @ \cup {<<component, instrument>>}]

\* _session_instrument_allowed, and the finding it leaves.  Every instrument the
\* program knows is configured; the codes for one it does not know are one.
Allowed(s, i) == i \in s.instruments
Disallowed(w, component, i) ==
    IF i \notin Configured
    THEN Found(w, "ERROR", Key(component, None, "UNSUPPORTED_INSTRUMENT"))
    ELSE Found(w, "ERROR", Key(component, i, "UNSUPPORTED_SESSION_INSTRUMENT"))

Active(s) == s.state \in {"RUNNING", "DEGRADED"}

-----------------------------------------------------------------------------
(* Checks of single payloads.                                              *)

\* The gap between a tick and the latest one.
TickGap(w, t) ==
    LET latest == w.s.ticks[t.symbol].latest
        key == Key("market_data", t.symbol, "TICK_GAP")
        gap == t.time - latest
    IN  IF latest = None \/ t.price = 0 THEN w
        ELSE IF t.time < latest
        THEN LET f == Found(w, "ERROR", Key("market_data", t.symbol, "OUT_OF_ORDER_TICK"))
             IN  [f EXCEPT !.s.ticks[t.symbol].disordered = @ + 1]
        ELSE IF gap >= GapCritical THEN Found(w, "ERROR", key)
        ELSE IF gap >= GapWarning THEN Found(w, "WARNING", key)
        ELSE w

\* What is said of a tick with a valid price and of its time.
ValidTick(w, t, now) ==
    LET i == t.symbol
        stale == now >= t.time + StaleAfter
        a == FoundIf(w, stale, "WARNING", Key("market_data", i, "STALE_TICK"))
        b == FoundIf(a, ~InSession(t.time), "WARNING", Key("market_data", i, "OUTSIDE_SESSION_TICK"))
        c == FoundIf(b, Date(t.time) # Date(now), "ERROR", Key("market_data", i, "WRONG_TRADING_DATE"))
        m == c.s.ticks[i]
        counted == [m EXCEPT !.received = @ + 1, !.valid = @ + 1,
                             !.stale = IF stale THEN @ + 1 ELSE @,
                             !.latest = IF @ = None THEN t.time
                                        ELSE IF t.time >= @ THEN t.time ELSE @]
        o == HealthObserved([c EXCEPT !.s.ticks[i] = counted], "market_data", i)
    IN  [o EXCEPT !.s.recovery = IF @ = "RECOVERING" THEN "RECOVERED" ELSE @]

\* observe_tick.
TickSeen(w, t, now) ==
    LET i == t.symbol
        again == t \in ToSet(w.s.recent[i])
        d == IF again
             THEN [Found(w, "WARNING", Key("market_data", i, "DUPLICATE_TICK"))
                     EXCEPT !.s.ticks[i].duplicate = @ + 1]
             ELSE [w EXCEPT !.s.recent[i] = Appended(@, t, MaxRecent)]
        g == TickGap(d, t)
    IN  IF ~Active(w.s) THEN w
        ELSE IF ~Allowed(w.s, i) THEN Disallowed(w, "market_data", i)
        ELSE IF t.price = 0
        THEN [Found(d, "ERROR", Key("market_data", i, "INVALID_TICK"))
                EXCEPT !.s.ticks[i].received = @ + 1]
        ELSE ValidTick(g, t, now)

\* observe_candle: one timeframe, whose candles are one time unit long.
CandleSeen(w, c, now) ==
    LET i == c.symbol
        again == c.closed /\ c \in ToSet(w.s.candles[i])
        a == FoundIf(w, again, "WARNING", Key("candle", i, "DUPLICATE_CANDLE_CLOSE"))
        b == [a EXCEPT !.s.candles[i] = Appended(@, c, MaxRecent)]
        e == FoundIf(b, ~c.fits, "ERROR", Key("candle", i, "INVALID_CANDLE"))
        f == FoundIf(e, c.end # c.start + 1, "WARNING", Key("candle", i, "UNEXPECTED_CANDLE_DURATION"))
        last == w.s.lastEnd[i]
        g == IF last = None THEN f
             ELSE IF c.start < last THEN Found(f, "ERROR", Key("candle", i, "OUT_OF_ORDER_CANDLE"))
             ELSE FoundIf(f, c.start - last > 1, "WARNING", Key("candle", i, "MISSING_CANDLE_INTERVAL"))
        h == [g EXCEPT !.s.lastEnd[i] = c.end]
        k == FoundIf(h, Date(c.start) # Date(now), "ERROR", Key("candle", i, "CANDLE_TRADING_DATE_MISMATCH"))
    IN  IF ~Active(w.s) THEN w
        ELSE IF ~Allowed(w.s, i) THEN Disallowed(w, "candle", i)
        ELSE HealthObserved(k, "candle", i)

\* observe_option_chain: the quality of the snapshot and what is said of it.
ChainQuality(x, now) ==
    IF x.shape = "invalid" THEN "INVALID"
    ELSE IF now >= x.time + ChainStale THEN "STALE"
    ELSE IF x.shape = "one sided" THEN "PARTIAL"
    ELSE "COMPLETE"

ChainSeen(w, x, now) ==
    LET i == x.symbol
        quality == ChainQuality(x, now)
        a == FoundIf(w, quality = "INVALID", "ERROR", Key("option_chain", i, "INVALID_OPTION_CHAIN"))
        b == FoundIf(a, quality = "STALE", "WARNING", Key("option_chain", i, "STALE_OPTION_CHAIN"))
        last == w.s.expiry[i]
        c == FoundIf(b, last # None /\ last # x.expiry, "INFO", Key("option_chain", i, "OPTION_EXPIRY_TRANSITION"))
    IN  IF ~Active(w.s) THEN w
        ELSE IF ~Allowed(w.s, i) THEN Disallowed(w, "option_chain", i)
        ELSE HealthObserved([c EXCEPT !.s.expiry[i] = x.expiry], "option_chain", i)

\* observe_cpr, observe_camarilla and observe_vwap; only VWAP levels name an
\* instrument.
LevelsSeen(w, x) ==
    IF ~Active(w.s) THEN w
    ELSE IF x.symbol # None /\ ~Allowed(w.s, x.symbol) THEN Disallowed(w, x.component, x.symbol)
    ELSE HealthObserved(FoundIf(w, ~x.fits, "ERROR", Key(x.component, x.symbol, "INVALID_LEVELS")),
                  x.component, x.symbol)

\* The time from a recorded paper trade to the analytics that include it.
LatencySeen(w, x, now) ==
    LET started == w.s.paper
        popped == [w EXCEPT !.s.paper = None]
        late == now - started
    IN  IF x.name = "paper_trade_recorded" THEN [w EXCEPT !.s.paper = now]
        ELSE IF x.name # "performance_analytics_updated" \/ started = None THEN w
        ELSE IF late >= LatencyCritical THEN Found(popped, "ERROR", Key("event_flow", None, "LATENCY_CRITICAL"))
        ELSE IF late >= LatencyWarning THEN Found(popped, "WARNING", Key("event_flow", None, "LATENCY_WARNING"))
        ELSE popped

\* _payload_instrument: a payload's instrument is one of the session's or said
\* to be none.
PayloadInstrument(w, x) ==
    IF x.symbol = None THEN HealthObserved(w, x.component, None)
    ELSE IF Allowed(w.s, x.symbol) THEN HealthObserved(w, x.component, x.symbol)
    ELSE Disallowed(w, x.component, x.symbol)

\* _payload_identity and the time of an event: its payload's, or else the
\* instant it is seen, which no other event has.
Identity(x) == [name |-> x.name, symbol |-> x.symbol, at |-> x.at]

\* record_event: an event is counted, known again, attributed and checked.
EventSeen(w, x, now) ==
    LET again == x.at # None /\ Identity(x) \in ToSet(w.s.events)
        a == [w EXCEPT !.s.events = Appended(@, Identity(x), MaxRecent),
                       !.s.observed = @ + 1,
                       !.s.repeated = IF again THEN @ + 1 ELSE @]
        b == FoundIf(a, again, "WARNING", Key("event_flow", None, "DUPLICATE_EVENT"))
        c == PayloadInstrument(b, x)
        d == CASE x.component = "market_data" -> TickSeen(c, x.body, now)
               [] x.component = "candle" -> CandleSeen(c, x.body, now)
               [] x.component = "option_chain" -> ChainSeen(c, x.body, now)
               [] x.component \in {"cpr", "vwap"} ->
                    LevelsSeen(c, [component |-> x.component, symbol |-> x.symbol, fits |-> x.body])
               [] OTHER -> LatencySeen(c, x, now)
    IN  IF Active(w.s) THEN d ELSE w

-----------------------------------------------------------------------------
(* Reports.                                                                *)

SeveritiesOf(findings) == {findings[i].severity : i \in DOMAIN findings}

\* outcome_for.
ResultOutcome(state, findings) ==
    LET found == SeveritiesOf(findings)
    IN  IF state = "FAILED" THEN "FAIL"
        ELSE IF state # "COMPLETED" THEN "INCOMPLETE"
        ELSE IF found \cap {"ERROR", "CRITICAL"} # {} THEN "FAIL"
        ELSE IF "WARNING" \in found THEN "PASS_WITH_WARNINGS"
        ELSE "PASS"

\* health_for_findings and _overall_health (a component that has gone stale
\* degrades it too; only its first branch depends on the clock and is left out).
HealthOf(s) ==
    LET found == SeveritiesOf(s.findings)
    IN  IF s.state = "FAILED" \/ "CRITICAL" \in found THEN "FAILED"
        ELSE IF "ERROR" \in found THEN "UNHEALTHY"
        ELSE IF "WARNING" \in found THEN "DEGRADED"
        ELSE IF \E i \in s.instruments : s.ticks[i].valid > 0 THEN "HEALTHY"
        ELSE "UNKNOWN"

\* build_report.
ReportOf(s) ==
    [id |-> s.id, result |-> s.state, outcome |-> ResultOutcome(s.state, s.findings),
     findings |-> s.findings, health |-> HealthOf(s), path |-> None]

\* _persist_final_report: the findings are appended, then the report is
\* replaced; a failure of either becomes a finding and the report is made anew.
\* The result is the engine, the report it remembers and what is on disk.
FindingsWritten(w, fails) ==
    IF w.s.findings = <<>> THEN w
    ELSE IF fails
    THEN [Found(w, "ERROR", Key("persistence", None, "FINDINGS_WRITE_FAILED"))
            EXCEPT !.s.writeFailures = @ + 1]
    ELSE [w EXCEPT !.s.writes = @ + 1]

ReportWritten(w, fails) ==
    IF fails
    THEN [Found(w, "ERROR", Key("persistence", None, "REPORT_WRITE_FAILED"))
            EXCEPT !.s.writeFailures = @ + 1]
    ELSE [w EXCEPT !.s.writes = @ + 1]

\* Mutant of Rebuilt: the report made before the failure is kept.
RebuiltNever(before, after) == ReportOf(before.s)

\* The report of what is known after a step of writing.
Rebuilt(before, after) ==
    IF after.s.findings # before.s.findings THEN ReportOf(after.s) ELSE ReportOf(before.s)

Persist(w, findingsFail, reportFails) ==
    LET first == FindingsWritten(w, findingsFail)
        made == Rebuilt(w, first)
        second == ReportWritten(first, reportFails)
        batch == IF w.s.findings = <<>> \/ findingsFail THEN <<>>
                 ELSE <<[id |-> w.s.id, findings |-> w.s.findings]>>
    IN  /\ watch' = second.s
        /\ raised' = second.log
        /\ report' = IF reportFails THEN ReportOf(second.s) ELSE [made EXCEPT !.path = w.s.id]
        /\ disk' = [batches |-> disk.batches \o batch,
                    reports |-> IF reportFails THEN disk.reports
                                ELSE {r \in disk.reports : r.id # w.s.id} \cup {made}]

-----------------------------------------------------------------------------
(* Operations.                                                             *)

ValInit ==
    /\ clock = 0
    /\ watch = Clean(Sessionless, Configured)
    /\ report = None
    /\ disk = [batches |-> <<>>, reports |-> {}]
    /\ raised = {}

\* start_session, with a session id of its own.
StartValidation(instruments) ==
    /\ watch.state \in {"IDLE", "COMPLETED", "FAILED"}
    /\ instruments # {} /\ instruments \subseteq Configured
    /\ watch' = Clean([state |-> "RUNNING", mode |-> "LIVE_OBSERVE", id |-> watch.id + 1], instruments)
    /\ raised' = {}
    /\ UNCHANGED <<clock, report, disk>>

\* complete_session.
CompleteValidation(findingsFail, reportFails) ==
    /\ Active(watch)
    /\ Persist([s |-> [watch EXCEPT !.state = "COMPLETED"], log |-> raised], findingsFail, reportFails)
    /\ UNCHANGED clock

\* fail_session, which a failed session accepts again.
FailValidation(findingsFail, reportFails) ==
    /\ watch.state \notin {"IDLE", "COMPLETED"}
    /\ LET w == [s |-> [watch EXCEPT !.state = "FAILED"], log |-> raised]
       IN  Persist(Found(w, "CRITICAL", Key("event_flow", None, "SESSION_FAILED")),
                   findingsFail, reportFails)
    /\ UNCHANGED clock

\* reset; the files go only when that is asked for.
ResetValidation(clear) ==
    /\ watch' = Clean([Sessionless EXCEPT !.id = watch.id], Configured)
    /\ report' = None
    /\ raised' = {}
    /\ disk' = IF clear THEN [batches |-> <<>>, reports |-> {}] ELSE disk
    /\ UNCHANGED clock

MovesOn(w) == watch' = w.s /\ raised' = w.log /\ UNCHANGED <<clock, report, disk>>

Before == [s |-> watch, log |-> raised]

\* An event published on the bus.
RecordEvent(x) == Active(watch) /\ MovesOn(EventSeen(Before, x, clock))

\* MarketDataEngine.on_tick publishes each tick it accepts twice, as a new tick
\* and as a market update; both are subscribed to.
FeedTick(t) ==
    LET event(name) == [name |-> name, component |-> "market_data", symbol |-> t.symbol,
                        at |-> t.time, body |-> t]
    IN  /\ Active(watch)
        /\ MovesOn(EventSeen(EventSeen(Before, event("new_tick"), clock), event("market_updated"), clock))

\* record_disconnect and record_reconnect are accepted at any time.
RecordDisconnect ==
    LET w == Found(Before, "WARNING", Key("reconnect", None, "FEED_DISCONNECTED"))
    IN  /\ watch' = [w.s EXCEPT !.outage = clock, !.recovery = "DISCONNECTED"]
        /\ raised' = IF Active(watch) THEN w.log ELSE raised
        /\ UNCHANGED <<clock, report, disk>>

RecordReconnect ==
    MovesOn([Before EXCEPT !.s.recovery = "RECOVERING", !.s.outages = @ + 1])

\* The clock: external.
Tock == clock < MaxTime /\ clock' = clock + 1 /\ UNCHANGED <<watch, report, disk, raised>>

\* What is said of an instant is said after it.
Happened(at) == at = None \/ (at # None /\ at <= clock)

\* What a session is told and asked.
Observation ==
    \/ \E x \in BusEvents : Happened(x.at) /\ RecordEvent(x)
    \/ \E t \in FeedTicks : Happened(t.time) /\ FeedTick(t)
    \/ RecordDisconnect \/ RecordReconnect
    \/ \E a, b \in BOOLEAN : CompleteValidation(a, b) \/ FailValidation(a, b)
    \/ \E clear \in BOOLEAN : ResetValidation(clear)

ValNext == Observation \/ (\E s \in SUBSET Configured : StartValidation(s)) \/ Tock

ValSpec == ValInit /\ [][ValNext]_valVars

-----------------------------------------------------------------------------
(* Properties.                                                             *)

\* Nothing fell out of the list of findings.
NothingEvicted(findings) == Len(findings) < MaxFindings

\* A tick gap that grows keeps the severity it was first found with.
Masked(key) == key.code = "TICK_GAP"

\* Types, and that a running session's books add up.
ValidationTypeOK ==
    /\ watch.state \in {"IDLE", "RUNNING", "DEGRADED", "COMPLETED", "FAILED"}
    /\ Len(watch.findings) <= MaxFindings
    /\ \A i \in watch.instruments :
          /\ watch.ticks[i].valid <= watch.ticks[i].received
          /\ watch.ticks[i].disordered <= watch.ticks[i].valid
          /\ watch.ticks[i].stale <= watch.ticks[i].valid
          /\ Len(watch.recent[i]) <= MaxRecent

\* The outcome a session ends with tells of everything found in it, failures
\* to write its findings or its report included - and what is on disk under a
\* report's path is that report.  Two things void it: more findings than
\* max_findings, and a tick gap that was first a warning and then critical.
ReportTellsSession ==
    report # None =>
        LET errors == {x \in raised : x[2] = "ERROR" /\ ~Masked(x[1])}
        IN  /\ (report.id = watch.id /\ report.result = "COMPLETED" /\ NothingEvicted(report.findings)) =>
                  /\ errors # {} => report.outcome = "FAIL"
                  /\ report.outcome = "PASS" => \A x \in raised : x[2] \notin Troubles
            /\ report.path # None => [report EXCEPT !.path = None] \in disk.reports

\* A running session has no trouble among its findings, and a degraded one has.
DegradedTellsFindings ==
    NothingEvicted(watch.findings) =>
        /\ watch.state = "RUNNING" => SeveritiesOf(watch.findings) \cap Troubles = {}
        /\ watch.state = "DEGRADED" => SeveritiesOf(watch.findings) \cap Troubles # {}

\* The report and the state of a session both tell of its findings.
FindingsAreTold == ReportTellsSession /\ DegradedTellsFindings

\* README.md:153: observed clean components become healthy.  A session whose
\* ticks were all in time and in order, with nothing else to report, is healthy.
CleanFeedIsHealthy ==
    (/\ watch.state \in {"RUNNING", "DEGRADED"}
     /\ \A x \in raised : x[1].code = "DUPLICATE_TICK"
     /\ watch.repeated = 0 /\ watch.outage = None
     /\ \E i \in watch.instruments : watch.ticks[i].valid > 0) =>
        HealthOf(watch) = "HEALTHY"
=============================================================================
