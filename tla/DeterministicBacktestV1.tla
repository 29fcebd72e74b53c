----------------------- MODULE DeterministicBacktestV1 -----------------------
(***************************************************************************)
(* The historical market replay engine and its files, and the              *)
(* deterministic backtest engine over it, as the desktop runs them: every  *)
(* refresh of the window polls the replay driver and then the backtest     *)
(* driver, the user's commands reach the backtest through the              *)
(* orchestrator, and the live feed comes and goes.                         *)
(*                                                                         *)
(* The replay's methods are operators from a session to the sessions they  *)
(* may leave, so that the backtest's can call them within their steps.     *)
(***************************************************************************)
EXTENDS NoneValue, Integers, Sequences

CONSTANTS
  Paths,          \* the session files
  FileAt(_),      \* what the file at a path holds: [content, id, records]
  Configurations, \* the configurations of the desktop
  MaxLives        \* bound on the changes of the live feed

VARIABLES
  config, \* [backtest, replay, steps, stops, auto, sessions]: as started
  rep,    \* the replay engine
  bt,     \* the backtest engine
  desk,   \* [running, serving]: the orchestrator, and its runtimes
  link    \* [active, changes]: the live feed, external

sessionVars == <<config, rep, bt, desk, link>>

-----------------------------------------------------------------------------
(* The replay engine. *)

FileContent == {"ok", "malformed", "unreadable"}

(* A file is refused when its manifest or a record is malformed, when it has *)
(* no record or another number of them than the manifest says, or when a     *)
(* record is repeated, out of order or of another day.                       *)
SessionFile == [content: FileContent, id: STRING, records: Nat]

SessionValid(f) == f.content = "ok" /\ f.records > 0

Loadable(p) == SessionValid(FileAt(p))

ASSUME FilesAreFiles == \A p \in Paths : FileAt(p) \in SessionFile

ReplayLifecycleState == {"IDLE", "READY", "RUNNING", "PAUSED", "COMPLETED", "STOPPED", "FAILED"}
ReplayTerminal == {"COMPLETED", "STOPPED", "FAILED"}
ReplayOutcome == {"PASS", "FAIL", "STOPPED"}

(* `flagged` stands for a finding of severity ERROR or CRITICAL, `outcome`  *)
(* for the outcome of the latest report.                                    *)
ReplaySession ==
  [state: ReplayLifecycleState, path: Paths \cup {None}, records: Nat, cursor: Nat,
   published: Nat, flagged: BOOLEAN, outcome: ReplayOutcome \cup {None}]

SessionId(r) == IF r.records = 0 THEN None ELSE FileAt(r.path).id

(* reset(), and the engine as it is created. *)
NewReplay ==
  [state |-> "IDLE", path |-> None, records |-> 0, cursor |-> 0, published |-> 0,
   flagged |-> FALSE, outcome |-> None]

ResetReplay == NewReplay

-----------------------------------------------------------------------------
(* Reports. *)

OutcomeFor(r) ==
  CASE r.state = "STOPPED" -> "STOPPED"
    [] r.state = "FAILED" -> "FAIL"
    [] OTHER -> IF r.flagged THEN "FAIL" ELSE "PASS"

(* Writing a report may fail: that is a finding. *)
WriteReport(r) == {r, [r EXCEPT !.flagged = TRUE]}

(* _persist_terminal(): the report is built again with such a finding. *)
Persisted(r) == {[q EXCEPT !.outcome = OutcomeFor(q)] : q \in WriteReport(r)}

(* A failure that leaves the report of an earlier ending. *)
FailUnreported(r) == {[r EXCEPT !.state = "FAILED", !.flagged = TRUE]}

FailReplay(r) == Persisted([r EXCEPT !.state = "FAILED", !.flagged = TRUE])

-----------------------------------------------------------------------------
(* Commands: the sessions they may leave, none when they are refused.       *)

(* The latest report outlives the loading of another session. *)
LoadSession(r, p) ==
  LET cleared == [r EXCEPT !.path = p, !.records = 0, !.cursor = 0, !.published = 0,
                           !.flagged = FALSE]
  IN IF r.state \notin {"IDLE"} \cup ReplayTerminal THEN {}
     ELSE IF Loadable(p) THEN {[cleared EXCEPT !.state = "READY", !.records = FileAt(p).records]}
     ELSE FailReplay(cleared)

Startable(r, live) == r.state = "READY" /\ ~live

(* start(): live market data refuses it, and that is a finding. *)
StartReplay(r, live) ==
  IF Startable(r, live) THEN [r EXCEPT !.state = "RUNNING"]
  ELSE IF r.state = "READY" THEN [r EXCEPT !.flagged = TRUE]
  ELSE r

(* _publish_next(): a subscriber that raises fails the replay where it is. *)
PublishNext(r) ==
  IF r.cursor >= r.records THEN {r}
  ELSE {[r EXCEPT !.cursor = @ + 1, !.published = @ + 1]} \cup FailReplay(r)

Complete(r) == Persisted([r EXCEPT !.state = "COMPLETED"])

(* process_next() of a playing replay. *)
ProcessNext(r) ==
  UNION {IF q.state = "RUNNING" /\ q.cursor >= q.records THEN Complete(q) ELSE {q}
           : q \in PublishNext(r)}

(* step(): one record, then paused again. *)
StepReplay(r, live) ==
  IF ~(Startable(r, live) \/ r.state = "PAUSED") THEN {StartReplay(r, live)}
  ELSE UNION {IF q.cursor >= q.records THEN Complete(q)
              ELSE IF q.state = "RUNNING" THEN {[q EXCEPT !.state = "PAUSED"]} ELSE {q}
                : q \in PublishNext([r EXCEPT !.state = "RUNNING"])}

(* drain(): every record left, unless one of them fails the replay. *)
Drained(r) ==
  Complete([r EXCEPT !.state = "RUNNING", !.cursor = r.records, !.published = r.records])
    \cup UNION {FailReplay([r EXCEPT !.cursor = k, !.published = k]) : k \in r.cursor..(r.records - 1)}

StopReplay(r) ==
  IF r.state \in {"RUNNING", "PAUSED"} THEN Persisted([r EXCEPT !.state = "STOPPED"]) ELSE {}

PauseReplay(r) == IF r.state = "RUNNING" THEN {[r EXCEPT !.state = "PAUSED"]} ELSE {}

ResumeReplay(r) == IF r.state = "PAUSED" THEN {[r EXCEPT !.state = "RUNNING"]} ELSE {}

(* What a caller of the engine may ask, in a replay that steps or plays. *)
ReplayCommands(r, steps, live) ==
  (UNION {LoadSession(r, p) : p \in Paths})
    \cup {StartReplay(r, live), ResetReplay}
    \cup PauseReplay(r) \cup ResumeReplay(r) \cup StopReplay(r)
    \cup (IF steps THEN StepReplay(r, live)
          ELSE IF r.state = "RUNNING" \/ Startable(r, live) THEN Drained(r) ELSE {})

-----------------------------------------------------------------------------
(* The backtest engine. *)

BacktestLifecycleState == {"IDLE", "READY", "RUNNING", "PAUSED", "COMPLETED", "STOPPED", "FAILED"}
BacktestTerminal == {"COMPLETED", "STOPPED", "FAILED"}
BacktestOutcome == {"PASSED", "COMPLETED_WITH_FINDINGS", "FAILED", "STOPPED"}

(* An enabled backtest has distinct session paths. *)
BacktestConfiguration(c) ==
  /\ c.backtest => c.sessions # <<>>
  /\ \A i, j \in DOMAIN c.sessions : c.sessions[i] = c.sessions[j] => i = j

(* A replay that starts by itself has been loaded by itself. *)
ReplayConfiguration(c) ==
  /\ c.auto # "none" => c.replay
  /\ c.steps => c.replay

DesktopConfiguration ==
  {c \in [backtest: BOOLEAN, replay: BOOLEAN, steps: BOOLEAN, stops: BOOLEAN,
          auto: {"none", "load", "start"}, sessions: UNION {[1..n -> Paths] : n \in 0..3}] :
     BacktestConfiguration(c) /\ ReplayConfiguration(c)}

ASSUME ConfigurationsAreValid == Configurations \subseteq DesktopConfiguration

BacktestSessionResult ==
  [index: Nat, id: STRING \cup {None}, published: Nat, outcome: BacktestOutcome]

(* The report of a run, as far as its properties tell runs apart. *)
BacktestBatchResult ==
  [state: BacktestLifecycleState, outcome: BacktestOutcome, results: Seq(BacktestSessionResult)]

ASSUME NoReport == None \notin BacktestBatchResult

(* `index` counts the sessions begun, `flagged` stands for a finding of     *)
(* severity WARNING or above, `persisted` for _terminal_persisted.          *)
NewBacktest ==
  [state |-> "IDLE", index |-> 0, results |-> <<>>, flagged |-> FALSE, persisted |-> FALSE,
   latest |-> None]

(* _configure_historical_replay(): a failure to start fails the desktop.    *)
ConfiguredReplay(c, active) ==
  IF c.auto = "none" THEN {NewReplay}
  ELSE UNION {IF c.auto = "load" THEN LoadSession(NewReplay, p)
              ELSE {[r EXCEPT !.state = "RUNNING"] :
                      r \in {q \in LoadSession(NewReplay, p) : Startable(q, active)}} : p \in Paths}

(* load_desktop_live_configuration() refuses a live feed that connects by   *)
(* itself beside a replay that starts by itself or a backtest.              *)
LiveConfiguration(c, active) == active => ~c.backtest /\ c.auto # "start"

SessionsInit ==
  /\ config \in Configurations
  /\ link \in [active: BOOLEAN, changes: {0}]
  /\ LiveConfiguration(config, link.active)
  /\ rep \in ConfiguredReplay(config, link.active)
  /\ bt = NewBacktest
  /\ desk = [running |-> TRUE, serving |-> TRUE]

-----------------------------------------------------------------------------
(* The end of a run. *)

(* _persist_terminal(), once in a run. *)
PersistTerminal(b, outcome) ==
  IF b.persisted THEN {b}
  ELSE LET done == [b EXCEPT !.persisted = TRUE,
                             !.latest = [state |-> b.state, outcome |-> outcome,
                                         results |-> b.results]]
       IN {done, [done EXCEPT !.flagged = TRUE]}

(* _fail() *)
FailBacktest(b) ==
  IF b.state \in BacktestTerminal THEN {b}
  ELSE PersistTerminal([b EXCEPT !.state = "FAILED", !.flagged = TRUE], "FAILED")

CompleteBacktest(b) ==
  PersistTerminal([b EXCEPT !.state = "COMPLETED"],
                  IF b.flagged THEN "COMPLETED_WITH_FINDINGS" ELSE "PASSED")

(* _session_outcome(), with a position left open or not. *)
SessionOutcome(r, open) ==
  IF r.outcome = "STOPPED" THEN "STOPPED"
  ELSE IF r.state = "FAILED" \/ r.outcome \notin {"PASS", None} THEN "FAILED"
  ELSE IF open THEN "COMPLETED_WITH_FINDINGS" ELSE "PASSED"

SessionResult(b, r, open) ==
  [index |-> b.index, id |-> SessionId(r), published |-> r.published,
   outcome |-> SessionOutcome(r, open)]

(* _finish_session(): a session of the identity of the last one is taken    *)
(* for that one.                                                            *)
FinishSession(b, r) ==
  IF b.results # <<>> /\ b.results[Len(b.results)].id = SessionId(r) THEN {b}
  ELSE UNION {LET result == SessionResult(b, r, open)
                  noted == [b EXCEPT !.results = Append(@, result),
                                     !.flagged = @ \/ result.outcome = "FAILED"]
              IN IF result.outcome = "FAILED" /\ config.stops THEN FailBacktest(noted)
                 ELSE {noted} : open \in BOOLEAN}

-----------------------------------------------------------------------------
(* process_next(): the pairs of backtest and replay it may leave. *)

Pairs(bs, r) == {<<b, r>> : b \in bs}

(* A session that cannot be loaded is tried again. *)
LoadTriedAgain(b, r) ==
  UNION {Pairs(IF config.stops THEN FailBacktest(f) ELSE {[f EXCEPT !.index = @ - 1]}, r)
           : f \in FinishSession(b, r)}

(* A session that cannot be loaded is finished as it is. *)
LoadFailed(b, r) ==
  UNION {Pairs(IF config.stops THEN FailBacktest(f) ELSE {f}, r) : f \in FinishSession(b, r)}

(* _start_next_session(): everything is reset, then the next file is loaded *)
(* and started; a replay that does not start is an exception.               *)
StartNextSession(b) ==
  LET begun == [b EXCEPT !.index = @ + 1]
      path == config.sessions[begun.index]
  IN UNION {IF r.state = "FAILED" THEN LoadFailed(begun, r)
            ELSE IF Startable(r, link.active) THEN {<<begun, StartReplay(r, link.active)>>}
            ELSE Pairs(FailBacktest(begun), StartReplay(r, link.active))
              : r \in LoadSession(ResetReplay, path)}

(* A session whose replay stopped running is finished with what it has. *)
EndedOrInterrupted(r) == r.published > 0

EndedSession(r) == r.state \in ReplayTerminal

(* A replay that steps cannot be processed while it runs: an exception. *)
ProcessSession(b, r) ==
  IF config.steps THEN Pairs(FailBacktest(b), r)
  ELSE UNION {IF EndedSession(q) THEN Pairs(FinishSession(b, q), q) ELSE {<<b, q>>}
                : q \in ProcessNext(r)}

ProcessBacktest(b, r) ==
  IF r.state = "RUNNING" THEN ProcessSession(b, r)
  ELSE IF b.index >= Len(config.sessions) THEN Pairs(CompleteBacktest(b), r)
  ELSE StartNextSession(b)

(* HistoricalReplayDriver.poll() and DeterministicBacktestDriver.poll(). *)
ReplayDriver(r) ==
  IF config.replay /\ ~config.steps /\ r.state = "RUNNING" THEN ProcessNext(r) ELSE {r}

BacktestDriver(r) ==
  IF config.backtest /\ bt.state = "RUNNING" THEN ProcessBacktest(bt, r) ELSE {<<bt, r>>}

(* A session that ends stops the runtimes; one that begins resets them, and *)
(* starts an orchestrator that is not running.                              *)
DeskAfter(b) ==
  IF b.index > bt.index /\ Len(b.results) = Len(bt.results)
    THEN [running |-> TRUE, serving |-> TRUE]
  ELSE IF Len(b.results) > Len(bt.results)
    THEN [running |-> desk.running \/ b.index > bt.index, serving |-> FALSE]
  ELSE desk

(* VisionMainWindow.refresh() *)
Refresh ==
  \E q \in ReplayDriver(rep) : \E p \in BacktestDriver(q) :
    /\ bt' = p[1] /\ rep' = p[2]
    /\ desk' = DeskAfter(p[1])
    /\ UNCHANGED <<config, link>>

-----------------------------------------------------------------------------
(* The commands of the backtest panel; one that is refused is a finding. *)

Refused == bt' = [bt EXCEPT !.flagged = TRUE]

(* _manifest_fingerprint() of the first n sessions in turn: each is loaded  *)
(* where the replay engine is idle, and the engine is reset where it is     *)
(* not.  A load never leaves it idle, so that the two alternate.            *)
Fingerprinted(n) ==
  IF n = 0 THEN {rep}
  ELSE IF (n % 2 = 1) = (rep.state # "IDLE") THEN {ResetReplay}
  ELSE LoadSession(ResetReplay, config.sessions[n])

Readable == \A i \in DOMAIN config.sessions : FileAt(config.sessions[i]).content # "unreadable"

(* prepare() stops at the first file it cannot read. *)
Prepares ==
  \E n \in 0..Len(config.sessions) :
    /\ \A i \in 1..(n - 1) : FileAt(config.sessions[i]).content # "unreadable"
    /\ n = Len(config.sessions) \/ (n > 0 /\ FileAt(config.sessions[n]).content = "unreadable")
    /\ rep' \in Fingerprinted(n)

PrepareBacktest ==
  /\ IF bt.state # "IDLE" THEN Refused /\ rep' = rep
     ELSE /\ Prepares
          /\ IF Readable THEN bt' = [bt EXCEPT !.state = "READY"] ELSE Refused
  /\ UNCHANGED desk

StartBacktest ==
  /\ IF bt.state \notin {"IDLE", "READY"} THEN Refused /\ rep' = rep
     ELSE /\ IF bt.state = "IDLE" THEN Prepares ELSE rep' = rep
          /\ IF bt.state = "IDLE" /\ ~Readable THEN Refused
             ELSE bt' = [bt EXCEPT !.state = "RUNNING", !.index = 0, !.results = <<>>,
                                   !.persisted = FALSE]
  /\ UNCHANGED desk

PauseBacktest ==
  /\ IF bt.state # "RUNNING" THEN Refused /\ rep' = rep
     ELSE /\ bt' = [bt EXCEPT !.state = "PAUSED"]
          /\ rep' \in IF rep.state = "RUNNING" THEN PauseReplay(rep) ELSE {rep}
  /\ UNCHANGED desk

ResumeBacktest ==
  /\ IF bt.state # "PAUSED" THEN Refused /\ rep' = rep
     ELSE /\ bt' = [bt EXCEPT !.state = "RUNNING"]
          /\ rep' \in IF rep.state = "PAUSED" THEN ResumeReplay(rep) ELSE {rep}
  /\ UNCHANGED desk

(* stop(): the session that plays is finished as stopped. *)
StopBacktest ==
  IF bt.state \notin {"RUNNING", "PAUSED"} THEN Refused /\ UNCHANGED <<rep, desk>>
  ELSE \E p \in IF rep.state \in {"RUNNING", "PAUSED"}
                  THEN UNION {Pairs(FinishSession(bt, r), r) : r \in StopReplay(rep)}
                ELSE {<<bt, rep>>} :
         /\ bt' \in PersistTerminal([p[1] EXCEPT !.state = "STOPPED", !.flagged = TRUE], "STOPPED")
         /\ rep' = p[2]
         /\ desk' = DeskAfter(p[1])

ResetBacktest ==
  /\ bt' = NewBacktest /\ rep' = ResetReplay
  /\ desk' = [desk EXCEPT !.serving = desk.running]

BacktestCommand ==
  /\ config.backtest
  /\ PrepareBacktest \/ StartBacktest \/ PauseBacktest \/ ResumeBacktest \/ StopBacktest
       \/ ResetBacktest
  /\ UNCHANGED <<config, link>>

(* A caller of the replay engine, where there is no backtest. *)
ReplayCommand ==
  /\ ~config.backtest /\ config.replay
  /\ rep' \in ReplayCommands(rep, config.steps, link.active)
  /\ UNCHANGED <<config, bt, desk, link>>

-----------------------------------------------------------------------------
(* ApplicationOrchestrator.stop() ends a replay, not a backtest. *)
StopRuntimes ==
  /\ desk.running
  /\ rep' \in IF rep.state \in {"RUNNING", "PAUSED"} THEN StopReplay(rep) ELSE {rep}
  /\ desk' = [running |-> FALSE, serving |-> FALSE]
  /\ UNCHANGED <<config, bt, link>>

StartRuntimes ==
  /\ desk' = [running |-> TRUE, serving |-> TRUE]
  /\ UNCHANGED <<config, rep, bt, link>>

LiveChanges ==
  /\ link.changes < MaxLives
  /\ link' = [active |-> ~link.active, changes |-> link.changes + 1]
  /\ UNCHANGED <<config, rep, bt, desk>>

SessionsNext ==
  \/ Refresh
  \/ BacktestCommand
  \/ ReplayCommand
  \/ StopRuntimes
  \/ StartRuntimes
  \/ LiveChanges

(* The refresh timer of the window keeps firing. *)
SessionsSpec == SessionsInit /\ [][SessionsNext]_sessionVars /\ WF_sessionVars(Refresh)

-----------------------------------------------------------------------------
SessionsTypeOK ==
  /\ config \in Configurations
  /\ rep \in ReplaySession
  /\ bt.state \in BacktestLifecycleState
  /\ bt.index \in 0..Len(config.sessions)
  /\ \A i \in DOMAIN bt.results : bt.results[i] \in BacktestSessionResult
  /\ desk \in [running: BOOLEAN, serving: BOOLEAN]

(* A replay that ended has a report of that ending and of the records it    *)
(* published: all of them when it completed, whatever failed, was stopped   *)
(* or was reported before in the same engine.                               *)
EndedReplayIsReported ==
  rep.state \in ReplayTerminal =>
    /\ rep.outcome = OutcomeFor(rep)
    /\ rep.published = rep.cursor
    /\ rep.state = "COMPLETED" => rep.records > 0 /\ rep.published = rep.records

(* The report of a run says what the run did.  A session that passed was    *)
(* played from its first record to its last, sessions are reported in the   *)
(* order of the configuration and none twice, and a run that passed has no  *)
(* failed session.                                                          *)
ReportedAsPlayed ==
  /\ \A i \in DOMAIN bt.results :
       LET result == bt.results[i]
       IN /\ i > 1 => bt.results[i - 1].index < result.index
          /\ result.outcome \in {"PASSED", "COMPLETED_WITH_FINDINGS"} =>
               /\ result.index > 0
               /\ result.id = FileAt(config.sessions[result.index]).id
               /\ result.published = FileAt(config.sessions[result.index]).records
  /\ bt.state \in BacktestTerminal =>
       /\ bt.latest # None
       /\ bt.latest.state = bt.state /\ bt.latest.results = bt.results
       /\ bt.latest.outcome = "PASSED" =>
            \A i \in DOMAIN bt.results : bt.results[i].outcome # "FAILED"

(* What ends has its report, and the report says what was played. *)
EndingsAreReported == EndedReplayIsReported /\ ReportedAsPlayed

(* A backtest that runs ends or is paused, whatever its sessions do: the    *)
(* timer's refreshes are all it needs.                                      *)
BacktestEnds == (bt.state = "RUNNING") ~> (bt.state # "RUNNING")

(* What tests/test_deterministic_backtest_v1.py:312 says of a batch: its    *)
(* result holds every session of the configuration, in order.               *)
BatchIsComplete ==
  bt.state = "COMPLETED" =>
    [i \in DOMAIN bt.results |-> bt.results[i].index] = [i \in DOMAIN config.sessions |-> i]

(* What README.md:203 says: a live runtime that runs blocks the start of a  *)
(* backtest.                                                                *)
BacktestBlockedByLive ==
  [][bt.state \in {"IDLE", "READY"} /\ bt'.state = "RUNNING" => ~link.active]_sessionVars
=============================================================================
