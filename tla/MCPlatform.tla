------------------------------ MODULE MCPlatform ------------------------------
(***************************************************************************)
(* Small instances of the platform around the trading components, each     *)
(* driven on its own through its whole interface while the others rest:    *)
(* the desktop's start and shutdown, the application and its runtimes, the *)
(* live shadow sessions over them, replays and backtests, and the          *)
(* validation of a live feed.                                              *)
(***************************************************************************)
EXTENDS DesktopStartupV1, LiveShadowV1, DeterministicBacktestV1, LiveValidationV1

CONSTANTS
  NIFTY, BANKNIFTY,
  MaxCalls,   \* bound on the application's and coordinator's calls around a live session
  MaxEvents,  \* bound on the events a validation session observes
  MaxWatches  \* bound on the validation sessions

VARIABLES
  driven, \* the part the behaviour is about
  calls   \* the calls or events so far, where they are bounded

platformVars == <<driven, calls, startupVars, liveVars, sessionVars, valVars>>

MCOrder == <<NIFTY, BANKNIFTY>>

(* Every setting of the switches. *)
MCSettings == {[w \in Switches |-> w \in s] : s \in SUBSET Switches}
Quietest == [w \in Switches |-> FALSE]

(* Three session files, of one and two records and one that is malformed,   *)
(* in the desktop's configurations of a backtest alone, of a replay alone,  *)
(* and of both.                                                             *)
MCPaths == {"first", "second", "broken"}

MCFileAt(p) ==
  CASE p = "first" -> [content |-> "ok", id |-> "first", records |-> 2]
    [] p = "second" -> [content |-> "ok", id |-> "second", records |-> 1]
    [] OTHER -> [content |-> "malformed", id |-> "broken", records |-> 1]

Desktop(backtest, replay, steps, stops, auto, sessions) ==
  [backtest |-> backtest, replay |-> replay, steps |-> steps, stops |-> stops, auto |-> auto,
   sessions |-> sessions]

MCConfigurations ==
  {Desktop(TRUE, FALSE, FALSE, s, "none", <<"first", "broken", "second">>) : s \in BOOLEAN}
    \cup {Desktop(FALSE, TRUE, s, FALSE, a, <<>>) : s \in BOOLEAN, a \in {"none", "load", "start"}}
    \cup {Desktop(TRUE, TRUE, s, FALSE, "load", <<"first", "second">>) : s \in BOOLEAN}

(* What the bus tells a validation session. *)
Event(name, component, symbol, at, body) ==
  [name |-> name, component |-> component, symbol |-> symbol, at |-> at, body |-> body]
MCFeedTicks == [symbol: Configured, time: 0..MaxTime, price: {1}]
MCBusEvents ==
  {Event("new_tick", "market_data", t.symbol, t.time, t) :
     t \in [symbol: {NIFTY, Foreign}, time: 0..MaxTime, price: {0, 1}]}
  \cup {Event("candle_closed", "candle", NIFTY, None,
              [symbol |-> NIFTY, start |-> s, end |-> s + w, fits |-> f, closed |-> TRUE]) :
          s \in {0, 1}, w \in {1, 2}, f \in BOOLEAN}
  \cup {Event("option_chain_ready", "option_chain", NIFTY, t,
              [symbol |-> NIFTY, time |-> t, shape |-> h, expiry |-> e]) :
          t \in {0, 1}, h \in {"invalid", "one sided", "whole"}, e \in {1, 2}}
  \cup {Event("cpr_updated", "cpr", None, None, f) : f \in BOOLEAN}
  \cup {Event("vwap_updated", "vwap", NIFTY, 0, f) : f \in BOOLEAN}
  \cup {Event("paper_trade_recorded", "paper_trading", None, None, 0),
        Event("performance_analytics_updated", "performance_analytics", None, None, 0)}

PlatformInit ==
  /\ driven \in {"startup", "application", "live", "sessions", "validation"}
  /\ calls = 0
  /\ StartupInit /\ LiveInit /\ SessionsInit /\ ValInit
  /\ faults = IF driven = "application" THEN 0 ELSE MaxFaults
  /\ driven = "startup" \/ setting = Effective(Quietest)
  /\ driven = "sessions"
       \/ (config = Desktop(FALSE, TRUE, FALSE, FALSE, "none", <<>>) /\ ~link.active)

Counted(bound) == calls < bound /\ calls' = calls + 1

StartupSteps ==
  driven = "startup" /\ StartupNext /\ UNCHANGED <<driven, calls, liveVars, sessionVars, valVars>>

ApplicationSteps ==
  /\ driven = "application" /\ AppNext
  /\ UNCHANGED <<driven, calls, adapter, live, startupVars, sessionVars, valVars>>

(* A live session is one of both instruments, and only one of them trades.  *)
Restrained ==
  /\ live'.active \in {{}, Instruments}
  /\ app'.runs[BANKNIFTY].paper = "none" /\ app'.runs[BANKNIFTY].session # "own"
  /\ \A tick \in adapter'.seen : tick[1] = NIFTY

LiveSteps ==
  /\ driven = "live"
  /\ \/ (Application \/ Coordinator) /\ Counted(MaxCalls)
     \/ (Adapter \/ OnTicks) /\ UNCHANGED calls
  /\ Restrained
  /\ UNCHANGED <<driven, startupVars, sessionVars, valVars>>

SessionsSteps(A) ==
  driven = "sessions" /\ A /\ UNCHANGED <<driven, calls, startupVars, liveVars, valVars>>

ValidationSteps ==
  /\ driven = "validation"
  /\ \/ Observation /\ Counted(MaxEvents)
     \/ /\ UNCHANGED calls
        /\ \/ watch.id < MaxWatches /\ \E s \in SUBSET Configured : StartValidation(s)
           \/ Tock
  /\ UNCHANGED <<driven, startupVars, liveVars, sessionVars>>

PlatformNext ==
  \/ StartupSteps \/ ApplicationSteps \/ LiveSteps
  \/ SessionsSteps(SessionsNext)
  \/ ValidationSteps

(* The window's timer keeps firing. *)
PlatformSpec ==
  PlatformInit /\ [][PlatformNext]_platformVars /\ WF_platformVars(SessionsSteps(Refresh))
=============================================================================
