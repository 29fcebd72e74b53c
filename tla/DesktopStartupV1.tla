--------------------------- MODULE DesktopStartupV1 ---------------------------
(***************************************************************************)
(* The desktop process from its settings to its shutdown                   *)
(* (application/desktop_live_data.py, reference_data_bootstrap.py,         *)
(* dashboard/application.py): create_dashboard_application builds one part *)
(* after the other, some of which it starts, some of which may fail        *)
(* without stopping the rest; the window owns what it was handed, and its  *)
(* shutdown stops that.  What the parts do while they run is in the        *)
(* modules of their own.                                                   *)
(***************************************************************************)
EXTENDS NoneValue, Integers, FiniteSets

CONSTANTS
  Settings,   \* environments: records of BOOLEAN, see Switches
  WeekDays,   \* days of a week, the last two without a session
  OpenAt, CloseAt, DayUnits, \* the session within a day, in half minutes
  MaxNow      \* bound on the time of the start

Switches == {"enabled", "autoConnect", "replayLoad", "replayStart", "backtest",
             "options", "optionStart", "futures", "reference"}

ASSUME SettingsAreSwitches == Settings \subseteq [Switches -> BOOLEAN]
ASSUME WeekIsSane ==
  /\ {WeekDays, OpenAt, CloseAt, DayUnits, MaxNow} \subseteq Nat
  /\ WeekDays > 2 /\ OpenAt < CloseAt /\ CloseAt < DayUnits

Parts == {"lifecycle", "feed", "replay", "futures", "options"}

VARIABLES
  setting, \* the settings in force
  stage,   \* what create_dashboard_application or the window does next
  on,      \* the parts that run
  owned,   \* the parts the window was handed
  login, \* a broker session was restored and validated
  bounds,  \* the reference data asked for: [now, previous, from, until]
  refusing \* history: the parts whose own stop raised at the shutdown

startupVars == <<setting, stage, on, owned, login, bounds, refusing>>

(* load_desktop_live_configuration: the combinations it refuses, and what a *)
(* disabled live feed switches off.  The replay's own configuration wants   *)
(* the file loaded before it starts.                                        *)
Accepted(s) ==
  /\ s.replayStart => s.replayLoad
  /\ ~(s.enabled /\ s.autoConnect /\ (s.replayStart \/ s.backtest))
  /\ s.options => s.enabled

Effective(s) ==
  IF s.enabled THEN s ELSE [s EXCEPT !.reference = FALSE, !.futures = FALSE]

StartupInit ==
  /\ \E s \in Settings : setting = Effective(s) /\ stage = IF Accepted(s) THEN "session" ELSE "failed"
  /\ on = {}
  /\ owned = {}
  /\ login = FALSE
  /\ bounds = None
  /\ refusing = {}

Continue(next) == stage' = next
Fails == stage' = "failed" /\ UNCHANGED <<setting, on, owned, login, bounds, refusing>>
Quiet == UNCHANGED <<setting, owned, refusing>>

-----------------------------------------------------------------------------
(* A variant: a login that failed goes on without a session. *)
AuthenticateTolerant ==
  /\ stage = "session"
  /\ login' \in (IF setting.enabled THEN BOOLEAN ELSE {FALSE})
  /\ Continue(IF setting.enabled THEN "runtime" ELSE "replay")
  /\ UNCHANGED <<on, bounds>> /\ Quiet

(* create_zerodha_session_manager: the stored token is restored, its        *)
(* profile read, and validated; any failure ends the start.                 *)
Authenticate ==
  /\ stage = "session"
  /\ \/ /\ setting.enabled
        /\ login' = TRUE
        /\ Continue("runtime")
        /\ UNCHANGED <<on, bounds>> /\ Quiet
     \/ setting.enabled /\ Fails
     \/ /\ ~setting.enabled
        /\ Continue("replay")
        /\ UNCHANGED <<on, bounds, login>> /\ Quiet

(* create_desktop_live_runtime: the application is started first, then the  *)
(* feed when it connects by itself; a failure leaves the application on.    *)
CreateRuntime ==
  /\ stage = "runtime"
  /\ \/ Fails
     \/ /\ on' = on \cup {"lifecycle"} \cup (IF setting.autoConnect THEN {"feed"} ELSE {})
        /\ Continue("replay")
        /\ UNCHANGED <<login, bounds>> /\ Quiet
     \/ /\ on' = on \cup {"lifecycle"}
        /\ Continue("failed")
        /\ UNCHANGED <<login, bounds>> /\ Quiet

(* _configure_historical_replay: a file that does not load fails the start  *)
(* only when the replay is to be started.                                   *)
ConfigureReplay ==
  /\ stage = "replay"
  /\ \/ /\ setting.replayStart /\ "feed" \notin on
        /\ on' = on \cup {"replay"}
        /\ Continue("reference")
        /\ UNCHANGED <<login, bounds>> /\ Quiet
     \/ setting.replayStart /\ Fails
     \/ /\ ~setting.replayStart
        /\ Continue("reference")
        /\ UNCHANGED <<on, login, bounds>> /\ Quiet

DayOfTime(now) == now \div DayUnits
TimeOfDay(now) == now % DayUnits
SessionDay(day) == day % WeekDays < WeekDays - 2

(* A variant: one day back, or one more when that has no session.           *)
PreviousDayOnce(day) == IF SessionDay(day - 1) THEN day - 1 ELSE day - 2

(* The last day before today that has a session.                            *)
PreviousDay(day) ==
  CHOOSE d \in day - WeekDays .. day - 1 :
    SessionDay(d) /\ \A e \in d + 1 .. day - 1 : ~SessionDay(e)

(* The last minute that is over; at a full minute, one before it.           *)
LastMinute(t) == IF t % 2 = 0 THEN t - 2 ELSE t - 1

(* resolve_reference_bootstrap_bounds: the previous session, and the minutes*)
(* of today's that are complete, if there are any.                          *)
Bounds(now) ==
  LET today == DayOfTime(now)
      t == TimeOfDay(now)
      end == IF t >= CloseAt THEN CloseAt ELSE LastMinute(t)
      current == SessionDay(today) /\ t >= OpenAt /\ end > OpenAt
  IN [now |-> now, previous |-> PreviousDay(today),
      from |-> IF current THEN today * DayUnits + OpenAt ELSE -1,
      until |-> IF current THEN today * DayUnits + end ELSE -1]

(* _try_reference_data_bootstrap: whatever it raises is dropped.            *)
LoadReference ==
  /\ stage = "reference"
  /\ \/ /\ setting.reference /\ login
        /\ \E now \in 0 .. MaxNow : bounds' = Bounds(now)
     \/ UNCHANGED bounds
  /\ Continue("futures")
  /\ UNCHANGED <<on, login>> /\ Quiet

(* The futures VWAP manager: it is wired before it starts, and one that     *)
(* fails to start is not handed to the window, although it may have         *)
(* subscribed by then.                                                      *)
StartFutures ==
  /\ stage = "futures"
  /\ Continue("options")
  /\ \/ /\ setting.futures /\ login
        /\ on' = on \cup {"futures"}
        /\ owned' \in {owned, owned \cup {"futures"}}
     \/ UNCHANGED <<on, owned>>
  /\ UNCHANGED <<setting, login, bounds, refusing>>

(* The option chain manager: a failure to create it ends the start, with    *)
(* everything before it running.                                            *)
StartOptions ==
  /\ stage = "options"
  /\ \/ /\ setting.options /\ login
        /\ on' = IF setting.optionStart THEN on \cup {"options"} ELSE on
        /\ owned' = owned \cup {"options"}
        /\ Continue("window")
        /\ UNCHANGED <<setting, login, bounds, refusing>>
     \/ setting.options /\ login /\ Fails
     \/ /\ ~(setting.options /\ login)
        /\ Continue("window")
        /\ UNCHANGED <<on, login, bounds>> /\ Quiet

(* DashboardApplication and run(): the application is started when it is    *)
(* not running; when that fails nothing is shut down.                       *)
RunWindow ==
  /\ stage = "window"
  /\ owned' = owned \cup {"lifecycle"} \cup (IF setting.enabled THEN {"feed"} ELSE {})
  /\ \/ on' = on \cup {"lifecycle"} /\ Continue("running")
     \/ "lifecycle" \notin on /\ on' = on /\ Continue("failed")
  /\ UNCHANGED <<setting, login, bounds, refusing>>

(* While the window is open a replay is started or ends, and the feed fails. *)
ReplaySwitches ==
  /\ stage = "running"
  /\ \/ setting.replayLoad /\ "feed" \notin on /\ on' = on \cup {"replay"}
     \/ on' = on \ {"replay"}
  /\ UNCHANGED <<setting, stage, owned, login, bounds, refusing>>

FeedFails ==
  /\ stage = "running"
  /\ on' = on \ {"feed"}
  /\ UNCHANGED <<setting, stage, owned, login, bounds, refusing>>

StopOrder == <<"options", "futures", "feed", "lifecycle">>
OrderOf(part) == CHOOSE i \in 1 .. 4 : StopOrder[i] = part
Stopping == owned \cap on

(* A variant: the first stop that raises ends the shutdown. *)
StoppedUntilError(raising) ==
  {p \in Stopping \ raising : \A q \in raising : OrderOf(p) < OrderOf(q)}

(* Every part is told to stop, whichever raised before it. *)
StoppedParts(raising) == Stopping \ raising

(* shutdown: the parts in order, the first error raised at the end.         *)
Shutdown ==
  /\ stage = "running"
  /\ \E raising \in SUBSET Stopping :
       /\ on' = on \ StoppedParts(raising)
       /\ refusing' = raising
  /\ Continue("closed")
  /\ UNCHANGED <<setting, owned, login, bounds>>

StartupNext ==
  \/ Authenticate \/ CreateRuntime \/ ConfigureReplay \/ LoadReference
  \/ StartFutures \/ StartOptions \/ RunWindow \/ ReplaySwitches \/ FeedFails
  \/ Shutdown

StartupSpec == StartupInit /\ [][StartupNext]_startupVars

-----------------------------------------------------------------------------
(* The shutdown leaves nothing on that the window owns, but a part whose    *)
(* own stop raised.  (DashboardApplication.shutdown.)                       *)
ShutdownReachesEverything ==
  stage = "closed" => owned \cap on \subseteq refusing

(* Nothing that needs the broker is on, and no reference data is asked for, *)
(* without a restored session, and a start that failed before it left       *)
(* nothing on.  (create_zerodha_session_manager comes first.)               *)
NothingLiveWithoutSession ==
  /\ ~login => on \cap {"feed", "futures", "options"} = {} /\ bounds = None
  /\ ~login /\ stage = "failed" => "lifecycle" \notin on

(* The reference data is the last session before today, however many days   *)
(* without one lie between, and only minutes of today that are over.        *)
(* (resolve_reference_bootstrap_bounds.)                                    *)
ReferenceIsOfClosedSessions ==
  bounds # None =>
    LET today == DayOfTime(bounds.now) IN
    /\ SessionDay(bounds.previous) /\ bounds.previous < today
    /\ \A d \in bounds.previous + 1 .. today - 1 : ~SessionDay(d)
    /\ bounds.from # -1 =>
         /\ SessionDay(today) /\ bounds.from = today * DayUnits + OpenAt
         /\ bounds.from < bounds.until /\ bounds.until <= bounds.now
         /\ bounds.until <= today * DayUnits + CloseAt

=============================================================================
