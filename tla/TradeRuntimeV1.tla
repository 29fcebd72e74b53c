---------------------------- MODULE TradeRuntimeV1 ----------------------------
(***************************************************************************)
(* application/trade_lifecycle_runtime_integration_v1: one trade lifecycle *)
(* coordinator for each instrument behind one integration, which validates,*)
(* starts and stops them together, routes requests, fills, prices and      *)
(* exits, and remembers the snapshot each coordinator returned last.       *)
(*                                                                         *)
(* A coordinator is abstracted from TradeLifecycleV1: quantities and       *)
(* prices are left out, a fill is partial or complete, and a fill price    *)
(* suits a position or does not.  Positions of an instrument are numbered  *)
(* in the order they are opened.  Routing counters are left out; so are    *)
(* repetitions of the last request and the last price, which move only     *)
(* them.                                                                   *)
(***************************************************************************)
EXTENDS NoneValue, Integers, Sequences, FiniteSets

CONSTANTS
    InstrumentOrder,  \* the enabled instruments, in the order they were registered
    TradesOf,         \* instrument -> requests whose risk decision is approved
    FillsAtOnce,      \* what a submission may fill at once: "NONE", "PART", "ALL"
    MaxOpened         \* bound: positions opened by each coordinator

Instruments == {InstrumentOrder[n] : n \in DOMAIN InstrumentOrder}
Trades      == UNION {TradesOf[i] : i \in Instruments}

ASSUME RuntimeAssumption ==
    /\ \A m, n \in DOMAIN InstrumentOrder :
         m # n => InstrumentOrder[m] # InstrumentOrder[n]
    /\ DOMAIN TradesOf = Instruments
    /\ None \notin Trades
    /\ FillsAtOnce \subseteq {"NONE", "PART", "ALL"}
    /\ MaxOpened \in Nat

VARIABLES
    appStatus,      \* application_lifecycle.status
    runtimeStatus,  \* _status
    fillAtOnce,     \* the fill policy of the coordinators, fixed at construction
    coordinators,   \* registry: instrument -> coordinator
    lastSnapshot    \* _instrument_state[instrument].last_snapshot, or None

runtimeVars == <<appStatus, runtimeStatus, fillAtOnce, coordinators, lastSnapshot>>

AppStatuses     == {"CREATED", "RUNNING", "STOPPED", "ERROR"}
RuntimeStatuses == {"CREATED", "READY", "RUNNING", "STOPPED", "CLEARED", "ERROR"}
CoordinatorStatuses == RuntimeStatuses
CoordinatorStages ==
    {"IDLE", "NOT_EXECUTED", "EXECUTION", "POSITION_OPEN", "POSITION_PARTIALLY_CLOSED",
     "POSITION_CLOSED"}

Serial == 0 .. MaxOpened    \* 0 is no position

\* An execution in flight; what an execution that ended left in the caches, with the
\* position that was opened from its final result; position_result of a coordinator.
OpenIntent == [trade : Trades, filled : BOOLEAN, suits : BOOLEAN]
Ended      == [filled : BOOLEAN, suits : BOOLEAN, opening : Serial]
Reported   == [position : Serial, open : BOOLEAN]

Coordinator ==
    [status : CoordinatorStatuses,
     intent : OpenIntent \cup {None},
     ended  : [Trades -> Ended \cup {None}],
     opened : Serial,                       \* positions opened so far
     held   : Serial,                       \* the position now held
     last   : Trades \cup {None, "WAIT"},   \* _last_request
     stage  : CoordinatorStages,
     report : Reported \cup {None}]         \* _position_result

\* TradeLifecycleV1Snapshot: what the integration and the journal read of it.
Snapshot ==
    [running : BOOLEAN, executing : BOOLEAN, holding : BOOLEAN,
     stage : CoordinatorStages, report : Reported \cup {None}]

View(c) ==
    [running |-> c.status = "RUNNING", executing |-> c.intent # None,
     holding |-> c.held # 0, stage |-> c.stage, report |-> c.report]

-------------------------------------------------------------------------------
(* The coordinator.  Each operator gives the coordinator after the call.   *)

NewCoordinator ==
    [status |-> "CREATED", intent |-> None, ended |-> [t \in Trades |-> None],
     opened |-> 0, held |-> 0, last |-> None, stage |-> "IDLE", report |-> None]

Opens(c) ==
    [c EXCEPT !.opened = @ + 1, !.held = c.opened + 1, !.stage = "POSITION_OPEN",
              !.report = [position |-> c.opened + 1, open |-> TRUE]]

\* The execution of trade t is over; its final result opened this position, or 0.
Ends(c, t, filled, suits, opening) ==
    [c EXCEPT !.intent = None,
              !.ended[t] = [filled |-> filled, suits |-> suits, opening |-> opening]]

Executing(c, t, filled, suits) ==
    [c EXCEPT !.intent = [trade |-> t, filled |-> filled, suits |-> suits],
              !.stage = "EXECUTION"]

\* Exits the held position, wholly or in part.
ExitsAll(c) ==
    [c EXCEPT !.held = 0, !.stage = "POSITION_CLOSED",
              !.report = [position |-> c.held, open |-> FALSE]]
ExitsPart(c) ==
    [c EXCEPT !.stage = "POSITION_PARTIALLY_CLOSED",
              !.report = [position |-> c.held, open |-> TRUE]]

Idle(c) == c.status = "RUNNING" /\ c.intent = None /\ c.held = 0

\* A trade equal to the last request is refused; different requests that wait are
\* not told apart.
MayProcess(c, t) == Idle(c) /\ c.last # t

\* process of an approved trade the execution runtime has not seen; an immediate
\* fill is made at the entry price, which suits a position.
ProcessedFresh(c, t) ==
    LET asked == [c EXCEPT !.last = t]
    IN  CASE fillAtOnce = "NONE" -> Executing(asked, t, FALSE, FALSE)
          [] fillAtOnce = "PART" -> Opens(Executing(asked, t, TRUE, TRUE))
          [] fillAtOnce = "ALL"  -> Ends(Opens(asked), t, TRUE, TRUE, c.opened + 1)

\* A faulty form: a trade that was executed before is executed again.
ProcessedAgain(c, t) == ProcessedFresh(c, t)

\* process of a trade that was executed before: the execution runtime answers from
\* its cache, and so does the position engine if it opened a position from that.
CachedRaises(c, t) ==
    c.ended[t].filled /\ c.ended[t].opening = 0 /\ ~c.ended[t].suits

ProcessedCached(c, t) ==
    LET asked == [c EXCEPT !.last = t]
        e == c.ended[t]
    IN  CASE ~e.filled -> [asked EXCEPT !.stage = "EXECUTION"]
          [] e.filled /\ e.opening # 0 ->
               [asked EXCEPT !.stage = "POSITION_OPEN",
                             !.report = [position |-> e.opening, open |-> TRUE]]
          [] e.filled /\ e.opening = 0 /\ e.suits ->
               Ends(Opens(asked), t, TRUE, TRUE, c.opened + 1)
          [] OTHER -> [c EXCEPT !.stage = "EXECUTION"]

\* confirm_execution_fill; a price that does not suit raises after the fill.
Confirmed(c, complete, suits) ==
    LET t == c.intent.trade
    IN  CASE complete /\ suits   -> Ends(Opens(c), t, TRUE, TRUE, c.opened + 1)
          [] complete /\ ~suits  -> Ends([c EXCEPT !.stage = "EXECUTION"], t, TRUE, FALSE, 0)
          [] ~complete /\ suits  -> Opens(Executing(c, t, TRUE, TRUE))
          [] OTHER               -> Executing(c, t, TRUE, FALSE)

\* update_position_price, by what the price does to the position.
Priced(c, effect) ==
    CASE c.held = 0 -> [c EXCEPT !.stage = "POSITION_OPEN",
                                 !.report = [position |-> 0, open |-> FALSE]]
      [] c.held # 0 /\ effect = "HOLD" ->
           [c EXCEPT !.stage = "POSITION_OPEN", !.report = [position |-> c.held, open |-> TRUE]]
      [] c.held # 0 /\ effect = "PARTIAL_EXIT" -> ExitsPart(c)
      [] c.held # 0 /\ effect = "FULL_EXIT"    -> ExitsAll(c)

-------------------------------------------------------------------------------
RuntimeInit ==
    /\ appStatus \in {"CREATED", "RUNNING"}
    /\ runtimeStatus = "CREATED"
    /\ fillAtOnce \in FillsAtOnce
    /\ coordinators = [i \in Instruments |-> NewCoordinator]
    /\ lastSnapshot = [i \in Instruments |-> None]

\* The application is started, stopped or fails on its own, whatever is traded.
ApplicationMoves ==
    /\ appStatus' \in AppStatuses \ {"CREATED", appStatus}
    /\ UNCHANGED <<runtimeStatus, fillAtOnce, coordinators, lastSnapshot>>

\* coordinator.validate on each in order: the first that holds a position raises,
\* those before it are READY, those after it as they were.
Holding(i) == coordinators[i].held # 0
ValidationFails == \E i \in Instruments : Holding(i)

Validated ==
    LET before(n) == \E m \in 1 .. n - 1 : Holding(InstrumentOrder[m])
        position(i) == CHOOSE n \in DOMAIN InstrumentOrder : InstrumentOrder[n] = i
    IN  [i \in Instruments |->
           CASE before(position(i)) -> coordinators[i]
             [] ~before(position(i)) /\ Holding(i) -> [coordinators[i] EXCEPT !.status = "ERROR"]
             [] OTHER -> [coordinators[i] EXCEPT !.status = "READY"]]

RuntimeValidate ==
    /\ IF appStatus = "ERROR" THEN UNCHANGED coordinators ELSE coordinators' = Validated
    /\ runtimeStatus' = IF appStatus = "ERROR" \/ ValidationFails THEN "ERROR" ELSE "READY"
    /\ UNCHANGED <<appStatus, fillAtOnce, lastSnapshot>>

\* A faulty form: the coordinators' own state is not looked at.
StartUnvalidated ==
    /\ runtimeStatus # "RUNNING"
    /\ coordinators' = [i \in Instruments |->
         IF Holding(i) THEN coordinators[i] ELSE [coordinators[i] EXCEPT !.status = "RUNNING"]]
    /\ runtimeStatus' = "RUNNING"
    /\ UNCHANGED <<appStatus, fillAtOnce, lastSnapshot>>

\* start: validate, then the application must run, then every coordinator starts.
RuntimeStart ==
    /\ runtimeStatus # "RUNNING"
    /\ IF appStatus = "RUNNING" /\ ~ValidationFails
       THEN /\ coordinators' =
                 [i \in Instruments |->
                    [coordinators[i] EXCEPT !.status = "RUNNING", !.stage = "IDLE"]]
            /\ runtimeStatus' = "RUNNING"
       ELSE /\ IF appStatus = "ERROR" THEN UNCHANGED coordinators ELSE coordinators' = Validated
            /\ runtimeStatus' = "ERROR"
    /\ UNCHANGED <<appStatus, fillAtOnce, lastSnapshot>>

Flat == \A i \in Instruments : coordinators[i].intent = None /\ coordinators[i].held = 0

\* stop: all coordinators or none.
RuntimeStop ==
    /\ runtimeStatus # "STOPPED"
    /\ Flat
    /\ coordinators' = [i \in Instruments |-> [coordinators[i] EXCEPT !.status = "STOPPED"]]
    /\ runtimeStatus' = "STOPPED"
    /\ UNCHANGED <<appStatus, fillAtOnce, lastSnapshot>>

\* What the integration's own snapshot says of instrument i.
Published(i) == IF lastSnapshot[i] = None THEN View(coordinators[i]) ELSE lastSnapshot[i]

\* clear asks the published snapshot; the remembered ones stay.
RuntimeClear ==
    /\ runtimeStatus = "STOPPED"
    /\ \A i \in Instruments : ~Published(i).executing /\ ~Published(i).holding
    /\ runtimeStatus' = "CLEARED"
    /\ UNCHANGED <<appStatus, fillAtOnce, coordinators, lastSnapshot>>

\* A faulty form: the coordinator itself is remembered.
RecordCoordinator(i, c) == lastSnapshot' = [lastSnapshot EXCEPT ![i] = c]

\* _record_instrument
RecordInstrument(i, c) == lastSnapshot' = [lastSnapshot EXCEPT ![i] = View(c)]

\* _require_running
Routable == runtimeStatus = "RUNNING" /\ appStatus = "RUNNING"

\* The coordinator of i answers a routed call as c; or it raises, having become c.
Routed(i, c) ==
    /\ c.opened \in Serial
    /\ coordinators' = [coordinators EXCEPT ![i] = c]
    /\ RecordInstrument(i, c)
    /\ UNCHANGED <<appStatus, runtimeStatus, fillAtOnce>>

RoutedRaises(i, c) ==
    /\ coordinators' = [coordinators EXCEPT ![i] = c]
    /\ UNCHANGED <<appStatus, runtimeStatus, fillAtOnce, lastSnapshot>>

\* route_context: a request that stops at a gate ("WAIT"), or an approved trade.
RouteWaiting(i) ==
    /\ Routable /\ Idle(coordinators[i])
    /\ Routed(i, [coordinators[i] EXCEPT !.last = "WAIT", !.stage = "NOT_EXECUTED"])

RouteTrade(i, t) ==
    LET c == coordinators[i]
    IN  /\ Routable /\ MayProcess(c, t)
        /\ IF c.ended[t] = None THEN Routed(i, ProcessedFresh(c, t))
           ELSE IF CachedRaises(c, t) THEN RoutedRaises(i, ProcessedCached(c, t))
                ELSE Routed(i, ProcessedCached(c, t))

RouteContext(i) == RouteWaiting(i) \/ \E t \in TradesOf[i] : RouteTrade(i, t)

\* A faulty form: what a fill returned is not remembered.
RouteFillUnrecorded(i, complete, suits) ==
    LET c == coordinators[i]
    IN  /\ Routable /\ c.status = "RUNNING" /\ c.intent # None /\ c.held = 0
        /\ Confirmed(c, complete, suits).opened \in Serial
        /\ RoutedRaises(i, Confirmed(c, complete, suits))

RouteFill(i, complete, suits) ==
    LET c == coordinators[i]
    IN  /\ Routable /\ c.status = "RUNNING" /\ c.intent # None /\ c.held = 0
        /\ IF suits THEN Routed(i, Confirmed(c, complete, suits))
           ELSE RoutedRaises(i, Confirmed(c, complete, suits))

\* route_position_price, partial_exit_position and close_position
RoutePrice(i, effect) == Routable /\ Routed(i, Priced(coordinators[i], effect))

RoutePartialExit(i) == Routable /\ Holding(i) /\ Routed(i, ExitsPart(coordinators[i]))

RouteClose(i) == Routable /\ Holding(i) /\ Routed(i, ExitsAll(coordinators[i]))

\* cancel_active is reachable through the execution runtime a coordinator exposes.
CancelBehind(i) ==
    LET c == coordinators[i]
    IN  /\ c.intent # None
        /\ RoutedRaises(i, Ends(c, c.intent.trade, c.intent.filled, c.intent.suits, 0))

RuntimeNext ==
    \/ ApplicationMoves \/ RuntimeValidate \/ RuntimeStart \/ RuntimeStop \/ RuntimeClear
    \/ \E i \in Instruments :
         \/ RouteContext(i)
         \/ \E complete, suits \in BOOLEAN : RouteFill(i, complete, suits)
         \/ \E effect \in {"HOLD", "PARTIAL_EXIT", "FULL_EXIT"} : RoutePrice(i, effect)
         \/ RoutePartialExit(i) \/ RouteClose(i) \/ CancelBehind(i)

RuntimeSpec == RuntimeInit /\ [][RuntimeNext]_runtimeVars

-------------------------------------------------------------------------------
RuntimeTypeOK ==
    /\ appStatus \in AppStatuses
    /\ runtimeStatus \in RuntimeStatuses
    /\ fillAtOnce \in FillsAtOnce
    /\ coordinators \in [Instruments -> Coordinator]
    /\ lastSnapshot \in [Instruments -> Snapshot \cup {None}]

\* The published snapshot is the one each coordinator returned last, while calls
\* that raised and a cancellation have gone past it.  It may still show exposure
\* that is gone; it never hides exposure that is there.
NeverUnderstatesExposure ==
    \A i \in Instruments :
        /\ coordinators[i].intent # None => Published(i).executing
        /\ coordinators[i].held # 0      => Published(i).holding

\* A RUNNING integration has only running coordinators and a stopped one none;
\* nothing is in flight or held unless the integration was started and not
\* stopped since.  Starting and validating work through the coordinators one
\* by one and may fail half-way.
CoordinatorsFollow ==
    /\ runtimeStatus = "RUNNING" => \A i \in Instruments : coordinators[i].status = "RUNNING"
    /\ runtimeStatus \in {"CREATED", "STOPPED", "CLEARED"} =>
         Flat /\ \A i \in Instruments : coordinators[i].status # "RUNNING"

\* An instrument's execution in flight and its position never belong to different
\* trades, and a trade in flight has no final result yet.
OneTradeInHand ==
    \A i \in Instruments :
        LET c == coordinators[i]
        IN  c.intent # None =>
              /\ c.ended[c.intent.trade] = None
              /\ c.held # 0 => \A t \in Trades :
                   c.ended[t] # None => c.ended[t].opening # c.held

\* The integration and its coordinators stay in step: started, stopped and validated one
\* by one they end up where the integration says they are, and none of them ever has two
\* trades in hand, also when validation fails half-way or a call raises after a
\* fill (integration.py).
CoordinatorsStayInStep == RuntimeTypeOK /\ CoordinatorsFollow /\ OneTradeInHand
===============================================================================
