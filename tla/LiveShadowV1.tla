----------------------------- MODULE LiveShadowV1 -----------------------------
(***************************************************************************)
(* Live shadow sessions: the read-only Zerodha adapter, whose connection   *)
(* answers when it likes, the coordinator that observes the adapter's      *)
(* ticks over the shadow sessions of several runtimes, and the application *)
(* under both, which is started, stopped and reset by others meanwhile.    *)
(***************************************************************************)
EXTENDS ApplicationLifecycleV1

CONSTANTS
  Sessions,    \* the live sessions a request may name
  Ticks,       \* the ticks of each instrument, told apart by what they carry
  MaxReceived  \* bound on the ticks the adapter receives

\* "own" is the session a user begins in a runtime, which is none of these.
ASSUME SessionsAreNamed == {"own", None} \cap Sessions = {}

VARIABLES
  adapter, \* the adapter: [state, auth, resolved, wired, subscribed, seen, counts]
  live     \* the coordinator: [state, session, active, degraded, seen, counts, report]

AdapterState ==
  {"CREATED", "READY", "CONNECTING", "CONNECTED", "DISCONNECTED", "FAILED", "STOPPED"}

LiveState ==
  {"CREATED", "READY", "RUNNING", "STOPPING", "COMPLETED", "FAILED", "STOPPED"}

LiveEnded == {"FAILED", "STOPPED", "COMPLETED"}

(* Each runtime's shadow session carries the live session's name. *)
LiveShadowReport == [session: Sessions, active: SUBSET Instruments, status: SessionStatus]

NoCounts == [received |-> 0, published |-> 0, rejected |-> 0, duplicates |-> 0]

NewAdapter ==
  [state |-> "CREATED", auth |-> FALSE, resolved |-> FALSE, wired |-> FALSE, subscribed |-> {},
   seen |-> {}, counts |-> NoCounts]

NoTicks == [i \in Instruments |-> [accepted |-> 0, rejected |-> 0]]

NewLive ==
  [state |-> "CREATED", session |-> None, active |-> {}, degraded |-> FALSE, seen |-> {},
   counts |-> NoTicks, report |-> None]

LiveInit == AppInit /\ adapter = NewAdapter /\ live = NewLive

-----------------------------------------------------------------------------
(* The adapter: its commands, then what the client calls back. *)

AdapterTerminal == adapter.state \in {"STOPPED", "FAILED"}

OnAdapter(a) == adapter' = a /\ UNCHANGED <<appVars, live>>

AdapterFails == OnAdapter([adapter EXCEPT !.state = "FAILED"])

ConfigureCredentials ==
  \/ OnAdapter([adapter EXCEPT !.auth = TRUE, !.state = IF @ = "CREATED" THEN "READY" ELSE @])
  \/ OnAdapter([adapter EXCEPT !.auth = FALSE, !.state = "FAILED"])

LoadInstrumentTokens == OnAdapter([adapter EXCEPT !.resolved = TRUE]) \/ AdapterFails

(* The client is given the callbacks, and its connect() may raise. *)
Connect ==
  /\ adapter.state \notin {"STOPPED", "FAILED", "CONNECTING", "CONNECTED"}
  /\ \/ ~adapter.auth /\ AdapterFails
     \/ /\ adapter.auth
        /\ \E state \in {"CONNECTING", "FAILED"} :
             OnAdapter([adapter EXCEPT !.state = state, !.wired = TRUE])

Closed == [adapter EXCEPT !.state = IF @ = "CONNECTED" THEN "DISCONNECTED" ELSE @]

Disconnect == OnAdapter(Closed)

StopAdapter ==
  /\ adapter.state \in {"READY", "CONNECTING", "CONNECTED", "DISCONNECTED"}
  /\ OnAdapter([adapter EXCEPT !.state = "STOPPED"])

(* The tokens stay resolved, and the client keeps the callbacks. *)
AdapterReset ==
  [NewAdapter EXCEPT !.state = IF AdapterTerminal THEN "READY" ELSE adapter.state,
                     !.resolved = adapter.resolved, !.wired = adapter.wired]

ResetAdapter == OnAdapter(AdapterReset)

(* What the client calls back, until the adapter fails or stops. *)
Answers == adapter.wired /\ ~AdapterTerminal

OnConnect == Answers /\ OnAdapter([adapter EXCEPT !.state = "CONNECTED"])

OnClose == Answers /\ OnAdapter([adapter EXCEPT !.state = "DISCONNECTED"])

OnError == Answers /\ AdapterFails

Adapter ==
  \/ ConfigureCredentials \/ LoadInstrumentTokens \/ Connect \/ Disconnect \/ StopAdapter
  \/ ResetAdapter \/ OnConnect \/ OnClose \/ OnError

-----------------------------------------------------------------------------
(* Ticks: through the adapter and the runtime to the coordinator. *)

(* observe_tick(): once per tick, while the session runs. *)
Observing(i, k) ==
  /\ live.state = "RUNNING" /\ i \in live.active /\ <<i, k>> \notin live.seen

TickObserved(i, k, kind) ==
  IF Observing(i, k)
  THEN live' = [live EXCEPT !.seen = @ \cup {<<i, k>>}, !.counts[i][kind] = @ + 1]
  ELSE UNCHANGED live

Tallied(kind, seen) ==
  adapter' = [adapter EXCEPT !.seen = @ \cup seen,
                             !.counts = [@ EXCEPT !.received = @ + 1, ![kind] = @ + 1]]

Receiving == adapter.state = "CONNECTED" /\ adapter.counts.received < MaxReceived

DuplicateTick(i, k) ==
  /\ Receiving /\ adapter.resolved /\ <<i, k>> \in adapter.seen
  /\ Tallied("duplicates", {})
  /\ UNCHANGED <<appVars, live>>

(* A tick that is not recognised, or whose consumer raises because the      *)
(* orchestrator or the runtime does not run, is received and rejected.      *)
RejectedTick(i, k) ==
  /\ Receiving
  /\ \/ ~adapter.resolved /\ Tallied("rejected", {})
     \/ /\ adapter.resolved /\ <<i, k>> \notin adapter.seen /\ ~Processing(i)
        /\ Tallied("rejected", {<<i, k>>})
  /\ UNCHANGED <<appVars, live>>

(* The market data engine refuses a tick that is out of order. *)
RefusedTick(i, k) ==
  /\ Receiving /\ adapter.resolved /\ <<i, k>> \notin adapter.seen /\ app.status = "RUNNING"
  /\ Tallied("published", {<<i, k>>})
  /\ TickObserved(i, k, "rejected")
  /\ UNCHANGED appVars

AcceptedTick(i, k) ==
  /\ Receiving /\ adapter.resolved /\ <<i, k>> \notin adapter.seen /\ Processing(i)
  /\ Tallied("published", {<<i, k>>})
  /\ TickObserved(i, k, "accepted")
  /\ \E r \in PaperTicked(app.runs[i]) :
       \E o \in IF Observing(i, k) THEN Observed(r) ELSE {r} : Runs(i, o)
  /\ UNCHANGED <<life, faults>>

(* A batch that is no batch is rejected without being received. *)
MalformedBatch ==
  /\ Receiving /\ adapter.counts.rejected < MaxReceived
  /\ OnAdapter([adapter EXCEPT !.counts.rejected = @ + 1])

OnTicks ==
  \/ MalformedBatch
  \/ \E i \in Instruments, k \in Ticks :
       DuplicateTick(i, k) \/ RejectedTick(i, k) \/ RefusedTick(i, k) \/ AcceptedTick(i, k)

-----------------------------------------------------------------------------
(* The coordinator. *)

FailedLive == [live EXCEPT !.state = "FAILED"]

LinkReady == adapter.auth /\ adapter.resolved /\ adapter.state = "CONNECTED"

(* The requested runtimes before the first that refuses. *)
Begun(runs, which, s) ==
  {i \in which :
     \A p \in DOMAIN Order :
       (Order[p] \in which /\ ~ShadowStartable(runs[Order[p]], s)) =>
          \E q \in 1..(p - 1) : Order[q] = i}

(* A start that fails ends what it began, and forgets the session.  The     *)
(* client may refuse the subscription.                                      *)
StartLiveSession(s, which) ==
  /\ live.state \notin LiveEnded \cup {"RUNNING"}
  /\ \E o \in IF app.status = "RUNNING" THEN {[app |-> app, ok |-> TRUE]} ELSE OrchestratorStart(app) :
       LET begun == IF o.ok /\ LinkReady THEN Begun(o.app.runs, which, s) ELSE {}
           runs == [i \in Instruments |->
                      IF i \in begun THEN ShadowStarted(o.app.runs[i], s) ELSE o.app.runs[i]]
       IN /\ \/ /\ begun = which
                /\ app' = [o.app EXCEPT !.runs = runs]
                /\ adapter' = [adapter EXCEPT !.subscribed = @ \cup which]
                /\ live' = [live EXCEPT !.state = "RUNNING", !.session = s, !.active = which,
                                        !.degraded = FALSE, !.seen = {}, !.counts = NoTicks]
             \/ /\ app' = [o.app EXCEPT !.runs =
                             [i \in Instruments |->
                                IF i \in begun THEN ShadowStopped(runs[i]) ELSE runs[i]]]
                /\ live' = [FailedLive EXCEPT !.session = None, !.active = {}]
                /\ UNCHANGED adapter
          /\ faults' = IF o.ok THEN faults ELSE faults + 1
  /\ UNCHANGED life

ObserveConnection ==
  /\ live.state = "RUNNING"
  /\ \/ adapter.state = "DISCONNECTED" /\ live' = [live EXCEPT !.degraded = TRUE]
     \/ AdapterTerminal /\ live' = FailedLive
  /\ UNCHANGED <<appVars, adapter>>

SummaryOf(r) == ShadowStopped(r).summary

LiveStatus(runs) ==
  LET statuses == {SummaryOf(runs[i]).status : i \in live.active}
  IN IF live.state = "FAILED" THEN "FAILED"
     ELSE IF "DEGRADED" \in statuses \/ live.degraded THEN "DEGRADED"
     ELSE IF statuses = {"BLOCKED"} THEN "BLOCKED"
     ELSE IF \/ "HEALTHY_WITH_WARNINGS" \in statuses
             \/ \E i \in Instruments : live.counts[i].rejected > 0
             \/ adapter.counts.duplicates > 0 THEN "HEALTHY_WITH_WARNINGS"
     ELSE "HEALTHY"

Stoppable ==
  /\ live.session # None
  /\ ~(live.report # None /\ live.state \in {"COMPLETED", "FAILED"})

(* A stop that raises leaves the session stopping: the application may be   *)
(* stopped, a runtime may know of no session, the client may not close.     *)
StopRaises ==
  /\ live' = [live EXCEPT !.state = IF @ = "FAILED" THEN @ ELSE "STOPPING"]
  /\ LET stopped ==
           {i \in live.active :
              /\ app.status = "RUNNING"
              /\ \A p \in DOMAIN Order :
                   (Order[p] \in live.active /\ ~ShadowStoppable(app.runs[Order[p]])) =>
                      \E q \in 1..(p - 1) : Order[q] = i}
     IN /\ stopped = live.active => adapter.state = "CONNECTED"
        /\ app' = [app EXCEPT !.runs = [i \in Instruments |->
                     IF i \in stopped THEN ShadowStopped(@[i]) ELSE @[i]]]
  /\ UNCHANGED adapter

(* A variant: the sessions of the runtimes are left to run. *)
StopCompletesAlone ==
  /\ app.status = "RUNNING" /\ \A i \in live.active : ShadowStoppable(app.runs[i])
  /\ UNCHANGED app
  /\ adapter' = Closed
  /\ live' = [live EXCEPT !.state = IF @ = "FAILED" THEN @ ELSE "COMPLETED",
                          !.session = None, !.active = {},
                          !.report = [session |-> live.session, active |-> live.active,
                                      status |-> LiveStatus(app.runs)]]

StopCompletes ==
  /\ app.status = "RUNNING" /\ \A i \in live.active : ShadowStoppable(app.runs[i])
  /\ app' = [app EXCEPT !.runs = [i \in Instruments |->
               IF i \in live.active THEN ShadowStopped(@[i]) ELSE @[i]]]
  /\ adapter' = Closed
  /\ live' = [live EXCEPT !.state = IF @ = "FAILED" THEN @ ELSE "COMPLETED",
                          !.session = None, !.active = {},
                          !.report = [session |-> live.session, active |-> live.active,
                                      status |-> LiveStatus(app.runs)]]

StopLiveSession ==
  /\ Stoppable
  /\ StopRaises \/ StopCompletes
  /\ UNCHANGED <<life, faults>>

StartCoordinator ==
  /\ live' = [live EXCEPT !.state = IF @ = "CREATED" THEN "READY" ELSE @]
  /\ UNCHANGED <<appVars, adapter>>

StopCoordinator ==
  \/ /\ live.state = "READY"
     /\ live' = [live EXCEPT !.state = "STOPPED"]
     /\ UNCHANGED <<appVars, adapter>>
  \/ live.state = "RUNNING" /\ StopLiveSession

(* A reset in the middle of a session keeps the state and forgets the       *)
(* session.                                                                 *)
LiveReset == [NewLive EXCEPT !.state = IF live.state \in LiveEnded THEN "READY" ELSE live.state]

ResetCoordinator == live' = LiveReset /\ UNCHANGED <<appVars, adapter>>

Coordinator ==
  \/ \E s \in Sessions, which \in SUBSET Instruments \ {{}} : StartLiveSession(s, which)
  \/ ObserveConnection \/ StopLiveSession \/ StartCoordinator \/ StopCoordinator
  \/ ResetCoordinator

-----------------------------------------------------------------------------
(* reset_all() resets the adapter and the coordinator before the runtimes. *)
Application ==
  \/ (Start \/ Stop \/ Restart) /\ UNCHANGED <<adapter, live>>
  \/ Reset /\ adapter' = AdapterReset /\ live' = LiveReset
  \/ /\ \E i \in Instruments :
          ResetSymbol(i) \/ ProcessTick(i) \/ StartShadowSession(i, "own") \/ StopShadowSession(i)
     /\ UNCHANGED <<adapter, live>>

LiveNext == Application \/ Adapter \/ OnTicks \/ Coordinator

liveVars == <<appVars, adapter, live>>

LiveSpec == LiveInit /\ [][LiveNext]_liveVars

-----------------------------------------------------------------------------
LiveTypeOK ==
  /\ adapter.state \in AdapterState /\ adapter.auth \in BOOLEAN /\ adapter.resolved \in BOOLEAN
  /\ adapter.subscribed \subseteq Instruments /\ adapter.seen \subseteq Instruments \X Ticks
  /\ adapter.counts \in [DOMAIN NoCounts -> 0..(2 * MaxReceived)]
  /\ live.state \in LiveState /\ live.session \in Sessions \cup {None}
  /\ live.active \subseteq Instruments /\ live.report \in LiveShadowReport \cup {None}
  /\ live.degraded \in BOOLEAN /\ live.seen \subseteq Instruments \X Ticks
  /\ live.counts \in [Instruments -> [accepted: Nat, rejected: Nat]]

(* A live session that has been reported runs in no runtime any more,       *)
(* whatever failed, stopped or was reset under it, and whatever session a   *)
(* user began in the same runtimes.                                         *)
ReportedSessionEnded ==
  live.report # None =>
    \A i \in live.report.active :
      ~(app.runs[i].engines[Shadow] = "running" /\ app.runs[i].session = live.report.session
          /\ live.session # live.report.session)

(* Every tick the adapter received was published, was a duplicate or was    *)
(* rejected, and none twice, through every failure on its way.              *)
TicksAccountedFor ==
  LET c == adapter.counts
  IN /\ c.published + c.duplicates <= c.received
     /\ c.received <= c.published + c.duplicates + c.rejected

(* A session the coordinator counts ticks for was begun over a link that    *)
(* subscribed its instruments, and no tick is counted twice or for another  *)
(* instrument.                                                              *)
CountedTicksAreOwn ==
  \A i \in Instruments :
    /\ live.counts[i].accepted + live.counts[i].rejected = Cardinality({t \in live.seen : t[1] = i})
    /\ live.session # None /\ i \notin live.active => live.counts[i].accepted + live.counts[i].rejected = 0
=============================================================================
