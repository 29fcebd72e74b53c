------------------------------ MODULE LiveFeedV1 ------------------------------
(***************************************************************************)
(* The live market data feed of one desk: the broker session manager, the  *)
(* WebSocket manager with its subscription registry and tick normalizer,   *)
(* and the application's live market data runtime above it.  Commands come *)
(* from the user interface thread; the broker's client runs a thread of    *)
(* its own that opens and drops the connection whenever it likes and calls *)
(* the manager back, in order but arbitrarily late.  Every method holds    *)
(* the manager's lock, so a method is one step; what interleaves is the    *)
(* callbacks still queued and the commands issued meanwhile.               *)
(***************************************************************************)
EXTENDS NoneValue, Naturals, Sequences, FiniteSets

CONSTANTS
  Sessions,       \* broker sessions that can be obtained
  First,          \* the session the WebSocket manager was created with
  Subscriptions,  \* [token, instrument, mode] rows a caller may ask for
  Configured,     \* the rows of the live market data configuration
  Installed,      \* the instruments the application runtime is configured for
  RawTicks,       \* ticks the broker may send
  MaxConnections, \* bound on the connections opened
  MaxQueue,       \* bound on the callbacks waiting
  MaxTicks        \* bound on the ticks processed

(* Tokens and instruments are unique within a registry and a configuration. *)
WellFormed(rows) ==
  \A r, s \in rows : r # s => r.token # s.token /\ r.instrument # s.instrument

ASSUME FirstSession == First \in Sessions /\ None \notin Sessions

(* LiveMarketDataConfiguration refuses an empty or an ambiguous list. *)
LiveMarketDataConfiguration == Configured # {} /\ WellFormed(Configured)

ASSUME ConfigurationIsValid ==
  LiveMarketDataConfiguration /\ Configured \subseteq Subscriptions

VARIABLES
  auth,     \* [status, session]: the session manager
  expired,  \* the sessions past their expiry
  app,      \* the application lifecycle is running
  ws,       \* [status, registry, connections, disconnections, countable]
  link,     \* [opening, up, subscribed]: the broker's client, external
  events,   \* callbacks the client has still to deliver
  rt,       \* the status the live market data runtime remembers
  ticks     \* [raw, normalized, delivered, rejected]

feedVars == <<auth, expired, app, ws, link, events, rt, ticks>>

AuthStatus == {"CREATED", "LOGIN_URL_READY", "AUTHENTICATING", "AUTHENTICATED",
               "EXPIRED", "LOGGED_OUT", "ERROR"}
WebSocketStatus == {"CREATED", "CONNECTING", "CONNECTED", "DISCONNECTING",
                    "DISCONNECTED", "RECONNECTING", "ERROR"}
FeedRuntimeStatus == {"CREATED", "READY", "STARTING", "RUNNING", "STOPPING",
                  "STOPPED", "ERROR"}
Callback == {"connect", "close", "error", "reconnect", "noreconnect"}

(* A snapshot says connected exactly when the status does, and its counters *)
(* are naturals.                                                            *)
WebSocketSnapshot ==
  [status: WebSocketStatus, registry: SUBSET Subscriptions,
   connections: 0..MaxConnections, disconnections: 0..MaxConnections,
   countable: BOOLEAN]

Link == [opening: BOOLEAN, up: BOOLEAN, subscribed: SUBSET Subscriptions]

NewTicker == [opening |-> FALSE, up |-> FALSE, subscribed |-> {}]

FeedInit ==
  /\ auth = [status |-> "AUTHENTICATED", session |-> First]
  /\ expired = {}
  /\ app = TRUE
  /\ ws = [status |-> "CREATED", registry |-> Configured, connections |-> 0,
           disconnections |-> 0, countable |-> FALSE]
  /\ link = NewTicker
  /\ events = <<>>
  /\ rt = "CREATED"
  /\ ticks = [raw |-> 0, normalized |-> 0, delivered |-> 0, rejected |-> 0]

-----------------------------------------------------------------------------
(* The broker session. *)

IsAuthenticated == auth.status = "AUTHENTICATED" /\ auth.session # None

(* A login request changes the status and keeps the session it had. *)
CreateLoginRequest ==
  /\ auth' = [auth EXCEPT !.status = "LOGIN_URL_READY"]
  /\ UNCHANGED <<expired, app, ws, link, events, rt, ticks>>

(* The exchange of a request token, or the restoring of a stored session:  *)
(* a failure at the broker drops the session that was held.                *)
Authenticate ==
  /\ auth' \in {[status |-> "AUTHENTICATED", session |-> s] : s \in Sessions \ expired}
               \cup {[status |-> "ERROR", session |-> None]}
  /\ UNCHANGED <<expired, app, ws, link, events, rt, ticks>>

ValidateSession ==
  /\ auth.session # None
  /\ auth' \in IF auth.session \in expired
                 THEN {[status |-> "EXPIRED", session |-> None]}
                 ELSE {[auth EXCEPT !.status = "AUTHENTICATED"],
                       [status |-> "ERROR", session |-> None]}
  /\ UNCHANGED <<expired, app, ws, link, events, rt, ticks>>

Logout ==
  /\ auth' = [status |-> "LOGGED_OUT", session |-> None]
  /\ UNCHANGED <<expired, app, ws, link, events, rt, ticks>>

(* Time passes a session's expiry. *)
ExpireSession ==
  /\ \E s \in Sessions \ expired : expired' = expired \cup {s}
  /\ UNCHANGED <<auth, app, ws, link, events, rt, ticks>>

(* The application lifecycle starts or stops. *)
ApplicationSwitches ==
  /\ app' = ~app
  /\ UNCHANGED <<auth, expired, ws, link, events, rt, ticks>>

-----------------------------------------------------------------------------
(* The broker's client: it opens, drops and gives up on its own. *)

Queued(event) == Len(events) < MaxQueue /\ events' = Append(events, event)

LinkOpens ==
  /\ link.opening
  /\ ws.connections + Len(SelectSeq(events, LAMBDA e : e = "connect")) < MaxConnections
  /\ link' = [opening |-> FALSE, up |-> TRUE, subscribed |-> {}]
  /\ Queued("connect")
  /\ UNCHANGED <<auth, expired, app, ws, rt, ticks>>

LinkDrops ==
  /\ link.up
  /\ link' = [opening |-> TRUE, up |-> FALSE, subscribed |-> {}]
  /\ Len(events) + 2 <= MaxQueue
  /\ events' = events \o <<"close", "reconnect">>
  /\ UNCHANGED <<auth, expired, app, ws, rt, ticks>>

LinkErrs ==
  /\ link.up \/ link.opening
  /\ Queued("error")
  /\ UNCHANGED <<auth, expired, app, ws, link, rt, ticks>>

LinkGivesUp ==
  /\ link.opening
  /\ link' = [link EXCEPT !.opening = FALSE]
  /\ Queued("noreconnect")
  /\ UNCHANGED <<auth, expired, app, ws, rt, ticks>>

(* What the client subscribes; a request over a dead link reaches nobody. *)
Subscribed(l, rows) ==
  IF l.up
    THEN [l EXCEPT !.subscribed =
            {s \in @ : \A r \in rows : s.token # r.token} \cup rows]
    ELSE l

Unsubscribed(l, tokens) ==
  IF l.up THEN [l EXCEPT !.subscribed = {s \in @ : s.token \notin tokens}] ELSE l

-----------------------------------------------------------------------------
(* The WebSocket manager.                                                  *)

IsConnected == ws.status = "CONNECTED"

(* A drop counted without the flag that remembers it was counted already. *)
AccountDisconnectAgain(w) ==
  IF w.connections > 0
    THEN [w EXCEPT !.disconnections = @ + 1]
    ELSE w

(* A drop is counted once after each connection. *)
AccountDisconnect(w) ==
  IF w.countable
    THEN [w EXCEPT !.disconnections = @ + 1, !.countable = FALSE]
    ELSE w

(* connect(): an expired session raises before anything changes, a live    *)
(* connection is left alone, and a client that raises leaves ERROR.        *)
Connected(w, l) ==
  IF First \in expired THEN {[ws |-> w, link |-> l, raised |-> TRUE]}
  ELSE IF w.status \in {"CONNECTED", "CONNECTING"}
    THEN {[ws |-> w, link |-> l, raised |-> FALSE]}
  ELSE {[ws |-> [w EXCEPT !.status = "CONNECTING"],
         link |-> [l EXCEPT !.opening = ~l.up], raised |-> FALSE],
        [ws |-> [w EXCEPT !.status = "ERROR"], link |-> l, raised |-> TRUE]}

(* disconnect(): closing the client calls back later; the manager already  *)
(* counts the drop here.                                                   *)
Disconnected(w, l, q) ==
  IF w.status \in {"CREATED", "DISCONNECTED"}
    THEN {[ws |-> [w EXCEPT !.status = "DISCONNECTED"], link |-> l,
           events |-> q, raised |-> FALSE]}
    ELSE {[ws |-> AccountDisconnect([w EXCEPT !.status = "DISCONNECTED"]),
           link |-> [opening |-> FALSE, up |-> FALSE, subscribed |-> {}],
           events |-> IF l.up THEN Append(q, "close") ELSE q,
           raised |-> FALSE],
          [ws |-> [w EXCEPT !.status = "ERROR"], link |-> l, events |-> q,
           raised |-> TRUE]}

(* subscribe(): recorded first; when the client refuses, the registry      *)
(* forgets the row again, although the client may have taken it before     *)
(* refusing the mode.                                                      *)
Subscribe ==
  \E r \in Subscriptions :
    /\ WellFormed(ws.registry \cup {r}) /\ r \notin ws.registry
    /\ \/ /\ ws' = [ws EXCEPT !.registry = @ \cup {r}]
          /\ link' = IF IsConnected THEN Subscribed(link, {r}) ELSE link
       \/ /\ IsConnected
          /\ ws' = [ws EXCEPT !.status = "ERROR"]
          /\ link' \in {link, Subscribed(link, {r})}
    /\ UNCHANGED <<auth, expired, app, events, rt, ticks>>

(* unsubscribe(): the client first; when it refuses, the registry keeps it. *)
Unsubscribe ==
  \E r \in ws.registry :
    /\ \/ /\ ws' = [ws EXCEPT !.registry = @ \ {r}]
          /\ link' = IF IsConnected THEN Unsubscribed(link, {r.token}) ELSE link
       \/ /\ IsConnected
          /\ ws' = [ws EXCEPT !.status = "ERROR"]
          /\ link' = link
    /\ UNCHANGED <<auth, expired, app, events, rt, ticks>>

(* replace_subscriptions(): when connected, drop, add, set modes; a refusal *)
(* half way restores the registry, not the client.                          *)
ReplaceSubscriptions ==
  \E rows \in SUBSET Subscriptions :
    LET gone == {r.token : r \in ws.registry} \ {r.token : r \in rows}
        dropped == Unsubscribed(link, gone)
        added == Subscribed(dropped, {r \in rows : r.token \notin
                                        {s.token : s \in ws.registry}})
    IN /\ WellFormed(rows) /\ rows # ws.registry
       /\ \/ /\ ws' = [ws EXCEPT !.registry = rows]
             /\ link' = IF IsConnected THEN Subscribed(dropped, rows) ELSE link
          \/ /\ IsConnected
             /\ ws' = [ws EXCEPT !.status = "ERROR"]
             /\ link' \in {link, dropped, added}
       /\ UNCHANGED <<auth, expired, app, events, rt, ticks>>

(* _on_connect(): every connection subscribes the whole registry again. *)
OnConnect ==
  \/ /\ ws' = [ws EXCEPT !.status = "CONNECTED", !.connections = @ + 1,
                         !.countable = TRUE]
     /\ link' = Subscribed(link, ws.registry)
  \/ /\ ws' = [ws EXCEPT !.status = "ERROR", !.connections = @ + 1,
                         !.countable = TRUE]
     /\ link' \in {link, Subscribed(link, ws.registry)}

OnClose ==
  /\ ws' = AccountDisconnect([ws EXCEPT !.status = "DISCONNECTED"])
  /\ link' = link

OnError == ws' = [ws EXCEPT !.status = "ERROR"] /\ link' = link

OnReconnect == ws' = [ws EXCEPT !.status = "RECONNECTING"] /\ link' = link

OnNoReconnect == ws' = [ws EXCEPT !.status = "ERROR"] /\ link' = link

(* The first connection only: what a handler that took the client's own    *)
(* memory for granted would do.                                            *)
HandleSubscribingOnce(event) ==
  CASE event = "connect" ->
         /\ ws' = [ws EXCEPT !.status = "CONNECTED", !.connections = @ + 1,
                             !.countable = TRUE]
         /\ link' = IF ws.connections = 0 THEN Subscribed(link, ws.registry) ELSE link
    [] event = "close" -> OnClose
    [] event = "error" -> OnError
    [] event = "reconnect" -> OnReconnect
    [] event = "noreconnect" -> OnNoReconnect

(* A close that arrives late is ignored. *)
HandleIgnoringClose(event) ==
  CASE event = "connect" -> OnConnect
    [] event = "close" -> ws' = AccountDisconnect(ws) /\ link' = link
    [] event = "error" -> OnError
    [] event = "reconnect" -> OnReconnect
    [] event = "noreconnect" -> OnNoReconnect

HandleCallback(event) ==
  CASE event = "connect" -> OnConnect
    [] event = "close" -> OnClose
    [] event = "error" -> OnError
    [] event = "reconnect" -> OnReconnect
    [] event = "noreconnect" -> OnNoReconnect

(* The client's thread delivers its next callback. *)
Deliver ==
  /\ events # <<>>
  /\ HandleCallback(Head(events))
  /\ events' = Tail(events)
  /\ UNCHANGED <<auth, expired, app, rt, ticks>>

(* A raw tick is normalized when its token is registered, its price is      *)
(* positive, its volume not negative, its depth not crossed and its time    *)
(* readable: aware, or naive and then local, or missing and then the clock. *)
Normalizable(raw) ==
  /\ \E r \in ws.registry : r.token = raw.token
  /\ raw.price > 0
  /\ raw.bid = 0 \/ raw.ask = 0 \/ raw.bid <= raw.ask
  /\ raw.stamp # "unreadable"

(* process_raw_ticks(): whatever the status; the consumer's refusal of one  *)
(* tick is counted and the next tick goes on.                               *)
ProcessTick ==
  \E raw \in RawTicks, accepted \in BOOLEAN :
    /\ ticks.raw < MaxTicks
    /\ link.up /\ \E s \in link.subscribed : s.token = raw.token
    /\ ticks' = [raw |-> ticks.raw + 1,
                 normalized |-> ticks.normalized + (IF Normalizable(raw) THEN 1 ELSE 0),
                 delivered |-> ticks.delivered
                               + (IF Normalizable(raw) /\ accepted THEN 1 ELSE 0),
                 rejected |-> ticks.rejected
                               + (IF Normalizable(raw) /\ accepted THEN 0 ELSE 1)]
    /\ UNCHANGED <<auth, expired, app, ws, link, events, rt>>

-----------------------------------------------------------------------------
(* The live market data runtime: its status follows the WebSocket's except  *)
(* while that is CREATED.                                                   *)

SyncStatus(r, w) ==
  CASE w.status = "CONNECTED" -> "RUNNING"
    [] w.status \in {"CONNECTING", "RECONNECTING"} -> "STARTING"
    [] w.status = "DISCONNECTING" -> "STOPPING"
    [] w.status = "DISCONNECTED" -> "STOPPED"
    [] w.status = "ERROR" -> "ERROR"
    [] w.status = "CREATED" -> r

(* validate(): the lifecycle runs, the session is authenticated and in date, *)
(* the instruments are installed and the registry is the configuration.      *)
FeedValid ==
  /\ app
  /\ IsAuthenticated
  /\ auth.session \notin expired
  /\ {r.instrument : r \in Configured} \subseteq Installed
  /\ ws.registry = Configured

SnapshotFeed ==
  /\ rt' = SyncStatus(rt, ws)
  /\ UNCHANGED <<auth, expired, app, ws, link, events, ticks>>

ValidateFeed ==
  /\ rt' = IF FeedValid THEN "READY" ELSE "ERROR"
  /\ UNCHANGED <<auth, expired, app, ws, link, events, ticks>>

(* What start() leaves, from a runtime and a feed as they are then. *)
FeedStarted(r, w, l) ==
  IF SyncStatus(r, w) \in {"RUNNING", "STARTING"}
    THEN {[rt |-> SyncStatus(r, w), ws |-> w, link |-> l]}
  ELSE IF ~FeedValid THEN {[rt |-> "ERROR", ws |-> w, link |-> l]}
  ELSE {[rt |-> IF o.raised THEN "ERROR" ELSE SyncStatus("STARTING", o.ws),
         ws |-> o.ws, link |-> o.link] : o \in Connected(w, l)}

StartFeed ==
  /\ \E o \in FeedStarted(rt, ws, link) :
       rt' = o.rt /\ ws' = o.ws /\ link' = o.link
  /\ UNCHANGED <<auth, expired, app, events, ticks>>

(* stop(): a runtime that never connected is stopped without a disconnect. *)
FeedStopped ==
  IF SyncStatus(rt, ws) \in {"CREATED", "READY", "STOPPED"}
    THEN {[rt |-> "STOPPED", ws |-> ws, link |-> link, events |-> events]}
    ELSE {[rt |-> IF o.raised THEN "ERROR" ELSE SyncStatus("STOPPING", o.ws),
           ws |-> o.ws, link |-> o.link, events |-> o.events]
            : o \in Disconnected(ws, link, events)}

StopFeed ==
  /\ Len(events) < MaxQueue
  /\ \E o \in FeedStopped :
       rt' = o.rt /\ ws' = o.ws /\ link' = o.link /\ events' = o.events
  /\ UNCHANGED <<auth, expired, app, ticks>>

(* restart(): stop, validate, start; the first that raises ends it. *)
RestartFeed ==
  /\ Len(events) < MaxQueue
  /\ \E o \in FeedStopped :
       IF o.rt = "ERROR" \/ ~FeedValid
         THEN rt' = "ERROR" /\ ws' = o.ws /\ link' = o.link /\ events' = o.events
         ELSE \E s \in FeedStarted("READY", o.ws, o.link) :
                rt' = s.rt /\ ws' = s.ws /\ link' = s.link /\ events' = o.events
  /\ UNCHANGED <<auth, expired, app, ticks>>

-----------------------------------------------------------------------------
SessionSteps == CreateLoginRequest \/ Authenticate \/ ValidateSession \/ Logout \/ ExpireSession

ClientSteps == LinkOpens \/ LinkDrops \/ LinkErrs \/ LinkGivesUp

RegistrySteps == Subscribe \/ Unsubscribe \/ ReplaceSubscriptions

RuntimeSteps == SnapshotFeed \/ ValidateFeed \/ StartFeed \/ StopFeed \/ RestartFeed

FeedNext ==
  SessionSteps \/ ApplicationSwitches \/ ClientSteps \/ Deliver \/ ProcessTick \/ RegistrySteps \/ RuntimeSteps

(* The client's thread does not stall: a queued callback is delivered. *)
FeedSpec == FeedInit /\ [][FeedNext]_feedVars /\ WF_feedVars(Deliver)

-----------------------------------------------------------------------------
(* Types, and every tick received was either delivered or rejected. *)
FeedTypeOK ==
  /\ auth \in [status: AuthStatus, session: Sessions \cup {None}]
  /\ expired \subseteq Sessions
  /\ app \in BOOLEAN
  /\ ws \in WebSocketSnapshot
  /\ link \in Link
  /\ events \in Seq(Callback)
  /\ rt \in FeedRuntimeStatus
  /\ ticks \in [{"raw", "normalized", "delivered", "rejected"} -> 0..MaxTicks]
  /\ ticks.raw = ticks.delivered + ticks.rejected

(* Once the callbacks have been delivered, a manager that reports CONNECTED  *)
(* over a link that is up has every registered row subscribed in its mode,   *)
(* whatever dropped, reconnected and was added in between.                   *)
ConnectedIsSubscribed ==
  IsConnected /\ link.up /\ events = <<>> => ws.registry \subseteq link.subscribed

(* A connection is counted lost at most once, whether disconnect() or the   *)
(* client's close callback comes first.                                     *)
DropsCountedOnce ==
  ws.disconnections + (IF ws.countable THEN 1 ELSE 0) <= ws.connections

(* A CONNECTED status over a dead link does not last, even when a connect   *)
(* callback that was already queued overtakes disconnect().                 *)
StaleConnectionEnds ==
  (IsConnected /\ ~link.up) ~> (~IsConnected \/ link.up)

(* What the feed's snapshot says of its connections is true.                *)
FeedIsHonest == ConnectedIsSubscribed /\ DropsCountedOnce
=============================================================================
