-------------------------- MODULE OptionChainFeedV1 --------------------------
(***************************************************************************)
(* One underlying's option contracts and its live option chain.            *)
(*                                                                         *)
(* The subscription manager prepares a universe, subscribes it at the      *)
(* broker in two calls (tokens, then modes), replaces it by another        *)
(* universe in three (add, modes, drop), and undoes what it did when a     *)
(* call fails half way.                                                    *)
(*                                                                         *)
(* Raw option ticks become quotes in a store, a complete and fresh set of  *)
(* quotes is assembled into a chain for the option chain engine, and the   *)
(* analytics engine compares each chain with the one before.  Two          *)
(* coordinators start, stop and feed the two stages: the live integration  *)
(* (subscriptions, runtime) and the analytics integration above it.        *)
(***************************************************************************)
EXTENDS NoneValue, Integers, FiniteSets, Sequences

(* The subscriptions. *)

CONSTANTS
  Universes,     \* names of the option universes a resolver may return
  EntriesOf(_),  \* the [token, mode] rows of a universe
  MaxOperations  \* bound on the operations begun

DefaultMode == "quote"   \* what the broker streams before a mode is set

VARIABLES
  sub,   \* [status, active, entries, operations, failures]: the manager
  line,  \* the [token, mode] rows the broker streams, external
  tidy   \* FALSE once an undo has itself failed

subVars == <<sub, line, tidy>>

SubscriptionStatus == {"CREATED", "PREPARED", "ACTIVATING", "ACTIVE", "REPLACING",
                       "DEACTIVATING", "INACTIVE", "CLEARED", "ERROR"}

TokensOf(rows) == {r.token : r \in rows}

(* A registry and a plan take one row a token. *)
OneRowEach(rows) == Cardinality(TokensOf(rows)) = Cardinality(rows)

ASSUME UniversesAreRegistries ==
  \A u \in Universes :
    EntriesOf(u) # {} /\ IsFiniteSet(EntriesOf(u)) /\ OneRowEach(EntriesOf(u))

ZerodhaOptionSubscriptionSnapshot ==
  [status: SubscriptionStatus, active: BOOLEAN,
   entries: {{}} \cup {EntriesOf(u) : u \in Universes},
   operations: 0..MaxOperations, failures: 0..MaxOperations]

SubscriptionsInit ==
  /\ sub = [status |-> "CREATED", active |-> FALSE, entries |-> {},
            operations |-> 0, failures |-> 0]
  /\ line = {}
  /\ tidy = TRUE

-----------------------------------------------------------------------------
(* The broker's calls, as the transport passes them on: all or nothing. *)

Added(l, tokens) ==
  l \cup {[token |-> t, mode |-> DefaultMode] : t \in tokens \ TokensOf(l)}

Removed(l, tokens) == {r \in l : r.token \notin tokens}

Moded(l, rows) ==
  {r \in l : r.token \notin TokensOf(rows)}
    \cup {r \in rows : r.token \in TokensOf(l)}

(* _apply_modes() calls once a mode: a failure leaves any of the modes set. *)
PartlyModed(l, rows) ==
  {Moded(l, {r \in rows : r.mode \in done}) : done \in SUBSET {r.mode : r \in rows}}

-----------------------------------------------------------------------------
(* _begin() and _record_failure() *)
Begun == [sub EXCEPT !.operations = @ + 1]

Failed(s) == [s EXCEPT !.status = "ERROR", !.failures = @ + 1]

Prepare(u) ==
  IF sub.active
    THEN sub.entries = EntriesOf(u) /\ UNCHANGED subVars
    ELSE /\ sub.operations < MaxOperations
         /\ sub' = [Begun EXCEPT !.entries = EntriesOf(u), !.status = "PREPARED"]
         /\ UNCHANGED <<line, tidy>>

(* What activate() leaves when a call fails: the tokens are given back,     *)
(* unless that call fails as well.                                          *)
ActivationUndone ==
  LET tokens == TokensOf(sub.entries)
      reached == {line} \cup PartlyModed(Added(line, tokens), sub.entries)
  IN {<<Removed(l, tokens), tidy>> : l \in reached} \cup {<<l, FALSE>> : l \in reached}

(* The tokens are left as they are. *)
ActivationLeft ==
  {<<l, tidy>> : l \in {line} \cup PartlyModed(Added(line, TokensOf(sub.entries)), sub.entries)}

ActivationFails == ActivationUndone

(* activate(): <<ok>> tells whether it returned. *)
Activate(ok) ==
  /\ sub.entries # {} /\ ~sub.active
  /\ sub.operations < MaxOperations
  /\ IF ok
       THEN /\ sub' = [Begun EXCEPT !.active = TRUE, !.status = "ACTIVE"]
            /\ line' = Moded(Added(line, TokensOf(sub.entries)), sub.entries)
            /\ tidy' = tidy
       ELSE /\ sub' = Failed([Begun EXCEPT !.active = FALSE])
            /\ \E o \in ActivationFails : line' = o[1] /\ tidy' = o[2]

-----------------------------------------------------------------------------
(* The plan from the current rows to the proposed ones. *)
Plan(current, proposed) ==
  [subscribe |-> {r \in proposed : r.token \notin TokensOf(current)},
   unsubscribe |-> {r \in current : r.token \notin TokensOf(proposed)},
   modeChange |-> {r \in proposed \ current : r.token \in TokensOf(current)}]

Nothing(plan) == plan.subscribe = {} /\ plan.unsubscribe = {} /\ plan.modeChange = {}

(* The lines a failing replace() may have reached, with whether the drop    *)
(* had been asked for: the adding, a mode, or the dropping fails.           *)
ReplacementReached(plan) ==
  LET added == Added(line, TokensOf(plan.subscribe))
      wanted == plan.subscribe \cup plan.modeChange
  IN {<<line, FALSE>>}
       \cup {<<l, FALSE>> : l \in PartlyModed(added, wanted)}
       \cup {<<Moded(added, wanted), TRUE>>}

(* _rollback_replace(): give back what was dropped, restore the modes that  *)
(* were changed, drop what was added.  How far an undo got that fails itself *)
(* is not told apart: the line is then no longer tidy.                      *)
RolledBack(l, asked, plan) ==
  LET back == IF asked
                THEN Moded(Added(l, TokensOf(plan.unsubscribe)), plan.unsubscribe)
                ELSE l
      modes == {r \in sub.entries : r.token \in TokensOf(plan.modeChange)}
  IN Removed(Moded(back, modes), TokensOf(plan.subscribe))

(* An undo that forgets the modes. *)
RolledBackModesKept(l, asked, plan) ==
  Removed(IF asked THEN Added(l, TokensOf(plan.unsubscribe)) ELSE l,
          TokensOf(plan.subscribe))

Undo(l, asked, plan) == RolledBack(l, asked, plan)

Replace(u, ok) ==
  LET plan == Plan(sub.entries, EntriesOf(u))
  IN /\ sub.active
     /\ IF Nothing(plan)
          THEN UNCHANGED subVars
          ELSE /\ sub.operations < MaxOperations
               /\ IF ok
                    THEN /\ sub' = [Begun EXCEPT !.entries = EntriesOf(u),
                                                 !.status = "ACTIVE"]
                         /\ line' = Removed(Moded(Added(line, TokensOf(plan.subscribe)),
                                                  plan.subscribe \cup plan.modeChange),
                                            TokensOf(plan.unsubscribe))
                         /\ tidy' = tidy
                    ELSE /\ sub' = Failed(Begun)
                         /\ \E reached \in ReplacementReached(plan) :
                              \/ /\ line' = Undo(reached[1], reached[2], plan)
                                 /\ tidy' = tidy
                              \/ line' = reached[1] /\ tidy' = FALSE

(* deactivate(): when the broker refuses, the rows stay active. *)
Deactivate(ok) ==
  IF ~sub.active
    THEN UNCHANGED subVars
    ELSE /\ sub.operations < MaxOperations
         /\ IF ok
              THEN /\ sub' = [Begun EXCEPT !.active = FALSE, !.status = "INACTIVE"]
                   /\ line' = Removed(line, TokensOf(sub.entries))
              ELSE sub' = Failed(Begun) /\ line' = line
         /\ tidy' = tidy

ClearSubscriptions ==
  /\ ~sub.active
  /\ sub' = [status |-> "CLEARED", active |-> FALSE, entries |-> {},
             operations |-> 0, failures |-> 0]
  /\ UNCHANGED <<line, tidy>>

SubscriptionsNext ==
  \/ \E u \in Universes : Prepare(u) \/ \E ok \in BOOLEAN : Replace(u, ok)
  \/ \E ok \in BOOLEAN : Activate(ok) \/ Deactivate(ok)
  \/ ClearSubscriptions

-----------------------------------------------------------------------------
SubscriptionsTypeOK ==
  /\ sub \in ZerodhaOptionSubscriptionSnapshot
  /\ OneRowEach(line)
  /\ tidy \in BOOLEAN

(* However many operations failed half way, as long as no undo failed the   *)
(* broker streams exactly the rows the manager calls active, in their modes, *)
(* and none when it is not active.                                          *)
LineIsActiveEntries ==
  tidy => line = (IF sub.active THEN sub.entries ELSE {})

-----------------------------------------------------------------------------
(* The live option chain and its coordinators. *)

CONSTANTS
  MaxAge,       \* maximum_quote_age_seconds
  MaxChainTime,      \* bound on the clock
  OpenInterest, \* open interest values
  HistoryLimit  \* history_limit of the analytics

ASSUME AgeIsPositive == MaxAge \in Nat \ {0} /\ HistoryLimit \in Nat \ {0}

VARIABLES
  chainClock,       \* the clock
  running,   \* the application lifecycle is RUNNING
  universe,  \* the universe of the runtime
  live,      \* the status of the live option chain runtime
  quotes,    \* token -> [at, oi, change] or None: the quote store
  baseline,  \* token -> the open interest change is counted from, or None
  spotAt,    \* the time of the underlying's price, or None
  chain,     \* [at, legs]: the latest assembled chain, or None
  integ,     \* the status of the live integration
  ana,       \* the status of the analytics integration
  analytics     \* [source, distinct, base, history]: the analytics engine

chainVars == <<chainClock, running, universe, live, quotes, baseline, spotAt, chain,
               integ, ana, analytics>>

Times == 0..MaxChainTime
OptionTokens == UNION {TokensOf(EntriesOf(u)) : u \in Universes}
Legs == TokensOf(EntriesOf(universe))

LiveOptionChainStatus == {"CREATED", "COLLECTING", "PARTIAL", "READY", "STALE",
                          "STOPPED", "CLEARED"}
LiveOptionChainIntegrationStatus ==
  {"CREATED", "VALIDATING", "READY", "STARTING", "RUNNING", "STOPPING", "STOPPED",
   "CLEARED", "ERROR"}
OptionChainAnalyticsIntegrationStatus ==
  {"CREATED", "VALIDATING", "READY", "STARTING", "RUNNING", "STOPPING", "STOPPED",
   "CLEARED", "ERROR"}

Serving == {"COLLECTING", "PARTIAL", "READY", "STALE"}

ZerodhaLiveOptionQuote == [at: Times, oi: OpenInterest, change: Int]

ASSUME QuotesAreValues ==
  MaxChainTime \in Nat /\ OpenInterest \subseteq Nat
  /\ None \notin ZerodhaLiveOptionQuote /\ None \notin OpenInterest /\ None \notin Times

NoEngine == [source |-> None, distinct |-> None, base |-> None, history |-> <<>>]

LiveChainInit ==
  /\ universe \in Universes
  /\ live = "CREATED"
  /\ quotes = [t \in OptionTokens |-> None]
  /\ baseline = [t \in OptionTokens |-> None]
  /\ spotAt = None /\ chain = None

LiveIntegrationInit == integ = "CREATED"

AnalyticsInit == ana = "CREATED" /\ analytics = NoEngine

ChainInit ==
  /\ SubscriptionsInit
  /\ chainClock = 0 /\ running = TRUE
  /\ LiveChainInit /\ LiveIntegrationInit /\ AnalyticsInit

-----------------------------------------------------------------------------
(* The quote store. *)

(* A price of the underlying older than the one held is refused. *)
FreshSpot(at) == spotAt = None \/ (spotAt # None /\ spotAt <= at)

(* The first row of a token fixes its baseline, even a row that is refused  *)
(* afterwards.                                                              *)
BaselineFor(token, oi) == IF baseline[token] = None THEN oi ELSE baseline[token]

(* Newer or equally old but different: stored; the same again: duplicate.  *)
Accepts(held, quote) == held = None \/ (held # quote /\ held.at <= quote.at)

-----------------------------------------------------------------------------
(* The assembler: every leg quoted, and none older than MaxAge. *)

(* None of them too old. *)
FreshChain(q) == \A t \in Legs : chainClock - q[t].at <= MaxAge

(* The newest leg fresh. *)
FreshNewest(q) == \E t \in Legs : chainClock - q[t].at <= MaxAge

NotStale(q) == FreshChain(q)

Complete(q) == \A t \in Legs : q[t] # None

(* The status after a batch that brought a new quote, with the chain. *)
Assembled(q) ==
  IF spotAt = None \/ ~Complete(q) THEN [status |-> "PARTIAL", chain |-> chain]
  ELSE IF ~NotStale(q) THEN [status |-> "STALE", chain |-> chain]
  ELSE [status |-> "READY", chain |-> [at |-> chainClock, legs |-> [t \in Legs |-> q[t]]]]

(* process_raw_ticks() with one row; a row the normalizer refuses leaves    *)
(* its baseline behind.                                                     *)
ProcessedRow(token, at, oi, readable) ==
  LET base == BaselineFor(token, oi)
      quote == [at |-> at, oi |-> oi, change |-> oi - base]
      stored == [quotes EXCEPT ![token] = quote]
  IN /\ baseline' = [baseline EXCEPT ![token] = base]
     /\ IF readable /\ Accepts(quotes[token], quote)
          THEN /\ quotes' = stored
               /\ live' = Assembled(stored).status
               /\ chain' = Assembled(stored).chain
          ELSE /\ live' = IF chain = None THEN "COLLECTING" ELSE live
               /\ UNCHANGED <<quotes, chain>>

(* deliver_option_ticks(): the integration runs and the subscriptions are   *)
(* active.                                                                  *)
DeliverOptionTick ==
  \E token \in Legs, at \in 0..chainClock, oi \in OpenInterest, readable \in BOOLEAN :
    /\ integ = "RUNNING" /\ live \in Serving /\ sub.active
    /\ ProcessedRow(token, at, oi, readable)
    /\ UNCHANGED <<subVars, chainClock, running, universe, spotAt, integ, ana, analytics>>

(* deliver_underlying_price() *)
DeliverSpot ==
  \E at \in 0..chainClock :
    /\ integ = "RUNNING" /\ FreshSpot(at)
    /\ spotAt' = at
    /\ UNCHANGED <<subVars, chainClock, running, universe, live, quotes, baseline, chain,
                   integ, ana, analytics>>

(* seed_open_interest_baselines() *)
SeedBaseline ==
  \E token \in Legs, oi \in OpenInterest :
    /\ baseline' = [baseline EXCEPT ![token] = oi]
    /\ UNCHANGED <<subVars, chainClock, running, universe, live, quotes, spotAt, chain, integ,
                   ana, analytics>>

(* replace_universe(), once the manager streams the new universe. *)
ReplaceUniverse ==
  \E u \in Universes :
    /\ u # universe /\ sub.active /\ sub.entries = EntriesOf(u)
    /\ universe' = u
    /\ quotes' = [t \in OptionTokens |-> None]
    /\ baseline' = [t \in OptionTokens |-> None]
    /\ spotAt' = None /\ chain' = None
    /\ live' = "COLLECTING"
    /\ UNCHANGED <<subVars, chainClock, running, integ, ana, analytics>>

-----------------------------------------------------------------------------
(* The live integration. *)

(* The universe of the runtime is the one subscribed. *)
Matching == sub.active /\ sub.entries = EntriesOf(universe)

IntegrationValid == running /\ sub.active /\ live # "CLEARED" /\ Matching

ValidateIntegration ==
  /\ integ' = IF IntegrationValid THEN "READY" ELSE "ERROR"
  /\ UNCHANGED <<subVars, chainClock, running, universe, live, quotes, baseline, spotAt, chain,
                 ana, analytics>>

(* start(): a runtime that held a chain says READY again. *)
StartedLive == IF chain # None THEN "READY" ELSE "COLLECTING"

StartIntegration ==
  /\ integ # "RUNNING"
  /\ IF IntegrationValid
       THEN integ' = "RUNNING" /\ live' = StartedLive
       ELSE integ' = "ERROR" /\ live' = live
  /\ UNCHANGED <<subVars, chainClock, running, universe, quotes, baseline, spotAt, chain, ana,
                 analytics>>

(* stop(): the runtime stops; the option subscriptions stay active. *)
StopIntegration ==
  /\ integ' = "STOPPED"
  /\ live' = IF integ \in {"STOPPED", "CREATED", "CLEARED"} THEN live ELSE "STOPPED"
  /\ UNCHANGED <<subVars, chainClock, running, universe, quotes, baseline, spotAt, chain, ana,
                 analytics>>

(* clear(): the store and the chain are emptied. *)
ClearIntegration ==
  /\ integ = "STOPPED" /\ live = "STOPPED"
  /\ integ' = "CLEARED" /\ live' = "CLEARED"
  /\ quotes' = [t \in OptionTokens |-> None]
  /\ baseline' = [t \in OptionTokens |-> None]
  /\ spotAt' = None /\ chain' = None
  /\ UNCHANGED <<subVars, chainClock, running, universe, ana, analytics>>

-----------------------------------------------------------------------------
(* The analytics engine. *)

AppendBounded(h, at) ==
  LET longer == Append(h, at)
  IN IF Len(longer) > HistoryLimit
       THEN SubSeq(longer, Len(longer) - HistoryLimit + 1, Len(longer))
       ELSE longer

(* A chain of the same time as the last replaces it and is compared with    *)
(* the chain before that; an unchanged chain changes nothing.               *)
EngineUpdate(e, c) ==
  LET correction == e.source # None /\ c.at = e.source.at
  IN IF e.source = c THEN e
     ELSE [source |-> c,
           distinct |-> IF correction THEN e.distinct ELSE e.source,
           base |-> IF correction THEN e.distinct ELSE e.source,
           history |-> IF correction /\ e.history # <<>>
                         THEN [e.history EXCEPT ![Len(e.history)] = c.at]
                         ELSE AppendBounded(e.history, c.at)]

(* Every chain compared with the one processed before it. *)
EngineUpdatePlain(e, c) ==
  IF e.source = c THEN e
  ELSE [source |-> c, distinct |-> e.source, base |-> e.source,
        history |-> AppendBounded(e.history, c.at)]

AnalysedChain(e, c) == EngineUpdate(e, c)

(* process_current(): only a READY chain is processed; an older one raises. *)
ProcessCurrent ==
  /\ ana = "RUNNING"
  /\ integ = "RUNNING" /\ live = "READY" /\ chain # None
  /\ analytics.source = None \/ (analytics.source # None /\ analytics.source.at <= chain.at)
  /\ analytics' = AnalysedChain(analytics, chain)
  /\ UNCHANGED <<subVars, chainClock, running, universe, live, quotes, baseline, spotAt, chain,
                 integ, ana>>

AnalyticsValid == running /\ integ = "RUNNING"

ValidateAnalytics ==
  /\ ana' = IF AnalyticsValid THEN "READY" ELSE "ERROR"
  /\ UNCHANGED <<subVars, chainClock, running, universe, live, quotes, baseline, spotAt, chain,
                 integ, analytics>>

StartAnalytics ==
  /\ ana # "RUNNING"
  /\ ana' = IF AnalyticsValid THEN "RUNNING" ELSE "ERROR"
  /\ UNCHANGED <<subVars, chainClock, running, universe, live, quotes, baseline, spotAt, chain,
                 integ, analytics>>

StopAnalytics ==
  /\ ana' = "STOPPED"
  /\ UNCHANGED <<subVars, chainClock, running, universe, live, quotes, baseline, spotAt, chain,
                 integ, analytics>>

EngineReset == analytics' = NoEngine

ClearAnalytics ==
  /\ ana = "STOPPED"
  /\ ana' = "CLEARED" /\ EngineReset
  /\ UNCHANGED <<subVars, chainClock, running, universe, live, quotes, baseline, spotAt, chain,
                 integ>>

-----------------------------------------------------------------------------
TimePasses ==
  /\ chainClock < MaxChainTime /\ chainClock' = chainClock + 1
  /\ UNCHANGED <<subVars, running, universe, live, quotes, baseline, spotAt, chain, integ,
                 ana, analytics>>

LifecycleSwitches ==
  /\ running' = ~running
  /\ UNCHANGED <<subVars, chainClock, universe, live, quotes, baseline, spotAt, chain, integ,
                 ana, analytics>>

Feeding == DeliverOptionTick \/ DeliverSpot \/ SeedBaseline \/ ProcessCurrent

Coordinating ==
  \/ ReplaceUniverse
  \/ ValidateIntegration \/ StartIntegration \/ StopIntegration \/ ClearIntegration
  \/ ValidateAnalytics \/ StartAnalytics \/ StopAnalytics \/ ClearAnalytics

(* The desk prepares and activates the universe of the runtime; the manager *)
(* deactivates only below a stopped integration.                            *)
Subscribing ==
  /\ SubscriptionsNext /\ UNCHANGED chainVars
  /\ integ = "RUNNING" => (sub.active => sub'.active)

ChainNext == TimePasses \/ LifecycleSwitches \/ Feeding \/ Coordinating \/ Subscribing

ChainSpec == ChainInit /\ [][ChainNext]_<<subVars, chainVars>>

-----------------------------------------------------------------------------
ChainTypeOK ==
  /\ SubscriptionsTypeOK
  /\ chainClock \in Times /\ running \in BOOLEAN /\ universe \in Universes
  /\ live \in LiveOptionChainStatus
  /\ quotes \in [OptionTokens -> {None} \cup [at: Times, oi: OpenInterest, change: -2..2]]
  /\ baseline \in [OptionTokens -> {None} \cup OpenInterest]
  /\ spotAt \in {None} \cup Times
  /\ integ \in LiveOptionChainIntegrationStatus
  /\ ana \in OptionChainAnalyticsIntegrationStatus
  /\ Len(analytics.history) <= HistoryLimit

(* The chain the engines are given never mixes legs: each was at most MaxAge *)
(* old when it was assembled, they are the legs of the runtime's universe,   *)
(* and none is newer than what the store holds now.                          *)
ChainIsOfOneMoment ==
  chain # None =>
    /\ DOMAIN chain.legs = Legs
    /\ \A t \in Legs : /\ chain.at - chain.legs[t].at <= MaxAge
                       /\ quotes[t] # None /\ chain.legs[t].at <= quotes[t].at

(* The analytics never compare a chain with one of the same or a later time, *)
(* through any number of corrections, and the history is strictly in order. *)
ComparedWithEarlier ==
  /\ analytics.base # None => analytics.base.at < analytics.source.at
  /\ \A i, j \in DOMAIN analytics.history : i < j => analytics.history[i] < analytics.history[j]
  /\ analytics.history # <<>> => analytics.history[Len(analytics.history)] = analytics.source.at

(* From the broker's line to the analytics, a chain is that of its universe *)
(* at one moment, and is compared with what came before it.                 *)
ChainsAreSound == LineIsActiveEntries /\ ChainIsOfOneMoment /\ ComparedWithEarlier
=============================================================================
