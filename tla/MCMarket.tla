------------------------------- MODULE MCMarket -------------------------------
(***************************************************************************)
(* Small instances of what brings the market's prices in, each driven on   *)
(* its own through its whole interface while the others rest: the live     *)
(* feed, the option chain with its subscriptions, the futures' volume, the *)
(* desktop's option chains, the candles of one symbol live and warmed up,  *)
(* and the price action engine.                                            *)
(***************************************************************************)
EXTENDS LiveFeedV1, OptionChainFeedV1, FuturesVWAPV1, DesktopOptionChainV1,
        HistoricalWarmupV1

CONSTANTS
    t1, t2, nifty, banknifty, s1, s2,
    MaxDisturbances, \* bound: steps of the session, the application, the errors and the ticks
    MaxChanges,      \* bound: changes of the feed's registry
    MaxSwitches,     \* bound: calls of the option chain's coordinators
    MaxDelivered,    \* bound: ticks delivered to the pipeline
    MaxCommands,     \* bound: commands given to it
    MaxWarmups,      \* bound: operations of the coordinator
    Closed           \* bound: candles of the price action engine

VARIABLES
    driven, \* the part the behaviour is about
    spent,  \* what of the first bound is used
    others  \* and of the second

marketVars ==
    <<driven, spent, others, feedVars, subVars, chainVars, proxyVars, deskVars,
      pipeVars, warmupVars, engineVars>>

\* A step that counts against a bound.
Spends(bound) == spent < bound /\ spent' = spent + 1 /\ UNCHANGED others
SpendsOther(bound) == others < bound /\ others' = others + 1 /\ UNCHANGED spent
Free == UNCHANGED <<spent, others>>
-----------------------------------------------------------------------------
(* The live feed: two tokens of two instruments, one of them in two modes,  *)
(* and two broker sessions.                                                 *)

FeedRow(t, i, m) == [token |-> t, instrument |-> i, mode |-> m]
MCSubscriptions ==
    {FeedRow(t1, nifty, "FULL"), FeedRow(t1, nifty, "LTP"), FeedRow(t2, banknifty, "FULL")}
MCConfigured == {FeedRow(t1, nifty, "FULL")}
MCRawTicks ==
    [token: {t1, t2}, price: {2}, bid: {2}, ask: {1, 3}, stamp: {"aware"}]
        \cup {[token |-> t1, price |-> 0, bid |-> 2, ask |-> 3, stamp |-> "aware"],
              [token |-> t1, price |-> 2, bid |-> 2, ask |-> 0, stamp |-> "unreadable"]}

FeedSteps(A) ==
    driven = "feed" /\ A
    /\ UNCHANGED <<driven, subVars, chainVars, proxyVars, deskVars, pipeVars, warmupVars, engineVars>>

FeedMoves ==
    \/ (LinkOpens \/ LinkDrops \/ LinkGivesUp \/ RuntimeSteps) /\ Free
    \/ (SessionSteps \/ ApplicationSwitches \/ LinkErrs \/ ProcessTick) /\ Spends(MaxDisturbances)
    \/ RegistrySteps /\ SpendsOther(MaxChanges)

Delivering == Deliver /\ Free
-----------------------------------------------------------------------------
(* Option chains: two universes that share a call, and two indices of the   *)
(* desktop, one of which may resolve to one of two universes.               *)

ChainRow(t) == [token |-> t, mode |-> "full"]
MCEntriesOf(u) == IF u = "u1" THEN {ChainRow("c1"), ChainRow("p1")} ELSE {ChainRow("c1"), ChainRow("p2")}

ChainSteps ==
    /\ driven = "chain"
    /\ \/ (TimePasses \/ Feeding) /\ Free
       \/ (Coordinating \/ LifecycleSwitches \/ Subscribing) /\ Spends(MaxSwitches)
    /\ UNCHANGED <<driven, feedVars, proxyVars, deskVars, pipeVars, warmupVars, engineVars>>

MCUniversesOf(i) == IF i = nifty THEN {{"c1", "p1"}, {"c1", "p2"}} ELSE {{"c3"}, {"c4"}}

DeskSteps ==
    driven = "desk" /\ DeskNext /\ Free
    /\ UNCHANGED <<driven, feedVars, subVars, chainVars, proxyVars, pipeVars, warmupVars, engineVars>>

FuturesSteps ==
    driven = "futures" /\ ProxyNext /\ Free
    /\ UNCHANGED <<driven, feedVars, subVars, chainVars, deskVars, pipeVars, warmupVars, engineVars>>
-----------------------------------------------------------------------------
(* Candles *)

MCTimeframes == <<"1m", "2m">>
MCWidth      == [tf \in {"1m", "2m"} |-> IF tf = "1m" THEN 2 ELSE 4]
MCContents   == {<<1, 0>>, <<2, 1>>}

\* The candles of the history a command brings: at most two, of one price.
Few(S) == {{a, b} : a, b \in {c \in S : c.close = 1}} \cup {{}}

Live ==
    /\ spent < MaxDelivered /\ spent' = spent + 1 /\ UNCHANGED others
    /\ \E t \in Ticks : /\ t.time \in now - Lag .. now
                        /\ \/ driven = "candles"
                           \/ driven = "warmup" /\ t.volume = 0 /\ t.time = now /\ spent < 2
                        /\ ProcessCandleTick(t) \/ (driven = "candles" /\ ProcessVwapTick(t))

Command ==
    /\ driven = "candles" /\ SpendsOther(MaxCommands)
    /\ \/ MarkVwapUnavailable
       \/ \E d \in Days, shape \in {"flat", "ranged"} : d < Day(now) /\ ProcessDailyOHLC(d, shape)
       \/ \E cs \in Few({c \in HistoricalCandles : c.start <= now}), replace \in BOOLEAN :
             WarmUpCandles(cs, replace)
       \/ ResetPipeline
       \/ StartStopPipeline

CandleSteps ==
    /\ driven \in {"candles", "warmup"}
    /\ (Pass /\ Free) \/ Live \/ Command
    /\ UNCHANGED <<driven, feedVars, subVars, chainVars, proxyVars, deskVars, warmupVars, engineVars>>

WarmupSteps ==
    /\ driven = "warmup" /\ SpendsOther(MaxWarmups)
    /\ \/ /\ others = 0
          /\ \E span \in {<<0, now>>, <<now - 3, now - 1>>}, previous \in BOOLEAN :
                span[1] >= 0 /\ WarmUpAll(span[1], span[2], previous)
       \/ Backfill(now)
       \/ ClearWarmup
       \/ others = 0 /\ StartStopPipeline /\ UNCHANGED warmupVars
    /\ UNCHANGED <<driven, feedVars, subVars, chainVars, proxyVars, deskVars, engineVars>>

Point(p) == [open |-> p, high |-> p, low |-> p, close |-> p]
Wide(o)  == [open |-> o, high |-> 5, low |-> 1, close |-> o]
MCCandles ==
    {[start |-> s, end |-> s + 1, volume |-> 0] @@ shape :
        s \in 1 .. Closed, shape \in {Point(p) : p \in {1, 2, 4, 5}} \cup {Wide(3)}}

PriceSteps ==
    /\ driven = "prices" /\ Free
    /\ \/ \E c \in Candles : c.start <= Len(engine.candles) + 1 /\ UpdateCandle(c)
       \/ ResetPriceAction
    /\ UNCHANGED <<driven, feedVars, subVars, chainVars, proxyVars, deskVars, pipeVars, warmupVars>>
-----------------------------------------------------------------------------
MarketInit ==
    /\ driven \in {"feed", "chain", "desk", "futures", "candles", "warmup", "prices"}
    /\ spent = 0 /\ others = 0
    /\ FeedInit /\ ChainInit /\ ProxyInit /\ DeskInit /\ WarmupInit /\ PriceActionInit
    /\ driven = "chain" \/ universe = "u1"

MarketNext ==
    \/ FeedSteps(FeedMoves) \/ FeedSteps(Delivering)
    \/ ChainSteps \/ DeskSteps \/ FuturesSteps
    \/ CandleSteps \/ WarmupSteps \/ PriceSteps

(* The client's thread does not stall: a queued callback is delivered. *)
MarketSpec == MarketInit /\ [][MarketNext]_marketVars /\ WF_marketVars(FeedSteps(Delivering))
=============================================================================
