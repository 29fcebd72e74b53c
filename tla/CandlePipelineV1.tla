------------------------- MODULE CandlePipelineV1 -------------------------
(***************************************************************************)
(* How the ticks of one symbol become analysed candles: the market data    *)
(* engine that refuses stale ticks (engines/market_data), the candle       *)
(* engine of each timeframe (engines/candle), the VWAP engine              *)
(* (engines/vwap), the daily levels, and the SymbolRuntime that drives     *)
(* them (application/symbol_runtime.py: process_tick, process_vwap_tick,   *)
(* process_daily_ohlc, warm_up_candles, reset).                            *)
(*                                                                         *)
(* A lane is what the runtime keeps for one timeframe: the candle being    *)
(* built, the closed ones, how many of them it has passed on, and the      *)
(* candles its price action engine holds (PriceActionV1 shows that this    *)
(* list determines the rest of that engine).                               *)
(*                                                                         *)
(* Every command may be refused half way; what it did before stays.        *)
(***************************************************************************)
EXTENDS PriceActionV1, FiniteSets

CONSTANTS
    Timeframes,      \* the configured timeframes, the primary one first
    Width,           \* [timeframe -> length of its candles]
    DayLength,       \* time units in a day
    Opening,         \* the session's opening, within the day
    MaxTime,         \* bound: the last instant
    Lag,             \* how much older than the clock a delivered tick may be
    Prices, Volumes, \* of ticks
    Contents,        \* <<price, volume>> of historical candles
    AdrPeriod        \* days the average daily range needs

Primary == Timeframes[1]
Lanes == {Timeframes[i] : i \in DOMAIN Timeframes}

ASSUME BoundsOfCandles ==
    /\ Timeframes \in Seq(Lanes) /\ Timeframes # <<>>
    /\ Width \in [Lanes -> Nat \ {0}]
    /\ DayLength \in Nat \ {0} /\ Opening \in Nat /\ MaxTime \in Nat
    /\ Prices \subseteq Nat /\ Volumes \subseteq Nat
    /\ Contents \subseteq Nat \X Nat /\ IsFiniteSet(Contents)

Ticks == [time : 0 .. MaxTime, price : Prices, volume : Volumes]
Day(time) == time \div DayLength
Days == 0 .. Day(MaxTime)

CandleOf(start, width, price, volume) ==
    [start |-> start, end |-> start + width, open |-> price, high |-> price,
     low |-> price, close |-> price, volume |-> volume]

\* The candles the broker's history may hold: external.
HistoricalCandles ==
    {c \in {CandleOf(s, Width[Primary], x[1], x[2]) : s \in 0 .. MaxTime, x \in Contents} :
        (c.start - Opening) % Width[Primary] = 0}

VARIABLES
    now,        \* the clock
    status,     \* the runtime's
    feed,       \* the market data engine's latest tick
    lanes,      \* [timeframe -> lane]
    vwap,       \* the VWAP accumulator
    source,     \* _vwap_source_type
    daily,      \* [day -> "absent", "flat" or "ranged"]: _daily_ohlc_history
    levels,     \* the day CPR and Camarilla levels are of
    adr,        \* the days the average daily range was last taken over
    disturbed   \* history: a warm-up ended early or ran while a lane was behind

pipeVars == <<now, status, feed, lanes, vwap, source, daily, levels, adr, disturbed>>

EmptyLane == [building |-> None, closed |-> <<>>, counted |-> 0, analysed |-> <<>>]
EmptyVwap == [day |-> None, last |-> None, volume |-> 0]

-----------------------------------------------------------------------------
(* The candle engine.                                                      *)

\* BuildingCandle.from_tick: candles are counted from the session's opening.
Opened(t, width) ==
    LET open == Day(t.time) * DayLength + Opening
    IN  CandleOf(open + ((t.time - open) \div width) * width, width, t.price, t.volume)

\* is_same_candle.
Within(c, t) == c.start <= t.time /\ t.time < c.end

\* update_from_tick.
Extended(c, t) ==
    [c EXCEPT !.high = IF t.price > @ THEN t.price ELSE @,
              !.low = IF t.price < @ THEN t.price ELSE @,
              !.close = t.price, !.volume = @ + t.volume]

\* CandleEngine.on_tick.
Ticked(lane, width, t) ==
    IF lane.building = None THEN [lane EXCEPT !.building = Opened(t, width)]
    ELSE IF Within(lane.building, t) THEN [lane EXCEPT !.building = Extended(@, t)]
    ELSE [lane EXCEPT !.closed = Append(@, lane.building), !.building = Opened(t, width)]

StartsOf(cs) == {cs[i].start : i \in DOMAIN cs}

\* A set of candles with different starts, oldest first: each stands where as
\* many start before it.
InOrder(set) ==
    [i \in 1 .. Cardinality(set) |->
        CHOOSE c \in set : Cardinality({d \in set : d.start < c.start}) = i - 1]

\* _validate_strict_history.
Strict(cs) == \A i \in 1 .. Len(cs) - 1 : cs[i].start < cs[i + 1].start /\ cs[i].end <= cs[i + 1].start

\* What of the set cs seed_history() takes, None when it raises.  Conflicting
\* candles, candles that reach into the one being built, and candles older than
\* the newest closed one that are not already there are refused.
SeedAccepted(lane, cs, replace) ==
    LET new == {c \in cs : c.start \notin StartsOf(lane.closed)}
        known == {lane.closed[i] : i \in DOMAIN lane.closed}
        clash == \/ \E c, d \in cs : c # d /\ c.start = d.start
                 \/ /\ lane.building # None
                    /\ \E c \in cs : lane.building # None => c.start >= lane.building.start
        misfit == \/ \E c \in cs \ new : c \notin known
                  \/ lane.closed # <<>> /\ \E c \in new : c.start < Last(lane.closed).start
                  \/ ~Strict(lane.closed \o InOrder(new))
    IN  IF clash THEN None
        ELSE IF replace THEN InOrder(cs)
        ELSE IF misfit THEN None
        ELSE InOrder(new)

-----------------------------------------------------------------------------
(* The VWAP engine.                                                        *)

\* _prepare_existing_state raises on a tick older than the last one.
VwapStale(v, t) ==
    /\ v.day # None
    /\ v.day # None => \/ Day(t.time) < v.day
                       \/ Day(t.time) = v.day /\ v.last # None /\ (v.last # None => t.time < v.last.time)

\* VWAPEngine.on_tick; only the volume of the price-volume sum is kept.
VwapWith(v, t) ==
    LET today == IF v.day = Day(t.time) THEN v
                 ELSE [day |-> Day(t.time), last |-> None, volume |-> 0]
    IN  IF today.last = t THEN today
        ELSE [today EXCEPT !.last = t, !.volume = @ + t.volume]

\* _ready_futures_proxy.
ProxyReady == source = "Futures Proxy" /\ vwap.volume > 0

\* The volume a historical candle brings, as a tick at its end.
SeedTick(c) == [time |-> c.end, price |-> c.close, volume |-> c.volume]

-----------------------------------------------------------------------------
(* Handing closed candles to the analysis.                                 *)

\* PriceActionEngine.process on the list of candles, until one is refused.
Take(acc, c) ==
    IF acc.raised \/ ~ValidCandle(c) \/ Late(acc.list, c) THEN [acc EXCEPT !.raised = TRUE]
    ELSE IF acc.list # <<>> /\ StartsOf(acc.list) # {} /\ c.start \in StartsOf(acc.list)
    THEN [acc EXCEPT !.list = Append(SubSeq(@, 1, Len(@) - 1), c)]
    ELSE [acc EXCEPT !.list = Append(@, c)]

Analysed(list, cs) ==
    LET after[k \in 0 .. Len(cs)] ==
            IF k = 0 THEN [list |-> list, raised |-> FALSE] ELSE Take(after[k - 1], cs[k])
    IN  after[Len(cs)]

\* Mutant of PassOn: the count moves whether or not the candles were taken.
PassOnCountingFirst(acc, tf) ==
    LET lane == acc.lanes[tf]
        result == Analysed(lane.analysed, SubSeq(lane.closed, lane.counted + 1, Len(lane.closed)))
    IN  IF acc.raised THEN acc
        ELSE [lanes |-> [acc.lanes EXCEPT ![tf].analysed = result.list,
                                          ![tf].counted = Len(lane.closed)],
              raised |-> result.raised]

\* _process_closed_candles: lane by lane; a refused candle ends it, and the
\* lane's count is only moved once all its candles were taken.
PassOn(acc, tf) ==
    LET lane == acc.lanes[tf]
        result == Analysed(lane.analysed, SubSeq(lane.closed, lane.counted + 1, Len(lane.closed)))
        taken == [lane EXCEPT !.analysed = result.list,
                              !.counted = IF result.raised THEN @ ELSE Len(lane.closed)]
    IN  IF acc.raised THEN acc
        ELSE [lanes |-> [acc.lanes EXCEPT ![tf] = taken], raised |-> result.raised]

PassedOn(ls) ==
    LET after[k \in 0 .. Len(Timeframes)] ==
            IF k = 0 THEN [lanes |-> ls, raised |-> FALSE] ELSE PassOn(after[k - 1], Timeframes[k])
    IN  after[Len(Timeframes)]

\* One candle of a warm-up: price action first, then its volume to the VWAP.
WarmOne(acc, c) ==
    LET taken == Take([list |-> acc.list, raised |-> FALSE], c)
        t == SeedTick(c)
        fed == [acc EXCEPT !.list = taken.list]
    IN  IF acc.raised THEN acc
        ELSE IF taken.raised THEN [acc EXCEPT !.raised = TRUE]
        ELSE IF c.volume = 0 THEN fed
        ELSE IF VwapStale(acc.vwap, t) THEN [fed EXCEPT !.raised = TRUE]
        ELSE LET v == VwapWith(acc.vwap, t)
             IN  [fed EXCEPT !.vwap = v,
                             !.source = IF @ = "Futures Proxy" /\ v.volume > 0 THEN @ ELSE "Spot"]

Warmed(start, cs) ==
    LET after[k \in 0 .. Len(cs)] == IF k = 0 THEN start ELSE WarmOne(after[k - 1], cs[k])
    IN  after[Len(cs)]

-----------------------------------------------------------------------------
(* The average daily range: _refresh_adr, whose errors are swallowed.      *)

Known(d) == {x \in DOMAIN d : d[x] # "absent"}

\* ADREngine.calculate refuses a history with an invalid day in it, and one
\* that is too short.
AdrOver(d, old) ==
    LET days == SetToSortSeq(Known(d), <)
    IN  IF (\E x \in Known(d) : d[x] = "flat") \/ Len(days) < AdrPeriod THEN old
        ELSE SubSeq(days, Len(days) - AdrPeriod + 1, Len(days))

-----------------------------------------------------------------------------
(* Commands.                                                               *)

PipeInit ==
    /\ now = 0
    /\ status = "RUNNING"
    /\ feed = None
    /\ lanes = [tf \in Lanes |-> EmptyLane]
    /\ vwap = EmptyVwap
    /\ source = "-"
    /\ daily = [d \in Days |-> "absent"]
    /\ levels = None
    /\ adr = <<>>
    /\ disturbed = FALSE

\* The clock: external.
Pass ==
    /\ now < MaxTime
    /\ now' = now + 1
    /\ UNCHANGED <<status, feed, lanes, vwap, source, daily, levels, adr, disturbed>>

\* MarketDataEngine.on_tick takes a tick that is neither the latest again nor
\* older than it.
Fresh(t) == feed # None => t # feed /\ t.time >= feed.time

\* Which source the spot tick leaves the VWAP with.
SpotSource(v, t) ==
    IF t.volume > 0 /\ v.volume > 0 THEN "Spot" ELSE IF v.volume = 0 THEN "-" ELSE source

\* orchestrator.process_tick.  A VWAP that refuses the tick leaves the candles
\* ticked and nothing passed on.
ProcessCandleTick(t) ==
    LET ticked == [tf \in Lanes |-> Ticked(lanes[tf], Width[tf], t)]
        passed == PassedOn(ticked)
        spot == ~ProxyReady
        v == IF spot THEN VwapWith(vwap, t) ELSE vwap
    IN  /\ status = "RUNNING"
        /\ now - Lag <= t.time /\ t.time <= now
        /\ Fresh(t)
        /\ feed' = t
        /\ IF spot /\ VwapStale(vwap, t)
           THEN /\ lanes' = ticked
                /\ UNCHANGED <<vwap, source, adr>>
           ELSE /\ vwap' = v
                /\ source' = IF spot THEN SpotSource(v, t) ELSE source
                /\ lanes' = passed.lanes
                /\ adr' = IF passed.raised THEN adr ELSE AdrOver(daily, adr)
        /\ UNCHANGED <<now, status, daily, levels, disturbed>>

\* process_vwap_tick, from the futures VWAP manager.
ProcessVwapTick(t) ==
    /\ status = "RUNNING"
    /\ now - Lag <= t.time /\ t.time <= now
    /\ ~VwapStale(vwap, t)
    /\ vwap' = VwapWith(vwap, t)
    /\ source' = "Futures Proxy"
    /\ UNCHANGED <<now, status, feed, lanes, daily, levels, adr, disturbed>>

\* mark_vwap_unavailable, which names no source of its own.
MarkVwapUnavailable ==
    /\ source' = "-"
    /\ UNCHANGED <<now, status, feed, lanes, vwap, daily, levels, adr, disturbed>>

\* process_daily_ohlc: the day joins the history before the CPR engine may
\* refuse it, as a flat day or as one older than the levels'; after that
\* neither levels nor range are refreshed.
DailyFor(d, shape) ==
    LET refused == shape = "flat" \/ (levels # None /\ (levels # None => d < levels))
    IN  /\ daily' = [daily EXCEPT ![d] = shape]
        /\ levels' = IF refused THEN levels ELSE d
        /\ adr' = IF refused \/ feed = None THEN adr ELSE AdrOver(daily', adr)

ProcessDailyOHLC(d, shape) ==
    /\ status = "RUNNING"
    /\ DailyFor(d, shape)
    /\ UNCHANGED <<now, status, feed, lanes, vwap, source, disturbed>>

\* warm_up_candles: what the primary lane, the VWAP and its source become, what
\* was accepted and whether it raised.  `accepted' is None if nothing was done.
WarmUp(cs, replace) ==
    LET lane == lanes[Primary]
        accepted == SeedAccepted(lane, cs, replace)
        again == replace /\ accepted # <<>>
        history == IF replace THEN accepted ELSE lane.closed \o accepted
        start == [list |-> IF again THEN <<>> ELSE lane.analysed,
                  vwap |-> vwap, source |-> source, raised |-> FALSE]
        warm == Warmed(start, accepted)
    IN  IF accepted = None
        THEN [lane |-> lane, vwap |-> vwap, source |-> source, raised |-> TRUE,
              accepted |-> None]
        ELSE [lane |-> [lane EXCEPT !.closed = history, !.analysed = warm.list,
                                    !.counted = IF warm.raised THEN @ ELSE Len(history)],
              vwap |-> warm.vwap, source |-> warm.source, raised |-> warm.raised,
              accepted |-> accepted]

\* Lanes that are behind: closed candles the analysis has not been given.
Behind == \E tf \in Lanes : lanes[tf].counted < Len(lanes[tf].closed)

Apply(w, replace) ==
    /\ lanes' = [lanes EXCEPT ![Primary] = w.lane]
    /\ vwap' = w.vwap
    /\ source' = w.source
    /\ disturbed' = (\/ disturbed
                     \/ w.accepted # None /\ (w.raised \/ Behind)
                     \/ w.accepted = <<>> /\ replace)

WarmUpCandles(cs, replace) ==
    /\ status = "RUNNING"
    /\ Apply(WarmUp(cs, replace), replace)
    /\ UNCHANGED <<now, status, feed, daily, levels, adr>>

\* runtime.reset() as orchestrator.reset_symbol() calls it: the market data
\* engine keeps its latest tick.
ResetPipeline ==
    /\ lanes' = [tf \in Lanes |-> EmptyLane]
    /\ vwap' = EmptyVwap
    /\ source' = "-"
    /\ daily' = [d \in Days |-> "absent"]
    /\ levels' = None
    /\ adr' = <<>>
    /\ disturbed' = FALSE
    /\ UNCHANGED <<now, status, feed>>

\* runtime.start() and stop(): what is kept stays.
StartStopPipeline ==
    /\ status' = IF status = "RUNNING" THEN "STOPPED" ELSE "RUNNING"
    /\ UNCHANGED <<now, feed, lanes, vwap, source, daily, levels, adr, disturbed>>

PipeNext ==
    \/ Pass
    \/ \E t \in Ticks : ProcessCandleTick(t) \/ ProcessVwapTick(t)
    \/ MarkVwapUnavailable
    \/ \E d \in Days, shape \in {"flat", "ranged"} : d < Day(now) /\ ProcessDailyOHLC(d, shape)
    \/ \E cs \in SUBSET {c \in HistoricalCandles : c.start <= now}, replace \in BOOLEAN :
          WarmUpCandles(cs, replace)
    \/ ResetPipeline
    \/ StartStopPipeline

-----------------------------------------------------------------------------
(* Properties.                                                             *)

LaneOK(lane) ==
    /\ lane.counted \in Nat
    /\ \A i \in DOMAIN lane.closed : ValidCandle(lane.closed[i])
    /\ lane.building # None => ValidCandle(lane.building)

\* Types.
PipeTypeOK ==
    /\ now \in 0 .. MaxTime
    /\ status \in {"RUNNING", "STOPPED"}
    /\ feed \in Ticks \cup {None}
    /\ DOMAIN lanes = Lanes
    /\ \A tf \in Lanes : LaneOK(lanes[tf])
    /\ vwap.volume \in Nat
    /\ source \in {"-", "Spot", "Futures Proxy"}
    /\ levels \in Days \cup {None}

\* Every lane's analysis has been given exactly the candles that closed, in
\* order and up to a point no earlier than the runtime's count: a refused tick,
\* a refused candle of another lane, a stopped runtime or a warm-up lose none
\* and repeat none.  Three things void it, all of them warm-ups: one that is
\* refused after the history was seeded, one that finds a lane behind (it
\* counts candles it never passed on), one that replaces the history by
\* nothing.
AnalysisFollowsHistory ==
    ~disturbed =>
        \A tf \in Lanes :
            \E k \in lanes[tf].counted .. Len(lanes[tf].closed) :
                lanes[tf].analysed = Analysed(<<>>, SubSeq(lanes[tf].closed, 1, k)).list
=============================================================================
