--------------------------- MODULE PriceActionV1 ---------------------------
(***************************************************************************)
(* The price action engine of one symbol and one timeframe                 *)
(* (engines/price_action).  It is handed the closed candles one by one,    *)
(* confirms a swing high or low RightBars candles after it happened,       *)
(* labels it against the swing before, and reports trend, breaks of        *)
(* structure, liquidity sweeps and pullbacks.  The newest candle may be    *)
(* corrected: the engine then forgets what it derived and replays every    *)
(* candle it holds.                                                        *)
(*                                                                         *)
(* `engine' is one record with the engine's fields; `state' in it is what  *)
(* it published last.  Prices are small integers, times are slots.         *)
(***************************************************************************)
EXTENDS NoneValue, Integers, Sequences, FiniteSets, SequencesExt

CONSTANTS
    LeftBars,   \* candles before a swing that it must top (or undercut)
    RightBars,  \* candles after it that confirm it
    Candles     \* the candles that may be handed to the engine

CandleRecords ==
    [start : Int, end : Int, open : Int, high : Int, low : Int, close : Int, volume : Nat]

\* What the engine finds and publishes.
StructureTypes ==
    {"HIGHER_HIGH", "LOWER_HIGH", "EQUAL_HIGH", "HIGHER_LOW", "LOWER_LOW", "EQUAL_LOW"}
BreakTypes == {"BULLISH_BOS", "BEARISH_BOS", "BULLISH_CHOCH", "BEARISH_CHOCH"}
Trends == {"UNKNOWN", "BULLISH", "BEARISH", "RANGE"}
Sweeps == {"NONE", "BUY_SIDE", "SELL_SIDE", "BOTH_SIDES"}
Directions == {"NONE", "BULLISH", "BEARISH"}
SwingPoints ==
    [type : {"HIGH", "LOW"}, structure : StructureTypes \cup {None}, price : Int, index : Nat]
StructureBreaks == [type : BreakTypes, level : Int, price : Int]
Swing == SwingPoints \cup {None}
States ==
    [count : Nat, last : CandleRecords, trend : Trends,
     high : Swing, low : Swing, previousHigh : Swing, previousLow : Swing,
     break : StructureBreaks \cup {None}, directions : [bos : Directions, choch : Directions],
     hh : Swing, hl : Swing, lh : Swing, ll : Swing, range : BOOLEAN,
     pullback : {"NONE", "BULLISH_PULLBACK", "BEARISH_PULLBACK"}, sweep : Sweeps]

\* The bars are counts, and no swing, label, break or state is taken for None.
ASSUME PriceActionAssumption ==
    /\ LeftBars \in Nat /\ RightBars \in Nat
    /\ Candles \subseteq CandleRecords /\ IsFiniteSet(Candles)
    /\ None \notin StructureTypes \cup BreakTypes /\ None \notin SwingPoints
    /\ None \notin StructureBreaks /\ None \notin States

\* _validate_candle: prices are positive and the open and the close lie within
\* the candle's range.
ValidCandle(c) ==
    /\ c.start < c.end
    /\ 0 < c.low
    /\ c.open \in c.low .. c.high
    /\ c.close \in c.low .. c.high

EmptyEngine ==
    [candles |-> <<>>, state |-> None,
     high |-> None, previousHigh |-> None, low |-> None, previousLow |-> None,
     hh |-> None, hl |-> None, lh |-> None, ll |-> None,
     break |-> None, sweep |-> "NONE", trend |-> "UNKNOWN", broken |-> {}]

-----------------------------------------------------------------------------
(* Swings.                                                                 *)

SwingPoint(type, structure, price, index) ==
    [type |-> type, structure |-> structure, price |-> price, index |-> index]

\* The swing the newest candle confirms, None if there is none.  A candle that
\* tops and undercuts its neighbours at once confirms nothing.
ConfirmedSwing(cs) ==
    LET i == Len(cs) - RightBars
        others == (i - LeftBars .. i + RightBars) \ {i}
        isHigh == \A j \in others : cs[i].high > cs[j].high
        isLow == \A j \in others : cs[i].low < cs[j].low
    IN  IF i <= LeftBars THEN None
        ELSE IF isHigh = isLow THEN None
        ELSE IF isHigh THEN SwingPoint("HIGH", None, cs[i].high, i)
        ELSE SwingPoint("LOW", None, cs[i].low, i)

\* The label of a swing at `price' after the swing `previous' of its kind.
Structure(previous, price, higher, lower, equal) ==
    IF previous = None THEN None
    ELSE IF price > previous.price THEN higher
    ELSE IF price < previous.price THEN lower
    ELSE equal

SwungHigh(e, s) ==
    LET swing == [s EXCEPT !.structure =
                    Structure(e.high, s.price, "HIGHER_HIGH", "LOWER_HIGH", "EQUAL_HIGH")]
    IN  [e EXCEPT !.previousHigh = e.high, !.high = swing,
                  !.hh = IF swing.structure = "HIGHER_HIGH" THEN swing ELSE @,
                  !.lh = IF swing.structure = "LOWER_HIGH" THEN swing ELSE @]

SwungLow(e, s) ==
    LET swing == [s EXCEPT !.structure =
                    Structure(e.low, s.price, "HIGHER_LOW", "LOWER_LOW", "EQUAL_LOW")]
    IN  [e EXCEPT !.previousLow = e.low, !.low = swing,
                  !.hl = IF swing.structure = "HIGHER_LOW" THEN swing ELSE @,
                  !.ll = IF swing.structure = "LOWER_LOW" THEN swing ELSE @]

Swung(e) ==
    LET s == ConfirmedSwing(e.candles)
    IN  IF s = None THEN e
        ELSE IF s.type = "HIGH" THEN SwungHigh(e, s)
        ELSE SwungLow(e, s)

TrendOf(high, low) ==
    IF \/ high = None \/ low = None
       \/ high.structure = None \/ low.structure = None
    THEN "UNKNOWN"
    ELSE IF high.structure = "HIGHER_HIGH" /\ low.structure = "HIGHER_LOW" THEN "BULLISH"
    ELSE IF high.structure = "LOWER_HIGH" /\ low.structure = "LOWER_LOW" THEN "BEARISH"
    ELSE "RANGE"

-----------------------------------------------------------------------------
(* Breaks of structure and liquidity sweeps.                               *)

SwingKey(s) == [type |-> s.type, index |-> s.index, price |-> s.price]

\* A close beyond the last swing breaks it, once.
HighBrokenAgain(e, c) == e.high # None /\ (e.high # None => c.close > e.high.price)
LowBrokenByTouch(e, c) ==
    e.low # None /\ (e.low # None => SwingKey(e.low) \notin e.broken /\ c.close <= e.low.price)
BreaksHigh(e, c) ==
    e.high # None /\ (e.high # None => SwingKey(e.high) \notin e.broken /\ c.close > e.high.price)
BreaksLow(e, c) ==
    e.low # None /\ (e.low # None => SwingKey(e.low) \notin e.broken /\ c.close < e.low.price)

\* _detect_break raises when one close breaks both sides.
TwoSided(e, c) == BreaksHigh(e, c) /\ BreaksLow(e, c)

NewBreak(e, c) ==
    IF BreaksHigh(e, c)
    THEN [type |-> IF e.trend = "BEARISH" THEN "BULLISH_CHOCH" ELSE "BULLISH_BOS",
          level |-> e.high.price, price |-> c.close]
    ELSE IF BreaksLow(e, c)
    THEN [type |-> IF e.trend = "BULLISH" THEN "BEARISH_CHOCH" ELSE "BEARISH_BOS",
          level |-> e.low.price, price |-> c.close]
    ELSE None

BrokenWith(e, c) ==
    e.broken \cup (IF BreaksHigh(e, c) THEN {SwingKey(e.high)}
                   ELSE IF BreaksLow(e, c) THEN {SwingKey(e.low)}
                   ELSE {})

\* A wick beyond the last swing that closes back inside takes its liquidity.
SweepOf(e, c) ==
    LET buy == /\ e.high # None
               /\ e.high # None => c.high > e.high.price /\ c.close <= e.high.price
               /\ ~BreaksHigh(e, c)
        sell == /\ e.low # None
                /\ e.low # None => c.low < e.low.price /\ c.close >= e.low.price
                /\ (BreaksLow(e, c) => BreaksHigh(e, c))
    IN  IF buy /\ sell THEN "BOTH_SIDES"
        ELSE IF buy THEN "BUY_SIDE"
        ELSE IF sell THEN "SELL_SIDE"
        ELSE "NONE"

-----------------------------------------------------------------------------
(* What is published.                                                      *)

BreakDirections(break) ==
    LET type == IF break = None THEN None ELSE break.type
    IN  [bos |-> IF type = "BULLISH_BOS" THEN "BULLISH"
                 ELSE IF type = "BEARISH_BOS" THEN "BEARISH" ELSE "NONE",
         choch |-> IF type = "BULLISH_CHOCH" THEN "BULLISH"
                   ELSE IF type = "BEARISH_CHOCH" THEN "BEARISH" ELSE "NONE"]

Pullback(e, c) ==
    IF e.trend = "BULLISH" /\ c.close < e.high.price THEN "BULLISH_PULLBACK"
    ELSE IF e.trend = "BEARISH" /\ c.close > e.low.price THEN "BEARISH_PULLBACK"
    ELSE "NONE"

Published(e, c) ==
    [count |-> Len(e.candles), last |-> c, trend |-> e.trend,
     high |-> e.high, low |-> e.low,
     previousHigh |-> e.previousHigh, previousLow |-> e.previousLow,
     break |-> e.break, directions |-> BreakDirections(e.break),
     hh |-> e.hh, hl |-> e.hl, lh |-> e.lh, ll |-> e.ll,
     range |-> e.trend = "RANGE", pullback |-> Pullback(e, c), sweep |-> e.sweep]

-----------------------------------------------------------------------------
(* update().                                                               *)

\* _accept_new_candle: the break and the sweep are judged against the swings
\* known before the candle, the trend against those known after it.
Accept(e, c) ==
    LET grown == [e EXCEPT !.broken = BrokenWith(e, c), !.candles = Append(@, c)]
        swung == Swung(grown)
        new == NewBreak(e, c)
        next == [swung EXCEPT !.trend = TrendOf(swung.high, swung.low),
                              !.break = IF new = None THEN @ ELSE new,
                              !.sweep = SweepOf(e, c)]
    IN  [next EXCEPT !.state = Published(next, c)]

\* _reset_derived_state, for a replay of the candles.
ForgottenButBroken(e) == [EmptyEngine EXCEPT !.broken = e.broken]
Forgotten(e) == EmptyEngine

\* Candle after candle is accepted, from what the engine knows at the start.
Replayed(start, cs) ==
    LET after[k \in 0 .. Len(cs)] == IF k = 0 THEN start ELSE Accept(after[k - 1], cs[k])
    IN  after[Len(cs)]

\* _apply_latest_correction.
Corrected(e, c) ==
    Replayed(Forgotten(e), Append(Front(e.candles), c))

\* update() raises on a candle that is stale or overlaps the newest.
Late(cs, c) ==
    /\ cs # <<>>
    /\ cs # <<>> => /\ c.start # Last(cs).start
                    /\ c.start < Last(cs).end

Raises(e, c) ==
    \/ ~ValidCandle(c)
    \/ Late(e.candles, c)
    \/ (e.candles # <<>> => c.start # Last(e.candles).start) /\ TwoSided(e, c)

Updated(e, c) ==
    IF e.candles = <<>> THEN Accept(e, c)
    ELSE IF c = Last(e.candles) THEN e
    ELSE IF c.start = Last(e.candles).start THEN Corrected(e, c)
    ELSE Accept(e, c)

-----------------------------------------------------------------------------
VARIABLE engine

engineVars == <<engine>>

PriceActionInit == engine = EmptyEngine

\* update(); a candle that raises leaves the engine as it is.
UpdateCandle(c) == ~Raises(engine, c) /\ engine' = Updated(engine, c)

ResetPriceAction == engine' = EmptyEngine

PriceActionNext == (\E c \in Candles : UpdateCandle(c)) \/ ResetPriceAction

PriceActionSpec == PriceActionInit /\ [][PriceActionNext]_engineVars

-----------------------------------------------------------------------------
(* Properties.                                                             *)

\* Whatever was corrected on the way, the engine stands where an engine would
\* that was handed the candles it holds and nothing else: no swing, broken
\* level or sweep of a candle that was corrected away is left behind
\* (_apply_latest_correction and _reset_derived_state).
CorrectionLeavesNoTrace == engine = Replayed(EmptyEngine, engine.candles)

\* No close ever breaks the last swing high and the last swing low at once: the
\* RuntimeError of _detect_break, which would make every later tick of the
\* symbol raise, cannot happen.
NoTwoSidedBreak == \A c \in Candles : ValidCandle(c) => ~TwoSided(engine, c)

\* The market seen upside down: prices mirrored, highs and lows, bulls and
\* bears exchanged.
MirrorSum == 1 + CHOOSE p \in {c.high : c \in Candles} : \A c \in Candles : c.high <= p

Opposite ==
    [HIGH |-> "LOW", LOW |-> "HIGH",
     HIGHER_HIGH |-> "LOWER_LOW", LOWER_LOW |-> "HIGHER_HIGH",
     LOWER_HIGH |-> "HIGHER_LOW", HIGHER_LOW |-> "LOWER_HIGH",
     EQUAL_HIGH |-> "EQUAL_LOW", EQUAL_LOW |-> "EQUAL_HIGH",
     BULLISH |-> "BEARISH", BEARISH |-> "BULLISH", RANGE |-> "RANGE", UNKNOWN |-> "UNKNOWN",
     BULLISH_BOS |-> "BEARISH_BOS", BEARISH_BOS |-> "BULLISH_BOS",
     BULLISH_CHOCH |-> "BEARISH_CHOCH", BEARISH_CHOCH |-> "BULLISH_CHOCH",
     BULLISH_PULLBACK |-> "BEARISH_PULLBACK", BEARISH_PULLBACK |-> "BULLISH_PULLBACK",
     BUY_SIDE |-> "SELL_SIDE", SELL_SIDE |-> "BUY_SIDE", BOTH_SIDES |-> "BOTH_SIDES",
     NONE |-> "NONE"]

MirroredCandle(c) ==
    [c EXCEPT !.open = MirrorSum - c.open, !.close = MirrorSum - c.close,
              !.high = MirrorSum - c.low, !.low = MirrorSum - c.high]

MirroredSwing(s) ==
    IF s = None THEN None
    ELSE [s EXCEPT !.type = Opposite[@], !.price = MirrorSum - @,
                   !.structure = IF @ = None THEN None ELSE Opposite[@]]

MirroredBreak(b) ==
    IF b = None THEN None
    ELSE [type |-> Opposite[b.type], level |-> MirrorSum - b.level, price |-> MirrorSum - b.price]

MirroredState(s) ==
    IF s = None THEN None
    ELSE [count |-> s.count, last |-> MirroredCandle(s.last), trend |-> Opposite[s.trend],
          high |-> MirroredSwing(s.low), low |-> MirroredSwing(s.high),
          previousHigh |-> MirroredSwing(s.previousLow),
          previousLow |-> MirroredSwing(s.previousHigh),
          break |-> MirroredBreak(s.break),
          directions |-> [bos |-> Opposite[s.directions.bos],
                          choch |-> Opposite[s.directions.choch]],
          hh |-> MirroredSwing(s.ll), hl |-> MirroredSwing(s.lh),
          lh |-> MirroredSwing(s.hl), ll |-> MirroredSwing(s.hh),
          range |-> s.range, pullback |-> Opposite[s.pullback], sweep |-> Opposite[s.sweep]]

\* The engine reads a falling market exactly as it reads the rising one upside
\* down: the code writes every rule twice, once for highs and once for lows, and
\* the two halves agree in labels, trend, breaks, sweeps and pullbacks.
BothSidesAlike ==
    Replayed(EmptyEngine,
             [i \in 1 .. Len(engine.candles) |-> MirroredCandle(engine.candles[i])]).state
        = MirroredState(engine.state)

\* The engine's reading of a market depends on its candles alone, contradicts
\* itself nowhere and favours no side.
PriceActionIsSound == CorrectionLeavesNoTrace /\ NoTwoSidedBreak /\ BothSidesAlike
=============================================================================
