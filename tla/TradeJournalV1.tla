---------------------------- MODULE TradeJournalV1 ----------------------------
(***************************************************************************)
(* The trade journal (engines/trade_journal_v1) and its runtime            *)
(* integration (application/trade_journal_runtime_integration_v1).  The    *)
(* integration starts and stops the journal and routes lifecycle snapshots *)
(* to it; the journal enters the closed position of a snapshot once and    *)
(* recomputes its performance statistics.                                  *)
(*                                                                         *)
(* Callers hold on to lifecycle snapshots, so any position that was ever   *)
(* closed may be routed at any time and again, from a snapshot that is the *)
(* one entered or a later one: a duplicate or a rejection, which only      *)
(* counters tell apart.  The trades' instruments, setups and confidences,  *)
(* by which the analytics group them too, are left out.                    *)
(*                                                                         *)
(* What analytics.py computes from the entries are operators on the        *)
(* sequence of their realized profits and losses, each translated from the *)
(* code's loop, and the same figures defined directly.  Averages and       *)
(* ratios are quotients of these figures and are left out.                 *)
(***************************************************************************)
EXTENDS Integers, Sequences, FiniteSets, SequencesExt, FiniteSetsExt

CONSTANTS
    ClosedPositions,   \* positions that are closed sooner or later
    Gains,             \* realized profits and losses
    MinimumTrends,     \* values of configuration.minimum_trades_for_trend
    Callers,           \* "INTEGRATION": it alone uses the journal; "ANY": others do too
    FlatTolerance,     \* configuration.flat_pnl_tolerance
    CurveLimit,        \* configuration.equity_curve_limit
    MaxRecorded        \* bound: trades recorded since the integration was cleared

ASSUME JournalAssumption ==
    /\ Gains \subseteq Int
    /\ MinimumTrends \subseteq Nat \ {0}
    /\ Callers \subseteq {"INTEGRATION", "ANY"}
    /\ MaxRecorded \in Nat
    /\ FlatTolerance \in Nat /\ CurveLimit \in Nat \ {0}

-------------------------------------------------------------------------------
(* Analytics *)

TradeOutcomeOf(gain) ==
    CASE gain > FlatTolerance  -> "WIN"
      [] gain < -FlatTolerance -> "LOSS"
      [] OTHER                 -> "FLAT"

Total(gains) == FoldLeft(LAMBDA sum, gain : sum + gain, 0, gains)

Of(outcome, gains) ==
    LET Is(gain) == TradeOutcomeOf(gain) = outcome IN SelectSeq(gains, Is)

Larger(a, b) == IF a > b THEN a ELSE b

\* _equity_curve: the points' drawdown amounts, the last CurveLimit of them.
Drawdowns(gains) ==
    LET step(acc, gain) ==
            LET cumulative == acc.cumulative + gain
                peak == Larger(acc.peak, cumulative)
            IN  [cumulative |-> cumulative, peak |-> peak,
                 points |-> Append(acc.points, peak - cumulative)]
        points == FoldLeft(step, [cumulative |-> 0, peak |-> 0, points |-> <<>>], gains).points
    IN  IF Len(points) <= CurveLimit THEN points
        ELSE SubSeq(points, Len(points) - CurveLimit + 1, Len(points))

\* A faulty form: a flat trade does not end a streak.
StreaksThroughFlats(gains) ==
    LET step(acc, gain) ==
            LET o == TradeOutcomeOf(gain)
                win  == IF o = "WIN" THEN acc.win + 1 ELSE IF o = "LOSS" THEN 0 ELSE acc.win
                loss == IF o = "LOSS" THEN acc.loss + 1 ELSE IF o = "WIN" THEN 0 ELSE acc.loss
            IN  [win |-> win, loss |-> loss, maxWin |-> Larger(acc.maxWin, win),
                 maxLoss |-> Larger(acc.maxLoss, loss)]
    IN  FoldLeft(step, [win |-> 0, loss |-> 0, maxWin |-> 0, maxLoss |-> 0], gains)

\* _streaks
Streaks(gains) ==
    LET step(acc, gain) ==
            LET o == TradeOutcomeOf(gain)
                win  == IF o = "WIN"  THEN acc.win + 1  ELSE 0
                loss == IF o = "LOSS" THEN acc.loss + 1 ELSE 0
            IN  [win |-> win, loss |-> loss, maxWin |-> Larger(acc.maxWin, win),
                 maxLoss |-> Larger(acc.maxLoss, loss)]
    IN  FoldLeft(step, [win |-> 0, loss |-> 0, maxWin |-> 0, maxLoss |-> 0], gains)

\* _trend for at least minimum trades; both halves have as many trades, so their
\* sums compare as their averages do.  The middle trade of an odd number is in
\* neither.  One trade has no halves: the code divides by zero.
Trend(gains, minimum) ==
    LET half    == Len(gains) \div 2
        earlier == Total(SubSeq(gains, 1, half))
        latest  == Total(SubSeq(gains, Len(gains) - half + 1, Len(gains)))
    IN  CASE Len(gains) < minimum                    -> "INSUFFICIENT_DATA"
          [] Len(gains) >= minimum /\ latest > earlier + half * FlatTolerance -> "IMPROVING"
          [] Len(gains) >= minimum /\ latest < earlier - half * FlatTolerance -> "DECLINING"
          [] OTHER                                   -> "STABLE"

TrendRaises(gains, minimum) == Len(gains) >= minimum /\ Len(gains) \div 2 = 0

\* _statistics
Statistics(gains, minimum) ==
    [trades   |-> Len(gains),
     wins     |-> Len(Of("WIN", gains)),
     losses   |-> Len(Of("LOSS", gains)),
     flats    |-> Len(Of("FLAT", gains)),
     total    |-> Total(gains),
     profit   |-> Total(Of("WIN", gains)),
     loss     |-> -Total(Of("LOSS", gains)),
     drawdown |-> FoldLeft(Larger, 0, Drawdowns(gains)),
     streaks  |-> Streaks(gains),
     trend    |-> Trend(gains, minimum)]

-------------------------------------------------------------------------------
(* The same figures without loops. *)

Sum(gains, from, to) ==
    MapThenSumSet(LAMBDA n : gains[n], {n \in DOMAIN gains : from <= n /\ n <= to})

\* Lengths of the runs of an outcome that end at trade n.
RunsEndingAt(outcome, gains, n) ==
    {k \in 0 .. n : \A m \in n - k + 1 .. n : TradeOutcomeOf(gains[m]) = outcome}

LongestRun(outcome, gains) ==
    Max(UNION {RunsEndingAt(outcome, gains, n) : n \in 0 .. Len(gains)})

\* The most the account fell from a level it had reached before, at one of the
\* points the equity curve keeps.
DeepestFall(gains) ==
    LET kept == {n \in DOMAIN gains : n > Len(gains) - CurveLimit}
    IN  Max({0} \cup {-Sum(gains, from, to) : from \in DOMAIN gains, to \in kept})

Figures(gains) ==
    LET which(outcome) == {n \in DOMAIN gains : TradeOutcomeOf(gains[n]) = outcome}
        worth(ns) == MapThenSumSet(LAMBDA n : gains[n], ns)
    IN  [trades   |-> Cardinality(DOMAIN gains),
         wins     |-> Cardinality(which("WIN")),
         losses   |-> Cardinality(which("LOSS")),
         flats    |-> Cardinality(which("FLAT")),
         total    |-> worth(DOMAIN gains),
         profit   |-> worth(which("WIN")),
         loss     |-> -worth(which("LOSS")),
         drawdown |-> DeepestFall(gains),
         streaks  |-> [win     |-> Max(RunsEndingAt("WIN", gains, Len(gains))),
                       loss    |-> Max(RunsEndingAt("LOSS", gains, Len(gains))),
                       maxWin  |-> LongestRun("WIN", gains),
                       maxLoss |-> LongestRun("LOSS", gains)]]

\* The trades of the earlier and of the later half, the sign of what they differ by.
TrendTells(gains, minimum, trend) ==
    LET half == Len(gains) \div 2
        gap  == Sum(gains, Len(gains) - half + 1, Len(gains)) - Sum(gains, 1, half)
    IN  /\ trend = "INSUFFICIENT_DATA" <=> Len(gains) < minimum
        /\ trend = "IMPROVING" => gap > half * FlatTolerance
        /\ trend = "DECLINING" => -gap > half * FlatTolerance
        /\ trend = "STABLE"    => gap \in -(half * FlatTolerance) .. half * FlatTolerance

-------------------------------------------------------------------------------
VARIABLES
    journalStatus,   \* TradeJournalV1Engine._status
    entries,         \* TradeJournalRegistry: the entries in order
    analytics,       \* _analytics_snapshot
    routerStatus,    \* TradeJournalRuntimeIntegrationV1._status
    recordedCount,   \* _recorded_count of the integration
    minimumTrend,    \* configuration, fixed at construction
    callers          \* who calls the journal, fixed

journalVars == <<journalStatus, entries, analytics, routerStatus, recordedCount,
                 minimumTrend, callers>>

JournalStatuses == {"CREATED", "RUNNING", "STOPPED", "CLEARED", "ERROR"}
RouterStatuses  == {"CREATED", "READY", "RUNNING", "STOPPED", "CLEARED", "ERROR"}

\* TradeJournalEntry: the position identifies it, the rest is its content.
Entry == [position : ClosedPositions, gain : Gains]

GainsOf(es) == [n \in DOMAIN es |-> es[n].gain]

-------------------------------------------------------------------------------
RouterInit == routerStatus = "CREATED" /\ recordedCount = 0

JournalInit ==
    /\ minimumTrend \in MinimumTrends
    /\ callers \in Callers
    /\ journalStatus = "CREATED"
    /\ entries = <<>>
    /\ analytics = Statistics(<<>>, minimumTrend)
    /\ RouterInit

fixed == <<minimumTrend, callers>>

\* A faulty form: only the latest entry is compared.
EnteredLast(p) == entries # <<>> /\ Last(entries).position = p

\* TradeJournalRegistry.add finds an entry of the position.
Entered(p) == \E n \in DOMAIN entries : entries[n].position = p

\* A faulty form: a restarted journal begins empty.
StartsAfresh ==
    /\ journalStatus' = "RUNNING" /\ entries' = <<>>
    /\ analytics' = Statistics(<<>>, minimumTrend)

\* The journal's own operations change these four, and leave the integration alone.
JournalStarts == journalStatus' = "RUNNING" /\ UNCHANGED <<entries, analytics>>
JournalStops  == journalStatus' = "STOPPED" /\ UNCHANGED <<entries, analytics>>

\* A faulty form: the statistics of the old entries stay.
ClearEntriesOnly ==
    journalStatus' = "CLEARED" /\ entries' = <<>> /\ UNCHANGED analytics

JournalClears ==
    /\ journalStatus' = "CLEARED"
    /\ entries' = <<>>
    /\ analytics' = Statistics(<<>>, minimumTrend)

\* record of a position not entered yet: the entry is added before the statistics
\* are computed, and stays when they raise, those of the whole journal or those of a
\* group of one trade.
Records(e) ==
    /\ ~Entered(e.position)
    /\ entries' = Append(entries, e)
    /\ ~TrendRaises(GainsOf(entries'), minimumTrend)
    /\ analytics' = Statistics(GainsOf(entries'), minimumTrend)
    /\ UNCHANGED journalStatus

RecordRaises(e) ==
    /\ ~Entered(e.position)
    /\ entries' = Append(entries, e)
    /\ TrendRaises(GainsOf(entries'), minimumTrend) \/ minimumTrend = 1
    /\ journalStatus' = "ERROR"
    /\ UNCHANGED analytics

\* An entered position is a duplicate, or rejected if its content differs; only
\* counters and the last message tell which.
Suppresses(p) == Entered(p) /\ UNCHANGED <<journalStatus, entries, analytics>>

RouterKeeps == UNCHANGED <<routerStatus, recordedCount>>

-------------------------------------------------------------------------------
(* Calls on the journal itself, by whoever else holds it. *)

DirectCall ==
    /\ callers = "ANY"
    /\ \/ journalStatus # "RUNNING" /\ JournalStarts
       \/ journalStatus # "STOPPED" /\ JournalStops
       \/ journalStatus = "STOPPED" /\ JournalClears
       \/ /\ journalStatus = "RUNNING"
          /\ \/ \E e \in Entry : Records(e) \/ RecordRaises(e)
             \/ \E p \in ClosedPositions : Suppresses(p)
             \/ journalStatus' = "ERROR" /\ UNCHANGED <<entries, analytics>>  \* not closed
    /\ RouterKeeps /\ UNCHANGED fixed

-------------------------------------------------------------------------------
(* The integration *)

RouterValidate ==
    /\ routerStatus' = IF journalStatus = "ERROR" THEN "ERROR" ELSE "READY"
    /\ UNCHANGED <<journalStatus, entries, analytics, recordedCount, fixed>>

\* start: validate; the lifecycle integration must not be in ERROR; start the journal.
RouterStart(lifecycleFailed) ==
    /\ routerStatus # "RUNNING"
    /\ IF journalStatus = "ERROR" \/ lifecycleFailed
       THEN routerStatus' = "ERROR" /\ UNCHANGED <<journalStatus, entries, analytics>>
       ELSE routerStatus' = "RUNNING" /\ JournalStarts
    /\ UNCHANGED <<recordedCount, fixed>>

RouterStop ==
    /\ routerStatus # "STOPPED"
    /\ routerStatus' = "STOPPED"
    /\ IF journalStatus = "RUNNING" THEN JournalStops
       ELSE UNCHANGED <<journalStatus, entries, analytics>>
    /\ UNCHANGED <<recordedCount, fixed>>

\* A faulty form: the journal keeps its entries.
RouterClearOwn ==
    /\ routerStatus = "STOPPED"
    /\ routerStatus' = "CLEARED"
    /\ recordedCount' = 0
    /\ UNCHANGED <<journalStatus, entries, analytics, fixed>>

\* clear: the journal is cleared with it only if it is STOPPED itself.
RouterClear ==
    /\ routerStatus = "STOPPED"
    /\ routerStatus' = "CLEARED"
    /\ recordedCount' = 0
    /\ IF journalStatus = "STOPPED" THEN JournalClears
       ELSE UNCHANGED <<journalStatus, entries, analytics>>
    /\ UNCHANGED fixed

\* route_lifecycle of a snapshot that shows a closed position, by how it ends.  A
\* snapshot of anything else moves only a counter.
RouteRecorded(e) ==
    /\ routerStatus = "RUNNING" /\ journalStatus = "RUNNING"
    /\ recordedCount < MaxRecorded
    /\ Records(e)
    /\ recordedCount' = recordedCount + 1
    /\ UNCHANGED <<routerStatus, fixed>>

\* A faulty form: a suppressed duplicate is counted as recorded.
SuppressedCounted(p) ==
    /\ routerStatus = "RUNNING" /\ journalStatus = "RUNNING"
    /\ Suppresses(p)
    /\ recordedCount' = recordedCount + 1
    /\ UNCHANGED <<routerStatus, fixed>>

RouteSuppressed(p) ==
    /\ routerStatus = "RUNNING" /\ journalStatus = "RUNNING"
    /\ Suppresses(p)
    /\ RouterKeeps /\ UNCHANGED fixed

RouteFailed(e) ==
    /\ routerStatus = "RUNNING"
    /\ \/ journalStatus # "RUNNING" /\ UNCHANGED <<journalStatus, entries, analytics>>
       \/ journalStatus = "RUNNING" /\ RecordRaises(e)
    /\ routerStatus' = "ERROR"
    /\ UNCHANGED <<recordedCount, fixed>>

JournalNext ==
    \/ DirectCall
    \/ RouterValidate \/ RouterStop \/ RouterClear
    \/ \E failed \in BOOLEAN : RouterStart(failed)
    \/ \E e \in Entry : RouteRecorded(e) \/ RouteFailed(e)
    \/ \E p \in ClosedPositions : RouteSuppressed(p)

JournalSpec == JournalInit /\ [][JournalNext]_journalVars

-------------------------------------------------------------------------------
JournalTypeOK ==
    /\ journalStatus \in JournalStatuses
    /\ routerStatus \in RouterStatuses
    /\ entries \in Seq(Entry)
    /\ recordedCount \in 0 .. MaxRecorded
    /\ minimumTrend \in MinimumTrends
    /\ callers \in Callers

\* However often and by whomever a closed position is routed, from whichever of its
\* snapshots, it is in the journal at most once.
EachPositionOnce ==
    \A m, n \in DOMAIN entries : m # n => entries[m].position # entries[n].position

\* What is in the journal stays there, unchanged and in its order, until the journal
\* is cleared: a restart of the journal or of the integration loses nothing.
EntriesAreKept ==
    [][IsPrefix(entries, entries') \/ journalStatus' = "CLEARED"]_journalVars

\* Used through the integration alone, the two components' records agree: the
\* integration has counted exactly the entries the journal holds, and a running
\* integration has a running journal.
RecordsAgree ==
    callers = "INTEGRATION" /\ minimumTrend > 1 =>
        /\ recordedCount = Len(entries)
        /\ routerStatus = "RUNNING" => journalStatus = "RUNNING"

\* The published statistics are those of the entries in the journal.  With a minimum
\* of one trade for the trend the first entry raises after it was added and the
\* statistics fall behind.
AnalyticsCurrent ==
    minimumTrend > 1 =>
        /\ [f \in DOMAIN analytics \ {"trend"} |-> analytics[f]] = Figures(GainsOf(entries))
        /\ TrendTells(GainsOf(entries), minimumTrend, analytics.trend)

\* The journal is a true record of the closed positions: each is in it once and stays
\* until it is cleared, the integration has counted the same entries, and the
\* statistics are of all of them and of nothing else, whoever starts, stops, clears
\* and records in whatever order (engine.py of both packages).
JournalIsTrue ==
    /\ [](JournalTypeOK /\ EachPositionOnce /\ RecordsAgree /\ AnalyticsCurrent)
    /\ EntriesAreKept
===============================================================================
