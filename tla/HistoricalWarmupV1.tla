------------------------ MODULE HistoricalWarmupV1 ------------------------
(***************************************************************************)
(* The historical warm-up: the broker's history is fetched                 *)
(* (brokers/zerodha/historical: planner, client, normalizer, series        *)
(* validator, manager) and seeded into the running application by the      *)
(* HistoricalWarmupCoordinator (application/historical_warmup), either for *)
(* every configured instrument (warm_up) or from the newest closed candle  *)
(* of one (backfill).                                                      *)
(*                                                                         *)
(* One of the instruments, Own, is the symbol whose candle pipeline        *)
(* CandlePipelineV1 describes; what happens to the others' is any outcome. *)
(* A whole operation runs under the coordinator's lock and is one step.    *)
(***************************************************************************)
EXTENDS CandlePipelineV1

CONSTANTS
    Own,         \* the instrument of the pipeline
    Others,      \* the other configured instruments
    StrictGaps,  \* strict_gap_validation
    MaxRecords   \* bound: records in an answer of the broker

Instruments == {Own} \cup Others

ASSUME OthersAreFinite == IsFiniteSet(Others) /\ Own \notin Others /\ MaxRecords \in Nat

VARIABLES
    manager,   \* the ZerodhaHistoricalDataManager's counters
    warmup,    \* the coordinator
    entered    \* history: candles that entered Own's history through warm-ups
               \* that said so, since the coordinator was last cleared

warmupVars == <<manager, warmup, entered>>

-----------------------------------------------------------------------------
(* Fetching.                                                               *)

\* What the broker may answer over the chunks of a request: a failure of some
\* chunk, or raw records, some of which may not be candles at all.  External.
\* `twice' says that a record comes again, as at the end of one chunk and the
\* start of the next.
Answers(from, to) ==
    {[fails |-> TRUE, candles |-> {}, junk |-> 0, twice |-> 0]}
        \cup {a \in [fails : {FALSE},
                     candles : UNION {kSubset(k, {c \in HistoricalCandles : c.start \in from .. to}) :
                                        k \in 0 .. MaxRecords},
                     junk : 0 .. 1, twice : 0 .. 1] :
                /\ Cardinality(a.candles) + a.junk + a.twice <= MaxRecords
                /\ a.candles = {} => a.twice = 0}

\* ZerodhaHistoricalSeriesValidator.validate: conflicting candles raise.
Conflicting(cs) == \E c, d \in cs : c # d /\ c.start = d.start

\* _missing_gaps: only within a day.
Gaps(cs) ==
    LET seq == InOrder(cs)
    IN  {i \in 1 .. Len(seq) - 1 : /\ Day(seq[i].start) = Day(seq[i + 1].start)
                                   /\ seq[i].end < seq[i + 1].start}

\* ZerodhaHistoricalDataManager.fetch: what is fetched, None if it raises.
Fetched(a) == IF a.fails \/ Conflicting(a.candles) THEN None ELSE a.candles

\* _fetch_unlocked counts every record it was sent, junk and repeats included.
Records(a) == Cardinality(a.candles) + a.junk + a.twice

Managed(m, a) ==
    IF Fetched(a) = None
    THEN [m EXCEPT !.status = "ERROR", !.fetches = @ + 1, !.failures = @ + 1]
    ELSE [m EXCEPT !.status = IF a.candles = {} THEN "EMPTY" ELSE "READY",
                   !.fetches = @ + 1,
                   !.records = @ + Records(a),
                   !.normalized = @ + Cardinality(a.candles)]

-----------------------------------------------------------------------------
(* What a warm-up does to the instrument of the pipeline.                  *)

\* derive_daily_ohlc of a day's candles: one local date, high above low or not.
\* None when it raises.
DailyShape(cs) ==
    IF Cardinality({Day(c.start) : c \in cs}) # 1 THEN None
    ELSE IF \A c, d \in cs : c.high = d.low THEN "flat"
    ELSE "ranged"

Result(done, fetched, requested, accepted) ==
    [completed |-> done, fetched |-> fetched, requested |-> requested, accepted |-> accepted]

\* The result of an instrument whose warm-up raised somewhere: empty, whatever
\* was already seeded.
FailedResult == Result(FALSE, 0, 0, 0)

\* Other instruments' results.
AnyResult ==
    {FailedResult} \cup {Result(TRUE, 1, 1, k) : k \in 0 .. 1}

OtherResults == [Others -> AnyResult]

\* Mutant of ResultOf: what was asked for counts as accepted.
ResultAsAsked(cs, w) == Result(TRUE, Cardinality(cs), Cardinality(cs), Cardinality(cs))

\* _make_instrument_result.
ResultOf(cs, w) == Result(TRUE, Cardinality(cs), Cardinality(cs), Len(w.accepted))

\* The daily levels of the day before, if that was asked for and answered.
PreviousDay(a) ==
    LET shape == DailyShape(a.candles)
        d == Day((CHOOSE c \in a.candles : TRUE).start)
    IN  IF shape = None THEN UNCHANGED <<daily, levels, adr>> ELSE DailyFor(d, shape)

PreviousDayRaises(a) ==
    \/ Fetched(a) = None
    \/ /\ a.candles # {}
       /\ a.candles # {} =>
            LET shape == DailyShape(a.candles)
                d == Day((CHOOSE c \in a.candles : TRUE).start)
            IN  \/ shape \in {None, "flat"}
                \/ levels # None /\ (levels # None => d < levels)

\* The candles of the warm-up itself are fetched and, unless gaps forbid it,
\* seeded.
Seeds(a) == Fetched(a) # None /\ ~(StrictGaps /\ Gaps(a.candles) # {})

-----------------------------------------------------------------------------
(* The coordinator.                                                        *)

\* _finish_with_results.
StatusOf(results) ==
    LET failed == {i \in DOMAIN results : ~results[i].completed}
    IN  IF failed # {} /\ failed # DOMAIN results THEN "PARTIAL"
        ELSE IF failed # {} THEN "ERROR"
        ELSE IF \A i \in DOMAIN results : results[i].accepted = 0 THEN "EMPTY"
        ELSE "READY"

\* What the other instruments' results add up to.
Total(count) ==
    LET order == SetToSeq(DOMAIN count)
        after[k \in 0 .. Len(order)] == IF k = 0 THEN 0 ELSE after[k - 1] + count[order[k]]
    IN  after[Len(order)]

Accepted(others) == Total([i \in DOMAIN others |-> others[i].accepted])
FetchedBy(others) == Total([i \in DOMAIN others |-> others[i].fetched])

Finished(w, operation, own, others) ==
    LET results == [i \in {Own} \cup DOMAIN others |-> IF i = Own THEN own ELSE others[i]]
        s == StatusOf(results)
    IN  [status |-> s, operation |-> operation, results |-> results,
         operations |-> w.operations + 1,
         successes |-> w.successes + (IF s = "ERROR" THEN 0 ELSE 1),
         failures |-> w.failures + (IF s = "ERROR" THEN 1 ELSE 0),
         fetched |-> w.fetched + own.fetched + FetchedBy(others),
         seeded |-> w.seeded + own.accepted + Accepted(others)]

\* _begin_operation followed by an exception: the old results are gone.
Refused(w, operation) ==
    [w EXCEPT !.status = "ERROR", !.operation = operation, !.results = <<>>,
              !.operations = @ + 1, !.failures = @ + 1]

NewCoordinator ==
    [status |-> "CREATED", operation |-> None, results |-> <<>>,
     operations |-> 0, successes |-> 0, failures |-> 0, fetched |-> 0, seeded |-> 0]

NewManager == [status |-> "CREATED", fetches |-> 0, failures |-> 0, records |-> 0, normalized |-> 0]

\* How many candles the step adds to the history.
Growth == Len(lanes'[Primary].closed) - Len(lanes[Primary].closed)

\* The pipeline is left alone.
KeepPipeline == UNCHANGED <<lanes, vwap, source, disturbed>>

\* _warm_up_resolution of Own with answers p for the day before (None if not
\* asked for) and a for the range itself; others' results are any.
WarmOwn(p, a, others) ==
    LET asked == p # None
        early == IF asked THEN PreviousDayRaises(p) ELSE FALSE
        seeding == ~early /\ Seeds(a)
        w == WarmUp(a.candles, FALSE)
        own == IF seeding /\ ~w.raised THEN ResultOf(a.candles, w) ELSE FailedResult
        first == IF asked THEN Managed(manager, p) ELSE manager
    IN  /\ manager' = IF early THEN first ELSE Managed(first, a)
        /\ IF asked /\ (asked => Fetched(p) # None)
           THEN PreviousDay(p) ELSE UNCHANGED <<daily, levels, adr>>
        /\ IF seeding THEN Apply(w, FALSE) ELSE KeepPipeline
        /\ warmup' = Finished(warmup, "WARMUP", own, others)
        /\ entered' = entered + Accepted(others)
                             + (IF own.completed THEN Growth ELSE 0)

\* warm_up(): the lifecycle must be running and the ranges valid.
WarmUpAll(from, to, previous) ==
    \/ /\ status = "RUNNING" /\ from < to
       /\ \E a \in Answers(from, to), others \in OtherResults :
            \E p \in IF previous THEN Answers(from - DayLength, from) ELSE {None} :
                WarmOwn(p, a, others)
       /\ UNCHANGED <<now, status, feed>>
    \/ /\ status # "RUNNING" \/ from >= to
       /\ warmup' = Refused(warmup, "WARMUP")
       /\ UNCHANGED <<manager, entered>> /\ UNCHANGED pipeVars

\* Mutant of Eligible: the candle still running counts.
EligibleWithRunning(cs, to) ==
    {c \in cs : c.start \notin StartsOf(lanes[Primary].closed)}

\* backfill() keeps the candles that are new and complete at `to'.
Eligible(cs, to) ==
    {c \in cs : c.start \notin StartsOf(lanes[Primary].closed) /\ c.end <= to}

BackfillWith(a, to) ==
    LET new == Eligible(a.candles, to)
        w == WarmUp(new, FALSE)
        result == [ResultOf(new, w) EXCEPT !.fetched = Cardinality(a.candles)]
    IN  /\ manager' = Managed(manager, a)
        /\ IF Fetched(a) = None
           THEN KeepPipeline /\ warmup' = Refused(warmup, "BACKFILL") /\ entered' = entered
           ELSE /\ Apply(w, FALSE)
                /\ IF w.raised
                   THEN warmup' = Refused(warmup, "BACKFILL") /\ entered' = entered
                   ELSE /\ warmup' = Finished(warmup, "BACKFILL", result, <<>>)
                        /\ entered' = entered + Growth

Backfill(to) ==
    LET closed == lanes[Primary].closed
        from == Last(closed).end
    IN  \/ /\ status # "RUNNING" \/ closed = <<>> \/ (closed # <<>> => to < from)
           /\ warmup' = Refused(warmup, "BACKFILL")
           /\ UNCHANGED <<manager, entered>> /\ UNCHANGED pipeVars
        \/ /\ status = "RUNNING" /\ closed # <<>> /\ (closed # <<>> => to = from)
           /\ warmup' = Finished(warmup, "BACKFILL", Result(TRUE, 0, 0, 0), <<>>)
           /\ UNCHANGED <<manager, entered>> /\ UNCHANGED pipeVars
        \/ /\ status = "RUNNING" /\ closed # <<>> /\ (closed # <<>> => to > from)
           /\ \E a \in Answers(from, to) : BackfillWith(a, to)
           /\ UNCHANGED <<now, status, feed, daily, levels, adr>>

\* The coordinator's clear() and the manager's.
ClearWarmup ==
    /\ warmup' = [NewCoordinator EXCEPT !.status = "CLEARED"]
    /\ manager' = [NewManager EXCEPT !.status = "CLEARED"]
    /\ entered' = 0
    /\ UNCHANGED pipeVars

WarmupInit == PipeInit /\ manager = NewManager /\ warmup = NewCoordinator /\ entered = 0

WarmupNext ==
    \/ \E from, to \in 0 .. MaxTime, previous \in BOOLEAN :
          to <= now /\ WarmUpAll(from, to, previous)
    \/ \E to \in 0 .. now : Backfill(to)
    \/ ClearWarmup
    \/ PipeNext /\ UNCHANGED warmupVars

WarmupSpec == WarmupInit /\ [][WarmupNext]_<<pipeVars, warmupVars>>

-----------------------------------------------------------------------------
(* Properties.                                                             *)

\* The coordinator's books: every operation ends as a success or a failure,
\* and the candles it reports as seeded are those that entered a history in
\* operations that did not fail - though one that failed may have seeded some.
\* Its status tells of the results it shows.
WarmupBooks ==
    /\ warmup.operations = warmup.successes + warmup.failures
    /\ warmup.seeded = entered
    /\ warmup.seeded <= warmup.fetched
    /\ warmup.status = "READY" => \E i \in DOMAIN warmup.results : warmup.results[i].accepted > 0
    /\ manager.normalized <= manager.records

\* A backfill never seeds a candle that is not over yet: everything it adds to
\* the history ends by the clock.
BackfillAddsClosedOnly ==
    [][(warmup'.operation = "BACKFILL" /\ warmup'.operations > warmup.operations) =>
        \A i \in Len(lanes[Primary].closed) + 1 .. Len(lanes'[Primary].closed) :
            lanes'[Primary].closed[i].end <= now]_<<pipeVars, warmupVars>>

\* The history of a symbol and what is computed from it stay sound through
\* warm-ups, backfills and live ticks.
HistoryIsSound == [](AnalysisFollowsHistory /\ WarmupBooks) /\ BackfillAddsClosedOnly
=============================================================================
