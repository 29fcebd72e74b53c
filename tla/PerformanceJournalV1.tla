------------------------- MODULE PerformanceJournalV1 -------------------------
(***************************************************************************)
(* Performance analytics (engines/performance_analytics) behind the paper  *)
(* trading engine: every closed trade is published on the event bus, the   *)
(* analytics engine appends it to a JSON Lines file, keeps it, and makes   *)
(* its snapshot anew.  An append may fail before it wrote anything, after  *)
(* a part, or after everything, and the process may die in the middle of   *)
(* one; a restarted process reads the file again.                          *)
(***************************************************************************)
EXTENDS PaperTradingV1, Sequences

CONSTANTS
  Candles,      \* closed candles: <<low, high, close>>
  Persistent,   \* persistence is enabled
  MaxLines      \* bound on the lines of the file

ASSUME CandlesAreRead == Candles \subseteq Int \X Int \X Int

VARIABLES
  journal, \* [kept, shown, accepted, duplicates, conflicts]
  file,    \* [lines, torn]: a line is {} or {a trade}, torn an unfinished last one
  fate     \* history: [lost, damaged], results no append stored, a torn append

journalVars == <<journal, file, fate>>
tradingVars == <<desk, latest, time, journal, file, fate>>

NoJournal == [kept |-> {}, shown |-> {}, accepted |-> 0, duplicates |-> 0, conflicts |-> 0]
NoFile == [lines |-> <<>>, torn |-> None]

SameTrade(r, s) == r.plan.id = s.plan.id

(* A line that follows an unfinished one continues it, and neither is read. *)
Appended(f, r) ==
  [lines |-> Append(f.lines, IF f.torn = None THEN {r} ELSE {}), torn |-> None]

(* What is left when writing stops early: a part, or all but the newline. *)
TornAppends(f, r) ==
  {[f EXCEPT !.torn = {}], [f EXCEPT !.torn = IF @ = None THEN {r} ELSE {}]}

(* _append and _write_all: the line written, nothing, a part of it, or the  *)
(* line written and the flush failed.                                       *)
Writes(f, r) ==
  {[file |-> Appended(f, r), ok |-> TRUE], [file |-> f, ok |-> FALSE],
   [file |-> Appended(f, r), ok |-> FALSE]}
  \cup {[file |-> g, ok |-> FALSE] : g \in TornAppends(f, r)}

AllLines(f) == IF f.torn = None THEN f.lines ELSE Append(f.lines, f.torn)

(* load: line by line, corrupt ones skipped, and the first trade of an      *)
(* identifier stands.                                                       *)
Loaded(f) ==
  LET lines == AllLines(f) IN
  UNION {IF \E j \in 1 .. i - 1 : \E r \in lines[i], s \in lines[j] : SameTrade(r, s)
           THEN {} ELSE lines[i] : i \in DOMAIN lines}

(* A variant: the trade is kept before the append that may fail. *)
StoredFirst(j, f, r) ==
  {[journal |-> [j EXCEPT !.kept = @ \cup {r}, !.shown = j.kept \cup {r}, !.accepted = @ + 1],
    file |-> w.file, lost |-> {}] : w \in Writes(f, r)}

(* add and record_trade of a trade not known: appended, then kept, counted  *)
(* and shown; a failing append raises and leaves the engine as it was.      *)
Stored(j, f, r) ==
  IF Persistent
    THEN {IF w.ok
            THEN [journal |-> [j EXCEPT !.kept = @ \cup {r}, !.shown = j.kept \cup {r},
                                        !.accepted = @ + 1],
                  file |-> w.file, lost |-> {}]
            ELSE [journal |-> j, file |-> w.file, lost |-> {r}] : w \in Writes(f, r)}
    ELSE {[journal |-> [j EXCEPT !.kept = @ \cup {r}, !.shown = j.kept \cup {r},
                                 !.accepted = @ + 1],
           file |-> f, lost |-> {}]}

(* record_trade: a trade identifier is accepted once. *)
Recorded(j, f, r) ==
  IF r \in j.kept
    THEN {[journal |-> [j EXCEPT !.duplicates = @ + 1], file |-> f, lost |-> {}]}
  ELSE IF \E s \in j.kept : SameTrade(r, s)
    THEN {[journal |-> [j EXCEPT !.conflicts = @ + 1], file |-> f, lost |-> {r}]}
  ELSE Stored(j, f, r)

TradingJournalInit ==
  /\ TradingInit
  /\ journal = NoJournal
  /\ file = NoFile
  /\ fate = [lost |-> {}, damaged |-> FALSE]

(* The event bus hands a closed trade over within the same call. *)
Publishes ==
  LET fresh == desk'.records \ desk.records IN
  \/ /\ fresh = {}
     /\ UNCHANGED journalVars
  \/ \E r \in fresh :
       /\ Len(file.lines) < MaxLines
       /\ \E o \in Recorded(journal, file, r) :
            /\ journal' = o.journal
            /\ file' = o.file
            /\ fate' = [lost |-> fate.lost \cup o.lost,
                        damaged |-> fate.damaged \/ o.file.torn # None]

MarketTick(t, price, opinion, approved) == OnTick(t, price, opinion, approved) /\ Publishes
MarketCandle(t, low, high, close, opinion, approved) ==
  OnCandle(t, low, high, close, opinion, approved) /\ Publishes
StopPaper(t) == ShutdownPaper(t) /\ Publishes
PlanOffered(p) == ReceivePlan(p) /\ UNCHANGED journalVars

Reloaded(f) ==
  [NoJournal EXCEPT !.kept = Loaded(f), !.shown = Loaded(f)]

(* Every runtime and the analytics are reset; the file stays and, when      *)
(* persistence is enabled, is read again.                                   *)
ResetAll ==
  /\ ResetPaper
  /\ journal' = IF Persistent THEN Reloaded(file) ELSE NoJournal
  /\ fate' = [fate EXCEPT !.lost = {}]
  /\ UNCHANGED file

(* reset(clear_persistent_data=True): the file is removed with the trades.  *)
ClearJournal ==
  /\ journal' = NoJournal
  /\ file' = NoFile
  /\ fate' = [lost |-> fate.lost \cup desk.records, damaged |-> FALSE]
  /\ UNCHANGED paperVars

(* The process dies, perhaps in the middle of an append, and starts again:  *)
(* the paper engine remembers nothing, the analytics what the file tells.   *)
Restarted(f) ==
  /\ desk' = EmptyDesk
  /\ latest' = None
  /\ UNCHANGED time
  /\ file' = f
  /\ journal' = IF Persistent THEN Reloaded(f) ELSE NoJournal
  /\ fate' = [lost |-> {}, damaged |-> fate.damaged \/ f.torn # None]

Restart == Restarted(file)

CrashInAppend(t, price) ==
  /\ PaperConfig.enabled /\ Persistent
  /\ Len(file.lines) < MaxLines
  /\ \E r \in TickHandled(desk, t, price, None, TRUE).records \ desk.records :
       /\ \A s \in journal.kept : ~SameTrade(r, s)
       /\ \E f \in TornAppends(file, r) : Restarted(f)

(* The market, the runtime and the process around paper trading.            *)
TradingNext ==
  \/ \E p \in Plans : PlanOffered(p)
  \/ \E t \in TickTimes, price \in TickPrices :
       \/ CrashInAppend(t, price)
       \/ \E o \in Opinions, approved \in BOOLEAN : MarketTick(t, price, o, approved)
  \/ \E t \in time .. time + DayTimes, c \in Candles, o \in Opinions, approved \in BOOLEAN :
       t <= MaxClock /\ MarketCandle(t, c[1], c[2], c[3], o, approved)
  \/ \E t \in {time - 1, time} \cap Nat : StopPaper(t)
  \/ ResetAll \/ ClearJournal \/ Restart

TradingSpec == TradingJournalInit /\ [][TradingNext]_tradingVars

-----------------------------------------------------------------------------
(* Every trade the paper engine closed is in the analytics and in their     *)
(* snapshot, or its append failed, or an earlier trade has its identifier;  *)
(* and no identifier is kept twice.  (record_trade and add of               *)
(* engines/performance_analytics.)                                          *)
EveryResultIsAnswered ==
  /\ desk.records \subseteq journal.kept \cup fate.lost
  /\ journal.kept \cap fate.lost \cap desk.records = {}
  /\ \A r, s \in journal.kept : SameTrade(r, s) => r = s
  /\ journal.shown = journal.kept

(* As long as no append was torn the file holds what the analytics keep: a  *)
(* restart forgets no accepted trade, and the first result of an identifier *)
(* stands.  (repository.py: append, then store; load.)                      *)
KeptIsOnFile ==
  Persistent /\ ~fate.damaged => journal.kept \subseteq Loaded(file)

(* "test_repository_write_failure_does_not_persist_or_store_trade",         *)
(* tests/test_performance_analytics_v1.py:225, and README.md:128, corrupt   *)
(* lines are tolerated "without deleting valid records": an accepted trade  *)
(* is read again whatever happened to an append before it.                  *)
AcceptedIsReadAgain == Persistent => journal.kept \subseteq Loaded(file)

(* A result of paper trading is kept where the snapshot and a restart look. *)
ResultsAreKept == EveryResultIsAnswered /\ KeptIsOnFile
=============================================================================
