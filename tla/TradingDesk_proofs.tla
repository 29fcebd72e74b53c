--------------------------- MODULE TradingDesk_proofs --------------------------
(***************************************************************************)
(* Proofs about TradeRuntimeV1, the integration over the trade lifecycle   *)
(* coordinators, and about PaperExecutionV1, the paper execution           *)
(* coordinator, with what ExecutionReconciliationV1 says of it, for every  *)
(* set of instruments, trades and requests and every bound.                *)
(***************************************************************************)
EXTENDS TradeRuntimeV1, ExecutionReconciliationV1, FiniteSetTheorems, TLAPS

-------------------------------------------------------------------------------
(* The integration: one coordinator *)

\* What OneTradeInHand says of a coordinator, and the openings it knows are past ones.
TradeInHand(c) ==
    c.intent # None =>
        /\ c.ended[c.intent.trade] = None
        /\ c.held # 0 => \A t \in Trades : c.ended[t] # None => c.ended[t].opening # c.held

SoundCoordinator(c) ==
    /\ c \in Coordinator
    /\ TradeInHand(c)
    /\ \A t \in Trades : c.ended[t] # None => c.ended[t].opening <= c.opened

\* A step that leaves executions and openings alone, and at most gives the position up.
LEMMA SameHand ==
    ASSUME NEW c, SoundCoordinator(c), NEW d \in Coordinator,
           d.intent = c.intent, d.ended = c.ended, d.opened = c.opened, d.held \in {c.held, 0}
    PROVE  SoundCoordinator(d)
BY DEF SoundCoordinator, TradeInHand

LEMMA LastAskedIsSound ==
    ASSUME NEW c, SoundCoordinator(c), NEW l \in Trades \cup {None, "WAIT"}
    PROVE  /\ SoundCoordinator([c EXCEPT !.last = l])
           /\ \A s \in CoordinatorStages : SoundCoordinator([c EXCEPT !.last = l, !.stage = s])
<1>1. c \in Coordinator
  BY DEF SoundCoordinator
<1>2. [c EXCEPT !.last = l] \in Coordinator
  BY <1>1 DEF Coordinator
<1>3. ASSUME NEW s \in CoordinatorStages
      PROVE  [c EXCEPT !.last = l, !.stage = s] \in Coordinator
  BY <1>1 DEF Coordinator
<1>4. SoundCoordinator([c EXCEPT !.last = l])
  <2> DEFINE d == [c EXCEPT !.last = l]
  <2>1. d \in Coordinator /\ d.intent = c.intent /\ d.ended = c.ended /\ d.opened = c.opened
        /\ d.held = c.held
    BY <1>1, <1>2 DEF Coordinator
  <2> QED
    BY <2>1, SameHand
<1>5. ASSUME NEW s \in CoordinatorStages
      PROVE  SoundCoordinator([c EXCEPT !.last = l, !.stage = s])
  <2> DEFINE d == [c EXCEPT !.last = l, !.stage = s]
  <2>1. d \in Coordinator /\ d.intent = c.intent /\ d.ended = c.ended /\ d.opened = c.opened
        /\ d.held = c.held
    BY <1>1, <1>3 DEF Coordinator
  <2> QED
    BY <2>1, SameHand
<1> QED
  BY <1>4, <1>5

\* The coordinator's status and stage are no part of it.
LEMMA StatusIsSound ==
    ASSUME NEW c, SoundCoordinator(c), NEW s \in CoordinatorStatuses
    PROVE  /\ SoundCoordinator([c EXCEPT !.status = s])
           /\ SoundCoordinator([c EXCEPT !.status = s, !.stage = "IDLE"])
           /\ [c EXCEPT !.status = s].status = s
           /\ [c EXCEPT !.status = s, !.stage = "IDLE"].status = s
           /\ [c EXCEPT !.status = s].intent = c.intent
           /\ [c EXCEPT !.status = s, !.stage = "IDLE"].intent = c.intent
           /\ [c EXCEPT !.status = s].held = c.held
           /\ [c EXCEPT !.status = s, !.stage = "IDLE"].held = c.held
<1>1. c \in Coordinator
  BY DEF SoundCoordinator
<1> DEFINE d == [c EXCEPT !.status = s]
           e == [c EXCEPT !.status = s, !.stage = "IDLE"]
<1>2. d \in Coordinator /\ d.intent = c.intent /\ d.ended = c.ended /\ d.opened = c.opened
      /\ d.held = c.held /\ d.status = s
  BY <1>1 DEF Coordinator
<1>3. e \in Coordinator /\ e.intent = c.intent /\ e.ended = c.ended /\ e.opened = c.opened
      /\ e.held = c.held /\ e.status = s
  BY <1>1 DEF Coordinator, CoordinatorStages
<1> HIDE DEF d, e
<1>4. SoundCoordinator(d) /\ SoundCoordinator(e)
  BY <1>2, <1>3, SameHand
<1> QED
  BY <1>2, <1>3, <1>4 DEF d, e

\* A new position bears a number no execution that ended has.
LEMMA OpensIsSound ==
    ASSUME NEW c, SoundCoordinator(c), c.opened + 1 \in Serial
    PROVE  SoundCoordinator(Opens(c)) /\ Opens(c).status = c.status /\ Opens(c).opened = c.opened + 1
<1>1. c \in Coordinator
  BY DEF SoundCoordinator
<1> DEFINE d == Opens(c)
<1>2. [position |-> c.opened + 1, open |-> TRUE] \in Reported
  BY DEF Reported
<1>3. /\ d \in Coordinator /\ d.intent = c.intent /\ d.ended = c.ended /\ d.status = c.status
      /\ d.opened = c.opened + 1 /\ d.held = c.opened + 1
  BY <1>1, <1>2 DEF Opens, Coordinator, CoordinatorStages
<1> HIDE DEF d
<1>4. ASSUME NEW t \in Trades, d.ended[t] # None
      PROVE  d.ended[t].opening <= d.opened /\ d.ended[t].opening # d.held
  <2>1. c.ended[t] \in Ended /\ c.ended[t].opening <= c.opened
    BY <1>1, <1>3, <1>4 DEF SoundCoordinator, Coordinator
  <2>2. c.ended[t].opening \in Nat /\ c.opened \in Nat
    BY <1>1, <2>1, RuntimeAssumption DEF Ended, Coordinator, Serial
  <2> QED
    BY <1>3, <2>1, <2>2
<1>5. TradeInHand(d)
  BY <1>3, <1>4 DEF SoundCoordinator, TradeInHand
<1>6. SoundCoordinator(d)
  BY <1>3, <1>4, <1>5 DEF SoundCoordinator
<1> QED
  BY <1>3, <1>6 DEF d

\* An execution ends with an opening the coordinator has made.
LEMMA EndsIsSound ==
    ASSUME NEW c, SoundCoordinator(c), NEW t \in Trades, NEW e \in Ended, e.opening <= c.opened,
           NEW d \in Coordinator, d.intent = None, d.opened = c.opened,
           d.ended = [c.ended EXCEPT ![t] = e]
    PROVE  SoundCoordinator(d)
<1>1. c \in Coordinator
  BY DEF SoundCoordinator
<1>4. ASSUME NEW s \in Trades, d.ended[s] # None
      PROVE  d.ended[s].opening <= d.opened
  <2>1. c.ended \in [Trades -> Ended \cup {None}]
    BY <1>1 DEF Coordinator
  <2>2. CASE s = t
    BY <2>1, <2>2
  <2>3. CASE s # t
    <3>1. d.ended[s] = c.ended[s]
      BY <2>1, <2>3
    <3> QED
      BY <1>4, <3>1 DEF SoundCoordinator
  <2> QED
    BY <2>2, <2>3
<1> QED
  BY <1>4 DEF SoundCoordinator, TradeInHand

\* An execution is in flight only while it has no final result.
LEMMA ExecutingIsSound ==
    ASSUME NEW c, SoundCoordinator(c), NEW n \in OpenIntent, c.ended[n.trade] = None, c.held = 0,
           NEW d, d = [c EXCEPT !.intent = n, !.stage = "EXECUTION"]
    PROVE  SoundCoordinator(d) /\ d.status = c.status /\ d.held = 0 /\ d.opened = c.opened
<1>1. c \in Coordinator
  BY DEF SoundCoordinator
<1>3. /\ d \in Coordinator /\ d.intent = n /\ d.status = c.status /\ d.held = c.held
      /\ d.opened = c.opened /\ d.ended = c.ended
  BY <1>1 DEF Coordinator, CoordinatorStages
<1>4. SoundCoordinator(d)
  BY <1>3 DEF SoundCoordinator, TradeInHand
<1> QED
  BY <1>3, <1>4

\* A report of the held position, or of none.
LEMMA ExitsAreSound ==
    ASSUME NEW c, SoundCoordinator(c)
    PROVE  /\ SoundCoordinator(ExitsAll(c)) /\ ExitsAll(c).status = c.status
           /\ SoundCoordinator(ExitsPart(c)) /\ ExitsPart(c).status = c.status
<1>1. c \in Coordinator
  BY DEF SoundCoordinator
<1>2. [position |-> c.held, open |-> FALSE] \in Reported /\ [position |-> c.held, open |-> TRUE] \in Reported
  BY <1>1 DEF Reported, Coordinator
<1>3. 0 \in Serial
  BY RuntimeAssumption DEF Serial
<1> DEFINE d == ExitsAll(c)
           e == ExitsPart(c)
<1>4. /\ d \in Coordinator /\ d.intent = c.intent /\ d.ended = c.ended /\ d.opened = c.opened
      /\ d.held = 0 /\ d.status = c.status
  BY <1>1, <1>2, <1>3 DEF ExitsAll, Coordinator, CoordinatorStages
<1>5. /\ e \in Coordinator /\ e.intent = c.intent /\ e.ended = c.ended /\ e.opened = c.opened
      /\ e.held = c.held /\ e.status = c.status
  BY <1>1, <1>2 DEF ExitsPart, Coordinator, CoordinatorStages
<1> HIDE DEF d, e
<1>6. SoundCoordinator(d) /\ SoundCoordinator(e)
  BY <1>4, <1>5, SameHand
<1> QED
  BY <1>4, <1>5, <1>6 DEF d, e

LEMMA PricedIsSound ==
    ASSUME NEW c, SoundCoordinator(c), NEW effect \in {"HOLD", "PARTIAL_EXIT", "FULL_EXIT"}
    PROVE  SoundCoordinator(Priced(c, effect)) /\ Priced(c, effect).status = c.status
<1>1. c \in Coordinator
  BY DEF SoundCoordinator
<1>2. ASSUME NEW p \in Reported, NEW d, d = [c EXCEPT !.stage = "POSITION_OPEN", !.report = p]
      PROVE  SoundCoordinator(d) /\ d.status = c.status
  <2>2. /\ d \in Coordinator /\ d.intent = c.intent /\ d.ended = c.ended /\ d.opened = c.opened
        /\ d.held = c.held /\ d.status = c.status
    BY <1>1, <1>2 DEF Coordinator, CoordinatorStages
  <2>3. SoundCoordinator(d)
    BY <2>2, SameHand
  <2> QED
    BY <2>2, <2>3
<1>3. c.held \in Serial /\ 0 \in Serial
  BY <1>1, RuntimeAssumption DEF Coordinator, Serial
<1>4. CASE c.held = 0
  <2> DEFINE p == [position |-> 0, open |-> FALSE]
  <2>1. Priced(c, effect) = [c EXCEPT !.stage = "POSITION_OPEN", !.report = p] /\ p \in Reported
    BY <1>3, <1>4 DEF Priced, Reported
  <2> HIDE DEF p
  <2> QED
    BY <1>2, <2>1
<1>5. CASE c.held # 0 /\ effect = "HOLD"
  <2> DEFINE p == [position |-> c.held, open |-> TRUE]
  <2>1. Priced(c, effect) = [c EXCEPT !.stage = "POSITION_OPEN", !.report = p] /\ p \in Reported
    BY <1>3, <1>5 DEF Priced, Reported
  <2> HIDE DEF p
  <2> QED
    BY <1>2, <2>1
<1>6. CASE c.held # 0 /\ effect = "PARTIAL_EXIT"
  BY <1>6, ExitsAreSound DEF Priced
<1>7. CASE c.held # 0 /\ effect = "FULL_EXIT"
  BY <1>7, ExitsAreSound DEF Priced
<1> QED
  BY <1>4, <1>5, <1>6, <1>7

\* A new trade of a coordinator without position.
LEMMA FreshIsSound ==
    ASSUME NEW c, SoundCoordinator(c), NEW t \in Trades, c.ended[t] = None, c.held = 0,
           fillAtOnce \in {"NONE", "PART", "ALL"}, ProcessedFresh(c, t).opened \in Serial
    PROVE  SoundCoordinator(ProcessedFresh(c, t)) /\ ProcessedFresh(c, t).status = c.status
<1> DEFINE asked == [c EXCEPT !.last = t]
<1>1. c \in Coordinator
  BY DEF SoundCoordinator
<1>2. SoundCoordinator(asked)
  BY LastAskedIsSound
<1>3. /\ asked.ended = c.ended /\ asked.held = 0 /\ asked.status = c.status
      /\ asked.opened = c.opened /\ asked \in Coordinator
  BY <1>1, <1>2 DEF Coordinator, SoundCoordinator
<1>4. CASE fillAtOnce = "NONE"
  <2> DEFINE n == [trade |-> t, filled |-> FALSE, suits |-> FALSE]
  <2>1. ProcessedFresh(c, t) = [asked EXCEPT !.intent = n, !.stage = "EXECUTION"]
    BY <1>4 DEF ProcessedFresh, Executing
  <2>2. n \in OpenIntent /\ n.trade = t
    BY DEF OpenIntent
  <2> DEFINE d == ProcessedFresh(c, t)
  <2>3. d = [asked EXCEPT !.intent = n, !.stage = "EXECUTION"]
    BY <2>1
  <2> HIDE DEF asked, n, d
  <2>4. SoundCoordinator(d) /\ d.status = c.status
    BY <1>2, <1>3, <2>2, <2>3, ExecutingIsSound
  <2> QED
    BY <2>4 DEF d
<1>5. CASE fillAtOnce = "PART"
  <2> DEFINE e == Executing(asked, t, TRUE, TRUE)
  <2>1. ProcessedFresh(c, t) = Opens(e)
    BY <1>5 DEF ProcessedFresh
  <2> HIDE DEF asked
  <2> DEFINE n == [trade |-> t, filled |-> TRUE, suits |-> TRUE]
  <2>5. e = [asked EXCEPT !.intent = n, !.stage = "EXECUTION"] /\ n \in OpenIntent /\ n.trade = t
    BY DEF Executing, OpenIntent
  <2> HIDE DEF n, e
  <2>2. SoundCoordinator(e) /\ e.status = c.status /\ e.opened = c.opened
    BY <1>2, <1>3, <2>5, ExecutingIsSound
  <2>3. e \in Coordinator
    BY <2>2 DEF SoundCoordinator
  <2>4. Opens(e).opened = e.opened + 1
    BY <2>3 DEF Opens, Coordinator
  <2> QED
    BY <2>1, <2>2, <2>4, OpensIsSound
<1>6. CASE fillAtOnce = "ALL"
  <2> DEFINE o == Opens(asked)
  <2>1. ProcessedFresh(c, t) = Ends(o, t, TRUE, TRUE, c.opened + 1)
    BY <1>6 DEF ProcessedFresh
  <2> HIDE DEF asked
  <2>2. o.opened = c.opened + 1 /\ Ends(o, t, TRUE, TRUE, c.opened + 1).opened = o.opened
    BY <1>3 DEF Opens, Ends, Coordinator
  <2>3. c.opened + 1 \in Serial
    BY <2>1, <2>2
  <2>4. SoundCoordinator(o) /\ o.status = c.status
    BY <1>2, <1>3, <2>3, OpensIsSound
  <2>5. c.opened + 1 <= o.opened
    BY <2>2, <2>3, RuntimeAssumption DEF Serial
  <2> DEFINE n == [filled |-> TRUE, suits |-> TRUE, opening |-> c.opened + 1]
  <2>6. ProcessedFresh(c, t) = [o EXCEPT !.intent = None, !.ended[t] = n]
    BY <2>1 DEF Ends
  <2>7. n \in Ended /\ n.opening <= o.opened
    BY <2>3, <2>5 DEF Ended
  <2> DEFINE d == ProcessedFresh(c, t)
  <2>8. d = [o EXCEPT !.intent = None, !.ended[t] = n]
    BY <2>6
  <2> HIDE DEF o, n, d
  <2>10. o \in Coordinator
    BY <2>4 DEF SoundCoordinator
  <2>11. /\ d \in Coordinator /\ d.intent = None /\ d.status = o.status /\ d.opened = o.opened
         /\ d.ended = [o.ended EXCEPT ![t] = n]
    BY <2>7, <2>8, <2>10 DEF Coordinator
  <2>9. SoundCoordinator(d) /\ d.status = c.status
    BY <2>4, <2>7, <2>11, EndsIsSound
  <2> QED
    BY <2>9 DEF d
<1> QED
  BY <1>4, <1>5, <1>6

\* A trade that was executed before.
LEMMA CachedIsSound ==
    ASSUME NEW c, SoundCoordinator(c), NEW t \in Trades, c.ended[t] # None,
           ProcessedCached(c, t).opened \in Serial
    PROVE  SoundCoordinator(ProcessedCached(c, t)) /\ ProcessedCached(c, t).status = c.status
<1> DEFINE asked == [c EXCEPT !.last = t]
           e == c.ended[t]
<1>1. c \in Coordinator
  BY DEF SoundCoordinator
<1>2. e \in Ended /\ e.opening \in Serial
  BY <1>1 DEF Coordinator, Ended
<1>3. SoundCoordinator(asked) /\ asked \in Coordinator /\ asked.status = c.status /\ asked.opened = c.opened
  BY <1>1, LastAskedIsSound DEF Coordinator, SoundCoordinator
<1>4. CASE ~e.filled
  <2> DEFINE d == [c EXCEPT !.last = t, !.stage = "EXECUTION"]
  <2>1. ProcessedCached(c, t) = d
    BY <1>1, <1>4 DEF ProcessedCached, Coordinator
  <2>2. SoundCoordinator(d) /\ d.status = c.status
    BY <1>1, LastAskedIsSound DEF Coordinator, CoordinatorStages
  <2> QED
    BY <2>1, <2>2
<1>5. CASE e.filled /\ e.opening # 0
  <2> DEFINE d == [asked EXCEPT !.stage = "POSITION_OPEN",
                                !.report = [position |-> e.opening, open |-> TRUE]]
  <2>1. ProcessedCached(c, t) = d
    BY <1>5 DEF ProcessedCached
  <2>2. [position |-> e.opening, open |-> TRUE] \in Reported
    BY <1>2 DEF Reported
  <2> HIDE DEF asked, e
  <2>3. /\ d \in Coordinator /\ d.intent = asked.intent /\ d.ended = asked.ended
        /\ d.opened = asked.opened /\ d.held = asked.held /\ d.status = asked.status
    BY <1>3, <2>2 DEF Coordinator, CoordinatorStages
  <2> HIDE DEF d
  <2> QED
    BY <1>3, <2>1, <2>3, SameHand
<1>6. CASE e.filled /\ e.opening = 0 /\ e.suits
  <2> DEFINE o == Opens(asked)
  <2>1. ProcessedCached(c, t) = Ends(o, t, TRUE, TRUE, c.opened + 1)
    BY <1>6 DEF ProcessedCached
  <2> HIDE DEF asked, e
  <2>2. o.opened = c.opened + 1 /\ Ends(o, t, TRUE, TRUE, c.opened + 1).opened = o.opened
    BY <1>3 DEF Opens, Ends, Coordinator
  <2>3. c.opened + 1 \in Serial
    BY <2>1, <2>2
  <2>4. SoundCoordinator(o) /\ o.status = c.status
    BY <1>3, <2>3, OpensIsSound
  <2>5. c.opened + 1 <= o.opened
    BY <2>2, <2>3, RuntimeAssumption DEF Serial
  <2> DEFINE n == [filled |-> TRUE, suits |-> TRUE, opening |-> c.opened + 1]
  <2>6. ProcessedCached(c, t) = [o EXCEPT !.intent = None, !.ended[t] = n]
    BY <2>1 DEF Ends
  <2>7. n \in Ended /\ n.opening <= o.opened
    BY <2>3, <2>5 DEF Ended
  <2> DEFINE d == ProcessedCached(c, t)
  <2>8. d = [o EXCEPT !.intent = None, !.ended[t] = n]
    BY <2>6
  <2> HIDE DEF o, n, d
  <2>10. o \in Coordinator
    BY <2>4 DEF SoundCoordinator
  <2>11. /\ d \in Coordinator /\ d.intent = None /\ d.status = o.status /\ d.opened = o.opened
         /\ d.ended = [o.ended EXCEPT ![t] = n]
    BY <2>7, <2>8, <2>10 DEF Coordinator
  <2>9. SoundCoordinator(d) /\ d.status = c.status
    BY <2>4, <2>7, <2>11, EndsIsSound
  <2> QED
    BY <2>9 DEF d
<1>7. CASE e.filled /\ e.opening = 0 /\ ~e.suits
  <2> DEFINE d == [c EXCEPT !.stage = "EXECUTION"]
  <2>1. ProcessedCached(c, t) = d
    BY <1>7 DEF ProcessedCached
  <2>2. /\ d \in Coordinator /\ d.intent = c.intent /\ d.ended = c.ended
        /\ d.opened = c.opened /\ d.held = c.held /\ d.status = c.status
    BY <1>1 DEF Coordinator, CoordinatorStages
  <2> HIDE DEF d
  <2> QED
    BY <2>1, <2>2, SameHand
<1> QED
  BY <1>4, <1>5, <1>6, <1>7

\* A fill of the execution in flight, before a position was opened from it.
LEMMA ConfirmedIsSound ==
    ASSUME NEW c, SoundCoordinator(c), c.intent # None, c.held = 0,
           NEW complete \in BOOLEAN, NEW suits \in BOOLEAN, suits => Confirmed(c, complete, suits).opened \in Serial
    PROVE  SoundCoordinator(Confirmed(c, complete, suits)) /\ Confirmed(c, complete, suits).status = c.status
<1> DEFINE t == c.intent.trade
<1>1. c \in Coordinator
  BY DEF SoundCoordinator
<1>2. t \in Trades /\ c.ended[t] = None
  BY <1>1 DEF Coordinator, OpenIntent, SoundCoordinator, TradeInHand
<1>3. c.opened \in Nat /\ 0 \in Serial /\ 0 <= c.opened
  BY <1>1, RuntimeAssumption DEF Coordinator, Serial
<1> HIDE DEF t
<1>4. CASE complete /\ suits
  <2> DEFINE o == Opens(c)
  <2>1. Confirmed(c, complete, suits) = Ends(o, t, TRUE, TRUE, c.opened + 1)
    BY <1>4 DEF Confirmed, t
  <2>2. o.opened = c.opened + 1 /\ Ends(o, t, TRUE, TRUE, c.opened + 1).opened = o.opened
    BY <1>1 DEF Opens, Ends, Coordinator
  <2>3. c.opened + 1 \in Serial
    BY <1>4, <2>1, <2>2
  <2>4. SoundCoordinator(o) /\ o.status = c.status
    BY <2>3, OpensIsSound
  <2>5. c.opened + 1 <= o.opened
    BY <2>2, <2>3, RuntimeAssumption DEF Serial
  <2> DEFINE n == [filled |-> TRUE, suits |-> TRUE, opening |-> c.opened + 1]
  <2>6. Confirmed(c, complete, suits) = [o EXCEPT !.intent = None, !.ended[t] = n]
    BY <2>1 DEF Ends
  <2>7. n \in Ended /\ n.opening <= o.opened
    BY <2>3, <2>5 DEF Ended
  <2> DEFINE d == Confirmed(c, complete, suits)
  <2>8. d = [o EXCEPT !.intent = None, !.ended[t] = n]
    BY <2>6
  <2> HIDE DEF o, n, d
  <2>10. o \in Coordinator
    BY <2>4 DEF SoundCoordinator
  <2>11. /\ d \in Coordinator /\ d.intent = None /\ d.status = o.status /\ d.opened = o.opened
         /\ d.ended = [o.ended EXCEPT ![t] = n]
    BY <1>2, <2>7, <2>8, <2>10 DEF Coordinator
  <2>9. SoundCoordinator(d) /\ d.status = c.status
    BY <1>2, <2>4, <2>7, <2>11, EndsIsSound
  <2> QED
    BY <2>9 DEF d
<1>5. CASE complete /\ ~suits
  <2> DEFINE d == [c EXCEPT !.stage = "EXECUTION"]
  <2> DEFINE n == [filled |-> TRUE, suits |-> FALSE, opening |-> 0]
  <2>1. Confirmed(c, complete, suits) = [d EXCEPT !.intent = None, !.ended[t] = n]
    BY <1>5 DEF Confirmed, Ends, t
  <2>2. /\ d \in Coordinator /\ d.intent = c.intent /\ d.ended = c.ended
        /\ d.opened = c.opened /\ d.held = c.held /\ d.status = c.status
    BY <1>1 DEF Coordinator, CoordinatorStages
  <2> HIDE DEF d
  <2>3. SoundCoordinator(d) /\ 0 <= d.opened
    BY <1>3, <2>2, SameHand
  <2>4. n \in Ended /\ n.opening <= d.opened
    BY <1>3, <2>3 DEF Ended
  <2> DEFINE g == Confirmed(c, complete, suits)
  <2>5. g = [d EXCEPT !.intent = None, !.ended[t] = n]
    BY <2>1
  <2> HIDE DEF n, g
  <2>7. /\ g \in Coordinator /\ g.intent = None /\ g.status = d.status /\ g.opened = d.opened
        /\ g.ended = [d.ended EXCEPT ![t] = n]
    BY <1>2, <2>2, <2>4, <2>5 DEF Coordinator
  <2>6. SoundCoordinator(g) /\ g.status = d.status
    BY <1>2, <2>3, <2>4, <2>7, EndsIsSound
  <2> QED
    BY <2>2, <2>6 DEF g
<1>6. CASE ~complete /\ suits
  <2> DEFINE e == Executing(c, t, TRUE, TRUE)
  <2>1. Confirmed(c, complete, suits) = Opens(e)
    BY <1>6 DEF Confirmed, t
  <2> DEFINE n == [trade |-> t, filled |-> TRUE, suits |-> TRUE]
  <2>5. e = [c EXCEPT !.intent = n, !.stage = "EXECUTION"] /\ n \in OpenIntent /\ n.trade = t
    BY <1>2 DEF Executing, OpenIntent
  <2> HIDE DEF n, e
  <2>2. SoundCoordinator(e) /\ e.status = c.status /\ e.opened = c.opened
    BY <1>2, <2>5, ExecutingIsSound
  <2>3. e \in Coordinator
    BY <2>2 DEF SoundCoordinator
  <2>4. Opens(e).opened = e.opened + 1
    BY <2>3 DEF Opens, Coordinator
  <2> QED
    BY <1>6, <2>1, <2>2, <2>4, OpensIsSound
<1>7. CASE ~complete /\ ~suits
  <2> DEFINE n == [trade |-> t, filled |-> TRUE, suits |-> FALSE]
  <2>1. Confirmed(c, complete, suits) = [c EXCEPT !.intent = n, !.stage = "EXECUTION"]
    BY <1>7 DEF Confirmed, Executing, t
  <2>2. n \in OpenIntent /\ n.trade = t
    BY <1>2 DEF OpenIntent
  <2> DEFINE d == Confirmed(c, complete, suits)
  <2>3. d = [c EXCEPT !.intent = n, !.stage = "EXECUTION"]
    BY <2>1
  <2> HIDE DEF n, d
  <2>4. SoundCoordinator(d) /\ d.status = c.status /\ d.held = 0 /\ d.opened = c.opened
    BY <1>2, <2>2, <2>3, ExecutingIsSound
  <2> QED
    BY <1>2, <2>4 DEF d
<1> QED
  BY <1>4, <1>5, <1>6, <1>7

-------------------------------------------------------------------------------
(* The integration: its invariant *)

\* The inductive invariant: each coordinator has one trade in hand and knows only
\* openings it has made, and the published snapshot hides no exposure.
RuntimeIInv ==
    /\ RuntimeTypeOK
    /\ \A i \in Instruments : SoundCoordinator(coordinators[i])
    /\ CoordinatorsFollow
    /\ NeverUnderstatesExposure

LEMMA RuntimeInitSound == RuntimeInit => RuntimeIInv
<1> SUFFICES ASSUME RuntimeInit PROVE RuntimeIInv
  OBVIOUS
<1>1. 0 \in Serial
  BY RuntimeAssumption DEF Serial
<1> DEFINE c == NewCoordinator
<1>2. [t \in Trades |-> None] \in [Trades -> Ended \cup {None}]
  OBVIOUS
<1>3. c \in Coordinator
  BY <1>1, <1>2 DEF NewCoordinator, Coordinator, CoordinatorStatuses, RuntimeStatuses, CoordinatorStages
<1>4. c.status = "CREATED" /\ c.intent = None /\ c.held = 0 /\ \A t \in Trades : c.ended[t] = None
  BY DEF NewCoordinator
<1> HIDE DEF c
<1>5. SoundCoordinator(c)
  BY <1>3, <1>4 DEF SoundCoordinator, TradeInHand
<1>6. \A i \in Instruments : coordinators[i] = c /\ lastSnapshot[i] = None
  BY DEF RuntimeInit, c
<1>7. RuntimeTypeOK
  <2>1. coordinators \in [Instruments -> Coordinator] /\ lastSnapshot \in [Instruments -> Snapshot \cup {None}]
    BY <1>3 DEF RuntimeInit, c
  <2> QED
    BY <2>1 DEF RuntimeInit, RuntimeTypeOK, AppStatuses, RuntimeStatuses
<1>8. CoordinatorsFollow
  BY <1>4, <1>6 DEF RuntimeInit, CoordinatorsFollow, Flat
<1>9. NeverUnderstatesExposure
  BY <1>4, <1>6 DEF NeverUnderstatesExposure, Published, View
<1> QED
  BY <1>5, <1>6, <1>7, <1>8, <1>9 DEF RuntimeIInv

\* What the integration remembers of a coordinator is a snapshot.
LEMMA ViewIsSnapshot ==
    ASSUME NEW c \in Coordinator
    PROVE  /\ View(c) \in Snapshot
           /\ View(c).executing <=> c.intent # None
           /\ View(c).holding <=> c.held # 0
<1>1. c.stage \in CoordinatorStages /\ c.report \in Reported \cup {None}
  BY DEF Coordinator
<1>2. (c.status = "RUNNING") \in BOOLEAN /\ (c.intent # None) \in BOOLEAN /\ (c.held # 0) \in BOOLEAN
  OBVIOUS
<1> DEFINE a == c.status = "RUNNING"
           b == c.intent # None
           h == c.held # 0
<1>3. View(c) = [running |-> a, executing |-> b, holding |-> h, stage |-> c.stage, report |-> c.report]
  BY DEF View
<1>4. a \in BOOLEAN /\ b \in BOOLEAN /\ h \in BOOLEAN
  BY <1>2
<1> HIDE DEF a, b, h
<1>5. View(c) \in Snapshot
  BY <1>1, <1>3, <1>4 DEF Snapshot
<1>6. View(c).executing = b /\ View(c).holding = h
  BY <1>3
<1> QED
  BY <1>5, <1>6 DEF b, h

\* A call of one coordinator whose answer is remembered.
LEMMA RoutedKeeps ==
    ASSUME RuntimeIInv, NEW i \in Instruments, NEW c, SoundCoordinator(c),
           c.status = coordinators[i].status, runtimeStatus = "RUNNING", Routed(i, c)
    PROVE  RuntimeIInv'
<1>1. c \in Coordinator
  BY DEF SoundCoordinator
<1>2. /\ coordinators \in [Instruments -> Coordinator]
      /\ lastSnapshot \in [Instruments -> Snapshot \cup {None}]
  BY DEF RuntimeIInv, RuntimeTypeOK
<1>3. /\ coordinators' = [coordinators EXCEPT ![i] = c]
      /\ lastSnapshot' = [lastSnapshot EXCEPT ![i] = View(c)]
      /\ appStatus' = appStatus /\ runtimeStatus' = runtimeStatus /\ fillAtOnce' = fillAtOnce
  BY DEF Routed, RecordInstrument
<1>4. RuntimeTypeOK'
  <2>1. coordinators' \in [Instruments -> Coordinator]
    BY <1>1, <1>2, <1>3
  <2>2. lastSnapshot' \in [Instruments -> Snapshot \cup {None}]
    BY <1>1, <1>2, <1>3, ViewIsSnapshot
  <2> QED
    BY <1>3, <2>1, <2>2 DEF RuntimeIInv, RuntimeTypeOK
<1>5. coordinators'[i] = c /\ lastSnapshot'[i] = View(c)
  BY <1>2, <1>3
<1>6. \A j \in Instruments \ {i} : coordinators'[j] = coordinators[j] /\ lastSnapshot'[j] = lastSnapshot[j]
  BY <1>2, <1>3
<1>7. \A j \in Instruments : SoundCoordinator(coordinators'[j])
  BY <1>5, <1>6 DEF RuntimeIInv
<1>8. CoordinatorsFollow'
  BY <1>3, <1>5, <1>6 DEF RuntimeIInv, CoordinatorsFollow
<1>9. NeverUnderstatesExposure'
  <2> SUFFICES ASSUME NEW j \in Instruments
               PROVE  /\ coordinators'[j].intent # None => Published(j)'.executing
                      /\ coordinators'[j].held # 0      => Published(j)'.holding
    BY DEF NeverUnderstatesExposure
  <2>1. CASE j = i
    <3>1. Published(j)' = View(c)
      BY <1>5, <2>1 DEF Published
    <3> QED
      BY <1>1, <1>5, <2>1, <3>1, ViewIsSnapshot
  <2>2. CASE j # i
    <3>1. Published(j)' = Published(j) /\ coordinators'[j] = coordinators[j]
      BY <1>6, <2>2 DEF Published
    <3> QED
      BY <3>1 DEF RuntimeIInv, NeverUnderstatesExposure
  <2> QED
    BY <2>1, <2>2
<1> QED
  BY <1>4, <1>7, <1>8, <1>9 DEF RuntimeIInv

\* Steps the integration remembers nothing of: no coordinator takes on exposure.
LEMMA UnrecordedKeeps ==
    ASSUME RuntimeIInv, lastSnapshot' = lastSnapshot,
           coordinators' \in [Instruments -> Coordinator],
           \A i \in Instruments :
               /\ SoundCoordinator(coordinators'[i])
               /\ coordinators'[i].intent # None => coordinators[i].intent # None
               /\ coordinators'[i].held # 0 => coordinators[i].held # 0
    PROVE  /\ lastSnapshot' \in [Instruments -> Snapshot \cup {None}]
           /\ NeverUnderstatesExposure'
           /\ Flat => Flat'
<1>1. lastSnapshot' \in [Instruments -> Snapshot \cup {None}]
  BY DEF RuntimeIInv, RuntimeTypeOK
<1>2. NeverUnderstatesExposure'
  <2> SUFFICES ASSUME NEW j \in Instruments
               PROVE  /\ coordinators'[j].intent # None => Published(j)'.executing
                      /\ coordinators'[j].held # 0      => Published(j)'.holding
    BY DEF NeverUnderstatesExposure
  <2>1. CASE lastSnapshot[j] = None
    <3>1. Published(j)' = View(coordinators'[j])
      BY <2>1 DEF Published
    <3>2. coordinators'[j] \in Coordinator
      OBVIOUS
    <3> QED
      BY <3>1, <3>2, ViewIsSnapshot
  <2>2. CASE lastSnapshot[j] # None
    <3>1. Published(j)' = Published(j)
      BY <2>2 DEF Published
    <3> QED
      BY <3>1 DEF RuntimeIInv, NeverUnderstatesExposure
  <2> QED
    BY <2>1, <2>2
<1>3. Flat => Flat'
  BY DEF Flat
<1> QED
  BY <1>1, <1>2, <1>3

\* A call that raises after it changed one coordinator, and a cancellation behind the
\* integration's back.
LEMMA RaisedKeeps ==
    ASSUME RuntimeIInv, NEW i \in Instruments, NEW c, SoundCoordinator(c),
           c.status = coordinators[i].status,
           c.intent # None => coordinators[i].intent # None,
           c.held # 0 => coordinators[i].held # 0,
           RoutedRaises(i, c)
    PROVE  RuntimeIInv'
<1>1. coordinators \in [Instruments -> Coordinator] /\ c \in Coordinator
  BY DEF RuntimeIInv, RuntimeTypeOK, SoundCoordinator
<1>2. /\ coordinators' = [coordinators EXCEPT ![i] = c] /\ lastSnapshot' = lastSnapshot
      /\ appStatus' = appStatus /\ runtimeStatus' = runtimeStatus /\ fillAtOnce' = fillAtOnce
  BY DEF RoutedRaises
<1>3. coordinators' \in [Instruments -> Coordinator]
  BY <1>1, <1>2
<1>4. \A j \in Instruments : coordinators'[j] = IF j = i THEN c ELSE coordinators[j]
  BY <1>1, <1>2
<1>5. \A j \in Instruments : /\ SoundCoordinator(coordinators'[j])
                             /\ coordinators'[j].intent # None => coordinators[j].intent # None
                             /\ coordinators'[j].held # 0 => coordinators[j].held # 0
                             /\ coordinators'[j].status = coordinators[j].status
  BY <1>4 DEF RuntimeIInv
<1>7. lastSnapshot' \in [Instruments -> Snapshot \cup {None}] /\ NeverUnderstatesExposure' /\ (Flat => Flat')
  BY <1>2, <1>3, <1>5, UnrecordedKeeps
<1>8. CoordinatorsFollow'
  BY <1>2, <1>5, <1>7 DEF RuntimeIInv, CoordinatorsFollow
<1>9. RuntimeTypeOK'
  BY <1>2, <1>3, <1>7 DEF RuntimeIInv, RuntimeTypeOK
<1> QED
  BY <1>5, <1>7, <1>8, <1>9 DEF RuntimeIInv

\* Validation, whole or half-way, changes no coordinator but in its status.
LEMMA ValidatedIsSound ==
    ASSUME RuntimeIInv
    PROVE  /\ Validated \in [Instruments -> Coordinator]
           /\ \A i \in Instruments : /\ SoundCoordinator(Validated[i])
                                     /\ Validated[i].intent = coordinators[i].intent
                                     /\ Validated[i].held = coordinators[i].held
<1>1. ASSUME NEW i \in Instruments
      PROVE  \/ Validated[i] = coordinators[i]
             \/ Validated[i] = [coordinators[i] EXCEPT !.status = "ERROR"]
             \/ Validated[i] = [coordinators[i] EXCEPT !.status = "READY"]
  BY DEF Validated
<1>2. ASSUME NEW i \in Instruments
      PROVE  /\ Validated[i] \in Coordinator
             /\ SoundCoordinator(Validated[i])
             /\ Validated[i].intent = coordinators[i].intent
             /\ Validated[i].held = coordinators[i].held
  <2>1. SoundCoordinator(coordinators[i])
    BY DEF RuntimeIInv
  <2>2. "ERROR" \in CoordinatorStatuses /\ "READY" \in CoordinatorStatuses
    BY DEF CoordinatorStatuses, RuntimeStatuses
  <2> DEFINE c == coordinators[i]
             v == Validated[i]
  <2>3. v = c \/ v = [c EXCEPT !.status = "ERROR"] \/ v = [c EXCEPT !.status = "READY"]
    BY <1>1
  <2> HIDE DEF c, v
  <2>4. SoundCoordinator(c)
    BY <2>1 DEF c
  <2>8. ASSUME NEW s \in CoordinatorStatuses, v = [c EXCEPT !.status = s]
        PROVE  SoundCoordinator(v) /\ v.intent = c.intent /\ v.held = c.held
    BY <2>4, <2>8, StatusIsSound
  <2>5. SoundCoordinator(v) /\ v.intent = c.intent /\ v.held = c.held
    BY <2>2, <2>3, <2>4, <2>8
  <2>6. v \in Coordinator
    BY <2>5 DEF SoundCoordinator
  <2>7. v = Validated[i] /\ c = coordinators[i]
    BY DEF v, c
  <2> QED
    BY <2>5, <2>6, <2>7, Zenon
<1>3. Validated = [i \in Instruments |-> Validated[i]]
  BY DEF Validated
<1>4. Validated \in [Instruments -> Coordinator]
  BY <1>2, <1>3
<1> QED
  BY <1>2, <1>4

\* The integration's own steps.
LEMMA RuntimeOwnStep ==
    ASSUME RuntimeIInv, RuntimeValidate \/ RuntimeStart \/ RuntimeStop \/ RuntimeClear \/ ApplicationMoves
    PROVE  RuntimeIInv'
<1>1. /\ coordinators \in [Instruments -> Coordinator]
      /\ \A i \in Instruments : SoundCoordinator(coordinators[i])
  BY DEF RuntimeIInv, RuntimeTypeOK
\* What is left to show once the coordinators are known to be sound.
<1>2. ASSUME coordinators' \in [Instruments -> Coordinator],
             \A i \in Instruments : /\ SoundCoordinator(coordinators'[i])
                                    /\ coordinators'[i].intent = coordinators[i].intent
                                    /\ coordinators'[i].held = coordinators[i].held,
             lastSnapshot' = lastSnapshot, fillAtOnce' = fillAtOnce,
             appStatus' \in AppStatuses, runtimeStatus' \in RuntimeStatuses, CoordinatorsFollow'
      PROVE  RuntimeIInv'
  <2>1. lastSnapshot' \in [Instruments -> Snapshot \cup {None}] /\ NeverUnderstatesExposure'
    BY <1>2, UnrecordedKeeps
  <2>2. RuntimeTypeOK'
    BY <1>2, <2>1 DEF RuntimeIInv, RuntimeTypeOK
  <2> QED
    BY <1>2, <2>1, <2>2 DEF RuntimeIInv
<1>3. ASSUME coordinators' = coordinators
      PROVE  /\ coordinators' \in [Instruments -> Coordinator]
             /\ \A i \in Instruments : /\ SoundCoordinator(coordinators'[i])
                                       /\ coordinators'[i].intent = coordinators[i].intent
                                       /\ coordinators'[i].held = coordinators[i].held
  BY <1>1, <1>3
<1>4. ASSUME coordinators' = Validated
      PROVE  /\ coordinators' \in [Instruments -> Coordinator]
             /\ \A i \in Instruments : /\ SoundCoordinator(coordinators'[i])
                                       /\ coordinators'[i].intent = coordinators[i].intent
                                       /\ coordinators'[i].held = coordinators[i].held
  BY <1>4, ValidatedIsSound, Zenon
<1>5. appStatus \in AppStatuses /\ runtimeStatus \in RuntimeStatuses
  BY DEF RuntimeIInv, RuntimeTypeOK
<1>6. CASE RuntimeValidate
  <2>1. coordinators' = coordinators \/ coordinators' = Validated
    BY <1>6 DEF RuntimeValidate
  <2>2. runtimeStatus' \in {"ERROR", "READY"} /\ UNCHANGED <<appStatus, fillAtOnce, lastSnapshot>>
    BY <1>6 DEF RuntimeValidate
  <2>3. CoordinatorsFollow'
    BY <2>2 DEF CoordinatorsFollow
  <2>4. runtimeStatus' \in RuntimeStatuses
    BY <2>2 DEF RuntimeStatuses
  <2> QED
    BY <1>2, <1>3, <1>4, <1>5, <2>1, <2>2, <2>3, <2>4, Zenon
<1>7. CASE RuntimeStart
  <2>1. UNCHANGED <<appStatus, fillAtOnce, lastSnapshot>>
    BY <1>7 DEF RuntimeStart
  <2>2. CASE appStatus = "RUNNING" /\ ~ValidationFails
    <3>1. /\ coordinators' = [i \in Instruments |->
                                [coordinators[i] EXCEPT !.status = "RUNNING", !.stage = "IDLE"]]
          /\ runtimeStatus' = "RUNNING"
      BY <1>7, <2>2 DEF RuntimeStart
    <3>2. "RUNNING" \in CoordinatorStatuses
      BY DEF CoordinatorStatuses, RuntimeStatuses
    <3>3. ASSUME NEW i \in Instruments
          PROVE  /\ SoundCoordinator(coordinators'[i])
                 /\ coordinators'[i].intent = coordinators[i].intent
                 /\ coordinators'[i].held = coordinators[i].held
                 /\ coordinators'[i].status = "RUNNING"
      BY <1>1, <3>1, <3>2, StatusIsSound
    <3>4. coordinators' \in [Instruments -> Coordinator]
      BY <3>1, <3>3 DEF SoundCoordinator
    <3>5. CoordinatorsFollow'
      BY <3>1, <3>3 DEF CoordinatorsFollow
    <3>6. runtimeStatus' \in RuntimeStatuses
      BY <3>1 DEF RuntimeStatuses
    <3> QED
      BY <1>2, <1>5, <2>1, <3>3, <3>4, <3>5, <3>6
  <2>3. CASE ~(appStatus = "RUNNING" /\ ~ValidationFails)
    <3>1. /\ coordinators' = coordinators \/ coordinators' = Validated
          /\ runtimeStatus' = "ERROR"
      BY <1>7, <2>3 DEF RuntimeStart
    <3>2. CoordinatorsFollow' /\ runtimeStatus' \in RuntimeStatuses
      BY <3>1 DEF CoordinatorsFollow, RuntimeStatuses
    <3> QED
      BY <1>2, <1>3, <1>4, <1>5, <2>1, <3>1, <3>2, Zenon
  <2> QED
    BY <2>2, <2>3
<1>8. CASE RuntimeStop
  <2>1. /\ Flat /\ runtimeStatus' = "STOPPED" /\ UNCHANGED <<appStatus, fillAtOnce, lastSnapshot>>
        /\ coordinators' = [i \in Instruments |-> [coordinators[i] EXCEPT !.status = "STOPPED"]]
    BY <1>8 DEF RuntimeStop
  <2>2. "STOPPED" \in CoordinatorStatuses
    BY DEF CoordinatorStatuses, RuntimeStatuses
  <2>3. ASSUME NEW i \in Instruments
        PROVE  /\ SoundCoordinator(coordinators'[i])
               /\ coordinators'[i].intent = coordinators[i].intent
               /\ coordinators'[i].held = coordinators[i].held
               /\ coordinators'[i].status = "STOPPED"
    BY <1>1, <2>1, <2>2, StatusIsSound
  <2>4. coordinators' \in [Instruments -> Coordinator]
    BY <2>1, <2>3 DEF SoundCoordinator
  <2>5. CoordinatorsFollow'
    BY <2>1, <2>3 DEF CoordinatorsFollow, Flat
  <2>6. runtimeStatus' \in RuntimeStatuses
    BY <2>1 DEF RuntimeStatuses
  <2> QED
    BY <1>2, <1>5, <2>1, <2>3, <2>4, <2>5, <2>6
<1>9. CASE RuntimeClear
  <2>1. /\ runtimeStatus = "STOPPED" /\ runtimeStatus' = "CLEARED"
        /\ UNCHANGED <<appStatus, fillAtOnce, coordinators, lastSnapshot>>
    BY <1>9 DEF RuntimeClear
  <2>2. CoordinatorsFollow' /\ runtimeStatus' \in RuntimeStatuses
    BY <2>1 DEF RuntimeIInv, CoordinatorsFollow, Flat, RuntimeStatuses
  <2> QED
    BY <1>2, <1>3, <1>5, <2>1, <2>2
<1>10. CASE ApplicationMoves
  <2>1. appStatus' \in AppStatuses /\ UNCHANGED <<runtimeStatus, fillAtOnce, coordinators, lastSnapshot>>
    BY <1>10 DEF ApplicationMoves
  <2>2. CoordinatorsFollow'
    BY <2>1 DEF RuntimeIInv, CoordinatorsFollow, Flat
  <2> QED
    BY <1>2, <1>3, <1>5, <2>1, <2>2
<1> QED
  BY <1>6, <1>7, <1>8, <1>9, <1>10

\* The calls that reach one coordinator.
LEMMA RuntimeRoutedStep ==
    ASSUME RuntimeIInv, NEW i \in Instruments,
           \/ RouteContext(i)
           \/ \E complete, suits \in BOOLEAN : RouteFill(i, complete, suits)
           \/ \E effect \in {"HOLD", "PARTIAL_EXIT", "FULL_EXIT"} : RoutePrice(i, effect)
           \/ RoutePartialExit(i) \/ RouteClose(i) \/ CancelBehind(i)
    PROVE  RuntimeIInv'
<1> DEFINE c == coordinators[i]
<1>1. SoundCoordinator(c) /\ c \in Coordinator
  BY DEF RuntimeIInv, SoundCoordinator
<1>2. fillAtOnce \in {"NONE", "PART", "ALL"}
  BY RuntimeAssumption DEF RuntimeIInv, RuntimeTypeOK
<1>3. CASE RouteWaiting(i)
  <2> DEFINE d == [c EXCEPT !.last = "WAIT", !.stage = "NOT_EXECUTED"]
  <2>1. SoundCoordinator(d) /\ d.status = c.status
    BY <1>1, LastAskedIsSound DEF Coordinator, CoordinatorStages
  <2>2. Routed(i, d) /\ runtimeStatus = "RUNNING"
    BY <1>3 DEF RouteWaiting, Routable
  <2> HIDE DEF d
  <2> QED
    BY <2>1, <2>2, RoutedKeeps
<1>4. ASSUME NEW t \in TradesOf[i], RouteTrade(i, t)
      PROVE  RuntimeIInv'
  <2>1. t \in Trades
    BY DEF Trades
  <2>2. runtimeStatus = "RUNNING" /\ c.intent = None /\ c.held = 0
    BY <1>4 DEF RouteTrade, Routable, MayProcess, Idle
  <2>3. CASE c.ended[t] = None
    <3> DEFINE d == ProcessedFresh(c, t)
    <3>1. Routed(i, d) /\ d.opened \in Serial
      BY <1>4, <2>3 DEF RouteTrade, Routed
    <3>2. SoundCoordinator(d) /\ d.status = c.status
      BY <1>1, <1>2, <2>1, <2>2, <2>3, <3>1, FreshIsSound
    <3> HIDE DEF d
    <3> QED
      BY <2>2, <3>1, <3>2, RoutedKeeps
  <2>4. CASE c.ended[t] # None /\ CachedRaises(c, t)
    <3> DEFINE d == [c EXCEPT !.stage = "EXECUTION"]
    <3>1. RoutedRaises(i, d)
      BY <1>4, <2>4 DEF RouteTrade, CachedRaises, ProcessedCached
    <3>2. /\ d \in Coordinator /\ d.intent = c.intent /\ d.ended = c.ended
          /\ d.opened = c.opened /\ d.held = c.held /\ d.status = c.status
      BY <1>1 DEF Coordinator, CoordinatorStages
    <3> HIDE DEF d
    <3>3. SoundCoordinator(d)
      BY <1>1, <3>2, SameHand
    <3> QED
      BY <3>1, <3>2, <3>3, RaisedKeeps
  <2>5. CASE c.ended[t] # None /\ ~CachedRaises(c, t)
    <3> DEFINE d == ProcessedCached(c, t)
    <3>1. Routed(i, d) /\ d.opened \in Serial
      BY <1>4, <2>5 DEF RouteTrade, Routed
    <3>2. SoundCoordinator(d) /\ d.status = c.status
      BY <1>1, <2>1, <2>5, <3>1, CachedIsSound
    <3> HIDE DEF d
    <3> QED
      BY <2>2, <3>1, <3>2, RoutedKeeps
  <2> QED
    BY <2>3, <2>4, <2>5
<1>5. ASSUME NEW complete \in BOOLEAN, NEW suits \in BOOLEAN, RouteFill(i, complete, suits)
      PROVE  RuntimeIInv'
  <2> DEFINE d == Confirmed(c, complete, suits)
  <2>1. runtimeStatus = "RUNNING" /\ c.intent # None /\ c.held = 0
    BY <1>5 DEF RouteFill, Routable
  <2>2. IF suits THEN Routed(i, d) ELSE RoutedRaises(i, d)
    BY <1>5 DEF RouteFill
  <2>3. suits => d.opened \in Serial
    BY <2>2 DEF Routed
  <2>4. SoundCoordinator(d) /\ d.status = c.status
    BY <1>1, <2>1, <2>3, ConfirmedIsSound
  <2>5. CASE suits
    <3>1. Routed(i, d)
      BY <2>2, <2>5
    <3> HIDE DEF d
    <3> QED
      BY <2>1, <2>4, <3>1, RoutedKeeps
  <2>6. CASE ~suits
    <3>1. RoutedRaises(i, d)
      BY <2>2, <2>6
    <3>2. d.held = 0
      BY <1>1, <2>1, <2>6 DEF Confirmed, Ends, Executing, Coordinator
    <3> HIDE DEF d
    <3> QED
      BY <2>1, <2>4, <3>1, <3>2, RaisedKeeps
  <2> QED
    BY <2>5, <2>6
<1>6. ASSUME NEW effect \in {"HOLD", "PARTIAL_EXIT", "FULL_EXIT"}, RoutePrice(i, effect)
      PROVE  RuntimeIInv'
  <2> DEFINE d == Priced(c, effect)
  <2>1. runtimeStatus = "RUNNING" /\ Routed(i, d)
    BY <1>6 DEF RoutePrice, Routable
  <2>2. SoundCoordinator(d) /\ d.status = c.status
    BY <1>1, PricedIsSound
  <2> HIDE DEF d
  <2> QED
    BY <2>1, <2>2, RoutedKeeps
<1>7. CASE RoutePartialExit(i)
  <2> DEFINE d == ExitsPart(c)
  <2>1. runtimeStatus = "RUNNING" /\ Routed(i, d)
    BY <1>7 DEF RoutePartialExit, Routable
  <2>2. SoundCoordinator(d) /\ d.status = c.status
    BY <1>1, ExitsAreSound
  <2> HIDE DEF d
  <2> QED
    BY <2>1, <2>2, RoutedKeeps
<1>8. CASE RouteClose(i)
  <2> DEFINE d == ExitsAll(c)
  <2>1. runtimeStatus = "RUNNING" /\ Routed(i, d)
    BY <1>8 DEF RouteClose, Routable
  <2>2. SoundCoordinator(d) /\ d.status = c.status
    BY <1>1, ExitsAreSound
  <2> HIDE DEF d
  <2> QED
    BY <2>1, <2>2, RoutedKeeps
<1>9. CASE CancelBehind(i)
  <2> DEFINE t == c.intent.trade
             n == [filled |-> c.intent.filled, suits |-> c.intent.suits, opening |-> 0]
             d == [c EXCEPT !.intent = None, !.ended[t] = n]
  <2>1. c.intent # None /\ RoutedRaises(i, d)
    BY <1>9 DEF CancelBehind, Ends
  <2>2. 0 \in Serial /\ c.opened \in Serial /\ 0 <= c.opened
    BY <1>1, RuntimeAssumption DEF Serial, Coordinator
  <2>3. c.intent \in OpenIntent
    BY <1>1, <2>1 DEF Coordinator
  <2>4. n \in Ended /\ n.opening <= c.opened /\ t \in Trades
    BY <2>2, <2>3 DEF Ended, OpenIntent
  <2> HIDE DEF t, n
  <2>5. /\ d \in Coordinator /\ d.intent = None /\ d.opened = c.opened /\ d.status = c.status
        /\ d.held = c.held /\ d.ended = [c.ended EXCEPT ![t] = n]
    BY <1>1, <2>4 DEF Coordinator
  <2> HIDE DEF d
  <2>6. SoundCoordinator(d)
    BY <1>1, <2>4, <2>5, EndsIsSound
  <2> QED
    BY <2>1, <2>5, <2>6, RaisedKeeps
<1> QED
  BY <1>3, <1>4, <1>5, <1>6, <1>7, <1>8, <1>9 DEF RouteContext

LEMMA RuntimeStepSound == RuntimeIInv /\ [RuntimeNext]_runtimeVars => RuntimeIInv'
<1> SUFFICES ASSUME RuntimeIInv, [RuntimeNext]_runtimeVars PROVE RuntimeIInv'
  OBVIOUS
<1>1. CASE UNCHANGED runtimeVars
  <2>1. /\ appStatus' = appStatus /\ runtimeStatus' = runtimeStatus /\ fillAtOnce' = fillAtOnce
        /\ coordinators' = coordinators /\ lastSnapshot' = lastSnapshot
    BY <1>1 DEF runtimeVars
  <2> QED
    BY <2>1 DEF RuntimeIInv, RuntimeTypeOK, CoordinatorsFollow, Flat, NeverUnderstatesExposure, Published
<1>2. CASE RuntimeNext
  BY <1>2, RuntimeOwnStep, RuntimeRoutedStep DEF RuntimeNext
<1> QED
  BY <1>1, <1>2

\* Whatever is routed, raised, cancelled behind its back, validated half-way or stopped,
\* the integration's own snapshot never hides an execution in flight or a held position
\* (integration.py: _record_instrument, snapshot, clear).
THEOREM ExposureStaysVisible == RuntimeSpec => []NeverUnderstatesExposure
<1>1. RuntimeIInv => NeverUnderstatesExposure
  BY DEF RuntimeIInv
<1> QED
  BY <1>1, RuntimeInitSound, RuntimeStepSound, PTL DEF RuntimeSpec

\* The integration and its coordinators stay in step, and no coordinator ever has two
\* trades in hand, for every set of instruments and trades.
THEOREM IntegrationStaysInStep == RuntimeSpec => []CoordinatorsStayInStep
<1>1. RuntimeIInv => CoordinatorsStayInStep
  <2>1. RuntimeIInv => OneTradeInHand
    BY DEF RuntimeIInv, OneTradeInHand, SoundCoordinator, TradeInHand
  <2> QED
    BY <2>1 DEF RuntimeIInv, CoordinatorsStayInStep
<1> QED
  BY <1>1, RuntimeInitSound, RuntimeStepSound, PTL DEF RuntimeSpec

-------------------------------------------------------------------------------
(* The paper execution coordinator: its invariant *)

Entry(r) == <<"ENTRY", r.plan>>
Fresh(r) == r.plan \notin reused

\* What an order of the order engine is like.
SoundEntry(b) ==
    /\ b \in BookEntry
    /\ b.filled <= b.quantity /\ b.quantity <= b.limit
    /\ b.status \in {"PENDING_SUBMISSION", "SUBMITTED"} => b.filled = 0
    /\ b.status = "PARTIALLY_FILLED" => b.filled < b.limit
    /\ b.status = "FILLED" => b.filled = b.quantity

\* Protective orders and managed submissions are never without their entry order,
\* but for what a reset of the runtime left behind.
BookIsSound ==
    /\ \A i \in OrderIds : book[i] # None => SoundEntry(book[i]) /\ book[<<"ENTRY", i[2]>>] # None
    /\ \A i \in OrderIds : submissions[i] # None /\ i[2] \notin reused => book[i] # None

\* A former state of an order that is still the same order: it has moved forward since.
UpdatePrecedes(u) ==
    /\ u.status = "FILLED" => u.filled = u.quantity
    /\ u.order[2] \notin reused =>
         /\ book[u.order] # None
         /\ u.status \notin Live => book[u.order].status = u.status
         /\ u.status = "PARTIALLY_FILLED" => u.filled < book[u.order].limit
DelayedPrecede == \A u \in delayed : UpdatePrecedes(u)

\* A receipt is found again under its plan, its content and its request.
MapsAgree ==
    /\ \A r \in Requests : receipts[r] # None =>
         byPlan[r.plan] = r /\ byPrint[r.print] = r /\ byRequest[r.id] = r
    /\ \A i \in OrderIds : byOrder[i] # None => byOrder[i].plan = i[2]

\* The orders a receipt refers to, and no others, are there.
RefsAreOrders ==
    \A r \in Requests : receipts[r] # None =>
        /\ receipts[r].refs \in {{"ENTRY"}, {"ENTRY"} \cup r.protects}
        /\ \A p \in Purposes : book[<<p, r.plan>>] # None <=> p \in receipts[r].refs
        /\ book[Entry(r)].limit = r.quantity
        /\ \A p \in receipts[r].refs \ {"ENTRY"} : byOrder[<<p, r.plan>>] = r

\* A submission of an active receipt has the quantity of its order; the filled one that
\* completed a receipt stays.
SubmissionsAgree ==
    \A r \in Requests :
        /\ IsActive(r) => \A p \in receipts[r].refs :
             submissions[<<p, r.plan>>] # None /\ submissions[<<p, r.plan>>].quantity = r.quantity
        /\ receipts[r] # None /\ receipts[r].status = "COMPLETED" =>
             \E p \in receipts[r].refs \ {"ENTRY"} :
                 submissions[<<p, r.plan>>] # None /\ submissions[<<p, r.plan>>].status = "FILLED"

\* What holds of plans executed for the first time since the runtime was built.
FreshIsProtected ==
    \A r \in Requests : receipts[r] # None /\ Fresh(r) =>
        /\ receipts[r].filled <= r.quantity
        /\ receipts[r].filled = r.quantity => r.protects \subseteq receipts[r].refs
        /\ IsActive(r) /\ submissions[Entry(r)].status = "FILLED" => r.protects \subseteq receipts[r].refs
        /\ \A p \in receipts[r].refs \ {"ENTRY"} :
             book[<<p, r.plan>>].limit = r.quantity /\ book[Entry(r)].status = "FILLED"

PaperIInv ==
    /\ PaperTypeOK
    /\ BookIsSound
    /\ DelayedPrecede
    /\ MapsAgree
    /\ RefsAreOrders
    /\ SubmissionsAgree
    /\ FreshIsProtected
    /\ EndedLeavesNothingLive

-------------------------------------------------------------------------------
(* Orders and former states of orders *)

LEMMA OrderIdsArePairs ==
    /\ \A i \in OrderIds : i[1] \in Purposes /\ i[2] \in Plans /\ i = <<i[1], i[2]>>
    /\ \A p \in Purposes, l \in Plans : <<p, l>> \in OrderIds /\ <<p, l>>[1] = p /\ <<p, l>>[2] = l
BY DEF OrderIds

LEMMA RequestIs ==
    ASSUME NEW r \in Requests
    PROVE  /\ r # None /\ r.plan \in Plans /\ r.quantity \in Nat \ {0}
           /\ r.protects \subseteq {"STOP_LOSS", "TARGET"}
           /\ r.protects \subseteq Purposes /\ "ENTRY" \notin r.protects /\ "ENTRY" \in Purposes
           /\ Entry(r) \in OrderIds /\ Entry(r)[2] = r.plan /\ Entry(r)[1] = "ENTRY"
           /\ \A p \in Purposes : <<p, r.plan>> \in OrderIds /\ <<p, r.plan>>[2] = r.plan /\ <<p, r.plan>>[1] = p
<1>1. r \in Request /\ r # None
  BY RequestsAssumption
<1>2. r.plan \in Plans
  BY DEF Plans
<1>3. r.quantity \in Nat \ {0} /\ r.protects \subseteq {"STOP_LOSS", "TARGET"}
  BY <1>1 DEF Request
<1>4. "ENTRY" \in Purposes /\ r.protects \subseteq Purposes /\ "ENTRY" \notin r.protects
  BY <1>3 DEF Purposes
<1> QED
  BY <1>1, <1>2, <1>3, <1>4, OrderIdsArePairs DEF Entry

\* An order that moves keeps its approval, and one that has ended keeps everything.
MovesOn(b, c) ==
    /\ SoundEntry(c)
    /\ c.limit = b.limit
    /\ b.status \notin Live => c = b

LEMMA PlacedIsSound ==
    ASSUME NEW q \in Nat \ {0}
    PROVE  /\ SoundEntry(Placed(q)) /\ Placed(q).limit = q /\ Placed(q).status = "PENDING_SUBMISSION"
           /\ Placed(q) # None
<1>1. Placed(q) \in BookEntry
  BY DEF Placed, BookEntry, BookStatuses
<1>2. Placed(q).limit = q /\ Placed(q).quantity = q /\ Placed(q).filled = 0
      /\ Placed(q).status = "PENDING_SUBMISSION"
  BY DEF Placed
<1> QED
  BY <1>1, <1>2, NothingAssumption DEF SoundEntry

LEMMA StandingMovesOn ==
    ASSUME NEW b, SoundEntry(b)
    PROVE  MovesOn(b, b) /\ b # None
BY NothingAssumption DEF MovesOn, SoundEntry

LEMMA CancelledMovesOn ==
    ASSUME NEW b, SoundEntry(b), b.status \in Live
    PROVE  /\ MovesOn(b, [b EXCEPT !.status = "CANCELLED"])
           /\ [b EXCEPT !.status = "CANCELLED"] # None
           /\ [b EXCEPT !.status = "CANCELLED"].status = "CANCELLED"
<1>1. b \in BookEntry
  BY DEF SoundEntry
<1> DEFINE c == [b EXCEPT !.status = "CANCELLED"]
<1>2. c \in BookEntry /\ c.status = "CANCELLED" /\ c.limit = b.limit /\ c.quantity = b.quantity
      /\ c.filled = b.filled
  BY <1>1 DEF BookEntry, BookStatuses
<1> HIDE DEF c
<1>3. MovesOn(b, c) /\ c # None
  BY <1>2, NothingAssumption DEF MovesOn, SoundEntry
<1> QED
  BY <1>2, <1>3 DEF c

\* What the order engine makes of a live order with one command.
LEMMA SuccessorsMoveOn ==
    ASSUME NEW b, SoundEntry(b), NEW c \in Successors(b)
    PROVE  MovesOn(b, c) /\ c # None
<1>1. b \in BookEntry /\ b.filled \in Nat /\ b.quantity \in Nat /\ b.limit \in Nat /\ b.status \in BookStatuses
  BY DEF SoundEntry, BookEntry
<1>2. b.status \in Live
  BY <1>1 DEF Successors, Live, BookStatuses
<1>3. ASSUME NEW s \in {"SUBMITTED", "CANCELLED", "REJECTED"}, c \in Moved(b, s),
             s = "SUBMITTED" => b.status = "PENDING_SUBMISSION"
      PROVE  MovesOn(b, c) /\ c # None
  <2>1. c = [b EXCEPT !.status = s]
    BY <1>3 DEF Moved
  <2>2. c \in BookEntry /\ c.status = s /\ c.limit = b.limit /\ c.quantity = b.quantity /\ c.filled = b.filled
    BY <1>1, <2>1 DEF BookEntry, BookStatuses
  <2>3. s = "SUBMITTED" => b.filled = 0
    BY <1>3 DEF SoundEntry
  <2> QED
    BY <1>2, <2>2, <2>3, NothingAssumption DEF MovesOn, SoundEntry
<1>4. ASSUME c \in Resized(b)
      PROVE  MovesOn(b, c) /\ c # None
  <2>1. PICK q \in {p \in 1 .. b.limit : p >= b.filled} : c = [b EXCEPT !.quantity = q]
    BY <1>4 DEF Resized
  <2>2. q \in Nat /\ q <= b.limit /\ b.filled <= q
    BY <1>1, <2>1
  <2>3. c \in BookEntry /\ c.status = b.status /\ c.limit = b.limit /\ c.quantity = q /\ c.filled = b.filled
    BY <1>1, <2>1, <2>2 DEF BookEntry
  <2>4. b.status # "FILLED"
    BY <1>2 DEF Live
  <2> QED
    BY <1>2, <2>2, <2>3, <2>4, NothingAssumption DEF MovesOn, SoundEntry
<1>5. ASSUME c \in FilledBy(b)
      PROVE  MovesOn(b, c) /\ c # None
  <2>1. PICK n \in 1 .. (b.quantity - b.filled) : c = Filling(b, n)
    BY <1>5 DEF FilledBy
  <2> DEFINE s == IF b.filled + n < b.quantity THEN "PARTIALLY_FILLED" ELSE "FILLED"
             f == b.filled + n
  <2>2. f \in Nat /\ f <= b.quantity
    BY <1>1, <2>1
  <2>3. c = [b EXCEPT !.filled = f, !.status = s]
    BY <2>1 DEF Filling
  <2>4. (s = "PARTIALLY_FILLED" /\ f < b.quantity) \/ (s = "FILLED" /\ f = b.quantity)
    BY <1>1, <2>1, <2>2
  <2> HIDE DEF s, f
  <2>5. c \in BookEntry /\ c.status = s /\ c.limit = b.limit /\ c.quantity = b.quantity /\ c.filled = f
    BY <1>1, <2>2, <2>3, <2>4 DEF BookEntry, BookStatuses
  <2>6. b.quantity <= b.limit
    BY DEF SoundEntry
  <2>7. f < b.quantity => f < b.limit
    BY <1>1, <2>2, <2>6
  <2> QED
    BY <1>2, <2>2, <2>4, <2>5, <2>6, <2>7, NothingAssumption DEF MovesOn, SoundEntry
<1>6. CASE b.status = "PENDING_SUBMISSION"
  <2>1. \/ c \in Moved(b, "SUBMITTED") \/ c \in Moved(b, "CANCELLED") \/ c \in Moved(b, "REJECTED")
        \/ c \in Resized(b)
    BY <1>6 DEF Successors
  <2> QED
    BY <1>3, <1>4, <1>6, <2>1
<1>7. CASE b.status = "SUBMITTED"
  <2>1. \/ c \in Moved(b, "CANCELLED") \/ c \in Moved(b, "REJECTED") \/ c \in Resized(b) \/ c \in FilledBy(b)
    BY <1>7 DEF Successors
  <2> QED
    BY <1>3, <1>4, <1>5, <2>1
<1>8. CASE b.status = "PARTIALLY_FILLED"
  <2>1. c \in Moved(b, "CANCELLED") \/ c \in Resized(b) \/ c \in FilledBy(b)
    BY <1>8 DEF Successors
  <2> QED
    BY <1>3, <1>4, <1>5, <2>1
<1> QED
  BY <1>2, <1>6, <1>7, <1>8 DEF Live

\* Every order that was there moved on, or stayed.
BookMovesOn ==
    \A i \in OrderIds : book[i] # None => book'[i] # None /\ MovesOn(book[i], book'[i])

\* The states the orders have now precede themselves.
LEMMA UpdatesPrecede ==
    ASSUME PaperIInv, NEW u \in Updates
    PROVE  u \in OrderState /\ UpdatePrecedes(u)
<1>1. CASE u \in delayed
  BY <1>1 DEF PaperIInv, PaperTypeOK, DelayedPrecede
<1>2. CASE u \notin delayed
  <2>1. PICK i \in OrderIds : book[i] # None /\ u = Update(i, book[i])
    BY <1>2 DEF Updates
  <2>2. SoundEntry(book[i]) /\ book[i] \in BookEntry
    BY <2>1 DEF PaperIInv, BookIsSound, SoundEntry
  <2>3. u.order = i /\ u.status = book[i].status /\ u.quantity = book[i].quantity /\ u.filled = book[i].filled
    BY <2>1 DEF Update
  <2>4. u \in OrderState
    BY <2>1, <2>2 DEF Update, OrderState, BookEntry
  <2> QED
    BY <2>1, <2>2, <2>3, <2>4 DEF UpdatePrecedes, SoundEntry
<1> QED
  BY <1>1, <1>2

\* Whatever is kept back still precedes its order when the order has moved on.
LEMMA DelayedStayBehind ==
    ASSUME PaperIInv, BookMovesOn, reused' = reused, delayed' = delayed \/ KeptBack
    PROVE  delayed' \subseteq OrderState /\ DelayedPrecede'
<1>1. delayed' \subseteq Updates
  BY DEF KeptBack, Updates
<1> SUFFICES ASSUME NEW u \in delayed'
             PROVE  /\ u \in OrderState
                    /\ u.status = "FILLED" => u.filled = u.quantity
                    /\ u.order[2] \notin reused =>
                         /\ book'[u.order] # None
                         /\ u.status \notin Live => book'[u.order].status = u.status
                         /\ u.status = "PARTIALLY_FILLED" => u.filled < book'[u.order].limit
  BY DEF DelayedPrecede, UpdatePrecedes
<1>2. u \in OrderState /\ UpdatePrecedes(u)
  BY <1>1, UpdatesPrecede
<1>3. u.order \in OrderIds
  BY <1>2 DEF OrderState
<1>4. ASSUME u.order[2] \notin reused
      PROVE  /\ book'[u.order] # None
             /\ u.status \notin Live => book'[u.order].status = u.status
             /\ u.status = "PARTIALLY_FILLED" => u.filled < book'[u.order].limit
  <2>1. /\ book[u.order] # None
        /\ u.status \notin Live => book[u.order].status = u.status
        /\ u.status = "PARTIALLY_FILLED" => u.filled < book[u.order].limit
    BY <1>2, <1>4 DEF UpdatePrecedes
  <2>2. book'[u.order] # None /\ MovesOn(book[u.order], book'[u.order])
    BY <1>3, <2>1 DEF BookMovesOn
  <2> QED
    BY <2>1, <2>2 DEF MovesOn
<1> QED
  BY <1>2, <1>4 DEF UpdatePrecedes

\* What update_managed_order makes of the submissions.
LEMMA SyncedIs ==
    ASSUME submissions \in [OrderIds -> Optional(Submission)], NEW u \in OrderState, Syncs(u)
    PROVE  /\ Synced(u) \in [OrderIds -> Optional(Submission)]
           /\ Synced(u)[u.order] # None
           /\ Synced(u)[u.order].status = SubmissionStatus(u.status)
           /\ Synced(u)[u.order].quantity = submissions[u.order].quantity
           /\ Synced(u)[u.order].quantity = u.quantity
           /\ \A i \in OrderIds : i # u.order => Synced(u)[i] = submissions[i]
           /\ submissions[u.order] # None
           /\ submissions[u.order].status = "FILLED" => Synced(u)[u.order].status = "FILLED"
<1> DEFINE s == submissions[u.order]
           st == SubmissionStatus(u.status)
           n == [s EXCEPT !.status = st, !.filled = u.filled]
<1>1. u.order \in OrderIds /\ u.status \in BookStatuses /\ u.filled \in Nat
  BY DEF OrderState
<1>2. s # None /\ u.quantity = s.quantity /\ (s.status = "FILLED" => st = "FILLED")
  BY DEF Syncs
<1>3. s \in Submission
  BY <1>1, <1>2 DEF Optional
<1>4. st \in SubmissionStatuses
  BY <1>1 DEF SubmissionStatus, SubmissionStatuses, BookStatuses
<1>5. Synced(u) = [submissions EXCEPT ![u.order] = n]
  BY <1>1 DEF Synced
<1> HIDE DEF st
<1>6. n \in Submission /\ n.status = st /\ n.quantity = s.quantity
  BY <1>1, <1>3, <1>4 DEF Submission
<1>7. n # None
  BY <1>6, NothingAssumption
<1> HIDE DEF n
<1>8. Synced(u)[u.order] = n /\ \A i \in OrderIds : i # u.order => Synced(u)[i] = submissions[i]
  BY <1>1, <1>5
<1>9. Synced(u) \in [OrderIds -> Optional(Submission)]
  BY <1>1, <1>5, <1>6 DEF Optional
<1> QED
  BY <1>2, <1>6, <1>7, <1>8, <1>9 DEF st

\* What _cancel_managed_submission makes of them.
LEMMA CancelledSubmissions ==
    ASSUME NEW subs \in [OrderIds -> Optional(Submission)], NEW S
    PROVE  /\ SubmissionsCancelled(subs, S) \in [OrderIds -> Optional(Submission)]
           /\ \A i \in OrderIds :
                /\ SubmissionsCancelled(subs, S)[i] = None <=> subs[i] = None
                /\ subs[i] # None => SubmissionsCancelled(subs, S)[i].quantity = subs[i].quantity
                /\ SubmissionsCancelled(subs, S)[i].status = "FILLED" => subs[i].status = "FILLED"
                /\ subs[i] # None /\ subs[i].status = "FILLED" => SubmissionsCancelled(subs, S)[i] = subs[i]
<1> DEFINE c == SubmissionsCancelled(subs, S)
<1>1. ASSUME NEW i \in OrderIds
      PROVE  /\ c[i] \in Optional(Submission)
             /\ c[i] = None <=> subs[i] = None
             /\ subs[i] # None => c[i].quantity = subs[i].quantity
             /\ c[i].status = "FILLED" => subs[i].status = "FILLED"
             /\ subs[i] # None /\ subs[i].status = "FILLED" => c[i] = subs[i]
  <2>1. CASE subs[i] # None /\ c[i] = [subs[i] EXCEPT !.status = "CANCELLED"]
             /\ subs[i].status \in {"SUBMITTED", "PARTIALLY_FILLED"}
    <3> DEFINE s == subs[i]
               d == [s EXCEPT !.status = "CANCELLED"]
    <3>1. s \in Submission
      BY <2>1 DEF Optional
    <3> HIDE DEF s
    <3>2. d \in Submission /\ d.quantity = s.quantity /\ d.status = "CANCELLED"
      BY <3>1 DEF Submission, SubmissionStatuses
    <3>3. d # None
      BY <3>2, NothingAssumption
    <3>4. c[i] = d
      BY <2>1 DEF s
    <3> HIDE DEF d, c
    <3> QED
      BY <2>1, <3>2, <3>3, <3>4 DEF Optional, s
  <2>2. CASE c[i] = subs[i]
    BY <2>2
  <2>3. c[i] = subs[i] \/ (subs[i] # None /\ c[i] = [subs[i] EXCEPT !.status = "CANCELLED"]
             /\ subs[i].status \in {"SUBMITTED", "PARTIALLY_FILLED"})
    BY DEF SubmissionsCancelled
  <2> QED
    BY <2>1, <2>2, <2>3
<1>2. c = [i \in OrderIds |-> c[i]]
  BY DEF SubmissionsCancelled
<1>3. c \in [OrderIds -> Optional(Submission)]
  BY <1>1, <1>2
<1> QED
  BY <1>1, <1>3

\* What the order engine makes of a cancellation.
LEMMA CancelledBook ==
    ASSUME PaperIInv, NEW S, book' = OrdersCancelled(S)
    PROVE  /\ book' \in [OrderIds -> Optional(BookEntry)]
           /\ BookMovesOn
           /\ \A i \in OrderIds : /\ book[i] = None => book'[i] = None
                                  /\ i \in S => ~IsLive(i)'
<1>1. ASSUME NEW i \in OrderIds
      PROVE  /\ book[i] = None => book'[i] = None
             /\ book[i] # None => book'[i] # None /\ MovesOn(book[i], book'[i])
             /\ i \in S => ~(book'[i] # None /\ book'[i].status \in Live)
             /\ book'[i] \in Optional(BookEntry)
  <2>1. book'[i] = IF i \in S /\ IsLive(i) THEN [book[i] EXCEPT !.status = "CANCELLED"] ELSE book[i]
    BY DEF OrdersCancelled
  <2>2. book[i] # None => SoundEntry(book[i])
    BY DEF PaperIInv, BookIsSound
  <2>3. CASE i \in S /\ IsLive(i)
    <3>1. book'[i] = [book[i] EXCEPT !.status = "CANCELLED"] /\ book[i] # None /\ book[i].status \in Live
      BY <2>1, <2>3 DEF IsLive
    <3>2. MovesOn(book[i], book'[i]) /\ book'[i] # None /\ book'[i].status = "CANCELLED"
      BY <2>2, <3>1, CancelledMovesOn
    <3>3. "CANCELLED" \notin Live
      BY DEF Live
    <3> QED
      BY <3>1, <3>2, <3>3 DEF MovesOn, SoundEntry, Optional
  <2>4. CASE ~(i \in S /\ IsLive(i))
    <3>1. book'[i] = book[i]
      BY <2>1, <2>4
    <3>2. book[i] # None => MovesOn(book[i], book'[i])
      BY <2>2, <3>1, StandingMovesOn
    <3> QED
      BY <2>4, <3>1, <3>2 DEF IsLive, PaperIInv, PaperTypeOK
  <2> QED
    BY <2>3, <2>4
<1>2. book' = [i \in OrderIds |-> book'[i]]
  BY DEF OrdersCancelled
<1>3. book' \in [OrderIds -> Optional(BookEntry)]
  BY <1>1, <1>2
<1> QED
  BY <1>1, <1>3 DEF BookMovesOn, IsLive

-------------------------------------------------------------------------------
(* Steps that neither place orders nor start receipts *)

\* Nothing happened to receipt r.
Untouched(r) ==
    /\ receipts'[r] = receipts[r]
    /\ submissions'[Entry(r)].status = "FILLED" => submissions[Entry(r)].status = "FILLED"

\* Receipt r heard of its orders, or they were cancelled.
Answered(r) ==
    /\ receipts'[r].status = "COMPLETED" =>
         \E p \in receipts'[r].refs \ {"ENTRY"} :
             submissions'[<<p, r.plan>>] # None /\ submissions'[<<p, r.plan>>].status = "FILLED"
    /\ Fresh(r) =>
         /\ receipts'[r].filled <= r.quantity
         /\ receipts'[r].filled = r.quantity => r.protects \subseteq receipts'[r].refs
         /\ receipts'[r].status \in ActiveStatuses /\ submissions'[Entry(r)].status = "FILLED" =>
              r.protects \subseteq receipts'[r].refs
         /\ receipts'[r].status \in {"COMPLETED", "CANCELLED"} =>
              \A p \in receipts'[r].refs : ~IsLive(<<p, r.plan>>)'

QuietBook ==
    /\ book' \in [OrderIds -> Optional(BookEntry)]
    /\ BookMovesOn
    /\ \A i \in OrderIds : book[i] = None => book'[i] = None

QuietSubmissions ==
    /\ submissions' \in [OrderIds -> Optional(Submission)]
    /\ \A i \in OrderIds :
         /\ submissions'[i] = None <=> submissions[i] = None
         /\ submissions[i] # None => submissions'[i].quantity = submissions[i].quantity
         /\ submissions[i] # None /\ submissions[i].status = "FILLED" => submissions'[i].status = "FILLED"

QuietReceipts ==
    /\ receipts' \in [Requests -> Optional(Receipt)]
    /\ \A r \in Requests : receipts'[r] # None =>
         /\ receipts[r] # None /\ receipts'[r].refs = receipts[r].refs
         /\ ~IsActive(r) => receipts'[r] = receipts[r]
         /\ IsActive(r) => Untouched(r) \/ Answered(r)

LEMMA StatusesAreDisjoint ==
    /\ \A s \in ActiveStatuses : s \notin TerminalStatuses /\ s \notin {"COMPLETED", "CANCELLED"}
    /\ {"COMPLETED", "CANCELLED", "REJECTED", "FAILED"} \subseteq TerminalStatuses
BY DEF ActiveStatuses, TerminalStatuses

LEMMA QuietStep ==
    ASSUME PaperIInv, QuietBook, QuietSubmissions, QuietReceipts, delayed' = delayed \/ KeptBack,
           stopped' \in BOOLEAN, UNCHANGED <<byPlan, byPrint, byRequest, byOrder, safe, reused, resets>>
    PROVE  PaperIInv'
<1>1. /\ byPlan' = byPlan /\ byPrint' = byPrint /\ byRequest' = byRequest /\ byOrder' = byOrder
      /\ safe' = safe /\ reused' = reused /\ resets' = resets
  OBVIOUS
<1>2. delayed' \subseteq OrderState /\ DelayedPrecede'
  BY <1>1, DelayedStayBehind DEF QuietBook
<1>3. PaperTypeOK'
  BY <1>1, <1>2 DEF PaperIInv, PaperTypeOK, QuietBook, QuietSubmissions, QuietReceipts
<1>4. BookIsSound'
  <2>1. ASSUME NEW i \in OrderIds, book'[i] # None
        PROVE  SoundEntry(book'[i]) /\ book'[<<"ENTRY", i[2]>>] # None
    <3>1. book[i] # None
      BY <2>1 DEF QuietBook
    <3>2. SoundEntry(book'[i])
      BY <2>1, <3>1 DEF QuietBook, BookMovesOn, MovesOn
    <3>3. <<"ENTRY", i[2]>> \in OrderIds
      BY <2>1, OrderIdsArePairs DEF Purposes
    <3>4. book[<<"ENTRY", i[2]>>] # None
      BY <3>1 DEF PaperIInv, BookIsSound
    <3>5. book'[<<"ENTRY", i[2]>>] # None
      BY <3>3, <3>4 DEF QuietBook, BookMovesOn
    <3> QED
      BY <3>2, <3>5
  <2>2. ASSUME NEW i \in OrderIds, submissions'[i] # None, i[2] \notin reused'
        PROVE  book'[i] # None
    <3>1. submissions[i] # None /\ i[2] \notin reused
      BY <1>1, <2>2 DEF QuietSubmissions
    <3>2. book[i] # None
      BY <3>1 DEF PaperIInv, BookIsSound
    <3> QED
      BY <3>2 DEF QuietBook, BookMovesOn
  <2> QED
    BY <2>1, <2>2 DEF BookIsSound
<1>5. MapsAgree'
  BY <1>1 DEF PaperIInv, MapsAgree, QuietReceipts
<1>6. RefsAreOrders'
  <2> SUFFICES ASSUME NEW r \in Requests, receipts'[r] # None
               PROVE  /\ receipts'[r].refs \in {{"ENTRY"}, {"ENTRY"} \cup r.protects}
                      /\ \A p \in Purposes : book'[<<p, r.plan>>] # None <=> p \in receipts'[r].refs
                      /\ book'[Entry(r)].limit = r.quantity
                      /\ \A p \in receipts'[r].refs \ {"ENTRY"} : byOrder'[<<p, r.plan>>] = r
    BY DEF RefsAreOrders, Entry
  <2>1. receipts[r] # None /\ receipts'[r].refs = receipts[r].refs
    BY DEF QuietReceipts
  <2>2. /\ receipts[r].refs \in {{"ENTRY"}, {"ENTRY"} \cup r.protects}
        /\ \A p \in Purposes : book[<<p, r.plan>>] # None <=> p \in receipts[r].refs
        /\ book[Entry(r)].limit = r.quantity
        /\ \A p \in receipts[r].refs \ {"ENTRY"} : byOrder[<<p, r.plan>>] = r
    BY <2>1 DEF PaperIInv, RefsAreOrders
  <2>3. \A p \in Purposes : book'[<<p, r.plan>>] # None <=> book[<<p, r.plan>>] # None
    BY RequestIs DEF QuietBook, BookMovesOn
  <2>4. book[Entry(r)] # None
    BY <2>2, RequestIs DEF Entry
  <2>5. book'[Entry(r)].limit = book[Entry(r)].limit
    BY <2>4, RequestIs DEF QuietBook, BookMovesOn, MovesOn
  <2> QED
    BY <1>1, <2>1, <2>2, <2>3, <2>5
<1>7. SubmissionsAgree'
  <2>1. ASSUME NEW r \in Requests, IsActive(r)', NEW p \in receipts'[r].refs
        PROVE  submissions'[<<p, r.plan>>] # None /\ submissions'[<<p, r.plan>>].quantity = r.quantity
    <3>1. receipts'[r] # None /\ receipts'[r].status \in ActiveStatuses
      BY <2>1 DEF IsActive
    <3>2. receipts[r] # None /\ receipts'[r].refs = receipts[r].refs
      BY <3>1 DEF QuietReceipts
    <3>3. IsActive(r)
      BY <3>1, <3>2 DEF QuietReceipts, IsActive
    <3>4. submissions[<<p, r.plan>>] # None /\ submissions[<<p, r.plan>>].quantity = r.quantity
      BY <2>1, <3>2, <3>3 DEF PaperIInv, SubmissionsAgree
    <3>5. p \in Purposes
      BY <2>1, <3>1 DEF QuietReceipts, Optional, Receipt
    <3> QED
      BY <3>4, <3>5, RequestIs DEF QuietSubmissions
  <2>2. ASSUME NEW r \in Requests, receipts'[r] # None, receipts'[r].status = "COMPLETED"
        PROVE  \E p \in receipts'[r].refs \ {"ENTRY"} :
                   submissions'[<<p, r.plan>>] # None /\ submissions'[<<p, r.plan>>].status = "FILLED"
    <3>1. receipts[r] # None /\ receipts'[r].refs = receipts[r].refs
      BY <2>2 DEF QuietReceipts
    <3>2. CASE receipts'[r] = receipts[r]
      <4>1. PICK p \in receipts[r].refs \ {"ENTRY"} :
                   submissions[<<p, r.plan>>] # None /\ submissions[<<p, r.plan>>].status = "FILLED"
        BY <2>2, <3>1, <3>2 DEF PaperIInv, SubmissionsAgree
      <4>2. p \in Purposes
        BY <3>1, <4>1 DEF PaperIInv, PaperTypeOK, Optional, Receipt
      <4>3. submissions'[<<p, r.plan>>] # None /\ submissions'[<<p, r.plan>>].status = "FILLED"
        BY <4>1, <4>2, RequestIs DEF QuietSubmissions
      <4> QED
        BY <3>1, <4>1, <4>3
    <3>3. CASE receipts'[r] # receipts[r]
      <4>1. Answered(r)
        BY <2>2, <3>3 DEF QuietReceipts, Untouched
      <4> QED
        BY <2>2, <4>1 DEF Answered
    <3> QED
      BY <3>2, <3>3
  <2> QED
    BY <2>1, <2>2 DEF SubmissionsAgree
<1>8. ASSUME NEW r \in Requests, receipts'[r] # None, Fresh(r)
      PROVE  /\ receipts'[r].filled <= r.quantity
             /\ receipts'[r].filled = r.quantity => r.protects \subseteq receipts'[r].refs
             /\ IsActive(r)' /\ submissions'[Entry(r)].status = "FILLED" => r.protects \subseteq receipts'[r].refs
             /\ receipts'[r].status \in {"COMPLETED", "CANCELLED"} =>
                  \A p \in receipts'[r].refs : ~IsLive(<<p, r.plan>>)'
  <2>1. /\ receipts[r] # None /\ receipts'[r].refs = receipts[r].refs
        /\ ~IsActive(r) => receipts'[r] = receipts[r]
        /\ IsActive(r) => Untouched(r) \/ Answered(r)
    BY <1>8 DEF QuietReceipts
  <2>2. /\ receipts[r].filled <= r.quantity
        /\ receipts[r].filled = r.quantity => r.protects \subseteq receipts[r].refs
        /\ IsActive(r) /\ submissions[Entry(r)].status = "FILLED" => r.protects \subseteq receipts[r].refs
    BY <1>8, <2>1 DEF PaperIInv, FreshIsProtected
  <2>3. CASE ~IsActive(r)
    <3>1. receipts'[r] = receipts[r] /\ ~IsActive(r)'
      BY <2>1, <2>3 DEF IsActive
    <3>2. ASSUME receipts[r].status \in {"COMPLETED", "CANCELLED"}, NEW p \in receipts[r].refs
          PROVE  ~IsLive(<<p, r.plan>>)'
      <4>1. ~IsLive(<<p, r.plan>>)
        BY <1>8, <2>1, <3>2 DEF PaperIInv, EndedLeavesNothingLive, OrdersOf, Fresh
      <4>2. p \in Purposes
        BY <2>1, <3>2 DEF PaperIInv, PaperTypeOK, Optional, Receipt
      <4>3. <<p, r.plan>> \in OrderIds
        BY <4>2, RequestIs
      <4>4. book[<<p, r.plan>>] = None => book'[<<p, r.plan>>] = None
        BY <4>3 DEF QuietBook
      <4>5. book[<<p, r.plan>>] # None => book'[<<p, r.plan>>] = book[<<p, r.plan>>]
        BY <4>1, <4>3 DEF QuietBook, BookMovesOn, MovesOn, IsLive
      <4> QED
        BY <4>1, <4>4, <4>5 DEF IsLive
    <3> QED
      BY <2>2, <3>1, <3>2
  <2>4. CASE IsActive(r) /\ Untouched(r)
    <3>1. receipts'[r] = receipts[r] /\ receipts'[r].status \notin {"COMPLETED", "CANCELLED"}
      BY <2>4, StatusesAreDisjoint DEF Untouched, IsActive
    <3> QED
      BY <2>2, <2>4, <3>1 DEF Untouched
  <2>5. CASE IsActive(r) /\ Answered(r)
    BY <1>8, <2>5 DEF Answered, IsActive
  <2> QED
    BY <2>1, <2>3, <2>4, <2>5
<1>9. FreshIsProtected'
  <2> SUFFICES ASSUME NEW r \in Requests, receipts'[r] # None, Fresh(r)'
               PROVE  /\ receipts'[r].filled <= r.quantity
                      /\ receipts'[r].filled = r.quantity => r.protects \subseteq receipts'[r].refs
                      /\ IsActive(r)' /\ submissions'[Entry(r)].status = "FILLED" =>
                           r.protects \subseteq receipts'[r].refs
                      /\ \A p \in receipts'[r].refs \ {"ENTRY"} :
                           book'[<<p, r.plan>>].limit = r.quantity /\ book'[Entry(r)].status = "FILLED"
    BY DEF FreshIsProtected, Entry
  <2>1. Fresh(r)
    BY <1>1 DEF Fresh
  <2>2. receipts[r] # None /\ receipts'[r].refs = receipts[r].refs
    BY DEF QuietReceipts
  <2>3. ASSUME NEW p \in receipts[r].refs \ {"ENTRY"}
        PROVE  book'[<<p, r.plan>>].limit = r.quantity /\ book'[Entry(r)].status = "FILLED"
    <3>1. book[<<p, r.plan>>].limit = r.quantity /\ book[Entry(r)].status = "FILLED"
      BY <2>1, <2>2, <2>3 DEF PaperIInv, FreshIsProtected
    <3>2. p \in Purposes /\ "ENTRY" \in Purposes /\ "ENTRY" \in receipts[r].refs
      BY <2>2, <2>3, RequestIs DEF PaperIInv, PaperTypeOK, Optional, Receipt, RefsAreOrders
    <3>3. book[<<p, r.plan>>] # None /\ book[Entry(r)] # None
      BY <2>2, <2>3, <3>2 DEF PaperIInv, RefsAreOrders, Entry
    <3>4. <<p, r.plan>> \in OrderIds /\ Entry(r) \in OrderIds /\ "FILLED" \notin Live
      BY <3>2, RequestIs DEF Live
    <3>5. MovesOn(book[<<p, r.plan>>], book'[<<p, r.plan>>]) /\ MovesOn(book[Entry(r)], book'[Entry(r)])
      BY <3>3, <3>4 DEF QuietBook, BookMovesOn
    <3> QED
      BY <3>1, <3>4, <3>5 DEF MovesOn
  <2> QED
    BY <1>8, <2>1, <2>2, <2>3
<1>10. EndedLeavesNothingLive'
  <2> SUFFICES ASSUME NEW r \in Requests, receipts'[r] # None,
                      receipts'[r].status \in {"COMPLETED", "CANCELLED"}, r.plan \notin reused',
                      NEW p \in receipts'[r].refs
               PROVE  ~IsLive(<<p, r.plan>>)'
    BY DEF EndedLeavesNothingLive, OrdersOf
  <2>1. Fresh(r)
    BY <1>1 DEF Fresh
  <2> QED
    BY <1>8, <2>1
<1> QED
  BY <1>2, <1>3, <1>4, <1>5, <1>6, <1>7, <1>9, <1>10 DEF PaperIInv

-------------------------------------------------------------------------------
(* The steps of the paper execution coordinator *)

LEMMA PaperInitSound == PaperInit => PaperIInv
<1> SUFFICES ASSUME PaperInit PROVE PaperIInv
  OBVIOUS
<1>1. PaperTypeOK
  <2>1. 0 \in 0 .. MaxResets
    BY RequestsAssumption
  <2>2. /\ book \in [OrderIds -> Optional(BookEntry)] /\ receipts \in [Requests -> Optional(Receipt)]
        /\ submissions \in [OrderIds -> Optional(Submission)]
    BY DEF PaperInit, BookInit, Optional
  <2>3. /\ byPlan \in [Plans -> Optional(Requests)]
        /\ byPrint \in [{r.print : r \in Requests} -> Optional(Requests)]
        /\ byRequest \in [{r.id : r \in Requests} -> Optional(Requests)]
        /\ byOrder \in [OrderIds -> Optional(Requests)]
    BY DEF PaperInit, Optional
  <2>4. stopped \in BOOLEAN /\ safe \in BOOLEAN /\ delayed = {} /\ reused = {} /\ resets = 0
    BY DEF PaperInit
  <2> QED
    BY <2>1, <2>2, <2>3, <2>4 DEF PaperTypeOK
<1>2. /\ \A i \in OrderIds : book[i] = None /\ byOrder[i] = None /\ submissions[i] = None
      /\ \A r \in Requests : receipts[r] = None
      /\ delayed = {}
  BY DEF PaperInit, BookInit
<1>3. BookIsSound /\ DelayedPrecede
  BY <1>2 DEF BookIsSound, DelayedPrecede
<1>4. MapsAgree /\ RefsAreOrders /\ SubmissionsAgree /\ FreshIsProtected /\ EndedLeavesNothingLive
  BY <1>2 DEF MapsAgree, RefsAreOrders, SubmissionsAgree, IsActive, FreshIsProtected, EndedLeavesNothingLive
<1> QED
  BY <1>1, <1>3, <1>4 DEF PaperIInv

\* What stays quiet when a variable does not change.
LEMMA StillIsQuiet ==
    ASSUME PaperIInv
    PROVE  /\ book' = book => QuietBook
           /\ submissions' = submissions => QuietSubmissions
           /\ receipts' = receipts /\ QuietSubmissions
              /\ (\A r \in Requests : IsActive(r) =>
                    (submissions'[Entry(r)].status = "FILLED" => submissions[Entry(r)].status = "FILLED"))
              => QuietReceipts
<1>1. book' = book => QuietBook
  <2>1. \A i \in OrderIds : book[i] # None => MovesOn(book[i], book[i])
    BY StandingMovesOn DEF PaperIInv, BookIsSound
  <2> QED
    BY <2>1 DEF PaperIInv, PaperTypeOK, QuietBook, BookMovesOn
<1>2. submissions' = submissions => QuietSubmissions
  BY DEF PaperIInv, PaperTypeOK, QuietSubmissions
<1> QED
  BY <1>1, <1>2 DEF PaperIInv, PaperTypeOK, QuietReceipts, Untouched

\* A reset of the session or of the runtime.
LEMMA ResetKeeps ==
    ASSUME PaperIInv, ResetSession \/ ResetRuntime
    PROVE  PaperIInv'
<1>1. /\ resets' \in 0 .. MaxResets /\ stopped' = FALSE /\ submissions' = submissions /\ safe' = safe
      /\ delayed' = delayed
      /\ receipts' = [r \in Requests |-> None]
      /\ byPlan' = [p \in Plans |-> None]
      /\ byPrint' = [p \in {r.print : r \in Requests} |-> None]
      /\ byRequest' = [i \in {r.id : r \in Requests} |-> None]
      /\ byOrder' = [i \in OrderIds |-> None]
  BY RequestsAssumption DEF ResetSession, ResetRuntime, SessionCleared, PaperIInv, PaperTypeOK
<1>2. \/ book' = book /\ reused' = reused
      \/ /\ book' = [i \in OrderIds |-> None]
         /\ reused' = reused \cup {p \in Plans : book[<<"ENTRY", p>>] # None}
  BY DEF ResetSession, ResetRuntime, Emptied
<1>3. reused' \subseteq Plans /\ book' \in [OrderIds -> Optional(BookEntry)]
  BY <1>2 DEF PaperIInv, PaperTypeOK, Optional
<1>4. PaperTypeOK'
  BY <1>1, <1>3 DEF PaperIInv, PaperTypeOK, Optional
<1>5. MapsAgree' /\ RefsAreOrders' /\ SubmissionsAgree' /\ FreshIsProtected' /\ EndedLeavesNothingLive'
  BY <1>1 DEF MapsAgree, RefsAreOrders, SubmissionsAgree, IsActive, FreshIsProtected, EndedLeavesNothingLive
\* An order of a plan that is still fresh is still there.
<1>6. ASSUME NEW i \in OrderIds, i[2] \notin reused', book[i] # None
      PROVE  book' = book
  <2>1. book[<<"ENTRY", i[2]>>] # None /\ i[2] \in Plans
    BY <1>6, OrderIdsArePairs DEF PaperIInv, BookIsSound
  <2> QED
    BY <1>2, <1>6, <2>1
<1>7. BookIsSound'
  <2>1. \A i \in OrderIds : book'[i] # None => SoundEntry(book'[i]) /\ book'[<<"ENTRY", i[2]>>] # None
    BY <1>2 DEF PaperIInv, BookIsSound
  <2>2. ASSUME NEW i \in OrderIds, submissions'[i] # None, i[2] \notin reused'
        PROVE  book'[i] # None
    <3>1. book[i] # None
      BY <1>1, <1>2, <2>2 DEF PaperIInv, BookIsSound
    <3> QED
      BY <1>6, <2>2, <3>1
  <2> QED
    BY <2>1, <2>2 DEF BookIsSound
<1>8. DelayedPrecede'
  <2> SUFFICES ASSUME NEW u \in delayed
               PROVE  /\ u.status = "FILLED" => u.filled = u.quantity
                      /\ u.order[2] \notin reused' =>
                           /\ book'[u.order] # None
                           /\ u.status \notin Live => book'[u.order].status = u.status
                           /\ u.status = "PARTIALLY_FILLED" => u.filled < book'[u.order].limit
    BY <1>1 DEF DelayedPrecede, UpdatePrecedes
  <2>1. UpdatePrecedes(u) /\ u.order \in OrderIds
    BY DEF PaperIInv, DelayedPrecede, PaperTypeOK, OrderState
  <2>2. ASSUME u.order[2] \notin reused'
        PROVE  u.order[2] \notin reused /\ book' = book
    <3>1. u.order[2] \notin reused
      BY <1>2, <2>2
    <3>2. book[u.order] # None
      BY <2>1, <3>1 DEF UpdatePrecedes
    <3> QED
      BY <1>6, <2>1, <2>2, <3>1, <3>2
  <2> QED
    BY <2>1, <2>2 DEF UpdatePrecedes
<1> QED
  BY <1>4, <1>5, <1>7, <1>8 DEF PaperIInv

LEMMA StopKeeps ==
    ASSUME PaperIInv, Stop
    PROVE  PaperIInv'
<1>1. /\ book' = book /\ submissions' = submissions /\ receipts' = receipts /\ delayed' = delayed /\ stopped' = TRUE
      /\ UNCHANGED <<byPlan, byPrint, byRequest, byOrder, safe, reused, resets>>
  BY DEF Stop, maps
<1>2. QuietBook /\ QuietSubmissions /\ QuietReceipts
  BY <1>1, StillIsQuiet
<1> QED
  BY <1>1, <1>2, QuietStep

LEMMA RejectedKeeps ==
    ASSUME PaperIInv, NEW r \in Requests, ExecuteRejected(r)
    PROVE  PaperIInv'
<1>1. /\ book' = book /\ submissions' = submissions /\ delayed' = delayed /\ stopped' = stopped
      /\ receipts' = [receipts EXCEPT ![r] = None]
      /\ UNCHANGED <<byPlan, byPrint, byRequest, byOrder, safe, reused, resets>>
  BY DEF ExecuteRejected, maps
<1>2. QuietBook /\ QuietSubmissions
  BY <1>1, StillIsQuiet
<1>3. receipts \in [Requests -> Optional(Receipt)] /\ stopped \in BOOLEAN
  BY DEF PaperIInv, PaperTypeOK
<1>4. receipts' \in [Requests -> Optional(Receipt)]
  BY <1>1, <1>3 DEF Optional
<1>5. QuietReceipts
  BY <1>1, <1>3, <1>4 DEF QuietReceipts, Untouched
<1> QED
  BY <1>1, <1>2, <1>3, <1>5, QuietStep

\* A receipt for an entry order that was just created.
LEMMA EnteredKeeps ==
    ASSUME PaperIInv, NEW r \in Requests, ExecuteUnsubmitted(r) \/ ExecuteAccepted(r)
    PROVE  PaperIInv'
<1> DEFINE entry == Entry(r)
<1>1. /\ Enters(r) /\ Place(entry, r.quantity) /\ Remembered(r) /\ KeptBack
      /\ stopped' = stopped /\ safe' = safe /\ reused' = reused /\ resets' = resets
  BY DEF ExecuteUnsubmitted, ExecuteAccepted, Entry
<1>2. byPlan[r.plan] = None /\ byPrint[r.print] = None /\ byRequest[r.id] = None
  BY <1>1 DEF Enters, Known
<1>3. book[entry] = None /\ book' = [book EXCEPT ![entry] = Placed(r.quantity)]
  BY <1>1 DEF Place
<1>4. /\ r.quantity \in Nat \ {0} /\ entry \in OrderIds /\ entry[2] = r.plan /\ r.plan \in Plans /\ r # None
      /\ "ENTRY" \notin r.protects
  BY RequestIs
<1>5. PICK status \in {"FAILED", "ENTRY_SUBMITTED"} :
        /\ receipts' = [receipts EXCEPT ![r] = [status |-> status, refs |-> {"ENTRY"}, filled |-> 0]]
        /\ status = "FAILED" => submissions' = submissions /\ byOrder' = byOrder
        /\ status = "ENTRY_SUBMITTED" => /\ Submittable(entry, r.quantity)
                                         /\ submissions' = Submitted(submissions, entry, r.quantity)
                                         /\ byOrder' = [byOrder EXCEPT ![entry] = r]
  BY DEF ExecuteUnsubmitted, ExecuteAccepted, Entry
<1> DEFINE b == Placed(r.quantity)
           n == [status |-> status, refs |-> {"ENTRY"}, filled |-> 0]
<1>6. SoundEntry(b) /\ b.limit = r.quantity /\ b \in BookEntry /\ b # None
  BY <1>4, PlacedIsSound DEF SoundEntry
<1>7. n \in Receipt /\ n # None /\ n.status = status /\ n.refs = {"ENTRY"} /\ n.filled = 0
  <2>1. n \in Receipt
    BY DEF Receipt, ActiveStatuses, TerminalStatuses, Purposes
  <2> QED
    BY <2>1, NothingAssumption
<1> HIDE DEF b, n, entry
<1>8. PaperTypeOK
  BY DEF PaperIInv
<1>9. /\ book' = [book EXCEPT ![entry] = b] /\ receipts' = [receipts EXCEPT ![r] = n]
      /\ book \in [OrderIds -> Optional(BookEntry)] /\ receipts \in [Requests -> Optional(Receipt)]
  BY <1>3, <1>5, <1>8 DEF b, n, PaperTypeOK
<1>10. /\ book'[entry] = b /\ \A i \in OrderIds : i # entry => book'[i] = book[i]
       /\ receipts'[r] = n /\ \A s \in Requests : s # r => receipts'[s] = receipts[s]
  BY <1>4, <1>9
<1>11. BookMovesOn
  BY <1>3, <1>10, StandingMovesOn DEF BookMovesOn, PaperIInv, BookIsSound
<1>12. delayed' \subseteq OrderState /\ DelayedPrecede'
  BY <1>1, <1>11, DelayedStayBehind
\* The submissions: at most the entry's is new.
<1>13. /\ submissions' \in [OrderIds -> Optional(Submission)]
       /\ \A i \in OrderIds : i # entry => submissions'[i] = submissions[i]
       /\ \A i \in OrderIds : submissions[i] # None => submissions'[i] = submissions[i]
       /\ status = "ENTRY_SUBMITTED" =>
            /\ submissions'[entry] # None /\ submissions'[entry].quantity = r.quantity
            /\ submissions[entry] = None => submissions'[entry].status = "SUBMITTED"
  <2> DEFINE s == [status |-> "SUBMITTED", quantity |-> r.quantity, filled |-> 0]
  <2>1. s \in Submission /\ s.status = "SUBMITTED" /\ s.quantity = r.quantity
    BY <1>4 DEF Submission, SubmissionStatuses
  <2>2. s # None
    BY <2>1, NothingAssumption
  <2> HIDE DEF s
  <2>3. submissions \in [OrderIds -> Optional(Submission)]
    BY <1>8 DEF PaperTypeOK
  <2>4. CASE submissions' = submissions
    <3>1. ASSUME status = "ENTRY_SUBMITTED"
          PROVE  submissions[entry] # None /\ submissions[entry].quantity = r.quantity
      <4>1. CASE submissions[entry] = None
        <5>1. submissions' = [submissions EXCEPT ![entry] = s]
          BY <1>5, <3>1, <4>1 DEF Submitted, s
        <5> QED
          BY <1>4, <2>2, <2>3, <2>4, <4>1, <5>1
      <4>2. CASE submissions[entry] # None
        BY <1>5, <3>1, <4>2 DEF Submittable
      <4> QED
        BY <4>1, <4>2
    <3> QED
      BY <2>3, <2>4, <3>1
  <2>5. CASE submissions' # submissions
    <3>1. status = "ENTRY_SUBMITTED" /\ submissions[entry] = None /\ submissions' = [submissions EXCEPT ![entry] = s]
      BY <1>5, <2>5 DEF Submitted, s
    <3> QED
      BY <1>4, <2>1, <2>2, <2>3, <3>1 DEF Optional
  <2> QED
    BY <2>4, <2>5
\* The receipts of other requests have other plans, contents and ids.
<1>14. ASSUME NEW s \in Requests, s # r, receipts[s] # None
       PROVE  s.plan # r.plan /\ s.print # r.print /\ s.id # r.id
  <2>1. byPlan[s.plan] = s /\ byPrint[s.print] = s /\ byRequest[s.id] = s /\ s # None
    BY <1>14, RequestIs DEF PaperIInv, MapsAgree
  <2> QED
    BY <1>2, <2>1
<1>15. ASSUME NEW s \in Requests, s # r, receipts'[s] # None
       PROVE  /\ receipts[s] # None /\ receipts'[s] = receipts[s]
              /\ \A p \in Purposes : /\ <<p, s.plan>> # entry /\ <<p, s.plan>> \in OrderIds
                                     /\ book'[<<p, s.plan>>] = book[<<p, s.plan>>]
                                     /\ submissions'[<<p, s.plan>>] = submissions[<<p, s.plan>>]
                                     /\ byOrder'[<<p, s.plan>>] = byOrder[<<p, s.plan>>]
  <2>1. receipts[s] # None /\ receipts'[s] = receipts[s]
    BY <1>10, <1>15
  <2>2. s.plan # r.plan
    BY <1>14, <1>15, <2>1
  <2>3. ASSUME NEW p \in Purposes
        PROVE  <<p, s.plan>> # entry /\ <<p, s.plan>> \in OrderIds
    BY <1>4, <2>2, RequestIs
  <2>4. byOrder \in [OrderIds -> Optional(Requests)]
    BY <1>8 DEF PaperTypeOK
  <2>5. \A i \in OrderIds : i # entry => byOrder'[i] = byOrder[i]
    BY <1>5, <2>4
  <2> QED
    BY <1>10, <1>13, <2>1, <2>3, <2>5
<1>16. \A p \in Purposes : book[<<p, r.plan>>] = None
  <2> SUFFICES ASSUME NEW p \in Purposes, book[<<p, r.plan>>] # None PROVE FALSE
    OBVIOUS
  <2>1. <<p, r.plan>> \in OrderIds /\ <<p, r.plan>>[2] = r.plan
    BY RequestIs
  <2>2. book[<<"ENTRY", r.plan>>] # None
    BY <2>1 DEF PaperIInv, BookIsSound
  <2> QED
    BY <1>3, <2>2 DEF entry, Entry
<1>17. PaperTypeOK'
  <2>1. book' \in [OrderIds -> Optional(BookEntry)] /\ receipts' \in [Requests -> Optional(Receipt)]
    BY <1>6, <1>7, <1>9 DEF Optional
  <2>2. byOrder' \in [OrderIds -> Optional(Requests)]
    BY <1>5, <1>8 DEF PaperTypeOK, Optional
  <2>3. /\ byPlan' \in [Plans -> Optional(Requests)]
        /\ byPrint' \in [{q.print : q \in Requests} -> Optional(Requests)]
        /\ byRequest' \in [{q.id : q \in Requests} -> Optional(Requests)]
    BY <1>1, <1>8 DEF Remembered, PaperTypeOK, Optional
  <2> QED
    BY <1>1, <1>8, <1>12, <1>13, <2>1, <2>2, <2>3 DEF PaperTypeOK
<1>18. BookIsSound'
  <2>1. ASSUME NEW i \in OrderIds, book'[i] # None
        PROVE  SoundEntry(book'[i]) /\ book'[<<"ENTRY", i[2]>>] # None
    <3>1. CASE i = entry
      <4>1. <<"ENTRY", i[2]>> = entry
        BY <1>4, <3>1 DEF entry, Entry
      <4> QED
        BY <1>6, <1>10, <3>1, <4>1
    <3>2. CASE i # entry
      <4>1. book[i] # None /\ SoundEntry(book'[i]) /\ book[<<"ENTRY", i[2]>>] # None
        BY <1>10, <2>1, <3>2 DEF PaperIInv, BookIsSound
      <4>2. <<"ENTRY", i[2]>> \in OrderIds
        BY OrderIdsArePairs DEF Purposes
      <4> QED
        BY <1>6, <1>10, <4>1, <4>2
    <3> QED
      BY <3>1, <3>2
  <2>2. ASSUME NEW i \in OrderIds, submissions'[i] # None, i[2] \notin reused'
        PROVE  book'[i] # None
    BY <1>1, <1>6, <1>10, <1>13, <2>2 DEF PaperIInv, BookIsSound
  <2> QED
    BY <2>1, <2>2 DEF BookIsSound
<1>19. MapsAgree'
  <2>1. ASSUME NEW s \in Requests, receipts'[s] # None
        PROVE  byPlan'[s.plan] = s /\ byPrint'[s.print] = s /\ byRequest'[s.id] = s
    <3>0. /\ byPlan \in [Plans -> Optional(Requests)] /\ s.plan \in Plans /\ r.plan \in Plans
          /\ byPrint \in [{q.print : q \in Requests} -> Optional(Requests)]
          /\ byRequest \in [{q.id : q \in Requests} -> Optional(Requests)]
          /\ s.print \in {q.print : q \in Requests} /\ r.print \in {q.print : q \in Requests}
          /\ s.id \in {q.id : q \in Requests} /\ r.id \in {q.id : q \in Requests}
      BY <1>8, RequestIs DEF PaperTypeOK
    <3>1. CASE s = r
      BY <1>1, <3>0, <3>1 DEF Remembered
    <3>2. CASE s # r
      <4>1. receipts[s] # None
        BY <1>15, <2>1, <3>2
      <4>2. byPlan[s.plan] = s /\ byPrint[s.print] = s /\ byRequest[s.id] = s
        BY <4>1 DEF PaperIInv, MapsAgree
      <4> QED
        BY <1>1, <1>14, <3>0, <3>2, <4>1, <4>2 DEF Remembered
    <3> QED
      BY <3>1, <3>2
  <2>2. ASSUME NEW i \in OrderIds, byOrder'[i] # None
        PROVE  byOrder'[i].plan = i[2]
    <3>1. byOrder \in [OrderIds -> Optional(Requests)] /\ (byOrder[i] # None => byOrder[i].plan = i[2])
      BY <1>8 DEF PaperIInv, PaperTypeOK, MapsAgree
    <3> QED
      BY <1>4, <1>5, <2>2, <3>1
  <2> QED
    BY <2>1, <2>2 DEF MapsAgree
<1>20. RefsAreOrders'
  <2> SUFFICES ASSUME NEW s \in Requests, receipts'[s] # None
               PROVE  /\ receipts'[s].refs \in {{"ENTRY"}, {"ENTRY"} \cup s.protects}
                      /\ \A p \in Purposes : book'[<<p, s.plan>>] # None <=> p \in receipts'[s].refs
                      /\ book'[Entry(s)].limit = s.quantity
                      /\ \A p \in receipts'[s].refs \ {"ENTRY"} : byOrder'[<<p, s.plan>>] = s
    BY DEF RefsAreOrders, Entry
  <2>1. CASE s = r
    <3>1. \A p \in Purposes : <<p, r.plan>> = entry <=> p = "ENTRY"
      BY DEF entry, Entry
    <3>2. \A p \in Purposes : book'[<<p, r.plan>>] # None <=> p = "ENTRY"
      BY <1>6, <1>10, <1>16, <3>1, RequestIs
    <3> QED
      BY <1>6, <1>7, <1>10, <2>1, <3>2 DEF entry
  <2>2. CASE s # r
    <3>1. /\ receipts[s] # None /\ receipts'[s] = receipts[s]
          /\ receipts[s].refs \in {{"ENTRY"}, {"ENTRY"} \cup s.protects}
          /\ \A p \in Purposes : book[<<p, s.plan>>] # None <=> p \in receipts[s].refs
          /\ book[Entry(s)].limit = s.quantity
          /\ \A p \in receipts[s].refs \ {"ENTRY"} : byOrder[<<p, s.plan>>] = s
      BY <1>15, <2>2 DEF PaperIInv, RefsAreOrders
    <3>2. receipts[s].refs \subseteq Purposes /\ "ENTRY" \in Purposes
      BY <3>1, RequestIs
    <3> QED
      BY <1>15, <2>2, <3>1, <3>2 DEF Entry
  <2> QED
    BY <2>1, <2>2
<1>21. SubmissionsAgree'
  <2> SUFFICES ASSUME NEW s \in Requests, receipts'[s] # None
               PROVE  /\ receipts'[s].status \in ActiveStatuses => \A p \in receipts'[s].refs :
                           submissions'[<<p, s.plan>>] # None /\ submissions'[<<p, s.plan>>].quantity = s.quantity
                      /\ receipts'[s].status = "COMPLETED" =>
                           \E p \in receipts'[s].refs \ {"ENTRY"} :
                               submissions'[<<p, s.plan>>] # None /\ submissions'[<<p, s.plan>>].status = "FILLED"
    BY DEF SubmissionsAgree, IsActive
  <2>1. CASE s = r
    <3>1. status \in ActiveStatuses => status = "ENTRY_SUBMITTED"
      BY DEF ActiveStatuses
    <3>2. <<"ENTRY", r.plan>> = entry
      BY DEF entry, Entry
    <3> QED
      BY <1>7, <1>10, <1>13, <2>1, <3>1, <3>2
  <2>2. CASE s # r
    <3>1. /\ receipts[s] # None /\ receipts'[s] = receipts[s]
          /\ \A p \in Purposes : submissions'[<<p, s.plan>>] = submissions[<<p, s.plan>>]
      BY <1>15, <2>2
    <3>2. receipts[s].refs \subseteq Purposes
      BY <3>1, <1>8 DEF PaperTypeOK, Optional, Receipt
    <3>3. /\ receipts[s].status \in ActiveStatuses => \A p \in receipts[s].refs :
               submissions[<<p, s.plan>>] # None /\ submissions[<<p, s.plan>>].quantity = s.quantity
          /\ receipts[s].status = "COMPLETED" =>
               \E p \in receipts[s].refs \ {"ENTRY"} :
                   submissions[<<p, s.plan>>] # None /\ submissions[<<p, s.plan>>].status = "FILLED"
      BY <3>1 DEF PaperIInv, SubmissionsAgree, IsActive
    <3> QED
      BY <3>1, <3>2, <3>3
  <2> QED
    BY <2>1, <2>2
<1>22. FreshIsProtected'
  <2> SUFFICES ASSUME NEW s \in Requests, receipts'[s] # None, Fresh(s)'
               PROVE  /\ receipts'[s].filled <= s.quantity
                      /\ receipts'[s].filled = s.quantity => s.protects \subseteq receipts'[s].refs
                      /\ receipts'[s].status \in ActiveStatuses /\ submissions'[Entry(s)].status = "FILLED" =>
                           s.protects \subseteq receipts'[s].refs
                      /\ \A p \in receipts'[s].refs \ {"ENTRY"} :
                           book'[<<p, s.plan>>].limit = s.quantity /\ book'[Entry(s)].status = "FILLED"
    BY DEF FreshIsProtected, Entry, IsActive
  <2>0. Fresh(s)
    BY <1>1 DEF Fresh
  <2>1. CASE s = r
    <3>1. status \in ActiveStatuses => submissions'[entry].status = "SUBMITTED"
      <4>1. submissions[entry] = None
        BY <1>3, <1>4, <2>0, <2>1 DEF PaperIInv, BookIsSound, Fresh
      <4> QED
        BY <1>13, <4>1 DEF ActiveStatuses
    <3> QED
      BY <1>4, <1>7, <1>10, <2>1, <3>1 DEF entry
  <2>2. CASE s # r
    <3>1. /\ receipts[s] # None /\ receipts'[s] = receipts[s]
          /\ \A p \in Purposes : /\ submissions'[<<p, s.plan>>] = submissions[<<p, s.plan>>]
                                 /\ book'[<<p, s.plan>>] = book[<<p, s.plan>>]
      BY <1>15, <2>2
    <3>2. receipts[s].refs \subseteq Purposes /\ "ENTRY" \in Purposes
      BY <3>1, <1>8, RequestIs DEF PaperTypeOK, Optional, Receipt
    <3>3. submissions'[Entry(s)] = submissions[Entry(s)] /\ book'[Entry(s)] = book[Entry(s)]
      BY <3>1, <3>2 DEF Entry
    <3>4. /\ receipts[s].filled <= s.quantity
          /\ receipts[s].filled = s.quantity => s.protects \subseteq receipts[s].refs
          /\ receipts[s].status \in ActiveStatuses /\ submissions[Entry(s)].status = "FILLED" =>
               s.protects \subseteq receipts[s].refs
          /\ \A p \in receipts[s].refs \ {"ENTRY"} :
               book[<<p, s.plan>>].limit = s.quantity /\ book[Entry(s)].status = "FILLED"
      BY <2>0, <3>1 DEF PaperIInv, FreshIsProtected, IsActive
    <3> QED
      BY <3>1, <3>2, <3>3, <3>4
  <2> QED
    BY <2>1, <2>2
<1>23. EndedLeavesNothingLive'
  <2> SUFFICES ASSUME NEW s \in Requests, receipts'[s] # None,
                      receipts'[s].status \in {"COMPLETED", "CANCELLED"}, s.plan \notin reused',
                      NEW p \in receipts'[s].refs
               PROVE  ~(book'[<<p, s.plan>>] # None /\ book'[<<p, s.plan>>].status \in Live)
    BY DEF EndedLeavesNothingLive, OrdersOf, IsLive
  <2>1. s # r
    BY <1>7, <1>10
  <2>2. receipts[s] # None /\ receipts'[s] = receipts[s]
    BY <1>15, <2>1
  <2>3. p \in Purposes
    BY <1>8, <2>2 DEF PaperTypeOK, Optional, Receipt
  <2>4. book'[<<p, s.plan>>] = book[<<p, s.plan>>]
    BY <1>15, <2>1, <2>3
  <2>5. ~IsLive(<<p, s.plan>>)
    BY <1>1, <2>2 DEF PaperIInv, EndedLeavesNothingLive, OrdersOf
  <2> QED
    BY <2>4, <2>5 DEF IsLive
<1> QED
  BY <1>12, <1>17, <1>18, <1>19, <1>20, <1>21, <1>22, <1>23 DEF PaperIInv

\* What is known when the coordinator hears of an order of receipt r.
LEMMA HeardFacts ==
    ASSUME PaperIInv, NEW u \in Updates, NEW r \in Requests, Heard(u, r)
    PROVE  /\ u \in OrderState /\ UpdatePrecedes(u) /\ u.order \in OrderIds
           /\ u.order[1] \in Purposes /\ u.order[1] \in receipts[r].refs
           /\ u.order[2] = r.plan /\ u.order = <<u.order[1], r.plan>>
           /\ IsActive(r) /\ receipts[r] # None /\ receipts[r] \in Receipt /\ receipts[r].refs \subseteq Purposes
           /\ receipts[r].status \in ActiveStatuses
           /\ receipts[r].refs \in {{"ENTRY"}, {"ENTRY"} \cup r.protects}
           /\ submissions[u.order] # None /\ submissions[u.order].quantity = r.quantity
           /\ book[u.order] # None
<1>1. u \in OrderState /\ UpdatePrecedes(u)
  BY UpdatesPrecede
<1>2. u.order \in OrderIds
  BY <1>1 DEF OrderState
<1>3. byOrder[u.order] = r /\ r # None /\ IsActive(r) /\ u.order[1] \in receipts[r].refs
  BY DEF Heard
<1>4. u.order[2] = r.plan
  BY <1>2, <1>3 DEF PaperIInv, MapsAgree
<1>5. u.order = <<u.order[1], u.order[2]>> /\ u.order[1] \in Purposes
  BY <1>2, OrderIdsArePairs
<1>6. receipts[r] # None /\ receipts[r].status \in ActiveStatuses
  BY <1>3 DEF IsActive
<1>7. receipts[r] \in Receipt
  BY <1>6 DEF PaperIInv, PaperTypeOK, Optional
<1>8. receipts[r].refs \subseteq Purposes
  BY <1>7 DEF Receipt
<1>9. /\ receipts[r].refs \in {{"ENTRY"}, {"ENTRY"} \cup r.protects}
      /\ book[<<u.order[1], r.plan>>] # None
  BY <1>3, <1>5, <1>6 DEF PaperIInv, RefsAreOrders
<1>10. submissions[<<u.order[1], r.plan>>] # None /\ submissions[<<u.order[1], r.plan>>].quantity = r.quantity
  BY <1>3 DEF PaperIInv, SubmissionsAgree
<1>11. u.order = <<u.order[1], r.plan>>
  BY <1>4, <1>5
<1> QED
  BY <1>1, <1>2, <1>3, <1>4, <1>5, <1>6, <1>7, <1>8, <1>9, <1>10, <1>11

\* Receipts are of different plans.
LEMMA OtherPlans ==
    ASSUME PaperIInv, NEW r \in Requests, NEW s \in Requests, receipts[r] # None, receipts[s] # None, r # s
    PROVE  r.plan # s.plan /\ r.print # s.print /\ r.id # s.id
BY DEF PaperIInv, MapsAgree

\* An update of an order that is filled: the whole quantity.
LEMMA FilledIsWhole ==
    ASSUME PaperIInv, NEW u \in Updates, NEW r \in Requests, Heard(u, r), Syncs(u), u.status = "FILLED"
    PROVE  u.filled = r.quantity
BY HeardFacts DEF UpdatePrecedes, Syncs

\* Receipt r heard of update u: its status and filled quantity change, and the submissions
\* of S are cancelled.
Told(u, r, S, status, filled) ==
    /\ Heard(u, r) /\ Syncs(u)
    /\ submissions' = SubmissionsCancelled(Synced(u), S)
    /\ delayed' = delayed \/ KeptBack
    /\ receipts' = [receipts EXCEPT ![r].status = status, ![r].filled = filled]
    /\ UNCHANGED <<stopped, byPlan, byPrint, byRequest, byOrder, safe, reused, resets>>

\* What the new status and filled quantity are worth.
Settled(r, status, filled) ==
    /\ status \in ActiveStatuses \cup TerminalStatuses
    /\ filled \in Nat
    /\ status = "COMPLETED" =>
         \E p \in receipts[r].refs \ {"ENTRY"} :
             submissions'[<<p, r.plan>>] # None /\ submissions'[<<p, r.plan>>].status = "FILLED"
    /\ Fresh(r) =>
         /\ filled <= r.quantity
         /\ filled = r.quantity => r.protects \subseteq receipts[r].refs
         /\ status \in ActiveStatuses /\ submissions'[Entry(r)].status = "FILLED" =>
              r.protects \subseteq receipts[r].refs
         /\ status \in {"COMPLETED", "CANCELLED"} =>
              \A p \in receipts[r].refs : ~IsLive(<<p, r.plan>>)'

LEMMA NotedStep ==
    ASSUME PaperIInv, QuietBook, NEW u \in Updates, NEW r \in Requests, NEW S, NEW status, NEW filled,
           Told(u, r, S, status, filled), Settled(r, status, filled)
    PROVE  PaperIInv'
<1>0. /\ Heard(u, r) /\ Syncs(u)
      /\ submissions' = SubmissionsCancelled(Synced(u), S)
      /\ delayed' = delayed \/ KeptBack
      /\ receipts' = [receipts EXCEPT ![r].status = status, ![r].filled = filled]
      /\ UNCHANGED <<stopped, byPlan, byPrint, byRequest, byOrder, safe, reused, resets>>
      /\ status \in ActiveStatuses \cup TerminalStatuses /\ filled \in Nat
  BY DEF Told, Settled
<1>1. /\ u \in OrderState /\ u.order \in OrderIds /\ u.order[2] = r.plan /\ receipts[r] \in Receipt
      /\ receipts[r] # None /\ IsActive(r)
  BY <1>0, HeardFacts
<1>2. /\ submissions \in [OrderIds -> Optional(Submission)] /\ receipts \in [Requests -> Optional(Receipt)]
      /\ stopped \in BOOLEAN
  BY DEF PaperIInv, PaperTypeOK
<1>3. /\ Synced(u) \in [OrderIds -> Optional(Submission)]
      /\ Synced(u)[u.order] # None
      /\ Synced(u)[u.order].quantity = submissions[u.order].quantity
      /\ \A i \in OrderIds : i # u.order => Synced(u)[i] = submissions[i]
      /\ submissions[u.order] # None
      /\ submissions[u.order].status = "FILLED" => Synced(u)[u.order].status = "FILLED"
  BY <1>0, <1>1, <1>2, SyncedIs
<1>4. /\ submissions' \in [OrderIds -> Optional(Submission)]
      /\ \A i \in OrderIds :
           /\ submissions'[i] = None <=> Synced(u)[i] = None
           /\ Synced(u)[i] # None => submissions'[i].quantity = Synced(u)[i].quantity
           /\ submissions'[i].status = "FILLED" => Synced(u)[i].status = "FILLED"
           /\ Synced(u)[i] # None /\ Synced(u)[i].status = "FILLED" => submissions'[i] = Synced(u)[i]
  BY <1>0, <1>3, CancelledSubmissions
<1>5. QuietSubmissions
  BY <1>3, <1>4 DEF QuietSubmissions
<1> DEFINE n == [receipts[r] EXCEPT !.status = status, !.filled = filled]
<1>6. n \in Receipt /\ n.status = status /\ n.filled = filled /\ n.refs = receipts[r].refs
  BY <1>0, <1>1 DEF Receipt
<1>7. receipts' = [receipts EXCEPT ![r] = n]
  BY <1>0, <1>2
<1> HIDE DEF n
<1>8. receipts'[r] = n /\ \A s \in Requests : s # r => receipts'[s] = receipts[s]
  BY <1>2, <1>7
<1>9. receipts' \in [Requests -> Optional(Receipt)]
  BY <1>2, <1>6, <1>7 DEF Optional
<1>10. Answered(r)
  BY <1>6, <1>8 DEF Answered, Settled
<1>11. ASSUME NEW s \in Requests, s # r, receipts'[s] # None
       PROVE  receipts[s] # None /\ receipts'[s] = receipts[s] /\ Untouched(s)
  <2>1. receipts[s] # None /\ receipts'[s] = receipts[s]
    BY <1>8, <1>11
  <2>2. s.plan # r.plan
    BY <1>1, <1>11, <2>1, OtherPlans
  <2>3. Entry(s) \in OrderIds /\ Entry(s) # u.order
    BY <1>1, <2>2, RequestIs
  <2> QED
    BY <1>3, <1>4, <2>1, <2>3 DEF Untouched
<1>12. QuietReceipts
  <2> SUFFICES ASSUME NEW s \in Requests, receipts'[s] # None
               PROVE  /\ receipts[s] # None /\ receipts'[s].refs = receipts[s].refs
                      /\ ~IsActive(s) => receipts'[s] = receipts[s]
                      /\ IsActive(s) => Untouched(s) \/ Answered(s)
    BY <1>9 DEF QuietReceipts
  <2>1. CASE s = r
    BY <1>1, <1>6, <1>8, <1>10, <2>1
  <2>2. CASE s # r
    BY <1>11, <2>2
  <2> QED
    BY <2>1, <2>2
<1> QED
  BY <1>0, <1>2, <1>5, <1>12, QuietStep

LEMMA VenueKeeps ==
    ASSUME PaperIInv, NEW i \in OrderIds, Venue(i)
    PROVE  PaperIInv'
<1>1. /\ submissions' = submissions /\ receipts' = receipts /\ KeptBack /\ stopped' = stopped
      /\ UNCHANGED <<byPlan, byPrint, byRequest, byOrder, safe, reused, resets>>
  BY DEF Venue, coordinatorVars, maps
<1>2. book[i] # None /\ \E b \in Successors(book[i]) : book' = [book EXCEPT ![i] = b]
  BY DEF Venue, Change
<1>3. PICK b \in Successors(book[i]) : book' = [book EXCEPT ![i] = b]
  BY <1>2
<1>4. book \in [OrderIds -> Optional(BookEntry)] /\ SoundEntry(book[i]) /\ stopped \in BOOLEAN
  BY <1>2 DEF PaperIInv, PaperTypeOK, BookIsSound
<1>5. MovesOn(book[i], b) /\ b # None
  BY <1>4, SuccessorsMoveOn
<1>6. b \in BookEntry
  BY <1>5 DEF MovesOn, SoundEntry
<1>7. book'[i] = b /\ \A j \in OrderIds : j # i => book'[j] = book[j]
  BY <1>3, <1>4
<1>8. book' \in [OrderIds -> Optional(BookEntry)]
  BY <1>3, <1>4, <1>6 DEF Optional
<1>9. \A j \in OrderIds : book[j] # None => SoundEntry(book[j])
  BY DEF PaperIInv, BookIsSound
<1>10. \A j \in OrderIds : book[j] # None => MovesOn(book[j], book[j])
  BY <1>9, StandingMovesOn
<1>11. BookMovesOn
  BY <1>5, <1>7, <1>10 DEF BookMovesOn
<1>12. QuietBook
  BY <1>2, <1>7, <1>8, <1>11 DEF QuietBook
<1>13. QuietSubmissions /\ QuietReceipts
  BY <1>1, StillIsQuiet
<1> QED
  BY <1>1, <1>4, <1>12, <1>13, QuietStep

LEMMA UpdateFailsKeeps ==
    ASSUME PaperIInv, NEW u \in Updates, NEW r \in Requests, UpdateFails(u, r)
    PROVE  PaperIInv'
<1>1. /\ Heard(u, r) /\ receipts' = [receipts EXCEPT ![r].status = "FAILED"]
      /\ book' = book /\ submissions' = submissions /\ delayed' = delayed /\ stopped' = stopped
      /\ UNCHANGED <<byPlan, byPrint, byRequest, byOrder, safe, reused, resets>>
  BY DEF UpdateFails, maps
<1>2. QuietBook /\ QuietSubmissions
  BY <1>1, StillIsQuiet
<1>3. receipts \in [Requests -> Optional(Receipt)] /\ stopped \in BOOLEAN
  BY DEF PaperIInv, PaperTypeOK
<1>4. receipts[r] # None /\ receipts[r] \in Receipt /\ IsActive(r)
  BY <1>1, HeardFacts
<1> DEFINE n == [receipts[r] EXCEPT !.status = "FAILED"]
<1>5. n \in Receipt /\ n.status = "FAILED" /\ n.refs = receipts[r].refs /\ n.filled = receipts[r].filled
  BY <1>4 DEF Receipt, TerminalStatuses
<1>6. receipts' = [receipts EXCEPT ![r] = n]
  BY <1>1, <1>3
<1> HIDE DEF n
<1>7. receipts'[r] = n /\ \A s \in Requests : s # r => receipts'[s] = receipts[s]
  BY <1>3, <1>6
<1>8. receipts' \in [Requests -> Optional(Receipt)]
  BY <1>3, <1>5, <1>6 DEF Optional
<1>9. "FAILED" \notin ActiveStatuses
  BY DEF ActiveStatuses
<1>10. Fresh(r) => /\ receipts[r].filled <= r.quantity
                   /\ receipts[r].filled = r.quantity => r.protects \subseteq receipts[r].refs
  BY <1>4 DEF PaperIInv, FreshIsProtected
<1>11. Answered(r)
  BY <1>5, <1>7, <1>9, <1>10 DEF Answered
<1>12. \A s \in Requests : s # r => Untouched(s)
  BY <1>1, <1>7 DEF Untouched
<1>13. QuietReceipts
  BY <1>4, <1>5, <1>7, <1>8, <1>11, <1>12 DEF QuietReceipts
<1> QED
  BY <1>1, <1>2, <1>3, <1>13, QuietStep

\* Nothing is cancelled with an empty set.
LEMMA NoneCancelled ==
    ASSUME NEW subs \in [OrderIds -> Optional(Submission)]
    PROVE  SubmissionsCancelled(subs, {}) = subs
BY DEF SubmissionsCancelled

LEMMA EntryUpdateKeeps ==
    ASSUME PaperIInv, NEW u \in Updates, NEW r \in Requests, EntryUpdate(u, r)
    PROVE  PaperIInv'
<1>1. Heard(u, r) /\ u.order[1] = "ENTRY"
  BY DEF EntryUpdate
<1>2. PICK status, filled :
        /\ \/ u.status = "CANCELLED" /\ status = "CANCELLED" /\ filled = receipts[r].filled
           \/ u.status = "REJECTED" /\ status = "REJECTED" /\ filled = receipts[r].filled
           \/ u.status = "PARTIALLY_FILLED" /\ status = "ENTRY_PARTIALLY_FILLED" /\ filled = u.filled
           \/ /\ u.status \in {"PENDING_SUBMISSION", "SUBMITTED"}
              /\ status = receipts[r].status /\ filled = receipts[r].filled
           \/ /\ u.status = "FILLED" /\ (receipts[r].refs # {"ENTRY"} \/ r.protects = {})
              /\ status = "ENTRY_FILLED" /\ filled = u.filled
        /\ Noted(u, r, status, filled)
  BY DEF EntryUpdate
<1>3. /\ Syncs(u) /\ submissions' = Synced(u) /\ book' = book /\ delayed' = delayed
      /\ receipts' = [receipts EXCEPT ![r].status = status, ![r].filled = filled]
      /\ UNCHANGED <<stopped, byPlan, byPrint, byRequest, byOrder, safe, reused, resets>>
  BY <1>2 DEF Noted, maps
<1>4. /\ u \in OrderState /\ UpdatePrecedes(u) /\ u.order = Entry(r) /\ receipts[r] \in Receipt
      /\ receipts[r] # None /\ IsActive(r) /\ receipts[r].status \in ActiveStatuses
      /\ receipts[r].refs \in {{"ENTRY"}, {"ENTRY"} \cup r.protects}
      /\ u.order \in OrderIds /\ u.order[2] = r.plan
  BY <1>1, HeardFacts DEF Entry
<1>5. submissions \in [OrderIds -> Optional(Submission)]
  BY DEF PaperIInv, PaperTypeOK
<1>6. submissions' = SubmissionsCancelled(Synced(u), {}) /\ submissions'[Entry(r)].status = SubmissionStatus(u.status)
  BY <1>3, <1>4, <1>5, SyncedIs, NoneCancelled
<1>7. QuietBook
  BY <1>3, StillIsQuiet
<1>8. status \in ActiveStatuses \cup TerminalStatuses /\ status # "COMPLETED" /\ filled \in Nat
  BY <1>2, <1>4 DEF Receipt, OrderState, ActiveStatuses, TerminalStatuses
<1>9. ASSUME Fresh(r)
      PROVE  /\ filled <= r.quantity
             /\ filled = r.quantity => r.protects \subseteq receipts[r].refs
             /\ status \in ActiveStatuses /\ submissions'[Entry(r)].status = "FILLED" =>
                  r.protects \subseteq receipts[r].refs
             /\ status \in {"COMPLETED", "CANCELLED"} =>
                  \A p \in receipts[r].refs : ~IsLive(<<p, r.plan>>)'
  <2>1. /\ receipts[r].filled <= r.quantity
        /\ receipts[r].filled = r.quantity => r.protects \subseteq receipts[r].refs
        /\ \A p \in receipts[r].refs \ {"ENTRY"} :
             book[<<p, r.plan>>].limit = r.quantity /\ book[Entry(r)].status = "FILLED"
    BY <1>4, <1>9 DEF PaperIInv, FreshIsProtected
  <2>2. /\ book[Entry(r)] # None
        /\ u.status \notin Live => book[Entry(r)].status = u.status
        /\ u.status = "PARTIALLY_FILLED" => u.filled < book[Entry(r)].limit
    BY <1>4, <1>9 DEF UpdatePrecedes, Fresh
  <2>3. book[Entry(r)].limit = r.quantity
    BY <1>4 DEF PaperIInv, RefsAreOrders
  <2>4. CASE u.status = "CANCELLED"
    <3>1. status = "CANCELLED" /\ filled = receipts[r].filled /\ status \notin ActiveStatuses
      BY <1>2, <2>4 DEF ActiveStatuses
    <3>2. book[Entry(r)].status = "CANCELLED"
      BY <2>2, <2>4 DEF Live
    <3>3. \A p \in receipts[r].refs : <<p, r.plan>> = Entry(r)
      BY <1>4, <2>1, <3>2 DEF Entry
    <3>4. \A p \in receipts[r].refs : ~IsLive(<<p, r.plan>>)'
      BY <1>3, <3>2, <3>3 DEF IsLive, Live
    <3> QED
      BY <2>1, <3>1, <3>4
  <2>5. CASE u.status = "REJECTED"
    <3>1. status = "REJECTED" /\ filled = receipts[r].filled /\ status \notin ActiveStatuses
      BY <1>2, <2>5 DEF ActiveStatuses
    <3> QED
      BY <2>1, <3>1
  <2>6. CASE u.status = "PARTIALLY_FILLED"
    <3>1. status = "ENTRY_PARTIALLY_FILLED" /\ filled = u.filled /\ submissions'[Entry(r)].status = "PARTIALLY_FILLED"
      BY <1>2, <1>6, <2>6 DEF SubmissionStatus
    <3>2. u.filled < r.quantity /\ u.filled \in Nat /\ r.quantity \in Nat
      BY <1>4, <2>2, <2>3, <2>6, RequestIs DEF OrderState
    <3> QED
      BY <3>1, <3>2
  <2>7. CASE u.status \in {"PENDING_SUBMISSION", "SUBMITTED"}
    <3>1. status = receipts[r].status /\ filled = receipts[r].filled /\ submissions'[Entry(r)].status = "SUBMITTED"
      BY <1>2, <1>6, <2>7 DEF SubmissionStatus
    <3>2. status \notin {"COMPLETED", "CANCELLED"}
      BY <1>4, <3>1, StatusesAreDisjoint
    <3> QED
      BY <2>1, <3>1, <3>2
  <2>8. CASE u.status = "FILLED"
    <3>1. status = "ENTRY_FILLED" /\ filled = u.filled /\ (receipts[r].refs # {"ENTRY"} \/ r.protects = {})
      BY <1>2, <2>8
    <3>2. u.filled = r.quantity /\ r.quantity \in Nat
      BY <1>1, <1>3, <2>8, FilledIsWhole, RequestIs
    <3>3. r.protects \subseteq receipts[r].refs
      BY <1>4, <3>1
    <3> QED
      BY <3>1, <3>2, <3>3
  <2> QED
    BY <1>2, <2>4, <2>5, <2>6, <2>7, <2>8
<1>10. Told(u, r, {}, status, filled)
  BY <1>1, <1>3, <1>6 DEF Told
<1>11. Settled(r, status, filled)
  BY <1>8, <1>9 DEF Settled
<1> QED
  BY <1>7, <1>10, <1>11, NotedStep

LEMMA ProtectiveUpdateKeeps ==
    ASSUME PaperIInv, NEW u \in Updates, NEW r \in Requests, ProtectiveUpdate(u, r)
    PROVE  PaperIInv'
<1>1. Heard(u, r) /\ u.order[1] # "ENTRY"
  BY DEF ProtectiveUpdate
<1>2. PICK status : /\ status \in {receipts[r].status, "FAILED", "ACTIVE"}
                    /\ Noted(u, r, status, receipts[r].filled)
  BY DEF ProtectiveUpdate
<1>3. /\ Syncs(u) /\ submissions' = Synced(u) /\ book' = book /\ delayed' = delayed
      /\ receipts' = [receipts EXCEPT ![r].status = status, ![r].filled = receipts[r].filled]
      /\ UNCHANGED <<stopped, byPlan, byPrint, byRequest, byOrder, safe, reused, resets>>
  BY <1>2 DEF Noted, maps
<1>4. /\ u \in OrderState /\ u.order # Entry(r) /\ receipts[r] \in Receipt
      /\ receipts[r] # None /\ IsActive(r) /\ receipts[r].status \in ActiveStatuses
  BY <1>1, HeardFacts, RequestIs
<1>5. submissions \in [OrderIds -> Optional(Submission)]
  BY DEF PaperIInv, PaperTypeOK
<1>6. submissions' = SubmissionsCancelled(Synced(u), {}) /\ submissions'[Entry(r)] = submissions[Entry(r)]
  BY <1>3, <1>4, <1>5, SyncedIs, NoneCancelled, RequestIs
<1>7. QuietBook
  BY <1>3, StillIsQuiet
<1>8. /\ status \in ActiveStatuses \cup TerminalStatuses /\ status \notin {"COMPLETED", "CANCELLED"}
      /\ receipts[r].filled \in Nat
  BY <1>2, <1>4 DEF Receipt, ActiveStatuses, TerminalStatuses
<1>9. Fresh(r) => /\ receipts[r].filled <= r.quantity
                  /\ receipts[r].filled = r.quantity => r.protects \subseteq receipts[r].refs
                  /\ submissions'[Entry(r)].status = "FILLED" => r.protects \subseteq receipts[r].refs
  BY <1>4, <1>6 DEF PaperIInv, FreshIsProtected
<1>10. Told(u, r, {}, status, receipts[r].filled)
  BY <1>1, <1>3, <1>6 DEF Told
<1>11. Settled(r, status, receipts[r].filled)
  BY <1>8, <1>9 DEF Settled
<1> QED
  BY <1>7, <1>10, <1>11, NotedStep

\* One protective order is filled and the other cancelled.
LEMMA ProtectiveFilledKeeps ==
    ASSUME PaperIInv, NEW u \in Updates, NEW r \in Requests, ProtectiveFilled(u, r)
    PROVE  PaperIInv'
<1> DEFINE S == OppositeOf(u, r)
<1>1. /\ Heard(u, r) /\ Syncs(u) /\ u.order[1] # "ENTRY" /\ u.status = "FILLED"
      /\ book' = OrdersCancelled(S) /\ submissions' = SubmissionsCancelled(Synced(u), S)
      /\ receipts' = [receipts EXCEPT ![r].status = "COMPLETED"] /\ KeptBack
      /\ UNCHANGED <<stopped, byPlan, byPrint, byRequest, byOrder, safe, reused, resets>>
  BY DEF ProtectiveFilled, maps
<1>3. \A p \in receipts[r].refs : p = Opposite(u.order[1]) => <<p, r.plan>> \in S
  BY DEF OppositeOf
<1> HIDE DEF S
<1>4. /\ u \in OrderState /\ UpdatePrecedes(u) /\ u.order \in OrderIds /\ u.order = <<u.order[1], r.plan>>
      /\ u.order[1] \in receipts[r].refs /\ u.order[1] \in Purposes /\ u.order[2] = r.plan
      /\ receipts[r] \in Receipt /\ receipts[r] # None /\ receipts[r].refs \subseteq Purposes
  BY <1>1, HeardFacts
<1>5. submissions \in [OrderIds -> Optional(Submission)] /\ receipts \in [Requests -> Optional(Receipt)]
  BY DEF PaperIInv, PaperTypeOK
<1>6. /\ book' \in [OrderIds -> Optional(BookEntry)] /\ BookMovesOn
      /\ \A i \in OrderIds : (book[i] = None => book'[i] = None) /\ (i \in S => ~IsLive(i)')
  BY <1>1, CancelledBook
<1>7. QuietBook
  BY <1>6 DEF QuietBook
<1>8. receipts' = [receipts EXCEPT ![r].status = "COMPLETED", ![r].filled = receipts[r].filled]
  <2> DEFINE n == [receipts[r] EXCEPT !.status = "COMPLETED"]
             m == [receipts[r] EXCEPT !.status = "COMPLETED", !.filled = receipts[r].filled]
  <2>1. n = m
    BY <1>4 DEF Receipt
  <2>2. receipts' = [receipts EXCEPT ![r] = n]
    BY <1>1, <1>5
  <2>3. [receipts EXCEPT ![r].status = "COMPLETED", ![r].filled = receipts[r].filled] = [receipts EXCEPT ![r] = m]
    BY <1>5
  <2> QED
    BY <2>1, <2>2, <2>3
<1>9. "COMPLETED" \in ActiveStatuses \cup TerminalStatuses /\ "COMPLETED" \notin ActiveStatuses
      /\ receipts[r].filled \in Nat
  BY <1>4 DEF Receipt, ActiveStatuses, TerminalStatuses
<1>10. /\ u.order[1] \in receipts[r].refs \ {"ENTRY"}
       /\ submissions'[<<u.order[1], r.plan>>] # None /\ submissions'[<<u.order[1], r.plan>>].status = "FILLED"
  <2>1. /\ Synced(u) \in [OrderIds -> Optional(Submission)] /\ Synced(u)[u.order] # None
        /\ Synced(u)[u.order].status = SubmissionStatus(u.status)
    BY <1>1, <1>4, <1>5, SyncedIs
  <2>2. Synced(u)[u.order].status = "FILLED"
    BY <1>1, <2>1 DEF SubmissionStatus
  <2>3. submissions'[u.order] = Synced(u)[u.order]
    BY <1>1, <1>4, <2>1, <2>2, CancelledSubmissions
  <2> QED
    BY <1>1, <1>4, <2>1, <2>2, <2>3
<1>11. ASSUME Fresh(r), NEW p \in receipts[r].refs
       PROVE  ~IsLive(<<p, r.plan>>)'
  <2>1. book[Entry(r)].status = "FILLED"
    BY <1>1, <1>4, <1>11 DEF PaperIInv, FreshIsProtected
  <2>2. book[u.order] # None /\ book[u.order].status = "FILLED"
    BY <1>1, <1>4, <1>11 DEF UpdatePrecedes, Fresh, Live
  <2>3. p \in Purposes /\ <<p, r.plan>> \in OrderIds
    BY <1>4, RequestIs
  <2>4. CASE p = "ENTRY" \/ p = u.order[1]
    <3>1. book[<<p, r.plan>>].status = "FILLED"
      BY <1>4, <2>1, <2>2, <2>4 DEF Entry
    <3>2. book[<<p, r.plan>>] # None => book'[<<p, r.plan>>] = book[<<p, r.plan>>]
      BY <1>6, <2>3, <3>1 DEF BookMovesOn, MovesOn, Live
    <3> QED
      BY <1>6, <2>3, <3>1, <3>2 DEF IsLive, Live
  <2>5. CASE p # "ENTRY" /\ p # u.order[1]
    <3>1. p = Opposite(u.order[1])
      BY <1>1, <1>4, <2>3, <2>5 DEF Opposite, Purposes
    <3>2. <<p, r.plan>> \in S
      BY <1>3, <1>11, <3>1
    <3> QED
      BY <1>6, <2>3, <3>2
  <2> QED
    BY <2>4, <2>5
<1>12. Fresh(r) => /\ receipts[r].filled <= r.quantity
                   /\ receipts[r].filled = r.quantity => r.protects \subseteq receipts[r].refs
  BY <1>4 DEF PaperIInv, FreshIsProtected
<1>13. \E p \in receipts[r].refs \ {"ENTRY"} :
          submissions'[<<p, r.plan>>] # None /\ submissions'[<<p, r.plan>>].status = "FILLED"
  BY <1>10
<1>14. Told(u, r, S, "COMPLETED", receipts[r].filled)
  BY <1>1, <1>8 DEF Told
<1>15. Settled(r, "COMPLETED", receipts[r].filled)
  BY <1>9, <1>11, <1>12, <1>13 DEF Settled
<1> QED
  BY <1>7, <1>14, <1>15, NotedStep

-------------------------------------------------------------------------------
(* The protective orders *)

\* What the invariant says of one receipt that is there.
ReceiptIsSound(s) ==
    /\ receipts[s].refs \in {{"ENTRY"}, {"ENTRY"} \cup s.protects}
    /\ \A p \in Purposes : book[<<p, s.plan>>] # None <=> p \in receipts[s].refs
    /\ book[Entry(s)].limit = s.quantity
    /\ \A p \in receipts[s].refs \ {"ENTRY"} : byOrder[<<p, s.plan>>] = s
    /\ receipts[s].status \in ActiveStatuses => \A p \in receipts[s].refs :
         submissions[<<p, s.plan>>] # None /\ submissions[<<p, s.plan>>].quantity = s.quantity
    /\ receipts[s].status = "COMPLETED" =>
         \E p \in receipts[s].refs \ {"ENTRY"} :
             submissions[<<p, s.plan>>] # None /\ submissions[<<p, s.plan>>].status = "FILLED"
    /\ s.plan \notin reused =>
         /\ receipts[s].filled <= s.quantity
         /\ receipts[s].filled = s.quantity => s.protects \subseteq receipts[s].refs
         /\ receipts[s].status \in ActiveStatuses /\ submissions[Entry(s)].status = "FILLED" =>
              s.protects \subseteq receipts[s].refs
         /\ \A p \in receipts[s].refs \ {"ENTRY"} :
              book[<<p, s.plan>>].limit = s.quantity /\ book[Entry(s)].status = "FILLED"
         /\ receipts[s].status \in {"COMPLETED", "CANCELLED"} =>
              \A p \in receipts[s].refs : ~(book[<<p, s.plan>>] # None /\ book[<<p, s.plan>>].status \in Live)

LEMMA SoundReceiptsAre ==
    ASSUME PaperIInv, NEW s \in Requests, receipts[s] # None
    PROVE  ReceiptIsSound(s) /\ receipts[s].refs \subseteq Purposes
<1>1. receipts[s].refs \subseteq Purposes
  BY DEF PaperIInv, PaperTypeOK, Optional, Receipt
<1> QED
  BY <1>1 DEF PaperIInv, ReceiptIsSound, RefsAreOrders, SubmissionsAgree, FreshIsProtected, Fresh, IsActive,
              EndedLeavesNothingLive, OrdersOf, IsLive

LEMMA SoundReceiptsMake ==
    ASSUME \A s \in Requests : receipts'[s] # None => ReceiptIsSound(s)'
    PROVE  RefsAreOrders' /\ SubmissionsAgree' /\ FreshIsProtected' /\ EndedLeavesNothingLive'
<1>1. RefsAreOrders'
  BY DEF ReceiptIsSound, RefsAreOrders, Entry
<1>2. SubmissionsAgree'
  BY DEF ReceiptIsSound, SubmissionsAgree, IsActive
<1>3. FreshIsProtected'
  BY DEF ReceiptIsSound, FreshIsProtected, Fresh, IsActive, Entry
<1>4. EndedLeavesNothingLive'
  BY DEF ReceiptIsSound, EndedLeavesNothingLive, OrdersOf, IsLive
<1> QED
  BY <1>1, <1>2, <1>3, <1>4

\* A receipt that no step of another plan touches.
LEMMA OthersStand ==
    ASSUME PaperIInv, reused' = reused, NEW s \in Requests, receipts[s] # None, receipts'[s] = receipts[s],
           \A p \in Purposes : /\ book'[<<p, s.plan>>] = book[<<p, s.plan>>]
                               /\ submissions'[<<p, s.plan>>] = submissions[<<p, s.plan>>]
                               /\ byOrder'[<<p, s.plan>>] = byOrder[<<p, s.plan>>]
    PROVE  ReceiptIsSound(s)'
<1>1. ReceiptIsSound(s) /\ receipts[s].refs \subseteq Purposes /\ "ENTRY" \in Purposes
  BY SoundReceiptsAre, RequestIs
<1>2. book'[Entry(s)] = book[Entry(s)] /\ submissions'[Entry(s)] = submissions[Entry(s)] /\ Entry(s)' = Entry(s)
  BY <1>1 DEF Entry
<1> QED
  BY <1>1, <1>2 DEF ReceiptIsSound

LEMMA EntryProtectedKeeps ==
    ASSUME PaperIInv, NEW u \in Updates, NEW r \in Requests, EntryProtected(u, r)
    PROVE  PaperIInv'
<1> DEFINE new == {<<p, r.plan>> : p \in r.protects}
           q   == r.quantity
           n   == [status |-> "PROTECTIVE_ORDERS_CREATED", refs |-> {"ENTRY"} \cup r.protects, filled |-> q]
<1>1. Heard(u, r) /\ Syncs(u) /\ u.order[1] = "ENTRY" /\ u.status = "FILLED"
  BY DEF EntryProtected
<1>2. u.filled = q
  BY <1>1, FilledIsWhole
<1>3. /\ receipts[r].refs = {"ENTRY"}
      /\ \A i \in new : book[i] = None /\ Submittable(i, q)
      /\ book' = [i \in OrderIds |-> IF i \in new THEN Placed(q) ELSE book[i]]
      /\ submissions' = [i \in OrderIds |-> IF i \in new THEN Submitted(Synced(u), i, q)[i] ELSE Synced(u)[i]]
      /\ receipts' = [receipts EXCEPT ![r] = n]
      /\ byOrder' = [i \in OrderIds |-> IF i \in new THEN r ELSE byOrder[i]]
      /\ KeptBack
      /\ byPlan' = byPlan /\ byPrint' = byPrint /\ byRequest' = byRequest
      /\ stopped' = stopped /\ safe' = safe /\ reused' = reused /\ resets' = resets
  BY <1>2 DEF EntryProtected, Protection, maps
<1>4. /\ u \in OrderState /\ UpdatePrecedes(u) /\ u.order \in OrderIds /\ u.order = Entry(r)
      /\ receipts[r] # None /\ submissions[u.order] # None /\ submissions[u.order].quantity = q
      /\ book[u.order] # None /\ IsActive(r)
  BY <1>1, HeardFacts DEF Entry
<1>5. /\ q \in Nat \ {0} /\ r.plan \in Plans /\ r # None /\ r.protects \subseteq Purposes /\ "ENTRY" \notin r.protects
      /\ "ENTRY" \in Purposes /\ Entry(r) \in OrderIds /\ Entry(r)[2] = r.plan
      /\ \A p \in Purposes : /\ <<p, r.plan>> \in OrderIds /\ <<p, r.plan>>[2] = r.plan
                             /\ <<p, r.plan>>[1] = p
  BY RequestIs
<1>6. /\ new \subseteq OrderIds /\ Entry(r) \notin new
      /\ \A i \in new : i[2] = r.plan
      /\ \A p \in Purposes : <<p, r.plan>> \in new <=> p \in r.protects
  BY <1>5 DEF Entry
<1>7. n \in Receipt /\ n # None /\ n.status = "PROTECTIVE_ORDERS_CREATED"
      /\ n.refs = {"ENTRY"} \cup r.protects /\ n.filled = q
  <2>1. n \in Receipt
    BY <1>5 DEF Receipt, ActiveStatuses
  <2> QED
    BY <2>1, NothingAssumption
<1> HIDE DEF new, n, q
<1>8. /\ SoundEntry(Placed(q)) /\ Placed(q).limit = q /\ Placed(q) # None /\ Placed(q) \in BookEntry
  BY <1>5, PlacedIsSound DEF SoundEntry
<1>9. PaperTypeOK
  BY DEF PaperIInv
<1>10. /\ \A i \in OrderIds : /\ i \in new => book'[i] = Placed(q) /\ byOrder'[i] = r /\ book[i] = None
                              /\ i \notin new => book'[i] = book[i] /\ byOrder'[i] = byOrder[i]
       /\ receipts'[r] = n /\ \A s \in Requests : s # r => receipts'[s] = receipts[s]
  BY <1>3, <1>9 DEF PaperTypeOK
<1>11. BookMovesOn
  BY <1>10, StandingMovesOn DEF BookMovesOn, PaperIInv, BookIsSound
<1>12. delayed' \subseteq OrderState /\ DelayedPrecede'
  BY <1>3, <1>11, DelayedStayBehind
<1>13. /\ Synced(u) \in [OrderIds -> Optional(Submission)]
       /\ Synced(u)[u.order] # None /\ Synced(u)[u.order].quantity = q
       /\ \A i \in OrderIds : i # u.order => Synced(u)[i] = submissions[i]
  BY <1>1, <1>4, <1>9, SyncedIs DEF PaperTypeOK
\* The submissions of the new orders, and of the others.
<1>14. ASSUME NEW i \in OrderIds
       PROVE  /\ submissions'[i] \in Optional(Submission)
              /\ i \in new => submissions'[i] # None /\ submissions'[i].quantity = q
              /\ i \notin new => submissions'[i] = Synced(u)[i]
  <2>1. CASE i \notin new
    BY <1>3, <1>13, <2>1
  <2>2. CASE i \in new
    <3> DEFINE s == [status |-> "SUBMITTED", quantity |-> q, filled |-> 0]
    <3>1. s \in Submission /\ s.quantity = q
      BY <1>5 DEF Submission, SubmissionStatuses
    <3>2. s # None
      BY <3>1, NothingAssumption
    <3>3. submissions'[i] = Submitted(Synced(u), i, q)[i]
      BY <1>3, <2>2
    <3> HIDE DEF s
    <3>4. CASE Synced(u)[i] = None
      <4>1. Submitted(Synced(u), i, q) = [Synced(u) EXCEPT ![i] = s]
        BY <3>4 DEF Submitted, s
      <4>2. submissions'[i] = s
        BY <1>13, <3>3, <4>1
      <4> QED
        BY <2>2, <3>1, <3>2, <4>2 DEF Optional
    <3>5. CASE Synced(u)[i] # None
      <4>1. submissions'[i] = Synced(u)[i]
        BY <3>3, <3>5 DEF Submitted
      <4>2. Synced(u)[i] = submissions[i]
        BY <1>4, <1>6, <1>13, <2>2
      <4>3. submissions[i].quantity = q
        BY <1>3, <2>2, <3>5, <4>2 DEF Submittable
      <4> QED
        BY <1>13, <2>2, <3>5, <4>1, <4>2, <4>3
    <3> QED
      BY <3>4, <3>5
  <2> QED
    BY <2>1, <2>2
<1>15. submissions' \in [OrderIds -> Optional(Submission)]
  <2>1. submissions' = [i \in OrderIds |-> submissions'[i]]
    BY <1>3
  <2> QED
    BY <1>14, <2>1
<1>16. PaperTypeOK'
  <2>1. book' \in [OrderIds -> Optional(BookEntry)]
    BY <1>3, <1>8, <1>9 DEF PaperTypeOK, Optional
  <2>2. receipts' \in [Requests -> Optional(Receipt)]
    BY <1>3, <1>7, <1>9 DEF PaperTypeOK, Optional
  <2>3. byOrder' \in [OrderIds -> Optional(Requests)]
    BY <1>3, <1>9 DEF PaperTypeOK, Optional
  <2> QED
    BY <1>3, <1>9, <1>12, <1>15, <2>1, <2>2, <2>3 DEF PaperTypeOK
<1>17. BookIsSound'
  <2>1. ASSUME NEW i \in OrderIds, book'[i] # None
        PROVE  SoundEntry(book'[i]) /\ book'[<<"ENTRY", i[2]>>] # None
    <3>1. CASE i \in new
      <4>1. <<"ENTRY", i[2]>> = Entry(r)
        BY <1>6, <3>1 DEF Entry
      <4>2. book'[Entry(r)] # None
        BY <1>4, <1>5, <1>6, <1>10
      <4> QED
        BY <1>8, <1>10, <3>1, <4>1, <4>2
    <3>2. CASE i \notin new
      <4>1. book[i] # None /\ SoundEntry(book'[i]) /\ book[<<"ENTRY", i[2]>>] # None
        BY <1>10, <2>1, <3>2 DEF PaperIInv, BookIsSound
      <4>2. <<"ENTRY", i[2]>> \in OrderIds
        BY OrderIdsArePairs DEF Purposes
      <4> QED
        BY <1>8, <1>10, <4>1, <4>2
    <3> QED
      BY <3>1, <3>2
  <2>2. ASSUME NEW i \in OrderIds, submissions'[i] # None, i[2] \notin reused'
        PROVE  book'[i] # None
    <3>1. CASE i \in new
      BY <1>8, <1>10, <3>1
    <3>2. CASE i \notin new
      <4>1. submissions[i] # None
        BY <1>4, <1>13, <1>14, <2>2, <3>2
      <4>2. book[i] # None
        BY <1>3, <2>2, <4>1 DEF PaperIInv, BookIsSound
      <4> QED
        BY <1>10, <3>2, <4>2
    <3> QED
      BY <3>1, <3>2
  <2> QED
    BY <2>1, <2>2 DEF BookIsSound
<1>18. MapsAgree'
  <2>1. \A s \in Requests : receipts'[s] # None => receipts[s] # None
    BY <1>4, <1>10
  <2>2. ASSUME NEW i \in OrderIds, byOrder'[i] # None
        PROVE  byOrder'[i].plan = i[2]
    BY <1>6, <1>10, <2>2 DEF PaperIInv, MapsAgree
  <2> QED
    BY <1>3, <2>1, <2>2 DEF PaperIInv, MapsAgree
<1>19. ReceiptIsSound(r)'
  <2>1. ReceiptIsSound(r)
    BY <1>4, SoundReceiptsAre
  <2>2. \A p \in Purposes : book'[<<p, r.plan>>] # None <=> p = "ENTRY" \/ p \in r.protects
    <3> SUFFICES ASSUME NEW p \in Purposes
                 PROVE  book'[<<p, r.plan>>] # None <=> p = "ENTRY" \/ p \in r.protects
      OBVIOUS
    <3>1. book[<<p, r.plan>>] # None <=> p = "ENTRY"
      BY <1>3, <2>1 DEF ReceiptIsSound
    <3> QED
      BY <1>5, <1>6, <1>8, <1>10, <3>1
  <2>3. book'[Entry(r)] = book[Entry(r)] /\ book[Entry(r)].limit = q
    BY <1>5, <1>6, <1>10, <2>1 DEF ReceiptIsSound, q
  <2>4. \A p \in r.protects : /\ byOrder'[<<p, r.plan>>] = r
                              /\ book'[<<p, r.plan>>].limit = q
                              /\ submissions'[<<p, r.plan>>] # None /\ submissions'[<<p, r.plan>>].quantity = q
    BY <1>5, <1>6, <1>8, <1>10, <1>14
  <2>5. submissions'[Entry(r)] # None /\ submissions'[Entry(r)].quantity = q
    BY <1>4, <1>5, <1>6, <1>13, <1>14
  <2>6. r.plan \notin reused => book[Entry(r)].status = "FILLED"
    BY <1>1, <1>4, <1>5 DEF UpdatePrecedes, Live
  <2>7. \A p \in n.refs : p = "ENTRY" \/ p \in r.protects
    BY <1>7
  <2>8. \A p \in n.refs : submissions'[<<p, r.plan>>] # None /\ submissions'[<<p, r.plan>>].quantity = q
    BY <2>4, <2>5, <2>7 DEF Entry
  <2>9. n.status \notin {"COMPLETED", "CANCELLED"} /\ n.filled <= q /\ r.protects \subseteq n.refs
        /\ n.refs \in {{"ENTRY"}, {"ENTRY"} \cup r.protects}
    BY <1>5, <1>7
  <2>10. \A p \in Purposes : book'[<<p, r.plan>>] # None <=> p \in n.refs
    BY <1>7, <2>2
  <2>11. \A p \in n.refs \ {"ENTRY"} : /\ byOrder'[<<p, r.plan>>] = r
                                       /\ book'[<<p, r.plan>>].limit = q
    BY <2>4, <2>7
  <2> QED
    BY <1>3, <1>10, <2>3, <2>6, <2>8, <2>9, <2>10, <2>11 DEF ReceiptIsSound, Entry, q
<1>20. ASSUME NEW s \in Requests, s # r, receipts'[s] # None
       PROVE  ReceiptIsSound(s)'
  <2>1. receipts[s] # None /\ receipts'[s] = receipts[s]
    BY <1>10, <1>20
  <2>2. s.plan # r.plan
    BY <1>4, <1>20, <2>1, OtherPlans
  <2>3. ASSUME NEW p \in Purposes
        PROVE  /\ book'[<<p, s.plan>>] = book[<<p, s.plan>>]
               /\ submissions'[<<p, s.plan>>] = submissions[<<p, s.plan>>]
               /\ byOrder'[<<p, s.plan>>] = byOrder[<<p, s.plan>>]
    <3>1. <<p, s.plan>> \in OrderIds /\ <<p, s.plan>>[2] = s.plan
      BY <2>3, RequestIs
    <3>2. <<p, s.plan>> \notin new /\ <<p, s.plan>> # u.order
      BY <1>4, <1>5, <1>6, <2>2, <3>1
    <3> QED
      BY <1>10, <1>13, <1>14, <3>1, <3>2
  <2> QED
    BY <1>3, <2>1, <2>3, OthersStand
<1>21. RefsAreOrders' /\ SubmissionsAgree' /\ FreshIsProtected' /\ EndedLeavesNothingLive'
  BY <1>19, <1>20, SoundReceiptsMake
<1> QED
  BY <1>12, <1>16, <1>17, <1>18, <1>21 DEF PaperIInv

\* The submissions of a step that only cancels some.
LEMMA CancelledIsQuiet ==
    ASSUME PaperIInv, NEW S, submissions' = SubmissionsCancelled(submissions, S)
    PROVE  /\ QuietSubmissions
           /\ \A r \in Requests :
                submissions'[Entry(r)].status = "FILLED" => submissions[Entry(r)].status = "FILLED"
<1>1. submissions \in [OrderIds -> Optional(Submission)]
  BY DEF PaperIInv, PaperTypeOK
<1>2. /\ submissions' \in [OrderIds -> Optional(Submission)]
      /\ \A i \in OrderIds :
           /\ submissions'[i] = None <=> submissions[i] = None
           /\ submissions[i] # None => submissions'[i].quantity = submissions[i].quantity
           /\ submissions'[i].status = "FILLED" => submissions[i].status = "FILLED"
           /\ submissions[i] # None /\ submissions[i].status = "FILLED" => submissions'[i] = submissions[i]
  BY <1>1, CancelledSubmissions
<1> QED
  BY <1>2, RequestIs DEF QuietSubmissions

LEMMA ProtectiveFilledLateKeeps ==
    ASSUME PaperIInv, NEW u \in Updates, NEW r \in Requests, ProtectiveFilledLate(u, r)
    PROVE  PaperIInv'
<1>1. /\ Heard(u, r) /\ Syncs(u) /\ u.order[1] # "ENTRY" /\ submissions' = Synced(u)
      /\ book' = book /\ receipts' = receipts /\ delayed' = delayed /\ stopped' = stopped
      /\ UNCHANGED <<byPlan, byPrint, byRequest, byOrder, safe, reused, resets>>
  BY DEF ProtectiveFilledLate, coordinatorVars, maps
<1>2. u \in OrderState /\ u.order \in OrderIds
  BY <1>1, HeardFacts
<1>3. submissions \in [OrderIds -> Optional(Submission)] /\ stopped \in BOOLEAN
  BY DEF PaperIInv, PaperTypeOK
<1>4. /\ submissions' \in [OrderIds -> Optional(Submission)]
      /\ submissions'[u.order] # None
      /\ submissions'[u.order].quantity = submissions[u.order].quantity
      /\ \A i \in OrderIds : i # u.order => submissions'[i] = submissions[i]
      /\ submissions[u.order] # None
      /\ submissions[u.order].status = "FILLED" => submissions'[u.order].status = "FILLED"
  BY <1>1, <1>2, <1>3, SyncedIs
<1>5. QuietSubmissions
  BY <1>4 DEF QuietSubmissions
<1>6. \A s \in Requests : Entry(s) \in OrderIds /\ Entry(s) # u.order
  BY <1>1, RequestIs
<1>7. QuietBook /\ QuietReceipts
  BY <1>1, <1>4, <1>5, <1>6, StillIsQuiet
<1> QED
  BY <1>1, <1>3, <1>5, <1>7, QuietStep

LEMMA CancelKeeps ==
    ASSUME PaperIInv, NEW r \in Requests, Cancel(r)
    PROVE  PaperIInv'
<1> DEFINE S == OrdersOf(r)
<1>1. /\ IsActive(r) /\ book' = OrdersCancelled(S) /\ submissions' = SubmissionsCancelled(submissions, S)
      /\ receipts' = [receipts EXCEPT ![r].status = "CANCELLED"] /\ KeptBack /\ stopped' = stopped
      /\ UNCHANGED <<byPlan, byPrint, byRequest, byOrder, safe, reused, resets>>
  BY DEF Cancel, maps
<1>2. \A p \in receipts[r].refs : <<p, r.plan>> \in S
  BY DEF OrdersOf
<1> HIDE DEF S
<1>3. /\ receipts \in [Requests -> Optional(Receipt)] /\ stopped \in BOOLEAN
      /\ receipts[r] # None /\ receipts[r] \in Receipt /\ receipts[r].refs \subseteq Purposes
  BY <1>1 DEF PaperIInv, PaperTypeOK, Optional, Receipt, IsActive
<1>4. /\ QuietSubmissions
      /\ \A s \in Requests : submissions'[Entry(s)].status = "FILLED" => submissions[Entry(s)].status = "FILLED"
  BY <1>1, CancelledIsQuiet
<1>5. /\ book' \in [OrderIds -> Optional(BookEntry)] /\ BookMovesOn
      /\ \A i \in OrderIds : (book[i] = None => book'[i] = None) /\ (i \in S => ~IsLive(i)')
  BY <1>1, CancelledBook
<1>6. QuietBook
  BY <1>5 DEF QuietBook
<1> DEFINE n == [receipts[r] EXCEPT !.status = "CANCELLED"]
<1>7. n \in Receipt /\ n.status = "CANCELLED" /\ n.refs = receipts[r].refs /\ n.filled = receipts[r].filled
  BY <1>3 DEF Receipt, TerminalStatuses
<1>8. receipts' = [receipts EXCEPT ![r] = n]
  BY <1>1, <1>3
<1> HIDE DEF n
<1>9. receipts'[r] = n /\ \A s \in Requests : s # r => receipts'[s] = receipts[s]
  BY <1>3, <1>8
<1>10. receipts' \in [Requests -> Optional(Receipt)]
  BY <1>3, <1>7, <1>8 DEF Optional
<1>11. "CANCELLED" \notin ActiveStatuses
  BY DEF ActiveStatuses
<1>12. Fresh(r) => /\ receipts[r].filled <= r.quantity
                   /\ receipts[r].filled = r.quantity => r.protects \subseteq receipts[r].refs
  BY <1>3 DEF PaperIInv, FreshIsProtected
<1>13. \A p \in receipts[r].refs : ~IsLive(<<p, r.plan>>)'
  <2> SUFFICES ASSUME NEW p \in receipts[r].refs PROVE ~IsLive(<<p, r.plan>>)'
    OBVIOUS
  <2>1. <<p, r.plan>> \in OrderIds /\ <<p, r.plan>> \in S
    BY <1>2, <1>3, RequestIs
  <2> QED
    BY <1>5, <2>1
<1>14. Answered(r)
  BY <1>7, <1>9, <1>11, <1>12, <1>13 DEF Answered
<1>15. \A s \in Requests : s # r => Untouched(s)
  BY <1>4, <1>9 DEF Untouched
<1>16. QuietReceipts
  BY <1>1, <1>3, <1>7, <1>9, <1>10, <1>14, <1>15 DEF QuietReceipts
<1> QED
  BY <1>1, <1>3, <1>4, <1>6, <1>16, QuietStep

LEMMA CancelLateKeeps ==
    ASSUME PaperIInv, NEW r \in Requests, NEW late \in Purposes, CancelLate(r, late)
    PROVE  PaperIInv'
<1> DEFINE S == {i \in OrdersOf(r) : Before(i[1], late)}
<1>1. /\ book' = OrdersCancelled(S) /\ submissions' = SubmissionsCancelled(submissions, S)
      /\ receipts' = receipts /\ KeptBack /\ stopped' = stopped
      /\ UNCHANGED <<byPlan, byPrint, byRequest, byOrder, safe, reused, resets>>
  BY DEF CancelLate, coordinatorVars, maps
<1> HIDE DEF S
<1>2. /\ QuietSubmissions
      /\ \A s \in Requests : submissions'[Entry(s)].status = "FILLED" => submissions[Entry(s)].status = "FILLED"
  BY <1>1, CancelledIsQuiet
<1>3. /\ book' \in [OrderIds -> Optional(BookEntry)] /\ BookMovesOn
      /\ \A i \in OrderIds : (book[i] = None => book'[i] = None)
  BY <1>1, CancelledBook
<1>4. QuietBook /\ stopped \in BOOLEAN
  BY <1>3 DEF QuietBook, PaperIInv, PaperTypeOK
<1>5. QuietReceipts
  BY <1>1, <1>2, StillIsQuiet
<1> QED
  BY <1>1, <1>2, <1>4, <1>5, QuietStep

-------------------------------------------------------------------------------
(* The paper execution coordinator: its invariant holds *)

LEMMA PaperStepSound == PaperIInv /\ [PaperNext]_vars => PaperIInv'
<1> SUFFICES ASSUME PaperIInv, [PaperNext]_vars PROVE PaperIInv'
  OBVIOUS
<1>1. CASE UNCHANGED vars
  <2>1. /\ book' = book /\ submissions' = submissions /\ receipts' = receipts /\ delayed' = delayed
        /\ stopped' = stopped /\ UNCHANGED <<byPlan, byPrint, byRequest, byOrder, safe, reused, resets>>
    BY <1>1 DEF vars, coordinatorVars, maps
  <2>2. QuietBook /\ QuietSubmissions /\ QuietReceipts
    BY <2>1, StillIsQuiet
  <2>3. stopped \in BOOLEAN
    BY DEF PaperIInv, PaperTypeOK
  <2> QED
    BY <2>1, <2>2, <2>3, QuietStep
<1>2. CASE Stop
  BY <1>2, StopKeeps
<1>3. CASE ResetSession \/ ResetRuntime
  BY <1>3, ResetKeeps
<1>4. ASSUME NEW r \in Requests, Execute(r)
      PROVE  PaperIInv'
  BY <1>4, RejectedKeeps, EnteredKeeps DEF Execute
<1>5. ASSUME NEW r \in Requests, Cancel(r)
      PROVE  PaperIInv'
  BY <1>5, CancelKeeps
<1>6. ASSUME NEW r \in Requests, NEW p \in Purposes, CancelLate(r, p)
      PROVE  PaperIInv'
  BY <1>6, CancelLateKeeps
<1>7. ASSUME NEW i \in OrderIds, Venue(i)
      PROVE  PaperIInv'
  BY <1>7, VenueKeeps
<1>8. ASSUME NEW u \in Updates, NEW r \in Requests, OnOrderUpdate(u, r)
      PROVE  PaperIInv'
  BY <1>8, UpdateFailsKeeps, EntryUpdateKeeps, EntryProtectedKeeps, ProtectiveFilledKeeps,
     ProtectiveFilledLateKeeps, ProtectiveUpdateKeeps DEF OnOrderUpdate
<1> QED
  BY <1>1, <1>2, <1>3, <1>4, <1>5, <1>6, <1>7, <1>8 DEF PaperNext

\* A plan, a plan's content or a request id is executed once, under whatever other
\* identity it is asked for again (engines/paper_execution_coordinator/engine.py, execute).
THEOREM ExecutionsStaySingle == PaperSpec => []NoDoubleExecution
<1>1. PaperIInv => NoDoubleExecution
  <2> SUFFICES ASSUME PaperIInv, NEW r \in Requests, NEW s \in Requests,
                      receipts[r] # None, receipts[s] # None, r # s
               PROVE  r.id # s.id /\ r.plan # s.plan /\ r.print # s.print
    BY DEF NoDoubleExecution
  <2> QED
    BY OtherPlans
<1> QED
  BY <1>1, PaperInitSound, PaperStepSound, PTL DEF PaperSpec

\* A receipt that is active may take another status, not lose an order.
LEMMA ActiveMayChange ==
    ASSUME PaperIInv, NEW r \in Requests, IsActive(r), NEW n \in Receipt,
           receipts'[r] = n, receipts[r].refs \subseteq n.refs
    PROVE  ReceiptKept(r)
<1>1. receipts[r] # None /\ receipts[r].status \in ActiveStatuses
  BY DEF IsActive
<1>2. receipts[r].status \notin TerminalStatuses
  BY <1>1, StatusesAreDisjoint
<1>3. n # None
  BY NothingAssumption
<1> QED
  BY <1>1, <1>2, <1>3 DEF ReceiptKept

LEMMA UpdateKeepsReceipts ==
    ASSUME PaperIInv, NEW u \in Updates, NEW s \in Requests, OnOrderUpdate(u, s),
           NEW r \in Requests, receipts[r] # None
    PROVE  ReceiptKept(r)
<1>1. receipts \in [Requests -> Optional(Receipt)]
  BY DEF PaperIInv, PaperTypeOK
<1>2. Heard(u, s)
  BY DEF OnOrderUpdate, UpdateFails, EntryUpdate, EntryProtected, ProtectiveFilled, ProtectiveFilledLate,
         ProtectiveUpdate
<1>3. /\ u \in OrderState /\ IsActive(s) /\ receipts[s] \in Receipt /\ s.protects \subseteq Purposes
      /\ receipts[s].filled \in Nat /\ receipts[s].status \in ActiveStatuses /\ u.filled \in Nat
  BY <1>2, HeardFacts, RequestIs DEF Receipt, OrderState
<1>4. CASE receipts' = receipts
  BY <1>4 DEF ReceiptKept
<1>5. CASE \E n \in Receipt : receipts' = [receipts EXCEPT ![s] = n] /\ receipts[s].refs \subseteq n.refs
  <2>1. PICK n \in Receipt : receipts' = [receipts EXCEPT ![s] = n] /\ receipts[s].refs \subseteq n.refs
    BY <1>5
  <2>2. CASE r = s
    BY <1>1, <1>3, <2>1, <2>2, ActiveMayChange
  <2>3. CASE r # s
    BY <1>1, <2>1, <2>3 DEF ReceiptKept
  <2> QED
    BY <2>2, <2>3
\* Status and filled quantity change.
<1>6. ASSUME NEW status \in ActiveStatuses \cup TerminalStatuses, NEW filled \in Nat,
             receipts' = [receipts EXCEPT ![s].status = status, ![s].filled = filled]
      PROVE  \E n \in Receipt : receipts' = [receipts EXCEPT ![s] = n] /\ receipts[s].refs \subseteq n.refs
  <2> DEFINE n == [receipts[s] EXCEPT !.status = status, !.filled = filled]
  <2>1. n \in Receipt /\ n.refs = receipts[s].refs
    BY <1>3 DEF Receipt
  <2>2. receipts' = [receipts EXCEPT ![s] = n]
    BY <1>1, <1>6
  <2> QED
    BY <2>1, <2>2
<1>7. ASSUME NEW status \in ActiveStatuses \cup TerminalStatuses, receipts' = [receipts EXCEPT ![s].status = status]
      PROVE  \E n \in Receipt : receipts' = [receipts EXCEPT ![s] = n] /\ receipts[s].refs \subseteq n.refs
  <2> DEFINE n == [receipts[s] EXCEPT !.status = status]
  <2>1. n \in Receipt /\ n.refs = receipts[s].refs
    BY <1>3 DEF Receipt
  <2>2. receipts' = [receipts EXCEPT ![s] = n]
    BY <1>1, <1>7
  <2> QED
    BY <2>1, <2>2
<1>8. {"FAILED", "COMPLETED", "CANCELLED", "REJECTED", "ENTRY_PARTIALLY_FILLED", "ENTRY_FILLED", "ACTIVE",
       receipts[s].status} \subseteq ActiveStatuses \cup TerminalStatuses
  BY <1>3 DEF ActiveStatuses, TerminalStatuses
<1>9. CASE UpdateFails(u, s) \/ ProtectiveFilled(u, s)
  BY <1>5, <1>7, <1>8, <1>9 DEF UpdateFails, ProtectiveFilled
<1>10. CASE EntryUpdate(u, s)
  <2>1. \E status \in ActiveStatuses \cup TerminalStatuses, filled \in Nat : Noted(u, s, status, filled)
    BY <1>3, <1>8, <1>10 DEF EntryUpdate
  <2> QED
    BY <1>5, <1>6, <2>1 DEF Noted
<1>11. CASE ProtectiveUpdate(u, s)
  <2>1. \E status \in ActiveStatuses \cup TerminalStatuses, filled \in Nat : Noted(u, s, status, filled)
    BY <1>3, <1>8, <1>11 DEF ProtectiveUpdate
  <2> QED
    BY <1>5, <1>6, <2>1 DEF Noted
<1>12. CASE ProtectiveFilledLate(u, s)
  BY <1>4, <1>12 DEF ProtectiveFilledLate, coordinatorVars
<1>13. CASE EntryProtected(u, s)
  <2> DEFINE n == [status |-> "PROTECTIVE_ORDERS_CREATED", refs |-> {"ENTRY"} \cup s.protects, filled |-> u.filled]
  <2>1. n \in Receipt /\ n.refs = {"ENTRY"} \cup s.protects
    BY <1>3, RequestIs DEF Receipt, ActiveStatuses
  <2>2. receipts' = [receipts EXCEPT ![s] = n] /\ receipts[s].refs = {"ENTRY"}
    BY <1>13 DEF EntryProtected, Protection
  <2> QED
    BY <1>5, <2>1, <2>2
<1> QED
  BY <1>9, <1>10, <1>11, <1>12, <1>13 DEF OnOrderUpdate

LEMMA ReceiptStep ==
    ASSUME PaperIInv, PaperNext, ~stopped, resets' = resets, NEW r \in Requests, receipts[r] # None
    PROVE  ReceiptKept(r)
<1>1. receipts \in [Requests -> Optional(Receipt)] /\ resets \in Nat
  BY RequestsAssumption DEF PaperIInv, PaperTypeOK
<1>2. byPlan[r.plan] = r /\ byPrint[r.print] = r /\ byRequest[r.id] = r /\ r # None
  BY RequestIs DEF PaperIInv, MapsAgree
<1>3. ~Conflicts(r) /\ ~Enters(r)
  BY <1>2 DEF Conflicts, Enters, Known
<1>4. CASE receipts' = receipts
  BY <1>4 DEF ReceiptKept
<1>5. ~ResetSession /\ ~ResetRuntime
  BY <1>1 DEF ResetSession, ResetRuntime, SessionCleared
<1>6. ASSUME NEW s \in Requests, Execute(s)
      PROVE  ReceiptKept(r)
  <2>1. s # r
    BY <1>3, <1>6 DEF Execute, ExecuteRejected, ExecuteUnsubmitted, ExecuteAccepted
  <2>2. \E n : receipts' = [receipts EXCEPT ![s] = n]
    BY <1>6 DEF Execute, ExecuteRejected, ExecuteUnsubmitted, ExecuteAccepted
  <2>3. receipts'[r] = receipts[r]
    BY <1>1, <2>1, <2>2
  <2> QED
    BY <2>3 DEF ReceiptKept
<1>7. ASSUME NEW s \in Requests, Cancel(s)
      PROVE  ReceiptKept(r)
  <2>1. receipts' = [receipts EXCEPT ![s].status = "CANCELLED"] /\ IsActive(s)
    BY <1>7 DEF Cancel
  <2>2. CASE s # r
    <3>1. receipts'[r] = receipts[r]
      BY <1>1, <2>1, <2>2
    <3> QED
      BY <3>1 DEF ReceiptKept
  <2>3. CASE s = r
    <3> DEFINE n == [receipts[r] EXCEPT !.status = "CANCELLED"]
    <3>1. receipts[r] \in Receipt
      BY <1>1 DEF Optional
    <3>2. n \in Receipt /\ n.refs = receipts[r].refs
      BY <3>1 DEF Receipt, TerminalStatuses
    <3>3. receipts'[r] = n
      BY <1>1, <2>1, <2>3
    <3> QED
      BY <2>1, <2>3, <3>2, <3>3, ActiveMayChange
  <2> QED
    BY <2>2, <2>3
<1>8. ASSUME NEW s \in Requests, NEW p \in Purposes, CancelLate(s, p)
      PROVE  ReceiptKept(r)
  BY <1>4, <1>8 DEF CancelLate, coordinatorVars
<1>9. ASSUME NEW i \in OrderIds, Venue(i)
      PROVE  ReceiptKept(r)
  BY <1>4, <1>9 DEF Venue, coordinatorVars
<1>10. CASE Stop
  BY <1>4, <1>10 DEF Stop
<1>11. ASSUME NEW u \in Updates, NEW s \in Requests, OnOrderUpdate(u, s)
       PROVE  ReceiptKept(r)
  BY <1>11, UpdateKeepsReceipts
<1> QED
  BY <1>5, <1>6, <1>7, <1>8, <1>9, <1>10, <1>11 DEF PaperNext

\* A plan's orders follow the plan's receipt: an ended one leaves nothing that can be
\* filled, a filled entry is protected for the whole quantity and the receipt is kept,
\* whatever the coordinator hears late, twice, out of order or never
\* (engines/paper_execution_coordinator/engine.py, on_order_update and cancel).
THEOREM OrdersStayWithReceipts == PaperSpec => OrdersFollowReceipt
<1>1. PaperIInv => PaperTypeOK /\ EndedLeavesNothingLive /\ FilledIsProtected
  <2> SUFFICES ASSUME PaperIInv, NEW r \in Requests, IsActive(r), receipts[r].filled = r.quantity,
                      r.plan \notin reused, NEW p \in r.protects
               PROVE  /\ p \in receipts[r].refs
                      /\ byOrder[<<p, r.plan>>] = r
                      /\ book[<<p, r.plan>>] # None
                      /\ book[<<p, r.plan>>].limit = r.quantity
    BY DEF FilledIsProtected, PaperIInv
  <2>1. receipts[r] # None /\ p \in Purposes /\ p # "ENTRY"
    BY RequestIs DEF IsActive
  <2>2. ReceiptIsSound(r)
    BY <2>1, SoundReceiptsAre
  <2> QED
    BY <2>1, <2>2 DEF ReceiptIsSound
<1>2. PaperIInv /\ [PaperNext]_vars
      => [\A r \in Requests : receipts[r] # None /\ ~stopped /\ resets' = resets => ReceiptKept(r)]_vars
  BY ReceiptStep
<1> QED
  BY <1>1, <1>2, PaperInitSound, PaperStepSound, PTL DEF PaperSpec, OrdersFollowReceipt, ReceiptsAreKept

-------------------------------------------------------------------------------
(* The reconciliation of a receipt with its orders *)

LEMMA ReasonIs == \A w, x : Reason(w, x) = {} <=> ~w
BY DEF Reason

LEMMA ConsistentIs == \A R : ReportStatus(R) = "CONSISTENT" <=> R = {}
<1> SUFFICES ASSUME NEW R PROVE ReportStatus(R) = "CONSISTENT" <=> R = {}
  OBVIOUS
<1>1. R = {} => ReportStatus(R) = "CONSISTENT"
  BY DEF ReportStatus
<1>2. CASE R # {} /\ R \subseteq IncompleteReasons
  <2>1. ReportStatus(R) = "INCOMPLETE"
    BY <1>2 DEF ReportStatus
  <2> QED
    BY <1>2, <2>1
<1>3. CASE R # {} /\ ~(R \subseteq IncompleteReasons)
  <2>1. ReportStatus(R) = "INCONSISTENT"
    BY <1>3 DEF ReportStatus
  <2> QED
    BY <1>3, <2>1
<1> QED
  BY <1>1, <1>2, <1>3

\* A report without findings: each of the comparisons found nothing.
LEMMA NoReasons ==
    ASSUME NEW r, NEW position, NEW required
    PROVE  Reasons(r, position, required) = {} <=>
           /\ ~(receipts[r].filled > r.quantity)
           /\ \A p \in Purposes : OrderReasons(r, p, required) = {}
           /\ ProtectionReasons(r, required) = {}
           /\ StatusReasons(r, position, required) = {}
           /\ PositionReasons(r, position, required) = {}
           /\ OrphanReasons(r) = {}
<1>1. UNION {OrderReasons(r, p, required) : p \in Purposes} = {}
      <=> \A p \in Purposes : OrderReasons(r, p, required) = {}
  OBVIOUS
<1>2. Reason(receipts[r].filled > r.quantity, "FILLED_QUANTITY_MISMATCH") = {} <=> ~(receipts[r].filled > r.quantity)
  BY ReasonIs
<1> DEFINE a == Reason(receipts[r].filled > r.quantity, "FILLED_QUANTITY_MISMATCH")
           b == UNION {OrderReasons(r, p, required) : p \in Purposes}
           c == ProtectionReasons(r, required)
           d == StatusReasons(r, position, required)
           e == PositionReasons(r, position, required)
           f == OrphanReasons(r)
<1>3. Reasons(r, position, required) = a \cup b \cup c \cup d \cup e \cup f
  BY DEF Reasons
<1> HIDE DEF a, b, c, d, e, f
<1>4. Reasons(r, position, required) = {} <=> a = {} /\ b = {} /\ c = {} /\ d = {} /\ e = {} /\ f = {}
  BY <1>3
<1> QED
  BY <1>1, <1>2, <1>4 DEF a, b, c, d, e, f

LEMMA NoOrderReasons ==
    ASSUME NEW r, NEW p, p \in receipts[r].refs, book[<<p, r.plan>>] # None
    PROVE  OrderReasons(r, p, Requirements) = {} <=>
           /\ book[<<p, r.plan>>].quantity = r.quantity
           /\ ~(book[<<p, r.plan>>].filled > book[<<p, r.plan>>].quantity)
           /\ submissions[<<p, r.plan>>] # None
           /\ submissions[<<p, r.plan>>].quantity = book[<<p, r.plan>>].quantity
           /\ submissions[<<p, r.plan>>].filled = book[<<p, r.plan>>].filled
           /\ submissions[<<p, r.plan>>].status = SubmissionStatus(book[<<p, r.plan>>].status)
<1> DEFINE i == <<p, r.plan>>
           x == IF p = "ENTRY" THEN "ORDER_QUANTITY_MISMATCH" ELSE "PROTECTIVE_QUANTITY_MISMATCH"
           y == IF submissions[i].status \in EndedSubmissions /\ SubmissionStatus(book[i].status) \notin EndedSubmissions
                THEN "TERMINAL_STATE_REGRESSION" ELSE "MANAGED_STATUS_MISMATCH"
           a == Reason(book[i].quantity # r.quantity, x)
           b == Reason(book[i].filled > book[i].quantity, "INVALID_ORDER_STATE")
           c == SubmissionReasons(i)
           d == Reason(submissions[i].quantity # book[i].quantity, "ORDER_QUANTITY_MISMATCH")
           e == Reason(submissions[i].filled # book[i].filled, "FILLED_QUANTITY_MISMATCH")
           f == Reason(submissions[i].status # SubmissionStatus(book[i].status), y)
<1>1. OrderReasons(r, p, Requirements) = a \cup b \cup c
  BY DEF OrderReasons, Requirements
<1>2. submissions[i] = None => c = {"MANAGED_SUBMISSION_NOT_FOUND"}
  BY DEF SubmissionReasons
<1>3. submissions[i] # None => c = d \cup e \cup f
  BY DEF SubmissionReasons
<1>4. /\ a = {} <=> book[i].quantity = r.quantity
      /\ b = {} <=> ~(book[i].filled > book[i].quantity)
      /\ d = {} <=> submissions[i].quantity = book[i].quantity
      /\ e = {} <=> submissions[i].filled = book[i].filled
      /\ f = {} <=> submissions[i].status = SubmissionStatus(book[i].status)
  <2> HIDE DEF x, y
  <2>1. a = {} <=> book[i].quantity = r.quantity
    BY ReasonIs
  <2>2. b = {} <=> ~(book[i].filled > book[i].quantity)
    BY ReasonIs
  <2>3. d = {} <=> submissions[i].quantity = book[i].quantity
    BY ReasonIs
  <2>4. e = {} <=> submissions[i].filled = book[i].filled
    BY ReasonIs
  <2>5. f = {} <=> submissions[i].status = SubmissionStatus(book[i].status)
    BY ReasonIs
  <2> QED
    BY <2>1, <2>2, <2>3, <2>4, <2>5
<1> HIDE DEF a, b, c, d, e, f
<1>5. OrderReasons(r, p, Requirements) = {} <=> a = {} /\ b = {} /\ c = {}
  BY <1>1
<1>6. c = {} <=> submissions[i] # None /\ d = {} /\ e = {} /\ f = {}
  BY <1>2, <1>3
<1> QED
  BY <1>4, <1>5, <1>6

LEMMA NoProtectionReasons ==
    ASSUME NEW r
    PROVE  ProtectionReasons(r, Requirements) = {} <=>
           /\ (\E p \in {"STOP_LOSS", "TARGET"} : Read(r, p) # None) =>
                Read(r, "ENTRY") # None /\ ~(Read(r, "ENTRY").filled < Read(r, "ENTRY").quantity)
           /\ EntryFull(r) /\ receipts[r].status \notin {"FAILED", "CANCELLED", "REJECTED"} =>
                \A p \in {"STOP_LOSS", "TARGET"} \cap r.protects : Read(r, p) # None
<1> DEFINE entry   == Read(r, "ENTRY")
           early   == entry = None \/ entry.filled < entry.quantity
           missing == {p \in r.protects \cap Requirements : Read(r, p) = None}
           wanted  == EntryFull(r) /\ receipts[r].status \notin {"FAILED", "CANCELLED", "REJECTED"}
           some    == \E p \in {"STOP_LOSS", "TARGET"} : Read(r, p) # None
           a == Reason(early /\ some, "PROTECTION_CREATED_BEFORE_ENTRY_FILL")
           b == Reason(wanted /\ "STOP_LOSS" \in missing, "MISSING_STOP_PROTECTION")
           c == Reason(wanted /\ "TARGET" \in missing, "MISSING_TARGET_PROTECTION")
<1>1. ProtectionReasons(r, Requirements) = a \cup b \cup c
  BY DEF ProtectionReasons
<1>2. /\ a = {} <=> ~(early /\ some)
      /\ b = {} <=> ~(wanted /\ "STOP_LOSS" \in missing)
      /\ c = {} <=> ~(wanted /\ "TARGET" \in missing)
  <2> HIDE DEF early, some, wanted, missing
  <2>1. a = {} <=> ~(early /\ some)
    BY ReasonIs
  <2>2. b = {} <=> ~(wanted /\ "STOP_LOSS" \in missing)
    BY ReasonIs
  <2>3. c = {} <=> ~(wanted /\ "TARGET" \in missing)
    BY ReasonIs
  <2> QED
    BY <2>1, <2>2, <2>3
<1> HIDE DEF a, b, c
<1>3. ProtectionReasons(r, Requirements) = {} <=> a = {} /\ b = {} /\ c = {}
  BY <1>1
<1>4. \A p \in {"STOP_LOSS", "TARGET"} : p \in missing <=> p \in r.protects /\ Read(r, p) = None
  BY DEF Requirements
<1> HIDE DEF missing
<1>5. (\A p \in {"STOP_LOSS", "TARGET"} \cap r.protects : Read(r, p) # None)
      <=> "STOP_LOSS" \notin missing /\ "TARGET" \notin missing
  BY <1>4
<1>6. ~(early /\ some) <=> (some => entry # None /\ ~(entry.filled < entry.quantity))
  OBVIOUS
<1>7. ~(wanted /\ "STOP_LOSS" \in missing) /\ ~(wanted /\ "TARGET" \in missing)
      <=> (wanted => \A p \in {"STOP_LOSS", "TARGET"} \cap r.protects : Read(r, p) # None)
  BY <1>5
<1>8. ProtectionReasons(r, Requirements) = {} <=>
      /\ some => entry # None /\ ~(entry.filled < entry.quantity)
      /\ wanted => \A p \in {"STOP_LOSS", "TARGET"} \cap r.protects : Read(r, p) # None
  <2> HIDE DEF early, some, wanted, entry
  <2> QED
    BY <1>2, <1>3, <1>6, <1>7
<1> QED
  BY <1>8

LEMMA NoStatusReasons ==
    ASSUME NEW r, NEW position
    PROVE  StatusReasons(r, position, Requirements) = {} <=>
           /\ receipts[r].status = "CANCELLED" => \A p \in Purposes : ~LiveRead(r, p)
           /\ ~(receipts[r].status = "COMPLETED" /\ position # None /\ position.open /\ position.quantity > 0)
           /\ receipts[r].status = "COMPLETED" =>
                \A p \in {"STOP_LOSS", "TARGET"} :
                    Read(r, p) # None /\ Read(r, p).status = "FILLED" => ~LiveRead(r, Opposite(p))
           /\ ~(receipts[r].status \in ActiveStatuses /\ position # None /\ ~position.open)
<1> DEFINE status == receipts[r].status
           Beside(p) == Read(r, p) # None /\ Read(r, p).status = "FILLED" /\ LiveRead(r, Opposite(p))
           when1 == status = "CANCELLED" /\ \E p \in Purposes : LiveRead(r, p)
           when2 == status = "COMPLETED" /\ position # None /\ position.open /\ position.quantity > 0
           when3 == status = "COMPLETED" /\ "OPPOSITE" \in Requirements /\ \E p \in {"STOP_LOSS", "TARGET"} : Beside(p)
           when4 == status \in ActiveStatuses /\ position # None /\ ~position.open
           a == Reason(when1, "CANCELLED_RECEIPT_HAS_ACTIVE_ORDER")
           b == Reason(when2, "COMPLETED_RECEIPT_HAS_OPEN_POSITION")
           c == Reason(when3, "OPPOSITE_PROTECTION_NOT_CANCELLED")
           d == Reason(when4, "ACTIVE_RECEIPT_HAS_CLOSED_POSITION")
<1>1. StatusReasons(r, position, Requirements) = a \cup b \cup c \cup d
  BY DEF StatusReasons
<1>2. (a = {} <=> ~when1) /\ (b = {} <=> ~when2) /\ (c = {} <=> ~when3) /\ (d = {} <=> ~when4)
  <2> HIDE DEF when1, when2, when3, when4
  <2>1. a = {} <=> ~when1
    BY ReasonIs
  <2>2. b = {} <=> ~when2
    BY ReasonIs
  <2>3. c = {} <=> ~when3
    BY ReasonIs
  <2>4. d = {} <=> ~when4
    BY ReasonIs
  <2> QED
    BY <2>1, <2>2, <2>3, <2>4
<1> HIDE DEF a, b, c, d
<1>3. StatusReasons(r, position, Requirements) = {} <=> a = {} /\ b = {} /\ c = {} /\ d = {}
  BY <1>1
<1>4. ~when1 <=> (status = "CANCELLED" => \A p \in Purposes : ~LiveRead(r, p))
  OBVIOUS
<1>5. ~when3 <=> (status = "COMPLETED" =>
                \A p \in {"STOP_LOSS", "TARGET"} :
                    Read(r, p) # None /\ Read(r, p).status = "FILLED" => ~LiveRead(r, Opposite(p)))
  BY DEF Requirements
<1> HIDE DEF when1, when3
<1> QED
  BY <1>2, <1>3, <1>4, <1>5

LEMMA NoPositionReasons ==
    ASSUME NEW r, NEW position
    PROVE  PositionReasons(r, position, Requirements) = {} <=>
           /\ position = None => ~(EntryFull(r) /\ receipts[r].status \notin TerminalStatuses)
           /\ position # None =>
                /\ ~position.elsewhere
                /\ ~(EntryFull(r) /\ position.open /\ position.opposed)
                /\ ~(EntryFull(r) /\ position.open /\ position.quantity # Read(r, "ENTRY").filled)
<1> DEFINE full == EntryFull(r)
           when == full /\ "POSITION" \in Requirements /\ receipts[r].status \notin TerminalStatuses
           when2 == full /\ position.open /\ position.opposed
           when3 == full /\ position.open /\ position.quantity # Read(r, "ENTRY").filled
           z == Reason(when, "FILLED_ENTRY_WITHOUT_POSITION")
           a == Reason(position.elsewhere, "POSITION_INSTRUMENT_MISMATCH")
           b == Reason(when2, "INVALID_POSITION_STATE")
           c == Reason(when3, "POSITION_QUANTITY_MISMATCH")
<1>1. position = None => PositionReasons(r, position, Requirements) = z
  BY DEF PositionReasons
<1>2. position # None => PositionReasons(r, position, Requirements) = a \cup b \cup c
  BY DEF PositionReasons
<1>3. (z = {} <=> ~when) /\ (a = {} <=> ~position.elsewhere) /\ (b = {} <=> ~when2) /\ (c = {} <=> ~when3)
  <2> HIDE DEF when, when2, when3
  <2>1. z = {} <=> ~when
    BY ReasonIs
  <2>2. a = {} <=> ~position.elsewhere
    BY ReasonIs
  <2>3. b = {} <=> ~when2
    BY ReasonIs
  <2>4. c = {} <=> ~when3
    BY ReasonIs
  <2> QED
    BY <2>1, <2>2, <2>3, <2>4
<1>4. when <=> full /\ receipts[r].status \notin TerminalStatuses
  BY DEF Requirements
<1> HIDE DEF z, a, b, c, when
<1>5. CASE position = None
  BY <1>1, <1>3, <1>4, <1>5
<1>6. CASE position # None
  <2>1. PositionReasons(r, position, Requirements) = {} <=> a = {} /\ b = {} /\ c = {}
    BY <1>2, <1>6
  <2> QED
    BY <1>3, <1>6, <2>1
<1> QED
  BY <1>5, <1>6

LEMMA NoOrphanReasons ==
    ASSUME NEW r, \A p \in Purposes \ receipts[r].refs :
                      book[<<p, r.plan>>] = None /\ submissions[<<p, r.plan>>] = None
    PROVE  OrphanReasons(r) = {}
<1> DEFINE unknown == {<<p, r.plan>> : p \in Purposes \ receipts[r].refs}
           when1 == \E i \in unknown : book[i] # None
           when2 == \E i \in unknown : submissions[i] # None
<1>1. OrphanReasons(r) = Reason(when1, "ORPHANED_ORDER") \cup Reason(when2, "ORPHANED_MANAGED_SUBMISSION")
  BY DEF OrphanReasons
<1>2. ~when1 /\ ~when2
  OBVIOUS
<1> HIDE DEF when1, when2
<1>3. Reason(when1, "ORPHANED_ORDER") = {} /\ Reason(when2, "ORPHANED_MANAGED_SUBMISSION") = {}
  BY <1>2, ReasonIs
<1> QED
  BY <1>1, <1>3

\* A report that found nothing can be trusted.
LEMMA ConsistentIsTrue ==
    ASSUME PaperIInv, NEW r \in Requests, receipts[r] # None, NEW position,
           Reasons(r, position, Requirements) = {}
    PROVE  /\ \A i \in OrdersOf(r) : /\ submissions[i].status = SubmissionStatus(book[i].status)
                                     /\ submissions[i].filled = book[i].filled
           /\ IsActive(r) /\ EntryFull(r) =>
                \A p \in r.protects : p \in receipts[r].refs /\ book[<<p, r.plan>>].quantity = r.quantity
           /\ receipts[r].status \in {"CANCELLED", "COMPLETED"} => \A i \in OrdersOf(r) : ~IsLive(i)
<1>1. ReceiptIsSound(r) /\ receipts[r].refs \subseteq Purposes
  BY SoundReceiptsAre
<1>2. /\ \A p \in Purposes : OrderReasons(r, p, Requirements) = {}
      /\ ProtectionReasons(r, Requirements) = {}
      /\ StatusReasons(r, position, Requirements) = {}
  BY NoReasons
<1>3. /\ r.protects \subseteq {"STOP_LOSS", "TARGET"} /\ r.quantity \in Nat \ {0}
      /\ \A p \in Purposes : <<p, r.plan>> \in OrderIds
  BY RequestIs
<1>4. ASSUME NEW p \in receipts[r].refs
      PROVE  LET i == <<p, r.plan>>
             IN  /\ book[i] # None /\ SoundEntry(book[i]) /\ book[i].quantity = r.quantity
                 /\ submissions[i].status = SubmissionStatus(book[i].status)
                 /\ submissions[i].filled = book[i].filled
                 /\ Read(r, p) = book[i]
  <2>1. book[<<p, r.plan>>] # None /\ p \in Purposes
    BY <1>1 DEF ReceiptIsSound
  <2>2. SoundEntry(book[<<p, r.plan>>])
    BY <1>3, <2>1 DEF PaperIInv, BookIsSound
  <2>3. Read(r, p) = book[<<p, r.plan>>]
    BY DEF Read
  <2> QED
    BY <1>2, <2>1, <2>2, <2>3, NoOrderReasons
<1>5. \A p \in Purposes : p \notin receipts[r].refs => Read(r, p) = None
  BY DEF Read
<1>6. \A i \in OrdersOf(r) : \E p \in receipts[r].refs : i = <<p, r.plan>>
  BY DEF OrdersOf
<1>7. ASSUME IsActive(r), EntryFull(r), NEW p \in r.protects
      PROVE  p \in receipts[r].refs /\ book[<<p, r.plan>>].quantity = r.quantity
  <2>1. receipts[r].status \notin {"FAILED", "CANCELLED", "REJECTED"}
    BY <1>7, StatusesAreDisjoint DEF IsActive
  <2>2. Read(r, p) # None
    BY <1>2, <1>3, <1>7, <2>1, NoProtectionReasons
  <2>3. p \in receipts[r].refs
    BY <2>2 DEF Read
  <2> QED
    BY <1>4, <2>3
<1>8. ASSUME receipts[r].status = "CANCELLED", NEW p \in receipts[r].refs
      PROVE  ~IsLive(<<p, r.plan>>)
  <2>1. ~LiveRead(r, p)
    BY <1>1, <1>2, <1>8, NoStatusReasons
  <2> QED
    BY <1>4, <2>1 DEF LiveRead, IsLive
<1>9. ASSUME receipts[r].status = "COMPLETED", NEW p \in receipts[r].refs
      PROVE  ~IsLive(<<p, r.plan>>)
  <2>1. PICK f \in receipts[r].refs \ {"ENTRY"} : submissions[<<f, r.plan>>].status = "FILLED"
    BY <1>1, <1>9 DEF ReceiptIsSound
  <2>2. f \in {"STOP_LOSS", "TARGET"} /\ "ENTRY" \in receipts[r].refs
    BY <1>1, <2>1 DEF Purposes, ReceiptIsSound
  <2>3. SubmissionStatus(book[<<f, r.plan>>].status) = "FILLED" /\ Read(r, f) = book[<<f, r.plan>>] /\ Read(r, f) # None
    BY <1>4, <2>1
  <2>4. Read(r, f).status = "FILLED"
    BY <2>3 DEF SubmissionStatus
  <2>5. CASE p = f
    BY <2>3, <2>4, <2>5 DEF IsLive, Live
  <2>6. CASE p = Opposite(f)
    <3>1. ~LiveRead(r, p)
      BY <1>2, <1>9, <2>2, <2>3, <2>4, <2>6, NoStatusReasons
    <3> QED
      BY <1>4, <3>1 DEF LiveRead, IsLive
  <2>7. CASE p = "ENTRY"
    <3> DEFINE b == book[<<"ENTRY", r.plan>>]
    <3>1. /\ b # None /\ SoundEntry(b) /\ b.quantity = r.quantity /\ b.limit = r.quantity /\ Read(r, "ENTRY") = b
      BY <1>1, <1>4, <2>2 DEF ReceiptIsSound, Entry
    <3>2. ~(b.filled < b.quantity)
      BY <1>2, <2>2, <2>3, <3>1, NoProtectionReasons
    <3>3. b.filled \in Nat /\ b.filled # 0 /\ ~(b.filled < b.limit)
      BY <1>3, <3>1, <3>2 DEF SoundEntry, BookEntry
    <3>4. b.status \notin Live
      BY <3>1, <3>3 DEF SoundEntry, Live
    <3> QED
      BY <2>7, <3>4 DEF IsLive
  <2>8. p = f \/ p = Opposite(f) \/ p = "ENTRY"
    BY <1>1, <2>2 DEF Opposite, Purposes
  <2> QED
    BY <2>5, <2>6, <2>7, <2>8
<1> QED
  BY <1>4, <1>6, <1>7, <1>8, <1>9

\* What is shown of the position of a receipt.
LEMMA ShownIs ==
    ASSUME PaperIInv, NEW r \in Requests, IsActive(r), Read(r, "ENTRY").quantity = r.quantity
    PROVE  /\ Shown(r) # None =>
                /\ Shown(r).elsewhere = FALSE /\ Shown(r).open = TRUE /\ Shown(r).opposed = FALSE
                /\ Shown(r).quantity = Read(r, "ENTRY").filled
           /\ Shown(r) = None => ~EntryFull(r)
<1> DEFINE entry == Read(r, "ENTRY")
           held == entry # None /\ entry.filled > 0 /\ receipts[r].status # "COMPLETED"
           shown == [elsewhere |-> FALSE, open |-> TRUE, opposed |-> FALSE, quantity |-> entry.filled]
<1>1. ReceiptIsSound(r) /\ receipts[r].status # "COMPLETED"
  BY SoundReceiptsAre, StatusesAreDisjoint DEF IsActive
<1>2. entry # None => SoundEntry(entry)
  BY RequestIs DEF PaperIInv, BookIsSound, Read, Entry
<1>3. entry # None => entry.filled \in Nat
  BY <1>2 DEF SoundEntry, BookEntry
<1>4. Shown(r) = IF held THEN shown ELSE None
  BY DEF Shown
<1>5. held => shown \in Position
  BY <1>3 DEF Position
<1>6. held => shown # None
  BY <1>5, NoPositionAssumption
<1>7. shown.elsewhere = FALSE /\ shown.open = TRUE /\ shown.opposed = FALSE /\ shown.quantity = entry.filled
  OBVIOUS
<1>8. EntryFull(r) => entry # None /\ entry.filled > 0
  <2>1. EntryFull(r) => entry # None /\ entry.filled = r.quantity
    BY DEF EntryFull
  <2> QED
    BY <2>1, RequestIs
<1> HIDE DEF shown, entry
<1>9. Shown(r) # None => Shown(r) = shown
  BY <1>4
<1>10. Shown(r) = None => ~held
  BY <1>4, <1>6
<1>11. EntryFull(r) => held
  BY <1>1, <1>8
<1> QED
  BY <1>7, <1>9, <1>10, <1>11 DEF entry

\* There is no false alarm.
LEMMA MirroredIsConsistent ==
    ASSUME PaperIInv, NEW r \in Requests, IsActive(r), r.plan \notin reused,
           \A i \in OrdersOf(r) : /\ book[i] # None /\ book[i].quantity = r.quantity
                                  /\ submissions[i].status = SubmissionStatus(book[i].status)
                                  /\ submissions[i].filled = book[i].filled
    PROVE  Reasons(r, Shown(r), Requirements) = {}
<1>1. /\ receipts[r] # None /\ receipts[r].status \in ActiveStatuses
      /\ receipts[r].status \notin {"COMPLETED", "CANCELLED"}
  BY StatusesAreDisjoint DEF IsActive
<1>2. ReceiptIsSound(r) /\ receipts[r].refs \subseteq Purposes
  BY <1>1, SoundReceiptsAre
<1>3. /\ r.protects \subseteq {"STOP_LOSS", "TARGET"} /\ r.quantity \in Nat \ {0}
      /\ \A p \in Purposes : <<p, r.plan>> \in OrderIds /\ <<p, r.plan>>[2] = r.plan
      /\ "ENTRY" \in Purposes
  BY RequestIs
<1>4. receipts[r].filled <= r.quantity /\ receipts[r].filled \in Nat
  BY <1>1, <1>2 DEF ReceiptIsSound, PaperIInv, PaperTypeOK, Optional, Receipt
<1>5. ASSUME NEW p \in receipts[r].refs
      PROVE  LET i == <<p, r.plan>>
             IN  /\ book[i] # None /\ SoundEntry(book[i]) /\ book[i].quantity = r.quantity
                 /\ submissions[i] # None /\ submissions[i].quantity = r.quantity
                 /\ submissions[i].status = SubmissionStatus(book[i].status)
                 /\ submissions[i].filled = book[i].filled
                 /\ Read(r, p) = book[i]
  <2>1. <<p, r.plan>> \in OrdersOf(r) /\ <<p, r.plan>> \in OrderIds
    BY <1>2, <1>3 DEF OrdersOf
  <2>2. book[<<p, r.plan>>] # None /\ SoundEntry(book[<<p, r.plan>>])
    BY <2>1 DEF PaperIInv, BookIsSound
  <2>3. submissions[<<p, r.plan>>] # None /\ submissions[<<p, r.plan>>].quantity = r.quantity
    BY <1>1, <1>2 DEF ReceiptIsSound
  <2>4. Read(r, p) = book[<<p, r.plan>>]
    BY DEF Read
  <2> QED
    BY <2>1, <2>2, <2>3, <2>4
<1>6. \A p : p \notin receipts[r].refs => Read(r, p) = None
  BY DEF Read
<1>7. "ENTRY" \in receipts[r].refs
  BY <1>2 DEF ReceiptIsSound
<1>8. ASSUME NEW p \in Purposes
      PROVE  OrderReasons(r, p, Requirements) = {}
  <2>1. CASE p \in receipts[r].refs
    <3>1. book[<<p, r.plan>>].filled <= book[<<p, r.plan>>].quantity /\ book[<<p, r.plan>>].filled \in Nat
          /\ book[<<p, r.plan>>].quantity \in Nat
      BY <1>5, <2>1 DEF SoundEntry, BookEntry
    <3> QED
      BY <1>5, <2>1, <3>1, NoOrderReasons
  <2>2. CASE p \notin receipts[r].refs
    <3>1. OrderReasons(r, p, Requirements) = Reason(p = "ENTRY" /\ "ENTRY" \in Requirements, "ENTRY_ORDER_NOT_FOUND")
      BY <2>2 DEF OrderReasons
    <3>2. ~(p = "ENTRY" /\ "ENTRY" \in Requirements)
      BY <1>7, <2>2
    <3> QED
      BY <3>1, <3>2, ReasonIs
  <2> QED
    BY <2>1, <2>2
<1>9. ASSUME EntryFull(r)
      PROVE  r.protects \subseteq receipts[r].refs
  <2>1. book[Entry(r)].status = "FILLED"
    BY <1>5, <1>7, <1>9 DEF EntryFull, Entry
  <2>2. submissions[Entry(r)].status = "FILLED"
    BY <1>5, <1>7, <2>1 DEF Entry, SubmissionStatus
  <2> QED
    BY <1>1, <1>2, <2>2 DEF ReceiptIsSound
<1>10. ProtectionReasons(r, Requirements) = {}
  <2>1. ASSUME NEW p \in {"STOP_LOSS", "TARGET"}, Read(r, p) # None
        PROVE  Read(r, "ENTRY") # None /\ ~(Read(r, "ENTRY").filled < Read(r, "ENTRY").quantity)
    <3>1. p \in receipts[r].refs \ {"ENTRY"}
      BY <1>6, <2>1
    <3>2. book[Entry(r)].status = "FILLED"
      BY <1>2, <3>1 DEF ReceiptIsSound
    <3>3. Read(r, "ENTRY") = book[Entry(r)] /\ Read(r, "ENTRY") # None /\ SoundEntry(book[Entry(r)])
      BY <1>5, <1>7 DEF Entry
    <3> QED
      BY <3>2, <3>3 DEF SoundEntry, BookEntry
  <2>2. ASSUME EntryFull(r), NEW p \in {"STOP_LOSS", "TARGET"} \cap r.protects
        PROVE  Read(r, p) # None
    BY <1>5, <1>9, <2>2
  <2> QED
    BY <2>1, <2>2, NoProtectionReasons
<1>11. /\ Shown(r) # None =>
            /\ Shown(r).elsewhere = FALSE /\ Shown(r).open = TRUE /\ Shown(r).opposed = FALSE
            /\ Shown(r).quantity = Read(r, "ENTRY").filled
       /\ Shown(r) = None => ~EntryFull(r)
  <2>1. Read(r, "ENTRY") = book[<<"ENTRY", r.plan>>]
    BY <1>7 DEF Read
  <2>2. book[<<"ENTRY", r.plan>>].quantity = r.quantity
    BY <1>5, <1>7
  <2> QED
    BY <2>1, <2>2, ShownIs
<1>12. StatusReasons(r, Shown(r), Requirements) = {}
  BY <1>1, <1>11, NoStatusReasons
<1>13. PositionReasons(r, Shown(r), Requirements) = {}
  BY <1>11, NoPositionReasons
<1>14. OrphanReasons(r) = {}
  <2> SUFFICES ASSUME NEW p \in Purposes \ receipts[r].refs
               PROVE  book[<<p, r.plan>>] = None /\ submissions[<<p, r.plan>>] = None
    BY NoOrphanReasons
  <2>1. book[<<p, r.plan>>] = None
    BY <1>2 DEF ReceiptIsSound
  <2>2. submissions[<<p, r.plan>>] = None
    BY <1>3, <2>1 DEF PaperIInv, BookIsSound
  <2> QED
    BY <2>1, <2>2
<1>15. ~(receipts[r].filled > r.quantity)
  BY <1>3, <1>4
<1> QED
  BY <1>8, <1>10, <1>12, <1>13, <1>14, <1>15, NoReasons

\* A reconciliation report can be trusted and raises no false alarm, in every state the
\* coordinator gets into (engines/execution_reconciliation/engine.py, _reconcile).
THEOREM ReportsStayTrue == PaperSpec => []ReportsTellTheTruth
<1>1. PaperIInv => ReportsTellTheTruth
  <2> SUFFICES ASSUME PaperIInv, NEW r \in Requests, receipts[r] # None
               PROVE  /\ ReportStatus(Reasons(r, Shown(r), Requirements)) = "CONSISTENT" =>
                           /\ \A i \in OrdersOf(r) : /\ submissions[i].status = SubmissionStatus(book[i].status)
                                                     /\ submissions[i].filled = book[i].filled
                           /\ IsActive(r) /\ EntryFull(r) =>
                                \A p \in r.protects : p \in receipts[r].refs /\ book[<<p, r.plan>>].quantity = r.quantity
                           /\ receipts[r].status \in {"CANCELLED", "COMPLETED"} => \A i \in OrdersOf(r) : ~IsLive(i)
                      /\ /\ IsActive(r) /\ r.plan \notin reused
                         /\ \A i \in OrdersOf(r) : /\ book[i] # None /\ book[i].quantity = r.quantity
                                                   /\ submissions[i].status = SubmissionStatus(book[i].status)
                                                   /\ submissions[i].filled = book[i].filled
                         => ReportStatus(Reasons(r, Shown(r), Requirements)) = "CONSISTENT"
    BY DEF ReportsTellTheTruth
  <2>1. ReportStatus(Reasons(r, Shown(r), Requirements)) = "CONSISTENT"
        <=> Reasons(r, Shown(r), Requirements) = {}
    BY ConsistentIs
  <2>2. Reasons(r, Shown(r), Requirements) = {} =>
           /\ \A i \in OrdersOf(r) : /\ submissions[i].status = SubmissionStatus(book[i].status)
                                     /\ submissions[i].filled = book[i].filled
           /\ IsActive(r) /\ EntryFull(r) =>
                \A p \in r.protects : p \in receipts[r].refs /\ book[<<p, r.plan>>].quantity = r.quantity
           /\ receipts[r].status \in {"CANCELLED", "COMPLETED"} => \A i \in OrdersOf(r) : ~IsLive(i)
    BY ConsistentIsTrue
  <2>3. (/\ IsActive(r) /\ r.plan \notin reused
         /\ \A i \in OrdersOf(r) : /\ book[i] # None /\ book[i].quantity = r.quantity
                                   /\ submissions[i].status = SubmissionStatus(book[i].status)
                                   /\ submissions[i].filled = book[i].filled)
        => Reasons(r, Shown(r), Requirements) = {}
    BY MirroredIsConsistent
  <2> QED
    BY <2>1, <2>2, <2>3
<1> QED
  BY <1>1, PaperInitSound, PaperStepSound, PTL DEF PaperSpec
===============================================================================
