---------------------------- MODULE PaperTradingV1 ----------------------------
(***************************************************************************)
(* The paper trading engine of one symbol runtime                          *)
(* (engines/paper_trading): an approved trade plan becomes a pending paper *)
(* order, a tick or a candle fills it, later ones close the position at    *)
(* its stop, its target, the session's end or the shutdown, and each close *)
(* is booked as a trade record.  One call is one step: the whole handler   *)
(* of a tick is TickHandled, from the withdrawal of the pending order to   *)
(* the record.  Orders that the execution coordinator manages are in       *)
(* PaperExecutionV1.                                                       *)
(*                                                                         *)
(* Prices are whole points, so the rounding of the code never matters.     *)
(***************************************************************************)
EXTENDS NoneValue, Integers, FiniteSets

CONSTANTS
  Plans,        \* trade plans: [id, direction, breakout, entry, stop, target, quantity, from, until]
  PaperConfig,  \* [enabled, autoCreate, slippage, fee, feePercent, invalidation, closeAtEnd, cancelAtEnd]
  TickPrices,   \* last traded prices
  Opinions,     \* what a caller says of the strategy: None, "no_trade" or a direction
  Late,         \* how much earlier than the last event a tick may be stamped
  SessionLength,\* times of a session
  DayTimes,     \* times of a day
  MaxClock      \* bound on the time

ASSUME PlansAreSound ==
  \A p \in Plans :
    /\ {p.entry, p.stop, p.target, p.from, p.until} \subseteq Int /\ p.direction \in {"bullish", "bearish"}
    /\ p.quantity \in Nat \ {0} /\ p.from < p.until
    /\ IF p.direction = "bullish" THEN p.stop < p.entry /\ p.entry < p.target
                                  ELSE p.target < p.entry /\ p.entry < p.stop

ASSUME MarketIsRead ==
  /\ TickPrices \subseteq Int
  /\ PaperConfig.slippage \in Nat /\ PaperConfig.fee \in Nat /\ PaperConfig.feePercent \in Nat
  /\ Late \in Nat /\ MaxClock \in Nat /\ DayTimes \in Nat \ {0} /\ SessionLength \in Nat

VARIABLES
  desk,   \* [order, position, records, processed, counts]
  latest, \* the last price seen
  time    \* the time of the latest market event

paperVars == <<desk, latest, time>>

(* PaperOrder, PaperPosition and PaperTradeRecord.                          *)
PaperOrders    == [plan : Plans, state : {"pending", "cancelled", "expired", "triggered"}]
PaperPositions == [plan : Plans, at : Int, entry : Int, last : Int, lastAt : Int, open : BOOLEAN]
PaperRecords   ==
  [plan : Plans, entry : Int, exit : Int, opened : Int, at : Int, net : Int,
   type : {"stop_loss", "target", "strategy_invalidated", "session_close", "system_shutdown"}]

ASSUME NoneIsNoOrder == None \notin PaperOrders /\ None \notin PaperPositions

NoCounts == [created |-> 0, triggered |-> 0, cancelled |-> 0, expired |-> 0,
             opened |-> 0, closed |-> 0]
EmptyDesk == [order |-> None, position |-> None, records |-> {}, processed |-> {},
              counts |-> NoCounts]

TradingInit ==
  /\ desk = EmptyDesk
  /\ latest = None
  /\ time = 0

Larger(a, b) == IF a >= b THEN a ELSE b
Lesser(a, b) == IF a <= b THEN a ELSE b
Magnitude(n) == IF n < 0 THEN -n ELSE n
Bullish(p) == p.direction = "bullish"
AfterHours(t) == t % DayTimes >= SessionLength

OrderPending(d) == d.order # None /\ d.order.state = "pending"
PositionOpen(d) == d.position # None /\ d.position.open

Counted(d, what) == [d EXCEPT !.counts[what] = @ + 1]

-----------------------------------------------------------------------------
(* receive_plan: only an approved plan, only when nothing is pending or     *)
(* open, and no plan twice.                                                 *)
ReceivePlan(p) ==
  /\ PaperConfig.enabled /\ PaperConfig.autoCreate
  /\ ~OrderPending(desk) /\ ~PositionOpen(desk)
  /\ p.id \notin desk.processed
  /\ desk' = Counted([desk EXCEPT !.order = [plan |-> p, state |-> "pending"],
                                  !.processed = @ \cup {p.id}], "created")
  /\ UNCHANGED <<latest, time>>

Cancelled(d) == Counted([d EXCEPT !.order.state = "cancelled"], "cancelled")
Expired(d) == Counted([d EXCEPT !.order.state = "expired"], "expired")

(* An order is never updated to a time before its plan was made, and filled *)
(* only at a positive price: the constructor of the changed order raises.   *)
AcceptsUpdate(p, t) == t >= p.from

LevelTouched(p, price) ==
  IF Bullish(p) THEN price <= p.stop \/ price >= p.target
                ELSE price >= p.stop \/ price <= p.target

(* Why a pending order is withdrawn; the first reason counts. *)
Withdrawn(p, t, price, opinion, approved) ==
  \/ PaperConfig.cancelAtEnd /\ AfterHours(t)
  \/ ~approved
  \/ opinion \notin {None, p.direction}
  \/ LevelTouched(p, price)

(* _expire_or_cancel_pending; a withdrawal that raises ends the call, and   *)
(* nothing else of the call would change a pending order then.              *)
PendingChecked(d, t, price, opinion, approved) ==
  IF ~OrderPending(d) THEN d
  ELSE IF t >= d.order.plan.until THEN Expired(d)
  ELSE IF Withdrawn(d.order.plan, t, price, opinion, approved) /\ AcceptsUpdate(d.order.plan, t)
    THEN Cancelled(d)
  ELSE d

(* _entry_triggered: the price crossed the entry, coming from the side the  *)
(* plan's entry type asks for.                                              *)
EntryTriggered(p, previous, price) ==
  /\ previous # None
  /\ IF Bullish(p) <=> p.breakout
       THEN previous < p.entry /\ p.entry <= price
       ELSE previous > p.entry /\ p.entry >= price

(* _entry_fill: never better than the plan's entry, and slippage on top. *)
EntryFill(p, price) ==
  IF Bullish(p) THEN Larger(p.entry, price) + PaperConfig.slippage
                ELSE Lesser(p.entry, price) - PaperConfig.slippage

(* A position outside its stop and target is refused by its constructor.    *)
SoundPosition(p, fill) ==
  IF Bullish(p) THEN p.stop < fill /\ fill < p.target
                ELSE p.target < fill /\ fill < p.stop

(* _trigger_order: the order is marked and counted before the position is   *)
(* made; when the fill slipped past a level the constructor raises, and the *)
(* order stays triggered with no position.                                  *)
Triggered(d, t, price) ==
  LET p == d.order.plan
      fill == EntryFill(p, price)
      marked == Counted([d EXCEPT !.order.state = "triggered"], "triggered")
  IN IF ~AcceptsUpdate(p, t) \/ fill <= 0 THEN d
     ELSE IF SoundPosition(p, fill)
       THEN Counted([marked EXCEPT !.position =
              [plan |-> p, at |-> t, entry |-> fill, last |-> fill, lastAt |-> t, open |-> TRUE]], "opened")
       ELSE marked

Profit(p, entry, exit) ==
  (IF Bullish(p) THEN exit - entry ELSE entry - exit) * p.quantity

Fees(gross) == PaperConfig.fee + (Magnitude(gross) * PaperConfig.feePercent) \div 100

TradeRecord(pos, t, exit, type) ==
  LET gross == Profit(pos.plan, pos.entry, exit) IN
  [plan |-> pos.plan, entry |-> pos.entry, exit |-> exit, type |-> type,
   opened |-> pos.at, at |-> t, net |-> gross - Fees(gross)]

(* _close_position: a position that would close before it was opened is     *)
(* refused by the constructor and stays as it was.                          *)
Closed(d, t, exit, type) ==
  LET pos == d.position
  IN IF t < pos.at THEN d
     ELSE Counted([d EXCEPT !.position.open = FALSE, !.position.last = exit,
                            !.records = @ \cup {TradeRecord(pos, t, exit, type)}], "closed")

(* A variant: a stop fills at the better of the stop and the market. *)
StopExitFlattered(p, price) ==
  IF Bullish(p) THEN Larger(p.stop, price) ELSE Lesser(p.stop, price)

(* _stop_exit_price: a gap through the stop fills where the market is. *)
StopExit(p, price) ==
  IF Bullish(p) THEN Lesser(p.stop, price) ELSE Larger(p.stop, price)

(* A variant: a price that only touches the stop leaves the position open. *)
StopPassed(p, price) == IF Bullish(p) THEN price < p.stop ELSE price > p.stop

StopReached(p, price) == IF Bullish(p) THEN price <= p.stop ELSE price >= p.stop
TargetReached(p, price) == IF Bullish(p) THEN price >= p.target ELSE price <= p.target

(* _mark_position and _check_position_exit (lastAt is history: the time of  *)
(* the tick the position was marked at).                                    *)
ExitChecked(d, t, price, opinion) ==
  LET p == d.position.plan
      marked == [d EXCEPT !.position.last = price, !.position.lastAt = t]
  IN IF StopReached(p, price) THEN Closed(marked, t, StopExit(p, price), "stop_loss")
     ELSE IF TargetReached(p, price) THEN Closed(marked, t, p.target, "target")
     ELSE IF PaperConfig.invalidation /\ opinion = "no_trade"
       THEN Closed(marked, t, price, "strategy_invalidated")
     ELSE IF PaperConfig.closeAtEnd /\ AfterHours(t)
       THEN Closed(marked, t, price, "session_close")
     ELSE marked

TickHandled(d, t, price, opinion, approved) ==
  LET checked == PendingChecked(d, t, price, opinion, approved)
      filled == IF OrderPending(checked) /\ EntryTriggered(checked.order.plan, latest, price)
                  THEN Triggered(checked, t, price) ELSE checked
  IN IF PositionOpen(filled) THEN ExitChecked(filled, t, price, opinion) ELSE filled

(* Ticks of one candle may arrive out of order: nobody compares their times. *)
TickTimes == {t \in time - Late .. time + DayTimes : t \in 0 .. MaxClock}

OnTick(t, price, opinion, approved) ==
  /\ PaperConfig.enabled
  /\ desk' = TickHandled(desk, t, price, opinion, approved)
  /\ latest' = price
  /\ time' = t

(* on_candle: the stop before the target, whatever came first inside; the   *)
(* slippage is added to the fill here and again in _trigger_order.          *)
CandleExit(d, t, low, high, close) ==
  LET p == d.position.plan
      Within(price) == low <= price /\ price <= high
  IN IF Within(p.stop) /\ Within(p.target) THEN Closed(d, t, StopExit(p, p.stop), "stop_loss")
     ELSE IF Within(p.stop) THEN Closed(d, t, StopExit(p, close), "stop_loss")
     ELSE IF Within(p.target) THEN Closed(d, t, p.target, "target")
     ELSE d

OnCandle(t, low, high, close, opinion, approved) ==
  LET checked == PendingChecked(desk, t, close, opinion, approved)
      filled == IF OrderPending(checked) /\ low <= checked.order.plan.entry
                                         /\ checked.order.plan.entry <= high
                  THEN Triggered(checked, t, EntryFill(checked.order.plan, close)) ELSE checked
  IN /\ PaperConfig.enabled
     /\ low <= close /\ close <= high
     /\ desk' = IF PositionOpen(filled) THEN CandleExit(filled, t, low, high, close) ELSE filled
     /\ time' = t
     /\ UNCHANGED latest

(* shutdown, at the time the runtime was last updated: the pending order    *)
(* goes, the position is closed at the last price when the configuration    *)
(* says so.                                                                 *)
ShutdownAt(d, t) ==
  LET cancelled == IF OrderPending(d) /\ AcceptsUpdate(d.order.plan, t) THEN Cancelled(d) ELSE d
  IN IF PositionOpen(d) /\ PaperConfig.closeAtEnd
       THEN Closed(cancelled, t, IF latest = None THEN d.position.last ELSE latest, "system_shutdown")
       ELSE cancelled

ShutdownPaper(t) ==
  /\ desk' = ShutdownAt(desk, t)
  /\ UNCHANGED <<latest, time>>

ResetPaper ==
  /\ desk' = EmptyDesk
  /\ latest' = None
  /\ UNCHANGED time

-----------------------------------------------------------------------------
(* Every order the engine created is pending, withdrawn, expired or filled, *)
(* every position it opened is open or booked exactly once, and a plan is   *)
(* traded once.  (Counters, orders, positions and records of                *)
(* engines/paper_trading/engine.py agree, whatever raised in between.)      *)
EveryOrderAccountedFor ==
  LET c == desk.counts IN
  /\ c.created = Cardinality(desk.processed)
  /\ c.created = c.triggered + c.cancelled + c.expired + (IF OrderPending(desk) THEN 1 ELSE 0)
  /\ c.opened = c.closed + (IF PositionOpen(desk) THEN 1 ELSE 0)
  /\ c.closed = Cardinality(desk.records)
  /\ \A r, s \in desk.records : r.plan.id = s.plan.id => r = s
  /\ \A r \in desk.records : r.plan.id \in desk.processed

(* A paper result is never better than the market allowed: no entry better  *)
(* than the plan's, a stop no better than the stop, no exit but a shutdown's *)
(* (at the last tick, which a candle fill may be newer than) beyond the     *)
(* target, and no position is left open past a level at a tick, unless the tick *)
(* is stamped before the position was opened, which nothing can close.      *)
(* (_entry_fill, _stop_exit_price, _check_position_exit, _close_position.)  *)
ResultsNeverFlatter ==
  /\ \A r \in desk.records :
       LET Worse(a, b) == IF Bullish(r.plan) THEN a <= b ELSE a >= b IN
       /\ Worse(r.plan.entry, r.entry)
       /\ r.type # "system_shutdown" => Worse(r.exit, r.plan.target)
       /\ r.type = "stop_loss" => Worse(r.exit, r.plan.stop)
       /\ r.type = "target" => r.exit = r.plan.target
       /\ r.opened <= r.at
  /\ PositionOpen(desk) =>
       \/ SoundPosition(desk.position.plan, desk.position.last)
       \/ desk.position.lastAt < desk.position.at

(* The paper books of a symbol are complete and do not flatter.             *)
PaperBooksAreHonest == EveryOrderAccountedFor /\ ResultsNeverFlatter
=============================================================================
