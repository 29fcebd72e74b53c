---------------------------- MODULE FuturesVWAPV1 ----------------------------
(***************************************************************************)
(* The futures proxy of the desk: a VWAP for each index from the traded    *)
(* volume of its nearest futures contract.  The broker's ticks carry the   *)
(* volume of the day so far; the manager feeds the VWAP engine the volume  *)
(* since the last tick, on top of the candles of the day it loaded as      *)
(* history.  The engine counts before it tells its subscribers, and the     *)
(* manager copies the engine's total only after they all returned: a        *)
(* subscriber that raises leaves the copy behind.  The ticks of the index   *)
(* itself, which carry no volume, are left out.                             *)
(***************************************************************************)
EXTENDS NoneValue, Integers, FiniteSets

CONSTANTS
  Underlyings,  \* the indices
  MaxTraded,    \* bound on the volume traded in a day
  MaxDay        \* bound on the trading days

ASSUME BoundsOfTheProxy ==
  MaxTraded \in Nat /\ MaxDay \in Nat /\ None \notin 0..MaxTraded

VARIABLES
  proxy,  \* [started, stopped]: the manager
  fut,    \* underlying -> its futures state
  traded, \* underlying -> volume traded today at the exchange, external
  today,  \* the trading day
  unheard \* underlying -> history variable, read by no guard: the volume of the
          \* day that the engine held, after an error, while the manager knew of none

proxyVars == <<proxy, fut, traded, today, unheard>>

(* `last` is last_cumulative_live_volume, `cum` the manager's copy of the    *)
(* engine's volume, `acc` and `on` that volume and the engine's date.        *)
FuturesState ==
  [contract: BOOLEAN, owned: BOOLEAN, streamed: BOOLEAN, attempted: BOOLEAN,
   error: BOOLEAN, last: {None} \cup 0..MaxTraded, cum: Nat, acc: Nat, on: 0..MaxDay]

NoFutures == [contract |-> FALSE, owned |-> FALSE, streamed |-> FALSE, attempted |-> FALSE,
              error |-> FALSE, last |-> None, cum |-> 0, acc |-> 0, on |-> 0]

ProxyInit ==
  /\ proxy = [started |-> FALSE, stopped |-> FALSE]
  /\ fut = [u \in Underlyings |-> NoFutures]
  /\ traded = [u \in Underlyings |-> 0]
  /\ today = 0
  /\ unheard = [u \in Underlyings |-> 0]

(* The VWAP engine begins anew on a later trading date. *)
Held(f) == IF f.on < today THEN 0 ELSE f.acc

Accumulated(f, volume) == [f EXCEPT !.acc = Held(f) + volume, !.on = today]

-----------------------------------------------------------------------------
(* The history of the day: nothing yet to load, a failing request, or the   *)
(* candles up to some moment.  The volume of a candle is noted, then fed to  *)
(* the engine, then heard of by the manager.  A candle that the engine       *)
(* refuses, or counts while a subscriber raises, ends the loading.           *)
LoadsOf(u) ==
  {c \in [noted: 0..traded[u], fed: 0..traded[u], heard: 0..traded[u]] :
     c.heard <= c.fed /\ c.fed <= c.noted /\ c.fed \in {c.heard, c.noted}}

Fed(f, c) == IF c.fed > 0 THEN Accumulated(f, c.fed) ELSE f

Seeded(f, c) ==
  [Fed(f, c) EXCEPT !.attempted = TRUE, !.error = @ \/ c.heard < c.noted,
                    !.cum = IF c.heard > 0 THEN Held(f) + c.heard ELSE @,
                    !.last = IF c.noted > 0 THEN c.noted ELSE @]

(* The history fed to the engine and not noted as seen. *)
SeededUnnoted(f, c) ==
  [Fed(f, c) EXCEPT !.attempted = TRUE, !.error = @ \/ c.heard < c.noted,
                    !.cum = IF c.heard > 0 THEN Held(f) + c.heard ELSE @]

Seed(f, c) == Seeded(f, c)

(* Not yet a completed minute, a clock or a request that fails, or candles. *)
Bootstraps(f, u) ==
  IF f.attempted \/ f.cum > 0 THEN {f}
  ELSE {f, [f EXCEPT !.error = TRUE], [f EXCEPT !.attempted = TRUE, !.error = TRUE]}
         \cup {Seed(f, c) : c \in LoadsOf(u)}

-----------------------------------------------------------------------------
(* start(): every contract that is found is owned, even when its history    *)
(* fails; one request subscribes them all, and a failure disowns them all.  *)
Discovered(u) == {[fut[u] EXCEPT !.error = TRUE]}
                   \cup Bootstraps([fut[u] EXCEPT !.contract = TRUE, !.owned = TRUE], u)

StartProxy ==
  /\ ~proxy.started
  /\ proxy' = [started |-> TRUE, stopped |-> FALSE]
  /\ \E subscribes \in BOOLEAN :
       \E found \in [Underlyings -> UNION {Discovered(u) : u \in Underlyings}] :
         /\ \A u \in Underlyings : found[u] \in Discovered(u)
         /\ fut' = [u \in Underlyings |->
                      IF ~found[u].owned THEN found[u]
                      ELSE IF subscribes THEN [found[u] EXCEPT !.streamed = TRUE]
                      ELSE [found[u] EXCEPT !.owned = FALSE, !.error = TRUE]]
  /\ UNCHANGED <<traded, today, unheard>>

(* stop(): a refused unsubscription leaves the manager running. *)
StopProxy ==
  /\ proxy.started /\ ~proxy.stopped
  /\ proxy' = [proxy EXCEPT !.stopped = TRUE]
  /\ fut' = [u \in Underlyings |-> IF fut[u].owned THEN [fut[u] EXCEPT !.streamed = FALSE]
                                   ELSE fut[u]]
  /\ UNCHANGED <<traded, today, unheard>>

-----------------------------------------------------------------------------
(* _incremental_live_volume(): what the tick adds, and what is noted. *)
Delta(f, volume) ==
  IF f.last = None THEN volume ELSE IF volume <= f.last THEN 0 ELSE volume - f.last

(* A row that cannot be read, or that the engine refuses, is an error; the  *)
(* volume of a row whose timestamp or engine fails was noted before, and     *)
(* counted when it was a subscriber of the engine that raised.  A tick equal *)
(* to the engine's last one is dropped by it, and the total copied.          *)
TickedFrom(f, volume) ==
  LET d       == Delta(f, volume)
      noted   == [f EXCEPT !.last = IF d = 0 THEN @ ELSE volume]
      counted == Accumulated(noted, d)
  IN {[f EXCEPT !.error = TRUE], [noted EXCEPT !.error = TRUE]}
       \cup (IF d = 0 THEN {f}
             ELSE {[counted EXCEPT !.error = TRUE],
                   [counted EXCEPT !.error = FALSE, !.cum = counted.acc]})
       \cup (IF d > 0 /\ Held(f) > 0 THEN {[noted EXCEPT !.error = FALSE, !.cum = f.acc]} ELSE {})

Unheard(f, before) ==
  IF f.error /\ ~f.attempted /\ f.cum = 0 THEN Held(f) ELSE before

(* _bootstrap_before_first_live_tick() marks a failed loading as attempted. *)
BeforeFirstTick(f, u) ==
  {IF b.error /\ ~f.error THEN [b EXCEPT !.attempted = TRUE] ELSE b : b \in Bootstraps(f, u)}

(* deliver_futures_ticks() with one row, perhaps an old one. *)
DeliverFuturesTick ==
  \E u \in Underlyings :
    /\ proxy.started /\ ~proxy.stopped
    /\ fut[u].owned /\ fut[u].contract
    /\ \E volume \in 1..traded[u] :
         \E before \in BeforeFirstTick(fut[u], u) :
           \E after \in TickedFrom(before, volume) :
             /\ fut' = [fut EXCEPT ![u] = after]
             /\ unheard' = [unheard EXCEPT ![u] = Unheard(after, @)]
    /\ UNCHANGED <<proxy, traded, today>>

(* The reset of the symbol's runtime clears the engine, not the manager. *)
ResetRuntime ==
  \E u \in Underlyings :
    /\ fut' = [fut EXCEPT ![u].acc = 0]
    /\ unheard' = [unheard EXCEPT ![u] = 0]
    /\ UNCHANGED <<proxy, traded, today>>

-----------------------------------------------------------------------------
Trade ==
  \E u \in Underlyings :
    /\ traded[u] < MaxTraded
    /\ traded' = [traded EXCEPT ![u] = @ + 1]
    /\ UNCHANGED <<proxy, fut, today, unheard>>

NextDay ==
  /\ today < MaxDay
  /\ today' = today + 1 /\ traded' = [u \in Underlyings |-> 0]
  /\ unheard' = [u \in Underlyings |-> 0]
  /\ UNCHANGED <<proxy, fut>>

ProxyNext == StartProxy \/ StopProxy \/ DeliverFuturesTick \/ ResetRuntime \/ Trade \/ NextDay

ProxySpec == ProxyInit /\ [][ProxyNext]_proxyVars

-----------------------------------------------------------------------------
ProxyTypeOK ==
  /\ proxy \in [started: BOOLEAN, stopped: BOOLEAN]
  /\ fut \in [Underlyings -> FuturesState]
  /\ traded \in [Underlyings -> 0..MaxTraded]
  /\ unheard \in [Underlyings -> Nat]

(* No traded volume enters the VWAP of a day twice, however the history was *)
(* loaded, cut short or refused, whatever ticks come late, twice or out of   *)
(* order, and whichever of them raise after the engine has counted them      *)
(* (_process_vwap_tick, _incremental_live_volume), with one exception: a     *)
(* history that is first loaded, at 09:16 or later, over ticks of which none *)
(* was heard of because each raised (`cumulative_volume > 0` is then no      *)
(* sign of them) counts at most what those ticks had counted again.          *)
VolumeCountedOnce ==
  \A u \in Underlyings :
    fut[u].on = today =>
      fut[u].acc <= traded[u] + (IF fut[u].attempted THEN unheard[u] ELSE 0)
=============================================================================
