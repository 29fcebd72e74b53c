--------------------------- MODULE MarketData_proofs ---------------------------
(***************************************************************************)
(* Proofs about what brings the market's prices in: the futures proxy, the *)
(* desktop's option chain manager, the live feed, the option chain of one  *)
(* underlying, the candles of a symbol with what warms them up, and the    *)
(* price action engine that reads them.                                    *)
(***************************************************************************)
EXTENDS FuturesVWAPV1, DesktopOptionChainV1, LiveFeedV1, OptionChainFeedV1, HistoricalWarmupV1,
        FiniteSetTheorems, SequenceTheorems, TLAPS

-----------------------------------------------------------------------------
(* The futures proxy.                                                       *)

(* What the engine counts today was seen in the broker's volume of the day:  *)
(* at most the last volume noted, and nothing before the first, but for what *)
(* a history was loaded over.                                               *)
Excess(f, over) == IF f.attempted THEN over ELSE 0

Seen(f, volume, day, over) ==
  /\ f.on <= day
  /\ f.on = day => /\ f.acc <= volume + Excess(f, over)
                   /\ f.last = None => f.acc = 0
                   /\ f.last # None => f.acc <= f.last + Excess(f, over)

(* While the manager knows of no volume and may still load the history, what *)
(* the engine counts is what the history would be loaded over.               *)
Unknown(f, day, over) ==
  f.on = day /\ ~f.attempted /\ f.cum = 0 => f.acc <= over

Accounted(f, volume, day, over) == Seen(f, volume, day, over) /\ Unknown(f, day, over)

ProxyIInv ==
  /\ today \in 0..MaxDay
  /\ traded \in [Underlyings -> 0..MaxTraded]
  /\ unheard \in [Underlyings -> Nat]
  /\ fut \in [Underlyings -> FuturesState]
  /\ \A u \in Underlyings : Accounted(fut[u], traded[u], today, unheard[u])

(* Neither part reads more of the state than these five fields. *)
LEMMA SameVolumesSound ==
  ASSUME NEW f, NEW g, NEW volume, NEW day, NEW over,
         g.on = f.on, g.acc = f.acc, g.last = f.last, g.cum = f.cum, g.attempted = f.attempted,
         Accounted(f, volume, day, over)
  PROVE  Accounted(g, volume, day, over)
BY DEF Accounted, Seen, Unknown, Excess

LEMMA HeldIsNat ==
  ASSUME NEW f \in FuturesState
  PROVE  /\ Held(f) \in Nat
         /\ f.on < today => Held(f) = 0
         /\ f.on = today => Held(f) = f.acc
BY DEF Held, FuturesState

LEMMA AccumulatedFields ==
  ASSUME NEW f \in FuturesState, today \in 0..MaxDay, NEW fed \in Nat
  PROVE  /\ Accumulated(f, fed) \in FuturesState
         /\ Accumulated(f, fed).on = today
         /\ Accumulated(f, fed).acc = Held(f) + fed
         /\ Accumulated(f, fed).last = f.last
         /\ Accumulated(f, fed).cum = f.cum
         /\ Accumulated(f, fed).attempted = f.attempted
         /\ Accumulated(f, fed).owned = f.owned
<1> DEFINE total == Held(f) + fed
<1>1. total \in Nat
  BY HeldIsNat
<1>2. Accumulated(f, fed) = [f EXCEPT !.acc = total, !.on = today]
  BY DEF Accumulated
<1> HIDE DEF total
<1>3. /\ Accumulated(f, fed) \in FuturesState
      /\ Accumulated(f, fed).on = today
      /\ Accumulated(f, fed).acc = total
      /\ Accumulated(f, fed).last = f.last
      /\ Accumulated(f, fed).cum = f.cum
      /\ Accumulated(f, fed).attempted = f.attempted
      /\ Accumulated(f, fed).owned = f.owned
  BY <1>1, <1>2 DEF FuturesState
<1> QED BY <1>3 DEF total

Loads(f, u, over) ==
  f \in FuturesState /\ traded[u] \in 0..MaxTraded /\ today \in 0..MaxDay /\ over \in Nat
  /\ Accounted(f, traded[u], today, over)

(* The fields of a loaded history, however far its candles were fed. *)
LEMMA SeededFields ==
  ASSUME NEW f \in FuturesState, today \in 0..MaxDay, NEW u, traded[u] \in 0..MaxTraded,
         NEW c \in LoadsOf(u)
  PROVE  /\ c.noted \in 0..MaxTraded /\ c.fed \in Nat /\ c.fed <= c.noted /\ c.noted <= traded[u]
         /\ Seed(f, c) \in FuturesState
         /\ Seed(f, c).attempted /\ Seed(f, c).owned = f.owned
         /\ Seed(f, c).last = IF c.noted > 0 THEN c.noted ELSE f.last
         /\ c.fed = 0 => Seed(f, c).on = f.on /\ Seed(f, c).acc = f.acc
         /\ c.fed > 0 => Seed(f, c).on = today /\ Seed(f, c).acc = Held(f) + c.fed
<1> DEFINE a == Fed(f, c)
           short == a.error \/ c.heard < c.noted
           told == IF c.heard > 0 THEN Held(f) + c.heard ELSE a.cum
           seen == IF c.noted > 0 THEN c.noted ELSE a.last
<1>1. /\ c.noted \in 0..MaxTraded /\ c.fed \in Nat /\ c.heard \in Nat
      /\ c.fed <= c.noted /\ c.noted <= traded[u]
  BY BoundsOfTheProxy DEF LoadsOf
<1>2. /\ a \in FuturesState /\ a.last = f.last /\ a.cum = f.cum /\ a.owned = f.owned
      /\ c.fed = 0 => a.on = f.on /\ a.acc = f.acc
      /\ c.fed > 0 => a.on = today /\ a.acc = Held(f) + c.fed
  <2>1. CASE c.fed > 0
    <3>1. a = Accumulated(f, c.fed)
      BY <2>1 DEF Fed
    <3> DEFINE g == Accumulated(f, c.fed)
    <3>2. /\ g \in FuturesState /\ g.on = today /\ g.acc = Held(f) + c.fed
          /\ g.last = f.last /\ g.cum = f.cum /\ g.owned = f.owned
      BY <1>1, AccumulatedFields, Zenon
    <3> HIDE DEF a, g
    <3> QED BY <1>1, <2>1, <3>1, <3>2 DEF g
  <2>2. CASE ~(c.fed > 0)
    <3>1. a = f /\ c.fed = 0
      BY <1>1, <2>2 DEF Fed
    <3> QED BY <3>1
  <2> QED BY <2>1, <2>2
<1>3. short \in BOOLEAN /\ told \in Nat /\ seen \in {None} \cup 0..MaxTraded
  BY <1>1, <1>2, HeldIsNat DEF FuturesState
<1>4. Seed(f, c) = [a EXCEPT !.attempted = TRUE, !.error = short, !.cum = told, !.last = seen]
  BY <1>2 DEF Seed, Seeded, FuturesState
<1> HIDE DEF a, short, told, seen
<1>5. /\ Seed(f, c) \in FuturesState /\ Seed(f, c).attempted
      /\ Seed(f, c).owned = a.owned /\ Seed(f, c).on = a.on /\ Seed(f, c).acc = a.acc
      /\ Seed(f, c).last = seen
  BY <1>2, <1>3, <1>4 DEF FuturesState
<1> QED BY <1>1, <1>2, <1>5 DEF seen

(* The history leaves its volume seen, but for what it was loaded over.     *)
LEMMA SeedingIsSound ==
  ASSUME NEW f, NEW u, NEW over, Loads(f, u, over), ~f.attempted, f.cum = 0,
         NEW c \in LoadsOf(u)
  PROVE  Loads(Seed(f, c), u, over) /\ Seed(f, c).owned = f.owned
<1> DEFINE s == Seed(f, c)
<1>1. /\ f \in FuturesState /\ traded[u] \in 0..MaxTraded /\ today \in 0..MaxDay /\ over \in Nat
      /\ Seen(f, traded[u], today, over) /\ Unknown(f, today, over)
  BY DEF Loads, Accounted
<1>2. /\ c.noted \in 0..MaxTraded /\ c.fed \in Nat /\ c.fed <= c.noted /\ c.noted <= traded[u]
      /\ s \in FuturesState /\ s.attempted /\ s.owned = f.owned
      /\ s.last = IF c.noted > 0 THEN c.noted ELSE f.last
      /\ c.fed = 0 => s.on = f.on /\ s.acc = f.acc
      /\ c.fed > 0 => s.on = today /\ s.acc = Held(f) + c.fed
  BY <1>1, SeededFields
<1> HIDE DEF s
<1>3. /\ f.on \in Nat /\ today \in Nat /\ f.acc \in Nat /\ f.last \in {None} \cup 0..MaxTraded
      /\ MaxTraded \in Nat /\ None \notin 0..MaxTraded /\ traded[u] \in Nat
  BY <1>1, BoundsOfTheProxy DEF FuturesState
<1>4. f.on <= today /\ (f.on = today => f.acc <= over /\ (f.last = None => f.acc = 0))
  BY <1>1 DEF Seen, Unknown
<1>5. Excess(s, over) = over
  BY <1>2 DEF Excess
<1>6. CASE c.fed = 0
  <2>1. s.on <= today
    BY <1>2, <1>4, <1>6
  <2>2. ASSUME s.on = today
        PROVE  s.acc <= traded[u] + over /\ (s.last = None => s.acc = 0)
               /\ (s.last # None => s.acc <= s.last + over)
    <3>1. s.acc = f.acc /\ f.acc <= over /\ (f.last = None => f.acc = 0)
      BY <1>2, <1>4, <1>6, <2>2
    <3>2. s.last # None => s.last \in Nat
      BY <1>2, <1>3
    <3>3. s.last = None => f.last = None
      BY <1>2, <1>3
    <3> QED BY <1>1, <1>3, <3>1, <3>2, <3>3
  <2>3. Seen(s, traded[u], today, over)
    BY <1>5, <2>1, <2>2 DEF Seen
  <2> QED BY <1>1, <1>2, <2>3 DEF Loads, Accounted, Unknown, s
<1>7. CASE c.fed > 0
  <2>1. Held(f) \in Nat /\ Held(f) <= over
    BY <1>1, <1>3, <1>4, HeldIsNat
  <2>2. s.on = today /\ s.acc = Held(f) + c.fed /\ s.last = c.noted /\ s.last # None
    BY <1>2, <1>3, <1>7
  <2>3. s.acc <= c.noted + over /\ s.acc <= traded[u] + over
    BY <1>1, <1>2, <1>3, <2>1, <2>2
  <2>4. Seen(s, traded[u], today, over)
    BY <1>3, <1>5, <2>2, <2>3 DEF Seen
  <2> QED BY <1>1, <1>2, <2>4 DEF Loads, Accounted, Unknown, s
<1> QED BY <1>2, <1>6, <1>7

LEMMA BootstrapIsSound ==
  ASSUME NEW f, NEW u, NEW over, Loads(f, u, over), NEW b \in Bootstraps(f, u)
  PROVE  Loads(b, u, over) /\ b.owned = f.owned
<1>0. f \in FuturesState
  BY DEF Loads
<1>1. CASE b \in {f, [f EXCEPT !.error = TRUE]}
  <2>1. /\ b \in FuturesState /\ b.on = f.on /\ b.acc = f.acc /\ b.last = f.last
        /\ b.cum = f.cum /\ b.attempted = f.attempted /\ b.owned = f.owned
    BY <1>0, <1>1 DEF FuturesState
  <2>2. Accounted(f, traded[u], today, over)
    BY DEF Loads
  <2>3. Accounted(b, traded[u], today, over)
    BY <2>1, <2>2, SameVolumesSound
  <2> QED BY <2>1, <2>3 DEF Loads
<1>2. CASE b = [f EXCEPT !.attempted = TRUE, !.error = TRUE]
  <2>1. /\ b \in FuturesState /\ b.on = f.on /\ b.acc = f.acc /\ b.last = f.last
        /\ b.attempted /\ b.owned = f.owned
    BY <1>0, <1>2 DEF FuturesState
  <2>2. /\ f.acc \in Nat /\ traded[u] \in Nat /\ over \in Nat /\ f.last \in {None} \cup 0..MaxTraded
        /\ Seen(f, traded[u], today, over)
    BY <1>0, BoundsOfTheProxy DEF Loads, Accounted, FuturesState
  <2>3. Excess(b, over) = over /\ Excess(f, over) \in 0..over
    BY <2>1, <2>2 DEF Excess
  <2>4. Seen(b, traded[u], today, over)
    BY <2>1, <2>2, <2>3, BoundsOfTheProxy DEF Seen
  <2> QED BY <2>1, <2>4 DEF Loads, Accounted, Unknown
<1>3. CASE b \notin {f, [f EXCEPT !.error = TRUE], [f EXCEPT !.attempted = TRUE, !.error = TRUE]}
  <2>1. ~(f.attempted \/ f.cum > 0)
    BY <1>3 DEF Bootstraps
  <2>2. PICK c \in LoadsOf(u) : b = Seed(f, c)
    BY <1>3, <2>1 DEF Bootstraps
  <2>3. ~f.attempted /\ f.cum = 0
    BY <1>0, <2>1 DEF FuturesState
  <2> QED BY <2>2, <2>3, SeedingIsSound
<1> QED BY <1>1, <1>2, <1>3

(* A failed loading that is marked as attempted is one of the loadings. *)
LEMMA BeforeFirstTickIsSound ==
  ASSUME NEW f, NEW u, NEW over, Loads(f, u, over), NEW b \in BeforeFirstTick(f, u)
  PROVE  Loads(b, u, over)
<1>1. PICK c \in Bootstraps(f, u) : b = (IF c.error /\ ~f.error THEN [c EXCEPT !.attempted = TRUE] ELSE c)
  BY DEF BeforeFirstTick
<1>2. Loads(c, u, over)
  BY BootstrapIsSound
<1>3. CASE b = c
  BY <1>2, <1>3
<1>4. CASE b = [c EXCEPT !.attempted = TRUE]
  <2>1. b \in FuturesState /\ b.on = c.on /\ b.acc = c.acc /\ b.last = c.last /\ b.attempted
    BY <1>2, <1>4 DEF Loads, FuturesState
  <2>2. /\ c.acc \in Nat /\ traded[u] \in Nat /\ over \in Nat /\ c.last \in {None} \cup 0..MaxTraded
        /\ Seen(c, traded[u], today, over)
    BY <1>2, BoundsOfTheProxy DEF Loads, Accounted, FuturesState
  <2>3. Excess(b, over) = over /\ Excess(c, over) \in 0..over
    BY <2>1, <2>2 DEF Excess
  <2>4. Seen(b, traded[u], today, over)
    BY <2>1, <2>2, <2>3, BoundsOfTheProxy DEF Seen
  <2> QED BY <1>2, <2>1, <2>4 DEF Loads, Accounted, Unknown
<1> QED BY <1>1, <1>3, <1>4

(* What was counted while the manager knew of nothing enters the history    *)
(* variable with the error.                                                 *)
LEMMA UnheardIsTold ==
  ASSUME NEW f \in FuturesState, NEW u, NEW over \in Nat,
         traded[u] \in 0..MaxTraded, today \in 0..MaxDay,
         Seen(f, traded[u], today, over), ~f.error => Unknown(f, today, over)
  PROVE  Loads(f, u, Unheard(f, over)) /\ Unheard(f, over) \in Nat
<1>1. CASE f.error /\ ~f.attempted /\ f.cum = 0
  <2>1. Unheard(f, over) = Held(f) /\ Held(f) \in Nat /\ (f.on = today => Held(f) = f.acc)
    BY <1>1, HeldIsNat DEF Unheard
  <2>2. Seen(f, traded[u], today, Held(f))
    BY <1>1 DEF Seen, Excess
  <2>3. Unknown(f, today, Held(f))
    BY <2>1 DEF Unknown, FuturesState
  <2> QED BY <2>1, <2>2, <2>3 DEF Loads, Accounted
<1>2. CASE ~(f.error /\ ~f.attempted /\ f.cum = 0)
  <2>1. Unheard(f, over) = over
    BY <1>2 DEF Unheard
  <2>2. Unknown(f, today, over)
    BY <1>2 DEF Unknown
  <2> QED BY <2>1, <2>2 DEF Loads, Accounted
<1> QED BY <1>1, <1>2

(* What a tick adds was traded since the last volume noted, whether or not  *)
(* the manager hears of it.                                                 *)
LEMMA TickIsSound ==
  ASSUME NEW f, NEW u, NEW over, Loads(f, u, over),
         NEW volume \in 1..traded[u], NEW after \in TickedFrom(f, volume)
  PROVE  Loads(after, u, Unheard(after, over)) /\ Unheard(after, over) \in Nat
<1> DEFINE d == Delta(f, volume)
           noted == [f EXCEPT !.last = IF d = 0 THEN @ ELSE volume]
           counted == Accumulated(noted, d)
<1>1. /\ f \in FuturesState /\ traded[u] \in 0..MaxTraded /\ today \in 0..MaxDay /\ over \in Nat
      /\ Seen(f, traded[u], today, over) /\ Unknown(f, today, over)
  BY DEF Loads, Accounted
<1>2. /\ f.last \in {None} \cup 0..MaxTraded /\ f.acc \in Nat /\ f.on \in Nat /\ f.cum \in Nat
      /\ today \in Nat /\ MaxTraded \in Nat /\ None \notin 0..MaxTraded /\ traded[u] \in Nat
  BY <1>1, BoundsOfTheProxy DEF FuturesState
<1>3. volume \in 0..MaxTraded /\ volume > 0 /\ volume <= traded[u]
  BY <1>1, <1>2
<1>4. /\ d \in Nat
      /\ f.last = None => d = volume
      /\ f.last # None /\ d # 0 => d = volume - f.last /\ f.last < volume
  BY <1>2, <1>3 DEF Delta
<1>5. /\ noted \in FuturesState /\ noted.on = f.on /\ noted.acc = f.acc /\ noted.cum = f.cum
      /\ noted.attempted = f.attempted /\ noted.last = IF d = 0 THEN f.last ELSE volume
  <2> HIDE DEF d
  <2> QED BY <1>1, <1>3 DEF FuturesState
<1> HIDE DEF d, noted
<1>6. /\ counted \in FuturesState /\ counted.on = today /\ counted.acc = Held(noted) + d
      /\ counted.last = noted.last /\ counted.cum = f.cum /\ counted.attempted = f.attempted
  BY <1>1, <1>4, <1>5, AccumulatedFields
<1> HIDE DEF counted
<1>7. Excess(f, over) \in Nat
  BY <1>1 DEF Excess
<1>8. /\ f.on <= today
      /\ f.on = today => /\ f.acc <= traded[u] + Excess(f, over)
                         /\ f.last = None => f.acc = 0
                         /\ f.last # None => f.acc <= f.last + Excess(f, over)
  BY <1>1 DEF Seen
<1>9. ASSUME d # 0, f.on = today
      PROVE  f.acc + d <= volume + Excess(f, over)
  <2>1. CASE f.last = None
    BY <1>2, <1>3, <1>4, <1>7, <1>8, <1>9, <2>1
  <2>2. CASE f.last # None
    <3>1. f.last \in Nat /\ volume \in Nat
      BY <1>2, <1>3, <2>2
    <3> QED BY <1>2, <1>4, <1>7, <1>8, <1>9, <2>2, <3>1
  <2> QED BY <2>1, <2>2
<1>10. Seen(noted, traded[u], today, over)
  <2>1. CASE d = 0
    BY <1>1, <1>5, <2>1 DEF Seen, Excess
  <2>2. CASE d # 0
    <3>1. noted.last = volume /\ volume # None /\ noted.on <= today /\ Excess(noted, over) = Excess(f, over)
      BY <1>2, <1>3, <1>5, <1>8, <2>2 DEF Excess
    <3>2. f.on = today => f.acc <= volume + Excess(f, over)
      BY <1>2, <1>3, <1>4, <1>7, <1>9, <2>2
    <3> QED BY <1>5, <1>8, <3>1, <3>2 DEF Seen
  <2> QED BY <2>1, <2>2
<1>11. d # 0 => Seen(counted, traded[u], today, over) /\ counted.acc > 0
  <2> SUFFICES ASSUME d # 0 PROVE Seen(counted, traded[u], today, over) /\ counted.acc > 0
    OBVIOUS
  <2>1. counted.last = volume /\ volume # None /\ Excess(counted, over) = Excess(f, over)
    BY <1>2, <1>3, <1>5, <1>6 DEF Excess
  <2>2. Held(noted) \in Nat /\ (f.on < today => Held(noted) = 0) /\ (f.on = today => Held(noted) = f.acc)
    BY <1>5, HeldIsNat
  <2>3. d <= volume
    BY <1>2, <1>3, <1>4
  <2>4. counted.acc <= volume + Excess(f, over) /\ counted.acc > 0 /\ counted.acc \in Nat
    BY <1>2, <1>3, <1>4, <1>6, <1>7, <1>8, <1>9, <2>2, <2>3
  <2>5. counted.acc <= traded[u] + Excess(f, over)
    BY <1>2, <1>3, <1>7, <2>4
  <2> QED BY <1>2, <1>6, <2>1, <2>4, <2>5 DEF Seen
<1>12. CASE after \in {[f EXCEPT !.error = TRUE], f}
  <2>1. /\ after \in FuturesState /\ after.on = f.on /\ after.acc = f.acc /\ after.last = f.last
        /\ after.cum = f.cum /\ after.attempted = f.attempted
    BY <1>1, <1>12 DEF FuturesState
  <2>2. Accounted(after, traded[u], today, over)
    BY <1>1, <2>1, SameVolumesSound DEF Accounted
  <2> QED BY <1>1, <2>1, <2>2, UnheardIsTold DEF Accounted
<1>13. CASE after = [noted EXCEPT !.error = TRUE]
  <2>1. /\ after \in FuturesState /\ after.on = noted.on /\ after.acc = noted.acc
        /\ after.last = noted.last /\ after.attempted = noted.attempted /\ after.error
    BY <1>5, <1>13 DEF FuturesState
  <2>2. Seen(after, traded[u], today, over)
    BY <1>10, <2>1 DEF Seen, Excess
  <2> QED BY <1>1, <2>1, <2>2, UnheardIsTold
<1>14. CASE d # 0 /\ after = [counted EXCEPT !.error = TRUE]
  <2>1. /\ after \in FuturesState /\ after.on = counted.on /\ after.acc = counted.acc
        /\ after.last = counted.last /\ after.attempted = counted.attempted /\ after.error
    BY <1>6, <1>14 DEF FuturesState
  <2>2. Seen(after, traded[u], today, over)
    BY <1>11, <1>14, <2>1 DEF Seen, Excess
  <2> QED BY <1>1, <2>1, <2>2, UnheardIsTold
<1>15. CASE d # 0 /\ after = [counted EXCEPT !.error = FALSE, !.cum = counted.acc]
  <2>1. /\ after \in FuturesState /\ after.on = counted.on /\ after.acc = counted.acc
        /\ after.last = counted.last /\ after.attempted = counted.attempted
        /\ after.cum = counted.acc
    BY <1>6, <1>15 DEF FuturesState
  <2>2. Seen(after, traded[u], today, over)
    BY <1>11, <1>15, <2>1 DEF Seen, Excess
  <2>3. Unknown(after, today, over)
    BY <1>11, <1>15, <2>1 DEF Unknown
  <2> QED BY <1>1, <2>1, <2>2, <2>3, UnheardIsTold
<1>16. CASE Held(f) > 0 /\ after = [noted EXCEPT !.error = FALSE, !.cum = f.acc]
  <2>1. /\ after \in FuturesState /\ after.on = noted.on /\ after.acc = noted.acc
        /\ after.last = noted.last /\ after.attempted = noted.attempted
        /\ after.cum = f.acc
    BY <1>2, <1>5, <1>16 DEF FuturesState
  <2>2. Seen(after, traded[u], today, over)
    BY <1>10, <2>1 DEF Seen, Excess
  <2>3. after.cum # 0
    BY <1>1, <1>2, <1>8, <1>16, <2>1, HeldIsNat
  <2>4. Unknown(after, today, over)
    BY <2>3 DEF Unknown
  <2> QED BY <1>1, <2>1, <2>2, <2>4, UnheardIsTold
<1>17. \/ after \in {[f EXCEPT !.error = TRUE], f}
       \/ after = [noted EXCEPT !.error = TRUE]
       \/ d # 0 /\ after = [counted EXCEPT !.error = TRUE]
       \/ d # 0 /\ after = [counted EXCEPT !.error = FALSE, !.cum = counted.acc]
       \/ Held(f) > 0 /\ after = [noted EXCEPT !.error = FALSE, !.cum = f.acc]
  BY DEF TickedFrom, d, noted, counted
<1> QED BY <1>12, <1>13, <1>14, <1>15, <1>16, <1>17

LEMMA DiscoveryIsSound ==
  ASSUME NEW u \in Underlyings, Loads(fut[u], u, unheard[u]), NEW found \in Discovered(u)
  PROVE  Loads(found, u, unheard[u])
<1> DEFINE f == [fut[u] EXCEPT !.contract = TRUE, !.owned = TRUE]
           g == [fut[u] EXCEPT !.error = TRUE]
<1>1. fut[u] \in FuturesState /\ Accounted(fut[u], traded[u], today, unheard[u])
  BY DEF Loads
<1>2. \A h \in {f, g} :
         /\ h \in FuturesState /\ h.on = fut[u].on /\ h.acc = fut[u].acc /\ h.last = fut[u].last
         /\ h.cum = fut[u].cum /\ h.attempted = fut[u].attempted
  BY <1>1 DEF FuturesState
<1> HIDE DEF f, g
<1>3. \A h \in {f, g} : Loads(h, u, unheard[u])
  <2>1. ASSUME NEW h \in {f, g} PROVE Loads(h, u, unheard[u])
    <3>1. Accounted(h, traded[u], today, unheard[u])
      BY <1>1, <1>2, SameVolumesSound
    <3> QED BY <1>2, <3>1 DEF Loads
  <2> QED BY <2>1
<1>4. found = g \/ found \in Bootstraps(f, u)
  BY DEF Discovered, f, g
<1> QED BY <1>3, <1>4, BootstrapIsSound

LEMMA ProxyInitIsSound == ProxyInit => ProxyIInv
BY BoundsOfTheProxy DEF ProxyInit, ProxyIInv, NoFutures, FuturesState, Accounted, Seen, Unknown, Excess

LEMMA ProxyStepIsSound == ProxyIInv /\ [ProxyNext]_proxyVars => ProxyIInv'
<1> SUFFICES ASSUME ProxyIInv, [ProxyNext]_proxyVars PROVE ProxyIInv'
  OBVIOUS
<1>1. \A u \in Underlyings : Loads(fut[u], u, unheard[u])
  BY DEF ProxyIInv, Loads
<1>2. ASSUME UNCHANGED <<traded, today>>, fut' \in [Underlyings -> FuturesState],
             unheard' \in [Underlyings -> Nat],
             \A u \in Underlyings : Accounted(fut'[u], traded[u], today, unheard'[u])
      PROVE  ProxyIInv'
  <2>1. traded' = traded /\ today' = today
    BY <1>2
  <2> QED BY <1>2, <2>1 DEF ProxyIInv
<1>3. CASE StartProxy
  <2>1. PICK subscribes \in BOOLEAN,
             found \in [Underlyings -> UNION {Discovered(u) : u \in Underlyings}] :
          /\ \A u \in Underlyings : found[u] \in Discovered(u)
          /\ fut' = [u \in Underlyings |->
                       IF ~found[u].owned THEN found[u]
                       ELSE IF subscribes THEN [found[u] EXCEPT !.streamed = TRUE]
                       ELSE [found[u] EXCEPT !.owned = FALSE, !.error = TRUE]]
    BY <1>3 DEF StartProxy
  <2> DEFINE final(u) == IF ~found[u].owned THEN found[u]
                         ELSE IF subscribes THEN [found[u] EXCEPT !.streamed = TRUE]
                         ELSE [found[u] EXCEPT !.owned = FALSE, !.error = TRUE]
  <2>2. \A u \in Underlyings : found[u] \in Discovered(u)
    BY <2>1, Zenon
  <2>3. fut' = [u \in Underlyings |-> final(u)]
    BY <2>1, Zenon
  <2>4. ASSUME NEW u \in Underlyings
        PROVE  final(u) \in FuturesState /\ Accounted(final(u), traded[u], today, unheard[u])
    <3>1. Loads(found[u], u, unheard[u])
      BY <1>1, <2>2, DiscoveryIsSound
    <3>2. found[u] \in FuturesState /\ Accounted(found[u], traded[u], today, unheard[u])
      BY <3>1 DEF Loads
    <3>3. /\ final(u) \in FuturesState /\ final(u).on = found[u].on
          /\ final(u).acc = found[u].acc /\ final(u).last = found[u].last
          /\ final(u).cum = found[u].cum /\ final(u).attempted = found[u].attempted
      <4>1. CASE final(u) = found[u]
        BY <3>2, <4>1
      <4>2. CASE final(u) = [found[u] EXCEPT !.streamed = TRUE]
        BY <3>2, <4>2 DEF FuturesState
      <4>3. CASE final(u) = [found[u] EXCEPT !.owned = FALSE, !.error = TRUE]
        BY <3>2, <4>3 DEF FuturesState
      <4> QED BY <4>1, <4>2, <4>3
    <3> HIDE DEF final
    <3> QED BY <3>2, <3>3, SameVolumesSound
  <2> HIDE DEF final
  <2>5. fut' \in [Underlyings -> FuturesState]
        /\ \A u \in Underlyings : Accounted(fut'[u], traded[u], today, unheard[u])
    BY <2>3, <2>4
  <2>6. UNCHANGED <<traded, today>> /\ unheard' = unheard
    BY <1>3, Zenon DEF StartProxy
  <2>7. unheard' \in [Underlyings -> Nat]
    BY <2>6 DEF ProxyIInv
  <2> QED BY <1>2, <2>5, <2>6, <2>7
<1>4. CASE StopProxy
  <2>1. fut' = [u \in Underlyings |-> IF fut[u].owned THEN [fut[u] EXCEPT !.streamed = FALSE] ELSE fut[u]]
    BY <1>4 DEF StopProxy
  <2>2. ASSUME NEW u \in Underlyings
        PROVE  fut'[u] \in FuturesState /\ Accounted(fut'[u], traded[u], today, unheard[u])
    <3>1. fut[u] \in FuturesState /\ Accounted(fut[u], traded[u], today, unheard[u])
      BY <1>1 DEF Loads
    <3>2. /\ fut'[u] \in FuturesState /\ fut'[u].on = fut[u].on
          /\ fut'[u].acc = fut[u].acc /\ fut'[u].last = fut[u].last
          /\ fut'[u].cum = fut[u].cum /\ fut'[u].attempted = fut[u].attempted
      <4>1. fut'[u] \in {fut[u], [fut[u] EXCEPT !.streamed = FALSE]}
        BY <2>1
      <4> QED BY <3>1, <4>1 DEF FuturesState
    <3> QED BY <3>1, <3>2, SameVolumesSound
  <2>3. fut' \in [Underlyings -> FuturesState]
    BY <2>1, <2>2
  <2>4. UNCHANGED <<traded, today, unheard>>
    BY <1>4 DEF StopProxy
  <2> QED BY <1>2, <2>2, <2>3, <2>4 DEF ProxyIInv
<1>5. CASE DeliverFuturesTick
  <2>1. PICK u \in Underlyings :
          /\ \E volume \in 1..traded[u] : \E before \in BeforeFirstTick(fut[u], u) :
               \E after \in TickedFrom(before, volume) :
                 /\ fut' = [fut EXCEPT ![u] = after]
                 /\ unheard' = [unheard EXCEPT ![u] = Unheard(after, unheard[u])]
    BY <1>5 DEF DeliverFuturesTick, ProxyIInv
  <2>2. PICK volume \in 1..traded[u], before \in BeforeFirstTick(fut[u], u) :
          \E after \in TickedFrom(before, volume) :
            /\ fut' = [fut EXCEPT ![u] = after]
            /\ unheard' = [unheard EXCEPT ![u] = Unheard(after, unheard[u])]
    BY <2>1
  <2>3. PICK after \in TickedFrom(before, volume) :
          /\ fut' = [fut EXCEPT ![u] = after]
          /\ unheard' = [unheard EXCEPT ![u] = Unheard(after, unheard[u])]
    BY <2>2
  <2>4. Loads(before, u, unheard[u])
    BY <1>1, BeforeFirstTickIsSound
  <2>5. Loads(after, u, Unheard(after, unheard[u])) /\ Unheard(after, unheard[u]) \in Nat
    BY <2>4, TickIsSound
  <2>6. /\ fut' \in [Underlyings -> FuturesState] /\ unheard' \in [Underlyings -> Nat]
        /\ \A v \in Underlyings : Accounted(fut'[v], traded[v], today, unheard'[v])
    BY <2>3, <2>5 DEF ProxyIInv, Loads
  <2>7. UNCHANGED <<traded, today>>
    BY <1>5 DEF DeliverFuturesTick
  <2> QED BY <1>2, <2>6, <2>7
<1>6. CASE ResetRuntime
  <2>1. PICK u \in Underlyings :
          /\ fut' = [fut EXCEPT ![u].acc = 0]
          /\ unheard' = [unheard EXCEPT ![u] = 0]
          /\ UNCHANGED <<proxy, traded, today>>
    BY <1>6 DEF ResetRuntime
  <2>2. /\ fut[u] \in FuturesState /\ Seen(fut[u], traded[u], today, unheard[u])
        /\ traded[u] \in 0..MaxTraded
    BY <1>1 DEF Loads, Accounted
  <2>3. /\ fut'[u] \in FuturesState /\ fut'[u].acc = 0 /\ fut'[u].on = fut[u].on
        /\ fut'[u].last = fut[u].last
    BY <2>1, <2>2 DEF ProxyIInv, FuturesState
  <2>4. fut'[u].last # None => fut'[u].last \in Nat
    BY <2>2, <2>3, BoundsOfTheProxy DEF FuturesState
  <2>5. traded[u] \in Nat /\ Excess(fut'[u], 0) = 0 /\ unheard'[u] = 0
    BY <2>1, <2>2, BoundsOfTheProxy DEF Excess, ProxyIInv
  <2>6. Accounted(fut'[u], traded[u], today, unheard'[u])
    BY <2>2, <2>3, <2>4, <2>5 DEF Accounted, Seen, Unknown
  <2>7. /\ fut' \in [Underlyings -> FuturesState] /\ unheard' \in [Underlyings -> Nat]
        /\ \A v \in Underlyings : Accounted(fut'[v], traded[v], today, unheard'[v])
    BY <2>1, <2>3, <2>6 DEF ProxyIInv
  <2> QED BY <1>2, <2>1, <2>7
<1>7. CASE Trade
  <2>1. PICK u \in Underlyings :
          /\ traded[u] < MaxTraded /\ traded' = [traded EXCEPT ![u] = @ + 1]
          /\ UNCHANGED <<proxy, fut, today, unheard>>
    BY <1>7 DEF Trade
  <2>2. fut' = fut /\ today' = today /\ unheard' = unheard
    BY <2>1
  <2>3. traded' \in [Underlyings -> 0..MaxTraded]
        /\ \A v \in Underlyings : traded[v] \in 0..MaxTraded /\ traded[v] <= traded'[v]
    BY <2>1, BoundsOfTheProxy DEF ProxyIInv
  <2>4. ASSUME NEW v \in Underlyings PROVE Accounted(fut[v], traded'[v], today, unheard[v])
    <3>1. /\ fut[v].acc \in Nat /\ Excess(fut[v], unheard[v]) \in Nat
          /\ traded[v] \in Nat /\ traded'[v] \in Nat /\ traded[v] <= traded'[v]
      BY <2>3, BoundsOfTheProxy DEF ProxyIInv, FuturesState, Excess
    <3>2. Accounted(fut[v], traded[v], today, unheard[v])
      BY DEF ProxyIInv
    <3> QED BY <3>1, <3>2 DEF Accounted, Seen
  <2> QED BY <2>2, <2>3, <2>4 DEF ProxyIInv
<1>8. CASE NextDay
  <2>1. /\ today' = today + 1 /\ today < MaxDay /\ traded' = [u \in Underlyings |-> 0] /\ fut' = fut
        /\ unheard' = [u \in Underlyings |-> 0]
    BY <1>8 DEF NextDay
  <2>2. /\ today' \in 0..MaxDay /\ traded' \in [Underlyings -> 0..MaxTraded]
        /\ unheard' \in [Underlyings -> Nat]
    BY <2>1, BoundsOfTheProxy DEF ProxyIInv
  <2>3. ASSUME NEW v \in Underlyings PROVE Accounted(fut[v], traded'[v], today', unheard'[v])
    <3>1. fut[v].on \in Nat /\ today \in Nat /\ fut[v].on <= today
      BY BoundsOfTheProxy DEF ProxyIInv, Accounted, Seen, FuturesState
    <3>2. fut[v].on < today'
      BY <2>1, <3>1
    <3>3. fut[v].on <= today' /\ fut[v].on # today'
      BY <2>1, <3>1
    <3> QED BY <3>3 DEF Accounted, Seen, Unknown
  <2> QED BY <2>1, <2>2, <2>3 DEF ProxyIInv
<1>9. CASE UNCHANGED proxyVars
  <2>1. fut' = fut /\ traded' = traded /\ today' = today /\ unheard' = unheard
    BY <1>9 DEF proxyVars
  <2> QED BY <2>1 DEF ProxyIInv
<1> QED BY <1>3, <1>4, <1>5, <1>6, <1>7, <1>8, <1>9 DEF ProxyNext

(* No traded volume enters a day's VWAP twice, whatever ticks and histories *)
(* come, fail, or raise after they were counted, beyond what a history was  *)
(* first loaded over while the manager had heard of no tick                 *)
(* (_try_bootstrap_contract, _incremental_live_volume, VWAPEngine.on_tick): *)
(* for any number of underlyings, days and ticks.                           *)
THEOREM VolumeStaysCountedOnce == ProxySpec => []VolumeCountedOnce
<1>1. ProxyIInv => VolumeCountedOnce
  BY DEF ProxyIInv, Accounted, Seen, Excess, VolumeCountedOnce
<1> QED BY <1>1, ProxyInitIsSound, ProxyStepIsSound, PTL DEF ProxySpec

-----------------------------------------------------------------------------
(* The desktop's option chain manager.                                      *)

(* Before the manager has started nobody owns a token. *)
DeskIInv ==
  /\ mgr \in [started: BOOLEAN, stopped: BOOLEAN, resolver: BOOLEAN]
  /\ inst \in [Indices -> InstrumentState]
  /\ owner \in [Tokens -> Indices \cup {NoOwner}]
  /\ ~mgr.started => owner = [t \in Tokens |-> NoOwner]
  /\ OwnedTokensAccountedFor

(* What any outcome of building a stack leaves: ownership changes only to   *)
(* the underlying the stack is for, of tokens the broker streams, and a      *)
(* returned stack is there.                                                  *)
StackLeaves(u, o) ==
  /\ o.inst \in InstrumentState
  /\ o.owner \in [Tokens -> Indices \cup {NoOwner}]
  /\ stream \subseteq o.stream
  /\ \A t \in Tokens : o.owner[t] = owner[t] \/ (o.owner[t] = u /\ t \in o.stream)
  /\ o.ok => o.inst.stack

LEMMA StackOutcomes ==
  ASSUME NEW u \in Indices, inst \in [Indices -> InstrumentState],
         owner \in [Tokens -> Indices \cup {NoOwner}], NEW o \in StackFor(u)
  PROVE  StackLeaves(u, o)
<1>1. inst[u] \in InstrumentState
  OBVIOUS
<1>2. CASE inst[u].stack
  BY <1>1, <1>2 DEF StackFor, StackLeaves, Outcome
<1>3. CASE ~inst[u].stack /\ o = Outcome(inst[u], owner, stream, FALSE)
  BY <1>1, <1>3 DEF StackLeaves, Outcome
<1>4. CASE ~inst[u].stack /\ o # Outcome(inst[u], owner, stream, FALSE)
  <2> DEFINE resolved == [inst[u] EXCEPT !.resolved = TRUE, !.state = "discovering_contracts"]
             subscribing == [resolved EXCEPT !.state = "subscribing"]
             activated == [subscribing EXCEPT !.active = TRUE]
             built == [activated EXCEPT !.stack = TRUE]
             refused == [subscribing EXCEPT !.active = FALSE]
  <2>1. /\ resolved \in InstrumentState /\ subscribing \in InstrumentState
        /\ activated \in InstrumentState /\ refused \in InstrumentState
        /\ built \in InstrumentState /\ built.stack
    BY <1>1 DEF InstrumentState, DesktopOptionChainRuntimeState
  <2>2. PICK tokens \in UniversesOf(u) :
          o \in IF \E t \in tokens : owner[t] # NoOwner
                  THEN {Outcome(resolved, owner, stream, FALSE)}
                  ELSE ActivationOutcomes(subscribing, u, tokens)
                         \cup {Outcome(activated, Taken(tokens, u), stream \cup tokens, FALSE),
                               Outcome(built, Taken(tokens, u), stream \cup tokens, TRUE)}
    BY <1>4 DEF StackFor
  <2> HIDE DEF resolved, subscribing, activated, built
  <2>3. CASE \E t \in tokens : owner[t] # NoOwner
    BY <2>1, <2>2, <2>3 DEF StackLeaves, Outcome
  <2>4. CASE ~ \E t \in tokens : owner[t] # NoOwner
    <3>1. Freed(tokens) = owner
      BY <2>4 DEF Freed
    <3>2. /\ Taken(tokens, u) \in [Tokens -> Indices \cup {NoOwner}]
          /\ \A t \in Tokens : Taken(tokens, u)[t] = IF t \in tokens THEN u ELSE owner[t]
      BY DEF Taken
    <3>3. CASE o \in ActivationOutcomes(subscribing, u, tokens)
      <4>1. PICK s \in {stream, stream \cup tokens} : o = Outcome(refused, owner, s, FALSE)
        BY <3>1, <3>3 DEF ActivationOutcomes, ActivationRaises
      <4> HIDE DEF refused
      <4> QED BY <2>1, <4>1 DEF StackLeaves, Outcome
    <3>4. CASE o = Outcome(activated, Taken(tokens, u), stream \cup tokens, FALSE)
      BY <2>1, <3>2, <3>4 DEF StackLeaves, Outcome
    <3>5. CASE o = Outcome(built, Taken(tokens, u), stream \cup tokens, TRUE)
      BY <2>1, <3>2, <3>5 DEF StackLeaves, Outcome
    <3> QED BY <2>2, <2>4, <3>3, <3>4, <3>5
  <2> QED BY <2>3, <2>4
<1> QED BY <1>2, <1>3, <1>4

LEMMA DeskInitAccounted == DeskInit => DeskIInv
<1> SUFFICES ASSUME DeskInit PROVE DeskIInv
  OBVIOUS
<1>1. \A u \in Indices : Owned(u) = {}
  BY UniversesAreNamed DEF DeskInit, Owned
<1> QED BY <1>1 DEF DeskInit, DeskIInv, OwnedTokensAccountedFor, InstrumentState, DesktopOptionChainRuntimeState

LEMMA DeskStepAccounted == DeskIInv /\ [DeskNext]_deskVars => DeskIInv'
<1> SUFFICES ASSUME DeskIInv, [DeskNext]_deskVars PROVE DeskIInv'
  OBVIOUS
<1> USE DEF DeskIInv
<1>1. CASE StartDiscovery
  <2>1. /\ ~mgr.started /\ owner' = owner /\ stream' = stream
        /\ mgr' \in {mgr, [started |-> TRUE, stopped |-> FALSE, resolver |-> TRUE]}
        /\ \E given \in [Indices -> {"error", "waiting_for_spot"}] :
             inst' = [u \in Indices |-> [inst[u] EXCEPT !.state = given[u]]]
    <3>1. ~mgr.started /\ owner' = owner /\ stream' = stream
      BY <1>1 DEF StartDiscovery
    <3>2. CASE inst' = [u \in Indices |-> [inst[u] EXCEPT !.state = "error"]] /\ mgr' = mgr
      <4> DEFINE given == [u \in Indices |-> "error"]
      <4>1. given \in [Indices -> {"error", "waiting_for_spot"}]
            /\ inst' = [u \in Indices |-> [inst[u] EXCEPT !.state = given[u]]]
        BY <3>2
      <4> QED BY <3>1, <3>2, <4>1
    <3>3. CASE \E available \in SUBSET Indices :
                 /\ inst' = [u \in Indices |->
                               [inst[u] EXCEPT !.state = IF u \in available THEN "waiting_for_spot"
                                                         ELSE "error"]]
                 /\ mgr' = [started |-> TRUE, stopped |-> FALSE, resolver |-> TRUE]
      <4>1. PICK available \in SUBSET Indices :
                 /\ inst' = [u \in Indices |->
                               [inst[u] EXCEPT !.state = IF u \in available THEN "waiting_for_spot"
                                                         ELSE "error"]]
                 /\ mgr' = [started |-> TRUE, stopped |-> FALSE, resolver |-> TRUE]
        BY <3>3
      <4> DEFINE given == [u \in Indices |-> IF u \in available THEN "waiting_for_spot" ELSE "error"]
      <4>2. given \in [Indices -> {"error", "waiting_for_spot"}]
            /\ inst' = [u \in Indices |-> [inst[u] EXCEPT !.state = given[u]]]
        BY <4>1
      <4> QED BY <3>1, <4>1, <4>2
    <3> QED BY <1>1, <3>2, <3>3 DEF StartDiscovery
  <2>2. PICK given \in [Indices -> {"error", "waiting_for_spot"}] :
          inst' = [u \in Indices |-> [inst[u] EXCEPT !.state = given[u]]]
    BY <2>1
  <2>3. inst' \in [Indices -> InstrumentState]
    BY <2>2 DEF InstrumentState, DesktopOptionChainRuntimeState
  <2>4. \A u \in Indices : Owned(u)' = {}
    BY <2>1, UniversesAreNamed DEF Owned
  <2>5. OwnedTokensAccountedFor'
    BY <2>4 DEF OwnedTokensAccountedFor
  <2>6. mgr' \in [started: BOOLEAN, stopped: BOOLEAN, resolver: BOOLEAN]
    <3>1. mgr' = mgr \/ mgr' = [started |-> TRUE, stopped |-> FALSE, resolver |-> TRUE]
      BY <2>1
    <3>2. mgr \in [started: BOOLEAN, stopped: BOOLEAN, resolver: BOOLEAN]
      OBVIOUS
    <3>3. [started |-> TRUE, stopped |-> FALSE, resolver |-> TRUE]
             \in [started: BOOLEAN, stopped: BOOLEAN, resolver: BOOLEAN]
      BY ONLY Zenon
    <3> DEFINE type == [started: BOOLEAN, stopped: BOOLEAN, resolver: BOOLEAN]
               began == [started |-> TRUE, stopped |-> FALSE, resolver |-> TRUE]
    <3>4. mgr \in type /\ began \in type /\ (mgr' = mgr \/ mgr' = began)
      BY <3>1, <3>2, <3>3
    <3> HIDE DEF type, began
    <3>5. mgr' \in type
      BY <3>4
    <3> QED BY <3>5 DEF type
  <2>7. owner' = [t \in Tokens |-> NoOwner] /\ owner' \in [Tokens -> Indices \cup {NoOwner}]
    BY <2>1
  <2> QED BY <2>3, <2>5, <2>6, <2>7
<1>2. CASE StopManager
  BY <1>2 DEF StopManager, OwnedTokensAccountedFor, Owned
<1>3. CASE DeliverSpotTick
  <2>1. PICK u \in Indices, accepted \in BOOLEAN :
          /\ mgr.started
          /\ \E o \in StackFor(u) :
               LET built == o.ok /\ ~inst[u].stack
                   serving == IF built THEN TRUE ELSE served[u]
               IN /\ inst' = [inst EXCEPT ![u] = IF o.ok /\ serving /\ accepted THEN o.inst
                                                 ELSE [o.inst EXCEPT !.state = "error"]]
                  /\ owner' = o.owner /\ stream' = o.stream
    BY <1>3 DEF DeliverSpotTick
  <2>2. PICK o \in StackFor(u) :
          /\ \/ o.ok /\ inst' = [inst EXCEPT ![u] = o.inst]
             \/ inst' = [inst EXCEPT ![u] = [o.inst EXCEPT !.state = "error"]]
          /\ owner' = o.owner /\ stream' = o.stream
    BY <2>1
  <2>3. StackLeaves(u, o)
    BY StackOutcomes
  <2>4. inst'[u] \in InstrumentState /\ (inst'[u].stack \/ inst'[u].state = "error")
    <3>1. CASE o.ok /\ inst' = [inst EXCEPT ![u] = o.inst]
      BY <2>3, <3>1 DEF StackLeaves
    <3>2. CASE inst' = [inst EXCEPT ![u] = [o.inst EXCEPT !.state = "error"]]
      BY <2>3, <3>2 DEF StackLeaves, InstrumentState, DesktopOptionChainRuntimeState
    <3> QED BY <2>2, <3>1, <3>2
  <2>5. \A v \in Indices \ {u} : inst'[v] = inst[v]
    BY <2>2
  <2>6. inst' \in [Indices -> InstrumentState]
    BY <2>2, <2>4
  <2>7. ASSUME NEW v \in Indices PROVE Owned(v)' \subseteq stream'
    BY <2>2, <2>3 DEF StackLeaves, OwnedTokensAccountedFor, Owned
  <2>8. ASSUME NEW v \in Indices, v # u PROVE Owned(v)' \subseteq Owned(v)
    BY <2>2, <2>3, <2>8 DEF StackLeaves, Owned
  <2>9. OwnedTokensAccountedFor'
    BY <2>4, <2>5, <2>7, <2>8 DEF OwnedTokensAccountedFor
  <2>10. mgr' = mgr
    BY <1>3 DEF DeliverSpotTick
  <2> QED BY <2>1, <2>2, <2>3, <2>6, <2>9, <2>10 DEF StackLeaves
<1>4. CASE DeliverOptionTicks
  <2>0. PICK u \in Indices :
          /\ inst[u].stack
          /\ \E new \in {[inst[u] EXCEPT !.state = "error"],
                         [inst[u] EXCEPT !.state = "receiving", !.ready = TRUE],
                         inst[u]} : inst' = [inst EXCEPT ![u] = new]
          /\ UNCHANGED <<mgr, owner, stream, served>>
    BY <1>4 DEF DeliverOptionTicks
  <2>1. PICK new \in {[inst[u] EXCEPT !.state = "error"],
                     [inst[u] EXCEPT !.state = "receiving", !.ready = TRUE],
                     inst[u]} :
          /\ inst[u].stack
          /\ inst' = [inst EXCEPT ![u] = new]
          /\ UNCHANGED <<mgr, owner, stream, served>>
    BY <2>0
  <2>2. new \in InstrumentState /\ new.stack
    BY <2>1 DEF InstrumentState, DesktopOptionChainRuntimeState
  <2>3. mgr' = mgr /\ owner' = owner /\ stream' = stream
    BY <2>1
  <2>4. \A v \in Indices : Owned(v)' = Owned(v)
    BY <2>3 DEF Owned
  <2>5. inst' \in [Indices -> InstrumentState] /\ inst'[u] = new /\ \A v \in Indices \ {u} : inst'[v] = inst[v]
    BY <2>1, <2>2
  <2> QED BY <2>2, <2>3, <2>4, <2>5 DEF OwnedTokensAccountedFor
<1>5. CASE UNCHANGED deskVars
  BY <1>5 DEF deskVars, OwnedTokensAccountedFor, Owned
<1> QED BY <1>1, <1>2, <1>3, <1>4, <1>5 DEF DeskNext

(* However many spot ticks failed half way through building a stack, every  *)
(* token the router takes for the manager's is streamed, and an underlying   *)
(* that owns tokens has its stack or shows the error (desktop option chain   *)
(* manager, _stack_for): for any underlyings and option universes.           *)
THEOREM OwnedTokensStayAccountedFor == DeskSpec => []OwnedTokensAccountedFor
<1>1. DeskIInv => OwnedTokensAccountedFor
  BY DEF DeskIInv
<1> QED BY <1>1, DeskInitAccounted, DeskStepAccounted, PTL DEF DeskSpec

-----------------------------------------------------------------------------
(* The live feed.                                                           *)

ConnectQueued(q) == \E k \in 1..Len(q) : q[k] = "connect"

(* A manager that calls itself connected over a link that is up either has   *)
(* the callback of that connection still to come, or subscribed every row.  *)
(* The bounds on the counters play no part.                                 *)
FeedSound(w, l, q) ==
  /\ w \in [status: WebSocketStatus, registry: SUBSET Subscriptions, connections: Nat,
            disconnections: Nat, countable: BOOLEAN]
  /\ l \in Link
  /\ q \in Seq(Callback)
  /\ WellFormed(w.registry)
  /\ w.disconnections + (IF w.countable THEN 1 ELSE 0) <= w.connections
  /\ w.status = "CONNECTED" /\ l.up => ConnectQueued(q) \/ w.registry \subseteq l.subscribed

FeedIInv == FeedSound(ws, link, events)

(* A manager that does not call itself connected may meet any link and queue. *)
LEMMA SoundWhenNotConnected ==
  ASSUME NEW w, NEW l, NEW q, FeedSound(w, l, q),
         NEW v, NEW m \in Link, NEW p \in Seq(Callback),
         v = [w EXCEPT !.status = v.status], v.status \in WebSocketStatus \ {"CONNECTED"}
  PROVE  FeedSound(v, m, p)
<1> DEFINE s == v.status
<1>1. v = [w EXCEPT !.status = s] /\ s \in WebSocketStatus /\ s # "CONNECTED"
  OBVIOUS
<1> HIDE DEF s
<1>2. /\ v \in [status: WebSocketStatus, registry: SUBSET Subscriptions, connections: Nat,
                disconnections: Nat, countable: BOOLEAN]
      /\ v.status = s /\ v.registry = w.registry /\ v.connections = w.connections
      /\ v.disconnections = w.disconnections /\ v.countable = w.countable
  BY <1>1 DEF FeedSound
<1> QED BY <1>1, <1>2 DEF FeedSound

(* A drop is counted against the connection that is still countable. *)
LEMMA DropIsAccounted ==
  ASSUME NEW w, NEW l, NEW q, FeedSound(w, l, q)
  PROVE  /\ FeedSound(AccountDisconnect(w), l, q)
         /\ AccountDisconnect(w).status = w.status
<1>1. CASE w.countable
  <2> DEFINE n == w.disconnections + 1
  <2>1. AccountDisconnect(w) = [w EXCEPT !.disconnections = n, !.countable = FALSE]
    BY <1>1 DEF AccountDisconnect
  <2>2. n \in Nat /\ n <= w.connections
    BY <1>1 DEF FeedSound
  <2> HIDE DEF n
  <2> DEFINE v == [w EXCEPT !.disconnections = n, !.countable = FALSE]
  <2>3. /\ v \in [status: WebSocketStatus, registry: SUBSET Subscriptions, connections: Nat,
                  disconnections: Nat, countable: BOOLEAN]
        /\ v.status = w.status /\ v.registry = w.registry /\ v.connections = w.connections
        /\ v.disconnections = n /\ v.countable = FALSE
    BY <2>2 DEF FeedSound
  <2> HIDE DEF v
  <2>4. v.disconnections + (IF v.countable THEN 1 ELSE 0) <= v.connections
    BY <2>2, <2>3
  <2>5. FeedSound(v, l, q)
    BY <2>3, <2>4 DEF FeedSound
  <2> QED BY <2>1, <2>3, <2>5 DEF v
<1>2. CASE ~w.countable
  BY <1>2 DEF AccountDisconnect
<1> QED BY <1>1, <1>2

LEMMA ConnectOutcomes ==
  ASSUME NEW w, NEW l, NEW q, FeedSound(w, l, q), NEW o \in Connected(w, l)
  PROVE  FeedSound(o.ws, o.link, q)
<1>1. CASE o.ws = w /\ o.link = l
  BY <1>1
<1>2. CASE o.ws = [w EXCEPT !.status = "CONNECTING"] /\ o.link = [l EXCEPT !.opening = ~l.up]
  <2> DEFINE v == [w EXCEPT !.status = "CONNECTING"]
             m == [l EXCEPT !.opening = ~l.up]
  <2>1. m \in Link
    BY DEF FeedSound, Link
  <2>2. v.status = "CONNECTING" /\ q \in Seq(Callback)
    BY DEF FeedSound
  <2>3. v = [w EXCEPT !.status = v.status] /\ v.status \in WebSocketStatus \ {"CONNECTED"}
    BY <2>2 DEF WebSocketStatus
  <2> HIDE DEF v, m
  <2>4. FeedSound(v, m, q)
    BY <2>1, <2>2, <2>3, SoundWhenNotConnected
  <2> QED BY <1>2, <2>4 DEF v, m
<1>3. CASE o.ws = [w EXCEPT !.status = "ERROR"] /\ o.link = l
  <2> DEFINE v == [w EXCEPT !.status = "ERROR"]
  <2>1. v.status = "ERROR" /\ q \in Seq(Callback) /\ l \in Link
    BY DEF FeedSound
  <2>2. v = [w EXCEPT !.status = v.status] /\ v.status \in WebSocketStatus \ {"CONNECTED"}
    BY <2>1 DEF WebSocketStatus
  <2> HIDE DEF v
  <2>3. FeedSound(v, l, q)
    BY <2>1, <2>2, SoundWhenNotConnected
  <2> QED BY <1>3, <2>3 DEF v
<1> QED BY <1>1, <1>2, <1>3 DEF Connected

(* A status other than CONNECTED, with the link as it is. *)
LEMMA SoundAfterStatus ==
  ASSUME NEW w, NEW l, NEW q, FeedSound(w, l, q), NEW m \in Link, NEW p \in Seq(Callback),
         NEW reached \in WebSocketStatus \ {"CONNECTED"}
  PROVE  FeedSound([w EXCEPT !.status = reached], m, p) /\ [w EXCEPT !.status = reached].status = reached
<1> DEFINE v == [w EXCEPT !.status = reached]
<1>1. v.status = reached
  BY DEF FeedSound
<1>2. v = [w EXCEPT !.status = v.status] /\ v.status \in WebSocketStatus \ {"CONNECTED"}
  BY <1>1
<1> HIDE DEF v
<1>3. FeedSound(v, m, p)
  BY <1>2, SoundWhenNotConnected
<1> QED BY <1>1, <1>3 DEF v

LEMMA StatusesKnown ==
  {"CONNECTING", "ERROR", "DISCONNECTED", "RECONNECTING"} \subseteq WebSocketStatus \ {"CONNECTED"}
BY DEF WebSocketStatus

LEMMA LaterCallbacks ==
  ASSUME NEW q \in Seq(Callback), NEW event \in Callback
  PROVE  /\ Append(q, event) \in Seq(Callback)
         /\ ConnectQueued(q) \/ event = "connect" => ConnectQueued(Append(q, event))
<1>1. /\ Append(q, event) \in Seq(Callback) /\ Len(Append(q, event)) = Len(q) + 1 /\ Len(q) \in Nat
      /\ \A k \in 1..Len(q) : Append(q, event)[k] = q[k]
      /\ Append(q, event)[Len(q) + 1] = event
  OBVIOUS
<1> HIDE DEF Callback
<1>2. CASE ConnectQueued(q)
  BY <1>1, <1>2 DEF ConnectQueued
<1>3. CASE event = "connect"
  <2>1. Len(q) + 1 \in 1..Len(Append(q, event))
    BY <1>1
  <2> QED BY <1>1, <1>3, <2>1 DEF ConnectQueued
<1> QED BY <1>1, <1>2, <1>3

LEMMA DisconnectOutcomes ==
  ASSUME NEW w, NEW l, NEW q, FeedSound(w, l, q), NEW o \in Disconnected(w, l, q)
  PROVE  FeedSound(o.ws, o.link, o.events)
<1> DEFINE down == [opening |-> FALSE, up |-> FALSE, subscribed |-> {}]
           gone == [w EXCEPT !.status = "DISCONNECTED"]
           erred == [w EXCEPT !.status = "ERROR"]
           later == IF l.up THEN Append(q, "close") ELSE q
<1>1. down \in Link /\ l \in Link /\ q \in Seq(Callback)
  BY DEF Link, FeedSound
<1>2. later \in Seq(Callback)
  BY <1>1, LaterCallbacks DEF Callback
<1>3. "DISCONNECTED" \in WebSocketStatus \ {"CONNECTED"} /\ "ERROR" \in WebSocketStatus \ {"CONNECTED"}
  BY StatusesKnown
<1> HIDE DEF down, later
<1>4. FeedSound(gone, l, q) /\ FeedSound(gone, down, later) /\ FeedSound(erred, l, q)
  BY <1>1, <1>2, <1>3, SoundAfterStatus
<1>5. \/ o.ws = gone /\ o.link = l /\ o.events = q
      \/ o.ws = AccountDisconnect(gone) /\ o.link = down /\ o.events = later
      \/ o.ws = erred /\ o.link = l /\ o.events = q
  <2> DEFINE counted == AccountDisconnect(gone)
  <2>1. \/ o = [ws |-> gone, link |-> l, events |-> q, raised |-> FALSE]
        \/ o = [ws |-> counted, link |-> down, events |-> later, raised |-> FALSE]
        \/ o = [ws |-> erred, link |-> l, events |-> q, raised |-> TRUE]
    BY Zenon DEF Disconnected, down, later
  <2> HIDE DEF gone, erred, counted
  <2> QED BY <2>1 DEF counted
<1> HIDE DEF gone, erred
<1> QED BY <1>4, <1>5, DropIsAccounted

LEMMA StartOutcomes ==
  ASSUME NEW r, NEW w, NEW l, NEW q, FeedSound(w, l, q), NEW o \in FeedStarted(r, w, l)
  PROVE  FeedSound(o.ws, o.link, q)
<1>1. CASE o.ws = w /\ o.link = l
  BY <1>1
<1>2. CASE \E c \in Connected(w, l) : o.ws = c.ws /\ o.link = c.link
  BY <1>2, ConnectOutcomes
<1> QED BY <1>1, <1>2 DEF FeedStarted

LEMMA StopOutcomes ==
  ASSUME FeedIInv, NEW o \in FeedStopped
  PROVE  FeedSound(o.ws, o.link, o.events)
<1>1. CASE o.ws = ws /\ o.link = link /\ o.events = events
  BY <1>1 DEF FeedIInv
<1>2. CASE \E c \in Disconnected(ws, link, events) : o.ws = c.ws /\ o.link = c.link /\ o.events = c.events
  BY <1>2, DisconnectOutcomes DEF FeedIInv
<1> QED BY <1>1, <1>2 DEF FeedStopped

LEMMA SubscribedLink ==
  ASSUME NEW l \in Link, NEW rows \in SUBSET Subscriptions
  PROVE  /\ Subscribed(l, rows) \in Link
         /\ Subscribed(l, rows).up = l.up
         /\ l.up => /\ rows \subseteq Subscribed(l, rows).subscribed
                    /\ \A s \in l.subscribed : (\A r \in rows : s.token # r.token)
                                                => s \in Subscribed(l, rows).subscribed
<1> DEFINE S == {s \in l.subscribed : \A r \in rows : s.token # r.token} \cup rows
<1>1. S \in SUBSET Subscriptions /\ rows \subseteq S
      /\ \A s \in l.subscribed : (\A r \in rows : s.token # r.token) => s \in S
  BY DEF Link
<1>2. Subscribed(l, rows) = IF l.up THEN [l EXCEPT !.subscribed = S] ELSE l
  BY DEF Subscribed
<1> HIDE DEF S
<1>3. CASE l.up
  <2> DEFINE m == [l EXCEPT !.subscribed = S]
  <2>1. m \in Link /\ m.up = l.up /\ m.subscribed = S
    BY <1>1 DEF Link
  <2> HIDE DEF m
  <2>2. Subscribed(l, rows) = m
    BY <1>2, <1>3 DEF m
  <2> QED BY <1>1, <2>1, <2>2
<1>4. CASE ~l.up
  BY <1>2, <1>4
<1> QED BY <1>3, <1>4

LEMMA UnsubscribedLink ==
  ASSUME NEW l \in Link, NEW tokens
  PROVE  /\ Unsubscribed(l, tokens) \in Link
         /\ Unsubscribed(l, tokens).up = l.up
         /\ \A s \in l.subscribed : s.token \notin tokens => s \in Unsubscribed(l, tokens).subscribed
<1> DEFINE S == {s \in l.subscribed : s.token \notin tokens}
<1>1. S \in SUBSET Subscriptions /\ \A s \in l.subscribed : s.token \notin tokens => s \in S
  BY DEF Link
<1>2. Unsubscribed(l, tokens) = IF l.up THEN [l EXCEPT !.subscribed = S] ELSE l
  BY DEF Unsubscribed
<1> HIDE DEF S
<1>3. CASE l.up
  <2> DEFINE m == [l EXCEPT !.subscribed = S]
  <2>1. m \in Link /\ m.up = l.up /\ m.subscribed = S
    BY <1>1 DEF Link
  <2> HIDE DEF m
  <2>2. Unsubscribed(l, tokens) = m
    BY <1>2, <1>3 DEF m
  <2> QED BY <1>1, <2>1, <2>2
<1>4. CASE ~l.up
  BY <1>2, <1>4
<1> QED BY <1>3, <1>4

(* The registry changes together with what the client subscribes. *)
LEMMA SoundAfterRegistry ==
  ASSUME NEW w, NEW l, NEW q, FeedSound(w, l, q), NEW m \in Link,
         NEW rows \in SUBSET Subscriptions, WellFormed(rows),
         w.status = "CONNECTED" /\ m.up => ConnectQueued(q) \/ rows \subseteq m.subscribed
  PROVE  FeedSound([w EXCEPT !.registry = rows], m, q)
<1> DEFINE v == [w EXCEPT !.registry = rows]
<1>1. /\ v \in [status: WebSocketStatus, registry: SUBSET Subscriptions, connections: Nat,
                disconnections: Nat, countable: BOOLEAN]
      /\ v.registry = rows /\ v.status = w.status /\ v.connections = w.connections
      /\ v.disconnections = w.disconnections /\ v.countable = w.countable
  BY DEF FeedSound
<1> HIDE DEF v
<1>2. FeedSound(v, m, q)
  BY <1>1 DEF FeedSound
<1> QED BY <1>2 DEF v

(* A connection is counted, and countable as lost once. *)
LEMMA SoundAfterConnection ==
  ASSUME NEW w, NEW l, NEW q, FeedSound(w, l, q), NEW m \in Link, NEW p \in Seq(Callback),
         NEW reached \in WebSocketStatus,
         reached = "CONNECTED" /\ m.up => w.registry \subseteq m.subscribed
  PROVE  FeedSound([w EXCEPT !.status = reached, !.connections = @ + 1, !.countable = TRUE], m, p)
<1> DEFINE n == w.connections + 1
           v == [w EXCEPT !.status = reached, !.connections = n, !.countable = TRUE]
<1>1. n \in Nat /\ w.disconnections + 1 <= n
  BY DEF FeedSound
<1> HIDE DEF n
<1>2. /\ v \in [status: WebSocketStatus, registry: SUBSET Subscriptions, connections: Nat,
                disconnections: Nat, countable: BOOLEAN]
      /\ v.registry = w.registry /\ v.status = reached /\ v.connections = n
      /\ v.disconnections = w.disconnections /\ v.countable = TRUE
  BY <1>1 DEF FeedSound
<1> HIDE DEF v
<1>3. v.disconnections + (IF v.countable THEN 1 ELSE 0) <= v.connections
  BY <1>1, <1>2
<1>4. FeedSound(v, m, p)
  BY <1>2, <1>3 DEF FeedSound
<1> QED BY <1>4 DEF v, n

LEMMA RegistryStepsAreSound == FeedIInv /\ RegistrySteps => FeedIInv'
<1> SUFFICES ASSUME FeedIInv, RegistrySteps PROVE FeedIInv'
  OBVIOUS
<1>1. /\ FeedSound(ws, link, events) /\ link \in Link /\ events \in Seq(Callback)
      /\ ws.registry \in SUBSET Subscriptions /\ WellFormed(ws.registry)
      /\ ws.status = "CONNECTED" /\ link.up => ConnectQueued(events) \/ ws.registry \subseteq link.subscribed
  BY DEF FeedIInv, FeedSound
<1>2. events' = events
  BY DEF RegistrySteps, Subscribe, Unsubscribe, ReplaceSubscriptions
<1>3. ASSUME link' \in Link, ws' = [ws EXCEPT !.status = "ERROR"] PROVE FeedIInv'
  BY <1>1, <1>2, <1>3, SoundAfterStatus, StatusesKnown DEF FeedIInv
<1>4. CASE Subscribe
  <2>1. PICK r \in Subscriptions :
          /\ WellFormed(ws.registry \cup {r})
          /\ \/ /\ ws' = [ws EXCEPT !.registry = @ \cup {r}]
                /\ link' = IF IsConnected THEN Subscribed(link, {r}) ELSE link
             \/ /\ ws' = [ws EXCEPT !.status = "ERROR"]
                /\ link' \in {link, Subscribed(link, {r})}
    BY <1>4 DEF Subscribe
  <2>2. /\ Subscribed(link, {r}) \in Link /\ Subscribed(link, {r}).up = link.up
        /\ link.up => /\ r \in Subscribed(link, {r}).subscribed
                      /\ \A s \in link.subscribed : s.token # r.token => s \in Subscribed(link, {r}).subscribed
    BY <1>1, <2>1, SubscribedLink
  <2>3. CASE ws' = [ws EXCEPT !.status = "ERROR"] /\ link' \in {link, Subscribed(link, {r})}
    BY <1>1, <1>3, <2>2, <2>3
  <2>4. CASE /\ ws' = [ws EXCEPT !.registry = @ \cup {r}]
             /\ link' = IF IsConnected THEN Subscribed(link, {r}) ELSE link
    <3> DEFINE rows == ws.registry \cup {r}
    <3>1. rows \in SUBSET Subscriptions /\ WellFormed(rows)
      BY <1>1, <2>1
    <3>2. link' \in Link
      BY <1>1, <2>2, <2>4
    <3>3. ws.status = "CONNECTED" /\ link'.up => ConnectQueued(events) \/ rows \subseteq link'.subscribed
      BY <1>1, <2>1, <2>2, <2>4 DEF IsConnected, WellFormed
    <3>4. ws' = [ws EXCEPT !.registry = rows]
      BY <2>4
    <3> HIDE DEF rows
    <3> QED BY <1>1, <1>2, <3>1, <3>2, <3>3, <3>4, SoundAfterRegistry DEF FeedIInv
  <2> QED BY <2>1, <2>3, <2>4
<1>5. CASE Unsubscribe
  <2>1. PICK r \in ws.registry :
          \/ /\ ws' = [ws EXCEPT !.registry = @ \ {r}]
             /\ link' = IF IsConnected THEN Unsubscribed(link, {r.token}) ELSE link
          \/ ws' = [ws EXCEPT !.status = "ERROR"] /\ link' = link
    BY <1>5 DEF Unsubscribe
  <2>2. /\ Unsubscribed(link, {r.token}) \in Link /\ Unsubscribed(link, {r.token}).up = link.up
        /\ \A s \in link.subscribed : s.token # r.token => s \in Unsubscribed(link, {r.token}).subscribed
    BY <1>1, UnsubscribedLink
  <2>3. CASE ws' = [ws EXCEPT !.status = "ERROR"] /\ link' = link
    BY <1>1, <1>3, <2>3
  <2>4. CASE /\ ws' = [ws EXCEPT !.registry = @ \ {r}]
             /\ link' = IF IsConnected THEN Unsubscribed(link, {r.token}) ELSE link
    <3> DEFINE rows == ws.registry \ {r}
    <3>1. rows \in SUBSET Subscriptions /\ WellFormed(rows)
      BY <1>1 DEF WellFormed
    <3>2. link' \in Link
      BY <1>1, <2>2, <2>4
    <3>3. ws.status = "CONNECTED" /\ link'.up => ConnectQueued(events) \/ rows \subseteq link'.subscribed
      BY <1>1, <2>1, <2>2, <2>4 DEF IsConnected, WellFormed
    <3>4. ws' = [ws EXCEPT !.registry = rows]
      BY <2>4
    <3> HIDE DEF rows
    <3> QED BY <1>1, <1>2, <3>1, <3>2, <3>3, <3>4, SoundAfterRegistry DEF FeedIInv
  <2> QED BY <2>1, <2>3, <2>4
<1>6. CASE ReplaceSubscriptions
  <2> DEFINE gone(rows) == {r.token : r \in ws.registry} \ {r.token : r \in rows}
             dropped(rows) == Unsubscribed(link, gone(rows))
             new(rows) == {r \in rows : r.token \notin {s.token : s \in ws.registry}}
             added(rows) == Subscribed(dropped(rows), new(rows))
  <2>1. PICK rows \in SUBSET Subscriptions :
          /\ WellFormed(rows)
          /\ \/ /\ ws' = [ws EXCEPT !.registry = rows]
                /\ link' = IF IsConnected THEN Subscribed(dropped(rows), rows) ELSE link
             \/ /\ ws' = [ws EXCEPT !.status = "ERROR"]
                /\ link' \in {link, dropped(rows), added(rows)}
    BY <1>6 DEF ReplaceSubscriptions
  <2>2. dropped(rows) \in Link /\ dropped(rows).up = link.up /\ new(rows) \in SUBSET Subscriptions
    BY <1>1, UnsubscribedLink
  <2> HIDE DEF dropped, new
  <2>3. /\ added(rows) \in Link /\ Subscribed(dropped(rows), rows) \in Link
        /\ Subscribed(dropped(rows), rows).up = link.up
        /\ link.up => rows \subseteq Subscribed(dropped(rows), rows).subscribed
    BY <2>2, SubscribedLink
  <2> HIDE DEF added
  <2>4. CASE ws' = [ws EXCEPT !.status = "ERROR"] /\ link' \in {link, dropped(rows), added(rows)}
    BY <1>1, <1>3, <2>2, <2>3, <2>4
  <2>5. CASE /\ ws' = [ws EXCEPT !.registry = rows]
             /\ link' = IF IsConnected THEN Subscribed(dropped(rows), rows) ELSE link
    <3>1. link' \in Link
      BY <1>1, <2>3, <2>5
    <3>2. ws.status = "CONNECTED" /\ link'.up => ConnectQueued(events) \/ rows \subseteq link'.subscribed
      BY <2>3, <2>5 DEF IsConnected
    <3> QED BY <1>1, <1>2, <2>1, <2>5, <3>1, <3>2, SoundAfterRegistry DEF FeedIInv
  <2> QED BY <2>1, <2>4, <2>5
<1> QED BY <1>4, <1>5, <1>6 DEF RegistrySteps

LEMMA DeliveriesAreSound == FeedIInv /\ Deliver => FeedIInv'
<1> SUFFICES ASSUME FeedIInv, Deliver PROVE FeedIInv'
  OBVIOUS
<1>1. /\ FeedSound(ws, link, events) /\ link \in Link /\ events \in Seq(Callback)
      /\ ws.registry \in SUBSET Subscriptions
  BY DEF FeedIInv, FeedSound
<1>2. events # <<>> /\ events' = Tail(events) /\ HandleCallback(Head(events))
  BY DEF Deliver
<1>3. events' \in Seq(Callback) /\ Head(events) \in Callback
  BY <1>1, <1>2 DEF Callback
<1>4. \/ OnConnect
      \/ OnClose \/ OnError \/ OnReconnect \/ OnNoReconnect
  BY <1>2, <1>3 DEF HandleCallback, Callback
<1>5. CASE OnConnect
  <2>1. /\ Subscribed(link, ws.registry) \in Link
        /\ Subscribed(link, ws.registry).up = link.up
        /\ link.up => ws.registry \subseteq Subscribed(link, ws.registry).subscribed
    BY <1>1, SubscribedLink
  <2>2. link' \in Link
    BY <1>1, <1>5, <2>1 DEF OnConnect
  <2>3. PICK reached \in {"CONNECTED", "ERROR"} :
          /\ ws' = [ws EXCEPT !.status = reached, !.connections = @ + 1, !.countable = TRUE]
          /\ reached = "CONNECTED" /\ link'.up => ws.registry \subseteq link'.subscribed
    <3>1. CASE /\ ws' = [ws EXCEPT !.status = "CONNECTED", !.connections = @ + 1, !.countable = TRUE]
               /\ link' = Subscribed(link, ws.registry)
      BY <2>1, <3>1
    <3>2. CASE ws' = [ws EXCEPT !.status = "ERROR", !.connections = @ + 1, !.countable = TRUE]
      BY <3>2
    <3> QED BY <1>5, <3>1, <3>2 DEF OnConnect
  <2>4. reached \in WebSocketStatus
    BY <2>3 DEF WebSocketStatus
  <2> QED BY <1>1, <1>3, <2>2, <2>3, <2>4, SoundAfterConnection DEF FeedIInv
<1>6. CASE OnClose
  <2> DEFINE gone == [ws EXCEPT !.status = "DISCONNECTED"]
  <2>1. FeedSound(gone, link, events')
    BY <1>1, <1>3, SoundAfterStatus, StatusesKnown
  <2>2. ws' = AccountDisconnect(gone) /\ link' = link
    BY <1>6 DEF OnClose
  <2> HIDE DEF gone
  <2> QED BY <2>1, <2>2, DropIsAccounted DEF FeedIInv
<1>7. CASE OnError \/ OnReconnect \/ OnNoReconnect
  <2>1. link' = link /\ \E reached \in {"ERROR", "RECONNECTING"} : ws' = [ws EXCEPT !.status = reached]
    BY <1>7 DEF OnError, OnReconnect, OnNoReconnect
  <2> QED BY <1>1, <1>3, <2>1, SoundAfterStatus, StatusesKnown DEF FeedIInv
<1> QED BY <1>4, <1>5, <1>6, <1>7

LEMMA ClientStepsAreSound == FeedIInv /\ ClientSteps => FeedIInv'
<1> SUFFICES ASSUME FeedIInv, ClientSteps PROVE FeedIInv'
  OBVIOUS
<1>1. /\ FeedSound(ws, link, events) /\ link \in Link /\ events \in Seq(Callback) /\ ws' = ws
  BY DEF FeedIInv, FeedSound, ClientSteps, LinkOpens, LinkDrops, LinkErrs, LinkGivesUp
<1>2. ASSUME link' \in Link, events' \in Seq(Callback),
             ~link'.up \/ ConnectQueued(events') \/ (link' = link /\ ~ConnectQueued(events))
      PROVE  FeedIInv'
  BY <1>1, <1>2 DEF FeedIInv, FeedSound
<1>3. CASE LinkOpens
  <2>1. events' = Append(events, "connect") /\ link' = [opening |-> FALSE, up |-> TRUE, subscribed |-> {}]
    BY <1>3 DEF LinkOpens, Queued
  <2> QED BY <1>1, <1>2, <2>1, LaterCallbacks DEF Link, Callback
<1>4. CASE LinkDrops
  <2>1. events' = events \o <<"close", "reconnect">>
        /\ link' = [opening |-> TRUE, up |-> FALSE, subscribed |-> {}]
    BY <1>4 DEF LinkDrops
  <2>2. events' \in Seq(Callback)
    BY <1>1, <2>1 DEF Callback
  <2> QED BY <1>2, <2>1, <2>2 DEF Link
<1>5. CASE LinkErrs
  <2>1. events' = Append(events, "error") /\ link' = link
    BY <1>5 DEF LinkErrs, Queued
  <2>2. events' \in Seq(Callback) /\ (ConnectQueued(events) => ConnectQueued(events'))
    BY <1>1, <2>1, LaterCallbacks DEF Callback
  <2> QED BY <1>1, <1>2, <2>1, <2>2
<1>6. CASE LinkGivesUp
  <2>1. events' = Append(events, "noreconnect") /\ link' = [link EXCEPT !.opening = FALSE]
    BY <1>6 DEF LinkGivesUp, Queued
  <2>2. events' \in Seq(Callback) /\ (ConnectQueued(events) => ConnectQueued(events'))
    BY <1>1, <2>1, LaterCallbacks DEF Callback
  <2>3. link' \in Link /\ link'.up = link.up /\ link'.subscribed = link.subscribed
    BY <1>1, <2>1 DEF Link
  <2> QED BY <1>1, <2>2, <2>3 DEF FeedIInv, FeedSound
<1> QED BY <1>3, <1>4, <1>5, <1>6 DEF ClientSteps

LEMMA RuntimeStepsAreSound == FeedIInv /\ RuntimeSteps => FeedIInv'
<1> SUFFICES ASSUME FeedIInv, RuntimeSteps PROVE FeedIInv'
  OBVIOUS
<1>1. CASE SnapshotFeed \/ ValidateFeed
  BY <1>1 DEF SnapshotFeed, ValidateFeed, FeedIInv
<1>2. CASE StartFeed
  <2>1. PICK o \in FeedStarted(rt, ws, link) : ws' = o.ws /\ link' = o.link
    BY <1>2 DEF StartFeed
  <2>2. events' = events
    BY <1>2 DEF StartFeed
  <2> QED BY <2>1, <2>2, StartOutcomes DEF FeedIInv
<1>3. CASE StopFeed
  <2>1. PICK o \in FeedStopped : ws' = o.ws /\ link' = o.link /\ events' = o.events
    BY <1>3 DEF StopFeed
  <2> QED BY <2>1, StopOutcomes DEF FeedIInv
<1>4. CASE RestartFeed
  <2>1. PICK o \in FeedStopped :
          \/ ws' = o.ws /\ link' = o.link /\ events' = o.events
          \/ \E s \in FeedStarted("READY", o.ws, o.link) :
               ws' = s.ws /\ link' = s.link /\ events' = o.events
    BY <1>4 DEF RestartFeed
  <2>2. FeedSound(o.ws, o.link, o.events)
    BY StopOutcomes
  <2> QED BY <2>1, <2>2, StartOutcomes DEF FeedIInv
<1> QED BY <1>1, <1>2, <1>3, <1>4 DEF RuntimeSteps

(* What the feed's snapshot says of its connections is true, however the     *)
(* client's callbacks and the commands interleave (websocket_manager.py):   *)
(* for any rows, sessions, and callbacks waiting.                            *)
THEOREM FeedStaysHonest == FeedSpec => []FeedIsHonest
<1>1. FeedInit => FeedIInv
  <2> SUFFICES ASSUME FeedInit PROVE FeedIInv
    OBVIOUS
  <2>1. /\ ws = [status |-> "CREATED", registry |-> Configured, connections |-> 0,
                 disconnections |-> 0, countable |-> FALSE]
        /\ link = [opening |-> FALSE, up |-> FALSE, subscribed |-> {}] /\ events = <<>>
    BY DEF FeedInit, NewTicker
  <2>2. Configured \in SUBSET Subscriptions /\ WellFormed(Configured)
    BY ConfigurationIsValid DEF LiveMarketDataConfiguration
  <2> QED BY <2>1, <2>2 DEF FeedIInv, FeedSound, WebSocketStatus, Link, Callback
<1>2. FeedIInv /\ [FeedNext]_feedVars => FeedIInv'
  <2> SUFFICES ASSUME FeedIInv, [FeedNext]_feedVars PROVE FeedIInv'
    OBVIOUS
  <2>1. CASE SessionSteps \/ ApplicationSwitches \/ ProcessTick
    <3>1. ws' = ws /\ link' = link /\ events' = events
      BY <2>1 DEF SessionSteps, CreateLoginRequest, Authenticate, ValidateSession, Logout,
                  ExpireSession, ApplicationSwitches, ProcessTick
    <3> QED BY <3>1 DEF FeedIInv
  <2>2. CASE UNCHANGED feedVars
    BY <2>2 DEF feedVars, FeedIInv
  <2> QED BY <2>1, <2>2, RegistryStepsAreSound, DeliveriesAreSound, ClientStepsAreSound,
             RuntimeStepsAreSound DEF FeedNext
<1>3. FeedIInv => FeedIsHonest
  BY DEF FeedIInv, FeedSound, FeedIsHonest, ConnectedIsSubscribed, DropsCountedOnce, IsConnected,
         ConnectQueued
<1> QED BY <1>1, <1>2, <1>3, PTL DEF FeedSpec

-----------------------------------------------------------------------------
(* The subscriptions of the option chain.                                   *)

Unambiguous(rows) == \A r, s \in rows : r.token = s.token => r = s

LEMMA RegistriesAreUnambiguous ==
  ASSUME NEW rows, IsFiniteSet(rows), OneRowEach(rows)
  PROVE  Unambiguous(rows)
<1> DEFINE T == TokensOf(rows)
           f == [r \in rows |-> r.token]
<1>1. f \in Surjection(rows, T)
  BY DEF TokensOf, Surjection
<1>2. Cardinality(rows) = Cardinality(T)
  BY DEF OneRowEach
<1>3. f \in Injection(rows, T)
  BY <1>1, <1>2, FS_SurjSameCardinalityImpliesInj
<1> QED BY <1>3 DEF Injection, IsInjective, Unambiguous

LEMMA UniversesAreUnambiguous == \A u \in Universes : Unambiguous(EntriesOf(u))
BY UniversesAreRegistries, RegistriesAreUnambiguous

LEMMA EmptyIsUnambiguous == Unambiguous({})
BY DEF Unambiguous

LEMMA AddedRows ==
  ASSUME NEW l, NEW tokens
  PROVE  /\ \A t : t \in TokensOf(Added(l, tokens)) <=> t \in TokensOf(l) \/ t \in tokens
         /\ \A r \in Added(l, tokens) : r.token \in tokens \/ r \in l
         /\ l \subseteq Added(l, tokens)
<1> DEFINE row(t) == [token |-> t, mode |-> DefaultMode]
<1>1. Added(l, tokens) = l \cup {row(t) : t \in tokens \ TokensOf(l)}
  BY DEF Added
<1>2. \A t : row(t).token = t
  OBVIOUS
<1> HIDE DEF row
<1>3. \A t : t \in TokensOf(l) => t \in TokensOf(Added(l, tokens))
  BY <1>1 DEF TokensOf
<1>4. ASSUME NEW t \in tokens, t \notin TokensOf(l) PROVE t \in TokensOf(Added(l, tokens))
  <2>1. row(t) \in Added(l, tokens)
    BY <1>1, <1>4
  <2> QED BY <1>2, <2>1 DEF TokensOf
<1>5. \A r \in Added(l, tokens) : r.token \in tokens \/ r \in l
  BY <1>1, <1>2
<1>6. ASSUME NEW t \in TokensOf(Added(l, tokens)) PROVE t \in TokensOf(l) \/ t \in tokens
  BY <1>5 DEF TokensOf
<1> QED BY <1>1, <1>3, <1>4, <1>5, <1>6

(* A replacement that goes through streams the proposed rows. *)
LEMMA ReplacementStreams ==
  ASSUME NEW current, NEW proposed, Unambiguous(current), Unambiguous(proposed), NEW plan,
         plan = Plan(current, proposed)
  PROVE  Removed(Moded(Added(current, TokensOf(plan.subscribe)), plan.subscribe \cup plan.modeChange),
                 TokensOf(plan.unsubscribe)) = proposed
<1> DEFINE new == plan.subscribe
           gone == plan.unsubscribe
           changed == plan.modeChange
           added == Added(current, TokensOf(new))
           moded == Moded(added, new \cup changed)
<1>1. /\ new = {r \in proposed : r.token \notin TokensOf(current)}
      /\ gone = {r \in current : r.token \notin TokensOf(proposed)}
      /\ changed = {r \in proposed \ current : r.token \in TokensOf(current)}
  BY DEF Plan
<1> HIDE DEF new, gone, changed
<1>2. /\ \A t : t \in TokensOf(added) <=> t \in TokensOf(current) \/ t \in TokensOf(new)
      /\ \A r \in added : r.token \in TokensOf(new) \/ r \in current
      /\ current \subseteq added
  BY AddedRows
<1>3. moded = {r \in added : r.token \notin TokensOf(new \cup changed)}
                \cup {r \in new \cup changed : r.token \in TokensOf(added)}
  BY DEF Moded
<1> HIDE DEF added, moded
<1>4. \A r : r \in moded <=> \/ r \in new \cup changed
                             \/ r \in current /\ r.token \notin TokensOf(new \cup changed)
  <2>1. \A r \in new \cup changed : r.token \in TokensOf(added)
    BY <1>1, <1>2 DEF TokensOf
  <2>2. TokensOf(new) \subseteq TokensOf(new \cup changed)
    BY DEF TokensOf
  <2> QED BY <1>2, <1>3, <2>1, <2>2
<1>5. ASSUME NEW r, r \in proposed PROVE r \in moded /\ r.token \notin TokensOf(gone)
  <2>1. r.token \notin TokensOf(gone)
    BY <1>1, <1>5 DEF TokensOf
  <2>2. CASE r \in new \cup changed
    BY <1>4, <2>1, <2>2
  <2>3. CASE r \notin new \cup changed
    <3>1. r \in current
      BY <1>1, <1>5, <2>3
    <3>2. r.token \notin TokensOf(new \cup changed)
      BY <1>1, <1>5, <2>3, <3>1 DEF TokensOf, Unambiguous
    <3> QED BY <1>4, <2>1, <3>1, <3>2
  <2> QED BY <2>2, <2>3
<1>6. ASSUME NEW r, r \in moded, r.token \notin TokensOf(gone) PROVE r \in proposed
  <2>1. CASE r \in new \cup changed
    BY <1>1, <2>1
  <2>2. CASE r \in current /\ r.token \notin TokensOf(new \cup changed)
    <3>1. r.token \in TokensOf(proposed)
      BY <1>1, <1>6, <2>2 DEF TokensOf
    <3>2. PICK p \in proposed : p.token = r.token
      BY <3>1 DEF TokensOf
    <3>3. p \in current
      BY <1>1, <2>2, <3>2 DEF TokensOf
    <3> QED BY <2>2, <3>2, <3>3 DEF Unambiguous
  <2> QED BY <1>4, <1>6, <2>1, <2>2
<1> QED BY <1>5, <1>6 DEF Removed, moded, added, new, gone, changed

(* How far a failed replacement may have come: the rows that are neither     *)
(* changed nor new are as they were.                                         *)
Underway(l, current, plan) ==
  /\ \A r \in current : r.token \notin TokensOf(plan.modeChange) => r \in l
  /\ \A r \in l : r.token \in TokensOf(current) \ TokensOf(plan.modeChange) => r \in current
  /\ \A r \in l : r.token \in TokensOf(current) \/ r.token \in TokensOf(plan.subscribe)
  /\ TokensOf(current) \subseteq TokensOf(l)

LEMMA PartlyModedIsUnderway ==
  ASSUME NEW current, NEW proposed, Unambiguous(current), NEW plan, plan = Plan(current, proposed),
         NEW rows, rows \subseteq plan.subscribe \cup plan.modeChange
  PROVE  Underway(Moded(Added(current, TokensOf(plan.subscribe)), rows), current, plan)
<1> DEFINE new == plan.subscribe
           changed == plan.modeChange
           added == Added(current, TokensOf(new))
           moded == Moded(added, rows)
<1>1. /\ new = {r \in proposed : r.token \notin TokensOf(current)}
      /\ changed = {r \in proposed \ current : r.token \in TokensOf(current)}
  BY DEF Plan
<1> HIDE DEF new, changed
<1>2. /\ \A t : t \in TokensOf(added) <=> t \in TokensOf(current) \/ t \in TokensOf(new)
      /\ \A r \in added : r.token \in TokensOf(new) \/ r \in current
      /\ current \subseteq added
  BY AddedRows
<1>3. \A r : r \in moded <=> \/ r \in added /\ r.token \notin TokensOf(rows)
                             \/ r \in rows /\ r.token \in TokensOf(added)
  BY DEF Moded
<1> HIDE DEF added, moded
<1>4. \A t \in TokensOf(new) : t \notin TokensOf(current)
  BY <1>1 DEF TokensOf
<1>5. \A r \in rows : r.token \in TokensOf(new) \/ r.token \in TokensOf(changed)
  BY DEF TokensOf, new, changed
<1>6. \A t \in TokensOf(rows) : t \in TokensOf(new) \/ t \in TokensOf(changed)
  BY <1>5 DEF TokensOf
<1>7. \A t \in TokensOf(changed) : t \in TokensOf(current)
  BY <1>1 DEF TokensOf
<1>8. \A r \in current : r.token \in TokensOf(current)
  BY DEF TokensOf
<1>9. \A r \in current : r.token \notin TokensOf(changed) => r \in moded
  BY <1>2, <1>3, <1>4, <1>6, <1>8
<1>10. \A r \in moded : r.token \in TokensOf(current) \ TokensOf(changed) => r \in current
  BY <1>2, <1>3, <1>4, <1>5
<1>11. \A r \in moded : r.token \in TokensOf(current) \/ r.token \in TokensOf(new)
  BY <1>2, <1>3, <1>5, <1>7, <1>8
<1>12. TokensOf(current) \subseteq TokensOf(moded)
  <2> SUFFICES ASSUME NEW r \in current PROVE r.token \in TokensOf(moded)
    BY DEF TokensOf
  <2>1. CASE r.token \in TokensOf(rows)
    <3>1. PICK p \in rows : p.token = r.token
      BY <2>1 DEF TokensOf
    <3>2. p \in moded
      BY <1>2, <1>3, <1>8, <3>1
    <3> QED BY <3>1, <3>2 DEF TokensOf
  <2>2. CASE r.token \notin TokensOf(rows)
    BY <1>2, <1>3, <2>2 DEF TokensOf
  <2> QED BY <2>1, <2>2
<1>13. Underway(moded, current, plan)
  BY <1>9, <1>10, <1>11, <1>12 DEF Underway, new, changed
<1> QED BY <1>13 DEF moded, added, new

LEMMA ReachedIsUnderway ==
  ASSUME NEW proposed, Unambiguous(sub.entries), line = sub.entries, NEW plan,
         plan = Plan(sub.entries, proposed), NEW reached \in ReplacementReached(plan)
  PROVE  Underway(reached[1], sub.entries, plan)
<1> DEFINE added == Added(line, TokensOf(plan.subscribe))
           wanted == plan.subscribe \cup plan.modeChange
<1>1. CASE reached = <<line, FALSE>>
  <2>1. reached[1] = sub.entries
    BY <1>1
  <2> QED BY <2>1 DEF Underway, TokensOf
<1>2. CASE \E done : reached[1] = Moded(added, {r \in wanted : r.mode \in done})
  BY <1>2, PartlyModedIsUnderway
<1>3. CASE reached = <<Moded(added, wanted), TRUE>>
  BY <1>3, PartlyModedIsUnderway
<1>4. reached = <<line, FALSE>> \/ reached = <<Moded(added, wanted), TRUE>>
      \/ \E l \in PartlyModed(added, wanted) : reached = <<l, FALSE>>
  BY DEF ReplacementReached
<1>5. ASSUME NEW l \in PartlyModed(added, wanted), reached = <<l, FALSE>>
      PROVE  \E done : reached[1] = Moded(added, {r \in wanted : r.mode \in done})
  BY <1>5 DEF PartlyModed
<1> QED BY <1>1, <1>2, <1>3, <1>4, <1>5

(* From wherever it failed, an undo that goes through restores the rows. *)
LEMMA UndoRestores ==
  ASSUME NEW proposed, Unambiguous(sub.entries), NEW plan, plan = Plan(sub.entries, proposed),
         NEW l, Underway(l, sub.entries, plan), NEW asked
  PROVE  Undo(l, asked, plan) = sub.entries
<1> DEFINE current == sub.entries
           new == plan.subscribe
           gone == plan.unsubscribe
           changed == plan.modeChange
           back == IF asked THEN Moded(Added(l, TokensOf(gone)), gone) ELSE l
           modes == {r \in current : r.token \in TokensOf(changed)}
           restored == Moded(back, modes)
<1>1. /\ new = {r \in proposed : r.token \notin TokensOf(current)}
      /\ gone = {r \in current : r.token \notin TokensOf(proposed)}
      /\ changed = {r \in proposed \ current : r.token \in TokensOf(current)}
  BY DEF Plan
<1>2. Undo(l, asked, plan) = Removed(restored, TokensOf(new))
  BY DEF Undo, RolledBack
<1>3. Underway(back, current, plan)
  <2>1. CASE ~asked
    BY <2>1
  <2>2. CASE asked
    <3> DEFINE again == Added(l, TokensOf(gone))
    <3>1. again = l
      <4>1. TokensOf(gone) \subseteq TokensOf(l)
        BY <1>1 DEF TokensOf, Underway
      <4> QED BY <4>1 DEF Added
    <3>2. \A r : r \in back <=> \/ r \in l /\ r.token \notin TokensOf(gone)
                                \/ r \in gone /\ r.token \in TokensOf(l)
      BY <2>2, <3>1 DEF Moded
    <3> HIDE DEF back
    <3>3. gone \subseteq current /\ \A r \in gone : r.token \in TokensOf(current)
      BY <1>1 DEF TokensOf
    <3>4. \A r \in gone : r.token \in TokensOf(l)
      BY <3>3 DEF Underway
    <3>5. \A r \in current : r.token \in TokensOf(gone) => r \in gone
      BY <1>1, <3>3 DEF TokensOf, Unambiguous
    <3>6. \A r \in current : r.token \notin TokensOf(changed) => r \in back
      BY <3>2, <3>4, <3>5 DEF Underway
    <3>7. TokensOf(current) \subseteq TokensOf(back)
      <4> SUFFICES ASSUME NEW r \in current PROVE r.token \in TokensOf(back)
        BY DEF TokensOf
      <4>1. CASE r.token \in TokensOf(gone)
        BY <3>2, <3>4, <3>5, <4>1 DEF TokensOf
      <4>2. CASE r.token \notin TokensOf(gone)
        <5>1. r.token \in TokensOf(l)
          BY DEF Underway, TokensOf
        <5>2. PICK p \in l : p.token = r.token
          BY <5>1 DEF TokensOf
        <5>3. p \in back
          BY <3>2, <4>2, <5>2
        <5> QED BY <5>2, <5>3 DEF TokensOf
      <4> QED BY <4>1, <4>2
    <3> QED BY <3>2, <3>3, <3>6, <3>7 DEF Underway
  <2> QED BY <2>1, <2>2
<1> HIDE DEF back
<1>4. \A r : r \in restored <=> \/ r \in back /\ r.token \notin TokensOf(modes)
                                \/ r \in modes /\ r.token \in TokensOf(back)
  BY DEF Moded
<1> HIDE DEF restored
<1>5. \A t : t \in TokensOf(modes) <=> t \in TokensOf(changed)
  BY <1>1 DEF TokensOf
<1>6. \A t \in TokensOf(new) : t \notin TokensOf(current)
  BY <1>1 DEF TokensOf
<1>7. \A r \in current : r.token \in TokensOf(current)
  BY DEF TokensOf
<1>8. \A r : r \in Removed(restored, TokensOf(new)) <=> r \in restored /\ r.token \notin TokensOf(new)
  BY DEF Removed
<1> HIDE DEF new, gone, changed
<1>9. ASSUME NEW r \in current PROVE r \in restored /\ r.token \notin TokensOf(new)
  BY <1>3, <1>4, <1>5, <1>6, <1>7 DEF Underway, changed
<1>10. ASSUME NEW r, r \in restored, r.token \notin TokensOf(new) PROVE r \in current
  BY <1>3, <1>4, <1>5, <1>10 DEF Underway, changed, new
<1> QED BY <1>2, <1>8, <1>9, <1>10

(* The rows of the manager, and the line they are streamed on. *)
SubsIInv ==
  /\ sub \in [status: SubscriptionStatus, active: BOOLEAN,
              entries: {{}} \cup {EntriesOf(u) : u \in Universes}, operations: Nat, failures: Nat]
  /\ tidy \in BOOLEAN
  /\ LineIsActiveEntries

LEMMA OperationBegins ==
  ASSUME SubsIInv
  PROVE  /\ Begun \in [status: SubscriptionStatus, active: BOOLEAN,
                       entries: {{}} \cup {EntriesOf(u) : u \in Universes}, operations: Nat, failures: Nat]
         /\ Begun.active = sub.active /\ Begun.entries = sub.entries
<1> DEFINE n == sub.operations + 1
<1>1. n \in Nat
  BY DEF SubsIInv
<1>2. Begun = [sub EXCEPT !.operations = n]
  BY DEF Begun
<1> HIDE DEF n
<1> QED BY <1>1, <1>2 DEF SubsIInv

LEMMA FailureRecorded ==
  ASSUME NEW s \in [status: SubscriptionStatus, active: BOOLEAN,
                    entries: {{}} \cup {EntriesOf(u) : u \in Universes}, operations: Nat, failures: Nat]
  PROVE  /\ Failed(s) \in [status: SubscriptionStatus, active: BOOLEAN,
                           entries: {{}} \cup {EntriesOf(u) : u \in Universes}, operations: Nat, failures: Nat]
         /\ Failed(s).active = s.active /\ Failed(s).entries = s.entries
<1> DEFINE n == s.failures + 1
<1>1. n \in Nat /\ "ERROR" \in SubscriptionStatus
  BY DEF SubscriptionStatus
<1>2. Failed(s) = [s EXCEPT !.status = "ERROR", !.failures = n]
  BY DEF Failed
<1> HIDE DEF n, SubscriptionStatus
<1> QED BY <1>1, <1>2

LEMMA NothingIsLeft ==
  ASSUME NEW rows
  PROVE  Removed(rows, TokensOf(rows)) = {}
BY DEF Removed, TokensOf

LEMMA SubscriptionStepsAreSound ==
  ASSUME SubsIInv, SubscriptionsNext
  PROVE  SubsIInv'
<1> DEFINE Snapshots == [status: SubscriptionStatus, active: BOOLEAN,
                         entries: {{}} \cup {EntriesOf(u) : u \in Universes},
                         operations: Nat, failures: Nat]
<1>1. sub \in Snapshots /\ tidy \in BOOLEAN /\ (tidy => line = IF sub.active THEN sub.entries ELSE {})
  BY DEF SubsIInv, LineIsActiveEntries
<1>2. Unambiguous(sub.entries)
  BY UniversesAreUnambiguous, EmptyIsUnambiguous DEF SubsIInv
<1>3. Begun \in Snapshots /\ Begun.active = sub.active /\ Begun.entries = sub.entries
  BY OperationBegins
<1>4. \A s \in Snapshots : Failed(s) \in Snapshots /\ Failed(s).active = s.active /\ Failed(s).entries = s.entries
  BY FailureRecorded
<1>5. ASSUME sub' \in Snapshots, tidy' \in BOOLEAN,
             tidy' => line' = IF sub'.active THEN sub'.entries ELSE {}
      PROVE  SubsIInv'
  BY <1>5 DEF SubsIInv, LineIsActiveEntries
<1>6. ASSUME NEW u \in Universes, Prepare(u) PROVE SubsIInv'
  <2>1. CASE sub.active
    BY <1>1, <1>5, <1>6, <2>1 DEF Prepare, subVars
  <2>2. CASE ~sub.active
    <3>1. sub' = [Begun EXCEPT !.entries = EntriesOf(u), !.status = "PREPARED"] /\ line' = line /\ tidy' = tidy
      BY <1>6, <2>2 DEF Prepare
    <3>2. sub' \in Snapshots /\ ~sub'.active
      BY <1>3, <2>2, <3>1 DEF SubscriptionStatus
    <3> QED BY <1>1, <1>5, <2>2, <3>1, <3>2
  <2> QED BY <2>1, <2>2
<1>7. ASSUME Activate(TRUE) PROVE SubsIInv'
  <2> DEFINE tokens == TokensOf(sub.entries)
             added == Added(line, tokens)
  <2>1. /\ ~sub.active /\ tidy' = tidy /\ line' = Moded(added, sub.entries)
        /\ sub' = [Begun EXCEPT !.active = TRUE, !.status = "ACTIVE"]
    BY <1>7 DEF Activate
  <2>2. sub' \in Snapshots /\ sub'.active /\ sub'.entries = sub.entries
    BY <1>3, <2>1 DEF SubscriptionStatus
  <2>3. ASSUME tidy PROVE line' = sub.entries
    <3>1. line = {}
      BY <1>1, <2>1, <2>3
    <3>2. /\ \A t : t \in TokensOf(added) <=> t \in tokens
          /\ \A r \in added : r.token \in tokens
      <4>1. TokensOf(line) = {}
        BY <3>1 DEF TokensOf
      <4> HIDE DEF tokens
      <4> QED BY <3>1, <4>1, AddedRows
    <3> HIDE DEF added
    <3>3. \A r \in sub.entries : r.token \in tokens
      BY DEF TokensOf
    <3> QED BY <2>1, <3>2, <3>3 DEF Moded
  <2> QED BY <1>1, <1>5, <2>1, <2>2, <2>3
<1>8. ASSUME Activate(FALSE) PROVE SubsIInv'
  <2> DEFINE tokens == TokensOf(sub.entries)
             added == Added(line, tokens)
             reached == {line} \cup PartlyModed(added, sub.entries)
             ended == [Begun EXCEPT !.active = FALSE]
  <2>1. /\ ~sub.active
        /\ sub' = Failed(ended)
        /\ \E o \in ActivationFails : line' = o[1] /\ tidy' = o[2]
    BY <1>8 DEF Activate
  <2>2. PICK l \in reached :
          (line' = Removed(l, tokens) /\ tidy' = tidy) \/ (line' = l /\ tidy' = FALSE)
    <3>1. PICK o \in ActivationFails : line' = o[1] /\ tidy' = o[2]
      BY <2>1
    <3>2. \/ \E l \in reached : o = <<Removed(l, tokens), tidy>>
          \/ \E l \in reached : o = <<l, FALSE>>
      BY <3>1 DEF ActivationFails, ActivationUndone
    <3> HIDE DEF reached, tokens
    <3>3. CASE \E l \in reached : o = <<Removed(l, tokens), tidy>>
      <4>1. PICK l \in reached : o = <<Removed(l, tokens), tidy>>
        BY <3>3
      <4>2. line' = Removed(l, tokens) /\ tidy' = tidy
        BY <3>1, <4>1
      <4> QED BY <4>2
    <3>4. CASE \E l \in reached : o = <<l, FALSE>>
      <4>1. PICK l \in reached : o = <<l, FALSE>>
        BY <3>4
      <4>2. line' = l /\ tidy' = FALSE
        BY <3>1, <4>1
      <4> QED BY <4>2
    <3> QED BY <3>2, <3>3, <3>4
  <2>3. ended \in Snapshots /\ ~ended.active
    BY <1>3
  <2> HIDE DEF ended
  <2>4. sub' \in Snapshots /\ ~sub'.active
    BY <1>4, <2>1, <2>3
  <2>5. ASSUME tidy PROVE Removed(l, tokens) = {}
    <3>1. line = {}
      BY <1>1, <2>1, <2>5
    <3>2. \A r \in added : r.token \in tokens
      BY <3>1, AddedRows
    <3>3. \A r \in l : r.token \in tokens
      <4>1. CASE l = line
        BY <3>1, <4>1
      <4>2. CASE l \in PartlyModed(added, sub.entries)
        <5>1. PICK done : l = Moded(added, {r \in sub.entries : r.mode \in done})
          BY <4>2 DEF PartlyModed
        <5>2. \A r \in l : r \in added \/ r \in sub.entries
          BY <5>1 DEF Moded
        <5> QED BY <3>2, <5>2 DEF TokensOf
      <4> QED BY <4>1, <4>2
    <3> QED BY <3>3 DEF Removed
  <2> QED BY <1>1, <1>5, <2>2, <2>4, <2>5
<1>9. ASSUME NEW u \in Universes, Replace(u, TRUE) PROVE SubsIInv'
  <2> DEFINE plan == Plan(sub.entries, EntriesOf(u))
  <2>1. CASE Nothing(plan)
    BY <1>1, <1>5, <1>9, <2>1 DEF Replace, subVars
  <2>2. CASE ~Nothing(plan)
    <3>1. /\ sub.active /\ tidy' = tidy
          /\ sub' = [Begun EXCEPT !.entries = EntriesOf(u), !.status = "ACTIVE"]
          /\ line' = Removed(Moded(Added(line, TokensOf(plan.subscribe)), plan.subscribe \cup plan.modeChange),
                             TokensOf(plan.unsubscribe))
      BY <1>9, <2>2 DEF Replace
    <3>2. sub' \in Snapshots /\ sub'.active /\ sub'.entries = EntriesOf(u)
      BY <1>3, <3>1 DEF SubscriptionStatus
    <3> HIDE DEF plan
    <3>3. tidy => line' = EntriesOf(u)
      BY <1>1, <1>2, <3>1, ReplacementStreams, UniversesAreUnambiguous DEF plan
    <3> QED BY <1>1, <1>5, <3>1, <3>2, <3>3
  <2> QED BY <2>1, <2>2
<1>10. ASSUME NEW u \in Universes, Replace(u, FALSE) PROVE SubsIInv'
  <2> DEFINE plan == Plan(sub.entries, EntriesOf(u))
  <2>1. CASE Nothing(plan)
    BY <1>1, <1>5, <1>10, <2>1 DEF Replace, subVars
  <2>2. CASE ~Nothing(plan)
    <3>1. /\ sub.active /\ sub' = Failed(Begun)
          /\ \E reached \in ReplacementReached(plan) :
               \/ line' = Undo(reached[1], reached[2], plan) /\ tidy' = tidy
               \/ line' = reached[1] /\ tidy' = FALSE
      BY <1>10, <2>2 DEF Replace
    <3>2. PICK reached \in ReplacementReached(plan) :
            \/ line' = Undo(reached[1], reached[2], plan) /\ tidy' = tidy
            \/ line' = reached[1] /\ tidy' = FALSE
      BY <3>1
    <3>3. sub' \in Snapshots /\ sub'.active /\ sub'.entries = sub.entries
      BY <1>3, <1>4, <3>1
    <3>4. ASSUME tidy PROVE Undo(reached[1], reached[2], plan) = sub.entries
      <4>1. line = sub.entries
        BY <1>1, <3>1, <3>4
      <4>2. plan = Plan(sub.entries, EntriesOf(u))
        OBVIOUS
      <4> HIDE DEF plan
      <4>3. Underway(reached[1], sub.entries, plan)
        BY <1>2, <4>1, <4>2, ReachedIsUnderway
      <4> QED BY <1>2, <4>2, <4>3, UndoRestores
    <3> QED BY <1>1, <1>5, <3>2, <3>3, <3>4
  <2> QED BY <2>1, <2>2
<1>11. ASSUME NEW ok \in BOOLEAN, Deactivate(ok) PROVE SubsIInv'
  <2>1. CASE ~sub.active
    BY <1>1, <1>5, <1>11, <2>1 DEF Deactivate, subVars
  <2>2. CASE sub.active /\ ok
    <3>1. /\ sub' = [Begun EXCEPT !.active = FALSE, !.status = "INACTIVE"] /\ tidy' = tidy
          /\ line' = Removed(line, TokensOf(sub.entries))
      BY <1>11, <2>2 DEF Deactivate
    <3>2. sub' \in Snapshots /\ ~sub'.active
      BY <1>3, <3>1 DEF SubscriptionStatus
    <3> QED BY <1>1, <1>5, <2>2, <3>1, <3>2, NothingIsLeft
  <2>3. CASE sub.active /\ ~ok
    <3>1. sub' = Failed(Begun) /\ tidy' = tidy /\ line' = line
      BY <1>11, <2>3 DEF Deactivate
    <3>2. sub' \in Snapshots /\ sub'.active /\ sub'.entries = sub.entries
      BY <1>3, <1>4, <2>3, <3>1
    <3> QED BY <1>1, <1>5, <2>3, <3>1, <3>2
  <2> QED BY <2>1, <2>2, <2>3
<1>12. ASSUME ClearSubscriptions PROVE SubsIInv'
  <2>1. ~sub.active /\ line' = line /\ tidy' = tidy
        /\ sub' = [status |-> "CLEARED", active |-> FALSE, entries |-> {}, operations |-> 0, failures |-> 0]
    BY <1>12 DEF ClearSubscriptions
  <2>2. sub' \in Snapshots /\ ~sub'.active
    BY <2>1 DEF SubscriptionStatus
  <2> QED BY <1>1, <1>5, <2>1, <2>2
<1>13. ASSUME NEW ok \in BOOLEAN, Activate(ok) PROVE SubsIInv'
  <2>1. ok = TRUE \/ ok = FALSE
    OBVIOUS
  <2> QED BY <1>7, <1>8, <1>13, <2>1
<1>14. ASSUME NEW u \in Universes, NEW ok \in BOOLEAN, Replace(u, ok) PROVE SubsIInv'
  <2>1. ok = TRUE \/ ok = FALSE
    OBVIOUS
  <2> QED BY <1>9, <1>10, <1>14, <2>1
<1> QED BY <1>6, <1>11, <1>12, <1>13, <1>14 DEF SubscriptionsNext

-----------------------------------------------------------------------------
(* The option chain.                                                        *)

(* The chain is of the runtime's universe, its times comparable with those  *)
(* of the quotes held.                                                       *)
AssembledIInv ==
  /\ chainClock \in Times
  /\ universe \in Universes
  /\ quotes \in [OptionTokens -> {None} \cup ZerodhaLiveOptionQuote]
  /\ baseline \in [OptionTokens -> {None} \cup OpenInterest]
  /\ chain # None => chain.at \in Nat /\ \A t \in Legs : chain.legs[t].at \in Nat
  /\ ChainIsOfOneMoment

(* The base of the comparison is the last chain of an earlier time, and the *)
(* history ends with the chain processed last.                               *)
AnalyticsSound(e) ==
  /\ e.source # None => e.source.at \in Nat
  /\ e.base = e.distinct
  /\ e.distinct # None => e.source # None /\ e.distinct.at < e.source.at
  /\ e.history \in Seq(Nat)
  /\ \A i, j \in 1..Len(e.history) : i < j => e.history[i] < e.history[j]
  /\ e.history # <<>> => e.source # None /\ e.history[Len(e.history)] = e.source.at

LEMMA BoundedHistoryInOrder ==
  ASSUME NEW h \in Seq(Nat), NEW at \in Nat,
         \A i, j \in 1..Len(h) : i < j => h[i] < h[j],
         h # <<>> => h[Len(h)] < at
  PROVE  /\ AppendBounded(h, at) \in Seq(Nat)
         /\ \A i, j \in 1..Len(AppendBounded(h, at)) :
              i < j => AppendBounded(h, at)[i] < AppendBounded(h, at)[j]
         /\ AppendBounded(h, at) # <<>>
         /\ AppendBounded(h, at)[Len(AppendBounded(h, at))] = at
<1> DEFINE longer == Append(h, at)
           n == Len(h)
<1>1. /\ longer \in Seq(Nat) /\ n \in Nat /\ Len(longer) = n + 1 /\ longer[n + 1] = at
      /\ \A k \in 1..n : longer[k] = h[k]
  OBVIOUS
<1>2. \A k \in 1..n : h[k] \in Nat /\ h[k] < at
  <2> SUFFICES ASSUME NEW k \in 1..n PROVE h[k] \in Nat /\ h[k] < at
    OBVIOUS
  <2>1. h[k] \in Nat /\ h[n] \in Nat /\ h # <<>>
    BY <1>1
  <2>2. k < n => h[k] < h[n]
    BY <1>1
  <2>3. k = n \/ k < n
    BY <1>1
  <2> QED BY <2>1, <2>2, <2>3
<1>3. \A i, j \in 1..(n + 1) : i < j => longer[i] < longer[j]
  <2> SUFFICES ASSUME NEW i \in 1..(n + 1), NEW j \in 1..(n + 1), i < j
               PROVE  longer[i] < longer[j]
    OBVIOUS
  <2>1. i \in 1..n
    BY <1>1
  <2>2. CASE j = n + 1
    BY <1>1, <1>2, <2>1, <2>2
  <2>3. CASE j # n + 1
    <3>1. j \in 1..n
      BY <1>1, <2>3
    <3> QED BY <1>1, <2>1, <3>1
  <2> QED BY <2>2, <2>3
<1>0. AppendBounded(h, at) =
        IF Len(longer) > HistoryLimit
          THEN SubSeq(longer, Len(longer) - HistoryLimit + 1, Len(longer)) ELSE longer
  BY DEF AppendBounded
<1> HIDE DEF longer
<1>4. CASE n + 1 > HistoryLimit
  <2> DEFINE start == n + 1 - HistoryLimit + 1
             cut == SubSeq(longer, start, n + 1)
  <2>1. start \in 1..(n + 1) /\ start \in Int /\ HistoryLimit \in Nat /\ HistoryLimit > 0
    BY <1>1, <1>4, AgeIsPositive
  <2>2. AppendBounded(h, at) = cut
    <3>1. Len(longer) > HistoryLimit /\ Len(longer) - HistoryLimit + 1 = start /\ Len(longer) = n + 1
      BY <1>1, <1>4, <2>1
    <3> HIDE DEF start, n
    <3>2. AppendBounded(h, at) = SubSeq(longer, Len(longer) - HistoryLimit + 1, Len(longer))
      BY <1>0, <3>1
    <3> QED BY <3>1, <3>2, Zenon
  <2>3. /\ cut \in Seq(Nat) /\ Len(cut) = HistoryLimit
        /\ \A k \in 1..HistoryLimit : cut[k] = longer[start + k - 1]
    BY <1>1, <2>1, SubSeqProperties
  <2>4. \A k \in 1..HistoryLimit : start + k - 1 \in 1..(n + 1)
    BY <1>1, <2>1
  <2>5. start + HistoryLimit - 1 = n + 1
    BY <1>1, <2>1
  <2> HIDE DEF cut, start
  <2>6. cut[HistoryLimit] = at
    BY <1>1, <2>1, <2>3, <2>5
  <2>7. \A i, j \in 1..HistoryLimit : i < j => cut[i] < cut[j]
    <3> SUFFICES ASSUME NEW i \in 1..HistoryLimit, NEW j \in 1..HistoryLimit, i < j
                 PROVE  cut[i] < cut[j]
      OBVIOUS
    <3>1. start + i - 1 < start + j - 1
      BY <2>1
    <3> QED BY <1>3, <2>3, <2>4, <3>1
  <2>8. cut # <<>>
    BY <2>1, <2>3
  <2> QED BY <2>2, <2>3, <2>6, <2>7, <2>8
<1>5. CASE ~(n + 1 > HistoryLimit)
  <2>1. AppendBounded(h, at) = longer
    BY <1>0, <1>1, <1>5
  <2>2. longer # <<>>
    BY <1>1
  <2> QED BY <1>1, <1>3, <2>1, <2>2
<1> QED BY <1>4, <1>5

LEMMA AnalysisIsSound ==
  ASSUME NEW e, AnalyticsSound(e), NEW c, c # None, c.at \in Nat,
         e.source = None \/ e.source.at <= c.at
  PROVE  AnalyticsSound(AnalysedChain(e, c))
<1> DEFINE correction == e.source # None /\ c.at = e.source.at
           earlier == IF correction THEN e.distinct ELSE e.source
           h == IF correction /\ e.history # <<>>
                THEN [e.history EXCEPT ![Len(e.history)] = c.at]
                ELSE AppendBounded(e.history, c.at)
           a == AnalysedChain(e, c)
<1>1. CASE e.source = c
  BY <1>1 DEF AnalysedChain, EngineUpdate
<1>2. CASE e.source # c
  <2>1. a = [source |-> c, distinct |-> earlier, base |-> earlier, history |-> h]
    BY <1>2 DEF AnalysedChain, EngineUpdate
  <2>2. earlier # None => earlier.at < c.at
    BY DEF AnalyticsSound
  <2>3. e.history \in Seq(Nat) /\ (\A i, j \in 1..Len(e.history) : i < j => e.history[i] < e.history[j])
        /\ (e.history # <<>> => e.source # None /\ e.source.at \in Nat /\ e.history[Len(e.history)] = e.source.at)
    BY DEF AnalyticsSound
  <2>4. /\ h \in Seq(Nat) /\ h # <<>> /\ h[Len(h)] = c.at
        /\ \A i, j \in 1..Len(h) : i < j => h[i] < h[j]
    <3>1. CASE correction /\ e.history # <<>>
      <4> DEFINE n == Len(e.history)
      <4>1. n \in Nat /\ n > 0 /\ n \in 1..n
        BY <2>3, <3>1
      <4>2. e.history[n] = c.at
        BY <2>3, <3>1
      <4>3. h = e.history
        BY <2>3, <3>1, <4>1, <4>2
      <4> QED BY <2>3, <3>1, <4>2, <4>3
    <3>2. CASE ~(correction /\ e.history # <<>>)
      <4>1. e.history # <<>> => e.history[Len(e.history)] < c.at
        BY <2>3, <3>2
      <4> QED BY <2>3, <3>2, <4>1, BoundedHistoryInOrder
    <3> QED BY <3>1, <3>2
  <2> HIDE DEF earlier, h, a
  <2>5. a.source = c /\ a.distinct = earlier /\ a.base = earlier /\ a.history = h
    BY <2>1
  <2>6. AnalyticsSound(a)
    BY <2>2, <2>4, <2>5 DEF AnalyticsSound
  <2> QED BY <2>6 DEF a
<1> QED BY <1>1, <1>2

LEMMA LegsAreTokens == universe \in Universes => Legs \subseteq OptionTokens
BY DEF Legs, OptionTokens

(* A row of a tick keeps the chain that of one moment, or makes it so. *)
LEMMA ProcessedRowIsSound ==
  ASSUME AssembledIInv, NEW token \in Legs, NEW at \in 0..chainClock, NEW oi \in OpenInterest,
         NEW readable \in BOOLEAN, ProcessedRow(token, at, oi, readable),
         UNCHANGED <<chainClock, universe>>
  PROVE  AssembledIInv'
<1> DEFINE base == BaselineFor(token, oi)
           quote == [at |-> at, oi |-> oi, change |-> oi - base]
           stored == [quotes EXCEPT ![token] = quote]
           whole == [at |-> chainClock, legs |-> [t \in Legs |-> stored[t]]]
<1>0. chainClock' = chainClock /\ universe' = universe /\ Legs' = Legs
  BY DEF Legs
<1>1. /\ chainClock \in 0..MaxChainTime /\ universe \in Universes /\ MaxChainTime \in Nat
      /\ quotes \in [OptionTokens -> {None} \cup ZerodhaLiveOptionQuote]
      /\ baseline \in [OptionTokens -> {None} \cup OpenInterest]
      /\ token \in OptionTokens /\ OpenInterest \subseteq Nat
  BY LegsAreTokens, QuotesAreValues DEF AssembledIInv, Times
<1>2. base \in OpenInterest
  BY <1>1 DEF BaselineFor
<1>3. baseline' \in [OptionTokens -> {None} \cup OpenInterest]
  BY <1>1, <1>2 DEF ProcessedRow
<1>4. quote \in ZerodhaLiveOptionQuote /\ quote.at = at /\ at \in Nat /\ at <= chainClock
  BY <1>1, <1>2 DEF ZerodhaLiveOptionQuote, Times
<1>5. \/ UNCHANGED <<quotes, chain>>
      \/ /\ Accepts(quotes[token], quote) /\ quotes' = stored /\ chain' = Assembled(stored).chain
  BY DEF ProcessedRow
<1> HIDE DEF base
<1>6. CASE UNCHANGED <<quotes, chain>>
  <2>1. quotes' = quotes /\ chain' = chain
    BY <1>6
  <2> QED BY <1>0, <1>3, <2>1 DEF AssembledIInv, ChainIsOfOneMoment
<1>7. CASE /\ Accepts(quotes[token], quote) /\ quotes' = stored /\ chain' = Assembled(stored).chain
  <2> HIDE DEF quote
  <2>1. stored \in [OptionTokens -> {None} \cup ZerodhaLiveOptionQuote]
        /\ stored[token] = quote /\ \A t \in OptionTokens \ {token} : stored[t] = quotes[t]
    BY <1>1, <1>4
  <2>2. quote # None
    BY <1>4, QuotesAreValues
  <2>3. \A t \in OptionTokens : quotes[t] # None => stored[t] # None /\ quotes[t].at <= stored[t].at
    <3> SUFFICES ASSUME NEW t \in OptionTokens, quotes[t] # None
                 PROVE  stored[t] # None /\ quotes[t].at <= stored[t].at
      OBVIOUS
    <3>1. quotes[t].at \in Nat
      BY <1>1 DEF ZerodhaLiveOptionQuote, Times
    <3>2. CASE t = token
      BY <1>7, <2>1, <2>2, <3>2 DEF Accepts
    <3>3. CASE t # token
      BY <2>1, <3>1, <3>3
    <3> QED BY <3>2, <3>3
  <2>4. \A t \in OptionTokens : stored[t] # None => stored[t].at \in Nat
    BY <1>1, <2>1 DEF ZerodhaLiveOptionQuote, Times
  <2> HIDE DEF stored
  <2>5. CASE chain' = chain
    <3>1. ASSUME chain # None, NEW t \in Legs
          PROVE  /\ chain.at - chain.legs[t].at <= MaxAge
                 /\ stored[t] # None /\ chain.legs[t].at <= stored[t].at
      <4>1. t \in OptionTokens
        BY <1>1, LegsAreTokens
      <4>2. chain.legs[t].at \in Nat /\ chain.at - chain.legs[t].at <= MaxAge
            /\ quotes[t] # None /\ chain.legs[t].at <= quotes[t].at
        BY <3>1 DEF AssembledIInv, ChainIsOfOneMoment
      <4>3. stored[t] # None /\ quotes[t].at <= stored[t].at /\ stored[t].at \in Nat
        BY <2>3, <2>4, <4>1, <4>2
      <4>4. quotes[t].at \in Nat
        BY <1>1, <4>1, <4>2 DEF ZerodhaLiveOptionQuote, Times
      <4> QED BY <4>2, <4>3, <4>4
    <3>2. ChainIsOfOneMoment'
      BY <1>0, <1>7, <2>5, <3>1 DEF ChainIsOfOneMoment, AssembledIInv
    <3> QED BY <1>0, <1>3, <1>7, <2>1, <2>5, <3>2 DEF AssembledIInv
  <2>6. CASE chain' # chain
    <3>1. Complete(stored) /\ NotStale(stored) /\ chain' = whole
      BY <1>7, <2>6 DEF Assembled
    <3>2. ASSUME NEW t \in Legs
          PROVE  /\ whole.legs[t] = stored[t] /\ stored[t] # None /\ stored[t].at \in Nat
                 /\ whole.at - stored[t].at <= MaxAge
      <4>1. t \in OptionTokens
        BY <1>1, LegsAreTokens
      <4>2. stored[t] # None /\ chainClock - stored[t].at <= MaxAge
        BY <3>1 DEF Complete, NotStale, FreshChain
      <4> QED BY <2>4, <4>1, <4>2
    <3>3. whole.at \in Nat /\ DOMAIN whole.legs = Legs
      BY <1>1
    <3> HIDE DEF whole
    <3>4. ChainIsOfOneMoment'
      BY <1>0, <1>7, <3>1, <3>2, <3>3 DEF ChainIsOfOneMoment
    <3> QED BY <1>0, <1>3, <1>7, <2>1, <3>1, <3>2, <3>3, <3>4 DEF AssembledIInv
  <2> QED BY <2>5, <2>6
<1> QED BY <1>5, <1>6, <1>7

ChainIInv == SubsIInv /\ AssembledIInv /\ AnalyticsSound(analytics)

LEMMA ChainInitIsSound == ChainInit => ChainIInv
<1> SUFFICES ASSUME ChainInit PROVE ChainIInv
  OBVIOUS
<1>1. SubsIInv
  BY DEF ChainInit, SubscriptionsInit, SubsIInv, SubscriptionStatus, LineIsActiveEntries
<1>2. AssembledIInv
  BY QuotesAreValues DEF ChainInit, LiveChainInit, AssembledIInv, ChainIsOfOneMoment, Times
<1>3. AnalyticsSound(analytics)
  BY DEF ChainInit, AnalyticsInit, NoEngine, AnalyticsSound
<1> QED BY <1>1, <1>2, <1>3 DEF ChainIInv

LEMMA ChainStepIsSound == ChainIInv /\ [ChainNext]_<<subVars, chainVars>> => ChainIInv'
<1> SUFFICES ASSUME ChainIInv, [ChainNext]_<<subVars, chainVars>> PROVE ChainIInv'
  OBVIOUS
<1>1. SubsIInv /\ AssembledIInv /\ AnalyticsSound(analytics)
  BY DEF ChainIInv
<1>2. ASSUME UNCHANGED subVars PROVE SubsIInv'
  BY <1>1, <1>2 DEF subVars, SubsIInv, LineIsActiveEntries
<1>3. ASSUME UNCHANGED <<universe, quotes, chain>>, chainClock' \in Times,
             baseline' \in [OptionTokens -> {None} \cup OpenInterest]
      PROVE  AssembledIInv'
  <2>1. universe' = universe /\ quotes' = quotes /\ chain' = chain /\ Legs' = Legs
    BY <1>3 DEF Legs
  <2> QED BY <1>1, <1>3, <2>1 DEF AssembledIInv, ChainIsOfOneMoment
<1>4. ASSUME UNCHANGED <<chainClock, universe, quotes, baseline, chain>> PROVE AssembledIInv'
  <2>1. /\ UNCHANGED <<universe, quotes, chain>> /\ chainClock' \in Times
        /\ baseline' \in [OptionTokens -> {None} \cup OpenInterest]
    BY <1>1, <1>4 DEF AssembledIInv
  <2> QED BY <1>3, <2>1
<1>5. ASSUME UNCHANGED analytics PROVE AnalyticsSound(analytics)'
  BY <1>1, <1>5 DEF AnalyticsSound
<1>6. CASE TimePasses
  <2>1. /\ UNCHANGED subVars /\ UNCHANGED analytics /\ UNCHANGED <<universe, quotes, chain>>
        /\ chainClock' = chainClock + 1 /\ chainClock < MaxChainTime /\ baseline' = baseline
    BY <1>6 DEF TimePasses
  <2>2. chainClock' \in Times /\ baseline' \in [OptionTokens -> {None} \cup OpenInterest]
    BY <1>1, <2>1, QuotesAreValues DEF AssembledIInv, Times
  <2> QED BY <1>2, <1>3, <1>5, <2>1, <2>2 DEF ChainIInv
<1>7. CASE DeliverOptionTick
  <2>1. /\ UNCHANGED subVars /\ UNCHANGED analytics /\ UNCHANGED <<chainClock, universe>>
        /\ \E token \in Legs, at \in 0..chainClock, oi \in OpenInterest, readable \in BOOLEAN :
             ProcessedRow(token, at, oi, readable)
    BY <1>7 DEF DeliverOptionTick
  <2>2. AssembledIInv'
    BY <1>1, <2>1, ProcessedRowIsSound
  <2> QED BY <1>2, <1>5, <2>1, <2>2 DEF ChainIInv
<1>8. CASE SeedBaseline
  <2>1. /\ UNCHANGED subVars /\ UNCHANGED analytics /\ UNCHANGED <<universe, quotes, chain>>
        /\ chainClock' = chainClock
        /\ \E token \in Legs, oi \in OpenInterest : baseline' = [baseline EXCEPT ![token] = oi]
    BY <1>8 DEF SeedBaseline
  <2>2. chainClock' \in Times /\ baseline' \in [OptionTokens -> {None} \cup OpenInterest]
    BY <1>1, <2>1 DEF AssembledIInv
  <2> QED BY <1>2, <1>3, <1>5, <2>1, <2>2 DEF ChainIInv
<1>9. CASE ProcessCurrent
  <2>1. /\ UNCHANGED subVars /\ UNCHANGED <<chainClock, universe, quotes, baseline, chain>>
        /\ chain # None /\ analytics' = AnalysedChain(analytics, chain)
        /\ analytics.source = None \/ analytics.source.at <= chain.at
    BY <1>9 DEF ProcessCurrent
  <2>2. chain.at \in Nat
    BY <1>1, <2>1 DEF AssembledIInv
  <2>3. AnalyticsSound(analytics')
    BY <1>1, <2>1, <2>2, AnalysisIsSound
  <2>4. AnalyticsSound(analytics)'
    BY <2>3 DEF AnalyticsSound
  <2> QED BY <1>2, <1>4, <2>1, <2>4 DEF ChainIInv
<1>10. CASE ReplaceUniverse \/ ClearIntegration
  <2>1. /\ UNCHANGED subVars /\ UNCHANGED analytics /\ chainClock' = chainClock
        /\ universe' \in Universes /\ chain' = None
        /\ quotes' = [t \in OptionTokens |-> None] /\ baseline' = [t \in OptionTokens |-> None]
    <3>1. CASE ReplaceUniverse
      BY <3>1 DEF ReplaceUniverse
    <3>2. CASE ClearIntegration
      BY <1>1, <3>2 DEF ClearIntegration, AssembledIInv
    <3> QED BY <1>10, <3>1, <3>2
  <2>2. AssembledIInv'
    BY <1>1, <2>1 DEF AssembledIInv, ChainIsOfOneMoment
  <2> QED BY <1>2, <1>5, <2>1, <2>2 DEF ChainIInv
<1>11. CASE DeliverSpot \/ LifecycleSwitches \/ ValidateIntegration \/ StartIntegration \/ StopIntegration
            \/ ValidateAnalytics \/ StartAnalytics \/ StopAnalytics
  <2>1. /\ UNCHANGED subVars /\ UNCHANGED analytics
        /\ UNCHANGED <<chainClock, universe, quotes, baseline, chain>>
    BY <1>11 DEF DeliverSpot, LifecycleSwitches, ValidateIntegration, StartIntegration, StopIntegration,
                 ValidateAnalytics, StartAnalytics, StopAnalytics
  <2> QED BY <1>2, <1>4, <1>5, <2>1 DEF ChainIInv
<1>12. CASE ClearAnalytics
  <2>1. /\ UNCHANGED subVars /\ analytics' = NoEngine
        /\ UNCHANGED <<chainClock, universe, quotes, baseline, chain>>
    BY <1>12 DEF ClearAnalytics, EngineReset
  <2>2. AnalyticsSound(analytics)'
    BY <2>1 DEF AnalyticsSound, NoEngine
  <2> QED BY <1>2, <1>4, <2>1, <2>2 DEF ChainIInv
<1>13. CASE Subscribing
  <2>1. SubscriptionsNext /\ UNCHANGED analytics /\ UNCHANGED <<chainClock, universe, quotes, baseline, chain>>
    BY <1>13 DEF Subscribing, chainVars
  <2>2. SubsIInv'
    BY <1>1, <2>1, SubscriptionStepsAreSound
  <2> QED BY <1>4, <1>5, <2>1, <2>2 DEF ChainIInv
<1>14. CASE UNCHANGED <<subVars, chainVars>>
  <2>1. /\ UNCHANGED subVars /\ UNCHANGED analytics
        /\ UNCHANGED <<chainClock, universe, quotes, baseline, chain>>
    BY <1>14 DEF chainVars
  <2> QED BY <1>2, <1>4, <1>5, <2>1 DEF ChainIInv
<1> QED BY <1>6, <1>7, <1>8, <1>9, <1>10, <1>11, <1>12, <1>13, <1>14 DEF ChainNext, Feeding, Coordinating

(* From the broker's line to the analytics, a chain is that of its universe  *)
(* at one moment and compared with what came before it, whatever calls fail *)
(* half way (zerodha_option_subscriptions, live_option_chain and the option  *)
(* chain analytics): for any universes, ages and history limit.              *)
THEOREM ChainsStaySound == ChainSpec => []ChainsAreSound
<1>1. ChainIInv => ChainsAreSound
  <2> SUFFICES ASSUME ChainIInv PROVE ChainsAreSound
    OBVIOUS
  <2>1. LineIsActiveEntries /\ ChainIsOfOneMoment
    BY DEF ChainIInv, SubsIInv, AssembledIInv
  <2>2. AnalyticsSound(analytics)
    BY DEF ChainIInv
  <2>3. DOMAIN analytics.history = 1..Len(analytics.history)
    BY <2>2 DEF AnalyticsSound
  <2>4. ComparedWithEarlier
    BY <2>2, <2>3 DEF AnalyticsSound, ComparedWithEarlier
  <2> QED BY <2>1, <2>4 DEF ChainsAreSound
<1> QED BY <1>1, ChainInitIsSound, ChainStepIsSound, PTL DEF ChainSpec

-----------------------------------------------------------------------------
(* Induction *)

(* A set of numbers that holds 0 and every successor holds all of them.     *)
LEMMA Counting ==
  ASSUME NEW S, 0 \in S, \A n \in Nat : n \in S => n + 1 \in S
  PROVE  \A n \in Nat : n \in S
<1> DEFINE T == Nat \ S
           R == OpToRel(<, Nat)
<1> SUFFICES ASSUME T # {} PROVE FALSE
  OBVIOUS
<1>1. PICK n \in T : \A m \in T : <<m, n>> \notin R
  <2>1. T \subseteq Nat
    OBVIOUS
  <2> HIDE DEF T, R
  <2> QED BY <2>1, NatLessThanWellFounded, WFMin DEF R
<1>2. n \in Nat \ {0} /\ n - 1 \in Nat
  OBVIOUS
<1>3. n - 1 \in S
  <2>1. <<n - 1, n>> \in R
    BY <1>2 DEF OpToRel
  <2> QED BY <1>1, <1>2, <2>1
<1> QED BY <1>2, <1>3

-----------------------------------------------------------------------------
(* Handing candles to the analysis one by one.                              *)

Analyses == [list : Seq(CandleRecords), raised : BOOLEAN]

(* g holds what the analysis has after each of the first n candles of cs.   *)
IsWalk(g, list, cs, n) ==
  /\ g[0] = [list |-> list, raised |-> FALSE]
  /\ \A k \in 1..n : g[k] = Take(g[k - 1], cs[k])

LEMMA WalkExists ==
  ASSUME NEW list, NEW cs, Len(cs) \in Nat
  PROVE  \E g : IsWalk(g, list, cs, Len(cs)) /\ Analysed(list, cs) = g[Len(cs)]
<1> DEFINE Step(g, k) == IF k = 0 THEN [list |-> list, raised |-> FALSE] ELSE Take(g[k - 1], cs[k])
           S == {n \in Nat : \E g : g = [k \in 0..n |-> Step(g, k)]}
           f == CHOOSE g : g = [k \in 0..Len(cs) |-> Step(g, k)]
<1>1. 0 \in S
  <2>1. [k \in 0..0 |-> [list |-> list, raised |-> FALSE]] = [k \in 0..0 |-> Step([j \in 0..0 |-> [list |-> list, raised |-> FALSE]], k)]
    OBVIOUS
  <2> HIDE DEF Step
  <2> QED BY <2>1
<1>2. ASSUME NEW n \in Nat, n \in S PROVE n + 1 \in S
  <2>1. PICK g : g = [k \in 0..n |-> Step(g, k)]
    BY <1>2
  <2> DEFINE h == [k \in 0..n + 1 |-> IF k = n + 1 THEN Take(g[n], cs[n + 1]) ELSE g[k]]
  <2>2. ASSUME NEW k \in 0..n + 1 PROVE h[k] = Step(h, k)
    <3>1. CASE k = n + 1
      <4>1. h[k] = Take(g[n], cs[n + 1]) /\ h[k - 1] = g[n] /\ k # 0
        BY <3>1
      <4> QED BY <4>1, <3>1
    <3>2. CASE k # n + 1
      <4>1. k \in 0..n /\ h[k] = g[k]
        BY <3>2
      <4>3. g[k] = Step(g, k)
        <5> HIDE DEF Step
        <5> QED BY <4>1, <2>1
      <4>2. k # 0 => k - 1 \in 0..n + 1 /\ k - 1 # n + 1 /\ h[k - 1] = g[k - 1]
        BY <3>2
      <4> QED BY <4>1, <4>2, <4>3
    <3> QED BY <3>1, <3>2
  <2>3. h = [k \in 0..n + 1 |-> Step(h, k)]
    <3>1. h = [k \in 0..n + 1 |-> h[k]]
      OBVIOUS
    <3> HIDE DEF h, Step
    <3> QED BY <3>1, <2>2
  <2> HIDE DEF h, Step
  <2> QED BY <2>3
<1>3. \A n \in Nat : n \in S
  <2> HIDE DEF S
  <2> QED BY <1>1, <1>2, Counting
<1>4. f = [k \in 0..Len(cs) |-> Step(f, k)]
  <2>1. Len(cs) \in S
    BY <1>3
  <2> HIDE DEF Step
  <2> QED BY <2>1
<1>5. Analysed(list, cs) = f[Len(cs)]
  BY DEF Analysed
<1>6. IsWalk(f, list, cs, Len(cs))
  <2>1. \A k \in 0..Len(cs) : f[k] = Step(f, k)
    <3> HIDE DEF Step, f
    <3> QED BY <1>4
  <2>2. f[0] = Step(f, 0) /\ \A k \in 1..Len(cs) : f[k] = Step(f, k) /\ k # 0
    <3> HIDE DEF Step, f
    <3> QED BY <2>1
  <2> HIDE DEF f
  <2> QED BY <2>2 DEF IsWalk
<1> QED BY <1>5, <1>6

LEMMA WalkUnique ==
  ASSUME NEW list, NEW cs, NEW ds, NEW n \in Nat, NEW g, NEW h,
         IsWalk(g, list, cs, n), IsWalk(h, list, ds, n),
         \A k \in 1..n : cs[k] = ds[k]
  PROVE  \A k \in 0..n : g[k] = h[k]
<1> DEFINE S == {k \in Nat : k <= n => g[k] = h[k]}
<1>1. 0 \in S
  BY DEF IsWalk
<1>2. ASSUME NEW k \in Nat, k \in S PROVE k + 1 \in S
  <2>1. CASE k + 1 <= n
    <3>1. k + 1 \in 1..n /\ (k + 1) - 1 = k /\ g[k] = h[k]
      BY <2>1, <1>2
    <3>2. g[k + 1] = Take(g[k], cs[k + 1]) /\ h[k + 1] = Take(h[k], ds[k + 1])
      BY <3>1 DEF IsWalk
    <3> QED BY <3>1, <3>2
  <2> QED BY <2>1
<1>3. \A k \in Nat : k \in S
  <2> HIDE DEF S
  <2> QED BY <1>1, <1>2, Counting
<1> QED BY <1>3

LEMMA WalkIs ==
  ASSUME NEW list, NEW cs, Len(cs) \in Nat, NEW g, IsWalk(g, list, cs, Len(cs))
  PROVE  Analysed(list, cs) = g[Len(cs)]
<1>1. PICK h : IsWalk(h, list, cs, Len(cs)) /\ Analysed(list, cs) = h[Len(cs)]
  BY WalkExists
<1>2. \A k \in 0..Len(cs) : g[k] = h[k]
  BY <1>1, WalkUnique
<1> QED BY <1>1, <1>2

(* A walk passes through what the analysis makes of every beginning.        *)
LEMMA WalkOfBeginning ==
  ASSUME NEW list, NEW C, NEW cs \in Seq(C), NEW g, IsWalk(g, list, cs, Len(cs)),
         NEW k \in 0..Len(cs)
  PROVE  Analysed(list, SubSeq(cs, 1, k)) = g[k]
<1> DEFINE ds == SubSeq(cs, 1, k)
<1>1. Len(cs) \in Nat /\ k \in Nat /\ Len(ds) = k /\ \A i \in 1..k : ds[i] = cs[i]
  BY SubSeqProperties, ElementOfSeq, LenProperties
<1>2. \A i \in 1..k : i \in 1..Len(cs)
  BY <1>1
<1>3. IsWalk(g, list, ds, Len(ds))
  <2> HIDE DEF ds
  <2> QED BY <1>1, <1>2 DEF IsWalk
<1>4. Analysed(list, ds) = g[Len(ds)]
  <2> HIDE DEF ds
  <2> QED BY <1>1, <1>3, WalkIs
<1> QED BY <1>1, <1>4

(* What a list must be for the next candle to find its place.               *)
Ascending(list) ==
  /\ \A i \in 1..Len(list) : ValidCandle(list[i])
  /\ \A i, j \in 1..Len(list) : i < j => list[i].start < list[j].start

LEMMA TakeRaised ==
  ASSUME NEW acc \in Analyses, acc.raised, NEW c
  PROVE  Take(acc, c) = acc
BY DEF Take, Analyses

LEMMA TakeTyped ==
  ASSUME NEW acc \in Analyses, NEW c \in CandleRecords
  PROVE  /\ Take(acc, c) \in Analyses
         /\ Take(acc, c).raised => Take(acc, c).list = acc.list
<1> DEFINE list == acc.list
<1>1. list \in Seq(CandleRecords) /\ Len(list) \in Nat /\ acc.raised \in BOOLEAN
  BY DEF Analyses
<1>2. Append(list, c) \in Seq(CandleRecords)
  BY <1>1
<1>3. list # <<>> => Append(SubSeq(list, 1, Len(list) - 1), c) \in Seq(CandleRecords)
  <2>1. \A i \in 1..Len(list) - 1 : list[i] \in CandleRecords
    BY <1>1, ElementOfSeq
  <2>2. SubSeq(list, 1, Len(list) - 1) \in Seq(CandleRecords)
    BY <1>1, <2>1, SubSeqProperties
  <2> QED BY <2>2
<1> QED BY <1>1, <1>2, <1>3 DEF Take, Analyses

(* A candle that is taken becomes the newest, in its place.                 *)
LEMMA TakeTaken ==
  ASSUME NEW acc \in Analyses, NEW c \in CandleRecords,
         Ascending(acc.list), ~Take(acc, c).raised
  PROVE  /\ ~acc.raised /\ ValidCandle(c)
         /\ Ascending(Take(acc, c).list)
         /\ Take(acc, c).list # <<>> /\ Last(Take(acc, c).list) = c
         /\ acc.list # <<>> =>
              \/ /\ c.start = Last(acc.list).start
                 /\ Take(acc, c).list = Append(Front(acc.list), c)
              \/ /\ c.start > Last(acc.list).start
                 /\ Take(acc, c).list = Append(acc.list, c)
<1> DEFINE list == acc.list
           last == Last(acc.list)
<1>1. list \in Seq(CandleRecords) /\ Len(list) \in Nat /\ acc.raised \in BOOLEAN
  BY DEF Analyses
<1>2. ~acc.raised /\ ValidCandle(c) /\ ~Late(list, c)
  BY <1>1 DEF Take, Analyses
<1>3. CASE list = <<>>
  <2>1. Take(acc, c).list = Append(list, c)
    BY <1>1, <1>2, <1>3 DEF Take
  <2>2. Append(list, c) = <<c>>
    BY <1>3
  <2> QED BY <1>2, <1>3, <2>1, <2>2 DEF Ascending, Last
<1>4. CASE list # <<>>
  <2>1. /\ Len(list) \in 1..Len(list) /\ last = list[Len(list)] /\ last \in CandleRecords
        /\ ValidCandle(last)
        /\ \A i \in 1..Len(list) : list[i] \in CandleRecords
        /\ \A i \in 1..Len(list) - 1 : i \in 1..Len(list) /\ list[i].start < last.start
    BY <1>1, <1>4, ElementOfSeq, EmptySeq DEF Ascending, Last
  <2>3. last.start < last.end /\ last.start \in Int /\ last.end \in Int /\ c.start \in Int
    BY <2>1 DEF ValidCandle, CandleRecords
  <2>2. c.start = last.start \/ c.start >= last.end
    <3>1. c.start = last.start \/ ~(c.start < last.end)
      BY <1>2, <1>4, Zenon DEF Late
    <3> QED BY <2>3, <3>1
  <2>4. \A i \in 1..Len(list) : list[i].start \in Int
    BY <2>1 DEF CandleRecords
  <2>5. CASE c.start = last.start
    <3>1. c.start \in StartsOf(list)
      <4>1. Len(list) \in DOMAIN list
        BY <1>1, <2>1
      <4> QED BY <4>1, <2>1, <2>5 DEF StartsOf
    <3>2. Take(acc, c).list = Append(SubSeq(list, 1, Len(list) - 1), c)
      BY <1>2, <1>4, <3>1 DEF Take, Analyses
    <3> DEFINE front == SubSeq(list, 1, Len(list) - 1)
    <3>3. /\ front \in Seq(CandleRecords) /\ Len(front) = Len(list) - 1
          /\ \A i \in 1..Len(list) - 1 : front[i] = list[i]
      BY <1>1, <2>1, SubSeqProperties
    <3>4. front = Front(list)
      BY DEF Front
    <3> DEFINE new == Append(front, c)
    <3> HIDE DEF front
    <3>5.   /\ Len(new) = Len(list) /\ new[Len(list)] = c /\ new \in Seq(CandleRecords)
            /\ \A i \in 1..Len(list) - 1 : new[i] = list[i]
      BY <3>3, <2>1
    <3>6. Ascending(new)
      <4>1. \A i \in 1..Len(new) : i = Len(list) \/ i \in 1..Len(list) - 1
        BY <3>5, <1>1
      <4>2. \A i \in 1..Len(list) - 1 : new[i] = list[i] /\ new[i].start < c.start /\ ValidCandle(new[i])
        BY <3>5, <2>1, <2>5 DEF Ascending
      <4>3. ASSUME NEW i \in 1..Len(new), NEW j \in 1..Len(new), i < j PROVE new[i].start < new[j].start
        <5>1. i \in 1..Len(list) - 1
          BY <4>1, <4>3, <3>5, <1>1
        <5>2. CASE j = Len(list)
          BY <5>1, <5>2, <4>2, <3>5
        <5>3. CASE j \in 1..Len(list) - 1
          BY <5>1, <5>3, <4>2, <4>3, <2>1 DEF Ascending
        <5> QED BY <4>1, <5>2, <5>3
      <4>4. \A i \in 1..Len(new) : ValidCandle(new[i])
        BY <4>1, <4>2, <3>5, <1>2
      <4> HIDE DEF new
      <4> QED BY <4>3, <4>4 DEF Ascending
    <3>7. new # <<>> /\ Last(new) = c
      <4>1. Len(new) # 0 /\ Len(<<>>) = 0
        BY <3>5, <2>1
      <4> HIDE DEF new
      <4> QED BY <4>1, <3>5 DEF Last
    <3>8. Take(acc, c).list = new
      BY <3>2 DEF front
    <3>9. list # <<>> /\ new = Append(Front(list), c)
      BY <1>4, <3>4
    <3> HIDE DEF new
    <3> QED BY <1>2, <2>5, <3>6, <3>7, <3>8, <3>9
  <2>6. CASE c.start # last.start
    <3>1. c.start > last.start
      BY <2>2, <2>3, <2>6
    <3>2. c.start \notin StartsOf(list)
      <4>1. ASSUME NEW i \in DOMAIN list PROVE list[i].start < c.start
        <5>1. i \in 1..Len(list)
          BY <1>1
        <5>2. i = Len(list) \/ i \in 1..Len(list) - 1
          BY <5>1, <1>1
        <5> QED BY <5>1, <5>2, <2>1, <2>3, <2>4, <3>1
      <4>2. \A i \in DOMAIN list : list[i].start \in Int
        BY <1>1, <2>4
      <4> QED BY <4>1, <4>2, <2>3 DEF StartsOf
    <3>3. Take(acc, c).list = Append(list, c)
      BY <1>2, <3>2 DEF Take, Analyses
    <3> DEFINE new == Append(list, c)
    <3>4. /\ Len(new) = Len(list) + 1 /\ new[Len(list) + 1] = c /\ new \in Seq(CandleRecords)
          /\ \A i \in 1..Len(list) : new[i] = list[i]
      BY <1>1
    <3>5. Ascending(new)
      <4>1. \A i \in 1..Len(new) : i = Len(list) + 1 \/ i \in 1..Len(list)
        BY <3>4, <1>1
      <4>2. \A i \in 1..Len(list) : new[i] = list[i] /\ new[i].start < c.start /\ ValidCandle(new[i])
        <5>1. ASSUME NEW i \in 1..Len(list) PROVE list[i].start < c.start
          <6>1. i = Len(list) \/ i \in 1..Len(list) - 1
            BY <1>1
          <6> QED BY <6>1, <2>1, <2>3, <2>4, <3>1
        <5> QED BY <5>1, <3>4 DEF Ascending
      <4>3. ASSUME NEW i \in 1..Len(new), NEW j \in 1..Len(new), i < j PROVE new[i].start < new[j].start
        <5>1. i \in 1..Len(list)
          BY <4>1, <4>3, <3>4, <1>1
        <5>2. CASE j = Len(list) + 1
          BY <5>1, <5>2, <4>2, <3>4
        <5>3. CASE j \in 1..Len(list)
          BY <5>1, <5>3, <4>2, <4>3 DEF Ascending
        <5> QED BY <4>1, <5>2, <5>3
      <4>4. \A i \in 1..Len(new) : ValidCandle(new[i])
        BY <4>1, <4>2, <3>4, <1>2
      <4> HIDE DEF new
      <4> QED BY <4>3, <4>4 DEF Ascending
    <3>6. new # <<>> /\ Last(new) = c
      <4>1. Len(new) # 0 /\ Len(<<>>) = 0 /\ Len(new) = Len(list) + 1
        BY <3>4, <1>1
      <4> HIDE DEF new
      <4> QED BY <4>1, <3>4 DEF Last
    <3>7. Take(acc, c).list = new
      BY <3>3
    <3>8. new = Append(list, c)
      OBVIOUS
    <3> HIDE DEF new
    <3> QED BY <1>2, <3>1, <3>5, <3>6, <3>7, <3>8
  <2> QED BY <2>5, <2>6
<1> QED BY <1>3, <1>4

LEMMA WalkTyped ==
  ASSUME NEW list \in Seq(CandleRecords), NEW cs \in Seq(CandleRecords),
         NEW n \in 0..Len(cs), NEW g, IsWalk(g, list, cs, n)
  PROVE  \A k \in 0..n : g[k] \in Analyses
<1> DEFINE S == {k \in Nat : k <= n => g[k] \in Analyses}
<1>1. 0 \in S
  <2>1. [list |-> list, raised |-> FALSE] \in Analyses
    BY DEF Analyses
  <2> QED BY <2>1 DEF IsWalk
<1>2. ASSUME NEW k \in Nat, k \in S PROVE k + 1 \in S
  <2>1. CASE k + 1 <= n
    <3>1. k + 1 \in 1..n /\ (k + 1) - 1 = k /\ g[k] \in Analyses /\ k + 1 \in 1..Len(cs)
      BY <2>1, <1>2
    <3>2. g[k + 1] = Take(g[k], cs[k + 1])
      BY <3>1 DEF IsWalk
    <3>3. cs[k + 1] \in CandleRecords
      BY <3>1, ElementOfSeq
    <3> QED BY <3>1, <3>2, <3>3, TakeTyped
  <2> QED BY <2>1
<1>3. \A k \in Nat : k \in S
  <2> HIDE DEF S
  <2> QED BY <1>1, <1>2, Counting
<1> QED BY <1>3

(* As long as no candle was refused, the list ends with the last one handed *)
(* over, and none of those before it starts later.                          *)
UpTo(g, cs, k) ==
  /\ \A j \in 0..k : ~g[j].raised
  /\ Ascending(g[k].list)
  /\ k > 0 => g[k].list # <<>> /\ Last(g[k].list) = cs[k]
  /\ \A j \in 1..k : ValidCandle(cs[j]) /\ cs[j].start <= cs[k].start

LEMMA WalkAscends ==
  ASSUME NEW cs \in Seq(CandleRecords), NEW n \in 0..Len(cs), NEW g, IsWalk(g, <<>>, cs, n)
  PROVE  \A k \in 0..n : ~g[k].raised => UpTo(g, cs, k)
<1> DEFINE S == {k \in Nat : k <= n /\ ~g[k].raised => UpTo(g, cs, k)}
<1>1. 0 \in S
  <2>1. g[0] = [list |-> <<>>, raised |-> FALSE]
    BY DEF IsWalk
  <2>2. Ascending(<<>>)
    BY DEF Ascending
  <2>3. \A j \in 0..0 : j = 0
    OBVIOUS
  <2> QED BY <2>1, <2>2, <2>3 DEF UpTo
<1>2. ASSUME NEW k \in Nat, k \in S PROVE k + 1 \in S
  <2> SUFFICES ASSUME k + 1 <= n, ~g[k + 1].raised PROVE UpTo(g, cs, k + 1)
    OBVIOUS
  <2>1. k + 1 \in 1..n /\ (k + 1) - 1 = k /\ k \in 0..n /\ k + 1 \in 1..Len(cs) /\ k < n
    OBVIOUS
  <2>2. g[k + 1] = Take(g[k], cs[k + 1])
    BY <2>1 DEF IsWalk
  <2>3. cs[k + 1] \in CandleRecords /\ g[k] \in Analyses
    BY <2>1, ElementOfSeq, EmptySeq, WalkTyped
  <2>4. ~g[k].raised
    BY <2>2, <2>3, TakeRaised
  <2>5. UpTo(g, cs, k)
    BY <1>2, <2>1, <2>4
  <2>6. Ascending(g[k].list)
    BY <2>5 DEF UpTo
  <2>7. /\ ValidCandle(cs[k + 1]) /\ Ascending(g[k + 1].list)
        /\ g[k + 1].list # <<>> /\ Last(g[k + 1].list) = cs[k + 1]
        /\ g[k].list # <<>> => cs[k + 1].start >= Last(g[k].list).start
    <3>1. ~Take(g[k], cs[k + 1]).raised
      BY <2>2
    <3>2. /\ ValidCandle(cs[k + 1]) /\ Ascending(g[k + 1].list)
          /\ g[k + 1].list # <<>> /\ Last(g[k + 1].list) = cs[k + 1]
          /\ g[k].list # <<>> => cs[k + 1].start = Last(g[k].list).start
                                  \/ cs[k + 1].start > Last(g[k].list).start
      BY <2>2, <2>3, <2>6, <3>1, TakeTaken
    <3>3. cs[k + 1].start \in Int
      BY <2>3 DEF CandleRecords
    <3>4. g[k].list # <<>> => Last(g[k].list).start \in Int
      <4>1. ASSUME g[k].list # <<>> PROVE Last(g[k].list) \in CandleRecords
        <5>1. g[k].list \in Seq(CandleRecords)
          BY <2>3 DEF Analyses
        <5>2. Len(g[k].list) \in 1..Len(g[k].list)
          BY <4>1, <5>1, EmptySeq
        <5> QED BY <5>1, <5>2, ElementOfSeq DEF Last
      <4> QED BY <4>1 DEF CandleRecords
    <3> QED BY <3>2, <3>3, <3>4
  <2>8. ASSUME NEW j \in 1..k + 1 PROVE ValidCandle(cs[j]) /\ cs[j].start <= cs[k + 1].start
    <3>1. CASE j = k + 1
      <4>1. cs[k + 1].start \in Int
        BY <2>3 DEF CandleRecords
      <4> QED BY <3>1, <4>1, <2>7
    <3>2. CASE j # k + 1
      <4>1. j \in 1..k /\ k > 0 /\ k \in 1..Len(cs) /\ j \in 1..Len(cs)
        BY <3>2, <2>1
      <4>2. cs[j].start <= cs[k].start /\ ValidCandle(cs[j]) /\ Last(g[k].list) = cs[k] /\ g[k].list # <<>>
        BY <4>1, <2>5 DEF UpTo
      <4>3. cs[j] \in CandleRecords /\ cs[k] \in CandleRecords
        BY <4>1, ElementOfSeq
      <4>4. cs[j].start \in Int /\ cs[k].start \in Int /\ cs[k + 1].start \in Int
        BY <4>3, <2>3 DEF CandleRecords
      <4> QED BY <4>2, <4>4, <2>7
    <3> QED BY <3>1, <3>2
  <2>9. \A j \in 0..k + 1 : ~g[j].raised
    <3>1. \A j \in 0..k + 1 : j = k + 1 \/ j \in 0..k
      OBVIOUS
    <3> QED BY <3>1, <2>5 DEF UpTo
  <2> QED BY <2>7, <2>8, <2>9 DEF UpTo
<1>3. \A k \in Nat : k \in S
  <2> HIDE DEF S
  <2> QED BY <1>1, <1>2, Counting
<1> QED BY <1>3

(* Either all is taken, or all up to a candle that is refused and after     *)
(* which nothing changes.                                                   *)
LEMMA WalkStops ==
  ASSUME NEW list \in Seq(CandleRecords), NEW cs \in Seq(CandleRecords),
         NEW n \in 0..Len(cs), NEW g, IsWalk(g, list, cs, n)
  PROVE  \A c \in 0..n : ~g[c].raised =>
            \A m \in c..n : g[m].raised =>
              \E k \in c..m - 1 : ~g[k].raised /\ g[k + 1].raised /\ g[m].list = g[k].list
<1> SUFFICES ASSUME NEW c \in 0..n, ~g[c].raised
             PROVE  \A m \in c..n : g[m].raised =>
                \E k \in c..m - 1 : ~g[k].raised /\ g[k + 1].raised /\ g[m].list = g[k].list
  OBVIOUS
<1> DEFINE Stopped(m) == \E k \in c..m - 1 : ~g[k].raised /\ g[k + 1].raised /\ g[m].list = g[k].list
           S == {m \in Nat : c <= m /\ m <= n /\ g[m].raised => Stopped(m)}
<1>1. 0 \in S
  <2>1. c <= 0 => c = 0
    OBVIOUS
  <2> QED BY <2>1
<1>2. ASSUME NEW m \in Nat, m \in S PROVE m + 1 \in S
  <2> SUFFICES ASSUME c <= m + 1, m + 1 <= n, g[m + 1].raised PROVE Stopped(m + 1)
    OBVIOUS
  <2>1. c # m + 1 /\ c <= m /\ m \in c..m /\ m \in 0..n /\ m + 1 \in 1..n /\ (m + 1) - 1 = m /\ m + 1 \in 1..Len(cs)
    OBVIOUS
  <2>2. g[m + 1] = Take(g[m], cs[m + 1]) /\ g[m] \in Analyses /\ cs[m + 1] \in CandleRecords
    BY <2>1, WalkTyped, ElementOfSeq DEF IsWalk
  <2>3. CASE g[m].raised
    <3>1. g[m + 1] = g[m]
      BY <2>2, <2>3, TakeRaised
    <3>2. PICK k \in c..m - 1 : ~g[k].raised /\ g[k + 1].raised /\ g[m].list = g[k].list
      BY <1>2, <2>1, <2>3
    <3>3. k \in c..(m + 1) - 1
      OBVIOUS
    <3> QED BY <3>1, <3>2, <3>3
  <2>4. CASE ~g[m].raised
    <3>1. g[m + 1].list = g[m].list
      BY <2>2, TakeTyped
    <3>2. m \in c..(m + 1) - 1
      BY <2>1
    <3> QED BY <3>1, <3>2, <2>4
  <2> QED BY <2>3, <2>4
<1>3. \A m \in Nat : m \in S
  <2> HIDE DEF S
  <2> QED BY <1>1, <1>2, Counting
<1> QED BY <1>3

LEMMA WalkHeld ==
  ASSUME NEW list \in Seq(CandleRecords), NEW cs \in Seq(CandleRecords),
         NEW n \in 0..Len(cs), NEW g, IsWalk(g, list, cs, n),
         NEW c \in 0..n, g[c].raised
  PROVE  \A m \in c..n : g[m] = g[c]
<1> DEFINE S == {m \in Nat : c <= m /\ m <= n => g[m] = g[c]}
<1>1. 0 \in S
  <2>1. c <= 0 => c = 0
    OBVIOUS
  <2> QED BY <2>1
<1>2. ASSUME NEW m \in Nat, m \in S PROVE m + 1 \in S
  <2> SUFFICES ASSUME c <= m + 1, m + 1 <= n, c # m + 1 PROVE g[m + 1] = g[c]
    OBVIOUS
  <2>1. c <= m /\ m \in 0..n /\ m + 1 \in 1..n /\ (m + 1) - 1 = m
    OBVIOUS
  <2>2. g[m + 1] = Take(g[m], cs[m + 1]) /\ g[m] \in Analyses /\ g[m] = g[c]
    <3>1. g[m + 1] = Take(g[(m + 1) - 1], cs[m + 1])
      BY <2>1 DEF IsWalk
    <3>2. g[m] \in Analyses
      BY <2>1, WalkTyped
    <3> QED BY <1>2, <2>1, <3>1, <3>2
  <2> QED BY <2>2, TakeRaised
<1>3. \A m \in Nat : m \in S
  <2> HIDE DEF S
  <2> QED BY <1>1, <1>2, Counting
<1> QED BY <1>3

(* The newest candle again, perhaps corrected, takes its own place.         *)
LEMMA TakeSame ==
  ASSUME NEW list \in Seq(CandleRecords), list # <<>>, NEW c \in CandleRecords,
         ValidCandle(c), c.start = Last(list).start
  PROVE  Take([list |-> list, raised |-> FALSE], c) = [list |-> Append(Front(list), c), raised |-> FALSE]
<1> DEFINE acc == [list |-> list, raised |-> FALSE]
<1>1. Len(list) \in 1..Len(list) /\ Len(list) \in DOMAIN list
  BY EmptySeq
<1>2. c.start \in StartsOf(list) /\ StartsOf(list) # {}
  BY <1>1 DEF StartsOf, Last
<1>3. ~Late(list, c)
  BY DEF Late
<1>4. Take(acc, c) = [acc EXCEPT !.list = Append(SubSeq(acc.list, 1, Len(acc.list) - 1), c)]
  BY <1>2, <1>3 DEF Take
<1> QED BY <1>4 DEF Front

LEMMA FrontAndLast ==
  ASSUME NEW list \in Seq(CandleRecords), list # <<>>
  PROVE  /\ Front(list) \in Seq(CandleRecords)
         /\ Append(Front(list), Last(list)) = list
         /\ Last(list) \in CandleRecords
<1>1. Len(list) \in 1..Len(list) /\ \A i \in 1..Len(list) : list[i] \in CandleRecords
  BY EmptySeq, ElementOfSeq
<1>2. /\ Front(list) \in Seq(CandleRecords) /\ Len(Front(list)) = Len(list) - 1
      /\ \A i \in 1..Len(list) - 1 : Front(list)[i] = list[i]
  <2>1. Len(list) \in Nat /\ Len(list) - 1 \in Int /\ \A i \in 1..Len(list) - 1 : list[i] \in CandleRecords
    BY <1>1
  <2>2. /\ SubSeq(list, 1, Len(list) - 1) \in Seq(CandleRecords)
        /\ Len(SubSeq(list, 1, Len(list) - 1)) =
              IF 1 <= Len(list) - 1 THEN (Len(list) - 1) - 1 + 1 ELSE 0
        /\ \A i \in 1..(Len(list) - 1) - 1 + 1 : SubSeq(list, 1, Len(list) - 1)[i] = list[1 + i - 1]
    <3> DEFINE b == Len(list) - 1
    <3>1. 1 \in Int /\ b \in Int /\ \A i \in 1..b : list[i] \in CandleRecords
      BY <2>1
    <3> HIDE DEF b
    <3>2. /\ SubSeq(list, 1, b) \in Seq(CandleRecords)
          /\ Len(SubSeq(list, 1, b)) = IF 1 <= b THEN b - 1 + 1 ELSE 0
          /\ \A i \in 1..b - 1 + 1 : SubSeq(list, 1, b)[i] = list[1 + i - 1]
      BY <3>1, SubSeqProperties
    <3> QED BY <3>2 DEF b
  <2>3. Front(list) = SubSeq(list, 1, Len(list) - 1)
    BY DEF Front
  <2>4. Len(SubSeq(list, 1, Len(list) - 1)) = Len(list) - 1
    <3>1. Len(list) \in Nat /\ 1 <= Len(list)
      BY <1>1, <2>1
    <3> DEFINE l == Len(list)
               m == Len(SubSeq(list, 1, Len(list) - 1))
    <3>2. l \in Nat /\ 1 <= l /\ m = IF 1 <= l - 1 THEN (l - 1) - 1 + 1 ELSE 0
      BY <3>1, <2>2
    <3> HIDE DEF l, m
    <3>3. m = l - 1
      BY <3>2
    <3> QED BY <3>3 DEF l, m
  <2>5. \A i \in 1..Len(list) - 1 : i \in 1..(Len(list) - 1) - 1 + 1 /\ 1 + i - 1 = i
    BY <1>1
  <2>6. \A i \in 1..Len(list) - 1 : SubSeq(list, 1, Len(list) - 1)[i] = list[i]
    BY <2>2, <2>5
  <2> QED BY <2>2, <2>3, <2>4, <2>6
<1> DEFINE front == Front(list)
           new == Append(front, Last(list))
<1>3. Last(list) \in CandleRecords /\ Last(list) = list[Len(list)]
  BY <1>1 DEF Last
<1>4. /\ new \in Seq(CandleRecords) /\ Len(new) = Len(list)
      /\ \A i \in 1..Len(list) : new[i] = list[i]
  <2> HIDE DEF front
  <2>1. front \in Seq(CandleRecords) /\ Len(front) = Len(list) - 1 /\ Len(list) \in Nat
        /\ \A i \in 1..Len(list) - 1 : front[i] = list[i]
    BY <1>1, <1>2 DEF front
  <2>2. new \in Seq(CandleRecords) /\ Len(new) = Len(list) /\ new[Len(list)] = Last(list)
        /\ \A i \in 1..Len(list) - 1 : new[i] = front[i]
    BY <2>1, <1>3
  <2>3. \A i \in 1..Len(list) : i = Len(list) \/ i \in 1..Len(list) - 1
    BY <2>1
  <2> QED BY <2>1, <2>2, <2>3, <1>3
<1>5. new = list
  <2> HIDE DEF new
  <2> QED BY <1>4, SeqEqual
<1> QED BY <1>2, <1>3, <1>5

LEMMA FrontOfAppend ==
  ASSUME NEW list \in Seq(CandleRecords), NEW c \in CandleRecords
  PROVE  /\ Append(list, c) \in Seq(CandleRecords) /\ Append(list, c) # <<>>
         /\ Front(Append(list, c)) = list /\ Last(Append(list, c)) = c
<1> DEFINE new == Append(list, c)
<1>1. /\ new \in Seq(CandleRecords) /\ Len(new) = Len(list) + 1 /\ new[Len(list) + 1] = c
      /\ \A i \in 1..Len(list) : new[i] = list[i]
  OBVIOUS
<1>2. Len(list) \in Nat /\ \A i \in 1..Len(list) : list[i] \in CandleRecords
  BY ElementOfSeq
<1> HIDE DEF new
<1>3. /\ Front(new) \in Seq(CandleRecords) /\ Len(Front(new)) = Len(list)
      /\ \A i \in 1..Len(list) : Front(new)[i] = list[i]
  BY <1>1, <1>2, SubSeqProperties DEF Front
<1>4. Front(new) = list
  BY <1>3, SeqEqual
<1>5. new # <<>> /\ Last(new) = c
  BY <1>1, <1>2 DEF Last
<1> QED BY <1>1, <1>4, <1>5 DEF new

-----------------------------------------------------------------------------
(* A lane and its analysis.                                                 *)

LaneRecords ==
  [building : CandleRecords \cup {None}, closed : Seq(CandleRecords), counted : Nat,
   analysed : Seq(CandleRecords)]

Beginning(cs, k) == Analysed(<<>>, SubSeq(cs, 1, k))

(* The analysis holds what it makes of the first k candles, all of them     *)
(* taken, and it stands there because nothing more was handed over or       *)
(* because it refuses the next one.                                         *)
StandsAt(cs, counted, list, k) ==
  /\ ~Beginning(cs, k).raised
  /\ list = Beginning(cs, k).list
  /\ k = counted \/ (k < Len(cs) /\ Beginning(cs, k + 1).raised)

Follows(cs, counted, list) == \E k \in counted..Len(cs) : StandsAt(cs, counted, list, k)

(* g is the walk of cs and refuses candle k + 1, h that of what is left of  *)
(* cs after c candles, from where g stands.                                 *)
Refeeding(cs, c, L, unfed, g, h, k) ==
  /\ cs \in Seq(CandleRecords) /\ unfed \in Seq(CandleRecords)
  /\ c \in Nat /\ Len(unfed) = Len(cs) - c
  /\ \A i \in 1..Len(unfed) : unfed[i] = cs[c + i]
  /\ IsWalk(g, <<>>, cs, Len(cs)) /\ IsWalk(h, L, unfed, Len(unfed))
  /\ k \in c + 1..Len(cs) - 1
  /\ ~g[k].raised /\ g[k + 1].raised /\ L = g[k].list

(* What was refused once is handed over again with all that was not counted *)
(* since, and comes to a stand where it stood.                              *)
LEMMA RefusedAgain ==
  ASSUME NEW cs, NEW c, NEW L, NEW unfed, NEW g, NEW h, NEW k,
         Refeeding(cs, c, L, unfed, g, h, k)
  PROVE  h[Len(unfed)] = [list |-> L, raised |-> TRUE]
<1> DEFINE n == Len(cs)
<1>k. /\ cs \in Seq(CandleRecords) /\ unfed \in Seq(CandleRecords)
      /\ c \in Nat /\ n \in Nat /\ Len(unfed) = n - c /\ n = Len(cs)
      /\ k \in c + 1..n - 1
      /\ ~g[k].raised /\ g[k + 1].raised /\ L = g[k].list
  BY DEF Refeeding
<1>m. IsWalk(h, L, unfed, Len(unfed)) /\ IsWalk(g, <<>>, cs, Len(cs)) /\ Len(unfed) = n - c
  BY DEF Refeeding
<1> HIDE DEF n
<1>1. /\ n \in Nat /\ k \in 0..n /\ k + 1 \in 1..n /\ k > 0 /\ c + 1 \in 1..k /\ k \in 1..n
      /\ 1 \in 1..Len(unfed) /\ k - c \in 1..Len(unfed) /\ k - c + 1 \in 1..Len(unfed)
      /\ Len(unfed) \in 0..Len(unfed) /\ k + 1 \in 0..n /\ n \in 0..n
      /\ c \in Nat /\ k \in Nat /\ Len(unfed) = n - c
  <2>1. n \in Nat /\ c \in Nat /\ k \in Int /\ c + 1 <= k /\ k <= n - 1
    BY <1>k
  <2> DEFINE l == Len(unfed)
  <2>2. l = n - c
    BY <1>m
  <2> HIDE DEF l
  <2>3. /\ n \in Nat /\ k \in 0..n /\ k + 1 \in 1..n /\ k > 0 /\ c + 1 \in 1..k /\ k \in 1..n
        /\ 1 \in 1..l /\ k - c \in 1..l /\ k - c + 1 \in 1..l
        /\ l \in 0..l /\ k + 1 \in 0..n /\ n \in 0..n
        /\ c \in Nat /\ k \in Nat /\ l = n - c
    BY <2>1, <2>2
  <2> QED BY <2>3 DEF l
<1>0. n = Len(cs) /\ cs \in Seq(CandleRecords) /\ unfed \in Seq(CandleRecords)
  BY <1>k
<1>2. \A j \in 0..n : g[j] \in Analyses
  <2>1. <<>> \in Seq(CandleRecords)
    BY EmptySeq
  <2> QED BY <1>0, <1>1, <1>m, <2>1, WalkTyped
<1>3. L \in Seq(CandleRecords) /\ g[k] = [list |-> L, raised |-> FALSE]
  <2>1. g[k] \in Analyses
    BY <1>1, <1>2
  <2> QED BY <2>1, <1>k DEF Analyses
<1>4. UpTo(g, cs, k)
  BY <1>k, <1>m, <1>0, <1>1, WalkAscends
<1>5. L # <<>> /\ Last(L) = cs[k] /\ \A j \in 1..k : ValidCandle(cs[j]) /\ cs[j].start <= cs[k].start
  BY <1>1, <1>k, <1>4 DEF UpTo
<1>6. \A j \in 1..n : cs[j] \in CandleRecords /\ cs[j].start \in Int /\ cs[j].end \in Int
  <2>1. \A j \in 1..n : cs[j] \in CandleRecords
    BY <1>0, ElementOfSeq
  <2> QED BY <2>1 DEF CandleRecords
<1>7. \A j \in 0..Len(unfed) : h[j] \in Analyses
  BY <1>0, <1>1, <1>m, <1>3, WalkTyped
<1>8. /\ h[0] = [list |-> L, raised |-> FALSE]
      /\ \A i \in 1..Len(unfed) : h[i] = Take(h[i - 1], cs[c + i])
  <2>1. \A i \in 1..Len(unfed) : unfed[i] = cs[c + i]
    BY DEF Refeeding
  <2> QED BY <2>1, <1>m DEF IsWalk
<1>9. ASSUME NEW i \in 0..Len(unfed), h[i] = [list |-> L, raised |-> TRUE]
      PROVE  h[Len(unfed)] = [list |-> L, raised |-> TRUE]
  <2>1. h[i].raised
    BY <1>9
  <2>2. Len(unfed) \in i..Len(unfed) /\ Len(unfed) \in 0..Len(unfed)
    BY <1>1
  <2>3. h[Len(unfed)] = h[i]
    <3> DEFINE l == Len(unfed)
    <3>1. i \in 0..l /\ l \in 0..Len(unfed) /\ IsWalk(h, L, unfed, l) /\ l \in i..l
      BY <1>m, <1>1
    <3> HIDE DEF l
    <3>2. \A j \in i..l : h[j] = h[i]
      BY <1>0, <1>3, <2>1, <3>1, WalkHeld
    <3> QED BY <3>1, <3>2 DEF l
  <2> QED BY <2>3, <1>9
<1>10. CASE cs[c + 1].start # cs[k].start
  <2>1. cs[c + 1].start < cs[k].start /\ cs[k].start < cs[k].end
    <3>1. ValidCandle(cs[k]) /\ cs[c + 1].start <= cs[k].start
      BY <1>1, <1>5
    <3>2. cs[k].start \in Int /\ cs[c + 1].start \in Int /\ c + 1 \in 1..n
      <4>1. k \in 1..n /\ c + 1 \in 1..n
        BY <1>1
      <4> QED BY <4>1, <1>6
    <3> QED BY <3>1, <3>2, <1>10 DEF ValidCandle
  <2>2. Late(L, cs[c + 1])
    <3>1. Last(L).start # cs[c + 1].start /\ cs[c + 1].start < Last(L).end
      BY <1>1, <1>5, <1>6, <2>1, <1>10
    <3> QED BY <3>1, <1>5 DEF Late
  <2>3. h[1] = Take([list |-> L, raised |-> FALSE], cs[c + 1])
    BY <1>1, <1>8
  <2>4. h[1] = [list |-> L, raised |-> TRUE]
    BY <2>2, <2>3 DEF Take
  <2>5. 1 \in 0..Len(unfed)
    BY <1>1
  <2> QED BY <2>4, <2>5, <1>9
<1>11. CASE cs[c + 1].start = cs[k].start
  <2>1. \A j \in c + 1..k : cs[j].start = cs[k].start
    <3> TAKE j \in c + 1..k
    <3>0. j \in Nat /\ c \in Nat /\ k \in Nat /\ n \in Nat /\ c + 1 <= j /\ j <= k /\ k <= n
      BY <1>1
    <3>1. j \in 1..k /\ j \in 0..k /\ j \in 1..n /\ j \in 0..n /\ c + 1 \in 1..j /\ c + 1 \in 1..n
      BY <3>0
    <3>2. ~g[j].raised
      BY <1>4, <3>1 DEF UpTo
    <3>3. UpTo(g, cs, j)
      BY <1>0, <1>1, <1>m, <3>1, <3>2, WalkAscends
    <3>4. cs[c + 1].start <= cs[j].start /\ cs[j].start <= cs[k].start
      BY <3>1, <3>3, <1>5 DEF UpTo
    <3> QED BY <3>1, <3>4, <1>1, <1>6, <1>11
  <2> DEFINE S == {i \in Nat : i < k - c =>
                    h[i + 1] = [list |-> Append(Front(L), cs[c + i + 1]), raised |-> FALSE]}
  <2>2. 0 \in S
    <3>1. c + 1 \in 1..n /\ ValidCandle(cs[c + 1]) /\ cs[c + 1] \in CandleRecords
      BY <1>1, <1>5, <1>6
    <3>2. h[1] = Take([list |-> L, raised |-> FALSE], cs[c + 1])
      BY <1>1, <1>8
    <3>3. h[1] = [list |-> Append(Front(L), cs[c + 1]), raised |-> FALSE]
      BY <3>1, <3>2, <1>3, <1>5, <1>11, TakeSame
    <3>4. 0 + 1 = 1 /\ c + 0 + 1 = c + 1
      BY <1>1
    <3> QED BY <3>3, <3>4
  <2>3. ASSUME NEW i \in Nat, i \in S PROVE i + 1 \in S
    <3> SUFFICES ASSUME i + 1 < k - c
                 PROVE  h[(i + 1) + 1] = [list |-> Append(Front(L), cs[c + (i + 1) + 1]), raised |-> FALSE]
      OBVIOUS
    <3>1. /\ i < k - c /\ i + 2 \in 1..Len(unfed) /\ (i + 2) - 1 = i + 1
          /\ c + i + 1 \in 1..k /\ c + i + 1 \in c + 1..k /\ c + i + 1 \in 1..n
          /\ c + (i + 2) \in 1..k /\ c + (i + 2) \in c + 1..k /\ c + (i + 2) \in 1..n
          /\ (i + 1) + 1 = i + 2 /\ c + (i + 1) + 1 = c + (i + 2)
      BY <1>1
    <3>2. h[i + 1] = [list |-> Append(Front(L), cs[c + i + 1]), raised |-> FALSE]
      BY <2>3, <3>1
    <3>3. h[i + 2] = Take(h[i + 1], cs[c + (i + 2)])
      BY <1>8, <3>1
    <3> DEFINE d == cs[c + i + 1]
               e == cs[c + (i + 2)]
    <3>4. d \in CandleRecords /\ e \in CandleRecords /\ ValidCandle(e) /\ d.start = e.start
      BY <3>1, <1>5, <1>6, <2>1
    <3>5. /\ Front(L) \in Seq(CandleRecords)
          /\ Append(Front(L), d) \in Seq(CandleRecords) /\ Append(Front(L), d) # <<>>
          /\ Front(Append(Front(L), d)) = Front(L) /\ Last(Append(Front(L), d)) = d
      <4> HIDE DEF d
      <4> QED BY <3>4, <1>3, <1>5, FrontAndLast, FrontOfAppend
    <3>6. Take([list |-> Append(Front(L), d), raised |-> FALSE], e)
            = [list |-> Append(Front(Append(Front(L), d)), e), raised |-> FALSE]
      <4> HIDE DEF d, e
      <4> QED BY <3>4, <3>5, TakeSame
    <3> QED BY <3>1, <3>2, <3>3, <3>5, <3>6
  <2>4. \A i \in Nat : i \in S
    <3> HIDE DEF S
    <3> QED BY <2>2, <2>3, Counting
  <2>5. h[k - c] = g[k]
    <3>1. k - c - 1 \in Nat /\ k - c - 1 < k - c /\ (k - c - 1) + 1 = k - c /\ c + (k - c - 1) + 1 = k
      BY <1>1
    <3>2. h[(k - c - 1) + 1] = [list |-> Append(Front(L), cs[c + (k - c - 1) + 1]), raised |-> FALSE]
      BY <2>4, <3>1
    <3>3. Append(Front(L), cs[k]) = L
      BY <1>3, <1>5, FrontAndLast
    <3> QED BY <3>1, <3>2, <3>3, <1>3
  <2>6. h[k - c + 1] = g[k + 1]
    <3>1. (k - c + 1) - 1 = k - c /\ c + (k - c + 1) = k + 1 /\ (k + 1) - 1 = k
      BY <1>1
    <3>2. h[k - c + 1] = Take(h[k - c], cs[k + 1])
      BY <1>1, <1>8, <3>1
    <3>3. g[k + 1] = Take(g[k], cs[k + 1])
      BY <1>0, <1>1, <1>m, <3>1 DEF IsWalk
    <3> QED BY <2>5, <3>2, <3>3
  <2>7. g[k + 1] = [list |-> L, raised |-> TRUE]
    <3>1. g[k + 1] = Take(g[k], cs[k + 1]) /\ g[k] \in Analyses /\ cs[k + 1] \in CandleRecords /\ g[k + 1] \in Analyses
      <4>1. (k + 1) - 1 = k
        BY <1>1
      <4> QED BY <4>1, <1>0, <1>1, <1>m, <1>2, <1>6 DEF IsWalk
    <3>2. g[k + 1].list = L
      <4> DEFINE p == g[k]
                 q == g[k + 1]
      <4>1. q = Take(p, cs[k + 1]) /\ p \in Analyses /\ cs[k + 1] \in CandleRecords /\ q.raised /\ L = p.list
        BY <3>1, <1>k
      <4> HIDE DEF p, q
      <4>2. q.list = p.list
        BY <4>1, TakeTyped, Zenon
      <4> QED BY <4>1, <4>2 DEF q
    <3> QED BY <3>1, <3>2, <1>k DEF Analyses
  <2>8. k - c + 1 \in 0..Len(unfed)
    BY <1>1
  <2> QED BY <2>6, <2>7, <2>8, <1>9
<1> QED BY <1>10, <1>11

(* Whatever was passed on, the lane follows its candles, and its count is   *)
(* moved to the last of them only when all were taken.                      *)
LEMMA CatchesUp ==
  ASSUME NEW cs \in Seq(CandleRecords), NEW c \in Nat, NEW list \in Seq(CandleRecords),
         Follows(cs, c, list),
         NEW r, r = Analysed(list, SubSeq(cs, c + 1, Len(cs)))
  PROVE  Follows(cs, IF r.raised THEN c ELSE Len(cs), r.list)
<1> DEFINE unfed == SubSeq(cs, c + 1, Len(cs))
<1>1. PICK k \in c..Len(cs) : StandsAt(cs, c, list, k)
  BY DEF Follows
<1>2. /\ Len(cs) \in Nat /\ k \in 0..Len(cs) /\ c \in 0..Len(cs) /\ Len(cs) \in 0..Len(cs)
  BY <1>1
<1>3. PICK g : IsWalk(g, <<>>, cs, Len(cs))
  BY <1>2, WalkExists
<1>4. \A i \in 0..Len(cs) : Beginning(cs, i) = g[i]
  BY <1>3, WalkOfBeginning DEF Beginning
<1>5. \A i \in 0..Len(cs) : g[i] \in Analyses
  <2>1. <<>> \in Seq(CandleRecords)
    BY EmptySeq
  <2> QED BY <1>2, <1>3, <2>1, WalkTyped
<1>6. /\ unfed \in Seq(CandleRecords) /\ Len(unfed) = Len(cs) - c
      /\ \A i \in 1..Len(cs) - c : unfed[i] = cs[c + i]
  <2> DEFINE a == c + 1
             b == Len(cs)
  <2>1. a \in Int /\ b \in Int /\ \A i \in a..b : cs[i] \in CandleRecords
    <3>1. \A i \in a..b : i \in 1..Len(cs)
      BY <1>2
    <3> QED BY <3>1, <1>2, ElementOfSeq
  <2> HIDE DEF a, b
  <2>2. /\ SubSeq(cs, a, b) \in Seq(CandleRecords)
        /\ Len(SubSeq(cs, a, b)) = IF a <= b THEN b - a + 1 ELSE 0
        /\ \A i \in 1..b - a + 1 : SubSeq(cs, a, b)[i] = cs[a + i - 1]
    BY <2>1, SubSeqProperties
  <2>3. /\ b - a + 1 = Len(cs) - c /\ (IF a <= b THEN b - a + 1 ELSE 0) = Len(cs) - c
        /\ \A i \in 1..Len(cs) - c : a + i - 1 = c + i
    BY <1>2 DEF a, b
  <2> QED BY <2>2, <2>3 DEF a, b
<1> HIDE DEF unfed
<1>7. PICK h : IsWalk(h, list, unfed, Len(unfed)) /\ r = h[Len(unfed)]
  <2>1. Len(unfed) \in Nat
    BY <1>6
  <2> QED BY <2>1, WalkExists DEF unfed
<1>8. CASE k = c
  <2>1. ~g[c].raised /\ list = g[c].list
    BY <1>1, <1>2, <1>4, <1>8 DEF StandsAt
  <2> DEFINE f == [i \in 0..Len(unfed) |-> g[c + i]]
  <2>2. IsWalk(f, list, unfed, Len(unfed))
    <3>1. f[0] = [list |-> list, raised |-> FALSE]
      <4>1. f[0] = g[c] /\ g[c] \in Analyses
        <5>1. 0 \in 0..Len(unfed) /\ c + 0 = c
          BY <1>2, <1>6
        <5> QED BY <5>1, <1>2, <1>5
      <4> HIDE DEF f
      <4> QED BY <4>1, <2>1 DEF Analyses
    <3>2. ASSUME NEW i \in 1..Len(unfed) PROVE f[i] = Take(f[i - 1], unfed[i])
      <4>1. /\ i \in 0..Len(unfed) /\ i - 1 \in 0..Len(unfed) /\ c + i \in 1..Len(cs)
            /\ (c + i) - 1 = c + (i - 1) /\ i \in 1..Len(cs) - c
        BY <1>2, <1>6
      <4>2. f[i] = g[c + i] /\ f[i - 1] = g[c + (i - 1)] /\ unfed[i] = cs[c + i]
        BY <4>1, <1>6
      <4>3. g[c + i] = Take(g[(c + i) - 1], cs[c + i])
        BY <4>1, <1>3 DEF IsWalk
      <4> QED BY <4>1, <4>2, <4>3
    <3> HIDE DEF f
    <3> QED BY <3>1, <3>2 DEF IsWalk
  <2>3. f[Len(unfed)] = g[Len(cs)]
    <3>1. Len(unfed) \in 0..Len(unfed) /\ c + Len(unfed) = Len(cs)
      BY <1>2, <1>6
    <3> QED BY <3>1
  <2>4. r = g[Len(cs)]
    <3>1. Len(unfed) \in Nat
      BY <1>6
    <3>2. Analysed(list, unfed) = f[Len(unfed)]
      <4> HIDE DEF f
      <4> QED BY <2>2, <3>1, WalkIs
    <3> QED BY <3>2, <2>3 DEF unfed
  <2>5. CASE ~r.raised
    <3>1. StandsAt(cs, Len(cs), r.list, Len(cs))
      BY <2>4, <2>5, <1>2, <1>4 DEF StandsAt
    <3>2. Len(cs) \in Len(cs)..Len(cs)
      BY <1>2
    <3> QED BY <3>1, <3>2, <2>5 DEF Follows
  <2>6. CASE r.raised
    <3>1. Len(cs) \in c..Len(cs)
      BY <1>2
    <3>2. PICK j \in c..Len(cs) - 1 : ~g[j].raised /\ g[j + 1].raised /\ g[Len(cs)].list = g[j].list
      <4>1. <<>> \in Seq(CandleRecords)
        BY EmptySeq
      <4>2. \A d \in 0..Len(cs) : ~g[d].raised =>
              \A m \in d..Len(cs) : g[m].raised =>
                \E j \in d..m - 1 : ~g[j].raised /\ g[j + 1].raised /\ g[m].list = g[j].list
        <5> DEFINE n == Len(cs)
                   empty == <<>>
        <5>1. empty \in Seq(CandleRecords) /\ n \in 0..Len(cs) /\ IsWalk(g, empty, cs, n)
          BY <1>2, <1>3, <4>1
        <5> HIDE DEF n, empty
        <5>2. \A d \in 0..n : ~g[d].raised =>
                \A m \in d..n : g[m].raised =>
                  \E j \in d..m - 1 : ~g[j].raised /\ g[j + 1].raised /\ g[m].list = g[j].list
          <6> HIDE <1>1, <1>2, <1>4, <1>5, <1>6, <1>7
          <6> QED BY <5>1, WalkStops
        <5> QED BY <5>2 DEF n
      <4>3. g[Len(cs)].raised
        BY <2>4, <2>6
      <4> QED BY <1>2, <2>1, <3>1, <4>2, <4>3
    <3>3. j \in 0..Len(cs) /\ j + 1 \in 0..Len(cs) /\ j < Len(cs) /\ j \in c..Len(cs)
      BY <1>2
    <3>4. StandsAt(cs, c, r.list, j)
      BY <3>2, <3>3, <2>4, <1>4 DEF StandsAt
    <3> QED BY <3>3, <3>4, <2>6 DEF Follows
  <2> QED BY <2>5, <2>6
<1>9. CASE k # c
  <2>1. /\ k < Len(cs) /\ ~g[k].raised /\ list = g[k].list /\ g[k + 1].raised
        /\ k \in c + 1..Len(cs) - 1
    <3>1. k < Len(cs)
      BY <1>1, <1>9 DEF StandsAt
    <3>2. k + 1 \in 0..Len(cs) /\ k \in c + 1..Len(cs) - 1
      BY <3>1, <1>1, <1>2, <1>9
    <3> QED BY <3>1, <3>2, <1>1, <1>2, <1>4, <1>9 DEF StandsAt
  <2>2. h[Len(unfed)].raised /\ h[Len(unfed)].list = list
    <3>1. Refeeding(cs, c, list, unfed, g, h, k)
      <4>1. Len(unfed) = Len(cs) - c /\ \A i \in 1..Len(unfed) : unfed[i] = cs[c + i]
        BY <1>6
      <4> QED BY <4>1, <1>3, <1>6, <1>7, <2>1 DEF Refeeding
    <3>2. h[Len(unfed)] = [list |-> list, raised |-> TRUE]
      BY <3>1, RefusedAgain
    <3> HIDE <1>7
    <3> QED BY <3>2
  <2>3. StandsAt(cs, c, r.list, k)
    BY <2>2, <1>7, <1>1
  <2> QED BY <2>2, <2>3, <1>7, <1>1 DEF Follows
<1> QED BY <1>8, <1>9

(* A candle that closes later changes nothing of what was handed over.      *)
LEMMA FollowsOn ==
  ASSUME NEW cs \in Seq(CandleRecords), NEW c \in Nat, NEW list,
         Follows(cs, c, list), NEW x \in CandleRecords
  PROVE  Follows(Append(cs, x), c, list)
<1> DEFINE ds == Append(cs, x)
<1>1. PICK k \in c..Len(cs) : StandsAt(cs, c, list, k)
  BY DEF Follows
<1>2. Len(cs) \in Nat /\ Len(ds) = Len(cs) + 1 /\ ds \in Seq(CandleRecords)
  OBVIOUS
<1>3. ASSUME NEW j \in 0..Len(cs) PROVE SubSeq(ds, 1, j) = SubSeq(cs, 1, j)
  <2> DEFINE s == SubSeq(cs, 1, j)
             t == SubSeq(ds, 1, j)
  <2>1. \A i \in 1..j : cs[i] \in CandleRecords /\ ds[i] = cs[i] /\ i \in 1..Len(cs)
    BY <1>2, ElementOfSeq
  <2>2. j \in Nat
    BY <1>2
  <2>3. s \in Seq(CandleRecords) /\ Len(s) = j /\ \A i \in 1..j : s[i] = cs[i]
    BY <2>1, <2>2, SubSeqProperties
  <2>4. t \in Seq(CandleRecords) /\ Len(t) = j /\ \A i \in 1..j : t[i] = ds[i]
    <3> HIDE DEF ds
    <3> QED BY <2>1, <2>2, SubSeqProperties
  <2> HIDE DEF s, t
  <2>5. s = t
    BY <2>1, <2>3, <2>4, SeqEqual
  <2> QED BY <2>5 DEF s, t
<1> HIDE DEF ds
<1>4. StandsAt(ds, c, list, k)
  <2>1. k \in 0..Len(cs) /\ (k < Len(cs) => k + 1 \in 0..Len(cs)) /\ (k < Len(cs) => k < Len(ds))
    BY <1>1, <1>2
  <2> QED BY <1>1, <1>3, <2>1 DEF StandsAt, Beginning
<1>5. k \in c..Len(ds)
  BY <1>1, <1>2
<1> QED BY <1>4, <1>5 DEF Follows, ds

LEMMA AnalysedTyped ==
  ASSUME NEW list \in Seq(CandleRecords), NEW cs \in Seq(CandleRecords)
  PROVE  Analysed(list, cs) \in Analyses
<1> DEFINE n == Len(cs)
<1>1. n \in Nat /\ n \in 0..Len(cs) /\ n \in 0..n
  OBVIOUS
<1>2. PICK g : IsWalk(g, list, cs, n) /\ Analysed(list, cs) = g[n]
  <2>1. Len(cs) \in Nat
    OBVIOUS
  <2> QED BY <2>1, WalkExists
<1> HIDE DEF n
<1>3. \A k \in 0..n : g[k] \in Analyses
  BY <1>1, <1>2, WalkTyped
<1> QED BY <1>1, <1>2, <1>3

LEMMA RestTyped ==
  ASSUME NEW cs \in Seq(CandleRecords), NEW c \in Nat
  PROVE  SubSeq(cs, c + 1, Len(cs)) \in Seq(CandleRecords)
<1> DEFINE a == c + 1
           b == Len(cs)
<1>1. a \in Int /\ b \in Int /\ \A i \in a..b : cs[i] \in CandleRecords
  <2>1. \A i \in a..b : i \in 1..Len(cs)
    OBVIOUS
  <2> QED BY <2>1, ElementOfSeq
<1> HIDE DEF a, b
<1>2. SubSeq(cs, a, b) \in Seq(CandleRecords)
  BY <1>1, SubSeqProperties
<1> QED BY <1>2 DEF a, b

LaneFollows(lane) == Follows(lane.closed, lane.counted, lane.analysed)

(* The lanes are well-formed and, unless a warm-up disturbed them, follow   *)
(* their candles.                                                           *)
LanesSound(ls, disrupted) ==
  /\ ls \in [Lanes -> LaneRecords]
  /\ disrupted \/ \A tf \in Lanes : LaneFollows(ls[tf])

Passing == [lanes : [Lanes -> LaneRecords], raised : BOOLEAN]

LEMMA PassOnKeeps ==
  ASSUME NEW acc \in Passing, NEW disrupted, LanesSound(acc.lanes, disrupted), NEW tf \in Lanes
  PROVE  PassOn(acc, tf) \in Passing /\ LanesSound(PassOn(acc, tf).lanes, disrupted)
<1> DEFINE lane == acc.lanes[tf]
           rest == SubSeq(lane.closed, lane.counted + 1, Len(lane.closed))
           result == Analysed(lane.analysed, rest)
           counted == IF result.raised THEN lane.counted ELSE Len(lane.closed)
           taken == [lane EXCEPT !.analysed = result.list, !.counted = counted]
<1>1. lane \in LaneRecords
  BY DEF Passing
<1>2. /\ lane.closed \in Seq(CandleRecords) /\ lane.counted \in Nat
      /\ lane.analysed \in Seq(CandleRecords) /\ Len(lane.closed) \in Nat
  BY <1>1 DEF LaneRecords
<1>3. result \in Analyses
  <2>1. rest \in Seq(CandleRecords)
    BY <1>2, RestTyped
  <2> HIDE DEF rest, lane
  <2> QED BY <1>2, <2>1, AnalysedTyped
<1>4. counted \in Nat /\ result.list \in Seq(CandleRecords) /\ result.raised \in BOOLEAN
  <2> HIDE DEF result
  <2> QED BY <1>2, <1>3 DEF Analyses
<1>5. /\ taken \in LaneRecords /\ taken.closed = lane.closed
      /\ taken.counted = counted /\ taken.analysed = result.list
  <2> HIDE DEF result, counted, lane
  <2> QED BY <1>1, <1>4 DEF LaneRecords
<1>6. ASSUME LaneFollows(lane) PROVE LaneFollows(taken)
  <2>1. Follows(lane.closed, lane.counted, lane.analysed)
    BY <1>6 DEF LaneFollows
  <2>2. Follows(lane.closed, counted, result.list)
    <3> HIDE DEF lane
    <3> QED BY <1>2, <2>1, CatchesUp
  <2> HIDE DEF taken, counted, result, lane
  <2> QED BY <2>2, <1>5 DEF LaneFollows
<1>7. CASE acc.raised
  BY <1>7 DEF PassOn
<1>8. CASE ~acc.raised
  <2>1. PassOn(acc, tf) = [lanes |-> [acc.lanes EXCEPT ![tf] = taken], raised |-> result.raised]
    BY <1>8 DEF PassOn
  <2>2. [acc.lanes EXCEPT ![tf] = taken] \in [Lanes -> LaneRecords]
    <3> HIDE DEF taken
    <3> QED BY <1>5 DEF Passing
  <2>3. \A t \in Lanes : [acc.lanes EXCEPT ![tf] = taken][t] = IF t = tf THEN taken ELSE acc.lanes[t]
    <3> HIDE DEF taken
    <3> QED BY DEF Passing
  <2> HIDE DEF taken, result
  <2>4. PassOn(acc, tf) \in Passing
    BY <2>1, <2>2, <1>4 DEF Passing
  <2>5. ASSUME ~disrupted, NEW t \in Lanes PROVE LaneFollows([acc.lanes EXCEPT ![tf] = taken][t])
    BY <2>3, <2>5, <1>6 DEF LanesSound
  <2> QED BY <2>1, <2>2, <2>4, <2>5 DEF LanesSound
<1> QED
  <2>1. acc.raised \in BOOLEAN
    BY DEF Passing
  <2> QED BY <2>1, <1>7, <1>8

LEMMA PassedOnSteps ==
  ASSUME NEW ls
  PROVE  \E f : /\ f[0] = [lanes |-> ls, raised |-> FALSE]
                /\ \A k \in 1..Len(Timeframes) : f[k] = PassOn(f[k - 1], Timeframes[k])
                /\ PassedOn(ls) = f[Len(Timeframes)]
<1> DEFINE Step(g, k) == IF k = 0 THEN [lanes |-> ls, raised |-> FALSE] ELSE PassOn(g[k - 1], Timeframes[k])
           n == Len(Timeframes)
           S == {i \in Nat : \E g : g = [k \in 0..i |-> Step(g, k)]}
           f == CHOOSE g : g = [k \in 0..n |-> Step(g, k)]
<1>1. n \in Nat
  BY BoundsOfCandles
<1>2. 0 \in S
  <2> DEFINE h == [k \in 0..0 |-> [lanes |-> ls, raised |-> FALSE]]
  <2>1. h = [k \in 0..0 |-> Step(h, k)]
    OBVIOUS
  <2> HIDE DEF Step, h
  <2> QED BY <2>1
<1>3. ASSUME NEW i \in Nat, i \in S PROVE i + 1 \in S
  <2>1. PICK g : g = [k \in 0..i |-> Step(g, k)]
    BY <1>3
  <2> DEFINE next == PassOn(g[i], Timeframes[i + 1])
             h == [k \in 0..i + 1 |-> IF k = i + 1 THEN next ELSE g[k]]
  <2>2. ASSUME NEW k \in 0..i + 1 PROVE h[k] = Step(h, k)
    <3>1. CASE k = i + 1
      <4>1. h[k] = next /\ h[k - 1] = g[i] /\ k # 0
        BY <3>1
      <4> QED BY <4>1, <3>1
    <3>2. CASE k # i + 1
      <4>1. k \in 0..i /\ h[k] = g[k]
        BY <3>2
      <4>2. g[k] = Step(g, k)
        <5> HIDE DEF Step
        <5> QED BY <4>1, <2>1
      <4>3. k # 0 => k - 1 \in 0..i + 1 /\ k - 1 # i + 1 /\ h[k - 1] = g[k - 1]
        BY <3>2
      <4> QED BY <4>1, <4>2, <4>3
    <3> QED BY <3>1, <3>2
  <2>3. h = [k \in 0..i + 1 |-> Step(h, k)]
    <3>1. h = [k \in 0..i + 1 |-> h[k]]
      OBVIOUS
    <3> HIDE DEF h, Step
    <3> QED BY <3>1, <2>2
  <2> HIDE DEF h, Step
  <2> QED BY <2>3
<1>4. \A i \in Nat : i \in S
  <2> HIDE DEF S
  <2> QED BY <1>2, <1>3, Counting
<1>5. f = [k \in 0..n |-> Step(f, k)]
  <2>1. n \in S
    BY <1>1, <1>4
  <2> HIDE DEF Step, n
  <2> QED BY <2>1
<1>6. \A k \in 0..n : f[k] = Step(f, k)
  <2> HIDE DEF Step, f, n
  <2> QED BY <1>5
<1>7. 0 \in 0..n /\ \A k \in 1..n : k \in 0..n /\ k # 0
  BY <1>1
<1>8. PassedOn(ls) = f[n]
  BY DEF PassedOn
<1> HIDE DEF f, n
<1>9. f[0] = [lanes |-> ls, raised |-> FALSE] /\ \A k \in 1..n : f[k] = PassOn(f[k - 1], Timeframes[k])
  BY <1>6, <1>7
<1> QED BY <1>8, <1>9 DEF n

LEMMA PassedOnKeeps ==
  ASSUME NEW ls, NEW disrupted, LanesSound(ls, disrupted)
  PROVE  PassedOn(ls) \in Passing /\ LanesSound(PassedOn(ls).lanes, disrupted)
<1> DEFINE n == Len(Timeframes)
<1>1. n \in Nat /\ \A k \in 1..n : Timeframes[k] \in Lanes
  BY BoundsOfCandles, ElementOfSeq
<1>2. PICK f : /\ f[0] = [lanes |-> ls, raised |-> FALSE]
               /\ \A k \in 1..n : f[k] = PassOn(f[k - 1], Timeframes[k])
               /\ PassedOn(ls) = f[n]
  BY PassedOnSteps
<1> DEFINE S == {k \in Nat : k <= n => f[k] \in Passing /\ LanesSound(f[k].lanes, disrupted)}
<1> HIDE DEF n
<1>3. 0 \in S
  <2>1. f[0].lanes = ls /\ ls \in [Lanes -> LaneRecords]
    BY <1>2 DEF LanesSound
  <2>2. f[0] \in Passing
    BY <2>1, <1>2 DEF Passing
  <2> QED BY <2>1, <2>2
<1>4. ASSUME NEW k \in Nat, k \in S PROVE k + 1 \in S
  <2>1. CASE k + 1 <= n
    <3>1. k + 1 \in 1..n /\ (k + 1) - 1 = k /\ f[k] \in Passing /\ LanesSound(f[k].lanes, disrupted)
      BY <2>1, <1>1, <1>4
    <3>2. f[k + 1] = PassOn(f[k], Timeframes[k + 1]) /\ Timeframes[k + 1] \in Lanes
      BY <1>1, <1>2, <3>1
    <3>3. f[k + 1] \in Passing /\ LanesSound(f[k + 1].lanes, disrupted)
      BY <3>1, <3>2, PassOnKeeps
    <3> QED BY <3>3
  <2> QED BY <2>1
<1>5. \A k \in Nat : k \in S
  <2> HIDE DEF S
  <2> QED BY <1>3, <1>4, Counting
<1> QED BY <1>1, <1>2, <1>5

-----------------------------------------------------------------------------
(* Candles in the order of their starts.                                    *)

(* Different candles with different starts.                                 *)
Distinct(set) ==
  /\ IsFiniteSet(set) /\ set \subseteq CandleRecords
  /\ \A c, d \in set : c # d => c.start # d.start

Before(set, c) == {d \in set : d.start < c.start}

LEMMA RankOf ==
  ASSUME NEW set, Distinct(set), NEW c \in set
  PROVE  Cardinality(Before(set, c)) \in 0..Cardinality(set) - 1
<1>1. IsFiniteSet(set) /\ c.start \in Int
  BY DEF Distinct, CandleRecords
<1>2. IsFiniteSet(set \ {c}) /\ Cardinality(set \ {c}) = Cardinality(set) - 1
  BY <1>1, FS_RemoveElement
<1>3. Before(set, c) \in SUBSET (set \ {c})
  BY <1>1 DEF Before
<1>4. /\ IsFiniteSet(Before(set, c))
      /\ Cardinality(Before(set, c)) <= Cardinality(set \ {c})
  BY <1>2, <1>3, FS_Subset
<1>5. Cardinality(Before(set, c)) \in Nat /\ Cardinality(set) \in Nat
  BY <1>1, <1>4, FS_CardinalityType
<1> QED BY <1>2, <1>4, <1>5

LEMMA RanksDiffer ==
  ASSUME NEW set, Distinct(set), NEW c \in set, NEW d \in set, c.start < d.start
  PROVE  Cardinality(Before(set, c)) < Cardinality(Before(set, d))
<1>1. IsFiniteSet(set) /\ c.start \in Int /\ d.start \in Int /\ \A e \in set : e.start \in Int
  BY DEF Distinct, CandleRecords
<1>2. Before(set, c) \in SUBSET set /\ Before(set, d) \in SUBSET set
  BY DEF Before
<1>3. IsFiniteSet(Before(set, c)) /\ IsFiniteSet(Before(set, d))
  BY <1>1, <1>2, FS_Subset
<1>4. c \notin Before(set, c)
  BY <1>1 DEF Before
<1> DEFINE T == Before(set, c) \cup {c}
<1>5. IsFiniteSet(T) /\ Cardinality(T) = Cardinality(Before(set, c)) + 1
  BY <1>3, <1>4, FS_AddElement
<1>6. T \in SUBSET Before(set, d)
  BY <1>1 DEF Before
<1>7. Cardinality(T) <= Cardinality(Before(set, d))
  BY <1>3, <1>6, FS_Subset
<1>8. Cardinality(Before(set, c)) \in Nat /\ Cardinality(Before(set, d)) \in Nat
  BY <1>3, FS_CardinalityType
<1> QED BY <1>5, <1>7, <1>8

(* Every place in the order is taken.                                       *)
LEMMA EveryRank ==
  ASSUME NEW set, Distinct(set), NEW k \in 0..Cardinality(set) - 1
  PROVE  \E c \in set : Cardinality(Before(set, c)) = k
<1> DEFINE n == Cardinality(set)
           T == 0..n - 1
           f == [c \in set |-> Cardinality(Before(set, c))]
<1>1. IsFiniteSet(set) /\ n \in Nat /\ \A c \in set : c.start \in Int
  BY FS_CardinalityType DEF Distinct, CandleRecords
<1>2. IsFiniteSet(T) /\ Cardinality(T) = n
  <2>1. n - 1 \in Int /\ (IF 0 > n - 1 THEN 0 ELSE (n - 1) - 0 + 1) = n
    BY <1>1
  <2> HIDE DEF n
  <2> QED BY <2>1, FS_Interval
<1>3. f \in [set -> T]
  BY RankOf
<1>4. \A c, d \in set : f[c] = f[d] => c = d
  <2> SUFFICES ASSUME NEW c \in set, NEW d \in set, c # d PROVE f[c] # f[d]
    OBVIOUS
  <2>1. c.start < d.start \/ d.start < c.start
    BY <1>1 DEF Distinct
  <2>2. f[c] \in T /\ f[d] \in T
    BY <1>3
  <2>3. c.start < d.start => f[c] < f[d]
    BY RanksDiffer
  <2>4. d.start < c.start => f[d] < f[c]
    BY RanksDiffer
  <2>5. f[c] \in Int /\ f[d] \in Int
    BY <2>2
  <2> HIDE DEF f
  <2> QED BY <2>1, <2>3, <2>4, <2>5
<1> HIDE DEF f
<1>5. f \in Injection(set, T)
  BY <1>3, <1>4 DEF Injection, IsInjective
<1>6. Cardinality(set) = Cardinality(T)
  BY <1>2
<1> HIDE DEF T
<1>7. f \in Surjection(set, T)
  BY <1>2, <1>5, <1>6, FS_Injection
<1>8. k \in T
  BY DEF T
<1>9. \E c \in set : f[c] = k
  BY <1>7, <1>8 DEF Surjection
<1> QED BY <1>9 DEF f

LEMMA InOrderIs ==
  ASSUME NEW set, Distinct(set)
  PROVE  /\ InOrder(set) \in Seq(CandleRecords)
         /\ Len(InOrder(set)) = Cardinality(set)
         /\ \A i \in 1..Cardinality(set) : InOrder(set)[i] \in set
<1> DEFINE n == Cardinality(set)
           At(i) == CHOOSE c \in set : Cardinality({d \in set : d.start < c.start}) = i - 1
<1>1. n \in Nat /\ set \subseteq CandleRecords
  BY FS_CardinalityType DEF Distinct
<1>2. ASSUME NEW i \in 1..n PROVE At(i) \in set
  <2>1. i - 1 \in 0..n - 1
    BY <1>1
  <2>2. \E c \in set : Cardinality(Before(set, c)) = i - 1
    BY <2>1, EveryRank
  <2> QED BY <2>2 DEF Before
<1>3. InOrder(set) = [i \in 1..n |-> At(i)]
  BY DEF InOrder
<1> HIDE DEF At, n
<1>4. [i \in 1..n |-> At(i)] \in Seq(CandleRecords) /\ Len([i \in 1..n |-> At(i)]) = n
  BY <1>1, <1>2
<1> QED BY <1>1, <1>2, <1>3, <1>4 DEF n

-----------------------------------------------------------------------------
(* Warming up with candles one by one.                                      *)

(* f holds what the warm-up has after each candle of cs.                    *)
IsWarming(f, start, cs) ==
  /\ f[0] = start
  /\ \A k \in 1..Len(cs) : f[k] = WarmOne(f[k - 1], cs[k])

LEMMA WarmedSteps ==
  ASSUME NEW start, NEW cs, Len(cs) \in Nat
  PROVE  \E f : IsWarming(f, start, cs) /\ Warmed(start, cs) = f[Len(cs)]
<1> DEFINE Step(g, k) == IF k = 0 THEN start ELSE WarmOne(g[k - 1], cs[k])
           n == Len(cs)
           S == {i \in Nat : \E g : g = [k \in 0..i |-> Step(g, k)]}
           f == CHOOSE g : g = [k \in 0..n |-> Step(g, k)]
<1>1. n \in Nat
  OBVIOUS
<1>2. 0 \in S
  <2> DEFINE h == [k \in 0..0 |-> start]
  <2>1. h = [k \in 0..0 |-> Step(h, k)]
    OBVIOUS
  <2> HIDE DEF Step, h
  <2> QED BY <2>1
<1>3. ASSUME NEW i \in Nat, i \in S PROVE i + 1 \in S
  <2>1. PICK g : g = [k \in 0..i |-> Step(g, k)]
    BY <1>3
  <2> DEFINE next == WarmOne(g[i], cs[i + 1])
             h == [k \in 0..i + 1 |-> IF k = i + 1 THEN next ELSE g[k]]
  <2>2. ASSUME NEW k \in 0..i + 1 PROVE h[k] = Step(h, k)
    <3>1. CASE k = i + 1
      <4>1. h[k] = next /\ h[k - 1] = g[i] /\ k # 0
        BY <3>1
      <4> QED BY <4>1, <3>1
    <3>2. CASE k # i + 1
      <4>1. k \in 0..i /\ h[k] = g[k]
        BY <3>2
      <4>2. g[k] = Step(g, k)
        <5> HIDE DEF Step
        <5> QED BY <4>1, <2>1
      <4>3. k # 0 => k - 1 \in 0..i + 1 /\ k - 1 # i + 1 /\ h[k - 1] = g[k - 1]
        BY <3>2
      <4> QED BY <4>1, <4>2, <4>3
    <3> QED BY <3>1, <3>2
  <2>3. h = [k \in 0..i + 1 |-> Step(h, k)]
    <3>1. h = [k \in 0..i + 1 |-> h[k]]
      OBVIOUS
    <3> HIDE DEF h, Step
    <3> QED BY <3>1, <2>2
  <2> HIDE DEF h, Step
  <2> QED BY <2>3
<1>4. \A i \in Nat : i \in S
  <2> HIDE DEF S
  <2> QED BY <1>2, <1>3, Counting
<1>5. f = [k \in 0..n |-> Step(f, k)]
  <2>1. n \in S
    BY <1>1, <1>4
  <2> HIDE DEF Step, n
  <2> QED BY <2>1
<1>6. \A k \in 0..n : f[k] = Step(f, k)
  <2> HIDE DEF Step, f, n
  <2> QED BY <1>5
<1>7. 0 \in 0..n /\ \A k \in 1..n : k \in 0..n /\ k # 0
  BY <1>1
<1>8. Warmed(start, cs) = f[n]
  BY DEF Warmed
<1> HIDE DEF f, n
<1>9. f[0] = start /\ \A k \in 1..n : f[k] = WarmOne(f[k - 1], cs[k])
  BY <1>6, <1>7
<1> QED BY <1>8, <1>9 DEF n, IsWarming

(* A state of the warm-up: a list of candles and whether it was refused.    *)
IsWarm(acc) ==
  /\ acc = [list |-> acc.list, vwap |-> acc.vwap, source |-> acc.source, raised |-> acc.raised]
  /\ acc.list \in Seq(CandleRecords) /\ acc.raised \in BOOLEAN

(* Unless it is refused, a candle is taken as the analysis takes it.        *)
LEMMA WarmOneTakes ==
  ASSUME NEW acc, IsWarm(acc), NEW c \in CandleRecords
  PROVE  /\ IsWarm(WarmOne(acc, c))
         /\ ~WarmOne(acc, c).raised =>
              /\ ~acc.raised
              /\ Take([list |-> acc.list, raised |-> FALSE], c)
                   = [list |-> WarmOne(acc, c).list, raised |-> FALSE]
<1> DEFINE before == [list |-> acc.list, raised |-> FALSE]
           taken == Take(before, c)
           new == WarmOne(acc, c)
           v == VwapWith(acc.vwap, SeedTick(c))
           kept == IF acc.source = "Futures Proxy" /\ v.volume > 0 THEN acc.source ELSE "Spot"
<1>1. before \in Analyses
  BY DEF IsWarm, Analyses
<1>2. taken \in Analyses
  BY <1>1, TakeTyped
<1>3. taken.list \in Seq(CandleRecords) /\ taken.raised \in BOOLEAN
      /\ taken = [list |-> taken.list, raised |-> taken.raised]
  <2> HIDE DEF taken
  <2> QED BY <1>2 DEF Analyses
<1>4. \/ new = acc /\ acc.raised
      \/ new = [acc EXCEPT !.raised = TRUE]
      \/ ~acc.raised /\ ~taken.raised /\ new = [acc EXCEPT !.list = taken.list]
      \/ ~acc.raised /\ ~taken.raised /\ new = [acc EXCEPT !.list = taken.list, !.raised = TRUE]
      \/ ~acc.raised /\ ~taken.raised /\ new = [acc EXCEPT !.list = taken.list, !.vwap = v, !.source = kept]
  <2>1. WarmOne(acc, c) =
          IF acc.raised THEN acc
          ELSE IF taken.raised THEN [acc EXCEPT !.raised = TRUE]
          ELSE IF c.volume = 0 THEN [acc EXCEPT !.list = taken.list]
          ELSE IF VwapStale(acc.vwap, SeedTick(c)) THEN [[acc EXCEPT !.list = taken.list] EXCEPT !.raised = TRUE]
          ELSE [[acc EXCEPT !.list = taken.list] EXCEPT !.vwap = v,
                   !.source = IF @ = "Futures Proxy" /\ v.volume > 0 THEN @ ELSE "Spot"]
    BY DEF WarmOne
  <2> HIDE DEF taken, v
  <2>2. IsWarm(acc)
    OBVIOUS
  <2> QED BY <2>1, <2>2 DEF IsWarm
<1> HIDE DEF taken, v, kept, new
<1> SUFFICES IsWarm(new) /\ (~new.raised => ~acc.raised /\ taken = [list |-> new.list, raised |-> FALSE])
  BY DEF new, taken
<1>5. acc = [list |-> acc.list, vwap |-> acc.vwap, source |-> acc.source, raised |-> acc.raised]
      /\ acc.list \in Seq(CandleRecords) /\ acc.raised \in BOOLEAN
  BY DEF IsWarm
<1>6. CASE new = acc /\ acc.raised
  BY <1>5, <1>6 DEF IsWarm
<1>7. CASE new = [acc EXCEPT !.raised = TRUE]
  BY <1>5, <1>7 DEF IsWarm
<1>8. CASE ~acc.raised /\ ~taken.raised /\ new = [acc EXCEPT !.list = taken.list]
  BY <1>3, <1>5, <1>8 DEF IsWarm
<1>9. CASE ~acc.raised /\ ~taken.raised /\ new = [acc EXCEPT !.list = taken.list, !.raised = TRUE]
  BY <1>3, <1>5, <1>9 DEF IsWarm
<1>10. CASE ~acc.raised /\ ~taken.raised /\ new = [acc EXCEPT !.list = taken.list, !.vwap = v, !.source = kept]
  BY <1>3, <1>5, <1>10 DEF IsWarm
<1> QED BY <1>4, <1>6, <1>7, <1>8, <1>9, <1>10

LEMMA WarmingTyped ==
  ASSUME NEW cs \in Seq(CandleRecords), NEW start, IsWarm(start), NEW f, IsWarming(f, start, cs)
  PROVE  \A k \in 0..Len(cs) : IsWarm(f[k])
<1> DEFINE n == Len(cs)
           S == {k \in Nat : k <= n => IsWarm(f[k])}
<1>1. 0 \in S
  BY DEF IsWarming
<1>2. ASSUME NEW k \in Nat, k \in S PROVE k + 1 \in S
  <2>1. CASE k + 1 <= n
    <3>1. k + 1 \in 1..n /\ (k + 1) - 1 = k /\ IsWarm(f[k])
      BY <2>1, <1>2
    <3>2. f[k + 1] = WarmOne(f[k], cs[k + 1]) /\ cs[k + 1] \in CandleRecords
      BY <3>1, ElementOfSeq DEF IsWarming
    <3>3. IsWarm(WarmOne(f[k], cs[k + 1]))
      BY <3>1, <3>2, WarmOneTakes
    <3> QED BY <3>2, <3>3
  <2> QED BY <2>1
<1>3. \A k \in Nat : k \in S
  <2> HIDE DEF S
  <2> QED BY <1>1, <1>2, Counting
<1> QED BY <1>3

LEMMA WarmedTyped ==
  ASSUME NEW cs \in Seq(CandleRecords), NEW start, IsWarm(start)
  PROVE  IsWarm(Warmed(start, cs))
<1> DEFINE n == Len(cs)
<1>1. n \in Nat /\ n \in 0..n
  OBVIOUS
<1>2. PICK f : IsWarming(f, start, cs) /\ Warmed(start, cs) = f[n]
  <2>1. Len(cs) \in Nat
    OBVIOUS
  <2> QED BY <2>1, WarmedSteps
<1>3. \A k \in 0..n : IsWarm(f[k])
  BY <1>2, WarmingTyped
<1> QED BY <1>1, <1>2, <1>3

LEMMA WarmingUnrefused ==
  ASSUME NEW ds \in Seq(CandleRecords), NEW start, IsWarm(start), NEW f, IsWarming(f, start, ds),
         ~f[Len(ds)].raised
  PROVE  \A k \in 0..Len(ds) : ~f[k].raised
<1> DEFINE m == Len(ds)
           S == {k \in Nat : k <= m => ~f[m - k].raised}
<1>1. m \in Nat /\ \A k \in 0..m : IsWarm(f[k])
  BY WarmingTyped
<1>2. 0 \in S
  <2>1. m - 0 = m
    BY <1>1
  <2> QED BY <2>1
<1>3. ASSUME NEW k \in Nat, k \in S PROVE k + 1 \in S
  <2>1. CASE k + 1 <= m
    <3>1. m - k \in 1..m /\ (m - k) - 1 = m - (k + 1) /\ m - (k + 1) \in 0..m /\ ~f[m - k].raised
      BY <1>1, <1>3, <2>1
    <3>2. f[m - k] = WarmOne(f[m - (k + 1)], ds[m - k]) /\ ds[m - k] \in CandleRecords
      BY <3>1, ElementOfSeq DEF IsWarming
    <3>3. ~f[m - (k + 1)].raised
      <4>1. IsWarm(f[m - (k + 1)]) /\ ~WarmOne(f[m - (k + 1)], ds[m - k]).raised
        BY <1>1, <3>1, <3>2
      <4> QED BY <3>2, <4>1, WarmOneTakes
    <3> QED BY <3>3
  <2> QED BY <2>1
<1>4. \A k \in Nat : k \in S
  <2> HIDE DEF S
  <2> QED BY <1>2, <1>3, Counting
<1>5. ASSUME NEW k \in 0..m PROVE ~f[k].raised
  <2>1. m - k \in Nat /\ m - k <= m /\ m - (m - k) = k
    BY <1>1
  <2>2. m - k \in S
    BY <1>4, <2>1
  <2> QED BY <2>1, <2>2
<1> QED BY <1>5

(* all is cs with ds behind it; the analysis has taken all of cs, and the   *)
(* warm-up hands it ds from there.                                          *)
Seeding(cs, ds, all, start, f) ==
  /\ cs \in Seq(CandleRecords) /\ ds \in Seq(CandleRecords) /\ all \in Seq(CandleRecords)
  /\ Len(all) = Len(cs) + Len(ds)
  /\ \A i \in 1..Len(cs) : all[i] = cs[i]
  /\ \A i \in 1..Len(ds) : all[Len(cs) + i] = ds[i]
  /\ IsWarm(start) /\ IsWarming(f, start, ds)
  /\ ~Beginning(cs, Len(cs)).raised /\ start.list = Beginning(cs, Len(cs)).list

LEMMA SeedingFollows ==
  ASSUME NEW cs, NEW ds, NEW all, NEW start, NEW f, Seeding(cs, ds, all, start, f),
         ~f[Len(ds)].raised
  PROVE  Follows(all, Len(all), f[Len(ds)].list)
<1> DEFINE n == Len(cs)
           m == Len(ds)
           l == Len(all)
<1>1. /\ cs \in Seq(CandleRecords) /\ ds \in Seq(CandleRecords) /\ all \in Seq(CandleRecords)
      /\ n \in Nat /\ m \in Nat /\ l = n + m /\ l \in Nat /\ ~f[m].raised
      /\ \A i \in 1..n : all[i] = cs[i]
      /\ \A i \in 1..m : all[n + i] = ds[i]
  <2>1. /\ cs \in Seq(CandleRecords) /\ ds \in Seq(CandleRecords) /\ all \in Seq(CandleRecords)
        /\ l = n + m /\ ~f[m].raised
        /\ \A i \in 1..n : all[i] = cs[i]
        /\ \A i \in 1..m : all[n + i] = ds[i]
    BY Zenon DEF Seeding
  <2>2. n \in Nat /\ m \in Nat /\ l \in Nat
    BY <2>1
  <2> HIDE DEF n, m, l
  <2> QED BY <2>1, <2>2
<1>2. IsWarm(start) /\ IsWarming(f, start, ds)
  BY DEF Seeding
<1>3. ~Beginning(cs, n).raised /\ start.list = Beginning(cs, n).list
  BY DEF Seeding
<1>4. \A k \in 0..m : IsWarm(f[k]) /\ ~f[k].raised
  <2>1. \A k \in 0..Len(ds) : IsWarm(f[k])
    BY <1>1, <1>2, WarmingTyped
  <2>2. \A k \in 0..Len(ds) : ~f[k].raised
    BY <1>1, <1>2, WarmingUnrefused
  <2> QED BY <2>1, <2>2
<1>5. PICK g : IsWalk(g, <<>>, all, l)
  BY <1>1, WalkExists
<1>6. \A k \in 0..l : Beginning(all, k) = g[k]
  <2> DEFINE empty == <<>>
  <2>1. IsWalk(g, empty, all, Len(all)) /\ all \in Seq(CandleRecords)
    BY <1>1, <1>5
  <2> HIDE DEF empty, n, m
  <2>2. ASSUME NEW k \in 0..Len(all) PROVE Analysed(empty, SubSeq(all, 1, k)) = g[k]
    <3> HIDE <1>1, <1>2, <1>3, <1>4, <1>5
    <3> QED BY <2>1, WalkOfBeginning
  <2> QED BY <2>2 DEF Beginning, empty
<1>7. \A k \in 0..l : g[k] \in Analyses
  <2> DEFINE empty == <<>>
             Cs == CandleRecords
  <2>1. empty \in Seq(CandleRecords) /\ l \in 0..Len(all) /\ IsWalk(g, empty, all, l)
    BY <1>1, <1>5, EmptySeq
  <2> HIDE DEF empty, l
  <2> QED BY <1>1, <2>1, WalkTyped
<1>8. SubSeq(all, 1, n) = SubSeq(cs, 1, n)
  <2> DEFINE s == SubSeq(cs, 1, n)
             t == SubSeq(all, 1, n)
  <2>1. \A i \in 1..n : cs[i] \in CandleRecords /\ all[i] \in CandleRecords
    BY <1>1, ElementOfSeq
  <2>2. 1 \in Int /\ n \in Int /\ n - 1 + 1 = n /\ (IF 1 <= n THEN n - 1 + 1 ELSE 0) = n
        /\ \A i \in 1..n : 1 + i - 1 = i
    BY <1>1
  <2> HIDE DEF n
  <2>3. /\ s \in Seq(CandleRecords) /\ Len(s) = IF 1 <= n THEN n - 1 + 1 ELSE 0
        /\ \A i \in 1..n - 1 + 1 : s[i] = cs[1 + i - 1]
    BY <2>1, <2>2, SubSeqProperties
  <2>4. /\ t \in Seq(CandleRecords) /\ Len(t) = IF 1 <= n THEN n - 1 + 1 ELSE 0
        /\ \A i \in 1..n - 1 + 1 : t[i] = all[1 + i - 1]
    BY <2>1, <2>2, SubSeqProperties
  <2> HIDE DEF s, t
  <2>5. Len(s) = n /\ Len(t) = n /\ \A i \in 1..n : s[i] = t[i]
    BY <1>1, <2>2, <2>3, <2>4
  <2>6. s = t
    BY <2>3, <2>4, <2>5, SeqEqual
  <2> QED BY <2>6 DEF s, t
<1> HIDE DEF n, m, l
<1>9. g[n] = [list |-> start.list, raised |-> FALSE]
  <2>1. n \in 0..l
    BY <1>1
  <2>2. g[n] = Beginning(cs, n)
    BY <1>6, <1>8, <2>1 DEF Beginning
  <2>3. g[n] \in Analyses
    BY <1>7, <2>1
  <2> QED BY <1>3, <2>2, <2>3 DEF Analyses
<1> DEFINE S == {k \in Nat : k <= m => g[n + k] = [list |-> f[k].list, raised |-> FALSE]}
<1>10. 0 \in S
  <2>1. n + 0 = n /\ f[0] = start
    BY <1>1, <1>2 DEF IsWarming
  <2> QED BY <2>1, <1>9
<1>11. ASSUME NEW k \in Nat, k \in S PROVE k + 1 \in S
  <2>1. CASE k + 1 <= m
    <3>1. /\ k + 1 \in 1..m /\ k \in 0..m /\ k + 1 \in 0..m /\ (k + 1) - 1 = k
          /\ n + (k + 1) \in 1..l /\ (n + (k + 1)) - 1 = n + k
          /\ g[n + k] = [list |-> f[k].list, raised |-> FALSE]
      BY <1>1, <1>11, <2>1
    <3>2. f[k + 1] = WarmOne(f[k], ds[k + 1]) /\ ds[k + 1] \in CandleRecords
      BY <1>1, <1>2, <3>1, ElementOfSeq DEF IsWarming, m
    <3>3. g[n + (k + 1)] = Take(g[n + k], ds[k + 1])
      <4>1. g[n + (k + 1)] = Take(g[n + k], all[n + (k + 1)])
        <5> DEFINE p == n + (k + 1)
                   q == n + k
        <5>1. p \in 1..l /\ p - 1 = q
          BY <3>1
        <5> HIDE DEF p, q
        <5>2. g[p] = Take(g[q], all[p])
          BY <1>5, <5>1 DEF IsWalk
        <5> QED BY <5>2 DEF p, q
      <4>2. all[n + (k + 1)] = ds[k + 1]
        BY <1>1, <3>1
      <4> QED BY <3>1, <4>1, <4>2
    <3>4. IsWarm(f[k]) /\ ~WarmOne(f[k], ds[k + 1]).raised
      BY <1>4, <3>1, <3>2
    <3>5. Take([list |-> f[k].list, raised |-> FALSE], ds[k + 1])
            = [list |-> WarmOne(f[k], ds[k + 1]).list, raised |-> FALSE]
      BY <3>2, <3>4, WarmOneTakes
    <3>6. g[n + (k + 1)] = [list |-> f[k + 1].list, raised |-> FALSE]
      BY <3>1, <3>2, <3>3, <3>5
    <3> QED BY <3>6
  <2> QED BY <2>1
<1>12. \A k \in Nat : k \in S
  <2> HIDE DEF S
  <2> QED BY <1>10, <1>11, Counting
<1>13. g[l] = [list |-> f[m].list, raised |-> FALSE]
  <2>1. m \in S
    BY <1>1, <1>12
  <2> QED BY <1>1, <2>1
<1>14. l \in 0..l /\ l \in l..l
  BY <1>1
<1>15. StandsAt(all, l, f[m].list, l)
  BY <1>6, <1>13, <1>14 DEF StandsAt
<1> QED BY <1>14, <1>15 DEF Follows, l, m

(* After a warm-up that was not refused, the lane follows all its candles.  *)
LEMMA WarmedFollows ==
  ASSUME NEW cs \in Seq(CandleRecords), NEW ds \in Seq(CandleRecords),
         NEW start, IsWarm(start),
         ~Beginning(cs, Len(cs)).raised, start.list = Beginning(cs, Len(cs)).list,
         ~Warmed(start, ds).raised
  PROVE  Follows(cs \o ds, Len(cs \o ds), Warmed(start, ds).list)
<1> DEFINE all == cs \o ds
           n == Len(cs)
           m == Len(ds)
<1>1. n \in Nat /\ m \in Nat /\ all \in Seq(CandleRecords) /\ Len(all) = n + m
      /\ \A i \in 1..n + m : all[i] = IF i <= n THEN cs[i] ELSE ds[i - n]
  BY ConcatProperties
<1>2. PICK f : IsWarming(f, start, ds) /\ Warmed(start, ds) = f[m]
  BY <1>1, WarmedSteps
<1> HIDE DEF all
<1>3. /\ \A i \in 1..n : i \in 1..n + m /\ i <= n
      /\ \A i \in 1..m : n + i \in 1..n + m /\ ~(n + i <= n) /\ (n + i) - n = i
  BY <1>1
<1>4. (\A i \in 1..n : all[i] = cs[i]) /\ \A i \in 1..m : all[n + i] = ds[i]
  <2> HIDE DEF n, m
  <2> QED BY <1>1, <1>3
<1>5. Seeding(cs, ds, all, start, f)
  BY <1>1, <1>2, <1>4 DEF Seeding
<1>6. Follows(all, Len(all), f[Len(ds)].list)
  BY <1>2, <1>5, SeedingFollows
<1> QED BY <1>2, <1>6 DEF all

-----------------------------------------------------------------------------
(* Sums over the other instruments.                                         *)

LEMMA TotalSteps ==
  ASSUME NEW count, NEW order, order = SetToSeq(DOMAIN count), Len(order) \in Nat
  PROVE  \E f : /\ f[0] = 0
                /\ \A k \in 1..Len(order) : f[k] = f[k - 1] + count[order[k]]
                /\ Total(count) = f[Len(order)]
<1> DEFINE Step(g, k) == IF k = 0 THEN 0 ELSE g[k - 1] + count[order[k]]
           n == Len(order)
           S == {i \in Nat : \E g : g = [k \in 0..i |-> Step(g, k)]}
           f == CHOOSE g : g = [k \in 0..n |-> Step(g, k)]
<1>1. n \in Nat
  OBVIOUS
<1>2. 0 \in S
  <2> DEFINE h == [k \in 0..0 |-> 0]
  <2>1. h = [k \in 0..0 |-> Step(h, k)]
    OBVIOUS
  <2> HIDE DEF Step, h
  <2> QED BY <2>1
<1>3. ASSUME NEW i \in Nat, i \in S PROVE i + 1 \in S
  <2>1. PICK g : g = [k \in 0..i |-> Step(g, k)]
    BY <1>3
  <2> DEFINE next == g[i] + count[order[i + 1]]
             h == [k \in 0..i + 1 |-> IF k = i + 1 THEN next ELSE g[k]]
  <2>2. ASSUME NEW k \in 0..i + 1 PROVE h[k] = Step(h, k)
    <3>1. CASE k = i + 1
      <4>1. h[k] = next /\ h[k - 1] = g[i] /\ k # 0
        BY <3>1
      <4> QED BY <4>1, <3>1
    <3>2. CASE k # i + 1
      <4>1. k \in 0..i /\ h[k] = g[k]
        BY <3>2
      <4>2. g[k] = Step(g, k)
        <5> HIDE DEF Step
        <5> QED BY <4>1, <2>1
      <4>3. k # 0 => k - 1 \in 0..i + 1 /\ k - 1 # i + 1 /\ h[k - 1] = g[k - 1]
        BY <3>2
      <4> QED BY <4>1, <4>2, <4>3
    <3> QED BY <3>1, <3>2
  <2>3. h = [k \in 0..i + 1 |-> Step(h, k)]
    <3>1. h = [k \in 0..i + 1 |-> h[k]]
      OBVIOUS
    <3> HIDE DEF h, Step
    <3> QED BY <3>1, <2>2
  <2> HIDE DEF h, Step
  <2> QED BY <2>3
<1>4. \A i \in Nat : i \in S
  <2> HIDE DEF S
  <2> QED BY <1>2, <1>3, Counting
<1>5. f = [k \in 0..n |-> Step(f, k)]
  <2>1. n \in S
    BY <1>1, <1>4
  <2> HIDE DEF Step, n
  <2> QED BY <2>1
<1>6. \A k \in 0..n : f[k] = Step(f, k)
  <2> HIDE DEF Step, f, n
  <2> QED BY <1>5
<1>7. 0 \in 0..n /\ \A k \in 1..n : k \in 0..n /\ k # 0
  BY <1>1
<1>8. Total(count) = f[n]
  BY DEF Total
<1> HIDE DEF f, n
<1>9. f[0] = 0 /\ \A k \in 1..n : f[k] = f[k - 1] + count[order[k]]
  BY <1>6, <1>7
<1> QED BY <1>8, <1>9 DEF n

LEMMA OrderOf ==
  ASSUME NEW S, IsFiniteSet(S)
  PROVE  SetToSeq(S) \in Seq(S)
<1>1. Cardinality(S) \in Nat /\ ExistsBijection(1..Cardinality(S), S)
  BY FS_CardinalityType
<1>2. \E f \in [1..Cardinality(S) -> S] : IsInjective(f)
  BY <1>1 DEF ExistsBijection, Bijection, Injection
<1>3. SetToSeq(S) \in [1..Cardinality(S) -> S]
  BY <1>2 DEF SetToSeq
<1> QED BY <1>1, <1>3

(* The sum of smaller numbers is no larger.                                 *)
LEMMA TotalsCompare ==
  ASSUME NEW S, IsFiniteSet(S), NEW few \in [S -> Nat], NEW many \in [S -> Nat],
         \A x \in S : few[x] <= many[x]
  PROVE  Total(few) \in Nat /\ Total(many) \in Nat /\ Total(few) <= Total(many)
<1> DEFINE order == SetToSeq(S)
           n == Len(order)
<1>1. order \in Seq(S) /\ n \in Nat /\ \A k \in 1..n : order[k] \in S
  <2>1. order \in Seq(S)
    BY OrderOf
  <2> HIDE DEF order
  <2> QED BY <2>1, ElementOfSeq
<1>2. order = SetToSeq(DOMAIN few) /\ order = SetToSeq(DOMAIN many)
  OBVIOUS
<1> HIDE DEF order
<1>3. PICK f : /\ f[0] = 0
               /\ \A k \in 1..Len(order) : f[k] = f[k - 1] + few[order[k]]
               /\ Total(few) = f[Len(order)]
  BY <1>1, <1>2, TotalSteps
<1>4. PICK g : /\ g[0] = 0
               /\ \A k \in 1..Len(order) : g[k] = g[k - 1] + many[order[k]]
               /\ Total(many) = g[Len(order)]
  BY <1>1, <1>2, TotalSteps
<1> HIDE DEF n
<1> DEFINE T == {k \in Nat : k <= n => f[k] \in Nat /\ g[k] \in Nat /\ f[k] <= g[k]}
<1>5. 0 \in T
  BY <1>3, <1>4
<1>6. ASSUME NEW k \in Nat, k \in T PROVE k + 1 \in T
  <2>1. CASE k + 1 <= n
    <3>1. k + 1 \in 1..n /\ (k + 1) - 1 = k /\ f[k] \in Nat /\ g[k] \in Nat /\ f[k] <= g[k]
      BY <1>1, <1>6, <2>1
    <3> DEFINE x == order[k + 1]
    <3>2. x \in S
      BY <1>1, <3>1
    <3>3. f[k + 1] = f[k] + few[x] /\ g[k + 1] = g[k] + many[x]
      BY <1>3, <1>4, <3>1 DEF n
    <3> HIDE DEF x
    <3>4. few[x] \in Nat /\ many[x] \in Nat /\ few[x] <= many[x]
      BY <3>2
    <3>5. f[k + 1] \in Nat /\ g[k + 1] \in Nat /\ f[k + 1] <= g[k + 1]
      BY <3>1, <3>3, <3>4
    <3> QED BY <3>5
  <2> QED BY <2>1
<1>7. \A k \in Nat : k \in T
  <2> HIDE DEF T
  <2> QED BY <1>5, <1>6, Counting
<1> QED BY <1>1, <1>3, <1>4, <1>7 DEF n

(* The other instruments' results: no instrument accepts more candles than  *)
(* it fetched.                                                              *)
LEMMA OthersAddUp ==
  ASSUME NEW others \in OtherResults
  PROVE  /\ DOMAIN others = Others
         /\ \A i \in Others : others[i].accepted \in Nat
         /\ Accepted(others) \in Nat /\ FetchedBy(others) \in Nat
         /\ Accepted(others) <= FetchedBy(others)
<1> DEFINE few == [i \in Others |-> others[i].accepted]
           many == [i \in Others |-> others[i].fetched]
<1>1. DOMAIN others = Others /\ \A i \in Others : others[i] \in AnyResult
  BY DEF OtherResults
<1>2. \A r \in AnyResult : r.accepted \in Nat /\ r.fetched \in Nat /\ r.accepted <= r.fetched
  BY DEF AnyResult, FailedResult, Result
<1>3. /\ few \in [Others -> Nat] /\ many \in [Others -> Nat]
      /\ \A i \in Others : few[i] <= many[i]
  BY <1>1, <1>2
<1>4. Accepted(others) = Total(few) /\ FetchedBy(others) = Total(many)
  BY <1>1 DEF Accepted, FetchedBy
<1>5. \A i \in Others : others[i].accepted \in Nat
  BY <1>1, <1>2
<1> HIDE DEF few, many
<1>6. Total(few) \in Nat /\ Total(many) \in Nat /\ Total(few) <= Total(many)
  BY <1>3, OthersAreFinite, TotalsCompare
<1> QED BY <1>1, <1>4, <1>5, <1>6

LEMMA NothingAddsUp == Accepted(<<>>) = 0 /\ FetchedBy(<<>>) = 0
<1> DEFINE none == [i \in {} |-> 0]
           zero == SetToSeq(DOMAIN none)
<1>1. DOMAIN <<>> = {}
  OBVIOUS
<1>2. Accepted(<<>>) = Total(none) /\ FetchedBy(<<>>) = Total(none)
  <2>1. \A f : DOMAIN f = {} => [i \in DOMAIN f |-> f[i].accepted] = none /\ [i \in DOMAIN f |-> f[i].fetched] = none
    OBVIOUS
  <2> HIDE DEF none
  <2> QED BY <1>1, <2>1 DEF Accepted, FetchedBy
<1>3. zero \in Seq({})
  <2>1. DOMAIN none = {}
    OBVIOUS
  <2> HIDE DEF none
  <2> QED BY <2>1, OrderOf, FS_EmptySet
<1>4. Len(zero) = 0
  <2> HIDE DEF zero
  <2>1. Len(zero) # 0 => 1 \in 1..Len(zero)
    BY <1>3
  <2> QED BY <1>3, <2>1, ElementOfSeq
<1> HIDE DEF none
<1>5. PICK f : /\ f[0] = 0
               /\ \A k \in 1..Len(zero) : f[k] = f[k - 1] + none[zero[k]]
               /\ Total(none) = f[Len(zero)]
  <2>1. Len(zero) \in Nat
    BY <1>4
  <2> QED BY <2>1, TotalSteps
<1> HIDE DEF zero
<1> QED BY <1>2, <1>4, <1>5

-----------------------------------------------------------------------------
(* Where candles come from.                                                 *)

LEMMA LaneConstants ==
  /\ Primary \in Lanes
  /\ \A tf \in Lanes : Width[tf] \in Nat \ {0}
  /\ DayLength \in Nat \ {0} /\ Opening \in Nat /\ MaxTime \in Nat
<1>1. Timeframes \in Seq(Lanes) /\ Timeframes # <<>>
  BY BoundsOfCandles
<1>2. Len(Timeframes) # 0 /\ Len(Timeframes) \in Nat
  BY <1>1, EmptySeq
<1>3. 1 \in DOMAIN Timeframes
  BY <1>1, <1>2
<1> QED BY <1>3, BoundsOfCandles DEF Primary, Lanes

LEMMA TickTyped ==
  ASSUME NEW t \in Ticks
  PROVE  t.time \in Nat /\ t.price \in Nat /\ t.volume \in Nat
<1>1. t.time \in 0..MaxTime /\ t.price \in Prices /\ t.volume \in Volumes
  BY DEF Ticks
<1>2. t.price \in Nat /\ t.volume \in Nat
  BY <1>1, BoundsOfCandles
<1>3. t.time \in Nat
  BY <1>1, LaneConstants
<1> QED BY <1>2, <1>3

LEMMA OpenedTyped ==
  ASSUME NEW t \in Ticks, NEW width \in Nat \ {0}
  PROVE  Opened(t, width) \in CandleRecords
<1>1. t.time \in Int /\ t.price \in Nat /\ t.volume \in Nat
  BY TickTyped
<1>2. DayLength \in Nat \ {0} /\ Opening \in Nat
  BY LaneConstants
<1> DEFINE day == t.time \div DayLength
           open == day * DayLength + Opening
           slot == (t.time - open) \div width
           start == open + slot * width
<1>3. day \in Int
  BY <1>1, <1>2
<1> HIDE DEF day
<1>4. open \in Int
  BY <1>2, <1>3
<1> HIDE DEF open
<1>5. slot \in Int
  BY <1>1, <1>4
<1> HIDE DEF slot
<1>6. start \in Int /\ start + width \in Int
  BY <1>4, <1>5
<1>7. Opened(t, width) = CandleOf(start, width, t.price, t.volume)
  BY DEF Opened, Day, start, slot, open, day
<1> HIDE DEF start
<1>8. CandleOf(start, width, t.price, t.volume) \in CandleRecords
  BY <1>1, <1>6 DEF CandleOf, CandleRecords
<1> QED BY <1>7, <1>8

LEMMA ExtendedTyped ==
  ASSUME NEW t \in Ticks, NEW c \in CandleRecords
  PROVE  Extended(c, t) \in CandleRecords
<1> DEFINE high == IF t.price > c.high THEN t.price ELSE c.high
           low == IF t.price < c.low THEN t.price ELSE c.low
           volume == c.volume + t.volume
<1>1. t.price \in Nat /\ t.volume \in Nat
  BY TickTyped
<1>2. high \in Int /\ low \in Int /\ volume \in Nat
  BY <1>1 DEF CandleRecords
<1>3. Extended(c, t) = [c EXCEPT !.high = high, !.low = low, !.close = t.price, !.volume = volume]
  BY DEF Extended
<1> HIDE DEF high, low, volume
<1>4. t.price \in Int
  BY <1>1
<1> QED BY <1>2, <1>3, <1>4 DEF CandleRecords

(* A tick closes at most one candle of a lane, and passes nothing on.       *)
LEMMA TickedKeeps ==
  ASSUME NEW t \in Ticks, NEW width \in Nat \ {0}, NEW lane \in LaneRecords
  PROVE  /\ Ticked(lane, width, t) \in LaneRecords
         /\ LaneFollows(lane) => LaneFollows(Ticked(lane, width, t))
<1> DEFINE new == Ticked(lane, width, t)
           fresh == Opened(t, width)
           longer == Extended(lane.building, t)
<1>1. fresh \in CandleRecords
  BY OpenedTyped
<1>2. lane.building \in CandleRecords => longer \in CandleRecords
  BY ExtendedTyped
<1> HIDE DEF fresh, longer
<1>3. CASE lane.building = None
  <2>1. new = [lane EXCEPT !.building = fresh]
    BY <1>3 DEF Ticked, fresh
  <2>2. new \in LaneRecords /\ new.closed = lane.closed /\ new.counted = lane.counted /\ new.analysed = lane.analysed
    BY <1>1, <2>1 DEF LaneRecords
  <2> QED BY <2>2 DEF LaneFollows
<1>4. CASE lane.building # None /\ Within(lane.building, t)
  <2>1. new = [lane EXCEPT !.building = longer]
    BY <1>4 DEF Ticked, longer
  <2>2. lane.building \in CandleRecords
    BY <1>4 DEF LaneRecords
  <2>3. new \in LaneRecords /\ new.closed = lane.closed /\ new.counted = lane.counted /\ new.analysed = lane.analysed
    BY <1>2, <2>1, <2>2 DEF LaneRecords
  <2> QED BY <2>3 DEF LaneFollows
<1>5. CASE lane.building # None /\ ~Within(lane.building, t)
  <2> DEFINE all == Append(lane.closed, lane.building)
  <2>1. new = [lane EXCEPT !.closed = all, !.building = fresh]
    BY <1>5 DEF Ticked, fresh
  <2>2. lane.building \in CandleRecords /\ lane.closed \in Seq(CandleRecords) /\ lane.counted \in Nat
    BY <1>5 DEF LaneRecords
  <2>3. all \in Seq(CandleRecords)
    BY <2>2
  <2>4. LaneFollows(lane) => Follows(all, lane.counted, lane.analysed)
    BY <2>2, FollowsOn DEF LaneFollows
  <2> HIDE DEF all
  <2>5. new \in LaneRecords /\ new.closed = all /\ new.counted = lane.counted /\ new.analysed = lane.analysed
    BY <1>1, <2>1, <2>3 DEF LaneRecords
  <2> QED BY <2>4, <2>5 DEF LaneFollows
<1> QED BY <1>3, <1>4, <1>5

LEMMA HistoryIsFinite ==
  HistoricalCandles \subseteq CandleRecords /\ IsFiniteSet(HistoricalCandles)
<1> DEFINE A == (0..MaxTime) \X Contents
           f == [p \in A |-> CandleOf(p[1], Width[Primary], p[2][1], p[2][2])]
           all == {CandleOf(s, Width[Primary], x[1], x[2]) : s \in 0..MaxTime, x \in Contents}
<1>1. MaxTime \in Nat /\ Width[Primary] \in Nat /\ Contents \subseteq Nat \X Nat /\ IsFiniteSet(Contents)
  BY LaneConstants, BoundsOfCandles
<1>2. IsFiniteSet(A)
  <2>1. IsFiniteSet(0..MaxTime)
    BY <1>1, FS_Interval, 0 \in Int, MaxTime \in Int
  <2> QED BY <1>1, <2>1, FS_Product
<1>3. f \in Surjection(A, all)
  <2>1. \A p \in A : f[p] \in all
    OBVIOUS
  <2>2. ASSUME NEW c \in all PROVE \E p \in A : f[p] = c
    <3>1. PICK s \in 0..MaxTime, x \in Contents : c = CandleOf(s, Width[Primary], x[1], x[2])
      OBVIOUS
    <3>2. <<s, x>> \in A /\ f[<<s, x>>] = c
      BY <3>1
    <3> QED BY <3>2
  <2>3. f \in [A -> all]
    BY <2>1
  <2> HIDE DEF f, A, all
  <2> QED BY <2>2, <2>3 DEF Surjection
<1>4. IsFiniteSet(all)
  <2> HIDE DEF f, A, all
  <2> QED BY <1>2, <1>3, FS_Surjection
<1>5. all \subseteq CandleRecords
  <2>1. ASSUME NEW s \in 0..MaxTime, NEW x \in Contents
        PROVE  CandleOf(s, Width[Primary], x[1], x[2]) \in CandleRecords
    <3>1. x[1] \in Nat /\ x[2] \in Nat /\ s \in Nat /\ s + Width[Primary] \in Int
      BY <1>1
    <3> QED BY <3>1 DEF CandleOf, CandleRecords
  <2> QED BY <2>1
<1>6. HistoricalCandles \in SUBSET all
  BY DEF HistoricalCandles
<1> HIDE DEF all
<1> QED BY <1>4, <1>5, <1>6, FS_Subset

LEMMA HistoryTaken ==
  ASSUME NEW cs, cs \subseteq HistoricalCandles
  PROVE  cs \subseteq CandleRecords /\ IsFiniteSet(cs) /\ Cardinality(cs) \in Nat
<1>1. cs \in SUBSET HistoricalCandles
  OBVIOUS
<1> QED BY <1>1, HistoryIsFinite, FS_Subset, FS_CardinalityType

LEMMA AnswersAre ==
  ASSUME NEW from, NEW to, NEW a \in Answers(from, to)
  PROVE  /\ a.candles \subseteq HistoricalCandles
         /\ a.junk \in Nat /\ a.twice \in Nat
<1>1. CASE a = [fails |-> TRUE, candles |-> {}, junk |-> 0, twice |-> 0]
  BY <1>1
<1>2. CASE a \in [fails : {FALSE},
                  candles : UNION {kSubset(k, {c \in HistoricalCandles : c.start \in from .. to}) :
                                     k \in 0 .. MaxRecords},
                  junk : 0 .. 1, twice : 0 .. 1]
  <2>1. a.candles \in UNION {kSubset(k, {c \in HistoricalCandles : c.start \in from .. to}) :
                                     k \in 0 .. MaxRecords}
        /\ a.junk \in 0..1 /\ a.twice \in 0..1
    BY <1>2
  <2>2. PICK k \in 0..MaxRecords : a.candles \in kSubset(k, {c \in HistoricalCandles : c.start \in from .. to})
    BY <2>1
  <2> QED BY <2>1, <2>2 DEF kSubset
<1> QED BY <1>1, <1>2 DEF Answers

-----------------------------------------------------------------------------
(* What a warm-up does to the primary lane.                                 *)

(* What is accepted comes from the set offered, each candle once.           *)
LEMMA AcceptedAre ==
  ASSUME NEW lane, NEW cs, IsFiniteSet(cs), cs \subseteq CandleRecords, NEW replace,
         NEW accepted, accepted = SeedAccepted(lane, cs, replace), accepted # None
  PROVE  /\ accepted \in Seq(CandleRecords) /\ Len(accepted) <= Cardinality(cs)
         /\ \A i \in 1..Len(accepted) : accepted[i] \in cs
<1> DEFINE new == {c \in cs : c.start \notin StartsOf(lane.closed)}
<1>1. \A c, d \in cs : c # d => c.start # d.start
  BY DEF SeedAccepted
<1>2. Distinct(cs)
  BY <1>1 DEF Distinct
<1>3. new \in SUBSET cs
  OBVIOUS
<1>4. accepted = InOrder(cs) \/ accepted = InOrder(new)
  BY DEF SeedAccepted
<1> HIDE DEF new
<1>5. IsFiniteSet(new) /\ Cardinality(new) <= Cardinality(cs)
  BY <1>3, FS_Subset
<1>6. Distinct(new)
  BY <1>1, <1>3, <1>5 DEF Distinct
<1>7. Cardinality(cs) \in Nat
  BY FS_CardinalityType
<1>8. CASE accepted = InOrder(cs)
  BY <1>2, <1>7, <1>8, InOrderIs
<1>9. CASE accepted = InOrder(new)
  BY <1>3, <1>5, <1>6, <1>9, InOrderIs
<1> QED BY <1>4, <1>8, <1>9

(* The lane after the warm-up.                                              *)
WarmedLane(lane, w, accepted, replace) ==
  /\ w.raised \in BOOLEAN /\ w.accepted = accepted
  /\ w.lane \in LaneRecords
  /\ w.lane.closed = (IF replace THEN accepted ELSE lane.closed \o accepted)
  /\ w.lane.counted = IF w.raised THEN lane.counted ELSE Len(w.lane.closed)

HandedOver(w, accepted, start) ==
  w.raised = Warmed(start, accepted).raised /\ w.lane.analysed = Warmed(start, accepted).list

WarmStart(lane, again) ==
  [list |-> IF again THEN <<>> ELSE lane.analysed, vwap |-> vwap, source |-> source, raised |-> FALSE]

LEMMA WarmUpIs ==
  ASSUME NEW cs, IsFiniteSet(cs), cs \subseteq CandleRecords, NEW replace \in BOOLEAN,
         lanes[Primary] \in LaneRecords,
         NEW w, w = WarmUp(cs, replace),
         NEW accepted, accepted = SeedAccepted(lanes[Primary], cs, replace),
         NEW start, start = WarmStart(lanes[Primary], replace /\ accepted # <<>>)
  PROVE  /\ accepted = None => w.lane = lanes[Primary] /\ w.raised = TRUE /\ w.accepted = None
         /\ accepted # None =>
              /\ WarmedLane(lanes[Primary], w, accepted, replace)
              /\ HandedOver(w, accepted, start)
<1> DEFINE lane == lanes[Primary]
           history == IF replace THEN accepted ELSE lane.closed \o accepted
           warm == Warmed(start, accepted)
           counted == IF warm.raised THEN lane.counted ELSE Len(history)
<1>1. CASE accepted = None
  BY <1>1 DEF WarmUp
<1>2. CASE accepted # None
  <2>1. w = [lane |-> [lane EXCEPT !.closed = history, !.analysed = warm.list, !.counted = counted],
             vwap |-> warm.vwap, source |-> warm.source, raised |-> warm.raised,
             accepted |-> accepted]
    BY <1>2 DEF WarmUp, WarmStart
  <2>2. accepted \in Seq(CandleRecords)
    BY <1>2, AcceptedAre
  <2>3. lane.closed \in Seq(CandleRecords) /\ lane.analysed \in Seq(CandleRecords) /\ lane.counted \in Nat
    BY DEF LaneRecords
  <2>4. history \in Seq(CandleRecords)
    BY <2>2, <2>3, ConcatProperties
  <2>5. IsWarm(start)
    <3>1. <<>> \in Seq(CandleRecords)
      BY EmptySeq
    <3> QED BY <2>3, <3>1 DEF IsWarm, WarmStart
  <2>6. IsWarm(warm)
    <3> QED BY <2>2, <2>5, WarmedTyped
  <2>7. warm.list \in Seq(CandleRecords) /\ warm.raised \in BOOLEAN
    <3> HIDE DEF warm
    <3> QED BY <2>6 DEF IsWarm
  <2>8. counted \in Nat
    <3>1. Len(history) \in Nat
      <4> HIDE DEF history
      <4> QED BY <2>4
    <3> HIDE DEF history, warm
    <3> QED BY <2>3, <3>1
  <2> DEFINE after == [lane EXCEPT !.closed = history, !.analysed = warm.list, !.counted = counted]
  <2>9. /\ after \in LaneRecords /\ after.closed = history /\ after.analysed = warm.list
        /\ after.counted = counted
    <3> HIDE DEF history, warm, counted, lane
    <3>1. lane \in LaneRecords
      BY DEF lane
    <3> QED BY <2>4, <2>7, <2>8, <3>1 DEF LaneRecords
  <2>10. w.lane = after /\ w.raised = warm.raised /\ w.accepted = accepted
    <3> HIDE DEF history, warm, counted, lane
    <3> QED BY <2>1 DEF lane
  <2>11. WarmedLane(lane, w, accepted, replace)
    <3>1. w.lane.counted = IF w.raised THEN lane.counted ELSE Len(w.lane.closed)
      <4> HIDE DEF history, warm, lane, after
      <4> QED BY <2>9, <2>10
    <3>2. w.lane.closed = history
      <4> HIDE DEF history, warm, lane, after
      <4> QED BY <2>9, <2>10
    <3>3. w.raised \in BOOLEAN /\ w.lane \in LaneRecords
      <4> HIDE DEF history, warm, lane, after
      <4> QED BY <2>7, <2>9, <2>10
    <3> HIDE DEF warm, lane, after
    <3> QED BY <2>10, <3>1, <3>2, <3>3 DEF WarmedLane
  <2>12. w.raised = warm.raised /\ w.lane.analysed = warm.list
    <3> HIDE DEF history, warm, lane, after
    <3> QED BY <2>9, <2>10
  <2>13. HandedOver(w, accepted, start)
    BY <2>12 DEF HandedOver
  <2> HIDE DEF history, counted, after
  <2> QED BY <2>11, <2>13, <1>2
<1> QED BY <1>1, <1>2

LEMMA NothingHandedOver ==
  /\ ~Beginning(<<>>, Len(<<>>)).raised /\ Beginning(<<>>, Len(<<>>)).list = <<>>
<1> DEFINE empty == <<>>
           none == SubSeq(empty, 1, 0)
<1>1. Len(empty) = 0 /\ none \in Seq(CandleRecords) /\ Len(none) = 0
  <2>1. \A i \in 1..0 : empty[i] \in CandleRecords
    OBVIOUS
  <2>2. empty \in Seq(CandleRecords) /\ Len(empty) = 0
    BY EmptySeq
  <2> HIDE DEF empty
  <2> QED BY <2>1, <2>2, SubSeqProperties
<1> HIDE DEF none
<1>2. PICK g : IsWalk(g, <<>>, none, Len(none)) /\ Analysed(<<>>, none) = g[Len(none)]
  BY <1>1, WalkExists
<1>3. Analysed(<<>>, none) = [list |-> <<>>, raised |-> FALSE]
  BY <1>1, <1>2 DEF IsWalk
<1> QED BY <1>1, <1>3 DEF Beginning, none

LEMMA EmptyLaneFollows == EmptyLane \in LaneRecords /\ LaneFollows(EmptyLane)
<1> DEFINE empty == <<>>
<1>1. empty \in Seq(CandleRecords) /\ Len(empty) = 0
  BY EmptySeq
<1>2. StandsAt(empty, 0, empty, 0)
  BY <1>1, NothingHandedOver DEF StandsAt
<1>3. EmptyLane = [building |-> None, closed |-> empty, counted |-> 0, analysed |-> empty]
  BY DEF EmptyLane
<1> HIDE DEF empty
<1>4. EmptyLane \in LaneRecords
  BY <1>1, <1>3 DEF LaneRecords
<1>5. Follows(empty, 0, empty)
  <2>1. 0 \in 0..Len(empty)
    BY <1>1
  <2> QED BY <1>2, <2>1 DEF Follows
<1> QED BY <1>3, <1>4, <1>5 DEF LaneFollows

(* A lane that is not behind has handed over every candle.                  *)
LEMMA CaughtUp ==
  ASSUME NEW lane \in LaneRecords, LaneFollows(lane), ~(lane.counted < Len(lane.closed))
  PROVE  ~Beginning(lane.closed, Len(lane.closed)).raised
         /\ lane.analysed = Beginning(lane.closed, Len(lane.closed)).list
<1> DEFINE n == Len(lane.closed)
           c == lane.counted
<1>1. n \in Nat /\ c \in Nat /\ ~(c < n)
  BY DEF LaneRecords
<1>2. PICK k \in c..n : StandsAt(lane.closed, c, lane.analysed, k)
  BY DEF LaneFollows, Follows
<1>3. k = n
  BY <1>1, <1>2
<1> QED BY <1>2, <1>3 DEF StandsAt

LEMMA WarmUpFollows ==
  ASSUME NEW cs, IsFiniteSet(cs), cs \subseteq CandleRecords, NEW replace \in BOOLEAN,
         lanes[Primary] \in LaneRecords, LaneFollows(lanes[Primary]),
         ~(lanes[Primary].counted < Len(lanes[Primary].closed)),
         NEW w, w = WarmUp(cs, replace), ~w.raised, ~(w.accepted = <<>> /\ replace)
  PROVE  LaneFollows(w.lane)
<1> DEFINE lane == lanes[Primary]
           accepted == SeedAccepted(lane, cs, replace)
           start == WarmStart(lane, replace /\ accepted # <<>>)
           warm == Warmed(start, accepted)
<1>1. accepted # None
  BY WarmUpIs
<1>2. /\ WarmedLane(lane, w, accepted, replace)
      /\ w.raised = warm.raised /\ w.lane.analysed = warm.list
  <2>1. accepted = SeedAccepted(lanes[Primary], cs, replace)
        /\ start = WarmStart(lanes[Primary], replace /\ accepted # <<>>)
    OBVIOUS
  <2> HIDE DEF accepted, start
  <2>2. /\ WarmedLane(lanes[Primary], w, accepted, replace)
        /\ HandedOver(w, accepted, start)
    BY <1>1, <2>1, WarmUpIs
  <2> QED BY <2>2 DEF HandedOver
<1>3. accepted \in Seq(CandleRecords)
  BY <1>1, AcceptedAre
<1>4. /\ w.accepted = accepted /\ ~warm.raised
      /\ w.lane.closed = (IF replace THEN accepted ELSE lane.closed \o accepted)
      /\ w.lane.counted = Len(w.lane.closed) /\ w.lane.analysed = warm.list
  BY <1>2 DEF WarmedLane
<1>5. ~Beginning(lane.closed, Len(lane.closed)).raised
      /\ lane.analysed = Beginning(lane.closed, Len(lane.closed)).list
  BY CaughtUp
<1>6. lane.closed \in Seq(CandleRecords) /\ lane.analysed \in Seq(CandleRecords)
  BY DEF LaneRecords
<1>7. start.raised = FALSE /\ start.list = IF replace THEN <<>> ELSE lane.analysed
  BY <1>4 DEF WarmStart
<1>8. IsWarm(start)
  <2>1. <<>> \in Seq(CandleRecords)
    BY EmptySeq
  <2> QED BY <1>6, <2>1 DEF IsWarm, WarmStart
<1> HIDE DEF start, accepted
<1>9. CASE ~replace
  <2> DEFINE old == lane.closed
             all == old \o accepted
  <2>1. start.list = Beginning(old, Len(old)).list /\ ~Beginning(old, Len(old)).raised
    BY <1>5, <1>7, <1>9
  <2>2. old \in Seq(CandleRecords) /\ ~Warmed(start, accepted).raised
    BY <1>4, <1>6
  <2> HIDE DEF old
  <2>3. Follows(old \o accepted, Len(old \o accepted), Warmed(start, accepted).list)
    BY <1>3, <1>8, <2>1, <2>2, WarmedFollows
  <2>4. w.lane.closed = all
    BY <1>4, <1>9 DEF old
  <2> HIDE DEF all
  <2>5. Follows(all, Len(all), w.lane.analysed)
    BY <1>4, <2>3 DEF all
  <2> QED BY <1>4, <2>4, <2>5 DEF LaneFollows
<1>10. CASE replace
  <2> DEFINE old == <<>>
  <2>1. start.list = Beginning(old, Len(old)).list /\ ~Beginning(old, Len(old)).raised
    BY <1>7, <1>10, NothingHandedOver
  <2>2. old \in Seq(CandleRecords) /\ ~Warmed(start, accepted).raised /\ old \o accepted = accepted
    BY <1>3, <1>4, EmptySeq, ConcatEmptySeq
  <2> HIDE DEF old
  <2>3. Follows(old \o accepted, Len(old \o accepted), Warmed(start, accepted).list)
    BY <1>3, <1>8, <2>1, <2>2, WarmedFollows
  <2>4. Follows(accepted, Len(accepted), w.lane.analysed)
    BY <1>4, <2>2, <2>3
  <2> QED BY <1>4, <1>10, <2>4 DEF LaneFollows
<1> QED BY <1>9, <1>10

LEMMA ApplyKeeps ==
  ASSUME NEW cs, IsFiniteSet(cs), cs \subseteq CandleRecords, NEW replace \in BOOLEAN,
         LanesSound(lanes, disturbed), disturbed \in BOOLEAN,
         Apply(WarmUp(cs, replace), replace)
  PROVE  LanesSound(lanes', disturbed') /\ disturbed' \in BOOLEAN
<1> DEFINE w == WarmUp(cs, replace)
           accepted == SeedAccepted(lanes[Primary], cs, replace)
<1>1. lanes \in [Lanes -> LaneRecords] /\ Primary \in Lanes /\ lanes[Primary] \in LaneRecords
  BY LaneConstants DEF LanesSound
<1>2. /\ lanes' = [lanes EXCEPT ![Primary] = w.lane]
      /\ disturbed' = (\/ disturbed
                       \/ w.accepted # None /\ (w.raised \/ Behind)
                       \/ w.accepted = <<>> /\ replace)
  BY DEF Apply
<1>3. /\ accepted = None => w.lane = lanes[Primary] /\ w.raised = TRUE /\ w.accepted = None
      /\ accepted # None => WarmedLane(lanes[Primary], w, accepted, replace)
  BY <1>1, WarmUpIs
<1>4. w.lane \in LaneRecords
  <2> HIDE DEF w, accepted
  <2> QED BY <1>1, <1>3 DEF WarmedLane
<1>5. ASSUME ~disturbed', LaneFollows(lanes[Primary]) PROVE LaneFollows(w.lane)
  <2>1. CASE accepted = None
    BY <1>3, <1>5, <2>1
  <2>2. CASE accepted # None
    <3>1. w.accepted # None
      <4> HIDE DEF w, accepted
      <4> QED BY <1>3, <2>2 DEF WarmedLane
    <3>2. ~w.raised /\ ~Behind /\ ~(w.accepted = <<>> /\ replace)
      <4> HIDE DEF w
      <4> QED BY <1>2, <1>5, <3>1
    <3>3. ~(lanes[Primary].counted < Len(lanes[Primary].closed))
      BY <1>1, <3>2 DEF Behind
    <3> QED BY <1>1, <1>5, <3>2, <3>3, WarmUpFollows
  <2> QED BY <2>1, <2>2
<1>6. disturbed' \in BOOLEAN
  <2> HIDE DEF w
  <2> QED BY <1>2
<1>7. lanes' \in [Lanes -> LaneRecords]
  <2> HIDE DEF w
  <2> QED BY <1>1, <1>2, <1>4
<1>8. ASSUME ~disturbed', NEW tf \in Lanes PROVE LaneFollows(lanes'[tf])
  <2>1. ~disturbed
    <3> HIDE DEF w
    <3> QED BY <1>2, <1>8
  <2>2. \A t \in Lanes : LaneFollows(lanes[t])
    BY <2>1 DEF LanesSound
  <2>3. CASE tf = Primary
    <3>1. LaneFollows(w.lane)
      BY <1>1, <1>5, <1>8, <2>2
    <3> HIDE DEF w
    <3> QED BY <1>1, <1>2, <2>3, <3>1
  <2>4. CASE tf # Primary
    <3> HIDE DEF w
    <3> QED BY <1>1, <1>2, <2>2, <2>4
  <2> QED BY <2>3, <2>4
<1> QED BY <1>6, <1>7, <1>8 DEF LanesSound

-----------------------------------------------------------------------------
(* The pipeline.                                                            *)

PipeSound == now \in 0..MaxTime /\ LanesSound(lanes, disturbed) /\ disturbed \in BOOLEAN

LEMMA TickKeeps ==
  ASSUME PipeSound, NEW t \in Ticks, ProcessCandleTick(t)
  PROVE  PipeSound'
<1> DEFINE ticked == [tf \in Lanes |-> Ticked(lanes[tf], Width[tf], t)]
<1>1. lanes \in [Lanes -> LaneRecords] /\ \A tf \in Lanes : Width[tf] \in Nat \ {0}
  BY LaneConstants DEF PipeSound, LanesSound
<1>2. \A tf \in Lanes : /\ Ticked(lanes[tf], Width[tf], t) \in LaneRecords
                        /\ LaneFollows(lanes[tf]) => LaneFollows(Ticked(lanes[tf], Width[tf], t))
  BY <1>1, TickedKeeps
<1>3. LanesSound(ticked, disturbed)
  BY <1>2 DEF PipeSound, LanesSound
<1>4. lanes' = ticked \/ lanes' = PassedOn(ticked).lanes
  BY DEF ProcessCandleTick
<1> HIDE DEF ticked
<1>5. LanesSound(PassedOn(ticked).lanes, disturbed)
  BY <1>3, PassedOnKeeps
<1>6. now' = now /\ disturbed' = disturbed
  BY DEF ProcessCandleTick
<1> QED BY <1>3, <1>4, <1>5, <1>6 DEF PipeSound

LEMMA EmptyLanesSound == LanesSound([tf \in Lanes |-> EmptyLane], FALSE)
BY EmptyLaneFollows DEF LanesSound

LEMMA PipeKept ==
  ASSUME PipeSound, now' = now, lanes' = lanes, disturbed' = disturbed
  PROVE  PipeSound'
BY DEF PipeSound

LEMMA PipeStarts == PipeInit => PipeSound
<1> SUFFICES ASSUME PipeInit PROVE PipeSound
  OBVIOUS
<1>1. now = 0 /\ lanes = [tf \in Lanes |-> EmptyLane] /\ disturbed = FALSE
  BY DEF PipeInit
<1>2. 0 \in 0..MaxTime
  BY LaneConstants
<1> QED BY <1>1, <1>2, EmptyLanesSound DEF PipeSound

LEMMA PipeSteps == PipeSound /\ PipeNext => PipeSound'
<1> SUFFICES ASSUME PipeSound, PipeNext PROVE PipeSound'
  OBVIOUS
<1>1. CASE Pass
  <2>1. now < MaxTime /\ now' = now + 1 /\ lanes' = lanes /\ disturbed' = disturbed
    BY <1>1 DEF Pass
  <2>2. now' \in 0..MaxTime
    BY <2>1, LaneConstants DEF PipeSound
  <2> QED BY <2>1, <2>2 DEF PipeSound
<1>2. ASSUME NEW t \in Ticks, ProcessCandleTick(t) PROVE PipeSound'
  BY <1>2, TickKeeps
<1>3. ASSUME NEW t \in Ticks, ProcessVwapTick(t) PROVE PipeSound'
  BY <1>3, PipeKept DEF ProcessVwapTick
<1>4. CASE MarkVwapUnavailable
  BY <1>4, PipeKept DEF MarkVwapUnavailable
<1>5. ASSUME NEW d \in Days, NEW shape \in {"flat", "ranged"}, ProcessDailyOHLC(d, shape) PROVE PipeSound'
  BY <1>5, PipeKept DEF ProcessDailyOHLC
<1>6. ASSUME NEW cs \in SUBSET {c \in HistoricalCandles : c.start <= now}, NEW replace \in BOOLEAN,
             WarmUpCandles(cs, replace)
      PROVE  PipeSound'
  <2>1. cs \subseteq HistoricalCandles
    OBVIOUS
  <2>2. cs \subseteq CandleRecords /\ IsFiniteSet(cs)
    BY <2>1, HistoryTaken
  <2>3. Apply(WarmUp(cs, replace), replace) /\ now' = now
    BY <1>6 DEF WarmUpCandles
  <2>4. LanesSound(lanes', disturbed') /\ disturbed' \in BOOLEAN
    BY <2>2, <2>3, ApplyKeeps DEF PipeSound
  <2> QED BY <2>3, <2>4 DEF PipeSound
<1>7. CASE ResetPipeline
  <2>1. now' = now /\ lanes' = [tf \in Lanes |-> EmptyLane] /\ disturbed' = FALSE
    BY <1>7 DEF ResetPipeline
  <2> QED BY <2>1, EmptyLanesSound DEF PipeSound
<1>8. CASE StartStopPipeline
  BY <1>8, PipeKept DEF StartStopPipeline
<1> QED BY <1>1, <1>2, <1>3, <1>4, <1>5, <1>6, <1>7, <1>8 DEF PipeNext

(* What a warm-up adds to the history.                                      *)
LEMMA ApplyAdds ==
  ASSUME PipeSound, NEW cs, cs \subseteq HistoricalCandles,
         NEW w, w = WarmUp(cs, FALSE), Apply(w, FALSE)
  PROVE  /\ \A i \in Len(lanes[Primary].closed) + 1..Len(lanes'[Primary].closed) :
               lanes'[Primary].closed[i] \in cs
         /\ ~w.raised => /\ Len(w.accepted) \in Nat /\ Len(w.accepted) <= Cardinality(cs)
                         /\ Growth = Len(w.accepted)
<1> DEFINE lane == lanes[Primary]
           old == lane.closed
           accepted == SeedAccepted(lane, cs, FALSE)
           start == WarmStart(lane, FALSE /\ accepted # <<>>)
<1>1. lanes \in [Lanes -> LaneRecords] /\ Primary \in Lanes /\ lane \in LaneRecords
  BY LaneConstants DEF PipeSound, LanesSound
<1>2. cs \subseteq CandleRecords /\ IsFiniteSet(cs) /\ Cardinality(cs) \in Nat
  BY HistoryTaken
<1>3. old \in Seq(CandleRecords) /\ Len(old) \in Nat
  BY <1>1 DEF LaneRecords
<1>4. lanes'[Primary] = w.lane
  BY <1>1 DEF Apply
<1>5. /\ accepted = None => w.lane = lane /\ w.raised = TRUE
      /\ accepted # None => WarmedLane(lane, w, accepted, FALSE)
  <2>1. accepted = SeedAccepted(lanes[Primary], cs, FALSE) /\ FALSE \in BOOLEAN
        /\ start = WarmStart(lanes[Primary], FALSE /\ accepted # <<>>)
    OBVIOUS
  <2> HIDE DEF accepted, start
  <2> QED BY <1>1, <1>2, <2>1, WarmUpIs
<1>6. accepted # None => /\ accepted \in Seq(CandleRecords) /\ Len(accepted) <= Cardinality(cs)
                         /\ Len(accepted) \in Nat
                         /\ \A i \in 1..Len(accepted) : accepted[i] \in cs
  <2>1. accepted = SeedAccepted(lane, cs, FALSE)
    OBVIOUS
  <2> HIDE DEF accepted, start
  <2>2. accepted # None => /\ accepted \in Seq(CandleRecords) /\ Len(accepted) <= Cardinality(cs)
                           /\ \A i \in 1..Len(accepted) : accepted[i] \in cs
    BY <1>2, <2>1, AcceptedAre
  <2> QED BY <2>2
<1> HIDE DEF accepted, start
<1>7. CASE accepted = None
  <2>1. lanes'[Primary].closed = old /\ w.raised
    BY <1>4, <1>5, <1>7
  <2>2. Len(old) + 1..Len(old) = {}
    BY <1>3
  <2> QED BY <2>1, <2>2
<1>8. CASE accepted # None
  <2> DEFINE all == old \o accepted
  <2>1. lanes'[Primary].closed = all /\ w.accepted = accepted
    BY <1>4, <1>5, <1>8 DEF WarmedLane
  <2>2. /\ Len(all) = Len(old) + Len(accepted)
        /\ \A i \in 1..Len(old) + Len(accepted) :
             all[i] = IF i <= Len(old) THEN old[i] ELSE accepted[i - Len(old)]
    BY <1>3, <1>6, <1>8, ConcatProperties
  <2> HIDE DEF all
  <2>3. ASSUME NEW i \in Len(old) + 1..Len(all) PROVE all[i] \in cs
    <3>1. i \in 1..Len(old) + Len(accepted) /\ ~(i <= Len(old)) /\ i - Len(old) \in 1..Len(accepted)
      BY <1>3, <1>6, <1>8, <2>2
    <3> QED BY <1>6, <1>8, <2>2, <3>1
  <2>4. Growth = Len(accepted)
    <3>1. Growth = Len(all) - Len(old)
      BY <2>1 DEF Growth
    <3> QED BY <1>3, <1>6, <1>8, <2>2, <3>1
  <2> QED BY <1>6, <1>8, <2>1, <2>3, <2>4
<1> QED BY <1>7, <1>8

-----------------------------------------------------------------------------
(* The books.                                                               *)

CoordinatorSound(w, e) ==
  /\ w = [status |-> w.status, operation |-> w.operation, results |-> w.results,
          operations |-> w.operations, successes |-> w.successes, failures |-> w.failures,
          fetched |-> w.fetched, seeded |-> w.seeded]
  /\ w.operations \in Nat /\ w.successes \in Nat /\ w.failures \in Nat
  /\ w.fetched \in Nat /\ w.seeded \in Nat
  /\ w.operations = w.successes + w.failures
  /\ w.seeded = e /\ w.seeded <= w.fetched
  /\ w.status = "READY" => \E i \in DOMAIN w.results : w.results[i].accepted > 0

ManagerSound(m) ==
  /\ m = [status |-> m.status, fetches |-> m.fetches, failures |-> m.failures,
          records |-> m.records, normalized |-> m.normalized]
  /\ m.fetches \in Nat /\ m.failures \in Nat /\ m.records \in Nat /\ m.normalized \in Nat
  /\ m.normalized <= m.records

(* A result, and the sums over the others', that fit the books.             *)
Fits(own, others) ==
  /\ own.accepted \in Nat /\ own.fetched \in Nat /\ own.accepted <= own.fetched
  /\ \A i \in DOMAIN others : others[i].accepted \in Nat
  /\ Accepted(others) \in Nat /\ FetchedBy(others) \in Nat /\ Accepted(others) <= FetchedBy(others)

LEMMA FinishedSound ==
  ASSUME NEW w, NEW e, CoordinatorSound(w, e), NEW operation, NEW own, NEW others, Fits(own, others)
  PROVE  /\ CoordinatorSound(Finished(w, operation, own, others), e + own.accepted + Accepted(others))
         /\ Finished(w, operation, own, others).operation = operation
<1> DEFINE results == [i \in {Own} \cup DOMAIN others |-> IF i = Own THEN own ELSE others[i]]
           s == StatusOf(results)
           new == Finished(w, operation, own, others)
           x == Accepted(others)
           y == FetchedBy(others)
<1>1. /\ own.accepted \in Nat /\ own.fetched \in Nat /\ own.accepted <= own.fetched
      /\ x \in Nat /\ y \in Nat /\ x <= y
      /\ w.operations \in Nat /\ w.successes \in Nat /\ w.failures \in Nat
      /\ w.fetched \in Nat /\ w.seeded \in Nat
      /\ w.operations = w.successes + w.failures
      /\ w.seeded = e /\ w.seeded <= w.fetched
  BY DEF Fits, CoordinatorSound
<1>2. /\ new = [status |-> s, operation |-> operation, results |-> results,
               operations |-> w.operations + 1,
               successes |-> w.successes + (IF s = "ERROR" THEN 0 ELSE 1),
               failures |-> w.failures + (IF s = "ERROR" THEN 1 ELSE 0),
               fetched |-> w.fetched + own.fetched + y,
               seeded |-> w.seeded + own.accepted + x]
  BY DEF Finished
<1>3. s = "READY" => \E i \in DOMAIN results : results[i].accepted > 0
  <2>1. \A i \in DOMAIN results : results[i].accepted \in Nat
    BY <1>1 DEF Fits
  <2> HIDE DEF results
  <2>2. s = "READY" => ~(\A i \in DOMAIN results : results[i].accepted = 0)
    BY DEF StatusOf
  <2>3. \A n \in Nat : n # 0 => n > 0
    OBVIOUS
  <2> QED BY <2>1, <2>2, <2>3
<1> HIDE DEF results, s, new, x, y
<1>4. /\ new.status = s /\ new.results = results /\ new.operation = operation
      /\ new.operations = w.operations + 1
      /\ new.successes = w.successes + (IF s = "ERROR" THEN 0 ELSE 1)
      /\ new.failures = w.failures + (IF s = "ERROR" THEN 1 ELSE 0)
      /\ new.fetched = w.fetched + own.fetched + y
      /\ new.seeded = w.seeded + own.accepted + x
      /\ new = [status |-> new.status, operation |-> new.operation, results |-> new.results,
                operations |-> new.operations, successes |-> new.successes, failures |-> new.failures,
                fetched |-> new.fetched, seeded |-> new.seeded]
  BY <1>2
<1>5. /\ new.operations \in Nat /\ new.successes \in Nat /\ new.failures \in Nat
      /\ new.fetched \in Nat /\ new.seeded \in Nat
      /\ new.operations = new.successes + new.failures
      /\ new.seeded = e + own.accepted + x /\ new.seeded <= new.fetched
  BY <1>1, <1>4
<1>6. CoordinatorSound(new, e + own.accepted + x)
  BY <1>3, <1>4, <1>5 DEF CoordinatorSound
<1> QED BY <1>4, <1>6 DEF new, x

LEMMA RefusedSound ==
  ASSUME NEW w, NEW e, CoordinatorSound(w, e), NEW operation
  PROVE  CoordinatorSound(Refused(w, operation), e)
<1> DEFINE new == Refused(w, operation)
<1>1. new = [status |-> "ERROR", operation |-> operation, results |-> <<>>,
             operations |-> w.operations + 1, successes |-> w.successes,
             failures |-> w.failures + 1, fetched |-> w.fetched, seeded |-> w.seeded]
  <2>1. w = [status |-> w.status, operation |-> w.operation, results |-> w.results,
             operations |-> w.operations, successes |-> w.successes, failures |-> w.failures,
             fetched |-> w.fetched, seeded |-> w.seeded]
    BY DEF CoordinatorSound
  <2>2. new = [w EXCEPT !.status = "ERROR", !.operation = operation, !.results = <<>>,
                        !.operations = w.operations + 1, !.failures = w.failures + 1]
    BY DEF Refused
  <2> HIDE DEF new
  <2> QED BY <2>1, <2>2
<1> HIDE DEF new
<1>2. new.operations \in Nat /\ new.failures \in Nat /\ new.operations = new.successes + new.failures
  BY <1>1 DEF CoordinatorSound
<1> QED BY <1>1, <1>2 DEF CoordinatorSound, new

LEMMA ManagedSound ==
  ASSUME NEW m, ManagerSound(m), NEW from, NEW to, NEW a \in Answers(from, to)
  PROVE  ManagerSound(Managed(m, a))
<1> DEFINE n == Cardinality(a.candles)
           r == Records(a)
           new == Managed(m, a)
<1>1. n \in Nat /\ r \in Nat /\ n <= r
  BY AnswersAre, HistoryTaken DEF Records
<1>2. m.fetches \in Nat /\ m.failures \in Nat /\ m.records \in Nat /\ m.normalized \in Nat
      /\ m.normalized <= m.records
  BY DEF ManagerSound
<1>3. \/ new = [status |-> "ERROR", fetches |-> m.fetches + 1, failures |-> m.failures + 1,
                records |-> m.records, normalized |-> m.normalized]
      \/ \E s : new = [status |-> s, fetches |-> m.fetches + 1, failures |-> m.failures,
                       records |-> m.records + r, normalized |-> m.normalized + n]
  BY DEF Managed, ManagerSound
<1> HIDE DEF n, r, new
<1>4. ManagerSound(new)
  <2>1. CASE new = [status |-> "ERROR", fetches |-> m.fetches + 1, failures |-> m.failures + 1,
                    records |-> m.records, normalized |-> m.normalized]
    BY <1>2, <2>1 DEF ManagerSound
  <2>2. ASSUME NEW s, new = [status |-> s, fetches |-> m.fetches + 1, failures |-> m.failures,
                             records |-> m.records + r, normalized |-> m.normalized + n]
        PROVE  ManagerSound(new)
    <3>1. m.fetches + 1 \in Nat /\ m.records + r \in Nat /\ m.normalized + n \in Nat
          /\ m.normalized + n <= m.records + r
      BY <1>1, <1>2
    <3> QED BY <1>2, <2>2, <3>1 DEF ManagerSound
  <2> QED BY <1>3, <2>1, <2>2
<1> QED BY <1>4 DEF new

(* The inductive invariant.                                                 *)
WarmupIInv == PipeSound /\ ManagerSound(manager) /\ CoordinatorSound(warmup, entered)

ClosedOnly ==
  (warmup'.operation = "BACKFILL" /\ warmup'.operations > warmup.operations) =>
        \A i \in Len(lanes[Primary].closed) + 1 .. Len(lanes'[Primary].closed) :
            lanes'[Primary].closed[i].end <= now

LEMMA NothingAdded ==
  ASSUME PipeSound, lanes' = lanes
  PROVE  ClosedOnly
<1>1. lanes[Primary].closed \in Seq(CandleRecords)
  BY LaneConstants DEF PipeSound, LanesSound, LaneRecords
<1>2. Len(lanes[Primary].closed) + 1..Len(lanes[Primary].closed) = {}
  BY <1>1
<1> QED BY <1>2 DEF ClosedOnly

LEMMA WarmUpSteps ==
  ASSUME WarmupIInv, NEW from, NEW to, NEW previous \in BOOLEAN, WarmUpAll(from, to, previous)
  PROVE  WarmupIInv' /\ ClosedOnly
<1>1. CASE /\ status = "RUNNING" /\ from < to
           /\ \E a \in Answers(from, to), others \in OtherResults :
                \E p \in IF previous THEN Answers(from - DayLength, from) ELSE {None} :
                    WarmOwn(p, a, others)
           /\ UNCHANGED <<now, status, feed>>
  <2>1. PICK a \in Answers(from, to), others \in OtherResults :
                \E p \in IF previous THEN Answers(from - DayLength, from) ELSE {None} :
                    WarmOwn(p, a, others)
    BY <1>1
  <2>2. PICK p \in IF previous THEN Answers(from - DayLength, from) ELSE {None} : WarmOwn(p, a, others)
    BY <2>1
  <2> DEFINE asked == p # None
             early == IF asked THEN PreviousDayRaises(p) ELSE FALSE
             seeding == ~early /\ Seeds(a)
             w == WarmUp(a.candles, FALSE)
             own == IF seeding /\ ~w.raised THEN ResultOf(a.candles, w) ELSE FailedResult
             first == IF asked THEN Managed(manager, p) ELSE manager
  <2>3. /\ manager' = IF early THEN first ELSE Managed(first, a)
        /\ IF seeding THEN Apply(w, FALSE) ELSE KeepPipeline
        /\ warmup' = Finished(warmup, "WARMUP", own, others)
        /\ entered' = entered + Accepted(others) + (IF own.completed THEN Growth ELSE 0)
    BY <2>2 DEF WarmOwn
  <2>4. a.candles \subseteq HistoricalCandles
    BY AnswersAre
  <2>5. a.candles \subseteq CandleRecords /\ IsFiniteSet(a.candles) /\ Cardinality(a.candles) \in Nat
    BY <2>4, HistoryTaken
  <2>6. ManagerSound(manager')
    <3>1. ManagerSound(first)
      <4>1. asked => p \in Answers(from - DayLength, from)
        BY <2>2
      <4> QED BY <4>1, ManagedSound DEF WarmupIInv
    <3> HIDE DEF first, early
    <3>2. ManagerSound(Managed(first, a))
      BY <3>1, ManagedSound
    <3> QED BY <2>3, <3>1, <3>2
  <2>7. now' = now
    BY <1>1
  <2> HIDE DEF first, early
  <2>8. PipeSound'
    <3>1. CASE seeding
      <4>1. Apply(WarmUp(a.candles, FALSE), FALSE)
        BY <2>3, <3>1
      <4>2. LanesSound(lanes', disturbed') /\ disturbed' \in BOOLEAN
        BY <2>5, <4>1, ApplyKeeps DEF PipeSound, WarmupIInv
      <4> QED BY <2>7, <4>2 DEF PipeSound, WarmupIInv
    <3>2. CASE ~seeding
      BY <2>3, <2>7, <3>2, PipeKept DEF KeepPipeline, WarmupIInv
    <3> QED BY <3>1, <3>2
  <2>9. Fits(own, others) /\ entered' = entered + own.accepted + Accepted(others)
    <3>1. /\ \A i \in DOMAIN others : others[i].accepted \in Nat
          /\ Accepted(others) \in Nat /\ FetchedBy(others) \in Nat /\ Accepted(others) <= FetchedBy(others)
      BY OthersAddUp
    <3>2. entered \in Nat
      BY DEF WarmupIInv, CoordinatorSound
    <3>3. CASE seeding /\ ~w.raised
      <4>1. own.accepted = Len(w.accepted) /\ own.fetched = Cardinality(a.candles) /\ own.completed
        BY <3>3 DEF ResultOf, Result
      <4>2. Len(w.accepted) \in Nat /\ Len(w.accepted) <= Cardinality(a.candles) /\ Growth = Len(w.accepted)
        BY <2>3, <2>4, <3>3, ApplyAdds DEF WarmupIInv
      <4> HIDE DEF own, w
      <4>3. entered' = entered + Accepted(others) + Growth
        BY <2>3, <4>1
      <4> QED BY <2>5, <3>1, <3>2, <4>1, <4>2, <4>3 DEF Fits
    <3>4. CASE ~(seeding /\ ~w.raised)
      <4>1. own.accepted = 0 /\ own.fetched = 0 /\ ~own.completed
        BY <3>4 DEF FailedResult, Result
      <4> HIDE DEF own, w
      <4>2. entered' = entered + Accepted(others)
        BY <2>3, <3>1, <3>2, <4>1
      <4> QED BY <3>1, <3>2, <4>1, <4>2 DEF Fits
    <3> QED BY <3>3, <3>4
  <2> HIDE DEF own, seeding, w
  <2>10. CoordinatorSound(warmup', entered') /\ warmup'.operation = "WARMUP"
    <3>1. CoordinatorSound(warmup, entered)
      BY DEF WarmupIInv
    <3>2. /\ CoordinatorSound(Finished(warmup, "WARMUP", own, others), entered + own.accepted + Accepted(others))
          /\ Finished(warmup, "WARMUP", own, others).operation = "WARMUP"
      BY <2>9, <3>1, FinishedSound
    <3> QED BY <2>3, <2>9, <3>2
  <2> QED BY <2>6, <2>8, <2>10 DEF WarmupIInv, ClosedOnly
<1>2. CASE /\ status # "RUNNING" \/ from >= to
           /\ warmup' = Refused(warmup, "WARMUP")
           /\ UNCHANGED <<manager, entered>> /\ UNCHANGED pipeVars
  <2>1. CoordinatorSound(warmup', entered')
    BY <1>2, RefusedSound DEF WarmupIInv
  <2>2. now' = now /\ lanes' = lanes /\ disturbed' = disturbed /\ manager' = manager
    BY <1>2 DEF pipeVars
  <2> QED BY <2>1, <2>2, PipeKept, NothingAdded DEF WarmupIInv
<1> QED BY <1>1, <1>2 DEF WarmUpAll

LEMMA BackfillSteps ==
  ASSUME WarmupIInv, NEW to \in 0..now, Backfill(to)
  PROVE  WarmupIInv' /\ ClosedOnly
<1> DEFINE from == Last(lanes[Primary].closed).end
<1>0. PipeSound /\ ManagerSound(manager) /\ CoordinatorSound(warmup, entered) /\ now \in Nat
  BY LaneConstants DEF WarmupIInv, PipeSound
<1>1. CASE /\ warmup' = Refused(warmup, "BACKFILL")
           /\ UNCHANGED <<manager, entered>> /\ UNCHANGED pipeVars
  <2>1. CoordinatorSound(warmup', entered')
    BY <1>0, <1>1, RefusedSound
  <2>2. now' = now /\ lanes' = lanes /\ disturbed' = disturbed /\ manager' = manager
    BY <1>1 DEF pipeVars
  <2> QED BY <1>0, <2>1, <2>2, PipeKept, NothingAdded DEF WarmupIInv
<1>2. CASE /\ warmup' = Finished(warmup, "BACKFILL", Result(TRUE, 0, 0, 0), <<>>)
           /\ UNCHANGED <<manager, entered>> /\ UNCHANGED pipeVars
  <2> DEFINE own == Result(TRUE, 0, 0, 0)
             none == <<>>
  <2>1. Fits(own, none) /\ own.accepted = 0 /\ Accepted(none) = 0
    BY NothingAddsUp DEF Fits, Result
  <2>2. entered' = entered /\ entered \in Nat /\ warmup' = Finished(warmup, "BACKFILL", own, none)
    BY <1>0, <1>2 DEF CoordinatorSound
  <2> HIDE DEF own, none
  <2>3. CoordinatorSound(warmup', entered + own.accepted + Accepted(none))
    BY <1>0, <2>1, <2>2, FinishedSound
  <2>4. entered + own.accepted + Accepted(none) = entered'
    BY <2>1, <2>2
  <2>5. now' = now /\ lanes' = lanes /\ disturbed' = disturbed /\ manager' = manager
    BY <1>2 DEF pipeVars
  <2> QED BY <1>0, <2>3, <2>4, <2>5, PipeKept, NothingAdded DEF WarmupIInv
<1>3. CASE \E a \in Answers(from, to) : BackfillWith(a, to) /\ now' = now
  <2>1. PICK a \in Answers(from, to) : BackfillWith(a, to) /\ now' = now
    BY <1>3
  <2> DEFINE new == Eligible(a.candles, to)
             w == WarmUp(new, FALSE)
             result == [ResultOf(new, w) EXCEPT !.fetched = Cardinality(a.candles)]
  <2>2. /\ manager' = Managed(manager, a)
        /\ IF Fetched(a) = None
           THEN KeepPipeline /\ warmup' = Refused(warmup, "BACKFILL") /\ entered' = entered
           ELSE /\ Apply(w, FALSE)
                /\ IF w.raised
                   THEN warmup' = Refused(warmup, "BACKFILL") /\ entered' = entered
                   ELSE /\ warmup' = Finished(warmup, "BACKFILL", result, <<>>)
                        /\ entered' = entered + Growth
    BY <2>1 DEF BackfillWith
  <2>3. ManagerSound(manager')
    BY <1>0, <2>2, ManagedSound
  <2>4. a.candles \subseteq HistoricalCandles /\ new \in SUBSET a.candles /\ \A c \in new : c.end <= to
    BY AnswersAre DEF Eligible
  <2>5. CoordinatorSound(Refused(warmup, "BACKFILL"), entered)
    BY <1>0, RefusedSound
  <2>6. CASE Fetched(a) = None
    <3>1. lanes' = lanes /\ disturbed' = disturbed /\ CoordinatorSound(warmup', entered')
      BY <2>2, <2>5, <2>6 DEF KeepPipeline
    <3> QED BY <1>0, <2>1, <2>3, <3>1, PipeKept, NothingAdded DEF WarmupIInv
  <2>7. CASE Fetched(a) # None
    <3>1. new \subseteq HistoricalCandles /\ new \subseteq CandleRecords /\ IsFiniteSet(new)
      BY <2>4, HistoryTaken
    <3>2. Cardinality(new) \in Nat /\ Cardinality(a.candles) \in Nat /\ Cardinality(new) <= Cardinality(a.candles)
      BY <2>4, HistoryTaken, FS_Subset
    <3>3. Apply(w, FALSE)
      BY <2>2, <2>7
    <3> HIDE DEF new
    <3>4. LanesSound(lanes', disturbed') /\ disturbed' \in BOOLEAN
      BY <1>0, <3>1, <3>3, ApplyKeeps DEF PipeSound
    <3>5. PipeSound'
      BY <1>0, <2>1, <3>4 DEF PipeSound
    <3>6. \A i \in Len(lanes[Primary].closed) + 1..Len(lanes'[Primary].closed) :
             lanes'[Primary].closed[i] \in new
      BY <1>0, <3>1, <3>3, ApplyAdds
    <3>7. ClosedOnly
      <4>1. \A c \in new : c.end <= now
        <5>1. \A c \in new : c.end <= to /\ c.end \in Int
          BY <2>4, <3>1 DEF CandleRecords
        <5> QED BY <1>0, <5>1
      <4> QED BY <3>6, <4>1 DEF ClosedOnly
    <3>8. CASE w.raised
      <4>1. CoordinatorSound(warmup', entered')
        BY <2>2, <2>5, <2>7, <3>8
      <4> QED BY <2>3, <3>5, <3>7, <4>1 DEF WarmupIInv
    <3>9. CASE ~w.raised
      <4> DEFINE none == <<>>
      <4>1. warmup' = Finished(warmup, "BACKFILL", result, none) /\ entered' = entered + Growth
        BY <2>2, <2>7, <3>9
      <4>2. Len(w.accepted) \in Nat /\ Len(w.accepted) <= Cardinality(new) /\ Growth = Len(w.accepted)
        BY <1>0, <3>1, <3>3, <3>9, ApplyAdds
      <4> HIDE DEF w
      <4>3. result.accepted = Len(w.accepted) /\ result.fetched = Cardinality(a.candles)
        BY DEF ResultOf, Result
      <4>4. Fits(result, none) /\ Accepted(none) = 0
        BY <3>2, <4>2, <4>3, NothingAddsUp DEF Fits
      <4> HIDE DEF result, none
      <4>5. CoordinatorSound(warmup', entered + result.accepted + Accepted(none))
        BY <1>0, <4>1, <4>4, FinishedSound
      <4>6. entered + result.accepted + Accepted(none) = entered'
        <5>1. entered \in Nat
          BY <1>0 DEF CoordinatorSound
        <5> QED BY <4>1, <4>2, <4>3, <4>4, <5>1
      <4> QED BY <2>3, <3>5, <3>7, <4>5, <4>6 DEF WarmupIInv
    <3> QED BY <3>8, <3>9
  <2> QED BY <2>6, <2>7
<1> QED BY <1>1, <1>2, <1>3 DEF Backfill

LEMMA ClearSteps ==
  ASSUME WarmupIInv, ClearWarmup
  PROVE  WarmupIInv' /\ ClosedOnly
<1>1. now' = now /\ lanes' = lanes /\ disturbed' = disturbed
  BY DEF ClearWarmup, pipeVars
<1>2. ManagerSound(manager')
  BY DEF ClearWarmup, NewManager, ManagerSound
<1>3. CoordinatorSound(warmup', entered')
  BY DEF ClearWarmup, NewCoordinator, CoordinatorSound
<1> QED BY <1>1, <1>2, <1>3, PipeKept, NothingAdded DEF WarmupIInv

LEMMA WarmupStarts == WarmupInit => WarmupIInv
<1> SUFFICES ASSUME WarmupInit PROVE WarmupIInv
  OBVIOUS
<1>1. ManagerSound(manager)
  BY DEF WarmupInit, NewManager, ManagerSound
<1>2. CoordinatorSound(warmup, entered)
  BY DEF WarmupInit, NewCoordinator, CoordinatorSound
<1> QED BY <1>1, <1>2, PipeStarts DEF WarmupInit, WarmupIInv

LEMMA WarmupSteps ==
  WarmupIInv /\ [WarmupNext]_<<pipeVars, warmupVars>> => WarmupIInv' /\ [ClosedOnly]_<<pipeVars, warmupVars>>
<1> SUFFICES ASSUME WarmupIInv, [WarmupNext]_<<pipeVars, warmupVars>>
             PROVE  WarmupIInv' /\ [ClosedOnly]_<<pipeVars, warmupVars>>
  OBVIOUS
<1>1. ASSUME NEW from \in 0..MaxTime, NEW to \in 0..MaxTime, NEW previous \in BOOLEAN, WarmUpAll(from, to, previous)
      PROVE  WarmupIInv' /\ ClosedOnly
  BY <1>1, WarmUpSteps
<1>2. ASSUME NEW to \in 0..now, Backfill(to) PROVE WarmupIInv' /\ ClosedOnly
  BY <1>2, BackfillSteps
<1>3. CASE ClearWarmup
  BY <1>3, ClearSteps
<1>4. CASE PipeNext /\ UNCHANGED warmupVars
  <2>1. PipeSound'
    BY <1>4, PipeSteps DEF WarmupIInv
  <2>2. manager' = manager /\ warmup' = warmup /\ entered' = entered
    BY <1>4 DEF warmupVars
  <2>3. ClosedOnly
    <3>1. warmup.operations \in Nat
      BY DEF WarmupIInv, CoordinatorSound
    <3> QED BY <2>2, <3>1 DEF ClosedOnly
  <2> QED BY <2>1, <2>2, <2>3 DEF WarmupIInv
<1>5. CASE UNCHANGED <<pipeVars, warmupVars>>
  <2>1. now' = now /\ lanes' = lanes /\ disturbed' = disturbed
    BY <1>5 DEF pipeVars
  <2>2. manager' = manager /\ warmup' = warmup /\ entered' = entered
    BY <1>5 DEF warmupVars
  <2>3. PipeSound'
    BY <2>1, PipeKept DEF WarmupIInv
  <2> QED BY <1>5, <2>2, <2>3 DEF WarmupIInv
<1> QED BY <1>1, <1>2, <1>3, <1>4, <1>5 DEF WarmupNext

LEMMA FollowedIsFollowed ==
  ASSUME PipeSound
  PROVE  AnalysisFollowsHistory
BY DEF PipeSound, LanesSound, LaneFollows, Follows, StandsAt, Beginning, AnalysisFollowsHistory

(* However live ticks, refused ticks, warm-ups, backfills and resets are    *)
(* interleaved: the analysis of every timeframe has been given exactly the  *)
(* candles that closed, the coordinator's and the manager's books add up,   *)
(* and no backfill seeds a candle that is not over (symbol_runtime.py,      *)
(* historical_warmup/coordinator.py, historical/manager.py).                *)
THEOREM HistoryStaysSound == WarmupSpec => HistoryIsSound
<1>1. WarmupIInv => AnalysisFollowsHistory /\ WarmupBooks
  BY FollowedIsFollowed DEF WarmupIInv, ManagerSound, CoordinatorSound, WarmupBooks
<1>2. ASSUME [ClosedOnly]_<<pipeVars, warmupVars>>
      PROVE  [(warmup'.operation = "BACKFILL" /\ warmup'.operations > warmup.operations) =>
               \A i \in Len(lanes[Primary].closed) + 1 .. Len(lanes'[Primary].closed) :
                 lanes'[Primary].closed[i].end <= now]_<<pipeVars, warmupVars>>
  BY <1>2 DEF ClosedOnly
<1> QED BY <1>1, <1>2, WarmupStarts, WarmupSteps, PTL DEF WarmupSpec, HistoryIsSound, BackfillAddsClosedOnly

-----------------------------------------------------------------------------
(* Price action: candle after candle.                                       *)

(* f holds the engine after each of the first n candles of cs.              *)
IsReplay(f, start, cs, n) == f[0] = start /\ \A k \in 1..n : f[k] = Accept(f[k - 1], cs[k])

LEMMA ReplayedWalk ==
  ASSUME NEW start, NEW cs, Len(cs) \in Nat
  PROVE  \E f : IsReplay(f, start, cs, Len(cs)) /\ Replayed(start, cs) = f[Len(cs)]
<1> DEFINE Step(g, k) == IF k = 0 THEN start ELSE Accept(g[k - 1], cs[k])
           n == Len(cs)
           S == {i \in Nat : \E g : g = [k \in 0..i |-> Step(g, k)]}
           f == CHOOSE g : g = [k \in 0..n |-> Step(g, k)]
<1>1. n \in Nat
  OBVIOUS
<1>2. 0 \in S
  <2> DEFINE h == [k \in 0..0 |-> start]
  <2>1. h = [k \in 0..0 |-> Step(h, k)]
    OBVIOUS
  <2> HIDE DEF Step, h
  <2> QED BY <2>1
<1>3. ASSUME NEW i \in Nat, i \in S PROVE i + 1 \in S
  <2>1. PICK g : g = [k \in 0..i |-> Step(g, k)]
    BY <1>3
  <2> DEFINE next == Accept(g[i], cs[i + 1])
             h == [k \in 0..i + 1 |-> IF k = i + 1 THEN next ELSE g[k]]
  <2>2. ASSUME NEW k \in 0..i + 1 PROVE h[k] = Step(h, k)
    <3>1. CASE k = i + 1
      <4>1. h[k] = next /\ h[k - 1] = g[i] /\ k # 0
        BY <3>1
      <4> QED BY <4>1, <3>1
    <3>2. CASE k # i + 1
      <4>1. k \in 0..i /\ h[k] = g[k]
        BY <3>2
      <4>2. g[k] = Step(g, k)
        <5> HIDE DEF Step
        <5> QED BY <4>1, <2>1
      <4>3. k # 0 => k - 1 \in 0..i + 1 /\ k - 1 # i + 1 /\ h[k - 1] = g[k - 1]
        BY <3>2
      <4> QED BY <4>1, <4>2, <4>3
    <3> QED BY <3>1, <3>2
  <2>3. h = [k \in 0..i + 1 |-> Step(h, k)]
    <3>1. h = [k \in 0..i + 1 |-> h[k]]
      OBVIOUS
    <3> HIDE DEF h, Step
    <3> QED BY <3>1, <2>2
  <2> HIDE DEF h, Step
  <2> QED BY <2>3
<1>4. \A i \in Nat : i \in S
  <2> HIDE DEF S
  <2> QED BY <1>2, <1>3, Counting
<1>5. f = [k \in 0..n |-> Step(f, k)]
  <2>1. n \in S
    BY <1>1, <1>4
  <2> HIDE DEF Step, n
  <2> QED BY <2>1
<1>6. \A k \in 0..n : f[k] = Step(f, k)
  <2> HIDE DEF Step, f, n
  <2> QED BY <1>5
<1>7. 0 \in 0..n /\ \A k \in 1..n : k \in 0..n /\ k # 0
  BY <1>1
<1>8. Replayed(start, cs) = f[n]
  BY DEF Replayed
<1> HIDE DEF f, n
<1>9. f[0] = start /\ \A k \in 1..n : f[k] = Accept(f[k - 1], cs[k])
  BY <1>6, <1>7
<1> QED BY <1>8, <1>9 DEF n, IsReplay

(* Two engines that are handed the same candles stand at the same.          *)
LEMMA SameReplay ==
  ASSUME NEW n \in Nat, NEW start, NEW cs, NEW ds, \A k \in 1..n : cs[k] = ds[k],
         NEW f, IsReplay(f, start, cs, n), NEW g, IsReplay(g, start, ds, n)
  PROVE  f[n] = g[n]
<1> DEFINE S == {k \in Nat : k <= n => f[k] = g[k]}
<1>1. 0 \in S
  BY DEF IsReplay
<1>2. ASSUME NEW k \in Nat, k \in S PROVE k + 1 \in S
  <2>1. CASE k + 1 <= n
    <3>1. k + 1 \in 1..n /\ (k + 1) - 1 = k /\ f[k] = g[k]
      BY <2>1, <1>2
    <3>2. f[k + 1] = Accept(f[k], cs[k + 1]) /\ g[k + 1] = Accept(g[k], ds[k + 1])
      BY <3>1 DEF IsReplay
    <3> QED BY <3>1, <3>2
  <2> QED BY <2>1
<1>3. \A k \in Nat : k \in S
  <2> HIDE DEF S
  <2> QED BY <1>1, <1>2, Counting
<1> QED BY <1>3

LEMMA ReplayedNothing ==
  ASSUME NEW start, NEW cs, Len(cs) = 0
  PROVE  Replayed(start, cs) = start
<1>1. PICK f : IsReplay(f, start, cs, Len(cs)) /\ Replayed(start, cs) = f[Len(cs)]
  BY ReplayedWalk
<1> QED BY <1>1 DEF IsReplay

LEMMA ReplayedNext ==
  ASSUME NEW start, NEW C, NEW cs \in Seq(C), NEW c \in C
  PROVE  Replayed(start, Append(cs, c)) = Accept(Replayed(start, cs), c)
<1> DEFINE ds == Append(cs, c)
           n == Len(cs)
<1>1. n \in Nat /\ Len(ds) = n + 1 /\ ds[n + 1] = c /\ \A k \in 1..n : ds[k] = cs[k]
  OBVIOUS
<1> HIDE DEF ds, n
<1>2. PICK f : IsReplay(f, start, cs, n) /\ Replayed(start, cs) = f[n]
  BY <1>1, ReplayedWalk DEF n
<1>3. PICK g : IsReplay(g, start, ds, Len(ds)) /\ Replayed(start, ds) = g[Len(ds)]
  <2>1. Len(ds) \in Nat
    BY <1>1
  <2> QED BY <2>1, ReplayedWalk
<1>4. IsReplay(g, start, ds, n)
  BY <1>1, <1>3 DEF IsReplay
<1>5. f[n] = g[n]
  BY <1>1, <1>2, <1>4, SameReplay
<1>6. g[n + 1] = Accept(g[n], c)
  <2>1. n + 1 \in 1..n + 1 /\ (n + 1) - 1 = n
    BY <1>1
  <2> QED BY <1>1, <1>3, <2>1 DEF IsReplay
<1> QED BY <1>1, <1>2, <1>3, <1>5, <1>6 DEF ds

-----------------------------------------------------------------------------
(* What a price action engine is like.                                      *)

SwingKeys == [type : {"HIGH", "LOW"}, index : Nat, price : Int]

Engines ==
  [candles : Seq(CandleRecords), state : States \cup {None},
   high : Swing, previousHigh : Swing, low : Swing, previousLow : Swing,
   hh : Swing, hl : Swing, lh : Swing, ll : Swing,
   break : StructureBreaks \cup {None}, sweep : Sweeps, trend : Trends, broken : SUBSET SwingKeys]

LEMMA EmptyEngineTyped == EmptyEngine \in Engines
BY DEF EmptyEngine, Engines, Swing, Sweeps, Trends

LEMMA ConfirmedSwingTyped ==
  ASSUME NEW cs \in Seq(CandleRecords)
  PROVE  LET s == ConfirmedSwing(cs)
         IN  s # None => /\ s \in SwingPoints /\ s.structure = None
                         /\ s.index = Len(cs) - RightBars /\ s.index > LeftBars
                         /\ s.index \in 1..Len(cs)
<1> DEFINE i == Len(cs) - RightBars
           s == ConfirmedSwing(cs)
<1>1. Len(cs) \in Nat /\ i \in Int /\ LeftBars \in Nat /\ RightBars \in Nat
  BY PriceActionAssumption
<1> SUFFICES ASSUME s # None
             PROVE  /\ s \in SwingPoints /\ s.structure = None
                    /\ s.index = i /\ s.index > LeftBars /\ s.index \in 1..Len(cs)
  BY DEF i
<1>2. i > LeftBars /\ i \in 1..Len(cs)
  <2>1. ~(i <= LeftBars)
    BY DEF ConfirmedSwing
  <2> QED BY <1>1, <2>1
<1>3. cs[i] \in CandleRecords
  BY <1>2, ElementOfSeq
<1>4. cs[i].high \in Int /\ cs[i].low \in Int
  BY <1>3 DEF CandleRecords
<1>5. s = SwingPoint("HIGH", None, cs[i].high, i) \/ s = SwingPoint("LOW", None, cs[i].low, i)
  BY DEF ConfirmedSwing
<1> HIDE DEF i, s
<1> QED BY <1>1, <1>2, <1>4, <1>5 DEF SwingPoint, SwingPoints

LEMMA StructureTyped ==
  ASSUME NEW previous, NEW price, NEW higher \in StructureTypes, NEW lower \in StructureTypes,
         NEW equal \in StructureTypes
  PROVE  Structure(previous, price, higher, lower, equal) \in StructureTypes \cup {None}
BY DEF Structure

(* A confirmed swing is labelled and becomes the last of its kind.          *)
LEMMA SwungTyped ==
  ASSUME NEW e \in Engines
  PROVE  LET w == Swung(e)
             s == ConfirmedSwing(e.candles)
         IN  /\ w \in Engines
             /\ w.candles = e.candles /\ w.broken = e.broken /\ w.break = e.break
             /\ w.sweep = e.sweep /\ w.trend = e.trend /\ w.state = e.state
             /\ w.high # e.high => /\ s # None /\ s.type = "HIGH" /\ w.high \in SwingPoints
                                   /\ w.high.type = s.type /\ w.high.index = s.index /\ w.high.price = s.price
             /\ w.low # e.low => /\ s # None /\ s.type = "LOW" /\ w.low \in SwingPoints
                                 /\ w.low.type = s.type /\ w.low.index = s.index /\ w.low.price = s.price
<1> DEFINE s == ConfirmedSwing(e.candles)
<1>1. s # None => s \in SwingPoints
  BY ConfirmedSwingTyped DEF Engines
<1>2. CASE s = None
  BY <1>2 DEF Swung
<1>3. CASE s # None /\ s.type = "HIGH"
  <2> DEFINE label == Structure(e.high, s.price, "HIGHER_HIGH", "LOWER_HIGH", "EQUAL_HIGH")
             new == [s EXCEPT !.structure = label]
             hh == IF new.structure = "HIGHER_HIGH" THEN new ELSE e.hh
             lh == IF new.structure = "LOWER_HIGH" THEN new ELSE e.lh
  <2>1. label \in StructureTypes \cup {None}
    BY StructureTyped DEF StructureTypes
  <2>2. new \in SwingPoints /\ new.type = s.type /\ new.index = s.index /\ new.price = s.price
    <3> HIDE DEF label, s
    <3> QED BY <1>1, <1>3, <2>1 DEF SwingPoints
  <2>3. Swung(e) = [e EXCEPT !.previousHigh = e.high, !.high = new, !.hh = hh, !.lh = lh]
    BY <1>3 DEF Swung, SwungHigh
  <2> HIDE DEF new, s, label
  <2>4. hh \in Swing /\ lh \in Swing /\ new \in Swing /\ e.high \in Swing
    BY <2>2 DEF Swing, Engines
  <2> DEFINE w == [e EXCEPT !.previousHigh = e.high, !.high = new, !.hh = hh, !.lh = lh]
  <2> HIDE DEF hh, lh
  <2>5. w \in Engines
    BY <2>4 DEF Engines
  <2>6. /\ w.candles = e.candles /\ w.broken = e.broken /\ w.break = e.break
        /\ w.sweep = e.sweep /\ w.trend = e.trend /\ w.state = e.state
        /\ w.high = new /\ w.low = e.low
    BY DEF Engines
  <2> HIDE DEF w
  <2> QED BY <1>3, <2>2, <2>3, <2>5, <2>6 DEF w, s
<1>4. CASE s # None /\ s.type # "HIGH"
  <2> DEFINE label == Structure(e.low, s.price, "HIGHER_LOW", "LOWER_LOW", "EQUAL_LOW")
             new == [s EXCEPT !.structure = label]
             hl == IF new.structure = "HIGHER_LOW" THEN new ELSE e.hl
             ll == IF new.structure = "LOWER_LOW" THEN new ELSE e.ll
  <2>1. label \in StructureTypes \cup {None}
    BY StructureTyped DEF StructureTypes
  <2>2. new \in SwingPoints /\ new.type = s.type /\ new.index = s.index /\ new.price = s.price
        /\ s.type = "LOW"
    <3> HIDE DEF label, s
    <3> QED BY <1>1, <1>4, <2>1 DEF SwingPoints
  <2>3. Swung(e) = [e EXCEPT !.previousLow = e.low, !.low = new, !.hl = hl, !.ll = ll]
    BY <1>4 DEF Swung, SwungLow
  <2> HIDE DEF new, s, label
  <2>4. hl \in Swing /\ ll \in Swing /\ new \in Swing /\ e.low \in Swing
    BY <2>2 DEF Swing, Engines
  <2> DEFINE w == [e EXCEPT !.previousLow = e.low, !.low = new, !.hl = hl, !.ll = ll]
  <2> HIDE DEF hl, ll
  <2>5. w \in Engines
    BY <2>4 DEF Engines
  <2>6. /\ w.candles = e.candles /\ w.broken = e.broken /\ w.break = e.break
        /\ w.sweep = e.sweep /\ w.trend = e.trend /\ w.state = e.state
        /\ w.low = new /\ w.high = e.high
    BY DEF Engines
  <2> HIDE DEF w
  <2> QED BY <1>4, <2>2, <2>3, <2>5, <2>6 DEF w, s
<1> QED BY <1>2, <1>3, <1>4

(* Prices of swings are prices, and a break is one.                         *)
LEMMA BreakTyped ==
  ASSUME NEW e \in Engines, NEW c \in CandleRecords
  PROVE  /\ NewBreak(e, c) \in StructureBreaks \cup {None}
         /\ BrokenWith(e, c) \in SUBSET SwingKeys
         /\ SweepOf(e, c) \in Sweeps
<1>1. e.high # None => e.high.price \in Int /\ SwingKey(e.high) \in SwingKeys
  BY DEF Engines, Swing, SwingPoints, SwingKey, SwingKeys
<1>2. e.low # None => e.low.price \in Int /\ SwingKey(e.low) \in SwingKeys
  BY DEF Engines, Swing, SwingPoints, SwingKey, SwingKeys
<1>3. c.close \in Int /\ e.broken \in SUBSET SwingKeys
  BY DEF CandleRecords, Engines
<1>4. BreaksHigh(e, c) => e.high # None
  BY DEF BreaksHigh
<1>5. BreaksLow(e, c) => e.low # None
  BY DEF BreaksLow
<1>6. NewBreak(e, c) \in StructureBreaks \cup {None}
  BY <1>1, <1>2, <1>3, <1>4, <1>5 DEF NewBreak, StructureBreaks, BreakTypes
<1>7. BrokenWith(e, c) \in SUBSET SwingKeys
  BY <1>1, <1>2, <1>3, <1>4, <1>5 DEF BrokenWith
<1>8. SweepOf(e, c) \in Sweeps
  BY DEF SweepOf, Sweeps
<1> QED BY <1>6, <1>7, <1>8

LEMMA PublishedTyped ==
  ASSUME NEW e \in Engines, NEW c \in CandleRecords
  PROVE  Published(e, c) \in States
<1>1. BreakDirections(e.break) \in [bos : Directions, choch : Directions]
  BY DEF BreakDirections, Directions
<1>2. Pullback(e, c) \in {"NONE", "BULLISH_PULLBACK", "BEARISH_PULLBACK"}
  BY DEF Pullback
<1>3. Len(e.candles) \in Nat
  BY DEF Engines
<1> QED BY <1>1, <1>2, <1>3 DEF Published, States, Engines

LEMMA TrendTyped == \A high, low : TrendOf(high, low) \in Trends
BY DEF TrendOf, Trends

LEMMA AcceptTyped ==
  ASSUME NEW e \in Engines, NEW c \in CandleRecords
  PROVE  LET a == Accept(e, c)
             grown == [e EXCEPT !.broken = BrokenWith(e, c), !.candles = Append(@, c)]
             w == Swung(grown)
         IN  /\ a \in Engines /\ grown \in Engines /\ w \in Engines
             /\ a.candles = Append(e.candles, c) /\ a.broken = BrokenWith(e, c)
             /\ grown.high = e.high /\ grown.low = e.low /\ grown.candles = a.candles
             /\ a.high = w.high /\ a.low = w.low
             /\ a.trend = TrendOf(a.high, a.low)
<1> DEFINE broken == BrokenWith(e, c)
           candles == Append(e.candles, c)
           grown == [e EXCEPT !.broken = broken, !.candles = candles]
           w == Swung(grown)
           new == NewBreak(e, c)
           break == IF new = None THEN w.break ELSE new
           sweep == SweepOf(e, c)
           trend == TrendOf(w.high, w.low)
           next == [w EXCEPT !.trend = trend, !.break = break, !.sweep = sweep]
           state == Published(next, c)
<1>1. broken \in SUBSET SwingKeys /\ new \in StructureBreaks \cup {None} /\ sweep \in Sweeps
  BY BreakTyped
<1>2. e.candles \in Seq(CandleRecords) /\ candles \in Seq(CandleRecords)
  BY DEF Engines
<1> HIDE DEF broken, candles
<1>3. grown \in Engines /\ grown.high = e.high /\ grown.low = e.low
      /\ grown.candles = candles /\ grown.broken = broken
  BY <1>1, <1>2 DEF Engines
<1> HIDE DEF grown
<1>4. w \in Engines /\ w.candles = candles /\ w.broken = broken
  BY <1>3, SwungTyped
<1> HIDE DEF w, new, sweep
<1>5. trend \in Trends /\ break \in StructureBreaks \cup {None}
  BY <1>1, <1>4, TrendTyped DEF Engines
<1> HIDE DEF trend, break
<1>6. /\ next \in Engines /\ next.candles = candles /\ next.broken = broken
      /\ next.high = w.high /\ next.low = w.low /\ next.trend = trend
  BY <1>1, <1>4, <1>5 DEF Engines
<1> HIDE DEF next
<1>7. state \in States
  BY <1>6, PublishedTyped
<1> HIDE DEF state
<1>8. Accept(e, c) = [next EXCEPT !.state = state]
  BY DEF Accept, next, state, grown, w, new, break, sweep, trend, broken, candles
<1>9. [next EXCEPT !.state = state] \in Engines
      /\ [next EXCEPT !.state = state].candles = candles /\ [next EXCEPT !.state = state].broken = broken
      /\ [next EXCEPT !.state = state].high = w.high /\ [next EXCEPT !.state = state].low = w.low
      /\ [next EXCEPT !.state = state].trend = trend
  BY <1>6, <1>7 DEF Engines
<1> QED BY <1>3, <1>4, <1>8, <1>9 DEF trend, w, grown, broken, candles

-----------------------------------------------------------------------------
(* The swings it knows, and the candles since.                              *)

(* The last swing high tops the candles around it and, until it is broken,  *)
(* every close since it was confirmed.                                      *)
HighStands(e) ==
  e.high # None =>
    /\ e.high.type = "HIGH"
    /\ e.high.index \in LeftBars + 1..Len(e.candles) - RightBars
    /\ e.candles[e.high.index].high = e.high.price
    /\ \A j \in e.high.index - LeftBars..e.high.index + RightBars :
          j # e.high.index => e.candles[j].high < e.high.price
    /\ SwingKey(e.high) \notin e.broken =>
          \A j \in e.high.index + RightBars + 1..Len(e.candles) : e.candles[j].close <= e.high.price

LowStands(e) ==
  e.low # None =>
    /\ e.low.type = "LOW"
    /\ e.low.index \in LeftBars + 1..Len(e.candles) - RightBars
    /\ e.candles[e.low.index].low = e.low.price
    /\ \A j \in e.low.index - LeftBars..e.low.index + RightBars :
          j # e.low.index => e.candles[j].low > e.low.price
    /\ SwingKey(e.low) \notin e.broken =>
          \A j \in e.low.index + RightBars + 1..Len(e.candles) : e.candles[j].close >= e.low.price

AllValid(e) == \A i \in 1..Len(e.candles) : ValidCandle(e.candles[i])

Coherent(e) ==
  /\ e \in Engines
  /\ AllValid(e)
  /\ HighStands(e) /\ LowStands(e)
  /\ e.trend = TrendOf(e.high, e.low)

(* The later of two unbroken swings lies beyond what the earlier one allows *)
(* of every candle after it, so the low is never above the high.            *)
LEMMA SwingsInOrder ==
  ASSUME NEW e, Coherent(e), e.high # None, e.low # None,
         SwingKey(e.high) \notin e.broken, SwingKey(e.low) \notin e.broken
  PROVE  e.low.price <= e.high.price
<1> DEFINE n == Len(e.candles)
           i == e.high.index
           j == e.low.index
           high == e.high.price
           low == e.low.price
<1>1. n \in Nat /\ LeftBars \in Nat /\ RightBars \in Nat /\ i \in Nat /\ j \in Nat /\ high \in Int /\ low \in Int
  BY PriceActionAssumption DEF Coherent, Engines, Swing, SwingPoints
<1>2. \A k \in 1..n : /\ e.candles[k].high \in Int /\ e.candles[k].low \in Int /\ e.candles[k].close \in Int
                      /\ e.candles[k].low <= e.candles[k].close /\ e.candles[k].close <= e.candles[k].high
  <2>1. \A k \in 1..n : e.candles[k] \in CandleRecords
    BY ElementOfSeq DEF Coherent, Engines
  <2>2. \A k \in 1..n : ValidCandle(e.candles[k])
    BY DEF Coherent, AllValid
  <2> QED BY <2>1, <2>2 DEF CandleRecords, ValidCandle
<1>3. /\ i \in LeftBars + 1..n - RightBars /\ e.candles[i].high = high
      /\ \A k \in i - LeftBars..i + RightBars : k # i => e.candles[k].high < high
      /\ \A k \in i + RightBars + 1..n : e.candles[k].close <= high
  BY DEF Coherent, HighStands
<1>4. /\ j \in LeftBars + 1..n - RightBars /\ e.candles[j].low = low
      /\ \A k \in j - LeftBars..j + RightBars : k # j => e.candles[k].low > low
      /\ \A k \in j + RightBars + 1..n : e.candles[k].close >= low
  BY DEF Coherent, LowStands
<1> SUFFICES low <= high
  OBVIOUS
<1> HIDE DEF n, i, j, high, low
<1>5. i \in 1..n /\ j \in 1..n
  BY <1>1, <1>3, <1>4
<1>6. CASE i = j
  BY <1>1, <1>2, <1>3, <1>4, <1>5, <1>6
<1>7. CASE i < j
  <2>1. e.candles[j].low <= e.candles[j].high /\ e.candles[j].low <= e.candles[j].close
    BY <1>2, <1>5
  <2>2. j \in i - LeftBars..i + RightBars \/ j \in i + RightBars + 1..n
    BY <1>1, <1>5, <1>7
  <2> QED BY <1>1, <1>2, <1>3, <1>4, <1>5, <1>7, <2>1, <2>2
<1>8. CASE i > j
  <2>1. e.candles[i].low <= e.candles[i].high /\ e.candles[i].close <= e.candles[i].high
    BY <1>2, <1>5
  <2>2. i \in j - LeftBars..j + RightBars \/ i \in j + RightBars + 1..n
    BY <1>1, <1>5, <1>8
  <2> QED BY <1>1, <1>2, <1>3, <1>4, <1>5, <1>8, <2>1, <2>2
<1>9. i = j \/ i < j \/ i > j
  BY <1>1
<1> QED BY <1>6, <1>7, <1>8, <1>9

LEMMA OneSided ==
  ASSUME NEW e, Coherent(e), NEW c \in CandleRecords
  PROVE  ~TwoSided(e, c)
<1> SUFFICES ASSUME TwoSided(e, c) PROVE FALSE
  OBVIOUS
<1>1. e.high # None /\ SwingKey(e.high) \notin e.broken /\ c.close > e.high.price
  BY DEF TwoSided, BreaksHigh
<1>2. e.low # None /\ SwingKey(e.low) \notin e.broken /\ c.close < e.low.price
  BY DEF TwoSided, BreaksLow
<1>3. e.low.price <= e.high.price
  BY <1>1, <1>2, SwingsInOrder
<1>4. e.low.price \in Int /\ e.high.price \in Int /\ c.close \in Int
  BY <1>1, <1>2 DEF Coherent, Engines, Swing, SwingPoints, CandleRecords
<1> QED BY <1>1, <1>2, <1>3, <1>4

(* What a confirmed swing says of the candles.                              *)
LEMMA ConfirmedHigh ==
  ASSUME NEW cs \in Seq(CandleRecords), ConfirmedSwing(cs) # None, ConfirmedSwing(cs).type = "HIGH"
  PROVE  LET s == ConfirmedSwing(cs)
         IN  /\ s.price = cs[s.index].high
             /\ \A j \in s.index - LeftBars..s.index + RightBars : j # s.index => cs[j].high < s.price
<1> DEFINE i == Len(cs) - RightBars
           s == ConfirmedSwing(cs)
           others == (i - LeftBars .. i + RightBars) \ {i}
<1>1. s = SwingPoint("HIGH", None, cs[i].high, i) /\ \A j \in others : cs[i].high > cs[j].high
  BY DEF ConfirmedSwing, SwingPoint
<1> HIDE DEF s, others
<1>2. s.price = cs[i].high /\ s.index = i
  BY <1>1 DEF SwingPoint
<1>3. s \in SwingPoints /\ i \in 1..Len(cs)
  BY <1>2, ConfirmedSwingTyped DEF s
<1>4. \A j \in i - LeftBars..i + RightBars : j # i => cs[j].high < cs[i].high
  BY <1>1 DEF others
<1> QED BY <1>2, <1>4 DEF s

LEMMA ConfirmedLow ==
  ASSUME NEW cs \in Seq(CandleRecords), ConfirmedSwing(cs) # None, ConfirmedSwing(cs).type = "LOW"
  PROVE  LET s == ConfirmedSwing(cs)
         IN  /\ s.price = cs[s.index].low
             /\ \A j \in s.index - LeftBars..s.index + RightBars : j # s.index => cs[j].low > s.price
<1> DEFINE i == Len(cs) - RightBars
           s == ConfirmedSwing(cs)
           others == (i - LeftBars .. i + RightBars) \ {i}
<1>1. s = SwingPoint("LOW", None, cs[i].low, i) /\ \A j \in others : cs[i].low < cs[j].low
  BY DEF ConfirmedSwing, SwingPoint
<1> HIDE DEF s, others
<1>2. s.price = cs[i].low /\ s.index = i
  BY <1>1 DEF SwingPoint
<1>4. \A j \in i - LeftBars..i + RightBars : j # i => cs[j].low > cs[i].low
  BY <1>1 DEF others
<1> QED BY <1>2, <1>4 DEF s

LEMMA AcceptKeepsHigh ==
  ASSUME NEW e, Coherent(e), NEW c \in CandleRecords
  PROVE  HighStands(Accept(e, c))
<1> DEFINE a == Accept(e, c)
           cs == Append(e.candles, c)
           s == ConfirmedSwing(cs)
           grown == [e EXCEPT !.broken = BrokenWith(e, c), !.candles = Append(@, c)]
           w == Swung(grown)
           n == Len(e.candles)
<1>1. /\ a \in Engines /\ grown \in Engines /\ a.candles = cs /\ a.broken = BrokenWith(e, c)
      /\ grown.high = e.high /\ grown.candles = cs /\ a.high = w.high
  BY AcceptTyped DEF Coherent
<1>2. /\ e.candles \in Seq(CandleRecords) /\ cs \in Seq(CandleRecords) /\ n \in Nat /\ Len(cs) = n + 1
      /\ cs[n + 1] = c /\ \A j \in 1..n : cs[j] = e.candles[j]
  BY DEF Coherent, Engines
<1>3. LeftBars \in Nat /\ RightBars \in Nat
  BY PriceActionAssumption
<1> SUFFICES HighStands(a)
  OBVIOUS
<1> HIDE DEF cs, a, grown
<1>4. CASE w.high = e.high
  <2> SUFFICES ASSUME e.high # None PROVE HighStands(a)
    BY <1>1, <1>4 DEF HighStands
  <2> DEFINE i == e.high.index
             price == e.high.price
  <2>1. /\ e.high.type = "HIGH" /\ i \in LeftBars + 1..n - RightBars /\ e.candles[i].high = price
        /\ \A j \in i - LeftBars..i + RightBars : j # i => e.candles[j].high < price
        /\ SwingKey(e.high) \notin e.broken =>
              \A j \in i + RightBars + 1..n : e.candles[j].close <= price
    BY DEF Coherent, HighStands
  <2>2. i \in Nat /\ price \in Int /\ c.close \in Int
    BY DEF Coherent, Engines, Swing, SwingPoints, CandleRecords
  <2>3. SwingKey(e.high) \notin BrokenWith(e, c) => SwingKey(e.high) \notin e.broken /\ c.close <= price
    <3> SUFFICES ASSUME SwingKey(e.high) \notin BrokenWith(e, c)
                 PROVE  SwingKey(e.high) \notin e.broken /\ c.close <= price
      OBVIOUS
    <3>1. SwingKey(e.high) \notin e.broken /\ ~BreaksHigh(e, c)
      BY DEF BrokenWith
    <3>2. ~(c.close > price)
      BY <3>1 DEF BreaksHigh
    <3> QED BY <2>2, <3>1, <3>2
  <2>4. a.high = e.high
    BY <1>1, <1>4
  <2> HIDE DEF i, price, n
  <2>5. i \in LeftBars + 1..(n + 1) - RightBars /\ cs[i].high = price
    <3>1. i \in 1..n
      BY <1>2, <1>3, <2>1
    <3> QED BY <1>2, <1>3, <2>1, <2>2, <3>1
  <2>6. ASSUME NEW j \in i - LeftBars..i + RightBars, j # i PROVE cs[j].high < price
    <3>1. j \in 1..n
      BY <1>2, <1>3, <2>1, <2>2
    <3> QED BY <1>2, <2>1, <2>6, <3>1
  <2>7. ASSUME SwingKey(e.high) \notin BrokenWith(e, c), NEW j \in i + RightBars + 1..n + 1
        PROVE  cs[j].close <= price
    <3>1. CASE j = n + 1
      BY <1>2, <2>3, <2>7, <3>1
    <3>2. CASE j # n + 1
      <4>1. j \in i + RightBars + 1..n /\ j \in 1..n
        BY <1>2, <1>3, <2>2, <3>2
      <4> QED BY <1>2, <2>1, <2>3, <2>7, <4>1
    <3> QED BY <3>1, <3>2
  <2> QED BY <1>1, <1>2, <2>1, <2>4, <2>5, <2>6, <2>7 DEF HighStands, i, price
<1>5. CASE w.high # e.high
  <2>1. /\ s # None /\ s.type = "HIGH" /\ a.high.type = "HIGH" /\ a.high.index = s.index
        /\ a.high.price = s.price
    BY <1>1, <1>5, SwungTyped
  <2>2. s.index = (n + 1) - RightBars /\ s.index > LeftBars /\ s.index \in 1..n + 1
    BY <1>2, <2>1, ConfirmedSwingTyped
  <2>3. /\ s.price = cs[s.index].high
        /\ \A j \in s.index - LeftBars..s.index + RightBars : j # s.index => cs[j].high < s.price
    BY <1>2, <2>1, ConfirmedHigh
  <2> HIDE DEF s, n
  <2>4. s.index \in LeftBars + 1..(n + 1) - RightBars /\ s.index + RightBars + 1..n + 1 = {}
    BY <1>2, <1>3, <2>2
  <2> QED BY <1>1, <1>2, <2>1, <2>3, <2>4 DEF HighStands
<1> QED BY <1>4, <1>5

LEMMA AcceptKeepsLow ==
  ASSUME NEW e, Coherent(e), NEW c \in CandleRecords
  PROVE  LowStands(Accept(e, c))
<1> DEFINE a == Accept(e, c)
           cs == Append(e.candles, c)
           s == ConfirmedSwing(cs)
           grown == [e EXCEPT !.broken = BrokenWith(e, c), !.candles = Append(@, c)]
           w == Swung(grown)
           n == Len(e.candles)
<1>1. /\ a \in Engines /\ grown \in Engines /\ a.candles = cs /\ a.broken = BrokenWith(e, c)
      /\ grown.low = e.low /\ grown.candles = cs /\ a.low = w.low
  BY AcceptTyped DEF Coherent
<1>2. /\ e.candles \in Seq(CandleRecords) /\ cs \in Seq(CandleRecords) /\ n \in Nat /\ Len(cs) = n + 1
      /\ cs[n + 1] = c /\ \A j \in 1..n : cs[j] = e.candles[j]
  BY DEF Coherent, Engines
<1>3. LeftBars \in Nat /\ RightBars \in Nat
  BY PriceActionAssumption
<1> SUFFICES LowStands(a)
  OBVIOUS
<1> HIDE DEF cs, a, grown
<1>4. CASE w.low = e.low
  <2> SUFFICES ASSUME e.low # None PROVE LowStands(a)
    BY <1>1, <1>4 DEF LowStands
  <2> DEFINE i == e.low.index
             price == e.low.price
  <2>1. /\ e.low.type = "LOW" /\ i \in LeftBars + 1..n - RightBars /\ e.candles[i].low = price
        /\ \A j \in i - LeftBars..i + RightBars : j # i => e.candles[j].low > price
        /\ SwingKey(e.low) \notin e.broken =>
              \A j \in i + RightBars + 1..n : e.candles[j].close >= price
    BY DEF Coherent, LowStands
  <2>2. i \in Nat /\ price \in Int /\ c.close \in Int
    BY DEF Coherent, Engines, Swing, SwingPoints, CandleRecords
  <2>3. SwingKey(e.low) \notin BrokenWith(e, c) => SwingKey(e.low) \notin e.broken /\ c.close >= price
    <3> SUFFICES ASSUME SwingKey(e.low) \notin BrokenWith(e, c)
                 PROVE  SwingKey(e.low) \notin e.broken /\ c.close >= price
      OBVIOUS
    <3>1. SwingKey(e.low) \notin e.broken /\ ~(BreaksLow(e, c) /\ ~BreaksHigh(e, c))
      BY DEF BrokenWith
    <3>2. ~BreaksLow(e, c)
      BY <3>1, OneSided DEF TwoSided
    <3>3. ~(c.close < price)
      BY <3>1, <3>2 DEF BreaksLow
    <3> QED BY <2>2, <3>1, <3>3
  <2>4. a.low = e.low
    BY <1>1, <1>4
  <2> HIDE DEF i, price, n
  <2>5. i \in LeftBars + 1..(n + 1) - RightBars /\ cs[i].low = price
    <3>1. i \in 1..n
      BY <1>2, <1>3, <2>1
    <3> QED BY <1>2, <1>3, <2>1, <2>2, <3>1
  <2>6. ASSUME NEW j \in i - LeftBars..i + RightBars, j # i PROVE cs[j].low > price
    <3>1. j \in 1..n
      BY <1>2, <1>3, <2>1, <2>2
    <3> QED BY <1>2, <2>1, <2>6, <3>1
  <2>7. ASSUME SwingKey(e.low) \notin BrokenWith(e, c), NEW j \in i + RightBars + 1..n + 1
        PROVE  cs[j].close >= price
    <3>1. CASE j = n + 1
      BY <1>2, <2>3, <2>7, <3>1
    <3>2. CASE j # n + 1
      <4>1. j \in i + RightBars + 1..n /\ j \in 1..n
        BY <1>2, <1>3, <2>2, <3>2
      <4> QED BY <1>2, <2>1, <2>3, <2>7, <4>1
    <3> QED BY <3>1, <3>2
  <2> QED BY <1>1, <1>2, <2>1, <2>4, <2>5, <2>6, <2>7 DEF LowStands, i, price
<1>5. CASE w.low # e.low
  <2>1. /\ s # None /\ s.type = "LOW" /\ a.low.type = "LOW" /\ a.low.index = s.index
        /\ a.low.price = s.price
    BY <1>1, <1>5, SwungTyped
  <2>2. s.index = (n + 1) - RightBars /\ s.index > LeftBars /\ s.index \in 1..n + 1
    BY <1>2, <2>1, ConfirmedSwingTyped
  <2>3. /\ s.price = cs[s.index].low
        /\ \A j \in s.index - LeftBars..s.index + RightBars : j # s.index => cs[j].low > s.price
    BY <1>2, <2>1, ConfirmedLow
  <2> HIDE DEF s, n
  <2>4. s.index \in LeftBars + 1..(n + 1) - RightBars /\ s.index + RightBars + 1..n + 1 = {}
    BY <1>2, <1>3, <2>2
  <2> QED BY <1>1, <1>2, <2>1, <2>3, <2>4 DEF LowStands
<1> QED BY <1>4, <1>5

LEMMA AcceptCoherent ==
  ASSUME NEW e, Coherent(e), NEW c \in CandleRecords, ValidCandle(c)
  PROVE  Coherent(Accept(e, c)) /\ Accept(e, c).candles = Append(e.candles, c)
<1> DEFINE a == Accept(e, c)
           n == Len(e.candles)
<1>1. a \in Engines /\ a.candles = Append(e.candles, c) /\ a.trend = TrendOf(a.high, a.low)
  BY AcceptTyped DEF Coherent
<1>2. HighStands(a) /\ LowStands(a)
  BY AcceptKeepsHigh, AcceptKeepsLow
<1>3. AllValid(a)
  <2>1. e.candles \in Seq(CandleRecords) /\ n \in Nat
    BY DEF Coherent, Engines
  <2>2. /\ Len(Append(e.candles, c)) = n + 1 /\ Append(e.candles, c)[n + 1] = c
        /\ \A j \in 1..n : Append(e.candles, c)[j] = e.candles[j]
    BY <2>1
  <2>3. \A j \in 1..n + 1 : j = n + 1 \/ j \in 1..n
    BY <2>1
  <2> HIDE DEF a
  <2> QED BY <1>1, <2>2, <2>3 DEF AllValid, Coherent
<1> QED BY <1>1, <1>2, <1>3 DEF Coherent

LEMMA EmptyCoherent == Coherent(EmptyEngine)
<1>1. EmptyEngine.candles = <<>> /\ EmptyEngine.high = None /\ EmptyEngine.low = None
      /\ EmptyEngine.trend = "UNKNOWN"
  BY DEF EmptyEngine
<1>2. Len(EmptyEngine.candles) = 0
  BY <1>1
<1> QED BY <1>1, <1>2, EmptyEngineTyped DEF Coherent, AllValid, HighStands, LowStands, TrendOf

(* An engine that is handed valid candles holds them and is coherent.       *)
ValidHistories == {cs \in Seq(CandleRecords) : \A i \in 1..Len(cs) : ValidCandle(cs[i])}

LEMMA EachHistory ==
  ASSUME NEW cs \in ValidHistories, cs # <<>>
  PROVE  /\ Front(cs) \in ValidHistories /\ Len(Front(cs)) = Len(cs) - 1
         /\ Last(cs) \in CandleRecords /\ ValidCandle(Last(cs))
         /\ cs = Append(Front(cs), Last(cs))
<1> DEFINE front == Front(cs)
           n == Len(front)
           last == Last(cs)
<1>1. cs \in Seq(CandleRecords) /\ \A i \in 1..Len(cs) : ValidCandle(cs[i])
  BY DEF ValidHistories
<1>2. front \in Seq(CandleRecords) /\ last \in CandleRecords /\ Append(front, last) = cs
  BY <1>1, FrontAndLast
<1> HIDE DEF front, last
<1>3. n \in Nat /\ Len(Append(front, last)) = n + 1 /\ Append(front, last)[n + 1] = last
      /\ \A i \in 1..n : Append(front, last)[i] = front[i]
  BY <1>2
<1>4. Len(cs) = n + 1 /\ cs[n + 1] = last /\ \A i \in 1..n : cs[i] = front[i]
  BY <1>2, <1>3
<1> HIDE DEF n
<1>5. n + 1 \in 1..n + 1 /\ \A i \in 1..n : i \in 1..n + 1
  BY <1>3
<1>6. ValidCandle(last) /\ \A i \in 1..n : ValidCandle(front[i])
  BY <1>1, <1>4, <1>5
<1>7. front \in ValidHistories /\ Len(front) = Len(cs) - 1
  BY <1>2, <1>3, <1>4, <1>6 DEF ValidHistories, n
<1> QED BY <1>2, <1>6, <1>7 DEF front, last

LEMMA ReplayedCoherent ==
  ASSUME NEW cs \in ValidHistories
  PROVE  LET e == Replayed(EmptyEngine, cs) IN Coherent(e) /\ e.candles = cs
<1> DEFINE Sound(ds) == Coherent(Replayed(EmptyEngine, ds)) /\ Replayed(EmptyEngine, ds).candles = ds
           S == {n \in Nat : \A ds \in ValidHistories : Len(ds) = n => Sound(ds)}
<1>1. 0 \in S
  <2> SUFFICES ASSUME NEW ds \in ValidHistories, Len(ds) = 0 PROVE Sound(ds)
    OBVIOUS
  <2>1. Replayed(EmptyEngine, ds) = EmptyEngine
    BY ReplayedNothing
  <2>2. ds = <<>>
    BY EmptySeq DEF ValidHistories
  <2> QED BY <2>1, <2>2, EmptyCoherent DEF EmptyEngine
<1>2. ASSUME NEW n \in Nat, n \in S PROVE n + 1 \in S
  <2> SUFFICES ASSUME NEW ds \in ValidHistories, Len(ds) = n + 1 PROVE Sound(ds)
    OBVIOUS
  <2> DEFINE front == Front(ds)
             last == Last(ds)
             e == Replayed(EmptyEngine, front)
  <2>1. ds # <<>>
    <3>1. Len(ds) # 0
      OBVIOUS
    <3> QED BY <3>1, EmptySeq
  <2>2. front \in ValidHistories /\ Len(front) = n /\ last \in CandleRecords /\ ValidCandle(last)
        /\ ds = Append(front, last)
    BY <2>1, EachHistory
  <2>3. Coherent(e) /\ e.candles = front
    <3> HIDE DEF front
    <3> QED BY <1>2, <2>2
  <2>4. front \in Seq(CandleRecords)
    BY <2>2 DEF ValidHistories
  <2> HIDE DEF front, last
  <2>5. Replayed(EmptyEngine, ds) = Accept(e, last)
    BY <2>2, <2>4, ReplayedNext
  <2> HIDE DEF e
  <2>6. Coherent(Accept(e, last)) /\ Accept(e, last).candles = Append(e.candles, last)
    BY <2>2, <2>3, AcceptCoherent
  <2> QED BY <2>2, <2>3, <2>5, <2>6
<1>3. \A n \in Nat : n \in S
  <2> HIDE DEF S
  <2> QED BY <1>1, <1>2, Counting
<1>4. Len(cs) \in Nat /\ Len(cs) \in S
  BY <1>3 DEF ValidHistories
<1> QED BY <1>4


-----------------------------------------------------------------------------
(* The market upside down.                                                  *)

LEMMA Opposites ==
  /\ Opposite["HIGH"] = "LOW" /\ Opposite["LOW"] = "HIGH"
  /\ Opposite["HIGHER_HIGH"] = "LOWER_LOW" /\ Opposite["LOWER_LOW"] = "HIGHER_HIGH"
  /\ Opposite["LOWER_HIGH"] = "HIGHER_LOW" /\ Opposite["HIGHER_LOW"] = "LOWER_HIGH"
  /\ Opposite["EQUAL_HIGH"] = "EQUAL_LOW" /\ Opposite["EQUAL_LOW"] = "EQUAL_HIGH"
  /\ Opposite["BULLISH"] = "BEARISH" /\ Opposite["BEARISH"] = "BULLISH"
  /\ Opposite["RANGE"] = "RANGE" /\ Opposite["UNKNOWN"] = "UNKNOWN"
  /\ Opposite["BULLISH_BOS"] = "BEARISH_BOS" /\ Opposite["BEARISH_BOS"] = "BULLISH_BOS"
  /\ Opposite["BULLISH_CHOCH"] = "BEARISH_CHOCH" /\ Opposite["BEARISH_CHOCH"] = "BULLISH_CHOCH"
  /\ Opposite["BULLISH_PULLBACK"] = "BEARISH_PULLBACK"
  /\ Opposite["BEARISH_PULLBACK"] = "BULLISH_PULLBACK"
  /\ Opposite["BUY_SIDE"] = "SELL_SIDE" /\ Opposite["SELL_SIDE"] = "BUY_SIDE"
  /\ Opposite["BOTH_SIDES"] = "BOTH_SIDES" /\ Opposite["NONE"] = "NONE"
BY DEF Opposite

(* Finitely many candles have a highest.                                    *)
HasHighest(G) == \E h \in G : \A c \in G : c.high <= h.high

LEMMA FiniteHasHighest ==
  ASSUME Candles # {}
  PROVE  HasHighest(Candles)
<1> DEFINE R == StrictSubsetOrdering(Candles)
           F == FiniteSubsetsOf(Candles)
           Bad == {G \in F : G # {} /\ ~HasHighest(G)}
<1>0. IsFiniteSet(Candles) /\ \A c \in Candles : c.high \in Int
  BY PriceActionAssumption DEF CandleRecords
<1> SUFFICES ASSUME Bad # {} PROVE FALSE
  BY <1>0 DEF FiniteSubsetsOf
<1>1. IsWellFoundedOn(R, F)
  BY <1>0, FS_StrictSubsetOrderingWellFounded
<1>2. PICK G \in Bad : \A H \in Bad : ~(<<H, G>> \in R)
  <2>1. Bad \subseteq F
    OBVIOUS
  <2> HIDE DEF R, F, Bad
  <2> QED BY <1>1, <2>1, WFMin
<1>3. PICK x \in G : TRUE
  OBVIOUS
<1> DEFINE H == G \ {x}
<1>4. G \subseteq Candles /\ IsFiniteSet(G) /\ IsFiniteSet(H) /\ ~HasHighest(G)
  BY FS_RemoveElement DEF FiniteSubsetsOf
<1>5. H \notin Bad
  <2>1. <<H, G>> \in R
    BY <1>4, <1>3 DEF StrictSubsetOrdering
  <2> QED BY <1>2, <2>1
<1>6. H = {} \/ HasHighest(H)
  BY <1>4, <1>5 DEF FiniteSubsetsOf
<1>7. x.high \in Int /\ \A c \in G : c.high \in Int /\ (c = x \/ c \in H)
  BY <1>0, <1>3, <1>4
<1>8. CASE H = {}
  BY <1>3, <1>4, <1>7, <1>8 DEF HasHighest
<1>9. CASE HasHighest(H)
  <2>1. PICK h \in H : \A c \in H : c.high <= h.high
    BY <1>9 DEF HasHighest
  <2>2. h \in G /\ h.high \in Int
    BY <1>7, <2>1
  <2>3. CASE h.high <= x.high
    BY <1>3, <1>4, <1>7, <2>1, <2>2, <2>3 DEF HasHighest
  <2>4. CASE x.high <= h.high
    BY <1>4, <1>7, <2>1, <2>2, <2>4 DEF HasHighest
  <2> QED BY <1>7, <2>2, <2>3, <2>4
<1> QED BY <1>6, <1>8, <1>9

LEMMA MirrorSumTyped ==
  ASSUME Candles # {}
  PROVE  MirrorSum \in Int
<1> DEFINE S == {c.high : c \in Candles}
           Top(p) == \A c \in Candles : c.high <= p
           highest == CHOOSE p \in S : Top(p)
<1>1. PICK h \in Candles : Top(h.high)
  BY FiniteHasHighest DEF HasHighest
<1>2. \E p \in S : Top(p)
  <2>1. h.high \in S
    OBVIOUS
  <2> HIDE DEF S, Top
  <2> QED BY <1>1, <2>1
<1>3. highest \in S
  <2> HIDE DEF S, Top
  <2> QED BY <1>2
<1>4. S \subseteq Int
  BY PriceActionAssumption DEF CandleRecords
<1>5. MirrorSum = 1 + highest
  BY Zenon DEF MirrorSum
<1> HIDE DEF highest
<1> QED BY <1>3, <1>4, <1>5

LEMMA MirroredCandleIs ==
  ASSUME MirrorSum \in Int, NEW c \in CandleRecords
  PROVE  LET m == MirroredCandle(c)
         IN  /\ m \in CandleRecords
             /\ m.high = MirrorSum - c.low /\ m.low = MirrorSum - c.high
             /\ m.close = MirrorSum - c.close
<1> DEFINE open == MirrorSum - c.open
           close == MirrorSum - c.close
           high == MirrorSum - c.low
           low == MirrorSum - c.high
<1>1. open \in Int /\ close \in Int /\ high \in Int /\ low \in Int
  BY DEF CandleRecords
<1>2. MirroredCandle(c) = [c EXCEPT !.open = open, !.close = close, !.high = high, !.low = low]
  BY DEF MirroredCandle
<1> HIDE DEF open, close, high, low
<1>3. /\ MirroredCandle(c) \in CandleRecords
      /\ MirroredCandle(c).high = high /\ MirroredCandle(c).low = low /\ MirroredCandle(c).close = close
  BY <1>1, <1>2 DEF CandleRecords
<1> QED BY <1>3 DEF high, low, close

LEMMA MirroredSwingIs ==
  ASSUME MirrorSum \in Int, NEW s \in Swing
  PROVE  LET m == MirroredSwing(s)
         IN  /\ m \in Swing
             /\ m = None <=> s = None
             /\ s # None => /\ m.type = Opposite[s.type] /\ m.index = s.index
                            /\ m.price = MirrorSum - s.price
                            /\ m.structure = IF s.structure = None THEN None ELSE Opposite[s.structure]
<1>1. CASE s = None
  BY <1>1 DEF MirroredSwing, Swing
<1>2. CASE s # None
  <2> DEFINE type == Opposite[s.type]
             label == IF s.structure = None THEN None ELSE Opposite[s.structure]
             price == MirrorSum - s.price
  <2>1. s \in SwingPoints /\ type \in {"HIGH", "LOW"} /\ price \in Int
        /\ label \in StructureTypes \cup {None}
    BY <1>2, Opposites DEF Swing, SwingPoints, StructureTypes
  <2>2. MirroredSwing(s) = [s EXCEPT !.type = type, !.price = price, !.structure = label]
    BY <1>2 DEF MirroredSwing
  <2> HIDE DEF type, label, price
  <2>3. MirroredSwing(s) \in SwingPoints /\ MirroredSwing(s).type = type /\ MirroredSwing(s).index = s.index
        /\ MirroredSwing(s).price = price /\ MirroredSwing(s).structure = label
    BY <2>1, <2>2 DEF SwingPoints
  <2>4. MirroredSwing(s) # None
    BY <2>3, PriceActionAssumption
  <2> QED BY <1>2, <2>3, <2>4 DEF type, label, price, Swing
<1> QED BY <1>1, <1>2

MirroredKey(k) == [type |-> Opposite[k.type], index |-> k.index, price |-> MirrorSum - k.price]

LEMMA MirroredKeyIs ==
  ASSUME MirrorSum \in Int
  PROVE  /\ \A k \in SwingKeys : MirroredKey(k) \in SwingKeys
         /\ \A k, l \in SwingKeys : MirroredKey(k) = MirroredKey(l) => k = l
         /\ \A s \in SwingPoints : SwingKey(MirroredSwing(s)) = MirroredKey(SwingKey(s))
<1>1. ASSUME NEW k \in SwingKeys PROVE MirroredKey(k) \in SwingKeys
  BY Opposites DEF MirroredKey, SwingKeys
<1>2. ASSUME NEW k \in SwingKeys, NEW l \in SwingKeys, MirroredKey(k) = MirroredKey(l) PROVE k = l
  <2>1. Opposite[k.type] = Opposite[l.type] /\ k.index = l.index /\ MirrorSum - k.price = MirrorSum - l.price
    BY <1>2 DEF MirroredKey
  <2>2. k.price \in Int /\ l.price \in Int /\ k.type \in {"HIGH", "LOW"} /\ l.type \in {"HIGH", "LOW"}
    BY DEF SwingKeys
  <2>3. k.price = l.price /\ k.type = l.type
    BY <2>1, <2>2, Opposites
  <2> QED BY <2>1, <2>3 DEF SwingKeys
<1>3. ASSUME NEW s \in SwingPoints PROVE SwingKey(MirroredSwing(s)) = MirroredKey(SwingKey(s))
  <2>1. s \in Swing /\ s # None
    BY PriceActionAssumption DEF Swing
  <2>2. MirroredSwing(s).type = Opposite[s.type] /\ MirroredSwing(s).index = s.index
        /\ MirroredSwing(s).price = MirrorSum - s.price
    BY <2>1, MirroredSwingIs
  <2> QED BY <2>2 DEF SwingKey, MirroredKey
<1> QED BY <1>1, <1>2, <1>3

MirroredCandles(cs) == [i \in 1..Len(cs) |-> MirroredCandle(cs[i])]

(* The engine that read the market upside down.                             *)
MirroredEngine(e) ==
  [candles |-> MirroredCandles(e.candles), state |-> MirroredState(e.state),
   high |-> MirroredSwing(e.low), previousHigh |-> MirroredSwing(e.previousLow),
   low |-> MirroredSwing(e.high), previousLow |-> MirroredSwing(e.previousHigh),
   hh |-> MirroredSwing(e.ll), hl |-> MirroredSwing(e.lh),
   lh |-> MirroredSwing(e.hl), ll |-> MirroredSwing(e.hh),
   break |-> MirroredBreak(e.break), sweep |-> Opposite[e.sweep], trend |-> Opposite[e.trend],
   broken |-> {MirroredKey(k) : k \in e.broken}]

LEMMA MirroredBroken ==
  ASSUME MirrorSum \in Int, NEW broken \in SUBSET SwingKeys, NEW s \in SwingPoints
  PROVE  SwingKey(MirroredSwing(s)) \in {MirroredKey(k) : k \in broken} <=> SwingKey(s) \in broken
<1>1. SwingKey(s) \in SwingKeys
  BY DEF SwingKey, SwingKeys, SwingPoints
<1>2. SwingKey(MirroredSwing(s)) = MirroredKey(SwingKey(s))
  BY MirroredKeyIs
<1> DEFINE key == SwingKey(s)
           mirrored == SwingKey(MirroredSwing(s))
<1> HIDE DEF key, mirrored
<1>3. \A k \in broken : MirroredKey(key) = MirroredKey(k) => key = k
  BY <1>1, MirroredKeyIs DEF key
<1> QED BY <1>2, <1>3 DEF key

LEMMA MirroredBreaks ==
  ASSUME MirrorSum \in Int, NEW e \in Engines, NEW c \in CandleRecords
  PROVE  LET m == MirroredEngine(e)
             d == MirroredCandle(c)
         IN  (BreaksHigh(m, d) <=> BreaksLow(e, c)) /\ (BreaksLow(m, d) <=> BreaksHigh(e, c))
<1> DEFINE m == MirroredEngine(e)
           d == MirroredCandle(c)
<1>1. /\ m.high = MirroredSwing(e.low) /\ m.low = MirroredSwing(e.high)
      /\ m.broken = {MirroredKey(k) : k \in e.broken}
  BY DEF MirroredEngine
<1>2. d.close = MirrorSum - c.close /\ c.close \in Int
  BY MirroredCandleIs DEF CandleRecords
<1>3. e.high \in Swing /\ e.low \in Swing /\ e.broken \in SUBSET SwingKeys
  BY DEF Engines
<1>4. m.high = None <=> e.low = None
  BY <1>1, <1>3, MirroredSwingIs
<1>5. m.low = None <=> e.high = None
  BY <1>1, <1>3, MirroredSwingIs
<1> HIDE DEF m, d
<1>6. ASSUME e.low # None
      PROVE  /\ m.high.price = MirrorSum - e.low.price /\ e.low.price \in Int
             /\ SwingKey(m.high) \in m.broken <=> SwingKey(e.low) \in e.broken
  <2>1. e.low \in SwingPoints
    BY <1>3, <1>6 DEF Swing
  <2>2. m.high.price = MirrorSum - e.low.price
    BY <1>1, <1>3, <1>6, MirroredSwingIs
  <2>3. SwingKey(m.high) \in m.broken <=> SwingKey(e.low) \in e.broken
    BY <1>1, <1>3, <2>1, MirroredBroken
  <2> QED BY <2>1, <2>2, <2>3 DEF SwingPoints
<1>7. ASSUME e.high # None
      PROVE  /\ m.low.price = MirrorSum - e.high.price /\ e.high.price \in Int
             /\ SwingKey(m.low) \in m.broken <=> SwingKey(e.high) \in e.broken
  <2>1. e.high \in SwingPoints
    BY <1>3, <1>7 DEF Swing
  <2>2. m.low.price = MirrorSum - e.high.price
    BY <1>1, <1>3, <1>7, MirroredSwingIs
  <2>3. SwingKey(m.low) \in m.broken <=> SwingKey(e.high) \in e.broken
    BY <1>1, <1>3, <2>1, MirroredBroken
  <2> QED BY <2>1, <2>2, <2>3 DEF SwingPoints
<1>8. BreaksHigh(m, d) <=> BreaksLow(e, c)
  BY <1>2, <1>4, <1>6 DEF BreaksHigh, BreaksLow
<1>9. BreaksLow(m, d) <=> BreaksHigh(e, c)
  BY <1>2, <1>5, <1>7 DEF BreaksHigh, BreaksLow
<1> QED BY <1>8, <1>9 DEF m, d


LEMMA MirroredBreakIs ==
  ASSUME MirrorSum \in Int, NEW b \in StructureBreaks \cup {None}
  PROVE  LET m == MirroredBreak(b)
         IN  /\ m \in StructureBreaks \cup {None}
             /\ m = None <=> b = None
             /\ b # None => m = [type |-> Opposite[b.type], level |-> MirrorSum - b.level,
                                 price |-> MirrorSum - b.price]
<1>1. CASE b = None
  BY <1>1 DEF MirroredBreak
<1>2. CASE b # None
  <2> DEFINE m == [type |-> Opposite[b.type], level |-> MirrorSum - b.level, price |-> MirrorSum - b.price]
  <2>1. b \in StructureBreaks
    BY <1>2
  <2>2. m \in StructureBreaks
    BY <2>1, Opposites DEF StructureBreaks, BreakTypes
  <2>3. MirroredBreak(b) = m
    BY <1>2 DEF MirroredBreak
  <2> QED BY <1>2, <2>2, <2>3, PriceActionAssumption
<1> QED BY <1>1, <1>2

LEMMA MirroredNewBreak ==
  ASSUME MirrorSum \in Int, NEW e \in Engines, NEW c \in CandleRecords, ~TwoSided(e, c)
  PROVE  LET m == MirroredEngine(e)
             d == MirroredCandle(c)
         IN  /\ NewBreak(m, d) = MirroredBreak(NewBreak(e, c))
             /\ BrokenWith(m, d) = {MirroredKey(k) : k \in BrokenWith(e, c)}
<1> DEFINE m == MirroredEngine(e)
           d == MirroredCandle(c)
<1>1. (BreaksHigh(m, d) <=> BreaksLow(e, c)) /\ (BreaksLow(m, d) <=> BreaksHigh(e, c))
  BY MirroredBreaks
<1>2. /\ m.high = MirroredSwing(e.low) /\ m.low = MirroredSwing(e.high)
      /\ m.broken = {MirroredKey(k) : k \in e.broken} /\ m.trend = Opposite[e.trend]
  BY DEF MirroredEngine
<1>3. d.close = MirrorSum - c.close /\ c.close \in Int
  BY MirroredCandleIs DEF CandleRecords
<1>4. e.high \in Swing /\ e.low \in Swing /\ e.broken \in SUBSET SwingKeys /\ e.trend \in Trends
  BY DEF Engines
<1>5. /\ m.trend = "BULLISH" <=> e.trend = "BEARISH"
      /\ m.trend = "BEARISH" <=> e.trend = "BULLISH"
  BY <1>2, <1>4, Opposites DEF Trends
<1> SUFFICES /\ NewBreak(m, d) = MirroredBreak(NewBreak(e, c))
             /\ BrokenWith(m, d) = {MirroredKey(k) : k \in BrokenWith(e, c)}
  OBVIOUS
<1> HIDE DEF m, d
<1>6. CASE BreaksHigh(e, c)
  <2>1. ~BreaksLow(e, c) /\ ~BreaksHigh(m, d) /\ BreaksLow(m, d)
    BY <1>1, <1>6 DEF TwoSided
  <2>2. e.high \in SwingPoints
    BY <1>4, <1>6 DEF BreaksHigh, Swing
  <2>3. m.low.price = MirrorSum - e.high.price /\ SwingKey(m.low) = MirroredKey(SwingKey(e.high))
    <3>1. e.high # None
      BY <1>6 DEF BreaksHigh
    <3> QED BY <1>2, <1>4, <2>2, <3>1, MirroredSwingIs, MirroredKeyIs
  <2>4. NewBreak(m, d) = MirroredBreak(NewBreak(e, c))
    <3> DEFINE b == [type |-> IF e.trend = "BEARISH" THEN "BULLISH_CHOCH" ELSE "BULLISH_BOS",
                     level |-> e.high.price, price |-> c.close]
    <3>1. NewBreak(e, c) = b
      BY <1>6 DEF NewBreak
    <3>2. NewBreak(m, d) = [type |-> IF m.trend = "BULLISH" THEN "BEARISH_CHOCH" ELSE "BEARISH_BOS",
                            level |-> m.low.price, price |-> d.close]
      BY <2>1 DEF NewBreak
    <3>3. b \in StructureBreaks /\ Opposite[b.type] = IF m.trend = "BULLISH" THEN "BEARISH_CHOCH" ELSE "BEARISH_BOS"
      BY <1>3, <1>5, <2>2, Opposites DEF StructureBreaks, BreakTypes, SwingPoints
    <3>4. b.level = e.high.price /\ b.price = c.close
      OBVIOUS
    <3> HIDE DEF b
    <3>5. MirroredBreak(b) = [type |-> Opposite[b.type], level |-> MirrorSum - b.level,
                              price |-> MirrorSum - b.price]
      BY <3>3, MirroredBreakIs, PriceActionAssumption
    <3> QED BY <1>3, <2>3, <3>1, <3>2, <3>3, <3>4, <3>5
  <2>5. BrokenWith(e, c) = e.broken \cup {SwingKey(e.high)} /\ BrokenWith(m, d) = m.broken \cup {SwingKey(m.low)}
    BY <1>6, <2>1 DEF BrokenWith
  <2> QED BY <1>2, <2>3, <2>4, <2>5
<1>7. CASE BreaksLow(e, c)
  <2>1. ~BreaksHigh(e, c) /\ BreaksHigh(m, d) /\ ~BreaksLow(m, d)
    BY <1>1, <1>7 DEF TwoSided
  <2>2. e.low \in SwingPoints
    BY <1>4, <1>7 DEF BreaksLow, Swing
  <2>3. m.high.price = MirrorSum - e.low.price /\ SwingKey(m.high) = MirroredKey(SwingKey(e.low))
    <3>1. e.low # None
      BY <1>7 DEF BreaksLow
    <3> QED BY <1>2, <1>4, <2>2, <3>1, MirroredSwingIs, MirroredKeyIs
  <2>4. NewBreak(m, d) = MirroredBreak(NewBreak(e, c))
    <3> DEFINE b == [type |-> IF e.trend = "BULLISH" THEN "BEARISH_CHOCH" ELSE "BEARISH_BOS",
                     level |-> e.low.price, price |-> c.close]
    <3>1. NewBreak(e, c) = b
      BY <1>7, <2>1 DEF NewBreak
    <3>2. NewBreak(m, d) = [type |-> IF m.trend = "BEARISH" THEN "BULLISH_CHOCH" ELSE "BULLISH_BOS",
                            level |-> m.high.price, price |-> d.close]
      BY <2>1 DEF NewBreak
    <3>3. b \in StructureBreaks /\ Opposite[b.type] = IF m.trend = "BEARISH" THEN "BULLISH_CHOCH" ELSE "BULLISH_BOS"
      BY <1>3, <1>5, <2>2, Opposites DEF StructureBreaks, BreakTypes, SwingPoints
    <3>4. b.level = e.low.price /\ b.price = c.close
      OBVIOUS
    <3> HIDE DEF b
    <3>5. MirroredBreak(b) = [type |-> Opposite[b.type], level |-> MirrorSum - b.level,
                              price |-> MirrorSum - b.price]
      BY <3>3, MirroredBreakIs, PriceActionAssumption
    <3> QED BY <1>3, <2>3, <3>1, <3>2, <3>3, <3>4, <3>5
  <2>5. BrokenWith(e, c) = e.broken \cup {SwingKey(e.low)} /\ BrokenWith(m, d) = m.broken \cup {SwingKey(m.high)}
    BY <1>7, <2>1 DEF BrokenWith
  <2> QED BY <1>2, <2>3, <2>4, <2>5
<1>8. CASE ~BreaksHigh(e, c) /\ ~BreaksLow(e, c)
  <2>1. ~BreaksHigh(m, d) /\ ~BreaksLow(m, d)
    BY <1>1, <1>8
  <2>2. NewBreak(m, d) = None /\ NewBreak(e, c) = None
    BY <1>8, <2>1 DEF NewBreak
  <2>3. BrokenWith(m, d) = m.broken /\ BrokenWith(e, c) = e.broken
    BY <1>8, <2>1 DEF BrokenWith
  <2> QED BY <1>2, <2>2, <2>3 DEF MirroredBreak
<1> QED BY <1>6, <1>7, <1>8

LEMMA MirroredSweep ==
  ASSUME MirrorSum \in Int, NEW e \in Engines, NEW c \in CandleRecords, ~TwoSided(e, c)
  PROVE  SweepOf(MirroredEngine(e), MirroredCandle(c)) = Opposite[SweepOf(e, c)]
<1> DEFINE m == MirroredEngine(e)
           d == MirroredCandle(c)
           Buy(f, x) == /\ f.high # None
                        /\ f.high # None => x.high > f.high.price /\ x.close <= f.high.price
                        /\ ~BreaksHigh(f, x)
           Sell(f, x) == /\ f.low # None
                         /\ f.low # None => x.low < f.low.price /\ x.close >= f.low.price
                         /\ (BreaksLow(f, x) => BreaksHigh(f, x))
           Told(buy, sell) == IF buy /\ sell THEN "BOTH_SIDES"
                              ELSE IF buy THEN "BUY_SIDE"
                              ELSE IF sell THEN "SELL_SIDE"
                              ELSE "NONE"
<1>1. (BreaksHigh(m, d) <=> BreaksLow(e, c)) /\ (BreaksLow(m, d) <=> BreaksHigh(e, c))
  BY MirroredBreaks
<1>2. m.high = MirroredSwing(e.low) /\ m.low = MirroredSwing(e.high)
  BY DEF MirroredEngine
<1>3. /\ d.close = MirrorSum - c.close /\ d.high = MirrorSum - c.low /\ d.low = MirrorSum - c.high
      /\ c.close \in Int /\ c.high \in Int /\ c.low \in Int
  BY MirroredCandleIs DEF CandleRecords
<1>4. e.high \in Swing /\ e.low \in Swing
  BY DEF Engines
<1>5. /\ m.high = None <=> e.low = None
      /\ e.low # None => m.high.price = MirrorSum - e.low.price /\ e.low.price \in Int
  <2>1. e.low # None => e.low.price \in Int
    BY <1>4 DEF Swing, SwingPoints
  <2> QED BY <1>2, <1>4, <2>1, MirroredSwingIs
<1>6. /\ m.low = None <=> e.high = None
      /\ e.high # None => m.low.price = MirrorSum - e.high.price /\ e.high.price \in Int
  <2>1. e.high # None => e.high.price \in Int
    BY <1>4 DEF Swing, SwingPoints
  <2> QED BY <1>2, <1>4, <2>1, MirroredSwingIs
<1>7. SweepOf(m, d) = Told(Buy(m, d), Sell(m, d)) /\ SweepOf(e, c) = Told(Buy(e, c), Sell(e, c))
  BY DEF SweepOf
<1> SUFFICES SweepOf(m, d) = Opposite[SweepOf(e, c)]
  OBVIOUS
<1> HIDE DEF m, d
<1>8. Buy(m, d) <=> Sell(e, c)
  BY <1>1, <1>3, <1>5 DEF TwoSided
<1>9. Sell(m, d) <=> Buy(e, c)
  BY <1>1, <1>3, <1>6 DEF TwoSided
<1> HIDE DEF Buy, Sell
<1> QED BY <1>7, <1>8, <1>9, Opposites


LEMMA MirroredCandlesAre ==
  ASSUME MirrorSum \in Int, NEW cs \in Seq(CandleRecords)
  PROVE  LET ms == MirroredCandles(cs)
         IN  /\ ms \in Seq(CandleRecords) /\ Len(ms) = Len(cs)
             /\ \A i \in 1..Len(cs) : ms[i] = MirroredCandle(cs[i])
<1> DEFINE n == Len(cs)
           ms == [i \in 1..n |-> MirroredCandle(cs[i])]
<1>1. n \in Nat /\ \A i \in 1..n : cs[i] \in CandleRecords
  BY ElementOfSeq
<1>2. \A i \in 1..n : MirroredCandle(cs[i]) \in CandleRecords
  BY <1>1, MirroredCandleIs
<1>3. MirroredCandles(cs) = ms
  BY DEF MirroredCandles
<1> HIDE DEF n
<1>4. ms \in Seq(CandleRecords) /\ Len(ms) = n /\ \A i \in 1..n : ms[i] = MirroredCandle(cs[i])
  BY <1>1, <1>2
<1> QED BY <1>3, <1>4 DEF n

LEMMA MirroredAppend ==
  ASSUME MirrorSum \in Int, NEW cs \in Seq(CandleRecords), NEW c \in CandleRecords
  PROVE  MirroredCandles(Append(cs, c)) = Append(MirroredCandles(cs), MirroredCandle(c))
<1> DEFINE n == Len(cs)
           ds == Append(cs, c)
           ms == MirroredCandles(cs)
           d == MirroredCandle(c)
           left == MirroredCandles(ds)
           right == Append(ms, d)
<1>1. n \in Nat /\ ds \in Seq(CandleRecords) /\ Len(ds) = n + 1 /\ ds[n + 1] = c
      /\ \A i \in 1..n : ds[i] = cs[i]
  OBVIOUS
<1>2. ms \in Seq(CandleRecords) /\ Len(ms) = n /\ \A i \in 1..n : ms[i] = MirroredCandle(cs[i])
  BY MirroredCandlesAre
<1>3. d \in CandleRecords
  BY MirroredCandleIs
<1> SUFFICES left = right
  OBVIOUS
<1> HIDE DEF n, ds, ms
<1>4. left \in Seq(CandleRecords) /\ Len(left) = n + 1 /\ \A i \in 1..n + 1 : left[i] = MirroredCandle(ds[i])
  BY <1>1, MirroredCandlesAre
<1>5. right \in Seq(CandleRecords) /\ Len(right) = n + 1 /\ right[n + 1] = d /\ \A i \in 1..n : right[i] = ms[i]
  <2> HIDE DEF d
  <2> QED BY <1>1, <1>2, <1>3
<1>6. \A i \in 1..n + 1 : left[i] = right[i]
  <2> HIDE DEF left, right
  <2>1. \A i \in 1..n + 1 : i = n + 1 \/ i \in 1..n
    BY <1>1
  <2> QED BY <1>1, <1>2, <1>4, <1>5, <2>1
<1> HIDE DEF left, right
<1> QED BY <1>4, <1>5, <1>6, SeqEqual

LEMMA SamePoint ==
  ASSUME NEW s \in SwingPoints, NEW t \in SwingPoints,
         s.type = t.type, s.structure = t.structure, s.price = t.price, s.index = t.index
  PROVE  s = t
BY DEF SwingPoints

LEMMA Mirroring ==
  ASSUME NEW m \in Int, NEW a \in Int, NEW b \in Int
  PROVE  (m - a > m - b <=> a < b) /\ (m - a < m - b <=> a > b)
OBVIOUS

LEMMA MirroredConfirmed ==
  ASSUME MirrorSum \in Int, NEW cs \in Seq(CandleRecords)
  PROVE  ConfirmedSwing(MirroredCandles(cs)) = MirroredSwing(ConfirmedSwing(cs))
<1> DEFINE ms == MirroredCandles(cs)
           n == Len(cs)
           i == n - RightBars
           others == (i - LeftBars..i + RightBars) \ {i}
           High(ds) == \A j \in others : ds[i].high > ds[j].high
           Low(ds) == \A j \in others : ds[i].low < ds[j].low
           Found(ds) == IF i <= LeftBars THEN None
                        ELSE IF High(ds) = Low(ds) THEN None
                        ELSE IF High(ds) THEN SwingPoint("HIGH", None, ds[i].high, i)
                        ELSE SwingPoint("LOW", None, ds[i].low, i)
<1>1. /\ n \in Nat /\ \A j \in 1..n : cs[j] \in CandleRecords
      /\ ms \in Seq(CandleRecords) /\ Len(ms) = n /\ \A j \in 1..n : ms[j] = MirroredCandle(cs[j])
  BY ElementOfSeq, MirroredCandlesAre
<1>2. LeftBars \in Nat /\ RightBars \in Nat
  BY PriceActionAssumption
<1>3. ConfirmedSwing(cs) = Found(cs)
  BY DEF ConfirmedSwing
<1>4. ConfirmedSwing(ms) = Found(ms)
  <2> HIDE DEF ms
  <2>1. Len(ms) = n
    BY <1>1
  <2> HIDE DEF n
  <2> QED BY <2>1 DEF ConfirmedSwing
<1>5. \A j \in 1..n : /\ ms[j].high = MirrorSum - cs[j].low /\ ms[j].low = MirrorSum - cs[j].high
                      /\ cs[j].low \in Int /\ cs[j].high \in Int
  <2> SUFFICES ASSUME NEW j \in 1..n
               PROVE  /\ ms[j].high = MirrorSum - cs[j].low /\ ms[j].low = MirrorSum - cs[j].high
                      /\ cs[j].low \in Int /\ cs[j].high \in Int
    OBVIOUS
  <2>1. cs[j] \in CandleRecords /\ ms[j] = MirroredCandle(cs[j])
    BY <1>1
  <2> QED BY <2>1, MirroredCandleIs DEF CandleRecords
<1> SUFFICES Found(ms) = MirroredSwing(Found(cs))
  BY <1>3, <1>4
<1> HIDE DEF ms, n
<1>6. CASE i <= LeftBars
  BY <1>6 DEF MirroredSwing
<1>7. CASE ~(i <= LeftBars)
  <2>1. i \in 1..n /\ others \subseteq 1..n
    BY <1>1, <1>2, <1>7
  <2> HIDE DEF i, others
  <2>7. i \in Nat /\ ms[i].high \in Int /\ ms[i].low \in Int
    <3>1. n \in Nat
      BY <1>1
    <3>2. /\ ms[i].high = MirrorSum - cs[i].low /\ ms[i].low = MirrorSum - cs[i].high
          /\ cs[i].low \in Int /\ cs[i].high \in Int
      BY <1>5, <2>1
    <3> QED BY <2>1, <3>1, <3>2
  <2>2. (High(ms) <=> Low(cs)) /\ (Low(ms) <=> High(cs))
    <3>1. ASSUME NEW j \in others
          PROVE  /\ ms[i].high > ms[j].high <=> cs[i].low < cs[j].low
                 /\ ms[i].low < ms[j].low <=> cs[i].high > cs[j].high
      <4>1. /\ ms[i].high = MirrorSum - cs[i].low /\ ms[i].low = MirrorSum - cs[i].high
            /\ ms[j].high = MirrorSum - cs[j].low /\ ms[j].low = MirrorSum - cs[j].high
            /\ cs[i].low \in Int /\ cs[i].high \in Int /\ cs[j].low \in Int /\ cs[j].high \in Int
        BY <1>5, <2>1
      <4>2. (MirrorSum - cs[i].low > MirrorSum - cs[j].low <=> cs[i].low < cs[j].low)
        BY <4>1, Mirroring
      <4>3. (MirrorSum - cs[i].high < MirrorSum - cs[j].high <=> cs[i].high > cs[j].high)
        BY <4>1, Mirroring
      <4> QED BY <4>1, <4>2, <4>3, Zenon
    <3>2. \A j \in others : ms[i].high > ms[j].high <=> cs[i].low < cs[j].low
      BY <3>1
    <3>3. \A j \in others : ms[i].low < ms[j].low <=> cs[i].high > cs[j].high
      BY <3>1
    <3>4. High(ms) <=> Low(cs)
      BY <3>2, Zenon
    <3>5. Low(ms) <=> High(cs)
      BY <3>3, Zenon
    <3> QED BY <3>4, <3>5
  <2>3. High(ms) \in BOOLEAN /\ Low(ms) \in BOOLEAN /\ High(cs) \in BOOLEAN /\ Low(cs) \in BOOLEAN
    OBVIOUS
  <2> HIDE DEF High, Low
  <2>4. CASE High(cs) = Low(cs)
    BY <1>7, <2>2, <2>3, <2>4 DEF MirroredSwing
  <2>5. CASE High(cs) # Low(cs) /\ High(cs)
    <3> DEFINE s == SwingPoint("HIGH", None, cs[i].high, i)
    <3>1. Found(cs) = s /\ Found(ms) = SwingPoint("LOW", None, ms[i].low, i)
      BY <1>7, <2>2, <2>3, <2>5
    <3>2. s \in SwingPoints
      BY <1>1, <1>5, <2>1 DEF SwingPoint, SwingPoints
    <3> DEFINE t == SwingPoint("LOW", None, ms[i].low, i)
    <3>3. /\ s # None /\ s.type = "HIGH" /\ s.structure = None /\ s.index = i
          /\ MirrorSum - s.price = ms[i].low
      BY <1>5, <2>1, <3>2, PriceActionAssumption DEF SwingPoint
    <3>5. t \in SwingPoints /\ t.type = "LOW" /\ t.structure = None /\ t.index = i /\ t.price = ms[i].low
      BY <2>7 DEF SwingPoint, SwingPoints
    <3> HIDE DEF s, t
    <3>6. /\ MirroredSwing(s) \in SwingPoints /\ MirroredSwing(s).type = "LOW"
          /\ MirroredSwing(s).structure = None /\ MirroredSwing(s).index = i
          /\ MirroredSwing(s).price = ms[i].low
      BY <3>2, <3>3, MirroredSwingIs, Opposites DEF Swing
    <3>4. MirroredSwing(s) = t
      BY <3>5, <3>6, SamePoint
    <3> QED BY <3>1, <3>4 DEF t
  <2>6. CASE High(cs) # Low(cs) /\ ~High(cs)
    <3> DEFINE s == SwingPoint("LOW", None, cs[i].low, i)
    <3>1. Found(cs) = s /\ Found(ms) = SwingPoint("HIGH", None, ms[i].high, i)
      BY <1>7, <2>2, <2>3, <2>6
    <3>2. s \in SwingPoints
      BY <1>1, <1>5, <2>1 DEF SwingPoint, SwingPoints
    <3> DEFINE t == SwingPoint("HIGH", None, ms[i].high, i)
    <3>3. /\ s # None /\ s.type = "LOW" /\ s.structure = None /\ s.index = i
          /\ MirrorSum - s.price = ms[i].high
      BY <1>5, <2>1, <3>2, PriceActionAssumption DEF SwingPoint
    <3>5. t \in SwingPoints /\ t.type = "HIGH" /\ t.structure = None /\ t.index = i /\ t.price = ms[i].high
      BY <2>7 DEF SwingPoint, SwingPoints
    <3> HIDE DEF s, t
    <3>6. /\ MirroredSwing(s) \in SwingPoints /\ MirroredSwing(s).type = "HIGH"
          /\ MirroredSwing(s).structure = None /\ MirroredSwing(s).index = i
          /\ MirroredSwing(s).price = ms[i].high
      BY <3>2, <3>3, MirroredSwingIs, Opposites DEF Swing
    <3>4. MirroredSwing(s) = t
      BY <3>5, <3>6, SamePoint
    <3> QED BY <3>1, <3>4 DEF t
  <2> QED BY <2>4, <2>5, <2>6
<1> QED BY <1>6, <1>7

(* A label and its mirror image.                                            *)
LEMMA MirroredStructure ==
  ASSUME MirrorSum \in Int, NEW previous \in Swing, NEW price \in Int,
         NEW higher \in StructureTypes, NEW lower \in StructureTypes, NEW equal \in StructureTypes
  PROVE  LET label == Structure(previous, price, higher, lower, equal)
         IN  Structure(MirroredSwing(previous), MirrorSum - price, Opposite[lower], Opposite[higher],
                       Opposite[equal])
               = IF label = None THEN None ELSE Opposite[label]
<1>1. None \notin StructureTypes
  BY PriceActionAssumption
<1>2. CASE previous = None
  <2>1. MirroredSwing(previous) = None
    BY <1>2, MirroredSwingIs
  <2> QED BY <1>2, <2>1 DEF Structure
<1>3. CASE previous # None
  <2>1. MirroredSwing(previous) # None /\ MirroredSwing(previous).price = MirrorSum - previous.price
    BY <1>3, MirroredSwingIs
  <2>2. previous.price \in Int
    BY <1>3 DEF Swing, SwingPoints
  <2>3. CASE price > previous.price
    BY <1>1, <1>3, <2>1, <2>2, <2>3 DEF Structure
  <2>4. CASE price < previous.price
    BY <1>1, <1>3, <2>1, <2>2, <2>4 DEF Structure
  <2>5. CASE price = previous.price
    BY <1>1, <1>3, <2>1, <2>2, <2>5 DEF Structure
  <2> QED BY <2>2, <2>3, <2>4, <2>5
<1> QED BY <1>2, <1>3

LEMMA MirroredLabelled ==
  ASSUME MirrorSum \in Int, NEW s \in SwingPoints, NEW label \in StructureTypes \cup {None}
  PROVE  /\ [s EXCEPT !.structure = label] \in SwingPoints
         /\ MirroredSwing([s EXCEPT !.structure = label])
              = [MirroredSwing(s) EXCEPT !.structure = IF label = None THEN None ELSE Opposite[label]]
<1> DEFINE new == [s EXCEPT !.structure = label]
           l == IF label = None THEN None ELSE Opposite[label]
           t == Opposite[s.type]
           p == MirrorSum - s.price
           k == IF s.structure = None THEN None ELSE Opposite[s.structure]
<1>1. new \in SwingPoints /\ new.type = s.type /\ new.index = s.index /\ new.price = s.price
      /\ new.structure = label
  BY DEF SwingPoints
<1>2. s # None /\ new # None
  BY <1>1, PriceActionAssumption
<1>3. MirroredSwing(s) = [s EXCEPT !.type = t, !.price = p, !.structure = k]
  BY <1>2 DEF MirroredSwing
<1>4. MirroredSwing(new) = [new EXCEPT !.type = t, !.price = p, !.structure = l]
  <2>1. MirroredSwing(new) = [new EXCEPT !.type = Opposite[@], !.price = MirrorSum - @,
                                         !.structure = IF @ = None THEN None ELSE Opposite[@]]
    BY <1>2, Zenon DEF MirroredSwing
  <2> HIDE DEF l, t, p, new
  <2> QED BY <1>1, <2>1 DEF l, t, p
<1> SUFFICES MirroredSwing(new) = [MirroredSwing(s) EXCEPT !.structure = l]
  BY <1>1
<1>5. [MirroredSwing(s) EXCEPT !.structure = l] = [s EXCEPT !.type = t, !.price = p, !.structure = l]
  <2> HIDE DEF l, t, p, k
  <2> QED BY <1>3 DEF SwingPoints
<1>6. [new EXCEPT !.type = t, !.price = p, !.structure = l] = [s EXCEPT !.type = t, !.price = p, !.structure = l]
  <2> HIDE DEF l, t, p, k
  <2> QED OBVIOUS
<1> QED BY <1>4, <1>5, <1>6


LEMMA SameEngine ==
  ASSUME NEW d \in Engines, NEW e \in Engines,
         d.candles = e.candles, d.state = e.state,
         d.high = e.high, d.previousHigh = e.previousHigh, d.low = e.low, d.previousLow = e.previousLow,
         d.hh = e.hh, d.hl = e.hl, d.lh = e.lh, d.ll = e.ll,
         d.break = e.break, d.sweep = e.sweep, d.trend = e.trend, d.broken = e.broken
  PROVE  d = e
BY DEF Engines

LEMMA SameState ==
  ASSUME NEW s \in States, NEW t \in States,
         s.count = t.count, s.last = t.last, s.trend = t.trend, s.high = t.high, s.low = t.low,
         s.previousHigh = t.previousHigh, s.previousLow = t.previousLow, s.break = t.break,
         s.directions = t.directions, s.hh = t.hh, s.hl = t.hl, s.lh = t.lh, s.ll = t.ll,
         s.range = t.range, s.pullback = t.pullback, s.sweep = t.sweep
  PROVE  s = t
BY DEF States

LEMMA MirroredDirections ==
  ASSUME NEW d \in [bos : Directions, choch : Directions]
  PROVE  [bos |-> Opposite[d.bos], choch |-> Opposite[d.choch]] \in [bos : Directions, choch : Directions]
BY Opposites DEF Directions

LEMMA MirroredStateTyped ==
  ASSUME MirrorSum \in Int, NEW s \in States
  PROVE  LET m == MirroredState(s)
         IN  /\ m \in States
             /\ m.count = s.count /\ m.last = MirroredCandle(s.last) /\ m.trend = Opposite[s.trend]
             /\ m.high = MirroredSwing(s.low) /\ m.low = MirroredSwing(s.high)
             /\ m.previousHigh = MirroredSwing(s.previousLow)
             /\ m.previousLow = MirroredSwing(s.previousHigh)
             /\ m.break = MirroredBreak(s.break)
             /\ m.directions = [bos |-> Opposite[s.directions.bos], choch |-> Opposite[s.directions.choch]]
             /\ m.hh = MirroredSwing(s.ll) /\ m.hl = MirroredSwing(s.lh)
             /\ m.lh = MirroredSwing(s.hl) /\ m.ll = MirroredSwing(s.hh)
             /\ m.range = s.range /\ m.pullback = Opposite[s.pullback] /\ m.sweep = Opposite[s.sweep]
<1> DEFINE last == MirroredCandle(s.last)
           trend == Opposite[s.trend]
           high == MirroredSwing(s.low)
           low == MirroredSwing(s.high)
           previousHigh == MirroredSwing(s.previousLow)
           previousLow == MirroredSwing(s.previousHigh)
           break == MirroredBreak(s.break)
           directions == [bos |-> Opposite[s.directions.bos], choch |-> Opposite[s.directions.choch]]
           hh == MirroredSwing(s.ll)
           hl == MirroredSwing(s.lh)
           lh == MirroredSwing(s.hl)
           ll == MirroredSwing(s.hh)
           pullback == Opposite[s.pullback]
           sweep == Opposite[s.sweep]
<1>1. MirroredState(s) =
        [count |-> s.count, last |-> last, trend |-> trend, high |-> high, low |-> low,
         previousHigh |-> previousHigh, previousLow |-> previousLow, break |-> break,
         directions |-> directions, hh |-> hh, hl |-> hl, lh |-> lh, ll |-> ll,
         range |-> s.range, pullback |-> pullback, sweep |-> sweep]
  BY PriceActionAssumption DEF MirroredState
<1>2. last \in CandleRecords
  BY MirroredCandleIs DEF States
<1>3. /\ high \in Swing /\ low \in Swing /\ previousHigh \in Swing /\ previousLow \in Swing
      /\ hh \in Swing /\ hl \in Swing /\ lh \in Swing /\ ll \in Swing
  <2>1. /\ s.high \in Swing /\ s.low \in Swing /\ s.previousHigh \in Swing /\ s.previousLow \in Swing
        /\ s.hh \in Swing /\ s.hl \in Swing /\ s.lh \in Swing /\ s.ll \in Swing
    BY DEF States
  <2> QED BY <2>1, MirroredSwingIs
<1>4. break \in StructureBreaks \cup {None}
  BY MirroredBreakIs DEF States
<1>5. directions \in [bos : Directions, choch : Directions]
  BY MirroredDirections DEF States
<1>6. /\ trend \in Trends /\ sweep \in Sweeps
      /\ pullback \in {"NONE", "BULLISH_PULLBACK", "BEARISH_PULLBACK"}
  BY Opposites DEF States, Trends, Sweeps
<1>7. s.count \in Nat /\ s.range \in BOOLEAN
  BY DEF States
<1> HIDE DEF last, trend, high, low, previousHigh, previousLow, break, directions, hh, hl, lh, ll,
             pullback, sweep
<1>8. /\ MirroredState(s) \in States
      /\ MirroredState(s).count = s.count /\ MirroredState(s).last = last /\ MirroredState(s).trend = trend
      /\ MirroredState(s).high = high /\ MirroredState(s).low = low
      /\ MirroredState(s).previousHigh = previousHigh /\ MirroredState(s).previousLow = previousLow
      /\ MirroredState(s).break = break /\ MirroredState(s).directions = directions
      /\ MirroredState(s).hh = hh /\ MirroredState(s).hl = hl /\ MirroredState(s).lh = lh
      /\ MirroredState(s).ll = ll /\ MirroredState(s).range = s.range
      /\ MirroredState(s).pullback = pullback /\ MirroredState(s).sweep = sweep
  BY <1>1, <1>2, <1>3, <1>4, <1>5, <1>6, <1>7 DEF States
<1> QED BY <1>8 DEF last, trend, high, low, previousHigh, previousLow, break, directions, hh, hl, lh,
                    ll, pullback, sweep

LEMMA MirroredEngineTyped ==
  ASSUME MirrorSum \in Int, NEW e \in Engines
  PROVE  LET m == MirroredEngine(e)
         IN  /\ m \in Engines
             /\ m.candles = MirroredCandles(e.candles) /\ m.state = MirroredState(e.state)
             /\ m.high = MirroredSwing(e.low) /\ m.previousHigh = MirroredSwing(e.previousLow)
             /\ m.low = MirroredSwing(e.high) /\ m.previousLow = MirroredSwing(e.previousHigh)
             /\ m.hh = MirroredSwing(e.ll) /\ m.hl = MirroredSwing(e.lh)
             /\ m.lh = MirroredSwing(e.hl) /\ m.ll = MirroredSwing(e.hh)
             /\ m.break = MirroredBreak(e.break) /\ m.sweep = Opposite[e.sweep]
             /\ m.trend = Opposite[e.trend] /\ m.broken = {MirroredKey(k) : k \in e.broken}
<1> DEFINE candles == MirroredCandles(e.candles)
           state == MirroredState(e.state)
           high == MirroredSwing(e.low)
           low == MirroredSwing(e.high)
           previousHigh == MirroredSwing(e.previousLow)
           previousLow == MirroredSwing(e.previousHigh)
           break == MirroredBreak(e.break)
           hh == MirroredSwing(e.ll)
           hl == MirroredSwing(e.lh)
           lh == MirroredSwing(e.hl)
           ll == MirroredSwing(e.hh)
           sweep == Opposite[e.sweep]
           trend == Opposite[e.trend]
           broken == {MirroredKey(k) : k \in e.broken}
<1>1. MirroredEngine(e) =
        [candles |-> candles, state |-> state, high |-> high, previousHigh |-> previousHigh,
         low |-> low, previousLow |-> previousLow, hh |-> hh, hl |-> hl, lh |-> lh, ll |-> ll,
         break |-> break, sweep |-> sweep, trend |-> trend, broken |-> broken]
  BY DEF MirroredEngine
<1>2. candles \in Seq(CandleRecords)
  BY MirroredCandlesAre DEF Engines
<1>3. /\ high \in Swing /\ low \in Swing /\ previousHigh \in Swing /\ previousLow \in Swing
      /\ hh \in Swing /\ hl \in Swing /\ lh \in Swing /\ ll \in Swing
  <2>1. /\ e.high \in Swing /\ e.low \in Swing /\ e.previousHigh \in Swing /\ e.previousLow \in Swing
        /\ e.hh \in Swing /\ e.hl \in Swing /\ e.lh \in Swing /\ e.ll \in Swing
    BY DEF Engines
  <2> QED BY <2>1, MirroredSwingIs
<1>4. break \in StructureBreaks \cup {None}
  BY MirroredBreakIs DEF Engines
<1>5. state \in States \cup {None}
  <2>1. e.state \in States \/ e.state = None
    BY DEF Engines
  <2>2. MirroredState(None) = None
    BY DEF MirroredState
  <2> QED BY <2>1, <2>2, MirroredStateTyped
<1>6. trend \in Trends /\ sweep \in Sweeps
  BY Opposites DEF Engines, Trends, Sweeps
<1>7. broken \in SUBSET SwingKeys
  BY MirroredKeyIs DEF Engines
<1> HIDE DEF candles, state, high, low, previousHigh, previousLow, break, hh, hl, lh, ll, sweep, trend, broken
<1>8. /\ MirroredEngine(e) \in Engines
      /\ MirroredEngine(e).candles = candles /\ MirroredEngine(e).state = state
      /\ MirroredEngine(e).high = high /\ MirroredEngine(e).previousHigh = previousHigh
      /\ MirroredEngine(e).low = low /\ MirroredEngine(e).previousLow = previousLow
      /\ MirroredEngine(e).hh = hh /\ MirroredEngine(e).hl = hl
      /\ MirroredEngine(e).lh = lh /\ MirroredEngine(e).ll = ll
      /\ MirroredEngine(e).break = break /\ MirroredEngine(e).sweep = sweep
      /\ MirroredEngine(e).trend = trend /\ MirroredEngine(e).broken = broken
  BY <1>1, <1>2, <1>3, <1>4, <1>5, <1>6, <1>7 DEF Engines
<1> QED BY <1>8 DEF candles, state, high, low, previousHigh, previousLow, break, hh, hl, lh, ll, sweep,
                    trend, broken


LEMMA MirroredSwung ==
  ASSUME MirrorSum \in Int, NEW e \in Engines
  PROVE  Swung(MirroredEngine(e)) = MirroredEngine(Swung(e))
<1> DEFINE m == MirroredEngine(e)
           s == ConfirmedSwing(e.candles)
           t == ConfirmedSwing(m.candles)
<1>1. t = MirroredSwing(s)
  BY MirroredConfirmed DEF MirroredEngine, Engines
<1>2. s \in Swing /\ (s # None => s \in SwingPoints /\ s.structure = None)
  BY ConfirmedSwingTyped DEF Swing, Engines
<1>3. t = None <=> s = None
  BY <1>1, <1>2, MirroredSwingIs
<1>4. s # None => t.type = Opposite[s.type] /\ t.price = MirrorSum - s.price
  BY <1>1, <1>2, MirroredSwingIs
<1>5. e.high \in Swing /\ e.low \in Swing /\ None \notin StructureTypes
  BY PriceActionAssumption DEF Engines
<1> SUFFICES Swung(m) = MirroredEngine(Swung(e))
  OBVIOUS
<1>6. CASE s = None
  <2>1. Swung(m) = m /\ Swung(e) = e
    BY <1>3, <1>6, Zenon DEF Swung
  <2> QED BY <2>1
<1>7. CASE s # None /\ s.type = "HIGH"
  <2> DEFINE label == Structure(e.high, s.price, "HIGHER_HIGH", "LOWER_HIGH", "EQUAL_HIGH")
             new == [s EXCEPT !.structure = label]
             hh == IF new.structure = "HIGHER_HIGH" THEN new ELSE e.hh
             lh == IF new.structure = "LOWER_HIGH" THEN new ELSE e.lh
             mlabel == Structure(m.low, t.price, "HIGHER_LOW", "LOWER_LOW", "EQUAL_LOW")
             mnew == [t EXCEPT !.structure = mlabel]
             hl == IF mnew.structure = "HIGHER_LOW" THEN mnew ELSE m.hl
             ll == IF mnew.structure = "LOWER_LOW" THEN mnew ELSE m.ll
  <2>1. label \in StructureTypes \cup {None}
    BY StructureTyped DEF StructureTypes
  <2>2. mlabel = IF label = None THEN None ELSE Opposite[label]
    <3>1. m.low = MirroredSwing(e.high)
      BY DEF MirroredEngine
    <3>2. /\ "HIGHER_HIGH" \in StructureTypes /\ "LOWER_HIGH" \in StructureTypes /\ "EQUAL_HIGH" \in StructureTypes
          /\ Opposite["LOWER_HIGH"] = "HIGHER_LOW" /\ Opposite["HIGHER_HIGH"] = "LOWER_LOW"
          /\ Opposite["EQUAL_HIGH"] = "EQUAL_LOW"
      BY Opposites DEF StructureTypes
    <3>3. s.price \in Int /\ t.price = MirrorSum - s.price
      BY <1>2, <1>4, <1>7 DEF SwingPoints
    <3> QED BY <1>5, <3>1, <3>2, <3>3, MirroredStructure
  <2>3. Swung(e) = [e EXCEPT !.previousHigh = e.high, !.high = new, !.hh = hh, !.lh = lh]
    BY <1>7 DEF Swung, SwungHigh
  <2>4. t # None /\ t.type = "LOW"
    BY <1>3, <1>4, <1>7, Opposites
  <2>5. Swung(m) = [m EXCEPT !.previousLow = m.low, !.low = mnew, !.hl = hl, !.ll = ll]
    BY <2>4 DEF Swung, SwungLow
  <2>6. mnew = MirroredSwing(new) /\ new \in SwingPoints
    <3> HIDE DEF label, mlabel, s, t
    <3> QED BY <1>1, <1>2, <1>7, <2>1, <2>2, MirroredLabelled
  <2>7. new.structure = label /\ mnew.structure = mlabel
    <3>1. mnew.structure = IF new.structure = None THEN None ELSE Opposite[new.structure]
      <4> HIDE DEF mnew, new
      <4> QED BY <2>6, PriceActionAssumption, MirroredSwingIs DEF Swing
    <3>2. new.structure = label
      <4> HIDE DEF label, s
      <4> QED BY <1>2, <1>7 DEF SwingPoints
    <3> HIDE DEF mnew, new, label, mlabel
    <3> QED BY <2>2, <3>1, <3>2
  <2>8. /\ mlabel = "HIGHER_LOW" <=> label = "LOWER_HIGH"
        /\ mlabel = "LOWER_LOW" <=> label = "HIGHER_HIGH"
    <3> HIDE DEF mlabel, label
    <3> QED BY <1>5, <2>1, <2>2, Opposites DEF StructureTypes
  <2> HIDE DEF new, mnew, label, mlabel
  <2>9. hl = MirroredSwing(lh) /\ ll = MirroredSwing(hh)
    <3>1. m.hl = MirroredSwing(e.lh) /\ m.ll = MirroredSwing(e.hh)
      BY DEF MirroredEngine
    <3> HIDE DEF m
    <3> QED BY <2>6, <2>7, <2>8, <3>1
  <2>10. m.low = MirroredSwing(e.high)
    BY DEF MirroredEngine
  <2> HIDE DEF hh, lh, hl, ll, s, t
  <2>11. /\ new \in Swing /\ hh \in Swing /\ lh \in Swing /\ hl \in Swing /\ ll \in Swing
         /\ mnew \in Swing
    <3>1. hh \in Swing /\ lh \in Swing
      BY <2>6 DEF hh, lh, Swing, Engines
    <3> QED BY <2>6, <2>9, <3>1, MirroredSwingIs DEF Swing
  <2> DEFINE f == [e EXCEPT !.previousHigh = e.high, !.high = new, !.hh = hh, !.lh = lh]
             g == [m EXCEPT !.previousLow = m.low, !.low = mnew, !.hl = hl, !.ll = ll]
  <2>12. /\ f \in Engines /\ f.previousHigh = e.high /\ f.high = new /\ f.hh = hh /\ f.lh = lh
         /\ f.candles = e.candles /\ f.state = e.state /\ f.low = e.low /\ f.previousLow = e.previousLow
         /\ f.hl = e.hl /\ f.ll = e.ll /\ f.break = e.break /\ f.sweep = e.sweep
         /\ f.trend = e.trend /\ f.broken = e.broken
    BY <2>11 DEF Engines
  <2>13. m \in Engines
    BY MirroredEngineTyped
  <2> HIDE DEF m
  <2>14. /\ g \in Engines /\ g.previousLow = m.low /\ g.low = mnew /\ g.hl = hl /\ g.ll = ll
         /\ g.candles = m.candles /\ g.state = m.state /\ g.high = m.high /\ g.previousHigh = m.previousHigh
         /\ g.hh = m.hh /\ g.lh = m.lh /\ g.break = m.break /\ g.sweep = m.sweep
         /\ g.trend = m.trend /\ g.broken = m.broken
    BY <2>11, <2>13 DEF Engines
  <2> HIDE DEF f, g
  <2>15. g = MirroredEngine(f)
    <3> DEFINE image == MirroredEngine(f)
    <3>1. /\ image \in Engines
          /\ image.candles = m.candles /\ image.state = m.state
          /\ image.high = m.high /\ image.previousHigh = m.previousHigh
          /\ image.low = MirroredSwing(new) /\ image.previousLow = MirroredSwing(e.high)
          /\ image.hl = MirroredSwing(lh) /\ image.ll = MirroredSwing(hh)
          /\ image.hh = m.hh /\ image.lh = m.lh /\ image.break = m.break
          /\ image.sweep = m.sweep /\ image.trend = m.trend /\ image.broken = m.broken
      BY <2>12, MirroredEngineTyped DEF m
    <3> HIDE DEF image
    <3> QED BY <2>6, <2>9, <2>10, <2>14, <3>1, SameEngine DEF image
  <2> QED BY <2>3, <2>5, <2>15 DEF f, g
<1>8. CASE s # None /\ s.type # "HIGH"
  <2> DEFINE label == Structure(e.low, s.price, "HIGHER_LOW", "LOWER_LOW", "EQUAL_LOW")
             new == [s EXCEPT !.structure = label]
             hl == IF new.structure = "HIGHER_LOW" THEN new ELSE e.hl
             ll == IF new.structure = "LOWER_LOW" THEN new ELSE e.ll
             mlabel == Structure(m.high, t.price, "HIGHER_HIGH", "LOWER_HIGH", "EQUAL_HIGH")
             mnew == [t EXCEPT !.structure = mlabel]
             hh == IF mnew.structure = "HIGHER_HIGH" THEN mnew ELSE m.hh
             lh == IF mnew.structure = "LOWER_HIGH" THEN mnew ELSE m.lh
  <2>1. label \in StructureTypes \cup {None}
    BY StructureTyped DEF StructureTypes
  <2>2. mlabel = IF label = None THEN None ELSE Opposite[label]
    <3>1. m.high = MirroredSwing(e.low)
      BY DEF MirroredEngine
    <3>2. /\ "HIGHER_LOW" \in StructureTypes /\ "LOWER_LOW" \in StructureTypes /\ "EQUAL_LOW" \in StructureTypes
          /\ Opposite["LOWER_LOW"] = "HIGHER_HIGH" /\ Opposite["HIGHER_LOW"] = "LOWER_HIGH"
          /\ Opposite["EQUAL_LOW"] = "EQUAL_HIGH"
      BY Opposites DEF StructureTypes
    <3>3. s.price \in Int /\ t.price = MirrorSum - s.price
      BY <1>2, <1>4, <1>8 DEF SwingPoints
    <3> QED BY <1>5, <3>1, <3>2, <3>3, MirroredStructure
  <2>3. Swung(e) = [e EXCEPT !.previousLow = e.low, !.low = new, !.hl = hl, !.ll = ll]
    BY <1>8 DEF Swung, SwungLow
  <2>4. t # None /\ t.type = "HIGH"
    <3>1. s.type = "LOW"
      BY <1>2, <1>8 DEF SwingPoints
    <3> QED BY <1>3, <1>4, <1>8, <3>1, Opposites
  <2>5. Swung(m) = [m EXCEPT !.previousHigh = m.high, !.high = mnew, !.hh = hh, !.lh = lh]
    BY <2>4 DEF Swung, SwungHigh
  <2>6. mnew = MirroredSwing(new) /\ new \in SwingPoints
    <3> HIDE DEF label, mlabel, s, t
    <3> QED BY <1>1, <1>2, <1>8, <2>1, <2>2, MirroredLabelled
  <2>7. new.structure = label /\ mnew.structure = mlabel
    <3>1. mnew.structure = IF new.structure = None THEN None ELSE Opposite[new.structure]
      <4> HIDE DEF mnew, new
      <4> QED BY <2>6, PriceActionAssumption, MirroredSwingIs DEF Swing
    <3>2. new.structure = label
      <4> HIDE DEF label, s
      <4> QED BY <1>2, <1>8 DEF SwingPoints
    <3> HIDE DEF mnew, new, label, mlabel
    <3> QED BY <2>2, <3>1, <3>2
  <2>8. /\ mlabel = "HIGHER_HIGH" <=> label = "LOWER_LOW"
        /\ mlabel = "LOWER_HIGH" <=> label = "HIGHER_LOW"
    <3> HIDE DEF mlabel, label
    <3> QED BY <1>5, <2>1, <2>2, Opposites DEF StructureTypes
  <2> HIDE DEF new, mnew, label, mlabel
  <2>9. hh = MirroredSwing(ll) /\ lh = MirroredSwing(hl)
    <3>1. m.hh = MirroredSwing(e.ll) /\ m.lh = MirroredSwing(e.hl)
      BY DEF MirroredEngine
    <3> HIDE DEF m
    <3> QED BY <2>6, <2>7, <2>8, <3>1
  <2>10. m.high = MirroredSwing(e.low)
    BY DEF MirroredEngine
  <2> HIDE DEF hh, lh, hl, ll, s, t
  <2>11. /\ new \in Swing /\ hl \in Swing /\ ll \in Swing /\ hh \in Swing /\ lh \in Swing
         /\ mnew \in Swing
    <3>1. hl \in Swing /\ ll \in Swing
      BY <2>6 DEF hl, ll, Swing, Engines
    <3> QED BY <2>6, <2>9, <3>1, MirroredSwingIs DEF Swing
  <2> DEFINE f == [e EXCEPT !.previousLow = e.low, !.low = new, !.hl = hl, !.ll = ll]
             g == [m EXCEPT !.previousHigh = m.high, !.high = mnew, !.hh = hh, !.lh = lh]
  <2>12. /\ f \in Engines /\ f.previousLow = e.low /\ f.low = new /\ f.hl = hl /\ f.ll = ll
         /\ f.candles = e.candles /\ f.state = e.state /\ f.high = e.high /\ f.previousHigh = e.previousHigh
         /\ f.hh = e.hh /\ f.lh = e.lh /\ f.break = e.break /\ f.sweep = e.sweep
         /\ f.trend = e.trend /\ f.broken = e.broken
    BY <2>11 DEF Engines
  <2>13. m \in Engines
    BY MirroredEngineTyped
  <2> HIDE DEF m
  <2>14. /\ g \in Engines /\ g.previousHigh = m.high /\ g.high = mnew /\ g.hh = hh /\ g.lh = lh
         /\ g.candles = m.candles /\ g.state = m.state /\ g.low = m.low /\ g.previousLow = m.previousLow
         /\ g.hl = m.hl /\ g.ll = m.ll /\ g.break = m.break /\ g.sweep = m.sweep
         /\ g.trend = m.trend /\ g.broken = m.broken
    BY <2>11, <2>13 DEF Engines
  <2> HIDE DEF f, g
  <2>15. g = MirroredEngine(f)
    <3> DEFINE image == MirroredEngine(f)
    <3>1. /\ image \in Engines
          /\ image.candles = m.candles /\ image.state = m.state
          /\ image.low = m.low /\ image.previousLow = m.previousLow
          /\ image.high = MirroredSwing(new) /\ image.previousHigh = MirroredSwing(e.low)
          /\ image.hh = MirroredSwing(ll) /\ image.lh = MirroredSwing(hl)
          /\ image.hl = m.hl /\ image.ll = m.ll /\ image.break = m.break
          /\ image.sweep = m.sweep /\ image.trend = m.trend /\ image.broken = m.broken
      BY <2>12, MirroredEngineTyped DEF m
    <3> HIDE DEF image
    <3> QED BY <2>6, <2>9, <2>10, <2>14, <3>1, SameEngine DEF image
  <2> QED BY <2>3, <2>5, <2>15 DEF f, g
<1> QED BY <1>6, <1>7, <1>8


LEMMA MirroredTrend ==
  ASSUME MirrorSum \in Int, NEW high \in Swing, NEW low \in Swing
  PROVE  TrendOf(MirroredSwing(low), MirroredSwing(high)) = Opposite[TrendOf(high, low)]
<1> DEFINE mh == MirroredSwing(low)
           ml == MirroredSwing(high)
<1>1. /\ mh = None <=> low = None
      /\ low # None => mh.structure = IF low.structure = None THEN None ELSE Opposite[low.structure]
  BY MirroredSwingIs
<1>2. /\ ml = None <=> high = None
      /\ high # None => ml.structure = IF high.structure = None THEN None ELSE Opposite[high.structure]
  BY MirroredSwingIs
<1>3. /\ high # None => high.structure \in StructureTypes \cup {None}
      /\ low # None => low.structure \in StructureTypes \cup {None}
      /\ None \notin StructureTypes
  BY PriceActionAssumption DEF Swing, SwingPoints
<1> SUFFICES TrendOf(mh, ml) = Opposite[TrendOf(high, low)]
  OBVIOUS
<1> HIDE DEF mh, ml
<1>4. \A l \in StructureTypes : /\ Opposite[l] \in StructureTypes
                                /\ Opposite[l] = "HIGHER_HIGH" <=> l = "LOWER_LOW"
                                /\ Opposite[l] = "HIGHER_LOW" <=> l = "LOWER_HIGH"
                                /\ Opposite[l] = "LOWER_HIGH" <=> l = "HIGHER_LOW"
                                /\ Opposite[l] = "LOWER_LOW" <=> l = "HIGHER_HIGH"
  BY Opposites DEF StructureTypes
<1>5. CASE high = None \/ low = None
  <2>1. TrendOf(high, low) = "UNKNOWN" /\ TrendOf(mh, ml) = "UNKNOWN"
    BY <1>1, <1>2, <1>5, Zenon DEF TrendOf
  <2> QED BY <2>1, Opposites
<1>6. CASE high # None /\ low # None
  <2> DEFINE h == high.structure
             l == low.structure
  <2>1. /\ mh.structure = IF l = None THEN None ELSE Opposite[l]
        /\ ml.structure = IF h = None THEN None ELSE Opposite[h]
        /\ mh # None /\ ml # None
        /\ h \in StructureTypes \cup {None} /\ l \in StructureTypes \cup {None}
    BY <1>1, <1>2, <1>3, <1>6
  <2>2. TrendOf(high, low) =
          IF h = None \/ l = None THEN "UNKNOWN"
          ELSE IF h = "HIGHER_HIGH" /\ l = "HIGHER_LOW" THEN "BULLISH"
          ELSE IF h = "LOWER_HIGH" /\ l = "LOWER_LOW" THEN "BEARISH"
          ELSE "RANGE"
    BY <1>6 DEF TrendOf
  <2> HIDE DEF h, l
  <2>3. CASE h = None \/ l = None
    <3>1. TrendOf(high, low) = "UNKNOWN"
      BY <2>2, <2>3, Zenon
    <3>2. mh.structure = None \/ ml.structure = None
      BY <2>1, <2>3
    <3>3. TrendOf(mh, ml) = "UNKNOWN"
      BY <3>2, Zenon DEF TrendOf
    <3> QED BY <3>1, <3>3, Opposites
  <2>4. CASE h # None /\ l # None
    <3>1. mh.structure = Opposite[l] /\ ml.structure = Opposite[h]
          /\ Opposite[l] # None /\ Opposite[h] # None
      BY <1>3, <1>4, <2>1, <2>4
    <3>2. TrendOf(mh, ml) =
            IF Opposite[l] = "HIGHER_HIGH" /\ Opposite[h] = "HIGHER_LOW" THEN "BULLISH"
            ELSE IF Opposite[l] = "LOWER_HIGH" /\ Opposite[h] = "LOWER_LOW" THEN "BEARISH"
            ELSE "RANGE"
      BY <2>1, <3>1 DEF TrendOf
    <3>3. /\ Opposite[l] = "HIGHER_HIGH" <=> l = "LOWER_LOW"
          /\ Opposite[l] = "LOWER_HIGH" <=> l = "HIGHER_LOW"
      BY <1>4, <2>1, <2>4
    <3>4. /\ Opposite[h] = "HIGHER_LOW" <=> h = "LOWER_HIGH"
          /\ Opposite[h] = "LOWER_LOW" <=> h = "HIGHER_HIGH"
      BY <1>4, <2>1, <2>4
    <3>5. CASE h = "HIGHER_HIGH" /\ l = "HIGHER_LOW"
      BY <2>2, <2>4, <3>2, <3>3, <3>4, <3>5, Opposites
    <3>6. CASE h = "LOWER_HIGH" /\ l = "LOWER_LOW"
      BY <2>2, <2>4, <3>2, <3>3, <3>4, <3>6, Opposites
    <3>7. CASE /\ ~(h = "HIGHER_HIGH" /\ l = "HIGHER_LOW")
               /\ ~(h = "LOWER_HIGH" /\ l = "LOWER_LOW")
      <4>1. TrendOf(high, low) = "RANGE"
        BY <2>2, <2>4, <3>7
      <4>2. TrendOf(mh, ml) = "RANGE"
        BY <3>2, <3>3, <3>4, <3>7
      <4> QED BY <4>1, <4>2, Opposites
    <3> QED BY <3>5, <3>6, <3>7
  <2> QED BY <2>3, <2>4
<1> QED BY <1>5, <1>6

LEMMA MirroredPublished ==
  ASSUME MirrorSum \in Int, NEW e \in Engines, e.trend = TrendOf(e.high, e.low),
         NEW c \in CandleRecords
  PROVE  Published(MirroredEngine(e), MirroredCandle(c)) = MirroredState(Published(e, c))
<1> DEFINE m == MirroredEngine(e)
           d == MirroredCandle(c)
           s == Published(e, c)
           t == Published(m, d)
           image == MirroredState(s)
<1>1. /\ m \in Engines /\ m.candles = MirroredCandles(e.candles)
      /\ m.high = MirroredSwing(e.low) /\ m.previousHigh = MirroredSwing(e.previousLow)
      /\ m.low = MirroredSwing(e.high) /\ m.previousLow = MirroredSwing(e.previousHigh)
      /\ m.hh = MirroredSwing(e.ll) /\ m.hl = MirroredSwing(e.lh)
      /\ m.lh = MirroredSwing(e.hl) /\ m.ll = MirroredSwing(e.hh)
      /\ m.break = MirroredBreak(e.break) /\ m.sweep = Opposite[e.sweep]
      /\ m.trend = Opposite[e.trend]
  BY MirroredEngineTyped
<1>2. d \in CandleRecords /\ d.close = MirrorSum - c.close /\ c.close \in Int
  BY MirroredCandleIs DEF CandleRecords
<1>3. Len(m.candles) = Len(e.candles)
  BY <1>1, MirroredCandlesAre DEF Engines
<1>4. /\ s \in States /\ s.count = Len(e.candles) /\ s.last = c /\ s.trend = e.trend
      /\ s.high = e.high /\ s.low = e.low
      /\ s.previousHigh = e.previousHigh /\ s.previousLow = e.previousLow
      /\ s.break = e.break /\ s.directions = BreakDirections(e.break)
      /\ s.hh = e.hh /\ s.hl = e.hl /\ s.lh = e.lh /\ s.ll = e.ll
      /\ s.range = (e.trend = "RANGE") /\ s.pullback = Pullback(e, c) /\ s.sweep = e.sweep
  <2>1. s \in States
    BY PublishedTyped
  <2> QED BY <2>1 DEF Published
<1> HIDE DEF m, d
<1>5. /\ t \in States /\ t.count = Len(m.candles) /\ t.last = d /\ t.trend = m.trend
      /\ t.high = m.high /\ t.low = m.low
      /\ t.previousHigh = m.previousHigh /\ t.previousLow = m.previousLow
      /\ t.break = m.break /\ t.directions = BreakDirections(m.break)
      /\ t.hh = m.hh /\ t.hl = m.hl /\ t.lh = m.lh /\ t.ll = m.ll
      /\ t.range = (m.trend = "RANGE") /\ t.pullback = Pullback(m, d) /\ t.sweep = m.sweep
  <2>1. t \in States
    BY <1>1, <1>2, PublishedTyped
  <2> QED BY <2>1 DEF Published
<1> HIDE DEF s, t
<1>6. /\ image \in States /\ image.count = s.count /\ image.last = MirroredCandle(s.last)
      /\ image.trend = Opposite[s.trend]
      /\ image.high = MirroredSwing(s.low) /\ image.low = MirroredSwing(s.high)
      /\ image.previousHigh = MirroredSwing(s.previousLow)
      /\ image.previousLow = MirroredSwing(s.previousHigh)
      /\ image.break = MirroredBreak(s.break)
      /\ image.directions = [bos |-> Opposite[s.directions.bos], choch |-> Opposite[s.directions.choch]]
      /\ image.hh = MirroredSwing(s.ll) /\ image.hl = MirroredSwing(s.lh)
      /\ image.lh = MirroredSwing(s.hl) /\ image.ll = MirroredSwing(s.hh)
      /\ image.range = s.range /\ image.pullback = Opposite[s.pullback] /\ image.sweep = Opposite[s.sweep]
  BY <1>4, MirroredStateTyped
<1>7. e.trend \in Trends /\ e.high \in Swing /\ e.low \in Swing /\ e.break \in StructureBreaks \cup {None}
  BY DEF Engines
<1>8. (m.trend = "RANGE") = (e.trend = "RANGE")
  BY <1>1, <1>7, Opposites DEF Trends
<1>9. BreakDirections(m.break)
        = [bos |-> Opposite[BreakDirections(e.break).bos], choch |-> Opposite[BreakDirections(e.break).choch]]
  <2>1. CASE e.break = None
    <3>1. m.break = None
      BY <1>1, <2>1 DEF MirroredBreak
    <3>2. BreakDirections(None) = [bos |-> "NONE", choch |-> "NONE"]
      BY PriceActionAssumption DEF BreakDirections, BreakTypes
    <3> QED BY <2>1, <3>1, <3>2, Opposites
  <2>2. CASE e.break # None
    <3>1. m.break # None /\ m.break.type = Opposite[e.break.type]
      BY <1>1, <1>7, <2>2, MirroredBreakIs
    <3>2. e.break.type \in {"BULLISH_BOS", "BEARISH_BOS", "BULLISH_CHOCH", "BEARISH_CHOCH"}
      BY <1>7, <2>2 DEF StructureBreaks, BreakTypes
    <3> DEFINE type == e.break.type
               mtype == m.break.type
               bos(x) == IF x = "BULLISH_BOS" THEN "BULLISH" ELSE IF x = "BEARISH_BOS" THEN "BEARISH" ELSE "NONE"
               choch(x) == IF x = "BULLISH_CHOCH" THEN "BULLISH"
                           ELSE IF x = "BEARISH_CHOCH" THEN "BEARISH" ELSE "NONE"
    <3>3. /\ BreakDirections(e.break) = [bos |-> bos(type), choch |-> choch(type)]
          /\ BreakDirections(m.break) = [bos |-> bos(mtype), choch |-> choch(mtype)]
      BY <2>2, <3>1 DEF BreakDirections
    <3>4. bos(mtype) = Opposite[bos(type)] /\ choch(mtype) = Opposite[choch(type)]
      <4> HIDE DEF type, mtype
      <4>1. type \in {"BULLISH_BOS", "BEARISH_BOS", "BULLISH_CHOCH", "BEARISH_CHOCH"} /\ mtype = Opposite[type]
        BY <3>1, <3>2 DEF type, mtype
      <4> QED BY <4>1, Opposites
    <3> HIDE DEF bos, choch, type, mtype
    <3> QED BY <3>3, <3>4
  <2> QED BY <2>1, <2>2
<1>10. Pullback(m, d) = Opposite[Pullback(e, c)]
  <2>1. CASE e.trend = "BULLISH"
    <3>1. e.high # None
      BY <2>1 DEF TrendOf
    <3>2. e.high.price \in Int /\ m.low.price = MirrorSum - e.high.price
      BY <1>1, <1>7, <3>1, MirroredSwingIs DEF Swing, SwingPoints
    <3>3. d.close > m.low.price <=> c.close < e.high.price
      BY <1>2, <3>2
    <3>4. m.trend = "BEARISH"
      BY <1>1, <2>1, Opposites
    <3> QED BY <2>1, <3>3, <3>4, Opposites DEF Pullback
  <2>2. CASE e.trend = "BEARISH"
    <3>1. e.low # None
      BY <2>2 DEF TrendOf
    <3>2. e.low.price \in Int /\ m.high.price = MirrorSum - e.low.price
      BY <1>1, <1>7, <3>1, MirroredSwingIs DEF Swing, SwingPoints
    <3>3. d.close < m.high.price <=> c.close > e.low.price
      BY <1>2, <3>2
    <3>4. m.trend = "BULLISH"
      BY <1>1, <2>2, Opposites
    <3> QED BY <2>2, <3>3, <3>4, Opposites DEF Pullback
  <2>3. CASE e.trend \notin {"BULLISH", "BEARISH"}
    <3>1. m.trend \notin {"BULLISH", "BEARISH"}
      BY <1>1, <1>7, <2>3, Opposites DEF Trends
    <3> QED BY <2>3, <3>1, Opposites DEF Pullback
  <2> QED BY <2>1, <2>2, <2>3
<1>11. t = image
  <2> HIDE DEF image
  <2> QED BY <1>1, <1>3, <1>4, <1>5, <1>6, <1>8, <1>9, <1>10, SameState DEF d
<1> QED BY <1>11 DEF m, d, s, t

(* Accepting a candle and turning the market upside down commute.           *)
LEMMA MirroredAccept ==
  ASSUME MirrorSum \in Int, NEW e, Coherent(e), NEW c \in CandleRecords
  PROVE  Accept(MirroredEngine(e), MirroredCandle(c)) = MirroredEngine(Accept(e, c))
<1> DEFINE m == MirroredEngine(e)
           d == MirroredCandle(c)
           Grown(f, x) == [f EXCEPT !.broken = BrokenWith(f, x), !.candles = Append(@, x)]
           Next(f, x) == [Swung(Grown(f, x)) EXCEPT
                            !.trend = TrendOf(Swung(Grown(f, x)).high, Swung(Grown(f, x)).low),
                            !.break = IF NewBreak(f, x) = None THEN @ ELSE NewBreak(f, x),
                            !.sweep = SweepOf(f, x)]
<1>1. /\ Accept(e, c) = [Next(e, c) EXCEPT !.state = Published(Next(e, c), c)]
      /\ Accept(m, d) = [Next(m, d) EXCEPT !.state = Published(Next(m, d), d)]
  <2> HIDE DEF m, d
  <2> QED BY DEF Accept
<1>2. e \in Engines /\ ~TwoSided(e, c)
  BY OneSided DEF Coherent
<1>3. m \in Engines /\ d \in CandleRecords
  BY <1>2, MirroredEngineTyped, MirroredCandleIs
<1>4. /\ NewBreak(m, d) = MirroredBreak(NewBreak(e, c))
      /\ BrokenWith(m, d) = {MirroredKey(k) : k \in BrokenWith(e, c)}
      /\ SweepOf(m, d) = Opposite[SweepOf(e, c)]
  BY <1>2, MirroredNewBreak, MirroredSweep
<1>5. /\ m.candles = MirroredCandles(e.candles) /\ m.state = MirroredState(e.state)
      /\ m.high = MirroredSwing(e.low) /\ m.previousHigh = MirroredSwing(e.previousLow)
      /\ m.low = MirroredSwing(e.high) /\ m.previousLow = MirroredSwing(e.previousHigh)
      /\ m.hh = MirroredSwing(e.ll) /\ m.hl = MirroredSwing(e.lh)
      /\ m.lh = MirroredSwing(e.hl) /\ m.ll = MirroredSwing(e.hh)
      /\ m.break = MirroredBreak(e.break) /\ m.sweep = Opposite[e.sweep]
      /\ m.trend = Opposite[e.trend]
  BY <1>2, MirroredEngineTyped
<1>6. BrokenWith(e, c) \in SUBSET SwingKeys /\ BrokenWith(m, d) \in SUBSET SwingKeys
      /\ NewBreak(e, c) \in StructureBreaks \cup {None} /\ NewBreak(m, d) \in StructureBreaks \cup {None}
      /\ SweepOf(e, c) \in Sweeps /\ SweepOf(m, d) \in Sweeps
  BY <1>2, <1>3, BreakTyped
<1>7. MirroredCandles(Append(e.candles, c)) = Append(m.candles, d)
  BY <1>2, <1>5, MirroredAppend DEF Engines
<1> HIDE DEF m, d
<1> DEFINE candles == Append(e.candles, c)
           broken == BrokenWith(e, c)
           mcandles == Append(m.candles, d)
           mbroken == BrokenWith(m, d)
           g == [e EXCEPT !.broken = broken, !.candles = candles]
           mg == [m EXCEPT !.broken = mbroken, !.candles = mcandles]
<1>a. Grown(e, c) = g /\ Grown(m, d) = mg
  OBVIOUS
<1>b. candles \in Seq(CandleRecords) /\ mcandles \in Seq(CandleRecords)
  BY <1>2, <1>3 DEF Engines
<1> HIDE DEF candles, mcandles, broken, mbroken, Grown
<1>8. /\ g \in Engines /\ g.candles = candles /\ g.broken = broken
      /\ g.state = e.state /\ g.high = e.high /\ g.previousHigh = e.previousHigh
      /\ g.low = e.low /\ g.previousLow = e.previousLow /\ g.hh = e.hh /\ g.hl = e.hl
      /\ g.lh = e.lh /\ g.ll = e.ll /\ g.break = e.break /\ g.sweep = e.sweep /\ g.trend = e.trend
  BY <1>2, <1>6, <1>b DEF Engines, broken
<1>9. /\ mg \in Engines /\ mg.candles = mcandles /\ mg.broken = mbroken
      /\ mg.state = m.state /\ mg.high = m.high /\ mg.previousHigh = m.previousHigh
      /\ mg.low = m.low /\ mg.previousLow = m.previousLow /\ mg.hh = m.hh /\ mg.hl = m.hl
      /\ mg.lh = m.lh /\ mg.ll = m.ll /\ mg.break = m.break /\ mg.sweep = m.sweep /\ mg.trend = m.trend
  BY <1>3, <1>6, <1>b DEF Engines, mbroken
<1> HIDE DEF g, mg
<1>10. mg = MirroredEngine(g)
  <2> DEFINE image == MirroredEngine(g)
  <2>1. /\ image \in Engines
        /\ image.candles = MirroredCandles(g.candles) /\ image.state = m.state
        /\ image.high = m.high /\ image.previousHigh = m.previousHigh
        /\ image.low = m.low /\ image.previousLow = m.previousLow
        /\ image.hh = m.hh /\ image.hl = m.hl /\ image.lh = m.lh /\ image.ll = m.ll
        /\ image.break = m.break /\ image.sweep = m.sweep /\ image.trend = m.trend
        /\ image.broken = {MirroredKey(k) : k \in g.broken}
    BY <1>5, <1>8, MirroredEngineTyped
  <2> HIDE DEF image
  <2>2. image.candles = mg.candles /\ image.broken = mg.broken
    BY <1>4, <1>7, <1>8, <1>9, <2>1 DEF candles, mcandles, broken, mbroken
  <2> QED BY <1>9, <2>1, <2>2, SameEngine DEF image
<1> DEFINE w == Swung(g)
           mw == Swung(mg)
<1>11. w \in Engines /\ mw \in Engines /\ mw = MirroredEngine(w)
  BY <1>8, <1>9, <1>10, SwungTyped, MirroredSwung
<1> DEFINE trend == TrendOf(w.high, w.low)
           break == IF NewBreak(e, c) = None THEN w.break ELSE NewBreak(e, c)
           sweep == SweepOf(e, c)
           n == [w EXCEPT !.trend = trend, !.break = break, !.sweep = sweep]
           mtrend == TrendOf(mw.high, mw.low)
           mbreak == IF NewBreak(m, d) = None THEN mw.break ELSE NewBreak(m, d)
           msweep == SweepOf(m, d)
           mn == [mw EXCEPT !.trend = mtrend, !.break = mbreak, !.sweep = msweep]
<1>12. Next(e, c) = n /\ Next(m, d) = mn
  BY <1>a, Zenon
<1> HIDE DEF w, mw, Next
<1>13. /\ mw.candles = MirroredCandles(w.candles) /\ mw.state = MirroredState(w.state)
       /\ mw.high = MirroredSwing(w.low) /\ mw.previousHigh = MirroredSwing(w.previousLow)
       /\ mw.low = MirroredSwing(w.high) /\ mw.previousLow = MirroredSwing(w.previousHigh)
       /\ mw.hh = MirroredSwing(w.ll) /\ mw.hl = MirroredSwing(w.lh)
       /\ mw.lh = MirroredSwing(w.hl) /\ mw.ll = MirroredSwing(w.hh)
       /\ mw.break = MirroredBreak(w.break) /\ mw.broken = {MirroredKey(k) : k \in w.broken}
  BY <1>11, MirroredEngineTyped
<1>14. w.high \in Swing /\ w.low \in Swing /\ w.break \in StructureBreaks \cup {None}
       /\ mw.break \in StructureBreaks \cup {None}
  BY <1>11 DEF Engines
<1>15. mtrend = Opposite[trend] /\ trend \in Trends /\ mtrend \in Trends
  <2>1. TrendOf(MirroredSwing(w.low), MirroredSwing(w.high)) = Opposite[TrendOf(w.high, w.low)]
    BY <1>14, MirroredTrend
  <2> QED BY <1>13, <2>1, TrendTyped
<1>16. mbreak = MirroredBreak(break)
  <2>1. NewBreak(m, d) = None <=> NewBreak(e, c) = None
    BY <1>4, <1>6, MirroredBreakIs
  <2> QED BY <1>4, <1>13, <2>1
<1>17. break \in StructureBreaks \cup {None} /\ mbreak \in StructureBreaks \cup {None}
       /\ sweep \in Sweeps /\ msweep \in Sweeps /\ msweep = Opposite[sweep]
  BY <1>4, <1>6, <1>14
<1>18. trend = TrendOf(w.high, w.low)
  OBVIOUS
<1> HIDE DEF trend, break, sweep, mtrend, mbreak, msweep
<1>19. /\ n \in Engines /\ n.trend = trend /\ n.break = break /\ n.sweep = sweep
       /\ n.candles = w.candles /\ n.state = w.state /\ n.high = w.high /\ n.previousHigh = w.previousHigh
       /\ n.low = w.low /\ n.previousLow = w.previousLow /\ n.hh = w.hh /\ n.hl = w.hl
       /\ n.lh = w.lh /\ n.ll = w.ll /\ n.broken = w.broken
  BY <1>11, <1>15, <1>17 DEF Engines
<1>20. /\ mn \in Engines /\ mn.trend = mtrend /\ mn.break = mbreak /\ mn.sweep = msweep
       /\ mn.candles = mw.candles /\ mn.state = mw.state /\ mn.high = mw.high /\ mn.previousHigh = mw.previousHigh
       /\ mn.low = mw.low /\ mn.previousLow = mw.previousLow /\ mn.hh = mw.hh /\ mn.hl = mw.hl
       /\ mn.lh = mw.lh /\ mn.ll = mw.ll /\ mn.broken = mw.broken
  BY <1>11, <1>15, <1>17 DEF Engines
<1> HIDE DEF n, mn
<1>21. mn = MirroredEngine(n)
  <2> DEFINE image == MirroredEngine(n)
  <2>1. /\ image \in Engines
        /\ image.candles = mw.candles /\ image.state = mw.state
        /\ image.high = mw.high /\ image.previousHigh = mw.previousHigh
        /\ image.low = mw.low /\ image.previousLow = mw.previousLow
        /\ image.hh = mw.hh /\ image.hl = mw.hl /\ image.lh = mw.lh /\ image.ll = mw.ll
        /\ image.break = mbreak /\ image.sweep = msweep /\ image.trend = mtrend
        /\ image.broken = mw.broken
    BY <1>13, <1>15, <1>16, <1>17, <1>19, MirroredEngineTyped
  <2> HIDE DEF image
  <2> QED BY <1>20, <2>1, SameEngine DEF image
<1> DEFINE state == Published(n, c)
           mstate == Published(mn, d)
           a == [n EXCEPT !.state = state]
           ma == [mn EXCEPT !.state = mstate]
<1>22. mstate = MirroredState(state)
  <2>1. n.trend = TrendOf(n.high, n.low)
    BY <1>18, <1>19
  <2> QED BY <1>19, <1>21, <2>1, MirroredPublished DEF d
<1>23. state \in States /\ mstate \in States
  BY <1>3, <1>19, <1>20, PublishedTyped
<1> HIDE DEF state, mstate
<1>24. /\ a \in Engines /\ a.state = state /\ a.trend = n.trend /\ a.break = n.break /\ a.sweep = n.sweep
       /\ a.candles = n.candles /\ a.high = n.high /\ a.previousHigh = n.previousHigh
       /\ a.low = n.low /\ a.previousLow = n.previousLow /\ a.hh = n.hh /\ a.hl = n.hl
       /\ a.lh = n.lh /\ a.ll = n.ll /\ a.broken = n.broken
  BY <1>19, <1>23 DEF Engines
<1>25. /\ ma \in Engines /\ ma.state = mstate /\ ma.trend = mn.trend /\ ma.break = mn.break /\ ma.sweep = mn.sweep
       /\ ma.candles = mn.candles /\ ma.high = mn.high /\ ma.previousHigh = mn.previousHigh
       /\ ma.low = mn.low /\ ma.previousLow = mn.previousLow /\ ma.hh = mn.hh /\ ma.hl = mn.hl
       /\ ma.lh = mn.lh /\ ma.ll = mn.ll /\ ma.broken = mn.broken
  BY <1>20, <1>23 DEF Engines
<1> HIDE DEF a, ma
<1>26. ma = MirroredEngine(a)
  <2> DEFINE image == MirroredEngine(a)
             half == MirroredEngine(n)
  <2>1. /\ image \in Engines /\ image.state = mstate
        /\ image.candles = half.candles
        /\ image.high = half.high /\ image.previousHigh = half.previousHigh
        /\ image.low = half.low /\ image.previousLow = half.previousLow
        /\ image.hh = half.hh /\ image.hl = half.hl /\ image.lh = half.lh /\ image.ll = half.ll
        /\ image.break = half.break /\ image.sweep = half.sweep /\ image.trend = half.trend
        /\ image.broken = half.broken
    <3>1. image \in Engines /\ image.state = mstate
      BY <1>22, <1>24, MirroredEngineTyped
    <3> QED BY <1>24, <3>1 DEF MirroredEngine
  <2> HIDE DEF image, half
  <2>2. half = mn
    BY <1>21 DEF half
  <2> QED BY <1>25, <2>1, <2>2, SameEngine DEF image
<1>27. Accept(e, c) = a /\ Accept(m, d) = ma
  BY <1>1, <1>12 DEF a, ma, state, mstate
<1> QED BY <1>26, <1>27 DEF m, d

LEMMA MirroredReplay ==
  ASSUME MirrorSum \in Int, NEW cs \in ValidHistories
  PROVE  Replayed(EmptyEngine, MirroredCandles(cs)) = MirroredEngine(Replayed(EmptyEngine, cs))
<1> DEFINE Alike(ds) == Replayed(EmptyEngine, MirroredCandles(ds)) = MirroredEngine(Replayed(EmptyEngine, ds))
           S == {n \in Nat : \A ds \in ValidHistories : Len(ds) = n => Alike(ds)}
<1>1. 0 \in S
  <2> SUFFICES ASSUME NEW ds \in ValidHistories, Len(ds) = 0 PROVE Alike(ds)
    OBVIOUS
  <2>1. ds \in Seq(CandleRecords)
    BY DEF ValidHistories
  <2>2. MirroredCandles(ds) \in Seq(CandleRecords) /\ Len(MirroredCandles(ds)) = 0
    BY <2>1, MirroredCandlesAre
  <2>3. Replayed(EmptyEngine, ds) = EmptyEngine /\ Replayed(EmptyEngine, MirroredCandles(ds)) = EmptyEngine
    BY <2>2, ReplayedNothing
  <2>4. ds = <<>> /\ MirroredCandles(ds) = <<>>
    BY <2>1, <2>2, EmptySeq
  <2>5. MirroredEngine(EmptyEngine) = EmptyEngine
    <3> DEFINE image == MirroredEngine(EmptyEngine)
    <3>1. /\ EmptyEngine.candles = ds /\ EmptyEngine.state = None /\ EmptyEngine.high = None
          /\ EmptyEngine.previousHigh = None /\ EmptyEngine.low = None /\ EmptyEngine.previousLow = None
          /\ EmptyEngine.hh = None /\ EmptyEngine.hl = None /\ EmptyEngine.lh = None /\ EmptyEngine.ll = None
          /\ EmptyEngine.break = None /\ EmptyEngine.sweep = "NONE" /\ EmptyEngine.trend = "UNKNOWN"
          /\ EmptyEngine.broken = {}
      BY <2>4 DEF EmptyEngine
    <3>2. MirroredSwing(None) = None /\ MirroredBreak(None) = None /\ MirroredState(None) = None
      BY DEF MirroredSwing, MirroredBreak, MirroredState
    <3>3. /\ image \in Engines
          /\ image.candles = ds /\ image.state = None /\ image.high = None /\ image.previousHigh = None
          /\ image.low = None /\ image.previousLow = None /\ image.hh = None /\ image.hl = None
          /\ image.lh = None /\ image.ll = None /\ image.break = None /\ image.sweep = "NONE"
          /\ image.trend = "UNKNOWN" /\ image.broken = {MirroredKey(k) : k \in {}}
      <4> HIDE DEF image
      <4>1. /\ image \in Engines /\ image.candles = MirroredCandles(EmptyEngine.candles)
            /\ image.state = MirroredState(EmptyEngine.state)
            /\ image.high = MirroredSwing(EmptyEngine.low) /\ image.previousHigh = MirroredSwing(EmptyEngine.previousLow)
            /\ image.low = MirroredSwing(EmptyEngine.high) /\ image.previousLow = MirroredSwing(EmptyEngine.previousHigh)
            /\ image.hh = MirroredSwing(EmptyEngine.ll) /\ image.hl = MirroredSwing(EmptyEngine.lh)
            /\ image.lh = MirroredSwing(EmptyEngine.hl) /\ image.ll = MirroredSwing(EmptyEngine.hh)
            /\ image.break = MirroredBreak(EmptyEngine.break) /\ image.sweep = Opposite[EmptyEngine.sweep]
            /\ image.trend = Opposite[EmptyEngine.trend]
            /\ image.broken = {MirroredKey(k) : k \in EmptyEngine.broken}
        BY EmptyEngineTyped, MirroredEngineTyped DEF image
      <4> QED BY <2>4, <3>1, <3>2, <4>1, Opposites
    <3>4. {MirroredKey(k) : k \in {}} = {}
      OBVIOUS
    <3> HIDE DEF image
    <3> QED BY <3>1, <3>3, <3>4, EmptyEngineTyped, SameEngine DEF image
  <2> QED BY <2>3, <2>5
<1>2. ASSUME NEW n \in Nat, n \in S PROVE n + 1 \in S
  <2> SUFFICES ASSUME NEW ds \in ValidHistories, Len(ds) = n + 1 PROVE Alike(ds)
    OBVIOUS
  <2> DEFINE front == Front(ds)
             last == Last(ds)
             e == Replayed(EmptyEngine, front)
             ms == MirroredCandles(front)
             d == MirroredCandle(last)
  <2>1. ds # <<>>
    <3>1. Len(ds) # 0
      OBVIOUS
    <3> QED BY <3>1, EmptySeq
  <2>2. front \in ValidHistories /\ Len(front) = n /\ last \in CandleRecords /\ ds = Append(front, last)
    BY <2>1, EachHistory
  <2>3. front \in Seq(CandleRecords)
    BY <2>2 DEF ValidHistories
  <2> HIDE DEF front, last
  <2>4. Replayed(EmptyEngine, ms) = MirroredEngine(e)
    BY <1>2, <2>2
  <2>5. Coherent(e)
    BY <2>2, ReplayedCoherent
  <2>6. Replayed(EmptyEngine, ds) = Accept(e, last)
    BY <2>2, <2>3, ReplayedNext
  <2>7. MirroredCandles(ds) = Append(ms, d)
    BY <2>2, <2>3, MirroredAppend
  <2>8. ms \in Seq(CandleRecords) /\ d \in CandleRecords
    BY <2>2, <2>3, MirroredCandlesAre, MirroredCandleIs
  <2> HIDE DEF ms, e, d
  <2>9. Replayed(EmptyEngine, Append(ms, d)) = Accept(Replayed(EmptyEngine, ms), d)
    BY <2>8, ReplayedNext
  <2>10. Accept(MirroredEngine(e), d) = MirroredEngine(Accept(e, last))
    BY <2>2, <2>5, MirroredAccept DEF d
  <2> QED BY <2>4, <2>6, <2>7, <2>9, <2>10
<1>3. \A n \in Nat : n \in S
  <2> HIDE DEF S
  <2> QED BY <1>1, <1>2, Counting
<1>4. Len(cs) \in Nat /\ Len(cs) \in S
  BY <1>3 DEF ValidHistories
<1> QED BY <1>4

-----------------------------------------------------------------------------
(* The engine is the replay of a valid history.                             *)

EngineIInv ==
  /\ engine.candles \in ValidHistories /\ engine.candles \in Seq(Candles)
  /\ engine = Replayed(EmptyEngine, engine.candles)


LEMMA AppendValid ==
  ASSUME NEW cs \in ValidHistories, cs \in Seq(Candles), NEW c \in Candles, ValidCandle(c)
  PROVE  Append(cs, c) \in ValidHistories /\ Append(cs, c) \in Seq(Candles)
<1> DEFINE n == Len(cs)
           ds == Append(cs, c)
<1>1. cs \in Seq(CandleRecords) /\ (\A i \in 1..n : ValidCandle(cs[i])) /\ c \in CandleRecords
  BY PriceActionAssumption DEF ValidHistories
<1>2. /\ n \in Nat /\ ds \in Seq(CandleRecords) /\ ds \in Seq(Candles) /\ Len(ds) = n + 1
      /\ ds[n + 1] = c /\ \A i \in 1..n : ds[i] = cs[i]
  BY <1>1
<1>3. \A i \in 1..n + 1 : i = n + 1 \/ i \in 1..n
  BY <1>2
<1> HIDE DEF ds, n
<1>4. \A i \in 1..Len(ds) : ValidCandle(ds[i])
  BY <1>1, <1>2, <1>3
<1> QED BY <1>2, <1>4 DEF ds, ValidHistories

LEMMA FrontValid ==
  ASSUME NEW cs \in ValidHistories, cs \in Seq(Candles), cs # <<>>
  PROVE  Front(cs) \in ValidHistories /\ Front(cs) \in Seq(Candles)
<1>1. Front(cs) \in ValidHistories /\ Len(Front(cs)) = Len(cs) - 1
      /\ Last(cs) \in CandleRecords /\ cs = Append(Front(cs), Last(cs))
  BY EachHistory
<1> DEFINE front == Front(cs)
           last == Last(cs)
           n == Len(front)
<1> HIDE DEF front, last
<1>2. front \in Seq(CandleRecords) /\ cs = Append(front, last) /\ last \in CandleRecords
  BY <1>1 DEF front, last, ValidHistories
<1>3. n \in Nat /\ Len(Append(front, last)) = n + 1 /\ \A i \in 1..n : Append(front, last)[i] = front[i]
  BY <1>2
<1>4. \A i \in 1..n + 1 : cs[i] \in Candles
  BY <1>2, <1>3, ElementOfSeq
<1>5. \A i \in 1..n : front[i] \in Candles
  BY <1>2, <1>3, <1>4
<1>6. front \in Seq(Candles)
  BY <1>2, <1>3, <1>5, SeqDef
<1> QED BY <1>1, <1>6 DEF front

LEMMA EmptyStands ==
  /\ EmptyEngine.candles \in ValidHistories /\ EmptyEngine.candles \in Seq(Candles)
  /\ EmptyEngine = Replayed(EmptyEngine, EmptyEngine.candles)
<1> DEFINE cs == EmptyEngine.candles
<1>1. cs = <<>>
  BY DEF EmptyEngine
<1>2. Len(cs) = 0 /\ cs \in Seq(CandleRecords) /\ cs \in Seq(Candles)
  BY <1>1
<1> HIDE DEF cs
<1>3. Replayed(EmptyEngine, cs) = EmptyEngine /\ cs \in ValidHistories
  BY <1>2, ReplayedNothing DEF ValidHistories
<1> QED BY <1>2, <1>3 DEF cs

(* A candle that is accepted is one more of the history.                    *)
LEMMA HistoryGrows ==
  ASSUME NEW cs \in ValidHistories, cs \in Seq(Candles), NEW c \in Candles, ValidCandle(c),
         NEW e, e = Accept(Replayed(EmptyEngine, cs), c)
  PROVE  /\ e.candles \in ValidHistories /\ e.candles \in Seq(Candles)
         /\ e = Replayed(EmptyEngine, e.candles)
<1> DEFINE ds == Append(cs, c)
<1>1. ds \in ValidHistories /\ ds \in Seq(Candles)
  BY AppendValid
<1>2. cs \in Seq(CandleRecords) /\ c \in CandleRecords
  BY PriceActionAssumption DEF ValidHistories
<1>3. Replayed(EmptyEngine, ds) = e
  BY <1>2, ReplayedNext
<1> HIDE DEF ds
<1>4. Replayed(EmptyEngine, ds).candles = ds
  BY <1>1, ReplayedCoherent
<1> QED BY <1>1, <1>3, <1>4

LEMMA EngineNext == EngineIInv /\ [PriceActionNext]_engineVars => EngineIInv'
<1> SUFFICES ASSUME EngineIInv, [PriceActionNext]_engineVars PROVE EngineIInv'
  OBVIOUS
<1> DEFINE cs == engine.candles
<1>1. cs \in ValidHistories /\ cs \in Seq(Candles) /\ engine = Replayed(EmptyEngine, cs)
  BY DEF EngineIInv
<1>2. ASSUME NEW c \in Candles, UpdateCandle(c) PROVE EngineIInv'
  <2>1. engine' = Updated(engine, c) /\ ValidCandle(c)
    BY <1>2 DEF UpdateCandle, Raises
  <2>2. CASE engine' = Accept(engine, c)
    <3> HIDE DEF cs
    <3>1. engine' = Accept(Replayed(EmptyEngine, cs), c)
      BY <1>1, <2>2
    <3> QED BY <1>1, <2>1, <3>1, HistoryGrows DEF EngineIInv
  <2>3. CASE engine' = engine
    BY <2>3 DEF EngineIInv
  <2>4. CASE cs # <<>> /\ engine' = Corrected(engine, c)
    <3> DEFINE front == Front(cs)
    <3>1. front \in ValidHistories /\ front \in Seq(Candles)
      BY <1>1, <2>4, FrontValid
    <3>2. engine' = Replayed(EmptyEngine, Append(front, c))
      BY <2>4 DEF Corrected, Forgotten
    <3>3. front \in Seq(CandleRecords) /\ c \in CandleRecords
      BY <3>1, PriceActionAssumption DEF ValidHistories
    <3> HIDE DEF front
    <3>4. engine' = Accept(Replayed(EmptyEngine, front), c)
      BY <3>2, <3>3, ReplayedNext
    <3> QED BY <2>1, <3>1, <3>4, HistoryGrows DEF EngineIInv
  <2> QED BY <2>1, <2>2, <2>3, <2>4 DEF Updated
<1>3. CASE ResetPriceAction
  BY <1>3, EmptyStands DEF ResetPriceAction, EngineIInv
<1>4. CASE UNCHANGED engineVars
  BY <1>4 DEF engineVars, EngineIInv
<1> QED BY <1>2, <1>3, <1>4 DEF PriceActionNext

LEMMA EngineIsSound == EngineIInv => PriceActionIsSound
<1> SUFFICES ASSUME EngineIInv PROVE PriceActionIsSound
  OBVIOUS
<1> DEFINE cs == engine.candles
<1>1. cs \in ValidHistories /\ cs \in Seq(Candles) /\ engine = Replayed(EmptyEngine, cs)
  BY DEF EngineIInv
<1>2. Coherent(engine)
  BY <1>1, ReplayedCoherent
<1>3. CorrectionLeavesNoTrace
  BY <1>1 DEF CorrectionLeavesNoTrace
<1>4. NoTwoSidedBreak
  BY <1>2, OneSided, PriceActionAssumption DEF NoTwoSidedBreak
<1> DEFINE ms == MirroredCandles(cs)
<1>5. BothSidesAlike <=> Replayed(EmptyEngine, ms).state = MirroredState(engine.state)
  BY DEF BothSidesAlike, MirroredCandles
<1>6. CASE Candles = {}
  <2>1. Len(cs) = 0
    <3>1. Len(cs) \in Nat /\ \A i \in 1..Len(cs) : cs[i] \in Candles
      BY <1>1, ElementOfSeq
    <3> QED BY <1>6, <3>1
  <2>2. Len(ms) = 0
    BY <2>1 DEF MirroredCandles
  <2> HIDE DEF ms, cs
  <2>3. Replayed(EmptyEngine, ms) = EmptyEngine /\ engine = EmptyEngine
    BY <1>1, <2>1, <2>2, ReplayedNothing
  <2> QED BY <1>3, <1>4, <1>5, <2>3 DEF PriceActionIsSound, EmptyEngine, MirroredState
<1>7. CASE Candles # {}
  <2>1. Replayed(EmptyEngine, ms) = MirroredEngine(engine)
    <3> HIDE DEF cs
    <3> QED BY <1>1, <1>7, MirrorSumTyped, MirroredReplay
  <2>2. MirroredEngine(engine).state = MirroredState(engine.state)
    BY DEF MirroredEngine
  <2> QED BY <1>3, <1>4, <1>5, <2>1, <2>2 DEF PriceActionIsSound
<1> QED BY <1>6, <1>7

(* Whatever candles the engine is handed, corrected or reset, it stands     *)
(* where a new engine would that was handed the candles it holds; no close  *)
(* breaks the last swing high and the last swing low at once, so            *)
(* _detect_break never raises; and turned upside down the same market gets  *)
(* the mirrored reading.                                                    *)
THEOREM PriceActionStaysSound == PriceActionSpec => []PriceActionIsSound
<1>1. PriceActionInit => EngineIInv
  BY EmptyStands DEF PriceActionInit, EngineIInv
<1>2. EngineIInv /\ [PriceActionNext]_engineVars => EngineIInv'
  BY EngineNext
<1>3. EngineIInv => PriceActionIsSound
  BY EngineIsSound
<1> QED BY <1>1, <1>2, <1>3, PTL DEF PriceActionSpec
=============================================================================
