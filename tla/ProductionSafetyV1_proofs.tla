---------------------- MODULE ProductionSafetyV1_proofs ----------------------
(***************************************************************************)
(* Proofs about the production safety engine: what it publishes is what    *)
(* holds, recovery is declared ready only when nothing blocks, and the     *)
(* incidents are the record of what blocks, for all instruments, inputs,   *)
(* limits and orders of the calls, and for callers that keep the order of  *)
(* their timestamps and those that do not.                                 *)
(*                                                                         *)
(* And, at the end, about the trade journal: it is a true record of the    *)
(* closed positions.                                                       *)
(***************************************************************************)
EXTENDS ProductionSafetyV1, TradeJournalV1, FiniteSetTheorems, SequenceTheorems, TLAPS

-----------------------------------------------------------------------------
(* The order of the rules *)

Distinct(s) == \A m, n \in DOMAIN s : s[m] = s[n] => m = n

RuleNames == {"MANUAL_KILL_SWITCH", "APPLICATION_RUNTIME_HEALTH", "TRADE_LIFECYCLE_HEALTH", "JOURNAL_RUNTIME_HEALTH",
              "DAILY_LOSS_LIMIT", "ACCOUNT_DRAWDOWN_LIMIT", "MAXIMUM_TRADES_LIMIT", "CONSECUTIVE_LOSS_LIMIT",
              "ACTIVE_EXECUTION_PRESENT", "ACTIVE_POSITION_PRESENT", "MARKET_DATA_STALENESS"}
Rules == RuleNames \X Targets

\* Two lists of rules that name different rules or different targets follow each other without repetition.
LEMMA ConcatDistinct ==
    ASSUME NEW s \in Seq(Rules), NEW t \in Seq(Rules), Distinct(s), Distinct(t),
           \A m \in DOMAIN s, n \in DOMAIN t : s[m] # t[n]
    PROVE  s \o t \in Seq(Rules) /\ Distinct(s \o t)
<1>1. /\ s \o t \in Seq(Rules)
      /\ DOMAIN s = 1..Len(s) /\ DOMAIN t = 1..Len(t) /\ DOMAIN (s \o t) = 1..(Len(s) + Len(t))
      /\ Len(s) \in Nat /\ Len(t) \in Nat
      /\ \A i \in 1..(Len(s) + Len(t)) : (s \o t)[i] = IF i <= Len(s) THEN s[i] ELSE t[i - Len(s)]
  BY ConcatProperties, LenProperties
<1>2. ASSUME NEW m \in DOMAIN (s \o t), NEW n \in DOMAIN (s \o t), (s \o t)[m] = (s \o t)[n]
      PROVE  m = n
  <2>1. CASE m <= Len(s) /\ n <= Len(s)
    BY <2>1, <1>1, <1>2 DEF Distinct
  <2>2. CASE m > Len(s) /\ n > Len(s)
    <3>1. m - Len(s) \in DOMAIN t /\ n - Len(s) \in DOMAIN t /\ t[m - Len(s)] = t[n - Len(s)]
      BY <2>2, <1>1, <1>2
    <3> QED BY <3>1, <1>1 DEF Distinct
  <2>3. CASE m <= Len(s) /\ n > Len(s)
    <3>1. m \in DOMAIN s /\ n - Len(s) \in DOMAIN t /\ s[m] = t[n - Len(s)]
      BY <2>3, <1>1, <1>2
    <3> QED BY <3>1
  <2>4. CASE m > Len(s) /\ n <= Len(s)
    <3>1. n \in DOMAIN s /\ m - Len(s) \in DOMAIN t /\ t[m - Len(s)] = s[n]
      BY <2>4, <1>1, <1>2
    <3> QED BY <3>1
  <2> QED BY <2>1, <2>2, <2>3, <2>4, <1>1
<1> QED BY <1>1, <1>2 DEF Distinct

LEMMA PerInstrumentDistinct ==
    ASSUME NEW rule \in RuleNames
    PROVE  /\ PerInstrument(rule) \in Seq(Rules) /\ Distinct(PerInstrument(rule))
           /\ \A n \in DOMAIN PerInstrument(rule) :
                 PerInstrument(rule)[n] \in {rule} \X SafetyInstruments
<1>1. /\ DOMAIN InstrumentOrder = 1..Len(InstrumentOrder) /\ Len(InstrumentOrder) \in Nat
      /\ \A n \in DOMAIN InstrumentOrder : InstrumentOrder[n] \in SafetyInstruments
  BY SafetyAssumption, LenProperties DEF SafetyInstruments
<1>2. \A n \in DOMAIN InstrumentOrder : PerInstrument(rule)[n] = <<rule, InstrumentOrder[n]>>
  BY DEF PerInstrument
<1>3. DOMAIN PerInstrument(rule) = DOMAIN InstrumentOrder
  BY DEF PerInstrument
<1>4. PerInstrument(rule) \in [1..Len(InstrumentOrder) -> Rules]
  BY <1>1 DEF PerInstrument, Rules, Targets
<1>5. PerInstrument(rule) \in Seq(Rules)
  BY <1>1, <1>4, SeqDef
<1>6. \A n \in DOMAIN PerInstrument(rule) : PerInstrument(rule)[n] \in {rule} \X SafetyInstruments
  <2> TAKE n \in DOMAIN PerInstrument(rule)
  <2>1. n \in DOMAIN InstrumentOrder /\ InstrumentOrder[n] \in SafetyInstruments
    BY <1>1, <1>3
  <2>2. PerInstrument(rule)[n] = <<rule, InstrumentOrder[n]>>
    BY <2>1, <1>2
  <2> QED BY <2>1, <2>2
<1>7. ASSUME NEW m \in DOMAIN PerInstrument(rule), NEW n \in DOMAIN PerInstrument(rule),
             PerInstrument(rule)[m] = PerInstrument(rule)[n]
      PROVE  m = n
  <2>1. InstrumentOrder[m] = InstrumentOrder[n]
    BY <1>2, <1>3, <1>7
  <2> QED BY <2>1, <1>3, SafetyAssumption
<1> QED BY <1>5, <1>6, <1>7 DEF Distinct

\* The rules of the evaluator: none is listed twice, and every target has its manual switch.
LEMMA RuleOrderDistinct ==
    /\ RuleOrder \in Seq(Rules) /\ Distinct(RuleOrder)
    /\ \A target \in Targets : <<"MANUAL_KILL_SWITCH", target>> \in ManualRules
<1> DEFINE g1 == <<Globally("MANUAL_KILL_SWITCH")>>
           g2 == << Globally("APPLICATION_RUNTIME_HEALTH"), Globally("TRADE_LIFECYCLE_HEALTH"),
                    Globally("JOURNAL_RUNTIME_HEALTH"), Globally("DAILY_LOSS_LIMIT"),
                    Globally("ACCOUNT_DRAWDOWN_LIMIT"), Globally("MAXIMUM_TRADES_LIMIT"),
                    Globally("CONSECUTIVE_LOSS_LIMIT") >>
           p1 == PerInstrument("MANUAL_KILL_SWITCH")
           p2 == PerInstrument("ACTIVE_EXECUTION_PRESENT")
           p3 == PerInstrument("ACTIVE_POSITION_PRESENT")
           p4 == PerInstrument("MARKET_DATA_STALENESS")
           s1 == g1 \o p1
           s2 == s1 \o g2
           s3 == s2 \o p2
           s4 == s3 \o p3
           s5 == s4 \o p4
<1>1. g1 \in Seq(Rules) /\ Distinct(g1) /\ \A n \in DOMAIN g1 : g1[n] = <<"MANUAL_KILL_SWITCH", "GLOBAL">>
  BY DEF Globally, Rules, RuleNames, Targets, Distinct
<1>2. /\ g2 \in Seq(Rules) /\ Distinct(g2)
      /\ \A n \in DOMAIN g2 : g2[n][1] \in {"APPLICATION_RUNTIME_HEALTH", "TRADE_LIFECYCLE_HEALTH", "JOURNAL_RUNTIME_HEALTH",
              "DAILY_LOSS_LIMIT", "ACCOUNT_DRAWDOWN_LIMIT", "MAXIMUM_TRADES_LIMIT", "CONSECUTIVE_LOSS_LIMIT"}
  BY DEF Globally, Rules, RuleNames, Targets, Distinct
<1>3. /\ p1 \in Seq(Rules) /\ Distinct(p1)
      /\ \A n \in DOMAIN p1 : p1[n] \in {"MANUAL_KILL_SWITCH"} \X SafetyInstruments
  BY PerInstrumentDistinct DEF RuleNames
<1>4. /\ p2 \in Seq(Rules) /\ Distinct(p2)
      /\ \A n \in DOMAIN p2 : p2[n] \in {"ACTIVE_EXECUTION_PRESENT"} \X SafetyInstruments
  BY PerInstrumentDistinct DEF RuleNames
<1>5. /\ p3 \in Seq(Rules) /\ Distinct(p3)
      /\ \A n \in DOMAIN p3 : p3[n] \in {"ACTIVE_POSITION_PRESENT"} \X SafetyInstruments
  BY PerInstrumentDistinct DEF RuleNames
<1>6. /\ p4 \in Seq(Rules) /\ Distinct(p4)
      /\ \A n \in DOMAIN p4 : p4[n] \in {"MARKET_DATA_STALENESS"} \X SafetyInstruments
  BY PerInstrumentDistinct DEF RuleNames
<1> HIDE DEF g1, g2, p1, p2, p3, p4
\* The names of a concatenation are those of its parts.
<1>7. ASSUME NEW s \in Seq(Rules), NEW t \in Seq(Rules)
      PROVE  /\ \A n \in DOMAIN (s \o t) :
                  (\E m \in DOMAIN s : (s \o t)[n] = s[m]) \/ (\E m \in DOMAIN t : (s \o t)[n] = t[m])
             /\ \A m \in DOMAIN s : (s \o t)[m] = s[m] /\ m \in DOMAIN (s \o t)
             /\ \A m \in DOMAIN t : (s \o t)[m + Len(s)] = t[m] /\ m + Len(s) \in DOMAIN (s \o t)
  <2>1. /\ DOMAIN s = 1..Len(s) /\ DOMAIN t = 1..Len(t) /\ DOMAIN (s \o t) = 1..(Len(s) + Len(t))
        /\ Len(s) \in Nat /\ Len(t) \in Nat
        /\ \A i \in 1..(Len(s) + Len(t)) : (s \o t)[i] = IF i <= Len(s) THEN s[i] ELSE t[i - Len(s)]
    BY ConcatProperties, LenProperties
  <2>2. ASSUME NEW n \in DOMAIN (s \o t), n > Len(s)
        PROVE  n - Len(s) \in DOMAIN t /\ (s \o t)[n] = t[n - Len(s)]
    BY <2>1, <2>2
  <2>3. ASSUME NEW n \in DOMAIN (s \o t), n <= Len(s)
        PROVE  n \in DOMAIN s /\ (s \o t)[n] = s[n]
    BY <2>1, <2>3
  <2>4. \A m \in DOMAIN s : (s \o t)[m] = s[m] /\ m \in DOMAIN (s \o t)
    BY <2>1
  <2>5. ASSUME NEW m \in DOMAIN t
        PROVE  (s \o t)[m + Len(s)] = t[m] /\ m + Len(s) \in DOMAIN (s \o t)
    <3>1. m + Len(s) \in 1..(Len(s) + Len(t)) /\ ~(m + Len(s) <= Len(s)) /\ (m + Len(s)) - Len(s) = m
      BY <2>1
    <3> QED BY <3>1, <2>1
  <2>6. \A n \in DOMAIN (s \o t) :
                  (\E m \in DOMAIN s : (s \o t)[n] = s[m]) \/ (\E m \in DOMAIN t : (s \o t)[n] = t[m])
    BY <2>1, <2>2, <2>3
  <2> QED BY <2>4, <2>5, <2>6
<1>8. /\ s1 \in Seq(Rules) /\ Distinct(s1) /\ \A n \in DOMAIN s1 : s1[n][1] = "MANUAL_KILL_SWITCH"
      /\ \A target \in Targets : \E n \in DOMAIN s1 : s1[n] = <<"MANUAL_KILL_SWITCH", target>>
  <2>1. s1 \in Seq(Rules) /\ Distinct(s1)
    BY <1>1, <1>3, ConcatDistinct, SafetyAssumption
  <2>2. \A n \in DOMAIN s1 : s1[n][1] = "MANUAL_KILL_SWITCH"
    BY <1>1, <1>3, <1>7
  <2>3. \E n \in DOMAIN s1 : s1[n] = <<"MANUAL_KILL_SWITCH", "GLOBAL">>
    <3>1. 1 \in DOMAIN g1 /\ g1[1] = <<"MANUAL_KILL_SWITCH", "GLOBAL">>
      BY <1>1 DEF g1
    <3>2. (g1 \o p1)[1] = g1[1] /\ 1 \in DOMAIN (g1 \o p1)
      BY <3>1, <1>1, <1>3, <1>7
    <3> QED BY <3>1, <3>2
  <2>4. ASSUME NEW i \in SafetyInstruments
        PROVE  \E n \in DOMAIN s1 : s1[n] = <<"MANUAL_KILL_SWITCH", i>>
    <3>1. PICK n \in DOMAIN p1 : p1[n] = <<"MANUAL_KILL_SWITCH", i>>
      BY DEF p1, PerInstrument, SafetyInstruments
    <3>2. (g1 \o p1)[n + Len(g1)] = p1[n] /\ n + Len(g1) \in DOMAIN (g1 \o p1)
      BY <1>1, <1>3, <1>7
    <3> QED BY <3>1, <3>2
  <2> QED BY <2>1, <2>2, <2>3, <2>4 DEF Targets
<1> HIDE DEF s1
<1>9. /\ s2 \in Seq(Rules) /\ Distinct(s2)
      /\ \A n \in DOMAIN s2 : s2[n][1] \notin {"ACTIVE_EXECUTION_PRESENT", "ACTIVE_POSITION_PRESENT", "MARKET_DATA_STALENESS"}
  <2>1. s2 \in Seq(Rules) /\ Distinct(s2)
    BY <1>2, <1>8, ConcatDistinct
  <2>2. ASSUME NEW n \in DOMAIN s2
        PROVE  s2[n][1] \notin {"ACTIVE_EXECUTION_PRESENT", "ACTIVE_POSITION_PRESENT", "MARKET_DATA_STALENESS"}
    <3>1. (\E m \in DOMAIN s1 : s2[n] = s1[m]) \/ (\E m \in DOMAIN g2 : s2[n] = g2[m])
      BY <1>2, <1>8, <1>7
    <3> QED BY <3>1, <1>2, <1>8
  <2> QED BY <2>1, <2>2
<1>10. \A n \in DOMAIN s1 : s2[n] = s1[n] /\ n \in DOMAIN s2
  BY <1>2, <1>8, <1>7
<1> HIDE DEF s2
<1>11. /\ s3 \in Seq(Rules) /\ Distinct(s3)
       /\ \A n \in DOMAIN s3 : s3[n][1] \notin {"ACTIVE_POSITION_PRESENT", "MARKET_DATA_STALENESS"}
       /\ \A n \in DOMAIN s2 : s3[n] = s2[n] /\ n \in DOMAIN s3
  <2>1. s3 \in Seq(Rules) /\ Distinct(s3)
    BY <1>4, <1>9, ConcatDistinct
  <2> QED BY <2>1, <1>4, <1>9, <1>7
<1> HIDE DEF s3
<1>12. /\ s4 \in Seq(Rules) /\ Distinct(s4) /\ \A n \in DOMAIN s4 : s4[n][1] # "MARKET_DATA_STALENESS"
       /\ \A n \in DOMAIN s3 : s4[n] = s3[n] /\ n \in DOMAIN s4
  <2>1. s4 \in Seq(Rules) /\ Distinct(s4)
    BY <1>5, <1>11, ConcatDistinct
  <2> QED BY <2>1, <1>5, <1>11, <1>7
<1> HIDE DEF s4
<1>13. /\ s5 \in Seq(Rules) /\ Distinct(s5)
       /\ \A n \in DOMAIN s4 : s5[n] = s4[n] /\ n \in DOMAIN s5
  <2>1. s5 \in Seq(Rules) /\ Distinct(s5)
    BY <1>6, <1>12, ConcatDistinct
  <2> QED BY <2>1, <1>6, <1>12, <1>7
<1>14. RuleOrder = s5
  BY DEF RuleOrder, s1, s2, s3, s4, g1, g2, p1, p2, p3, p4
<1> HIDE DEF s5
<1>15. ASSUME NEW target \in Targets PROVE <<"MANUAL_KILL_SWITCH", target>> \in ManualRules
  <2>1. PICK n \in DOMAIN s1 : s1[n] = <<"MANUAL_KILL_SWITCH", target>>
    BY <1>8
  <2>2. n \in DOMAIN RuleOrder /\ RuleOrder[n] = <<"MANUAL_KILL_SWITCH", target>>
    BY <2>1, <1>10, <1>11, <1>12, <1>13, <1>14
  <2> QED BY <2>2 DEF ManualRules, SafetyRules
<1> QED BY <1>13, <1>14, <1>15

\* InRuleOrder lists every rule of a set once.
LEMMA RulesInOrder ==
    ASSUME NEW rules \in SUBSET SafetyRules
    PROVE  \E N \in Nat :
             /\ InRuleOrder(rules) \in [1..N -> rules]
             /\ \A j, k \in 1..N : InRuleOrder(rules)[j] = InRuleOrder(rules)[k] => j = k
             /\ \A r \in rules : \E k \in 1..N : InRuleOrder(rules)[k] = r
<1> DEFINE places == {n \in DOMAIN RuleOrder : RuleOrder[n] \in rules}
           N == Cardinality(places)
           UpTo(n) == {m \in places : m <= n}
           rank == [n \in places |-> Cardinality(UpTo(n))]
           Place(k) == CHOOSE n \in places : Cardinality(UpTo(n)) = k
<1>1. /\ DOMAIN RuleOrder = 1..Len(RuleOrder) /\ Len(RuleOrder) \in Nat
      /\ \A m, n \in DOMAIN RuleOrder : RuleOrder[m] = RuleOrder[n] => m = n
  BY RuleOrderDistinct, LenProperties DEF Distinct
<1>2. IsFiniteSet(places) /\ N \in Nat
  <2>1. IsFiniteSet(DOMAIN RuleOrder)
    BY <1>1, FS_Interval
  <2>2. places \in SUBSET (DOMAIN RuleOrder)
    OBVIOUS
  <2> QED BY <2>1, <2>2, FS_Subset, FS_CardinalityType
<1>3. ASSUME NEW n \in places
      PROVE  IsFiniteSet(UpTo(n)) /\ Cardinality(UpTo(n)) \in 1..N
  <2>1. UpTo(n) \in SUBSET places /\ n \in UpTo(n)
    BY <1>1
  <2>2. IsFiniteSet(UpTo(n)) /\ Cardinality(UpTo(n)) <= N
    BY <2>1, <1>2, FS_Subset
  <2>3. Cardinality(UpTo(n)) \in Nat /\ Cardinality(UpTo(n)) # 0
    <3> HIDE DEF UpTo
    <3> QED BY <2>1, <2>2, FS_CardinalityType, FS_EmptySet
  <2> QED BY <2>2, <2>3, <1>2
<1>4. ASSUME NEW m \in places, NEW n \in places, m < n
      PROVE  Cardinality(UpTo(m)) # Cardinality(UpTo(n))
  <2>1. UpTo(m) \in SUBSET UpTo(n) /\ n \in UpTo(n) /\ n \notin UpTo(m)
    BY <1>1, <1>4
  <2>2. IsFiniteSet(UpTo(n))
    BY <1>3
  <2> HIDE DEF UpTo
  <2> QED BY <2>1, <2>2, FS_Subset
<1>5. \A m, n \in places : Cardinality(UpTo(m)) = Cardinality(UpTo(n)) => m = n
  <2> TAKE m, n \in places
  <2>1. m \in Int /\ n \in Int
    BY <1>1
  <2>2. m < n \/ n < m \/ m = n
    BY <2>1
  <2> HIDE DEF UpTo, places
  <2> QED BY <2>2, <1>4
<1>6. rank \in Injection(places, 1..N)
  <2>1. rank \in [places -> 1..N]
    BY <1>3
  <2>2. \A m, n \in places : rank[m] = rank[n] => m = n
    BY <1>5
  <2> HIDE DEF rank, N
  <2> QED BY <2>1, <2>2 DEF Injection, IsInjective
<1>7. rank \in Surjection(places, 1..N)
  <2>1. IsFiniteSet(1..N) /\ Cardinality(1..N) = N
    BY <1>2, FS_Interval
  <2> HIDE DEF rank
  <2> QED BY <2>1, <1>6, FS_Injection
<1>8. ASSUME NEW k \in 1..N
      PROVE  Place(k) \in places /\ Cardinality(UpTo(Place(k))) = k
  <2>1. \E n \in places : Cardinality(UpTo(n)) = k
    <3>1. \E n \in places : rank[n] = k
      <4> HIDE DEF rank, N, UpTo
      <4> QED BY <1>7 DEF Surjection
    <3> QED BY <3>1
  <2> HIDE DEF places, UpTo
  <2> QED BY <2>1
<1>9. InRuleOrder(rules) = [k \in 1..N |-> RuleOrder[Place(k)]]
  BY DEF InRuleOrder
<1>10. InRuleOrder(rules) \in [1..N -> rules]
  <2>1. \A k \in 1..N : RuleOrder[Place(k)] \in rules
    <3> TAKE k \in 1..N
    <3>1. Place(k) \in places
      BY <1>8
    <3> HIDE DEF Place
    <3> QED BY <3>1
  <2> HIDE DEF Place, N
  <2> QED BY <1>9, <2>1
<1>11. \A j, k \in 1..N : InRuleOrder(rules)[j] = InRuleOrder(rules)[k] => j = k
  <2> SUFFICES ASSUME NEW j \in 1..N, NEW k \in 1..N, InRuleOrder(rules)[j] = InRuleOrder(rules)[k]
               PROVE  j = k
    OBVIOUS
  <2>1. RuleOrder[Place(j)] = RuleOrder[Place(k)]
    <3> HIDE DEF Place, N
    <3> QED BY <1>9
  <2>2. /\ Place(j) \in places /\ Cardinality(UpTo(Place(j))) = j
        /\ Place(k) \in places /\ Cardinality(UpTo(Place(k))) = k
    BY <1>8
  <2>3. Place(j) \in DOMAIN RuleOrder /\ Place(k) \in DOMAIN RuleOrder
    <3> HIDE DEF Place
    <3> QED BY <2>2
  <2>4. Place(j) = Place(k)
    <3> HIDE DEF Place
    <3> QED BY <2>1, <2>3, <1>1
  <2> HIDE DEF Place, UpTo
  <2> QED BY <2>2, <2>4
<1>12. ASSUME NEW r \in rules PROVE \E k \in 1..N : InRuleOrder(rules)[k] = r
  <2>1. PICK n \in DOMAIN RuleOrder : RuleOrder[n] = r
    BY DEF SafetyRules
  <2>2. n \in places
    BY <2>1
  <2> DEFINE k == Cardinality(UpTo(n))
  <2>3. k \in 1..N
    BY <2>2, <1>3
  <2>4. Place(k) \in places /\ Cardinality(UpTo(Place(k))) = k
    BY <2>3, <1>8
  <2>5. Place(k) = n
    <3> HIDE DEF Place, UpTo, places
    <3> QED BY <2>2, <2>4, <1>5
  <2>6. InRuleOrder(rules)[k] = RuleOrder[Place(k)]
    <3> HIDE DEF Place, N, k
    <3> QED BY <1>9, <2>3
  <2> HIDE DEF Place, k, N
  <2> QED BY <2>1, <2>3, <2>5, <2>6
<1> HIDE DEF N
<1> QED BY <1>2, <1>10, <1>11, <1>12 DEF N
-----------------------------------------------------------------------------
(* The incidents *)

IncidentRecord ==
    [rule : Rules \cup {<<"NONE", "GLOBAL">>}, critical : BOOLEAN, openedAt : Nat, open : BOOLEAN]

\* The history an update keeps: an open incident is of a rule of the engine, no two of the same one, and an
\* incident that waits for a manual release is critical.
ProperIncidents(incs) ==
    /\ incs \in Seq(IncidentRecord)
    /\ \A n \in DOMAIN incs :
          incs[n].open => incs[n].rule \in SafetyRules /\ (ManualRequired(incs[n].rule) => incs[n].critical)
    /\ \A m, n \in DOMAIN incs : m # n /\ incs[m].open /\ incs[n].open => incs[m].rule # incs[n].rule

\* What the evaluator returns, over all rules or over the manual switches alone.
ProperEvaluations(evs) ==
    /\ DOMAIN evs \in {{}, ManualRules, SafetyRules}
    /\ \A r \in DOMAIN evs : evs[r] \in Severities
    /\ \A r \in Failed(evs) : ManualRequired(r) => evs[r] = "CRITICAL"

\* The incidents that an update opens, and those it leaves behind.
Opens(new, incs, evs, ts) ==
    \E N \in Nat :
       /\ new \in [1..N -> IncidentRecord]
       /\ \A k \in 1..N : /\ new[k].open /\ new[k].openedAt = ts
                          /\ new[k].rule \in SafetyRules /\ new[k].rule \notin OpenRules(incs)
                          /\ ManualRequired(new[k].rule) => new[k].critical
       /\ \A j, k \in 1..N : new[j].rule = new[k].rule => j = k
       /\ \A r \in Failed(evs) : r \notin OpenRules(incs) => \E k \in 1..N : new[k].rule = r

Follows(out, incs, evs, ts) ==
    /\ ProperIncidents(out) /\ Len(out) <= IncidentLimit
    /\ \A n \in DOMAIN out :
          out[n].open => \/ out[n].openedAt = ts
                         \/ \E m \in DOMAIN incs : incs[m].open /\ incs[m].openedAt = out[n].openedAt
    /\ Len(out) < IncidentLimit => Failed(evs) \subseteq OpenRules(out)
    /\ Len(out) # IncidentLimit => \A r \in OpenRules(incs) : ManualRequired(r) => r \in OpenRules(out)

LEMMA OpenedByUpdate ==
    ASSUME NEW incs, NEW evs, ProperEvaluations(evs), NEW ts \in Nat
    PROVE  Opens(NewIncidents(incs, evs, ts), incs, evs, ts)
<1> DEFINE fresh == Failed(evs) \ OpenRules(incs)
           rules == InRuleOrder(fresh)
<1>1. fresh \in SUBSET SafetyRules /\ SafetyRules \subseteq Rules
  <2>1. SafetyRules \subseteq Rules
    BY RuleOrderDistinct, LenProperties DEF SafetyRules
  <2> QED BY <2>1 DEF Failed, ProperEvaluations, ManualRules
<1>2. PICK N \in Nat :
        /\ rules \in [1..N -> fresh]
        /\ \A j, k \in 1..N : rules[j] = rules[k] => j = k
        /\ \A r \in fresh : \E k \in 1..N : rules[k] = r
  <2> HIDE DEF fresh
  <2> QED BY <1>1, RulesInOrder
<1>3. NewIncidents(incs, evs, ts) = [n \in 1..N |-> Incident(rules[n], evs[rules[n]] = "CRITICAL", ts)]
  <2>1. DOMAIN rules = 1..N
    BY <1>2
  <2>2. NewIncidents(incs, evs, ts) = [n \in DOMAIN rules |-> Incident(rules[n], evs[rules[n]] = "CRITICAL", ts)]
    BY DEF NewIncidents
  <2> HIDE DEF rules
  <2> QED BY <2>1, <2>2
<1> HIDE DEF rules
<1>4. \A k \in 1..N : rules[k] \in Failed(evs) /\ rules[k] \notin OpenRules(incs) /\ rules[k] \in SafetyRules
  BY <1>1, <1>2
<1> DEFINE new == NewIncidents(incs, evs, ts)
<1>5. \A k \in 1..N : /\ new[k] \in IncidentRecord
                      /\ new[k].open /\ new[k].openedAt = ts
                      /\ new[k].rule = rules[k]
                      /\ ManualRequired(new[k].rule) => new[k].critical
  <2> TAKE k \in 1..N
  <2> DEFINE critical == evs[rules[k]] = "CRITICAL"
  <2>1. new[k] = [rule |-> rules[k], critical |-> critical, openedAt |-> ts, open |-> TRUE]
    BY <1>3 DEF Incident
  <2>2. rules[k] \in Failed(evs) /\ rules[k] \in Rules
    BY <1>1, <1>4
  <2>3. ManualRequired(rules[k]) => critical
    BY <2>2 DEF ProperEvaluations
  <2>4. critical \in BOOLEAN
    OBVIOUS
  <2> HIDE DEF critical, new
  <2>5. /\ new[k].rule = rules[k] /\ new[k].critical = critical /\ new[k].openedAt = ts /\ new[k].open = TRUE
        /\ new[k] \in IncidentRecord
    BY <2>1, <2>2, <2>4 DEF IncidentRecord
  <2> QED BY <2>3, <2>5
<1>6. new \in [1..N -> IncidentRecord]
  <2>1. new = [n \in 1..N |-> new[n]]
    BY <1>3
  <2> HIDE DEF new
  <2> QED BY <2>1, <1>5
<1> HIDE DEF new
<1>7. \A j, k \in 1..N : new[j].rule = new[k].rule => j = k
  BY <1>2, <1>5
<1>8. \A r \in Failed(evs) : r \notin OpenRules(incs) => \E k \in 1..N : new[k].rule = r
  BY <1>2, <1>5
<1>9. Opens(new, incs, evs, ts)
  BY <1>4, <1>5, <1>6, <1>7, <1>8 DEF Opens
<1> QED BY <1>9 DEF new

\* The bound drops the oldest incidents, and leaves the history full when it drops any.
LEMMA TrimDropsOldest ==
    ASSUME NEW full \in Seq(IncidentRecord)
    PROVE  \E d \in Nat :
             /\ TrimIncidents(full) \in Seq(IncidentRecord)
             /\ Len(full) = Len(TrimIncidents(full)) + d
             /\ \A n \in 1..Len(TrimIncidents(full)) : TrimIncidents(full)[n] = full[n + d]
             /\ Len(TrimIncidents(full)) <= IncidentLimit
             /\ d # 0 => Len(TrimIncidents(full)) = IncidentLimit
<1>1. Len(full) \in Nat /\ IncidentLimit \in Nat \ {0}
  BY LenProperties, SafetyAssumption
<1>2. CASE Len(full) > IncidentLimit
  <2> DEFINE d == Len(full) - IncidentLimit
             out == SubSeq(full, d + 1, Len(full))
  <2>1. d \in Nat /\ d + 1 \in Int /\ TrimIncidents(full) = out
    BY <1>1, <1>2 DEF TrimIncidents
  <2>2. \A i \in (d + 1)..Len(full) : full[i] \in IncidentRecord
    BY <1>1, <2>1, ElementOfSeq
  <2>3. /\ out \in Seq(IncidentRecord)
        /\ Len(out) = IF d + 1 <= Len(full) THEN Len(full) - (d + 1) + 1 ELSE 0
        /\ \A i \in 1..(Len(full) - (d + 1) + 1) : out[i] = full[(d + 1) + i - 1]
    <3> HIDE DEF d
    <3> QED BY <1>1, <2>1, <2>2, SubSeqProperties
  <2>4. Len(out) = IncidentLimit
    BY <1>1, <1>2, <2>3
  <2>5. \A n \in 1..Len(out) : out[n] = full[n + d]
    <3> TAKE n \in 1..Len(out)
    <3>1. n \in 1..(Len(full) - (d + 1) + 1) /\ (d + 1) + n - 1 = n + d
      BY <1>1, <1>2, <2>4
    <3> HIDE DEF d, out
    <3> QED BY <3>1, <2>3
  <2>6. Len(full) = Len(out) + d
    BY <1>1, <2>4
  <2>7. Len(out) <= IncidentLimit
    BY <1>1, <2>4
  <2>8. d \in Nat /\ TrimIncidents(full) = out /\ out \in Seq(IncidentRecord)
    BY <2>1, <2>3
  <2> HIDE DEF out, d
  <2> USE <2>8
  <2> WITNESS d \in Nat
  <2> QED BY <2>4, <2>5, <2>6, <2>7, <2>8
<1>3. CASE ~(Len(full) > IncidentLimit)
  <2>1. TrimIncidents(full) = full
    BY <1>3 DEF TrimIncidents
  <2>2. \A n \in 1..Len(full) : n + 0 = n
    OBVIOUS
  <2> QED BY <1>1, <1>3, <2>1, <2>2
<1> QED BY <1>2, <1>3

\* Incidents appended to incidents, with the library's sequences.
LEMMA Concatenated ==
    ASSUME NEW s \in Seq(IncidentRecord), NEW t \in Seq(IncidentRecord)
    PROVE  /\ s \o t \in Seq(IncidentRecord) /\ Len(s \o t) = Len(s) + Len(t)
           /\ \A i \in 1..(Len(s) + Len(t)) : (s \o t)[i] = IF i <= Len(s) THEN s[i] ELSE t[i - Len(s)]
  BY ConcatProperties

\* _update_incidents keeps the history proper: it opens the incidents of the rules that fail, all stamped
\* with the update, and closes none that waits for a manual release, but what the bound drops.
LEMMA UpdateKeepsIncidents ==
    ASSUME NEW incs, ProperIncidents(incs), NEW evs, ProperEvaluations(evs), NEW ts \in Nat
    PROVE  Follows(UpdateIncidents(incs, evs, ts), incs, evs, ts)
<1> DEFINE kept == [n \in DOMAIN incs |-> IF Resolves(incs[n], evs) THEN ResolvedIncident ELSE incs[n]]
           new  == NewIncidents(incs, evs, ts)
           full == kept \o new
           out  == TrimIncidents(full)
<1>1. DOMAIN incs = 1..Len(incs) /\ Len(incs) \in Nat /\ \A n \in DOMAIN incs : incs[n] \in IncidentRecord
  BY LenProperties, ElementOfSeq DEF ProperIncidents
<1>2. PICK N \in Nat :
        /\ new \in [1..N -> IncidentRecord]
        /\ \A k \in 1..N : /\ new[k].open /\ new[k].openedAt = ts
                           /\ new[k].rule \in SafetyRules /\ new[k].rule \notin OpenRules(incs)
                           /\ ManualRequired(new[k].rule) => new[k].critical
        /\ \A j, k \in 1..N : new[j].rule = new[k].rule => j = k
        /\ \A r \in Failed(evs) : r \notin OpenRules(incs) => \E k \in 1..N : new[k].rule = r
  <2>1. Opens(new, incs, evs, ts)
    BY OpenedByUpdate
  <2> HIDE DEF new
  <2> QED BY <2>1 DEF Opens
<1> HIDE DEF new
<1>3. ResolvedIncident \in IncidentRecord /\ ~ResolvedIncident.open
  BY DEF ResolvedIncident, IncidentRecord
<1>4. /\ kept \in [1..Len(incs) -> IncidentRecord]
      /\ \A n \in DOMAIN incs :
            /\ kept[n].open => incs[n].open /\ kept[n] = incs[n]
            /\ incs[n].open /\ ~Resolves(incs[n], evs) => kept[n] = incs[n]
  <2>1. \A n \in DOMAIN incs : kept[n] = IF Resolves(incs[n], evs) THEN ResolvedIncident ELSE incs[n]
    OBVIOUS
  <2>2. \A n \in 1..Len(incs) : (IF Resolves(incs[n], evs) THEN ResolvedIncident ELSE incs[n]) \in IncidentRecord
    BY <1>1, <1>3
  <2>3. kept \in [1..Len(incs) -> IncidentRecord]
    BY <1>1, <2>2
  <2> HIDE DEF kept
  <2> QED BY <2>1, <2>3, <1>3
<1> HIDE DEF kept
<1>5. /\ full \in Seq(IncidentRecord) /\ Len(full) = Len(incs) + N
      /\ \A n \in 1..Len(incs) : full[n] = kept[n]
      /\ \A k \in 1..N : full[Len(incs) + k] = new[k]
      /\ \A n \in 1..Len(full) : n \in 1..Len(incs) \/ (n - Len(incs) \in 1..N /\ full[n] = new[n - Len(incs)])
  <2>1. kept \in Seq(IncidentRecord) /\ new \in Seq(IncidentRecord)
    BY <1>1, <1>2, <1>4, SeqDef
  <2>2. Len(kept) = Len(incs) /\ Len(new) = N
    BY <1>1, <1>2, <1>4, <2>1, LenProperties
  <2>3. /\ full \in Seq(IncidentRecord) /\ Len(full) = Len(incs) + N
        /\ \A i \in 1..(Len(incs) + N) : full[i] = IF i <= Len(incs) THEN kept[i] ELSE new[i - Len(incs)]
    <3> HIDE DEF out
    <3>1. /\ full \in Seq(IncidentRecord) /\ Len(full) = Len(kept) + Len(new)
          /\ \A i \in 1..(Len(kept) + Len(new)) : full[i] = IF i <= Len(kept) THEN kept[i] ELSE new[i - Len(kept)]
      BY <2>1, Concatenated
    <3> HIDE DEF full
    <3> QED BY <2>2, <3>1
  <2> HIDE DEF full
  <2>4. \A n \in 1..Len(incs) : full[n] = kept[n]
    BY <1>1, <2>3
  <2>5. ASSUME NEW k \in 1..N PROVE full[Len(incs) + k] = new[k]
    <3>1. Len(incs) + k \in 1..(Len(incs) + N) /\ ~(Len(incs) + k <= Len(incs)) /\ (Len(incs) + k) - Len(incs) = k
      BY <1>1
    <3> QED BY <3>1, <2>3
  <2>6. ASSUME NEW n \in 1..Len(full), n \notin 1..Len(incs)
        PROVE  n - Len(incs) \in 1..N /\ full[n] = new[n - Len(incs)]
    BY <2>3, <2>6, <1>1
  <2> QED BY <2>3, <2>4, <2>5, <2>6
<1> HIDE DEF full
<1>6. PICK d \in Nat :
        /\ out \in Seq(IncidentRecord)
        /\ Len(full) = Len(out) + d
        /\ \A n \in 1..Len(out) : out[n] = full[n + d]
        /\ Len(out) <= IncidentLimit
        /\ d # 0 => Len(out) = IncidentLimit
  BY <1>5, TrimDropsOldest
<1> HIDE DEF out
<1>7. /\ DOMAIN out = 1..Len(out) /\ Len(out) \in Nat
      /\ \A n \in DOMAIN out : n + d \in 1..Len(full) /\ out[n] = full[n + d]
  <2>1. DOMAIN out = 1..Len(out) /\ Len(out) \in Nat
    BY <1>6, LenProperties
  <2> QED BY <1>6, <2>1
\* Of the whole history, before the bound is applied.
<1>8. \A n \in 1..Len(full) :
        full[n].open => /\ full[n].rule \in SafetyRules /\ (ManualRequired(full[n].rule) => full[n].critical)
                        /\ \/ full[n].openedAt = ts
                           \/ \E m \in DOMAIN incs : incs[m].open /\ incs[m].openedAt = full[n].openedAt
  <2> SUFFICES ASSUME NEW n \in 1..Len(full), full[n].open
               PROVE  /\ full[n].rule \in SafetyRules /\ (ManualRequired(full[n].rule) => full[n].critical)
                      /\ \/ full[n].openedAt = ts
                         \/ \E m \in DOMAIN incs : incs[m].open /\ incs[m].openedAt = full[n].openedAt
    OBVIOUS
  <2>1. CASE n \in 1..Len(incs)
    <3>1. incs[n].open /\ full[n] = incs[n] /\ n \in DOMAIN incs
      BY <2>1, <1>1, <1>4, <1>5
    <3> QED BY <3>1 DEF ProperIncidents
  <2>2. CASE n \notin 1..Len(incs)
    <3>1. n - Len(incs) \in 1..N /\ full[n] = new[n - Len(incs)]
      BY <2>2, <1>5
    <3> QED BY <3>1, <1>2
  <2> QED BY <2>1, <2>2
<1>9. \A m, n \in 1..Len(full) : m # n /\ full[m].open /\ full[n].open => full[m].rule # full[n].rule
  <2>1. ASSUME NEW n \in 1..Len(incs), full[n].open
        PROVE  n \in DOMAIN incs /\ incs[n].open /\ full[n] = incs[n] /\ full[n].rule \in OpenRules(incs)
    <3>1. incs[n].open /\ full[n] = incs[n] /\ n \in DOMAIN incs
      BY <2>1, <1>1, <1>4, <1>5
    <3> QED BY <3>1 DEF OpenRules
  <2>2. ASSUME NEW n \in 1..Len(full), n \notin 1..Len(incs)
        PROVE  /\ n - Len(incs) \in 1..N /\ full[n].rule = new[n - Len(incs)].rule
               /\ full[n].rule \notin OpenRules(incs)
    <3>1. n - Len(incs) \in 1..N /\ full[n] = new[n - Len(incs)]
      BY <2>2, <1>5
    <3> QED BY <3>1, <1>2
  <2> SUFFICES ASSUME NEW m \in 1..Len(full), NEW n \in 1..Len(full), m # n, full[m].open, full[n].open,
                      full[m].rule = full[n].rule
               PROVE  FALSE
    OBVIOUS
  <2>3. CASE m \in 1..Len(incs) /\ n \in 1..Len(incs)
    BY <2>1, <2>3 DEF ProperIncidents
  <2>4. CASE m \in 1..Len(incs) /\ n \notin 1..Len(incs)
    BY <2>1, <2>2, <2>4
  <2>5. CASE m \notin 1..Len(incs) /\ n \in 1..Len(incs)
    BY <2>1, <2>2, <2>5
  <2>6. CASE m \notin 1..Len(incs) /\ n \notin 1..Len(incs)
    <3>1. m - Len(incs) = n - Len(incs)
      BY <2>2, <2>6, <1>2
    <3>2. m \in Int /\ n \in Int /\ Len(incs) \in Int
      BY <1>1
    <3> QED BY <3>1, <3>2
  <2> QED BY <2>3, <2>4, <2>5, <2>6
<1>10. ProperIncidents(out)
  <2>1. \A n \in DOMAIN out :
          out[n].open => out[n].rule \in SafetyRules /\ (ManualRequired(out[n].rule) => out[n].critical)
    BY <1>7, <1>8
  <2>2. \A m, n \in DOMAIN out : m # n => m + d # n + d
    BY <1>7
  <2>3. \A m, n \in DOMAIN out : m # n /\ out[m].open /\ out[n].open => out[m].rule # out[n].rule
    BY <1>7, <1>9, <2>2
  <2> QED BY <1>6, <2>1, <2>3 DEF ProperIncidents
<1>11. \A n \in DOMAIN out :
         out[n].open => \/ out[n].openedAt = ts
                        \/ \E m \in DOMAIN incs : incs[m].open /\ incs[m].openedAt = out[n].openedAt
  BY <1>7, <1>8
\* An incident that is open and not resolved by this update stays, when nothing is dropped.
<1>12. ASSUME d = 0, NEW n \in 1..Len(full), full[n].open
       PROVE  full[n].rule \in OpenRules(out)
  <2>1. n \in DOMAIN out /\ out[n] = full[n]
    BY <1>6, <1>7, <1>12
  <2> QED BY <2>1, <1>12 DEF OpenRules
<1>13. ASSUME d = 0, NEW r \in OpenRules(incs), ~(Passes(evs, r) /\ ~ManualRequired(r))
       PROVE  r \in OpenRules(out)
  <2>1. PICK n \in DOMAIN incs : incs[n].open /\ incs[n].rule = r
    BY DEF OpenRules
  <2>2. kept[n] = incs[n]
    BY <2>1, <1>4, <1>13 DEF Resolves
  <2>3. full[n] = incs[n] /\ n \in 1..Len(full)
    BY <2>2, <1>1, <1>2, <1>5
  <2> QED BY <2>1, <2>3, <1>12, <1>13
<1>14. ASSUME d = 0, NEW r \in Failed(evs), r \notin OpenRules(incs)
       PROVE  r \in OpenRules(out)
  <2>1. PICK k \in 1..N : new[k].rule = r
    BY <1>2, <1>14
  <2>2. new[k].open /\ full[Len(incs) + k] = new[k] /\ Len(incs) + k \in 1..Len(full)
    BY <1>1, <1>2, <1>5
  <2> QED BY <2>1, <2>2, <1>12, <1>14
<1>15. \A r \in Failed(evs) : ~Passes(evs, r)
  BY DEF Failed, Fails, Passes
<1>16. UpdateIncidents(incs, evs, ts) = out
  BY DEF UpdateIncidents, out, full, kept, new
<1>17. Len(out) < IncidentLimit => d = 0
  <2>1. d # 0 => Len(out) = IncidentLimit
    BY <1>6
  <2>2. IncidentLimit \in Nat
    BY SafetyAssumption
  <2> QED BY <2>1, <2>2
<1>18. Len(out) < IncidentLimit => Failed(evs) \subseteq OpenRules(out)
  BY <1>13, <1>14, <1>15, <1>17
<1>19. Len(out) # IncidentLimit => \A r \in OpenRules(incs) : ManualRequired(r) => r \in OpenRules(out)
  BY <1>6, <1>13
<1>20. Follows(out, incs, evs, ts)
  BY <1>6, <1>10, <1>11, <1>18, <1>19 DEF Follows
<1> QED BY <1>16, <1>20

\* A release closes the incident of its switch and leaves every other as it is.
LEMMA ReleaseClosesItsIncident ==
    ASSUME NEW incs, ProperIncidents(incs), NEW target \in Targets
    PROVE  /\ ProperIncidents(ResolveManual(incs, target))
           /\ Len(ResolveManual(incs, target)) = Len(incs)
           /\ DOMAIN ResolveManual(incs, target) = DOMAIN incs
           /\ OpenRules(ResolveManual(incs, target)) = OpenRules(incs) \ {<<"MANUAL_KILL_SWITCH", target>>}
           /\ \A n \in DOMAIN incs : ResolveManual(incs, target)[n].open =>
                 incs[n].open /\ ResolveManual(incs, target)[n] = incs[n]
<1> DEFINE out == ResolveManual(incs, target)
<1>1. DOMAIN incs = 1..Len(incs) /\ Len(incs) \in Nat /\ \A n \in DOMAIN incs : incs[n] \in IncidentRecord
  BY LenProperties, ElementOfSeq DEF ProperIncidents
<1>2. ResolvedIncident \in IncidentRecord /\ ~ResolvedIncident.open
  BY DEF ResolvedIncident, IncidentRecord
<1>3. \A n \in DOMAIN incs : out[n] = IF IsSwitchIncident(incs[n], target) THEN ResolvedIncident ELSE incs[n]
  BY DEF ResolveManual
<1>4. out \in [1..Len(incs) -> IncidentRecord]
  <2>1. \A n \in 1..Len(incs) :
          (IF IsSwitchIncident(incs[n], target) THEN ResolvedIncident ELSE incs[n]) \in IncidentRecord
    BY <1>1, <1>2
  <2> QED BY <1>1, <2>1 DEF ResolveManual
<1> HIDE DEF out
<1>5. out \in Seq(IncidentRecord)
  BY <1>1, <1>4, SeqDef
<1>6. Len(out) = Len(incs) /\ DOMAIN out = DOMAIN incs
  BY <1>1, <1>4, <1>5, LenProperties
<1>7. \A n \in DOMAIN incs : out[n].open =>
         incs[n].open /\ out[n] = incs[n] /\ incs[n].rule # <<"MANUAL_KILL_SWITCH", target>>
  BY <1>2, <1>3 DEF IsSwitchIncident
<1>8. \A n \in DOMAIN incs : incs[n].open /\ incs[n].rule # <<"MANUAL_KILL_SWITCH", target>> => out[n] = incs[n]
  BY <1>3 DEF IsSwitchIncident
<1>9. ProperIncidents(out)
  BY <1>5, <1>6, <1>7 DEF ProperIncidents
<1>10. OpenRules(out) = OpenRules(incs) \ {<<"MANUAL_KILL_SWITCH", target>>}
  <2>1. \A r : r \in OpenRules(out) <=> \E n \in DOMAIN incs : out[n].open /\ out[n].rule = r
    BY <1>6 DEF OpenRules
  <2>2. \A r : r \in OpenRules(incs) <=> \E n \in DOMAIN incs : incs[n].open /\ incs[n].rule = r
    BY DEF OpenRules
  <2>3. ASSUME NEW r \in OpenRules(out) PROVE r \in OpenRules(incs) \ {<<"MANUAL_KILL_SWITCH", target>>}
    BY <2>1, <2>2, <1>7
  <2>4. ASSUME NEW r \in OpenRules(incs), r # <<"MANUAL_KILL_SWITCH", target>> PROVE r \in OpenRules(out)
    <3>1. PICK n \in DOMAIN incs : incs[n].open /\ incs[n].rule = r
      BY <2>2, <2>4
    <3>2. out[n] = incs[n]
      BY <1>8, <2>4, <3>1
    <3> QED BY <2>1, <3>1, <3>2
  <2> QED BY <2>3, <2>4
<1> QED BY <1>6, <1>7, <1>9, <1>10 DEF out

-----------------------------------------------------------------------------
(* The evaluators *)

LEMMA RulesAreRules == SafetyRules \subseteq Rules /\ ManualRules \subseteq SafetyRules
BY RuleOrderDistinct, LenProperties DEF SafetyRules, ManualRules

\* Every severity is one, and what a manual release is asked for is critical when it fails.
LEMMA SeverityOfRule ==
    ASSUME NEW r \in SafetyRules, NEW inp, NEW switches
    PROVE  /\ RuleSeverity(r, inp, switches) \in Severities
           /\ ManualRequired(r) => RuleSeverity(r, inp, switches) \in {"INFO", "CRITICAL"}
           /\ r[1] = "MANUAL_KILL_SWITCH" =>
                 RuleSeverity(r, inp, switches) = IF r[2] \in switches THEN "CRITICAL" ELSE "INFO"
<1>1. r[1] \in RuleNames
  BY RulesAreRules DEF Rules
<1>2. DataSeverity(inp, r[2]) \in Severities
  BY DEF DataSeverity, Severities
<1>3. \A b, s : FailsWith(b, s) \in {s, "INFO"}
  BY DEF FailsWith
<1>4. ManualRequired(r) => r[1] \in {"MANUAL_KILL_SWITCH", "DAILY_LOSS_LIMIT", "ACCOUNT_DRAWDOWN_LIMIT"}
  BY SafetyAssumption DEF ManualRequired
<1>5. r[1] = "MANUAL_KILL_SWITCH" =>
        RuleSeverity(r, inp, switches) = FailsWith(r[2] \in switches, "CRITICAL")
  BY DEF RuleSeverity
<1>6. r[1] \in {"DAILY_LOSS_LIMIT", "ACCOUNT_DRAWDOWN_LIMIT"} =>
        RuleSeverity(r, inp, switches) \in {"INFO", "CRITICAL"}
  BY <1>3 DEF RuleSeverity
<1>7. RuleSeverity(r, inp, switches) \in Severities
  BY <1>1, <1>2, <1>3 DEF RuleSeverity, RuleNames, Severities
<1> QED BY <1>3, <1>4, <1>5, <1>6, <1>7 DEF FailsWith

LEMMA EvaluationsAreProper ==
    ASSUME NEW inp, NEW switches
    PROVE  /\ ProperEvaluations(EvaluateRules(inp, switches)) /\ ProperEvaluations(ManualOnly(switches))
           /\ \A target \in Targets :
                 /\ <<"MANUAL_KILL_SWITCH", target>> \in Failed(EvaluateRules(inp, switches)) <=> target \in switches
                 /\ <<"MANUAL_KILL_SWITCH", target>> \in Failed(ManualOnly(switches)) <=> target \in switches
<1> DEFINE evs == EvaluateRules(inp, switches)
           man == ManualOnly(switches)
<1>1. DOMAIN evs = SafetyRules /\ \A r \in SafetyRules : evs[r] = RuleSeverity(r, inp, switches)
  BY DEF EvaluateRules
<1>2. DOMAIN man = ManualRules /\ \A r \in ManualRules : man[r] = IF r[2] \in switches THEN "CRITICAL" ELSE "INFO"
  BY DEF ManualOnly, FailsWith
<1> HIDE DEF evs, man
<1>3. ProperEvaluations(evs)
  BY <1>1, SeverityOfRule DEF ProperEvaluations, Failed, Fails
<1>4. ProperEvaluations(man)
  BY <1>2 DEF ProperEvaluations, Failed, Fails, Severities
<1>5. ASSUME NEW target \in Targets
      PROVE  /\ <<"MANUAL_KILL_SWITCH", target>> \in Failed(evs) <=> target \in switches
             /\ <<"MANUAL_KILL_SWITCH", target>> \in Failed(man) <=> target \in switches
  <2> DEFINE r == <<"MANUAL_KILL_SWITCH", target>>
  <2>1. r \in ManualRules /\ r \in SafetyRules /\ r[1] = "MANUAL_KILL_SWITCH" /\ r[2] = target
    BY RuleOrderDistinct, RulesAreRules
  <2> HIDE DEF r
  <2>2. evs[r] = IF target \in switches THEN "CRITICAL" ELSE "INFO"
    BY <2>1, <1>1, SeverityOfRule
  <2>3. man[r] = IF target \in switches THEN "CRITICAL" ELSE "INFO"
    BY <2>1, <1>2
  <2>4. r \in Failed(evs) <=> target \in switches
    BY <2>1, <2>2, <1>1 DEF Failed, Fails
  <2>5. r \in Failed(man) <=> target \in switches
    BY <2>1, <2>3, <1>2 DEF Failed, Fails
  <2> QED BY <2>4, <2>5 DEF r
<1> QED BY <1>3, <1>4, <1>5 DEF evs, man

LEMMA RefreshedAreProper ==
    ASSUME NEW switches
    PROVE  /\ ProperEvaluations(RefreshedEvaluations(switches))
           /\ \A target \in Targets :
                 <<"MANUAL_KILL_SWITCH", target>> \in Failed(RefreshedEvaluations(switches)) <=> target \in switches
<1>1. CASE lastInput = NoInput
  BY <1>1, EvaluationsAreProper DEF RefreshedEvaluations
<1>2. CASE lastInput # NoInput
  BY <1>2, EvaluationsAreProper DEF RefreshedEvaluations
<1> QED BY <1>1, <1>2

\* A decision and the status it is given.
LEMMA DecisionOfFailures ==
    ASSUME NEW evs
    PROVE  /\ OverallDecision(evs) \in {"BLOCK_GLOBAL", "BLOCK_INSTRUMENT", "ALLOW_WITH_WARNING", "ALLOW"}
           /\ (\E r \in Failed(evs) : r[2] = "GLOBAL") => OverallDecision(evs) = "BLOCK_GLOBAL"
           /\ Failed(evs) # {} => OverallDecision(evs) \in {"BLOCK_GLOBAL", "BLOCK_INSTRUMENT"}
           /\ StatusFor(OverallDecision(evs)) \in {"LOCKED", "DEGRADED", "MONITORING"}
           /\ StatusFor(OverallDecision(evs)) = "LOCKED" => OverallDecision(evs) = "BLOCK_GLOBAL"
           /\ StatusFor(OverallDecision(evs)) = "DEGRADED" => OverallDecision(evs) # "ALLOW"
<1>1. OverallDecision(evs) \in {"BLOCK_GLOBAL", "BLOCK_INSTRUMENT", "ALLOW_WITH_WARNING", "ALLOW"}
  BY DEF OverallDecision
<1>2. (\E r \in Failed(evs) : r[2] = "GLOBAL") => OverallDecision(evs) = "BLOCK_GLOBAL"
  BY DEF OverallDecision
<1>3. Failed(evs) # {} => OverallDecision(evs) \in {"BLOCK_GLOBAL", "BLOCK_INSTRUMENT"}
  BY DEF OverallDecision
<1> QED BY <1>1, <1>2, <1>3 DEF StatusFor

LEMMA RecoveryIsDecided ==
    ASSUME NEW evs, NEW incs, NEW inp
    PROVE  /\ RecoveryDecision(evs, incs, inp) \in RecoveryDecisions
           /\ RecoveryDecision(evs, incs, inp) = "READY" =>
                 Failed(evs) = {} /\ {r \in OpenRules(incs) : ManualRequired(r)} = {}
<1> DEFINE manual    == \E r \in OpenRules(incs) : ManualRequired(r)
           unhealthy == \E r \in Failed(evs) : r[1] \in DependencyRules
           active    == ActiveState(inp)
           failing   == Failed(evs) # {}
<1>1. RecoveryDecision(evs, incs, inp) =
        CASE manual -> "MANUAL_RELEASE_REQUIRED"
          [] ~manual /\ active -> "BLOCKED_BY_ACTIVE_STATE"
          [] ~manual /\ ~active /\ unhealthy -> "BLOCKED_BY_UNHEALTHY_DEPENDENCY"
          [] ~manual /\ ~active /\ ~unhealthy /\ failing -> "NOT_READY"
          [] OTHER -> "READY"
  BY DEF RecoveryDecision
<1>2. manual \in BOOLEAN /\ active \in BOOLEAN /\ unhealthy \in BOOLEAN /\ failing \in BOOLEAN
  BY DEF ActiveState
<1>3. unhealthy => failing
  OBVIOUS
<1>4. RecoveryDecision(evs, incs, inp) \in RecoveryDecisions
      /\ (RecoveryDecision(evs, incs, inp) = "READY" => ~manual /\ ~failing)
  <2> HIDE DEF manual, unhealthy, active, failing
  <2> QED BY <1>1, <1>2, <1>3 DEF RecoveryDecisions
<1> QED BY <1>4

\* A command stamped no earlier than every open incident is not refused.
LEMMA OrderedIsNotRefused ==
    ASSUME NEW incs, ProperIncidents(incs), NEW ts \in Nat,
           \A n \in DOMAIN incs : incs[n].open => incs[n].openedAt <= ts
    PROVE  /\ \A evs : ~UpdateRefused(incs, evs, ts)
           /\ \A target : ~ResolveRefused(incs, target, ts)
<1>1. \A n \in DOMAIN incs : incs[n].open => ~(ts < incs[n].openedAt)
  <2> TAKE n \in DOMAIN incs
  <2>1. incs[n] \in IncidentRecord
    BY LenProperties, ElementOfSeq DEF ProperIncidents
  <2>2. incs[n].openedAt \in Nat
    BY <2>1 DEF IncidentRecord
  <2> QED BY <2>2
<1> QED BY <1>1 DEF UpdateRefused, ResolveRefused, IsSwitchIncident

-----------------------------------------------------------------------------
(* The engine *)

\* The inductive invariant: beside what the runs check, callers that keep order never see an incident opened
\* after their latest call, so that no update of theirs is refused half-way.
SafetyIInv ==
    /\ SafetyTypeOK
    /\ ProperIncidents(incidents) /\ ProperEvaluations(evaluations)
    /\ ordered => \A n \in DOMAIN incidents : incidents[n].open => incidents[n].openedAt <= latest
    /\ RecoveryReadyIsSafe
    /\ KillSwitchesBind /\ StatusTellsDecision
    /\ BlockingRulesHaveIncidents

\* An evaluation that goes through: with the switches as they then are, and the incidents it leaves behind,
\* whether or not the one of a released switch is closed on top of it.
LEMMA AccountKeepsInvariant ==
    ASSUME SafetyIInv, NEW ts \in Nat, Stamped(ts), NEW evs, ProperEvaluations(evs), NEW incs,
           \/ incs = UpdateIncidents(incidents, evs, ts)
           \/ /\ incs = ResolveManual(UpdateIncidents(incidents, evs, ts), "GLOBAL")
              /\ "GLOBAL" \notin kills',
           kills' \subseteq Targets,
           \A target \in Targets : <<"MANUAL_KILL_SWITCH", target>> \in Failed(evs) <=> target \in kills',
           incidents' = incs, evaluations' = evs,
           recovery' = RecoveryDecision(evs, incs, lastInput'),
           lastInput' \in SafetyInputs \cup {NoInput}, answered' \in BOOLEAN,
           recoveryCall' \in {"IDLE", "REQUESTED", "EVALUATED"},
           safetyStatus' \in SafetyStatuses,
           ordered => /\ safetyStatus' = "LOCKED" => OverallDecision(evs) = "BLOCK_GLOBAL"
                      /\ safetyStatus' = "DEGRADED" => OverallDecision(evs) # "ALLOW"
    PROVE  SafetyIInv'
<1> DEFINE upd == UpdateIncidents(incidents, evs, ts)
<1>1. Follows(upd, incidents, evs, ts)
  BY UpdateKeepsIncidents DEF SafetyIInv
<1>2. /\ ordered' = ordered /\ latest' \in Nat
      /\ ordered => latest' = ts /\ latest <= ts
  BY DEF Stamped, SafetyIInv, SafetyTypeOK
<1> HIDE DEF upd
<1>3. "GLOBAL" \in Targets
  BY DEF Targets
<1>4. /\ ProperIncidents(incs) /\ Len(incs) = Len(upd) /\ DOMAIN incs = DOMAIN upd
      /\ \A n \in DOMAIN incs : incs[n].open => upd[n].open /\ incs[n].openedAt = upd[n].openedAt
      /\ \A r \in OpenRules(upd) : r \in OpenRules(incs) \/ (r = <<"MANUAL_KILL_SWITCH", "GLOBAL">> /\ "GLOBAL" \notin kills')
  <2>1. CASE incs = upd
    BY <2>1, <1>1 DEF Follows
  <2>2. CASE incs = ResolveManual(upd, "GLOBAL") /\ "GLOBAL" \notin kills'
    <3>1. ProperIncidents(upd)
      BY <1>1 DEF Follows
    <3> QED BY <2>2, <3>1, <1>3, ReleaseClosesItsIncident
  <2> QED BY <2>1, <2>2 DEF upd
<1>5. SafetyTypeOK'
  <2>1. Len(incidents') <= IncidentLimit
    BY <1>1, <1>4 DEF Follows
  <2>2. \A n \in DOMAIN incidents' : incidents'[n].open => incidents'[n].rule \in SafetyRules
    BY <1>4 DEF ProperIncidents
  <2>3. recovery' \in RecoveryDecisions
    BY RecoveryIsDecided
  <2>4. ordered' \in BOOLEAN
    BY <1>2 DEF SafetyIInv, SafetyTypeOK
  <2>5. DOMAIN evaluations' \in {{}, ManualRules, SafetyRules} /\ \A r \in DOMAIN evaluations' : evaluations'[r] \in Severities
    BY DEF ProperEvaluations
  <2> QED BY <1>2, <2>1, <2>2, <2>3, <2>4, <2>5 DEF SafetyTypeOK
<1>6. ordered' => \A n \in DOMAIN incidents' : incidents'[n].open => incidents'[n].openedAt <= latest'
  <2> SUFFICES ASSUME ordered, NEW n \in DOMAIN incs, incs[n].open
               PROVE  incs[n].openedAt <= latest'
    BY <1>2
  <2>1. upd[n].open /\ incs[n].openedAt = upd[n].openedAt /\ n \in DOMAIN upd
    BY <1>4
  <2>2. CASE upd[n].openedAt = ts
    BY <2>1, <2>2, <1>2
  <2>3. CASE \E m \in DOMAIN incidents : incidents[m].open /\ incidents[m].openedAt = upd[n].openedAt
    <3>1. PICK m \in DOMAIN incidents : incidents[m].open /\ incidents[m].openedAt = upd[n].openedAt
      BY <2>3
    <3>2. incidents[m] \in IncidentRecord
      BY LenProperties, ElementOfSeq DEF SafetyIInv, ProperIncidents
    <3>3. incidents[m].openedAt \in Nat /\ incidents[m].openedAt <= latest
      BY <3>1, <3>2 DEF SafetyIInv, IncidentRecord
    <3>4. latest \in Nat
      BY DEF SafetyIInv, SafetyTypeOK
    <3> QED BY <2>1, <3>1, <3>3, <3>4, <1>2
  <2> QED BY <2>1, <2>2, <2>3, <1>1 DEF Follows
<1>7. RecoveryReadyIsSafe'
  BY RecoveryIsDecided DEF RecoveryReadyIsSafe, OpenManualRules
<1>8. KillSwitchesBind'
  BY DEF KillSwitchesBind, KillSwitchTakesEffect
<1>9. StatusTellsDecision'
  BY <1>2 DEF StatusTellsDecision
<1>10. BlockingRulesHaveIncidents'
  <2> SUFFICES ASSUME Len(incs) < IncidentLimit, NEW r \in Failed(evs),
                      r[1] # "MANUAL_KILL_SWITCH" \/ (ordered' /\ r[2] \in kills')
               PROVE  r \in OpenRules(incs)
    BY DEF BlockingRulesHaveIncidents
  <2>1. r \in OpenRules(upd)
    BY <1>1, <1>4 DEF Follows
  <2>2. r = <<"MANUAL_KILL_SWITCH", "GLOBAL">> => "GLOBAL" \in kills'
    BY <1>3
  <2> QED BY <2>1, <2>2, <1>4
<1> QED BY <1>4, <1>5, <1>6, <1>7, <1>8, <1>9, <1>10 DEF SafetyIInv

\* A command that leaves evaluations and incidents alone, and switches nothing on.
LEMMA StatusOnlyKeepsInvariant ==
    ASSUME SafetyIInv, kills' \subseteq kills,
           UNCHANGED <<evaluations, incidents, recovery, lastInput, ordered>>,
           answered' \in BOOLEAN, latest' \in Nat, ordered => latest <= latest',
           recoveryCall' \in {"IDLE", "REQUESTED", "EVALUATED"},
           safetyStatus' \in SafetyStatuses, safetyStatus' \in {"LOCKED", "DEGRADED"} => safetyStatus' = safetyStatus
    PROVE  SafetyIInv'
<1>1. /\ evaluations' = evaluations /\ incidents' = incidents /\ recovery' = recovery
      /\ lastInput' = lastInput /\ ordered' = ordered
  OBVIOUS
<1>2. SafetyTypeOK'
  BY <1>1 DEF SafetyIInv, SafetyTypeOK
<1>3. ordered' => \A n \in DOMAIN incidents' : incidents'[n].open => incidents'[n].openedAt <= latest'
  <2> SUFFICES ASSUME ordered, NEW n \in DOMAIN incidents, incidents[n].open
               PROVE  incidents[n].openedAt <= latest'
    BY <1>1
  <2>1. incidents[n] \in IncidentRecord
    BY LenProperties, ElementOfSeq DEF SafetyIInv, ProperIncidents
  <2>2. incidents[n].openedAt \in Nat /\ incidents[n].openedAt <= latest /\ latest \in Nat
    BY <2>1 DEF SafetyIInv, SafetyTypeOK, IncidentRecord
  <2> QED BY <2>2
<1>4. RecoveryReadyIsSafe'
  BY <1>1 DEF SafetyIInv, RecoveryReadyIsSafe, OpenManualRules
<1>5. KillSwitchesBind'
  <2>1. Failed(evaluations') = Failed(evaluations)
    BY <1>1
  <2>2. ordered => \A target \in kills : <<"MANUAL_KILL_SWITCH", target>> \in Failed(evaluations)
    BY DEF SafetyIInv, KillSwitchesBind, KillSwitchTakesEffect
  <2>3. ordered' => \A target \in kills' : <<"MANUAL_KILL_SWITCH", target>> \in Failed(evaluations')
    <3> SUFFICES ASSUME ordered', NEW target \in kills'
                 PROVE  <<"MANUAL_KILL_SWITCH", target>> \in Failed(evaluations')
      OBVIOUS
    <3>1. ordered /\ target \in kills
      BY <1>1
    <3> QED BY <3>1, <2>1, <2>2
  <2> QED BY <2>3 DEF KillSwitchesBind, KillSwitchTakesEffect
<1>6. StatusTellsDecision'
  BY <1>1 DEF SafetyIInv, StatusTellsDecision
<1>7. BlockingRulesHaveIncidents'
  BY <1>1 DEF SafetyIInv, BlockingRulesHaveIncidents
<1> QED BY <1>1, <1>2, <1>3, <1>4, <1>5, <1>6, <1>7 DEF SafetyIInv

\* For callers that keep order, every incident was opened by the time of their call.
LEMMA OrderedCallsComeLater ==
    ASSUME SafetyIInv, NEW ts \in Nat, Stamped(ts), ordered
    PROVE  \A n \in DOMAIN incidents : incidents[n].open => incidents[n].openedAt <= ts
<1> SUFFICES ASSUME NEW n \in DOMAIN incidents, incidents[n].open PROVE incidents[n].openedAt <= ts
  OBVIOUS
<1>1. incidents[n] \in IncidentRecord
  BY LenProperties, ElementOfSeq DEF SafetyIInv, ProperIncidents
<1>2. incidents[n].openedAt \in Nat /\ incidents[n].openedAt <= latest /\ latest \in Nat /\ latest <= ts
  BY <1>1 DEF SafetyIInv, SafetyTypeOK, IncidentRecord, Stamped
<1> QED BY <1>2

LEMMA StampedMovesOn ==
    ASSUME SafetyIInv, NEW ts \in Nat, Stamped(ts)
    PROVE  latest' \in Nat /\ ordered' = ordered /\ (ordered => latest <= latest')
BY DEF Stamped, SafetyIInv, SafetyTypeOK

LEMMA SafetyInitProper == SafetyInit => SafetyIInv
<1> SUFFICES ASSUME SafetyInit PROVE SafetyIInv
  OBVIOUS
<1>1. incidents = <<>> /\ DOMAIN incidents = {} /\ Len(incidents) = 0 /\ incidents \in Seq(IncidentRecord)
  BY EmptySeq DEF SafetyInit
<1>2. DOMAIN evaluations = {} /\ Failed(evaluations) = {} /\ OpenRules(incidents) = {}
  BY <1>1 DEF SafetyInit, NoEvaluations, Failed, OpenRules
<1>3. SafetyTypeOK
  <2>1. ordered \in BOOLEAN
    BY SafetyAssumption DEF SafetyInit
  <2>2. Len(incidents) <= IncidentLimit /\ latest \in Nat
    BY <1>1, SafetyAssumption DEF SafetyInit
  <2>3. /\ safetyStatus \in SafetyStatuses /\ kills \subseteq Targets /\ recovery \in RecoveryDecisions
        /\ lastInput \in SafetyInputs \cup {NoInput} /\ answered \in BOOLEAN
        /\ recoveryCall \in {"IDLE", "REQUESTED", "EVALUATED"}
    BY DEF SafetyInit, SafetyStatuses, RecoveryDecisions
  <2>4. DOMAIN evaluations \in {{}, ManualRules, SafetyRules} /\ \A r \in DOMAIN evaluations : evaluations[r] \in Severities
    BY <1>2
  <2>5. \A n \in DOMAIN incidents : incidents[n].open => incidents[n].rule \in SafetyRules
    BY <1>1
  <2> QED BY <2>1, <2>2, <2>3, <2>4, <2>5 DEF SafetyTypeOK
<1>4. ProperIncidents(incidents) /\ ProperEvaluations(evaluations)
  BY <1>1, <1>2 DEF ProperIncidents, ProperEvaluations
<1>5. RecoveryReadyIsSafe /\ KillSwitchesBind /\ StatusTellsDecision /\ BlockingRulesHaveIncidents
  BY <1>2 DEF SafetyInit, RecoveryReadyIsSafe, OpenManualRules, KillSwitchesBind, KillSwitchTakesEffect, StatusTellsDecision,
              BlockingRulesHaveIncidents
<1> QED BY <1>1, <1>3, <1>4, <1>5 DEF SafetyIInv

\* _evaluate, from evaluate and from request_recovery.
LEMMA EvaluationKeepsInvariant ==
    ASSUME SafetyIInv, NEW inp \in SafetyInputs, Stamped(inp.timestamp),
           EvaluateAccounted(inp) \/ EvaluateFailed(inp), kills' = kills,
           recoveryCall' \in {"IDLE", "REQUESTED", "EVALUATED"}
    PROVE  SafetyIInv'
<1>1. inp.timestamp \in Nat
  BY SafetyAssumption
<1>2. CASE EvaluateAccounted(inp)
  <2> DEFINE evs == EvaluateRules(inp, kills)
             incs == UpdateIncidents(incidents, evs, inp.timestamp)
  <2>1. ProperEvaluations(evs) /\ \A target \in Targets : <<"MANUAL_KILL_SWITCH", target>> \in Failed(evs) <=> target \in kills'
    BY EvaluationsAreProper
  <2>2. /\ incidents' = incs /\ evaluations' = evs /\ recovery' = RecoveryDecision(evs, incs, inp)
        /\ safetyStatus' = StatusFor(OverallDecision(evs)) /\ lastInput' = inp /\ answered' = TRUE
    BY <1>2 DEF EvaluateAccounted
  <2>3. kills' \subseteq Targets
    BY DEF SafetyIInv, SafetyTypeOK
  <2> HIDE DEF evs
  <2>4. /\ safetyStatus' \in SafetyStatuses
        /\ safetyStatus' = "LOCKED" => OverallDecision(evs) = "BLOCK_GLOBAL"
        /\ safetyStatus' = "DEGRADED" => OverallDecision(evs) # "ALLOW"
    BY <2>2, DecisionOfFailures DEF SafetyStatuses
  <2> QED BY <1>1, <2>1, <2>2, <2>3, <2>4, AccountKeepsInvariant
<1>3. CASE EvaluateFailed(inp)
  <2>1. /\ safetyStatus' = "ERROR" /\ answered' = answered
        /\ UNCHANGED <<evaluations, incidents, recovery, lastInput>>
    BY <1>3 DEF EvaluateFailed
  <2>2. latest' \in Nat /\ ordered' = ordered /\ (ordered => latest <= latest')
    BY <1>1, StampedMovesOn
  <2>3. answered' \in BOOLEAN /\ safetyStatus' \in SafetyStatuses /\ kills' \subseteq kills
    BY <2>1 DEF SafetyIInv, SafetyTypeOK, SafetyStatuses
  <2>4. UNCHANGED <<evaluations, incidents, recovery, lastInput, ordered>>
    BY <2>1, <2>2
  <2>5. safetyStatus' \in {"LOCKED", "DEGRADED"} => safetyStatus' = safetyStatus
    BY <2>1
  <2> QED BY <2>2, <2>3, <2>4, <2>5, StatusOnlyKeepsInvariant
<1> QED BY <1>2, <1>3

LEMMA ActivationKeepsInvariant ==
    ASSUME SafetyIInv, NEW target \in Targets, NEW ts \in Nat, ActivateKillSwitch(target, ts)
    PROVE  SafetyIInv'
<1> DEFINE switches == kills \cup {target}
           evs      == RefreshedEvaluations(switches)
           incs     == UpdateIncidents(incidents, evs, ts)
<1>1. Stamped(ts) /\ kills' = switches /\ lastInput' = lastInput /\ recoveryCall' = recoveryCall
  BY DEF ActivateKillSwitch
<1>2. /\ ProperEvaluations(evs)
      /\ \A t \in Targets : <<"MANUAL_KILL_SWITCH", t>> \in Failed(evs) <=> t \in kills'
  BY <1>1, RefreshedAreProper
<1>3. switches \subseteq Targets
  BY DEF SafetyIInv, SafetyTypeOK
<1>4. CASE Activate(target, ts)
  <2>1. /\ incidents' = incs /\ evaluations' = evs /\ recovery' = RecoveryDecision(evs, incs, lastInput)
        /\ safetyStatus' = IF target = "GLOBAL" \/ OverallDecision(evs) = "BLOCK_GLOBAL" THEN "LOCKED" ELSE "DEGRADED"
        /\ answered' = FALSE
    BY <1>4 DEF Activate
  <2>2. <<"MANUAL_KILL_SWITCH", target>> \in Failed(evs) /\ target \in kills'
    BY <1>1, <1>2
  <2> HIDE DEF evs
  <2>3. target = "GLOBAL" => OverallDecision(evs) = "BLOCK_GLOBAL"
    BY <2>2, DecisionOfFailures
  <2>4. OverallDecision(evs) # "ALLOW"
    <3>1. Failed(evs) # {}
      BY <2>2
    <3> QED BY <3>1, DecisionOfFailures
  <2>5. /\ safetyStatus' \in SafetyStatuses
        /\ safetyStatus' = "LOCKED" => OverallDecision(evs) = "BLOCK_GLOBAL"
        /\ safetyStatus' = "DEGRADED" => OverallDecision(evs) # "ALLOW"
    BY <2>1, <2>3, <2>4 DEF SafetyStatuses
  <2>6. lastInput' \in SafetyInputs \cup {NoInput} /\ recoveryCall' \in {"IDLE", "REQUESTED", "EVALUATED"} /\ answered' \in BOOLEAN
    BY <1>1, <2>1 DEF SafetyIInv, SafetyTypeOK
  <2>7. recovery' = RecoveryDecision(evs, incs, lastInput')
    BY <1>1, <2>1
  <2> HIDE DEF switches
  <2> QED BY <1>1, <1>2, <1>3, <2>1, <2>5, <2>6, <2>7, AccountKeepsInvariant
\* Only a caller that does not keep order is refused.
<1>5. CASE ActivateInterrupted(target, ts)
  <2>1. ~ordered
    <3> SUFFICES ASSUME ordered PROVE FALSE
      OBVIOUS
    <3>1. \A n \in DOMAIN incidents : incidents[n].open => incidents[n].openedAt <= ts
      BY <1>1, OrderedCallsComeLater
    <3>2. ~UpdateRefused(incidents, evs, ts)
      BY <3>1, OrderedIsNotRefused DEF SafetyIInv
    <3> QED BY <1>5, <3>2 DEF ActivateInterrupted, RefreshRefused
  <2>2. UNCHANGED <<safetyStatus, evaluations, incidents, recovery, answered>>
    BY <1>5 DEF ActivateInterrupted
  <2>3. latest' \in Nat /\ ordered' = ordered
    BY <1>1, StampedMovesOn
  <2> HIDE DEF evs
  <2>4. SafetyTypeOK'
    BY <1>1, <1>3, <2>2, <2>3 DEF SafetyIInv, SafetyTypeOK
  <2>5. RecoveryReadyIsSafe'
    BY <2>2 DEF SafetyIInv, RecoveryReadyIsSafe, OpenManualRules
  <2>6. KillSwitchesBind' /\ StatusTellsDecision'
    BY <2>1, <2>3 DEF KillSwitchesBind, StatusTellsDecision
  <2>7. BlockingRulesHaveIncidents'
    BY <2>1, <2>2, <2>3 DEF SafetyIInv, BlockingRulesHaveIncidents
  <2>8. ProperIncidents(incidents') /\ ProperEvaluations(evaluations')
    BY <2>2 DEF SafetyIInv
  <2> QED BY <2>1, <2>3, <2>4, <2>5, <2>6, <2>7, <2>8 DEF SafetyIInv
<1> QED BY <1>4, <1>5 DEF ActivateKillSwitch

LEMMA GlobalReleaseKeepsInvariant ==
    ASSUME SafetyIInv, NEW ts \in Nat, ReleaseGlobalKillSwitch(ts)
    PROVE  SafetyIInv'
<1> DEFINE switches == kills \ {"GLOBAL"}
           evs      == RefreshedEvaluations(switches)
           updated  == UpdateIncidents(incidents, evs, ts)
           incs     == ResolveManual(updated, "GLOBAL")
<1>1. Stamped(ts) /\ kills' = switches /\ lastInput' = lastInput /\ recoveryCall' = recoveryCall
  BY DEF ReleaseGlobalKillSwitch
<1>2. /\ ProperEvaluations(evs)
      /\ \A t \in Targets : <<"MANUAL_KILL_SWITCH", t>> \in Failed(evs) <=> t \in kills'
  BY <1>1, RefreshedAreProper
<1>3. kills' \subseteq Targets /\ kills' \subseteq kills /\ "GLOBAL" \notin kills' /\ "GLOBAL" \in Targets
  BY <1>1 DEF SafetyIInv, SafetyTypeOK, Targets
<1>4. lastInput' \in SafetyInputs \cup {NoInput} /\ recoveryCall' \in {"IDLE", "REQUESTED", "EVALUATED"}
  BY <1>1 DEF SafetyIInv, SafetyTypeOK
<1>5. CASE UNCHANGED <<safetyStatus, evaluations, incidents, recovery, answered>>
  <2>1. answered' \in BOOLEAN /\ safetyStatus' \in SafetyStatuses
    BY <1>5 DEF SafetyIInv, SafetyTypeOK
  <2> HIDE DEF switches
  <2> QED BY <1>1, <1>3, <1>4, <1>5, <2>1, StampedMovesOn, StatusOnlyKeepsInvariant
<1>6. CASE /\ ResolveRefused(updated, "GLOBAL", ts)
           /\ incidents' = updated /\ evaluations' = evs
           /\ recovery' = RecoveryDecision(evs, updated, lastInput)
           /\ answered' = FALSE /\ UNCHANGED safetyStatus
  <2>1. ~ordered
    <3> SUFFICES ASSUME ordered PROVE FALSE
      OBVIOUS
    <3>1. \A n \in DOMAIN incidents : incidents[n].open => incidents[n].openedAt <= ts
      BY <1>1, OrderedCallsComeLater
    <3>2. Follows(updated, incidents, evs, ts)
      BY <1>2, UpdateKeepsIncidents DEF SafetyIInv
    <3> HIDE DEF updated, evs
    <3>3. ProperIncidents(updated) /\ \A n \in DOMAIN updated : updated[n].open => updated[n].openedAt <= ts
      BY <3>1, <3>2 DEF Follows
    <3>4. ~ResolveRefused(updated, "GLOBAL", ts)
      BY <3>3, OrderedIsNotRefused
    <3> QED BY <1>6, <3>4
  <2>2. safetyStatus' \in SafetyStatuses
    BY <1>6 DEF SafetyIInv, SafetyTypeOK
  <2>3. recovery' = RecoveryDecision(evs, updated, lastInput')
    BY <1>1, <1>6
  <2> HIDE DEF evs, switches
  <2> QED BY <1>1, <1>2, <1>3, <1>4, <1>6, <2>1, <2>2, <2>3, AccountKeepsInvariant
<1>7. CASE /\ incidents' = incs /\ evaluations' = evs
           /\ recovery' = RecoveryDecision(evs, incs, lastInput)
           /\ safetyStatus' = StatusFor(OverallDecision(evs)) /\ answered' = FALSE
  <2> HIDE DEF evs, switches
  <2>1. /\ safetyStatus' \in SafetyStatuses
        /\ safetyStatus' = "LOCKED" => OverallDecision(evs) = "BLOCK_GLOBAL"
        /\ safetyStatus' = "DEGRADED" => OverallDecision(evs) # "ALLOW"
    BY <1>7, DecisionOfFailures DEF SafetyStatuses
  <2>2. recovery' = RecoveryDecision(evs, incs, lastInput')
    BY <1>1, <1>7
  <2> QED BY <1>1, <1>2, <1>3, <1>4, <1>7, <2>1, <2>2, AccountKeepsInvariant
<1> QED BY <1>5, <1>6, <1>7 DEF ReleaseGlobalKillSwitch

LEMMA InstrumentReleaseKeepsInvariant ==
    ASSUME SafetyIInv, NEW i \in SafetyInstruments, NEW ts \in Nat, ReleaseInstrumentKillSwitch(i, ts)
    PROVE  SafetyIInv'
<1>1. /\ Stamped(ts) /\ kills' = kills \ {i}
      /\ evaluations' = evaluations /\ recovery' = recovery /\ lastInput' = lastInput /\ answered' = answered
      /\ recoveryCall' = recoveryCall
  BY DEF ReleaseInstrumentKillSwitch
<1>2. /\ latest' \in Nat /\ ordered' = ordered /\ (ordered => latest <= latest')
      /\ i \in Targets /\ kills' \subseteq kills
  BY <1>1, StampedMovesOn DEF Targets
<1>3. CASE UNCHANGED <<safetyStatus, incidents>>
  <2>1. /\ answered' \in BOOLEAN /\ safetyStatus' \in SafetyStatuses
        /\ recoveryCall' \in {"IDLE", "REQUESTED", "EVALUATED"}
    BY <1>1, <1>3 DEF SafetyIInv, SafetyTypeOK
  <2> QED BY <1>1, <1>2, <1>3, <2>1, StatusOnlyKeepsInvariant
<1>4. CASE /\ incidents' = ResolveManual(incidents, i)
           /\ safetyStatus' = IF kills' = {} THEN "MONITORING" ELSE "DEGRADED"
  <2>1. /\ ProperIncidents(incidents') /\ Len(incidents') = Len(incidents) /\ DOMAIN incidents' = DOMAIN incidents
        /\ OpenRules(incidents') = OpenRules(incidents) \ {<<"MANUAL_KILL_SWITCH", i>>}
        /\ \A n \in DOMAIN incidents : incidents'[n].open => incidents[n].open /\ incidents'[n] = incidents[n]
    BY <1>2, <1>4, ReleaseClosesItsIncident DEF SafetyIInv
  <2>2. SafetyTypeOK'
    <3>1. /\ Len(incidents') <= IncidentLimit
          /\ \A n \in DOMAIN incidents' : incidents'[n].open => incidents'[n].rule \in SafetyRules
      BY <2>1 DEF SafetyIInv, SafetyTypeOK, ProperIncidents
    <3>2. safetyStatus' \in SafetyStatuses /\ kills' \subseteq Targets
      BY <1>1, <1>4 DEF SafetyIInv, SafetyTypeOK, SafetyStatuses
    <3> QED BY <1>1, <1>2, <3>1, <3>2 DEF SafetyIInv, SafetyTypeOK
  <2>3. ordered' => \A n \in DOMAIN incidents' : incidents'[n].open => incidents'[n].openedAt <= latest'
    <3> SUFFICES ASSUME ordered, NEW n \in DOMAIN incidents, incidents'[n].open
                 PROVE  incidents'[n].openedAt <= latest'
      BY <1>2, <2>1
    <3>1. incidents[n].open /\ incidents'[n] = incidents[n]
      BY <2>1
    <3>2. incidents[n] \in IncidentRecord
      BY LenProperties, ElementOfSeq DEF SafetyIInv, ProperIncidents
    <3>3. incidents[n].openedAt \in Nat /\ incidents[n].openedAt <= latest /\ latest \in Nat
      BY <3>1, <3>2 DEF SafetyIInv, SafetyTypeOK, IncidentRecord
    <3> QED BY <3>1, <3>3, <1>2
  <2>4. RecoveryReadyIsSafe'
    BY <1>1, <2>1 DEF SafetyIInv, RecoveryReadyIsSafe, OpenManualRules
  <2>5. ordered => \A target \in kills' : <<"MANUAL_KILL_SWITCH", target>> \in Failed(evaluations)
    BY <1>2 DEF SafetyIInv, KillSwitchesBind, KillSwitchTakesEffect
  <2>6. KillSwitchesBind'
    BY <1>1, <1>2, <2>5 DEF KillSwitchesBind, KillSwitchTakesEffect
  <2>7. StatusTellsDecision'
    <3> SUFFICES ASSUME ordered, safetyStatus' = "DEGRADED" PROVE OverallDecision(evaluations) # "ALLOW"
      BY <1>1, <1>2, <1>4 DEF StatusTellsDecision
    <3>1. kills' # {}
      BY <1>4
    <3>2. Failed(evaluations) # {}
      BY <3>1, <2>5
    <3> QED BY <3>2, DecisionOfFailures
  <2>8. BlockingRulesHaveIncidents'
    <3> SUFFICES ASSUME Len(incidents) < IncidentLimit, NEW r \in Failed(evaluations),
                        r[1] # "MANUAL_KILL_SWITCH" \/ (ordered /\ r[2] \in kills')
                 PROVE  r \in OpenRules(incidents')
      BY <1>1, <1>2, <2>1 DEF BlockingRulesHaveIncidents
    <3>1. r \in OpenRules(incidents)
      BY <1>2 DEF SafetyIInv, BlockingRulesHaveIncidents
    <3>2. r # <<"MANUAL_KILL_SWITCH", i>>
      BY <1>1
    <3> QED BY <3>1, <3>2, <2>1
  <2>9. ProperEvaluations(evaluations')
    BY <1>1 DEF SafetyIInv
  <2> QED BY <2>1, <2>2, <2>3, <2>4, <2>6, <2>7, <2>8, <2>9 DEF SafetyIInv
<1> QED BY <1>3, <1>4 DEF ReleaseInstrumentKillSwitch

LEMMA SafetyStepKeepsInvariant == SafetyIInv /\ [SafetyNext]_safetyVars => SafetyIInv'
<1> SUFFICES ASSUME SafetyIInv, [SafetyNext]_safetyVars PROVE SafetyIInv'
  OBVIOUS
<1> USE DEF SafetyStatuses
<1>0. latest \in Nat /\ latest <= latest /\ answered \in BOOLEAN /\ recoveryCall \in {"IDLE", "REQUESTED", "EVALUATED"}
      /\ safetyStatus \in SafetyStatuses
  BY DEF SafetyIInv, SafetyTypeOK
<1>1. CASE SafetyStart \/ SafetyStop \/ RequestRecovery \/ FinishRecoveryRequest \/ UNCHANGED safetyVars
  BY <1>0, <1>1, StatusOnlyKeepsInvariant
     DEF SafetyStart, SafetyStop, RequestRecovery, FinishRecoveryRequest, safetyVars
<1>2. CASE SafetyClear
  <2>1. incidents' = <<>> /\ DOMAIN incidents' = {} /\ Len(incidents') = 0 /\ incidents' \in Seq(IncidentRecord)
    BY <1>2, EmptySeq DEF SafetyClear
  <2>2. DOMAIN evaluations' = {} /\ Failed(evaluations') = {} /\ OpenRules(incidents') = {}
    BY <1>2, <2>1 DEF SafetyClear, NoEvaluations, Failed, OpenRules
  <2>3. /\ safetyStatus' = "CLEARED" /\ kills = {} /\ kills' = kills /\ recovery' = recovery /\ lastInput' = lastInput
        /\ answered' = answered /\ recoveryCall' = recoveryCall /\ ordered' = ordered /\ latest' = latest
    BY <1>2 DEF SafetyClear
  <2>4. SafetyTypeOK'
    BY <2>1, <2>2, <2>3, SafetyAssumption DEF SafetyIInv, SafetyTypeOK
  <2>5. ProperIncidents(incidents') /\ ProperEvaluations(evaluations')
    BY <2>1, <2>2 DEF ProperIncidents, ProperEvaluations
  <2>6. RecoveryReadyIsSafe' /\ KillSwitchesBind' /\ StatusTellsDecision' /\ BlockingRulesHaveIncidents'
    BY <2>2, <2>3 DEF RecoveryReadyIsSafe, OpenManualRules, KillSwitchesBind, KillSwitchTakesEffect, StatusTellsDecision,
                      BlockingRulesHaveIncidents
  <2> QED BY <2>1, <2>4, <2>5, <2>6 DEF SafetyIInv
<1>3. ASSUME NEW inp \in SafetyInputs, Evaluate(inp) PROVE SafetyIInv'
  BY <1>0, <1>3, EvaluationKeepsInvariant DEF Evaluate
<1>4. ASSUME NEW inp \in SafetyInputs, EvaluateForRecovery(inp) PROVE SafetyIInv'
  <2>1. Stamped(inp.timestamp) /\ kills' = kills /\ inp.timestamp \in Nat
        /\ recoveryCall' \in {"IDLE", "REQUESTED", "EVALUATED"}
    BY <1>4, SafetyAssumption DEF EvaluateForRecovery
  <2>2. CASE UNCHANGED <<safetyStatus, evaluations, incidents, recovery, lastInput, answered>>
    BY <1>0, <2>1, <2>2, StampedMovesOn, StatusOnlyKeepsInvariant
  <2>3. CASE EvaluateAccounted(inp) \/ EvaluateFailed(inp)
    BY <2>1, <2>3, EvaluationKeepsInvariant
  <2> QED BY <1>4, <2>2, <2>3 DEF EvaluateForRecovery, EvaluateCached
<1>5. ASSUME NEW ts \in 0..MaxTimestamp, NEW target \in Targets, ActivateKillSwitch(target, ts) PROVE SafetyIInv'
  BY <1>5, ActivationKeepsInvariant
<1>6. ASSUME NEW ts \in 0..MaxTimestamp, ReleaseGlobalKillSwitch(ts) PROVE SafetyIInv'
  BY <1>6, GlobalReleaseKeepsInvariant
<1>7. ASSUME NEW ts \in 0..MaxTimestamp, NEW i \in SafetyInstruments, ReleaseInstrumentKillSwitch(i, ts) PROVE SafetyIInv'
  BY <1>7, InstrumentReleaseKeepsInvariant
<1> QED BY <1>1, <1>2, <1>3, <1>4, <1>5, <1>6, <1>7 DEF SafetyNext

-----------------------------------------------------------------------------
(* The theorems *)

LEMMA SafetyInvariant == SafetySpec => []SafetyIInv
BY SafetyInitProper, SafetyStepKeepsInvariant, PTL DEF SafetySpec

\* What the engine publishes holds, for all instruments, inputs and limits (StandingIsTrue): its state keeps
\* its shape, and for callers that keep the order of their timestamps every switch that is on fails its rule
\* and LOCKED and DEGRADED are never leftovers.
THEOREM StandingStaysTrue == SafetySpec => []StandingIsTrue
<1>1. SafetyIInv => StandingIsTrue
  BY DEF SafetyIInv, StandingIsTrue
<1> QED BY <1>1, SafetyInvariant, PTL

\* Recovery is declared READY only when no rule blocks and no incident waits for a manual release, whatever
\* was refused, released, trimmed or cleared on the way (RecoveryReadyIsSafe).
THEOREM RecoveryStaysSafe == SafetySpec => []RecoveryReadyIsSafe
<1>1. SafetyIInv => RecoveryReadyIsSafe
  BY DEF SafetyIInv
<1> QED BY <1>1, SafetyInvariant, PTL

\* One open incident a rule, and every rule that blocks on record while there is room.
LEMMA IncidentsMatch == SafetyIInv => IncidentsMatchRules
BY DEF SafetyIInv, ProperIncidents, IncidentsMatchRules, OneOpenIncidentPerRule

\* No step but the release of its kill switch closes an incident that waits for a manual release.
LEMMA ManualIncidentsStay ==
    ASSUME SafetyIInv, [SafetyNext]_safetyVars, NEW r \in OpenManualRules
    PROVE  \/ r \in OpenRules(incidents')
           \/ r[1] = "MANUAL_KILL_SWITCH" /\ r[2] \notin kills'
           \/ Len(incidents') = IncidentLimit
<1>1. r \in OpenRules(incidents) /\ ManualRequired(r)
  BY DEF OpenManualRules
<1>2. ASSUME NEW evs, ProperEvaluations(evs), NEW ts \in Nat, Len(UpdateIncidents(incidents, evs, ts)) # IncidentLimit
      PROVE  r \in OpenRules(UpdateIncidents(incidents, evs, ts))
  <2>1. Follows(UpdateIncidents(incidents, evs, ts), incidents, evs, ts)
    BY <1>2, UpdateKeepsIncidents DEF SafetyIInv
  <2> QED BY <1>1, <1>2, <2>1 DEF Follows
<1>3. ASSUME NEW incs, ProperIncidents(incs), r \in OpenRules(incs), NEW target \in Targets
      PROVE  r \in OpenRules(ResolveManual(incs, target)) \/ r = <<"MANUAL_KILL_SWITCH", target>>
  BY <1>3, ReleaseClosesItsIncident
<1>4. CASE incidents' = incidents
  BY <1>1, <1>4
<1>5. ASSUME NEW inp \in SafetyInputs, EvaluateAccounted(inp)
      PROVE  r \in OpenRules(incidents') \/ Len(incidents') = IncidentLimit
  BY <1>2, <1>5, EvaluationsAreProper, SafetyAssumption DEF EvaluateAccounted
<1>6. CASE SafetyClear
  <2>1. PICK n \in DOMAIN incidents : incidents[n].open /\ incidents[n].rule = r
    BY <1>1 DEF OpenRules
  <2>2. incidents[n].critical
    BY <1>1, <2>1 DEF SafetyIInv, ProperIncidents
  <2> QED BY <1>6, <2>1, <2>2 DEF SafetyClear
<1>7. ASSUME NEW target \in Targets, NEW ts \in Nat, Activate(target, ts)
      PROVE  r \in OpenRules(incidents') \/ Len(incidents') = IncidentLimit
  BY <1>2, <1>7, RefreshedAreProper DEF Activate
<1>8. ASSUME NEW ts \in Nat, ReleaseGlobalKillSwitch(ts)
      PROVE  \/ r \in OpenRules(incidents')
             \/ r[1] = "MANUAL_KILL_SWITCH" /\ r[2] \notin kills'
             \/ Len(incidents') = IncidentLimit
  <2> DEFINE evs     == RefreshedEvaluations(kills \ {"GLOBAL"})
             updated == UpdateIncidents(incidents, evs, ts)
  <2>1. kills' = kills \ {"GLOBAL"} /\ "GLOBAL" \in Targets
    BY <1>8 DEF ReleaseGlobalKillSwitch, Targets
  <2>2. Follows(updated, incidents, evs, ts)
    BY RefreshedAreProper, UpdateKeepsIncidents DEF SafetyIInv
  <2>3. incidents' = incidents \/ incidents' = updated \/ incidents' = ResolveManual(updated, "GLOBAL")
    BY <1>8 DEF ReleaseGlobalKillSwitch
  <2> HIDE DEF updated, evs
  <2>4. r \in OpenRules(updated) \/ Len(updated) = IncidentLimit
    BY <1>1, <2>2 DEF Follows
  <2>5. CASE incidents' = ResolveManual(updated, "GLOBAL")
    <3>1. ProperIncidents(updated)
      BY <2>2 DEF Follows
    <3>2. Len(incidents') = Len(updated)
      BY <2>1, <2>5, <3>1, ReleaseClosesItsIncident
    <3>3. r \in OpenRules(updated) => r \in OpenRules(incidents') \/ r = <<"MANUAL_KILL_SWITCH", "GLOBAL">>
      BY <1>3, <2>1, <2>5, <3>1
    <3> QED BY <2>1, <2>4, <3>2, <3>3
  <2> QED BY <1>1, <2>3, <2>4, <2>5
<1>9. ASSUME NEW i \in SafetyInstruments, NEW ts \in Nat, ReleaseInstrumentKillSwitch(i, ts)
      PROVE  \/ r \in OpenRules(incidents')
             \/ r[1] = "MANUAL_KILL_SWITCH" /\ r[2] \notin kills'
  <2>1. kills' = kills \ {i} /\ i \in Targets
    BY <1>9 DEF ReleaseInstrumentKillSwitch, Targets
  <2>2. incidents' = incidents \/ incidents' = ResolveManual(incidents, i)
    BY <1>9 DEF ReleaseInstrumentKillSwitch
  <2>3. CASE incidents' = ResolveManual(incidents, i)
    <3>1. r \in OpenRules(incidents') \/ r = <<"MANUAL_KILL_SWITCH", i>>
      BY <1>1, <1>3, <2>1, <2>3 DEF SafetyIInv
    <3> QED BY <2>1, <3>1
  <2> QED BY <1>1, <2>2, <2>3
<1>10. CASE SafetyStart \/ SafetyStop \/ RequestRecovery \/ FinishRecoveryRequest \/ UNCHANGED safetyVars
  <2>1. incidents' = incidents
    BY <1>10 DEF SafetyStart, SafetyStop, RequestRecovery, FinishRecoveryRequest, safetyVars
  <2> QED BY <1>4, <2>1
<1>11. ASSUME NEW inp \in SafetyInputs, Evaluate(inp) \/ EvaluateForRecovery(inp)
       PROVE  r \in OpenRules(incidents') \/ Len(incidents') = IncidentLimit
  <2>1. EvaluateAccounted(inp) \/ incidents' = incidents
    BY <1>11 DEF Evaluate, EvaluateForRecovery, EvaluateCached, EvaluateFailed
  <2> QED BY <1>1, <1>5, <2>1
<1>12. ASSUME NEW target \in Targets, NEW ts \in 0..MaxTimestamp, ActivateKillSwitch(target, ts)
       PROVE  r \in OpenRules(incidents') \/ Len(incidents') = IncidentLimit
  <2>1. ts \in Nat /\ (Activate(target, ts) \/ incidents' = incidents)
    BY <1>12 DEF ActivateKillSwitch, ActivateInterrupted
  <2> QED BY <1>1, <1>7, <2>1
<1> QED BY <1>6, <1>8, <1>9, <1>10, <1>11, <1>12 DEF SafetyNext

\* The incidents are a true record of what blocks, from its first failure to its resolution or its release
\* (IncidentsAreHonest); an incident of the daily loss or the drawdown is never closed at all.
THEOREM IncidentsStayHonest == SafetySpec => IncidentsAreHonest
<1>1. SafetyIInv /\ [SafetyNext]_safetyVars =>
        [\A r \in OpenManualRules :
           \/ r \in OpenRules(incidents')
           \/ r[1] = "MANUAL_KILL_SWITCH" /\ r[2] \notin kills'
           \/ Len(incidents') = IncidentLimit]_safetyVars
  <2> SUFFICES ASSUME SafetyIInv, [SafetyNext]_safetyVars
               PROVE  \A r \in OpenManualRules :
                         \/ r \in OpenRules(incidents')
                         \/ r[1] = "MANUAL_KILL_SWITCH" /\ r[2] \notin kills'
                         \/ Len(incidents') = IncidentLimit
    OBVIOUS
  <2> TAKE r \in OpenManualRules
  <2> QED BY ManualIncidentsStay
<1>2. SafetySpec => []IncidentsMatchRules
  BY SafetyInvariant, IncidentsMatch, PTL
<1>3. SafetySpec => ClosedByReleaseOnly
  BY SafetyInvariant, <1>1, PTL DEF ClosedByReleaseOnly, SafetySpec
<1> QED BY <1>2, <1>3, PTL DEF IncidentsAreHonest

-----------------------------------------------------------------------------
(* The trade journal *)

\* The trend of a minimum of more than one trade has two halves to compare.
LEMMA TrendsAnswer ==
    ASSUME NEW gains, NEW minimum \in Nat \ {0, 1}, Len(gains) \in Nat
    PROVE  ~TrendRaises(gains, minimum)
  BY DEF TrendRaises

\* An entry added behind the others leaves them as they were.
LEMMA AppendKeeps ==
    ASSUME NEW es \in Seq(Entry), NEW e \in Entry
    PROVE  /\ Append(es, e) \in Seq(Entry)
           /\ Len(Append(es, e)) = Len(es) + 1
           /\ DOMAIN es = 1..Len(es) /\ DOMAIN Append(es, e) = 1..(Len(es) + 1)
           /\ \A n \in DOMAIN es : Append(es, e)[n] = es[n]
           /\ Append(es, e)[Len(es) + 1] = e
           /\ IsPrefix(es, Append(es, e))
<1>1. /\ Append(es, e) \in Seq(Entry) /\ Len(es) \in Nat
      /\ Len(Append(es, e)) = Len(es) + 1
      /\ DOMAIN es = 1..Len(es) /\ DOMAIN Append(es, e) = 1..(Len(es) + 1)
      /\ \A n \in 1..Len(es) : Append(es, e)[n] = es[n]
      /\ Append(es, e)[Len(es) + 1] = e
  BY AppendProperties, LenProperties
<1>2. SubSeq(Append(es, e), 1, Len(es)) = [n \in 1..Len(es) |-> Append(es, e)[n]]
  BY <1>1 DEF SubSeq
<1>3. SubSeq(es, 1, Len(es)) = [n \in 1..Len(es) |-> es[n]]
  BY <1>1 DEF SubSeq
<1>4. IsPrefix(es, Append(es, e))
  BY <1>1, <1>2, <1>3 DEF IsPrefix
<1> QED BY <1>1, <1>4

LEMMA PrefixOfItself ==
    ASSUME NEW es \in Seq(Entry)
    PROVE  IsPrefix(es, es)
<1>1. Len(es) \in Nat
  BY LenProperties
<1> QED BY <1>1 DEF IsPrefix

LEMMA GainsLength ==
    ASSUME NEW es \in Seq(Entry)
    PROVE  Len(GainsOf(es)) \in Nat
<1>1. Len(es) \in Nat /\ DOMAIN es = 1..Len(es) /\ \A n \in 1..Len(es) : es[n] \in Entry
  BY LenProperties, ElementOfSeq
<1>2. GainsOf(es) = [n \in 1..Len(es) |-> es[n].gain]
  BY <1>1 DEF GainsOf
<1>3. GainsOf(es) \in [1..Len(es) -> Gains]
  BY <1>1, <1>2 DEF Entry
<1>4. GainsOf(es) \in Seq(Gains)
  BY <1>1, <1>3, SeqDef
<1> QED BY <1>4, LenProperties

\* The published statistics are the ones _statistics computes from the entries in the journal.
AnalyticsOfEntries ==
    minimumTrend > 1 => analytics = Statistics(GainsOf(entries), minimumTrend)

\* What RecordsAgree rests on: the journal never fails, one that is not running or stopped is empty, and a
\* stopped integration has stopped the journal.
JournalFollows ==
    callers = "INTEGRATION" /\ minimumTrend > 1 =>
        /\ journalStatus # "ERROR"
        /\ journalStatus \in {"CREATED", "CLEARED"} => entries = <<>>
        /\ routerStatus = "STOPPED" => journalStatus # "RUNNING"

TradeJournalIInv == JournalTypeOK /\ EachPositionOnce /\ RecordsAgree /\ AnalyticsOfEntries /\ JournalFollows

LEMMA JournalInitial == JournalInit => TradeJournalIInv
<1> SUFFICES ASSUME JournalInit PROVE TradeJournalIInv
  OBVIOUS
<1> USE DEF JournalInit, RouterInit
<1>1. GainsOf(<<>>) = <<>>
  BY DEF GainsOf
<1>2. JournalTypeOK
  BY JournalAssumption DEF JournalTypeOK, JournalStatuses, RouterStatuses
<1>3. AnalyticsOfEntries
  BY <1>1 DEF AnalyticsOfEntries
<1> QED BY <1>2, <1>3 DEF TradeJournalIInv, EachPositionOnce, RecordsAgree, JournalFollows

\* A step that leaves the entries and the statistics as they are.
LEMMA QuietStep ==
    ASSUME TradeJournalIInv, UNCHANGED <<entries, analytics, minimumTrend, callers>>
    PROVE  EachPositionOnce' /\ AnalyticsOfEntries'
  BY DEF TradeJournalIInv, EachPositionOnce, AnalyticsOfEntries

\* The journal as it is cleared.
LEMMA ClearedStep ==
    ASSUME TradeJournalIInv, JournalClears, UNCHANGED <<minimumTrend, callers>>
    PROVE  EachPositionOnce' /\ AnalyticsOfEntries' /\ entries' \in Seq(Entry) /\ Len(entries') = 0
<1>1. GainsOf(<<>>) = <<>>
  BY DEF GainsOf
<1> QED BY <1>1 DEF TradeJournalIInv, JournalClears, EachPositionOnce, AnalyticsOfEntries

\* A position that is not entered yet is entered, and the statistics follow or, with a minimum of one trade, stay behind.
LEMMA RecordedStep ==
    ASSUME TradeJournalIInv, NEW e \in Entry, Records(e) \/ RecordRaises(e), UNCHANGED <<minimumTrend, callers>>
    PROVE  /\ EachPositionOnce' /\ AnalyticsOfEntries' /\ entries' \in Seq(Entry)
           /\ Len(entries') = Len(entries) + 1 /\ IsPrefix(entries, entries')
           /\ RecordRaises(e) => ~(minimumTrend > 1)
<1>1. /\ entries \in Seq(Entry) /\ entries' = Append(entries, e) /\ ~Entered(e.position)
      /\ minimumTrend \in Nat \ {0}
  BY JournalAssumption DEF TradeJournalIInv, JournalTypeOK, Records, RecordRaises
<1>2. /\ entries' \in Seq(Entry) /\ Len(entries) \in Nat
      /\ Len(entries') = Len(entries) + 1 /\ IsPrefix(entries, entries')
      /\ DOMAIN entries = 1..Len(entries) /\ DOMAIN entries' = 1..(Len(entries) + 1)
      /\ \A n \in DOMAIN entries : entries'[n] = entries[n]
      /\ entries'[Len(entries) + 1] = e
  BY <1>1, AppendKeeps, LenProperties
<1>3. EachPositionOnce'
  BY <1>1, <1>2 DEF TradeJournalIInv, EachPositionOnce, Entered
<1>4. RecordRaises(e) => ~(minimumTrend > 1)
  <2> SUFFICES ASSUME RecordRaises(e), minimumTrend > 1 PROVE FALSE
    OBVIOUS
  <2>1. Len(GainsOf(entries')) \in Nat
    BY <1>2, GainsLength
  <2>2. ~TrendRaises(GainsOf(entries'), minimumTrend)
    BY <1>1, <2>1, TrendsAnswer
  <2> QED BY <2>2 DEF RecordRaises
<1>5. AnalyticsOfEntries'
  BY <1>4 DEF Records, AnalyticsOfEntries
<1> QED BY <1>2, <1>3, <1>4, <1>5

\* A step of whoever else holds the journal; the integration does not promise agreement then.
LEMMA DirectStep ==
    ASSUME TradeJournalIInv, DirectCall
    PROVE  TradeJournalIInv' /\ (IsPrefix(entries, entries') \/ journalStatus' = "CLEARED")
<1>1. /\ callers = "ANY" /\ UNCHANGED <<minimumTrend, callers, routerStatus, recordedCount>>
      /\ JournalTypeOK
  BY DEF DirectCall, RouterKeeps, fixed, TradeJournalIInv
<1>2. RecordsAgree' /\ JournalFollows'
  BY <1>1 DEF RecordsAgree, JournalFollows
<1>3. CASE /\ UNCHANGED <<entries, analytics>>
           /\ journalStatus' \in JournalStatuses
  <2>1. JournalTypeOK' /\ IsPrefix(entries, entries')
    BY <1>1, <1>3, PrefixOfItself DEF JournalTypeOK
  <2> QED BY <1>1, <1>2, <1>3, <2>1, QuietStep DEF TradeJournalIInv
<1>4. CASE JournalClears
  <2>1. EachPositionOnce' /\ AnalyticsOfEntries' /\ entries' \in Seq(Entry)
    BY <1>1, <1>4, ClearedStep
  <2>2. JournalTypeOK' /\ journalStatus' = "CLEARED"
    BY <1>1, <1>4, <2>1 DEF JournalTypeOK, JournalClears, JournalStatuses
  <2> QED BY <1>2, <2>1, <2>2 DEF TradeJournalIInv
<1>5. CASE \E e \in Entry : Records(e) \/ RecordRaises(e)
  <2>1. PICK e \in Entry : Records(e) \/ RecordRaises(e)
    BY <1>5
  <2>2. EachPositionOnce' /\ AnalyticsOfEntries' /\ entries' \in Seq(Entry) /\ IsPrefix(entries, entries')
    BY <1>1, <2>1, RecordedStep
  <2>3. JournalTypeOK'
    BY <1>1, <2>1, <2>2 DEF JournalTypeOK, Records, RecordRaises, JournalStatuses
  <2> QED BY <1>2, <2>2, <2>3 DEF TradeJournalIInv
<1>6. \/ /\ UNCHANGED <<entries, analytics>>
         /\ journalStatus' \in JournalStatuses
      \/ JournalClears
      \/ \E e \in Entry : Records(e) \/ RecordRaises(e)
  BY <1>1 DEF DirectCall, JournalStarts, JournalStops, Suppresses, JournalStatuses, JournalTypeOK
<1> QED BY <1>3, <1>4, <1>5, <1>6

\* A step of the integration that enters and clears nothing.
LEMMA RouterMoves ==
    ASSUME TradeJournalIInv, UNCHANGED <<entries, analytics, minimumTrend, callers, recordedCount>>,
           \/ RouterValidate \/ RouterStop
           \/ \E failed \in BOOLEAN : RouterStart(failed)
           \/ \E e \in Entry : RouteFailed(e)
           \/ \E p \in ClosedPositions : RouteSuppressed(p)
    PROVE  TradeJournalIInv' /\ IsPrefix(entries, entries')
<1>1. JournalTypeOK /\ entries \in Seq(Entry)
  BY DEF TradeJournalIInv, JournalTypeOK
<1>2. IsPrefix(entries, entries')
  BY <1>1, PrefixOfItself
<1>3. Len(entries) \in Nat /\ \A e \in Entry : Append(entries, e) # entries
  <2>1. Len(entries) \in Nat
    BY <1>1, LenProperties
  <2> QED BY <1>1, <2>1, AppendKeeps
<1>4. ASSUME NEW e \in Entry, RouteFailed(e)
      PROVE  journalStatus # "RUNNING" /\ routerStatus = "RUNNING" /\ UNCHANGED journalStatus /\ routerStatus' = "ERROR"
  BY <1>3, <1>4 DEF RouteFailed, RecordRaises
<1>5. JournalTypeOK'
  BY <1>1, <1>4 DEF JournalTypeOK, JournalStatuses, RouterStatuses, RouterValidate, RouterStop, RouterStart, JournalStarts, JournalStops,
       RouteSuppressed, RouterKeeps, Suppresses
<1>6. RecordsAgree'
  BY <1>4 DEF TradeJournalIInv, RecordsAgree, JournalFollows, RouterValidate, RouterStop, RouterStart, JournalStarts, JournalStops,
       RouteSuppressed, RouterKeeps, Suppresses
<1>7. JournalFollows'
  BY <1>4 DEF TradeJournalIInv, RecordsAgree, JournalFollows, RouterValidate, RouterStop, RouterStart, JournalStarts, JournalStops,
       RouteSuppressed, RouterKeeps, Suppresses
<1> QED BY <1>2, <1>5, <1>6, <1>7, QuietStep DEF TradeJournalIInv

\* One step per kind of call; what is entered stays until the journal is cleared.
LEMMA JournalStep ==
    ASSUME TradeJournalIInv, [JournalNext]_journalVars
    PROVE  /\ TradeJournalIInv'
           /\ \/ UNCHANGED journalVars
              \/ IsPrefix(entries, entries') \/ journalStatus' = "CLEARED"
<1>1. JournalTypeOK /\ entries \in Seq(Entry) /\ minimumTrend \in Nat \ {0} /\ recordedCount \in Nat /\ MaxRecorded \in Nat
  BY JournalAssumption DEF TradeJournalIInv, JournalTypeOK
<1>2. CASE UNCHANGED journalVars
  BY <1>2 DEF journalVars, TradeJournalIInv, JournalTypeOK, EachPositionOnce, RecordsAgree, AnalyticsOfEntries, JournalFollows
<1>3. CASE DirectCall
  BY <1>3, DirectStep
<1>4. CASE RouterClear /\ journalStatus = "STOPPED"
  <2>1. JournalClears /\ UNCHANGED <<minimumTrend, callers>> /\ recordedCount' = 0 /\ routerStatus' = "CLEARED"
    BY <1>4 DEF RouterClear, fixed
  <2>2. EachPositionOnce' /\ AnalyticsOfEntries' /\ entries' \in Seq(Entry) /\ Len(entries') = 0
    BY <2>1, ClearedStep
  <2>3. journalStatus' = "CLEARED" /\ entries' = <<>>
    BY <2>1 DEF JournalClears
  <2>4. JournalTypeOK'
    BY <1>1, <2>1, <2>2, <2>3 DEF JournalTypeOK, JournalStatuses, RouterStatuses
  <2> QED BY <2>1, <2>2, <2>3, <2>4 DEF TradeJournalIInv, RecordsAgree, JournalFollows
<1>5. CASE RouterClear /\ journalStatus # "STOPPED"
  <2>1. /\ UNCHANGED <<journalStatus, entries, analytics, minimumTrend, callers>> /\ recordedCount' = 0
        /\ routerStatus = "STOPPED" /\ routerStatus' = "CLEARED"
    BY <1>5 DEF RouterClear, fixed
  <2>2. JournalTypeOK'
    BY <1>1, <2>1 DEF JournalTypeOK, RouterStatuses
  <2>3. callers = "INTEGRATION" /\ minimumTrend > 1 => journalStatus \in {"CREATED", "CLEARED"} /\ entries = <<>>
    BY <1>1, <1>5, <2>1 DEF TradeJournalIInv, JournalTypeOK, JournalFollows, JournalStatuses
  <2>4. RecordsAgree' /\ JournalFollows'
    BY <2>1, <2>3 DEF RecordsAgree, JournalFollows
  <2>5. IsPrefix(entries, entries')
    BY <1>1, <2>1, PrefixOfItself
  <2> QED BY <2>1, <2>2, <2>4, <2>5, QuietStep DEF TradeJournalIInv
<1>6. ASSUME NEW e \in Entry, RouteRecorded(e)
      PROVE  TradeJournalIInv' /\ IsPrefix(entries, entries')
  <2>1. /\ Records(e) /\ UNCHANGED <<minimumTrend, callers, routerStatus, journalStatus>>
        /\ recordedCount' = recordedCount + 1 /\ recordedCount < MaxRecorded
        /\ routerStatus = "RUNNING" /\ journalStatus = "RUNNING"
    BY <1>6 DEF RouteRecorded, Records, fixed
  <2>2. /\ EachPositionOnce' /\ AnalyticsOfEntries' /\ entries' \in Seq(Entry)
        /\ Len(entries') = Len(entries) + 1 /\ IsPrefix(entries, entries')
    BY <2>1, RecordedStep
  <2>3. JournalTypeOK'
    BY <1>1, <2>1, <2>2 DEF JournalTypeOK
  <2>4. RecordsAgree' /\ JournalFollows'
    BY <2>1, <2>2 DEF TradeJournalIInv, RecordsAgree, JournalFollows
  <2> QED BY <2>2, <2>3, <2>4 DEF TradeJournalIInv
<1>7. ASSUME NEW e \in Entry, RouteFailed(e), journalStatus = "RUNNING"
      PROVE  TradeJournalIInv' /\ IsPrefix(entries, entries')
  <2>1. /\ RecordRaises(e) /\ UNCHANGED <<minimumTrend, callers, recordedCount>> /\ routerStatus' = "ERROR"
        /\ journalStatus' = "ERROR"
    BY <1>7 DEF RouteFailed, RecordRaises, fixed
  <2>2. /\ EachPositionOnce' /\ AnalyticsOfEntries' /\ entries' \in Seq(Entry)
        /\ IsPrefix(entries, entries') /\ ~(minimumTrend > 1)
    BY <2>1, RecordedStep
  <2>3. JournalTypeOK'
    BY <1>1, <2>1, <2>2 DEF JournalTypeOK, JournalStatuses, RouterStatuses
  <2>4. RecordsAgree' /\ JournalFollows'
    BY <2>1, <2>2 DEF RecordsAgree, JournalFollows
  <2> QED BY <2>2, <2>3, <2>4 DEF TradeJournalIInv
<1>8. ASSUME NEW e \in Entry, RouteFailed(e), journalStatus # "RUNNING"
      PROVE  TradeJournalIInv' /\ IsPrefix(entries, entries')
  <2>1. UNCHANGED <<entries, analytics, minimumTrend, callers, recordedCount>>
    BY <1>8 DEF RouteFailed, fixed
  <2> QED BY <1>8, <2>1, RouterMoves
<1>9. CASE RouterValidate \/ RouterStop \/ (\E failed \in BOOLEAN : RouterStart(failed)) \/ (\E p \in ClosedPositions : RouteSuppressed(p))
  <2>1. UNCHANGED <<entries, analytics, minimumTrend, callers, recordedCount>>
    BY <1>9 DEF RouterValidate, RouterStop, RouterStart, RouteSuppressed, Suppresses, RouterKeeps, JournalStarts, JournalStops, fixed
  <2> QED BY <1>9, <2>1, RouterMoves
<1> QED BY <1>2, <1>3, <1>4, <1>5, <1>6, <1>7, <1>8, <1>9 DEF JournalNext

\* The journal is a true record of the closed positions (JournalIsTrue): each is in it once and stays until the journal is cleared, the
\* integration has counted the same entries, and the published statistics are the ones the code computes from exactly these entries, for
\* every sequence of the calls.  That the code's loops compute the figures JournalIsTrue compares them with is left to TLC.
THEOREM JournalStaysTrue ==
    JournalSpec =>
        /\ [](JournalTypeOK /\ EachPositionOnce /\ RecordsAgree /\ AnalyticsOfEntries)
        /\ EntriesAreKept
<1>1. TradeJournalIInv /\ [JournalNext]_journalVars => TradeJournalIInv'
  BY JournalStep
<1>2. TradeJournalIInv /\ [JournalNext]_journalVars =>
        [IsPrefix(entries, entries') \/ journalStatus' = "CLEARED"]_journalVars
  BY JournalStep
<1>3. JournalSpec => []TradeJournalIInv
  BY JournalInitial, <1>1, PTL DEF JournalSpec
<1>4. TradeJournalIInv => JournalTypeOK /\ EachPositionOnce /\ RecordsAgree /\ AnalyticsOfEntries
  BY DEF TradeJournalIInv
<1> QED BY <1>2, <1>3, <1>4, PTL DEF JournalSpec, EntriesAreKept
===============================================================================
