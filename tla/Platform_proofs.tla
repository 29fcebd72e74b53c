---------------------------- MODULE Platform_proofs ---------------------------
(***************************************************************************)
(* Proofs about the desktop's platform: its start and shutdown, the        *)
(* application and its runtimes, live shadow sessions over them, the       *)
(* backtest over the replay, and the validation of a live feed.            *)
(***************************************************************************)
EXTENDS DesktopStartupV1, LiveShadowV1, DeterministicBacktestV1, LiveValidationV1, SequenceTheorems, TLAPS

-------------------------------------------------------------------------------
(* The start of the desktop. *)

LEMMA Division ==
  ASSUME NEW x \in Int, NEW w \in Nat, w > 0
  PROVE  /\ x \div w \in Int /\ x % w \in Int
         /\ x = w * (x \div w) + (x % w) /\ 0 <= x % w /\ x % w < w
OBVIOUS

LEMMA Multiples ==
  ASSUME NEW w \in Nat, NEW q \in Int, NEW p \in Int, q < p
  PROVE  w * q + w <= w * p
<1>1. \A k \in Nat : 0 <= w * k
  OBVIOUS
<1>2. p - q - 1 \in Nat
  OBVIOUS
<1>3. 0 <= w * (p - q - 1)
  BY <1>1, <1>2
<1> QED BY <1>3

LEMMA RemainderIs ==
  ASSUME NEW x \in Int, NEW w \in Nat, w > 0, NEW q \in Int, NEW r \in 0 .. w - 1, x = w * q + r
  PROVE  x % w = r
<1> DEFINE p == x \div w
           t == x % w
<1>1. p \in Int /\ t \in Int /\ x = w * p + t /\ 0 <= t /\ t < w
  BY Division
<1> HIDE DEF p, t
<1>2. w * q \in Int /\ w * p \in Int
  BY <1>1
<1>3. ~(q < p)
  <2>1. q < p => w * q + w <= w * p
    BY <1>1, Multiples
  <2> QED BY <1>1, <1>2, <2>1
<1>4. ~(p < q)
  <2>1. p < q => w * p + w <= w * q
    BY <1>1, Multiples
  <2> QED BY <1>1, <1>2, <2>1
<1>5. p = q
  BY <1>1, <1>3, <1>4
<1> QED BY <1>1, <1>2, <1>5 DEF t

LEMMA DayBefore ==
  ASSUME NEW x \in Int, NEW w \in Nat, w > 0, x % w > 0
  PROVE  (x - 1) % w = (x % w) - 1
<1>1. x \div w \in Int /\ x % w \in Int /\ x = w * (x \div w) + (x % w) /\ 0 <= x % w /\ x % w < w
  BY Division
<1> DEFINE r == (x % w) - 1
<1>2. r \in 0 .. w - 1
  BY <1>1
<1>3. w * (x \div w) \in Int
  BY <1>1
<1>4. x - 1 = w * (x \div w) + r
  BY <1>1, <1>3
<1> HIDE DEF r
<1> DEFINE y == x - 1
           q == x \div w
<1>5. y \in Int /\ q \in Int /\ y = w * q + r
  BY <1>1, <1>4
<1> HIDE DEF y, q
<1>6. y % w = r
  BY <1>2, <1>5, RemainderIs
<1> QED BY <1>6 DEF r, y

-----
LEMMA PreviousDayIs ==
  ASSUME NEW today \in Nat
  PROVE  /\ PreviousDay(today) \in Int /\ PreviousDay(today) < today /\ SessionDay(PreviousDay(today))
         /\ \A d \in PreviousDay(today) + 1 .. today - 1 : ~SessionDay(d)
<1> DEFINE Latest(d) == d \in today - WeekDays .. today - 1 /\ SessionDay(d) /\ \A e \in d + 1 .. today - 1 : ~SessionDay(e)
           m == (today - 1) % WeekDays
<1>1. WeekDays \in Nat /\ WeekDays > 2
  BY WeekIsSane
<1>2. m \in Int /\ 0 <= m /\ m < WeekDays
  BY <1>1, Division
<1>3. \E d : Latest(d)
  <2>1. CASE m < WeekDays - 2
    <3>1. Latest(today - 1)
      BY <1>1, <2>1 DEF SessionDay
    <3> QED BY <3>1
  <2>2. CASE m = WeekDays - 2
    <3>1. (today - 2) % WeekDays = m - 1
      <4>1. (today - 1) - 1 = today - 2
        OBVIOUS
      <4> QED BY <1>1, <2>2, <4>1, DayBefore
    <3> HIDE DEF m
    <3>2. SessionDay(today - 2) /\ ~SessionDay(today - 1)
      BY <1>1, <1>2, <2>2, <3>1 DEF SessionDay, m
    <3>3. \A e \in (today - 2) + 1 .. today - 1 : e = today - 1
      OBVIOUS
    <3>4. today - 2 \in today - WeekDays .. today - 1
      BY <1>1
    <3>5. Latest(today - 2)
      BY <3>2, <3>3, <3>4
    <3> QED BY <3>5
  <2>3. CASE m = WeekDays - 1
    <3>1. (today - 2) % WeekDays = m - 1
      <4>1. (today - 1) - 1 = today - 2
        OBVIOUS
      <4> QED BY <1>1, <2>3, <4>1, DayBefore
    <3>2. (today - 3) % WeekDays = m - 2
      <4>1. (today - 2) - 1 = today - 3 /\ today - 2 \in Int
        OBVIOUS
      <4> QED BY <1>1, <2>3, <3>1, <4>1, DayBefore
    <3> HIDE DEF m
    <3>3. SessionDay(today - 3) /\ ~SessionDay(today - 2) /\ ~SessionDay(today - 1)
      BY <1>1, <1>2, <2>3, <3>1, <3>2 DEF SessionDay, m
    <3>4. \A e \in (today - 3) + 1 .. today - 1 : e = today - 1 \/ e = today - 2
      OBVIOUS
    <3>5. today - 3 \in today - WeekDays .. today - 1
      BY <1>1
    <3>6. Latest(today - 3)
      BY <3>3, <3>4, <3>5
    <3> QED BY <3>6
  <2> QED BY <1>1, <1>2, <2>1, <2>2, <2>3
<1>4. PreviousDay(today) = CHOOSE d : Latest(d)
  BY DEF PreviousDay
<1>5. Latest(PreviousDay(today))
  <2> HIDE DEF Latest
  <2> QED BY <1>3, <1>4
<1> QED BY <1>1, <1>5

(* The bounds of a bootstrap, whenever it runs. *)
LEMMA BoundsAre ==
  ASSUME NEW now \in Nat
  PROVE  LET b == Bounds(now)
             today == DayOfTime(now)
         IN /\ b.now = now
            /\ SessionDay(b.previous) /\ b.previous < today
            /\ \A d \in b.previous + 1 .. today - 1 : ~SessionDay(d)
            /\ b.from # -1 =>
                 /\ SessionDay(today) /\ b.from = today * DayUnits + OpenAt
                 /\ b.from < b.until /\ b.until <= b.now
                 /\ b.until <= today * DayUnits + CloseAt
<1> DEFINE today == DayOfTime(now)
           t == TimeOfDay(now)
           end == IF t >= CloseAt THEN CloseAt ELSE LastMinute(t)
           current == SessionDay(today) /\ t >= OpenAt /\ end > OpenAt
           start == today * DayUnits
           b == Bounds(now)
<1>1. /\ OpenAt \in Nat /\ CloseAt \in Nat /\ DayUnits \in Nat
      /\ OpenAt < CloseAt /\ CloseAt < DayUnits
  BY WeekIsSane
<1>2. /\ today \in Int /\ t \in Int /\ 0 <= t /\ t < DayUnits
      /\ now = DayUnits * today + t
  BY <1>1, Division DEF DayOfTime, TimeOfDay
<1>3. today \in Nat
  <2> HIDE DEF today, t
  <2>1. CASE today < 0
    <3>1. DayUnits * today + DayUnits <= DayUnits * 0
      BY <1>1, <1>2, <2>1, Multiples
    <3> QED BY <1>1, <1>2, <3>1
  <2> QED BY <1>2, <2>1
<1>4. /\ b.now = now /\ b.previous = PreviousDay(today)
      /\ b.from = (IF current THEN start + OpenAt ELSE -1)
      /\ b.until = (IF current THEN start + end ELSE -1)
  BY DEF Bounds
<1>5. start \in Int /\ now = start + t
  <2> HIDE DEF today, t
  <2> QED BY <1>1, <1>2
<1>6. end \in Int /\ end <= t /\ end <= CloseAt
  <2> HIDE DEF t
  <2>1. LastMinute(t) \in Int /\ LastMinute(t) < t
    BY <1>2 DEF LastMinute
  <2> QED BY <1>1, <1>2, <2>1
<1> HIDE DEF b, start, end, t
<1>7. b.from # -1 => current
  BY <1>4
<1>8. current => /\ SessionDay(today) /\ b.from = start + OpenAt
                 /\ b.from < b.until /\ b.until <= b.now /\ b.until <= start + CloseAt
  <2> SUFFICES ASSUME current
               PROVE  /\ SessionDay(today) /\ b.from = start + OpenAt
                      /\ b.from < b.until /\ b.until <= b.now /\ b.until <= start + CloseAt
    OBVIOUS
  <2>1. SessionDay(today) /\ end > OpenAt
    OBVIOUS
  <2> HIDE DEF current, today
  <2>2. b.from = start + OpenAt /\ b.until = start + end /\ b.now = now
    BY <1>4
  <2>3. /\ start + OpenAt < start + end /\ start + end <= now /\ start + end <= start + CloseAt
    <3>1. t \in Int
      BY <1>2 DEF t
    <3> QED BY <1>1, <1>5, <1>6, <2>1, <3>1
  <2> QED BY <2>1, <2>2, <2>3
<1>9. /\ SessionDay(b.previous) /\ b.previous < today
      /\ \A d \in b.previous + 1 .. today - 1 : ~SessionDay(d)
  BY <1>3, <1>4, PreviousDayIs
<1> HIDE DEF today, current
<1> QED BY <1>4, <1>7, <1>8, <1>9 DEF b, start, today

(* What the startup keeps: the window owns parts, and the bounds are those  *)
(* of some instant.                                                         *)
StartupIInv ==
  /\ ShutdownReachesEverything
  /\ bounds = None \/ \E now \in 0 .. MaxNow : bounds = Bounds(now)

LEMMA StartupInvariance == StartupSpec => []StartupIInv
<1>1. StartupInit => StartupIInv
  BY DEF StartupInit, StartupIInv, ShutdownReachesEverything
<1>2. StartupIInv /\ [StartupNext]_startupVars => StartupIInv'
  <2> SUFFICES ASSUME StartupIInv, [StartupNext]_startupVars PROVE StartupIInv'
    OBVIOUS
  <2>1. CASE LoadReference
    BY <2>1 DEF LoadReference, Continue, Quiet, StartupIInv, ShutdownReachesEverything
  <2>2. CASE Shutdown
    BY <2>2 DEF Shutdown, Continue, StoppedParts, Stopping, StartupIInv, ShutdownReachesEverything
  <2>3. CASE Authenticate \/ CreateRuntime \/ ConfigureReplay \/ StartFutures \/ StartOptions
               \/ RunWindow \/ ReplaySwitches \/ FeedFails
    <3>1. bounds' = bounds /\ stage' # "closed"
      BY <2>3 DEF Authenticate, CreateRuntime, ConfigureReplay, StartFutures, StartOptions,
                  RunWindow, ReplaySwitches, FeedFails, Continue, Quiet, Fails
    <3> QED BY <3>1 DEF StartupIInv, ShutdownReachesEverything
  <2>4. CASE UNCHANGED startupVars
    BY <2>4 DEF startupVars, StartupIInv, ShutdownReachesEverything
  <2> QED BY <2>1, <2>2, <2>3, <2>4 DEF StartupNext
<1> QED BY <1>1, <1>2, PTL DEF StartupSpec

(* ShutdownReachesEverything: once the desktop is shut down nothing the     *)
(* window owns is left on, but a part whose own stop raised.                *)
THEOREM ShutdownReaches == StartupSpec => []ShutdownReachesEverything
<1>1. StartupIInv => ShutdownReachesEverything
  BY DEF StartupIInv
<1> QED BY <1>1, StartupInvariance, PTL

(* ReferenceIsOfClosedSessions: the reference data asked for at the start   *)
(* is that of the last session before today, and of today's only minutes    *)
(* that are over, for every instant and every length of the week.           *)
THEOREM ReferenceIsClosed == StartupSpec => []ReferenceIsOfClosedSessions
<1>1. StartupIInv => ReferenceIsOfClosedSessions
  <2> SUFFICES ASSUME NEW now \in 0 .. MaxNow, bounds = Bounds(now) PROVE ReferenceIsOfClosedSessions
    BY DEF StartupIInv, ReferenceIsOfClosedSessions
  <2>1. now \in Nat
    BY WeekIsSane
  <2> QED BY <2>1, BoundsAre DEF ReferenceIsOfClosedSessions
<1> QED BY <1>1, StartupInvariance, PTL

(* What keeps it: the stages that come before the session is there.         *)
SessionlessIInv ==
  ~login => /\ on \cap {"feed", "futures", "options"} = {} /\ bounds = None
            /\ stage # "runtime"
            /\ stage \notin {"running", "closed"} => "lifecycle" \notin on

(* Without a restored broker session neither the feed nor the futures nor   *)
(* the options are ever on, no reference data is asked for, and a start     *)
(* that failed leaves no lifecycle running.                                 *)
THEOREM NothingLiveHolds == StartupSpec => []NothingLiveWithoutSession
<1>1. StartupInit => SessionlessIInv
  BY DEF StartupInit, SessionlessIInv
<1>2. SessionlessIInv /\ [StartupNext]_startupVars => SessionlessIInv'
  <2> SUFFICES ASSUME SessionlessIInv, [StartupNext]_startupVars PROVE SessionlessIInv'
    OBVIOUS
  <2>1. CASE Authenticate
    BY <2>1 DEF Authenticate, SessionlessIInv, Continue, Quiet, Fails
  <2>2. CASE CreateRuntime
    BY <2>2 DEF CreateRuntime, SessionlessIInv, Continue, Quiet, Fails
  <2>3. CASE ConfigureReplay
    BY <2>3 DEF ConfigureReplay, SessionlessIInv, Continue, Quiet, Fails
  <2>4. CASE LoadReference
    BY <2>4 DEF LoadReference, SessionlessIInv, Continue, Quiet
  <2>5. CASE StartFutures
    BY <2>5 DEF StartFutures, SessionlessIInv, Continue
  <2>6. CASE StartOptions
    BY <2>6 DEF StartOptions, SessionlessIInv, Continue, Quiet, Fails
  <2>7. CASE RunWindow
    BY <2>7 DEF RunWindow, SessionlessIInv, Continue
  <2>8. CASE ReplaySwitches
    BY <2>8 DEF ReplaySwitches, SessionlessIInv
  <2>9. CASE FeedFails
    BY <2>9 DEF FeedFails, SessionlessIInv
  <2>10. CASE Shutdown
    BY <2>10 DEF Shutdown, StoppedParts, SessionlessIInv, Continue
  <2>11. CASE UNCHANGED startupVars
    BY <2>11 DEF startupVars, SessionlessIInv
  <2> QED BY <2>1, <2>2, <2>3, <2>4, <2>5, <2>6, <2>7, <2>8, <2>9, <2>10, <2>11 DEF StartupNext
<1>3. SessionlessIInv => NothingLiveWithoutSession
  BY DEF SessionlessIInv, NothingLiveWithoutSession
<1> QED BY <1>1, <1>2, <1>3, PTL DEF StartupSpec

-------------------------------------------------------------------------------
(* The application and its runtimes. *)

(* A runtime whose sessions have the given names.                           *)
RuntimeOf(N) ==
  [status: RuntimeStatus, engines: [1 .. 8 -> EngineState], paper: {"none", "order", "position"},
   session: N, found: SUBSET Findings, summary: [session: N, status: SessionStatus] \cup {None}]

(* No engine says what it never does: the evidence serves or does not.      *)
SoundRuntime(r, N) == r \in RuntimeOf(N) /\ r.engines[2] \in {"created", "ready", "stopped"}

(* A stopped runtime holds what it may. *)
Held(r) == r.status = "STOPPED" => r.paper \in IF CloseAtSessionEnd THEN {"none"} ELSE {"none", "position"}

LEMMA EnginesAre ==
  /\ DOMAIN Engines = 1 .. 8 /\ Shadow = 8
  /\ Engines[1] = "calibration" /\ Engines[2] = "evidence" /\ Engines[3] = "charts"
  /\ Engines[4] = "policy" /\ Engines[5] = "authorization" /\ Engines[6] = "paper"
  /\ Engines[7] = "reconciliation" /\ Engines[8] = "shadow"
BY DEF Engines, Shadow

LEMMA NewRuntimeIsSound ==
  ASSUME NEW N, None \in N
  PROVE  SoundRuntime(NewRuntime, N) /\ NewRuntime.status = "CREATED" /\ NewRuntime.paper = "none"
         /\ NewRuntime.session = None
<1>1. [k \in DOMAIN Engines |-> "created"] \in [1 .. 8 -> EngineState]
  BY EnginesAre DEF EngineState
<1> DEFINE c == [k \in DOMAIN Engines |-> "created"]
<1>2. c[2] = "created"
  BY EnginesAre
<1>3. NewRuntime = [status |-> "CREATED", engines |-> c, paper |-> "none",
                    session |-> None, found |-> {}, summary |-> None]
  BY DEF NewRuntime
<1> HIDE DEF c
<1> QED BY <1>1, <1>2, <1>3 DEF SoundRuntime, RuntimeOf, RuntimeStatus, c

(* A change of the engines. *)
LEMMA EnginesAlone ==
  ASSUME NEW N, NEW r, SoundRuntime(r, N), NEW e \in [1 .. 8 -> EngineState],
         e[2] \in {"created", "ready", "stopped"},
         NEW q, q = [r EXCEPT !.engines = e]
  PROVE  /\ SoundRuntime(q, N) /\ q.status = r.status /\ q.engines = e /\ q.paper = r.paper
         /\ q.session = r.session /\ q.summary = r.summary /\ q.found = r.found
BY DEF SoundRuntime, RuntimeOf

LEMMA EngineStartedIs ==
  ASSUME NEW s \in EngineState
  PROVE  /\ \A e : EngineStarted(e, s) \in EngineState
         /\ s \in {"created", "ready", "stopped"} => EngineStarted("evidence", s) \in {"created", "ready", "stopped"}
         /\ EngineStarted("shadow", s) = "running" => s = "running"
BY DEF EngineStarted, EngineState

LEMMA EngineStoppedIs ==
  ASSUME NEW s \in EngineState
  PROVE  /\ \A e : EngineStopped(e, s) \in EngineState
         /\ s \in {"created", "ready", "stopped"} => EngineStopped("evidence", s) \in {"created", "stopped"}
         /\ \A e : e # "evidence" => EngineStopped(e, s) \in {"stopped", "failed"}
BY DEF EngineStopped, EngineState

LEMMA StartedToIs ==
  ASSUME NEW N, NEW r, SoundRuntime(r, N), NEW k \in 1 .. 8
  PROVE  LET q == StartedTo(r, k) IN
         /\ SoundRuntime(q, N) /\ q.status = "RUNNING"
         /\ q.engines[8] = "running" => r.engines[8] = "running"
         /\ q.session = r.session
<1> DEFINE e == [j \in DOMAIN Engines |-> IF j <= k THEN EngineStarted(Engines[j], r.engines[j]) ELSE r.engines[j]]
<1>1. r.engines \in [1 .. 8 -> EngineState] /\ r.engines[2] \in {"created", "ready", "stopped"}
  BY DEF SoundRuntime, RuntimeOf
<1>2. e \in [1 .. 8 -> EngineState]
  BY <1>1, EnginesAre, EngineStartedIs
<1>3. e[2] \in {"created", "ready", "stopped"}
  BY <1>1, EnginesAre, EngineStartedIs
<1>4. e[8] = "running" => r.engines[8] = "running"
  BY <1>1, EnginesAre, EngineStartedIs
<1>5. StartedTo(r, k) = [r EXCEPT !.status = "RUNNING", !.engines = e]
  BY DEF StartedTo, SoundRuntime, RuntimeOf
<1> DEFINE q == StartedTo(r, k)
<1>6. q = [r EXCEPT !.status = "RUNNING", !.engines = e] /\ "RUNNING" \in RuntimeStatus
  BY <1>5 DEF RuntimeStatus
<1> HIDE DEF e, q
<1>7. SoundRuntime(q, N) /\ q.status = "RUNNING" /\ q.engines = e /\ q.session = r.session
  BY <1>2, <1>3, <1>6 DEF SoundRuntime, RuntimeOf
<1> QED BY <1>4, <1>7 DEF q

(* The paper trade is shut down before the engines. *)
LEMMA PaperShutDownIs ==
  ASSUME NEW N, NEW r, SoundRuntime(r, N)
  PROVE  LET q == PaperShutDown(r) IN
         /\ SoundRuntime(q, N) /\ q.status = r.status /\ q.engines = r.engines /\ q.session = r.session
         /\ q.paper \in IF CloseAtSessionEnd THEN {"none"} ELSE {"none", "position"}
<1> DEFINE p == IF r.paper = "position" /\ ~CloseAtSessionEnd THEN r.paper ELSE "none"
           q == PaperShutDown(r)
<1>1. q = [r EXCEPT !.paper = p]
  BY DEF PaperShutDown, SoundRuntime, RuntimeOf
<1>2. p \in {"none", "position"} /\ (CloseAtSessionEnd => p = "none")
  OBVIOUS
<1> HIDE DEF p, q
<1>3. /\ SoundRuntime(q, N) /\ q.status = r.status /\ q.engines = r.engines /\ q.session = r.session
      /\ q.paper = p
  BY <1>1, <1>2 DEF SoundRuntime, RuntimeOf
<1> QED BY <1>2, <1>3 DEF q

LEMMA StoppedToIs ==
  ASSUME NEW N, NEW r, SoundRuntime(r, N), NEW k \in 1 .. 8
  PROVE  LET q == StoppedTo(r, k) IN
         /\ SoundRuntime(q, N) /\ q.status = r.status
         /\ q.paper \in IF CloseAtSessionEnd THEN {"none"} ELSE {"none", "position"}
         /\ q.engines[8] # "running"
         /\ k = 1 => \A j \in 1 .. 8 : q.engines[j] \in {"created", "stopped", "failed"}
<1> DEFINE b == PaperShutDown(r)
           e == [j \in DOMAIN Engines |-> IF j >= k THEN EngineStopped(Engines[j], b.engines[j]) ELSE b.engines[j]]
           q == StoppedTo(r, k)
<1>1. /\ SoundRuntime(b, N) /\ b.status = r.status
      /\ b.paper \in IF CloseAtSessionEnd THEN {"none"} ELSE {"none", "position"}
  BY PaperShutDownIs
<1>2. q = [b EXCEPT !.engines = e]
  <2> HIDE DEF b
  <2> QED BY <1>1 DEF StoppedTo, SoundRuntime, RuntimeOf, b
<1> HIDE DEF b
<1>3. b.engines \in [1 .. 8 -> EngineState] /\ b.engines[2] \in {"created", "ready", "stopped"}
  BY <1>1 DEF SoundRuntime, RuntimeOf
<1>4. e \in [1 .. 8 -> EngineState]
  BY <1>3, EnginesAre, EngineStoppedIs
<1>5. e[2] \in {"created", "ready", "stopped"} /\ (k = 1 => e[2] \in {"created", "stopped"})
  BY <1>3, EnginesAre, EngineStoppedIs
<1>6. e[8] # "running"
  BY <1>3, EnginesAre, EngineStoppedIs
<1>7. ASSUME k = 1, NEW j \in 1 .. 8 PROVE e[j] \in {"created", "stopped", "failed"}
  <2>1. CASE j = 2
    BY <1>5, <1>7, <2>1
  <2>2. CASE j # 2
    <3>1. e[j] = EngineStopped(Engines[j], b.engines[j])
      BY <1>7, EnginesAre
    <3>2. Engines[j] # "evidence" /\ b.engines[j] \in EngineState
      BY <1>3, <2>2, EnginesAre
    <3> QED BY <3>1, <3>2, EngineStoppedIs
  <2> QED BY <2>1, <2>2
<1> HIDE DEF e, q
<1>8. SoundRuntime(q, N) /\ q.status = b.status /\ q.engines = e /\ q.paper = b.paper
  BY <1>1, <1>2, <1>4, <1>5, EnginesAlone
<1> QED BY <1>1, <1>6, <1>7, <1>8 DEF q

LEMMA StoppedRuntimeIs ==
  ASSUME NEW N, NEW r, SoundRuntime(r, N)
  PROVE  LET q == StoppedRuntime(r) IN
         /\ SoundRuntime(q, N) /\ q.status = "STOPPED" /\ Held(q)
         /\ \A j \in 1 .. 8 : q.engines[j] \in {"created", "stopped", "failed"}
<1> DEFINE s == StoppedTo(r, 1)
           q == StoppedRuntime(r)
<1>1. /\ SoundRuntime(s, N)
      /\ s.paper \in IF CloseAtSessionEnd THEN {"none"} ELSE {"none", "position"}
      /\ \A j \in 1 .. 8 : s.engines[j] \in {"created", "stopped", "failed"}
  BY StoppedToIs
<1>2. q = [s EXCEPT !.status = "STOPPED"]
  BY DEF StoppedRuntime
<1> HIDE DEF s, q
<1>3. SoundRuntime(q, N) /\ q.status = "STOPPED" /\ q.engines = s.engines /\ q.paper = s.paper
  BY <1>1, <1>2 DEF SoundRuntime, RuntimeOf, RuntimeStatus
<1> QED BY <1>1, <1>3 DEF Held, q

(* The engines a start or a stop may raise at. *)
LEMMA StartedRuntimeIs ==
  ASSUME NEW N, NEW r, SoundRuntime(r, N)
  PROVE  LET q == StartedRuntime(r) IN
         /\ SoundRuntime(q, N) /\ q.status = "RUNNING"
         /\ q.engines[8] = "running" => r.engines[8] = "running"
         /\ q.session = r.session
BY StartedToIs, EnginesAre DEF StartedRuntime

(* No call begins a session: one that runs after it ran before.             *)
Kept(r, q) == q.engines[8] = "running" => r.engines[8] = "running" /\ q.session = r.session

(* What every call of the application does to a runtime. *)
Follows(r, q, N) == SoundRuntime(q, N) /\ (Held(r) => Held(q)) /\ Kept(r, q)

LEMMA StartFollows ==
  ASSUME NEW N, NEW r, SoundRuntime(r, N)
  PROVE  /\ Follows(r, StartedRuntime(r), N)
         /\ \A q \in StartRaised(r) : Follows(r, q, N)
<1>1. ASSUME NEW k \in 1 .. 8 PROVE Follows(r, StartedTo(r, k), N)
  BY StartedToIs DEF Follows, Held, Kept
<1>2. Follows(r, StartedRuntime(r), N)
  BY <1>1, EnginesAre DEF StartedRuntime
<1>3. ASSUME NEW q \in StartRaised(r) PROVE Follows(r, q, N)
  <2>1. PICK k \in 1 .. 8 : q = StartedTo(r, k)
    BY EnginesAre DEF StartRaised
  <2> QED BY <1>1, <2>1
<1> QED BY <1>2, <1>3

LEMMA StopFollows ==
  ASSUME NEW N, NEW r, SoundRuntime(r, N)
  PROVE  /\ Follows(r, StoppedRuntime(r), N)
         /\ \A q \in StopRaised(r) : Follows(r, q, N)
<1>1. ASSUME NEW k \in 1 .. 8 PROVE Follows(r, StoppedTo(r, k), N)
  BY StoppedToIs DEF Follows, Held, Kept
<1>2. Follows(r, StoppedRuntime(r), N)
  <2>1. StoppedRuntime(r).engines[8] # "running"
    BY StoppedRuntimeIs
  <2> QED BY <2>1, StoppedRuntimeIs DEF Follows, Kept
<1>3. Follows(r, PaperShutDown(r), N)
  BY PaperShutDownIs DEF Follows, Held, Kept
<1>4. ASSUME NEW q \in StopRaised(r) PROVE Follows(r, q, N)
  <2>1. q = PaperShutDown(r) \/ \E k \in 1 .. 8 : q = StoppedTo(r, k)
    BY EnginesAre DEF StopRaised
  <2> QED BY <1>1, <1>3, <2>1
<1> QED BY <1>2, <1>4

LEMMA HalfResetIs ==
  ASSUME NEW N, NEW r, SoundRuntime(r, N)
  PROVE  Follows(r, HalfReset(r), N) /\ HalfReset(r).status = r.status
<1> DEFINE e == [j \in DOMAIN Engines |-> IF j = Shadow THEN r.engines[j] ELSE "ready"]
           q == HalfReset(r)
<1>1. r.engines \in [1 .. 8 -> EngineState]
  BY DEF SoundRuntime, RuntimeOf
<1>2. e \in [1 .. 8 -> EngineState] /\ e[2] = "ready" /\ e[8] = r.engines[8]
  BY <1>1, EnginesAre DEF EngineState
<1>3. q = [r EXCEPT !.engines = e]
  BY DEF HalfReset, SoundRuntime, RuntimeOf
<1> HIDE DEF e, q
<1>4. SoundRuntime(q, N) /\ q.status = r.status /\ q.engines = e /\ q.paper = r.paper /\ q.session = r.session
  BY <1>2, <1>3, EnginesAlone
<1> QED BY <1>2, <1>4 DEF q, Follows, Held, Kept

LEMMA ResetRuntimeIs ==
  ASSUME NEW N, None \in N, NEW r, SoundRuntime(r, N), ~ResetRefused(r)
  PROVE  LET q == ResetRuntime(r) IN
         SoundRuntime(q, N) /\ q.status = "CREATED" /\ q.engines[8] # "running" /\ Held(q)
<1> DEFINE e == [j \in DOMAIN Engines |-> "ready"]
           q == ResetRuntime(r)
<1>1. e \in [1 .. 8 -> EngineState] /\ e[2] = "ready" /\ e[8] = "ready"
  BY EnginesAre DEF EngineState
<1>2. q = [NewRuntime EXCEPT !.engines = e]
  BY DEF ResetRuntime
<1>3. SoundRuntime(NewRuntime, N) /\ NewRuntime.status = "CREATED" /\ NewRuntime.paper = "none"
  BY NewRuntimeIsSound
<1> HIDE DEF e, q
<1>4. SoundRuntime(q, N) /\ q.status = "CREATED" /\ q.engines = e
  BY <1>1, <1>2, <1>3, EnginesAlone
<1> QED BY <1>1, <1>4 DEF q, Held

LEMMA ResetToIs ==
  ASSUME NEW N, None \in N, NEW r, SoundRuntime(r, N), NEW status
  PROVE  /\ Follows(r, ResetTo(r, status), N)
         /\ status = "RUNNING" /\ ~ResetRefused(r) => ResetTo(r, status).status = "RUNNING"
         /\ ResetRefused(r) => ResetTo(r, status).status = r.status
<1>1. CASE ResetRefused(r)
  <2>1. ResetTo(r, status) = HalfReset(r)
    BY <1>1 DEF ResetTo
  <2> QED BY <1>1, <2>1, HalfResetIs
<1>2. CASE ~ResetRefused(r)
  <2> DEFINE b == ResetRuntime(r)
  <2>1. SoundRuntime(b, N) /\ b.engines[8] # "running" /\ Held(b)
    BY <1>2, ResetRuntimeIs
  <2> HIDE DEF b
  <2>2. ResetTo(r, status) \in {StartedRuntime(b), StoppedRuntime(b), b}
    BY <1>2 DEF ResetTo, b
  <2>3. Follows(b, StartedRuntime(b), N) /\ Follows(b, StoppedRuntime(b), N)
    BY <2>1, StartFollows, StopFollows
  <2>4. \A q \in {StartedRuntime(b), StoppedRuntime(b), b} : Follows(r, q, N)
    BY <2>1, <2>3 DEF Follows, Kept
  <2>5. status = "RUNNING" => ResetTo(r, status).status = "RUNNING"
    BY <1>2, <2>1, StartedRuntimeIs DEF ResetTo, b
  <2> QED BY <1>2, <2>2, <2>4, <2>5
<1> QED BY <1>1, <1>2

-----------------------------------------------------------------------------
(* The application's calls, over every runtime. *)

LifeStates == [status: RuntimeStatus, error: {None, "start", "cleanup", "stop"}]

AppStates(N) ==
  [status: RuntimeStatus, runs: [Instruments -> RuntimeOf(N)],
   handoff: {"created", "ready", "stopped"}]

SoundApp(a, N) == a \in AppStates(N) /\ \A i \in Instruments : SoundRuntime(a.runs[i], N)

RunsFollow(runs, next, N) ==
  /\ next \in [Instruments -> RuntimeOf(N)]
  /\ \A i \in Instruments : Follows(runs[i], next[i], N)

AppFollows(a, b, N) == SoundApp(b, N) /\ RunsFollow(a.runs, b.runs, N)

Serving(a) == a.status = "RUNNING" /\ \A i \in Instruments : a.runs[i].status = "RUNNING"

Undone(a) ==
  /\ a.status = "STOPPED"
  /\ \A i \in Instruments :
       /\ a.runs[i].status = "STOPPED"
       /\ \A k \in 1 .. 8 : a.runs[i].engines[k] \in {"created", "stopped", "failed"}

(* A call that leaves a runtime alone follows it, and so does one call      *)
(* after another.                                                           *)
LEMMA FollowsItself ==
  ASSUME NEW N, NEW r, SoundRuntime(r, N)
  PROVE  Follows(r, r, N)
BY DEF Follows, Kept

LEMMA FollowsOn ==
  ASSUME NEW N, NEW a, NEW b, NEW c, AppFollows(a, b, N), AppFollows(b, c, N)
  PROVE  AppFollows(a, c, N)
<1>1. ASSUME NEW i \in Instruments PROVE Follows(a.runs[i], c.runs[i], N)
  <2>1. Follows(a.runs[i], b.runs[i], N) /\ Follows(b.runs[i], c.runs[i], N)
    BY DEF AppFollows, RunsFollow
  <2> QED BY <2>1 DEF Follows, Kept
<1> QED BY <1>1 DEF AppFollows, RunsFollow

(* Runtimes that each follow what they were make an application.            *)
LEMMA AppFollowsRuns ==
  ASSUME NEW N, NEW a, SoundApp(a, N), NEW runs, RunsFollow(a.runs, runs, N),
         NEW b, b.runs = runs, b \in [status: RuntimeStatus, runs: {runs},
                                      handoff: {"created", "ready", "stopped"}]
  PROVE  AppFollows(a, b, N)
<1>1. \A i \in Instruments : SoundRuntime(runs[i], N)
  BY DEF RunsFollow, Follows
<1>2. b \in AppStates(N)
  BY DEF AppStates, RunsFollow
<1> QED BY <1>1, <1>2 DEF AppFollows, SoundApp

LEMMA InstrumentsAre ==
  /\ \A p \in DOMAIN Order : Order[p] \in Instruments
  /\ \A i \in Instruments : \E p \in DOMAIN Order : i = Order[p]
BY DEF Instruments

(* Each runtime started or stopped, or one of them interrupted.             *)
LEMMA StartingFollows ==
  ASSUME NEW N, NEW runs \in [Instruments -> RuntimeOf(N)],
         \A i \in Instruments : SoundRuntime(runs[i], N)
  PROVE  /\ RunsFollow(runs, Mapped(runs, StartedRuntime), N)
         /\ \A next \in Interrupted(runs, StartedRuntime, StartRaised) : RunsFollow(runs, next, N)
<1>1. \A i \in Instruments : Follows(runs[i], StartedRuntime(runs[i]), N)
  BY StartFollows
<1>2. \A i \in Instruments : \A half \in StartRaised(runs[i]) : Follows(runs[i], half, N)
  BY StartFollows
<1>3. ASSUME NEW r, NEW q, Follows(r, q, N) PROVE q \in RuntimeOf(N)
  BY <1>3 DEF Follows, SoundRuntime
<1>4. RunsFollow(runs, Mapped(runs, StartedRuntime), N)
  BY <1>1, <1>3 DEF RunsFollow, Mapped
<1>5. ASSUME NEW next \in Interrupted(runs, StartedRuntime, StartRaised)
      PROVE  RunsFollow(runs, next, N)
  <2>1. PICK p \in DOMAIN Order : \E half \in StartRaised(runs[Order[p]]) :
          next = [i \in Instruments |->
                    IF \E q \in 1..(p - 1) : Order[q] = i THEN StartedRuntime(runs[i])
                    ELSE IF i = Order[p] THEN half ELSE runs[i]]
    BY <1>5 DEF Interrupted
  <2>2. PICK half \in StartRaised(runs[Order[p]]) :
          next = [i \in Instruments |->
                    IF \E q \in 1..(p - 1) : Order[q] = i THEN StartedRuntime(runs[i])
                    ELSE IF i = Order[p] THEN half ELSE runs[i]]
    BY <2>1
  <2>3. Follows(runs[Order[p]], half, N)
    BY <1>2, <2>2, InstrumentsAre
  <2>4. ASSUME NEW i \in Instruments PROVE Follows(runs[i], next[i], N)
    <3>1. next[i] \in {StartedRuntime(runs[i]), runs[i]} \/ (i = Order[p] /\ next[i] = half)
      BY <2>2
    <3> QED BY <1>1, <2>3, <3>1, FollowsItself
  <2> QED BY <1>3, <2>2, <2>4 DEF RunsFollow
<1> QED BY <1>4, <1>5

LEMMA StoppingFollows ==
  ASSUME NEW N, NEW runs \in [Instruments -> RuntimeOf(N)],
         \A i \in Instruments : SoundRuntime(runs[i], N)
  PROVE  /\ RunsFollow(runs, Mapped(runs, StoppedRuntime), N)
         /\ \A next \in Interrupted(runs, StoppedRuntime, StopRaised) : RunsFollow(runs, next, N)
<1>1. \A i \in Instruments : Follows(runs[i], StoppedRuntime(runs[i]), N)
  BY StopFollows
<1>2. \A i \in Instruments : \A half \in StopRaised(runs[i]) : Follows(runs[i], half, N)
  BY StopFollows
<1>3. ASSUME NEW r, NEW q, Follows(r, q, N) PROVE q \in RuntimeOf(N)
  BY <1>3 DEF Follows, SoundRuntime
<1>4. RunsFollow(runs, Mapped(runs, StoppedRuntime), N)
  BY <1>1, <1>3 DEF RunsFollow, Mapped
<1>5. ASSUME NEW next \in Interrupted(runs, StoppedRuntime, StopRaised)
      PROVE  RunsFollow(runs, next, N)
  <2>1. PICK p \in DOMAIN Order : \E half \in StopRaised(runs[Order[p]]) :
          next = [i \in Instruments |->
                    IF \E q \in 1..(p - 1) : Order[q] = i THEN StoppedRuntime(runs[i])
                    ELSE IF i = Order[p] THEN half ELSE runs[i]]
    BY <1>5 DEF Interrupted
  <2>2. PICK half \in StopRaised(runs[Order[p]]) :
          next = [i \in Instruments |->
                    IF \E q \in 1..(p - 1) : Order[q] = i THEN StoppedRuntime(runs[i])
                    ELSE IF i = Order[p] THEN half ELSE runs[i]]
    BY <2>1
  <2>3. Follows(runs[Order[p]], half, N)
    BY <1>2, <2>2, InstrumentsAre
  <2>4. ASSUME NEW i \in Instruments PROVE Follows(runs[i], next[i], N)
    <3>1. next[i] \in {StoppedRuntime(runs[i]), runs[i]} \/ (i = Order[p] /\ next[i] = half)
      BY <2>2
    <3> QED BY <1>1, <2>3, <3>1, FollowsItself
  <2> QED BY <1>3, <2>2, <2>4 DEF RunsFollow
<1> QED BY <1>4, <1>5

(* start(): every way it may end; one that returns leaves all serving.      *)
LEMMA OrchestratorStartIs ==
  ASSUME NEW N, NEW a, SoundApp(a, N), NEW o \in OrchestratorStart(a)
  PROVE  /\ AppFollows(a, o.app, N) /\ o.ok \in BOOLEAN
         /\ o.ok => Serving(o.app)
<1> DEFINE all == Mapped(a.runs, StartedRuntime)
           some == Interrupted(a.runs, StartedRuntime, StartRaised)
           h == HandoffStarted(a.handoff)
           started == [a EXCEPT !.runs = all, !.handoff = h]
<1>1. /\ a.status \in RuntimeStatus /\ a.handoff \in {"created", "ready", "stopped"}
      /\ a.runs \in [Instruments -> RuntimeOf(N)]
      /\ \A i \in Instruments : SoundRuntime(a.runs[i], N)
  BY DEF SoundApp, AppStates
<1>2. RunsFollow(a.runs, all, N) /\ \A next \in some : RunsFollow(a.runs, next, N)
  BY <1>1, StartingFollows
<1>3. h \in {"created", "ready", "stopped"}
  BY <1>1 DEF HandoffStarted
<1>4. \A i \in Instruments : all[i].status = "RUNNING"
  BY <1>1, StartedRuntimeIs DEF Mapped
<1>5. \/ o = [app |-> [started EXCEPT !.status = "RUNNING"], ok |-> TRUE]
      \/ o = [app |-> started, ok |-> FALSE]
      \/ \E next \in some : o = [app |-> [a EXCEPT !.runs = next], ok |-> FALSE]
  BY DEF OrchestratorStart, Raising
<1> HIDE DEF all, some, h
<1>6. CASE o = [app |-> [started EXCEPT !.status = "RUNNING"], ok |-> TRUE]
  <2> DEFINE b == o.app
  <2>1. /\ b.runs = all /\ b.status = "RUNNING"
        /\ b \in [status: RuntimeStatus, runs: {all}, handoff: {"created", "ready", "stopped"}]
    BY <1>1, <1>3, <1>6 DEF RuntimeStatus, SoundApp, AppStates
  <2> HIDE DEF b
  <2>2. AppFollows(a, b, N)
    BY <1>2, <2>1, AppFollowsRuns
  <2> QED BY <1>4, <1>6, <2>1, <2>2 DEF Serving, b
<1>7. CASE o = [app |-> started, ok |-> FALSE]
  <2> DEFINE b == o.app
  <2>1. /\ b.runs = all
        /\ b \in [status: RuntimeStatus, runs: {all}, handoff: {"created", "ready", "stopped"}]
    BY <1>1, <1>3, <1>7 DEF SoundApp, AppStates
  <2> HIDE DEF b
  <2>2. AppFollows(a, b, N)
    BY <1>2, <2>1, AppFollowsRuns
  <2> QED BY <1>7, <2>2 DEF b
<1>8. ASSUME NEW next \in some, o = [app |-> [a EXCEPT !.runs = next], ok |-> FALSE]
      PROVE  AppFollows(a, o.app, N) /\ o.ok = FALSE
  <2> DEFINE b == o.app
  <2>1. /\ b.runs = next
        /\ b \in [status: RuntimeStatus, runs: {next}, handoff: {"created", "ready", "stopped"}]
    BY <1>1, <1>8 DEF SoundApp, AppStates
  <2> HIDE DEF b
  <2>2. AppFollows(a, b, N)
    BY <1>2, <1>8, <2>1, AppFollowsRuns
  <2> QED BY <1>8, <2>2 DEF b
<1> QED BY <1>5, <1>6, <1>7, <1>8

(* stop(): one that returns leaves no runtime running and no engine serving. *)
LEMMA OrchestratorStopIs ==
  ASSUME NEW N, NEW a, SoundApp(a, N), NEW o \in OrchestratorStop(a)
  PROVE  /\ AppFollows(a, o.app, N) /\ o.ok \in BOOLEAN
         /\ o.ok => Undone(o.app)
<1> DEFINE all == Mapped(a.runs, StoppedRuntime)
           some == Interrupted(a.runs, StoppedRuntime, StopRaised)
           h == HandoffStopped(a.handoff)
           stopped == [a EXCEPT !.runs = all, !.handoff = h]
<1>1. /\ a.status \in RuntimeStatus /\ a.handoff \in {"created", "ready", "stopped"}
      /\ a.runs \in [Instruments -> RuntimeOf(N)]
      /\ \A i \in Instruments : SoundRuntime(a.runs[i], N)
  BY DEF SoundApp, AppStates
<1>2. RunsFollow(a.runs, all, N) /\ \A next \in some : RunsFollow(a.runs, next, N)
  BY <1>1, StoppingFollows
<1>3. h \in {"created", "ready", "stopped"}
  BY <1>1 DEF HandoffStopped
<1>4. ASSUME NEW i \in Instruments
      PROVE  /\ all[i].status = "STOPPED"
             /\ \A k \in 1 .. 8 : all[i].engines[k] \in {"created", "stopped", "failed"}
  <2>1. all[i] = StoppedRuntime(a.runs[i])
    BY <1>4 DEF Mapped
  <2> QED BY <1>1, <1>4, <2>1, StoppedRuntimeIs
<1>5. \/ o = [app |-> [stopped EXCEPT !.status = "STOPPED"], ok |-> TRUE]
      \/ o = [app |-> stopped, ok |-> FALSE]
      \/ \E next \in some : o = [app |-> [a EXCEPT !.runs = next], ok |-> FALSE]
  BY DEF OrchestratorStop, Raising
<1> HIDE DEF all, some, h
<1>6. CASE o = [app |-> [stopped EXCEPT !.status = "STOPPED"], ok |-> TRUE]
  <2> DEFINE b == o.app
  <2>1. /\ b.runs = all /\ b.status = "STOPPED"
        /\ b \in [status: RuntimeStatus, runs: {all}, handoff: {"created", "ready", "stopped"}]
    BY <1>1, <1>3, <1>6 DEF RuntimeStatus, SoundApp, AppStates
  <2> HIDE DEF b
  <2>2. AppFollows(a, b, N)
    BY <1>2, <2>1, AppFollowsRuns
  <2> QED BY <1>4, <1>6, <2>1, <2>2 DEF Undone, b
<1>7. CASE o = [app |-> stopped, ok |-> FALSE]
  <2> DEFINE b == o.app
  <2>1. /\ b.runs = all
        /\ b \in [status: RuntimeStatus, runs: {all}, handoff: {"created", "ready", "stopped"}]
    BY <1>1, <1>3, <1>7 DEF SoundApp, AppStates
  <2> HIDE DEF b
  <2>2. AppFollows(a, b, N)
    BY <1>2, <2>1, AppFollowsRuns
  <2> QED BY <1>7, <2>2 DEF b
<1>8. ASSUME NEW next \in some, o = [app |-> [a EXCEPT !.runs = next], ok |-> FALSE]
      PROVE  AppFollows(a, o.app, N) /\ o.ok = FALSE
  <2> DEFINE b == o.app
  <2>1. /\ b.runs = next
        /\ b \in [status: RuntimeStatus, runs: {next}, handoff: {"created", "ready", "stopped"}]
    BY <1>1, <1>8 DEF SoundApp, AppStates
  <2> HIDE DEF b
  <2>2. AppFollows(a, b, N)
    BY <1>2, <1>8, <2>1, AppFollowsRuns
  <2> QED BY <1>8, <2>2 DEF b
<1> QED BY <1>5, <1>6, <1>7, <1>8

(* reset_all(): what serves goes on serving, and so does what an ended      *)
(* reset leaves of an application that was running.                         *)
LEMMA ResetAllIs ==
  ASSUME NEW N, None \in N, NEW a, SoundApp(a, N)
  PROVE  LET o == ResetAll(a) IN
         /\ AppFollows(a, o.app, N) /\ o.ok \in BOOLEAN /\ o.app.status = a.status
         /\ Serving(a) => Serving(o.app)
         /\ o.ok /\ a.status = "RUNNING" => Serving(o.app)
<1> DEFINE refused == {p \in DOMAIN Order : ResetRefused(a.runs[Order[p]])}
           reached(i) == \A p \in refused : \E q \in 1..p : Order[q] = i
           runs == [i \in Instruments |->
                      IF reached(i) THEN ResetTo(a.runs[i], a.status) ELSE a.runs[i]]
           o == ResetAll(a)
<1>1. /\ a.status \in RuntimeStatus /\ a.handoff \in {"created", "ready", "stopped"}
      /\ a.runs \in [Instruments -> RuntimeOf(N)]
      /\ \A i \in Instruments : SoundRuntime(a.runs[i], N)
  BY DEF SoundApp, AppStates
<1>2. o = [app |-> [a EXCEPT !.handoff = "ready", !.runs = runs], ok |-> refused = {}]
  BY <1>1 DEF ResetAll, SoundApp, AppStates
<1>3. \A i \in Instruments : runs[i] = IF reached(i) THEN ResetTo(a.runs[i], a.status) ELSE a.runs[i]
  OBVIOUS
<1>4. refused = {} => \A i \in Instruments : reached(i) /\ ~ResetRefused(a.runs[i])
  BY InstrumentsAre
<1>5. runs \in [Instruments -> RuntimeOf(N)]
  BY <1>1, ResetToIs DEF Follows, SoundRuntime
<1> HIDE DEF refused, reached, runs
<1>6. ASSUME NEW i \in Instruments
      PROVE  /\ Follows(a.runs[i], runs[i], N)
             /\ Serving(a) => runs[i].status = "RUNNING"
             /\ refused = {} /\ a.status = "RUNNING" => runs[i].status = "RUNNING"
  <2>1. CASE reached(i)
    <3>1. runs[i] = ResetTo(a.runs[i], a.status)
      BY <1>3, <1>6, <2>1
    <3>2. SoundRuntime(a.runs[i], N) /\ (Serving(a) => a.runs[i].status = "RUNNING" /\ a.status = "RUNNING")
      BY <1>1, <1>6 DEF Serving
    <3>3. /\ Follows(a.runs[i], runs[i], N)
          /\ a.status = "RUNNING" /\ ~ResetRefused(a.runs[i]) => runs[i].status = "RUNNING"
          /\ ResetRefused(a.runs[i]) => runs[i].status = a.runs[i].status
      <4> DEFINE r == a.runs[i]
                 s == a.status
      <4>1. SoundRuntime(r, N) /\ runs[i] = ResetTo(r, s)
        BY <3>1, <3>2
      <4> HIDE DEF r, s
      <4>2. /\ Follows(r, ResetTo(r, s), N)
            /\ s = "RUNNING" /\ ~ResetRefused(r) => ResetTo(r, s).status = "RUNNING"
            /\ ResetRefused(r) => ResetTo(r, s).status = r.status
        BY <4>1, ResetToIs
      <4> QED BY <4>1, <4>2 DEF r, s
    <3>4. refused = {} => ~ResetRefused(a.runs[i])
      BY <1>4, <1>6
    <3> QED BY <3>2, <3>3, <3>4
  <2>2. CASE ~reached(i)
    <3>1. runs[i] = a.runs[i]
      BY <1>3, <1>6, <2>2
    <3> QED BY <1>1, <1>4, <1>6, <2>2, <3>1, FollowsItself DEF Serving
  <2> QED BY <2>1, <2>2
<1>7. RunsFollow(a.runs, runs, N)
  BY <1>5, <1>6 DEF RunsFollow
<1> DEFINE b == [a EXCEPT !.handoff = "ready", !.runs = runs]
           clear == refused = {}
<1>8. o.app = b /\ o.ok = clear
  BY <1>2
<1>9. clear \in BOOLEAN
  OBVIOUS
<1>10. /\ b.runs = runs /\ b.status = a.status
       /\ b \in [status: RuntimeStatus, runs: {runs}, handoff: {"created", "ready", "stopped"}]
  BY <1>1 DEF SoundApp, AppStates
<1> HIDE DEF o, b, clear
<1>11. AppFollows(a, b, N)
  BY <1>7, <1>10, AppFollowsRuns
<1> QED BY <1>6, <1>8, <1>9, <1>10, <1>11 DEF Serving, o, clear

-----------------------------------------------------------------------------
(* The lifecycle manager's calls, from a sound world to a sound one.        *)

WorldOf(w) == w = [life |-> w.life, app |-> w.app, ok |-> w.ok]

SoundWorld(w, N) ==
  /\ WorldOf(w) /\ w.ok \in BOOLEAN /\ w.life \in LifeStates /\ SoundApp(w.app, N)
  /\ w.life.status = "RUNNING" => Serving(w.app)

Leads(v, w, N) == SoundWorld(w, N) /\ AppFollows(v.app, w.app, N)

LEMMA AppFollowsItself ==
  ASSUME NEW N, NEW a, SoundApp(a, N)
  PROVE  AppFollows(a, a, N)
BY FollowsItself DEF AppFollows, RunsFollow, SoundApp, AppStates

LEMMA StartApplicationIs ==
  ASSUME NEW N, NEW v, SoundWorld(v, N), NEW w \in StartApplication(v)
  PROVE  /\ Leads(v, w, N)
         /\ w.life.error = "start" /\ ~w.ok => Undone(w.app)
<1>1. CASE v.life.status = "RUNNING"
  <2>1. w = [v EXCEPT !.ok = TRUE]
    BY <1>1 DEF StartApplication
  <2>2. w = [life |-> v.life, app |-> v.app, ok |-> TRUE]
    BY <2>1 DEF SoundWorld, WorldOf
  <2>3. AppFollows(v.app, v.app, N)
    BY AppFollowsItself DEF SoundWorld
  <2> QED BY <2>2, <2>3 DEF Leads, SoundWorld, WorldOf
<1>2. CASE v.life.status # "RUNNING"
  <2>1. PICK o \in OrchestratorStart(v.app) :
          w \in IF o.ok THEN {[life |-> [status |-> "RUNNING", error |-> None], app |-> o.app, ok |-> TRUE]}
                ELSE {[life |-> [status |-> "ERROR", error |-> IF c.ok THEN "start" ELSE "cleanup"],
                       app |-> c.app, ok |-> FALSE] : c \in OrchestratorStop(o.app)}
    BY <1>2 DEF StartApplication
  <2>2. AppFollows(v.app, o.app, N) /\ o.ok \in BOOLEAN /\ (o.ok => Serving(o.app))
    BY OrchestratorStartIs DEF SoundWorld
  <2>3. SoundApp(o.app, N)
    BY <2>2 DEF AppFollows
  <2>4. CASE o.ok
    <3>1. w = [life |-> [status |-> "RUNNING", error |-> None], app |-> o.app, ok |-> TRUE]
      BY <2>1, <2>4
    <3>2. /\ w.ok = TRUE /\ w.app = o.app /\ w.life = [status |-> "RUNNING", error |-> None]
          /\ WorldOf(w)
      BY <3>1 DEF WorldOf
    <3>3. w.life \in LifeStates
      BY <3>2 DEF LifeStates, RuntimeStatus
    <3> QED BY <2>2, <2>3, <2>4, <3>2, <3>3 DEF Leads, SoundWorld
  <2>5. CASE ~o.ok
    <3>1. PICK c \in OrchestratorStop(o.app) :
            w = [life |-> [status |-> "ERROR", error |-> IF c.ok THEN "start" ELSE "cleanup"],
                 app |-> c.app, ok |-> FALSE]
      BY <2>1, <2>5
    <3>2. AppFollows(o.app, c.app, N) /\ c.ok \in BOOLEAN /\ (c.ok => Undone(c.app))
      BY <2>3, OrchestratorStopIs
    <3>3. AppFollows(v.app, c.app, N) /\ SoundApp(c.app, N)
      BY <2>2, <3>2, FollowsOn DEF AppFollows
    <3> DEFINE e == IF c.ok THEN "start" ELSE "cleanup"
    <3>4. e \in {"start", "cleanup"} /\ (e = "start" => c.ok)
      OBVIOUS
    <3> HIDE DEF e
    <3>5. w = [life |-> [status |-> "ERROR", error |-> e], app |-> c.app, ok |-> FALSE]
      BY <3>1 DEF e
    <3>6. w.ok = FALSE /\ w.app = c.app /\ w.life = [status |-> "ERROR", error |-> e] /\ WorldOf(w)
      BY <3>5 DEF WorldOf
    <3>7. w.life \in LifeStates /\ w.life.status = "ERROR" /\ w.life.error = e
      BY <3>4, <3>6 DEF LifeStates, RuntimeStatus
    <3> QED BY <3>2, <3>3, <3>4, <3>6, <3>7 DEF Leads, SoundWorld
  <2> QED BY <2>2, <2>4, <2>5
<1> QED BY <1>1, <1>2

LEMMA StopApplicationIs ==
  ASSUME NEW N, NEW v, SoundWorld(v, N), NEW w \in StopApplication(v)
  PROVE  Leads(v, w, N)
<1>1. CASE v.life.status = "STOPPED"
  <2>1. w = [v EXCEPT !.ok = TRUE]
    BY <1>1 DEF StopApplication
  <2>2. w = [life |-> v.life, app |-> v.app, ok |-> TRUE]
    BY <2>1 DEF SoundWorld, WorldOf
  <2>3. AppFollows(v.app, v.app, N)
    BY AppFollowsItself DEF SoundWorld
  <2> QED BY <2>2, <2>3 DEF Leads, SoundWorld, WorldOf
<1>2. CASE v.life.status # "STOPPED"
  <2>1. PICK o \in OrchestratorStop(v.app) :
          w = [life |-> IF o.ok THEN [v.life EXCEPT !.status = "STOPPED"]
                        ELSE [status |-> "ERROR", error |-> "stop"],
               app |-> o.app, ok |-> o.ok]
    BY <1>2 DEF StopApplication
  <2>2. AppFollows(v.app, o.app, N) /\ o.ok \in BOOLEAN
    BY OrchestratorStopIs DEF SoundWorld
  <2> DEFINE l == IF o.ok THEN [v.life EXCEPT !.status = "STOPPED"] ELSE [status |-> "ERROR", error |-> "stop"]
  <2>3. l \in LifeStates /\ l.status # "RUNNING"
    BY DEF SoundWorld, LifeStates, RuntimeStatus
  <2> HIDE DEF l
  <2>4. w = [life |-> l, app |-> o.app, ok |-> o.ok]
    BY <2>1 DEF l
  <2>5. w.life = l /\ w.app = o.app /\ w.ok = o.ok /\ WorldOf(w)
    BY <2>4 DEF WorldOf
  <2> QED BY <2>2, <2>3, <2>5 DEF Leads, SoundWorld, AppFollows
<1> QED BY <1>1, <1>2

LEMMA LeadsOn ==
  ASSUME NEW N, NEW u, NEW v, NEW w, Leads(u, v, N), Leads(v, w, N)
  PROVE  Leads(u, w, N)
BY FollowsOn DEF Leads

LEMMA RestartApplicationIs ==
  ASSUME NEW N, NEW v, SoundWorld(v, N), NEW w \in RestartApplication(v)
  PROVE  Leads(v, w, N)
<1>1. PICK s \in (IF v.life.status = "RUNNING" THEN StopApplication(v) ELSE {v}) :
        w \in IF ~s.ok THEN {s}
              ELSE {[t EXCEPT !.life.error = IF @ = "cleanup" THEN "start" ELSE @]
                      : t \in StartApplication(s)}
  BY DEF RestartApplication
<1>2. Leads(v, v, N)
  BY AppFollowsItself DEF Leads, SoundWorld
<1>3. Leads(v, s, N)
  BY <1>2, StopApplicationIs
<1>4. CASE w = s
  BY <1>3, <1>4
<1>5. CASE w # s
  <2>1. PICK t \in StartApplication(s) :
          w = [t EXCEPT !.life.error = IF @ = "cleanup" THEN "start" ELSE @]
    BY <1>1, <1>5
  <2>2. Leads(s, t, N)
    BY <1>3, StartApplicationIs DEF Leads
  <2>3. Leads(v, t, N)
    BY <1>3, <2>2, LeadsOn
  <2> DEFINE e == IF t.life.error = "cleanup" THEN "start" ELSE t.life.error
             l == [t.life EXCEPT !.error = e]
  <2>4. t = [life |-> t.life, app |-> t.app, ok |-> t.ok]
    BY <2>3 DEF Leads, SoundWorld, WorldOf
  <2>5. w = [life |-> l, app |-> t.app, ok |-> t.ok]
    BY <2>1, <2>4
  <2>6. l \in LifeStates /\ l.status = t.life.status
    <3>1. t.life \in LifeStates
      BY <2>3 DEF Leads, SoundWorld
    <3> QED BY <3>1 DEF LifeStates
  <2> HIDE DEF l
  <2>7. w.life = l /\ w.app = t.app /\ w.ok = t.ok /\ WorldOf(w)
    BY <2>5 DEF WorldOf
  <2> QED BY <2>3, <2>6, <2>7 DEF Leads, SoundWorld
<1> QED BY <1>4, <1>5

LEMMA ResetApplicationIs ==
  ASSUME NEW N, None \in N, NEW v, SoundWorld(v, N), NEW w \in ResetApplication(v)
  PROVE  Leads(v, w, N)
<1> DEFINE o == ResetAll(v.app)
           l == IF o.ok THEN [v.life EXCEPT !.status = o.app.status] ELSE v.life
<1>1. w = [life |-> l, app |-> o.app, ok |-> o.ok]
  BY DEF ResetApplication
<1>2. v.life \in LifeStates /\ SoundApp(v.app, N) /\ (v.life.status = "RUNNING" => Serving(v.app))
  BY DEF SoundWorld
<1>3. /\ AppFollows(v.app, o.app, N) /\ o.ok \in BOOLEAN /\ o.app.status = v.app.status
      /\ Serving(v.app) => Serving(o.app)
      /\ o.ok /\ v.app.status = "RUNNING" => Serving(o.app)
  BY <1>2, ResetAllIs
<1> HIDE DEF o
<1>4. SoundApp(o.app, N) /\ o.app.status \in RuntimeStatus
  BY <1>3 DEF AppFollows, SoundApp, AppStates
<1>5. l \in LifeStates /\ (l.status = "RUNNING" => Serving(o.app))
  BY <1>2, <1>3, <1>4 DEF LifeStates
<1> HIDE DEF l
<1>6. w.life = l /\ w.app = o.app /\ w.ok = o.ok /\ WorldOf(w)
  BY <1>1 DEF WorldOf
<1> QED BY <1>3, <1>4, <1>5, <1>6 DEF Leads, SoundWorld

-----------------------------------------------------------------------------
(* What reaches one runtime. *)

(* The status of a runtime is told by its calls only.                       *)
LEMMA ObservedIs ==
  ASSUME NEW N, NEW r, SoundRuntime(r, N), NEW q \in Observed(r)
  PROVE  SoundRuntime(q, N) /\ q.status = r.status /\ q.paper = r.paper /\ Kept(r, q)
<1>1. CASE q = r
  BY <1>1 DEF Kept
<1>2. CASE q = [r EXCEPT !.engines[Shadow] = "failed"]
  <2> DEFINE e == [r.engines EXCEPT ![Shadow] = "failed"]
  <2>1. r.engines \in [1 .. 8 -> EngineState] /\ r.engines[2] \in {"created", "ready", "stopped"}
    BY DEF SoundRuntime, RuntimeOf
  <2>2. e \in [1 .. 8 -> EngineState] /\ e[2] = r.engines[2] /\ e[8] = "failed"
    BY <2>1, EnginesAre DEF EngineState
  <2>3. q = [r EXCEPT !.engines = e]
    BY <1>2 DEF SoundRuntime, RuntimeOf
  <2> HIDE DEF e
  <2>4. SoundRuntime(q, N) /\ q.status = r.status /\ q.engines = e /\ q.paper = r.paper
    BY <2>1, <2>2, <2>3, EnginesAlone
  <2> QED BY <2>2, <2>4 DEF Kept
<1>3. ASSUME NEW f \in Findings, q = [r EXCEPT !.found = @ \cup {f}]
      PROVE  SoundRuntime(q, N) /\ q.status = r.status /\ q.paper = r.paper /\ Kept(r, q)
  <2>1. /\ q \in RuntimeOf(N) /\ q.status = r.status /\ q.engines = r.engines
        /\ q.paper = r.paper /\ q.session = r.session
    BY <1>3 DEF SoundRuntime, RuntimeOf
  <2> QED BY <2>1 DEF SoundRuntime, Kept
<1> QED BY <1>1, <1>2, <1>3 DEF Observed

LEMMA PaperTickedIs ==
  ASSUME NEW N, NEW r, SoundRuntime(r, N), NEW q \in PaperTicked(r)
  PROVE  SoundRuntime(q, N) /\ q.status = r.status /\ Kept(r, q)
<1>1. PICK p \in {"none", "order", "position"} : q = [r EXCEPT !.paper = p]
  <2>1. r.paper \in {"none", "order", "position"}
    BY DEF SoundRuntime, RuntimeOf
  <2> QED BY <2>1 DEF PaperTicked
<1>2. /\ q \in RuntimeOf(N) /\ q.status = r.status /\ q.engines = r.engines /\ q.session = r.session
  BY <1>1 DEF SoundRuntime, RuntimeOf
<1> QED BY <1>2 DEF SoundRuntime, Kept

(* Both: what a tick leaves of a runtime.                                   *)
LEMMA TickFollows ==
  ASSUME NEW N, NEW r, SoundRuntime(r, N), r.status = "RUNNING", NEW q \in PaperTicked(r),
         NEW o \in Observed(q)
  PROVE  Follows(r, o, N) /\ o.status = r.status
<1>1. SoundRuntime(q, N) /\ q.status = r.status /\ Kept(r, q)
  BY PaperTickedIs
<1>2. SoundRuntime(o, N) /\ o.status = q.status /\ Kept(q, o)
  BY <1>1, ObservedIs
<1> QED BY <1>1, <1>2 DEF Follows, Held, Kept

LEMMA ShadowStartedIs ==
  ASSUME NEW N, NEW r, SoundRuntime(r, N), NEW s \in N
  PROVE  LET q == ShadowStarted(r, s) IN
         /\ SoundRuntime(q, N) /\ q.status = r.status /\ q.paper = r.paper
         /\ ShadowStartable(r, s) => q.session = s
<1> DEFINE q == ShadowStarted(r, s)
<1>1. CASE r.engines[Shadow] = "running"
  <2>1. q = r /\ (ShadowStartable(r, s) => r.session = s)
    BY <1>1 DEF ShadowStarted, ShadowStartable
  <2> QED BY <2>1
<1>2. CASE r.engines[Shadow] # "running"
  <2> DEFINE e == [r.engines EXCEPT ![Shadow] = "running"]
  <2>1. r.engines \in [1 .. 8 -> EngineState] /\ r.engines[2] \in {"created", "ready", "stopped"}
    BY DEF SoundRuntime, RuntimeOf
  <2>2. e \in [1 .. 8 -> EngineState] /\ e[2] = r.engines[2]
    BY <2>1, EnginesAre DEF EngineState
  <2>3. q = [r EXCEPT !.engines = e, !.session = s, !.found = {}]
    BY <1>2 DEF ShadowStarted, SoundRuntime, RuntimeOf
  <2> HIDE DEF e, q
  <2>4. q \in RuntimeOf(N) /\ q.status = r.status /\ q.engines = e /\ q.paper = r.paper /\ q.session = s
    BY <2>2, <2>3 DEF SoundRuntime, RuntimeOf
  <2>5. SoundRuntime(q, N) /\ q.status = r.status /\ q.paper = r.paper /\ q.session = s
    BY <2>1, <2>2, <2>4 DEF SoundRuntime
  <2> QED BY <2>5 DEF q
<1> QED BY <1>1, <1>2

LEMMA ClassifyStatusIs ==
  ASSUME NEW r
  PROVE  ClassifyStatus(r) \in SessionStatus
BY DEF ClassifyStatus, SessionStatus

(* A session that is stopped does not run, unless it was none.              *)
LEMMA ShadowStoppedIs ==
  ASSUME NEW N, None \in N, NEW r, SoundRuntime(r, N)
  PROVE  LET q == ShadowStopped(r) IN
         /\ SoundRuntime(q, N) /\ q.status = r.status /\ q.paper = r.paper /\ Kept(r, q)
         /\ q.engines[8] = "running" => q.session = None
<1> DEFINE q == ShadowStopped(r)
<1>1. CASE ShadowEnded(r) \/ r.session = None
  <2>1. q = r
    BY <1>1 DEF ShadowStopped
  <2>2. ShadowEnded(r) => r.engines[8] # "running"
    BY EnginesAre DEF ShadowEnded
  <2> QED BY <1>1, <2>1, <2>2 DEF Kept
<1>2. CASE ~(ShadowEnded(r) \/ r.session = None)
  <2> DEFINE t == IF r.engines[Shadow] = "failed" THEN "failed" ELSE "completed"
             e == [r.engines EXCEPT ![Shadow] = t]
             s == SummaryOfShadow(r)
  <2>1. r.engines \in [1 .. 8 -> EngineState] /\ r.engines[2] \in {"created", "ready", "stopped"}
        /\ r.session \in N
    BY DEF SoundRuntime, RuntimeOf
  <2>2. t \in {"failed", "completed"}
    OBVIOUS
  <2>3. q = [r EXCEPT !.engines = e, !.session = None, !.summary = s]
    BY <1>2 DEF ShadowStopped, SoundRuntime, RuntimeOf
  <2> HIDE DEF t
  <2>4. e \in [1 .. 8 -> EngineState] /\ e[2] = r.engines[2] /\ e[8] # "running"
    BY <2>1, <2>2, EnginesAre DEF EngineState
  <2>5. s \in [session: N, status: SessionStatus]
    BY <2>1, ClassifyStatusIs DEF SummaryOfShadow
  <2> HIDE DEF e, s, q
  <2>6. /\ q \in RuntimeOf(N) /\ q.status = r.status /\ q.engines = e /\ q.paper = r.paper
        /\ q.session = None
    BY <2>3, <2>4, <2>5 DEF SoundRuntime, RuntimeOf
  <2>7. SoundRuntime(q, N) /\ q.status = r.status /\ q.paper = r.paper /\ q.engines[8] # "running"
    BY <2>1, <2>4, <2>6 DEF SoundRuntime
  <2> QED BY <2>7 DEF q, Kept
<1> QED BY <1>1, <1>2

LEMMA RunsIs ==
  ASSUME NEW N, NEW i \in Instruments, SoundApp(app, N), NEW r, SoundRuntime(r, N), Runs(i, r)
  PROVE  /\ SoundApp(app', N) /\ app'.status = app.status
         /\ app'.runs[i] = r /\ \A j \in Instruments \ {i} : app'.runs[j] = app.runs[j]
<1> DEFINE next == [app.runs EXCEPT ![i] = r]
<1>1. /\ app.runs \in [Instruments -> RuntimeOf(N)] /\ app.status \in RuntimeStatus
      /\ app.handoff \in {"created", "ready", "stopped"}
      /\ \A j \in Instruments : SoundRuntime(app.runs[j], N)
  BY DEF SoundApp, AppStates
<1>2. next \in [Instruments -> RuntimeOf(N)] /\ next[i] = r
      /\ \A j \in Instruments \ {i} : next[j] = app.runs[j]
  BY <1>1 DEF SoundRuntime
<1>3. app' = [app EXCEPT !.runs = next]
  BY DEF Runs, SoundApp, AppStates
<1> HIDE DEF next
<1>4. app'.runs = next /\ app'.status = app.status /\ app' \in AppStates(N)
  BY <1>1, <1>2, <1>3 DEF SoundApp, AppStates
<1> QED BY <1>1, <1>2, <1>4 DEF SoundApp

-----------------------------------------------------------------------------
(* The application serves when it says so, and holds no trade when it says  *)
(* it stopped.                                                              *)
AppSound(N) ==
  /\ life \in LifeStates /\ SoundApp(app, N)
  /\ life.status = "RUNNING" => Serving(app)
  /\ \A i \in Instruments : Held(app.runs[i])

(* No shadow session begins, but one of the user's own.                     *)
OnlyOwnBegin ==
  \A j \in Instruments : Kept(app.runs[j], app'.runs[j]) \/ app'.runs[j].session = "own"

LEMMA LifecycleKeeps ==
  ASSUME NEW N, None \in N, AppSound(N), LifecycleNext
  PROVE  AppSound(N)' /\ AppFollows(app, app', N)
<1>1. SoundWorld(World, N) /\ World.app = app
  BY DEF World, AppSound, SoundWorld, WorldOf
<1>2. PICK w : Leads(World, w, N) /\ life' = w.life /\ app' = w.app
  <2>1. ASSUME NEW w \in StartApplication(World) PROVE Leads(World, w, N)
    BY <1>1, StartApplicationIs
  <2>2. ASSUME NEW w \in StopApplication(World) PROVE Leads(World, w, N)
    BY <1>1, StopApplicationIs
  <2>3. ASSUME NEW w \in RestartApplication(World) PROVE Leads(World, w, N)
    BY <1>1, RestartApplicationIs
  <2>4. ASSUME NEW w \in ResetApplication(World) PROVE Leads(World, w, N)
    BY <1>1, ResetApplicationIs
  <2>5. CASE Start
    BY <2>1, <2>5 DEF Start, Becomes
  <2>6. CASE Stop
    BY <2>2, <2>6 DEF Stop, Becomes
  <2>7. CASE Restart
    BY <2>3, <2>7 DEF Restart, Becomes
  <2>8. CASE Reset
    BY <2>4, <2>8 DEF Reset
  <2> QED BY <2>5, <2>6, <2>7, <2>8 DEF LifecycleNext
<1>3. /\ life' \in LifeStates /\ SoundApp(app', N) /\ (life'.status = "RUNNING" => Serving(app'))
      /\ AppFollows(app, app', N)
  BY <1>1, <1>2 DEF Leads, SoundWorld
<1>4. \A i \in Instruments : Held(app'.runs[i])
  BY <1>3 DEF AppFollows, RunsFollow, Follows, AppSound
<1> QED BY <1>3, <1>4 DEF AppSound

LEMMA OneRuntimeKeeps ==
  ASSUME NEW N, AppSound(N), NEW i \in Instruments, NEW r, SoundRuntime(r, N), Held(r),
         app.status = "RUNNING" /\ app.runs[i].status = "RUNNING" => r.status = "RUNNING",
         Runs(i, r), UNCHANGED life
  PROVE  AppSound(N)'
<1>1. /\ SoundApp(app', N) /\ app'.status = app.status
      /\ app'.runs[i] = r /\ \A j \in Instruments \ {i} : app'.runs[j] = app.runs[j]
  BY RunsIs DEF AppSound
<1>2. Serving(app) => Serving(app')
  BY <1>1 DEF Serving
<1>3. \A j \in Instruments : Held(app'.runs[j])
  BY <1>1 DEF AppSound
<1> QED BY <1>1, <1>2, <1>3 DEF AppSound

LEMMA SymbolKeeps ==
  ASSUME NEW N, {"own", None} \subseteq N, AppSound(N), NEW i \in Instruments,
         ResetSymbol(i) \/ ProcessTick(i) \/ StartShadowSession(i, "own") \/ StopShadowSession(i)
  PROVE  AppSound(N)' /\ OnlyOwnBegin
<1> DEFINE b == app.runs[i]
<1>1. SoundRuntime(b, N) /\ Held(b) /\ SoundApp(app, N)
  BY DEF AppSound, SoundApp
<1>2. PICK r : /\ Runs(i, r) /\ SoundRuntime(r, N) /\ Held(r) /\ UNCHANGED life
               /\ app.status = "RUNNING" /\ b.status = "RUNNING" => r.status = "RUNNING"
               /\ Kept(b, r) \/ r.session = "own"
  <2>1. CASE ResetSymbol(i)
    <3> DEFINE s == app.status
               r == ResetTo(b, s)
    <3>1. Runs(i, r) /\ UNCHANGED life
      BY <2>1 DEF ResetSymbol
    <3> HIDE DEF s, b
    <3>2. /\ Follows(b, ResetTo(b, s), N)
          /\ s = "RUNNING" /\ ~ResetRefused(b) => ResetTo(b, s).status = "RUNNING"
          /\ ResetRefused(b) => ResetTo(b, s).status = b.status
      BY <1>1, ResetToIs
    <3> HIDE DEF r
    <3>3. Follows(b, r, N) /\ (s = "RUNNING" /\ b.status = "RUNNING" => r.status = "RUNNING")
      BY <3>2 DEF r
    <3> QED BY <1>1, <3>1, <3>3 DEF s, Follows
  <2>2. CASE ProcessTick(i)
    <3>1. PICK r \in PaperTicked(b) : \E o \in Observed(r) : Runs(i, o)
      BY <2>2 DEF ProcessTick
    <3>2. PICK o \in Observed(r) : Runs(i, o)
      BY <3>1
    <3>3. Follows(b, o, N) /\ o.status = b.status
      <4>1. b.status = "RUNNING"
        BY <2>2 DEF ProcessTick, Processing
      <4> HIDE DEF b
      <4> QED BY <1>1, <3>1, <3>2, <4>1, TickFollows
    <3> QED BY <1>1, <2>2, <3>2, <3>3 DEF ProcessTick, Follows
  <2>3. CASE StartShadowSession(i, "own")
    <3> DEFINE r == ShadowStarted(b, "own")
    <3>1. Runs(i, r) /\ UNCHANGED life /\ ShadowStartable(b, "own")
      BY <2>3 DEF StartShadowSession
    <3>2. SoundRuntime(r, N) /\ r.status = b.status /\ r.paper = b.paper /\ r.session = "own"
      <4> HIDE DEF b
      <4> QED BY <1>1, <3>1, ShadowStartedIs
    <3> HIDE DEF r
    <3> QED BY <1>1, <3>1, <3>2 DEF Held
  <2>4. CASE StopShadowSession(i)
    <3> DEFINE r == ShadowStopped(b)
    <3>1. Runs(i, r) /\ UNCHANGED life
      BY <2>4 DEF StopShadowSession
    <3>2. SoundRuntime(r, N) /\ r.status = b.status /\ r.paper = b.paper /\ Kept(b, r)
      <4> HIDE DEF b
      <4> QED BY <1>1, ShadowStoppedIs
    <3> HIDE DEF r
    <3> QED BY <1>1, <3>1, <3>2 DEF Held
  <2> QED BY <2>1, <2>2, <2>3, <2>4
<1>3. AppSound(N)'
  BY <1>2, OneRuntimeKeeps
<1>4. OnlyOwnBegin
  <2>1. /\ app'.runs[i] = r /\ \A j \in Instruments \ {i} : app'.runs[j] = app.runs[j]
    BY <1>1, <1>2, RunsIs
  <2> QED BY <1>2, <2>1 DEF OnlyOwnBegin, Kept
<1> QED BY <1>3, <1>4

LEMMA AppInitIsSound ==
  ASSUME NEW N, None \in N, AppInit
  PROVE  AppSound(N)
<1>1. SoundRuntime(NewRuntime, N) /\ NewRuntime.status = "CREATED"
  BY NewRuntimeIsSound
<1>2. /\ life = [status |-> "CREATED", error |-> None]
      /\ app = [status |-> "CREATED", runs |-> [i \in Instruments |-> NewRuntime],
                handoff |-> "created"]
  BY DEF AppInit
<1> DEFINE runs == [i \in Instruments |-> NewRuntime]
<1>3. \A i \in Instruments : runs[i] = NewRuntime
  OBVIOUS
<1>4. runs \in [Instruments -> RuntimeOf(N)]
  BY <1>1 DEF SoundRuntime
<1> HIDE DEF runs
<1>5. /\ app.runs = runs /\ app.status = "CREATED" /\ life.status = "CREATED"
      /\ life \in LifeStates /\ app \in AppStates(N)
  BY <1>2, <1>4 DEF LifeStates, AppStates, RuntimeStatus, runs
<1> QED BY <1>1, <1>3, <1>5 DEF AppSound, SoundApp, Held

OwnNames == {"own", None}

LEMMA AppStepKeeps ==
  ASSUME AppSound(OwnNames), [AppNext]_appVars
  PROVE  AppSound(OwnNames)'
<1>1. CASE UNCHANGED appVars
  BY <1>1 DEF appVars, AppSound, SoundApp, Serving, Held
<1>2. CASE LifecycleNext
  BY <1>2, LifecycleKeeps DEF OwnNames
<1>3. CASE \E i \in Instruments :
             ResetSymbol(i) \/ ProcessTick(i) \/ StartShadowSession(i, "own") \/ StopShadowSession(i)
  BY <1>3, SymbolKeeps DEF OwnNames
<1> QED BY <1>1, <1>2, <1>3 DEF AppNext

(* What the application and its runtimes say of themselves is so: one that  *)
(* says it runs serves in every runtime, and a stopped runtime holds no     *)
(* order, and a position only where it is configured to keep one.           *)
THEOREM StatusesAreTrue == AppSpec => []StatusIsTrue
<1>1. AppInit => AppSound(OwnNames)
  BY AppInitIsSound DEF OwnNames
<1>2. AppSound(OwnNames) /\ [AppNext]_appVars => AppSound(OwnNames)'
  BY AppStepKeeps
<1>3. AppSound(OwnNames) => StatusIsTrue
  BY DEF AppSound, StatusIsTrue, RunningMeansRunning, StoppedHoldsNothing, Serving, Held
<1> QED BY <1>1, <1>2, <1>3, PTL DEF AppSpec

(* A start that raises in whatever engine of whatever runtime, and whose    *)
(* clean-up returns, leaves no runtime running and no engine serving.       *)
THEOREM FailedStartsAreUndone == AppSpec => FailedStartIsUndone
<1> DEFINE Wanted ==
      life'.status = "ERROR" /\ life'.error = "start" /\ faults' # faults /\ Start =>
        /\ app'.status = "STOPPED"
        /\ \A i \in Instruments :
             /\ app'.runs[i].status = "STOPPED"
             /\ \A k \in DOMAIN Engines : app'.runs[i].engines[k] \in {"created", "stopped", "failed"}
<1>1. AppInit => AppSound(OwnNames)
  BY AppInitIsSound DEF OwnNames
<1>2. AppSound(OwnNames) /\ [AppNext]_appVars => AppSound(OwnNames)'
  BY AppStepKeeps
<1>3. AppSound(OwnNames) /\ [AppNext]_appVars => [Wanted]_appVars
  <2> SUFFICES ASSUME AppSound(OwnNames), life'.error = "start", faults' # faults, Start
               PROVE  Undone(app')
    BY EnginesAre DEF Undone
  <2>1. SoundWorld(World, OwnNames)
    BY DEF World, AppSound, SoundWorld, WorldOf
  <2>2. PICK w \in StartApplication(World) :
          life' = w.life /\ app' = w.app /\ faults' = IF w.ok THEN faults ELSE faults + 1
    BY DEF Start, Becomes
  <2>3. w.life.error = "start" /\ ~w.ok => Undone(w.app)
    BY <2>1, <2>2, StartApplicationIs
  <2> QED BY <2>2, <2>3
<1> QED BY <1>1, <1>2, <1>3, PTL DEF AppSpec, FailedStartIsUndone

-----------------------------------------------------------------------------
(* Live sessions. *)

LiveNames == {"own", None} \cup Sessions

LiveRecord ==
  live = [state |-> live.state, session |-> live.session, active |-> live.active,
          degraded |-> live.degraded, seen |-> live.seen, counts |-> live.counts,
          report |-> live.report]

Reported ==
  /\ live.state \in {"COMPLETED", "FAILED"} /\ live.session = None
  /\ live.report.session \in Sessions /\ live.report.active \subseteq Instruments
  /\ \A i \in live.report.active :
       ~(app.runs[i].engines[8] = "running" /\ app.runs[i].session = live.report.session)

(* A report is the last word on a session: until it is reset the            *)
(* coordinator has no other, and no runtime runs the one reported.          *)
LiveSound ==
  /\ AppSound(LiveNames) /\ LiveRecord
  /\ live.session \in Sessions \cup {None} /\ live.active \subseteq Instruments
  /\ live.report # None => Reported

(* While no session begins, what is reported stays ended.                   *)
LEMMA ReportedStays ==
  ASSUME LiveSound, AppSound(LiveNames)', OnlyOwnBegin, LiveRecord',
         live'.session = live.session, live'.active = live.active, live'.report = live.report,
         live'.state \in {live.state, "COMPLETED", "FAILED"}
  PROVE  LiveSound'
<1>1. ASSUME live.report # None PROVE Reported'
  <2>1. Reported
    BY <1>1 DEF LiveSound
  <2>2. ASSUME NEW i \in live.report.active
        PROVE  ~(app'.runs[i].engines[8] = "running" /\ app'.runs[i].session = live.report.session)
    <3>1. i \in Instruments /\ live.report.session # "own"
      BY <2>1, <2>2, SessionsAreNamed DEF Reported
    <3> QED BY <2>1, <2>2, <3>1 DEF OnlyOwnBegin, Kept, Reported
  <2> QED BY <2>1, <2>2 DEF Reported
<1> QED BY <1>1 DEF LiveSound

(* An application that is left alone.                                       *)
LEMMA AppStays ==
  ASSUME LiveSound, UNCHANGED appVars
  PROVE  AppSound(LiveNames)' /\ OnlyOwnBegin
BY DEF LiveSound, appVars, AppSound, SoundApp, Serving, Held, OnlyOwnBegin, Kept

(* Runtimes whose shadow sessions alone changed.                            *)
LEMMA ShadowsKeep ==
  ASSUME NEW N, NEW a, SoundApp(a, N), \A i \in Instruments : Held(a.runs[i]),
         NEW runs, runs = [i \in Instruments |-> runs[i]],
         \A i \in Instruments : /\ SoundRuntime(runs[i], N) /\ runs[i].status = a.runs[i].status
                                /\ runs[i].paper = a.runs[i].paper,
         NEW b, b = [a EXCEPT !.runs = runs]
  PROVE  /\ SoundApp(b, N) /\ (Serving(a) => Serving(b)) /\ b.runs = runs
         /\ \A i \in Instruments : Held(b.runs[i])
<1>1. runs \in [Instruments -> RuntimeOf(N)]
  BY DEF SoundRuntime
<1>2. b \in AppStates(N) /\ b.status = a.status /\ b.runs = runs
  BY <1>1 DEF SoundApp, AppStates
<1> QED BY <1>2 DEF SoundApp, Serving, Held

LEMMA NamesAre ==
  /\ {"own", None} \subseteq LiveNames /\ None \in LiveNames
  /\ \A s \in Sessions : s \in LiveNames
BY DEF LiveNames

LEMMA ApplicationKeepsLive ==
  ASSUME LiveSound, Application
  PROVE  LiveSound'
<1>1. CASE (Start \/ Stop \/ Restart) /\ UNCHANGED <<adapter, live>>
  <2>1. AppSound(LiveNames)' /\ AppFollows(app, app', LiveNames)
    BY <1>1, LifecycleKeeps, NamesAre DEF LiveSound, LifecycleNext
  <2>2. OnlyOwnBegin
    BY <2>1 DEF AppFollows, RunsFollow, Follows, OnlyOwnBegin
  <2> QED BY <1>1, <2>1, <2>2, ReportedStays DEF LiveSound, LiveRecord
<1>2. CASE Reset /\ adapter' = AdapterReset /\ live' = LiveReset
  <2>1. AppSound(LiveNames)'
    BY <1>2, LifecycleKeeps, NamesAre DEF LiveSound, LifecycleNext
  <2>2. live' = LiveReset
    BY <1>2
  <2> QED BY <2>1, <2>2 DEF LiveReset, NewLive, LiveSound, LiveRecord
<1>3. CASE /\ \E i \in Instruments :
                ResetSymbol(i) \/ ProcessTick(i) \/ StartShadowSession(i, "own") \/ StopShadowSession(i)
           /\ UNCHANGED <<adapter, live>>
  <2>1. AppSound(LiveNames)' /\ OnlyOwnBegin
    BY <1>3, SymbolKeeps, NamesAre DEF LiveSound
  <2> QED BY <1>3, <2>1, ReportedStays DEF LiveSound, LiveRecord
<1> QED BY <1>1, <1>2, <1>3 DEF Application

LEMMA AdapterKeepsLive ==
  ASSUME LiveSound, Adapter
  PROVE  LiveSound'
<1>1. UNCHANGED <<appVars, live>>
  BY DEF Adapter, ConfigureCredentials, LoadInstrumentTokens, Connect, Disconnect, StopAdapter,
         ResetAdapter, OnConnect, OnClose, OnError, AdapterFails, OnAdapter
<1>2. AppSound(LiveNames)' /\ OnlyOwnBegin
  BY <1>1, AppStays
<1> QED BY <1>1, <1>2, ReportedStays DEF LiveSound, LiveRecord

(* What a tick leaves of the coordinator is its session and its report.     *)
LEMMA TickObservedIs ==
  ASSUME LiveSound, NEW i, NEW k, NEW kind, TickObserved(i, k, kind)
  PROVE  /\ LiveRecord' /\ live'.session = live.session /\ live'.active = live.active
         /\ live'.report = live.report /\ live'.state = live.state
<1>1. CASE live' = live
  BY <1>1 DEF LiveSound, LiveRecord
<1>2. CASE live' # live
  <2> DEFINE c == [live.counts EXCEPT ![i][kind] = @ + 1]
             s == live.seen \cup {<<i, k>>}
  <2>1. live' = [live EXCEPT !.seen = s, !.counts = c]
    BY <1>2 DEF TickObserved, LiveSound, LiveRecord
  <2> HIDE DEF c, s
  <2>2. live' = [state |-> live.state, session |-> live.session, active |-> live.active,
                 degraded |-> live.degraded, seen |-> s, counts |-> c, report |-> live.report]
    BY <2>1 DEF LiveSound, LiveRecord
  <2> QED BY <2>2 DEF LiveRecord
<1> QED BY <1>1, <1>2

LEMMA TicksKeepLive ==
  ASSUME LiveSound, OnTicks
  PROVE  LiveSound'
<1>1. CASE MalformedBatch
  <2>1. UNCHANGED <<appVars, live>>
    BY <1>1 DEF MalformedBatch, OnAdapter
  <2> QED BY <2>1, AppStays, ReportedStays DEF LiveSound, LiveRecord
<1>2. ASSUME NEW i \in Instruments, NEW k \in Ticks, DuplicateTick(i, k) \/ RejectedTick(i, k)
      PROVE  LiveSound'
  <2>1. UNCHANGED <<appVars, live>>
    BY <1>2 DEF DuplicateTick, RejectedTick
  <2> QED BY <2>1, AppStays, ReportedStays DEF LiveSound, LiveRecord
<1>3. ASSUME NEW i \in Instruments, NEW k \in Ticks, RefusedTick(i, k)
      PROVE  LiveSound'
  <2>1. UNCHANGED appVars /\ TickObserved(i, k, "rejected")
    BY <1>3 DEF RefusedTick
  <2> QED BY <2>1, AppStays, TickObservedIs, ReportedStays
<1>4. ASSUME NEW i \in Instruments, NEW k \in Ticks, AcceptedTick(i, k)
      PROVE  LiveSound'
  <2> DEFINE b == app.runs[i]
  <2>1. /\ TickObserved(i, k, "accepted") /\ UNCHANGED life /\ Processing(i)
        /\ \E r \in PaperTicked(b) : \E o \in IF Observing(i, k) THEN Observed(r) ELSE {r} : Runs(i, o)
    BY <1>4 DEF AcceptedTick
  <2>2. PICK r \in PaperTicked(b) : \E o \in Observed(r) : Runs(i, o)
    BY <2>1 DEF Observed
  <2>3. PICK o \in Observed(r) : Runs(i, o)
    BY <2>2
  <2>4. SoundRuntime(b, LiveNames) /\ b.status = "RUNNING"
    BY <1>4, <2>1 DEF LiveSound, AppSound, SoundApp, Processing
  <2>5. Follows(b, o, LiveNames) /\ o.status = b.status
    <3> HIDE DEF b
    <3> QED BY <2>2, <2>3, <2>4, TickFollows
  <2>6. AppSound(LiveNames) /\ SoundRuntime(o, LiveNames) /\ Held(o)
    BY <1>4, <2>5 DEF LiveSound, Follows, AppSound
  <2>7. AppSound(LiveNames)'
    BY <1>4, <2>1, <2>3, <2>4, <2>5, <2>6, OneRuntimeKeeps
  <2>8. app'.runs[i] = o /\ \A j \in Instruments \ {i} : app'.runs[j] = app.runs[j]
    BY <1>4, <2>3, <2>6, RunsIs DEF AppSound
  <2>9. OnlyOwnBegin
    BY <1>4, <2>5, <2>8 DEF OnlyOwnBegin, Follows, Kept
  <2> QED BY <2>1, <2>7, <2>9, TickObservedIs, ReportedStays
<1> QED BY <1>1, <1>2, <1>3, <1>4 DEF OnTicks

(* A session is begun, or what was begun of it is ended again; either way   *)
(* there is no report.                                                      *)
LEMMA StartLiveSessionKeeps ==
  ASSUME LiveSound, NEW s \in Sessions, NEW which \in SUBSET Instruments,
         StartLiveSession(s, which)
  PROVE  LiveSound'
<1>1. PICK o \in (IF app.status = "RUNNING" THEN {[app |-> app, ok |-> TRUE]} ELSE OrchestratorStart(app)) :
        LET begun == IF o.ok /\ LinkReady THEN Begun(o.app.runs, which, s) ELSE {}
            runs == [i \in Instruments |->
                       IF i \in begun THEN ShadowStarted(o.app.runs[i], s) ELSE o.app.runs[i]]
        IN \/ /\ begun = which
              /\ app' = [o.app EXCEPT !.runs = runs]
              /\ adapter' = [adapter EXCEPT !.subscribed = @ \cup which]
              /\ live' = [live EXCEPT !.state = "RUNNING", !.session = s, !.active = which,
                                      !.degraded = FALSE, !.seen = {}, !.counts = NoTicks]
           \/ /\ app' = [o.app EXCEPT !.runs =
                           [i \in Instruments |->
                              IF i \in begun THEN ShadowStopped(runs[i]) ELSE runs[i]]]
              /\ live' = [FailedLive EXCEPT !.session = None, !.active = {}]
              /\ UNCHANGED adapter
  BY DEF StartLiveSession
<1> DEFINE begun == IF o.ok /\ LinkReady THEN Begun(o.app.runs, which, s) ELSE {}
           runs == [i \in Instruments |->
                      IF i \in begun THEN ShadowStarted(o.app.runs[i], s) ELSE o.app.runs[i]]
           back == [i \in Instruments |-> IF i \in begun THEN ShadowStopped(runs[i]) ELSE runs[i]]
<1>2. live.state \notin LiveEnded \cup {"RUNNING"} /\ life' = life
  BY DEF StartLiveSession
<1>3. live.report = None
  BY <1>2 DEF LiveSound, Reported, LiveEnded
<1>4. /\ AppFollows(app, o.app, LiveNames)
      /\ app.status = "RUNNING" => o.app = app
  <2>1. SoundApp(app, LiveNames)
    BY DEF LiveSound, AppSound
  <2>2. CASE app.status = "RUNNING"
    BY <1>1, <2>1, <2>2, AppFollowsItself
  <2>3. CASE app.status # "RUNNING"
    BY <1>1, <2>1, <2>3, OrchestratorStartIs
  <2> QED BY <2>2, <2>3
<1> DEFINE a == o.app
<1>5. /\ SoundApp(a, LiveNames) /\ \A i \in Instruments : Held(a.runs[i])
      /\ life.status = "RUNNING" => Serving(a)
  BY <1>4 DEF LiveSound, AppSound, AppFollows, RunsFollow, Follows, Serving
<1>6. \/ /\ app' = [a EXCEPT !.runs = runs]
         /\ live' = [live EXCEPT !.state = "RUNNING", !.session = s, !.active = which,
                                 !.degraded = FALSE, !.seen = {}, !.counts = NoTicks]
      \/ /\ app' = [a EXCEPT !.runs = back]
         /\ live' = [FailedLive EXCEPT !.session = None, !.active = {}]
  BY <1>1
<1> HIDE DEF a, begun
<1>7. ASSUME NEW i \in Instruments
      PROVE  /\ SoundRuntime(runs[i], LiveNames) /\ runs[i].status = a.runs[i].status
             /\ runs[i].paper = a.runs[i].paper
  <2>1. SoundRuntime(a.runs[i], LiveNames)
    BY <1>5, <1>7 DEF SoundApp
  <2>2. runs[i] \in {ShadowStarted(a.runs[i], s), a.runs[i]}
    BY <1>7 DEF a
  <2> HIDE DEF runs
  <2> QED BY <2>1, <2>2, ShadowStartedIs, NamesAre
<1>8. runs = [i \in Instruments |-> runs[i]] /\ back = [i \in Instruments |-> back[i]]
  OBVIOUS
<1>9. \A i \in Instruments : back[i] \in {ShadowStopped(runs[i]), runs[i]}
  OBVIOUS
<1> HIDE DEF runs, back
<1>10. ASSUME NEW i \in Instruments
       PROVE  /\ SoundRuntime(back[i], LiveNames) /\ back[i].status = a.runs[i].status
              /\ back[i].paper = a.runs[i].paper
  <2>1. /\ SoundRuntime(runs[i], LiveNames) /\ runs[i].status = a.runs[i].status
        /\ runs[i].paper = a.runs[i].paper
    BY <1>7, <1>10
  <2>2. CASE back[i] = ShadowStopped(runs[i])
    BY <2>1, <2>2, ShadowStoppedIs, NamesAre
  <2>3. CASE back[i] = runs[i]
    BY <2>1, <2>3
  <2> QED BY <1>9, <1>10, <2>2, <2>3
<1>11. PICK now \in {runs, back} : app' = [a EXCEPT !.runs = now]
  BY <1>6
<1>12. /\ SoundApp(app', LiveNames) /\ (Serving(a) => Serving(app'))
       /\ \A i \in Instruments : Held(app'.runs[i])
  <2>1. /\ now = [i \in Instruments |-> now[i]]
        /\ \A i \in Instruments : /\ SoundRuntime(now[i], LiveNames) /\ now[i].status = a.runs[i].status
                                  /\ now[i].paper = a.runs[i].paper
    BY <1>7, <1>8, <1>10, <1>11
  <2> QED BY <1>5, <1>11, <2>1, ShadowsKeep
<1>13. AppSound(LiveNames)'
  BY <1>2, <1>5, <1>12 DEF LiveSound, AppSound
<1>14. LiveRecord' /\ live'.report = None /\ live'.session \in {s, None} /\ live'.active \in {which, {}}
  <2>1. CASE live' = [live EXCEPT !.state = "RUNNING", !.session = s, !.active = which,
                                  !.degraded = FALSE, !.seen = {}, !.counts = NoTicks]
    BY <1>3, <2>1 DEF LiveSound, LiveRecord
  <2>2. CASE live' = [FailedLive EXCEPT !.session = None, !.active = {}]
    BY <1>3, <2>2 DEF LiveSound, LiveRecord, FailedLive
  <2> QED BY <1>6, <2>1, <2>2
<1> QED BY <1>13, <1>14 DEF LiveSound

(* Some of the runtimes' shadow sessions are stopped.                       *)
LEMMA StoppedShadowsKeep ==
  ASSUME LiveSound, NEW S,
         app' = [app EXCEPT !.runs = [i \in Instruments |->
                   IF i \in S THEN ShadowStopped(@[i]) ELSE @[i]]],
         UNCHANGED life
  PROVE  /\ AppSound(LiveNames)' /\ OnlyOwnBegin
         /\ \A i \in Instruments \cap S :
              app'.runs[i].engines[8] = "running" => app'.runs[i].session = None
<1> DEFINE runs == [i \in Instruments |-> IF i \in S THEN ShadowStopped(app.runs[i]) ELSE app.runs[i]]
<1>1. app' = [app EXCEPT !.runs = runs]
  BY DEF LiveSound, AppSound, SoundApp, AppStates
<1>2. \A i \in Instruments : runs[i] = IF i \in S THEN ShadowStopped(app.runs[i]) ELSE app.runs[i]
  OBVIOUS
<1>3. runs = [i \in Instruments |-> runs[i]]
  OBVIOUS
<1> HIDE DEF runs
<1>4. /\ SoundApp(app, LiveNames) /\ \A i \in Instruments : Held(app.runs[i])
      /\ life.status = "RUNNING" => Serving(app)
      /\ \A i \in Instruments : SoundRuntime(app.runs[i], LiveNames)
  BY DEF LiveSound, AppSound, SoundApp
<1>5. ASSUME NEW i \in Instruments
      PROVE  /\ SoundRuntime(runs[i], LiveNames) /\ runs[i].status = app.runs[i].status
             /\ runs[i].paper = app.runs[i].paper /\ Kept(app.runs[i], runs[i])
             /\ i \in S => (runs[i].engines[8] = "running" => runs[i].session = None)
  <2>1. CASE i \in S
    <3>1. runs[i] = ShadowStopped(app.runs[i])
      BY <1>2, <1>5, <2>1
    <3> QED BY <1>4, <1>5, <3>1, ShadowStoppedIs, NamesAre
  <2>2. CASE i \notin S
    <3>1. runs[i] = app.runs[i]
      BY <1>2, <1>5, <2>2
    <3> QED BY <1>4, <1>5, <2>2, <3>1 DEF Kept
  <2> QED BY <2>1, <2>2
<1>6. /\ SoundApp(app', LiveNames) /\ (Serving(app) => Serving(app')) /\ app'.runs = runs
      /\ \A i \in Instruments : Held(app'.runs[i])
  <2> DEFINE b == app'
  <2>1. \A i \in Instruments : /\ SoundRuntime(runs[i], LiveNames) /\ runs[i].status = app.runs[i].status
                                /\ runs[i].paper = app.runs[i].paper
    BY <1>5
  <2>2. b = [app EXCEPT !.runs = runs]
    BY <1>1
  <2> HIDE DEF b
  <2>3. /\ SoundApp(b, LiveNames) /\ (Serving(app) => Serving(b)) /\ b.runs = runs
        /\ \A i \in Instruments : Held(b.runs[i])
    BY <1>3, <1>4, <2>1, <2>2, ShadowsKeep
  <2> QED BY <2>3 DEF b
<1> QED BY <1>4, <1>5, <1>6 DEF AppSound, OnlyOwnBegin, LiveSound

LEMMA StopLiveSessionKeeps ==
  ASSUME LiveSound, StopLiveSession
  PROVE  LiveSound'
<1>1. live.report = None /\ live.session \in Sessions
  BY DEF StopLiveSession, Stoppable, LiveSound, Reported
<1>2. CASE StopRaises
  <2> DEFINE st == IF live.state = "FAILED" THEN "FAILED" ELSE "STOPPING"
             S == {i \in live.active :
                     /\ app.status = "RUNNING"
                     /\ \A p \in DOMAIN Order :
                          (Order[p] \in live.active /\ ~ShadowStoppable(app.runs[Order[p]])) =>
                             \E q \in 1..(p - 1) : Order[q] = i}
  <2>1. app' = [app EXCEPT !.runs = [i \in Instruments |->
                  IF i \in S THEN ShadowStopped(@[i]) ELSE @[i]]]
    BY <1>2 DEF StopRaises
  <2>2. life' = life
    BY DEF StopLiveSession
  <2> HIDE DEF S
  <2>3. AppSound(LiveNames)'
    BY <2>1, <2>2, StoppedShadowsKeep
  <2>4. live' = [live EXCEPT !.state = st]
    BY <1>2 DEF StopRaises
  <2> HIDE DEF st
  <2>5. LiveRecord' /\ live'.report = None /\ live'.session = live.session /\ live'.active = live.active
    BY <1>1, <2>4 DEF LiveSound, LiveRecord
  <2> QED BY <2>3, <2>5 DEF LiveSound
<1>3. CASE StopCompletes
  <2> DEFINE st == IF live.state = "FAILED" THEN "FAILED" ELSE "COMPLETED"
             status == LiveStatus(app.runs)
             told == [session |-> live.session, active |-> live.active, status |-> status]
             S == live.active
  <2>1. app' = [app EXCEPT !.runs = [i \in Instruments |->
                  IF i \in S THEN ShadowStopped(@[i]) ELSE @[i]]]
    BY <1>3 DEF StopCompletes
  <2>2. life' = life
    BY DEF StopLiveSession
  <2>3. S \subseteq Instruments
    BY DEF LiveSound
  <2> HIDE DEF S
  <2>4. AppSound(LiveNames)' /\ \A i \in S :
          app'.runs[i].engines[8] = "running" => app'.runs[i].session = None
    BY <2>1, <2>2, <2>3, StoppedShadowsKeep
  <2>5. live' = [live EXCEPT !.state = st, !.session = None, !.active = {}, !.report = told]
    BY <1>3 DEF StopCompletes
  <2>6. st \in {"COMPLETED", "FAILED"}
    OBVIOUS
  <2>7. told.session = live.session /\ told.active = S
    BY DEF S
  <2> HIDE DEF st, status, told
  <2>8. /\ LiveRecord' /\ live'.state = st /\ live'.session = None /\ live'.active = {}
        /\ live'.report = told
    BY <2>5 DEF LiveSound, LiveRecord
  <2>9. Reported'
    <3>1. live.session # None
      BY <1>1, SessionsAreNamed
    <3> QED BY <1>1, <2>3, <2>4, <2>6, <2>7, <2>8, <3>1 DEF Reported
  <2> QED BY <2>4, <2>8, <2>9 DEF LiveSound
<1> QED BY <1>2, <1>3 DEF StopLiveSession

LEMMA CoordinatorKeepsLive ==
  ASSUME LiveSound, Coordinator
  PROVE  LiveSound'
<1>1. ASSUME UNCHANGED appVars, NEW st, live' = [live EXCEPT !.state = st],
             st \in {live.state, "FAILED"} \/ live.report = None
      PROVE  LiveSound'
  <2>1. AppSound(LiveNames)' /\ OnlyOwnBegin
    BY <1>1, AppStays
  <2>2. /\ LiveRecord' /\ live'.state = st /\ live'.report = live.report
        /\ live'.session = live.session /\ live'.active = live.active
    BY <1>1 DEF LiveSound, LiveRecord
  <2>3. CASE st \in {live.state, "FAILED"}
    BY <2>1, <2>2, <2>3, ReportedStays
  <2>4. CASE live.report = None
    BY <2>1, <2>2, <2>4 DEF LiveSound
  <2> QED BY <1>1, <2>3, <2>4
<1>2. CASE \E s \in Sessions, which \in SUBSET Instruments \ {{}} : StartLiveSession(s, which)
  BY <1>2, StartLiveSessionKeeps
<1>3. CASE ObserveConnection
  <2>1. UNCHANGED appVars
    BY <1>3 DEF ObserveConnection
  <2>2. CASE live' = FailedLive
    BY <1>1, <2>1, <2>2 DEF FailedLive
  <2>3. CASE live' = [live EXCEPT !.degraded = TRUE]
    <3>1. /\ LiveRecord' /\ live'.report = live.report /\ live'.state = live.state
          /\ live'.session = live.session /\ live'.active = live.active
      BY <2>3 DEF LiveSound, LiveRecord
    <3> QED BY <2>1, <3>1, AppStays, ReportedStays
  <2> QED BY <1>3, <2>2, <2>3 DEF ObserveConnection
<1>4. CASE StopLiveSession
  BY <1>4, StopLiveSessionKeeps
<1>5. CASE StartCoordinator
  <2>1. UNCHANGED appVars /\ live' = [live EXCEPT !.state = IF live.state = "CREATED" THEN "READY" ELSE live.state]
    BY <1>5 DEF StartCoordinator
  <2> DEFINE st == IF live.state = "CREATED" THEN "READY" ELSE live.state
  <2>2. st = live.state \/ live.report = None
    BY DEF LiveSound, Reported
  <2> HIDE DEF st
  <2>3. live' = [live EXCEPT !.state = st]
    BY <2>1 DEF st
  <2> QED BY <1>1, <2>1, <2>2, <2>3
<1>6. CASE live.state = "READY" /\ live' = [live EXCEPT !.state = "STOPPED"] /\ UNCHANGED <<appVars, adapter>>
  <2>1. live.report = None
    BY <1>6 DEF LiveSound, Reported
  <2> QED BY <1>1, <1>6, <2>1
<1>7. CASE ResetCoordinator
  <2>1. AppSound(LiveNames)' /\ live' = LiveReset
    BY <1>7, AppStays DEF ResetCoordinator
  <2> QED BY <2>1 DEF LiveReset, NewLive, LiveSound, LiveRecord
<1> QED BY <1>2, <1>3, <1>4, <1>5, <1>6, <1>7 DEF Coordinator, StopCoordinator

LEMMA LiveStepKeeps ==
  ASSUME LiveSound, [LiveNext]_liveVars
  PROVE  LiveSound'
<1>1. CASE UNCHANGED liveVars
  <2>1. UNCHANGED appVars /\ UNCHANGED live
    BY <1>1 DEF liveVars
  <2> QED BY <2>1, AppStays, ReportedStays DEF LiveSound, LiveRecord
<1> QED BY <1>1, ApplicationKeepsLive, AdapterKeepsLive, TicksKeepLive, CoordinatorKeepsLive DEF LiveNext

LEMMA LiveInitIsSound ==
  ASSUME LiveInit
  PROVE  LiveSound
<1>1. AppSound(LiveNames)
  BY AppInitIsSound, NamesAre DEF LiveInit
<1> QED BY <1>1 DEF LiveInit, NewLive, LiveSound, LiveRecord

(* A live session that has been reported runs in no runtime any more,       *)
(* whatever failed, was stopped or reset under it.                          *)
THEOREM ReportedSessionsEnded == LiveSpec => []ReportedSessionEnded
<1>1. LiveInit => LiveSound
  BY LiveInitIsSound
<1>2. LiveSound /\ [LiveNext]_liveVars => LiveSound'
  BY LiveStepKeeps
<1>3. LiveSound => ReportedSessionEnded
  BY EnginesAre DEF LiveSound, Reported, ReportedSessionEnded
<1> QED BY <1>1, <1>2, <1>3, PTL DEF LiveSpec

(* Live sessions do not make the application's statuses untrue: they start  *)
(* its orchestrator behind the lifecycle manager's back, and their ticks    *)
(* trade.                                                                   *)
THEOREM StatusesAreTrueLive == LiveSpec => []StatusIsTrue
<1>1. LiveInit => LiveSound
  BY LiveInitIsSound
<1>2. LiveSound /\ [LiveNext]_liveVars => LiveSound'
  BY LiveStepKeeps
<1>3. LiveSound => StatusIsTrue
  BY DEF LiveSound, AppSound, StatusIsTrue, RunningMeansRunning, StoppedHoldsNothing, Serving, Held
<1> QED BY <1>1, <1>2, <1>3, PTL DEF LiveSpec

-------------------------------------------------------------------------------
(* The backtest and the replay. *)

(* A replay as far as its report goes: it has published the records it has  *)
(* passed, of the file it has loaded.                                       *)
Replayed(r) ==
  /\ r \in ReplaySession /\ r.published = r.cursor /\ r.cursor <= r.records
  /\ r.state \in {"READY", "RUNNING", "PAUSED", "COMPLETED"} => r.records > 0
  /\ r.records > 0 => r.path \in Paths /\ r.records = FileAt(r.path).records
  /\ r.state = "COMPLETED" => r.published = r.records

SoundReplay(r) == Replayed(r) /\ (r.state \in ReplayTerminal => r.outcome = OutcomeFor(r))

(* Nothing but its findings and its report changes.                         *)
SamePlay(r, q) ==
  q.path = r.path /\ q.records = r.records /\ q.cursor = r.cursor /\ q.published = r.published

LEMMA OutcomeForIs ==
  ASSUME NEW r
  PROVE  OutcomeFor(r) \in ReplayOutcome
BY DEF OutcomeFor, ReplayOutcome

LEMMA PersistedIs ==
  ASSUME NEW r, Replayed(r), NEW q \in Persisted(r)
  PROVE  SoundReplay(q) /\ q.state = r.state /\ SamePlay(r, q) /\ q.outcome = OutcomeFor(q)
<1>1. PICK w \in {r, [r EXCEPT !.flagged = TRUE]} : q = [w EXCEPT !.outcome = OutcomeFor(w)]
  BY DEF Persisted, WriteReport
<1>2. /\ Replayed(w) /\ w.state = r.state /\ SamePlay(r, w)
  BY <1>1 DEF Replayed, ReplaySession, SamePlay
<1> DEFINE o == OutcomeFor(w)
<1>3. o \in ReplayOutcome /\ q = [w EXCEPT !.outcome = o]
  BY <1>1, OutcomeForIs
<1> HIDE DEF o
<1>4. /\ Replayed(q) /\ q.state = w.state /\ SamePlay(w, q) /\ q.flagged = w.flagged
      /\ q.outcome = o
  BY <1>2, <1>3 DEF Replayed, ReplaySession, SamePlay
<1>5. OutcomeFor(q) = o
  BY <1>4 DEF OutcomeFor, o
<1> QED BY <1>2, <1>4, <1>5 DEF SoundReplay, SamePlay

LEMMA FailReplayIs ==
  ASSUME NEW r, Replayed(r), NEW q \in FailReplay(r)
  PROVE  SoundReplay(q) /\ q.state = "FAILED" /\ SamePlay(r, q) /\ q.outcome = "FAIL"
<1> DEFINE f == [r EXCEPT !.state = "FAILED", !.flagged = TRUE]
<1>1. Replayed(f) /\ f.state = "FAILED" /\ SamePlay(r, f)
  BY DEF Replayed, ReplaySession, ReplayLifecycleState, SamePlay
<1>2. q \in Persisted(f)
  BY DEF FailReplay
<1> HIDE DEF f
<1>3. SoundReplay(q) /\ q.state = f.state /\ SamePlay(f, q) /\ q.outcome = OutcomeFor(q)
  BY <1>1, <1>2, PersistedIs
<1>4. q.outcome = "FAIL"
  BY <1>1, <1>3 DEF OutcomeFor
<1> QED BY <1>1, <1>3, <1>4 DEF SamePlay

LEMMA CompleteIs ==
  ASSUME NEW r, Replayed(r), r.cursor = r.records, r.records > 0, NEW q \in Complete(r)
  PROVE  SoundReplay(q) /\ q.state = "COMPLETED" /\ SamePlay(r, q)
<1> DEFINE f == [r EXCEPT !.state = "COMPLETED"]
<1>1. Replayed(f) /\ f.state = "COMPLETED" /\ SamePlay(r, f)
  BY DEF Replayed, ReplaySession, ReplayLifecycleState, SamePlay
<1>2. q \in Persisted(f)
  BY DEF Complete
<1> HIDE DEF f
<1> QED BY <1>1, <1>2, PersistedIs DEF SamePlay

LEMMA ResetReplayIs == SoundReplay(ResetReplay) /\ ResetReplay.state = "IDLE"
BY DEF ResetReplay, NewReplay, SoundReplay, Replayed, ReplaySession, ReplayLifecycleState, ReplayTerminal

LEMMA LoadSessionIs ==
  ASSUME NEW r, SoundReplay(r), NEW p \in Paths, NEW q \in LoadSession(r, p)
  PROVE  /\ SoundReplay(q) /\ q.path = p
         /\ q.state = "READY" \/ (q.state = "FAILED" /\ q.outcome = "FAIL")
<1> DEFINE cleared == [r EXCEPT !.path = p, !.records = 0, !.cursor = 0, !.published = 0,
                                !.flagged = FALSE]
           n == FileAt(p).records
<1>1. r.state \in {"IDLE"} \cup ReplayTerminal /\ r \in ReplaySession
  BY DEF LoadSession, SoundReplay, Replayed
<1>2. CASE Loadable(p)
  <2>1. q = [cleared EXCEPT !.state = "READY", !.records = n]
    BY <1>1, <1>2 DEF LoadSession
  <2>2. n \in Nat /\ n > 0
    BY <1>2, FilesAreFiles DEF Loadable, SessionValid, SessionFile
  <2> HIDE DEF n
  <2>3. /\ q \in ReplaySession /\ q.state = "READY" /\ q.path = p /\ q.records = n
        /\ q.cursor = 0 /\ q.published = 0
    BY <1>1, <2>1, <2>2 DEF ReplaySession, ReplayLifecycleState
  <2> QED BY <2>2, <2>3 DEF SoundReplay, Replayed, ReplayTerminal, n
<1>3. CASE ~Loadable(p)
  <2> DEFINE f == [cleared EXCEPT !.state = "FAILED", !.flagged = TRUE]
  <2>1. q \in Persisted(f)
    BY <1>1, <1>3 DEF LoadSession, FailReplay
  <2>2. Replayed(f) /\ f.state = "FAILED" /\ f.path = p
    <3> HIDE DEF cleared
    <3>1. /\ cleared \in ReplaySession /\ cleared.path = p /\ cleared.records = 0
          /\ cleared.cursor = 0 /\ cleared.published = 0
      BY <1>1 DEF ReplaySession, cleared
    <3>2. /\ f \in ReplaySession /\ f.path = p /\ f.records = 0
          /\ f.cursor = 0 /\ f.published = 0 /\ f.state = "FAILED"
      BY <3>1 DEF ReplaySession, ReplayLifecycleState
    <3> QED BY <3>2 DEF Replayed
  <2> HIDE DEF f
  <2>3. SoundReplay(q) /\ q.state = f.state /\ SamePlay(f, q) /\ q.outcome = OutcomeFor(q)
    BY <2>1, <2>2, PersistedIs
  <2> QED BY <2>2, <2>3 DEF SamePlay, OutcomeFor
<1> QED BY <1>2, <1>3

LEMMA StartReplayIs ==
  ASSUME NEW r, SoundReplay(r), NEW active \in BOOLEAN
  PROVE  LET q == StartReplay(r, active) IN
         /\ SoundReplay(q) /\ SamePlay(r, q)
         /\ q.state = "RUNNING" \/ q.state = r.state
         /\ ~Startable(r, active) => q.state = r.state
<1> DEFINE q == StartReplay(r, active)
<1>1. CASE Startable(r, active)
  <2>1. q = [r EXCEPT !.state = "RUNNING"] /\ r.state = "READY"
    BY <1>1 DEF StartReplay, Startable
  <2> HIDE DEF q
  <2>2. SoundReplay(q) /\ SamePlay(r, q) /\ q.state = "RUNNING"
    BY <2>1 DEF SoundReplay, Replayed, ReplaySession, ReplayLifecycleState, ReplayTerminal, SamePlay
  <2> QED BY <1>1, <2>2 DEF q
<1>2. CASE ~Startable(r, active) /\ r.state = "READY"
  <2>1. q = [r EXCEPT !.flagged = TRUE]
    BY <1>2 DEF StartReplay
  <2> HIDE DEF q
  <2>2. SoundReplay(q) /\ SamePlay(r, q) /\ q.state = r.state
    BY <1>2, <2>1 DEF SoundReplay, Replayed, ReplaySession, ReplayTerminal, SamePlay
  <2> QED BY <2>2 DEF q
<1>3. CASE ~Startable(r, active) /\ r.state # "READY"
  BY <1>3 DEF StartReplay, SamePlay
<1> QED BY <1>1, <1>2, <1>3

LEMMA PublishNextIs ==
  ASSUME NEW r, SoundReplay(r), r.state = "RUNNING", NEW q \in PublishNext(r)
  PROVE  /\ SoundReplay(q) /\ q.path = r.path /\ q.records = r.records
         /\ q.state = "RUNNING" \/ (q.state = "FAILED" /\ q.outcome = "FAIL")
<1>1. CASE r.cursor >= r.records
  BY <1>1 DEF PublishNext
<1>2. CASE ~(r.cursor >= r.records)
  <2>1. CASE q = [r EXCEPT !.cursor = @ + 1, !.published = @ + 1]
    <3>1. /\ q \in ReplaySession /\ q.state = "RUNNING" /\ q.path = r.path /\ q.records = r.records
          /\ q.cursor = r.cursor + 1 /\ q.published = r.published + 1
      <4> DEFINE c == r.cursor + 1
                 d == r.published + 1
      <4>1. c \in Nat /\ d \in Nat /\ r \in ReplaySession
        BY DEF SoundReplay, Replayed, ReplaySession
      <4>2. q = [r EXCEPT !.cursor = c, !.published = d]
        BY <2>1
      <4> HIDE DEF c, d
      <4>3. /\ q \in ReplaySession /\ q.state = "RUNNING" /\ q.path = r.path /\ q.records = r.records
            /\ q.cursor = c /\ q.published = d
        BY <4>1, <4>2 DEF ReplaySession
      <4> QED BY <4>3 DEF c, d
    <3> QED BY <1>2, <3>1 DEF SoundReplay, Replayed, ReplaySession, ReplayTerminal
  <2>2. CASE q \in FailReplay(r)
    BY <2>2, FailReplayIs DEF SoundReplay, SamePlay
  <2> QED BY <1>2, <2>1, <2>2 DEF PublishNext
<1> QED BY <1>1, <1>2

(* A replay that plays on: it runs, has failed, or has ended with all of    *)
(* its records.                                                             *)
LEMMA ProcessNextIs ==
  ASSUME NEW r, SoundReplay(r), r.state = "RUNNING", NEW q \in ProcessNext(r)
  PROVE  /\ SoundReplay(q) /\ q.path = r.path /\ q.records = r.records
         /\ q.state \in {"RUNNING", "FAILED", "COMPLETED"}
<1>1. PICK p \in PublishNext(r) :
        q \in IF p.state = "RUNNING" /\ p.cursor >= p.records THEN Complete(p) ELSE {p}
  BY DEF ProcessNext
<1>2. /\ SoundReplay(p) /\ p.path = r.path /\ p.records = r.records
      /\ p.state \in {"RUNNING", "FAILED"}
  BY PublishNextIs
<1>3. CASE p.state = "RUNNING" /\ p.cursor >= p.records
  <2>1. Replayed(p) /\ p.cursor = p.records /\ p.records > 0 /\ q \in Complete(p)
    BY <1>1, <1>2, <1>3 DEF SoundReplay, Replayed, ReplaySession
  <2> QED BY <1>2, <2>1, CompleteIs DEF SamePlay
<1>4. CASE ~(p.state = "RUNNING" /\ p.cursor >= p.records)
  BY <1>1, <1>2, <1>4
<1> QED BY <1>3, <1>4

LEMMA StopReplayIs ==
  ASSUME NEW r, SoundReplay(r), NEW q \in StopReplay(r)
  PROVE  SoundReplay(q) /\ q.state = "STOPPED" /\ q.outcome = "STOPPED" /\ SamePlay(r, q)
<1> DEFINE f == [r EXCEPT !.state = "STOPPED"]
<1>1. q \in Persisted(f)
  BY DEF StopReplay
<1>2. Replayed(f) /\ f.state = "STOPPED" /\ SamePlay(r, f)
  BY DEF SoundReplay, Replayed, ReplaySession, ReplayLifecycleState, SamePlay
<1> HIDE DEF f
<1>3. SoundReplay(q) /\ q.state = f.state /\ SamePlay(f, q) /\ q.outcome = OutcomeFor(q)
  BY <1>1, <1>2, PersistedIs
<1> QED BY <1>2, <1>3 DEF SamePlay, OutcomeFor

LEMMA PauseResumeIs ==
  ASSUME NEW r, SoundReplay(r), NEW q \in PauseReplay(r) \cup ResumeReplay(r)
  PROVE  /\ SoundReplay(q) /\ SamePlay(r, q) /\ r.state \in {"RUNNING", "PAUSED"}
         /\ q.state \in {"RUNNING", "PAUSED"}
BY DEF PauseReplay, ResumeReplay, SoundReplay, Replayed, ReplaySession, ReplayLifecycleState,
       ReplayTerminal, SamePlay

LEMMA StepReplayIs ==
  ASSUME NEW r, SoundReplay(r), NEW active \in BOOLEAN, NEW q \in StepReplay(r, active)
  PROVE  SoundReplay(q)
<1>1. CASE ~(Startable(r, active) \/ r.state = "PAUSED")
  BY <1>1, StartReplayIs DEF StepReplay
<1>2. CASE Startable(r, active) \/ r.state = "PAUSED"
  <2> DEFINE s == [r EXCEPT !.state = "RUNNING"]
  <2>1. SoundReplay(s) /\ s.state = "RUNNING"
    BY <1>2 DEF Startable, SoundReplay, Replayed, ReplaySession, ReplayLifecycleState, ReplayTerminal
  <2>2. PICK p \in PublishNext(s) :
          q \in IF p.cursor >= p.records THEN Complete(p)
                ELSE IF p.state = "RUNNING" THEN {[p EXCEPT !.state = "PAUSED"]} ELSE {p}
    BY <1>2 DEF StepReplay
  <2> HIDE DEF s
  <2>3. SoundReplay(p) /\ p.records = s.records /\ p.state \in {"RUNNING", "FAILED"}
    BY <2>1, <2>2, PublishNextIs
  <2>4. p.records > 0
    BY <2>1, <2>3 DEF SoundReplay, Replayed
  <2>5. CASE p.cursor >= p.records
    <3>1. Replayed(p) /\ p.cursor = p.records /\ q \in Complete(p)
      BY <2>2, <2>3, <2>5 DEF SoundReplay, Replayed, ReplaySession
    <3> QED BY <2>4, <3>1, CompleteIs
  <2>6. CASE ~(p.cursor >= p.records) /\ p.state = "RUNNING"
    BY <2>2, <2>3, <2>6 DEF SoundReplay, Replayed, ReplaySession, ReplayLifecycleState, ReplayTerminal
  <2>7. CASE ~(p.cursor >= p.records) /\ p.state # "RUNNING"
    BY <2>2, <2>3, <2>7
  <2> QED BY <2>5, <2>6, <2>7
<1> QED BY <1>1, <1>2

LEMMA DrainedIs ==
  ASSUME NEW r, SoundReplay(r), r.state \in {"RUNNING", "READY"}, NEW q \in Drained(r)
  PROVE  SoundReplay(q)
<1>1. r.records \in Nat /\ r.records > 0 /\ r.cursor \in Nat
  BY DEF SoundReplay, Replayed, ReplaySession
<1>2. CASE q \in Complete([r EXCEPT !.state = "RUNNING", !.cursor = r.records, !.published = r.records])
  <2> DEFINE s == [r EXCEPT !.state = "RUNNING", !.cursor = r.records, !.published = r.records]
  <2>1. Replayed(s) /\ s.cursor = s.records /\ s.records > 0
    <3> DEFINE n == r.records
    <3>1. r \in ReplaySession /\ n \in Nat /\ n > 0 /\ r.path \in Paths /\ n = FileAt(r.path).records
      BY <1>1 DEF SoundReplay, Replayed
    <3> HIDE DEF n
    <3>2. s = [r EXCEPT !.state = "RUNNING", !.cursor = n, !.published = n]
      BY DEF n
    <3> HIDE DEF s
    <3>3. /\ s \in ReplaySession /\ s.cursor = n /\ s.published = n /\ s.path = r.path
          /\ s.records = r.records /\ s.state = "RUNNING"
      BY <3>1, <3>2 DEF ReplaySession, ReplayLifecycleState
    <3> QED BY <3>1, <3>3 DEF Replayed, n
  <2> HIDE DEF s
  <2>2. q \in Complete(s)
    BY <1>2 DEF s
  <2> QED BY <2>1, <2>2, CompleteIs
<1>3. ASSUME NEW k \in r.cursor..(r.records - 1),
             q \in FailReplay([r EXCEPT !.cursor = k, !.published = k])
      PROVE  SoundReplay(q)
  <2> DEFINE s == [r EXCEPT !.cursor = k, !.published = k]
  <2>1. Replayed(s)
    <3>1. k \in Nat /\ k <= r.records
      BY <1>1, <1>3
    <3> QED BY <3>1 DEF SoundReplay, Replayed, ReplaySession
  <2> HIDE DEF s
  <2>2. q \in FailReplay(s)
    BY <1>3 DEF s
  <2> QED BY <2>1, <2>2, FailReplayIs
<1> QED BY <1>2, <1>3 DEF Drained

-----------------------------------------------------------------------------
(* The backtest over it. *)

BacktestStates ==
  [state: BacktestLifecycleState, index: Nat, results: Seq(BacktestSessionResult),
   flagged: BOOLEAN, persisted: BOOLEAN, latest: BacktestBatchResult \cup {None}]

AsPlayed(x) ==
  x.outcome \in {"PASSED", "COMPLETED_WITH_FINDINGS"} =>
    /\ x.index > 0
    /\ x.id = FileAt(config.sessions[x.index]).id
    /\ x.published = FileAt(config.sessions[x.index]).records

NoneFailed(results) == \A i \in 1 .. Len(results) : results[i].outcome # "FAILED"

(* The results so far: in the order of their sessions, none of a session    *)
(* that has not begun.                                                      *)
ResultsSound(b) ==
  /\ \A i \in 1 .. Len(b.results) : AsPlayed(b.results[i]) /\ b.results[i].index <= b.index
  /\ \A i \in 2 .. Len(b.results) : b.results[i - 1].index < b.results[i].index
  /\ ~NoneFailed(b.results) => b.flagged

(* The session that was begun last has no result yet.                       *)
Ahead(b) == \A i \in 1 .. Len(b.results) : b.results[i].index < b.index

SoundBacktest(b) ==
  /\ b \in BacktestStates /\ ResultsSound(b)
  /\ b.state \in BacktestTerminal =>
       /\ b.latest # None /\ b.latest.state = b.state /\ b.latest.results = b.results
       /\ b.latest.outcome = "PASSED" => NoneFailed(b.results)
  /\ b.state \notin BacktestTerminal => ~b.persisted

(* A replay that plays for a backtest plays the session begun last.         *)
Plays(b, r) ==
  b.index \in 1 .. Len(config.sessions) /\ r.path = config.sessions[b.index] /\ Ahead(b)

Joined(b, r) ==
  r.state \in {"RUNNING", "PAUSED"} /\ b.state \notin {"IDLE"} \cup BacktestTerminal =>
    b.state \in {"RUNNING", "PAUSED"} /\ Plays(b, r)

SameRun(b, q) == q.index = b.index /\ q.results = b.results

LEMMA PersistTerminalIs ==
  ASSUME NEW b \in BacktestStates, ResultsSound(b), b.state \in BacktestTerminal, ~b.persisted,
         NEW outcome \in BacktestOutcome, outcome = "PASSED" => NoneFailed(b.results),
         NEW q \in PersistTerminal(b, outcome)
  PROVE  SoundBacktest(q) /\ SameRun(b, q) /\ q.state = b.state
<1> DEFINE latest == [state |-> b.state, outcome |-> outcome, results |-> b.results]
           done == [b EXCEPT !.persisted = TRUE, !.latest = latest]
<1>1. q \in {done, [done EXCEPT !.flagged = TRUE]}
  BY DEF PersistTerminal
<1>2. latest \in BacktestBatchResult /\ latest # None
  <2>1. latest \in BacktestBatchResult
    BY DEF BacktestStates, BacktestBatchResult
  <2> QED BY <2>1, NoReport
<1>3. latest.state = b.state /\ latest.outcome = outcome /\ latest.results = b.results
  OBVIOUS
<1> HIDE DEF latest
<1>4. /\ q \in BacktestStates /\ q.state = b.state /\ q.index = b.index /\ q.results = b.results
      /\ q.latest = latest /\ (b.flagged => q.flagged)
  BY <1>1, <1>2 DEF BacktestStates
<1>5. ResultsSound(q)
  BY <1>4 DEF ResultsSound
<1> QED BY <1>2, <1>3, <1>4, <1>5 DEF SoundBacktest, SameRun

(* Neither the results nor the sessions begun change.                       *)
LEMMA ResultsStay ==
  ASSUME NEW b, ResultsSound(b), NEW q, q.index = b.index, q.results = b.results,
         b.flagged => q.flagged
  PROVE  ResultsSound(q) /\ SameRun(b, q)
BY DEF ResultsSound, SameRun

LEMMA FailBacktestIs ==
  ASSUME NEW b, SoundBacktest(b), NEW q \in FailBacktest(b)
  PROVE  SoundBacktest(q) /\ SameRun(b, q) /\ q.state \in BacktestTerminal
<1>1. CASE b.state \in BacktestTerminal
  BY <1>1 DEF FailBacktest, SameRun
<1>2. CASE b.state \notin BacktestTerminal
  <2> DEFINE f == [b EXCEPT !.state = "FAILED", !.flagged = TRUE]
  <2>1. q \in PersistTerminal(f, "FAILED")
    BY <1>2 DEF FailBacktest
  <2>2. f \in BacktestStates /\ ResultsSound(f) /\ SameRun(b, f) /\ f.state = "FAILED" /\ ~f.persisted
    <3>1. b \in BacktestStates /\ ResultsSound(b) /\ ~b.persisted /\ b.persisted \in BOOLEAN
      BY <1>2 DEF SoundBacktest, BacktestStates
    <3>2. /\ f \in BacktestStates /\ f.state = "FAILED" /\ f.index = b.index
          /\ f.results = b.results /\ f.flagged /\ f.persisted = b.persisted
      BY <3>1 DEF BacktestStates, BacktestLifecycleState
    <3> HIDE DEF f
    <3> QED BY <3>1, <3>2, ResultsStay
  <2> HIDE DEF f
  <2> QED BY <2>1, <2>2, PersistTerminalIs DEF BacktestOutcome, BacktestTerminal, SameRun
<1> QED BY <1>1, <1>2

LEMMA CompleteBacktestIs ==
  ASSUME NEW b, SoundBacktest(b), b.state \notin BacktestTerminal, NEW q \in CompleteBacktest(b)
  PROVE  SoundBacktest(q) /\ SameRun(b, q) /\ q.state = "COMPLETED"
<1> DEFINE f == [b EXCEPT !.state = "COMPLETED"]
           outcome == IF b.flagged THEN "COMPLETED_WITH_FINDINGS" ELSE "PASSED"
<1>1. q \in PersistTerminal(f, outcome)
  BY DEF CompleteBacktest
<1>2. f \in BacktestStates /\ ResultsSound(f) /\ SameRun(b, f) /\ f.state = "COMPLETED" /\ ~f.persisted
  <2>1. b \in BacktestStates /\ ResultsSound(b) /\ ~b.persisted
    BY DEF SoundBacktest
  <2>2. /\ f \in BacktestStates /\ f.state = "COMPLETED" /\ f.index = b.index
        /\ f.results = b.results /\ f.flagged = b.flagged /\ f.persisted = b.persisted
    BY <2>1 DEF BacktestStates, BacktestLifecycleState
  <2> HIDE DEF f
  <2> QED BY <2>1, <2>2, ResultsStay
<1>3. outcome \in BacktestOutcome /\ (outcome = "PASSED" => ~b.flagged)
  BY DEF BacktestOutcome
<1>4. ~b.flagged => NoneFailed(b.results)
  BY DEF SoundBacktest, ResultsSound
<1> HIDE DEF f, outcome
<1>5. outcome = "PASSED" => NoneFailed(f.results)
  BY <1>2, <1>3, <1>4 DEF SameRun
<1> QED BY <1>1, <1>2, <1>3, <1>5, PersistTerminalIs DEF BacktestTerminal, SameRun

(* The result of a session whose replay ended.                              *)
LEMMA SessionResultIs ==
  ASSUME NEW b \in BacktestStates, NEW r, SoundReplay(r), r.state \in ReplayTerminal,
         r.state = "COMPLETED" => Plays(b, r), NEW open \in BOOLEAN
  PROVE  LET x == SessionResult(b, r, open) IN
         /\ x \in BacktestSessionResult /\ x.index = b.index /\ AsPlayed(x)
         /\ r.state = "STOPPED" => x.outcome = "STOPPED"
<1> DEFINE id == SessionId(r)
           o == SessionOutcome(r, open)
           x == SessionResult(b, r, open)
<1>1. x = [index |-> b.index, id |-> id, published |-> r.published, outcome |-> o]
  BY DEF SessionResult
<1>2. b.index \in Nat /\ r.published \in Nat
  BY DEF BacktestStates, SoundReplay, Replayed, ReplaySession
<1>3. id \in STRING \cup {None}
  <2>1. CASE r.records = 0
    BY <2>1 DEF SessionId
  <2>2. CASE r.records # 0
    <3>1. r.path \in Paths
      BY <2>2 DEF SoundReplay, Replayed, ReplaySession
    <3> QED BY <2>2, <3>1, FilesAreFiles DEF SessionId, SessionFile
  <2> QED BY <2>1, <2>2
<1>4. o \in BacktestOutcome
  BY DEF SessionOutcome, BacktestOutcome
<1>5. r.outcome = OutcomeFor(r)
  BY DEF SoundReplay
<1>6. r.state = "STOPPED" => o = "STOPPED"
  BY <1>5 DEF SessionOutcome, OutcomeFor
<1>7. o \in {"PASSED", "COMPLETED_WITH_FINDINGS"} => r.state = "COMPLETED"
  BY <1>5, <1>6 DEF SessionOutcome, OutcomeFor, ReplayTerminal
<1>8. ASSUME r.state = "COMPLETED"
      PROVE  /\ b.index > 0 /\ id = FileAt(config.sessions[b.index]).id
             /\ r.published = FileAt(config.sessions[b.index]).records
  <2>1. b.index \in 1 .. Len(config.sessions) /\ r.path = config.sessions[b.index]
    BY <1>8 DEF Plays
  <2>2. r.records > 0 /\ r.published = r.records /\ r.records = FileAt(r.path).records
    BY <1>8 DEF SoundReplay, Replayed
  <2>3. r.records # 0 /\ b.index > 0
    BY <1>2, <2>1, <2>2
  <2> QED BY <2>1, <2>2, <2>3 DEF SessionId
<1> HIDE DEF id, o, x
<1>9. /\ x \in BacktestSessionResult /\ x.index = b.index /\ x.id = id /\ x.outcome = o
      /\ x.published = r.published
  BY <1>1, <1>2, <1>3, <1>4 DEF BacktestSessionResult
<1>10. AsPlayed(x)
  BY <1>7, <1>8, <1>9 DEF AsPlayed
<1> QED BY <1>6, <1>9, <1>10 DEF x

LEMMA FinishSessionIs ==
  ASSUME NEW b, SoundBacktest(b), b.state \notin BacktestTerminal, Ahead(b),
         NEW r, SoundReplay(r), r.state \in ReplayTerminal, r.state = "COMPLETED" => Plays(b, r),
         NEW q \in FinishSession(b, r)
  PROVE  /\ SoundBacktest(q) /\ q.index = b.index
         /\ q.state = b.state \/ (r.state # "STOPPED" /\ q.state \in BacktestTerminal)
<1>1. CASE q = b
  BY <1>1
<1>2. ASSUME NEW open \in BOOLEAN,
             q \in LET result == SessionResult(b, r, open)
                       noted == [b EXCEPT !.results = Append(@, result),
                                          !.flagged = @ \/ result.outcome = "FAILED"]
                   IN IF result.outcome = "FAILED" /\ config.stops THEN FailBacktest(noted) ELSE {noted}
      PROVE  /\ SoundBacktest(q) /\ q.index = b.index
             /\ q.state = b.state \/ (r.state # "STOPPED" /\ q.state \in BacktestTerminal)
  <2> DEFINE x == SessionResult(b, r, open)
             rs == Append(b.results, x)
             f == b.flagged \/ x.outcome = "FAILED"
             noted == [b EXCEPT !.results = rs, !.flagged = f]
  <2>1. b \in BacktestStates /\ ResultsSound(b) /\ ~b.persisted
    BY DEF SoundBacktest
  <2>2. /\ x \in BacktestSessionResult /\ x.index = b.index /\ AsPlayed(x)
        /\ r.state = "STOPPED" => x.outcome = "STOPPED"
    BY <2>1, SessionResultIs
  <2>3. b.results \in Seq(BacktestSessionResult) /\ b.flagged \in BOOLEAN /\ b.index \in Nat
    BY <2>1 DEF BacktestStates
  <2>4. q \in IF x.outcome = "FAILED" /\ config.stops THEN FailBacktest(noted) ELSE {noted}
    BY <1>2
  <2> HIDE DEF x
  <2>5. /\ rs \in Seq(BacktestSessionResult) /\ Len(rs) = Len(b.results) + 1
        /\ rs[Len(b.results) + 1] = x
        /\ \A i \in 1 .. Len(b.results) : rs[i] = b.results[i]
    BY <2>2, <2>3
  <2>6. f \in BOOLEAN
    BY <2>3
  <2> HIDE DEF rs, f
  <2>7. /\ noted \in BacktestStates /\ noted.state = b.state /\ noted.index = b.index
        /\ noted.results = rs /\ noted.flagged = f /\ ~noted.persisted
    BY <2>1, <2>5, <2>6 DEF BacktestStates
  <2> HIDE DEF noted
  <2>8. \A i \in 1 .. Len(rs) : AsPlayed(rs[i]) /\ rs[i].index <= b.index
    <3>1. TAKE i \in 1 .. Len(rs)
    <3>2. CASE i = Len(b.results) + 1
      BY <2>2, <2>3, <2>5, <3>2
    <3>3. CASE i # Len(b.results) + 1
      <4>1. i \in 1 .. Len(b.results)
        BY <2>3, <2>5, <3>3
      <4> QED BY <2>1, <2>5, <4>1 DEF ResultsSound
    <3> QED BY <3>2, <3>3
  <2>9. \A i \in 2 .. Len(rs) : rs[i - 1].index < rs[i].index
    <3>1. TAKE i \in 2 .. Len(rs)
    <3>2. i - 1 \in 1 .. Len(b.results)
      BY <2>3, <2>5
    <3>3. CASE i = Len(b.results) + 1
      BY <2>2, <2>5, <3>2, <3>3 DEF Ahead
    <3>4. CASE i # Len(b.results) + 1
      <4>1. i \in 2 .. Len(b.results)
        BY <2>3, <2>5, <3>4
      <4>2. rs[i] = b.results[i] /\ rs[i - 1] = b.results[i - 1]
        BY <2>5, <3>2, <4>1
      <4> QED BY <2>1, <4>1, <4>2 DEF ResultsSound
    <3> QED BY <3>3, <3>4
  <2>10. ~NoneFailed(rs) => f
    <3> SUFFICES ASSUME NEW i \in 1 .. Len(rs), rs[i].outcome = "FAILED" PROVE f
      BY DEF NoneFailed
    <3>1. CASE i = Len(b.results) + 1
      BY <2>5, <3>1 DEF f
    <3>2. CASE i # Len(b.results) + 1
      <4>1. i \in 1 .. Len(b.results)
        BY <2>3, <2>5, <3>2
      <4> QED BY <2>1, <2>5, <4>1 DEF ResultsSound, NoneFailed, f
    <3> QED BY <3>1, <3>2
  <2>11. SoundBacktest(noted)
    BY <2>7, <2>8, <2>9, <2>10 DEF SoundBacktest, ResultsSound
  <2>12. CASE x.outcome = "FAILED" /\ config.stops
    <3>1. q \in FailBacktest(noted)
      BY <2>4, <2>12
    <3>2. SoundBacktest(q) /\ SameRun(noted, q) /\ q.state \in BacktestTerminal
      BY <2>11, <3>1, FailBacktestIs
    <3> QED BY <2>2, <2>7, <2>12, <3>2 DEF SameRun
  <2>13. CASE ~(x.outcome = "FAILED" /\ config.stops)
    <3>1. q = noted
      BY <2>4, <2>13
    <3> QED BY <2>7, <2>11, <3>1
  <2> QED BY <2>12, <2>13
<1> QED BY <1>1, <1>2 DEF FinishSession

-----------------------------------------------------------------------------
(* A refresh: the replay's driver, then the backtest's.                     *)

LEMMA ConfigurationIs ==
  ASSUME config \in Configurations
  PROVE  /\ config.sessions \in Seq(Paths)
         /\ config.backtest \in BOOLEAN /\ config.steps \in BOOLEAN /\ config.stops \in BOOLEAN
         /\ config.backtest => Len(config.sessions) # 0
<1>1. config \in DesktopConfiguration
  BY ConfigurationsAreValid
<1>2. PICK n \in 0 .. 3 : config.sessions \in [1..n -> Paths]
  BY <1>1 DEF DesktopConfiguration
<1>3. config.sessions \in Seq(Paths)
  BY <1>2
<1>4. config.backtest => config.sessions # <<>>
  BY <1>1 DEF DesktopConfiguration, BacktestConfiguration
<1>5. config.backtest => Len(config.sessions) # 0
  BY <1>3, <1>4
<1> QED BY <1>1, <1>3, <1>5 DEF DesktopConfiguration

(* What a step of the backtest leaves of it and its replay.                 *)
SoundPair(b, r) == SoundBacktest(b) /\ SoundReplay(r) /\ Joined(b, r)

LEMMA ResultIndices ==
  ASSUME NEW results \in Seq(BacktestSessionResult)
  PROVE  \A i \in 1 .. Len(results) : results[i].index \in Nat
<1>1. TAKE i \in 1 .. Len(results)
<1>2. results[i] \in BacktestSessionResult
  BY ElementOfSeq
<1> QED BY <1>2 DEF BacktestSessionResult

LEMMA StartNextSessionIs ==
  ASSUME config \in Configurations, link.active \in BOOLEAN,
         NEW b, SoundBacktest(b), b.state = "RUNNING", b.index < Len(config.sessions),
         NEW p \in StartNextSession(b)
  PROVE  SoundPair(p[1], p[2])
<1> DEFINE begun == [b EXCEPT !.index = @ + 1]
           path == config.sessions[begun.index]
           active == link.active
<1>1. PICK r \in LoadSession(ResetReplay, path) :
        p \in IF r.state = "FAILED" THEN LoadFailed(begun, r)
              ELSE IF Startable(r, active) THEN {<<begun, StartReplay(r, active)>>}
              ELSE Pairs(FailBacktest(begun), StartReplay(r, active))
  BY DEF StartNextSession
<1>2. config.sessions \in Seq(Paths) /\ Len(config.sessions) \in Nat /\ active \in BOOLEAN
  BY ConfigurationIs
<1>3. b \in BacktestStates /\ b.index \in Nat /\ b.results \in Seq(BacktestSessionResult)
  BY DEF SoundBacktest, BacktestStates
<1>4. /\ begun \in BacktestStates /\ begun.state = "RUNNING" /\ begun.index = b.index + 1
      /\ begun.results = b.results /\ begun.flagged = b.flagged /\ begun.persisted = b.persisted
  <2> DEFINE n == b.index + 1
  <2>1. n \in Nat /\ begun = [b EXCEPT !.index = n]
    BY <1>3
  <2> HIDE DEF n, begun
  <2>2. /\ begun \in BacktestStates /\ begun.state = b.state /\ begun.index = n
        /\ begun.results = b.results /\ begun.flagged = b.flagged /\ begun.persisted = b.persisted
    BY <1>3, <2>1 DEF BacktestStates
  <2> QED BY <2>2 DEF n
<1>5. path \in Paths /\ begun.index \in 1 .. Len(config.sessions)
  <2>1. begun.index \in 1 .. Len(config.sessions)
    BY <1>2, <1>3, <1>4
  <2> HIDE DEF begun
  <2> QED BY <1>2, <2>1
<1> HIDE DEF active
<1>6. /\ SoundReplay(r) /\ r.path = path
      /\ r.state = "READY" \/ (r.state = "FAILED" /\ r.outcome = "FAIL")
  <2> HIDE DEF path
  <2> QED BY <1>1, <1>5, LoadSessionIs, ResetReplayIs
<1> HIDE DEF begun
<1>7. Ahead(begun)
  <2>1. \A i \in 1 .. Len(b.results) : b.results[i].index <= b.index
    BY DEF SoundBacktest, ResultsSound
  <2>2. \A i \in 1 .. Len(b.results) : b.results[i].index \in Nat
    BY <1>3, ResultIndices
  <2> QED BY <1>3, <1>4, <2>1, <2>2 DEF Ahead
<1>8. SoundBacktest(begun)
  <2>1. \A i \in 1 .. Len(b.results) : b.results[i].index <= begun.index
    <3>1. \A i \in 1 .. Len(b.results) : b.results[i].index \in Nat
      BY <1>3, ResultIndices
    <3> QED BY <1>3, <1>4, <1>7, <3>1 DEF Ahead
  <2>2. ResultsSound(begun)
    BY <1>4, <2>1 DEF SoundBacktest, ResultsSound
  <2> QED BY <1>4, <2>2 DEF SoundBacktest, BacktestTerminal
<1>9. Plays(begun, r)
  BY <1>5, <1>6, <1>7 DEF Plays
<1> HIDE DEF path
<1>10. CASE r.state = "FAILED"
  <2>1. PICK f \in FinishSession(begun, r) : p \in Pairs(IF config.stops THEN FailBacktest(f) ELSE {f}, r)
    BY <1>1, <1>10 DEF LoadFailed
  <2>2. SoundBacktest(f)
    BY <1>4, <1>6, <1>7, <1>8, <1>10, <2>1, FinishSessionIs DEF BacktestTerminal, ReplayTerminal
  <2>3. PICK g \in (IF config.stops THEN FailBacktest(f) ELSE {f}) : p = <<g, r>>
    BY <2>1 DEF Pairs
  <2>4. SoundBacktest(g)
    BY <2>2, <2>3, FailBacktestIs
  <2> QED BY <1>6, <1>10, <2>3, <2>4 DEF SoundPair, Joined
<1>11. CASE r.state # "FAILED"
  <2> DEFINE s == StartReplay(r, active)
  <2>1. /\ SoundReplay(s) /\ SamePlay(r, s) /\ s.state \in {"RUNNING", "READY"}
        /\ ~Startable(r, active) => s.state = "READY"
    BY <1>2, <1>6, <1>11, StartReplayIs
  <2>2. CASE Startable(r, active)
    <3>1. p = <<begun, s>>
      BY <1>1, <1>11, <2>2
    <3> HIDE DEF s
    <3>2. Plays(begun, s)
      BY <1>9, <2>1 DEF Plays, SamePlay
    <3> QED BY <1>4, <1>8, <2>1, <3>1, <3>2 DEF SoundPair, Joined
  <2>3. CASE ~Startable(r, active)
    <3>1. PICK g \in FailBacktest(begun) : p = <<g, s>>
      BY <1>1, <1>11, <2>3 DEF Pairs
    <3>2. SoundBacktest(g)
      BY <1>8, <3>1, FailBacktestIs
    <3> HIDE DEF s
    <3> QED BY <2>1, <2>3, <3>1, <3>2 DEF SoundPair, Joined
  <2> QED BY <2>2, <2>3
<1> QED BY <1>10, <1>11

LEMMA ProcessBacktestIs ==
  ASSUME config \in Configurations, link.active \in BOOLEAN,
         NEW b, b.state = "RUNNING", NEW r, SoundPair(b, r), NEW p \in ProcessBacktest(b, r)
  PROVE  SoundPair(p[1], p[2])
<1>1. SoundBacktest(b) /\ SoundReplay(r) /\ b.state \notin BacktestTerminal
  BY DEF SoundPair, BacktestTerminal
<1>2. CASE r.state = "RUNNING" /\ config.steps
  <2>1. PICK g \in FailBacktest(b) : p = <<g, r>>
    BY <1>2 DEF ProcessBacktest, ProcessSession, Pairs
  <2>2. SoundBacktest(g) /\ g.state \in BacktestTerminal
    BY <1>1, <2>1, FailBacktestIs
  <2> QED BY <1>1, <2>1, <2>2 DEF SoundPair, Joined
<1>3. CASE r.state = "RUNNING" /\ ~config.steps
  <2>1. PICK q \in ProcessNext(r) : p \in IF EndedSession(q) THEN Pairs(FinishSession(b, q), q) ELSE {<<b, q>>}
    BY <1>3 DEF ProcessBacktest, ProcessSession
  <2>2. /\ SoundReplay(q) /\ q.path = r.path /\ q.records = r.records
        /\ q.state \in {"RUNNING", "FAILED", "COMPLETED"}
    BY <1>1, <1>3, <2>1, ProcessNextIs
  <2>3. Plays(b, r)
    BY <1>3 DEF SoundPair, Joined, BacktestTerminal
  <2>4. Plays(b, q) /\ Ahead(b)
    BY <2>2, <2>3 DEF Plays
  <2>5. CASE EndedSession(q)
    <3>1. PICK g \in FinishSession(b, q) : p = <<g, q>>
      BY <2>1, <2>5 DEF Pairs
    <3>2. SoundBacktest(g)
      BY <1>1, <2>2, <2>4, <2>5, <3>1, FinishSessionIs DEF EndedSession
    <3> QED BY <2>2, <2>5, <3>1, <3>2 DEF SoundPair, Joined, EndedSession, ReplayTerminal
  <2>6. CASE ~EndedSession(q)
    BY <1>1, <2>1, <2>2, <2>4, <2>6 DEF SoundPair, Joined
  <2> QED BY <2>5, <2>6
<1>4. CASE r.state # "RUNNING" /\ b.index >= Len(config.sessions)
  <2>1. PICK g \in CompleteBacktest(b) : p = <<g, r>>
    BY <1>4 DEF ProcessBacktest, Pairs
  <2>2. SoundBacktest(g) /\ g.state = "COMPLETED"
    BY <1>1, <2>1, CompleteBacktestIs
  <2> QED BY <1>1, <2>1, <2>2 DEF SoundPair, Joined, BacktestTerminal
<1>5. CASE r.state # "RUNNING" /\ ~(b.index >= Len(config.sessions))
  <2>1. Len(config.sessions) \in Nat /\ b.index \in Nat
    BY <1>1, ConfigurationIs DEF SoundBacktest, BacktestStates
  <2>2. p \in StartNextSession(b) /\ b.index < Len(config.sessions)
    BY <1>5, <2>1 DEF ProcessBacktest
  <2> QED BY <1>1, <2>2, StartNextSessionIs
<1> QED BY <1>2, <1>3, <1>4, <1>5

-----------------------------------------------------------------------------
(* What the sessions keep. *)

SessionsSound ==
  /\ config \in Configurations /\ link.active \in BOOLEAN
  /\ SoundPair(bt, rep)
  /\ ~config.backtest => bt = NewBacktest

LEMMA NewBacktestIs ==
  SoundBacktest(NewBacktest) /\ NewBacktest.state = "IDLE"
<1>1. NewBacktest \in BacktestStates /\ NewBacktest.results = <<>> /\ NewBacktest.state = "IDLE"
      /\ NewBacktest.persisted = FALSE
  BY DEF NewBacktest, BacktestStates, BacktestLifecycleState
<1>2. Len(NewBacktest.results) = 0
  BY <1>1
<1>3. NoneFailed(NewBacktest.results) /\ ResultsSound(NewBacktest)
  BY <1>2 DEF NoneFailed, ResultsSound
<1> QED BY <1>1, <1>3 DEF SoundBacktest, BacktestTerminal

LEMMA SessionsStay ==
  ASSUME SessionsSound, config' = config, link'.active \in BOOLEAN, SoundPair(bt', rep'),
         ~config.backtest => bt' = NewBacktest
  PROVE  SessionsSound'
BY DEF SessionsSound, SoundPair, SoundBacktest, ResultsSound, AsPlayed, Joined, Plays

LEMMA RefreshKeeps ==
  ASSUME SessionsSound, Refresh
  PROVE  SessionsSound'
<1>1. PICK q \in ReplayDriver(rep) : \E p \in BacktestDriver(q) : bt' = p[1] /\ rep' = p[2]
  BY DEF Refresh
<1>2. PICK p \in BacktestDriver(q) : bt' = p[1] /\ rep' = p[2]
  BY <1>1
<1>3. config' = config /\ link' = link /\ config \in Configurations /\ link.active \in BOOLEAN
  BY DEF Refresh, SessionsSound
<1>4. SoundPair(bt, q)
  <2>1. SoundPair(bt, rep)
    BY DEF SessionsSound
  <2>2. CASE q = rep
    BY <2>1, <2>2
  <2>3. CASE q # rep
    <3>1. q \in ProcessNext(rep) /\ rep.state = "RUNNING"
      BY <1>1, <2>3 DEF ReplayDriver
    <3>2. SoundReplay(q) /\ q.path = rep.path /\ q.state \in {"RUNNING", "FAILED", "COMPLETED"}
      BY <2>1, <3>1, ProcessNextIs DEF SoundPair
    <3> QED BY <2>1, <3>1, <3>2 DEF SoundPair, Joined, Plays
  <2> QED BY <2>2, <2>3
<1>5. CASE config.backtest /\ bt.state = "RUNNING"
  <2>1. p \in ProcessBacktest(bt, q)
    BY <1>2, <1>5 DEF BacktestDriver
  <2>2. SoundPair(p[1], p[2])
    BY <1>3, <1>4, <1>5, <2>1, ProcessBacktestIs
  <2> QED BY <1>2, <1>3, <1>5, <2>2, SessionsStay
<1>6. CASE ~(config.backtest /\ bt.state = "RUNNING")
  <2>1. bt' = bt /\ rep' = q
    BY <1>2, <1>6 DEF BacktestDriver
  <2> QED BY <1>3, <1>4, <2>1, SessionsStay DEF SessionsSound
<1> QED BY <1>5, <1>6

(* The sessions loaded to be told apart leave the replay at rest.           *)
LEMMA FingerprintedIs ==
  ASSUME config \in Configurations, NEW n \in 1 .. Len(config.sessions), NEW q \in Fingerprinted(n)
  PROVE  SoundReplay(q) /\ q.state \notin {"RUNNING", "PAUSED"}
<1>1. n # 0 /\ config.sessions[n] \in Paths
  BY ConfigurationIs
<1>2. CASE q = ResetReplay
  BY <1>2, ResetReplayIs
<1>3. CASE q # ResetReplay
  <2>1. q \in LoadSession(ResetReplay, config.sessions[n])
    BY <1>1, <1>3 DEF Fingerprinted
  <2> QED BY <1>1, <2>1, ResetReplayIs, LoadSessionIs
<1> QED BY <1>2, <1>3

LEMMA PreparesIs ==
  ASSUME SessionsSound, config.backtest, Prepares
  PROVE  SoundReplay(rep') /\ rep'.state \notin {"RUNNING", "PAUSED"}
<1>1. config \in Configurations /\ Len(config.sessions) \in Nat /\ Len(config.sessions) # 0
  BY ConfigurationIs DEF SessionsSound
<1>2. PICK n \in 0..Len(config.sessions) :
        /\ n = Len(config.sessions) \/ n > 0
        /\ rep' \in Fingerprinted(n)
  BY DEF Prepares
<1>3. n \in 1 .. Len(config.sessions)
  BY <1>1, <1>2
<1> DEFINE q == rep'
<1>4. q \in Fingerprinted(n)
  BY <1>2
<1> HIDE DEF q
<1>5. SoundReplay(q) /\ q.state \notin {"RUNNING", "PAUSED"}
  BY <1>1, <1>3, <1>4, FingerprintedIs
<1> QED BY <1>5 DEF q

(* A state that is no ending, with the same results.                        *)
LEMMA UnendedIs ==
  ASSUME NEW b, SoundBacktest(b), b.state \notin BacktestTerminal,
         NEW s \in BacktestLifecycleState \ BacktestTerminal, NEW q, q = [b EXCEPT !.state = s]
  PROVE  SoundBacktest(q) /\ SameRun(b, q) /\ q.state = s
<1>1. b \in BacktestStates /\ ResultsSound(b) /\ ~b.persisted
  BY DEF SoundBacktest
<1>2. /\ q \in BacktestStates /\ q.state = s /\ q.index = b.index /\ q.results = b.results
      /\ q.flagged = b.flagged /\ q.persisted = b.persisted
  BY <1>1 DEF BacktestStates
<1> QED BY <1>1, <1>2, ResultsStay DEF SoundBacktest

LEMMA RefusedIs ==
  ASSUME SoundBacktest(bt), Refused
  PROVE  SoundBacktest(bt') /\ SameRun(bt, bt') /\ bt'.state = bt.state
<1> DEFINE q == bt'
<1>1. q = [bt EXCEPT !.flagged = TRUE] /\ bt \in BacktestStates /\ ResultsSound(bt)
  BY DEF Refused, SoundBacktest
<1> HIDE DEF q
<1>2. /\ q \in BacktestStates /\ q.state = bt.state /\ q.index = bt.index /\ q.results = bt.results
      /\ q.flagged /\ q.persisted = bt.persisted /\ q.latest = bt.latest
  BY <1>1 DEF BacktestStates
<1>3. ResultsSound(q) /\ SameRun(bt, q)
  BY <1>1, <1>2, ResultsStay
<1>4. SoundBacktest(q)
  BY <1>2, <1>3 DEF SoundBacktest
<1> QED BY <1>2, <1>3, <1>4 DEF q

LEMMA PlaysOn ==
  ASSUME NEW b, NEW r, Plays(b, r), NEW c, SameRun(b, c), NEW q, q.path = r.path
  PROVE  Plays(c, q)
BY DEF Plays, SameRun, Ahead

LEMMA CommandKeepsPair ==
  ASSUME SessionsSound, config.backtest,
         PrepareBacktest \/ StartBacktest \/ PauseBacktest \/ ResumeBacktest \/ ResetBacktest
  PROVE  SoundPair(bt', rep')
<1>1. SoundBacktest(bt) /\ SoundReplay(rep) /\ Joined(bt, rep) /\ SoundPair(bt, rep)
  BY DEF SessionsSound, SoundPair
<1>2. ASSUME Refused, rep' = rep PROVE SoundPair(bt', rep')
  <2>1. SoundBacktest(bt') /\ SameRun(bt, bt') /\ bt'.state = bt.state
    BY <1>1, <1>2, RefusedIs
  <2>2. Joined(bt', rep')
    BY <1>1, <1>2, <2>1, PlaysOn DEF Joined
  <2> QED BY <1>1, <1>2, <2>1, <2>2 DEF SoundPair
<1>3. ASSUME Refused, Prepares PROVE SoundPair(bt', rep')
  BY <1>1, <1>3, RefusedIs, PreparesIs DEF SoundPair, Joined
<1>4. ASSUME NEW s \in BacktestLifecycleState \ BacktestTerminal, bt' = [bt EXCEPT !.state = s],
             bt.state \notin BacktestTerminal
      PROVE  SoundBacktest(bt') /\ SameRun(bt, bt') /\ bt'.state = s
  <2> DEFINE b == bt'
  <2>1. b = [bt EXCEPT !.state = s]
    BY <1>4
  <2> HIDE DEF b
  <2>2. SoundBacktest(b) /\ SameRun(bt, b) /\ b.state = s
    BY <1>1, <1>4, <2>1, UnendedIs
  <2> QED BY <2>2 DEF b
<1>5. {"READY", "RUNNING", "PAUSED"} \subseteq BacktestLifecycleState \ BacktestTerminal
  BY DEF BacktestLifecycleState, BacktestTerminal
<1>6. CASE PrepareBacktest
  <2>1. CASE bt.state = "IDLE" /\ Prepares /\ bt' = [bt EXCEPT !.state = "READY"]
    <3>1. SoundBacktest(bt')
      BY <1>4, <1>5, <2>1 DEF BacktestTerminal
    <3> QED BY <2>1, <3>1, PreparesIs DEF SoundPair, Joined
  <2> QED BY <1>2, <1>3, <1>6, <2>1 DEF PrepareBacktest
<1>7. CASE StartBacktest
  <2>1. CASE /\ bt.state \in {"IDLE", "READY"}
             /\ IF bt.state = "IDLE" THEN Prepares ELSE rep' = rep
             /\ bt' = [bt EXCEPT !.state = "RUNNING", !.index = 0, !.results = <<>>,
                                 !.persisted = FALSE]
    <3> DEFINE b == bt'
    <3>1. /\ b = [bt EXCEPT !.state = "RUNNING", !.index = 0, !.results = <<>>, !.persisted = FALSE]
          /\ bt \in BacktestStates
      BY <1>1, <2>1 DEF SoundBacktest
    <3> HIDE DEF b
    <3>2. /\ b \in BacktestStates /\ b.state = "RUNNING" /\ Len(b.results) = 0 /\ ~b.persisted
      <4> DEFINE c == [bt EXCEPT !.state = "RUNNING", !.index = 0]
                 none == <<>>
      <4>1. c \in BacktestStates /\ c.state = "RUNNING"
        BY <3>1 DEF BacktestStates, BacktestLifecycleState
      <4>2. none \in Seq(BacktestSessionResult) /\ Len(none) = 0
        OBVIOUS
      <4>3. b = [c EXCEPT !.results = none, !.persisted = FALSE]
        BY <3>1 DEF BacktestStates
      <4> HIDE DEF c, none
      <4> QED BY <4>1, <4>2, <4>3 DEF BacktestStates
    <3>3. ResultsSound(b)
      BY <3>2 DEF ResultsSound, NoneFailed
    <3>4. SoundBacktest(bt')
      BY <3>2, <3>3 DEF SoundBacktest, BacktestTerminal, b
    <3>5. SoundReplay(rep') /\ rep'.state \notin {"RUNNING", "PAUSED"}
      BY <1>1, <2>1, PreparesIs DEF Joined, BacktestTerminal
    <3> QED BY <3>4, <3>5 DEF SoundPair, Joined
  <2> QED BY <1>2, <1>3, <1>7, <2>1 DEF StartBacktest
<1>8. ASSUME NEW s \in {"RUNNING", "PAUSED"}, bt' = [bt EXCEPT !.state = s],
             bt.state \in {"RUNNING", "PAUSED"},
             rep' \in PauseReplay(rep) \cup ResumeReplay(rep) \cup {rep}
      PROVE  SoundPair(bt', rep')
  <2>1. SoundBacktest(bt') /\ SameRun(bt, bt') /\ bt'.state = s
    BY <1>4, <1>5, <1>8 DEF BacktestTerminal
  <2> DEFINE q == rep'
  <2>2. /\ SoundReplay(q) /\ q.path = rep.path
        /\ q.state \in {"RUNNING", "PAUSED"} => rep.state \in {"RUNNING", "PAUSED"}
    <3>1. CASE q = rep
      BY <1>1, <3>1
    <3>2. CASE q # rep
      <4>1. q \in PauseReplay(rep) \cup ResumeReplay(rep)
        BY <1>8, <3>2
      <4> HIDE DEF q
      <4> QED BY <1>1, <4>1, PauseResumeIs DEF SamePlay
    <3> QED BY <3>1, <3>2
  <2>3. q.state \in {"RUNNING", "PAUSED"} => Plays(bt', q)
    <3>1. rep.state \in {"RUNNING", "PAUSED"} => Plays(bt, rep)
      BY <1>1, <1>8 DEF Joined, BacktestTerminal
    <3> HIDE DEF q
    <3> QED BY <2>1, <2>2, <3>1, PlaysOn
  <2> QED BY <2>1, <2>2, <2>3 DEF SoundPair, Joined
<1>9. CASE PauseBacktest
  <2>1. CASE bt.state = "RUNNING"
    BY <1>8, <1>9, <2>1 DEF PauseBacktest
  <2> QED BY <1>2, <1>9, <2>1 DEF PauseBacktest
<1>10. CASE ResumeBacktest
  <2>1. CASE bt.state = "PAUSED"
    BY <1>8, <1>10, <2>1 DEF ResumeBacktest
  <2> QED BY <1>2, <1>10, <2>1 DEF ResumeBacktest
<1>11. CASE ResetBacktest
  BY <1>11, NewBacktestIs, ResetReplayIs DEF ResetBacktest, SoundPair, Joined
<1> QED BY <1>6, <1>7, <1>9, <1>10, <1>11

(* The session that plays when a run is stopped is stopped first, and its   *)
(* result is the run's last.                                                *)
LEMMA StopKeepsPair ==
  ASSUME SessionsSound, StopBacktest
  PROVE  SoundPair(bt', rep')
<1>1. SoundBacktest(bt) /\ SoundReplay(rep) /\ Joined(bt, rep)
  BY DEF SessionsSound, SoundPair
<1>2. CASE bt.state \notin {"RUNNING", "PAUSED"}
  <2>1. Refused /\ rep' = rep
    BY <1>2 DEF StopBacktest
  <2>2. SoundBacktest(bt') /\ SameRun(bt, bt') /\ bt'.state = bt.state
    BY <1>1, <2>1, RefusedIs
  <2>3. Joined(bt', rep')
    BY <1>1, <2>1, <2>2, PlaysOn DEF Joined
  <2> QED BY <1>1, <2>1, <2>2, <2>3 DEF SoundPair
<1>3. CASE bt.state \in {"RUNNING", "PAUSED"}
  <2>1. PICK p \in (IF rep.state \in {"RUNNING", "PAUSED"}
                      THEN UNION {Pairs(FinishSession(bt, r), r) : r \in StopReplay(rep)}
                    ELSE {<<bt, rep>>}) :
          /\ bt' \in PersistTerminal([p[1] EXCEPT !.state = "STOPPED", !.flagged = TRUE], "STOPPED")
          /\ rep' = p[2]
    BY <1>3 DEF StopBacktest
  <2>2. /\ SoundBacktest(p[1]) /\ p[1].state \notin BacktestTerminal /\ SoundReplay(p[2])
    <3>1. CASE rep.state \in {"RUNNING", "PAUSED"}
      <4>1. PICK r \in StopReplay(rep) : p \in Pairs(FinishSession(bt, r), r)
        BY <2>1, <3>1
      <4>2. PICK g \in FinishSession(bt, r) : p = <<g, r>>
        BY <4>1 DEF Pairs
      <4>3. SoundReplay(r) /\ r.state = "STOPPED"
        BY <1>1, <4>1, StopReplayIs
      <4>4. Ahead(bt) /\ bt.state \notin BacktestTerminal
        BY <1>1, <1>3, <3>1 DEF Joined, Plays, BacktestTerminal
      <4>5. SoundBacktest(g) /\ g.state = bt.state
        BY <1>1, <4>2, <4>3, <4>4, FinishSessionIs DEF ReplayTerminal
      <4> QED BY <4>2, <4>3, <4>4, <4>5
    <3>2. CASE rep.state \notin {"RUNNING", "PAUSED"}
      BY <1>1, <1>3, <2>1, <3>2 DEF BacktestTerminal
    <3> QED BY <3>1, <3>2
  <2> DEFINE c == p[1]
             f == [c EXCEPT !.state = "STOPPED", !.flagged = TRUE]
             b == bt'
  <2>3. c \in BacktestStates /\ ResultsSound(c) /\ ~c.persisted
    BY <2>2 DEF SoundBacktest
  <2>4. b \in PersistTerminal(f, "STOPPED")
    BY <2>1
  <2> HIDE DEF c, b
  <2>5. /\ f \in BacktestStates /\ f.state = "STOPPED" /\ f.index = c.index
        /\ f.results = c.results /\ f.flagged /\ f.persisted = c.persisted
    BY <2>3 DEF BacktestStates, BacktestLifecycleState
  <2> HIDE DEF f
  <2>6. ResultsSound(f)
    BY <2>3, <2>5, ResultsStay
  <2>7. SoundBacktest(b) /\ b.state = "STOPPED"
    BY <2>3, <2>4, <2>5, <2>6, PersistTerminalIs DEF BacktestOutcome, BacktestTerminal
  <2> QED BY <2>1, <2>2, <2>7 DEF SoundPair, Joined, BacktestTerminal, b
<1> QED BY <1>2, <1>3

LEMMA ReplayCommandIs ==
  ASSUME NEW r, SoundReplay(r), NEW steps \in BOOLEAN, NEW active \in BOOLEAN,
         NEW q \in ReplayCommands(r, steps, active)
  PROVE  SoundReplay(q)
<1>1. ASSUME NEW p \in Paths, q \in LoadSession(r, p) PROVE SoundReplay(q)
  BY <1>1, LoadSessionIs
<1>2. ASSUME q \in {StartReplay(r, active), ResetReplay} PROVE SoundReplay(q)
  BY <1>2, StartReplayIs, ResetReplayIs
<1>3. ASSUME q \in PauseReplay(r) \cup ResumeReplay(r) PROVE SoundReplay(q)
  BY <1>3, PauseResumeIs
<1>4. ASSUME q \in StopReplay(r) PROVE SoundReplay(q)
  BY <1>4, StopReplayIs
<1>5. ASSUME q \in StepReplay(r, active) PROVE SoundReplay(q)
  BY <1>5, StepReplayIs
<1>6. ASSUME r.state = "RUNNING" \/ Startable(r, active), q \in Drained(r) PROVE SoundReplay(q)
  BY <1>6, DrainedIs DEF Startable
<1>7. \/ \E p \in Paths : q \in LoadSession(r, p)
      \/ q \in {StartReplay(r, active), ResetReplay}
      \/ q \in PauseReplay(r) \cup ResumeReplay(r)
      \/ q \in StopReplay(r)
      \/ q \in (IF steps THEN StepReplay(r, active)
                ELSE IF r.state = "RUNNING" \/ Startable(r, active) THEN Drained(r) ELSE {})
  <2> DEFINE Loads == UNION {LoadSession(r, p) : p \in Paths}
             Plain == {StartReplay(r, active), ResetReplay}
             Plays1 == IF steps THEN StepReplay(r, active)
                       ELSE IF r.state = "RUNNING" \/ Startable(r, active) THEN Drained(r) ELSE {}
             P == PauseReplay(r)
             R == ResumeReplay(r)
             S == StopReplay(r)
  <2>1. q \in Loads \cup Plain \cup P \cup R \cup S \cup Plays1
    BY DEF ReplayCommands
  <2>2. ASSUME q \in Loads PROVE \E p \in Paths : q \in LoadSession(r, p)
    BY <2>2
  <2> HIDE DEF Loads, Plain, Plays1, P, R, S
  <2>3. \/ q \in Loads \/ q \in Plain \/ q \in P \cup R \/ q \in S \/ q \in Plays1
    BY <2>1
  <2> QED BY <2>2, <2>3 DEF Plain, P, R, S, Plays1
<1>8. ASSUME q \in (IF steps THEN StepReplay(r, active)
                   ELSE IF r.state = "RUNNING" \/ Startable(r, active) THEN Drained(r) ELSE {})
      PROVE  SoundReplay(q)
  <2>1. CASE steps
    BY <1>5, <1>8, <2>1
  <2>2. CASE ~steps
    BY <1>6, <1>8, <2>2
  <2> QED BY <2>1, <2>2
<1> QED BY <1>1, <1>2, <1>3, <1>4, <1>7, <1>8

LEMMA SessionsStepKeeps ==
  ASSUME SessionsSound, [SessionsNext]_sessionVars
  PROVE  SessionsSound'
<1>1. /\ SoundPair(bt, rep) /\ link.active \in BOOLEAN /\ config \in Configurations
      /\ ~config.backtest => bt = NewBacktest
  BY DEF SessionsSound
<1>2. CASE BacktestCommand
  <2>1. config' = config /\ link' = link /\ config.backtest
    BY <1>2 DEF BacktestCommand
  <2>2. SoundPair(bt', rep')
    BY <1>2, <2>1, CommandKeepsPair, StopKeepsPair DEF BacktestCommand
  <2> QED BY <1>1, <2>1, <2>2, SessionsStay
<1>3. CASE ReplayCommand
  <2>1. /\ rep' \in ReplayCommands(rep, config.steps, link.active) /\ ~config.backtest
        /\ UNCHANGED <<config, bt, link>>
    BY <1>3 DEF ReplayCommand
  <2>2. SoundReplay(rep')
    <3> DEFINE q == rep'
               active == link.active
    <3>1. q \in ReplayCommands(rep, config.steps, active) /\ active \in BOOLEAN /\ config.steps \in BOOLEAN
      BY <1>1, <2>1, ConfigurationIs
    <3> HIDE DEF q, active
    <3>2. SoundReplay(q)
      BY <1>1, <3>1, ReplayCommandIs DEF SoundPair
    <3> QED BY <3>2 DEF q
  <2>3. SoundPair(bt', rep')
    BY <1>1, <2>1, <2>2, NewBacktestIs DEF SoundPair, Joined
  <2> QED BY <1>1, <2>1, <2>3, SessionsStay
<1>4. CASE StopRuntimes
  <2>1. rep' = rep \/ rep' \in StopReplay(rep)
    BY <1>4 DEF StopRuntimes
  <2>2. UNCHANGED <<config, bt, link>>
    BY <1>4 DEF StopRuntimes
  <2>3. SoundPair(bt', rep')
    <3>1. CASE rep' = rep
      BY <1>1, <2>2, <3>1
    <3>2. CASE rep' \in StopReplay(rep)
      BY <1>1, <2>2, <3>2, StopReplayIs DEF SoundPair, Joined
    <3> QED BY <2>1, <3>1, <3>2
  <2> QED BY <1>1, <2>2, <2>3, SessionsStay
<1>5. CASE StartRuntimes \/ UNCHANGED sessionVars
  <2>1. UNCHANGED <<config, bt, link, rep>>
    BY <1>5 DEF StartRuntimes, sessionVars
  <2> QED BY <1>1, <2>1, SessionsStay
<1>6. CASE LiveChanges
  <2>1. UNCHANGED <<config, bt, rep>> /\ link'.active \in BOOLEAN
    BY <1>1, <1>6 DEF LiveChanges
  <2> QED BY <1>1, <2>1, SessionsStay
<1> QED BY <1>2, <1>3, <1>4, <1>5, <1>6, RefreshKeeps DEF SessionsNext

LEMMA SessionsInitIsSound ==
  ASSUME SessionsInit
  PROVE  SessionsSound
<1>1. config \in Configurations /\ link.active \in BOOLEAN /\ bt = NewBacktest
  BY DEF SessionsInit
<1>2. rep \in ConfiguredReplay(config, link.active)
  BY DEF SessionsInit
<1>3. SoundReplay(NewReplay)
  BY ResetReplayIs DEF ResetReplay
<1>4. SoundReplay(rep)
  <2>1. CASE config.auto = "none"
    BY <1>2, <1>3, <2>1 DEF ConfiguredReplay
  <2>2. CASE config.auto # "none"
    <3>1. PICK p \in Paths :
            rep \in IF config.auto = "load" THEN LoadSession(NewReplay, p)
                    ELSE {[r EXCEPT !.state = "RUNNING"] :
                            r \in {q \in LoadSession(NewReplay, p) : Startable(q, link.active)}}
      BY <1>2, <2>2 DEF ConfiguredReplay
    <3>2. PICK r \in LoadSession(NewReplay, p) :
            rep = r \/ (Startable(r, link.active) /\ rep = [r EXCEPT !.state = "RUNNING"])
      BY <3>1
    <3>3. SoundReplay(r)
      BY <1>3, <3>2, LoadSessionIs
    <3>4. CASE Startable(r, link.active) /\ rep = [r EXCEPT !.state = "RUNNING"]
      BY <3>3, <3>4 DEF Startable, SoundReplay, Replayed, ReplaySession, ReplayLifecycleState,
            ReplayTerminal
    <3> QED BY <3>2, <3>3, <3>4
  <2> QED BY <2>1, <2>2
<1> QED BY <1>1, <1>4, NewBacktestIs DEF SessionsSound, SoundPair, Joined

(* What ends has its report, and the report says what was played: whatever  *)
(* is paused, stopped, refused, reset or fails on the way, no session is    *)
(* reported twice, none that passed without all of its records, and no run  *)
(* passes with a session that failed.                                       *)
THEOREM EndingsReported == SessionsSpec => []EndingsAreReported
<1>1. SessionsInit => SessionsSound
  BY SessionsInitIsSound
<1>2. SessionsSound /\ [SessionsNext]_sessionVars => SessionsSound'
  BY SessionsStepKeeps
<1>3. SessionsSound => EndingsAreReported
  <2> SUFFICES ASSUME SessionsSound PROVE EndingsAreReported
    OBVIOUS
  <2>1. SoundReplay(rep) /\ SoundBacktest(bt)
    BY DEF SessionsSound, SoundPair
  <2>2. EndedReplayIsReported
    BY <2>1 DEF EndedReplayIsReported, SoundReplay, Replayed
  <2>3. bt.results \in Seq(BacktestSessionResult)
    BY <2>1 DEF SoundBacktest, BacktestStates
  <2>4. DOMAIN bt.results = 1 .. Len(bt.results) /\ Len(bt.results) \in Nat
    BY <2>3
  <2>5. ReportedAsPlayed
    <3>1. ASSUME NEW i \in DOMAIN bt.results, i > 1
          PROVE  bt.results[i - 1].index < bt.results[i].index
      BY <2>1, <2>4, <3>1 DEF SoundBacktest, ResultsSound
    <3>2. \A i \in DOMAIN bt.results : AsPlayed(bt.results[i])
      BY <2>1, <2>4 DEF SoundBacktest, ResultsSound
    <3>3. bt.state \in BacktestTerminal =>
            /\ bt.latest # None
            /\ bt.latest.state = bt.state /\ bt.latest.results = bt.results
            /\ bt.latest.outcome = "PASSED" =>
                 \A i \in DOMAIN bt.results : bt.results[i].outcome # "FAILED"
      BY <2>1, <2>4 DEF SoundBacktest, NoneFailed
    <3> QED BY <3>1, <3>2, <3>3 DEF ReportedAsPlayed, AsPlayed
  <2> QED BY <2>2, <2>5 DEF EndingsAreReported
<1> QED BY <1>1, <1>2, <1>3, PTL DEF SessionsSpec

-------------------------------------------------------------------------------
(* The validation of a live feed. *)

(* The severity of a finding is that of its code, but for the tick gap,     *)
(* which is a warning or an error.                                          *)
WarningCodes ==
  {"STALE_TICK", "OUTSIDE_SESSION_TICK", "DUPLICATE_TICK", "DUPLICATE_CANDLE_CLOSE",
   "UNEXPECTED_CANDLE_DURATION", "MISSING_CANDLE_INTERVAL", "STALE_OPTION_CHAIN",
   "LATENCY_WARNING", "DUPLICATE_EVENT", "FEED_DISCONNECTED"}

SeveritiesFor(code) ==
  IF code = "TICK_GAP" THEN {"WARNING", "ERROR"}
  ELSE IF code \in WarningCodes THEN {"WARNING"}
  ELSE IF code = "SESSION_FAILED" THEN {"CRITICAL"}
  ELSE IF code = "OPTION_EXPIRY_TRANSITION" THEN {"INFO"}
  ELSE {"ERROR"}

Fits(key, severity) == severity \in SeveritiesFor(key.code)

(* A finding as a record, whatever its key. *)
IsFinding(f) ==
  /\ f = [key |-> f.key, severity |-> f.severity, count |-> f.count]
  /\ Fits(f.key, f.severity)

IsFindings(findings) ==
  /\ Len(findings) \in Nat /\ findings = [i \in 1 .. Len(findings) |-> findings[i]]
  /\ \A i \in 1 .. Len(findings) : IsFinding(findings[i])

Troubled(findings) == \E i \in 1 .. Len(findings) : findings[i].severity \in Troubles

KnownTo(findings, key) == \E i \in 1 .. Len(findings) : findings[i].key = key

(* A session and what was raised in it, as the handlers pass them on.       *)
IsWorld(w) == DOMAIN w = {"s", "log"} /\ {"state", "id", "findings"} \subseteq DOMAIN w.s

(* What is raised fits its code and is listed, as long as nothing had to    *)
(* make room; a running session is untroubled and a degraded one is not.    *)
Told(w) ==
  /\ IsWorld(w) /\ IsFindings(w.s.findings) /\ Len(w.s.findings) <= MaxFindings
  /\ \A x \in w.log : Fits(x[1], x[2])
  /\ NothingEvicted(w.s.findings) => \A x \in w.log : KnownTo(w.s.findings, x[1])
  /\ w.s.state = "RUNNING" => ~Troubled(w.s.findings)
  /\ w.s.state = "DEGRADED" /\ NothingEvicted(w.s.findings) => Troubled(w.s.findings)

ToldOn(w, v) == Told(v) /\ v.s.id = w.s.id

(* A change of what says nothing of findings. *)
Elsewhere(w, v) ==
  /\ IsWorld(v) /\ v.log = w.log
  /\ v.s.findings = w.s.findings /\ v.s.state = w.s.state /\ v.s.id = w.s.id

LEMMA ElsewhereTold ==
  ASSUME NEW w, Told(w), NEW v, Elsewhere(w, v)
  PROVE  ToldOn(w, v)
BY DEF Elsewhere, Told, ToldOn

LEMMA LimitIsPositive == MaxFindings \in Nat /\ MaxFindings > 0
BY ThresholdsAreOrdered DEF LiveMarketValidationConfiguration

(* The severities of a code are all troubles or none. *)
LEMMA TroubleIsOfTheCode ==
  ASSUME NEW code, NEW a \in SeveritiesFor(code), NEW b \in SeveritiesFor(code), a \in Troubles
  PROVE  b \in Troubles
BY DEF SeveritiesFor, Troubles

(* The deque: its content after an append is what it had, less the oldest   *)
(* when it was full, and the new.                                           *)
LEMMA AppendedIs ==
  ASSUME NEW q, Len(q) \in Nat, q = [i \in 1 .. Len(q) |-> q[i]], NEW x,
         NEW limit \in Nat, limit > 0, Len(q) <= limit
  PROVE  LET r == Appended(q, x, limit)
         IN  /\ Len(r) \in Nat /\ r = [i \in 1 .. Len(r) |-> r[i]] /\ Len(r) <= limit
             /\ \A i \in 1 .. Len(r) : r[i] = x \/ \E j \in 1 .. Len(q) : r[i] = q[j]
             /\ Len(r) < limit => /\ Len(q) < limit
                                  /\ \A j \in 1 .. Len(q) : \E i \in 1 .. Len(r) : r[i] = q[j]
             /\ \E i \in 1 .. Len(r) : r[i] = x
<1> DEFINE S == {q[i] : i \in 1 .. Len(q)} \cup {x}
<1>1. q \in Seq(S)
  <2>1. \A i \in 1 .. Len(q) : q[i] \in S
    OBVIOUS
  <2>2. [i \in 1 .. Len(q) |-> q[i]] \in [1 .. Len(q) -> S]
    BY <2>1
  <2> HIDE DEF S
  <2>3. q \in [1 .. Len(q) -> S]
    BY <2>2
  <2> QED BY <2>3, IsASeq
<1>2. x \in S
  OBVIOUS
<1> HIDE DEF S
<1>3. CASE Len(q) = limit
  <2> DEFINE t == Tail(q)
             r == Append(t, x)
  <2>1. q # <<>>
    BY <1>1, <1>3
  <2>2. t \in Seq(S)
    BY <1>1, <2>1, HeadTailProperties
  <2>3. Len(t) = Len(q) - 1 /\ \A i \in 1 .. Len(t) : t[i] = q[i + 1]
    BY <1>1, <2>1, HeadTailProperties
  <2> HIDE DEF t
  <2>4. /\ r \in Seq(S) /\ Len(r) = Len(t) + 1 /\ r[Len(t) + 1] = x
        /\ \A i \in 1 .. Len(t) : r[i] = t[i]
    BY <1>2, <2>2, AppendProperties
  <2>5. Appended(q, x, limit) = r
    BY <1>3 DEF Appended, t
  <2> HIDE DEF r
  <2>6. Len(r) = limit /\ r = [i \in 1 .. Len(r) |-> r[i]]
    BY <1>3, <2>3, <2>4
  <2>7. \A i \in 1 .. Len(r) : r[i] = x \/ \E j \in 1 .. Len(q) : r[i] = q[j]
    <3> TAKE i \in 1 .. Len(r)
    <3>1. CASE i = Len(r)
      BY <2>3, <2>4, <3>1
    <3>2. CASE i # Len(r)
      <4>1. i \in 1 .. Len(t) /\ i + 1 \in 1 .. Len(q)
        BY <2>3, <2>4, <3>2
      <4> QED BY <2>3, <2>4, <4>1
    <3> QED BY <3>1, <3>2
  <2> QED BY <2>3, <2>4, <2>5, <2>6, <2>7
<1>4. CASE Len(q) # limit
  <2> DEFINE r == Append(q, x)
  <2>1. /\ r \in Seq(S) /\ Len(r) = Len(q) + 1 /\ r[Len(q) + 1] = x
        /\ \A i \in 1 .. Len(q) : r[i] = q[i]
    BY <1>1, <1>2, AppendProperties
  <2>2. Appended(q, x, limit) = r
    BY <1>4 DEF Appended
  <2> HIDE DEF r
  <2>3. r = [i \in 1 .. Len(r) |-> r[i]]
    BY <2>1
  <2>4. \A i \in 1 .. Len(r) : r[i] = x \/ \E j \in 1 .. Len(q) : r[i] = q[j]
    BY <2>1
  <2>5. \A j \in 1 .. Len(q) : \E i \in 1 .. Len(r) : r[i] = q[j]
    BY <2>1
  <2> QED BY <1>4, <2>1, <2>2, <2>3, <2>4, <2>5
<1> QED BY <1>3, <1>4

(* A finding again: the list as it was, one count higher. *)
LEMMA AggregatedIs ==
  ASSUME NEW q, IsFindings(q), NEW r, DOMAIN r = 1 .. Len(q), r = [i \in DOMAIN r |-> r[i]],
         \A i \in 1 .. Len(q) : r[i] \in {q[i], Aggregated(q[i])}
  PROVE  /\ IsFindings(r) /\ Len(r) = Len(q)
         /\ \A i \in 1 .. Len(q) : r[i].key = q[i].key /\ r[i].severity = q[i].severity
<1>1. Len(q) \in Nat
  BY DEF IsFindings
<1>2. Len(r) = Len(q)
  BY <1>1
<1>3. ASSUME NEW i \in 1 .. Len(q)
      PROVE  IsFinding(r[i]) /\ r[i].key = q[i].key /\ r[i].severity = q[i].severity
  <2> DEFINE f == q[i]
  <2>1. IsFinding(f)
    BY <1>3 DEF IsFindings
  <2>2. r[i] = Aggregated(f) \/ r[i] = f
    BY <1>3
  <2> HIDE DEF f
  <2>3. IsFinding(Aggregated(f)) /\ Aggregated(f).key = f.key /\ Aggregated(f).severity = f.severity
    BY <2>1 DEF IsFinding, Aggregated
  <2> QED BY <2>1, <2>2, <2>3 DEF f
<1>4. r = [i \in 1 .. Len(r) |-> r[i]]
  BY <1>1, <1>2
<1>5. IsFindings(r)
  BY <1>1, <1>2, <1>3, <1>4 DEF IsFindings
<1> QED BY <1>2, <1>3, <1>5

(* _add_finding keeps what is told.                                         *)
LEMMA FoundIs ==
  ASSUME NEW w, Told(w), NEW severity, NEW key, Fits(key, severity)
  PROVE  ToldOn(w, Found(w, severity, key))
<1> DEFINE q == w.s.findings
           x == ValidationFinding(key, severity)
           kept == [i \in DOMAIN q |-> IF q[i].key = key THEN Aggregated(q[i]) ELSE q[i]]
           r == IF Listed(w.s, key) THEN kept ELSE Appended(q, x, MaxFindings)
           st == DegradedBy(w.s, severity)
           v == Found(w, severity, key)
<1>1. /\ IsFindings(q) /\ Len(q) \in Nat /\ q = [i \in 1 .. Len(q) |-> q[i]] /\ DOMAIN q = 1 .. Len(q)
      /\ Len(q) <= MaxFindings
  BY DEF Told, IsFindings
<1>2. /\ v.log = w.log \cup {<<key, severity>>} /\ v.s.findings = r /\ v.s.state = st
      /\ v.s.id = w.s.id /\ IsWorld(v)
  BY DEF Found, Told, IsWorld
<1>3. IsFinding(x) /\ x.key = key /\ x.severity = severity
  BY DEF IsFinding, ValidationFinding
<1>4. Listed(w.s, key) <=> KnownTo(q, key)
  BY <1>1 DEF Listed, KnownTo
<1>5. /\ IsFindings(r) /\ Len(r) <= MaxFindings
      /\ NothingEvicted(r) => /\ NothingEvicted(q)
                              /\ \A j \in 1 .. Len(q) : \E i \in 1 .. Len(r) :
                                   r[i].key = q[j].key /\ r[i].severity = q[j].severity
      /\ \A i \in 1 .. Len(r) : \/ r[i].severity = severity
                                \/ \E j \in 1 .. Len(q) : r[i].severity = q[j].severity
      /\ \E i \in 1 .. Len(r) : r[i].key = key
  <2>1. CASE Listed(w.s, key)
    <3>1. /\ DOMAIN r = 1 .. Len(q) /\ r = [i \in DOMAIN r |-> r[i]]
          /\ \A i \in 1 .. Len(q) : r[i] \in {q[i], Aggregated(q[i])}
      <4>1. r = kept
        BY <2>1
      <4> HIDE DEF r
      <4> QED BY <1>1, <4>1
    <3> HIDE DEF r, q
    <3>2. /\ IsFindings(r) /\ Len(r) = Len(q)
          /\ \A i \in 1 .. Len(q) : r[i].key = q[i].key /\ r[i].severity = q[i].severity
      <4>1. IsFindings(q)
        BY <1>1
      <4> QED BY <3>1, <4>1, AggregatedIs
    <3>3. \E i \in 1 .. Len(q) : q[i].key = key
      BY <1>4, <2>1 DEF KnownTo
    <3> QED BY <1>1, <3>2, <3>3 DEF NothingEvicted
  <2>2. CASE ~Listed(w.s, key)
    <3>1. r = Appended(q, x, MaxFindings)
      BY <2>2
    <3> HIDE DEF r, q, x
    <3>2. /\ Len(r) \in Nat /\ r = [i \in 1 .. Len(r) |-> r[i]] /\ Len(r) <= MaxFindings
          /\ \A i \in 1 .. Len(r) : r[i] = x \/ \E j \in 1 .. Len(q) : r[i] = q[j]
          /\ Len(r) < MaxFindings => /\ Len(q) < MaxFindings
                                     /\ \A j \in 1 .. Len(q) : \E i \in 1 .. Len(r) : r[i] = q[j]
          /\ \E i \in 1 .. Len(r) : r[i] = x
      <4>1. Len(q) \in Nat /\ q = [i \in 1 .. Len(q) |-> q[i]] /\ Len(q) <= MaxFindings
        BY <1>1
      <4> QED BY <3>1, <4>1, AppendedIs, LimitIsPositive
    <3>3. IsFindings(r)
      BY <1>1, <1>3, <3>2 DEF IsFindings
    <3>4. NothingEvicted(r) => /\ NothingEvicted(q)
                               /\ \A j \in 1 .. Len(q) : \E i \in 1 .. Len(r) :
                                    r[i].key = q[j].key /\ r[i].severity = q[j].severity
      BY <3>2 DEF NothingEvicted
    <3>5. \A i \in 1 .. Len(r) : \/ r[i].severity = severity
                                 \/ \E j \in 1 .. Len(q) : r[i].severity = q[j].severity
      BY <1>3, <3>2
    <3> QED BY <1>3, <3>2, <3>3, <3>4, <3>5
  <2> QED BY <2>1, <2>2
<1> HIDE DEF v, r, x, kept
<1>6. \A y \in v.log : Fits(y[1], y[2])
  BY <1>2 DEF Told
<1>7. NothingEvicted(r) => \A y \in v.log : KnownTo(r, y[1])
  <2> SUFFICES ASSUME NothingEvicted(r), NEW y \in v.log PROVE KnownTo(r, y[1])
    OBVIOUS
  <2>1. CASE y = <<key, severity>>
    BY <1>5, <2>1 DEF KnownTo
  <2>2. CASE y \in w.log
    <3>1. KnownTo(q, y[1])
      BY <1>5, <2>2 DEF Told
    <3> QED BY <1>5, <3>1 DEF KnownTo
  <2> QED BY <1>2, <2>1, <2>2
<1>8. st = "RUNNING" => ~Troubled(r)
  <2> SUFFICES ASSUME st = "RUNNING" PROVE ~Troubled(r)
    OBVIOUS
  <2>1. severity \notin Troubles /\ w.s.state = "RUNNING"
    BY DEF DegradedBy
  <2>2. ~Troubled(q)
    BY <2>1 DEF Told
  <2> QED BY <1>5, <2>1, <2>2 DEF Troubled
<1>9. st = "DEGRADED" /\ NothingEvicted(r) => Troubled(r)
  <2> SUFFICES ASSUME st = "DEGRADED", NothingEvicted(r) PROVE Troubled(r)
    OBVIOUS
  <2>1. CASE severity \in Troubles
    <3>1. PICK i \in 1 .. Len(r) : r[i].key = key
      BY <1>5
    <3>2. r[i].severity \in SeveritiesFor(key.code) /\ severity \in SeveritiesFor(key.code)
      BY <1>5, <3>1 DEF IsFindings, IsFinding, Fits
    <3> QED BY <2>1, <3>2, TroubleIsOfTheCode DEF Troubled
  <2>2. CASE severity \notin Troubles
    <3>1. w.s.state = "DEGRADED"
      BY <2>2 DEF DegradedBy
    <3>2. Troubled(q)
      BY <1>5, <3>1 DEF Told
    <3> QED BY <1>5, <3>2 DEF Troubled
  <2> QED BY <2>1, <2>2
<1> QED BY <1>2, <1>5, <1>6, <1>7, <1>8, <1>9 DEF Told, ToldOn, v

(* The findings of the handlers, each with the severity of its code.        *)
LEMMA CodesFit ==
  ASSUME NEW c, NEW i
  PROVE  /\ Fits(Key(c, i, "UNSUPPORTED_INSTRUMENT"), "ERROR")
         /\ Fits(Key(c, i, "UNSUPPORTED_SESSION_INSTRUMENT"), "ERROR")
         /\ Fits(Key(c, i, "OUT_OF_ORDER_TICK"), "ERROR")
         /\ Fits(Key(c, i, "TICK_GAP"), "ERROR") /\ Fits(Key(c, i, "TICK_GAP"), "WARNING")
         /\ Fits(Key(c, i, "STALE_TICK"), "WARNING")
         /\ Fits(Key(c, i, "OUTSIDE_SESSION_TICK"), "WARNING")
         /\ Fits(Key(c, i, "WRONG_TRADING_DATE"), "ERROR")
         /\ Fits(Key(c, i, "DUPLICATE_TICK"), "WARNING")
         /\ Fits(Key(c, i, "INVALID_TICK"), "ERROR")
         /\ Fits(Key(c, i, "DUPLICATE_CANDLE_CLOSE"), "WARNING")
         /\ Fits(Key(c, i, "INVALID_CANDLE"), "ERROR")
         /\ Fits(Key(c, i, "UNEXPECTED_CANDLE_DURATION"), "WARNING")
         /\ Fits(Key(c, i, "OUT_OF_ORDER_CANDLE"), "ERROR")
         /\ Fits(Key(c, i, "MISSING_CANDLE_INTERVAL"), "WARNING")
         /\ Fits(Key(c, i, "CANDLE_TRADING_DATE_MISMATCH"), "ERROR")
         /\ Fits(Key(c, i, "INVALID_OPTION_CHAIN"), "ERROR")
         /\ Fits(Key(c, i, "STALE_OPTION_CHAIN"), "WARNING")
         /\ Fits(Key(c, i, "OPTION_EXPIRY_TRANSITION"), "INFO")
         /\ Fits(Key(c, i, "INVALID_LEVELS"), "ERROR")
         /\ Fits(Key(c, i, "LATENCY_CRITICAL"), "ERROR")
         /\ Fits(Key(c, i, "LATENCY_WARNING"), "WARNING")
         /\ Fits(Key(c, i, "DUPLICATE_EVENT"), "WARNING")
         /\ Fits(Key(c, i, "FINDINGS_WRITE_FAILED"), "ERROR")
         /\ Fits(Key(c, i, "REPORT_WRITE_FAILED"), "ERROR")
         /\ Fits(Key(c, i, "SESSION_FAILED"), "CRITICAL")
         /\ Fits(Key(c, i, "FEED_DISCONNECTED"), "WARNING")
BY DEF Fits, Key, SeveritiesFor, WarningCodes

LEMMA ToldTransitive ==
  ASSUME NEW w, NEW v, ToldOn(w, v), NEW u, ToldOn(v, u)
  PROVE  ToldOn(w, u)
BY DEF ToldOn

LEMMA ToldOnIsTold ==
  ASSUME NEW w, NEW v, ToldOn(w, v)
  PROVE  Told(v)
BY DEF ToldOn

LEMMA ToldReflexive ==
  ASSUME NEW w, Told(w)
  PROVE  ToldOn(w, w)
BY DEF ToldOn

LEMMA FoundIfIs ==
  ASSUME NEW w, Told(w), NEW condition, NEW severity, NEW key, Fits(key, severity)
  PROVE  ToldOn(w, FoundIf(w, condition, severity, key))
BY FoundIs, ToldReflexive DEF FoundIf

LEMMA HealthObservedIs ==
  ASSUME NEW w, Told(w), NEW component, NEW i
  PROVE  ToldOn(w, HealthObserved(w, component, i))
<1> DEFINE v == [w EXCEPT !.s.fresh = @ \cup {<<component, i>>}]
<1>1. Elsewhere(w, v)
  BY DEF Elsewhere, Told, IsWorld
<1> HIDE DEF v
<1>2. HealthObserved(w, component, i) \in {w, v}
  BY DEF HealthObserved, v
<1> QED BY <1>1, <1>2, ElsewhereTold, ToldReflexive

LEMMA DisallowedIs ==
  ASSUME NEW w, Told(w), NEW component, NEW i
  PROVE  ToldOn(w, Disallowed(w, component, i))
BY FoundIs, CodesFit DEF Disallowed

LEMMA TickGapIs ==
  ASSUME NEW w, Told(w), NEW t
  PROVE  ToldOn(w, TickGap(w, t))
<1> DEFINE key == Key("market_data", t.symbol, "TICK_GAP")
           f == Found(w, "ERROR", Key("market_data", t.symbol, "OUT_OF_ORDER_TICK"))
           d == [f EXCEPT !.s.ticks[t.symbol].disordered = @ + 1]
           e == Found(w, "ERROR", key)
           g == Found(w, "WARNING", key)
<1>1. ToldOn(w, f) /\ ToldOn(w, e) /\ ToldOn(w, g)
  BY FoundIs, CodesFit
<1>2. TickGap(w, t) \in {w, d, e, g}
  BY DEF TickGap
<1> HIDE DEF f, e, g
<1>3. Elsewhere(f, d)
  BY <1>1 DEF Elsewhere, ToldOn, Told, IsWorld
<1> HIDE DEF d
<1>4. ToldOn(w, d)
  BY <1>1, <1>3, ElsewhereTold, ToldTransitive, ToldOnIsTold
<1> QED BY <1>1, <1>2, <1>4, ToldReflexive

LEMMA ValidTickIs ==
  ASSUME NEW w, Told(w), NEW t, NEW now
  PROVE  ToldOn(w, ValidTick(w, t, now))
<1> DEFINE i == t.symbol
           stale == now >= t.time + StaleAfter
           a == FoundIf(w, stale, "WARNING", Key("market_data", i, "STALE_TICK"))
           b == FoundIf(a, ~InSession(t.time), "WARNING", Key("market_data", i, "OUTSIDE_SESSION_TICK"))
           c == FoundIf(b, Date(t.time) # Date(now), "ERROR", Key("market_data", i, "WRONG_TRADING_DATE"))
           m == c.s.ticks[i]
           counted == [m EXCEPT !.received = @ + 1, !.valid = @ + 1,
                                !.stale = IF stale THEN @ + 1 ELSE @,
                                !.latest = IF @ = None THEN t.time
                                           ELSE IF t.time >= @ THEN t.time ELSE @]
           n == [c EXCEPT !.s.ticks[i] = counted]
           o == HealthObserved(n, "market_data", i)
           r == [o EXCEPT !.s.recovery = IF @ = "RECOVERING" THEN "RECOVERED" ELSE @]
<1>1. ToldOn(w, a)
  BY FoundIfIs, CodesFit
<1>2. ToldOn(a, b)
  <2> HIDE DEF a
  <2> QED BY <1>1, FoundIfIs, CodesFit, ToldOnIsTold
<1>3. ToldOn(b, c)
  <2> HIDE DEF b
  <2> QED BY <1>2, FoundIfIs, CodesFit, ToldOnIsTold
<1>4. ValidTick(w, t, now) = r
  BY DEF ValidTick
<1> HIDE DEF c, counted
<1>5. Elsewhere(c, n)
  BY <1>3 DEF Elsewhere, ToldOn, Told, IsWorld
<1> HIDE DEF n
<1>6. ToldOn(c, n)
  BY <1>3, <1>5, ElsewhereTold, ToldOnIsTold
<1>7. ToldOn(n, o)
  BY <1>6, HealthObservedIs, ToldOnIsTold
<1> HIDE DEF o
<1>8. Elsewhere(o, r)
  BY <1>7 DEF Elsewhere, ToldOn, Told, IsWorld
<1> HIDE DEF r, a, b
<1>9. ToldOn(o, r)
  BY <1>7, <1>8, ElsewhereTold, ToldOnIsTold
<1> QED BY <1>1, <1>2, <1>3, <1>4, <1>6, <1>7, <1>9, ToldTransitive

LEMMA TickSeenIs ==
  ASSUME NEW w, Told(w), NEW t, NEW now
  PROVE  ToldOn(w, TickSeen(w, t, now))
<1> DEFINE i == t.symbol
           again == t \in ToSet(w.s.recent[i])
           f == Found(w, "WARNING", Key("market_data", i, "DUPLICATE_TICK"))
           df == [f EXCEPT !.s.ticks[i].duplicate = @ + 1]
           dn == [w EXCEPT !.s.recent[i] = Appended(@, t, MaxRecent)]
           d == IF again THEN df ELSE dn
           g == TickGap(d, t)
           e == Found(d, "ERROR", Key("market_data", i, "INVALID_TICK"))
           x == [e EXCEPT !.s.ticks[i].received = @ + 1]
<1>1. TickSeen(w, t, now) \in {w, Disallowed(w, "market_data", i), x, ValidTick(g, t, now)}
  BY DEF TickSeen
<1>2. ToldOn(w, f)
  BY FoundIs, CodesFit
<1> HIDE DEF f, again
<1>3. Elsewhere(f, df)
  BY <1>2 DEF Elsewhere, ToldOn, Told, IsWorld
<1>4. Elsewhere(w, dn)
  BY DEF Elsewhere, Told, IsWorld
<1> HIDE DEF df, dn
<1>5. ToldOn(w, d)
  BY <1>2, <1>3, <1>4, ElsewhereTold, ToldTransitive, ToldOnIsTold
<1> HIDE DEF d
<1>6. ToldOn(d, g) /\ ToldOn(d, e)
  BY <1>5, TickGapIs, FoundIs, CodesFit, ToldOnIsTold
<1> HIDE DEF g, e
<1>7. Elsewhere(e, x)
  BY <1>6 DEF Elsewhere, ToldOn, Told, IsWorld
<1> HIDE DEF x
<1>8. ToldOn(e, x)
  BY <1>6, <1>7, ElsewhereTold, ToldOnIsTold
<1>9. ToldOn(g, ValidTick(g, t, now))
  BY <1>6, ValidTickIs, ToldOnIsTold
<1>10. ToldOn(w, Disallowed(w, "market_data", i)) /\ ToldOn(w, w)
  BY DisallowedIs, ToldReflexive
<1>11. ToldOn(w, x)
  BY <1>5, <1>6, <1>8, ToldTransitive
<1>12. ToldOn(w, ValidTick(g, t, now))
  BY <1>5, <1>6, <1>9, ToldTransitive
<1> QED BY <1>1, <1>10, <1>11, <1>12

LEMMA CandleSeenIs ==
  ASSUME NEW w, Told(w), NEW x, NEW now
  PROVE  ToldOn(w, CandleSeen(w, x, now))
<1> DEFINE i == x.symbol
           again == x.closed /\ x \in ToSet(w.s.candles[i])
           a == FoundIf(w, again, "WARNING", Key("candle", i, "DUPLICATE_CANDLE_CLOSE"))
           b == [a EXCEPT !.s.candles[i] = Appended(@, x, MaxRecent)]
           e == FoundIf(b, ~x.fits, "ERROR", Key("candle", i, "INVALID_CANDLE"))
           f == FoundIf(e, x.end # x.start + 1, "WARNING", Key("candle", i, "UNEXPECTED_CANDLE_DURATION"))
           last == w.s.lastEnd[i]
           late == Found(f, "ERROR", Key("candle", i, "OUT_OF_ORDER_CANDLE"))
           missing == FoundIf(f, x.start - last > 1, "WARNING", Key("candle", i, "MISSING_CANDLE_INTERVAL"))
           g == IF last = None THEN f ELSE IF x.start < last THEN late ELSE missing
           h == [g EXCEPT !.s.lastEnd[i] = x.end]
           k == FoundIf(h, Date(x.start) # Date(now), "ERROR", Key("candle", i, "CANDLE_TRADING_DATE_MISMATCH"))
           z == HealthObserved(k, "candle", i)
<1>1. CandleSeen(w, x, now) \in {w, Disallowed(w, "candle", i), z}
  BY DEF CandleSeen
<1>2. ToldOn(w, a)
  BY FoundIfIs, CodesFit
<1> HIDE DEF a
<1>3. Elsewhere(a, b)
  BY <1>2 DEF Elsewhere, ToldOn, Told, IsWorld
<1> HIDE DEF b
<1>4. ToldOn(a, b)
  BY <1>2, <1>3, ElsewhereTold, ToldOnIsTold
<1>5. ToldOn(b, e)
  BY <1>4, FoundIfIs, CodesFit, ToldOnIsTold
<1> HIDE DEF e
<1>6. ToldOn(e, f)
  BY <1>5, FoundIfIs, CodesFit, ToldOnIsTold
<1> HIDE DEF f
<1>7. ToldOn(f, late) /\ ToldOn(f, missing) /\ ToldOn(f, f)
  BY <1>6, FoundIs, FoundIfIs, CodesFit, ToldReflexive, ToldOnIsTold
<1>8. g \in {f, late, missing}
  OBVIOUS
<1> HIDE DEF late, missing, g
<1>9. ToldOn(f, g)
  BY <1>7, <1>8
<1>10. Elsewhere(g, h)
  BY <1>9 DEF Elsewhere, ToldOn, Told, IsWorld
<1> HIDE DEF h
<1>11. ToldOn(g, h)
  BY <1>9, <1>10, ElsewhereTold, ToldOnIsTold
<1>12. ToldOn(h, k)
  BY <1>11, FoundIfIs, CodesFit, ToldOnIsTold
<1> HIDE DEF k
<1>13. ToldOn(k, z)
  BY <1>12, HealthObservedIs, ToldOnIsTold
<1> HIDE DEF z
<1>14. ToldOn(w, f)
  BY <1>2, <1>4, <1>5, <1>6, ToldTransitive
<1>15. ToldOn(w, z)
  BY <1>9, <1>11, <1>12, <1>13, <1>14, ToldTransitive
<1> QED BY <1>1, <1>15, DisallowedIs, ToldReflexive

LEMMA ChainSeenIs ==
  ASSUME NEW w, Told(w), NEW x, NEW now
  PROVE  ToldOn(w, ChainSeen(w, x, now))
<1> DEFINE i == x.symbol
           quality == ChainQuality(x, now)
           a == FoundIf(w, quality = "INVALID", "ERROR", Key("option_chain", i, "INVALID_OPTION_CHAIN"))
           b == FoundIf(a, quality = "STALE", "WARNING", Key("option_chain", i, "STALE_OPTION_CHAIN"))
           last == w.s.expiry[i]
           c == FoundIf(b, last # None /\ last # x.expiry, "INFO", Key("option_chain", i, "OPTION_EXPIRY_TRANSITION"))
           d == [c EXCEPT !.s.expiry[i] = x.expiry]
           z == HealthObserved(d, "option_chain", i)
<1>1. ChainSeen(w, x, now) \in {w, Disallowed(w, "option_chain", i), z}
  BY DEF ChainSeen
<1>2. ToldOn(w, a)
  BY FoundIfIs, CodesFit
<1> HIDE DEF a
<1>3. ToldOn(a, b)
  BY <1>2, FoundIfIs, CodesFit, ToldOnIsTold
<1> HIDE DEF b
<1>4. ToldOn(b, c)
  BY <1>3, FoundIfIs, CodesFit, ToldOnIsTold
<1> HIDE DEF c
<1>5. Elsewhere(c, d)
  BY <1>4 DEF Elsewhere, ToldOn, Told, IsWorld
<1> HIDE DEF d
<1>6. ToldOn(c, d)
  BY <1>4, <1>5, ElsewhereTold, ToldOnIsTold
<1>7. ToldOn(d, z)
  BY <1>6, HealthObservedIs, ToldOnIsTold
<1> HIDE DEF z
<1>8. ToldOn(w, z)
  BY <1>2, <1>3, <1>4, <1>6, <1>7, ToldTransitive
<1> QED BY <1>1, <1>8, DisallowedIs, ToldReflexive

LEMMA LevelsSeenIs ==
  ASSUME NEW w, Told(w), NEW x
  PROVE  ToldOn(w, LevelsSeen(w, x))
<1> DEFINE a == FoundIf(w, ~x.fits, "ERROR", Key(x.component, x.symbol, "INVALID_LEVELS"))
           z == HealthObserved(a, x.component, x.symbol)
<1>1. LevelsSeen(w, x) \in {w, Disallowed(w, x.component, x.symbol), z}
  BY DEF LevelsSeen
<1>2. ToldOn(w, a)
  BY FoundIfIs, CodesFit
<1> HIDE DEF a
<1>3. ToldOn(a, z)
  BY <1>2, HealthObservedIs, ToldOnIsTold
<1> HIDE DEF z
<1> QED BY <1>1, <1>2, <1>3, DisallowedIs, ToldReflexive, ToldTransitive

LEMMA LatencySeenIs ==
  ASSUME NEW w, Told(w), NEW x, NEW now
  PROVE  ToldOn(w, LatencySeen(w, x, now))
<1> DEFINE popped == [w EXCEPT !.s.paper = None]
           begun == [w EXCEPT !.s.paper = now]
           a == Found(popped, "ERROR", Key("event_flow", None, "LATENCY_CRITICAL"))
           b == Found(popped, "WARNING", Key("event_flow", None, "LATENCY_WARNING"))
<1>1. LatencySeen(w, x, now) \in {begun, w, a, b, popped}
  BY DEF LatencySeen
<1>2. Elsewhere(w, popped) /\ Elsewhere(w, begun)
  BY DEF Elsewhere, Told, IsWorld
<1> HIDE DEF popped, begun
<1>3. ToldOn(w, popped) /\ ToldOn(w, begun)
  BY <1>2, ElsewhereTold
<1>4. ToldOn(popped, a) /\ ToldOn(popped, b)
  BY <1>3, FoundIs, CodesFit, ToldOnIsTold
<1> HIDE DEF a, b
<1> QED BY <1>1, <1>3, <1>4, ToldReflexive, ToldTransitive

LEMMA PayloadInstrumentIs ==
  ASSUME NEW w, Told(w), NEW x
  PROVE  ToldOn(w, PayloadInstrument(w, x))
BY HealthObservedIs, DisallowedIs DEF PayloadInstrument

(* An event, whatever it carries, keeps what is told.                       *)
LEMMA EventSeenIs ==
  ASSUME NEW w, Told(w), NEW x, NEW now
  PROVE  ToldOn(w, EventSeen(w, x, now))
<1> DEFINE again == x.at # None /\ Identity(x) \in ToSet(w.s.events)
           a == [w EXCEPT !.s.events = Appended(@, Identity(x), MaxRecent),
                          !.s.observed = @ + 1,
                          !.s.repeated = IF again THEN @ + 1 ELSE @]
           b == FoundIf(a, again, "WARNING", Key("event_flow", None, "DUPLICATE_EVENT"))
           c == PayloadInstrument(b, x)
           levels == [component |-> x.component, symbol |-> x.symbol, fits |-> x.body]
           z == EventSeen(w, x, now)
<1>1. z \in {w, TickSeen(c, x.body, now), CandleSeen(c, x.body, now), ChainSeen(c, x.body, now),
             LevelsSeen(c, levels), LatencySeen(c, x, now)}
  BY DEF EventSeen
<1>2. Elsewhere(w, a)
  BY DEF Elsewhere, Told, IsWorld
<1> HIDE DEF a
<1>3. ToldOn(w, a)
  BY <1>2, ElsewhereTold
<1>4. ToldOn(a, b)
  BY <1>3, FoundIfIs, CodesFit, ToldOnIsTold
<1> HIDE DEF b, levels
<1>5. ToldOn(b, c)
  BY <1>4, PayloadInstrumentIs, ToldOnIsTold
<1> HIDE DEF c, z
<1>6. Told(c) /\ ToldOn(w, c)
  BY <1>3, <1>4, <1>5, ToldTransitive, ToldOnIsTold
<1>7. z \in {w} \/ ToldOn(c, z)
  BY <1>1, <1>6, TickSeenIs, CandleSeenIs, ChainSeenIs, LevelsSeenIs, LatencySeenIs
<1>8. ToldOn(w, z)
  BY <1>6, <1>7, ToldTransitive, ToldReflexive
<1> QED BY <1>8 DEF z

(* A report as it is made of a session.                                     *)
ReportFor(r, s) ==
  /\ r.findings = s.findings /\ r.result = s.state /\ r.id = s.id /\ r.path = None
  /\ r.outcome = ResultOutcome(s.state, s.findings)

(* What the outcome says of all that was raised.                            *)
OutcomeTells(outcome, log) ==
  /\ {x \in log : x[2] = "ERROR" /\ ~Masked(x[1])} # {} => outcome = "FAIL"
  /\ outcome = "PASS" => \A x \in log : x[2] \notin Troubles

LEMMA OutcomeIs ==
  ASSUME NEW w, Told(w), w.s.state = "COMPLETED", NothingEvicted(w.s.findings)
  PROVE  OutcomeTells(ResultOutcome(w.s.state, w.s.findings), w.log)
<1> DEFINE q == w.s.findings
           found == SeveritiesOf(q)
           outcome == ResultOutcome(w.s.state, q)
<1>1. IsFindings(q) /\ \A i \in 1 .. Len(q) : q[i].severity \in found
  BY DEF Told, IsFindings, SeveritiesOf
<1>2. /\ found \cap {"ERROR", "CRITICAL"} # {} => outcome = "FAIL"
      /\ outcome = "PASS" => found \cap Troubles = {}
  BY DEF ResultOutcome, Troubles
<1> HIDE DEF found, outcome
<1>3. ASSUME NEW x \in w.log
      PROVE  \E i \in 1 .. Len(q) : /\ q[i].severity \in SeveritiesFor(x[1].code)
                                    /\ x[2] \in SeveritiesFor(x[1].code)
  <2>1. PICK i \in 1 .. Len(q) : q[i].key = x[1]
    BY <1>3 DEF Told, KnownTo
  <2> QED BY <1>1, <1>3, <2>1 DEF Told, IsFindings, IsFinding, Fits
<1>4. ASSUME NEW x \in w.log, x[2] = "ERROR", ~Masked(x[1]) PROVE outcome = "FAIL"
  <2>1. PICK i \in 1 .. Len(q) : /\ q[i].severity \in SeveritiesFor(x[1].code)
                                 /\ x[2] \in SeveritiesFor(x[1].code)
    BY <1>3, <1>4
  <2>2. q[i].severity = "ERROR"
    BY <1>4, <2>1 DEF SeveritiesFor, Masked
  <2>3. q[i].severity \in found
    BY <1>1
  <2> QED BY <1>2, <2>2, <2>3
<1>5. ASSUME outcome = "PASS", NEW x \in w.log PROVE x[2] \notin Troubles
  <2>1. PICK i \in 1 .. Len(q) : /\ q[i].severity \in SeveritiesFor(x[1].code)
                                 /\ x[2] \in SeveritiesFor(x[1].code)
    BY <1>3, <1>5
  <2>2. q[i].severity \notin Troubles
    BY <1>1, <1>2, <1>5
  <2> QED BY <2>1, <2>2, TroubleIsOfTheCode
<1> QED BY <1>4, <1>5 DEF OutcomeTells, outcome

LEMMA ReportOfIs ==
  ASSUME NEW s
  PROVE  ReportFor(ReportOf(s), s)
BY DEF ReportFor, ReportOf

Ended == {"COMPLETED", "FAILED"}

(* A finding of an ended session leaves it as it ended.                     *)
LEMMA FoundAtTheEnd ==
  ASSUME NEW w, Told(w), w.s.state \in Ended, NEW severity, NEW key, Fits(key, severity)
  PROVE  /\ ToldOn(w, Found(w, severity, key)) /\ Found(w, severity, key).s.state = w.s.state
         /\ w.log \subseteq Found(w, severity, key).log
<1>1. ToldOn(w, Found(w, severity, key))
  BY FoundIs
<1>2. Found(w, severity, key).s.state = w.s.state
  BY DEF Found, DegradedBy, Told, IsWorld, Ended
<1>3. w.log \subseteq Found(w, severity, key).log
  BY DEF Found
<1> QED BY <1>1, <1>2, <1>3

LEMMA WrittenIs ==
  ASSUME NEW w, Told(w), w.s.state \in Ended, NEW fails
  PROVE  /\ ToldOn(w, FindingsWritten(w, fails)) /\ FindingsWritten(w, fails).s.state = w.s.state
         /\ ToldOn(w, ReportWritten(w, fails)) /\ ReportWritten(w, fails).s.state = w.s.state
         /\ ~fails => /\ ReportWritten(w, fails).s.findings = w.s.findings
                      /\ ReportWritten(w, fails).log = w.log
<1> DEFINE e == Found(w, "ERROR", Key("persistence", None, "FINDINGS_WRITE_FAILED"))
           f == Found(w, "ERROR", Key("persistence", None, "REPORT_WRITE_FAILED"))
           ef == [e EXCEPT !.s.writeFailures = @ + 1]
           ff == [f EXCEPT !.s.writeFailures = @ + 1]
           wr == [w EXCEPT !.s.writes = @ + 1]
           a == FindingsWritten(w, fails)
           b == ReportWritten(w, fails)
<1>1. ToldOn(w, e) /\ e.s.state = w.s.state /\ ToldOn(w, f) /\ f.s.state = w.s.state
  BY FoundAtTheEnd, CodesFit
<1>2. a \in {w, ef, wr} /\ b = IF fails THEN ff ELSE wr
  BY DEF FindingsWritten, ReportWritten
<1> HIDE DEF e, f, a, b
<1>3. Elsewhere(e, ef) /\ Elsewhere(f, ff) /\ Elsewhere(w, wr)
  BY <1>1 DEF Elsewhere, ToldOn, Told, IsWorld
<1> HIDE DEF ef, ff, wr
<1>4. ToldOn(e, ef) /\ ToldOn(f, ff) /\ ToldOn(w, wr)
  BY <1>1, <1>3, ElsewhereTold, ToldOnIsTold
<1>5. ToldOn(w, ef) /\ ToldOn(w, ff) /\ ToldOn(w, w)
  BY <1>1, <1>4, ToldTransitive, ToldReflexive
<1>6. ef.s.state = w.s.state /\ ff.s.state = w.s.state /\ wr.s.state = w.s.state
  BY <1>1, <1>3 DEF Elsewhere
<1>7. wr.s.findings = w.s.findings /\ wr.log = w.log
  BY <1>3 DEF Elsewhere
<1>8. ToldOn(w, a) /\ a.s.state = w.s.state
  BY <1>2, <1>4, <1>5, <1>6
<1>9. /\ ToldOn(w, b) /\ b.s.state = w.s.state
      /\ ~fails => b.s.findings = w.s.findings /\ b.log = w.log
  BY <1>2, <1>4, <1>5, <1>6, <1>7
<1> QED BY <1>8, <1>9 DEF a, b

(* What the last report says of a session: it is of this one or an earlier, *)
(* and a session it completed is over.                                      *)
ReportSound ==
  report # None =>
    /\ report.id \in Nat /\ report.id <= watch.id
    /\ report.id = watch.id /\ report.result = "COMPLETED" => watch.state = "COMPLETED"

ValSound ==
  /\ Told([s |-> watch, log |-> raised]) /\ watch.id \in Nat
  /\ ReportSound /\ ReportTellsSession

LEMMA PersistIs ==
  ASSUME NEW w, Told(w), w.s.state \in Ended, w.s.id \in Nat, NEW a, NEW b, Persist(w, a, b)
  PROVE  ValSound'
<1> DEFINE first == FindingsWritten(w, a)
           made == Rebuilt(w, first)
           second == ReportWritten(first, b)
<1>1. /\ watch' = second.s /\ raised' = second.log
      /\ report' = IF b THEN ReportOf(second.s) ELSE [made EXCEPT !.path = w.s.id]
      /\ ~b => made \in disk'.reports
  BY DEF Persist
<1>2. ToldOn(w, first) /\ first.s.state = w.s.state
  BY WrittenIs
<1>3. ReportFor(made, first.s)
  <2>1. first.s.id = w.s.id
    BY <1>2 DEF ToldOn
  <2>2. ReportFor(ReportOf(first.s), first.s) /\ ReportFor(ReportOf(w.s), w.s)
    BY ReportOfIs
  <2> HIDE DEF first
  <2>3. CASE first.s.findings # w.s.findings
    BY <2>2, <2>3 DEF Rebuilt
  <2>4. CASE first.s.findings = w.s.findings
    BY <1>2, <2>1, <2>2, <2>4 DEF Rebuilt, ReportFor
  <2> QED BY <2>3, <2>4
<1>4. made = [id |-> made.id, result |-> made.result, outcome |-> made.outcome,
              findings |-> made.findings, health |-> made.health, path |-> made.path]
  BY DEF Rebuilt, ReportOf
<1> HIDE DEF first, made
<1>5. /\ ToldOn(first, second) /\ second.s.state = first.s.state
      /\ ~b => second.s.findings = first.s.findings /\ second.log = first.log
  BY <1>2, WrittenIs, ToldOnIsTold
<1>6. ReportFor(ReportOf(second.s), second.s)
  BY ReportOfIs
<1> HIDE DEF second
<1>7. Told(second) /\ second.s.id = w.s.id /\ second.s.state = w.s.state
  BY <1>2, <1>5 DEF ToldOn
<1> DEFINE r == report'
<1>8. /\ r.findings = second.s.findings /\ r.result = second.s.state /\ r.id = second.s.id
      /\ r.outcome = ResultOutcome(second.s.state, second.s.findings)
      /\ r.path # None => [r EXCEPT !.path = None] \in disk'.reports
  <2> HIDE DEF r
  <2>1. CASE b
    <3>1. r = ReportOf(second.s)
      BY <1>1, <2>1 DEF r
    <3> QED BY <1>6, <3>1 DEF ReportFor
  <2>2. CASE ~b
    <3>1. r = [made EXCEPT !.path = w.s.id]
      BY <1>1, <2>2 DEF r
    <3>2. /\ r.findings = made.findings /\ r.result = made.result /\ r.id = made.id
          /\ r.outcome = made.outcome
      BY <1>4, <3>1
    <3>3. made.path = None
      BY <1>3 DEF ReportFor
    <3>4. [r EXCEPT !.path = None] = made
      BY <1>4, <3>1, <3>3
    <3>5. made \in disk'.reports
      BY <1>1, <2>2
    <3>6. /\ made.findings = second.s.findings /\ made.result = second.s.state
          /\ made.id = second.s.id /\ made.outcome = ResultOutcome(second.s.state, second.s.findings)
      BY <1>2, <1>3, <1>5, <1>7, <2>2 DEF ReportFor, ToldOn
    <3> QED BY <3>2, <3>4, <3>5, <3>6
  <2> QED BY <2>1, <2>2
<1>9. Told([s |-> second.s, log |-> second.log])
  BY <1>7 DEF Told, IsWorld
<1>10. Told([s |-> watch', log |-> raised']) /\ watch'.id = w.s.id /\ watch'.state = w.s.state
  BY <1>1, <1>7, <1>9
<1>11. ReportSound'
  <2> HIDE DEF r
  <2>1. r.id = watch'.id /\ r.result = watch'.state /\ watch'.id \in Nat
    BY <1>1, <1>8, <1>10
  <2> QED BY <2>1 DEF ReportSound, r
<1>12. ReportTellsSession'
  <2>1. r.result = "COMPLETED" /\ NothingEvicted(r.findings) => OutcomeTells(r.outcome, raised')
    BY <1>1, <1>7, <1>8, OutcomeIs
  <2> HIDE DEF r
  <2>2. report' # None =>
          /\ (r.id = watch'.id /\ r.result = "COMPLETED" /\ NothingEvicted(r.findings)) =>
               OutcomeTells(r.outcome, raised')
          /\ r.path # None => [r EXCEPT !.path = None] \in disk'.reports
    BY <1>8, <2>1
  <2> QED BY <2>2 DEF ReportTellsSession, OutcomeTells, r
<1>13. Told([s |-> watch, log |-> raised])'
  BY <1>10
<1> QED BY <1>10, <1>11, <1>12, <1>13 DEF ValSound

LEMMA CleanIsTold ==
  ASSUME NEW session, NEW instruments, session.state # "DEGRADED"
  PROVE  Told([s |-> Clean(session, instruments), log |-> {}])
<1> DEFINE c == Clean(session, instruments)
           w == [s |-> c, log |-> {}]
           none == <<>>
<1>1. /\ c.findings = none /\ c.state = session.state
      /\ {"state", "id", "findings"} \subseteq DOMAIN c
  BY DEF Clean
<1>2. /\ Len(none) = 0 /\ none = [i \in 1 .. Len(none) |-> none[i]] /\ 1 .. Len(none) = {}
  OBVIOUS
<1> HIDE DEF c, none
<1>3. w.s = c /\ w.log = {} /\ IsWorld(w)
  BY <1>1 DEF IsWorld
<1>4. IsFindings(none) /\ ~Troubled(none)
  BY <1>2 DEF IsFindings, Troubled
<1> HIDE DEF w
<1>5. Told(w)
  BY <1>1, <1>2, <1>3, <1>4, LimitIsPositive DEF Told
<1> QED BY <1>5 DEF w, c

LEMMA ValInitIsSound ==
  ASSUME ValInit
  PROVE  ValSound
<1>1. Sessionless.state # "DEGRADED" /\ Sessionless.id = 0
  BY DEF Sessionless
<1>2. Told([s |-> Clean(Sessionless, Configured), log |-> {}])
  BY <1>1, CleanIsTold
<1>3. Clean(Sessionless, Configured).id = 0
  BY <1>1 DEF Clean
<1> QED BY <1>2, <1>3 DEF ValInit, ValSound, ReportSound, ReportTellsSession

(* A session that listens takes what it saw.                                *)
LEMMA MovesOnIs ==
  ASSUME ValSound, Active(watch), NEW v, ToldOn(Before, v), MovesOn(v)
  PROVE  ValSound'
<1>1. watch' = v.s /\ raised' = v.log /\ clock' = clock /\ report' = report /\ disk' = disk
  BY DEF MovesOn
<1>2. Told(v) /\ v.s.id = watch.id
  BY DEF ToldOn, Before
<1>3. Told([s |-> v.s, log |-> v.log])
  BY <1>2 DEF Told, IsWorld
<1>4. Told([s |-> watch', log |-> raised']) /\ watch'.id = watch.id
  BY <1>1, <1>2, <1>3
<1>5. report # None => ~(report.id = watch.id /\ report.result = "COMPLETED")
  BY DEF ValSound, ReportSound, Active
<1>6. ReportSound'
  BY <1>1, <1>4, <1>5 DEF ValSound, ReportSound
<1>7. ReportTellsSession'
  BY <1>1, <1>4, <1>5 DEF ValSound, ReportTellsSession
<1> QED BY <1>4, <1>6, <1>7 DEF ValSound

(* A session that forgets is a clean one, of the same id or a later.        *)
LEMMA ForgetsIs ==
  ASSUME ValSound, NEW session, NEW instruments, session.state # "DEGRADED",
         session.id \in Nat, watch' = Clean(session, instruments), raised' = {},
         \/ report' = None
         \/ session.id > watch.id /\ report' = report /\ disk' = disk
  PROVE  ValSound'
<1>1. Told([s |-> Clean(session, instruments), log |-> {}])
  BY CleanIsTold
<1>2. watch'.id = session.id
  BY DEF Clean
<1>3. Told([s |-> watch', log |-> raised'])
  BY <1>1
<1>4. CASE report' = None
  BY <1>2, <1>3, <1>4 DEF ValSound, ReportSound, ReportTellsSession
<1>5. CASE session.id > watch.id /\ report' = report /\ disk' = disk
  <2>1. /\ watch'.id \in Nat
        /\ report # None => report.id \in Nat /\ report.id < watch'.id /\ report.id # watch'.id
    BY <1>2, <1>5 DEF ValSound, ReportSound
  <2>2. ReportSound'
    BY <1>5, <2>1 DEF ReportSound
  <2>3. ReportTellsSession'
    BY <1>5, <2>1 DEF ValSound, ReportTellsSession
  <2> QED BY <1>2, <1>3, <2>2, <2>3 DEF ValSound
<1> QED BY <1>4, <1>5

LEMMA ObservationIs ==
  ASSUME ValSound, Observation
  PROVE  ValSound'
<1>1. Told(Before) /\ Before.s = watch /\ Before.log = raised
  BY DEF ValSound, Before
<1>2. ASSUME NEW x, RecordEvent(x) PROVE ValSound'
  BY <1>1, <1>2, EventSeenIs, MovesOnIs DEF RecordEvent
<1>3. ASSUME NEW t, FeedTick(t) PROVE ValSound'
  <2> DEFINE event(name) == [name |-> name, component |-> "market_data", symbol |-> t.symbol,
                             at |-> t.time, body |-> t]
             first == EventSeen(Before, event("new_tick"), clock)
             second == EventSeen(first, event("market_updated"), clock)
  <2>1. Active(watch) /\ MovesOn(second)
    BY <1>3 DEF FeedTick
  <2>2. ToldOn(Before, first)
    BY <1>1, EventSeenIs
  <2> HIDE DEF first
  <2>3. ToldOn(first, second)
    BY <2>2, EventSeenIs, ToldOnIsTold
  <2> HIDE DEF second
  <2> QED BY <2>1, <2>2, <2>3, ToldTransitive, MovesOnIs
<1>4. CASE RecordDisconnect
  <2> DEFINE w == Found(Before, "WARNING", Key("reconnect", None, "FEED_DISCONNECTED"))
             v == [s |-> [w.s EXCEPT !.outage = clock, !.recovery = "DISCONNECTED"], log |-> w.log]
             d == v.s.state
  <2>1. ToldOn(Before, w) /\ raised \subseteq w.log
    BY <1>1, FoundIs, CodesFit DEF Found
  <2>2. ~Active(watch) => w.s.state = watch.state
    BY <1>1 DEF Found, DegradedBy, Active, Told, IsWorld
  <2>3. /\ watch' = v.s /\ raised' = (IF Active(watch) THEN w.log ELSE raised)
        /\ UNCHANGED <<clock, report, disk>>
    BY <1>4 DEF RecordDisconnect
  <2> HIDE DEF w
  <2>4. Elsewhere(w, v)
    BY <2>1 DEF Elsewhere, ToldOn, Told, IsWorld
  <2>5. v.log = w.log /\ v.s.state = w.s.state
    BY <2>4 DEF Elsewhere
  <2> HIDE DEF v
  <2>6. ToldOn(Before, v)
    BY <2>1, <2>4, ElsewhereTold, ToldTransitive, ToldOnIsTold
  <2>7. CASE Active(watch)
    BY <2>3, <2>5, <2>6, <2>7, MovesOnIs DEF MovesOn
  <2>8. CASE ~Active(watch)
    <3>1. Told(v) /\ v.s.id = watch.id
      BY <1>1, <2>6 DEF ToldOn
    <3>2. Told([s |-> v.s, log |-> raised])
      BY <2>1, <2>5, <3>1 DEF Told, IsWorld
    <3>3. /\ Told([s |-> watch', log |-> raised']) /\ watch'.id = watch.id
          /\ watch'.state = watch.state /\ raised' = raised
      BY <2>2, <2>3, <2>5, <2>8, <3>1, <3>2
    <3>4. ReportSound' /\ ReportTellsSession'
      BY <2>3, <3>3 DEF ValSound, ReportSound, ReportTellsSession
    <3> QED BY <3>3, <3>4 DEF ValSound
  <2> QED BY <2>7, <2>8
<1>5. CASE RecordReconnect
  <2> DEFINE v == [Before EXCEPT !.s.recovery = "RECOVERING", !.s.outages = @ + 1]
  <2>1. Elsewhere(Before, v)
    BY <1>1 DEF Elsewhere, Told, IsWorld
  <2>2. MovesOn(v)
    BY <1>5 DEF RecordReconnect
  <2> HIDE DEF v
  <2>3. /\ watch' = v.s /\ raised' = raised /\ report' = report /\ disk' = disk
        /\ watch'.id = watch.id /\ watch'.state = watch.state
    BY <1>1, <2>1, <2>2 DEF Elsewhere, MovesOn
  <2>4. Told(v)
    BY <1>1, <2>1, ElsewhereTold, ToldOnIsTold
  <2>5. Told([s |-> watch', log |-> raised'])
    BY <1>1, <2>1, <2>3, <2>4 DEF Told, IsWorld, Elsewhere
  <2>6. ReportSound' /\ ReportTellsSession'
    BY <2>3 DEF ValSound, ReportSound, ReportTellsSession
  <2> QED BY <2>3, <2>5, <2>6 DEF ValSound
<1>6. ASSUME NEW st \in Ended
      PROVE  LET w == [s |-> [watch EXCEPT !.state = st], log |-> raised]
             IN  st = "FAILED" \/ Active(watch) => Told(w) /\ w.s.state = st /\ w.s.id = watch.id
  BY <1>1, <1>6 DEF Told, IsWorld, Ended
<1>7. ASSUME NEW a, NEW b, CompleteValidation(a, b) PROVE ValSound'
  <2> DEFINE w == [s |-> [watch EXCEPT !.state = "COMPLETED"], log |-> raised]
  <2>1. Told(w) /\ w.s.state = "COMPLETED" /\ w.s.id = watch.id
    BY <1>6, <1>7 DEF CompleteValidation, Ended
  <2>2. Persist(w, a, b)
    BY <1>7 DEF CompleteValidation
  <2> HIDE DEF w
  <2> QED BY <2>1, <2>2, PersistIs DEF ValSound, Ended
<1>8. ASSUME NEW a, NEW b, FailValidation(a, b) PROVE ValSound'
  <2> DEFINE w == [s |-> [watch EXCEPT !.state = "FAILED"], log |-> raised]
             f == Found(w, "CRITICAL", Key("event_flow", None, "SESSION_FAILED"))
  <2>1. Told(w) /\ w.s.state = "FAILED" /\ w.s.id = watch.id
    BY <1>6 DEF Ended
  <2>2. Persist(f, a, b)
    BY <1>8 DEF FailValidation
  <2> HIDE DEF w
  <2>3. ToldOn(w, f) /\ f.s.state = "FAILED"
    BY <2>1, FoundAtTheEnd, CodesFit DEF Ended
  <2> HIDE DEF f
  <2> QED BY <2>1, <2>2, <2>3, PersistIs DEF ToldOn, ValSound, Ended
<1>9. ASSUME NEW clear, ResetValidation(clear) PROVE ValSound'
  <2> DEFINE session == [Sessionless EXCEPT !.id = watch.id]
  <2>1. session.state # "DEGRADED" /\ session.id \in Nat
    BY DEF Sessionless, ValSound
  <2>2. watch' = Clean(session, Configured) /\ raised' = {} /\ report' = None
    BY <1>9 DEF ResetValidation
  <2> HIDE DEF session
  <2> QED BY <2>1, <2>2, ForgetsIs
<1> QED BY <1>2, <1>3, <1>4, <1>5, <1>7, <1>8, <1>9 DEF Observation

LEMMA ValStepKeeps ==
  ASSUME ValSound, [ValNext]_valVars
  PROVE  ValSound'
<1>1. CASE Observation
  BY <1>1, ObservationIs
<1>2. ASSUME NEW s, StartValidation(s) PROVE ValSound'
  <2> DEFINE session == [state |-> "RUNNING", mode |-> "LIVE_OBSERVE", id |-> watch.id + 1]
  <2>1. session.state # "DEGRADED" /\ session.id \in Nat /\ session.id > watch.id
    BY DEF ValSound
  <2>2. watch' = Clean(session, s) /\ raised' = {} /\ report' = report /\ disk' = disk
    BY <1>2 DEF StartValidation
  <2> HIDE DEF session
  <2> QED BY <2>1, <2>2, ForgetsIs
<1>3. CASE Tock \/ UNCHANGED valVars
  BY <1>3 DEF Tock, valVars, ValSound, ReportSound, ReportTellsSession
<1> QED BY <1>1, <1>2, <1>3 DEF ValNext

(* FindingsAreTold: the report of a completed session tells of every error  *)
(* and every trouble raised in it, those of writing its findings and itself *)
(* included, is what is under its path, and the state of a running session  *)
(* tells whether there is any trouble, whatever the bus carries.            *)
THEOREM FindingsTold == ValSpec => []FindingsAreTold
<1>1. ValInit => ValSound
  BY ValInitIsSound
<1>2. ValSound /\ [ValNext]_valVars => ValSound'
  BY ValStepKeeps
<1>3. ValSound => FindingsAreTold
  <2> SUFFICES ASSUME ValSound PROVE DegradedTellsFindings
    BY DEF ValSound, FindingsAreTold
  <2> DEFINE w == [s |-> watch, log |-> raised]
             q == watch.findings
  <2>1. /\ IsFindings(q)
        /\ watch.state = "RUNNING" => ~Troubled(q)
        /\ watch.state = "DEGRADED" /\ NothingEvicted(q) => Troubled(q)
    BY DEF ValSound, Told
  <2>2. Troubled(q) <=> SeveritiesOf(q) \cap Troubles # {}
    BY <2>1 DEF IsFindings, Troubled, SeveritiesOf
  <2> QED BY <2>1, <2>2 DEF DegradedTellsFindings
<1> QED BY <1>1, <1>2, <1>3, PTL DEF ValSpec
===============================================================================
