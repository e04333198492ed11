-------------------------- MODULE BadReadingsProofs --------------------------
(***************************************************************************)
(* Proofs about the sensor monitors (SensorWindow) and about what a        *)
(* reading that is not a number does (BadReadings).                        *)
(***************************************************************************)
EXTENDS BadReadings, SequenceTheorems, TLAPS

(***************************************************************************)
(* The monitors: stuck_count_ against the readings it counted.             *)
(***************************************************************************)
\* What a monitor keeps agrees with the readings since its last reset: the
\* previous sample is the newest of them, and a pause follows a sample.
Remembers(s) ==
    /\ window[s] \in Seq(Measurements)
    /\ Len(window[s]) <= StuckSampleCount + 1
    /\ monitors[s].history =
           IF Len(window[s]) = 0 THEN <<>> ELSE <<window[s][Len(window[s])]>>
    /\ paused[s] => Len(window[s]) > 0

\* The newest k readings of w each repeat the one before, and the count is not
\* too small: the reading before those does not, unless k is the limit.
CountsRepeats(w, k) ==
    /\ k = 0 \/ k < Len(w)
    /\ \A i \in 1..(Len(w) - 1) : i >= Len(w) - k => Near(w[i + 1], w[i])
    /\ k < StuckSampleCount /\ k < Len(w) - 1 => ~Near(w[Len(w) - k], w[Len(w) - k - 1])

Exact(s) ==
    /\ CountsRepeats(window[s], monitors[s].stuck)
    /\ monitors[s].status = "FAILED" <=> monitors[s].stuck = StuckSampleCount

WindowInv ==
    /\ monitors \in [Sensors -> MonitorState]
    /\ window \in [Sensors -> Seq(Measurements)]
    /\ paused \in [Sensors -> BOOLEAN]
    /\ \A s \in Sensors : Remembers(s)
    /\ \A s \in Sensors : ~paused[s] => Exact(s)

\* The filter and the history variables: a filter that was given no NaN holds
\* numbers only, a spoilt one has lost attitude, bias and rate together (and the
\* covariance may still be a number).
TaintInv ==
    /\ filter \in FilterState
    /\ att \in BOOLEAN
    /\ tainted \in BOOLEAN
    /\ blind \in BOOLEAN
    /\ ~tainted => filter.q /\ filter.beta /\ filter.w /\ filter.p
    /\ tainted => ~filter.q /\ ~filter.beta /\ ~filter.w
    /\ att <=> ~blind
-----------------------------------------------------------------------------
(***************************************************************************)
(* Lemmas about the operators.                                             *)
(***************************************************************************)
\* Keep appends the reading and drops the oldest one once the window is full.
LEMMA KeepNewest ==
    ASSUME NEW w \in Seq(Measurements), NEW m \in Measurements,
           Len(w) <= StuckSampleCount + 1
    PROVE  LET d == IF Len(w) = StuckSampleCount + 1 THEN 1 ELSE 0
           IN  /\ Keep(w, m) \in Seq(Measurements)
               /\ Len(Keep(w, m)) = Len(w) + 1 - d
               /\ \A i \in 1..(Len(w) - d) : Keep(w, m)[i] = w[i + d]
               /\ Keep(w, m)[Len(w) + 1 - d] = m
<1>0. StuckSampleCount \in Nat /\ StuckSampleCount > 0
  BY MonitorAssumption, WindowAssumption
<1>1. CASE Len(w) = StuckSampleCount + 1
  <2>1. /\ Tail(w) \in Seq(Measurements)
        /\ Len(Tail(w)) = Len(w) - 1
        /\ \A i \in 1..(Len(w) - 1) : Tail(w)[i] = w[i + 1]
    BY <1>0, <1>1
  <2> QED BY <1>0, <1>1, <2>1 DEF Keep
<1>2. CASE Len(w) # StuckSampleCount + 1
  BY <1>0, <1>2 DEF Keep
<1> QED BY <1>1, <1>2

\* StuckCount stays within its limits.
LEMMA StuckCountType ==
    ASSUME NEW mon \in MonitorState, NEW m \in Measurements
    PROVE  StuckCount(mon, m) \in 0..StuckSampleCount
BY MonitorAssumption DEF StuckCount, MonitorState

\* A sample leaves a monitor a monitor.
LEMMA UpdateMonitorType ==
    ASSUME NEW mon \in MonitorState, NEW m \in Measurements
    PROVE  UpdateMonitor(mon, m) \in MonitorState
<1>1. StuckCount(mon, m) \in 0..StuckSampleCount
  BY StuckCountType
<1>2. NewStatus(mon, m) \in HealthStatus
  BY DEF NewStatus, HealthStatus
<1>3. <<m>> \in Seq(Measurements) /\ Len(<<m>>) <= 1
  OBVIOUS
<1> QED BY <1>1, <1>2, <1>3 DEF UpdateMonitor, MonitorState, AddToHistory

\* When k counts the repeats of w, the verdict k = StuckSampleCount is the one
\* the window itself shows.
LEMMA FullCountIsFrozen ==
    ASSUME NEW w \in Seq(Measurements), Len(w) <= StuckSampleCount + 1,
           NEW k \in 0..StuckSampleCount, CountsRepeats(w, k)
    PROVE  k = StuckSampleCount <=> Frozen(w)
<1>0. StuckSampleCount \in Nat /\ StuckSampleCount > 0
  BY MonitorAssumption, WindowAssumption
<1>1. ASSUME k = StuckSampleCount PROVE Frozen(w)
  <2>1. Len(w) = StuckSampleCount + 1
    BY <1>0, <1>1 DEF CountsRepeats
  <2>2. \A i \in 1..StuckSampleCount : Near(w[i + 1], w[i])
    BY <1>0, <1>1, <2>1 DEF CountsRepeats
  <2>3. \A i \in 1..StuckSampleCount : w[i + 1] # NaN /\ w[i] # NaN
    BY <2>2 DEF Near, Comparable
  <2>4. \A i \in 1..(StuckSampleCount + 1) : w[i] # NaN
    <3> SUFFICES ASSUME NEW i \in 1..(StuckSampleCount + 1) PROVE w[i] # NaN
      OBVIOUS
    <3>1. CASE i = StuckSampleCount + 1
      <4>1. StuckSampleCount \in 1..StuckSampleCount
        BY <1>0
      <4> QED BY <3>1, <4>1, <2>3
    <3>2. CASE i # StuckSampleCount + 1
      <4>1. i \in 1..StuckSampleCount
        BY <1>0, <3>2
      <4> QED BY <4>1, <2>3
    <3> QED BY <3>1, <3>2
  <2>5. DOMAIN w = 1..(StuckSampleCount + 1)
    BY <2>1
  <2> QED BY <2>1, <2>2, <2>4, <2>5 DEF Frozen, Near
<1>2. ASSUME Frozen(w), k # StuckSampleCount PROVE FALSE
  <2>1. Len(w) = StuckSampleCount + 1
    BY <1>2 DEF Frozen
  <2> DEFINE i == Len(w) - k - 1
  <2>2. i \in 1..StuckSampleCount /\ i + 1 = Len(w) - k
    BY <1>0, <1>2, <2>1
  <2>3. ~Near(w[i + 1], w[i])
    BY <1>0, <1>2, <2>1, <2>2 DEF CountsRepeats
  <2>4. Difference(w[i + 1], w[i]) < StuckTolerance
    BY <1>2, <2>2 DEF Frozen
  <2>5. i \in DOMAIN w /\ i + 1 \in DOMAIN w
    BY <1>0, <2>1, <2>2
  <2>6. w[i] # NaN /\ w[i + 1] # NaN
    BY <1>2, <2>5 DEF Frozen
  <2> QED BY <2>3, <2>4, <2>6 DEF Near, Comparable
<1> QED BY <1>1, <1>2

\* Counting on: a sample that repeats the newest reading, one that does not,
\* and the first one, which has nothing to repeat.
LEMMA CountOn ==
    ASSUME NEW w \in Seq(Measurements), Len(w) <= StuckSampleCount + 1,
           NEW k \in 0..StuckSampleCount, NEW m \in Measurements
    PROVE  /\ Len(w) = 0 => CountsRepeats(Keep(w, m), 0)
           /\ Len(w) > 0 /\ ~Near(m, w[Len(w)]) => CountsRepeats(Keep(w, m), 0)
           /\ Len(w) > 0 /\ Near(m, w[Len(w)]) /\ CountsRepeats(w, k)
                => CountsRepeats(Keep(w, m),
                                 IF k + 1 >= StuckSampleCount THEN StuckSampleCount ELSE k + 1)
<1>0. StuckSampleCount \in Nat /\ StuckSampleCount > 0 /\ Len(w) \in Nat
  BY MonitorAssumption, WindowAssumption
<1> DEFINE d == IF Len(w) = StuckSampleCount + 1 THEN 1 ELSE 0
           v == Keep(w, m)
<1>1. /\ Len(v) = Len(w) + 1 - d
      /\ \A i \in 1..(Len(w) - d) : v[i] = w[i + d]
      /\ v[Len(w) + 1 - d] = m
  BY KeepNewest
<1>2. d \in 0..1 /\ (d = 1 <=> Len(w) = StuckSampleCount + 1)
  OBVIOUS
<1> HIDE DEF d, v
<1>3. ASSUME Len(w) = 0 PROVE CountsRepeats(v, 0)
  BY <1>0, <1>1, <1>2, <1>3 DEF CountsRepeats
<1>4. ASSUME Len(w) > 0 PROVE v[Len(v)] = m /\ v[Len(v) - 1] = w[Len(w)] /\ Len(v) > 1
  BY <1>0, <1>1, <1>2, <1>4
<1>5. ASSUME Len(w) > 0, ~Near(m, w[Len(w)]) PROVE CountsRepeats(v, 0)
  BY <1>0, <1>1, <1>2, <1>4, <1>5 DEF CountsRepeats
<1>6. ASSUME Len(w) > 0, Near(m, w[Len(w)]), CountsRepeats(w, k)
      PROVE  CountsRepeats(v, IF k + 1 >= StuckSampleCount THEN StuckSampleCount ELSE k + 1)
  <2> DEFINE j == IF k + 1 >= StuckSampleCount THEN StuckSampleCount ELSE k + 1
  <2>1. /\ j \in 1..StuckSampleCount
        /\ j <= k + 1
        /\ j < StuckSampleCount => j = k + 1
    BY <1>0
  <2> HIDE DEF j
  <2>2. k < Len(w)
    BY <1>0, <1>6 DEF CountsRepeats
  <2>3. j < Len(v)
    BY <1>0, <1>1, <1>2, <2>1, <2>2
  <2>4. ASSUME NEW i \in 1..(Len(v) - 1), i >= Len(v) - j PROVE Near(v[i + 1], v[i])
    <3>1. CASE i = Len(v) - 1
      <4>1. i + 1 = Len(v)
        BY <3>1, <1>0, <1>1, <1>2
      <4> QED BY <4>1, <3>1, <1>4, <1>6
    <3>2. CASE i # Len(v) - 1
      <4>1. /\ i \in 1..(Len(w) - d) /\ i + 1 \in 1..(Len(w) - d)
            /\ i + d \in 1..(Len(w) - 1) /\ i + d >= Len(w) - k
            /\ (i + 1) + d = (i + d) + 1
        BY <3>2, <2>4, <2>1, <1>0, <1>1, <1>2
      <4>2. v[i] = w[i + d] /\ v[i + 1] = w[(i + d) + 1]
        BY <4>1, <1>1
      <4>3. Near(w[(i + d) + 1], w[i + d])
        BY <4>1, <1>6 DEF CountsRepeats
      <4> QED BY <4>2, <4>3
    <3> QED BY <3>1, <3>2
  <2>5. ASSUME j < StuckSampleCount, j < Len(v) - 1
        PROVE  ~Near(v[Len(v) - j], v[Len(v) - j - 1])
    <3>1. j = k + 1 /\ k < StuckSampleCount /\ k < Len(w) - 1
      BY <2>5, <2>1, <1>0, <1>1, <1>2
    <3>2. ~Near(w[Len(w) - k], w[Len(w) - k - 1])
      BY <3>1, <1>6 DEF CountsRepeats
    <3>3. /\ Len(v) - j \in 1..(Len(w) - d) /\ Len(v) - j - 1 \in 1..(Len(w) - d)
          /\ (Len(v) - j) + d = Len(w) - k /\ (Len(v) - j - 1) + d = Len(w) - k - 1
      BY <3>1, <2>5, <2>1, <1>0, <1>1, <1>2
    <3>4. v[Len(v) - j] = w[Len(w) - k] /\ v[Len(v) - j - 1] = w[Len(w) - k - 1]
      BY <3>3, <1>1
    <3> QED BY <3>2, <3>4
  <2>6. CountsRepeats(v, j)
    BY <2>3, <2>4, <2>5 DEF CountsRepeats
  <2> QED BY <2>6 DEF j
<1> QED BY <1>3, <1>5, <1>6 DEF v

-----------------------------------------------------------------------------
(***************************************************************************)
(* The monitors' invariant, one lemma per call.                            *)
(***************************************************************************)

\* A sample keeps what the monitor remembers in step with the window, and its
\* count exact unless the detection has been off.
LEMMA SampleExact ==
    ASSUME WindowInv, NEW s \in Sensors, NEW m \in Measurements, WindowSample(s, m)
    PROVE  Remembers(s)' /\ (~paused'[s] => Exact(s)')
<1> DEFINE mon == monitors[s]
           w == window[s]
<1>0. StuckSampleCount \in Nat /\ StuckSampleCount > 0
  BY MonitorAssumption, WindowAssumption
<1>1. /\ mon \in MonitorState
      /\ w \in Seq(Measurements)
      /\ Len(w) <= StuckSampleCount + 1
      /\ mon.history = IF Len(w) = 0 THEN <<>> ELSE <<w[Len(w)]>>
      /\ paused[s] => Len(w) > 0
      /\ mon.stuck \in 0..StuckSampleCount
      /\ Len(w) \in Nat
  BY DEF WindowInv, Remembers, MonitorState
<1>2. /\ monitors'[s] = UpdateMonitor(mon, m)
      /\ window'[s] = Keep(w, m)
      /\ paused'[s] = (~mon.stuckOn \/ (paused[s] /\ Static(mon, m)))
  BY DEF WindowInv, WindowSample, Sample
<1>3. /\ monitors'[s].history = <<m>>
      /\ monitors'[s].stuck = StuckCount(mon, m)
      /\ monitors'[s].status = NewStatus(mon, m)
  BY <1>1, <1>2 DEF UpdateMonitor, AddToHistory, MonitorState
<1>4. /\ Keep(w, m) \in Seq(Measurements)
      /\ Len(Keep(w, m)) > 0 /\ Len(Keep(w, m)) <= StuckSampleCount + 1
      /\ Keep(w, m)[Len(Keep(w, m))] = m
  <2> DEFINE d == IF Len(w) = StuckSampleCount + 1 THEN 1 ELSE 0
  <2>1. /\ Keep(w, m) \in Seq(Measurements)
        /\ Len(Keep(w, m)) = Len(w) + 1 - d
        /\ Keep(w, m)[Len(w) + 1 - d] = m
    BY <1>1, KeepNewest
  <2>2. Len(w) + 1 - d > 0 /\ Len(w) + 1 - d <= StuckSampleCount + 1
    <3>1. Len(w) \in Nat /\ Len(w) <= StuckSampleCount + 1
      BY <1>1
    <3>2. d \in 0..1 /\ (d = 1 <=> Len(w) = StuckSampleCount + 1)
      OBVIOUS
    <3> HIDE DEF d, w
    <3> QED BY <1>0, <3>1, <3>2
  <2> QED BY <2>1, <2>2
<1>5. Remembers(s)'
  BY <1>2, <1>3, <1>4 DEF Remembers
<1>6. HasPrevious(mon) <=> Len(w) > 0
  BY <1>1 DEF HasPrevious
<1>7. Static(mon, m) <=> Len(w) > 0 /\ Near(m, w[Len(w)])
  BY <1>1, <1>6 DEF Static
<1>8. NewStatus(mon, m) = "FAILED"
          <=> mon.stuckOn /\ Static(mon, m) /\ StuckCount(mon, m) >= StuckSampleCount
  BY DEF NewStatus, DetectStuck
<1> HIDE DEF mon, w
<1>9. ASSUME ~paused'[s] PROVE Exact(s)'
  <2>1. mon.stuckOn /\ (Static(mon, m) => ~paused[s])
    BY <1>2, <1>9
  <2>2. CASE ~HasPrevious(mon)
    <3>1. Len(w) = 0 /\ ~paused[s]
      BY <2>2, <1>1, <1>6
    <3>2. mon.stuck = 0
      BY <3>1, <1>1 DEF WindowInv, Exact, CountsRepeats, mon, w
    <3>3. StuckCount(mon, m) = 0 /\ NewStatus(mon, m) # "FAILED"
      <4>1. StuckCount(mon, m) = mon.stuck
        BY <2>2 DEF StuckCount
      <4>2. ~Static(mon, m)
        BY <2>2 DEF Static
      <4> QED BY <4>1, <4>2, <3>2, <1>8
    <3>4. CountsRepeats(Keep(w, m), 0)
      BY <3>1, <1>0, <1>1, CountOn
    <3> QED BY <3>3, <3>4, <1>0, <1>2, <1>3 DEF Exact
  <2>3. CASE HasPrevious(mon) /\ ~Static(mon, m)
    <3>1. StuckCount(mon, m) = 0 /\ NewStatus(mon, m) # "FAILED"
      BY <2>1, <2>3, <1>8 DEF StuckCount
    <3>2. Len(w) > 0 /\ ~Near(m, w[Len(w)])
      BY <2>3, <1>6, <1>7
    <3>3. CountsRepeats(Keep(w, m), 0)
      BY <3>2, <1>0, <1>1, CountOn
    <3> QED BY <3>1, <3>3, <1>0, <1>2, <1>3 DEF Exact
  <2>4. CASE HasPrevious(mon) /\ Static(mon, m)
    <3> DEFINE j == IF mon.stuck + 1 >= StuckSampleCount THEN StuckSampleCount ELSE mon.stuck + 1
    <3>1. StuckCount(mon, m) = j
      BY <2>1, <2>4 DEF StuckCount
    <3>2. CountsRepeats(w, mon.stuck)
      BY <2>1, <2>4 DEF WindowInv, Exact, mon, w
    <3>3. Len(w) > 0 /\ Near(m, w[Len(w)])
      BY <2>4, <1>7
    <3>4. CountsRepeats(Keep(w, m), j)
      BY <3>2, <3>3, <1>1, CountOn
    <3>5. NewStatus(mon, m) = "FAILED" <=> j >= StuckSampleCount
      BY <3>1, <2>1, <2>4, <1>8
    <3>6. j >= StuckSampleCount <=> j = StuckSampleCount
      BY <1>0, <1>1
    <3> QED BY <3>1, <3>4, <3>5, <3>6, <1>2, <1>3 DEF Exact
  <2> QED BY <2>2, <2>3, <2>4
<1> QED BY <1>5, <1>9

\* A call on one monitor leaves what the others keep alone.
LEMMA OthersExact ==
    ASSUME NEW t \in Sensors, UNCHANGED <<monitors[t], window[t], paused[t]>>,
           WindowInv
    PROVE  Remembers(t)' /\ (~paused'[t] => Exact(t)')
<1>1. Remembers(t) /\ (~paused[t] => Exact(t))
  BY DEF WindowInv
<1> QED BY <1>1 DEF Remembers, Exact

\* A sample touches one sensor only, so the invariant holds for all of them.
LEMMA SampleKeepsWindow ==
    ASSUME WindowInv, NEW s \in Sensors, NEW m \in Measurements, WindowSample(s, m)
    PROVE  WindowInv'
<1>1. /\ monitors' = [monitors EXCEPT ![s] = UpdateMonitor(monitors[s], m)]
      /\ window' = [window EXCEPT ![s] = Keep(window[s], m)]
      /\ paused' = [paused EXCEPT ![s] =
                        ~monitors[s].stuckOn \/ (paused[s] /\ Static(monitors[s], m))]
  BY DEF WindowSample, Sample
<1>2. UpdateMonitor(monitors[s], m) \in MonitorState
  BY UpdateMonitorType DEF WindowInv
<1>3. Keep(window[s], m) \in Seq(Measurements)
  BY KeepNewest DEF WindowInv, Remembers
<1>4. (~monitors[s].stuckOn \/ (paused[s] /\ Static(monitors[s], m))) \in BOOLEAN
  OBVIOUS
<1>5. /\ monitors' \in [Sensors -> MonitorState]
      /\ window' \in [Sensors -> Seq(Measurements)]
      /\ paused' \in [Sensors -> BOOLEAN]
  BY <1>1, <1>2, <1>3, <1>4 DEF WindowInv
<1>6. ASSUME NEW t \in Sensors PROVE Remembers(t)' /\ (~paused'[t] => Exact(t)')
  <2>1. CASE t = s
    BY <2>1, SampleExact
  <2>2. CASE t # s
    <3>1. UNCHANGED <<monitors[t], window[t], paused[t]>>
      BY <1>1, <2>2 DEF WindowInv
    <3> QED BY <3>1, OthersExact
  <2> QED BY <2>1, <2>2
<1> QED BY <1>5, <1>6 DEF WindowInv

\* reset empties the window and the count together.
LEMMA ResetKeepsWindow ==
    ASSUME WindowInv, NEW s \in Sensors, WindowReset(s)
    PROVE  WindowInv'
<1>0. StuckSampleCount \in Nat /\ StuckSampleCount > 0
  BY MonitorAssumption, WindowAssumption
<1>1. /\ monitors' = [monitors EXCEPT ![s] = ResetMonitor(monitors[s])]
      /\ window' = [window EXCEPT ![s] = <<>>]
      /\ paused' = [paused EXCEPT ![s] = FALSE]
  BY DEF WindowReset, ResetSensor
<1>2. monitors[s] \in MonitorState
  BY DEF WindowInv
<1>3. /\ ResetMonitor(monitors[s]) \in MonitorState
      /\ ResetMonitor(monitors[s]).history = <<>>
      /\ ResetMonitor(monitors[s]).stuck = 0
      /\ ResetMonitor(monitors[s]).status = "HEALTHY"
  <2>1. <<>> \in {h \in Seq(Measurements) : Len(h) <= 1} /\ 0 \in 0..StuckSampleCount
    BY <1>0
  <2>2. "HEALTHY" \in HealthStatus
    BY DEF HealthStatus
  <2> QED BY <1>2, <2>1, <2>2 DEF ResetMonitor, MonitorState
<1>4. /\ monitors' \in [Sensors -> MonitorState]
      /\ window' \in [Sensors -> Seq(Measurements)]
      /\ paused' \in [Sensors -> BOOLEAN]
  BY <1>1, <1>3 DEF WindowInv
<1>5. ASSUME NEW t \in Sensors PROVE Remembers(t)' /\ (~paused'[t] => Exact(t)')
  <2>1. CASE t = s
    <3>1. monitors'[s] = ResetMonitor(monitors[s]) /\ window'[s] = <<>> /\ ~paused'[s]
      BY <1>1 DEF WindowInv
    <3>2. Remembers(s)'
      BY <3>1, <1>0, <1>3 DEF Remembers
    <3>3. Exact(s)'
      BY <3>1, <1>0, <1>3 DEF Exact, CountsRepeats
    <3> QED BY <2>1, <3>2, <3>3
  <2>2. CASE t # s
    <3>1. UNCHANGED <<monitors[t], window[t], paused[t]>>
      BY <1>1, <2>2 DEF WindowInv
    <3> QED BY <3>1, OthersExact
  <2> QED BY <2>1, <2>2
<1> QED BY <1>4, <1>5 DEF WindowInv

\* Switching a detector changes neither the count nor the verdict.
LEMMA ToggleKeepsWindow ==
    ASSUME WindowInv, NEW s \in Sensors, WindowToggle(s)
    PROVE  WindowInv'
<1>1. UNCHANGED <<window, paused>>
  BY DEF WindowToggle
<1>2. /\ monitors' \in [Sensors -> MonitorState]
      /\ \A t \in Sensors : /\ monitors'[t].stuck = monitors[t].stuck
                           /\ monitors'[t].status = monitors[t].status
                           /\ monitors'[t].history = monitors[t].history
  <2>1. monitors \in [Sensors -> MonitorState] /\ monitors[s] \in MonitorState
    BY DEF WindowInv
  <2>2. ASSUME NEW on \in BOOLEAN, EnableStuckDetection(s, on) PROVE <1>2
    BY <2>1, <2>2 DEF EnableStuckDetection, MonitorState
  <2>3. ASSUME NEW on \in BOOLEAN, EnableRangeDetection(s, on) PROVE <1>2
    BY <2>1, <2>3 DEF EnableRangeDetection, MonitorState
  <2>4. ASSUME NEW on \in BOOLEAN, EnableRapidChangeDetection(s, on) PROVE <1>2
    BY <2>1, <2>4 DEF EnableRapidChangeDetection, MonitorState
  <2> QED BY <2>2, <2>3, <2>4 DEF WindowToggle
<1>3. ASSUME NEW t \in Sensors PROVE Remembers(t)' /\ (~paused'[t] => Exact(t)')
  <2>1. Remembers(t) /\ (~paused[t] => Exact(t))
    BY DEF WindowInv
  <2> QED BY <1>1, <1>2, <2>1 DEF Remembers, Exact
<1> QED BY <1>1, <1>2, <1>3 DEF WindowInv

\* New monitors have seen nothing.
LEMMA WindowInitInv == WindowInit => WindowInv
<1> SUFFICES ASSUME WindowInit PROVE WindowInv
  OBVIOUS
<1>0. StuckSampleCount \in Nat /\ StuckSampleCount > 0
  BY MonitorAssumption, WindowAssumption
<1>1. FreshMonitor \in MonitorState
  BY <1>0 DEF FreshMonitor, MonitorState, HealthStatus
<1>2. /\ FreshMonitor.stuck = 0
      /\ FreshMonitor.history = <<>>
      /\ FreshMonitor.status = "HEALTHY"
  BY DEF FreshMonitor
<1>3. ASSUME NEW s \in Sensors PROVE Remembers(s) /\ Exact(s)
  <2>1. window[s] = <<>> /\ monitors[s] = FreshMonitor /\ paused[s] = FALSE
    BY DEF WindowInit, MonitorInit
  <2>2. Remembers(s)
    BY <1>0, <1>2, <2>1 DEF Remembers
  <2>3. Exact(s)
    BY <1>0, <1>2, <2>1 DEF Exact, CountsRepeats
  <2> QED BY <2>2, <2>3
<1> QED BY <1>1, <1>3 DEF WindowInit, MonitorInit, WindowInv

\* An exact count at its limit is a frozen window.
LEMMA WindowInvFrozen == WindowInv => FailedIffFrozen
<1> SUFFICES ASSUME WindowInv, NEW s \in Sensors, ~paused[s]
             PROVE  monitors[s].status = "FAILED" <=> Frozen(window[s])
  BY DEF FailedIffFrozen
<1>1. Remembers(s) /\ Exact(s) /\ monitors[s].stuck \in 0..StuckSampleCount
  BY DEF WindowInv, MonitorState
<1> QED BY <1>1, FullCountIsFrozen DEF Remembers, Exact

\* The verdict FAILED of a monitor is exact for every number of sensors, every
\* set of readings and every sample count above 0: it is given exactly when the
\* last StuckSampleCount readings repeat their predecessor, whatever samples,
\* resets and switching of detectors came before.
THEOREM VerdictExact == WindowSpec => []FailedIffFrozen
<1>1. WindowInit => WindowInv
  BY WindowInitInv
<1>2. WindowInv /\ [WindowNext]_windowVars => WindowInv'
  <2> SUFFICES ASSUME WindowInv, [WindowNext]_windowVars PROVE WindowInv'
    OBVIOUS
  <2>1. CASE WindowNext
    BY <2>1, SampleKeepsWindow, ResetKeepsWindow, ToggleKeepsWindow DEF WindowNext
  <2>2. CASE UNCHANGED windowVars
    BY <2>2 DEF windowVars, WindowInv, Remembers, Exact
  <2> QED BY <2>1, <2>2
<1>3. WindowInv => FailedIffFrozen
  BY WindowInvFrozen
<1> QED BY <1>1, <1>2, <1>3, PTL DEF WindowSpec

-----------------------------------------------------------------------------
(***************************************************************************)
(* The filter and the controller.                                          *)
(***************************************************************************)
\* What an update makes of the four parts of the filter.
LEMMA UpdateFilterFields ==
    ASSUME NEW f \in FilterState, NEW gyro \in BOOLEAN, NEW qMeas \in BOOLEAN
    PROVE  /\ UpdateFilter(f, gyro, qMeas) \in FilterState
           /\ UpdateFilter(f, gyro, qMeas).p <=> f.p /\ gyro /\ f.beta
           /\ UpdateFilter(f, gyro, qMeas).beta <=> f.p /\ gyro /\ f.beta /\ qMeas
           /\ UpdateFilter(f, gyro, qMeas).q <=> f.q /\ f.p /\ gyro /\ f.beta /\ qMeas
           /\ UpdateFilter(f, gyro, qMeas).w <=> f.p /\ gyro /\ f.beta /\ qMeas
<1> DEFINE g == Predict(f, gyro)
           h == UpdateQuat(g, qMeas)
           u == UpdateFilter(f, gyro, qMeas)
<1>1. /\ g \in FilterState
      /\ g.q <=> f.q /\ gyro /\ f.beta
      /\ g.p <=> f.p /\ gyro /\ f.beta
      /\ g.beta <=> f.beta
  BY DEF Predict, FilterState
<1>2. /\ h \in FilterState
      /\ h.q <=> g.q /\ g.p /\ qMeas
      /\ h.beta <=> g.beta /\ g.p /\ qMeas
      /\ h.p <=> g.p
  <2> HIDE DEF g
  <2> QED BY <1>1 DEF UpdateQuat, FilterState
<1>3. u = [h EXCEPT !.w = gyro /\ h.beta]
  BY DEF UpdateFilter
<1>4. /\ u \in FilterState
      /\ u.w <=> gyro /\ h.beta
      /\ u.q <=> h.q
      /\ u.beta <=> h.beta
      /\ u.p <=> h.p
  <2> HIDE DEF u, h
  <2> QED BY <1>2, <1>3 DEF FilterState
<1> HIDE DEF g, h, u
<1>5. /\ u.p <=> f.p /\ gyro /\ f.beta
      /\ u.beta <=> f.p /\ gyro /\ f.beta /\ qMeas
      /\ u.q <=> f.q /\ f.p /\ gyro /\ f.beta /\ qMeas
      /\ u.w <=> f.p /\ gyro /\ f.beta /\ qMeas
  BY <1>1, <1>2, <1>4
<1> QED BY <1>4, <1>5 DEF u

\* What FDIR makes of the filter before the update.
LEMMA RespondedFields ==
    ASSUME filter \in FilterState, NEW m \in Measurements
    PROVE  /\ Responded(m) \in FilterState
           /\ ~TurnsFailed(m) => Responded(m) = filter
           /\ TurnsFailed(m) => Responded(m).q /\ Responded(m).beta /\ Responded(m).p
BY DEF Responded, ResetFilter, FilterState

\* A step of FDIR, filter and controller keeps the account of the NaNs.
LEMMA StepKeepsTaint ==
    ASSUME TaintInv, NEW m \in Measurements, NEW qMeas \in BOOLEAN,
           NEW pointing \in BOOLEAN, BadStep(m, qMeas, pointing)
    PROVE  TaintInv'
<1> DEFINE f == Responded(m)
           gyro == m # NaN
           read == gyro /\ qMeas
           kept == tainted /\ ~TurnsFailed(m)
<1>1. /\ filter' = UpdateFilter(f, gyro, qMeas)
      /\ att' = IF pointing THEN LimitedTorque(filter'.w) ELSE att
      /\ tainted' = (~read \/ kept)
      /\ blind' = (blind \/ (pointing /\ tainted'))
  BY DEF BadStep
<1>2. /\ f \in FilterState
      /\ ~kept => f.q /\ f.beta /\ f.p
      /\ kept => ~f.beta
  BY RespondedFields DEF TaintInv
<1>3. gyro \in BOOLEAN /\ read \in BOOLEAN /\ kept \in BOOLEAN
  OBVIOUS
<1>4. /\ filter' \in FilterState
      /\ filter'.p <=> f.p /\ gyro /\ f.beta
      /\ filter'.beta <=> f.p /\ gyro /\ f.beta /\ qMeas
      /\ filter'.q <=> f.q /\ f.p /\ gyro /\ f.beta /\ qMeas
      /\ filter'.w <=> f.p /\ gyro /\ f.beta /\ qMeas
  <2> HIDE DEF f, gyro
  <2> QED BY <1>1, <1>2, <1>3, UpdateFilterFields
<1>5. tainted' \in BOOLEAN /\ blind' \in BOOLEAN
  BY <1>1 DEF TaintInv
<1>6. /\ ~tainted' => filter'.q /\ filter'.beta /\ filter'.w /\ filter'.p
      /\ tainted' => ~filter'.q /\ ~filter'.beta /\ ~filter'.w
  <2> HIDE DEF f, gyro, kept
  <2> QED BY <1>1, <1>2, <1>4
<1>7. att' \in BOOLEAN /\ (att' <=> ~blind')
  <2>1. CASE pointing
    <3>1. att' = (att /\ filter'.w) /\ (blind' <=> blind \/ tainted')
      BY <1>1, <2>1 DEF LimitedTorque
    <3> QED BY <3>1, <1>6 DEF TaintInv
  <2>2. CASE ~pointing
    <3>1. att' = att /\ (blind' <=> blind)
      BY <1>1, <2>2
    <3> QED BY <3>1 DEF TaintInv
  <2> QED BY <2>1, <2>2
<1> QED BY <1>4, <1>5, <1>6, <1>7 DEF TaintInv

\* Every action of the closed loop preserves both invariants.
LEMMA BadStepInv == WindowInv /\ TaintInv /\ [BadNext]_badVars => (WindowInv /\ TaintInv)'
<1> SUFFICES ASSUME WindowInv, TaintInv, [BadNext]_badVars PROVE (WindowInv /\ TaintInv)'
  OBVIOUS
<1>0. Gyro \in Sensors
  BY GyroAssumption
<1>1. ASSUME NEW m \in Measurements, NEW qMeas \in BOOLEAN, NEW pointing \in BOOLEAN,
             BadStep(m, qMeas, pointing)
      PROVE  (WindowInv /\ TaintInv)'
  <2>1. WindowSample(Gyro, m)
    BY <1>1 DEF BadStep
  <2>2. WindowInv'
    BY <1>0, <2>1, SampleKeepsWindow
  <2>3. TaintInv'
    BY <1>1, StepKeepsTaint
  <2> QED BY <2>2, <2>3
<1>2. CASE BadBetween
  <2>1. WindowInv'
    BY <1>0, <1>2, ResetKeepsWindow, ToggleKeepsWindow DEF BadBetween
  <2>2. TaintInv'
    BY <1>2 DEF BadBetween, TaintInv
  <2> QED BY <2>1, <2>2
<1>3. CASE UNCHANGED badVars
  <2>1. WindowInv'
    BY <1>3 DEF badVars, windowVars, WindowInv, Remembers, Exact
  <2>2. TaintInv'
    BY <1>3 DEF badVars, TaintInv
  <2> QED BY <2>1, <2>2
<1> QED BY <1>1, <1>2, <1>3 DEF BadNext

\* Start-up establishes both: no reading, no NaN.
LEMMA BadInitInv == BadInit => WindowInv /\ TaintInv
<1> SUFFICES ASSUME BadInit PROVE WindowInv /\ TaintInv
  OBVIOUS
<1>1. WindowInv
  BY WindowInitInv DEF BadInit
<1>2. TaintInv
  BY DEF BadInit, TaintInv, FreshFilter, FilterState
<1> QED BY <1>1, <1>2

\* Both hold throughout.
LEMMA BadInvariant == BadSpec => [](WindowInv /\ TaintInv)
BY BadInitInv, BadStepInv, PTL DEF BadSpec

\* The verdict stays exact in the closed loop of monitor, filter and controller.
THEOREM VerdictExactInLoop == BadSpec => []FailedIffFrozen
BY BadInvariant, WindowInvFrozen, PTL

\* For every set of readings, in every order: the estimate is spoilt exactly
\* from the first NaN to the next reset by FDIR.
THEOREM TaintExact == BadSpec => []TaintLastsUntilReset
<1>1. TaintInv => TaintLastsUntilReset
  BY DEF TaintInv, TaintLastsUntilReset
<1> QED BY <1>1, BadInvariant, PTL

\* However the estimate was spoilt, isValid calls it invalid at the latest after
\* one more update without a reset.
THEOREM SpoiltNoticed == BadSpec => []InvalidOneUpdateLater
<1>1. TaintInv => InvalidOneUpdateLater
  <2> SUFFICES ASSUME TaintInv, tainted, NEW gyro \in BOOLEAN, NEW qMeas \in BOOLEAN
               PROVE  ~UpdateFilter(filter, gyro, qMeas).p
    BY DEF InvalidOneUpdateLater, IsValid
  <2>1. filter \in FilterState /\ ~filter.beta
    BY DEF TaintInv
  <2> QED BY <2>1, UpdateFilterFields
<1> QED BY <1>1, BadInvariant, PTL

\* The torque of the attitude controller is a number exactly as long as no
\* pointing step was taken on a spoilt estimate; nothing brings it back.
THEOREM TorqueLost == BadSpec => []TorqueLostForGood
<1>1. TaintInv => TorqueLostForGood
  BY DEF TaintInv, TorqueLostForGood
<1> QED BY <1>1, BadInvariant, PTL
=============================================================================
