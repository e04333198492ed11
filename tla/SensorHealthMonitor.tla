------------------------- MODULE SensorHealthMonitor -------------------------
(***************************************************************************)
(* The sensor monitors (fsw/fdir/SensorHealthMonitor.hpp), one per name of *)
(* Sensors, as the map vector_monitors_ of FDIRManager holds them.         *)
(* Measurements are integers: the code reads a measurement only through    *)
(* computeMagnitude and computeDifference, which for its scalar            *)
(* instantiation are |a| and |a - b|.  A reading that is not a number      *)
(* makes every comparison of the detectors false.                          *)
(*                                                                         *)
(* Of the 100 entries of measurement_history_ only the newest one is read  *)
(* again (as "prev" of the next sample), so history keeps that one.        *)
(* stuck_count_ is only compared with stuck_sample_count_ and saturates    *)
(* there.                                                                  *)
(***************************************************************************)
EXTENDS Integers, Sequences

CONSTANTS
    Sensors,           \* names of the registered sensors
    Measurements,      \* readings a sensor may deliver
    NaN,               \* the reading that is not a number
    StuckTolerance,    \* stuck_tolerance_
    StuckSampleCount,  \* stuck_sample_count_
    MinValue,          \* min_value_
    MaxValue,          \* max_value_
    MaxChange          \* max_change_per_sample_

ASSUME MonitorAssumption ==
    /\ Measurements \subseteq Int \cup {NaN}
    /\ NaN \notin Int
    /\ StuckTolerance \in Int
    /\ StuckSampleCount \in Nat
    /\ MinValue \in Int
    /\ MaxValue \in Int
    /\ MaxChange \in Int

VARIABLE monitors  \* vector_monitors_

HealthStatus == {"HEALTHY", "DEGRADED", "FAILED"}

MonitorState ==
    [status: HealthStatus, stuck: 0..StuckSampleCount,
     history: {h \in Seq(Measurements) : Len(h) <= 1},
     stuckOn: BOOLEAN, rangeOn: BOOLEAN, rapidOn: BOOLEAN]

MonitorTypeOK == monitors \in [Sensors -> MonitorState]

(***************************************************************************)
(* The detectors, on the monitor mon as it is before measurement m.        *)
(***************************************************************************)
Magnitude(m) == IF m >= 0 THEN m ELSE -m

Difference(a, b) == Magnitude(a - b)

\* Both detectors that look at the previous sample give up on the first one.
HasPrevious(mon) == mon.history # <<>>

Comparable(a, b) == a # NaN /\ b # NaN

\* Mutant: the comparison is the other way round, so that what is not a number
\* counts as no movement.
NearUnlessFar(a, b) == ~(Comparable(a, b) /\ Difference(a, b) >= StuckTolerance)

Near(a, b) == Comparable(a, b) /\ Difference(a, b) < StuckTolerance

Static(mon, m) == HasPrevious(mon) /\ Near(m, mon.history[1])

\* stuck_count_ is managed inside detectStuck, which does not run while stuck
\* detection is off or there is no previous sample.
StuckCount(mon, m) ==
    IF ~mon.stuckOn \/ ~HasPrevious(mon) THEN mon.stuck
    ELSE IF ~Static(mon, m) THEN 0
    ELSE IF mon.stuck + 1 >= StuckSampleCount THEN StuckSampleCount
    ELSE mon.stuck + 1

DetectStuck(mon, m) == Static(mon, m) /\ StuckCount(mon, m) >= StuckSampleCount

DetectOutOfRange(m) == m # NaN /\ (Magnitude(m) < MinValue \/ Magnitude(m) > MaxValue)

DetectRapidChange(mon, m) ==
    HasPrevious(mon) /\ Comparable(m, mon.history[1]) /\ Difference(m, mon.history[1]) > MaxChange

\* The first detector that fires decides; a sample no detector objects to
\* makes the sensor HEALTHY again, whatever it was.
NewStatus(mon, m) ==
    IF mon.stuckOn /\ DetectStuck(mon, m) THEN "FAILED"
    ELSE IF \/ mon.rangeOn /\ DetectOutOfRange(m)
            \/ mon.rapidOn /\ DetectRapidChange(mon, m)
    THEN "DEGRADED"
    ELSE "HEALTHY"

AddToHistory(mon, m) == <<m>>

UpdateMonitor(mon, m) ==
    [mon EXCEPT !.status = NewStatus(mon, m),
                !.stuck = StuckCount(mon, m),
                !.history = AddToHistory(mon, m)]

\* reset keeps the feature flags and fires no callback.
ResetMonitor(mon) == [mon EXCEPT !.status = "HEALTHY", !.stuck = 0, !.history = <<>>]

FreshMonitor ==
    [status |-> "HEALTHY", stuck |-> 0, history |-> <<>>,
     stuckOn |-> TRUE, rangeOn |-> TRUE, rapidOn |-> TRUE]

MonitorInit == monitors = [s \in Sensors |-> FreshMonitor]

(***************************************************************************)
(* The calls on one monitor.                                               *)
(***************************************************************************)
Sample(s, m) == monitors' = [monitors EXCEPT ![s] = UpdateMonitor(@, m)]

ResetSensor(s) == monitors' = [monitors EXCEPT ![s] = ResetMonitor(@)]

EnableStuckDetection(s, on) == monitors' = [monitors EXCEPT ![s].stuckOn = on]

EnableRangeDetection(s, on) == monitors' = [monitors EXCEPT ![s].rangeOn = on]

EnableRapidChangeDetection(s, on) == monitors' = [monitors EXCEPT ![s].rapidOn = on]
==============================================================================
