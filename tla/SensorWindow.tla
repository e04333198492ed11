---------------------------- MODULE SensorWindow ----------------------------
(***************************************************************************)
(* What stuck detection promises, checked against the readings themselves. *)
(* The history variable window holds, per sensor, the readings since the   *)
(* last reset, the newest StuckSampleCount + 1 of them: with that many one *)
(* can see whether the last StuckSampleCount samples each repeated the one *)
(* before.                                                                 *)
(***************************************************************************)
EXTENDS SensorHealthMonitor

ASSUME WindowAssumption == StuckSampleCount > 0

VARIABLES
    window,
    paused  \* [Sensors -> BOOLEAN]: stuck detection missed a sample since it last started over

windowVars == <<monitors, window, paused>>

Keep(w, m) ==
    IF Len(w) = StuckSampleCount + 1 THEN Append(Tail(w), m) ELSE Append(w, m)

WindowInit ==
    /\ MonitorInit
    /\ window = [s \in Sensors |-> <<>>]
    /\ paused = [s \in Sensors |-> FALSE]

WindowSample(s, m) ==
    /\ Sample(s, m)
    /\ window' = [window EXCEPT ![s] = Keep(@, m)]
    /\ paused' = [paused EXCEPT ![s] =
                      ~monitors[s].stuckOn \/ (@ /\ Static(monitors[s], m))]

WindowReset(s) ==
    /\ ResetSensor(s)
    /\ window' = [window EXCEPT ![s] = <<>>]
    /\ paused' = [paused EXCEPT ![s] = FALSE]

WindowToggle(s) ==
    /\ \/ \E on \in BOOLEAN : EnableStuckDetection(s, on)
       \/ \E on \in BOOLEAN : EnableRangeDetection(s, on)
       \/ \E on \in BOOLEAN : EnableRapidChangeDetection(s, on)
    /\ UNCHANGED <<window, paused>>

WindowNext ==
    \E s \in Sensors :
        \/ \E m \in Measurements : WindowSample(s, m)
        \/ WindowReset(s)
        \/ WindowToggle(s)

WindowSpec == WindowInit /\ [][WindowNext]_windowVars

(***************************************************************************)
(* Properties                                                              *)
(***************************************************************************)
Frozen(w) ==
    /\ Len(w) = StuckSampleCount + 1
    /\ NaN \notin {w[i] : i \in DOMAIN w}
    /\ \A i \in 1..StuckSampleCount : Difference(w[i + 1], w[i]) < StuckTolerance

\* As long as stuck detection runs on every sample, a sensor is FAILED exactly
\* when its last StuckSampleCount samples repeat their predecessor, all of them
\* numbers (a reading that is not a number counts as movement): neither a count
\* left over from an earlier stretch, nor one spanning a reset, nor a
\* range or rapid-change fault in between can fail it or hide the fault.  (A
\* pause of the detection keeps the old count and movement during the pause
\* does not clear it: the verdict is exact again from the next movement that
\* detection sees, or from a reset.)
FailedIffFrozen ==
    \A s \in Sensors :
        ~paused[s] => (monitors[s].status = "FAILED" <=> Frozen(window[s]))
=============================================================================
