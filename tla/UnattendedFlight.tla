-------------------------- MODULE UnattendedFlight --------------------------
(***************************************************************************)
(* FlightSoftware between two ground contacts: nobody commands a mode or   *)
(* reconfigures FDIR, and the main loop goes on calling step.              *)
(***************************************************************************)
EXTENDS FlightSoftware

VARIABLE
    fatal  \* history: a critical sensor has failed and nothing could take over

unattendedVars == <<fswVars, fatal>>

\* "Fatal (Critical Failure)" of docs/fdir.md: executeResponseActions sends
\* the vehicle to SAFE because of a sensor.
FatalFailure ==
    \E s \in CriticalSensors :
        /\ Status(s) # "FAILED" /\ Status(s)' = "FAILED"
        /\ \A g \in Groups : ~FailsOver(s, g)

UnattendedInit == FSWInit /\ fatal = FALSE

UnattendedStep == Step /\ UNCHANGED fatal

UnattendedSensorCalls == FSWSensorCalls /\ fatal' = (fatal \/ FatalFailure)

\* Sensor samples and resets may arrive at any rate, or not at all.
UnattendedSpec ==
    /\ UnattendedInit
    /\ [][UnattendedStep \/ UnattendedSensorCalls]_unattendedVars
    /\ WF_unattendedVars(UnattendedStep)

(***************************************************************************)
(* Properties                                                              *)
(***************************************************************************)

\* A vehicle whose rate stays above the SAFE threshold ends up in SAFE and
\* stays there, although a failover or a first lost wheel may lift it to
\* DEGRADED and sensors may go on failing and recovering for ever.
TumbleEndsInSafe ==
    <>[](rate > NominalToSafeRate) => <>[](mm.current = "SAFE")

\* A vehicle that went to SAFE because of its rate comes back by itself: one
\* whose rate stays below the NOMINAL threshold, whose sensors report no more
\* changes and that has lost at most one wheel ends up outside SAFE for good.
\* No chain of failovers, wheel responses and rate transitions brings it back
\* or keeps the dwell clock from running out.  After a fatal failure
\* docs/fdir.md:26 wants the vehicle to wait for the ground, so nothing is said
\* of that case.
DetumbledLeavesSafe ==
    <>[](/\ rate < SafeToNominalRate
         /\ last # "other"
         /\ Cardinality(FailedWheels(wheels)) < 2
         /\ ~fatal)
        => <>[](mm.current # "SAFE")
=============================================================================
