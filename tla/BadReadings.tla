---------------------------- MODULE BadReadings ----------------------------
(***************************************************************************)
(* What a reading that is not a number does on its way through the flight  *)
(* software: the gyro's monitor (SensorWindow), the attitude filter (MEKF) *)
(* and the attitude controller (fsw/gnc/control/AttitudeController).  In   *)
(* every control period the gyro reading goes to FDIR and to step.         *)
(*                                                                         *)
(* The gyro is critical and has no backup: when its monitor turns FAILED,  *)
(* FDIR resets the filter.  The mode is an input of the step, because the  *)
(* ground may command any mode at any time; while the rate is not a number *)
(* the rate logic leaves it alone.                                         *)
(***************************************************************************)
EXTENDS SensorWindow, MEKF

CONSTANT Gyro  \* name of the gyro

ASSUME GyroAssumption == Gyro \in Sensors

VARIABLES
    filter,   \* the filter, see MEKF
    att,      \* last_torque_cmd_ of the attitude controller is a number
    tainted,  \* history: the filter was given a NaN since it was last reset
    blind     \* history: a pointing step was taken on a tainted filter

badVars == <<windowVars, filter, att, tainted, blind>>

BadTypeOK ==
    /\ filter \in FilterState
    /\ att \in BOOLEAN
    /\ tainted \in BOOLEAN
    /\ blind \in BOOLEAN

BadInit ==
    /\ WindowInit
    /\ filter = FreshFilter
    /\ att = TRUE
    /\ tainted = FALSE
    /\ blind = FALSE

(***************************************************************************)
(* FDIR's response to the reading, then step.                              *)
(***************************************************************************)
TurnsFailed(m) ==
    monitors[Gyro].status # "FAILED" /\ NewStatus(monitors[Gyro], m) = "FAILED"

Responded(m) == IF TurnsFailed(m) THEN ResetFilter(filter) ELSE filter

\* Mutant: a torque that is not a number is dropped.
LimitedTorqueDropped(w) == att

\* applyRateLimiting of PID output and rate damping.  The PID's clamps turn a
\* NaN into the limit, so its output is a number; the damping follows the rate,
\* and the limiter adds the change to the last command.
LimitedTorque(w) == att /\ w

BadStep(m, qMeas, pointing) ==
    LET read == m # NaN /\ qMeas
    IN  /\ WindowSample(Gyro, m)
        /\ filter' = UpdateFilter(Responded(m), m # NaN, qMeas)
        /\ att' = IF pointing THEN LimitedTorque(filter'.w) ELSE att
        /\ tainted' = (~read \/ (tainted /\ ~TurnsFailed(m)))
        /\ blind' = (blind \/ (pointing /\ tainted'))

\* Resets and settings of the monitor between two steps.
BadBetween ==
    /\ WindowReset(Gyro) \/ WindowToggle(Gyro)
    /\ UNCHANGED <<filter, att, tainted, blind>>

BadNext ==
    \/ \E m \in Measurements, qMeas \in BOOLEAN, pointing \in BOOLEAN : BadStep(m, qMeas, pointing)
    \/ BadBetween

BadSpec == BadInit /\ [][BadNext]_badVars

(***************************************************************************)
(* Properties                                                              *)
(***************************************************************************)
\* One NaN from the gyro or the star tracker spoils the estimate until FDIR
\* resets the filter for another reason, however many good readings follow,
\* and one reset cures all of it, the rate included, in the same step.
TaintLastsUntilReset == (filter.q /\ filter.beta /\ filter.w) <=> ~tainted

\* isValid, which looks at the covariance, may call a spoilt estimate valid
\* after one update, and no longer: in whatever way it was spoilt, the next
\* update without a reset makes it invalid, whatever the readings.
InvalidOneUpdateLater ==
    tainted => \A gyro, qMeas \in BOOLEAN : ~IsValid(UpdateFilter(filter, gyro, qMeas))

\* A single pointing step on a spoilt estimate makes the commanded torque NaN
\* in every later pointing step, and nothing else does: neither the reset of
\* the filter nor good readings nor time in SAFE brings the controller back.
TorqueLostForGood == att <=> ~blind
=============================================================================
