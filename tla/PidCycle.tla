------------------------------ MODULE PidCycle ------------------------------
(***************************************************************************)
(* ControlCycle with the arithmetic of the attitude controller: the gain   *)
(* schedule of AttitudeController and the PID loop (fsw/gnc/control/PID).  *)
(* The loop keeps its integral and its last error from one pointing step   *)
(* to the next, whatever happened in SAFE in between.                      *)
(*                                                                         *)
(* The sampling period is the unit of time.  The schedule interpolates in  *)
(* parts of ErrorRange, so gains and torques are in parts of it too.       *)
(***************************************************************************)
EXTENDS ControlCycle

CONSTANTS
    Errors,        \* attitude errors: setpoint - feedback on the axis
    Feedback,      \* torque of the direct rate feedback
    Nominal,       \* nominal_pid: [kp, ki, kd]
    LargeErrorPid, \* large_error_pid: [kp, kd], its ki is not used
    SmallError,    \* small_error_threshold
    LargeError,    \* large_error_threshold
    Limit,         \* limit of the output
    AntiWindup     \* anti_windup_limit

ErrorRange == LargeError - SmallError

ASSUME PidAssumption ==
    /\ Steps = {1}
    /\ Errors \subseteq Int
    /\ Feedback \subseteq Int
    /\ Nominal \in [kp: Nat, ki: Nat, kd: Nat]
    /\ LargeErrorPid \in [kp: Nat, kd: Nat]
    /\ SmallError \in Nat /\ LargeError \in Nat
    /\ SmallError < LargeError
    /\ Limit \in Nat
    /\ AntiWindup \in Nat \ {0}
    /\ Nominal.ki # 0 => AntiWindup % (ErrorRange * Nominal.ki) = 0
    /\ \A out \in -Limit..Limit, f \in Feedback : out + f \in Demands

VARIABLE pid  \* [integral, last, first]: integral_, last_error_, first_run_

pidVars == <<cycleVars, pid>>

PidTypeOK == pid \in [integral: Int, last: Int, first: BOOLEAN]

PidInit ==
    /\ CycleInit
    /\ pid = [integral |-> 0, last |-> 0, first |-> TRUE]

Within(x, limit) == IF x > limit THEN limit ELSE IF x < -limit THEN -limit ELSE x

(***************************************************************************)
(* Gain schedule.                                                          *)
(***************************************************************************)
\* computeGainFactor: 1 for small errors, 0 for large ones.
GainFactor(e) ==
    LET angle == IF e < 0 THEN -e ELSE e
    IN  IF angle <= SmallError THEN ErrorRange
        ELSE IF angle >= LargeError THEN 0
        ELSE LargeError - angle

\* Only kp and kd are scheduled.
Scheduled(e) ==
    LET a == GainFactor(e)
    IN  [kp |-> a * Nominal.kp + (ErrorRange - a) * LargeErrorPid.kp,
         ki |-> ErrorRange * Nominal.ki,
         kd |-> a * Nominal.kd + (ErrorRange - a) * LargeErrorPid.kd]

(***************************************************************************)
(* PID::calculate                                                          *)
(***************************************************************************)
\* Integral term, clamped.
ITerm(integral) == Within(ErrorRange * Nominal.ki * integral, AntiWindup)

DTerm(e) == IF pid.first THEN 0 ELSE Scheduled(e).kd * (e - pid.last)

Output(e) == Within(Scheduled(e).kp * e + ITerm(pid.integral + e) + DTerm(e), Limit)

\* Mutant: the clamped term is not written back.
PidAfterWindsUp(e) ==
    [integral |-> Within(pid.integral + e, 2 * AntiWindup), last |-> e, first |-> FALSE]

\* The integral is set back to what the clamped term stands for, unless the
\* loop has no integral gain.
PidAfter(e) ==
    [integral |-> IF Nominal.ki = 0 THEN pid.integral + e
                  ELSE ITerm(pid.integral + e) \div Scheduled(e).ki,
     last |-> e, first |-> FALSE]

(***************************************************************************)
(* step                                                                    *)
(***************************************************************************)
\* In SAFE the attitude controller is not called.
PidStep(r, dt, e, f, b) ==
    /\ \/ \E obs \in [Wheels -> WheelObservations] : CycleWheels(r, dt, obs, Output(e) + f, b)
       \/ CycleDirect(r, dt, Output(e) + f, b)
    /\ pid' = IF law' = "bdot" THEN pid ELSE PidAfter(e)

PidBetween == CycleBetween /\ UNCHANGED pid

PidNext ==
    \/ \E r \in Rates, dt \in Steps, e \in Errors, f \in Feedback, b \in Fields :
           PidStep(r, dt, e, f, b)
    \/ PidBetween

PidSpec == PidInit /\ [][PidNext]_pidVars

(***************************************************************************)
(* Properties                                                              *)
(***************************************************************************)
\* Anti-windup: an integral term that has reached its limit leaves it in the
\* first pointing step with an error of the other sign, however long the error
\* lasted, and although steps in SAFE and failed allocations, whose torque is
\* thrown away, lie in between.
IntegralUnwinds ==
    [][pid' # pid =>
          /\ ITerm(pid.integral) = AntiWindup /\ pid'.last < 0 => ITerm(pid'.integral) < AntiWindup
          /\ ITerm(pid.integral) = -AntiWindup /\ pid'.last > 0 => ITerm(pid'.integral) > -AntiWindup]_pidVars
=============================================================================
