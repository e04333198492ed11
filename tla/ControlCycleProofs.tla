-------------------------- MODULE ControlCycleProofs --------------------------
(***************************************************************************)
(* The control cycle: first the wheels and the mode (FlightSoftware), for  *)
(* every number of wheels that the allocator configuration allows, all     *)
(* thresholds and all sensor set-ups; then the control laws (ControlCycle, *)
(* PidCycle), for all torques, fields and limits.  The whole step implements*)
(* FlightSoftware, so that what is proved there holds here.                *)
(***************************************************************************)
EXTENDS PidCycle, FDIRManagerProofs, FiniteSetTheorems

\* If an allocation is possible, at most one wheel has failed: with two lost,
\* fewer than MinAllocatable are left.
LEMMA AllocatableMeansOneLost ==
    ASSUME NEW F \in SUBSET Wheels, Allocatable(Wheels \ F)
    PROVE  Cardinality(F) <= 1
  <1>1. /\ Cardinality(Wheels) \in Nat
        /\ IsFiniteSet(F) /\ Cardinality(F) \in Nat
    BY FDIRAssumption, FS_Subset, FS_CardinalityType
  <1>2. Cardinality(Wheels \ F) = Cardinality(Wheels) - Cardinality(Wheels \cap F)
    BY FDIRAssumption, FS_Difference
  <1>3. Wheels \cap F = F
    OBVIOUS
  <1> DEFINE w == Cardinality(Wheels)
             f == Cardinality(F)
             h == Cardinality(Wheels \ F)
  <1>4. h = w - f
    BY <1>2, <1>3
  <1>5. h >= MinAllocatable /\ w <= MinAllocatable + 1 /\ MinAllocatable \in Nat
    BY FSWAssumption DEF Allocatable
  <1>6. w \in Nat /\ f \in Nat
    BY <1>1
  <1> HIDE DEF w, f, h
  <1>7. f <= 1
    BY <1>4, <1>5, <1>6
  <1> QED  BY <1>7 DEF f

(***************************************************************************)
(* The inductive invariant.  That of FDIRManager carries over, the two     *)
(* properties of the actuators are inductive next to it.                   *)
(***************************************************************************)
FSWInv == FDIRInv /\ FSWTypeOK /\ FailedWheelsNotDriven /\ LostWheelsEndSafe

\* The constructor establishes it: all wheels healthy, none driven.
LEMMA FSWInvInit == FSWInit => FSWInv
  <1> SUFFICES ASSUME FSWInit PROVE FSWInv
    OBVIOUS
  <1>1. FDIRInv
    BY FDIRInvInit DEF FSWInit
  <1>2. FSWTypeOK
    BY <1>1 DEF FSWInit, FSWTypeOK, FDIRInv, NoTorque
  <1> QED
    BY <1>1, <1>2 DEF FSWInit, FSWInv, FailedWheelsNotDriven, LostWheelsEndSafe, NoTorque

\* step with wheel telemetry.
LEMMA StepWheelsInv ==
    ASSUME FSWInv, NEW r \in Rates, NEW dt \in Steps,
           NEW obs \in [Wheels -> WheelObservations], StepWheels(r, dt, obs)
    PROVE  FSWInv'
  <1> DEFINE ws == WheelsAfter(obs)
             hs == Wheels \ FailedWheels(ws)
             mode == UpdateMode(WheelResponse(mm, wheels, ws), r, dt)
  <1>t. /\ FDIRInv
        /\ mm \in ModeState
        /\ wheels \in [Wheels -> WheelState]
        /\ auto \in [mekf: BOOLEAN, mode: BOOLEAN]
    BY DEF FSWInv, FDIRInv, FDIRTypeOK, ModeTypeOK
  <1>1. ws \in [Wheels -> WheelState]
    BY <1>t, WheelAfterType DEF WheelsAfter
  <1>2. mode \in ModeState
    BY <1>t, ModeAssumption, WheelResponseType, UpdateModeCases
  <1>3. ForceModeChange(mode, "SAFE") \in ModeState /\ ForceModeChange(mode, "SAFE").current = "SAFE"
    BY <1>2, TransitionToModeType DEF ForceModeChange, MissionMode
  <1>4. /\ wheels' = ws
        /\ healthy' = hs
        /\ rate' = r /\ mekf' = "running" /\ last' = "wheels"
        /\ UNCHANGED <<monitors, groups, auto>>
    BY DEF StepWheels
  <1>5. \/ mm' = mode /\ mode.current = "SAFE" /\ rw' = NoTorque
        \/ mm' = mode /\ Allocatable(hs) /\ rw' = Allocated(hs)
        \/ mm' = ForceModeChange(mode, "SAFE") /\ rw' = NoTorque
    BY DEF StepWheels
  <1>6. FDIRInv'
    <2>1. mm' \in ModeState
      BY <1>2, <1>3, <1>5
    <2> QED  BY <1>t, <1>1, <1>4, <2>1, OtherStepInv
  <1>7. FSWTypeOK'
    <2>1. NoTorque \in [sized: BOOLEAN, driven: SUBSET Wheels]
      BY DEF NoTorque
    <2>2. Allocated(hs) \in [sized: BOOLEAN, driven: SUBSET Wheels]
      BY DEF Allocated
    <2>3. rw' \in [sized: BOOLEAN, driven: SUBSET Wheels]
      BY <1>5, <2>1, <2>2
    <2> QED  BY <1>4, <1>6, <2>3 DEF FSWTypeOK, FDIRInv
  <1>8. FailedWheelsNotDriven'
    <2>1. rw'.driven \subseteq hs
      BY <1>5 DEF NoTorque, Allocated
    <2> QED  BY <1>4, <2>1 DEF FailedWheelsNotDriven
  <1>9. LostWheelsEndSafe'
    <2> SUFFICES ASSUME Cardinality(FailedWheels(ws)) >= 2
                 PROVE  mm'.current = "SAFE" /\ rw'.driven = {}
      BY <1>4 DEF LostWheelsEndSafe
    <2>1. FailedWheels(ws) \in SUBSET Wheels
      BY DEF FailedWheels
    <2>2. Cardinality(FailedWheels(ws)) \in Nat
      BY <2>1, FDIRAssumption, FS_Subset, FS_CardinalityType
    <2>3. ~Allocatable(hs)
      BY <2>1, <2>2, AllocatableMeansOneLost
    <2> QED  BY <1>3, <1>5, <2>3 DEF NoTorque
  <1> QED  BY <1>6, <1>7, <1>8, <1>9 DEF FSWInv

\* step without wheel telemetry drives nothing and changes no verdict.
LEMMA StepDirectInv ==
    ASSUME FSWInv, NEW r \in Rates, NEW dt \in Steps, StepDirect(r, dt)
    PROVE  FSWInv'
  <1>t. /\ FDIRInv
        /\ mm \in ModeState
        /\ wheels \in [Wheels -> WheelState]
        /\ auto \in [mekf: BOOLEAN, mode: BOOLEAN]
    BY DEF FSWInv, FDIRInv, FDIRTypeOK, ModeTypeOK
  <1>1. mm' \in ModeState
    BY <1>t, ModeAssumption, UpdateModeCases DEF StepDirect
  <1>2. /\ rw' \in [sized: BOOLEAN, driven: {{}}]
        /\ rate' = r /\ mekf' = "running" /\ last' = "direct"
        /\ UNCHANGED <<monitors, groups, wheels, auto, healthy>>
    BY DEF StepDirect, NoTorque
  <1>3. FDIRInv'
    BY <1>t, <1>1, <1>2, OtherStepInv
  <1>4. FSWTypeOK'
    BY <1>2, <1>3 DEF FSWInv, FSWTypeOK, FDIRInv
  <1> QED
    BY <1>2, <1>3, <1>4 DEF FSWInv, FailedWheelsNotDriven, LostWheelsEndSafe

\* What happens between two steps leaves the wheels' verdicts and the torques
\* alone.
LEMMA BetweenStepsInv ==
    ASSUME FSWInv, FSWSensorCalls \/ FSWSetupCalls \/ FSWGround
    PROVE  FSWInv'
  <1>1. FDIRInv
    BY DEF FSWInv
  <1>2. FDIRNext
    BY DEF FSWSensorCalls, FSWSetupCalls, FSWGround, FDIRNext, Unattended
  <1>3. FDIRInv'
    BY <1>1, <1>2, FDIRInvNext
  <1>4. last' = "other" /\ UNCHANGED <<rate, healthy, rw, wheels>>
    BY DEF FSWSensorCalls, FSWSetupCalls, FSWGround, SensorCalls, SetupCalls, UpdateSensor, ResetAll,
           RegisterSensor, RegisterRedundantPair, EnableAuto, GroundCommand
  <1>5. FSWTypeOK'
    BY <1>3, <1>4 DEF FSWInv, FSWTypeOK, FDIRInv
  <1> QED
    BY <1>3, <1>4, <1>5 DEF FSWInv, FailedWheelsNotDriven, LostWheelsEndSafe, FailedWheels

\* Every step of the composition preserves the invariant.
LEMMA FSWInvNext == FSWInv /\ [FSWNext]_fswVars => FSWInv'
  <1> SUFFICES ASSUME FSWInv, [FSWNext]_fswVars PROVE FSWInv'
    OBVIOUS
  <1>1. CASE Step
    BY <1>1, StepWheelsInv, StepDirectInv DEF Step
  <1>2. CASE FSWSensorCalls \/ FSWSetupCalls \/ FSWGround
    BY <1>2, BetweenStepsInv
  <1>3. CASE UNCHANGED fswVars
    <2>1. FDIRInv'
      BY <1>3, FDIRInvNext DEF fswVars, fdirVars, FSWInv
    <2> QED
      BY <1>3, <2>1 DEF fswVars, fdirVars, FSWInv, FSWTypeOK, FDIRInv, FailedWheelsNotDriven,
         LostWheelsEndSafe, FailedWheels
  <1> QED  BY <1>1, <1>2, <1>3 DEF FSWNext

\* No wheel with a FAILED verdict is driven, and with two lost every step with
\* telemetry ends in SAFE with all wheels at zero (FlightSoftware::step), for
\* any embedding: sensors, resets, reconfigurations and ground commands at any
\* time between two steps.
THEOREM ActuatorsCorrect ==
    FSWSpec => [](FSWTypeOK /\ FailedWheelsNotDriven /\ LostWheelsEndSafe)
  <1>1. FSWSpec => []FSWInv
    BY FSWInvInit, FSWInvNext, PTL DEF FSWSpec
  <1> QED  BY <1>1, PTL DEF FSWInv

\* The redundancy guarantees of FDIRManager hold in the composition too.
THEOREM RedundancyInFlight == FSWSpec => [](SpareIsUsable /\ LostOnlyWithoutSpare)
  <1>1. FSWSpec => []FSWInv
    BY FSWInvInit, FSWInvNext, PTL DEF FSWSpec
  <1> QED  BY <1>1, PTL DEF FSWInv, FDIRInv

-----------------------------------------------------------------------------
(***************************************************************************)
(* The control laws.                                                       *)
(***************************************************************************)
\* What the state of the law that ran last has to do with the last step.  The
\* other law's state may be older: nothing is claimed about it.
LawState ==
    /\ att \in Int /\ torque \in Int /\ field \in Int
    /\ bdot \in [first: BOOLEAN, prev: Int]
    /\ law = "pointing" => torque = att
    /\ law = "bdot" => ~bdot.first /\ bdot.prev = field

\* applyRateLimiting stays within MaxDelta of the last torque, whatever is demanded.
LEMMA RateLimitedBound ==
    ASSUME att \in Int, NEW d \in Int
    PROVE  RateLimited(d) \in Int /\ RateLimited(d) - att \in -MaxDelta..MaxDelta
  BY CycleAssumption DEF RateLimited

\* One run of the control laws keeps LawState, changes a torque that points
\* by at most MaxDelta, and answers the last change of the field in SAFE.
LEMMA ControlStep ==
    ASSUME LawState, NEW mode, NEW allocated \in BOOLEAN, NEW d \in Demands, NEW b \in Fields,
           Control(mode, allocated, d, b)
    PROVE  /\ LawState'
           /\ law = "pointing" /\ law' = "pointing" => torque' - torque \in -MaxDelta..MaxDelta
           /\ law = "bdot" /\ law' = "bdot" => torque' = field - field'
  <1>1. d \in Int /\ b \in Int /\ field' = b
    BY CycleAssumption DEF Control
  <1>2. CASE Bdot(b)
    <2>1. /\ torque' = IF bdot.first THEN 0 ELSE bdot.prev - b
          /\ bdot' = [first |-> FALSE, prev |-> b]
          /\ law' = "bdot" /\ att' = att
      BY <1>2 DEF Bdot
    <2>2. torque' \in Int
      BY <1>1, <2>1 DEF LawState
    <2>3. LawState'
      BY <1>1, <2>1, <2>2 DEF LawState
    <2>4. law = "bdot" => torque' = field - field'
      BY <1>1, <2>1 DEF LawState
    <2> QED  BY <2>1, <2>3, <2>4
  <1>3. CASE Pointing(d, allocated)
    <2>1. /\ att' = RateLimited(d)
          /\ torque' = IF allocated THEN att' ELSE 0
          /\ law' = IF allocated THEN "pointing" ELSE "cut"
          /\ bdot' = bdot
      BY <1>3 DEF Pointing
    <2>2. att' \in Int /\ att' - att \in -MaxDelta..MaxDelta
      BY <1>1, <2>1, RateLimitedBound DEF LawState
    <2>3. LawState'
      BY <1>1, <2>1, <2>2 DEF LawState
    <2>4. law = "pointing" /\ law' = "pointing" => torque' - torque = att' - att
      BY <2>1 DEF LawState
    <2> QED  BY <2>1, <2>2, <2>3, <2>4
  <1> QED  BY <1>2, <1>3 DEF Control

\* The part of a call of step that is not a control law is a step of
\* FlightSoftware.
LEMMA CycleStepCases ==
    ASSUME CycleStep
    PROVE  /\ Step
           /\ \E mode : \E allocated \in BOOLEAN, d \in Demands, b \in Fields :
                 Control(mode, allocated, d, b)
  <1>1. PICK r \in Rates, dt \in Steps, d \in Demands, b \in Fields :
            \/ \E obs \in [Wheels -> WheelObservations] : CycleWheels(r, dt, obs, d, b)
            \/ CycleDirect(r, dt, d, b)
    BY DEF CycleStep
  <1>2. CASE \E obs \in [Wheels -> WheelObservations] : CycleWheels(r, dt, obs, d, b)
    <2>1. PICK obs \in [Wheels -> WheelObservations] : CycleWheels(r, dt, obs, d, b)
      BY <1>2
    <2>2. Step
      BY <2>1 DEF CycleWheels, Step
    <2> DEFINE hs == Wheels \ FailedWheels(WheelsAfter(obs))
               m == UpdateMode(WheelResponse(mm, wheels, WheelsAfter(obs)), r, dt).current
    <2>3. Control(m, Allocatable(hs), d, b)
      BY <2>1 DEF CycleWheels
    <2>4. Allocatable(hs) \in BOOLEAN
      BY DEF Allocatable
    <2> HIDE DEF m, hs
    <2> QED  BY <2>2, <2>3, <2>4
  <1>3. CASE CycleDirect(r, dt, d, b)
    <2>1. Step
      BY <1>3 DEF CycleDirect, Step
    <2>2. Control(UpdateMode(mm, r, dt).current, TRUE, d, b)
      BY <1>3 DEF CycleDirect
    <2> QED  BY <2>1, <2>2
  <1> QED  BY <1>1, <1>2, <1>3

\* The controllers start with zero torque and no field sample.
LEMMA LawStateInit == CycleInit => LawState
  BY CycleAssumption DEF CycleInit, LawState

\* Calls between two steps leave the control laws alone.
LEMMA LawStateNext == LawState /\ [CycleNext]_cycleVars => LawState'
  <1> SUFFICES ASSUME LawState, [CycleNext]_cycleVars PROVE LawState'
    OBVIOUS
  <1>1. CASE CycleStep
    BY <1>1, CycleStepCases, ControlStep
  <1>2. CASE UNCHANGED <<att, bdot, torque, field, law>>
    BY <1>2 DEF LawState
  <1> QED  BY <1>1, <1>2 DEF CycleNext, CycleBetween, cycleVars

\* Two pointing steps in a row, and two SAFE steps in a row, are consistent
\* (AttitudeController::applyRateLimiting, Bdot::update), whatever is
\* commanded between them.
THEOREM ControlLawsCorrect == CycleSpec => PointingTorqueSmooth /\ DetumbleSeesLastChange
  <1>1. CycleSpec => []LawState
    BY LawStateInit, LawStateNext, PTL DEF CycleSpec
  <1>2. LawState /\ [CycleNext]_cycleVars =>
            [law = "pointing" /\ law' = "pointing" => torque' - torque \in -MaxDelta..MaxDelta]_cycleVars
    <2> SUFFICES ASSUME LawState, CycleNext, law = "pointing", law' = "pointing"
                 PROVE  torque' - torque \in -MaxDelta..MaxDelta
      OBVIOUS
    <2>1. CASE CycleStep
      BY <2>1, CycleStepCases, ControlStep
    <2>2. CASE CycleBetween
      <3>1. torque' = torque /\ torque \in Int
        BY <2>2 DEF CycleBetween, LawState
      <3> QED  BY <3>1, CycleAssumption
    <2> QED  BY <2>1, <2>2 DEF CycleNext
  <1>3. LawState /\ [CycleNext]_cycleVars =>
            [law = "bdot" /\ law' = "bdot" /\ last' # "other" => torque' = field - field']_cycleVars
    <2> SUFFICES ASSUME LawState, CycleNext, law = "bdot", law' = "bdot", last' # "other"
                 PROVE  torque' = field - field'
      OBVIOUS
    <2>1. CASE CycleStep
      BY <2>1, CycleStepCases, ControlStep
    <2>2. CASE CycleBetween
      BY <2>2 DEF CycleBetween, FSWSensorCalls, FSWSetupCalls, FSWGround
    <2> QED  BY <2>1, <2>2 DEF CycleNext
  <1> QED
    BY <1>1, <1>2, <1>3, PTL DEF CycleSpec, PointingTorqueSmooth, DetumbleSeesLastChange

\* The whole step implements the step of FlightSoftware: the control laws read
\* the mode and the allocation and write neither.
THEOREM CycleImplementsFSW == CycleSpec => FSWSpec
  <1>1. CycleInit => FSWInit
    BY DEF CycleInit
  <1>2. [CycleNext]_cycleVars => [FSWNext]_fswVars
    <2> SUFFICES ASSUME [CycleNext]_cycleVars PROVE [FSWNext]_fswVars
      OBVIOUS
    <2>1. CASE CycleStep
      BY <2>1, CycleStepCases DEF FSWNext
    <2>2. CASE CycleBetween
      BY <2>2 DEF CycleBetween, FSWNext
    <2>3. CASE UNCHANGED cycleVars
      BY <2>3 DEF cycleVars
    <2> QED  BY <2>1, <2>2, <2>3 DEF CycleNext
  <1> QED  BY <1>1, <1>2, PTL DEF CycleSpec, FSWSpec

\* So no failed wheel is driven, and lost wheels end in SAFE, in the whole
\* step too.
COROLLARY CycleActuatorsCorrect ==
    CycleSpec => [](FailedWheelsNotDriven /\ LostWheelsEndSafe)
  BY CycleImplementsFSW, ActuatorsCorrect, PTL

(***************************************************************************)
(* The PID loop.                                                           *)
(***************************************************************************)
\* The clamp keeps its limits.
LEMMA WithinLimit ==
    ASSUME NEW x \in Int, NEW limit \in Nat
    PROVE  Within(x, limit) \in -limit..limit
  BY DEF Within

\* The scheduled gains are integers; a loop with an integral gain keeps it.
LEMMA ScheduledGains ==
    ASSUME NEW e \in Errors
    PROVE  /\ Scheduled(e).kp \in Int /\ Scheduled(e).kd \in Int
           /\ Nominal.ki # 0 => Scheduled(e).ki \in Nat \ {0}
  <1>1. e \in Int /\ ErrorRange \in Nat \ {0}
    BY PidAssumption DEF ErrorRange
  <1>2. GainFactor(e) \in Int
    BY <1>1, PidAssumption DEF GainFactor
  <1>3. /\ Nominal.kp \in Int /\ Nominal.kd \in Int /\ Nominal.ki \in Nat
        /\ LargeErrorPid.kp \in Int /\ LargeErrorPid.kd \in Int
    BY PidAssumption
  <1>4. \A x, y \in Int : x * y \in Int /\ x + y \in Int /\ x - y \in Int
    OBVIOUS
  <1>5. Scheduled(e).ki = ErrorRange * Nominal.ki
    BY DEF Scheduled
  <1>6. \A x, y \in Nat \ {0} : x * y \in Nat \ {0}
    OBVIOUS
  <1>7. Scheduled(e).kp = GainFactor(e) * Nominal.kp + (ErrorRange - GainFactor(e)) * LargeErrorPid.kp
    BY DEF Scheduled
  <1>8. Scheduled(e).kd = GainFactor(e) * Nominal.kd + (ErrorRange - GainFactor(e)) * LargeErrorPid.kd
    BY DEF Scheduled
  <1> HIDE DEF Scheduled, GainFactor, ErrorRange
  <1>9. Scheduled(e).kp \in Int
    BY <1>1, <1>2, <1>3, <1>4, <1>7
  <1>10. Scheduled(e).kd \in Int
    BY <1>1, <1>2, <1>3, <1>4, <1>8
  <1> QED
    BY <1>1, <1>3, <1>5, <1>6, <1>9, <1>10

\* A calculation keeps the loop's state well-formed and its output in limits.
LEMMA PidCalculation ==
    ASSUME PidTypeOK, NEW e \in Errors
    PROVE  /\ Output(e) \in -Limit..Limit
           /\ PidAfter(e) \in [integral: Int, last: Int, first: BOOLEAN]
  <1>1. e \in Int /\ pid.integral \in Int /\ pid.last \in Int
    BY PidAssumption DEF PidTypeOK
  <1>2. ITerm(pid.integral + e) \in Int
    <2>1. ErrorRange * Nominal.ki * (pid.integral + e) \in Int
      BY <1>1, PidAssumption DEF ErrorRange
    <2> QED
      BY <2>1, WithinLimit, PidAssumption DEF ITerm
  <1>3. DTerm(e) \in Int
    BY <1>1, ScheduledGains DEF DTerm
  <1>4. Scheduled(e).kp * e + ITerm(pid.integral + e) + DTerm(e) \in Int
    BY <1>1, <1>2, <1>3, ScheduledGains
  <1>5. Output(e) \in -Limit..Limit
    BY <1>4, WithinLimit, PidAssumption DEF Output
  <1>6. Nominal.ki # 0 => ITerm(pid.integral + e) \div Scheduled(e).ki \in Int
    BY <1>2, ScheduledGains
  <1>7. pid.integral + e \in Int
    BY <1>1
  <1> QED
    BY <1>1, <1>5, <1>6, <1>7 DEF PidAfter

\* Every step is one of ControlCycle with a demand within the limits.
LEMMA PidStepImplements == PidTypeOK /\ [PidNext]_pidVars => PidTypeOK' /\ [CycleNext]_cycleVars
  <1> SUFFICES ASSUME PidTypeOK, [PidNext]_pidVars
               PROVE  PidTypeOK' /\ [CycleNext]_cycleVars
    OBVIOUS
  <1>1. ASSUME NEW r \in Rates, NEW dt \in Steps, NEW e \in Errors, NEW f \in Feedback,
               NEW b \in Fields, PidStep(r, dt, e, f, b)
        PROVE  PidTypeOK' /\ CycleNext
    <2>1. Output(e) + f \in Demands
      BY PidCalculation, PidAssumption
    <2>2. CycleStep
      BY <1>1, <2>1 DEF PidStep, CycleStep
    <2>3. PidTypeOK'
      BY <1>1, PidCalculation DEF PidStep, PidTypeOK
    <2> QED
      BY <2>2, <2>3 DEF CycleNext
  <1>2. CASE PidBetween
    BY <1>2 DEF PidBetween, CycleNext, PidTypeOK
  <1>3. CASE UNCHANGED pidVars
    BY <1>3 DEF pidVars, PidTypeOK
  <1> QED
    BY <1>1, <1>2, <1>3 DEF PidNext

\* The step with the controller's own arithmetic implements ControlCycle,
\* where the demand is any torque within the limits: whatever integral and
\* last error the loop has kept over a time in SAFE, and with the gains of the
\* schedule, PID::calculate never asks for more.
THEOREM PidImplementsCycle == PidSpec => CycleSpec
  <1>1. PidInit => CycleInit /\ PidTypeOK
    BY DEF PidInit, PidTypeOK
  <1> QED
    BY <1>1, PidStepImplements, PTL DEF PidSpec, CycleSpec

(***************************************************************************)
(* Anti-windup.  K is the integral gain in the model's units, Q the        *)
(* integral at which the term reaches its limit.                           *)
(***************************************************************************)
K == ErrorRange * Nominal.ki
Q == AntiWindup \div K

\* Multiplication by a positive gain is strictly monotone.
LEMMA TimesMonotone ==
    ASSUME NEW k \in Nat \ {0}, NEW a \in Int, NEW b \in Int, a < b
    PROVE  k * a < k * b
  OBVIOUS

\* The division takes the gain out again.
LEMMA TimesType ==
    ASSUME NEW k \in Nat \ {0}, NEW a \in Int
    PROVE  k * a \in Int /\ k * (-a) = -(k * a) /\ (k * a) \div k = a
  OBVIOUS

\* A number without remainder is its quotient times the divisor.
LEMMA QuotientExact ==
    ASSUME NEW k \in Nat \ {0}, NEW a \in Nat, a % k = 0
    PROVE  a \div k \in Nat /\ a = k * (a \div k)
  OBVIOUS

\* The limit is K times Q.
LEMMA WindupLimit ==
    ASSUME Nominal.ki # 0
    PROVE  /\ K \in Nat \ {0} /\ Q \in Nat
           /\ K * Q = AntiWindup /\ K * (-Q) = -AntiWindup
           /\ AntiWindup \in Nat \ {0}
  <1>1. ErrorRange \in Nat \ {0} /\ Nominal.ki \in Nat \ {0}
    BY PidAssumption DEF ErrorRange
  <1>2. \A x, y \in Nat \ {0} : x * y \in Nat \ {0}
    OBVIOUS
  <1>3. K \in Nat \ {0}
    BY <1>1, <1>2, Zenon DEF K
  <1>4. AntiWindup \in Nat \ {0} /\ AntiWindup % K = 0
    BY PidAssumption DEF K
  <1>5. Q \in Nat /\ AntiWindup = K * Q
    BY <1>3, <1>4, QuotientExact DEF Q
  <1>6. K * (-Q) = -(K * Q)
    BY <1>3, <1>5, TimesType
  <1> QED  BY <1>3, <1>4, <1>5, <1>6

\* Up to Q the clamp lets the term through, and the division gets the integral
\* back; beyond, what is left is Q.
LEMMA ClampedIntegral ==
    ASSUME Nominal.ki # 0, NEW x \in Int
    PROVE  /\ x \in -Q..Q => ITerm(x) = K * x /\ ITerm(x) \div K = x
           /\ x > Q => ITerm(x) = AntiWindup /\ ITerm(x) \div K = Q
           /\ x < -Q => ITerm(x) = -AntiWindup /\ ITerm(x) \div K = -Q
  <1>1. /\ K \in Nat \ {0} /\ Q \in Nat
        /\ K * Q = AntiWindup /\ K * (-Q) = -AntiWindup
        /\ AntiWindup \in Nat \ {0}
    BY WindupLimit
  <1>2. ITerm(x) = Within(K * x, AntiWindup)
    BY DEF ITerm, K
  <1>3. K * x \in Int /\ (K * x) \div K = x
    BY <1>1, TimesType
  <1>4. -Q \in Int /\ (K * Q) \div K = Q /\ (K * (-Q)) \div K = -Q
    BY <1>1, TimesType
  <1>5. ASSUME x \in -Q..Q PROVE ITerm(x) = K * x /\ ITerm(x) \div K = x
    <2>1. x = Q \/ x < Q
      BY <1>1, <1>5
    <2>2. K * x <= AntiWindup
      BY <1>1, <1>3, <2>1, TimesMonotone
    <2>3. x = -Q \/ -Q < x
      BY <1>1, <1>5
    <2>4. -AntiWindup <= K * x
      BY <1>1, <1>3, <1>4, <2>3, TimesMonotone
    <2>5. Within(K * x, AntiWindup) = K * x
      <3> DEFINE p == K * x
      <3>1. p \in Int /\ p <= AntiWindup /\ -AntiWindup <= p /\ AntiWindup \in Nat
        BY <1>1, <1>3, <2>2, <2>4
      <3> HIDE DEF p
      <3>2. Within(p, AntiWindup) = p
        BY <3>1 DEF Within
      <3> QED  BY <3>2 DEF p
    <2> QED  BY <1>2, <1>3, <2>5
  <1>6. ASSUME x > Q PROVE ITerm(x) = AntiWindup /\ ITerm(x) \div K = Q
    <2>1. K * Q < K * x
      BY <1>1, <1>6, TimesMonotone
    <2>2. Within(K * x, AntiWindup) = AntiWindup
      BY <1>1, <1>3, <2>1 DEF Within
    <2> QED  BY <1>1, <1>2, <1>4, <2>2
  <1>7. ASSUME x < -Q PROVE ITerm(x) = -AntiWindup /\ ITerm(x) \div K = -Q
    <2>1. K * x < K * (-Q)
      BY <1>1, <1>4, <1>7, TimesMonotone
    <2>2. Within(K * x, AntiWindup) = -AntiWindup
      BY <1>1, <1>3, <2>1 DEF Within
    <2> QED  BY <1>1, <1>2, <1>4, <2>2
  <1> QED  BY <1>5, <1>6, <1>7

(***************************************************************************)
(* The inductive invariant: the integral is never beyond what the limit of *)
(* its term stands for.                                                    *)
(***************************************************************************)
NotWoundUp == Nominal.ki # 0 => pid.integral \in -Q..Q

\* A calculation leaves the integral within Q, and at Q only if the sum of the
\* integral and the error is not below it.
LEMMA PidAfterWithinQ ==
    ASSUME Nominal.ki # 0, PidTypeOK, NEW e \in Errors
    PROVE  /\ PidAfter(e).integral \in -Q..Q
           /\ pid.integral + e < Q => PidAfter(e).integral < Q
           /\ pid.integral + e > -Q => PidAfter(e).integral > -Q
           /\ PidAfter(e).last = e
  <1>1. pid.integral + e \in Int
    BY PidAssumption DEF PidTypeOK
  <1>2. Q \in Nat /\ Q # 0
    <2>1. K \in Nat \ {0} /\ Q \in Nat /\ K * Q = AntiWindup /\ AntiWindup # 0
      BY WindupLimit
    <2> QED  BY <2>1
  <1>3. PidAfter(e).integral = ITerm(pid.integral + e) \div K /\ PidAfter(e).last = e
    BY DEF PidAfter, Scheduled, K
  <1> DEFINE x == pid.integral + e
  <1>4. /\ x \in -Q..Q => ITerm(x) \div K = x
        /\ x > Q => ITerm(x) \div K = Q
        /\ x < -Q => ITerm(x) \div K = -Q
    BY <1>1, ClampedIntegral
  <1> HIDE DEF x
  <1>5. x \in Int /\ PidAfter(e).integral = ITerm(x) \div K
    BY <1>1, <1>3 DEF x
  <1>6. /\ PidAfter(e).integral \in -Q..Q
        /\ x < Q => PidAfter(e).integral < Q
        /\ x > -Q => PidAfter(e).integral > -Q
    BY <1>2, <1>4, <1>5
  <1> QED  BY <1>3, <1>6 DEF x

\* At the limit of the term the integral is Q, and away from it the term is
\* away from its limit.
LEMMA TermAtLimit ==
    ASSUME Nominal.ki # 0, NEW i \in -Q..Q
    PROVE  /\ ITerm(i) = AntiWindup <=> i = Q
           /\ ITerm(i) = -AntiWindup <=> i = -Q
           /\ ITerm(i) \in -AntiWindup..AntiWindup
  <1>1. /\ K \in Nat \ {0} /\ Q \in Nat
        /\ K * Q = AntiWindup /\ K * (-Q) = -AntiWindup
        /\ AntiWindup \in Nat \ {0}
    BY WindupLimit
  <1>2. i \in Int /\ -Q \in Int
    BY <1>1
  <1>3. ITerm(i) = K * i
    BY <1>2, ClampedIntegral
  <1>4. i < Q => K * i < K * Q
    BY <1>1, <1>2, TimesMonotone
  <1>5. -Q < i => K * (-Q) < K * i
    BY <1>1, <1>2, TimesMonotone
  <1>6. K * i \in Int
    BY <1>1, <1>2, TimesType
  <1> DEFINE p == K * i
  <1>7. /\ i < Q => p < AntiWindup
        /\ i = Q => p = AntiWindup
        /\ -Q < i => -AntiWindup < p
        /\ i = -Q => p = -AntiWindup
        /\ p \in Int /\ ITerm(i) = p
    BY <1>1, <1>3, <1>4, <1>5, <1>6
  <1> HIDE DEF p
  <1>8. (i < Q \/ i = Q) /\ (-Q < i \/ i = -Q)
    BY <1>1
  <1> QED  BY <1>1, <1>7, <1>8

\* Every change of the loop's state is a calculation.
LEMMA PidChanges ==
    ASSUME [PidNext]_pidVars
    PROVE  pid' = pid \/ \E e \in Errors : pid' = PidAfter(e)
  BY DEF PidNext, PidStep, PidBetween, pidVars

\* A calculation, and every other step, keeps the integral from winding up.
LEMMA NotWoundUpNext == PidTypeOK /\ NotWoundUp /\ [PidNext]_pidVars => NotWoundUp'
  <1> SUFFICES ASSUME PidTypeOK, NotWoundUp, [PidNext]_pidVars, Nominal.ki # 0
               PROVE  pid'.integral \in -Q..Q
    BY DEF NotWoundUp
  <1>1. CASE pid' = pid
    BY <1>1 DEF NotWoundUp
  <1>2. CASE \E e \in Errors : pid' = PidAfter(e)
    BY <1>2, PidAfterWithinQ
  <1> QED  BY <1>1, <1>2, PidChanges

\* One step of the loop unwinds a term at its limit.
LEMMA UnwindStep ==
    ASSUME PidTypeOK, NotWoundUp, NEW e \in Errors, pid' = PidAfter(e)
    PROVE  /\ ITerm(pid.integral) = AntiWindup /\ pid'.last < 0 => ITerm(pid'.integral) < AntiWindup
           /\ ITerm(pid.integral) = -AntiWindup /\ pid'.last > 0 => ITerm(pid'.integral) > -AntiWindup
  <1>1. CASE Nominal.ki = 0
    <2>1. ASSUME NEW i \in Int PROVE ITerm(i) = 0
      <3>1. ErrorRange * Nominal.ki * i = 0
        BY <1>1, PidAssumption DEF ErrorRange
      <3> QED  BY <3>1, PidAssumption DEF ITerm, Within
    <2>2. pid.integral \in Int
      BY DEF PidTypeOK
    <2> QED  BY <2>1, <2>2, PidAssumption
  <1>2. CASE Nominal.ki # 0
    <2>1. pid.integral \in -Q..Q /\ Q \in Nat /\ AntiWindup \in Nat \ {0} /\ e \in Int
      BY <1>2, WindupLimit, PidAssumption DEF NotWoundUp
    <2>2. /\ pid'.integral \in -Q..Q
          /\ pid.integral + e < Q => pid'.integral < Q
          /\ pid.integral + e > -Q => pid'.integral > -Q
          /\ pid'.last = e
      BY <1>2, PidAfterWithinQ
    <2>3. /\ ITerm(pid.integral) = AntiWindup => pid.integral = Q
          /\ ITerm(pid.integral) = -AntiWindup => pid.integral = -Q
      BY <1>2, <2>1, TermAtLimit
    <2>4. /\ pid'.integral # Q => ITerm(pid'.integral) # AntiWindup
          /\ pid'.integral # -Q => ITerm(pid'.integral) # -AntiWindup
          /\ ITerm(pid'.integral) \in -AntiWindup..AntiWindup
      BY <1>2, <2>2, TermAtLimit
    <2> QED  BY <2>1, <2>2, <2>3, <2>4
  <1> QED  BY <1>1, <1>2

\* For all gains, limits and errors: an integral term at its limit leaves it in
\* the first calculation with an error of the other sign, although the loop is
\* not reset over SAFE and its torque may have been thrown away.
THEOREM AntiWindupWorks == PidSpec => IntegralUnwinds
  <1>1. PidInit => PidTypeOK /\ NotWoundUp
    BY WindupLimit DEF PidInit, PidTypeOK, NotWoundUp
  <1>2. PidTypeOK /\ [PidNext]_pidVars => PidTypeOK'
    BY PidStepImplements
  <1>3. PidTypeOK /\ NotWoundUp /\ [PidNext]_pidVars
          => [pid' # pid =>
                /\ ITerm(pid.integral) = AntiWindup /\ pid'.last < 0 => ITerm(pid'.integral) < AntiWindup
                /\ ITerm(pid.integral) = -AntiWindup /\ pid'.last > 0
                     => ITerm(pid'.integral) > -AntiWindup]_pidVars
    BY PidChanges, UnwindStep
  <1> QED
    BY <1>1, <1>2, <1>3, NotWoundUpNext, PTL DEF PidSpec, IntegralUnwinds

\* In the whole step, from the mode update over the controller's arithmetic to
\* the allocation, no wheel that FDIR holds FAILED is given a torque.
THEOREM FailedWheelsIdle == PidSpec => []FailedWheelsNotDriven
  <1>1. FailedWheelsNotDriven /\ LostWheelsEndSafe => FailedWheelsNotDriven
    OBVIOUS
  <1> QED
    BY <1>1, PidImplementsCycle, CycleActuatorsCorrect, PTL

\* And a step with telemetry that finds too many wheels lost ends in SAFE.
THEOREM LostWheelsSafe == PidSpec => []LostWheelsEndSafe
  <1>1. FailedWheelsNotDriven /\ LostWheelsEndSafe => LostWheelsEndSafe
    OBVIOUS
  <1> QED
    BY <1>1, PidImplementsCycle, CycleActuatorsCorrect, PTL

\* With the PID arithmetic in place of an arbitrary demand, pointing torques
\* still change by no more than the limit, and B-dot in two SAFE steps in a row
\* sees exactly the change of the field between them.
THEOREM PidLawsCorrect == PidSpec => PointingTorqueSmooth /\ DetumbleSeesLastChange
  BY PidImplementsCycle, ControlLawsCorrect, PTL
===============================================================================
