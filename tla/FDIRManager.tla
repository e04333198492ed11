----------------------------- MODULE FDIRManager -----------------------------
(***************************************************************************)
(* Fault detection, isolation and recovery (fsw/fdir/FDIRManager): the     *)
(* sensor monitors, the primary/backup groups, the reaction wheel monitors *)
(* and the responses, which act on the ModeManager and on the estimator.   *)
(*                                                                         *)
(* Everything runs on the control thread.  The callers interleave: sensor  *)
(* samples arrive one sensor at a time, wheel telemetry for all wheels at  *)
(* once, the control cycle updates the mode, and the ground commands modes *)
(* and reconfigures.                                                       *)
(***************************************************************************)
EXTENDS ModeManager, SensorHealthMonitor, FiniteSets

CONSTANTS
    CriticalSensors,    \* critical_sensors_
    Groups,             \* names of the redundancy groups
    Primary, Backup,    \* [Groups -> Sensors]: arguments of registerRedundantPair
    Wheels,             \* indices of wheel_monitors_
    WheelObservations,  \* classes of wheel telemetry that occur, see below
    StuckLimit,         \* 10 in updateWheels
    DegradedLimit,      \* 15 in updateWheels
    AutoSettings        \* values enableAuto... is called with

ASSUME FDIRAssumption ==
    /\ CriticalSensors \subseteq Sensors
    /\ Primary \in [Groups -> Sensors]
    /\ Backup \in [Groups -> Sensors]
    /\ \A g, h \in Groups : Primary[g] # Backup[h]
    /\ \A g, h \in Groups : g # h => Primary[g] # Primary[h] /\ Backup[g] # Backup[h]
    /\ IsFiniteSet(Wheels)
    /\ WheelObservations \subseteq {"saturated", "idle", "stuck", "weak", "tracking"}
    /\ StuckLimit \in Nat \ {0}
    /\ DegradedLimit \in Nat \ {0}
    /\ AutoSettings \subseteq BOOLEAN

VARIABLES
    groups,  \* redundancy_groups_ (the names primary and backup are constants)
    wheels,  \* wheel_monitors_
    mekf,    \* the estimator the manager may reset: "initial" or "running"
    auto     \* auto_mekf_reset_ and auto_mode_transition_

fdirVars == <<mm, monitors, groups, wheels, mekf, auto>>

GroupState == [active: Sensors, spare: BOOLEAN]  \* spare: backup_available

WheelState == [status: HealthStatus, stuck: 0..StuckLimit, degraded: 0..DegradedLimit]

FDIRTypeOK ==
    /\ ModeTypeOK
    /\ MonitorTypeOK
    /\ groups \in [Groups -> GroupState]
    /\ wheels \in [Wheels -> WheelState]
    /\ mekf \in {"initial", "running"}
    /\ auto \in [mekf: BOOLEAN, mode: BOOLEAN]

FreshGroup(g) == [active |-> Primary[g], spare |-> TRUE]

FreshWheel == [status |-> "HEALTHY", stuck |-> 0, degraded |-> 0]

FDIRInit ==
    /\ ModeInit
    /\ MonitorInit
    /\ groups = [g \in Groups |-> FreshGroup(g)]
    /\ wheels = [w \in Wheels |-> FreshWheel]
    /\ mekf = "initial"
    /\ auto = [mekf |-> TRUE, mode |-> TRUE]

(***************************************************************************)
(* Response to a change of a sensor's status (executeResponseActions).     *)
(***************************************************************************)
\* forceModeChange as FDIR calls it: only if automatic transitions are on.
Respond(m, new) == IF auto.mode THEN ForceModeChange(m, new) ELSE m

\* Mutant: only a HEALTHY backup is switched to.
FailsOverToHealthy(s, g) ==
    /\ s = Primary[g] /\ groups[g].active = Primary[g] /\ groups[g].spare
    /\ monitors[Backup[g]].status = "HEALTHY"

FailsOver(s, g) == s = Primary[g] /\ groups[g].active = Primary[g] /\ groups[g].spare

\* A FAILED primary in use hands over to its backup, which is then in use and
\* no longer a spare; the vehicle goes to DEGRADED, from whatever mode.
FailOver(s) ==
    \E g \in Groups :
        /\ FailsOver(s, g)
        /\ groups' = [groups EXCEPT ![g] = [active |-> Backup[g], spare |-> FALSE]]
        /\ mm' = Respond(mm, "DEGRADED")
        /\ UNCHANGED mekf

\* Mutant: a backup that fails is still available.
NoFailOverKeepsSpare(s) ==
    /\ \A g \in Groups : ~FailsOver(s, g)
    /\ groups' = groups
    /\ mekf' = IF auto.mekf /\ s \in CriticalSensors THEN "initial" ELSE mekf
    /\ mm' = IF s \in CriticalSensors THEN Respond(mm, "SAFE") ELSE mm

\* Mutant: a backup that fails is written off and the handler returns.
NoFailOverBackupReturns(s) ==
    /\ \A g \in Groups : ~FailsOver(s, g)
    /\ groups' = [g \in Groups |->
                     IF s = Backup[g] THEN [groups[g] EXCEPT !.spare = FALSE] ELSE groups[g]]
    /\ mekf' = IF auto.mekf /\ s \in CriticalSensors /\ s \notin {Backup[g] : g \in Groups}
               THEN "initial" ELSE mekf
    /\ mm' = IF s \in CriticalSensors /\ s \notin {Backup[g] : g \in Groups}
             THEN Respond(mm, "SAFE") ELSE mm

\* Any other failure: a backup is written off, in use or not, and if the
\* sensor is critical the filter is reset and the vehicle goes to SAFE.
NoFailOver(s) ==
    /\ \A g \in Groups : ~FailsOver(s, g)
    /\ groups' = [g \in Groups |->
                     IF s = Backup[g] THEN [groups[g] EXCEPT !.spare = FALSE] ELSE groups[g]]
    /\ mekf' = IF auto.mekf /\ s \in CriticalSensors THEN "initial" ELSE mekf
    /\ mm' = IF s \in CriticalSensors THEN Respond(mm, "SAFE") ELSE mm

\* Only NOMINAL is left for a degraded sensor.
DegradedResponse ==
    /\ mm' = IF mm.current = "NOMINAL" THEN Respond(mm, "DEGRADED") ELSE mm
    /\ UNCHANGED <<groups, mekf>>

ExecuteResponseActions(s, status) ==
    \/ status = "FAILED" /\ (FailOver(s) \/ NoFailOver(s))
    \/ status = "DEGRADED" /\ DegradedResponse
    \/ status = "HEALTHY" /\ UNCHANGED <<mm, groups, mekf>>

(***************************************************************************)
(* Sensors.                                                                *)
(***************************************************************************)
\* updateSensor: the monitor calls back only when its status changes.
UpdateSensor(s, m) ==
    /\ Sample(s, m)
    /\ \/ /\ monitors'[s].status # monitors[s].status
          /\ ExecuteResponseActions(s, monitors'[s].status)
       \/ /\ monitors'[s].status = monitors[s].status
          /\ UNCHANGED <<mm, groups, mekf>>
    /\ UNCHANGED <<wheels, auto>>

\* registerVector3Sensor, registerGyro, registerMagnetometer: a new monitor
\* replaces the one of that name.
RegisterSensor(s) ==
    /\ monitors' = [monitors EXCEPT ![s] = FreshMonitor]
    /\ UNCHANGED <<mm, groups, wheels, mekf, auto>>

\* The embedder registers a pair while it has not seen either sensor fail
\* (in the tests: before the first sample).
RegisterRedundantPair(g) ==
    /\ monitors[Primary[g]].status # "FAILED"
    /\ monitors[Backup[g]].status # "FAILED"
    /\ groups' = [groups EXCEPT ![g] = FreshGroup(g)]
    /\ UNCHANGED <<mm, monitors, wheels, mekf, auto>>

\* resetAll touches the sensor monitors and nothing else.
ResetAll ==
    /\ monitors' = [s \in Sensors |-> ResetMonitor(monitors[s])]
    /\ UNCHANGED <<mm, groups, wheels, mekf, auto>>

EnableAuto ==
    /\ \E on \in AutoSettings : auto' \in {[auto EXCEPT !.mekf = on], [auto EXCEPT !.mode = on]}
    /\ UNCHANGED <<mm, monitors, groups, wheels, mekf>>

(***************************************************************************)
(* Reaction wheels.  What updateWheels sees of a wheel is one of           *)
(*   saturated   |speed| is at least 95 rad/s                              *)
(*   idle        the expected torque is at most 2e-3 Nm                    *)
(*   stuck       torque expected, acceleration below 5% of expected        *)
(*   weak        between 5% and 50%                                        *)
(*   tracking    50% or more (or exactly 5%)                               *)
(* Which one is the physics' choice: last_speed enters nothing else.       *)
(***************************************************************************)
Bump(n, limit) == IF n + 1 >= limit THEN limit ELSE n + 1

\* Mutant: a weak sample does not clear the stuck count.
WheelAfterStuckKept(wm, obs) ==
    LET stuck    == IF obs = "stuck" THEN Bump(wm.stuck, StuckLimit)
                    ELSE IF obs = "weak" THEN wm.stuck ELSE 0
        degraded == IF obs = "weak" THEN Bump(wm.degraded, DegradedLimit) ELSE 0
    IN  IF obs = "saturated" THEN [wm EXCEPT !.status = "FAILED"]
        ELSE [status |-> IF stuck >= StuckLimit THEN "FAILED"
                         ELSE IF degraded >= DegradedLimit /\ wm.status = "HEALTHY" THEN "DEGRADED"
                         ELSE wm.status,
              stuck |-> stuck, degraded |-> degraded]

\* FAILED is never left, and the counters stand still while saturated.
WheelAfter(wm, obs) ==
    LET stuck    == IF obs = "stuck" THEN Bump(wm.stuck, StuckLimit) ELSE 0
        degraded == IF obs = "weak" THEN Bump(wm.degraded, DegradedLimit) ELSE 0
    IN  IF obs = "saturated" THEN [wm EXCEPT !.status = "FAILED"]
        ELSE [status |-> IF stuck >= StuckLimit THEN "FAILED"
                         ELSE IF degraded >= DegradedLimit /\ wm.status = "HEALTHY" THEN "DEGRADED"
                         ELSE wm.status,
              stuck |-> stuck, degraded |-> degraded]

WheelsAfter(obs) == [w \in Wheels |-> WheelAfter(wheels[w], obs[w])]

FailedWheels(ws) == {w \in Wheels : ws[w].status = "FAILED"}

\* Mutant: SAFE is for more than two failed wheels.
WheelResponseLate(m, before, after) ==
    LET n == Cardinality(FailedWheels(after))
    IN  IF n = Cardinality(FailedWheels(before)) THEN m
        ELSE IF n = 1 THEN Respond(m, "DEGRADED")
        ELSE IF n > 2 THEN Respond(m, "SAFE")
        ELSE m

\* The mode changes when the number of failed wheels does: one failed wheel
\* gives DEGRADED (from SAFE too), two or more give SAFE.
WheelResponse(m, before, after) ==
    LET n == Cardinality(FailedWheels(after))
    IN  IF n = Cardinality(FailedWheels(before)) THEN m
        ELSE IF n = 1 THEN Respond(m, "DEGRADED")
        ELSE IF n >= 2 THEN Respond(m, "SAFE")
        ELSE m

UpdateWheels(obs) ==
    /\ wheels' = WheelsAfter(obs)
    /\ mm' = WheelResponse(mm, wheels, wheels')
    /\ UNCHANGED <<monitors, groups, mekf, auto>>

(***************************************************************************)
(* The other components, as far as this one notices them.                  *)
(***************************************************************************)
\* One control cycle: the estimator runs and the mode is updated.
ControlCycle(rate, dt) ==
    /\ Cycle(rate, dt)
    /\ mekf' = "running"
    /\ UNCHANGED <<monitors, groups, wheels, auto>>

GroundCommand(new) ==
    /\ Command(new)
    /\ UNCHANGED <<monitors, groups, wheels, mekf, auto>>

\* What feeds FDIR, and the operator's reset.
SensorCalls ==
    \/ \E s \in Sensors, m \in Measurements : UpdateSensor(s, m)
    \/ ResetAll

\* What the embedder configures, at set-up or later.
SetupCalls ==
    \/ \E s \in Sensors : RegisterSensor(s)
    \/ \E g \in Groups : RegisterRedundantPair(g)
    \/ EnableAuto

Unattended ==
    \/ SensorCalls
    \/ \E obs \in [Wheels -> WheelObservations] : UpdateWheels(obs)
    \/ \E rate \in Rates, dt \in Steps : ControlCycle(rate, dt)

FDIRNext ==
    \/ Unattended
    \/ SetupCalls
    \/ \E new \in MissionMode : GroundCommand(new)

FDIRSpec == FDIRInit /\ [][FDIRNext]_fdirVars

(***************************************************************************)
(* Properties                                                              *)
(***************************************************************************)
Status(s) == monitors[s].status

\* The sensor the group reports as active (getActiveSensor) has failed.
Lost(g) == Status(groups[g].active) = "FAILED"

\* backup_available never advertises a backup that is FAILED or already in
\* use, in whatever order the two sensors fail, recover and are reset: the
\* flag is cleared by the edge that fails the backup, and recovery does not
\* set it again.
SpareIsUsable ==
    \A g \in Groups :
        groups[g].spare => groups[g].active = Primary[g] /\ Status(Backup[g]) # "FAILED"

\* A group goes on using a FAILED sensor only when it has no spare left: no
\* failure edge of an active primary is missed by executeResponseActions.
LostOnlyWithoutSpare ==
    \A g \in Groups : Lost(g) => ~groups[g].spare

\* In this step no sensor in use of a critical group becomes FAILED, or the
\* vehicle is then in SAFE and the filter reset.
LossIsAnswered ==
    \A g \in Groups :
        /\ ~Lost(g) /\ Lost(g)'
        /\ {Primary[g], Backup[g]} \subseteq CriticalSensors
        => /\ auto.mode => mm'.current = "SAFE"
           /\ auto.mekf => mekf' = "initial"

\* The step in which the sensor in use of a critical group becomes FAILED (on
\* the primary with the backup written off, or on the backup) leaves the
\* vehicle in SAFE and the filter reset.  A failover never counts as such a
\* step: what it switches to is not FAILED.
CriticalLossIsAnswered == [][LossIsAnswered]_fdirVars
==============================================================================
