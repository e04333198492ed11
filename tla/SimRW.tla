------------------------------- MODULE SimRW -------------------------------
(***************************************************************************)
(* The simulated reaction wheel (sim/models/SimRW) with its fault          *)
(* injection, as an object: the methods are functions from wheel to wheel. *)
(*                                                                         *)
(* Units are chosen so that the inertia and the time step are one: speed,  *)
(* momentum and the torque of one step are then the same kind of integer.  *)
(* An efficiency is given in parts of Full.                                *)
(***************************************************************************)
EXTENDS Integers

CONSTANTS
    MaxTorque,    \* config max_torque
    MaxMomentum,  \* config max_momentum
    Friction,     \* config friction_coeff
    Full          \* efficiency 1.0

\* One step cannot take a wheel from rest beyond its momentum limit.
ASSUME WheelAssumption ==
    /\ MaxTorque \in Nat
    /\ MaxMomentum \in Nat
    /\ MaxTorque <= MaxMomentum
    /\ Friction \in {0, 1}
    /\ Full \in Nat \ {0}

RWFaultType == {"NONE", "STUCK", "SATURATED", "DEGRADED_TORQUE"}

RWState ==
    [speed: Int, torque: -MaxTorque..MaxTorque, dead: BOOLEAN,
     fault: RWFaultType, eff: 0..Full, stuck: Int]

FreshRW(speed) ==
    [speed |-> speed, torque |-> 0, dead |-> FALSE,
     fault |-> "NONE", eff |-> Full, stuck |-> 0]

Clamp(x, limit) == IF x > limit THEN limit ELSE IF x < -limit THEN -limit ELSE x

\* setTorqueCommand; stop is the command 0.
SetTorqueCommand(rw, t) == [rw EXCEPT !.torque = Clamp(t, MaxTorque)]

(***************************************************************************)
(* Fault injection.                                                        *)
(***************************************************************************)
InjectDead(rw) == [rw EXCEPT !.dead = TRUE]

SetEfficiency(rw, e) == [rw EXCEPT !.eff = e]

InjectStuck(rw, speed) == [rw EXCEPT !.fault = "STUCK", !.stuck = speed, !.speed = speed]

InjectSaturated(rw) == [rw EXCEPT !.fault = "SATURATED", !.speed = MaxMomentum]

InjectDegradedTorque(rw, e) == [rw EXCEPT !.fault = "DEGRADED_TORQUE", !.eff = e]

ResetFaults(rw) ==
    [rw EXCEPT !.dead = FALSE, !.fault = "NONE", !.eff = Full, !.stuck = 0]

(***************************************************************************)
(* step                                                                    *)
(***************************************************************************)
AtLimit(rw) == rw.speed >= MaxMomentum \/ -rw.speed >= MaxMomentum

\* Motor torque less friction, with a dead wheel's command already zero.
MotorTorque(rw) ==
    ((IF rw.dead THEN 0 ELSE rw.torque) * rw.eff) \div Full - Friction * rw.speed

\* A wheel with the SATURATED fault is put at its maximum speed first.
HeldSpeed(rw) ==
    IF rw.fault # "SATURATED" THEN rw.speed
    ELSE IF rw.speed >= 0 THEN MaxMomentum ELSE -MaxMomentum

\* Mutant: only a wheel turning forward is kept from accelerating further.
NetTorqueForward(rw) ==
    LET net == MotorTorque(rw)
    IN  IF (AtLimit(rw) \/ rw.fault = "SATURATED") /\ HeldSpeed(rw) > 0 /\ net > 0
        THEN 0 ELSE net

\* At the momentum limit a torque away from zero is cut.
NetTorque(rw) ==
    LET net   == MotorTorque(rw)
        speed == HeldSpeed(rw)
    IN  IF /\ AtLimit(rw) \/ rw.fault = "SATURATED"
           /\ (speed > 0 /\ net > 0) \/ (speed < 0 /\ net < 0)
        THEN 0 ELSE net

\* Mutant: the body feels the motor's torque, whatever the wheel did with it.
ReactionTorqueMotorOnly(rw) ==
    IF rw.fault = "STUCK" THEN 0
    ELSE -(((IF rw.dead THEN 0 ELSE rw.torque) * rw.eff) \div Full)

\* What step returns: the torque on the body.
ReactionTorque(rw) == IF rw.fault = "STUCK" THEN 0 ELSE -NetTorque(rw)

StepRW(rw) ==
    [rw EXCEPT !.torque = IF rw.dead THEN 0 ELSE @,
               !.speed = IF rw.fault = "STUCK" THEN rw.stuck ELSE HeldSpeed(rw) + NetTorque(rw)]
=============================================================================
