---------------------------- MODULE ControlCycle ----------------------------
(***************************************************************************)
(* FlightSoftware::step with its two control laws: B-dot in SAFE           *)
(* (fsw/gnc/control/Bdot), the attitude controller with its torque rate    *)
(* limit otherwise (fsw/gnc/control/AttitudeController).  Each law keeps   *)
(* state from its own last call; nothing resets it when the mode changes.  *)
(*                                                                         *)
(* One axis stands for three.  What the PID loops and the rate feedback    *)
(* ask for is an input, like the magnetic field; torques are integers in   *)
(* units in which the B-dot gain over the sampling period is one.          *)
(***************************************************************************)
EXTENDS FlightSoftware

CONSTANTS
    Demands,  \* torque the PID loops and the rate feedback may ask for
    Fields,   \* magnetic field the magnetometer may show
    MaxDelta  \* max_torque_rate * dt

ASSUME CycleAssumption ==
    /\ Demands \subseteq Int
    /\ Fields \subseteq Int
    /\ MaxDelta \in Nat

VARIABLES
    att,     \* last_torque_cmd_ of the attitude controller
    bdot,    \* [first, prev]: first_run_, b_prev_
    torque,  \* last_torque_cmd_ of FlightSoftware: what step returned
    field,   \* history: the magnetic field in the last step
    law      \* history: the law behind torque: "none", "bdot", "pointing", or "cut" to zero

cycleVars == <<fswVars, att, bdot, torque, field, law>>

CycleInit ==
    /\ FSWInit
    /\ att = 0
    /\ bdot = [first |-> TRUE, prev |-> 0]
    /\ torque = 0
    /\ field \in Fields
    /\ law = "none"

(***************************************************************************)
(* The control laws.                                                       *)
(***************************************************************************)
\* Mutant: a fall of the torque is not limited.
RateLimitedRise(d) == IF d - att > MaxDelta THEN att + MaxDelta ELSE d

RateLimited(d) ==
    IF d - att > MaxDelta THEN att + MaxDelta
    ELSE IF att - d > MaxDelta THEN att - MaxDelta
    ELSE d

\* Mutant: the first sample is kept as the reference.
BdotKeepsFirst(b) ==
    /\ torque' = IF bdot.first THEN 0 ELSE bdot.prev - b
    /\ bdot' = IF bdot.first THEN [first |-> FALSE, prev |-> b] ELSE bdot
    /\ law' = "bdot"
    /\ UNCHANGED att

Bdot(b) ==
    /\ torque' = IF bdot.first THEN 0 ELSE bdot.prev - b
    /\ bdot' = [first |-> FALSE, prev |-> b]
    /\ law' = "bdot"
    /\ UNCHANGED att

\* An allocation that fails discards the torque, but the controller remembers
\* it.
Pointing(d, allocated) ==
    /\ att' = RateLimited(d)
    /\ torque' = IF allocated THEN att' ELSE 0
    /\ law' = IF allocated THEN "pointing" ELSE "cut"
    /\ UNCHANGED bdot

\* Guidance and control, for the mode in force in the middle of the step.
Control(mode, allocated, d, b) ==
    /\ \/ mode = "SAFE" /\ Bdot(b)
       \/ mode # "SAFE" /\ Pointing(d, allocated)
    /\ field' = b

(***************************************************************************)
(* step                                                                    *)
(***************************************************************************)
CycleWheels(r, dt, obs, d, b) ==
    LET ws == WheelsAfter(obs)
    IN  /\ StepWheels(r, dt, obs)
        /\ Control(UpdateMode(WheelResponse(mm, wheels, ws), r, dt).current,
                   Allocatable(Wheels \ FailedWheels(ws)), d, b)

CycleDirect(r, dt, d, b) ==
    /\ StepDirect(r, dt)
    /\ Control(UpdateMode(mm, r, dt).current, TRUE, d, b)

CycleStep ==
    \E r \in Rates, dt \in Steps, d \in Demands, b \in Fields :
        \/ \E obs \in [Wheels -> WheelObservations] : CycleWheels(r, dt, obs, d, b)
        \/ CycleDirect(r, dt, d, b)

CycleBetween ==
    /\ FSWSensorCalls \/ FSWSetupCalls \/ FSWGround
    /\ UNCHANGED <<att, bdot, torque, field, law>>

CycleNext == CycleStep \/ CycleBetween

CycleSpec == CycleInit /\ [][CycleNext]_cycleVars

(***************************************************************************)
(* Properties                                                              *)
(***************************************************************************)
\* Between two steps that both point, whatever happens in between, the torque
\* changes by no more than max_torque_rate allows.
PointingTorqueSmooth ==
    [][law = "pointing" /\ law' = "pointing" =>
          torque' - torque \in -MaxDelta..MaxDelta]_cycleVars

\* In two steps in SAFE after each other B-dot sees the change of the field
\* between the two, and nothing older, whatever moved the mode before.
DetumbleSeesLastChange ==
    [][law = "bdot" /\ law' = "bdot" /\ last' # "other" => torque' = field - field']_cycleVars
=============================================================================
