--------------------------- MODULE FlightSoftware ---------------------------
(***************************************************************************)
(* The control cycle (fsw/FlightSoftware.cpp, step): wheel FDIR, allocator *)
(* configuration, mode management, control and allocation, composed with   *)
(* FDIRManager, ModeManager and ControlAllocator.  One call of step is one *)
(* action: the class is single-threaded.  Between two calls the embedder   *)
(* reaches the mode and FDIR managers through their accessors.             *)
(*                                                                         *)
(* The torques are abstracted to the set of wheels that may be driven.     *)
(* What step does with telecommands, guidance and telemetry depends on no  *)
(* variable of this module and changes none.                               *)
(***************************************************************************)
EXTENDS FDIRManager

CONSTANTS
    MinAllocatable  \* healthy wheels needed for a full-rank A * A^T: 3 of 4

ASSUME FSWAssumption ==
    /\ MinAllocatable \in Nat
    /\ Cardinality(Wheels) <= MinAllocatable + 1

VARIABLES
    rate,     \* norm of state_est.w of the last step
    healthy,  \* wheel_healthy_ of the allocator
    rw,       \* last_rw_torque_cmds_: its size (sized) and the wheels driven
    last      \* what happened last: "wheels" or "direct" step, or "other"

fswVars == <<fdirVars, rate, healthy, rw, last>>

FSWTypeOK ==
    /\ FDIRTypeOK
    /\ rate \in Rates
    /\ healthy \subseteq Wheels
    /\ rw \in [sized: BOOLEAN, driven: SUBSET Wheels]
    /\ last \in {"wheels", "direct", "other"}

NoTorque == [sized |-> TRUE, driven |-> {}]  \* assign(4, 0.0)

FSWInit ==
    /\ FDIRInit
    /\ rate \in Rates
    /\ healthy = Wheels
    /\ rw = NoTorque
    /\ last = "other"

(***************************************************************************)
(* ControlAllocator.  Any MinAllocatable of the pyramid's wheels span the  *)
(* three axes, fewer do not.                                               *)
(***************************************************************************)
\* Mutant: the rank test accepts one wheel too few.
AllocatableTooFew(hs) == Cardinality(hs) + 1 >= MinAllocatable

Allocatable(hs) == Cardinality(hs) >= MinAllocatable

\* Mutant: the allocation ignores the wheels' health.
AllocatedToAll(hs) == [sized |-> TRUE, driven |-> Wheels]

Allocated(hs) == [sized |-> TRUE, driven |-> hs]

(***************************************************************************)
(* step with telemetry of all wheels.  If last_rw_torque_cmds_ is empty,   *)
(* updateWheels reads it out of bounds: the torque it sees, and so the     *)
(* class of its observation, is arbitrary, as obs is here in any case.     *)
(***************************************************************************)
StepWheels(r, dt, obs) ==
    LET ws   == WheelsAfter(obs)
        hs   == Wheels \ FailedWheels(ws)
        mode == UpdateMode(WheelResponse(mm, wheels, ws), r, dt)
    IN  /\ dt > 0
        /\ wheels' = ws
        /\ healthy' = hs
        /\ \/ /\ mode.current = "SAFE"
              /\ mm' = mode
              /\ rw' = NoTorque
           \/ /\ mode.current # "SAFE"
              /\ Allocatable(hs)
              /\ mm' = mode
              /\ rw' = Allocated(hs)
           \/ /\ mode.current # "SAFE"
              /\ ~Allocatable(hs)
              /\ mm' = ForceModeChange(mode, "SAFE")
              /\ rw' = NoTorque
        /\ rate' = r
        /\ mekf' = "running"
        /\ last' = "wheels"
        /\ UNCHANGED <<monitors, groups, auto>>

(***************************************************************************)
(* step without it: three-axis torque, no allocation, and outside SAFE the *)
(* commanded wheel torques are cleared, not zeroed.                        *)
(***************************************************************************)
StepDirect(r, dt) ==
    /\ dt > 0
    /\ mm' = UpdateMode(mm, r, dt)
    /\ rw' = IF mm'.current = "SAFE" THEN NoTorque ELSE [sized |-> FALSE, driven |-> {}]
    /\ rate' = r
    /\ mekf' = "running"
    /\ last' = "direct"
    /\ UNCHANGED <<monitors, groups, wheels, auto, healthy>>

Step ==
    \E r \in Rates, dt \in Steps :
        \/ \E obs \in [Wheels -> WheelObservations] : StepWheels(r, dt, obs)
        \/ StepDirect(r, dt)

(***************************************************************************)
(* Between two steps.                                                      *)
(***************************************************************************)
FSWSensorCalls ==
    /\ SensorCalls
    /\ last' = "other"
    /\ UNCHANGED <<rate, healthy, rw>>

FSWSetupCalls ==
    /\ SetupCalls
    /\ last' = "other"
    /\ UNCHANGED <<rate, healthy, rw>>

FSWGround ==
    /\ \E new \in MissionMode : GroundCommand(new)
    /\ last' = "other"
    /\ UNCHANGED <<rate, healthy, rw>>

FSWNext == Step \/ FSWSensorCalls \/ FSWSetupCalls \/ FSWGround

FSWSpec == FSWInit /\ [][FSWNext]_fswVars

(***************************************************************************)
(* Properties                                                              *)
(***************************************************************************)

\* No wheel that FDIR has declared FAILED is driven, at any time: the verdict,
\* the allocator's copy of it and the torques of the same step agree, and
\* nothing between two steps separates them.
FailedWheelsNotDriven == rw.driven \cap FailedWheels(wheels) = {}

\* With two or more wheels lost no step that has wheel telemetry ends outside
\* SAFE or with a wheel driven, whatever mode the ground, the sensors or the
\* rates ask for: FDIR reacts only to the change of the count, the allocation
\* failure catches every later attempt to point.
LostWheelsEndSafe ==
    last = "wheels" /\ Cardinality(FailedWheels(wheels)) >= 2
        => mm.current = "SAFE" /\ rw.driven = {}
=============================================================================
