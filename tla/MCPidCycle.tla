----------------------------- MODULE MCPidCycle -----------------------------
(***************************************************************************)
(* Two wheels of which one is enough, so that a step can point with one    *)
(* wheel lost, without wheel telemetry, and fail to allocate.  The real    *)
(* pyramid needs three of four, which ControlAllocator's assumptions show. *)
(***************************************************************************)
EXTENDS PidCycle, ControlAllocator

NoPairs == [g \in {} |-> g]
ErrorsMC == {-1, 2}
DemandsMC == -3..3
FeedbackMC == {0}
NominalMC == [kp |-> 1, ki |-> 1, kd |-> 1]
LargeErrorMC == [kp |-> 1, kd |-> 2]
=============================================================================
