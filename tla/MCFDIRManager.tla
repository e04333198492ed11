--------------------------- MODULE MCFDIRManager ---------------------------
(***************************************************************************)
(* One redundant gyro pair and a magnetometer outside any group, the       *)
(* set-up of fdir_integration_test.cpp.                                    *)
(***************************************************************************)
EXTENDS FDIRManager

MCPrimary == [g \in {"gyro"} |-> "gyro_primary"]
MCBackup == [g \in {"gyro"} |-> "gyro_backup"]
=============================================================================
