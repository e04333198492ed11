-------------------------- MODULE MCFlightSoftware --------------------------
(***************************************************************************)
(* UnattendedFlight with the redundant gyro pair registered.               *)
(***************************************************************************)
EXTENDS UnattendedFlight

GyroPrimary == [g \in {"gyro"} |-> "gyro_primary"]
GyroBackup == [g \in {"gyro"} |-> "gyro_backup"]
=============================================================================
