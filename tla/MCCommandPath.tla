--------------------------- MODULE MCCommandPath ---------------------------
(***************************************************************************)
(* Two targets and two sets of gains, all of whose components differ.      *)
(***************************************************************************)
EXTENDS CommandPath

MCIdentity == [w |-> 1, x |-> 0, y |-> 0, z |-> 0]
MCTargets == {[w |-> 2, x |-> 3, y |-> 4, z |-> 5], [w |-> 6, x |-> 7, y |-> 8, z |-> 9]}
MCInitialGains == [nominal |-> [kp |-> 100, ki |-> 1, kd |-> 10], large |-> [kp |-> 50, ki |-> 0, kd |-> 20]]
MCGainSets == {[kp |-> 31, ki |-> 32, kd |-> 33], [kp |-> 41, ki |-> 42, kd |-> 43]}
=============================================================================
