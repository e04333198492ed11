----------------------------- MODULE MCDownlink -----------------------------
(***************************************************************************)
(* Attitude and health: a pair and a single topic.  The orbit's branch is  *)
(* that of the attitude with other topics.                                 *)
(***************************************************************************)
EXTENDS Downlink

ProductsMC == <<"ATTITUDE", "HEALTH">>
PeriodMC == [p \in {"ATTITUDE", "HEALTH"} |-> IF p = "ATTITUDE" THEN 1 ELSE 2]
MaxMadeMC == [p \in {"ATTITUDE", "HEALTH"} |-> IF p = "ATTITUDE" THEN 5 ELSE 1]
=============================================================================
