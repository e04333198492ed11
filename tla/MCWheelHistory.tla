--------------------------- MODULE MCWheelHistory ---------------------------
(***************************************************************************)
(* Wheels only: no sensor is registered, as in FlightSoftware itself.      *)
(***************************************************************************)
EXTENDS WheelHistory

NoPairs == [g \in {} |-> g]
=============================================================================
