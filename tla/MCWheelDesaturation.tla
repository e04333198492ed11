------------------------ MODULE MCWheelDesaturation ------------------------
(***************************************************************************)
(* Three wheels whose momentum crosses both thresholds with the speed of   *)
(* wheel 1, alone and with a loaded second or third axis.                  *)
(***************************************************************************)
EXTENDS WheelDesaturation

SpeedsMC == {<<0, 3, 0>>, <<0, 0, 4>>}

\* Forward at the limit and backward beyond it.
CommandsMC == {-3, 2}

\* Too weak, along an axis, and across all of them.
FieldsMC == {<<0, 1, 0>>, <<0, 0, 2>>, <<1, -1, 2>>}
=============================================================================
