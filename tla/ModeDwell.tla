------------------------------ MODULE ModeDwell ------------------------------
(***************************************************************************)
(* ModeManager with a history variable: sinceAuto is the time that has     *)
(* really elapsed since the last automatic transition (or since start-up), *)
(* measured outside the object and untouched by commands, by FDIR and by   *)
(* reset.  It saturates at MinTimeInMode like the object's own clock.      *)
(***************************************************************************)
EXTENDS ModeManager

VARIABLE sinceAuto

dwellVars == <<mm, sinceAuto>>

DwellTypeOK ==
    /\ ModeTypeOK
    /\ sinceAuto \in 0..MinTimeInMode

Advance(t, dt) == IF t + dt >= MinTimeInMode THEN MinTimeInMode ELSE t + dt

DwellInit ==
    /\ ModeInit
    /\ sinceAuto = 0

DwellCycle(rate, dt) ==
    /\ Cycle(rate, dt)
    /\ sinceAuto' = IF mm'.current # mm.current THEN 0 ELSE Advance(sinceAuto, dt)

DwellOther ==
    /\ \/ \E new \in MissionMode : Command(new)
       \/ \E new \in MissionMode : ForceMode(new)
       \/ Reset
    /\ UNCHANGED sinceAuto

DwellNext ==
    \/ \E rate \in Rates, dt \in Steps : DwellCycle(rate, dt)
    \/ DwellOther

DwellSpec == DwellInit /\ [][DwellNext]_dwellVars

(***************************************************************************)
(* Properties                                                              *)
(***************************************************************************)

\* The object's clock never runs ahead of the real time since the last
\* automatic transition, however commands, overrides and resets interleave
\* with the control cycles: transitionToMode is the only writer of the clock
\* besides update and restarts it on every change of mode.
ClockNeverAhead == mm.time <= sinceAuto

\* A control cycle that changes the mode comes when the minimum time is over.
ChangeIsLate ==
    \A rate \in Rates, dt \in Steps :
        DwellCycle(rate, dt) /\ mm'.current # mm.current => sinceAuto + dt >= MinTimeInMode

\* "min_time_in_mode - prevent rapid switching" (ModeManager.hpp): two
\* automatic transitions are at least MinTimeInMode of real time apart, even
\* when the ground or FDIR moves the machine back and forth in between.
AutomaticTransitionsApart == [][ChangeIsLate]_dwellVars
==============================================================================
