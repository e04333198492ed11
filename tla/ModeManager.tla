---------------------------- MODULE ModeManager ----------------------------
(***************************************************************************)
(* The mission mode machine (fsw/core/ModeManager).  One variable, mm, is  *)
(* the ModeManager object.  The operators over a record m are the class's  *)
(* methods: FDIRManager and FlightSoftware call several of them within one *)
(* control cycle, so they are functions from object to object; the actions *)
(* at the end are the calls other components make.                         *)
(*                                                                         *)
(* Rates and times are natural numbers in units of the reader's choice:    *)
(* the code only compares them with the thresholds of its configuration.   *)
(* The callback of transitionToMode is the embedder's and keeps no state   *)
(* of this class.                                                          *)
(***************************************************************************)
EXTENDS Naturals

CONSTANTS
    SafeToNominalRate,  \* safe_to_nominal_rate_threshold
    NominalToSafeRate,  \* nominal_to_safe_rate_threshold
    MinTimeInMode,      \* min_time_in_mode
    Rates,              \* norms of the angular velocity that update may see
    Steps               \* sampling periods dt that update may be given

ASSUME ModeAssumption ==
    /\ SafeToNominalRate \in Nat
    /\ NominalToSafeRate \in Nat
    /\ MinTimeInMode \in Nat
    /\ Rates \subseteq Nat
    /\ Steps \subseteq Nat

VARIABLE mm  \* [current, previous, time]: current_mode_, previous_mode_, time_in_current_mode_

MissionMode == {"SAFE", "NOMINAL", "SCIENCE", "DOWNLINK", "DEGRADED", "CONTINGENCY"}

\* Mutant: the case label of DEGRADED is missing.
PointingModesHealthy == {"NOMINAL", "SCIENCE", "DOWNLINK"}

\* The modes whose only automatic exit is a high body rate.
PointingModes == {"NOMINAL", "SCIENCE", "DOWNLINK", "DEGRADED"}

ModeState == [current: MissionMode, previous: MissionMode, time: 0..MinTimeInMode]

ModeTypeOK == mm \in ModeState

(***************************************************************************)
(* The methods.                                                            *)
(***************************************************************************)

\* time_in_current_mode_ is only ever compared with min_time_in_mode, so it
\* saturates there.
Elapse(m, dt) ==
    [m EXCEPT !.time = IF @ + dt >= MinTimeInMode THEN MinTimeInMode ELSE @ + dt]

\* Mutant: the minimum time is over one unit early.
CanTransitionEarly(m) == m.time + 1 >= MinTimeInMode

CanTransition(m) == m.time >= MinTimeInMode

\* Mutant: a change of mode does not restart the clock.
TransitionToModeClockRuns(m, new) ==
    IF new = m.current THEN m ELSE [m EXCEPT !.current = new, !.previous = m.current]

TransitionToMode(m, new) ==
    IF new = m.current
    THEN m
    ELSE [current |-> new, previous |-> m.current, time |-> 0]

\* Mutant: the pointing modes are left at low rates.
EvaluateTransitionsFlipped(m, rate) ==
    IF CanTransition(m) /\ m.current = "SAFE" /\ rate < SafeToNominalRate
    THEN TransitionToMode(m, "NOMINAL")
    ELSE IF CanTransition(m) /\ m.current \in PointingModes /\ rate < NominalToSafeRate
    THEN TransitionToMode(m, "SAFE")
    ELSE m

EvaluateTransitions(m, rate) ==
    IF CanTransition(m) /\ m.current = "SAFE" /\ rate < SafeToNominalRate
    THEN TransitionToMode(m, "NOMINAL")
    ELSE IF CanTransition(m) /\ m.current \in PointingModes /\ rate > NominalToSafeRate
    THEN TransitionToMode(m, "SAFE")
    ELSE m

UpdateMode(m, rate, dt) == EvaluateTransitions(Elapse(m, dt), rate)

\* The path of FDIR and of FlightSoftware: bypasses the minimum time.
ForceModeChange(m, new) == TransitionToMode(m, new)

\* The path of the ground: it does not look at the minimum time either.
CommandMode(m, new) == TransitionToMode(m, new)

ResetMode(m) == TransitionToMode(m, "SAFE")

(***************************************************************************)
(* The object on its own: every caller interleaved.                        *)
(***************************************************************************)
ModeInit == mm = [current |-> "SAFE", previous |-> "SAFE", time |-> 0]

Cycle(rate, dt) == mm' = UpdateMode(mm, rate, dt)

Command(new) == mm' = CommandMode(mm, new)

ForceMode(new) == mm' = ForceModeChange(mm, new)

Reset == mm' = ResetMode(mm)

ModeNext ==
    \/ \E rate \in Rates, dt \in Steps : Cycle(rate, dt)
    \/ \E new \in MissionMode : Command(new)
    \/ \E new \in MissionMode : ForceMode(new)
    \/ Reset

ModeSpec == ModeInit /\ [][ModeNext]_mm
============================================================================
