-------------------------- MODULE FDIRManagerProofs --------------------------
(***************************************************************************)
(* The mode manager and FDIRManager, which commands it, proved for every   *)
(* configuration of the modes, every set of sensors and groups, all        *)
(* thresholds and any number of wheels.                                    *)
(***************************************************************************)
EXTENDS WheelHistory, ModeDwell, FiniteSetTheorems, TLAPS

(***************************************************************************)
(* The methods of ModeManager, and the minimum time in a mode (ModeDwell). *)
(***************************************************************************)

\* transitionToMode yields a well-formed object, in the mode asked for.
LEMMA TransitionToModeType ==
    ASSUME NEW m \in ModeState, NEW new \in MissionMode
    PROVE  /\ TransitionToMode(m, new) \in ModeState
           /\ TransitionToMode(m, new).current = new
  BY ModeAssumption DEF ModeState, TransitionToMode

\* The clock only accumulates: the rest of the object is untouched.
LEMMA ElapseType ==
    ASSUME NEW m \in ModeState, NEW dt \in Nat
    PROVE  /\ Elapse(m, dt) \in ModeState
           /\ Elapse(m, dt).current = m.current
           /\ Elapse(m, dt).time <= m.time + dt
  BY ModeAssumption DEF ModeState, Elapse

\* One update of a well-formed object: it either keeps the mode and the
\* accumulated time, or changes the mode, restarts the clock, and had
\* accumulated the minimum time.
LEMMA UpdateModeCases ==
    ASSUME NEW m \in ModeState, NEW r \in Nat, NEW dt \in Nat
    PROVE  /\ UpdateMode(m, r, dt) \in ModeState
           /\ \/ UpdateMode(m, r, dt) = Elapse(m, dt)
              \/ /\ UpdateMode(m, r, dt).current # m.current
                 /\ UpdateMode(m, r, dt).time = 0
                 /\ m.time + dt >= MinTimeInMode
  <1> DEFINE e == Elapse(m, dt)
  <1>1. e \in ModeState /\ e.current = m.current /\ e.time <= m.time + dt
    BY ElapseType
  <1>2. e.time \in Nat /\ m.time \in Nat
    BY <1>1, ModeAssumption DEF ModeState
  <1>3. CASE CanTransition(e) /\ e.current = "SAFE" /\ r < SafeToNominalRate
    <2>1. UpdateMode(m, r, dt) = TransitionToMode(e, "NOMINAL")
      BY <1>3 DEF UpdateMode, EvaluateTransitions
    <2>2. TransitionToMode(e, "NOMINAL").time = 0
      BY <1>3 DEF TransitionToMode
    <2>3. TransitionToMode(e, "NOMINAL") \in ModeState /\ TransitionToMode(e, "NOMINAL").current = "NOMINAL"
      BY <1>1, TransitionToModeType DEF MissionMode
    <2>4. m.time + dt >= MinTimeInMode
      BY <1>1, <1>2, <1>3, ModeAssumption DEF CanTransition
    <2> QED  BY <1>1, <1>3, <2>1, <2>2, <2>3, <2>4
  <1>4. CASE CanTransition(e) /\ e.current \in PointingModes /\ r > NominalToSafeRate
    <2>1. UpdateMode(m, r, dt) = TransitionToMode(e, "SAFE")
      BY <1>4 DEF UpdateMode, EvaluateTransitions, PointingModes
    <2>2. TransitionToMode(e, "SAFE").time = 0
      BY <1>4 DEF TransitionToMode, PointingModes
    <2>3. TransitionToMode(e, "SAFE") \in ModeState /\ TransitionToMode(e, "SAFE").current = "SAFE"
      BY <1>1, TransitionToModeType DEF MissionMode
    <2>4. m.time + dt >= MinTimeInMode
      BY <1>1, <1>2, <1>4, ModeAssumption DEF CanTransition
    <2> QED  BY <1>1, <1>4, <2>1, <2>2, <2>3, <2>4 DEF PointingModes
  <1>5. CASE /\ ~(CanTransition(e) /\ e.current = "SAFE" /\ r < SafeToNominalRate)
             /\ ~(CanTransition(e) /\ e.current \in PointingModes /\ r > NominalToSafeRate)
    BY <1>1, <1>5 DEF UpdateMode, EvaluateTransitions
  <1> QED  BY <1>3, <1>4, <1>5

(***************************************************************************)
(* The inductive invariant: types, and the object's clock behind the real  *)
(* one.                                                                    *)
(***************************************************************************)
DwellInv == DwellTypeOK /\ ClockNeverAhead

\* ModeManager's constructor establishes it.
LEMMA DwellInvInit == DwellInit => DwellInv
  BY ModeAssumption DEF DwellInit, ModeInit, DwellInv, DwellTypeOK, ModeTypeOK, ModeState,
     MissionMode, ClockNeverAhead

\* Every call preserves it.
LEMMA DwellInvNext == DwellInv /\ [DwellNext]_dwellVars => DwellInv'
  <1> SUFFICES ASSUME DwellInv, [DwellNext]_dwellVars PROVE DwellInv'
    OBVIOUS
  <1>t. mm \in ModeState /\ mm.time \in Nat /\ sinceAuto \in Nat /\ sinceAuto <= MinTimeInMode
    BY ModeAssumption DEF DwellInv, DwellTypeOK, ModeTypeOK, ModeState
  <1>1. ASSUME NEW r \in Rates, NEW dt \in Steps, DwellCycle(r, dt)
        PROVE  DwellInv'
    <2>1. r \in Nat /\ dt \in Nat
      BY ModeAssumption
    <2>2. /\ mm' \in ModeState
          /\ \/ mm' = Elapse(mm, dt)
             \/ mm'.current # mm.current /\ mm'.time = 0
      BY <1>1, <1>t, <2>1, UpdateModeCases DEF DwellCycle, Cycle
    <2>3. CASE mm' = Elapse(mm, dt)
      <3>1. mm'.current = mm.current
        BY <1>t, <2>1, <2>3, ElapseType
      <3>2. mm'.time = IF mm.time + dt >= MinTimeInMode THEN MinTimeInMode ELSE mm.time + dt
        BY <1>t, <2>3 DEF Elapse, ModeState
      <3>3. sinceAuto' = IF sinceAuto + dt >= MinTimeInMode THEN MinTimeInMode ELSE sinceAuto + dt
        BY <1>1, <3>1 DEF DwellCycle, Advance
      <3> QED
        BY <1>t, <2>1, <2>2, <3>2, <3>3, ModeAssumption
           DEF DwellInv, DwellTypeOK, ModeTypeOK, ClockNeverAhead
    <2>4. CASE mm'.current # mm.current /\ mm'.time = 0
      <3>1. sinceAuto' = 0
        BY <1>1, <2>4 DEF DwellCycle
      <3> QED
        BY <2>2, <2>4, <3>1, ModeAssumption DEF DwellInv, DwellTypeOK, ModeTypeOK, ClockNeverAhead
    <2> QED  BY <2>2, <2>3, <2>4
  <1>2. ASSUME DwellOther
        PROVE  DwellInv'
    <2>1. PICK new \in MissionMode : mm' = TransitionToMode(mm, new)
      BY <1>2 DEF DwellOther, Command, ForceMode, Reset, CommandMode, ForceModeChange, ResetMode, MissionMode
    <2>2. mm' \in ModeState /\ (mm' = mm \/ mm'.time = 0)
      BY <1>t, <2>1, TransitionToModeType DEF TransitionToMode
    <2>3. sinceAuto' = sinceAuto
      BY <1>2 DEF DwellOther
    <2> QED
      BY <1>t, <2>2, <2>3 DEF DwellInv, DwellTypeOK, ModeTypeOK, ClockNeverAhead
  <1>3. CASE UNCHANGED dwellVars
    BY <1>3 DEF dwellVars, DwellInv, DwellTypeOK, ModeTypeOK, ClockNeverAhead
  <1> QED  BY <1>1, <1>2, <1>3 DEF DwellNext

\* The object stays well-formed and its clock never runs ahead of the time
\* since the last automatic transition, for every configuration.
THEOREM ClockCorrect == DwellSpec => [](DwellTypeOK /\ ClockNeverAhead)
  <1>1. DwellSpec => []DwellInv
    BY DwellInvInit, DwellInvNext, PTL DEF DwellSpec
  <1> QED  BY <1>1, PTL DEF DwellInv

\* min_time_in_mode keeps automatic transitions apart (ModeManager::update),
\* for every value of the thresholds and of the minimum time, whatever is
\* commanded and forced in between.
THEOREM TransitionsApart == DwellSpec => AutomaticTransitionsApart
  <1>1. ASSUME DwellInv,
               NEW r \in Rates, NEW dt \in Steps,
               DwellCycle(r, dt), mm'.current # mm.current
        PROVE  sinceAuto + dt >= MinTimeInMode
    <2>1. mm \in ModeState /\ mm.time \in Nat /\ sinceAuto \in Nat /\ mm.time <= sinceAuto
      BY <1>1, ModeAssumption DEF DwellInv, DwellTypeOK, ModeTypeOK, ModeState, ClockNeverAhead
    <2>2. r \in Nat /\ dt \in Nat
      BY ModeAssumption
    <2>3. mm' = UpdateMode(mm, r, dt)
      BY <1>1 DEF DwellCycle, Cycle
    <2>4. mm' # Elapse(mm, dt)
      BY <1>1, <2>1, <2>2, ElapseType
    <2>5. mm.time + dt >= MinTimeInMode
      BY <2>1, <2>2, <2>3, <2>4, UpdateModeCases
    <2> QED  BY <2>1, <2>2, <2>5, ModeAssumption
  <1>2. DwellInv /\ [DwellNext]_dwellVars => [ChangeIsLate]_dwellVars
    BY <1>1 DEF ChangeIsLate
  <1>3. DwellSpec => []DwellInv
    BY DwellInvInit, DwellInvNext, PTL DEF DwellSpec
  <1> QED  BY <1>2, <1>3, PTL DEF DwellSpec, AutomaticTransitionsApart

(***************************************************************************)
(* What the helpers return.                                                *)
(***************************************************************************)

\* A new sensor monitor is well-formed.
LEMMA FreshMonitorType == FreshMonitor \in MonitorState
  BY MonitorAssumption DEF FreshMonitor, MonitorState, HealthStatus

\* SensorHealthMonitor::reset leaves a well-formed, HEALTHY monitor.
LEMMA ResetMonitorType ==
    ASSUME NEW mon \in MonitorState
    PROVE  ResetMonitor(mon) \in MonitorState /\ ResetMonitor(mon).status = "HEALTHY"
  <1>1. <<>> \in Seq(Measurements) /\ Len(<<>>) <= 1
    OBVIOUS
  <1>2. 0 \in 0..StuckSampleCount
    BY MonitorAssumption
  <1> QED  BY <1>1, <1>2 DEF ResetMonitor, MonitorState, HealthStatus

\* SensorHealthMonitor::update keeps the monitor well-formed.
LEMMA UpdateMonitorType ==
    ASSUME NEW mon \in MonitorState, NEW m \in Measurements
    PROVE  UpdateMonitor(mon, m) \in MonitorState
  <1>1. NewStatus(mon, m) \in HealthStatus
    BY DEF NewStatus, HealthStatus
  <1>2. StuckCount(mon, m) \in 0..StuckSampleCount
    BY MonitorAssumption DEF StuckCount, MonitorState
  <1>3. AddToHistory(mon, m) \in Seq(Measurements) /\ Len(AddToHistory(mon, m)) <= 1
    BY DEF AddToHistory
  <1> QED  BY <1>1, <1>2, <1>3 DEF UpdateMonitor, MonitorState

\* One sample of wheel telemetry keeps the wheel monitor well-formed.
LEMMA WheelAfterType ==
    ASSUME NEW wm \in WheelState, NEW obs
    PROVE  WheelAfter(wm, obs) \in WheelState
  BY FDIRAssumption DEF WheelAfter, Bump, WheelState, HealthStatus

\* A response of FDIR leaves a well-formed mode manager.
LEMMA RespondType ==
    ASSUME NEW m \in ModeState, NEW new \in MissionMode
    PROVE  Respond(m, new) \in ModeState
  BY TransitionToModeType DEF Respond, ForceModeChange

\* So does the response to wheel failures, whatever the counts.
LEMMA WheelResponseType ==
    ASSUME NEW m \in ModeState, NEW before, NEW after
    PROVE  WheelResponse(m, before, after) \in ModeState
  BY RespondType DEF WheelResponse, MissionMode

(***************************************************************************)
(* The inductive invariant: the two redundancy invariants, the types, and  *)
(* that a group uses one of its own two sensors.                           *)
(***************************************************************************)
ActiveInPair == \A g \in Groups : groups[g].active \in {Primary[g], Backup[g]}

FDIRInv == FDIRTypeOK /\ ActiveInPair /\ SpareIsUsable /\ LostOnlyWithoutSpare

\* The constructors and the registrations at set-up establish it.
LEMMA FDIRInvInit == FDIRInit => FDIRInv
  <1> SUFFICES ASSUME FDIRInit PROVE FDIRInv
    OBVIOUS
  <1>1. FDIRTypeOK
    <2>1. ModeTypeOK
      BY ModeAssumption DEF FDIRInit, ModeInit, ModeTypeOK, ModeState, MissionMode
    <2>2. MonitorTypeOK
      BY FreshMonitorType DEF FDIRInit, MonitorInit, MonitorTypeOK
    <2>3. groups \in [Groups -> GroupState]
      BY FDIRAssumption DEF FDIRInit, FreshGroup, GroupState
    <2>4. wheels \in [Wheels -> WheelState]
      BY FDIRAssumption DEF FDIRInit, FreshWheel, WheelState, HealthStatus
    <2> QED  BY <2>1, <2>2, <2>3, <2>4 DEF FDIRTypeOK, FDIRInit
  <1>2. \A s \in Sensors : Status(s) = "HEALTHY"
    BY DEF FDIRInit, MonitorInit, FreshMonitor, Status
  <1>3. \A g \in Groups : groups[g].active = Primary[g] /\ Primary[g] \in Sensors /\ Backup[g] \in Sensors
    BY FDIRAssumption DEF FDIRInit, FreshGroup
  <1> QED
    BY <1>1, <1>2, <1>3 DEF FDIRInv, ActiveInPair, SpareIsUsable, LostOnlyWithoutSpare, Lost

(***************************************************************************)
(* updateSensor.                                                           *)
(***************************************************************************)

\* What a sample may do to the state: only the sampled sensor's monitor moves,
\* and if it ends FAILED without having been so the response is a failover or
\* the one without.
LEMMA UpdateSensorEffect ==
    ASSUME FDIRTypeOK, NEW s \in Sensors, NEW m \in Measurements, UpdateSensor(s, m)
    PROVE  /\ monitors' \in [Sensors -> MonitorState]
           /\ \A t \in Sensors \ {s} : Status(t)' = Status(t)
           /\ \/ Status(s)' = "FAILED" /\ Status(s) # "FAILED" /\ FailOver(s)
              \/ Status(s)' = "FAILED" /\ Status(s) # "FAILED" /\ NoFailOver(s)
              \/ /\ groups' = groups
                 /\ mekf' = mekf
                 /\ mm' \in ModeState
                 /\ Status(s)' # "FAILED" \/ Status(s)' = Status(s)
           /\ wheels' = wheels /\ auto' = auto
  <1>1. monitors \in [Sensors -> MonitorState] /\ mm \in ModeState
    BY DEF FDIRTypeOK, MonitorTypeOK, ModeTypeOK
  <1>2. monitors' = [monitors EXCEPT ![s] = UpdateMonitor(monitors[s], m)]
    BY DEF UpdateSensor, Sample
  <1>3. monitors' \in [Sensors -> MonitorState]
    BY <1>1, <1>2, UpdateMonitorType
  <1>4. \A t \in Sensors \ {s} : Status(t)' = Status(t)
    BY <1>1, <1>2 DEF Status
  <1>5. Respond(mm, "DEGRADED") \in ModeState
    BY <1>1, RespondType DEF MissionMode
  <1>6. CASE Status(s)' = Status(s)
    BY <1>1, <1>3, <1>4, <1>6 DEF UpdateSensor, Status
  <1>7. CASE Status(s)' # Status(s)
    <2>1. ExecuteResponseActions(s, Status(s)')
      BY <1>7 DEF UpdateSensor, Status
    <2> QED
      BY <1>1, <1>3, <1>4, <1>5, <1>7, <2>1 DEF UpdateSensor, ExecuteResponseActions, DegradedResponse
  <1> QED  BY <1>6, <1>7

\* A sample preserves the invariant.
LEMMA UpdateSensorInv ==
    ASSUME FDIRInv, NEW s \in Sensors, NEW m \in Measurements, UpdateSensor(s, m)
    PROVE  FDIRInv'
  <1>t. FDIRTypeOK /\ groups \in [Groups -> GroupState] /\ mm \in ModeState /\ mekf \in {"initial", "running"}
    BY DEF FDIRInv, FDIRTypeOK, ModeTypeOK
  <1>p. \A g \in Groups : Primary[g] \in Sensors /\ Backup[g] \in Sensors /\ Primary[g] # Backup[g]
    BY FDIRAssumption
  <1>e. /\ monitors' \in [Sensors -> MonitorState]
        /\ \A t \in Sensors \ {s} : Status(t)' = Status(t)
        /\ wheels' = wheels /\ auto' = auto
    BY <1>t, UpdateSensorEffect
  <1>1. CASE Status(s)' = "FAILED" /\ Status(s) # "FAILED" /\ FailOver(s)
    <2>1. PICK g \in Groups :
            /\ FailsOver(s, g)
            /\ groups' = [groups EXCEPT ![g] = [active |-> Backup[g], spare |-> FALSE]]
            /\ mm' = Respond(mm, "DEGRADED")
            /\ mekf' = mekf
      BY <1>1 DEF FailOver
    <2>2. groups'[g].active = Backup[g] /\ ~groups'[g].spare
      BY <1>t, <2>1
    <2>3. \A h \in Groups \ {g} : groups'[h] = groups[h] /\ s # Primary[h] /\ s # Backup[h]
      BY <1>t, <2>1, FDIRAssumption DEF FailsOver
    <2>4. groups' \in [Groups -> GroupState]
      BY <1>t, <1>p, <2>1 DEF GroupState
    <2>5. mm' \in ModeState
      BY <1>t, <2>1, RespondType DEF MissionMode
    <2>6. FDIRTypeOK'
      BY <1>t, <1>e, <2>1, <2>4, <2>5 DEF FDIRTypeOK, ModeTypeOK, MonitorTypeOK
    <2>7. ActiveInPair'
      BY <2>2, <2>3 DEF ActiveInPair, FDIRInv
    <2>8. SpareIsUsable'
      BY <1>e, <1>p, <2>2, <2>3 DEF SpareIsUsable, FDIRInv
    <2>9. LostOnlyWithoutSpare'
      <3> SUFFICES ASSUME NEW h \in Groups, Lost(h)', groups'[h].spare PROVE FALSE
        BY DEF LostOnlyWithoutSpare
      <3>1. h # g
        BY <2>2
      <3>2. groups'[h] = groups[h] /\ groups[h].active \in Sensors \ {s}
        BY <1>p, <2>3, <3>1 DEF ActiveInPair, FDIRInv
      <3> QED  BY <1>e, <3>2 DEF LostOnlyWithoutSpare, FDIRInv, Lost, Status
    <2> QED  BY <2>6, <2>7, <2>8, <2>9 DEF FDIRInv
  <1>2. CASE Status(s)' = "FAILED" /\ Status(s) # "FAILED" /\ NoFailOver(s)
    <2>1. \A g \in Groups :
            /\ groups'[g].active = groups[g].active
            /\ groups'[g].spare => groups[g].spare /\ s # Backup[g]
      BY <1>2, <1>t DEF NoFailOver, GroupState
    <2>2. groups' \in [Groups -> GroupState]
      BY <1>2, <1>t DEF NoFailOver, GroupState
    <2>3. mm' \in ModeState /\ mekf' \in {"initial", "running"}
      BY <1>2, <1>t, RespondType DEF NoFailOver, MissionMode
    <2>4. FDIRTypeOK'
      BY <1>t, <1>e, <2>2, <2>3 DEF FDIRTypeOK, ModeTypeOK, MonitorTypeOK
    <2>5. ActiveInPair'
      BY <2>1 DEF ActiveInPair, FDIRInv
    <2>6. \A g \in Groups : groups'[g].spare => s # Primary[g]
      BY <1>2, <2>1 DEF NoFailOver, FailsOver, SpareIsUsable, FDIRInv
    <2>7. SpareIsUsable'
      BY <1>e, <1>p, <2>1 DEF SpareIsUsable, FDIRInv
    <2>8. LostOnlyWithoutSpare'
      <3> SUFFICES ASSUME NEW g \in Groups, Lost(g)', groups'[g].spare PROVE FALSE
        BY DEF LostOnlyWithoutSpare
      <3>1. groups[g].spare /\ groups[g].active = Primary[g] /\ groups'[g].active = Primary[g]
        BY <2>1 DEF SpareIsUsable, FDIRInv
      <3>2. Status(Primary[g])' = Status(Primary[g])
        BY <1>e, <1>p, <2>6
      <3> QED  BY <3>1, <3>2 DEF LostOnlyWithoutSpare, FDIRInv, Lost, Status
    <2> QED  BY <2>4, <2>5, <2>7, <2>8 DEF FDIRInv
  <1>3. CASE /\ groups' = groups
             /\ mekf' = mekf
             /\ mm' \in ModeState
             /\ Status(s)' # "FAILED" \/ Status(s)' = Status(s)
    <2>1. FDIRTypeOK'
      BY <1>t, <1>e, <1>3 DEF FDIRTypeOK, ModeTypeOK, MonitorTypeOK
    <2>2. \A t \in Sensors : Status(t)' = "FAILED" => Status(t) = "FAILED"
      BY <1>e, <1>3
    <2>3. \A g \in Groups : groups[g].active \in Sensors
      BY <1>p DEF ActiveInPair, FDIRInv
    <2> QED
      BY <1>p, <1>3, <2>1, <2>2, <2>3
         DEF FDIRInv, ActiveInPair, SpareIsUsable, LostOnlyWithoutSpare, Lost, Status
  <1> QED  BY <1>t, <1>1, <1>2, <1>3, UpdateSensorEffect
(***************************************************************************)
(* The other calls.                                                        *)
(***************************************************************************)

\* resetAll and a new monitor of a sensor: a status may only become HEALTHY.
LEMMA MonitorsResetInv ==
    ASSUME FDIRInv,
           ResetAll \/ \E s \in Sensors : RegisterSensor(s)
    PROVE  FDIRInv'
  <1>t. monitors \in [Sensors -> MonitorState]
    BY DEF FDIRInv, FDIRTypeOK, MonitorTypeOK
  <1>1. monitors' \in [Sensors -> MonitorState] /\ \A t \in Sensors : Status(t)' \in {"HEALTHY", Status(t)}
    <2>1. CASE ResetAll
      BY <1>t, <2>1, ResetMonitorType DEF ResetAll, Status
    <2>2. ASSUME NEW s \in Sensors, RegisterSensor(s)
          PROVE  monitors' \in [Sensors -> MonitorState] /\ \A t \in Sensors : Status(t)' \in {"HEALTHY", Status(t)}
      <3>1. FreshMonitor \in MonitorState /\ FreshMonitor.status = "HEALTHY"
        BY FreshMonitorType DEF FreshMonitor
      <3>2. monitors' = [monitors EXCEPT ![s] = FreshMonitor]
        BY <2>2 DEF RegisterSensor
      <3> QED  BY <1>t, <3>1, <3>2 DEF Status
    <2> QED  BY <2>1, <2>2
  <1>2. UNCHANGED <<mm, groups, wheels, mekf, auto>>
    BY DEF ResetAll, RegisterSensor
  <1>3. FDIRTypeOK'
    BY <1>1, <1>2 DEF FDIRInv, FDIRTypeOK, ModeTypeOK, MonitorTypeOK
  <1>4. \A g \in Groups : Backup[g] \in Sensors /\ groups[g].active \in Sensors
    BY FDIRAssumption DEF FDIRInv, ActiveInPair
  <1> QED
    BY <1>1, <1>2, <1>3, <1>4
       DEF FDIRInv, ActiveInPair, SpareIsUsable, LostOnlyWithoutSpare, Lost, Status

\* registerRedundantPair starts a group over on a primary that is not FAILED.
LEMMA RegisterPairInv ==
    ASSUME FDIRInv, NEW g \in Groups, RegisterRedundantPair(g)
    PROVE  FDIRInv'
  <1>t. groups \in [Groups -> GroupState]
    BY DEF FDIRInv, FDIRTypeOK
  <1>1. UNCHANGED <<mm, monitors, wheels, mekf, auto>>
    BY DEF RegisterRedundantPair
  <1>2. groups'[g].active = Primary[g] /\ \A h \in Groups \ {g} : groups'[h] = groups[h]
    BY <1>t DEF RegisterRedundantPair, FreshGroup
  <1>3. groups' \in [Groups -> GroupState]
    BY <1>t, FDIRAssumption DEF RegisterRedundantPair, FreshGroup, GroupState
  <1>4. Status(Primary[g]) # "FAILED" /\ Status(Backup[g]) # "FAILED"
    BY DEF RegisterRedundantPair, Status
  <1>5. FDIRTypeOK'
    BY <1>1, <1>3 DEF FDIRInv, FDIRTypeOK, ModeTypeOK, MonitorTypeOK
  <1> QED
    BY <1>1, <1>2, <1>4, <1>5
       DEF FDIRInv, ActiveInPair, SpareIsUsable, LostOnlyWithoutSpare, Lost, Status

\* A step that leaves monitors and groups alone only has to keep the types.
LEMMA OtherStepInv ==
    ASSUME FDIRInv, UNCHANGED <<monitors, groups>>,
           mm' \in ModeState,
           wheels' \in [Wheels -> WheelState],
           mekf' \in {"initial", "running"},
           auto' \in [mekf: BOOLEAN, mode: BOOLEAN]
    PROVE  FDIRInv'
  <1>1. FDIRTypeOK'
    BY DEF FDIRInv, FDIRTypeOK, ModeTypeOK, MonitorTypeOK
  <1> QED
    BY <1>1 DEF FDIRInv, ActiveInPair, SpareIsUsable, LostOnlyWithoutSpare, Lost, Status

\* Every step of the component preserves the invariant.
LEMMA FDIRInvNext == FDIRInv /\ [FDIRNext]_fdirVars => FDIRInv'
  <1> SUFFICES ASSUME FDIRInv, [FDIRNext]_fdirVars PROVE FDIRInv'
    OBVIOUS
  <1>t. /\ mm \in ModeState
        /\ wheels \in [Wheels -> WheelState]
        /\ mekf \in {"initial", "running"}
        /\ auto \in [mekf: BOOLEAN, mode: BOOLEAN]
    BY DEF FDIRInv, FDIRTypeOK, ModeTypeOK
  <1>1. CASE \E s \in Sensors, m \in Measurements : UpdateSensor(s, m)
    BY <1>1, UpdateSensorInv
  <1>2. CASE ResetAll \/ \E s \in Sensors : RegisterSensor(s)
    BY <1>2, MonitorsResetInv
  <1>3. CASE \E g \in Groups : RegisterRedundantPair(g)
    BY <1>3, RegisterPairInv
  <1>4. CASE EnableAuto
    <2>1. auto' \in [mekf: BOOLEAN, mode: BOOLEAN]
      BY <1>t, <1>4, FDIRAssumption DEF EnableAuto
    <2>2. UNCHANGED <<mm, monitors, groups, wheels, mekf>>
      BY <1>4 DEF EnableAuto
    <2> QED  BY <1>t, <2>1, <2>2, OtherStepInv
  <1>5. ASSUME NEW obs, UpdateWheels(obs)
        PROVE  FDIRInv'
    <2>1. wheels' \in [Wheels -> WheelState]
      BY <1>t, <1>5, WheelAfterType DEF UpdateWheels, WheelsAfter
    <2>2. mm' \in ModeState
      BY <1>t, <1>5, WheelResponseType DEF UpdateWheels
    <2>3. UNCHANGED <<monitors, groups, mekf, auto>>
      BY <1>5 DEF UpdateWheels
    <2> QED  BY <1>t, <2>1, <2>2, <2>3, OtherStepInv
  <1>6. ASSUME NEW r \in Rates, NEW dt \in Steps, ControlCycle(r, dt)
        PROVE  FDIRInv'
    <2>1. mm' \in ModeState
      BY <1>t, <1>6, ModeAssumption, UpdateModeCases DEF ControlCycle, Cycle
    <2>2. mekf' = "running" /\ UNCHANGED <<monitors, groups, wheels, auto>>
      BY <1>6 DEF ControlCycle
    <2> QED  BY <1>t, <2>1, <2>2, OtherStepInv
  <1>7. ASSUME NEW new \in MissionMode, GroundCommand(new)
        PROVE  FDIRInv'
    <2>1. mm' \in ModeState
      BY <1>t, <1>7, TransitionToModeType DEF GroundCommand, Command, CommandMode
    <2>2. UNCHANGED <<monitors, groups, wheels, mekf, auto>>
      BY <1>7 DEF GroundCommand
    <2> QED  BY <1>t, <2>1, <2>2, OtherStepInv
  <1>8. CASE UNCHANGED fdirVars
    BY <1>t, <1>8, OtherStepInv DEF fdirVars
  <1> QED
    BY <1>1, <1>2, <1>3, <1>4, <1>5, <1>6, <1>7, <1>8
       DEF FDIRNext, Unattended, SensorCalls, SetupCalls

\* The types, and what the groups advertise: backup_available is true to the
\* sensors, and a FAILED sensor stays in use only when no backup is left.
THEOREM RedundancyCorrect == FDIRSpec => [](FDIRTypeOK /\ SpareIsUsable /\ LostOnlyWithoutSpare)
  <1>1. FDIRSpec => []FDIRInv
    BY FDIRInvInit, FDIRInvNext, PTL DEF FDIRSpec
  <1> QED  BY <1>1, PTL DEF FDIRInv

(***************************************************************************)
(* The loss of a critical group.                                           *)
(***************************************************************************)

\* Only a sample can lose a group, and it is then the one of the sensor in
\* use, taken by the response without failover.
LEMMA LossStep ==
    ASSUME FDIRInv, FDIRNext, NEW g \in Groups, ~Lost(g), Lost(g)'
    PROVE  NoFailOver(groups[g].active)
  <1>t. FDIRTypeOK /\ groups \in [Groups -> GroupState]
    BY DEF FDIRInv, FDIRTypeOK
  <1>p. /\ \A h \in Groups : Primary[h] \in Sensors /\ Backup[h] \in Sensors
        /\ groups[g].active \in Sensors
    BY FDIRAssumption DEF FDIRInv, ActiveInPair
  <1>1. ASSUME NEW s \in Sensors, NEW m \in Measurements, UpdateSensor(s, m)
        PROVE  NoFailOver(groups[g].active)
    <2>e. \A t \in Sensors \ {s} : Status(t)' = Status(t)
      BY <1>t, <1>1, UpdateSensorEffect
    <2>1. CASE FailOver(s)
      <3>1. PICK h \in Groups :
              /\ FailsOver(s, h)
              /\ groups' = [groups EXCEPT ![h] = [active |-> Backup[h], spare |-> FALSE]]
        BY <2>1 DEF FailOver
      <3>2. CASE h = g
        <4>1. groups'[g].active = Backup[g] /\ Backup[g] # s /\ Status(Backup[g]) # "FAILED"
          BY <1>t, <3>1, <3>2, FDIRAssumption DEF FailsOver, SpareIsUsable, FDIRInv
        <4> QED  BY <1>p, <2>e, <4>1 DEF Lost, Status
      <3>3. CASE h # g
        <4>1. groups'[g] = groups[g] /\ groups[g].active # s
          BY <1>t, <3>1, <3>3, FDIRAssumption DEF FailsOver, ActiveInPair, FDIRInv
        <4> QED  BY <1>p, <2>e, <4>1 DEF Lost, Status
      <3> QED  BY <3>2, <3>3
    <2>2. CASE NoFailOver(s)
      <3>1. groups'[g].active = groups[g].active
        BY <1>t, <2>2 DEF NoFailOver, GroupState
      <3>2. groups[g].active = s
        BY <1>p, <2>e, <3>1 DEF Lost, Status
      <3> QED  BY <2>2, <3>2
    <2>3. CASE groups' = groups /\ (Status(s)' # "FAILED" \/ Status(s)' = Status(s))
      BY <1>p, <2>e, <2>3 DEF Lost, Status
    <2> QED  BY <1>t, <1>1, <2>1, <2>2, <2>3, UpdateSensorEffect
  <1>2. CASE ResetAll
    <2>1. monitors \in [Sensors -> MonitorState]
      BY <1>t DEF FDIRTypeOK, MonitorTypeOK
    <2> QED  BY <1>p, <1>2, <2>1, ResetMonitorType DEF ResetAll, Lost, Status
  <1>3. ASSUME NEW s \in Sensors, RegisterSensor(s)
        PROVE  FALSE
    <2>1. monitors \in [Sensors -> MonitorState] /\ FreshMonitor.status = "HEALTHY"
      BY <1>t DEF FDIRTypeOK, MonitorTypeOK, FreshMonitor
    <2> QED  BY <1>p, <1>3, <2>1 DEF RegisterSensor, Lost, Status
  <1>4. ASSUME NEW h \in Groups, RegisterRedundantPair(h)
        PROVE  FALSE
    BY <1>t, <1>4 DEF RegisterRedundantPair, FreshGroup, Lost, Status
  <1>5. CASE UNCHANGED <<monitors, groups>>
    BY <1>5 DEF Lost, Status
  <1> QED
    BY <1>1, <1>2, <1>3, <1>4, <1>5
       DEF FDIRNext, Unattended, SensorCalls, SetupCalls, EnableAuto, UpdateWheels, ControlCycle, GroundCommand

\* Whenever a critical group loses the sensor in use, the same step leaves the
\* vehicle in SAFE and the filter reset (executeResponseActions).
THEOREM LossAnswered == FDIRSpec => CriticalLossIsAnswered
  <1>1. FDIRInv /\ [FDIRNext]_fdirVars => [LossIsAnswered]_fdirVars
    <2> SUFFICES ASSUME FDIRInv, FDIRNext, NEW g \in Groups,
                        ~Lost(g), Lost(g)', {Primary[g], Backup[g]} \subseteq CriticalSensors
                 PROVE  /\ auto.mode => mm'.current = "SAFE"
                        /\ auto.mekf => mekf' = "initial"
      BY DEF LossIsAnswered
    <2>1. NoFailOver(groups[g].active) /\ groups[g].active \in CriticalSensors
      BY LossStep DEF FDIRInv, ActiveInPair
    <2>2. mm \in ModeState
      BY DEF FDIRInv, FDIRTypeOK, ModeTypeOK
    <2>3. TransitionToMode(mm, "SAFE").current = "SAFE"
      BY <2>2, TransitionToModeType DEF MissionMode
    <2> QED  BY <2>1, <2>3 DEF NoFailOver, Respond, ForceModeChange
  <1>2. FDIRSpec => []FDIRInv
    BY FDIRInvInit, FDIRInvNext, PTL DEF FDIRSpec
  <1> QED  BY <1>1, <1>2, PTL DEF FDIRSpec, CriticalLossIsAnswered
-----------------------------------------------------------------------------
(***************************************************************************)
(* The wheel monitors against everything the wheels ever showed.           *)
(***************************************************************************)

\* The last n observations of h are p.
EndsWith(h, p, n) ==
    n <= Len(h) /\ \A j \in (Len(h) - n + 1)..Len(h) : h[j] = p

\* n is the number of observations p at the end of h, up to limit.
Counts(n, limit, p, h) ==
    /\ n \in 0..limit
    /\ EndsWith(h, p, n)
    /\ n < limit => ~EndsWith(h, p, n + 1)

\* What a sequence has at its end after one more observation.
LEMMA EndsWithAppend ==
    ASSUME NEW S, NEW h \in Seq(S), NEW o \in S, NEW p, NEW n \in Nat
    PROVE  /\ EndsWith(Append(h, o), p, n + 1) <=> o = p /\ EndsWith(h, p, n)
           /\ EndsWith(Append(h, o), p, 0)
  <1> DEFINE a == Append(h, o)
             L == Len(h)
  <1>1. /\ L \in Nat /\ Len(a) = L + 1 /\ a[L + 1] = o
        /\ \A j \in 1..L : a[j] = h[j]
    OBVIOUS
  <1> HIDE DEF a, L
  <1>2. EndsWith(a, p, 0)
    BY <1>1 DEF EndsWith
  <1>3. ASSUME EndsWith(a, p, n + 1) PROVE o = p /\ EndsWith(h, p, n)
    <2>1. n <= L /\ \A j \in (L - n + 1)..(L + 1) : a[j] = p
      BY <1>1, <1>3 DEF EndsWith
    <2>2. o = p
      BY <1>1, <2>1
    <2>3. ASSUME NEW j \in (L - n + 1)..L PROVE h[j] = p
      <3>1. j \in 1..L /\ j \in (L - n + 1)..(L + 1)
        BY <1>1, <2>1, <2>3
      <3> QED  BY <1>1, <2>1, <3>1
    <2> QED  BY <2>1, <2>2, <2>3 DEF EndsWith, L
  <1>4. ASSUME o = p, EndsWith(h, p, n) PROVE EndsWith(a, p, n + 1)
    <2>1. n <= L /\ \A j \in (L - n + 1)..L : h[j] = p
      BY <1>4 DEF EndsWith, L
    <2>2. ASSUME NEW j \in (L - n + 1)..(L + 1) PROVE a[j] = p
      <3>1. CASE j = L + 1
        BY <1>1, <1>4, <3>1
      <3>2. CASE j # L + 1
        <4>1. j \in 1..L /\ j \in (L - n + 1)..L
          BY <1>1, <2>1, <2>2, <3>2
        <4> QED  BY <1>1, <2>1, <4>1
      <3> QED  BY <3>1, <3>2
    <2>3. n + 1 <= Len(a) /\ Len(a) - (n + 1) + 1 = L - n + 1
      BY <1>1, <2>1
    <2> QED  BY <1>1, <2>2, <2>3 DEF EndsWith
  <1> QED  BY <1>2, <1>3, <1>4 DEF a

\* A longer run at the end holds the shorter ones.
LEMMA EndsWithLess ==
    ASSUME NEW S, NEW h \in Seq(S), NEW p, NEW n \in Nat, NEW k \in Nat, k <= n, EndsWith(h, p, n)
    PROVE  EndsWith(h, p, k)
  <1>1. Len(h) \in Nat
    OBVIOUS
  <1> QED  BY <1>1 DEF EndsWith

\* A new run of n can only be one that ends with the new observation.
LEMMA HasRunAppend ==
    ASSUME NEW S, NEW h \in Seq(S), NEW o \in S, NEW p, NEW n \in Nat \ {0}
    PROVE  HasRun(Append(h, o), p, n) <=> HasRun(h, p, n) \/ EndsWith(Append(h, o), p, n)
  <1> DEFINE a == Append(h, o)
             L == Len(h)
  <1>1. /\ L \in Nat /\ Len(a) = L + 1
        /\ \A j \in 1..L : a[j] = h[j]
    OBVIOUS
  <1> HIDE DEF a, L
  <1>2. ASSUME HasRun(a, p, n), ~EndsWith(a, p, n) PROVE HasRun(h, p, n)
    <2>1. PICK i \in 1..(L + 1) : i + n - 1 <= L + 1 /\ \A j \in i..(i + n - 1) : a[j] = p
      BY <1>1, <1>2 DEF HasRun
    <2>2. i + n - 1 # L + 1
      <3> SUFFICES ASSUME i + n - 1 = L + 1 PROVE FALSE
        OBVIOUS
      <3>1. Len(a) - n + 1 = i /\ n <= Len(a)
        BY <1>1, <2>1
      <3>2. \A j \in (Len(a) - n + 1)..Len(a) : a[j] = p
        BY <1>1, <2>1, <3>1
      <3> QED  BY <1>2, <3>1, <3>2 DEF EndsWith
    <2>3. i + n - 1 <= L /\ i \in 1..L
      BY <1>1, <2>1, <2>2
    <2>4. \A j \in i..(i + n - 1) : h[j] = p
      BY <1>1, <2>1, <2>3
    <2> QED  BY <2>3, <2>4 DEF HasRun, L
  <1>3. ASSUME HasRun(h, p, n) PROVE HasRun(a, p, n)
    <2>1. PICK i \in 1..L : i + n - 1 <= L /\ \A j \in i..(i + n - 1) : h[j] = p
      BY <1>3 DEF HasRun, L
    <2>2. i \in 1..Len(a) /\ i + n - 1 <= Len(a)
      BY <1>1, <2>1
    <2>3. \A j \in i..(i + n - 1) : a[j] = p
      BY <1>1, <2>1
    <2> QED  BY <2>2, <2>3 DEF HasRun
  <1>4. ASSUME EndsWith(a, p, n) PROVE HasRun(a, p, n)
    <2> DEFINE i == L + 1 - n + 1
    <2>1. i \in 1..Len(a) /\ i + n - 1 = Len(a)
      BY <1>1, <1>4 DEF EndsWith
    <2>2. \A j \in i..Len(a) : a[j] = p
      BY <1>1, <1>4 DEF EndsWith
    <2> HIDE DEF i
    <2> QED  BY <2>1, <2>2 DEF HasRun
  <1> QED  BY <1>2, <1>3, <1>4 DEF a

\* A counter that goes up with p and is cleared by everything else goes on
\* counting, and reaches its limit exactly when a run of that length ends.
LEMMA CountsAppend ==
    ASSUME NEW S, NEW h \in Seq(S), NEW o \in S, NEW p, NEW limit \in Nat \ {0},
           NEW n, Counts(n, limit, p, h),
           NEW c, c = IF o = p THEN Bump(n, limit) ELSE 0
    PROVE  /\ Counts(c, limit, p, Append(h, o))
           /\ EndsWith(Append(h, o), p, limit) <=> c >= limit
  <1> DEFINE a == Append(h, o)
  <1>1. n \in 0..limit /\ EndsWith(h, p, n) /\ (n < limit => ~EndsWith(h, p, n + 1))
    BY DEF Counts
  <1>2. a \in Seq(S)
    OBVIOUS
  <1>3. EndsWith(a, p, 0) /\ \A k \in Nat : EndsWith(a, p, k + 1) <=> o = p /\ EndsWith(h, p, k)
    BY EndsWithAppend
  <1>4. ASSUME NEW k \in Nat, NEW m \in Nat, k <= m, EndsWith(a, p, m) PROVE EndsWith(a, p, k)
    BY <1>2, <1>4, EndsWithLess
  <1> HIDE DEF a
  <1>5. CASE o # p
    <2>1. c = 0
      BY <1>5
    <2>2. ~EndsWith(a, p, 0 + 1)
      BY <1>3, <1>5
    <2>3. ~EndsWith(a, p, limit)
      BY <1>4, <2>2
    <2>4. Counts(0, limit, p, a)
      BY <1>3, <2>2 DEF Counts
    <2>5. ~(c >= limit)
      BY <2>1
    <2> QED  BY <2>1, <2>3, <2>4, <2>5 DEF a
  <1>6. CASE o = p
    <2>1. EndsWith(a, p, n + 1)
      BY <1>1, <1>3, <1>6
    <2>2. CASE n + 1 >= limit
      <3>1. c = limit
        BY <1>6, <2>2 DEF Bump
      <3>2. EndsWith(a, p, limit)
        BY <1>1, <1>4, <2>1, <2>2
      <3> QED  BY <3>1, <3>2 DEF Counts, a
    <2>3. CASE ~(n + 1 >= limit)
      <3>1. c = n + 1 /\ n < limit
        BY <1>1, <1>6, <2>3 DEF Bump
      <3>2. ~EndsWith(a, p, n + 1 + 1)
        BY <1>1, <1>3, <3>1
      <3>3. ~EndsWith(a, p, limit)
        BY <1>1, <1>4, <2>3, <3>2
      <3> QED  BY <1>1, <2>1, <2>3, <3>1, <3>2, <3>3 DEF Counts, a
    <2> QED  BY <2>2, <2>3
  <1> QED  BY <1>5, <1>6
(***************************************************************************)
(* The inductive invariant: the verdict, and what the counters of a wheel  *)
(* that has not failed have counted.  A FAILED wheel's counters may stand  *)
(* still while it is saturated; they matter no more.                       *)
(***************************************************************************)
CountersCount ==
    \A w \in Wheels :
        wheels[w].status # "FAILED" =>
            /\ Counts(wheels[w].stuck, StuckLimit, "stuck", seen[w])
            /\ Counts(wheels[w].degraded, DegradedLimit, "weak", seen[w])

HistoryInv ==
    /\ wheels \in [Wheels -> WheelState]
    /\ seen \in [Wheels -> Seq(WheelObservations)]
    /\ StatusIsVerdict
    /\ CountersCount

\* Nothing seen, nothing counted.
LEMMA HistoryInvInit == HistoryInit => HistoryInv
  <1> SUFFICES ASSUME HistoryInit PROVE HistoryInv
    OBVIOUS
  <1>1. wheels = [w \in Wheels |-> FreshWheel] /\ seen = [w \in Wheels |-> <<>>]
    BY DEF HistoryInit, FDIRInit
  <1>2. wheels \in [Wheels -> WheelState] /\ seen \in [Wheels -> Seq(WheelObservations)]
    BY <1>1, FDIRAssumption DEF FreshWheel, WheelState, HealthStatus
  <1>3. Len(<<>>) = 0
    OBVIOUS
  <1>4. Verdict(<<>>) = "HEALTHY"
    BY <1>3 DEF Verdict, HasRun
  <1>5. \A p, limit : limit \in Nat \ {0} => Counts(0, limit, p, <<>>)
    BY <1>3 DEF Counts, EndsWith
  <1> QED
    BY <1>1, <1>2, <1>4, <1>5, FDIRAssumption DEF HistoryInv, StatusIsVerdict, CountersCount, FreshWheel

\* One sample of one wheel.
LEMMA WheelAfterVerdict ==
    ASSUME NEW wm \in WheelState, NEW h \in Seq(WheelObservations), NEW o \in WheelObservations,
           wm.status = Verdict(h),
           wm.status # "FAILED" =>
               /\ Counts(wm.stuck, StuckLimit, "stuck", h)
               /\ Counts(wm.degraded, DegradedLimit, "weak", h)
    PROVE  /\ WheelAfter(wm, o).status = Verdict(Append(h, o))
           /\ WheelAfter(wm, o).status # "FAILED" =>
                  /\ Counts(WheelAfter(wm, o).stuck, StuckLimit, "stuck", Append(h, o))
                  /\ Counts(WheelAfter(wm, o).degraded, DegradedLimit, "weak", Append(h, o))
  <1> DEFINE a == Append(h, o)
             Saturated(g) == \E i \in 1..Len(g) : g[i] = "saturated"
             s == IF o = "stuck" THEN Bump(wm.stuck, StuckLimit) ELSE 0
             d == IF o = "weak" THEN Bump(wm.degraded, DegradedLimit) ELSE 0
             new == WheelAfter(wm, o)
  <1>a. StuckLimit \in Nat \ {0} /\ DegradedLimit \in Nat \ {0}
    BY FDIRAssumption
  <1>1. Saturated(a) <=> Saturated(h) \/ o = "saturated"
    <2> DEFINE L == Len(h)
    <2>1. L \in Nat /\ Len(a) = L + 1 /\ a[L + 1] = o /\ \A j \in 1..L : a[j] = h[j]
      OBVIOUS
    <2> HIDE DEF a
    <2>2. Saturated(h) => Saturated(a)
      BY <2>1
    <2>3. o = "saturated" => Saturated(a)
      <3>1. L + 1 \in 1..Len(a)
        BY <2>1
      <3> QED  BY <2>1, <3>1
    <2>4. ASSUME Saturated(a), o # "saturated" PROVE Saturated(h)
      <3>1. PICK i \in 1..(L + 1) : a[i] = "saturated"
        BY <2>1, <2>4
      <3>2. i \in 1..L
        BY <2>1, <2>4, <3>1
      <3> QED  BY <2>1, <3>1, <3>2
    <2> QED  BY <2>2, <2>3, <2>4
  <1>2. /\ HasRun(a, "stuck", StuckLimit) <=> HasRun(h, "stuck", StuckLimit) \/ EndsWith(a, "stuck", StuckLimit)
        /\ HasRun(a, "weak", DegradedLimit) <=> HasRun(h, "weak", DegradedLimit) \/ EndsWith(a, "weak", DegradedLimit)
    BY <1>a, HasRunAppend
  <1>3. /\ Verdict(h) = IF Saturated(h) \/ HasRun(h, "stuck", StuckLimit) THEN "FAILED"
                        ELSE IF HasRun(h, "weak", DegradedLimit) THEN "DEGRADED" ELSE "HEALTHY"
        /\ Verdict(a) = IF Saturated(a) \/ HasRun(a, "stuck", StuckLimit) THEN "FAILED"
                        ELSE IF HasRun(a, "weak", DegradedLimit) THEN "DEGRADED" ELSE "HEALTHY"
    BY DEF Verdict
  <1>4. /\ o = "saturated" => new.status = "FAILED"
        /\ o # "saturated" =>
              /\ new.stuck = s /\ new.degraded = d
              /\ new.status = IF s >= StuckLimit THEN "FAILED"
                              ELSE IF d >= DegradedLimit /\ wm.status = "HEALTHY" THEN "DEGRADED"
                              ELSE wm.status
    BY DEF WheelAfter, WheelState
  <1>5. CASE wm.status = "FAILED"
    <2>1. Verdict(a) = "FAILED"
      BY <1>1, <1>2, <1>3, <1>5
    <2>2. new.status = "FAILED"
      BY <1>4, <1>5
    <2> QED  BY <2>1, <2>2
  <1>6. CASE o = "saturated"
    BY <1>1, <1>3, <1>4, <1>6
  <1>7. CASE wm.status # "FAILED" /\ o # "saturated"
    <2>1. /\ Counts(s, StuckLimit, "stuck", a)
          /\ EndsWith(a, "stuck", StuckLimit) <=> s >= StuckLimit
      <3>1. Counts(wm.stuck, StuckLimit, "stuck", h)
        BY <1>7
      <3> QED  BY <1>a, <3>1, CountsAppend
    <2>2. /\ Counts(d, DegradedLimit, "weak", a)
          /\ EndsWith(a, "weak", DegradedLimit) <=> d >= DegradedLimit
      <3>1. Counts(wm.degraded, DegradedLimit, "weak", h)
        BY <1>7
      <3> QED  BY <1>a, <3>1, CountsAppend
    <2> HIDE DEF a, s, d, new, Saturated
    <2>3. new.status = Verdict(a)
      BY <1>1, <1>2, <1>3, <1>4, <1>7, <2>1, <2>2
    <2>4. Counts(new.stuck, StuckLimit, "stuck", a) /\ Counts(new.degraded, DegradedLimit, "weak", a)
      BY <1>4, <1>7, <2>1, <2>2
    <2> QED  BY <2>3, <2>4 DEF a, new
  <1> QED  BY <1>5, <1>6, <1>7

\* A sample of all wheels, and resetAll, preserve it.
LEMMA HistoryInvNext == HistoryInv /\ [HistoryNext]_historyVars => HistoryInv'
  <1> SUFFICES ASSUME HistoryInv, [HistoryNext]_historyVars PROVE HistoryInv'
    OBVIOUS
  <1>t. /\ wheels \in [Wheels -> WheelState]
        /\ seen \in [Wheels -> Seq(WheelObservations)]
        /\ StatusIsVerdict /\ CountersCount
    BY DEF HistoryInv
  <1>1. ASSUME NEW obs \in [Wheels -> WheelObservations], HistoryUpdate(obs) PROVE HistoryInv'
    <2>1. /\ wheels' = [w \in Wheels |-> WheelAfter(wheels[w], obs[w])]
          /\ seen' = [w \in Wheels |-> Append(seen[w], obs[w])]
      BY <1>1 DEF HistoryUpdate, UpdateWheels, WheelsAfter
    <2>2. wheels' \in [Wheels -> WheelState]
      BY <1>t, <2>1, WheelAfterType
    <2>3. seen' \in [Wheels -> Seq(WheelObservations)]
      BY <1>t, <2>1
    <2>4. ASSUME NEW w \in Wheels
          PROVE  /\ wheels'[w].status = Verdict(seen'[w])
                 /\ wheels'[w].status # "FAILED" =>
                        /\ Counts(wheels'[w].stuck, StuckLimit, "stuck", seen'[w])
                        /\ Counts(wheels'[w].degraded, DegradedLimit, "weak", seen'[w])
      <3>1. wheels[w] \in WheelState /\ seen[w] \in Seq(WheelObservations) /\ obs[w] \in WheelObservations
        BY <1>t
      <3>2. /\ wheels[w].status = Verdict(seen[w])
            /\ wheels[w].status # "FAILED" =>
                   /\ Counts(wheels[w].stuck, StuckLimit, "stuck", seen[w])
                   /\ Counts(wheels[w].degraded, DegradedLimit, "weak", seen[w])
        BY <1>t DEF StatusIsVerdict, CountersCount
      <3>3. wheels'[w] = WheelAfter(wheels[w], obs[w]) /\ seen'[w] = Append(seen[w], obs[w])
        BY <2>1
      <3> QED  BY <3>1, <3>2, <3>3, WheelAfterVerdict
    <2> QED  BY <2>2, <2>3, <2>4 DEF HistoryInv, StatusIsVerdict, CountersCount
  <1>2. CASE UNCHANGED <<wheels, seen>>
    BY <1>t, <1>2 DEF HistoryInv, StatusIsVerdict, CountersCount
  <1> QED
    BY <1>1, <1>2 DEF HistoryNext, HistoryReset, ResetAll, historyVars, fdirVars

\* For all limits and any number of wheels and samples, the latched status of a
\* wheel is the verdict on its whole telemetry: the two counters and their
\* resets in updateWheels lose no run and count no sample twice.
THEOREM WheelVerdictExact == HistorySpec => []StatusIsVerdict
  <1>1. HistoryInv => StatusIsVerdict
    BY DEF HistoryInv
  <1> QED  BY <1>1, HistoryInvInit, HistoryInvNext, PTL DEF HistorySpec

(***************************************************************************)
(* The mode.                                                               *)
(***************************************************************************)

\* A wheel that has failed stays failed, so the number of lost wheels grows.
LEMMA FailedWheelsGrow ==
    ASSUME NEW obs, wheels \in [Wheels -> WheelState]
    PROVE  /\ Cardinality(FailedWheels(wheels)) \in Nat
           /\ Cardinality(FailedWheels(WheelsAfter(obs))) \in Nat
           /\ Cardinality(FailedWheels(wheels)) <= Cardinality(FailedWheels(WheelsAfter(obs)))
  <1>1. ASSUME NEW w \in FailedWheels(wheels) PROVE w \in FailedWheels(WheelsAfter(obs))
    BY DEF FailedWheels, WheelsAfter, WheelAfter, WheelState
  <1>2. FailedWheels(wheels) \subseteq FailedWheels(WheelsAfter(obs))
    BY <1>1
  <1>3. FailedWheels(WheelsAfter(obs)) \subseteq Wheels
    BY DEF FailedWheels
  <1>4. IsFiniteSet(FailedWheels(WheelsAfter(obs))) /\ IsFiniteSet(FailedWheels(wheels))
    BY <1>2, <1>3, FDIRAssumption, FS_Subset
  <1> QED  BY <1>2, <1>4, FS_Subset, FS_CardinalityType

ModeInv ==
    /\ wheels \in [Wheels -> WheelState]
    /\ auto.mode = TRUE
    /\ ModeTellsLostWheels

\* No wheel is lost at start-up, when the mode is SAFE.
LEMMA ModeInvInit == HistoryInit => ModeInv
  <1> SUFFICES ASSUME HistoryInit PROVE ModeInv
    OBVIOUS
  <1>1. wheels = [w \in Wheels |-> FreshWheel] /\ auto.mode = TRUE /\ mm.current = "SAFE"
    BY DEF HistoryInit, FDIRInit, ModeInit
  <1>2. FailedWheels(wheels) = {}
    BY <1>1 DEF FailedWheels, FreshWheel
  <1>3. Cardinality({}) = 0
    BY FS_EmptySet
  <1>4. wheels \in [Wheels -> WheelState]
    BY <1>1, FDIRAssumption DEF FreshWheel, WheelState, HealthStatus
  <1> QED  BY <1>1, <1>2, <1>3, <1>4 DEF ModeInv, ModeTellsLostWheels

\* The response to a new failure is chosen from the number of lost wheels.
LEMMA ModeInvNext == ModeInv /\ [HistoryNext]_historyVars => ModeInv'
  <1> SUFFICES ASSUME ModeInv, [HistoryNext]_historyVars PROVE ModeInv'
    OBVIOUS
  <1>t. wheels \in [Wheels -> WheelState] /\ auto.mode = TRUE /\ ModeTellsLostWheels
    BY DEF ModeInv
  <1>1. ASSUME NEW obs \in [Wheels -> WheelObservations], HistoryUpdate(obs) PROVE ModeInv'
    <2> DEFINE n == Cardinality(FailedWheels(wheels))
               k == Cardinality(FailedWheels(WheelsAfter(obs)))
    <2>1. n \in Nat /\ k \in Nat /\ n <= k
      BY <1>t, FailedWheelsGrow
    <2>2. wheels' = WheelsAfter(obs) /\ auto' = auto /\ mm' = WheelResponse(mm, wheels, WheelsAfter(obs))
      BY <1>1 DEF HistoryUpdate, UpdateWheels
    <2>3. wheels' \in [Wheels -> WheelState]
      BY <1>t, <2>2, WheelAfterType DEF WheelsAfter
    <2>4. \A new : Respond(mm, new).current = new
      BY <1>t DEF Respond, ForceModeChange, TransitionToMode
    <2>5. mm' = IF k = n THEN mm
                ELSE IF k = 1 THEN Respond(mm, "DEGRADED")
                ELSE IF k >= 2 THEN Respond(mm, "SAFE")
                ELSE mm
      BY <2>2 DEF WheelResponse
    <2>6. mm.current = IF n = 1 THEN "DEGRADED" ELSE "SAFE"
      BY <1>t DEF ModeTellsLostWheels
    <2>7. Cardinality(FailedWheels(wheels)') = k
      BY <2>2 DEF FailedWheels
    <2> HIDE DEF n, k
    <2>8. mm'.current = IF k = 1 THEN "DEGRADED" ELSE "SAFE"
      BY <2>1, <2>4, <2>5, <2>6
    <2> QED  BY <1>t, <2>2, <2>3, <2>7, <2>8 DEF ModeInv, ModeTellsLostWheels
  <1>2. CASE UNCHANGED <<wheels, mm, auto>>
    BY <1>t, <1>2 DEF ModeInv, ModeTellsLostWheels, FailedWheels
  <1> QED
    BY <1>1, <1>2 DEF HistoryNext, HistoryReset, ResetAll, historyVars, fdirVars

\* For any number of wheels, also when several fail in one sample: as long as
\* only FDIR moves the mode, one lost wheel means DEGRADED and more mean SAFE.
THEOREM ModeFollowsWheels == HistorySpec => []ModeTellsLostWheels
  <1>1. ModeInv => ModeTellsLostWheels
    BY DEF ModeInv
  <1> QED  BY <1>1, ModeInvInit, ModeInvNext, PTL DEF HistorySpec
===============================================================================
