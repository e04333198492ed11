---------------------------- MODULE WheelHistory ----------------------------
(***************************************************************************)
(* The wheel monitors against a definition over the whole telemetry.  The  *)
(* history variable seen records, per wheel, every class of observation    *)
(* since start-up; MaxSeen bounds its length.                              *)
(***************************************************************************)
EXTENDS FDIRManager

CONSTANT MaxSeen

ASSUME HistoryAssumption == MaxSeen \in Nat

VARIABLE seen

historyVars == <<fdirVars, seen>>

HistoryInit ==
    /\ FDIRInit
    /\ seen = [w \in Wheels |-> <<>>]

HistoryUpdate(obs) ==
    /\ \A w \in Wheels : Len(seen[w]) < MaxSeen
    /\ UpdateWheels(obs)
    /\ seen' = [w \in Wheels |-> Append(seen[w], obs[w])]

HistoryReset ==
    /\ ResetAll
    /\ UNCHANGED seen

HistoryNext ==
    \/ \E obs \in [Wheels -> WheelObservations] : HistoryUpdate(obs)
    \/ HistoryReset

HistorySpec == HistoryInit /\ [][HistoryNext]_historyVars

(***************************************************************************)
(* Properties                                                              *)
(***************************************************************************)
\* n observations o in a row, somewhere in h.
HasRun(h, o, n) ==
    \E i \in 1..Len(h) : i + n - 1 <= Len(h) /\ \A j \in i..(i + n - 1) : h[j] = o

\* The verdict on a wheel in terms of everything it ever showed: FAILED if it
\* was ever saturated or stuck for StuckLimit samples in a row, else DEGRADED
\* if it was ever weak for DegradedLimit samples in a row, else HEALTHY.
Verdict(h) ==
    IF (\E i \in 1..Len(h) : h[i] = "saturated") \/ HasRun(h, "stuck", StuckLimit) THEN "FAILED"
    ELSE IF HasRun(h, "weak", DegradedLimit) THEN "DEGRADED"
    ELSE "HEALTHY"

\* The two counters, their resets in every branch of updateWheels and the
\* latched status together compute Verdict: no interleaving of stuck, weak,
\* idle and good samples makes a short run count twice or loses a long one.
StatusIsVerdict == \A w \in Wheels : wheels[w].status = Verdict(seen[w])

\* As long as FDIR alone moves the mode, the mode tells how many wheels are
\* lost: none keeps the initial SAFE, one gives DEGRADED, more give SAFE,
\* also when several wheels fail in the same sample.
ModeTellsLostWheels ==
    mm.current = IF Cardinality(FailedWheels(wheels)) = 1 THEN "DEGRADED" ELSE "SAFE"
=============================================================================
