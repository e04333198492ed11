-------------------------------- MODULE MEKF --------------------------------
(***************************************************************************)
(* The attitude filter (fsw/gnc/ekf/MEKF.cpp) as a flow of numbers and     *)
(* NaNs.  Each field of the filter is TRUE while all its components are    *)
(* numbers.  Sums, products and norms are numbers exactly when all their   *)
(* operands are; the innovation covariance S is positive definite, so its  *)
(* inverse is a number when S is.  Overflow to infinity is left out.       *)
(***************************************************************************)

FilterState == [q: BOOLEAN, beta: BOOLEAN, w: BOOLEAN, p: BOOLEAN]

\* Identity attitude, zero bias and rate, unit covariance; after initialize, at
\* set-up, configured numbers in their place.
FreshFilter == [q |-> TRUE, beta |-> TRUE, w |-> TRUE, p |-> TRUE]

\* Mutant: the covariance is propagated with the raw gyro rate.
PredictUncorrected(f, gyro) == [f EXCEPT !.q = @ /\ gyro /\ f.beta, !.p = @ /\ gyro]

\* Attitude and covariance are propagated with the rate less the bias.
Predict(f, gyro) ==
    LET omega == gyro /\ f.beta
    IN  [f EXCEPT !.q = @ /\ omega, !.p = @ /\ omega]

\* The gain comes from the covariance alone, and correcting the covariance
\* keeps it a number.  The inverse of an attitude that is not a number is the
\* zero quaternion, so the residual depends on the measurement alone.
UpdateQuat(f, qMeas) ==
    LET dx == f.p /\ qMeas
    IN  [f EXCEPT !.q = @ /\ dx, !.beta = @ /\ dx]

\* update: predict, correct, and the net rate from the corrected bias.
UpdateFilter(f, gyro, qMeas) ==
    LET g == UpdateQuat(Predict(f, gyro), qMeas)
    IN  [g EXCEPT !.w = gyro /\ g.beta]

\* Mutant: the bias survives the reset.
ResetFilterKeepsBias(f) == [f EXCEPT !.q = TRUE, !.p = TRUE]

\* The rate estimate is left as it is until the next update.
ResetFilter(f) == [f EXCEPT !.q = TRUE, !.beta = TRUE, !.p = TRUE]

\* isValid looks at the covariance only.
IsValid(f) == f.p
=============================================================================
