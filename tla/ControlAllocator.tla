-------------------------- MODULE ControlAllocator --------------------------
(***************************************************************************)
(* The arithmetic of fsw/gnc/control/ControlAllocator for the pyramid of   *)
(* four wheels, exactly: with a skew of 45 degrees every entry of          *)
(* A_nominal_ is 0, c or -c with the same c, which is the unit here.       *)
(* FlightSoftware uses of it that any three wheels can be allocated to and *)
(* two cannot, and that a failed wheel gets no torque.                     *)
(***************************************************************************)
EXTENDS Integers, FiniteSets
LOCAL INSTANCE FiniteSetsExt

\* The columns of A_nominal_.
Axis == << <<1, 0, 1>>, <<0, 1, 1>>, <<-1, 0, 1>>, <<0, -1, 1>> >>

\* A * A^T, with the columns of failed wheels zero.
AAT(hs) ==
    [i \in 1..3 |-> [j \in 1..3 |-> MapThenSumSet(LAMBDA w : Axis[w][i] * Axis[w][j], hs)]]

\* Cofactor of entry (i, j), the indices of a 3x3 matrix taken cyclically.
Cofactor(M, i, j) ==
    LET n(k, d) == ((k + d - 1) % 3) + 1
    IN  M[n(i, 1)][n(j, 1)] * M[n(i, 2)][n(j, 2)] - M[n(i, 1)][n(j, 2)] * M[n(i, 2)][n(j, 1)]

Determinant(M) == MapThenSumSet(LAMBDA j : M[1][j] * Cofactor(M, 1, j), 1..3)

RankDeficient(hs) == Determinant(AAT(hs)) = 0

\* u = -A^T (A A^T)^-1 T, times the determinant; zero for a failed wheel.
WheelTorque(hs, T, w) ==
    LET M == AAT(hs)
        y == [i \in 1..3 |-> MapThenSumSet(LAMBDA j : Cofactor(M, j, i) * T[j], 1..3)]
    IN  IF w \in hs THEN -MapThenSumSet(LAMBDA i : Axis[w][i] * y[i], 1..3) ELSE 0

\* Torque of the motors about body axis i.
MotorSum(hs, T, i) == MapThenSumSet(LAMBDA w : Axis[w][i] * WheelTorque(hs, T, w), 1..4)

\* The rank test refuses exactly the configurations with fewer than three
\* healthy wheels.
ASSUME ThreeWheelsSpan == \A hs \in SUBSET (1..4) : RankDeficient(hs) <=> Cardinality(hs) < 3

\* With three or four healthy wheels the motors together give the opposite of
\* the body torque asked for: the wheels left take over what the failed one did.
ASSUME TorqueIsDelivered ==
    \A hs \in SUBSET (1..4), T \in [1..3 -> {-1, 0, 2}] :
        ~RankDeficient(hs) => \A i \in 1..3 : MotorSum(hs, T, i) = -T[i] * Determinant(AAT(hs))
=============================================================================
