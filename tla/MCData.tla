------------------------------- MODULE MCData -------------------------------
(* What the math extension computes, one part of which a behaviour is about; *)
(* the others stay as they were made.                                        *)
(* determine() is linear in each row, so that rows of one 1 would do for it; *)
(* the other rows are for inverse().                                         *)
EXTENDS Integers, Sequences

CONSTANTS
    Junk, Scalars, MaxSteps, MaxRuns, Roots, MaxConversions

RowsOf(n, Entries) == [0 .. n - 1 -> Entries]
Row(entries) == [c \in 0 .. Len(entries) - 1 |-> entries[c + 1]]
Rows4 ==
    { Row(<<1, 0, 0, 0>>), Row(<<0, 1, 0, 0>>), Row(<<0, 0, 1, 0>>), Row(<<0, 0, 0, 1>>),
      Row(<<2, -1, 0, 3>>), Row(<<1, 1, 0, -1>>), Row(<<0, 2, 1, 1>>) }

Inputs ==
    UNION { [{0} -> RowsOf(1, -1 .. 2)], [0 .. 1 -> RowsOf(2, -1 .. 2)],
            [0 .. 2 -> RowsOf(3, {0, 1, 3})], [0 .. 3 -> Rows4] }

Given ==
    { [r \in 0 .. Len(rows) - 1 |-> Row(rows[r + 1])] :
        rows \in { <<<<1, 2>>, <<0, -1>>>>, <<<<0, 1>>, <<3, 1>>>>,
                   <<<<1, 0, 2>>, <<-1, 1, 0>>>>,
                   <<<<2, 1>>, <<0, 1>>, <<1, -1>>>>, <<<<1, 0>>, <<0, 1>>, <<0, 0>>>> } }

Mat(rows) == [num |-> [r \in 0 .. Len(rows) - 1 |-> Row(rows[r + 1])], den |-> 1]
Number(n, d) == [Mat(<<<<n>>>>) EXCEPT !.den = d]
Eye == Mat(<<<<1, 0>>, <<0, 1>>>>)
Shear == Mat(<<<<1, 1>>, <<0, 1>>>>)
Nil == Mat(<<<<0, 0>>, <<0, 0>>>>)
Twice == Mat(<<<<2, 0>>, <<0, 2>>>>)

Kalman(H, Q, R, P) ==
    [kind |-> "matrix", first |-> TRUE, H |-> H, Q |-> Q, R |-> R, P |-> P,
     x |-> Mat(<<<<1>>, <<0>>>>)]

\* The filters of matrices measure all of the state, a shear of it, or one of its
\* two components; one of them has no noise at all.
Filters ==
    UNION {
        { [kind |-> "lowpass", first |-> TRUE, init |-> Number(7, 1), alpha |-> Number(a, b)] :
              a \in {1, 2}, b \in {3} },
        { [kind |-> "scalar", first |-> TRUE, Q |-> Number(q, 1), R |-> Number(2, 1),
           P |-> Number(1, p)] : q \in {0, 1}, p \in {1, 3} },
        { Kalman(H, Q, Twice, Eye) : H \in {Eye, Shear}, Q \in {Nil, Eye} },
        { Kalman(Mat(<<<<1, 0>>>>), Eye, Number(2, 1), Eye), Kalman(Eye, Nil, Nil, Nil) } }

Samples == {Number(0, 1), Number(3, 1), Number(-1, 2)}
Models == {Eye, Shear}
Measured == {Mat(<<<<2>>, <<1>>>>), Mat(<<<<0>>, <<-1>>>>), Number(3, 1)}

VARIABLES
    subject,
    mat, det, inv,
    acc, expr, steps, outside,
    filter, outcome, said, last, runs,
    root, value, origin, conversions

matrixVars == <<mat, det, inv>>
algebraVars == <<acc, expr, steps, outside>>
filterVars == <<filter, outcome, said, last, runs>>
angleVars == <<root, value, origin, conversions>>

Matrix == INSTANCE Matrix
Algebra == INSTANCE MatrixAlgebra
Filter == INSTANCE Filters
Angles == INSTANCE Angle WITH steps <- conversions, MaxSteps <- MaxConversions

Init ==
    /\ subject \in {"matrix", "algebra", "filter", "angle"}
    /\ IF subject = "matrix" THEN Matrix!Init
                             ELSE mat = <<>> /\ det = <<>> /\ inv = [kind |-> "none"]
    /\ IF subject = "algebra" THEN Algebra!Init
                              ELSE acc = <<>> /\ expr = <<>> /\ steps = 0 /\ outside = FALSE
    /\ IF subject = "filter" THEN Filter!Init
                             ELSE /\ filter = <<>> /\ outcome = "none" /\ said = <<>>
                                  /\ last = <<>> /\ runs = <<>>
    /\ IF subject = "angle" THEN Angles!Init
                            ELSE root = 2 /\ value = <<>> /\ origin = <<>> /\ conversions = 0

Next ==
    /\ UNCHANGED subject
    /\ \/ /\ subject = "matrix" /\ Matrix!Next
          /\ UNCHANGED <<algebraVars, filterVars, angleVars>>
       \/ /\ subject = "algebra" /\ Algebra!Next
          /\ UNCHANGED <<matrixVars, filterVars, angleVars>>
       \/ /\ subject = "filter" /\ Filter!Next
          /\ UNCHANGED <<matrixVars, algebraVars, angleVars>>
       \/ /\ subject = "angle" /\ Angles!Next
          /\ UNCHANGED <<matrixVars, algebraVars, filterVars>>

Spec ==
    Init /\ [][Next]_<<subject, matrixVars, algebraVars, filterVars, angleVars>>

-----------------------------------------------------------------------------

\* determine() is the determinant, whatever fresh memory holds, and inverse()
\* inverts what it can and refuses what it cannot, for a determinant other than 1
\* (matrix.hpp:341-439).
InverseInverts == Matrix!DetermineIsLeibniz /\ Matrix!InverseInverts

\* Expressions over matrices of any shape compute the linear maps they stand for
\* (matrix.hpp:190-298).
MatrixIsItsMap == subject = "algebra" => Algebra!MatrixIsItsMap

\* The filters weigh what they are given as well as can be, where inverse() inverts
\* (KalmanFilter.hpp:50-104, LowPassFilter.hpp:43-52).
FilterIsOptimal ==
    subject = "filter" => Filter!FilterIsOptimal /\ Filter!LowPassIsMean

\* A rotation stays the same through conversions in any order, but at the poles
\* (angle.cpp:41-165).
RotationKept == subject = "angle" => Angles!RotationKept
=============================================================================
