------------------------------ MODULE Filters ------------------------------
(***************************************************************************)
(* The filters of the math extension: LowPassFilter, KalmanFilter of       *)
(* numbers and KalmanFilter of matrices.                                   *)
(*                                                                         *)
(* Numbers are quotients, those of the scalar filters in matrices of one   *)
(* entry.  Division by zero is left out: noise and variance are positive.  *)
(***************************************************************************)
EXTENDS MatrixOps

CONSTANTS
    Filters,      \* the filters a user makes: kind, first and init, alpha or Q, R, P, for
                  \* the filter of matrices also H and x
    Samples,      \* what a filter of numbers is run with, a set of quotients
    Models,       \* the matrices A and ...
    Measured,     \* ... the measurements z the filter of matrices is run with
    Junk,         \* what fresh memory may hold
    MaxRuns       \* bound on the calls of run()

VARIABLES
    filter,     \* the filter with the state it has come to
    outcome,    \* how the last run() ended
    said,       \* what run() returned last
    last,       \* the arguments of the last run() and the state it found (history)
    runs        \* the arguments of all of them (history)

vars == <<filter, outcome, said, last, runs>>

-----------------------------------------------------------------------------
(* Arithmetic of quotients                                                 *)

RECURSIVE Gcd(_, _)
Gcd(a, b) == IF b = 0 THEN a ELSE Gcd(b, a % b)
Abs(a) == IF a < 0 THEN -a ELSE a

Reduced(q) ==
    LET g == FoldSet(LAMBDA rc, acc : Gcd(acc, Abs(q.num[rc[1]][rc[2]])), Abs(q.den),
                     Rows(q.num) \X Cols(q.num))
        s == IF q.den < 0 THEN -g ELSE g
    IN  Quotient([r \in Rows(q.num) |-> [c \in Cols(q.num) |->
                     IF s < 0 THEN -q.num[r][c] \div g ELSE q.num[r][c] \div g]], q.den \div s)

Times(k, m) == [r \in Rows(m) |-> [c \in Cols(m) |-> k * m[r][c]]]
Sum(p, q) == Reduced(Quotient(Plus(Times(q.den, p.num), Times(p.den, q.num)), p.den * q.den))
Difference(p, q) ==
    Reduced(Quotient(Minus(Times(q.den, p.num), Times(p.den, q.num)), p.den * q.den))
Prod(p, q) == Reduced(Quotient(Product(p.num, q.num), p.den * q.den))
Transposed(q) == Quotient(transpose(q.num), q.den)
Ratio(p, q) == Reduced(Quotient(Times(q.den, p.num), p.den * q.num[0][0]))
Number(n, d) == Quotient([r \in {0} |-> [c \in {0} |-> n]], d)
One == Number(1, 1)

-----------------------------------------------------------------------------

Init ==
    /\ filter \in Filters
    /\ outcome = "none"
    /\ said = Number(0, 1)
    /\ last = <<>>
    /\ runs = <<>>

Ran(arguments) ==
    /\ Len(runs) < MaxRuns /\ outcome # "broken"
    /\ last' = [arguments |-> arguments, before |-> filter]
    /\ runs' = Append(runs, arguments)

Returns(value) == outcome' = "returned" /\ said' = value

\* LowPassFilter::run: the first sample takes the place of the initial value.
RunLowPass ==
    /\ filter.kind = "lowpass"
    /\ \E x \in Samples :
          LET prev == IF filter.first THEN x ELSE filter.init
              next == Sum(Prod(filter.alpha, prev), Prod(Difference(One, filter.alpha), x))
          IN  /\ Ran(x)
              /\ filter' = [filter EXCEPT !.init = next, !.first = FALSE]
              /\ Returns(next)

\* KalmanFilter<T>::run
RunScalar ==
    /\ filter.kind = "scalar"
    /\ \E measurement, prediction \in Samples :
          LET Pp == Sum(filter.P, filter.Q)
              K == Ratio(Pp, Sum(Pp, filter.R))
          IN  /\ Ran(<<measurement, prediction>>)
              /\ Returns(Sum(prediction, Prod(K, Difference(measurement, prediction))))
              /\ filter' = [filter EXCEPT !.P = Prod(Difference(One, K), Pp)]

\* A measurement of another size makes an operation throw.
Fitting == {z \in Measured : Rows(z.num) = Rows(filter.H.num)}

Predict(A, x) == Prod(A, x)
Spread(A, f) == Sum(Prod(Prod(A, f.P), Transposed(A)), f.Q)
Innovation(f, Pp) == Sum(Prod(Prod(f.H, Pp), Transposed(f.H)), f.R)

\* Mutant of Gain: the noise of the measurement is left out.
GainWithoutNoise(f, Pp, junk) ==
    Prod(Prod(Pp, Transposed(f.H)), inverse(Prod(Prod(f.H, Pp), Transposed(f.H)), junk))

Gain(f, Pp, junk) == Prod(Prod(Pp, Transposed(f.H)), inverse(Innovation(f, Pp), junk))

\* The first call of KalmanFilter<Matrix<T>>::run uses neither A nor z.
RunFirst ==
    /\ filter.kind = "matrix" /\ filter.first
    /\ \E A \in Models, z \in Fitting : Ran(<<A, z>>)
    /\ filter' = [filter EXCEPT !.first = FALSE]
    /\ Returns(filter.x)

\* KalmanFilter<Matrix<T>>::run.  inverse() throws for a singular matrix before
\* anything is assigned.
RunMatrix ==
    /\ filter.kind = "matrix" /\ ~filter.first
    /\ \E A \in Models, z \in Fitting, junk \in Junk :
          LET xp == Predict(A, filter.x)
              Pp == Spread(A, filter)
              K == Gain(filter, Pp, junk)
              x == Sum(xp, Prod(K, Difference(z, Prod(filter.H, xp))))
          IN  /\ Ran(<<A, z>>)
              /\ IF ~HasInverse(Innovation(filter, Pp), junk)
                 THEN outcome' = "thrown" /\ UNCHANGED <<filter, said>>
                 ELSE /\ Returns(x)
                      /\ filter' = [filter EXCEPT
                            !.x = x, !.P = Difference(Pp, Prod(Prod(K, filter.H), Pp))]

\* Matrix::operator= ends without a return, which may do anything: after the first
\* of the two assignments nothing is known.
AssignmentBreaks ==
    /\ filter.kind = "matrix" /\ ~filter.first
    /\ \E A \in Models, z \in Fitting : Ran(<<A, z>>)
    /\ outcome' = "broken"
    /\ UNCHANGED <<filter, said>>

Next == RunLowPass \/ RunScalar \/ RunFirst \/ RunMatrix \/ AssignmentBreaks

Spec == Init /\ [][Next]_vars

-----------------------------------------------------------------------------
(* Properties                                                              *)

\* The last run() has weighed a prediction against a measurement.
Estimated ==
    /\ outcome = "returned" /\ filter.kind # "lowpass"
    /\ filter.kind = "matrix" => ~last.before.first

\* What the last run() predicted, and the map from the state to what is measured;
\* the filter of numbers measures its state.
LastH == IF filter.kind = "scalar" THEN One ELSE filter.H
LastPp ==
    IF filter.kind = "scalar" THEN Sum(last.before.P, filter.Q)
                              ELSE Spread(last.arguments[1], last.before)
LastXp ==
    IF filter.kind = "scalar" THEN last.arguments[2]
                              ELSE Predict(last.arguments[1], last.before.x)
LastZ == IF filter.kind = "scalar" THEN last.arguments[1] ELSE last.arguments[2]

\* For noise R that is a multiple of the identity
ByNoise(q) == Reduced(Quotient(Times(filter.R.num[0][0], q.num), q.den * filter.R.den))

\* The new variance is the inverse of (Pp^-1 + H' R^-1 H), and the estimate the
\* minimum of the squared errors weighted by the variances.
Optimal ==
    /\ Sum(ByNoise(filter.P), Prod(Prod(filter.P, Transposed(LastH)), Prod(LastH, LastPp)))
          = ByNoise(LastPp)
    /\ ByNoise(Difference(said, LastXp))
          = Prod(Prod(filter.P, Transposed(LastH)), Difference(LastZ, Prod(LastH, LastXp)))

\* What inverse() is given inverts: two rows or more, and a determinant not 1.
Inverts ==
    filter.kind = "matrix" =>
        LET S == Innovation(filter, LastPp)
            n == SizeOf(S.num)
        IN  n > 1 /\ \A junk \in Junk : determine(S.num, n, junk) # S.den ^ n

\* The filter of numbers, and that of matrices where inverse() inverts, weigh
\* prediction against measurement as well as can be (KalmanFilter.hpp:50-65, 87-104).
FilterIsOptimal == Estimated /\ Inverts => Optimal

\* The low-pass filter returns the mean of its samples with the weights of an
\* exponential that has always been at the first one (LowPassFilter.hpp:43-52).
LowPassIsMean ==
    filter.kind = "lowpass" /\ runs # <<>> =>
        LET n == Len(runs)
            a == filter.alpha.num[0][0]
            b == filter.alpha.den
            Weight(i) == (b - a) * a^(n - i) * b^(i - 1)
        IN  said = FoldSet(LAMBDA i, acc : Sum(acc, Prod(Number(Weight(i), b^n), runs[i])),
                           Prod(Number(a^n, b^n), runs[1]), 1 .. n)

-----------------------------------------------------------------------------
(* What the code does not keep to                                          *)

\* KalmanFilter.hpp:98 "estimate": for a single measurement inverse() returns 0 and
\* the filter never takes any of it, for a determinant of 1 something else.
AlwaysOptimal == Estimated => Optimal

\* matrix.hpp:138 "Matrix operator=(const Matrix& mat)" returns.
AssignmentReturns == outcome # "broken"
=============================================================================
