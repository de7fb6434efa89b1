---------------------------- MODULE MatrixAlgebra ----------------------------
(***************************************************************************)
(* Expressions over matrices of different sizes: each step applies one of  *)
(* the operations of matrix.hpp to the matrix made so far, and to one of   *)
(* the matrices the user began with.                                       *)
(*                                                                         *)
(* An operation that throws makes no matrix and is left out.               *)
(***************************************************************************)
EXTENDS MatrixOps

CONSTANTS
    Given,      \* the matrices the user begins with
    Scalars,    \* the numbers a matrix is multiplied by
    MaxSteps    \* bound on the operations of an expression

VARIABLES
    acc,      \* the matrix made so far
    expr,     \* the expression it is the value of (history)
    steps,    \* how many operations that has
    outside   \* an entry has been written outside its matrix

vars == <<acc, expr, steps, outside>>

Leaf(m) == [op |-> "given", mat |-> m]

Init ==
    /\ acc \in {Copy(m) : m \in Given}
    /\ expr = Leaf(acc)
    /\ steps = 0
    /\ outside = FALSE

Make(m, e) ==
    /\ steps < MaxSteps /\ ~outside
    /\ acc' = m /\ expr' = e
    /\ steps' = steps + 1
    /\ UNCHANGED outside

Add(m) == SameSize(acc, m) /\ Make(Plus(acc, m), [op |-> "add", lhs |-> expr, rhs |-> Leaf(m)])

Subtract(m) ==
    /\ SameSize(acc, m)
    /\ \/ Make(Minus(acc, m), [op |-> "sub", lhs |-> expr, rhs |-> Leaf(m)])
       \/ Make(Minus(m, acc), [op |-> "sub", lhs |-> Leaf(m), rhs |-> expr])

Multiply(m) ==
    \/ /\ Matching(acc, m)
       /\ Make(Product(acc, m), [op |-> "mul", lhs |-> expr, rhs |-> Leaf(m)])
    \/ /\ Matching(m, acc)
       /\ Make(Product(m, acc), [op |-> "mul", lhs |-> Leaf(m), rhs |-> expr])

MultiplyBy(scalar) ==
    /\ ScaleInside(acc)
    /\ Make(Scale(scalar, acc), [op |-> "scale", by |-> scalar, arg |-> expr])

\* What is written outside may be anything, and nothing is known from then on.
MultiplyOutside ==
    /\ ~ScaleInside(acc) /\ ~outside
    /\ outside' = TRUE
    /\ UNCHANGED <<acc, expr, steps>>

Transpose == Make(transpose(acc), [op |-> "transpose", arg |-> expr])

Next ==
    \/ \E m \in Given : Add(m) \/ Subtract(m) \/ Multiply(m)
    \/ \E scalar \in Scalars : MultiplyBy(scalar)
    \/ MultiplyOutside
    \/ Transpose

Spec == Init /\ [][Next]_vars

-----------------------------------------------------------------------------
(* Properties                                                              *)

Times(k, v) == [i \in DOMAIN v |-> k * v[i]]
Sum2(v, w) == [i \in DOMAIN v |-> v[i] + w[i]]

\* m, or its mirror image, applied to a vector.
Image(m, v, mirrored) ==
    IF mirrored
    THEN [c \in Cols(m) |-> MapThenSumSet(LAMBDA r : m[r][c] * v[r], Rows(m))]
    ELSE [r \in Rows(m) |-> MapThenSumSet(LAMBDA c : m[r][c] * v[c], Cols(m))]

\* The linear map an expression stands for: products are compositions, in the
\* opposite order for the mirror image.
RECURSIVE Map(_, _, _)
Map(e, v, mirrored) ==
    CASE e.op = "given" -> Image(e.mat, v, mirrored)
      [] e.op = "add" -> Sum2(Map(e.lhs, v, mirrored), Map(e.rhs, v, mirrored))
      [] e.op = "sub" -> Sum2(Map(e.lhs, v, mirrored), Times(-1, Map(e.rhs, v, mirrored)))
      [] e.op = "mul" ->
            IF mirrored THEN Map(e.rhs, Map(e.lhs, v, mirrored), mirrored)
                        ELSE Map(e.lhs, Map(e.rhs, v, mirrored), mirrored)
      [] e.op = "scale" -> Times(e.by, Map(e.arg, v, mirrored))
      [] e.op = "transpose" -> Map(e.arg, v, ~mirrored)

\* The matrix an expression makes is that of its linear map: column i is the image
\* of the unit vector i (matrix.hpp:190-298).
MatrixIsItsMap ==
    \A i \in Cols(acc) :
        LET unit == [c \in Cols(acc) |-> IF c = i THEN 1 ELSE 0]
        IN  Map(expr, unit, FALSE) = [r \in Rows(acc) |-> acc[r][i]]

-----------------------------------------------------------------------------
(* What the code does not keep to                                          *)

\* matrix.hpp:293 makes a matrix of swapped sizes: an entry of a matrix that is
\* not square is written outside it.
EntriesInside == ~outside
=============================================================================
