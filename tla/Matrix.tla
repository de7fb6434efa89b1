------------------------------- MODULE Matrix -------------------------------
(***************************************************************************)
(* determine() and inverse() of matrix.hpp on square matrices.             *)
(*                                                                         *)
(* The entries of a new matrix are whatever the memory held, Junk being a  *)
(* few possibilities: determine() works in matrices of the full size, of   *)
(* which ever fewer entries mean something.                                *)
(***************************************************************************)
EXTENDS MatrixOps, Functions, TLC

CONSTANTS
    Inputs,   \* the square matrices determine() and inverse() are called with
    Junk      \* what fresh memory may hold

VARIABLES
    mat,      \* the matrix
    det,      \* <<what determine() has returned>>, <<>> before
    inv       \* how inverse() has ended, and the matrix num / den it returned

vars == <<mat, det, inv>>

Init ==
    /\ mat \in Inputs
    /\ det = <<>>
    /\ inv = [kind |-> "none"]

CallDetermine ==
    /\ det = <<>>
    /\ \E junk \in Junk : det' = <<determine(mat, SizeOf(mat), junk)>>
    /\ UNCHANGED <<mat, inv>>

CallInverse ==
    /\ det # <<>> /\ inv.kind = "none"
    /\ \E junk \in Junk :
          LET q == Quotient(mat, 1)
          IN  inv' = IF HasInverse(q, junk)
                     THEN inverse(q, junk) @@ [kind |-> "matrix"]
                     ELSE [kind |-> "throws"]
    /\ UNCHANGED <<mat, det>>

Next == CallDetermine \/ CallInverse

Spec == Init /\ [][Next]_vars

-----------------------------------------------------------------------------
(* Properties                                                              *)

\* The sign of p: the parity of its inversions.
Parity(p) == Sign(Cardinality({ij \in Places(p) :
                                  ij[1] < ij[2] /\ p[ij[1]] > p[ij[2]]}))

Leibniz(m) ==
    LET Term(p) == Parity(p) * FoldFunction(LAMBDA x, y : x * y, 1,
                                            [r \in DOMAIN m |-> m[r][p[r]]])
    IN  MapThenSumSet(Term, Bijection(DOMAIN m, DOMAIN m))

\* determine() is the determinant, the signed sum over permutations, whatever
\* the matrices it works in held before (matrix.hpp:362-378).
DetermineIsLeibniz == det # <<>> => det[1] = Leibniz(mat)

Identity == eye(SizeOf(mat), SizeOf(mat))

\* What inverse() returns is an inverse on both sides, for a determinant other
\* than 1 and at least two rows, and it refuses just the singular matrices
\* (matrix.hpp:417-438).
InverseInverts ==
    /\ inv.kind = "throws" => det[1] = 0
    /\ inv.kind = "matrix" /\ det[1] # 1 /\ SizeOf(mat) > 1 =>
          /\ Product(mat, inv.num) = Scale(inv.den, Identity)
          /\ Product(inv.num, mat) = Scale(inv.den, Identity)

-----------------------------------------------------------------------------
(* What the name says and the code does not do                             *)

\* matrix.hpp:199 "inverse() const": for a determinant of 1 it returns nearly
\* the matrix itself, and for a single entry 0.
InverseAlwaysInverts ==
    inv.kind = "matrix" =>
        Product(mat, inv.num) = Scale(inv.den, Identity)
=============================================================================
