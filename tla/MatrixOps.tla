------------------------------ MODULE MatrixOps ------------------------------
(***************************************************************************)
(* The operations of matrix.hpp on matrices of any shape.                  *)
(*                                                                         *)
(* A matrix is a function of its rows, which count from 0, to functions of *)
(* its columns.  Entries are integers: the rounding of floating-point      *)
(* numbers is left out, the index arithmetic is what can go wrong; where   *)
(* the code divides, a matrix is a numerator and a common denominator.     *)
(* matrix * scalar, which does not compile, has no definition here.        *)
(***************************************************************************)
EXTENDS Integers, Sequences, FiniteSets, FiniteSetsExt

Rows(m) == DOMAIN m
Cols(m) == DOMAIN m[0]

\* Matrix(row, col): memory of new T[].
New(row, col, junk) == [r \in 0 .. row - 1 |-> [c \in 0 .. col - 1 |-> junk]]

\* Matrix(const Matrix&) and Matrix(Matrix&&): both copy every entry.
Copy(m) == [r \in Rows(m) |-> [c \in Cols(m) |-> m[r][c]]]

\* transpose(): a traversal of m that writes each entry to its mirror place.
transpose(m) == [r \in Cols(m) |-> [c \in Rows(m) |-> m[c][r]]]

eye(row, col) == [r \in 0 .. row - 1 |-> [c \in 0 .. col - 1 |-> IF r = c THEN 1 ELSE 0]]

\* The sizes with which operator+, operator- and operator* do not throw
SameSize(lhs, rhs) == Rows(lhs) = Rows(rhs) /\ Cols(lhs) = Cols(rhs)
Matching(lhs, rhs) == Cols(lhs) = Rows(rhs)

Plus(lhs, rhs) == [r \in Rows(lhs) |-> [c \in Cols(lhs) |-> lhs[r][c] + rhs[r][c]]]
Minus(lhs, rhs) == [r \in Rows(lhs) |-> [c \in Cols(lhs) |-> lhs[r][c] - rhs[r][c]]]

\* Mutant of Product: the sum runs over the rows of the left matrix.
ProductOverRows(lhs, rhs) ==
    [r \in Rows(lhs) |-> [c \in Cols(rhs) |->
        MapThenSumSet(LAMBDA x : lhs[r][x] * rhs[x][c], Rows(lhs) \cap Rows(rhs))]]

\* operator*: the sum over x of lhs[row][x] * rhs[x][col].
Product(lhs, rhs) ==
    [r \in Rows(lhs) |-> [c \in Cols(rhs) |->
        MapThenSumSet(LAMBDA x : lhs[r][x] * rhs[x][c], Cols(lhs))]]

\* scalar * matrix makes a matrix of swapped sizes and writes each entry to its
\* old place in it: with more rows than columns, or more columns than rows, some
\* of them lie outside.
ScaleInside(m) == Rows(m) = Cols(m)
Scale(scalar, m) == [r \in Rows(m) |-> [c \in Cols(m) |-> m[r][c] * scalar]]

SizeOf(m) == Cardinality(DOMAIN m)
Places(m) == (DOMAIN m) \X (DOMAIN m)

Quotient(m, scalar) == [num |-> m, den |-> scalar]

\* operator/ by a scalar: a copy whose entries are divided.
Divide(m, scalar) == Quotient(Copy(m), scalar)

Sign(k) == IF k % 2 = 0 THEN 1 ELSE -1

\* The entries of m at the places in keep, row by row, are written to target from
\* its first entry on, n - 1 to a row; the other entries of target stay.
Compress(m, keep, target) ==
    LET n == SizeOf(m)
        cells == [k \in 1 .. n * n |-> <<(k - 1) \div n, (k - 1) % n>>]
        kept == SelectSeq(cells, LAMBDA rc : rc \in keep)
        At(r, c) == r * (n - 1) + c + 1
    IN  [r \in DOMAIN m |-> [c \in DOMAIN m |->
            IF c < n - 1 /\ At(r, c) <= Len(kept)
            THEN m[kept[At(r, c)][1]][kept[At(r, c)][2]]
            ELSE target[r][c]]]

\* Mutant of minor: the column is taken for a count.
minorOffByOne(m, col, target) ==
    Compress(m, {rc \in Places(m) : rc[1] > 0 /\ rc[2] # col + 1}, target)

\* minor(): all of m is copied, the entries without meaning included.
minor(m, col, target) ==
    Compress(m, {rc \in Places(m) : rc[1] > 0 /\ rc[2] # col}, target)

\* determine(): expansion by the first row, for the first size rows and columns.
\* The matrix for the minors is as large as m; every turn overwrites the same part
\* of it, so that it may as well be a new one.
RECURSIVE determine(_, _, _)
determine(m, size, junk) ==
    LET Term(col) ==
            m[0][col] * Sign(col)
              * determine(minor(m, col, New(SizeOf(m), SizeOf(m), junk)), size - 1, junk)
    IN  CASE size = 1 -> m[0][0]
          [] size = 2 -> m[0][0] * m[1][1] - m[0][1] * m[1][0]
          [] OTHER -> MapThenSumSet(Term, 0 .. size - 1)

\* Mutant of cofactor: the transposition is forgotten.
cofactorOfRows(m, junk) ==
    [row3 \in DOMAIN m |-> [col3 \in DOMAIN m |->
        LET keep == {rc \in Places(m) : rc[1] # row3 /\ rc[2] # col3}
            new == Compress(m, keep, New(SizeOf(m), SizeOf(m), junk))
        IN  Sign(row3 + col3) * determine(new, SizeOf(m) - 1, junk)]]

\* cofactor(): the transposed matrix of the signed minors.
cofactor(m, junk) ==
    transpose([row3 \in DOMAIN m |-> [col3 \in DOMAIN m |->
        LET keep == {rc \in Places(m) : rc[1] # row3 /\ rc[2] # col3}
            new == Compress(m, keep, New(SizeOf(m), SizeOf(m), junk))
        IN  Sign(row3 + col3) * determine(new, SizeOf(m) - 1, junk)]])

\* inverse() throws for a determinant of 0.
HasInverse(q, junk) == determine(q.num, SizeOf(q.num), junk) # 0

\* inverse() of a matrix of quotients: for a determinant of 1 a copy with a 1 in the
\* corner, otherwise the cofactors over the determinant.
inverse(q, junk) ==
    LET d == determine(q.num, SizeOf(q.num), junk)
    IN  IF d = q.den ^ SizeOf(q.num)
        THEN Quotient([Copy(q.num) EXCEPT ![0][0] = q.den], q.den)
        ELSE Divide(Scale(q.den, cofactor(q.num, junk)), d)
=============================================================================
