------------------------------- MODULE Angle -------------------------------
(***************************************************************************)
(* Euler angles and quaternions of angle.cpp, and the conversions between  *)
(* them and column matrices.                                               *)
(*                                                                         *)
(* Angles are multiples of 90 or of 60 degrees, so that sines and cosines  *)
(* of angles and half angles are a + b * sqrt(root) over two, the root 2   *)
(* or 3.  What rounding does where it decides, next to the poles, is any   *)
(* of the possible results.                                                *)
(***************************************************************************)
EXTENDS MatrixOps

CONSTANTS
    Roots,       \* 2 for angles of 90, 3 for angles of 60 degrees
    MaxSteps     \* bound on the conversions

VARIABLES
    root,     \* the one of Roots a behaviour is about
    value,    \* the Euler angles, quaternion or matrix the user holds, or a sensor
    origin,   \* what it was made from (history)
    steps

vars == <<root, value, origin, steps>>

-----------------------------------------------------------------------------
(* Numbers a + b * sqrt(root)                                              *)

Zero == <<0, 0>>
Add(p, q) == <<p[1] + q[1], p[2] + q[2]>>
Neg(p) == <<-p[1], -p[2]>>
Sub(p, q) == Add(p, Neg(q))
Mul(p, q) == <<p[1] * q[1] + root * p[2] * q[2], p[1] * q[2] + p[2] * q[1]>>
Times(k, p) == <<k * p[1], k * p[2]>>

Positive(p) ==
    \/ p[1] >= 0 /\ p[2] >= 0 /\ p # Zero
    \/ p[1] > 0 /\ p[1] * p[1] > root * p[2] * p[2]
    \/ p[2] > 0 /\ p[1] * p[1] < root * p[2] * p[2]

SameSign(p, q) == Positive(p) = Positive(q) /\ Positive(Neg(p)) = Positive(Neg(q))

\* A half turn in units of the angle, and the angles atan2 returns
Half == root
Angles == 1 - Half .. Half

\* Twice the sine and the cosine of half of k units
Sin2(k) ==
    LET Quarter == IF root = 2 THEN <<<<0, 0>>, <<0, 1>>, <<2, 0>>>>
                               ELSE <<<<0, 0>>, <<1, 0>>, <<0, 1>>, <<2, 0>>>>
        j == k % (4 * Half)
        up == j % (2 * Half)
        s == Quarter[1 + IF up <= Half THEN up ELSE 2 * Half - up]
    IN  IF j < 2 * Half THEN s ELSE Neg(s)
Cos2(k) == Sin2(k + Half)

\* atan2 and asin.  With both arguments 0 up to rounding atan2 may return anything,
\* and asin of 1 up to rounding may be no number.
Atan2(y, x) ==
    IF y = Zero /\ x = Zero
    THEN Angles
    ELSE {k \in Angles : /\ Mul(y, Cos2(2 * k)) = Mul(x, Sin2(2 * k))
                         /\ SameSign(y, Sin2(2 * k)) /\ SameSign(x, Cos2(2 * k))}

NaN == 100

\* asin(y / x) for a positive x, whose result is a quarter turn at most
Asin(y, x) ==
    LET exact == {k \in Angles : /\ 2 * k <= Half /\ -2 * k <= Half
                                 /\ Times(2, y) = Mul(x, Sin2(2 * k))}
    IN  IF exact = {} \/ \E k \in exact : 2 * k = Half \/ -2 * k = Half
        THEN exact \cup {NaN} ELSE exact

-----------------------------------------------------------------------------

Euler(roll, pitch, yaw) == [kind |-> "euler", roll |-> roll, pitch |-> pitch, yaw |-> yaw]

\* The components of quaternions, times 8
Quaternion(w, x, y, z) == [kind |-> "quaternion", w |-> w, x |-> x, y |-> y, z |-> z]
\* An acceleration sensor at rest, but for a pull along x: 4 is 9.8 m/s^2.
Sensor(roll, pitch, pull) ==
    [kind |-> "sensor", roll |-> roll, pitch |-> pitch, yaw |-> 0, pull |-> pull]

Column(m) == [kind |-> "matrix", m |-> m]

Init ==
    /\ root \in Roots
    /\ \E roll, pitch, yaw \in Angles :
          \/ value = Euler(roll, pitch, yaw)
          \/ value \in {Sensor(roll, pitch, pull) : pull \in {0, 8}}
    /\ origin = value
    /\ steps = 0

Becomes(v) ==
    /\ steps < MaxSteps
    /\ value' = v
    /\ steps' = steps + 1
    /\ UNCHANGED <<root, origin>>

Mul3(p, q, r) == Mul(Mul(p, q), r)

\* Mutant of to_quaternion: a sign of the quaternion of the inverse rotation.
to_quaternionOfInverse(e) ==
    LET sr == Sin2(e.roll)
        cr == Cos2(e.roll)
        sp == Sin2(e.pitch)
        cp == Cos2(e.pitch)
        sy == Sin2(e.yaw)
        cy == Cos2(e.yaw)
    IN  Quaternion(Add(Mul3(cr, cp, cy), Mul3(sr, sp, sy)),
                   Add(Mul3(sr, cp, cy), Mul3(cr, sp, sy)),
                   Add(Mul3(cr, sp, cy), Mul3(sr, cp, sy)),
                   Sub(Mul3(cr, cp, sy), Mul3(sr, sp, cy)))

\* Euler::to_quaternion
to_quaternion(e) ==
    LET sr == Sin2(e.roll)
        cr == Cos2(e.roll)
        sp == Sin2(e.pitch)
        cp == Cos2(e.pitch)
        sy == Sin2(e.yaw)
        cy == Cos2(e.yaw)
    IN  Quaternion(Add(Mul3(cr, cp, cy), Mul3(sr, sp, sy)),
                   Sub(Mul3(sr, cp, cy), Mul3(cr, sp, sy)),
                   Add(Mul3(cr, sp, cy), Mul3(sr, cp, sy)),
                   Sub(Mul3(cr, cp, sy), Mul3(sr, sp, cy)))

\* Quaternion::to_euler.  The components come with a factor of 8.
to_euler(q) ==
    LET one == <<64, 0>>
        t0 == Times(2, Add(Mul(q.y, q.z), Mul(q.w, q.x)))
        t1 == Sub(one, Times(2, Add(Mul(q.x, q.x), Mul(q.y, q.y))))
        t2 == Times(2, Sub(Mul(q.x, q.z), Mul(q.w, q.y)))
        t3 == Times(2, Add(Mul(q.x, q.y), Mul(q.w, q.z)))
        t4 == Sub(one, Times(2, Add(Mul(q.y, q.y), Mul(q.z, q.z))))
    IN  {Euler(roll, IF minus = NaN THEN NaN ELSE -minus, yaw) :
            roll \in Atan2(t0, t1), minus \in Asin(t2, one), yaw \in Atan2(t3, t4)}

ColumnOf(entries) == Column([r \in 0 .. Len(entries) - 1 |-> [c \in {0} |-> entries[r + 1]]])

ToQuaternion ==
    /\ value.kind = "euler" /\ NaN \notin {value.roll, value.pitch, value.yaw}
    /\ Becomes(to_quaternion(value))

ToEuler ==
    /\ value.kind = "quaternion"
    /\ \E e \in to_euler(value) : Becomes(e)

EulerToMatrix ==
    /\ value.kind = "euler"
    /\ Becomes(ColumnOf(<<value.roll, value.pitch, value.yaw>>))

QuaternionToMatrix ==
    /\ value.kind = "quaternion"
    /\ Becomes(ColumnOf(<<value.w, value.x, value.y, value.z>>))

\* from_matrix() throws for another size.
EulerFromMatrix ==
    /\ value.kind = "matrix" /\ Rows(value.m) = 0 .. 2
    /\ Becomes(Euler(value.m[0][0], value.m[1][0], value.m[2][0]))

QuaternionFromMatrix ==
    /\ value.kind = "matrix" /\ Rows(value.m) = 0 .. 3
    /\ Becomes(Quaternion(value.m[0][0], value.m[1][0], value.m[2][0], value.m[3][0]))

\* Euler::from_acc: roll and pitch of a sensor, from what it measures of gravity.
from_acc(x, y) ==
    UNION {
        LET cp == Times(2, Cos2(2 * pitch))
            rolls == CASE pitch = NaN -> {NaN}
                       [] cp = Zero -> Angles \cup {NaN}
                       [] OTHER -> Asin(Neg(y), cp)
        IN  {Euler(roll, pitch, 0) : roll \in rolls} : pitch \in Asin(x, <<4, 0>>) }

FromAcc ==
    /\ value.kind = "sensor"
    /\ LET x == Add(Times(2, Sin2(2 * value.pitch)), <<value.pull, 0>>)
           y == Neg(Mul(Sin2(2 * value.roll), Cos2(2 * value.pitch)))
       IN  \E e \in from_acc(x, y) : Becomes(e)

Next ==
    \/ ToQuaternion \/ ToEuler
    \/ EulerToMatrix \/ QuaternionToMatrix
    \/ EulerFromMatrix \/ QuaternionFromMatrix
    \/ FromAcc

Spec == Init /\ [][Next]_vars

-----------------------------------------------------------------------------
(* Properties                                                              *)

\* The product of quaternions <<w, x, y, z>>
Hamilton(p, q) ==
    LET Row(a, b, c, d) == Add(Add(a, b), Add(c, d))
        M(i, j) == Mul(p[i], q[j])
    IN  << Row(M(1, 1), Neg(M(2, 2)), Neg(M(3, 3)), Neg(M(4, 4))),
           Row(M(1, 2), M(2, 1), M(3, 4), Neg(M(4, 3))),
           Row(M(1, 3), Neg(M(2, 4)), M(3, 1), M(4, 2)),
           Row(M(1, 4), M(2, 3), Neg(M(3, 2)), M(4, 1)) >>

\* Turns about the x, then the y, then the z axis, one after the other
Turns(e) ==
    Hamilton(<<Cos2(e.yaw), Zero, Zero, Sin2(e.yaw)>>,
             Hamilton(<<Cos2(e.pitch), Zero, Sin2(e.pitch), Zero>>,
                      <<Cos2(e.roll), Sin2(e.roll), Zero, Zero>>))

IsNumber(v) == v.kind = "euler" => NaN \notin {v.roll, v.pitch, v.yaw}

\* The rotation v stands for
Rotation(v) ==
    CASE v.kind = "quaternion" -> <<v.w, v.x, v.y, v.z>>
      [] v.kind = "matrix" /\ Rows(v.m) = 0 .. 2 ->
            Turns(Euler(v.m[0][0], v.m[1][0], v.m[2][0]))
      [] v.kind = "matrix" /\ Rows(v.m) = 0 .. 3 -> [i \in 1 .. 4 |-> v.m[i - 1][0]]
      [] OTHER -> Turns(v)

SameRotation(v, w) ==
    /\ IsNumber(v)
    /\ Rotation(v) = Rotation(w) \/ Rotation(v) = [i \in 1 .. 4 |-> Neg(Rotation(w)[i])]

AtPole(e) == 2 * e.pitch \in {Half, -Half}
WithinQuarter(k) == 2 * k < Half /\ -2 * k < Half

\* The angles of a sensor are found only within a quarter turn, and at rest.
Measurable(e) ==
    e.kind = "sensor" => e.pull = 0 /\ WithinQuarter(e.roll) /\ WithinQuarter(e.pitch)

\* A rotation stays the same through conversions in any order, but at the poles
\* (angle.cpp:41-165).
RotationKept == ~AtPole(origin) /\ Measurable(origin) => SameRotation(value, origin)

-----------------------------------------------------------------------------
(* What the code does not keep to                                          *)

\* angle.cpp:104 "to_euler": the branch that is left out limits the argument of
\* asin() to 1, the one compiled does not; roll and yaw are lost as well.
PoleKept == Measurable(origin) => SameRotation(value, origin)

\* angle.cpp:87 divides by gravity at rest: a sensor that is being accelerated
\* gives angles that are no numbers.
TiltIsANumber == IsNumber(value)
=============================================================================
