------------------------------ MODULE Fractions ------------------------------
(***************************************************************************)
(* Exact fractions for the numeric processes: <<n, d>> in lowest terms     *)
(* with d > 0.  NaN stands for every value that is not finite.             *)
(***************************************************************************)
EXTENDS Integers, Sequences, FiniteSets, Functions

NaN == <<0, 0>>
Finite(q) == q[2] # 0

Abs(n) == IF n < 0 THEN -n ELSE n
Divides(k, n) == n % k = 0
Gcd(a, b) ==
    CHOOSE k \in 1..b : Divides(k, a) /\ Divides(k, b)
                        /\ \A l \in (k + 1)..b : ~(Divides(l, a) /\ Divides(l, b))

\* The fraction n / d, for any d.
Q(n, d) ==
    IF d = 0 THEN NaN
    ELSE LET g == Gcd(Abs(n), Abs(d))
             s == IF d < 0 THEN -1 ELSE 1
         IN  <<(s * n) \div g, Abs(d) \div g>>
Whole(n) == <<n, 1>>

QAdd(a, b) == Q(a[1] * b[2] + b[1] * a[2], a[2] * b[2])
QNeg(a) == <<-a[1], a[2]>>
QSub(a, b) == QAdd(a, QNeg(b))
QMul(a, b) == Q(a[1] * b[1], a[2] * b[2])
QDiv(a, b) == Q(a[1] * b[2], a[2] * b[1])
QAbs(a) == <<Abs(a[1]), a[2]>>

\* A comparison with NaN is false.
QLt(a, b) == Finite(a) /\ Finite(b) /\ a[1] * b[2] < b[1] * a[2]
QLe(a, b) == Finite(a) /\ Finite(b) /\ a[1] * b[2] <= b[1] * a[2]
QMin(a, b) == IF Finite(b) /\ (~Finite(a) \/ QLt(b, a)) THEN b ELSE a
QMax(a, b) == IF Finite(b) /\ (~Finite(a) \/ QLt(a, b)) THEN b ELSE a

QFloor(a) == IF Finite(a) THEN Whole(a[1] \div a[2]) ELSE NaN
QCeil(a) == QNeg(QFloor(QNeg(a)))
QTrunc(a) == IF a[1] < 0 THEN QCeil(a) ELSE QFloor(a)
\* f64::signum: the sign, and 1 for zero.
QSignum(a) == IF Finite(a) THEN Whole(IF a[1] < 0 THEN -1 ELSE 1) ELSE NaN
\* To the nearest integer, ties to the even one.
QRound(a) ==
    LET f == a[1] \div a[2]
        r == 2 * (a[1] % a[2])
    IN  IF ~Finite(a) THEN NaN
        ELSE Whole(IF r < a[2] \/ (r = a[2] /\ f % 2 = 0) THEN f ELSE f + 1)

QSum(s) == FoldFunction(QAdd, Whole(0), s)
=============================================================================
