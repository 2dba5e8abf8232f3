------------------------------- MODULE Decimals -------------------------------
(* Decimal (decimal.go): an unscaled integer u and a scale s, worth u * 10^-s. *)
(* The same number has many forms; only Cmp tells whether two are equal, and   *)
(* it has to without aligning scales that are far apart.                       *)
(* Integers are those of the checker: |u| stays below 10^9.                    *)
EXTENDS Integers, FiniteSets

CONSTANTS MinScale,                          \* the least scale the width allows
          Log10Of2Lo, Log10Of2Hi, Log10Shift \* log10(2) from below and above

NoDecimal == [u |-> 0, s |-> MinScale - 1]

Abs(n) == IF n < 0 THEN -n ELSE n
Sign(n) == IF n < 0 THEN -1 ELSE IF n = 0 THEN 0 ELSE 1
Zero(scale) == [u |-> 0, s |-> scale]

\* Decimal digits and bits of an integer; zero has one digit.
Precision(d) == 1 + Cardinality({k \in 1 .. 9 : 10 ^ k <= Abs(d.u)})
BitLen(n) == Cardinality({k \in 0 .. 30 : 2 ^ k <= Abs(n)})

\* big.Int.QuoRem truncates towards zero.
Quo(n, m) == Sign(n) * (Abs(n) \div m)
Rem(n, m) == n - m * Quo(n, m)

\* The scale may not leave its width.
StripTrailingZeros(d) ==
    LET zeros == Cardinality({k \in 1 .. 9 : Rem(d.u, 10 ^ k) = 0})
        k == IF zeros > d.s - MinScale THEN d.s - MinScale ELSE zeros
    IN  IF d.u = 0 THEN Zero(0) ELSE [u |-> Quo(d.u, 10 ^ k), s |-> d.s - k]

\* Exact, or NoDecimal where digits would be lost.
SetScale(d, scale) ==
    LET down == d.s - scale
    IN  CASE d.u = 0   -> Zero(scale)
          [] down <= 0 -> [u |-> d.u * 10 ^ (-down), s |-> scale]
          [] OTHER     -> IF down > Precision(d) \/ Rem(d.u, 10 ^ down) # 0
                          THEN NoDecimal
                          ELSE [u |-> Quo(d.u, 10 ^ down), s |-> scale]

\* What rounding adds to the truncated quotient.
Carry(mode, sign) == CASE mode = "ceiling" /\ sign > 0 -> 1
                       [] mode = "floor" /\ sign < 0   -> -1
                       [] OTHER                        -> 0

\* A divisor of more digits than the value leaves only its sign to round.
RoundToScale(d, scale, mode) ==
    LET down == d.s - scale
    IN  CASE down <= 0           -> SetScale(d, scale)
          [] down > Precision(d) -> [u |-> Carry(mode, Sign(d.u)), s |-> scale]
          [] OTHER -> [u |-> Quo(d.u, 10 ^ down)
                               + Carry(mode, Sign(Rem(d.u, 10 ^ down))), s |-> scale]

\* Rounding up may carry into a digit more, 99 to 100, which is given back.
RoundToPrecision(d, digits, mode) ==
    LET r == RoundToScale(d, d.s - (Precision(d) - digits), mode)
    IN  CASE Precision(d) <= digits -> d
          [] Precision(r) > digits  -> SetScale(r, r.s - 1)
          [] OTHER                  -> r

DigitsLo(n) == ((BitLen(n) - 1) * Log10Of2Lo) \div 2 ^ Log10Shift + 1
DigitsHi(n) == (BitLen(n) * Log10Of2Hi) \div 2 ^ Log10Shift + 1

\* By sign, then by bounds on the magnitudes, then by the magnitudes; only
\* numbers of one magnitude are aligned.
Cmp(d, e) ==
    LET target == IF d.s > e.s THEN d.s ELSE e.s
    IN  CASE Sign(d.u) # Sign(e.u) -> IF Sign(d.u) < Sign(e.u) THEN -1 ELSE 1
          [] d.u = 0               -> 0
          [] d.s = e.s             -> Sign(d.u - e.u)
          [] DigitsLo(d.u) - d.s > DigitsHi(e.u) - e.s -> Sign(d.u)
          [] DigitsHi(d.u) - d.s < DigitsLo(e.u) - e.s -> -Sign(d.u)
          [] Precision(d) - d.s > Precision(e) - e.s   -> Sign(d.u)
          [] Precision(d) - d.s < Precision(e) - e.s   -> -Sign(d.u)
          [] OTHER -> Sign(SetScale(d, target).u - SetScale(e, target).u)
=============================================================================
