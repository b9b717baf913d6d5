------------------------------- MODULE Numbers -------------------------------
(***************************************************************************)
(* math.util.ts on decimal numbers.  A number is <<n, p>>, n / 10^p, with  *)
(* as few places as it needs, which is how String() writes it: in the      *)
(* notation with an exponent when it begins with Small zeros.  What the    *)
(* code does on digits is done on digits here; the floats in between are   *)
(* taken as exact.                                                         *)
(***************************************************************************)
EXTENDS Integers, Sequences, SequencesExt

CONSTANT Small  \* String() writes 10^-Small and less with an exponent (7 in JavaScript)

NumbersAssumption == Small \in Nat \ {0}

Abs(n) == IF n < 0 THEN -n ELSE n
Sign(n) == IF n < 0 THEN -1 ELSE IF n > 0 THEN 1 ELSE 0

\* n / 10^p with as few places as possible, and the fraction n / d as Math.round and
\* Math.trunc see it.
Number[n \in Int, p \in Nat] == IF p > 0 /\ n % 10 = 0 THEN Number[n \div 10, p - 1] ELSE <<n, p>>
RoundHalfUp(n, d) == (2 * n + d) \div (2 * d)
Truncate(n, d) == Sign(n) * (Abs(n) \div d)

DigitCount[n \in Nat] == IF n < 10 THEN 1 ELSE 1 + DigitCount[n \div 10]
HasExponent(x) == x[1] # 0 /\ x[2] - DigitCount[Abs(x[1])] >= Small - 1

\* decimalPlaces: the notation with an exponent is recognised when its mantissa has a point.
DecimalPlaces(x) ==
  IF HasExponent(x) /\ DigitCount[Abs(x[1])] = 1 THEN 0 ELSE x[2]

\* scaleUp: the digits up to the place; parseInt stops at an exponent.
ScaleUp(x, places) ==
  IF HasExponent(x) THEN x[1]
  ELSE IF places >= x[2] THEN x[1] * 10 ^ (places - x[2])
  ELSE Truncate(x[1], 10 ^ (x[2] - places))

Larger(a, b) == IF a >= b THEN a ELSE b
\* A faulty variant: the decimals of the second number are forgotten.
FirstDecimals(a, b) == DecimalPlaces(a)

MaxDecimals(a, b) == Larger(DecimalPlaces(a), DecimalPlaces(b))

\* preciseAdd, preciseSubtract, preciseMultiply
PreciseAdd(a, b) == LET dp == MaxDecimals(a, b) IN Number[ScaleUp(a, dp) + ScaleUp(b, dp), dp]
PreciseSubtract(a, b) == LET dp == MaxDecimals(a, b) IN Number[ScaleUp(a, dp) - ScaleUp(b, dp), dp]
PreciseMultiply(a, b) ==
  LET dpA == DecimalPlaces(a)  dpB == DecimalPlaces(b)
  IN Number[ScaleUp(a, dpA) * ScaleUp(b, dpB), dpA + dpB]

\* preciseDivide, of b # 0: the quotient to some decimals
PreciseDivide(a, b, precision) ==
  LET dp == MaxDecimals(a, b)  s == Sign(ScaleUp(b, dp))
  IN Number[RoundHalfUp(s * ScaleUp(a, dp) * 10 ^ precision, Abs(ScaleUp(b, dp))), precision]

\* value * 10^decimals as a fraction
Shifted(x, decimals) == <<x[1] * 10 ^ decimals, 10 ^ x[2]>>

RoundTo(x, decimals) ==
  LET s == Shifted(x, decimals) IN Number[RoundHalfUp(s[1], s[2]), decimals]
TruncateDecimals(x, decimals) ==
  LET s == Shifted(x, decimals) IN Number[Truncate(s[1], s[2]), decimals]
FloorTo(x, decimals) == LET s == Shifted(x, decimals) IN Number[s[1] \div s[2], decimals]
CeilTo(x, decimals) == LET s == Shifted(x, decimals) IN Number[-((-s[1]) \div s[2]), decimals]

\* bankersRound: halves to the even neighbour
BankersRound(x, decimals) ==
  LET s == Shifted(x, decimals)
      truncated == Truncate(s[1], s[2])
      remainder == Abs(s[1] - truncated * s[2])
  IN IF 2 * remainder # s[2] THEN RoundTo(x, decimals)
     ELSE IF truncated % 2 = 0 THEN Number[truncated, decimals]
     ELSE Number[truncated + Sign(s[1]), decimals]

Clamp(value, low, high) ==
  LET raised == Larger(value, low) IN IF raised <= high THEN raised ELSE high

\* percentage and percentageChange, of whole numbers
Percentage(value, total) ==
  IF total = 0 THEN <<0, 0>> ELSE Number[RoundHalfUp(Sign(total) * value * 10000, Abs(total)), 2]
PercentageChange(old, new) ==
  IF old = 0 THEN (IF new = 0 THEN <<0, 0>> ELSE <<100, 0>>)
  ELSE Number[RoundHalfUp((new - old) * 10000, Abs(old)), 2]

\* sum; average as a fraction; median, doubled so that it is whole
SumOf(values) == FoldSeq(LAMBDA v, acc : v + acc, 0, values)
Average(values) == IF values = <<>> THEN <<0, 1>> ELSE <<SumOf(values), Len(values)>>
Median(values) ==
  IF values = <<>> THEN 0
  ELSE LET sorted == SortSeq(values, <)
           mid == Len(sorted) \div 2
       IN IF Len(sorted) % 2 # 0 THEN 2 * sorted[mid + 1] ELSE sorted[mid] + sorted[mid + 1]

----------------------------------------------------------------------------
\* a <= b, |a - b|, and a number of places, as wholes at a common place
At(x, places) == x[1] * 10 ^ (places - x[2])
Common(x, y) == Larger(x[2], y[2])

ExactSum(a, b) == LET p == Common(a, b) IN Number[At(a, p) + At(b, p), p]
ExactDifference(a, b) == LET p == Common(a, b) IN Number[At(a, p) - At(b, p), p]
ExactProduct(a, b) == Number[a[1] * b[1], a[2] + b[2]]

\* "Precision Arithmetic": sums, differences and products are exact, without the notation
\* with an exponent.
Precise(a, b) ==
  /\ PreciseAdd(a, b) = ExactSum(a, b)
  /\ PreciseSubtract(a, b) = ExactDifference(a, b)
  /\ PreciseMultiply(a, b) = ExactProduct(a, b)
  /\ b[1] # 0 => LET q == PreciseDivide(a, b, 2)
                     p == Larger(2 + b[2], a[2])
                     error == Abs(At(<<q[1] * b[1], q[2] + b[2]>>, p) - At(a, p))
                 IN 200 * error <= Abs(At(b, p))

\* |x - y| at the place of x
Distance(x, y) == Abs(x[1] - At(y, x[2]))

\* Rounding: bankersRound takes the nearest, and of two the even one; floor, truncation and
\* ceiling lie in order around the number, with no other multiple between them.
Rounds(x, decimals) ==
  decimals <= x[2] =>
    LET unit == 10 ^ (x[2] - decimals)
        b == BankersRound(x, decimals)
        low == FloorTo(x, decimals)  high == CeilTo(x, decimals)
    IN /\ 2 * Distance(x, b) <= unit
       /\ 2 * Distance(x, b) = unit => At(b, decimals) % 2 = 0
       /\ At(low, x[2]) <= x[1] /\ x[1] <= At(high, x[2])
       /\ At(high, x[2]) - At(low, x[2]) <= unit
       /\ TruncateDecimals(x, decimals) = IF x[1] >= 0 THEN low ELSE high
       /\ RoundTo(x, decimals) \in {low, high} /\ 2 * Distance(x, RoundTo(x, decimals)) <= unit

\* Statistics: as many values lie below the median as above; the mean and the median lie
\* between the least and the greatest; shares of a total add up to a hundred but for the
\* rounding of each.
Statistics(values) ==
  LET n == Len(values)
      below == Len(SelectSeq(values, LAMBDA v : 2 * v < Median(values)))
      above == Len(SelectSeq(values, LAMBDA v : 2 * v > Median(values)))
      total == SumOf(values)
      shares == [i \in 1..n |-> At(Percentage(values[i], total), 2)]
  IN /\ 2 * below <= n /\ 2 * above <= n
     /\ \A i \in 1..n : (\A j \in 1..n : values[i] <= values[j]) =>
          /\ 2 * values[i] <= Median(values)
          /\ values[i] * Average(values)[2] <= Average(values)[1]
          /\ Clamp(values[i], values[1], values[n]) \in {values[1], values[n], values[i]}
     /\ total > 0 => 2 * Abs(SumOf(shares) - 10000) <= n
     /\ n >= 2 /\ values[1] > 0 => At(PercentageChange(values[1], values[2]), 2) >= -10000
=============================================================================
