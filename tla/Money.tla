-------------------------------- MODULE Money --------------------------------
(***************************************************************************)
(* money.util.ts: amounts in integer minor units, split, added, taken      *)
(* apart by a percentage and converted.  A purse holds what became of one  *)
(* amount after any sequence of these calls.  A rate is a float: what is   *)
(* derived from rates is rounded to Mantissa bits, and the rate that is    *)
(* converted with to RateScale parts (rateToBigInt), as in the code.       *)
(***************************************************************************)
EXTENDS Integers, Sequences, SequencesExt

CONSTANTS
  Currencies,  \* the currencies that occur
  Decimals,    \* CURRENCY_CONFIG: minor digits of the known currencies
  RateScale,   \* RATE_SCALE
  Mantissa,    \* the bits of a float (53 in JavaScript)
  Amounts,     \* bound: the amounts to begin with, in minor units
  Parts,       \* bound: numbers of parts
  Percents,    \* bound: percentages
  Rates,       \* bound: rates, floats as <<numerator, denominator>>
  MaxPurse     \* bound: the entries of a purse

MoneyAssumption ==
  /\ RateScale \in Nat \ {0} /\ Mantissa \in Nat \ {0} /\ Parts \subseteq Nat \ {0} /\ MaxPurse \in Nat
  /\ Amounts \subseteq Int /\ Percents \subseteq Int
  /\ \A r \in Rates : r \in (Nat \X (Nat \ {0}))
  /\ \A c \in DOMAIN Decimals : Decimals[c] \in Nat

VARIABLE
  purse  \* the amounts at hand

----------------------------------------------------------------------------
\* getConfig: unknown currencies have two decimals.
Factor(currency) == 10 ^ (IF currency \in DOMAIN Decimals THEN Decimals[currency] ELSE 2)

\* Math.round: half up, also below zero.
Round(n, d) == (2 * n + d) \div (2 * d)

\* The division of BigInt drops the fraction.
BigQuotient(n, d) == IF n >= 0 THEN n \div d ELSE -((-n) \div d)

MoneyOf(amount, currency) == [amount |-> amount, currency |-> currency]

\* toMinorUnits and toMajorUnits, of the fraction n / d
MinorUnits(n, d, currency) == Round(n * Factor(currency), d)
MajorUnits(minor, currency) == <<minor, Factor(currency)>>

\* addMoney and subtractMoney throw unless the currencies agree.
SameCurrency(a, b) == a.currency = b.currency
AddMoney(a, b) == MoneyOf(a.amount + b.amount, a.currency)
SubtractMoney(a, b) == MoneyOf(a.amount - b.amount, a.currency)
CompareMoney(a, b) == IF a.amount < b.amount THEN -1 ELSE IF a.amount > b.amount THEN 1 ELSE 0

\* multiplyMoney by the fraction n / d, and percentOf
MultiplyMoney(m, n, d) == MoneyOf(Round(m.amount * n, d), m.currency)
PercentOf(m, percent) == MultiplyMoney(m, percent, 100)

\* A faulty variant: the remainder is not distributed.
SplitEqually(m, parts) ==
  LET base == m.amount \div parts IN [i \in 1..parts |-> MoneyOf(base, m.currency)]

\* splitMoney: the first parts take one unit more each.
SplitMoney(m, parts) ==
  LET base == m.amount \div parts
      remainder == m.amount - base * parts
  IN [i \in 1..parts |-> MoneyOf(base + (IF i <= remainder THEN 1 ELSE 0), m.currency)]

----------------------------------------------------------------------------
\* rateToBigInt: toFixed rounds to the nearest, half up.
Scaled(rate) == Round(rate[1] * RateScale, rate[2])

\* A faulty variant: the result is cut, not rounded.
ConvertDown(m, rate, to) ==
  MoneyOf(BigQuotient(m.amount * Scaled(rate) * Factor(to), Factor(m.currency) * RateScale), to)

\* convertMoney, "round half up"
ConvertMoney(m, rate, to) ==
  LET numerator == m.amount * Scaled(rate) * Factor(to)
      denominator == Factor(m.currency) * RateScale
  IN MoneyOf(BigQuotient(numerator + denominator \div 2, denominator), to)

\* The float nearest to a fraction n / d, the even one of two: a mantissa of that many bits, and
\* the power of two it is divided by.  None is too large or too small to be one.
Exponents == (-2 * Mantissa)..(2 * Mantissa)
Power(k) == IF k > 0 THEN 2 ^ k ELSE 1
NearestEven(n, d) ==
  IF (2 * n) % (2 * d) = d /\ (n \div d) % 2 = 0 THEN n \div d ELSE Round(n, d)
FloatOf(r) ==
  LET n == IF r[1] < 0 THEN -r[1] ELSE r[1]
      k == CHOOSE k \in Exponents :
             /\ 2 ^ (Mantissa - 1) * r[2] * Power(-k) <= n * Power(k)
             /\ n * Power(k) < 2 ^ Mantissa * r[2] * Power(-k)
      nearest == NearestEven(n * Power(k), r[2] * Power(-k)) * Power(-k)
  IN IF n = 0 THEN <<0, 1>> ELSE <<IF r[1] < 0 THEN -nearest ELSE nearest, Power(k)>>

Times(a, b) == FloatOf(<<a[1] * b[1], a[2] * b[2]>>)
Plus(a, b) == FloatOf(<<a[1] * b[2] + b[1] * a[2], a[2] * b[2]>>)
Over(a, b) == FloatOf(<<a[1] * b[2], a[2] * b[1]>>)

\* inverseRate; crossRate of X to Y and X to Z, and of X to Y and Y to Z
InverseRate(r) == Over(<<1, 1>>, r)
\* (CrossTurned is a faulty variant.)
CrossTurned(a, b) == Over(a, b)
CrossRate(a, b) == Over(b, a)
ChainRate(a, b) == Times(a, b)
\* applySpread, midRate
ApplySpread(r, percent) == Times(r, Plus(<<1, 1>>, Over(<<percent, 1>>, <<100, 1>>)))
MidRate(buy, sell) == Over(Plus(buy, sell), <<2, 1>>)

----------------------------------------------------------------------------
Init == \E a \in Amounts, c \in Currencies : purse = <<MoneyOf(a, c)>>

Without(i) == RemoveAt(purse, i)

Split(i, parts) ==
  /\ Len(purse) + parts - 1 <= MaxPurse
  /\ purse' = Without(i) \o SplitMoney(purse[i], parts)

Add(i, j) ==
  /\ i < j /\ SameCurrency(purse[i], purse[j])
  /\ purse' = RemoveAt(Without(j), i) \o <<AddMoney(purse[i], purse[j])>>

\* A fee or a discount: percentOf, and the rest by subtractMoney.
Deduct(i, percent) ==
  LET fee == PercentOf(purse[i], percent) IN
    /\ Len(purse) < MaxPurse
    /\ purse' = Without(i) \o <<fee, SubtractMoney(purse[i], fee)>>

Next == \E i \in 1..Len(purse) :
  \/ \E parts \in Parts : Split(i, parts)
  \/ \E j \in 1..Len(purse) : Add(i, j)
  \/ \E percent \in Percents : Deduct(i, percent)

Spec == Init /\ [][Next]_purse

----------------------------------------------------------------------------
TypeOK == purse \in Seq([amount : Int, currency : Currencies])

\* The amounts of ms up to each of them, added up.
Sums(ms) == LET sum[i \in 0..Len(ms)] == IF i = 0 THEN 0 ELSE sum[i - 1] + ms[i].amount IN sum
TotalOf(ms) == Sums(ms)[Len(ms)]

\* "so the total is always exact": whatever is split, added and deducted, in whatever
\* order, the purse holds what it held.
Conserved == [][TotalOf(purse') = TotalOf(purse)]_purse

\* splitMoney, "equal parts": they differ by one unit at most, the larger come first.
SplitFairly ==
  \A i \in 1..Len(purse), parts \in Parts :
    LET s == SplitMoney(purse[i], parts) IN
      \A j, k \in 1..parts : j <= k => CompareMoney(s[j], s[k]) \in {0, 1} /\ s[j].amount <= s[k].amount + 1

\* The exact result of a conversion, and how far an amount may be from it.
NearestUnit(m, rate, to, result) ==
  LET exact == m.amount * Scaled(rate) * Factor(to)
      unit == Factor(m.currency) * RateScale
  IN 2 * exact < (2 * result.amount + 1) * unit /\ 2 * exact >= (2 * result.amount - 1) * unit

\* convertMoney, "round half up", of the amounts that are not negative.
ConvertsToNearest ==
  \A i \in 1..Len(purse), rate \in Rates, to \in Currencies :
    purse[i].amount >= 0 => NearestUnit(purse[i], rate, to, ConvertMoney(purse[i], rate, to))

\* The same of every amount, a refund included.
ConvertsRefunds ==
  \A i \in 1..Len(purse), rate \in Rates, to \in Currencies :
    NearestUnit(purse[i], rate, to, ConvertMoney(purse[i], rate, to))

\* The rates derived from others cohere, as far as the bits of a float and the parts of a rate
\* allow: there and back is one, a cross rate is the way on by the other of its rates and the
\* way back and on, the middle lies between, and a spread of no less than 0 lowers no rate.
Close(a, b, parts, exact) ==
  LET error == IF a < b THEN b - a ELSE a - b IN
  2 ^ Mantissa * (2 * error - parts) <= 2 * exact
RatesCohere ==
  \A r, q \in {x \in Rates : x[1] > 0} :
    LET there == Scaled(r)  back == Scaled(InverseRate(r))  on == Scaled(q)
        cross == Scaled(CrossRate(r, q))  chain == Scaled(ChainRate(InverseRate(r), q))
    IN /\ Close(there * back, RateScale * RateScale, there + back + 1, RateScale * RateScale)
       /\ Close(there * cross, on * RateScale, there + cross + RateScale + 1, (on + 1) * RateScale)
       /\ Close(cross, chain, 2, 4 * (cross + 1))
       /\ there <= on => Scaled(MidRate(r, q)) \in there..on
       /\ Scaled(ApplySpread(r, 0)) = there
       /\ \A percent \in Percents : percent >= 0 => Scaled(ApplySpread(r, percent)) >= there

\* toMinorUnits undoes toMajorUnits.
UnitsReturn ==
  \A i \in 1..Len(purse) :
    LET m == purse[i]  major == MajorUnits(m.amount, m.currency)
    IN MinorUnits(major[1], major[2], m.currency) = m.amount

MoneyExact == SplitFairly /\ ConvertsToNearest /\ RatesCohere /\ UnitsReturn
=============================================================================
