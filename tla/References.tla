------------------------------ MODULE References ------------------------------
(***************************************************************************)
(* code.util.ts: references that people read and type.  A character of a   *)
(* reference is its code; the alphabets are those of the code.             *)
(***************************************************************************)
EXTENDS Integers, Sequences, FiniteSets, SequencesExt

CodeOf0 == 48
CodeOfA == 65
Digits == CodeOf0..(CodeOf0 + 9)
Letters == CodeOfA..(CodeOfA + 25)

\* The random part leaves out I, O, 0 and 1.
Clear == (Letters \ {73, 79}) \cup (Digits \ {48, 49})

\* generateTransactionRef: year, month and day, a character each
YearChar(year) == CodeOfA + ((year - 2026 + 12) % 26)
MonthChar(month) == CodeOfA - 1 + month
DayChar(day) == IF day <= 9 THEN CodeOf0 + day ELSE 55 + day
TransactionRefs(year, month, day, length) ==
  {<<YearChar(year), MonthChar(month), DayChar(day)>> \o r : r \in [1..(length - 3) -> Clear]}

\* A faulty variant: two-digit days begin at B.
ValidFromB(ref, length) ==
  /\ Len(ref) = length
  /\ ref[1] \in Letters /\ ref[2] \in CodeOfA..(CodeOfA + 11)
  /\ ref[3] \in (CodeOf0 + 1)..(CodeOf0 + 9) \cup (CodeOfA + 1)..(CodeOfA + 21)
  /\ \A i \in 4..length : ref[i] \in Clear

\* isValidTransactionRef, its regular expressions
IsValidTransactionRef(ref, length) ==
  /\ Len(ref) = length
  /\ ref[1] \in Letters /\ ref[2] \in CodeOfA..(CodeOfA + 11)
  /\ ref[3] \in (CodeOf0 + 1)..(CodeOf0 + 9) \cup CodeOfA..(CodeOfA + 21)
  /\ length > 3 /\ \A i \in 4..length : ref[i] \in Clear

\* generateOTP: randomInt draws from its first argument to before its second.
OTPs(length) == (10 ^ (length - 1))..(10 ^ length - 1)

\* A faulty variant: the digits are not doubled from the right.
CheckDigitFromLeft(digits) ==
  LET doubled == [i \in 1..Len(digits) |->
        IF i % 2 = 0 THEN digits[i] ELSE IF digits[i] > 4 THEN 2 * digits[i] - 9 ELSE 2 * digits[i]]
  IN (10 - (FoldSeq(LAMBDA d, sum : d + sum, 0, doubled) % 10)) % 10

\* luhnCheckDigit: from the right, every other digit is doubled, beginning with the last.
LuhnCheckDigit(digits) ==
  LET doubled == [i \in 1..Len(digits) |->
        IF (Len(digits) - i) % 2 = 1 THEN digits[i]
        ELSE IF digits[i] > 4 THEN 2 * digits[i] - 9 ELSE 2 * digits[i]]
  IN (10 - (FoldSeq(LAMBDA d, sum : d + sum, 0, doubled) % 10)) % 10

IsValidLuhn(digits) == LuhnCheckDigit(Front(digits)) = Last(digits)

----------------------------------------------------------------------------
\* What is generated is recognised, and tells the day among those of 26 years.
DatePart(date) == <<YearChar(date[1]), MonthChar(date[2]), DayChar(date[3])>>
RefsTellDays(date, other) ==
  /\ \A ref \in TransactionRefs(date[1], date[2], date[3], 4) : IsValidTransactionRef(ref, 4)
  /\ date # other /\ date[1] - other[1] \in -25..25 => DatePart(date) # DatePart(other)

\* A valid number stays valid with no wrong digit, and with no two neighbours swapped but
\* 0 and 9.
LuhnDetects(digits) ==
  LET n == Append(digits, LuhnCheckDigit(digits)) IN
    /\ IsValidLuhn(n)
    /\ \A i \in 1..Len(n), d \in 0..9 : d # n[i] => ~IsValidLuhn([n EXCEPT ![i] = d])
    /\ \A i \in 1..(Len(n) - 1) : n[i] # n[i + 1] /\ {n[i], n[i + 1]} # {0, 9} =>
         ~IsValidLuhn([n EXCEPT ![i] = n[i + 1], ![i + 1] = n[i]])
=============================================================================
