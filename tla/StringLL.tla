-------------------------------- MODULE StringLL --------------------------------
(***************************************************************************)
(* util.c and the same conversion in sds.c: integers and their texts.      *)
(* LLMax is LLONG_MAX and Radix is 10: smaller ones bring the limits and   *)
(* the twelve digits of a round of digits10 into reach.                    *)
(* A text is a sequence of characters: the digits are the numbers below    *)
(* Radix, Minus the sign; any other number is another character.           *)
(***************************************************************************)
EXTENDS Integers, Sequences, SequencesExt

CONSTANTS Radix, LLMax

ASSUME StringLLAssumption == Radix \in Nat /\ Radix > 2 /\ LLMax \in Nat /\ LLMax > Radix

ULLMax == 2 * LLMax + 1
LLMin == -LLMax - 1
Minus == Radix
Digits == 0 .. Radix - 1

\* An unsigned number keeps the width of unsigned long long.
Unsigned(v) == v % (ULLMax + 1)

\* Mutant: the lowest number has no magnitude of its own.
MagnitudeSaturates(v) == IF v = LLMin THEN LLMax ELSE IF v < 0 THEN -v ELSE v

\* (unsigned) -value, LLMin too.
Magnitude(v) == IF v < 0 THEN Unsigned(-v) ELSE v

-------------------------------------------------------------------------------
One(b) == IF b THEN 1 ELSE 0

\* Number of digits, by a tree of comparisons up to twelve digits.
RECURSIVE digits10(_)
digits10(v) ==
  IF v < Radix ^ 3 THEN CHOOSE d \in 1 .. 3 : v < Radix ^ d /\ (d = 1 \/ v >= Radix ^ (d - 1))
  ELSE IF v >= Radix ^ 12 THEN 12 + digits10(v \div Radix ^ 12)
  ELSE IF v < Radix ^ 4 THEN 4
  ELSE IF v < Radix ^ 6 THEN 5 + One(v >= Radix ^ 5)
  ELSE IF v < Radix ^ 8 THEN 7 + One(v >= Radix ^ 7)
  ELSE IF v < Radix ^ 10 THEN 9 + One(v >= Radix ^ 9)
  ELSE 11 + One(v >= Radix ^ 11)

\* The digits of v into dst up to place next, two at a time from the right.
RECURSIVE WritePairs(_, _, _)
WritePairs(v, next, dst) ==
  LET low == [dst EXCEPT ![next] = v % Radix]
      pair == [low EXCEPT ![next - 1] = (v \div Radix) % Radix]
  IN  IF v >= Radix * Radix THEN WritePairs(v \div (Radix * Radix), next - 2, pair)
      ELSE IF v < Radix THEN low ELSE pair

\* The text, in dst[0 .. length - 1]; << >> is a buffer that is too small.
ll2string(dstlen, svalue) ==
  LET value == Magnitude(svalue)
      length == digits10(value) + One(svalue < 0)
      dst == WritePairs(value, length, [k \in 1 .. length |-> Minus + 1])
  IN  IF length >= dstlen THEN << >>
      ELSE IF svalue < 0 THEN [dst EXCEPT ![1] = Minus] ELSE dst

RECURSIVE LowDigits(_)
LowDigits(v) == IF v < Radix THEN <<v>> ELSE <<v % Radix>> \o LowDigits(v \div Radix)

\* The digits come out in reverse, the sign last; then the text is turned round.
sdsll2str(value) ==
  Reverse(LowDigits(Magnitude(value)) \o (IF value < 0 THEN <<Minus>> ELSE << >>))

sdsull2str(v) == Reverse(LowDigits(v))

-------------------------------------------------------------------------------
(* string2ll                                                               *)

Refused == [ok |-> FALSE, val |-> 0]
Read(v) == [ok |-> TRUE, val |-> v]

\* Mutant: only the multiplication is checked for overflow.
AddDigitUnchecked(v, c) ==
  IF v = -1 \/ c \notin Digits \/ v > ULLMax \div Radix THEN -1
  ELSE Unsigned(Unsigned(v * Radix) + c)

\* One round of the loop; -1 once it has given up.
AddDigit(v, c) ==
  IF v = -1 \/ c \notin Digits \/ v > ULLMax \div Radix THEN -1
  ELSE IF Unsigned(v * Radix) > ULLMax - c THEN -1
  ELSE Unsigned(v * Radix) + c

string2ll(s) ==
  LET negative == s # << >> /\ s[1] = Minus
      digits == IF negative THEN Tail(s) ELSE s
      v == FoldLeft(AddDigit, digits[1], Tail(digits))
  IN  IF s = <<0>> THEN Read(0)
      ELSE IF digits = << >> THEN Refused
      ELSE IF digits[1] \notin Digits \ {0} THEN Refused
      ELSE IF v = -1 THEN Refused
      ELSE IF negative THEN (IF v > LLMax + 1 THEN Refused ELSE Read(-v))
      ELSE IF v > LLMax THEN Refused ELSE Read(v)

-------------------------------------------------------------------------------
(* What the conversions should do                                          *)

\* The number a text of digits stands for.
ValueOf(digits) == FoldLeft(LAMBDA v, c : v * Radix + c, 0, digits)

\* t is how the number v is written: no leading zero, no zero with a sign.
IsTextOf(t, v) ==
  LET digits == IF v < 0 THEN Tail(t) ELSE t IN
  /\ t # << >> /\ (v < 0 => t[1] = Minus) /\ digits # << >>
  /\ \A i \in DOMAIN digits : digits[i] \in Digits
  /\ digits[1] = 0 => digits = <<0>>
  /\ ValueOf(digits) = IF v < 0 THEN -v ELSE v
===============================================================================
