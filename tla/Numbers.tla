------------------------------ MODULE Numbers -------------------------------
(***************************************************************************)
(* String/Parsing: integers from text and text from integers.  ToInt has   *)
(* two implementations, one with the overflow tests of the compiler and    *)
(* one that computes in a wider type.  A signed type has the values from   *)
(* -limit to limit - 1, an unsigned one those from 0 to limit - 1; the     *)
(* limit of a type that is computed in two halves is half * half.          *)
(* A result is a number, or the kind of the exception.                     *)
(***************************************************************************)
EXTENDS Texts

Minus == 45

Num(n) == <<"number", n>>
Error(kind) == <<kind, 0>>

(* charToInt, with the test against the base; -1 is its exception. *)
charToInt(c, base) ==
  LET v == CASE c \in 48..57 -> c - 48
             [] c \in 65..90 -> c - 55
             [] c \in 97..122 -> c - 87
             [] OTHER -> base
  IN  IF v < base THEN v ELSE -1

ValidBase(base) == base \in 2..36

(* negSign, and the plus that the unsigned types accept *)
Negative(s) == s # <<>> /\ s[1] = Minus
Unsigned(s) == IF s # <<>> /\ s[1] = Plus THEN Tail(s) ELSE s
Absolute(s) == IF Negative(s) THEN Tail(s) ELSE Unsigned(s)

-----------------------------------------------------------------------------
(* FAST_OVERFLOW_CHECKS *)

(* Mutant of Accumulate: only the product is tested. *)
AccumulateHalf(s, base, sign, low, high) ==
  LET sum[i \in 0..Len(s)] ==
        IF i = 0 THEN Num(0)
        ELSE LET before == sum[i - 1]
                 v == charToInt(s[i], base)
                 product == before[2] * base
             IN  IF before[1] # "number" THEN before
                 ELSE IF v = -1 THEN Error("not a number")
                 ELSE IF product \notin low..high THEN Error("overflow")
                 ELSE Num(product + sign * v)
  IN  sum[Len(s)]

(* result * base + numVal, or - numVal, in a type from low to high *)
Accumulate(s, base, sign, low, high) ==
  LET sum[i \in 0..Len(s)] ==
        IF i = 0 THEN Num(0)
        ELSE LET before == sum[i - 1]
                 v == charToInt(s[i], base)
                 product == before[2] * base
             IN  IF before[1] # "number" THEN before
                 ELSE IF v = -1 THEN Error("not a number")
                 ELSE IF product \notin low..high \/ product + sign * v \notin low..high
                   THEN Error("overflow")
                 ELSE Num(product + sign * v)
  IN  sum[Len(s)]

Sign(s) == IF Negative(s) THEN -1 ELSE 1

FastSigned(s, base, limit) ==
  IF ~ValidBase(base) THEN Error("base")
  ELSE Accumulate(Absolute(s), base, Sign(s), -limit, limit - 1)

FastUnsigned(s, base, limit) ==
  IF ~ValidBase(base) THEN Error("base")
  ELSE Accumulate(Unsigned(s), base, 1, 0, limit - 1)

-----------------------------------------------------------------------------
(* Without them *)

(* 16 and 32 bits: in a wider type, and against `limit' after each digit. *)
WideSum(s, base, limit) == Accumulate(s, base, 1, 0, limit)

(* The absolute value may be one too large. *)
SlowSigned(s, base, limit) ==
  LET r == WideSum(Absolute(s), base, limit)
  IN  IF s = <<>> THEN Num(0)
      ELSE IF ~ValidBase(base) THEN Error("base")
      ELSE IF r[1] # "number" THEN r
      ELSE IF Negative(s) THEN Num(-r[2])
      ELSE IF r[2] = limit THEN Error("overflow") ELSE r

SlowUnsigned(s, base, limit) ==
  IF ~ValidBase(base) THEN Error("base") ELSE WideSum(Unsigned(s), base, limit - 1)

(* 64 bits: in two halves, the upper one with room for a carry. *)
SlowUnsigned64(s, base, half) ==
  LET digits == Unsigned(s)
      sum[i \in 0..Len(digits)] ==
        IF i = 0 THEN <<"number", 0, 0>>
        ELSE LET before == sum[i - 1]
                 v == charToInt(digits[i], base)
                 lower == before[3] * base + v
                 upper == before[2] * base + lower \div half
             IN  IF before[1] # "number" THEN before
                 ELSE IF v = -1 THEN <<"not a number", 0, 0>>
                 ELSE IF upper >= half THEN <<"overflow", 0, 0>>
                 ELSE <<"number", upper, lower % half>>
      r == sum[Len(digits)]
  IN  IF ~ValidBase(base) THEN Error("base")
      ELSE <<r[1], r[2] * half + r[3]>>

(* The unsigned function reads what follows the sign, another plus too. *)
SlowSigned64(s, base, half) ==
  LET r == SlowUnsigned64(Absolute(s), base, half)
      limit == (half * half) \div 2
  IN  IF s = <<>> THEN Num(0)
      ELSE IF r[1] # "number" THEN r
      ELSE IF r[2] > limit \/ (r[2] = limit /\ ~Negative(s)) THEN Error("overflow")
      ELSE Num(IF Negative(s) THEN -r[2] ELSE r[2])

-----------------------------------------------------------------------------

(* ToCStringBase10: what is written, and the length that is returned, which *)
(* is that of the digits: the sign is not counted.                          *)
ToCStringBase10(n) ==
  LET digits == Digits(IF n < 0 THEN -n ELSE n, 10)
  IN  [target |-> IF n < 0 THEN <<Minus>> \o digits ELSE digits,
       result |-> Len(digits)]

-----------------------------------------------------------------------------
(* What the digits of a text say *)

AreDigits(digits, base) == \A i \in 1..Len(digits) : charToInt(digits[i], base) # -1

Value(digits, base) ==
  LET sum[i \in 0..Len(digits)] ==
        IF i = 0 THEN 0 ELSE sum[i - 1] * base + charToInt(digits[i], base)
  IN  sum[Len(digits)]

(* r is value, or an error where there is none between low and high. *)
Is(r, isNumber, value, low, high) ==
  IF isNumber /\ value \in low..high THEN r = Num(value) ELSE r[1] # "number"

(* SlowSigned64 takes one sign away, and SlowUnsigned64 another one. *)
TwoSigns(s) == Absolute(s) # s /\ Unsigned(Absolute(s)) # Absolute(s)

(***************************************************************************)
(* Both implementations of ToInt give the number that is written, for the  *)
(* types it fits in, and an exception otherwise, at every limit.  (In one  *)
(* of them the empty text is 0 to any base, and a plus may follow a sign.) *)
(***************************************************************************)
IntegersAreRead(s, base, half) ==
  LET limit == (half * half) \div 2
      Signed(r) == Is(r, ValidBase(base) /\ AreDigits(Absolute(s), base),
                      Sign(s) * Value(Absolute(s), base), -limit, limit - 1)
      Plain(r) == Is(r, ValidBase(base) /\ AreDigits(Unsigned(s), base),
                     Value(Unsigned(s), base), 0, half * half - 1)
  IN  /\ Signed(FastSigned(s, base, limit))
      /\ Plain(FastUnsigned(s, base, half * half))
      /\ s # <<>> => Signed(SlowSigned(s, base, limit))
      /\ Plain(SlowUnsigned(s, base, half * half))
      /\ Plain(SlowUnsigned64(s, base, half))
      /\ s # <<>> /\ ~TwoSigns(s) => Signed(SlowSigned64(s, base, half))
=============================================================================
