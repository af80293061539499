---------------------------- MODULE FloatingPoint ----------------------------
(***************************************************************************)
(* Floating-point numbers as the processor has them: a number of so many   *)
(* bits, rounded to nearest or even, infinity, or none (NaN).  A format    *)
(* has 3, 6 or 8 bytes of them, where an int has 4 and a long 8, as 24, 53 *)
(* and 64 bits are to 32 and 64.                                           *)
(*                                                                         *)
(* Numbers are counted in sixteenths.  A result that is none of them is    *)
(* Fine: no program that has one is looked at.  Zero has no sign.          *)
(***************************************************************************)
EXTENDS Integers

CONSTANT ByteBits   \* bits of a byte

Unit == 16
Infinity == 2 ^ 30
NaN == Infinity + 1
Fine == Infinity + 2

FloatTypes == {"float", "double", "ldouble"}
Precision(ty) == ByteBits * (CASE ty = "float" -> 3 [] ty = "double" -> 6 [] ty = "ldouble" -> 8)
\* Numbers of a format are below this, which is above all integers.
Limit(ty) == Unit * 2 ^ (8 * ByteBits + (CASE ty = "float" -> 2 [] ty = "double" -> 4 [] ty = "ldouble" -> 6))

Magnitude(x) == IF x < 0 THEN -x ELSE x
Sign(x) == IF x < 0 THEN -1 ELSE 1
IsNumber(x) == Magnitude(x) < Infinity
Endless(x) == Magnitude(x) = Infinity
IsZero(x) == x = 0
Minus(x) == IF IsNumber(x) \/ Endless(x) THEN -x ELSE x

\* How many bits there are too many, and the nearest multiple of a unit.
Excess(size, bits) ==
  CHOOSE i \in 0 .. 30 : size < 2 ^ (bits + i) /\ (i = 0 \/ size >= 2 ^ (bits + i - 1))
Nearest(size, unit) ==
  LET whole == size \div unit
      rest == 2 * (size % unit)
  IN  unit * IF rest > unit \/ (rest = unit /\ whole % 2 = 1) THEN whole + 1 ELSE whole
Bounded(size, limit) == IF size >= limit THEN Infinity ELSE size
Rounded(x, ty) ==
  IF IsNumber(x)
    THEN Sign(x) * Bounded(Nearest(Magnitude(x), 2 ^ Excess(Magnitude(x), Precision(ty))), Limit(ty))
    ELSE x

OfInt(v) == Unit * v
\* Towards zero.
Truncated(x) == Sign(x) * (Magnitude(x) \div Unit)

Same(x, y) == x # NaN /\ x = y
Below(x, y) == NaN \notin {x, y} /\ x < y

Sum(x, y) ==
  CASE NaN \in {x, y} \/ (Endless(x) /\ y = -x) -> NaN
    [] IsNumber(x) /\ IsNumber(y) -> x + y
    [] OTHER -> IF IsNumber(x) THEN y ELSE x
Product(x, y) ==
  LET infinite == Endless(x) \/ Endless(y)
      zero == IsZero(x) \/ IsZero(y)
      \* Both are numbers.
      Finite == CASE zero -> 0
                  [] ~zero /\ Magnitude(x) > (Infinity - 1) \div Magnitude(y) -> Sign(x) * Sign(y) * Infinity
                  [] OTHER -> IF (x * y) % Unit = 0 THEN (x * y) \div Unit ELSE Fine
  IN  CASE NaN \in {x, y} \/ (infinite /\ zero) -> NaN
        [] infinite /\ ~zero -> Sign(x) * Sign(y) * Infinity
        [] OTHER -> Finite
Ratio(x, y) ==
  LET sixteenths == Magnitude(x) * Unit
  IN  CASE NaN \in {x, y} \/ (Endless(x) /\ Endless(y)) \/ (IsZero(x) /\ IsZero(y)) -> NaN
        [] IsNumber(x) /\ Endless(y) -> 0
        [] Endless(x) \/ IsZero(y) -> Sign(x) * Sign(y) * Infinity
        [] OTHER -> IF sixteenths % Magnitude(y) = 0 THEN Sign(x) * Sign(y) * (sixteenths \div Magnitude(y)) ELSE Fine

\* The operators of C.
FloatOp(k, x, y) ==
  CASE k = "add" -> Sum(x, y)
    [] k = "sub" -> Sum(x, Minus(y))
    [] k = "mul" -> Product(x, y)
    [] k = "div" -> Ratio(x, y)
================================================================================
