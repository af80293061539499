-------------------------- MODULE StandardExpressions --------------------------
(***************************************************************************)
(* The value C gives an expression (C11 6.3.1, 6.5), with the choices gcc  *)
(* makes where C leaves one, and the kinds of expression for which dyibicc *)
(* computes another.                                                       *)
(***************************************************************************)
EXTENDS Expressions

(***************************************************************************)
(* Promotion and the usual conversions, by rank and by the values a type   *)
(* has.                                                                    *)
(***************************************************************************)
Promotion(ty) == IF Size(ty) < 4 \/ ty = "enum" THEN "int" ELSE ty
ByRank == <<"ldouble", "double", "float", "ulong", "long", "uint", "int">>
CommonType(t1, t2) ==
  LET both == {Promotion(t1), Promotion(t2)}
  IN  ByRank[CHOOSE i \in DOMAIN ByRank : ByRank[i] \in both /\ \A j \in 1 .. i - 1 : ByRank[j] \notin both]

Converted(v, ty) ==
  CASE ty = "bool" -> Truth(v # 0)
    [] is_unsigned(ty) -> Low(v, Width(ty))
    [] OTHER -> Signed(v, Width(ty))

Whole(v) == [v |-> v, ok |-> TRUE]
Undefined == [v |-> 0, ok |-> FALSE]
NoneZero(x) == IF is_flonum(x.ty) THEN ~IsZero(x.v) ELSE x.v # 0

\* What x is as one of another type; a floating number that does not fit is undefined.
Convert(x, ty) ==
  CASE is_flonum(ty) -> Whole(Rounded(IF is_flonum(x.ty) THEN x.v ELSE OfInt(x.v), ty))
    [] ty = "bool" -> Whole(Truth(NoneZero(x)))
    [] is_flonum(x.ty) /\ ~is_flonum(ty) /\ ty # "bool" ->
         IF IsNumber(x.v) /\ Converted(Truncated(x.v), ty) = Truncated(x.v) THEN Whole(Truncated(x.v)) ELSE Undefined
    [] OTHER -> Whole(Converted(x.v, ty))

(***************************************************************************)
(* What evaluating an expression gives: its type, its value, the variables *)
(* afterwards, and whether C defines it.  The bits of a field have a type  *)
(* of less than int.                                                       *)
(***************************************************************************)
Evaluated(ty, v, m, ok) == [ty |-> ty, v |-> v, m |-> m, ok |-> ok]
Resulting(ty, new, m, ok) == Evaluated(ty, new.v, m, ok /\ new.ok)
Kept(a, x) == [x EXCEPT !.m[a.v] = IF is_flonum(a.ty) THEN x.v ELSE Low(x.v, Width(a.ty))]

\* A number that is the result of arithmetic in a promoted type.
Exact(ty, v) ==
  IF is_unsigned(ty) THEN [v |-> Low(v, Width(ty)), ok |-> TRUE]
  ELSE [v |-> Signed(v, Width(ty)), ok |-> Signed(v, Width(ty)) = v]

\* A product without sign is computed of numbers with one, that it stays small.
Applied(k, ty, a, b) ==
  LET bits == Width(ty)
      Wise(op(_, _)) == Whole(Converted(op(Low(a, bits), Low(b, bits)), ty))
      shifts == b \in 0 .. bits - 1
  IN  CASE k = "add" -> Exact(ty, a + b)
        [] k = "sub" -> Exact(ty, a - b)
        [] k = "mul" -> IF is_unsigned(ty) THEN Exact(ty, Signed(a, bits) * Signed(b, bits)) ELSE Exact(ty, a * b)
        [] k \in {"div", "mod"} ->
             IF b = 0 \/ ~Exact(ty, Quotient(a, b)).ok THEN Undefined
             ELSE Whole(IF k = "div" THEN Quotient(a, b) ELSE Remainder(a, b))
        [] k = "and" -> Wise(&)
        [] k = "or" -> Wise(|)
        [] k = "xor" -> Wise(^^)
        [] k = "shl" ->
             CASE shifts /\ is_unsigned(ty) -> Whole(Low(a, bits - b) * 2 ^ b)
               [] shifts /\ ~is_unsigned(ty) /\ a \in 0 .. (2 ^ (bits - 1) - 1) \div 2 ^ b -> Whole(a * 2 ^ b)
               [] OTHER -> Undefined
        [] k = "shr" -> IF shifts THEN Whole(a \div 2 ^ b) ELSE Undefined
        [] k = "eq" -> Whole(Truth(a = b))
        [] k = "ne" -> Whole(Truth(a # b))
        [] k = "lt" -> Whole(Truth(a < b))
        [] k = "le" -> Whole(Truth(a <= b))

\* Of floating point only what is Fine is left out.
NotFine(x) == [v |-> x, ok |-> x # Fine]
AppliedFloat(k, ty, a, b) ==
  CASE k \in Arithmetic -> NotFine(Rounded(FloatOp(k, a, b), ty))
    [] k = "eq" -> Whole(Truth(Same(a, b)))
    [] k = "ne" -> Whole(Truth(~Same(a, b)))
    [] k = "lt" -> Whole(Truth(Below(a, b)))
    [] k = "le" -> Whole(Truth(Below(a, b) \/ Same(a, b)))

Promoting == Arithmetic \union Relations

RECURSIVE Value(_, _)
Value(n, m) ==
  LET l == Value(n.kids[1], m)
      r == Value(n.kids[2], l.m)
      ok == l.ok /\ r.ok
      \* The operator k on two operands, in the type of both or of the left one.
      Operated(k, ty, a, b) == IF is_flonum(ty) THEN AppliedFloat(k, ty, a, b) ELSE Applied(k, ty, a, b)
      In(k, ty, x, y) ==
        Resulting(IF k \in Relations THEN "int" ELSE ty,
                  Operated(k, ty, Convert(x, ty).v, IF k \in {"shl", "shr"} THEN y.v ELSE Convert(y, ty).v),
                  y.m, x.ok /\ y.ok)
      Binary(k, x, y) == In(k, IF k \in {"shl", "shr"} THEN Promotion(x.ty) ELSE CommonType(x.ty, y.ty), x, y)
      \* A value stored in a variable, or in a field.
      Stored(a, x) ==
        IF a.k = "var"
          THEN Kept(a, Resulting(a.ty, Convert(x, a.ty), x.m, x.ok))
          ELSE LET at == 2 ^ a.offset
                   new == Low(x.v, a.width)
                   old == Low(x.m[a.v] \div at, a.width)
               IN  Evaluated(a.ty, IF is_unsigned(a.ty) THEN new ELSE Signed(new, a.width),
                             [x.m EXCEPT ![a.v] = @ + (new - old) * at], x.ok)
      IntOf(v) == Evaluated("int", v, m, TRUE)
  IN  CASE n.k = "num" /\ ~is_flonum(n.ty) -> Evaluated(n.ty, n.v, m, TRUE)
        [] n.k = "num" /\ is_flonum(n.ty) -> Evaluated(n.ty, Rounded(n.v, n.ty), m, TRUE)
        [] n.k = "var" -> Evaluated(n.ty, IF is_flonum(n.ty) THEN m[n.v] ELSE Converted(m[n.v], n.ty), m, TRUE)
        [] n.k = "member" ->
             LET bits == Low(m[n.v] \div 2 ^ n.offset, n.width)
             IN  Evaluated(IF n.width < Width(n.ty) THEN "int" ELSE n.ty,
                           IF is_unsigned(n.ty) THEN bits ELSE Signed(bits, n.width), m, TRUE)
        [] n.k = "cast" -> Resulting(n.ty, Convert(l, n.ty), l.m, l.ok)
        [] n.k \in Promoting \union {"shl", "shr"} -> Binary(n.k, l, r)
        [] n.k = "neg" -> IF is_flonum(l.ty) THEN [l EXCEPT !.v = Minus(@)] ELSE Binary("sub", IntOf(0), l)
        [] n.k = "bitnot" -> Binary("sub", IntOf(-1), l)
        [] n.k = "not" -> Binary("eq", l, IntOf(0))
        [] n.k = "logand" -> IF ~NoneZero(l) THEN Evaluated("int", 0, l.m, l.ok) ELSE Evaluated("int", Truth(NoneZero(r)), r.m, ok)
        [] n.k = "logor" -> IF NoneZero(l) THEN Evaluated("int", 1, l.m, l.ok) ELSE Evaluated("int", Truth(NoneZero(r)), r.m, ok)
        [] n.k = "cond" ->
             LET third == Value(n.kids[3], l.m)
                 taken == IF NoneZero(l) THEN r ELSE third
                 ty == CommonType(r.ty, third.ty)
             IN  Evaluated(ty, Convert(taken, ty).v, taken.m, l.ok /\ taken.ok)
        [] n.k = "comma" -> [r EXCEPT !.ok = ok]
        [] n.k = "assign" -> Stored(n.kids[1], r)
        [] n.k = "opassign" -> Stored(n.kids[1].kids[1], l)
        [] n.k = "inc" ->
             LET new == Stored(n.kids[1], Binary("add", l, IntOf(n.v)))
             IN  [l EXCEPT !.m = new.m, !.ok = new.ok]

\* What the program computes; a static variable is assigned its constant.
Meaning(p) == Value(IF p.static THEN new_cast(p.e, p.ty) ELSE p.e, p.mem)

-------------------------------------------------------------------------------
(***************************************************************************)
(* The kinds of expression that are computed differently, each of some     *)
(* part n of the program, x its value and at those of its operands.        *)
(***************************************************************************)
RECURSIVE Parts(_)
Parts(n) == {n} \union UNION {Parts(n.kids[i]) : i \in DOMAIN n.kids}

\* The conversions at a node, of x to another type; the operands that are compared with zero.
Conversions(n, x, at) ==
  LET To(i, ty) == [x |-> at[i], to |-> ty]
  IN  CASE n.k = "cast" -> {To(1, n.ty)}
        [] n.k \in {"assign", "opassign"} -> {To(Len(n.kids), x.ty)}
        [] n.k \in Promoting -> {To(i, CommonType(at[1].ty, at[2].ty)) : i \in {1, 2}}
        [] n.k = "cond" -> {To(i, x.ty) : i \in {2, 3}}
        [] OTHER -> {}
Tested(n, x, at) ==
  CASE n.k \in {"not", "cond"} -> {at[1]}
    [] n.k \in {"logand", "logor"} -> {at[1], at[2]}
    [] OTHER -> {c.x : c \in {d \in Conversions(n, x, at) : d.to = "bool"}}
AsFolded(x) == IF is_flonum(x.ty) THEN AsInteger(x.v, RegBits) ELSE x.v

\* eval does not cut the result of unsigned arithmetic to 32 bits.
WrapsFolded(n, x, at) ==
  /\ n.k \in {"add", "sub", "mul", "neg", "bitnot", "shl"}
  /\ x.ty = "uint"
  /\ LET l == Converted(at[1].v, "uint")
         r == at[2].v
         exact == CASE n.k = "neg" -> -l
                    [] n.k = "bitnot" -> -l - 1
                    [] n.k = "shl" -> l * 2 ^ r
                    [] n.k = "add" -> l + Converted(r, "uint")
                    [] n.k = "sub" -> l - Converted(r, "uint")
                    [] n.k = "mul" -> l * Converted(r, "uint")
     IN  exact # x.v

\* eval compares unsigned longs as signed ones.
LessFolded(n, x, at) ==
  /\ n.k = "lt" /\ CommonType(at[1].ty, at[2].ty) = "ulong"
  /\ \E i \in {1, 2} : Reg(at[i].v) >= 2 ^ (RegBits - 1)

\* eval casts to bool as to a char.
BoolFolded(n, x, at) == n.k = "cast" /\ n.ty = "bool" /\ AsFolded(at[1]) \notin {0, 1}

\* The code takes an enum for as wide as a register.
EnumIsWide(n, x, at) ==
  \/ \E c \in Conversions(n, x, at) :
       \/ c.to = "enum" /\ ~is_flonum(c.x.ty) /\ c.x.v # x.v
       \/ c.x.ty = "enum" /\ is_flonum(c.to) /\ c.x.v < 0
  \/ /\ n.k \in Arithmetic \union {"shl", "shr", "inc"}
     /\ \E part \in Parts(n) : part.ty = "enum"
     /\ Promotion(x.ty) = "int" /\ x.v < 0

\* ~ and << have the type of an operand that is not promoted, where their value does not
\* fit: it is taken for extended from that type when it is shifted again or converted to a
\* type of less than int.
Unpromoted(n, x, at) ==
  LET last == IF n.k = "shr" THEN 1 ELSE Len(n.kids)
      kid == n.kids[last]
      ty == Value(kid.kids[1], prog.mem).ty
      v == at[last].v
  IN  /\ n.k = "shr" \/ (n.k \in {"cast", "assign", "opassign"} /\ Size(x.ty) < 4)
      /\ kid.k \in {"bitnot", "shl"} /\ Size(ty) < 4 /\ Converted(v, ty) # v

\* ++ and -- of a bool: the addend is taken from what was stored, which is 0 or 1.
BoolCounts(n, x, at) == n.k = "inc" /\ n.kids[1].ty = "bool"
\* And of a floating number that is too large for it.
CountsAbsorbed(n, x, at) ==
  /\ n.k = "inc" /\ is_flonum(x.ty)
  /\ LET Add(v, addend) == Rounded(Sum(v, OfInt(addend)), x.ty)
     IN  Add(Add(x.v, n.v), -n.v) # x.v

\* A field without sign has the type it is declared with, and is not promoted to int.
FieldUnsigned(n, x, at) ==
  /\ \E i \in DOMAIN n.kids : n.kids[i].k = "member" /\ is_unsigned(n.kids[i].ty) /\ at[i].ty = "int"
  /\ x.v < 0 \/ \E i \in DOMAIN n.kids : at[i].v < 0

\* An assignment to a field has the value that was assigned, not the one the field has.
FieldOverflows(n, x, at) ==
  CASE n.k = "assign" /\ n.kids[1].k = "member" -> at[2].v # x.v
    [] n.k = "opassign" /\ n.kids[1].kids[1].k = "member" -> at[1].v # x.v
    [] OTHER -> FALSE

(***************************************************************************)
(* The same for floating point, computed                                   *)
(***************************************************************************)
\* A number is compared with zero by a comparison that finds NaN equal, and a long double
\* is not compared at all.
NaNIsFalse(n, x, at) == \E y \in Tested(n, x, at) : is_flonum(y.ty) /\ y.v = NaN
LongDoubleIsFalse(n, x, at) == \E y \in Tested(n, x, at) : y.ty = "ldouble" /\ ~IsZero(y.v)
\* Long doubles that have no order are equal.
LongDoubleUnordered(n, x, at) ==
  /\ n.k \in {"eq", "ne"} /\ CommonType(at[1].ty, at[2].ty) = "ldouble"
  /\ \E i \in {1, 2} : is_flonum(at[i].ty) /\ at[i].v = NaN

\* They are subtracted and divided the other way round.
LongDoubleReversed(n, x, at) == n.k \in {"sub", "div"} /\ x.ty = "ldouble"

\* An unsigned long is converted to a float as a long, and floating numbers to one; and to
\* an unsigned int a long double as to an int.
UnsignedToFloat(n, x, at) ==
  \E c \in Conversions(n, x, at) : c.x.ty = "ulong" /\ c.to = "float" /\ c.x.v >= 2 ^ (RegBits - 1)
UnsignedFromFloat(n, x, at) ==
  \E c \in Conversions(n, x, at) :
    /\ is_flonum(c.x.ty) /\ IsNumber(c.x.v)
    /\ \/ c.to = "ulong" /\ Truncated(c.x.v) >= 2 ^ (RegBits - 1)
       \/ c.to = "uint" /\ c.x.ty = "ldouble" /\ Truncated(c.x.v) >= 2 ^ (Int32 - 1)

\* A long double that is assigned is no longer there as the value of the assignment; one
\* whose value is not used stays on the stack of the x87 unit.
Assignments == {"assign", "opassign", "inc"}
LongDoubleStored(n, x, at) ==
  \/ n.k = "inc" /\ x.ty = "ldouble"
  \/ \E i \in DOMAIN n.kids :
       n.kids[i].k \in Assignments /\ at[i].ty = "ldouble" /\ ~(n.k = "comma" /\ i = 1)
LongDoubleDropped(n, x, at) ==
  n.k = "comma" /\ at[1].ty = "ldouble" /\ n.kids[1].k \notin Assignments

\* Operands wait there, in as many registers as there are.
RECURSIVE Registers(_)
Registers(n) ==
  LET ty(i) == Value(n.kids[i], prog.mem).ty
      wait == n.k \in Promoting /\ CommonType(ty(1), ty(2)) = "ldouble"
      all == {Registers(n.kids[i]) + (IF wait /\ i = 2 THEN 1 ELSE 0) : i \in DOMAIN n.kids}
               \union {IF wait THEN 2 ELSE IF Value(n, prog.mem).ty = "ldouble" THEN 1 ELSE 0}
  IN  CHOOSE most \in all : \A other \in all : other <= most
DeepLongDouble(n, x, at) == n.k \in Promoting /\ Registers(n) > FpuSize

(***************************************************************************)
(* and folded, where all is computed in double and taken for an integer by *)
(* whatever is not of a floating type.                                     *)
(***************************************************************************)
FoldedInDouble(n, x, at) ==
  \/ \E c \in Conversions(n, x, at) : is_flonum(c.to) /\ Convert(c.x, c.to) # Convert(c.x, "double")
  \/ n.k = "num" /\ is_flonum(n.ty) /\ Rounded(n.v, "double") # x.v
  \/ /\ n.k \in Arithmetic /\ is_flonum(x.ty)
     /\ AppliedFloat(n.k, "double", Convert(at[1], x.ty).v, Convert(at[2], x.ty).v) # Whole(x.v)

UnsignedFolded(n, x, at) ==
  \/ \E c \in Conversions(n, x, at) : c.x.ty = "ulong" /\ is_flonum(c.to) /\ c.x.v >= 2 ^ (RegBits - 1)
  \/ UnsignedFromFloat(n, x, at)
\* The condition of ?: is truncated only if the value is an integer.
ConditionTruncated(n, x, at) ==
  /\ ~(n.k = "cond" /\ is_flonum(x.ty))
  /\ \E y \in Tested(n, x, at) : NoneZero(y) /\ AsFolded(y) = 0
ComparedTruncated(n, x, at) ==
  /\ n.k \in Relations
  /\ is_flonum(at[1].ty) \/ is_flonum(at[2].ty)
  /\ x.v # Applied(n.k, "long", AsFolded(at[1]), AsFolded(at[2])).v

FoldedApart(n, x, at) ==
  \/ WrapsFolded(n, x, at) \/ LessFolded(n, x, at) \/ BoolFolded(n, x, at)
  \/ UnsignedFolded(n, x, at) \/ ConditionTruncated(n, x, at) \/ ComparedTruncated(n, x, at)
ComputedApart(n, x, at) ==
  \/ EnumIsWide(n, x, at) \/ Unpromoted(n, x, at) \/ BoolCounts(n, x, at) \/ CountsAbsorbed(n, x, at)
  \/ FieldUnsigned(n, x, at) \/ FieldOverflows(n, x, at)
  \/ NaNIsFalse(n, x, at) \/ LongDoubleIsFalse(n, x, at) \/ LongDoubleUnordered(n, x, at) \/ LongDoubleReversed(n, x, at)
  \/ UnsignedToFloat(n, x, at) \/ UnsignedFromFloat(n, x, at)
  \/ LongDoubleStored(n, x, at) \/ LongDoubleDropped(n, x, at) \/ DeepLongDouble(n, x, at)

SomePart(e, Apart(_, _, _)) ==
  \E n \in Parts(e) :
    \E x \in {Value(n, prog.mem)}, at \in {[i \in DOMAIN n.kids |-> Value(n.kids[i], prog.mem)]} : Apart(n, x, at)

-------------------------------------------------------------------------------
(***************************************************************************)
(* At the end the variables hold what C says, whether the value was        *)
(* computed by the code of gen_expr or by eval.  The code pops what it     *)
(* pushes (the assertion on depth behind every function), and leaves       *)
(* nothing on the stack of the x87 unit.                                   *)
(***************************************************************************)
ComputesAsC ==
  pc = "stopped" =>
    /\ stack = <<>>
    /\ (mem = Meaning(prog).m /\ fpu = <<>>) \/ SomePart(prog.e, ComputedApart)
\* A static long double stops the compiler.
FoldsAsC ==
  pc \in {"folded", "aborted"} =>
    LET v == Meaning(prog).v
    IN  \/ prog.ty = "ldouble"
        \/ mem[Result] = IF is_flonum(prog.ty) THEN v ELSE Low(v, Width(prog.ty))
        \/ SomePart(prog.e, FoldedInDouble)
        \/ SomePart(new_cast(prog.e, prog.ty), FoldedApart)
===============================================================================
