--------------------------- MODULE MCExpressions ---------------------------
(***************************************************************************)
(* Expressions of one or two operators; a byte has two bits, so that an    *)
(* int has eight and a long sixteen.                                       *)
(***************************************************************************)
EXTENDS StandardExpressions

Types == {"bool", "char", "uchar", "short", "ushort", "int", "uint", "long", "ulong", "enum"}

\* The least and the greatest value of a type, and one in between.
Values(ty) ==
  CASE ty = "bool" -> {0, 1}
    [] is_unsigned(ty) -> {1, 2 ^ Width(ty) - 1}
    [] OTHER -> {-(2 ^ (Width(ty) - 1)), -1, 2 ^ (Width(ty) - 1) - 1}
Some(ty) == IF ty \in {"bool", "ulong", "uint"} THEN Values(ty) ELSE Values(ty) \ {-1}

(***************************************************************************)
(* A leaf of a constant expression is a number that is cast; of another, a *)
(* variable that has it.  The result is in variable 1, the leaves are      *)
(* variables 2 and 3.                                                      *)
(***************************************************************************)
Leaf(ty, v) == [ty |-> ty, v |-> v]
Constant(leaf) ==
  CASE is_flonum(leaf.ty) /\ leaf.v = NaN -> new_binary("div", new_num(leaf.ty, 0), new_num(leaf.ty, 0))
    [] is_flonum(leaf.ty) /\ leaf.v # NaN -> new_num(leaf.ty, leaf.v)
    [] OTHER -> new_cast(new_num("long", Signed(leaf.v, RegBits)), leaf.ty)
Zero(ty) == IF is_flonum(ty) THEN 0 ELSE 0
Held(leaf) == IF is_flonum(leaf.ty) THEN leaf.v ELSE Low(leaf.v, Width(leaf.ty))
ProgramOf(ty, e, leaves) ==
  [e |-> new_binary("assign", new_var_node(Result, ty), e), static |-> FALSE, ty |-> ty,
   mem |-> <<Zero(ty)>> \o [i \in DOMAIN leaves |-> Held(leaves[i])]]
StaticProgramOf(ty, e) == [e |-> e, static |-> TRUE, ty |-> ty, mem |-> <<Zero(ty)>>]
Program(e, leaves) == ProgramOf("long", e, leaves)
X(ty) == new_var_node(2, ty)
Y(ty) == new_var_node(3, ty)

\* Both programs of an expression with two leaves.
BothOf(ty, E(_, _), l, r) ==
  LET run == ProgramOf(ty, E(X(l.ty), Y(r.ty)), <<l, r>>)
      fold == StaticProgramOf(ty, E(Constant(l), Constant(r)))
  IN  {run, fold}
Programs(E(_, _), l, r) == BothOf("long", E, l, r)

Leaves == UNION {{Leaf(ty, v) : v \in Some(ty)} : ty \in Types}
BinaryOps == Arithmetic \union Relations \union {"shl", "shr", "logand", "logor", "comma"}
UnaryOps == {"neg", "bitnot", "not"}

(***************************************************************************)
(* One operator and any two operands; an operator whose result is cast, or *)
(* an operand of another one; and a conditional.                           *)
(***************************************************************************)
Single(op) ==
  UNION {LET E(x, y) == new_binary(op, x, y) IN Programs(E, l, r) : l \in Leaves, r \in Leaves}

Ones == {Leaf("char", 1), Leaf("uint", 2)}
Others == Ones \union {Leaf("long", -2), Leaf("enum", -1)}
CastOf(ty) ==
  UNION {LET E(x, y) == new_cast(new_unary(op, x), ty) IN Programs(E, l, Leaf("char", 0)) :
           op \in UnaryOps, l \in Leaves} \union
  UNION {LET E(x, y) == new_cast(new_binary(op, x, y), ty) IN Programs(E, l, r) :
           op \in {"add", "sub", "shl", "shr"}, l \in Leaves, r \in Ones}

Under(op) ==
  UNION {LET E(x, y) == new_binary(op, new_unary(op2, x), y) IN Programs(E, l, r) :
           op2 \in UnaryOps, l \in Leaves, r \in Others} \union
  UNION {LET E(x, y) == new_binary(op, new_binary(op2, x, y), y) IN Programs(E, l, r) :
           op2 \in {"sub", "shl"}, l \in Leaves, r \in Ones}

Chosen(ty) ==
  UNION {LET E(x, y) == Node("cond", "none", 0, <<x, y, new_cast(new_num("int", -2), ty)>>)
         IN  Programs(E, l, r) : l \in {Leaf("bool", 0), Leaf("long", 256)}, r \in Leaves}

(***************************************************************************)
(* Expressions with effects, on variables and on fields of two and of five *)
(* bits in a unit that is full of ones.                                    *)
(***************************************************************************)
OpAssign(op, a, e) == new_unary("opassign", new_binary(op, a, e))
Inc(a, addend) == Node("inc", "none", addend, <<a>>)

Assigned(op) ==
  (UNION {{Program(OpAssign(op, X(l.ty), Y(r.ty)), <<l, r>>),
                Program(new_binary("assign", X(l.ty), Y(r.ty)), <<l, r>>)} : l \in Leaves, r \in Others})
Counted ==
  ({Program(new_binary(k, Inc(X(l.ty), i), Inc(Y(r.ty), -i)), <<l, r>>) :
           k \in {"logand", "logor", "comma"}, i \in {1, -1}, l \in Leaves, r \in Others})

Fields == {new_member(2, ty, width, 1) : ty \in {"int", "uint"}, width \in {2, 5}}
OfFields ==
  LET Forms(f, y) ==
        {new_binary("assign", f, y), OpAssign("add", f, y), Inc(f, 1), Inc(f, -1),
         new_binary("comma", new_binary("assign", f, y), f)}
        \union {new_binary(op, f, y) : op \in BinaryOps} \union {new_unary(op, f) : op \in UnaryOps}
      unit == Leaf("uint", 2 ^ Int32 - 1)
  IN  (UNION {{Program(e, <<unit, r>>) : e \in Forms(f, Y(r.ty))} : f \in Fields, r \in Others})

(***************************************************************************)
(* Floating point: numbers that are not whole, that do not fit into the    *)
(* next format, that are as large as a long without sign, and none.  A     *)
(* cast of any type to any other and from there to a third; an operator    *)
(* with a floating operand; conditions; assignments and counting; and long *)
(* doubles that wait for each other or are dropped.                        *)
(***************************************************************************)
FloatValues(ty) ==
  {0, 8, -24, Unit * 2 ^ 15, NaN} \union
  (CASE ty = "float" -> {64 * Unit} [] ty = "double" -> {33 * Unit + 1} [] ty = "ldouble" ->
    {33 * Unit + 1, Unit * (2 ^ 16 - 1)})
FloatLeaves == UNION {{Leaf(ty, x) : x \in FloatValues(ty)} : ty \in FloatTypes}
SomeFloats == {Leaf("float", 8), Leaf("double", 33 * Unit + 1), Leaf("ldouble", -24)}
SomeInts == {Leaf("char", -1), Leaf("enum", -1), Leaf("ulong", 2 ^ 16 - 1)}

Casts(to) ==
  UNION {LET E(x, y) == new_cast(x, to) IN BothOf("double", E, l, Leaf("char", 0)) :
           l \in Leaves \union FloatLeaves} \union
  UNION {LET E(x, y) == x IN BothOf(to, E, l, Leaf("char", 0)) : l \in Leaves \union FloatLeaves} \union
  UNION {LET E(x, y) == new_cast(new_cast(x, ty), to) IN BothOf("double", E, l, Leaf("char", 0)) :
           ty \in FloatTypes, l \in SomeInts \union SomeFloats}

FloatArithmetic == {"add", "sub", "mul", "div"}
OfFloats(op) ==
  UNION {LET E(x, y) == new_binary(op, x, y) IN BothOf("double", E, l, r) :
           l \in FloatLeaves, r \in FloatLeaves \union SomeInts} \union
  UNION {LET E(x, y) == new_binary(op, x, y) IN BothOf("double", E, l, r) :
           l \in SomeInts, r \in FloatLeaves}
FloatConditions ==
  LET Forms(x, y) ==
        {new_unary("not", x), new_unary("neg", x), new_unary("not", new_unary("neg", x)), new_binary("comma", x, y),
         new_binary("logand", x, y), new_binary("logor", x, y), new_binary("logand", y, new_unary("not", x)),
         Node("cond", "none", 0, <<x, y, x>>), Node("cond", "none", 0, <<new_unary("not", y), y, x>>),
         Node("cond", "none", 0, <<x, new_cast(y, "int"), new_cast(y, "char")>>)}
  IN  UNION {UNION {{ProgramOf(ty, e, <<l, r>>) : e \in Forms(X(l.ty), Y(r.ty))}
                        \union {StaticProgramOf(ty, e) : e \in Forms(Constant(l), Constant(r))} :
                      ty \in {"double", "bool"}} : l \in FloatLeaves, r \in SomeFloats}

FloatEffects ==
  LET Forms(l, r) ==
        LET x == X(l.ty)
            y == Y(r.ty)
        IN  {new_binary("assign", x, y), Inc(x, 1), Inc(x, -1), new_binary("comma", Inc(x, 1), x),
             new_binary("add", new_binary("assign", x, y), y), new_binary("comma", new_binary("assign", x, y), x)}
            \union {OpAssign(op, x, y) : op \in FloatArithmetic}
      pairs == (FloatLeaves \X (SomeFloats \union SomeInts)) \union (SomeInts \X FloatLeaves)
                 \union {<<Leaf("uchar", 1), Leaf("double", 33 * Unit + 1)>>}
  IN  (UNION {{ProgramOf("double", e, p) : e \in Forms(p[1], p[2])} : p \in pairs})

RECURSIVE Nested(_, _, _, _)
Nested(op, x, y, depth) == new_binary(op, x, IF depth = 1 THEN y ELSE Nested(op, x, y, depth - 1))
RECURSIVE LeftNested(_, _, _, _)
LeftNested(op, x, y, depth) == new_binary(op, IF depth = 1 THEN x ELSE LeftNested(op, x, y, depth - 1), y)
FloatStack ==
  LET Of(op, depth) ==
        UNION {LET E(x, y) == Nested(op, x, y, depth)
                   F(x, y) == LeftNested(op, x, y, depth)
                   G(x, y) == new_binary("add", Nested(op, x, y, depth), LeftNested(op, y, x, depth))
               IN  BothOf("double", E, l, r) \union BothOf("double", F, l, r) \union BothOf("double", G, l, r) :
                 l \in SomeFloats, r \in SomeFloats \union SomeInts}
  IN  UNION {Of(op, depth) : op \in {"add", "sub", "comma", "lt"}, depth \in 1 .. 4}

MCFamilies ==
  ({"Single"} \X BinaryOps) \union ({"CastOf", "Chosen"} \X Types) \union ({"Under"} \X (BinaryOps \ {"comma"}))
  \union ({"Assigned"} \X {"add", "mul", "div", "shl", "xor"}) \union ({"Casts"} \X (Types \union FloatTypes))
  \union ({"OfFloats"} \X (FloatArithmetic \union Relations))
  \union {<<family, "all">> : family \in {"Counted", "OfFields", "FloatConditions", "FloatEffects", "FloatStack"}}
Family(f) ==
  CASE f[1] = "Single" -> Single(f[2])
    [] f[1] = "CastOf" -> CastOf(f[2])
    [] f[1] = "Chosen" -> Chosen(f[2])
    [] f[1] = "Under" -> Under(f[2])
    [] f[1] = "Assigned" -> Assigned(f[2])
    [] f[1] = "Casts" -> Casts(f[2])
    [] f[1] = "OfFloats" -> OfFloats(f[2])
    [] f[1] = "Counted" -> Counted
    [] f[1] = "OfFields" -> OfFields
    [] f[1] = "FloatConditions" -> FloatConditions
    [] f[1] = "FloatEffects" -> FloatEffects
    [] f[1] = "FloatStack" -> FloatStack
\* Those to which C gives a meaning.
MCProgramsOf(f) == {p \in Family(f) : Meaning(p).ok}
===============================================================================
