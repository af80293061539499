------------------------------ MODULE Expressions ------------------------------
(***************************************************************************)
(* Arithmetic expressions: add_type finds the type of every node and puts  *)
(* in the conversions; then eval computes the value of a constant expression  *)
(* at compile time, or gen_expr makes the code that computes it at run     *)
(* time, which is run an instruction at a time.                            *)
(*                                                                         *)
(* A program is an expression and its variables.  A byte has ByteBits      *)
(* bits, and so the registers eight times as many.                         *)
(***************************************************************************)
EXTENDS FloatingPoint, Sequences, FiniteSets, Bitwise

CONSTANTS
  FpuSize,    \* registers of the x87 unit
  Families,   \* the kinds of program there are
  ProgramsOf(_)

ASSUME ByteBitsAssumption == ByteBits \in {2, 4, 8}

VARIABLES
  prog,    \* the program
  pc,      \* "source", "typed", "run", "folded", "aborted", "stopped"
  node,    \* the tree of its expression
  code,    \* its instructions
  ip,      \* the next of them
  rax,     \* the registers
  util,
  flags,   \* the two values last compared, as numbers with a sign
  xmm,     \* xmm0 and xmm1: the formats and the numbers in them
  fpu,     \* the registers of the x87 unit, the top first
  stack,
  mem      \* what the variables hold

vars == <<prog, pc, node, code, ip, rax, util, flags, xmm, fpu, stack, mem>>

(***************************************************************************)
(* Types.  The ids are those of get_type_id: a bool and an enum are U64    *)
(* like any type it does not know.                                         *)
(***************************************************************************)
Size(ty) ==
  CASE ty \in {"bool", "char", "uchar"} -> 1
    [] ty \in {"short", "ushort"} -> 2
    [] ty \in {"int", "uint", "enum", "float"} -> 4
    [] ty = "ldouble" -> 16
    [] OTHER -> 8
Width(ty) == Size(ty) * ByteBits
is_unsigned(ty) == ty \in {"uchar", "ushort", "uint", "ulong"}
is_long(ty) == ty \in {"long", "ulong"}
is_flonum(ty) == ty \in FloatTypes

get_type_id(ty) == IF ty \in {"bool", "enum"} THEN "ulong" ELSE ty

\* The low bits of a register, and the number with a sign that they are.
Low(x, width) == x % 2 ^ width
Signed(x, width) == IF Low(x, width) >= 2 ^ (width - 1) THEN Low(x, width) - 2 ^ width ELSE Low(x, width)
RegBits == 8 * ByteBits
Reg(x) == Low(x, RegBits)

(***************************************************************************)
(* The tree.  v is the value of a number, or the variable.                 *)
(***************************************************************************)
Node(k, ty, v, kids) == [k |-> k, ty |-> ty, v |-> v, kids |-> kids]
new_num(ty, v) == Node("num", ty, v, <<>>)
new_var_node(a, ty) == Node("var", ty, a, <<>>)
new_member(a, ty, width, offset) ==
  [k |-> "member", ty |-> ty, v |-> a, kids |-> <<>>, width |-> width, offset |-> offset]
new_unary(k, e) == Node(k, "none", 0, <<e>>)
new_binary(k, l, r) == Node(k, "none", 0, <<l, r>>)
new_cast(e, ty) == Node("cast", ty, 0, <<e>>)
Arithmetic == {"add", "sub", "mul", "div", "mod", "and", "or", "xor"}
Relations == {"eq", "ne", "lt", "le"}

(***************************************************************************)
(* What the parser makes of A op= B, where the variable stands for the     *)
(* pointer to it that is made, and of A++.                                 *)
(***************************************************************************)
to_assign(binary) == new_binary("assign", binary.kids[1], binary)
new_inc_dec(a, addend) ==
  new_cast(new_binary("add", to_assign(new_binary("add", a, new_num("int", addend))), new_num("int", -addend)), a.ty)

RECURSIVE expr(_)
expr(n) ==
  CASE n.k = "opassign" -> to_assign(expr(n.kids[1]))
    [] n.k = "inc" -> new_inc_dec(n.kids[1], n.v)
    [] OTHER -> [n EXCEPT !.kids = [i \in DOMAIN @ |-> expr(@[i])]]

get_common_type(ty1, ty2) ==
  LET Promoted(ty) == IF Size(ty) < 4 THEN "int" ELSE ty
      p1 == Promoted(ty1)
      p2 == Promoted(ty2)
      floats == {ty1, ty2} \intersect FloatTypes
  IN  CASE floats # {} -> CHOOSE ty \in floats : \A other \in floats : Size(other) <= Size(ty)
        [] floats = {} /\ Size(p1) # Size(p2) -> IF Size(p1) < Size(p2) THEN p2 ELSE p1
        [] is_unsigned(p2) -> p2
        [] OTHER -> p1

\* Mutant: the operands of a comparison are left as they are.
Uncompared(n, kids) ==
  IF n.k \in Arithmetic
    THEN LET ty == get_common_type(kids[1].ty, kids[2].ty)
         IN  Node(n.k, ty, 0, <<new_cast(kids[1], ty), new_cast(kids[2], ty)>>)
    ELSE Node(n.k, "int", 0, kids)
usual_arith_conv(n, kids) ==
  LET ty == get_common_type(kids[1].ty, kids[2].ty)
  IN  Node(n.k, IF n.k \in Relations THEN "int" ELSE ty, 0, <<new_cast(kids[1], ty), new_cast(kids[2], ty)>>)

RECURSIVE add_type(_)
add_type(n) ==
  LET kids == [i \in DOMAIN n.kids |-> add_type(n.kids[i])]
  IN  CASE n.k \in {"num", "var", "member"} -> n
        [] n.k = "cast" -> [n EXCEPT !.kids = kids]
        [] n.k \in Arithmetic \union Relations -> usual_arith_conv(n, kids)
        [] n.k = "neg" ->
             LET ty == get_common_type("int", kids[1].ty)
             IN  Node("neg", ty, 0, <<new_cast(kids[1], ty)>>)
        [] n.k = "assign" -> Node("assign", kids[1].ty, 0, <<kids[1], new_cast(kids[2], kids[1].ty)>>)
        [] n.k \in {"not", "logand", "logor"} -> Node(n.k, "int", 0, kids)
        [] n.k \in {"bitnot", "shl", "shr"} -> Node(n.k, kids[1].ty, 0, kids)
        [] n.k = "cond" ->
             LET ty == get_common_type(kids[2].ty, kids[3].ty)
             IN  Node("cond", ty, 0, <<kids[1], new_cast(kids[2], ty), new_cast(kids[3], ty)>>)
        [] n.k = "comma" -> Node("comma", kids[2].ty, 0, kids)

-------------------------------------------------------------------------------
(***************************************************************************)
(* eval: the value as a number of 64 bits with a sign, that of a floating  *)
(* number without its fraction; eval_double: the value as a double.        *)
(***************************************************************************)
Truth(b) == IF b THEN 1 ELSE 0

\* Division of C and of the processor, towards zero.
Quotient(a, b) ==
  LET Abs(x) == IF x < 0 THEN -x ELSE x
  IN  IF (a < 0) = (b < 0) THEN Abs(a) \div Abs(b) ELSE -(Abs(a) \div Abs(b))
Remainder(a, b) == a - Quotient(a, b) * b

\* Mutant: a cast does not look at the sign of the type.
SignedCast(val, ty) == IF is_long(ty) THEN val ELSE Signed(val, Width(ty))
CastValue(val, ty) ==
  CASE is_long(ty) -> val
    [] is_unsigned(ty) -> Low(val, Width(ty))
    [] OTHER -> Signed(val, Width(ty))

\* What the processor makes of a number that is no integer of this width.
Indefinite(width) == -(2 ^ (width - 1))
AsInteger(x, width) ==
  IF IsNumber(x) /\ Signed(Truncated(x), width) = Truncated(x) THEN Truncated(x) ELSE Indefinite(width)

RECURSIVE eval(_), eval_double(_)
eval_double(n) ==
  LET l == eval_double(n.kids[1])
      r == eval_double(n.kids[2])
      Double(x) == Rounded(x, "double")
  IN  CASE ~is_flonum(n.ty) -> Double(OfInt(IF is_unsigned(n.ty) THEN Reg(eval(n)) ELSE eval(n)))
        [] n.k = "num" -> Double(n.v)
        [] n.k = "cast" -> IF is_flonum(n.kids[1].ty) THEN l ELSE Double(OfInt(eval(n.kids[1])))
        [] n.k \in Arithmetic -> Double(FloatOp(n.k, l, r))
        [] n.k = "neg" -> Minus(l)
        [] n.k = "cond" -> IF IsZero(l) THEN eval_double(n.kids[3]) ELSE r
        [] n.k = "comma" -> r
eval(n) ==
  LET Int64(x) == Signed(x, RegBits)
      l == eval(n.kids[1])
      r == eval(n.kids[2])
      Bits(op(_, _)) == Int64(op(Reg(l), Reg(r)))
  IN  CASE is_flonum(n.ty) -> AsInteger(eval_double(n), RegBits)
        [] n.k = "num" -> n.v
        [] n.k = "cast" -> CastValue(l, n.ty)
        [] n.k = "add" -> Int64(l + r)
        [] n.k = "sub" -> Int64(l - r)
        [] n.k = "mul" -> Int64(l * r)
        [] n.k = "div" -> Int64(IF is_unsigned(n.ty) THEN Reg(l) \div Reg(r) ELSE Quotient(l, r))
        [] n.k = "mod" -> Int64(IF is_unsigned(n.ty) THEN Reg(l) % Reg(r) ELSE Remainder(l, r))
        [] n.k = "and" -> Bits(&)
        [] n.k = "or" -> Bits(|)
        [] n.k = "xor" -> Bits(^^)
        [] n.k = "shl" -> Int64(l * 2 ^ r)
        [] n.k = "shr" -> Int64((IF n.ty = "ulong" THEN Reg(l) ELSE l) \div 2 ^ r)
        [] n.k = "eq" -> Truth(l = r)
        [] n.k = "ne" -> Truth(l # r)
        [] n.k = "lt" -> Truth(l < r)
        [] n.k = "le" -> Truth(IF is_unsigned(n.kids[1].ty) THEN Reg(l) <= Reg(r) ELSE l <= r)
        [] n.k = "neg" -> Int64(-l)
        [] n.k = "bitnot" -> -l - 1
        [] n.k = "not" -> Truth(l = 0)
        [] n.k = "logand" -> Truth(l # 0 /\ r # 0)
        [] n.k = "logor" -> Truth(l # 0 \/ r # 0)
        [] n.k = "cond" -> IF l # 0 THEN r ELSE eval(n.kids[3])
        [] n.k = "comma" -> r

-------------------------------------------------------------------------------
(***************************************************************************)
(* gen_expr.  An instruction has an operation, the width it works at, and  *)
(* a value: a number, a variable, or how many instructions it jumps over.  *)
(***************************************************************************)
Instr(op, width, v) == <<[op |-> op, width |-> width, v |-> v]>>
Int32 == 4 * ByteBits

\* Of a long double: fldz and fucomip with the operand st0, which is that zero.
cmp_zero(ty) ==
  IF is_flonum(ty) THEN Instr("fcmpzero", 0, ty) ELSE Instr("cmpzero", IF Size(ty) <= 4 THEN Int32 ELSE RegBits, 0)
SetFlag(k) == Instr("set", ByteBits, k)

\* The flag for a comparison without sign.
Unsigned(k) == CASE k = "lt" -> "below" [] k = "le" -> "belowequal" [] OTHER -> k

\* A row of the table for every type that does not fit into the other.
Extension(from, to) ==
  LET Fits == Size(from) < Size(to) /\ (is_unsigned(from) \/ ~is_unsigned(to))
  IN  CASE from = to \/ Size(to) = 4 \/ (Size(to) = 8 /\ Size(from) = 8) -> <<>>
        [] Size(to) = 8 /\ Size(from) < 8 -> Instr(IF from = "uint" THEN "movzx" ELSE "movsxd", Int32, 0)
        [] Size(to) < 4 /\ Fits -> <<>>
        [] OTHER -> Instr(IF is_unsigned(to) THEN "movzx" ELSE "movsx", Width(to), 0)
\* From an integer: one of less than a register is extended to it if that is not its own sign.
FromInt(from, to) ==
  CASE from = "uint" -> Instr("movzx", Int32, 0) \o Instr("cvtint", RegBits, to)
    [] from = "ulong" /\ to # "float" -> Instr("cvtulong", RegBits, to)
    [] from = "long" \/ (from = "ulong" /\ to = "float") -> Instr("cvtint", RegBits, to)
    [] OTHER -> Instr("cvtint", Int32, to)
ToInt(from, to) ==
  LET Into(width) == Instr("cvtt", width, from)
      Narrow(width) == Into(Int32) \o Instr(IF is_unsigned(to) THEN "movzx" ELSE "movsx", width, 0)
  IN  CASE to \in {"char", "short"} /\ from = "ldouble" -> Narrow(2 * ByteBits)
        [] Size(to) < 4 /\ (from # "ldouble" \/ is_unsigned(to)) -> Narrow(Width(to))
        [] to = "uint" /\ from # "ldouble" -> Into(RegBits)
        [] OTHER -> Into(Width(to))
Conversion(from, to) ==
  CASE from = to -> <<>>
    [] is_flonum(from) /\ is_flonum(to) /\ from # to -> Instr("cvtfloat", 0, <<from, to>>)
    [] is_flonum(from) /\ ~is_flonum(to) -> ToInt(from, to)
    [] ~is_flonum(from) /\ is_flonum(to) -> FromInt(from, to)
    [] OTHER -> Extension(from, to)
cg_cast(from, to) ==
  IF to = "bool" THEN cmp_zero(from) \o SetFlag("ne")
  ELSE Conversion(get_type_id(from), get_type_id(to))

\* Of the size of an int they are extended to that, an int to a long whatever its sign.
load(ty) ==
  IF is_flonum(ty) THEN Instr("fload", 0, ty)
  ELSE Instr(IF Size(ty) < 4 /\ is_unsigned(ty) THEN "loadzx" ELSE "loadsx", Width(ty), 0)

\* Those of a long double are both on its own stack.
FloatOperands(l, r, ty) ==
  IF ty = "ldouble" THEN l \o r ELSE r \o Instr("pushf", 0, 0) \o l \o Instr("popf", 0, 0)
Operands(l, r) == r \o Instr("push", RegBits, 0) \o l \o Instr("pop", RegBits, 0)

RECURSIVE gen_expr(_)
gen_expr(n) ==
  LET E(i) == gen_expr(n.kids[i])
      ty(i) == n.kids[i].ty
      width == IF is_long(ty(1)) THEN RegBits ELSE Int32
      Jump(op, over) == Instr(op, 0, over)
      Const(v) == Instr("mov", RegBits, v)
      \* The second operand is left out if the first is as op says.
      Logical(op, otherwise) ==
        LET second == E(2) \o cmp_zero(ty(2))
        IN  E(1) \o cmp_zero(ty(1)) \o Jump(op, Len(second) + 3) \o second
            \o Jump(op, 2) \o Const(1 - otherwise) \o Jump("jmp", 1) \o Const(otherwise)
  IN  CASE n.k = "num" -> IF is_flonum(n.ty) THEN Instr("fmov", 0, <<n.ty, Rounded(n.v, n.ty)>>) ELSE Const(Reg(n.v))
        [] n.k = "var" -> Instr("lea", RegBits, n.v) \o load(n.ty)
        [] n.k = "cast" -> E(1) \o cg_cast(ty(1), n.ty)
        [] n.k = "member" ->
             Instr("lea", RegBits, n.v) \o load(n.ty)
             \o Instr(IF is_unsigned(n.ty) THEN "fieldzx" ELSE "fieldsx", n.width, n.offset)
        [] n.k = "assign" /\ n.kids[1].k = "member" ->
             LET m == n.kids[1]
             IN  Instr("lea", RegBits, m.v) \o Instr("push", RegBits, 0) \o E(2)
                 \o Instr("merge", m.width, m.offset)
        [] n.k = "assign" /\ n.kids[1].k = "var" ->
             Instr("lea", RegBits, n.kids[1].v) \o Instr("push", RegBits, 0) \o E(2)
             \o Instr("pop", RegBits, 0)
             \o (IF is_flonum(n.ty) THEN Instr("fstore", 0, n.ty) ELSE Instr("store", Width(n.ty), 0))
        [] n.k = "comma" -> E(1) \o E(2)
        [] n.k = "neg" /\ is_flonum(n.ty) -> E(1) \o Instr("fneg", 0, n.ty)
        [] n.k \in Arithmetic \union Relations /\ is_flonum(ty(1)) ->
             FloatOperands(E(1), E(2), ty(1)) \o Instr(IF n.k \in Relations THEN "fcmp" ELSE "fop", 0, <<n.k, ty(1)>>)
        [] n.k \in {"neg", "bitnot"} -> E(1) \o Instr(n.k, RegBits, 0)
        [] n.k = "not" -> E(1) \o cmp_zero(ty(1)) \o SetFlag("eq")
        [] n.k = "logand" -> Logical("je", 0)
        [] n.k = "logor" -> Logical("jne", 1)
        [] n.k = "cond" ->
             E(1) \o cmp_zero(ty(1)) \o Jump("je", Len(E(2)) + 1)
             \o E(2) \o Jump("jmp", Len(E(3))) \o E(3)
        [] n.k \in Relations ->
             Operands(E(1), E(2)) \o Instr("cmp", width, 0) \o SetFlag(IF is_unsigned(ty(1)) THEN Unsigned(n.k) ELSE n.k)
        [] n.k = "shr" -> Operands(E(1), E(2)) \o Instr(IF is_unsigned(ty(1)) THEN "shr" ELSE "sar", width, 0)
        [] n.k \in {"div", "mod"} ->
             Operands(E(1), E(2)) \o Instr(CASE n.k = "div" -> IF is_unsigned(n.ty) THEN "div" ELSE "idiv"
                                          [] OTHER -> IF is_unsigned(n.ty) THEN "mod" ELSE "imod", width, 0)
        [] OTHER -> Operands(E(1), E(2)) \o Instr(n.k, width, 0)

-------------------------------------------------------------------------------
(***************************************************************************)
(* The program assigns its expression to a variable that is static or not: *)
(* its first.                                                              *)
(***************************************************************************)
Result == 1
Float(ty, x) == [ty |-> ty, x |-> x]

Init ==
  /\ \E family \in Families : prog \in ProgramsOf(family)
  /\ pc = "source" /\ node = prog.e /\ mem = prog.mem
  /\ code = <<>> /\ ip = 1 /\ rax = 0 /\ util = 0 /\ flags = <<0, 0>>
  /\ xmm = <<Float("double", 0), Float("double", 0)>> /\ fpu = <<>> /\ stack = <<>>

floats == <<xmm, fpu>>
machine == <<ip, rax, util, flags, floats, stack>>

Parse ==
  /\ pc = "source"
  /\ node' = add_type(expr(node))
  /\ pc' = "typed"
  /\ UNCHANGED <<prog, code, machine, mem>>

\* write_gvar_data, for a static variable; write_buf aborts at its size.
Fold ==
  /\ pc = "typed" /\ prog.static
  /\ CASE prog.ty \in {"float", "double"} ->
            pc' = "folded" /\ mem' = [mem EXCEPT ![Result] = Rounded(eval_double(node), prog.ty)]
       [] prog.ty = "ldouble" -> pc' = "aborted" /\ UNCHANGED mem
       [] OTHER -> pc' = "folded" /\ mem' = [mem EXCEPT ![Result] = Low(eval(node), Width(prog.ty))]
  /\ UNCHANGED <<prog, node, code, machine>>

Generate ==
  /\ pc = "typed" /\ ~prog.static
  /\ code' = gen_expr(node)
  /\ pc' = "run"
  /\ UNCHANGED <<prog, node, machine, mem>>

(***************************************************************************)
(* The instructions.                                                       *)
(***************************************************************************)
this == code[ip]
Runs(ops) == pc = "run" /\ ip \in DOMAIN code /\ this.op \in ops /\ UNCHANGED <<prog, pc, node, code>>
NextInstr == ip' = ip + 1

Move ==
  /\ Runs({"mov", "lea"})
  /\ rax' = this.v
  /\ NextInstr /\ UNCHANGED <<util, flags, floats, stack, mem>>

\* To the width of an int, the rest is zero; from that to all of the register.
Extended(x, width, signed) ==
  CASE ~signed -> Low(x, width)
    [] signed /\ width < Int32 -> Low(Signed(x, width), Int32)
    [] OTHER -> Reg(Signed(x, width))

Load ==
  /\ Runs({"loadzx", "loadsx"})
  /\ rax' = Extended(mem[rax], this.width, this.op = "loadsx")
  /\ NextInstr /\ UNCHANGED <<util, flags, floats, stack, mem>>

Extend ==
  /\ Runs({"movzx", "movsx", "movsxd"})
  /\ rax' = Extended(rax, this.width, this.op # "movzx")
  /\ NextInstr /\ UNCHANGED <<util, flags, floats, stack, mem>>

\* Of a bit-field: it is shifted to the left end of the register and back.
Extract ==
  /\ Runs({"fieldzx", "fieldsx"})
  /\ LET bits == Low(rax \div 2 ^ this.v, this.width)
     IN  rax' = IF this.op = "fieldzx" THEN bits ELSE Reg(Signed(bits, this.width))
  /\ NextInstr /\ UNCHANGED <<util, flags, floats, stack, mem>>

Push ==
  /\ Runs({"push"})
  /\ stack' = <<rax>> \o stack
  /\ NextInstr /\ UNCHANGED <<rax, util, flags, floats, mem>>

Pop ==
  /\ Runs({"pop"})
  /\ util' = Head(stack) /\ stack' = Tail(stack)
  /\ NextInstr /\ UNCHANGED <<rax, flags, floats, mem>>

Store ==
  /\ Runs({"store"})
  /\ mem' = [mem EXCEPT ![util] = Low(rax, this.width)]
  /\ NextInstr /\ UNCHANGED <<rax, util, flags, floats, stack>>

\* The bits of a field are replaced in its unit; the register keeps what it had.
Merge ==
  /\ Runs({"merge"})
  /\ LET at == 2 ^ this.v
         above == at * 2 ^ this.width
     IN  mem' = [mem EXCEPT ![Head(stack)] =
                   (@ \div above) * above + Low(rax, this.width) * at + (@ % at)]
  /\ util' = Head(stack) /\ stack' = Tail(stack)
  /\ NextInstr /\ UNCHANGED <<rax, flags, floats>>

Complement ==
  /\ Runs({"neg", "bitnot"})
  /\ rax' = IF this.op = "neg" THEN Reg(-rax) ELSE Reg(-rax - 1)
  /\ NextInstr /\ UNCHANGED <<util, flags, floats, stack, mem>>

\* A result of the width of an int has zeroes above it.
Compute ==
  /\ Runs(Arithmetic \union {"idiv", "imod", "shl", "shr", "sar"})
  /\ LET w == this.width
         a == Low(rax, w)
         b == Low(util, w)
         sa == Signed(rax, w)
         sb == Signed(util, w)
         count == util % w
     IN  rax' = CASE this.op = "add" -> Low(a + b, w)
                  [] this.op = "sub" -> Low(a - b, w)
                  [] this.op = "mul" -> Low(sa * sb, w)
                  [] this.op = "div" -> a \div b
                  [] this.op = "mod" -> a % b
                  [] this.op = "idiv" -> Low(Quotient(sa, sb), w)
                  [] this.op = "imod" -> Low(Remainder(sa, sb), w)
                  [] this.op = "and" -> a & b
                  [] this.op = "or" -> a | b
                  [] this.op = "xor" -> a ^^ b
                  [] this.op = "shl" -> Low(Low(a, w - count) * 2 ^ count, w)
                  [] this.op = "shr" -> a \div 2 ^ count
                  [] this.op = "sar" -> Low(sa \div 2 ^ count, w)
  /\ NextInstr /\ UNCHANGED <<util, flags, floats, stack, mem>>

Compare ==
  /\ Runs({"cmp", "cmpzero"})
  /\ flags' = <<Signed(rax, this.width), IF this.op = "cmp" THEN Signed(util, this.width) ELSE 0>>
  /\ NextInstr /\ UNCHANGED <<rax, util, floats, stack, mem>>

Set ==
  /\ Runs({"set"})
  /\ LET l == flags[1]
         r == flags[2]
         below == IF (l < 0) = (r < 0) THEN l < r ELSE r < 0
     IN  rax' = Truth(CASE this.v = "eq" -> l = r
                        [] this.v = "ne" -> l # r
                        [] this.v = "lt" -> l < r
                        [] this.v = "le" -> l <= r
                        [] this.v = "below" -> below
                        [] this.v = "belowequal" -> below \/ l = r)
  /\ NextInstr /\ UNCHANGED <<util, flags, floats, stack, mem>>

Jump ==
  /\ Runs({"jmp", "je", "jne"})
  /\ LET equal == flags[1] = flags[2]
         taken == CASE this.op = "jmp" -> TRUE [] this.op = "je" -> equal [] OTHER -> ~equal
     IN  ip' = IF taken THEN ip + 1 + this.v ELSE ip + 1
  /\ UNCHANGED <<rax, util, flags, floats, stack, mem>>

(***************************************************************************)
(* Floating point.  A float or a double is in xmm0; a register whose bits  *)
(* are of the other format has no number.  A long double is on the stack   *)
(* of the x87 unit, where a push onto eight loses the last and gives NaN,  *)
(* and what has not been pushed is NaN.                                    *)
(***************************************************************************)
Read(r, ty) == IF xmm[r].ty = ty THEN xmm[r].x ELSE NaN
St(i) == IF i <= Len(fpu) THEN fpu[i] ELSE NaN
Below2(n) == SubSeq(fpu, n + 1, Len(fpu))
PushedOn(x, rest) == IF Len(rest) < FpuSize THEN <<x>> \o rest ELSE <<NaN>> \o SubSeq(rest, 1, FpuSize - 1)

\* The number a computation leaves, instead of the first n of the x87 stack if it is there.
Gives(ty, x, n) ==
  IF ty = "ldouble" THEN fpu' = PushedOn(x, Below2(n)) /\ UNCHANGED xmm
  ELSE xmm' = [xmm EXCEPT ![1] = Float(ty, x)] /\ UNCHANGED fpu
First(ty) == IF ty = "ldouble" THEN St(1) ELSE Read(1, ty)
Drops(ty, n) == IF ty = "ldouble" THEN fpu' = Below2(n) /\ UNCHANGED xmm ELSE UNCHANGED floats

FloatMove ==
  /\ Runs({"fmov", "fload"})
  /\ IF this.op = "fmov" THEN Gives(this.v[1], this.v[2], 0) ELSE Gives(this.v, mem[rax], 0)
  /\ NextInstr /\ UNCHANGED <<rax, util, flags, stack, mem>>

FloatStore ==
  /\ Runs({"fstore"})
  /\ mem' = [mem EXCEPT ![util] = First(this.v)]
  /\ Drops(this.v, 1)
  /\ NextInstr /\ UNCHANGED <<rax, util, flags, stack>>

FloatPush ==
  /\ Runs({"pushf"})
  /\ stack' = <<xmm[1]>> \o stack
  /\ NextInstr /\ UNCHANGED <<rax, util, flags, floats, mem>>

FloatPop ==
  /\ Runs({"popf"})
  /\ xmm' = [xmm EXCEPT ![2] = Head(stack)] /\ stack' = Tail(stack)
  /\ NextInstr /\ UNCHANGED <<rax, util, flags, fpu, mem>>

\* The first operand of a long double was pushed first.
Both(ty) == IF ty = "ldouble" THEN <<St(2), St(1)>> ELSE <<Read(1, ty), Read(2, ty)>>
\* fsubrp and fdivrp are the reversed ones: the second operand less the first.
Reversed(k, ty) == ty = "ldouble" /\ k \in {"sub", "div"}
FloatCompute ==
  /\ Runs({"fop", "fneg"})
  /\ IF this.op = "fneg" THEN Gives(this.v, Minus(First(this.v)), 1)
     ELSE LET k == this.v[1]
              ty == this.v[2]
              x == Both(ty)
              result == IF Reversed(k, ty) THEN FloatOp(k, x[2], x[1]) ELSE FloatOp(k, x[1], x[2])
          IN  Gives(ty, Rounded(result, ty), 2)
  /\ NextInstr /\ UNCHANGED <<rax, util, flags, stack, mem>>

\* The flags of numbers that have no order are those of equal ones, and parity, which the
\* code for long doubles does not ask for.
FloatCompare ==
  /\ Runs({"fcmp"})
  /\ LET ty == this.v[2]
         x == Both(ty)
         unordered == NaN \in {x[1], x[2]}
         equal == Same(x[1], x[2]) \/ (unordered /\ ty = "ldouble")
     IN  /\ rax' = Truth(CASE this.v[1] = "eq" -> equal
                           [] this.v[1] = "ne" -> ~equal
                           [] this.v[1] = "lt" -> Below(x[1], x[2])
                           [] this.v[1] = "le" -> Below(x[1], x[2]) \/ Same(x[1], x[2]))
         /\ Drops(ty, 2)
  /\ NextInstr /\ UNCHANGED <<util, flags, stack, mem>>

CompareZero ==
  /\ Runs({"fcmpzero"})
  /\ LET zero == this.v = "ldouble" \/ IsZero(First(this.v)) \/ First(this.v) = NaN
     IN  flags' = IF zero THEN <<0, 0>> ELSE <<1, 0>>
  /\ Drops(this.v, 1)
  /\ NextInstr /\ UNCHANGED <<rax, util, stack, mem>>

\* An unsigned long of 64 bits is halved, the bit that is lost kept in the last one, and the
\* result doubled; or 2^64 is added to what it is with a sign.
Mantissa(x) == IF x < 2 ^ (RegBits - 1) THEN x ELSE IF x % 2 = 1 /\ (x \div 2) % 2 = 0 THEN x \div 2 + 1 ELSE x \div 2
ConvertInt ==
  /\ Runs({"cvtint", "cvtulong"})
  /\ LET signed == Rounded(OfInt(Signed(rax, this.width)), this.v)
         half == Rounded(OfInt(Mantissa(rax)), this.v)
     IN  Gives(this.v, CASE this.op = "cvtint" \/ rax < 2 ^ (RegBits - 1) -> signed
                          [] this.v = "double" -> Sum(half, half)
                          [] OTHER -> Rounded(Sum(signed, OfInt(2 ^ RegBits)), this.v), 0)
  /\ NextInstr /\ UNCHANGED <<rax, util, flags, stack, mem>>

ConvertFloat ==
  /\ Runs({"cvtfloat"})
  /\ LET from == this.v[1]
         to == this.v[2]
         x == Rounded(First(from), to)
     IN  IF "ldouble" \notin {from, to} THEN Gives(to, x, 0)
         ELSE /\ fpu' = IF to = "ldouble" THEN PushedOn(x, fpu) ELSE Below2(1)
              /\ xmm' = IF to = "ldouble" THEN xmm ELSE [xmm EXCEPT ![1] = Float(to, x)]
  /\ NextInstr /\ UNCHANGED <<rax, util, flags, stack, mem>>

Truncate ==
  /\ Runs({"cvtt"})
  /\ rax' = Low(AsInteger(First(this.v), this.width), this.width)
  /\ Drops(this.v, 1)
  /\ NextInstr /\ UNCHANGED <<util, flags, stack, mem>>

Stop ==
  /\ pc = "run" /\ ip \notin DOMAIN code
  /\ pc' = "stopped"
  /\ UNCHANGED <<prog, node, code, machine, mem>>

Done == pc \in {"folded", "aborted", "stopped"} /\ UNCHANGED vars

Next ==
  \/ Parse \/ Fold \/ Generate \/ Stop \/ Done
  \/ Move \/ Load \/ Extend \/ Extract \/ Push \/ Pop \/ Store \/ Merge
  \/ Complement \/ Compute \/ Compare \/ Set \/ Jump
  \/ FloatMove \/ FloatStore \/ FloatPush \/ FloatPop \/ FloatCompute \/ FloatCompare
  \/ CompareZero \/ ConvertInt \/ ConvertFloat \/ Truncate
Spec == Init /\ [][Next]_vars
===============================================================================
