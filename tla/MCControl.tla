------------------------------- MODULE MCControl -------------------------------
(***************************************************************************)
(* Functions of a few statements; an int has three bits, a long six.       *)
(***************************************************************************)
EXTENDS Control

Types == {"int", "uint", "long", "ulong"}
MCValues == [ty \in {"bool"} \union Types |->
  CASE ty = "bool" -> {0, 1} [] ty = "int" -> {-4, -1, 0, 1, 3} [] ty = "uint" -> {0, 1, 3, 4, 7}
    [] ty = "long" -> {-8, -4, -1, 0, 1, 3, 4, 7, 8} [] OTHER -> {0, 1, 3, 4, 7, 8, 60, 63}]

N(k, v, kids) == [k |-> k, v |-> v, kids |-> kids]
S(k, kids) == N(k, 0, kids)
Used(x) == N("expr", 0, <<N("use", x, <<>>)>>)
AskOf(ty) == N("ask", ty, <<>>)
Asked == AskOf("bool")
Nil == S("nil", <<>>)
Break == S("break", <<>>)
Continue == S("continue", <<>>)
Leave == S("return", <<>>)
Goto(x) == N("goto", x, <<>>)
LabelAt(x, s) == N("label", x, <<s>>)
Block(ss) == S("block", ss)
If(e, s) == S("if", <<e, s>>)
IfElse(e, s, t) == S("if", <<e, s, t>>)
While(e, s) == S("while", <<e, s>>)
DoWhile(s, e) == S("do", <<s, e>>)
For(i, e, inc, s) == S("for", <<i, e, inc, s>>)
Switch(e, s) == S("switch", <<e, s>>)
Case(b, e, s) == N("case", <<b, e>>, <<s>>)
Default(s) == S("default", <<s>>)
Decl(x, storage, kids) == N("decl", [name |-> x, storage |-> storage], kids)

(***************************************************************************)
(* Control.                                                                *)
(***************************************************************************)
Leaves == {Used("g"), Break, Continue, Leave, Goto("L")}
Ones(Inner) == {If(Asked, s) : s \in Inner} \union {While(Asked, s) : s \in Inner}
  \union {DoWhile(s, Asked) : s \in Inner} \union {For(Nil, Asked, N("use", "g", <<>>), s) : s \in Inner}
  \union {For(Nil, Nil, Nil, s) : s \in Inner}
Twos(Inner, Others) == {IfElse(Asked, s, t) : s \in Inner, t \in Others}
  \union {Block(<<s, t>>) : s \in Inner, t \in Others}
  \union {Switch(Asked, Block(<<Case(1, 1, s), Default(t)>>)) : s \in Inner, t \in Others}
  \union {Switch(Asked, Block(<<Case(1, 1, s), t>>)) : s \in Inner, t \in Others}

Level1 == Ones(Leaves) \union Twos(Leaves, Leaves)
Level2 == Ones(Level1) \union Twos(Level1, Leaves)

\* The function: a label in front of the statement or behind it.
Functions1 == {Block(<<LabelAt("L", s), Used("g")>>) : s \in Leaves \union Level1 \union Level2}
Functions2 == {Block(<<s, LabelAt("L", Used("g"))>>) : s \in Leaves \union Level1 \union Level2}

(***************************************************************************)
(* Conditions of each type.                                                *)
(***************************************************************************)
Conditions == {Block(<<s, Used("g")>>) : s \in UNION {
  {If(AskOf(ty), Used("g")), While(AskOf(ty), Used("g")), DoWhile(Used("g"), AskOf(ty)),
   For(Nil, AskOf(ty), Nil, Used("g"))} : ty \in Types}}

(***************************************************************************)
(* Switches, of each type, over constants and ranges at the edges.         *)
(***************************************************************************)
Constants == {-4, -1, 0, 1, 3, 4, 7, 8, 63}
Ranges == {v \in Constants \X Constants : v[1] <= v[2]}
Ints(v) == {x % 8 : x \in v[1] .. v[2]}
Apart(v, w) == Ints(v) \intersect Ints(w) = {} /\ Cardinality(Ints(v)) <= 4 /\ Cardinality(Ints(w)) <= 4
Cases == {Switch(AskOf(ty), Block(<<Case(v[1], v[2], Used("g")), Used("g")>>)) : ty \in Types, v \in Ranges}
  \union {Switch(AskOf(ty), Block(<<Case(vw[1][1], vw[1][2], Used("g")), Break, Default(Used("g")),
                                  Case(vw[2][1], vw[2][2], Used("g"))>>)) :
            ty \in Types, vw \in {x \in Ranges \X Ranges : Apart(x[1], x[2])}}
Switches == {Block(<<s, Used("g")>>) : s \in Cases}

\* Cases inside of the statements of a switch, and around other switches.
Middle == Block(<<Used("g"), Case(1, 1, Used("g")), Continue>>)
InnerSwitch == Switch(Asked, Block(<<Case(0, 0, Break), Case(1, 1, Used("g")), Default(Continue)>>))
Device == {Switch(Asked, s) : s \in Ones({Middle, Case(1, 1, Break)})}
  \union {While(Asked, Block(<<Switch(Asked, Block(<<s, Case(1, 1, t)>>)), Used("g")>>)) :
            s \in {Case(0, 0, InnerSwitch), While(Asked, Break), Break}, t \in {InnerSwitch, Break, Continue}}
  \union {Block(<<InnerSwitch, Case(1, 1, Nil)>>), While(Asked, InnerSwitch), Default(Nil), InnerSwitch}
Devices == {Block(<<s, Used("g")>>) : s \in Device}

(***************************************************************************)
(* Names: the same one declared in turn, in blocks and in conditions.      *)
(***************************************************************************)
Names == {"x", "g"}
Storages == {"auto", "static", "extern", "typedef"}
Expr(e) == N("expr", 0, <<e>>)
Binary(a, b) == S("binary", <<a, b>>)
GnuBlock(ss) == S("stmtexpr", ss)
Name(x) == N("use", x, <<>>)
Declare == {Decl(x, st, <<>>) : x \in Names, st \in Storages}
  \union {Decl(x, st, <<Name(x)>>) : x \in Names, st \in {"auto", "vla"}}
Enum(x) == N("enum", [name |-> x, storage |-> "enum"], <<>>)
Between == {Used(x) : x \in Names} \union {
    Block(<<d, Used("x")>>) : d \in Declare} \union {
    For(d, Asked, Name("x"), Used("x")) : d \in Declare} \union {
    If(Binary(Asked, Enum("x")), Used("x")), While(Binary(Asked, Enum("x")), Used("x")),
    For(Nil, Binary(Asked, Enum("x")), Nil, Used("x")),
    Expr(Enum("x")), Expr(GnuBlock(<<Expr(Enum("x")), Used("x")>>)),
    Expr(GnuBlock(<<Decl("x", "auto", <<>>), Used("x")>>)),
    LabelAt("L", Used("x")), Switch(Binary(Asked, Enum("x")), Block(<<Case(1, 1, Used("x"))>>))}
Scoping == {Block(<<d, b, Used("x")>>) : d \in Declare, b \in Between}
  \union {Block(<<b, Used("x")>>) : b \in Between}
  \union {Block(<<b, d, Used("x")>>) : d \in Declare, b \in Between}
  \union {Block(<<Decl("x", "auto", <<>>), Block(<<b, d, Used("x")>>), Used("x")>>) : d \in Declare, b \in Between}

(***************************************************************************)
(* Statement expressions as operands, with statements that stay in them,   *)
(* that leave them, and that allocate.                                     *)
(***************************************************************************)
Vla(kids) == Decl("v", "vla", kids)
Statements == {Used("g"), Vla(<<Asked>>), While(Asked, Used("g")), While(Asked, Break), If(Asked, Leave),
               If(Asked, Break), If(Asked, Continue), If(Asked, Goto("L")),
               Block(<<If(Asked, Goto("M")), Used("g"), LabelAt("M", Nil)>>),
               Switch(Asked, Block(<<Case(0, 0, Break), Used("g")>>))}
Gnus == {GnuBlock(<<s, Expr(Asked)>>) : s \in Statements}
Operators == {Binary(a, b) : a \in Gnus \union {Asked}, b \in Gnus \union {Asked}}
  \union {Binary(GnuBlock(<<s, Expr(Binary(a, Asked))>>), Asked) : s \in Statements, a \in Gnus}
  \union {Binary(Binary(a, Asked), Binary(Asked, b)) : a \in Gnus, b \in Gnus}
  \union {Binary(GnuBlock(<<While(Asked, Expr(Binary(a, Asked))), Expr(Asked)>>), Asked) : a \in Gnus}
RECURSIVE LabelsIn(_)
LabelsIn(s) == (IF s.k = "label" THEN <<s.v>> ELSE <<>>) \o FlattenSeq([i \in DOMAIN s.kids |-> LabelsIn(s.kids[i])])
Temporaries ==
  {f \in {Block(<<While(Asked, Expr(e)), LabelAt("L", Used("g"))>>) : e \in Operators}
      \union {Block(<<Expr(e), LabelAt("L", Used("g"))>>) : e \in Operators} : IsInjective(LabelsIn(f))}

(***************************************************************************)
(* goto *, and a goto into a statement.                                    *)
(***************************************************************************)
JumpTo(names) == S("jump", <<N("pick", names, <<>>)>>)
Into == {While(Asked, Block(<<Used("g"), LabelAt("L", Used("g"))>>)), If(Asked, LabelAt("L", Used("g"))),
         Switch(Asked, Block(<<Case(1, 1, LabelAt("L", Break)), Default(Used("g"))>>)),
         For(Nil, Asked, Name("g"), LabelAt("L", Continue)), LabelAt("L", DoWhile(Nil, Asked))}
Jumps == {Block(<<j, s, t>>) : j \in {Goto("L"), JumpTo(<<"L", "M">>), JumpTo(<<"M", "L">>), JumpTo(<<"L", "K">>)},
                             s \in Into, t \in {LabelAt("M", Used("g")), LabelAt("M", JumpTo(<<"L">>))}}

AllFamilies == {Functions1, Functions2, Conditions, Switches, Devices, Scoping, Temporaries, Jumps}
================================================================================
