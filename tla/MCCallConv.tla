------------------------------- MODULE MCCallConv -------------------------------
(***************************************************************************)
(* Calls of up to six arguments, with three integer and four floating      *)
(* registers on SysV and two positions on Windows, so that each kind of    *)
(* argument meets the last register and the first place on the stack.      *)
(***************************************************************************)
EXTENDS PsAbi

Scalar(k, size) == [kind |-> k, size |-> size, scalars |-> {<<0, k>>}]
Struct(size, scalars) == [kind |-> "struct", size |-> size, scalars |-> scalars]

Types ==
  { Scalar("int", 8), Scalar("float", 8), Scalar("ldouble", 16),
    Struct(4, {<<0, "int">>}), Struct(8, {<<0, "float">>, <<4, "float">>}),
    Struct(16, {<<0, "float">>, <<8, "int">>}), Struct(16, {<<0, "int">>, <<8, "float">>}),
    Struct(12, {<<0, "int">>, <<4, "float">>, <<8, "int">>}),
    Struct(16, {<<0, "ldouble">>}), Struct(32, {<<0, "ldouble">>, <<16, "int">>}),
    Struct(24, {<<0, "int">>, <<8, "float">>, <<16, "int">>}) }
Scalars == {Scalar("int", 8), Scalar("float", 8)}
Aligned == Struct(32, {<<0, "ldouble">>, <<16, "int">>})
Extra == Scalars \union {Struct(0, {}), Struct(24, {<<0, "int">>, <<8, "float">>, <<16, "int">>})}

Lists(types, n) == UNION {[1 .. k -> types] : k \in 0 .. n}
MCCalls ==
  [params : Lists(Types, 3), more : {<<>>}, big : BOOLEAN, temps : 0 .. 1]
  \union [params : [1 .. 5 -> Scalars], more : {<<>>}, big : {FALSE}, temps : {0}]
  \union [params : Lists(Scalars, 2), more : Lists(Extra, 4), big : BOOLEAN, temps : {1}]
  \union [params : Lists(Scalars, 2), more : Lists((Extra \ {Struct(0, {})}) \union {Aligned}, 3), big : {FALSE}, temps : {0}]
===============================================================================
