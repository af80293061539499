----------------------------- MODULE MCLiveUpdate -----------------------------
(***************************************************************************)
(* Two-file projects for TLC.  main.c (file 1) calls into second.c (file   *)
(* 2), as in test/update_twofiles.py.                                      *)
(***************************************************************************)
EXTENDS LiveUpdate

Unique1 == <<"L..0">>

F(n) == [name |-> n, static |-> FALSE]
SF(n) == [name |-> n, static |-> TRUE]
V(n, r) == [name |-> n, static |-> FALSE, size |-> 8, rel |-> r]
SV(n, r) == [name |-> n, static |-> TRUE, size |-> 8, rel |-> r]
Str(fn) == [src |-> fn, ro |-> TRUE, size |-> 2, rel |-> NoRel]
StaticLocal(n) == [src |-> n, ro |-> FALSE, size |-> 8, rel |-> NoRel]

Text(fs, vs, as, rs) == [ok |-> TRUE, funs |-> fs, vars |-> vs, anons |-> as, refs |-> rs]
Broken == NoText                       \* does not compile

\* main.c: int main(void) { return other() + x; }  int x; and then a version with a
\* string literal, a pointer to it, and a call of a host function.
Main1 == Text({F("main")}, {V("x", NoRel)}, <<>>, {"other", "x"})
Main2 == Text({F("main"), SF("aux")}, {V("x", NoRel), SV("p", SymRel("L..0"))},
              <<Str("main")>>, {"other", "x", "puts", "L..0"})

\* second.c: int other(void), with a pointer to x of main.c; then with a static
\* local as well; then with a reference nobody defines.
Other1 == Text({F("other")}, {V("q", SymRel("x"))}, <<>>, {"q"})
Other2 == Text({F("other")}, {V("q", SymRel("x"))}, <<StaticLocal("n")>>, {"q", "x", "L..0"})
Other3 == Text({F("other")}, {V("q", SymRel("x"))}, <<>>, {"q", "gone"})

StableTexts == [f \in Files |-> IF f = 1 THEN {Main1, Main2, Broken}
                               ELSE {Other1, Other2, Other3, Broken}]
===============================================================================
