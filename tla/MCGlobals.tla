------------------------------- MODULE MCGlobals -------------------------------
(***************************************************************************)
(* Translation units of two functions, a caller of them and a variable:    *)
(* all pairs of forms of declaration; all triples of those that matter to  *)
(* liveness; and up to four declarations of two variables, in all orders.  *)
(***************************************************************************)
EXTENDS StandardGlobals

Decls(func, n, def, specs, bodies) ==
  {[func |-> func, name |-> n, spec |-> s, def |-> def, items |-> b] :
     s \in specs, b \in bodies}

Plain == {{}, {"static"}, {"inline"}, {"static", "inline"}}
SI == {{"static", "inline"}}
Uses(n) == <<<<"use", n>>>>
ProtoUses(n) == <<<<"proto", n>>, <<"use", n>>>>

FuncForms(n, other) ==
  Decls(TRUE, n, FALSE, Plain, {<<>>})
  \union Decls(TRUE, n, TRUE, Plain \union {{"extern", "inline"}},
               {<<>>, Uses(other), ProtoUses(other)})

VarForms(n, bodies) ==
  Decls(FALSE, n, FALSE, {{}, {"static"}, {"extern"}}, {<<>>})
  \union Decls(FALSE, n, TRUE, {{}, {"static"}, {"extern"}}, bodies)

MainForms ==
  Decls(TRUE, "main", TRUE, {{}},
        {<<<<"extern", "x">>, <<"use", "x">>>>, <<<<"use", "f">>, <<"use", "x">>>>})

Forms ==
  FuncForms("f", "g") \union FuncForms("g", "f")
  \union VarForms("x", {<<>>, Uses("f")}) \union MainForms

LiveForms ==
  Decls(TRUE, "f", FALSE, {{}, {"inline"}, {"static", "inline"}}, {<<>>})
  \union Decls(TRUE, "f", TRUE, SI, {<<>>, Uses("g"), ProtoUses("g")})
  \union Decls(TRUE, "f", TRUE, {{"inline"}, {"extern", "inline"}}, {Uses("g")})
  \union Decls(TRUE, "g", FALSE, SI, {<<>>})
  \union Decls(TRUE, "g", TRUE, SI, {<<>>, Uses("f")})
  \union Decls(FALSE, "x", TRUE, {{}}, {Uses("f")})
  \union Decls(TRUE, "main", TRUE, {{}}, {<<>>, Uses("f")})

Variables ==
  VarForms("x", {<<>>}) \union Decls(FALSE, "y", FALSE, {{}, {"extern"}}, {<<>>})

MCNames == {"f", "g", "x", "y", "main"}
Lists(forms, n) == [1 .. n -> forms]
Chain == Decls(TRUE, "f", TRUE, SI, {Uses("g")}) \union Decls(TRUE, "f", FALSE, SI, {<<>>})
  \union Decls(TRUE, "g", TRUE, SI, {<<>>}) \union Decls(TRUE, "g", FALSE, SI, {<<>>})
  \union Decls(TRUE, "main", TRUE, {{}}, {Uses("f")})
MCPrograms ==
  Lists(Forms, 1) \union Lists(Forms, 2) \union Lists(LiveForms, 3)
  \union Lists(Variables, 3) \union Lists(Variables, 4) \union Lists(Chain, 5)
===============================================================================
