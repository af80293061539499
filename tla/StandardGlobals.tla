---------------------------- MODULE StandardGlobals ----------------------------
(***************************************************************************)
(* What C11 says of the names of a translation unit (6.2.2, 6.7.4, 6.9),   *)
(* against which the symbols that Globals emits are held.                  *)
(***************************************************************************)
EXTENDS Globals

Declared(n) == {k \in DOMAIN prog : prog[k].name = n}
First(n) == CHOOSE k \in Declared(n) : \A j \in Declared(n) : k <= j
IsFunction(n) == \E k \in Declared(n) : prog[k].func
Defined(n) == \E k \in Declared(n) : prog[k].def
Internal(n) == "static" \in prog[First(n)].spec

\* The declarations in bodies: of which declaration, what kind, what name.
LocalDecls ==
  UNION {{<<k, prog[k].items[i][1], prog[k].items[i][2]>> :
            i \in {i \in DOMAIN prog[k].items : prog[k].items[i][1] # "use"}} :
         k \in DOMAIN prog}

\* The names declared in body k before its item i.
LocalNames(k, i) ==
  {prog[k].items[j][2] : j \in {j \in 1 .. i - 1 : prog[k].items[j][1] # "use"}}

OneKind(n) ==
  /\ \A j, k \in Declared(n) : prog[j].func = prog[k].func
  /\ \A x, y \in LocalDecls : x[3] = n /\ y[3] = n => x[2] = y[2]
  /\ Declared(n) # {} =>
       \A x \in LocalDecls : x[3] = n => (x[2] = "proto" <=> IsFunction(n))

\* The linkage of a name is the same in all its declarations.
OneLinkage(n) ==
  LET statics == {k \in Declared(n) : "static" \in prog[k].spec}
  IN  /\ statics # {} => First(n) \in statics
      /\ statics # {} /\ ~IsFunction(n) =>
           \A k \in Declared(n) \ statics : "extern" \in prog[k].spec
      /\ statics # {} => \A x \in LocalDecls : x[3] = n => First(n) <= x[1]

KnownUses(k) ==
  \A i \in DOMAIN prog[k].items :
    prog[k].items[i][1] = "use" =>
      LET n == prog[k].items[i][2]
      IN  /\ n \in LocalNames(k, i) \union {prog[j].name : j \in 1 .. k}
          /\ Declared(n) # {} /\ IsFunction(n) /\ Internal(n) => Defined(n)

(***************************************************************************)
(* The constraints of C on a translation unit, as far as they are about    *)
(* names; an inline function is defined where it is declared.              *)
(***************************************************************************)
Valid ==
  /\ \A n \in Names :
       /\ OneKind(n)
       /\ Declared(n) # {} => OneLinkage(n)
       /\ \A j, k \in Declared(n) : prog[j].def /\ prog[k].def => j = k
       /\ (\E k \in Declared(n) : "inline" \in prog[k].spec) => Defined(n)
  /\ \A k \in DOMAIN prog : KnownUses(k)

\* 6.7.4: a definition all of whose declarations are inline is not an external one.
External(n) ==
  /\ Declared(n) # {} /\ ~Internal(n)
  /\ IF IsFunction(n)
       THEN Defined(n) /\ \E k \in Declared(n) : prog[k].spec \intersect {"inline", "extern"} # {"inline"}
       ELSE \E k \in Declared(n) : prog[k].def \/ "extern" \notin prog[k].spec

\* 6.9.2: a variable has storage here if a declaration is a definition, tentative or not.
HasStorage(n) ==
  /\ Declared(n) # {} /\ ~IsFunction(n)
  /\ \E k \in Declared(n) : prog[k].def \/ "extern" \notin prog[k].spec

-------------------------------------------------------------------------------
(***************************************************************************)
(* Where the code departs from this, and how a program comes to it; each   *)
(* is a finding.                                                           *)
(***************************************************************************)
Tentative(k) == ~prog[k].func /\ ~prog[k].def /\ "extern" \notin prog[k].spec
UsesIn(k) == {prog[k].items[i][2] : i \in {i \in DOMAIN prog[k].items : prog[k].items[i][1] = "use"}}

\* int x; int x;  each is redundant because of the other.
RepeatedTentative ==
  \E n \in Names : ~Defined(n) /\ \E j, k \in Declared(n) : j # k /\ Tentative(j) /\ Tentative(k)

\* extern int x = 3;  is not taken for a definition.
ExternInitialised == \E k \in DOMAIN prog : ~prog[k].func /\ prog[k].def /\ "extern" \in prog[k].spec

\* inline int f(void) {...}  int f(void);  the function stays internal.
LateExternal ==
  \E n \in Names : /\ External(n) /\ IsFunction(n)
                   /\ prog[First(n)].spec \intersect {"inline", "extern"} = {"inline"}

\* An initialiser behind a function body: current_fn is still that function.
LateInitialiser ==
  \E j, k \in DOMAIN prog : j < k /\ prog[j].func /\ prog[j].def /\ ~prog[k].func /\ UsesIn(k) # {}

\* A function is redeclared after an initialiser used it: is_root is computed anew.
ForgottenRoot ==
  \E j \in DOMAIN prog : ~prog[j].func /\
    \E n \in UsesIn(j) : \/ \E k \in Declared(n) : j < k
                         \/ \E x \in LocalDecls : x[3] = n /\ j < x[1]

Departs ==
  RepeatedTentative \/ ExternInitialised \/ LateExternal \/ LateInitialiser \/ ForgottenRoot

Conforming == pc = "emit" /\ Valid /\ ~Departs

-------------------------------------------------------------------------------
(***************************************************************************)
(* A valid translation unit is compiled (the errors of function and        *)
(* primary are for others), and exports what has external linkage and is   *)
(* defined in it, and nothing else (is_static decides the table of         *)
(* emit_data and fill_out_text_exports).                                   *)
(***************************************************************************)
ExportsAsC ==
  /\ Valid => pc # "error"
  /\ Conforming =>
       {objs[o].name : o \in {o \in Emitted : ~objs[o].static}} = {n \in Names : External(n)}

(***************************************************************************)
(* Of all declarations of a variable one object gets storage, with the     *)
(* initialiser if there is one: "Remove redundant tentative definitions."  *)
(***************************************************************************)
OneStorage ==
  Conforming =>
    \A n \in Names : HasStorage(n) =>
      \E o \in Emitted :
        /\ {p \in Emitted : objs[p].name = n} = {o}
        /\ objs[o].init = Defined(n)
        /\ objs[o].static = Internal(n)

(***************************************************************************)
(* What is emitted refers to what is emitted, or to a name that this file  *)
(* does not define: no function that is needed is left out because it is   *)
(* static and inline.                                                      *)
(***************************************************************************)
Complete ==
  \A o \in Emitted : \A u \in objs[o].uses :
    \/ Reaches(o, u)
    \/ Declared(objs[u].name) = {}
    \/ ~IsFunction(objs[u].name) /\ ~HasStorage(objs[u].name)
    \/ IsFunction(objs[u].name) /\ ~Defined(objs[u].name)

ReferencesReach == Conforming => Complete

(***************************************************************************)
(* "No code is emitted for "static inline" functions if no one is          *)
(* referencing them": one that is emitted is used by something else that   *)
(* is, or by an initialiser at file scope.                                 *)
(***************************************************************************)
NothingIdle ==
  pc = "emit" =>
    \A e \in Emitted :
      objs[e].func /\ objs[e].static /\ objs[e].inline =>
        \E o \in (Emitted \union {v \in Objects : objs[v].init}) \ {e} :
          \E u \in objs[o].uses : objs[u].name = objs[e].name

\* Every translation unit is parsed to the end.
ParseEnds == <>(pc \in {"emit", "error"})

(***************************************************************************)
(* What dyibicc.h says of is_live, without exception: functions that       *)
(* someone refers to are there.                                            *)
(***************************************************************************)
AlwaysComplete == pc = "emit" /\ Valid => Complete
===============================================================================
