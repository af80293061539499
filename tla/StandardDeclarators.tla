-------------------------- MODULE StandardDeclarators --------------------------
(***************************************************************************)
(* What C11 6.7 says of declarations, against which Declarators is held.   *)
(* Here a declaration is what it means: the specifiers, in any order, and  *)
(* for each name what it is, read from the name outwards ("x is a pointer  *)
(* to an array of 3").  How that is written is 6.7.6; the parser has to    *)
(* find its way back.                                                      *)
(***************************************************************************)
EXTENDS Declarators, SequencesExt

(***************************************************************************)
(* A shape is a sequence of the following; a parameter has specifiers, a   *)
(* name (or "") and a shape.                                               *)
(***************************************************************************)
Pointer(quals) == [how |-> "pointer", words |-> quals]
ArrayOf(words, len) == [how |-> "array", words |-> words, len |-> len]
Parens == [how |-> "parens"]
\* `rest` is "...", "old" if there is nothing between the parentheses, else "".
FunctionOf(params, rest) == [how |-> "function", params |-> params, rest |-> rest]
Param(specs, name, shape) == [specs |-> specs, name |-> name, shape |-> shape]

Declaration(specs, items) == [do |-> "declare", specs |-> specs, items |-> items]
Declares(specs, name, shape) == Declaration(specs, <<[name |-> name, shape |-> shape]>>)
AssignN(v) == [do |-> "assign", to |-> v]
AskSize(name) == [do |-> "sizeof", of |-> name, deref |-> FALSE]
AskSizeBehind(name) == [do |-> "sizeof", of |-> name, deref |-> TRUE]
AskTypeSize(specs, shape) == [do |-> "sizeof type", types |-> <<Param(specs, "", shape)>>]
AskCompatible(left, right) == [do |-> "compatible", types |-> <<left, right>>]

(***************************************************************************)
(* Spelling.  A specifier is a sequence: a word, or `typeof` with a        *)
(* variable, or `_Atomic` with a type.                                     *)
(***************************************************************************)
SpelledSpec(spec) == IF Len(spec) = 1 THEN spec ELSE <<spec[1], "(", spec[2], ")">>
SpelledSpecs(specs) == FlattenSeq([i \in DOMAIN specs |-> SpelledSpec(specs[i])])

Rng(s) == {s[i] : i \in DOMAIN s}
Comma(texts) == FlattenSeq([i \in DOMAIN texts |-> IF i = 1 THEN texts[i] ELSE <<",">> \o texts[i]])
Name(name) == IF name = "" THEN <<>> ELSE <<name>>

\* inner \o ... : a pointer is written before what it is, so that an array or a function of
\* what it points at needs parentheses.
RECURSIVE SpelledShape(_, _, _), SpelledParams(_)
SpelledShape(shape, inner, pointer) ==
  IF shape = <<>> THEN inner
  ELSE LET s == Head(shape)
           closed == IF pointer THEN <<"(">> \o inner \o <<")">> ELSE inner
       IN  CASE s.how = "pointer" -> SpelledShape(Tail(shape), <<"*">> \o s.words \o inner, TRUE)
             [] s.how = "parens" -> SpelledShape(Tail(shape), <<"(">> \o inner \o <<")">>, FALSE)
             [] s.how = "array" ->
                  SpelledShape(Tail(shape), closed \o <<"[">> \o s.words \o Name(s.len) \o <<"]">>, FALSE)
             [] s.how = "function" ->
                  SpelledShape(Tail(shape), closed \o <<"(">> \o SpelledParams(s) \o <<")">>, FALSE)

Written(p) == SpelledSpecs(p.specs) \o SpelledShape(p.shape, Name(p.name), FALSE)
SpelledParams(f) ==
  CASE f.rest = "old" -> <<>>
    [] f.rest = "" /\ f.params = <<>> -> <<"void">>
    [] OTHER -> Comma([i \in DOMAIN f.params |-> Written(f.params[i])])
                  \o (IF f.rest = "..." THEN <<",", "...">> ELSE <<>>)

Spelling(s) ==
  CASE s.do = "declare" ->
         SpelledSpecs(s.specs)
           \o Comma([i \in DOMAIN s.items |-> SpelledShape(s.items[i].shape, Name(s.items[i].name), FALSE)]) \o <<";">>
    [] s.do \in {"sizeof type", "compatible"} -> Comma([i \in DOMAIN s.types |-> Written(s.types[i])]) \o <<")">>
    [] OTHER -> <<>>

(***************************************************************************)
(* Specifiers (6.7.1, 6.7.2): one storage class; the words of an           *)
(* arithmetic type, by rule; or one name or typeof.                        *)
(***************************************************************************)
StorageOf(specs) == {i \in DOMAIN specs : specs[i][1] \in {"typedef", "static", "extern"}}
TypeSpecs(specs) == SelectSeq(specs, LAMBDA s : s[1] \notin StorageWords \union IgnoredWords /\ s # <<"_Atomic">>)
Quals(specs) == {specs[i][1] : i \in {j \in DOMAIN specs : Len(specs[j]) = 1}} \intersect {"const", "volatile", "_Atomic"}

Arithmetic(words) ==
  LET Count(w) == Cardinality({i \in DOMAIN words : words[i] = <<w>>})
      Only(allowed) == \A i \in DOMAIN words : words[i][1] \in allowed
      sign == {"signed", "unsigned"}
      U(kind) == IF Count("unsigned") = 1 THEN "u" \o kind ELSE kind
      oneSign == Count("signed") + Count("unsigned") <= 1 /\ Count("int") <= 1
  IN  CASE words \in {<<<<"void">>>>, <<<<"float">>>>, <<<<"double">>>>} -> words[1][1]
        [] words = <<<<"_Bool">>>> -> "bool"
        [] words # <<>> /\ Only({"long", "double"}) /\ Count("double") = 1 /\ Count("long") = 1 -> "ldouble"
        [] Only({"char"} \union sign) /\ Count("char") = 1 /\ oneSign -> U("char")
        [] Only({"short", "int"} \union sign) /\ Count("short") = 1 /\ oneSign -> U("short")
        [] Only({"long", "int"} \union sign) /\ Count("long") \in 1 .. 2 /\ oneSign -> U("long")
        [] words # <<>> /\ Only({"int"} \union sign) /\ oneSign -> U("int")
        [] OTHER -> IF words = <<>> THEN "none" ELSE "error"

(***************************************************************************)
(* Types.  An array of variable length has the length it got where it was  *)
(* written (6.7.6.2p5, 6.7.8p3).  `names` are the known names, with what   *)
(* they are; `len` the value of n.                                         *)
(***************************************************************************)
Arr(b, len) == [kind |-> "array", base |-> b, len |-> len, quals |-> {}]
Vla(b, len) == [kind |-> "vla", base |-> b, len |-> len, quals |-> {}]
Fun(ret, params, rest) == [kind |-> "function", ret |-> ret, params |-> params, rest |-> rest, quals |-> {}]
\* No type, and the constraint that says so.
Breaks(constraint) == [kind |-> "error", quals |-> {constraint}]

SignTwice(words) ==
  \E i, j \in DOMAIN words : i # j /\ words[i] = words[j] /\ words[i][1] \in {"signed", "unsigned"}

RECURSIVE Derived(_, _, _, _)
Ranked(kind, words) ==
  CASE kind = "none" -> Breaks("no type")
    [] kind = "error" -> Breaks(IF SignTwice(words) THEN "sign twice" ELSE "words")
    [] OTHER -> Basic(kind)
UserDefinedBy(word, names) ==
  CASE word[1] = "typeof" -> names[word[2]].ty
    [] word[1] = "_Atomic" -> [Basic(Arithmetic(<<<<word[2]>>>>)) EXCEPT !.quals = {"_Atomic"}]
    [] OTHER -> names[word[1]].ty
TypeOf(words, names) ==
  CASE Len(words) = 1 /\ words[1][1] \in DOMAIN names \union {"typeof", "_Atomic"} -> UserDefinedBy(words[1], names)
    [] Len(words) > 1 /\ \E w \in Rng(words) : w[1] = "_Atomic" -> Breaks("atomic")
    [] OTHER -> Ranked(Arithmetic(words), words)
Qualified(ty, quals) == IF ty.kind = "error" THEN ty ELSE [ty EXCEPT !.quals = @ \union quals]
BaseType(specs, names) ==
  IF Cardinality(StorageOf(specs)) > 1 THEN Breaks("storage")
  ELSE Qualified(TypeOf(TypeSpecs(specs), names), Quals(specs))

\* 6.7.6.3p7, p8
Adjusted(ty) ==
  CASE ty.kind \in {"array", "vla"} -> pointer_to(ty.base)
    [] ty.kind = "function" -> pointer_to(ty)
    [] OTHER -> ty

ParamType(p, known, len) == Adjusted(Derived(p.shape, BaseType(p.specs, known), known, len))
ParamTypes(params, names, len) ==
  LET earlier(i) == [x \in {params[j].name : j \in 1 .. i - 1} |-> [is |-> "variable", ty |-> Basic("int")]]
  IN  [i \in DOMAIN params |-> ParamType(params[i], earlier(i) @@ names, len)]

Incomplete(ty) == ty.kind = "void" \/ (ty.kind = "array" /\ ty.len = -1)

ArrayDerived(s, of, names, len) ==
  LET number == IF s.len \in DOMAIN Numbers THEN Numbers[s.len] ELSE len
  IN  CASE Incomplete(of) \/ of.kind = "function" -> Breaks("element")
        [] s.len \notin DOMAIN Numbers \union DOMAIN names \union {""} -> Breaks("unknown name")
        [] OTHER -> IF s.len = "" THEN Arr(of, -1)
                    ELSE IF number < 0 THEN Breaks(IF of.kind = "vla" THEN "negative rows" ELSE "negative")
                    ELSE IF s.len \in DOMAIN names \/ of.kind = "vla" THEN Vla(of, number) ELSE Arr(of, number)

\* (void), also by another name, is no parameter
FunctionDerived(s, of, params) ==
  LET none == s.rest = "" /\ Len(params) = 1 /\ params[1].kind = "void" /\ s.params[1].name = ""
      broken == {i \in DOMAIN params : params[i].kind = "error"}
  IN  IF broken # {} THEN params[CHOOSE i \in broken : \A j \in broken : i <= j]
      ELSE IF of.kind \in {"array", "vla", "function"} THEN Breaks("returned")
      ELSE IF ~none /\ \E i \in DOMAIN params : params[i].kind = "void" THEN Breaks("parameter")
      ELSE Fun(of, IF none THEN <<>> ELSE params, s.rest)

DerivedBy(s, of, names, len) ==
  CASE of.kind = "error" \/ s.how = "parens" -> of
    [] of.kind # "error" /\ s.how = "pointer" -> [pointer_to(of) EXCEPT !.quals = Rng(s.words) \ {"restrict"}]
    [] of.kind # "error" /\ s.how = "array" -> ArrayDerived(s, of, names, len)
    [] of.kind # "error" /\ s.how = "function" -> FunctionDerived(s, of, ParamTypes(s.params, names, len))

\* What a name of this shape is; "error" if there is no such type.
Derived(shape, ty, names, len) ==
  IF shape = <<>> THEN ty ELSE DerivedBy(Head(shape), Derived(Tail(shape), ty, names, len), names, len)

\* Variably modified (6.7.6p3).
RECURSIVE Variable(_)
Variable(ty) ==
  \/ ty.kind = "vla"
  \/ ty.kind \in {"pointer", "array"} /\ Variable(ty.base)
  \/ ty.kind = "function" /\ Variable(ty.ret)

RECURSIVE StdSize(_)
StdSize(ty) == IF ty.kind \in {"array", "vla"} THEN StdSize(ty.base) * ty.len ELSE SizeOf(ty)

\* 6.2.7, 6.7.6.1p2, 6.7.6.2p6, 6.7.6.3p15
\* Where f has no prototype, g has no "..." and parameters that promotion leaves alone.
Unspecified(f, g) ==
  g.rest # "..." /\ \A i \in DOMAIN g.params : g.params[i].kind \notin {"bool", "char", "uchar", "short", "ushort", "float"}
Unqualified(ty) == [ty EXCEPT !.quals = {}]
RECURSIVE Compatible(_, _)
Compatible(s, t) ==
  /\ s.quals = t.quals
  /\ \/ /\ {s.kind, t.kind} \subseteq {"array", "vla"}
        /\ Compatible(s.base, t.base)
        /\ "vla" \in {s.kind, t.kind} \/ -1 \in {s.len, t.len} \/ s.len = t.len
     \/ /\ s.kind = t.kind
        /\ CASE s.kind = "pointer" -> Compatible(s.base, t.base)
             [] s.kind = "function" ->
                  /\ Compatible(s.ret, t.ret)
                  /\ IF s.rest = "old" THEN t.rest = "old" \/ Unspecified(s, t)
                     ELSE IF t.rest = "old" THEN Unspecified(t, s)
                     ELSE /\ s.rest = t.rest /\ Len(s.params) = Len(t.params)
                          /\ \A i \in DOMAIN s.params :
                               Compatible(Unqualified(s.params[i]), Unqualified(t.params[i]))
             [] s.kind \in {"array", "vla"} -> FALSE
             [] OTHER -> TRUE

(***************************************************************************)
(* A program, statement by statement.  A block declares functions without  *)
(* `static`, and objects of complete types.                                *)
(***************************************************************************)
Start == [broken |-> {}, n |-> 2, names |-> "n" :> [is |-> "variable", ty |-> Basic("int")],
          declared |-> <<>>, answers |-> <<>>]

\* The constraint on the declared name itself that is broken.
Misdeclared(ty, name, is, classes) ==
  CASE ty.kind = "error" -> ty.quals
    [] name = "" -> {"name"}
    [] is = "variable" /\ ty.kind = "void" -> {IF "extern" \in classes THEN "extern void" ELSE "void"}
    [] is = "variable" /\ Incomplete(ty) /\ "extern" \notin classes ->
         {IF "static" \in classes THEN "static incomplete" ELSE "incomplete"}
    [] (is # "function" /\ "inline" \in classes) \/ (is = "function" /\ "static" \in classes)
         \/ (is = "variable" /\ Variable(ty) /\ "extern" \in classes)
         \/ (is = "variable" /\ ty.kind = "vla" /\ "static" \in classes)
         \/ (is = "function" /\ Variable(ty)) -> {"class"}
    [] OTHER -> {}

DeclaredAs(m, name, classes, ty) ==
  LET is == IF "typedef" \in classes THEN "typedef" ELSE IF ty.kind = "function" THEN "function" ELSE "variable"
  IN  [m EXCEPT !.broken = Misdeclared(ty, name, is, classes),
                !.names = name :> [is |-> is, ty |-> ty] @@ @,
                !.declared = Append(@, [name |-> name, is |-> is, ty |-> ty])]
Declared(m, specs, item) ==
  DeclaredAs(m, item.name, {s[1] : s \in Rng(specs)} \intersect StorageWords,
             Derived(item.shape, BaseType(specs, m.names), m.names, m.n))
Told(m, a) == [m EXCEPT !.answers = Append(@, a)]

TypeNames(m, s) ==
  [i \in DOMAIN s.types |-> Derived(s.types[i].shape, BaseType(s.types[i].specs, m.names), m.names, m.n)]

Asked(m, s, types) ==
  LET broken == {i \in DOMAIN types : types[i].kind = "error"}
  IN  CASE broken # {} -> [m EXCEPT !.broken = types[CHOOSE i \in broken : \A j \in broken : i <= j].quals]
        [] broken = {} /\ s.do = "sizeof type" -> Told(m, StdSize(types[1]))
        [] broken = {} /\ s.do = "compatible" ->
             Told(m, IF Compatible(Unqualified(types[1]), Unqualified(types[2])) THEN 1 ELSE 0)

After(m, s) ==
  CASE m.broken # {} -> m
    [] m.broken = {} /\ s.do = "declare" ->
         FoldLeft(LAMBDA before, item : IF before.broken = {} THEN Declared(before, s.specs, item) ELSE before,
                  m, s.items)
    [] m.broken = {} /\ s.do = "assign" -> [m EXCEPT !.n = s.to]
    [] m.broken = {} /\ s.do = "sizeof" ->
         Told(m, StdSize(IF s.deref THEN m.names[s.of].ty.base ELSE m.names[s.of].ty))
    [] m.broken = {} /\ s.do \in {"sizeof type", "compatible"} -> Asked(m, s, TypeNames(m, s))
Meaning(p) == FoldLeft(After, Start, p)

-------------------------------------------------------------------------------
(***************************************************************************)
(* The code's type, and C's, as far as they can be compared: the code has  *)
(* no const, an array has an identity, and a length that is not constant   *)
(* its expression.                                                         *)
(***************************************************************************)
RECURSIVE Seen(_)
Seen(ty) ==
  LET q == ty.quals \intersect {"_Atomic"}
  IN  CASE ty.kind = "pointer" -> [kind |-> "pointer", base |-> Seen(ty.base), quals |-> q]
        [] ty.kind = "array" -> [kind |-> "array", base |-> Seen(ty.base), len |-> ty.len]
        [] ty.kind = "vla" -> [kind |-> "vla", base |-> Seen(ty.base)]
        [] ty.kind = "function" ->
             [kind |-> "function", ret |-> Seen(ty.ret), params |-> [i \in DOMAIN ty.params |-> Seen(ty.params[i])],
              variadic |-> IF "rest" \in DOMAIN ty THEN ty.rest \in {"...", "old"} ELSE ty.variadic]
        [] OTHER -> [kind |-> ty.kind, quals |-> q]
SeenAll(list) == [i \in DOMAIN list |-> [list[i] EXCEPT !.ty = Seen(@)]]

-------------------------------------------------------------------------------
(***************************************************************************)
(* Where the code departs.  First, constraints that it does not check.     *)
(***************************************************************************)
Unchecked ==
  {"storage", "no type", "sign twice", "atomic", "element", "negative rows", "returned", "parameter", "extern void",
   "static incomplete", "class"}

\* The declarators of a program with their names, at any depth.
RECURSIVE Inside(_)
Inside(p) == {p} \union UNION {UNION {Inside(q) : q \in Rng(s.params)} : s \in {t \in Rng(p.shape) : t.how = "function"}}
Outer == UNION {CASE s.do = "declare" -> {Param(s.specs, i.name, i.shape) : i \in Rng(s.items)}
                  [] s.do \in {"sizeof type", "compatible"} -> Rng(s.types)
                  [] OTHER -> {} : s \in Rng(prog)}
All == UNION {Inside(p) : p \in Outer}
Params == UNION {Inside(p) \ {p} : p \in Outer}

\* int f(int (int)), sizeof(int ()): a parenthesis without a name is taken for one around a name.
NamelessFunction == \E p \in All : p.name = "" /\ p.shape # <<>> /\ p.shape[1].how = "function"
\* int *_Atomic p, int f(int a[const 3])
QualifierRefused ==
  \E p \in All, s \in UNION {Rng(q.shape) : q \in All} :
    \/ s.how = "pointer" /\ "_Atomic" \in Rng(s.words)
    \/ s.how = "array" /\ "const" \in Rng(s.words)
\* A parameter is no known name in the types of the others; an array of variable length is not
\* adjusted.
VariableParameter ==
  \E p \in Params : \E s \in Rng(p.shape) : s.how = "array" /\ s.len \notin DOMAIN Numbers \union {""}
\* typedef void V; int f(V)
VoidByName == \E p \in Params : p.shape = <<>> /\ \E s \in Rng(p.specs) : s[1] \in Identifiers
\* F f; or int x, f(int): a variable.  int f(int), x is refused.
FunctionInList(m) ==
  \E s \in Rng(prog) : s.do = "declare" /\
    \E d \in Rng(m.declared) : d.is = "function" /\ \E i \in Rng(s.items) :
      i.name = d.name /\ (Len(s.items) > 1 \/ \A t \in Rng(i.shape) : t.how # "function")

\* static int (*p)[n]: no size is computed, and sizeof *p finds none.
StaticUnsized(m) ==
  \E s, q \in Rng(prog) :
    /\ s.do = "declare" /\ <<"static">> \in Rng(s.specs)
    /\ q.do = "sizeof" /\ q.deref /\ q.of \in {i.name : i \in Rng(s.items)}
    /\ Variable(m.names[q.of].ty)

DeclaredApart(m) ==
  StaticUnsized(m) \/ NamelessFunction \/ QualifierRefused \/ VariableParameter \/ VoidByName \/ FunctionInList(m)

\* The size of a type is computed again for each object of it, and forgotten of the others.
SizeRetaken ==
  \E i, j, k \in DOMAIN prog :
    /\ i < j /\ j < k
    /\ prog[i].do = "declare" /\ prog[j].do = "assign"
    /\ \E x \in {item.name : item \in Rng(prog[i].items)} :
         /\ Variable(Meaning(SubSeq(prog, 1, i)).names[x].ty)
         /\ \E specs \in IF prog[k].do = "declare" THEN {prog[k].specs}
                         ELSE IF prog[k].do = "sizeof type" THEN {prog[k].types[1].specs} ELSE {} :
              {<<x>>, <<"typeof", x>>} \intersect Rng(specs) # {}

\* is_compatible takes arrays for compatible only if both have no length, does not know
\* qualifiers, and takes (int) and () for different.
RECURSIVE Parts(_)
Parts(ty) ==
  {ty} \union (CASE ty.kind \in {"pointer", "array", "vla"} -> Parts(ty.base)
                 [] ty.kind = "function" -> Parts(ty.ret) \union UNION {Parts(t) : t \in Rng(ty.params)}
                 [] OTHER -> {})
Arrays(ty) == {t \in Parts(ty) : t.kind \in {"array", "vla"}}
OldStyle(ty) == {t \in Parts(ty) : t.kind = "function" /\ t.rest = "old"}
ComparedApart(m) ==
  \E q \in {s \in Rng(prog) : s.do = "compatible"} : \E t \in {TypeNames(m, q)} :
    \/ \E i \in 1 .. 2 : Arrays(t[i]) # {} \/ \E part \in Parts(t[i]) \ {t[i]} : part.quals # {}
    \/ (OldStyle(t[1]) = {}) # (OldStyle(t[2]) = {})
AnsweredApart(m) == SizeRetaken \/ ComparedApart(m)

AtEnd == stage = "stopped" \/ pc \notin DOMAIN prog
Agrees(m) ==
  IF m.broken # {} THEN stage = "stopped" \/ m.broken \subseteq Unchecked
  ELSE stage # "stopped" /\ SeenAll(declared) = SeenAll(m.declared)

(***************************************************************************)
(* From its tokens the code finds of every declaration, however pointers,  *)
(* arrays, functions and parentheses nest, the names, types and storage    *)
(* that C gives it; and what C forbids it refuses, or it is in Unchecked.  *)
(***************************************************************************)
DeclaresAsC == AtEnd => \A m \in {Meaning(prog)} : Agrees(m) \/ DeclaredApart(m)
(***************************************************************************)
(* sizeof of variables, of what they point at and of types is what C says, *)
(* also while the variable that a length depends on changes; and types are *)
(* compatible exactly if C says so.                                        *)
(***************************************************************************)
AnswersAsC ==
  stage # "stopped" /\ AtEnd => \A m \in {Meaning(prog)} : m.broken # {} \/ answers = m.answers \/ AnsweredApart(m)
===============================================================================
