------------------------------ MODULE Declarators ------------------------------
(***************************************************************************)
(* Declarations in a block: declspec reads the specifiers, declarator what *)
(* follows a name and what precedes it, and the name enters the scope.     *)
(* compute_vla_size makes a variable for the size of a variable-length     *)
(* array; sizeof and __builtin_types_compatible_p ask about the types.     *)
(*                                                                         *)
(* A type has the qualifiers that the code keeps, which is _Atomic.  An    *)
(* array has an id, the place of its [ in the text, since the code knows   *)
(* arrays by their address.  The expression of a length is one token: a    *)
(* number or n, a variable to which the program assigns.  Statements do    *)
(* not jump, so that what a statement compiles to is run as it is parsed.  *)
(***************************************************************************)
EXTENDS Integers, FiniteSets, Sequences, TLC

CONSTANTS
  Programs,     \* sequences of statements
  Spelled(_),   \* the tokens of a statement
  Identifiers,  \* tokens of kind TK_IDENT
  Numbers       \* the value of each token that is a number

VARIABLES
  prog,      \* the program
  pc,        \* the statement
  toks,      \* its tokens
  stage,     \* how far it is parsed; "stopped" after an error
  start, at, \* the first token behind the specifiers; the next token
  base,      \* what declspec found
  scope,     \* what each name is, and its type
  vla_size,  \* for arrays of variable length, the value of the variable that holds the size
  n,         \* the variable that lengths depend on
  declared,  \* what was declared, in order
  answers    \* and what the program was told

vars == <<prog, pc, toks, stage, start, at, base, scope, vla_size, n, declared, answers>>

statement == prog[pc]
Tok(i) == IF i \in DOMAIN toks THEN toks[i] ELSE "end of file"

(***************************************************************************)
(* Types.                                                                  *)
(***************************************************************************)
Basic(kind) == [kind |-> kind, quals |-> {}]
pointer_to(b) == [kind |-> "pointer", base |-> b, quals |-> {}]
array_of(b, len, id) == [kind |-> "array", base |-> b, len |-> len, id |-> id, quals |-> {}]
vla_of(b, len, id) == [kind |-> "vla", base |-> b, len |-> len, id |-> id, quals |-> {}]
func_type(ret, params, variadic) ==
  [kind |-> "function", ret |-> ret, params |-> params, variadic |-> variadic, quals |-> {}]

\* What a parsing function returns: a type, the next token, a name or "".
Parsed(ty, i) == [ty |-> ty, at |-> i, name |-> "", storage |-> {}]
Failed == Parsed(Basic("error"), 0)
Fails(r) == r.ty.kind = "error"

RECURSIVE SizeOf(_)
SizeOf(ty) ==
  CASE ty.kind \in {"void", "bool", "char", "uchar", "function"} -> 1
    [] ty.kind \in {"short", "ushort"} -> 2
    [] ty.kind \in {"int", "uint", "float"} -> 4
    [] ty.kind \in {"long", "ulong", "double", "pointer", "vla"} -> 8
    [] ty.kind = "ldouble" -> 16
    [] ty.kind = "array" -> SizeOf(ty.base) * ty.len

(***************************************************************************)
(* Specifiers.  The counter has a field of two bits for each word.         *)
(***************************************************************************)
VOID == 1
BOOL == 4
CHAR == 16
SHORT == 64
INT == 256
LONG == 1024
FLOAT == 2 ^ 14
DOUBLE == 2 ^ 16
OTHER_TYPE == 2 ^ 18
SIGNED == 2 ^ 19
UNSIGNED == 2 ^ 20
Weight == [void |-> VOID, _Bool |-> BOOL, char |-> CHAR, short |-> SHORT, int |-> INT, long |-> LONG,
           float |-> FLOAT, double |-> DOUBLE, signed |-> SIGNED, unsigned |-> UNSIGNED]

BuiltIn(counter) ==
  CASE counter = VOID -> "void"
    [] counter = BOOL -> "bool"
    [] counter \in {CHAR, SIGNED + CHAR} -> "char"
    [] counter = UNSIGNED + CHAR -> "uchar"
    [] counter \in {SHORT, SHORT + INT, SIGNED + SHORT, SIGNED + SHORT + INT} -> "short"
    [] counter \in {UNSIGNED + SHORT, UNSIGNED + SHORT + INT} -> "ushort"
    [] counter \in {INT, SIGNED, SIGNED + INT} -> "int"
    [] counter \in {UNSIGNED, UNSIGNED + INT} -> "uint"
    [] counter \in {s + l + i : s \in {0, SIGNED}, l \in {LONG, LONG + LONG}, i \in {0, INT}} -> "long"
    [] counter \in {UNSIGNED + l + i : l \in {LONG, LONG + LONG}, i \in {0, INT}} -> "ulong"
    [] counter = FLOAT -> "float"
    [] counter = DOUBLE -> "double"
    [] counter = LONG + DOUBLE -> "ldouble"
    [] OTHER -> "error"

\* counter += the word's weight, but counter |= for signed and unsigned.
Counted(counter, word) ==
  IF word \in {"signed", "unsigned"} /\ (counter \div Weight[word]) % 2 = 1
    THEN counter ELSE counter + Weight[word]

StorageWords == {"typedef", "static", "extern", "inline"}
IgnoredWords == {"const", "volatile", "auto", "register", "restrict", "_Noreturn"}
Keywords == StorageWords \union IgnoredWords \union DOMAIN Weight \union {"_Atomic", "typeof"}

find_typedef(tok) == tok \in DOMAIN scope /\ scope[tok].is = "typedef"
is_typename(tok) == tok \in Keywords \/ find_typedef(tok)

UserDefined(tok) == tok = "typeof" \/ find_typedef(tok)

\* What follows on r, if r did not fail.
Then(r, F(_)) == IF Fails(r) THEN Failed ELSE F(r)
skip(r, tok) == Then(r, LAMBDA x : IF Tok(x.at) = tok THEN [x EXCEPT !.at = @ + 1] ELSE Failed)

RECURSIVE Specifiers(_, _, _), declarator(_, _, _), type_suffix(_, _), Parameters(_, _, _), typename(_)

\* `attr` says whether the caller takes storage classes.
declspec(i, attr) == Specifiers(i, [ty |-> Basic("int"), counter |-> 0, atomic |-> FALSE, storage |-> {}], attr)

IsVariable(tok) == tok \in DOMAIN scope /\ scope[tok].is # "typedef"

\* What is in the parentheses behind typeof: a type, or a variable, of its type.
TypeOrVariable(i) ==
  IF IsVariable(Tok(i)) THEN Parsed(scope[Tok(i)].ty, i + 1) ELSE typename(i)

\* One specifier, of which r has the type and the end, or Failed.
Specifier(i, s, attr) ==
  LET tok == Tok(i)
      all == s.storage \union {tok}
  IN  CASE tok \in StorageWords ->
             IF ~attr \/ ("typedef" \in all /\ Cardinality(all \ {"typedef"}) > 1)
               THEN Failed ELSE [Parsed(s.ty, i + 1) EXCEPT !.storage = {tok}]
        [] tok = "typeof" -> IF Tok(i + 1) = "(" THEN skip(TypeOrVariable(i + 2), ")") ELSE Failed
        [] tok = "_Atomic" /\ Tok(i + 1) = "(" -> skip(typename(i + 2), ")")
        [] tok \in IgnoredWords \/ (tok = "_Atomic" /\ Tok(i + 1) # "(") -> Parsed(s.ty, i + 1)
        [] find_typedef(tok) -> Parsed(scope[tok].ty, i + 1)
        [] OTHER -> Parsed(Basic(BuiltIn(Counted(s.counter, tok))), i + 1)

CounterBehind(counter, tok) ==
  CASE tok \in DOMAIN Weight -> Counted(counter, tok)
    [] UserDefined(tok) -> OTHER_TYPE
    [] OTHER -> counter

Specifiers(i, s, attr) ==
  IF ~is_typename(Tok(i)) \/ (UserDefined(Tok(i)) /\ s.counter # 0)
    THEN [Parsed(IF s.atomic THEN [s.ty EXCEPT !.quals = {"_Atomic"}] ELSE s.ty, i) EXCEPT !.storage = s.storage]
    ELSE Then(Specifier(i, s, attr), LAMBDA r :
           Specifiers(r.at, [ty |-> r.ty, counter |-> CounterBehind(s.counter, Tok(i)),
                             atomic |-> s.atomic \/ Tok(i) = "_Atomic", storage |-> s.storage \union r.storage], attr))

(***************************************************************************)
(* Declarators.                                                            *)
(***************************************************************************)
RECURSIVE Behind(_, _)
Behind(i, words) == IF Tok(i) \in words THEN Behind(i + 1, words) ELSE i

RECURSIVE pointers(_, _)
pointers(i, ty) ==
  IF Tok(i) # "*" THEN Parsed(ty, i)
  ELSE pointers(Behind(i + 1, {"const", "volatile", "restrict"}), pointer_to(ty))

\* The adjustment of parameters.
\* Mutant: functions are forgotten.
ArrayAsParameter(ty) == IF ty.kind = "array" THEN pointer_to(ty.base) ELSE ty
AsParameter(ty) ==
  CASE ty.kind = "array" -> pointer_to(ty.base)
    [] ty.kind = "function" -> pointer_to(ty)
    [] OTHER -> ty

\* The loop over parameters: from token i, with those before it.
Parameters(i, params, ret) ==
  LET first == params = <<>>
      here == IF first THEN i ELSE i + 1
      Specified(r) == declarator(r.at, r.ty, TRUE)
  IN  CASE Tok(i) = ")" -> Parsed(func_type(ret, params, first), i + 1)
        [] ~first /\ Tok(i) \notin {")", ","} -> Failed
        [] Tok(i) # ")" /\ Tok(here) = "..." -> skip(Parsed(func_type(ret, params, TRUE), here + 1), ")")
        [] OTHER -> Then(Then(declspec(here, FALSE), Specified), LAMBDA r :
                      Parameters(r.at, Append(params, AsParameter(r.ty)), ret))

func_params(i, ret) ==
  IF Tok(i) = "void" /\ Tok(i + 1) = ")"
    THEN Parsed(func_type(ret, <<>>, FALSE), i + 2) ELSE Parameters(i, <<>>, ret)

Length(tok) == IF tok \in DOMAIN Numbers THEN Numbers[tok] ELSE n

\* The array of those elements; tok is its length, or ].
ArrayOfElements(r, tok, id) ==
  CASE tok = "]" -> [r EXCEPT !.ty = array_of(@, -1, id)]
    [] tok # "]" /\ (r.ty.kind = "vla" \/ tok \notin DOMAIN Numbers) -> [r EXCEPT !.ty = vla_of(@, tok, id)]
    [] OTHER -> IF Numbers[tok] < 0 THEN Failed ELSE [r EXCEPT !.ty = array_of(@, Numbers[tok], id)]

array_dimensions(i, ty) ==
  LET here == Behind(i, {"static", "restrict"})
      end == IF Tok(here) = "]" THEN here ELSE here + 1
  IN  IF (Tok(here) \in {"]"} \union DOMAIN Numbers \/ IsVariable(Tok(here))) /\ Tok(end) = "]"
        THEN Then(type_suffix(end + 1, ty), LAMBDA r : ArrayOfElements(r, Tok(here), <<pc, i>>))
        ELSE Failed

type_suffix(i, ty) ==
  CASE Tok(i) = "(" -> func_params(i + 1, ty)
    [] Tok(i) = "[" -> array_dimensions(i + 1, ty)
    [] OTHER -> Parsed(ty, i)

\* A declarator in parentheses is parsed twice: first with a dummy, to find what is behind it.
\* `named` is FALSE for abstract_declarator.
Parenthesised(p, named) ==
  LET Outer(dummy) == type_suffix(dummy.at, p.ty)
      Again(outer) == Then(declarator(p.at + 1, outer.ty, named), LAMBDA r : [r EXCEPT !.at = outer.at])
  IN  Then(Then(skip(declarator(p.at + 1, Basic("void"), named), ")"), Outer), Again)

declarator(i, ty, named) ==
  Then(pointers(i, ty), LAMBDA p :
    CASE Tok(p.at) = "(" -> Parenthesised(p, named)
      [] named /\ Tok(p.at) \in Identifiers -> [type_suffix(p.at + 1, p.ty) EXCEPT !.name = Tok(p.at)]
      [] OTHER -> type_suffix(p.at, p.ty))

typename(i) == Then(declspec(i, FALSE), LAMBDA r : declarator(r.at, r.ty, FALSE))

is_function(i) ==
  Tok(i) # ";" /\ declarator(i, Basic("void"), TRUE).ty.kind = "function"

(***************************************************************************)
(* Sizes of arrays of variable length, from the innermost out: a variable  *)
(* is made for each, and replaces the one the type had.                    *)
(***************************************************************************)
\* Mutant: the elements are taken for objects of known size.
RECURSIVE compute_outer_size(_, _)
compute_outer_size(ty, sizes) ==
  IF ty.kind \notin {"pointer", "array", "vla"} THEN sizes
  ELSE LET below == compute_outer_size(ty.base, sizes)
       IN  IF ty.kind = "vla" THEN (ty.id :> Length(ty.len) * SizeOf(ty.base)) @@ below ELSE below

RECURSIVE compute_vla_size(_, _)
compute_vla_size(ty, sizes) ==
  IF ty.kind \notin {"pointer", "array", "vla"} THEN sizes
  ELSE LET below == compute_vla_size(ty.base, sizes)
           element == IF ty.base.kind = "vla" THEN below[ty.base.id] ELSE SizeOf(ty.base)
       IN  IF ty.kind = "vla" THEN (ty.id :> Length(ty.len) * element) @@ below ELSE below

\* An array is compatible with itself, or if both have no length.
RECURSIVE is_compatible(_, _)
is_compatible(s, t) ==
  /\ s.kind = t.kind
  /\ CASE s.kind = "pointer" -> is_compatible(s.base, t.base)
       [] s.kind = "function" ->
            /\ is_compatible(s.ret, t.ret)
            /\ s.variadic = t.variadic
            /\ Len(s.params) = Len(t.params)
            /\ \A i \in DOMAIN s.params : is_compatible(s.params[i], t.params[i])
       [] s.kind = "array" ->
            s.id = t.id \/ (is_compatible(s.base, t.base) /\ s.len < 0 /\ t.len < 0 /\ s.len = t.len)
       [] s.kind = "vla" -> s.id = t.id
       [] OTHER -> TRUE

-------------------------------------------------------------------------------
Init ==
  /\ prog \in Programs
  /\ pc = 1 /\ toks = Spelled(prog[1]) /\ stage = "begin" /\ start = 0 /\ at = 0
  /\ base = Failed
  /\ scope = "n" :> [is |-> "variable", ty |-> Basic("int")]
  /\ vla_size = <<>>
  /\ n = 2
  /\ declared = <<>> /\ answers = <<>>

Doing(s) == stage = s /\ pc \in DOMAIN prog
Stop == stage' = "stopped" /\ UNCHANGED <<prog, pc, toks, start, at, base, scope, vla_size, n, declared, answers>>
NextStatement ==
  /\ pc' = pc + 1 /\ stage' = "begin"
  /\ toks' = IF pc' \in DOMAIN prog THEN Spelled(prog[pc']) ELSE <<>>

\* compound_stmt reads the specifiers and decides who reads the declarators.
DeclSpec ==
  /\ Doing("begin") /\ statement.do = "declare"
  /\ LET specs == declspec(1, TRUE)
     IN  IF Fails(specs) THEN Stop
         ELSE /\ base' = specs /\ start' = specs.at /\ at' = specs.at
              /\ stage' = CASE "typedef" \in specs.storage -> "parse_typedef"
                            [] "typedef" \notin specs.storage /\ is_function(specs.at) -> "function"
                            [] "extern" \in specs.storage /\ ~is_function(specs.at) -> "global_variable"
                            [] OTHER -> "declaration"
              /\ UNCHANGED <<prog, pc, toks, scope, vla_size, n, declared, answers>>

Declare(name, is, ty) ==
  /\ scope' = name :> [is |-> is, ty |-> ty] @@ scope
  /\ declared' = Append(declared, [name |-> name, is |-> is, ty |-> ty])

\* The next declarator of a list.
NextDeclarator ==
  LET i == IF at = start THEN at ELSE at + 1
      r == declarator(i, base.ty, TRUE)
  IN  IF (at # start /\ Tok(at) # ",") \/ r.name = "" THEN Failed ELSE r

parse_typedef ==
  /\ Doing("parse_typedef") /\ Tok(at) # ";"
  /\ LET d == NextDeclarator
     IN  IF Fails(d) THEN Stop
         ELSE Declare(d.name, "typedef", d.ty) /\ at' = d.at
              /\ UNCHANGED <<prog, pc, toks, stage, start, base, vla_size, n, answers>>

global_variable ==
  /\ Doing("global_variable") /\ Tok(at) # ";"
  /\ LET d == NextDeclarator
     IN  IF Fails(d) THEN Stop
         ELSE Declare(d.name, "variable", d.ty) /\ at' = d.at
              /\ UNCHANGED <<prog, pc, toks, stage, start, base, vla_size, n, answers>>

\* What follows is a body, which no program here has.
function ==
  /\ Doing("function")
  /\ LET d == NextDeclarator
     IN  IF Fails(d) \/ Tok(d.at) # ";" THEN Stop
         ELSE Declare(d.name, "function", d.ty) /\ at' = d.at /\ NextStatement
              /\ UNCHANGED <<prog, start, base, vla_size, n, answers>>

declaration ==
  /\ Doing("declaration") /\ Tok(at) # ";"
  /\ LET d == NextDeclarator
         static == "static" \in base.storage
     IN  IF Fails(d) \/ d.ty.kind = "void" \/ (~static /\ SizeOf(d.ty) < 0) THEN Stop
         ELSE /\ Declare(d.name, "variable", d.ty) /\ at' = d.at
              /\ vla_size' = IF static THEN vla_size ELSE compute_vla_size(d.ty, vla_size)
              /\ UNCHANGED <<prog, pc, toks, stage, start, base, n, answers>>

EndOfList ==
  /\ stage \in {"parse_typedef", "global_variable", "declaration"} /\ Tok(at) = ";"
  /\ NextStatement
  /\ UNCHANGED <<prog, start, at, base, scope, vla_size, n, declared, answers>>

Assign ==
  /\ Doing("begin") /\ statement.do = "assign"
  /\ n' = statement.to
  /\ NextStatement
  /\ UNCHANGED <<prog, start, at, base, scope, vla_size, declared, answers>>

Answer(sizes, a) ==
  /\ vla_size' = sizes /\ answers' = Append(answers, a)
  /\ NextStatement
  /\ UNCHANGED <<prog, start, at, base, scope, n, declared>>

\* sizeof of a variable, or of what it points at.
SizeOfExpression ==
  /\ Doing("begin") /\ statement.do = "sizeof"
  /\ LET ty == scope[statement.of].ty
         asked == IF statement.deref THEN ty.base ELSE ty
     IN  IF asked.kind # "vla" THEN Answer(vla_size, SizeOf(asked))
         ELSE IF asked.id \in DOMAIN vla_size THEN Answer(vla_size, vla_size[asked.id])
         ELSE Stop

SizeOfType ==
  /\ Doing("begin") /\ statement.do = "sizeof type"
  /\ LET r == skip(typename(1), ")")
         sizes == IF r.ty.kind # "vla" \/ r.ty.id \in DOMAIN vla_size
                    THEN vla_size ELSE compute_vla_size(r.ty, vla_size)
     IN  IF Fails(r) THEN Stop
         ELSE Answer(sizes, IF r.ty.kind = "vla" THEN sizes[r.ty.id] ELSE SizeOf(r.ty))

TypesCompatible ==
  /\ Doing("begin") /\ statement.do = "compatible"
  /\ LET left == skip(typename(1), ",")
         right == skip(typename(left.at), ")")
     IN  IF Fails(left) \/ Fails(right) THEN Stop
         ELSE Answer(vla_size, IF is_compatible(left.ty, right.ty) THEN 1 ELSE 0)

Done == (stage = "stopped" \/ pc \notin DOMAIN prog) /\ UNCHANGED vars

Next ==
  \/ DeclSpec \/ parse_typedef \/ global_variable \/ function \/ declaration \/ EndOfList
  \/ Assign \/ SizeOfExpression \/ SizeOfType \/ TypesCompatible \/ Done
Spec == Init /\ [][Next]_vars
===============================================================================
