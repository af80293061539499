---------------------------- MODULE StandardControl ----------------------------
(***************************************************************************)
(* What the statements of a function do, read from C11 6.8 on the tree of  *)
(* the function itself: control is at a node of it, given by its path, and *)
(* goes on to a node that its parent says.  No labels, no code, no stack.  *)
(* What is seen of a function is what it asks of the outside (ask, pick)   *)
(* and the variables it uses.                                              *)
(*                                                                         *)
(* Statement expressions, case ranges and goto *, which are GNU's, mean    *)
(* what they mean there.  The operands of an operator, which C does not    *)
(* order, are evaluated from right to left.                                *)
(***************************************************************************)
EXTENDS Integers, Sequences, FiniteSets, Functions

CONSTANTS
  IntBits,   \* bits of an int; a long has twice as many
  Values     \* for a type: what the outside may answer

VARIABLES
  prog,      \* the function: a tree
  pending,   \* what it does next
  answer     \* what the outside said when it was last asked

(***************************************************************************)
(* A node is [k, v, kids]: its kind, a name or value, and its children.    *)
(***************************************************************************)
RECURSIVE At(_, _)
At(s, p) == IF p = <<>> THEN s ELSE At(s.kids[Head(p)], Tail(p))
Node(p) == At(prog, p)
Parent(p) == SubSeq(p, 1, Len(p) - 1)
Ancestors(p) == {SubSeq(p, 1, n) : n \in 0 .. Len(p) - 1}
RECURSIVE PathsIn(_)
PathsIn(s) == {<<>>} \union UNION {{<<i>> \o p : p \in PathsIn(s.kids[i])} : i \in DOMAIN s.kids}
Paths == PathsIn(prog)
Of(kinds) == {p \in Paths : Node(p).k \in kinds}

\* The longest of some paths; <<0>> if there is none.
Nearest(ps) == IF ps = {} THEN <<0>> ELSE CHOOSE p \in ps : \A q \in ps : Len(q) <= Len(p)

\* Which child is the body.
Body(k) == CASE k = "do" -> 1 [] k = "for" -> 4 [] OTHER -> 2

\* The statement that a break, continue or case in the body of one belongs to.
Loops == {"while", "do", "for"}
Inside(p, kinds) ==
  Nearest({q \in Ancestors(p) :
             /\ Node(q).k \in kinds
             /\ p[Len(q) + 1] = Body(Node(q).k)})

-------------------------------------------------------------------------------
(***************************************************************************)
(* Names.  The scope of a declaration begins behind its declarator, so in  *)
(* its own initialiser but not in its own length, and ends with the block around it (6.2.1).  Departure  *)
(* EnumEscapes: an if, a switch or a loop is a block in C (6.8.4p3,        *)
(* 6.8.5p5), but only a for is one here; an enumeration in the condition   *)
(* of another is still known behind it.                                    *)
(***************************************************************************)
Scopes == {"block", "stmtexpr", "for"}
Declares(p, x) == Node(p).k \in {"decl", "enum"} /\ Node(p).v.name = x
Precedes(d, p) ==
  \/ Len(d) < Len(p) /\ SubSeq(p, 1, Len(d)) = d /\ Node(d).v.storage # "vla"
  \/ \E n \in 1 .. Len(d) :
       n <= Len(p) /\ SubSeq(d, 1, n - 1) = SubSeq(p, 1, n - 1) /\ d[n] < p[n]
ScopeOf(d) == Nearest({q \in Ancestors(d) : Node(q).k \in Scopes})
Visible(d, p) == Precedes(d, p) /\ ScopeOf(d) \in Ancestors(p)

\* The declaration that a name at p means: of the innermost scope, there the last.
Declaration(p) ==
  LET ds == {d \in Of({"decl", "enum"}) : Declares(d, Node(p).v) /\ Visible(d, p)}
      inner == {d \in ds : \A e \in ds : Len(ScopeOf(e)) <= Len(ScopeOf(d))}
  IN  IF ds = {} THEN <<0>> ELSE CHOOSE d \in inner : \A e \in inner : e = d \/ Precedes(e, d)

\* What a name means: an object that is this declaration's own, or the global one.
Entity(kind, at, name) == [kind |-> kind, at |-> at, name |-> name]
Global(x) == Entity("global", <<>>, x)
Meaning(p) ==
  LET d == Declaration(p)
  IN  CASE d = <<0>> -> Global(Node(p).v)
        [] d # <<0>> /\ Node(d).v.storage = "extern" -> Global(Node(p).v)
        [] OTHER -> Entity(Node(d).v.storage, d, Node(p).v)

-------------------------------------------------------------------------------
(***************************************************************************)
(* Integers of the types a condition has here: int, uint, long, ulong and  *)
(* bool, which a switch promotes to int.                                   *)
(***************************************************************************)
Bits(ty) == IF ty \in {"long", "ulong"} THEN 2 * IntBits ELSE IntBits
Convert(x, ty) ==
  LET low == x % 2 ^ Bits(ty)
  IN  IF ty \notin {"uint", "ulong"} /\ low >= 2 ^ (Bits(ty) - 1) THEN low - 2 ^ Bits(ty) ELSE low

\* The type of an expression that a condition may be.
RECURSIVE TypeOf(_)
TypeOf(s) ==
  CASE s.k = "ask" -> s.v
    [] s.k \in {"stmtexpr", "expr"} -> TypeOf(s.kids[Len(s.kids)])
    [] OTHER -> "int"

CasesOf(q) == {p \in Of({"case"}) : Inside(p, {"switch"}) = q}
DefaultsOf(q) == {p \in Of({"default"}) : Inside(p, {"switch"}) = q}

(***************************************************************************)
(* The values that a case selects in a switch of type ty.  Departure       *)
(* CaseIsInt: a constant that is no int is made one, and the range between *)
(* two is of ints.  Departure WideRange: a range of more than half of the  *)
(* ints, for a condition longer than they are, is negative, so that few    *)
(* values are outside of it.                                               *)
(***************************************************************************)
InC(v, ty) == Convert(v[1], ty) .. Convert(v[2], ty)
OfInts(v) == Convert(v[1], "int") .. Convert(v[2], "int")
CaseIsInt(v, ty) == \E x \in {v[1], v[2]} : Convert(x, "int") # Convert(x, ty)
WideRange(v, ty) == ty \in {"long", "ulong"} /\ Cardinality(OfInts(v)) > 2 ^ (IntBits - 1)
Outside(v) == {Convert(v[1], "int") - n : n \in 1 .. 2 ^ IntBits - Cardinality(OfInts(v))}

Chosen(v, ty) ==
  CASE WideRange(v, ty) -> Values[ty] \ {Convert(x, ty) : x \in Outside(v)}
    [] ~WideRange(v, ty) /\ CaseIsInt(v, ty) -> {Convert(x, ty) : x \in OfInts(v)}
    [] OTHER -> InC(v, ty)

\* The case that x selects, the default, or none.
Selected(q, x) ==
  LET ty == TypeOf(Node(q).kids[1])
      cases == {c \in CasesOf(q) : x \in Chosen(Node(c).v, ty)}
  IN  CASE cases # {} -> CHOOSE c \in cases : TRUE
        [] cases = {} /\ DefaultsOf(q) # {} -> CHOOSE d \in DefaultsOf(q) : TRUE
        [] OTHER -> <<0>>

LabelNamed(x) == CHOOSE p \in Of({"label"}) : Node(p).v = x

(***************************************************************************)
(* A function that a compiler must refuse.                                 *)
(***************************************************************************)
Refused ==
  \/ \E p \in Of({"break"}) : Inside(p, Loops \union {"switch"}) = <<0>>
  \/ \E p \in Of({"continue"}) : Inside(p, Loops) = <<0>>
  \/ \E p \in Of({"case", "default"}) : Inside(p, {"switch"}) = <<0>>
  \/ \E p \in Of({"case"}) :
       LET q == Inside(p, {"switch"})
       IN  q # <<0>> /\ Chosen(Node(p).v, TypeOf(Node(q).kids[1])) = {}
  \/ \E x \in {Node(p).v : p \in Of({"goto"})} \union UNION {Range(Node(p).v) : p \in Of({"pick"})} :
       ~\E l \in Of({"label"}) : Node(l).v = x
  \/ \E p \in Of({"for"}) :
       LET init == Node(p).kids[1] IN init.k = "decl" /\ init.v.storage \notin {"auto", "vla"}
  \/ \E p \in Of({"use"}) :
       \/ Meaning(p).kind = "typedef"
       \/ Meaning(p).kind = "global" /\ Declaration(p) = <<0>> /\ Node(p).v # "g"

-------------------------------------------------------------------------------
(***************************************************************************)
(* Where control goes.  It comes to a node, or the node is done, and had   *)
(* value v; a function may go round for ever without being seen.           *)
(***************************************************************************)
To(p) == [at |-> p, done |-> FALSE, v |-> 0]
Done(p, v) == [at |-> p, done |-> TRUE, v |-> v]
AtEnd == Done(<<>>, 0)

Visited(p) ==
  LET s == Node(p)
  IN  CASE s.k = "break" -> Done(Inside(p, Loops \union {"switch"}), 1)
        [] s.k = "continue" ->
             LET q == Inside(p, Loops) IN Done(Append(q, Body(Node(q).k)), 1)
        [] s.k = "goto" -> To(LabelNamed(s.v))
        [] s.k = "return" /\ s.kids = <<>> -> AtEnd
        [] s.k = "binary" -> To(Append(p, 2))
        [] OTHER -> IF s.kids = <<>> THEN Done(p, 1) ELSE To(Append(p, 1))

Left(p, v) ==
  LET q == Parent(p)
      s == Node(q)
      i == p[Len(p)]
      Part(n) == To(Append(q, n))
      Whole == Done(q, v)
      If(n) == IF v # 0 THEN Part(n) ELSE Whole
  IN  CASE s.k \in {"block", "stmtexpr"} -> IF i < Len(s.kids) THEN Part(i + 1) ELSE Whole
        [] s.k = "if" /\ i = 1 -> IF v = 0 /\ Len(s.kids) = 3 THEN Part(3) ELSE If(2)
        [] s.k = "while" -> IF i = 1 THEN If(2) ELSE Part(1)
        [] s.k = "do" -> IF i = 1 THEN Part(2) ELSE If(1)
        [] s.k = "for" -> IF i = 2 THEN If(4) ELSE Part(IF i = 4 THEN 3 ELSE 2)
        [] s.k = "switch" /\ i = 1 ->
             LET c == Selected(q, v) IN IF c = <<0>> THEN Whole ELSE To(c)
        [] s.k = "binary" /\ i = 2 -> Part(1)
        [] s.k = "jump" -> To(LabelNamed(Node(p).v[v]))
        [] s.k = "return" -> AtEnd
        [] OTHER -> Whole

-------------------------------------------------------------------------------
Simple(k) == [k |-> k, at |-> <<>>, what |-> Global("g")]
Event(p) ==
  [k |-> Node(p).k, at |-> p,
   what |-> IF Node(p).k = "use" THEN Meaning(p) ELSE Global("g")]

Asks(c) == ~c.done /\ Node(c.at).k \in {"use", "ask", "pick"}
Goes[c \in [at : Seq(Nat), done : BOOLEAN, v : Int], n \in Nat] ==
  CASE c.done /\ c.at = <<>> -> Simple("end")
    [] Asks(c) -> Event(c.at)
    [] OTHER -> IF n = 0 THEN Simple("silent")
                ELSE Goes[IF c.done THEN Left(c.at, c.v) ELSE Visited(c.at), n - 1]

Fuel == 3 * Cardinality(Paths) + 3
Answers(p) ==
  CASE Node(p).k = "use" -> {1}
    [] Node(p).k = "pick" -> DOMAIN Node(p).v
    [] OTHER -> Values[Node(p).v]

-------------------------------------------------------------------------------
(***************************************************************************)
(* The operators that wait for their first operand while control is at p,  *)
(* and the functions in which a jump leaves one of them waiting.           *)
(***************************************************************************)
Waiting(p) == {b \in Ancestors(p) : Node(b).k = "binary" /\ p[Len(b) + 1] = 1}
Targets(p) ==
  LET s == Node(p)
  IN  CASE s.k = "break" -> {Inside(p, Loops \union {"switch"})}
        [] s.k = "continue" -> {Inside(p, Loops)}
        [] s.k = "goto" -> {LabelNamed(s.v)}
        [] s.k = "jump" -> {LabelNamed(x) : x \in Range(s.kids[1].v)}
LeavesOperand ==
  \E p \in Of({"break", "continue", "goto", "jump"}) :
    \E q \in Targets(p) : Waiting(p) # Waiting(q)

-------------------------------------------------------------------------------
Init == pending = Simple("start") /\ answer = 0
Start ==
  /\ pending = Simple("start")
  /\ pending' = IF Refused THEN Simple("refused") ELSE Goes[To(<<>>), Fuel]
  /\ UNCHANGED answer
Step ==
  /\ pending.k \in {"use", "ask", "pick"}
  /\ answer' \in Answers(pending.at)
  /\ pending' = Goes[Done(pending.at, answer'), Fuel]
Next == (Start \/ Step) /\ UNCHANGED prog
Spec == Init /\ [][Next]_<<prog, pending, answer>>
================================================================================
