-------------------------------- MODULE Control --------------------------------
(***************************************************************************)
(* Statements: stmt and compound_stmt go through the text of a function,   *)
(* find what names and break, continue, case and goto refer to, and build  *)
(* a tree; gen_stmt makes code of the tree, with labels and jumps; the     *)
(* code is run an instruction at a time.                                   *)
(*                                                                         *)
(* The text is a tree already (see StandardControl for its shape): what a  *)
(* statement is, its first token tells.  The value of a condition comes    *)
(* from outside, the values of other expressions are left out.             *)
(***************************************************************************)
EXTENDS Integers, Sequences, FiniteSets, SequencesExt, TLC

CONSTANTS
  IntBits,     \* bits of an int; a register has twice as many
  Values,      \* for a type: the values a condition may have
  StackLimit,  \* the words of the stack a function can have
  Families     \* sets of functions

ASSUME ControlAssumption == IntBits \in 2 .. 15 /\ StackLimit \in Nat \ {0}

VARIABLES
  prog,    \* the function
  pc,      \* "source", "parsed", "refused", "run", "returned", "overflow"
  body,    \* its tree, and what the parser listed: cases, labels
  code,    \* its instructions
  ip,      \* the next of them
  rax,
  answer,  \* what the outside last answered; nothing in the code reads it
  stack    \* below the frame: what was pushed and what alloca has given, the top first

vars == <<prog, pc, body, code, ip, rax, answer, stack>>

-------------------------------------------------------------------------------
(***************************************************************************)
(* The state of the parser.  codegen_pclabel gives a number nothing else   *)
(* has: here the place of the statement and what the label is for.         *)
(***************************************************************************)
None == <<>>
Label(at, role) == <<at, role>>
Entity(kind, at, name) == [kind |-> kind, at |-> at, name |-> name]
Global(x) == Entity("global", <<>>, x)

Start ==
  [switch |-> None, brk |-> None, cont |-> None, scope |-> <<"g" :> Global("g")>>,
   cases |-> <<>>, labels |-> <<>>, gotos |-> {}, error |-> FALSE]

enter_scope(st) == [st EXCEPT !.scope = <<<<>>>> \o @]
leave_scope(st) == [st EXCEPT !.scope = Tail(@)]
push_scope(st, x, entity) == [st EXCEPT !.scope[1] = (x :> entity) @@ @]

find_var(st, x) ==
  LET i == SelectInSeq(st.scope, LAMBDA sc : x \in DOMAIN sc)
  IN  IF i = 0 THEN Entity("none", <<>>, x) ELSE st.scope[i][x]

error_tok(st, b) == [st EXCEPT !.error = @ \/ b]

\* A constant expression as the int it is stored in.
IntOf(x) == LET low == x % 2 ^ IntBits IN IF low >= 2 ^ (IntBits - 1) THEN low - 2 ^ IntBits ELSE low

Loop(st, at) == [st EXCEPT !.brk = Label(at, "brk"), !.cont = Label(at, "cont")]

Declared(s, at) ==
  IF s.v.storage = "extern" THEN Global(s.v.name) ELSE Entity(s.v.storage, at, s.v.name)

\* What the parser does when it comes to s, and when it comes to the second child.
Opening(s, at, st) ==
  CASE s.k \in {"block", "stmtexpr"} -> enter_scope(st)
    [] s.k = "for" ->
         LET init == s.kids[1]
         IN  error_tok(Loop(enter_scope(st), at),
                       init.k = "decl" /\ init.v.storage \in {"static", "extern", "typedef"})
    [] s.k = "do" -> Loop(st, at)
    [] s.k = "decl" /\ s.v.storage # "vla" -> push_scope(st, s.v.name, Declared(s, at))
    [] OTHER -> st
Second(s, at, outer, st) ==
  CASE s.k = "while" -> Loop(st, at)
    [] s.k = "switch" -> [st EXCEPT !.switch = at, !.brk = Label(at, "brk")]
    [] s.k = "do" -> [st EXCEPT !.brk = outer.brk, !.cont = outer.cont]
    [] OTHER -> st

Restore(outer, st) == [st EXCEPT !.switch = outer.switch, !.brk = outer.brk, !.cont = outer.cont]

\* And behind it: cases and labels are put in front of those before.
Closing(s, at, outer, st) ==
  CASE s.k \in {"block", "stmtexpr"} -> leave_scope(st)
    [] s.k = "for" -> leave_scope(Restore(outer, st))
    [] s.k \in {"while", "switch"} -> Restore(outer, st)
    [] s.k = "decl" /\ s.v.storage = "vla" -> push_scope(st, s.v.name, Declared(s, at))
    [] s.k = "enum" -> push_scope(st, s.v.name, Entity("enum", at, s.v.name))
    [] s.k = "use" -> error_tok(st, find_var(st, s.v).kind \in {"none", "typedef"})
    [] s.k \in {"case", "default"} ->
         LET c == [switch |-> st.switch, k |-> s.k, at |-> at,
                   begin |-> IF s.k = "case" THEN IntOf(s.v[1]) ELSE 0,
                   end |-> IF s.k = "case" THEN IntOf(s.v[2]) ELSE 0]
         IN  error_tok([st EXCEPT !.cases = <<c>> \o @], st.switch = None \/ c.end < c.begin)
    [] s.k = "label" -> [st EXCEPT !.labels = <<[name |-> s.v, at |-> at]>> \o @]
    [] s.k = "goto" -> [st EXCEPT !.gotos = @ \union {s.v}]
    [] s.k = "pick" -> [st EXCEPT !.gotos = @ \union Range(s.v)]
    [] s.k = "break" -> error_tok(st, st.brk = None)
    [] s.k = "continue" -> error_tok(st, st.cont = None)
    [] OTHER -> st

\* What the node of the tree refers to.
Reference(s, st) ==
  CASE s.k = "use" -> find_var(st, s.v)
    [] s.k = "break" -> st.brk
    [] s.k = "continue" -> st.cont
    [] OTHER -> None

RECURSIVE stmt(_, _, _)
stmt(s, at, st) ==
  LET Child[i \in 0 .. Len(s.kids)] ==
        IF i = 0 THEN [kids |-> <<>>, st |-> Opening(s, at, st)]
        ELSE LET before == Child[i - 1]
                 child == stmt(s.kids[i], Append(at, i),
                               IF i = 2 THEN Second(s, at, st, before.st) ELSE before.st)
             IN  [kids |-> Append(before.kids, child.node), st |-> child.st]
      all == Child[Len(s.kids)]
  IN  [node |-> [k |-> s.k, v |-> s.v, kids |-> all.kids, at |-> at, to |-> Reference(s, all.st)],
       st |-> Closing(s, at, st, all.st)]

\* Of labels with one name the last; 0 if there is none.
resolve_goto_labels(labels, x) == SelectInSeq(labels, LAMBDA l : l.name = x)

-------------------------------------------------------------------------------
(***************************************************************************)
(* gen_stmt.  A label is an instruction that does nothing.                 *)
(***************************************************************************)
Instr(op, at, v) == <<[op |-> op, at |-> at, v |-> v]>>
Mark(label) == Instr("label", label, 0)
Jump(op, label) == Instr(op, label, 0)

RECURSIVE TypeOf(_)
TypeOf(n) ==
  CASE n.k = "ask" -> n.v
    [] n.k \in {"stmtexpr", "expr"} -> TypeOf(n.kids[Len(n.kids)])
    [] OTHER -> "int"
is_long(ty) == ty \in {"long", "ulong"}

\* The comparisons of a switch, the last case first.
Comparisons(n, fn) ==
  LET mine(k) == SelectSeq(fn.cases, LAMBDA c : c.switch = n.at /\ c.k = k)
      Compare(c) == Instr(IF is_long(TypeOf(n.kids[1])) THEN "caselong" ELSE "caseint",
                          Label(c.at, "case"), <<c.begin, c.end>>)
      cases == mine("case")
      default == mine("default")
  IN  FlattenSeq([i \in DOMAIN cases |-> Compare(cases[i])])
      \o (IF default = <<>> THEN <<>> ELSE Jump("jmp", Label(default[1].at, "case")))
      \o Jump("jmp", Label(n.at, "brk"))

RECURSIVE gen_stmt(_, _)
gen_stmt(n, fn) ==
  LET K(i) == gen_stmt(n.kids[i], fn)
      L(role) == Label(n.at, role)
      all == FlattenSeq([i \in DOMAIN n.kids |-> K(i)])
      Test(op, i, role) ==
        IF n.kids[i].k = "nil" THEN <<>>
        ELSE Instr(IF is_long(TypeOf(n.kids[i])) THEN "cmprax" ELSE "cmpeax", None, 0) \o Jump(op, L(role))
      Place(x) == Label(fn.labels[resolve_goto_labels(fn.labels, x)].at, "label")
  IN  CASE n.k \in {"use", "ask"} -> Instr(n.k, n.at, IF n.k = "use" THEN n.to ELSE n.v)
        [] n.k = "pick" -> Instr("pick", n.at, [i \in DOMAIN n.v |-> Place(n.v[i])])
        [] n.k = "binary" -> K(2) \o Instr("push", n.at, 0) \o K(1) \o Instr("pop", n.at, 0)
        [] n.k = "decl" /\ n.v.storage = "vla" -> all \o Instr("alloca", n.at, 0)
        [] n.k = "if" ->
             K(1) \o Test("je", 1, "else") \o K(2) \o Jump("jmp", L("end")) \o Mark(L("else"))
             \o (IF Len(n.kids) = 3 THEN K(3) ELSE <<>>) \o Mark(L("end"))
        [] n.k = "while" ->
             Mark(L("begin")) \o K(1) \o Test("je", 1, "brk") \o K(2) \o Mark(L("cont"))
             \o Jump("jmp", L("begin")) \o Mark(L("brk"))
        [] n.k = "for" ->
             K(1) \o Mark(L("begin")) \o K(2) \o Test("je", 2, "brk") \o K(4) \o Mark(L("cont"))
             \o K(3) \o Jump("jmp", L("begin")) \o Mark(L("brk"))
        [] n.k = "do" ->
             Mark(L("begin")) \o K(1) \o Mark(L("cont")) \o K(2) \o Test("jne", 2, "begin") \o Mark(L("brk"))
        [] n.k = "switch" -> K(1) \o Comparisons(n, fn) \o K(2) \o Mark(L("brk"))
        [] n.k \in {"case", "default"} -> Mark(L("case")) \o all
        [] n.k = "label" -> Mark(L("label")) \o all
        [] n.k \in {"break", "continue"} -> Jump("jmp", n.to)
        [] n.k = "goto" -> Jump("jmp", Place(n.v))
        [] n.k = "jump" -> all \o Instr("jmprax", None, [i \in DOMAIN n.kids[1].v |-> Place(n.kids[1].v[i])])
        [] n.k = "return" -> all \o Jump("jmp", Label(None, "return"))
        [] OTHER -> all

-------------------------------------------------------------------------------
Init ==
  /\ \E programs \in Families : prog \in programs
  /\ pc = "source" /\ body = <<>> /\ code = <<>> /\ ip = 1 /\ rax = 0 /\ stack = <<>>
  /\ answer = 0

machine == <<ip, rax, answer, stack>>

\* function(): the body, and then the gotos.
Parse ==
  /\ pc = "source"
  /\ LET parsed == stmt(prog, None, Start)
         st == parsed.st
         fn == [node |-> parsed.node, cases |-> st.cases, labels |-> st.labels]
         unknown == \E x \in st.gotos : resolve_goto_labels(st.labels, x) = 0
     IN  IF st.error \/ unknown
         THEN pc' = "refused" /\ UNCHANGED body
         ELSE pc' = "parsed" /\ body' = fn
  /\ UNCHANGED <<prog, code, machine>>

\* emit_text
Generate ==
  /\ pc = "parsed"
  /\ code' = gen_stmt(body.node, body) \o Mark(Label(None, "return"))
  /\ pc' = "run"
  /\ UNCHANGED <<prog, body, machine>>

(***************************************************************************)
(* The instructions.                                                       *)
(***************************************************************************)
RegBits == 2 * IntBits
Low(x, width) == x % 2 ^ width
Signed(x, width) == IF Low(x, width) >= 2 ^ (width - 1) THEN Low(x, width) - 2 ^ width ELSE Low(x, width)

Events == {"use", "ask", "pick"}
Runs(ops) == pc = "run" /\ ip \in DOMAIN code /\ code[ip].op \in ops /\ UNCHANGED <<prog, pc, body, code>>
NextInstr == ip' = ip + 1

PlaceOf(label) == CHOOSE i \in DOMAIN code : code[i].op = "label" /\ code[i].at = label

\* The code of a call; what an int's register has in the upper half, nobody knows.
Ask ==
  /\ Runs({"ask"})
  /\ answer' \in Values[code[ip].v]
  /\ IF is_long(code[ip].v) THEN rax' = Low(answer', RegBits)
     ELSE \E upper \in {0, 2 ^ IntBits - 1} : rax' = upper * 2 ^ IntBits + Low(answer', IntBits)
  /\ NextInstr /\ UNCHANGED stack

Use ==
  /\ Runs({"use"})
  /\ answer' = 1
  /\ NextInstr /\ UNCHANGED <<rax, stack>>

\* The address of one of some labels, here by its number.
Pick ==
  /\ Runs({"pick"})
  /\ rax' \in DOMAIN code[ip].v /\ answer' = rax'
  /\ NextInstr /\ UNCHANGED stack

\* Mutant: the difference to the first of a range is compared with its sign.
MatchesSigned(i, x) ==
  LET c == code[i]
      width == IF c.op = "caselong" THEN RegBits ELSE IntBits
  IN  Signed(x - c.v[1], width) <= Signed(c.v[2] - c.v[1], IntBits)
Matches(i, x) ==
  LET c == code[i]
      width == IF c.op = "caselong" THEN RegBits ELSE IntBits
      Reg(v) == Low(v, width)
      span == Signed(c.v[2] - c.v[1], IntBits)
  IN  IF c.v[1] = c.v[2] THEN Reg(x) = Reg(c.v[1]) ELSE Reg(x - c.v[1]) <= Reg(span)

\* Where instruction i goes on with x in rax, if that is no event: the comparison of
\* a condition goes with the jump behind it.
Follow(i, x) ==
  LET c == code[i]
      Zero(width) == Low(x, width) = 0
      If(b) == IF b THEN PlaceOf(code[i + 1].at) ELSE i + 2
  IN  CASE c.op = "jmp" -> PlaceOf(c.at)
        [] c.op = "jmprax" -> PlaceOf(c.v[x])
        [] c.op \in {"cmpeax", "cmprax"} ->
             LET width == IF c.op = "cmprax" THEN RegBits ELSE IntBits
             IN  If(Zero(width) = (code[i + 1].op = "je"))
        [] c.op \in {"caseint", "caselong"} -> IF Matches(i, x) THEN PlaceOf(c.at) ELSE i + 1
        [] OTHER -> i + 1

Branch ==
  /\ Runs({"label", "jmp", "jmprax", "cmpeax", "cmprax", "caseint", "caselong"})
  /\ ip' = Follow(ip, rax)
  /\ UNCHANGED <<rax, answer, stack>>

\* A word of the stack: a temporary of the expression at, or storage that alloca gave.
Word(kind, at) == [kind |-> kind, at |-> at]

Push ==
  /\ Runs({"push"}) /\ Len(stack) < StackLimit
  /\ stack' = <<Word("temporary", code[ip].at)>> \o stack
  /\ NextInstr /\ UNCHANGED <<rax, answer>>

Pop ==
  /\ Runs({"pop"})
  /\ stack' = Tail(stack)
  /\ NextInstr /\ UNCHANGED <<rax, answer>>

\* Mutant: the temporaries stay where they are.
AllocatedBelow(words, at) == <<Word("storage", at)>> \o words
\* The temporaries are moved down, the storage comes above them.
Allocated(words, at) ==
  LET n == SelectInSeq(words, LAMBDA w : w.kind = "storage")
      temporaries == IF n = 0 THEN Len(words) ELSE n - 1
  IN  InsertAt(words, temporaries + 1, Word("storage", at))

builtin_alloca ==
  /\ Runs({"alloca"}) /\ Len(stack) < StackLimit
  /\ stack' = Allocated(stack, code[ip].at)
  /\ NextInstr /\ UNCHANGED <<rax, answer>>

Overflow ==
  /\ pc = "run" /\ ip \in DOMAIN code /\ code[ip].op \in {"push", "alloca"}
  /\ Len(stack) = StackLimit
  /\ pc' = "overflow"
  /\ UNCHANGED <<prog, body, code, machine>>

\* mov rsp, rbp
Return ==
  /\ pc = "run" /\ ip \notin DOMAIN code
  /\ pc' = "returned" /\ stack' = <<>>
  /\ UNCHANGED <<prog, body, code, ip, rax, answer>>

Done == pc \in {"refused", "returned", "overflow"} /\ UNCHANGED vars

Next ==
  \/ Parse \/ Generate \/ Done
  \/ Ask \/ Use \/ Pick \/ Branch \/ Push \/ Pop \/ builtin_alloca \/ Overflow \/ Return
Spec == Init /\ [][Next]_vars

-------------------------------------------------------------------------------
(***************************************************************************)
(* What the function does next, as StandardControl has it: the next event  *)
(* of its code.                                                            *)
(***************************************************************************)
Simple(k) == [k |-> k, at |-> <<>>, what |-> Global("g")]
EventFrom[i \in Nat, fuel \in Nat] ==
  CASE i \notin DOMAIN code -> Simple("end")
    [] i \in DOMAIN code /\ code[i].op \in Events ->
         [k |-> code[i].op, at |-> code[i].at,
          what |-> IF code[i].op = "use" THEN code[i].v ELSE Global("g")]
    [] OTHER -> IF fuel = 0 THEN Simple("silent") ELSE EventFrom[Follow(i, rax), fuel - 1]
Pending ==
  CASE pc \in {"source", "parsed"} -> Simple("start")
    [] pc = "refused" -> Simple("refused")
    [] pc = "returned" -> Simple("end")
    [] OTHER -> EventFrom[ip, Len(code) + 1]

Standard == INSTANCE StandardControl WITH pending <- Pending

\* The code does what the text says: whatever the outside answers, it goes on to the
\* question, the variable or the end that the text has after this very answer, with the
\* condition tested and the case chosen as C has it; what C refuses, is refused.
DoesAsC == Standard!Spec

\* Whenever something is asked for or used, the temporaries on the stack are those of
\* the operators that wait for this operand, the innermost on top, whatever loops, jumps
\* and allocations there were between; not once a jump has left an operator waiting.
TemporariesKept ==
  pc = "run" /\ ip \in DOMAIN code /\ code[ip].op \in Events /\ ~Standard!LeavesOperand =>
    SelectSeq(stack, LAMBDA w : w.kind = "temporary")
      = SetToSortSeq({Word("temporary", b) : b \in Standard!Waiting(code[ip].at)},
                     LAMBDA w, x : Len(w.at) > Len(x.at))
================================================================================
