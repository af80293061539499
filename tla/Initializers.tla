------------------------------ MODULE Initializers ------------------------------
(***************************************************************************)
(* Initialisers: the parser builds a tree that has a node for every        *)
(* subobject, and fills it from the tokens; then write_gvar_data makes the *)
(* data of a static object of the tree, or create_lvar_init the            *)
(* assignments of an automatic one.  Last, the program stores to a member. *)
(*                                                                         *)
(* A program is a type, a storage class and an initialiser.  Expressions   *)
(* are numbers, strings of char, and no objects of struct type.            *)
(***************************************************************************)
EXTENDS Layout, SequencesExt

CONSTANTS Families   \* sets of programs

VARIABLES
  prog,    \* the program; pc is also "parse", "fill", "assign", "error"
  toks,    \* the tokens of its initialiser
  init,    \* the tree of its initialiser
  todo     \* the assignments left to do

vars == <<prog, toks, init, todo, layout>>

(***************************************************************************)
(* A type as the program writes it, and the declarations in it, one after  *)
(* the other (Layout's text), behind those before.                         *)
(***************************************************************************)
Array(base, len) == [k |-> "array", base |-> base, len |-> len]
Record(k, packed, members) == [k |-> k, packed |-> packed, aligned |-> 1, members |-> members]
Member(name, ty) == [name |-> name, ty |-> ty, bits |-> -1, align |-> 0]
Bits(name, size, n) == [name |-> name, ty |-> Scalar(size), bits |-> n, align |-> 0]
NameOf(ty, before) == IF ty.k = "scalar" THEN ty ELSE Declared(Len(before))

RECURSIVE Declarations(_, _)
Declarations(before, ty) ==
  LET With(d, m) ==
        LET inner == Declarations(d.text, m.ty)
        IN  [text |-> inner, members |-> Append(d.members,
              [name |-> m.name, of |-> NameOf(m.ty, inner), bits |-> m.bits, align |-> m.align])]
      base == Declarations(before, ty.base)
      record == FoldLeft(With, [text |-> before, members |-> <<>>], ty.members)
  IN  CASE ty.k = "scalar" -> before
        [] ty.k = "array" -> Append(base, [k |-> "array", of |-> NameOf(ty.base, base), len |-> ty.len])
        [] OTHER -> Append(record.text, [ty EXCEPT !.members = record.members])

(***************************************************************************)
(* An initialiser: a number, a string, or a list of items, each with its   *)
(* designators.  Its tokens are what the parser sees; `[ low ... high ]`   *)
(* is one of them.                                                         *)
(***************************************************************************)
Tok(t, v) == [t |-> t, v |-> v]
Num(v) == [k |-> "num", v |-> v]
Str(v) == [k |-> "str", v |-> v]
List(items) == [k |-> "list", items |-> items]
Item(designators, i) == [des |-> designators, init |-> i]
Field(name) == Tok(".", name)
Elements(low, high) == Tok("[", <<low, high>>)

RECURSIVE Tokens(_, _)
Tokens(i, trailing) ==
  IF i.k # "list" THEN <<Tok(i.k, i.v)>>
  ELSE LET Text(item) ==
             item.des \o (IF item.des = <<>> THEN <<>> ELSE <<Tok("=", 0)>>) \o Tokens(item.init, trailing)
           Spellings == [n \in DOMAIN i.items |-> (IF n = 1 THEN <<>> ELSE <<Tok(",", 0)>>) \o Text(i.items[n])]
       IN  <<Tok("{", 0)>> \o FlattenSeq(Spellings) \o (IF trailing THEN <<Tok(",", 0)>> ELSE <<>>) \o <<Tok("}", 0)>>

Is(i, t) == i \in DOMAIN toks /\ toks[i].t = t

\* The token behind one that is t; 0, which is no token, if it is another.
skip(i, t) == IF Is(i, t) THEN i + 1 ELSE 0
assign(i) == IF Is(i, "num") \/ Is(i, "str") THEN i + 1 ELSE 0
is_end(i) == Is(i, "}") \/ (Is(i, ",") /\ Is(i + 1, "}"))
consume_end(i) == IF Is(i, "}") THEN i + 1 ELSE i + 2

RECURSIVE skip_excess_element(_)
skip_excess_element(i) ==
  IF Is(i, "{") THEN skip(skip_excess_element(i + 1), "}") ELSE assign(i)

(***************************************************************************)
(* The tree.  expr is the value given, None if none is; mem the member of  *)
(* a union that is initialised, 0 for none.                                *)
(***************************************************************************)
None == -1
Leaf(ty) == [ty |-> ty, flexible |-> FALSE, expr |-> None, mem |-> 0, kids |-> <<>>]

RECURSIVE new_initializer(_, _)
new_initializer(ty, flexible) ==
  CASE ty.k = "array" /\ flexible /\ ty.len < 0 -> [Leaf(ty) EXCEPT !.flexible = TRUE]
    [] ty.k = "array" /\ ~(flexible /\ ty.len < 0) ->
         [Leaf(ty) EXCEPT !.kids = [i \in 1 .. ty.len |-> new_initializer(ty.base, FALSE)]]
    [] IsRecord(ty) ->
         [Leaf(ty) EXCEPT !.kids = [i \in DOMAIN ty.members |->
            IF flexible /\ ty.flexible /\ i = Len(ty.members)
              THEN [Leaf(ty.members[i].ty) EXCEPT !.flexible = TRUE]
              ELSE new_initializer(ty.members[i].ty, FALSE)]]
    [] OTHER -> Leaf(ty)

\* An array that takes its length from the initialiser, once that is known.
WithLength(node, len) == new_initializer(array_of(node.ty.base, len), FALSE)

\* What a parsing function returns: the token it stops at, and the node.
At(i, node) == [at |-> i, init |-> node]
Kid(node, n, kid) == [node EXCEPT !.kids[n] = kid]

string_initializer(i, node) ==
  LET str == toks[i].v
      array == IF node.flexible THEN WithLength(node, Len(str)) ELSE node
  IN  At(i + 1, [array EXCEPT !.kids = [n \in 1 .. array.ty.len |->
            IF n <= Len(str) THEN [array.kids[n] EXCEPT !.expr = str[n]] ELSE array.kids[n]]])

RECURSIVE get_struct_member(_, _)
get_struct_member(ty, name) ==
  \E m \in Range(ty.members) :
    \/ m.name = name
    \/ m.name = "" /\ IsRecord(m.ty) /\ get_struct_member(m.ty, name)

(***************************************************************************)
(* The member a designator names, 0 if there is none.  The designator of a *)
(* member of an anonymous struct is used again inside that.                *)
(***************************************************************************)
struct_designator(i, ty) ==
  LET name == toks[i].v
      Anonymous(m) == m.name = "" /\ IsRecord(m.ty)
      found == {n \in DOMAIN ty.members :
                  LET m == ty.members[n]
                  IN  IF Anonymous(m) THEN get_struct_member(m.ty, name) ELSE m.name = name}
      n == IF found = {} THEN 0 ELSE Min(found)
  IN  [mem |-> n, at |-> IF n > 0 /\ Anonymous(ty.members[n]) THEN i ELSE i + 1]

(***************************************************************************)
(* The parsing functions, from token i on, into node.  They call each      *)
(* other, all through Read (below); n is an element or member, first       *)
(* whether no comma is due.                                                *)
(***************************************************************************)
RECURSIVE Read(_, _, _, _)

\* The elements low to high of an array, each from the same tokens.
Designated(i, node, low, high) ==
  LET one == Read("designation", i, node.kids[low + 1], 0)
      with == Kid(node, low + 1, one.init)
  IN  IF low = high \/ one.at = 0 THEN At(one.at, with) ELSE Read("designated", i, with, <<low + 1, high>>)

InBounds(range, ty) == range[1] <= range[2] /\ range[1] >= 0 /\ range[2] < ty.len

\* designation, where i is behind the first designator of the list that is read.
designation(i, node) ==
  CASE Is(i, "[") ->
         IF node.ty.k # "array" \/ ~InBounds(toks[i].v, node.ty) \/ node.flexible THEN At(0, node)
         ELSE LET r == Read("designated", i + 1, node, toks[i].v)
              IN  Read("array2", r.at, r.init, toks[i].v[1] + 1)
    [] Is(i, ".") /\ IsRecord(node.ty) ->
         LET d == struct_designator(i, node.ty)
             r == Read("designation", d.at, node.kids[d.mem], 0)
         IN  IF d.mem = 0 THEN At(0, node)
             ELSE IF node.ty.k = "struct"
                    THEN Read("struct2", r.at, Kid(node, d.mem, r.init), [n |-> d.mem + 1, first |-> TRUE])
                    ELSE At(r.at, [Kid(node, d.mem, r.init) EXCEPT !.mem = d.mem])
    [] Is(i, ".") /\ ~IsRecord(node.ty) -> At(0, node)
    [] OTHER -> Read("initializer2", IF Is(i, "=") THEN i + 1 ELSE i, node, 0)

\* One element or member after another while the list goes on: n is the next of node.
\* Elements are counted with a dummy for each of them; the length is left in its expr.
count_array_init_elements(i, node, n) ==
  IF is_end(i) THEN At(i, [node EXCEPT !.expr = n.longest])
  ELSE LET j == IF n.first THEN i ELSE skip(i, ",")
           here == IF Is(j, "[") THEN toks[j].v[2] ELSE n.n
           r == IF Is(j, "[") THEN Read("designation", j + 1, node, 0) ELSE Read("initializer2", j, node, 0)
       IN  IF r.at = 0 THEN At(0, node)
           ELSE Read("count", r.at, r.init,
                     [n |-> here + 1, longest |-> MaxOf(n.longest, here + 1), first |-> FALSE])

array_initializer1(i, node, n) ==
  IF is_end(i) THEN At(consume_end(i), node)
  ELSE LET j == IF Is(i - 1, "{") THEN i ELSE skip(i, ",")
           r == IF n < node.ty.len THEN Read("initializer2", j, node.kids[n + 1], 0)
                                   ELSE At(skip_excess_element(j), node)
           range == toks[j].v
           d == Read("designated", j + 1, node, range)
       IN  CASE j = 0 -> At(0, node)
             [] Is(j, "[") ->
                  IF ~InBounds(range, node.ty) \/ d.at = 0 THEN At(0, node)
                  ELSE Read("array1", d.at, d.init, range[2] + 1)
             [] OTHER ->
                  IF r.at = 0 THEN At(0, node)
                  ELSE Read("array1", r.at, IF n < node.ty.len THEN Kid(node, n + 1, r.init) ELSE node, n + 1)

\* Without braces: elements are taken until the array is full or the list ends.
array_initializer2(i, node, n) ==
  IF i = 0 \/ n >= node.ty.len \/ is_end(i) THEN At(i, node)
  ELSE LET j == IF n > 0 THEN skip(i, ",") ELSE i
           r == Read("initializer2", j, node.kids[n + 1], 0)
       IN  IF Is(j, "[") \/ Is(j, ".") THEN At(i, node)
           ELSE Read("array2", r.at, Kid(node, n + 1, r.init), n + 1)

struct_initializer1(i, node, n) ==
  IF is_end(i) THEN At(consume_end(i), node)
  ELSE LET j == IF Is(i - 1, "{") THEN i ELSE skip(i, ",")
           d == struct_designator(j, node.ty)
           known == n <= Len(node.kids)
           r == IF Is(j, ".") THEN Read("designation", d.at, node.kids[d.mem], 0)
                ELSE IF known THEN Read("initializer2", j, node.kids[n], 0) ELSE At(skip_excess_element(j), node)
       IN  CASE j = 0 \/ (Is(j, ".") /\ d.mem = 0) \/ r.at = 0 -> At(0, node)
             [] Is(j, ".") /\ r.at # 0 -> Read("struct1", r.at, Kid(node, d.mem, r.init), d.mem + 1)
             [] OTHER -> Read("struct1", r.at, IF known THEN Kid(node, n, r.init) ELSE node, n + 1)

struct_initializer2(i, node, n) ==
  IF i = 0 \/ n.n > Len(node.kids) \/ is_end(i) THEN At(i, node)
  ELSE LET j == IF n.first THEN i ELSE skip(i, ",")
           r == Read("initializer2", j, node.kids[n.n], 0)
       IN  IF Is(j, "[") \/ Is(j, ".") THEN At(i, node)
           ELSE Read("struct2", r.at, Kid(node, n.n, r.init), [n |-> n.n + 1, first |-> FALSE])

union_initializer(i, node) ==
  LET braced == Is(i, "{")
      named == braced /\ Is(i + 1, ".")
      d == IF named THEN struct_designator(i + 1, node.ty) ELSE [mem |-> 1, at |-> 0]
      r == IF named THEN Read("designation", d.at, node.kids[d.mem], 0)
                    ELSE Read("initializer2", IF braced THEN i + 1 ELSE i, node.kids[1], 0)
      end == IF braced /\ ~named /\ Is(r.at, ",") THEN r.at + 1 ELSE r.at
  IN  IF d.mem = 0 THEN At(0, node)
      ELSE At(IF braced THEN skip(end, "}") ELSE end, [Kid(node, d.mem, r.init) EXCEPT !.mem = d.mem])

initializer2(i, node) ==
  LET ty == node.ty
      braced == Is(i, "{")
      begin == IF braced THEN i + 1 ELSE i
      inner == Read("initializer2", i + 1, node, 0)
      count == Read("count", begin, new_initializer(ty.base, TRUE), [n |-> 0, longest |-> 0, first |-> TRUE])
      array == IF node.flexible THEN WithLength(node, count.init.expr) ELSE node
  IN  CASE ty.k = "array" ->
             IF Is(i, "str") THEN string_initializer(i, node)
             ELSE IF braced /\ ty.base.k = "scalar" /\ ty.base.size = 1 /\ Is(i + 1, "str")
                    THEN At(skip(inner.at, "}"), inner.init)
             ELSE IF node.flexible /\ count.at = 0 THEN At(0, node)
             ELSE Read(IF braced THEN "array1" ELSE "array2", begin, array, 0)
        [] ty.k = "struct" ->
             IF braced THEN Read("struct1", i + 1, node, 1)
             ELSE IF assign(i) = 0 THEN At(0, node)
             ELSE Read("struct2", i, node, [n |-> 1, first |-> TRUE])
        [] ty.k = "union" -> union_initializer(i, node)
        [] OTHER ->
             IF braced THEN At(skip(inner.at, "}"), inner.init)
             ELSE IF Is(i, "num") THEN At(i + 1, [node EXCEPT !.expr = toks[i].v])
             ELSE At(0, node)

Read(f, i, node, n) ==
  CASE f = "initializer2" -> initializer2(i, node)
    [] f = "designation" -> designation(i, node)
    [] f = "designated" -> Designated(i, node, n[1], n[2])
    [] f = "count" -> count_array_init_elements(i, node, n)
    [] f = "array1" -> array_initializer1(i, node, n)
    [] f = "array2" -> array_initializer2(i, node, n)
    [] f = "struct1" -> struct_initializer1(i, node, n)
    [] f = "struct2" -> struct_initializer2(i, node, n)

-------------------------------------------------------------------------------
(***************************************************************************)
(* The type an object has in the end: a flexible struct or an array of no  *)
(* length takes it from the initialiser.                                   *)
(***************************************************************************)
NewType(node) ==
  IF IsRecord(node.ty) /\ node.ty.flexible
    THEN LET last == Len(node.kids)
         IN  [node.ty EXCEPT !.members[last].ty = node.kids[last].ty, !.size = @ + node.kids[last].ty.size]
    ELSE node.ty

\* Mutant: the assignments to a union go to its first member.
FirstMember(node) == 1
UnionMember(node) == MaxOf(node.mem, 1)

RECURSIVE create_lvar_init(_, _)
create_lvar_init(node, place) ==
  LET ty == node.ty
      Filled(n) == create_lvar_init(node.kids[n], PlaceOf(ty.members[n], place.at))
  IN  CASE ty.k = "array" ->
             FlattenSeq([n \in DOMAIN node.kids |->
               create_lvar_init(node.kids[n], Place(place.at + (n - 1) * ty.base.size * 8, ty.base.size * 8))])
        [] ty.k = "struct" -> FlattenSeq([n \in DOMAIN node.kids |-> Filled(n)])
        [] ty.k = "union" -> Filled(UnionMember(node))
        [] OTHER -> IF node.expr = None THEN <<>> ELSE <<[place |-> place, v |-> node.expr]>>

(***************************************************************************)
(* A number in memory.                                                     *)
(***************************************************************************)
BitsIn(v) == {i \in 0 .. 29 : (v \div 2^i) % 2 = 1}
OneBits(v, at, width) == {at + i : i \in BitsIn(v) \intersect (0 .. width - 1)}
Write(data, v, at, width) == (data \ (at .. at + width - 1)) \union OneBits(v, at, width)

\* The data of a static object; a bit-field is merged into what its unit holds.
RECURSIVE write_gvar_data(_, _, _)
write_gvar_data(data, node, at) ==
  LET ty == node.ty
      Elems[n \in 0 .. Len(node.kids)] ==
        IF n = 0 THEN data ELSE write_gvar_data(Elems[n - 1], node.kids[n], at + (n - 1) * ty.base.size * 8)
      stops == {n \in DOMAIN node.kids : IsBitfield(ty.members[n]) /\ node.kids[n].expr = None}
      upto == IF stops = {} THEN Len(node.kids) ELSE Min(stops) - 1
      Upto[n \in 0 .. upto] ==
        IF n = 0 THEN data
        ELSE LET m == ty.members[n]
             IN  IF IsBitfield(m)
                   THEN Upto[n - 1] \union OneBits(node.kids[n].expr, MemberAt(m, at), m.bits)
                   ELSE write_gvar_data(Upto[n - 1], node.kids[n], MemberAt(m, at))
  IN  CASE ty.k = "array" -> Elems[Len(node.kids)]
        [] ty.k = "struct" -> Upto[upto]
        [] ty.k = "union" ->
             IF node.mem = 0 THEN data ELSE write_gvar_data(data, node.kids[node.mem], at)
        [] OTHER -> IF node.expr = None THEN data ELSE Write(data, node.expr, at, ty.size * 8)

-------------------------------------------------------------------------------
Own == <<prog, toks, init, todo>>

Init ==
  /\ \E programs \in Families : prog \in programs
  /\ text = Declarations(<<>>, prog.ty) /\ LayoutStart
  /\ toks = <<>> /\ init = Leaf(Scalar(1)) /\ todo = <<>>

\* An object without initialiser is stored to, a member or an element.
Types == Declare /\ UNCHANGED Own
Uninitialised == prog.init.k = "none" /\ Define /\ UNCHANGED Own
Assignment == prog.init.k = "none" /\ Store /\ UNCHANGED Own

LayOut ==
  /\ pc = "layout" /\ Len(types) = Len(text) /\ prog.init.k # "none"
  /\ type' = Last(types)
  /\ pc' = "parse" /\ toks' = Tokens(prog.init, prog.trailing)
  /\ UNCHANGED <<prog, init, todo, text, types, cur, mem, stored, scalars>>

Laid == UNCHANGED <<text, types, cur, stored, scalars>>

\* initializer: the tree is made, filled, and gives the object its type.
initializer ==
  /\ pc = "parse"
  /\ LET r == Read("initializer2", 1, new_initializer(type, TRUE), 0)
     IN  IF r.at = 0
           THEN pc' = "error" /\ UNCHANGED <<type, init, mem>>
           ELSE /\ init' = r.init /\ type' = NewType(r.init)
                /\ pc' = "fill"
                /\ mem' = IF prog.static THEN {} ELSE AllOnes(type'.size)
  /\ UNCHANGED <<prog, toks, todo>> /\ Laid

gvar_initializer ==
  /\ pc = "fill" /\ prog.static
  /\ mem' = write_gvar_data(mem, [init EXCEPT !.ty = type], 0)
  /\ pc' = "ready"
  /\ UNCHANGED <<prog, toks, type, init, todo>> /\ Laid

\* ND_MEMZERO, and the assignments behind it.
lvar_initializer ==
  /\ pc = "fill" /\ ~prog.static
  /\ mem' = {}
  /\ todo' = create_lvar_init([init EXCEPT !.ty = type], Place(0, type.size * 8))
  /\ pc' = "assign"
  /\ UNCHANGED <<prog, toks, type, init>> /\ Laid

Assign ==
  /\ pc = "assign" /\ todo # <<>>
  /\ LET place == Head(todo).place
     IN  \E ones \in Ones(place.width) : mem' = Stored(place, BitsIn(Head(todo).v), ones)
  /\ todo' = Tail(todo)
  /\ UNCHANGED <<prog, toks, pc, type, init>> /\ Laid

Assigned ==
  /\ pc = "assign" /\ todo = <<>>
  /\ pc' = "ready"
  /\ UNCHANGED <<prog, toks, type, init, todo, mem>> /\ Laid

Done == pc \in {"ready", "stored", "error", "overflow"} /\ UNCHANGED vars

Next ==
  \/ Types \/ Uninitialised \/ Assignment
  \/ LayOut \/ initializer \/ gvar_initializer \/ lvar_initializer \/ Assign \/ Assigned \/ Done
Spec == Init /\ [][Next]_vars
===============================================================================
