------------------------------ MODULE StandardData ------------------------------
(***************************************************************************)
(* What C11 6.7.9 says of initialisers, against which Initializers is      *)
(* held.  Here an initialiser is read as a list of items with a current    *)
(* object, not token by token.                                             *)
(***************************************************************************)
EXTENDS Initializers, StandardLayout

Least(ns) == IF ns = {} THEN 0 ELSE Min(ns)

(***************************************************************************)
(* A subobject is a path of indices.  The unnamed bit-fields take no part  *)
(* in initialisation (6.7.9p9); behind the one member of a union comes     *)
(* what follows the union.                                                 *)
(***************************************************************************)
SubType(ty, n) == IF ty.k = "array" THEN ty.base ELSE ty.members[n].ty
TypeAt(path) == FoldLeft(SubType, prog.ty, path)
IsCharArray(ty) == ty.k = "array" /\ ty.base = Scalar(1)

Follows(ty, n) ==
  CASE ty.k = "array" -> IF ty.len < 0 \/ n < ty.len THEN n + 1 ELSE 0
    [] ty.k = "struct" \/ n = 0 -> Least({m \in n + 1 .. Len(ty.members) : ~Unnamed(ty.members[m])})
    [] OTHER -> 0

\* The subobject behind path in the object at base; base itself if there is none.
RECURSIVE Behind(_, _)
Behind(base, path) ==
  LET n == Follows(TypeAt(Front(path)), Last(path))
  IN  IF path = base THEN base
      ELSE IF n > 0 THEN Append(Front(path), n) ELSE Behind(base, Front(path))

\* The path to the member called name, through anonymous structs and unions.
RECURSIVE MemberPath(_, _)
MemberPath(ty, name) ==
  LET n == Least({n \in DOMAIN ty.members :
                    \/ ty.members[n].name = name
                    \/ ty.members[n].name = "" /\ IsRecord(ty.members[n].ty)
                         /\ get_struct_member(ty.members[n].ty, name)})
  IN  IF n = 0 THEN <<0>>
      ELSE IF ty.members[n].name = name THEN <<n>> ELSE <<n>> \o MemberPath(ty.members[n].ty, name)

Range2(r) == [n \in 1 .. r[2] - r[1] + 1 |-> r[1] + n]
Designates(path, d) ==
  LET ty == TypeAt(path)
  IN  CASE 0 \in Range(path) -> <<path>>
        [] d.t = "[" /\ ty.k = "array" /\ (d.v[2] < ty.len \/ (ty.len < 0 /\ path = <<>>)) ->
             [n \in DOMAIN Range2(d.v) |-> Append(path, Range2(d.v)[n])]
        [] d.t = "." /\ IsRecord(ty) -> <<path \o MemberPath(ty, d.v)>>
        [] OTHER -> <<Append(path, 0)>>

Designated2(base, des) ==
  FoldLeft(LAMBDA paths, d : FlattenSeq([n \in DOMAIN paths |-> Designates(paths[n], d)]), <<base>>, des)

\* 6.7.9p13, p20: where a value goes, if path is next.
RECURSIVE Descend(_, _)
Descend(path, i) ==
  LET ty == TypeAt(path)
  IN  IF ty.k = "scalar" \/ i.k = "list" \/ (i.k = "str" /\ IsCharArray(ty)) THEN path
      ELSE Descend(Append(path, Follows(ty, 0)), i)

(***************************************************************************)
(* The result: the value of every scalar that is given one, whether the    *)
(* constraints of C are kept, and where the program departs (below).       *)
(***************************************************************************)
OtherMember(p, q) ==
  \E k \in 1 .. Len(p) :
    /\ IsPrefix(SubSeq(p, 1, k - 1), q) /\ Len(q) >= k /\ q[k] # p[k]
    /\ TypeAt(SubSeq(p, 1, k - 1)).k = "union"

\* 6.7.9p19: a later initialiser of a subobject overrides the earlier one.
Overridden(st, p) ==
  LET gone == {e \in st.vals : IsPrefix(p, e[1]) \/ OtherMember(p, e[1])}
  IN  [st EXCEPT !.vals = @ \ gone, !.again = @ \/ \E e \in gone : e[1] # p]
Put(st, p, v) == [Overridden(st, p) EXCEPT !.vals = @ \union {<<p, v>>}]

\* A designator beyond the first of an item that is not the last: the places where
\* the parser looks for the next member in the wrong state.
LosesPlace(base, path, des) ==
  \/ \E k \in Len(base) + 2 .. Len(path) :
       LET ty == TypeAt(SubSeq(path, 1, k - 1))
       IN  ty.k = "struct" /\ path[k] < Len(ty.members)
  \/ \E k \in 2 .. Len(des) : des[k].t = "[" /\ des[k].v[1] # des[k].v[2]

\* An element of a flexible member without braces: the elements are counted to the
\* end of the list, as if no designator could follow.
InFlexible(path) == \E k \in 1 .. Len(path) - 1 : TypeAt(SubSeq(path, 1, k)).k = "array" /\ TypeAt(SubSeq(path, 1, k)).len < 0

RECURSIVE StdObject(_, _, _), StdList(_, _, _, _, _)
StdObject(st, p, i) ==
  LET ty == TypeAt(p)
      single == i.k = "list" /\ Len(i.items) = 1 /\ i.items[1].des = <<>>
      Char(s, n) == Put(s, Append(p, n), i.v[n])
      fits == IF ty.k = "array" /\ i.k = "str"
                THEN IF ty.len < 0 THEN Len(i.v) ELSE IF ty.len < Len(i.v) THEN ty.len ELSE Len(i.v) ELSE 0
      comma == [st EXCEPT !.odd = @ \/ prog.trailing]
  IN  CASE i.k = "num" -> Put(st, p, i.v)
        [] i.k = "str" /\ IsCharArray(ty) ->
             [FoldLeft(Char, Overridden(st, p), [n \in 1 .. fits |-> n]) EXCEPT !.ok = @ /\ Len(i.v) <= fits + 1]
        [] i.k = "list" /\ ty.k = "scalar" ->
             IF single /\ i.items[1].init.k # "str" THEN StdObject(comma, p, i.items[1].init)
             ELSE [st EXCEPT !.ok = FALSE]
        [] i.k = "list" /\ IsCharArray(ty) /\ single /\ i.items[1].init.k = "str" ->
             StdObject(comma, p, i.items[1].init)
        [] i.k = "list" /\ ty.k = "union" ->
             StdList([Overridden(st, p) EXCEPT
                        !.odd = @ \/ Len(i.items) > 1 \/ (prog.trailing /\ i.items[1].des # <<>>)],
                     p, Append(p, Follows(ty, 0)), i.items, 1)
        [] i.k = "list" /\ ty.k \in {"array", "struct"} /\ ~(IsCharArray(ty) /\ single /\ i.items[1].init.k = "str") ->
             StdList(Overridden(st, p), p, Append(p, Follows(ty, 0)), i.items, 1)
        [] OTHER -> [st EXCEPT !.ok = FALSE]

\* Item k of the list for the object at base, if the subobject at cursor is next.
StdList(st, base, cursor, items, k) ==
  IF k > Len(items) \/ ~st.ok THEN st
  ELSE LET item == items[k]
           begins == IF item.des = <<>> THEN <<cursor>> ELSE Designated2(base, item.des)
           wrong == \E n \in DOMAIN begins : begins[n] = base \/ 0 \in Range(begins[n])
           targets == [n \in DOMAIN begins |-> Descend(begins[n], item.init)]
           loses == \/ item.des # <<>> /\ k < Len(items) /\ LosesPlace(base, Last(begins), item.des)
                    \/ Last(targets) # Last(begins) /\ \E d \in Range(item.des) : d.t = "[" /\ d.v[1] # d.v[2]
                    \/ InFlexible(Last(targets)) /\ \E n \in k + 1 .. Len(items) : items[n].des # <<>>
           with == FoldLeft(LAMBDA s, p : StdObject(s, p, item.init), st, targets)
       IN  IF wrong THEN [st EXCEPT !.ok = FALSE]
           ELSE StdList([with EXCEPT !.lost = @ \/ loses], base, Behind(base, Last(targets)), items, k + 1)

Standard ==
  StdObject([vals |-> {}, ok |-> TRUE, again |-> FALSE, lost |-> FALSE, odd |-> FALSE], <<>>, prog.init)

(***************************************************************************)
(* Where the program departs from C: an initialiser for what has one       *)
(* already (again); an item behind a designator of several parts, or in    *)
(* an anonymous struct (lost); a comma or a second item in the braces of a *)
(* scalar, a string or a union (odd); unnamed bit-fields; and in a static  *)
(* object a bit-field that is given no value, before a member that is.     *)
(***************************************************************************)
RECURSIVE AllMembers(_)
AllMembers(ty) ==
  CASE ty.k = "array" -> AllMembers(ty.base)
    [] IsRecord(ty) -> Range(ty.members) \union UNION {AllMembers(m.ty) : m \in Range(ty.members)}
    [] OTHER -> {}

GapInStatic(std) ==
  /\ prog.static
  /\ \E e \in std.vals : \E k \in DOMAIN e[1] :
       LET parent == SubSeq(e[1], 1, k - 1)
       IN  /\ TypeAt(parent).k = "struct"
           /\ \E n \in 1 .. e[1][k] - 1 :
                IsBitfield(TypeAt(parent).members[n]) /\ \A f \in std.vals : f[1] # Append(parent, n)

Departs(std) ==
  std.again \/ std.lost \/ std.odd \/ (\E m \in AllMembers(prog.ty) : Unnamed(m)) \/ GapInStatic(std)

\* The scalars of an object with their paths; of a union, those of the member that
\* has a value, or of the first.
RECURSIVE Values(_, _, _, _, _)
Values(std, ty, path, at, width) ==
  LET Sub(n) == Values(std, SubType(ty, n), Append(path, n),
                       IF ty.k = "array" THEN at + (n - 1) * ty.base.size * 8 ELSE MemberAt(ty.members[n], at),
                       IF ty.k # "array" /\ IsBitfield(ty.members[n]) THEN ty.members[n].bits
                                                                   ELSE SubType(ty, n).size * 8)
      given == {n \in DOMAIN ty.members : \E e \in std.vals : IsPrefix(Append(path, n), e[1])}
  IN  CASE ty.k = "array" -> UNION {Sub(n) : n \in 1 .. ty.len}
        [] ty.k = "struct" -> UNION {Sub(n) : n \in {n \in DOMAIN ty.members : ~Unnamed(ty.members[n])}}
        [] ty.k = "union" -> Sub(IF given = {} THEN 1 ELSE Min(given))
        [] OTHER -> {<<path, at, width>>}

\* The length an array or flexible member at path gets: that of its last element given.
LengthAt(std, path) ==
  LET given == {e[1][Len(path) + 1] : e \in {e \in std.vals : IsPrefix(path, e[1])}}
  IN  IF given = {} THEN 0 ELSE Max(given)

SameLength(std) ==
  /\ prog.ty.k = "array" /\ prog.ty.len < 0 => type.len = LengthAt(std, <<>>)
  /\ IsRecord(type) /\ type.flexible =>
       type.members[Len(type.members)].ty.len = LengthAt(std, <<Len(type.members)>>)

ValueAt(at, width) ==
  LET Value[i \in 0 .. width] ==
        IF i = 0 THEN 0 ELSE 2 * Value[i - 1] + (IF at + width - i \in mem THEN 1 ELSE 0)
  IN  Value[width]

(***************************************************************************)
(* Every initialiser that C allows is accepted and gives every scalar of   *)
(* the object the value C says, zero if it is given none, in static and in *)
(* automatic storage; an array of no length gets the one C says.  What is  *)
(* assigned lies in the object.                                            *)
(***************************************************************************)
InitialisesAsC ==
  LET std == Standard
  IN  /\ \A n \in DOMAIN todo : todo[n].place.at + todo[n].place.width <= type.size * 8
      /\ pc \in {"error", "ready"} /\ prog.init.k # "none" /\ std.ok /\ ~Departs(std) =>
           /\ pc = "ready" /\ SameLength(std)
           /\ \A x \in Values(std, type, <<>>, 0, type.size * 8) :
                ValueAt(x[2], x[3]) =
                  IF \E e \in std.vals : e[1] = x[1] THEN (CHOOSE e \in std.vals : e[1] = x[1])[2] ELSE 0
===============================================================================
