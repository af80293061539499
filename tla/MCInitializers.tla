--------------------------- MODULE MCInitializers ---------------------------
(***************************************************************************)
(* Types with all kinds of members, and initialisers of up to three items. *)
(* The values of an initialiser are different, and less than 8.            *)
(***************************************************************************)
EXTENDS StandardData

Struct(members) == Record("struct", FALSE, members)
Union2(members) == Record("union", FALSE, members)
Byte == Scalar(1)
Half == Scalar(2)
Word == Scalar(4)
Pair == Struct(<<Member("x", Byte), Member("y", Half)>>)

(***************************************************************************)
(* Objects without initialiser: structs of any three members.              *)
(***************************************************************************)
LayoutMembers ==
  {Member("", Byte), Member("", Pair), Member("", Array(Word, 1)),
   [Member("", Byte) EXCEPT !.align = 8]}
LayoutBits == {<<1, 3>>, <<1, 7>>, <<2, 9>>, <<4, 17>>, <<4, 32>>, <<1, 0>>, <<4, 0>>, <<8, 20>>, <<8, 32>>}
LayoutAll == {[m EXCEPT !.name = "a"] : m \in LayoutMembers} \union
             {Bits(IF b[2] = 0 THEN "" ELSE "a", b[1], b[2]) : b \in LayoutBits} \union {Bits("", 4, 5)}
Objects ==
  {[ty |-> Record("struct", packed, s), static |-> FALSE, trailing |-> FALSE, init |-> [k |-> "none"]] :
     packed \in BOOLEAN, s \in [1 .. 3 -> LayoutAll]}

(***************************************************************************)
(* Initialisers: items with and without designators; each of a number, of  *)
(* one or two numbers in braces, or of a string.                           *)
(***************************************************************************)
Forms == {Num(0), List(<<Item(<<>>, Num(0))>>), List(<<Item(<<>>, Num(0)), Item(<<>>, Num(1))>>)}
ItemsOf(des, forms) == {Item(d, f) : d \in des, f \in forms}

\* The values made different: item n has 2n - 1 and 2n.
Number(i, n) ==
  CASE i.k = "num" -> Num(2 * n - 1 + i.v)
    [] i.k = "str" -> i
    [] OTHER -> List([m \in DOMAIN i.items |-> Item(i.items[m].des, Num(2 * n - 1 + i.items[m].init.v))])
Numbered(items) == List([n \in DOMAIN items |-> Item(items[n].des, Number(items[n].init, n))])

Lists(des, forms) ==
  {Numbered(s) : s \in UNION {[1 .. 1 -> ItemsOf(des, forms)], [1 .. 2 -> ItemsOf(des, forms)],
                                [1 .. 3 -> ItemsOf(des, {Num(0)})]}}

\* A type and the designators used with it.
F(n) == <<Field(n)>>
E(n) == <<Elements(n, n)>>
Typed ==
  {[ty |-> Struct(<<Member("a", Byte), Member("s", Pair), Member("z", Byte)>>),
    des |-> {<<>>, F("a"), F("s"), F("s") \o F("y"), F("z")}, forms |-> Forms],
   [ty |-> Array(Pair, -1),
    des |-> {<<>>, E(0), E(1), E(1) \o F("x"), E(0) \o F("y"), <<Elements(0, 1)>>}, forms |-> Forms],
   [ty |-> Array(Array(Byte, 2), 3),
    des |-> {<<>>, E(0), E(1) \o E(0), E(2), <<Elements(0, 2)>>, E(1) \o <<Elements(0, 1)>>},
    forms |-> Forms \union {Str(<<7, 0>>), Str(<<5, 6, 7>>)}],
   [ty |-> Struct(<<Member("a", Byte),
                    Member("u", Union2(<<Member("s", Pair), Member("i", Word)>>)), Member("z", Byte)>>),
    des |-> {<<>>, F("u"), F("u") \o F("i"), F("u") \o F("s") \o F("y"), F("z")}, forms |-> Forms],
   [ty |-> Union2(<<Member("x", Byte), Member("s", Pair)>>),
    des |-> {<<>>, F("x"), F("s"), F("s") \o F("x")}, forms |-> Forms],
   [ty |-> Struct(<<Bits("a", 4, 3), Bits("b", 4, 4), Member("c", Byte), Bits("d", 1, 3)>>),
    des |-> {<<>>, F("a"), F("b"), F("c"), F("d")}, forms |-> {Num(0)}],
   [ty |-> Struct(<<Bits("a", 4, 3), Bits("", 4, 4), Member("c", Byte)>>),
    des |-> {<<>>, F("a"), F("c")}, forms |-> {Num(0)}],
   [ty |-> Struct(<<Member("", Struct(<<Member("a", Byte), Member("b", Byte)>>)), Member("c", Byte)>>),
    des |-> {<<>>, F("a"), F("b"), F("c")}, forms |-> Forms],
   [ty |-> Struct(<<Member("n", Half), Member("f", Array(Byte, -1))>>),
    des |-> {<<>>, F("n"), F("f"), F("f") \o E(1)}, forms |-> Forms \union {Str(<<5, 6, 0>>)}],
   [ty |-> Array(Byte, -1), des |-> {<<>>, E(1), E(2)}, forms |-> {Num(0), Str(<<7, 0>>)}],
   [ty |-> Array(Byte, 2), des |-> {<<>>}, forms |-> {Num(0), Str(<<5, 0>>), Str(<<5, 6, 0>>)}]}

\* The comma before } is for the parser alone, static for what comes behind it: one
\* choice for both.
Initialised ==
  {{[ty |-> t.ty, static |-> b, trailing |-> b, init |-> i] :
      b \in BOOLEAN, i \in Lists(t.des, t.forms)} : t \in Typed}

\* A struct of a struct, an array of structs, a union; attributes; and an int that overflows.
Object(ty) == [ty |-> ty, static |-> FALSE, trailing |-> FALSE, init |-> [k |-> "none"]]
Aligned(ty, n) == [ty EXCEPT !.aligned = n]
Nested ==
  {Object(Struct(<<Member("a", Byte), Member("b", ty)>>)) :
     ty \in {Struct(<<Member("p", Pair), Bits("q", 4, 3)>>), Array(Struct(<<Member("x", Word), Bits("y", 1, 3)>>), 2),
             Union2(<<Member("i", Word), Member("s", Pair)>>), Union2(<<Bits("i", 8, 9), Member("c", Byte)>>),
             Union2(<<>>), Array(Half, -1), Array(Byte, 100), Array(Word, 100)}} \union
  {Object(Aligned(Record(k, packed, <<Member("a", ty), [Member("b", Half) EXCEPT !.align = 4]>>), n)) :
     k \in {"struct", "union"}, packed \in BOOLEAN, ty \in {Byte, Pair, Array(Byte, 64)}, n \in {1, 2, 16}}

MCFamilies == {Objects, Nested} \union Initialised
MCTexts == {Declarations(<<>>, ty) : ty \in {p.ty : p \in Objects \union Nested} \union {t.ty : t \in Typed}}
MCWritten == {{}, Register}
===============================================================================
