--------------------------------- MODULE Layout ---------------------------------
(***************************************************************************)
(* Where the members of a struct or union lie: the parser declares one     *)
(* type after another, the inner ones first, and struct_decl goes through  *)
(* the members; then there is an object of the last type, and the program  *)
(* stores to scalars in it.                                                *)
(*                                                                         *)
(* A text is the list of the arrays, structs and unions that are declared, *)
(* in the order in which they are complete.  A base or member is of a      *)
(* scalar type or of one declared before, known by its number.  A member   *)
(* has a name ("" for none), a width (-1 if it is no bit-field) and        *)
(* _Alignas (0 for none); a record may be packed, and aligned.             *)
(*                                                                         *)
(* Sizes are in bytes, places in bits.  Memory is the set of its bits that *)
(* are one.  Scalars are what a general register holds.                    *)
(***************************************************************************)
EXTENDS Integers, Sequences

CONSTANTS
  Alignments,  \* those a type or _Alignas can have
  IntMax,      \* the largest int, in which bits and bytes are counted
  Written,     \* values of a register that the program may store
  Texts

Scalar(size) == [k |-> "scalar", size |-> size, align |-> size]
Declared(n) == [k |-> "declared", n |-> n]
IsRecord(ty) == ty.k \in {"struct", "union"}
IsBitfield(m) == m.bits >= 0
NoName(name) == name = ""

Register == 0 .. 63

\* A type that is named while n types are declared: a scalar, or one of those.
Named(of, n) ==
  \/ of.k = "scalar" /\ of = Scalar(of.size) /\ of.size \in Alignments /\ of.size <= 8
  \/ of.k = "declared" /\ of = Declared(of.n) /\ of.n \in 1 .. n

\* An array of no given length (len < 0) can end a struct, or be an object.
Incomplete(text, of) == of.k = "declared" /\ text[of.n].k = "array" /\ text[of.n].len < 0

MemberIsLegal(text, i, n) ==
  LET m == text[i].members[n]
  IN  /\ m = [name |-> m.name, of |-> m.of, bits |-> m.bits, align |-> m.align]
      /\ Named(m.of, i - 1)
      /\ m.align \in Alignments \union {0}
      /\ m.bits \in Int /\ m.bits >= -1
      /\ IsBitfield(m) => /\ m.of.k = "scalar" /\ m.align = 0 /\ m.bits <= m.of.size * 8
                          /\ m.bits = 0 => NoName(m.name)
      /\ Incomplete(text, m.of) => n = Len(text[i].members)

TypeIsLegal(text, i) ==
  LET ty == text[i]
  IN  \/ /\ ty.k = "array"
         /\ ty = [k |-> "array", of |-> ty.of, len |-> ty.len]
         /\ Named(ty.of, i - 1) /\ ~Incomplete(text, ty.of)
         /\ ty.len \in Int /\ ty.len >= -1
      \/ /\ IsRecord(ty)
         /\ ty = [k |-> ty.k, packed |-> ty.packed, aligned |-> ty.aligned, members |-> ty.members]
         /\ ty.packed \in BOOLEAN /\ ty.aligned \in Alignments
         /\ ty.members = [n \in 1 .. Len(ty.members) |-> ty.members[n]] /\ Len(ty.members) \in Nat
         /\ \A n \in 1 .. Len(ty.members) : MemberIsLegal(text, i, n)

\* Alignments are powers of two: of any two, one divides the other.
ASSUME LayoutAssumption ==
  /\ Alignments \subseteq Nat \ {0} /\ 1 \in Alignments
  /\ \A a, b \in Alignments : a <= b => b % a = 0
  /\ IntMax \in Nat
  /\ Written \subseteq SUBSET Register
  /\ \A text \in Texts :
       /\ text = [i \in 1 .. Len(text) |-> text[i]] /\ Len(text) \in Nat \ {0}
       /\ \A i \in 1 .. Len(text) : TypeIsLegal(text, i)

VARIABLES
  text,
  types,    \* those declared so far, with their places
  cur,      \* what struct_decl or union_decl has of the type under way; Closed between types
  pc,       \* "layout", "ready", "stored"; "overflow": nothing is said of what comes then
  type,     \* the type of the object
  mem,      \* the bits of the object that are one
  stored,   \* the place last stored to, and the register
  scalars   \* history: for each type, the places of the scalars in an object of it

layout == <<text, types, cur, pc, type, mem, stored, scalars>>

MaxOf(a, b) == IF a > b THEN a ELSE b
align_to(n, a) == ((n + a - 1) \div a) * a
align_down(n, a) == align_to(n - a + 1, a)

(***************************************************************************)
(* A place: the bit where it begins, how many it has, and the unit through *)
(* which a bit-field is read and written.                                  *)
(***************************************************************************)
Place(at, width) == [at |-> at, width |-> width, field |-> FALSE, unit |-> at, size |-> width]
BitField(at, width, unit, size) == [at |-> at, width |-> width, field |-> TRUE, unit |-> unit, size |-> size]
Shifted(p, by) ==
  [at |-> p.at + by, width |-> p.width, field |-> p.field, unit |-> p.unit + by, size |-> p.size]
BitsOf(place) == place.at .. place.at + place.width - 1
MemberAt(m, at) == at + m.offset * 8 + m.bit

\* The place of a member that is a scalar, in a record at that place.
PlaceOf(m, at) ==
  IF IsBitfield(m) THEN BitField(MemberAt(m, at), m.bits, at + m.offset * 8, m.ty.size * 8)
                   ELSE Place(MemberAt(m, at), m.ty.size * 8)

TypeOf(of) == IF of.k = "scalar" THEN of ELSE types[of.n]
ScalarsOf(of) == IF of.k = "scalar" THEN {Place(0, of.size * 8)} ELSE scalars[of.n]

\* Those in a member (an unnamed bit-field cannot be stored to).
ScalarsIn(m, of) ==
  IF IsBitfield(m)
    THEN IF NoName(m.name) THEN {} ELSE {PlaceOf(m, 0)}
    ELSE {Shifted(p, MemberAt(m, 0)) : p \in ScalarsOf(of)}

-------------------------------------------------------------------------------
(***************************************************************************)
(* The declarations.                                                       *)
(***************************************************************************)
Closed == [open |-> FALSE]
Open(members, bits, align, size, places) ==
  [open |-> TRUE, members |-> members, bits |-> bits, align |-> align, size |-> size, scalars |-> places]
decl == text[Len(types) + 1]
Declaring(kinds) == pc = "layout" /\ Len(types) < Len(text) /\ decl.k \in kinds
Same == UNCHANGED <<text, type, mem, stored>>

Complete(ty, places) ==
  /\ types' = Append(types, ty) /\ scalars' = Append(scalars, places)
  /\ cur' = Closed /\ pc' = pc

\* An int would overflow: an array is refused, of a record the behaviour is not defined.
Undefined == pc' = "overflow" /\ UNCHANGED <<types, cur, scalars>>

array_of(base, len) ==
  [k |-> "array", base |-> base, len |-> len, size |-> base.size * len, align |-> base.align]

ArrayOf ==
  /\ Declaring({"array"})
  /\ LET base == TypeOf(decl.of)
         ty == array_of(base, decl.len)
     IN  IF ty.size > IntMax THEN Undefined
         ELSE Complete(ty, UNION {{Shifted(p, n * base.size * 8) : p \in ScalarsOf(decl.of)} :
                                    n \in 0 .. decl.len - 1})
  /\ Same

\* The attributes have been read, and a { .
struct_union_decl ==
  /\ Declaring({"struct", "union"}) /\ cur = Closed
  /\ cur' = Open(<<>>, 0, decl.aligned, 0, {})
  /\ UNCHANGED <<types, scalars, pc>> /\ Same

Flexible == Len(decl.members) > 0 /\ Incomplete(text, decl.members[Len(decl.members)].of)

\* Member n with its type; one that makes the struct flexible has no size.
struct_members(n) ==
  LET m == decl.members[n]
      ty == TypeOf(m.of)
  IN  [name |-> m.name, bits |-> m.bits,
       ty |-> IF Flexible /\ n = Len(decl.members) THEN array_of(ty.base, 0) ELSE ty,
       align |-> IF m.align = 0 THEN ty.align ELSE m.align]

\* Mutant: a bit-field may lie across two units of its type.
Straddles(bits, unit, n) == FALSE
NeedsUnit(bits, unit, n) == bits \div unit # (bits + n - 1) \div unit

(***************************************************************************)
(* Where a member lies in a struct, and the bits up to its end.            *)
(***************************************************************************)
PlaceMember(m, bits, packed) ==
  LET unit == m.ty.size * 8
      start == IF m.bits > 0
                 THEN IF NeedsUnit(bits, unit, m.bits) THEN align_to(bits, unit) ELSE bits
                 ELSE IF packed THEN bits ELSE align_to(bits, m.align * 8)
  IN  CASE m.bits = 0 -> [offset |-> 0, bit |-> 0, bits |-> align_to(bits, unit)]
        [] m.bits > 0 -> [offset |-> align_down(start \div 8, m.ty.size),
                          bit |-> start % unit, bits |-> start + m.bits]
        [] OTHER -> [offset |-> start \div 8, bit |-> 0, bits |-> start + unit]

Placed(m, place) ==
  [name |-> m.name, ty |-> m.ty, bits |-> m.bits, align |-> m.align,
   offset |-> place.offset, bit |-> place.bit]

\* struct_decl and union_decl go through the members.
Going == cur # Closed /\ Len(cur.members) < Len(decl.members)
Through == cur # Closed /\ Len(cur.members) = Len(decl.members)
nth == Len(cur.members) + 1

PlaceInStruct ==
  /\ Declaring({"struct"}) /\ Going
  /\ LET m == struct_members(nth)
         place == PlaceMember(m, cur.bits, decl.packed)
         placed == Placed(m, place)
     IN  IF place.bits > IntMax THEN Undefined
         ELSE /\ cur' = Open(Append(cur.members, placed), place.bits,
                             IF decl.packed THEN cur.align ELSE MaxOf(cur.align, m.align), cur.size,
                             cur.scalars \union ScalarsIn(placed, decl.members[nth].of))
              /\ UNCHANGED <<types, scalars, pc>>
  /\ Same

RecordType(size) ==
  [k |-> decl.k, packed |-> decl.packed, members |-> cur.members, align |-> cur.align,
   size |-> size, flexible |-> Flexible]

struct_decl ==
  /\ Declaring({"struct"}) /\ Through
  /\ LET bits == align_to(cur.bits, cur.align * 8)
     IN  IF bits > IntMax THEN Undefined ELSE Complete(RecordType(bits \div 8), cur.scalars)
  /\ Same

\* Of a union the program stores to the first member only (a bound).
PlaceInUnion ==
  /\ Declaring({"union"}) /\ Going
  /\ LET m == struct_members(nth)
         placed == Placed(m, [offset |-> 0, bit |-> 0])
     IN  cur' = Open(Append(cur.members, placed), cur.bits, MaxOf(cur.align, m.align),
                     MaxOf(cur.size, m.ty.size),
                     IF nth = 1 THEN ScalarsIn(placed, decl.members[1].of) ELSE cur.scalars)
  /\ UNCHANGED <<types, scalars, pc>> /\ Same

union_decl ==
  /\ Declaring({"union"}) /\ Through
  /\ LET size == align_to(cur.size, cur.align)
     IN  IF size > IntMax THEN Undefined ELSE Complete(RecordType(size), cur.scalars)
  /\ Same

Declare ==
  ArrayOf \/ struct_union_decl \/ PlaceInStruct \/ struct_decl \/ PlaceInUnion \/ union_decl

-------------------------------------------------------------------------------
(***************************************************************************)
(* The object, and stores to it: gen_expr of an assignment.  A bit-field   *)
(* is merged into its unit with masks, which are immediate operands: 32    *)
(* bits, and the highest of them again for those above.  (1L << 64) - 1 is *)
(* not defined: no bit or all.                                             *)
(***************************************************************************)
AllOnes(size) == 0 .. size * 8 - 1

Define ==
  /\ pc = "layout" /\ Len(types) = Len(text)
  /\ type' = types[Len(types)]
  /\ mem' \in {{}, AllOnes(type'.size)}
  /\ pc' = "ready"
  /\ UNCHANGED <<text, types, cur, stored, scalars>>

Immediate(bits) == {i \in Register : IF i < 32 THEN i \in bits ELSE 31 \in bits}
Ones(width) == IF width < 64 THEN {0 .. width - 1} ELSE {{}, Register}

\* Mutant: the old value of the field is not cleared.
Uncleared(old, ones, bit) == old
Cleared(old, ones, bit) == old \intersect Immediate(Register \ {i + bit : i \in ones})

\* Memory once register v is stored to place, with ones for the bits of a field.
Stored(place, v, ones) ==
  LET bit == place.at - place.unit
      old == {i \in 0 .. place.size - 1 : place.unit + i \in mem}
      new == IF place.field
               THEN Cleared(old, ones, bit) \union {i + bit : i \in v \intersect Immediate(ones)}
               ELSE v
  IN  (mem \ (place.unit .. place.unit + place.size - 1))
        \union {place.unit + i : i \in new \intersect (0 .. place.size - 1)}

Store ==
  /\ pc = "ready"
  /\ \E place \in scalars[Len(types)], v \in Written : \E ones \in Ones(place.width) :
       mem' = Stored(place, v, ones) /\ stored' = [place |-> place, v |-> v]
  /\ pc' = "stored"
  /\ UNCHANGED <<text, types, cur, type, scalars>>

LayoutStart ==
  /\ types = <<>> /\ scalars = <<>> /\ cur = Closed /\ pc = "layout" /\ type = Scalar(1)
  /\ mem = {} /\ stored = [place |-> Place(0, 0), v |-> {}]
LayoutInit == text \in Texts /\ LayoutStart
LayoutNext == Declare \/ Define \/ Store
LayoutSpec == LayoutInit /\ [][LayoutNext]_layout
================================================================================
