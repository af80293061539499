----------------------------- MODULE StandardLayout -----------------------------
(***************************************************************************)
(* What the x86-64 psABI says of the places of members, against which      *)
(* Layout is held: a member lies at the least place that is allowed.       *)
(***************************************************************************)
EXTENDS Layout

Unnamed(m) == IsBitfield(m) /\ NoName(m.name)

(***************************************************************************)
(* Departures: in a packed struct with bit-fields, a member behind a       *)
(* bit-field begins in its last byte; unnamed bit-fields count for the     *)
(* alignment; a union is never packed; and a bit-field that reaches bit 31 *)
(* of a unit of 64 is written with the wrong masks.                        *)
(***************************************************************************)
PackedBits(ty) == IsRecord(ty) /\ ty.packed /\ \E n \in DOMAIN ty.members : IsBitfield(ty.members[n])
UnnamedCount(ty) == \E n \in DOMAIN ty.members : Unnamed(ty.members[n])
PackedUnion(ty) == ty.k = "union" /\ ty.packed
MasksCut(place) == place.field /\ place.size > 32 /\ place.at + place.width - place.unit > 31

(***************************************************************************)
(* The first bit that member n can have: one behind the last member that   *)
(* has bits, in a unit of its own if there are bit-fields of width zero    *)
(* between them.                                                           *)
(***************************************************************************)
EndOf(m) == MemberAt(m, 0) + (IF IsBitfield(m) THEN m.bits ELSE m.ty.size * 8)

Largest(ns) == CHOOSE n \in ns : \A k \in ns : k <= n
Solid(members, n) == {k \in 1 .. n - 1 : members[k].bits # 0}
LastSolid(members, n) == IF Solid(members, n) = {} THEN 0 ELSE Largest(Solid(members, n))
Units(members, n) == {members[k].ty.size * 8 : k \in LastSolid(members, n) + 1 .. n - 1}
Bound(members, n) == IF LastSolid(members, n) = 0 THEN 0 ELSE EndOf(members[LastSolid(members, n)])

FirstFor(members, n) ==
  IF Units(members, n) = {} THEN Bound(members, n)
  ELSE align_to(Bound(members, n), Largest(Units(members, n)))

Allowed(m, packed, s) ==
  IF IsBitfield(m) THEN s \div (m.ty.size * 8) = (s + m.bits - 1) \div (m.ty.size * 8)
                   ELSE s % (IF packed THEN 8 ELSE m.align * 8) = 0

\* A member of a struct is at the first allowed place behind the one before.
AtFirstPlace(members, n, packed) ==
  LET m == members[n]
      at == MemberAt(m, 0)
  IN  m.bits # 0 =>
        /\ at >= FirstFor(members, n) /\ Allowed(m, packed, at)
        /\ \A s \in FirstFor(members, n) .. at - 1 : ~Allowed(m, packed, s)

\* The strictest alignment, and the least size for it.
Strictest(ty, aligned) ==
  LET asked == {aligned} \union
                 IF ty.packed THEN {}
                 ELSE {ty.members[n].align : n \in {n \in DOMAIN ty.members : ~Unnamed(ty.members[n])}}
  IN  ty.align \in asked /\ \A a \in asked : a <= ty.align
LeastSize(ty, bits) ==
  ty.size % ty.align = 0 /\ ty.size * 8 >= bits /\ (ty.size - ty.align) * 8 < bits

StructAsABI(ty, aligned) ==
  /\ \A n \in DOMAIN ty.members :
       /\ AtFirstPlace(ty.members, n, ty.packed)
       /\ ty.members[n].bits > 0 =>
            ty.members[n].offset + ty.members[n].ty.size <= ty.size
  /\ ~UnnamedCount(ty) => Strictest(ty, aligned)
  /\ LeastSize(ty, FirstFor(ty.members, Len(ty.members) + 1))

UnionAsABI(ty, aligned) ==
  /\ \A n \in DOMAIN ty.members : MemberAt(ty.members[n], 0) = 0
  /\ ~UnnamedCount(ty) => Strictest(ty, aligned)
  /\ ty.size % ty.align = 0
  /\ \A n \in DOMAIN ty.members : ty.members[n].ty.size <= ty.size
  /\ ty.members # <<>> => \E n \in DOMAIN ty.members : ty.size - ty.align < ty.members[n].ty.size

(***************************************************************************)
(* Every member of a struct is behind the one before it, at the first      *)
(* place the psABI allows; a bit-field lies in a unit of its type, which   *)
(* is in the struct; members of a union are at its start; the alignment is *)
(* the strictest of the members', and the size the least for it.           *)
(***************************************************************************)
LaidOutAsABI ==
  \A i \in DOMAIN types :
    /\ types[i].k = "struct" /\ ~PackedBits(types[i]) => StructAsABI(types[i], text[i].aligned)
    /\ types[i].k = "union" /\ ~PackedUnion(types[i]) => UnionAsABI(types[i], text[i].aligned)

\* A store gives a scalar of the object the value, and leaves every other scalar in it
\* as it was.
StoreKeepsOthers ==
  [][pc = "ready" /\ (\A i \in DOMAIN types : ~PackedBits(types[i])) /\ ~MasksCut(stored'.place) =>
       /\ \A p \in scalars[Len(types)] :
            p # stored'.place => BitsOf(p) \intersect mem' = BitsOf(p) \intersect mem
       /\ \A i \in 0 .. stored'.place.width - 1 : stored'.place.at + i \in mem' <=> i \in stored'.v]_layout
================================================================================
