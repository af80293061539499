------------------------------ MODULE LayoutProofs ------------------------------
(***************************************************************************)
(* Members lie where the psABI has them, and stores to scalars keep apart, *)
(* for every text, any alignments and any values.                          *)
(***************************************************************************)
EXTENDS StandardLayout, SequenceTheorems, WellFoundedInduction, TLAPS

(***************************************************************************)
(* Whole numbers: division has one quotient and rest, and align_to gives   *)
(* the least multiple that is not less.                                    *)
(***************************************************************************)
LEMMA DivMod ==
  ASSUME NEW n \in Int, NEW a \in Nat \ {0}
  PROVE n \div a \in Int /\ n % a \in 0 .. a - 1 /\ n = (n \div a) * a + (n % a)
  OBVIOUS

LEMMA Between ==
  ASSUME NEW a \in Nat \ {0}, NEW x \in Int, NEW y \in Int, x * a < (y + 1) * a
  PROVE x <= y
<1> SUFFICES ASSUME x >= y + 1 PROVE FALSE
  OBVIOUS
<1>1. PICK d \in Nat : x = (y + 1) + d
  OBVIOUS
<1>2. x * a = (y + 1) * a + d * a
  BY <1>1
<1>3. d * a >= 0
  OBVIOUS
<1> QED BY <1>2, <1>3

LEMMA DivUnique ==
  ASSUME NEW n \in Int, NEW a \in Nat \ {0}, NEW q \in Int, NEW r \in 0 .. a - 1, n = q * a + r
  PROVE n \div a = q /\ n % a = r
<1>1. n \div a \in Int /\ n % a \in 0 .. a - 1 /\ n = (n \div a) * a + (n % a)
  BY DivMod
<1>2. (n \div a) * a < (q + 1) * a
  BY <1>1
<1>3. q * a < ((n \div a) + 1) * a
  BY <1>1
<1>4. n \div a = q
  BY <1>1, <1>2, <1>3, Between
<1> QED BY <1>1, <1>4

LEMMA DivIn ==
  ASSUME NEW n \in Int, NEW a \in Nat \ {0}, NEW q \in Int, q * a <= n, n < q * a + a
  PROVE n \div a = q
<1>1. n - q * a \in 0 .. a - 1 /\ n = q * a + (n - q * a)
  OBVIOUS
<1> QED BY <1>1, DivUnique

LEMMA Multiple ==
  ASSUME NEW n \in Int, NEW a \in Nat \ {0}
  PROVE n % a = 0 <=> \E q \in Int : n = q * a
<1>1. ASSUME NEW q \in Int, n = q * a PROVE n % a = 0
  BY <1>1, DivUnique, 0 \in 0 .. a - 1, n = q * a + 0
<1>2. n % a = 0 => n = (n \div a) * a /\ n \div a \in Int
  BY DivMod
<1> QED BY <1>1, <1>2

LEMMA AlignTo ==
  ASSUME NEW n \in Nat, NEW a \in Nat \ {0}
  PROVE /\ align_to(n, a) \in Nat /\ n <= align_to(n, a) /\ align_to(n, a) < n + a
        /\ align_to(n, a) % a = 0
        /\ \A s \in Nat : n <= s /\ s % a = 0 => align_to(n, a) <= s
<1> DEFINE q == (n + a - 1) \div a
<1> DEFINE r == (n + a - 1) % a
<1>0. n + a - 1 \in Int
  OBVIOUS
<1>1. q \in Int /\ r \in 0 .. a - 1 /\ n + a - 1 = q * a + r
  BY <1>0, DivMod
<1>2. align_to(n, a) = q * a
  BY DEF align_to
<1> HIDE DEF q, r
<1>3. q * a >= n /\ q * a < n + a /\ q * a \in Int
  BY <1>1
<1>4. (q * a) % a = 0
  BY <1>1, <1>3, Multiple
<1>5. ASSUME NEW s \in Nat, n <= s, s % a = 0 PROVE q * a <= s
  <2>1. PICK p \in Int : s = p * a
    BY <1>5, Multiple
  <2>2. (q - 1) * a = q * a - a
    BY <1>1
  <2>3. (q - 1) * a < ((p - 1) + 1) * a
    BY <1>1, <1>3, <1>5, <2>1, <2>2
  <2>4. q - 1 <= p - 1
    BY <1>1, <2>3, Between
  <2>5. PICK d \in Nat : p = q + d
    BY <1>1, <2>4
  <2>6. p * a = q * a + d * a /\ d * a >= 0
    BY <1>1, <2>5
  <2> QED BY <1>3, <2>1, <2>6
<1> QED BY <1>2, <1>3, <1>4, <1>5

\* A number that is aligned stays as it is.
LEMMA Aligned ==
  ASSUME NEW n \in Nat, NEW a \in Nat \ {0}, n % a = 0
  PROVE align_to(n, a) = n
<1>1. /\ align_to(n, a) \in Nat /\ n <= align_to(n, a)
      /\ \A s \in Nat : n <= s /\ s % a = 0 => align_to(n, a) <= s
  BY AlignTo
<1>2. align_to(n, a) <= n
  BY <1>1
<1> QED BY <1>1, <1>2

LEMMA MultipleOfMultiple ==
  ASSUME NEW n \in Int, NEW a \in Nat \ {0}, NEW b \in Nat \ {0}, n % b = 0, b % a = 0
  PROVE n % a = 0
<1>1. PICK p \in Int : n = p * b
  BY Multiple
<1>2. PICK q \in Int : b = q * a
  BY Multiple
<1>3. n = (p * q) * a /\ p * q \in Int
  BY <1>1, <1>2
<1> QED BY <1>3, Multiple

\* Of two alignments in turn the greater counts.
LEMMA AlignTwice ==
  ASSUME NEW n \in Nat, NEW a \in Nat \ {0}, NEW b \in Nat \ {0},
         \/ a % b = 0 /\ b <= a
         \/ b % a = 0 /\ a <= b
  PROVE align_to(align_to(n, a), b) = align_to(n, IF a <= b THEN b ELSE a)
<1>1. /\ align_to(n, a) \in Nat /\ n <= align_to(n, a) /\ align_to(n, a) % a = 0
      /\ \A s \in Nat : n <= s /\ s % a = 0 => align_to(n, a) <= s
  BY AlignTo
<1>2. CASE a % b = 0 /\ b <= a
  <2>1. align_to(n, a) % b = 0
    BY <1>1, <1>2, MultipleOfMultiple
  <2>2. align_to(align_to(n, a), b) = align_to(n, a)
    BY <1>1, <2>1, Aligned
  <2>3. a = b \/ ~(a <= b)
    BY <1>2
  <2> QED BY <2>2, <2>3
<1>3. CASE b % a = 0 /\ a <= b
  <2>1. /\ align_to(n, b) \in Nat /\ n <= align_to(n, b) /\ align_to(n, b) % b = 0
        /\ \A s \in Nat : n <= s /\ s % b = 0 => align_to(n, b) <= s
    BY AlignTo
  <2>2. align_to(n, b) % a = 0
    BY <1>3, <2>1, MultipleOfMultiple
  <2>3. align_to(n, a) <= align_to(n, b)
    BY <1>1, <2>1, <2>2
  <2> DEFINE x == align_to(n, a)
  <2>4. /\ align_to(x, b) \in Nat /\ x <= align_to(x, b) /\ align_to(x, b) % b = 0
        /\ \A s \in Nat : x <= s /\ s % b = 0 => align_to(x, b) <= s
    BY <1>1, AlignTo
  <2> HIDE DEF x
  <2>5. n <= x /\ x \in Nat
    BY <1>1 DEF x
  <2>6. align_to(x, b) <= align_to(n, b)
    BY <2>1, <2>3, <2>4 DEF x
  <2>7. align_to(n, b) <= align_to(x, b)
    BY <2>1, <2>4, <2>5
  <2>8. align_to(x, b) = align_to(n, b)
    BY <2>1, <2>4, <2>6, <2>7
  <2> QED BY <1>3, <2>8 DEF x
<1> QED BY <1>2, <1>3

\* In two steps, to bytes and to units of some bytes.
LEMMA DivTwice ==
  ASSUME NEW n \in Nat, NEW size \in Nat \ {0}
  PROVE /\ n \div 8 \in Nat
        /\ align_down(n \div 8, size) \in Nat /\ align_down(n \div 8, size) % size = 0
        /\ align_down(n \div 8, size) * 8 + (n % (size * 8)) = n
        /\ n % (size * 8) \in 0 .. size * 8 - 1
<1> DEFINE u == size * 8
<1>0. u \in Nat \ {0}
  OBVIOUS
<1> DEFINE q == n \div u
<1> DEFINE r == n % u
<1> HIDE DEF u
<1>1. q \in Int /\ r \in 0 .. u - 1 /\ n = q * u + r
  BY <1>0, DivMod, n \in Int
<1> HIDE DEF q, r
<1> USE DEF u
<1>2. r \div 8 \in Int /\ r % 8 \in 0 .. 7 /\ r = (r \div 8) * 8 + (r % 8)
  BY <1>0, <1>1, DivMod
<1>3. r \div 8 \in 0 .. size - 1
  BY <1>0, <1>1, <1>2
<1>4. n = (q * size + (r \div 8)) * 8 + (r % 8)
  BY <1>1, <1>2
<1>5. n \div 8 = q * size + (r \div 8)
  BY <1>1, <1>2, <1>4, DivUnique, q * size + (r \div 8) \in Int
<1>6. (n \div 8) \div size = q
  BY <1>1, <1>3, <1>5, DivUnique, q * size + (r \div 8) \in Int
<1>7. q >= 0
  BY <1>0, <1>1, 0 * u < (q + 1) * u, Between
<1>8. align_down(n \div 8, size) = q * size
  <2>1. (n \div 8) - size + 1 + size - 1 = n \div 8
    BY <1>5, <1>1, <1>3
  <2> QED BY <2>1, <1>6 DEF align_down, align_to
<1>9. q * size \in Nat
  BY <1>1, <1>7
<1>10. (q * size) % size = 0
  BY <1>1, <1>9, Multiple
<1>11. n \div 8 \in Nat
  BY <1>3, <1>5, <1>9
<1>12. q * size * 8 + r = n
  BY <1>1
<1> QED BY <1>1, <1>8, <1>9, <1>10, <1>11, <1>12 DEF r

-------------------------------------------------------------------------------
(***************************************************************************)
(* The reference: how the first place for a member moves on.               *)
(***************************************************************************)
LEMMA Least ==
  ASSUME NEW S \in SUBSET Nat, S # {}
  PROVE \E x \in S : \A y \in S : x <= y
<1> DEFINE R == OpToRel(<, Nat)
<1>1. \A x, y \in Nat : y < x => <<y, x>> \in R
  BY DEF OpToRel
<1>2. IsWellFoundedOn(R, Nat)
  BY NatLessThanWellFounded DEF R
<1> HIDE DEF R
<1>3. PICK x \in S : \A y \in S : ~(<<y, x>> \in R)
  BY <1>2, WFMin, Zenon
<1>4. ASSUME NEW y \in S PROVE x <= y
  <2>1. x \in Nat /\ y \in Nat /\ ~(y < x)
    BY <1>1, <1>3
  <2> QED BY <2>1
<1> QED BY <1>4

LEMMA Greatest ==
  ASSUME NEW S \in SUBSET Nat, S # {}, NEW b \in Nat, \A x \in S : x <= b
  PROVE Largest(S) \in S /\ \A y \in S : y <= Largest(S)
<1> DEFINE D == {d \in Nat : b - d \in S}
<1>1. \A x \in S : b - x \in D
  BY b - 0 = b
<1>2. D \in SUBSET Nat /\ D # {}
  BY <1>1
<1>3. PICK d \in D : \A y \in D : d <= y
  BY <1>2, Least
<1>4. ASSUME NEW y \in S PROVE y <= b - d
  BY <1>1, <1>3
<1> QED BY <1>3, <1>4 DEF Largest

Sized(m) ==
  /\ m.bits \in Int /\ m.bits >= -1 /\ m.align \in Alignments
  /\ m.ty.size \in Nat
  /\ m.bits >= 0 => /\ m.ty.size \in Alignments /\ m.ty.size <= 8 /\ m.bits <= m.ty.size * 8
                    /\ m.align = m.ty.size
MemberOK(m) == Sized(m) /\ m.offset \in Nat /\ m.bit \in Nat

LEMMA EndType ==
  ASSUME NEW m, MemberOK(m)
  PROVE MemberAt(m, 0) \in Nat /\ EndOf(m) \in Nat
BY DEF MemberOK, Sized, MemberAt, EndOf, IsBitfield

LEMMA LastSolidIs ==
  ASSUME NEW members, NEW n \in Nat \ {0}
  PROVE /\ LastSolid(members, n) \in 0 .. n - 1
        /\ LastSolid(members, n) # 0 => members[LastSolid(members, n)].bits # 0
        /\ \A k \in LastSolid(members, n) + 1 .. n - 1 : members[k].bits = 0
<1> DEFINE S == Solid(members, n)
<1>1. S \in SUBSET Nat /\ \A x \in S : x <= n /\ x \in 1 .. n - 1 /\ members[x].bits # 0
  BY DEF Solid
<1>2. CASE S = {}
  <2>1. LastSolid(members, n) = 0
    BY <1>2 DEF LastSolid
  <2>2. \A k \in 1 .. n - 1 : members[k].bits = 0
    BY <1>2 DEF Solid
  <2> HIDE DEF S
  <2> QED BY <2>1, <2>2
<1>3. CASE S # {}
  <2>1. Largest(S) \in S /\ \A y \in S : y <= Largest(S)
    BY <1>1, <1>3, Greatest
  <2>2. LastSolid(members, n) = Largest(S)
    BY <1>3 DEF LastSolid
  <2>3. \A k \in 1 .. n - 1 : k \notin S => members[k].bits = 0
    BY DEF Solid
  <2> DEFINE l == Largest(S)
  <2> HIDE DEF S
  <2>4. l \in 1 .. n - 1 /\ members[l].bits # 0
    BY <1>1, <2>1
  <2>5. ASSUME NEW k \in l + 1 .. n - 1 PROVE members[k].bits = 0
    <3>1. k \notin S
      BY <2>1, <2>4, <2>5
    <3> QED BY <2>3, <2>4, <3>1
  <2> HIDE DEF l
  <2> QED BY <2>2, <2>4, <2>5 DEF l
<1> QED BY <1>2, <1>3

LEMMA FirstForSame ==
  ASSUME NEW members, NEW others, NEW n \in Nat \ {0}, \A k \in 1 .. n - 1 : members[k] = others[k]
  PROVE FirstFor(members, n) = FirstFor(others, n)
<1>1. Solid(members, n) = Solid(others, n)
  BY DEF Solid
<1>2. LastSolid(members, n) = LastSolid(others, n)
  BY <1>1 DEF LastSolid
<1>3. LastSolid(others, n) \in 0 .. n - 1
  BY LastSolidIs
<1>4. Units(members, n) = Units(others, n)
  BY <1>2, <1>3 DEF Units
<1>5. Bound(members, n) = Bound(others, n)
  BY <1>2, <1>3 DEF Bound
<1> QED BY <1>4, <1>5 DEF FirstFor

\* Behind a member that has bits.
LEMMA FirstForSolid ==
  ASSUME NEW members, NEW k \in Nat \ {0}, members[k].bits # 0
  PROVE FirstFor(members, k + 1) = EndOf(members[k])
<1>1. LastSolid(members, k + 1) = k
  BY LastSolidIs, k + 1 \in Nat \ {0}
<1>2. Units(members, k + 1) = {}
  BY <1>1 DEF Units
<1> QED BY <1>1, <1>2 DEF FirstFor, Bound

LEMMA UnitsType ==
  ASSUME NEW members, NEW n \in Nat \ {0}, \A k \in 1 .. n - 1 : MemberOK(members[k])
  PROVE /\ Bound(members, n) \in Nat
        /\ Units(members, n) \in SUBSET {8 * a : a \in Alignments}
        /\ Units(members, n) \in SUBSET (Nat \ {0})
        /\ Units(members, n) # {} =>
              /\ Largest(Units(members, n)) \in Units(members, n)
              /\ \A u \in Units(members, n) : u <= Largest(Units(members, n))
        /\ FirstFor(members, n) \in Nat
<1>1. /\ LastSolid(members, n) \in 0 .. n - 1
      /\ \A k \in LastSolid(members, n) + 1 .. n - 1 : members[k].bits = 0
  BY LastSolidIs
<1>2. Bound(members, n) \in Nat
  BY <1>1, EndType DEF Bound
<1>3. \A k \in LastSolid(members, n) + 1 .. n - 1 :
        members[k].ty.size \in Alignments /\ members[k].ty.size <= 8
  BY <1>1 DEF MemberOK, Sized
<1>4. Alignments \subseteq Nat \ {0}
  BY LayoutAssumption
<1>5. Units(members, n) \in SUBSET {8 * a : a \in Alignments}
  <2> SUFFICES ASSUME NEW k \in LastSolid(members, n) + 1 .. n - 1
               PROVE members[k].ty.size * 8 \in {8 * a : a \in Alignments}
    BY DEF Units
  <2>1. members[k].ty.size \in Alignments
    BY <1>3
  <2>2. \A a \in Alignments : a * 8 \in {8 * b : b \in Alignments}
    BY <1>4
  <2> QED BY <2>1, <2>2
<1>6. Units(members, n) \in SUBSET (Nat \ {0}) /\ \A u \in Units(members, n) : u <= 64
  <2> SUFFICES ASSUME NEW k \in LastSolid(members, n) + 1 .. n - 1
               PROVE members[k].ty.size * 8 \in Nat \ {0} /\ members[k].ty.size * 8 <= 64
    BY DEF Units
  <2>1. members[k].ty.size \in Nat \ {0} /\ members[k].ty.size <= 8
    BY <1>3, <1>4
  <2> QED BY <2>1
<1>7. Units(members, n) # {} =>
              /\ Largest(Units(members, n)) \in Units(members, n)
              /\ \A u \in Units(members, n) : u <= Largest(Units(members, n))
  BY <1>6, Greatest
<1>8. FirstFor(members, n) \in Nat
  BY <1>2, <1>6, <1>7, AlignTo DEF FirstFor
<1> QED BY <1>2, <1>5, <1>6, <1>7, <1>8

LEMMA Chain ==
  ASSUME NEW a \in Alignments, NEW b \in Alignments, a <= b
  PROVE b % a = 0 /\ (8 * b) % (8 * a) = 0 /\ a \in Nat \ {0} /\ b \in Nat \ {0}
<1>1. b % a = 0 /\ a \in Nat \ {0} /\ b \in Nat \ {0}
  BY LayoutAssumption
<1>2. PICK q \in Int : b = q * a
  BY <1>1, Multiple
<1>3. 8 * b = q * (8 * a)
  BY <1>1, <1>2
<1> QED BY <1>1, <1>3, Multiple, 8 * a \in Nat \ {0}, 8 * b \in Int

\* Behind a bit-field of width zero.
LEMMA FirstForZero ==
  ASSUME NEW members, NEW k \in Nat \ {0}, members[k].bits = 0,
         \A j \in 1 .. k : MemberOK(members[j])
  PROVE FirstFor(members, k + 1) = align_to(FirstFor(members, k), members[k].ty.size * 8)
<1> DEFINE u == members[k].ty.size * 8
<1> DEFINE U == Units(members, k)
<1> DEFINE V == Units(members, k + 1)
<1> DEFINE b == Bound(members, k)
<1>1. Solid(members, k + 1) = Solid(members, k)
  BY DEF Solid
<1>2. LastSolid(members, k + 1) = LastSolid(members, k) /\ LastSolid(members, k) \in 0 .. k - 1
  BY <1>1, LastSolidIs DEF LastSolid
<1>3. V = U \union {u}
  BY <1>2 DEF Units
<1>4. Bound(members, k + 1) = b
  BY <1>2 DEF Bound
<1>5. /\ b \in Nat /\ U \in SUBSET {8 * a : a \in Alignments} /\ U \in SUBSET (Nat \ {0})
      /\ U # {} => Largest(U) \in U /\ \A w \in U : w <= Largest(U)
  BY UnitsType
<1>6. /\ V \in SUBSET {8 * a : a \in Alignments} /\ V \in SUBSET (Nat \ {0})
      /\ V # {} => Largest(V) \in V /\ \A w \in V : w <= Largest(V)
  BY UnitsType, k + 1 \in Nat \ {0}
<1>7. FirstFor(members, k + 1) = align_to(b, Largest(V))
  BY <1>3, <1>4 DEF FirstFor
<1> HIDE DEF U, V, b, u
<1>8. u \in Nat \ {0}
  BY <1>3, <1>6
<1>9. CASE U = {}
  <2>1. Largest(V) = u
    BY <1>3, <1>6, <1>9
  <2>2. FirstFor(members, k) = b
    BY <1>9 DEF FirstFor, U, b
  <2> QED BY <1>7, <2>1, <2>2 DEF u
<1>10. CASE U # {}
  <2> DEFINE l == Largest(U)
  <2>1. FirstFor(members, k) = align_to(b, l)
    BY <1>10 DEF FirstFor, U, b
  <2>2. l \in U /\ \A w \in U : w <= l
    BY <1>5, <1>10
  <2> HIDE DEF l
  <2>3. Largest(V) = IF l <= u THEN u ELSE l
    <3>1. Largest(V) \in U \union {u} /\ l <= Largest(V) /\ u <= Largest(V)
      BY <1>3, <1>6, <2>2
    <3>2. Largest(V) \in Nat /\ l \in Nat
      BY <1>3, <1>5, <1>6, <2>2
    <3>3. Largest(V) <= l \/ Largest(V) = u
      BY <2>2, <3>1
    <3> QED BY <1>8, <3>1, <3>2, <3>3
  <2>4. PICK c, d \in Alignments : l = 8 * c /\ u = 8 * d
    BY <1>3, <1>5, <1>6, <2>2
  <2>5. c \in Nat \ {0} /\ d \in Nat \ {0}
    BY LayoutAssumption
  <2>6. \/ l % u = 0 /\ u <= l
        \/ u % l = 0 /\ l <= u
    BY <2>4, <2>5, Chain
  <2>7. align_to(align_to(b, l), u) = align_to(b, IF l <= u THEN u ELSE l)
    BY <1>5, <1>8, <2>2, <2>6, AlignTwice
  <2> QED BY <1>7, <2>1, <2>3, <2>7 DEF u
<1> QED BY <1>9, <1>10

-------------------------------------------------------------------------------
(***************************************************************************)
(* Where struct_decl puts one member.                                      *)
(***************************************************************************)
\* A bit-field that would lie across two units begins in the next one.
LEMMA FieldStart ==
  ASSUME NEW bits \in Nat, NEW u \in Nat \ {0}, NEW w \in Nat \ {0}, w <= u,
         NEW start, NeedsUnit(bits, u, w) => start = align_to(bits, u),
         ~NeedsUnit(bits, u, w) => start = bits
  PROVE /\ start \in Nat /\ bits <= start
        /\ ~NeedsUnit(start, u, w)
        /\ (start % u) + w <= u
        /\ \A s \in Nat : bits <= s /\ s < start => NeedsUnit(s, u, w)
<1>1. CASE ~NeedsUnit(bits, u, w)
  <2>1. start = bits /\ start \in Int /\ start + w - 1 \in Int /\ start \div u = (start + w - 1) \div u
    BY <1>1 DEF NeedsUnit
  <2>2. start % u \in 0 .. u - 1 /\ start = (start \div u) * u + (start % u) /\ start \div u \in Int
    BY <2>1, DivMod
  <2>3. /\ (start + w - 1) % u \in 0 .. u - 1
        /\ start + w - 1 = ((start + w - 1) \div u) * u + ((start + w - 1) % u)
    BY <2>1, DivMod
  <2>4. start + w - 1 = (start \div u) * u + ((start + w - 1) % u)
    BY <2>1, <2>3
  <2> DEFINE x == (start \div u) * u
  <2> DEFINE r == start % u
  <2> DEFINE t == (start + w - 1) % u
  <2>5. x \in Int /\ r \in 0 .. u - 1 /\ t \in 0 .. u - 1 /\ start = x + r /\ start + w - 1 = x + t
    BY <2>2, <2>3, <2>4
  <2> HIDE DEF x, r, t
  <2>6. r + w <= u
    BY <2>1, <2>5
  <2>7. \A s \in Nat : ~(bits <= s /\ s < start)
    BY <2>1
  <2> QED BY <1>1, <2>1, <2>6, <2>7 DEF r
<1>2. CASE NeedsUnit(bits, u, w)
  <2>1. /\ start \in Nat /\ bits <= start /\ start < bits + u /\ start % u = 0
    BY <1>2, AlignTo
  <2>2. PICK q \in Int : start = q * u
    BY <2>1, Multiple, start \in Int
  <2>3. start \div u = q /\ (start + w - 1) \div u = q
    <3>1. start = q * u + 0 /\ 0 \in 0 .. u - 1 /\ start \in Int
      BY <2>1, <2>2
    <3>2. start + w - 1 = q * u + (w - 1) /\ w - 1 \in 0 .. u - 1 /\ start + w - 1 \in Int
      BY <2>1, <2>2
    <3> QED BY <3>1, <3>2, DivUnique
  <2>4. ASSUME NEW s \in Nat, bits <= s, s < start, ~NeedsUnit(s, u, w) PROVE FALSE
    <3> DEFINE p == (q - 1) * u
    <3>1. p = start - u /\ q - 1 \in Int /\ p \in Int
      BY <2>1, <2>2
    <3> HIDE DEF p
    <3>2. p <= bits /\ bits < p + u /\ p <= s /\ s < p + u /\ s \in Int /\ s + w - 1 \in Int
      <4>1. bits <= s /\ s < start /\ s \in Int
        BY <2>1, <2>4
      <4> QED BY <2>1, <3>1, <4>1
    <3>3. bits \div u = q - 1 /\ s \div u = q - 1
      BY <3>1, <3>2, DivIn, bits \in Int DEF p
    <3>4. s + w - 1 < p + u
      <4>1. /\ (s + w - 1) % u \in 0 .. u - 1
            /\ s + w - 1 = ((s + w - 1) \div u) * u + ((s + w - 1) % u)
        BY <3>2, DivMod
      <4>2. s + w - 1 = p + ((s + w - 1) % u)
        BY <2>4, <3>3, <4>1 DEF p, NeedsUnit
      <4> QED BY <3>1, <3>2, <4>1, <4>2
    <3>5. p <= bits + w - 1 /\ bits + w - 1 < p + u /\ bits + w - 1 \in Int
      BY <2>4, <3>1, <3>2, <3>4
    <3>6. (bits + w - 1) \div u = q - 1
      BY <3>1, <3>5, DivIn DEF p
    <3> QED BY <1>2, <3>3, <3>6 DEF NeedsUnit
  <2>5. ~NeedsUnit(start, u, w)
    BY <2>3 DEF NeedsUnit
  <2>6. (start % u) + w <= u
    BY <2>1
  <2> QED BY <2>1, <2>4, <2>5, <2>6
<1> QED BY <1>1, <1>2

\* A bit-field does not fit anywhere before.
NoneBefore(m, bits, at) == \A s \in Nat : bits <= s /\ s < at => NeedsUnit(s, m.ty.size * 8, m.bits)

StartOf(place) == place.offset * 8 + place.bit

LEMMA FieldPlaced ==
  ASSUME NEW m, Sized(m), m.bits > 0, NEW bits \in Nat, NEW packed \in BOOLEAN,
         NEW place, place = PlaceMember(m, bits, packed)
  PROVE /\ place.offset \in Nat /\ place.bit \in Nat /\ StartOf(place) \in Nat
        /\ bits <= StartOf(place) /\ place.bits = StartOf(place) + m.bits
        /\ place.offset % m.ty.size = 0 /\ place.bit + m.bits <= m.ty.size * 8
        /\ ~NeedsUnit(StartOf(place), m.ty.size * 8, m.bits) /\ NoneBefore(m, bits, StartOf(place))
<1> DEFINE size == m.ty.size
<1> DEFINE w == m.bits
<1> DEFINE start == IF NeedsUnit(bits, size * 8, w) THEN align_to(bits, size * 8) ELSE bits
<1>1. /\ size \in Nat \ {0} /\ size * 8 \in Nat \ {0}
      /\ w \in Nat \ {0} /\ w <= size * 8
  BY LayoutAssumption DEF Sized
<1>2. /\ place.offset = align_down(start \div 8, size)
      /\ place.bit = start % (size * 8) /\ place.bits = start + w
  BY DEF PlaceMember
<1> HIDE DEF start
<1> HIDE DEF size, w
<1>3. /\ start \in Nat /\ bits <= start
      /\ ~NeedsUnit(start, size * 8, w)
      /\ (start % (size * 8)) + w <= size * 8
      /\ \A s \in Nat : bits <= s /\ s < start => NeedsUnit(s, size * 8, w)
  <2> DEFINE u == size * 8
  <2> HIDE DEF u
  <2>1. u \in Nat \ {0} /\ w \in Nat \ {0} /\ w <= u
    BY <1>1 DEF u
  <2>2. /\ NeedsUnit(bits, u, w) => start = align_to(bits, u)
        /\ ~NeedsUnit(bits, u, w) => start = bits
    BY DEF start, u, size, w
  <2>3. /\ start \in Nat /\ bits <= start
        /\ ~NeedsUnit(start, u, w)
        /\ (start % u) + w <= u
        /\ \A s \in Nat : bits <= s /\ s < start => NeedsUnit(s, u, w)
    BY <2>1, <2>2, FieldStart
  <2> QED BY <2>3 DEF u
<1>4. /\ align_down(start \div 8, size) \in Nat /\ align_down(start \div 8, size) % size = 0
      /\ align_down(start \div 8, size) * 8 + (start % (size * 8)) = start
      /\ start % (size * 8) \in 0 .. size * 8 - 1
  BY <1>1, <1>3, DivTwice
<1>5. StartOf(place) = start
  BY <1>2, <1>4 DEF StartOf
<1>6. place.bit \in Nat
  BY <1>1, <1>2, <1>4
<1> QED BY <1>2, <1>3, <1>4, <1>5, <1>6 DEF size, w, NoneBefore

LEMMA ZeroPlaced ==
  ASSUME NEW m, Sized(m), m.bits = 0, NEW bits \in Nat, NEW packed \in BOOLEAN,
         NEW place, place = PlaceMember(m, bits, packed)
  PROVE /\ place.offset = 0 /\ place.bit = 0
        /\ place.bits = align_to(bits, m.ty.size * 8) /\ place.bits \in Nat /\ bits <= place.bits
<1>1. m.ty.size * 8 \in Nat \ {0}
  BY LayoutAssumption DEF Sized
<1>2. place = [offset |-> 0, bit |-> 0, bits |-> align_to(bits, m.ty.size * 8)]
  BY DEF PlaceMember
<1>3. align_to(bits, m.ty.size * 8) \in Nat /\ bits <= align_to(bits, m.ty.size * 8)
  BY <1>1, AlignTo
<1> QED BY <1>2, <1>3

\* A member that is no bit-field.
LEMMA PlainPlaced ==
  ASSUME NEW m, Sized(m), m.bits < 0, NEW bits \in Nat, NEW packed \in BOOLEAN,
         NEW place, place = PlaceMember(m, bits, packed),
         NEW a, a = IF packed THEN 8 ELSE m.align * 8
  PROVE /\ place.offset \in Nat /\ place.bit = 0 /\ place.bits \in Nat
        /\ bits <= place.bits /\ place.offset * 8 + m.ty.size * 8 <= place.bits
        /\ packed /\ bits % 8 = 0 => place.bits % 8 = 0
        /\ ~packed \/ bits % 8 = 0 =>
             /\ bits <= place.offset * 8 /\ place.bits = place.offset * 8 + m.ty.size * 8
             /\ (place.offset * 8) % a = 0
             /\ \A s \in bits .. place.offset * 8 - 1 : s % a # 0
<1> DEFINE start == IF packed THEN bits ELSE align_to(bits, m.align * 8)
<1> DEFINE size == m.ty.size
<1>1. /\ size \in Nat /\ m.align \in Nat \ {0} /\ m.align * 8 \in Nat \ {0}
      /\ m.bits \in Int
  BY LayoutAssumption DEF Sized
<1>2. place = [offset |-> start \div 8, bit |-> 0, bits |-> start + size * 8]
  BY <1>1 DEF PlaceMember
<1>3. ~packed => /\ start \in Nat /\ bits <= start /\ start % (m.align * 8) = 0
                 /\ \A s \in Nat : bits <= s /\ s % (m.align * 8) = 0 => start <= s
  BY <1>1, AlignTo
<1>4. start \in Nat /\ bits <= start
  BY <1>3
<1>5. ~packed => start % 8 = 0
  <2>1. (m.align * 8) % 8 = 0
    BY <1>1, Multiple
  <2> QED BY <1>1, <1>3, <1>4, <2>1, MultipleOfMultiple
<1>6. packed => start = bits
  OBVIOUS
<1> HIDE DEF start, size
<1>7. /\ start \div 8 \in Int /\ start % 8 \in 0 .. 7 /\ start = (start \div 8) * 8 + (start % 8)
  BY <1>4, DivMod
<1>8. start \div 8 \in Nat /\ (start \div 8) * 8 <= start
  BY <1>4, <1>7
<1>9. ASSUME ~packed \/ bits % 8 = 0
      PROVE /\ (start \div 8) * 8 = start /\ start % a = 0
            /\ \A s \in bits .. start - 1 : s % a # 0
  <2>1. start % 8 = 0
    BY <1>5, <1>6, <1>9
  <2>2. (start \div 8) * 8 = start
    BY <1>7, <2>1
  <2>3. CASE packed
    BY <1>6, <2>1, <2>2, <2>3, <1>4
  <2>4. CASE ~packed
    <3>1. a = m.align * 8
      BY <2>4
    <3>2. ASSUME NEW s \in bits .. start - 1, s % a = 0 PROVE FALSE
      <4>1. s \in Nat /\ bits <= s /\ ~(start <= s)
        BY <1>4, <3>2
      <4> QED BY <1>3, <2>4, <3>1, <3>2, <4>1
    <3> QED BY <1>3, <2>2, <2>4, <3>1, <3>2
  <2> QED BY <2>3, <2>4
<1>10. ASSUME packed, bits % 8 = 0 PROVE (start + size * 8) % 8 = 0
  <2>1. start = (start \div 8) * 8
    BY <1>9, <1>10
  <2>2. start + size * 8 = ((start \div 8) + size) * 8 /\ (start \div 8) + size \in Int
    BY <1>1, <1>7, <2>1 DEF size
  <2> QED BY <1>4, <1>1, <2>2, Multiple, start + size * 8 \in Int DEF size
<1>11. /\ place.offset = start \div 8 /\ place.bit = 0 /\ place.bits = start + size * 8
  BY <1>2
<1>12. size * 8 \in Nat
  BY <1>1
<1> QED BY <1>4, <1>8, <1>9, <1>10, <1>11, <1>12 DEF size

-------------------------------------------------------------------------------
(***************************************************************************)
(* The invariant.  Of a type that is complete: it lies as the psABI says,  *)
(* and its scalars lie in it, apart unless a packed struct with bit-fields *)
(* is among the types.  Of the record that is open: the bits in use end    *)
(* where the next member may begin, and so on for the members so far.      *)
(***************************************************************************)
IsSeq(s) == Len(s) \in Nat /\ s = [n \in 1 .. Len(s) |-> s[n]]

PlaceOK(p, bits) ==
  /\ p.at \in Nat /\ p.width \in Nat \ {0} /\ p.field \in BOOLEAN /\ p.unit \in Nat /\ p.size \in Nat
  /\ p.at + p.width <= bits
  /\ p.unit <= p.at /\ p.at + p.width <= p.unit + p.size
  /\ IF p.field THEN p.size <= 64 ELSE p.unit = p.at /\ p.size = p.width
Before(p, q) == p.at + p.width <= q.at
Apart(places) == \A p, q \in places : p # q => Before(p, q) \/ Before(q, p)
PlacesOK(places, bits, fine) == (\A p \in places : PlaceOK(p, bits)) /\ (fine => Apart(places))

Fine(tys, n) == \A i \in 1 .. n : ~PackedBits(tys[i])

AsABI(ty, aligned) ==
  /\ ty.k = "struct" /\ ~PackedBits(ty) => StructAsABI(ty, aligned)
  /\ ty.k = "union" /\ ~PackedUnion(ty) => UnionAsABI(ty, aligned)
TypeOK(ty, d) ==
  /\ ty.k = d.k /\ ty.align \in Alignments /\ ty.size \in Int
  /\ d.k = "array" => ty.base.size \in Nat /\ ty.size = ty.base.size * d.len
  /\ (d.k = "array" => d.len >= 0) => ty.size \in Nat
  /\ IsRecord(ty) => AsABI(ty, d.aligned)

MembersOK(members) == IsSeq(members) /\ \A n \in 1 .. Len(members) : MemberOK(members[n])
AlignmentOK(c, aligned, packed) ==
  LET asked == {aligned} \union (IF packed THEN {} ELSE {c.members[n].align : n \in 1 .. Len(c.members)})
  IN  c.align \in asked /\ \A a \in asked : a <= c.align
PackedFields(members, packed) == packed /\ \E n \in 1 .. Len(members) : IsBitfield(members[n])

OpenOK(c) ==
  /\ MembersOK(c.members) /\ c.align \in Alignments

StructOpen(c, d, fine) ==
  /\ OpenOK(c) /\ AlignmentOK(c, d.aligned, d.packed)
  /\ c.bits \in Nat
  /\ \A n \in 1 .. Len(c.members) : c.members[n].bits > 0 =>
       c.members[n].offset % c.members[n].ty.size = 0 /\ c.members[n].offset * 8 < c.bits
  /\ ~PackedFields(c.members, d.packed) =>
       /\ c.bits = FirstFor(c.members, Len(c.members) + 1)
       /\ \A n \in 1 .. Len(c.members) : AtFirstPlace(c.members, n, d.packed)
       /\ d.packed => c.bits % 8 = 0
  /\ PlacesOK(c.scalars, c.bits, fine /\ ~PackedFields(c.members, d.packed))

UnionOpen(c, d, fine) ==
  /\ OpenOK(c) /\ AlignmentOK(c, d.aligned, FALSE)
  /\ c.size \in Nat
  /\ \A n \in 1 .. Len(c.members) :
       /\ c.members[n].offset = 0 /\ c.members[n].bit = 0
       /\ c.members[n].ty.size <= c.size
  /\ IF Len(c.members) = 0 THEN c.size = 0 /\ c.scalars = {}
     ELSE \E n \in 1 .. Len(c.members) : c.members[n].ty.size = c.size
  /\ PlacesOK(c.scalars, c.size * 8, fine)

TypesInv ==
  /\ text \in Texts
  /\ IsSeq(types) /\ IsSeq(scalars) /\ Len(scalars) = Len(types) /\ Len(types) <= Len(text)
  /\ \A i \in 1 .. Len(types) :
       TypeOK(types[i], text[i]) /\ PlacesOK(scalars[i], types[i].size * 8, Fine(types, i))
CurInv ==
  cur # Closed =>
    /\ Len(types) < Len(text) /\ IsRecord(decl) /\ Len(cur.members) <= Len(decl.members)
    /\ decl.k = "struct" => StructOpen(cur, decl, Fine(types, Len(types)))
    /\ decl.k = "union" => UnionOpen(cur, decl, Fine(types, Len(types)))
Inv == TypesInv /\ CurInv /\ (pc \in {"ready", "stored"} => Len(types) = Len(text))

-------------------------------------------------------------------------------
(***************************************************************************)
(* Sequences and sets of places.                                           *)
(***************************************************************************)
LEMMA AppendAny ==
  ASSUME NEW s, IsSeq(s), NEW e
  PROVE /\ IsSeq(Append(s, e)) /\ Len(Append(s, e)) = Len(s) + 1
        /\ Append(s, e)[Len(s) + 1] = e
        /\ \A n \in 1 .. Len(s) : Append(s, e)[n] = s[n]
<1> DEFINE S == {s[n] : n \in 1 .. Len(s)} \union {e}
<1>1. s \in Seq(S)
  <2>1. Len(s) \in Nat /\ s = [n \in 1 .. Len(s) |-> s[n]]
    BY DEF IsSeq
  <2>2. s \in [1 .. Len(s) -> S]
    BY <2>1
  <2> QED BY <2>1, <2>2, IsASeq
<1>2. /\ Append(s, e) \in Seq(S) /\ Len(Append(s, e)) = Len(s) + 1
      /\ \A i \in 1 .. Len(s) : Append(s, e)[i] = s[i]
      /\ Append(s, e)[Len(s) + 1] = e
  BY <1>1, AppendProperties, e \in S
<1> HIDE DEF S
<1>3. /\ Len(Append(s, e)) \in Nat
      /\ Append(s, e) \in [1 .. Len(Append(s, e)) -> S]
  BY <1>2, LenProperties
<1>4. IsSeq(Append(s, e))
  BY <1>3 DEF IsSeq
<1> QED BY <1>2, <1>4

LEMMA EmptyIsSeq == IsSeq(<<>>) /\ Len(<<>>) = 0
BY DEF IsSeq

\* Places move with what they are in, and stay apart.
LEMMA ShiftedOK ==
  ASSUME NEW places, NEW bits \in Int, NEW fine \in BOOLEAN, PlacesOK(places, bits, fine), NEW by \in Nat
  PROVE /\ PlacesOK({Shifted(p, by) : p \in places}, by + bits, fine)
        /\ \A q \in {Shifted(p, by) : p \in places} : by <= q.at
<1>1. ASSUME NEW p \in places
      PROVE /\ Shifted(p, by) = [at |-> p.at + by, width |-> p.width, field |-> p.field,
                                 unit |-> p.unit + by, size |-> p.size]
            /\ PlaceOK(p, bits)
  <2>1. PlaceOK(p, bits)
    BY DEF PlacesOK
  <2> QED BY <2>1 DEF Shifted
<1>2. ASSUME NEW p \in places PROVE PlaceOK(Shifted(p, by), by + bits) /\ by <= Shifted(p, by).at
  BY <1>1 DEF PlaceOK
<1>3. ASSUME fine, NEW p \in places, NEW q \in places, Shifted(p, by) # Shifted(q, by)
      PROVE Before(Shifted(p, by), Shifted(q, by)) \/ Before(Shifted(q, by), Shifted(p, by))
  <2>1. p # q
    BY <1>3
  <2>2. Before(p, q) \/ Before(q, p)
    BY <1>3, <2>1 DEF PlacesOK, Apart
  <2> QED BY <1>1, <2>2 DEF Before, PlaceOK
<1> QED BY <1>2, <1>3 DEF PlacesOK, Apart

LEMMA Wider ==
  ASSUME NEW places, NEW bits \in Int, NEW more \in Int, bits <= more, NEW fine \in BOOLEAN,
         NEW less \in BOOLEAN, less => fine, PlacesOK(places, bits, fine)
  PROVE PlacesOK(places, more, less)
<1>1. \A p \in places : PlaceOK(p, more)
  BY DEF PlacesOK, PlaceOK
<1> QED BY <1>1 DEF PlacesOK

\* More places, behind those there are.
LEMMA Behind ==
  ASSUME NEW places, NEW more, NEW bits \in Int, NEW upto \in Int, bits <= upto, NEW fine \in BOOLEAN,
         PlacesOK(places, bits, fine), PlacesOK(more, upto, fine),
         fine => \A q \in more : bits <= q.at
  PROVE PlacesOK(places \union more, upto, fine)
<1>1. PlacesOK(places, upto, fine)
  BY Wider
<1>2. ASSUME fine, NEW p \in places, NEW q \in more PROVE Before(p, q)
  <2>1. PlaceOK(p, bits) /\ PlaceOK(q, upto) /\ bits <= q.at
    BY <1>2 DEF PlacesOK
  <2> QED BY <2>1 DEF PlaceOK, Before
<1> QED BY <1>1, <1>2 DEF PlacesOK, Apart

\* The elements of an array.
Elements(places, size, len) == UNION {{Shifted(p, n * size * 8) : p \in places} : n \in 0 .. len - 1}

LEMMA ElementsOK ==
  ASSUME NEW places, NEW size \in Nat, NEW len \in Int, NEW fine \in BOOLEAN,
         PlacesOK(places, size * 8, fine)
  PROVE PlacesOK(Elements(places, size, len), size * len * 8, fine)
<1> DEFINE At(n) == {Shifted(p, n * size * 8) : p \in places}
<1>1. ASSUME NEW n \in 0 .. len - 1
      PROVE /\ n * size * 8 \in Nat /\ n * size * 8 + size * 8 = (n + 1) * size * 8
            /\ PlacesOK(At(n), n * size * 8 + size * 8, fine)
            /\ \A q \in At(n) : n * size * 8 <= q.at
  <2>1. n * size * 8 \in Nat /\ n * size * 8 + size * 8 = (n + 1) * size * 8
    BY n \in Nat
  <2> QED BY <2>1, ShiftedOK, size * 8 \in Int
<1>2. ASSUME NEW n \in 0 .. len - 1, NEW m \in Int, n < m PROVE (n + 1) * size * 8 <= m * size * 8
  <2>1. PICK d \in Nat : m = n + 1 + d
    BY <1>2
  <2>2. m * size * 8 = (n + 1) * size * 8 + d * size * 8 /\ d * size * 8 \in Nat
    BY <2>1
  <2>3. (n + 1) * size * 8 \in Int
    OBVIOUS
  <2> QED BY <2>2, <2>3
<1>3. size * len * 8 = len * size * 8 /\ size * len * 8 \in Int
  OBVIOUS
<1> HIDE DEF At
<1>4. ASSUME NEW n \in 0 .. len - 1 PROVE \A p \in At(n) : PlaceOK(p, size * len * 8)
  <2>1. n * size * 8 + size * 8 <= size * len * 8 /\ n * size * 8 + size * 8 \in Int
    BY <1>1, <1>2, <1>3
  <2>2. PlacesOK(At(n), size * len * 8, fine)
    BY <1>1, <1>3, <2>1, Wider
  <2> QED BY <2>2 DEF PlacesOK
<1>5. ASSUME fine, NEW n \in 0 .. len - 1, NEW m \in 0 .. len - 1,
             NEW p \in At(n), NEW q \in At(m), n < m
      PROVE Before(p, q)
  <2>1. n * size * 8 + size * 8 <= m * size * 8 /\ m * size * 8 \in Int
    BY <1>1, <1>2, <1>5
  <2>2. PlaceOK(p, n * size * 8 + size * 8) /\ PlaceOK(q, m * size * 8 + size * 8) /\ m * size * 8 <= q.at
    BY <1>1 DEF PlacesOK
  <2>3. p.at + p.width <= n * size * 8 + size * 8 /\ p.at + p.width \in Int /\ q.at \in Int
    BY <2>2 DEF PlaceOK
  <2>4. n * size * 8 + size * 8 \in Int
    BY <1>1
  <2> QED BY <2>1, <2>2, <2>3, <2>4 DEF Before
<1>6. ASSUME fine, NEW n \in 0 .. len - 1, NEW m \in 0 .. len - 1,
             NEW p \in At(n), NEW q \in At(m), p # q
      PROVE Before(p, q) \/ Before(q, p)
  <2>1. CASE n < m
    BY <1>5, <1>6, <2>1
  <2>2. CASE m < n
    BY <1>5, <1>6, <2>2
  <2>3. CASE n = m
    BY <1>1, <1>6, <2>3 DEF PlacesOK, Apart
  <2> QED BY <2>1, <2>2, <2>3
<1> DEFINE all == UNION {At(n) : n \in 0 .. len - 1}
<1>7. PlacesOK(all, size * len * 8, fine)
  BY <1>4, <1>6 DEF PlacesOK, Apart
<1> QED BY <1>7 DEF At, Elements

-------------------------------------------------------------------------------
(***************************************************************************)
(* A member is added to the record that is open.                           *)
(***************************************************************************)
InPlace(e, inner) ==
  IF IsBitfield(e) THEN IF NoName(e.name) THEN {} ELSE {PlaceOf(e, 0)}
                   ELSE {Shifted(p, MemberAt(e, 0)) : p \in inner}

LEMMA PlacedIs ==
  ASSUME NEW m, NEW place
  PROVE /\ Placed(m, place).name = m.name /\ Placed(m, place).ty = m.ty /\ Placed(m, place).bits = m.bits
        /\ Placed(m, place).align = m.align /\ Placed(m, place).offset = place.offset
        /\ Placed(m, place).bit = place.bit
        /\ IsBitfield(Placed(m, place)) <=> IsBitfield(m)
        /\ MemberAt(Placed(m, place), 0) = 0 + place.offset * 8 + place.bit
BY DEF Placed, IsBitfield, MemberAt

LEMMA ScalarsPlaced ==
  ASSUME NEW m, Sized(m), m.bits = 0 => NoName(m.name), NEW bits \in Nat, NEW packed \in BOOLEAN,
         NEW place, place = PlaceMember(m, bits, packed),
         NEW fine \in BOOLEAN, NEW inner, PlacesOK(inner, m.ty.size * 8, fine)
  PROVE /\ PlacesOK(InPlace(Placed(m, place), inner), place.bits, fine)
        /\ ~packed \/ (~IsBitfield(m) /\ bits % 8 = 0) =>
             \A q \in InPlace(Placed(m, place), inner) : bits <= q.at
<1> DEFINE e == Placed(m, place)
<1>1. /\ e.name = m.name /\ e.ty = m.ty /\ e.bits = m.bits
      /\ e.offset = place.offset /\ e.bit = place.bit /\ (IsBitfield(e) <=> IsBitfield(m))
      /\ MemberAt(e, 0) = 0 + place.offset * 8 + place.bit
  BY PlacedIs
<1>2. m.bits \in Int /\ m.ty.size \in Nat
  BY DEF Sized
<1> HIDE DEF e
<1>3. CASE m.bits > 0
  <2>1. /\ place.offset \in Nat /\ place.bit \in Nat
        /\ bits <= place.offset * 8 + place.bit /\ place.bits = place.offset * 8 + place.bit + m.bits
        /\ place.bit + m.bits <= m.ty.size * 8
    BY <1>3, FieldPlaced DEF StartOf
  <2>2. m.ty.size <= 8
    BY <1>2, <1>3 DEF Sized
  <2> DEFINE p == PlaceOf(e, 0)
  <2>3. /\ p.at = place.offset * 8 + place.bit /\ p.width = m.bits /\ p.field = TRUE
        /\ p.unit = place.offset * 8 /\ p.size = m.ty.size * 8
    BY <1>1, <1>2, <1>3, <2>1 DEF PlaceOf, BitField, IsBitfield
  <2>4. \A q \in InPlace(e, inner) : q = p
    BY <1>1, <1>2, <1>3 DEF InPlace, IsBitfield
  <2> HIDE DEF p
  <2>5. PlaceOK(p, place.bits) /\ bits <= p.at
    <3>1. p.at \in Nat /\ p.width \in Nat \ {0} /\ p.unit \in Nat /\ p.size \in Nat /\ p.size <= 64
      BY <1>2, <1>3, <2>1, <2>2, <2>3
    <3>2. p.at + p.width <= place.bits /\ p.unit <= p.at /\ p.at + p.width <= p.unit + p.size
      BY <1>2, <1>3, <2>1, <2>3
    <3> QED BY <2>1, <2>3, <3>1, <3>2 DEF PlaceOK
  <2> QED BY <2>4, <2>5 DEF PlacesOK, Apart, e
<1>4. CASE m.bits = 0
  <2>1. InPlace(e, inner) = {}
    BY <1>1, <1>4 DEF InPlace, IsBitfield
  <2> QED BY <2>1 DEF PlacesOK, Apart, e
<1>5. CASE m.bits < 0
  <2>1. /\ place.offset \in Nat /\ place.bit = 0 /\ place.bits \in Nat
        /\ place.offset * 8 + m.ty.size * 8 <= place.bits
        /\ ~packed \/ bits % 8 = 0 => bits <= place.offset * 8
    BY <1>5, PlainPlaced
  <2>2. InPlace(e, inner) = {Shifted(p, place.offset * 8) : p \in inner}
    <3>1. MemberAt(e, 0) = place.offset * 8 /\ ~IsBitfield(e)
      BY <1>1, <1>2, <1>5, <2>1 DEF IsBitfield
    <3> QED BY <3>1 DEF InPlace
  <2>3. place.offset * 8 \in Nat /\ m.ty.size * 8 \in Int
    BY <1>2, <2>1
  <2>4. /\ PlacesOK(InPlace(e, inner), place.offset * 8 + m.ty.size * 8, fine)
        /\ \A q \in InPlace(e, inner) : place.offset * 8 <= q.at
    BY <2>2, <2>3, ShiftedOK
  <2>5. PlacesOK(InPlace(e, inner), place.bits, fine)
    BY <2>1, <2>3, <2>4, Wider, place.offset * 8 + m.ty.size * 8 \in Int
  <2>6. ASSUME ~packed \/ bits % 8 = 0, NEW q \in InPlace(e, inner) PROVE bits <= q.at
    <3>1. q.at \in Nat
      BY <2>5 DEF PlacesOK, PlaceOK
    <3> QED BY <2>1, <2>3, <2>4, <2>6, <3>1
  <2> QED BY <2>5, <2>6 DEF e
<1> QED BY <1>2, <1>3, <1>4, <1>5

LEMMA MembersStep ==
  ASSUME NEW members, MembersOK(members), NEW e, MemberOK(e)
  PROVE /\ MembersOK(Append(members, e)) /\ Len(Append(members, e)) = Len(members) + 1
        /\ Len(members) \in Nat
        /\ Append(members, e)[Len(members) + 1] = e
        /\ \A n \in 1 .. Len(members) : Append(members, e)[n] = members[n]
        /\ \A n \in 1 .. Len(members) + 1 : n = Len(members) + 1 \/ n \in 1 .. Len(members)
<1>1. IsSeq(members) /\ Len(members) \in Nat
  BY DEF MembersOK, IsSeq
<1>2. /\ IsSeq(Append(members, e)) /\ Len(Append(members, e)) = Len(members) + 1
      /\ Append(members, e)[Len(members) + 1] = e
      /\ \A n \in 1 .. Len(members) : Append(members, e)[n] = members[n]
  BY <1>1, AppendAny
<1>3. \A n \in 1 .. Len(members) + 1 : n = Len(members) + 1 \/ n \in 1 .. Len(members)
  BY <1>1
<1>4. MembersOK(Append(members, e))
  BY <1>2, <1>3 DEF MembersOK
<1> QED BY <1>1, <1>2, <1>3, <1>4

LEMMA AlignmentStep ==
  ASSUME NEW c, NEW aligned \in Alignments, NEW packed \in BOOLEAN, AlignmentOK(c, aligned, packed),
         MembersOK(c.members), c.align \in Alignments, NEW e, MemberOK(e),
         NEW c2, c2.members = Append(c.members, e),
         c2.align = IF packed THEN c.align ELSE MaxOf(c.align, e.align)
  PROVE AlignmentOK(c2, aligned, packed) /\ c2.align \in Alignments
<1>1. /\ Len(c2.members) = Len(c.members) + 1 /\ c2.members[Len(c.members) + 1] = e
      /\ Len(c.members) \in Nat
      /\ \A n \in 1 .. Len(c.members) : c2.members[n] = c.members[n]
      /\ \A n \in 1 .. Len(c.members) + 1 : n = Len(c.members) + 1 \/ n \in 1 .. Len(c.members)
  BY MembersStep
<1>2. e.align \in Alignments /\ \A n \in 1 .. Len(c.members) : c.members[n].align \in Alignments
  BY DEF MemberOK, Sized, MembersOK
<1>3. Alignments \subseteq Nat
  BY LayoutAssumption
<1>4. CASE packed
  BY <1>4 DEF AlignmentOK
<1>5. CASE ~packed
  <2> DEFINE old == {c.members[n].align : n \in 1 .. Len(c.members)}
  <2> DEFINE new == {c2.members[n].align : n \in 1 .. Len(c2.members)}
  <2>1. new = old \union {e.align}
    <3>1. \A n \in 1 .. Len(c2.members) : c2.members[n].align \in old \union {e.align}
      BY <1>1
    <3>2. \A n \in 1 .. Len(c.members) : n \in 1 .. Len(c2.members) /\ c.members[n].align = c2.members[n].align
      BY <1>1
    <3>3. Len(c2.members) \in 1 .. Len(c2.members) /\ c2.members[Len(c2.members)].align = e.align
      BY <1>1
    <3> QED BY <3>1, <3>2, <3>3
  <2>2. c.align \in {aligned} \union old /\ \A a \in {aligned} \union old : a <= c.align
    BY <1>5 DEF AlignmentOK
  <2>3. c2.align = MaxOf(c.align, e.align) /\ old \subseteq Nat
    BY <1>2, <1>3, <1>5
  <2> HIDE DEF old, new
  <2>4. c2.align \in {aligned} \union new /\ c2.align \in Alignments
    BY <1>2, <2>1, <2>2, <2>3 DEF MaxOf
  <2>5. c.align <= c2.align /\ e.align <= c2.align
    <3>1. c.align \in Nat /\ e.align \in Nat
      BY <1>2, <1>3
    <3> QED BY <2>3, <3>1 DEF MaxOf
  <2>6. \A a \in {aligned} \union new : a <= c2.align
    <3> SUFFICES ASSUME NEW a \in {aligned} \union new PROVE a <= c2.align
      OBVIOUS
    <3>1. a = e.align \/ a \in {aligned} \union old
      BY <2>1
    <3>2. c.align \in Nat /\ e.align \in Nat /\ c2.align \in Nat /\ a \in Nat
      BY <1>2, <1>3, <2>3, <2>4, <3>1
    <3>3. a = e.align \/ a <= c.align
      BY <2>2, <3>1
    <3> QED BY <2>5, <3>2, <3>3
  <2> QED BY <1>5, <2>4, <2>6 DEF AlignmentOK, new
<1> QED BY <1>4, <1>5

LEMMA AtFirstSame ==
  ASSUME NEW members, NEW others, NEW n \in Nat \ {0}, \A k \in 1 .. n : members[k] = others[k], NEW packed
  PROVE AtFirstPlace(members, n, packed) <=> AtFirstPlace(others, n, packed)
<1>1. FirstFor(members, n) = FirstFor(others, n)
  BY FirstForSame
<1>2. members[n] = others[n]
  OBVIOUS
<1> QED BY <1>1, <1>2 DEF AtFirstPlace

\* What is known of a member when its place is sought, and what becomes of the record.
MemberFits(m, inner, fine) ==
  Sized(m) /\ (m.bits = 0 => NoName(m.name)) /\ PlacesOK(inner, m.ty.size * 8, fine)
AddsToStruct(c, d, m, place, inner, c2) ==
  /\ place = PlaceMember(m, c.bits, d.packed)
  /\ c2 = Open(Append(c.members, Placed(m, place)), place.bits,
               IF d.packed THEN c.align ELSE MaxOf(c.align, m.align), c.size,
               c.scalars \union InPlace(Placed(m, place), inner))

\* The new member is at the first place it may have, and the bits in use are those up to
\* where the next may begin.
LEMMA NextPlace ==
  ASSUME NEW c, NEW d, NEW m, NEW place, NEW inner, NEW c2, AddsToStruct(c, d, m, place, inner, c2),
         MembersOK(c.members), c.bits \in Nat, c.bits = FirstFor(c.members, Len(c.members) + 1),
         d.packed \in BOOLEAN, Sized(m), d.packed => c.bits % 8 = 0 /\ ~IsBitfield(m),
         MemberOK(Placed(m, place))
  PROVE /\ AtFirstPlace(c2.members, Len(c.members) + 1, d.packed)
        /\ c2.bits = FirstFor(c2.members, Len(c.members) + 2)
        /\ d.packed => c2.bits % 8 = 0
<1> DEFINE e == Placed(m, place)
<1> DEFINE members == c.members
<1> DEFINE bits == c.bits
<1> DEFINE packed == d.packed
<1> DEFINE new == c2.members
<1> DEFINE n == Len(members) + 1
<1>a. /\ place = PlaceMember(m, bits, packed) /\ new = Append(members, e) /\ c2.bits = place.bits
      /\ MemberOK(e)
  BY DEF AddsToStruct, Open
<1>b. /\ MembersOK(members) /\ bits \in Nat /\ bits = FirstFor(members, n)
      /\ packed \in BOOLEAN
      /\ packed => bits % 8 = 0 /\ ~IsBitfield(m)
  OBVIOUS
<1>1. /\ e.name = m.name /\ e.ty = m.ty /\ e.bits = m.bits /\ e.align = m.align
      /\ e.offset = place.offset /\ e.bit = place.bit /\ (IsBitfield(e) <=> IsBitfield(m))
      /\ MemberAt(e, 0) = 0 + place.offset * 8 + place.bit
  BY PlacedIs
<1>2. m.bits \in Int /\ m.ty.size \in Nat
  BY DEF Sized
<1>3. /\ Len(members) \in Nat /\ new[n] = e /\ MembersOK(new) /\ Len(new) = n
      /\ \A k \in 1 .. Len(members) : new[k] = members[k]
  BY <1>a, <1>b, MembersStep
<1> HIDE DEF e, members, bits, packed, new
<1>4. n \in Nat \ {0} /\ n - 1 = Len(members) /\ Len(members) + 2 = n + 1
  BY <1>3
<1> HIDE DEF n
<1>5. FirstFor(new, n) = bits
  <2>1. \A k \in 1 .. n - 1 : new[k] = members[k]
    BY <1>3, <1>4
  <2>2. FirstFor(new, n) = FirstFor(members, n)
    BY <1>4, <2>1, FirstForSame
  <2> QED BY <1>b, <2>2
<1>6. CASE m.bits > 0
  <2> DEFINE at == StartOf(place)
  <2>1. /\ place.offset \in Nat /\ place.bit \in Nat
        /\ bits <= at /\ place.bits = at + m.bits
        /\ ~NeedsUnit(at, m.ty.size * 8, m.bits) /\ NoneBefore(m, bits, at)
    <3>1. place = PlaceMember(m, bits, packed) /\ bits \in Nat /\ packed \in BOOLEAN /\ Sized(m)
      BY <1>a, <1>b
    <3> QED BY <1>6, <3>1, FieldPlaced
  <2>2. MemberAt(e, 0) = at /\ at \in Nat /\ IsBitfield(e)
    BY <1>1, <1>2, <1>6, <2>1 DEF IsBitfield, StartOf
  <2>3. \A s : Allowed(e, packed, s) <=> ~NeedsUnit(s, m.ty.size * 8, m.bits)
    BY <1>1, <2>2 DEF Allowed, NeedsUnit
  <2>4. ASSUME NEW s \in bits .. at - 1 PROVE NeedsUnit(s, m.ty.size * 8, m.bits)
    <3>1. s \in Nat /\ bits <= s /\ s < at
      BY <1>b, <2>2
    <3> QED BY <2>1, <3>1 DEF NoneBefore
  <2>5. at >= bits /\ Allowed(e, packed, at) /\ \A s \in bits .. at - 1 : ~Allowed(e, packed, s)
    BY <2>1, <2>2, <2>3, <2>4
  <2>6. AtFirstPlace(new, n, packed)
    BY <1>3, <1>5, <2>2, <2>5 DEF AtFirstPlace
  <2>7. FirstFor(new, n + 1) = EndOf(e)
    <3>1. new[n].bits # 0
      BY <1>1, <1>2, <1>3, <1>6
    <3> QED BY <1>3, <1>4, <3>1, FirstForSolid
  <2>8. EndOf(e) = place.bits
    BY <1>1, <1>2, <2>1, <2>2 DEF EndOf
  <2>9. ~packed
    BY <1>b, <1>1, <2>2
  <2> QED BY <1>a, <1>4, <2>6, <2>7, <2>8, <2>9 DEF n, new, members, packed
<1>7. CASE m.bits = 0
  <2>1. place.bits = align_to(bits, m.ty.size * 8)
    BY <1>a, <1>b, <1>7, ZeroPlaced
  <2>2. AtFirstPlace(new, n, packed)
    BY <1>1, <1>3, <1>7 DEF AtFirstPlace
  <2>3. \A j \in 1 .. n : MemberOK(new[j])
    BY <1>3 DEF MembersOK
  <2>4. FirstFor(new, n + 1) = align_to(FirstFor(new, n), new[n].ty.size * 8)
    BY <1>1, <1>3, <1>4, <1>7, <2>3, FirstForZero
  <2>5. ~packed
    BY <1>b, <1>7 DEF IsBitfield
  <2> QED BY <1>a, <1>1, <1>3, <1>4, <1>5, <2>1, <2>2, <2>4, <2>5 DEF n, new, members, packed
<1>8. CASE m.bits < 0
  <2> DEFINE a == IF packed THEN 8 ELSE m.align * 8
  <2>1. /\ place.offset \in Nat /\ place.bit = 0
        /\ packed /\ bits % 8 = 0 => place.bits % 8 = 0
        /\ bits <= place.offset * 8 /\ place.bits = place.offset * 8 + m.ty.size * 8
        /\ (place.offset * 8) % a = 0
        /\ \A s \in bits .. place.offset * 8 - 1 : s % a # 0
    BY <1>a, <1>b, <1>8, PlainPlaced
  <2>2. MemberAt(e, 0) = place.offset * 8 /\ ~IsBitfield(e)
    BY <1>1, <1>2, <1>8, <2>1 DEF IsBitfield
  <2>3. \A s : Allowed(e, packed, s) <=> s % a = 0
    BY <1>1, <2>2 DEF Allowed
  <2> HIDE DEF a
  <2>4. AtFirstPlace(new, n, packed)
    BY <1>3, <1>5, <2>1, <2>2, <2>3 DEF AtFirstPlace
  <2>5. FirstFor(new, n + 1) = EndOf(e)
    <3>1. new[n].bits # 0
      BY <1>1, <1>2, <1>3, <1>8
    <3> QED BY <1>3, <1>4, <3>1, FirstForSolid
  <2>6. EndOf(e) = place.bits
    BY <1>1, <2>1, <2>2 DEF EndOf
  <2> QED BY <1>a, <1>b, <1>4, <2>1, <2>4, <2>5, <2>6 DEF n, new, members, packed
<1> QED BY <1>2, <1>6, <1>7, <1>8

LEMMA StructStep ==
  ASSUME NEW c, NEW d, d.packed \in BOOLEAN, d.aligned \in Alignments, NEW fine \in BOOLEAN,
         StructOpen(c, d, fine),
         NEW m, NEW place, NEW inner, MemberFits(m, inner, fine),
         NEW c2, AddsToStruct(c, d, m, place, inner, c2)
  PROVE StructOpen(c2, d, fine)
<1> DEFINE e == Placed(m, place)
<1>1. /\ e.name = m.name /\ e.ty = m.ty /\ e.bits = m.bits /\ e.align = m.align
      /\ e.offset = place.offset /\ e.bit = place.bit /\ (IsBitfield(e) <=> IsBitfield(m))
  BY PlacedIs
<1>2. /\ c2.members = Append(c.members, e) /\ c2.bits = place.bits
      /\ c2.align = IF d.packed THEN c.align ELSE MaxOf(c.align, m.align)
      /\ c2.scalars = c.scalars \union InPlace(e, inner)
  BY DEF Open, AddsToStruct
<1>a. place = PlaceMember(m, c.bits, d.packed)
  BY DEF AddsToStruct
<1>b. Sized(m)
  BY DEF MemberFits
<1> HIDE DEF e
<1>3. /\ MembersOK(c.members) /\ c.align \in Alignments /\ c.bits \in Nat
      /\ AlignmentOK(c, d.aligned, d.packed)
  BY DEF StructOpen, OpenOK
<1>4. m.bits \in Int /\ m.ty.size \in Nat
  BY <1>b DEF Sized
<1>5. /\ place.offset \in Nat /\ place.bit \in Nat /\ place.bits \in Nat /\ c.bits <= place.bits
      /\ m.bits > 0 => place.offset % m.ty.size = 0 /\ place.offset * 8 < place.bits
  <2>1. CASE m.bits > 0
    <3>1. /\ place.offset \in Nat /\ place.bit \in Nat
          /\ c.bits <= place.offset * 8 + place.bit /\ place.bits = place.offset * 8 + place.bit + m.bits
          /\ place.offset % m.ty.size = 0
      BY <1>a, <1>b, <1>3, <2>1, FieldPlaced DEF StartOf
    <3> QED BY <1>3, <1>4, <2>1, <3>1
  <2>2. CASE m.bits = 0
    <3>1. place.offset = 0 /\ place.bit = 0 /\ place.bits \in Nat /\ c.bits <= place.bits
      BY <1>a, <1>b, <1>3, <2>2, ZeroPlaced
    <3> QED BY <2>2, <3>1
  <2>3. CASE m.bits < 0
    <3>1. place.offset \in Nat /\ place.bit = 0 /\ place.bits \in Nat /\ c.bits <= place.bits
      BY <1>a, <1>b, <1>3, <2>3, PlainPlaced
    <3> QED BY <1>4, <2>3, <3>1
  <2>4. m.bits > 0 \/ m.bits = 0 \/ m.bits < 0
    BY <1>4
  <2> QED BY <2>1, <2>2, <2>3, <2>4
<1>6. MemberOK(e)
  BY <1>b, <1>1, <1>5 DEF MemberOK, Sized
<1> DEFINE k == Len(c.members)
<1>7. /\ MembersOK(c2.members) /\ Len(c2.members) = k + 1 /\ k \in Nat
      /\ c2.members[k + 1] = e
      /\ \A n \in 1 .. k : c2.members[n] = c.members[n]
      /\ \A n \in 1 .. k + 1 : n = k + 1 \/ n \in 1 .. k
  <2>1. /\ MembersOK(Append(c.members, e)) /\ Len(Append(c.members, e)) = k + 1 /\ k \in Nat
        /\ Append(c.members, e)[k + 1] = e
        /\ \A n \in 1 .. k : Append(c.members, e)[n] = c.members[n]
        /\ \A n \in 1 .. k + 1 : n = k + 1 \/ n \in 1 .. k
    BY <1>3, <1>6, MembersStep
  <2> QED BY <1>2, <2>1
<1> HIDE DEF k
<1>8. AlignmentOK(c2, d.aligned, d.packed) /\ c2.align \in Alignments
  <2>1. c2.align = IF d.packed THEN c.align ELSE MaxOf(c.align, e.align)
    BY <1>1, <1>2
  <2> QED BY <1>2, <1>3, <1>6, <2>1, AlignmentStep
<1>9. ASSUME NEW n \in 1 .. Len(c2.members), c2.members[n].bits > 0
      PROVE c2.members[n].offset % c2.members[n].ty.size = 0 /\ c2.members[n].offset * 8 < c2.bits
  <2>1. CASE n = k + 1
    BY <1>1, <1>2, <1>5, <1>7, <1>9, <2>1
  <2>2. CASE n \in 1 .. k
    <3>1. c.members[n].offset % c.members[n].ty.size = 0 /\ c.members[n].offset * 8 < c.bits
      BY <1>7, <1>9, <2>2 DEF StructOpen, k
    <3>2. c.members[n].offset \in Nat
      BY <1>3, <2>2 DEF MembersOK, MemberOK, k
    <3>3. c2.members[n] = c.members[n]
      BY <1>7, <2>2
    <3>4. c.bits \in Nat /\ c2.bits \in Nat /\ c.bits <= c2.bits
      BY <1>2, <1>3, <1>5
    <3> QED BY <3>1, <3>2, <3>3, <3>4
  <2> QED BY <1>7, <2>1, <2>2
<1>10. ASSUME ~PackedFields(c2.members, d.packed)
       PROVE ~PackedFields(c.members, d.packed) /\ (d.packed => ~IsBitfield(m))
  <2>1. ASSUME NEW n \in 1 .. k, IsBitfield(c.members[n]) PROVE ~d.packed
    <3>1. n \in 1 .. Len(c2.members) /\ c2.members[n] = c.members[n]
      BY <1>7
    <3> QED BY <1>10, <2>1, <3>1 DEF PackedFields
  <2>2. k + 1 \in 1 .. Len(c2.members)
    BY <1>7
  <2>3. IsBitfield(m) => ~d.packed
    BY <1>1, <1>7, <1>10, <2>2 DEF PackedFields
  <2> QED BY <2>1, <2>3 DEF PackedFields, k
<1>11. ASSUME ~PackedFields(c2.members, d.packed)
       PROVE /\ c2.bits = FirstFor(c2.members, Len(c2.members) + 1)
             /\ \A n \in 1 .. Len(c2.members) : AtFirstPlace(c2.members, n, d.packed)
             /\ d.packed => c2.bits % 8 = 0
  <2>1. /\ c.bits = FirstFor(c.members, k + 1)
        /\ \A n \in 1 .. k : AtFirstPlace(c.members, n, d.packed)
        /\ d.packed => c.bits % 8 = 0 /\ ~IsBitfield(m)
    BY <1>10, <1>11 DEF StructOpen, k
  <2>2. /\ AtFirstPlace(c2.members, k + 1, d.packed)
        /\ place.bits = FirstFor(c2.members, k + 2)
        /\ d.packed => place.bits % 8 = 0
    <3>1. c2.members = Append(c.members, Placed(m, place)) /\ MemberOK(Placed(m, place))
      BY <1>2, <1>6 DEF e
    <3>2. c.bits = FirstFor(c.members, Len(c.members) + 1)
      BY <2>1 DEF k
    <3>3. /\ AtFirstPlace(c2.members, Len(c.members) + 1, d.packed)
          /\ c2.bits = FirstFor(c2.members, Len(c.members) + 2)
          /\ d.packed => c2.bits % 8 = 0
      <4>1. d.packed => c.bits % 8 = 0 /\ ~IsBitfield(m)
        BY <2>1
      <4>2. MembersOK(c.members) /\ c.bits \in Nat
        BY <1>3
      <4> QED BY <1>b, <3>1, <3>2, <4>1, <4>2, NextPlace
    <3> QED BY <1>2, <3>3 DEF k
  <2>3. ASSUME NEW n \in 1 .. k PROVE AtFirstPlace(c2.members, n, d.packed)
    <3>1. n \in Nat \ {0} /\ \A j \in 1 .. n : c2.members[j] = c.members[j]
      BY <1>7
    <3> QED BY <2>1, <3>1, AtFirstSame
  <2>4. Len(c2.members) + 1 = k + 2
    BY <1>7
  <2> QED BY <1>2, <1>7, <2>2, <2>3, <2>4
<1>12. PlacesOK(c2.scalars, c2.bits, fine /\ ~PackedFields(c2.members, d.packed))
  <2> DEFINE less == fine /\ ~PackedFields(c2.members, d.packed)
  <2> DEFINE was == fine /\ ~PackedFields(c.members, d.packed)
  <2>0. less \in BOOLEAN /\ was \in BOOLEAN /\ (less => was) /\ (less => fine)
    BY <1>10
  <2>1. /\ PlacesOK(InPlace(e, inner), place.bits, fine)
        /\ ~d.packed \/ (~IsBitfield(m) /\ c.bits % 8 = 0) => \A q \in InPlace(e, inner) : c.bits <= q.at
    BY <1>a, <1>3, ScalarsPlaced DEF e, MemberFits
  <2>2. less => (d.packed => ~IsBitfield(m) /\ c.bits % 8 = 0)
    BY <1>10 DEF StructOpen
  <2>3. PlacesOK(c.scalars, c.bits, was)
    BY DEF StructOpen
  <2> HIDE DEF less, was
  <2>4. PlacesOK(c.scalars, c.bits, less)
    BY <1>3, <2>0, <2>3, Wider
  <2>5. PlacesOK(InPlace(e, inner), place.bits, less)
    BY <1>5, <2>0, <2>1, Wider
  <2>6. PlacesOK(c.scalars \union InPlace(e, inner), place.bits, less)
    BY <1>3, <1>5, <2>0, <2>1, <2>2, <2>4, <2>5, Behind
  <2> QED BY <1>2, <2>6 DEF less
<1>13. c2.bits \in Nat
  BY <1>2, <1>5
<1> QED BY <1>7, <1>8, <1>9, <1>11, <1>12, <1>13 DEF StructOpen, OpenOK

AddsToUnion(c, m, inner, c2) ==
  c2 = Open(Append(c.members, Placed(m, [offset |-> 0, bit |-> 0])), c.bits, MaxOf(c.align, m.align),
            MaxOf(c.size, m.ty.size),
            IF Len(c.members) + 1 = 1 THEN InPlace(Placed(m, [offset |-> 0, bit |-> 0]), inner)
                                      ELSE c.scalars)

\* Of a member at the start.
LEMMA ScalarsAtStart ==
  ASSUME NEW m, NEW inner, NEW fine \in BOOLEAN, MemberFits(m, inner, fine),
         NEW e, e.name = m.name, e.ty = m.ty, e.bits = m.bits, e.offset = 0, e.bit = 0
  PROVE PlacesOK(InPlace(e, inner), m.ty.size * 8, fine)
<1>1. m.bits \in Int /\ m.ty.size \in Nat /\ PlacesOK(inner, m.ty.size * 8, fine)
  BY DEF MemberFits, Sized
<1>2. MemberAt(e, 0) = 0
  BY DEF MemberAt
<1>3. CASE IsBitfield(m) /\ NoName(m.name)
  <2>1. InPlace(e, inner) = {}
    BY <1>3 DEF InPlace, IsBitfield
  <2> QED BY <2>1 DEF PlacesOK, Apart
<1>4. CASE IsBitfield(m) /\ ~NoName(m.name)
  <2>1. m.bits \in Nat \ {0} /\ m.ty.size <= 8 /\ m.bits <= m.ty.size * 8
    BY <1>1, <1>4 DEF MemberFits, Sized, IsBitfield
  <2> DEFINE p == PlaceOf(e, 0)
  <2>2. InPlace(e, inner) = {p}
    BY <1>4 DEF InPlace, IsBitfield
  <2>3. p.at = 0 /\ p.width = m.bits /\ p.field = TRUE /\ p.unit = 0 /\ p.size = m.ty.size * 8
    BY <1>2, <1>4 DEF PlaceOf, BitField, IsBitfield
  <2> HIDE DEF p
  <2>4. PlaceOK(p, m.ty.size * 8)
    <3>1. p.at \in Nat /\ p.width \in Nat \ {0} /\ p.unit \in Nat /\ p.size \in Nat /\ p.size <= 64
      BY <1>1, <2>1, <2>3
    <3>2. p.at + p.width <= m.ty.size * 8 /\ p.unit <= p.at /\ p.at + p.width <= p.unit + p.size
      BY <1>1, <2>1, <2>3
    <3> QED BY <2>3, <3>1, <3>2 DEF PlaceOK
  <2> QED BY <2>2, <2>4 DEF PlacesOK, Apart
<1>5. CASE ~IsBitfield(m)
  <2> DEFINE start == 0
  <2> DEFINE width == m.ty.size * 8
  <2>1. InPlace(e, inner) = {Shifted(p, start) : p \in inner}
    BY <1>2, <1>5 DEF InPlace, IsBitfield
  <2>2. start \in Nat /\ width \in Int /\ start + width = width /\ PlacesOK(inner, width, fine)
    BY <1>1
  <2> HIDE DEF start, width
  <2>3. PlacesOK({Shifted(p, start) : p \in inner}, start + width, fine)
    BY <2>2, ShiftedOK
  <2>4. PlacesOK(InPlace(e, inner), width, fine)
    BY <2>1, <2>2, <2>3
  <2> QED BY <2>4 DEF width
<1> QED BY <1>3, <1>4, <1>5

LEMMA UnionStep ==
  ASSUME NEW c, NEW d, d.aligned \in Alignments, NEW fine \in BOOLEAN, UnionOpen(c, d, fine),
         NEW m, NEW inner, MemberFits(m, inner, fine), NEW c2, AddsToUnion(c, m, inner, c2)
  PROVE UnionOpen(c2, d, fine)
<1> DEFINE e == Placed(m, [offset |-> 0, bit |-> 0])
<1> DEFINE k == Len(c.members)
<1>1. /\ e.name = m.name /\ e.ty = m.ty /\ e.bits = m.bits /\ e.align = m.align
      /\ e.offset = 0 /\ e.bit = 0
  BY DEF Placed
<1>2. /\ c2.members = Append(c.members, e) /\ c2.align = MaxOf(c.align, e.align)
      /\ c2.size = MaxOf(c.size, m.ty.size)
      /\ c2.scalars = IF k + 1 = 1 THEN InPlace(e, inner) ELSE c.scalars
  BY <1>1 DEF Open, AddsToUnion
<1> HIDE DEF e
<1>3. /\ MembersOK(c.members) /\ c.align \in Alignments /\ AlignmentOK(c, d.aligned, FALSE)
      /\ c.size \in Nat
  BY DEF UnionOpen, OpenOK
<1>4. Sized(m) /\ m.ty.size \in Nat
  BY DEF MemberFits, Sized
<1>5. MemberOK(e)
  BY <1>1, <1>4 DEF MemberOK, Sized
<1>6. /\ MembersOK(c2.members) /\ Len(c2.members) = k + 1 /\ k \in Nat
      /\ c2.members[k + 1] = e
      /\ \A n \in 1 .. k : c2.members[n] = c.members[n]
      /\ \A n \in 1 .. k + 1 : n = k + 1 \/ n \in 1 .. k
  <2>1. /\ MembersOK(Append(c.members, e)) /\ Len(Append(c.members, e)) = k + 1 /\ k \in Nat
        /\ Append(c.members, e)[k + 1] = e
        /\ \A n \in 1 .. k : Append(c.members, e)[n] = c.members[n]
        /\ \A n \in 1 .. k + 1 : n = k + 1 \/ n \in 1 .. k
    BY <1>3, <1>5, MembersStep
  <2> QED BY <1>2, <2>1
<1> HIDE DEF k
<1>7. AlignmentOK(c2, d.aligned, FALSE) /\ c2.align \in Alignments
  BY <1>2, <1>3, <1>5, AlignmentStep
<1>8. c2.size \in Nat /\ c.size <= c2.size /\ m.ty.size <= c2.size
  BY <1>2, <1>3, <1>4 DEF MaxOf
<1>9. \A n \in 1 .. k : c.members[n].offset = 0 /\ c.members[n].bit = 0 /\ c.members[n].ty.size <= c.size
  BY DEF UnionOpen, k
<1>10. \A n \in 1 .. k : c.members[n].ty.size \in Nat
  BY <1>3 DEF MembersOK, MemberOK, Sized, k
<1>11. ASSUME NEW n \in 1 .. Len(c2.members)
       PROVE c2.members[n].offset = 0 /\ c2.members[n].bit = 0 /\ c2.members[n].ty.size <= c2.size
  <2>1. CASE n = k + 1
    BY <1>1, <1>6, <1>8, <2>1
  <2>2. CASE n \in 1 .. k
    <3>1. c.members[n].ty.size <= c2.size
      BY <1>3, <1>8, <1>9, <1>10, <2>2
    <3> QED BY <1>6, <1>9, <2>2, <3>1
  <2> QED BY <1>6, <2>1, <2>2
<1>12. \E n \in 1 .. Len(c2.members) : c2.members[n].ty.size = c2.size
  <2>1. k + 1 \in 1 .. Len(c2.members) /\ c2.members[k + 1].ty.size = m.ty.size
    BY <1>1, <1>6
  <2>2. CASE c2.size = m.ty.size
    BY <2>1, <2>2
  <2>3. CASE c2.size # m.ty.size
    <3>1. c2.size = c.size /\ c.size > 0
      BY <1>2, <1>3, <1>4, <2>3 DEF MaxOf
    <3>2. PICK n \in 1 .. k : c.members[n].ty.size = c.size
      BY <3>1 DEF UnionOpen, k
    <3>3. n \in 1 .. Len(c2.members) /\ c2.members[n].ty.size = c2.size
      BY <1>6, <3>1, <3>2
    <3> QED BY <3>3
  <2> QED BY <2>2, <2>3
<1>13. PlacesOK(c2.scalars, c2.size * 8, fine)
  <2>0. c2.size * 8 \in Int /\ c.size * 8 \in Int /\ m.ty.size * 8 \in Int
        /\ c.size * 8 <= c2.size * 8 /\ m.ty.size * 8 <= c2.size * 8
    BY <1>3, <1>4, <1>8
  <2>1. CASE k + 1 = 1
    <3>1. PlacesOK(InPlace(e, inner), m.ty.size * 8, fine)
      BY <1>1, ScalarsAtStart
    <3>2. PlacesOK(InPlace(e, inner), c2.size * 8, fine)
      BY <2>0, <3>1, Wider
    <3> QED BY <1>2, <2>1, <3>2
  <2>2. CASE k + 1 # 1
    <3>1. PlacesOK(c.scalars, c.size * 8, fine)
      BY DEF UnionOpen
    <3>2. PlacesOK(c.scalars, c2.size * 8, fine)
      BY <2>0, <3>1, Wider
    <3> QED BY <1>2, <2>2, <3>2
  <2> QED BY <2>1, <2>2
<1>14. Len(c2.members) # 0
  BY <1>6
<1> QED BY <1>6, <1>7, <1>8, <1>11, <1>12, <1>13, <1>14 DEF UnionOpen, OpenOK

-------------------------------------------------------------------------------
(***************************************************************************)
(* The record is complete.                                                 *)
(***************************************************************************)
LEMMA MultipleGap ==
  ASSUME NEW x \in Int, NEW y \in Int, NEW a \in Nat \ {0}, x % a = 0, y % a = 0, x < y
  PROVE x + a <= y
<1>1. PICK p \in Int : x = p * a
  BY Multiple
<1>2. PICK q \in Int : y = q * a
  BY Multiple
<1>3. p <= q - 1
  <2>1. p * a < ((q - 1) + 1) * a
    BY <1>1, <1>2
  <2> QED BY <2>1, Between
<1>4. PICK g \in Nat : q = p + 1 + g
  BY <1>3
<1>5. q * a = p * a + a + g * a /\ g * a \in Nat /\ p * a \in Int
  BY <1>4
<1> QED BY <1>1, <1>2, <1>5

LEMMA SizeOf ==
  ASSUME NEW bits \in Nat, NEW a \in Nat \ {0}, NEW size, size = align_to(bits, a * 8) \div 8
  PROVE /\ size \in Nat /\ size % a = 0 /\ bits <= size * 8 /\ (size - a) * 8 < bits
<1> DEFINE t == align_to(bits, a * 8)
<1>1. /\ t \in Nat /\ bits <= t /\ t < bits + a * 8 /\ t % (a * 8) = 0 /\ a * 8 \in Nat \ {0}
  BY AlignTo, a * 8 \in Nat \ {0}
<1> HIDE DEF t
<1>2. PICK q \in Int : t = q * (a * 8)
  BY <1>1, Multiple, t \in Int
<1>3. t = (q * a) * 8 + 0 /\ q * a \in Int /\ 0 \in 0 .. 7
  BY <1>1, <1>2
<1>4. t \div 8 = q * a
  BY <1>1, <1>3, DivUnique, t \in Int, 8 \in Nat \ {0}, 8 - 1 = 7
<1>5. size = q * a
  BY <1>4 DEF t
<1>6. size * 8 = t /\ size \in Nat
  BY <1>1, <1>3, <1>5
<1>7. size % a = 0
  BY <1>3, <1>5, Multiple
<1>8. (size - a) * 8 = t - a * 8
  BY <1>6
<1> QED BY <1>1, <1>6, <1>7, <1>8

LEMMA SeqDomain ==
  ASSUME NEW s, IsSeq(s)
  PROVE DOMAIN s = 1 .. Len(s) /\ Len(s) \in Nat /\ (Len(s) = 0 => s = <<>>)
<1>1. Len(s) \in Nat /\ s = [n \in 1 .. Len(s) |-> s[n]]
  BY DEF IsSeq
<1>2. DOMAIN s = 1 .. Len(s)
  BY <1>1
<1>3. ASSUME Len(s) = 0 PROVE s = <<>>
  <2>1. s \in Seq({s[n] : n \in 1 .. Len(s)})
    BY <1>1, IsASeq
  <2> QED BY <1>3, <2>1, EmptySeq
<1> QED BY <1>1, <1>2, <1>3

CompletedBy(c, d, size, ty) ==
  /\ ty.k = d.k /\ ty.packed = d.packed /\ ty.members = c.members /\ ty.align = c.align /\ ty.size = size

LEMMA StrictestIs ==
  ASSUME NEW c, NEW d, NEW size, NEW ty, CompletedBy(c, d, size, ty), MembersOK(c.members),
         AlignmentOK(c, d.aligned, d.packed), ~UnnamedCount(ty)
  PROVE Strictest(ty, d.aligned)
<1>1. ty.members = c.members /\ ty.align = c.align /\ ty.packed = d.packed
  BY DEF CompletedBy
<1>2. DOMAIN c.members = 1 .. Len(c.members)
  BY SeqDomain DEF MembersOK
<1>3. {n \in DOMAIN ty.members : ~Unnamed(ty.members[n])} = 1 .. Len(c.members)
  BY <1>1, <1>2 DEF UnnamedCount
<1>4. {ty.members[n].align : n \in {n \in DOMAIN ty.members : ~Unnamed(ty.members[n])}} =
        {c.members[n].align : n \in 1 .. Len(c.members)}
  BY <1>1, <1>3
<1> QED BY <1>1, <1>4 DEF Strictest, AlignmentOK

LEMMA StructDone ==
  ASSUME NEW c, NEW d, d.packed \in BOOLEAN, d.aligned \in Alignments, d.k = "struct",
         NEW fine \in BOOLEAN, StructOpen(c, d, fine),
         NEW ty, CompletedBy(c, d, align_to(c.bits, c.align * 8) \div 8, ty)
  PROVE TypeOK(ty, d) /\ PlacesOK(c.scalars, ty.size * 8, fine /\ ~PackedBits(ty))
<1>1. /\ ty.k = "struct" /\ ty.packed = d.packed /\ ty.members = c.members /\ ty.align = c.align
      /\ ty.size = align_to(c.bits, c.align * 8) \div 8
  BY DEF CompletedBy
<1>2. /\ MembersOK(c.members) /\ c.align \in Alignments /\ c.bits \in Nat
      /\ AlignmentOK(c, d.aligned, d.packed)
  BY DEF StructOpen, OpenOK
<1>3. c.align \in Nat \ {0}
  BY <1>2, LayoutAssumption
<1>4. ty.size \in Nat /\ ty.size % c.align = 0 /\ c.bits <= ty.size * 8 /\ (ty.size - c.align) * 8 < c.bits
  BY <1>1, <1>2, <1>3, SizeOf
<1>5. DOMAIN c.members = 1 .. Len(c.members)
  BY <1>2, SeqDomain DEF MembersOK
<1>6. PackedBits(ty) <=> PackedFields(c.members, d.packed)
  BY <1>1, <1>5 DEF PackedBits, PackedFields, IsRecord
<1>7. PlacesOK(c.scalars, ty.size * 8, fine /\ ~PackedBits(ty))
  <2>1. PlacesOK(c.scalars, c.bits, fine /\ ~PackedBits(ty))
    BY <1>6 DEF StructOpen
  <2> DEFINE less == fine /\ ~PackedBits(ty)
  <2>2. less \in BOOLEAN
    OBVIOUS
  <2>3. PlacesOK(c.scalars, c.bits, less)
    BY <2>1
  <2> HIDE DEF less
  <2>4. PlacesOK(c.scalars, ty.size * 8, less)
    BY <1>2, <1>4, <2>2, <2>3, Wider, ty.size * 8 \in Int
  <2> QED BY <2>4 DEF less
<1>8. ASSUME ~PackedBits(ty) PROVE StructAsABI(ty, d.aligned)
  <2>1. /\ c.bits = FirstFor(c.members, Len(c.members) + 1)
        /\ \A n \in 1 .. Len(c.members) : AtFirstPlace(c.members, n, d.packed)
    BY <1>6, <1>8 DEF StructOpen
  <2>2. ASSUME NEW n \in 1 .. Len(c.members), c.members[n].bits > 0
        PROVE c.members[n].offset + c.members[n].ty.size <= ty.size
    <3> DEFINE m == c.members[n]
    <3>1. MemberOK(m)
      BY <1>2 DEF MembersOK
    <3>2. /\ m.offset \in Nat /\ m.ty.size \in Alignments /\ m.align = m.ty.size /\ m.bits >= 0
      BY <2>2, <3>1 DEF MemberOK, Sized
    <3>3. m.offset % m.ty.size = 0 /\ m.offset * 8 < c.bits
      BY <2>2 DEF StructOpen
    <3>4. ~d.packed
      BY <1>6, <1>8, <3>2 DEF PackedFields, IsBitfield
    <3>5. m.ty.size <= c.align
      BY <1>2, <3>2, <3>4 DEF AlignmentOK
    <3> HIDE DEF m
    <3>6. m.ty.size \in Nat \ {0} /\ c.align % m.ty.size = 0
      BY <1>2, <3>2, <3>5, Chain
    <3>7. ty.size % m.ty.size = 0
      BY <1>3, <1>4, <3>6, MultipleOfMultiple, ty.size \in Int
    <3>8. m.offset < ty.size
      BY <1>2, <1>4, <3>2, <3>3
    <3>9. m.offset + m.ty.size <= ty.size
      BY <1>4, <3>2, <3>3, <3>6, <3>7, <3>8, MultipleGap, m.offset \in Int, ty.size \in Int
    <3> QED BY <3>9 DEF m
  <2>3. ~UnnamedCount(ty) => Strictest(ty, d.aligned)
    BY <1>2, StrictestIs
  <2>4. LeastSize(ty, FirstFor(ty.members, Len(ty.members) + 1))
    BY <1>1, <1>4, <2>1 DEF LeastSize
  <2> QED BY <1>1, <1>5, <2>1, <2>2, <2>3, <2>4 DEF StructAsABI
<1>9. TypeOK(ty, d)
  BY <1>1, <1>2, <1>4, <1>8 DEF TypeOK, AsABI
<1> QED BY <1>7, <1>9

LEMMA UnionDone ==
  ASSUME NEW c, NEW d, d.packed \in BOOLEAN, d.aligned \in Alignments, d.k = "union",
         NEW fine \in BOOLEAN, UnionOpen(c, d, fine),
         NEW ty, CompletedBy(c, d, align_to(c.size, c.align), ty)
  PROVE TypeOK(ty, d) /\ PlacesOK(c.scalars, ty.size * 8, fine /\ ~PackedBits(ty))
<1>1. /\ ty.k = "union" /\ ty.packed = d.packed /\ ty.members = c.members /\ ty.align = c.align
      /\ ty.size = align_to(c.size, c.align)
  BY DEF CompletedBy
<1>2. /\ MembersOK(c.members) /\ c.align \in Alignments /\ c.size \in Nat
      /\ AlignmentOK(c, d.aligned, FALSE)
  BY DEF UnionOpen, OpenOK
<1>3. c.align \in Nat \ {0}
  BY <1>2, LayoutAssumption
<1>4. ty.size \in Nat /\ ty.size % c.align = 0 /\ c.size <= ty.size /\ ty.size < c.size + c.align
  BY <1>1, <1>2, <1>3, AlignTo
<1>5. DOMAIN c.members = 1 .. Len(c.members) /\ (Len(c.members) = 0 => c.members = <<>>)
  BY <1>2, SeqDomain DEF MembersOK
<1>6. PlacesOK(c.scalars, ty.size * 8, fine /\ ~PackedBits(ty))
  <2> DEFINE less == fine /\ ~PackedBits(ty)
  <2>1. less \in BOOLEAN /\ (less => fine)
    OBVIOUS
  <2>2. PlacesOK(c.scalars, c.size * 8, fine)
    BY DEF UnionOpen
  <2> HIDE DEF less
  <2>3. c.size * 8 \in Int /\ ty.size * 8 \in Int /\ c.size * 8 <= ty.size * 8
    BY <1>2, <1>4
  <2>4. PlacesOK(c.scalars, ty.size * 8, less)
    BY <2>1, <2>2, <2>3, Wider
  <2> QED BY <2>4 DEF less
<1>7. ASSUME ~PackedUnion(ty) PROVE UnionAsABI(ty, d.aligned)
  <2>1. ~d.packed /\ d.packed = FALSE
    BY <1>1, <1>7 DEF PackedUnion
  <2>2. ASSUME NEW n \in 1 .. Len(c.members)
        PROVE MemberAt(c.members[n], 0) = 0 /\ c.members[n].ty.size <= ty.size
    <3>1. c.members[n].offset = 0 /\ c.members[n].bit = 0 /\ c.members[n].ty.size <= c.size
      BY DEF UnionOpen
    <3>2. c.members[n].ty.size \in Nat
      BY <1>2 DEF MembersOK, MemberOK, Sized
    <3> QED BY <1>2, <1>4, <3>1, <3>2 DEF MemberAt
  <2>3. AlignmentOK(c, d.aligned, d.packed)
    BY <1>2, <2>1
  <2>4. ~UnnamedCount(ty) => Strictest(ty, d.aligned)
    BY <1>2, <2>3, StrictestIs
  <2>5. ASSUME c.members # <<>>
        PROVE \E n \in 1 .. Len(c.members) : ty.size - ty.align < c.members[n].ty.size
    <3>1. PICK n \in 1 .. Len(c.members) : c.members[n].ty.size = c.size
      BY <1>5, <2>5 DEF UnionOpen
    <3>2. ty.size - ty.align < c.members[n].ty.size
      BY <1>1, <1>2, <1>3, <1>4, <3>1
    <3> QED BY <3>2
  <2> QED BY <1>1, <1>4, <1>5, <2>2, <2>4, <2>5 DEF UnionAsABI
<1>8. TypeOK(ty, d)
  BY <1>1, <1>2, <1>4, <1>7 DEF TypeOK, AsABI
<1> QED BY <1>6, <1>8

-------------------------------------------------------------------------------
(***************************************************************************)
(* The steps.                                                              *)
(***************************************************************************)
LEMMA Legal ==
  ASSUME text \in Texts
  PROVE Len(text) \in Nat \ {0} /\ \A i \in 1 .. Len(text) : TypeIsLegal(text, i)
BY LayoutAssumption

LEMMA FineUpTo ==
  ASSUME NEW tys, NEW n \in Nat, NEW i \in 1 .. n, Fine(tys, n)
  PROVE Fine(tys, i)
BY DEF Fine

fine == Fine(types, Len(types))

\* A type that is named: a scalar, or one declared before.
LEMMA NamedType ==
  ASSUME TypesInv, NEW of, Named(of, Len(types))
  PROVE /\ TypeOf(of).align \in Alignments /\ TypeOf(of).size \in Int
        /\ ~Incomplete(text, of) => TypeOf(of).size \in Nat
        /\ Incomplete(text, of) => TypeOf(of).size <= 0 /\ TypeOf(of).base.size \in Nat
        /\ PlacesOK(ScalarsOf(of), TypeOf(of).size * 8, fine)
        /\ of.k = "scalar" =>
             /\ TypeOf(of).size \in Alignments /\ TypeOf(of).size <= 8 /\ TypeOf(of).align = TypeOf(of).size
             /\ ~Incomplete(text, of)
<1>1. CASE of.k = "scalar"
  <2>1. of = Scalar(of.size) /\ of.size \in Alignments /\ of.size <= 8
    BY <1>1 DEF Named
  <2>2. of.align = of.size /\ of.size \in Nat \ {0}
    BY <2>1, LayoutAssumption DEF Scalar
  <2>3. TypeOf(of) = of /\ ScalarsOf(of) = {Place(0, of.size * 8)} /\ ~Incomplete(text, of)
    BY <1>1 DEF TypeOf, ScalarsOf, Incomplete
  <2>4. PlaceOK(Place(0, of.size * 8), of.size * 8)
    <3> DEFINE p == Place(0, of.size * 8)
    <3>1. p.at = 0 /\ p.width = of.size * 8 /\ p.field = FALSE /\ p.unit = 0 /\ p.size = of.size * 8
      BY DEF Place
    <3> HIDE DEF p
    <3>2. /\ p.at \in Nat /\ p.width \in Nat \ {0} /\ p.unit \in Nat /\ p.size \in Nat
          /\ p.at + p.width <= of.size * 8 /\ p.unit <= p.at /\ p.at + p.width <= p.unit + p.size
      BY <2>2, <3>1
    <3>3. PlaceOK(p, of.size * 8)
      BY <3>1, <3>2 DEF PlaceOK
    <3> QED BY <3>3 DEF p
  <2>5. PlacesOK(ScalarsOf(of), of.size * 8, fine)
    BY <2>3, <2>4 DEF PlacesOK, Apart
  <2> QED BY <1>1, <2>1, <2>2, <2>3, <2>5
<1>2. CASE of.k # "scalar"
  <2> DEFINE i == of.n
  <2>1. of.k = "declared" /\ i \in 1 .. Len(types)
    BY <1>2 DEF Named
  <2>2. TypeOf(of) = types[i] /\ ScalarsOf(of) = scalars[i]
    BY <1>2 DEF TypeOf, ScalarsOf
  <2>3. Incomplete(text, of) <=> text[i].k = "array" /\ text[i].len < 0
    BY <2>1 DEF Incomplete
  <2> HIDE DEF i
  <2>4. TypeOK(types[i], text[i]) /\ PlacesOK(scalars[i], types[i].size * 8, Fine(types, i))
    BY <2>1 DEF TypesInv
  <2>5. Len(types) \in Nat /\ Len(types) <= Len(text) /\ text \in Texts
    BY DEF TypesInv, IsSeq
  <2>6. TypeIsLegal(text, i)
    BY <2>1, <2>5, Legal
  <2>7. text[i].k = "array" => text[i].len \in Int /\ text[i].len >= -1
    BY <2>6 DEF TypeIsLegal, IsRecord
  <2>8. types[i].align \in Alignments /\ types[i].size \in Int
    BY <2>4 DEF TypeOK
  <2>9. ~Incomplete(text, of) => types[i].size \in Nat
    BY <2>3, <2>4, <2>7 DEF TypeOK
  <2>10. ASSUME Incomplete(text, of) PROVE types[i].size <= 0 /\ types[i].base.size \in Nat
    <3>1. text[i].k = "array" /\ text[i].len = -1
      BY <2>3, <2>7, <2>10
    <3>2. types[i].base.size \in Nat /\ types[i].size = types[i].base.size * (-1)
      BY <2>4, <3>1 DEF TypeOK
    <3> QED BY <3>2
  <2>11. PlacesOK(scalars[i], types[i].size * 8, fine)
    <3>1. fine => Fine(types, i)
      BY <2>1, <2>5, FineUpTo DEF fine
    <3> QED BY <2>4, <3>1 DEF PlacesOK
  <2> QED BY <1>2, <2>2, <2>8, <2>9, <2>10, <2>11
<1> QED BY <1>1, <1>2

\* The next member of the record.
LEMMA NextMember ==
  ASSUME TypesInv, Len(types) < Len(text), IsRecord(decl), NEW n \in 1 .. Len(decl.members)
  PROVE MemberFits(struct_members(n), ScalarsOf(decl.members[n].of), fine)
<1> DEFINE i == Len(types) + 1
<1> DEFINE w == decl.members[n]
<1> DEFINE m == struct_members(n)
<1> DEFINE last == Flexible /\ n = Len(decl.members)
<1>1. i \in 1 .. Len(text) /\ text \in Texts /\ i - 1 = Len(types)
  BY LayoutAssumption DEF TypesInv, IsSeq
<1>2. TypeIsLegal(text, i)
  BY <1>1, Legal
<1>3. text[i] = decl
  BY DEF decl
<1>4. MemberIsLegal(text, i, n)
  BY <1>2, <1>3 DEF TypeIsLegal, IsRecord
<1>5. /\ Named(w.of, Len(types)) /\ w.align \in Alignments \union {0}
      /\ w.bits \in Int /\ w.bits >= -1
      /\ IsBitfield(w) => /\ w.of.k = "scalar" /\ w.align = 0 /\ w.bits <= w.of.size * 8
                          /\ w.bits = 0 => NoName(w.name)
      /\ Incomplete(text, w.of) => n = Len(decl.members)
  BY <1>1, <1>3, <1>4 DEF MemberIsLegal
<1>6. /\ m.name = w.name /\ m.bits = w.bits
      /\ m.ty = IF last THEN array_of(TypeOf(w.of).base, 0) ELSE TypeOf(w.of)
      /\ m.align = IF w.align = 0 THEN TypeOf(w.of).align ELSE w.align
  BY DEF struct_members
<1>7. last <=> Incomplete(text, w.of)
  <2>1. n = Len(decl.members) => (Flexible <=> Incomplete(text, w.of))
    BY <1>1 DEF Flexible
  <2> QED BY <1>5, <2>1
<1> HIDE DEF i, w, m, last
<1>8. /\ TypeOf(w.of).align \in Alignments /\ TypeOf(w.of).size \in Int
      /\ ~Incomplete(text, w.of) => TypeOf(w.of).size \in Nat
      /\ Incomplete(text, w.of) => TypeOf(w.of).size <= 0 /\ TypeOf(w.of).base.size \in Nat
      /\ PlacesOK(ScalarsOf(w.of), TypeOf(w.of).size * 8, fine)
      /\ w.of.k = "scalar" =>
           /\ TypeOf(w.of).size \in Alignments /\ TypeOf(w.of).size <= 8
           /\ TypeOf(w.of).align = TypeOf(w.of).size /\ ~Incomplete(text, w.of)
  BY <1>5, NamedType
<1>9. last => m.ty.size = 0
  <2>1. array_of(TypeOf(w.of).base, 0).size = TypeOf(w.of).base.size * 0
    BY DEF array_of
  <2> QED BY <1>6, <1>7, <1>8, <2>1
<1>10. Sized(m)
  <2>1. m.align \in Alignments
    BY <1>5, <1>6, <1>8
  <2>2. m.ty.size \in Nat
    BY <1>6, <1>7, <1>8, <1>9
  <2>3. ASSUME m.bits >= 0
        PROVE /\ m.ty.size \in Alignments /\ m.ty.size <= 8 /\ m.bits <= m.ty.size * 8
              /\ m.align = m.ty.size
    <3>1. w.of.k = "scalar" /\ w.align = 0 /\ w.bits <= w.of.size * 8
      BY <1>5, <1>6, <2>3 DEF IsBitfield
    <3>2. TypeOf(w.of) = w.of
      BY <3>1 DEF TypeOf
    <3> QED BY <1>6, <1>7, <1>8, <3>1, <3>2
  <2> QED BY <1>5, <1>6, <2>1, <2>2, <2>3 DEF Sized
<1>11. m.bits = 0 => NoName(m.name)
  BY <1>5, <1>6 DEF IsBitfield
<1>12. PlacesOK(ScalarsOf(w.of), m.ty.size * 8, fine)
  <2>1. CASE last
    <3>1. TypeOf(w.of).size * 8 \in Int /\ 0 * 8 \in Int /\ TypeOf(w.of).size * 8 <= 0 * 8
      BY <1>7, <1>8, <2>1
    <3>2. fine \in BOOLEAN
      BY DEF fine, Fine
    <3>3. PlacesOK(ScalarsOf(w.of), 0 * 8, fine)
      BY <1>8, <3>1, <3>2, Wider
    <3> QED BY <1>9, <2>1, <3>3
  <2>2. CASE ~last
    BY <1>6, <1>8, <2>2
  <2> QED BY <2>1, <2>2
<1> QED BY <1>10, <1>11, <1>12 DEF MemberFits, w, m

LEMMA Completes ==
  ASSUME Inv, Len(types) < Len(text), pc = "layout", text' = text,
         NEW ty, NEW places, Complete(ty, places),
         TypeOK(ty, decl), PlacesOK(places, ty.size * 8, fine /\ ~PackedBits(ty))
  PROVE Inv'
<1> DEFINE n == Len(types)
<1>1. /\ IsSeq(types) /\ IsSeq(scalars) /\ Len(scalars) = n /\ n \in Nat /\ n < Len(text)
      /\ text \in Texts /\ Len(text) \in Nat
      /\ \A i \in 1 .. n : TypeOK(types[i], text[i]) /\ PlacesOK(scalars[i], types[i].size * 8, Fine(types, i))
  BY Legal DEF Inv, TypesInv, IsSeq
<1>2. types' = Append(types, ty) /\ scalars' = Append(scalars, places) /\ cur' = Closed /\ pc' = "layout"
  BY DEF Complete
<1> HIDE DEF n
<1>3. /\ IsSeq(types') /\ Len(types') = n + 1 /\ types'[n + 1] = ty
      /\ \A i \in 1 .. n : types'[i] = types[i]
  <2>1. /\ IsSeq(Append(types, ty)) /\ Len(Append(types, ty)) = n + 1 /\ Append(types, ty)[n + 1] = ty
        /\ \A i \in 1 .. n : Append(types, ty)[i] = types[i]
    BY <1>1, AppendAny DEF n
  <2> QED BY <1>2, <2>1
<1>4. /\ IsSeq(scalars') /\ Len(scalars') = n + 1 /\ scalars'[n + 1] = places
      /\ \A i \in 1 .. n : scalars'[i] = scalars[i]
  <2>1. /\ IsSeq(Append(scalars, places)) /\ Len(Append(scalars, places)) = n + 1
        /\ Append(scalars, places)[n + 1] = places
        /\ \A i \in 1 .. n : Append(scalars, places)[i] = scalars[i]
    BY <1>1, AppendAny
  <2> QED BY <1>2, <2>1
<1>5. ASSUME NEW i \in 1 .. n
      PROVE TypeOK(types'[i], text[i]) /\ PlacesOK(scalars'[i], types'[i].size * 8, Fine(types', i))
  <2>1. Fine(types', i) <=> Fine(types, i)
    <3>1. \A j \in 1 .. i : types'[j] = types[j]
      BY <1>1, <1>3
    <3> QED BY <3>1 DEF Fine
  <2>2. TypeOK(types[i], text[i]) /\ PlacesOK(scalars[i], types[i].size * 8, Fine(types, i))
    BY <1>1
  <2>3. types'[i] = types[i] /\ scalars'[i] = scalars[i]
    BY <1>3, <1>4
  <2> QED BY <2>1, <2>2, <2>3 DEF PlacesOK
<1>6. TypeOK(types'[n + 1], text[n + 1])
      /\ PlacesOK(scalars'[n + 1], types'[n + 1].size * 8, Fine(types', n + 1))
  <2>1. Fine(types', n + 1) => fine /\ ~PackedBits(ty)
    <3>1. \A i \in 1 .. n : types'[i] = types[i] /\ i \in 1 .. n + 1
      BY <1>1, <1>3
    <3>2. n + 1 \in 1 .. n + 1
      BY <1>1
    <3> QED BY <1>3, <3>1, <3>2 DEF Fine, fine, n
  <2>2. TypeOK(ty, text[n + 1])
    BY DEF decl, n
  <2> QED BY <1>3, <1>4, <2>1, <2>2 DEF PlacesOK
<1>7. \A i \in 1 .. n + 1 : i = n + 1 \/ i \in 1 .. n
  BY <1>1
<1>8. TypesInv'
  <2>1. \A i \in 1 .. Len(types') :
          TypeOK(types'[i], text'[i]) /\ PlacesOK(scalars'[i], types'[i].size * 8, Fine(types', i))
    BY <1>3, <1>5, <1>6, <1>7
  <2>2. Len(types') <= Len(text')
    BY <1>1, <1>3
  <2> QED BY <1>1, <1>3, <1>4, <2>1, <2>2 DEF TypesInv
<1>9. CurInv'
  BY <1>2 DEF CurInv
<1> QED BY <1>2, <1>8, <1>9 DEF Inv

LEMMA Unmoved ==
  ASSUME Inv, UNCHANGED <<text, types, cur, scalars>>,
         pc' \in {"ready", "stored"} => Len(types) = Len(text)
  PROVE Inv'
BY DEF Inv, TypesInv, CurInv, decl

\* What the record is while it is under way.
LEMMA Moves ==
  ASSUME Inv, UNCHANGED <<text, types, scalars, pc>>, pc = "layout", Len(types) < Len(text), IsRecord(decl),
         Len(cur'.members) <= Len(decl.members),
         decl.k = "struct" => StructOpen(cur', decl, fine),
         decl.k = "union" => UnionOpen(cur', decl, fine)
  PROVE Inv'
<1>1. TypesInv'
  BY DEF Inv, TypesInv
<1>2. decl' = decl
  BY DEF decl
<1>3. CurInv'
  BY <1>2 DEF CurInv, fine
<1> QED BY <1>1, <1>3 DEF Inv

LEMMA DeclIsLegal ==
  ASSUME TypesInv, Len(types) < Len(text)
  PROVE /\ TypeIsLegal(text, Len(types) + 1) /\ decl = text[Len(types) + 1]
        /\ Len(types) \in Nat
        /\ IsRecord(decl) => decl.packed \in BOOLEAN /\ decl.aligned \in Alignments
                             /\ Len(decl.members) \in Nat
<1>1. Len(types) \in Nat /\ text \in Texts
  BY DEF TypesInv, IsSeq
<1>2. Len(types) + 1 \in 1 .. Len(text)
  BY <1>1, Legal
<1>3. TypeIsLegal(text, Len(types) + 1) /\ decl = text[Len(types) + 1]
  BY <1>1, <1>2, Legal DEF decl
<1> QED BY <1>1, <1>3 DEF TypeIsLegal, IsRecord

LEMMA ArrayOfKeeps ==
  ASSUME Inv, ArrayOf
  PROVE Inv'
<1>1. TypesInv /\ pc = "layout" /\ Len(types) < Len(text) /\ decl.k = "array" /\ text' = text
  BY DEF Inv, ArrayOf, Declaring, Same
<1> DEFINE base == TypeOf(decl.of)
<1> DEFINE ty == array_of(base, decl.len)
<1> DEFINE places == UNION {{Shifted(p, n * base.size * 8) : p \in ScalarsOf(decl.of)} : n \in 0 .. decl.len - 1}
<1>2. CASE Undefined
  BY <1>1, <1>2, Unmoved DEF Undefined
<1>3. CASE Complete(ty, places)
  <2>1. Named(decl.of, Len(types)) /\ ~Incomplete(text, decl.of) /\ decl.len \in Int /\ decl.len >= -1
    <3>1. TypeIsLegal(text, Len(types) + 1) /\ decl = text[Len(types) + 1] /\ Len(types) \in Nat
      BY <1>1, DeclIsLegal
    <3>2. Len(types) + 1 - 1 = Len(types)
      BY <3>1
    <3> QED BY <1>1, <3>1, <3>2 DEF TypeIsLegal, IsRecord
  <2>2. base.align \in Alignments /\ base.size \in Nat /\ PlacesOK(ScalarsOf(decl.of), base.size * 8, fine)
    BY <1>1, <2>1, NamedType
  <2>3. /\ ty.k = "array" /\ ty.base = base /\ ty.size = base.size * decl.len /\ ty.align = base.align
    BY DEF array_of
  <2> HIDE DEF base, ty
  <2>4. TypeOK(ty, decl)
    <3>1. ty.size \in Int /\ (decl.len >= 0 => ty.size \in Nat)
      BY <2>1, <2>2, <2>3
    <3> QED BY <1>1, <2>2, <2>3, <3>1 DEF TypeOK, IsRecord
  <2>5. fine \in BOOLEAN
    BY DEF fine, Fine
  <2>6. PlacesOK(places, ty.size * 8, fine)
    <3>1. PlacesOK(Elements(ScalarsOf(decl.of), base.size, decl.len), base.size * decl.len * 8, fine)
      BY <2>1, <2>2, <2>5, ElementsOK
    <3> QED BY <2>3, <3>1 DEF Elements
  <2>7. PlacesOK(places, ty.size * 8, fine /\ ~PackedBits(ty))
    BY <2>6 DEF PlacesOK
  <2> HIDE DEF places
  <2> QED BY <1>1, <1>3, <2>4, <2>7, Completes
<1> QED BY <1>2, <1>3 DEF ArrayOf

LEMMA OpensKeeps ==
  ASSUME Inv, struct_union_decl
  PROVE Inv'
<1>1. /\ TypesInv /\ pc = "layout" /\ Len(types) < Len(text) /\ IsRecord(decl)
      /\ UNCHANGED <<text, types, scalars, pc>> /\ cur' = Open(<<>>, 0, decl.aligned, 0, {})
  BY DEF Inv, struct_union_decl, Declaring, Same, IsRecord
<1>2. decl.packed \in BOOLEAN /\ decl.aligned \in Alignments /\ Len(decl.members) \in Nat
  BY <1>1, DeclIsLegal
<1> DEFINE c == Open(<<>>, 0, decl.aligned, 0, {})
<1>3. /\ c.members = <<>> /\ c.bits = 0 /\ c.align = decl.aligned /\ c.size = 0 /\ c.scalars = {}
  BY DEF Open
<1> HIDE DEF c
<1>4. IsSeq(<<>>) /\ Len(<<>>) = 0
  BY EmptyIsSeq
<1>5. OpenOK(c)
  BY <1>2, <1>3, <1>4 DEF OpenOK, MembersOK
<1>6. \A packed : AlignmentOK(c, decl.aligned, packed)
  <2>1. decl.aligned \in Nat
    BY <1>2, LayoutAssumption
  <2>2. {c.members[n].align : n \in 1 .. Len(c.members)} = {}
    BY <1>3, <1>4
  <2> QED BY <1>3, <2>1, <2>2 DEF AlignmentOK
<1>7. FirstFor(c.members, Len(c.members) + 1) = 0
  <2>1. LastSolid(c.members, 1) = 0
    BY LastSolidIs, 1 \in Nat \ {0}
  <2>2. Units(c.members, 1) = {}
    BY <2>1 DEF Units
  <2>3. Len(c.members) + 1 = 1
    BY <1>3, <1>4
  <2> QED BY <2>1, <2>2, <2>3 DEF FirstFor, Bound
<1>8. \A bits, less : PlacesOK(c.scalars, bits, less)
  BY <1>3 DEF PlacesOK, Apart
<1>9. StructOpen(c, decl, fine)
  BY <1>3, <1>4, <1>5, <1>6, <1>7, <1>8 DEF StructOpen
<1>10. UnionOpen(c, decl, fine)
  <2>1. Len(c.members) = 0 /\ c.size = 0 /\ c.size \in Nat /\ c.scalars = {}
    BY <1>3, <1>4
  <2>2. \A n \in 1 .. Len(c.members) : FALSE
    BY <2>1
  <2>3. AlignmentOK(c, decl.aligned, FALSE) /\ PlacesOK(c.scalars, c.size * 8, fine)
    BY <1>6, <1>8
  <2> QED BY <1>5, <2>1, <2>2, <2>3 DEF UnionOpen
<1>11. cur' = c /\ Len(cur'.members) <= Len(decl.members)
  BY <1>1, <1>2, <1>3, <1>4 DEF c
<1> QED BY <1>1, <1>9, <1>10, <1>11, Moves

\* The record while its members are gone through.
LEMMA GoingIs ==
  ASSUME Inv, cur # Closed, Len(cur.members) < Len(decl.members)
  PROVE /\ IsRecord(decl) /\ Len(types) < Len(text)
        /\ decl.packed \in BOOLEAN /\ decl.aligned \in Alignments
        /\ decl.k = "struct" => StructOpen(cur, decl, fine)
        /\ decl.k = "union" => UnionOpen(cur, decl, fine)
        /\ Len(cur.members) \in Nat /\ nth \in 1 .. Len(decl.members)
        /\ MemberFits(struct_members(nth), ScalarsOf(decl.members[nth].of), fine)
        /\ \A m, place : ScalarsIn(Placed(m, place), decl.members[nth].of) =
             InPlace(Placed(m, place), ScalarsOf(decl.members[nth].of))
<1>1. /\ IsRecord(decl) /\ Len(types) < Len(text) /\ TypesInv
      /\ decl.k = "struct" => StructOpen(cur, decl, fine)
      /\ decl.k = "union" => UnionOpen(cur, decl, fine)
  BY DEF Inv, CurInv, fine
<1>2. decl.packed \in BOOLEAN /\ decl.aligned \in Alignments /\ Len(decl.members) \in Nat
  BY <1>1, DeclIsLegal
<1>3. MembersOK(cur.members) /\ Len(cur.members) \in Nat
  <2>1. MembersOK(cur.members)
    BY <1>1 DEF IsRecord, StructOpen, UnionOpen, OpenOK
  <2> QED BY <2>1 DEF MembersOK, IsSeq
<1>4. nth \in 1 .. Len(decl.members)
  BY <1>2, <1>3 DEF nth
<1>5. MemberFits(struct_members(nth), ScalarsOf(decl.members[nth].of), fine)
  BY <1>1, <1>4, NextMember
<1>6. \A m, place : ScalarsIn(Placed(m, place), decl.members[nth].of) =
             InPlace(Placed(m, place), ScalarsOf(decl.members[nth].of))
  BY DEF ScalarsIn, InPlace
<1> QED BY <1>1, <1>2, <1>3, <1>4, <1>5, <1>6

LEMMA PlaceInStructKeeps ==
  ASSUME Inv, PlaceInStruct
  PROVE Inv'
<1> DEFINE m == struct_members(nth)
<1> DEFINE inner == ScalarsOf(decl.members[nth].of)
<1> DEFINE place == PlaceMember(m, cur.bits, decl.packed)
<1>1. /\ pc = "layout" /\ text' = text /\ decl.k = "struct"
      /\ cur # Closed /\ Len(cur.members) < Len(decl.members)
  BY DEF PlaceInStruct, Declaring, Going, Same
<1>2. /\ IsRecord(decl) /\ Len(types) < Len(text)
      /\ decl.packed \in BOOLEAN /\ decl.aligned \in Alignments
      /\ StructOpen(cur, decl, fine) /\ Len(cur.members) \in Nat /\ Len(decl.members) \in Nat
      /\ MemberFits(m, inner, fine) /\ nth = Len(cur.members) + 1 /\ nth \in 1 .. Len(decl.members)
      /\ \A pl : ScalarsIn(Placed(m, pl), decl.members[nth].of) = InPlace(Placed(m, pl), inner)
  <2>1. Len(decl.members) \in Nat
    BY <1>1, GoingIs, DeclIsLegal DEF Inv
  <2> QED BY <1>1, <2>1, GoingIs DEF nth
<1>3. CASE Undefined
  BY <1>1, <1>3, Unmoved DEF Undefined
<1>4. CASE ~Undefined
  <2>1. /\ cur' = Open(Append(cur.members, Placed(m, place)), place.bits,
                       IF decl.packed THEN cur.align ELSE MaxOf(cur.align, m.align), cur.size,
                       cur.scalars \union InPlace(Placed(m, place), inner))
        /\ UNCHANGED <<types, scalars, pc>>
    BY <1>2, <1>4 DEF PlaceInStruct
  <2> HIDE DEF m, inner
  <2>2. AddsToStruct(cur, decl, m, place, inner, cur')
    BY <2>1 DEF AddsToStruct
  <2> HIDE DEF place
  <2>3. fine \in BOOLEAN
    BY DEF fine, Fine
  <2>4. StructOpen(cur', decl, fine)
    BY <1>2, <2>2, <2>3, StructStep
  <2>5. Len(cur'.members) = Len(cur.members) + 1
    <3>1. MembersOK(cur'.members) /\ MembersOK(cur.members)
      BY <1>2, <2>4 DEF StructOpen, OpenOK
    <3>2. cur'.members = Append(cur.members, Placed(m, place))
      BY <2>1 DEF Open
    <3>3. IsSeq(cur.members)
      BY <3>1 DEF MembersOK
    <3> QED BY <3>2, <3>3, AppendAny
  <2>6. Len(cur'.members) <= Len(decl.members)
    BY <1>1, <1>2, <2>5
  <2>7. decl.k # "union"
    BY <1>1
  <2> QED BY <1>1, <1>2, <2>1, <2>4, <2>6, <2>7, Moves
<1> QED BY <1>3, <1>4

LEMMA PlaceInUnionKeeps ==
  ASSUME Inv, PlaceInUnion
  PROVE Inv'
<1> DEFINE m == struct_members(nth)
<1> DEFINE inner == ScalarsOf(decl.members[nth].of)
<1>1. /\ pc = "layout" /\ text' = text /\ decl.k = "union" /\ UNCHANGED <<types, scalars, pc>>
      /\ cur # Closed /\ Len(cur.members) < Len(decl.members)
  BY DEF PlaceInUnion, Declaring, Going, Same
<1>2. /\ IsRecord(decl) /\ Len(types) < Len(text) /\ decl.aligned \in Alignments
      /\ UnionOpen(cur, decl, fine) /\ Len(cur.members) \in Nat /\ Len(decl.members) \in Nat
      /\ MemberFits(m, inner, fine) /\ nth = Len(cur.members) + 1 /\ nth \in 1 .. Len(decl.members)
      /\ \A pl : ScalarsIn(Placed(m, pl), decl.members[nth].of) = InPlace(Placed(m, pl), inner)
  <2>1. Len(decl.members) \in Nat
    BY <1>1, GoingIs, DeclIsLegal DEF Inv
  <2> QED BY <1>1, <2>1, GoingIs DEF nth
<1> DEFINE e == Placed(m, [offset |-> 0, bit |-> 0])
<1>3. cur' = Open(Append(cur.members, e), cur.bits, MaxOf(cur.align, m.align), MaxOf(cur.size, m.ty.size),
                  IF nth = 1 THEN ScalarsIn(e, decl.members[1].of) ELSE cur.scalars)
  BY DEF PlaceInUnion
<1>4. nth = 1 => ScalarsIn(e, decl.members[1].of) = InPlace(e, inner)
  BY <1>2
<1> HIDE DEF m, inner
<1>5. AddsToUnion(cur, m, inner, cur')
  <2>1. (IF nth = 1 THEN ScalarsIn(e, decl.members[1].of) ELSE cur.scalars) =
          (IF Len(cur.members) + 1 = 1 THEN InPlace(e, inner) ELSE cur.scalars)
    BY <1>2, <1>4
  <2> QED BY <1>3, <2>1 DEF AddsToUnion
<1>6. fine \in BOOLEAN
  BY DEF fine, Fine
<1>7. UnionOpen(cur', decl, fine)
  BY <1>2, <1>5, <1>6, UnionStep
<1>8. Len(cur'.members) = Len(cur.members) + 1
  <2>1. IsSeq(cur.members)
    BY <1>2 DEF UnionOpen, OpenOK, MembersOK
  <2>2. cur'.members = Append(cur.members, e)
    BY <1>3 DEF Open
  <2> QED BY <2>1, <2>2, AppendAny
<1>9. Len(cur'.members) <= Len(decl.members) /\ decl.k # "struct"
  BY <1>1, <1>2, <1>8
<1> QED BY <1>1, <1>2, <1>7, <1>9, Moves

LEMMA RecordIs ==
  ASSUME NEW size
  PROVE CompletedBy(cur, decl, size, RecordType(size))
BY DEF CompletedBy, RecordType

\* The record when its members are all placed.
LEMMA ThroughIs ==
  ASSUME Inv, cur # Closed
  PROVE /\ IsRecord(decl) /\ Len(types) < Len(text)
        /\ decl.packed \in BOOLEAN /\ decl.aligned \in Alignments
        /\ decl.k = "struct" => StructOpen(cur, decl, fine)
        /\ decl.k = "union" => UnionOpen(cur, decl, fine)
        /\ fine \in BOOLEAN
<1>1. /\ IsRecord(decl) /\ Len(types) < Len(text) /\ TypesInv
      /\ decl.k = "struct" => StructOpen(cur, decl, fine)
      /\ decl.k = "union" => UnionOpen(cur, decl, fine)
  BY DEF Inv, CurInv, fine
<1>2. decl.packed \in BOOLEAN /\ decl.aligned \in Alignments
  BY <1>1, DeclIsLegal
<1>3. fine \in BOOLEAN
  BY DEF fine, Fine
<1> QED BY <1>1, <1>2, <1>3

LEMMA StructKeeps ==
  ASSUME Inv, struct_decl
  PROVE Inv'
<1> DEFINE ty == RecordType(align_to(cur.bits, cur.align * 8) \div 8)
<1>1. pc = "layout" /\ text' = text /\ decl.k = "struct" /\ cur # Closed
  BY DEF struct_decl, Declaring, Through, Same
<1>2. /\ Len(types) < Len(text) /\ decl.packed \in BOOLEAN /\ decl.aligned \in Alignments
      /\ StructOpen(cur, decl, fine) /\ fine \in BOOLEAN
  BY <1>1, ThroughIs
<1>3. CASE Undefined
  BY <1>1, <1>3, Unmoved DEF Undefined
<1>4. CASE Complete(ty, cur.scalars)
  <2>1. CompletedBy(cur, decl, align_to(cur.bits, cur.align * 8) \div 8, ty)
    BY RecordIs
  <2> HIDE DEF ty
  <2>2. TypeOK(ty, decl) /\ PlacesOK(cur.scalars, ty.size * 8, fine /\ ~PackedBits(ty))
    BY <1>1, <1>2, <2>1, StructDone
  <2> QED BY <1>1, <1>2, <1>4, <2>2, Completes
<1> QED BY <1>3, <1>4 DEF struct_decl

LEMMA UnionKeeps ==
  ASSUME Inv, union_decl
  PROVE Inv'
<1> DEFINE ty == RecordType(align_to(cur.size, cur.align))
<1>1. pc = "layout" /\ text' = text /\ decl.k = "union" /\ cur # Closed
  BY DEF union_decl, Declaring, Through, Same
<1>2. /\ Len(types) < Len(text) /\ decl.packed \in BOOLEAN /\ decl.aligned \in Alignments
      /\ UnionOpen(cur, decl, fine) /\ fine \in BOOLEAN
  BY <1>1, ThroughIs
<1>3. CASE Undefined
  BY <1>1, <1>3, Unmoved DEF Undefined
<1>4. CASE Complete(ty, cur.scalars)
  <2>1. CompletedBy(cur, decl, align_to(cur.size, cur.align), ty)
    BY RecordIs
  <2> HIDE DEF ty
  <2>2. TypeOK(ty, decl) /\ PlacesOK(cur.scalars, ty.size * 8, fine /\ ~PackedBits(ty))
    BY <1>1, <1>2, <2>1, UnionDone
  <2> QED BY <1>1, <1>2, <1>4, <2>2, Completes
<1> QED BY <1>3, <1>4 DEF union_decl

LEMMA Initially ==
  ASSUME LayoutInit
  PROVE Inv
<1>1. text \in Texts /\ types = <<>> /\ scalars = <<>> /\ cur = Closed /\ pc = "layout"
  BY DEF LayoutInit, LayoutStart
<1>2. IsSeq(<<>>) /\ Len(<<>>) = 0
  BY EmptyIsSeq
<1>3. Len(text) \in Nat
  BY <1>1, Legal
<1>4. TypesInv
  BY <1>1, <1>2, <1>3 DEF TypesInv
<1>5. CurInv
  BY <1>1 DEF CurInv
<1> QED BY <1>1, <1>4, <1>5 DEF Inv

LEMMA Keeps ==
  ASSUME Inv, [LayoutNext]_layout
  PROVE Inv'
<1>1. CASE Declare
  BY <1>1, ArrayOfKeeps, OpensKeeps, PlaceInStructKeeps, StructKeeps, PlaceInUnionKeeps, UnionKeeps
     DEF Declare
<1>2. CASE Define
  <2>1. Len(types) = Len(text) /\ UNCHANGED <<text, types, cur, scalars>>
    BY <1>2 DEF Define
  <2> QED BY <2>1, Unmoved
<1>3. CASE Store
  <2>1. pc = "ready" /\ UNCHANGED <<text, types, cur, scalars>>
    BY <1>3 DEF Store
  <2>2. Len(types) = Len(text)
    BY <2>1 DEF Inv
  <2> QED BY <2>1, <2>2, Unmoved
<1>4. CASE UNCHANGED layout
  <2>1. UNCHANGED <<text, types, cur, scalars>> /\ pc' = pc
    BY <1>4 DEF layout
  <2>2. pc \in {"ready", "stored"} => Len(types) = Len(text)
    BY DEF Inv
  <2> QED BY <2>1, <2>2, Unmoved
<1> QED BY <1>1, <1>2, <1>3, <1>4 DEF LayoutNext

(***************************************************************************)
(* The places of all types declared are as the invariant says, at every    *)
(* step of struct_decl and union_decl.                                     *)
(***************************************************************************)
THEOREM LayoutInvariant == LayoutSpec => []Inv
<1>1. LayoutInit => Inv
  BY Initially
<1>2. Inv /\ [LayoutNext]_layout => Inv'
  BY Keeps
<1> QED BY <1>1, <1>2, PTL DEF LayoutSpec

LEMMA InvLaidOut ==
  ASSUME Inv
  PROVE LaidOutAsABI
<1>1. DOMAIN types = 1 .. Len(types)
  BY SeqDomain DEF Inv, TypesInv
<1>2. ASSUME NEW i \in DOMAIN types
      PROVE /\ types[i].k = "struct" /\ ~PackedBits(types[i]) => StructAsABI(types[i], text[i].aligned)
            /\ types[i].k = "union" /\ ~PackedUnion(types[i]) => UnionAsABI(types[i], text[i].aligned)
  <2>1. TypeOK(types[i], text[i])
    BY <1>1 DEF Inv, TypesInv
  <2> QED BY <2>1 DEF TypeOK, AsABI, IsRecord
<1> QED BY <1>2 DEF LaidOutAsABI

(***************************************************************************)
(* Members of structs and unions lie as the psABI says (add and adjust of  *)
(* struct_decl, and the sizes behind them), whatever the declarations.     *)
(***************************************************************************)
THEOREM LaidOutTheorem == LayoutSpec => []LaidOutAsABI
<1>1. Inv => LaidOutAsABI
  BY InvLaidOut
<1> QED BY <1>1, LayoutInvariant, PTL

-------------------------------------------------------------------------------
(***************************************************************************)
(* Stores.                                                                 *)
(***************************************************************************)
\* The masks of a bit-field are those of its bits, where they reach no bit 31 of a unit of 64.
LEMMA Masks ==
  ASSUME NEW p, NEW bits, PlaceOK(p, bits), p.field, ~MasksCut(p), NEW ones \in Ones(p.width),
         NEW i \in 0 .. p.size - 1
  PROVE /\ i \in Immediate(ones) <=> i < p.width
        /\ i \in Immediate(Register \ {j + (p.at - p.unit) : j \in ones}) <=>
             ~(p.at - p.unit <= i /\ i < p.at - p.unit + p.width)
<1> DEFINE bit == p.at - p.unit
<1> DEFINE w == p.width
<1> DEFINE z == p.size
<1>1. /\ bit \in Nat /\ w \in Nat \ {0} /\ z \in Nat /\ z <= 64 /\ bit + w <= z
      /\ z > 32 => bit + w <= 31
  BY DEF PlaceOK, MasksCut
<1> HIDE DEF bit, w, z
<1>2. w < 64
  BY <1>1
<1>3. ones = 0 .. w - 1
  BY <1>2 DEF Ones, w
<1>4. i \in 0 .. z - 1 /\ i \in Register /\ 31 \in Register
  BY <1>1 DEF z, Register
<1>5. i \in Immediate(ones) <=> i < w
  <2>1. i \in Immediate(ones) <=> IF i < 32 THEN i \in ones ELSE 31 \in ones
    BY <1>4 DEF Immediate
  <2> QED BY <1>1, <1>3, <1>4, <2>1
<1> DEFINE rest == Register \ {j + bit : j \in ones}
<1>6. \A x \in Register : x \in rest <=> ~(bit <= x /\ x < bit + w)
  <2> SUFFICES ASSUME NEW x \in Register
               PROVE x \in {j + bit : j \in ones} <=> bit <= x /\ x < bit + w
    OBVIOUS
  <2>1. ASSUME NEW j \in ones, x = j + bit PROVE bit <= x /\ x < bit + w
    BY <1>1, <1>3, <2>1
  <2>2. ASSUME bit <= x, x < bit + w PROVE x - bit \in ones /\ x = (x - bit) + bit
    BY <1>1, <1>3, <2>2 DEF Register
  <2> QED BY <2>1, <2>2
<1> HIDE DEF rest
<1>7. i \in Immediate(rest) <=> ~(bit <= i /\ i < bit + w)
  <2>1. i \in Immediate(rest) <=> IF i < 32 THEN i \in rest ELSE 31 \in rest
    BY <1>4 DEF Immediate
  <2> QED BY <1>1, <1>4, <1>6, <2>1
<1> QED BY <1>5, <1>7 DEF bit, w, rest

\* What a store does to one bit.
LEMMA StoredBit ==
  ASSUME NEW p, NEW bits, PlaceOK(p, bits), ~MasksCut(p), NEW v, NEW ones \in Ones(p.width),
         NEW x \in Int
  PROVE /\ p.at <= x /\ x < p.at + p.width => (x \in Stored(p, v, ones) <=> x - p.at \in v)
        /\ ~(p.at <= x /\ x < p.at + p.width) => (x \in Stored(p, v, ones) <=> x \in mem)
<1> DEFINE bit == p.at - p.unit
<1> DEFINE old == {i \in 0 .. p.size - 1 : p.unit + i \in mem}
<1> DEFINE new == IF p.field
                    THEN Cleared(old, ones, bit) \union {i + bit : i \in v \intersect Immediate(ones)}
                    ELSE v
<1>1. /\ p.at \in Nat /\ p.width \in Nat \ {0} /\ p.unit \in Nat /\ p.size \in Nat /\ p.field \in BOOLEAN
      /\ p.unit <= p.at /\ p.at + p.width <= p.unit + p.size
      /\ p.field => p.size <= 64
      /\ ~p.field => p.unit = p.at /\ p.size = p.width
  BY DEF PlaceOK
<1>2. Stored(p, v, ones) = (mem \ (p.unit .. p.unit + p.size - 1))
                             \union {p.unit + i : i \in new \intersect (0 .. p.size - 1)}
  BY DEF Stored
<1> HIDE DEF new
<1>3. CASE ~(p.unit <= x /\ x < p.unit + p.size)
  <2>1. x \notin p.unit .. p.unit + p.size - 1
    BY <1>1, <1>3
  <2>2. x \notin {p.unit + i : i \in new \intersect (0 .. p.size - 1)}
    BY <1>1, <1>3
  <2>3. ~(p.at <= x /\ x < p.at + p.width)
    BY <1>1, <1>3
  <2> QED BY <1>2, <2>1, <2>2, <2>3
<1>4. CASE p.unit <= x /\ x < p.unit + p.size
  <2> DEFINE i == x - p.unit
  <2>1. i \in 0 .. p.size - 1 /\ x = p.unit + i /\ x \in p.unit .. p.unit + p.size - 1
    BY <1>1, <1>4
  <2>2. \A j \in Int : x = p.unit + j => j = i
    BY <1>1
  <2> HIDE DEF i
  <2>3. x \in Stored(p, v, ones) <=> i \in new
    BY <1>1, <1>2, <2>1, <2>2
  <2>4. CASE ~p.field
    <3>1. p.at <= x /\ x < p.at + p.width /\ i = x - p.at
      BY <1>1, <1>4, <2>4 DEF i
    <3> QED BY <2>3, <2>4, <3>1 DEF new
  <2>5. CASE p.field
    <3>1. /\ i \in Immediate(ones) <=> i < p.width
          /\ i \in Immediate(Register \ {j + bit : j \in ones}) <=> ~(bit <= i /\ i < bit + p.width)
      BY <2>1, <2>5, Masks
    <3>2. p.at <= x /\ x < p.at + p.width <=> bit <= i /\ i < bit + p.width
      BY <1>1, <2>1
    <3>3. i \in Cleared(old, ones, bit) <=> x \in mem /\ ~(bit <= i /\ i < bit + p.width)
      BY <2>1, <3>1 DEF Cleared
    <3>4. Immediate(ones) \subseteq Int /\ Immediate(ones) \subseteq Nat
      BY DEF Immediate, Register
    <3>5. bit \in Nat /\ i \in Int
      BY <1>1, <2>1
    <3> DEFINE in == bit <= i /\ i < bit + p.width
    <3>6. ASSUME in PROVE i \in {j + bit : j \in v \intersect Immediate(ones)} <=> i - bit \in v
      <4>1. i - bit \in 0 .. p.size - 1 /\ i - bit < p.width
        BY <1>1, <2>1, <3>5, <3>6
      <4>2. i - bit \in Immediate(ones)
        BY <2>5, <4>1, Masks
      <4>3. i = (i - bit) + bit /\ \A j \in Int : i = j + bit => j = i - bit
        BY <3>5
      <4> QED BY <3>4, <4>2, <4>3
    <3>7. ASSUME NEW j \in v \intersect Immediate(ones), i = j + bit PROVE in
      <4>1. j \in 0 .. p.size - 1
        BY <1>1, <2>1, <3>4, <3>5, <3>7
      <4>2. j < p.width
        BY <2>5, <4>1, Masks
      <4> QED BY <1>1, <3>4, <3>5, <3>7, <4>2
    <3>8. i \in new <=> IF in THEN i - bit \in v ELSE x \in mem
      <4>1. i \in new <=> i \in Cleared(old, ones, bit) \/ i \in {j + bit : j \in v \intersect Immediate(ones)}
        BY <2>5 DEF new
      <4>2. i \in {j + bit : j \in v \intersect Immediate(ones)} => in
        BY <3>7
      <4> QED BY <3>3, <3>6, <4>1, <4>2
    <3>9. i - bit = x - p.at
      BY <1>1, <2>1
    <3> QED BY <2>3, <3>2, <3>8, <3>9
  <2> QED BY <1>1, <2>4, <2>5
<1> QED BY <1>1, <1>3, <1>4

LEMMA StoreStep ==
  ASSUME Inv, Store, \A i \in DOMAIN types : ~PackedBits(types[i]), ~MasksCut(stored'.place)
  PROVE /\ \A p \in scalars[Len(types)] :
            p # stored'.place => BitsOf(p) \intersect mem' = BitsOf(p) \intersect mem
        /\ \A i \in 0 .. stored'.place.width - 1 : stored'.place.at + i \in mem' <=> i \in stored'.v
<1> DEFINE n == Len(types)
<1>1. PICK place \in scalars[n], v \in Written : \E ones \in Ones(place.width) :
        mem' = Stored(place, v, ones) /\ stored' = [place |-> place, v |-> v]
  BY DEF Store
<1>2. PICK ones \in Ones(place.width) : mem' = Stored(place, v, ones)
  BY <1>1
<1>3. stored'.place = place /\ stored'.v = v
  BY <1>1
<1>4. n \in 1 .. n /\ n \in Nat
  BY Legal DEF Store, Inv, TypesInv, IsSeq
<1>5. PlacesOK(scalars[n], types[n].size * 8, Fine(types, n))
  BY <1>4 DEF Inv, TypesInv
<1>6. Fine(types, n)
  BY SeqDomain DEF Fine, Inv, TypesInv
<1> DEFINE bits == types[n].size * 8
<1>7. (\A p \in scalars[n] : PlaceOK(p, bits)) /\ Apart(scalars[n])
  BY <1>5, <1>6 DEF PlacesOK
<1> HIDE DEF bits, n
<1>8. PlaceOK(place, bits) /\ ~MasksCut(place)
  BY <1>3, <1>7
<1>9. \A x \in Int :
        /\ place.at <= x /\ x < place.at + place.width => (x \in mem' <=> x - place.at \in v)
        /\ ~(place.at <= x /\ x < place.at + place.width) => (x \in mem' <=> x \in mem)
  BY <1>2, <1>8, StoredBit
<1>10. place.at \in Nat /\ place.width \in Nat
  BY <1>8 DEF PlaceOK
<1>11. ASSUME NEW p \in scalars[n], p # place PROVE BitsOf(p) \intersect mem' = BitsOf(p) \intersect mem
  <2>1. PlaceOK(p, bits) /\ (Before(p, place) \/ Before(place, p))
    BY <1>7, <1>11 DEF Apart
  <2>2. p.at \in Nat /\ p.width \in Nat
    BY <2>1 DEF PlaceOK
  <2>3. ASSUME NEW x \in BitsOf(p) PROVE x \in Int /\ ~(place.at <= x /\ x < place.at + place.width)
    BY <1>10, <2>1, <2>2 DEF Before, BitsOf
  <2> QED BY <1>9, <2>3
<1>12. ASSUME NEW i \in 0 .. place.width - 1 PROVE place.at + i \in mem' <=> i \in v
  <2> DEFINE x == place.at + i
  <2>2. x \in Int /\ place.at <= x /\ x < place.at + place.width /\ x - place.at = i
    BY <1>10
  <2> HIDE DEF x
  <2>3. x \in mem' <=> x - place.at \in v
    BY <1>9, <2>2
  <2>4. x \in mem' <=> i \in v
    BY <2>2, <2>3
  <2> QED BY <2>4 DEF x
<1> QED BY <1>3, <1>11, <1>12 DEF n

(***************************************************************************)
(* A store to a scalar, and a bit-field is one, gives it the value and     *)
(* leaves all others as they were: store() and the masks of gen_expr keep  *)
(* to the places struct_decl made, whatever the declarations and values.   *)
(***************************************************************************)
THEOREM StoreTheorem == LayoutSpec => StoreKeepsOthers
<1> DEFINE A ==
      pc = "ready" /\ (\A i \in DOMAIN types : ~PackedBits(types[i])) /\ ~MasksCut(stored'.place) =>
        /\ \A p \in scalars[Len(types)] :
             p # stored'.place => BitsOf(p) \intersect mem' = BitsOf(p) \intersect mem
        /\ \A i \in 0 .. stored'.place.width - 1 : stored'.place.at + i \in mem' <=> i \in stored'.v
<1>1. Inv /\ [LayoutNext]_layout => [A]_layout
  <2> SUFFICES ASSUME Inv, LayoutNext, pc = "ready", \A i \in DOMAIN types : ~PackedBits(types[i]),
                      ~MasksCut(stored'.place)
               PROVE A
    OBVIOUS
  <2>1. ~Declare /\ ~Define
    BY DEF Declare, Define, ArrayOf, struct_union_decl, PlaceInStruct, struct_decl, PlaceInUnion,
           union_decl, Declaring
  <2>2. Store
    BY <2>1 DEF LayoutNext
  <2> QED BY <2>2, StoreStep
<1> QED BY <1>1, LayoutInvariant, PTL DEF LayoutSpec, StoreKeepsOthers
================================================================================
