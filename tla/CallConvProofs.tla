----------------------------- MODULE CallConvProofs -----------------------------
(***************************************************************************)
(* Caller and callee agree on every argument, each is where the convention *)
(* has it, and the stack is aligned and kept: for any types, any number of *)
(* parameters and arguments, and any numbers of registers.                 *)
(*                                                                         *)
(* The loops that decide where an argument goes, two of the caller, one or *)
(* two of the callee and the one of the psABI, run one after the other,    *)
(* each with counters of its own.  The proof puts them side by side in a   *)
(* trace, which says what each loop counts before argument i; that they    *)
(* decide the same of argument i is then a lemma about one type and the    *)
(* counters before it (CallerDecides, CalleeDecides, CalleeHasRoom,        *)
(* AbiDecides).  The invariant says that there is a trace that the loops   *)
(* of the state follow, and where the words of the stack and the registers *)
(* lie in its terms.                                                       *)
(***************************************************************************)
EXTENDS PsAbi, FiniteSetTheorems, NaturalsInduction, TLAPS

\* x is the lesser of a and b.
IsLesser(x, a, b) == x <= a /\ x <= b /\ x \in {a, b}

-------------------------------------------------------------------------------
(***************************************************************************)
(* Types, and how many registers of a kind one takes.                      *)
(***************************************************************************)
Piece(ty, e, c) == InPieces(ty) /\ e <= Words(ty) /\ Class(ty, e) = c
Pieces(ty, c) == N(Piece(ty, 1, c)) + N(Piece(ty, 2, c))
IsSmall(ty) == IsStruct(ty) /\ ty.size <= 8
IsMixed(ty) == IsStruct(ty) /\ ty.size \in 9 .. 16 /\ Fp1(ty) # Fp2(ty)
Sized == {ty \in ArgTypes : ty.size > 0}

\* What size and kind say of words and classes.
LEMMA TypeFacts ==
  ASSUME NEW ty \in Sized
  PROVE  /\ ty.size \in Nat /\ ty.size > 0 /\ ty.kind \in Kinds
         /\ ty.kind \in {"int", "float"} => ty.size = 8 /\ Words(ty) = 1
         /\ ty.kind = "ldouble" => Words(ty) = 2 /\ Aligned16(ty) /\ InMemory(ty)
         /\ ty.kind = "int" => ~InMemory(ty) /\ ~Aligned16(ty) /\ Class(ty, 1) = "gp"
         /\ ty.kind = "float" => ~InMemory(ty) /\ ~Aligned16(ty) /\ Class(ty, 1) = "fp"
         /\ Words(ty) \in Nat \ {0}
         /\ Words(ty) <= 1 <=> ty.size <= 8
         /\ Words(ty) <= 2 <=> ty.size <= 16
<1>1. ty \in [kind : Kinds, size : Nat, scalars : SUBSET (Nat \X (Kinds \ {"struct"}))] /\ ty.size > 0
  BY DEF Sized, ArgTypes
<1>2. /\ ty.kind \in {"int", "float"} => ty.size = 8
      /\ ty.kind = "ldouble" => ty.size = 16
      /\ ty.kind # "struct" => ty.scalars = {<<0, ty.kind>>}
  BY DEF Sized, ArgTypes
<1>3. /\ Words(ty) \in Nat \ {0}
      /\ Words(ty) <= 1 <=> ty.size <= 8
      /\ Words(ty) <= 2 <=> ty.size <= 16
      /\ ty.size = 8 => Words(ty) = 1
      /\ ty.size = 16 => Words(ty) = 2
  <2>1. ASSUME NEW n \in Nat
        PROVE  /\ (n + 7) \div 8 \in Nat
               /\ n > 0 => (n + 7) \div 8 > 0
               /\ (n + 7) \div 8 <= 1 <=> n <= 8
               /\ (n + 7) \div 8 <= 2 <=> n <= 16
    <3> DEFINE d == (n + 7) \div 8
    <3>1. d \in Int /\ 8 * d <= n + 7 /\ n + 7 < 8 * d + 8
      OBVIOUS
    <3> HIDE DEF d
    <3> QED
      BY <3>1
  <2>3. Words(ty) = (ty.size + 7) \div 8
    BY DEF Words
  <2>4. ty.size \in Nat /\ ty.size > 0
    BY <1>1
  <2>5. /\ Words(ty) \in Nat
        /\ ty.size > 0 => Words(ty) > 0
        /\ Words(ty) <= 1 <=> ty.size <= 8
        /\ Words(ty) <= 2 <=> ty.size <= 16
    BY <2>1, <2>3, <2>4, Zenon
  <2> HIDE <1>1
  <2> QED
    BY <2>4, <2>5
<1>4. ty.kind = "ldouble" => Aligned16(ty) /\ InMemory(ty)
  <2>1. <<0, "ldouble">>[2] = "ldouble"
    OBVIOUS
  <2> QED
    BY <1>2, <2>1 DEF Aligned16, InMemory
<1>5. ty.kind \in {"int", "float"} => ~InMemory(ty) /\ ~Aligned16(ty)
  BY <1>1, <1>2 DEF Aligned16, InMemory
<1>6. ty.kind = "int" => Class(ty, 1) = "gp"
  <2>1. <<0, "int">>[1] \div 8 = 1 - 1 /\ <<0, "int">>[2] # "float"
    OBVIOUS
  <2> QED
    BY <1>2, <2>1 DEF Class
<1>7. ty.kind = "float" => Class(ty, 1) = "fp"
  BY <1>2 DEF Class
<1> QED
  BY <1>1, <1>2, <1>3, <1>4, <1>5, <1>6, <1>7

\* has_flonum and the psABI see the same in the two halves of a small struct.
LEMMA HalvesOf ==
  ASSUME NEW ty \in Sized, ty.kind = "struct", ty.size <= 16
  PROVE  /\ Fp1(ty) \in {0, 1} /\ Fp2(ty) \in {0, 1}
         /\ Class(ty, 1) = (IF Fp1(ty) = 1 THEN "fp" ELSE "gp")
         /\ Class(ty, 2) = (IF Fp2(ty) = 1 THEN "fp" ELSE "gp")
         /\ ty.size <= 8 => Fp2(ty) = 1
         /\ N(has_flonum(ty, 8, 16, 8)) = Fp1(ty)
<1>1. /\ ty.size \in Nat /\ \A m \in ty.scalars : m[1] \in Nat /\ m[1] < ty.size
  BY DEF Sized, ArgTypes
<1>2. ASSUME NEW n \in Nat
      PROVE  /\ n \div 8 = 1 - 1 <=> n + 0 \in 0 .. 8 - 1
             /\ n \div 8 = 2 - 1 <=> n + 0 \in 8 .. 16 - 1
             /\ n + 8 \in 8 .. 16 - 1 <=> n + 0 \in 0 .. 8 - 1
             /\ ty.size <= 8 /\ n < ty.size => n + 0 \notin 8 .. 16 - 1
  BY <1>1
<1>3. /\ has_flonum(ty, 0, 8, 0) <=> Class(ty, 1) = "fp"
      /\ has_flonum(ty, 8, 16, 0) <=> Class(ty, 2) = "fp"
      /\ has_flonum(ty, 8, 16, 8) <=> has_flonum(ty, 0, 8, 0)
      /\ ty.size <= 8 => has_flonum(ty, 8, 16, 0)
  BY <1>1, <1>2 DEF has_flonum, Class
<1>4. Class(ty, 1) \in {"fp", "gp"} /\ Class(ty, 2) \in {"fp", "gp"}
  BY DEF Class
<1> QED
  BY <1>3, <1>4 DEF Fp1, Fp2, N

\* The registers of a type, by its kind.
LEMMA PiecesOf ==
  ASSUME NEW ty \in Sized
  PROVE  /\ ty.kind = "int" => Pieces(ty, "gp") = 1 /\ Pieces(ty, "fp") = 0
         /\ ty.kind = "float" => Pieces(ty, "gp") = 0 /\ Pieces(ty, "fp") = 1
         /\ ty.kind = "ldouble" => Pieces(ty, "gp") = 0 /\ Pieces(ty, "fp") = 0
         /\ ty.size > 16 => Pieces(ty, "gp") = 0 /\ Pieces(ty, "fp") = 0
         /\ ty.kind = "struct" /\ ty.size <= 8 =>
              Pieces(ty, "gp") = 1 - Fp1(ty) /\ Pieces(ty, "fp") = Fp1(ty)
         /\ ty.kind = "struct" /\ ty.size > 8 /\ ty.size <= 16 =>
              Pieces(ty, "gp") = 2 - Fp1(ty) - Fp2(ty) /\ Pieces(ty, "fp") = Fp1(ty) + Fp2(ty)
<1> USE DEF Pieces, Piece, InPieces, N
<1>1. CASE ty.kind \in {"int", "float"}
  BY <1>1, TypeFacts
<1>2. CASE ty.kind = "ldouble" \/ ty.size > 16
  BY <1>2, TypeFacts DEF Kinds
<1>3. CASE ty.kind = "struct" /\ ty.size <= 16
  BY <1>3, TypeFacts, HalvesOf
<1> QED
  BY <1>1, <1>2, <1>3, TypeFacts DEF Kinds

\* The psABI counts as many registers as the pieces there are.
LEMMA NeedsPieces ==
  ASSUME NEW ty \in Sized, InPieces(ty), NEW c
  PROVE  Needs(ty, c) = Pieces(ty, c)
<1>1. Words(ty) \in {1, 2}
  BY TypeFacts DEF InPieces
<1> DEFINE S == {e \in 1 .. Words(ty) : Class(ty, e) = c}
<1>2. Needs(ty, c) = Cardinality(S) /\ N(TRUE) = 1 /\ N(FALSE) = 0
  BY DEF Needs, N
<1>3. S = {e \in {1, 2} : Piece(ty, e, c)}
  BY <1>1 DEF Piece
<1> HIDE DEF S
<1>4. Cardinality({}) = 0 /\ Cardinality({1}) = 1 /\ Cardinality({2}) = 1 /\ Cardinality({1, 2}) = 2
  <2>1. Cardinality({}) = 0 /\ Cardinality({1}) = 1 /\ Cardinality({2}) = 1 /\ IsFiniteSet({1})
    BY FS_EmptySet, FS_Singleton
  <2>2. Cardinality({1} \union {2}) = IF 2 \in {1} THEN Cardinality({1}) ELSE Cardinality({1}) + 1
    BY <2>1, FS_AddElement
  <2>3. {1} \union {2} = {1, 2} /\ 2 \notin {1}
    OBVIOUS
  <2> QED
    BY <2>1, <2>2, <2>3
<1>5. CASE Piece(ty, 1, c) /\ Piece(ty, 2, c)
  <2>1. S = {1, 2}
    BY <1>3, <1>5
  <2>2. N(Piece(ty, 1, c)) = 1 /\ N(Piece(ty, 2, c)) = 1
    BY <1>5 DEF N
  <2> QED
    BY <2>1, <2>2, <1>2, <1>4 DEF Pieces
<1>6. CASE Piece(ty, 1, c) /\ ~Piece(ty, 2, c)
  <2>1. S = {1}
    BY <1>3, <1>6
  <2> QED
    BY <2>1, <1>2, <1>4, <1>6 DEF Pieces, N
<1>7. CASE ~Piece(ty, 1, c) /\ Piece(ty, 2, c)
  <2>1. S = {2}
    BY <1>3, <1>7
  <2> QED
    BY <2>1, <1>2, <1>4, <1>7 DEF Pieces, N
<1>8. CASE ~Piece(ty, 1, c) /\ ~Piece(ty, 2, c)
  <2>1. S = {}
    BY <1>3, <1>8
  <2> QED
    BY <2>1, <1>2, <1>4, <1>8 DEF Pieces, N
<1> QED
  BY <1>5, <1>6, <1>7, <1>8

\* Fields of a record that holds a Boolean, one at a time.
LEMMA FitIn ==
  ASSUME NEW in \in BOOLEAN, NEW g, NEW f
  PROVE  Fit(in, g, f).in <=> in
BY DEF Fit

LEMMA FitCounts ==
  ASSUME NEW in, NEW g, NEW f
  PROVE  Fit(in, g, f).gp = g /\ Fit(in, g, f).fp = f
BY DEF Fit

\* What the three loops decide, one by one.
PushIn(ty, g, f) == PushPlace(ty, g, f).in
PushGp(ty, g, f) == PushPlace(ty, g, f).gp
PushFp(ty, g, f) == PushPlace(ty, g, f).fp
PopIn(ty, g, f) == PopPlace(ty, g, f).in
PopGp(ty, g, f) == PopPlace(ty, g, f).gp
PopFp(ty, g, f) == PopPlace(ty, g, f).fp
FrameIn(ty, g, f) == FramePlace(ty, g, f).in
FrameGp(ty, g, f) == FramePlace(ty, g, f).gp
FrameFp(ty, g, f) == FramePlace(ty, g, f).fp

(***************************************************************************)
(* What the two loops of the caller decide on an argument of each kind.    *)
(***************************************************************************)
LEMMA IntPush ==
  ASSUME NEW ty, NEW g \in Nat, NEW f \in Nat, ty.kind = "int"
  PROVE  /\ PushIn(ty, g, f) <=> g < GpMax
         /\ PushGp(ty, g, f) = g + 1
         /\ PushFp(ty, g, f) = f
<1>1. PushPlace(ty, g, f) = Fit(g < GpMax, g + 1, f)
  BY Zenon DEF PushPlace, IsStruct
<1>2. (g < GpMax) \in BOOLEAN
  OBVIOUS
<1>3. Fit(g < GpMax, g + 1, f).in <=> g < GpMax
  BY <1>2, FitIn, Zenon
<1>4. PushIn(ty, g, f) <=> g < GpMax
  BY <1>1, <1>3, Zenon DEF PushIn
<1> QED
  BY <1>1, <1>4, FitCounts DEF N, PushGp, PushFp

LEMMA IntPop ==
  ASSUME NEW ty, NEW g \in Nat, NEW f \in Nat, ty.kind = "int"
  PROVE  /\ PopIn(ty, g, f) <=> g < GpMax
         /\ PopGp(ty, g, f) = IF g < GpMax THEN g + 1 ELSE g
         /\ PopFp(ty, g, f) = f
<1>1. PopPlace(ty, g, f) = Fit(g < GpMax, g + N(g < GpMax), f)
  BY Zenon DEF PopPlace, IsStruct
<1>2. (g < GpMax) \in BOOLEAN
  OBVIOUS
<1>3. Fit(g < GpMax, g + N(g < GpMax), f).in <=> g < GpMax
  BY <1>2, FitIn, Zenon
<1>4. PopIn(ty, g, f) <=> g < GpMax
  BY <1>1, <1>3, Zenon DEF PopIn
<1> QED
  BY <1>1, <1>4, FitCounts DEF N, PopGp, PopFp

LEMMA FloatPush ==
  ASSUME NEW ty, NEW g \in Nat, NEW f \in Nat, ty.kind = "float"
  PROVE  /\ PushIn(ty, g, f) <=> f < FpMax
         /\ PushGp(ty, g, f) = g
         /\ PushFp(ty, g, f) = f + 1
<1>1. PushPlace(ty, g, f) = Fit(f < FpMax, g, f + 1)
  BY Zenon DEF PushPlace, IsStruct
<1>2. (f < FpMax) \in BOOLEAN
  OBVIOUS
<1>3. Fit(f < FpMax, g, f + 1).in <=> f < FpMax
  BY <1>2, FitIn, Zenon
<1>4. PushIn(ty, g, f) <=> f < FpMax
  BY <1>1, <1>3, Zenon DEF PushIn
<1> QED
  BY <1>1, <1>4, FitCounts DEF N, PushGp, PushFp

LEMMA FloatPop ==
  ASSUME NEW ty, NEW g \in Nat, NEW f \in Nat, ty.kind = "float"
  PROVE  /\ PopIn(ty, g, f) <=> f < FpMax
         /\ PopGp(ty, g, f) = g
         /\ PopFp(ty, g, f) = IF f < FpMax THEN f + 1 ELSE f
<1>1. PopPlace(ty, g, f) = Fit(f < FpMax, g, f + N(f < FpMax))
  BY Zenon DEF PopPlace, IsStruct
<1>2. (f < FpMax) \in BOOLEAN
  OBVIOUS
<1>3. Fit(f < FpMax, g, f + N(f < FpMax)).in <=> f < FpMax
  BY <1>2, FitIn, Zenon
<1>4. PopIn(ty, g, f) <=> f < FpMax
  BY <1>1, <1>3, Zenon DEF PopIn
<1> QED
  BY <1>1, <1>4, FitCounts DEF N, PopGp, PopFp

LEMMA LongDoublePush ==
  ASSUME NEW ty, NEW g \in Nat, NEW f \in Nat, ty.kind = "ldouble"
  PROVE  ~PushIn(ty, g, f) /\ PushGp(ty, g, f) = g /\ PushFp(ty, g, f) = f
<1>1. PushPlace(ty, g, f) = Fit(FALSE, g, f)
  BY Zenon DEF PushPlace, IsStruct
<1> QED
  BY <1>1 DEF Fit, PushIn, PushGp, PushFp

LEMMA LongDoublePop ==
  ASSUME NEW ty, NEW g \in Nat, NEW f \in Nat, ty.kind = "ldouble"
  PROVE  ~PopIn(ty, g, f) /\ PopGp(ty, g, f) = g /\ PopFp(ty, g, f) = f
<1>1. PopPlace(ty, g, f) = Fit(FALSE, g, f)
  BY Zenon DEF PopPlace, IsStruct
<1> QED
  BY <1>1 DEF Fit, PopIn, PopGp, PopFp

\* A struct in push_args: a second half is counted whatever its size.
LEMMA StructPush ==
  ASSUME NEW ty \in Sized, NEW g \in Nat, NEW f \in Nat, ty.kind = "struct"
  PROVE  LET h == Fp1(ty) + Fp2(ty)
             fits == ty.size <= 16 /\ f + h < FpMax /\ g + 2 - h < GpMax
         IN  /\ PushIn(ty, g, f) <=> fits
             /\ fits => PushGp(ty, g, f) = g + 2 - h /\ PushFp(ty, g, f) = f + h
             /\ ~fits => PushGp(ty, g, f) = g /\ PushFp(ty, g, f) = f
<1> DEFINE h == Fp1(ty) + Fp2(ty)
<1>1. StructFits(ty, g, f) <=> ty.size <= 16 /\ f + h < FpMax /\ g + 2 - h < GpMax
  BY DEF StructFits
<1>2. CASE StructFits(ty, g, f)
  <2>1. PushPlace(ty, g, f) = Fit(TRUE, g + 2 - h, f + h)
    BY <1>2, Zenon DEF PushPlace, IsStruct
  <2> QED
    BY <1>1, <1>2, <2>1 DEF Fit, PushIn, PushGp, PushFp
<1>3. CASE ~StructFits(ty, g, f)
  <2>1. PushPlace(ty, g, f) = Fit(FALSE, g, f)
    BY <1>3, Zenon DEF PushPlace, IsStruct
  <2> QED
    BY <1>1, <1>3, <2>1 DEF Fit, PushIn, PushGp, PushFp
<1> QED
  BY <1>2, <1>3

\* A struct in the pop loop: as many registers as it has pieces.
LEMMA StructPop ==
  ASSUME NEW ty \in Sized, NEW g \in Nat, NEW f \in Nat, ty.kind = "struct"
  PROVE  LET h == Fp1(ty) + Fp2(ty)
             fits == ty.size <= 16 /\ f + h < FpMax /\ g + 2 - h < GpMax
         IN  /\ PopIn(ty, g, f) <=> fits
             /\ fits => PopGp(ty, g, f) = g + Pieces(ty, "gp") /\ PopFp(ty, g, f) = f + Pieces(ty, "fp")
             /\ ~fits => PopGp(ty, g, f) = g /\ PopFp(ty, g, f) = f
<1> DEFINE h == Fp1(ty) + Fp2(ty)
<1>1. StructFits(ty, g, f) <=> ty.size <= 16 /\ f + h < FpMax /\ g + 2 - h < GpMax
  BY DEF StructFits
<1>2. CASE StructFits(ty, g, f)
  <2>1. PopPlace(ty, g, f) =
          Fit(TRUE, g + (1 - Fp1(ty)) + (IF ty.size > 8 THEN 1 - Fp2(ty) ELSE 0),
                    f + Fp1(ty) + (IF ty.size > 8 THEN Fp2(ty) ELSE 0))
    BY <1>2, Zenon DEF PopPlace, IsStruct
  <2>2. /\ g + (1 - Fp1(ty)) + (IF ty.size > 8 THEN 1 - Fp2(ty) ELSE 0) = g + Pieces(ty, "gp")
        /\ f + Fp1(ty) + (IF ty.size > 8 THEN Fp2(ty) ELSE 0) = f + Pieces(ty, "fp")
    BY <1>1, <1>2, TypeFacts, HalvesOf, PiecesOf
  <2> QED
    BY <1>1, <1>2, <2>1, <2>2 DEF Fit, PopIn, PopGp, PopFp
<1>3. CASE ~StructFits(ty, g, f)
  <2>1. PopPlace(ty, g, f) = Fit(FALSE, g, f)
    BY <1>3, Zenon DEF PopPlace, IsStruct
  <2> QED
    BY <1>1, <1>3, <2>1 DEF Fit, PopIn, PopGp, PopFp
<1> QED
  BY <1>2, <1>3

(***************************************************************************)
(* The two loops of the caller decide alike on an argument, and count      *)
(* alike, but for the floating registers of small structs: before it and   *)
(* after it the psABI counts ug, uf and ug2, uf2 registers, and there are  *)
(* small and small2 such structs.                                          *)
(***************************************************************************)
Counted(ty, ug, uf, small, ug2, uf2, small2) ==
  /\ ug2 = ug + Pieces(ty, "gp") /\ uf2 = uf + Pieces(ty, "fp")
  /\ IsSmall(ty) => small2 = small + 1
  /\ ~IsSmall(ty) => small2 = small
  /\ small2 > 0 => uf2 + small2 <= FpMax
  /\ small2 > 0 /\ IsStruct(ty) /\ ty.size <= 16 => uf2 + small2 < FpMax

CallerCounts(ty, g, f, pg, pf, ug, uf, small, ug2, uf2, small2) ==
  /\ ty \in Sized /\ {g, f, pg, pf, ug, uf, small, ug2, uf2, small2} \subseteq Nat
  /\ Counted(ty, ug, uf, small, ug2, uf2, small2)
  /\ g <= ug /\ f <= uf + small /\ IsLesser(pg, g, GpMax) /\ pf <= f /\ pf <= FpMax
  /\ small = 0 => IsLesser(pf, f, FpMax)
CallerDecided(ty, g, f, pg, pf, ug2, uf2, small2) ==
  /\ PushGp(ty, g, f) \in Nat /\ PushFp(ty, g, f) \in Nat /\ PopGp(ty, pg, pf) \in Nat /\ PopFp(ty, pg, pf) \in Nat
  /\ PushIn(ty, g, f) <=> PopIn(ty, pg, pf)
  /\ PushGp(ty, g, f) <= ug2 /\ PushFp(ty, g, f) <= uf2 + small2
  /\ IsLesser(PopGp(ty, pg, pf), PushGp(ty, g, f), GpMax)
  /\ PopFp(ty, pg, pf) <= PushFp(ty, g, f) /\ PopFp(ty, pg, pf) <= FpMax
  /\ small2 = 0 => IsLesser(PopFp(ty, pg, pf), PushFp(ty, g, f), FpMax)
  /\ PopIn(ty, pg, pf) => PopGp(ty, pg, pf) = pg + Pieces(ty, "gp") /\ PopFp(ty, pg, pf) = pf + Pieces(ty, "fp")
  /\ ~PopIn(ty, pg, pf) => PopGp(ty, pg, pf) = pg /\ PopFp(ty, pg, pf) = pf

\* The two loops of the caller decide the same.
LEMMA CallerDecides ==
  ASSUME NEW ty, NEW g, NEW f, NEW pg, NEW pf, NEW ug, NEW uf, NEW small, NEW ug2, NEW uf2, NEW small2,
         CallerCounts(ty, g, f, pg, pf, ug, uf, small, ug2, uf2, small2)
  PROVE  CallerDecided(ty, g, f, pg, pf, ug2, uf2, small2)
<1> SUFFICES ASSUME
               ty \in Sized, g \in Nat, f \in Nat, pg \in Nat, pf \in Nat,
               ug \in Nat, uf \in Nat, small \in Nat, ug2 \in Nat, uf2 \in Nat, small2 \in Nat,
               Counted(ty, ug, uf, small, ug2, uf2, small2),
               g <= ug, f <= uf + small, IsLesser(pg, g, GpMax), pf <= f, pf <= FpMax,
               small = 0 => IsLesser(pf, f, FpMax)
      PROVE  /\ PushGp(ty, g, f) \in Nat /\ PushFp(ty, g, f) \in Nat /\ PopGp(ty, pg, pf) \in Nat /\ PopFp(ty, pg, pf) \in Nat
             /\ PushIn(ty, g, f) <=> PopIn(ty, pg, pf)
             /\ PushGp(ty, g, f) <= ug2 /\ PushFp(ty, g, f) <= uf2 + small2
             /\ IsLesser(PopGp(ty, pg, pf), PushGp(ty, g, f), GpMax)
             /\ PopFp(ty, pg, pf) <= PushFp(ty, g, f) /\ PopFp(ty, pg, pf) <= FpMax
             /\ small2 = 0 => IsLesser(PopFp(ty, pg, pf), PushFp(ty, g, f), FpMax)
             /\ PopIn(ty, pg, pf) => PopGp(ty, pg, pf) = pg + Pieces(ty, "gp") /\ PopFp(ty, pg, pf) = pf + Pieces(ty, "fp")
             /\ ~PopIn(ty, pg, pf) => PopGp(ty, pg, pf) = pg /\ PopFp(ty, pg, pf) = pf
  BY DEF CallerCounts, CallerDecided
<1> DEFINE P == Pieces(ty, "gp")
           Q == Pieces(ty, "fp")
<1>1. GpMax \in Nat \ {0} /\ FpMax \in Nat \ {0}
  BY RegistersAssumption
<1>2. CASE ty.kind = "int"
  <2>1. P = 1 /\ Q = 0 /\ ~IsSmall(ty)
    BY <1>2, PiecesOf DEF IsSmall, IsStruct
  <2>2. (PushIn(ty, g, f) <=> g < GpMax) /\ PushGp(ty, g, f) = g + 1 /\ PushFp(ty, g, f) = f
    BY <1>2, IntPush
  <2>3. (PopIn(ty, pg, pf) <=> pg < GpMax) /\ PopGp(ty, pg, pf) = (IF pg < GpMax THEN pg + 1 ELSE pg) /\ PopFp(ty, pg, pf) = pf
    BY <1>2, IntPop
  <2> HIDE DEF P, Q
  <2> QED
    BY <1>1, <2>1, <2>2, <2>3 DEF IsLesser, Counted, P, Q
<1>3. CASE ty.kind = "float"
  <2>1. P = 0 /\ Q = 1 /\ ~IsSmall(ty)
    BY <1>3, PiecesOf DEF IsSmall, IsStruct
  <2>2. (PushIn(ty, g, f) <=> f < FpMax) /\ PushGp(ty, g, f) = g /\ PushFp(ty, g, f) = f + 1
    BY <1>3, FloatPush
  <2>3. (PopIn(ty, pg, pf) <=> pf < FpMax) /\ PopGp(ty, pg, pf) = pg /\ PopFp(ty, pg, pf) = (IF pf < FpMax THEN pf + 1 ELSE pf)
    BY <1>3, FloatPop
  <2> HIDE DEF P, Q
  <2> QED
    BY <1>1, <2>1, <2>2, <2>3 DEF IsLesser, Counted, P, Q
<1>4. CASE ty.kind = "ldouble"
  <2>1. P = 0 /\ Q = 0 /\ ~IsSmall(ty)
    BY <1>4, PiecesOf DEF IsSmall, IsStruct
  <2>2. ~PushIn(ty, g, f) /\ PushGp(ty, g, f) = g /\ PushFp(ty, g, f) = f
    BY <1>4, LongDoublePush
  <2>3. ~PopIn(ty, pg, pf) /\ PopGp(ty, pg, pf) = pg /\ PopFp(ty, pg, pf) = pf
    BY <1>4, LongDoublePop
  <2> HIDE DEF P, Q
  <2> QED
    BY <1>1, <2>1, <2>2, <2>3 DEF IsLesser, Counted, P, Q
<1>5. CASE ty.kind = "struct"
  <2> DEFINE h == Fp1(ty) + Fp2(ty)
             fits == ty.size <= 16 /\ f + h < FpMax /\ g + 2 - h < GpMax
             fits2 == ty.size <= 16 /\ pf + h < FpMax /\ pg + 2 - h < GpMax
  <2>1. /\ PushIn(ty, g, f) <=> fits
        /\ fits => PushGp(ty, g, f) = g + 2 - h /\ PushFp(ty, g, f) = f + h
        /\ ~fits => PushGp(ty, g, f) = g /\ PushFp(ty, g, f) = f
    BY <1>5, StructPush
  <2>2. /\ PopIn(ty, pg, pf) <=> fits2
        /\ fits2 => PopGp(ty, pg, pf) = pg + P /\ PopFp(ty, pg, pf) = pf + Q
        /\ ~fits2 => PopGp(ty, pg, pf) = pg /\ PopFp(ty, pg, pf) = pf
    BY <1>5, StructPop
  <2>3. /\ ty.size <= 8 => P = 1 - Fp1(ty) /\ Q = Fp1(ty) /\ Fp2(ty) = 1
        /\ ty.size > 8 /\ ty.size <= 16 => P = 2 - Fp1(ty) - Fp2(ty) /\ Q = Fp1(ty) + Fp2(ty)
        /\ ty.size > 16 => P = 0 /\ Q = 0
        /\ ty.size <= 16 => Fp1(ty) \in {0, 1} /\ Fp2(ty) \in {0, 1}
        /\ ty.size \in Nat
    BY <1>5, PiecesOf, HalvesOf, TypeFacts
  <2>4. IsStruct(ty) /\ (IsSmall(ty) <=> ty.size <= 8)
    BY <1>5 DEF IsStruct, IsSmall
  <2> HIDE DEF P, Q
  <2>5. fits <=> fits2
    BY <1>1, <2>3, <2>4 DEF IsLesser, Counted, P, Q
  <2>6. CASE fits
    BY <1>1, <2>1, <2>2, <2>3, <2>4, <2>5, <2>6 DEF IsLesser, Counted, P, Q
  <2>7. CASE ~fits
    BY <1>1, <2>1, <2>2, <2>3, <2>4, <2>5, <2>7 DEF IsLesser, Counted, P, Q
  <2> QED
    BY <2>6, <2>7
<1> QED
  BY <1>2, <1>3, <1>4, <1>5, TypeFacts DEF Kinds

(***************************************************************************)
(* What assign_lvar_offsets decides on a parameter of each kind.           *)
(***************************************************************************)
LEMMA IntFrame ==
  ASSUME NEW ty, NEW g \in Nat, NEW f \in Nat, ty.kind = "int"
  PROVE  /\ FrameIn(ty, g, f) <=> g < GpMax
         /\ FrameGp(ty, g, f) = g + 1
         /\ FrameFp(ty, g, f) = f
<1>1. FramePlace(ty, g, f) = Fit(g < GpMax, g + 1, f)
  BY Zenon DEF FramePlace, IsStruct
<1>2. (g < GpMax) \in BOOLEAN
  OBVIOUS
<1>3. Fit(g < GpMax, g + 1, f).in <=> g < GpMax
  BY <1>2, FitIn, Zenon
<1>4. FrameIn(ty, g, f) <=> g < GpMax
  BY <1>1, <1>3, Zenon DEF FrameIn
<1> QED
  BY <1>1, <1>4, FitCounts DEF FrameGp, FrameFp

LEMMA FloatFrame ==
  ASSUME NEW ty, NEW g \in Nat, NEW f \in Nat, ty.kind = "float"
  PROVE  /\ FrameIn(ty, g, f) <=> f < FpMax
         /\ FrameGp(ty, g, f) = g
         /\ FrameFp(ty, g, f) = f + 1
<1>1. FramePlace(ty, g, f) = Fit(f < FpMax, g, f + 1)
  BY Zenon DEF FramePlace, IsStruct
<1>2. (f < FpMax) \in BOOLEAN
  OBVIOUS
<1>3. Fit(f < FpMax, g, f + 1).in <=> f < FpMax
  BY <1>2, FitIn, Zenon
<1>4. FrameIn(ty, g, f) <=> f < FpMax
  BY <1>1, <1>3, Zenon DEF FrameIn
<1> QED
  BY <1>1, <1>4, FitCounts DEF FrameGp, FrameFp

LEMMA LongDoubleFrame ==
  ASSUME NEW ty, NEW g \in Nat, NEW f \in Nat, ty.kind = "ldouble"
  PROVE  ~FrameIn(ty, g, f) /\ FrameGp(ty, g, f) = g /\ FrameFp(ty, g, f) = f
<1>1. FramePlace(ty, g, f) = Fit(FALSE, g, f)
  BY Zenon DEF FramePlace, IsStruct
<1> QED
  BY <1>1 DEF Fit, FrameIn, FrameGp, FrameFp

\* A struct in assign_lvar_offsets: its first half is counted twice.
LEMMA StructFrame ==
  ASSUME NEW ty \in Sized, NEW g \in Nat, NEW f \in Nat, ty.kind = "struct"
  PROVE  LET h == IF ty.size <= 8 THEN Fp1(ty) ELSE Fp1(ty) + Fp1(ty)
             n == (IF ty.size <= 8 THEN 1 ELSE 2) - h
             fits == ty.size <= 16 /\ f + h < FpMax /\ g + n < GpMax
         IN  /\ FrameIn(ty, g, f) <=> fits
             /\ fits => FrameGp(ty, g, f) = g + n /\ FrameFp(ty, g, f) = f + h
             /\ ~fits => FrameGp(ty, g, f) = g /\ FrameFp(ty, g, f) = f
<1> DEFINE h == Fp1(ty) + (IF ty.size <= 8 THEN 0 ELSE N(has_flonum(ty, 8, 16, 8)))
           n == (IF ty.size <= 8 THEN 1 ELSE 2) - h
           fits == ty.size <= 16 /\ f + h < FpMax /\ g + n < GpMax
<1>1. CASE fits
  <2>1. FramePlace(ty, g, f) = Fit(TRUE, g + n, f + h)
    BY <1>1, Zenon DEF FramePlace, IsStruct
  <2>2. h = IF ty.size <= 8 THEN Fp1(ty) ELSE Fp1(ty) + Fp1(ty)
    BY <1>1, HalvesOf
  <2> QED
    BY <1>1, <2>1, <2>2 DEF Fit, FrameIn, FrameGp, FrameFp
<1>2. CASE ~fits
  <2>1. FramePlace(ty, g, f) = Fit(FALSE, g, f)
    BY <1>2, Zenon DEF FramePlace, IsStruct
  <2>2. ty.size <= 16 => h = IF ty.size <= 8 THEN Fp1(ty) ELSE Fp1(ty) + Fp1(ty)
    BY <1>2, HalvesOf
  <2> QED
    BY <1>2, <2>1, <2>2 DEF Fit, FrameIn, FrameGp, FrameFp
<1> QED
  BY <1>1, <1>2

(***************************************************************************)
(* The callee decides as the caller does: exactly, where it counts         *)
(* exactly, and with registers to spare where it is wrong about a mixed    *)
(* struct (mix and mix2 of them before it and after it).                   *)
(***************************************************************************)
CalleeCounts(ty, g, f, ff, ug, uf, small, ug2, uf2, small2) ==
  /\ ty \in Sized /\ {g, f, ff, ug, uf, small, ug2, uf2, small2} \subseteq Nat
  /\ Counted(ty, ug, uf, small, ug2, uf2, small2)
  /\ g <= ug /\ f <= uf + small /\ ff <= f /\ (small = 0 => ff = f) /\ ~IsMixed(ty)
CalleeDecided(ty, g, f, ff, small2) ==
  /\ FrameGp(ty, g, ff) \in Nat /\ FrameFp(ty, g, ff) \in Nat
  /\ PushIn(ty, g, f) <=> FrameIn(ty, g, ff)
  /\ FrameGp(ty, g, ff) = PushGp(ty, g, f) /\ FrameFp(ty, g, ff) <= PushFp(ty, g, f)
  /\ small2 = 0 => FrameFp(ty, g, ff) = PushFp(ty, g, f)

\* If no struct has halves of two kinds the callee decides as push_args did.
LEMMA CalleeDecides ==
  ASSUME NEW ty, NEW g, NEW f, NEW ff, NEW ug, NEW uf, NEW small, NEW ug2, NEW uf2, NEW small2,
         CalleeCounts(ty, g, f, ff, ug, uf, small, ug2, uf2, small2)
  PROVE  CalleeDecided(ty, g, f, ff, small2)
<1> SUFFICES ASSUME
               ty \in Sized, g \in Nat, f \in Nat, ff \in Nat,
               ug \in Nat, uf \in Nat, small \in Nat, ug2 \in Nat, uf2 \in Nat, small2 \in Nat,
               Counted(ty, ug, uf, small, ug2, uf2, small2),
               g <= ug, f <= uf + small, ff <= f, small = 0 => ff = f, ~IsMixed(ty)
      PROVE  /\ FrameGp(ty, g, ff) \in Nat /\ FrameFp(ty, g, ff) \in Nat
             /\ PushIn(ty, g, f) <=> FrameIn(ty, g, ff)
             /\ FrameGp(ty, g, ff) = PushGp(ty, g, f) /\ FrameFp(ty, g, ff) <= PushFp(ty, g, f)
             /\ small2 = 0 => FrameFp(ty, g, ff) = PushFp(ty, g, f)
  BY DEF CalleeCounts, CalleeDecided
<1> DEFINE P == Pieces(ty, "gp")
           Q == Pieces(ty, "fp")
<1>1. GpMax \in Nat \ {0} /\ FpMax \in Nat \ {0}
  BY RegistersAssumption
<1>2. CASE ty.kind = "int"
  <2>1. P = 1 /\ Q = 0 /\ ~IsSmall(ty)
    BY <1>2, PiecesOf DEF IsSmall, IsStruct
  <2>2. (PushIn(ty, g, f) <=> g < GpMax) /\ PushGp(ty, g, f) = g + 1 /\ PushFp(ty, g, f) = f
    BY <1>2, IntPush
  <2>3. (FrameIn(ty, g, ff) <=> g < GpMax) /\ FrameGp(ty, g, ff) = g + 1 /\ FrameFp(ty, g, ff) = ff
    BY <1>2, IntFrame
  <2> HIDE DEF P, Q
  <2> QED
    BY <1>1, <2>1, <2>2, <2>3 DEF Counted, P, Q
<1>3. CASE ty.kind = "float"
  <2>1. P = 0 /\ Q = 1 /\ ~IsSmall(ty)
    BY <1>3, PiecesOf DEF IsSmall, IsStruct
  <2>2. (PushIn(ty, g, f) <=> f < FpMax) /\ PushGp(ty, g, f) = g /\ PushFp(ty, g, f) = f + 1
    BY <1>3, FloatPush
  <2>3. (FrameIn(ty, g, ff) <=> ff < FpMax) /\ FrameGp(ty, g, ff) = g /\ FrameFp(ty, g, ff) = ff + 1
    BY <1>3, FloatFrame
  <2> HIDE DEF P, Q
  <2> QED
    BY <1>1, <2>1, <2>2, <2>3 DEF Counted, P, Q
<1>4. CASE ty.kind = "ldouble"
  <2>1. P = 0 /\ Q = 0 /\ ~IsSmall(ty)
    BY <1>4, PiecesOf DEF IsSmall, IsStruct
  <2>2. ~PushIn(ty, g, f) /\ PushGp(ty, g, f) = g /\ PushFp(ty, g, f) = f
    BY <1>4, LongDoublePush
  <2>3. ~FrameIn(ty, g, ff) /\ FrameGp(ty, g, ff) = g /\ FrameFp(ty, g, ff) = ff
    BY <1>4, LongDoubleFrame
  <2> HIDE DEF P, Q
  <2> QED
    BY <1>1, <2>1, <2>2, <2>3 DEF Counted, P, Q
<1>5. CASE ty.kind = "struct"
  <2> DEFINE h == Fp1(ty) + Fp2(ty)
             k == IF ty.size <= 8 THEN Fp1(ty) ELSE Fp1(ty) + Fp1(ty)
             n == (IF ty.size <= 8 THEN 1 ELSE 2) - k
             fits == ty.size <= 16 /\ f + h < FpMax /\ g + 2 - h < GpMax
             fits2 == ty.size <= 16 /\ ff + k < FpMax /\ g + n < GpMax
  <2>1. /\ PushIn(ty, g, f) <=> fits
        /\ fits => PushGp(ty, g, f) = g + 2 - h /\ PushFp(ty, g, f) = f + h
        /\ ~fits => PushGp(ty, g, f) = g /\ PushFp(ty, g, f) = f
    BY <1>5, StructPush
  <2>2. /\ FrameIn(ty, g, ff) <=> fits2
        /\ fits2 => FrameGp(ty, g, ff) = g + n /\ FrameFp(ty, g, ff) = ff + k
        /\ ~fits2 => FrameGp(ty, g, ff) = g /\ FrameFp(ty, g, ff) = ff
    BY <1>5, StructFrame
  <2>3. /\ ty.size <= 8 => P = 1 - Fp1(ty) /\ Q = Fp1(ty) /\ Fp2(ty) = 1
        /\ ty.size > 8 /\ ty.size <= 16 => P = 2 - Fp1(ty) - Fp2(ty) /\ Q = Fp1(ty) + Fp2(ty)
        /\ ty.size <= 16 => Fp1(ty) \in {0, 1} /\ Fp2(ty) \in {0, 1}
        /\ ty.size \in Nat
    BY <1>5, PiecesOf, HalvesOf, TypeFacts
  <2>4. IsStruct(ty) /\ (IsSmall(ty) <=> ty.size <= 8)
    BY <1>5 DEF IsStruct, IsSmall
  <2>5. ty.size > 8 /\ ty.size <= 16 => Fp1(ty) = Fp2(ty)
    BY <2>3, <2>4 DEF IsMixed
  <2> HIDE DEF P, Q
  <2>6. fits <=> fits2
    BY <1>1, <2>3, <2>4, <2>5 DEF Counted, P, Q
  <2>7. CASE fits
    BY <1>1, <2>1, <2>2, <2>3, <2>4, <2>5, <2>6, <2>7 DEF Counted, P, Q
  <2>8. CASE ~fits
    BY <1>1, <2>1, <2>2, <2>3, <2>4, <2>6, <2>8 DEF Counted, P, Q
  <2> QED
    BY <2>7, <2>8
<1> QED
  BY <1>2, <1>3, <1>4, <1>5, TypeFacts DEF Kinds

Spare(ty, ug2, uf2, mix, mix2) ==
  mix <= mix2 /\ (IsMixed(ty) => mix < mix2) /\ ug2 + mix2 < GpMax /\ uf2 + mix2 < FpMax

RoomCounts(ty, g, f, fg, ff, ug, uf, small, ug2, uf2, small2, mix, mix2) ==
  /\ ty \in Sized /\ {g, f, fg, ff, ug, uf, small, ug2, uf2, small2, mix, mix2} \subseteq Nat
  /\ Counted(ty, ug, uf, small, ug2, uf2, small2) /\ Spare(ty, ug2, uf2, mix, mix2)
  /\ g <= ug /\ f <= uf + small /\ fg <= ug + mix /\ ff <= uf + mix
RoomDecided(ty, g, f, fg, ff, ug2, uf2, mix2) ==
  /\ FrameGp(ty, fg, ff) \in Nat /\ FrameFp(ty, fg, ff) \in Nat
  /\ PushIn(ty, g, f) <=> FrameIn(ty, fg, ff)
  /\ FrameGp(ty, fg, ff) <= ug2 + mix2 /\ FrameFp(ty, fg, ff) <= uf2 + mix2

\* If one has, it does so while registers are left over.
LEMMA CalleeHasRoom ==
  ASSUME NEW ty, NEW g, NEW f, NEW fg, NEW ff, NEW ug, NEW uf, NEW small, NEW ug2, NEW uf2, NEW small2,
         NEW mix, NEW mix2, RoomCounts(ty, g, f, fg, ff, ug, uf, small, ug2, uf2, small2, mix, mix2)
  PROVE  RoomDecided(ty, g, f, fg, ff, ug2, uf2, mix2)
<1> SUFFICES ASSUME
               ty \in Sized, g \in Nat, f \in Nat, fg \in Nat, ff \in Nat,
               ug \in Nat, uf \in Nat, small \in Nat, ug2 \in Nat, uf2 \in Nat, small2 \in Nat,
               mix \in Nat, mix2 \in Nat,
               Counted(ty, ug, uf, small, ug2, uf2, small2),
               Spare(ty, ug2, uf2, mix, mix2),
               g <= ug, f <= uf + small, fg <= ug + mix, ff <= uf + mix
      PROVE  /\ FrameGp(ty, fg, ff) \in Nat /\ FrameFp(ty, fg, ff) \in Nat
             /\ PushIn(ty, g, f) <=> FrameIn(ty, fg, ff)
             /\ FrameGp(ty, fg, ff) <= ug2 + mix2 /\ FrameFp(ty, fg, ff) <= uf2 + mix2
  BY DEF RoomCounts, RoomDecided
<1> DEFINE P == Pieces(ty, "gp")
           Q == Pieces(ty, "fp")
<1>1. GpMax \in Nat \ {0} /\ FpMax \in Nat \ {0}
  BY RegistersAssumption
<1>2. CASE ty.kind = "int"
  <2>1. P = 1 /\ Q = 0 /\ ~IsSmall(ty)
    BY <1>2, PiecesOf DEF IsSmall, IsStruct
  <2>2. (PushIn(ty, g, f) <=> g < GpMax)
    BY <1>2, IntPush
  <2>3. (FrameIn(ty, fg, ff) <=> fg < GpMax) /\ FrameGp(ty, fg, ff) = fg + 1 /\ FrameFp(ty, fg, ff) = ff
    BY <1>2, IntFrame
  <2> HIDE DEF P, Q
  <2> QED
    BY <1>1, <2>1, <2>2, <2>3 DEF Counted, Spare, P, Q
<1>3. CASE ty.kind = "float"
  <2>1. P = 0 /\ Q = 1 /\ ~IsSmall(ty)
    BY <1>3, PiecesOf DEF IsSmall, IsStruct
  <2>2. (PushIn(ty, g, f) <=> f < FpMax)
    BY <1>3, FloatPush
  <2>3. (FrameIn(ty, fg, ff) <=> ff < FpMax) /\ FrameGp(ty, fg, ff) = fg /\ FrameFp(ty, fg, ff) = ff + 1
    BY <1>3, FloatFrame
  <2> HIDE DEF P, Q
  <2> QED
    BY <1>1, <2>1, <2>2, <2>3 DEF Counted, Spare, P, Q
<1>4. CASE ty.kind = "ldouble"
  <2>1. P = 0 /\ Q = 0
    BY <1>4, PiecesOf
  <2>2. ~PushIn(ty, g, f)
    BY <1>4, LongDoublePush
  <2>3. ~FrameIn(ty, fg, ff) /\ FrameGp(ty, fg, ff) = fg /\ FrameFp(ty, fg, ff) = ff
    BY <1>4, LongDoubleFrame
  <2> HIDE DEF P, Q
  <2> QED
    BY <1>1, <2>1, <2>2, <2>3 DEF Counted, Spare, P, Q
<1>5. CASE ty.kind = "struct"
  <2> DEFINE h == Fp1(ty) + Fp2(ty)
             k == IF ty.size <= 8 THEN Fp1(ty) ELSE Fp1(ty) + Fp1(ty)
             n == (IF ty.size <= 8 THEN 1 ELSE 2) - k
             fits == ty.size <= 16 /\ f + h < FpMax /\ g + 2 - h < GpMax
             fits2 == ty.size <= 16 /\ ff + k < FpMax /\ fg + n < GpMax
  <2>1. PushIn(ty, g, f) <=> fits
    BY <1>5, StructPush
  <2>2. /\ FrameIn(ty, fg, ff) <=> fits2
        /\ fits2 => FrameGp(ty, fg, ff) = fg + n /\ FrameFp(ty, fg, ff) = ff + k
        /\ ~fits2 => FrameGp(ty, fg, ff) = fg /\ FrameFp(ty, fg, ff) = ff
    BY <1>5, StructFrame
  <2>3. /\ ty.size <= 8 => P = 1 - Fp1(ty) /\ Q = Fp1(ty) /\ Fp2(ty) = 1
        /\ ty.size > 8 /\ ty.size <= 16 => P = 2 - Fp1(ty) - Fp2(ty) /\ Q = Fp1(ty) + Fp2(ty)
        /\ ty.size > 16 => P = 0 /\ Q = 0
        /\ ty.size <= 16 => Fp1(ty) \in {0, 1} /\ Fp2(ty) \in {0, 1}
        /\ ty.size \in Nat
    BY <1>5, PiecesOf, HalvesOf, TypeFacts
  <2>4. IsStruct(ty) /\ (IsSmall(ty) <=> ty.size <= 8)
    BY <1>5 DEF IsStruct, IsSmall
  <2>5. ty.size > 8 /\ ty.size <= 16 => Fp1(ty) = Fp2(ty) \/ mix < mix2
    BY <2>3, <2>4 DEF IsMixed, Spare
  <2> HIDE DEF P, Q
  <2>6. CASE ty.size <= 8
    BY <1>1, <2>1, <2>2, <2>3, <2>4, <2>6 DEF Counted, Spare, P, Q
  <2>7. CASE ty.size > 8 /\ ty.size <= 16
    <3>1. fits
      BY <1>1, <2>3, <2>4, <2>7 DEF Counted, Spare, P, Q
    <3>2. fits2 /\ fg + n <= ug2 + mix2 /\ ff + k <= uf2 + mix2 /\ fg + n \in Nat /\ ff + k \in Nat
      BY <1>1, <2>3, <2>4, <2>5, <2>7 DEF Counted, Spare, P, Q
    <3> HIDE DEF fits, fits2, n, k, h
    <3> QED
      BY <3>1, <3>2, <2>1, <2>2
  <2>8. CASE ty.size > 16
    BY <1>1, <2>1, <2>2, <2>3, <2>4, <2>8 DEF Counted, Spare, P, Q
  <2> QED
    BY <2>3, <2>6, <2>7, <2>8
<1> QED
  BY <1>2, <1>3, <1>4, <1>5, TypeFacts DEF Kinds

(***************************************************************************)
(* The psABI gives an argument registers when push_args does, if there is  *)
(* one to spare for a struct.                                              *)
(***************************************************************************)
AbiDecided(ty, g, f, pg, pf) ==
  /\ ~InMemory(ty) /\ pg + Needs(ty, "gp") <= GpMax /\ pf + Needs(ty, "fp") <= FpMax <=> PushIn(ty, g, f)
  /\ ~InMemory(ty) => Needs(ty, "gp") = Pieces(ty, "gp") /\ Needs(ty, "fp") = Pieces(ty, "fp")
  /\ Aligned16(ty) <=> ty.kind = "ldouble"

\* The psABI decides as push_args does if a struct leaves a register over.
LEMMA AbiDecides ==
  ASSUME NEW ty, NEW g, NEW f, NEW pg, NEW pf, NEW ug, NEW uf, NEW small, NEW ug2, NEW uf2, NEW small2,
         CallerCounts(ty, g, f, pg, pf, ug, uf, small, ug2, uf2, small2),
         IsStruct(ty) => ~Aligned16(ty),
         IsStruct(ty) /\ ty.size <= 16 => ug2 < GpMax /\ uf2 < FpMax
  PROVE  AbiDecided(ty, g, f, pg, pf)
<1> SUFFICES ASSUME
               ty \in Sized, g \in Nat, f \in Nat, pg \in Nat, pf \in Nat,
               ug \in Nat, uf \in Nat, small \in Nat, ug2 \in Nat, uf2 \in Nat, small2 \in Nat,
               Counted(ty, ug, uf, small, ug2, uf2, small2),
               g <= ug, f <= uf + small, IsLesser(pg, g, GpMax), pf <= f, pf <= FpMax,
               small = 0 => IsLesser(pf, f, FpMax),
               IsStruct(ty) => ~Aligned16(ty),
               IsStruct(ty) /\ ty.size <= 16 => ug2 < GpMax /\ uf2 < FpMax
      PROVE  /\ ~InMemory(ty) /\ pg + Needs(ty, "gp") <= GpMax /\ pf + Needs(ty, "fp") <= FpMax
                  <=> PushIn(ty, g, f)
             /\ ~InMemory(ty) => Needs(ty, "gp") = Pieces(ty, "gp") /\ Needs(ty, "fp") = Pieces(ty, "fp")
             /\ Aligned16(ty) <=> ty.kind = "ldouble"
  BY DEF CallerCounts, AbiDecided
<1> DEFINE P == Pieces(ty, "gp")
           Q == Pieces(ty, "fp")
<1>1. GpMax \in Nat \ {0} /\ FpMax \in Nat \ {0}
  BY RegistersAssumption
<1>2. CASE ty.kind = "int"
  <2>1. P = 1 /\ Q = 0 /\ ~IsSmall(ty) /\ ~InMemory(ty) /\ ~Aligned16(ty) /\ InPieces(ty)
    BY <1>2, PiecesOf, TypeFacts DEF IsSmall, IsStruct, InPieces
  <2>2. Needs(ty, "gp") = P /\ Needs(ty, "fp") = Q
    BY <2>1, NeedsPieces
  <2>3. PushIn(ty, g, f) <=> g < GpMax
    BY <1>2, IntPush
  <2> HIDE DEF P, Q
  <2> QED
    BY <1>1, <1>2, <2>1, <2>2, <2>3 DEF Counted, IsLesser, P, Q
<1>3. CASE ty.kind = "float"
  <2>1. P = 0 /\ Q = 1 /\ ~IsSmall(ty) /\ ~InMemory(ty) /\ ~Aligned16(ty) /\ InPieces(ty)
    BY <1>3, PiecesOf, TypeFacts DEF IsSmall, IsStruct, InPieces
  <2>2. Needs(ty, "gp") = P /\ Needs(ty, "fp") = Q
    BY <2>1, NeedsPieces
  <2>3. PushIn(ty, g, f) <=> f < FpMax
    BY <1>3, FloatPush
  <2> HIDE DEF P, Q
  <2> QED
    BY <1>1, <1>3, <2>1, <2>2, <2>3 DEF Counted, IsLesser, P, Q
<1>4. CASE ty.kind = "ldouble"
  <2>1. InMemory(ty) /\ Aligned16(ty)
    BY <1>4, TypeFacts
  <2>2. ~PushIn(ty, g, f)
    BY <1>4, LongDoublePush
  <2> QED
    BY <1>4, <2>1, <2>2
<1>5. CASE ty.kind = "struct" /\ ty.size > 16
  <2>1. InMemory(ty) /\ ~Aligned16(ty)
    BY <1>5 DEF InMemory, IsStruct
  <2>2. ~PushIn(ty, g, f)
    BY <1>5, StructPush, TypeFacts
  <2> QED
    BY <1>5, <2>1, <2>2
<1>6. CASE ty.kind = "struct" /\ ty.size <= 16
  <2> DEFINE h == Fp1(ty) + Fp2(ty)
             fits == f + h < FpMax /\ g + 2 - h < GpMax
  <2>1. PushIn(ty, g, f) <=> fits
    BY <1>6, StructPush
  <2>2. /\ ty.size <= 8 => P = 1 - Fp1(ty) /\ Q = Fp1(ty) /\ Fp2(ty) = 1
        /\ ty.size > 8 => P = 2 - Fp1(ty) - Fp2(ty) /\ Q = Fp1(ty) + Fp2(ty)
        /\ Fp1(ty) \in {0, 1} /\ Fp2(ty) \in {0, 1}
        /\ ty.size \in Nat
    BY <1>6, PiecesOf, HalvesOf, TypeFacts
  <2>3. IsStruct(ty) /\ (IsSmall(ty) <=> ty.size <= 8)
    BY <1>6 DEF IsStruct, IsSmall
  <2>4. ~InMemory(ty) /\ ~Aligned16(ty) /\ InPieces(ty)
    BY <1>6, <2>2, <2>3 DEF InMemory, Aligned16, InPieces
  <2>5. Needs(ty, "gp") = P /\ Needs(ty, "fp") = Q
    BY <2>4, NeedsPieces
  <2> HIDE DEF P, Q
  <2>6. fits
    BY <1>1, <1>6, <2>2, <2>3 DEF Counted, P, Q
  <2>7. pg + P <= GpMax /\ pf + Q <= FpMax
    BY <1>1, <1>6, <2>2, <2>3 DEF Counted, IsLesser, P, Q
  <2> QED
    BY <1>6, <2>1, <2>4, <2>5, <2>6, <2>7 DEF P, Q
<1> QED
  BY <1>2, <1>3, <1>4, <1>5, <1>6, TypeFacts DEF Kinds

-------------------------------------------------------------------------------
(***************************************************************************)
(* The arguments of the call, and what the psABI has counted up to one.    *)
(***************************************************************************)
Last == Len(Args)

\* Parameters and the arguments beyond them make up the arguments.
LEMMA ArgsOf ==
  ASSUME call \in Calls
  PROVE  /\ Params \in Seq(Sized) /\ call.more \in Seq(ArgTypes) /\ Args \in Seq(ArgTypes)
         /\ call.big \in BOOLEAN /\ call.temps \in Nat
         /\ Last \in Nat /\ Last = Len(Params) + Len(call.more) /\ DOMAIN Args = 1 .. Last
         /\ Len(Params) \in Nat /\ DOMAIN Params = 1 .. Len(Params)
         /\ Len(call.more) \in Nat /\ DOMAIN call.more = 1 .. Len(call.more)
         /\ \A i \in 1 .. Len(Params) : Args[i] = Params[i] /\ i \in 1 .. Last
         /\ \A i \in 1 .. Len(call.more) : Args[Len(Params) + i] = call.more[i] /\ Len(Params) + i \in 1 .. Last
         /\ \A i \in 1 .. Last : Args[i] \in ArgTypes
         /\ ~EmptyStruct => \A i \in 1 .. Last : Args[i] \in Sized
<1>1. call \in [params : Seq(Sized), more : Seq(ArgTypes), big : BOOLEAN, temps : Nat]
  BY CallsAssumption DEF Sized
<1>2. Params \in Seq(Sized) /\ call.more \in Seq(ArgTypes) /\ call.big \in BOOLEAN /\ call.temps \in Nat
  BY <1>1 DEF Params
<1>3. Params \in Seq(ArgTypes)
  <2>1. \A k \in 1 .. Len(Params) : Params[k] \in ArgTypes
    BY <1>2 DEF Sized
  <2> QED
    BY <1>2, <2>1
<1>4. Args = Params \o call.more
  BY DEF Args, Params
<1> HIDE DEF Params
<1>5. /\ Args \in Seq(ArgTypes)
      /\ Last = Len(Params) + Len(call.more)
      /\ Len(Params) \in Nat /\ Len(call.more) \in Nat /\ Last \in Nat
      /\ DOMAIN Args = 1 .. Last /\ DOMAIN Params = 1 .. Len(Params) /\ DOMAIN call.more = 1 .. Len(call.more)
  BY <1>2, <1>3, <1>4 DEF Last
<1>6. \A i \in 1 .. Len(Params) : Args[i] = Params[i] /\ i \in 1 .. Last
  BY <1>2, <1>3, <1>4, <1>5
<1>7. \A i \in 1 .. Len(call.more) : Args[Len(Params) + i] = call.more[i] /\ Len(Params) + i \in 1 .. Last
  BY <1>2, <1>3, <1>4, <1>5
<1>8. \A i \in 1 .. Last : Args[i] \in ArgTypes
  BY <1>5
<1>9. ~EmptyStruct => \A i \in 1 .. Last : Args[i] \in Sized
  <2> SUFFICES ASSUME ~EmptyStruct, NEW i \in 1 .. Last
               PROVE  Args[i] \in Sized
    OBVIOUS
  <2>1. Args[i] \in ArgTypes /\ Args[i].size # 0
    BY <1>5, <1>8 DEF EmptyStruct
  <2> QED
    BY <2>1 DEF Sized, ArgTypes
<1> QED
  BY <1>2, <1>5, <1>6, <1>7, <1>8, <1>9

CountUpto(S, k) == Cardinality({i \in S : i <= k})

\* How a count grows by one element.
LEMMA CountStep ==
  ASSUME NEW S, S \subseteq Nat \ {0}, NEW k \in Nat
  PROVE  /\ CountUpto(S, k) \in Nat
         /\ CountUpto(S, 0) = 0
         /\ k > 0 => CountUpto(S, k) = CountUpto(S, k - 1) + N(k \in S)
         /\ \A j \in 0 .. k : CountUpto(S, j) <= CountUpto(S, k)
<1> DEFINE T(j) == {i \in S : i <= j}
<1>0. ASSUME NEW i \in S, NEW j \in Nat
      PROVE  /\ i <= j => i \in 1 .. j
             /\ ~(i <= 0)
             /\ j <= k /\ i <= j => i <= k
             /\ k > 0 => (i <= k <=> i <= k - 1 \/ i = k)
  <2>1. i \in Nat /\ i > 0
    OBVIOUS
  <2> QED
    BY <2>1
<1>1. ASSUME NEW j \in Nat
      PROVE  IsFiniteSet(T(j)) /\ Cardinality(T(j)) \in Nat
  <2>1. T(j) \in SUBSET (1 .. j)
    BY <1>0, Zenon
  <2>2. IsFiniteSet(1 .. j)
    BY FS_Interval
  <2> HIDE DEF T
  <2>3. IsFiniteSet(T(j))
    BY <2>1, <2>2, FS_Subset
  <2> QED
    BY <2>3, FS_CardinalityType
<1>2. CountUpto(S, 0) = 0
  <2>1. T(0) = {}
    BY <1>0, Zenon
  <2> QED
    BY <2>1, FS_EmptySet DEF CountUpto
<1>3. ASSUME k > 0
      PROVE  CountUpto(S, k) = CountUpto(S, k - 1) + N(k \in S)
  <2>3. k - 1 \in Nat /\ k \notin T(k - 1)
    BY <1>3
  <2>0. IsFiniteSet(T(k - 1)) /\ Cardinality(T(k - 1)) \in Nat
    BY <1>1, <2>3
  <2>1. CASE k \in S
    <3>1. T(k) = T(k - 1) \union {k}
      BY <1>0, <1>3, <2>1, Zenon
    <3> HIDE DEF T
    <3>2. Cardinality(T(k)) = Cardinality(T(k - 1)) + 1
      BY <2>0, <2>3, <3>1, FS_AddElement
    <3> QED
      BY <2>1, <3>2 DEF T, CountUpto, N
  <2>2. CASE k \notin S
    <3>1. T(k) = T(k - 1)
      BY <1>0, <1>3, <2>2, Zenon
    <3>2. N(k \in S) = 0
      BY <2>2 DEF N
    <3> QED
      BY <2>0, <3>1, <3>2 DEF CountUpto
  <2> QED
    BY <2>1, <2>2
<1>4. ASSUME NEW j \in 0 .. k
      PROVE  CountUpto(S, j) <= CountUpto(S, k)
  <2>0. j \in Nat /\ j <= k
    OBVIOUS
  <2>1. T(j) \in SUBSET T(k)
    BY <1>0, <2>0, Zenon
  <2>2. IsFiniteSet(T(k))
    BY <1>1
  <2> HIDE DEF T
  <2>3. Cardinality(T(j)) <= Cardinality(T(k))
    BY <2>1, <2>2, FS_Subset
  <2> QED
    BY <2>3 DEF T, CountUpto
<1> QED
  BY <1>1, <1>2, <1>3, <1>4 DEF CountUpto

\* The psABI counts the pieces of one argument after another.
LEMMA UptoStep ==
  ASSUME NEW c, NEW k \in Nat
  PROVE  /\ Upto(k, c) \in Nat
         /\ Upto(0, c) = N(c = "gp" /\ call.big)
         /\ k > 0 => Upto(k, c) = Upto(k - 1, c) + Pieces(Args[k], c)
         /\ \A j \in 0 .. k : Upto(j, c) <= Upto(k, c)
<1> DEFINE E(j) == Eightbytes(j, c)
           n == N(c = "gp" /\ call.big)
<1>1. n \in Nat
  BY DEF N
<1>2. ASSUME NEW j \in Nat
      PROVE  IsFiniteSet(E(j)) /\ Cardinality(E(j)) \in Nat
  <2>1. IsFiniteSet(1 .. j) /\ IsFiniteSet({1, 2})
    <3>1. {1, 2} = {1} \union {2} /\ IsFiniteSet({1})
      BY FS_Singleton
    <3>2. IsFiniteSet({1, 2})
      BY <3>1, FS_AddElement
    <3> QED
      BY <3>2, FS_Interval
  <2>2. IsFiniteSet((1 .. j) \X {1, 2})
    BY <2>1, FS_Product
  <2>3. E(j) \in SUBSET ((1 .. j) \X {1, 2})
    BY DEF Eightbytes
  <2>4. IsFiniteSet(E(j))
    BY <2>2, <2>3, FS_Subset
  <2> QED
    BY <2>4, FS_CardinalityType
<1>3. Upto(0, c) = n
  <2>1. E(0) = {}
    BY DEF Eightbytes
  <2> QED
    BY <1>1, <2>1, FS_EmptySet DEF Upto
<1>4. ASSUME k > 0
      PROVE  Upto(k, c) = Upto(k - 1, c) + Pieces(Args[k], c)
  <2> DEFINE P(e) == Piece(Args[k], e, c)
             A == E(k - 1) \union (IF P(1) THEN {<<k, 1>>} ELSE {})
  <2>1. k - 1 \in Nat /\ IsFiniteSet(E(k - 1)) /\ Cardinality(E(k - 1)) \in Nat
    BY <1>2, <1>4
  <2>2. <<k, 1>> \notin E(k - 1) /\ <<k, 2>> \notin E(k - 1)
    BY <1>4 DEF Eightbytes
  <2>3. E(k) = A \union (IF P(2) THEN {<<k, 2>>} ELSE {})
    <3>1. ASSUME NEW x \in (1 .. k - 1) \X {1, 2}
          PROVE  x \in E(k) <=> x \in E(k - 1)
      BY <1>4 DEF Eightbytes
    <3>2. ASSUME NEW e \in {1, 2}
          PROVE  <<k, e>> \in E(k) <=> P(e)
      BY <1>4 DEF Eightbytes, Piece
    <3>3. \A x \in (1 .. k) \X {1, 2} : x \in (1 .. k - 1) \X {1, 2} \/ x = <<k, 1>> \/ x = <<k, 2>>
      BY <1>4
    <3>4. E(k) \subseteq (1 .. k) \X {1, 2} /\ E(k - 1) \subseteq (1 .. k - 1) \X {1, 2}
      BY DEF Eightbytes
    <3>5. \A x \in (1 .. k - 1) \X {1, 2} : x # <<k, 1>> /\ x # <<k, 2>>
      BY <1>4
    <3>6. (1 .. k - 1) \X {1, 2} \subseteq (1 .. k) \X {1, 2}
      BY <1>4
    <3> HIDE DEF E, P
    <3>7. ASSUME NEW x
          PROVE  x \in E(k) <=> x \in A \union (IF P(2) THEN {<<k, 2>>} ELSE {})
      BY <3>1, <3>2, <3>3, <3>4, <3>5, <3>6
    <3> QED
      BY <3>7
  <2> HIDE DEF E
  <2>4. IsFiniteSet(A) /\ Cardinality(A) = Cardinality(E(k - 1)) + N(P(1)) /\ <<k, 2>> \notin A
    <3>1. CASE P(1)
      <4>1. A = E(k - 1) \union {<<k, 1>>}
        BY <3>1
      <4>2. IsFiniteSet(A) /\ Cardinality(A) = Cardinality(E(k - 1)) + 1
        BY <2>1, <2>2, <4>1, FS_AddElement
      <4> QED
        BY <2>2, <3>1, <4>1, <4>2 DEF N
    <3>2. CASE ~P(1)
      <4>1. A = E(k - 1)
        BY <3>2
      <4> QED
        BY <2>1, <2>2, <3>2, <4>1 DEF N
    <3> QED
      BY <3>1, <3>2
  <2>5. Cardinality(E(k)) = Cardinality(A) + N(P(2))
    <3> HIDE DEF A
    <3>1. CASE P(2)
      <4>1. E(k) = A \union {<<k, 2>>}
        BY <2>3, <3>1
      <4> QED
        BY <2>4, <3>1, <4>1, FS_AddElement DEF N
    <3>2. CASE ~P(2)
      <4>1. E(k) = A
        BY <2>3, <3>2
      <4>2. Cardinality(A) \in Nat
        BY <2>4, FS_CardinalityType
      <4> QED
        BY <3>2, <4>1, <4>2 DEF N
    <3> QED
      BY <3>1, <3>2
  <2>6. N(P(1)) \in Nat /\ N(P(2)) \in Nat /\ Pieces(Args[k], c) = N(P(1)) + N(P(2))
    BY DEF N, Pieces
  <2>7. Upto(k, c) = n + Cardinality(E(k)) /\ Upto(k - 1, c) = n + Cardinality(E(k - 1))
    BY DEF Upto, E
  <2> HIDE DEF P, n, A
  <2> QED
    BY <1>1, <2>1, <2>4, <2>5, <2>6, <2>7
<1>5. ASSUME NEW j \in 0 .. k
      PROVE  Upto(j, c) <= Upto(k, c)
  <2>1. E(j) \in SUBSET E(k)
    <3>1. (1 .. j) \X {1, 2} \subseteq (1 .. k) \X {1, 2}
      OBVIOUS
    <3> QED
      BY <3>1 DEF Eightbytes
  <2>2. IsFiniteSet(E(k)) /\ Cardinality(E(k)) \in Nat /\ Cardinality(E(j)) \in Nat
    BY <1>2
  <2> HIDE DEF E
  <2>3. Cardinality(E(j)) <= Cardinality(E(k))
    BY <2>1, <2>2, FS_Subset
  <2>4. Upto(k, c) = n + Cardinality(E(k)) /\ Upto(j, c) = n + Cardinality(E(j))
    BY DEF Upto, E
  <2> HIDE DEF n
  <2> QED
    BY <1>1, <2>2, <2>3, <2>4
<1>6. Upto(k, c) \in Nat
  BY <1>1, <1>2 DEF Upto
<1> QED
  BY <1>3, <1>4, <1>5, <1>6

\* The counts of one argument.
MixedUpto(k) == CountUpto(Mixed, k)

\* The sets of structs, by argument.
LEMMA ArgKinds ==
  ASSUME call \in Calls, NEW k \in 1 .. Last
  PROVE  /\ k \in Structs <=> IsStruct(Args[k]) /\ Args[k].size <= 16
         /\ k \in Small <=> IsSmall(Args[k])
         /\ ~EmptyStruct => (k \in Mixed <=> IsMixed(Args[k]))
<1>1. DOMAIN Args = 1 .. Last
  BY ArgsOf
<1>2. Args[k] \in ArgTypes
  BY ArgsOf
<1>3. Args[k].size \in Nat
  BY <1>2 DEF ArgTypes
<1>4. k \in Structs <=> IsStruct(Args[k]) /\ Args[k].size <= 16
  BY <1>1 DEF Structs
<1>5. k \in Small <=> k \in Structs /\ Args[k].size <= 8
  BY DEF Small
<1>6. k \in Mixed <=> k \in Structs /\ Args[k].size > 8 /\ Fp1(Args[k]) # Fp2(Args[k])
  BY DEF Mixed
<1>7. (Args[k].size <= 8 => Args[k].size <= 16) /\ (Args[k].size \in 9 .. 16 <=> Args[k].size > 8 /\ Args[k].size <= 16)
  BY <1>3
<1> QED
  BY <1>4, <1>5, <1>6, <1>7, Zenon DEF IsSmall, IsMixed

LEMMA SmallCounts ==
  ASSUME call \in Calls, NEW k \in Nat
  PROVE  /\ SmallUpto(k) \in Nat
         /\ SmallUpto(0) = 0
         /\ k > 0 => SmallUpto(k) = SmallUpto(k - 1) + N(k \in Small)
<1>1. Small \subseteq Nat \ {0}
  <2>1. DOMAIN Args = 1 .. Last /\ Last \in Nat
    BY ArgsOf
  <2>2. Small \subseteq DOMAIN Args
    BY DEF Small, Structs
  <2> QED
    BY <2>1, <2>2
<1>2. \A j \in Nat : SmallUpto(j) = CountUpto(Small, j)
  BY DEF SmallUpto, CountUpto
<1>3. /\ CountUpto(Small, k) \in Nat
      /\ CountUpto(Small, 0) = 0
      /\ k > 0 => CountUpto(Small, k) = CountUpto(Small, k - 1) + N(k \in Small)
  BY <1>1, CountStep
<1>4. k > 0 => k - 1 \in Nat
  OBVIOUS
<1> QED
  BY <1>2, <1>3, <1>4, Zenon

LEMMA MixedCounts ==
  ASSUME call \in Calls, NEW k \in Nat
  PROVE  /\ MixedUpto(k) \in Nat
         /\ MixedUpto(0) = 0
         /\ k > 0 => MixedUpto(k) = MixedUpto(k - 1) + N(k \in Mixed)
         /\ k <= Last => MixedUpto(k) <= Cardinality(Mixed)
         /\ Cardinality(Mixed) \in Nat
<1>1. Mixed \subseteq 1 .. Last /\ Last \in Nat
  <2>1. DOMAIN Args = 1 .. Last /\ Last \in Nat
    BY ArgsOf
  <2>2. Mixed \subseteq DOMAIN Args
    BY DEF Mixed, Structs
  <2> QED
    BY <2>1, <2>2
<1>2. Mixed \subseteq Nat \ {0}
  BY <1>1
<1>3. CountUpto(Mixed, Last) = Cardinality(Mixed)
  <2>1. \A i \in Mixed : i <= Last
    BY <1>1
  <2>2. {i \in Mixed : i <= Last} = Mixed
    BY <2>1, Zenon
  <2> QED
    BY <2>2 DEF CountUpto
<1>4. \A j \in 0 .. Last : CountUpto(Mixed, j) <= CountUpto(Mixed, Last)
  BY <1>1, <1>2, CountStep
<1>5. CountUpto(Mixed, Last) \in Nat
  BY <1>1, <1>2, CountStep
<1>6. /\ CountUpto(Mixed, k) \in Nat
      /\ CountUpto(Mixed, 0) = 0
      /\ k > 0 => CountUpto(Mixed, k) = CountUpto(Mixed, k - 1) + N(k \in Mixed)
  BY <1>2, CountStep
<1>7. k <= Last => k \in 0 .. Last
  BY <1>1
<1> QED
  BY <1>3, <1>4, <1>5, <1>6, <1>7, Zenon DEF MixedUpto

\* What argument k adds to the counts.
LEMMA CountedStep ==
  ASSUME call \in Calls, ~EmptyStruct, ~PhantomEightbytes, NEW k \in 1 .. Last
  PROVE  /\ Args[k] \in Sized /\ k - 1 \in Nat /\ k \in Nat
         /\ Upto(k - 1, "gp") \in Nat /\ Upto(k - 1, "fp") \in Nat /\ SmallUpto(k - 1) \in Nat
         /\ Upto(k, "gp") \in Nat /\ Upto(k, "fp") \in Nat /\ SmallUpto(k) \in Nat
         /\ Counted(Args[k], Upto(k - 1, "gp"), Upto(k - 1, "fp"), SmallUpto(k - 1),
                    Upto(k, "gp"), Upto(k, "fp"), SmallUpto(k))
<1>1. Args[k] \in Sized /\ k - 1 \in Nat /\ k \in Nat /\ k > 0 /\ DOMAIN Args = 1 .. Last
  BY ArgsOf
<1>2. /\ Upto(k - 1, "gp") \in Nat /\ Upto(k, "gp") \in Nat
      /\ Upto(k, "gp") = Upto(k - 1, "gp") + Pieces(Args[k], "gp")
  BY <1>1, UptoStep
<1>3. /\ Upto(k - 1, "fp") \in Nat /\ Upto(k, "fp") \in Nat
      /\ Upto(k, "fp") = Upto(k - 1, "fp") + Pieces(Args[k], "fp")
  BY <1>1, UptoStep
<1>4. /\ SmallUpto(k - 1) \in Nat /\ SmallUpto(k) \in Nat
      /\ SmallUpto(k) = SmallUpto(k - 1) + N(k \in Small)
  BY <1>1, SmallCounts
<1>5. /\ k \in Small <=> IsSmall(Args[k])
      /\ k \in Structs <=> IsStruct(Args[k]) /\ Args[k].size <= 16
  BY ArgKinds
<1>6. SmallUpto(k) > 0 => Upto(k, "fp") + SmallUpto(k) + N(k \in Structs) <= FpMax
  <2>1. ~(SmallUpto(k) > 0 /\ Upto(k, "fp") + SmallUpto(k) + N(k \in Structs) > FpMax)
    BY <1>1 DEF PhantomEightbytes
  <2>2. N(k \in Structs) \in Nat /\ FpMax \in Nat
    BY RegistersAssumption DEF N
  <2> QED
    BY <1>3, <1>4, <2>1, <2>2
<1>7. /\ k \in Structs => N(k \in Structs) = 1
      /\ k \notin Structs => N(k \in Structs) = 0
      /\ k \in Small => N(k \in Small) = 1
      /\ k \notin Small => N(k \in Small) = 0
      /\ FpMax \in Nat
  BY RegistersAssumption DEF N
<1>8. Counted(Args[k], Upto(k - 1, "gp"), Upto(k - 1, "fp"), SmallUpto(k - 1),
              Upto(k, "gp"), Upto(k, "fp"), SmallUpto(k))
  BY <1>2, <1>3, <1>4, <1>5, <1>6, <1>7 DEF Counted
<1> QED
  BY <1>1, <1>2, <1>3, <1>4, <1>8

\* Outside SecondHalf registers are left over.
LEMMA SpareStep ==
  ASSUME call \in Calls, ~EmptyStruct, ~SecondHalf, Mixed # {}, NEW k \in 1 .. Len(Params)
  PROVE  /\ MixedUpto(k - 1) \in Nat /\ MixedUpto(k) \in Nat
         /\ Spare(Args[k], Upto(k, "gp"), Upto(k, "fp"), MixedUpto(k - 1), MixedUpto(k))
<1>1. k \in Nat /\ k > 0 /\ k - 1 \in Nat /\ k \in 1 .. Last /\ Len(Params) \in Nat /\ k <= Last
  BY ArgsOf
<1>2. /\ MixedUpto(k - 1) \in Nat /\ MixedUpto(k) \in Nat
      /\ MixedUpto(k) = MixedUpto(k - 1) + N(k \in Mixed)
      /\ MixedUpto(k) <= Cardinality(Mixed) /\ Cardinality(Mixed) \in Nat
  BY <1>1, MixedCounts
<1>3. Upto(k, "gp") \in Nat /\ Upto(Len(Params), "gp") \in Nat /\ Upto(k, "gp") <= Upto(Len(Params), "gp")
  BY <1>1, UptoStep
<1>4. Upto(k, "fp") \in Nat /\ Upto(Len(Params), "fp") \in Nat /\ Upto(k, "fp") <= Upto(Len(Params), "fp")
  BY <1>1, UptoStep
<1>5. ~(Upto(Len(Params), "gp") + Cardinality(Mixed) >= GpMax) /\ ~(Upto(Len(Params), "fp") + Cardinality(Mixed) >= FpMax)
  <2>1. \A c \in {<<"gp", GpMax>>, <<"fp", FpMax>>} : ~(Upto(Len(Params), c[1]) + Cardinality(Mixed) >= c[2])
    BY DEF SecondHalf
  <2>2. <<"gp", GpMax>>[1] = "gp" /\ <<"gp", GpMax>>[2] = GpMax /\ <<"fp", FpMax>>[1] = "fp" /\ <<"fp", FpMax>>[2] = FpMax
    OBVIOUS
  <2> QED
    BY <2>1, <2>2
<1>6. GpMax \in Nat /\ FpMax \in Nat
  BY RegistersAssumption
<1>7. IsMixed(Args[k]) <=> k \in Mixed
  BY <1>1, ArgKinds
<1>8. (k \in Mixed => N(k \in Mixed) = 1) /\ (k \notin Mixed => N(k \in Mixed) = 0)
  BY DEF N
<1>9. MixedUpto(k - 1) <= MixedUpto(k) /\ (IsMixed(Args[k]) => MixedUpto(k - 1) < MixedUpto(k))
  BY <1>2, <1>7, <1>8
<1>10. Upto(k, "gp") + MixedUpto(k) < GpMax
  BY <1>2, <1>3, <1>5, <1>6
<1>11. Upto(k, "fp") + MixedUpto(k) < FpMax
  BY <1>2, <1>4, <1>5, <1>6
<1> QED
  BY <1>2, <1>9, <1>10, <1>11 DEF Spare

(***************************************************************************)
(* A trace: the counters before each argument, in the loop of push_args    *)
(* (gp, fp), in the pop loop and the prologue (pgp, pfp) and in            *)
(* assign_lvar_offsets (fgp, ffp), if each goes on as it does; and the     *)
(* words of the arguments before it that stay on the stack (mem) and that  *)
(* go to registers (reg).                                                  *)
(***************************************************************************)
Counters == [gp : Nat, fp : Nat, pgp : Nat, pfp : Nat, fgp : Nat, ffp : Nat, mem : Nat, reg : Nat]
Traces == [Nat -> Counters]
G(H, i) == H[i].gp
F(H, i) == H[i].fp
PG(H, i) == H[i].pgp
PF(H, i) == H[i].pfp
FG(H, i) == H[i].fgp
FF(H, i) == H[i].ffp
Mem(H, i) == H[i].mem
Reg(H, i) == H[i].reg

Same(H, K, i) ==
  /\ G(H, i) = G(K, i) /\ F(H, i) = F(K, i) /\ PG(H, i) = PG(K, i) /\ PF(H, i) = PF(K, i)
  /\ FG(H, i) = FG(K, i) /\ FF(H, i) = FF(K, i) /\ Mem(H, i) = Mem(K, i) /\ Reg(H, i) = Reg(K, i)
Is(H, i, g, f, pg, pf, fg, ff, mem, reg) ==
  /\ G(H, i) = g /\ F(H, i) = f /\ PG(H, i) = pg /\ PF(H, i) = pf
  /\ FG(H, i) = fg /\ FF(H, i) = ff /\ Mem(H, i) = mem /\ Reg(H, i) = reg

\* Counters are numbers.
LEMMA TraceTypes ==
  ASSUME NEW H \in Traces, NEW i \in Nat
  PROVE  /\ G(H, i) \in Nat /\ F(H, i) \in Nat /\ PG(H, i) \in Nat /\ PF(H, i) \in Nat
         /\ FG(H, i) \in Nat /\ FF(H, i) \in Nat /\ Mem(H, i) \in Nat /\ Reg(H, i) \in Nat
<1>1. H[i] \in Counters
  BY DEF Traces
<1> QED
  BY <1>1 DEF Counters, G, F, PG, PF, FG, FF, Mem, Reg

\* A trace can be given any counters at m.
LEMMA Extended ==
  ASSUME NEW H \in Traces, NEW m \in Nat, NEW g \in Nat, NEW f \in Nat, NEW pg \in Nat, NEW pf \in Nat,
         NEW fg \in Nat, NEW ff \in Nat, NEW mem \in Nat, NEW reg \in Nat
  PROVE  \E K \in Traces : (\A i \in Nat \ {m} : Same(H, K, i)) /\ Is(K, m, g, f, pg, pf, fg, ff, mem, reg)
<1> DEFINE h == [gp |-> g, fp |-> f, pgp |-> pg, pfp |-> pf, fgp |-> fg, ffp |-> ff, mem |-> mem, reg |-> reg]
           K == [H EXCEPT ![m] = h]
<1>1. h \in Counters
  BY DEF Counters
<1>2. K \in Traces /\ K[m] = h /\ \A i \in Nat \ {m} : K[i] = H[i]
  <2> HIDE DEF h
  <2> QED
    BY <1>1 DEF Traces
<1>3. \A i \in Nat \ {m} : Same(H, K, i)
  <2> HIDE DEF K, h
  <2> QED
    BY <1>2 DEF Same, G, F, PG, PF, FG, FF, Mem, Reg
<1>4. Is(K, m, g, f, pg, pf, fg, ff, mem, reg)
  <2> HIDE DEF K
  <2> QED
    BY <1>2 DEF Is, G, F, PG, PF, FG, FF, Mem, Reg
<1> HIDE DEF K
<1> QED
  BY <1>2, <1>3, <1>4

-------------------------------------------------------------------------------
(***************************************************************************)
(* What the counters say: before argument i, and on argument i, when those *)
(* in B are the ones that stay on the stack.                               *)
(***************************************************************************)
WordsOf(i) == IF ByReference(Args[i]) THEN 1 ELSE Words(Args[i])
Position(i) == N(call.big) + i

Started(H) == Is(H, 1, N(call.big), 0, N(call.big), 0, N(call.big), 0, 0, 0)
Parts(H, i, B) ==
  /\ i \in B => Mem(H, i + 1) = Mem(H, i) + WordsOf(i) /\ Reg(H, i + 1) = Reg(H, i)
  /\ i \notin B => Mem(H, i + 1) = Mem(H, i) /\ Reg(H, i + 1) = Reg(H, i) + WordsOf(i)
Grows(H, i, j) == Mem(H, i) <= Mem(H, j) /\ Reg(H, i) <= Reg(H, j) /\ PG(H, i) <= PG(H, j) /\ PF(H, i) <= PF(H, j)

SysVBefore(H, i) ==
  /\ G(H, i) <= Upto(i - 1, "gp") /\ F(H, i) <= Upto(i - 1, "fp") + SmallUpto(i - 1)
  /\ IsLesser(PG(H, i), G(H, i), GpMax)
  /\ PF(H, i) <= F(H, i) /\ PF(H, i) <= FpMax
  /\ SmallUpto(i - 1) = 0 => IsLesser(PF(H, i), F(H, i), FpMax)
SysVDecides(H, i, B) ==
  /\ i \in B => /\ ~PushIn(Args[i], G(H, i), F(H, i)) /\ ~PopIn(Args[i], PG(H, i), PF(H, i))
                /\ PG(H, i + 1) = PG(H, i) /\ PF(H, i + 1) = PF(H, i)
  /\ i \notin B => /\ PushIn(Args[i], G(H, i), F(H, i)) /\ PopIn(Args[i], PG(H, i), PF(H, i))
                   /\ PG(H, i + 1) = PG(H, i) + Pieces(Args[i], "gp") /\ PF(H, i + 1) = PF(H, i) + Pieces(Args[i], "fp")
  /\ PG(H, i + 1) = PopGp(Args[i], PG(H, i), PF(H, i)) /\ PF(H, i + 1) = PopFp(Args[i], PG(H, i), PF(H, i))

FrameBefore(H, i) ==
  /\ Mixed = {} => FG(H, i) = G(H, i) /\ FF(H, i) <= F(H, i) /\ (SmallUpto(i - 1) = 0 => FF(H, i) = F(H, i))
  /\ Mixed # {} => /\ FG(H, i) <= Upto(i - 1, "gp") + MixedUpto(i - 1)
                   /\ FF(H, i) <= Upto(i - 1, "fp") + MixedUpto(i - 1)
FrameCounts(H, i) ==
  FG(H, i + 1) = FrameGp(Args[i], FG(H, i), FF(H, i)) /\ FF(H, i + 1) = FrameFp(Args[i], FG(H, i), FF(H, i))
FrameDecides(H, i, B) == i \notin B <=> FrameIn(Args[i], FG(H, i), FF(H, i))

IntegersUpto(k) == CountUpto({i \in DOMAIN Params : ~IsFlonum(Params[i])}, k)
FlonumsUpto(k) == CountUpto({i \in DOMAIN Params : IsFlonum(Params[i])}, k)
VaBefore(H, i) ==
  /\ G(H, i) = Upto(i - 1, "gp") /\ Upto(i - 1, "gp") = N(call.big) + IntegersUpto(i - 1)
  /\ F(H, i) = Upto(i - 1, "fp") /\ Upto(i - 1, "fp") = FlonumsUpto(i - 1)
  /\ Mem(H, i) = 0 /\ SmallUpto(i - 1) = 0

WinBefore(H, i) ==
  /\ G(H, i) = Position(i) - 1
  /\ Position(i) <= WinMax + 1 => Mem(H, i) = 0
  /\ Position(i) > WinMax => Mem(H, i) = Position(i) - 1 - WinMax
WinDecides(i, B) == i \in B <=> Position(i) > WinMax

SysVPlan(H, m, B) ==
  /\ \A i \in 1 .. m : SysVBefore(H, i)
  /\ \A i \in 1 .. m - 1 : SysVDecides(H, i, B)
FramePlan(H, m, B) ==
  /\ \A i \in 1 .. m - 1 : FrameCounts(H, i)
  /\ ~SecondHalf => /\ \A i \in 1 .. m : i <= Len(Params) + 1 => FrameBefore(H, i)
                    /\ \A i \in 1 .. m - 1 : i <= Len(Params) => FrameDecides(H, i, B)
VaPlan(H, m) == ~VaStart => \A i \in 1 .. m : i <= Len(Params) + 1 => VaBefore(H, i)
WinPlan(H, m, B) ==
  /\ \A i \in 1 .. m : WinBefore(H, i)
  /\ \A i \in 1 .. m - 1 : WinDecides(i, B)

Plan(H, m, B) ==
  /\ Started(H) /\ B \subseteq 1 .. m - 1
  /\ \A i \in 1 .. m - 1 : Parts(H, i, B)
  /\ \A i \in 1 .. m : \A j \in 1 .. m : i <= j => Grows(H, i, j)
  /\ abi = "sysv" => SysVPlan(H, m, B) /\ FramePlan(H, m, B) /\ VaPlan(H, m)
  /\ abi = "win" => WinPlan(H, m, B)

-------------------------------------------------------------------------------
\* A trace that is the same up to m has the same plan.
LEMMA PlanSame ==
  ASSUME NEW H \in Traces, NEW K \in Traces, NEW m \in Nat, NEW B, m > 0,
         \A i \in 1 .. m : Same(H, K, i), Plan(H, m, B)
  PROVE  Plan(K, m, B)
<1>1. 1 \in 1 .. m
  OBVIOUS
<1>2. ASSUME NEW i \in 1 .. m - 1
      PROVE  i \in 1 .. m /\ i + 1 \in 1 .. m
  OBVIOUS
<1>3. Started(K)
  BY <1>1 DEF Plan, Started, Is, Same
<1>4. \A i \in 1 .. m - 1 : Parts(K, i, B)
  BY <1>2 DEF Plan, Parts, Same
<1>5. \A i \in 1 .. m : \A j \in 1 .. m : i <= j => Grows(K, i, j)
  BY DEF Plan, Grows, Same
<1>6. ASSUME abi = "sysv" PROVE SysVPlan(K, m, B)
  <2>1. SysVPlan(H, m, B)
    BY <1>6 DEF Plan
  <2>2. \A i \in 1 .. m : SysVBefore(K, i)
    BY <2>1 DEF SysVPlan, SysVBefore, Same
  <2>3. \A i \in 1 .. m - 1 : SysVDecides(K, i, B)
    <3> TAKE i \in 1 .. m - 1
    <3>1. SysVDecides(H, i, B) /\ Same(H, K, i) /\ Same(H, K, i + 1)
      BY <2>1, <1>2 DEF SysVPlan
    <3> QED
      BY <3>1 DEF SysVDecides, Same
  <2> QED
    BY <2>2, <2>3 DEF SysVPlan
<1>7. ASSUME abi = "sysv" PROVE FramePlan(K, m, B)
  <2>1. FramePlan(H, m, B)
    BY <1>7 DEF Plan
  <2>2. \A i \in 1 .. m - 1 : FrameCounts(K, i)
    <3> TAKE i \in 1 .. m - 1
    <3>1. FrameCounts(H, i) /\ Same(H, K, i) /\ Same(H, K, i + 1)
      BY <2>1, <1>2 DEF FramePlan
    <3> QED
      BY <3>1 DEF FrameCounts, Same
  <2>3. ASSUME ~SecondHalf, NEW i \in 1 .. m, i <= Len(Params) + 1
        PROVE  FrameBefore(K, i)
    <3>1. FrameBefore(H, i) /\ Same(H, K, i)
      BY <2>1, <2>3 DEF FramePlan
    <3> QED
      BY <3>1 DEF FrameBefore, Same
  <2>4. ASSUME ~SecondHalf, NEW i \in 1 .. m - 1, i <= Len(Params)
        PROVE  FrameDecides(K, i, B)
    <3>1. FrameDecides(H, i, B) /\ Same(H, K, i)
      BY <2>1, <2>4, <1>2 DEF FramePlan
    <3> QED
      BY <3>1 DEF FrameDecides, Same
  <2> QED
    BY <2>2, <2>3, <2>4 DEF FramePlan
<1>8. ASSUME abi = "sysv" PROVE VaPlan(K, m)
  <2>1. VaPlan(H, m)
    BY <1>8 DEF Plan
  <2> QED
    BY <2>1 DEF VaPlan, VaBefore, Same
<1>9. ASSUME abi = "win" PROVE WinPlan(K, m, B)
  <2>1. WinPlan(H, m, B)
    BY <1>9 DEF Plan
  <2> QED
    BY <2>1 DEF WinPlan, WinBefore, Same
<1> QED
  BY <1>3, <1>4, <1>5, <1>6, <1>7, <1>8, <1>9 DEF Plan

(***************************************************************************)
(* The counters go on over argument m, which is in B if it stays on the    *)
(* stack.                                                                  *)
(***************************************************************************)
SysVFollows(H, m, B) ==
  /\ m \in B <=> ~PushIn(Args[m], G(H, m), F(H, m))
  /\ G(H, m + 1) = PushGp(Args[m], G(H, m), F(H, m)) /\ F(H, m + 1) = PushFp(Args[m], G(H, m), F(H, m))
  /\ PG(H, m + 1) = PopGp(Args[m], PG(H, m), PF(H, m)) /\ PF(H, m + 1) = PopFp(Args[m], PG(H, m), PF(H, m))
  /\ FrameCounts(H, m)
WinFollows(H, m, B) ==
  /\ m \in B <=> ~(G(H, m) < WinMax)
  /\ G(H, m + 1) = G(H, m) + 1
  /\ PG(H, m + 1) = PG(H, m) /\ PF(H, m + 1) = PF(H, m)
Follows(H, m, B) ==
  /\ Parts(H, m, B)
  /\ abi = "sysv" => SysVFollows(H, m, B)
  /\ abi = "win" => WinFollows(H, m, B)

\* Every argument has a word to push.
LEMMA WordsOfArg ==
  ASSUME call \in Calls, ~EmptyStruct, NEW i \in 1 .. Last
  PROVE  /\ WordsOf(i) \in Nat \ {0} /\ Words(Args[i]) \in Nat \ {0}
         /\ abi = "sysv" => ~ByReference(Args[i]) /\ WordsOf(i) = Words(Args[i])
         /\ abi = "win" /\ Args[i].kind # "ldouble" =>
              WordsOf(i) = 1 /\ (~ByReference(Args[i]) => Words(Args[i]) = 1)
<1>1. Args[i] \in Sized
  BY ArgsOf
<1>2. Words(Args[i]) \in Nat \ {0} /\ (Args[i].kind \in {"int", "float"} => Words(Args[i]) = 1) /\ Args[i].kind \in Kinds
      /\ (Words(Args[i]) <= 1 <=> Args[i].size <= 8)
  BY <1>1, TypeFacts
<1>3. Args[i].size \in {1, 2, 4, 8} => Words(Args[i]) = 1
  BY <1>2
<1>4. abi = "sysv" => ~ByReference(Args[i])
  BY DEF ByReference
<1>5. abi = "win" /\ Args[i].kind # "ldouble" /\ ~ByReference(Args[i]) => Words(Args[i]) = 1
  BY <1>2, <1>3 DEF ByReference, IsStruct, type_passed_in_register, Kinds
<1> QED
  BY <1>2, <1>4, <1>5 DEF WordsOf

\* What the caller decides on the next argument.
LEMMA SysVStep ==
  ASSUME call \in Calls, ~EmptyStruct, ~PhantomEightbytes, NEW H \in Traces, NEW m \in 1 .. Last, NEW B,
         SysVBefore(H, m), SysVFollows(H, m, B)
  PROVE  SysVBefore(H, m + 1) /\ SysVDecides(H, m, B) /\ PG(H, m) <= PG(H, m + 1) /\ PF(H, m) <= PF(H, m + 1)
<1> DEFINE ty == Args[m]
           g == G(H, m)
           f == F(H, m)
           pg == PG(H, m)
           pf == PF(H, m)
           ug == Upto(m - 1, "gp")
           uf == Upto(m - 1, "fp")
           small == SmallUpto(m - 1)
           ug2 == Upto(m, "gp")
           uf2 == Upto(m, "fp")
           small2 == SmallUpto(m)
<1>1. m \in Nat /\ m + 1 - 1 = m
  BY ArgsOf
<1>2. g \in Nat /\ f \in Nat /\ pg \in Nat /\ pf \in Nat
  BY <1>1, TraceTypes
<1>3. /\ ty \in Sized /\ ug \in Nat /\ uf \in Nat /\ small \in Nat /\ ug2 \in Nat /\ uf2 \in Nat /\ small2 \in Nat
      /\ Counted(ty, ug, uf, small, ug2, uf2, small2)
  BY CountedStep
<1>4. /\ g <= ug /\ f <= uf + small /\ IsLesser(pg, g, GpMax) /\ pf <= f /\ pf <= FpMax
      /\ small = 0 => IsLesser(pf, f, FpMax)
  BY DEF SysVBefore
<1>5. /\ m \in B <=> ~PushIn(ty, g, f)
      /\ G(H, m + 1) = PushGp(ty, g, f) /\ F(H, m + 1) = PushFp(ty, g, f)
      /\ PG(H, m + 1) = PopGp(ty, pg, pf) /\ PF(H, m + 1) = PopFp(ty, pg, pf)
  BY DEF SysVFollows
<1>6. Pieces(ty, "gp") \in Nat /\ Pieces(ty, "fp") \in Nat
  BY DEF Pieces, N
<1> HIDE DEF ty, g, f, pg, pf, ug, uf, small, ug2, uf2, small2
<1>7. /\ PushIn(ty, g, f) <=> PopIn(ty, pg, pf)
      /\ PushGp(ty, g, f) <= ug2 /\ PushFp(ty, g, f) <= uf2 + small2
      /\ IsLesser(PopGp(ty, pg, pf), PushGp(ty, g, f), GpMax)
      /\ PopFp(ty, pg, pf) <= PushFp(ty, g, f) /\ PopFp(ty, pg, pf) <= FpMax
      /\ small2 = 0 => IsLesser(PopFp(ty, pg, pf), PushFp(ty, g, f), FpMax)
      /\ PopIn(ty, pg, pf) => PopGp(ty, pg, pf) = pg + Pieces(ty, "gp") /\ PopFp(ty, pg, pf) = pf + Pieces(ty, "fp")
      /\ ~PopIn(ty, pg, pf) => PopGp(ty, pg, pf) = pg /\ PopFp(ty, pg, pf) = pf
  <2>1. CallerCounts(ty, g, f, pg, pf, ug, uf, small, ug2, uf2, small2)
    BY <1>2, <1>3, <1>4 DEF CallerCounts
  <2> QED
    BY <2>1, CallerDecides DEF CallerDecided
<1>8. SysVBefore(H, m + 1)
  BY <1>1, <1>5, <1>7 DEF SysVBefore, ug2, uf2, small2
<1>9. SysVDecides(H, m, B)
  BY <1>5, <1>7 DEF SysVDecides, ty, g, f, pg, pf
<1>10. pg <= PG(H, m + 1) /\ pf <= PF(H, m + 1)
  BY <1>2, <1>5, <1>6, <1>7
<1> QED
  BY <1>8, <1>9, <1>10 DEF pg, pf

\* And what the callee decides on the next parameter.
LEMMA FrameStep ==
  ASSUME call \in Calls, ~EmptyStruct, ~PhantomEightbytes, ~SecondHalf,
         NEW H \in Traces, NEW m \in 1 .. Len(Params), NEW B,
         SysVBefore(H, m), FrameBefore(H, m), SysVFollows(H, m, B)
  PROVE  FrameBefore(H, m + 1) /\ FrameDecides(H, m, B)
<1> DEFINE ty == Args[m]
           g == G(H, m)
           f == F(H, m)
           fg == FG(H, m)
           ff == FF(H, m)
           ug == Upto(m - 1, "gp")
           uf == Upto(m - 1, "fp")
           small == SmallUpto(m - 1)
           ug2 == Upto(m, "gp")
           uf2 == Upto(m, "fp")
           small2 == SmallUpto(m)
           mix == MixedUpto(m - 1)
           mix2 == MixedUpto(m)
<1>1. m \in Nat /\ m + 1 - 1 = m /\ m \in 1 .. Last
  BY ArgsOf
<1>2. g \in Nat /\ f \in Nat /\ fg \in Nat /\ ff \in Nat
  BY <1>1, TraceTypes
<1>3. /\ ty \in Sized /\ ug \in Nat /\ uf \in Nat /\ small \in Nat /\ ug2 \in Nat /\ uf2 \in Nat /\ small2 \in Nat
      /\ Counted(ty, ug, uf, small, ug2, uf2, small2)
  BY <1>1, CountedStep
<1>4. g <= ug /\ f <= uf + small
  BY DEF SysVBefore
<1>5. /\ m \in B <=> ~PushIn(ty, g, f)
      /\ G(H, m + 1) = PushGp(ty, g, f) /\ F(H, m + 1) = PushFp(ty, g, f)
      /\ FG(H, m + 1) = FrameGp(ty, fg, ff) /\ FF(H, m + 1) = FrameFp(ty, fg, ff)
  BY DEF SysVFollows, FrameCounts
<1>6. CASE Mixed = {}
  <2>1. fg = g /\ ff <= f /\ (small = 0 => ff = f)
    BY <1>6 DEF FrameBefore
  <2>2. ~IsMixed(ty)
    BY <1>1, <1>6, ArgKinds
  <2> HIDE DEF ty, g, f, fg, ff, ug, uf, small, ug2, uf2, small2
  <2>3. /\ PushIn(ty, g, f) <=> FrameIn(ty, g, ff)
        /\ FrameGp(ty, g, ff) = PushGp(ty, g, f) /\ FrameFp(ty, g, ff) <= PushFp(ty, g, f)
        /\ small2 = 0 => FrameFp(ty, g, ff) = PushFp(ty, g, f)
    <3>1. CalleeCounts(ty, g, f, ff, ug, uf, small, ug2, uf2, small2)
      BY <1>2, <1>3, <1>4, <2>1, <2>2 DEF CalleeCounts
    <3> QED
      BY <3>1, CalleeDecides DEF CalleeDecided
  <2>4. FrameBefore(H, m + 1)
    BY <1>1, <1>5, <1>6, <2>1, <2>3 DEF FrameBefore, small2
  <2>5. FrameDecides(H, m, B)
    BY <1>5, <2>1, <2>3 DEF FrameDecides, ty, g, f, fg, ff
  <2> QED
    BY <2>4, <2>5
<1>7. CASE Mixed # {}
  <2>1. fg <= ug + mix /\ ff <= uf + mix
    BY <1>7 DEF FrameBefore
  <2>2. mix \in Nat /\ mix2 \in Nat /\ Spare(ty, ug2, uf2, mix, mix2)
    BY <1>7, SpareStep
  <2> HIDE DEF ty, g, f, fg, ff, ug, uf, small, ug2, uf2, small2, mix, mix2
  <2>3. /\ PushIn(ty, g, f) <=> FrameIn(ty, fg, ff)
        /\ FrameGp(ty, fg, ff) <= ug2 + mix2 /\ FrameFp(ty, fg, ff) <= uf2 + mix2
    <3>1. RoomCounts(ty, g, f, fg, ff, ug, uf, small, ug2, uf2, small2, mix, mix2)
      BY <1>2, <1>3, <1>4, <2>1, <2>2 DEF RoomCounts
    <3> QED
      BY <3>1, CalleeHasRoom DEF RoomDecided
  <2>4. FrameBefore(H, m + 1)
    BY <1>1, <1>5, <1>7, <2>3 DEF FrameBefore, ug2, uf2, mix2
  <2>5. FrameDecides(H, m, B)
    BY <1>5, <2>3 DEF FrameDecides, ty, g, f, fg, ff
  <2> QED
    BY <2>4, <2>5
<1> QED
  BY <1>6, <1>7

\* Parameters that va_start knows of: one register each, none on the stack.
LEMMA VaStep ==
  ASSUME call \in Calls, ~EmptyStruct, ~VaStart,
         NEW H \in Traces, NEW m \in 1 .. Len(Params), NEW B,
         VaBefore(H, m), SysVFollows(H, m, B), Parts(H, m, B)
  PROVE  VaBefore(H, m + 1)
<1> DEFINE ty == Args[m]
           I == {i \in DOMAIN Params : ~IsFlonum(Params[i])}
           E == {i \in DOMAIN Params : IsFlonum(Params[i])}
<1>1. m \in Nat /\ m > 0 /\ m - 1 \in Nat /\ m + 1 - 1 = m /\ m \in 1 .. Last /\ Len(Params) \in Nat /\ m \in 0 .. Len(Params)
  BY ArgsOf
<1>2. Params[m] = ty /\ DOMAIN Params = 1 .. Len(Params)
  BY ArgsOf
<1>3. ty.kind \in {"int", "float"} /\ Upto(Len(Params), "gp") <= GpMax /\ Upto(Len(Params), "fp") <= FpMax
  <2>1. Upto(Len(Params), "gp") \in Nat /\ Upto(Len(Params), "fp") \in Nat
    BY <1>1, UptoStep
  <2>2. ~(Upto(Len(Params), "gp") > GpMax) /\ ~(Upto(Len(Params), "fp") > FpMax)
    BY DEF VaStart
  <2>3. Params[m].kind \in {"int", "float"}
    BY <1>2 DEF VaStart
  <2>4. GpMax \in Nat /\ FpMax \in Nat
    BY RegistersAssumption
  <2> QED
    BY <1>2, <2>1, <2>2, <2>3, <2>4
<1>4. I \subseteq Nat \ {0} /\ E \subseteq Nat \ {0}
  BY <1>2
<1>5. /\ IntegersUpto(m - 1) \in Nat
      /\ IntegersUpto(m) = IntegersUpto(m - 1) + N(m \in I)
  <2> HIDE DEF I
  <2>1. /\ CountUpto(I, m) = CountUpto(I, m - 1) + N(m \in I)
        /\ CountUpto(I, m - 1) \in Nat
    BY <1>1, <1>4, CountStep
  <2> QED
    BY <2>1 DEF IntegersUpto, I
<1>6. /\ FlonumsUpto(m - 1) \in Nat
      /\ FlonumsUpto(m) = FlonumsUpto(m - 1) + N(m \in E)
  <2> HIDE DEF E
  <2>1. /\ CountUpto(E, m) = CountUpto(E, m - 1) + N(m \in E)
        /\ CountUpto(E, m - 1) \in Nat
    BY <1>1, <1>4, CountStep
  <2> QED
    BY <2>1 DEF FlonumsUpto, E
<1>7. /\ ty.kind = "int" => N(m \in I) = 1 /\ N(m \in E) = 0
      /\ ty.kind = "float" => N(m \in I) = 0 /\ N(m \in E) = 1
  BY <1>2 DEF IsFlonum, N
<1>8. SmallUpto(m) = SmallUpto(m - 1)
  <2>1. m \notin Small
    BY <1>1, <1>3, ArgKinds DEF IsSmall, IsStruct
  <2>2. SmallUpto(m) = SmallUpto(m - 1) + N(m \in Small) /\ SmallUpto(m - 1) \in Nat
    BY <1>1, SmallCounts
  <2>3. N(m \in Small) = 0
    BY <2>1 DEF N
  <2> QED
    BY <2>2, <2>3
<1>9. /\ Upto(m, "gp") = Upto(m - 1, "gp") + Pieces(ty, "gp")
      /\ Upto(m - 1, "gp") \in Nat
      /\ Upto(m, "gp") \in Nat /\ Upto(m, "gp") <= Upto(Len(Params), "gp")
      /\ Upto(Len(Params), "gp") \in Nat
  BY <1>1, UptoStep
<1>10. /\ Upto(m, "fp") = Upto(m - 1, "fp") + Pieces(ty, "fp")
       /\ Upto(m - 1, "fp") \in Nat
       /\ Upto(m, "fp") \in Nat /\ Upto(m, "fp") <= Upto(Len(Params), "fp")
       /\ Upto(Len(Params), "fp") \in Nat
  BY <1>1, UptoStep
<1>11. ty \in Sized
  BY <1>1, ArgsOf
<1>12. /\ ty.kind = "int" => Pieces(ty, "gp") = 1 /\ Pieces(ty, "fp") = 0
       /\ ty.kind = "float" => Pieces(ty, "gp") = 0 /\ Pieces(ty, "fp") = 1
  BY <1>11, PiecesOf
<1>13. /\ G(H, m) = Upto(m - 1, "gp") /\ Upto(m - 1, "gp") = N(call.big) + IntegersUpto(m - 1)
       /\ F(H, m) = Upto(m - 1, "fp") /\ Upto(m - 1, "fp") = FlonumsUpto(m - 1)
       /\ Mem(H, m) = 0 /\ SmallUpto(m - 1) = 0
  BY DEF VaBefore
<1>14. /\ m \in B <=> ~PushIn(ty, G(H, m), F(H, m))
       /\ G(H, m + 1) = PushGp(ty, G(H, m), F(H, m)) /\ F(H, m + 1) = PushFp(ty, G(H, m), F(H, m))
  BY DEF SysVFollows
<1>15. G(H, m) \in Nat /\ F(H, m) \in Nat
  BY <1>1, TraceTypes
<1>16. N(call.big) \in Nat /\ GpMax \in Nat /\ FpMax \in Nat
  BY RegistersAssumption DEF N
<1> HIDE DEF ty, I, E
<1>17. CASE ty.kind = "int"
  <2>1. /\ PushIn(ty, G(H, m), F(H, m)) <=> G(H, m) < GpMax
        /\ PushGp(ty, G(H, m), F(H, m)) = G(H, m) + 1
        /\ PushFp(ty, G(H, m), F(H, m)) = F(H, m)
    BY <1>15, <1>17, IntPush
  <2>2. m \notin B
    BY <1>3, <1>9, <1>12, <1>13, <1>14, <1>16, <1>17, <2>1
  <2>3. Mem(H, m + 1) = 0
    BY <1>13, <2>2 DEF Parts
  <2>4. /\ G(H, m + 1) = Upto(m, "gp") /\ Upto(m, "gp") = N(call.big) + IntegersUpto(m)
        /\ F(H, m + 1) = Upto(m, "fp") /\ Upto(m, "fp") = FlonumsUpto(m)
    BY <1>5, <1>6, <1>7, <1>9, <1>10, <1>12, <1>13, <1>14, <1>16, <1>17, <2>1, SMTT(30)
  <2> QED
    BY <1>1, <1>8, <1>13, <2>3, <2>4 DEF VaBefore
<1>18. CASE ty.kind = "float"
  <2>1. /\ PushIn(ty, G(H, m), F(H, m)) <=> F(H, m) < FpMax
        /\ PushGp(ty, G(H, m), F(H, m)) = G(H, m)
        /\ PushFp(ty, G(H, m), F(H, m)) = F(H, m) + 1
    BY <1>15, <1>18, FloatPush
  <2>2. m \notin B
    BY <1>3, <1>10, <1>12, <1>13, <1>14, <1>16, <1>18, <2>1
  <2>3. Mem(H, m + 1) = 0
    BY <1>13, <2>2 DEF Parts
  <2>4. /\ G(H, m + 1) = Upto(m, "gp") /\ Upto(m, "gp") = N(call.big) + IntegersUpto(m)
        /\ F(H, m + 1) = Upto(m, "fp") /\ Upto(m, "fp") = FlonumsUpto(m)
    BY <1>5, <1>6, <1>7, <1>9, <1>10, <1>12, <1>13, <1>14, <1>16, <1>18, <2>1
  <2> QED
    BY <1>1, <1>8, <1>13, <2>3, <2>4 DEF VaBefore
<1> QED
  BY <1>3, <1>17, <1>18

\* On Windows one position is counted for each argument.
LEMMA WinStep ==
  ASSUME call \in Calls, ~EmptyStruct, abi = "win", NEW H \in Traces, NEW m \in 1 .. Last, NEW B,
         Args[m].kind # "ldouble", WinBefore(H, m), WinFollows(H, m, B), Parts(H, m, B)
  PROVE  WinBefore(H, m + 1) /\ WinDecides(m, B)
<1>1. m \in Nat /\ N(call.big) \in Nat /\ WinMax \in Nat
  BY RegistersAssumption DEF N
<1>2. WordsOf(m) = 1
  BY WordsOfArg
<1>3. Position(m) \in Nat /\ Position(m + 1) = Position(m) + 1
  BY <1>1 DEF Position
<1>4. G(H, m) = Position(m) - 1 /\ (m \in B <=> ~(G(H, m) < WinMax)) /\ G(H, m + 1) = G(H, m) + 1
  BY DEF WinBefore, WinFollows
<1>5. m \in B <=> Position(m) > WinMax
  BY <1>1, <1>3, <1>4
<1>6. /\ m \in B => Mem(H, m + 1) = Mem(H, m) + 1
      /\ m \notin B => Mem(H, m + 1) = Mem(H, m)
  BY <1>2 DEF Parts
<1>7. Mem(H, m) \in Nat
  BY <1>1, TraceTypes
<1>8. /\ Position(m) <= WinMax + 1 => Mem(H, m) = 0
      /\ Position(m) > WinMax => Mem(H, m) = Position(m) - 1 - WinMax
  BY DEF WinBefore
<1>9. /\ Position(m + 1) <= WinMax + 1 => Mem(H, m + 1) = 0
      /\ Position(m + 1) > WinMax => Mem(H, m + 1) = Position(m + 1) - 1 - WinMax
  BY <1>1, <1>3, <1>5, <1>6, <1>7, <1>8
<1> QED
  BY <1>1, <1>3, <1>4, <1>5, <1>9 DEF WinBefore, WinDecides

(***************************************************************************)
(* The calls the results are about: those without an empty struct and on   *)
(* SysV without phantom eightbytes.  On Windows long double is double.     *)
(***************************************************************************)
Sound == ~EmptyStruct /\ (abi = "sysv" => ~PhantomEightbytes)
Scope ==
  /\ call \in Calls /\ abi \in {"sysv", "win"} /\ Sound
  /\ abi = "win" => \A i \in 1 .. Last : Args[i].kind # "ldouble"

\* A trace that follows the loops at m keeps to the plan.
LEMMA PlanStep ==
  ASSUME Scope, NEW H \in Traces, NEW m \in 1 .. Last, NEW A, NEW B,
         Plan(H, m, A), Follows(H, m, B), A \subseteq B, B \subseteq A \union {m}
  PROVE  Plan(H, m + 1, B)
<1>1. /\ m \in Nat /\ m + 1 - 1 = m /\ Last \in Nat
      /\ call \in Calls /\ ~EmptyStruct /\ (abi = "sysv" => ~PhantomEightbytes)
      /\ \A i \in 1 .. m + 1 : i \in 1 .. m \/ i = m + 1
      /\ \A i \in 1 .. m : i \in 1 .. m - 1 \/ i = m
      /\ \A i \in 1 .. m - 1 : i # m
      /\ Len(Params) \in Nat
      /\ m \in 1 .. m /\ A \subseteq 1 .. m - 1
  BY ArgsOf DEF Scope, Sound, Plan
<1>2. \A i \in 1 .. m - 1 : i \in A <=> i \in B
  BY <1>1
<1>3. Started(H) /\ B \subseteq 1 .. m
  BY <1>1 DEF Plan
<1>4. \A i \in 1 .. m : Parts(H, i, B)
  <2>1. \A i \in 1 .. m - 1 : Parts(H, i, B)
    BY <1>2 DEF Plan, Parts
  <2> QED
    BY <1>1, <2>1 DEF Follows
<1>5. ASSUME abi = "sysv"
      PROVE  SysVBefore(H, m + 1) /\ SysVDecides(H, m, B) /\ PG(H, m) <= PG(H, m + 1) /\ PF(H, m) <= PF(H, m + 1)
  BY <1>1, <1>5, SysVStep DEF Plan, SysVPlan, Follows
<1>6. ASSUME abi = "win"
      PROVE  WinBefore(H, m + 1) /\ WinDecides(m, B) /\ PG(H, m) <= PG(H, m + 1) /\ PF(H, m) <= PF(H, m + 1)
  <2>1. Args[m].kind # "ldouble" /\ WinBefore(H, m) /\ WinFollows(H, m, B) /\ Parts(H, m, B)
    BY <1>1, <1>4, <1>6 DEF Plan, WinPlan, Follows, Scope
  <2>2. WinBefore(H, m + 1) /\ WinDecides(m, B)
    BY <1>1, <1>6, <2>1, WinStep
  <2>3. PG(H, m + 1) = PG(H, m) /\ PF(H, m + 1) = PF(H, m) /\ PG(H, m) \in Nat /\ PF(H, m) \in Nat
    BY <1>1, <2>1, TraceTypes DEF WinFollows
  <2> QED
    BY <2>2, <2>3
<1>7. \A i \in 1 .. m + 1 : \A j \in 1 .. m + 1 : i <= j => Grows(H, i, j)
  <2>1. WordsOf(m) \in Nat
    BY <1>1, WordsOfArg
  <2>2. \A i \in 1 .. m + 1 : Mem(H, i) \in Nat /\ Reg(H, i) \in Nat /\ PG(H, i) \in Nat /\ PF(H, i) \in Nat
    <3> TAKE i \in 1 .. m + 1
    <3>1. i \in Nat
      OBVIOUS
    <3> QED
      BY <3>1, TraceTypes
  <2>3. Grows(H, m, m + 1)
    <3>1. PG(H, m) <= PG(H, m + 1) /\ PF(H, m) <= PF(H, m + 1)
      BY <1>5, <1>6 DEF Scope
    <3>2. Parts(H, m, B)
      BY <1>1, <1>4
    <3>3. Mem(H, m) <= Mem(H, m + 1) /\ Reg(H, m) <= Reg(H, m + 1)
      BY <1>1, <2>1, <2>2, <3>2 DEF Parts
    <3> QED
      BY <3>1, <3>3 DEF Grows
  <2>4. \A i \in 1 .. m : \A j \in 1 .. m : i <= j => Grows(H, i, j)
    BY DEF Plan
  <2>5. ASSUME NEW i \in 1 .. m PROVE Grows(H, i, m + 1)
    <3>1. Grows(H, i, m) /\ i \in 1 .. m + 1 /\ m \in 1 .. m + 1 /\ m + 1 \in 1 .. m + 1
      BY <1>1, <2>4
    <3> QED
      BY <2>2, <2>3, <3>1 DEF Grows
  <2>6. Grows(H, m + 1, m + 1)
    BY <1>1, <2>2 DEF Grows
  <2> QED
    BY <1>1, <2>4, <2>5, <2>6
<1>8. ASSUME abi = "sysv" PROVE SysVPlan(H, m + 1, B)
  <2>1. \A i \in 1 .. m + 1 : SysVBefore(H, i)
    BY <1>1, <1>5, <1>8 DEF Plan, SysVPlan
  <2>2. \A i \in 1 .. m - 1 : SysVDecides(H, i, B)
    BY <1>2, <1>8 DEF Plan, SysVPlan, SysVDecides
  <2> QED
    BY <1>1, <1>5, <1>8, <2>1, <2>2 DEF SysVPlan
<1>9. ASSUME abi = "sysv" PROVE FramePlan(H, m + 1, B)
  <2>0. FramePlan(H, m, A) /\ SysVFollows(H, m, B) /\ SysVBefore(H, m)
    BY <1>1, <1>9 DEF Plan, SysVPlan, Follows
  <2>1. \A i \in 1 .. m : FrameCounts(H, i)
    BY <1>1, <2>0 DEF FramePlan, SysVFollows
  <2>2. ASSUME ~SecondHalf, m <= Len(Params)
        PROVE  FrameBefore(H, m + 1) /\ FrameDecides(H, m, B)
    <3>1. m \in 1 .. Len(Params) /\ FrameBefore(H, m) /\ ~PhantomEightbytes
      BY <1>1, <1>9, <2>0, <2>2 DEF FramePlan
    <3> QED
      BY <1>1, <2>0, <2>2, <3>1, FrameStep
  <2>3. ASSUME ~SecondHalf, NEW i \in 1 .. m + 1, i <= Len(Params) + 1
        PROVE  FrameBefore(H, i)
    <3>1. CASE i = m + 1
      BY <1>1, <2>2, <2>3, <3>1
    <3>2. CASE i \in 1 .. m
      BY <2>0, <2>3, <3>2 DEF FramePlan
    <3> QED
      BY <1>1, <3>1, <3>2
  <2>4. ASSUME ~SecondHalf, NEW i \in 1 .. m, i <= Len(Params)
        PROVE  FrameDecides(H, i, B)
    <3>1. CASE i = m
      BY <2>2, <2>4, <3>1
    <3>2. CASE i \in 1 .. m - 1
      <4>1. FrameDecides(H, i, A)
        BY <2>0, <2>4, <3>2 DEF FramePlan
      <4> QED
        BY <1>2, <3>2, <4>1 DEF FrameDecides
    <3> QED
      BY <1>1, <3>1, <3>2
  <2> QED
    BY <1>1, <2>1, <2>3, <2>4 DEF FramePlan
<1>10. ASSUME abi = "sysv" PROVE VaPlan(H, m + 1)
  <2>1. VaPlan(H, m) /\ SysVFollows(H, m, B) /\ Parts(H, m, B)
    BY <1>1, <1>10 DEF Plan, Follows
  <2>2. ASSUME ~VaStart, NEW i \in 1 .. m + 1, i <= Len(Params) + 1
        PROVE  VaBefore(H, i)
    <3>1. CASE i = m + 1
      <4>1. m \in 1 .. Len(Params) /\ VaBefore(H, m)
        BY <1>1, <2>1, <2>2, <3>1 DEF VaPlan
      <4> QED
        BY <1>1, <2>1, <2>2, <3>1, <4>1, VaStep
    <3>2. CASE i \in 1 .. m
      BY <2>1, <2>2, <3>2 DEF VaPlan
    <3> QED
      BY <1>1, <3>1, <3>2
  <2> QED
    BY <2>2 DEF VaPlan
<1>11. ASSUME abi = "win" PROVE WinPlan(H, m + 1, B)
  <2>1. \A i \in 1 .. m + 1 : WinBefore(H, i)
    BY <1>1, <1>6, <1>11 DEF Plan, WinPlan
  <2>2. \A i \in 1 .. m : WinDecides(i, B)
    BY <1>1, <1>2, <1>6, <1>11 DEF Plan, WinPlan, WinDecides
  <2> QED
    BY <1>1, <2>1, <2>2 DEF WinPlan
<1> HIDE DEF Last
<1> QED
  BY <1>1, <1>3, <1>4, <1>7, <1>8, <1>9, <1>10, <1>11 DEF Plan

LEMMA FrameTypes ==
  ASSUME NEW ty \in Sized, NEW g \in Nat, NEW f \in Nat
  PROVE  FrameGp(ty, g, f) \in Nat /\ FrameFp(ty, g, f) \in Nat
<1>1. ASSUME ty.kind = "struct" PROVE FrameGp(ty, g, f) \in Nat /\ FrameFp(ty, g, f) \in Nat
  <2>1. ty.size <= 16 => Fp1(ty) \in {0, 1}
    BY <1>1, HalvesOf
  <2> QED
    BY <1>1, <2>1, StructFrame
<1>2. ASSUME ty.kind = "int" PROVE FrameGp(ty, g, f) \in Nat /\ FrameFp(ty, g, f) \in Nat
  BY <1>2, IntFrame
<1>3. ASSUME ty.kind = "float" PROVE FrameGp(ty, g, f) \in Nat /\ FrameFp(ty, g, f) \in Nat
  BY <1>3, FloatFrame
<1>4. ASSUME ty.kind = "ldouble" PROVE FrameGp(ty, g, f) \in Nat /\ FrameFp(ty, g, f) \in Nat
  BY <1>4, LongDoubleFrame
<1> QED
  BY <1>1, <1>2, <1>3, <1>4, TypeFacts DEF Kinds

\* There is a trace before the first argument.
LEMMA PlanBegins ==
  ASSUME Scope
  PROVE  \E H \in Traces : Plan(H, 1, {})
<1> DEFINE b == N(call.big)
<1>1. call \in Calls /\ b \in Nat /\ b <= 1 /\ GpMax \in Nat /\ GpMax > 0 /\ FpMax \in Nat /\ WinMax \in Nat /\ WinMax >= 2
  BY RegistersAssumption DEF Scope, N
<1>2. Traces # {}
  <2> DEFINE h == [gp |-> 0, fp |-> 0, pgp |-> 0, pfp |-> 0, fgp |-> 0, ffp |-> 0, mem |-> 0, reg |-> 0]
  <2>1. h \in Counters
    BY DEF Counters
  <2> HIDE DEF h
  <2>2. [i \in Nat |-> h] \in Traces
    BY <2>1 DEF Traces
  <2> QED
    BY <2>2
<1>3. PICK H \in Traces : Is(H, 1, b, 0, b, 0, b, 0, 0, 0)
  <2>1. PICK K : K \in Traces
    BY <1>2
  <2>2. \E H \in Traces : Is(H, 1, b, 0, b, 0, b, 0, 0, 0)
    <3> HIDE DEF b
    <3>1. \E H \in Traces : (\A i \in Nat \ {1} : Same(K, H, i)) /\ Is(H, 1, b, 0, b, 0, b, 0, 0, 0)
      BY <1>1, <2>1, Extended
    <3> QED
      BY <3>1
  <2> QED
    BY <2>2
<1>4. /\ G(H, 1) = b /\ F(H, 1) = 0 /\ PG(H, 1) = b /\ PF(H, 1) = 0 /\ FG(H, 1) = b /\ FF(H, 1) = 0
      /\ Mem(H, 1) = 0 /\ Reg(H, 1) = 0
  BY <1>3 DEF Is
<1>5. Started(H)
  BY <1>3 DEF Started
<1>6. Upto(0, "gp") = b
  <2>1. Upto(0, "gp") = N("gp" = "gp" /\ call.big)
    BY UptoStep
  <2> QED
    BY <2>1 DEF N
<1>7. Upto(0, "fp") = 0
  <2>1. Upto(0, "fp") = N("fp" = "gp" /\ call.big)
    BY UptoStep
  <2> QED
    BY <2>1 DEF N
<1>8. SmallUpto(0) = 0
  BY <1>1, SmallCounts
<1>9. MixedUpto(0) = 0
  BY <1>1, MixedCounts
<1>10. IntegersUpto(0) = 0 /\ FlonumsUpto(0) = 0
  <2> DEFINE I == {i \in DOMAIN Params : ~IsFlonum(Params[i])}
             E == {i \in DOMAIN Params : IsFlonum(Params[i])}
  <2>1. I \subseteq Nat \ {0} /\ E \subseteq Nat \ {0}
    BY <1>1, ArgsOf
  <2> HIDE DEF I, E
  <2>2. CountUpto(I, 0) = 0
    BY <2>1, CountStep
  <2>3. CountUpto(E, 0) = 0
    BY <2>1, CountStep
  <2> QED
    BY <2>2, <2>3 DEF IntegersUpto, FlonumsUpto, I, E
<1> HIDE DEF b
<1>11. \A i \in 1 .. 1 : i = 1
  OBVIOUS
<1>12. \A i \in 1 .. 1 - 1 : FALSE
  OBVIOUS
<1>13. SysVBefore(H, 1)
  BY <1>1, <1>4, <1>6, <1>7, <1>8 DEF SysVBefore, IsLesser
<1>14. FrameBefore(H, 1)
  BY <1>1, <1>4, <1>6, <1>7, <1>8, <1>9 DEF FrameBefore
<1>15. VaBefore(H, 1)
  BY <1>1, <1>4, <1>6, <1>7, <1>8, <1>10 DEF VaBefore, b
<1>16. WinBefore(H, 1)
  BY <1>1, <1>4 DEF WinBefore, Position, b
<1>17. Grows(H, 1, 1)
  BY <1>1, <1>4 DEF Grows
<1>18. Plan(H, 1, {})
  BY <1>5, <1>11, <1>12, <1>13, <1>14, <1>15, <1>16, <1>17 DEF Plan, SysVPlan, FramePlan, VaPlan, WinPlan
<1> QED
  BY <1>18

\* Whether push_args gives argument m a register.
InRegister(H, m) == IF abi = "win" THEN G(H, m) < WinMax ELSE PushIn(Args[m], G(H, m), F(H, m))

\* Whatever push_args decides of argument m, a trace goes on that way.
LEMMA PlanGoesOn ==
  ASSUME Scope, NEW H \in Traces, NEW m \in 1 .. Last, NEW A, NEW B,
         Plan(H, m, A), A \subseteq B, B \subseteq A \union {m}, m \in B <=> ~InRegister(H, m)
  PROVE  \E K \in Traces : (\A i \in 1 .. m : Same(H, K, i)) /\ Follows(K, m, B) /\ Plan(K, m + 1, B)
<1>1. /\ m \in Nat /\ m > 0 /\ m + 1 \in Nat /\ \A i \in 1 .. m : i \in Nat \ {m + 1}
      /\ m \in 1 .. m /\ call \in Calls /\ ~EmptyStruct /\ Args[m] \in Sized
  BY ArgsOf DEF Scope, Sound
<1> DEFINE ty == Args[m]
           mem2 == Mem(H, m) + IF m \in B THEN WordsOf(m) ELSE 0
           reg2 == Reg(H, m) + IF m \in B THEN 0 ELSE WordsOf(m)
<1>2. /\ G(H, m) \in Nat /\ F(H, m) \in Nat /\ PG(H, m) \in Nat /\ PF(H, m) \in Nat
      /\ FG(H, m) \in Nat /\ FF(H, m) \in Nat /\ Mem(H, m) \in Nat /\ Reg(H, m) \in Nat
  BY <1>1, TraceTypes
<1>3. mem2 \in Nat /\ reg2 \in Nat
  BY <1>1, <1>2, WordsOfArg
<1>4. FrameGp(ty, FG(H, m), FF(H, m)) \in Nat /\ FrameFp(ty, FG(H, m), FF(H, m)) \in Nat
  BY <1>1, <1>2, FrameTypes
<1>5. ASSUME abi = "sysv"
      PROVE  /\ PushGp(ty, G(H, m), F(H, m)) \in Nat /\ PushFp(ty, G(H, m), F(H, m)) \in Nat
             /\ PopGp(ty, PG(H, m), PF(H, m)) \in Nat /\ PopFp(ty, PG(H, m), PF(H, m)) \in Nat
  <2>1. SysVBefore(H, m) /\ ~PhantomEightbytes
    BY <1>1, <1>5 DEF Plan, SysVPlan, Scope, Sound
  <2>2. CallerCounts(ty, G(H, m), F(H, m), PG(H, m), PF(H, m),
          Upto(m - 1, "gp"), Upto(m - 1, "fp"), SmallUpto(m - 1), Upto(m, "gp"), Upto(m, "fp"), SmallUpto(m))
    BY <1>1, <1>2, <2>1, CountedStep DEF CallerCounts, SysVBefore
  <2> QED
    BY <2>2, CallerDecides DEF CallerDecided
<1> DEFINE g2 == IF abi = "win" THEN G(H, m) + 1 ELSE PushGp(ty, G(H, m), F(H, m))
           f2 == IF abi = "win" THEN 0 ELSE PushFp(ty, G(H, m), F(H, m))
           pg2 == IF abi = "win" THEN PG(H, m) ELSE PopGp(ty, PG(H, m), PF(H, m))
           pf2 == IF abi = "win" THEN PF(H, m) ELSE PopFp(ty, PG(H, m), PF(H, m))
           fg2 == FrameGp(ty, FG(H, m), FF(H, m))
           ff2 == FrameFp(ty, FG(H, m), FF(H, m))
<1>6. {g2, f2, pg2, pf2, fg2, ff2} \subseteq Nat
  BY <1>2, <1>4, <1>5 DEF Scope
<1>7. PICK K \in Traces : /\ \A i \in Nat \ {m + 1} : Same(H, K, i)
                          /\ Is(K, m + 1, g2, f2, pg2, pf2, fg2, ff2, mem2, reg2)
  <2> HIDE DEF g2, f2, pg2, pf2, fg2, ff2, mem2, reg2
  <2> QED
    BY <1>1, <1>3, <1>6, Extended
<1>8. \A i \in 1 .. m : Same(H, K, i)
  BY <1>1, <1>7
<1>9. Plan(K, m, A)
  BY <1>1, <1>8, PlanSame
<1>10. Same(H, K, m)
  BY <1>1, <1>8
<1>11. Parts(K, m, B)
  BY <1>2, <1>3, <1>7, <1>10 DEF Parts, Same, Is
<1>12. abi = "sysv" => SysVFollows(K, m, B)
  BY <1>7, <1>10 DEF SysVFollows, FrameCounts, InRegister, Same, Is
<1>13. abi = "win" => WinFollows(K, m, B)
  BY <1>7, <1>10 DEF WinFollows, InRegister, Same, Is
<1>14. Follows(K, m, B)
  BY <1>11, <1>12, <1>13 DEF Follows
<1>15. Plan(K, m + 1, B)
  BY <1>9, <1>14, PlanStep
<1> QED
  BY <1>8, <1>14, <1>15

(***************************************************************************)
(* Where the psABI has put the arguments before m, if those in B are on    *)
(* the stack and no departure from it applies.                             *)
(***************************************************************************)
Straight(B) ==
  /\ \A k \in 1 .. Last : ~(IsStruct(Args[k]) /\ Aligned16(Args[k]))
  /\ (\E k \in 1 .. Last : Args[k].kind = "ldouble") => \A k \in B : Args[k].kind = "ldouble"
AbiPlace(H, i, e, B) ==
  IF i \in B THEN <<"mem", Mem(H, i) + e - 1>>
  ELSE <<Class(Args[i], e), (IF Class(Args[i], e) = "gp" THEN PG(H, i) ELSE PF(H, i)) +
                              EarlierWords(Args[i], e, Class(Args[i], e))>>
AbiUsed(H, m, u) ==
  /\ u.gp = PG(H, m) /\ u.fp = PF(H, m) /\ u.mem = Mem(H, m)
  /\ (\E k \in 1 .. Last : Args[k].kind = "ldouble") => Mem(H, m) % 2 = 0
AbiPlaced(H, m, B, p) == \A i \in 1 .. m - 1 : \A e \in 1 .. Words(Args[i]) : p[i][e] = AbiPlace(H, i, e, B)
AbiAt(H, m, B, u, p) ==
  abi = "sysv" /\ ~LastRegister /\ Straight(B) => AbiUsed(H, m, u) /\ AbiPlaced(H, m, B, p)

AbiWord == {"gp", "fp", "mem"} \X Nat
UsedTypes == used \in [gp : Nat, fp : Nat, mem : Nat] /\ places \in Seq(Seq(AbiWord))

\* A trace that is the same up to m puts the words at the same places.
LEMMA AbiSame ==
  ASSUME NEW H \in Traces, NEW K \in Traces, NEW m \in Nat, NEW B, NEW u, NEW p, m > 0,
         \A i \in 1 .. m : Same(H, K, i), AbiAt(H, m, B, u, p)
  PROVE  AbiAt(K, m, B, u, p)
<1> SUFFICES ASSUME abi = "sysv", ~LastRegister, Straight(B)
             PROVE  AbiUsed(K, m, u) /\ AbiPlaced(K, m, B, p)
  BY DEF AbiAt
<1>1. AbiUsed(H, m, u) /\ AbiPlaced(H, m, B, p)
  BY DEF AbiAt
<1>2. Same(H, K, m)
  OBVIOUS
<1>3. AbiUsed(K, m, u)
  BY <1>1, <1>2 DEF AbiUsed, Same
<1>4. ASSUME NEW i \in 1 .. m - 1, NEW e \in 1 .. Words(Args[i])
      PROVE  p[i][e] = AbiPlace(K, i, e, B)
  <2>1. Same(H, K, i) /\ p[i][e] = AbiPlace(H, i, e, B)
    BY <1>1 DEF AbiPlaced
  <2> QED
    BY <2>1 DEF AbiPlace, Same
<1> QED
  BY <1>3, <1>4 DEF AbiPlaced

\* Classes and counts of words have their types.
LEMMA ClassCounts ==
  ASSUME NEW ty \in ArgTypes, NEW e \in Nat, NEW c
  PROVE  Class(ty, e) \in {"gp", "fp"} /\ EarlierWords(ty, e, c) \in Nat /\ Needs(ty, c) \in Nat
<1>1. Class(ty, e) \in {"gp", "fp"}
  BY DEF Class
<1>2. ASSUME NEW n \in Int, NEW S, S \in SUBSET (1 .. n)
      PROVE  Cardinality(S) \in Nat
  <2>1. IsFiniteSet(1 .. n)
    <3>1. CASE n >= 0
      BY <3>1, FS_Interval
    <3>2. CASE n < 0
      <4>1. 1 .. n = {}
        BY <3>2
      <4> QED
        BY <4>1, FS_EmptySet
    <3> QED
      BY <3>1, <3>2
  <2>2. IsFiniteSet(S)
    BY <1>2, <2>1, FS_Subset
  <2> QED
    BY <2>2, FS_CardinalityType
<1>3. EarlierWords(ty, e, c) \in Nat
  <2> DEFINE S == {d \in 1 .. e - 1 : Class(ty, d) = c}
  <2>1. S \in SUBSET (1 .. e - 1) /\ e - 1 \in Int
    OBVIOUS
  <2> HIDE DEF S
  <2>2. Cardinality(S) \in Nat
    BY <1>2, <2>1
  <2> QED
    BY <2>2 DEF EarlierWords, S
<1>4. Needs(ty, c) \in Nat
  <2> DEFINE S == {d \in 1 .. Words(ty) : Class(ty, d) = c}
  <2>1. Words(ty) \in Int
    BY DEF Words, ArgTypes
  <2>2. S \in SUBSET (1 .. Words(ty))
    OBVIOUS
  <2> HIDE DEF S
  <2>3. Cardinality(S) \in Nat
    BY <1>2, <2>1, <2>2
  <2> QED
    BY <2>3 DEF Needs, S
<1> QED
  BY <1>1, <1>3, <1>4

\* The psABI puts argument arg where the trace says.
LEMMA AbiStep ==
  ASSUME Scope, UsedTypes, NEW H \in Traces, NEW A, NEW B, arg \in 1 .. Last,
         Plan(H, arg, A), Follows(H, arg, B), A \subseteq B, B \subseteq A \union {arg},
         AbiAt(H, arg, A, used, places), Assign, Len(places) = arg - 1
  PROVE  AbiAt(H, arg + 1, B, used', places')
<1> SUFFICES ASSUME abi = "sysv", ~LastRegister, Straight(B)
             PROVE  AbiUsed(H, arg + 1, used') /\ AbiPlaced(H, arg + 1, B, places')
  BY DEF AbiAt
<1> DEFINE ty == Args[arg]
           row == [e \in 1 .. Words(ty) |-> Place(ty, e)]
<1>1. /\ call \in Calls /\ ~EmptyStruct /\ ~PhantomEightbytes /\ arg \in Nat /\ arg \in 1 .. arg
      /\ ty \in Sized /\ A \subseteq 1 .. arg - 1 /\ SysVBefore(H, arg) /\ SysVFollows(H, arg, B)
      /\ Parts(H, arg, B)
  BY ArgsOf DEF Scope, Sound, Plan, SysVPlan, Follows
<1>2. /\ G(H, arg) \in Nat /\ F(H, arg) \in Nat /\ PG(H, arg) \in Nat /\ PF(H, arg) \in Nat /\ Mem(H, arg) \in Nat
  BY <1>1, TraceTypes
<1>3. Straight(A)
  BY DEF Straight
<1>4. AbiUsed(H, arg, used) /\ AbiPlaced(H, arg, A, places)
  BY <1>3 DEF AbiAt
<1>5. AbiDecided(ty, G(H, arg), F(H, arg), PG(H, arg), PF(H, arg))
  <2>1. CallerCounts(ty, G(H, arg), F(H, arg), PG(H, arg), PF(H, arg), Upto(arg - 1, "gp"), Upto(arg - 1, "fp"),
          SmallUpto(arg - 1), Upto(arg, "gp"), Upto(arg, "fp"), SmallUpto(arg))
    BY <1>1, <1>2, CountedStep DEF CallerCounts, SysVBefore
  <2>2. IsStruct(ty) => ~Aligned16(ty)
    BY DEF Straight
  <2>3. IsStruct(ty) /\ ty.size <= 16 => Upto(arg, "gp") < GpMax /\ Upto(arg, "fp") < FpMax
    <3>1. IsStruct(ty) /\ ty.size <= 16 => ~(Upto(arg, "gp") >= GpMax) /\ ~(Upto(arg, "fp") >= FpMax)
      BY <1>1, ArgKinds DEF LastRegister
    <3>2. Upto(arg, "gp") \in Nat /\ Upto(arg, "fp") \in Nat /\ GpMax \in Nat /\ FpMax \in Nat
      BY <1>1, CountedStep, RegistersAssumption
    <3> QED
      BY <3>1, <3>2
  <2> HIDE DEF ty
  <2> QED
    BY <2>1, <2>2, <2>3, AbiDecides
<1>6. SysVDecides(H, arg, B)
  BY <1>1, SysVStep
<1>7. Available(ty) <=> arg \notin B
  BY <1>4, <1>5, <1>6 DEF Available, AbiUsed, AbiDecided, SysVDecides
<1>8. WordsOf(arg) = Words(ty) /\ Words(ty) \in Nat
  BY <1>1, WordsOfArg
<1>9. arg \in B => NextWord(ty) = Mem(H, arg)
  <2>1. Aligned16(ty) => Mem(H, arg) % 2 = 0
    BY <1>1, <1>4, <1>5 DEF AbiDecided, AbiUsed
  <2> QED
    BY <1>2, <1>4, <2>1 DEF NextWord, AbiUsed
<1>10. AbiUsed(H, arg + 1, used')
  <2>1. CASE arg \in B
    <3>1. used'.gp = used.gp /\ used'.fp = used.fp /\ used'.mem = NextWord(ty) + Words(ty)
      BY <1>7, <2>1 DEF Assign, UsedTypes
    <3>2. Mem(H, arg + 1) = Mem(H, arg) + Words(ty)
      BY <1>1, <1>8, <2>1 DEF Parts
    <3>3. (\E k \in 1 .. Last : Args[k].kind = "ldouble") => Words(ty) = 2 /\ Mem(H, arg) % 2 = 0
      BY <1>1, <1>4, <2>1, TypeFacts DEF Straight, AbiUsed
    <3>4. (\E k \in 1 .. Last : Args[k].kind = "ldouble") => Mem(H, arg + 1) % 2 = 0
      BY <1>2, <3>2, <3>3
    <3> QED
      BY <1>4, <1>6, <1>9, <2>1, <3>1, <3>2, <3>4 DEF AbiUsed, SysVDecides
  <2>2. CASE arg \notin B
    <3>1. used'.gp = used.gp + Needs(ty, "gp") /\ used'.fp = used.fp + Needs(ty, "fp") /\ used'.mem = used.mem
      BY <1>7, <2>2 DEF Assign, UsedTypes
    <3>2. Needs(ty, "gp") = Pieces(ty, "gp") /\ Needs(ty, "fp") = Pieces(ty, "fp")
      BY <1>5, <1>7, <2>2 DEF AbiDecided, Available
    <3>3. Mem(H, arg + 1) = Mem(H, arg)
      BY <1>1, <2>2 DEF Parts
    <3> QED
      BY <1>4, <1>6, <2>2, <3>1, <3>2, <3>3 DEF AbiUsed, SysVDecides
  <2> QED
    BY <2>1, <2>2
<1>11. /\ \A i \in 1 .. arg - 1 : places'[i] = places[i]
       /\ places'[arg] = row
  <2>1. places' = Append(places, row) /\ places \in Seq(Seq(AbiWord)) /\ Len(places) = arg - 1
    BY DEF Assign, UsedTypes
  <2> HIDE DEF row
  <2> QED
    BY <1>1, <2>1
<1>12. ASSUME NEW e \in 1 .. Words(ty)
       PROVE  Place(ty, e) = AbiPlace(H, arg, e, B)
  <2>1. e \in Nat
    BY <1>8
  <2>2. Class(ty, e) \in {"gp", "fp"}
    BY <1>1, <2>1, ClassCounts DEF Sized
  <2>3. CASE arg \in B
    BY <1>7, <1>9, <2>3 DEF Place, AbiPlace
  <2>4. CASE arg \notin B
    <3>1. Place(ty, e) = <<Class(ty, e), used[Class(ty, e)] + EarlierWords(ty, e, Class(ty, e))>>
      BY <1>7, <2>4 DEF Place
    <3>2. used[Class(ty, e)] = IF Class(ty, e) = "gp" THEN PG(H, arg) ELSE PF(H, arg)
      BY <1>4, <2>2 DEF AbiUsed, UsedTypes
    <3> QED
      BY <2>4, <3>1, <3>2 DEF AbiPlace
  <2> QED
    BY <2>3, <2>4
<1>13. ASSUME NEW i \in 1 .. arg, NEW e \in 1 .. Words(Args[i])
       PROVE  places'[i][e] = AbiPlace(H, i, e, B)
  <2>1. CASE i = arg
    <3>1. row[e] = Place(ty, e)
      BY <2>1
    <3> HIDE DEF row
    <3> QED
      BY <1>11, <1>12, <2>1, <3>1
  <2>2. CASE i \in 1 .. arg - 1
    <3>1. i \in A <=> i \in B
      BY <1>1, <2>2
    <3>2. places'[i][e] = AbiPlace(H, i, e, A)
      BY <1>4, <1>11, <2>2 DEF AbiPlaced
    <3> QED
      BY <3>1, <3>2 DEF AbiPlace
  <2> QED
    BY <1>1, <2>1, <2>2
<1> QED
  BY <1>1, <1>10, <1>13 DEF AbiPlaced

\* What depends on the call alone stays as it is.
LEMMA CallKept ==
  ASSUME UNCHANGED <<abi, call>>
  PROVE  /\ Args' = Args /\ Params' = Params /\ Last' = Last
         /\ \A i : (ByReference(Args[i])' <=> ByReference(Args[i])) /\ WordsOf(i)' = WordsOf(i) /\ Position(i)' = Position(i)
<1>1. Params' = Params /\ Args' = Args
  BY DEF Args, Params
<1>2. Last' = Last
  BY <1>1 DEF Last
<1>3. \A i : ByReference(Args[i])' <=> ByReference(Args[i])
  BY <1>1 DEF ByReference
<1>4. \A i : WordsOf(i)' = WordsOf(i)
  BY <1>1, <1>3 DEF WordsOf
<1>5. \A i : Position(i)' = Position(i)
  BY DEF Position
<1> QED
  BY <1>1, <1>2, <1>3, <1>4, <1>5

\* Nothing of a plan depends on more than the call and the convention.
LEMMA CountsKept ==
  ASSUME UNCHANGED <<abi, call>>
  PROVE  /\ \A k, c : Upto(k, c)' = Upto(k, c)
         /\ Structs' = Structs /\ Small' = Small /\ Mixed' = Mixed
         /\ \A k : SmallUpto(k)' = SmallUpto(k) /\ MixedUpto(k)' = MixedUpto(k)
         /\ \A k : IntegersUpto(k)' = IntegersUpto(k) /\ FlonumsUpto(k)' = FlonumsUpto(k)
<1>1. Args' = Args /\ Params' = Params
  BY CallKept
<1>2. \A k, c : Upto(k, c)' = Upto(k, c)
  BY <1>1 DEF Upto, Eightbytes
<1>3. Structs' = Structs
  BY <1>1 DEF Structs
<1>4. Small' = Small
  BY <1>1, <1>3 DEF Small
<1>5. Mixed' = Mixed
  BY <1>1, <1>3 DEF Mixed
<1>6. \A k : SmallUpto(k)' = SmallUpto(k) /\ MixedUpto(k)' = MixedUpto(k)
  BY <1>4, <1>5 DEF SmallUpto, MixedUpto, CountUpto
<1>7. \A k : IntegersUpto(k)' = IntegersUpto(k) /\ FlonumsUpto(k)' = FlonumsUpto(k)
  BY <1>1 DEF IntegersUpto, FlonumsUpto, CountUpto
<1> QED
  BY <1>2, <1>3, <1>4, <1>5, <1>6, <1>7

LEMMA DeparturesKept ==
  ASSUME UNCHANGED <<abi, call>>
  PROVE  /\ EmptyStruct' <=> EmptyStruct
         /\ PhantomEightbytes' <=> PhantomEightbytes
         /\ SecondHalf' <=> SecondHalf
         /\ LastRegister' <=> LastRegister
         /\ VaStart' <=> VaStart
         /\ VaTypes' <=> VaTypes
         /\ Scope' <=> Scope
         /\ \A B : Straight(B)' <=> Straight(B)
<1>1. Args' = Args /\ Params' = Params /\ Last' = Last
  BY CallKept
<1>2. EmptyStruct' <=> EmptyStruct
  BY <1>1 DEF EmptyStruct
<1>3. PhantomEightbytes' <=> PhantomEightbytes
  BY <1>1, CountsKept DEF PhantomEightbytes
<1>4. SecondHalf' <=> SecondHalf
  BY <1>1, CountsKept DEF SecondHalf
<1>5. LastRegister' <=> LastRegister
  BY <1>1, CountsKept DEF LastRegister
<1>6. VaStart' <=> VaStart
  BY <1>1, CountsKept DEF VaStart
<1>7. VaTypes' <=> VaTypes
  BY <1>1 DEF VaTypes
<1>8. Scope' <=> Scope
  BY <1>1, <1>2, <1>3 DEF Scope, Sound
<1>9. \A B : Straight(B)' <=> Straight(B)
  BY <1>1 DEF Straight
<1> QED
  BY <1>2, <1>3, <1>4, <1>5, <1>6, <1>7, <1>8, <1>9

LEMMA PlanKept ==
  ASSUME NEW H, NEW m, NEW B, UNCHANGED <<abi, call>>
  PROVE  Plan(H, m, B)' <=> Plan(H, m, B)
<1>1. Args' = Args /\ Params' = Params /\ Last' = Last
  BY CallKept
<1>2. \A i : Parts(H, i, B)' <=> Parts(H, i, B)
  BY CallKept DEF Parts
<1>3. Started(H)' <=> Started(H)
  BY DEF Started
<1>4. \A i : SysVBefore(H, i)' <=> SysVBefore(H, i)
  BY CountsKept DEF SysVBefore
<1>5. \A i : SysVDecides(H, i, B)' <=> SysVDecides(H, i, B)
  BY <1>1 DEF SysVDecides
<1>6. \A i : FrameBefore(H, i)' <=> FrameBefore(H, i)
  BY CountsKept DEF FrameBefore
<1>7. \A i : (FrameCounts(H, i)' <=> FrameCounts(H, i)) /\ (FrameDecides(H, i, B)' <=> FrameDecides(H, i, B))
  BY <1>1 DEF FrameCounts, FrameDecides
<1>8. \A i : VaBefore(H, i)' <=> VaBefore(H, i)
  BY CountsKept DEF VaBefore
<1>9. \A i : (WinBefore(H, i)' <=> WinBefore(H, i)) /\ (WinDecides(i, B)' <=> WinDecides(i, B))
  BY CallKept DEF WinBefore, WinDecides
<1>10. SysVPlan(H, m, B)' <=> SysVPlan(H, m, B)
  BY <1>4, <1>5 DEF SysVPlan
<1>11. FramePlan(H, m, B)' <=> FramePlan(H, m, B)
  BY <1>1, <1>6, <1>7, DeparturesKept DEF FramePlan
<1>12. VaPlan(H, m)' <=> VaPlan(H, m)
  BY <1>1, <1>8, DeparturesKept DEF VaPlan
<1>13. WinPlan(H, m, B)' <=> WinPlan(H, m, B)
  BY <1>9 DEF WinPlan
<1> QED
  BY <1>2, <1>3, <1>10, <1>11, <1>12, <1>13 DEF Plan

LEMMA AbiKept ==
  ASSUME NEW H, NEW m, NEW B, NEW u, NEW p, UNCHANGED <<abi, call>>
  PROVE  AbiAt(H, m, B, u, p)' <=> AbiAt(H, m, B, u, p)
<1>1. Args' = Args /\ Last' = Last
  BY CallKept
<1>2. AbiUsed(H, m, u)' <=> AbiUsed(H, m, u)
  BY <1>1 DEF AbiUsed
<1>3. \A i, e : AbiPlace(H, i, e, B)' = AbiPlace(H, i, e, B)
  BY <1>1 DEF AbiPlace
<1>4. AbiPlaced(H, m, B, p)' <=> AbiPlaced(H, m, B, p)
  BY <1>1, <1>3 DEF AbiPlaced
<1> QED
  BY <1>2, <1>4, DeparturesKept DEF AbiAt

(***************************************************************************)
(* The stack: temporaries and copies at its bottom, up to Floor, and up to *)
(* Total the arguments that stay on it; and the words of an argument, the  *)
(* first of them at a place.                                               *)
(***************************************************************************)
Floor == call.temps + copied
Total == Floor + args
Want(i, w) == IF ByReference(Args[i]) THEN Ref(copies[i]) ELSE <<i, w>>

CopyAt(i) ==
  /\ copies[i] \in Int /\ copies[i] - Words(Args[i]) \in Nat /\ copies[i] <= Floor
  /\ \A w \in 1 .. Words(Args[i]) : stack[copies[i] - w + 1] = <<i, w>>
Bottom(m) ==
  /\ Floor <= Len(stack) /\ \A k \in 1 .. call.temps : stack[k] = Temp
  /\ \A i \in 1 .. m - 1 : ByReference(Args[i]) => CopyAt(i)
WordsAt(i, at) == \A w \in 1 .. WordsOf(i) : stack[at + 1 - w] = Want(i, w)
OnStack(H, m) == \A i \in m .. Last : i \in bystack => WordsAt(i, Total - Mem(H, i))
ForRegisters(H, m) == \A i \in m .. Last : i \notin bystack => WordsAt(i, Total + Reg(H, Last + 1) - Reg(H, i))
Loaded(H, i) ==
  /\ abi = "sysv" => Stored(Args[i], PG(H, i), PF(H, i)) = Sent(i)
  /\ abi = "win" => /\ gpr[Position(i)] = Want(i, 1)
                    /\ Args[i].kind = "float" => fpr[Position(i)] = Want(i, 1)
InRegisters(H, m) == \A i \in 1 .. m - 1 : i \notin bystack => Loaded(H, i)

\* What holds once push_args has gone through the arguments.
Laid(H) ==
  /\ Plan(H, Last + 1, bystack) /\ AbiAt(H, Last + 1, bystack, used, places)
  /\ Mem(H, Last + 1) <= args /\ Total % 2 = 0 /\ Bottom(Last + 1)

\* The places of arguments, on the stack and while they wait for registers.
LEMMA Spots ==
  ASSUME Scope, NEW H \in Traces, NEW B, Plan(H, Last + 1, B), NEW i \in 1 .. Last
  PROVE  /\ Mem(H, i) \in Nat /\ Reg(H, i) \in Nat /\ Mem(H, Last + 1) \in Nat /\ Reg(H, Last + 1) \in Nat
         /\ WordsOf(i) \in Nat /\ WordsOf(i) > 0
         /\ i \in B => Mem(H, i + 1) = Mem(H, i) + WordsOf(i) /\ Mem(H, i) + WordsOf(i) <= Mem(H, Last + 1)
                      /\ Reg(H, i + 1) = Reg(H, i)
         /\ i \notin B => Reg(H, i + 1) = Reg(H, i) + WordsOf(i) /\ Reg(H, i) + WordsOf(i) <= Reg(H, Last + 1)
                         /\ Mem(H, i + 1) = Mem(H, i)
<1>1. call \in Calls /\ ~EmptyStruct /\ Last \in Nat
  BY ArgsOf DEF Scope, Sound
<1>2. PICK m : m = Last + 1
  OBVIOUS
<1>3. m \in Nat /\ i \in Nat /\ i + 1 \in Nat /\ i \in 1 .. m - 1 /\ i + 1 \in 1 .. m /\ m \in 1 .. m /\ i + 1 <= m
  BY <1>1, <1>2
<1>4. Mem(H, i) \in Nat /\ Reg(H, i) \in Nat
  BY <1>3, TraceTypes
<1>5. Mem(H, m) \in Nat /\ Reg(H, m) \in Nat
  BY <1>3, TraceTypes
<1>6. WordsOf(i) \in Nat /\ WordsOf(i) > 0
  BY <1>1, WordsOfArg
<1>7. Parts(H, i, B) /\ Grows(H, i + 1, m)
  BY <1>2, <1>3 DEF Plan
<1> QED
  BY <1>2, <1>3, <1>4, <1>5, <1>6, <1>7 DEF Parts, Grows

\* What lies at the bottom stays while nothing is stored there.
LEMMA BottomKept ==
  ASSUME NEW m, call \in Calls, copied \in Nat,
         UNCHANGED <<abi, call, copies, copied>>, \A i \in 1 .. m - 1 : Words(Args[i]) \in Nat,
         Floor <= Len(stack'), \A k \in 1 .. Floor : stack'[k] = stack[k], Bottom(m)
  PROVE  Bottom(m)'
<1>1. Floor' = Floor /\ Floor \in Nat /\ call.temps \in Nat /\ call.temps <= Floor
  BY ArgsOf DEF Floor
<1>2. \A k \in 1 .. call.temps : stack'[k] = Temp
  BY <1>1 DEF Bottom
<1>3. Args' = Args
  BY CallKept
<1>4. ASSUME NEW i \in 1 .. m - 1, ByReference(Args[i])
      PROVE  CopyAt(i)'
  <2>1. CopyAt(i) /\ Words(Args[i]) \in Nat
    BY <1>4 DEF Bottom
  <2>2. ASSUME NEW w \in 1 .. Words(Args[i])
        PROVE  copies[i] - w + 1 \in 1 .. Floor
    BY <1>1, <2>1, SMTT(30) DEF CopyAt
  <2>3. \A w \in 1 .. Words(Args[i]) : stack'[copies[i] - w + 1] = <<i, w>>
    BY <2>1, <2>2 DEF CopyAt
  <2> QED
    BY <1>1, <1>3, <2>1, <2>3 DEF CopyAt
<1>5. \A i : ByReference(Args[i])' <=> ByReference(Args[i])
  BY CallKept
<1> QED
  BY <1>1, <1>2, <1>4, <1>5 DEF Bottom, Temp

LEMMA LaidKept ==
  ASSUME Scope, NEW H \in Traces, Laid(H), copied \in Nat, args \in Nat,
         UNCHANGED <<abi, call, bystack, copies, copied, args, used, places>>,
         Floor <= Len(stack'), \A k \in 1 .. Floor : stack'[k] = stack[k]
  PROVE  Laid(H)'
<1>1. Last' = Last /\ Last \in Nat /\ call \in Calls /\ ~EmptyStruct
  BY CallKept, ArgsOf DEF Scope, Sound
<1>2. PICK m : m = Last + 1
  OBVIOUS
<1>3. PICK B, u, p : B = bystack /\ u = used /\ p = places
  OBVIOUS
<1>4. Plan(H, m, B)' <=> Plan(H, m, B)
  BY PlanKept
<1>5. AbiAt(H, m, B, u, p)' <=> AbiAt(H, m, B, u, p)
  BY AbiKept
<1>6. Bottom(m)'
  <2>1. \A i \in 1 .. m - 1 : Words(Args[i]) \in Nat
    BY <1>1, <1>2, WordsOfArg
  <2>2. Bottom(m)
    BY <1>2 DEF Laid
  <2> QED
    BY <1>1, <2>1, <2>2, BottomKept
<1>7. Total' = Total
  BY DEF Total, Floor
<1> QED
  BY <1>1, <1>2, <1>3, <1>4, <1>5, <1>6, <1>7 DEF Laid

\* So do the words of an argument,
LEMMA WordsKept ==
  ASSUME Scope, NEW i \in 1 .. Last, NEW at \in Int, UNCHANGED <<abi, call, copies>>,
         \A k \in at + 1 - WordsOf(i) .. at : stack'[k] = stack[k], WordsAt(i, at)
  PROVE  WordsAt(i, at)'
<1>1. WordsOf(i)' = WordsOf(i) /\ WordsOf(i) \in Nat
  BY CallKept, WordsOfArg DEF Scope, Sound
<1>2. \A w : Want(i, w)' = Want(i, w)
  BY CallKept DEF Want
<1>3. \A w \in 1 .. WordsOf(i) : at + 1 - w \in at + 1 - WordsOf(i) .. at
  BY <1>1
<1> QED
  BY <1>1, <1>2, <1>3 DEF WordsAt

\* those of all that stay on the stack,
LEMMA OnStackKept ==
  ASSUME Scope, NEW H \in Traces, NEW m \in 1 .. Last + 1, Laid(H), copied \in Nat, args \in Nat,
         UNCHANGED <<abi, call, bystack, copies, copied, args>>,
         \A k \in 1 .. Total - Mem(H, m) : k > Total - Mem(H, Last + 1) => stack'[k] = stack[k], OnStack(H, m)
  PROVE  OnStack(H, m)'
<1>1. Last' = Last /\ Last \in Nat /\ call \in Calls /\ call.temps \in Nat
  BY CallKept, ArgsOf DEF Scope
<1>2. Total' = Total /\ Total \in Nat /\ args <= Total
  BY <1>1 DEF Total, Floor
<1>3. ASSUME NEW i \in m .. Last, i \in bystack
      PROVE  WordsAt(i, Total - Mem(H, i))'
  <2>1. PICK at : at = Total - Mem(H, i)
    OBVIOUS
  <2>2. i \in 1 .. Last /\ Plan(H, Last + 1, bystack)
    BY <1>1 DEF Laid
  <2>3. /\ Mem(H, i) \in Nat /\ Mem(H, Last + 1) \in Nat
        /\ WordsOf(i) \in Nat /\ Mem(H, i) + WordsOf(i) <= Mem(H, Last + 1)
    BY <1>3, <2>2, Spots
  <2>4. Mem(H, Last + 1) <= args
    BY DEF Laid
  <2>10. Mem(H, m) <= Mem(H, i) /\ Mem(H, m) \in Nat
    <3>1. m \in 1 .. Last + 1 /\ i \in 1 .. Last + 1 /\ m <= i /\ m \in Nat
      BY <1>1
    <3> QED
      BY <2>2, <3>1, TraceTypes DEF Plan, Grows
  <2>5. /\ at \in Int
        /\ \A k \in at + 1 - WordsOf(i) .. at : k \in 1 .. Total - Mem(H, m) /\ k > Total - Mem(H, Last + 1)
    BY <1>2, <2>1, <2>3, <2>4, <2>10
  <2>6. WordsAt(i, at)
    BY <1>3, <2>1 DEF OnStack
  <2>7. \A k \in at + 1 - WordsOf(i) .. at : stack'[k] = stack[k]
    BY <2>5
  <2>8. WordsAt(i, at)'
    BY <2>3, <2>5, <2>6, <2>7, WordsKept
  <2>9. at = (Total - Mem(H, i))'
    BY <1>2, <2>1 DEF Mem
  <2> QED
    BY <2>8, <2>9
<1> QED
  BY <1>1, <1>3 DEF OnStack

\* and those of all that wait for their registers.
LEMMA ForRegistersKept ==
  ASSUME Scope, NEW H \in Traces, NEW m \in 1 .. Last + 1, Laid(H), copied \in Nat, args \in Nat,
         UNCHANGED <<abi, call, bystack, copies, copied, args>>,
         \A k \in Total + 1 .. Total + Reg(H, Last + 1) - Reg(H, m) : stack'[k] = stack[k], ForRegisters(H, m)
  PROVE  ForRegisters(H, m)'
<1>1. Last' = Last /\ Last \in Nat /\ call \in Calls /\ call.temps \in Nat
  BY CallKept, ArgsOf DEF Scope
<1>2. Total' = Total /\ Total \in Nat
  BY <1>1 DEF Total, Floor
<1>3. ASSUME NEW i \in m .. Last, i \notin bystack
      PROVE  WordsAt(i, Total + Reg(H, Last + 1) - Reg(H, i))'
  <2>1. PICK at : at = Total + Reg(H, Last + 1) - Reg(H, i)
    OBVIOUS
  <2>2. i \in 1 .. Last /\ Plan(H, Last + 1, bystack)
    BY <1>1 DEF Laid
  <2>3. /\ Reg(H, i) \in Nat /\ Reg(H, Last + 1) \in Nat
        /\ WordsOf(i) \in Nat /\ Reg(H, i) + WordsOf(i) <= Reg(H, Last + 1)
    BY <1>3, <2>2, Spots
  <2>4. Reg(H, m) <= Reg(H, i) /\ Reg(H, m) \in Nat
    <3>1. m \in 1 .. Last + 1 /\ i \in 1 .. Last + 1 /\ m <= i /\ m \in Nat
      BY <1>1
    <3> QED
      BY <2>2, <3>1, TraceTypes DEF Plan, Grows
  <2>5. at \in Int /\ \A k \in at + 1 - WordsOf(i) .. at : k \in Total + 1 .. Total + Reg(H, Last + 1) - Reg(H, m)
    BY <1>2, <2>1, <2>3, <2>4
  <2>6. WordsAt(i, at)
    BY <1>3, <2>1 DEF ForRegisters
  <2>7. \A k \in at + 1 - WordsOf(i) .. at : stack'[k] = stack[k]
    BY <2>5
  <2>8. WordsAt(i, at)'
    BY <2>3, <2>5, <2>6, <2>7, WordsKept
  <2>9. at = (Total + Reg(H, Last + 1) - Reg(H, i))'
    BY <1>1, <1>2, <2>1 DEF Reg
  <2> QED
    BY <2>8, <2>9
<1> QED
  BY <1>1, <1>3 DEF ForRegisters

\* Registers hold what they held.
LEMMA LoadedKept ==
  ASSUME NEW H \in Traces, NEW i, UNCHANGED <<abi, call, copies, gpr, fpr>>
  PROVE  Loaded(H, i)' <=> Loaded(H, i)
<1>1. Args' = Args /\ Position(i)' = Position(i) /\ Want(i, 1)' = Want(i, 1)
  BY CallKept DEF Want
<1>2. Sent(i)' = Sent(i)
  BY <1>1 DEF Sent
<1>3. \A ty, g, f : Stored(ty, g, f)' = Stored(ty, g, f)
  BY DEF Stored, Gpr, Fpr
<1> QED
  BY <1>1, <1>2, <1>3 DEF Loaded

\* Whether the callee finds its parameters.
Known == abi = "sysv" => ~SecondHalf
VaKnown == abi = "sysv" /\ ~VaStart /\ ~VaTypes /\ ~VaAligned

Framed(H, m) == \A i \in 1 .. m - 1 :
  /\ abi = "sysv" => offset[i] = IF i \in bystack THEN Mem(H, i) + 1 ELSE 0
  /\ abi = "win" => offset[i] = Position(i)
Homed(m) == \A i \in 1 .. m - 1 :
  /\ abi = "sysv" /\ i \notin bystack => home[i] = Sent(i)
  /\ abi = "win" => stack[Len(stack) + 1 - Position(i)] = Want(i, 1)
VaAt(H, k) ==
  LET i == Len(Params) + k IN va.gp = PG(H, i) /\ va.fp = PF(H, i) /\ va.mem = Mem(H, i)
Got(n) == got = [k \in 1 .. n |-> Sent(Len(Params) + k)]

(***************************************************************************)
(* What holds in each phase of the call.                                   *)
(***************************************************************************)
Classifying(H) ==
  /\ arg \in 1 .. Last + 1 /\ Plan(H, arg, bystack) /\ AbiAt(H, arg, bystack, used, places)
  /\ Len(places) = arg - 1 /\ Bottom(arg)
  /\ gp = G(H, arg) /\ (abi = "sysv" => fp = F(H, arg)) /\ args = Mem(H, arg)
  /\ Len(stack) = Floor /\ depth = Floor
First(H) ==
  /\ arg \in 1 .. Last + 1 /\ depth = Len(stack)
  /\ Len(stack) = Total - Mem(H, Last + 2 - arg) /\ OnStack(H, Last + 2 - arg)
Second(H) ==
  /\ arg \in 1 .. Last + 1 /\ depth = Len(stack)
  /\ Len(stack) = Total + Reg(H, Last + 1) - Reg(H, Last + 2 - arg)
  /\ OnStack(H, 1) /\ ForRegisters(H, Last + 2 - arg)
Popping(H) ==
  /\ arg \in 0 .. Last + 1 /\ depth = Len(stack) /\ OnStack(H, 1)
  /\ arg = 0 => /\ call.big /\ gp = 0 /\ fp = 0
                /\ Len(stack) = Total + Reg(H, Last + 1) + 1 /\ ForRegisters(H, 1)
  /\ arg > 0 => /\ Len(stack) = Total + Reg(H, Last + 1) - Reg(H, arg)
                /\ ForRegisters(H, arg) /\ InRegisters(H, arg)
                /\ abi = "sysv" => gp = PG(H, arg) /\ fp = PF(H, arg)
                /\ abi = "win" => IsLesser(gp, Position(arg) - 1, WinMax)
Homes == IF abi = "win" THEN WinMax ELSE 0
Called(H) == depth = Total /\ Len(stack) = Total + Homes /\ OnStack(H, 1) /\ InRegisters(H, Last + 1)
Placing(H) ==
  /\ arg \in 1 .. Len(Params) + 1
  /\ abi = "sysv" => gp = FG(H, arg) /\ fp = FF(H, arg)
  /\ abi = "win" => gp = Position(arg) - 1 /\ top = Position(arg) - 1
  /\ Known => Framed(H, arg) /\ (abi = "sysv" => top = Mem(H, arg))
Entering(H) ==
  /\ arg \in 1 .. Len(Params) + 1
  /\ Known => /\ Framed(H, Len(Params) + 1) /\ Homed(arg)
              /\ abi = "sysv" => gp = PG(H, arg) /\ fp = PF(H, arg)
              /\ abi = "win" => IsLesser(gp, Position(arg) - 1, WinMax)
  /\ VaKnown => VaAt(H, 1)
Running(H) ==
  /\ arg \in 1 .. Len(call.more) + 1
  /\ Known => Framed(H, Len(Params) + 1) /\ Homed(Len(Params) + 1)
  /\ VaKnown => VaAt(H, arg) /\ Got(arg - 1)
Ended ==
  /\ depth = call.temps /\ stack = [k \in 1 .. call.temps |-> Temp]
  /\ VaKnown => Got(Len(call.more))

Inv(H) ==
  /\ TypeOK /\ UsedTypes
  /\ pc = "classify" => Classifying(H)
  /\ pc \in {"first", "second", "pop", "offsets", "prologue", "body"} => Laid(H)
  /\ pc = "first" => First(H)
  /\ pc = "second" => Second(H)
  /\ pc = "pop" => Popping(H)
  /\ pc \in {"offsets", "prologue", "body"} => Called(H)
  /\ pc = "offsets" => Placing(H)
  /\ pc = "prologue" => Entering(H)
  /\ pc = "body" => Running(H)
  /\ pc = "done" => Ended
  /\ pc \notin {"body", "done"} => got = <<>>

-------------------------------------------------------------------------------
\* Sequences.
LEMMA Concat ==
  ASSUME NEW S, NEW s \in Seq(S), NEW n \in Nat, NEW t \in [1 .. n -> S]
  PROVE  /\ s \o t \in Seq(S) /\ Len(s \o t) = Len(s) + n
         /\ \A k \in 1 .. Len(s) : (s \o t)[k] = s[k]
         /\ \A k \in 1 .. n : (s \o t)[Len(s) + k] = t[k]
<1>1. t \in Seq(S) /\ Len(t) = n /\ Len(s) \in Nat
  OBVIOUS
<1> QED
  BY <1>1

\* A sequence without its last n elements.
LEMMA Truncated ==
  ASSUME NEW S, NEW s \in Seq(S), NEW n \in 0 .. Len(s)
  PROVE  /\ SubSeq(s, 1, Len(s) - n) \in Seq(S) /\ Len(SubSeq(s, 1, Len(s) - n)) = Len(s) - n
         /\ \A k \in 1 .. Len(s) - n : SubSeq(s, 1, Len(s) - n)[k] = s[k]
<1>1. Len(s) \in Nat /\ Len(s) - n \in 0 .. Len(s)
  OBVIOUS
<1> QED
  BY <1>1

\* A sequence with one element replaced.
LEMMA Updated ==
  ASSUME NEW S, NEW s \in Seq(S), NEW n, NEW x \in S
  PROVE  /\ [s EXCEPT ![n] = x] \in Seq(S) /\ Len([s EXCEPT ![n] = x]) = Len(s)
         /\ \A k \in 1 .. Len(s) : k # n => [s EXCEPT ![n] = x][k] = s[k]
         /\ n \in 1 .. Len(s) => [s EXCEPT ![n] = x][n] = x
<1>1. s \in [1 .. Len(s) -> S] /\ Len(s) \in Nat
  OBVIOUS
<1>2. [s EXCEPT ![n] = x] \in [1 .. Len(s) -> S]
  BY <1>1
<1> QED
  BY <1>1, <1>2

LEMMA WordTypes ==
  /\ Temp \in Word /\ Pad \in Word /\ Junk \in Word /\ Shadow \in Word /\ RetBuffer \in Word
  /\ \A n \in Int : Ref(n) \in Word
  /\ \A n \in Int, m \in Int : <<n, m>> \in Word
BY DEF Temp, Pad, Junk, Shadow, RetBuffer, Ref, Word

\* What is pushed for argument i, in the order of the stack.
LEMMA PushedWords ==
  ASSUME Scope, TypeOK, NEW i \in 1 .. Last
  PROVE  /\ Downwards(i) \in [1 .. Words(Args[i]) -> Word] /\ Words(Args[i]) \in Nat
         /\ Pushed(i) \in [1 .. WordsOf(i) -> Word] /\ WordsOf(i) \in Nat
         /\ \A w \in 1 .. WordsOf(i) : Pushed(i)[WordsOf(i) + 1 - w] = Want(i, w)
<1>1. /\ Words(Args[i]) \in Nat /\ WordsOf(i) \in Nat
      /\ i \in Int /\ copies[i] \in Int
  <2>1. Words(Args[i]) \in Nat /\ WordsOf(i) \in Nat
    BY WordsOfArg DEF Scope, Sound
  <2>2. DOMAIN Args = 1 .. Last /\ Last \in Nat
    BY ArgsOf DEF Scope
  <2>3. copies \in [DOMAIN Args -> Int]
    BY DEF TypeOK
  <2> QED
    BY <2>1, <2>2, <2>3
<1>2. Downwards(i) \in [1 .. Words(Args[i]) -> Word]
  BY <1>1, WordTypes DEF Downwards
<1>3. CASE ByReference(Args[i])
  <2>1. WordsOf(i) = 1 /\ Pushed(i) = <<Ref(copies[i])>>
    BY <1>3 DEF WordsOf, Pushed
  <2>2. Ref(copies[i]) \in Word
    BY <1>1, WordTypes
  <2>3. \A w \in 1 .. 1 : w = 1
    OBVIOUS
  <2> QED
    BY <1>1, <1>2, <1>3, <2>1, <2>2, <2>3 DEF Want
<1>4. CASE ~ByReference(Args[i])
  <2>1. WordsOf(i) = Words(Args[i]) /\ Pushed(i) = Downwards(i)
    BY <1>4 DEF WordsOf, Pushed
  <2>2. ASSUME NEW w \in 1 .. WordsOf(i)
        PROVE  Downwards(i)[WordsOf(i) + 1 - w] = <<i, w>>
    BY <1>1, <2>1 DEF Downwards
  <2> QED
    BY <1>1, <1>2, <1>4, <2>1, <2>2 DEF Want
<1> QED
  BY <1>3, <1>4

\* The sizes that the proofs below use.
LEMMA Sizes ==
  ASSUME Scope, TypeOK
  PROVE  /\ call \in Calls /\ ~EmptyStruct /\ Last \in Nat /\ Last = Len(Args) /\ DOMAIN Args = 1 .. Last
         /\ Len(Params) \in 0 .. Last /\ DOMAIN Params = 1 .. Len(Params) /\ Last = Len(Params) + Len(call.more)
         /\ call.temps \in Nat /\ copied \in Nat /\ args \in Nat /\ Floor \in Nat /\ Total \in Nat /\ Floor <= Total
         /\ stack \in Seq(Word) /\ Len(stack) \in Nat
<1>1. call \in Calls /\ ~EmptyStruct
  BY DEF Scope, Sound
<1>2. copied \in Nat /\ args \in Nat /\ stack \in Seq(Word)
  BY DEF TypeOK
<1>3. /\ Last \in Nat /\ Last = Len(Args) /\ DOMAIN Args = 1 .. Last
      /\ DOMAIN Params = 1 .. Len(Params) /\ Last = Len(Params) + Len(call.more)
      /\ Len(Params) \in Nat /\ Len(call.more) \in Nat /\ call.temps \in Nat
  BY <1>1, ArgsOf DEF Last
<1>4. Len(Params) \in 0 .. Last
  BY <1>3
<1>5. Floor \in Nat /\ Total \in Nat /\ Floor <= Total
  BY <1>2, <1>3, SMTT(30) DEF Floor, Total
<1> QED
  BY <1>1, <1>2, <1>3, <1>4, <1>5

\* The counters and the stack keep their types.
LEMMA TypesKept ==
  ASSUME Scope, TypeOK, UNCHANGED <<abi, call, bystack, copies, gpr, fpr, offset, home>>,
         pc' \in {"classify", "first", "second", "pop", "offsets", "prologue", "body", "done"},
         arg' \in 0 .. Last + 1, gp' \in Nat, fp' \in Nat, args' \in Nat, top' \in Nat, copied' \in Nat,
         depth' \in Int, stack' \in Seq(Word), va' \in [gp : Nat, fp : Nat, mem : Nat], got' \in Seq(Seq(Word))
  PROVE  TypeOK'
<1>1. Args' = Args /\ Params' = Params /\ Last = Len(Args)
  BY CallKept DEF Last
<1>2. bystack' \subseteq DOMAIN Args' /\ copies' \in [DOMAIN Args' -> Int]
  BY <1>1 DEF TypeOK
<1>3. gpr' \in [1 .. GpMax + WinMax -> Word] /\ fpr' \in [1 .. FpMax + WinMax -> Word]
  BY DEF TypeOK
<1>4. offset' \in [DOMAIN Params' -> Nat] /\ home' \in [DOMAIN Params' -> Seq(Word)]
  BY <1>1 DEF TypeOK
<1>5. abi' \in {"sysv", "win"} /\ call' \in Calls /\ arg' \in 0 .. Len(Args') + 1
  BY <1>1 DEF TypeOK
<1>6. {gp', fp', args', top', copied'} \subseteq Nat
  OBVIOUS
<1> QED
  BY <1>2, <1>3, <1>4, <1>5, <1>6 DEF TypeOK, Word

\* Realign keeps the invariant.
LEMMA RealignKeeps ==
  ASSUME Scope, NEW H \in Traces, Inv(H), Realign, UNCHANGED <<used, places>>
  PROVE  Inv(H)'
<1> DEFINE pad == [i \in 1 .. Padding |-> Pad]
<1>1. TypeOK /\ UsedTypes /\ Classifying(H) /\ got = <<>> /\ pc = "classify"
  BY DEF Inv, Realign
<1>2. arg = Last + 1
  BY <1>1, Sizes DEF Realign, Classifying
<1>3. Padding \in 0 .. 1 /\ (Floor + args + Padding) % 2 = 0 /\ depth = Floor
  <2>1. depth = Floor /\ Floor \in Nat /\ args \in Nat
    BY <1>1, Sizes DEF Classifying
  <2> QED
    BY <2>1 DEF Padding, Odd
<1>4. /\ stack' \in Seq(Word) /\ Len(stack') = Len(stack) + Padding
      /\ \A k \in 1 .. Len(stack) : stack'[k] = stack[k]
  <2>1. stack' = stack \o pad
    BY DEF Realign
  <2>2. pad \in [1 .. Padding -> Word] /\ Padding \in Nat
    BY <1>3, WordTypes
  <2> HIDE DEF pad
  <2> QED
    BY <1>1, <2>1, <2>2, Sizes, Concat
<1>5. UNCHANGED <<abi, call>> /\ Last' = Last /\ Args' = Args /\ Params' = Params
  BY CallKept DEF Realign
<1>6. TypeOK'
  <2>1. /\ UNCHANGED <<abi, call, bystack, copies, gpr, fpr, offset, home, gp, fp, top, copied, va, got>>
        /\ pc' = "first" /\ arg' = 1 /\ args' = args + Padding /\ depth' = depth + Padding
    BY DEF Realign
  <2>2. /\ args \in Nat /\ gp \in Nat /\ fp \in Nat /\ top \in Nat /\ copied \in Nat /\ depth \in Int
        /\ va \in [gp : Nat, fp : Nat, mem : Nat] /\ got \in Seq(Seq(Word))
    BY <1>1 DEF TypeOK
  <2>3. 1 \in 0 .. Last + 1
    BY <1>1, Sizes
  <2>4. args + Padding \in Nat /\ depth + Padding \in Int
    BY <1>3, <2>2
  <2> QED
    BY <1>1, <1>4, <2>1, <2>2, <2>3, <2>4, TypesKept
<1>7. UsedTypes'
  BY <1>1 DEF UsedTypes
<1>8. Floor' = Floor /\ args' = args + Padding /\ Total' = Floor + args + Padding
  BY <1>1, <1>3, Sizes DEF Floor, Total, Realign
<1>9. Laid(H)'
  <2>1. PICK m : m = Last + 1
    OBVIOUS
  <2>2. PICK B, u, p : B = bystack /\ u = used /\ p = places
    OBVIOUS
  <2>3. Plan(H, m, B) /\ AbiAt(H, m, B, u, p) /\ Bottom(m)
    BY <1>1, <1>2, <2>1, <2>2 DEF Classifying
  <2>4. Plan(H, m, B)'
    BY <1>5, <2>3, PlanKept
  <2>5. AbiAt(H, m, B, u, p)'
    BY <1>5, <2>3, AbiKept
  <2>6. \A i \in 1 .. m - 1 : Words(Args[i]) \in Nat
    BY <1>1, <2>1, Sizes, WordsOfArg
  <2>7. Floor <= Len(stack') /\ \A k \in 1 .. Floor : stack'[k] = stack[k]
    BY <1>1, <1>3, <1>4, Sizes, SMTT(30) DEF Classifying
  <2>8. Bottom(m)'
    <3>1. call \in Calls /\ copied \in Nat
      BY <1>1, Sizes
    <3>2. UNCHANGED <<abi, call, copies, copied>>
      BY DEF Realign
    <3> QED
      BY <2>3, <2>6, <2>7, <3>1, <3>2, BottomKept
  <2>9. Mem(H, Last + 1) <= args'
    <3>1. args = Mem(H, Last + 1)
      BY <1>1, <1>2 DEF Classifying
    <3>2. args \in Nat
      BY <1>1, Sizes
    <3> QED
      BY <1>3, <1>8, <3>1, <3>2
  <2>10. Total' % 2 = 0
    BY <1>3, <1>8
  <2>11. bystack' = B /\ used' = u /\ places' = p /\ m = (Last + 1)'
    BY <1>5, <2>1, <2>2 DEF Realign
  <2> QED
    BY <1>5, <2>1, <2>2, <2>4, <2>5, <2>8, <2>9, <2>10, <2>11 DEF Laid, Mem
<1>10. First(H)'
  <2>1. arg' = 1 /\ depth' = depth + Padding
    BY DEF Realign
  <2>2. Len(stack) = Floor /\ args = Mem(H, Last + 1)
    BY <1>1, <1>2 DEF Classifying
  <2>3. Mem(H, Last + 2 - arg)' = Mem(H, Last + 1) /\ Last' + 2 - arg' = Last + 1
    BY <1>1, <1>5, <2>1, Sizes DEF Mem
  <2>4. OnStack(H, Last + 2 - arg)'
    <3>1. \A i \in Last + 1 .. Last : FALSE
      BY <1>1, Sizes
    <3> QED
      BY <1>5, <2>3, <3>1 DEF OnStack
  <2>5. depth' = Len(stack') /\ Len(stack') = Total' - Mem(H, Last + 1)
    BY <1>1, <1>3, <1>4, <1>8, <2>1, <2>2, Sizes
  <2>6. arg' \in 1 .. Last' + 1
    BY <1>1, <1>5, <2>1, Sizes
  <2> QED
    BY <2>3, <2>4, <2>5, <2>6 DEF First
<1>11. pc' = "first" /\ got' = <<>>
  BY <1>1 DEF Realign
<1> QED
  BY <1>6, <1>7, <1>9, <1>10, <1>11 DEF Inv

\* push_args2 keeps the invariant.
LEMMA PushKeeps ==
  ASSUME Scope, NEW H \in Traces, Inv(H), push_args2, UNCHANGED <<used, places>>
  PROVE  Inv(H)'
<1>1. TypeOK /\ UsedTypes /\ Laid(H) /\ got = <<>> /\ arg <= Last
  BY DEF Inv, push_args2, Last
<1>2. /\ UNCHANGED <<abi, call, bystack, copies, copied, args, used, places>> /\ UNCHANGED <<abi, call>>
      /\ Last' = Last /\ Args' = Args /\ Params' = Params
  BY CallKept DEF push_args2
<1>3. arg \in 1 .. Last /\ arg \in Nat
  BY <1>1, Sizes DEF Inv, First, Second, push_args2
<1>4. PICK i \in 1 .. Last : i = Last + 1 - arg
  BY <1>1, <1>3, Sizes
<1>5. i \in Nat /\ i + 1 = Last + 2 - arg /\ i = Last' + 2 - arg' /\ i + 1 \in 1 .. Last + 1 /\ arg' \in 1 .. Last + 1
  <2>1. Last \in Nat /\ arg' = arg + 1 /\ Last' = Last
    BY <1>1, <1>2, Sizes DEF push_args2
  <2> QED
    BY <1>3, <1>4, <2>1
<1> DEFINE stays == (pc = "first") <=> (i \in bystack)
           n == IF stays THEN WordsOf(i) ELSE 0
<1>6. Plan(H, Last + 1, bystack) /\ Mem(H, Last + 1) <= args
  BY <1>1 DEF Laid
<1>7. /\ WordsOf(i) \in Nat /\ n \in Nat
      /\ stack' \in Seq(Word) /\ Len(stack') = Len(stack) + n /\ depth' = depth + n
      /\ \A k \in 1 .. Len(stack) : stack'[k] = stack[k]
      /\ stays => \A w \in 1 .. WordsOf(i) : stack'[Len(stack') + 1 - w] = Want(i, w)
  <2> DEFINE words == IF stays THEN Pushed(i) ELSE <<>>
  <2>1. stack' = stack \o words /\ depth' = depth + Len(words)
    BY <1>4 DEF push_args2, LastFirst, Last
  <2>2. /\ Pushed(i) \in [1 .. WordsOf(i) -> Word] /\ WordsOf(i) \in Nat
        /\ \A w \in 1 .. WordsOf(i) : Pushed(i)[WordsOf(i) + 1 - w] = Want(i, w)
    BY <1>1, PushedWords
  <2>3. words \in [1 .. n -> Word] /\ n \in Nat
    BY <2>2
  <2>4. Len(words) = n
    BY <2>2, <2>3
  <2>5. /\ stack' \in Seq(Word) /\ Len(stack') = Len(stack) + n
        /\ \A k \in 1 .. Len(stack) : stack'[k] = stack[k]
        /\ \A k \in 1 .. n : stack'[Len(stack) + k] = words[k]
    <3> HIDE DEF words, n
    <3> QED
      BY <1>1, <2>1, <2>3, Sizes, Concat
  <2>6. ASSUME stays, NEW w \in 1 .. WordsOf(i)
        PROVE  stack'[Len(stack') + 1 - w] = Want(i, w)
    <3>1. n = WordsOf(i) /\ words = Pushed(i)
      BY <2>6
    <3> HIDE DEF words, n
    <3>2. PICK k : k = n + 1 - w
      OBVIOUS
    <3>3. k \in 1 .. n /\ Len(stack') + 1 - w = Len(stack) + k
      <4>1. Len(stack) \in Nat /\ n \in Nat /\ w \in 1 .. n
        BY <1>1, <2>3, <3>1, Sizes
      <4>2. Len(stack') = Len(stack) + n
        BY <2>5
      <4> QED
        BY <3>2, <4>1, <4>2
    <3>4. stack'[Len(stack) + k] = words[k]
      BY <2>5, <3>3
    <3>5. words[k] = Want(i, w)
      BY <2>2, <3>1, <3>2
    <3> QED
      BY <3>3, <3>4, <3>5
  <2> QED
    BY <2>1, <2>2, <2>3, <2>4, <2>5, <2>6
<1> HIDE DEF n
<1>8. TypeOK'
  <2>1. /\ UNCHANGED <<abi, call, bystack, copies, gpr, fpr, offset, home, gp, fp, top, copied, args, va, got, pc>>
        /\ arg' = arg + 1
    BY DEF push_args2
  <2>2. /\ args \in Nat /\ gp \in Nat /\ fp \in Nat /\ top \in Nat /\ copied \in Nat /\ depth \in Int
        /\ va \in [gp : Nat, fp : Nat, mem : Nat] /\ got \in Seq(Seq(Word))
        /\ pc \in {"classify", "first", "second", "pop", "offsets", "prologue", "body", "done"}
    BY <1>1 DEF TypeOK
  <2>3. arg' \in 0 .. Last + 1 /\ depth' \in Int
    <3>1. Last \in Nat /\ arg' \in 1 .. Last + 1
      BY <1>1, <1>5, Sizes
    <3>2. depth' = depth + n /\ n \in Nat /\ depth \in Int
      BY <1>7, <2>2
    <3>3. depth' \in Int
      BY <3>2
    <3> QED
      BY <3>1, <3>3
  <2> QED
    BY <1>1, <1>7, <2>1, <2>2, <2>3, TypesKept
<1>9. UsedTypes'
  BY <1>1, <1>2 DEF UsedTypes
<1>10. Floor' = Floor /\ Total' = Total
  BY <1>2 DEF Floor, Total
<1>0. Total \in Nat /\ Last \in Nat /\ Len(stack) \in Nat
  BY <1>1, Sizes
<1>11. /\ Mem(H, i) \in Nat /\ Reg(H, i) \in Nat /\ Mem(H, Last + 1) \in Nat /\ Reg(H, Last + 1) \in Nat
       /\ i \in bystack => Mem(H, i + 1) = Mem(H, i) + WordsOf(i) /\ Mem(H, i) + WordsOf(i) <= Mem(H, Last + 1)
                           /\ Reg(H, i + 1) = Reg(H, i)
       /\ i \notin bystack => Reg(H, i + 1) = Reg(H, i) + WordsOf(i) /\ Reg(H, i) + WordsOf(i) <= Reg(H, Last + 1)
                              /\ Mem(H, i + 1) = Mem(H, i)
  BY <1>6, Spots
<1>12. Floor <= Len(stack) /\ depth = Len(stack) /\ pc \in {"first", "second"}
  BY <1>1 DEF Laid, Bottom, Inv, First, Second, push_args2
<1>13. Laid(H)'
  <2>1. Floor <= Len(stack') /\ \A k \in 1 .. Floor : stack'[k] = stack[k]
    BY <1>1, <1>7, <1>12, Sizes, SMTT(30)
  <2> QED
    BY <1>1, <1>2, <2>1, Sizes, LaidKept
<1>14. ASSUME pc = "first"
       PROVE  First(H)'
  <2>1. First(H)
    BY <1>14 DEF Inv
  <2>2. Len(stack) = Total - Mem(H, i + 1) /\ OnStack(H, i + 1) /\ (stays <=> i \in bystack)
    BY <1>5, <1>14, <2>1 DEF First
  <2>3. Len(stack') = Total - Mem(H, i)
    BY <1>0, <1>7, <1>11, <2>2, SMTT(30) DEF n
  <2>4. OnStack(H, i + 1)'
    <3>1. PICK j : j = i + 1
      OBVIOUS
    <3>2. \A k \in 1 .. Total - Mem(H, j) : k > Total - Mem(H, Last + 1) => stack'[k] = stack[k]
      BY <1>7, <2>2, <3>1
    <3>3. OnStack(H, j)'
      BY <1>1, <1>2, <1>5, <2>2, <3>1, <3>2, Sizes, OnStackKept
    <3> QED
      BY <3>1, <3>3
  <2>5. ASSUME i \in bystack PROVE WordsAt(i, Total - Mem(H, i))'
    <3>1. \A w \in 1 .. WordsOf(i) : stack'[Total - Mem(H, i) + 1 - w] = Want(i, w)
      BY <1>7, <2>2, <2>3, <2>5
    <3>2. WordsOf(i)' = WordsOf(i) /\ \A w : Want(i, w)' = Want(i, w)
      BY <1>2, CallKept DEF Want
    <3> QED
      BY <1>10, <3>1, <3>2 DEF WordsAt, Mem
  <2>6. OnStack(H, i)'
    <3>1. \A j \in i .. Last : j = i \/ j \in i + 1 .. Last
      BY <1>1, <1>5, Sizes, SMTT(30)
    <3> QED
      BY <1>2, <2>4, <2>5, <3>1 DEF OnStack
  <2>7. OnStack(H, Last + 2 - arg)' /\ Mem(H, Last + 2 - arg)' = Mem(H, i)
    BY <1>5, <2>6 DEF Mem
  <2> QED
    BY <1>2, <1>5, <1>7, <1>10, <1>12, <2>3, <2>7 DEF First
<1>15. ASSUME pc = "second"
       PROVE  Second(H)'
  <2>1. Second(H)
    BY <1>15 DEF Inv
  <2>2. /\ Len(stack) = Total + Reg(H, Last + 1) - Reg(H, i + 1) /\ OnStack(H, 1) /\ ForRegisters(H, i + 1)
        /\ stays <=> i \notin bystack
    BY <1>5, <1>15, <2>1 DEF Second
  <2>3. Len(stack') = Total + Reg(H, Last + 1) - Reg(H, i)
    <3>0. PICK a \in Nat, b \in Nat, r \in Nat :
            a = Reg(H, i) /\ b = Reg(H, i + 1) /\ r = Reg(H, Last + 1)
      BY <1>7, <1>11
    <3>1. a = Reg(H, i) /\ b = Reg(H, i + 1)
      BY <3>0
    <3>a. PICK t \in Nat, u \in Nat : t = Total /\ u = Len(stack)
      BY <1>0
    <3>b. PICK v : v = Len(stack')
      OBVIOUS
    <3>2. n = b - a
      <4>1. CASE i \in bystack
        <5>1. n = 0
          BY <2>2, <4>1 DEF n
        <5>2. b = a
          BY <1>11, <3>1, <4>1
        <5> QED
          BY <5>1, <5>2
      <4>2. CASE i \notin bystack
        <5>1. n = WordsOf(i)
          BY <2>2, <4>2 DEF n
        <5>2. b = a + WordsOf(i)
          BY <1>11, <3>1, <4>2
        <5> QED
          BY <1>7, <5>1, <5>2
      <4> QED
        BY <4>1, <4>2
    <3>3. v = u + n /\ u = t + r - b
      BY <1>7, <2>2, <3>0, <3>a, <3>b
    <3>4. v = t + r - a
      BY ONLY <3>2, <3>3
    <3> QED
      BY <3>0, <3>4, <3>a, <3>b
  <2>4. Reg(H, i + 1) \in Nat /\ Reg(H, i + 1) <= Reg(H, Last + 1)
    <3>1. Grows(H, i + 1, Last + 1)
      BY <1>0, <1>5, <1>6 DEF Plan
    <3>2. Reg(H, i + 1) \in Nat
      BY <1>5, TraceTypes
    <3> QED
      BY <3>1, <3>2 DEF Grows
  <2>5. OnStack(H, 1)'
    <3>1. PICK j : j = 1
      OBVIOUS
    <3>2. Mem(H, j) \in Nat /\ j \in 1 .. Last + 1
      BY <1>1, <3>1, Sizes, TraceTypes
    <3>3. ASSUME NEW k \in 1 .. Total - Mem(H, j)
          PROVE  stack'[k] = stack[k]
      <4>1. k \in 1 .. Len(stack)
        BY <1>0, <1>11, <2>2, <2>4, <3>2, SMTT(30)
      <4> QED
        BY <1>7, <4>1
    <3>4. OnStack(H, j)'
      BY <1>1, <1>2, <2>2, <3>1, <3>2, <3>3, Sizes, OnStackKept
    <3> QED
      BY <3>1, <3>4
  <2>6. ForRegisters(H, i + 1)'
    <3>1. PICK j : j = i + 1
      OBVIOUS
    <3>2. ASSUME NEW k \in Total + 1 .. Total + Reg(H, Last + 1) - Reg(H, j)
          PROVE  stack'[k] = stack[k]
      <4>1. k \in 1 .. Len(stack)
        BY <1>0, <1>11, <2>2, <2>4, <3>1
      <4> QED
        BY <1>7, <4>1
    <3>3. ForRegisters(H, j)'
      BY <1>1, <1>2, <1>5, <2>2, <3>1, <3>2, Sizes, ForRegistersKept
    <3> QED
      BY <3>1, <3>3
  <2>7. ASSUME i \notin bystack PROVE WordsAt(i, Total + Reg(H, Last + 1) - Reg(H, i))'
    <3>1. \A w \in 1 .. WordsOf(i) : stack'[Total + Reg(H, Last + 1) - Reg(H, i) + 1 - w] = Want(i, w)
      BY <1>7, <2>2, <2>3, <2>7
    <3>2. WordsOf(i)' = WordsOf(i) /\ \A w : Want(i, w)' = Want(i, w)
      BY <1>2, CallKept DEF Want
    <3> QED
      BY <1>2, <1>10, <3>1, <3>2 DEF WordsAt, Reg
  <2>8. ForRegisters(H, i)'
    <3>1. \A j \in i .. Last : j = i \/ j \in i + 1 .. Last
      BY <1>1, <1>5, Sizes, SMTT(30)
    <3> QED
      BY <1>2, <2>6, <2>7, <3>1 DEF ForRegisters
  <2>9. ForRegisters(H, Last + 2 - arg)' /\ Reg(H, Last + 2 - arg)' = Reg(H, i) /\ Reg(H, Last + 1)' = Reg(H, Last + 1)
    BY <1>2, <1>5, <2>8 DEF Reg
  <2> QED
    BY <1>2, <1>5, <1>7, <1>10, <1>12, <2>3, <2>5, <2>9 DEF Second
<1>16. pc' = pc /\ got' = <<>>
  BY <1>1 DEF push_args2
<1> QED
  BY <1>8, <1>9, <1>12, <1>13, <1>14, <1>15, <1>16 DEF Inv

\* The step does not change the placing of the arguments, and keeps the types.
Settled == UNCHANGED <<abi, call, bystack, copies, copied, args, used, places>>

\* The types, from the variables that a step after push_args changes.
LEMMA TypesFollow ==
  ASSUME Scope, TypeOK, Settled,
         pc' \in {"classify", "first", "second", "pop", "offsets", "prologue", "body", "done"},
         arg' \in 0 .. Last + 1, gp' \in Nat, fp' \in Nat, top' \in Nat, depth' \in Int, stack' \in Seq(Word),
         gpr' \in [1 .. GpMax + WinMax -> Word], fpr' \in [1 .. FpMax + WinMax -> Word],
         offset' \in [DOMAIN Params -> Nat], home' \in [DOMAIN Params -> Seq(Word)],
         va' \in [gp : Nat, fp : Nat, mem : Nat], got' \in Seq(Seq(Word))
  PROVE  TypeOK'
<1>1. Args' = Args /\ Params' = Params /\ Last = Len(Args)
  BY CallKept DEF Last, Settled
<1>2. bystack' \subseteq DOMAIN Args' /\ copies' \in [DOMAIN Args' -> Int]
  BY <1>1 DEF TypeOK, Settled
<1>3. offset' \in [DOMAIN Params' -> Nat] /\ home' \in [DOMAIN Params' -> Seq(Word)]
  BY <1>1
<1>4. abi' \in {"sysv", "win"} /\ call' \in Calls /\ arg' \in 0 .. Len(Args') + 1
  BY <1>1 DEF TypeOK, Settled
<1>5. {gp', fp', args', top', copied'} \subseteq Nat
  BY DEF TypeOK, Settled
<1> QED
  BY <1>2, <1>3, <1>4, <1>5 DEF TypeOK, Word

LEMMA VariableTypes ==
  ASSUME TypeOK
  PROVE  /\ gp \in Nat /\ fp \in Nat /\ top \in Nat /\ depth \in Int /\ stack \in Seq(Word)
         /\ copied \in Nat /\ args \in Nat
         /\ gpr \in [1 .. GpMax + WinMax -> Word] /\ fpr \in [1 .. FpMax + WinMax -> Word]
         /\ offset \in [DOMAIN Params -> Nat] /\ home \in [DOMAIN Params -> Seq(Word)]
         /\ va \in [gp : Nat, fp : Nat, mem : Nat] /\ got \in Seq(Seq(Word))
BY DEF TypeOK

\* What such a step leaves alone.
LEMMA SettledKept ==
  ASSUME Scope, TypeOK, UsedTypes, Settled
  PROVE  /\ Args' = Args /\ Params' = Params /\ Last' = Last /\ Floor' = Floor /\ Total' = Total
         /\ UsedTypes' /\ (EmptyStruct' <=> EmptyStruct)
         /\ \A i : WordsOf(i)' = WordsOf(i) /\ Position(i)' = Position(i) /\ \A w : Want(i, w)' = Want(i, w)
<1>1. UNCHANGED <<abi, call>>
  BY DEF Settled
<1>2. Args' = Args /\ Params' = Params /\ Last' = Last
  BY <1>1, CallKept
<1>3. \A i : (ByReference(Args[i])' <=> ByReference(Args[i])) /\ WordsOf(i)' = WordsOf(i) /\ Position(i)' = Position(i)
  BY <1>1, CallKept
<1>4. Floor' = Floor /\ Total' = Total
  BY DEF Settled, Floor, Total
<1>5. UsedTypes'
  BY DEF Settled, UsedTypes
<1>6. \A i : \A w : Want(i, w)' = Want(i, w)
  BY <1>2, <1>3 DEF Settled, Want
<1>7. EmptyStruct' <=> EmptyStruct
  BY <1>1, DeparturesKept
<1> QED
  BY <1>2, <1>3, <1>4, <1>5, <1>6, <1>7

\* The first counters of a trace.
LEMMA StartOf ==
  ASSUME NEW H \in Traces, NEW m, NEW B, Plan(H, m, B)
  PROVE  /\ G(H, 1) = N(call.big) /\ F(H, 1) = 0 /\ PG(H, 1) = N(call.big) /\ PF(H, 1) = 0
         /\ FG(H, 1) = N(call.big) /\ FF(H, 1) = 0 /\ Mem(H, 1) = 0 /\ Reg(H, 1) = 0
BY DEF Plan, Started, Is

LEMMA NBig == N(call.big) \in {0, 1} /\ (call.big => N(call.big) = 1) /\ (~call.big => N(call.big) = 0)
BY DEF N

\* SecondPass keeps the invariant.
LEMMA SecondPassKeeps ==
  ASSUME Scope, NEW H \in Traces, Inv(H), SecondPass, UNCHANGED <<used, places>>
  PROVE  Inv(H)'
<1>1. TypeOK /\ UsedTypes /\ Laid(H) /\ First(H) /\ got = <<>> /\ arg > Last
  BY DEF Inv, SecondPass, Last
<1>2. Settled /\ UNCHANGED <<stack, depth, got>> /\ pc' = "second" /\ arg' = 1
  BY DEF SecondPass, Settled
<1>3. Last \in Nat /\ Total \in Nat /\ Floor <= Len(stack) /\ copied \in Nat /\ args \in Nat
  BY <1>1, Sizes DEF Laid, Bottom
<1>4. arg = Last + 1
  BY <1>1, <1>3 DEF First
<1>5. /\ Args' = Args /\ Params' = Params /\ Last' = Last /\ Floor' = Floor /\ Total' = Total /\ UsedTypes'
  BY <1>1, <1>2, SettledKept
<1>6. TypeOK'
  <2>1. 1 \in 0 .. Last + 1
    BY <1>3
  <2>2. UNCHANGED <<gp, fp, top, depth, stack, gpr, fpr, offset, home, va, got>>
    BY DEF SecondPass
  <2> QED
    BY <1>1, <1>2, <2>1, <2>2, VariableTypes, TypesFollow
<1>7. Laid(H)'
  BY <1>1, <1>2, <1>3, LaidKept DEF Settled
<1>8. Mem(H, 1) = 0 /\ Plan(H, Last + 1, bystack)
  BY <1>1, StartOf DEF Laid
<1>9. Reg(H, Last + 1) \in Nat
  <2>1. Last + 1 \in Nat
    BY <1>3
  <2> QED
    BY <2>1, TraceTypes
<1>10. Second(H)'
  <2>1. Last + 2 - arg = 1 /\ Last' + 2 - arg' = Last + 1 /\ arg' \in 1 .. Last' + 1
    BY <1>2, <1>3, <1>4, <1>5
  <2>2. Len(stack) = Total /\ OnStack(H, 1) /\ depth = Len(stack)
    BY <1>1, <1>3, <1>8, <2>1 DEF First
  <2>3. OnStack(H, 1)'
    <3>1. PICK j : j = 1
      OBVIOUS
    <3>2. j \in 1 .. Last + 1
      BY <1>3, <3>1
    <3>3. OnStack(H, j)'
      BY <1>1, <1>2, <1>3, <2>2, <3>1, <3>2, OnStackKept DEF Settled
    <3> QED
      BY <3>1, <3>3
  <2>4. ForRegisters(H, Last + 2 - arg)'
    <3>1. \A i \in Last + 1 .. Last : FALSE
      BY <1>3
    <3> QED
      BY <1>5, <2>1, <3>1 DEF ForRegisters
  <2>5. Len(stack)' = (Total + Reg(H, Last + 1) - Reg(H, Last + 2 - arg))'
    <3>1. Reg(H, Last + 1)' = Reg(H, Last + 1) /\ Reg(H, Last + 2 - arg)' = Reg(H, Last + 1)
      BY <1>5, <2>1 DEF Reg
    <3> QED
      BY <1>2, <1>3, <1>5, <1>9, <2>2, <3>1
  <2> QED
    BY <1>2, <2>1, <2>2, <2>3, <2>4, <2>5 DEF Second
<1> QED
  BY <1>1, <1>2, <1>5, <1>6, <1>7, <1>10 DEF Inv

\* PushRetBuffer keeps the invariant.
LEMMA PushRetBufferKeeps ==
  ASSUME Scope, NEW H \in Traces, Inv(H), PushRetBuffer, UNCHANGED <<used, places>>
  PROVE  Inv(H)'
<1>1. TypeOK /\ UsedTypes /\ Laid(H) /\ Second(H) /\ got = <<>> /\ arg > Last
  BY DEF Inv, PushRetBuffer, Last
<1>2. Settled /\ UNCHANGED got /\ pc' = "pop" /\ arg' = N(~call.big) /\ gp' = 0 /\ fp' = 0
  BY DEF PushRetBuffer, Settled
<1>3. /\ Last \in Nat /\ Total \in Nat /\ Floor \in Nat /\ Floor <= Len(stack) /\ copied \in Nat /\ args \in Nat
      /\ stack \in Seq(Word) /\ Len(stack) \in Nat
  BY <1>1, Sizes DEF Laid, Bottom
<1>4. arg = Last + 1
  BY <1>1, <1>3 DEF Second
<1>5. /\ Args' = Args /\ Params' = Params /\ Last' = Last /\ Floor' = Floor /\ Total' = Total /\ UsedTypes'
      /\ \A i : Position(i)' = Position(i)
  BY <1>1, <1>2, SettledKept
<1>6. /\ Mem(H, 1) = 0 /\ Reg(H, 1) = 0 /\ PG(H, 1) = N(call.big) /\ PF(H, 1) = 0
      /\ Reg(H, Last + 1) \in Nat
  <2>1. Plan(H, Last + 1, bystack) /\ Last + 1 \in Nat
    BY <1>1, <1>3 DEF Laid
  <2> QED
    BY <2>1, StartOf, TraceTypes
<1>7. /\ call.big => N(~call.big) = 0
      /\ ~call.big => N(~call.big) = 1 /\ N(call.big) = 0
  BY DEF N
<1>8. /\ stack' \in Seq(Word) /\ \A k \in 1 .. Len(stack) : stack'[k] = stack[k]
      /\ call.big => Len(stack') = Len(stack) + 1 /\ depth' = depth + 1
      /\ ~call.big => Len(stack') = Len(stack) /\ depth' = depth
  <2>1. CASE call.big
    <3>1. stack' = Append(stack, RetBuffer) /\ RetBuffer \in Word /\ depth' = depth + 1
      BY <2>1, WordTypes DEF PushRetBuffer, N
    <3> QED
      BY <1>3, <2>1, <3>1
  <2>2. CASE ~call.big
    <3>1. stack' = stack /\ depth' = depth
      BY <1>1, <2>2, VariableTypes DEF PushRetBuffer, N
    <3> QED
      BY <1>3, <2>2, <3>1
  <2> QED
    BY <2>1, <2>2
<1>9. TypeOK'
  <2>1. arg' \in 0 .. Last + 1 /\ gp' \in Nat /\ fp' \in Nat
    BY <1>2, <1>3 DEF N
  <2>2. depth' \in Int
    <3>1. depth \in Int
      BY <1>1, VariableTypes
    <3> QED
      BY <1>8, <3>1
  <2>3. UNCHANGED <<top, gpr, fpr, offset, home, va, got>>
    BY DEF PushRetBuffer
  <2> QED
    BY <1>1, <1>2, <1>8, <2>1, <2>2, <2>3, VariableTypes, TypesFollow
<1>10. Laid(H)'
  <2>1. Floor <= Len(stack') /\ \A k \in 1 .. Floor : stack'[k] = stack[k]
    BY <1>3, <1>8
  <2> QED
    BY <1>1, <1>2, <1>3, <2>1, LaidKept DEF Settled
<1>11. Len(stack) = Total + Reg(H, Last + 1) /\ OnStack(H, 1) /\ ForRegisters(H, 1) /\ depth = Len(stack)
  <2>1. Last + 2 - arg = 1
    BY <1>3, <1>4
  <2> QED
    BY <1>1, <1>3, <1>6, <2>1 DEF Second
<1>12. OnStack(H, 1)' /\ ForRegisters(H, 1)'
  <2>1. PICK j : j = 1
    OBVIOUS
  <2>2. j \in 1 .. Last + 1
    BY <1>3, <2>1
  <2>3. \A k \in 1 .. Total - Mem(H, j) : stack'[k] = stack[k]
    BY <1>3, <1>6, <1>8, <1>11, <2>1
  <2>4. OnStack(H, j)'
    BY <1>1, <1>2, <1>3, <1>11, <2>1, <2>2, <2>3, OnStackKept DEF Settled
  <2>5. \A k \in Total + 1 .. Total + Reg(H, Last + 1) - Reg(H, j) : stack'[k] = stack[k]
    <3>1. \A k \in Total + 1 .. Total + Reg(H, Last + 1) - Reg(H, j) : k \in 1 .. Len(stack)
      BY <1>3, <1>6, <1>11, <2>1
    <3> QED
      BY <1>8, <3>1
  <2>6. ForRegisters(H, j)'
    BY <1>1, <1>2, <1>3, <1>11, <2>1, <2>2, <2>5, ForRegistersKept DEF Settled
  <2> QED
    BY <2>1, <2>4, <2>6
<1>13. Popping(H)'
  <2>1. Reg(H, Last + 1)' = Reg(H, Last + 1) /\ call' = call
    BY <1>2, <1>5 DEF Reg, Settled
  <2>2. arg' \in 0 .. Last' + 1 /\ depth' = Len(stack')
    BY <1>2, <1>3, <1>5, <1>8, <1>11 DEF N
  <2>3. CASE call.big
    BY <1>2, <1>3, <1>5, <1>6, <1>7, <1>8, <1>11, <1>12, <2>1, <2>2, <2>3 DEF Popping
  <2>4. CASE ~call.big
    <3>1. arg' = 1 /\ gp' = 0 /\ fp' = 0 /\ Len(stack') = Total + Reg(H, Last + 1) /\ ForRegisters(H, arg)'
      BY <1>2, <1>7, <1>8, <1>11, <1>12, <2>4
    <3>2. InRegisters(H, arg)'
      BY <3>1 DEF InRegisters
    <3>3. PG(H, arg)' = 0 /\ PF(H, arg)' = 0 /\ Reg(H, arg)' = 0
      BY <1>6, <1>7, <2>4, <3>1 DEF PG, PF, Reg
    <3>4. IsLesser(gp', Position(arg)' - 1, WinMax)
      <4>1. Position(arg)' = 1
        BY <1>7, <2>1, <2>4, <3>1 DEF Position
      <4> QED
        BY <3>1, <4>1, RegistersAssumption DEF IsLesser
    <3>5. Len(stack)' = (Total + Reg(H, Last + 1) - Reg(H, arg))'
      BY <1>3, <1>5, <1>6, <2>1, <3>1, <3>3
    <3> QED
      BY <1>12, <2>2, <3>1, <3>2, <3>3, <3>4, <3>5 DEF Popping, IsLesser
  <2> QED
    BY <2>3, <2>4
<1> QED
  BY <1>1, <1>2, <1>5, <1>9, <1>10, <1>13 DEF Inv

\* What n pops give, and leave.
LEMMA PoppedWords ==
  ASSUME TypeOK, NEW n \in Nat
  PROVE  /\ \A k \in 1 .. n : Popped(n)[k] \in Word
         /\ n <= Len(stack) =>
              /\ Behind(n) \in Seq(Word) /\ Len(Behind(n)) = Len(stack) - n
              /\ \A k \in 1 .. Len(stack) - n : Behind(n)[k] = stack[k]
              /\ \A k \in 1 .. n : Popped(n)[k] = stack[Len(stack) + 1 - k]
<1>1. stack \in Seq(Word) /\ Len(stack) \in Nat
  BY DEF TypeOK
<1>2. ASSUME NEW k \in 1 .. n
      PROVE  Popped(n)[k] = IF k <= Len(stack) THEN stack[Len(stack) + 1 - k] ELSE Junk
  BY DEF Popped
<1>3. ASSUME NEW k \in 1 .. n
      PROVE  Popped(n)[k] \in Word
  <2>1. CASE k <= Len(stack)
    <3>1. Len(stack) + 1 - k \in 1 .. Len(stack)
      BY <1>1, <2>1
    <3>2. stack[Len(stack) + 1 - k] \in Word
      BY <1>1, <3>1
    <3> QED
      BY <1>2, <2>1, <3>2
  <2>2. CASE ~(k <= Len(stack))
    BY <1>2, <2>2, WordTypes
  <2> QED
    BY <2>1, <2>2
<1>4. ASSUME n <= Len(stack), NEW k \in 1 .. n
      PROVE  Popped(n)[k] = stack[Len(stack) + 1 - k]
  <2>1. k <= Len(stack)
    BY <1>1, <1>4
  <2> QED
    BY <1>2, <2>1
<1>5. ASSUME n <= Len(stack)
      PROVE  /\ Behind(n) \in Seq(Word) /\ Len(Behind(n)) = Len(stack) - n
             /\ \A k \in 1 .. Len(stack) - n : Behind(n)[k] = stack[k]
  <2>1. n \in 0 .. Len(stack)
    BY <1>1, <1>5
  <2> QED
    BY <1>1, <2>1, Truncated DEF Behind
<1> QED
  BY <1>3, <1>4, <1>5

-------------------------------------------------------------------------------
\* The words of argument i that wait for registers, and what the step makes of the stack.
Waiting(i) == IF i \in bystack THEN 0 ELSE WordsOf(i)
PoppedTo(H) ==
  /\ Laid(H)' /\ stack' \in Seq(Word) /\ arg' \in 1 .. Last' + 1 /\ depth' = Len(stack') /\ OnStack(H, 1)'
  /\ Len(stack)' = (Total + Reg(H, Last + 1) - Reg(H, arg))' /\ ForRegisters(H, arg)'
  /\ arg \notin bystack => \A w \in 1 .. WordsOf(arg) : Popped(Waiting(arg))[w] = Want(arg, w)

\* Popping the words of argument arg leaves those of the next on top.
LEMMA PopKeepsStack ==
  ASSUME Scope, NEW H \in Traces, Inv(H), pc = "pop", arg \in 1 .. Last, Settled, arg' = arg + 1,
         stack' = Behind(Waiting(arg)), depth' = depth - Waiting(arg)
  PROVE  PoppedTo(H)
<1>1. TypeOK /\ UsedTypes /\ Laid(H) /\ Popping(H)
  BY DEF Inv
<1>2. /\ Last \in Nat /\ Total \in Nat /\ Floor \in Nat /\ Floor <= Total /\ copied \in Nat /\ args \in Nat
      /\ stack \in Seq(Word) /\ Len(stack) \in Nat
  BY <1>1, Sizes
<1>3. arg \in Nat /\ arg > 0 /\ arg + 1 \in 1 .. Last + 1
  BY <1>2
<1>4. /\ depth = Len(stack) /\ OnStack(H, 1) /\ ForRegisters(H, arg)
      /\ Len(stack) = Total + Reg(H, Last + 1) - Reg(H, arg)
  BY <1>1, <1>3 DEF Popping
<1>5. Plan(H, Last + 1, bystack) /\ Mem(H, 1) = 0
  BY <1>1, StartOf DEF Laid
<1> DEFINE n == Waiting(arg)
<1>6. /\ Reg(H, arg) \in Nat /\ Reg(H, Last + 1) \in Nat /\ n \in Nat /\ WordsOf(arg) \in Nat
      /\ Reg(H, arg + 1) = Reg(H, arg) + n
      /\ arg \notin bystack => n = WordsOf(arg) /\ Reg(H, arg) + n <= Reg(H, Last + 1)
      /\ arg \in bystack => n = 0
  BY <1>5, Spots DEF Waiting
<1>7. Reg(H, arg + 1) \in Nat /\ Reg(H, arg + 1) <= Reg(H, Last + 1)
  <2>1. Grows(H, arg + 1, Last + 1)
    BY <1>2, <1>3, <1>5 DEF Plan
  <2>2. arg + 1 \in Nat
    BY <1>3
  <2> QED
    BY <2>1, <2>2, TraceTypes DEF Grows
<1>8. n <= Len(stack)
  <2> HIDE DEF n
  <2> QED
    BY <1>2, <1>4, <1>6, <1>7, SMTT(30)
<1>9. /\ stack' \in Seq(Word) /\ Len(stack') = Len(stack) - n
      /\ \A k \in 1 .. Len(stack) - n : stack'[k] = stack[k]
      /\ \A k \in 1 .. n : Popped(n)[k] = stack[Len(stack) + 1 - k]
  <2> HIDE DEF n
  <2> QED
    BY <1>1, <1>6, <1>8, PoppedWords DEF n
<1>10. Len(stack') = Total + Reg(H, Last + 1) - Reg(H, arg + 1) /\ Len(stack') >= Total /\ Len(stack') \in Nat
  <2> HIDE DEF n
  <2>1. Len(stack') = Len(stack) - n /\ Len(stack) = Total + Reg(H, Last + 1) - Reg(H, arg) /\ Len(stack) \in Nat
    BY <1>2, <1>4, <1>9
  <2>2. Reg(H, arg + 1) = Reg(H, arg) + n /\ Reg(H, arg) \in Nat /\ n \in Nat /\ Reg(H, Last + 1) \in Nat
    BY <1>6
  <2>3. Len(stack') = Total + Reg(H, Last + 1) - Reg(H, arg + 1)
    BY <1>2, <2>1, <2>2
  <2> QED
    BY <1>2, <1>7, <2>2, <2>3, SMTT(30)
<1>11. \A k \in 1 .. Len(stack') : stack'[k] = stack[k]
  BY <1>9
<1>12. Laid(H)'
  <2>1. Floor <= Len(stack') /\ \A k \in 1 .. Floor : stack'[k] = stack[k]
    BY <1>2, <1>10, <1>11
  <2> QED
    BY <1>1, <1>2, <2>1, LaidKept DEF Settled
<1>13. OnStack(H, 1)'
  <2>1. PICK j : j = 1
    OBVIOUS
  <2>2. j \in 1 .. Last + 1
    BY <1>2, <2>1
  <2>3. \A k \in 1 .. Total - Mem(H, j) : stack'[k] = stack[k]
    BY <1>2, <1>5, <1>10, <1>11, <2>1
  <2>4. OnStack(H, j)'
    BY <1>1, <1>2, <1>4, <2>1, <2>2, <2>3, OnStackKept DEF Settled
  <2> QED
    BY <2>1, <2>4
<1>14. ForRegisters(H, arg)'
  <2>1. PICK j : j = arg + 1
    OBVIOUS
  <2>2. ForRegisters(H, j)
    <3>1. \A i \in j .. Last : i \in arg .. Last
      BY <1>2, <1>3, <2>1
    <3> QED
      BY <1>4, <3>1 DEF ForRegisters
  <2>3. \A k \in Total + 1 .. Total + Reg(H, Last + 1) - Reg(H, j) : stack'[k] = stack[k]
    <3>1. \A k \in Total + 1 .. Total + Reg(H, Last + 1) - Reg(H, j) : k \in 1 .. Len(stack')
      BY <1>2, <1>10, <2>1
    <3> QED
      BY <1>11, <3>1
  <2>4. j \in 1 .. Last + 1
    BY <1>3, <2>1
  <2>5. ForRegisters(H, j)'
    BY <1>1, <1>2, <2>2, <2>3, <2>4, ForRegistersKept DEF Settled
  <2> QED
    BY <2>1, <2>5
<1>15. ASSUME arg \notin bystack, NEW w \in 1 .. WordsOf(arg)
       PROVE  Popped(n)[w] = Want(arg, w)
  <2>1. n = WordsOf(arg)
    BY <1>6, <1>15
  <2>2. WordsAt(arg, Len(stack))
    <3>1. arg \in arg .. Last
      BY <1>2, <1>3
    <3> QED
      BY <1>4, <1>15, <3>1 DEF ForRegisters
  <2>3. stack[Len(stack) + 1 - w] = Want(arg, w)
    BY <2>2 DEF WordsAt
  <2> HIDE DEF n
  <2> QED
    BY <1>9, <2>1, <2>3
<1>16. /\ Last' = Last /\ Total' = Total /\ Reg(H, Last + 1)' = Reg(H, Last + 1) /\ Reg(H, arg)' = Reg(H, arg + 1)
       /\ arg' \in 1 .. Last' + 1
  <2>1. Last' = Last /\ Total' = Total
    BY <1>1, SettledKept
  <2> QED
    BY <1>3, <2>1 DEF Reg
<1>17. depth' = Len(stack') /\ Len(stack)' = (Total + Reg(H, Last + 1) - Reg(H, arg))'
  <2> HIDE DEF n
  <2>1. depth' = depth - n
    BY DEF n
  <2> QED
    BY <1>4, <1>9, <1>10, <1>16, <2>1
<1> QED
  BY <1>9, <1>12, <1>13, <1>14, <1>15, <1>16, <1>17 DEF PoppedTo

-------------------------------------------------------------------------------
\* The registers up to g and f are as they were.
RegistersKept(g, f) ==
  /\ \A r \in 1 .. GpMax : r <= g => gpr'[r] = gpr[r]
  /\ \A r \in 1 .. FpMax : r <= f => fpr'[r] = fpr[r]
\* Registers from g and f on are filled with the words w.
Filled(ty, g, f, w) ==
  LET first == IF IsStruct(ty) THEN Fp1(ty) = 0 ELSE ty.kind = "int"
      n == Pieces(ty, "gp") + Pieces(ty, "fp")
  IN  /\ \A r \in g + 1 .. g + Pieces(ty, "gp") : gpr'[r] = IF first THEN w[r - g] ELSE w[n]
      /\ \A r \in f + 1 .. f + Pieces(ty, "fp") : fpr'[r] = IF first THEN w[n] ELSE w[r - f]

\* A parameter is found where it was while its registers are kept.
LEMMA StoredKept ==
  ASSUME NEW ty \in Sized, NEW g \in Nat, NEW f \in Nat, PopIn(ty, g, f),
         RegistersKept(g + Pieces(ty, "gp"), f + Pieces(ty, "fp"))
  PROVE  Stored(ty, g, f)' = Stored(ty, g, f)
<1> USE RegistersAssumption
<1>0. GpMax \in Nat /\ FpMax \in Nat
  OBVIOUS
<1>1. ty.kind \in Kinds /\ ty.size \in Nat
  BY TypeFacts
<1>2. CASE ty.kind = "int"
  <2>1. g < GpMax /\ Pieces(ty, "gp") = 1
    BY <1>2, IntPop, PiecesOf
  <2>2. gpr'[g + 1] = gpr[g + 1]
    BY <1>0, <2>1 DEF RegistersKept
  <2> QED
    BY <1>2, <2>1, <2>2 DEF Stored, IsStruct, Gpr
<1>3. CASE ty.kind = "float"
  <2>1. f < FpMax /\ Pieces(ty, "fp") = 1
    BY <1>3, FloatPop, PiecesOf
  <2>2. fpr'[f + 1] = fpr[f + 1]
    BY <1>0, <2>1 DEF RegistersKept
  <2> QED
    BY <1>3, <2>1, <2>2 DEF Stored, IsStruct, Fpr
<1>4. CASE ty.kind = "ldouble"
  BY <1>4, LongDoublePop
<1>5. CASE ty.kind = "struct"
  <2>1. ty.size <= 16 /\ Fp1(ty) \in {0, 1} /\ Fp2(ty) \in {0, 1} /\ f + (Fp1(ty) + Fp2(ty)) < FpMax /\ g + 2 - (Fp1(ty) + Fp2(ty)) < GpMax
    BY <1>5, StructPop, HalvesOf
  <2>2. CASE ty.size <= 8
    <3>1. Pieces(ty, "gp") = 1 - Fp1(ty) /\ Pieces(ty, "fp") = Fp1(ty)
      BY <1>5, <2>2, PiecesOf
    <3>2. Fp1(ty) = 1 => Fpr(f)' = Fpr(f)
      BY <1>0, <2>1, <3>1 DEF RegistersKept, Fpr
    <3>3. Fp1(ty) # 1 => Gpr(g)' = Gpr(g)
      BY <1>0, <2>1, <3>1 DEF RegistersKept, Gpr
    <3> QED
      BY <1>1, <1>5, <2>1, <2>2, <3>2, <3>3 DEF Stored, IsStruct
  <2>3. CASE ty.size > 8
    <3>1. Pieces(ty, "gp") = 2 - Fp1(ty) - Fp2(ty) /\ Pieces(ty, "fp") = Fp1(ty) + Fp2(ty)
      BY <1>5, <2>1, <2>3, PiecesOf
    <3>2. Fp1(ty) = 1 => Fpr(f)' = Fpr(f)
      BY <1>0, <2>1, <3>1 DEF RegistersKept, Fpr
    <3>3. Fp1(ty) # 1 => Gpr(g)' = Gpr(g)
      BY <1>0, <2>1, <3>1 DEF RegistersKept, Gpr
    <3>4. Fp2(ty) = 1 => Fpr(f + Fp1(ty))' = Fpr(f + Fp1(ty))
      BY <1>0, <2>1, <3>1 DEF RegistersKept, Fpr
    <3>5. Fp2(ty) # 1 => Gpr(g + 1 - Fp1(ty))' = Gpr(g + 1 - Fp1(ty))
      BY <1>0, <2>1, <3>1 DEF RegistersKept, Gpr
    <3> QED
      BY <1>5, <2>3, <3>2, <3>3, <3>4, <3>5 DEF Stored, IsStruct
  <2> QED
    BY <1>1, <2>2, <2>3
<1> QED
  BY <1>1, <1>2, <1>3, <1>4, <1>5 DEF Kinds

\* It is found where the pops have put its words.
LEMMA StoredFilled ==
  ASSUME NEW ty \in Sized, NEW g \in Nat, NEW f \in Nat, NEW w, PopIn(ty, g, f), Filled(ty, g, f, w)
  PROVE  Stored(ty, g, f)' = [k \in 1 .. Words(ty) |-> w[k]]
<1> USE RegistersAssumption
<1>0. GpMax \in Nat /\ FpMax \in Nat
  OBVIOUS
<1>1. ty.kind \in Kinds /\ ty.size \in Nat
  BY TypeFacts
<1>2. CASE ty.kind = "int"
  <2>1. g < GpMax /\ Pieces(ty, "gp") = 1 /\ Words(ty) = 1
    BY <1>2, IntPop, PiecesOf, TypeFacts
  <2>2. gpr'[g + 1] = w[1]
    BY <1>2, <2>1 DEF Filled, IsStruct
  <2> QED
    BY <1>2, <2>1, <2>2 DEF Stored, IsStruct, Gpr
<1>3. CASE ty.kind = "float"
  <2>1. f < FpMax /\ Pieces(ty, "fp") = 1 /\ Words(ty) = 1
    BY <1>3, FloatPop, PiecesOf, TypeFacts
  <2>2. fpr'[f + 1] = w[1]
    BY <1>3, <2>1 DEF Filled, IsStruct
  <2> QED
    BY <1>3, <2>1, <2>2 DEF Stored, IsStruct, Fpr
<1>4. CASE ty.kind = "ldouble"
  BY <1>4, LongDoublePop
<1>5. CASE ty.kind = "struct"
  <2>1. ty.size <= 16 /\ Fp1(ty) \in {0, 1} /\ Fp2(ty) \in {0, 1} /\ f + (Fp1(ty) + Fp2(ty)) < FpMax /\ g + 2 - (Fp1(ty) + Fp2(ty)) < GpMax
    BY <1>5, StructPop, HalvesOf
  <2>2. PICK pg, pf, n : pg = Pieces(ty, "gp") /\ pf = Pieces(ty, "fp") /\ n = pg + pf
    OBVIOUS
  <2>3. /\ \A r \in g + 1 .. g + pg : gpr'[r] = IF Fp1(ty) = 0 THEN w[r - g] ELSE w[n]
        /\ \A r \in f + 1 .. f + pf : fpr'[r] = IF Fp1(ty) = 0 THEN w[n] ELSE w[r - f]
    BY <1>5, <2>2 DEF Filled, IsStruct
  <2>4. /\ g + 1 - g = 1 /\ g + 2 - g = 2 /\ f + 1 - f = 1 /\ f + 2 - f = 2
        /\ pg \in Nat /\ pg >= 1 => g + 1 \in g + 1 .. g + pg
        /\ pg \in Nat /\ pg >= 2 => g + 2 \in g + 1 .. g + pg
        /\ pf \in Nat /\ pf >= 1 => f + 1 \in f + 1 .. f + pf
        /\ pf \in Nat /\ pf >= 2 => f + 2 \in f + 1 .. f + pf
    OBVIOUS
  <2>5. CASE ty.size <= 8
    <3>1. Words(ty) = 1
      <4>1. Words(ty) \in Nat \ {0} /\ Words(ty) <= 1
        BY <2>5, TypeFacts
      <4> QED
        BY <4>1
    <3>2. pg = 1 - Fp1(ty) /\ pf = Fp1(ty) /\ n = 1
      <4>1. Pieces(ty, "gp") = 1 - Fp1(ty) /\ Pieces(ty, "fp") = Fp1(ty)
        BY <1>5, <2>5, PiecesOf
      <4> QED
        BY <2>1, <2>2, <4>1
    <3>3. Fp1(ty) = 1 => Fpr(f)' = w[1]
      <4>1. ASSUME Fp1(ty) = 1 PROVE fpr'[f + 1] = w[1]
        BY <2>3, <2>4, <3>2, <4>1
      <4>2. f < FpMax
        BY <1>0, <2>1
      <4> QED
        BY <4>1, <4>2 DEF Fpr
    <3>4. Fp1(ty) # 1 => Gpr(g)' = w[1]
      <4>1. ASSUME Fp1(ty) # 1 PROVE gpr'[g + 1] = w[1]
        BY <2>1, <2>3, <2>4, <3>2, <4>1
      <4>2. g < GpMax
        BY <1>0, <2>1
      <4> QED
        BY <4>1, <4>2 DEF Gpr
    <3>5. Stored(ty, g, f)' = <<w[1]>>
      BY <1>1, <1>5, <2>1, <2>5, <3>3, <3>4 DEF Stored, IsStruct
    <3> QED
      BY <3>1, <3>5
  <2>6. CASE ty.size > 8
    <3>1. Words(ty) = 2
      <4>1. Words(ty) \in Nat \ {0} /\ Words(ty) <= 2 /\ ~(Words(ty) <= 1)
        BY <1>1, <2>1, <2>6, TypeFacts
      <4> QED
        BY <4>1
    <3>2. pg = 2 - Fp1(ty) - Fp2(ty) /\ pf = Fp1(ty) + Fp2(ty) /\ n = 2
      <4>1. Pieces(ty, "gp") = 2 - Fp1(ty) - Fp2(ty) /\ Pieces(ty, "fp") = Fp1(ty) + Fp2(ty)
        BY <1>5, <2>1, <2>6, PiecesOf
      <4> QED
        BY <2>1, <2>2, <4>1
    <3>3. Fp1(ty) = 1 => Fpr(f)' = w[1]
      <4>1. ASSUME Fp1(ty) = 1 PROVE fpr'[f + 1] = w[1]
        BY <2>1, <2>3, <2>4, <3>2, <4>1
      <4>2. f < FpMax
        BY <1>0, <2>1
      <4> QED
        BY <4>1, <4>2 DEF Fpr
    <3>4. Fp1(ty) # 1 => Gpr(g)' = w[1]
      <4>1. ASSUME Fp1(ty) # 1 PROVE gpr'[g + 1] = w[1]
        <5>1. Fp1(ty) = 0 /\ pg \in Nat /\ pg >= 1
          <6>1. Fp1(ty) = 0 /\ Fp2(ty) \in {0, 1}
            BY <2>1, <4>1
          <6>2. pg = 2 - Fp2(ty)
            BY <3>2, <6>1
          <6>3. CASE Fp2(ty) = 0
            BY <6>1, <6>2, <6>3
          <6>4. CASE Fp2(ty) = 1
            BY <6>1, <6>2, <6>4
          <6> QED
            BY <6>1, <6>3, <6>4
        <5> QED
          BY <2>3, <2>4, <5>1
      <4>2. g < GpMax
        BY <1>0, <2>1
      <4> QED
        BY <4>1, <4>2 DEF Gpr
    <3>5. Fp2(ty) = 1 => Fpr(f + Fp1(ty))' = w[2]
      <4>1. ASSUME Fp2(ty) = 1, Fp1(ty) = 1 PROVE Fpr(f + Fp1(ty))' = w[2]
        <5>1. fpr'[f + 2] = w[2] /\ f + 1 < FpMax /\ f + 1 + 1 = f + 2
          BY <1>0, <2>1, <2>3, <2>4, <3>2, <4>1
        <5> QED
          BY <4>1, <5>1 DEF Fpr
      <4>2. ASSUME Fp2(ty) = 1, Fp1(ty) = 0 PROVE Fpr(f + Fp1(ty))' = w[2]
        <5>1. fpr'[f + 1] = w[2] /\ f < FpMax /\ f + 0 = f
          BY <1>0, <2>1, <2>3, <2>4, <3>2, <4>2
        <5> QED
          BY <4>2, <5>1 DEF Fpr
      <4> QED
        BY <2>1, <4>1, <4>2
    <3>6. Fp2(ty) # 1 => Gpr(g + 1 - Fp1(ty))' = w[2]
      <4>1. ASSUME Fp2(ty) = 0, Fp1(ty) = 1 PROVE Gpr(g + 1 - Fp1(ty))' = w[2]
        <5>1. gpr'[g + 1] = w[2] /\ g < GpMax /\ g + 1 - 1 = g
          BY <1>0, <2>1, <2>3, <2>4, <3>2, <4>1
        <5> QED
          BY <4>1, <5>1 DEF Gpr
      <4>2. ASSUME Fp2(ty) = 0, Fp1(ty) = 0 PROVE Gpr(g + 1 - Fp1(ty))' = w[2]
        <5>1. gpr'[g + 2] = w[2] /\ g + 1 < GpMax /\ g + 1 - 0 = g + 1 /\ g + 1 + 1 = g + 2
          BY <1>0, <2>1, <2>3, <2>4, <3>2, <4>2
        <5> QED
          BY <4>2, <5>1 DEF Gpr
      <4> QED
        BY <2>1, <4>1, <4>2
    <3>7. Stored(ty, g, f)' = <<w[1], w[2]>>
      BY <1>5, <2>6, <3>3, <3>4, <3>5, <3>6 DEF Stored, IsStruct
    <3> QED
      BY <3>1, <3>7
  <2> QED
    BY <1>1, <2>5, <2>6
<1> QED
  BY <1>1, <1>2, <1>3, <1>4, <1>5 DEF Kinds

\* What holds whenever the arguments are laid out.
LEMMA LaidFacts ==
  ASSUME Scope, TypeOK, UsedTypes, NEW H \in Traces, Laid(H), Settled
  PROVE  /\ Last \in Nat /\ Total \in Nat /\ Floor \in Nat /\ Floor <= Total /\ copied \in Nat /\ args \in Nat
         /\ stack \in Seq(Word) /\ Len(stack) \in Nat /\ DOMAIN Args = 1 .. Last /\ Last = Len(Args)
         /\ Mem(H, 1) = 0 /\ Reg(H, 1) = 0 /\ PG(H, 1) = N(call.big) /\ PF(H, 1) = 0
         /\ FG(H, 1) = N(call.big) /\ FF(H, 1) = 0
         /\ Reg(H, Last + 1) \in Nat /\ Mem(H, Last + 1) \in Nat
         /\ Args' = Args /\ Params' = Params /\ Last' = Last /\ Floor' = Floor /\ Total' = Total /\ UsedTypes'
         /\ Plan(H, Last + 1, bystack)
<1>1. /\ Last \in Nat /\ Total \in Nat /\ Floor \in Nat /\ Floor <= Total /\ copied \in Nat /\ args \in Nat
      /\ stack \in Seq(Word) /\ Len(stack) \in Nat /\ DOMAIN Args = 1 .. Last /\ Last = Len(Args)
  BY Sizes
<1>2. Plan(H, Last + 1, bystack)
  BY DEF Laid
<1>3. /\ Mem(H, 1) = 0 /\ Reg(H, 1) = 0 /\ PG(H, 1) = N(call.big) /\ PF(H, 1) = 0
      /\ FG(H, 1) = N(call.big) /\ FF(H, 1) = 0
  BY <1>2, StartOf
<1>4. Reg(H, Last + 1) \in Nat /\ Mem(H, Last + 1) \in Nat
  <2>1. Last + 1 \in Nat
    BY <1>1
  <2> QED
    BY <2>1, TraceTypes
<1>5. Args' = Args /\ Params' = Params /\ Last' = Last /\ Floor' = Floor /\ Total' = Total /\ UsedTypes'
  BY SettledKept
<1> QED
  BY <1>1, <1>2, <1>3, <1>4, <1>5

\* PopRetBuffer keeps the invariant.
LEMMA PopRetBufferKeeps ==
  ASSUME Scope, NEW H \in Traces, Inv(H), PopRetBuffer, UNCHANGED <<used, places>>
  PROVE  Inv(H)'
<1>1. TypeOK /\ UsedTypes /\ Laid(H) /\ Popping(H) /\ got = <<>> /\ arg = 0 /\ pc = "pop"
  BY DEF Inv, PopRetBuffer
<1>2. /\ Settled /\ UNCHANGED <<pc, fp, fpr, top, offset, home, va, got>> /\ arg' = 1 /\ gp' = 1
      /\ gpr' = [gpr EXCEPT ![1] = Popped(1)[1]] /\ stack' = Behind(1) /\ depth' = depth - 1
  BY DEF PopRetBuffer, Settled
<1>3. /\ Last \in Nat /\ Total \in Nat /\ Floor \in Nat /\ Floor <= Total /\ copied \in Nat /\ args \in Nat
      /\ stack \in Seq(Word) /\ Len(stack) \in Nat
      /\ Mem(H, 1) = 0 /\ Reg(H, 1) = 0 /\ PG(H, 1) = N(call.big) /\ PF(H, 1) = 0 /\ Reg(H, Last + 1) \in Nat
      /\ Args' = Args /\ Params' = Params /\ Last' = Last /\ Floor' = Floor /\ Total' = Total /\ UsedTypes'
  BY <1>1, <1>2, LaidFacts
<1>4. /\ call.big /\ fp = 0 /\ Len(stack) = Total + Reg(H, Last + 1) + 1 /\ OnStack(H, 1) /\ ForRegisters(H, 1)
      /\ depth = Len(stack)
  BY <1>1 DEF Popping
<1>5. 1 <= Len(stack) /\ 1 \in Nat /\ 1 \in 1 .. 1
  BY <1>3, <1>4
<1>6. /\ stack' \in Seq(Word) /\ Len(stack') = Len(stack) - 1 /\ Popped(1)[1] \in Word
      /\ \A k \in 1 .. Len(stack) - 1 : stack'[k] = stack[k]
  BY <1>1, <1>2, <1>5, PoppedWords
<1>7. Len(stack') = Total + Reg(H, Last + 1) /\ depth' = Len(stack') /\ Len(stack') \in Nat /\ Len(stack') >= Total
      /\ \A k \in 1 .. Len(stack') : stack'[k] = stack[k]
  BY <1>2, <1>3, <1>4, <1>6
<1>8. TypeOK'
  <2>1. gpr' \in [1 .. GpMax + WinMax -> Word]
    BY <1>1, <1>2, <1>6, VariableTypes
  <2>2. arg' \in 0 .. Last + 1 /\ gp' \in Nat /\ depth' \in Int
    BY <1>2, <1>3, <1>7
  <2> QED
    BY <1>1, <1>2, <1>6, <2>1, <2>2, VariableTypes, TypesFollow
<1>9. Laid(H)'
  <2>1. Floor <= Len(stack') /\ \A k \in 1 .. Floor : stack'[k] = stack[k]
    BY <1>3, <1>7
  <2> QED
    BY <1>1, <1>2, <1>3, <2>1, LaidKept DEF Settled
<1>10. OnStack(H, 1)' /\ ForRegisters(H, 1)'
  <2>1. PICK j : j = 1
    OBVIOUS
  <2>2. j \in 1 .. Last + 1
    BY <1>3, <2>1
  <2>3. \A k \in 1 .. Total - Mem(H, j) : stack'[k] = stack[k]
    BY <1>3, <1>7, <2>1
  <2>4. OnStack(H, j)'
    BY <1>1, <1>2, <1>3, <1>4, <2>1, <2>2, <2>3, OnStackKept DEF Settled
  <2>5. \A k \in Total + 1 .. Total + Reg(H, Last + 1) - Reg(H, j) : stack'[k] = stack[k]
    <3>1. \A k \in Total + 1 .. Total + Reg(H, Last + 1) - Reg(H, j) : k \in 1 .. Len(stack')
      BY <1>3, <1>7, <2>1
    <3> QED
      BY <1>7, <3>1
  <2>6. ForRegisters(H, j)'
    BY <1>1, <1>2, <1>3, <1>4, <2>1, <2>2, <2>5, ForRegistersKept DEF Settled
  <2> QED
    BY <2>1, <2>4, <2>6
<1>11. Popping(H)'
  <2>1. /\ Reg(H, Last + 1)' = Reg(H, Last + 1) /\ Reg(H, arg)' = 0 /\ call' = call
        /\ PG(H, arg)' = 1 /\ PF(H, arg)' = 0
    BY <1>2, <1>3, <1>4, NBig DEF Reg, PG, PF, Settled
  <2>2. arg' \in 0 .. Last' + 1 /\ depth' = Len(stack') /\ OnStack(H, 1)' /\ ForRegisters(H, arg)'
    BY <1>2, <1>3, <1>7, <1>10
  <2>3. InRegisters(H, arg)'
    BY <1>2 DEF InRegisters
  <2>4. IsLesser(gp, Position(arg) - 1, WinMax)'
    <3>1. Position(arg)' = 2
      <4>1. N(call.big) = 1
        BY <1>4 DEF N
      <4>2. N(call.big)' = N(call.big)
        BY <2>1
      <4> QED
        BY <1>2, <4>1, <4>2 DEF Position
    <3> QED
      BY <1>2, <3>1, RegistersAssumption DEF IsLesser
  <2>5. Len(stack)' = (Total + Reg(H, Last + 1) - Reg(H, arg))'
    BY <1>3, <1>7, <2>1
  <2>6. gp' = PG(H, arg)' /\ fp' = PF(H, arg)' /\ arg' # 0
    BY <1>2, <1>4, <2>1
  <2> QED
    BY <2>2, <2>3, <2>4, <2>5, <2>6 DEF Popping
<1> QED
  BY <1>1, <1>2, <1>3, <1>8, <1>9, <1>11 DEF Inv

\* The words popped are those that the argument has in registers.
LEMMA PiecesWords ==
  ASSUME NEW ty \in Sized, NEW g \in Nat, NEW f \in Nat, PopIn(ty, g, f)
  PROVE  Pieces(ty, "gp") + Pieces(ty, "fp") = Words(ty) /\ Pieces(ty, "gp") \in Nat /\ Pieces(ty, "fp") \in Nat
<1>1. ty.kind \in Kinds /\ ty.size \in Nat /\ Words(ty) \in Nat \ {0}
  BY TypeFacts
<1>2. CASE ty.kind = "int"
  BY <1>2, PiecesOf, TypeFacts
<1>3. CASE ty.kind = "float"
  BY <1>3, PiecesOf, TypeFacts
<1>4. CASE ty.kind = "ldouble"
  BY <1>4, LongDoublePop
<1>5. CASE ty.kind = "struct"
  <2>1. ty.size <= 16 /\ Fp1(ty) \in {0, 1} /\ Fp2(ty) \in {0, 1}
    BY <1>5, StructPop, HalvesOf
  <2>2. CASE ty.size <= 8
    <3>1. Pieces(ty, "gp") = 1 - Fp1(ty) /\ Pieces(ty, "fp") = Fp1(ty) /\ Words(ty) <= 1
      BY <1>5, <2>2, PiecesOf, TypeFacts
    <3> QED
      BY <1>1, <2>1, <3>1
  <2>3. CASE ty.size > 8
    <3>1. Pieces(ty, "gp") = 2 - Fp1(ty) - Fp2(ty) /\ Pieces(ty, "fp") = Fp1(ty) + Fp2(ty)
      BY <1>5, <2>1, <2>3, PiecesOf
    <3>2. Words(ty) <= 2 /\ ~(Words(ty) <= 1)
      BY <1>1, <2>1, <2>3, TypeFacts
    <3>3. Words(ty) = 2
      BY <1>1, <3>2
    <3>4. Fp1(ty) = 0 \/ Fp1(ty) = 1
      BY <2>1
    <3>5. Fp2(ty) = 0 \/ Fp2(ty) = 1
      BY <2>1
    <3> QED
      BY <3>1, <3>3, <3>4, <3>5
  <2> QED
    BY <1>1, <2>2, <2>3
<1> QED
  BY <1>1, <1>2, <1>3, <1>4, <1>5 DEF Kinds

\* PopSysV keeps the invariant.
LEMMA PopSysVKeeps ==
  ASSUME Scope, NEW H \in Traces, Inv(H), PopSysV, UNCHANGED <<used, places>>
  PROVE  Inv(H)'
<1> USE RegistersAssumption
<1>1. TypeOK /\ UsedTypes /\ Laid(H) /\ Popping(H) /\ got = <<>> /\ pc = "pop" /\ abi = "sysv" /\ arg \in DOMAIN Args
  BY DEF Inv, PopSysV
<1>2. Settled /\ UNCHANGED <<pc, top, offset, home, va, got>> /\ arg' = arg + 1
  BY DEF PopSysV, Settled
<1>3. /\ Last \in Nat /\ DOMAIN Args = 1 .. Last /\ Args' = Args /\ Params' = Params /\ Last' = Last /\ UsedTypes'
      /\ Plan(H, Last + 1, bystack)
  BY <1>1, <1>2, LaidFacts
<1>4. PICK i \in 1 .. Last : i = arg
  BY <1>1, <1>3
<1>5. PICK ty : ty = Args[i]
  OBVIOUS
<1>6. i \in Nat /\ i > 0 /\ i + 1 \in Nat /\ i \in 1 .. Last + 1 - 1 /\ i + 1 \in 1 .. Last + 1 /\ i \in 1 .. Last + 1
  BY <1>3
<1>7. ty \in Sized
  BY <1>5, ArgsOf DEF Scope, Sound
<1>8. PICK g \in Nat, f \in Nat : g = PG(H, i) /\ f = PF(H, i)
  BY <1>6, TraceTypes
<1>9. gp = g /\ fp = f /\ InRegisters(H, i)
  BY <1>1, <1>4, <1>6, <1>8 DEF Popping
<1>10. PICK g2 \in Nat, f2 \in Nat : g2 = PG(H, i + 1) /\ f2 = PF(H, i + 1)
  BY <1>6, TraceTypes
<1>11. SysVDecides(H, i, bystack) /\ g2 <= GpMax /\ f2 <= FpMax
  <2>1. SysVPlan(H, Last + 1, bystack)
    BY <1>1, <1>3 DEF Plan
  <2>2. PICK m : m = Last + 1
    OBVIOUS
  <2>3. i \in 1 .. m - 1 /\ i + 1 \in 1 .. m
    BY <1>6, <2>2
  <2>4. SysVDecides(H, i, bystack) /\ SysVBefore(H, i + 1)
    BY <2>1, <2>2, <2>3 DEF SysVPlan
  <2> QED
    BY <1>10, <2>4 DEF SysVBefore, IsLesser
<1>12. /\ g2 = PopGp(ty, g, f) /\ f2 = PopFp(ty, g, f)
       /\ i \in bystack => g2 = g /\ f2 = f
       /\ i \notin bystack => PopIn(ty, g, f) /\ g2 = g + Pieces(ty, "gp") /\ f2 = f + Pieces(ty, "fp")
  BY <1>5, <1>8, <1>10, <1>11 DEF SysVDecides
<1>13. PICK n : n = (g2 - g) + (f2 - f)
  OBVIOUS
<1>14. n = Waiting(arg) /\ n \in Nat /\ g2 >= g /\ f2 >= f
  <2>1. CASE i \in bystack
    BY <1>4, <1>12, <1>13, <2>1 DEF Waiting
  <2>2. CASE i \notin bystack
    <3>1. Pieces(ty, "gp") + Pieces(ty, "fp") = Words(ty) /\ Pieces(ty, "gp") \in Nat /\ Pieces(ty, "fp") \in Nat
      BY <1>7, <1>12, <2>2, PiecesWords
    <3>2. WordsOf(i) = Words(ty)
      BY <1>1, <1>4, <1>5, WordsOfArg DEF Scope, Sound
    <3>3. n = Words(ty) /\ n \in Nat
      BY <1>12, <1>13, <2>2, <3>1
    <3> QED
      BY <1>4, <1>12, <2>2, <3>1, <3>2, <3>3 DEF Waiting
  <2> QED
    BY <2>1, <2>2
<1>15. PICK first : first = IF IsStruct(ty) THEN Fp1(ty) = 0 ELSE ty.kind = "int"
  OBVIOUS
<1>16. /\ gp' = g2 /\ fp' = f2 /\ stack' = Behind(n) /\ depth' = depth - n
       /\ gpr' = [r \in DOMAIN gpr |-> IF r \notin g + 1 .. g2 THEN gpr[r] ELSE IF first THEN Popped(n)[r - g] ELSE Popped(n)[n]]
       /\ fpr' = [r \in DOMAIN fpr |-> IF r \notin f + 1 .. f2 THEN fpr[r] ELSE IF first THEN Popped(n)[n] ELSE Popped(n)[r - f]]
  BY <1>4, <1>5, <1>9, <1>12, <1>13, <1>15 DEF PopSysV, PopGp, PopFp
<1>17. PoppedTo(H)
  BY <1>1, <1>2, <1>3, <1>4, <1>14, <1>16, PopKeepsStack
<1>18. gpr \in [1 .. GpMax + WinMax -> Word] /\ fpr \in [1 .. FpMax + WinMax -> Word]
  BY <1>1, VariableTypes
<1>19. \A k \in 1 .. n : Popped(n)[k] \in Word
  BY <1>1, <1>14, PoppedWords
<1>20. gpr' \in [1 .. GpMax + WinMax -> Word]
  <2>1. ASSUME NEW r \in g + 1 .. g2
        PROVE  r - g \in 1 .. n /\ n \in 1 .. n
    BY <1>13, <1>14
  <2> QED
    BY <1>16, <1>18, <1>19, <2>1
<1>21. fpr' \in [1 .. FpMax + WinMax -> Word]
  <2>1. ASSUME NEW r \in f + 1 .. f2
        PROVE  r - f \in 1 .. n /\ n \in 1 .. n
    BY <1>13, <1>14
  <2> QED
    BY <1>16, <1>18, <1>19, <2>1
<1>22. RegistersKept(g, f)
  <2>1. ASSUME NEW r \in 1 .. GpMax, r <= g
        PROVE  gpr'[r] = gpr[r]
    BY <1>16, <1>18, <2>1
  <2>2. ASSUME NEW r \in 1 .. FpMax, r <= f
        PROVE  fpr'[r] = fpr[r]
    BY <1>16, <1>18, <2>2
  <2> QED
    BY <2>1, <2>2 DEF RegistersKept
<1>23. TypeOK'
  <2>1. arg' \in 0 .. Last + 1
    BY <1>2, <1>4, <1>6
  <2>2. stack' \in Seq(Word) /\ depth' \in Int
    <3>1. depth \in Int
      BY <1>1, VariableTypes
    <3> QED
      BY <1>14, <1>16, <1>17, <3>1 DEF PoppedTo
  <2> QED
    BY <1>1, <1>2, <1>16, <1>20, <1>21, <2>1, <2>2, VariableTypes, TypesFollow
<1>24. ASSUME i \notin bystack
       PROVE  Loaded(H, i)'
  <2>1. Filled(ty, g, f, Popped(n))
    <3>1. PICK pg, pf : pg = Pieces(ty, "gp") /\ pf = Pieces(ty, "fp")
      OBVIOUS
    <3>2. g2 = g + pg /\ f2 = f + pf /\ n = pg + pf /\ pg \in Nat /\ pf \in Nat
      BY <1>7, <1>12, <1>13, <1>24, <3>1, PiecesWords
    <3>3. ASSUME NEW r \in g + 1 .. g + pg
          PROVE  gpr'[r] = IF first THEN Popped(n)[r - g] ELSE Popped(n)[n]
      <4>1. r \in 1 .. GpMax + WinMax
        BY <1>11, <3>2
      <4> QED
        BY <1>16, <1>18, <3>2, <4>1
    <3>4. ASSUME NEW r \in f + 1 .. f + pf
          PROVE  fpr'[r] = IF first THEN Popped(n)[n] ELSE Popped(n)[r - f]
      <4>1. r \in 1 .. FpMax + WinMax
        BY <1>11, <3>2
      <4> QED
        BY <1>16, <1>18, <3>2, <4>1
    <3> QED
      BY <1>15, <3>1, <3>2, <3>3, <3>4 DEF Filled
  <2>2. Stored(ty, g, f)' = [k \in 1 .. Words(ty) |-> Popped(n)[k]]
    BY <1>7, <1>12, <1>24, <2>1, StoredFilled
  <2>3. \A k \in 1 .. Words(ty) : Popped(n)[k] = <<i, k>>
    <3>1. WordsOf(i) = Words(ty) /\ ~ByReference(Args[i])
      BY <1>1, <1>4, <1>5, WordsOfArg DEF Scope, Sound
    <3>2. \A k \in 1 .. WordsOf(i) : Popped(n)[k] = Want(i, k)
      BY <1>4, <1>14, <1>17, <1>24 DEF PoppedTo
    <3> QED
      BY <3>1, <3>2 DEF Want
  <2>4. Stored(ty, g, f)' = Sent(i)
    BY <1>5, <2>2, <2>3 DEF Sent
  <2>5. Sent(i)' = Sent(i) /\ PG(H, i)' = g /\ PF(H, i)' = f /\ Args'[i] = ty /\ abi' = "sysv"
    BY <1>1, <1>2, <1>3, <1>5, <1>8 DEF Sent, PG, PF, Settled
  <2>6. Stored(Args[i], PG(H, i), PF(H, i))' = Stored(ty, g, f)'
    BY <2>5 DEF Stored, Gpr, Fpr
  <2> QED
    BY <2>4, <2>5, <2>6 DEF Loaded
<1>25. ASSUME NEW j \in 1 .. i - 1, j \notin bystack
       PROVE  Loaded(H, j)'
  <2>1. /\ j \in Nat /\ j + 1 \in Nat /\ j \in 1 .. Last /\ j \in 1 .. Last + 1 - 1 /\ j + 1 \in 1 .. Last + 1 /\ j + 1 <= i
    BY <1>3, <1>6, SMTT(30)
  <2>2. PICK tj : tj = Args[j]
    OBVIOUS
  <2>3. PICK gj \in Nat, fj \in Nat : gj = PG(H, j) /\ fj = PF(H, j)
    BY <2>1, TraceTypes
  <2>4. SysVDecides(H, j, bystack)
    <3>1. PICK m : m = Last + 1
      OBVIOUS
    <3>2. SysVPlan(H, m, bystack) /\ j \in 1 .. m - 1
      BY <1>1, <1>3, <2>1, <3>1, SMTT(30) DEF Plan
    <3> QED
      BY <3>2 DEF SysVPlan
  <2>5. PopIn(tj, gj, fj) /\ PG(H, j + 1) = gj + Pieces(tj, "gp") /\ PF(H, j + 1) = fj + Pieces(tj, "fp")
    BY <1>25, <2>2, <2>3, <2>4 DEF SysVDecides
  <2>6. PG(H, j + 1) <= g /\ PF(H, j + 1) <= f
    <3>1. Grows(H, j + 1, i)
      BY <1>3, <1>6, <2>1 DEF Plan
    <3> QED
      BY <1>8, <3>1 DEF Grows
  <2>7. tj \in Sized
    BY <2>1, <2>2, ArgsOf DEF Scope, Sound
  <2>8. RegistersKept(gj + Pieces(tj, "gp"), fj + Pieces(tj, "fp"))
    <3>1. PG(H, j + 1) \in Nat /\ PF(H, j + 1) \in Nat
      BY <2>1, TraceTypes
    <3>2. RegistersKept(PG(H, j + 1), PF(H, j + 1))
      BY <1>22, <2>6, <3>1 DEF RegistersKept
    <3> QED
      BY <2>5, <3>2
  <2>9. Stored(tj, gj, fj)' = Stored(tj, gj, fj)
    BY <2>5, <2>7, <2>8, StoredKept
  <2>10. Stored(tj, gj, fj) = Sent(j)
    BY <1>1, <1>9, <1>25, <2>2, <2>3 DEF InRegisters, Loaded
  <2>11. Sent(j)' = Sent(j) /\ PG(H, j)' = gj /\ PF(H, j)' = fj /\ Args'[j] = tj /\ abi' = "sysv"
    BY <1>1, <1>2, <1>3, <2>2, <2>3 DEF Sent, PG, PF, Settled
  <2>12. Stored(Args[j], PG(H, j), PF(H, j))' = Stored(tj, gj, fj)'
    BY <2>11 DEF Stored, Gpr, Fpr
  <2> QED
    BY <2>9, <2>10, <2>11, <2>12 DEF Loaded
<1>26. InRegisters(H, arg)'
  <2>1. \A j \in 1 .. i + 1 - 1 : j = i \/ j \in 1 .. i - 1
    BY <1>6
  <2>2. arg' = i + 1 /\ bystack' = bystack
    BY <1>2, <1>4 DEF Settled
  <2> QED
    BY <1>24, <1>25, <2>1, <2>2 DEF InRegisters
<1>27. Popping(H)'
  <2>1. gp' = PG(H, arg)' /\ fp' = PF(H, arg)' /\ arg' # 0 /\ abi' = "sysv" /\ arg' \in 0 .. Last' + 1
    BY <1>1, <1>2, <1>3, <1>4, <1>6, <1>10, <1>16 DEF PG, PF, Settled
  <2> QED
    BY <1>17, <1>26, <2>1 DEF PoppedTo, Popping
<1> QED
  BY <1>1, <1>2, <1>3, <1>17, <1>23, <1>27 DEF Inv, PoppedTo

\* PopWin keeps the invariant.
LEMMA PopWinKeeps ==
  ASSUME Scope, NEW H \in Traces, Inv(H), PopWin, UNCHANGED <<used, places>>
  PROVE  Inv(H)'
<1> USE RegistersAssumption
<1>1. TypeOK /\ UsedTypes /\ Laid(H) /\ Popping(H) /\ got = <<>> /\ pc = "pop" /\ abi = "win" /\ arg \in DOMAIN Args
  BY DEF Inv, PopWin
<1>2. Settled /\ UNCHANGED <<pc, fp, top, offset, home, va, got>> /\ arg' = arg + 1
  BY DEF PopWin, Settled
<1>3. /\ Last \in Nat /\ DOMAIN Args = 1 .. Last /\ Args' = Args /\ Params' = Params /\ Last' = Last /\ UsedTypes'
      /\ Plan(H, Last + 1, bystack) /\ stack \in Seq(Word) /\ Len(stack) \in Nat
  BY <1>1, <1>2, LaidFacts
<1>4. PICK i \in 1 .. Last : i = arg
  BY <1>1, <1>3
<1>5. PICK p : p = Position(i)
  OBVIOUS
<1>6. i \in Nat /\ i > 0 /\ i \in 1 .. Last + 1 - 1 /\ p \in Nat /\ p > 0 /\ Position(i + 1) = p + 1 /\ WinMax \in Nat /\ WinMax > 0
  BY <1>3, <1>5, NBig DEF Position
<1>7. IsLesser(gp, p - 1, WinMax) /\ gp \in Nat /\ InRegisters(H, i)
  BY <1>1, <1>4, <1>5, <1>6, VariableTypes DEF Popping
<1>8. i \in bystack <=> p > WinMax
  <2>1. PICK m : m = Last + 1
    OBVIOUS
  <2>2. WinPlan(H, m, bystack) /\ i \in 1 .. m - 1
    BY <1>1, <1>3, <1>6, <2>1 DEF Plan
  <2> QED
    BY <1>5, <2>2 DEF WinPlan, WinDecides
<1>9. ByReference(Args[i]) => copies[i] > 0
  <2>1. ASSUME ByReference(Args[i]) PROVE copies[i] > 0
    <3>0. PICK m : m = Last + 1
      OBVIOUS
    <3>1. Bottom(m) /\ i \in 1 .. m - 1
      <4>1. Bottom(Last + 1)
        BY <1>1 DEF Laid
      <4>2. i \in 1 .. m - 1
        BY <1>3, <3>0
      <4> QED
        BY <3>0, <4>1, <4>2
    <3>2. CopyAt(i)
      BY <2>1, <3>1 DEF Bottom
    <3>3. Words(Args[i]) \in Nat \ {0}
      BY <1>4, WordsOfArg DEF Scope, Sound
    <3> QED
      BY <3>2, <3>3 DEF CopyAt
  <2> QED
    BY <2>1
<1>10. WordsOf(i) = 1
  BY <1>1, <1>4, WordsOfArg DEF Scope, Sound
<1>11. /\ i \notin bystack => gp = p - 1 /\ p <= WinMax /\ gp < WinMax /\ Waiting(arg) = 1
       /\ i \in bystack => ~(gp < WinMax) /\ Waiting(arg) = 0
  <2>1. CASE i \in bystack
    BY <1>4, <1>6, <1>7, <1>8, <2>1 DEF IsLesser, Waiting
  <2>2. CASE i \notin bystack
    BY <1>4, <1>6, <1>7, <1>8, <1>10, <2>2 DEF IsLesser, Waiting
  <2> QED
    BY <2>1, <2>2
<1>12. /\ i \notin bystack => /\ gpr' = [gpr EXCEPT ![p] = Popped(1)[1]]
                              /\ fpr' = IF Args[i].kind = "float" THEN [fpr EXCEPT ![p] = Popped(1)[1]] ELSE fpr
                              /\ gp' = p /\ stack' = Behind(1) /\ depth' = depth - 1
       /\ i \in bystack => gpr' = gpr /\ fpr' = fpr /\ gp' = gp /\ stack' = stack /\ depth' = depth
  <2>1. CASE i \notin bystack
    <3>1. gp < WinMax /\ gp + 1 = p
      BY <1>6, <1>11, <2>1
    <3> QED
      BY <1>4, <1>9, <2>1, <3>1 DEF PopWin
  <2>2. CASE i \in bystack
    BY <1>11, <2>2 DEF PopWin
  <2> QED
    BY <2>1, <2>2
<1>13. stack' = Behind(Waiting(arg)) /\ depth' = depth - Waiting(arg)
  <2>1. CASE i \notin bystack
    BY <1>11, <1>12, <2>1
  <2>2. CASE i \in bystack
    <3>1. SubSeq(stack, 1, Len(stack)) = stack /\ Len(stack) - 0 = Len(stack)
      BY <1>3
    <3>2. depth \in Int
      BY <1>1, VariableTypes
    <3>3. Behind(0) = stack /\ depth - 0 = depth
      BY <3>1, <3>2 DEF Behind
    <3> QED
      BY <1>11, <1>12, <2>2, <3>3
  <2> QED
    BY <2>1, <2>2
<1>14. PoppedTo(H)
  BY <1>1, <1>2, <1>4, <1>13, PopKeepsStack
<1>15. gpr \in [1 .. GpMax + WinMax -> Word] /\ fpr \in [1 .. FpMax + WinMax -> Word]
  BY <1>1, VariableTypes
<1>16. Popped(1)[1] \in Word
  <2>1. 1 \in 1 .. 1 /\ 1 \in Nat
    OBVIOUS
  <2> QED
    BY <1>1, <2>1, PoppedWords
<1>17. TypeOK'
  <2>1. gpr' \in [1 .. GpMax + WinMax -> Word] /\ fpr' \in [1 .. FpMax + WinMax -> Word]
    <3>1. CASE i \notin bystack
      BY <1>12, <1>15, <1>16, <3>1
    <3>2. CASE i \in bystack
      BY <1>12, <1>15, <3>2
    <3> QED
      BY <3>1, <3>2
  <2>2. arg' \in 0 .. Last + 1 /\ gp' \in Nat
    BY <1>2, <1>3, <1>4, <1>6, <1>7, <1>12
  <2>3. stack' \in Seq(Word) /\ depth' \in Int
    <3>1. depth \in Int
      BY <1>1, VariableTypes
    <3> QED
      BY <1>12, <1>14, <3>1 DEF PoppedTo
  <2> QED
    BY <1>1, <1>2, <2>1, <2>2, <2>3, VariableTypes, TypesFollow
<1>18. \A j : Position(j)' = Position(j) /\ Want(j, 1)' = Want(j, 1)
  BY <1>1, <1>2, SettledKept
<1>19. ASSUME i \notin bystack
       PROVE  Loaded(H, i)'
  <2>1. Popped(1)[1] = Want(i, 1)
    <3>1. arg \notin bystack /\ 1 \in 1 .. WordsOf(arg) /\ Waiting(arg) = 1
      BY <1>4, <1>10, <1>11, <1>19
    <3> QED
      BY <1>4, <1>14, <3>1 DEF PoppedTo
  <2>2. p \in 1 .. GpMax + WinMax /\ p \in 1 .. FpMax + WinMax
    BY <1>6, <1>11, <1>19
  <2>3. gpr'[p] = Want(i, 1) /\ (Args[i].kind = "float" => fpr'[p] = Want(i, 1))
    BY <1>12, <1>15, <1>19, <2>1, <2>2
  <2>4. abi' = "win"
    BY <1>1, <1>2 DEF Settled
  <2> QED
    BY <1>3, <1>5, <1>18, <2>3, <2>4 DEF Loaded
<1>20. ASSUME NEW j \in 1 .. i - 1, j \notin bystack
       PROVE  Loaded(H, j)'
  <2>1. Loaded(H, j)
    BY <1>7, <1>20 DEF InRegisters
  <2>2. Position(j) < p /\ Position(j) \in Nat /\ Position(j) > 0
    BY <1>5, <1>6, NBig DEF Position
  <2>3. gpr'[Position(j)] = gpr[Position(j)] /\ fpr'[Position(j)] = fpr[Position(j)]
    <3>1. CASE i \notin bystack
      <4>1. Position(j) \in 1 .. GpMax + WinMax /\ Position(j) \in 1 .. FpMax + WinMax /\ Position(j) # p
        BY <1>6, <1>11, <2>2, <3>1
      <4> QED
        BY <1>12, <1>15, <3>1, <4>1
    <3>2. CASE i \in bystack
      BY <1>12, <3>2
    <3> QED
      BY <3>1, <3>2
  <2>4. abi' = "win"
    BY <1>1, <1>2 DEF Settled
  <2> QED
    BY <1>1, <1>3, <1>18, <2>1, <2>3, <2>4 DEF Loaded
<1>21. InRegisters(H, arg)'
  <2>1. \A j \in 1 .. i + 1 - 1 : j = i \/ j \in 1 .. i - 1
    BY <1>6
  <2>2. arg' = i + 1 /\ bystack' = bystack
    BY <1>2, <1>4 DEF Settled
  <2> QED
    BY <1>19, <1>20, <2>1, <2>2 DEF InRegisters
<1>22. Popping(H)'
  <2>1. arg' # 0 /\ abi' = "win" /\ arg' \in 0 .. Last' + 1
    BY <1>1, <1>2, <1>3, <1>4, <1>6 DEF Settled
  <2>2. Position(arg)' - 1 = p
    <3>1. arg' = i + 1 /\ call' = call
      BY <1>2, <1>4 DEF Settled
    <3> QED
      BY <1>6, <3>1 DEF Position
  <2>3. IsLesser(gp', p, WinMax)
    <3>1. CASE i \notin bystack
      BY <1>6, <1>11, <1>12, <3>1 DEF IsLesser
    <3>2. CASE i \in bystack
      <4>1. gp' = gp /\ ~(gp < WinMax) /\ p > WinMax
        BY <1>8, <1>11, <1>12, <3>2
      <4> QED
        BY <1>6, <1>7, <4>1 DEF IsLesser
    <3> QED
      BY <3>1, <3>2
  <2>4. IsLesser(gp, Position(arg) - 1, WinMax)'
    BY <2>2, <2>3 DEF IsLesser
  <2> QED
    BY <1>14, <1>21, <2>1, <2>4 DEF PoppedTo, Popping
<1> QED
  BY <1>1, <1>2, <1>3, <1>14, <1>17, <1>22 DEF Inv, PoppedTo

\* The homes of the registers lie on top of what was there.
LEMMA HomesAdded ==
  ASSUME NEW s \in Seq(Word), NEW n \in Nat
  PROVE  /\ s \o [k \in 1 .. n |-> Shadow] \in Seq(Word) /\ Len(s \o [k \in 1 .. n |-> Shadow]) = Len(s) + n
         /\ \A j \in 1 .. Len(s) : (s \o [k \in 1 .. n |-> Shadow])[j] = s[j]
<1> DEFINE shadow == [k \in 1 .. n |-> Shadow]
<1>1. shadow \in [1 .. n -> Word]
  BY WordTypes
<1> HIDE DEF shadow
<1>2. /\ s \o shadow \in Seq(Word) /\ Len(s \o shadow) = Len(s) + n
      /\ \A j \in 1 .. Len(s) : (s \o shadow)[j] = s[j]
  BY <1>1, Concat
<1> QED
  BY <1>2 DEF shadow

\* Call keeps the invariant.
LEMMA CallKeeps ==
  ASSUME Scope, NEW H \in Traces, Inv(H), Call, UNCHANGED <<used, places>>
  PROVE  Inv(H)'
<1> USE RegistersAssumption
<1>1. TypeOK /\ UsedTypes /\ Laid(H) /\ Popping(H) /\ got = <<>> /\ arg > Last
  BY DEF Inv, Call, Last
<1>2. /\ Settled /\ UNCHANGED <<depth, gpr, fpr, offset, home, va, got>> /\ pc' = "offsets" /\ arg' = 1
      /\ gp' = N(call.big) /\ fp' = 0 /\ top' = IF abi = "win" THEN N(call.big) ELSE 0
  BY DEF Call, Settled
<1>3. /\ Last \in Nat /\ Total \in Nat /\ Floor \in Nat /\ Floor <= Total /\ copied \in Nat /\ args \in Nat
      /\ stack \in Seq(Word) /\ Len(stack) \in Nat
      /\ Mem(H, 1) = 0 /\ FG(H, 1) = N(call.big) /\ FF(H, 1) = 0 /\ Reg(H, Last + 1) \in Nat
      /\ Args' = Args /\ Params' = Params /\ Last' = Last /\ Floor' = Floor /\ Total' = Total /\ UsedTypes'
  BY <1>1, <1>2, LaidFacts
<1>4. arg = Last + 1 /\ arg > 0
  BY <1>1, <1>3 DEF Popping
<1>5. Len(stack) = Total /\ depth = Total /\ OnStack(H, 1) /\ InRegisters(H, Last + 1)
  BY <1>1, <1>3, <1>4 DEF Popping
<1>6. WinMax \in Nat /\ Homes \in Nat
  BY DEF Homes
<1>7. /\ stack' \in Seq(Word) /\ Len(stack') = Len(stack) + Homes
      /\ \A k \in 1 .. Len(stack) : stack'[k] = stack[k]
  <2>1. CASE abi = "win"
    <3> DEFINE shadow == [k \in 1 .. WinMax |-> Shadow]
    <3>1. shadow \in [1 .. WinMax -> Word]
      BY WordTypes
    <3>2. stack' = stack \o shadow /\ Homes = WinMax
      BY <2>1 DEF Call, Homes
    <3> HIDE DEF shadow
    <3>3. /\ stack \o shadow \in Seq(Word) /\ Len(stack \o shadow) = Len(stack) + WinMax
          /\ \A k \in 1 .. Len(stack) : (stack \o shadow)[k] = stack[k]
      <4>1. stack \in Seq(Word) /\ WinMax \in Nat
        BY <1>3, <1>6
      <4> QED
        BY <4>1, HomesAdded DEF shadow
    <3> QED
      BY <3>2, <3>3
  <2>2. CASE abi # "win"
    <3>1. stack' = stack \o <<>> /\ Homes = 0
      BY <2>2 DEF Call, Homes
    <3>2. stack \o <<>> = stack
      BY <1>3
    <3> QED
      BY <1>3, <3>1, <3>2
  <2> QED
    BY <2>1, <2>2
<1>8. TypeOK'
  <2>1. gp' \in Nat /\ fp' \in Nat /\ top' \in Nat /\ arg' \in 0 .. Last + 1
    BY <1>2, <1>3, NBig
  <2> QED
    BY <1>1, <1>2, <1>7, <2>1, VariableTypes, TypesFollow
<1>9. Laid(H)'
  <2>1. Floor <= Len(stack') /\ \A k \in 1 .. Floor : stack'[k] = stack[k]
    <3>1. Floor \in Nat /\ Len(stack) \in Nat /\ Homes \in Nat /\ Floor <= Len(stack)
      BY <1>3, <1>5, <1>6
    <3>2. Len(stack') = Len(stack) + Homes
      BY <1>7
    <3>3. \A k \in 1 .. Floor : k \in 1 .. Len(stack)
      BY <3>1
    <3> QED
      BY <1>7, <3>1, <3>2, <3>3
  <2> QED
    BY <1>1, <1>2, <1>3, <2>1, LaidKept DEF Settled
<1>10. OnStack(H, 1)'
  <2>1. PICK j : j = 1
    OBVIOUS
  <2>2. j \in 1 .. Last + 1
    BY <1>3, <2>1
  <2>3. \A k \in 1 .. Total - Mem(H, j) : stack'[k] = stack[k]
    BY <1>3, <1>5, <1>7, <2>1
  <2>4. OnStack(H, j)'
    BY <1>1, <1>2, <1>3, <1>5, <2>1, <2>2, <2>3, OnStackKept DEF Settled
  <2> QED
    BY <2>1, <2>4
<1>11. InRegisters(H, Last + 1)'
  <2>1. UNCHANGED <<abi, call, copies, gpr, fpr>>
    BY <1>2 DEF Settled
  <2>2. \A j : Loaded(H, j)' <=> Loaded(H, j)
    BY <2>1, LoadedKept
  <2> QED
    BY <1>2, <1>3, <1>5, <2>2 DEF InRegisters, Settled
<1>12. Called(H)'
  <2>1. Homes' = Homes
    BY <1>2 DEF Homes, Settled
  <2>2. depth' = Total' /\ Len(stack') = Total' + Homes'
    BY <1>2, <1>3, <1>5, <1>7, <2>1
  <2> QED
    BY <1>10, <1>11, <2>2 DEF Called
<1>13. Placing(H)'
  <2>1. arg' = 1 /\ abi' = abi /\ N(call.big)' = N(call.big) /\ Len(Params') \in Nat
    BY <1>2, <1>3, ArgsOf DEF Settled, Scope
  <2>2. FG(H, arg)' = N(call.big) /\ FF(H, arg)' = 0 /\ Mem(H, arg)' = 0
    BY <1>3, <2>1 DEF FG, FF, Mem
  <2>3. Position(arg)' - 1 = N(call.big)
    BY <2>1, NBig DEF Position
  <2>4. Framed(H, arg)'
    BY <2>1 DEF Framed
  <2>5. top' = IF abi = "win" THEN N(call.big) ELSE 0
    BY <1>2
  <2>6. 1 \in 1 .. Len(Params') + 1
    BY <2>1
  <2> QED
    BY <1>2, <2>1, <2>2, <2>3, <2>4, <2>5, <2>6 DEF Placing
<1> QED
  BY <1>1, <1>2, <1>3, <1>8, <1>9, <1>12, <1>13 DEF Inv

\* The callee leaves alone what the caller has laid out.
LEMMA CalledKept ==
  ASSUME Scope, NEW H \in Traces, TypeOK, UsedTypes, Laid(H), Called(H), Settled, UNCHANGED <<depth, gpr, fpr>>,
         Len(stack') = Len(stack), \A k \in 1 .. Total : stack'[k] = stack[k]
  PROVE  Laid(H)' /\ Called(H)'
<1>1. /\ Last \in Nat /\ Total \in Nat /\ Floor \in Nat /\ Floor <= Total /\ copied \in Nat /\ args \in Nat
      /\ stack \in Seq(Word) /\ Len(stack) \in Nat /\ Mem(H, 1) = 0 /\ Last' = Last /\ Total' = Total
  BY LaidFacts
<1>2. /\ depth = Total /\ Len(stack) = Total + Homes /\ Homes \in Nat
      /\ OnStack(H, 1) /\ InRegisters(H, Last + 1)
  BY RegistersAssumption DEF Called, Homes
<1>3. Laid(H)'
  <2>1. Floor <= Len(stack') /\ \A k \in 1 .. Floor : stack'[k] = stack[k]
    BY <1>1, <1>2
  <2> QED
    BY <1>1, <2>1, LaidKept DEF Settled
<1>4. OnStack(H, 1)'
  <2>1. PICK j : j = 1
    OBVIOUS
  <2>2. j \in 1 .. Last + 1
    BY <1>1, <2>1
  <2>3. \A k \in 1 .. Total - Mem(H, j) : stack'[k] = stack[k]
    BY <1>1, <2>1
  <2>4. OnStack(H, j)'
    BY <1>1, <1>2, <2>1, <2>2, <2>3, OnStackKept DEF Settled
  <2> QED
    BY <2>1, <2>4
<1>5. InRegisters(H, Last + 1)'
  <2>1. UNCHANGED <<abi, call, copies, gpr, fpr>>
    BY DEF Settled
  <2>2. \A j : Loaded(H, j)' <=> Loaded(H, j)
    BY <2>1, LoadedKept
  <2> QED
    BY <1>1, <1>2, <2>2 DEF InRegisters, Settled
<1>6. Homes' = Homes
  BY DEF Homes, Settled
<1> QED
  BY <1>1, <1>2, <1>3, <1>4, <1>5, <1>6 DEF Called

LEMMA FramedKept ==
  ASSUME NEW H \in Traces, NEW m, UNCHANGED <<abi, call, bystack, offset>>
  PROVE  Framed(H, m)' <=> Framed(H, m)
<1>1. \A i : Position(i)' = Position(i)
  BY CallKept
<1> QED
  BY <1>1 DEF Framed, Mem

LEMMA HomedKept ==
  ASSUME Scope, TypeOK, UsedTypes, NEW m, Settled, UNCHANGED <<stack, home>>
  PROVE  Homed(m)' <=> Homed(m)
<1>1. Args' = Args /\ \A i : Position(i)' = Position(i) /\ \A w : Want(i, w)' = Want(i, w)
  BY SettledKept
<1>2. \A i : Sent(i)' = Sent(i)
  BY <1>1 DEF Sent
<1> QED
  BY <1>1, <1>2 DEF Homed, Settled

LEMMA KnownKept ==
  ASSUME UNCHANGED <<abi, call, bystack>>
  PROVE  (Known' <=> Known) /\ (VaKnown' <=> VaKnown)
<1>1. VaAligned' <=> VaAligned
  BY CallKept DEF VaAligned
<1> QED
  BY <1>1, DeparturesKept DEF Known, VaKnown

\* assign_lvar_offsets keeps the invariant.
LEMMA AssignKeeps ==
  ASSUME Scope, NEW H \in Traces, Inv(H), assign_lvar_offsets, UNCHANGED <<used, places>>
  PROVE  Inv(H)'
<1>1. TypeOK /\ UsedTypes /\ Laid(H) /\ Called(H) /\ Placing(H) /\ got = <<>> /\ pc = "offsets" /\ arg <= Len(Params)
  BY DEF Inv, assign_lvar_offsets
<1>2. Settled /\ UNCHANGED <<pc, depth, stack, gpr, fpr, home, va, got>> /\ arg' = arg + 1
  BY DEF assign_lvar_offsets, Settled
<1>3. /\ Last \in Nat /\ Args' = Args /\ Params' = Params /\ Last' = Last /\ UsedTypes'
      /\ Plan(H, Last + 1, bystack)
  BY <1>1, <1>2, LaidFacts
<1>4. Len(Params) \in 0 .. Last /\ DOMAIN Params = 1 .. Len(Params)
  BY <1>1, Sizes
<1>5. PICK i \in 1 .. Len(Params) : i = arg
  BY <1>1, <1>4 DEF Placing
<1>6. PICK ty : ty = Params[i]
  OBVIOUS
<1>7. i \in 1 .. Last /\ i \in Nat /\ i + 1 \in Nat /\ i # i + 1
  BY <1>3, <1>4
<1>8. ty = Args[i] /\ ty \in Sized /\ Words(ty) \in Nat /\ WordsOf(i) \in Nat
  <2>1. ty = Args[i] /\ ty \in Sized
    BY <1>6, <1>7, ArgsOf DEF Scope, Sound
  <2>2. Words(Args[i]) \in Nat /\ WordsOf(i) \in Nat
    BY <1>7, WordsOfArg DEF Scope, Sound
  <2> QED
    BY <2>1, <2>2
<1>9. top \in Nat /\ gp \in Nat /\ fp \in Nat /\ offset \in [1 .. Len(Params) -> Nat]
  BY <1>1, <1>4, VariableTypes
<1>10. PICK m : m = Last + 1
  OBVIOUS
<1>11. i \in 1 .. m - 1 /\ Parts(H, i, bystack)
  BY <1>3, <1>7, <1>10 DEF Plan
<1>12. ASSUME abi = "sysv"
       PROVE  gp' \in Nat /\ fp' \in Nat /\ top' \in Nat /\ offset' \in [1 .. Len(Params) -> Nat] /\ Placing(H)'
  <2>1. gp = FG(H, i) /\ fp = FF(H, i)
    BY <1>1, <1>5, <1>12 DEF Placing
  <2>2. PICK place : place = FramePlace(ty, gp, fp)
    OBVIOUS
  <2>3. ~ByReference(ty) /\ WordsOf(i) = Words(ty)
    BY <1>7, <1>8, <1>12, WordsOfArg DEF Scope, Sound
  <2>4. /\ gp' = place.gp /\ fp' = place.fp
        /\ offset' = [offset EXCEPT ![i] = IF place.in THEN 0 ELSE top + 1]
        /\ top' = IF place.in THEN top ELSE top + Words(ty)
    BY <1>5, <1>6, <1>12, <2>2, <2>3 DEF assign_lvar_offsets
  <2>5. FrameCounts(H, i) /\ (Known => FrameDecides(H, i, bystack))
    <3>1. FramePlan(H, m, bystack)
      BY <1>3, <1>10, <1>12 DEF Plan
    <3> QED
      BY <1>11, <1>12, <3>1 DEF FramePlan, Known
  <2>6. gp' = FG(H, i + 1) /\ fp' = FF(H, i + 1) /\ gp' \in Nat /\ fp' \in Nat
    <3>1. gp' = FG(H, i + 1) /\ fp' = FF(H, i + 1)
      BY <1>8, <2>1, <2>2, <2>4, <2>5 DEF FrameCounts, FrameGp, FrameFp
    <3> QED
      BY <1>7, <3>1, TraceTypes
  <2>7. Known => (i \notin bystack <=> place.in)
    BY <1>8, <2>1, <2>2, <2>5 DEF FrameDecides, FrameIn
  <2>8. top' \in Nat /\ offset' \in [1 .. Len(Params) -> Nat]
    BY <1>8, <1>9, <2>4
  <2>9. ASSUME Known
        PROVE  top' = Mem(H, i + 1) /\ offset'[i] = IF i \in bystack THEN Mem(H, i) + 1 ELSE 0
    <3>1. top = Mem(H, i)
      BY <1>1, <1>5, <1>12, <2>9 DEF Placing
    <3>2. CASE i \in bystack
      <4>1. ~place.in /\ Mem(H, i + 1) = Mem(H, i) + Words(ty)
        BY <1>11, <2>3, <2>7, <2>9, <3>2 DEF Parts
      <4> QED
        BY <1>9, <2>4, <3>1, <3>2, <4>1
    <3>3. CASE i \notin bystack
      <4>1. place.in /\ Mem(H, i + 1) = Mem(H, i)
        BY <1>11, <2>7, <2>9, <3>3 DEF Parts
      <4> QED
        BY <1>9, <2>4, <3>1, <3>3, <4>1
    <3> QED
      BY <3>2, <3>3
  <2>10. ASSUME Known, NEW j \in 1 .. i
         PROVE  offset'[j] = IF j \in bystack THEN Mem(H, j) + 1 ELSE 0
    <3>1. CASE j = i
      BY <2>9, <2>10, <3>1
    <3>2. CASE j # i
      <4>1. j \in 1 .. i - 1 /\ j \in 1 .. Len(Params)
        BY <1>7, <3>2
      <4>2. offset[j] = IF j \in bystack THEN Mem(H, j) + 1 ELSE 0
        BY <1>1, <1>5, <1>12, <2>10, <4>1 DEF Placing, Framed
      <4> QED
        BY <1>9, <2>4, <3>2, <4>1, <4>2
    <3> QED
      BY <3>1, <3>2
  <2>11. Placing(H)'
    <3>1. abi' = "sysv" /\ bystack' = bystack /\ arg' = i + 1 /\ (Known' <=> Known)
      BY <1>2, <1>5, <1>12, KnownKept DEF Settled
    <3>2. ASSUME Known
          PROVE  Framed(H, arg)' /\ top' = Mem(H, arg)'
      <4>1. \A j \in 1 .. arg' - 1 : j \in 1 .. i
        BY <1>7, <3>1
      <4> QED
        BY <2>9, <2>10, <3>1, <3>2, <4>1 DEF Framed, Mem
    <3>3. gp' = FG(H, arg)' /\ fp' = FF(H, arg)' /\ arg' \in 1 .. Len(Params') + 1
      BY <1>3, <1>4, <2>6, <3>1 DEF FG, FF
    <3> QED
      BY <3>1, <3>2, <3>3 DEF Placing
  <2> QED
    BY <2>6, <2>8, <2>11
<1>13. ASSUME abi = "win"
       PROVE  gp' \in Nat /\ fp' \in Nat /\ top' \in Nat /\ offset' \in [1 .. Len(Params) -> Nat] /\ Placing(H)'
  <2>1. gp = Position(i) - 1 /\ top = Position(i) - 1 /\ Framed(H, i) /\ Position(i) \in Nat /\ Position(i + 1) = Position(i) + 1
    BY <1>1, <1>5, <1>7, <1>13, NBig DEF Placing, Known, Position
  <2>2. ~ByReference(ty) => Words(ty) = 1
    BY <1>7, <1>8, <1>13, WordsOfArg DEF Scope, Sound
  <2>3. /\ gp' = gp + 1 /\ fp' = 0
        /\ offset' = [offset EXCEPT ![i] = top + 1] /\ top' = top + 1
    BY <1>5, <1>6, <1>13, <2>2 DEF assign_lvar_offsets, WinPlace, Fit
  <2>4. gp' = Position(i) /\ top' = Position(i) /\ fp' \in Nat /\ top + 1 = Position(i)
    BY <2>1, <2>3
  <2>5. offset' \in [1 .. Len(Params) -> Nat] /\ offset'[i] = Position(i)
    BY <1>9, <2>1, <2>3, <2>4
  <2>6. ASSUME NEW j \in 1 .. i
        PROVE  offset'[j] = Position(j)
    <3>1. CASE j = i
      BY <2>5, <3>1
    <3>2. CASE j # i
      <4>1. j \in 1 .. i - 1 /\ j \in 1 .. Len(Params)
        BY <1>7, <3>2
      <4>2. offset[j] = Position(j)
        BY <1>13, <2>1, <4>1 DEF Framed
      <4> QED
        BY <1>9, <2>3, <3>2, <4>1, <4>2
    <3> QED
      BY <3>1, <3>2
  <2>7. Placing(H)'
    <3>1. abi' = "win" /\ arg' = i + 1 /\ \A j : Position(j)' = Position(j)
      BY <1>1, <1>2, <1>5, <1>13, SettledKept DEF Settled
    <3>2. Framed(H, arg)'
      <4>1. \A j \in 1 .. arg' - 1 : j \in 1 .. i
        BY <1>7, <3>1
      <4> QED
        BY <2>6, <3>1, <4>1 DEF Framed
    <3>3. Position(arg)' - 1 = Position(i) /\ arg' \in 1 .. Len(Params') + 1
      <4>1. Position(arg)' = Position(i + 1)
        BY <1>2, <3>1 DEF Position, Settled
      <4> QED
        BY <1>3, <1>4, <2>1, <3>1, <4>1
    <3> QED
      BY <2>4, <3>1, <3>2, <3>3 DEF Placing
  <2> QED
    BY <2>1, <2>4, <2>5, <2>7
<1>14. abi \in {"sysv", "win"}
  BY DEF Scope
<1>15. gp' \in Nat /\ fp' \in Nat /\ top' \in Nat /\ offset' \in [1 .. Len(Params) -> Nat] /\ Placing(H)'
  BY <1>12, <1>13, <1>14
<1>16. TypeOK'
  <2>1. arg' \in 0 .. Last + 1
    BY <1>2, <1>3, <1>5, <1>7
  <2> QED
    BY <1>1, <1>2, <1>4, <1>15, <2>1, VariableTypes, TypesFollow
<1>17. Laid(H)' /\ Called(H)'
  BY <1>1, <1>2, CalledKept
<1> QED
  BY <1>1, <1>2, <1>3, <1>15, <1>16, <1>17 DEF Inv

\* The counts of va_area are those of the registers that parameters use.
LEMMA VaStarts ==
  ASSUME Scope, NEW H \in Traces, Plan(H, Last + 1, bystack), abi = "sysv", ~VaStart
  PROVE  LET i == Len(Params) + 1
         IN  IntegerParams = PG(H, i) /\ FlonumParams = PF(H, i) /\ Mem(H, i) = 0
<1> USE RegistersAssumption
<1>1. Last \in Nat /\ Len(Params) \in Nat /\ Len(Params) <= Last /\ DOMAIN Params = 1 .. Len(Params)
  <2>1. Last \in Nat /\ Len(Params) \in Nat /\ Last = Len(Params) + Len(call.more) /\ Len(call.more) \in Nat
        /\ DOMAIN Params = 1 .. Len(Params)
    BY ArgsOf DEF Scope
  <2> QED
    BY <2>1
<1>2. PICK n \in Nat : n = Len(Params)
  BY <1>1
<1>3. PICK m : m = Last + 1
  OBVIOUS
<1>4. n + 1 \in 1 .. m /\ n + 1 \in Nat /\ n + 1 - 1 = n /\ n + 1 <= Len(Params) + 1
  BY <1>1, <1>2, <1>3
<1>5. SysVPlan(H, m, bystack) /\ VaPlan(H, m)
  BY <1>3 DEF Plan
<1>6. SysVBefore(H, n + 1)
  BY <1>4, <1>5 DEF SysVPlan
<1>7. VaBefore(H, n + 1)
  BY <1>4, <1>5 DEF VaPlan
<1>8. /\ G(H, n + 1) = Upto(n, "gp") /\ Upto(n, "gp") = N(call.big) + IntegersUpto(n)
      /\ F(H, n + 1) = Upto(n, "fp") /\ Upto(n, "fp") = FlonumsUpto(n)
      /\ Mem(H, n + 1) = 0 /\ SmallUpto(n) = 0
  BY <1>4, <1>7 DEF VaBefore
<1>9. Upto(n, "gp") <= GpMax /\ Upto(n, "fp") <= FpMax
  <2>1. Upto(n, "gp") \in Nat /\ Upto(n, "fp") \in Nat
    BY UptoStep
  <2> QED
    BY <1>2, <2>1 DEF VaStart
<1>10. G(H, n + 1) \in Nat /\ F(H, n + 1) \in Nat /\ PG(H, n + 1) \in Nat /\ PF(H, n + 1) \in Nat
  BY <1>4, TraceTypes
<1>11. PG(H, n + 1) = G(H, n + 1)
  BY <1>6, <1>8, <1>9, <1>10 DEF SysVBefore, IsLesser
<1>12. PF(H, n + 1) = F(H, n + 1)
  BY <1>4, <1>6, <1>8, <1>9, <1>10 DEF SysVBefore, IsLesser
<1>13. IntegersUpto(n) = Cardinality({i \in DOMAIN Params : ~IsFlonum(Params[i])})
  <2>1. {i \in {k \in DOMAIN Params : ~IsFlonum(Params[k])} : i <= n} = {i \in DOMAIN Params : ~IsFlonum(Params[i])}
    BY <1>1, <1>2
  <2> QED
    BY <2>1 DEF IntegersUpto, CountUpto
<1>14. FlonumsUpto(n) = Cardinality({i \in DOMAIN Params : IsFlonum(Params[i])})
  <2>1. {i \in {k \in DOMAIN Params : IsFlonum(Params[k])} : i <= n} = {i \in DOMAIN Params : IsFlonum(Params[i])}
    BY <1>1, <1>2
  <2> QED
    BY <2>1 DEF FlonumsUpto, CountUpto
<1> QED
  BY <1>2, <1>8, <1>11, <1>12, <1>13, <1>14 DEF IntegerParams, FlonumParams

LEMMA ParamCounts ==
  ASSUME call \in Calls
  PROVE  IntegerParams \in Nat /\ FlonumParams \in Nat
<1>1. Len(Params) \in Nat /\ DOMAIN Params = 1 .. Len(Params)
  BY ArgsOf
<1>2. PICK n \in Nat : n = Len(Params)
  BY <1>1
<1>3. ASSUME NEW S, S \subseteq DOMAIN Params
      PROVE  Cardinality(S) \in Nat
  <2>1. IsFiniteSet(1 .. n)
    BY FS_Interval
  <2>2. IsFiniteSet(S)
    BY <1>1, <1>2, <1>3, <2>1, FS_Subset
  <2> QED
    BY <2>2, FS_CardinalityType
<1>4. Cardinality({i \in DOMAIN Params : ~IsFlonum(Params[i])}) \in Nat
  BY <1>3
<1>5. Cardinality({i \in DOMAIN Params : IsFlonum(Params[i])}) \in Nat
  BY <1>3
<1> QED
  BY <1>4, <1>5, NBig DEF IntegerParams, FlonumParams

\* FinishOffsets keeps the invariant.
LEMMA FinishOffsetsKeeps ==
  ASSUME Scope, NEW H \in Traces, Inv(H), FinishOffsets, UNCHANGED <<used, places>>
  PROVE  Inv(H)'
<1>1. TypeOK /\ UsedTypes /\ Laid(H) /\ Called(H) /\ Placing(H) /\ got = <<>> /\ pc = "offsets" /\ arg > Len(Params)
  BY DEF Inv, FinishOffsets
<1>2. /\ Settled /\ UNCHANGED <<depth, gpr, fpr, top, offset, home, got>> /\ pc' = "prologue" /\ arg' = 1
      /\ va' = [gp |-> IntegerParams, fp |-> FlonumParams, mem |-> 0] /\ gp' = N(call.big) /\ fp' = 0
  BY DEF FinishOffsets, Settled
<1>3. /\ Last \in Nat /\ Args' = Args /\ Params' = Params /\ Last' = Last /\ UsedTypes'
      /\ Plan(H, Last + 1, bystack) /\ stack \in Seq(Word) /\ Len(stack) \in Nat /\ Total \in Nat
      /\ PG(H, 1) = N(call.big) /\ PF(H, 1) = 0
  BY <1>1, <1>2, LaidFacts
<1>4. Len(Params) \in 0 .. Last /\ Len(Params) \in Nat /\ call \in Calls
  BY <1>1, Sizes
<1>5. arg = Len(Params) + 1
  BY <1>1, <1>4 DEF Placing
<1>6. Len(stack) = Total + Homes /\ WinMax \in Nat /\ WinMax > 0
  BY <1>1, RegistersAssumption DEF Called
<1>7. stack' \in Seq(Word) /\ Len(stack') = Len(stack) /\ \A k \in 1 .. Total : stack'[k] = stack[k]
  <2>1. CASE abi = "win" /\ call.big
    <3>1. stack' = [stack EXCEPT ![Len(stack)] = gpr[1]]
      BY <2>1 DEF FinishOffsets
    <3>2. gpr[1] \in Word
      <4>1. gpr \in [1 .. GpMax + WinMax -> Word] /\ 1 \in 1 .. GpMax + WinMax
        BY <1>1, <1>6, VariableTypes, RegistersAssumption, SMTT(30)
      <4> QED
        BY <4>1
    <3>3. Len(stack) = Total + WinMax
      BY <1>6, <2>1 DEF Homes
    <3>4. \A k \in 1 .. Total : k \in 1 .. Len(stack) /\ k # Len(stack)
      BY <1>3, <1>6, <3>3
    <3> QED
      BY <1>3, <3>1, <3>2, <3>4, Updated
  <2>2. CASE ~(abi = "win" /\ call.big)
    <3>1. stack' = stack
      BY <2>2 DEF FinishOffsets
    <3> QED
      BY <1>3, <3>1
  <2> QED
    BY <2>1, <2>2
<1>8. TypeOK'
  <2>1. gp' \in Nat /\ fp' \in Nat /\ arg' \in 0 .. Last + 1
    BY <1>2, <1>3, NBig
  <2>2. va' \in [gp : Nat, fp : Nat, mem : Nat]
    BY <1>2, <1>4, ParamCounts
  <2> QED
    BY <1>1, <1>2, <1>7, <2>1, <2>2, VariableTypes, TypesFollow
<1>9. Laid(H)' /\ Called(H)'
  BY <1>1, <1>2, <1>7, CalledKept
<1>10. Entering(H)'
  <2>1. (Known' <=> Known) /\ (VaKnown' <=> VaKnown) /\ UNCHANGED <<abi, call, bystack, offset>> /\ abi' = abi
    BY <1>2, KnownKept DEF Settled
  <2>2. ASSUME Known PROVE Framed(H, Len(Params) + 1)'
    <3>1. PICK m : m = Len(Params) + 1
      OBVIOUS
    <3>2. Framed(H, m)
      BY <1>1, <1>5, <2>2, <3>1 DEF Placing
    <3>3. Framed(H, m)'
      BY <2>1, <3>2, FramedKept
    <3> QED
      BY <1>3, <3>1, <3>3
  <2>3. Homed(arg)'
    BY <1>2 DEF Homed
  <2>4. gp' = PG(H, arg)' /\ fp' = PF(H, arg)'
    BY <1>2, <1>3 DEF PG, PF
  <2>5. IsLesser(gp, Position(arg) - 1, WinMax)'
    <3>1. Position(arg)' - 1 = N(call.big)
      BY <1>2, <2>1, NBig DEF Position
    <3> QED
      BY <1>2, <1>6, <3>1, NBig DEF IsLesser
  <2>6. ASSUME VaKnown PROVE VaAt(H, 1)'
    <3>1. PICK i : i = Len(Params) + 1
      OBVIOUS
    <3>2. va'.gp = PG(H, i) /\ va'.fp = PF(H, i) /\ va'.mem = Mem(H, i)
      BY <1>2, <1>3, <2>6, <3>1, VaStarts DEF VaKnown
    <3>3. (Len(Params) + 1)' = i
      BY <1>3, <3>1
    <3> QED
      BY <3>2, <3>3 DEF VaAt, PG, PF, Mem
  <2>7. arg' \in 1 .. Len(Params') + 1
    BY <1>2, <1>3, <1>4
  <2> QED
    BY <2>1, <2>2, <2>3, <2>4, <2>5, <2>6, <2>7 DEF Entering
<1> QED
  BY <1>1, <1>2, <1>3, <1>8, <1>9, <1>10 DEF Inv

-------------------------------------------------------------------------------
\* How many of the words of a parameter come from floating registers.
FromFpr(ty) == IF IsStruct(ty) THEN Fp1(ty) + (IF ty.size > 8 THEN Fp2(ty) ELSE 0) ELSE N(ty.kind = "float")

LEMMA RegisterTypes ==
  ASSUME TypeOK, NEW r \in Nat
  PROVE  Gpr(r) \in Word /\ Fpr(r) \in Word
<1> USE RegistersAssumption
<1>1. gpr \in [1 .. GpMax + WinMax -> Word] /\ fpr \in [1 .. FpMax + WinMax -> Word]
  BY VariableTypes
<1>2. /\ r < GpMax => r + 1 \in 1 .. GpMax + WinMax
      /\ r < FpMax => r + 1 \in 1 .. FpMax + WinMax
  OBVIOUS
<1> QED
  BY <1>1, <1>2, WordTypes DEF Gpr, Fpr

LEMMA StoredTypes ==
  ASSUME TypeOK, NEW ty \in Sized, NEW g \in Nat, NEW f \in Nat
  PROVE  /\ Stored(ty, g, f) \in Seq(Word) /\ FromFpr(ty) \in Nat /\ Len(Stored(ty, g, f)) - FromFpr(ty) \in Nat
<1>1. N(has_flonum(ty, 0, 8, 0)) \in {0, 1} /\ N(has_flonum(ty, 8, 16, 0)) \in {0, 1} /\ N(ty.kind = "float") \in {0, 1}
  BY DEF N
<1>2. Fp1(ty) \in {0, 1} /\ Fp2(ty) \in {0, 1}
  BY <1>1 DEF Fp1, Fp2
<1>3. f + Fp1(ty) \in Nat /\ g + 1 - Fp1(ty) \in Nat
  BY <1>2
<1>4. /\ Gpr(g) \in Word /\ Fpr(f) \in Word
      /\ Gpr(g + 1 - Fp1(ty)) \in Word /\ Fpr(f + Fp1(ty)) \in Word
  BY <1>3, RegisterTypes
<1>5. CASE IsStruct(ty) /\ ty.size > 8
  <2>4. PICK a \in Word : a = IF Fp1(ty) = 1 THEN Fpr(f) ELSE Gpr(g)
    BY <1>4
  <2>5. PICK b \in Word : b = IF Fp2(ty) = 1 THEN Fpr(f + Fp1(ty)) ELSE Gpr(g + 1 - Fp1(ty))
    BY <1>4
  <2>1. Stored(ty, g, f) = <<a, b>>
    BY <1>5, <2>4, <2>5 DEF Stored, IsStruct
  <2>2. FromFpr(ty) = Fp1(ty) + Fp2(ty)
    BY <1>5 DEF FromFpr
  <2>3. Fp1(ty) + Fp2(ty) \in 0 .. 2
    BY <1>2
  <2> QED
    BY <2>1, <2>2, <2>3
<1>6. CASE IsStruct(ty) /\ ~(ty.size > 8)
  <2>1. PICK a \in Word : Stored(ty, g, f) = <<a>>
    BY <1>4, <1>6 DEF Stored
  <2>2. FromFpr(ty) = Fp1(ty) + 0
    BY <1>6 DEF FromFpr
  <2>3. Fp1(ty) + 0 \in 0 .. 1
    BY <1>2
  <2> QED
    BY <2>1, <2>2, <2>3
<1>7. CASE ~IsStruct(ty)
  <2>1. PICK a \in Word : Stored(ty, g, f) = <<a>>
    BY <1>4, <1>7 DEF Stored
  <2>2. FromFpr(ty) \in 0 .. 1
    BY <1>1, <1>7 DEF FromFpr
  <2> QED
    BY <2>1, <2>2
<1> QED
  BY <1>5, <1>6, <1>7

\* The prologue counts the registers of a parameter as the pops do.
LEMMA FromFprPieces ==
  ASSUME NEW ty \in Sized, NEW g \in Nat, NEW f \in Nat, PopIn(ty, g, f)
  PROVE  FromFpr(ty) = Pieces(ty, "fp")
<1>1. ty.kind \in Kinds /\ ty.size \in Nat
  BY TypeFacts
<1>2. CASE ty.kind = "int"
  BY <1>2, PiecesOf DEF FromFpr, IsStruct, N
<1>3. CASE ty.kind = "float"
  BY <1>3, PiecesOf DEF FromFpr, IsStruct, N
<1>4. CASE ty.kind = "ldouble"
  BY <1>4, LongDoublePop
<1>5. CASE ty.kind = "struct"
  <2>1. ty.size <= 16 /\ Fp1(ty) \in {0, 1} /\ Fp2(ty) \in {0, 1}
    BY <1>5, StructPop, HalvesOf
  <2>2. CASE ty.size <= 8
    <3>1. Pieces(ty, "fp") = Fp1(ty) /\ FromFpr(ty) = Fp1(ty) + 0
      BY <1>1, <1>5, <2>2, PiecesOf DEF FromFpr, IsStruct
    <3> QED
      BY <2>1, <3>1
  <2>3. CASE ty.size > 8
    <3>1. Pieces(ty, "fp") = Fp1(ty) + Fp2(ty)
      BY <1>5, <2>1, <2>3, PiecesOf
    <3> QED
      BY <1>5, <2>3, <3>1 DEF FromFpr, IsStruct
  <2> QED
    BY <1>1, <2>2, <2>3
<1> QED
  BY <1>1, <1>2, <1>3, <1>4, <1>5 DEF Kinds

\* PrologueSysV keeps the invariant.
LEMMA PrologueSysVKeeps ==
  ASSUME Scope, NEW H \in Traces, Inv(H), PrologueSysV, UNCHANGED <<used, places>>
  PROVE  Inv(H)'
<1>1. /\ TypeOK /\ UsedTypes /\ Laid(H) /\ Called(H) /\ Entering(H) /\ got = <<>> /\ pc = "prologue"
      /\ abi = "sysv" /\ arg <= Len(Params)
  BY DEF Inv, PrologueSysV
<1>2. Settled /\ UNCHANGED <<pc, depth, stack, gpr, fpr, top, offset, va, got>> /\ arg' = arg + 1
  BY DEF PrologueSysV, Settled
<1>3. /\ Last \in Nat /\ Args' = Args /\ Params' = Params /\ Last' = Last /\ UsedTypes'
      /\ Plan(H, Last + 1, bystack)
  BY <1>1, <1>2, LaidFacts
<1>4. Len(Params) \in 0 .. Last /\ DOMAIN Params = 1 .. Len(Params)
  BY <1>1, Sizes
<1>5. PICK i \in 1 .. Len(Params) : i = arg
  BY <1>1, <1>4 DEF Entering
<1>6. PICK ty : ty = Params[i]
  OBVIOUS
<1>7. i \in 1 .. Last /\ i \in Nat /\ i + 1 \in Nat
  BY <1>3, <1>4
<1>8. ty = Args[i] /\ ty \in Sized
  BY <1>6, <1>7, ArgsOf DEF Scope, Sound
<1>9. gp \in Nat /\ fp \in Nat /\ offset[i] \in Nat /\ home \in [1 .. Len(Params) -> Seq(Word)]
  BY <1>1, <1>4, VariableTypes
<1>10. PICK m : m = Last + 1
  OBVIOUS
<1>11. i \in 1 .. m - 1 /\ SysVDecides(H, i, bystack) /\ Parts(H, i, bystack)
  <2>1. i \in 1 .. m - 1
    BY <1>3, <1>7, <1>10
  <2> QED
    BY <1>1, <1>3, <1>10, <2>1 DEF Plan, SysVPlan
<1>12. IF offset[i] > 0 THEN UNCHANGED <<home, gp, fp>>
       ELSE /\ home' = [home EXCEPT ![i] = Stored(ty, gp, fp)]
            /\ fp' = fp + FromFpr(ty) /\ gp' = gp + Len(Stored(ty, gp, fp)) - FromFpr(ty)
  BY <1>5, <1>6 DEF PrologueSysV, FromFpr
<1>13. Stored(ty, gp, fp) \in Seq(Word) /\ FromFpr(ty) \in Nat /\ Len(Stored(ty, gp, fp)) - FromFpr(ty) \in Nat
       /\ Len(Stored(ty, gp, fp)) \in Nat
  BY <1>1, <1>8, <1>9, StoredTypes
<1>14. gp' \in Nat /\ fp' \in Nat /\ home' \in [1 .. Len(Params) -> Seq(Word)]
  <2>1. CASE offset[i] > 0
    BY <1>9, <1>12, <2>1
  <2>2. CASE ~(offset[i] > 0)
    <3>1. gp + Len(Stored(ty, gp, fp)) - FromFpr(ty) \in Nat /\ fp + FromFpr(ty) \in Nat
      BY <1>9, <1>13
    <3> QED
      BY <1>9, <1>12, <1>13, <2>2, <3>1
  <2> QED
    BY <2>1, <2>2
<1>15. TypeOK'
  <2>1. arg' \in 0 .. Last + 1
    BY <1>2, <1>3, <1>5, <1>7
  <2> QED
    BY <1>1, <1>2, <1>4, <1>14, <2>1, VariableTypes, TypesFollow
<1>16. Laid(H)' /\ Called(H)'
  BY <1>1, <1>2, CalledKept
<1>17. ASSUME Known
       PROVE  gp' = PG(H, i + 1) /\ fp' = PF(H, i + 1) /\ Homed(i + 1)'
  <2>1. gp = PG(H, i) /\ fp = PF(H, i) /\ Framed(H, Len(Params) + 1) /\ Homed(i)
    BY <1>1, <1>5, <1>17 DEF Entering
  <2>2. offset[i] = IF i \in bystack THEN Mem(H, i) + 1 ELSE 0
    <3>1. PICK n : n = Len(Params) + 1
      OBVIOUS
    <3>2. i \in 1 .. n - 1
      BY <1>4, <3>1
    <3> QED
      BY <1>1, <2>1, <3>1, <3>2 DEF Framed
  <2>3. (offset[i] > 0) <=> i \in bystack
    <3>1. Mem(H, i) \in Nat
      BY <1>7, TraceTypes
    <3> QED
      BY <2>2, <3>1
  <2>4. ASSUME i \notin bystack
        PROVE  /\ gp' = PG(H, i + 1) /\ fp' = PF(H, i + 1) /\ home' = [home EXCEPT ![i] = Sent(i)]
    <3>1. PopIn(ty, gp, fp) /\ PG(H, i + 1) = gp + Pieces(ty, "gp") /\ PF(H, i + 1) = fp + Pieces(ty, "fp")
      BY <1>8, <1>11, <2>1, <2>4 DEF SysVDecides
    <3>2. Stored(ty, gp, fp) = Sent(i)
      <4>1. Loaded(H, i)
        BY <1>1, <1>10, <1>11, <2>4 DEF Called, InRegisters
      <4> QED
        BY <1>1, <1>8, <2>1, <4>1 DEF Loaded
    <3>3. Len(Sent(i)) = Words(ty)
      <4>1. Words(ty) \in Nat
        BY <1>8, TypeFacts
      <4> QED
        BY <1>8, <4>1 DEF Sent
    <3>4. Pieces(ty, "gp") + Pieces(ty, "fp") = Words(ty) /\ Pieces(ty, "gp") \in Nat /\ Pieces(ty, "fp") \in Nat
      BY <1>8, <1>9, <3>1, PiecesWords
    <3>5. FromFpr(ty) = Pieces(ty, "fp")
      BY <1>8, <1>9, <3>1, FromFprPieces
    <3>6. fp' = fp + FromFpr(ty) /\ gp' = gp + Words(ty) - FromFpr(ty)
      BY <1>12, <2>3, <2>4, <3>2, <3>3
    <3> QED
      BY <1>9, <1>12, <2>3, <2>4, <3>1, <3>2, <3>4, <3>5, <3>6, SMTT(30)
  <2>5. ASSUME i \in bystack
        PROVE  gp' = PG(H, i + 1) /\ fp' = PF(H, i + 1) /\ home' = home
    <3>1. PG(H, i + 1) = PG(H, i) /\ PF(H, i + 1) = PF(H, i)
      BY <1>11, <2>5 DEF SysVDecides
    <3> QED
      BY <1>12, <2>1, <2>3, <2>5, <3>1
  <2>6. ASSUME NEW j \in 1 .. i, j \notin bystack
        PROVE  home'[j] = Sent(j)
    <3>1. CASE j = i
      <4>1. home' = [home EXCEPT ![i] = Sent(i)]
        BY <2>4, <2>6, <3>1
      <4> QED
        BY <1>9, <3>1, <4>1
    <3>2. CASE j # i
      <4>1. j \in 1 .. i - 1 /\ j \in 1 .. Len(Params)
        BY <1>7, <3>2
      <4>2. home[j] = Sent(j)
        BY <1>1, <2>1, <2>6, <4>1 DEF Homed
      <4> QED
        BY <1>9, <2>4, <2>5, <3>2, <4>1, <4>2
    <3> QED
      BY <3>1, <3>2
  <2>7. Homed(i + 1)'
    <3>1. abi' = "sysv" /\ bystack' = bystack /\ \A j : Sent(j)' = Sent(j)
      BY <1>1, <1>2, <1>3 DEF Settled, Sent
    <3>2. \A j \in 1 .. i + 1 - 1 : j \in 1 .. i
      BY <1>7
    <3> QED
      BY <2>6, <3>1, <3>2 DEF Homed
  <2> QED
    BY <2>4, <2>5, <2>7
<1>18. Entering(H)'
  <2>1. (Known' <=> Known) /\ (VaKnown' <=> VaKnown) /\ UNCHANGED <<abi, call, bystack, offset>> /\ abi' = "sysv"
    BY <1>1, <1>2, KnownKept DEF Settled
  <2>2. ASSUME Known PROVE Framed(H, Len(Params) + 1)'
    <3>1. PICK n : n = Len(Params) + 1
      OBVIOUS
    <3>2. Framed(H, n)
      BY <1>1, <2>2, <3>1 DEF Entering
    <3>3. Framed(H, n)'
      BY <2>1, <3>2, FramedKept
    <3> QED
      BY <1>3, <3>1, <3>3
  <2>3. arg' = i + 1 /\ arg' \in 1 .. Len(Params') + 1
    BY <1>2, <1>3, <1>4, <1>5, <1>7
  <2>4. ASSUME Known PROVE gp' = PG(H, arg)' /\ fp' = PF(H, arg)' /\ Homed(arg)'
    <3>1. Homed(arg)'
      BY <1>17, <2>3, <2>4 DEF Homed
    <3> QED
      BY <1>17, <2>3, <2>4, <3>1 DEF PG, PF
  <2>5. ASSUME VaKnown PROVE VaAt(H, 1)'
    BY <1>1, <1>2, <1>3, <2>5 DEF Entering, VaAt, PG, PF, Mem
  <2> QED
    BY <2>1, <2>2, <2>3, <2>4, <2>5 DEF Entering
<1> QED
  BY <1>1, <1>2, <1>3, <1>15, <1>16, <1>18 DEF Inv

\* PrologueWin keeps the invariant.
LEMMA PrologueWinKeeps ==
  ASSUME Scope, NEW H \in Traces, Inv(H), PrologueWin, UNCHANGED <<used, places>>
  PROVE  Inv(H)'
<1>1. /\ TypeOK /\ UsedTypes /\ Laid(H) /\ Called(H) /\ Entering(H) /\ got = <<>> /\ pc = "prologue"
      /\ abi = "win" /\ arg <= Len(Params) /\ Known /\ ~VaKnown
  BY DEF Inv, PrologueWin, Known, VaKnown
<1>2. Settled /\ UNCHANGED <<pc, fp, depth, gpr, fpr, top, offset, home, va, got>> /\ arg' = arg + 1
  BY DEF PrologueWin, Settled
<1>3. /\ Last \in Nat /\ Args' = Args /\ Params' = Params /\ Last' = Last /\ UsedTypes'
      /\ Plan(H, Last + 1, bystack) /\ stack \in Seq(Word) /\ Len(stack) \in Nat /\ Total \in Nat
  BY <1>1, <1>2, LaidFacts
<1>4. Len(Params) \in 0 .. Last /\ DOMAIN Params = 1 .. Len(Params)
  BY <1>1, Sizes
<1>5. PICK i \in 1 .. Len(Params) : i = arg
  BY <1>1, <1>4 DEF Entering
<1>6. PICK p : p = Position(i)
  OBVIOUS
<1>7. /\ i \in 1 .. Last /\ i \in Nat /\ p \in Nat /\ p > 0 /\ Position(i + 1) = p + 1
      /\ WinMax \in Nat /\ WinMax > 0
  BY <1>3, <1>4, <1>6, NBig, RegistersAssumption DEF Position
<1>8. IsLesser(gp, p - 1, WinMax) /\ gp \in Nat /\ Homed(i) /\ offset[i] = p
  <2>1. PICK n : n = Len(Params) + 1
    OBVIOUS
  <2>2. i \in 1 .. n - 1 /\ Framed(H, n)
    BY <1>1, <1>4, <2>1 DEF Entering
  <2>3. offset[i] = p
    BY <1>1, <1>6, <2>2 DEF Framed
  <2>4. IsLesser(gp, p - 1, WinMax) /\ Homed(i)
    BY <1>1, <1>5, <1>6 DEF Entering
  <2> QED
    BY <1>1, <2>3, <2>4, VariableTypes
<1>9. PICK m : m = Last + 1
  OBVIOUS
<1>10. i \in 1 .. m - 1 /\ i \in 1 .. m
  BY <1>3, <1>7, <1>9
<1>11. (i \in bystack <=> p > WinMax) /\ (p > WinMax => Mem(H, i) = p - 1 - WinMax)
  <2>1. WinPlan(H, m, bystack)
    BY <1>1, <1>3, <1>9 DEF Plan
  <2> QED
    BY <1>6, <1>10, <2>1 DEF WinPlan, WinDecides, WinBefore
<1>12. Len(stack) = Total + WinMax /\ OnStack(H, 1) /\ InRegisters(H, m)
  BY <1>1, <1>9 DEF Called, Homes
<1>13. /\ p > WinMax => stack' = stack /\ gp' = gp
       /\ ~(p > WinMax) => /\ stack' = [stack EXCEPT ![Len(stack) + 1 - p] =
                                           IF Params[i].kind = "float" /\ call.more = <<>> THEN fpr[gp + 1] ELSE gpr[gp + 1]]
                           /\ gp' = gp + 1
  BY <1>5, <1>8 DEF PrologueWin
<1>14. ASSUME ~(p > WinMax)
       PROVE  gp + 1 = p /\ stack' = [stack EXCEPT ![Len(stack) + 1 - p] = Want(i, 1)]
  <2>1. gp + 1 = p
    BY <1>7, <1>8, <1>14 DEF IsLesser
  <2>2. Loaded(H, i)
    BY <1>10, <1>11, <1>12, <1>14 DEF InRegisters
  <2>3. gpr[p] = Want(i, 1) /\ (Args[i].kind = "float" => fpr[p] = Want(i, 1))
    BY <1>1, <1>6, <2>2 DEF Loaded
  <2>4. Params[i] = Args[i]
    BY <1>7, ArgsOf DEF Scope
  <2> QED
    BY <1>13, <1>14, <2>1, <2>3, <2>4
<1>15. Want(i, 1) \in Word
  <2>1. copies[i] \in Int
    <3>1. copies \in [1 .. Last -> Int]
      BY <1>1, Sizes DEF TypeOK
    <3> QED
      BY <1>7, <3>1
  <2> QED
    BY <1>7, <2>1, WordTypes DEF Want
<1>16. stack' \in Seq(Word) /\ Len(stack') = Len(stack) /\ gp' \in Nat
       /\ \A k \in 1 .. Len(stack) : k # Len(stack) + 1 - p => stack'[k] = stack[k]
  <2>1. CASE p > WinMax
    BY <1>3, <1>8, <1>13, <2>1
  <2>2. CASE ~(p > WinMax)
    <3>1. gp' \in Nat
      BY <1>8, <1>13, <2>2
    <3>2. PICK q : q = Len(stack) + 1 - p
      OBVIOUS
    <3>3. stack' = [stack EXCEPT ![q] = Want(i, 1)]
      BY <1>14, <2>2, <3>2
    <3>4. stack' \in Seq(Word) /\ Len(stack') = Len(stack) /\ \A k \in 1 .. Len(stack) : k # q => stack'[k] = stack[k]
      BY <1>3, <1>15, <3>3, Updated
    <3> QED
      BY <3>1, <3>2, <3>4
  <2> QED
    BY <2>1, <2>2
<1>17. stack'[Len(stack) + 1 - p] = Want(i, 1)
  <2>1. CASE ~(p > WinMax)
    <3>1. Len(stack) + 1 - p \in 1 .. Len(stack)
      BY <1>3, <1>7, <1>12, <2>1
    <3> QED
      BY <1>3, <1>14, <1>15, <2>1, <3>1, Updated
  <2>2. CASE p > WinMax
    <3>1. Len(stack) + 1 - p = Total - Mem(H, i)
      <4>1. Mem(H, i) = p - 1 - WinMax
        BY <1>11, <2>2
      <4> QED
        BY <1>3, <1>7, <1>12, <4>1
    <3>2. WordsAt(i, Total - Mem(H, i))
      BY <1>7, <1>11, <1>12, <2>2 DEF OnStack
    <3>3. WordsOf(i) = 1
      BY <1>1, <1>7, WordsOfArg DEF Scope, Sound
    <3>4. stack[Total - Mem(H, i) + 1 - 1] = Want(i, 1)
      BY <3>2, <3>3 DEF WordsAt
    <3>5. Total - Mem(H, i) + 1 - 1 = Total - Mem(H, i)
      <4>1. Mem(H, i) \in Nat
        BY <1>7, TraceTypes
      <4> QED
        BY <1>3, <4>1
    <3> QED
      BY <1>13, <2>2, <3>1, <3>4, <3>5
  <2> QED
    BY <2>1, <2>2
<1>18. \A k \in 1 .. Total : stack'[k] = stack[k]
  <2>1. CASE p > WinMax
    BY <1>13, <2>1
  <2>2. CASE ~(p > WinMax)
    <3>1. \A k \in 1 .. Total : k \in 1 .. Len(stack) /\ k # Len(stack) + 1 - p
      BY <1>3, <1>7, <1>12, <2>2
    <3> QED
      BY <1>16, <3>1
  <2> QED
    BY <2>1, <2>2
<1>19. TypeOK'
  <2>1. arg' \in 0 .. Last + 1
    BY <1>2, <1>3, <1>5, <1>7
  <2> QED
    BY <1>1, <1>2, <1>16, <2>1, VariableTypes, TypesFollow
<1>20. Laid(H)' /\ Called(H)'
  BY <1>1, <1>2, <1>16, <1>18, CalledKept
<1>21. Homed(i + 1)'
  <2>1. ASSUME NEW j \in 1 .. i
        PROVE  stack'[Len(stack) + 1 - Position(j)] = Want(j, 1)
    <3>1. CASE j = i
      BY <1>6, <1>17, <3>1
    <3>2. CASE j # i
      <4>1. j \in 1 .. i - 1 /\ Position(j) \in Nat /\ Position(j) > 0 /\ Position(j) < p
        BY <1>6, <1>7, <3>2, NBig DEF Position
      <4>2. stack[Len(stack) + 1 - Position(j)] = Want(j, 1)
        BY <1>1, <1>8, <4>1 DEF Homed
      <4>3. CASE p > WinMax
        BY <1>13, <4>2, <4>3
      <4>4. CASE ~(p > WinMax)
        <5>1. Len(stack) + 1 - Position(j) \in 1 .. Len(stack) /\ Len(stack) + 1 - Position(j) # Len(stack) + 1 - p
          BY <1>3, <1>7, <1>12, <4>1, <4>4
        <5> QED
          BY <1>16, <4>2, <5>1
      <4> QED
        BY <4>3, <4>4
    <3> QED
      BY <3>1, <3>2
  <2>2. abi' = "win" /\ \A j : Position(j)' = Position(j) /\ Want(j, 1)' = Want(j, 1)
    BY <1>1, <1>2, SettledKept DEF Settled
  <2>3. \A j \in 1 .. i + 1 - 1 : j \in 1 .. i
    BY <1>7
  <2> QED
    BY <1>16, <2>1, <2>2, <2>3 DEF Homed
<1>22. Entering(H)'
  <2>1. (Known' <=> Known) /\ (VaKnown' <=> VaKnown) /\ UNCHANGED <<abi, call, bystack, offset>> /\ abi' = "win"
    BY <1>1, <1>2, KnownKept DEF Settled
  <2>2. Framed(H, Len(Params) + 1)'
    <3>1. PICK n : n = Len(Params) + 1
      OBVIOUS
    <3>2. Framed(H, n)
      BY <1>1, <3>1 DEF Entering
    <3>3. Framed(H, n)'
      BY <2>1, <3>2, FramedKept
    <3> QED
      BY <1>3, <3>1, <3>3
  <2>3. arg' = i + 1 /\ arg' \in 1 .. Len(Params') + 1
    BY <1>2, <1>3, <1>4, <1>5, <1>7
  <2>4. Homed(arg)'
    BY <1>21, <2>3 DEF Homed
  <2>5. IsLesser(gp, Position(arg) - 1, WinMax)'
    <3>1. Position(arg)' - 1 = p
      <4>1. Position(arg)' = Position(i + 1)
        BY <2>1, <2>3 DEF Position
      <4> QED
        BY <1>7, <4>1
    <3>2. IsLesser(gp', p, WinMax)
      <4>1. CASE p > WinMax
        BY <1>7, <1>8, <1>13, <4>1 DEF IsLesser
      <4>2. CASE ~(p > WinMax)
        BY <1>7, <1>13, <1>14, <4>2 DEF IsLesser
      <4> QED
        BY <4>1, <4>2
    <3> QED
      BY <3>1, <3>2 DEF IsLesser
  <2> QED
    BY <1>1, <2>1, <2>2, <2>3, <2>4, <2>5 DEF Entering
<1> QED
  BY <1>1, <1>2, <1>3, <1>19, <1>20, <1>22 DEF Inv

\* FinishPrologue keeps the invariant.
LEMMA FinishPrologueKeeps ==
  ASSUME Scope, NEW H \in Traces, Inv(H), FinishPrologue, UNCHANGED <<used, places>>
  PROVE  Inv(H)'
<1>1. /\ TypeOK /\ UsedTypes /\ Laid(H) /\ Called(H) /\ Entering(H) /\ got = <<>> /\ arg > Len(Params)
  BY DEF Inv, FinishPrologue
<1>2. /\ Settled /\ UNCHANGED <<gp, fp, depth, stack, gpr, fpr, top, offset, home, va, got>>
      /\ pc' = "body" /\ arg' = 1
  BY DEF FinishPrologue, Settled
<1>3. /\ Last \in Nat /\ Args' = Args /\ Params' = Params /\ Last' = Last /\ UsedTypes'
  BY <1>1, <1>2, LaidFacts
<1>4. Len(Params) \in 0 .. Last /\ Len(Params) \in Nat /\ call \in Calls
  BY <1>1, Sizes
<1>5. arg = Len(Params) + 1
  BY <1>1, <1>4 DEF Entering
<1>6. TypeOK'
  <2>1. arg' \in 0 .. Last + 1
    BY <1>2, <1>3
  <2> QED
    BY <1>1, <1>2, <2>1, VariableTypes, TypesFollow
<1>7. Laid(H)' /\ Called(H)'
  BY <1>1, <1>2, CalledKept
<1>8. Running(H)'
  <2>1. (Known' <=> Known) /\ (VaKnown' <=> VaKnown) /\ UNCHANGED <<abi, call, bystack, offset>> /\ call' = call
    BY <1>2, KnownKept DEF Settled
  <2>2. ASSUME Known PROVE Framed(H, Len(Params) + 1)' /\ Homed(Len(Params) + 1)'
    <3>1. PICK n : n = Len(Params) + 1
      OBVIOUS
    <3>2. Framed(H, n) /\ Homed(n)
      BY <1>1, <1>5, <2>2, <3>1 DEF Entering
    <3>3. Framed(H, n)'
      BY <2>1, <3>2, FramedKept
    <3>4. Homed(n)'
      BY <1>1, <1>2, <3>2, HomedKept
    <3> QED
      BY <1>3, <3>1, <3>3, <3>4
  <2>3. ASSUME VaKnown PROVE VaAt(H, arg)' /\ Got(arg - 1)'
    <3>1. VaAt(H, 1)
      BY <1>1, <2>3 DEF Entering
    <3>2. VaAt(H, arg)'
      BY <1>2, <1>3, <3>1 DEF VaAt, PG, PF, Mem
    <3>3. got' = [k \in 1 .. 0 |-> Sent(Len(Params) + k)'] 
      BY <1>1, <1>2
    <3>4. Got(arg - 1)'
      BY <1>2, <3>3 DEF Got
    <3> QED
      BY <3>2, <3>4
  <2>4. arg' \in 1 .. Len(call.more)' + 1
    <3>1. Len(call.more) \in Nat
      BY <1>4, ArgsOf
    <3> QED
      BY <1>2, <2>1, <3>1
  <2> QED
    BY <2>1, <2>2, <2>3, <2>4 DEF Running
<1> QED
  BY <1>1, <1>2, <1>3, <1>6, <1>7, <1>8 DEF Inv

\* Return keeps the invariant.
LEMMA ReturnKeeps ==
  ASSUME Scope, NEW H \in Traces, Inv(H), Return, UNCHANGED <<used, places>>
  PROVE  Inv(H)'
<1>1. /\ TypeOK /\ UsedTypes /\ Laid(H) /\ Called(H) /\ Running(H) /\ pc = "body"
      /\ (abi = "win" \/ arg > Len(call.more))
  BY DEF Inv, Return
<1>2. /\ Settled /\ UNCHANGED <<arg, gp, fp, gpr, fpr, top, offset, home, va, got>> /\ pc' = "done"
      /\ stack' = Behind(args + copied + Homes) /\ depth' = depth - args - copied
  BY DEF Return, Settled, Homes
<1>3. /\ Last \in Nat /\ Args' = Args /\ Params' = Params /\ Last' = Last /\ UsedTypes'
      /\ stack \in Seq(Word) /\ Len(stack) \in Nat /\ copied \in Nat /\ args \in Nat
  BY <1>1, <1>2, LaidFacts
<1>4. call.temps \in Nat /\ Len(call.more) \in Nat
  BY ArgsOf DEF Scope
<1>5. Homes \in Nat /\ depth = call.temps + copied + args /\ Len(stack) = call.temps + copied + args + Homes
  BY <1>1, RegistersAssumption DEF Called, Total, Floor, Homes
<1>6. PICK n \in Nat : n = args + copied + Homes
  BY <1>3, <1>5
<1>7. n <= Len(stack) /\ Len(stack) - n = call.temps
  BY <1>3, <1>4, <1>5, <1>6
<1>8. /\ stack' \in Seq(Word) /\ Len(stack') = call.temps
      /\ \A k \in 1 .. call.temps : stack'[k] = stack[k]
  BY <1>1, <1>2, <1>6, <1>7, PoppedWords
<1>9. stack' = [k \in 1 .. call.temps |-> Temp]
  <2>1. \A k \in 1 .. call.temps : stack[k] = Temp
    BY <1>1 DEF Laid, Bottom
  <2>2. stack' \in [1 .. call.temps -> Word]
    BY <1>8
  <2> QED
    BY <1>8, <2>1, <2>2
<1>10. depth' = call.temps
  BY <1>2, <1>3, <1>4, <1>5, SMTT(30)
<1>11. TypeOK'
  <2>1. arg' \in 0 .. Last + 1
    BY <1>1, <1>2, <1>3 DEF TypeOK, Last
  <2>2. depth' \in Int
    BY <1>4, <1>10
  <2> QED
    BY <1>1, <1>2, <1>8, <2>1, <2>2, VariableTypes, TypesFollow
<1>12. Ended'
  <2>1. (VaKnown' <=> VaKnown) /\ call' = call
    BY <1>2, KnownKept DEF Settled
  <2>2. ASSUME VaKnown PROVE Got(Len(call.more))'
    <3>1. arg \in 1 .. Len(call.more) + 1 /\ abi = "sysv" /\ Got(arg - 1)
      BY <1>1, <2>2 DEF Running, VaKnown
    <3>2. arg - 1 = Len(call.more)
      BY <1>1, <1>4, <3>1
    <3>3. got = [k \in 1 .. Len(call.more) |-> Sent(Len(Params) + k)]
      BY <3>1, <3>2 DEF Got
    <3>4. \A i : Sent(i)' = Sent(i)
      BY <1>3 DEF Sent
    <3> QED
      BY <1>2, <1>3, <2>1, <3>3, <3>4 DEF Got
  <2>3. call.temps' = call.temps /\ Temp' = Temp
    BY <2>1 DEF Temp
  <2> QED
    BY <1>9, <1>10, <2>1, <2>2, <2>3 DEF Ended
<1> QED
  BY <1>1, <1>2, <1>3, <1>11, <1>12 DEF Inv

\* A stuttering step keeps the invariant.
LEMMA StutterKeeps ==
  ASSUME Scope, NEW H \in Traces, Inv(H), UNCHANGED <<vars, used, places>>
  PROVE  Inv(H)'
<1>1. TypeOK /\ UsedTypes
  BY DEF Inv
<1>2. /\ Settled
      /\ UNCHANGED <<pc, arg, gp, fp, depth, stack, gpr, fpr, top, offset, home, va, got>>
      /\ UNCHANGED <<abi, call, bystack, copies, copied, args, used, places>>
  BY DEF Settled, vars
<1>3. /\ Args' = Args /\ Params' = Params /\ Last' = Last /\ Floor' = Floor /\ Total' = Total /\ UsedTypes'
      /\ \A i : WordsOf(i)' = WordsOf(i) /\ Position(i)' = Position(i) /\ \A w : Want(i, w)' = Want(i, w)
  BY <1>1, <1>2, SettledKept
<1>4. (Known' <=> Known) /\ (VaKnown' <=> VaKnown) /\ \A i : Sent(i)' = Sent(i)
  BY <1>2, <1>3, KnownKept DEF Sent
<1>5. TypeOK'
  BY <1>1, <1>2, <1>3 DEF TypeOK, Word
<1>6. Last \in Nat /\ copied \in Nat /\ args \in Nat /\ call \in Calls /\ Floor \in Nat
  BY <1>1, Sizes
<1>7. \A m, B : Plan(H, m, B)' <=> Plan(H, m, B)
  BY <1>2, PlanKept
<1>8. \A m, B, u, p : AbiAt(H, m, B, u, p)' <=> AbiAt(H, m, B, u, p)
  BY <1>2, AbiKept
<1>9. \A m : /\ (\A i \in 1 .. m - 1 : Words(Args[i]) \in Nat) /\ Bottom(m) => Bottom(m)'
  <2>1. \A m : Bottom(m) => Floor <= Len(stack')
    BY <1>2 DEF Bottom
  <2> QED
    BY <1>2, <1>6, <2>1, BottomKept
<1>10. Laid(H) => Laid(H)'
  <2>1. Laid(H) => Floor <= Len(stack')
    BY <1>2 DEF Laid, Bottom
  <2> QED
    BY <1>2, <1>6, <2>1, LaidKept
<1>11. \A m : OnStack(H, m)' <=> OnStack(H, m)
  BY <1>2, <1>3 DEF OnStack, WordsAt, Mem
<1>12. \A m : ForRegisters(H, m)' <=> ForRegisters(H, m)
  BY <1>2, <1>3 DEF ForRegisters, WordsAt, Reg
<1>13. \A m : InRegisters(H, m)' <=> InRegisters(H, m)
  <2>1. \A j : Loaded(H, j)' <=> Loaded(H, j)
    BY <1>2, LoadedKept
  <2> QED
    BY <1>2, <2>1 DEF InRegisters
<1>14. \A m : (Framed(H, m)' <=> Framed(H, m)) /\ (Homed(m)' <=> Homed(m))
  <2>1. \A m : Framed(H, m)' <=> Framed(H, m)
    BY <1>2, FramedKept
  <2>2. \A m : Homed(m)' <=> Homed(m)
    BY <1>1, <1>2, HomedKept
  <2> QED
    BY <2>1, <2>2
<1>15. \A k : (VaAt(H, k)' <=> VaAt(H, k)) /\ (Got(k)' <=> Got(k))
  BY <1>2, <1>3, <1>4 DEF VaAt, Got, PG, PF, Mem
<1>16. pc = "classify" => Classifying(H)'
  <2>1. ASSUME pc = "classify" PROVE Classifying(H)'
    <3>1. Classifying(H)
      BY <2>1 DEF Inv
    <3>2. PICK m, B, u, p : m = arg /\ B = bystack /\ u = used /\ p = places
      OBVIOUS
    <3>3. Plan(H, m, B)' /\ AbiAt(H, m, B, u, p)'
      BY <1>7, <1>8, <3>1, <3>2 DEF Classifying
    <3>4. Bottom(m)'
      <4>1. m \in 1 .. Last + 1 /\ Bottom(m)
        BY <3>1, <3>2 DEF Classifying
      <4>2. \A i \in 1 .. m - 1 : i \in 1 .. Last
        BY <1>6, <4>1
      <4>3. \A i \in 1 .. m - 1 : Words(Args[i]) \in Nat
        BY <4>2, WordsOfArg DEF Scope, Sound
      <4> QED
        BY <1>9, <4>1, <4>3
    <3>5. m = arg' /\ B = bystack' /\ u = used' /\ p = places'
      BY <1>2, <3>2
    <3>6. Plan(H, arg, bystack)' /\ AbiAt(H, arg, bystack, used, places)' /\ Bottom(arg)'
      BY <3>3, <3>4, <3>5 DEF Bottom
    <3>7. G(H, arg)' = G(H, arg) /\ F(H, arg)' = F(H, arg) /\ Mem(H, arg)' = Mem(H, arg)
      BY <1>2 DEF G, F, Mem
    <3> QED
      BY <1>2, <1>3, <3>1, <3>6, <3>7 DEF Classifying
  <2> QED
    BY <2>1
<1>17. First(H) => First(H)'
  BY <1>2, <1>3, <1>11 DEF First, Mem
<1>18. Second(H) => Second(H)'
  BY <1>2, <1>3, <1>11, <1>12 DEF Second, Reg
<1>19. Popping(H) => Popping(H)'
  BY <1>2, <1>3, <1>11, <1>12, <1>13 DEF Popping, Reg, PG, PF, IsLesser
<1>20. Called(H) => Called(H)'
  BY <1>2, <1>3, <1>11, <1>13 DEF Called, Homes
<1>21. Placing(H) => Placing(H)'
  BY <1>2, <1>3, <1>4, <1>14 DEF Placing, FG, FF, Mem
<1>22. Entering(H) => Entering(H)'
  BY <1>2, <1>3, <1>4, <1>14, <1>15 DEF Entering, PG, PF, IsLesser
<1>23. Running(H) => Running(H)'
  BY <1>2, <1>3, <1>4, <1>14, <1>15 DEF Running
<1>24. Ended => Ended'
  BY <1>2, <1>4, <1>15 DEF Ended, Temp
<1> QED
  BY <1>2, <1>3, <1>5, <1>10, <1>16, <1>17, <1>18, <1>19, <1>20, <1>21, <1>22, <1>23, <1>24 DEF Inv

\* The words of an argument that stays on the stack, as the callee finds them.
LEMMA FoundOnStack ==
  ASSUME Scope, NEW H \in Traces, TypeOK, UsedTypes, Laid(H), Called(H), abi = "sysv", NEW i \in 1 .. Last, i \in bystack
  PROVE  AtWords(Mem(H, i), Words(Args[i])) = Sent(i)
<1>1. call \in Calls /\ ~EmptyStruct
  BY DEF Scope, Sound
<1>2. args \in Nat /\ Total \in Nat /\ args <= Total /\ Last \in Nat
  <2>1. args \in Nat /\ Floor \in Nat /\ Last \in Nat
    BY Sizes
  <2> QED
    BY <2>1 DEF Total
<1>3. Len(stack) = Total /\ OnStack(H, 1)
  <2>1. Homes = 0
    BY DEF Homes
  <2> QED
    BY <1>2, <2>1 DEF Called
<1>4. Plan(H, Last + 1, bystack) /\ Mem(H, Last + 1) <= args
  BY DEF Laid
<1>5. /\ Mem(H, i) \in Nat /\ Mem(H, Last + 1) \in Nat /\ WordsOf(i) \in Nat
      /\ Mem(H, i) + WordsOf(i) <= Mem(H, Last + 1)
  BY <1>4, Spots
<1>6. WordsOf(i) = Words(Args[i]) /\ ~ByReference(Args[i])
  BY <1>1, WordsOfArg
<1>7. WordsAt(i, Total - Mem(H, i))
  BY <1>2, <1>3 DEF OnStack
<1>8. ASSUME NEW k \in 1 .. Words(Args[i])
      PROVE  At(Mem(H, i) + k - 1) = <<i, k>>
  <2>1. stack[Total - Mem(H, i) + 1 - k] = <<i, k>>
    BY <1>6, <1>7 DEF WordsAt, Want
  <2>2. Mem(H, i) + k - 1 < Len(stack) /\ Len(stack) - (Mem(H, i) + k - 1) = Total - Mem(H, i) + 1 - k
    BY <1>2, <1>3, <1>4, <1>5, <1>6
  <2> QED
    BY <2>1, <2>2 DEF At
<1> QED
  BY <1>8 DEF AtWords, Sent

LEMMA AtTypes ==
  ASSUME TypeOK, NEW w \in Nat, NEW n \in Nat
  PROVE  AtWords(w, n) \in Seq(Word)
<1>1. stack \in Seq(Word) /\ Len(stack) \in Nat
  BY DEF TypeOK
<1>2. ASSUME NEW k \in 1 .. n
      PROVE  At(w + k - 1) \in Word
  <2>1. CASE w + k - 1 < Len(stack)
    <3>1. Len(stack) - (w + k - 1) \in 1 .. Len(stack)
      BY <1>1, <2>1
    <3> QED
      BY <1>1, <2>1, <3>1 DEF At
  <2>2. CASE ~(w + k - 1 < Len(stack))
    BY <2>2, WordTypes DEF At
  <2> QED
    BY <2>1, <2>2
<1> QED
  BY <1>2 DEF AtWords

\* What holds of 1 and of the number behind each that it holds of, holds of all up to m.
LEMMA UpTo ==
  ASSUME NEW m \in Nat, NEW S, 1 \in S, \A i \in 1 .. m - 1 : i \in S => i + 1 \in S
  PROVE  \A i \in 1 .. m : i \in S
<1> DEFINE R == OpToRel(<, Nat)
           Bad == {i \in 1 .. m : i \notin S}
<1> SUFFICES ASSUME Bad # {} PROVE FALSE
  OBVIOUS
<1>1. PICK b \in Bad : \A y \in Bad : ~ (<<y, b>> \in R)
  <2>1. IsWellFoundedOn(R, Nat)
    BY NatLessThanWellFounded
  <2>2. Bad \in SUBSET Nat
    OBVIOUS
  <2> HIDE DEF R, Bad
  <2> QED
    BY <2>1, <2>2, WFMin
<1>2. b \in 1 .. m /\ b # 1 /\ b - 1 \in 1 .. m - 1 /\ b - 1 \in 1 .. m /\ b \in Nat /\ b - 1 \in Nat
  OBVIOUS
<1>3. b - 1 \notin Bad
  <2>1. <<b - 1, b>> \in R
    BY <1>2 DEF OpToRel
  <2> QED
    BY <1>1, <2>1
<1>4. b - 1 \in S /\ (b - 1) + 1 = b
  BY <1>2, <1>3
<1> QED
  BY <1>2, <1>4

\* The place of an argument on the stack is odd when those below it with an odd number of
\* words are odd in number.
LEMMA PlaceParity ==
  ASSUME Scope, abi = "sysv", NEW H \in Traces, Plan(H, Last + 1, bystack), NEW k \in bystack
  PROVE  Mem(H, k) % 2 = Cardinality({j \in bystack : j < k /\ Words(Args[j]) % 2 = 1}) % 2
<1>1. Last \in Nat /\ bystack \subseteq 1 .. Last /\ k \in 1 .. Last + 1 /\ k \in Nat
  BY ArgsOf DEF Scope, Plan
<1> DEFINE O == {j \in bystack : Words(Args[j]) % 2 = 1}
           S == {i \in 1 .. Last + 1 : Mem(H, i) % 2 = CountUpto(O, i - 1) % 2}
<1>2. O \subseteq Nat \ {0} /\ \A j \in bystack : j \in Nat
  <2>1. \A j \in 1 .. Last : j \in Nat \ {0}
    BY <1>1
  <2> QED
    BY <1>1, <2>1, Zenon
<1>3. 1 \in S
  <2>1. Mem(H, 1) = 0 /\ 1 \in 1 .. Last + 1
    BY <1>1 DEF Plan, Started, Is, Mem
  <2>2. CountUpto(O, 0) = 0
    BY <1>2, CountStep
  <2> HIDE DEF O
  <2> QED
    BY <2>1, <2>2
<1>4. ASSUME NEW i \in 1 .. Last, i \in S PROVE i + 1 \in S
  <2>1. i \in Nat /\ i > 0 /\ i - 1 \in Nat /\ i + 1 \in 1 .. Last + 1 /\ (i + 1) - 1 = i
    BY <1>1
  <2>2. Mem(H, i) \in Nat /\ Mem(H, i + 1) \in Nat
    BY <2>1, TraceTypes
  <2>3. CountUpto(O, i) = CountUpto(O, i - 1) + N(i \in O) /\ CountUpto(O, i - 1) \in Nat
    <3> HIDE DEF O
    <3> QED
      BY <1>2, <2>1, CountStep
  <2>4. Parts(H, i, bystack) /\ WordsOf(i) = Words(Args[i]) /\ Words(Args[i]) \in Nat
    BY <1>1, WordsOfArg DEF Plan, Scope, Sound
  <2>5. Mem(H, i) % 2 = CountUpto(O, i - 1) % 2
    BY <1>4
  <2>6. i \in O <=> i \in bystack /\ Words(Args[i]) % 2 = 1
    OBVIOUS
  <2> HIDE DEF O
  <2>7. Mem(H, i + 1) % 2 = CountUpto(O, i) % 2
    <3>1. CASE i \in bystack
      BY <2>2, <2>3, <2>4, <2>5, <2>6, <3>1 DEF Parts, N
    <3>2. CASE i \notin bystack
      BY <2>2, <2>3, <2>4, <2>5, <2>6, <3>2 DEF Parts, N
    <3> QED
      BY <3>1, <3>2
  <2> QED
    BY <2>1, <2>7
<1>5. k \in S
  <2>1. Last + 1 \in Nat /\ \A i \in 1 .. (Last + 1) - 1 : i \in S => i + 1 \in S
    BY <1>1, <1>4
  <2> HIDE DEF S
  <2> QED
    BY <1>1, <1>3, <2>1, UpTo
<1>6. {j \in O : j <= k - 1} = {j \in bystack : j < k /\ Words(Args[j]) % 2 = 1}
  <2>1. \A j \in bystack : j <= k - 1 <=> j < k
    BY <1>1, <1>2
  <2> QED
    BY <2>1, Zenon
<1> QED
  BY <1>5, <1>6 DEF CountUpto

\* VaArg keeps the invariant.
LEMMA VaArgKeeps ==
  ASSUME Scope, NEW H \in Traces, Inv(H), VaArg, UNCHANGED <<used, places>>
  PROVE  Inv(H)'
<1>1. /\ TypeOK /\ UsedTypes /\ Laid(H) /\ Called(H) /\ Running(H) /\ pc = "body" /\ abi = "sysv"
      /\ arg <= Len(call.more)
  BY DEF Inv, VaArg
<1>2. Settled /\ UNCHANGED <<pc, gp, fp, depth, stack, gpr, fpr, top, offset, home>> /\ arg' = arg + 1
  BY DEF VaArg, Settled
<1>3. /\ Last \in Nat /\ Args' = Args /\ Params' = Params /\ Last' = Last /\ UsedTypes'
      /\ Plan(H, Last + 1, bystack)
  BY <1>1, <1>2, LaidFacts
<1>4. /\ Len(Params) \in Nat /\ Len(call.more) \in Nat /\ Last = Len(Params) + Len(call.more) /\ call \in Calls
  BY ArgsOf DEF Scope
<1>5. PICK a \in 1 .. Len(call.more) : a = arg
  BY <1>1, <1>4 DEF Running
<1>6. PICK i : i = Len(Params) + a
  OBVIOUS
<1>7. i \in 1 .. Last /\ i \in Nat /\ i + 1 \in Nat /\ i + 1 = Len(Params) + (a + 1) /\ a \in Nat
  BY <1>4, <1>6
<1>8. PICK ty : ty = Args[i]
  OBVIOUS
<1>9. ty = call.more[arg] /\ ty \in Sized /\ Words(ty) \in Nat
  <2>1. ty = call.more[arg]
    BY <1>4, <1>5, <1>6, <1>8, ArgsOf
  <2>2. ty \in Sized
    BY <1>7, <1>8, ArgsOf DEF Scope, Sound
  <2> QED
    BY <2>1, <2>2, TypeFacts
<1>10. va \in [gp : Nat, fp : Nat, mem : Nat] /\ got \in Seq(Seq(Word))
  BY <1>1, VariableTypes
<1>11. PICK g \in Nat, f \in Nat, u \in Nat : va = [gp |-> g, fp |-> f, mem |-> u]
  BY <1>10
<1>20. PICK w \in Nat : w = VaMem(ty)
  BY <1>11 DEF VaMem
<1>12. PICK n \in Nat : n = Words(ty)
  BY <1>9
<1>13. IF ty.kind = "int" /\ g < GpMax
         THEN got' = Append(got, <<Gpr(g)>>) /\ va' = [gp |-> g + 1, fp |-> f, mem |-> u]
       ELSE IF IsFlonum(ty) /\ f < FpMax
         THEN got' = Append(got, [k \in 1 .. n |-> Fpr(f + k - 1)]) /\ va' = [gp |-> g, fp |-> f + 1, mem |-> u]
       ELSE got' = Append(got, AtWords(w, n)) /\ va' = [gp |-> g, fp |-> f, mem |-> w + n]
  BY <1>9, <1>11, <1>12, <1>20 DEF VaArg
<1>14. /\ <<Gpr(g)>> \in Seq(Word) /\ AtWords(w, n) \in Seq(Word)
       /\ [k \in 1 .. n |-> Fpr(f + k - 1)] \in Seq(Word)
  <2>1. <<Gpr(g)>> \in Seq(Word)
    BY <1>1, RegisterTypes
  <2>2. AtWords(w, n) \in Seq(Word)
    BY <1>1, AtTypes
  <2>3. ASSUME NEW k \in 1 .. n PROVE Fpr(f + k - 1) \in Word
    <3>1. f + k - 1 \in Nat
      OBVIOUS
    <3> QED
      BY <1>1, <3>1, RegisterTypes
  <2> QED
    BY <2>1, <2>2, <2>3
<1>15. got' \in Seq(Seq(Word)) /\ va' \in [gp : Nat, fp : Nat, mem : Nat]
  <2>1. CASE ty.kind = "int" /\ g < GpMax
    <3>1. got' = Append(got, <<Gpr(g)>>) /\ va' = [gp |-> g + 1, fp |-> f, mem |-> u]
      BY <1>13, <2>1
    <3> QED
      BY <1>10, <1>14, <3>1
  <2>2. CASE ~(ty.kind = "int" /\ g < GpMax) /\ IsFlonum(ty) /\ f < FpMax
    <3>1. got' = Append(got, [k \in 1 .. n |-> Fpr(f + k - 1)]) /\ va' = [gp |-> g, fp |-> f + 1, mem |-> u]
      BY <1>13, <2>2
    <3> QED
      BY <1>10, <1>14, <3>1
  <2>3. CASE ~(ty.kind = "int" /\ g < GpMax) /\ ~(IsFlonum(ty) /\ f < FpMax)
    <3>1. got' = Append(got, AtWords(w, n)) /\ va' = [gp |-> g, fp |-> f, mem |-> w + n]
      BY <1>13, <2>3
    <3> QED
      BY <1>10, <1>14, <3>1
  <2> QED
    BY <2>1, <2>2, <2>3
<1>16. TypeOK'
  <2>1. arg' \in 0 .. Last + 1
    BY <1>2, <1>4, <1>5
  <2> QED
    BY <1>1, <1>2, <1>15, <2>1, VariableTypes, TypesFollow
<1>17. Laid(H)' /\ Called(H)'
  BY <1>1, <1>2, CalledKept
<1>18. ASSUME VaKnown
       PROVE  /\ got' = Append(got, Sent(i))
              /\ va'.gp = PG(H, i + 1) /\ va'.fp = PF(H, i + 1) /\ va'.mem = Mem(H, i + 1)
  <2>0. g = PG(H, i) /\ f = PF(H, i) /\ u = Mem(H, i) /\ ~VaTypes /\ ~VaAligned
    BY <1>1, <1>5, <1>6, <1>11, <1>18 DEF Running, VaAt, VaKnown
  <2>11. i \in bystack => w = u
    <3> SUFFICES ASSUME i \in bystack, Aligned16(ty) PROVE u % 2 = 0
      BY <1>11, <1>20 DEF VaMem
    <3>1. u % 2 # 1
      BY <1>1, <1>3, <1>8, <2>0, PlaceParity DEF VaAligned
    <3> QED
      BY <3>1
  <2>1. g = PG(H, i) /\ f = PF(H, i) /\ (i \in bystack => w = Mem(H, i)) /\ u = Mem(H, i) /\ ~VaTypes
    BY <2>0, <2>11
  <2>2. PICK m : m = Last + 1
    OBVIOUS
  <2>3. i \in 1 .. m - 1
    BY <1>3, <1>7, <2>2
  <2>4. SysVDecides(H, i, bystack) /\ Parts(H, i, bystack)
    BY <1>1, <1>3, <2>2, <2>3 DEF Plan, SysVPlan
  <2>5. WordsOf(i) = n
    BY <1>1, <1>4, <1>7, <1>8, <1>12, WordsOfArg DEF Scope, Sound
  <2>6. /\ i \in bystack => /\ ~PopIn(ty, g, f) /\ AtWords(w, n) = Sent(i)
                            /\ PG(H, i + 1) = g /\ PF(H, i + 1) = f /\ Mem(H, i + 1) = w + n
        /\ i \notin bystack => /\ PopIn(ty, g, f) /\ Stored(ty, g, f) = Sent(i)
                               /\ PG(H, i + 1) = g + Pieces(ty, "gp") /\ PF(H, i + 1) = f + Pieces(ty, "fp")
                               /\ Mem(H, i + 1) = u
    <3>1. CASE i \in bystack
      <4>1. AtWords(w, n) = Sent(i)
        BY <1>1, <1>7, <1>8, <1>12, <2>1, <3>1, FoundOnStack
      <4> QED
        BY <1>8, <2>1, <2>4, <2>5, <3>1, <4>1 DEF SysVDecides, Parts
    <3>2. CASE i \notin bystack
      <4>1. Loaded(H, i)
        BY <1>1, <2>2, <2>3, <3>2 DEF Called, InRegisters
      <4>2. Stored(ty, g, f) = Sent(i)
        BY <1>1, <1>8, <2>1, <4>1 DEF Loaded
      <4> QED
        BY <1>8, <2>1, <2>4, <3>2, <4>2 DEF SysVDecides, Parts
    <3> QED
      BY <3>1, <3>2
  <2>7. ty.kind \in Kinds
    BY <1>9, TypeFacts
  <2>8. CASE ty.kind = "int"
    <3>1. (PopIn(ty, g, f) <=> g < GpMax) /\ Pieces(ty, "gp") = 1 /\ Pieces(ty, "fp") = 0
      BY <1>9, <2>8, IntPop, PiecesOf
    <3>2. Stored(ty, g, f) = <<Gpr(g)>>
      BY <2>8 DEF Stored, IsStruct
    <3>3. ~IsFlonum(ty)
      BY <2>8 DEF IsFlonum
    <3>4. CASE g < GpMax
      <4>1. got' = Append(got, <<Gpr(g)>>) /\ va' = [gp |-> g + 1, fp |-> f, mem |-> u]
        BY <1>13, <2>8, <3>4
      <4>2. /\ Stored(ty, g, f) = Sent(i) /\ Mem(H, i + 1) = u
            /\ PG(H, i + 1) = g + Pieces(ty, "gp") /\ PF(H, i + 1) = f + Pieces(ty, "fp")
        BY <2>6, <3>1, <3>4
      <4> QED
        BY <3>1, <3>2, <4>1, <4>2
    <3>5. CASE ~(g < GpMax)
      <4>1. got' = Append(got, AtWords(w, n)) /\ va' = [gp |-> g, fp |-> f, mem |-> w + n]
        BY <1>13, <3>3, <3>5
      <4> QED
        BY <2>6, <3>1, <3>5, <4>1
    <3> QED
      BY <3>4, <3>5
  <2>9. CASE ty.kind = "float"
    <3>1. (PopIn(ty, g, f) <=> f < FpMax) /\ Pieces(ty, "gp") = 0 /\ Pieces(ty, "fp") = 1 /\ n = 1
      BY <1>9, <1>12, <2>9, FloatPop, PiecesOf, TypeFacts
    <3>2. Stored(ty, g, f) = <<Fpr(f)>>
      BY <2>9 DEF Stored, IsStruct
    <3>3. IsFlonum(ty) /\ ty.kind # "int"
      BY <2>9 DEF IsFlonum
    <3>4. CASE f < FpMax
      <4>1. got' = Append(got, [k \in 1 .. n |-> Fpr(f + k - 1)]) /\ va' = [gp |-> g, fp |-> f + 1, mem |-> u]
        BY <1>13, <3>3, <3>4
      <4>2. [k \in 1 .. n |-> Fpr(f + k - 1)] = <<Fpr(f)>>
        <5>1. \A k \in 1 .. 1 : f + k - 1 = f
          OBVIOUS
        <5> QED
          BY <3>1, <5>1
      <4>3. /\ Stored(ty, g, f) = Sent(i) /\ Mem(H, i + 1) = u
            /\ PG(H, i + 1) = g + Pieces(ty, "gp") /\ PF(H, i + 1) = f + Pieces(ty, "fp")
        BY <2>6, <3>1, <3>4
      <4> QED
        BY <3>1, <3>2, <4>1, <4>2, <4>3
    <3>5. CASE ~(f < FpMax)
      <4>1. got' = Append(got, AtWords(w, n)) /\ va' = [gp |-> g, fp |-> f, mem |-> w + n]
        BY <1>13, <3>3, <3>5
      <4> QED
        BY <2>6, <3>1, <3>5, <4>1
    <3> QED
      BY <3>4, <3>5
  <2>10. CASE ty.kind \in {"ldouble", "struct"}
    <3>1. ~(n \in {1, 2})
      <4>1. a \in DOMAIN call.more /\ ty = call.more[a]
        BY <1>4, <1>5, <1>9, ArgsOf
      <4> QED
        BY <1>12, <2>1, <2>10, <4>1 DEF VaTypes
    <3>2. ty.kind = "struct" /\ ty.size > 16 /\ ty.size \in Nat
      <4>1. ty.kind = "ldouble" => n = 2
        BY <1>9, <1>12, TypeFacts
      <4>2. ty.size \in Nat /\ n # 0 /\ (n <= 2 <=> ty.size <= 16)
        BY <1>9, <1>12, TypeFacts
      <4> QED
        BY <2>10, <3>1, <4>1, <4>2
    <3>3. ~PopIn(ty, g, f)
      <4>1. PopIn(ty, g, f) => ty.size <= 16
        BY <1>9, <1>11, <3>2, StructPop
      <4> QED
        BY <3>2, <4>1
    <3>4. ~IsFlonum(ty) /\ ty.kind # "int"
      BY <3>2 DEF IsFlonum
    <3>5. got' = Append(got, AtWords(w, n)) /\ va' = [gp |-> g, fp |-> f, mem |-> w + n]
      BY <1>13, <3>4
    <3> QED
      BY <2>6, <3>3, <3>5
  <2> QED
    BY <2>7, <2>8, <2>9, <2>10 DEF Kinds
<1>19. Running(H)'
  <2>1. (Known' <=> Known) /\ (VaKnown' <=> VaKnown) /\ UNCHANGED <<abi, call, bystack, offset>> /\ call' = call
    BY <1>2, KnownKept DEF Settled
  <2>2. ASSUME Known PROVE Framed(H, Len(Params) + 1)' /\ Homed(Len(Params) + 1)'
    <3>1. PICK q : q = Len(Params) + 1
      OBVIOUS
    <3>2. Framed(H, q) /\ Homed(q)
      BY <1>1, <2>2, <3>1 DEF Running
    <3>3. Framed(H, q)'
      BY <2>1, <3>2, FramedKept
    <3>4. Homed(q)'
      BY <1>1, <1>2, <3>2, HomedKept
    <3> QED
      BY <1>3, <3>1, <3>3, <3>4
  <2>3. arg' = a + 1 /\ arg' \in 1 .. Len(call.more)' + 1
    BY <1>2, <1>4, <1>5, <2>1
  <2>4. ASSUME VaKnown PROVE VaAt(H, arg)' /\ Got(arg - 1)'
    <3>1. VaAt(H, arg)'
      <4>1. (Len(Params) + arg)' = i + 1
        BY <1>3, <1>7, <2>3
      <4> QED
        BY <1>18, <2>4, <4>1 DEF VaAt, PG, PF, Mem
    <3>2. got = [k \in 1 .. a - 1 |-> Sent(Len(Params) + k)]
      BY <1>1, <1>5, <2>4 DEF Running, Got
    <3>3. got' = [k \in 1 .. a |-> Sent(Len(Params) + k)]
      <4>1. got' = Append(got, Sent(Len(Params) + a))
        BY <1>6, <1>18, <2>4
      <4> DEFINE sent(k) == Sent(Len(Params) + k)
      <4>2. got = [k \in 1 .. a - 1 |-> sent(k)] /\ got' = Append(got, sent(a))
        BY <3>2, <4>1
      <4> HIDE DEF sent
      <4>3. got' = [k \in 1 .. a |-> sent(k)]
        BY <1>7, <4>2
      <4> QED
        BY <4>3 DEF sent
    <3>4. \A k : Sent(k)' = Sent(k)
      BY <1>3 DEF Sent
    <3>5. arg' - 1 = a
      BY <1>7, <2>3
    <3> QED
      BY <1>3, <3>1, <3>3, <3>4, <3>5 DEF Got
  <2> QED
    BY <2>1, <2>2, <2>3, <2>4 DEF Running
<1> QED
  BY <1>1, <1>2, <1>3, <1>16, <1>17, <1>19 DEF Inv

\* Assign gives places and counts of the right types.
LEMMA AssignTypes ==
  ASSUME Scope, UsedTypes, arg \in 1 .. Last, Assign
  PROVE  UsedTypes' /\ Len(places') = Len(places) + 1
<1>1. PICK ty : ty = Args[arg]
  OBVIOUS
<1>2. ty \in ArgTypes /\ Words(ty) \in Nat
  <2>1. Args[arg] \in ArgTypes
    BY ArgsOf DEF Scope
  <2>2. Words(Args[arg]) \in Nat
    BY WordsOfArg DEF Scope, Sound
  <2> QED
    BY <1>1, <2>1, <2>2
<1>3. used \in [gp : Nat, fp : Nat, mem : Nat] /\ places \in Seq(Seq(AbiWord))
  BY DEF UsedTypes
<1>4. Needs(ty, "gp") \in Nat /\ Needs(ty, "fp") \in Nat
  <2>1. 1 \in Nat
    OBVIOUS
  <2> QED
    BY <1>2, <2>1, ClassCounts
<1>5. NextWord(ty) \in Nat
  BY <1>3 DEF NextWord
<1>6. used' \in [gp : Nat, fp : Nat, mem : Nat]
  <2>1. CASE Available(ty)
    <3>1. used' = [used EXCEPT !.gp = @ + Needs(ty, "gp"), !.fp = @ + Needs(ty, "fp")]
      BY <1>1, <2>1 DEF Assign
    <3>2. PICK ng \in Nat, nf \in Nat : ng = Needs(ty, "gp") /\ nf = Needs(ty, "fp")
      BY <1>4
    <3>3. used' = [used EXCEPT !.gp = @ + ng, !.fp = @ + nf]
      BY <3>1, <3>2
    <3>4. used.gp + ng \in Nat /\ used.fp + nf \in Nat
      BY <1>3, <3>2
    <3> QED
      BY <1>3, <3>3, <3>4
  <2>2. CASE ~Available(ty)
    <3>1. used' = [used EXCEPT !.mem = NextWord(ty) + Words(ty)]
      BY <1>1, <2>2 DEF Assign
    <3> QED
      BY <1>2, <1>3, <1>5, <3>1
  <2> QED
    BY <2>1, <2>2
<1>7. ASSUME NEW e \in 1 .. Words(ty)
      PROVE  Place(ty, e) \in AbiWord
  <2>1. Class(ty, e) \in {"gp", "fp"} /\ \A c : EarlierWords(ty, e, c) \in Nat
    <3>1. e \in Nat
      BY <1>2
    <3> QED
      BY <1>2, <3>1, ClassCounts
  <2>2. used.gp \in Nat /\ used.fp \in Nat
    BY <1>3
  <2>3. PICK c \in {"gp", "fp"} : c = Class(ty, e)
    BY <2>1
  <2>4. PICK n \in Nat : n = EarlierWords(ty, e, c)
    BY <2>1
  <2>5. used[c] \in Nat
    <3>1. CASE c = "gp"
      BY <2>2, <3>1
    <3>2. CASE c = "fp"
      BY <2>2, <3>2
    <3> QED
      BY <3>1, <3>2
  <2>6. CASE Available(ty)
    <3>1. Place(ty, e) = <<c, used[c] + n>>
      BY <2>3, <2>4, <2>6 DEF Place
    <3> QED
      BY <2>5, <3>1 DEF AbiWord
  <2>7. CASE ~Available(ty)
    <3>1. Place(ty, e) = <<"mem", NextWord(ty) + e - 1>> /\ NextWord(ty) + e - 1 \in Nat
      BY <1>2, <1>5, <2>7 DEF Place
    <3> QED
      BY <3>1 DEF AbiWord
  <2> QED
    BY <2>6, <2>7
<1>8. [e \in 1 .. Words(ty) |-> Place(ty, e)] \in Seq(AbiWord)
  BY <1>2, <1>7
<1>9. places' = Append(places, [e \in 1 .. Words(ty) |-> Place(ty, e)])
  BY <1>1 DEF Assign
<1> QED
  BY <1>3, <1>6, <1>8, <1>9 DEF UsedTypes, AbiWord

\* Classify keeps the invariant, with a trace that goes one argument further.
LEMMA ClassifyKeeps ==
  ASSUME Scope, NEW H \in Traces, Inv(H), Classify, Assign
  PROVE  \E K \in Traces : Inv(K)'
<1>1. TypeOK /\ UsedTypes /\ Classifying(H) /\ got = <<>> /\ pc = "classify" /\ arg <= Last
  BY DEF Inv, Classify, Last
<1>2. /\ UNCHANGED <<abi, call, pc, gpr, fpr, top, offset, home, va, got>> /\ UNCHANGED <<abi, call>> /\ arg' = arg + 1
      /\ Args' = Args /\ Params' = Params /\ Last' = Last
  BY CallKept DEF Classify
<1>3. /\ Last \in Nat /\ DOMAIN Args = 1 .. Last /\ call \in Calls /\ call.temps \in Nat
      /\ copied \in Nat /\ args \in Nat /\ Floor \in Nat /\ stack \in Seq(Word)
  BY <1>1, Sizes
<1>4. PICK i \in 1 .. Last : i = arg
  BY <1>1, <1>3 DEF Classifying
<1>5. i \in Nat /\ i > 0 /\ i + 1 \in Nat /\ i \in 1 .. i /\ i + 1 \in 1 .. Last + 1 /\ i + 1 - 1 = i
  BY <1>3
<1>6. PICK A : A = bystack
  OBVIOUS
<1>7. PICK B : B = bystack'
  OBVIOUS
<1>8. PICK ty : ty = Args[i]
  OBVIOUS
<1>9. /\ Plan(H, i, A) /\ AbiAt(H, i, A, used, places) /\ Len(places) = i - 1 /\ Bottom(i)
      /\ gp = G(H, i) /\ (abi = "sysv" => fp = F(H, i)) /\ args = Mem(H, i) /\ Len(stack) = Floor /\ depth = Floor
  BY <1>1, <1>4, <1>6 DEF Classifying
<1>10. PICK place : place = IF abi = "win" THEN WinPlace(gp) ELSE PushPlace(ty, gp, fp)
  OBVIOUS
<1>11. PICK copy : copy = IF ByReference(ty) THEN Downwards(i) ELSE <<>>
  OBVIOUS
<1>12. /\ gp' = place.gp /\ fp' = place.fp
       /\ B = IF place.in THEN A ELSE A \union {i}
       /\ args' = args + (IF place.in THEN 0 ELSE IF abi = "win" THEN 1 ELSE Words(ty))
       /\ stack' = stack \o copy /\ depth' = depth + Len(copy) /\ copied' = copied + Len(copy)
       /\ copies' = IF ByReference(ty) THEN [copies EXCEPT ![i] = depth + Len(copy)] ELSE copies
  BY <1>4, <1>6, <1>7, <1>8, <1>10, <1>11 DEF Classify
<1>13. place.in <=> InRegister(H, i)
  <2>1. CASE abi = "win"
    <3>1. place = Fit(gp < WinMax, gp + 1, 0)
      BY <1>10, <2>1 DEF WinPlace
    <3>2. place.in <=> gp < WinMax
      BY <3>1 DEF Fit
    <3> QED
      BY <1>9, <2>1, <3>2 DEF InRegister
  <2>2. CASE abi # "win"
    <3>1. abi = "sysv"
      BY <2>2 DEF Scope
    <3> QED
      BY <1>8, <1>9, <1>10, <2>2, <3>1 DEF InRegister, PushIn
  <2> QED
    BY <2>1, <2>2
<1>14. i \notin A /\ (i \in B <=> ~InRegister(H, i)) /\ A \subseteq B /\ B \subseteq A \union {i}
  <2>1. A \subseteq 1 .. i - 1
    BY <1>9 DEF Plan
  <2>2. i \notin A
    BY <1>5, <2>1
  <2> QED
    BY <1>12, <1>13, <2>2
<1>15. PICK K \in Traces : (\A j \in 1 .. i : Same(H, K, j)) /\ Follows(K, i, B) /\ Plan(K, i + 1, B)
  BY <1>9, <1>14, PlanGoesOn
<1>16. Same(H, K, i)
  BY <1>5, <1>15
<1>17. AbiAt(K, i + 1, B, used', places')
  <2>1. Plan(K, i, A) /\ AbiAt(K, i, A, used, places)
    BY <1>5, <1>9, <1>15, PlanSame, AbiSame
  <2> QED
    BY <1>1, <1>4, <1>9, <1>14, <1>15, <2>1, AbiStep
<1>18. UsedTypes' /\ Len(places') = i
  <2>1. UsedTypes' /\ Len(places') = Len(places) + 1
    BY <1>1, <1>4, AssignTypes
  <2> QED
    BY <1>5, <1>9, <2>1
<1>19. PICK n \in Nat : /\ copy \in [1 .. n -> Word] /\ Len(copy) = n
                        /\ ByReference(ty) => n = Words(ty) /\ copy = Downwards(i)
  <2>1. Downwards(i) \in [1 .. Words(ty) -> Word] /\ Words(ty) \in Nat
    BY <1>1, <1>8, PushedWords
  <2>2. CASE ByReference(ty)
    <3>1. copy \in [1 .. Words(ty) -> Word] /\ Len(copy) = Words(ty)
      BY <1>11, <2>1, <2>2
    <3> QED
      BY <1>11, <2>1, <2>2, <3>1
  <2>3. CASE ~ByReference(ty)
    <3>1. copy = <<>>
      BY <1>11, <2>3
    <3>2. copy \in [1 .. 0 -> Word] /\ Len(copy) = 0
      BY <3>1
    <3> QED
      BY <2>3, <3>2
  <2> QED
    BY <2>2, <2>3
<1>20. /\ stack' \in Seq(Word) /\ Len(stack') = Floor + n
       /\ \A k \in 1 .. Floor : stack'[k] = stack[k]
       /\ \A k \in 1 .. n : stack'[Floor + k] = copy[k]
  <2>1. PICK s \in Seq(Word) : s = stack
    BY <1>3
  <2>2. Len(s) = Floor /\ stack' = s \o copy
    BY <1>9, <1>12, <2>1
  <2>3. copy \in [1 .. n -> Word]
    BY <1>19
  <2>4. /\ s \o copy \in Seq(Word) /\ Len(s \o copy) = Len(s) + n
        /\ \A k \in 1 .. Len(s) : (s \o copy)[k] = s[k]
        /\ \A k \in 1 .. n : (s \o copy)[Len(s) + k] = copy[k]
    BY <2>3, Concat
  <2> QED
    BY <2>1, <2>2, <2>4
<1>21. Floor' = Floor + n /\ depth' = Floor + n /\ copied' \in Nat
  <2>1. copied' = copied + n /\ depth' = Floor + n /\ call.temps' = call.temps
    BY <1>2, <1>9, <1>12, <1>19
  <2> QED
    BY <1>3, <2>1 DEF Floor
<1>22. copies \in [1 .. Last -> Int] /\ copies' \in [1 .. Last -> Int] /\ \A j \in 1 .. i - 1 : copies'[j] = copies[j]
  <2>1. copies \in [1 .. Last -> Int]
    BY <1>1, <1>3 DEF TypeOK
  <2>2. CASE ByReference(ty)
    <3>1. copies' = [copies EXCEPT ![i] = Floor + n]
      BY <1>9, <1>12, <1>19, <2>2
    <3>2. Floor + n \in Int /\ \A j \in 1 .. i - 1 : j # i /\ j \in 1 .. Last
      BY <1>3, <1>5
    <3> QED
      BY <2>1, <3>1, <3>2
  <2>3. CASE ~ByReference(ty)
    BY <1>12, <2>1, <2>3
  <2> QED
    BY <2>2, <2>3
<1>23. /\ gp' = G(K, i + 1) /\ (abi = "sysv" => fp' = F(K, i + 1)) /\ gp' \in Nat /\ fp' \in Nat
  <2>1. G(K, i) = gp /\ (abi = "sysv" => F(K, i) = fp) /\ G(K, i + 1) \in Nat /\ F(K, i + 1) \in Nat
    BY <1>5, <1>9, <1>16, TraceTypes DEF Same
  <2>2. CASE abi = "win"
    <3>1. place = Fit(gp < WinMax, gp + 1, 0)
      BY <1>10, <2>2 DEF WinPlace
    <3>2. gp' = gp + 1 /\ fp' = 0
      BY <1>12, <3>1, FitCounts
    <3>3. G(K, i + 1) = G(K, i) + 1
      BY <1>15, <2>2 DEF Follows, WinFollows
    <3> QED
      BY <2>1, <2>2, <3>2, <3>3
  <2>3. CASE abi # "win"
    <3>1. abi = "sysv"
      BY <2>3 DEF Scope
    <3>2. gp' = PushGp(ty, gp, fp) /\ fp' = PushFp(ty, gp, fp)
      BY <1>10, <1>12, <2>3 DEF PushGp, PushFp
    <3>3. G(K, i + 1) = PushGp(Args[i], G(K, i), F(K, i)) /\ F(K, i + 1) = PushFp(Args[i], G(K, i), F(K, i))
      BY <1>15, <3>1 DEF Follows, SysVFollows
    <3> QED
      BY <1>8, <2>1, <3>1, <3>2, <3>3
  <2> QED
    BY <2>2, <2>3
<1>24. args' = Mem(K, i + 1) /\ args' \in Nat
  <2>1. Mem(K, i) = args /\ Mem(K, i + 1) \in Nat
    BY <1>5, <1>9, <1>16, TraceTypes DEF Same
  <2>2. Parts(K, i, B)
    BY <1>15 DEF Follows
  <2>3. CASE i \in B
    <3>1. ~place.in
      BY <1>13, <1>14, <2>3
    <3>2. WordsOf(i) = IF abi = "win" THEN 1 ELSE Words(ty)
      <4>1. abi \in {"sysv", "win"} /\ (abi = "win" => Args[i].kind # "ldouble") /\ ~EmptyStruct
        BY DEF Scope, Sound
      <4> QED
        BY <1>3, <1>8, <4>1, WordsOfArg
    <3> QED
      BY <1>12, <2>1, <2>2, <2>3, <3>1, <3>2 DEF Parts
  <2>4. CASE i \notin B
    <3>1. place.in
      BY <1>13, <1>14, <2>4
    <3> QED
      BY <1>3, <1>12, <2>1, <2>2, <2>4, <3>1 DEF Parts
  <2> QED
    BY <2>3, <2>4
<1>25. Bottom(i + 1)'
  <2>1. \A j : ByReference(Args[j])' <=> ByReference(Args[j])
    BY <1>2, CallKept
  <2>2. \A k \in 1 .. call.temps : stack'[k] = Temp
    <3>1. call.temps <= Floor
      BY <1>3 DEF Floor
    <3>2. \A k \in 1 .. call.temps : k \in 1 .. Floor
      BY <1>3, <3>1
    <3> QED
      BY <1>9, <1>20, <3>2 DEF Bottom
  <2>3. ASSUME NEW j \in 1 .. i - 1, ByReference(Args[j])
        PROVE  CopyAt(j)'
    <3>1. CopyAt(j)
      BY <1>9, <2>3 DEF Bottom
    <3>2. Words(Args[j]) \in Nat
      <4>1. j \in 1 .. Last
        BY <1>3, <1>5
      <4> QED
        BY <4>1, WordsOfArg DEF Scope, Sound
    <3>3. copies'[j] = copies[j] /\ copies[j] \in Int /\ copies[j] - Words(Args[j]) \in Nat /\ copies[j] <= Floor
      BY <1>22, <3>1 DEF CopyAt
    <3>4. ASSUME NEW w \in 1 .. Words(Args[j])
          PROVE  stack'[copies[j] - w + 1] = <<j, w>>
      <4>1. copies[j] - w + 1 \in 1 .. Floor
        BY <1>3, <3>2, <3>3, SMTT(30)
      <4> QED
        BY <1>20, <3>1, <4>1 DEF CopyAt
    <3>5. copies[j] <= Floor'
      BY <1>3, <1>21, <3>3
    <3> QED
      BY <1>2, <3>3, <3>4, <3>5 DEF CopyAt
  <2>4. ASSUME ByReference(Args[i])
        PROVE  CopyAt(i)'
    <3>1. n = Words(ty) /\ copy = Downwards(i) /\ copies' = [copies EXCEPT ![i] = Floor + n]
      BY <1>8, <1>9, <1>12, <1>19, <2>4
    <3>2. copies'[i] = Floor + n
      BY <1>22, <3>1
    <3>3. ASSUME NEW w \in 1 .. n
          PROVE  stack'[Floor + n - w + 1] = <<i, w>>
      <4>1. PICK k : k = n + 1 - w
        OBVIOUS
      <4>2. k \in 1 .. n /\ Floor + n - w + 1 = Floor + k /\ n + 1 - k = w
        BY <1>3, <1>19, <4>1
      <4>3. copy[k] = <<i, n + 1 - k>>
        BY <1>8, <3>1, <4>2 DEF Downwards
      <4> QED
        BY <1>20, <4>2, <4>3
    <3>4. Floor + n \in Int /\ Floor + n - n \in Nat
      BY <1>3, <1>19
    <3>5. PICK c \in Int : c = Floor + n
      BY <3>4
    <3>6. copies'[i] = c /\ Floor' = c /\ c - n \in Nat /\ \A w \in 1 .. n : stack'[c - w + 1] = <<i, w>>
      <4>1. copies'[i] = c
        BY <3>2, <3>5
      <4>2. Floor' = c
        BY <1>21, <3>5
      <4>3. c - n \in Nat
        BY <1>3, <1>19, <3>5
      <4>4. ASSUME NEW w \in 1 .. n
            PROVE  stack'[c - w + 1] = <<i, w>>
        <5>1. stack'[Floor + n - w + 1] = <<i, w>>
          BY <3>3
        <5>2. c - w + 1 = Floor + n - w + 1
          BY <1>3, <1>19, <3>5
        <5> QED
          BY <5>1, <5>2
      <4> QED
        BY <4>1, <4>2, <4>3, <4>4
    <3>7. Words(Args[i])' = n
      BY <1>2, <1>8, <3>1 DEF Words
    <3>8. /\ copies'[i] \in Int /\ copies'[i] - Words(Args[i])' \in Nat /\ copies'[i] <= Floor'
          /\ \A w \in 1 .. Words(Args[i])' : stack'[copies'[i] - w + 1] = <<i, w>>
      BY <3>6, <3>7
    <3>9. Args' = Args
      BY <1>2
    <3> QED
      BY <3>8, <3>9 DEF CopyAt, Words
  <2>5. \A j \in 1 .. i : j = i \/ j \in 1 .. i - 1
    BY <1>5
  <2>6. Floor' <= Len(stack')
    BY <1>3, <1>20, <1>21
  <2>7. \A j \in 1 .. i : ByReference(Args[j])' => CopyAt(j)'
    BY <2>1, <2>3, <2>4, <2>5
  <2>8. call.temps' = call.temps /\ Temp' = Temp
    BY <1>2 DEF Temp
  <2> QED
    BY <1>5, <2>2, <2>6, <2>7, <2>8 DEF Bottom
<1>26. TypeOK'
  <2>1. arg' \in 0 .. Len(Args') + 1
    BY <1>2, <1>3, <1>4, <1>5 DEF Last
  <2>2. bystack' \subseteq DOMAIN Args'
    BY <1>1, <1>2, <1>3, <1>6, <1>7, <1>14 DEF TypeOK
  <2>3. depth' \in Int
    BY <1>3, <1>21
  <2>4. copies' \in [DOMAIN Args' -> Int]
    BY <1>2, <1>3, <1>22
  <2>5. /\ abi' \in {"sysv", "win"} /\ call' \in Calls
        /\ pc' \in {"classify", "first", "second", "pop", "offsets", "prologue", "body", "done"}
        /\ gpr' \in [1 .. GpMax + WinMax -> Word] /\ fpr' \in [1 .. FpMax + WinMax -> Word]
        /\ offset' \in [DOMAIN Params' -> Nat] /\ home' \in [DOMAIN Params' -> Seq(Word)]
        /\ va' \in [gp : Nat, fp : Nat, mem : Nat] /\ got' \in Seq(Seq(Word))
    BY <1>1, <1>2 DEF TypeOK
  <2>6. {gp', fp', args', top', copied'} \subseteq Nat
    BY <1>1, <1>2, <1>21, <1>23, <1>24 DEF TypeOK
  <2> QED
    BY <1>20, <2>1, <2>2, <2>3, <2>4, <2>5, <2>6 DEF TypeOK, Word
<1>27. Classifying(K)'
  <2>1. PICK m : m = i + 1
    OBVIOUS
  <2>2. PICK u, p : u = used' /\ p = places'
    OBVIOUS
  <2>3. Plan(K, m, B)'
    BY <1>2, <1>15, <2>1, PlanKept
  <2>4. AbiAt(K, m, B, u, p)'
    BY <1>2, <1>17, <2>1, <2>2, AbiKept
  <2>5. m = arg' /\ B = bystack'
    BY <1>2, <1>4, <1>7, <2>1
  <2>6. Plan(K, arg, bystack)' /\ AbiAt(K, arg, bystack, used, places)'
    BY <2>2, <2>3, <2>4, <2>5
  <2>7. Bottom(arg)'
    BY <1>25, <2>1, <2>5 DEF Bottom
  <2>8. G(K, arg)' = gp' /\ (abi' = "sysv" => F(K, arg)' = fp') /\ Mem(K, arg)' = args'
    BY <1>2, <1>23, <1>24, <2>1, <2>5 DEF G, F, Mem
  <2>9. Len(places') = arg' - 1 /\ arg' \in 1 .. Last' + 1
    BY <1>2, <1>5, <1>18, <2>1, <2>5
  <2> QED
    BY <1>20, <1>21, <2>6, <2>7, <2>8, <2>9 DEF Classifying
<1>28. Inv(K)'
  BY <1>1, <1>2, <1>18, <1>26, <1>27 DEF Inv
<1> QED
  BY <1>28

(***************************************************************************)
(* The invariant: the call is one that the program can compile, and if it  *)
(* is none of those that the code gets wrong there is a trace that tells   *)
(* the counters.                                                           *)
(***************************************************************************)
Compiled ==
  /\ call \in Calls /\ abi \in {"sysv", "win"}
  /\ abi = "win" => \A i \in 1 .. Last : Args[i].kind # "ldouble"
IInv == Compiled /\ (Sound => \E H \in Traces : Inv(H))

LEMMA ScopeOf == Scope <=> Compiled /\ Sound
BY DEF Scope, Compiled

\* The invariant holds when a call begins.
LEMMA InitFound ==
  ASSUME Scope, AbiInit
  PROVE  \E H \in Traces : Inv(H)
<1>1. PICK H \in Traces : Plan(H, 1, {})
  BY PlanBegins
<1>2. /\ G(H, 1) = N(call.big) /\ F(H, 1) = 0 /\ PG(H, 1) = N(call.big) /\ PF(H, 1) = 0
      /\ Mem(H, 1) = 0
  BY <1>1, StartOf
<1>3. /\ Last \in Nat /\ Last = Len(Args) /\ DOMAIN Args = 1 .. Last /\ call.temps \in Nat /\ DOMAIN Params = 1 .. Len(Params)
      /\ call \in Calls /\ abi \in {"sysv", "win"}
  BY ArgsOf DEF Scope, Last
<1>4. N(call.big) \in {0, 1}
  BY NBig
<1>5. /\ pc = "classify" /\ arg = 1 /\ gp = N(call.big) /\ fp = 0 /\ bystack = {} /\ copied = 0 /\ args = 0
      /\ stack = [i \in 1 .. call.temps |-> Temp] /\ depth = call.temps /\ top = 0
      /\ copies = [i \in DOMAIN Args |-> 0]
      /\ gpr = [r \in 1 .. GpMax + WinMax |-> Junk] /\ fpr = [r \in 1 .. FpMax + WinMax |-> Junk]
      /\ offset = [i \in DOMAIN Params |-> 0] /\ home = [i \in DOMAIN Params |-> <<>>]
      /\ va = [gp |-> 0, fp |-> 0, mem |-> 0] /\ got = <<>>
      /\ used = [gp |-> N(call.big), fp |-> 0, mem |-> 0] /\ places = <<>>
  BY DEF AbiInit, Init
<1>6. TypeOK
  <2>1. Temp \in Word /\ Junk \in Word
    BY WordTypes
  <2>2. stack \in Seq(Word)
    <3>1. PICK n \in Nat : n = call.temps
      BY <1>3
    <3>2. stack = [i \in 1 .. n |-> Temp]
      BY <1>5, <3>1
    <3>3. [i \in 1 .. n |-> Temp] \in Seq(Word)
      BY <2>1
    <3> QED
      BY <3>2, <3>3
  <2>3. gpr \in [1 .. GpMax + WinMax -> Word] /\ fpr \in [1 .. FpMax + WinMax -> Word]
    BY <1>5, <2>1
  <2>4. arg \in 0 .. Len(Args) + 1 /\ {gp, fp, args, top, copied} \subseteq Nat /\ depth \in Int
    BY <1>3, <1>4, <1>5
  <2>5. bystack \subseteq DOMAIN Args /\ copies \in [DOMAIN Args -> Int]
    BY <1>5
  <2>6. offset \in [DOMAIN Params -> Nat] /\ home \in [DOMAIN Params -> Seq(Word)]
    BY <1>5
  <2>7. va \in [gp : Nat, fp : Nat, mem : Nat] /\ got \in Seq(Seq(Word))
    BY <1>5
  <2> QED
    BY <1>3, <1>5, <2>2, <2>3, <2>4, <2>5, <2>6, <2>7 DEF TypeOK
<1>7. UsedTypes
  BY <1>4, <1>5 DEF UsedTypes
<1>8. Classifying(H)
  <2>1. AbiAt(H, 1, {}, used, places)
    <3>1. AbiUsed(H, 1, used)
      BY <1>2, <1>5 DEF AbiUsed
    <3>2. AbiPlaced(H, 1, {}, places)
      BY DEF AbiPlaced
    <3> QED
      BY <3>1, <3>2 DEF AbiAt
  <2>2. Floor = call.temps /\ Len(stack) = call.temps
    BY <1>3, <1>5 DEF Floor
  <2>3. Bottom(1)
    BY <1>3, <1>5, <2>2 DEF Bottom
  <2>4. arg \in 1 .. Last + 1 /\ Len(places) = arg - 1
    BY <1>3, <1>5
  <2> QED
    BY <1>1, <1>2, <1>5, <2>1, <2>2, <2>3, <2>4 DEF Classifying
<1>9. Inv(H)
  BY <1>5, <1>6, <1>7, <1>8 DEF Inv
<1> QED
  BY <1>9

\* Every step keeps it.
LEMMA StepFound ==
  ASSUME Scope, NEW H \in Traces, Inv(H), [AbiNext]_<<vars, used, places>>
  PROVE  \E K \in Traces : Inv(K)'
<1>1. CASE Classify /\ Assign
  BY <1>1, ClassifyKeeps
<1>2. ASSUME UNCHANGED <<used, places>>,
             \/ Realign \/ push_args2 \/ SecondPass \/ PushRetBuffer \/ PopRetBuffer \/ PopSysV \/ PopWin \/ Call
             \/ assign_lvar_offsets \/ FinishOffsets \/ PrologueSysV \/ PrologueWin \/ FinishPrologue
             \/ VaArg \/ Return
      PROVE  Inv(H)'
  BY <1>2, RealignKeeps, PushKeeps, SecondPassKeeps, PushRetBufferKeeps, PopRetBufferKeeps, PopSysVKeeps,
     PopWinKeeps, CallKeeps, AssignKeeps, FinishOffsetsKeeps, PrologueSysVKeeps, PrologueWinKeeps,
     FinishPrologueKeeps, VaArgKeeps, ReturnKeeps
<1>3. ASSUME UNCHANGED <<vars, used, places>>
      PROVE  Inv(H)'
  BY <1>3, StutterKeeps
<1>4. CASE AbiNext
  <2>1. \/ Classify /\ Assign
        \/ UNCHANGED <<used, places>> /\ Done
        \/ /\ UNCHANGED <<used, places>>
           /\ \/ Realign \/ push_args2 \/ SecondPass \/ PushRetBuffer \/ PopRetBuffer \/ PopSysV \/ PopWin \/ Call
              \/ assign_lvar_offsets \/ FinishOffsets \/ PrologueSysV \/ PrologueWin \/ FinishPrologue
              \/ VaArg \/ Return
    BY <1>4 DEF AbiNext
  <2>2. CASE UNCHANGED <<used, places>> /\ Done
    <3>1. UNCHANGED <<vars, used, places>>
      BY <2>2 DEF Done
    <3> QED
      BY <1>3, <3>1
  <2> QED
    BY <1>1, <1>2, <2>1, <2>2
<1>5. CASE UNCHANGED <<vars, used, places>>
  BY <1>3, <1>5
<1> QED
  BY <1>4, <1>5

\* No step changes the call or the convention.
LEMMA CallStays ==
  ASSUME [AbiNext]_<<vars, used, places>>
  PROVE  UNCHANGED <<abi, call>>
<1>1. CASE AbiNext
  BY <1>1 DEF AbiNext, Classify, Realign, push_args2, SecondPass, PushRetBuffer, PopRetBuffer, PopSysV, PopWin, Call,
     assign_lvar_offsets, FinishOffsets, PrologueSysV, PrologueWin, FinishPrologue, VaArg, Return, Done, vars
<1>2. CASE UNCHANGED <<vars, used, places>>
  BY <1>2 DEF vars
<1> QED
  BY <1>1, <1>2

(***************************************************************************)
(* The invariant is inductive.                                             *)
(***************************************************************************)
THEOREM Invariance == AbiSpec => []IInv
<1>1. ASSUME AbiInit PROVE IInv
  <2>1. Compiled
    <3>1. call \in Calls /\ abi \in {"sysv", "win"} /\ (abi = "win" => \A i \in DOMAIN Args : Args[i].kind # "ldouble")
      BY <1>1 DEF AbiInit, Init
    <3> QED
      BY <3>1, ArgsOf DEF Compiled
  <2> QED
    BY <1>1, <2>1, InitFound, ScopeOf DEF IInv
<1>2. ASSUME IInv, [AbiNext]_<<vars, used, places>> PROVE IInv'
  <2>1. UNCHANGED <<abi, call>>
    BY <1>2, CallStays
  <2>2. Compiled'
    BY <1>2, <2>1, CallKept DEF IInv, Compiled
  <2>3. ASSUME Sound' PROVE \E K \in Traces : Inv(K)'
    <3>1. Sound
      BY <2>1, <2>3, DeparturesKept DEF Sound
    <3>2. PICK H \in Traces : Inv(H)
      BY <1>2, <3>1 DEF IInv
    <3>3. Scope
      BY <1>2, <3>1, ScopeOf DEF IInv
    <3> QED
      BY <1>2, <3>2, <3>3, StepFound
  <2>4. Traces' = Traces
    BY DEF Traces, Counters
  <2> QED
    BY <2>2, <2>3, <2>4 DEF IInv
<1> QED
  BY <1>1, <1>2, PTL DEF AbiSpec

(***************************************************************************)
(* The variables have their types, for every call that the code does not   *)
(* get wrong.                                                              *)
(***************************************************************************)
THEOREM TypeCorrect == AbiSpec => [](Sound => TypeOK)
<1>1. ASSUME IInv PROVE Sound => TypeOK
  BY <1>1 DEF IInv, Inv
<1> QED
  BY <1>1, Invariance, PTL

-------------------------------------------------------------------------------
\* The words of a kind before the first, and before the second.
LEMMA EarlierOf ==
  ASSUME NEW ty, NEW c
  PROVE  EarlierWords(ty, 1, c) = 0 /\ EarlierWords(ty, 2, c) = N(Class(ty, 1) = c)
<1>1. EarlierWords(ty, 1, c) = 0
  <2>1. {d \in 1 .. 0 : Class(ty, d) = c} = {}
    OBVIOUS
  <2> QED
    BY <2>1, FS_EmptySet DEF EarlierWords
<1>2. EarlierWords(ty, 2, c) = N(Class(ty, 1) = c)
  <2>1. CASE Class(ty, 1) = c
    <3>1. {d \in 1 .. 1 : Class(ty, d) = c} = {1}
      BY <2>1
    <3>2. Cardinality({1}) = 1
      BY FS_Singleton
    <3> QED
      BY <2>1, <3>1, <3>2 DEF EarlierWords, N
  <2>2. CASE Class(ty, 1) # c
    <3>1. {d \in 1 .. 1 : Class(ty, d) = c} = {}
      BY <2>2
    <3> QED
      BY <2>2, <3>1, FS_EmptySet DEF EarlierWords, N
  <2> QED
    BY <2>1, <2>2
<1> QED
  BY <1>1, <1>2

\* The callee looks for a word in the register that the psABI gives it.
LEMMA StoredWhere ==
  ASSUME NEW ty \in Sized, NEW g \in Nat, NEW f \in Nat, PopIn(ty, g, f), NEW e \in 1 .. Words(ty)
  PROVE  Stored(ty, g, f)[e] = IF Class(ty, e) = "gp" THEN gpr[g + EarlierWords(ty, e, "gp") + 1]
                                                      ELSE fpr[f + EarlierWords(ty, e, "fp") + 1]
<1>1. /\ ty.kind \in Kinds /\ Words(ty) \in Nat \ {0}
      /\ ty.kind \in {"int", "float"} => Words(ty) = 1
      /\ ty.kind = "int" => Class(ty, 1) = "gp"
      /\ ty.kind = "float" => Class(ty, 1) = "fp"
      /\ Words(ty) <= 1 <=> ty.size <= 8
      /\ Words(ty) <= 2 <=> ty.size <= 16
      /\ ty.size \in Nat
  BY TypeFacts
<1>2. CASE ty.kind = "int"
  <2>1. e = 1 /\ g < GpMax
    BY <1>1, <1>2, IntPop
  <2>2. Stored(ty, g, f) = <<gpr[g + 1]>>
    BY <1>2, <2>1 DEF Stored, IsStruct, Gpr
  <2>3. EarlierWords(ty, 1, "gp") = 0
    BY EarlierOf
  <2> QED
    BY <1>1, <1>2, <2>1, <2>2, <2>3
<1>3. CASE ty.kind = "float"
  <2>1. e = 1 /\ f < FpMax
    BY <1>1, <1>3, FloatPop
  <2>2. Stored(ty, g, f) = <<fpr[f + 1]>>
    BY <1>3, <2>1 DEF Stored, IsStruct, Fpr
  <2>3. EarlierWords(ty, 1, "fp") = 0
    BY EarlierOf
  <2> QED
    BY <1>1, <1>3, <2>1, <2>2, <2>3
<1>4. CASE ty.kind = "ldouble"
  BY <1>4, LongDoublePop
<1>5. CASE ty.kind = "struct"
  <2>1. ty.size <= 16 /\ f + Fp1(ty) + Fp2(ty) < FpMax /\ g + 2 - (Fp1(ty) + Fp2(ty)) < GpMax
    <3>1. ty.size <= 16 /\ f + (Fp1(ty) + Fp2(ty)) < FpMax /\ g + 2 - (Fp1(ty) + Fp2(ty)) < GpMax
      BY <1>5, StructPop
    <3>2. Fp1(ty) \in {0, 1} /\ Fp2(ty) \in {0, 1}
      BY <1>5, <3>1, HalvesOf
    <3> QED
      BY <3>1, <3>2
  <2>2. PICK a \in {0, 1}, b \in {0, 1} : a = Fp1(ty) /\ b = Fp2(ty)
    BY <1>5, <2>1, HalvesOf
  <2>3. /\ Class(ty, 1) = (IF a = 1 THEN "fp" ELSE "gp")
        /\ Class(ty, 2) = (IF b = 1 THEN "fp" ELSE "gp")
    BY <1>5, <2>1, <2>2, HalvesOf
  <2>4. f + a + b < FpMax /\ g + 2 - (a + b) < GpMax
    BY <2>1, <2>2
  <2>5. GpMax \in Nat /\ FpMax \in Nat
    BY RegistersAssumption
  <2>6. PICK first : first = IF a = 1 THEN Fpr(f) ELSE Gpr(g)
    OBVIOUS
  <2>7. PICK second : second = IF b = 1 THEN Fpr(f + a) ELSE Gpr(g + 1 - a)
    OBVIOUS
  <2>8. Stored(ty, g, f) = IF ty.size > 8 THEN <<first, second>> ELSE <<first>>
    BY <1>5, <2>2, <2>6, <2>7 DEF Stored, IsStruct
  <2>9. CASE e = 1
    <3>1. Stored(ty, g, f)[1] = first
      BY <2>8
    <3>2. EarlierWords(ty, 1, "gp") = 0 /\ EarlierWords(ty, 1, "fp") = 0
      BY EarlierOf
    <3>3. CASE a = 1
      <4>1. first = fpr[f + 1]
        BY <2>4, <2>5, <2>6, <3>3 DEF Fpr
      <4> QED
        BY <2>3, <2>9, <3>1, <3>2, <3>3, <4>1
    <3>4. CASE a = 0
      <4>1. first = gpr[g + 1]
        BY <2>4, <2>5, <2>6, <3>4 DEF Gpr
      <4> QED
        BY <2>3, <2>9, <3>1, <3>2, <3>4, <4>1
    <3> QED
      BY <3>3, <3>4
  <2>10. CASE e = 2
    <3>1. ty.size > 8
      BY <1>1, <2>10
    <3>2. Stored(ty, g, f)[2] = second
      BY <2>8, <3>1
    <3>3. EarlierWords(ty, 2, "gp") = N(Class(ty, 1) = "gp") /\ EarlierWords(ty, 2, "fp") = N(Class(ty, 1) = "fp")
      BY EarlierOf
    <3>4. EarlierWords(ty, 2, "gp") = 1 - a /\ EarlierWords(ty, 2, "fp") = a
      BY <2>3, <3>3 DEF N
    <3>5. CASE b = 1
      <4>1. second = fpr[f + a + 1]
        BY <2>4, <2>5, <2>7, <3>5 DEF Fpr
      <4> QED
        BY <2>3, <2>10, <3>2, <3>4, <3>5, <4>1
    <3>6. CASE b = 0
      <4>1. second = gpr[g + 1 - a + 1] /\ g + 1 - a + 1 = g + (1 - a) + 1
        BY <2>4, <2>5, <2>7, <3>6 DEF Gpr
      <4> QED
        BY <2>3, <2>10, <3>2, <3>4, <3>6, <4>1
    <3> QED
      BY <3>5, <3>6
  <2>11. e = 1 \/ e = 2
    BY <1>1, <2>1
  <2> QED
    BY <2>9, <2>10, <2>11
<1> QED
  BY <1>1, <1>2, <1>3, <1>4, <1>5 DEF Kinds

\* On Windows the word of argument i is at its position.
LEMMA WinSpot ==
  ASSUME Scope, NEW H \in Traces, TypeOK, UsedTypes, Laid(H), Called(H), abi = "win", NEW i \in 1 .. Last
  PROVE  /\ At(Position(i) - 1) = stack[Len(stack) + 1 - Position(i)]
         /\ WinHolds(i) = Want(i, 1)
<1>1. /\ Last \in Nat /\ Total \in Nat /\ Floor \in Nat /\ args \in Nat /\ Floor <= Total /\ Len(stack) \in Nat
  BY Sizes
<1>2. PICK p \in Nat : p = Position(i) /\ p > 0
  BY <1>1, NBig DEF Position
<1>3. Plan(H, Last + 1, bystack)
  BY DEF Laid
<1>4. WinBefore(H, i) /\ WinDecides(i, bystack)
  <2>1. WinPlan(H, Last + 1, bystack) /\ i \in 1 .. Last + 1 /\ i \in 1 .. Last + 1 - 1
    BY <1>1, <1>3 DEF Plan
  <2> QED
    BY <1>1, <2>1 DEF WinPlan
<1>5. WordsOf(i) = 1
  BY WordsOfArg DEF Scope, Sound
<1>6. Len(stack) = Total + WinMax /\ WinMax \in Nat
  BY RegistersAssumption DEF Called, Homes
<1>7. CASE i \in bystack
  <2>1. p > WinMax /\ Mem(H, i) = p - 1 - WinMax
    BY <1>2, <1>4, <1>7 DEF WinBefore, WinDecides
  <2>2. Mem(H, i) + 1 <= args
    <3>1. Mem(H, i) + WordsOf(i) <= Mem(H, Last + 1) /\ Mem(H, i) \in Nat /\ Mem(H, Last + 1) \in Nat
      BY <1>3, <1>7, Spots
    <3>2. Mem(H, Last + 1) <= args
      BY DEF Laid
    <3> QED
      BY <1>1, <1>5, <3>1, <3>2
  <2>3. args <= Total
    BY <1>1 DEF Total
  <2>4. p - 1 < Len(stack) /\ Len(stack) - (p - 1) = Len(stack) + 1 - p /\ Len(stack) + 1 - p = Total - Mem(H, i)
    BY <1>1, <1>2, <1>6, <2>1, <2>2, <2>3, SMTT(30)
  <2>5. At(p - 1) = stack[Len(stack) + 1 - p]
    BY <2>4 DEF At
  <2>6. stack[Total - Mem(H, i)] = Want(i, 1)
    <3>1. WordsAt(i, Total - Mem(H, i))
      <4>1. i \in 1 .. Last /\ OnStack(H, 1)
        BY DEF Called
      <4> QED
        BY <1>7, <4>1 DEF OnStack
    <3>2. stack[Total - Mem(H, i) + 1 - 1] = Want(i, 1)
      BY <1>5, <3>1 DEF WordsAt
    <3>3. Total - Mem(H, i) + 1 - 1 = Total - Mem(H, i)
      BY <1>1, <1>2, <1>6, <2>1
    <3> QED
      BY <3>2, <3>3
  <2>7. i + N(call.big) = p
    BY <1>1, <1>2, NBig DEF Position
  <2>8. WinHolds(i) = At(p - 1)
    BY <2>1, <2>7 DEF WinHolds
  <2> QED
    BY <1>2, <2>4, <2>5, <2>6, <2>8
<1>8. CASE i \notin bystack
  <2>1. p <= WinMax
    BY <1>2, <1>4, <1>6, <1>8 DEF WinDecides
  <2>2. p - 1 < Len(stack) /\ Len(stack) - (p - 1) = Len(stack) + 1 - p
    BY <1>1, <1>2, <1>6, <2>1
  <2>3. At(p - 1) = stack[Len(stack) + 1 - p]
    BY <2>2 DEF At
  <2>4. Loaded(H, i)
    <3>1. i \in 1 .. Last + 1 - 1 /\ InRegisters(H, Last + 1)
      BY <1>1 DEF Called
    <3> QED
      BY <1>1, <1>8, <3>1 DEF InRegisters
  <2>5. gpr[p] = Want(i, 1) /\ (Args[i].kind = "float" => fpr[p] = Want(i, 1))
    BY <1>2, <2>4 DEF Loaded
  <2>6. i + N(call.big) = p
    BY <1>1, <1>2, NBig DEF Position
  <2>7. WinHolds(i) = IF Args[i].kind = "float" THEN fpr[p] ELSE gpr[p]
    BY <1>2, <1>6, <2>1, <2>6 DEF WinHolds
  <2> QED
    BY <1>2, <2>3, <2>5, <2>7
<1> QED
  BY <1>7, <1>8

\* What goes by reference is read through its address.
LEMMA ValueOf ==
  ASSUME Scope, TypeOK, Bottom(Last + 1), abi = "win", NEW i \in 1 .. Last
  PROVE  Value(i, Want(i, 1)) = Sent(i)
<1>1. /\ Last \in Nat /\ Floor \in Nat /\ Len(stack) \in Nat /\ stack \in Seq(Word)
  BY Sizes
<1>2. CASE ByReference(Args[i])
  <2>1. CopyAt(i) /\ Floor <= Len(stack)
    <3>1. i \in 1 .. Last + 1 - 1
      BY <1>1
    <3> QED
      BY <1>1, <1>2, <3>1 DEF Bottom
  <2>2. PICK c \in Int, n \in Nat : c = copies[i] /\ n = Words(Args[i]) /\ c - n \in Nat /\ c <= Floor
    <3>1. Words(Args[i]) \in Nat
      BY WordsOfArg DEF Scope, Sound
    <3> QED
      BY <2>1, <3>1 DEF CopyAt
  <2>3. Want(i, 1) = Ref(c)
    BY <1>2, <2>2 DEF Want
  <2>4. Value(i, Ref(c)) = [k \in 1 .. n |-> IF c - k + 1 \in DOMAIN stack THEN stack[c - k + 1] ELSE Junk]
    BY <2>2 DEF Value, Ref
  <2>5. ASSUME NEW k \in 1 .. n
        PROVE  c - k + 1 \in DOMAIN stack /\ stack[c - k + 1] = <<i, k>>
    <3>1. c - k + 1 \in 1 .. Len(stack)
      BY <1>1, <2>1, <2>2, SMTT(30)
    <3>2. stack[c - k + 1] = <<i, k>>
      BY <2>1, <2>2 DEF CopyAt
    <3> QED
      BY <1>1, <3>1, <3>2
  <2>6. Sent(i) = [k \in 1 .. n |-> <<i, k>>]
    BY <2>2 DEF Sent
  <2> QED
    BY <2>3, <2>4, <2>5, <2>6
<1>3. CASE ~ByReference(Args[i])
  <2>1. Words(Args[i]) = 1
    <3>1. Args[i].kind # "ldouble"
      BY DEF Scope
    <3> QED
      BY <1>3, <3>1, WordsOfArg DEF Scope, Sound
  <2>2. Want(i, 1) = <<i, 1>>
    BY <1>3 DEF Want
  <2>3. i # -5
    BY <1>1
  <2>4. Value(i, <<i, 1>>) = <<<<i, 1>>>>
    BY <2>3 DEF Value, Ref
  <2>5. Sent(i) = [w \in 1 .. 1 |-> <<i, w>>]
    BY <2>1 DEF Sent
  <2>6. <<<<i, 1>>>> = [w \in 1 .. 1 |-> <<i, w>>]
    OBVIOUS
  <2> QED
    BY <2>2, <2>4, <2>5, <2>6
<1> QED
  BY <1>2, <1>3

-------------------------------------------------------------------------------
\* Calls of which nothing is known to go wrong.
LEMMA AgreedKnown ==
  ASSUME IInv, Agreed
  PROVE  Scope /\ Known /\ \E H \in Traces : Inv(H)
<1>1. Sound /\ Known
  BY DEF Agreed, Sound, Known
<1> QED
  BY <1>1, ScopeOf DEF IInv

\* The stack is aligned at the call.
LEMMA AlignedAtCall ==
  ASSUME Scope, NEW H \in Traces, Inv(H), pc = "offsets"
  PROVE  Len(stack) % 2 = 0
<1>1. TypeOK /\ Laid(H) /\ Called(H)
  BY DEF Inv
<1>2. PICK t \in Nat : t = Total
  BY <1>1, Sizes
<1>3. t % 2 = 0
  BY <1>1, <1>2 DEF Laid
<1>4. WinMax \in Nat /\ WinMax % 2 = 0
  BY RegistersAssumption
<1>5. Homes \in {0, WinMax}
  BY DEF Homes
<1>6. Len(stack) = t + Homes
  BY <1>1, <1>2 DEF Called
<1>7. t + 0 = t /\ (t + WinMax) % 2 = 0
  BY <1>3, <1>4
<1> QED
  BY <1>3, <1>5, <1>6, <1>7

(***************************************************************************)
(* rsp is aligned to 16 at every call, and when a call has returned the    *)
(* stack and C(depth) are what they were.                                  *)
(***************************************************************************)
THEOREM StackIsKept == AbiSpec => []StackKept
<1>1. ASSUME IInv PROVE StackKept
  <2>1. ASSUME Agreed, pc = "offsets" PROVE Len(stack) % 2 = 0
    <3>1. Scope /\ \E H \in Traces : Inv(H)
      BY <1>1, <2>1, AgreedKnown
    <3>2. PICK H \in Traces : Inv(H)
      BY <3>1
    <3> QED
      BY <2>1, <3>1, <3>2, AlignedAtCall
  <2>2. ASSUME Agreed, pc = "done"
        PROVE  depth = call.temps /\ stack = [i \in 1 .. call.temps |-> Temp]
    <3>1. PICK H \in Traces : Inv(H)
      BY <1>1, <2>2, AgreedKnown
    <3> QED
      BY <2>2, <3>1 DEF Inv, Ended
  <2> QED
    BY <2>1, <2>2 DEF StackKept
<1> QED
  BY <1>1, Invariance, PTL

\* In the body a parameter is what was sent.
LEMMA ParameterArrived ==
  ASSUME Scope, Known, NEW H \in Traces, Inv(H), pc = "body", NEW i \in 1 .. Len(Params)
  PROVE  Received(i) = Sent(i)
<1>1. TypeOK /\ UsedTypes /\ Laid(H) /\ Called(H) /\ Framed(H, Len(Params) + 1) /\ Homed(Len(Params) + 1)
  BY DEF Inv, Running
<1>2. Last \in Nat /\ Len(Params) \in 0 .. Last /\ call \in Calls
  BY <1>1, Sizes
<1>3. i \in 1 .. Last /\ i \in 1 .. Len(Params) + 1 - 1
  BY <1>2
<1>4. Args[i] = Params[i]
  BY <1>2, ArgsOf
<1>5. CASE abi = "sysv"
  <2>1. offset[i] = IF i \in bystack THEN Mem(H, i) + 1 ELSE 0
    BY <1>1, <1>2, <1>3, <1>5 DEF Framed
  <2>2. CASE i \in bystack
    <3>1. PICK n \in Nat : n = Mem(H, i)
      BY <1>3, TraceTypes
    <3>2. offset[i] = n + 1 /\ offset[i] > 0 /\ offset[i] - 1 = n
      BY <2>1, <2>2, <3>1
    <3>3. Received(i) = AtWords(n, Words(Args[i]))
      BY <1>4, <1>5, <3>2 DEF Received
    <3> QED
      BY <1>1, <1>3, <1>5, <2>2, <3>1, <3>3, FoundOnStack
  <2>3. CASE i \notin bystack
    <3>1. home[i] = Sent(i)
      BY <1>1, <1>2, <1>3, <1>5, <2>3 DEF Homed
    <3>2. ~(offset[i] > 0)
      BY <2>1, <2>3
    <3> QED
      BY <1>5, <3>1, <3>2 DEF Received
  <2> QED
    BY <2>2, <2>3
<1>6. CASE abi = "win"
  <2>1. offset[i] = Position(i)
    BY <1>1, <1>2, <1>3, <1>6 DEF Framed
  <2>2. stack[Len(stack) + 1 - Position(i)] = Want(i, 1)
    BY <1>1, <1>2, <1>3, <1>6 DEF Homed
  <2>3. At(Position(i) - 1) = Want(i, 1)
    BY <1>1, <1>3, <1>6, <2>2, WinSpot
  <2>4. Received(i) = Value(i, Want(i, 1))
    BY <1>6, <2>1, <2>3 DEF Received
  <2>5. Bottom(Last + 1)
    BY <1>1 DEF Laid
  <2> QED
    BY <1>1, <1>3, <1>6, <2>4, <2>5, ValueOf
<1> QED
  BY <1>5, <1>6 DEF Scope

(***************************************************************************)
(* Every parameter has the words of its argument, whatever the types and   *)
(* however many there are: the caller's two decisions, and the callee's,   *)
(* are the same one.                                                       *)
(***************************************************************************)
THEOREM Arrive == AbiSpec => []ArgumentsArrive
<1>1. ASSUME IInv PROVE ArgumentsArrive
  <2>1. ASSUME pc = "body", Agreed, NEW i \in DOMAIN Params
        PROVE  Received(i) = Sent(i)
    <3>1. Scope /\ Known /\ \E H \in Traces : Inv(H)
      BY <1>1, <2>1, AgreedKnown
    <3>2. PICK H \in Traces : Inv(H)
      BY <3>1
    <3>3. i \in 1 .. Len(Params)
      BY <2>1, <3>1, ArgsOf DEF Scope
    <3> QED
      BY <2>1, <3>1, <3>2, <3>3, ParameterArrived
  <2> QED
    BY <2>1 DEF ArgumentsArrive
<1> QED
  BY <1>1, Invariance, PTL

(***************************************************************************)
(* va_arg gives the arguments beyond the parameters, in order, when it     *)
(* knows their types and those of the parameters.                          *)
(***************************************************************************)
THEOREM VarargsAreGot == AbiSpec => []VarargsArrive
<1>1. ASSUME IInv PROVE VarargsArrive
  <2>1. ASSUME pc = "done", abi = "sysv", Agreed, ~VaStart, ~VaTypes, ~VaAligned
        PROVE  got = [k \in DOMAIN call.more |-> Sent(Len(Params) + k)]
    <3>1. Scope /\ \E H \in Traces : Inv(H)
      BY <1>1, <2>1, AgreedKnown
    <3>2. PICK H \in Traces : Inv(H)
      BY <3>1
    <3>3. Got(Len(call.more))
      BY <2>1, <3>2 DEF Inv, Ended, VaKnown
    <3>4. DOMAIN call.more = 1 .. Len(call.more)
      BY <3>1, ArgsOf DEF Scope
    <3> QED
      BY <3>3, <3>4 DEF Got
  <2> QED
    BY <2>1 DEF VarargsArrive
<1> QED
  BY <1>1, Invariance, PTL

\* SysV: word e of argument i is where the psABI has it.
LEMMA PlacedSysV ==
  ASSUME Scope, ~LastRegister, ~LongDouble, abi = "sysv", NEW H \in Traces, Inv(H), pc = "offsets",
         NEW i \in 1 .. Last, NEW e \in 1 .. Words(Args[i])
  PROVE  Holds(places[i][e]) = <<i, e>>
<1>1. TypeOK /\ UsedTypes /\ Laid(H) /\ Called(H)
  BY DEF Inv
<1>2. /\ Last \in Nat /\ call \in Calls /\ ~EmptyStruct /\ DOMAIN Args = 1 .. Last /\ bystack \subseteq DOMAIN Args
      /\ i \in 1 .. Last + 1 - 1 /\ i \in 1 .. Last + 1
  <2>1. Last \in Nat /\ call \in Calls /\ ~EmptyStruct /\ DOMAIN Args = 1 .. Last
    BY <1>1, Sizes
  <2>2. bystack \subseteq DOMAIN Args
    BY <1>1 DEF TypeOK
  <2>3. i \in 1 .. Last + 1 - 1 /\ i \in 1 .. Last + 1
    BY <2>1
  <2> QED
    BY <2>1, <2>2, <2>3
<1>3. Args[i] \in Sized /\ i \in Nat
  BY <1>2, ArgsOf
<1>4. Words(Args[i]) \in Nat /\ e \in Nat
  BY <1>2, WordsOfArg
<1>5. Mem(H, i) \in Nat /\ PG(H, i) \in Nat /\ PF(H, i) \in Nat
  BY <1>3, TraceTypes
<1>6. Straight(bystack)
  BY <1>2 DEF LongDouble, Straight
<1>7. places[i][e] = AbiPlace(H, i, e, bystack)
  <2>1. AbiPlaced(H, Last + 1, bystack, places)
    BY <1>1, <1>6 DEF Laid, AbiAt
  <2> QED
    BY <1>2, <2>1 DEF AbiPlaced
<1>8. Sent(i)[e] = <<i, e>>
  BY DEF Sent
<1>9. CASE i \in bystack
  <2>1. places[i][e] = <<"mem", Mem(H, i) + e - 1>>
    BY <1>7, <1>9 DEF AbiPlace
  <2>2. Holds(places[i][e]) = At(Mem(H, i) + e - 1)
    BY <2>1 DEF Holds
  <2>3. AtWords(Mem(H, i), Words(Args[i])) = Sent(i)
    BY <1>1, <1>9, FoundOnStack
  <2>4. AtWords(Mem(H, i), Words(Args[i]))[e] = At(Mem(H, i) + e - 1)
    BY DEF AtWords
  <2> QED
    BY <1>8, <2>2, <2>3, <2>4
<1>10. CASE i \notin bystack
  <2>1. PopIn(Args[i], PG(H, i), PF(H, i))
    <3>1. SysVPlan(H, Last + 1, bystack)
      BY <1>1 DEF Laid, Plan
    <3>2. SysVDecides(H, i, bystack)
      BY <1>2, <3>1 DEF SysVPlan
    <3> QED
      BY <1>10, <3>2 DEF SysVDecides
  <2>2. Stored(Args[i], PG(H, i), PF(H, i)) = Sent(i)
    <3>1. Loaded(H, i)
      BY <1>1, <1>2, <1>10 DEF Called, InRegisters
    <3> QED
      BY <3>1 DEF Loaded
  <2>3. PICK c : c = Class(Args[i], e)
    OBVIOUS
  <2>4. c \in {"gp", "fp"} /\ EarlierWords(Args[i], e, c) \in Nat
    BY <1>3, <1>4, <2>3, ClassCounts DEF Sized
  <2>5. <<i, e>> = IF c = "gp" THEN gpr[PG(H, i) + EarlierWords(Args[i], e, "gp") + 1]
                               ELSE fpr[PF(H, i) + EarlierWords(Args[i], e, "fp") + 1]
    BY <1>3, <1>5, <1>8, <2>1, <2>2, <2>3, StoredWhere
  <2>6. places[i][e] = <<c, (IF c = "gp" THEN PG(H, i) ELSE PF(H, i)) + EarlierWords(Args[i], e, c)>>
    BY <1>7, <1>10, <2>3 DEF AbiPlace
  <2>7. CASE c = "gp"
    <3>1. places[i][e] = <<"gp", PG(H, i) + EarlierWords(Args[i], e, "gp")>>
      BY <2>6, <2>7
    <3> QED
      BY <2>5, <2>7, <3>1 DEF Holds
  <2>8. CASE c = "fp"
    <3>1. places[i][e] = <<"fp", PF(H, i) + EarlierWords(Args[i], e, "fp")>>
      BY <2>6, <2>8
    <3> QED
      BY <2>5, <2>8, <3>1 DEF Holds
  <2> QED
    BY <2>4, <2>7, <2>8
<1> QED
  BY <1>9, <1>10

(***************************************************************************)
(* At the call every word is in the register or on the stack where the     *)
(* psABI has it, and on Windows where the Windows convention has it.       *)
(***************************************************************************)
THEOREM Placed == AbiSpec => []PlacedAsABI
<1>1. ASSUME IInv PROVE PlacedAsABI
  <2>1. ASSUME ~EmptyStruct, abi = "sysv" => ~(PhantomEightbytes \/ LastRegister \/ LongDouble),
               pc = "offsets", NEW i \in DOMAIN Args
        PROVE  IF abi = "sysv"
                 THEN \A e \in 1 .. Words(Args[i]) : Holds(places[i][e]) = <<i, e>>
                 ELSE Value(i, WinHolds(i)) = Sent(i)
    <3>1. Sound
      BY <2>1 DEF Sound
    <3>2. Scope /\ \E H \in Traces : Inv(H)
      BY <1>1, <3>1, ScopeOf DEF IInv
    <3>3. PICK H \in Traces : Inv(H)
      BY <3>2
    <3>4. i \in 1 .. Last
      BY <2>1, <3>2, ArgsOf DEF Scope
    <3>5. CASE abi = "sysv"
      BY <2>1, <3>2, <3>3, <3>4, <3>5, PlacedSysV
    <3>6. CASE abi = "win"
      <4>1. TypeOK /\ UsedTypes /\ Laid(H) /\ Called(H) /\ Bottom(Last + 1)
        BY <2>1, <3>3 DEF Inv, Laid
      <4>2. WinHolds(i) = Want(i, 1)
        BY <3>2, <3>4, <3>6, <4>1, WinSpot
      <4>3. Value(i, Want(i, 1)) = Sent(i)
        BY <3>2, <3>4, <3>6, <4>1, ValueOf
      <4> QED
        BY <3>6, <4>2, <4>3
    <3> QED
      BY <3>2, <3>5, <3>6 DEF Scope
  <2> QED
    BY <2>1 DEF PlacedAsABI, AsSpecified
<1> QED
  BY <1>1, Invariance, PTL
===============================================================================
