---------------------------------- MODULE PsAbi ----------------------------------
(***************************************************************************)
(* Where the x86-64 psABI and the Windows convention place the arguments   *)
(* of a call, against which the code's caller and callee are held.         *)
(***************************************************************************)
EXTENDS CallConv

\* The class of an eightbyte: SSE if all that lies in it is floating.
Class(ty, e) ==
  IF \A m \in ty.scalars : m[1] \div 8 = e - 1 => m[2] = "float" THEN "fp" ELSE "gp"
InMemory(ty) ==
  ty.kind = "ldouble" \/ ty.size > 16 \/ \E m \in ty.scalars : m[2] = "ldouble"
Needs(ty, c) == Cardinality({e \in 1 .. Words(ty) : Class(ty, e) = c})

(***************************************************************************)
(* The psABI goes through the arguments as well: it is asked for the place *)
(* of an argument when push_args comes to it.                              *)
(***************************************************************************)
VARIABLES
  used,    \* how many registers of each kind, and words of the stack, it has given out
  places   \* the places of the words of each argument: <<"gp", r>>, <<"fp", r>>, <<"mem", w>>

Available(ty) ==
  ~InMemory(ty) /\ used.gp + Needs(ty, "gp") <= GpMax /\ used.fp + Needs(ty, "fp") <= FpMax
NextWord(ty) == used.mem + (IF Aligned16(ty) THEN used.mem % 2 ELSE 0)
EarlierWords(ty, e, c) == Cardinality({d \in 1 .. e - 1 : Class(ty, d) = c})
Place(ty, e) ==
  IF ~Available(ty) THEN <<"mem", NextWord(ty) + e - 1>>
  ELSE <<Class(ty, e), used[Class(ty, e)] + EarlierWords(ty, e, Class(ty, e))>>

Assign ==
  LET ty == Args[arg]
  IN  /\ used' = IF Available(ty)
                   THEN [used EXCEPT !.gp = @ + Needs(ty, "gp"), !.fp = @ + Needs(ty, "fp")]
                   ELSE [used EXCEPT !.mem = NextWord(ty) + Words(ty)]
      /\ places' = Append(places, [e \in 1 .. Words(ty) |-> Place(ty, e)])

AbiInit == Init /\ used = [gp |-> N(call.big), fp |-> 0, mem |-> 0] /\ places = <<>>
AbiNext ==
  \/ Classify /\ Assign
  \/ /\ Realign \/ push_args2 \/ SecondPass \/ PushRetBuffer \/ PopRetBuffer \/ PopSysV \/ PopWin \/ Call
        \/ assign_lvar_offsets \/ FinishOffsets \/ PrologueSysV \/ PrologueWin \/ FinishPrologue
        \/ VaArg \/ Return \/ Done
     /\ UNCHANGED <<used, places>>
AbiSpec == AbiInit /\ [][AbiNext]_<<vars, used, places>>

Holds(place) ==
  CASE place[1] = "gp" -> gpr[place[2] + 1]
    [] place[1] = "fp" -> fpr[place[2] + 1]
    [] OTHER -> At(place[2])

\* Windows: argument i has position i; from the fifth on it is above the homes.
WinHolds(i) ==
  LET p == i + N(call.big)
  IN  IF p > WinMax THEN At(p - 1)
      ELSE IF Args[i].kind = "float" THEN fpr[p] ELSE gpr[p]

\* What a word stands for: itself, or the copy it points at.
Value(i, w) ==
  IF w[1] = Ref(0)[1]
    THEN [k \in 1 .. Words(Args[i]) |-> IF w[2] - k + 1 \in DOMAIN stack THEN stack[w[2] - k + 1] ELSE Junk]
    ELSE <<w>>

-------------------------------------------------------------------------------
(***************************************************************************)
(* Where the code departs from the psABI, or caller from callee; each is a *)
(* finding.                                                                *)
(***************************************************************************)
InPieces(ty) == ty.kind # "ldouble" /\ ty.size <= 16
Eightbytes(k, c) ==
  {x \in (1 .. k) \X {1, 2} : LET ty == Args[x[1]] IN InPieces(ty) /\ x[2] <= Words(ty) /\ Class(ty, x[2]) = c}
Upto(k, c) == N(c = "gp" /\ call.big) + Cardinality(Eightbytes(k, c))
Structs == {i \in DOMAIN Args : IsStruct(Args[i]) /\ Args[i].size <= 16}
Small == {i \in Structs : Args[i].size <= 8}
SmallUpto(k) == Cardinality({i \in Small : i <= k})

\* push_args counts a second eightbyte of every small struct as floating.
PhantomEightbytes ==
  \E k \in DOMAIN Args :
    SmallUpto(k) > 0 /\ Upto(k, "fp") + SmallUpto(k) + N(k \in Structs) > FpMax

\* Nothing is pushed for a struct without members, but a word is popped.
EmptyStruct == \E k \in DOMAIN Args : Args[k].size = 0

\* The code wants a register to spare for a struct, though it would just fit.
LastRegister ==
  \E k \in Structs :
    \/ Upto(k, "gp") >= GpMax
    \/ Upto(k, "fp") >= FpMax

\* The callee takes the second half of a struct for floating if the first is.
Mixed == {k \in Structs : Args[k].size > 8 /\ Fp1(Args[k]) # Fp2(Args[k])}
SecondHalf ==
  Mixed # {} /\ \E c \in {<<"gp", GpMax>>, <<"fp", FpMax>>} :
    Upto(Len(Params), c[1]) + Cardinality(Mixed) >= c[2]

\* A long double is not aligned on the stack, and in a small struct it is taken for an integer.
LongDouble ==
  \/ \E k \in DOMAIN Args : IsStruct(Args[k]) /\ Aligned16(Args[k])
  \/ /\ \E k \in DOMAIN Args : Args[k].kind = "ldouble"
     /\ \E k \in bystack : Args[k].kind # "ldouble"

(***************************************************************************)
(* va_start knows nothing of parameters on the stack or in more than one   *)
(* register; va_arg takes structs from memory and long double from fpr;    *)
(* and it aligns, as the psABI does, where push_args has not.              *)
(***************************************************************************)
VaStart ==
  \/ \E k \in DOMAIN Params : Params[k].kind \notin {"int", "float"}
  \/ Upto(Len(Params), "gp") > GpMax \/ Upto(Len(Params), "fp") > FpMax
VaAligned ==
  \E k \in bystack :
    /\ Aligned16(Args[k])
    /\ Cardinality({j \in bystack : j < k /\ Words(Args[j]) % 2 = 1}) % 2 = 1
VaTypes == \E k \in DOMAIN call.more : Words(call.more[k]) \in {1, 2} /\ call.more[k].kind \notin {"int", "float"}

-------------------------------------------------------------------------------
\* What the callee takes parameter i to be.
Received(i) ==
  LET ty == Params[i]
  IN  IF abi = "sysv" THEN IF offset[i] > 0 THEN AtWords(offset[i] - 1, Words(ty)) ELSE home[i]
      ELSE Value(i, At(offset[i] - 1))

(***************************************************************************)
(* Caller and callee, which count registers separately, agree: every       *)
(* parameter has the words of its argument.                                *)
(***************************************************************************)
Agreed == ~EmptyStruct /\ (abi = "sysv" => ~(PhantomEightbytes \/ SecondHalf))
ArgumentsArrive ==
  pc = "body" /\ Agreed => \A i \in DOMAIN Params : Received(i) = Sent(i)

(***************************************************************************)
(* At the call every argument is where the convention has it, for the      *)
(* callee may be compiled by another compiler (the host's functions):      *)
(* "as specified by the x86-64 psABI" (push_args_sysv).                    *)
(***************************************************************************)
AsSpecified ==
  pc = "offsets" /\ arg = 1 =>
    \A i \in DOMAIN Args :
      IF abi = "sysv"
        THEN \A e \in 1 .. Words(Args[i]) : Holds(places[i][e]) = <<i, e>>
        ELSE Value(i, WinHolds(i)) = Sent(i)

PlacedAsABI ==
  ~EmptyStruct /\ (abi = "sysv" => ~(PhantomEightbytes \/ LastRegister \/ LongDouble)) => AsSpecified

(***************************************************************************)
(* rsp is aligned to 16 at the call, and a call leaves the stack and       *)
(* C(depth) as they were: assert(C(depth) == 0) at the end of a function.  *)
(***************************************************************************)
StackKept ==
  /\ pc = "offsets" /\ arg = 1 /\ Agreed => Len(stack) % 2 = 0
  /\ pc = "done" /\ Agreed => depth = call.temps /\ stack = [i \in 1 .. call.temps |-> Temp]

\* va_arg gives the arguments beyond the parameters, in order.
VarargsArrive ==
  pc = "done" /\ abi = "sysv" /\ Agreed /\ ~VaStart /\ ~VaTypes /\ ~VaAligned =>
    got = [k \in DOMAIN call.more |-> Sent(Len(Params) + k)]
===============================================================================
