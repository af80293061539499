-------------------------------- MODULE CallConv --------------------------------
(***************************************************************************)
(* One call: what the caller's code does to place the arguments (push_args *)
(* and the pop loop of ND_FUNCALL), what the callee's does to find them    *)
(* (assign_lvar_offsets, the prologue, va_arg), on SysV and on Windows.    *)
(*                                                                         *)
(* Memory is words of eight bytes; word w of argument i is <<i, w>>.  The  *)
(* stack is a sequence that grows at its end.  A type is known by its kind *)
(* and size; a struct also by its scalars, each an offset and a kind.      *)
(***************************************************************************)
EXTENDS Integers, Sequences, FiniteSets

CONSTANTS
  GpMax, FpMax, WinMax,  \* SYSV_GP_MAX, SYSV_FP_MAX, X64WIN_REG_MAX
  Calls

(***************************************************************************)
(* A call: the types of the parameters, of the arguments beyond them, if   *)
(* the function is variadic, whether it returns a struct in memory, and    *)
(* how many temporaries the caller has on its stack.                       *)
(***************************************************************************)
Kinds == {"int", "float", "ldouble", "struct"}
ArgTypes ==
  {ty \in [kind : Kinds, size : Nat, scalars : SUBSET (Nat \X (Kinds \ {"struct"}))] :
     /\ ty.kind \in {"int", "float"} => ty.size = 8
     /\ ty.kind = "ldouble" => ty.size = 16
     /\ ty.kind # "struct" => ty.scalars = {<<0, ty.kind>>}
     /\ \A m \in ty.scalars : m[1] < ty.size}

\* The homes of the registers on Windows leave the stack aligned.
ASSUME RegistersAssumption == {GpMax, FpMax, WinMax} \subseteq Nat \ {0} /\ WinMax % 2 = 0

\* A function with a parameter of size 0 does not compile: store_fp knows no such size.
ASSUME CallsAssumption ==
  Calls \subseteq [params : Seq({ty \in ArgTypes : ty.size > 0}), more : Seq(ArgTypes), big : BOOLEAN, temps : Nat]

VARIABLES
  abi,      \* "sysv" or "win"
  call,
  pc,
  arg,      \* the argument, parameter or variadic argument that is next
  gp, fp,   \* the counters of the loop that runs (on Windows reg is gp)
  bystack,  \* pass_by_stack
  copies,   \* pass_by_reference: where on the stack the copy of an argument is
  copied,   \* by_ref_copies_size, in words
  depth,    \* C(depth)
  args,     \* stack_args
  stack,
  gpr, fpr, \* argument registers
  top,      \* the next place for a parameter, in words above rbp + 16
  offset,   \* the place of a parameter, one more than its word; 0: a local slot
  home,     \* the local slots of parameters
  va,       \* va_area: gp_offset, fp_offset, overflow_arg_area, in words
  got       \* what va_arg gave

vars == <<abi, call, pc, arg, gp, fp, bystack, copies, copied, depth, args, stack,
          gpr, fpr, top, offset, home, va, got>>

Args == call.params \o call.more
Params == call.params
N(b) == IF b THEN 1 ELSE 0

IsStruct(ty) == ty.kind = "struct"
Words(ty) == (ty.size + 7) \div 8
Sent(i) == [w \in 1 .. Words(Args[i]) |-> <<i, w>>]

\* The words of an argument as they are pushed, the last first.
Downwards(i) == [w \in 1 .. Words(Args[i]) |-> <<i, Words(Args[i]) + 1 - w>>]

\* Words of the stack that are no argument: temporaries, padding, addresses, anything.
Temp == <<-1, 0>>
Pad == <<-2, 0>>
Junk == <<-3, 0>>
Shadow == <<-4, 0>>
RetBuffer == <<0, 0>>
Ref(at) == <<-5, at>>

Word == Int \X Int

TypeOK ==
  /\ abi \in {"sysv", "win"} /\ call \in Calls
  /\ pc \in {"classify", "first", "second", "pop", "offsets", "prologue", "body", "done"}
  /\ arg \in 0 .. Len(Args) + 1
  /\ {gp, fp, args, top, copied} \subseteq Nat /\ depth \in Int
  /\ bystack \subseteq DOMAIN Args
  /\ copies \in [DOMAIN Args -> Int]
  /\ stack \in Seq(Word)
  /\ gpr \in [1 .. GpMax + WinMax -> Word] /\ fpr \in [1 .. FpMax + WinMax -> Word]
  /\ offset \in [DOMAIN Params -> Nat] /\ home \in [DOMAIN Params -> Seq(Word)]
  /\ va \in [gp : Nat, fp : Nat, mem : Nat] /\ got \in Seq(Seq(Word))

Init ==
  /\ abi \in {"sysv", "win"} /\ call \in Calls
  /\ abi = "win" => \A i \in DOMAIN Args : Args[i].kind # "ldouble"
  /\ pc = "classify" /\ arg = 1
  /\ gp = N(call.big) /\ fp = 0
  /\ bystack = {} /\ copies = [i \in DOMAIN Args |-> 0] /\ copied = 0
  /\ stack = [i \in 1 .. call.temps |-> Temp] /\ depth = call.temps /\ args = 0
  /\ gpr = [r \in 1 .. GpMax + WinMax |-> Junk] /\ fpr = [r \in 1 .. FpMax + WinMax |-> Junk]
  /\ top = 0 /\ offset = [i \in DOMAIN Params |-> 0]
  /\ home = [i \in DOMAIN Params |-> <<>>]
  /\ va = [gp |-> 0, fp |-> 0, mem |-> 0] /\ got = <<>>

-------------------------------------------------------------------------------
(***************************************************************************)
(* has_flonum: ty, placed at start, has nothing but float and double in    *)
(* the bytes from lo to hi, or nothing at all.                             *)
(***************************************************************************)
has_flonum(ty, lo, hi, start) ==
  \A m \in ty.scalars : m[1] + start \in lo .. hi - 1 => m[2] = "float"

Fp1(ty) == N(has_flonum(ty, 0, 8, 0))
Fp2(ty) == N(has_flonum(ty, 8, 16, 0))

\* Whether an argument goes in registers, and the counters then.
Fit(in, g, f) == [in |-> in, gp |-> g, fp |-> f]

(***************************************************************************)
(* The caller decides twice, and the callee again.  push_args counts an    *)
(* eightbyte that a small struct does not have; the pop loop does not.     *)
(***************************************************************************)
StructFits(ty, g, f) ==
  LET h == Fp1(ty) + Fp2(ty) IN ty.size <= 16 /\ f + h < FpMax /\ g + 2 - h < GpMax

PushPlace(ty, g, f) ==
  LET h == Fp1(ty) + Fp2(ty)
  IN  CASE IsStruct(ty) -> IF StructFits(ty, g, f) THEN Fit(TRUE, g + 2 - h, f + h)
                                                  ELSE Fit(FALSE, g, f)
        [] ty.kind = "float" -> Fit(f < FpMax, g, f + 1)
        [] ty.kind = "ldouble" -> Fit(FALSE, g, f)
        [] OTHER -> Fit(g < GpMax, g + 1, f)

PopPlace(ty, g, f) ==
  LET two == ty.size > 8
  IN  CASE IsStruct(ty) ->
             IF StructFits(ty, g, f)
               THEN Fit(TRUE, g + (1 - Fp1(ty)) + (IF two THEN 1 - Fp2(ty) ELSE 0),
                              f + Fp1(ty) + (IF two THEN Fp2(ty) ELSE 0))
               ELSE Fit(FALSE, g, f)
        [] ty.kind = "float" -> Fit(f < FpMax, g, f + N(f < FpMax))
        [] ty.kind = "ldouble" -> Fit(FALSE, g, f)
        [] OTHER -> Fit(g < GpMax, g + N(g < GpMax), f)

\* Mutant: the first register too many is used.
FrameOnePast(ty, g, f) ==
  CASE IsStruct(ty) -> PushPlace(ty, g, f)
    [] ty.kind = "float" -> Fit(f < FpMax, g, f + 1)
    [] ty.kind = "ldouble" -> Fit(FALSE, g, f)
    [] OTHER -> Fit(g <= GpMax, g + 1, f)

\* assign_lvar_offsets looks at the second half of a struct as if it lay at 8.
FramePlace(ty, g, f) ==
  LET small == ty.size <= 8
      h == Fp1(ty) + (IF small THEN 0 ELSE N(has_flonum(ty, 8, 16, 8)))
      n == (IF small THEN 1 ELSE 2) - h
  IN  CASE IsStruct(ty) -> IF ty.size <= 16 /\ f + h < FpMax /\ g + n < GpMax
                             THEN Fit(TRUE, g + n, f + h) ELSE Fit(FALSE, g, f)
        [] ty.kind = "float" -> Fit(f < FpMax, g, f + 1)
        [] ty.kind = "ldouble" -> Fit(FALSE, g, f)
        [] OTHER -> Fit(g < GpMax, g + 1, f)

\* Windows: every argument takes one of the positions.
WinPlace(g) == Fit(g < WinMax, g + 1, 0)
type_passed_in_register(ty) == ty.size \in {1, 2, 4, 8}
ByReference(ty) == abi = "win" /\ IsStruct(ty) /\ ~type_passed_in_register(ty)

-------------------------------------------------------------------------------
\* The caller.

(***************************************************************************)
(* push_args, the first loop.  On Windows a struct that goes by reference  *)
(* is copied to the stack at once.                                         *)
(***************************************************************************)
Classify ==
  /\ pc = "classify" /\ arg <= Len(Args)
  /\ LET ty == Args[arg]
         place == IF abi = "win" THEN WinPlace(gp) ELSE PushPlace(ty, gp, fp)
         copy == IF ByReference(ty) THEN Downwards(arg) ELSE <<>>
     IN  /\ gp' = place.gp /\ fp' = place.fp
         /\ bystack' = IF place.in THEN bystack ELSE bystack \union {arg}
         /\ args' = args + (IF place.in THEN 0 ELSE IF abi = "win" THEN 1 ELSE Words(ty))
         /\ stack' = stack \o copy /\ depth' = depth + Len(copy)
         /\ copied' = copied + Len(copy)
         /\ copies' = IF ByReference(ty) THEN [copies EXCEPT ![arg] = depth + Len(copy)] ELSE copies
  /\ arg' = arg + 1
  /\ UNCHANGED <<abi, call, pc, gpr, fpr, top, offset, home, va, got>>

Odd == (depth + args) % 2

\* Mutant: the stack is not realigned.
EvenPadding == 0
Padding == Odd

Realign ==
  /\ pc = "classify" /\ arg > Len(Args)
  /\ stack' = stack \o [i \in 1 .. Padding |-> Pad]
  /\ depth' = depth + Padding /\ args' = args + Padding
  /\ pc' = "first" /\ arg' = 1
  /\ UNCHANGED <<abi, call, gp, fp, bystack, copies, copied, gpr, fpr, top, offset, home, va, got>>

(***************************************************************************)
(* push_args2, first for the arguments that stay on the stack and then for *)
(* those that go to registers; it calls itself for the next argument       *)
(* before it pushes one, so that the last is pushed first.                 *)
(***************************************************************************)
Pushed(i) == IF ByReference(Args[i]) THEN <<Ref(copies[i])>> ELSE Downwards(i)

\* Mutant: the first argument is pushed first.
FirstFirst(k) == k
LastFirst(k) == Len(Args) + 1 - k

push_args2 ==
  /\ pc \in {"first", "second"} /\ arg <= Len(Args)
  /\ LET i == LastFirst(arg)
         words == IF (pc = "first") = (i \in bystack) THEN Pushed(i) ELSE <<>>
     IN  stack' = stack \o words /\ depth' = depth + Len(words)
  /\ arg' = arg + 1
  /\ UNCHANGED <<abi, call, pc, gp, fp, bystack, copies, copied, args, gpr, fpr, top, offset, home, va, got>>

SecondPass ==
  /\ pc = "first" /\ arg > Len(Args)
  /\ pc' = "second" /\ arg' = 1
  /\ UNCHANGED <<abi, call, gp, fp, bystack, copies, copied, depth, args, stack, gpr, fpr, top, offset, home, va, got>>

PushRetBuffer ==
  /\ pc = "second" /\ arg > Len(Args)
  /\ stack' = IF call.big THEN Append(stack, RetBuffer) ELSE stack
  /\ depth' = depth + N(call.big)
  /\ pc' = "pop" /\ arg' = N(~call.big) /\ gp' = 0 /\ fp' = 0
  /\ UNCHANGED <<abi, call, bystack, copies, copied, args, gpr, fpr, top, offset, home, va, got>>

\* The words that n pops give, and the stack behind them.
Popped(n) == [k \in 1 .. n |-> IF k <= Len(stack) THEN stack[Len(stack) + 1 - k] ELSE Junk]
Behind(n) == SubSeq(stack, 1, Len(stack) - n)

PopRetBuffer ==
  /\ pc = "pop" /\ arg = 0
  /\ gpr' = [gpr EXCEPT ![1] = Popped(1)[1]] /\ gp' = 1
  /\ stack' = Behind(1) /\ depth' = depth - 1
  /\ arg' = 1
  /\ UNCHANGED <<abi, call, pc, fp, bystack, copies, copied, args, fpr, top, offset, home, va, got>>

\* SysV: the pop loop of ND_FUNCALL.
PopSysV ==
  /\ pc = "pop" /\ abi = "sysv" /\ arg \in DOMAIN Args
  /\ LET ty == Args[arg]
         place == PopPlace(ty, gp, fp)
         n == (place.gp - gp) + (place.fp - fp)
         first == IF IsStruct(ty) THEN Fp1(ty) = 0 ELSE ty.kind = "int"
         w == Popped(n)
     IN  /\ gp' = place.gp /\ fp' = place.fp
         /\ gpr' = [r \in DOMAIN gpr |->
                      IF r \notin gp + 1 .. place.gp THEN gpr[r]
                      ELSE IF first THEN w[r - gp] ELSE w[n]]
         /\ fpr' = [r \in DOMAIN fpr |->
                      IF r \notin fp + 1 .. place.fp THEN fpr[r]
                      ELSE IF first THEN w[n] ELSE w[r - fp]]
         /\ stack' = Behind(n) /\ depth' = depth - n
  /\ arg' = arg + 1
  /\ UNCHANGED <<abi, call, pc, bystack, copies, copied, args, top, offset, home, va, got>>

\* Windows: the register of a float also goes to the integer register of its position.
PopWin ==
  /\ pc = "pop" /\ abi = "win" /\ arg \in DOMAIN Args
  /\ IF gp < WinMax /\ (ByReference(Args[arg]) => copies[arg] > 0)
       THEN /\ gpr' = [gpr EXCEPT ![gp + 1] = Popped(1)[1]]
            /\ fpr' = IF Args[arg].kind = "float" THEN [fpr EXCEPT ![gp + 1] = Popped(1)[1]] ELSE fpr
            /\ gp' = gp + 1 /\ stack' = Behind(1) /\ depth' = depth - 1
       ELSE UNCHANGED <<gpr, fpr, gp, stack, depth>>
  /\ arg' = arg + 1
  /\ UNCHANGED <<abi, call, pc, fp, bystack, copies, copied, args, top, offset, home, va, got>>

(***************************************************************************)
(* The call.  Windows has a home for each register on the stack.  The      *)
(* pointer to the return buffer is the callee's first parameter; it takes  *)
(* a register and its home, and is not followed further.                   *)
(***************************************************************************)
Call ==
  /\ pc = "pop" /\ arg > Len(Args)
  /\ stack' = stack \o (IF abi = "win" THEN [i \in 1 .. WinMax |-> Shadow] ELSE <<>>)
  /\ pc' = "offsets" /\ arg' = 1
  /\ gp' = N(call.big) /\ fp' = 0
  /\ top' = IF abi = "win" THEN N(call.big) ELSE 0
  /\ UNCHANGED <<abi, call, bystack, copies, copied, depth, args, gpr, fpr, offset, home, va, got>>

-------------------------------------------------------------------------------
\* The callee.

\* The word at rbp + 16 + 8 * w.
At(w) == IF w < Len(stack) THEN stack[Len(stack) - w] ELSE Junk
AtWords(w, n) == [k \in 1 .. n |-> At(w + k - 1)]

(***************************************************************************)
(* assign_lvar_offsets, for the parameters.                                *)
(***************************************************************************)
assign_lvar_offsets ==
  /\ pc = "offsets" /\ arg <= Len(Params)
  /\ LET ty == Params[arg]
         place == IF abi = "win" THEN WinPlace(gp) ELSE FramePlace(ty, gp, fp)
         onstack == abi = "win" \/ ~place.in
         size == IF ByReference(ty) \/ (abi = "win" /\ place.in) THEN 1 ELSE Words(ty)
     IN  /\ gp' = place.gp /\ fp' = place.fp
         /\ offset' = [offset EXCEPT ![arg] = IF onstack THEN top + 1 ELSE 0]
         /\ top' = IF onstack THEN top + size ELSE top
  /\ arg' = arg + 1
  /\ UNCHANGED <<abi, call, pc, bystack, copies, copied, depth, args, stack, gpr, fpr, home, va, got>>

(***************************************************************************)
(* The prologue first fills va_area: it counts parameters, and takes the   *)
(* arguments on the stack for all of those beyond.                         *)
(***************************************************************************)
IsFlonum(ty) == ty.kind \in {"float", "ldouble"}

\* Mutant: the pointer to the return buffer is not counted.
VisibleIntegers == Cardinality({i \in DOMAIN Params : ~IsFlonum(Params[i])})
IntegerParams == N(call.big) + Cardinality({i \in DOMAIN Params : ~IsFlonum(Params[i])})
FlonumParams == Cardinality({i \in DOMAIN Params : IsFlonum(Params[i])})

FinishOffsets ==
  /\ pc = "offsets" /\ arg > Len(Params)
  /\ va' = [gp |-> IntegerParams, fp |-> FlonumParams, mem |-> 0]
  /\ pc' = "prologue" /\ arg' = 1
  /\ gp' = N(call.big) /\ fp' = 0
  /\ stack' = IF abi = "win" /\ call.big THEN [stack EXCEPT ![Len(stack)] = gpr[1]] ELSE stack
  /\ UNCHANGED <<abi, call, bystack, copies, copied, depth, args, gpr, fpr, top, offset, home, got>>

Gpr(r) == IF r < GpMax THEN gpr[r + 1] ELSE Junk
Fpr(r) == IF r < FpMax THEN fpr[r + 1] ELSE Junk

\* The registers that hold parameter ty if it starts at g and f.
Stored(ty, g, f) ==
  LET first == IF Fp1(ty) = 1 THEN Fpr(f) ELSE Gpr(g)
      second == IF Fp2(ty) = 1 THEN Fpr(f + Fp1(ty)) ELSE Gpr(g + 1 - Fp1(ty))
  IN  CASE IsStruct(ty) -> IF ty.size > 8 THEN <<first, second>> ELSE <<first>>
        [] ty.kind = "float" -> <<Fpr(f)>>
        [] OTHER -> <<Gpr(g)>>

PrologueSysV ==
  /\ pc = "prologue" /\ abi = "sysv" /\ arg <= Len(Params)
  /\ LET ty == Params[arg]
         f == IF IsStruct(ty) THEN Fp1(ty) + (IF ty.size > 8 THEN Fp2(ty) ELSE 0)
              ELSE N(ty.kind = "float")
     IN  IF offset[arg] > 0 THEN UNCHANGED <<home, gp, fp>>
         ELSE /\ home' = [home EXCEPT ![arg] = Stored(ty, gp, fp)]
              /\ fp' = fp + f /\ gp' = gp + Len(Stored(ty, gp, fp)) - f
  /\ arg' = arg + 1
  /\ UNCHANGED <<abi, call, pc, bystack, copies, copied, depth, args, stack, gpr, fpr, top, offset, va, got>>

\* A variadic function stores the integer registers, where the caller put floats too.
PrologueWin ==
  /\ pc = "prologue" /\ abi = "win" /\ arg <= Len(Params)
  /\ IF offset[arg] > WinMax THEN UNCHANGED <<stack, gp>>
     ELSE /\ stack' = [stack EXCEPT ![Len(stack) + 1 - offset[arg]] =
                         IF Params[arg].kind = "float" /\ call.more = <<>> THEN fpr[gp + 1] ELSE gpr[gp + 1]]
          /\ gp' = gp + 1
  /\ arg' = arg + 1
  /\ UNCHANGED <<abi, call, pc, fp, bystack, copies, copied, depth, args, gpr, fpr, top, offset, home, va, got>>

FinishPrologue ==
  /\ pc = "prologue" /\ arg > Len(Params)
  /\ pc' = "body" /\ arg' = 1
  /\ UNCHANGED <<abi, call, gp, fp, bystack, copies, copied, depth, args, stack, gpr, fpr, top, offset, home, va, got>>

(***************************************************************************)
(* va_arg: __builtin_reg_class decides, and a class whose registers are    *)
(* used up goes to memory (stdarg.h), where what is aligned to 16 bytes is *)
(* at an even word, rbp + 16 being aligned.  Of the types modelled these   *)
(* are the ones with a long double.                                        *)
(***************************************************************************)
Aligned16(ty) == \E m \in ty.scalars : m[2] = "ldouble"
VaMem(ty) == va.mem + (IF Aligned16(ty) THEN va.mem % 2 ELSE 0)

VaArg ==
  /\ pc = "body" /\ abi = "sysv" /\ arg <= Len(call.more)
  /\ LET ty == call.more[arg]
         n == Words(ty)
         mem == AtWords(VaMem(ty), n)
     IN  IF ty.kind = "int" /\ va.gp < GpMax
           THEN got' = Append(got, <<Gpr(va.gp)>>) /\ va' = [va EXCEPT !.gp = @ + 1]
         ELSE IF IsFlonum(ty) /\ va.fp < FpMax
           THEN got' = Append(got, [k \in 1 .. n |-> Fpr(va.fp + k - 1)]) /\ va' = [va EXCEPT !.fp = @ + 1]
         ELSE got' = Append(got, mem) /\ va' = [va EXCEPT !.mem = VaMem(ty) + n]
  /\ arg' = arg + 1
  /\ UNCHANGED <<abi, call, pc, gp, fp, bystack, copies, copied, depth, args, stack, gpr, fpr, top, offset, home>>

\* add rsp, stack_args * 8 and what Windows added.
Return ==
  /\ pc = "body" /\ (abi = "win" \/ arg > Len(call.more))
  /\ stack' = Behind(args + copied + (IF abi = "win" THEN WinMax ELSE 0))
  /\ depth' = depth - args - copied
  /\ pc' = "done"
  /\ UNCHANGED <<abi, call, arg, gp, fp, bystack, copies, copied, args, gpr, fpr, top, offset, home, va, got>>

Done == pc = "done" /\ UNCHANGED vars

Step ==
  \/ Classify \/ Realign \/ push_args2 \/ SecondPass \/ PushRetBuffer \/ PopRetBuffer \/ PopSysV \/ PopWin \/ Call
  \/ assign_lvar_offsets \/ FinishOffsets \/ PrologueSysV \/ PrologueWin \/ FinishPrologue
  \/ VaArg \/ Return
Next == Step \/ Done
Spec == Init /\ [][Next]_vars
===============================================================================
