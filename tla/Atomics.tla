-------------------------------- MODULE Atomics --------------------------------
(***************************************************************************)
(* The code of operations on an _Atomic object that threads share:         *)
(* stdatomic.h, to_assign, and ND_CAS, ND_LOCKCE and ND_EXCH in gen_expr.  *)
(* A step is an access to the object, or what is done between two of them. *)
(***************************************************************************)
EXTENDS Integers, Sequences

CONSTANTS
  Threads,
  Nothing,       \* for a thread that has read nothing
  Types,         \* the types of the object
  Programs(_)    \* for a type, what operations the threads may do one after the other

(***************************************************************************)
(* An operation has a kind, an operand v and the value that is expected;   *)
(* computed: the operand is the result of arithmetic in int.               *)
(***************************************************************************)
Loops == {"opassign", "inc", "fetch"}
OpType ==
  [k : Loops \union {"member", "load", "store", "exchange", "cas", "lockce"},
   v : Int, expected : Int, computed : BOOLEAN]
Proper(op) == (op.k = "inc" => op.v = 1) /\ (op.computed => op.v \in -4 .. 3)

ASSUME TypesAssumption == Types \subseteq {"char", "int", "long", "float", "double"}
ASSUME ProgramsAssumption ==
  \A type \in Types : \A program \in Programs(type) :
    /\ program \in [Threads -> Seq(OpType)]
    /\ \A t \in Threads : \A i \in 1 .. Len(program[t]) :
         /\ Proper(program[t][i])
         /\ type \in {"float", "double"} => program[t][i].k \notin {"exchange", "cas", "lockce"}
ASSUME NothingAssumption == Nothing \notin Int

VARIABLES
  ty,       \* the type of the object
  x,        \* the object
  todo,     \* the operations of each thread, first the one it is at
  pc,       \* where it is in that: "begin", "compute", "cas", "store"
  old, new, \* the variables of the loop
  results   \* the values of the operations that are done

vars == <<ty, x, todo, pc, old, new, results>>

Object ==
  INSTANCE AtomicObject WITH
    value <- x,
    seen <- [t \in Threads |-> IF todo[t] # <<>> /\ Head(todo[t]).k = "member" /\ pc[t] # "begin" THEN old[t] ELSE Nothing]

Numbers(type) == Object!Numbers(type)
Low(v, numbers) == Object!Low(v, numbers)
As(v, type) == Object!As(v, type)
is_flonum == ty \in {"float", "double"}

Op(t) == Head(todo[t])
At(t, where, kinds) == todo[t] # <<>> /\ pc[t] = where /\ Op(t).k \in kinds

Init ==
  /\ ty \in Types /\ x = 0
  /\ todo \in Programs(ty)
  /\ pc = [t \in Threads |-> "begin"]
  /\ old = [t \in Threads |-> 0] /\ new = [t \in Threads |-> 0]
  /\ results = [t \in Threads |-> <<>>]

GoesTo(t, where) == pc' = [pc EXCEPT ![t] = where] /\ UNCHANGED <<ty, todo, results>>
Returns(t, v) ==
  /\ results' = [results EXCEPT ![t] = Append(@, v)]
  /\ todo' = [todo EXCEPT ![t] = Tail(@)]
  /\ pc' = [pc EXCEPT ![t] = "begin"]
  /\ UNCHANGED ty

Load(t) ==
  /\ At(t, "begin", {"load"})
  /\ Returns(t, x) /\ UNCHANGED <<x, old, new>>

Store(t) ==
  /\ At(t, "begin", {"store"})
  /\ x' = As(Op(t).v, ty)
  /\ Returns(t, x') /\ UNCHANGED <<old, new>>

(***************************************************************************)
(* A op= B, also as A++, which is cast((A += 1) - 1), and as a function    *)
(* atomic_fetch_..., which is *A op= B: a loop that compares and swaps; of *)
(* a member it is an assignment as if it were not atomic.                  *)
(***************************************************************************)
ReadOld(t) ==
  /\ At(t, "begin", Loops \union {"member"})
  /\ old' = [old EXCEPT ![t] = x]
  /\ GoesTo(t, "compute") /\ UNCHANGED <<x, new>>

Compute(t) ==
  /\ At(t, "compute", Loops \union {"member"})
  /\ new' = [new EXCEPT ![t] = As(old[t] + Op(t).v, ty)]
  /\ GoesTo(t, IF Op(t).k = "member" THEN "store" ELSE "cas") /\ UNCHANGED <<x, old>>

StoreMember(t) ==
  /\ At(t, "store", {"member"})
  /\ x' = new[t]
  /\ Returns(t, new[t]) /\ UNCHANGED <<old, new>>

\* rax is compared; a floating number is not there but in xmm0, and in rax an address.
Equal(t) == ~is_flonum /\ x = old[t]
\* Mutant: it does not leave what it found in the variable.
SwapForgets(t) ==
  /\ At(t, "cas", Loops)
  /\ \/ /\ Equal(t)
        /\ x' = new[t]
        /\ Returns(t, IF Op(t).k = "inc" THEN As(new[t] - 1, ty) ELSE new[t]) /\ UNCHANGED <<old, new>>
     \/ ~Equal(t) /\ GoesTo(t, "compute") /\ UNCHANGED <<x, old, new>>
\* Mutant: the loop ends when the swap has failed.
SwapOnce(t) ==
  /\ At(t, "cas", Loops)
  /\ IF Equal(t) THEN x' = new[t] /\ UNCHANGED old ELSE old' = [old EXCEPT ![t] = x] /\ UNCHANGED x
  /\ Returns(t, IF Op(t).k = "inc" THEN As(new[t] - 1, ty) ELSE new[t])
  /\ UNCHANGED new
Swap(t) ==
  /\ At(t, "cas", Loops)
  /\ \/ /\ Equal(t)
        /\ x' = new[t]
        /\ Returns(t, IF Op(t).k = "inc" THEN As(new[t] - 1, ty) ELSE new[t])
        /\ UNCHANGED <<old, new>>
     \/ /\ ~Equal(t)
        /\ old' = [old EXCEPT ![t] = x]
        /\ GoesTo(t, "compute") /\ UNCHANGED <<x, new>>

(***************************************************************************)
(* The builtins.  Their operand is in a register as it was computed: the   *)
(* result of arithmetic in int has zeroes above it.                        *)
(***************************************************************************)
Operand(op) == Low(op.v, IF op.computed THEN Numbers("int") ELSE Object!Register)

\* cmpxchg and xchg replace as much of the register as the object is long.  What is left in
\* it is the value as it is, of lockce too, whose type is _Bool: an int, or a long, of it.
Widest(type) == IF Numbers(type) < Numbers("int") THEN "int" ELSE type
Replaced(register, v) ==
  LET unit == Numbers(ty) IN As((register \div unit) * unit + Low(v, unit), Widest(ty))

CompareExchange(t) ==
  /\ At(t, "begin", {"cas", "lockce"})
  /\ LET op == Op(t)
         expected == Low(op.expected, Object!Register)
         equal == Low(x, Numbers(ty)) = Low(expected, Numbers(ty))
     IN  /\ x' = IF equal THEN As(Operand(op), ty) ELSE x
         /\ Returns(t, IF op.k = "cas" THEN Object!Outcome(equal, x) ELSE Replaced(expected, x))
  /\ UNCHANGED <<old, new>>

Exchange(t) ==
  /\ At(t, "begin", {"exchange"})
  /\ x' = As(Operand(Op(t)), ty)
  /\ Returns(t, Replaced(Operand(Op(t)), x))
  /\ UNCHANGED <<old, new>>

Step(t) ==
  \/ Load(t) \/ Store(t) \/ ReadOld(t) \/ Compute(t) \/ StoreMember(t) \/ Swap(t)
  \/ CompareExchange(t) \/ Exchange(t)
Done == (\A t \in Threads : todo[t] = <<>>) /\ UNCHANGED vars
Next == (\E t \in Threads : Step(t)) \/ Done

\* The threads run in parallel, so that each goes on.
Fairness == \A t \in Threads : WF_vars(Step(t))
Spec == Init /\ [][Next]_vars /\ Fairness

-------------------------------------------------------------------------------
(***************************************************************************)
(* Every operation happens at one moment, on the value that all before it  *)
(* have left, and returns what C says: however the accesses of the threads *)
(* interleave, none is lost (except in the cases AtomicObject names).      *)
(***************************************************************************)
ActsAtomically == Object!Spec

(***************************************************************************)
(* A swap fails only because that of another thread did not, so every      *)
(* operation ends; on a floating object those that loop do not.            *)
(***************************************************************************)
OperationsEnd ==
  \A t \in Threads : <>(todo[t] = <<>> \/ Object!NeverEnds(Op(t)))
===============================================================================
