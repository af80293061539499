----------------------------- MODULE AtomicsProofs -----------------------------
(***************************************************************************)
(* Operations on an _Atomic object happen at one moment each, for any      *)
(* number of threads, doing any operations.  The moment of a loop is the   *)
(* compare-and-swap that succeeds: then the object is what the thread had  *)
(* read, and what it stores was computed from that (Between).              *)
(***************************************************************************)
EXTENDS Atomics, TLAPS

AllTypes == {"char", "int", "long", "float", "double"}

TypeOK ==
  /\ ty \in Types
  /\ x \in Int
  /\ todo \in [Threads -> Seq(OpType)]
  /\ \A t \in Threads : \A i \in 1 .. Len(todo[t]) : Proper(todo[t][i])
  /\ pc \in [Threads -> {"begin", "compute", "cas", "store"}]
  /\ old \in [Threads -> Int] /\ new \in [Threads -> Int]
  /\ results \in [Threads -> Seq(Int)]

\* The object is a value of its type.
InRange(v) == As(v, ty) = v

\* A thread in the middle of an operation.
Between(t) ==
  pc[t] # "begin" =>
    /\ todo[t] # <<>>
    /\ Op(t).k \in Loops \union {"member"}
    /\ pc[t] = "cas" => Op(t).k \in Loops
    /\ pc[t] = "store" => Op(t).k = "member"
    /\ InRange(old[t])
    /\ pc[t] \in {"cas", "store"} => new[t] = As(old[t] + Op(t).v, ty)

IInv == TypeOK /\ InRange(x) /\ \A t \in Threads : Between(t)

-------------------------------------------------------------------------------
(***************************************************************************)
(* Numbers of a type.                                                      *)
(***************************************************************************)
LEMMA NumbersOf ==
  /\ Numbers("char") = 4 /\ Numbers("int") = 8 /\ Numbers("float") = 8
  /\ Numbers("long") = 16 /\ Numbers("double") = 16
BY DEF Numbers, Object!Numbers

\* A value is cut off to one of its type; again does not change it, and sums may be cut off later.
LEMMA AsValue ==
  ASSUME NEW v \in Int, NEW type \in AllTypes
  PROVE /\ As(v, type) \in Object!Values
        /\ As(As(v, type), type) = As(v, type)
        /\ \A a \in Int : As(As(v + a, type) - a, type) = As(v, type)
<1> USE NumbersOf DEF As, Object!As, Object!Low, Object!Values, Numbers
<1>1. CASE type = "char"
  BY <1>1
<1>2. CASE type \in {"int", "float"}
  BY <1>2
<1>3. CASE type \in {"long", "double"}
  BY <1>3
<1> QED
  BY <1>1, <1>2, <1>3 DEF AllTypes

LEMMA AsInt ==
  ASSUME NEW v \in Int, NEW type \in AllTypes
  PROVE As(v, type) \in Int /\ As(As(v, type), type) = As(v, type)
<1>1. As(v, type) \in Object!Values /\ As(As(v, type), type) = As(v, type)
  BY AsValue
<1> QED
  BY <1>1 DEF Object!Values

\* The operand in a register is the one C means, but for negative results of int used as long.
LEMMA CutAs ==
  ASSUME NEW v \in Int, NEW type \in AllTypes
  PROVE /\ As(v % 16, type) = As(v, type)
        /\ Numbers(type) <= Numbers("int") => As(v % 8, type) = As(v, type)
<1> USE NumbersOf DEF As, Object!As, Object!Low, Numbers
<1>1. CASE type = "char"
  BY <1>1
<1>2. CASE type \in {"int", "float"}
  BY <1>2
<1>3. CASE type \in {"long", "double"}
  BY <1>3
<1> QED
  BY <1>1, <1>2, <1>3 DEF AllTypes

LEMMA OperandAs ==
  ASSUME NEW op \in OpType, Proper(op), NEW type \in AllTypes
  PROVE /\ Operand(op) \in Int
        /\ ~(op.computed /\ op.v < 0 /\ Numbers(type) > Numbers("int"))
             => As(Operand(op), type) = As(op.v, type)
<1>1. op.v \in Int /\ op.computed \in BOOLEAN /\ (op.computed => op.v \in -4 .. 3)
  BY DEF OpType, Proper
<1>2. Operand(op) = IF op.computed THEN op.v % 8 ELSE op.v % 16
  BY NumbersOf DEF Operand, Low, Object!Low, Object!Register
<1>3. op.computed /\ op.v >= 0 => Operand(op) = op.v
  BY <1>1, <1>2
<1>4. Numbers(type) \in Int /\ Numbers("int") \in Int
  BY NumbersOf DEF AllTypes
<1> QED
  BY <1>1, <1>2, <1>3, <1>4, CutAs

\* The low bits of two numbers are the same when they are one value of the type.
LEMMA EqualAs ==
  ASSUME NEW v \in Int, NEW w \in Int, NEW type \in AllTypes, As(v, type) = v
  PROVE (Low(v, Numbers(type)) = Low(w % 16, Numbers(type))) <=> v = As(w, type)
<1> USE NumbersOf DEF As, Object!As, Object!Low, Low, Numbers
<1>1. CASE type = "char"
  BY <1>1
<1>2. CASE type \in {"int", "float"}
  BY <1>2
<1>3. CASE type \in {"long", "double"}
  BY <1>3
<1> QED
  BY <1>1, <1>2, <1>3 DEF AllTypes

\* What is left in the register has the low bits of the value found, and is that value,
\* unless its type is narrower than int.
LEMMA ReplacedAs ==
  ASSUME NEW v \in Int, NEW w \in Int, ty \in AllTypes, As(w, ty) = w
  PROVE /\ Replaced(v, w) \in Object!Values
        /\ As(Replaced(v, w), ty) = w
        /\ Numbers(ty) >= Numbers("int") => Replaced(v, w) = w
<1> DEFINE n == Numbers(ty)
           z == (v \div n) * n + Low(w, n)
<1>1. n \in {4, 8, 16} /\ Numbers("int") = 8
  BY NumbersOf DEF AllTypes
<1>2. Low(w, n) = w % n
  BY DEF Low, Object!Low
<1>3. z \in Int /\ z % n = w % n
  <2> HIDE DEF n
  <2>1. CASE n = 4
    BY <1>2, <2>1
  <2>2. CASE n = 8
    BY <1>2, <2>2
  <2>3. CASE n = 16
    BY <1>2, <2>3
  <2> QED
    BY <1>1, <2>1, <2>2, <2>3
<1>4. Widest(ty) \in AllTypes /\ (n >= Numbers("int") => Widest(ty) = ty)
  BY <1>1 DEF Widest, AllTypes
<1>5. As(z, ty) = As(w, ty)
  BY <1>3 DEF As, Object!As, Object!Low, Numbers
<1>6. Replaced(v, w) = As(z, Widest(ty))
  BY DEF Replaced
<1>7. As(z, Widest(ty)) \in Object!Values /\ As(As(z, Widest(ty)), Widest(ty)) = As(z, Widest(ty))
  <2> HIDE DEF z
  <2> QED
    BY <1>3, <1>4, AsValue
<1>8. n >= Numbers("int") => As(z, Widest(ty)) = w
  BY <1>4, <1>5
<1>9. ASSUME n < Numbers("int") PROVE As(As(z, Widest(ty)), ty) = w
  <2>1. ty = "char" /\ Widest(ty) = "int"
    BY <1>9, NumbersOf DEF Widest, AllTypes
  <2>2. As(As(z, "int"), "char") = As(z, "char")
    <3> HIDE DEF z
    <3> QED
      BY <1>3, NumbersOf DEF As, Object!As, Object!Low, Numbers
  <2> QED
    BY <1>5, <2>1, <2>2
<1> QED
  BY <1>1, <1>4, <1>6, <1>7, <1>8, <1>9

-------------------------------------------------------------------------------
(***************************************************************************)
(* The invariant is inductive.                                             *)
(***************************************************************************)
LEMMA InitIInv == Init => IInv
<1> SUFFICES ASSUME Init PROVE IInv
  OBVIOUS
<1>1. ty \in AllTypes /\ As(0, ty) = 0
  BY TypesAssumption, NumbersOf DEF Init, AllTypes, As, Object!As, Object!Low, Numbers
<1>2. TypeOK
  BY ProgramsAssumption DEF Init, TypeOK
<1> QED
  BY <1>1, <1>2 DEF IInv, InRange, Between, Init

\* The operation a thread is at, and those that follow.
LEMMA HeadTail ==
  ASSUME TypeOK, NEW t \in Threads, todo[t] # <<>>
  PROVE /\ Op(t) \in OpType /\ Proper(Op(t)) /\ Op(t).v \in Int /\ Op(t).expected \in Int
        /\ [todo EXCEPT ![t] = Tail(@)] \in [Threads -> Seq(OpType)]
        /\ \A u \in Threads : \A i \in 1 .. Len([todo EXCEPT ![t] = Tail(@)][u]) :
             Proper([todo EXCEPT ![t] = Tail(@)][u][i])
<1> DEFINE s == todo[t]
<1>1. s \in Seq(OpType) /\ Len(s) \in Nat \ {0} /\ Head(s) = s[1] /\ s[1] \in OpType
  BY DEF TypeOK
<1>2. Tail(s) \in Seq(OpType) /\ Len(Tail(s)) = Len(s) - 1 /\ \A i \in 1 .. Len(Tail(s)) : Tail(s)[i] = s[i + 1]
  BY <1>1
<1>3. ASSUME NEW i \in 1 .. Len(Tail(s)) PROVE Proper(Tail(s)[i])
  <2>1. i + 1 \in 1 .. Len(s)
    BY <1>1, <1>2
  <2>2. Proper(s[i + 1])
    BY <2>1 DEF TypeOK
  <2> QED
    BY <1>2, <2>2
<1>4. Op(t) \in OpType /\ Proper(Op(t))
  <2>1. Proper(s[1])
    BY <1>1 DEF TypeOK
  <2> QED
    BY <1>1, <2>1 DEF Op
<1>5. Op(t).v \in Int /\ Op(t).expected \in Int
  BY <1>4 DEF OpType
<1>6. [todo EXCEPT ![t] = Tail(@)] \in [Threads -> Seq(OpType)]
  BY <1>2 DEF TypeOK
<1>7. ASSUME NEW u \in Threads, NEW i \in 1 .. Len([todo EXCEPT ![t] = Tail(@)][u])
      PROVE Proper([todo EXCEPT ![t] = Tail(@)][u][i])
  <2>1. CASE u = t
    BY <1>3, <2>1 DEF TypeOK
  <2>2. CASE u # t
    BY <2>2 DEF TypeOK
  <2> QED
    BY <2>1, <2>2
<1> QED
  BY <1>4, <1>5, <1>6, <1>7

\* A step of another thread leaves what a thread has in hand.
LEMMA Elsewhere ==
  ASSUME NEW u \in Threads, Between(u), ty' = ty,
         pc'[u] = pc[u], todo'[u] = todo[u], old'[u] = old[u], new'[u] = new[u]
  PROVE Between(u)'
BY DEF Between, InRange, Op

\* The end of an operation that leaves v in the object, and has the value r.
LEMMA Ends ==
  ASSUME IInv, NEW t \in Threads, todo[t] # <<>>, NEW r \in Int, Returns(t, r), UNCHANGED <<old, new>>,
         x' \in Int, InRange(x')
  PROVE IInv'
<1>1. TypeOK'
  BY HeadTail, SMTT(30) DEF IInv, TypeOK, Returns
<1>2. InRange(x)'
  BY DEF InRange, Returns
<1>3. ASSUME NEW u \in Threads PROVE Between(u)'
  <2>1. CASE u = t
    BY <2>1 DEF IInv, TypeOK, Returns, Between
  <2>2. CASE u # t
    BY <2>2, Elsewhere DEF IInv, TypeOK, Returns
  <2> QED
    BY <2>1, <2>2
<1> QED
  BY <1>1, <1>2, <1>3 DEF IInv

\* A step inside a loop, or between the two of a member: the object stays.
LEMMA Goes ==
  ASSUME IInv, NEW t \in Threads, NEW where \in {"compute", "cas", "store"}, GoesTo(t, where), UNCHANGED x,
         old' \in [Threads -> Int], new' \in [Threads -> Int],
         \A u \in Threads \ {t} : old'[u] = old[u] /\ new'[u] = new[u],
         Between(t)'
  PROVE IInv'
<1>1. TypeOK'
  BY DEF IInv, TypeOK, GoesTo
<1>2. InRange(x)'
  BY DEF IInv, InRange, GoesTo
<1>3. ASSUME NEW u \in Threads, u # t PROVE Between(u)'
  BY <1>3, Elsewhere DEF IInv, TypeOK, GoesTo
<1> QED
  BY <1>1, <1>2, <1>3 DEF IInv

LEMMA TyOf == TypeOK => ty \in AllTypes
BY TypesAssumption DEF TypeOK, AllTypes

LEMMA StepIInv ==
  ASSUME IInv, NEW t \in Threads, Step(t)
  PROVE IInv'
<1> USE DEF IInv
<1>0. /\ TypeOK /\ InRange(x) /\ Between(t) /\ x \in Int /\ ty \in AllTypes
      /\ old[t] \in Int /\ new[t] \in Int /\ Object!Values \subseteq Int
  BY TyOf DEF TypeOK, Object!Values
<1>1. CASE Load(t)
  BY <1>0, <1>1, Ends DEF Load, At
<1>2. CASE Store(t)
  <2>1. todo[t] # <<>> /\ Op(t).v \in Int
    BY <1>2, HeadTail DEF Store, At
  <2>2. x' = As(Op(t).v, ty) /\ x' \in Int /\ InRange(x')
    BY <1>0, <1>2, <2>1, AsValue DEF Store, InRange
  <2> QED
    BY <1>2, <2>1, <2>2, Ends DEF Store
<1>3. CASE ReadOld(t)
  <2>1. Between(t)'
    BY <1>0, <1>3 DEF ReadOld, GoesTo, At, Between, TypeOK, InRange, Op
  <2> QED
    BY <1>0, <1>3, <2>1, Goes DEF ReadOld, TypeOK
<1>4. CASE Compute(t)
  <2> DEFINE where == IF Op(t).k = "member" THEN "store" ELSE "cas"
             sum == As(old[t] + Op(t).v, ty)
  <2>1. todo[t] # <<>> /\ Op(t).v \in Int
    BY <1>4, HeadTail DEF Compute, At
  <2>2. old[t] + Op(t).v \in Int /\ sum \in Int
    BY <1>0, <2>1, AsInt
  <2>3. new'[t] = sum /\ old' = old /\ todo' = todo /\ ty' = ty /\ pc'[t] = where
    BY <1>0, <1>4 DEF Compute, GoesTo, TypeOK
  <2>4. Op(t).k \in Loops \union {"member"} /\ pc[t] = "compute"
    BY <1>4 DEF Compute, At
  <2>5. Between(t)'
    BY <1>0, <2>1, <2>3, <2>4 DEF Between, InRange, Op, Loops
  <2> QED
    BY <1>0, <1>4, <2>2, <2>5, Goes DEF Compute, TypeOK
<1>5. CASE StoreMember(t)
  <2>1. todo[t] # <<>> /\ pc[t] = "store" /\ Op(t).v \in Int
    BY <1>5, HeadTail DEF StoreMember, At
  <2>2. new[t] = As(old[t] + Op(t).v, ty)
    BY <1>0, <2>1 DEF Between
  <2>3. InRange(new[t])
    <3>1. old[t] + Op(t).v \in Int
      BY <1>0, <2>1
    <3> QED
      BY <1>0, <2>2, <3>1, AsInt DEF InRange
  <2> QED
    BY <1>0, <1>5, <2>1, <2>3, Ends DEF StoreMember
<1>6. CASE Swap(t)
  <2>1. todo[t] # <<>> /\ pc[t] = "cas" /\ Op(t).v \in Int /\ Op(t).k \in Loops
    BY <1>6, HeadTail DEF Swap, At
  <2>2. new[t] = As(old[t] + Op(t).v, ty)
    BY <1>0, <2>1 DEF Between
  <2>3. InRange(new[t]) /\ As(new[t] - 1, ty) \in Int
    <3>1. old[t] + Op(t).v \in Int /\ new[t] - 1 \in Int
      BY <1>0, <2>1
    <3> QED
      BY <1>0, <2>2, <3>1, AsInt DEF InRange
  <2>4. CASE Equal(t) /\ x' = new[t] /\ Returns(t, IF Op(t).k = "inc" THEN As(new[t] - 1, ty) ELSE new[t]) /\ UNCHANGED <<old, new>>
    BY <1>0, <2>1, <2>3, <2>4, Ends
  <2>5. CASE old' = [old EXCEPT ![t] = x] /\ GoesTo(t, "compute") /\ UNCHANGED <<x, new>>
    <3>1. Between(t)'
      BY <1>0, <2>1, <2>5 DEF GoesTo, Between, TypeOK, InRange, Op
    <3> QED
      BY <1>0, <2>5, <3>1, Goes DEF TypeOK
  <2> QED
    BY <1>6, <2>4, <2>5 DEF Swap
<1>7. CASE CompareExchange(t)
  <2> DEFINE op == Op(t)
             expected == Low(op.expected, Object!Register)
             equal == Low(x, Numbers(ty)) = Low(expected, Numbers(ty))
             r == IF op.k = "cas" THEN Object!Outcome(equal, x) ELSE Replaced(expected, x)
  <2>1. todo[t] # <<>> /\ op \in OpType /\ Proper(op) /\ op.expected \in Int
    BY <1>7, HeadTail DEF CompareExchange, At
  <2>2. As(Operand(op), ty) \in Int /\ InRange(As(Operand(op), ty))
    BY <1>0, <2>1, OperandAs, AsValue DEF InRange
  <2>3. x' \in Int /\ InRange(x')
    BY <1>0, <1>7, <2>2 DEF CompareExchange
  <2>4. expected \in Int
    BY <2>1 DEF Low, Object!Low, Object!Register
  <2>5. r \in Int
    <3>1. Replaced(expected, x) \in Int
      BY <1>0, <2>4, ReplacedAs DEF InRange
    <3> QED
      BY <1>0, <3>1 DEF Object!Outcome, Object!Low, Object!Register
  <2>6. Returns(t, r) /\ UNCHANGED <<old, new>>
    BY <1>7 DEF CompareExchange
  <2> QED
    BY <2>1, <2>3, <2>5, <2>6, Ends
<1>8. CASE Exchange(t)
  <2> DEFINE op == Op(t)
             r == Replaced(Operand(op), x)
  <2>1. todo[t] # <<>> /\ op \in OpType /\ Proper(op)
    BY <1>8, HeadTail DEF Exchange, At
  <2>2. Operand(op) \in Int /\ As(Operand(op), ty) \in Int /\ InRange(As(Operand(op), ty))
    BY <1>0, <2>1, OperandAs, AsValue DEF InRange
  <2>3. r \in Int
    BY <1>0, <2>2, ReplacedAs DEF InRange
  <2>4. Returns(t, r) /\ UNCHANGED <<old, new>> /\ x' = As(Operand(op), ty)
    BY <1>8 DEF Exchange
  <2> QED
    BY <2>1, <2>2, <2>3, <2>4, Ends
<1> QED
  BY <1>1, <1>2, <1>3, <1>4, <1>5, <1>6, <1>7, <1>8 DEF Step

\* At every moment the state is one of the code's, and a thread in the middle of an operation
\* has in hand what it has computed from what it has read.
THEOREM Invariance == Spec => []IInv
<1>1. ASSUME IInv, UNCHANGED vars PROVE IInv'
  BY <1>1 DEF IInv, vars, TypeOK, Between, InRange, Op
<1>2. IInv /\ [Next]_vars => IInv'
  BY <1>1, StepIInv DEF Next, Done
<1> QED
  BY InitIInv, <1>2, PTL DEF Spec

-------------------------------------------------------------------------------
(***************************************************************************)
(* Every step is one of AtomicObject, or none of it.                       *)
(***************************************************************************)
SeenBy(t) == IF todo[t] # <<>> /\ Head(todo[t]).k = "member" /\ pc[t] # "begin" THEN old[t] ELSE Nothing
Seen == [t \in Threads |-> SeenBy(t)]

LEMMA SeenStays ==
  ASSUME NEW t \in Threads, SeenBy(t)' = SeenBy(t),
         \A u \in Threads \ {t} : pc'[u] = pc[u] /\ todo'[u] = todo[u] /\ old'[u] = old[u]
  PROVE Seen' = Seen
BY DEF Seen, SeenBy

\* What C says of the kinds of operations.
LEMMA NewOf ==
  ASSUME NEW op \in OpType, NEW v \in Int
  PROVE /\ op.k \in Loops \union {"member"} => Object!New(op, v) = As(v + op.v, ty)
        /\ op.k \in {"store", "exchange"} => Object!New(op, v) = As(op.v, ty)
        /\ op.k \in {"cas", "lockce"} => Object!New(op, v) = IF v = As(op.expected, ty) THEN As(op.v, ty) ELSE v
        /\ op.k = "load" => Object!New(op, v) = v
BY DEF Object!New, Object!Adds, Object!Expects, As, Loops, OpType

LEMMA ResultOf ==
  ASSUME NEW op \in OpType, NEW v \in Int
  PROVE /\ op.k \in {"opassign", "store"} => Object!Result(op, v) = Object!New(op, v)
        /\ op.k = "cas" => Object!Result(op, v) = Object!Outcome(v = As(op.expected, ty), v)
        /\ op.k \in {"inc", "exchange", "lockce", "load"} => Object!Result(op, v) = v
BY DEF Object!Result, Object!Expects, As, OpType

\* The moment of an operation, other than of a member.
LEMMA Operates ==
  ASSUME IInv, NEW t \in Threads, todo[t] # <<>>,
         Op(t).k # "member", ~Object!NeverEnds(Op(t)),
         NEW r, Returns(t, r), UNCHANGED old,
         Object!FetchReturnsNew(Op(t)) => r = Object!New(Op(t), x),
         Object!NotExtended(Op(t)) => r \in Object!Unextended(Object!Result(Op(t), x)),
         ~Object!FetchReturnsNew(Op(t)) /\ ~Object!NotExtended(Op(t)) => r = Object!Result(Op(t), x),
         \/ x' = Object!New(Op(t), x)
         \/ /\ Object!NotConverted(Op(t)) /\ Object!New(Op(t), x) = As(Op(t).v, ty)
            /\ x' \in Object!Values
  PROVE Object!Operate(t)
<1>1. Object!FetchReturnsNew(Op(t)) => ~Object!NotExtended(Op(t))
  BY DEF Object!FetchReturnsNew, Object!NotExtended
<1>2. r \in CASE Object!FetchReturnsNew(Op(t)) -> {Object!New(Op(t), x)}
              [] Object!NotExtended(Op(t)) -> Object!Unextended(Object!Result(Op(t), x))
              [] OTHER -> {Object!Result(Op(t), x)}
  BY <1>1
<1>3. x' \in IF Object!NotConverted(Op(t)) /\ Object!New(Op(t), x) = Object!As(Op(t).v, ty)
             THEN Object!Values ELSE {Object!New(Op(t), x)}
  <2>1. x \in Int /\ Object!New(Op(t), x) = As(Op(t).v, ty) => Object!New(Op(t), x) \in Object!Values
    BY HeadTail, TyOf, AsValue DEF IInv, TypeOK
  <2> QED
    BY <2>1 DEF As, IInv, TypeOK
<1>4. Object!Happens(t, x', r)
  BY DEF Object!Happens, Returns
<1>5. Seen' = Seen
  <2>1. SeenBy(t)' = SeenBy(t)
    BY DEF SeenBy, Op, Returns, IInv, TypeOK
  <2> QED
    BY <2>1, SeenStays DEF Returns, IInv, TypeOK
<1>6. ~Object!MemberApart(Op(t))
  BY DEF Object!MemberApart
<1>7. UNCHANGED ty
  BY DEF Returns
<1> QED
  BY <1>2, <1>3, <1>4, <1>5, <1>6, <1>7 DEF Object!Operate, Op, Seen, SeenBy

LEMMA ObjectStutters ==
  ASSUME UNCHANGED <<ty, x, todo, results>>, Seen' = Seen
  PROVE UNCHANGED Object!vars
BY DEF Object!vars, Seen, SeenBy

\* A swap stores what was computed from what the object still is.
LEMMA SwapOperates ==
  ASSUME IInv, NEW t \in Threads, At(t, "cas", Loops), Equal(t), x' = new[t],
         Returns(t, IF Op(t).k = "inc" THEN As(new[t] - 1, ty) ELSE new[t]), UNCHANGED <<old, new>>
  PROVE Object!Operate(t)
<1> DEFINE op == Op(t)
           r == IF op.k = "inc" THEN As(new[t] - 1, ty) ELSE new[t]
<1>1. /\ todo[t] # <<>> /\ op \in OpType /\ Proper(op) /\ op.v \in Int
      /\ op.k \in Loops /\ x \in Int /\ ty \in AllTypes /\ x = old[t]
      /\ ty \notin {"float", "double"}
  BY HeadTail, TyOf DEF At, Equal, is_flonum, IInv, TypeOK
<1>2. new[t] = As(x + op.v, ty)
  BY <1>1 DEF IInv, Between, At
<1>3. Object!New(op, x) = new[t]
  BY <1>1, <1>2, NewOf
<1>4. ~Object!NeverEnds(op) /\ ~Object!NotExtended(op) /\ op.k # "member"
  BY <1>1 DEF Object!NeverEnds, Object!NotExtended, Loops
<1>5. op.k = "inc" => r = x
  BY <1>1, <1>2, AsValue, ZenonT(40) DEF Proper, IInv, InRange
<1>6. op.k \in {"opassign", "fetch"} => r = new[t]
  OBVIOUS
<1>7. /\ Object!FetchReturnsNew(op) => r = Object!New(op, x)
      /\ ~Object!FetchReturnsNew(op) => r = Object!Result(op, x)
  BY <1>1, <1>3, <1>5, <1>6, ResultOf DEF Object!FetchReturnsNew, Loops
<1> HIDE DEF r
<1>8. Returns(t, r)
  BY DEF r
<1> QED
  BY <1>1, <1>3, <1>4, <1>7, <1>8, Operates

\* What is left in the register, against what AtomicObject has.
LEMMA RegisterLeft ==
  ASSUME NEW v \in Int, x \in Int, ty \in AllTypes, As(x, ty) = x
  PROVE /\ Object!Numbers(ty) < Object!Numbers("int") => Replaced(v, x) \in Object!Unextended(x)
        /\ ~(Object!Numbers(ty) < Object!Numbers("int")) => Replaced(v, x) = x
<1>1. Numbers(ty) \in Int /\ Numbers("int") \in Int
  BY NumbersOf DEF AllTypes
<1> QED
  BY <1>1, ReplacedAs DEF Numbers, As, Object!Unextended

LEMMA CompareOperates ==
  ASSUME IInv, NEW t \in Threads, CompareExchange(t)
  PROVE Object!Operate(t)
<1> DEFINE op == Op(t)
           expected == Low(op.expected, Object!Register)
           equal == Low(x, Numbers(ty)) = Low(expected, Numbers(ty))
           r == IF op.k = "cas" THEN Object!Outcome(equal, x) ELSE Replaced(expected, x)
<1>1. /\ todo[t] # <<>> /\ op \in OpType /\ Proper(op) /\ op.v \in Int /\ op.expected \in Int
      /\ op.k \in {"cas", "lockce"} /\ x \in Int /\ ty \in AllTypes /\ As(x, ty) = x
  BY HeadTail, TyOf DEF At, CompareExchange, IInv, TypeOK, InRange
<1>2. expected = op.expected % 16 /\ expected \in Int
  BY <1>1 DEF Low, Object!Low, Object!Register
<1>3. equal <=> x = As(op.expected, ty)
  BY <1>1, <1>2, EqualAs
<1>4. x' = IF equal THEN As(Operand(op), ty) ELSE x
  BY DEF CompareExchange
<1>5. Returns(t, r) /\ UNCHANGED old
  BY DEF CompareExchange
<1> HIDE DEF equal
<1>6. Object!New(op, x) = IF equal THEN As(op.v, ty) ELSE x
  BY <1>1, <1>3, NewOf
<1>7. ~Object!NotConverted(op) => As(Operand(op), ty) = As(op.v, ty)
  BY <1>1, OperandAs DEF Object!NotConverted, Numbers
<1>8. As(Operand(op), ty) \in Object!Values
  BY <1>1, OperandAs, AsValue
<1>9. \/ x' = Object!New(op, x)
      \/ /\ Object!NotConverted(op) /\ Object!New(op, x) = As(op.v, ty)
         /\ x' \in Object!Values
  BY <1>4, <1>6, <1>7, <1>8
<1>10. ~Object!NeverEnds(op) /\ ~Object!FetchReturnsNew(op) /\ op.k # "member"
  BY <1>1 DEF Object!NeverEnds, Object!FetchReturnsNew
<1>11. op.k = "cas" => r = Object!Result(op, x) /\ ~Object!NotExtended(op)
  BY <1>1, <1>3, ResultOf DEF Object!NotExtended
<1>12. ASSUME op.k = "lockce"
       PROVE /\ Object!NotExtended(op) => r \in Object!Unextended(Object!Result(op, x))
             /\ ~Object!NotExtended(op) => r = Object!Result(op, x)
  BY <1>1, <1>2, <1>12, RegisterLeft, ResultOf DEF Object!NotExtended
<1> HIDE DEF r
<1> QED
  BY <1>1, <1>5, <1>9, <1>10, <1>11, <1>12, Operates

LEMMA ExchangeOperates ==
  ASSUME IInv, NEW t \in Threads, Exchange(t)
  PROVE Object!Operate(t)
<1> DEFINE op == Op(t)
           r == Replaced(Operand(op), x)
<1>1. /\ todo[t] # <<>> /\ op \in OpType /\ Proper(op) /\ op.v \in Int
      /\ op.k = "exchange" /\ x \in Int /\ ty \in AllTypes /\ As(x, ty) = x
  BY HeadTail, TyOf DEF At, Exchange, IInv, TypeOK, InRange
<1>2. Object!New(op, x) = As(op.v, ty) /\ Object!Result(op, x) = x
  BY <1>1, NewOf, ResultOf
<1>3. x' = As(Operand(op), ty)
  BY DEF Exchange
<1>4. ~Object!NotConverted(op) => As(Operand(op), ty) = As(op.v, ty)
  BY <1>1, OperandAs DEF Object!NotConverted, Numbers
<1>5. As(Operand(op), ty) \in Object!Values /\ Operand(op) \in Int
  BY <1>1, OperandAs, AsValue
<1>6. ~Object!NeverEnds(op) /\ ~Object!FetchReturnsNew(op) /\ op.k # "member"
  BY <1>1 DEF Object!NeverEnds, Object!FetchReturnsNew
<1>7. Returns(t, r) /\ UNCHANGED old
  BY DEF Exchange
<1>8. /\ Object!NotExtended(op) => r \in Object!Unextended(Object!Result(op, x))
      /\ ~Object!NotExtended(op) => r = Object!Result(op, x)
  BY <1>1, <1>2, <1>5, RegisterLeft DEF Object!NotExtended
<1> HIDE DEF r
<1>9. \/ x' = Object!New(op, x)
      \/ /\ Object!NotConverted(op) /\ Object!New(op, x) = As(op.v, ty)
         /\ x' \in Object!Values
  BY <1>2, <1>3, <1>4, <1>5
<1> QED
  BY <1>1, <1>6, <1>7, <1>8, <1>9, Operates

LEMMA StepActs ==
  ASSUME IInv, NEW t \in Threads, Step(t)
  PROVE [Object!Next]_Object!vars
<1>0. TypeOK /\ Between(t) /\ x \in Int /\ old[t] \in Int
  BY DEF IInv, TypeOK
<1>1. CASE Load(t)
  <2>1. todo[t] # <<>> /\ Op(t) \in OpType /\ Op(t).k = "load"
    BY <1>0, <1>1, HeadTail DEF Load, At
  <2>2. Object!New(Op(t), x) = x /\ Object!Result(Op(t), x) = x
    BY <1>0, <2>1, NewOf, ResultOf
  <2>3. ~Object!NeverEnds(Op(t)) /\ ~Object!NotExtended(Op(t)) /\ ~Object!FetchReturnsNew(Op(t))
    BY <2>1 DEF Object!NeverEnds, Object!NotExtended, Object!FetchReturnsNew
  <2>4. Object!Operate(t)
    BY <1>1, <2>1, <2>2, <2>3, Operates DEF Load
  <2> QED
    BY <2>4 DEF Object!Next
<1>2. CASE Store(t)
  <2>1. todo[t] # <<>> /\ Op(t) \in OpType /\ Op(t).k = "store"
    BY <1>0, <1>2, HeadTail DEF Store, At
  <2>2. Object!New(Op(t), x) = As(Op(t).v, ty) /\ Object!Result(Op(t), x) = As(Op(t).v, ty)
    BY <1>0, <2>1, NewOf, ResultOf
  <2>3. ~Object!NeverEnds(Op(t)) /\ ~Object!NotExtended(Op(t)) /\ ~Object!FetchReturnsNew(Op(t))
    BY <2>1 DEF Object!NeverEnds, Object!NotExtended, Object!FetchReturnsNew
  <2>4. Object!Operate(t)
    BY <1>2, <2>1, <2>2, <2>3, Operates DEF Store
  <2> QED
    BY <2>4 DEF Object!Next
<1>3. CASE ReadOld(t)
  <2>1. todo[t] # <<>> /\ pc[t] = "begin" /\ Op(t).k \in Loops \union {"member"}
    BY <1>3 DEF ReadOld, At
  <2>2. CASE Op(t).k = "member"
    <3>1. Seen' = [Seen EXCEPT ![t] = x]
      BY <1>0, <1>3, <2>1, <2>2 DEF ReadOld, GoesTo, Seen, SeenBy, Op, TypeOK
    <3>2. Seen[t] = Nothing
      BY <2>1 DEF Seen, SeenBy
    <3>3. Object!ReadMember(t)
      BY <1>3, <2>1, <2>2, <3>1, <3>2
      DEF Object!ReadMember, Object!MemberApart, Op, Seen, SeenBy, ReadOld, GoesTo
    <3> QED
      BY <3>3 DEF Object!Next
  <2>3. CASE Op(t).k # "member"
    <3>1. SeenBy(t)' = SeenBy(t)
      BY <1>3, <2>1, <2>3 DEF SeenBy, Op, ReadOld, GoesTo
    <3> QED
      BY <1>0, <1>3, <3>1, SeenStays, ObjectStutters DEF ReadOld, GoesTo, TypeOK
  <2> QED
    BY <2>2, <2>3
<1>4. CASE Compute(t)
  <2>1. SeenBy(t)' = SeenBy(t)
    BY <1>0, <1>4 DEF SeenBy, Op, Compute, GoesTo, At, TypeOK
  <2> QED
    BY <1>0, <1>4, <2>1, SeenStays, ObjectStutters DEF Compute, GoesTo, TypeOK
<1>5. CASE StoreMember(t)
  <2>1. todo[t] # <<>> /\ pc[t] = "store" /\ Op(t).k = "member" /\ Op(t) \in OpType
    BY <1>0, <1>5, HeadTail DEF StoreMember, At
  <2>2. Seen[t] = old[t] /\ old[t] # Nothing
    BY <1>0, <2>1, NothingAssumption DEF Seen, SeenBy, Op
  <2>3. new[t] = Object!New(Op(t), old[t])
    BY <1>0, <2>1, NewOf DEF Between
  <2>4. Object!Happens(t, new[t], new[t])
    BY <1>5 DEF StoreMember, Object!Happens, Returns
  <2>5. Seen' = [Seen EXCEPT ![t] = Nothing]
    BY <1>0, <1>5 DEF StoreMember, Returns, Seen, SeenBy, TypeOK
  <2>6. Object!WriteMember(t)
    BY <1>5, <2>2, <2>3, <2>4, <2>5
    DEF Object!WriteMember, Op, Seen, SeenBy, StoreMember, Returns
  <2> QED
    BY <2>6 DEF Object!Next
<1>6. CASE Swap(t)
  <2>1. CASE Equal(t) /\ x' = new[t] /\ Returns(t, IF Op(t).k = "inc" THEN As(new[t] - 1, ty) ELSE new[t]) /\ UNCHANGED <<old, new>>
    BY <1>6, <2>1, SwapOperates DEF Swap, Object!Next
  <2>2. CASE old' = [old EXCEPT ![t] = x] /\ GoesTo(t, "compute") /\ UNCHANGED <<x, new>>
    <3>1. SeenBy(t)' = SeenBy(t)
      BY <1>6, <2>2 DEF SeenBy, Op, Swap, GoesTo, At, Loops
    <3> QED
      BY <1>0, <2>2, <3>1, SeenStays, ObjectStutters DEF GoesTo, TypeOK
  <2> QED
    BY <1>6, <2>1, <2>2 DEF Swap
<1>7. CASE CompareExchange(t)
  BY <1>7, CompareOperates DEF Object!Next
<1>8. CASE Exchange(t)
  BY <1>8, ExchangeOperates DEF Object!Next
<1> QED
  BY <1>1, <1>2, <1>3, <1>4, <1>5, <1>6, <1>7, <1>8 DEF Step

\* However the accesses of the threads interleave, every operation happens at one moment, on
\* what those before it have left, and has the value that C says: the code implements AtomicObject.
THEOREM ActsAtomicallyTheorem == Spec => ActsAtomically
<1>1. Init => Object!Init
  BY DEF Init, Object!Init
<1>2. ASSUME UNCHANGED vars PROVE UNCHANGED Object!vars
  <2>1. Seen' = Seen
    BY <1>2 DEF vars, Seen, SeenBy
  <2> QED
    BY <1>2, <2>1, ObjectStutters DEF vars
<1>3. IInv /\ [Next]_vars => [Object!Next]_Object!vars
  BY <1>2, StepActs DEF Next, Done
<1> QED
  BY Invariance, <1>1, <1>3, PTL DEF Spec, ActsAtomically, Object!Spec
===============================================================================
