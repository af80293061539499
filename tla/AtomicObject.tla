----------------------------- MODULE AtomicObject -----------------------------
(***************************************************************************)
(* What C promises of an atomic object (C11 7.17, 6.5.16.2p3): every       *)
(* operation of every thread happens at one moment, and has the value C    *)
(* gives it.  The operations for which dyibicc promises less are named.    *)
(***************************************************************************)
EXTENDS Integers, Sequences

CONSTANTS Threads, Nothing

VARIABLES
  ty,       \* the type of the object
  value,    \* its value
  todo,     \* the operations of each thread that have not happened
  results,  \* the values of those that have
  seen      \* what a thread has read of a member that it is about to change

vars == <<ty, value, todo, results, seen>>

(***************************************************************************)
(* An operation has a kind, an operand v, and, for a comparison, the value *)
(* that is expected.  computed says that the operand is the result of      *)
(* arithmetic in int.  A char has two bits, an int three, a long and a     *)
(* register four: so many numbers there are of each.                       *)
(***************************************************************************)
Numbers(type) == CASE type = "char" -> 4 [] type \in {"int", "float"} -> 8 [] type \in {"long", "double"} -> 16
Register == 16
Low(v, numbers) == v % numbers
As(v, type) ==
  LET low == Low(v, Numbers(type))
  IN  IF low >= Numbers(type) \div 2 THEN low - Numbers(type) ELSE low
Values == -8 .. 7

\* Of a comparison: that it has stored, or what it found instead, a number above all values.
Outcome(equal, found) == IF equal THEN Register ELSE Register + 1 + Low(found, Register)

Expects(op, found) == found = As(op.expected, ty)

Adds == {"opassign", "member", "inc", "fetch"}
New(op, old) ==
  CASE op.k \in Adds -> As(old + op.v, ty)
    [] op.k \in {"store", "exchange"} -> As(op.v, ty)
    [] op.k \in {"cas", "lockce"} -> IF Expects(op, old) THEN As(op.v, ty) ELSE old
    [] op.k = "load" -> old
Result(op, old) ==
  CASE op.k \in {"opassign", "member", "store"} -> New(op, old)
    [] op.k = "cas" -> Outcome(Expects(op, old), old)
    [] OTHER -> old

\* The functions atomic_fetch_... have the new value.
FetchReturnsNew(op) == op.k = "fetch"
\* What an exchange, or _InterlockedCompareExchange, found is not extended to int: only its
\* low bits are right.  The operand of an exchange or a comparison is not converted to long.
NotExtended(op) == op.k \in {"exchange", "lockce"} /\ Numbers(ty) < Numbers("int")
Unextended(v) == {r \in Values : As(r, ty) = v}
NotConverted(op) == op.k \in {"exchange", "cas", "lockce"} /\ op.computed /\ op.v < 0 /\ Numbers(ty) > Numbers("int")
\* A member of a struct is read and written in two steps.
MemberApart(op) == op.k = "member"
\* On a floating object there is no end to op=.
NeverEnds(op) == op.k \in {"opassign", "inc", "fetch"} /\ ty \in {"float", "double"}

Init ==
  /\ value = 0
  /\ results = [t \in Threads |-> <<>>]
  /\ seen = [t \in Threads |-> Nothing]

Happens(t, new, result) ==
  /\ value' = new
  /\ todo' = [todo EXCEPT ![t] = Tail(@)]
  /\ results' = [results EXCEPT ![t] = Append(@, result)]

Operate(t) ==
  /\ todo[t] # <<>>
  /\ LET op == Head(todo[t])
         changes == New(op, value) = As(op.v, ty)
     IN  /\ ~MemberApart(op) /\ ~NeverEnds(op)
         /\ \E result \in CASE FetchReturnsNew(op) -> {New(op, value)}
                            [] NotExtended(op) -> Unextended(Result(op, value))
                            [] OTHER -> {Result(op, value)},
               new \in IF NotConverted(op) /\ changes THEN Values ELSE {New(op, value)} :
              Happens(t, new, result)
  /\ UNCHANGED <<ty, seen>>

ReadMember(t) ==
  /\ todo[t] # <<>> /\ MemberApart(Head(todo[t])) /\ seen[t] = Nothing
  /\ seen' = [seen EXCEPT ![t] = value]
  /\ UNCHANGED <<ty, value, todo, results>>
WriteMember(t) ==
  /\ seen[t] # Nothing
  /\ LET new == New(Head(todo[t]), seen[t]) IN Happens(t, new, new)
  /\ seen' = [seen EXCEPT ![t] = Nothing]
  /\ UNCHANGED ty

Next == \E t \in Threads : Operate(t) \/ ReadMember(t) \/ WriteMember(t)
Spec == Init /\ [][Next]_vars
===============================================================================
