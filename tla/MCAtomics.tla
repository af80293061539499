------------------------------ MODULE MCAtomics ------------------------------
(***************************************************************************)
(* Two threads, of which one may do two operations, or three with one      *)
(* operation each.                                                         *)
(***************************************************************************)
EXTENDS Atomics, TLC

CONSTANTS t1, t2, t3

Operation(k, v, expected, computed) == [k |-> k, v |-> v, expected |-> expected, computed |-> computed]
Adding(k, v) == Operation(k, v, 0, TRUE)
Simple == {Adding("opassign", -1), Adding("member", 1), Adding("store", 1), Adding("load", 0)}
Builtins ==
  {Operation(k, o[1], e, o[2]) : k \in {"cas", "lockce"}, o \in {<<-1, TRUE>>, <<-1, FALSE>>, <<1, FALSE>>}, e \in {0, 1}}
  \union {Operation("exchange", o[1], 0, o[2]) : o \in {<<-1, TRUE>>, <<-1, FALSE>>, <<1, FALSE>>}}

MCTypes == {"char", "int", "long", "double"}
Operations(type) ==
  IF type = "double" THEN Simple
  ELSE Simple \union Builtins \union {Adding("inc", 1), Adding("fetch", 1), Adding("opassign", 3)}
Seconds(type) == {op \in Operations(type) : op.k \notin {"cas", "lockce", "exchange"} \/ (op.v = 1 /\ op.expected = 0)}
Thirds(type) == {op \in Operations(type) : op.k \in {"opassign", "inc", "member"} \/ (op.k = "cas" /\ op.v = 1)}

MCPrograms(type) ==
  {(t1 :> first @@ t2 :> <<other>> @@ t3 :> <<>>) :
     first \in {<<a>> : a \in Operations(type)} \union {<<a, b>> : a \in Operations(type), b \in Seconds(type)},
     other \in Operations(type)}
  \union {(t1 :> <<a>> @@ t2 :> <<b>> @@ t3 :> <<c>>) : a \in Thirds(type), b \in Thirds(type), c \in Thirds(type)}
===============================================================================
