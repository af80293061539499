----------------------------- MODULE MCDeclarators -----------------------------
(***************************************************************************)
(* Declarations: all specifiers of up to three words; all shapes of up to  *)
(* four derivations; parameters; lists  of declarators; names of types;    *)
(* arrays of variable length while n changes; and pairs of types.          *)
(***************************************************************************)
EXTENDS StandardDeclarators

MCNumbers == [x \in {"2", "3", "-1"} |-> CASE x = "2" -> 2 [] x = "3" -> 3 [] OTHER -> -1]
MCIdentifiers == {"n", "m", "x", "y", "z", "T", "F", "A"}

IntOnly == <<<<"int">>>>
SequencesUpTo(S, k) == UNION {[1 .. i -> S] : i \in 1 .. k}

\* Specifiers.
ArithmeticWords == {<<w>> : w \in DOMAIN Weight}
FourWords == {s \in [1 .. 4 -> {<<"unsigned">>, <<"long">>, <<"int">>}] : Cardinality({i \in 1 .. 4 : s[i] = <<"long">>}) = 2}
OtherWords == {<<"typedef">>, <<"static">>, <<"extern">>, <<"inline">>, <<"const">>, <<"_Atomic">>, <<"_Atomic", "char">>, <<"typeof", "n">>, <<"int">>}
SpecifierPrograms ==
  {<<Declares(specs, "x", <<>>)>> :
     specs \in SequencesUpTo(ArithmeticWords, 3) \union FourWords \union SequencesUpTo(OtherWords, 3)}

\* Shapes.
Derivations == {Pointer(<<>>), ArrayOf(<<>>, "3"), ArrayOf(<<>>, ""), ArrayOf(<<>>, "n"), ArrayOf(<<>>, "-1"),
                FunctionOf(<<>>, ""), FunctionOf(<<>>, "old"), Parens}
Shapes == {<<>>} \union SequencesUpTo(Derivations, 3)
ShapePrograms ==
  {<<Declares(storage \o <<type>>, "x", shape)>> :
     storage \in {<<>>, <<<<"typedef">>>>, <<<<"static">>>>, <<<<"extern">>>>}, type \in {<<"int">>, <<"void">>}, shape \in Shapes}
    \union {<<Declares(IntOnly, "x", shape)>> : shape \in [1 .. 4 -> Derivations]}

\* Parameters.  Words in an array are for the outermost one of a parameter.
ParamShapes ==
  {<<>>} \union SequencesUpTo(Derivations \ {ArrayOf(<<>>, "-1")}, 2)
    \union {<<s>> \o t : s \in {Pointer(<<"const">>), Pointer(<<"_Atomic">>), ArrayOf(<<"static">>, "3"),
                              ArrayOf(<<"const">>, "3"), ArrayOf(<<>>, "m")},
                        t \in {<<>>, <<Pointer(<<>>)>>, <<ArrayOf(<<>>, "3")>>}}
\* (T) in a parameter is a parameter T of a function.
Spellable(p) == p.shape # <<>> /\ p.shape[1] = Parens => p.name = "y"
ParamsOf(types, names) == {p \in {Param(<<<<t>>>>, name, shape) : t \in types, name \in names, shape \in ParamShapes} : Spellable(p)}
TypedefV == Declares(<<<<"typedef">>, <<"void">>>>, "T", <<>>)
TypedefT == Declares(<<<<"typedef">>, <<"char">>>>, "T", <<>>)
ParamPrograms ==
  {<<Declares(IntOnly, "x", <<FunctionOf(<<p>>, rest)>>)>> : p \in ParamsOf({"int", "void"}, {"", "y"}), rest \in {"", "..."}}
    \union {<<Declares(IntOnly, "x", <<FunctionOf(<<Param(IntOnly, "m", <<>>), p>>, "")>>)>> : p \in ParamsOf({"int"}, {"", "y"})}
    \union {<<TypedefT, Declares(IntOnly, "x", shape \o <<FunctionOf(<<p>>, "")>>)>> :
              shape \in {<<>>, <<Pointer(<<>>)>>}, p \in ParamsOf({"T"}, {"", "T"})}
    \union {<<TypedefV, Declares(IntOnly, "x", <<FunctionOf(<<p>>, rest)>>)>> : p \in ParamsOf({"T"}, {"", "y"}), rest \in {"", "..."}}

\* Names of types, lists of declarators, functions.
TypedefF == Declares(<<<<"typedef">>, <<"int">>>>, "F", <<FunctionOf(<<Param(IntOnly, "", <<>>)>>, "")>>)
TypedefA == Declares(<<<<"typedef">>, <<"int">>>>, "A", <<ArrayOf(<<>>, "")>>)
Items == {[name |-> name, shape |-> shape] :
            name \in {"x", "T"}, shape \in {<<>>, <<Pointer(<<>>)>>, <<ArrayOf(<<>>, "3")>>, <<FunctionOf(<<>>, "")>>, <<Parens, FunctionOf(<<>>, "")>>,
                                           <<Pointer(<<>>), FunctionOf(<<Param(IntOnly, "", <<>>)>>, "")>>}}
ListPrograms ==
  {<<Declaration(storage \o IntOnly, <<i, [j EXCEPT !.name = "y"]>>)>> : storage \in {<<>>, <<<<"typedef">>>>, <<<<"extern">>>>}, i \in Items, j \in Items}
    \union {<<t, Declares(specs, i.name, i.shape)>> :
              t \in {TypedefT, TypedefV}, specs \in SequencesUpTo({<<"T">>, <<"unsigned">>, <<"const">>, <<"typeof", "n">>}, 2), i \in Items}
    \union {<<t, Declares(<<<<name>>>>, "x", shape), Declares(<<<<"typeof", "x">>>>, "y", <<>>)>> : t \in {TypedefF, TypedefA}, name \in {"F", "A"},
               shape \in {<<>>, <<Pointer(<<>>)>>, <<FunctionOf(<<Param(<<<<"F">>>>, "y", <<>>)>>, "")>>}}

\* Arrays of variable length: z, and a type T, while n changes from 2 to 3.
N == ArrayOf(<<>>, "n")
Two == ArrayOf(<<>>, "2")
TypesOfLength == {<<N>>, <<Pointer(<<>>), N>>, <<Two, N>>, <<N, Two>>, <<Pointer(<<>>), N, N>>}
Typedefed(shape) == Declares(<<<<"typedef">>, <<"int">>>>, "T", shape)
Steps == {AssignN(3), Declares(<<<<"T">>>>, "x", <<>>), Declares(<<<<"typeof", "z">>>>, "y", <<>>),
          Declares(<<<<"T">>>>, "F", <<Pointer(<<>>)>>), Declares(<<<<"static">>, <<"T">>>>, "A", <<Pointer(<<>>)>>),
          Declares(<<<<"T">>>>, "m", <<N>>), AskTypeSize(<<<<"T">>>>, <<>>), AskTypeSize(IntOnly, <<Two, N>>)}
\* A name is declared once.
StepsUpTo(k) ==
  {s \in SequencesUpTo(Steps, k) : \A i, j \in DOMAIN s : i # j /\ s[i] = s[j] => s[i].do = "sizeof type"}
\* Questions about what was declared.
Questions(steps) ==
  LET names == {"z"} \union UNION {{i.name : i \in Rng(s.items)} : s \in {t \in Rng(steps) : t.do = "declare"}}
      behind == names \ {"z"}
  IN  [i \in 1 .. Cardinality(names) |-> AskSize(SetToSeq(names)[i])] \o
        [i \in 1 .. Cardinality(behind) |-> AskSizeBehind(SetToSeq(behind)[i])]
LengthPrograms ==
  UNION {{<<Declares(IntOnly, "z", <<N>>), Typedefed(shape)>> \o steps \o Questions(steps) :
            steps \in StepsUpTo(3)} : shape \in TypesOfLength}

\* Pairs of types.
P(s) == <<Pointer(<<>>)>> \o s
Old == FunctionOf(<<>>, "old")
F(shape) == FunctionOf(<<Param(IntOnly, "", shape)>>, "")
Compared ==
  {Param(<<<<t>>>>, "", <<>>) : t \in {"char", "unsigned", "void", "_Bool", "A", "F"}}
    \union {Param(<<<<"const">>, <<"int">>>>, "", s) : s \in {<<>>, P(<<>>)}}
    \union {Param(<<<<"_Atomic">>, <<"int">>>>, "", s) : s \in {<<>>, P(<<>>)}}
    \union {Param(IntOnly, "", s) :
             s \in {<<>>, P(<<>>), P(P(<<>>)), <<Pointer(<<"const">>)>>, <<ArrayOf(<<>>, "3")>>, <<Two>>, <<N>>, <<ArrayOf(<<>>, "")>>,
                   P(<<ArrayOf(<<>>, "3")>>), P(<<ArrayOf(<<>>, "")>>), P(<<FunctionOf(<<>>, "")>>), P(<<Old>>), P(<<F(<<>>)>>),
                   P(<<F(P(<<>>))>>), P(<<F(<<ArrayOf(<<>>, "3")>>)>>), P(<<F(P(<<F(<<>>)>>))>>),
                   P(<<FunctionOf(<<Param(IntOnly, "", <<>>)>>, "...")>>), P(<<FunctionOf(<<Param(<<<<"char">>>>, "", <<>>)>>, "")>>)}}
    \union {Param(<<<<"A">>>>, "", P(<<>>)), Param(<<<<"F">>>>, "", P(<<>>))}
TypedefA3 == Declares(<<<<"typedef">>, <<"int">>>>, "A", <<ArrayOf(<<>>, "3")>>)
PairPrograms == {<<TypedefA3, TypedefF, AskCompatible(l, r)>> : l \in Compared, r \in Compared}

AllPrograms ==
  SpecifierPrograms \union ShapePrograms \union ParamPrograms \union ListPrograms \union LengthPrograms \union PairPrograms
===============================================================================
