----------------------------- MODULE MCPreprocess -----------------------------
(***************************************************************************)
(* Programs for the preprocessor, built from lines.                        *)
(***************************************************************************)
EXTENDS StandardPP

\* The words of more than one atom: what ## makes of A and A is the word AA.
Long == "\"q.h\"" :> <<"\"", "q.h">> @@ "\"r.h\"" :> <<"\"", "r.h">> @@ "AA" :> <<"A", "A">>
Word(a) == IF a \in DOMAIN Long THEN Long[a] ELSE <<a>>
File(path, ls) ==
  FlattenSeq([k \in DOMAIN ls |->
    [j \in DOMAIN ls[k] |-> [t |-> Word(ls[k][j]), bol |-> j = 1, hs |-> {}, f |-> path]]])

MainPath == <<"src", <<"main.c">>>>
Compiled(ls) == File(MainPath, ls)

\* Conditional groups: a group with any three lines in it, closed or not.
CondLines == {
  <<"#", "if", "!", "defined", "A">>, <<"#", "ifdef", "A">>, <<"#", "elif", "1">>,
  <<"#", "else">>, <<"#", "endif">>, <<"#", "define", "A", "0">>, <<"#", "undef", "A">>,
  <<"x">>}
Openings == {<<"#", "if", "0">>, <<"#", "ifndef", "A">>}
CondPrograms ==
  {Compiled(<<o>> \o s \o << <<"#", "endif">>, <<"A">> >>) : o \in Openings, s \in SeqOf(CondLines, 3)}

\* Macros: definitions, and calls and short texts that use them.
Definitions == {
  << <<"#", "define", "A", "B">>, <<"#", "define", "B", "A">> >>,
  << <<"#", "define", "A", "F">>, <<"#", "define", "F", "(", "p", ")", "p", "A">> >>,
  << <<"#", "define", "F", "(", "p", ",", "q", ")", "q", "#", "p", "p">>, <<"#", "define", "A", "B">> >>,
  << <<"#", "define", "F", "(", "p", ",", "q", ")", "p", "##", "q", "F">>, <<"#", "define", "BB", "A">>,
     <<"#", "define", "A", "B", "(">> >>,
  << <<"#", "define", "F", "(", "p", ",", "q", ")", "p", "##", "q">>,
     <<"#", "define", "AA", "F", "(", "A", ",", "A", ")">>, <<"#", "define", "B", "AA", "AA">> >>,
  << <<"#", "define", "A">>, <<"#", "define", "F", "(", "p", "...", ")", "B", ",", "##", "p">> >>,
  << <<"#", "define", "F", "(", "p", ",", "...", ")", "p", "__VA_OPT__", "(", "B", ")", "__VA_ARGS__">>,
     <<"#", "define", "A", "__COUNTER__">> >>}
Args == {<<>>, <<"A">>, <<"x", "B">>, <<"(", ",", ")">>, <<"F", "(", "A", ",", "B", ")">>}
Texts2 ==
  {<<"F", "(">> \o a \o <<",">> \o b \o <<")">> \o e : a, b \in Args, e \in {<<>>, <<"(", "x", ")">>}}
MacroPrograms ==
  {Compiled(d \o <<t>>) : d \in Definitions,
     t \in Texts2 \cup {s \in SeqOf({"A", "B", "F", "(", ")"}, 3) : s # <<>>}}

\* Files: a.h twice on the path, a guarded file, a file with #pragma once, a file
\* next to the program, and the header of $vec.
Entry(path, ls) == path :> File(path, ls)
Headers ==
  Entry(<<"d1", <<"a.h">>>>, << <<"a1">>, <<"#", "include_next", "<", "a.h", ">">> >>) @@
  Entry(<<"d2", <<"a.h">>>>, << <<"a2">> >>) @@
  Entry(<<"d2", <<"g.h">>>>, << <<"#", "ifndef", "G">>, <<"#", "define", "G">>,
                                    <<"#", "ifdef", "A">>, <<"g", "A">>, <<"#", "endif">>,
                                    <<"g">>, <<"#", "endif">> >>) @@
  Entry(<<"d2", <<"h.h">>>>, << <<"#", "ifndef", "G">>, <<"#", "define", "G">>, <<"g">>,
                                    <<"#", "else">>, <<"o">>, <<"#", "endif">> >>) @@
  Entry(<<"d1", <<"o.h">>>>, << <<"#", "pragma", "once">>, <<"o">>,
                                    <<"#", "include", "<", "o.h", ">">> >>) @@
  Entry(<<"src", <<"q.h">>>>, << <<"#", "include", "\"r.h\"">>, <<"q">> >>) @@
  Entry(<<"d1", <<"r.h">>>>, << <<"r">> >>) @@
  Entry(<<"d2", <<"_vec.h">>>>, << <<"#", "ifndef", "C">>, <<"#", "define", "C">>,
                                       <<"c">>, <<"#", "endif">>, <<"v", "i_key">> >>)

Inclusions == {
  <<"#", "include", "<", "a.h", ">">>, <<"#", "include", "<", "g.h", ">">>,
  <<"#", "include", "<", "o.h", ">">>, <<"#", "include", "\"q.h\"">>, <<"$vec", "(", "x", ")">>}
FileLines == Inclusions \cup {
  <<"#", "include", "A">>, <<"#", "include", "<", "z.h", ">">>,
  <<"#", "define", "A", "\"r.h\"">>, <<"#", "define", "A", "<", "g.h", ">">>, <<"#", "undef", "G">>,
  <<"$vec", "(", "A", ")", "$vec", "(", "x", ")">>,
  <<"#">>, <<"#", "line", "5">>, <<"#", "5">>, <<"#", "pragma", "x">>,
  <<"#", "if", "__has_include", "(", "x", ")">>, <<"#", "error">>, <<"#", "endif">> }
FilePrograms ==
  {Compiled(<<a, b>>) : a, b \in FileLines}
  \cup {Compiled(<<a, b, c>>) : a \in Inclusions, b \in FileLines,
                               c \in Inclusions \ {<<"#", "include", "<", "a.h", ">">>}}

AllPrograms == <<CondPrograms, MacroPrograms, FilePrograms>>

\* A file whose #ifndef has an #else, included twice.
GuardPrograms ==
  <<{Compiled(<<a, b, a>>) : a \in {<<"#", "include", "<", "h.h", ">">>}, b \in CondLines}>>

Dirs == <<"d1", "d2">>
IdentifierAtoms ==
  {"A", "B", "BB", "C", "F", "G", "p", "q", "x", "a1", "a2", "c", "g", "o", "r", "v", "if", "ifdef", "ifndef",
   "elif", "else", "endif", "define", "undef", "include", "include_next", "pragma", "once",
   "line", "error", "defined", "__VA_ARGS__", "__VA_OPT__", "__COUNTER__", "__has_include",
   "__dyibicc__", "$vec", "_Vec$", "i_key"}
DigitAtoms == {"0", "1", "2", "3", "4", "5"}
===============================================================================
