------------------------------ MODULE Preprocess ------------------------------
(***************************************************************************)
(* The preprocessor.  preprocess2 walks a list of tokens: it expands a     *)
(* macro in place and looks at the result again, obeys a directive, or     *)
(* passes the token on.  It calls itself for a macro argument, for the     *)
(* operand of #if and #line, for a computed #include and for the tokens of *)
(* a container type, so the model keeps a stack of calls, innermost last.  *)
(* An included file is put in front of the list that includes it.          *)
(*                                                                         *)
(* A token is its text, a sequence of atoms that ## makes longer; whether  *)
(* it begins a line; its hide set; and its file.  The list ends in an EOF  *)
(* token that begins a line, which is left out here.  A string, and the    *)
(* quoted name of a file, begin with the atom of a double quote.           *)
(*                                                                         *)
(* Left out: white space inside a line, so that a macro is function-like   *)
(* exactly if a parenthesis follows its name; line numbers, and therefore  *)
(* __LINE__ and what #line sets; the conversion of pp-numbers; the lists   *)
(* of predefined macros, of which one of each kind is kept.                *)
(***************************************************************************)
EXTENDS Integers, Sequences, FiniteSets, TLC, SequencesExt

CONSTANTS
  Programs,      \* families of files to compile, each file as its tokens
  Main,          \* the path of the file that is compiled, <<directory, name>>
  Library,       \* the other files, per path their tokens
  IncludeDirs,   \* user_context->include_paths
  Identifiers,   \* atoms that are identifiers
  Digits,        \* atoms that are numbers
  MaxReads       \* files read before AL_Compile is exhausted

ASSUME PreprocessAssumption ==
  /\ Main \notin DOMAIN Library
  /\ Identifiers \cap Digits = {}
  /\ MaxReads \in Nat

VARIABLES
  prog,        \* the file that is compiled, as tokens
  frames,      \* the calls of preprocess2 and subst in progress
  macros,      \* C(macros)
  cond,        \* C(cond_incl), the innermost last
  once,        \* C(pragma_once)
  guards,      \* C(include_guards): per path the name of its guard
  pathCache,   \* C(include_path_cache)
  nextIdx,     \* C(include_next_idx)
  counter,     \* C(counter_macro_i)
  included,    \* C(container_included)
  containers,  \* C(container_tokens)
  reads,       \* how many files have been read
  skipped,     \* history: paths an #include did not read because of their guard
  status,      \* "run", "error" or "done"
  output       \* what preprocess and add_container_instantiations return

vars == <<prog, frames, macros, cond, once, guards, pathCache, nextIdx, counter,
          included, containers, reads, skipped, status, output>>
files == <<once, guards, pathCache, nextIdx, reads, skipped>>
boxes == <<included, containers>>

IsFile(path) == path = Main \/ path \in DOMAIN Library
Tokens(path) == IF path = Main THEN prog ELSE Library[path]
NoText == <<>>
New(t, f) == [t |-> t, bol |-> TRUE, hs |-> {}, f |-> f]  \* first of a file of its own

IsNum(t) == t # NoText /\ t[1] \in Digits
IsIdent(t) == t # NoText /\ t[1] \in Identifiers
IsStr(t) == t # NoText /\ t[1] = "\""

Is(s, i, w) == i \in DOMAIN s /\ s[i].t = <<w>>
AtBol(s, i) == i \in DOMAIN s => s[i].bol
is_hash(s, i) == Is(s, i, "#") /\ s[i].bol
From(s, i) == SubSeq(s, i, Len(s))
WithBol(s, b) == IF s = <<>> THEN s ELSE [s EXCEPT ![1].bol = b]

\* The first position from i on where P holds, or the end of the list.
First(s, i, P(_)) ==
  LET js == {j \in i..Len(s) : P(j)}
  IN  IF js = {} THEN Len(s) + 1 ELSE Min(js)

LineEnd(s, i) == First(s, i, LAMBDA j : s[j].bol)

\* The position after the extra tokens of a directive, as the loop in the code
\* finds it: it only moves over tokens that begin a line.
skip_line(s, i) == IF AtBol(s, i) THEN i ELSE First(s, i, LAMBDA j : ~s[j].bol)

-------------------------------------------------------------------------------
(* Conditionals that are skipped *)

Opens(s, j) == is_hash(s, j) /\ \E w \in {"if", "ifdef", "ifndef"} : Is(s, j + 1, w)
Closes(s, j) == is_hash(s, j) /\ Is(s, j + 1, "endif")

\* skip_cond_incl2: groups opened between i and j and not closed again.
Nesting(s, i, j) ==
  Cardinality({k \in i..(j - 1) : Opens(s, k)}) - Cardinality({k \in i..(j - 1) : Closes(s, k)})

\* The next #elif, #else or #endif that is not in a nested group.
skip_cond_incl(s, i) ==
  First(s, i, LAMBDA j : /\ Nesting(s, i, j) = 0
                         /\ is_hash(s, j)
                         /\ \E w \in {"elif", "else", "endif"} : Is(s, j + 1, w))

-------------------------------------------------------------------------------
(* Macro definitions and arguments *)

\* The parameters from position i, behind the parenthesis.
read_macro_params(s, i) ==
  LET Bad == [ok |-> FALSE, params |-> <<>>, va |-> NoText, at |-> i]
      End(ps, va, at) == [ok |-> Is(s, at, ")"), params |-> ps, va |-> va, at |-> at + 1]
      item[k \in i..(Len(s) + 2)] ==
        CASE Is(s, k, "...") -> End(<<>>, <<"__VA_ARGS__">>, k + 1)
          [] k > Len(s) \/ (~Is(s, k, "...") /\ ~IsIdent(s[k].t)) -> Bad
          [] OTHER ->
               IF Is(s, k + 1, "...") THEN End(<<>>, s[k].t, k + 2)
               ELSE IF ~Is(s, k + 1, ",") THEN End(<<s[k].t>>, NoText, k + 1)
               ELSE [item[k + 2] EXCEPT !.params = <<s[k].t>> \o @]
  IN  IF Is(s, i, ")") THEN End(<<>>, NoText, i) ELSE item[i]

\* Parentheses opened between i and j and not closed again.
Level(s, i, j) ==
  Cardinality({k \in i..(j - 1) : Is(s, k, "(")}) - Cardinality({k \in i..(j - 1) : Is(s, k, ")")})

\* Where the arguments that begin at i end; behind the list if they do not.
read_macro_arg_one(s, i) == First(s, i, LAMBDA j : Is(s, j, ")") /\ Level(s, i, j) = 0)

\* The arguments of macro m, whose name is the first token; at: the ")".  The
\* named arguments lie between commas, and the variable one is what remains.
read_macro_args(s, m) ==
  LET close == read_macro_arg_one(s, 3)
      n == Len(m.params)
      Comma(j) == Is(s, j, ",") /\ Level(s, 3, j) = 0
      edge == <<2>> \o SetToSortSeq({j \in 3..(close - 1) : Comma(j)}, <) \o <<close>>
      given == IF close = 3 /\ n = 0 THEN 0 ELSE Len(edge) - 1
      named == [k \in 1..n |-> [name |-> m.params[k], va |-> FALSE,
                                toks |-> SubSeq(s, edge[k] + 1, edge[k + 1] - 1)]]
      rest == [name |-> m.va, va |-> TRUE,
               toks |-> IF given = n THEN <<>> ELSE SubSeq(s, edge[n + 1] + 1, close - 1)]
  IN  IF \/ Len(s) < 2 \/ close > Len(s) \/ given < n
         \/ m.va = NoText /\ given > n
      THEN [ok |-> FALSE, args |-> <<>>, at |-> 0]
      ELSE [ok |-> TRUE, at |-> close,
            args |-> IF m.va = NoText THEN named ELSE Append(named, rest)]

find_arg(args, s, i) ==
  LET ks == {k \in DOMAIN args : i \in DOMAIN s /\ args[k].name = s[i].t}
  IN  IF ks = {} THEN 0 ELSE Min(ks)

has_varargs(args) ==
  \E k \in DOMAIN args : args[k].name = <<"__VA_ARGS__">> /\ args[k].toks # <<>>

stringize(hash, toks) ==
  New(<<"\"">> \o FlattenSeq([k \in DOMAIN toks |-> toks[k].t]), hash.f)

CanPaste(l, r) == (IsIdent(l.t) \/ IsNum(l.t)) /\ (IsIdent(r.t) \/ IsNum(r.t))
paste(l, r) == New(l.t \o r.t, l.f)

-------------------------------------------------------------------------------
(* The stack of calls *)

Top == frames[Len(frames)]
Under == frames[Len(frames) - 1]
Below(n) == SubSeq(frames, 1, Len(frames) - n)
In(kind) == status = "run" /\ Top.kind = kind

\* own: how many tokens at the end of in belong to the list the call was given.
Call(why, in, own, k, text, bol) ==
  [kind |-> "pp", why |-> why, in |-> in, out |-> <<>>, own |-> own, lead |-> <<>>,
   pin |-> 0, k |-> k, text |-> text, bol |-> bol]

\* The first n tokens are taken and new ones put in their place.
Took(f, n, new) ==
  LET own == SubSeq(f.in, Len(f.in) - f.own + 1, n)
  IN  [f EXCEPT !.in = new \o From(@, n + 1),
                !.own = @ - Len(own),
                !.lead = IF f.pin = 0 THEN @ \o own ELSE @]

\* preprocess2 links the tokens it passes on into its result and thereby changes
\* the list it was given: this is what that list is afterwards.
ListAfter(f) == f.lead \o (IF f.pin = 0 THEN <<>> ELSE From(f.out, f.pin))

\* error, error_tok: the longjmp of dyibicc_update clears compiler_state.
Fail ==
  /\ status' = "error" /\ frames' = <<>>
  /\ UNCHANGED <<prog, macros, cond, files, counter, boxes, output>>

-------------------------------------------------------------------------------
(* expand_macro *)

\* The next token names a macro that may be expanded here.
Macro(f) ==
  /\ f.in # <<>>
  /\ IsIdent(f.in[1].t) /\ f.in[1].t \notin f.in[1].hs
  /\ f.in[1].t \in DOMAIN macros
  /\ macros[f.in[1].t].kind = "fun" => Is(f.in, 2, "(")

Expanding(kind) == In("pp") /\ Macro(Top) /\ macros[Top.in[1].t].kind = kind

\* Mutant: only the macro's name is hidden, not what its token hides.
HideNameOnly(body, hs, name) == [k \in DOMAIN body |-> [body[k] EXCEPT !.hs = {name}]]

\* add_hideset
Hide(body, hs, name) == [k \in DOMAIN body |-> [body[k] EXCEPT !.hs = @ \cup hs \cup {name}]]

ExpandObject ==
  /\ Expanding("obj")
  /\ LET tok == Top.in[1]
         f == Took(Top, 1, Hide(macros[tok.t].body, tok.hs, tok.t))
     IN  frames' = Append(Below(1), [f EXCEPT !.in = WithBol(@, tok.bol)])
  /\ UNCHANGED <<prog, macros, cond, files, counter, boxes, status, output>>

\* counter_macro
ExpandCounter ==
  /\ Expanding("counter")
  /\ LET tok == Top.in[1]
         num == [New(<<ToString(counter)>>, tok.f) EXCEPT !.bol = tok.bol]
     IN  frames' = Append(Below(1), Took(Top, 1, <<num>>))
  /\ counter' = counter + 1
  /\ UNCHANGED <<prog, macros, cond, files, boxes, status, output>>

\* has_macro_false: a handler reads its arguments whether or not there are any.
ExpandHas ==
  /\ Expanding("has")
  /\ LET tok == Top.in[1]
         args == read_macro_args(Top.in, macros[tok.t])
         num == [New(<<"0">>, tok.f) EXCEPT !.bol = tok.bol]
     IN  IF ~args.ok THEN Fail
         ELSE /\ frames' = Append(Below(1), Took(Top, args.at, <<num>>))
              /\ UNCHANGED <<prog, macros, cond, files, counter, boxes, status, output>>

\* A function-like macro with its arguments: subst begins.
BeginCall ==
  /\ Expanding("fun")
  /\ LET tok == Top.in[1]
         m == macros[tok.t]
         args == read_macro_args(Top.in, m)
         sub == [kind |-> "subst", name |-> tok.t, b |-> m.body, acc |-> <<>>,
                 args |-> args.args, hs |-> tok.hs \cap Top.in[args.at].hs, bol |-> tok.bol]
     IN  IF ~args.ok THEN Fail
         ELSE /\ frames' = Below(1) \o <<Took(Top, args.at, <<>>), sub>>
              /\ UNCHANGED <<prog, macros, cond, files, counter, boxes, status, output>>

-------------------------------------------------------------------------------
(* subst, one turn of its loop after the other *)

\* Which branch of the loop the next tokens of the body select.
SubstCase(g) ==
  LET arg == find_arg(g.args, g.b, 1)
      third == find_arg(g.args, g.b, 3)
  IN  IF g.b = <<>> THEN "end"
      ELSE IF Is(g.b, 1, "#") THEN "stringize"
      ELSE IF Is(g.b, 1, ",") /\ Is(g.b, 2, "##") /\ third # 0 /\ g.args[third].va
           THEN "comma"
      ELSE IF Is(g.b, 1, "##") THEN "paste"
      ELSE IF arg # 0 /\ Is(g.b, 2, "##") THEN "operand"
      ELSE IF Is(g.b, 1, "__VA_OPT__") /\ Is(g.b, 2, "(") THEN "va_opt"
      ELSE IF arg # 0 THEN "argument"
      ELSE "copy"

Substituting(case) == In("subst") /\ SubstCase(Top) = case

\* n tokens of the body are done and acc is the result so far.
SubstOn(n, acc) ==
  /\ frames' = Append(Below(1), [Top EXCEPT !.b = From(@, n + 1), !.acc = acc])
  /\ UNCHANGED <<prog, macros, cond, files, counter, boxes, status, output>>

SubstStringize ==
  /\ Substituting("stringize")
  /\ LET k == find_arg(Top.args, Top.b, 2)
     IN  IF k = 0 THEN Fail
         ELSE SubstOn(2, Append(Top.acc, stringize(Top.b[1], Top.args[k].toks)))

\* , ## __VA_ARGS__
SubstComma ==
  /\ Substituting("comma")
  /\ IF Top.args[find_arg(Top.args, Top.b, 3)].toks = <<>> THEN SubstOn(3, Top.acc)
     ELSE SubstOn(2, Append(Top.acc, Top.b[1]))

SubstPaste ==
  /\ Substituting("paste")
  /\ LET k == find_arg(Top.args, Top.b, 2)
         rhs == IF k = 0 THEN SubSeq(Top.b, 2, 2) ELSE Top.args[k].toks
     IN  IF Top.acc = <<>> \/ Len(Top.b) = 1 THEN Fail
         ELSE IF rhs = <<>> THEN SubstOn(2, Top.acc)
         ELSE IF ~CanPaste(Last(Top.acc), rhs[1]) THEN Fail
         ELSE SubstOn(2, Front(Top.acc) \o <<paste(Last(Top.acc), rhs[1])>> \o Tail(rhs))

\* A parameter on the left of ## is not expanded.
SubstOperand ==
  /\ Substituting("operand")
  /\ LET toks == Top.args[find_arg(Top.args, Top.b, 1)].toks
         k == find_arg(Top.args, Top.b, 3)
         rhs == IF k = 0 THEN SubSeq(Top.b, 3, 3) ELSE Top.args[k].toks
     IN  IF toks = <<>> THEN SubstOn(3, Top.acc \o rhs) ELSE SubstOn(1, Top.acc \o toks)

SubstVaOpt ==
  /\ Substituting("va_opt")
  /\ LET j == read_macro_arg_one(Top.b, 3)
     IN  IF j > Len(Top.b) THEN Fail
         ELSE SubstOn(j, IF has_varargs(Top.args) THEN Top.acc \o SubSeq(Top.b, 3, j - 1)
                         ELSE Top.acc)

\* Arguments are completely macro-expanded before they are substituted.
SubstArgument ==
  /\ Substituting("argument")
  /\ LET k == find_arg(Top.args, Top.b, 1)
         toks == Top.args[k].toks
     IN  frames' = Append(frames, Call("arg", toks, Len(toks), k, NoText, Top.b[1].bol))
  /\ UNCHANGED <<prog, macros, cond, files, counter, boxes, status, output>>

\* The list of argument k is the one the call of preprocess2 has left behind.
ReturnArgument ==
  /\ In("pp") /\ Top.in = <<>> /\ Top.why = "arg"
  /\ LET f == [Top EXCEPT !.out = WithBol(@, Top.bol)]
     IN  frames' = Append(Below(2), [Under EXCEPT !.b = Tail(@),
                                                  !.acc = @ \o f.out,
                                                  !.args[f.k].toks = ListAfter(f)])
  /\ UNCHANGED <<prog, macros, cond, files, counter, boxes, status, output>>

SubstCopy ==
  /\ Substituting("copy")
  /\ SubstOn(1, Append(Top.acc, Top.b[1]))

\* expand_macro puts the body in front of what follows the call.
SubstEnd ==
  /\ Substituting("end")
  /\ LET f == Took(Under, 0, Hide(Top.acc, Top.hs, Top.name))
     IN  frames' = Append(Below(2), [f EXCEPT !.in = WithBol(@, Top.bol)])
  /\ UNCHANGED <<prog, macros, cond, files, counter, boxes, status, output>>

-------------------------------------------------------------------------------
(* Container types *)

\* The lines container_vec_setup has preprocessed for an element type.
VecLines(key, f) ==
  LET line(ws) == [k \in DOMAIN ws |-> [t |-> ws[k], bol |-> k = 1, hs |-> {}, f |-> f]]
  IN  line(<< <<"#">>, <<"define">>, <<"i_key">>, key >>)
      \o line(<< <<"#">>, <<"include">>, <<"<">>, <<"_vec.h">>, <<">">> >>)

\* $vec(T): the type is instantiated on its first use.
ExpandVec ==
  /\ Expanding("vec")
  /\ LET tok == Top.in[1]
         args == read_macro_args(Top.in, macros[tok.t])
         key == FlattenSeq([k \in DOMAIN args.args[1].toks |-> args.args[1].toks[k].t])
         type == [New(<<"_Vec$">> \o key, tok.f) EXCEPT !.bol = tok.bol]
         f == Took(Top, args.at, <<type>>)
     IN  IF ~args.ok THEN Fail
         ELSE /\ frames' = Below(1) \o
                   IF key \in included THEN <<f>>
                   ELSE <<f, Call("vec", VecLines(key, tok.f), 0, 0, key, FALSE)>>
              /\ UNCHANGED <<prog, macros, cond, files, counter, boxes, status, output>>

\* The nested preprocess has read its tokens.  It looks at the one stack of
\* conditionals there is.
ReturnVec ==
  /\ In("pp") /\ Top.in = <<>> /\ Top.why = "vec"
  /\ IF cond # <<>> THEN Fail
     ELSE /\ frames' = Below(1)
          /\ containers' = Append(containers, Top.out)
          /\ included' = included \cup {Top.text}
          /\ UNCHANGED <<prog, macros, cond, files, counter, status, output>>

-------------------------------------------------------------------------------
(* preprocess2: tokens that are not macros *)

\* The next token is not expanded.
Plain == In("pp") /\ Top.in # <<>> /\ ~Macro(Top)

\* The next tokens are # and the word of a directive, at the beginning of a line.
Directive(word) == Plain /\ is_hash(Top.in, 1) /\ Is(Top.in, 2, word)

\* The directive and everything up to position i is done.
DirectiveDone(i) ==
  frames' = Append(Below(1), Took(Top, i - 1, <<>>))

PassOn ==
  /\ Plain /\ ~is_hash(Top.in, 1)
  /\ LET f == [Took(Top, 1, <<>>) EXCEPT !.out = Append(@, Top.in[1])]
     IN  frames' = Append(Below(1),
                          IF Len(Top.in) > Top.own \/ Top.pin # 0 THEN f
                          ELSE [f EXCEPT !.pin = Len(f.out), !.lead = Top.lead])
  /\ UNCHANGED <<prog, macros, cond, files, counter, boxes, status, output>>

\* read_macro_definition
Define ==
  /\ Directive("define")
  /\ LET s == Top.in
         fun == Is(s, 4, "(")
         ps == IF fun THEN read_macro_params(s, 5)
               ELSE [ok |-> TRUE, params |-> <<>>, va |-> NoText, at |-> 4]
         end == LineEnd(s, ps.at)
     IN  IF Len(s) < 3 \/ ~IsIdent(s[3].t) \/ ~ps.ok THEN Fail
         ELSE /\ macros' = s[3].t :> [kind |-> IF fun THEN "fun" ELSE "obj",
                                      params |-> ps.params, va |-> ps.va,
                                      body |-> SubSeq(s, ps.at, end - 1)] @@ macros
              /\ DirectiveDone(end)
              /\ UNCHANGED <<prog, cond, files, counter, boxes, status, output>>

\* undef_macro
Undef ==
  /\ Directive("undef")
  /\ IF Len(Top.in) < 3 \/ ~IsIdent(Top.in[3].t) THEN Fail
     ELSE /\ macros' = [n \in DOMAIN macros \ {Top.in[3].t} |-> macros[n]]
          /\ DirectiveDone(skip_line(Top.in, 4))
          /\ UNCHANGED <<prog, cond, files, counter, boxes, status, output>>

-------------------------------------------------------------------------------
(* Conditional directives *)

push_cond_incl(isIncluded) == cond' = Append(cond, [ctx |-> "IN_THEN", included |-> isIncluded])

Bad == [t |-> <<"?">>, bol |-> FALSE, hs |-> {}, f |-> Main]

\* "defined X" and "defined(X)" are replaced.  read_const_expr leaves the rest
\* alone; after expansion eval_const_expr makes the remaining identifiers 0.
ReplaceDefined(s, rest0) ==
  LET Num(b, k) == New(<<IF b THEN "1" ELSE "0">>, s[k].f)
      from[i \in 1..(Len(s) + 1)] ==
        IF i > Len(s) THEN <<>>
        ELSE IF ~Is(s, i, "defined")
        THEN <<IF rest0 /\ IsIdent(s[i].t) THEN Num(FALSE, i) ELSE s[i]>> \o from[i + 1]
        ELSE LET paren == Is(s, i + 1, "(")
                 n == IF paren THEN i + 2 ELSE i + 1
             IN  IF n > Len(s) \/ ~IsIdent(s[n].t) \/ (paren /\ ~Is(s, n + 1, ")")) THEN <<Bad>>
                 ELSE <<Num(s[n].t \in DOMAIN macros, i)>> \o from[IF paren THEN n + 2 ELSE n + 1]
  IN  from[1]

\* pp_const_expr, of which only a number and ! are kept.
IsConstExpr(s) ==
  s # <<>> /\ IsNum(Last(s).t) /\ \A k \in 1..(Len(s) - 1) : s[k].t = <<"!">>
ConstTrue(s) == (Last(s).t # <<"0">>) <=> (Len(s) % 2 = 1)

\* eval_const_expr begins: the operand is copied and preprocessed.
Evaluate(why) ==
  LET end == LineEnd(Top.in, 3)
      expr == ReplaceDefined(SubSeq(Top.in, 3, end - 1), FALSE)
  IN  IF \E k \in DOMAIN expr : expr[k] = Bad
      THEN /\ status' = "error" /\ frames' = <<>>
           /\ UNCHANGED <<prog, macros, files, counter, boxes, output>>
      ELSE /\ frames' = Below(1) \o <<Took(Top, end - 1, <<>>), Call(why, expr, 0, 0, NoText, FALSE)>>
           /\ UNCHANGED <<prog, macros, files, counter, boxes, status, output>>

If == Directive("if") /\ Evaluate("if") /\ UNCHANGED cond

\* A nested call of preprocess2 is at its end.
Evaluated(why) == In("pp") /\ Top.in = <<>> /\ Top.why = why
Value == ReplaceDefined(Top.out, TRUE)
SkipUnder == Append(Below(2), Took(Under, skip_cond_incl(Under.in, 1) - 1, <<>>))

ReturnIf ==
  /\ Evaluated("if")
  /\ IF ~IsConstExpr(Value) THEN Fail
     ELSE /\ push_cond_incl(ConstTrue(Value))
          /\ frames' = IF ConstTrue(Value) THEN Below(1) ELSE SkipUnder
          /\ UNCHANGED <<prog, macros, files, counter, boxes, status, output>>

\* #ifdef and #ifndef, where want says which.
IfDefined(word, want) ==
  /\ Directive(word)
  /\ LET s == Top.in
         taken == (Len(s) > 2 /\ s[3].t \in DOMAIN macros) = want
         i == skip_line(s, 4)
     IN  IF Len(s) < 3 THEN Fail
         ELSE /\ push_cond_incl(taken)
              /\ DirectiveDone(IF taken THEN i ELSE skip_cond_incl(s, i))
              /\ UNCHANGED <<prog, macros, files, counter, boxes, status, output>>

Ifdef == IfDefined("ifdef", TRUE)
Ifndef == IfDefined("ifndef", FALSE)

Stray == cond = <<>> \/ Last(cond).ctx = "IN_ELSE"
Turn(ctx) == cond' = [cond EXCEPT ![Len(cond)].ctx = ctx]

Elif ==
  /\ Directive("elif")
  /\ IF Stray THEN Fail
     ELSE IF ~Last(cond).included THEN Evaluate("elif") /\ Turn("IN_ELIF")
     ELSE /\ Turn("IN_ELIF")
          /\ DirectiveDone(skip_cond_incl(Top.in, 2))
          /\ UNCHANGED <<prog, macros, files, counter, boxes, status, output>>

\* Mutant: that a group was included is forgotten.
ReturnElifForgets ==
  /\ Evaluated("elif")
  /\ IF ~IsConstExpr(Value) THEN Fail
     ELSE /\ frames' = IF ConstTrue(Value) THEN Below(1) ELSE SkipUnder
          /\ UNCHANGED <<prog, macros, cond, files, counter, boxes, status, output>>

ReturnElif ==
  /\ Evaluated("elif")
  /\ IF ~IsConstExpr(Value) THEN Fail
     ELSE /\ cond' = IF ConstTrue(Value) THEN [cond EXCEPT ![Len(cond)].included = TRUE] ELSE cond
          /\ frames' = IF ConstTrue(Value) THEN Below(1) ELSE SkipUnder
          /\ UNCHANGED <<prog, macros, files, counter, boxes, status, output>>

Else ==
  /\ Directive("else")
  /\ IF Stray THEN Fail
     ELSE /\ Turn("IN_ELSE")
          /\ LET i == skip_line(Top.in, 3)
             IN  DirectiveDone(IF Last(cond).included THEN skip_cond_incl(Top.in, i) ELSE i)
          /\ UNCHANGED <<prog, macros, files, counter, boxes, status, output>>

Endif ==
  /\ Directive("endif")
  /\ IF cond = <<>> THEN Fail
     ELSE /\ cond' = Front(cond)
          /\ DirectiveDone(skip_line(Top.in, 3))
          /\ UNCHANGED <<prog, macros, files, counter, boxes, status, output>>

-------------------------------------------------------------------------------
(* #include *)

\* read_include_filename without a macro: the name, and the position behind it.
read_include_filename(s, i) ==
  LET close == First(s, i, LAMBDA j : s[j].t = <<">">> \/ (j > i /\ s[j].bol))
  IN  IF i \in DOMAIN s /\ IsStr(s[i].t)
      THEN [ok |-> TRUE, name |-> Tail(s[i].t), dquote |-> TRUE, at |-> skip_line(s, i + 1)]
      ELSE IF Is(s, i, "<") /\ Is(s, close, ">")
      THEN [ok |-> TRUE, dquote |-> FALSE, at |-> skip_line(s, close + 1),
            name |-> FlattenSeq([k \in 1..(close - i - 1) |-> s[i + k].t])]
      ELSE [ok |-> FALSE, name |-> NoText, dquote |-> FALSE, at |-> i]

Exists(dir, name) == IsFile(<<dir, name>>)
NoPath == <<"", NoText>>
DirsWith(name, from) == {k \in from..Len(IncludeDirs) : Exists(IncludeDirs[k], name)}

\* #ifndef X, #define X, ..., #endif at the end.  The loop over the groups in
\* between compares the # with if, ifdef and ifndef and so skips none.
detect_include_guard(s) ==
  LET n == Len(s)
  IN  IF /\ n >= 8 /\ is_hash(s, 1) /\ Is(s, 2, "ifndef") /\ IsIdent(s[3].t)
         /\ is_hash(s, 4) /\ Is(s, 5, "define") /\ s[6].t = s[3].t
         /\ is_hash(s, n - 1) /\ Is(s, n, "endif")
      THEN s[3].t ELSE NoText

\* include_file: f is the call that goes on, in front of whose tokens the file is put.
IncludeFile(stack, f, path) ==
  IF path \in once
  THEN frames' = Append(stack, f) /\ UNCHANGED <<once, guards, reads, skipped, status>>
  ELSE IF path \in DOMAIN guards /\ guards[path] \in DOMAIN macros
  THEN /\ frames' = Append(stack, f) /\ skipped' = skipped \cup {path}
       /\ UNCHANGED <<once, guards, reads, status>>
  ELSE IF ~IsFile(path) \/ reads = MaxReads
  THEN frames' = <<>> /\ status' = "error" /\ UNCHANGED <<once, guards, reads, skipped>>
  ELSE LET guard == detect_include_guard(Tokens(path))
       IN  /\ frames' = Append(stack, [f EXCEPT !.in = Tokens(path) \o @])
           /\ guards' = IF guard = NoText THEN guards ELSE path :> guard @@ guards
           /\ reads' = reads + 1
           /\ UNCHANGED <<once, skipped, status>>

\* search_include_paths, which remembers where it found a name.
SearchPaths(stack, f, name) ==
  IF name \in DOMAIN pathCache
  THEN IncludeFile(stack, f, pathCache[name]) /\ UNCHANGED <<pathCache, nextIdx>>
  ELSE IF DirsWith(name, 1) = {}
  THEN IncludeFile(stack, f, NoPath) /\ UNCHANGED <<pathCache, nextIdx>>
  ELSE LET k == Min(DirsWith(name, 1))
       IN  /\ pathCache' = name :> <<IncludeDirs[k], name>> @@ pathCache
           /\ nextIdx' = k + 1
           /\ IncludeFile(stack, f, <<IncludeDirs[k], name>>)

\* search_include_next: from where the last search ended.
SearchNext(stack, f, name) ==
  LET ks == DirsWith(name, nextIdx)
  IN  /\ nextIdx' = IF ks = {} THEN Len(IncludeDirs) + 1 ELSE Min(ks)
      /\ IncludeFile(stack, f, IF ks = {} THEN NoPath ELSE <<IncludeDirs[Min(ks)], name>>)
      /\ UNCHANGED pathCache

\* The file of directive word is known; from is the file the directive is in.
IncludeBy(word, stack, f, file, from) ==
  IF word = "include_next" THEN SearchNext(stack, f, file.name)
  ELSE IF file.dquote /\ Exists(from[1], file.name)
  THEN IncludeFile(stack, f, <<from[1], file.name>>) /\ UNCHANGED <<pathCache, nextIdx>>
  ELSE SearchPaths(stack, f, file.name)

\* #include and #include_next.  A name that is an identifier is preprocessed first.
Include(word) ==
  /\ Directive(word)
  /\ \E file \in {read_include_filename(Top.in, 3)} :
       LET s == Top.in
           end == LineEnd(s, 3)
       IN  IF file.ok
           THEN /\ IncludeBy(word, Below(1), Took(Top, file.at - 1, <<>>), file, s[1].f)
                /\ UNCHANGED <<prog, macros, cond, counter, boxes, output>>
           ELSE IF Len(s) > 2 /\ IsIdent(s[3].t)
           THEN /\ frames' = Below(1) \o
                     <<Took(Top, end - 1, <<>>),
                       Call(word, SubSeq(s, 3, end - 1), 0, 0, <<s[1].f[1]>>, FALSE)>>
                /\ UNCHANGED <<prog, macros, cond, files, counter, boxes, status, output>>
           ELSE Fail

ReturnInclude(word) ==
  /\ Evaluated(word)
  /\ \E file \in {read_include_filename(Top.out, 1)} :
       IF ~file.ok THEN Fail
       ELSE /\ IncludeBy(word, Below(2), Under, file, Top.text)
            /\ UNCHANGED <<prog, macros, cond, counter, boxes, output>>

PragmaOnce ==
  /\ Directive("pragma") /\ Is(Top.in, 3, "once")
  /\ once' = once \cup {Top.in[2].f}
  /\ DirectiveDone(skip_line(Top.in, 4))
  /\ UNCHANGED <<prog, macros, cond, guards, pathCache, nextIdx, reads, skipped, counter, boxes,
                 status, output>>

-------------------------------------------------------------------------------
(* Other directives *)

Pragma ==
  /\ Directive("pragma") /\ ~Is(Top.in, 3, "once")
  /\ DirectiveDone(LineEnd(Top.in, 3))
  /\ UNCHANGED <<prog, macros, cond, files, counter, boxes, status, output>>

\* read_line_marker: #line 5, and # 5.
LineMarker ==
  /\ Plain /\ is_hash(Top.in, 1)
  /\ \/ Is(Top.in, 2, "line")
     \/ Len(Top.in) > 1 /\ IsNum(Top.in[2].t)
  /\ LET i == IF Is(Top.in, 2, "line") THEN 3 ELSE 2
         end == LineEnd(Top.in, i)
     IN  frames' = Below(1) \o <<Took(Top, end - 1, <<>>),
                                 Call("line", SubSeq(Top.in, i, end - 1), 0, 0, NoText, FALSE)>>
  /\ UNCHANGED <<prog, macros, cond, files, counter, boxes, status, output>>

ReturnLineMarker ==
  /\ Evaluated("line")
  /\ IF \/ Top.out = <<>> \/ ~IsNum(Top.out[1].t)
        \/ Len(Top.out) > 1 /\ ~IsStr(Top.out[2].t)
     THEN Fail
     ELSE /\ frames' = Below(1)
          /\ UNCHANGED <<prog, macros, cond, files, counter, boxes, status, output>>

Words == {"include", "include_next", "define", "undef", "if", "ifdef", "ifndef", "elif",
          "else", "endif", "line", "pragma"}

\* A # alone on its line is nothing; #error and the rest stop the compilation.
OtherDirective ==
  /\ Plain /\ is_hash(Top.in, 1) /\ \A w \in Words : ~Is(Top.in, 2, w)
  /\ ~(Len(Top.in) > 1 /\ IsNum(Top.in[2].t))
  /\ IF ~Is(Top.in, 2, "error") /\ AtBol(Top.in, 2)
     THEN DirectiveDone(2) /\ UNCHANGED <<prog, macros, cond, files, counter, boxes, status, output>>
     ELSE Fail

\* preprocess and add_container_instantiations: containers go first, in the order
\* in which they were instantiated.
Finish ==
  /\ Evaluated("main")
  /\ IF cond # <<>> THEN Fail
     ELSE /\ status' = "done" /\ frames' = <<>>
          /\ output' = FlattenSeq(containers) \o Top.out
          /\ UNCHANGED <<prog, macros, cond, files, counter, boxes>>

-------------------------------------------------------------------------------
\* init_macros: one macro of each kind.
Predefined ==
  LET M(kind, params) == [kind |-> kind, params |-> params, va |-> NoText, body |-> <<>>]
  IN  <<"__COUNTER__">> :> M("counter", <<>>) @@
      <<"__has_include">> :> M("has", << <<"_">> >>) @@
      <<"$vec">> :> M("vec", << <<"T">> >>) @@
      <<"__dyibicc__">> :> [M("obj", <<>>) EXCEPT !.body = <<New(<<"1">>, NoPath)>>]

Init ==
  /\ \E k \in DOMAIN Programs : prog \in Programs[k]
  /\ frames = <<Call("main", prog, 0, 0, NoText, FALSE)>>
  /\ macros = Predefined /\ cond = <<>>
  /\ once = {} /\ guards = <<>> /\ pathCache = <<>> /\ nextIdx = 1
  /\ counter = 0 /\ included = {} /\ containers = <<>>
  /\ reads = 0 /\ skipped = {} /\ status = "run" /\ output = <<>>

Next ==
  \/ ExpandObject \/ ExpandCounter \/ ExpandHas \/ ExpandVec \/ BeginCall
  \/ SubstStringize \/ SubstComma \/ SubstPaste \/ SubstOperand \/ SubstVaOpt
  \/ SubstArgument \/ ReturnArgument \/ SubstCopy \/ SubstEnd
  \/ ReturnVec \/ PassOn \/ Define \/ Undef
  \/ If \/ ReturnIf \/ Ifdef \/ Ifndef \/ Elif \/ ReturnElif \/ Else \/ Endif
  \/ Include("include") \/ Include("include_next")
  \/ ReturnInclude("include") \/ ReturnInclude("include_next")
  \/ PragmaOnce \/ Pragma \/ LineMarker \/ ReturnLineMarker \/ OtherDirective
  \/ Finish

Spec == Init /\ [][Next]_vars /\ WF_vars(Next)

-------------------------------------------------------------------------------
TypeOK ==
  /\ \A k \in DOMAIN prog : prog[k].f = Main
  /\ \A k \in DOMAIN frames : frames[k].kind \in {"pp", "subst"}
  /\ \A k \in DOMAIN cond : cond[k].ctx \in {"IN_THEN", "IN_ELIF", "IN_ELSE"}
  /\ \A path \in once \cup DOMAIN guards : IsFile(path)
  /\ \A n \in DOMAIN pathCache : IsFile(pathCache[n])
  /\ nextIdx \in 1..(Len(IncludeDirs) + 1)
  /\ reads \in 0..MaxReads /\ counter \in Nat
  /\ status \in {"run", "error", "done"}
  /\ (frames = <<>>) = (status # "run")

PreprocessEnds == <>(status # "run")
===============================================================================
