------------------------------ MODULE StandardPP ------------------------------
(***************************************************************************)
(* What the preprocessor is to compute, as a reference: the C standard's   *)
(* account of groups and directives (6.10.1 to 6.10.3), line by line, with *)
(* every enclosing group remembered instead of skipped; and macro          *)
(* expansion after D. Prosser's algorithm, which preprocess.c names as its *)
(* basis, on lists that nothing is ever written into.  Guards, caches and  *)
(* the positions of tokens do not occur.                                   *)
(*                                                                         *)
(* A file is taken as the sequence of its lines.  The state threaded       *)
(* through: macros, files with #pragma once, the value of __COUNTER__, the *)
(* containers, the texts produced, and whether there was an error.         *)
(***************************************************************************)
EXTENDS Preprocess

Plainly(ts) == [k \in DOMAIN ts |-> [t |-> ts[k], hs |-> {}, bol |-> FALSE, f |-> Main]]
Texts(ts) == [k \in DOMAIN ts |-> ts[k].t]
Wrong(st) == [st EXCEPT !.err = TRUE]
NoOutput(st) == [st EXCEPT !.out = <<>>]

\* The lines of a file, each as texts.
LinesIn(path) ==
  LET s == Tokens(path)
      starts == SetToSortSeq({k \in DOMAIN s : s[k].bol}, <)
      end(i) == IF i = Len(starts) THEN Len(s) ELSE starts[i + 1] - 1
  IN  [i \in DOMAIN starts |-> Texts(SubSeq(s, starts[i], end(i)))]

RECURSIVE Expand(_, _), Substitute(_, _, _, _), Lines(_, _, _, _, _, _)

-------------------------------------------------------------------------------
(* Macro expansion *)

\* Prosser's glue: the last token of l is joined with the first of r.
Glue(l, r) ==
  IF r = <<>> THEN l
  ELSE Front(l) \o <<[Last(l) EXCEPT !.t = @ \o r[1].t, !.hs = @ \cap r[1].hs]>> \o Tail(r)

\* $vec instantiates a type that has not been seen: two lines are preprocessed.
WithType(key, st) ==
  LET sub == Lines(<< << <<"#">>, <<"define">>, <<"i_key">>, key >>,
                      << <<"#">>, <<"include">>, <<"<">>, <<"_vec.h">>, <<">">> >> >>,
                   Main, 1, <<>>, <<>>, NoOutput(st))
  IN  IF key \in st.inst THEN st
      ELSE [sub EXCEPT !.out = st.out, !.inst = @ \cup {key}, !.boxes = Append(@, Texts(sub.out))]

\* What a call of m with these arguments becomes, and the state after.
Called(m, hs, args, st) ==
  IF m.kind = "has" THEN [toks |-> Plainly(<< <<"0">> >>), st |-> st]
  ELSE IF m.kind = "vec"
  THEN [toks |-> Plainly(<< <<"_Vec$">> \o FlattenSeq(Texts(args[1].toks)) >>),
        st |-> WithType(FlattenSeq(Texts(args[1].toks)), st)]
  ELSE Substitute(Plainly(m.body), args, <<>>, st)

Rescan(sub, hs, name, rest) == Expand(Hide(sub.toks, hs, name) \o rest, sub.st)

ExpandCall(m, args, ts, st) ==
  IF ~args.ok THEN Wrong(st)
  ELSE Rescan(Called(m, ts[1].hs, args.args, st), ts[1].hs \cap ts[args.at].hs, ts[1].t,
              From(ts, args.at + 1))

ExpandWith(m, ts, st) ==
  IF m.kind = "obj" THEN Expand(Hide(Plainly(m.body), ts[1].hs, ts[1].t) \o Tail(ts), st)
  ELSE IF m.kind = "counter"
  THEN Expand(Plainly(<< <<ToString(st.counter)>> >>) \o Tail(ts), [st EXCEPT !.counter = @ + 1])
  ELSE ExpandCall(m, read_macro_args(ts, m), ts, st)

\* Expand(ts, st): st with the expansion of ts appended to its texts.
Expand(ts, st) ==
  IF ts = <<>> \/ st.err THEN st
  ELSE IF \/ ts[1].t \in ts[1].hs \/ ts[1].t \notin DOMAIN st.macros
          \/ st.macros[ts[1].t].kind \notin {"obj", "counter"} /\ ~Is(ts, 2, "(")
  THEN Expand(Tail(ts), [st EXCEPT !.out = Append(@, ts[1])])
  ELSE ExpandWith(st.macros[ts[1].t], ts, st)

Pasted(acc, r, b, args, st) ==
  Substitute(From(b, 3), args, Glue(acc, r),
             IF acc = <<>> \/ Len(b) = 1 \/ (r # <<>> /\ ~CanPaste(Last(acc), r[1]))
             THEN Wrong(st) ELSE st)

\* The argument at the head of the body, expanded where it does not meet ##.
Inserted(sub, b, args, acc, st) ==
  Substitute(Tail(b), args, acc \o sub.out, [sub EXCEPT !.out = st.out])

OptionalPart(j, b, args, acc, st) ==
  Substitute(From(b, j + 1), args,
             IF has_varargs(args) THEN acc \o SubSeq(b, 3, j - 1) ELSE acc, st)

\* The argument a token of the body stands for, or the token itself.
Raw(args, b, i) ==
  IF find_arg(args, b, i) = 0 THEN SubSeq(b, i, i) ELSE args[find_arg(args, b, i)].toks

\* Substitute(b, args, acc, st): the body with its arguments, and the state after.
Substitute(b, args, acc, st) ==
  CASE b = <<>> -> [toks |-> acc, st |-> st]
    [] Is(b, 1, "#") ->
         IF find_arg(args, b, 2) = 0 THEN [toks |-> acc, st |-> Wrong(st)]
         ELSE Substitute(From(b, 3), args,
                acc \o Plainly(<< <<"\"">> \o FlattenSeq(Texts(Raw(args, b, 2))) >>), st)
    [] Is(b, 1, ",") /\ Is(b, 2, "##") /\ find_arg(args, b, 3) # 0 ->
         IF Raw(args, b, 3) = <<>> THEN Substitute(From(b, 4), args, acc, st)
         ELSE Substitute(From(b, 3), args, Append(acc, b[1]), st)
    [] Is(b, 1, "##") -> Pasted(acc, Raw(args, b, 2), b, args, st)
    [] Is(b, 1, "__VA_OPT__") -> OptionalPart(read_macro_arg_one(b, 3), b, args, acc, st)
    [] find_arg(args, b, 1) = 0 /\ ~Is(b, 1, "#") /\ ~Is(b, 1, "##") /\ ~Is(b, 1, "__VA_OPT__")
       /\ ~(Is(b, 1, ",") /\ Is(b, 2, "##")) ->
         Substitute(Tail(b), args, Append(acc, b[1]), st)
    [] OTHER ->
         IF ~Is(b, 2, "##") THEN Inserted(Expand(Raw(args, b, 1), NoOutput(st)), b, args, acc, st)
         \* an empty operand of ## is a place marker
         ELSE IF Raw(args, b, 1) # <<>>
         THEN Substitute(Tail(b), args, acc \o Raw(args, b, 1), st)
         ELSE Substitute(From(b, 4), args, acc \o Raw(args, b, 3), st)

-------------------------------------------------------------------------------
(* Directives *)

Truth(ts) == ts # <<>> /\ ts[1].t # <<"0">> /\ ~IsIdent(ts[1].t)

Holds(ws, st) ==
  CASE ws[1] = <<"!">> /\ ws[2] = <<"defined">> -> ws[3] \notin DOMAIN st.macros
    [] ws[1] = <<"defined">> -> ws[2] \in DOMAIN st.macros
    [] OTHER -> Truth(Expand(Plainly(ws), NoOutput(st)).out)

\* The file an include directive in file from means.
NamedBy(from, ts) ==
  LET quoted == ts # <<>> /\ IsStr(ts[1])
      name == IF quoted THEN Tail(ts[1]) ELSE ts[2]
      ks == DirsWith(name, 1)
  IN  IF ~quoted /\ (Len(ts) < 3 \/ ts[1] # <<"<">>) THEN NoPath
      ELSE IF quoted /\ Exists(from[1], name) THEN <<from[1], name>>
      ELSE IF ks = {} THEN NoPath ELSE <<IncludeDirs[Min(ks)], name>>

Named(from, ws, st) ==
  NamedBy(from, IF IsIdent(ws[1]) THEN Texts(Expand(Plainly(ws), NoOutput(st)).out) ELSE ws)

\* #include_next: the directories behind the one the file itself is in.
NamedNext(from, ws) ==
  LET here == {k \in DOMAIN IncludeDirs : IncludeDirs[k] = from[1]}
      ks == IF here = {} THEN {} ELSE DirsWith(ws[2], Min(here) + 1)
  IN  IF ks = {} THEN NoPath ELSE <<IncludeDirs[Min(ks)], ws[2]>>

Included(path, st) ==
  IF path = NoPath THEN Wrong(st)
  ELSE IF path \in st.once THEN st
  ELSE Lines(LinesIn(path), path, 1, <<>>, <<>>, st)

Definition(s, ps, st) ==
  [st EXCEPT !.macros = s[3].t :>
     [kind |-> IF Is(s, 4, "(") THEN "fun" ELSE "obj", params |-> ps.params, va |-> ps.va,
      body |-> Texts(From(s, ps.at))] @@ @]

\* A directive that is not about groups.
Obey(ws, s, path, st) ==
  CASE Is(s, 2, "define") ->
         Definition(s, IF Is(s, 4, "(") THEN read_macro_params(s, 5)
                       ELSE [params |-> <<>>, va |-> NoText, at |-> 4], st)
    [] Is(s, 2, "undef") -> [st EXCEPT !.macros = [n \in DOMAIN @ \ {ws[3]} |-> @[n]]]
    [] Is(s, 2, "include") -> Included(Named(path, From(ws, 3), st), st)
    [] Is(s, 2, "include_next") -> Included(NamedNext(path, From(ws, 3)), st)
    [] Is(s, 2, "pragma") -> IF Is(s, 3, "once") THEN [st EXCEPT !.once = @ \cup {path}] ELSE st
    [] Len(ws) = 1 \/ Is(s, 2, "line") \/ (Len(ws) > 1 /\ IsNum(ws[2])) -> st
    [] OTHER -> Wrong(st)

\* The open groups after the words of a directive; none if they do not fit.
Misplaced == <<[active |-> FALSE, taken |-> FALSE, last |-> TRUE]>>
Regroup(s, ws, groups, active, st) ==
  LET n == Len(groups)
      outer == \A k \in 1..(n - 1) : groups[k].active
      Opened(val) == Append(groups, [active |-> active /\ val, taken |-> val, last |-> FALSE])
      Turned(val, last) ==
        [groups EXCEPT ![n] = [active |-> val /\ ~@.taken, taken |-> @.taken \/ val, last |-> last]]
  IN  CASE Is(s, 2, "if") -> Opened(active /\ Holds(From(ws, 3), st))
        [] Is(s, 2, "ifdef") -> Opened(ws[3] \in DOMAIN st.macros)
        [] Is(s, 2, "ifndef") -> Opened(ws[3] \notin DOMAIN st.macros)
        [] Is(s, 2, "endif") -> IF n = 0 THEN Misplaced ELSE Front(groups)
        [] OTHER -> IF n = 0 THEN Misplaced
                    ELSE IF ~outer THEN groups
                    ELSE IF groups[n].last THEN Misplaced
                    ELSE Turned(Is(s, 2, "else") \/ Holds(From(ws, 3), st), Is(s, 2, "else"))

GroupWords == {"if", "ifdef", "ifndef", "elif", "else", "endif"}

\* A directive; now is the state after the text before it.
Direct(ls, path, i, groups, s, active, now) ==
  IF \E w \in GroupWords : Is(s, 2, w)
  THEN LET gs == Regroup(s, ls[i], groups, active, now)
       IN  Lines(ls, path, i + 1, gs, <<>>, IF gs = Misplaced THEN Wrong(now) ELSE now)
  ELSE Lines(ls, path, i + 1, groups, <<>>,
             IF active THEN Obey(ls[i], s, path, now) ELSE now)

\* Lines(ls, path, i, groups, text, st): the lines from i on, inside the groups
\* that are open and with text not yet expanded.
Lines(ls, path, i, groups, text, st) ==
  LET active == \A k \in DOMAIN groups : groups[k].active
  IN  IF st.err THEN st
      ELSE IF i > Len(ls) THEN Expand(Plainly(text), IF groups = <<>> THEN st ELSE Wrong(st))
      ELSE IF ls[i][1] # <<"#">>
      THEN Lines(ls, path, i + 1, groups, IF active THEN text \o ls[i] ELSE text, st)
      ELSE Direct(ls, path, i, groups, Plainly(ls[i]), active, Expand(Plainly(text), st))

\* The texts of the program after preprocessing, or that it has an error.
Outcome(st) == [err |-> st.err, out |-> IF st.err THEN <<>> ELSE FlattenSeq(st.boxes) \o Texts(st.out)]
Standard ==
  Outcome(Lines(LinesIn(Main), Main, 1, <<>>, <<>>,
                [macros |-> [n \in DOMAIN Predefined |-> [Predefined[n] EXCEPT !.body = Texts(@)]],
                 once |-> {}, counter |-> 0, inst |-> {}, boxes |-> <<>>, out |-> <<>>,
                 err |-> FALSE]))

\* What preprocess returns is what the standard says: the macros that skipped
\* groups, re-included files, argument lists and hide sets leave are the right ones.
AgreesWithStandard ==
  status # "run" =>
    Standard = [err |-> status = "error", out |-> IF status = "error" THEN <<>> ELSE Texts(output)]
===============================================================================
