------------------------------- MODULE ShWords -------------------------------
(***************************************************************************)
(* What a word and an arithmetic expression of the shell mean, said over   *)
(* their structure and not over their characters: the reference that       *)
(* ShExpand and ShArith are compared with.                                 *)
(*                                                                         *)
(* A word is a sequence of parts; Source writes one down.  An expression   *)
(* is a tree; SumSource writes it with the fewest brackets.                *)
(***************************************************************************)
EXTENDS ShExpand

Concat(texts) == LET RECURSIVE C(_)
                     C(s) == IF s = <<>> THEN <<>> ELSE s[1] \o C(Tail(s)) IN C(texts)

-----------------------------------------------------------------------------
(* Expressions.                                                            *)

Num(n) == [k |-> "num", n |-> n]
Var(x) == [k |-> "var", x |-> x]
Neg(e) == [k |-> "neg", e |-> e]
Bin(op, l, r) == [k |-> "bin", op |-> op, l |-> l, r |-> r]
Set(x, op, e) == [k |-> "set", x |-> x, op |-> op, e |-> e]
Step(x, by, before) == [k |-> "step", x |-> x, by |-> by, before |-> before]
If(c, t, e) == [k |-> "if", c |-> c, t |-> t, e |-> e]

\* C's precedence, the loosest first.
Precedence == << {<<"|", "|">>}, {<<"&", "&">>}, {<<"|">>}, {<<"^">>}, {<<"&">>}, {<<"=", "=">>, <<"!", "=">>},
                 {<<"<">>, <<">">>, <<"<", "=">>, <<">", "=">>}, {<<"<", "<">>, <<">", ">">>},
                 {<<"+">>, <<"-">>}, {<<"*">>, <<"/">>, <<"%">>} >>
LevelOf(op) == CHOOSE k \in DOMAIN Precedence : op \in Precedence[k]
Binds(e) == CASE e.k = "set" -> -1 [] e.k = "if" -> 0 [] e.k = "bin" -> LevelOf(e.op)
              [] e.k = "neg" -> 11 [] OTHER -> 12

Sign(by) == IF by = 1 THEN <<"+", "+">> ELSE <<"-", "-">>
RECURSIVE SumSource(_)
At2(e, least) == IF Binds(e) < least THEN <<"(">> \o SumSource(e) \o <<")">> ELSE SumSource(e)
SumSource(e) ==
  CASE e.k = "num" -> Decimal(e.n)
    [] e.k = "var" -> e.x
    [] e.k = "neg" -> <<"-", " ">> \o At2(e.e, 11)
    [] e.k = "bin" -> At2(e.l, LevelOf(e.op)) \o <<" ">> \o e.op \o <<" ">> \o At2(e.r, LevelOf(e.op) + 1)
    [] e.k = "set" -> e.x \o <<" ">> \o e.op \o <<"=">> \o SumSource(e.e)
    [] e.k = "step" -> IF e.before THEN Sign(e.by) \o e.x ELSE e.x \o Sign(e.by)
    [] e.k = "if" -> At2(e.c, 1) \o <<"?">> \o SumSource(e.t) \o <<":">> \o At2(e.e, 0)

\* The text of a variable is a number, or this expression.
Stored1 == Bin(<<"+">>, Var(<<"z">>), Num(1))

\* The value by the rules of C: an operand that is not needed is not evaluated.
Of(v, store, error) == [v |-> v, vars |-> store, error |-> error]
RECURSIVE Meaning(_, _)
Stored(r, x, n) == Of(n, (x :> Decimal(n)) @@ r.vars, r.error)
Meaning(e, store) ==
  LET l == Meaning(e.l, store)
      r == Meaning(e.r, l.vars)
      inner == Meaning(e.e, store)
      now == Meaning(Var(e.x), inner.vars)
      c == Meaning(e.c, store)
      chosen == Meaning(IF c.v # 0 THEN e.t ELSE e.e, c.vars)
      was == Meaning(Var(e.x), store)
      text == IF e.x \in DOMAIN store THEN store[e.x] ELSE <<>>
  IN CASE e.k = "num" -> Of(e.n, store, FALSE)
       [] e.k = "var" -> IF text = SumSource(Stored1) THEN Meaning(Stored1, store)
                      ELSE Of(IF text = <<>> THEN 0 ELSE NumberIn(text), store, FALSE)
       [] e.k = "neg" -> Of(-inner.v, inner.vars, inner.error)
       [] e.k = "bin" ->
            IF e.op \in {<<"&", "&">>, <<"|", "|">>} /\ (l.v = 0) = (e.op = <<"&", "&">>) THEN Of(Truth(l.v # 0), l.vars, l.error)
            ELSE IF IsDivision(e.op) /\ r.v = 0 THEN Of(0, r.vars, TRUE)
            ELSE Of(Apply(e.op, l.v, r.v), r.vars, l.error \/ r.error)
       [] e.k = "set" ->
            IF e.op = <<>> THEN Stored(inner, e.x, inner.v)
            ELSE IF IsDivision(e.op) /\ inner.v = 0 THEN Of(0, inner.vars, TRUE)
            ELSE Stored(inner, e.x, Apply(e.op, now.v, inner.v))
       [] e.k = "step" -> [Stored(was, e.x, was.v + e.by) EXCEPT !.v = IF e.before THEN @ ELSE was.v]
       [] e.k = "if" -> Of(chosen.v, chosen.vars, c.error \/ chosen.error)

\* An expression that does something beside having a value: it assigns, or may
\* divide by nothing.
RECURSIVE Acts(_)
Acts(e) == CASE e.k \in {"num", "var"} -> FALSE
             [] e.k \in {"set", "step"} -> TRUE
             [] e.k = "neg" -> Acts(e.e)
             [] e.k = "bin" -> IsDivision(e.op) \/ Acts(e.l) \/ Acts(e.r)
             [] e.k = "if" -> Acts(e.c) \/ Acts(e.t) \/ Acts(e.e)
\* What need not be evaluated does nothing: the code evaluates it all the same.
RECURSIVE Careful(_)
Careful(e) ==
  CASE e.k \in {"num", "var", "step"} -> TRUE
    [] e.k \in {"neg", "set"} -> Careful(e.e)
    [] e.k = "bin" -> Careful(e.l) /\ Careful(e.r) /\ (e.op \in {<<"&", "&">>, <<"|", "|">>} => ~Acts(e.r))
    [] e.k = "if" -> Careful(e.c) /\ ~Acts(e.t) /\ ~Acts(e.e)

-----------------------------------------------------------------------------
(* Words.                                                                  *)

Lit(t) == [k |-> "lit", t |-> t]
Sq(t) == [k |-> "sq", t |-> t]
Dq(ps) == [k |-> "dq", ps |-> ps]
Esc(c) == [k |-> "esc", t |-> <<c>>]
Par(n) == [k |-> "par", n |-> n]
All(c) == [k |-> "all", c |-> c]
LengthOf(n) == [k |-> "len", n |-> n]
Use(n, op, ps) == [k |-> "use", n |-> n, op |-> op, ps |-> ps]
Cut(n, op, ps) == [k |-> "cut", n |-> n, op |-> op, ps |-> ps]
Sub(t, tick) == [k |-> "sub", t |-> t, tick |-> tick]
Sum(e) == [k |-> "sum", e |-> e]
Home == [k |-> "home"]   \* a ~ in front

RECURSIVE Source(_)
Texts(ps) == Concat([i \in DOMAIN ps |-> Source(ps[i])])
Braced(text) == <<"$", "{">> \o text \o <<"}">>
Source(p) ==
  CASE p.k = "lit" -> p.t
    [] p.k = "sq" -> <<Single>> \o p.t \o <<Single>>
    [] p.k = "esc" -> <<Backslash>> \o p.t
    [] p.k = "home" -> <<"~">>
    [] p.k = "dq" -> <<Quote>> \o Texts(p.ps) \o <<Quote>>
    [] p.k = "par" -> <<"$">> \o p.n
    [] p.k = "all" -> <<"$", p.c>>
    [] p.k = "len" -> Braced(<<"#">> \o p.n)
    [] p.k \in {"use", "cut"} -> Braced(p.n \o p.op \o Texts(p.ps))
    [] p.k = "sub" -> IF p.tick THEN <<BackQuote>> \o p.t \o <<BackQuote>> ELSE <<"$", "(">> \o p.t \o <<")">>
    [] p.k = "sum" -> <<"$", "(", "(">> \o SumSource(p.e) \o <<")", ")">>

\* What a part contributes, the shell after it, and whether it is an error.
\* A piece is a character that may be split at or not and that may stand for
\* others or not; "" keeps a field that is empty, "break" ends one.
Piece(c, split, active) == [c |-> c, split |-> split, active |-> active]
Chars(t, split, active) == [i \in DOMAIN t |-> Piece(t[i], split, active)]
Empty == <<Piece("", FALSE, FALSE)>>
Gives(p, sh, error) == [p |-> p, sh |-> sh, error |-> error]

RECURSIVE JoinedWith(_, _)
JoinedWith(texts, sep) == IF Len(texts) <= 1 THEN Concat(texts) ELSE texts[1] \o sep \o JoinedWith(Tail(texts), sep)

Everything(sh, c, q) ==
  LET ifs == Ifs(sh)
      each == [i \in DOMAIN sh.params |->
                 IF q /\ sh.params[i] = <<>> THEN Empty ELSE Chars(sh.params[i], ~q, ~q)]
      sep == CASE q /\ c = "@" -> <<Piece("break", FALSE, FALSE)>>
               [] q /\ c = "*" -> Chars(FirstOf(ifs), FALSE, FALSE)
               [] ~q -> Chars(<<" ">>, TRUE, TRUE)
  IN JoinedWith(each, sep)

\* Pieces as a pattern: what is not active stands for itself.
PatternOf(p) == Concat([i \in DOMAIN p |->
  IF p[i].c = "" THEN <<>>
  ELSE IF ~p[i].active /\ p[i].c \in Active THEN <<Backslash, p[i].c>> ELSE <<p[i].c>>])

RECURSIVE Parts(_, _, _), Part(_, _, _)
Part(p, q, sh) ==
  LET value == ValueOf(sh, p.n)
      usable == value # <<>> /\ (p.op[1] = ":" => value[1] # <<>>)
      op == p.op[Len(p.op)]
      inner == Parts(p.ps, q, sh)
      quoted == Parts(p.ps, TRUE, sh)
      operand == Parts(p.ps, FALSE, sh)
      text == LET kept == SelectSeq(operand.p, LAMBDA x : x.c \notin {"", "break"}) IN [i \in DOMAIN kept |-> kept[i].c]
      pattern == PatternOf(operand.p)
      sum == Meaning(p.e, sh.vars)
  IN CASE p.k = "lit" -> Gives(Chars(p.t, FALSE, ~q), sh, FALSE)
       [] p.k = "home" -> Gives(Chars(shVarGet(sh, <<"H", "O", "M", "E">>)[1], FALSE, FALSE), sh, FALSE)
       [] p.k \in {"sq", "esc"} -> Gives(IF p.t = <<>> THEN Empty ELSE Chars(p.t, FALSE, FALSE), sh, FALSE)
       [] p.k = "dq" ->
            IF quoted.p = <<>> /\ ~\E i \in DOMAIN p.ps : p.ps[i].k = "all" THEN [quoted EXCEPT !.p = Empty] ELSE quoted
       [] p.k = "par" -> IF value = <<>> THEN Gives(<<>>, [sh EXCEPT !.exits = @ \/ sh.nounset], sh.nounset)
                         ELSE Gives(Chars(value[1], ~q, ~q), sh, FALSE)
       [] p.k = "all" -> Gives(Everything(sh, p.c, q), sh, FALSE)
       [] p.k = "len" -> Gives(Chars(Decimal(Length(sh, p.n)), ~q, ~q), sh, FALSE)
       [] p.k = "use" /\ op = "+" -> IF usable THEN inner ELSE Gives(<<>>, sh, FALSE)
       [] p.k = "use" /\ op # "+" /\ usable -> Gives(Chars(value[1], ~q, ~q), sh, FALSE)
       [] p.k = "use" /\ op = "-" /\ ~usable -> inner
       [] p.k = "use" /\ op = "=" /\ ~usable ->
            Gives(Chars(text, ~q, ~q), [operand.sh EXCEPT !.vars = (p.n :> text) @@ @], FALSE)
       [] p.k = "use" /\ op = "?" /\ ~usable -> Gives(<<>>, [sh EXCEPT !.exits = TRUE], TRUE)
       [] p.k = "cut" ->
            LET whole == IF value = <<>> THEN <<>> ELSE value[1]
                keeps == {n \in 0..Len(whole) : fnmatch(pattern, IF op = "#" THEN SubSeq(whole, 1, n) ELSE From(whole, n + 1))}
                n == IF (op = "#") = (Len(p.op) = 2) THEN Largest(keeps) ELSE Smallest(keeps)
                left == IF keeps = {} THEN whole ELSE IF op = "#" THEN From(whole, n + 1) ELSE SubSeq(whole, 1, n)
            IN Gives(Chars(left, ~q, ~q), operand.sh, operand.error)
       [] p.k = "sub" -> Gives(Chars(Stripped(Printed(p.t)), ~q, ~q), [sh EXCEPT !.status = 0, !.ran = Append(@, p.t)], FALSE)
       [] p.k = "sum" -> Gives(IF sum.error THEN <<>> ELSE Chars(Decimal(sum.v), ~q, ~q), [sh EXCEPT !.vars = sum.vars], sum.error)
Parts(ps, q, sh) ==
  IF ps = <<>> THEN Gives(<<>>, sh, FALSE)
  ELSE LET first == Part(ps[1], q, sh)
           rest == Parts(Tail(ps), q, first.sh)
       IN Gives(first.p \o rest.p, rest.sh, first.error \/ rest.error)

\* The fields of the pieces: the stretches between breaks and separators.
Separates(x, ifs) == x.split /\ ifsContains(ifs, x.c)
Ends(x, ifs) == x.c = "break" \/ Separates(x, ifs)
FieldsOf(p, ifs) ==
  LET starts == SelectSeq([i \in DOMAIN p |-> i], LAMBDA i : ~Ends(p[i], ifs) /\ (i = 1 \/ Ends(p[i - 1], ifs)))
      end(i) == CHOOSE j \in i..Len(p) : (\A n \in i..j : ~Ends(p[n], ifs)) /\ (j = Len(p) \/ Ends(p[j + 1], ifs))
      others == {i \in DOMAIN p : Separates(p[i], ifs) /\ ~isIfsWhitespace(ifs, p[i].c)}
      trailing == \E i \in others : \A j \in i + 1..Len(p) : Separates(p[j], ifs) /\ j \notin others
  IN [n \in DOMAIN starts |-> SubSeq(p, starts[n], end(starts[n]))] \o (IF trailing THEN <<<<>>>> ELSE <<>>)

\* The code drops an empty field in front of a separator that is not white space.
DropsEmptyField(p, ifs) ==
  \E i \in DOMAIN p : /\ Separates(p[i], ifs) /\ ~isIfsWhitespace(ifs, p[i].c)
                      /\ \/ \A j \in 1..i - 1 : Separates(p[j], ifs)
                         \/ \E j \in 1..i - 1 : /\ Separates(p[j], ifs) /\ ~isIfsWhitespace(ifs, p[j].c)
                                                /\ \A n \in j..i : Separates(p[n], ifs)

Arguments(field, sh) ==
  LET plain == LET kept == SelectSeq(field, LAMBDA x : x.c # "") IN [i \in DOMAIN kept |-> kept[i].c]
      pattern == PatternOf(field)
      live == \E i \in DOMAIN field : field[i].active /\ field[i].c \in {"*", "?", "["}
  IN IF live /\ ~sh.noglob /\ Glob(sh, pattern) # <<>> THEN Glob(sh, pattern) ELSE <<plain>>

\* Where one string is wanted the pieces are neither split nor matched.
Plain(p) == LET kept == SelectSeq(p, LAMBDA x : x.c # "") IN [i \in DOMAIN kept |-> kept[i].c]

\* A string of C ends at the break between two parameters of "$@".
Broken(p) == \E i \in DOMAIN p : p[i].c = "break"

\* The arguments that words stand for, from left to right; `drops' says that
\* the code drops an empty field of theirs.
RECURSIVE Arguments2(_, _)
Arguments2(words, sh) ==
  IF words = <<>> THEN [sh |-> sh, error |-> FALSE, out |-> <<>>, drops |-> FALSE]
  ELSE LET r == Parts(words[1], FALSE, sh)
           fields == FieldsOf(r.p, Ifs(r.sh))
           rest == Arguments2(Tail(words), r.sh)
           drops == DropsEmptyField(r.p, Ifs(r.sh))
       IN IF r.error THEN [sh |-> r.sh, error |-> TRUE, out |-> <<>>, drops |-> drops]
          ELSE [rest EXCEPT !.out = Concat([i \in DOMAIN fields |-> Arguments(fields[i], r.sh)]) \o @,
                            !.drops = @ \/ drops]

\* A quoted bracket inside an expansion: the lexer counts it, the expander does not.
RECURSIVE Miscounted(_)
Bracket == {"(", ")", "{", "}"}
Quoted(p) == p.k \in {"sq", "esc"} /\ \E i \in DOMAIN p.t : p.t[i] \in Bracket
Miscounted(ps) ==
  \E i \in DOMAIN ps :
    LET p == ps[i] IN
    CASE p.k \in {"use", "cut"} -> Miscounted(p.ps) \/ \E j \in DOMAIN p.ps : Quoted(p.ps[j])
      [] p.k = "dq" -> Miscounted(p.ps)
      [] p.k = "sub" -> ~p.tick /\ \E j \in DOMAIN p.t : p.t[j] \in Bracket
      [] OTHER -> FALSE
=============================================================================
