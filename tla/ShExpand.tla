------------------------------- MODULE ShExpand -------------------------------
(***************************************************************************)
(* Words of the shell, from their characters to the arguments of a         *)
(* command: the scanner of the lexer (lexer.c: scanWord) marks the quoting *)
(* of a word and finds the ends of its expansions; the expander            *)
(* (sh_expand.c) finds the ends again, expands, splits and removes the     *)
(* quoting.                                                                *)
(*                                                                         *)
(* A text is a sequence of one-character strings.  A marked word also      *)
(* holds the marks SINGLE and DOUBLE, where quotes were, and ESCAPE before *)
(* a character that was behind a backslash.  The shell is a record: its    *)
(* variables, parameters, options and the status of the last command.      *)
(* Pathname expansion, ~user and what a command prints are inputs.         *)
(***************************************************************************)
EXTENDS ShArith

SINGLE == "mark1"
DOUBLE == "mark2"
ESCAPE == "mark3"
Backslash == "backslash"
Quote == "quote"
BackQuote == "backquote"
Single == "single"

Blank == {" ", "\t"}
Newline == "\n"

\* What the command of a substitution prints: its own text.
Printed(command) == command \o <<Newline>>

isOperatorDelimiter == {Newline, ";", "&", "|", "(", ")", "{", "}", "<", ">"}

\* The first position from i on where P holds, or the one behind the end.
RECURSIVE FirstAt(_, _, _)
FirstAt(text, i, set) ==
  IF i > Len(text) \/ text[i] \in set THEN i ELSE FirstAt(text, i + 1, set)
From(text, i) == SubSeq(text, i, Len(text))
FirstOf(text) == IF text = <<>> THEN <<>> ELSE <<text[1]>>
Largest(S) == CHOOSE n \in S : \A m \in S : m <= n
Smallest(S) == CHOOSE n \in S : \A m \in S : n <= m
CharAt(text, i) == IF i \in DOMAIN text THEN text[i] ELSE ""

-----------------------------------------------------------------------------
(* The scanner of the lexer.                                               *)

\* The end of a bracketed expansion for the lexer: brackets are counted,
\* quotes are not looked at.
RECURSIVE Balanced(_, _, _, _, _)
Balanced(text, i, depth, opens, closes) ==
  IF depth = 0 \/ i > Len(text) THEN i
  ELSE Balanced(text, i + 1, depth + (IF text[i] \in opens THEN 1 ELSE IF text[i] \in closes THEN -1 ELSE 0),
                opens, closes)

\* The position behind the expansion whose $ is at position i.
Special == {"?", "@", "*", "!", "-", "$"}
DollarEnd(text, i) ==
  LET next == CharAt(text, i + 1)
      arithmetic == Balanced(text, i + 3, 1, {"("}, {")"})
  IN CASE next = "(" /\ CharAt(text, i + 2) = "(" ->
            IF CharAt(text, arithmetic) = ")" THEN arithmetic + 1 ELSE arithmetic
       [] next \in {"{", "("} /\ ~(next = "(" /\ CharAt(text, i + 2) = "(") ->
            Balanced(text, i + 2, 1, {"{", "("}, {"}", ")"})
       [] next \in Special -> i + 2
       [] OTHER -> i + 1

\* What has been scanned of a word: `buf' is its marked text, `eq' the place
\* of the first unquoted = in it and `array' the depth of the brackets of a
\* literal name=( ... ).
Scanning(start) == [i |-> start, sq |-> FALSE, dq |-> FALSE, bt |-> FALSE, buf |-> <<>>, eq |-> 0, array |-> 0]
Bare(w) == ~w.sq /\ ~w.dq /\ ~w.bt
StartsArray(w, c) == Bare(w) /\ w.array = 0 /\ w.eq # 0 /\ c = "(" /\ Len(w.buf) = w.eq

\* A word ends at a blank, a newline or an operator outside quotes; braces
\* are part of a word that is not the first of its command.
EndsWord(w, c, braces) ==
  /\ Bare(w)
  /\ \/ w.array = 0 /\ c \in Blank \cup {Newline}
     \/ /\ c \in isOperatorDelimiter
        /\ ~StartsArray(w, c)
        /\ ~(w.array > 0 /\ c \in {"(", ")", Newline})
        /\ ~(braces /\ c \in {"{", "}"})

\* One turn of the loop of scanWord over the character at w.i.
ScanChar(text, w) ==
  LET c == text[w.i]
      next == CharAt(text, w.i + 1)
      array == IF ~Bare(w) \/ w.eq = 0 THEN w.array
               ELSE IF StartsArray(w, c) THEN 1
               ELSE IF w.array = 0 THEN 0
               ELSE w.array + (IF c = "(" THEN 1 ELSE IF c = ")" THEN -1 ELSE 0)
      x == [w EXCEPT !.i = @ + 1, !.array = array]
      escaped == [x EXCEPT !.i = @ + 1, !.buf = @ \o <<ESCAPE, next>>]
      end == DollarEnd(text, w.i)
  IN CASE c = Backslash ->
            IF w.sq \/ next = "" THEN [x EXCEPT !.buf = Append(@, Backslash)]
            ELSE IF next = Newline THEN [x EXCEPT !.i = @ + 1]
            ELSE IF ~w.dq \/ next \in {Backslash, Quote, "$", BackQuote} THEN escaped
            ELSE [x EXCEPT !.buf = Append(@, Backslash)]
       [] c = Single /\ ~w.dq -> [x EXCEPT !.sq = ~@, !.buf = Append(@, SINGLE)]
       [] c = Quote /\ ~w.sq -> [x EXCEPT !.dq = ~@, !.buf = Append(@, DOUBLE)]
       [] c = "$" /\ ~w.sq -> [x EXCEPT !.i = end, !.buf = @ \o SubSeq(text, w.i, end - 1)]
       [] c = BackQuote /\ ~w.sq -> [x EXCEPT !.bt = ~@, !.buf = Append(@, BackQuote)]
       [] OTHER -> [x EXCEPT !.buf = Append(@, c),
                             !.eq = IF @ = 0 /\ c = "=" /\ Bare(w) THEN Len(w.buf) + 1 ELSE @]

RECURSIVE ScanFrom(_, _, _)
ScanFrom(text, w, braces) ==
  IF w.i > Len(text) \/ EndsWord(w, CharAt(text, w.i), braces) THEN w
  ELSE ScanFrom(text, ScanChar(text, w), braces)
scanWord(text, start, braces) == ScanFrom(text, Scanning(start), braces)

\* The words of a line that holds blanks and words only.
RECURSIVE WordsFrom(_, _)
WordsFrom(text, i) ==
  LET start == RunEnd(text, i, Blank) + 1
      word == scanWord(text, start, TRUE)
  IN IF start > Len(text) THEN <<>>
     ELSE IF word.i = start THEN <<>>
     ELSE <<word.buf>> \o WordsFrom(text, word.i)

-----------------------------------------------------------------------------
(* The state of an expansion.  Every character of the buffer carries flags:*)
(* "quoted" (neither split nor matched), "exp" (result of an expansion),   *)
(* "sep" (the field break of "$@") and "hold" (an empty quotation stood    *)
(* here).                                                                  *)

Context(sh) == [buf |-> <<>>, error |-> FALSE, sawQuote |-> FALSE, open |-> 0,
                atEmpty |-> FALSE, squashed |-> FALSE, sh |-> sh]

expBufPushStr(ctx, text, flags) ==
  [ctx EXCEPT !.buf = @ \o [i \in DOMAIN text |-> [c |-> text[i], f |-> flags]]]
Hold(ctx) == expBufPushStr(ctx, <<"">>, {"hold", "quoted"})
Produced(dq) == {"exp"} \cup (IF dq THEN {"quoted"} ELSE {})
AsWritten(dq) == IF dq THEN {"quoted"} ELSE {}

\* The value of a parameter: no element when it is not set, else its text.
specialParam(sh, c) ==
  CASE c = "?" -> <<Decimal(sh.status)>>
    [] c = "$" -> <<Decimal(sh.pid)>>
    [] c = "!" -> <<IF sh.bg <= 0 THEN <<>> ELSE Decimal(sh.bg)>>
    [] c = "#" -> <<Decimal(Len(sh.params))>>
    [] c = "-" -> <<sh.options>>
    [] OTHER -> <<>>
positionalParam(sh, n) ==
  IF n = 0 THEN <<sh.arg0>> ELSE IF n <= Len(sh.params) THEN <<sh.params[n]>> ELSE <<>>
shVarGet(sh, name) == IF name \in DOMAIN sh.vars THEN <<sh.vars[name]>> ELSE <<>>
ValueOf(sh, name) ==
  IF name[1] \in Digit THEN positionalParam(sh, InBase(name, 10))
  ELSE IF Len(name) = 1 /\ specialParam(sh, name[1]) # <<>> THEN specialParam(sh, name[1])
  ELSE shVarGet(sh, name)

\* A parameter that must be set is not: a script ends.
emitUnsetError(ctx) ==
  [ctx EXCEPT !.error = TRUE, !.sh.exits = @ \/ ~ctx.sh.interactive]
Unless(ctx) == IF ctx.sh.nounset THEN emitUnsetError(ctx) ELSE ctx

ifsFirstSeparator(sh) ==
  LET ifs == shVarGet(sh, <<"I", "F", "S">>)
  IN IF ifs = <<>> THEN <<" ">> ELSE FirstOf(ifs[1])

\* $@ and $*.
RECURSIVE EmitFrom(_, _, _, _)
EmitFrom(ctx, n, which, dq) ==
  LET between == CASE n = 1 -> ctx
                   [] n > 1 /\ dq /\ which = "@" -> expBufPushStr(ctx, <<"">>, {"sep"})
                   [] n > 1 /\ dq /\ which = "*" -> expBufPushStr(ctx, ifsFirstSeparator(ctx.sh), Produced(dq))
                   [] n > 1 /\ ~dq -> expBufPushStr(ctx, <<" ">>, {"exp"})
      text == expBufPushStr(between, ctx.sh.params[n], Produced(dq))
  IN IF n > Len(ctx.sh.params) THEN ctx
     ELSE EmitFrom(IF dq /\ ctx.sh.params[n] = <<>> THEN Hold(text) ELSE text, n + 1, which, dq)
emitAllParams(ctx, which, dq) ==
  IF ctx.sh.params = <<>> THEN [ctx EXCEPT !.atEmpty = TRUE, !.squashed = TRUE]
  ELSE EmitFrom(ctx, 1, which, dq)

-----------------------------------------------------------------------------
(* Patterns.  A pattern is a sequence of characters; a backslash makes the one    *)
(* behind it literal.  fnmatch, for *, ? and literal characters.           *)

RECURSIVE fnmatch(_, _)
fnmatch(p, s) ==
  IF p = <<>> THEN s = <<>>
  ELSE IF p[1] = "*" THEN \E i \in 0..Len(s) : fnmatch(Tail(p), From(s, i + 1))
  ELSE IF s = <<>> THEN FALSE
  ELSE IF p[1] = "?" THEN fnmatch(Tail(p), Tail(s))
  ELSE IF p[1] = Backslash /\ Len(p) > 1 THEN p[2] = s[1] /\ fnmatch(From(p, 3), Tail(s))
  ELSE p[1] = s[1] /\ fnmatch(Tail(p), Tail(s))

Kept(buf) == SelectSeq(buf, LAMBDA x : "hold" \notin x.f)
Active == {"*", "?", "[", "]", Backslash}

\* A pattern out of a buffer: what was quoted matches itself only.
RECURSIVE bufToGlobPattern(_)
bufToGlobPattern(buf) ==
  IF buf = <<>> THEN <<>>
  ELSE LET x == buf[1] IN
       (IF "hold" \in x.f THEN <<>>
        ELSE IF "quoted" \in x.f /\ x.c \in Active THEN <<Backslash, x.c>>
        ELSE IF "quoted" \notin x.f /\ x.c = Backslash THEN <<Backslash, x.c>>
        ELSE <<x.c>>) \o bufToGlobPattern(Tail(buf))
RECURSIVE RemovalPattern(_)
RemovalPattern(buf) ==
  IF buf = <<>> THEN <<>>
  ELSE LET x == buf[1] IN
       (IF "hold" \in x.f THEN <<>>
        ELSE IF "quoted" \in x.f /\ x.c \in Active THEN <<Backslash, x.c>> ELSE <<x.c>>)
       \o RemovalPattern(Tail(buf))
\* The text of a buffer as a string of C: the break of "$@" is its end.
bufToPlainString(buf) ==
  LET kept == Kept(buf)
      breaks == {i \in DOMAIN kept : "sep" \in kept[i].f}
      end == IF breaks = {} THEN Len(kept) ELSE Smallest(breaks) - 1
  IN [i \in 1..end |-> kept[i].c]

\* The subject without the shortest or the longest prefix (suffix) that
\* matches the pattern.
Removed(subject, op, longest, pattern) ==
  LET prefixes == {n \in 0..Len(subject) : fnmatch(pattern, SubSeq(subject, 1, n))}
      suffixes == {n \in 0..Len(subject) : fnmatch(pattern, From(subject, n + 1))}
  IN IF op = "#"
       THEN IF prefixes = {} THEN subject
            ELSE From(subject, (IF longest THEN Largest(prefixes) ELSE Smallest(prefixes)) + 1)
       ELSE IF suffixes = {} THEN subject
            ELSE SubSeq(subject, 1, IF longest THEN Smallest(suffixes) ELSE Largest(suffixes))

-----------------------------------------------------------------------------
(* The ends of the expansions, for the expander.                           *)

\* The closing bracket of a command substitution or of ${: brackets count
\* outside quotes, and nothing behind a backslash counts.
RECURSIVE ScanQuoted(_, _, _, _, _, _)
ScanQuoted(text, i, depth, quote, open, close) ==
  LET c == CharAt(text, i)
      On(d, q) == ScanQuoted(text, i + 1, d, q, open, close)
  IN CASE i > Len(text) -> Len(text) + 1
       [] i <= Len(text) /\ quote = Single -> On(depth, IF c = Single THEN "" ELSE quote)
       [] i <= Len(text) /\ quote # Single /\ c = Backslash -> ScanQuoted(text, i + 2, depth, quote, open, close)
       [] i <= Len(text) /\ quote = Quote /\ c # Backslash -> On(depth, IF c = Quote THEN "" ELSE quote)
       [] i <= Len(text) /\ quote = "" /\ c # Backslash ->
            IF c \in {Single, Quote} THEN On(depth, c)
            ELSE IF c = open THEN On(depth + 1, quote)
            ELSE IF c = close /\ depth = 1 THEN i
            ELSE On(IF c = close THEN depth - 1 ELSE depth, quote)
scanDollarParen(text, i) == ScanQuoted(text, i, 1, "", "(", ")")
scanDollarBrace(text, i) == ScanQuoted(text, i, 1, "", "{", "}")

\* The first of the two brackets that close $((.
RECURSIVE scanDoubleParen(_, _, _)
scanDoubleParen(text, i, depth) ==
  IF i > Len(text) THEN Len(text) + 1
  ELSE IF text[i] = "(" THEN scanDoubleParen(text, i + 1, depth + 1)
  ELSE IF text[i] # ")" THEN scanDoubleParen(text, i + 1, depth)
  ELSE IF depth = 1 THEN i - 1
  ELSE scanDoubleParen(text, i + 1, depth - 1)

RECURSIVE scanBacktick(_, _)
scanBacktick(text, i) ==
  IF i > Len(text) THEN Len(text) + 1
  ELSE IF text[i] = Backslash /\ i < Len(text) THEN scanBacktick(text, i + 2)
  ELSE IF text[i] = BackQuote THEN i
  ELSE scanBacktick(text, i + 1)

\* The command between backquotes: the marks become quotes again.
RECURSIVE unescapeBacktickBody(_)
unescapeBacktickBody(body) ==
  LET next == CharAt(body, 2) IN
  CASE body = <<>> -> <<>>
    [] body # <<>> /\ body[1] = SINGLE -> <<Single>> \o unescapeBacktickBody(Tail(body))
    [] body # <<>> /\ body[1] = DOUBLE -> <<Quote>> \o unescapeBacktickBody(Tail(body))
    [] body # <<>> /\ body[1] \in {ESCAPE, Backslash} /\ next # "" /\ (body[1] = ESCAPE \/ next \in {Backslash, BackQuote, "$"}) ->
         <<next>> \o unescapeBacktickBody(From(body, 3))
    [] body # <<>> /\ body[1] = Backslash /\ next = Newline -> unescapeBacktickBody(From(body, 3))
    [] OTHER -> <<body[1]>> \o unescapeBacktickBody(Tail(body))

RECURSIVE Stripped(_)
Stripped(text) ==
  IF text # <<>> /\ text[Len(text)] = Newline THEN Stripped(SubSeq(text, 1, Len(text) - 1)) ELSE text

\* A command substitution: the status is that of the command, its output
\* loses the newlines at its end.
insertCommandOutput(ctx, command, dq) ==
  expBufPushStr([ctx EXCEPT !.sh.status = 0, !.sh.ran = Append(@, command)],
                Stripped(Printed(command)), Produced(dq))

-----------------------------------------------------------------------------
(* The walk over a text.  The mode is "marked", "raw" (inside ${...}) or     *)
(* "heredoc".                                                              *)

RECURSIVE expandText(_, _, _, _, _, _), expandBracedParam(_, _, _), shArithEval(_, _)

\* ${parameter operator word} once the parameter is read.
RemovePattern(ctx, value, name, rest, dq) ==
  LET longest == CharAt(rest, 2) = rest[1]
      pat == expandText(Context(ctx.sh), From(rest, IF longest THEN 3 ELSE 2), 1, "raw", FALSE, FALSE)
      subject == IF name \in {<<"@">>, <<"*">>}
                   THEN IF ctx.sh.params # <<>> THEN ctx.sh.params[1] ELSE <<>>
                   ELSE IF value # <<>> THEN value[1] ELSE <<>>
      next == [ctx EXCEPT !.sh = pat.sh]
  IN IF pat.error THEN [next EXCEPT !.error = TRUE]
     ELSE expBufPushStr(next, Removed(subject, rest[1], longest, RemovalPattern(pat.buf)), Produced(dq))

Substitute(ctx, value, name, colon, op, word, dq) ==
  LET all == name \in {<<"@">>, <<"*">>}
      usable == IF all THEN ctx.sh.params # <<>>
                ELSE value # <<>> /\ (colon => value[1] # <<>>)
      it == IF all THEN emitAllParams(ctx, name[1], dq) ELSE expBufPushStr(ctx, value[1], Produced(dq))
      sub == expandText(Context(ctx.sh), word, 1, "raw", FALSE, FALSE)
      text == bufToPlainString(sub.buf)
      assigned == [ctx EXCEPT !.sh = [sub.sh EXCEPT !.vars = (name :> text) @@ @]]
  IN CASE usable /\ op # "+" -> it
       [] op = "+" -> IF usable THEN expandText(ctx, word, 1, "raw", FALSE, dq) ELSE ctx
       [] ~usable /\ op = "-" -> expandText(ctx, word, 1, "raw", FALSE, dq)
       [] ~usable /\ op = "=" ->
            IF all \/ name[1] \in Digit \/ (Len(name) = 1 /\ specialParam(ctx.sh, name[1]) # <<>>)
              THEN [ctx EXCEPT !.error = TRUE]
              ELSE expBufPushStr(assigned, text, Produced(dq))
       [] ~usable /\ op = "?" -> emitUnsetError(ctx)

\* The name of the parameter at the start of a body.
ParameterEnd(body) ==
  IF body[1] \in Digit THEN RunEnd(body, 1, Digit)
  ELSE IF body[1] \in Special \cup {"#"} THEN 1
  ELSE IF body[1] \in Letter \cup {"_"} THEN RunEnd(body, 1, NameChar)
  ELSE 0
Length(sh, name) ==
  IF name \in {<<"@">>, <<"*">>} THEN Len(sh.params)
  ELSE LET value == ValueOf(sh, name) IN IF value = <<>> THEN 0 ELSE Len(value[1])

expandBracedParam(ctx, body, dq) ==
  LET name == SubSeq(body, 1, ParameterEnd(body))
      rest == From(body, Len(name) + 1)
      all == name \in {<<"@">>, <<"*">>}
      value == IF all THEN <<>> ELSE ValueOf(ctx.sh, name)
      colon == rest[1] = ":" /\ CharAt(rest, 2) \in {"-", "=", "?", "+"}
      op == IF colon THEN rest[2] ELSE rest[1]
  IN IF body = <<>> THEN [ctx EXCEPT !.error = TRUE]
     ELSE IF body[1] = "#" /\ Len(body) > 1
       THEN expBufPushStr(ctx, Decimal(Length(ctx.sh, Tail(body))), Produced(dq))
     ELSE IF name = <<>> THEN [ctx EXCEPT !.error = TRUE]
     ELSE IF rest = <<>>
       THEN IF all THEN emitAllParams(ctx, name[1], dq)
            ELSE IF value = <<>> THEN Unless(ctx) ELSE expBufPushStr(ctx, value[1], Produced(dq))
     ELSE IF op \in {"%", "#"} THEN RemovePattern(ctx, value, name, rest, dq)
     ELSE IF op \notin {"-", "=", "?", "+"} THEN [ctx EXCEPT !.error = TRUE]
     ELSE Substitute(ctx, value, name, colon, op, From(rest, IF colon THEN 3 ELSE 2), dq)

\* The expansion whose $ is at position i: the context and the next position.
At(ctx, i) == [ctx |-> ctx, i |-> i]
expandDollar(ctx, text, i, dq) ==
  LET next == CharAt(text, i + 1)
      double == scanDoubleParen(text, i + 3, 2)
      paren == scanDollarParen(text, i + 2)
      brace == scanDollarBrace(text, i + 2)
      name == SubSeq(text, i + 1, RunEnd(text, i + 1, NameChar))
      value == ValueOf(ctx.sh, IF next \in Letter \cup {"_"} THEN name ELSE <<next>>)
      result == IF value = <<>> THEN Unless(ctx) ELSE expBufPushStr(ctx, value[1], Produced(dq))
      sum == shArithEval(ctx.sh, SubSeq(text, i + 3, double - 1))
      literal == At(expBufPushStr(ctx, <<"$">>, AsWritten(dq)), i + 1)
  IN IF next = "" THEN literal
     ELSE IF next = "(" /\ CharAt(text, i + 2) = "("
       THEN IF double > Len(text) THEN literal
            ELSE At(IF sum.error THEN [ctx EXCEPT !.error = TRUE, !.sh = sum.sh]
                    ELSE expBufPushStr([ctx EXCEPT !.sh = sum.sh], Decimal(sum.v), Produced(dq)), double + 2)
     ELSE IF next = "("
       THEN At(insertCommandOutput(ctx, SubSeq(text, i + 2, paren - 1), dq), paren + 1)
     ELSE IF next = "{"
       THEN At(expandBracedParam(ctx, SubSeq(text, i + 2, brace - 1), dq), brace + 1)
     ELSE IF next \in {"@", "*"} THEN At(emitAllParams(ctx, next, dq), i + 2)
     ELSE IF next \in Digit \cup {"?", "$", "!", "#", "-"} THEN At(result, i + 2)
     ELSE IF next \in Letter \cup {"_"} THEN At(result, i + 1 + Len(name))
     ELSE literal

\* A quotation opens, or closes: an empty one leaves a mark in the buffer.
Opened(ctx) == [ctx EXCEPT !.sawQuote = TRUE, !.open = Len(ctx.buf), !.atEmpty = FALSE]
\* Slip: the quotes around "$@" keep an argument even when there is none.
ClosedAlways(ctx) ==
  IF Len(ctx.buf) = ctx.open THEN [Hold(ctx) EXCEPT !.sawQuote = TRUE]
  ELSE [ctx EXCEPT !.sawQuote = TRUE]
ClosedQuote(ctx) ==
  IF Len(ctx.buf) = ctx.open /\ ~ctx.atEmpty THEN [Hold(ctx) EXCEPT !.sawQuote = TRUE]
  ELSE [ctx EXCEPT !.sawQuote = TRUE]
Quoting(ctx, opens) == IF opens THEN Opened(ctx) ELSE ClosedQuote(ctx)

\* What a backslash makes literal: in double quotes and here-documents only
\* the characters that are special there.
Escapable(mode, dq) ==
  IF mode = "heredoc" THEN {"$", BackQuote, Backslash, Newline}
  ELSE {"$", BackQuote, Quote, Backslash, Newline}
Escaped(ctx, n, mode, dq) ==
  IF n = Newline THEN ctx
  ELSE [expBufPushStr(ctx, <<n>>, {"quoted"}) EXCEPT !.sawQuote = @ \/ (mode = "raw" /\ ~dq)]

expandText(ctx, text, i, mode, sq, dq) ==
  LET c == text[i]
      next == CharAt(text, i + 1)
      On(x, n, s, d) == expandText(x, text, n, mode, s, d)
      inQuotes == dq \/ mode = "heredoc"
      raw == mode = "raw"
      dollar == expandDollar(ctx, text, i, inQuotes)
      tick == scanBacktick(text, i + 1)
  IN IF i > Len(text) THEN ctx
     ELSE IF mode = "marked" /\ c = SINGLE THEN On(Quoting(ctx, ~sq), i + 1, ~sq, dq)
     ELSE IF mode = "marked" /\ c = DOUBLE /\ ~sq THEN On(Quoting(ctx, ~dq), i + 1, sq, ~dq)
     ELSE IF mode = "marked" /\ c = ESCAPE /\ next # ""
       THEN On([expBufPushStr(ctx, <<next>>, {"quoted"}) EXCEPT !.sawQuote = TRUE], i + 2, sq, dq)
     ELSE IF raw /\ sq /\ c = Single
       THEN On(IF Len(ctx.buf) = ctx.open THEN Hold(ctx) ELSE ctx, i + 1, FALSE, dq)
     ELSE IF sq THEN On(expBufPushStr(ctx, <<c>>, {"quoted"}), i + 1, sq, dq)
     ELSE IF raw /\ c = Single /\ ~dq THEN On([ctx EXCEPT !.sawQuote = TRUE, !.open = Len(ctx.buf)], i + 1, TRUE, dq)
     ELSE IF raw /\ c = Quote THEN On(Quoting(ctx, ~dq), i + 1, sq, ~dq)
     ELSE IF mode # "marked" /\ c = Backslash /\ next # "" /\ ((raw /\ ~dq) \/ next \in Escapable(mode, dq))
       THEN On(Escaped(ctx, next, mode, dq), i + 2, sq, dq)
     ELSE IF c = "$" THEN On(dollar.ctx, dollar.i, sq, dq)
     ELSE IF c = BackQuote
       THEN On(insertCommandOutput(ctx, unescapeBacktickBody(SubSeq(text, i + 1, tick - 1)), inQuotes),
               tick + 1, sq, dq)
     ELSE On(expBufPushStr(ctx, <<c>>, AsWritten(inQuotes)), i + 1, sq, dq)

\* A leading ~ up to the first character that ends it.
expandTilde(ctx, text) ==
  LET end == FirstAt(text, 1, {"/", SINGLE, DOUBLE, ESCAPE, "$", BackQuote})
      home == shVarGet(ctx.sh, <<"H", "O", "M", "E">>)
  IN IF CharAt(text, 1) = "~" /\ end = 2 /\ home # <<>>
       THEN At(expBufPushStr(ctx, home[1], {"quoted"}), end)
       ELSE At(ctx, 1)

\* The arithmetic of a text: its own expansions first, as in a here-document.
shExpandHereDocument(sh, body) ==
  LET ctx == expandText(Context(sh), body, 1, "heredoc", FALSE, FALSE)
  IN [text |-> bufToPlainString(ctx.buf), error |-> ctx.error, sh |-> ctx.sh]
shArithEval(sh, text) ==
  LET doc == shExpandHereDocument(sh, text)
      live == \E i \in DOMAIN text : text[i] \in {"$", BackQuote}
      from == IF live THEN doc.sh ELSE sh
      a == Evaluate(from.vars, IF live THEN doc.text ELSE text, 1)
  IN IF live /\ doc.error THEN [v |-> 0, error |-> TRUE, sh |-> doc.sh]
     ELSE [v |-> a.v, error |-> a.error, sh |-> [from EXCEPT !.vars = a.vars]]

-----------------------------------------------------------------------------
(* Fields.                                                                 *)

ifsContains(ifs, c) == \E i \in DOMAIN ifs : ifs[i] = c
isIfsWhitespace(ifs, c) == ifsContains(ifs, c) /\ c \in {" ", "\t", Newline}
Ifs(sh) == LET ifs == shVarGet(sh, <<"I", "F", "S">>) IN IF ifs = <<>> THEN <<" ", "\t", Newline>> ELSE ifs[1]
Splittable(x, ifs) == "exp" \in x.f /\ {"quoted", "hold"} \cap x.f = {} /\ ifsContains(ifs, x.c)

\* A run of separators from position i: white space with at most one other.
RECURSIVE RunOfIfs(_, _, _, _)
RunOfIfs(buf, i, ifs, other) ==
  IF i > Len(buf) THEN [i |-> i, other |-> other]
  ELSE IF ~Splittable(buf[i], ifs) THEN [i |-> i, other |-> other]
  ELSE IF isIfsWhitespace(ifs, buf[i].c) THEN RunOfIfs(buf, i + 1, ifs, other)
  ELSE IF other THEN [i |-> i, other |-> other]
  ELSE RunOfIfs(buf, i + 1, ifs, TRUE)

\* The fields of a buffer; `pending' says a separator other than white space
\* came last.
RECURSIVE SplitFrom(_, _, _, _, _, _)
SplitFrom(buf, i, ifs, cur, out, pending) ==
  LET run == RunOfIfs(buf, i, ifs, FALSE)
      break == <<[c |-> "", f |-> {"hold", "quoted"}]>>
  IN IF i > Len(buf) THEN [out |-> out, cur |-> cur, pending |-> pending]
     ELSE IF "sep" \in buf[i].f THEN SplitFrom(buf, i + 1, ifs, break, Append(out, cur), pending)
     ELSE IF Splittable(buf[i], ifs)
       THEN SplitFrom(buf, run.i, ifs, <<>>, IF cur # <<>> THEN Append(out, cur) ELSE out, run.other)
     ELSE SplitFrom(buf, i + 1, ifs, Append(cur, buf[i]), out, FALSE)

RECURSIVE AfterBlanks(_, _, _)
AfterBlanks(buf, i, ifs) ==
  IF i <= Len(buf) /\ "exp" \in buf[i].f /\ "quoted" \notin buf[i].f /\ isIfsWhitespace(ifs, buf[i].c)
    THEN AfterBlanks(buf, i + 1, ifs) ELSE i

splitBufIntoBufs(sh, buf, sawQuote) ==
  LET ifs == Ifs(sh)
      s == SplitFrom(buf, AfterBlanks(buf, 1, ifs), ifs, <<>>, <<>>, FALSE)
  IN IF s.cur # <<>> \/ s.pending \/ (s.out = <<>> /\ sawQuote) THEN Append(s.out, s.cur) ELSE s.out

\* Pathname expansion: the names a pattern matches, in the order of glob().
bufHasGlobChars(buf) == \E i \in DOMAIN buf : {"quoted", "hold"} \cap buf[i].f = {} /\ buf[i].c \in {"*", "?", "["}
Glob(sh, pattern) == SelectSeq(sh.names, LAMBDA n : fnmatch(pattern, n))
Globbed(sh, field) ==
  LET matches == Glob(sh, bufToGlobPattern(field))
  IN IF ~sh.noglob /\ bufHasGlobChars(field) /\ matches # <<>> THEN matches
     ELSE <<bufToPlainString(field)>>
RECURSIVE AllGlobbed(_, _)
AllGlobbed(sh, fields) == IF fields = <<>> THEN <<>> ELSE Globbed(sh, fields[1]) \o AllGlobbed(sh, Tail(fields))

\* The public operations, each on a marked word.
Marked(sh, word, tilde) ==
  LET start == IF tilde THEN expandTilde(Context(sh), word) ELSE At(Context(sh), 1)
  IN expandText(start.ctx, word, start.i, "marked", FALSE, FALSE)
shExpandWord(sh, word) ==
  LET ctx == Marked(sh, word, TRUE)
      sawQuote == ctx.sawQuote /\ ~(ctx.buf = <<>> /\ ctx.squashed)
  IN [sh |-> ctx.sh, error |-> ctx.error,
      out |-> IF ctx.error THEN <<>> ELSE AllGlobbed(ctx.sh, splitBufIntoBufs(ctx.sh, ctx.buf, sawQuote))]
shExpandWordSingle(sh, word) ==
  LET ctx == Marked(sh, word, TRUE)
  IN [sh |-> ctx.sh, error |-> ctx.error, text |-> bufToPlainString(ctx.buf)]
shExpandPattern(sh, word) ==
  LET ctx == Marked(sh, word, FALSE)
  IN [sh |-> ctx.sh, error |-> ctx.error, pattern |-> bufToGlobPattern(ctx.buf)]
shPatternMatch(pattern, string) == fnmatch(pattern, string)
=============================================================================
