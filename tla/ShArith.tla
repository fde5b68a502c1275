------------------------------- MODULE ShArith -------------------------------
(***************************************************************************)
(* Arithmetic of the shell, $(( ... )): the recursive-descent evaluator of *)
(* sh_arith.c.  It reads the text of the expression from left to right,    *)
(* one precedence level per function, and applies assignments, ++ and --   *)
(* to the variables of the shell while it reads.                           *)
(*                                                                         *)
(* A text is a sequence of one-character strings; the variables are a      *)
(* function from the names that are set to their texts.  The state of an   *)
(* evaluation is [vars, src, pos, error, v]: `v' is the value of the last  *)
(* sub-expression read.  Values stay far below the width of a long long.   *)
(* What the text of a variable or of an expression may contain that has    *)
(* to be expanded first ($x, $(...)) is ShExpand's.                        *)
(***************************************************************************)
EXTENDS Integers, Sequences, TLC

Digit == {"0", "1", "2", "3", "4", "5", "6", "7", "8", "9"}
Letter == {"a", "b", "c", "d", "e", "h", "i", "n", "o", "p", "s", "u", "v", "w", "x", "y", "z"}
NameChar == Digit \cup Letter \cup {"_"}

\* Of a digit, its number; of a number, its decimal text.
Numeral == <<"0", "1", "2", "3", "4", "5", "6", "7", "8", "9">>
NumberOf(c) == (CHOOSE i \in 1..10 : Numeral[i] = c) - 1
RECURSIVE Decimal(_)
Decimal(n) == IF n < 0 THEN <<"-">> \o Decimal(-n)
              ELSE IF n < 10 THEN <<Numeral[n + 1]>>
              ELSE Append(Decimal(n \div 10), Numeral[(n % 10) + 1])

\* The longest run of characters of `set' in `text' from position i: its end.
RECURSIVE RunEnd(_, _, _)
RunEnd(text, i, set) ==
  IF i <= Len(text) /\ text[i] \in set THEN RunEnd(text, i + 1, set) ELSE i - 1

RECURSIVE InBase(_, _)
InBase(digits, base) ==
  IF digits = <<>> THEN 0
  ELSE InBase(SubSeq(digits, 1, Len(digits) - 1), base) * base + NumberOf(digits[Len(digits)])

\* strtoll(text + i, &end, 0): a leading zero makes the numeral octal.
Octal == {"0", "1", "2", "3", "4", "5", "6", "7"}
StrToLL(text, i) ==
  LET octal == i <= Len(text) /\ text[i] = "0"
      end == RunEnd(text, i, IF octal THEN Octal ELSE Digit)
  IN [v |-> InBase(SubSeq(text, i, end), IF octal THEN 8 ELSE 10), end |-> end]

\* The value of a variable's text when the whole of it is one number.
IsNumber(text) ==
  LET i == IF text[1] \in {"-", "+"} THEN 2 ELSE 1
  IN i <= Len(text) /\ text[i] \in Digit /\ StrToLL(text, i).end = Len(text)
NumberIn(text) ==
  LET i == IF text[1] \in {"-", "+"} THEN 2 ELSE 1
  IN IF text[1] = "-" THEN -StrToLL(text, i).v ELSE StrToLL(text, i).v

-----------------------------------------------------------------------------
\* The state of one evaluation.
arithError(a) == [a EXCEPT !.error = TRUE, !.v = 0]
skipWs(a) == [a EXCEPT !.pos = RunEnd(a.src, a.pos, {" "}) + 1]
peekOp(a, op) ==
  LET p == skipWs(a).pos
  IN p + Len(op) - 1 <= Len(a.src) /\ SubSeq(a.src, p, p + Len(op) - 1) = op
AtEnd(a) == skipWs(a).pos > Len(a.src)
Past(a, op) == [a EXCEPT !.pos = skipWs(a).pos + Len(op)]

\* A name and where it ends: empty when no name starts here.
scanName(a) ==
  LET p == skipWs(a).pos
      end == IF p <= Len(a.src) /\ a.src[p] \in Letter \cup {"_"}
               THEN RunEnd(a.src, p, NameChar) ELSE p - 1
  IN [name |-> SubSeq(a.src, p, end), pos |-> end + 1]

\* C's division: the quotient is truncated towards zero.
Magnitude(n) == IF n < 0 THEN -n ELSE n
Quotient(m, n) == LET q == Magnitude(m) \div Magnitude(n)
                  IN IF (m < 0) = (n < 0) THEN q ELSE -q
Remainder(m, n) == m - n * Quotient(m, n)

\* Bits of two numbers of two's complement.
Width == 16
RECURSIVE Bits(_, _, _, _)
Bits(op, m, n, width) ==
  IF width = 0 THEN 0
  ELSE LET bit == CASE op = <<"&">> -> (m % 2) * (n % 2)
                    [] op = <<"|">> -> IF (m % 2) + (n % 2) > 0 THEN 1 ELSE 0
                    [] op = <<"^">> -> ((m % 2) + (n % 2)) % 2
       IN bit + 2 * Bits(op, m \div 2, n \div 2, width - 1)
Signed(n) == IF n >= 2^(Width - 1) THEN n - 2^Width ELSE n

Truth(b) == IF b THEN 1 ELSE 0

Apply(op, m, n) ==
  CASE op = <<"*">> -> m * n
    [] op = <<"/">> -> Quotient(m, n)
    [] op = <<"%">> -> Remainder(m, n)
    [] op = <<"+">> -> m + n
    [] op = <<"-">> -> m - n
    [] op = <<"<", "<">> -> m * 2^n
    [] op = <<">", ">">> -> m \div 2^n
    [] op = <<"<", "=">> -> Truth(m <= n)
    [] op = <<">", "=">> -> Truth(m >= n)
    [] op = <<"<">> -> Truth(m < n)
    [] op = <<">">> -> Truth(m > n)
    [] op = <<"=", "=">> -> Truth(m = n)
    [] op = <<"!", "=">> -> Truth(m # n)
    [] op \in {<<"&">>, <<"^">>, <<"|">>} -> Signed(Bits(op, m, n, Width))
    [] op = <<"&", "&">> -> Truth(m # 0 /\ n # 0)
    [] op = <<"|", "|">> -> Truth(m # 0 \/ n # 0)

\* The operators of a level in the order they are tried; `unless' are the
\* longer operators that must not be taken for this one.
Op(op, unless) == [op |-> op, unless |-> unless]
parseMul == << Op(<<"*">>, {}), Op(<<"/">>, {<<"/", "=">>}), Op(<<"%">>, {<<"%", "=">>}) >>
parseAdd == << Op(<<"+">>, {<<"+", "+">>, <<"+", "=">>}), Op(<<"-">>, {<<"-", "-">>, <<"-", "=">>}) >>
parseShift == << Op(<<"<", "<">>, {<<"<", "<", "=">>}), Op(<<">", ">">>, {<<">", ">", "=">>}) >>
parseRel == << Op(<<"<", "=">>, {}), Op(<<">", "=">>, {}),
               Op(<<"<">>, {<<"<", "<">>}), Op(<<">">>, {<<">", ">">>}) >>
parseEq == << Op(<<"=", "=">>, {}), Op(<<"!", "=">>, {}) >>
parseBitAnd == << Op(<<"&">>, {<<"&", "&">>, <<"&", "=">>}) >>
parseBitXor == << Op(<<"^">>, {<<"^", "=">>}) >>
parseBitOr == << Op(<<"|">>, {<<"|", "|">>, <<"|", "=">>}) >>
parseLogAnd == << Op(<<"&", "&">>, {}) >>
parseLogOr == << Op(<<"|", "|">>, {}) >>

\* Slip: shifts bind tighter than sums.
ShiftsFirst == << parseLogOr, parseLogAnd, parseBitOr, parseBitXor, parseBitAnd,
                  parseEq, parseRel, parseAdd, parseShift, parseMul >>
Levels == << parseLogOr, parseLogAnd, parseBitOr, parseBitXor, parseBitAnd,
             parseEq, parseRel, parseShift, parseAdd, parseMul >>

\* The operator of a level that comes next, or nothing.
Next1(a, level) ==
  LET fits == SelectSeq(level, LAMBDA o : peekOp(a, o.op) /\ \A u \in o.unless : ~peekOp(a, u))
  IN IF fits = <<>> THEN <<>> ELSE fits[1].op

\* The compound assignments, in the order they are tried.
assigns == << <<"<", "<", "=">>, <<">", ">", "=">>, <<"+", "=">>, <<"-", "=">>, <<"*", "=">>,
              <<"/", "=">>, <<"%", "=">>, <<"&", "=">>, <<"^", "=">>, <<"|", "=">> >>
IsDivision(op) == op \in {<<"/">>, <<"%">>}

setVar(a, name, value) ==
  [a EXCEPT !.vars = (name :> Decimal(value)) @@ @, !.v = value]

RECURSIVE parsePrimary(_), parseBinary(_, _), BinaryRest(_, _), parseTernary(_), getVar(_, _), Evaluate(_, _, _)

\* The value of a variable: nothing is 0, a number is itself, anything else is
\* evaluated as an expression of its own, at most 32 deep and 0 beyond or when
\* it is wrong.
getVar(a, name) ==
  LET text == IF name \in DOMAIN a.vars THEN a.vars[name] ELSE <<>>
      nested == Evaluate(a.vars, text, a.depth + 1)
  IN IF text = <<>> THEN [a EXCEPT !.v = 0]
     ELSE IF IsNumber(text) THEN [a EXCEPT !.v = NumberIn(text)]
     ELSE IF a.depth >= 32 THEN [a EXCEPT !.v = 0]
     ELSE [a EXCEPT !.vars = nested.vars, !.v = IF nested.error THEN 0 ELSE nested.v]

\* ++name and --name.
PreStep(a, by) ==
  LET n == scanName(a)
      now == getVar([a EXCEPT !.pos = n.pos], n.name)
  IN IF n.name = <<>> THEN arithError(a) ELSE setVar(now, n.name, now.v + by)

\* name op= expression: the right side is read before the variable is.
CompoundAssign(a, name, assign) ==
  LET op == SubSeq(assign, 1, Len(assign) - 1)
      rhs == parseTernary(Past(a, assign))
      now == getVar(rhs, name)
  IN IF IsDivision(op) /\ rhs.v = 0 THEN arithError(now)
     ELSE setVar(now, name, Apply(op, now.v, rhs.v))

\* What may follow a name: a step, an assignment, or nothing.
Named(a, name) ==
  LET now == getVar(a, name)
      compound == SelectSeq(assigns, LAMBDA s : peekOp(a, s))
      rhs == parseTernary(Past(a, <<"=">>))
  IN IF peekOp(a, <<"+", "+">>)
       THEN [setVar(Past(now, <<"+", "+">>), name, now.v + 1) EXCEPT !.v = now.v]
     ELSE IF peekOp(a, <<"-", "-">>)
       THEN [setVar(Past(now, <<"-", "-">>), name, now.v - 1) EXCEPT !.v = now.v]
     ELSE IF compound # <<>> THEN CompoundAssign(a, name, compound[1])
     ELSE IF peekOp(a, <<"=">>) /\ ~peekOp(a, <<"=", "=">>) THEN setVar(rhs, name, rhs.v)
     ELSE now

parsePrimary(a0) ==
  LET a == skipWs(a0)
      c == IF AtEnd(a) THEN "" ELSE a.src[a.pos]
      inner == parseTernary(Past(a, <<"(">>))
      next == parsePrimary([a EXCEPT !.pos = @ + 1])
      number == StrToLL(a.src, a.pos)
      n == scanName(a)
      dollar == scanName([a EXCEPT !.pos = @ + 1])
  IN CASE AtEnd(a) -> arithError(a)
       [] c = "(" -> IF peekOp(inner, <<")">>) THEN Past(inner, <<")">>)
                     ELSE [skipWs(inner) EXCEPT !.error = TRUE]
       [] c = "!" -> [next EXCEPT !.v = Truth(next.v = 0)]
       [] c = "~" -> [next EXCEPT !.v = -next.v - 1]
       [] c = "+" /\ ~peekOp(a, <<"+", "+">>) -> next
       [] c = "-" /\ ~peekOp(a, <<"-", "-">>) -> [next EXCEPT !.v = -next.v]
       [] c = "+" -> PreStep(Past(a, <<"+", "+">>), 1)
       [] c = "-" -> PreStep(Past(a, <<"-", "-">>), -1)
       [] c \in Digit -> [a EXCEPT !.pos = number.end + 1, !.v = number.v]
       [] c \in Letter \cup {"_"} -> Named([a EXCEPT !.pos = n.pos], n.name)
       [] c = "$" -> IF dollar.name = <<>> THEN arithError([a EXCEPT !.pos = @ + 1])
                     ELSE getVar([a EXCEPT !.pos = dollar.pos], dollar.name)
       [] OTHER -> arithError(a)

\* One level: its operands are of the next level; a division by zero leaves it.
\* Both operands of && and || are always evaluated.
BinaryRest(a, k) ==
  LET op == Next1(a, Levels[k])
      right == parseBinary(Past(a, op), k + 1)
  IN IF op = <<>> THEN a
     ELSE IF IsDivision(op) /\ right.v = 0 THEN arithError(right)
     ELSE BinaryRest([right EXCEPT !.v = Apply(op, a.v, right.v)], k)
parseBinary(a, k) == IF k > Len(Levels) THEN parsePrimary(a) ELSE BinaryRest(parseBinary(a, k + 1), k)

\* cond ? then : else, both branches evaluated.
parseTernary(a) ==
  LET cond == parseBinary(a, 1)
      then == parseTernary(Past(cond, <<"?">>))
      colon == IF peekOp(then, <<":">>) THEN Past(then, <<":">>) ELSE [skipWs(then) EXCEPT !.error = TRUE]
      else == parseTernary(colon)
  IN IF ~peekOp(cond, <<"?">>) THEN cond
     ELSE [else EXCEPT !.v = IF cond.v # 0 THEN then.v ELSE else.v]

RECURSIVE Commas(_)
Commas(a) == IF ~a.error /\ peekOp(a, <<",">>) THEN Commas(parseTernary(Past(a, <<",">>))) ELSE a

\* The evaluation of a text that holds no further expansion.
Evaluate(store, text, depth) ==
  LET a == [vars |-> store, src |-> text, pos |-> 1, error |-> FALSE, v |-> 0, depth |-> depth]
      read == Commas(parseTernary(a))
  IN IF AtEnd(a) THEN a
     ELSE IF ~read.error /\ ~AtEnd(read) THEN arithError(read)
     ELSE read
=============================================================================
