------------------------------ MODULE ArgTools ------------------------------
(***************************************************************************)
(* The commands that live on the words they are given: getopts, test and   *)
(* printf of the shell, the test and printf applets, xargs, env -S and     *)
(* find.  Words are sequences of bytes where they are taken apart, names   *)
(* where they are only compared.                                           *)
(***************************************************************************)
EXTENDS Texts

\* getopts.  g is what it keeps in variables between two calls: OPTIND, the place in a group of
\* letters, the name it found and OPTARG.
Unset == <<NUL>>
IsGroup(word) == Len(word) > 1 /\ word[1] = 45
LastOption == <<45, 45>>
Fresh == [ind |-> 1, pos |-> 1, name |-> <<>>, arg |-> Unset, rc |-> 0]
Finished(g, ind) == [g EXCEPT !.ind = ind, !.pos = 1, !.name = <<63>>, !.rc = 1]
Letter(g, spec, args) ==
  LET silent == spec # <<>> /\ spec[1] = 58
      letters == IF silent THEN Tail(spec) ELSE spec
      opt == args[g.ind][g.pos + 1]
      rest == From(args[g.ind], g.pos + 2)
      known == opt # 58 /\ Contains(letters, opt)
      takes == known /\ Place(opt, letters) < Len(letters) /\ letters[Place(opt, letters) + 1] = 58
      wrong == [g EXCEPT !.name = <<63>>, !.arg = IF silent THEN <<opt>> ELSE Unset]
      right == [g EXCEPT !.name = <<opt>>, !.arg = Unset]
      next(h, n) == [h EXCEPT !.ind = @ + n, !.pos = 1]
  IN CASE ~known -> [wrong EXCEPT !.pos = @ + 1]
       [] known /\ ~takes -> IF rest = <<>> THEN next(right, 1) ELSE [right EXCEPT !.pos = @ + 1]
       [] takes /\ rest # <<>> -> [next(right, 1) EXCEPT !.arg = rest]
       [] takes /\ rest = <<>> /\ g.ind < Len(args) -> [next(right, 2) EXCEPT !.arg = args[g.ind + 1]]
       [] OTHER -> [next(wrong, 1) EXCEPT !.name = IF silent THEN <<58>> ELSE @]
Getopts(g, spec, args) ==
  LET group(i) == i <= Len(args) /\ IsGroup(args[i])
      through == group(g.ind) /\ args[g.ind] # LastOption /\ g.pos >= Len(args[g.ind])
      h == IF through THEN [g EXCEPT !.ind = @ + 1, !.pos = 1] ELSE g
  IN CASE ~group(h.ind) -> Finished(h, h.ind)
       [] group(h.ind) /\ args[h.ind] = LastOption -> Finished(h, h.ind + 1)
       [] OTHER -> Letter(h, spec, args)

-----------------------------------------------------------------------------
(* test, once as an applet and once in the shell.                          *)

\* What holds of a name, and when the file was written.
FileFacts(name) ==
  CASE name = "f" -> {"-e", "-f", "-r", "-w", "-s"} [] name = "d" -> {"-e", "-d", "-r", "-w", "-x"} [] OTHER -> {}
IsThere(name) == "-e" \in FileFacts(name)
Written(name) == IF name = "f" THEN 1 ELSE 2
Numeral(s) == s \in {"0", "1"}
ValueOf(s) == IF s = "1" THEN 1 ELSE 0         \* strtoll: 0 for what is no number
FileTests == {"-e", "-f", "-d", "-r", "-w", "-x", "-s", "-L", "-h"}
Equalities == {"=", "!="}
TestComparisons == {"-eq", "-ne", "-gt", "-ge", "-lt", "-le"}
Ages == {"-nt", "-ot", "-ef"}
Unary(op, x) == CASE op = "-z" -> x = "" [] op = "-n" -> x # "" [] OTHER -> op \in FileFacts(x)
TestCompares(op, a, b) ==
  CASE op = "-eq" -> a = b [] op = "-ne" -> a # b [] op = "-gt" -> a > b
    [] op = "-ge" -> a >= b [] op = "-lt" -> a < b [] op = "-le" -> a <= b
Newer(a, b) == IsThere(a) /\ (~IsThere(b) \/ Written(a) > Written(b))
Aged(op, a, b) ==
  CASE op = "-nt" -> Newer(a, b) [] op = "-ot" -> Newer(b, a) [] OTHER -> IsThere(a) /\ a = b

RECURSIVE TestEvaluate(_), TestEvaluateAnd(_), TestEvaluateOr(_)
Evaluate3(a, op, b) ==
  CASE op \in Equalities -> (op = "=") = (a = b)
    [] op = "-ot" -> Newer(b, a) /\ IsThere(a)
    [] op \in Ages \ {"-ot"} -> Aged(op, a, b)
    [] op \in TestComparisons -> Numeral(a) /\ Numeral(b) /\ TestCompares(op, ValueOf(a), ValueOf(b))
    [] OTHER -> FALSE
TestEvaluate(a) ==
  IF a = <<>> THEN FALSE
  ELSE IF a[1] = "!" THEN ~TestEvaluate(Tail(a))
  ELSE CASE Len(a) = 1 -> a[1] # ""
         [] Len(a) = 2 -> a[1] \in FileTests \cup {"-z", "-n"} /\ Unary(a[1], a[2])
         [] Len(a) = 3 -> Evaluate3(a[1], a[2], a[3])
         [] OTHER -> FALSE
\* The first -a or -o that has something on both sides.
Connectors(a, op) == {i \in 2 .. Len(a) - 1 : a[i] = op}
FirstOf(set) == CHOOSE i \in set : \A j \in set : i <= j
TestEvaluateAnd(a) ==
  LET i == FirstOf(Connectors(a, "-a"))
  IN IF Connectors(a, "-a") = {} THEN TestEvaluate(a) ELSE TestEvaluateAnd(UpTo(a, i - 1)) /\ TestEvaluateAnd(From(a, i + 1))
TestEvaluateOr(a) ==
  LET i == FirstOf(Connectors(a, "-o"))
  IN IF Connectors(a, "-o") = {} THEN TestEvaluateAnd(a) ELSE TestEvaluateOr(UpTo(a, i - 1)) \/ TestEvaluateOr(From(a, i + 1))
TestWithArgs(a) == IF TestEvaluateOr(a) THEN 0 ELSE 1

\* The shell's: a parser that takes what it can.  It has read up to rest.
Read(v, rest) == [v |-> v, err |-> FALSE, rest |-> rest]
TestWrong(rest) == [v |-> FALSE, err |-> TRUE, rest |-> rest]
RECURSIVE testPrimary(_), testAndRest(_), testOrRest(_)
testAnd(a) == testAndRest(testPrimary(a))
testOr(a) == testOrRest(testAnd(a))
Parenthesised(x) == [x EXCEPT !.err = @ \/ x.rest = <<>> \/ x.rest[1] # ")", !.rest = IF @ = <<>> THEN @ ELSE Tail(@)]
testBinary(a) ==
  CASE Len(a) = 2 -> IF a[2] \in TestComparisons THEN TestWrong(<<>>) ELSE Read(FALSE, <<>>)
    [] a[2] = "=" -> Read(a[1] = a[3], From(a, 4))
    [] a[2] = "!=" -> Read(a[1] # a[3], From(a, 4))
    [] a[2] \in TestComparisons -> Read(TestCompares(a[2], ValueOf(a[1]), ValueOf(a[3])), From(a, 4))
    [] OTHER -> Read(Aged(a[2], a[1], a[3]), From(a, 4))
testPrimary(a) ==
  IF a = <<>> THEN TestWrong(a)
  ELSE IF a[1] = "!" THEN [testPrimary(Tail(a)) EXCEPT !.v = ~@]
  ELSE IF a[1] = "(" THEN Parenthesised(testOr(Tail(a)))
  ELSE IF a[1] \in FileTests \cup {"-z", "-n"} /\ Len(a) > 1 THEN Read(Unary(a[1], a[2]), From(a, 3))
  ELSE IF Len(a) > 1 /\ a[2] \in Equalities \cup TestComparisons \cup Ages THEN testBinary(a)
  ELSE Read(a[1] # "", Tail(a))
testAndRest(x) ==
  LET y == testPrimary(Tail(x.rest))
  IN IF x.rest # <<>> /\ x.rest[1] = "-a" THEN testAndRest([y EXCEPT !.v = x.v /\ @, !.err = x.err \/ @]) ELSE x
testOrRest(x) ==
  LET y == testAnd(Tail(x.rest))
  IN IF x.rest # <<>> /\ x.rest[1] = "-o" THEN testOrRest([y EXCEPT !.v = x.v \/ @, !.err = x.err \/ @]) ELSE x
builtinTest(a) ==
  LET x == testOr(a)
  IN CASE a = <<>> -> 1 [] a # <<>> /\ (x.err \/ x.rest # <<>>) -> 2 [] OTHER -> IF x.v THEN 0 ELSE 1

-----------------------------------------------------------------------------
(* printf.  A format is a sequence of plain characters, escapes and        *)
(* directives, an argument one of plain characters and escapes.            *)

Conversions == {"%s", "%d", "%c", "%b"}
Escapes == {"\\n"}          \* of which "newline" comes; "\\c" only the shell knows
EscapeB(c) == IF c \in Escapes THEN "newline" ELSE c
NumberIn(arg) == IF arg = <<"7">> THEN "7" ELSE "0"
CharOf(arg) == IF arg = <<>> THEN "NUL" ELSE arg[1]
Directive(c, arg) ==
  CASE c = "%s" -> arg [] c = "%d" -> <<NumberIn(arg)>> [] c = "%c" -> <<CharOf(arg)>>
    [] c = "%b" -> [i \in DOMAIN arg |-> EscapeB(arg[i])] [] OTHER -> <<c>>
Printing == [out |-> <<>>, at |-> 1, had |-> FALSE, rc |-> 0, stop |-> FALSE]
Emitted(st, text) == [st EXCEPT !.out = @ \o text]
AppletPrints(st, c, args) ==
  LET arg == IF st.at <= Len(args) THEN args[st.at] ELSE <<>>
      next == IF st.at <= Len(args) THEN st.at + 1 ELSE st.at
  IN IF c = "%%" \/ c = "%" THEN Emitted(st, <<"%">>)
     ELSE IF c \in Conversions \cup {"%q"} THEN [Emitted(st, Directive(c, arg)) EXCEPT !.at = next, !.had = TRUE]
     ELSE Emitted(st, <<EscapeB(c)>>)
RECURSIVE PrintfRuns(_, _, _)
PrintfRuns(st, format, args) ==
  LET once == FoldLeft(LAMBDA s, c : AppletPrints(s, c, args), [st EXCEPT !.had = FALSE], format)
  IN IF once.had /\ once.at <= Len(args) THEN PrintfRuns(once, format, args) ELSE once
PrintfApplet(format, args) == LET st == PrintfRuns(Printing, format, args) IN [out |-> st.out, rc |-> 0]

\* had: an argument was used; rc: 1 for an argument that is no number.
BeforeStop(arg) == IF Contains(arg, "\\c") THEN UpTo(arg, Place("\\c", arg) - 1) ELSE arg
ShellPrints(st, c, args) ==
  LET there == st.at <= Len(args)
      arg == IF there THEN args[st.at] ELSE <<>>
      used == [st EXCEPT !.at = IF there THEN @ + 1 ELSE @, !.had = @ \/ there]
  IN IF st.stop THEN st
     ELSE CASE c = "\\c" -> [st EXCEPT !.stop = TRUE]
            [] c = "%%" -> Emitted(st, <<"%">>)
            [] c \in {"%", "%q"} -> [st EXCEPT !.stop = TRUE, !.rc = 1]
            [] c = "%c" -> IF there THEN Emitted(used, Directive(c, arg)) ELSE used
            [] c = "%b" -> [Emitted(used, Directive(c, BeforeStop(arg))) EXCEPT !.stop = Contains(arg, "\\c")]
            [] c = "%d" -> [Emitted(used, Directive(c, arg)) EXCEPT !.rc = IF arg \in {<<>>, <<"7">>} THEN @ ELSE 1]
            [] c = "%s" -> Emitted(used, arg)
            [] OTHER -> Emitted(st, <<EscapeB(c)>>)
RECURSIVE ShellRuns(_, _, _)
ShellRuns(st, format, args) ==
  LET once == FoldLeft(LAMBDA s, c : ShellPrints(s, c, args), [st EXCEPT !.had = FALSE], format)
  IN IF once.had /\ ~once.stop /\ once.at <= Len(args) THEN ShellRuns(once, format, args) ELSE once
builtinPrintf(format, args) == LET st == ShellRuns(Printing, format, args) IN [out |-> st.out, rc |-> st.rc]

-----------------------------------------------------------------------------
(* xargs: sets is the command and its first words, list what -I replaces.  *)

Quotes == {34, 39}
Token(st, c) ==
  LET put == [st EXCEPT !.word = Append(@, c), !.have = TRUE, !.escaped = FALSE]
  IN CASE st.escaped -> put
       [] ~st.escaped /\ st.quote = 0 /\ c = 92 -> [st EXCEPT !.escaped = TRUE, !.have = TRUE]
       [] ~st.escaped /\ st.quote = 0 /\ c \in Quotes -> [st EXCEPT !.quote = c, !.have = TRUE]
       [] ~st.escaped /\ st.quote # 0 /\ c = st.quote -> [st EXCEPT !.quote = 0]
       [] ~st.escaped /\ st.quote = 0 /\ c \in White ->
            IF st.have THEN [st EXCEPT !.tokens = Append(@, st.word), !.word = <<>>, !.have = FALSE] ELSE st
       [] OTHER -> put
ReadTokens(t) ==
  LET st == FoldLeft(Token, [tokens |-> <<>>, word |-> <<>>, quote |-> 0, escaped |-> FALSE, have |-> FALSE], t)
  IN [ok |-> st.quote = 0, tokens |-> IF st.have THEN Append(st.tokens, st.word) ELSE st.tokens]
ReadNulTokens(t) ==
  LET st == FoldLeft(LAMBDA s, c : IF c = NUL THEN [tokens |-> Append(s.tokens, s.word), word |-> <<>>]
                                   ELSE [s EXCEPT !.word = Append(@, c)], [tokens |-> <<>>, word |-> <<>>], t)
  IN IF st.word = <<>> THEN st.tokens ELSE Append(st.tokens, st.word)
RECURSIVE Substitute(_, _, _)
Substitute(text, needle, value) ==
  IF Len(text) < Len(needle) \/ text = <<>> THEN text
  ELSE IF UpTo(text, Len(needle)) = needle THEN value \o Substitute(From(text, Len(needle) + 1), needle, value)
  ELSE <<text[1]>> \o Substitute(Tail(text), needle, value)
\* A command that is given the word b fails.
RunOne(argv) == IF Contains(argv, <<98>>) THEN 3 ELSE 0
Ran(runs) == [runs |-> runs, status |-> IF \E i \in DOMAIN runs : RunOne(runs[i]) # 0 THEN 1 ELSE 0]
Xargs(o) ==
  LET input == o.files[1].text
      lines == IF Has(o, "0") THEN ReadNulTokens(input) ELSE [i \in DOMAIN Lines(input) |-> Body(Lines(input)[i])]
      given == IF Has(o, "0") THEN [ok |-> TRUE, tokens |-> ReadNulTokens(input)] ELSE ReadTokens(input)
      each == SelectSeq(lines, LAMBDA line : line # <<>>)
      batches == Pieces(given.tokens, IF o.n > 0 THEN o.n ELSE Len(given.tokens))
  IN CASE Has(o, "I") -> Ran([i \in DOMAIN each |-> [k \in DOMAIN o.sets |-> Substitute(o.sets[k], o.list, each[i])]])
       [] ~Has(o, "I") /\ ~given.ok -> [runs |-> <<>>, status |-> 1]
       [] ~Has(o, "I") /\ given.ok /\ o.n <= 0 /\ given.tokens = <<>> -> [runs |-> <<o.sets>>, status |-> RunOne(o.sets)]
       [] OTHER -> Ran([i \in DOMAIN batches |-> o.sets \o batches[i]])

\* env -S: words, quotes, escapes, ${NAME}, a comment, \c.
EnvValue(name) == IF name = <<86>> THEN <<97, SP>> ELSE <<>>
EscapeAt(st) == IF Len(st.s) < 2 THEN NUL ELSE st.s[2]
Controls == <<[c |-> 116, out |-> TAB], [c |-> 110, out |-> NL], [c |-> 95, out |-> SP]>>   \* \t \n \_
Given(st, text, n) == [st EXCEPT !.word = @ \o text, !.in = TRUE, !.s = From(@, n + 1)]
EnvError(st) == [st EXCEPT !.err = TRUE, !.s = <<>>]
EndWord(st) == [st EXCEPT !.words = IF st.in THEN Append(@, st.word) ELSE @, !.word = <<>>, !.in = FALSE]
EnvEscape(st) ==
  LET e == EscapeAt(st)
      plain == {92, 34, 39, 36, 35}
      control == SelectSeq(Controls, LAMBDA x : x.c = e)
  IN CASE st.quote = 39 -> IF e \in {92, 39} THEN Given(st, <<e>>, 2) ELSE Given(st, <<92>>, 1)
       [] st.quote # 39 /\ control # <<>> -> Given(st, <<control[1].out>>, 2)
       [] st.quote # 39 /\ e = 99 -> [st EXCEPT !.s = <<>>, !.quote = 0, !.in = TRUE]
       [] st.quote # 39 /\ e \in plain -> Given(st, <<e>>, 2)
       [] OTHER -> EnvError(st)
EnvVariable(st) ==
  LET close == SelectSeq([i \in DOMAIN st.s |-> i], LAMBDA i : i > 2 /\ st.s[i] = 125)
  IN IF close = <<>> \/ close[1] = 3 THEN EnvError(st) ELSE Given(st, EnvValue(SubSeq(st.s, 3, close[1] - 1)), close[1])
RECURSIVE EnvWords(_)
EnvWords(st) ==
  LET c == st.s[1]
      bare == st.quote = 0
  IN IF st.s = <<>> THEN (IF bare THEN EndWord(st) ELSE EnvError(st))
     ELSE CASE bare /\ c \in White -> EnvWords([EndWord(st) EXCEPT !.s = Tail(@)])
            [] bare /\ c = 92 /\ EscapeAt(st) = 95 -> EnvWords([EndWord(st) EXCEPT !.s = From(@, 3)])
            [] bare /\ c = 92 /\ EscapeAt(st) = 99 -> EndWord(st)
            [] bare /\ c = 35 /\ ~st.in -> st
            [] ~bare /\ c = st.quote -> EnvWords([st EXCEPT !.quote = 0, !.s = Tail(@), !.in = TRUE])
            [] bare /\ c \in Quotes -> EnvWords([st EXCEPT !.quote = c, !.s = Tail(@), !.in = TRUE])
            [] c = 92 /\ ~(bare /\ EscapeAt(st) \in {95, 99}) -> EnvWords(EnvEscape(st))
            [] st.quote # 39 /\ c = 36 /\ EscapeAt(st) = 123 -> EnvWords(EnvVariable(st))
            [] OTHER -> EnvWords(Given(st, <<c>>, 1))
EnvSplit(s) ==
  LET st == EnvWords([s |-> s, words |-> <<>>, word |-> <<>>, in |-> FALSE, quote |-> 0, err |-> FALSE])
  IN [err |-> st.err, words |-> IF st.err THEN <<>> ELSE st.words]

-----------------------------------------------------------------------------
(* find.  A word of the expression is a tuple: an operator, an action, or  *)
(* a test with its operand.  tree says what there is under which path;     *)
(* a directory that is shut does not open.                                 *)

Depths == {"-maxdepth", "-mindepth"}
Actions == {"-print", "-delete", "-exec"}
Tests == {"-name", "-type", "-mtime", "-newer", "-size"}
FindCompareSigned(sign, actual, spec) ==
  CASE sign = "+" -> actual > spec [] sign = "-" -> actual < spec [] OTHER -> actual = spec
Multiplier(unit) == CASE unit = "k" -> 1024 [] unit = "w" -> 2 [] OTHER -> 1
Measure(unit, size) == IF unit \in {"", "b"} THEN (size + 511) \div 512 ELSE size
FindTestMatches(w, path, st) ==
  CASE w[1] = "-name" -> Last(path) = w[2]
    [] w[1] = "-type" -> st.type = w[2]
    [] w[1] = "-mtime" -> FindCompareSigned(w[2], st.age \div 86400, w[3])
    [] w[1] = "-newer" -> st.age < w[2]                     \* the age of the file it is compared with
    [] w[1] = "-size" -> FindCompareSigned(w[2], Measure(w[4], st.size), w[3] * Multiplier(w[4]))

\* What was parsed, and the words that are left.
Parsed(node, rest) == [bad |-> FALSE, node |-> node, rest |-> rest]
NoParse == [bad |-> TRUE, node |-> [op |-> "leaf", word |-> <<"">>], rest |-> <<>>]
AtExprBoundary(ws) == ws = <<>> \/ ws[1][1] \in {"-o", ")"}
RECURSIVE FindParseOr(_), FindParseNot(_), AndMore(_), OrMore(_)
FindParsePrimary(ws) ==
  IF ws = <<>> THEN NoParse
  ELSE LET inner == FindParseOr(Tail(ws))
       IN CASE ws[1][1] = "(" -> IF inner.bad \/ inner.rest = <<>> \/ inner.rest[1][1] # ")" THEN NoParse
                                 ELSE [inner EXCEPT !.rest = Tail(@)]
            [] ws[1][1] \in Tests \cup Actions -> Parsed([op |-> "leaf", word |-> ws[1]], Tail(ws))
            [] OTHER -> NoParse
FindParseNot(ws) ==
  IF ws # <<>> /\ ws[1][1] = "!"
  THEN LET x == FindParseNot(Tail(ws)) IN IF x.bad THEN x ELSE [x EXCEPT !.node = [op |-> "not", r |-> x.node]]
  ELSE FindParsePrimary(ws)
AndMore(x) ==
  LET y == FindParseNot(IF x.rest[1][1] = "-a" THEN Tail(x.rest) ELSE x.rest)
  IN IF x.bad \/ AtExprBoundary(x.rest) THEN x
     ELSE IF y.bad THEN y ELSE AndMore([y EXCEPT !.node = [op |-> "and", l |-> x.node, r |-> y.node]])
FindParseAnd(ws) == AndMore(FindParseNot(ws))
OrMore(x) ==
  LET y == FindParseAnd(Tail(x.rest))
  IN IF x.bad \/ x.rest = <<>> \/ x.rest[1][1] # "-o" THEN x
     ELSE IF y.bad THEN y ELSE OrMore([y EXCEPT !.node = [op |-> "or", l |-> x.node, r |-> y.node]])
FindParseOr(ws) == OrMore(FindParseAnd(ws))

\* st is what has been done so far: the tree that is left, what was printed and run, the status.
Beneath(tree, path) == {p \in DOMAIN tree : Len(p) = Len(path) + 1 /\ UpTo(p, Len(path)) = path}
Act(word, path, st) ==
  CASE word = "-print" -> [v |-> TRUE, st |-> [st EXCEPT !.out = Append(@, path)]]
    [] word = "-exec" -> [v |-> Last(path) # "b", st |-> [st EXCEPT !.ran = Append(@, path)]]
    [] word = "-delete" -> IF Beneath(st.tree, path) = {}
                           THEN [v |-> TRUE, st |-> [st EXCEPT !.tree = [p \in DOMAIN @ \ {path} |-> @[p]]]]
                           ELSE [v |-> FALSE, st |-> [st EXCEPT !.status = 1]]
RECURSIVE FindEval(_, _, _, _)
FindEval(node, path, was, st) ==
  CASE node.op = "leaf" /\ node.word[1] \in Actions -> Act(node.word[1], path, st)
    [] node.op = "leaf" /\ node.word[1] \notin Actions -> [v |-> FindTestMatches(node.word, path, was), st |-> st]
    [] node.op = "and" -> LET x == FindEval(node.l, path, was, st) IN IF x.v THEN FindEval(node.r, path, was, x.st) ELSE x
    [] node.op = "or" -> LET x == FindEval(node.l, path, was, st) IN IF x.v THEN x ELSE FindEval(node.r, path, was, x.st)
    [] node.op = "not" -> [FindEval(node.r, path, was, st) EXCEPT !.v = ~@]
RECURSIVE FindVisit(_, _, _, _)
FindVisit(path, opts, depth, st) ==
  LET was == st.tree[path]
      descend == was.type = "d" /\ (opts.max < 0 \/ depth < opts.max)
      below == CASE descend /\ ~was.shut -> FoldLeft(LAMBDA s, p : FindVisit(p, opts, depth + 1, s), st, SetToSeq(Beneath(st.tree, path)))
                 [] descend /\ was.shut -> [st EXCEPT !.status = 1]
                 [] OTHER -> st
  IN IF path \notin DOMAIN st.tree THEN [st EXCEPT !.status = 1]
     ELSE IF depth >= opts.min THEN FindEval(opts.root, path, was, below).st ELSE below
Find(start, words, tree) ==
  LET given(option) == SelectSeq(words, LAMBDA w : w[1] = option)
      depth(option, none) == IF given(option) = <<>> THEN none ELSE Last(given(option))[2]
      expr == SelectSeq(words, LAMBDA w : w[1] \notin Depths)
      x == FindParseOr(expr)
      print == [op |-> "leaf", word |-> <<"-print">>]
      hadAction == \E i \in DOMAIN expr : expr[i][1] \in Actions
      root == CASE expr = <<>> -> print [] expr # <<>> /\ hadAction -> x.node [] OTHER -> [op |-> "and", l |-> x.node, r |-> print]
      untouched == [tree |-> tree, out |-> <<>>, ran |-> <<>>, status |-> 0]
  IN IF expr # <<>> /\ (x.bad \/ x.rest # <<>>) THEN [untouched EXCEPT !.status = 1]
     ELSE FindVisit(start, [root |-> root, max |-> depth("-maxdepth", -1), min |-> depth("-mindepth", 0)], 0, untouched)
=============================================================================
