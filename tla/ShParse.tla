------------------------------ MODULE ShParse ------------------------------
(***************************************************************************)
(* The parser of the shell (shell/parser.c) with what the lexer decides    *)
(* for it (shell/lexer.c) and the trees it builds (shell/ast.c): recursive *)
(* descent over tokens whose kind depends on a mask of rules, set by the   *)
(* parser before it reads the next token and, at times, after it has.      *)
(*                                                                         *)
(* A script is a sequence of lexemes: operators and reserved words stand   *)
(* for themselves, "nl" is an end of line, "tab" a tab at the start of a   *)
(* line of a here-document, and words are one lexeme each: the characters  *)
(* of a word are the business of ShExpand.  An IO number is a number with  *)
(* the redirection right behind it.  Positions, which only messages use,   *)
(* are left out.                                                           *)
(***************************************************************************)
EXTENDS Integers, SequencesExt

CONSTANTS
    LexNames,        \* words that may name a variable or a function
    LexAssignments,  \* words such as x=1
    LexParameters,   \* words such as $x
    Numbers       \* words of digits

Reserved == {"function", "if", "then", "elif", "else", "fi", "for", "while", "until", "do", "done",
             "in", "case", "esac"}
RedirectOperators == {"<", ">", ">>", "<<", "<<-", "<<<", "<&", ">&", "<>", ">|"}
LexOperators == {"nl", ";", ";;", "&", "&&", "|", "||", "|&", "(", ")", "((", "))"} \cup RedirectOperators
Braces == {"{", "}"}
WordTypes == {"WORD", "ASSIGNMENT", "NAME", "PARAMETER"}

\* The masks of rules the parser sets: 1 a command may start, 2 the target of a redirection,
\* 4 a pattern of case, 5 the variable of for, 6 the list of for, 7 assignments, 8 the name of a function.
CommandStart == {1, 7}
Continuation == {7}
Pattern == {4}
ForName == {5}
ForList == {6, 1}
FunctionName == {8, 1}

-----------------------------------------------------------------------------
(* Tokens. *)

\* What the lexer makes of the next lexeme under a mask.  Braces and the bang are words where no
\* command starts; a number is one of a descriptor when a redirection follows it.
shellNextToken(in, mask) ==
    IF in = <<>> THEN [lex |-> "", type |-> "EOF", mask |-> mask]
    ELSE LET lex == Head(in) IN
         [lex |-> lex, mask |-> mask,
          type |-> CASE lex \in LexOperators -> lex
                     [] lex \in Braces -> IF 1 \in mask \/ 4 \in mask THEN lex ELSE "WORD"
                     [] lex = "!" -> IF 1 \in mask THEN lex ELSE "WORD"
                     [] lex \in LexParameters -> "PARAMETER"
                     [] lex \in Numbers /\ Len(in) > 1 /\ in[2] \in RedirectOperators -> "IO_NUMBER"
                     [] OTHER -> "WORD"]

\* What a token is once the rules of the mask have been applied to it.
applyLexicalRules(token, mask) ==
    LET lex == token.lex IN
    [token EXCEPT !.mask = mask,
        !.type = CASE lex \in Reserved ->
                          IF 6 \in mask \/ (1 \in mask /\ mask \cap {2, 3, 4, 9} = {}) THEN lex ELSE "WORD"
                   [] lex \in LexAssignments -> "ASSIGNMENT"
                   [] lex \in LexNames /\ mask \cap {5, 8} # {} -> "NAME"
                   [] 1 \in mask /\ lex \in {"(", ")"} \cup Braces -> lex
                   [] OTHER -> token.type]

-----------------------------------------------------------------------------
(* The parser: the rest of the input, the current and the previous token,  *)
(* the mask for the next one, the closers that end a command wherever they *)
(* stand, the here-documents that wait for their bodies, the bodies read,  *)
(* and whether there was an error.                                         *)

Result(p, v) == [p |-> p, v |-> v]
None == [kind |-> "none"]
Failed(r) == r.v = None
NoWord == ""

Schedule(p, mask) == [p EXCEPT !.mask = mask]
parserErrorAt(p) == [p EXCEPT !.err = TRUE]
Reclassify(p, mask) == [p EXCEPT !.cur = applyLexicalRules(@, mask)]

FirstNewline(in) ==
    LET ends == {i \in 1 .. Len(in) : in[i] = "nl"} IN
    IF ends = {} THEN Len(in) + 1 ELSE CHOOSE i \in ends : \A j \in ends : i <= j
LineOf(in) == SubSeq(in, 1, FirstNewline(in) - 1)
AfterLine(in) == SubSeq(in, FirstNewline(in) + 1, Len(in))

RECURSIVE Untabbed(_)
Untabbed(line) == IF line # <<>> /\ Head(line) = "tab" THEN Untabbed(Tail(line)) ELSE line

\* The lines of a here-document up to the one that is its delimiter; none when the input ends before.
RECURSIVE BodyOf(_, _, _)
BodyOf(in, doc, body) ==
    IF in = <<>> THEN [found |-> FALSE, in |-> in, body |-> body]
    ELSE LET line == IF doc.strip THEN Untabbed(LineOf(in)) ELSE LineOf(in) IN
         IF line = <<doc.delimiter>> THEN [found |-> TRUE, in |-> AfterLine(in), body |-> body]
         ELSE BodyOf(AfterLine(in), doc, Append(body, line))

\* Every here-document that waits takes its body from the input, in the order of the operators.
RECURSIVE parserConsumePendingHereDocs(_)
parserConsumePendingHereDocs(p) ==
    IF p.docs = <<>> THEN p
    ELSE LET read == BodyOf(p.in, Head(p.docs), <<>>) IN
         IF ~read.found THEN parserErrorAt([p EXCEPT !.in = read.in])
         ELSE parserConsumePendingHereDocs(
                  [p EXCEPT !.in = read.in, !.docs = Tail(@), !.bodies = Append(@, read.body)])

shellParserAdvance(p) ==
    LET drained == IF p.cur.type = "nl" THEN parserConsumePendingHereDocs(p) ELSE p IN
    [drained EXCEPT !.cur = applyLexicalRules(shellNextToken(drained.in, p.mask), p.mask),
                    !.prev = p.cur,
                    !.in = IF @ = <<>> THEN @ ELSE Tail(@)]

Advance(p, mask) == shellParserAdvance(Schedule(p, mask))
shellParserConsume(p, type) == IF p.cur.type = type THEN shellParserAdvance(p) ELSE parserErrorAt(p)

RECURSIVE parseLinebreak(_)
parseLinebreak(p) == IF p.cur.type = "nl" THEN parseLinebreak(Advance(p, CommandStart)) ELSE p

\* The optional semicolon or end of line between the head of a construct and its body.
Separator(p) ==
    LET q == parseLinebreak(p) IN IF q.cur.type = ";" THEN parseLinebreak(Advance(q, CommandStart)) ELSE q

tokenStartsCommand(token) ==
    token.type \in WordTypes \cup {"IO_NUMBER", "(", "{", "!", "function", "if", "while", "until", "for", "case"}

-----------------------------------------------------------------------------
(* Trees. *)

shellCreateSimpleCommand == [kind |-> "simple", words |-> <<>>, redirs |-> <<>>]
shellCreateArithmeticCommand(expression) == [kind |-> "arithmetic", words |-> expression, redirs |-> <<>>]
shellCreateBraceGroupCommand(body) == [kind |-> "group", body |-> body, redirs |-> <<>>]
shellCreateSubshellCommand(body) == [kind |-> "subshell", body |-> body, redirs |-> <<>>]
shellCreateConditional(condition, then, else) ==
    [kind |-> "if", condition |-> condition, body |-> then, else |-> else, redirs |-> <<>>]
shellCreateLoop(until, condition, body) ==
    [kind |-> "loop", until |-> until, condition |-> condition, body |-> body, redirs |-> <<>>]
shellCreateForLoop(variable, values, body) ==
    [kind |-> "for", words |-> <<variable>> \o values, body |-> body, redirs |-> <<>>]
shellCreateCStyleForLoop(segments, body) ==
    [kind |-> "cfor", segments |-> segments, body |-> body, redirs |-> <<>>]
shellCreateCase(subject, clauses) ==
    [kind |-> "case", words |-> <<subject>>, clauses |-> clauses, redirs |-> <<>>]
shellCreateFunction(name, body) == [kind |-> "function", words |-> <<name>>, body |-> body, redirs |-> <<>>]

shellCreatePipeline(negated) == [negated |-> negated, commands |-> <<>>, merged |-> {}]
shellPipelineAddCommand(pipeline, command) == [pipeline EXCEPT !.commands = Append(@, command)]
shellPipelineSetMergeStderr(pipeline) == [pipeline EXCEPT !.merged = @ \cup {Len(pipeline.commands) - 1}]
shellCreateLogicalList(pipeline) ==
    [kind |-> "list", items |-> <<[connector |-> "&&", pipeline |-> pipeline]>>, background |-> FALSE]
shellLogicalListAdd(list, pipeline, connector) ==
    [list EXCEPT !.items = Append(@, [connector |-> connector, pipeline |-> pipeline])]
InBackground(command) == [command EXCEPT !.background = TRUE]

\* A here-document is a redirection with the number of its body; <> is read as <.
shellCreateRedirection(op, number, target, doc) ==
    [op |-> CASE op = "<<-" -> "<<" [] op = "<>" -> "<" [] OTHER -> op,
     number |-> number, target |-> target, doc |-> doc]

-----------------------------------------------------------------------------
(* Words, redirections and simple commands. *)

parseWordToken(p) ==
    IF p.cur.type \notin WordTypes THEN Result(parserErrorAt(p), NoWord)
    ELSE Result(Advance(p, IF 4 \in p.cur.mask \cup p.mask THEN Pattern ELSE Continuation), p.cur.lex)

\* None, without an error, when no redirection stands here.
parseRedirection(p) ==
    LET numbered == p.cur.type = "IO_NUMBER"
        at == IF numbered THEN Advance(p, CommandStart) ELSE p
        op == at.cur.type
    IN  IF op \notin RedirectOperators THEN Result(p, None)
        ELSE LET target == parseWordToken(Advance(at, CommandStart))
                 doc == IF op \in {"<<", "<<-"} THEN Len(p.bodies) + Len(p.docs) + 1 ELSE 0
             IN  IF target.v = NoWord THEN Result(target.p, None)
                 ELSE Result([target.p EXCEPT !.mask = Continuation,
                                  !.docs = IF doc = 0 THEN @
                                           ELSE Append(@, [delimiter |-> target.v, strip |-> op = "<<-"])],
                             shellCreateRedirection(op, IF numbered THEN p.cur.lex ELSE "", target.v, doc))

RECURSIVE Redirected(_, _)
Redirected(p, command) ==
    LET r == parseRedirection(p) IN
    IF Failed(r) THEN Result(r.p, command)
    ELSE Redirected(r.p, [command EXCEPT !.redirs = Append(@, r.v)])

\* A brace that would be a word ends the command inside a group.
Closes(p) == p.cur.type = "WORD" /\ p.cur.lex \in p.closers

RECURSIVE WordsAndRedirections(_, _)
WordsAndRedirections(p, command) ==
    IF p.err THEN Result(p, command)
    ELSE IF Closes(p) THEN Result(Reclassify(p, CommandStart), command)
    ELSE IF p.cur.type \in WordTypes
    THEN LET word == parseWordToken(p) IN
         WordsAndRedirections(Schedule(word.p, Continuation), [command EXCEPT !.words = Append(@, word.v)])
    ELSE LET r == parseRedirection(p) IN
         IF Failed(r) THEN Result(r.p, command)
         ELSE WordsAndRedirections(r.p, [command EXCEPT !.redirs = Append(@, r.v)])

\* How much deeper in parentheses the text is after a lexeme.
Deeper(lex) == CASE lex = "(" -> 1 [] lex = "((" -> 2 [] lex = ")" -> -1 [] lex = "))" -> -2 [] OTHER -> 0

\* The text up to the two parentheses that close ((: they stand together, at depth one.
RECURSIVE ArithmeticEnd(_, _, _)
ArithmeticEnd(text, at, depth) ==
    IF at > Len(text) THEN 0
    ELSE IF depth = 1 /\ text[at] = "))" THEN at
    ELSE IF depth + Deeper(text[at]) <= 0 THEN 0
    ELSE ArithmeticEnd(text, at + 1, depth + Deeper(text[at]))

\* The text begins with the token the parser has already read.
ArithmeticText(p) == IF p.cur.type = "EOF" THEN p.in ELSE <<p.cur.lex>> \o p.in
Behind(p, text, end) ==
    LET q == [p EXCEPT !.in = SubSeq(text, end + 1, Len(text))] IN
    [q EXCEPT !.cur = applyLexicalRules(shellNextToken(q.in, q.mask), q.mask),
              !.in = IF @ = <<>> THEN @ ELSE Tail(@)]

parserExtractArithmeticCommandExpression(p) ==
    LET text == ArithmeticText(p)
        end == ArithmeticEnd(text, 1, 1)
    IN  IF end = 0 THEN Result(parserErrorAt(p), <<>>)
        ELSE Result(Behind(p, text, end), SubSeq(text, 1, end - 1))

parseArithmeticCommand(p) ==
    LET r == parserExtractArithmeticCommandExpression(Advance(p, CommandStart)) IN
    IF r.p.err THEN Result(r.p, None)
    ELSE Redirected(Schedule(r.p, Continuation), shellCreateArithmeticCommand(r.v))

parseSimpleCommand(p) ==
    IF p.cur.type = "((" THEN parseArithmeticCommand(p)
    ELSE LET r == WordsAndRedirections(p, shellCreateSimpleCommand) IN
         IF r.v = shellCreateSimpleCommand THEN Result(parserErrorAt(r.p), None) ELSE r

parserIsFunctionDefinitionStart(p) ==
    /\ p.cur.type = "NAME" \/ (p.cur.type = "WORD" /\ p.cur.lex \in LexNames)
    /\ Len(p.in) > 1 /\ p.in[1] = "(" /\ p.in[2] = ")"

-----------------------------------------------------------------------------
(* Lists and compound commands. *)

RECURSIVE parseCommand(_), parseAndOr(_), parseList(_, _), CompoundList(_, _, _), parseIfClause(_)

\* A command that ends the input lets the here-documents on its line look for their bodies.
parsePipelineCommand(p) ==
    LET r == parseCommand(p) IN
    IF ~Failed(r) /\ r.p.cur.type = "EOF" THEN Result(parserConsumePendingHereDocs(r.p), r.v) ELSE r

RECURSIVE Negations(_, _)
Negations(p, negated) ==
    IF p.cur.type = "!" THEN Negations(parseLinebreak(Advance(p, CommandStart)), ~negated) ELSE Result(p, negated)

RECURSIVE PipelineRest(_, _)
PipelineRest(p, pipeline) ==
    IF p.cur.type \notin {"|", "|&"} THEN Result(p, pipeline)
    ELSE LET next == parsePipelineCommand(parseLinebreak(Advance(p, CommandStart)))
             longer == shellPipelineAddCommand(pipeline, next.v)
         IN  IF Failed(next) THEN Result(next.p, pipeline)
             ELSE PipelineRest(next.p,
                      IF p.cur.type = "|&" THEN shellPipelineSetMergeStderr(longer) ELSE longer)

\* A pipeline without commands is what is left when its first command fails.
parsePipeline(p) ==
    LET bang == Negations(p, FALSE)
        first == parsePipelineCommand(bang.p)
        pipeline == shellCreatePipeline(bang.v)
    IN  IF Failed(first) THEN Result(first.p, pipeline)
        ELSE PipelineRest(first.p, shellPipelineAddCommand(pipeline, first.v))

RECURSIVE AndOrRest(_, _)
AndOrRest(p, list) ==
    IF p.cur.type \notin {"&&", "||"} THEN Result(p, list)
    ELSE LET next == parsePipeline(parseLinebreak(Advance(p, CommandStart))) IN
         AndOrRest(next.p, shellLogicalListAdd(list, next.v, p.cur.type))
parseAndOr(p) == LET first == parsePipeline(p) IN AndOrRest(first.p, shellCreateLogicalList(first.v))

parseList(p, program) ==
    LET r == parseAndOr(p)
        separated == r.p.cur.type \in {"&", ";"}
        longer == Append(program, IF r.p.cur.type = "&" THEN InBackground(r.v) ELSE r.v)
        next == IF separated THEN parseLinebreak(Advance(r.p, CommandStart)) ELSE r.p
    IN  IF separated /\ tokenStartsCommand(next.cur) THEN parseList(next, longer) ELSE Result(next, longer)

\* Commands up to a token that ends the construct around them.
CompoundList(p, ends, program) ==
    IF p.err \/ p.cur.type \in ends \cup {"EOF"} THEN Result(p, program)
    ELSE LET r == parseList(p, program)
             after == Reclassify(r.p, CommandStart)
             past == IF after.cur.type \in {";", "&"} THEN Advance(after, CommandStart) ELSE after
         IN  CompoundList(Reclassify(parseLinebreak(past), CommandStart), ends, r.v)
parseCompoundListUntil(p, ends) ==
    LET inside == [p EXCEPT !.closers = @ \cup (ends \cap {")", "}"})]
        r == CompoundList(Reclassify(parseLinebreak(inside), CommandStart), ends, <<>>)
    IN  Result([r.p EXCEPT !.closers = p.closers], r.v)

\* The body of a construct between two reserved words.
Between(p, open, close) ==
    LET body == parseCompoundListUntil(
                    parseLinebreak(shellParserConsume(Reclassify(Separator(p), CommandStart), open)), {close})
    IN  Result(shellParserConsume(Reclassify(body.p, CommandStart), close), body.v)

parseBraceGroup(p) ==
    LET body == parseCompoundListUntil(parseLinebreak(Advance(p, CommandStart)), {"}"}) IN
    Result(shellParserConsume(Reclassify(body.p, CommandStart), "}"), shellCreateBraceGroupCommand(body.v))
parseSubshell(p) ==
    LET body == parseCompoundListUntil(parseLinebreak(Advance(p, CommandStart)), {")"}) IN
    Result(shellParserConsume(Reclassify(body.p, CommandStart), ")"), shellCreateSubshellCommand(body.v))

\* The condition is one and-or list; the clause of elif reads the fi for all of them.
parseIfClause(p) ==
    LET condition == parseAndOr(Advance(p, CommandStart))
        then == parseCompoundListUntil(
                    parseLinebreak(shellParserConsume(Reclassify(Separator(condition.p), CommandStart), "then")),
                    {"elif", "else", "fi"})
        at == Reclassify(then.p, CommandStart)
        elif == parseIfClause(at)
        else == parseCompoundListUntil(parseLinebreak(Advance(at, CommandStart)), {"fi"})
        If(p2, branch) == Result(p2, shellCreateConditional(condition.v, then.v, branch))
    IN  CASE at.err -> If(at, <<>>)
          [] at.cur.type = "elif" -> If(elif.p, <<<<elif.v>>>>)
          [] at.cur.type = "else" -> If(shellParserConsume(Reclassify(else.p, CommandStart), "fi"), <<else.v>>)
          [] OTHER -> If(shellParserConsume(at, "fi"), <<>>)

parseWhileClause(p) ==
    LET condition == parseAndOr(Advance(p, CommandStart))
        body == Between(condition.p, "do", "done")
    IN  Result(body.p, shellCreateLoop(p.cur.type = "until", condition.v, body.v))

RECURSIVE ForWords(_, _)
ForWords(p, words) ==
    IF p.cur.type \notin WordTypes THEN Result(p, words)
    ELSE LET word == parseWordToken(p)
             next == Schedule(word.p, Continuation)
         IN  IF next.cur.type \in {";", "nl"} THEN Result(next, Append(words, word.v))
             ELSE ForWords(next, Append(words, word.v))

\* The places of the semicolons outside inner parentheses, of which the first two count.
Semicolons(text) ==
    SelectSeq([i \in DOMAIN text |-> i], LAMBDA i :
        text[i] = ";" /\ FoldLeft(LAMBDA sum, lex : sum + Deeper(lex), 0, SubSeq(text, 1, i)) = 0)
parserExtractCStyleForSegments(p) ==
    LET r == parserExtractArithmeticCommandExpression(p)
        at == Semicolons(r.v)
    IN  IF r.p.err \/ Len(at) < 2 THEN Result(parserErrorAt(p), <<>>)
        ELSE Result(r.p, <<SubSeq(r.v, 1, at[1] - 1), SubSeq(r.v, at[1] + 1, at[2] - 1),
                           SubSeq(r.v, at[2] + 1, Len(r.v))>>)
parseCStyleForClause(p) ==
    LET r == parserExtractCStyleForSegments(Advance(p, CommandStart))
        body == Between(r.p, "do", "done")
    IN  IF r.p.err THEN Result(r.p, None) ELSE Result(body.p, shellCreateCStyleForLoop(r.v, body.v))

\* Nothing in the tree tells an empty list behind in from no list at all.
parseForClause(p) ==
    LET at == Advance(p, CommandStart)
        named == shellParserAdvance(Reclassify(Schedule(at, ForName), ForName))
        list == Reclassify(parseLinebreak(named), ForList)
        words == IF list.cur.type = "in" THEN ForWords(parseLinebreak(Advance(list, ForList)), <<>>)
                 ELSE Result(list, <<>>)
        past == IF words.p.cur.type \in {";", "nl"} THEN parseLinebreak(Advance(words.p, CommandStart)) ELSE words.p
        opened == parseLinebreak(shellParserConsume(Reclassify(past, CommandStart), "do"))
        body == parseCompoundListUntil(opened, {"done"})
    IN  CASE at.cur.type = "((" -> parseCStyleForClause(at)
          [] at.cur.type # "((" /\ named.prev.type # "NAME" -> Result(parserErrorAt(named), None)
          [] OTHER -> Result(shellParserConsume(Reclassify(body.p, CommandStart), "done"),
                             shellCreateForLoop(named.prev.lex, words.v, body.v))

RECURSIVE Patterns(_, _)
Patterns(p, patterns) ==
    IF p.cur.type \notin WordTypes THEN Result(p, patterns)
    ELSE LET word == parseWordToken(p) IN
         IF word.p.cur.type = "|" THEN Patterns(Schedule(shellParserAdvance(word.p), Pattern), Append(patterns, word.v))
         ELSE Result(word.p, Append(patterns, word.v))

RECURSIVE Clauses(_, _)
Clauses(p, clauses) ==
    IF p.cur.type \in {"esac", "EOF"} THEN Result(p, clauses)
    ELSE IF p.cur.type = "nl" THEN Clauses(parseLinebreak(p), clauses)
    ELSE LET open == IF p.cur.type = "(" THEN Advance(p, Pattern) ELSE p
             patterns == Patterns(Schedule(open, Pattern), <<>>)
             closed == parseLinebreak(shellParserConsume(Schedule(patterns.p, CommandStart), ")"))
             body == parseCompoundListUntil(closed, {";;", "esac"})
             longer == Append(clauses, [patterns |-> patterns.v, body |-> body.v])
         IN  IF body.p.cur.type = ";;" THEN Clauses(parseLinebreak(Advance(body.p, CommandStart)), longer)
             ELSE Result(body.p, longer)

parseCaseClause(p) ==
    LET subject == parseWordToken(Advance(p, CommandStart))
        at == Reclassify(Schedule(parseLinebreak(subject.p), ForList), ForList)
        clauses == Clauses(parseLinebreak(shellParserConsume(at, "in")), <<>>)
    IN  IF subject.p.err THEN Result(subject.p, None)
        ELSE Result(shellParserConsume(Reclassify(clauses.p, CommandStart), "esac"), shellCreateCase(subject.v, clauses.v))

\* None, without an error, when no compound command starts here.
parseCompoundCommand(p) ==
    LET type == p.cur.type
        r == CASE type = "{" -> parseBraceGroup(p) [] type = "(" -> parseSubshell(p)
               [] type = "if" -> parseIfClause(p) [] type \in {"while", "until"} -> parseWhileClause(p)
               [] type = "for" -> parseForClause(p) [] type = "case" -> parseCaseClause(p)
               [] OTHER -> Result(p, None)
    IN  IF Failed(r) THEN r ELSE Redirected(r.p, r.v)

\* The parentheses behind the name, if there are any, the body, and no error when there is none.
FunctionBody(p, name) ==
    LET parens == IF p.cur.type = "(" THEN shellParserConsume(Schedule(Advance(p, CommandStart), CommandStart), ")")
                  ELSE Schedule(p, CommandStart)
        body == parseCompoundCommand(parseLinebreak(parens))
    IN  IF Failed(body) THEN body ELSE Result(body.p, shellCreateFunction(name, <<body.v>>))
parseFunctionDefinitionFromName(p) ==
    FunctionBody(shellParserAdvance(Reclassify(Schedule(p, FunctionName), FunctionName)), p.cur.lex)
parseFunctionDefinition(p) ==
    LET named == shellParserAdvance(Reclassify(Schedule(Advance(p, CommandStart), FunctionName), FunctionName)) IN
    IF named.prev.type # "NAME" THEN Result(parserErrorAt(named), None)
    ELSE FunctionBody(named, named.prev.lex)

parseCommand(p) ==
    LET type == p.cur.type IN
    CASE type = "function" -> parseFunctionDefinition(p)
      [] type \in {"{", "(", "if", "for", "while", "until", "case"} -> parseCompoundCommand(p)
      [] OTHER -> IF parserIsFunctionDefinitionStart(p) THEN parseFunctionDefinitionFromName(p)
                  ELSE parseSimpleCommand(p)

\* A separator behind a list that ended in one is taken too, and & puts the last command in the background.
parseCompleteCommand(p, program) ==
    LET r == parseList(p, program)
        stray == r.p.cur.type \in {";", "&"}
    IN  Result(IF stray THEN parseLinebreak(Advance(r.p, CommandStart)) ELSE r.p,
               IF r.p.cur.type = "&" THEN [r.v EXCEPT ![Len(r.v)] = InBackground(@)] ELSE r.v)

RECURSIVE parseCompleteCommands(_, _)
parseCompleteCommands(p, program) ==
    IF p.err \/ p.cur.type = "EOF" THEN Result(p, program)
    ELSE LET r == parseCompleteCommand(p, program) IN parseCompleteCommands(parseLinebreak(r.p), r.v)

shellParseString(script) ==
    LET empty == [in |-> script, cur |-> [lex |-> "", type |-> "none", mask |-> {}],
                  prev |-> [lex |-> "", type |-> "none", mask |-> {}], mask |-> CommandStart, closers |-> {},
                  docs |-> <<>>, bodies |-> <<>>, err |-> FALSE]
        r == parseCompleteCommands(parseLinebreak(shellParserAdvance(empty)), <<>>)
    IN  [ok |-> ~r.p.err, program |-> IF r.p.err THEN <<>> ELSE r.v, bodies |-> r.p.bodies]

-----------------------------------------------------------------------------
(* The copy of its body that a function keeps when it is defined (shell/sh_astcopy.c). *)

RECURSIVE copyCommand(_), shCopyProgram(_)

\* Slip: the flags of |& are not copied.
copyPipelineOnly(pipeline) ==
    FoldLeft(LAMBDA copy, command : shellPipelineAddCommand(copy, copyCommand(command)),
             shellCreatePipeline(pipeline.negated), pipeline.commands)

copyPipeline(pipeline) ==
    [FoldLeft(LAMBDA copy, command : shellPipelineAddCommand(copy, copyCommand(command)),
              shellCreatePipeline(pipeline.negated), pipeline.commands)
     EXCEPT !.merged = pipeline.merged]

copyLogical(list) ==
    FoldLeft(LAMBDA copy, item : shellLogicalListAdd(copy, copyPipeline(item.pipeline), item.connector),
             shellCreateLogicalList(copyPipeline(list.items[1].pipeline)), Tail(list.items))

copyRedirectionsInto(copy, command) == [copy EXCEPT !.redirs = copy.redirs \o command.redirs]

copyCommand(command) ==
    LET kind == command.kind IN
    CASE kind = "simple" -> copyRedirectionsInto([shellCreateSimpleCommand EXCEPT !.words = command.words], command)
      [] kind = "arithmetic" -> copyRedirectionsInto(shellCreateArithmeticCommand(command.words), command)
      [] kind = "list" -> [copyLogical(command) EXCEPT !.background = command.background]
      [] kind = "group" -> copyRedirectionsInto(shellCreateBraceGroupCommand(shCopyProgram(command.body)), command)
      [] kind = "subshell" -> copyRedirectionsInto(shellCreateSubshellCommand(shCopyProgram(command.body)), command)
      [] kind = "if" ->
             copyRedirectionsInto(
                 shellCreateConditional(copyCommand(command.condition), shCopyProgram(command.body),
                     IF command.else = <<>> THEN <<>> ELSE <<shCopyProgram(command.else[1])>>), command)
      [] kind = "loop" ->
             copyRedirectionsInto(
                 shellCreateLoop(command.until, copyCommand(command.condition), shCopyProgram(command.body)), command)
      [] kind = "for" ->
             copyRedirectionsInto(
                 shellCreateForLoop(command.words[1], Tail(command.words), shCopyProgram(command.body)), command)
      [] kind = "cfor" ->
             copyRedirectionsInto(shellCreateCStyleForLoop(command.segments, shCopyProgram(command.body)), command)
      [] kind = "case" ->
             copyRedirectionsInto(
                 shellCreateCase(command.words[1],
                     [i \in DOMAIN command.clauses |->
                         [command.clauses[i] EXCEPT !.body = shCopyProgram(@)]]), command)
      [] kind = "function" ->
             copyRedirectionsInto(shellCreateFunction(command.words[1], shCopyProgram(command.body)), command)

shCopyProgram(program) == [i \in DOMAIN program |-> copyCommand(program[i])]

-----------------------------------------------------------------------------
(* The interactive loop (shell/sh_main.c, runInteractive): lines are       *)
(* gathered until they look complete, which is decided by a scan of its    *)
(* own and not by the parser, and what has been gathered is parsed and     *)
(* run.  Line editing, history, notices of jobs and traps are in other     *)
(* modules or left out.                                                    *)

RECURSIVE LinesOf(_)
LinesOf(in) == IF in = <<>> THEN <<>> ELSE <<LineOf(in)>> \o LinesOf(AfterLine(in))
Joined(ls) == FoldLeft(LAMBDA all, line : IF all = <<>> THEN line ELSE all \o <<"nl">> \o line, <<>>, ls)

Count(source, set) == Cardinality({i \in DOMAIN source : source[i] \in set})
Openers == {"if", "while", "until", "for", "case"}
Closers == {"fi", "done", "esac"}

\* Slip: only brackets and braces are counted, not the words that open and close.
IncompleteByParens(source) ==
    \/ FoldLeft(LAMBDA sum, lex : sum + Deeper(lex), 0, source) > 0
    \/ Count(source, {"{"}) > Count(source, {"}"})
    \/ Count(source, {"<<", "<<-", "<<<"}) > 0 /\ ~shellParseString(source).ok

\* More is needed while something counts as open, behind an operator, and while a here-document lacks
\* its end, which the parser tells.  Words are counted wherever they stand.
parseIsIncomplete(source) ==
    LET text == SelectSeq(source, LAMBDA lex : lex # "nl") IN
    \/ FoldLeft(LAMBDA sum, lex : sum + Deeper(lex), 0, source) > 0
    \/ Count(source, {"{"}) > Count(source, {"}"})
    \/ Count(source, Openers) > Count(source, Closers)
    \/ text # <<>> /\ Last(text) \in {"|", "||", "&&"}
    \/ Count(source, {"<<", "<<-", "<<<"}) > 0 /\ ~shellParseString(source).ok

\* The loop: a line is read and joined to those that are pending, and what is complete is run; nothing but
\* blanks is dropped.  What is kept back when the lines end, and the results of the parser that were run.
RECURSIVE runInteractive(_, _, _)
runInteractive(lines, pending, ran) ==
    IF lines = <<>> THEN [pending |-> pending, ran |-> ran]
    ELSE LET typed == Append(pending, Head(lines))
             source == Joined(typed)
         IN  IF source = <<>> THEN runInteractive(Tail(lines), <<>>, ran)
             ELSE IF parseIsIncomplete(source) THEN runInteractive(Tail(lines), typed, ran)
             ELSE runInteractive(Tail(lines), <<>>, Append(ran, shellParseString(source)))
=============================================================================
