----------------------------- MODULE ShGrammar -----------------------------
(***************************************************************************)
(* How programs of the shell are written: the other direction of ShParse,  *)
(* and the reading of here-documents by lines alone.  Nothing here stands  *)
(* for code; the properties compare the parser with it.                    *)
(***************************************************************************)
EXTENDS ShParse

\* Several pieces with something between them.
Between3(pieces, sep) ==
    FoldLeft(LAMBDA all, piece : IF all = <<>> THEN piece ELSE all \o sep \o piece, <<>>, pieces)
Together(pieces) == FoldLeft(LAMBDA all, piece : all \o piece, <<>>, pieces)

WrittenRedirection(redir) ==
    (IF redir.number = "" THEN <<>> ELSE <<redir.number>>) \o <<redir.op, redir.target>>

RECURSIVE WrittenCommand(_, _), WrittenProgram(_, _), WrittenList(_, _)

WrittenPipeline(pipeline, sep) ==
    (IF pipeline.negated THEN <<"!">> ELSE <<>>)
    \o Together([i \in DOMAIN pipeline.commands |->
                    (CASE i = 1 -> <<>> [] i - 1 \in pipeline.merged -> <<"|&">> [] OTHER -> <<"|">>)
                    \o WrittenCommand(pipeline.commands[i], sep)])

WrittenList(list, sep) ==
    Together([i \in DOMAIN list.items |->
                 (IF i = 1 THEN <<>> ELSE <<list.items[i].connector>>)
                 \o WrittenPipeline(list.items[i].pipeline, sep)])

\* Every command ends in a separator or in &.
WrittenProgram(program, sep) ==
    Together([i \in DOMAIN program |->
                 IF program[i].kind # "list" THEN WrittenCommand(program[i], sep) \o sep
                 ELSE WrittenList(program[i], sep) \o (IF program[i].background THEN <<"&">> ELSE sep)])

WrittenBranch(else, sep) ==
    IF else = <<>> THEN <<"fi">>
    ELSE IF Len(else[1]) = 1 /\ else[1][1].kind = "if"
    THEN <<"elif">> \o Tail(WrittenCommand(else[1][1], sep))
    ELSE <<"else">> \o WrittenProgram(else[1], sep) \o <<"fi">>

WrittenClauses(clauses, sep) ==
    Together([i \in DOMAIN clauses |->
        Between3([j \in DOMAIN clauses[i].patterns |-> <<clauses[i].patterns[j]>>], <<"|">>)
        \o <<")">> \o WrittenProgram(clauses[i].body, sep) \o <<";;">>])

WrittenCommand(c, sep) ==
    LET kind == c.kind
        do == sep \o <<"do">> \o (IF kind \in {"for", "cfor", "loop"} THEN WrittenProgram(c.body, sep) ELSE <<>>)
              \o <<"done">>
    IN  (CASE kind = "simple" -> c.words
           [] kind = "arithmetic" -> <<"((">> \o c.words \o <<"))">>
           [] kind = "group" -> <<"{">> \o WrittenProgram(c.body, sep) \o <<"}">>
           [] kind = "subshell" -> <<"(">> \o WrittenProgram(c.body, sep) \o <<")">>
           [] kind = "if" -> <<"if">> \o WrittenList(c.condition, sep) \o sep \o <<"then">>
                             \o WrittenProgram(c.body, sep) \o WrittenBranch(c.else, sep)
           [] kind = "loop" -> <<IF c.until THEN "until" ELSE "while">> \o WrittenList(c.condition, sep) \o do
           [] kind = "for" -> <<"for", c.words[1]>>
                              \o (IF Len(c.words) = 1 THEN <<>> ELSE <<"in">> \o Tail(c.words)) \o do
           [] kind = "cfor" -> <<"for", "((">> \o Between3(c.segments, <<";">>) \o <<"))">> \o do
           [] kind = "case" -> <<"case", c.words[1], "in">> \o WrittenClauses(c.clauses, sep) \o <<"esac">>
           [] kind = "function" -> <<c.words[1], "(", ")">> \o WrittenCommand(c.body[1], sep))
        \o Together([i \in DOMAIN c.redirs |-> WrittenRedirection(c.redirs[i])])

-----------------------------------------------------------------------------
(* Here-documents, by lines. *)

DocsOf(line) ==
    LET at == SelectSeq([i \in 1 .. Len(line) - 1 |-> i], LAMBDA i : line[i] \in {"<<", "<<-"}) IN
    [k \in DOMAIN at |-> [strip |-> line[at[k]] = "<<-", delimiter |-> line[at[k] + 1]]]

\* The lines of a script that are commands, and the bodies between them.
RECURSIVE Reading(_, _, _, _)
Reading(in, docs, text, bodies) ==
    IF docs # <<>>
    THEN LET read == BodyOf(in, docs[1], <<>>) IN
         IF read.found THEN Reading(read.in, Tail(docs), text, Append(bodies, read.body))
         ELSE [found |-> FALSE, text |-> text, bodies |-> bodies]
    ELSE IF in = <<>> THEN [found |-> TRUE, text |-> text, bodies |-> bodies]
    ELSE Reading(AfterLine(in), DocsOf(LineOf(in)), text \o LineOf(in) \o <<"nl">>, bodies)
ByLines(script) == Reading(script, <<>>, <<>>, <<>>)

\* A text with the bodies of its here-documents behind their lines.
RECURSIVE Laid(_, _)
Laid(text, bodies) ==
    IF text = <<>> THEN <<>>
    ELSE LET docs == DocsOf(LineOf(text)) IN
         LineOf(text) \o <<"nl">>
         \o Together([i \in DOMAIN docs |-> Together([k \in DOMAIN bodies[i] |-> bodies[i][k] \o <<"nl">>])
                                            \o <<docs[i].delimiter, "nl">>])
         \o Laid(AfterLine(text), SubSeq(bodies, Len(docs) + 1, Len(bodies)))

\* A program as a script, with its commands on lines of their own or on one.
Written(program, bodies, sep) == Laid(WrittenProgram(program, sep), bodies)

\* The places of a text that belong to redirections: the operator, its number and its target.
Redirecting(text) ==
    LET ops == {i \in DOMAIN text : text[i] \in RedirectOperators} IN
    ops \cup {i + 1 : i \in ops} \cup {i - 1 : i \in {j \in ops : j > 1 /\ text[j - 1] \in Numbers}}
Places(text, places) == SelectSeq([i \in DOMAIN text |-> i], LAMBDA i : i \in places)
Chosen(text, places) == LET at == Places(text, places) IN [k \in DOMAIN at |-> text[at[k]]]

\* The redirections of a text, and the rest without what only separates and without pairs of bangs.
RedirectionsOf(text) ==
    LET r == Chosen(text, Redirecting(text) \cap DOMAIN text) IN
    [i \in DOMAIN r |-> CASE r[i] = "<<-" -> "<<" [] r[i] = "<>" -> "<" [] OTHER -> r[i]]
Essence(text) ==
    FoldLeft(LAMBDA all, lex : IF lex = "!" /\ all # <<>> /\ Last(all) = "!" THEN Front(all) ELSE Append(all, lex), <<>>,
        SelectSeq(Chosen(text, DOMAIN text \ Redirecting(text)),
                  LAMBDA lex : lex \notin {"nl", ";", ";;", "(", ")", "in", "function"}))
SameText(s, t) == Essence(s) = Essence(t) /\ RedirectionsOf(s) = RedirectionsOf(t)

\* Where the scan is wrong: the parenthesis behind a pattern of case is counted for one that closes a
\* subshell around it, and a line of a here-document that ends in a separator never asks for the body.
Misjudged(script) ==
    \/ /\ "case" \in Range(script)
       /\ \E i \in 1 .. Len(script) - 1 : script[i] = "(" /\ script[i + 1] # ")"
    \/ \E line \in Range(LinesOf(script)) :
          line # <<>> /\ Last(line) \in {";", "&"} /\ Range(line) \cap {"<<", "<<-"} # {}

\* Typed line by line a script runs as it does from a file: no line is run before what it belongs to is
\* complete, nothing is kept back, and every part of the program is run once and in order.
RunsTyped(script) ==
    LET typed == runInteractive(LinesOf(script), <<>>, <<>>) IN
    ~Misjudged(script) =>
        /\ typed.pending = <<>>
        /\ \A i \in DOMAIN typed.ran : typed.ran[i].ok
        /\ FoldLeft(LAMBDA all, r : all \o r.program, <<>>, typed.ran) = shellParseString(script).program
=============================================================================
