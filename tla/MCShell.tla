------------------------------ MODULE MCShell ------------------------------
(***************************************************************************)
(* Four parts of the shell that share no state, checked side by side:      *)
(* variables and scopes (ShVars), redirections (ShRedir), scripts from     *)
(* their lexemes to their trees (ShParse) and words from their characters  *)
(* to the arguments of a command (ShExpand, ShArith).  A behaviour is of   *)
(* one part; the others rest.                                              *)
(***************************************************************************)
EXTENDS ShVars, ShRedir, ShGrammar, ShWords, FiniteSets

-----------------------------------------------------------------------------
(* Scripts: every construct, one inside the other; each is written on      *)
(* one line and on many, damaged by one lexeme, and typed line by line.    *)

VARIABLES
    script,   \* a script, as lexemes
    given     \* how it is given to the shell: "not" yet, as it was "written", or "damaged" in one lexeme
parseVars == <<script, given>>

Cmd(words) == [shellCreateSimpleCommand EXCEPT !.words = words]
With(command, redirs) == [command EXCEPT !.redirs = redirs]
To(op, number, target) == shellCreateRedirection(op, number, target, 0)
Doc(k) == shellCreateRedirection("<<", "", "E", k)
Pipe(cs) == [shellCreatePipeline(FALSE) EXCEPT !.commands = cs]
ListOf(command) == shellCreateLogicalList(Pipe(<<command>>))
A == Cmd(<<"a">>)
B == Cmd(<<"b", "$x">>)
Lists ==
    {ListOf(Cmd(<<"x=1", "a">>)), ListOf(With(B, <<To(">", "2", "b"), To("<", "", "a")>>)),
     InBackground(ListOf(A)),
     shellLogicalListAdd(ListOf(A), [Pipe(<<A, B>>) EXCEPT !.negated = TRUE, !.merged = {1}], "||"),
     shellCreateLogicalList(Pipe(<<With(A, <<Doc(1)>>), With(B, <<Doc(2)>>)>>))}

Compounds(body, condition) ==
    {shellCreateBraceGroupCommand(body), shellCreateSubshellCommand(body),
     shellCreateConditional(condition, body, <<>>), shellCreateConditional(condition, body, <<<<ListOf(A)>>>>),
     shellCreateConditional(condition, body,
         <<<<shellCreateConditional(ListOf(A), <<ListOf(B)>>, <<<<ListOf(B)>>>>)>>>>),
     shellCreateLoop(FALSE, condition, body), shellCreateLoop(TRUE, condition, body),
     shellCreateForLoop("f", <<"a", "$x">>, body), shellCreateForLoop("f", <<>>, body),
     shellCreateCStyleForLoop(<<<<"x=1">>, <<"a">>, <<"b">>>>, body),
     shellCreateCase("$x", <<[patterns |-> <<"a", "b">>, body |-> body], [patterns |-> <<"f">>, body |-> <<>>]>>),
     shellCreateFunction("f", <<shellCreateBraceGroupCommand(body)>>)}

HasDocs(list) ==
    \E i \in DOMAIN list.items : \E j \in DOMAIN list.items[i].pipeline.commands :
        \E k \in DOMAIN list.items[i].pipeline.commands[j].redirs :
            list.items[i].pipeline.commands[j].redirs[k].doc > 0
Shallow == UNION {Compounds(<<list>>, ListOf(A)) : list \in Lists}
Deep == UNION {Compounds(<<ListOf(With(c, <<To(">>", "", "a")>>)), ListOf(A)>>, ListOf(B)) :
                   c \in Compounds(<<ListOf(B)>>, ListOf(A))}
Nested == Shallow \cup Deep \cup UNION {Compounds(<<ListOf(B)>>, list) : list \in {l \in Lists : ~l.background /\ ~HasDocs(l)}}
Programs ==
    {<<list>> : list \in Lists} \cup {<<ListOf(c)>> : c \in Nested}
    \cup {<<ListOf(shellCreateArithmeticCommand(<<"a", "(", "b", ")">>)), ListOf(A)>>}
Bodies == <<<<<<"b">>, <<>>>>, <<<<"a", "b">>>>>>
Layouts == {<<";">>, <<"nl">>}

MCScripts == {Written(program, Bodies, sep) : program \in Programs, sep \in Layouts}

\* What a slip of the pen puts in the place of a lexeme.
Strokes == {"a", "f", "x=1", "if", "then", "elif", "else", "fi", "do", "done", "in", "esac", "{", "}", "(", ")",
            ";", ";;", "&", "|", "&&", "!", "nl", "<<", "<>"}

\* In an expression << and <> redirect nothing.
Arithmetic == IF \E i \in DOMAIN script : script[i] = "((" THEN {"<<", "<>"} ELSE {}

ParseInit == script \in MCScripts /\ given = "not"
Give == given = "not" /\ given' = "written" /\ UNCHANGED script
MaxDamaged == 22   \* the longest script that is damaged
Damage ==
    /\ given = "not" /\ Len(script) <= MaxDamaged
    /\ \E i \in DOMAIN script :
           \/ script' = RemoveAt(script, i)
           \/ \E lex \in Strokes \ ({script[i]} \cup Arithmetic) : script' = ReplaceAt(script, i, lex)
    /\ given' = "damaged"
ParseNext == Give \/ Damage

-----------------------------------------------------------------------------
(* Where the parser is known to read what no grammar of the shell derives, *)
(* or the prompt to take a program for complete that is not.               *)

Dense(text) == SelectSeq(text, LAMBDA lex : lex # "nl")
Behind3(text, i) == IF i < Len(text) THEN text[i + 1] ELSE ""
\* An & behind another separator; for x in with no words; a function without a compound command; a bar behind the last pattern.
Lenient(text) ==
    LET t == Dense(text) IN
    \E i \in DOMAIN t :
        \/ t[i] \in {";", "&"} /\ Behind3(t, i) = "&"
        \/ t[i] = "|" /\ Behind3(t, i) = ")"
        \/ i > 2 /\ t[i] = "in" /\ t[i - 2] = "for" /\ Behind3(t, i) \in {";", "do"}
        \/ i > 1 /\ t[i] = ")" /\ t[i - 1] = "(" /\ Behind3(t, i) \notin {"{", "(", "if", "for", "while", "until", "case"}

\* A program is read as it was written: one line or many, with its here-documents, and a function that
\* is defined with it keeps the same body.
ReadsBack(text) ==
    LET r == shellParseString(text) IN
    /\ r.ok
    /\ \E sep \in Layouts : Written(r.program, r.bodies, sep) = text
    /\ shCopyProgram(r.program) = r.program

\* Nothing is ignored: whatever the script, one that is accepted has every word, redirection, operator
\* and keyword of the text in its tree, in order, and every here-document the lines that are its own.
NothingIgnored(text) ==
    LET r == shellParseString(text)
        reference == ByLines(text)
    IN  r.ok /\ ~Lenient(reference.text) =>
            /\ reference.found
            /\ SameText(WrittenProgram(r.program, <<>>), reference.text)
            /\ r.bodies = reference.bodies

\* The tree of a script is the script: nothing is lost, added or put elsewhere.
ParsesAsWritten == [][(given' = "written" => ReadsBack(script')) /\ NothingIgnored(script')]_parseVars

\* Typed line by line, every program runs as it does from a file.
TypedLikeWritten == [][given' = "written" => RunsTyped(script')]_parseVars


-----------------------------------------------------------------------------
(* Words of every kind of part and expressions of every operator, in       *)
(* shells that differ in what splits a word and in what is set.            *)

VARIABLES
    sh,      \* the shell
    tried    \* what is expanded in it, as words or as an expression
expandVars == <<sh, tried>>

x == <<"x">>
y == <<"y">>
z == <<"z">>
IFS == <<"I", "F", "S">>
Given(name, value) == IF value = {} THEN <<>> ELSE (name :> (CHOOSE v \in value : TRUE))
Shells ==
  {[vars |-> Given(x, v) @@ Given(IFS, ifs) @@ (<<"H", "O", "M", "E">> :> <<"/", "h">>)
             @@ (y :> <<"b", " ", "b">>) @@ (z :> <<"3">>),
    params |-> ps, arg0 |-> <<"s", "h">>, nounset |-> v = {} /\ ps = <<>>, noglob |-> FALSE, interactive |-> FALSE,
    status |-> 1, pid |-> 7, bg |-> 0, options |-> <<"u">>, exits |-> FALSE, ran |-> <<>>,
    names |-> <<<<"a", "b">>, <<"b", "a">>>>] :
     v \in {{}, {<<>>}, {<<"a", " ", "b">>}, {<<" ", "a", ":">>}, {<<"a", ":", ":", "b">>}, {<<"b", "*">>}},
     ifs \in {{}, {<<":">>}, {<<>>}, {<<" ", ":">>}},
     ps \in {<<>>, <<<<>>>>, <<<<"a", " ", "b">>, <<"c">>>>}}

Simple == {Par(x), Par(<<"1">>), All("@"), All("*"), LengthOf(x), Par(<<"#">>), Sub(<<"a", " ", "c">>, FALSE)}
Inner == Simple \cup {Lit(<<"a">>), Lit(<<" ">>)}
Operand == {<<>>, <<Lit(<<"a", " ">>), Par(y)>>, <<Dq(<<Par(y)>>)>>, <<Sq(<<"*">>)>>, <<Sub(<<"c">>, FALSE)>>, <<Esc("}")>>}
CutPatterns == {<<Lit(<<"*">>)>>, <<Sq(<<"*">>)>>, <<Lit(<<"*">>), Lit(<<" ">>)>>, <<Lit(<<"a", "?">>)>>, <<Dq(<<Par(x)>>)>>,
            <<Par(x)>>, <<Use(<<"w">>, <<"=">>, <<Lit(<<"b">>)>>)>>}
Single1 ==
  Simple
  \cup {Lit(<<"a">>), Lit(<<"*">>), Sq(<<"a", " ">>), Sq(<<>>), Esc(" "), Esc("*"), Home}
  \cup {Dq(<<>>)} \cup {Dq(<<p>>) : p \in Inner} \cup {Dq(<<p, q>>) : p \in Inner, q \in {Par(x), Lit(<<" ">>)}}
  \cup {Use(x, op, ps) : op \in {<<"-">>, <<":", "-">>, <<":", "=">>, <<"+">>, <<":", "+">>, <<"=">>, <<"?">>}, ps \in Operand}
  \cup {Dq(<<Use(x, op, ps)>>) : op \in {<<"-">>, <<":", "-">>, <<":", "=">>, <<"+">>},
                                 ps \in {<<Lit(<<"a">>)>>, <<>>, <<Par(y), Lit(<<" ">>)>>}}
  \cup {Cut(x, op, ps) : op \in {<<"#">>, <<"#", "#">>, <<"%">>, <<"%", "%">>}, ps \in CutPatterns}
  \cup {Sub(<<"c">>, TRUE), Sub(<<"c", "$", "x">>, TRUE), Sub(<<"c", Single, ")", Single>>, FALSE)}
  \cup {Sum(Bin(<<"+">>, Num(1), Var(z))), Sum(Set(z, <<"+">>, Num(2)))}
MCLines ==
  {<<<<p>>>> : p \in Single1} \cup {<<<<p>>, <<Lit(<<"a">>), Par(x)>>>> : p \in Single1}
  \cup {<<<<p, q>>>> : p \in {Par(x), Lit(<<"a">>), All("@"), Dq(<<All("@")>>), Use(x, <<":", "=">>, <<Par(y)>>)},
                       q \in {Par(x), All("*"), Dq(<<All("@")>>), Lit(<<"*">>), Dq(<<>>), Cut(x, <<"#">>, <<Lit(<<"?">>)>>)}}

Leaves == {Num(2), Num(0), Var(x), Var(z)}
SumOperators == UNION {Precedence[k] : k \in DOMAIN Precedence}
Shifts == {<<"<", "<">>, <<">", ">">>}
Small ==
  Leaves \cup {Neg(Num(2))}
  \cup {Bin(op, l, r) : op \in SumOperators \ Shifts, l \in {Num(3), Var(z)}, r \in {Num(2), Var(x)}}
  \cup {Bin(op, l, Num(2)) : op \in Shifts, l \in {Num(3), Var(x)}}
  \cup {Set(z, op, e) : op \in {<<>>, <<"+">>, <<"/">>}, e \in {Num(2), Var(x)}} \cup {Set(z, <<"<", "<">>, Num(2))}
  \cup {Step(z, by, before) : by \in {1, -1}, before \in BOOLEAN}
  \cup {If(Var(x), Num(1), Var(z))}
Few == Leaves \cup {Bin(op, Var(z), Var(x)) : op \in SumOperators \ Shifts}
       \cup {Neg(Var(x)), Set(z, <<>>, Num(2)), Step(z, 1, FALSE), If(Var(x), Var(z), Num(2))}
MCSums ==
  Small
  \cup {Bin(op, l, r) : op \in {<<"+">>, <<"-">>, <<"*">>, <<"<">>, <<"&", "&">>, <<"|">>, <<"/">>}, l \in Small, r \in Few}
  \cup {Bin(op, l, Num(1)) : op \in Shifts, l \in Small}
  \cup {If(c, t, e) : c \in Small, t \in Leaves, e \in {Num(2), Set(z, <<>>, Num(1)), Bin(<<"|", "|">>, Var(x), Num(0))}}
  \cup {Neg(e) : e \in Small} \cup {Set(x, op, e) : op \in {<<>>, <<"-">>}, e \in Small}

Usual == CHOOSE s \in Shells : x \notin DOMAIN s.vars /\ s.params = <<>>
Nothing == [k |-> "none"]

\* Where the code is known to leave the reference alone: see README.
Excepted(line, shell) ==
  \/ \E i \in DOMAIN line : Miscounted(line[i])
  \/ Arguments2(line, shell).drops

Starts == Shells \cup {[Usual EXCEPT !.vars = (x :> text) @@ @] : text \in {<<"5">>, <<>>, SumSource(Stored1)}}
Singles == {line \in MCLines : Len(line) = 1}
Subjects == {<<"a">>, <<"*">>, <<"b", "z">>}
Bodies1 == Simple \cup {Lit(<<" ", "*">>), Sub(<<"c">>, TRUE), Sum(Set(z, <<"+">>, Num(2)))}
Typed(line) == JoinedWith([i \in DOMAIN line |-> Texts(line[i])], <<" ">>)

\* The words of a command, from the line that was typed.
RECURSIVE ExpandAll(_, _)
ExpandAll(shell, words) ==
  IF words = <<>> THEN [sh |-> shell, error |-> FALSE, out |-> <<>>]
  ELSE LET first == shExpandWord(shell, words[1])
           rest == ExpandAll(first.sh, Tail(words))
       IN IF first.error THEN [sh |-> first.sh, error |-> TRUE, out |-> <<>>]
          ELSE [rest EXCEPT !.out = first.out \o @]

ExpandInit == sh \in Starts /\ tried = Nothing
Words == \E line \in MCLines : tried' = [k |-> "words", line |-> line]
One == \E line \in Singles : tried' = [k |-> "one", line |-> line]
Match == \E line \in Singles, string \in Subjects : tried' = [k |-> "match", line |-> line, string |-> string]
Document == \E p \in Bodies1 : tried' = [k |-> "doc", ps |-> <<p, p>>]
Evaluate1 == /\ sh.params = <<>> /\ x \in DOMAIN sh.vars /\ sh.vars[x] \in {<<"5">>, <<>>, SumSource(Stored1)}
             /\ IFS \notin DOMAIN sh.vars
             /\ \E e \in MCSums : tried' = [k |-> "sum", e |-> e]

ExpandNext == tried = Nothing /\ UNCHANGED sh /\ (Words \/ One \/ Match \/ Document \/ Evaluate1)

\* A result is what the parts of a word stand for, where these stand for anything.
SameResult(r, wanted) ==
  \/ Broken(wanted.p)
  \/ r.sh = wanted.sh /\ r.error = wanted.error /\ (~r.error => r.text = Plain(wanted.p))

\* The words of a command, which its line is split into, give the arguments that their parts stand for.
AsWords(shell, line) ==
  LET r == ExpandAll(shell, WordsFrom(Typed(line), 1))
      wanted == Arguments2(line, shell)
  IN Excepted(line, shell) \/ r = [sh |-> wanted.sh, error |-> wanted.error, out |-> wanted.out]
\* The value of an assignment, the subject of a case, the target of a redirection.
AsOne(shell, word) ==
  Miscounted(word) \/ SameResult(shExpandWordSingle(shell, scanWord(Texts(word), 1, TRUE).buf), Parts(word, FALSE, shell))
\* A pattern of a case.
AsPattern(shell, word, string) ==
  LET r == shExpandPattern(shell, scanWord(Texts(word), 1, TRUE).buf)
      wanted == Parts(word, FALSE, shell)
  IN \/ Miscounted(word) \/ word[1] = Home \/ Broken(wanted.p)
     \/ /\ r.sh = wanted.sh /\ r.error = wanted.error
        /\ ~r.error => shPatternMatch(r.pattern, string) = fnmatch(PatternOf(wanted.p), string)
\* A here-document that is not quoted.
AsDocument(shell, ps) == SameResult(shExpandHereDocument(shell, Texts(ps)), Parts(ps, TRUE, shell))

ExpandsAsWritten ==
  [][CASE tried'.k = "words" -> AsWords(sh, tried'.line)
       [] tried'.k = "one" -> AsOne(sh, tried'.line[1])
       [] tried'.k = "match" -> AsPattern(sh, tried'.line[1], tried'.string)
       [] tried'.k = "doc" -> AsDocument(sh, tried'.ps)
       [] OTHER -> TRUE]_expandVars

AsInC(shell, e) ==
  LET r == shArithEval(shell, SumSource(e))
      wanted == Meaning(e, shell.vars)
  IN Careful(e) =>
       /\ r.error = wanted.error
       /\ ~r.error => r.v = wanted.v /\ r.sh = [shell EXCEPT !.vars = wanted.vars]
SumsAsInC == [][tried'.k = "sum" => AsInC(sh, tried'.e)]_expandVars

-----------------------------------------------------------------------------
(* The four parts.                                                         *)

VARIABLE part   \* the part that moves
redirected == <<fds, commands, begun>>

MCValues == {"", "a"}
MCEnvironment == [Names -> {"a"}]
MCArgLists == {<<>>, <<"a">>}

VarsRest == Init /\ params = <<>> /\ ~interactive
ParseRest == script = <<>> /\ given = "not"
ExpandRest == sh = Nothing /\ tried = Nothing

ShellInit ==
    /\ RedirInit
    /\ \/ part = "variables" /\ Init /\ ParseRest /\ ExpandRest
       \/ part = "redirections" /\ VarsRest /\ ParseRest /\ ExpandRest
       \/ part = "language" /\ VarsRest /\ ParseInit /\ ExpandRest
       \/ part = "expansion" /\ VarsRest /\ ParseRest /\ ExpandInit

ShellNext ==
    /\ UNCHANGED part
    /\ \/ part = "variables" /\ Next /\ UNCHANGED <<redirected, parseVars, expandVars>>
       \/ part = "redirections" /\ RedirNext /\ UNCHANGED <<vars, parseVars, expandVars>>
       \/ part = "language" /\ ParseNext /\ UNCHANGED <<vars, redirected, expandVars>>
       \/ part = "expansion" /\ ExpandNext /\ UNCHANGED <<vars, redirected, parseVars>>

ShellSpec == ShellInit /\ [][ShellNext]_<<vars, part, redirected, parseVars, expandVars>>
=============================================================================
