------------------------------ MODULE MCShFlow ------------------------------
(***************************************************************************)
(* ShFlow for TLC: a family of small scripts that put every jump into      *)
(* every construct, run with a signal that arrives at any step, and a      *)
(* reference that says what such a script prints and returns.              *)
(***************************************************************************)
EXTENDS ShFlow

TrapMark == 1000      \* what the trap action of the signal prints

-----------------------------------------------------------------------------
(* Trees.                                                                  *)

Pipe(c) == [t |-> "pipe", negated |-> FALSE, cmd |-> c]
Not(c) == [t |-> "pipe", negated |-> TRUE, cmd |-> c]
Cmd(op, n) == Pipe([t |-> "simple", op |-> op, n |-> n])
Echo(n) == Cmd("echo", n)
Report == Cmd("report", 0)
More == Cmd("more", 0)
True == Cmd("status", 0)
False == Cmd("status", 1)
Fails == Cmd("status", 7)
Break(n) == Cmd("break", n)
Continue(n) == Cmd("continue", n)
Exit(n) == Cmd("exit", n)
Return(n) == Cmd("return", n)

List2(a, conn, b) ==
    [t |-> "logical", pipelines |-> <<a, b>>, connectors |-> <<"AND", conn>>]
List3(a, x, b, y, c) ==
    [t |-> "logical", pipelines |-> <<a, b, c>>, connectors |-> <<"AND", x, y>>]
Group(body) == Pipe([t |-> "group", body |-> body])
Sub(body) == Pipe([t |-> "subshell", body |-> body])
Fun(body) == Pipe([t |-> "call", body |-> body])
Case(body) == Pipe([t |-> "case", matches |-> TRUE, body |-> body])
NoCase == Pipe([t |-> "case", matches |-> FALSE, body |-> <<Echo(9)>>])
If(cond, then, else) == Pipe([t |-> "if", cond |-> cond, then |-> then, else |-> else])
For(n, body) == Pipe([t |-> "loop", kind |-> "for", n |-> n, cond |-> True, body |-> body])
While(cond, body) == Pipe([t |-> "loop", kind |-> "while", n |-> 0, cond |-> cond, body |-> body])
Until(cond, body) == Pipe([t |-> "loop", kind |-> "until", n |-> 0, cond |-> cond, body |-> body])

-----------------------------------------------------------------------------
(* The reference: what POSIX says a script does, by recursion on its tree. *)
(* jump is the break, continue, return or exit under way, e whether a      *)
(* failure ends the shell here.                                            *)

RECURSIVE Does(_, _, _), DoesList(_, _, _), Turns(_, _, _, _, _), Elements(_, _, _, _)

Fatal(st, e) ==
    IF e /\ st.last # 0 /\ st.jump = "" THEN [st EXCEPT !.jump = "exit"] ELSE st

With(st, status) == [st EXCEPT !.last = status]

DoesList(list, st, e) ==
    IF list = <<>> \/ st.jump # "" THEN st
    ELSE DoesList(Tail(list), Does(Head(list), st, e), e)

Elements(c, i, st, e) ==
    IF i > Len(c.pipelines) \/ st.jump # "" THEN st
    ELSE IF i > 1 /\ (c.connectors[i] = "AND") # (st.last = 0) THEN Elements(c, i + 1, st, e)
    ELSE Elements(c, i + 1, Does(c.pipelines[i], st, e /\ i = Len(c.pipelines)), e)

\* left: the values a for loop still has; last: the status of the last body.
Turns(c, left, last, st, e) ==
    LET test == IF c.kind = "for" THEN st ELSE Does(c.cond, st, FALSE)
        more == IF c.kind = "for" THEN left > 0
                ELSE IF c.kind = "while" THEN test.last = 0 ELSE test.last # 0
        body == DoesList(c.body, test, e)
    IN  IF test.jump # "" THEN test
        ELSE IF ~more THEN With(test, last)
        ELSE IF body.jump \in {"break", "continue"} /\ body.n > 1 THEN [body EXCEPT !.n = @ - 1]
        ELSE IF body.jump = "break" THEN [body EXCEPT !.jump = ""]
        ELSE IF body.jump \in {"return", "exit"} THEN body
        ELSE Turns(c, left - 1, body.last, [body EXCEPT !.jump = ""], e)

Does(c, st, e) ==
    CASE c.t = "pipe" ->
            LET r == Does(c.cmd, st, e /\ ~c.negated)
            IN  IF c.negated /\ r.jump = "" THEN With(r, IF r.last = 0 THEN 1 ELSE 0) ELSE r
      [] c.t = "logical" -> Elements(c, 1, st, e)
      [] c.t = "simple" /\ c.op = "status" -> Fatal(With(st, c.n), e)
      [] c.t = "simple" /\ c.op = "more" ->
            Fatal([With(st, IF st.fuel > 0 THEN 0 ELSE 1) EXCEPT
                    !.fuel = IF st.fuel > 0 THEN @ - 1 ELSE 0], e)
      [] c.t = "simple" /\ c.op = "echo" -> [With(st, 0) EXCEPT !.out = Append(@, c.n)]
      [] c.t = "simple" /\ c.op = "report" -> [With(st, 0) EXCEPT !.out = Append(@, st.last)]
      [] c.t = "simple" /\ c.op \in {"break", "continue"} ->
            [With(st, 0) EXCEPT !.jump = c.op, !.n = c.n]
      [] c.t = "simple" /\ c.op \in {"return", "exit"} ->
            [With(st, IF c.n = NoArg THEN st.last ELSE c.n) EXCEPT !.jump = c.op]
      [] c.t = "group" -> DoesList(c.body, st, e)
      [] c.t = "case" -> IF c.matches THEN DoesList(c.body, st, e) ELSE With(st, 0)
      [] c.t = "call" ->
            LET r == DoesList(c.body, st, e)
            IN  Fatal([r EXCEPT !.jump = IF @ = "return" THEN "" ELSE @], e)
      [] c.t = "subshell" ->
            LET r == DoesList(c.body, st, e)
            IN  Fatal([st EXCEPT !.out = r.out, !.last = r.last], e)
      [] c.t = "if" ->
            LET r == Does(c.cond, st, FALSE)
            IN  IF r.jump # "" THEN r
                ELSE IF r.last = 0 THEN DoesList(c.then, r, e)
                ELSE IF c.else # <<>> THEN DoesList(c.else, r, e)
                ELSE With(r, 0)
      [] c.t = "loop" -> Turns(c, c.n, 0, st, e)

Reference(sc) ==
    LET r == DoesList(sc.list, [out |-> <<>>, fuel |-> sc.fuel, last |-> 0, jump |-> "", n |-> 0],
                      sc.errexit)
    IN  [out |-> IF sc.exit_trap # <<>> THEN Append(r.out, ExitMark) ELSE r.out,
         status |-> r.last]

Unmarked(s) == SelectSeq(s, LAMBDA x : x # TrapMark)

\* Whatever way the jumps, the statuses and set -e take through the C functions,
\* and whenever a signal arrives: apart from what the trap action itself prints,
\* the script prints and returns what the reference says.
MatchesReference ==
    Ended /\ ~script.trap_exits =>
        /\ Unmarked(out) = Reference(script).out
        /\ sh[1].ret = Reference(script).status

-----------------------------------------------------------------------------
(* The scripts.                                                            *)

Script(list, errexit, trap, exit_trap) ==
    [list |-> list, errexit |-> errexit, trap |-> trap, exit_trap |-> exit_trap,
     fuel |-> 2, finite |-> TRUE, jumps |-> FALSE, trap_exits |-> FALSE]

\* The action leaves a status of its own behind; set -e would stop at a failure.
LogTrap(e) == <<Echo(TrapMark), IF e THEN If(Fails, <<>>, <<>>) ELSE Fails>>
Jumps == {Break(1), Break(2), Continue(1), Continue(2), Return(3), Return(NoArg), Exit(2)}

\* Plain, after a test, in the branch of an if, in a group, a case, a subshell.
Placed(j) ==
    {j, List2(More, "AND", j), List3(False, "AND", Echo(6), "OR", j),
     If(More, <<Echo(4), j>>, <<Fails>>), Group(<<Fails, j, Echo(5)>>), Case(<<j>>)}

\* A loop around a jump, and two around it, the inner one of each kind.
OneLoop(x) == For(2, <<Echo(1), x, Echo(2)>>)
TwoLoops(x) ==
    {For(2, <<l, Report>>) : l \in {For(2, <<x, Echo(1)>>),
                                    While(More, <<x, Echo(2)>>),
                                    Until(Not(More.cmd), <<Echo(3), x>>)}}

JumpScripts ==
    {Script(<<Fun(<<l, Echo(8)>>), Report>>, FALSE, LogTrap(FALSE), <<>>) :
        l \in UNION {{OneLoop(x) : x \in Placed(j)} : j \in Jumps \ {Break(2), Continue(2)}}
             \cup UNION {UNION {TwoLoops(x) : x \in Placed(j)} : j \in Jumps}}

\* Subshells: jumps in them stay in them, and so do changes of the fuel.
SubshellScripts ==
    {Script(<<Fun(<<For(2, <<Sub(<<x, Echo(1)>>), Report>>)>>), More, Report>>, e, LogTrap(e), <<>>) :
        x \in {Fails, Exit(2), Return(3), More, Sub(<<Exit(NoArg)>>)}, e \in BOOLEAN}

\* Under set -e, without and-or lists and "!".
ErrexitBodies == {False, Fails, True, Return(3), Break(1), If(False, <<Echo(1)>>, <<>>)}
ErrexitScripts ==
    {Script(<<w, Report>>, TRUE, LogTrap(TRUE), <<>>) :
        w \in UNION {{x, Group(<<x, Echo(1)>>), Fun(<<x, Echo(1)>>), Case(<<x>>), Sub(<<x>>),
                      If(x, <<Echo(1)>>, <<Echo(2)>>), If(Group(<<x, Echo(3)>>), <<Echo(1)>>, <<>>),
                      If(Fun(<<x, Echo(3)>>), <<x>>, <<Echo(2), x>>), While(x, <<Break(1)>>),
                      Until(x, <<x, Break(1)>>), For(2, <<x, Echo(1)>>),
                      If(Sub(<<x, Echo(4)>>), <<NoCase>>, <<Report>>),
                      While(Group(<<x, More>>), <<If(x, <<Echo(1)>>, <<x>>), Report>>)}
                    : x \in ErrexitBodies \ {Return(3), Break(1)}}
             \cup {Fun(<<x>>) : x \in {Return(3), For(2, <<Break(1)>>), If(Return(3), <<>>, <<Echo(1)>>)}}}

\* The EXIT trap of a script that comes to its last line.
ExitTrapScripts ==
    {Script(<<l, Echo(8), Fails>>, FALSE, LogTrap(FALSE), <<Echo(ExitMark)>>) :
        l \in {Fun(<<Return(3)>>), For(2, <<Break(1)>>), Group(<<>>)}}

\* A loop for ever, and a trap that ends it.
Jumping == {While(True, <<For(2, <<Continue(2)>>)>>), While(True, <<Continue(1)>>)}
EndlessScripts ==
    {[Script(<<l>>, FALSE, <<Echo(TrapMark), t, Echo(7)>>, <<>>) EXCEPT
        !.finite = FALSE, !.trap_exits = t # True, !.jumps = l \in Jumping] :
        l \in Jumping \cup {While(True, <<For(2, <<Break(1)>>)>>), Until(False, <<If(True, <<True>>, <<>>)>>),
               Fun(<<While(True, <<Group(<<True>>)>>)>>),
               While(True, <<Sub(<<True>>)>>)},
        t \in {Exit(3), True}}

TrapExitScripts ==
    {[Script(<<For(2, <<Sub(<<Echo(1)>>), Fun(<<Echo(2)>>)>>)>>, e, <<t>>, <<>>) EXCEPT !.trap_exits = TRUE] :
        t \in {Exit(3), Exit(NoArg), If(False, <<>>, <<Exit(4)>>)}, e \in BOOLEAN}

\* Trap actions with loops and functions of their own, also above a waitpid.
TrapLoopScripts ==
    {Script(<<Fun(<<For(2, <<Sub(<<Echo(1)>>), Report>>)>>), Report>>, e, <<t>>, <<>>) :
        t \in {For(1, <<Fun(<<Echo(TrapMark), Return(0)>>)>>), For(2, <<Echo(TrapMark), Break(1)>>)}, e \in BOOLEAN}

MCScripts ==
    JumpScripts \cup SubshellScripts \cup ErrexitScripts \cup ExitTrapScripts \cup EndlessScripts
        \cup TrapExitScripts \cup TrapLoopScripts

\* set -e with and-or lists, for the run that shows where it fires too early.
AndOrScripts ==
    {Script(<<List2(a, conn, b), Echo(1)>>, TRUE, <<>>, <<>>) :
        a \in {True, False, Fun(<<Fails>>)}, b \in {True, False}, conn \in {"AND", "OR"}}

\* EXIT traps in scripts that exit, and that have subshells.
LeavingScripts ==
    {Script(<<l, Echo(8)>>, FALSE, <<>>, <<Echo(ExitMark)>>) :
        l \in {Exit(3), Fun(<<Exit(0)>>), Sub(<<True>>), For(2, <<Exit(1)>>), True}}

-----------------------------------------------------------------------------
(* The commands of the scripts, with where they stand.                     *)

RECURSIVE NodesOf(_, _, _)
NodesOfList(list, l, g) == UNION {NodesOf(list[i], l, g) : i \in 1 .. Len(list)}
NodesOf(c, l, g) ==
    {[c |-> c, loops |-> l, in_function |-> g]} \cup
        (CASE c.t = "simple" -> {}
           [] c.t = "pipe" -> NodesOf(c.cmd, l, g)
           [] c.t = "logical" -> NodesOfList(c.pipelines, l, g)
           [] c.t = "call" -> NodesOfList(c.body, l, TRUE)
           [] c.t = "if" -> NodesOfList(<<c.cond>> \o c.then \o c.else, l, g)
           [] c.t = "loop" -> NodesOf(c.cond, l, g) \cup NodesOfList(c.body, l + 1, g)
           [] OTHER -> NodesOfList(c.body, l, g))

NodesOfScripts(scripts) ==
    UNION {NodesOfList(sc.list \o sc.trap \o sc.exit_trap, 0, FALSE) : sc \in scripts}

MCNodes == NodesOfScripts(MCScripts)
AndOrNodes == NodesOfScripts(AndOrScripts)
LeavingNodes == NodesOfScripts(LeavingScripts)
=============================================================================
