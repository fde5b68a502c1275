------------------------------- MODULE ShFlow -------------------------------
(***************************************************************************)
(* How the shell (src/src/shell/sh_exec.c) walks the tree of a script: the *)
(* C functions shRunProgram, shRunCommand, runLogical, runPipeline,        *)
(* runLoop, runConditional, runCase, callFunction and runSimpleCommand     *)
(* call each other recursively and talk through the fields of ShInterp:    *)
(* flow (a pending break, continue, return or exit), flow_count,           *)
(* exit_status, last_status and opt_errexit.  Signals arrive at any        *)
(* moment; their trap actions run between commands and inside waitpid.     *)
(*                                                                         *)
(* A process is the record of its ShInterp and of its C stack, the frame   *)
(* on top first: "call" says that the function on top is about to begin,   *)
(* "back" that the function it called returned ret.  ( ... ) forks: sh is  *)
(* the chain of processes, each waiting in waitpid for the next.           *)
(*                                                                         *)
(* The tree: a list is a sequence of commands; a command is a record with  *)
(* its type in t.  The parser wraps every command of a list into a         *)
(* pipeline ("pipe") or an and-or list of pipelines ("logical").  Pipelines *)
(* of several commands and "&" are in ShTerminal and ShJobs.               *)
(***************************************************************************)
EXTENDS Integers, Sequences, FiniteSets

CONSTANTS
    Scripts,      \* what the shell is given: a list, whether -e is on, the trap actions
                  \* (lists; none is <<>>), how often the command "more" succeeds (fuel),
                  \* and whether its loops end (finite) or jump at every turn (jumps)
                  \* and its trap action exits (trap_exits)
    Nodes,        \* every command of the scripts, with the number of loops it stands in
                  \* and whether it stands in a function
    MaxProcesses, \* depth of nested subshells, plus one
    MaxSignals    \* how many signals arrive

VARIABLES
    script,       \* the script that runs
    sh,           \* the chain of shell processes
    out,          \* what they wrote to standard output
    signals       \* how many signals have arrived

vars == <<script, sh, out, signals>>

NoArg == 256      \* exit and return without an argument
ExitMark == 1001  \* what the action of the EXIT trap prints, in the scripts that have one

-----------------------------------------------------------------------------
(* The trees.                                                              *)

Trees == {node.c : node \in Nodes}
Places == {<<node.c, node.loops, node.in_function>> : node \in Nodes}

Stands(c, loops, in_function) == <<c, loops, in_function>> \in Places

IsList(list, loops, in_function) ==
    /\ list \in Seq(Trees)
    /\ \A i \in 1 .. Len(list) : Stands(list[i], loops, in_function)

\* What the parser builds; a break or continue asks for no more loops than it stands
\* in, and a return stands in a function.
Legal(c, loops, in_function) ==
    /\ c.t \in {"simple", "call", "pipe", "logical", "group", "subshell", "case", "if", "loop"}
    /\ c.t = "simple" =>
        /\ c.op = "status" => c.n \in 0 .. 255
        /\ c.op \in {"return", "exit"} => c.n \in 0 .. 255 \cup {NoArg}
        /\ c.op \in {"break", "continue"} => c.n \in 1 .. loops
        /\ c.op = "return" => in_function
    /\ c.t = "pipe" => c.negated \in BOOLEAN /\ Stands(c.cmd, loops, in_function)
    /\ c.t = "logical" =>
        /\ IsList(c.pipelines, loops, in_function) /\ c.pipelines # <<>>
        /\ \A i \in 1 .. Len(c.pipelines) : c.pipelines[i].t = "pipe"
    /\ c.t \in {"group", "subshell", "case"} => IsList(c.body, loops, in_function)
    /\ c.t = "call" => IsList(c.body, loops, TRUE)
    /\ c.t = "if" =>
        /\ Stands(c.cond, loops, in_function)
        /\ IsList(c.then, loops, in_function) /\ IsList(c.else, loops, in_function)
    /\ c.t = "loop" =>
        c.n \in Nat /\ Stands(c.cond, loops, in_function) /\ IsList(c.body, loops + 1, in_function)

ASSUME ScriptsAssumption ==
    /\ \A node \in Nodes :
        /\ node.loops \in Nat /\ node.in_function \in BOOLEAN
        /\ Legal(node.c, node.loops, node.in_function)
    /\ \A sc \in Scripts :
        /\ IsList(sc.list, 0, FALSE) /\ IsList(sc.trap, 0, FALSE) /\ IsList(sc.exit_trap, 0, FALSE)
        /\ sc.errexit \in BOOLEAN /\ sc.fuel \in Nat
    /\ MaxProcesses \in Nat \ {0} /\ MaxSignals \in Nat

-----------------------------------------------------------------------------
(* Frames.                                                                 *)

ProgramFrame(list) == [k |-> "program", list |-> list, i |-> 1, st |-> 0, at |-> "command"]
CommandFrame(c) == [k |-> "command", c |-> c]
PipelineFrame(c) == [k |-> "pipeline", negated |-> c.negated]
BodyFrame(exempt) == [k |-> "body", exempt |-> exempt]
LogicalFrame(c, saved) == [k |-> "logical", c |-> c, i |-> 1, st |-> 0, saved |-> saved]
ConditionFrame(c, saved) == [k |-> "condition", c |-> c, saved |-> saved]
LoopFrame(c, saved) == [k |-> "loop", c |-> c, at |-> "start", left |-> c.n, st |-> 0, saved |-> saved]
FunctionFrame == [k |-> "function"]
WaitFrame == [k |-> "waitpid"]
TrapFrame(saved) == [k |-> "trap", saved |-> saved]
MainFrame == [k |-> "main", at |-> "body", st |-> 0]

Process(list, s) ==
    [s EXCEPT !.stack = <<ProgramFrame(list), MainFrame>>, !.mode = "call"]

Shell(sc) ==
    Process(sc.list,
        [stack |-> <<>>, mode |-> "call", ret |-> 0, flow |-> "NONE", flow_count |-> 0,
         exit_status |-> 0, last_status |-> 0, opt_errexit |-> sc.errexit,
         loop_depth |-> 0, func_depth |-> 0, pending |-> FALSE,
         exit_trap |-> sc.exit_trap # <<>>, fuel |-> sc.fuel])

Top(s) == Head(s.stack)
Call(s, f) == [s EXCEPT !.stack = <<f>> \o @, !.mode = "call"]
Become(s, f) == [s EXCEPT !.stack = <<f>> \o Tail(@)]
Leave(s, status) == [s EXCEPT !.stack = Tail(@), !.mode = "back", !.ret = status]

flowInterrupts(s) == s.flow # "NONE"

\* The end of shRunCommand: the status, and set -e.
EndCommand(s, exempt, status) ==
    LET fires == s.opt_errexit /\ status # 0 /\ s.flow = "NONE" /\ ~exempt
    IN  [Leave(s, status) EXCEPT
            !.last_status = status,
            !.flow = IF fires THEN "EXIT" ELSE @,
            !.exit_status = IF fires THEN status ELSE @]

-----------------------------------------------------------------------------
(* shRunPendingTraps, and the list of commands of shRunProgram.            *)

RunTrap(s) ==
    [Call(Call(s, TrapFrame(s.last_status)), ProgramFrame(script.trap)) EXCEPT !.pending = FALSE]

EndTrap(s) == [Leave(s, s.ret) EXCEPT !.last_status = Top(s).saved]

NextCommand(s, status) ==
    LET f == Top(s)
    IN  IF f.i = Len(f.list) THEN Leave(s, status)
        ELSE Call(Become(s, [f EXCEPT !.i = f.i + 1, !.at = "command"]), CommandFrame(f.list[f.i + 1]))

\* Slip: the traps wait until the loops are left.
ProgramBackLate(s) ==
    LET f == Top(s)
        status == IF f.at = "command" THEN s.ret ELSE f.st
    IN  CASE flowInterrupts(s) -> Leave(s, status)
          [] ~flowInterrupts(s) /\ f.at = "command" /\ s.pending /\ f.i = Len(f.list) /\ s.loop_depth = 0 ->
                RunTrap(Become(s, [f EXCEPT !.at = "trap", !.st = status]))
          [] OTHER -> NextCommand(s, status)

\* A trap action runs between two commands, when no jump is under way.
ProgramBack(s) ==
    LET f == Top(s)
        status == IF f.at = "command" THEN s.ret ELSE f.st
    IN  CASE flowInterrupts(s) -> Leave(s, status)
          [] ~flowInterrupts(s) /\ f.at = "command" /\ s.pending ->
                RunTrap(Become(s, [f EXCEPT !.at = "trap", !.st = status]))
          [] OTHER -> NextCommand(s, status)

shRunProgram(s) ==
    IF s.mode = "back" THEN ProgramBack(s)
    ELSE IF Top(s).list = <<>> THEN Leave(s, s.last_status)
    ELSE Call(s, CommandFrame(Top(s).list[1]))

-----------------------------------------------------------------------------
(* Simple commands: what the builtins of sh_builtins.c do to the flow.     *)

Status(s, c) ==
    CASE c.op = "status" -> c.n
      [] c.op = "more" -> IF s.fuel > 0 THEN 0 ELSE 1
      [] c.op \in {"return", "exit"} -> IF c.n = NoArg THEN s.last_status ELSE c.n
      [] OTHER -> 0

\* break and continue outside a loop do nothing.
Flow(s, c) ==
    CASE c.op = "break" /\ s.loop_depth > 0 -> "BREAK"
      [] c.op = "continue" /\ s.loop_depth > 0 -> "CONTINUE"
      [] c.op = "return" -> "RETURN"
      [] c.op = "exit" -> "EXIT"
      [] OTHER -> "NONE"

\* A simple command that finds a pending flow does nothing at all.
runSimpleCommand(s, c) ==
    IF flowInterrupts(s) THEN EndCommand(s, FALSE, s.last_status)
    ELSE EndCommand(
            [s EXCEPT !.flow = Flow(s, c),
                      !.flow_count = IF Flow(s, c) \in {"BREAK", "CONTINUE"} THEN c.n ELSE @,
                      !.exit_status = IF Flow(s, c) \in {"RETURN", "EXIT"} THEN Status(s, c) ELSE @,
                      !.fuel = IF c.op = "more" /\ @ > 0 THEN @ - 1 ELSE @],
            FALSE, Status(s, c))

\* echo n, and echo $?
Output(s, c) ==
    CASE flowInterrupts(s) -> <<>>
      [] ~flowInterrupts(s) /\ c.op = "echo" -> <<c.n>>
      [] ~flowInterrupts(s) /\ c.op = "report" -> <<s.last_status>>
      [] OTHER -> <<>>

\* A simple command that names a function; a pending flow is found while its name is expanded.
callFunction(s, c) ==
    IF flowInterrupts(s) THEN EndCommand(s, FALSE, s.last_status)
    ELSE [Call(Become(s, FunctionFrame), ProgramFrame(c.body)) EXCEPT !.func_depth = @ + 1]

\* Slip: the return is not taken back.
EndFunctionKeeping(s) ==
    EndCommand([s EXCEPT !.func_depth = @ - 1], FALSE, s.ret)

EndFunction(s) ==
    LET returned == s.flow = "RETURN"
    IN  EndCommand([s EXCEPT !.func_depth = @ - 1, !.flow = IF returned THEN "NONE" ELSE @],
                   FALSE, IF returned THEN s.exit_status ELSE s.ret)

-----------------------------------------------------------------------------
(* Pipelines of one command, and and-or lists.                             *)

EndPipeline(s) ==
    LET negated == Top(s).negated
    IN  EndCommand(s, negated, IF negated THEN (IF s.ret = 0 THEN 1 ELSE 0) ELSE s.ret)

\* The elements the connectors skip: the next one that runs, or one past the last.
NextElement(c, i, status) ==
    CHOOSE j \in i + 1 .. Len(c.pipelines) + 1 :
        /\ j > Len(c.pipelines) \/ (c.connectors[j] = "AND" <=> status = 0)
        /\ \A k \in i + 1 .. j - 1 : ~(c.connectors[k] = "AND" <=> status = 0)

\* errexit is suppressed for all but the last element.
RunElement(s, f, i) ==
    [Call(Call(Become(s, [f EXCEPT !.i = i]), PipelineFrame(f.c.pipelines[i])),
          CommandFrame(f.c.pipelines[i].cmd))
        EXCEPT !.opt_errexit = f.saved /\ i = Len(f.c.pipelines)]

\* The wrapped pipeline is not a command of its own: set -e does not look at it.
EndElement(s) ==
    LET status == IF Top(s).negated THEN (IF s.ret = 0 THEN 1 ELSE 0) ELSE s.ret
    IN  [Leave(s, status) EXCEPT !.last_status = status]

EndLogical(s, status) ==
    EndCommand([s EXCEPT !.opt_errexit = Top(s).saved], FALSE, status)

LogicalBack(s) ==
    LET f == Top(s)
        next == NextElement(f.c, f.i, s.ret)
    IN  IF flowInterrupts(s) \/ next > Len(f.c.pipelines)
        THEN EndLogical(s, s.ret)
        ELSE RunElement(s, f, next)

-----------------------------------------------------------------------------
(* if, case and loops.                                                     *)

\* Slip: the condition's errexit is left switched off.
EndConditionKeeping(s) ==
    LET f == Top(s)
    IN  IF flowInterrupts(s) THEN EndCommand(s, TRUE, s.last_status)
        ELSE IF s.ret = 0 THEN Call(Become(s, BodyFrame(TRUE)), ProgramFrame(f.c.then))
        ELSE IF f.c.else # <<>> THEN Call(Become(s, BodyFrame(TRUE)), ProgramFrame(f.c.else))
        ELSE EndCommand(s, TRUE, 0)

EndCondition(s) ==
    LET f == Top(s)
        t == [s EXCEPT !.opt_errexit = f.saved]
    IN  CASE flowInterrupts(s) -> EndCommand(t, TRUE, s.last_status)
          [] ~flowInterrupts(s) /\ s.ret = 0 ->
                Call(Become(t, BodyFrame(TRUE)), ProgramFrame(f.c.then))
          [] ~flowInterrupts(s) /\ s.ret # 0 /\ f.c.else # <<>> ->
                Call(Become(t, BodyFrame(TRUE)), ProgramFrame(f.c.else))
          [] OTHER -> EndCommand(t, TRUE, 0)

runCase(s, c) ==
    IF c.matches THEN Call(Become(s, BodyFrame(FALSE)), ProgramFrame(c.body))
    ELSE EndCommand(s, FALSE, 0)

EndLoop(s, status) ==
    EndCommand([s EXCEPT !.loop_depth = @ - 1], TRUE, status)

\* The next turn: of a for loop its next value, of while and until the condition.
NextTurn(s, status) ==
    LET f == Top(s)
    IN  CASE f.c.kind = "for" /\ f.left = 0 -> EndLoop(s, status)
          [] f.c.kind = "for" /\ f.left > 0 ->
                Call(Become(s, [f EXCEPT !.at = "body", !.left = f.left - 1, !.st = status]),
                     ProgramFrame(f.c.body))
          [] OTHER ->
                [Call(Become(s, [f EXCEPT !.at = "condition", !.st = status, !.saved = s.opt_errexit]),
                      CommandFrame(f.c.cond))
                    EXCEPT !.opt_errexit = FALSE]

EndLoopCondition(s) ==
    LET f == Top(s)
        t == [s EXCEPT !.opt_errexit = f.saved]
        proceed == IF f.c.kind = "until" THEN s.ret # 0 ELSE s.ret = 0
    IN  IF flowInterrupts(s) \/ ~proceed THEN EndLoop(t, f.st)
        ELSE Call(Become(t, [f EXCEPT !.at = "body"]), ProgramFrame(f.c.body))

\* break and continue count the loops they still have to leave.
LeaveOne(s) ==
    [s EXCEPT !.flow_count = @ - 1, !.flow = IF s.flow_count - 1 <= 0 THEN "NONE" ELSE @]

\* Slip: continue n never leaves the loop it is in.
EndBodyStaying(s) ==
    CASE s.flow = "CONTINUE" -> NextTurn(LeaveOne(s), s.ret)
      [] s.flow = "BREAK" -> EndLoop(LeaveOne(s), s.ret)
      [] s.flow \in {"RETURN", "EXIT"} -> EndLoop(s, s.ret)
      [] OTHER -> NextTurn(s, s.ret)

EndBody(s) ==
    CASE s.flow = "CONTINUE" /\ s.flow_count <= 1 -> NextTurn(LeaveOne(s), s.ret)
      [] s.flow = "BREAK" \/ (s.flow = "CONTINUE" /\ s.flow_count > 1) -> EndLoop(LeaveOne(s), s.ret)
      [] s.flow \in {"RETURN", "EXIT"} -> EndLoop(s, s.ret)
      [] OTHER -> NextTurn(s, s.ret)

LoopBack(s) ==
    CASE s.mode = "call" -> NextTurn(s, 0)
      [] s.mode = "back" /\ Top(s).at = "condition" -> EndLoopCondition(s)
      [] OTHER -> EndBody(s)

-----------------------------------------------------------------------------
(* The dispatch of shRunCommand.                                           *)

shRunCommand(s, c) ==
    CASE c.t = "simple" -> runSimpleCommand(s, c)
      [] c.t = "call" -> callFunction(s, c)
      [] c.t = "pipe" -> Call(Become(s, PipelineFrame(c)), CommandFrame(c.cmd))
      [] c.t = "logical" -> RunElement(s, LogicalFrame(c, s.opt_errexit), 1)
      [] c.t = "group" -> Call(Become(s, BodyFrame(FALSE)), ProgramFrame(c.body))
      [] c.t = "case" -> runCase(s, c)
      [] c.t = "if" -> [Call(Become(s, ConditionFrame(c, s.opt_errexit)), CommandFrame(c.cond))
                            EXCEPT !.opt_errexit = FALSE]
      [] c.t = "loop" -> [Become(s, LoopFrame(c, s.opt_errexit)) EXCEPT !.loop_depth = @ + 1]

\* shMain after shRunString, and the forked child after shRunProgram:
\* the status, then the EXIT trap.
shRunExitTrap(s) ==
    LET f == Top(s)
        status == IF s.flow = "EXIT" THEN s.exit_status ELSE s.ret
    IN  IF f.at = "body" /\ s.exit_trap
        THEN [Call(Become(s, [f EXCEPT !.at = "exit trap", !.st = status]),
                   ProgramFrame(script.exit_trap)) EXCEPT !.exit_trap = FALSE]
        ELSE Leave(s, IF f.at = "body" THEN status ELSE f.st)

-----------------------------------------------------------------------------
(* One step of a process that is not blocked in waitpid.                   *)

Running(p) == p <= Len(sh) /\ sh[p].stack # <<>> /\ Top(sh[p]).k # "waitpid"

InElement(s) == Len(s.stack) > 1 /\ s.stack[2].k = "logical"

Becomes(p, s) ==
    /\ sh' = [sh EXCEPT ![p] = s]
    /\ UNCHANGED <<script, out, signals>>

Program(p) == Running(p) /\ Top(sh[p]).k = "program" /\ Becomes(p, shRunProgram(sh[p]))

Simple(p) ==
    /\ Running(p)
    /\ Top(sh[p]).k = "command" /\ Top(sh[p]).c.t = "simple"
    /\ sh' = [sh EXCEPT ![p] = shRunCommand(sh[p], Top(sh[p]).c)]
    /\ out' = out \o Output(sh[p], Top(sh[p]).c)
    /\ UNCHANGED <<script, signals>>

Compound(p) ==
    /\ Running(p)
    /\ Top(sh[p]).k = "command" /\ Top(sh[p]).c.t \notin {"simple", "subshell"}
    /\ Becomes(p, shRunCommand(sh[p], Top(sh[p]).c))

\* ( ... ): the child is a copy of the shell, traps and pending signals included.
Subshell(p) ==
    /\ Running(p)
    /\ Top(sh[p]).k = "command" /\ Top(sh[p]).c.t = "subshell"
    /\ p = Len(sh) /\ p < MaxProcesses
    /\ sh' = Append([sh EXCEPT ![p] = Become(sh[p], WaitFrame)],
                    Process(Top(sh[p]).c.body, sh[p]))
    /\ UNCHANGED <<script, out, signals>>

\* waitpid returns the child that ended.
Collect(p) ==
    /\ p + 1 = Len(sh) /\ sh[p + 1].stack = <<>>
    /\ Top(sh[p]).k = "waitpid"
    /\ sh' = [SubSeq(sh, 1, p) EXCEPT ![p] = EndCommand(sh[p], FALSE, sh[p + 1].ret)]
    /\ UNCHANGED <<script, out, signals>>

Pipeline(p) ==
    /\ Running(p) /\ Top(sh[p]).k = "pipeline"
    /\ Becomes(p, IF InElement(sh[p]) THEN EndElement(sh[p]) ELSE EndPipeline(sh[p]))

Logical(p) == Running(p) /\ Top(sh[p]).k = "logical" /\ Becomes(p, LogicalBack(sh[p]))

runConditional(p) == Running(p) /\ Top(sh[p]).k = "condition" /\ Becomes(p, EndCondition(sh[p]))

runLoop(p) == Running(p) /\ Top(sh[p]).k = "loop" /\ Becomes(p, LoopBack(sh[p]))

Body(p) ==
    /\ Running(p) /\ Top(sh[p]).k = "body"
    /\ Becomes(p, EndCommand(sh[p], Top(sh[p]).exempt, sh[p].ret))

Function(p) == Running(p) /\ Top(sh[p]).k = "function" /\ Becomes(p, EndFunction(sh[p]))

Trap(p) == Running(p) /\ Top(sh[p]).k = "trap" /\ Becomes(p, EndTrap(sh[p]))

Main(p) == Running(p) /\ Top(sh[p]).k = "main" /\ Becomes(p, shRunExitTrap(sh[p]))

Ended == Len(sh) = 1 /\ sh[1].stack = <<>>

-----------------------------------------------------------------------------
(* A signal with a trap action is sent to the shell itself.                *)

CanSignal ==
    /\ ~Ended
    /\ script.trap # <<>>
    /\ signals < MaxSignals
    /\ signals' = signals + 1
    /\ UNCHANGED <<script, out>>

\* shSignalHandler, anywhere (also just before waitpid begins to wait).
Signal ==
    /\ CanSignal
    /\ sh' = [sh EXCEPT ![1].pending = TRUE]

\* shSignalHandler while waitpid waits: EINTR, and the traps run at once.
SignalInWait ==
    /\ CanSignal
    /\ Len(sh) > 1 /\ sh[2].stack # <<>>
    /\ Top(sh[1]).k = "waitpid"
    /\ sh' = [sh EXCEPT ![1] = RunTrap(sh[1])]

-----------------------------------------------------------------------------
Init ==
    /\ script \in Scripts
    /\ sh = <<Shell(script)>>
    /\ out = <<>>
    /\ signals = 0

Run(p) ==
    \/ Program(p) \/ Simple(p) \/ Compound(p) \/ Subshell(p) \/ Collect(p) \/ Pipeline(p)
    \/ Logical(p) \/ runConditional(p) \/ runLoop(p) \/ Body(p) \/ Function(p) \/ Trap(p) \/ Main(p)

Done == Ended /\ UNCHANGED vars

Next == (\E p \in 1 .. MaxProcesses : Run(p)) \/ Signal \/ SignalInWait \/ Done

\* Every process of the chain is scheduled.
Spec == Init /\ [][Next]_vars /\ \A p \in 1 .. MaxProcesses : WF_vars(Run(p))

-----------------------------------------------------------------------------
(* Properties.                                                             *)

Flows == {"NONE", "BREAK", "CONTINUE", "RETURN", "EXIT"}
Kinds == {"program", "command", "pipeline", "body", "logical", "condition", "loop",
          "function", "waitpid", "trap", "main"}

\* The script never changes.
TypeOK ==
    /\ Len(sh) \in 1 .. MaxProcesses
    /\ \A p \in 1 .. Len(sh) :
        /\ \A i \in 1 .. Len(sh[p].stack) : sh[p].stack[i].k \in Kinds
        /\ sh[p].mode \in {"call", "back"}
        /\ sh[p].flow \in Flows
        /\ sh[p].flow_count \in Nat
        /\ {sh[p].ret, sh[p].exit_status, sh[p].last_status} \subseteq 0 .. 255
        /\ {sh[p].loop_depth, sh[p].func_depth, sh[p].fuel} \subseteq Nat
        /\ {sh[p].opt_errexit, sh[p].pending, sh[p].exit_trap} \subseteq BOOLEAN
    /\ signals \in 0 .. MaxSignals

Frames(p, kinds) == {i \in 1 .. Len(sh[p].stack) : sh[p].stack[i].k \in kinds}

\* The calls of process p that its child has a copy of: those below its waitpid.
Inherited(p) == {i \in 1 .. Len(sh[p].stack) : \E j \in Frames(p, {"waitpid"}) : i > j}

\* A break or continue under way always has the loops it still has to leave
\* above it in the same process, a return its function, and the counters of
\* loops and functions say what is on the stack and what the process was forked
\* with: no path out of a loop or a function (break n, return, exit, set -e, a
\* trap action with loops of its own) forgets to unwind.
FlowHasTarget ==
    /\ TypeOK
    /\ \A p \in 1 .. Len(sh) :
        LET s == sh[p]
            Count(q, kind) == Cardinality(Frames(q, {kind}) \cap Inherited(q))
                              - Cardinality(Frames(q, {kind}))
        IN  /\ s.flow \in {"BREAK", "CONTINUE"} => s.flow_count \in 1 .. s.loop_depth
            /\ s.flow = "RETURN" => s.func_depth > 0
            /\ s.loop_depth = Cardinality(Frames(p, {"loop"}))
                              + (IF p = 1 THEN 0 ELSE sh[p - 1].loop_depth + Count(p - 1, "loop"))
            /\ s.func_depth = Cardinality(Frames(p, {"function"}))
                              + (IF p = 1 THEN 0 ELSE sh[p - 1].func_depth + Count(p - 1, "function"))

Suppressing(f) ==
    \/ f.k = "condition"
    \/ f.k = "loop" /\ f.at = "condition"
    \/ f.k = "logical" /\ f.i < Len(f.c.pipelines)

\* The calls process p is in: its own, and those of the shells it was forked
\* from, up to the waitpid they wait in (a trap action may run above it).
Context(p) ==
    UNION {{sh[q].stack[i] : i \in IF q = p THEN 1 .. Len(sh[q].stack) ELSE Inherited(q)} : q \in 1 .. p}

\* set -e is in force exactly outside conditions and all but the last elements of
\* and-or lists, however the shell got there and in whatever process: every save
\* of opt_errexit meets its restore.
ErrexitFollowsContext ==
    \A p \in 1 .. Len(sh) :
        sh[p].opt_errexit <=> script.errexit /\ \A f \in Context(p) : ~Suppressing(f)

\* A trapped signal is not forgotten: its action runs, or the script ends, unless
\* the script is in an endless loop every turn of which ends in a jump.
TrapRuns == (sh[1].pending /\ ~script.jumps) ~> (~sh[1].pending \/ Ended)

\* A script whose loops end comes to its end, and one that loops for ever does
\* when the trap action of a signal exits.
ScriptEnds ==
    /\ TrapRuns
    /\ (script.finite \/ (script.trap_exits /\ signals > 0 /\ ~script.jumps)) ~> Ended

\* "errexit is suppressed for all but the last element" (runLogical): when an
\* and-or list ends the shell, its last element is the one that failed.
ErrexitOnlyByLast ==
    [][ \A p \in 1 .. Len(sh) :
          (Running(p) /\ p <= Len(sh') /\ Top(sh[p]).k = "logical") =>
              \/ sh'[p].flow = sh[p].flow
              \/ Top(sh[p]).i = Len(Top(sh[p]).c.pipelines) ]_vars

\* "index 0 = EXIT ... anything else = command string" (sh_interp.h), "traps are
\* not inherited" (shResetSignalsForChild): the action of the EXIT trap runs once
\* in the life of a shell, when it ends.
ExitTrapRunsOnce ==
    Ended /\ script.exit_trap # <<>> => Cardinality({i \in 1 .. Len(out) : out[i] = ExitMark}) = 1
=============================================================================
