----------------------------- MODULE ShTerminal -----------------------------
(***************************************************************************)
(* Who owns the terminal while an interactive shell with job control       *)
(* launches commands: process groups, tcsetpgrp, the dispositions of the   *)
(* job control signals and the keys Ctrl-C and Ctrl-Z.                     *)
(*                                                                         *)
(* The shell forks the stages of a command: one child for an external      *)
(* command or a subshell, one per command for a pipeline.  A stage of a    *)
(* pipeline and the child of a subshell are shells themselves: when their  *)
(* body is an external command they fork a child of their own by the same  *)
(* runExternal, with interactive and opt_monitor still set.                *)
(*                                                                         *)
(* One step is one system call of one process; the kernel's rules for      *)
(* tcsetpgrp, terminal reads and waitpid are those of POSIX.  SIGTTOU,     *)
(* SIGTTIN and SIGTSTP always have the same disposition in this code, so   *)
(* one field stands for the three.                                         *)
(***************************************************************************)
EXTENDS Naturals, Sequences

CONSTANTS
    Forms  \* the commands typed: [form, body], see Commands

\* The stages, and the process each of them may fork.
Stages == {"c1", "c2"}
Kids == {"x1", "x2"}
Procs == Stages \cup Kids
Kid(c) == IF c = "c1" THEN "x1" ELSE "x2"
Groups == Procs \cup {"sh", "orig"}

Commands == [form : {"external", "subshell", "pipeline"}, body : {"builtin", "external"}]

ASSUME FormsAssumption == Forms \subseteq Commands

VARIABLES
    tty,   \* the foreground process group of the terminal
    proc,  \* the processes below the shell
    sh,    \* the shell: its group and where it is
    cmd,   \* the command in the foreground and the children that are its stages
    jobs   \* the stages that are stopped or background jobs

vars == <<tty, proc, sh, cmd, jobs>>

Foreground(k, stages) == [form |-> k.form, body |-> k.body, stages |-> stages]
External == [form |-> "external", body |-> "external"]

\* pc: the next system call; sig: disposition of the job control signals; why:
\* what stopped it; told: waitpid has returned the stop; bg: bg continued it.
Processes == [st : {"none", "running", "stopped", "zombie"},
              pc : {"setpgid", "tcsetpgrp", "reset", "fork", "wait", "grab", "work", "exit"},
              pg : Groups, sig : {"ignored", "default"},
              why : {"none", "key", "tty"}, told : BOOLEAN, bg : BOOLEAN]
NoProcess == [st |-> "none", pc |-> "exit", pg |-> "orig", sig |-> "default",
              why |-> "none", told |-> FALSE, bg |-> FALSE]

-----------------------------------------------------------------------------
(* The kernel.                                                             *)

Runs(c, pc) == proc[c].st = "running" /\ proc[c].pc = pc
Members(g) == {c \in Procs : proc[c].st # "none" /\ proc[c].pg = g}
Stopped(q, why) == [q EXCEPT !.st = "stopped", !.why = why, !.told = FALSE]

\* A signal that stops the members of group g that do not ignore it.
StopGroup(g, why) ==
    [c \in Procs |->
        IF c \in Members(g) /\ proc[c].st = "running" /\ proc[c].sig = "default"
        THEN Stopped(proc[c], why) ELSE proc[c]]

\* SIGCONT; marks the group as running in the background, or not.
ContinueGroup(g, bg) ==
    [c \in Procs |->
        IF c \in Members(g) /\ proc[c].st \in {"running", "stopped"}
        THEN [proc[c] EXCEPT !.st = "running", !.why = "none", !.told = FALSE, !.bg = bg]
        ELSE proc[c]]

\* A process of a background group that does not ignore SIGTTOU stops its
\* whole group when it calls tcsetpgrp, and calls again when continued.
MayTouchTerminal(c) == proc[c].pg = tty \/ proc[c].sig = "ignored"

tcsetpgrp(c, g, pc) ==
    IF MayTouchTerminal(c)
    THEN /\ tty' = g
         /\ proc' = [proc EXCEPT ![c].pc = pc]
    ELSE /\ proc' = StopGroup(proc[c].pg, "tty")
         /\ UNCHANGED tty

Step(c, pc) == proc' = [proc EXCEPT ![c].pc = pc]

\* setpgid to a group that has no member left fails and changes nothing.
setpgid(c, g) == IF g = c \/ Members(g) # {} THEN g ELSE proc[c].pg

Others == <<sh, cmd, jobs>>

-----------------------------------------------------------------------------
(* The shell takes the terminal, and hands it back when it ends.           *)

\* The group that owned the terminal puts the shell in the foreground.
OuterForeground ==
    /\ sh.pc = "start" /\ tty = "outer"
    /\ tty' = "orig"
    /\ UNCHANGED <<proc, sh, cmd, jobs>>

TakeTerminal ==
    /\ sh.pc = "start" /\ tty = "orig"
    /\ tty' = "sh"
    /\ sh' = [sh EXCEPT !.pc = "prompt"]
    /\ UNCHANGED <<proc, cmd, jobs>>

EndInteractive ==
    /\ sh.pc = "prompt"
    /\ tty' = "orig"
    /\ sh' = [sh EXCEPT !.pc = "ended"]
    /\ UNCHANGED <<proc, cmd, jobs>>

-----------------------------------------------------------------------------
(* The shell launches a command.                                           *)

Slots(k) == IF k.form = "pipeline" THEN {<<"c1", "c2">>} ELSE {<<"c1">>, <<"c2">>}
Free(c) == proc[c].st = "none" /\ proc[Kid(c)].st = "none"

Leader == cmd.stages[1]
Stage == cmd.stages[sh.i]
Last == sh.i = Len(cmd.stages)

RunCommand(k) ==
    /\ sh.pc = "prompt"
    /\ \E stages \in Slots(k) :
        /\ \A i \in DOMAIN stages : Free(stages[i])
        /\ cmd' = Foreground(k, stages)
    /\ sh' = [pc |-> "fork", i |-> 1]
    /\ UNCHANGED <<tty, proc, jobs>>

\* The child of a subshell stays in the group of the shell.
Fork ==
    /\ sh.pc = "fork"
    /\ proc' = [proc EXCEPT ![Stage] =
                  [NoProcess EXCEPT !.st = "running", !.sig = "ignored", !.pg = "sh",
                                    !.pc = IF cmd.form = "subshell" THEN "reset" ELSE "setpgid"]]
    /\ sh' = [sh EXCEPT !.pc = IF cmd.form = "subshell" THEN "wait" ELSE "setpgid"]
    /\ UNCHANGED <<tty, cmd, jobs>>

NextStage ==
    sh' = IF Last THEN [pc |-> "wait", i |-> 1] ELSE [pc |-> "fork", i |-> sh.i + 1]

\* Slip: a stage that has already ended is reaped before the next one is forked.
SetChildGroupReaping ==
    /\ sh.pc = "setpgid"
    /\ proc' = IF proc[Stage].st = "zombie"
               THEN [proc EXCEPT ![Stage] = NoProcess]
               ELSE [proc EXCEPT ![Stage].pg = setpgid(Stage, Leader)]
    /\ NextStage
    /\ UNCHANGED <<tty, cmd, jobs>>

SetChildGroup ==
    /\ sh.pc = "setpgid"
    /\ proc' = [proc EXCEPT ![Stage].pg = setpgid(Stage, Leader)]
    /\ NextStage
    /\ UNCHANGED <<tty, cmd, jobs>>

Reap(c) == [proc EXCEPT ![c] = NoProcess]

\* The last stage was collected: a subshell leaves the terminal as it is.
StageEnded ==
    /\ sh.pc = "wait"
    /\ proc[Stage].st = "zombie"
    /\ proc' = Reap(Stage)
    /\ sh' = IF ~Last THEN [sh EXCEPT !.i = sh.i + 1]
             ELSE [sh EXCEPT !.pc = IF cmd.form = "subshell" THEN "prompt" ELSE "grab"]
    /\ jobs' = jobs \ {Stage}
    /\ UNCHANGED <<tty, cmd>>

\* Slip: waitpid(pid, &wstatus, 0) for every kind of command.
StageStoppedUnseen ==
    /\ sh.pc = "wait" /\ sh.pc = "grab"
    /\ UNCHANGED vars

\* Only runExternal and fg wait with WUNTRACED.
StageStopped ==
    /\ sh.pc = "wait" /\ cmd.form = "external"
    /\ proc[Stage].st = "stopped" /\ ~proc[Stage].told
    /\ proc' = [proc EXCEPT ![Stage].told = TRUE]
    /\ sh' = [sh EXCEPT !.pc = "grab"]
    /\ jobs' = jobs \cup {Stage}
    /\ UNCHANGED <<tty, cmd>>

\* Slip: the shell reads its next command without taking the terminal back.
grabTerminalNot ==
    /\ sh.pc = "grab"
    /\ sh' = [sh EXCEPT !.pc = "prompt"]
    /\ UNCHANGED <<tty, proc, cmd, jobs>>

grabTerminal ==
    /\ sh.pc = "grab"
    /\ tty' = "sh"
    /\ sh' = [sh EXCEPT !.pc = "prompt"]
    /\ UNCHANGED <<proc, cmd, jobs>>

-----------------------------------------------------------------------------
(* fg, bg and the reaping of jobs at the prompt.                           *)

FgTerminal(c) ==
    /\ sh.pc = "prompt" /\ c \in jobs
    /\ tty' = c
    /\ cmd' = Foreground(External, <<c>>)
    /\ sh' = [pc |-> "fgcont", i |-> 1]
    /\ UNCHANGED <<proc, jobs>>

FgContinue ==
    /\ sh.pc = "fgcont"
    /\ proc' = ContinueGroup(Stage, FALSE)
    /\ sh' = [sh EXCEPT !.pc = "wait"]
    /\ UNCHANGED <<tty, cmd, jobs>>

builtinBg(c) ==
    /\ sh.pc = "prompt" /\ c \in jobs
    /\ proc' = ContinueGroup(c, TRUE)
    /\ UNCHANGED <<tty, sh, cmd, jobs>>

shReapJobs(c) ==
    /\ sh.pc = "prompt" /\ c \in jobs
    /\ \/ /\ proc[c].st = "zombie"
          /\ proc' = Reap(c)
          /\ jobs' = jobs \ {c}
       \/ /\ proc[c].st = "stopped" /\ ~proc[c].told
          /\ proc' = [proc EXCEPT ![c].told = TRUE]
          /\ UNCHANGED jobs
    /\ UNCHANGED <<tty, sh, cmd>>

-----------------------------------------------------------------------------
(* The children.                                                           *)

\* The stages join the group of the first one; a child of runExternal leads
\* its own.  The first stage and every child of runExternal take the terminal.
Leads(c) == c \in Kids \/ c = Leader

\* Slip: the signals get their default action before the child takes the terminal.
ChildSetpgidAfterReset(c) ==
    /\ Runs(c, "setpgid")
    /\ proc' = [proc EXCEPT ![c].pg = setpgid(c, IF Leads(c) THEN c ELSE Leader),
                            ![c].pc = IF Leads(c) THEN "tcsetpgrp" ELSE "reset",
                            ![c].sig = "default"]
    /\ UNCHANGED <<tty, Others>>

ChildSetpgid(c) ==
    /\ Runs(c, "setpgid")
    /\ proc' = [proc EXCEPT ![c].pg = setpgid(c, IF Leads(c) THEN c ELSE Leader),
                            ![c].pc = IF Leads(c) THEN "tcsetpgrp" ELSE "reset"]
    /\ UNCHANGED <<tty, Others>>

ChildTakesTerminal(c) ==
    /\ Runs(c, "tcsetpgrp")
    /\ tcsetpgrp(c, c, "reset")
    /\ UNCHANGED Others

shResetSignalsForChild(c) ==
    /\ Runs(c, "reset")
    /\ proc' = [proc EXCEPT ![c].sig = "default",
                            ![c].pc = IF c \in Kids \/ cmd.form = "external" \/ cmd.body = "builtin"
                                      THEN "work" ELSE "fork"]
    /\ UNCHANGED <<tty, Others>>

\* runExternal in a stage: the child starts with the dispositions of the stage.
StageForks(c) ==
    /\ Runs(c, "fork")
    /\ proc' = [proc EXCEPT ![Kid(c)] = [NoProcess EXCEPT !.st = "running", !.pg = proc[c].pg,
                                                          !.sig = proc[c].sig, !.pc = "setpgid"],
                            ![c].pc = "wait"]
    /\ UNCHANGED <<tty, Others>>

StageWaits(c) ==
    /\ Runs(c, "wait")
    /\ LET x == Kid(c) IN
        \/ /\ proc[x].st = "zombie"
           /\ proc' = [proc EXCEPT ![x] = NoProcess, ![c].pc = "grab"]
        \/ /\ proc[x].st = "stopped" /\ ~proc[x].told
           /\ proc' = [proc EXCEPT ![x].told = TRUE, ![c].pc = "grab"]
    /\ UNCHANGED <<tty, Others>>

StageGrabs(c) ==
    /\ Runs(c, "grab")
    /\ tcsetpgrp(c, "sh", "exit")
    /\ UNCHANGED Others

\* A read from the terminal by a command of a background group.  Standard input
\* of the second stage of a pipeline is the pipe.
ReadsTerminal(c) ==
    /\ Runs(c, "work")
    /\ cmd.form = "pipeline" => c \notin {"c2", "x2"}
    /\ proc[c].pg # tty
    /\ proc' = StopGroup(proc[c].pg, "tty")
    /\ UNCHANGED <<tty, Others>>

Ends(c) ==
    /\ Runs(c, "work") \/ Runs(c, "exit")
    /\ proc' = [proc EXCEPT ![c].st = "zombie"]
    /\ UNCHANGED <<tty, Others>>

\* What a stage leaves behind: the kernel hangs up a stopped orphan, and init
\* reaps an orphan that ended.
OrphanGone(c) ==
    /\ proc[c].st \in {"none", "zombie"}
    /\ proc[Kid(c)].st \in {"stopped", "zombie"}
    /\ proc' = Reap(Kid(c))
    /\ UNCHANGED <<tty, Others>>

-----------------------------------------------------------------------------
(* The keyboard.                                                           *)

InForeground(c) == c \in Members(tty) /\ proc[c].st = "running" /\ proc[c].sig = "default"

CtrlZ ==
    /\ \E c \in Procs : InForeground(c)
    /\ proc' = StopGroup(tty, "key")
    /\ UNCHANGED <<tty, Others>>

CtrlC ==
    /\ \E c \in Procs : InForeground(c)
    /\ proc' = [c \in Procs |-> IF InForeground(c) THEN [proc[c] EXCEPT !.st = "zombie"] ELSE proc[c]]
    /\ UNCHANGED <<tty, Others>>

-----------------------------------------------------------------------------
Init ==
    /\ tty \in {"orig", "outer"}
    /\ proc = [c \in Procs |-> NoProcess]
    /\ sh = [pc |-> "start", i |-> 1]
    /\ cmd = Foreground(External, <<"c1">>)
    /\ jobs = {}

ShellStep ==
    \/ TakeTerminal \/ Fork \/ SetChildGroup \/ StageEnded \/ StageStopped
    \/ grabTerminal \/ FgContinue \/ \E c \in Stages : shReapJobs(c)

ChildStep(c) ==
    \/ ChildSetpgid(c) \/ ChildTakesTerminal(c) \/ shResetSignalsForChild(c)
    \/ c \in Stages /\ (StageForks(c) \/ StageWaits(c) \/ StageGrabs(c))

User ==
    \/ OuterForeground \/ CtrlZ \/ CtrlC
    \/ \E k \in Forms : RunCommand(k)
    \/ \E c \in Stages : FgTerminal(c) \/ builtinBg(c)
    \/ EndInteractive

Command ==
    \/ \E c \in Procs : ReadsTerminal(c) \/ Ends(c)
    \/ \E c \in Stages : OrphanGone(c)

Next == ShellStep \/ (\E c \in Procs : ChildStep(c)) \/ User \/ Command

\* The scheduler runs the shell and its children; nothing makes a user type or
\* a command end.
Spec ==
    /\ Init /\ [][Next]_vars
    /\ WF_vars(ShellStep)
    /\ \A c \in Procs : WF_vars(ChildStep(c))

-----------------------------------------------------------------------------
(* Properties.                                                             *)

TypeOK ==
    /\ tty \in Groups \cup {"outer"}
    /\ proc \in [Procs -> Processes]
    /\ sh \in [pc : {"start", "prompt", "fork", "setpgid", "wait", "grab", "fgcont", "ended"}, i : 1 .. 2]
    /\ [form |-> cmd.form, body |-> cmd.body] \in Commands
    /\ cmd.stages \in {<<"c1">>, <<"c2">>, <<"c1", "c2">>}
    /\ jobs \subseteq Stages

\* Whenever the shell reads a command line it owns the terminal, whatever the
\* jobs it left behind do, and when it ends its caller owns it again.
TerminalAtRest ==
    /\ TypeOK
    /\ sh.pc = "prompt" => tty = "sh"
    /\ sh.pc = "ended" => tty = "orig"

\* No command that a stage runs itself stops because of the terminal unless the
\* user moved it to the background with bg: launching it in the foreground, or
\* continuing it there, never makes it touch a terminal it does not own.
NoTerminalStop ==
    \A c \in Stages :
        /\ proc[c].st = "stopped" /\ proc[c].why = "tty"
        /\ proc[c].pc \in {"setpgid", "tcsetpgrp", "reset", "work"}
        => proc[c].bg

\* The same for every process of every command: README.md line 97 promises an
\* interactive shell with pipelines and job control.
NoTerminalStopAnywhere ==
    \A c \in Procs : proc[c].st = "stopped" /\ proc[c].why = "tty" => proc[c].bg

\* The stages of a pipeline run in the group of the first one, also when that
\* one has already ended.
PipelineInOneGroup ==
    cmd.form = "pipeline" =>
        \A i \in DOMAIN cmd.stages :
            LET c == cmd.stages[i] IN
            proc[c].st # "none" /\ proc[c].pc \notin {"setpgid", "tcsetpgrp"} => proc[c].pg = Leader

\* An external command in the foreground that stops, or any command whose stages
\* have all ended, gives the user the prompt back.
PromptComesBack ==
    /\ (sh.pc = "wait" /\ cmd.form = "external" /\ proc[Leader].st \in {"stopped", "zombie"})
          ~> sh.pc = "prompt"
    /\ (sh.pc = "wait" /\ \A i \in DOMAIN cmd.stages : proc[cmd.stages[i]].st \in {"none", "zombie"})
          ~> sh.pc = "prompt"
=============================================================================
