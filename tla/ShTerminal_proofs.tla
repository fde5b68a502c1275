------------------------- MODULE ShTerminal_proofs -------------------------
(***************************************************************************)
(* The shell has the terminal whenever it reads a command line             *)
(* (TerminalAtRest), no command of a stage stops because of it             *)
(* (NoTerminalStop), and a pipeline is one group (PipelineInOneGroup).     *)
(*                                                                         *)
(* The argument: a stage is either under way (the shell has forked it and  *)
(* not yet collected it) or a job.  Only a stage under way can ignore the  *)
(* job control signals, and only one that ignores them can take the        *)
(* terminal for itself, so the terminal changes hands only while the shell *)
(* waits.  A job leads its own group and either is stopped or in the       *)
(* background.  A process below a stage has the default actions, and the   *)
(* terminal is never that of its group: it stops where it would take it.   *)
(***************************************************************************)
EXTENDS ShTerminal, TLAPS

Starting == {"setpgid", "tcsetpgrp", "reset"}
Nested == {"fork", "wait", "grab", "exit"}

There(p) == proc[p].st # "none"

\* The stages of the command, the first one leading.
Shape ==
    /\ sh.pc = "fgcont" => cmd.form = "external" /\ sh.i = 1 /\ tty = Leader /\ Leader \in jobs
    /\ cmd.form = "pipeline" <=> cmd.stages = <<"c1", "c2">>
    /\ cmd.stages \in {<<"c1">>, <<"c2">>} => sh.i = 1

InCmd(c) == c = cmd.stages[1] \/ cmd.form = "pipeline"
Index(c) == IF cmd.form = "pipeline" /\ c = "c2" THEN 2 ELSE 1
UnderWay(c) ==
    /\ InCmd(c)
    /\ \/ sh.pc = "fork" /\ Index(c) < sh.i
       \/ sh.pc = "setpgid" /\ Index(c) <= sh.i
       \/ sh.pc = "wait" /\ Index(c) >= sh.i

\* Standard input of the second stage of a pipeline is the pipe.
Piped(c) == cmd.form = "pipeline" /\ c = "c2"

\* Whose the terminal is, as far as the shell knows.
Owner ==
    /\ sh.pc = "start" => \A p \in Procs : ~There(p)
    /\ sh.pc = "prompt" => tty = "sh"
    /\ sh.pc = "ended" => tty = "orig"
    /\ cmd.form = "subshell" /\ sh.pc \in {"fork", "wait"} => tty = "sh"
    /\ cmd.form = "subshell" => sh.pc # "setpgid"
    /\ sh.pc \notin {"start", "ended"} => tty \in {"sh"} \cup Stages

\* What the command in the foreground has no more, or not yet.
Gone(c) == InCmd(c) /\ ~UnderWay(c) /\ (cmd.form = "pipeline" \/ sh.pc \in {"fork", "setpgid", "wait"})

\* A stage that the shell has forked and not yet collected.
StageOK(c) ==
    /\ proc[c].pg = "sh" \/ (cmd.form # "subshell" /\ proc[c].pg = Leader)
    /\ proc[c].pc \in Starting => proc[c].st = "running" /\ proc[c].sig = "ignored"
    /\ proc[c].pc \notin Starting => proc[c].sig = "default"
    /\ proc[c].st \in {"running", "stopped"} => ~proc[c].bg
    /\ proc[c].pc \in {"setpgid", "tcsetpgrp"} => cmd.form # "subshell"
    /\ proc[c].pc = "tcsetpgrp" => c = Leader
    /\ proc[c].pc \in Nested => cmd.form # "external" /\ cmd.body = "external"
    /\ proc[c].pc = "work" => cmd.form = "external" \/ cmd.body = "builtin"
    /\ cmd.form # "subshell" /\ (proc[c].pc # "setpgid" \/ sh.pc = "wait" \/ Index(c) < sh.i) =>
         proc[c].pg = Leader
    /\ /\ proc[c].pc \in {"reset", "work"} /\ proc[c].st = "running" /\ ~Piped(c)
       /\ cmd.form = "external" \/ cmd.body = "builtin"
       => tty = proc[c].pg

\* A job: an external command that is stopped, has ended or is in the background.
JobOK(c) ==
    /\ proc[c].pc = "work" /\ proc[c].pg = c /\ proc[c].sig = "default"
    /\ proc[c].st = "running" => proc[c].bg

KidOK(x) ==
    /\ proc[x].sig = "default" /\ proc[x].pc \in {"setpgid", "tcsetpgrp"}
    /\ proc[x].pc = "tcsetpgrp" => proc[x].pg = x

StageInv(c) ==
    /\ UnderWay(c) => There(c) /\ StageOK(c)
    /\ There(c) /\ ~UnderWay(c) => JobOK(c) /\ ~Gone(c)
    /\ c \in jobs => There(c) /\ proc[c].pc = "work" /\ (UnderWay(c) => cmd.form = "external")

KidInv(x) == There(x) => KidOK(x)

NoStop(c) ==
    /\ proc[c].st = "stopped" /\ proc[c].why = "tty"
    /\ proc[c].pc \in {"setpgid", "tcsetpgrp", "reset", "work"}
    => proc[c].bg

TerminalInv ==
    /\ TypeOK /\ Shape /\ Owner
    /\ \A c \in Stages : StageInv(c) /\ NoStop(c)
    /\ \A x \in Kids : KidInv(x)

-----------------------------------------------------------------------------
(* Names.                                                                  *)

LEMMA Names ==
    /\ Stages \cap Kids = {} /\ Procs = Stages \cup Kids
    /\ "sh" \notin Procs /\ "orig" \notin Procs /\ "outer" \notin Groups
    /\ \A c \in Stages : Kid(c) \in Kids
    /\ \A c, d \in Stages : Kid(c) = Kid(d) => c = d
BY DEF Stages, Kids, Procs, Groups, Kid

LEMMA StagesOfCommand ==
    ASSUME TypeOK, Shape
    PROVE  /\ Leader \in Stages /\ sh.i \in {1, 2}
           /\ cmd.form = "pipeline" => Leader = "c1" /\ Len(cmd.stages) = 2 /\ cmd.stages[2] = "c2"
           /\ cmd.form # "pipeline" => Len(cmd.stages) = 1 /\ sh.i = 1
           /\ Stage \in Stages /\ (Stage = Leader <=> sh.i = 1)
           /\ \A c \in Stages : Index(c) = sh.i /\ InCmd(c) <=> c = Stage
           /\ Last <=> (cmd.form = "pipeline" => sh.i = 2)
<1>1. cmd.stages \in {<<"c1">>, <<"c2">>, <<"c1", "c2">>} /\ sh.i \in 1 .. 2
  BY DEF TypeOK
<1>2. CASE cmd.form = "pipeline"
  <2>1. cmd.stages = <<"c1", "c2">> BY <1>2 DEF Shape
  <2> QED BY <1>1, <1>2, <2>1 DEF Leader, Stage, Last, Index, InCmd, Stages
<1>3. CASE cmd.form # "pipeline"
  <2>1. cmd.stages \in {<<"c1">>, <<"c2">>} /\ sh.i = 1 BY <1>1, <1>3 DEF Shape
  <2> QED BY <1>1, <1>3, <2>1 DEF Leader, Stage, Last, Index, InCmd, Stages
<1> QED BY <1>2, <1>3

LEMMA StopTyped ==
    ASSUME TypeOK, NEW g, NEW why \in {"none", "key", "tty"}
    PROVE  /\ StopGroup(g, why) \in [Procs -> Processes]
           /\ \A p \in Procs :
                IF proc[p].st = "running" /\ proc[p].pg = g /\ proc[p].sig = "default"
                THEN StopGroup(g, why)[p] = [proc[p] EXCEPT !.st = "stopped", !.why = why, !.told = FALSE]
                ELSE StopGroup(g, why)[p] = proc[p]
<1>1. \A p \in Procs : proc[p] \in Processes BY DEF TypeOK
<1>2. \A p \in Procs : [proc[p] EXCEPT !.st = "stopped", !.why = why, !.told = FALSE] \in Processes
  BY <1>1 DEF Processes
<1>3. \A p \in Procs :
        IF proc[p].st = "running" /\ proc[p].pg = g /\ proc[p].sig = "default"
        THEN StopGroup(g, why)[p] = [proc[p] EXCEPT !.st = "stopped", !.why = why, !.told = FALSE]
        ELSE StopGroup(g, why)[p] = proc[p]
  BY DEF StopGroup, Members, Stopped
<1>4. \A p \in Procs : StopGroup(g, why)[p] \in Processes BY <1>1, <1>2, <1>3
<1>5. StopGroup(g, why) = [p \in Procs |-> StopGroup(g, why)[p]]
  BY DEF StopGroup
<1> QED BY <1>3, <1>4, <1>5

LEMMA ContinueTyped ==
    ASSUME TypeOK, NEW g, NEW bg \in BOOLEAN
    PROVE  /\ ContinueGroup(g, bg) \in [Procs -> Processes]
           /\ \A p \in Procs :
                IF proc[p].st \in {"running", "stopped"} /\ proc[p].pg = g
                THEN ContinueGroup(g, bg)[p] =
                       [proc[p] EXCEPT !.st = "running", !.why = "none", !.told = FALSE, !.bg = bg]
                ELSE ContinueGroup(g, bg)[p] = proc[p]
<1>1. \A p \in Procs : proc[p] \in Processes BY DEF TypeOK
<1>2. \A p \in Procs :
        [proc[p] EXCEPT !.st = "running", !.why = "none", !.told = FALSE, !.bg = bg] \in Processes
  BY <1>1 DEF Processes
<1>3. \A p \in Procs :
        IF proc[p].st \in {"running", "stopped"} /\ proc[p].pg = g
        THEN ContinueGroup(g, bg)[p] =
               [proc[p] EXCEPT !.st = "running", !.why = "none", !.told = FALSE, !.bg = bg]
        ELSE ContinueGroup(g, bg)[p] = proc[p]
  BY DEF ContinueGroup, Members
<1>4. \A p \in Procs : ContinueGroup(g, bg)[p] \in Processes BY <1>1, <1>2, <1>3
<1>5. ContinueGroup(g, bg) = [p \in Procs |-> ContinueGroup(g, bg)[p]]
  BY DEF ContinueGroup
<1> QED BY <1>3, <1>4, <1>5

-----------------------------------------------------------------------------
(* What does not depend on the processes.                                  *)

LEMMA SameView ==
    ASSUME sh' = sh, cmd' = cmd
    PROVE  /\ Leader' = Leader /\ Stage' = Stage /\ Last' = Last
           /\ \A c : InCmd(c)' = InCmd(c) /\ Index(c)' = Index(c) /\ UnderWay(c)' = UnderWay(c)
           /\ \A c : Piped(c)' = Piped(c) /\ Gone(c)' = Gone(c)
BY DEF Leader, Stage, Last, InCmd, Index, UnderWay, Piped, Gone

\* A step of the shell that leaves the processes alone.
LEMMA ShellAlone ==
    ASSUME TerminalInv, proc' = proc, TypeOK', Shape', Owner', jobs' = jobs,
           \A c \in Stages : UnderWay(c)' => UnderWay(c) /\ StageOK(c)',
           \A c \in Stages : There(c) /\ UnderWay(c) => UnderWay(c)',
           \A c \in Stages : There(c) /\ Gone(c)' => Gone(c) \/ UnderWay(c)',
           \A c \in jobs : ~UnderWay(c)'
    PROVE  TerminalInv'
<1>1. ASSUME NEW c \in Stages PROVE StageInv(c)'
  BY DEF TerminalInv, StageInv, There, JobOK
<1>2. \A c \in Stages : NoStop(c)'
  BY DEF TerminalInv, NoStop
<1>3. \A x \in Kids : KidInv(x)'
  BY DEF TerminalInv, KidInv, KidOK, There
<1> QED BY <1>1, <1>2, <1>3 DEF TerminalInv

LEMMA ShellPrompts ==
    ASSUME TerminalInv, OuterForeground \/ TakeTerminal \/ EndInteractive \/ grabTerminal
    PROVE  TerminalInv'
<1>1. /\ proc' = proc /\ cmd' = cmd /\ jobs' = jobs /\ sh'.i = sh.i
      /\ sh.pc \notin {"fork", "setpgid", "wait", "fgcont"} /\ sh'.pc \notin {"fork", "setpgid", "wait", "fgcont"}
  BY DEF OuterForeground, TakeTerminal, EndInteractive, grabTerminal, TerminalInv, TypeOK
<1>2. TypeOK'
  BY DEF OuterForeground, TakeTerminal, EndInteractive, grabTerminal, TerminalInv, TypeOK, Groups
<1>3. Shape' BY <1>1 DEF TerminalInv, Shape
<1>4. Owner'
  BY <1>1 DEF OuterForeground, TakeTerminal, EndInteractive, grabTerminal, TerminalInv, Owner, There, TypeOK
<1>5. \A c : ~UnderWay(c) /\ ~UnderWay(c)' /\ Gone(c)' = Gone(c)
  BY <1>1 DEF UnderWay, Gone, InCmd
<1> QED BY <1>1, <1>2, <1>3, <1>4, <1>5, ShellAlone

LEMMA ShellRuns ==
    ASSUME TerminalInv, NEW k \in Commands, RunCommand(k)
    PROVE  TerminalInv'
<1>1. PICK stages \in Slots(k) :
        (\A i \in DOMAIN stages : Free(stages[i])) /\ cmd' = Foreground(k, stages)
  BY DEF RunCommand
<1>2. sh.pc = "prompt" /\ sh' = [pc |-> "fork", i |-> 1] /\ tty' = tty /\ proc' = proc /\ jobs' = jobs
  BY DEF RunCommand
<1>3. /\ cmd'.form = k.form /\ cmd'.body = k.body /\ cmd'.stages = stages
      /\ k.form \in {"external", "subshell", "pipeline"} /\ k.body \in {"builtin", "external"}
  BY <1>1 DEF Foreground, Commands
<1>4. /\ stages \in {<<"c1">>, <<"c2">>, <<"c1", "c2">>}
      /\ k.form = "pipeline" <=> stages = <<"c1", "c2">>
  BY <1>1 DEF Slots
<1>5. \A c \in Stages : InCmd(c)' => ~There(c)
  <2>1. \A i \in DOMAIN stages : proc[stages[i]].st = "none" BY <1>1 DEF Free
  <2>2. CASE k.form = "pipeline"
    <3>1. 1 \in DOMAIN stages /\ 2 \in DOMAIN stages /\ stages[1] = "c1" /\ stages[2] = "c2"
      BY <1>4, <2>2
    <3> QED BY <2>1, <3>1 DEF There, Stages
  <2>3. CASE k.form # "pipeline"
    <3>1. 1 \in DOMAIN stages BY <1>4, <2>3
    <3> QED BY <1>3, <2>1, <2>3, <3>1 DEF There, InCmd
  <2> QED BY <2>2, <2>3
<1>6. TypeOK'
  BY <1>2, <1>3, <1>4 DEF TerminalInv, TypeOK, Commands
<1>7. Shape' BY <1>2, <1>3, <1>4 DEF Shape
<1>8. Owner' BY <1>2 DEF TerminalInv, Owner
<1>9. \A c \in Stages : ~UnderWay(c) /\ ~UnderWay(c)'
  BY <1>2 DEF UnderWay, Index
<1>10. \A c \in Stages : There(c) => ~Gone(c)' BY <1>5 DEF Gone
<1>11. \A c \in jobs : ~UnderWay(c)'
  BY <1>9 DEF TerminalInv, TypeOK
<1> QED BY <1>2, <1>6, <1>7, <1>8, <1>9, <1>10, <1>11, ShellAlone

LEMMA ShellForegrounds ==
    ASSUME TerminalInv, NEW c \in Stages, FgTerminal(c)
    PROVE  TerminalInv'
<1>1. /\ sh.pc = "prompt" /\ c \in jobs /\ tty' = c /\ proc' = proc /\ jobs' = jobs
      /\ sh' = [pc |-> "fgcont", i |-> 1]
      /\ cmd'.form = "external" /\ cmd'.body = "external" /\ cmd'.stages = <<c>>
  BY DEF FgTerminal, Foreground, External
<1>2. TypeOK'
  BY <1>1 DEF TerminalInv, TypeOK, Groups, Procs, Commands, Stages
<1>3. Shape' BY <1>1 DEF Shape, Leader, Stages
<1>4. Owner' BY <1>1 DEF TerminalInv, Owner
<1>5. \A d : ~UnderWay(d) /\ ~UnderWay(d)' /\ ~Gone(d)'
  BY <1>1 DEF UnderWay, Gone
<1> QED BY <1>1, <1>2, <1>3, <1>4, <1>5, ShellAlone

-----------------------------------------------------------------------------
(* Steps of the processes.                                                 *)

LEMMA SameShell ==
    ASSUME TerminalInv, sh' = sh, cmd' = cmd, tty' = tty, jobs' = jobs, NEW p \in Procs, There(p)
    PROVE  Shape' /\ Owner'
<1>1. sh.pc # "start" BY DEF TerminalInv, Owner
<1>2. Shape' BY SameView DEF TerminalInv, Shape
<1>3. Owner' BY <1>1 DEF TerminalInv, Owner
<1> QED BY <1>2, <1>3

\* A process that a step leaves alone.
LEMMA Untouched ==
    ASSUME TerminalInv, sh' = sh, cmd' = cmd, tty' = tty, jobs' = jobs,
           NEW p \in Procs, proc'[p] = proc[p]
    PROVE  /\ p \in Stages => StageInv(p)' /\ NoStop(p)'
           /\ p \in Kids => KidInv(p)'
<1>1. There(p)' = There(p) BY DEF There
<1>2. p \in Stages => NoStop(p)' BY DEF TerminalInv, NoStop
<1>3. p \in Kids => KidInv(p)' BY <1>1 DEF TerminalInv, KidInv, KidOK
<1>4. ASSUME p \in Stages PROVE StageInv(p)'
  <2>1. StageInv(p) BY <1>4 DEF TerminalInv
  <2>2. UnderWay(p)' = UnderWay(p) /\ Gone(p)' = Gone(p) /\ Leader' = Leader
        /\ Index(p)' = Index(p) /\ Piped(p)' = Piped(p)
    BY SameView
  <2>3. StageOK(p) => StageOK(p)' BY <2>2 DEF StageOK
  <2>4. JobOK(p) => JobOK(p)' BY DEF JobOK
  <2> QED BY <1>1, <2>1, <2>2, <2>3, <2>4 DEF StageInv
<1> QED BY <1>2, <1>3, <1>4

\* The step of one process, or of what it does to one process.
LEMMA OneMoves ==
    ASSUME TerminalInv, sh' = sh, cmd' = cmd, tty' = tty, jobs' = jobs,
           NEW p \in Procs, There(p), NEW q \in Processes, proc' = [proc EXCEPT ![p] = q],
           p \in Stages => StageInv(p)' /\ NoStop(p)',
           p \in Kids => KidInv(p)'
    PROVE  TerminalInv'
<1>1. TypeOK' BY DEF TerminalInv, TypeOK
<1>2. Shape' /\ Owner' BY SameShell
<1>3. \A r \in Procs \ {p} : proc'[r] = proc[r] BY DEF TerminalInv, TypeOK
<1>4. \A r \in Stages : StageInv(r)' /\ NoStop(r)' BY <1>3, Untouched, Names
<1>5. \A r \in Kids : KidInv(r)' BY <1>3, Untouched, Names
<1> QED BY <1>1, <1>2, <1>4, <1>5 DEF TerminalInv

\* What a step of a stage or of a kid says of it.
LEMMA WhoRuns ==
    ASSUME TerminalInv, NEW c \in Procs, proc[c].st = "running"
    PROVE  /\ There(c)
           /\ c \in Kids => KidOK(c)
           /\ c \in Stages /\ proc[c].pc # "work" => UnderWay(c) /\ StageOK(c) /\ c \notin jobs
           /\ c \in Stages /\ ~UnderWay(c) => JobOK(c) /\ proc[c].bg /\ ~Gone(c)
<1>1. There(c) BY DEF There
<1>2. c \in Kids => KidOK(c) BY <1>1 DEF TerminalInv, KidInv
<1>3. ASSUME c \in Stages
      PROVE  /\ proc[c].pc # "work" => UnderWay(c) /\ StageOK(c) /\ c \notin jobs
             /\ ~UnderWay(c) => JobOK(c) /\ proc[c].bg /\ ~Gone(c)
  <2>1. StageInv(c) BY <1>3 DEF TerminalInv
  <2> QED BY <1>1, <2>1 DEF StageInv, JobOK
<1> QED BY <1>1, <1>2, <1>3

\* A stage under way that moves on stays one.
LEMMA StageMoves ==
    ASSUME TerminalInv, sh' = sh, cmd' = cmd, tty' = tty, jobs' = jobs,
           NEW c \in Stages, proc[c].st = "running", proc[c].pc # "work",
           NEW q \in Processes, proc' = [proc EXCEPT ![c] = q], q.st # "none", q.st # "stopped",
           StageOK(c)'
    PROVE  TerminalInv'
<1>1. c \in Procs /\ c \notin Kids BY Names
<1>2. There(c) /\ UnderWay(c) /\ c \notin jobs BY <1>1, WhoRuns
<1>3. proc'[c] = q BY <1>1 DEF TerminalInv, TypeOK
<1>4. UnderWay(c)' = UnderWay(c) BY SameView
<1>5. StageInv(c)' BY <1>2, <1>3, <1>4 DEF StageInv, There
<1>6. NoStop(c)' BY <1>3 DEF NoStop
<1> QED BY <1>1, <1>2, <1>5, <1>6, OneMoves

LEMMA ChildResets ==
    ASSUME TerminalInv, NEW c \in Procs, shResetSignalsForChild(c)
    PROVE  TerminalInv'
<1> DEFINE q == [proc[c] EXCEPT !.sig = "default",
                                !.pc = IF c \in Kids \/ cmd.form = "external" \/ cmd.body = "builtin"
                                       THEN "work" ELSE "fork"]
<1>1. /\ proc[c].st = "running" /\ proc[c].pc = "reset"
      /\ sh' = sh /\ cmd' = cmd /\ jobs' = jobs /\ tty' = tty
      /\ proc' = [proc EXCEPT ![c] = q]
  BY DEF shResetSignalsForChild, Runs, Others, TerminalInv, TypeOK
<1>2. c \in Stages /\ c \notin Kids
  <2>1. c \notin Kids BY <1>1, WhoRuns DEF KidOK
  <2> QED BY <2>1, Names
<1>3. UnderWay(c) /\ StageOK(c) BY <1>1, <1>2, WhoRuns
<1>4. q \in Processes
  <2>1. proc[c] \in Processes BY DEF TerminalInv, TypeOK
  <2> QED BY <2>1 DEF Processes
<1>5. cmd.form \in {"external", "subshell", "pipeline"} /\ cmd.body \in {"builtin", "external"}
  BY DEF TerminalInv, TypeOK, Commands
<1>6. proc'[c] = q BY <1>1 DEF TerminalInv, TypeOK
<1>7. /\ q.st = "running" /\ q.sig = "default" /\ q.pg = proc[c].pg /\ q.bg = proc[c].bg
      /\ q.pc = IF cmd.form = "external" \/ cmd.body = "builtin" THEN "work" ELSE "fork"
  BY <1>1, <1>2, <1>4 DEF Processes, TerminalInv, TypeOK
<1>8. StageOK(c)'
  <2>1. Leader' = Leader /\ Index(c)' = Index(c) /\ Piped(c)' = Piped(c) BY <1>1, SameView
  <2> HIDE DEF q
  <2>2. ~proc[c].bg /\ (proc[c].pg = "sh" \/ (cmd.form # "subshell" /\ proc[c].pg = Leader))
    BY <1>1, <1>3 DEF StageOK
  <2>3. cmd.form # "subshell" => proc[c].pg = Leader BY <1>1, <1>3 DEF StageOK
  <2>4. ~Piped(c) /\ (cmd.form = "external" \/ cmd.body = "builtin") => tty = proc[c].pg
    BY <1>1, <1>3 DEF StageOK
  <2> QED BY <1>1, <1>5, <1>6, <1>7, <2>1, <2>2, <2>3, <2>4 DEF StageOK, Starting, Nested
<1> HIDE DEF q
<1> QED BY <1>1, <1>2, <1>4, <1>7, <1>8, StageMoves

LEMMA ChildJoins ==
    ASSUME TerminalInv, NEW c \in Procs, ChildSetpgid(c)
    PROVE  TerminalInv'
<1> DEFINE g == setpgid(c, IF Leads(c) THEN c ELSE Leader)
           q == [proc[c] EXCEPT !.pg = g, !.pc = IF Leads(c) THEN "tcsetpgrp" ELSE "reset"]
<1>0. Leader \in Stages /\ Leader \in Procs BY StagesOfCommand, Names DEF TerminalInv
<1>1. /\ proc[c].st = "running" /\ proc[c].pc = "setpgid"
      /\ sh' = sh /\ cmd' = cmd /\ jobs' = jobs /\ tty' = tty
      /\ proc' = [proc EXCEPT ![c] = q]
  BY DEF ChildSetpgid, Runs, Others, TerminalInv, TypeOK
<1>2. g \in Groups BY <1>0 DEF setpgid, TerminalInv, TypeOK, Processes, Groups
<1>3. q \in Processes
  <2>1. proc[c] \in Processes BY DEF TerminalInv, TypeOK
  <2> HIDE DEF g
  <2> QED BY <1>2, <2>1 DEF Processes
<1>4. proc'[c] = q BY <1>1 DEF TerminalInv, TypeOK
<1>5. /\ q.st = "running" /\ q.sig = proc[c].sig /\ q.pg = g /\ q.bg = proc[c].bg
      /\ q.pc = IF Leads(c) THEN "tcsetpgrp" ELSE "reset"
  BY <1>1 DEF Processes, TerminalInv, TypeOK
<1>6. Leads(c) => g = c BY DEF setpgid
<1>7. There(c) BY <1>1 DEF There
<1>8. CASE c \in Kids
  <2>1. KidOK(c) BY <1>1, <1>8, WhoRuns
  <2>2. KidInv(c)' BY <1>4, <1>5, <1>6, <1>8, <2>1 DEF KidInv, KidOK, Leads
  <2> HIDE DEF q
  <2> QED BY <1>1, <1>3, <1>7, <1>8, <2>2, OneMoves, Names
<1>9. CASE c \in Stages
  <2>1. UnderWay(c) /\ StageOK(c) BY <1>1, <1>9, WhoRuns
  <2>2. cmd.form # "subshell" /\ proc[c].sig = "ignored" /\ ~proc[c].bg
    BY <1>1, <2>1 DEF StageOK, Starting
  <2>3. Leads(c) <=> c = Leader BY <1>9, Names DEF Leads
  <2>4. g = Leader
    <3>1. CASE c = Leader BY <1>6, <2>3, <3>1
    <3>2. CASE c # Leader
      <4>1. cmd.form = "pipeline" /\ Leader = "c1" /\ c = "c2"
        BY <1>9, <2>1, <3>2, StagesOfCommand DEF UnderWay, InCmd, Leader, Stages, TerminalInv
      <4>2. Members(Leader) # {}
        <5>1. CASE sh.pc = "wait"
          <6>1. proc[c].pg = Leader BY <2>1, <2>2, <5>1 DEF StageOK
          <6> QED BY <1>1, <6>1 DEF Members
        <5>2. CASE sh.pc # "wait"
          <6>1. Index(Leader) = 1 /\ Index(c) = 2 /\ InCmd(Leader) BY <4>1 DEF Index, InCmd
          <6>2. sh.i \in {1, 2} BY StagesOfCommand DEF TerminalInv
          <6>3. UnderWay(Leader) /\ Index(Leader) < sh.i
            BY <2>1, <5>2, <6>1, <6>2 DEF UnderWay
          <6>4. There(Leader) /\ proc[Leader].pg = Leader
            BY <1>0, <2>2, <6>3 DEF TerminalInv, StageInv, StageOK
          <6> QED BY <1>0, <6>4 DEF Members, There
        <5> QED BY <5>1, <5>2
      <4> QED BY <2>3, <3>2, <4>2 DEF setpgid
    <3> QED BY <3>1, <3>2
  <2>5. StageOK(c)'
    <3>1. Leader' = Leader /\ Index(c)' = Index(c) /\ Piped(c)' = Piped(c) BY <1>1, SameView
    <3>2. proc'[c].pc = "reset" => cmd.form = "pipeline" /\ c = "c2"
      BY <1>4, <1>5, <1>9, <2>1, <2>3, StagesOfCommand DEF UnderWay, InCmd, Leader, Stages, TerminalInv
    <3> HIDE DEF q, g
    <3>3. proc'[c].pc \in {"tcsetpgrp", "reset"} /\ (proc'[c].pc = "tcsetpgrp" => c = Leader)
      BY <1>4, <1>5, <2>3
    <3> QED BY <1>1, <1>4, <1>5, <2>2, <2>4, <3>1, <3>2, <3>3 DEF StageOK, Starting, Nested, Piped
  <2> HIDE DEF q
  <2> QED BY <1>1, <1>3, <1>5, <1>9, <2>5, StageMoves
<1> QED BY <1>8, <1>9, Names

\* A step of a nested shell and of the process below it.
LEMMA NestedMoves ==
    ASSUME TerminalInv, sh' = sh, cmd' = cmd, tty' = tty, jobs' = jobs,
           NEW c \in Stages, proc[c].st = "running", proc[c].pc \in Nested,
           NEW q \in Processes, NEW r \in Processes,
           proc' = [proc EXCEPT ![c] = q, ![Kid(c)] = r],
           q.st \in {"running", "zombie"}, q.sig = proc[c].sig, q.pg = proc[c].pg, q.bg = proc[c].bg,
           q.pc \in Nested,
           r.st # "none" => r.sig = "default" /\ r.pc \in {"setpgid", "tcsetpgrp"}
                            /\ (r.pc = "tcsetpgrp" => r.pg = Kid(c))
    PROVE  TerminalInv'
<1>1. c \in Procs /\ Kid(c) \in Kids /\ Kid(c) \in Procs /\ Kid(c) # c BY Names
<1>2. proc[c].pc # "work" /\ proc[c].pc \notin Starting BY DEF Nested, Starting
<1>3. There(c) /\ UnderWay(c) /\ StageOK(c) /\ c \notin jobs BY <1>1, <1>2, WhoRuns
<1>4. /\ proc'[c] = q /\ proc'[Kid(c)] = r /\ proc' \in [Procs -> Processes]
      /\ \A p \in Procs \ {c, Kid(c)} : proc'[p] = proc[p]
  BY <1>1 DEF TerminalInv, TypeOK
<1>5. TypeOK' BY <1>4 DEF TerminalInv, TypeOK
<1>6. Shape' /\ Owner' BY <1>1, <1>3, SameShell
<1>7. UnderWay(c)' = UnderWay(c) /\ Leader' = Leader /\ Index(c)' = Index(c) BY SameView
<1>8. StageOK(c)'
  <2>1. q.pc \notin {"setpgid", "tcsetpgrp", "reset", "work"} BY DEF Nested
  <2>2. proc[c].pc \notin {"setpgid", "tcsetpgrp", "reset", "work"} BY DEF Nested
  <2>3. /\ q.pg = "sh" \/ (cmd.form # "subshell" /\ q.pg = Leader)
        /\ q.sig = "default" /\ ~q.bg /\ cmd.form # "external" /\ cmd.body = "external"
        /\ cmd.form # "subshell" => q.pg = Leader
    BY <1>2, <1>3, <2>2 DEF StageOK
  <2> QED BY <1>4, <1>7, <2>1, <2>3 DEF StageOK, Starting
<1>9. StageInv(c)' /\ NoStop(c)'
  BY <1>3, <1>4, <1>7, <1>8 DEF StageInv, NoStop, There
<1>10. KidInv(Kid(c))' BY <1>4 DEF KidInv, KidOK, There
<1>11. \A p \in Stages \ {c} : StageInv(p)' /\ NoStop(p)' BY <1>1, <1>4, Names, Untouched
<1>12. \A x \in Kids \ {Kid(c)} : KidInv(x)' BY <1>1, <1>4, Names, Untouched
<1> QED BY <1>5, <1>6, <1>9, <1>10, <1>11, <1>12 DEF TerminalInv

LEMMA NestedForks ==
    ASSUME TerminalInv, NEW c \in Stages, StageForks(c)
    PROVE  TerminalInv'
<1> DEFINE q == [proc[c] EXCEPT !.pc = "wait"]
           r == [NoProcess EXCEPT !.st = "running", !.pg = proc[c].pg, !.sig = proc[c].sig, !.pc = "setpgid"]
<1>1. c \in Procs /\ Kid(c) \in Procs /\ Kid(c) # c BY Names
<1>2. /\ proc[c].st = "running" /\ proc[c].pc = "fork"
      /\ sh' = sh /\ cmd' = cmd /\ jobs' = jobs /\ tty' = tty
  BY DEF StageForks, Runs, Others
<1>3. proc' = [proc EXCEPT ![c] = q, ![Kid(c)] = r]
  BY <1>1 DEF StageForks, TerminalInv, TypeOK
<1>4. proc[c] \in Processes BY <1>1 DEF TerminalInv, TypeOK
<1>5. /\ q \in Processes /\ q.st = proc[c].st /\ q.pc = "wait" /\ q.sig = proc[c].sig
      /\ q.pg = proc[c].pg /\ q.bg = proc[c].bg
  BY <1>4 DEF Processes
<1>6. r \in Processes /\ r.st = "running" /\ r.pc = "setpgid" /\ r.sig = proc[c].sig
  BY <1>4 DEF Processes, NoProcess
<1>7. proc[c].sig = "default"
  <2>1. StageOK(c) BY <1>1, <1>2, WhoRuns
  <2> QED BY <1>2, <2>1 DEF StageOK, Starting
<1> HIDE DEF q, r
<1> QED BY <1>2, <1>3, <1>5, <1>6, <1>7, NestedMoves DEF Nested

LEMMA NoProcessTyped ==
    NoProcess \in Processes /\ NoProcess.st = "none"
BY DEF NoProcess, Processes, Groups

LEMMA NestedWaits ==
    ASSUME TerminalInv, NEW c \in Stages, StageWaits(c)
    PROVE  TerminalInv'
<1> DEFINE q == [proc[c] EXCEPT !.pc = "grab"]
           x == Kid(c)
<1>1. c \in Procs /\ x \in Procs /\ x \in Kids /\ x # c BY Names
<1>2. /\ proc[c].st = "running" /\ proc[c].pc = "wait"
      /\ sh' = sh /\ cmd' = cmd /\ jobs' = jobs /\ tty' = tty
  BY DEF StageWaits, Runs, Others
<1>3. proc[c] \in Processes /\ proc[x] \in Processes BY <1>1 DEF TerminalInv, TypeOK
<1>4. /\ q \in Processes /\ q.st = proc[c].st /\ q.pc = "grab" /\ q.sig = proc[c].sig
      /\ q.pg = proc[c].pg /\ q.bg = proc[c].bg
  BY <1>3 DEF Processes
<1>5. CASE proc' = [proc EXCEPT ![x] = NoProcess, ![c].pc = "grab"]
  <2>1. proc' = [proc EXCEPT ![c] = q, ![Kid(c)] = NoProcess] BY <1>1, <1>5 DEF TerminalInv, TypeOK
  <2> HIDE DEF q
  <2> QED BY <1>2, <1>4, <2>1, NoProcessTyped, NestedMoves DEF Nested
<1>6. CASE proc[x].st = "stopped" /\ proc' = [proc EXCEPT ![x].told = TRUE, ![c].pc = "grab"]
  <2> DEFINE r == [proc[x] EXCEPT !.told = TRUE]
  <2>1. proc' = [proc EXCEPT ![c] = q, ![Kid(c)] = r] BY <1>1, <1>6 DEF TerminalInv, TypeOK
  <2>2. r \in Processes /\ r.sig = proc[x].sig /\ r.pc = proc[x].pc /\ r.pg = proc[x].pg
    BY <1>3 DEF Processes
  <2>3. KidOK(x) BY <1>1, <1>6 DEF TerminalInv, KidInv, There
  <2>4. r.sig = "default" /\ r.pc \in {"setpgid", "tcsetpgrp"} /\ (r.pc = "tcsetpgrp" => r.pg = Kid(c))
    BY <2>2, <2>3 DEF KidOK
  <2> HIDE DEF q, r
  <2> QED BY <1>2, <1>4, <2>1, <2>2, <2>4, NestedMoves DEF Nested
<1> QED BY <1>5, <1>6 DEF StageWaits

LEMMA ProcessEnds ==
    ASSUME TerminalInv, NEW c \in Procs, Ends(c)
    PROVE  TerminalInv'
<1> DEFINE q == [proc[c] EXCEPT !.st = "zombie"]
<1>1. /\ proc[c].st = "running" /\ proc[c].pc \in {"work", "exit"}
      /\ sh' = sh /\ cmd' = cmd /\ jobs' = jobs /\ tty' = tty
      /\ proc' = [proc EXCEPT ![c] = q]
  BY DEF Ends, Runs, Others, TerminalInv, TypeOK
<1>2. c \in Stages /\ c \notin Kids
  <2>1. c \notin Kids BY <1>1, WhoRuns DEF KidOK
  <2> QED BY <2>1, Names
<1>3. /\ q \in Processes /\ q.st = "zombie" /\ q.pc = proc[c].pc /\ q.sig = proc[c].sig /\ q.pg = proc[c].pg
      /\ q.bg = proc[c].bg
  BY DEF Processes, TerminalInv, TypeOK
<1>4. proc'[c] = q BY <1>1 DEF TerminalInv, TypeOK
<1> HIDE DEF q
<1>5. There(c) /\ There(c)' BY <1>1, <1>3, <1>4 DEF There
<1>6. /\ UnderWay(c)' = UnderWay(c) /\ Leader' = Leader /\ Index(c)' = Index(c)
      /\ Gone(c)' = Gone(c)
  BY <1>1, SameView
<1>7. StageOK(c) => StageOK(c)' BY <1>1, <1>3, <1>4, <1>6 DEF StageOK, Starting, Nested
<1>8. JobOK(c) => JobOK(c)' BY <1>3, <1>4 DEF JobOK
<1>9. StageInv(c)'
  <2>1. StageInv(c) BY <1>2 DEF TerminalInv
  <2>2. proc'[c].pc = proc[c].pc BY <1>3, <1>4
  <2> QED BY <1>1, <1>5, <1>6, <1>7, <1>8, <2>1, <2>2 DEF StageInv
<1>10. NoStop(c)' BY <1>3, <1>4 DEF NoStop
<1> QED BY <1>1, <1>2, <1>3, <1>5, <1>9, <1>10, OneMoves

LEMMA OrphanLeaves ==
    ASSUME TerminalInv, NEW c \in Stages, OrphanGone(c)
    PROVE  TerminalInv'
<1>1. /\ sh' = sh /\ cmd' = cmd /\ jobs' = jobs /\ tty' = tty
      /\ proc' = [proc EXCEPT ![Kid(c)] = NoProcess] /\ There(Kid(c))
  BY DEF OrphanGone, Others, Reap, There
<1>2. Kid(c) \in Kids /\ Kid(c) \in Procs /\ Kid(c) \notin Stages BY Names
<1>3. KidInv(Kid(c))' BY <1>1, <1>2, NoProcessTyped DEF KidInv, There, TerminalInv, TypeOK
<1> QED BY <1>1, <1>2, <1>3, NoProcessTyped, OneMoves

-----------------------------------------------------------------------------
(* Signals to a group, and the terminal changing hands.                    *)

\* Stopping a group is harmless when the user did it, or when every command that
\* it stops is in the background.
LEMMA GroupStops ==
    ASSUME TerminalInv, sh' = sh, cmd' = cmd, tty' = tty, jobs' = jobs,
           NEW g, NEW why \in {"none", "key", "tty"}, proc' = StopGroup(g, why),
           NEW p \in Procs, There(p),
           why = "tty" => \A c \in Stages :
                              proc[c].st = "running" /\ proc[c].pg = g /\ proc[c].sig = "default"
                              => proc[c].bg \/ proc[c].pc \in Nested
    PROVE  TerminalInv'
<1>1. /\ proc' \in [Procs -> Processes]
      /\ \A c \in Procs :
           IF proc[c].st = "running" /\ proc[c].pg = g /\ proc[c].sig = "default"
           THEN proc'[c] = [proc[c] EXCEPT !.st = "stopped", !.why = why, !.told = FALSE]
           ELSE proc'[c] = proc[c]
  <2>1. TypeOK BY DEF TerminalInv
  <2>2. /\ StopGroup(g, why) \in [Procs -> Processes]
        /\ \A c \in Procs :
             IF proc[c].st = "running" /\ proc[c].pg = g /\ proc[c].sig = "default"
             THEN StopGroup(g, why)[c] = [proc[c] EXCEPT !.st = "stopped", !.why = why, !.told = FALSE]
             ELSE StopGroup(g, why)[c] = proc[c]
    BY <2>1, StopTyped
  <2> QED BY <2>2
<1>2. TypeOK' BY <1>1 DEF TerminalInv, TypeOK
<1>3. Shape' /\ Owner' BY SameShell
<1>4. ASSUME NEW c \in Procs, proc'[c] # proc[c]
      PROVE  /\ proc[c].st = "running" /\ proc[c].pg = g /\ proc[c].sig = "default"
             /\ proc'[c].st = "stopped" /\ proc'[c].why = why /\ proc'[c].pc = proc[c].pc
             /\ proc'[c].sig = "default" /\ proc'[c].pg = proc[c].pg /\ proc'[c].bg = proc[c].bg
  <2>1. /\ proc[c].st = "running" /\ proc[c].pg = g /\ proc[c].sig = "default"
        /\ proc'[c] = [proc[c] EXCEPT !.st = "stopped", !.why = why, !.told = FALSE]
    BY <1>1, <1>4
  <2>2. proc[c] \in Processes BY DEF TerminalInv, TypeOK
  <2> QED BY <2>1, <2>2 DEF Processes
<1>5. ASSUME NEW c \in Stages, proc'[c] # proc[c] PROVE StageInv(c)' /\ NoStop(c)'
  <2>1. c \in Procs BY Names
  <2>2. /\ proc[c].st = "running" /\ proc[c].pg = g /\ proc[c].sig = "default"
        /\ proc'[c].st = "stopped" /\ proc'[c].why = why /\ proc'[c].pc = proc[c].pc
        /\ proc'[c].sig = "default" /\ proc'[c].pg = proc[c].pg /\ proc'[c].bg = proc[c].bg
    BY <1>4, <1>5, <2>1
  <2>3. There(c) /\ There(c)' BY <2>2 DEF There
  <2>4. /\ UnderWay(c)' = UnderWay(c) /\ Leader' = Leader /\ Index(c)' = Index(c)
        /\ Gone(c)' = Gone(c)
    BY SameView
  <2>5. StageOK(c) => StageOK(c)' BY <2>2, <2>4 DEF StageOK, Starting, Nested
  <2>6. JobOK(c) => JobOK(c)' BY <2>2 DEF JobOK
  <2>7. StageInv(c) BY DEF TerminalInv
  <2>8. StageInv(c)' BY <2>2, <2>3, <2>4, <2>5, <2>6, <2>7 DEF StageInv
  <2>9. NoStop(c)' BY <2>2 DEF NoStop, Nested
  <2> QED BY <2>8, <2>9
<1>6. ASSUME NEW x \in Kids, proc'[x] # proc[x] PROVE KidInv(x)'
  <2>1. x \in Procs BY Names
  <2>2. /\ proc[x].st = "running" /\ proc'[x].pc = proc[x].pc
        /\ proc'[x].sig = "default" /\ proc'[x].pg = proc[x].pg
    BY <1>4, <1>6, <2>1
  <2>3. KidOK(x) BY <2>1, <2>2, WhoRuns
  <2> QED BY <2>2, <2>3 DEF KidInv, KidOK
<1>7. \A c \in Stages : StageInv(c)' /\ NoStop(c)' BY <1>5, Untouched, Names
<1>8. \A x \in Kids : KidInv(x)' BY <1>6, Untouched, Names
<1> QED BY <1>2, <1>3, <1>7, <1>8 DEF TerminalInv

LEMMA KeyStops ==
    ASSUME TerminalInv, CtrlZ
    PROVE  TerminalInv'
<1>1. PICK c \in Procs : InForeground(c) BY DEF CtrlZ
<1>2. There(c) BY <1>1 DEF InForeground, There
<1> QED BY <1>2, GroupStops DEF CtrlZ, Others

LEMMA KeyEnds ==
    ASSUME TerminalInv, CtrlC
    PROVE  TerminalInv'
<1>1. PICK p \in Procs : InForeground(p) BY DEF CtrlC
<1>2. There(p) BY <1>1 DEF InForeground, There
<1>3. sh' = sh /\ cmd' = cmd /\ jobs' = jobs /\ tty' = tty BY DEF CtrlC, Others
<1>4. \A c \in Procs : proc'[c] = IF InForeground(c) THEN [proc[c] EXCEPT !.st = "zombie"] ELSE proc[c]
  BY DEF CtrlC
<1>5. \A c \in Procs : proc[c] \in Processes BY DEF TerminalInv, TypeOK
<1>6. ASSUME NEW c \in Procs, proc'[c] # proc[c]
      PROVE  /\ proc[c].st = "running" /\ proc[c].sig = "default"
             /\ proc'[c].st = "zombie" /\ proc'[c].pc = proc[c].pc
             /\ proc'[c].sig = "default" /\ proc'[c].pg = proc[c].pg /\ proc'[c].bg = proc[c].bg
  <2>1. InForeground(c) /\ proc'[c] = [proc[c] EXCEPT !.st = "zombie"] BY <1>4, <1>6
  <2>2. proc[c] \in Processes BY <1>5
  <2> QED BY <2>1, <2>2 DEF Processes, InForeground
<1>7. TypeOK'
  <2>1. \A c \in Procs : proc'[c] \in Processes BY <1>4, <1>5 DEF Processes
  <2>2. proc' = [c \in Procs |-> proc'[c]] BY DEF CtrlC
  <2>3. proc' \in [Procs -> Processes] BY <2>1, <2>2
  <2> QED BY <1>3, <2>3 DEF TerminalInv, TypeOK
<1>8. Shape' /\ Owner' BY <1>2, <1>3, SameShell
<1>9. ASSUME NEW c \in Stages, proc'[c] # proc[c] PROVE StageInv(c)' /\ NoStop(c)'
  <2>1. c \in Procs BY Names
  <2>2. /\ proc[c].st = "running" /\ proc[c].sig = "default"
        /\ proc'[c].st = "zombie" /\ proc'[c].pc = proc[c].pc
        /\ proc'[c].sig = "default" /\ proc'[c].pg = proc[c].pg /\ proc'[c].bg = proc[c].bg
    BY <1>6, <1>9, <2>1
  <2>3. There(c) /\ There(c)' BY <2>2 DEF There
  <2>4. /\ UnderWay(c)' = UnderWay(c) /\ Leader' = Leader /\ Index(c)' = Index(c)
        /\ Gone(c)' = Gone(c)
    BY <1>3, SameView
  <2>5. StageOK(c) => StageOK(c)' BY <1>3, <2>2, <2>4 DEF StageOK, Starting, Nested
  <2>6. JobOK(c) => JobOK(c)' BY <2>2 DEF JobOK
  <2>7. StageInv(c) BY DEF TerminalInv
  <2>8. StageInv(c)' BY <1>3, <2>2, <2>3, <2>4, <2>5, <2>6, <2>7 DEF StageInv
  <2> QED BY <2>2, <2>8 DEF NoStop
<1>10. ASSUME NEW x \in Kids, proc'[x] # proc[x] PROVE KidInv(x)'
  <2>1. x \in Procs BY Names
  <2>2. /\ proc[x].st = "running" /\ proc'[x].pc = proc[x].pc
        /\ proc'[x].sig = "default" /\ proc'[x].pg = proc[x].pg
    BY <1>6, <1>10, <2>1
  <2>3. KidOK(x) BY <2>1, <2>2, WhoRuns
  <2> QED BY <2>2, <2>3 DEF KidInv, KidOK
<1>11. \A c \in Stages : StageInv(c)' /\ NoStop(c)' BY <1>3, <1>9, Untouched, Names
<1>12. \A x \in Kids : KidInv(x)' BY <1>3, <1>10, Untouched, Names
<1> QED BY <1>7, <1>8, <1>11, <1>12 DEF TerminalInv

LEMMA ReaderStops ==
    ASSUME TerminalInv, NEW c \in Procs, ReadsTerminal(c)
    PROVE  TerminalInv'
<1>1. /\ proc[c].st = "running" /\ proc[c].pc = "work" /\ proc[c].pg # tty
      /\ cmd.form = "pipeline" => c \notin {"c2", "x2"}
      /\ sh' = sh /\ cmd' = cmd /\ jobs' = jobs /\ tty' = tty
      /\ proc' = StopGroup(proc[c].pg, "tty")
  BY DEF ReadsTerminal, Runs, Others
<1>2. c \in Stages
  <2>1. c \notin Kids BY <1>1, WhoRuns DEF KidOK
  <2> QED BY <2>1, Names
<1>3. There(c) BY <1>1 DEF There
<1>4. ~UnderWay(c)
  <2>1. SUFFICES ASSUME UnderWay(c) PROVE FALSE OBVIOUS
  <2>2. StageOK(c) BY <1>2, <2>1 DEF TerminalInv, StageInv
  <2>3. cmd.form = "external" \/ cmd.body = "builtin" BY <1>1, <2>2 DEF StageOK
  <2>4. ~Piped(c) BY <1>1 DEF Piped
  <2> QED BY <1>1, <2>2, <2>3, <2>4 DEF StageOK
<1>5. JobOK(c) /\ proc[c].bg /\ ~Gone(c) BY <1>1, <1>2, <1>4, WhoRuns
<1>6. ASSUME NEW d \in Stages, proc[d].st = "running", proc[d].pg = proc[c].pg PROVE proc[d].bg
  <2>1. proc[d].pg = c BY <1>5, <1>6 DEF JobOK
  <2>2. d \in Procs BY Names
  <2>3. CASE ~UnderWay(d) BY <1>6, <2>2, <2>3, WhoRuns
  <2>4. CASE UnderWay(d)
    <3>1. StageOK(d) BY <1>6, <2>4 DEF TerminalInv, StageInv
    <3>2. c = Leader BY <1>2, <2>1, <3>1, Names DEF StageOK
    <3>3. InCmd(c) BY <3>2 DEF InCmd, Leader
    <3>4. cmd.form # "pipeline" BY <1>4, <1>5, <3>3 DEF Gone
    <3>5. d = c BY <2>4, <3>2, <3>4 DEF UnderWay, InCmd, Leader
    <3> QED BY <1>4, <2>4, <3>5
  <2> QED BY <2>3, <2>4
<1> QED BY <1>1, <1>3, <1>6, GroupStops

LEMMA TerminalTaken ==
    ASSUME TerminalInv, NEW c \in Procs, ChildTakesTerminal(c)
    PROVE  TerminalInv'
<1>1. /\ proc[c].st = "running" /\ proc[c].pc = "tcsetpgrp"
      /\ sh' = sh /\ cmd' = cmd /\ jobs' = jobs
      /\ IF MayTouchTerminal(c)
         THEN tty' = c /\ proc' = [proc EXCEPT ![c].pc = "reset"]
         ELSE proc' = StopGroup(proc[c].pg, "tty") /\ tty' = tty
  BY DEF ChildTakesTerminal, Runs, Others, tcsetpgrp
<1>2. There(c) /\ sh.pc # "start" BY <1>1 DEF There, TerminalInv, Owner
<1>3. CASE c \in Kids
  <2>1. proc[c].sig = "default" /\ proc[c].pg = c BY <1>1, <1>3, WhoRuns DEF KidOK
  <2>2. tty \in {"sh", "orig"} \cup Stages BY <1>2 DEF TerminalInv, Owner
  <2>3. tty # c BY <1>3, <2>2, Names
  <2>4. ~MayTouchTerminal(c) BY <2>1, <2>3 DEF MayTouchTerminal
  <2>5. ASSUME NEW d \in Stages, proc[d].st = "running", proc[d].pg = c PROVE FALSE
    <3>1. d \in Procs /\ Leader \in Stages /\ c \notin Stages /\ c # "sh"
      BY <1>3, Names, StagesOfCommand DEF TerminalInv
    <3>2. CASE UnderWay(d)
      <4>1. StageOK(d) BY <3>2 DEF TerminalInv, StageInv
      <4> QED BY <2>5, <3>1, <4>1 DEF StageOK
    <3>3. CASE ~UnderWay(d)
      <4>1. JobOK(d) BY <2>5, <3>1, <3>3, WhoRuns
      <4> QED BY <2>5, <3>1, <4>1 DEF JobOK
    <3> QED BY <3>2, <3>3
  <2> QED BY <1>1, <1>2, <2>1, <2>4, <2>5, GroupStops
<1>4. CASE c \in Stages
  <2>1. UnderWay(c) /\ StageOK(c) /\ c \notin jobs BY <1>1, <1>4, WhoRuns
  <2>2. /\ c = Leader /\ cmd.form # "subshell" /\ proc[c].sig = "ignored" /\ proc[c].pg = c
        /\ ~proc[c].bg
    BY <1>1, <2>1 DEF StageOK, Starting
  <2>3. tty' = c /\ proc' = [proc EXCEPT ![c].pc = "reset"]
    BY <1>1, <2>2 DEF MayTouchTerminal
  <2>4. sh.pc \in {"fork", "setpgid", "wait"} BY <2>1 DEF UnderWay
  <2>5. /\ proc'[c] = [proc[c] EXCEPT !.pc = "reset"] /\ proc' \in [Procs -> Processes]
        /\ \A d \in Procs \ {c} : proc'[d] = proc[d]
    BY <2>3 DEF TerminalInv, TypeOK, Processes
  <2>6. /\ proc'[c].st = "running" /\ proc'[c].pc = "reset" /\ proc'[c].pg = c
        /\ proc'[c].sig = "ignored" /\ ~proc'[c].bg
    BY <1>1, <2>2, <2>5 DEF TerminalInv, TypeOK, Processes
  <2>7. TypeOK' BY <1>1, <2>3, <2>5 DEF TerminalInv, TypeOK, Groups
  <2>8. Shape' BY <1>1, <2>4, SameView DEF TerminalInv, Shape
  <2>9. Owner' BY <1>1, <1>4, <2>2, <2>3, <2>4 DEF TerminalInv, Owner
  <2>10. \A d : /\ UnderWay(d)' = UnderWay(d) /\ Leader' = Leader /\ Index(d)' = Index(d)
                /\ Gone(d)' = Gone(d) /\ Piped(d)' = Piped(d)
    BY <1>1, SameView
  <2>11. StageInv(c)' /\ NoStop(c)'
    <3>1. StageOK(c)' BY <1>1, <2>2, <2>3, <2>6, <2>10 DEF StageOK, Starting, Nested
    <3> QED BY <1>1, <2>1, <2>6, <2>10, <3>1 DEF StageInv, There, NoStop
  <2>12. ASSUME NEW d \in Stages, d # c PROVE StageInv(d)' /\ NoStop(d)'
    <3>1. proc'[d] = proc[d] BY <2>5, <2>12, Names
    <3>2. StageOK(d) /\ UnderWay(d) => StageOK(d)'
      <4>1. SUFFICES ASSUME StageOK(d), UnderWay(d) PROVE StageOK(d)' OBVIOUS
      <4>2. proc[d].pc # "setpgid" => proc[d].pg = Leader BY <2>2, <4>1 DEF StageOK
      <4> QED BY <1>1, <2>2, <2>3, <2>10, <3>1, <4>1, <4>2 DEF StageOK
    <3>3. JobOK(d) => JobOK(d)' BY <3>1 DEF JobOK
    <3>4. StageInv(d) BY <2>12 DEF TerminalInv
    <3>5. There(d)' = There(d) BY <3>1 DEF There
    <3>6. StageInv(d)' BY <1>1, <2>10, <3>1, <3>2, <3>3, <3>4, <3>5 DEF StageInv
    <3> QED BY <3>1, <3>6 DEF TerminalInv, NoStop
  <2>13. \A x \in Kids : KidInv(x)'
    <3>1. \A x \in Kids : proc'[x] = proc[x] BY <1>4, <2>5, Names
    <3> QED BY <3>1 DEF TerminalInv, KidInv, KidOK, There
  <2> QED BY <2>7, <2>8, <2>9, <2>11, <2>12, <2>13 DEF TerminalInv
<1> QED BY <1>3, <1>4, Names

LEMMA NestedGrabs ==
    ASSUME TerminalInv, NEW c \in Stages, StageGrabs(c)
    PROVE  TerminalInv'
<1>1. /\ proc[c].st = "running" /\ proc[c].pc = "grab"
      /\ sh' = sh /\ cmd' = cmd /\ jobs' = jobs
      /\ IF MayTouchTerminal(c)
         THEN tty' = "sh" /\ proc' = [proc EXCEPT ![c].pc = "exit"]
         ELSE proc' = StopGroup(proc[c].pg, "tty") /\ tty' = tty
  BY DEF StageGrabs, Runs, Others, tcsetpgrp
<1>2. c \in Procs /\ c \notin Kids BY Names
<1>3. There(c) /\ UnderWay(c) /\ StageOK(c) /\ c \notin jobs BY <1>1, <1>2, WhoRuns
<1>4. /\ cmd.form # "external" /\ cmd.body = "external" /\ proc[c].sig = "default" /\ ~proc[c].bg
      /\ cmd.form # "subshell" => proc[c].pg = Leader
      /\ cmd.form = "subshell" => proc[c].pg = "sh"
  BY <1>1, <1>3 DEF StageOK, Starting, Nested
<1>5. sh.pc \in {"fork", "setpgid", "wait"} BY <1>3 DEF UnderWay
<1>6. cmd.form = "subshell" => tty = "sh" BY <1>5 DEF TerminalInv, Owner
<1>7. CASE ~MayTouchTerminal(c)
  <2>1. cmd.form # "subshell" BY <1>4, <1>6, <1>7 DEF MayTouchTerminal
  <2>2. cmd.form = "pipeline" BY <1>4, <2>1 DEF TerminalInv, TypeOK, Commands
  <2>3. ASSUME NEW d \in Stages, proc[d].st = "running", proc[d].pg = proc[c].pg,
               proc[d].sig = "default"
        PROVE  proc[d].bg \/ proc[d].pc \in Nested
    <3>1. d \in Procs BY Names
    <3>2. CASE UnderWay(d)
      <4>1. StageOK(d) BY <3>2 DEF TerminalInv, StageInv
      <4>2. proc[d].pc # "work" /\ proc[d].pc \notin Starting
        BY <1>4, <2>3, <4>1 DEF StageOK
      <4>3. proc[d] \in Processes BY <3>1 DEF TerminalInv, TypeOK
      <4> QED BY <4>2, <4>3 DEF Processes, Nested, Starting
    <3>3. CASE ~UnderWay(d) BY <2>3, <3>1, <3>3, WhoRuns
    <3> QED BY <3>2, <3>3
  <2> QED BY <1>1, <1>2, <1>3, <1>7, <2>3, GroupStops
<1>8. CASE MayTouchTerminal(c)
  <2>1. tty' = "sh" /\ proc' = [proc EXCEPT ![c].pc = "exit"] BY <1>1, <1>8
  <2>2. /\ proc'[c] = [proc[c] EXCEPT !.pc = "exit"] /\ proc' \in [Procs -> Processes]
        /\ \A d \in Procs \ {c} : proc'[d] = proc[d]
    BY <1>2, <2>1 DEF TerminalInv, TypeOK, Processes
  <2>3. /\ proc'[c].st = "running" /\ proc'[c].pc = "exit" /\ proc'[c].pg = proc[c].pg
        /\ proc'[c].sig = "default" /\ ~proc'[c].bg
    BY <1>1, <1>2, <1>4, <2>2 DEF TerminalInv, TypeOK, Processes
  <2>4. TypeOK' BY <1>1, <2>1, <2>2 DEF TerminalInv, TypeOK, Groups
  <2>5. Shape' BY <1>1, <1>5, SameView DEF TerminalInv, Shape
  <2>6. Owner' BY <1>1, <1>5, <2>1 DEF TerminalInv, Owner
  <2>7. \A d : /\ UnderWay(d)' = UnderWay(d) /\ Leader' = Leader /\ Index(d)' = Index(d)
               /\ Gone(d)' = Gone(d) /\ Piped(d)' = Piped(d)
    BY <1>1, SameView
  <2>8. StageInv(c)' /\ NoStop(c)'
    <3>1. proc[c].pg = "sh" \/ (cmd.form # "subshell" /\ proc[c].pg = Leader) BY <1>3 DEF StageOK
    <3>2. StageOK(c)' BY <1>1, <1>4, <2>3, <2>7, <3>1 DEF StageOK, Starting, Nested
    <3> QED BY <1>1, <1>3, <2>3, <2>7, <3>2 DEF StageInv, There, NoStop
  <2>9. ASSUME NEW d \in Stages, d # c PROVE StageInv(d)' /\ NoStop(d)'
    <3>1. proc'[d] = proc[d] BY <2>2, <2>9, Names
    <3>2. StageOK(d) => StageOK(d)'
      <4>1. SUFFICES ASSUME StageOK(d) PROVE StageOK(d)' OBVIOUS
      <4>2. ~(cmd.form = "external" \/ cmd.body = "builtin") BY <1>4
      <4> QED BY <1>1, <2>7, <3>1, <4>1, <4>2 DEF StageOK
    <3>3. JobOK(d) => JobOK(d)' BY <3>1 DEF JobOK
    <3>4. StageInv(d) BY <2>9 DEF TerminalInv
    <3>5. There(d)' = There(d) BY <3>1 DEF There
    <3>6. StageInv(d)' BY <1>1, <2>7, <3>1, <3>2, <3>3, <3>4, <3>5 DEF StageInv
    <3> QED BY <3>1, <3>6 DEF TerminalInv, NoStop
  <2>10. \A x \in Kids : KidInv(x)'
    <3>1. \A x \in Kids : proc'[x] = proc[x] BY <2>2, Names
    <3> QED BY <3>1 DEF TerminalInv, KidInv, KidOK, There
  <2> QED BY <2>4, <2>5, <2>6, <2>8, <2>9, <2>10 DEF TerminalInv
<1> QED BY <1>7, <1>8

-----------------------------------------------------------------------------
(* Steps of the shell that change processes.                               *)

\* What is left to show of a step of the shell that changes one stage.
LEMMA ShellMoves ==
    ASSUME TerminalInv, cmd' = cmd, tty' = tty, TypeOK', Shape', Owner',
           NEW s \in Stages, \A p \in Procs \ {s} : proc'[p] = proc[p],
           StageInv(s)', NoStop(s)',
           \A c \in Stages \ {s} : /\ UnderWay(c)' => UnderWay(c) /\ (StageOK(c) => StageOK(c)')
                                   /\ There(c) /\ UnderWay(c) => UnderWay(c)'
                                   /\ There(c) /\ Gone(c)' => Gone(c)
                                   /\ c \in jobs' <=> c \in jobs
    PROVE  TerminalInv'
<1>1. ASSUME NEW c \in Stages \ {s} PROVE StageInv(c)' /\ NoStop(c)'
  <2>1. proc'[c] = proc[c] BY Names
  <2>2. StageInv(c) /\ NoStop(c) BY DEF TerminalInv
  <2>3. There(c)' = There(c) BY <2>1 DEF There
  <2>4. JobOK(c) => JobOK(c)' BY <2>1 DEF JobOK
  <2>5. StageInv(c)' BY <1>1, <2>1, <2>2, <2>3, <2>4 DEF StageInv
  <2> QED BY <2>1, <2>2, <2>5 DEF NoStop
<1>2. \A x \in Kids : KidInv(x)'
  <2>1. \A x \in Kids : proc'[x] = proc[x] BY Names
  <2> QED BY <2>1 DEF TerminalInv, KidInv, KidOK, There
<1> QED BY <1>1, <1>2 DEF TerminalInv

\* What a step of the shell to another of its states does not touch.
LEMMA SameStage ==
    ASSUME cmd' = cmd, tty' = tty, NEW c \in Stages, proc'[c] = proc[c],
           StageOK(c),
           cmd.form # "subshell" /\ (sh'.pc = "wait" \/ Index(c) < sh'.i) =>
             sh.pc = "wait" \/ Index(c) < sh.i \/ proc[c].pg = Leader
    PROVE  StageOK(c)'
<1>1. Leader' = Leader /\ Index(c)' = Index(c) /\ Piped(c)' = Piped(c)
  BY DEF Leader, Index, Piped
<1> QED BY <1>1 DEF StageOK

LEMMA ShellForks ==
    ASSUME TerminalInv, Fork
    PROVE  TerminalInv'
<1>0. PICK s \in Stages : s = Stage BY StagesOfCommand DEF TerminalInv
<1> DEFINE q == [NoProcess EXCEPT !.st = "running", !.sig = "ignored", !.pg = "sh",
                                  !.pc = IF cmd.form = "subshell" THEN "reset" ELSE "setpgid"]
<1>1. /\ sh.pc = "fork" /\ proc' = [proc EXCEPT ![s] = q]
      /\ sh' = [sh EXCEPT !.pc = IF cmd.form = "subshell" THEN "wait" ELSE "setpgid"]
      /\ tty' = tty /\ cmd' = cmd /\ jobs' = jobs
  BY <1>0 DEF Fork
<1>2. /\ s \in Stages /\ s \in Procs /\ sh.i \in {1, 2}
      /\ \A c \in Stages : Index(c) = sh.i /\ InCmd(c) <=> c = s
      /\ cmd.form # "pipeline" => sh.i = 1 /\ s = Leader
  BY <1>0, StagesOfCommand, Names DEF TerminalInv
<1>3. /\ sh'.i = sh.i
      /\ sh'.pc = IF cmd.form = "subshell" THEN "wait" ELSE "setpgid"
      /\ sh' \in [pc : {"wait", "setpgid"}, i : 1 .. 2]
  BY <1>1 DEF TerminalInv, TypeOK
<1>4. /\ q \in Processes /\ q.st = "running" /\ q.sig = "ignored" /\ q.pg = "sh" /\ ~q.bg
      /\ q.pc = IF cmd.form = "subshell" THEN "reset" ELSE "setpgid"
  BY DEF NoProcess, Processes, Groups
<1>5. proc'[s] = q /\ \A p \in Procs \ {s} : proc'[p] = proc[p]
  BY <1>1, <1>2 DEF TerminalInv, TypeOK
<1>6. TypeOK'
  <2> HIDE DEF q
  <2>1. proc' \in [Procs -> Processes] BY <1>1, <1>2, <1>4 DEF TerminalInv, TypeOK
  <2> QED BY <1>1, <1>3, <2>1 DEF TerminalInv, TypeOK
<1> HIDE DEF q
<1>7. Shape' BY <1>1, <1>3 DEF TerminalInv, Shape
<1>8. Owner' BY <1>1, <1>3 DEF TerminalInv, Owner
<1>9. \A c : InCmd(c)' = InCmd(c) /\ Index(c)' = Index(c) /\ Index(c) \in {1, 2}
  BY <1>1 DEF InCmd, Index
<1>10. s \notin jobs
  <2>1. InCmd(s) /\ ~UnderWay(s) BY <1>1, <1>2 DEF UnderWay
  <2>2. Gone(s) BY <1>1, <2>1 DEF Gone
  <2> QED BY <1>2, <2>1, <2>2 DEF TerminalInv, StageInv
<1>11. StageOK(s)'
  <2>1. Leader' = Leader BY <1>1 DEF Leader
  <2>2. cmd.form = "subshell" => tty = "sh" BY <1>1 DEF TerminalInv, Owner
  <2>3. Index(s) = sh.i BY <1>2
  <2>4. ~(Index(s)' < sh'.i) BY <1>2, <1>3, <1>9, <2>3
  <2> QED BY <1>1, <1>3, <1>4, <1>5, <2>1, <2>2, <2>4 DEF StageOK, Starting, Nested
<1>12. StageInv(s)'
  <2>1. InCmd(s)' /\ Index(s)' = sh.i BY <1>2, <1>9
  <2>2. UnderWay(s)' BY <1>2, <1>3, <2>1 DEF UnderWay
  <2> QED BY <1>1, <1>4, <1>5, <1>10, <1>11, <2>2 DEF StageInv, There
<1>13. NoStop(s)' BY <1>4, <1>5 DEF NoStop
<1>14. ASSUME NEW c \in Stages \ {s}
       PROVE  /\ UnderWay(c)' = UnderWay(c)
              /\ Gone(c)' = Gone(c)
              /\ UnderWay(c) /\ StageOK(c) => StageOK(c)'
  <2>1. InCmd(c) => Index(c) # sh.i BY <1>2
  <2>2. CASE cmd.form = "subshell"
    <3>1. ~InCmd(c) BY <1>2, <2>2 DEF InCmd, Leader
    <3> QED BY <1>9, <3>1 DEF UnderWay, Gone
  <2>3. CASE cmd.form # "subshell"
    <3>1. UnderWay(c)' = UnderWay(c) BY <1>1, <1>2, <1>3, <1>9, <2>1, <2>3 DEF UnderWay
    <3>2. Gone(c)' = Gone(c) BY <1>1, <1>3, <1>9, <2>3, <3>1 DEF Gone
    <3>3. ASSUME UnderWay(c), StageOK(c) PROVE StageOK(c)'
      <4>1. proc'[c] = proc[c] BY <1>5, Names
      <4>2. Index(c) < sh.i BY <1>1, <3>3 DEF UnderWay
      <4> QED BY <1>1, <3>3, <4>1, <4>2, SameStage
    <3> QED BY <3>1, <3>2, <3>3
  <2> QED BY <2>2, <2>3
<1>15. \A c \in Stages : UnderWay(c) => StageOK(c) BY DEF TerminalInv, StageInv
<1> QED BY <1>1, <1>2, <1>5, <1>6, <1>7, <1>8, <1>12, <1>13, <1>14, <1>15, ShellMoves

LEMMA ShellGroups ==
    ASSUME TerminalInv, SetChildGroup
    PROVE  TerminalInv'
<1>0. PICK s \in Stages : s = Stage BY StagesOfCommand DEF TerminalInv
<1> DEFINE q == [proc[s] EXCEPT !.pg = Leader]
<1>1. /\ sh.pc = "setpgid" /\ tty' = tty /\ cmd' = cmd /\ jobs' = jobs
      /\ sh' = IF Last THEN [pc |-> "wait", i |-> 1] ELSE [pc |-> "fork", i |-> sh.i + 1]
      /\ proc' = [proc EXCEPT ![s].pg = setpgid(s, Leader)]
  BY <1>0 DEF SetChildGroup, NextStage
<1>2. /\ s \in Stages /\ s \in Procs /\ sh.i \in {1, 2} /\ (s = Leader <=> sh.i = 1)
      /\ \A c \in Stages : Index(c) = sh.i /\ InCmd(c) <=> c = s
      /\ cmd.form # "pipeline" => sh.i = 1 /\ s = Leader
      /\ Leader \in Stages /\ Leader \in Procs
      /\ Last <=> (cmd.form = "pipeline" => sh.i = 2)
  BY <1>0, StagesOfCommand, Names DEF TerminalInv
<1>3. cmd.form # "subshell" BY <1>1 DEF TerminalInv, Owner
<1>4. \A c \in Stages : UnderWay(c) => There(c) /\ StageOK(c) BY DEF TerminalInv, StageInv
<1>5. UnderWay(s)
  <2>1. InCmd(s) /\ Index(s) = sh.i BY <1>2
  <2> QED BY <1>1, <1>2, <2>1 DEF UnderWay
<1>6. setpgid(s, Leader) = Leader
  <2>1. CASE s = Leader BY <2>1 DEF setpgid
  <2>2. CASE s # Leader
    <3>1. sh.i = 2 BY <1>2, <2>2
    <3>2. InCmd(Leader) /\ cmd.form = "pipeline" BY <1>2, <3>1 DEF InCmd, Leader
    <3>3. Leader = "c1" BY <3>2, StagesOfCommand DEF TerminalInv
    <3>4. Index(Leader) = 1 BY <3>3 DEF Index
    <3>5. UnderWay(Leader) BY <1>1, <3>1, <3>2, <3>4 DEF UnderWay
    <3>6. There(Leader) /\ proc[Leader].pg = Leader BY <1>2, <1>3, <1>4, <3>1, <3>4, <3>5 DEF StageOK
    <3> QED BY <1>2, <3>6 DEF setpgid, Members, There
  <2> QED BY <2>1, <2>2
<1>7. /\ q \in Processes /\ q.st = proc[s].st /\ q.sig = proc[s].sig /\ q.pg = Leader
      /\ q.bg = proc[s].bg /\ q.pc = proc[s].pc /\ q.why = proc[s].why
  BY <1>2 DEF Processes, Groups, TerminalInv, TypeOK
<1>8. proc' = [proc EXCEPT ![s] = q] BY <1>1, <1>2, <1>6 DEF TerminalInv, TypeOK
<1>9. proc'[s] = q /\ \A p \in Procs \ {s} : proc'[p] = proc[p]
  BY <1>2, <1>8 DEF TerminalInv, TypeOK
<1>10. /\ sh' \in [pc : {"wait", "fork"}, i : 1 .. 2]
       /\ IF Last THEN sh'.pc = "wait" /\ sh'.i = 1
                  ELSE sh'.pc = "fork" /\ sh'.i = 2 /\ sh.i = 1 /\ cmd.form = "pipeline"
  BY <1>1, <1>2
<1>11. TypeOK'
  <2> HIDE DEF q
  <2>1. proc' \in [Procs -> Processes] BY <1>2, <1>7, <1>8 DEF TerminalInv, TypeOK
  <2> QED BY <1>1, <1>10, <2>1 DEF TerminalInv, TypeOK
<1> HIDE DEF q
<1>12. Shape'
  <2>1. cmd.stages \in {<<"c1">>, <<"c2">>} => cmd.form # "pipeline" BY DEF TerminalInv, Shape
  <2> QED BY <1>1, <1>2, <1>10, <2>1 DEF TerminalInv, Shape
<1>13. Owner' BY <1>1, <1>3, <1>10 DEF TerminalInv, Owner
<1>14. \A c : InCmd(c)' = InCmd(c) /\ Index(c)' = Index(c) /\ Piped(c)' = Piped(c) /\ Leader' = Leader
              /\ Index(c) \in {1, 2}
  BY <1>1 DEF InCmd, Index, Leader, Piped
<1>15. ASSUME NEW c \in Stages PROVE (UnderWay(c)' <=> UnderWay(c)) /\ (Gone(c)' <=> Gone(c))
  <2>1. UnderWay(c)' <=> UnderWay(c)
    <3>1. UnderWay(c) <=> InCmd(c) /\ Index(c) <= sh.i BY <1>1 DEF UnderWay
    <3>2. CASE Last
      <4>1. UnderWay(c)' <=> InCmd(c) BY <1>10, <1>14, <3>2 DEF UnderWay
      <4>2. Index(c) <= sh.i BY <1>2, <1>14, <3>2 DEF Index
      <4> QED BY <3>1, <4>1, <4>2
    <3>3. CASE ~Last
      <4>1. UnderWay(c)' <=> InCmd(c) /\ Index(c) < 2 BY <1>10, <1>14, <3>3 DEF UnderWay
      <4>2. sh.i = 1 /\ Index(c) \in {1, 2} BY <1>10, <1>14, <3>3
      <4>3. Index(c) < 2 <=> Index(c) <= sh.i BY <4>2
      <4> QED BY <3>1, <4>1, <4>3
    <3> QED BY <3>2, <3>3
  <2> QED BY <1>1, <1>10, <1>14, <2>1 DEF Gone
<1>16. StageOK(s)'
  <2>1. StageOK(s) BY <1>2, <1>4, <1>5
  <2>2. proc[s].pc # "setpgid" => proc[s].pg = Leader BY <1>3, <2>1 DEF StageOK
  <2>3. proc'[s].pg = Leader BY <1>7, <1>9
  <2> QED BY <1>1, <1>3, <1>7, <1>9, <1>14, <2>1, <2>2, <2>3 DEF StageOK, Starting, Nested
<1>17. StageInv(s)'
  <2>1. proc'[s].pc = proc[s].pc /\ proc'[s].st = proc[s].st BY <1>7, <1>9
  <2> QED BY <1>1, <1>2, <1>4, <1>5, <1>15, <1>16, <2>1 DEF TerminalInv, StageInv, There
<1>18. NoStop(s)' BY <1>2, <1>7, <1>9 DEF TerminalInv, NoStop
<1>19. ASSUME NEW c \in Stages \ {s}, UnderWay(c) PROVE StageOK(c)'
  <2>1. proc'[c] = proc[c] BY <1>9, Names
  <2>2. Index(c) < sh.i
    <3>1. InCmd(c) /\ Index(c) <= sh.i /\ Index(c) # sh.i BY <1>1, <1>2, <1>19 DEF UnderWay
    <3> QED BY <1>2, <1>14, <3>1
  <2> QED BY <1>1, <1>4, <1>19, <2>1, <2>2, SameStage
<1> QED BY <1>1, <1>2, <1>9, <1>11, <1>12, <1>13, <1>15, <1>17, <1>18, <1>19, ShellMoves

LEMMA ShellCollects ==
    ASSUME TerminalInv, StageEnded
    PROVE  TerminalInv'
<1>0. PICK s \in Stages : s = Stage BY StagesOfCommand DEF TerminalInv
<1>1. /\ sh.pc = "wait" /\ tty' = tty /\ cmd' = cmd /\ jobs' = jobs \ {s}
      /\ sh' = IF ~Last THEN [sh EXCEPT !.i = sh.i + 1]
               ELSE [sh EXCEPT !.pc = IF cmd.form = "subshell" THEN "prompt" ELSE "grab"]
      /\ proc' = [proc EXCEPT ![s] = NoProcess] /\ proc[s].st = "zombie"
  BY <1>0 DEF StageEnded, Reap
<1>2. /\ s \in Procs /\ sh.i \in {1, 2} /\ (s = Leader <=> sh.i = 1)
      /\ \A c \in Stages : Index(c) = sh.i /\ InCmd(c) <=> c = s
      /\ cmd.form # "pipeline" => sh.i = 1 /\ s = Leader
      /\ Leader \in Stages /\ Leader \in Procs
      /\ Last <=> (cmd.form = "pipeline" => sh.i = 2)
  BY <1>0, StagesOfCommand, Names DEF TerminalInv
<1>3. /\ Last => sh'.pc = (IF cmd.form = "subshell" THEN "prompt" ELSE "grab") /\ sh'.i = sh.i
      /\ ~Last => sh'.pc = "wait" /\ sh'.i = 2 /\ sh.i = 1 /\ cmd.form = "pipeline"
      /\ sh' \in [pc : {"wait", "prompt", "grab"}, i : 1 .. 2]
  BY <1>1, <1>2 DEF TerminalInv, TypeOK
<1>4. proc'[s] = NoProcess /\ \A p \in Procs \ {s} : proc'[p] = proc[p]
  BY <1>1, <1>2 DEF TerminalInv, TypeOK
<1>5. TypeOK' BY <1>1, <1>3, NoProcessTyped DEF TerminalInv, TypeOK
<1>6. Shape' BY <1>1, <1>2, <1>3 DEF TerminalInv, Shape
<1>7. Owner' BY <1>1, <1>2, <1>3 DEF TerminalInv, Owner
<1>8. \A c : InCmd(c)' = InCmd(c) /\ Index(c)' = Index(c) /\ Leader' = Leader /\ Index(c) \in {1, 2}
  BY <1>1 DEF InCmd, Index, Leader
<1>9. ~There(s)' BY <1>4, NoProcessTyped DEF There
<1>10. ASSUME NEW c \in Stages, UnderWay(c)'
       PROVE  c # s /\ UnderWay(c) /\ (StageOK(c) => StageOK(c)')
  <2>1. ~Last BY <1>3, <1>10 DEF UnderWay
  <2>2. InCmd(c) /\ Index(c) >= 2 BY <1>3, <1>8, <1>10, <2>1 DEF UnderWay
  <2>3. UnderWay(c) BY <1>1, <1>3, <1>8, <2>1, <2>2 DEF UnderWay
  <2>4. c # s BY <1>2, <1>3, <2>1, <2>2
  <2>5. proc'[c] = proc[c] BY <1>4, <2>4, Names
  <2>6. StageOK(c) => StageOK(c)' BY <1>1, <2>5, SameStage
  <2> QED BY <2>3, <2>4, <2>6
<1>11. ASSUME NEW c \in Stages \ {s}
       PROVE  /\ There(c) /\ UnderWay(c) => UnderWay(c)'
              /\ There(c) /\ Gone(c)' => Gone(c)
  <2>1. InCmd(c) => cmd.form = "pipeline" BY <1>2 DEF InCmd, Leader
  <2>2. InCmd(c) => Index(c) # sh.i BY <1>2
  <2>3. UnderWay(c) => UnderWay(c)'
    <3>1. SUFFICES ASSUME UnderWay(c) PROVE UnderWay(c)' OBVIOUS
    <3>2. InCmd(c) /\ Index(c) >= sh.i BY <1>1, <3>1 DEF UnderWay
    <3>3. Index(c) = 2 /\ sh.i = 1 BY <1>2, <1>8, <2>2, <3>2
    <3>4. ~Last BY <1>2, <2>1, <3>2, <3>3
    <3> QED BY <1>3, <1>8, <3>2, <3>3, <3>4 DEF UnderWay
  <2>4. Gone(c)' => Gone(c)
    <3>1. SUFFICES ASSUME Gone(c)' PROVE Gone(c) OBVIOUS
    <3>2. InCmd(c) /\ ~UnderWay(c) BY <1>8, <2>3, <3>1 DEF Gone
    <3> QED BY <2>1, <3>2 DEF Gone
  <2> QED BY <2>3, <2>4
<1>12. StageInv(s)' BY <1>1, <1>9, <1>10 DEF StageInv
<1>13. NoStop(s)' BY <1>4, NoProcessTyped DEF NoStop
<1> QED BY <1>1, <1>4, <1>5, <1>6, <1>7, <1>10, <1>11, <1>12, <1>13, ShellMoves

LEMMA ShellSeesStop ==
    ASSUME TerminalInv, StageStopped
    PROVE  TerminalInv'
<1>0. PICK s \in Stages : s = Stage BY StagesOfCommand DEF TerminalInv
<1> DEFINE q == [proc[s] EXCEPT !.told = TRUE]
<1>1. /\ sh.pc = "wait" /\ cmd.form = "external" /\ tty' = tty /\ cmd' = cmd /\ jobs' = jobs \cup {s}
      /\ sh' = [sh EXCEPT !.pc = "grab"]
      /\ proc[s].st = "stopped" /\ proc' = [proc EXCEPT ![s] = q]
  BY <1>0 DEF StageStopped, TerminalInv, TypeOK
<1>2. s \in Procs /\ sh.i = 1 /\ s = Leader BY <1>0, <1>1, StagesOfCommand, Names DEF TerminalInv
<1>3. /\ q \in Processes /\ q.st = "stopped" /\ q.sig = proc[s].sig /\ q.pg = proc[s].pg
      /\ q.bg = proc[s].bg /\ q.pc = proc[s].pc /\ q.why = proc[s].why
  BY <1>1, <1>2 DEF Processes, TerminalInv, TypeOK
<1>4. proc'[s] = q /\ \A p \in Procs \ {s} : proc'[p] = proc[p]
  BY <1>1, <1>2 DEF TerminalInv, TypeOK
<1>5. sh'.pc = "grab" /\ sh'.i = 1 /\ sh' \in [pc : {"grab"}, i : 1 .. 2]
  BY <1>1, <1>2 DEF TerminalInv, TypeOK
<1>6. TypeOK'
  <2> HIDE DEF q
  <2>1. proc' \in [Procs -> Processes] BY <1>1, <1>2, <1>3 DEF TerminalInv, TypeOK
  <2> QED BY <1>1, <1>5, <2>1 DEF TerminalInv, TypeOK
<1> HIDE DEF q
<1>7. Shape' BY <1>1, <1>5 DEF TerminalInv, Shape
<1>8. Owner' BY <1>1, <1>5 DEF TerminalInv, Owner
<1>9. \A c : ~UnderWay(c)' /\ ~Gone(c)' BY <1>1, <1>5 DEF UnderWay, Gone
<1>10. JobOK(s)' /\ proc[s].pc = "work"
  <2>1. InCmd(s) /\ Index(s) = 1 BY <1>1, <1>2 DEF InCmd, Leader, Index
  <2>2. UnderWay(s) BY <1>1, <1>2, <2>1 DEF UnderWay
  <2>3. StageOK(s) BY <2>2 DEF TerminalInv, StageInv
  <2>4. proc[s].pc \notin Starting /\ proc[s].pc \notin Nested /\ proc[s].sig = "default"
    BY <1>1, <2>3 DEF StageOK
  <2>5. proc[s].pc = "work" BY <1>2, <2>4 DEF TerminalInv, TypeOK, Processes, Starting, Nested
  <2>6. proc[s].pg = s BY <1>1, <1>2, <2>3, <2>5 DEF StageOK
  <2> QED BY <1>3, <1>4, <2>4, <2>5, <2>6 DEF JobOK
<1>11. StageInv(s)' BY <1>3, <1>4, <1>9, <1>10 DEF StageInv, There
<1>12. NoStop(s)' BY <1>1, <1>3, <1>4 DEF TerminalInv, NoStop
<1>13. \A c \in Stages \ {s} : ~UnderWay(c) BY <1>1, <1>2 DEF UnderWay, InCmd, Leader
<1> QED BY <1>1, <1>4, <1>6, <1>7, <1>8, <1>9, <1>11, <1>12, <1>13, ShellMoves

LEMMA ShellReaps ==
    ASSUME TerminalInv, NEW c \in Stages, shReapJobs(c)
    PROVE  TerminalInv'
<1> DEFINE q == [proc[c] EXCEPT !.told = TRUE]
<1>1. sh.pc = "prompt" /\ c \in jobs /\ sh' = sh /\ cmd' = cmd /\ tty' = tty
  BY DEF shReapJobs
<1>2. c \in Procs BY Names
<1>3. There(c) /\ ~UnderWay(c) BY <1>1 DEF TerminalInv, StageInv, UnderWay
<1>4. \A d : /\ UnderWay(d)' = UnderWay(d) /\ Gone(d)' = Gone(d)
             /\ ~UnderWay(d)
  BY <1>1, SameView DEF UnderWay
<1>5. Shape' BY <1>1, SameView DEF TerminalInv, Shape
<1>6. Owner' BY <1>1 DEF TerminalInv, Owner
<1>7. CASE proc[c].st = "zombie" /\ proc' = Reap(c) /\ jobs' = jobs \ {c}
  <2>1. TypeOK' BY <1>1, <1>2, <1>7, NoProcessTyped DEF TerminalInv, TypeOK, Reap
  <2>2. proc'[c] = NoProcess /\ \A p \in Procs \ {c} : proc'[p] = proc[p]
    BY <1>2, <1>7 DEF TerminalInv, TypeOK, Reap
  <2>3. StageInv(c)' /\ NoStop(c)'
    BY <1>4, <1>7, <2>2, NoProcessTyped DEF StageInv, There, NoStop
  <2> QED BY <1>1, <1>4, <1>5, <1>6, <1>7, <2>1, <2>2, <2>3, ShellMoves
<1>8. CASE proc[c].st = "stopped" /\ proc' = [proc EXCEPT ![c].told = TRUE] /\ jobs' = jobs
  <2>1. proc' = [proc EXCEPT ![c] = q] BY <1>8 DEF TerminalInv, TypeOK
  <2>2. /\ q \in Processes /\ q.st = proc[c].st /\ q.sig = proc[c].sig /\ q.pg = proc[c].pg
        /\ q.bg = proc[c].bg /\ q.pc = proc[c].pc /\ q.why = proc[c].why
    BY <1>2 DEF Processes, TerminalInv, TypeOK
  <2>3. proc'[c] = q BY <1>2, <2>1 DEF TerminalInv, TypeOK
  <2> HIDE DEF q
  <2>4. StageInv(c)'
    <3>1. StageInv(c) BY DEF TerminalInv
    <3>2. There(c)' = There(c) BY <2>2, <2>3 DEF There
    <3>3. JobOK(c) => JobOK(c)' BY <2>2, <2>3 DEF JobOK
    <3> QED BY <1>3, <1>4, <1>8, <2>2, <2>3, <3>1, <3>2, <3>3 DEF StageInv
  <2>5. NoStop(c)' BY <2>2, <2>3 DEF TerminalInv, NoStop
  <2> QED BY <1>1, <1>2, <1>3, <1>8, <2>1, <2>2, <2>4, <2>5, Names, OneMoves
<1> QED BY <1>7, <1>8 DEF shReapJobs

\* Continuing the group of a job, by fg or by bg, continues that job and the
\* processes below stages that are in its group.
LEMMA JobContinues ==
    ASSUME TerminalInv, NEW s \in Stages, There(s), ~UnderWay(s), NEW bg \in BOOLEAN,
           proc' = ContinueGroup(s, bg), \A d \in Stages : ~UnderWay(d)
    PROVE  /\ proc' \in [Procs -> Processes]
           /\ \A d \in Stages \ {s} : proc'[d] = proc[d]
           /\ proc'[s].pc = "work" /\ proc'[s].pg = s /\ proc'[s].sig = "default"
           /\ proc'[s].st \in {"running", "zombie"} /\ (proc'[s].st = "running" => proc'[s].bg = bg)
           /\ \A x \in Kids : KidInv(x)'
<1>1. TypeOK BY DEF TerminalInv
<1>2. /\ ContinueGroup(s, bg) \in [Procs -> Processes]
      /\ \A p \in Procs :
           IF proc[p].st \in {"running", "stopped"} /\ proc[p].pg = s
           THEN ContinueGroup(s, bg)[p] =
                  [proc[p] EXCEPT !.st = "running", !.why = "none", !.told = FALSE, !.bg = bg]
           ELSE ContinueGroup(s, bg)[p] = proc[p]
  BY <1>1, ContinueTyped
<1>3. /\ proc' \in [Procs -> Processes]
      /\ \A p \in Procs :
           IF proc[p].st \in {"running", "stopped"} /\ proc[p].pg = s
           THEN proc'[p] = [proc[p] EXCEPT !.st = "running", !.why = "none", !.told = FALSE, !.bg = bg]
           ELSE proc'[p] = proc[p]
  BY <1>2
<1>4. \A p \in Procs : proc[p] \in Processes BY <1>1 DEF TypeOK
<1>5. \A d \in Stages : There(d) => JobOK(d) BY DEF TerminalInv, StageInv
<1>6. ASSUME NEW d \in Stages \ {s} PROVE proc'[d] = proc[d]
  <2>1. d \in Procs BY Names
  <2>2. proc[d].st \in {"running", "stopped"} => proc[d].pg # s BY <1>5, <1>6 DEF There, JobOK
  <2> QED BY <1>3, <2>1, <2>2
<1>7. /\ proc'[s].pc = "work" /\ proc'[s].pg = s /\ proc'[s].sig = "default"
      /\ proc'[s].st \in {"running", "zombie"} /\ (proc'[s].st = "running" => proc'[s].bg = bg)
  <2>1. JobOK(s) /\ s \in Procs BY <1>5, Names
  <2>2. CASE proc[s].st \in {"running", "stopped"}
    <3>1. proc'[s] = [proc[s] EXCEPT !.st = "running", !.why = "none", !.told = FALSE, !.bg = bg]
      BY <1>3, <2>1, <2>2 DEF JobOK
    <3> QED BY <1>4, <2>1, <3>1 DEF JobOK, Processes
  <2>3. CASE proc[s].st \notin {"running", "stopped"}
    <3>1. proc'[s] = proc[s] BY <1>3, <2>1, <2>3
    <3>2. proc[s].st = "zombie" BY <1>4, <2>1, <2>3 DEF There, Processes
    <3> QED BY <2>1, <3>1, <3>2 DEF JobOK
  <2> QED BY <2>2, <2>3
<1>8. ASSUME NEW x \in Kids PROVE KidInv(x)'
  <2>1. x \in Procs BY Names
  <2>2. proc'[x].pc = proc[x].pc /\ proc'[x].pg = proc[x].pg /\ proc'[x].sig = proc[x].sig
        /\ There(x)' = There(x)
    <3>1. CASE proc[x].st \in {"running", "stopped"} /\ proc[x].pg = s
      <4>1. proc'[x] = [proc[x] EXCEPT !.st = "running", !.why = "none", !.told = FALSE, !.bg = bg]
        BY <1>3, <2>1, <3>1
      <4> QED BY <1>4, <2>1, <3>1, <4>1 DEF Processes, There
    <3>2. CASE ~(proc[x].st \in {"running", "stopped"} /\ proc[x].pg = s)
      <4>1. proc'[x] = proc[x] BY <1>3, <2>1, <3>2
      <4> QED BY <4>1 DEF There
    <3> QED BY <3>1, <3>2
  <2> QED BY <2>2 DEF TerminalInv, KidInv, KidOK
<1> QED BY <1>3, <1>6, <1>7, <1>8

LEMMA ShellSendsToBackground ==
    ASSUME TerminalInv, NEW s \in Stages, builtinBg(s)
    PROVE  TerminalInv'
<1>1. /\ sh.pc = "prompt" /\ s \in jobs /\ proc' = ContinueGroup(s, TRUE)
      /\ sh' = sh /\ cmd' = cmd /\ tty' = tty /\ jobs' = jobs
  BY DEF builtinBg
<1>2. \A d \in Stages : ~UnderWay(d) /\ ~UnderWay(d)' /\ Gone(d)' = Gone(d)
  BY <1>1, SameView DEF UnderWay
<1>3. There(s) /\ s \in Procs BY <1>1, Names DEF TerminalInv, StageInv
<1>4. /\ proc' \in [Procs -> Processes]
      /\ \A d \in Stages \ {s} : proc'[d] = proc[d]
      /\ proc'[s].pc = "work" /\ proc'[s].pg = s /\ proc'[s].sig = "default"
      /\ proc'[s].st \in {"running", "zombie"} /\ (proc'[s].st = "running" => proc'[s].bg = TRUE)
      /\ \A x \in Kids : KidInv(x)'
  BY <1>1, <1>2, <1>3, JobContinues
<1>5. TypeOK' BY <1>1, <1>4 DEF TerminalInv, TypeOK
<1>6. Shape' /\ Owner' BY <1>1, <1>3, SameShell
<1>7. StageInv(s)' /\ NoStop(s)'
  <2>1. ~Gone(s) BY <1>2, <1>3 DEF TerminalInv, StageInv
  <2>2. There(s)' BY <1>4 DEF There
  <2>3. JobOK(s)' BY <1>4 DEF JobOK
  <2> QED BY <1>2, <1>4, <2>1, <2>2, <2>3 DEF StageInv, NoStop
<1>8. \A d \in Stages \ {s} : StageInv(d)' /\ NoStop(d)' BY <1>1, <1>4, Names, Untouched
<1> QED BY <1>4, <1>5, <1>6, <1>7, <1>8 DEF TerminalInv

LEMMA ShellContinues ==
    ASSUME TerminalInv, FgContinue
    PROVE  TerminalInv'
<1>0. PICK s \in Stages : s = Stage BY StagesOfCommand DEF TerminalInv
<1>1. /\ sh.pc = "fgcont" /\ proc' = ContinueGroup(s, FALSE)
      /\ sh' = [sh EXCEPT !.pc = "wait"] /\ cmd' = cmd /\ tty' = tty /\ jobs' = jobs
  BY <1>0 DEF FgContinue
<1>2. /\ cmd.form = "external" /\ sh.i = 1 /\ tty = Leader /\ s = Leader /\ s \in jobs
  BY <1>0, <1>1, StagesOfCommand DEF TerminalInv, Shape
<1>3. sh'.pc = "wait" /\ sh'.i = 1 /\ sh' \in [pc : {"wait"}, i : 1 .. 2]
  BY <1>1, <1>2 DEF TerminalInv, TypeOK
<1>4. \A d : ~UnderWay(d) BY <1>1 DEF UnderWay
<1>5. There(s) /\ s \in Procs BY <1>2, Names DEF TerminalInv, StageInv
<1>6. /\ proc' \in [Procs -> Processes]
      /\ \A d \in Stages \ {s} : proc'[d] = proc[d]
      /\ proc'[s].pc = "work" /\ proc'[s].pg = s /\ proc'[s].sig = "default"
      /\ proc'[s].st \in {"running", "zombie"} /\ (proc'[s].st = "running" => proc'[s].bg = FALSE)
      /\ \A x \in Kids : KidInv(x)'
  BY <1>1, <1>4, <1>5, JobContinues
<1>7. TypeOK' BY <1>1, <1>3, <1>6 DEF TerminalInv, TypeOK
<1>8. Shape' BY <1>1, <1>2, <1>3 DEF TerminalInv, Shape
<1>9. Owner' BY <1>1, <1>2, <1>3 DEF TerminalInv, Owner
<1>10. Leader' = Leader /\ \A d : Index(d)' = Index(d) /\ InCmd(d)' = InCmd(d) /\ Index(d) \in {1, 2}
  BY <1>1 DEF Leader, Index, InCmd
<1>11. StageInv(s)' /\ NoStop(s)'
  <2>1. InCmd(s)' BY <1>2, <1>10 DEF InCmd, Leader
  <2>2. Index(s)' >= sh'.i BY <1>3, <1>10
  <2>3. UnderWay(s)' BY <1>3, <2>1, <2>2 DEF UnderWay
  <2>4. StageOK(s)' BY <1>1, <1>2, <1>6, <1>10 DEF StageOK, Starting, Nested
  <2>5. There(s)' BY <1>6 DEF There
  <2> QED BY <1>1, <1>2, <1>6, <2>3, <2>4, <2>5 DEF StageInv, NoStop
<1>12. ASSUME NEW d \in Stages \ {s} PROVE StageInv(d)' /\ NoStop(d)'
  <2>1. ~InCmd(d) BY <1>2 DEF InCmd, Leader
  <2>2. ~UnderWay(d)' /\ ~Gone(d)' BY <1>10, <2>1 DEF UnderWay, Gone
  <2>3. proc'[d] = proc[d] BY <1>6
  <2>4. There(d)' = There(d) BY <2>3 DEF There
  <2>5. JobOK(d) => JobOK(d)' BY <2>3 DEF JobOK
  <2>6. StageInv(d) /\ NoStop(d) BY DEF TerminalInv
  <2> QED BY <1>1, <1>4, <2>2, <2>3, <2>4, <2>5, <2>6 DEF StageInv, NoStop
<1> QED BY <1>6, <1>7, <1>8, <1>9, <1>11, <1>12 DEF TerminalInv

-----------------------------------------------------------------------------
(* The invariant and what it says.                                         *)

LEMMA TerminalInit ==
    ASSUME Init
    PROVE  TerminalInv
<1>1. /\ tty \in {"orig", "outer"} /\ proc = [c \in Procs |-> NoProcess] /\ jobs = {}
      /\ sh.pc = "start" /\ sh.i = 1 /\ sh = [pc |-> "start", i |-> 1]
      /\ cmd.form = "external" /\ cmd.body = "external" /\ cmd.stages = <<"c1">>
  BY DEF Init, Foreground, External
<1>2. TypeOK BY <1>1, NoProcessTyped DEF TypeOK, Groups, Commands
<1>3. \A p \in Procs : ~There(p) BY <1>1, NoProcessTyped DEF There
<1>4. Shape BY <1>1 DEF Shape
<1>5. Owner BY <1>1, <1>3 DEF Owner
<1>6. \A c : ~UnderWay(c) BY <1>1 DEF UnderWay
<1>7. \A c \in Stages : StageInv(c) BY <1>1, <1>3, <1>6, Names DEF StageInv
<1>8. \A c \in Stages : NoStop(c) BY <1>3, Names DEF NoStop, There
<1>9. \A x \in Kids : KidInv(x) BY <1>3, Names DEF KidInv
<1> QED BY <1>2, <1>4, <1>5, <1>7, <1>8, <1>9 DEF TerminalInv

LEMMA TerminalStep ==
    ASSUME TerminalInv, [Next]_vars
    PROVE  TerminalInv'
<1>1. CASE ShellStep
  BY <1>1, ShellPrompts, ShellForks, ShellGroups, ShellCollects, ShellSeesStop, ShellContinues, ShellReaps
  DEF ShellStep
<1>2. ASSUME NEW c \in Procs, ChildStep(c) PROVE TerminalInv'
  BY <1>2, ChildJoins, TerminalTaken, ChildResets, NestedForks, NestedWaits, NestedGrabs DEF ChildStep
<1>3. CASE User
  <2>1. ASSUME NEW k \in Forms, RunCommand(k) PROVE TerminalInv'
    <3>1. k \in Commands BY FormsAssumption
    <3> QED BY <2>1, <3>1, ShellRuns
  <2> QED BY <1>3, <2>1, ShellPrompts, KeyStops, KeyEnds, ShellForegrounds, ShellSendsToBackground DEF User
<1>4. CASE Command
  BY <1>4, ReaderStops, ProcessEnds, OrphanLeaves DEF Command
<1>5. CASE UNCHANGED vars
  <2>1. /\ tty' = tty /\ proc' = proc /\ sh' = sh /\ cmd' = cmd /\ jobs' = jobs BY <1>5 DEF vars
  <2>2. TypeOK' BY <2>1 DEF TerminalInv, TypeOK
  <2>3. Shape' BY <2>1, SameView DEF TerminalInv, Shape
  <2>4. Owner' BY <2>1 DEF TerminalInv, Owner, There
  <2>5. \A c \in Stages : StageInv(c)' /\ NoStop(c)' BY <2>1, Untouched, Names
  <2>6. \A x \in Kids : KidInv(x)' BY <2>1, Untouched, Names
  <2> QED BY <2>2, <2>3, <2>4, <2>5, <2>6 DEF TerminalInv
<1> QED BY <1>1, <1>2, <1>3, <1>4, <1>5 DEF Next

\* The invariant that the properties below follow from, for every set of commands
\* typed: jobs stopped, continued, brought back and left behind in any order.
THEOREM TerminalInvariant == Spec => []TerminalInv
<1>1. Init => TerminalInv BY TerminalInit
<1>2. TerminalInv /\ [Next]_vars => TerminalInv' BY TerminalStep
<1> QED BY <1>1, <1>2, PTL DEF Spec

\* Whenever the shell reads a command line it owns the terminal, and when it ends
\* its caller owns it again (grabTerminal, shTerminalRestore).
THEOREM TerminalIsAtRest == Spec => []TerminalAtRest
<1>1. TerminalInv => TerminalAtRest BY DEF TerminalInv, Owner, TerminalAtRest
<1> QED BY <1>1, TerminalInvariant, PTL

\* No command that a stage runs itself stops because of the terminal unless bg put
\* it in the background: the children ignore the signals until they have it.
THEOREM NoStageStops == Spec => []NoTerminalStop
<1>1. TerminalInv => NoTerminalStop BY DEF TerminalInv, NoStop, NoTerminalStop
<1> QED BY <1>1, TerminalInvariant, PTL

\* Every stage of a pipeline that has left its first system calls is in the group
\* of the first one, whether or not that one still runs.
THEOREM PipelinesAreGroups == Spec => []PipelineInOneGroup
<1>1. ASSUME TerminalInv, cmd.form = "pipeline", NEW c \in Stages, There(c),
             proc[c].pc \notin {"setpgid", "tcsetpgrp"}
      PROVE  proc[c].pg = Leader
  <2>1. CASE UnderWay(c)
    <3>1. StageOK(c) BY <1>1, <2>1 DEF TerminalInv, StageInv
    <3> QED BY <1>1, <3>1 DEF StageOK
  <2>2. CASE ~UnderWay(c)
    <3>1. InCmd(c) BY <1>1 DEF InCmd
    <3>2. Gone(c) BY <1>1, <2>2, <3>1 DEF Gone
    <3> QED BY <1>1, <2>2, <3>2 DEF TerminalInv, StageInv
  <2> QED BY <2>1, <2>2
<1>2. ASSUME TerminalInv, cmd.form = "pipeline", NEW i \in DOMAIN cmd.stages
      PROVE  cmd.stages[i] \in Stages
  <2>1. cmd.stages = <<"c1", "c2">> BY <1>2 DEF TerminalInv, Shape
  <2>2. i \in {1, 2} BY <1>2, <2>1
  <2> QED BY <2>1, <2>2 DEF Stages
<1>3. TerminalInv => PipelineInOneGroup BY <1>1, <1>2 DEF PipelineInOneGroup, There
<1> QED BY <1>3, TerminalInvariant, PTL
=============================================================================
