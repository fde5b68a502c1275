------------------------------- MODULE ShJobs -------------------------------
(***************************************************************************)
(* The job table of the shell (src/src/shell) and the children it stands   *)
(* for: runBackground and runExternal put children into the world, the     *)
(* kernel runs, stops and ends them at any moment, and the builtins jobs,  *)
(* wait, fg, bg and kill and the prompt of runInteractive bring the table  *)
(* up to date with waitpid.                                                *)
(*                                                                         *)
(* One step of the shell is one waitpid call together with the table       *)
(* updates that follow it: nothing but the shell reads or writes the       *)
(* table, so the children can only interleave with the system calls.       *)
(*                                                                         *)
(* The table is a linked list that jobAdd extends at its head with the     *)
(* next id, and next_job_id never goes back (the reset in shJobRemove is   *)
(* reached only for a job that is not in the list), so the list order is   *)
(* the descending order of the ids and a function from ids to jobs says    *)
(* the same.  Every caller of jobAdd registers exactly one pid.            *)
(***************************************************************************)
EXTENDS Naturals

CONSTANTS
    Pids,         \* the process ids the kernel hands out (and hands out again)
    Codes,        \* decoded statuses of a process that ended: 0..255
    StopStatus,   \* decoded status of a stopped process: 128 + SIGTSTP
    JobIds,       \* the ids next_job_id may reach before the model stops forking
    Shells        \* the [interactive, opt_monitor] settings the shell is started with

ASSUME ConstantsAssumption ==
    /\ Codes \subseteq 0 .. 255
    /\ 0 \in Codes
    /\ StopStatus \in 129 .. 255
    /\ Pids \subseteq Nat \ {0}
    /\ JobIds \subseteq Nat \ {0}
    /\ Shells \subseteq [interactive : BOOLEAN, opt_monitor : BOOLEAN]

\* shMain turns the monitor on when the shell is interactive (sh_main.c:457-459).
ASSUME MonitorAssumption == \A s \in Shells : s.interactive => s.opt_monitor

VARIABLES
    shell,        \* interp->interactive and interp->opt_monitor
    proc,         \* kernel: the children of the shell
    jobs,         \* interp->jobs
    next_job_id,  \* interp->next_job_id
    last_status,  \* interp->last_status
    got_sigint,   \* interp->got_sigint
    pc,           \* where the shell is
    cur           \* the pid (in "ext") or the job id (in "waitjob") it waits for

vars == <<shell, proc, jobs, next_job_id, last_status, got_sigint, pc, cur>>
shellVars == <<shell, jobs, next_job_id, last_status, got_sigint, pc, cur>>

Statuses == Codes \cup {StopStatus, 127, 1}

\* st: the process state; told: its current stop has been returned by waitpid;
\* own: it leads a process group of its own; code: its decoded exit status.
Processes == [st : {"free", "running", "stopped", "zombie"},
              told : BOOLEAN, own : BOOLEAN, code : Codes]
NoProcess == [st |-> "free", told |-> FALSE, own |-> FALSE, code |-> 0]

\* ShJob; "none" is an id that is not in the list.
Jobs == [state : {"none", "RUNNING", "STOPPED", "DONE"},
         pid : Pids \cup {0}, pids_left : 0 .. 1, last_status : Codes]
NoJob == [state |-> "none", pid |-> 0, pids_left |-> 0, last_status |-> 0]

Listed == {i \in JobIds : jobs[i].state # "none"}
\* Slip: only the job at the head of the list is looked at.
AnyRunningAtHead(table) ==
    \E i \in JobIds : table[i].state = "RUNNING" /\ \A j \in JobIds : j > i => table[j].state = "none"

AnyRunning(table) == \E i \in JobIds : table[i].state = "RUNNING"

-----------------------------------------------------------------------------
(* The kernel.                                                             *)

Alive(p) == proc[p].st \in {"running", "stopped"}

\* waitpid(.., WUNTRACED) returns p: it ended, or it stopped and nobody was told.
Reportable(p) ==
    \/ proc[p].st = "zombie"
    \/ proc[p].st = "stopped" /\ ~proc[p].told

Children == {p \in Pids : proc[p].st # "free"}

\* The children waitpid(-pgid, ..) considers: the group of a job exists only
\* when the child was put into a group of its own.
GroupOf(pgid) == {p \in Children : p = pgid /\ proc[p].own}

\* What waitpid leaves of the process it returns.
Collect(p) ==
    IF proc[p].st = "zombie" THEN NoProcess ELSE [proc[p] EXCEPT !.told = TRUE]

Fork(p, own) ==
    /\ proc[p].st = "free"
    /\ proc' = [proc EXCEPT ![p] = [NoProcess EXCEPT !.st = "running", !.own = own]]

\* SIGCONT to the process group of a job: nothing happens without such a group.
ContinueGroup(pgid) ==
    [p \in Pids |->
        IF p \in GroupOf(pgid) /\ proc[p].st = "stopped"
        THEN [proc[p] EXCEPT !.st = "running", !.told = FALSE]
        ELSE proc[p]]

ChildExit(p, code) ==
    /\ Alive(p)
    /\ proc' = [proc EXCEPT ![p].st = "zombie", ![p].code = code]
    /\ UNCHANGED shellVars

ChildStop(p) ==
    /\ proc[p].st = "running"
    /\ proc' = [proc EXCEPT ![p].st = "stopped", ![p].told = FALSE]
    /\ UNCHANGED shellVars

-----------------------------------------------------------------------------
(* The table.                                                              *)

\* Slip: a job starts with one process too many.
NewJobOneTooMany(p, state) ==
    [state |-> state, pid |-> p, pids_left |-> 2, last_status |-> 0]

NewJob(p, state) ==
    [state |-> state, pid |-> p, pids_left |-> 1, last_status |-> 0]

jobAdd(p, state) ==
    /\ next_job_id \in JobIds
    /\ jobs' = [jobs EXCEPT ![next_job_id] = NewJob(p, state)]
    /\ next_job_id' = next_job_id + 1

\* The first job of the list that holds p, if any: the highest id.
JobsOfPid(p) ==
    {i \in Listed : jobs[i].pid = p /\ \A j \in Listed : jobs[j].pid = p => j <= i}

MarkEnded(job, code) ==
    [state |-> "DONE", pid |-> job.pid, pids_left |-> 0, last_status |-> code]

\* Slip: the end of a stopped job (kill -KILL) is not recorded.
jobMarkPidRunningOnly(p) ==
    [i \in JobIds |->
        IF i \notin JobsOfPid(p) THEN jobs[i]
        ELSE IF proc[p].st = "stopped" THEN [jobs[i] EXCEPT !.state = "STOPPED"]
        ELSE IF jobs[i].state = "STOPPED" THEN jobs[i]
        ELSE MarkEnded(jobs[i], proc[p].code)]

\* The table after waitpid returned p.
jobMarkPid(p) ==
    [i \in JobIds |->
        IF i \notin JobsOfPid(p) THEN jobs[i]
        ELSE IF proc[p].st = "stopped" THEN [jobs[i] EXCEPT !.state = "STOPPED"]
        ELSE MarkEnded(jobs[i], proc[p].code)]

\* The loop of jobs, of wait without arguments and of the prompt.
RemoveDone(table) ==
    [i \in JobIds |-> IF table[i].state = "DONE" THEN NoJob ELSE table[i]]

\* shJobFind: the current job, the previous one, an id, or the pid of a job
\* when no job has that id.
shJobFind(spec) ==
    CASE spec.kind = "current" -> {i \in Listed : \A j \in Listed : j <= i}
      [] spec.kind = "previous" ->
            {i \in Listed : \E j \in Listed : /\ j > i
                                              /\ \A k \in Listed \ {j} : k <= i}
      [] spec.kind = "number" ->
            IF spec.n \in Listed THEN {spec.n} ELSE JobsOfPid(spec.n)

Specs == [kind : {"current", "previous"}] \cup [kind : {"number"}, n : JobIds \cup Pids]

-----------------------------------------------------------------------------
(* The shell at rest: it starts a command.                                 *)

Idle == pc = "idle"

Return(status) ==
    /\ pc' = "idle"
    /\ cur' = 0
    /\ last_status' = status

Fail(status) ==
    /\ Idle
    /\ last_status' = status
    /\ UNCHANGED <<shell, proc, jobs, next_job_id, got_sigint, pc, cur>>

\* command &
runBackground(p) ==
    /\ Idle
    /\ Fork(p, shell.opt_monitor)
    /\ jobAdd(p, "RUNNING")
    /\ last_status' = 0
    /\ UNCHANGED <<shell, got_sigint, pc, cur>>

\* command: the shell waits for the child it forked.
runExternal(p) ==
    /\ Idle
    /\ next_job_id \in JobIds
    /\ Fork(p, shell.opt_monitor /\ shell.interactive)
    /\ pc' = "ext"
    /\ cur' = p
    /\ UNCHANGED <<shell, jobs, next_job_id, last_status, got_sigint>>

ExternalEnded ==
    /\ pc = "ext"
    /\ proc[cur].st = "zombie"
    /\ proc' = [proc EXCEPT ![cur] = Collect(cur)]
    /\ Return(proc[cur].code)
    /\ UNCHANGED <<shell, jobs, next_job_id, got_sigint>>

\* Slip: waitpid without WUNTRACED does not see the child stop.
ExternalStoppedUnseen ==
    /\ pc = "ext"
    /\ proc[cur].st = "zombie" /\ proc[cur].st = "stopped"
    /\ UNCHANGED vars

\* Ctrl-Z: the foreground child becomes a stopped job.
ExternalStopped ==
    /\ pc = "ext"
    /\ proc[cur].st = "stopped" /\ Reportable(cur)
    /\ proc' = [proc EXCEPT ![cur] = Collect(cur)]
    /\ jobAdd(cur, "STOPPED")
    /\ Return(StopStatus)
    /\ UNCHANGED <<shell, got_sigint>>

-----------------------------------------------------------------------------
(* shReapJobs(interp, false): the builtin jobs, and every turn of the      *)
(* prompt of an interactive shell, which also clears got_sigint.           *)

Reaping == pc \in {"jobs", "prompt"}

builtinJobs ==
    /\ Idle
    /\ pc' = "jobs"
    /\ UNCHANGED <<shell, proc, jobs, next_job_id, last_status, got_sigint, cur>>

runInteractive ==
    /\ Idle
    /\ shell.interactive
    /\ pc' = "prompt"
    /\ got_sigint' = FALSE
    /\ UNCHANGED <<shell, proc, jobs, next_job_id, last_status, cur>>

ReapOne(p) ==
    /\ Reaping
    /\ Reportable(p)
    /\ proc' = [proc EXCEPT ![p] = Collect(p)]
    /\ jobs' = jobMarkPid(p)
    /\ UNCHANGED <<shell, next_job_id, last_status, got_sigint, pc, cur>>

EndReap ==
    /\ Reaping
    /\ \A p \in Pids : ~Reportable(p)
    /\ jobs' = RemoveDone(jobs)
    /\ Return(IF pc = "jobs" THEN 0 ELSE last_status)
    /\ UNCHANGED <<shell, proc, next_job_id, got_sigint>>

-----------------------------------------------------------------------------
(* wait without arguments: shReapJobs(interp, true).                       *)

StartWaitAll ==
    /\ Idle
    /\ pc' = "waitall"
    /\ UNCHANGED <<shell, proc, jobs, next_job_id, last_status, got_sigint, cur>>

WaitAllReap(p) ==
    /\ pc = "waitall"
    /\ Reportable(p)
    /\ proc' = [proc EXCEPT ![p] = Collect(p)]
    /\ IF AnyRunning(jobMarkPid(p))
       THEN /\ jobs' = jobMarkPid(p)
            /\ UNCHANGED <<pc, cur, last_status>>
       ELSE /\ jobs' = RemoveDone(jobMarkPid(p))
            /\ Return(0)
    /\ UNCHANGED <<shell, next_job_id, got_sigint>>

\* waitpid fails with ECHILD.
WaitAllNoChild ==
    /\ pc = "waitall"
    /\ Children = {}
    /\ jobs' = RemoveDone(jobs)
    /\ Return(0)
    /\ UNCHANGED <<shell, proc, next_job_id, got_sigint>>

\* waitpid fails with EINTR: shReapJobs does not try again.
WaitAllInterrupted(sigint) ==
    /\ pc = "waitall"
    /\ Children # {} /\ \A p \in Pids : ~Reportable(p)
    /\ got_sigint' = (got_sigint \/ sigint)
    /\ jobs' = RemoveDone(jobs)
    /\ Return(0)
    /\ UNCHANGED <<shell, proc, next_job_id>>

-----------------------------------------------------------------------------
(* wait job and fg: shWaitForJob.                                          *)

\* Slip: fg and wait leave the finished job in the table.
FinishKeeping(table, i) ==
    /\ jobs' = table
    /\ Return(table[i].last_status)

\* The end of builtinWait and builtinFg.
Finish(table, i) ==
    /\ jobs' = IF table[i].state = "DONE" THEN [table EXCEPT ![i] = NoJob] ELSE table
    /\ Return(table[i].last_status)

NoSuchJob(spec, status) ==
    /\ shJobFind(spec) = {}
    /\ Fail(status)

StartWaitJob(spec) ==
    /\ Idle
    /\ \E i \in shJobFind(spec) :
        IF jobs[i].state = "RUNNING"
        THEN /\ pc' = "waitjob"
             /\ cur' = i
             /\ UNCHANGED <<jobs, last_status>>
        ELSE Finish(jobs, i)
    /\ UNCHANGED <<shell, proc, next_job_id, got_sigint>>

\* fg continues the job and waits for it.
builtinFg(spec) ==
    /\ Idle
    /\ \E i \in shJobFind(spec) :
        /\ proc' = ContinueGroup(jobs[i].pid)
        /\ jobs' = [jobs EXCEPT ![i].state = "RUNNING"]
        /\ cur' = i
    /\ pc' = "waitjob"
    /\ UNCHANGED <<shell, next_job_id, last_status, got_sigint>>

WaitJobReap(p) ==
    /\ pc = "waitjob"
    /\ p \in GroupOf(jobs[cur].pid)
    /\ Reportable(p)
    /\ proc' = [proc EXCEPT ![p] = Collect(p)]
    /\ IF jobMarkPid(p)[cur].state = "RUNNING"
       THEN /\ jobs' = jobMarkPid(p)
            /\ UNCHANGED <<pc, cur, last_status>>
       ELSE Finish(jobMarkPid(p), cur)
    /\ UNCHANGED <<shell, next_job_id, got_sigint>>

\* waitpid fails with ECHILD: there is no such process group.
WaitJobNoChild ==
    /\ pc = "waitjob"
    /\ GroupOf(jobs[cur].pid) = {}
    /\ Finish([jobs EXCEPT ![cur].state = "DONE"], cur)
    /\ UNCHANGED <<shell, proc, next_job_id, got_sigint>>

\* waitpid fails with EINTR: only an interrupt ends the wait, but the flag is
\* cleared at the prompt alone, so an old one counts too.
WaitJobInterrupted(sigint) ==
    /\ pc = "waitjob"
    /\ GroupOf(jobs[cur].pid) # {}
    /\ \A p \in GroupOf(jobs[cur].pid) : ~Reportable(p)
    /\ got_sigint' = (got_sigint \/ sigint)
    /\ IF got_sigint'
       THEN Finish(jobs, cur)
       ELSE UNCHANGED <<jobs, pc, cur, last_status>>
    /\ UNCHANGED <<shell, proc, next_job_id>>

-----------------------------------------------------------------------------
(* bg and kill: they do not wait.                                          *)

\* Slip: bg marks the job as running without sending SIGCONT.
builtinBgSilent(spec) ==
    /\ Idle
    /\ \E i \in shJobFind(spec) : jobs' = [jobs EXCEPT ![i].state = "RUNNING"]
    /\ last_status' = 0
    /\ UNCHANGED <<shell, proc, next_job_id, got_sigint, pc, cur>>

builtinBg(spec) ==
    /\ Idle
    /\ \E i \in shJobFind(spec) :
        /\ proc' = ContinueGroup(jobs[i].pid)
        /\ jobs' = [jobs EXCEPT ![i].state = "RUNNING"]
    /\ last_status' = 0
    /\ UNCHANGED <<shell, next_job_id, got_sigint, pc, cur>>

\* kill -CONT %job: the table does not learn of it.  (The signals that stop or
\* end a process are ChildStop and ChildExit.)
builtinKillCont(spec) ==
    /\ Idle
    /\ \E i \in shJobFind(spec) :
        /\ proc' = ContinueGroup(jobs[i].pid)
        /\ last_status' = IF GroupOf(jobs[i].pid) = {} THEN 1 ELSE 0
    /\ UNCHANGED <<shell, jobs, next_job_id, got_sigint, pc, cur>>

\* SIGINT while the shell is not blocked in a waitpid of wait or fg.
Interrupt ==
    /\ ~got_sigint
    /\ got_sigint' = TRUE
    /\ UNCHANGED <<shell, proc, jobs, next_job_id, last_status, pc, cur>>

-----------------------------------------------------------------------------
Init ==
    /\ shell \in Shells
    /\ proc = [p \in Pids |-> NoProcess]
    /\ jobs = [i \in JobIds |-> NoJob]
    /\ next_job_id = 1
    /\ last_status = 0
    /\ got_sigint = FALSE
    /\ pc = "idle"
    /\ cur = 0

Command ==
    \/ \E p \in Pids : runBackground(p) \/ runExternal(p)
    \/ builtinJobs
    \/ runInteractive
    \/ StartWaitAll
    \/ \E s \in Specs : \/ StartWaitJob(s) \/ NoSuchJob(s, 127)
                        \/ builtinFg(s) \/ builtinBg(s) \/ NoSuchJob(s, 1)
                        \/ builtinKillCont(s)

\* The steps of a command that has begun; each of them is a waitpid call.
Continue ==
    \/ ExternalEnded \/ ExternalStopped
    \/ \E p \in Pids : ReapOne(p) \/ WaitAllReap(p) \/ WaitJobReap(p)
    \/ EndReap \/ WaitAllNoChild \/ WaitJobNoChild

Signal ==
    \/ Interrupt
    \/ \E sigint \in BOOLEAN : WaitAllInterrupted(sigint) \/ WaitJobInterrupted(sigint)

Environment ==
    \E p \in Pids : ChildStop(p) \/ \E c \in Codes : ChildExit(p, c)

Next == Command \/ Continue \/ Signal \/ Environment

\* A waitpid call that can return does return: the shell is running, so weak
\* fairness of its own steps is what the scheduler gives it.
Spec == Init /\ [][Next]_vars /\ WF_vars(Continue)

-----------------------------------------------------------------------------
(* Properties.                                                             *)

TypeOK ==
    /\ shell \in Shells
    /\ proc \in [Pids -> Processes]
    /\ jobs \in [JobIds -> Jobs]
    /\ next_job_id \in Nat
    /\ last_status \in Statuses
    /\ got_sigint \in BOOLEAN
    /\ pc \in {"idle", "ext", "jobs", "prompt", "waitall", "waitjob"}
    /\ cur \in Pids \cup JobIds \cup {0}

\* Between commands, and while a command waits, no finished job is left in the
\* table: whoever makes a job DONE (jobMarkPid, or shWaitForJob on ECHILD) is
\* inside an operation that removes it before it returns.
NoDoneAtRest == pc \in {"idle", "ext", "waitjob"} => \A i \in JobIds : jobs[i].state # "DONE"

\* An unfinished job stands for exactly one child that was not reaped, which no
\* other job and no foreground command stands for: a pid the kernel hands out
\* again can never be taken for the process of an older job.
JobOwnsItsChild ==
    \A i \in JobIds : jobs[i].state \in {"RUNNING", "STOPPED"} =>
        /\ proc[jobs[i].pid].st # "free"
        /\ pc = "ext" => jobs[i].pid # cur
        /\ \A j \in JobIds : jobs[j].state \in {"RUNNING", "STOPPED"} /\ jobs[j].pid = jobs[i].pid => j = i

\* In an interactive shell every child that was not reaped is in the table (or
\* is the command in the foreground): no child is forgotten.
NoLostChild ==
    shell.interactive =>
        \A p \in Children :
            \/ \E i \in JobIds : jobs[i].state \in {"RUNNING", "STOPPED"} /\ jobs[i].pid = p
            \/ pc = "ext" /\ cur = p

\* In an interactive shell a job the table calls RUNNING does run, or waitpid
\* has yet to report why it does not: no state change of a child is lost, so
\* nobody waits for a job that stopped in silence.
NoLostReport ==
    shell.interactive =>
        \A i \in JobIds : jobs[i].state = "RUNNING" =>
            proc[jobs[i].pid].st = "running" \/ Reportable(jobs[i].pid)

\* In an interactive shell no child is forgotten and no change of its state is
\* lost: the table lists every child, and calls none RUNNING that stopped or
\* ended without a report that is still to come.
NoneForgotten == NoLostChild /\ NoLostReport

\* wait and fg drop a job only when its process has ended, and return the
\* status that process ended with (in a shell that gives jobs their groups).
WaitReturnsExitStatus ==
    [][ \A i \in JobIds :
          shell.opt_monitor /\ shell.interactive /\ pc = "waitjob" /\ cur = i /\ jobs'[i].state = "none"
             => /\ proc[jobs[i].pid].st = "zombie"
                /\ last_status' = proc[jobs[i].pid].code ]_vars

\* The same promise for every shell.  sh_interp.h calls last_status the "exit
\* status of the last process in the job".
WaitReturnsExitStatusEverywhere ==
    [][ \A i \in JobIds :
          pc = "waitjob" /\ cur = i /\ jobs'[i].state = "none"
             => /\ proc[jobs[i].pid].st = "zombie"
                /\ last_status' = proc[jobs[i].pid].code ]_vars

\* wait without arguments comes back, unless a signal interrupts it, only when
\* no job runs any more.
WaitAllWaits ==
    [][ pc = "waitall" /\ pc' = "idle" /\ (\E p \in Pids : Reportable(p))
          => \A i \in JobIds : jobs'[i].state # "RUNNING" ]_vars

\* wait, fg and wait without operands end with the jobs they are for, and not
\* before.
WaitsForItsJobs == WaitReturnsExitStatus /\ WaitAllWaits

\* A wait for a process that has ended or stopped comes back, and so does the
\* prompt, whatever the other children do meanwhile.
ShellComesBack ==
    /\ \A p \in Pids :
        (/\ Reportable(p)
         /\ \/ pc = "ext" /\ cur = p
            \/ shell.interactive /\ pc = "waitjob" /\ jobs[cur].pid = p) ~> Idle
    /\ Reaping ~> Idle
=============================================================================
