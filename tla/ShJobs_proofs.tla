---------------------------- MODULE ShJobs_proofs ----------------------------
(***************************************************************************)
(* ShJobs for every set of pids, every bound on the job ids and every way  *)
(* of starting the shell: the type invariant, the three invariants that    *)
(* tie the table to the children, NoDoneAtRest, JobOwnsItsChild and        *)
(* NoneForgotten, and the action property of the waits, WaitsForItsJobs.   *)
(*                                                                         *)
(* JobOwnsItsChild is not inductive.  A step of waitpid marks the job of   *)
(* the pid it returned, so one has to know that there is only one such     *)
(* job, finished ones included (OneJobPerPid); a fork may hand out a pid   *)
(* again, so no finished job may be left when the shell is at rest         *)
(* (NoDoneAtRest); and jobAdd must find its slot empty (FreshIds).         *)
(* NoneForgotten needs in addition that the children of an interactive     *)
(* shell lead groups of their own (OwnGroups).                             *)
(***************************************************************************)
EXTENDS ShJobs, TLAPS

FreshIds == \A i \in JobIds : jobs[i].state # "none" => i < next_job_id

OneJobPerPid ==
    \A i, j \in JobIds :
        /\ jobs[i].state # "none" /\ jobs[j].state # "none"
        /\ jobs[i].pid = jobs[j].pid
        => i = j

ChildUnreaped ==
    \A i \in JobIds : jobs[i].state \in {"RUNNING", "STOPPED"} =>
        jobs[i].pid \in Pids /\ proc[jobs[i].pid].st # "free"

ForegroundApart ==
    pc = "ext" =>
        /\ cur \in Pids
        /\ proc[cur].st # "free"
        /\ \A i \in JobIds : jobs[i].state # "none" => jobs[i].pid # cur

WaitsForRunning == pc = "waitjob" => cur \in JobIds /\ jobs[cur].state = "RUNNING"

IndInv ==
    /\ TypeOK
    /\ NoDoneAtRest
    /\ FreshIds
    /\ OneJobPerPid
    /\ ChildUnreaped
    /\ ForegroundApart
    /\ WaitsForRunning

-----------------------------------------------------------------------------
(* What the helpers of the model return.                                   *)

\* waitpid leaves a process of the right type, free only if it had ended.
LEMMA CollectType ==
    ASSUME TypeOK, NEW p \in Pids, Reportable(p)
    PROVE  /\ Collect(p) \in Processes
           /\ Collect(p).st = "free" <=> proc[p].st = "zombie"
           /\ proc[p].st # "free"
BY ConstantsAssumption DEF TypeOK, Processes, NoProcess, Collect, Reportable

\* Under OneJobPerPid the head-first search finds every job of the pid.
LEMMA JobsOfPidAll ==
    ASSUME TypeOK, OneJobPerPid, NEW p \in Pids
    PROVE  JobsOfPid(p) = {i \in JobIds : jobs[i].state # "none" /\ jobs[i].pid = p}
<1> DEFINE All == {i \in JobIds : jobs[i].state # "none" /\ jobs[i].pid = p}
<1>1. ASSUME NEW i \in All, NEW j \in Listed, jobs[j].pid = p PROVE j <= i
  <2>1. i = j BY <1>1 DEF OneJobPerPid, Listed
  <2>2. i \in Nat BY ConstantsAssumption
  <2> QED BY <2>1, <2>2
<1>2. All \subseteq JobsOfPid(p) BY <1>1 DEF JobsOfPid, Listed
<1>3. JobsOfPid(p) \subseteq All BY DEF JobsOfPid, Listed
<1> QED BY <1>2, <1>3

\* jobMarkPid changes the job of the pid alone: STOPPED, or DONE with its status.
LEMMA MarkEffect ==
    ASSUME TypeOK, OneJobPerPid, NEW p \in Pids
    PROVE  /\ jobMarkPid(p) \in [JobIds -> Jobs]
           /\ \A i \in JobIds :
                IF jobs[i].state # "none" /\ jobs[i].pid = p
                THEN /\ jobMarkPid(p)[i].pid = p
                     /\ jobMarkPid(p)[i].state = IF proc[p].st = "stopped" THEN "STOPPED" ELSE "DONE"
                ELSE jobMarkPid(p)[i] = jobs[i]
<1>1. JobsOfPid(p) = {i \in JobIds : jobs[i].state # "none" /\ jobs[i].pid = p}
  BY JobsOfPidAll
<1>2. proc[p].code \in Codes /\ jobs \in [JobIds -> Jobs] BY DEF TypeOK, Processes
<1>3. ASSUME NEW i \in JobIds PROVE jobMarkPid(p)[i] \in Jobs
  <2>1. jobs[i] \in Jobs BY <1>2
  <2>2. MarkEnded(jobs[i], proc[p].code) \in Jobs
    <3> DEFINE c == proc[p].code
    <3>1. c \in Codes BY <1>2
    <3> HIDE DEF c
    <3>2. MarkEnded(jobs[i], c) \in Jobs BY <3>1, <2>1 DEF MarkEnded, Jobs
    <3> QED BY <3>2 DEF c
  <2>3. [jobs[i] EXCEPT !.state = "STOPPED"] \in Jobs BY <2>1 DEF Jobs
  <2>4. jobMarkPid(p)[i] \in {jobs[i], [jobs[i] EXCEPT !.state = "STOPPED"],
                             MarkEnded(jobs[i], proc[p].code)}
    BY DEF jobMarkPid
  <2> QED BY <2>1, <2>2, <2>3, <2>4
<1>4. jobMarkPid(p) \in [JobIds -> Jobs] BY <1>3 DEF jobMarkPid
<1>5. ASSUME NEW i \in JobIds, jobs[i].state # "none", jobs[i].pid = p
      PROVE  /\ jobMarkPid(p)[i].pid = p
             /\ jobMarkPid(p)[i].state = IF proc[p].st = "stopped" THEN "STOPPED" ELSE "DONE"
  <2>1. jobs[i] \in Jobs BY <1>2
  <2> QED BY <1>1, <1>5, <2>1 DEF jobMarkPid, MarkEnded, Jobs
<1>6. ASSUME NEW i \in JobIds, ~(jobs[i].state # "none" /\ jobs[i].pid = p)
      PROVE  jobMarkPid(p)[i] = jobs[i]
  BY <1>1, <1>6 DEF jobMarkPid
<1> QED BY <1>4, <1>5, <1>6

\* RemoveDone forgets the finished jobs and no other.
LEMMA RemoveDoneEffect ==
    ASSUME NEW table \in [JobIds -> Jobs]
    PROVE  /\ RemoveDone(table) \in [JobIds -> Jobs]
           /\ \A i \in JobIds :
                IF table[i].state = "DONE"
                THEN RemoveDone(table)[i].state = "none"
                ELSE RemoveDone(table)[i] = table[i]
BY ConstantsAssumption DEF RemoveDone, NoJob, Jobs

\* shJobFind returns jobs of the list.
LEMMA FindListed ==
    ASSUME NEW spec \in Specs
    PROVE  shJobFind(spec) \subseteq Listed
<1>1. CASE spec \in [kind : {"number"}, n : JobIds \cup Pids]
  BY <1>1 DEF shJobFind, JobsOfPid
<1>2. CASE spec \in [kind : {"current", "previous"}]
  BY <1>2 DEF shJobFind
<1> QED BY <1>1, <1>2 DEF Specs

\* SIGCONT changes no process into or out of "free".
LEMMA ContinueEffect ==
    ASSUME TypeOK, NEW pgid
    PROVE  /\ ContinueGroup(pgid) \in [Pids -> Processes]
           /\ \A p \in Pids : ContinueGroup(pgid)[p].st = "free" <=> proc[p].st = "free"
BY DEF ContinueGroup, GroupOf, Children, TypeOK, Processes

-----------------------------------------------------------------------------
(* Every action preserves the inductive invariant.                         *)

\* The children change state without the shell: nobody is reaped.
LEMMA EnvironmentInv ==
    ASSUME IndInv, Environment
    PROVE  IndInv'
<1> USE DEF IndInv
<1>1. PICK p \in Pids : ChildStop(p) \/ \E c \in Codes : ChildExit(p, c)
  BY DEF Environment
<1>2. /\ UNCHANGED shellVars
      /\ proc' \in [Pids -> Processes]
      /\ \A q \in Pids : proc[q].st # "free" => proc'[q].st # "free"
  <2>1. CASE ChildStop(p) BY <2>1 DEF ChildStop, TypeOK, Processes
  <2>2. ASSUME NEW c \in Codes, ChildExit(p, c)
        PROVE  /\ UNCHANGED shellVars
               /\ proc' \in [Pids -> Processes]
               /\ \A q \in Pids : proc[q].st # "free" => proc'[q].st # "free"
    BY <2>2 DEF ChildExit, TypeOK, Processes
  <2> QED BY <1>1, <2>1, <2>2
<1> QED
  BY <1>2 DEF shellVars, TypeOK, NoDoneAtRest, FreshIds, OneJobPerPid, ChildUnreaped,
              ForegroundApart, WaitsForRunning

\* At rest no job is finished, so the pid of every job is taken: a pid the
\* kernel can hand out belongs to no job.
LEMMA FreePidHasNoJob ==
    ASSUME IndInv, Idle, NEW p \in Pids, proc[p].st = "free", NEW i \in JobIds, jobs[i].state # "none"
    PROVE  jobs[i].pid # p
<1>1. jobs[i].state \in {"RUNNING", "STOPPED"} BY DEF IndInv, TypeOK, Jobs, NoDoneAtRest, Idle
<1> QED BY <1>1 DEF IndInv, ChildUnreaped

\* A new job for a pid that no job has.
LEMMA jobAddEffect ==
    ASSUME IndInv, NEW p \in Pids, NEW state \in {"RUNNING", "STOPPED"}, jobAdd(p, state),
           \A i \in JobIds : jobs[i].state # "none" => jobs[i].pid # p
    PROVE  /\ jobs' \in [JobIds -> Jobs]
           /\ next_job_id' \in Nat
           /\ FreshIds' /\ OneJobPerPid'
           /\ \A i \in JobIds : \/ jobs'[i] = jobs[i]
                                \/ jobs'[i].pid = p /\ jobs'[i].state = state
<1> DEFINE n == next_job_id
<1>1. NewJob(p, state) \in Jobs /\ NewJob(p, state).pid = p /\ NewJob(p, state).state = state
  BY ConstantsAssumption DEF NewJob, Jobs
<1>2. n \in JobIds /\ n \in Nat /\ jobs' = [jobs EXCEPT ![n] = NewJob(p, state)] /\ next_job_id' = n + 1
  BY DEF jobAdd, IndInv, TypeOK
<1>3. jobs \in [JobIds -> Jobs] BY DEF IndInv, TypeOK
<1>4. jobs' \in [JobIds -> Jobs] BY <1>1, <1>2, <1>3
<1>5. \A i \in JobIds : jobs'[i] = IF i = n THEN NewJob(p, state) ELSE jobs[i]
  BY <1>2, <1>3
<1>6. FreshIds'
  <2>1. \A i \in JobIds : i \in Nat BY ConstantsAssumption
  <2> QED BY <1>2, <1>5, <2>1 DEF IndInv, FreshIds
<1>7. OneJobPerPid' BY <1>1, <1>5 DEF IndInv, OneJobPerPid
<1> QED BY <1>1, <1>2, <1>4, <1>5, <1>6, <1>7

\* Fork puts a running process into a free slot.
LEMMA ForkEffect ==
    ASSUME TypeOK, NEW p \in Pids, NEW own \in BOOLEAN, Fork(p, own)
    PROVE  /\ proc' \in [Pids -> Processes]
           /\ proc[p].st = "free" /\ proc'[p].st = "running"
           /\ \A q \in Pids \ {p} : proc'[q] = proc[q]
BY ConstantsAssumption DEF Fork, TypeOK, Processes, NoProcess

\* What a waitpid call that returned p leaves of the children.
LEMMA ReapEffect ==
    ASSUME TypeOK, NEW p \in Pids, Reportable(p), proc' = [proc EXCEPT ![p] = Collect(p)]
    PROVE  /\ proc' \in [Pids -> Processes]
           /\ proc'[p].st = "free" <=> proc[p].st = "zombie"
           /\ proc[p].st \in {"zombie", "stopped"}
           /\ \A q \in Pids \ {p} : proc'[q] = proc[q]
<1>1. proc \in [Pids -> Processes] /\ Collect(p) \in Processes BY CollectType DEF TypeOK
<1>2. proc'[p] = Collect(p) BY <1>1
<1> QED BY <1>1, <1>2, CollectType DEF Reportable

\* The table after a waitpid call that returned p: the job of p, if it has one,
\* is finished exactly when p was reaped.
LEMMA ReapMarkInv ==
    ASSUME IndInv, NEW p \in Pids, Reportable(p), proc' = [proc EXCEPT ![p] = Collect(p)],
           NEW table, table = jobMarkPid(p)
    PROVE  /\ table \in [JobIds -> Jobs]
           /\ \A i \in JobIds : /\ table[i].pid = jobs[i].pid
                                /\ table[i].state = "none" <=> jobs[i].state = "none"
           /\ \A i \in JobIds : table[i].state \in {"RUNNING", "STOPPED"} =>
                table[i].pid \in Pids /\ proc'[table[i].pid].st # "free"
<1>1. /\ table \in [JobIds -> Jobs]
      /\ \A i \in JobIds :
            IF jobs[i].state # "none" /\ jobs[i].pid = p
            THEN /\ table[i].pid = p
                 /\ table[i].state = IF proc[p].st = "stopped" THEN "STOPPED" ELSE "DONE"
            ELSE table[i] = jobs[i]
  BY MarkEffect DEF IndInv
<1>2. /\ proc'[p].st = "free" <=> proc[p].st = "zombie"
      /\ proc[p].st \in {"zombie", "stopped"}
      /\ \A q \in Pids \ {p} : proc'[q] = proc[q]
  BY ReapEffect DEF IndInv
<1>3. \A i \in JobIds : table[i].state \in {"RUNNING", "STOPPED"} =>
         table[i].pid \in Pids /\ proc'[table[i].pid].st # "free"
  BY <1>1, <1>2 DEF IndInv, ChildUnreaped
<1> QED BY <1>1, <1>3

\* A step that adds no job and changes no pid keeps the ids fresh and the pids
\* apart.
LEMMA NoNewJob ==
    ASSUME IndInv, next_job_id' = next_job_id,
           \A i \in JobIds : jobs'[i].state # "none" =>
                jobs[i].state # "none" /\ jobs'[i].pid = jobs[i].pid
    PROVE  FreshIds' /\ OneJobPerPid'
<1>1. FreshIds' BY DEF IndInv, FreshIds
<1>2. OneJobPerPid' BY DEF IndInv, OneJobPerPid
<1> QED BY <1>1, <1>2

\* Finish drops the job if it is done and leaves the rest of the table.
LEMMA FinishEffect ==
    ASSUME NEW table \in [JobIds -> Jobs], NEW i \in JobIds, Finish(table, i)
    PROVE  /\ jobs' \in [JobIds -> Jobs]
           /\ pc' = "idle" /\ cur' = 0 /\ last_status' \in Statuses
           /\ jobs'[i].state # "DONE"
           /\ \A k \in JobIds : jobs'[k] = table[k] \/ (k = i /\ jobs'[k].state = "none")
<1>1. NoJob \in Jobs /\ NoJob.state = "none" BY ConstantsAssumption DEF NoJob, Jobs
<1>2. table[i] \in Jobs OBVIOUS
<1>3. table[i].last_status \in Statuses BY <1>2 DEF Jobs, Statuses
<1>4. CASE table[i].state = "DONE"
  BY <1>1, <1>3, <1>4 DEF Finish, Return
<1>5. CASE table[i].state # "DONE"
  BY <1>3, <1>5 DEF Finish, Return
<1> QED BY <1>4, <1>5

\* Starting a command that waits touches neither the table nor the children.
LEMMA StartInv ==
    ASSUME IndInv, Idle, UNCHANGED <<shell, proc, jobs, next_job_id, last_status, cur>>,
           got_sigint' \in BOOLEAN, pc' \in {"idle", "jobs", "prompt", "waitall"}
    PROVE  IndInv'
BY DEF IndInv, Idle, TypeOK, NoDoneAtRest, FreshIds, OneJobPerPid, ChildUnreaped,
       ForegroundApart, WaitsForRunning

\* A command started with & takes a free pid and a fresh id.
LEMMA runBackgroundInv ==
    ASSUME IndInv, NEW p \in Pids, runBackground(p)
    PROVE  IndInv'
<1>1. Idle /\ Fork(p, shell.opt_monitor) /\ jobAdd(p, "RUNNING")
  BY DEF runBackground
<1>2. shell.opt_monitor \in BOOLEAN BY ConstantsAssumption DEF IndInv, TypeOK
<1>3. /\ proc' \in [Pids -> Processes]
      /\ proc[p].st = "free" /\ proc'[p].st = "running"
      /\ \A q \in Pids \ {p} : proc'[q] = proc[q]
  BY <1>1, <1>2, ForkEffect DEF IndInv
<1>4. \A i \in JobIds : jobs[i].state # "none" => jobs[i].pid # p
  BY <1>1, <1>3, FreePidHasNoJob
<1>5. /\ jobs' \in [JobIds -> Jobs]
      /\ next_job_id' \in Nat
      /\ FreshIds' /\ OneJobPerPid'
      /\ \A i \in JobIds : \/ jobs'[i] = jobs[i]
                           \/ jobs'[i].pid = p /\ jobs'[i].state = "RUNNING"
  BY <1>1, <1>4, jobAddEffect
<1>6. /\ UNCHANGED <<shell, got_sigint, pc, cur>>
      /\ pc' = "idle" /\ last_status' \in Statuses
  BY <1>1, ConstantsAssumption DEF runBackground, Idle, Statuses
<1>7. TypeOK' BY <1>3, <1>5, <1>6 DEF IndInv, TypeOK
<1>8. NoDoneAtRest' BY <1>1, <1>5 DEF IndInv, NoDoneAtRest, Idle
<1>9. ChildUnreaped' BY <1>3, <1>5 DEF IndInv, ChildUnreaped
<1>10. ForegroundApart' /\ WaitsForRunning' BY <1>6 DEF ForegroundApart, WaitsForRunning
<1> QED BY <1>5, <1>7, <1>8, <1>9, <1>10 DEF IndInv

\* A foreground command takes a free pid and no job.
LEMMA runExternalInv ==
    ASSUME IndInv, NEW p \in Pids, runExternal(p)
    PROVE  IndInv'
<1>1. Idle /\ Fork(p, shell.opt_monitor /\ shell.interactive) BY DEF runExternal
<1>2. /\ proc' \in [Pids -> Processes]
      /\ proc[p].st = "free" /\ proc'[p].st = "running"
      /\ \A q \in Pids \ {p} : proc'[q] = proc[q]
  BY <1>1, ForkEffect DEF IndInv
<1>3. \A i \in JobIds : jobs[i].state # "none" => jobs[i].pid # p
  BY <1>1, <1>2, FreePidHasNoJob
<1>4. /\ UNCHANGED <<shell, jobs, next_job_id, last_status, got_sigint>>
      /\ pc' = "ext" /\ cur' = p
  BY DEF runExternal
<1>5. TypeOK' BY <1>2, <1>4 DEF IndInv, TypeOK
<1>6. NoDoneAtRest' BY <1>1, <1>4 DEF IndInv, NoDoneAtRest, Idle
<1>7. FreshIds' /\ OneJobPerPid' BY <1>4 DEF IndInv, FreshIds, OneJobPerPid
<1>8. ChildUnreaped' BY <1>2, <1>3, <1>4 DEF IndInv, ChildUnreaped
<1>9. ForegroundApart' /\ WaitsForRunning' BY <1>2, <1>3, <1>4 DEF ForegroundApart, WaitsForRunning
<1> QED BY <1>5, <1>6, <1>7, <1>8, <1>9 DEF IndInv

\* The foreground command ended: its pid was in no job.
LEMMA ExternalEndedInv ==
    ASSUME IndInv, ExternalEnded
    PROVE  IndInv'
<1>1. /\ pc = "ext" /\ proc[cur].st = "zombie"
      /\ proc' = [proc EXCEPT ![cur] = Collect(cur)]
      /\ pc' = "idle" /\ cur' = 0 /\ last_status' = proc[cur].code
      /\ UNCHANGED <<shell, jobs, next_job_id, got_sigint>>
  BY DEF ExternalEnded, Return
<1>2. cur \in Pids /\ \A i \in JobIds : jobs[i].state # "none" => jobs[i].pid # cur
  BY <1>1 DEF IndInv, ForegroundApart
<1>3. Reportable(cur) BY <1>1 DEF Reportable
<1>4. /\ proc' \in [Pids -> Processes]
      /\ \A q \in Pids \ {cur} : proc'[q] = proc[q]
  BY <1>1, <1>2, <1>3, ReapEffect DEF IndInv
<1>5. last_status' \in Statuses BY <1>1, <1>2 DEF IndInv, TypeOK, Processes, Statuses
<1>6. TypeOK' BY <1>1, <1>4, <1>5 DEF IndInv, TypeOK
<1>7. NoDoneAtRest' BY <1>1 DEF IndInv, NoDoneAtRest
<1>8. FreshIds' /\ OneJobPerPid' BY <1>1 DEF IndInv, FreshIds, OneJobPerPid
<1>9. ChildUnreaped' BY <1>1, <1>2, <1>4 DEF IndInv, ChildUnreaped
<1> QED BY <1>1, <1>6, <1>7, <1>8, <1>9 DEF IndInv, ForegroundApart, WaitsForRunning

\* The foreground command stopped and becomes a job.
LEMMA ExternalStoppedInv ==
    ASSUME IndInv, ExternalStopped
    PROVE  IndInv'
<1>1. /\ pc = "ext" /\ proc[cur].st = "stopped" /\ Reportable(cur)
      /\ proc' = [proc EXCEPT ![cur] = Collect(cur)]
      /\ jobAdd(cur, "STOPPED")
      /\ pc' = "idle" /\ cur' = 0 /\ last_status' = StopStatus
      /\ UNCHANGED <<shell, got_sigint>>
  BY DEF ExternalStopped, Return
<1>2. cur \in Pids /\ \A i \in JobIds : jobs[i].state # "none" => jobs[i].pid # cur
  BY <1>1 DEF IndInv, ForegroundApart
<1>3. /\ proc' \in [Pids -> Processes] /\ proc'[cur].st # "free"
      /\ \A q \in Pids \ {cur} : proc'[q] = proc[q]
  BY <1>1, <1>2, ReapEffect DEF IndInv
<1>4. /\ jobs' \in [JobIds -> Jobs]
      /\ next_job_id' \in Nat
      /\ FreshIds' /\ OneJobPerPid'
      /\ \A i \in JobIds : \/ jobs'[i] = jobs[i]
                           \/ jobs'[i].pid = cur /\ jobs'[i].state = "STOPPED"
  BY <1>1, <1>2, jobAddEffect
<1>5. TypeOK' BY <1>1, <1>3, <1>4 DEF IndInv, TypeOK, Statuses
<1>6. NoDoneAtRest' BY <1>1, <1>4 DEF IndInv, NoDoneAtRest
<1>7. ChildUnreaped' BY <1>2, <1>3, <1>4 DEF IndInv, ChildUnreaped
<1> QED BY <1>1, <1>4, <1>5, <1>6, <1>7 DEF IndInv, ForegroundApart, WaitsForRunning

\* One turn of shReapJobs: the pid reaped and the state of its job change together.
LEMMA ReapOneInv ==
    ASSUME IndInv, NEW p \in Pids, ReapOne(p)
    PROVE  IndInv'
<1>1. /\ Reaping /\ Reportable(p)
      /\ proc' = [proc EXCEPT ![p] = Collect(p)]
      /\ jobs' = jobMarkPid(p)
      /\ UNCHANGED <<shell, next_job_id, last_status, got_sigint, pc, cur>>
  BY DEF ReapOne
<1>2. /\ jobs' \in [JobIds -> Jobs]
      /\ \A i \in JobIds : /\ jobs'[i].pid = jobs[i].pid
                           /\ jobs'[i].state = "none" <=> jobs[i].state = "none"
      /\ ChildUnreaped'
  BY <1>1, ReapMarkInv DEF ChildUnreaped
<1>3. proc' \in [Pids -> Processes] BY <1>1, ReapEffect DEF IndInv
<1>4. FreshIds' /\ OneJobPerPid' BY <1>1, <1>2, NoNewJob
<1>5. TypeOK' BY <1>1, <1>2, <1>3 DEF IndInv, TypeOK
<1> QED
  BY <1>1, <1>2, <1>4, <1>5 DEF IndInv, Reaping, NoDoneAtRest, ForegroundApart, WaitsForRunning

\* jobs, the prompt and wait end: the finished jobs leave the table.
LEMMA EndInv ==
    ASSUME IndInv, NEW table \in [JobIds -> Jobs],
           proc' \in [Pids -> Processes],
           \A i \in JobIds : /\ table[i].pid = jobs[i].pid
                             /\ table[i].state = "none" <=> jobs[i].state = "none",
           \A i \in JobIds : table[i].state \in {"RUNNING", "STOPPED"} =>
                table[i].pid \in Pids /\ proc'[table[i].pid].st # "free",
           jobs' = RemoveDone(table), pc' = "idle", cur' = 0, last_status' \in Statuses,
           got_sigint' \in BOOLEAN, UNCHANGED <<shell, next_job_id>>
    PROVE  IndInv'
<1>1. /\ jobs' \in [JobIds -> Jobs]
      /\ \A i \in JobIds : IF table[i].state = "DONE" THEN jobs'[i].state = "none"
                                                     ELSE jobs'[i] = table[i]
  BY RemoveDoneEffect
<1>2. FreshIds' /\ OneJobPerPid' BY <1>1, NoNewJob
<1>3. NoDoneAtRest' BY <1>1 DEF NoDoneAtRest
<1>4. ChildUnreaped' BY <1>1 DEF ChildUnreaped
<1>5. TypeOK' BY <1>1 DEF IndInv, TypeOK
<1> QED BY <1>2, <1>3, <1>4, <1>5 DEF IndInv, ForegroundApart, WaitsForRunning

\* A command that ends without another change only drops the finished jobs.
LEMMA EndUnchangedInv ==
    ASSUME IndInv, jobs' = RemoveDone(jobs), pc' = "idle", cur' = 0, last_status' \in Statuses,
           got_sigint' \in BOOLEAN, UNCHANGED <<shell, proc, next_job_id>>
    PROVE  IndInv'
<1>1. jobs \in [JobIds -> Jobs] /\ proc' \in [Pids -> Processes] BY DEF IndInv, TypeOK
<1>2. \A i \in JobIds : jobs[i].state \in {"RUNNING", "STOPPED"} =>
         jobs[i].pid \in Pids /\ proc'[jobs[i].pid].st # "free"
  BY DEF IndInv, ChildUnreaped
<1> QED BY <1>1, <1>2, EndInv

\* The end of shReapJobs, where the shell forgets the finished jobs.
LEMMA EndReapInv ==
    ASSUME IndInv, EndReap
    PROVE  IndInv'
<1>1. 0 \in Statuses /\ last_status \in Statuses /\ got_sigint \in BOOLEAN
  BY ConstantsAssumption DEF IndInv, TypeOK, Statuses
<1> QED BY <1>1, EndUnchangedInv DEF EndReap, Return

\* One turn of wait without operands.
LEMMA WaitAllReapInv ==
    ASSUME IndInv, NEW p \in Pids, WaitAllReap(p)
    PROVE  IndInv'
<1>1. /\ pc = "waitall" /\ Reportable(p)
      /\ proc' = [proc EXCEPT ![p] = Collect(p)]
      /\ UNCHANGED <<shell, next_job_id, got_sigint>>
  BY DEF WaitAllReap
<1>2. /\ jobMarkPid(p) \in [JobIds -> Jobs]
      /\ \A i \in JobIds : /\ jobMarkPid(p)[i].pid = jobs[i].pid
                           /\ jobMarkPid(p)[i].state = "none" <=> jobs[i].state = "none"
      /\ \A i \in JobIds : jobMarkPid(p)[i].state \in {"RUNNING", "STOPPED"} =>
            jobMarkPid(p)[i].pid \in Pids /\ proc'[jobMarkPid(p)[i].pid].st # "free"
  BY <1>1, ReapMarkInv
<1>3. proc' \in [Pids -> Processes] BY <1>1, ReapEffect DEF IndInv
<1>4. CASE AnyRunning(jobMarkPid(p))
  <2>1. jobs' = jobMarkPid(p) /\ UNCHANGED <<pc, cur, last_status>>
    BY <1>4 DEF WaitAllReap
  <2>2. FreshIds' /\ OneJobPerPid' BY <1>1, <1>2, <2>1, NoNewJob
  <2>3. TypeOK' BY <1>1, <1>2, <1>3, <2>1 DEF IndInv, TypeOK
  <2>4. ChildUnreaped' BY <1>2, <2>1 DEF ChildUnreaped
  <2> QED BY <1>1, <2>1, <2>2, <2>3, <2>4 DEF IndInv, NoDoneAtRest, ForegroundApart, WaitsForRunning
<1>5. CASE ~AnyRunning(jobMarkPid(p))
  <2>1. jobs' = RemoveDone(jobMarkPid(p)) /\ pc' = "idle" /\ cur' = 0 /\ last_status' = 0
    BY <1>5 DEF WaitAllReap, Return
  <2>2. last_status' \in Statuses /\ got_sigint' \in BOOLEAN
    BY <1>1, <2>1, ConstantsAssumption DEF Statuses, IndInv, TypeOK
  <2> QED BY <1>1, <1>2, <1>3, <2>1, <2>2, EndInv
<1> QED BY <1>4, <1>5

\* wait without operands ends when no child is left, or is interrupted.
LEMMA WaitAllEndInv ==
    ASSUME IndInv, WaitAllNoChild \/ \E sigint \in BOOLEAN : WaitAllInterrupted(sigint)
    PROVE  IndInv'
<1>1. /\ jobs' = RemoveDone(jobs) /\ pc' = "idle" /\ cur' = 0 /\ last_status' = 0
      /\ got_sigint' \in BOOLEAN
      /\ UNCHANGED <<shell, proc, next_job_id>>
  BY DEF WaitAllNoChild, WaitAllInterrupted, Return, IndInv, TypeOK
<1>2. last_status' \in Statuses BY <1>1, ConstantsAssumption DEF Statuses
<1> QED BY <1>1, <1>2, EndUnchangedInv

\* wait and fg return: their job is dropped, if it is done.
LEMMA FinishInv ==
    ASSUME IndInv, NEW table \in [JobIds -> Jobs], NEW i \in JobIds, Finish(table, i),
           proc' \in [Pids -> Processes],
           \A k \in JobIds : /\ table[k].pid = jobs[k].pid
                             /\ table[k].state = "none" <=> jobs[k].state = "none",
           \A k \in JobIds : table[k].state \in {"RUNNING", "STOPPED"} =>
                table[k].pid \in Pids /\ proc'[table[k].pid].st # "free",
           \A k \in JobIds \ {i} : table[k].state # "DONE",
           got_sigint' \in BOOLEAN, UNCHANGED <<shell, next_job_id>>
    PROVE  IndInv'
<1>1. /\ jobs' \in [JobIds -> Jobs]
      /\ pc' = "idle" /\ cur' = 0 /\ last_status' \in Statuses
      /\ jobs'[i].state # "DONE"
      /\ \A k \in JobIds : jobs'[k] = table[k] \/ (k = i /\ jobs'[k].state = "none")
  BY FinishEffect
<1>2. FreshIds' /\ OneJobPerPid' BY <1>1, NoNewJob
<1>3. NoDoneAtRest' BY <1>1 DEF NoDoneAtRest
<1>4. ChildUnreaped' BY <1>1 DEF ChildUnreaped
<1>5. TypeOK' BY <1>1 DEF IndInv, TypeOK
<1> QED BY <1>1, <1>2, <1>3, <1>4, <1>5 DEF IndInv, ForegroundApart, WaitsForRunning

\* wait for one job: for a listed one that runs, or at once.
LEMMA StartWaitJobInv ==
    ASSUME IndInv, NEW spec \in Specs, StartWaitJob(spec)
    PROVE  IndInv'
<1>1. /\ pc = "idle"
      /\ UNCHANGED <<shell, proc, next_job_id, got_sigint>>
  BY DEF StartWaitJob, Idle
<1>2. PICK i \in shJobFind(spec) :
        IF jobs[i].state = "RUNNING"
        THEN pc' = "waitjob" /\ cur' = i /\ UNCHANGED <<jobs, last_status>>
        ELSE Finish(jobs, i)
  BY DEF StartWaitJob
<1>3. i \in JobIds BY FindListed DEF Listed
<1>4. CASE jobs[i].state = "RUNNING"
  <2>1. pc' = "waitjob" /\ cur' = i /\ UNCHANGED <<jobs, last_status>>
    BY <1>2, <1>4
  <2> QED BY <1>1, <1>3, <1>4, <2>1
       DEF IndInv, TypeOK, NoDoneAtRest, FreshIds, OneJobPerPid, ChildUnreaped,
           ForegroundApart, WaitsForRunning
<1>5. CASE jobs[i].state # "RUNNING"
  <2>1. Finish(jobs, i) BY <1>2, <1>5
  <2>2. jobs \in [JobIds -> Jobs] /\ proc' \in [Pids -> Processes] /\ got_sigint' \in BOOLEAN
    BY <1>1 DEF IndInv, TypeOK
  <2>3. \A k \in JobIds : jobs[k].state \in {"RUNNING", "STOPPED"} =>
           jobs[k].pid \in Pids /\ proc'[jobs[k].pid].st # "free"
    BY <1>1 DEF IndInv, ChildUnreaped
  <2>4. \A k \in JobIds \ {i} : jobs[k].state # "DONE" BY <1>1 DEF IndInv, NoDoneAtRest
  <2> QED BY <1>1, <1>3, <2>1, <2>2, <2>3, <2>4, FinishInv
<1> QED BY <1>4, <1>5

\* fg and bg mark a job of the list, which is not done, as running.
LEMMA ContinueJobInv ==
    ASSUME IndInv, Idle, NEW i \in Listed, NEW pgid, proc' = ContinueGroup(pgid),
           jobs' = [jobs EXCEPT ![i].state = "RUNNING"],
           \/ pc' = "waitjob" /\ cur' = i
           \/ UNCHANGED <<pc, cur>>,
           last_status' \in Statuses, UNCHANGED <<shell, next_job_id, got_sigint>>
    PROVE  IndInv'
<1>1. i \in JobIds /\ jobs[i].state \in {"RUNNING", "STOPPED"}
  BY DEF Listed, IndInv, TypeOK, Jobs, NoDoneAtRest, Idle
<1>2. jobs \in [JobIds -> Jobs] BY DEF IndInv, TypeOK
<1>3. [jobs[i] EXCEPT !.state = "RUNNING"] \in Jobs BY <1>1, <1>2 DEF Jobs
<1>4. jobs' \in [JobIds -> Jobs] BY <1>1, <1>2, <1>3
<1>5. /\ jobs'[i].pid = jobs[i].pid /\ jobs'[i].state = "RUNNING"
      /\ \A k \in JobIds \ {i} : jobs'[k] = jobs[k]
  BY <1>1, <1>2 DEF Jobs
<1>6. /\ proc' \in [Pids -> Processes]
      /\ \A p \in Pids : proc'[p].st = "free" <=> proc[p].st = "free"
  BY ContinueEffect DEF IndInv
<1>7. FreshIds' /\ OneJobPerPid' BY <1>1, <1>5, NoNewJob
<1>8. NoDoneAtRest' BY <1>5 DEF IndInv, NoDoneAtRest, Idle
<1>9. ChildUnreaped' BY <1>1, <1>5, <1>6 DEF IndInv, ChildUnreaped
<1>10. TypeOK' BY <1>1, <1>4, <1>6 DEF IndInv, TypeOK
<1>11. ForegroundApart' /\ WaitsForRunning' BY <1>1, <1>5 DEF Idle, ForegroundApart, WaitsForRunning
<1> QED BY <1>7, <1>8, <1>9, <1>10, <1>11 DEF IndInv

\* fg, bg and kill -CONT continue the job they name.
LEMMA FgBgKillInv ==
    ASSUME IndInv, NEW spec \in Specs,
           builtinFg(spec) \/ builtinBg(spec) \/ builtinKillCont(spec)
    PROVE  IndInv'
<1>1. 0 \in Statuses /\ 1 \in Statuses /\ last_status \in Statuses
  BY ConstantsAssumption DEF IndInv, TypeOK, Statuses
<1>2. CASE builtinFg(spec)
  <2>1. PICK i \in shJobFind(spec) : /\ proc' = ContinueGroup(jobs[i].pid)
                                     /\ jobs' = [jobs EXCEPT ![i].state = "RUNNING"]
                                     /\ cur' = i
    BY <1>2 DEF builtinFg
  <2>2. i \in Listed BY FindListed
  <2> QED BY <1>1, <1>2, <2>1, <2>2, ContinueJobInv DEF builtinFg
<1>3. CASE builtinBg(spec)
  <2>1. PICK i \in shJobFind(spec) : /\ proc' = ContinueGroup(jobs[i].pid)
                                     /\ jobs' = [jobs EXCEPT ![i].state = "RUNNING"]
    BY <1>3 DEF builtinBg
  <2>2. i \in Listed BY FindListed
  <2> QED BY <1>1, <1>3, <2>1, <2>2, ContinueJobInv DEF builtinBg
<1>4. CASE builtinKillCont(spec)
  <2>1. PICK i \in shJobFind(spec) : /\ proc' = ContinueGroup(jobs[i].pid)
                                     /\ last_status' = IF GroupOf(jobs[i].pid) = {} THEN 1 ELSE 0
    BY <1>4 DEF builtinKillCont
  <2>2. /\ proc' \in [Pids -> Processes]
        /\ \A p \in Pids : proc'[p].st = "free" <=> proc[p].st = "free"
    BY <2>1, ContinueEffect DEF IndInv
  <2>3. last_status' \in Statuses BY <1>1, <2>1
  <2>4. UNCHANGED <<shell, jobs, next_job_id, got_sigint, pc, cur>> /\ pc = "idle"
    BY <1>4 DEF builtinKillCont, Idle
  <2> QED BY <2>2, <2>3, <2>4
       DEF IndInv, TypeOK, NoDoneAtRest, FreshIds, OneJobPerPid, ChildUnreaped,
           ForegroundApart, WaitsForRunning
<1> QED BY <1>2, <1>3, <1>4

\* One turn of shWaitForJob: a child of its job has something to report.
LEMMA WaitJobReapInv ==
    ASSUME IndInv, NEW p \in Pids, WaitJobReap(p)
    PROVE  IndInv'
<1>1. /\ pc = "waitjob" /\ Reportable(p) /\ p = jobs[cur].pid
      /\ proc' = [proc EXCEPT ![p] = Collect(p)]
      /\ UNCHANGED <<shell, next_job_id, got_sigint>>
  BY DEF WaitJobReap, GroupOf
<1>2. cur \in JobIds /\ jobs[cur].state = "RUNNING" BY <1>1 DEF IndInv, WaitsForRunning
<1>3. /\ jobMarkPid(p) \in [JobIds -> Jobs]
      /\ \A i \in JobIds : /\ jobMarkPid(p)[i].pid = jobs[i].pid
                           /\ jobMarkPid(p)[i].state = "none" <=> jobs[i].state = "none"
      /\ \A i \in JobIds : jobMarkPid(p)[i].state \in {"RUNNING", "STOPPED"} =>
            jobMarkPid(p)[i].pid \in Pids /\ proc'[jobMarkPid(p)[i].pid].st # "free"
  BY <1>1, ReapMarkInv
<1>4. proc' \in [Pids -> Processes] BY <1>1, ReapEffect DEF IndInv
<1>5. /\ jobMarkPid(p)[cur].state \in {"STOPPED", "DONE"}
      /\ \A k \in JobIds \ {cur} : jobMarkPid(p)[k] = jobs[k]
  BY <1>1, <1>2, MarkEffect DEF IndInv, OneJobPerPid
<1>6. Finish(jobMarkPid(p), cur) BY <1>5 DEF WaitJobReap
<1>7. \A k \in JobIds \ {cur} : jobMarkPid(p)[k].state # "DONE"
  BY <1>1, <1>5 DEF IndInv, NoDoneAtRest
<1>8. got_sigint' \in BOOLEAN BY <1>1 DEF IndInv, TypeOK
<1> QED BY <1>1, <1>2, <1>3, <1>4, <1>6, <1>7, <1>8, FinishInv

\* shWaitForJob without a child to wait for takes its job for done.
LEMMA WaitJobNoChildInv ==
    ASSUME IndInv, WaitJobNoChild
    PROVE  IndInv'
<1> DEFINE table == [jobs EXCEPT ![cur].state = "DONE"]
<1>1. /\ pc = "waitjob" /\ Finish(table, cur)
      /\ UNCHANGED <<shell, proc, next_job_id, got_sigint>>
  BY DEF WaitJobNoChild
<1>2. cur \in JobIds /\ jobs[cur].state = "RUNNING" BY <1>1 DEF IndInv, WaitsForRunning
<1>3. jobs \in [JobIds -> Jobs] BY DEF IndInv, TypeOK
<1>4. table \in [JobIds -> Jobs]
  <2>1. [jobs[cur] EXCEPT !.state = "DONE"] \in Jobs BY <1>2, <1>3 DEF Jobs
  <2> QED BY <1>2, <1>3, <2>1
<1>5. /\ table[cur].pid = jobs[cur].pid /\ table[cur].state = "DONE"
      /\ \A k \in JobIds \ {cur} : table[k] = jobs[k]
  BY <1>2, <1>3 DEF Jobs
<1> HIDE DEF table
<1>6. \A k \in JobIds : table[k].state \in {"RUNNING", "STOPPED"} =>
         table[k].pid \in Pids /\ proc'[table[k].pid].st # "free"
  BY <1>1, <1>5 DEF IndInv, ChildUnreaped
<1>7. \A k \in JobIds \ {cur} : table[k].state # "DONE" BY <1>1, <1>5 DEF IndInv, NoDoneAtRest
<1>8. got_sigint' \in BOOLEAN /\ proc' \in [Pids -> Processes] BY <1>1 DEF IndInv, TypeOK
<1>9. \A k \in JobIds : /\ table[k].pid = jobs[k].pid
                        /\ table[k].state = "none" <=> jobs[k].state = "none"
  BY <1>2, <1>5
<1> QED BY <1>1, <1>2, <1>4, <1>6, <1>7, <1>8, <1>9, FinishInv

\* A signal interrupts shWaitForJob: SIGINT ends it, another does not.
LEMMA WaitJobInterruptedInv ==
    ASSUME IndInv, NEW sigint \in BOOLEAN, WaitJobInterrupted(sigint)
    PROVE  IndInv'
<1>1. /\ pc = "waitjob" /\ got_sigint' \in BOOLEAN
      /\ UNCHANGED <<shell, proc, next_job_id>>
  BY DEF WaitJobInterrupted, IndInv, TypeOK
<1>2. CASE got_sigint'
  <2>1. Finish(jobs, cur) BY <1>2 DEF WaitJobInterrupted
  <2>2. cur \in JobIds BY <1>1 DEF IndInv, WaitsForRunning
  <2>3. jobs \in [JobIds -> Jobs] /\ proc' \in [Pids -> Processes] BY <1>1 DEF IndInv, TypeOK
  <2>4. \A k \in JobIds : jobs[k].state \in {"RUNNING", "STOPPED"} =>
           jobs[k].pid \in Pids /\ proc'[jobs[k].pid].st # "free"
    BY <1>1 DEF IndInv, ChildUnreaped
  <2>5. \A k \in JobIds \ {cur} : jobs[k].state # "DONE" BY <1>1 DEF IndInv, NoDoneAtRest
  <2> QED BY <1>1, <2>1, <2>2, <2>3, <2>4, <2>5, FinishInv
<1>3. CASE ~got_sigint'
  <2>1. UNCHANGED <<jobs, pc, cur, last_status>> BY <1>3 DEF WaitJobInterrupted
  <2> QED BY <1>1, <2>1
       DEF IndInv, TypeOK, NoDoneAtRest, FreshIds, OneJobPerPid, ChildUnreaped,
           ForegroundApart, WaitsForRunning
<1> QED BY <1>2, <1>3

\* A step that changes no more than $? and the interrupt flag.
LEMMA FlagsInv ==
    ASSUME IndInv, UNCHANGED <<shell, proc, jobs, next_job_id, pc, cur>>,
           last_status' \in Statuses, got_sigint' \in BOOLEAN
    PROVE  IndInv'
BY DEF IndInv, TypeOK, NoDoneAtRest, FreshIds, OneJobPerPid, ChildUnreaped,
       ForegroundApart, WaitsForRunning

-----------------------------------------------------------------------------
\* A new shell has no jobs and no children.
LEMMA InitInv == ASSUME Init PROVE IndInv
<1>1. NoJob \in Jobs /\ NoJob.state = "none" BY ConstantsAssumption DEF NoJob, Jobs
<1>2. NoProcess \in Processes BY ConstantsAssumption DEF NoProcess, Processes
<1>3. 0 \in Statuses BY ConstantsAssumption DEF Statuses
<1> QED BY <1>1, <1>2, <1>3
     DEF Init, IndInv, TypeOK, NoDoneAtRest, FreshIds, OneJobPerPid, ChildUnreaped,
         ForegroundApart, WaitsForRunning

\* Every action of the shell and of its children keeps IndInv.
LEMMA NextInv == ASSUME IndInv, [Next]_vars PROVE IndInv'
<1>1. CASE Environment BY <1>1, EnvironmentInv
<1>2. CASE Command
  <2>1. ASSUME NEW p \in Pids, runBackground(p) \/ runExternal(p) PROVE IndInv'
    BY <2>1, runBackgroundInv, runExternalInv
  <2>2. CASE builtinJobs \/ runInteractive \/ StartWaitAll
    BY <2>2, StartInv DEF builtinJobs, runInteractive, StartWaitAll, IndInv, TypeOK
  <2>3. ASSUME NEW s \in Specs, StartWaitJob(s) PROVE IndInv' BY <2>3, StartWaitJobInv
  <2>4. ASSUME NEW s \in Specs, NoSuchJob(s, 127) \/ NoSuchJob(s, 1) PROVE IndInv'
    BY <2>4, FlagsInv DEF NoSuchJob, Fail, Statuses, IndInv, TypeOK
  <2>5. ASSUME NEW s \in Specs, builtinFg(s) \/ builtinBg(s) \/ builtinKillCont(s) PROVE IndInv'
    BY <2>5, FgBgKillInv
  <2> QED BY <1>2, <2>1, <2>2, <2>3, <2>4, <2>5 DEF Command
<1>3. CASE Continue
  <2>1. CASE ExternalEnded BY <2>1, ExternalEndedInv
  <2>2. CASE ExternalStopped BY <2>2, ExternalStoppedInv
  <2>3. ASSUME NEW p \in Pids, ReapOne(p) \/ WaitAllReap(p) \/ WaitJobReap(p) PROVE IndInv'
    BY <2>3, ReapOneInv, WaitAllReapInv, WaitJobReapInv
  <2>4. CASE EndReap BY <2>4, EndReapInv
  <2>5. CASE WaitAllNoChild BY <2>5, WaitAllEndInv
  <2>6. CASE WaitJobNoChild BY <2>6, WaitJobNoChildInv
  <2> QED BY <1>3, <2>1, <2>2, <2>3, <2>4, <2>5, <2>6 DEF Continue
<1>4. CASE Signal
  <2>1. CASE Interrupt BY <2>1, FlagsInv DEF Interrupt, IndInv, TypeOK
  <2>2. ASSUME NEW sigint \in BOOLEAN, WaitAllInterrupted(sigint) \/ WaitJobInterrupted(sigint)
        PROVE  IndInv'
    BY <2>2, WaitAllEndInv, WaitJobInterruptedInv
  <2> QED BY <1>4, <2>1, <2>2 DEF Signal
<1>5. CASE UNCHANGED vars
  BY <1>5, FlagsInv DEF vars, IndInv, TypeOK
<1> QED BY <1>1, <1>2, <1>3, <1>4, <1>5 DEF Next

\* The inductive invariant holds in every reachable state.
THEOREM Invariance == Spec => []IndInv
BY InitInv, NextInv, PTL DEF Spec

\* Type correctness of the job table, the children and the shell's position.
THEOREM TypeCorrect == Spec => []TypeOK
<1>1. IndInv => TypeOK BY DEF IndInv
<1> QED BY <1>1, Invariance, PTL

\* No finished job is left in the table between commands or while one waits.
THEOREM NoDoneLeft == Spec => []NoDoneAtRest
<1>1. IndInv => NoDoneAtRest BY DEF IndInv
<1> QED BY <1>1, Invariance, PTL

\* Every unfinished job stands for one unreaped child of its own: jobMarkPid
\* can never charge the end of a process to another job, however pids are reused.
THEOREM JobsOwnTheirChildren == Spec => []JobOwnsItsChild
<1>1. IndInv => JobOwnsItsChild
  BY DEF IndInv, JobOwnsItsChild, OneJobPerPid, ChildUnreaped, ForegroundApart
<1> QED BY <1>1, Invariance, PTL

-----------------------------------------------------------------------------
(* No child of an interactive shell is forgotten.  What has to be known    *)
(* besides IndInv is that its children have groups of their own: then fg   *)
(* and bg do wake the job they mark as running, and shWaitForJob never     *)
(* takes a child that lives for one that is gone.                          *)

OwnGroups == shell.interactive => \A p \in Children : proc[p].own

AllInv == OwnGroups /\ NoneForgotten

Unfinished(job) == job.state \in {"RUNNING", "STOPPED"}
\* A child that runs, or of which waitpid still has something to tell.
Live(child) == child.st = "running" \/ child.st = "zombie" \/ (child.st = "stopped" /\ ~child.told)

\* What a step has to leave: the groups, the child of every job of the old table or an
\* end of that child, the foreground command, and the jobs that run.
LEMMA AccountKept ==
    ASSUME AllInv, UNCHANGED shell,
           shell.interactive =>
             /\ \A p \in Pids : proc'[p].st # "free" => proc[p].st # "free" /\ proc'[p].own = proc[p].own
             /\ \A i \in JobIds : Unfinished(jobs[i]) =>
                    \/ Unfinished(jobs'[i]) /\ jobs'[i].pid = jobs[i].pid
                    \/ jobs[i].pid \in Pids => proc'[jobs[i].pid].st = "free"
             /\ pc = "ext" => \/ pc' = "ext" /\ cur' = cur
                              \/ cur \in Pids => proc'[cur].st = "free"
             /\ \A i \in JobIds : jobs'[i].state = "RUNNING" => Live(proc'[jobs'[i].pid])
    PROVE  AllInv'
<1> SUFFICES ASSUME shell.interactive, shell'.interactive PROVE AllInv'
  BY DEF AllInv, OwnGroups, NoneForgotten, NoLostChild, NoLostReport
<1>1. OwnGroups' BY DEF AllInv, OwnGroups, Children
<1>2. NoLostChild' BY DEF AllInv, NoneForgotten, NoLostChild, Children, Unfinished
<1>3. NoLostReport' BY DEF NoLostReport, Live, Reportable
<1> QED BY <1>1, <1>2, <1>3 DEF AllInv, NoneForgotten

\* A child comes to stand for itself: it runs in the foreground, or has a new job.
LEMMA ForkKept ==
    ASSUME IndInv, AllInv, Idle, NEW p \in Pids, NEW own \in BOOLEAN, Fork(p, own), UNCHANGED shell,
           shell.interactive => own,
           \/ /\ pc' = "ext" /\ cur' = p /\ jobs' = jobs
           \/ jobAdd(p, "RUNNING")
    PROVE  AllInv'
<1> SUFFICES ASSUME shell.interactive, shell'.interactive PROVE AllInv'
  BY DEF AllInv, OwnGroups, NoneForgotten, NoLostChild, NoLostReport
<1>1. /\ proc[p].st = "free" /\ proc'[p].st = "running" /\ proc'[p].own = own
      /\ \A q \in Pids \ {p} : proc'[q] = proc[q]
  BY DEF Fork, IndInv, TypeOK, Processes, NoProcess
<1>2. OwnGroups' BY <1>1 DEF AllInv, OwnGroups, Children
<1>3. \A i \in JobIds : Unfinished(jobs[i]) => jobs[i].pid \in Pids \ {p}
  BY <1>1 DEF IndInv, ChildUnreaped, Unfinished
<1>4. \A q \in Pids \ {p} : proc'[q].st # "free" =>
         \E i \in JobIds : Unfinished(jobs[i]) /\ jobs[i].pid = q
  BY <1>1 DEF AllInv, NoneForgotten, NoLostChild, Children, Unfinished, Idle
<1>5. \A i \in JobIds : jobs[i].state = "RUNNING" => Live(proc'[jobs[i].pid])
  BY <1>1, <1>3 DEF AllInv, NoneForgotten, NoLostReport, Live, Reportable, Unfinished
<1>6. CASE pc' = "ext" /\ cur' = p /\ jobs' = jobs
  <2>1. NoLostChild' BY <1>4, <1>6 DEF NoLostChild, Children, Unfinished
  <2>2. NoLostReport' BY <1>5, <1>6 DEF NoLostReport, Live, Reportable
  <2> QED BY <1>2, <2>1, <2>2 DEF AllInv, NoneForgotten
<1>7. CASE jobAdd(p, "RUNNING")
  <2> DEFINE n == next_job_id
  <2>1. /\ n \in JobIds /\ jobs[n].state = "none"
        /\ jobs'[n].pid = p /\ jobs'[n].state = "RUNNING"
        /\ \A i \in JobIds \ {n} : jobs'[i] = jobs[i]
    BY <1>7, ConstantsAssumption DEF jobAdd, NewJob, IndInv, TypeOK, FreshIds
  <2>2. NoLostChild' BY <1>4, <2>1 DEF NoLostChild, Children, Unfinished
  <2>3. NoLostReport' BY <1>1, <1>5, <2>1 DEF NoLostReport, Live, Reportable
  <2> QED BY <1>2, <2>2, <2>3 DEF AllInv, NoneForgotten
<1> QED BY <1>6, <1>7

\* A waitpid call that returned p, and the table it leaves with or without its finished jobs.
LEMMA ReapKept ==
    ASSUME IndInv, AllInv, NEW p \in Pids, Reportable(p), UNCHANGED shell, pc # "ext",
           proc' = [proc EXCEPT ![p] = Collect(p)],
           \A i \in JobIds : \/ jobs'[i] = jobMarkPid(p)[i]
                             \/ jobMarkPid(p)[i].state = "DONE" /\ jobs'[i].state = "none"
    PROVE  AllInv'
<1>1. \A i \in JobIds :
            IF jobs[i].state # "none" /\ jobs[i].pid = p
            THEN /\ jobMarkPid(p)[i].pid = p
                 /\ jobMarkPid(p)[i].state = IF proc[p].st = "stopped" THEN "STOPPED" ELSE "DONE"
            ELSE jobMarkPid(p)[i] = jobs[i]
  BY MarkEffect DEF IndInv
<1>2. /\ proc'[p].st = "free" <=> proc[p].st = "zombie"
      /\ proc[p].st \in {"zombie", "stopped"}
      /\ \A q \in Pids \ {p} : proc'[q] = proc[q]
  BY ReapEffect DEF IndInv
<1>3. proc'[p].st # "free" => proc'[p].own = proc[p].own
  BY DEF Collect, NoProcess, IndInv, TypeOK, Processes
<1>4. \A i \in JobIds : Unfinished(jobs[i]) =>
         \/ Unfinished(jobs'[i]) /\ jobs'[i].pid = jobs[i].pid
         \/ proc'[jobs[i].pid].st = "free"
  BY <1>1, <1>2 DEF Unfinished
<1>5. \A i \in JobIds : jobs'[i].state = "RUNNING" => jobs'[i] = jobs[i] /\ jobs[i].pid \in Pids \ {p}
  BY <1>1 DEF IndInv, ChildUnreaped
<1>6. shell.interactive => \A i \in JobIds : jobs'[i].state = "RUNNING" => Live(proc'[jobs'[i].pid])
  BY <1>2, <1>5 DEF AllInv, NoneForgotten, NoLostReport, Live, Reportable
<1> QED BY <1>2, <1>3, <1>4, <1>6, AccountKept

\* A step that leaves the children alone and drops no more than finished jobs.
LEMMA RestKept ==
    ASSUME AllInv, UNCHANGED <<shell, proc>>,
           pc = "ext" => pc' = "ext" /\ cur' = cur,
           \A i \in JobIds : jobs'[i] = jobs[i] \/ (jobs[i].state = "DONE" /\ jobs'[i].state = "none")
    PROVE  AllInv'
<1>1. \A i \in JobIds : Unfinished(jobs[i]) => Unfinished(jobs'[i]) /\ jobs'[i].pid = jobs[i].pid
  BY DEF Unfinished
<1>2. shell.interactive => \A i \in JobIds : jobs'[i].state = "RUNNING" => Live(proc'[jobs'[i].pid])
  BY DEF AllInv, NoneForgotten, NoLostReport, Live, Reportable
<1> QED BY <1>1, <1>2, AccountKept

\* SIGCONT reaches the child of a job, which is in a group of its own: with it or without
\* the job being marked as running.
LEMMA ContinueKept ==
    ASSUME IndInv, AllInv, Idle, NEW i \in Listed, proc' = ContinueGroup(jobs[i].pid), UNCHANGED shell,
           \/ jobs' = jobs
           \/ jobs' = [jobs EXCEPT ![i].state = "RUNNING"]
    PROVE  AllInv'
<1> DEFINE p == jobs[i].pid
<1>1. i \in JobIds /\ jobs \in [JobIds -> Jobs] /\ Unfinished(jobs[i])
  BY DEF Listed, IndInv, TypeOK, Jobs, NoDoneAtRest, Idle, Unfinished
<1>2. p \in Pids /\ proc[p].st # "free" BY <1>1 DEF IndInv, ChildUnreaped, Unfinished
<1>3. \A q \in Pids : /\ proc'[q] = proc[q] \/ (proc[q].st = "stopped" /\ proc'[q].st = "running")
                      /\ proc'[q].own = proc[q].own
  BY DEF ContinueGroup, IndInv, TypeOK, Processes
<1>4. shell.interactive => Live(proc'[p])
  <2> SUFFICES ASSUME shell.interactive PROVE Live(proc'[p]) OBVIOUS
  <2>1. p \in GroupOf(p) BY <1>2 DEF AllInv, OwnGroups, GroupOf, Children
  <2>2. proc'[p] = IF proc[p].st = "stopped" THEN [proc[p] EXCEPT !.st = "running", !.told = FALSE] ELSE proc[p]
    BY <1>2, <2>1 DEF ContinueGroup
  <2>3. proc[p] \in Processes BY <1>2 DEF IndInv, TypeOK
  <2>4. jobs'[i].pid = p BY <1>1 DEF Jobs
  <2> QED BY <1>2, <2>2, <2>3, <2>4 DEF Live, Processes
<1>5. \A k \in JobIds : /\ jobs'[k].pid = jobs[k].pid
                        /\ k # i => jobs'[k] = jobs[k]
                        /\ Unfinished(jobs[k]) <=> Unfinished(jobs'[k])
  BY <1>1 DEF Jobs, Unfinished
<1>6. shell.interactive => \A k \in JobIds : jobs'[k].state = "RUNNING" => Live(proc'[jobs'[k].pid])
  <2> SUFFICES ASSUME shell.interactive, NEW k \in JobIds, jobs'[k].state = "RUNNING"
               PROVE  Live(proc'[jobs'[k].pid])
    OBVIOUS
  <2>1. CASE k = i BY <1>4, <1>5, <2>1 DEF Live, Reportable
  <2>2. CASE k # i
    <3>1. jobs[k].pid \in Pids /\ jobs[k].state = "RUNNING" /\ jobs'[k] = jobs[k]
      BY <1>5, <2>2 DEF IndInv, ChildUnreaped
    <3> QED BY <1>3, <3>1 DEF AllInv, NoneForgotten, NoLostReport, Live, Reportable
  <2> QED BY <2>1, <2>2
<1> QED BY <1>3, <1>5, <1>6, AccountKept DEF Idle

\* The kernel changes a child, which the table learns of when waitpid reports it.
LEMMA EnvironmentKept ==
    ASSUME IndInv, AllInv, Environment
    PROVE  AllInv'
<1>1. PICK p \in Pids : ChildStop(p) \/ \E c \in Codes : ChildExit(p, c)
  BY DEF Environment
<1>2. /\ UNCHANGED shellVars /\ proc[p].st # "free"
      /\ proc'[p].st # "free" /\ Live(proc'[p]) /\ proc'[p].own = proc[p].own
      /\ \A q \in Pids \ {p} : proc'[q] = proc[q]
  <2>1. proc \in [Pids -> Processes] BY DEF IndInv, TypeOK
  <2>2. CASE ChildStop(p) BY <2>1, <2>2 DEF ChildStop, Live, Processes
  <2>3. ASSUME NEW c \in Codes, ChildExit(p, c)
        PROVE  /\ UNCHANGED shellVars /\ proc[p].st # "free"
               /\ proc'[p].st # "free" /\ Live(proc'[p]) /\ proc'[p].own = proc[p].own
               /\ \A q \in Pids \ {p} : proc'[q] = proc[q]
    BY <2>1, <2>3 DEF ChildExit, Alive, Live, Processes
  <2> QED BY <1>1, <2>2, <2>3
<1>3. \A i \in JobIds : jobs[i].state = "RUNNING" => jobs[i].pid \in Pids
  BY DEF IndInv, ChildUnreaped
<1>4. shell.interactive => \A i \in JobIds : jobs[i].state = "RUNNING" => Live(proc'[jobs[i].pid])
  BY <1>2, <1>3 DEF AllInv, NoneForgotten, NoLostReport, Live, Reportable
<1> QED BY <1>2, <1>4, AccountKept DEF shellVars

\* The foreground command ends, or stops and becomes a job.
LEMMA ExternalKept ==
    ASSUME IndInv, AllInv, ExternalEnded \/ ExternalStopped
    PROVE  AllInv'
<1> SUFFICES ASSUME shell.interactive PROVE AllInv'
  BY DEF AllInv, OwnGroups, NoneForgotten, NoLostChild, NoLostReport, ExternalEnded, ExternalStopped
<1>1. /\ pc = "ext" /\ Reportable(cur) /\ UNCHANGED shell
      /\ proc' = [proc EXCEPT ![cur] = Collect(cur)]
  BY DEF ExternalEnded, ExternalStopped, Reportable
<1>2. cur \in Pids /\ \A i \in JobIds : jobs[i].state # "none" => jobs[i].pid # cur
  BY <1>1 DEF IndInv, ForegroundApart
<1>3. /\ proc'[cur].st = "free" <=> proc[cur].st = "zombie"
      /\ \A q \in Pids \ {cur} : proc'[q] = proc[q]
  BY <1>1, <1>2, ReapEffect DEF IndInv
<1>4. proc'[cur].st # "free" => proc'[cur].own = proc[cur].own
  BY <1>1, <1>2 DEF Collect, NoProcess, IndInv, TypeOK, Processes
<1>5. \A i \in JobIds : jobs[i].state = "RUNNING" => Live(proc'[jobs[i].pid])
  BY <1>2, <1>3 DEF AllInv, NoneForgotten, NoLostReport, Live, Reportable, IndInv, ChildUnreaped
<1>6. CASE ExternalEnded
  <2>1. proc'[cur].st = "free" /\ jobs' = jobs BY <1>3, <1>6 DEF ExternalEnded
  <2> QED BY <1>1, <1>3, <1>4, <1>5, <2>1, AccountKept
<1>7. CASE ExternalStopped
  <2> DEFINE n == next_job_id
  <2>1. /\ n \in JobIds /\ jobs[n].state = "none"
        /\ jobs'[n].pid = cur /\ jobs'[n].state = "STOPPED"
        /\ \A i \in JobIds \ {n} : jobs'[i] = jobs[i]
    BY <1>7, ConstantsAssumption DEF ExternalStopped, jobAdd, NewJob, IndInv, TypeOK, FreshIds
  <2>2. OwnGroups' BY <1>1, <1>2, <1>3, <1>4 DEF AllInv, OwnGroups, Children, Reportable
  <2>3. \A q \in Pids \ {cur} : proc'[q].st # "free" =>
           \E i \in JobIds : Unfinished(jobs[i]) /\ jobs[i].pid = q
    BY <1>1, <1>3 DEF AllInv, NoneForgotten, NoLostChild, Children, Unfinished
  <2>4. NoLostChild' BY <2>1, <2>3 DEF NoLostChild, Children, Unfinished
  <2>5. NoLostReport' BY <1>5, <2>1 DEF NoLostReport, Live, Reportable
  <2> QED BY <2>2, <2>4, <2>5 DEF AllInv, NoneForgotten
<1> QED BY <1>6, <1>7

\* In an interactive shell there is a child in the group of a job that is waited for.
LEMMA WaitsForItsGroup ==
    ASSUME IndInv, AllInv, shell.interactive, pc = "waitjob"
    PROVE  /\ cur \in JobIds /\ jobs[cur].state = "RUNNING" /\ jobs[cur].pid \in Pids
           /\ GroupOf(jobs[cur].pid) = {jobs[cur].pid}
BY DEF IndInv, WaitsForRunning, ChildUnreaped, AllInv, OwnGroups, GroupOf, Children

\* wait and fg for one job.
LEMMA WaitJobKept ==
    ASSUME IndInv, AllInv,
           \/ \E p \in Pids : WaitJobReap(p)
           \/ WaitJobNoChild
           \/ \E sigint \in BOOLEAN : WaitJobInterrupted(sigint)
    PROVE  AllInv'
<1>1. jobs \in [JobIds -> Jobs] /\ NoJob.state = "none" BY DEF IndInv, TypeOK, NoJob
<1>2. ASSUME NEW p \in Pids, WaitJobReap(p) PROVE AllInv'
  <2>1. \A i \in JobIds : \/ jobs'[i] = jobMarkPid(p)[i]
                          \/ jobMarkPid(p)[i].state = "DONE" /\ jobs'[i].state = "none"
    BY <1>1, <1>2, MarkEffect DEF WaitJobReap, Finish, IndInv
  <2> QED BY <1>2, <2>1, ReapKept DEF WaitJobReap
<1>3. CASE WaitJobNoChild
  <2>1. ~shell.interactive BY <1>3, WaitsForItsGroup DEF WaitJobNoChild
  <2> QED BY <1>3, <2>1
       DEF WaitJobNoChild, AllInv, OwnGroups, NoneForgotten, NoLostChild, NoLostReport
<1>4. ASSUME NEW sigint \in BOOLEAN, WaitJobInterrupted(sigint) PROVE AllInv'
  <2>1. \A i \in JobIds : jobs'[i] = jobs[i] \/ (jobs[i].state = "DONE" /\ jobs'[i].state = "none")
    BY <1>1, <1>4 DEF WaitJobInterrupted, Finish
  <2> QED BY <1>4, <2>1, RestKept DEF WaitJobInterrupted
<1> QED BY <1>2, <1>3, <1>4

\* jobs, the prompt and wait without operands.
LEMMA ReapingKept ==
    ASSUME IndInv, AllInv,
           \/ \E p \in Pids : ReapOne(p) \/ WaitAllReap(p)
           \/ EndReap \/ WaitAllNoChild
           \/ \E sigint \in BOOLEAN : WaitAllInterrupted(sigint)
    PROVE  AllInv'
<1>1. ASSUME NEW p \in Pids, ReapOne(p) \/ WaitAllReap(p) PROVE AllInv'
  <2>1. jobMarkPid(p) \in [JobIds -> Jobs] BY MarkEffect DEF IndInv
  <2>2. \A i \in JobIds : \/ jobs'[i] = jobMarkPid(p)[i]
                          \/ jobMarkPid(p)[i].state = "DONE" /\ jobs'[i].state = "none"
    BY <1>1, <2>1, RemoveDoneEffect DEF ReapOne, WaitAllReap
  <2> QED BY <1>1, <2>2, ReapKept DEF ReapOne, WaitAllReap, Reaping
<1>2. CASE EndReap \/ WaitAllNoChild \/ \E sigint \in BOOLEAN : WaitAllInterrupted(sigint)
  <2>1. jobs' = RemoveDone(jobs) /\ pc # "ext" /\ UNCHANGED <<shell, proc>>
    BY <1>2 DEF EndReap, WaitAllNoChild, WaitAllInterrupted, Reaping
  <2>2. \A i \in JobIds : jobs'[i] = jobs[i] \/ (jobs[i].state = "DONE" /\ jobs'[i].state = "none")
    BY <2>1, RemoveDoneEffect DEF IndInv, TypeOK
  <2> QED BY <2>1, <2>2, RestKept
<1> QED BY <1>1, <1>2

\* A command that the shell starts.
LEMMA CommandKept ==
    ASSUME IndInv, AllInv, Command
    PROVE  AllInv'
<1>1. shell.interactive => shell.opt_monitor BY MonitorAssumption DEF IndInv, TypeOK
<1>2. shell.opt_monitor \in BOOLEAN /\ shell.interactive \in BOOLEAN
  BY ConstantsAssumption DEF IndInv, TypeOK
<1>3. ASSUME NEW p \in Pids, runBackground(p) \/ runExternal(p) PROVE AllInv'
  <2>1. CASE runBackground(p) BY <1>1, <1>2, <2>1, ForkKept DEF runBackground
  <2>2. CASE runExternal(p)
    <3>1. (shell.opt_monitor /\ shell.interactive) \in BOOLEAN BY <1>2
    <3> QED BY <1>1, <2>2, <3>1, ForkKept DEF runExternal
  <2> QED BY <1>3, <2>1, <2>2
<1>4. CASE builtinJobs \/ runInteractive \/ StartWaitAll
  BY <1>4, RestKept DEF builtinJobs, runInteractive, StartWaitAll, Idle
<1>5. ASSUME NEW spec \in Specs, StartWaitJob(spec) PROVE AllInv'
  <2>1. \A i \in JobIds : jobs'[i] = jobs[i] \/ (jobs[i].state = "DONE" /\ jobs'[i].state = "none")
    BY <1>5 DEF StartWaitJob, Finish, IndInv, TypeOK, NoDoneAtRest, Idle, NoJob
  <2> QED BY <1>5, <2>1, RestKept DEF StartWaitJob, Idle
<1>6. ASSUME NEW spec \in Specs, NoSuchJob(spec, 127) \/ NoSuchJob(spec, 1) PROVE AllInv'
  BY <1>6, RestKept DEF NoSuchJob, Fail, Idle
<1>7. ASSUME NEW spec \in Specs, builtinFg(spec) \/ builtinBg(spec) \/ builtinKillCont(spec) PROVE AllInv'
  <2>1. Idle /\ UNCHANGED shell BY <1>7 DEF builtinFg, builtinBg, builtinKillCont
  <2>2. PICK i \in shJobFind(spec) : /\ proc' = ContinueGroup(jobs[i].pid)
                                     /\ \/ jobs' = jobs
                                        \/ jobs' = [jobs EXCEPT ![i].state = "RUNNING"]
    BY <1>7 DEF builtinFg, builtinBg, builtinKillCont
  <2>3. i \in Listed BY FindListed
  <2> QED BY <2>1, <2>2, <2>3, ContinueKept
<1> QED BY <1>3, <1>4, <1>5, <1>6, <1>7 DEF Command

\* Every action keeps AllInv.
LEMMA AllNext == ASSUME IndInv, AllInv, [Next]_vars PROVE AllInv'
<1>1. CASE Command BY <1>1, CommandKept
<1>2. CASE Continue BY <1>2, ExternalKept, ReapingKept, WaitJobKept DEF Continue
<1>3. CASE Signal
  <2>1. CASE Interrupt BY <2>1, RestKept DEF Interrupt
  <2> QED BY <1>3, <2>1, ReapingKept, WaitJobKept DEF Signal
<1>4. CASE Environment BY <1>4, EnvironmentKept
<1>5. CASE UNCHANGED vars BY <1>5, RestKept DEF vars
<1> QED BY <1>1, <1>2, <1>3, <1>4, <1>5 DEF Next

LEMMA AllInit == ASSUME Init PROVE AllInv
BY DEF Init, AllInv, OwnGroups, NoneForgotten, NoLostChild, NoLostReport, Children, NoProcess, NoJob

LEMMA AllInvariance == Spec => []AllInv
BY AllInit, AllNext, Invariance, PTL DEF Spec

\* In an interactive shell no child is forgotten and none of its changes is lost, whatever
\* is stopped, continued, waited for or interrupted on the way.
THEOREM NoChildForgotten == Spec => []NoneForgotten
<1>1. AllInv => NoneForgotten BY DEF AllInv
<1> QED BY <1>1, AllInvariance, PTL

-----------------------------------------------------------------------------
(* wait and fg end with the jobs they are for.                             *)

\* A job that shWaitForJob drops has ended, and its status is what it returns.
LEMMA WaitDropsEnded ==
    ASSUME IndInv, AllInv, [Next]_vars, shell.interactive, pc = "waitjob", jobs'[cur].state = "none"
    PROVE  /\ proc[jobs[cur].pid].st = "zombie"
           /\ last_status' = proc[jobs[cur].pid].code
<1>1. /\ cur \in JobIds /\ jobs[cur].state = "RUNNING" /\ jobs[cur].pid \in Pids
      /\ GroupOf(jobs[cur].pid) = {jobs[cur].pid}
  BY WaitsForItsGroup
<1>2. jobs \in [JobIds -> Jobs] BY DEF IndInv, TypeOK
<1>3. ASSUME NEW p \in Pids, WaitJobReap(p)
      PROVE  /\ proc[jobs[cur].pid].st = "zombie"
             /\ last_status' = proc[jobs[cur].pid].code
  <2>1. p = jobs[cur].pid /\ Reportable(p) BY <1>1, <1>3 DEF WaitJobReap
  <2>2. JobsOfPid(p) = {k \in JobIds : jobs[k].state # "none" /\ jobs[k].pid = p}
    BY JobsOfPidAll DEF IndInv
  <2>3. jobMarkPid(p)[cur] = IF proc[p].st = "stopped" THEN [jobs[cur] EXCEPT !.state = "STOPPED"]
                             ELSE MarkEnded(jobs[cur], proc[p].code)
    BY <1>1, <2>1, <2>2 DEF jobMarkPid
  <2>4. jobMarkPid(p) \in [JobIds -> Jobs] BY MarkEffect DEF IndInv
  <2>5. jobMarkPid(p)[cur].state \in {"STOPPED", "DONE"}
    BY <1>1, <1>2, <2>3 DEF MarkEnded, Jobs
  <2>6. Finish(jobMarkPid(p), cur) BY <1>3, <2>5 DEF WaitJobReap
  <2>7. jobMarkPid(p)[cur].state = "DONE"
    BY <1>1, <2>4, <2>5, <2>6 DEF Finish
  <2>8. proc[p].st # "stopped" BY <1>1, <1>2, <2>3, <2>7 DEF Jobs
  <2> QED BY <2>1, <2>3, <2>6, <2>8 DEF Finish, Return, MarkEnded, Reportable
<1>4. ~WaitJobNoChild BY <1>1 DEF WaitJobNoChild
<1>5. ASSUME NEW sigint \in BOOLEAN, WaitJobInterrupted(sigint) PROVE FALSE
  BY <1>1, <1>2, <1>5 DEF WaitJobInterrupted, Finish
<1>6. ~Environment /\ ~Interrupt /\ ~UNCHANGED vars
  BY <1>1 DEF Environment, ChildStop, ChildExit, Interrupt, shellVars, vars
<1>7. ~Command
  BY DEF Command, runBackground, runExternal, builtinJobs, runInteractive, StartWaitAll, StartWaitJob,
         NoSuchJob, Fail, builtinFg, builtinBg, builtinKillCont, Idle
<1> QED BY <1>3, <1>4, <1>5, <1>6, <1>7
     DEF Next, Continue, Signal, ExternalEnded, ExternalStopped, ReapOne, WaitAllReap, EndReap, Reaping,
         WaitAllNoChild, WaitAllInterrupted

\* wait without operands, when a child has something to tell, does not end with a job that runs.
LEMMA WaitAllForAll ==
    ASSUME IndInv, [Next]_vars, pc = "waitall", pc' = "idle", NEW p \in Pids, Reportable(p),
           NEW i \in JobIds
    PROVE  jobs'[i].state # "RUNNING"
<1>1. ASSUME NEW q \in Pids, WaitAllReap(q) PROVE jobs'[i].state # "RUNNING"
  <2>1. jobs' = RemoveDone(jobMarkPid(q)) /\ ~AnyRunning(jobMarkPid(q))
    BY <1>1 DEF WaitAllReap
  <2>2. jobMarkPid(q) \in [JobIds -> Jobs] BY MarkEffect DEF IndInv
  <2> QED BY <2>1, <2>2 DEF RemoveDone, AnyRunning, NoJob
<1>2. p \in Children BY DEF Children, Reportable
<1>3. ~WaitAllNoChild BY <1>2 DEF WaitAllNoChild
<1>4. \A sigint \in BOOLEAN : ~WaitAllInterrupted(sigint) BY DEF WaitAllInterrupted
<1>5. ~Environment /\ ~Interrupt /\ ~UNCHANGED vars
  BY DEF Environment, ChildStop, ChildExit, Interrupt, shellVars, vars
<1>6. ~Command
  BY DEF Command, runBackground, runExternal, builtinJobs, runInteractive, StartWaitAll, StartWaitJob,
         NoSuchJob, Fail, builtinFg, builtinBg, builtinKillCont, Idle
<1> QED BY <1>1, <1>3, <1>4, <1>5, <1>6
     DEF Next, Continue, Signal, ExternalEnded, ExternalStopped, ReapOne, WaitJobReap, EndReap, Reaping,
         WaitJobNoChild, WaitJobInterrupted

\* wait and fg drop a job, in an interactive shell, only when its process has ended, and return
\* its status; wait without operands ends, but for a signal, only when no job runs any more.
THEOREM WaitsEndWithTheirJobs == Spec => WaitsForItsJobs
<1> DEFINE Drops == \A i \in JobIds :
             shell.opt_monitor /\ shell.interactive /\ pc = "waitjob" /\ cur = i /\ jobs'[i].state = "none"
                => /\ proc[jobs[i].pid].st = "zombie"
                   /\ last_status' = proc[jobs[i].pid].code
           Ends == pc = "waitall" /\ pc' = "idle" /\ (\E p \in Pids : Reportable(p))
                => \A i \in JobIds : jobs'[i].state # "RUNNING"
<1>1. IndInv /\ AllInv /\ [Next]_vars => Drops BY WaitDropsEnded
<1>2. IndInv /\ [Next]_vars => Ends BY WaitAllForAll
<1>3. Spec => [][Drops]_vars BY <1>1, Invariance, AllInvariance, PTL DEF Spec
<1>4. Spec => [][Ends]_vars BY <1>2, Invariance, PTL DEF Spec
<1> QED BY <1>3, <1>4 DEF WaitsForItsJobs, WaitReturnsExitStatus, WaitAllWaits
=============================================================================
