---------------------------- MODULE Spawn_proofs ----------------------------
(***************************************************************************)
(* smallclueSpawn keeps the promise of spawn.h, for every set of process   *)
(* ids and every set of requests, and so does every applet that Supervise  *)
(* describes: each of its steps is a step of Spawn or leaves it alone.     *)
(* The errno of a call that fails is that of the last attempt (ErrnoInv).  *)
(***************************************************************************)
EXTENDS Supervise, TLAPS

USE DEF Self

\* The initial state satisfies the invariant.
LEMMA SpawnInitInv == ASSUME SpawnAssumption PROVE SpawnInit => SpawnInv
<1> SUFFICES ASSUME SpawnAssumption, SpawnInit PROVE SpawnInv
  OBVIOUS
<1>1. SpawnTypeOK
  BY DEF SpawnInit, SpawnTypeOK, NoProcess, Processes, Calls, Errnos, Statuses, AllPids
<1>2. QED
  BY <1>1 DEF SpawnInit, SpawnInv, NoProcess, AllPids, InTheMakingPc

\* The record of a process after it has been reaped, and after it has ended.
LEMMA ReapedProcess ==
  ASSUME NEW r \in Processes
  PROVE  [r EXCEPT !.state = "free", !.pending = {}] \in Processes
BY DEF Processes

\* A process that ends keeps its record otherwise.
LEMMA EndedProcess ==
  ASSUME NEW r \in Processes, NEW status \in Statuses
  PROVE  [r EXCEPT !.state = "zombie", !.pending = {}, !.status = status] \in Processes
BY DEF Processes

\* A step of smallclueSpawn in the caller.
LEMMA SpawningStep ==
  ASSUME SpawnAssumption, SpawnInv, Spawning PROVE SpawnInv'
<1> USE SpawnAssumption DEF SpawnAssumption
<1> USE DEF SpawnInv, SpawnTypeOK, InTheMakingPc, Calls
<1>1. CASE CheckRequest
  <2>1. call' \in Calls /\ call'.pc \in {"returned", "pipe"} /\ ~ call'.execed
    <3>1. CASE Attempts = <<>>
      BY <1>1, <3>1 DEF CheckRequest, Returned, Errnos
    <3>2. CASE Attempts # <<>>
      BY <1>1, <3>2 DEF CheckRequest
    <3>3. QED BY <3>1, <3>2
  <2>2. proc' = proc /\ pipe' = pipe /\ call.pc = "check" BY <1>1 DEF CheckRequest
  <2>3. QED BY <2>1, <2>2
<1>2. CASE OpenPipe
  <2>1. call' \in Calls /\ call'.pc \in {"returned", "cloexec"} /\ ~ call'.execed
    BY <1>2 DEF OpenPipe, Returned, Errnos
  <2>2. proc' = proc /\ call.pc = "pipe" BY <1>2 DEF OpenPipe
  <2>3. \/ pipe' = pipe /\ call'.pc = "returned"
       \/ pipe' = [writers |-> {Self}, errno |-> "none"]
    BY <1>2 DEF OpenPipe, Returned
  <2>4. pipe' \in [writers : SUBSET (Pids \cup {Self}), errno : Errnos \cup {"none"}]
    BY <2>3
  <2>5. call'.pc = "cloexec" => pipe'.errno = "none" BY <2>3, <2>1
  <2>6. \A p \in AllPids : proc'[p].state \notin {"child", "told"} BY <2>2
  <2>7. proc' \in [AllPids -> Processes] BY <2>2
  <2>8. call'.pc \notin {"check", "pipe", "fork", "close", "read", "reap"} BY <2>1
  <2>9. QED BY <2>1, <2>4, <2>5, <2>6, <2>7, <2>8
<1>3. CASE SetCloseOnExec
  <2>1. call' \in Calls /\ call'.pc \in {"returned", "fork"} /\ ~ call'.execed
    BY <1>3 DEF SetCloseOnExec, Returned, Errnos
  <2>2. proc' = proc /\ call.pc = "cloexec" BY <1>3 DEF SetCloseOnExec
  <2>3. pipe' = pipe \/ pipe' = [writers |-> {}, errno |-> "none"]
    BY <1>3 DEF SetCloseOnExec, ClosePipe
  <2>4. pipe' \in [writers : SUBSET (Pids \cup {Self}), errno : Errnos \cup {"none"}]
    BY <2>3
  <2>5. pipe'.errno = "none" BY <2>2, <2>3
  <2>6. \A p \in AllPids : proc'[p].state \notin {"child", "told"} BY <2>2
  <2>7. QED BY <2>1, <2>2, <2>4, <2>5, <2>6
<1>4. CASE ForkFails
  BY <1>4 DEF ForkFails, ClosePipe, Returned, Errnos
<1>5. ASSUME NEW p \in Pids, Fork(p) PROVE SpawnInv'
  <2>1. p \in AllPids BY DEF AllPids
  <2>2. proc' \in [AllPids -> Processes]
    BY <1>5, <2>1 DEF Fork, NoProcess, Processes, Errnos, Statuses
  <2>3. pipe' \in [writers : SUBSET (Pids \cup {Self}), errno : Errnos \cup {"none"}]
    BY <1>5 DEF Fork
  <2>4. call' \in Calls BY <1>5 DEF Fork
  <2>5. proc'[p].state = "child" BY <1>5, <2>1 DEF Fork, NoProcess
  <2>6. \A q \in AllPids \ {p} : proc'[q] = proc[q] BY <1>5, <2>1 DEF Fork
  <2>7. call'.pc = "close" /\ call'.pid = p /\ call'.execed = call.execed BY <1>5 DEF Fork
  <2>8. pipe'.errno = "none" /\ p \in pipe'.writers BY <1>5 DEF Fork
  <2>9. ~ call.execed /\ call.pc = "fork" BY <1>5 DEF Fork
  <2>10. QED BY <2>1, <2>2, <2>3, <2>4, <2>5, <2>6, <2>7, <2>8, <2>9 DEF AllPids
<1>6. CASE CloseWriteEnd
  <2>1. \A p \in AllPids : proc[p].state \in {"child", "told"} => p # Self
    BY <1>6 DEF AllPids
  <2>2. QED BY <1>6, <2>1 DEF CloseWriteEnd
<1>7. CASE ReadErrno
  BY <1>7 DEF ReadErrno, Errnos
<1>8. CASE ReadEndOfFile
  BY <1>8 DEF ReadEndOfFile, Returned, Errnos
<1>9. CASE ReapFailed
  <2>1. call.pid \in AllPids /\ proc[call.pid].state = "zombie"
    BY <1>9 DEF ReapFailed, Zombies
  <2>2. proc' = [proc EXCEPT ![call.pid] =
                   [proc[call.pid] EXCEPT !.state = "free", !.pending = {}]]
    BY <1>9 DEF ReapFailed, Reap
  <2>3. proc' \in [AllPids -> Processes]
    <3>1. proc[call.pid] \in Processes BY <2>1
    <3>2. [proc[call.pid] EXCEPT !.state = "free", !.pending = {}] \in Processes
      BY <3>1, ReapedProcess
    <3>3. QED BY <2>2, <3>2
  <2>4. proc'[call.pid].state = "free" BY <2>1, <2>2 DEF Processes
  <2>5. \A q \in AllPids \ {call.pid} : proc'[q] = proc[q] BY <2>1, <2>2
  <2>6. call'.pc = "returned" /\ call' \in Calls /\ pipe' = pipe
    BY <1>9 DEF ReapFailed, Returned, Errnos
  <2>7. \A q \in AllPids : proc'[q].state \notin {"child", "told"}
    BY <2>4, <2>5, <1>9 DEF ReapFailed
  <2>8. QED BY <2>3, <2>6, <2>7
<1>10. QED BY <1>1, <1>2, <1>3, <1>4, <1>5, <1>6, <1>7, <1>8, <1>9 DEF Spawning

\* The end of a process, by itself or by a signal.
LEMMA EndStep ==
  ASSUME SpawnAssumption, SpawnInv, NEW p \in Living, NEW status \in Statuses, End(p, status)
  PROVE  SpawnInv'
<1> USE DEF SpawnInv, SpawnTypeOK, InTheMakingPc
<1>1. p \in AllPids /\ proc[p] \in Processes BY DEF Living
<1>2. call' = call BY DEF End
<1>3. [proc[p] EXCEPT !.state = "zombie", !.pending = {}, !.status = status] \in Processes
  BY <1>1, EndedProcess
<1>4. proc' = [proc EXCEPT ![p] =
                 [proc[p] EXCEPT !.state = "zombie", !.pending = {}, !.status = status]]
  BY DEF End
<1>5. proc' \in [AllPids -> Processes] BY <1>3, <1>4
<1>6. proc'[p].state = "zombie" BY <1>1, <1>4 DEF Processes
<1>7. \A q \in AllPids \ {p} : proc'[q] = proc[q] BY <1>4
<1>8. /\ pipe' \in [writers : SUBSET (Pids \cup {Self}), errno : Errnos \cup {"none"}]
      /\ pipe'.errno = pipe.errno
      /\ \A q \in AllPids \ {p} : q \in pipe.writers => q \in pipe'.writers
  BY DEF End
<1>9. call.pc \in InTheMakingPc => proc'[call.pid].state # "free"
  BY <1>1, <1>6, <1>7 DEF AllPids
<1>10. QED BY <1>1, <1>2, <1>5, <1>6, <1>7, <1>8, <1>9

\* A step of the child.
LEMMA ChildStep ==
  ASSUME SpawnAssumption, SpawnInv, NEW p \in Pids, Child(p) PROVE SpawnInv'
<1> USE DEF SpawnInv, SpawnTypeOK, InTheMakingPc
<1>1. p \in AllPids /\ proc[p] \in Processes BY DEF AllPids
<1>2. CASE JoinOwnGroup(p)
  <2>1. [proc[p] EXCEPT !.group = TRUE] \in Processes BY <1>1 DEF Processes
  <2>2. proc' = [proc EXCEPT ![p] = [proc[p] EXCEPT !.group = TRUE]]
    BY <1>2 DEF JoinOwnGroup
  <2>3. proc' \in [AllPids -> Processes] BY <2>1, <2>2
  <2>4. \A q \in AllPids : proc'[q].state = proc[q].state BY <1>1, <2>2 DEF Processes
  <2>5. pipe' = pipe /\ call' = call BY <1>2 DEF JoinOwnGroup
  <2>6. call.pid \in Pids => call.pid \in AllPids BY DEF AllPids
  <2>7. QED BY <2>3, <2>4, <2>5, <2>6
<1>3. CASE Try(p)
  <2> DEFINE outcome == Attempts[proc[p].tried + 1]
  <2>1. /\ call.pc \in InTheMakingPc /\ p = call.pid /\ p \in pipe.writers
        /\ pipe.errno = "none" /\ proc[p].state = "child"
    BY <1>1, <1>3 DEF Try
  <2>2. outcome \in Outcomes
    <3>1. Attempts \in Seq(Outcomes) BY SpawnAssumption DEF SpawnAssumption, Calls, Attempts
    <3>2. proc[p].tried \in Nat BY <1>1 DEF Processes
    <3>3. proc[p].tried < Len(Attempts) BY <1>3 DEF Try
    <3>4. proc[p].tried + 1 \in 1 .. Len(Attempts) BY <3>1, <3>2, <3>3
    <3>5. QED BY <3>1, <3>4
  <2>3. CASE outcome = "runs"
    <3>1. /\ proc' = [proc EXCEPT ![p].state = "program"]
          /\ pipe' = [pipe EXCEPT !.writers = @ \ {p}]
          /\ call' = [call EXCEPT !.execed = TRUE]
      BY <1>3, <2>3 DEF Try
    <3>2. [proc[p] EXCEPT !.state = "program"] \in Processes BY <1>1 DEF Processes
    <3>3. proc' \in [AllPids -> Processes] BY <3>1, <3>2
    <3>4. proc'[p].state = "program" BY <1>1, <3>1 DEF Processes
    <3>5. \A q \in AllPids \ {p} : proc'[q] = proc[q] BY <3>1
    <3>6. \A q \in AllPids : proc'[q].state \notin {"child", "told"}
      BY <2>1, <3>4, <3>5
    <3>7. call' \in Calls /\ call'.pc = call.pc /\ call'.pid = call.pid
      BY <3>1 DEF Calls
    <3>8. /\ pipe' \in [writers : SUBSET (Pids \cup {Self}), errno : Errnos \cup {"none"}]
          /\ pipe'.errno = "none"
      BY <2>1, <3>1
    <3>9. call.pc # "reap" BY <2>1
    <3>10. QED BY <2>1, <3>3, <3>4, <3>6, <3>7, <3>8, <3>9
  <2>4. CASE outcome # "runs"
    <3> DEFINE e == IF outcome = "null" THEN proc[p].errno ELSE outcome
               n == proc[p].tried + 1
               r == [proc[p] EXCEPT !.tried = n, !.errno = e]
    <3>1. proc' = [proc EXCEPT ![p] = r] /\ pipe' = pipe /\ call' = call
      BY <1>1, <1>3, <2>4 DEF Try, Processes
    <3>2. r \in Processes /\ r.state = proc[p].state
      <4>1. e \in Errnos /\ n \in Nat
        BY <1>1, <2>2, <2>4 DEF Processes, Outcomes, Errnos
      <4> HIDE DEF e, n
      <4>2. QED BY <1>1, <4>1 DEF Processes
    <3>3. proc' \in [AllPids -> Processes] BY <3>1, <3>2
    <3>4. \A q \in AllPids : proc'[q].state = proc[q].state BY <1>1, <3>1, <3>2
    <3>5. call.pid \in Pids => call.pid \in AllPids BY DEF AllPids
    <3>6. QED BY <3>1, <3>3, <3>4, <3>5
  <2>5. QED BY <2>3, <2>4
<1>4. CASE WriteErrno(p)
  <2>1. /\ call.pc \in InTheMakingPc /\ p = call.pid /\ p \in pipe.writers
        /\ ~ call.execed
    BY <1>1, <1>4 DEF WriteErrno
  <2>2. [proc[p] EXCEPT !.state = "told"] \in Processes BY <1>1 DEF Processes
  <2>3. proc' = [proc EXCEPT ![p] = [proc[p] EXCEPT !.state = "told"]]
    BY <1>4 DEF WriteErrno
  <2>4. proc' \in [AllPids -> Processes] BY <2>2, <2>3
  <2>5. proc'[p].state = "told" BY <1>1, <2>3 DEF Processes
  <2>6. \A q \in AllPids \ {p} : proc'[q] = proc[q] BY <2>3
  <2>7. proc[p].errno \in Errnos /\ "none" \notin Errnos BY <1>1 DEF Processes, Errnos
  <2>8. /\ pipe' \in [writers : SUBSET (Pids \cup {Self}), errno : Errnos \cup {"none"}]
        /\ pipe'.writers = pipe.writers
        /\ pipe'.errno # "none"
    BY <1>4, <2>7 DEF WriteErrno
  <2>9. call' = call BY <1>4 DEF WriteErrno
  <2>10. QED BY <2>1, <2>4, <2>5, <2>6, <2>8, <2>9
<1>5. CASE ChildGivesUp(p)
  <2>1. p \in Living /\ "127" \in Statuses BY <1>1, <1>5 DEF ChildGivesUp, Living, Statuses
  <2>2. End(p, "127") BY <1>5 DEF ChildGivesUp
  <2>3. QED BY <2>1, <2>2, EndStep
<1>6. QED BY <1>2, <1>3, <1>4, <1>5 DEF Child

\* A step of the rest of the world.
LEMMA WorldStep == ASSUME SpawnAssumption, SpawnInv, World PROVE SpawnInv'
<1> PICK p \in AllPids : ProgramExit(p) \/ KilledFromOutside(p) \/ Deliver(p)
  BY DEF World
<1>0. proc[p] \in Processes BY DEF SpawnInv, SpawnTypeOK
<1>1. CASE ProgramExit(p)
  <2>1. p \in Living BY <1>1 DEF ProgramExit, Living
  <2>2. PICK status \in {"ok", "fail"} : End(p, status) BY <1>1 DEF ProgramExit
  <2>3. status \in Statuses BY DEF Statuses
  <2>4. QED BY <2>1, <2>2, <2>3, EndStep
<1>2. ASSUME p \in Living, NEW status \in {"KILL", "TERM"}, End(p, status)
      PROVE  SpawnInv'
  BY <1>2, EndStep DEF Statuses
<1>3. CASE KilledFromOutside(p) BY <1>2, <1>3 DEF KilledFromOutside
<1>4. CASE Deliver(p)
  <2>1. CASE End(p, "KILL") \/ End(p, "TERM") BY <1>2, <1>4, <2>1 DEF Deliver
  <2>2. CASE /\ proc' = [proc EXCEPT ![p].pending = @ \ {"TERM"}]
             /\ UNCHANGED <<pipe, call>>
    <3>1. [proc[p] EXCEPT !.pending = @ \ {"TERM"}] \in Processes BY <1>0 DEF Processes
    <3>2. proc' \in [AllPids -> Processes] BY <2>2, <3>1 DEF SpawnInv, SpawnTypeOK
    <3>3. \A q \in AllPids : proc'[q].state = proc[q].state
      BY <1>0, <2>2 DEF Processes, SpawnInv, SpawnTypeOK
    <3>4. QED BY <2>2, <3>2, <3>3 DEF SpawnInv, SpawnTypeOK, AllPids, InTheMakingPc
  <2>3. QED BY <1>4, <2>1, <2>2 DEF Deliver
<1>5. QED BY <1>1, <1>3, <1>4

\* Between two calls nothing is in the making.
LEMMA CallerStep == ASSUME SpawnAssumption, SpawnInv, Caller PROVE SpawnInv'
<1> USE DEF SpawnInv, SpawnTypeOK, InTheMakingPc
<1>1. ASSUME NEW request \in Requests, Call(request) PROVE SpawnInv'
  <2>1. call' \in Calls /\ call'.pc = "check" /\ ~ call'.execed
    BY <1>1 DEF Call, Calls, Errnos
  <2>2. proc' = proc /\ pipe' = pipe /\ call.pc = "idle" BY <1>1 DEF Call
  <2>3. QED BY <2>1, <2>2
<1>2. CASE TakeResult /\ (UNCHANGED proc \/ SetpgidByCaller(call.pid))
  <2>1. call.pc = "returned" /\ pipe' = pipe BY <1>2 DEF TakeResult
  <2>2. call' \in Calls /\ call'.pc = "idle" BY <1>2 DEF TakeResult, Calls
  <2>3. \A q \in AllPids : proc[q].state \notin {"child", "told"} BY <2>1
  <2>4. proc' = proc BY <1>2, <2>3 DEF SetpgidByCaller
  <2>5. QED BY <2>1, <2>2, <2>3, <2>4
<1>3. ASSUME NEW p \in AllPids, CallerReaps(p) PROVE SpawnInv'
  <2>1. proc[p] \in Processes /\ call.pc = "idle" /\ pipe' = pipe /\ call' = call
    BY <1>3 DEF CallerReaps
  <2>2. [proc[p] EXCEPT !.state = "free", !.pending = {}] \in Processes
    BY <2>1, ReapedProcess
  <2>3. proc' = [proc EXCEPT ![p] = [proc[p] EXCEPT !.state = "free", !.pending = {}]]
    BY <1>3 DEF CallerReaps, Reap
  <2>4. proc' \in [AllPids -> Processes] BY <2>2, <2>3
  <2>5. proc'[p].state = "free" BY <2>1, <2>3 DEF Processes
  <2>6. \A q \in AllPids \ {p} : proc'[q] = proc[q] BY <2>3
  <2>7. QED BY <2>1, <2>4, <2>5, <2>6
<1>4. ASSUME NEW p \in Adopted, Adopt(p) PROVE SpawnInv'
  <2>1. /\ p \in AllPids /\ proc[p].state = "free"
        /\ pipe' = pipe /\ call' = call
    BY <1>4 DEF Adopt, AllPids
  <2>2. [NoProcess EXCEPT !.state = "program"] \in Processes
    BY DEF NoProcess, Processes, Errnos, Statuses
  <2>3. proc' = [proc EXCEPT ![p] = [NoProcess EXCEPT !.state = "program"]]
    BY <1>4 DEF Adopt
  <2>4. proc' \in [AllPids -> Processes] BY <2>2, <2>3
  <2>5. proc'[p].state = "program" BY <2>1, <2>3 DEF NoProcess
  <2>6. \A q \in AllPids \ {p} : proc'[q] = proc[q] BY <2>3
  <2>7. call.pc \in InTheMakingPc => call.pid \in AllPids BY DEF AllPids
  <2>8. QED BY <2>1, <2>4, <2>5, <2>6, <2>7
<1>5. ASSUME NEW targets \in SUBSET AllPids, NEW signal \in {"TERM", "KILL"},
             SendSignal(targets, signal), UNCHANGED call
      PROVE  SpawnInv'
  <2>1. \A q \in AllPids :
          /\ proc'[q] \in Processes
          /\ proc'[q].state = proc[q].state
    BY <1>5 DEF SendSignal, Processes
  <2>2. proc' \in [AllPids -> Processes]
    <3>1. proc' = [q \in AllPids |-> proc'[q]] BY <1>5 DEF SendSignal
    <3>2. QED BY <2>1, <3>1
  <2>3. pipe' = pipe /\ call' = call BY <1>5 DEF SendSignal
  <2>4. call.pc \in InTheMakingPc => call.pid \in AllPids BY DEF AllPids
  <2>5. QED BY <2>1, <2>2, <2>3, <2>4
<1>6. QED BY <1>1, <1>2, <1>3, <1>4, <1>5 DEF Caller

\* SpawnInv is inductive.
LEMMA SpawnStep ==
  ASSUME SpawnAssumption, SpawnInv, [SpawnNext]_spawnVars PROVE SpawnInv'
<1>1. CASE Spawning BY <1>1, SpawningStep
<1>2. CASE World BY <1>2, WorldStep
<1>3. CASE Caller BY <1>3, CallerStep
<1>4. CASE \E p \in Pids : Child(p) BY <1>4, ChildStep
<1>5. CASE UNCHANGED spawnVars
  BY <1>5 DEF spawnVars, SpawnInv, SpawnTypeOK, AllPids, InTheMakingPc
<1>6. QED BY <1>1, <1>2, <1>3, <1>4, <1>5 DEF SpawnNext

\* What a call holds at every moment: types, and that an errno in the pipe comes
\* from a child that has never been a program.
THEOREM SpawnInvariance == SpawnSpec => []SpawnInv
<1>1. SpawnInit => SpawnInv BY SpawnAssumption, SpawnInitInv
<1>2. SpawnInv /\ [SpawnNext]_spawnVars => SpawnInv' BY SpawnAssumption, SpawnStep
<1>3. QED BY <1>1, <1>2, PTL DEF SpawnSpec

-----------------------------------------------------------------------------
(* The promise of spawn.h. *)

\* A step that leaves the states of the processes and what a caller can see of
\* the call alone is a stutter of the promise.
LEMMA Stutter ==
  ASSUME call'.execed = call.execed, Outcome' = Outcome, InTheMaking' = InTheMaking,
         \A p \in AllPids : proc'[p].state = "free" <=> proc[p].state = "free"
  PROVE  UNCHANGED Promise!vars
<1>1. Children' = Children BY DEF Children, AllPids
<1>2. QED BY <1>1 DEF Promise!vars

\* The end of a process, its own or by a signal, changes nothing of the promise.
LEMMA EndRefines ==
  ASSUME SpawnInv, NEW p \in Living, NEW status, End(p, status)
  PROVE  UNCHANGED Promise!vars
<1>1. p \in AllPids /\ proc[p] \in Processes /\ proc[p].state # "free"
  BY DEF Living, SpawnInv, SpawnTypeOK
<1>2. \A q \in AllPids : proc'[q].state = "free" <=> proc[q].state = "free"
  BY <1>1 DEF End, SpawnInv, SpawnTypeOK, Processes
<1>3. call' = call BY DEF End
<1>4. QED BY <1>2, <1>3, Stutter DEF Outcome, InTheMaking

\* A step of smallclueSpawn is one of the promise: it returns as promised, or shows nothing.
LEMMA SpawningRefines ==
  ASSUME SpawnInv, SpawnInv', Spawning
  PROVE  Promise!Next \/ UNCHANGED Promise!vars
<1> USE DEF SpawnInv, SpawnTypeOK, InTheMakingPc, Calls
<1>1. ASSUME proc' = proc, call'.execed = call.execed,
             call.pc \in {"check", "pipe", "cloexec", "fork"},
             call'.pc \in {"pipe", "cloexec", "fork"} \/ (call'.pc = "returned" /\ call'.result = "error")
      PROVE  Promise!Next \/ UNCHANGED Promise!vars
  <2>1. InTheMaking = {} /\ InTheMaking' = {} /\ Outcome = "calling" /\ ~ call.execed
    BY <1>1 DEF InTheMaking, Outcome
  <2>2. CASE call'.pc = "returned"
    <3>1. Outcome' = "error" BY <1>1, <2>2 DEF Outcome
    <3>2. Children' = Children BY <1>1, <2>1 DEF Children, AllPids
    <3>3. Promise!ReturnError BY <1>1, <2>1, <3>1, <3>2 DEF Promise!ReturnError
    <3>4. QED BY <3>3 DEF Promise!Next
  <2>3. CASE call'.pc # "returned"
    BY <1>1, <2>1, <2>3, Stutter DEF Outcome
  <2>4. QED BY <2>2, <2>3
<1>2. CASE CheckRequest
  BY <1>1, <1>2 DEF CheckRequest, Returned
<1>3. CASE OpenPipe
  BY <1>1, <1>3 DEF OpenPipe, Returned
<1>4. CASE SetCloseOnExec
  BY <1>1, <1>4 DEF SetCloseOnExec, Returned
<1>5. CASE ForkFails
  BY <1>1, <1>5 DEF ForkFails, Returned
<1>6. ASSUME NEW p \in Pids, Fork(p) PROVE UNCHANGED Promise!vars
  <2>1. p \in AllPids BY DEF AllPids
  <2>2. call.pc = "fork" /\ proc[p].state = "free" BY <1>6 DEF Fork
  <2>3. call'.pc = "close" /\ call'.pid = p /\ call'.execed = call.execed
    BY <1>6 DEF Fork
  <2>4. \A q \in AllPids \ {p} : proc'[q] = proc[q] BY <1>6, <2>1 DEF Fork
  <2>5. Children' = Children
    BY <2>1, <2>2, <2>3, <2>4 DEF Children, InTheMaking, AllPids
  <2>6. Outcome' = Outcome BY <2>2, <2>3 DEF Outcome
  <2>7. QED BY <2>3, <2>5, <2>6 DEF Promise!vars
<1>7. CASE CloseWriteEnd
  <2>1. /\ call.pc = "close" /\ call'.pc = "read" /\ call'.pid = call.pid
        /\ call'.execed = call.execed /\ proc' = proc
    BY <1>7 DEF CloseWriteEnd
  <2>2. QED BY <2>1, Stutter DEF Outcome, InTheMaking
<1>8. CASE ReadErrno
  <2>1. /\ call.pc = "read" /\ call'.pc = "reap" /\ call'.pid = call.pid
        /\ call'.execed = call.execed /\ proc' = proc
    BY <1>8 DEF ReadErrno
  <2>2. QED BY <2>1, Stutter DEF Outcome, InTheMaking
<1>9. CASE ReadEndOfFile
  <2>1. /\ call.pc = "read" /\ call'.pc = "returned" /\ call'.result = "pid"
        /\ call'.execed = call.execed /\ proc' = proc
    BY <1>9 DEF ReadEndOfFile, Returned
  <2>2. call.pid \in AllPids /\ proc[call.pid].state # "free" BY <2>1 DEF AllPids
  <2>3. call.pid \notin Children BY <2>1 DEF Children, InTheMaking
  <2>4. Children' = Children \cup {call.pid}
    BY <2>1, <2>2 DEF Children, InTheMaking, AllPids
  <2>5. Outcome = "calling" /\ Outcome' = "pid" BY <2>1 DEF Outcome
  <2>6. Promise!ReturnPid(call.pid) BY <2>1, <2>3, <2>4, <2>5 DEF Promise!ReturnPid
  <2>7. QED BY <2>2, <2>6 DEF Promise!Next
<1>10. CASE ReapFailed
  <2>1. /\ call.pc = "reap" /\ call'.pc = "returned" /\ call'.result = "error"
        /\ call'.execed = call.execed
    BY <1>10 DEF ReapFailed, Returned
  <2>2. call.pid \in AllPids /\ ~ call.execed BY <2>1 DEF AllPids
  <2>3. proc'[call.pid].state = "free" BY <1>10, <2>2 DEF ReapFailed, Reap, Processes
  <2>4. \A q \in AllPids \ {call.pid} : proc'[q] = proc[q]
    BY <1>10, <2>2 DEF ReapFailed, Reap
  <2>5. Children' = Children
    BY <2>1, <2>2, <2>3, <2>4 DEF Children, InTheMaking, AllPids
  <2>6. Outcome = "calling" /\ Outcome' = "error" BY <2>1 DEF Outcome
  <2>7. Promise!ReturnError BY <2>1, <2>2, <2>5, <2>6 DEF Promise!ReturnError
  <2>8. QED BY <2>7 DEF Promise!Next
<1>11. QED
  BY <1>2, <1>3, <1>4, <1>5, <1>6, <1>7, <1>8, <1>9, <1>10 DEF Spawning

\* A step of the child is one of the promise: an exec that succeeds makes the program.
LEMMA ChildRefines ==
  ASSUME SpawnInv, NEW p \in Pids, Child(p)
  PROVE  Promise!Next \/ UNCHANGED Promise!vars
<1> USE DEF SpawnInv, SpawnTypeOK, InTheMakingPc, Calls
<1>1. p \in AllPids /\ proc[p] \in Processes BY DEF AllPids
<1>2. CASE JoinOwnGroup(p)
  <2>1. \A q \in AllPids : proc'[q].state = proc[q].state
    BY <1>1, <1>2 DEF JoinOwnGroup, Processes
  <2>2. call' = call BY <1>2 DEF JoinOwnGroup
  <2>3. QED BY <2>1, <2>2, Stutter DEF Outcome, InTheMaking
<1>3. CASE Try(p)
  <2>1. proc[p].state = "child" /\ call.pc \in InTheMakingPc BY <1>1, <1>3 DEF Try
  <2>2. \A q \in AllPids \ {p} : proc'[q] = proc[q] BY <1>3 DEF Try
  <2>3. proc'[p].state # "free" BY <1>1, <1>3, <2>1 DEF Try, Processes
  <2>4. \A q \in AllPids : proc'[q].state = "free" <=> proc[q].state = "free"
    BY <2>1, <2>2, <2>3
  <2>5. call' = call \/ call' = [call EXCEPT !.execed = TRUE] BY <1>3 DEF Try
  <2>6. CASE call' = call
    BY <2>4, <2>6, Stutter DEF Outcome, InTheMaking
  <2>7. CASE call' = [call EXCEPT !.execed = TRUE]
    <3>1. call'.execed = TRUE /\ call'.pc = call.pc /\ call'.pid = call.pid BY <2>7
    <3>2. Outcome = "calling" /\ Outcome' = "calling" BY <2>1, <3>1 DEF Outcome
    <3>3. Children' = Children
      BY <2>4, <3>1 DEF Children, InTheMaking, AllPids
    <3>4. Promise!Exec BY <3>1, <3>2, <3>3 DEF Promise!Exec
    <3>5. QED BY <3>4 DEF Promise!Next
  <2>8. QED BY <2>5, <2>6, <2>7
<1>4. CASE WriteErrno(p)
  <2>1. \A q \in AllPids : proc'[q].state = "free" <=> proc[q].state = "free"
    BY <1>1, <1>4 DEF WriteErrno, Processes
  <2>2. call' = call BY <1>4 DEF WriteErrno
  <2>3. QED BY <2>1, <2>2, Stutter DEF Outcome, InTheMaking
<1>5. CASE ChildGivesUp(p)
  <2>1. p \in Living /\ End(p, "127") BY <1>1, <1>5 DEF ChildGivesUp, Living
  <2>2. QED BY <2>1, EndRefines
<1>6. QED BY <1>2, <1>3, <1>4, <1>5 DEF Child

\* Programs that end and signals that arrive change nothing of the promise.
LEMMA WorldRefines ==
  ASSUME SpawnInv, World PROVE UNCHANGED Promise!vars
<1> PICK p \in AllPids : ProgramExit(p) \/ KilledFromOutside(p) \/ Deliver(p)
  BY DEF World
<1>0. proc[p] \in Processes BY DEF SpawnInv, SpawnTypeOK
<1>1. CASE ProgramExit(p)
  <2>1. p \in Living BY <1>1 DEF ProgramExit, Living
  <2>2. QED BY <1>1, <2>1, EndRefines DEF ProgramExit
<1>2. CASE KilledFromOutside(p) BY <1>2, EndRefines DEF KilledFromOutside
<1>3. CASE Deliver(p)
  <2>1. CASE End(p, "KILL") \/ End(p, "TERM") BY <1>3, <2>1, EndRefines DEF Deliver
  <2>2. CASE /\ proc' = [proc EXCEPT ![p].pending = @ \ {"TERM"}]
             /\ UNCHANGED <<pipe, call>>
    <3>1. \A q \in AllPids : proc'[q].state = proc[q].state
      BY <1>0, <2>2 DEF Processes, SpawnInv, SpawnTypeOK
    <3>2. QED BY <2>2, <3>1, Stutter DEF Outcome, InTheMaking
  <2>3. QED BY <1>3, <2>1, <2>2 DEF Deliver
<1>4. QED BY <1>1, <1>2, <1>3

\* A caller calls, takes the result, waits and signals as the promise lets it.
LEMMA CallerRefines ==
  ASSUME SpawnInv, Caller PROVE Promise!Next \/ UNCHANGED Promise!vars
<1> USE DEF SpawnInv, SpawnTypeOK, InTheMakingPc, Calls
<1>1. ASSUME NEW request \in Requests, Call(request) PROVE Promise!Next
  <2>1. /\ call.pc = "idle" /\ call'.pc = "check" /\ call'.execed = FALSE /\ proc' = proc
    BY <1>1 DEF Call
  <2>2. Outcome # "calling" /\ Outcome' = "calling" BY <2>1 DEF Outcome
  <2>3. Children' = Children BY <2>1 DEF Children, InTheMaking, AllPids
  <2>4. Promise!Call BY <2>1, <2>2, <2>3 DEF Promise!Call
  <2>5. QED BY <2>4 DEF Promise!Next
<1>2. CASE TakeResult /\ (UNCHANGED proc \/ SetpgidByCaller(call.pid))
  <2>1. /\ call.pc = "returned" /\ call'.pc = "idle" /\ call'.result = call.result
        /\ call'.execed = call.execed
    BY <1>2 DEF TakeResult
  <2>2. \A q \in AllPids : proc[q].state \notin {"child", "told"} BY <2>1
  <2>3. proc' = proc BY <1>2, <2>2 DEF SetpgidByCaller
  <2>4. QED BY <2>1, <2>3, Stutter DEF Outcome, InTheMaking
<1>3. ASSUME NEW p \in AllPids, CallerReaps(p) PROVE Promise!Next
  <2>1. call.pc = "idle" /\ call' = call /\ proc[p].state = "zombie" /\ proc[p] \in Processes
    BY <1>3 DEF CallerReaps, Zombies
  <2>2. proc'[p].state = "free" BY <1>3, <2>1 DEF CallerReaps, Reap, Processes
  <2>3. \A q \in AllPids \ {p} : proc'[q] = proc[q] BY <1>3 DEF CallerReaps, Reap
  <2>4. p \in Children /\ Children' = Children \ {p}
    BY <2>1, <2>2, <2>3 DEF Children, InTheMaking, AllPids
  <2>5. Outcome # "calling" /\ Outcome' = Outcome BY <2>1 DEF Outcome
  <2>6. Promise!Wait(p) BY <2>1, <2>4, <2>5 DEF Promise!Wait
  <2>7. QED BY <2>6 DEF Promise!Next
<1>4. ASSUME NEW p \in Adopted, Adopt(p) PROVE Promise!Next
  <2>1. p \in AllPids /\ call' = call /\ proc[p].state = "free" BY <1>4 DEF Adopt, AllPids
  <2>2. proc'[p].state = "program" BY <1>4, <2>1 DEF Adopt, NoProcess
  <2>3. \A q \in AllPids \ {p} : proc'[q] = proc[q] BY <1>4 DEF Adopt
  <2>4. call.pc \in InTheMakingPc => call.pid # p BY <2>1
  <2>5. p \notin Children /\ Children' = Children \cup {p}
    BY <2>1, <2>2, <2>3, <2>4 DEF Children, InTheMaking, AllPids
  <2>6. Outcome' = Outcome BY <2>1 DEF Outcome
  <2>7. Promise!Adopt(p) BY <2>1, <2>5, <2>6 DEF Promise!Adopt
  <2>8. QED BY <2>1, <2>7 DEF Promise!Next
<1>5. ASSUME NEW targets \in SUBSET AllPids, NEW signal \in {"TERM", "KILL"},
             SendSignal(targets, signal), UNCHANGED call
      PROVE  UNCHANGED Promise!vars
  <2>1. \A q \in AllPids : proc'[q].state = proc[q].state
    BY <1>5 DEF SendSignal, Processes
  <2>2. QED BY <1>5, <2>1, Stutter DEF Outcome, InTheMaking
<1>6. QED BY <1>1, <1>2, <1>3, <1>4, <1>5 DEF Caller

\* smallclueSpawn, called by anybody, does what spawn.h says of it.
THEOREM SpawnKeepsPromise == SpawnSpec => KeepsPromise
<1>1. SpawnInit => Promise!Init
  <2> SUFFICES ASSUME SpawnInit PROVE Promise!Init
    OBVIOUS
  <2>1. call.pc = "idle" /\ call.result = "none" /\ call.execed = FALSE BY DEF SpawnInit
  <2>2. \A p \in AllPids : proc[p].state = "free" BY DEF SpawnInit, NoProcess
  <2>3. QED
    BY <2>1, <2>2 DEF Promise!Init, Outcome, Children, InTheMaking, InTheMakingPc
<1>2. SpawnInv /\ SpawnInv' /\ [SpawnNext]_spawnVars => [Promise!Next]_(Promise!vars)
  <2> SUFFICES ASSUME SpawnInv, SpawnInv', [SpawnNext]_spawnVars
               PROVE  Promise!Next \/ UNCHANGED Promise!vars
    OBVIOUS
  <2>1. CASE Spawning BY <2>1, SpawningRefines
  <2>2. CASE World BY <2>2, WorldRefines
  <2>3. CASE Caller BY <2>3, CallerRefines
  <2>4. CASE \E p \in Pids : Child(p) BY <2>4, ChildRefines
  <2>5. CASE UNCHANGED spawnVars
    BY <2>5, Stutter DEF spawnVars, Outcome, InTheMaking
  <2>6. QED BY <2>1, <2>2, <2>3, <2>4, <2>5 DEF SpawnNext
<1>3. QED BY <1>1, <1>2, SpawnInvariance, PTL DEF SpawnSpec, KeepsPromise, Promise!Spec

-----------------------------------------------------------------------------
(* The applets. *)

\* A step of an applet is a step of Spawn, or leaves its variables alone.
LEMMA AppletIsCaller ==
  ASSUME AppletTypeOK, Applet PROVE SpawnNext \/ UNCHANGED spawnVars
<1>1. CASE StartSpawn
  BY <1>1 DEF StartSpawn, RequestOf, Caller, SpawnNext
<1>2. ASSUME TakeResult, UNCHANGED proc PROVE SpawnNext
  BY <1>2 DEF Caller, SpawnNext
<1>3. ASSUME NEW p, CallerReaps(p) PROVE SpawnNext
  BY <1>3 DEF CallerReaps, Zombies, Caller, SpawnNext
<1>4. ASSUME NEW targets \in SUBSET AllPids, NEW signal \in {"TERM", "KILL"},
             SendSignal(targets, signal), UNCHANGED call
      PROVE  SpawnNext
  BY <1>4 DEF Caller, SpawnNext
<1>5. CASE Timeout
  <2>1. CASE TimeoutFailed BY <1>2, <2>1 DEF TimeoutFailed, Failed
  <2>2. CASE TimeoutStarted
    BY <2>2 DEF TimeoutStarted, Started, Caller, SpawnNext
  <2>3. CASE TimeoutPollEnded BY <1>3, <2>3 DEF TimeoutPollEnded
  <2>4. CASE TimeoutPollRunning BY <2>4 DEF TimeoutPollRunning
  <2>5. CASE TimeoutExpire \/ TimeoutEscalate
    <3>1. applet.signal \in {"TERM", "KILL"} BY DEF AppletTypeOK, AppletStates
    <3>2. {p \in AllPids : p = applet.pid /\ proc[p].group} \in SUBSET AllPids OBVIOUS
    <3>3. QED BY <1>4, <2>5, <3>1, <3>2 DEF TimeoutExpire, TimeoutEscalate, SignalGroup
  <2>6. CASE TimeoutSleep BY <2>6 DEF TimeoutSleep
  <2>7. QED BY <1>5, <2>1, <2>2, <2>3, <2>4, <2>5, <2>6 DEF Timeout
<1>6. CASE Time
  BY <1>2, <1>3, <1>6 DEF Time, TimeFailed, TimeStarted, TimeWait, Failed, Started
<1>7. CASE InitApplet
  <2>1. CASE NoRc \/ RcFailed \/ RcStarted
    BY <1>2, <2>1 DEF NoRc, RcFailed, RcStarted, Failed, Started
  <2>2. CASE \E p \in AllPids : InitReap(p) BY <1>3, <2>2 DEF InitReap
  <2>3. CASE Init1
    BY <1>4, <2>3 DEF Init1, Shutdown, spawnVars
  <2>4. QED BY <1>7, <2>1, <2>2, <2>3 DEF InitApplet
<1>8. CASE Runit
  BY <1>2, <1>3, <1>8 DEF Runit, ServiceTried, AllTried, RunitReap, Failed, Started
<1>9. QED BY <1>1, <1>5, <1>6, <1>7, <1>8 DEF Applet

\* A step of timeout, time, init or runit is a step that SpawnNext lets a caller take.
LEMMA NextIsSpawnNext ==
  ASSUME AppletTypeOK, [Next]_vars PROVE SpawnNext \/ UNCHANGED spawnVars
<1>1. CASE Applet BY <1>1, AppletIsCaller
<1>2. CASE Spawning \/ World \/ \E p \in Pids : Child(p) BY <1>2 DEF SpawnNext
<1>3. CASE Tick BY <1>3 DEF Tick
<1>4. CASE OrphanArrives BY <1>4 DEF OrphanArrives, Caller, SpawnNext
<1>5. CASE UNCHANGED vars BY <1>5 DEF vars, spawnVars
<1>6. QED BY <1>1, <1>2, <1>3, <1>4, <1>5 DEF Next

\* The applets keep the types of their own variables.
LEMMA AppletTypes ==
  ASSUME SpawnInv, AppletTypeOK, [Next]_vars PROVE AppletTypeOK'
<1> USE SuperviseAssumption DEF SuperviseAssumption, AppletTypeOK, AppletStates, Clocks
<1>1. ASSUME UNCHANGED <<applet, clock>> PROVE AppletTypeOK'
  BY <1>1
<1>2. ASSUME NEW to \in {"start", "spawning", "wait", "clock", "term", "kill", "done"},
             applet' = [applet EXCEPT !.pc = to], UNCHANGED clock
      PROVE  AppletTypeOK'
  BY <1>2
<1>3. call.pid \in Pids \cup {0} /\ \A p \in AllPids : proc[p].status \in Statuses
  BY DEF SpawnInv, SpawnTypeOK, Calls, Processes
<1>4. CASE StartSpawn BY <1>4, <1>2 DEF StartSpawn, Go
<1>5. CASE Timeout
  <2>1. CASE TimeoutFailed
    <3>1. applet' = [applet EXCEPT !.pc = "done", !.result = "125"] /\ UNCHANGED clock
      BY <2>1 DEF TimeoutFailed, Return
    <3>2. QED BY <3>1
  <2>2. CASE TimeoutStarted
    <3>1. /\ applet' = [applet EXCEPT !.pc = "wait", !.pid = call.pid]
          /\ clock' = [clock EXCEPT !.elapsed = 0]
      BY <2>2 DEF TimeoutStarted
    <3>2. 0 \in 0 .. Duration OBVIOUS
    <3>3. applet' \in AppletStates BY <1>3, <3>1
    <3>4. clock' \in Clocks BY <3>1, <3>2
    <3>5. QED BY <3>3, <3>4
  <2>3. CASE TimeoutPollEnded
    <3>1. applet.pid \in AllPids BY <2>3 DEF TimeoutPollEnded, CallerReaps, Zombies
    <3>2. CommandStatus(applet.pid) \in Statuses \cup {"124"} BY <1>3, <3>1 DEF CommandStatus
    <3>3. QED BY <2>3, <3>2 DEF TimeoutPollEnded, Return
  <2>4. CASE TimeoutPollRunning \/ TimeoutSleep
    BY <1>2, <2>4 DEF TimeoutPollRunning, TimeoutSleep, Go
  <2>5. CASE TimeoutExpire
    <3>1. /\ applet' = [applet EXCEPT !.pc = "wait", !.timedOut = TRUE]
          /\ clock' = [clock EXCEPT !.quiet = 0, !.since = 0]
      BY <2>5 DEF TimeoutExpire
    <3>2. 0 \in 0 .. KillAfter OBVIOUS
    <3>3. applet' \in AppletStates BY <3>1
    <3>4. clock' \in Clocks BY <3>1, <3>2
    <3>5. QED BY <3>3, <3>4
  <2>6. CASE TimeoutEscalate BY <2>6 DEF TimeoutEscalate
  <2>7. QED BY <1>5, <2>1, <2>2, <2>3, <2>4, <2>5, <2>6 DEF Timeout
<1>6. CASE Time
  <2>1. CASE TimeFailed
    <3> DEFINE r == IF call.child_errno = "ENOENT" THEN "127" ELSE "126"
    <3>1. applet' = [applet EXCEPT !.pc = "done", !.result = r] /\ UNCHANGED clock
      BY <2>1 DEF TimeFailed, Return
    <3>2. r \in Statuses \cup {"124", "125", "126"} BY DEF Statuses
    <3> HIDE DEF r
    <3>3. QED BY <3>1, <3>2
  <2>2. CASE TimeStarted BY <1>3, <2>2 DEF TimeStarted
  <2>3. CASE TimeWait
    <3>1. applet.pid \in AllPids BY <2>3 DEF TimeWait, CallerReaps, Zombies
    <3>2. QED BY <1>3, <2>3, <3>1 DEF TimeWait, Return
  <2>4. QED BY <1>6, <2>1, <2>2, <2>3 DEF Time
<1>7. CASE InitApplet
  <2>1. CASE NoRc \/ RcFailed BY <1>2, <2>1 DEF NoRc, RcFailed, Go
  <2>2. CASE RcStarted BY <1>3, <2>2 DEF RcStarted
  <2>3. ASSUME NEW p \in AllPids, InitReap(p) PROVE AppletTypeOK'
    BY <1>1, <1>2, <2>3 DEF InitReap, Go
  <2>4. CASE Init1 BY <1>2, <2>4 DEF Init1, Shutdown, Go
  <2>5. QED BY <1>7, <2>1, <2>2, <2>3, <2>4 DEF InitApplet
<1>8. CASE Runit
  <2>1. CASE ServiceTried
    <3> DEFINE n == applet.service + 1
    <3>1. applet' = [applet EXCEPT !.pc = "start", !.service = n] /\ UNCHANGED clock
      BY <2>1 DEF ServiceTried
    <3>2. n \in Nat OBVIOUS
    <3> HIDE DEF n
    <3>3. QED BY <3>1, <3>2
  <2>2. CASE AllTried BY <1>2, <2>2 DEF AllTried, Go
  <2>3. ASSUME NEW p \in AllPids, RunitReap(p) PROVE AppletTypeOK'
    BY <1>1, <2>3 DEF RunitReap
  <2>4. QED BY <1>8, <2>1, <2>2, <2>3 DEF Runit
<1>9. CASE Tick
  <2>1. \A n \in Nat : \A k \in 0 .. n : Upto(k, n) \in 0 .. n BY DEF Upto
  <2>2. QED BY <1>9, <2>1 DEF Tick
<1>10. CASE OrphanArrives BY <1>1, <1>10 DEF OrphanArrives
<1>11. CASE Quiet BY <1>1, <1>11 DEF Quiet
<1>12. CASE UNCHANGED vars BY <1>1, <1>12 DEF vars
<1>13. QED
  BY <1>4, <1>5, <1>6, <1>7, <1>8, <1>9, <1>10, <1>11, <1>12 DEF Next, Applet

\* Every variable of the applets keeps its type, and with it SpawnInv.
THEOREM TypeCorrect == Spec => [](TypeOK /\ SpawnInv)
<1> DEFINE Inv == SpawnInv /\ AppletTypeOK
<1>1. Init => Inv
  <2> SUFFICES ASSUME Init PROVE Inv
    OBVIOUS
  <2>1. SpawnInv BY SpawnAssumption, SpawnInitInv DEF Init
  <2>2. AppletTypeOK
    <3>1. KillAfter \in 0 .. KillAfter /\ 0 \in 0 .. KillAfter /\ 0 \in 0 .. Duration
      BY SuperviseAssumption DEF SuperviseAssumption
    <3>2. clock \in Clocks BY <3>1 DEF Init, Clocks
    <3>3. applet \in AppletStates
      <4>1. /\ applet.name \in Applets /\ applet.pid1 \in BOOLEAN /\ applet.kill \in BOOLEAN
            /\ applet.preserve \in BOOLEAN /\ applet.signal \in {"TERM", "KILL"}
            /\ applet.pc = "start" /\ applet.pid = 0 /\ applet.timedOut = FALSE
            /\ applet.killSent = FALSE /\ applet.service = 0 /\ applet.result = "none"
        BY DEF Init
      <4>2. applet = [name |-> applet.name, pid1 |-> applet.pid1, kill |-> applet.kill,
                      preserve |-> applet.preserve, signal |-> applet.signal,
                      pc |-> applet.pc, pid |-> applet.pid, timedOut |-> applet.timedOut,
                      killSent |-> applet.killSent, service |-> applet.service,
                      result |-> applet.result]
        BY DEF Init
      <4>3. /\ applet.pc \in {"start", "spawning", "wait", "clock", "term", "kill", "done"}
            /\ applet.pid \in Pids \cup {0}
            /\ applet.result \in Statuses \cup {"none", "124", "125", "126"}
        BY <4>1, Zenon
      <4>4. applet.timedOut \in BOOLEAN /\ applet.killSent \in BOOLEAN BY <4>1, Zenon
      <4>5. applet.service \in Nat BY <4>1
      <4>6. QED BY <4>1, <4>2, <4>3, <4>4, <4>5, Zenon DEF AppletStates
    <3>4. QED BY <3>2, <3>3 DEF AppletTypeOK
  <2>3. QED BY <2>1, <2>2
<1>2. Inv /\ [Next]_vars => Inv'
  <2> SUFFICES ASSUME Inv, [Next]_vars PROVE Inv'
    OBVIOUS
  <2>1. [SpawnNext]_spawnVars BY NextIsSpawnNext
  <2>2. QED BY <2>1, SpawnAssumption, SpawnStep, AppletTypes
<1>3. Inv => TypeOK /\ SpawnInv BY DEF TypeOK, SpawnInv
<1>4. QED BY <1>1, <1>2, <1>3, PTL DEF Spec

\* timeout, time, init and runit use smallclueSpawn as Spawn says, and so what
\* spawn.h promises holds in each of them.
THEOREM AppletsKeepPromise == Spec => KeepsPromise
<1>1. Init => SpawnInit BY DEF Init
<1>2. TypeOK /\ SpawnInv /\ [Next]_vars => [SpawnNext]_spawnVars
  BY NextIsSpawnNext DEF TypeOK
<1>3. Spec => SpawnSpec BY <1>1, <1>2, TypeCorrect, PTL DEF Spec, SpawnSpec
<1>4. QED BY <1>3, SpawnKeepsPromise

-----------------------------------------------------------------------------
(* What the applets report and when they kill. *)

\* While no call is in progress, a process id that fork hands out keeps its
\* record once the process has been reaped.
LEMMA ReapedStays ==
  ASSUME SpawnInv, call.pc = "idle", World \/ OrphanArrives \/ Tick,
         NEW p \in Pids, proc[p].state = "free"
  PROVE  proc'[p] = proc[p]
<1>1. p \in AllPids BY DEF AllPids
<1>2. CASE World
  <2> PICK q \in AllPids : ProgramExit(q) \/ KilledFromOutside(q) \/ Deliver(q)
    BY <1>2 DEF World
  <2>1. q \in Living BY DEF ProgramExit, KilledFromOutside, Deliver, Living
  <2>2. q # p BY <2>1 DEF Living
  <2>3. QED BY <1>1, <2>2 DEF ProgramExit, KilledFromOutside, Deliver, End, SpawnInv, SpawnTypeOK
<1>3. CASE OrphanArrives
  <2> PICK q \in Adopted : Adopt(q) BY <1>3 DEF OrphanArrives
  <2>1. q # p BY SpawnAssumption DEF SpawnAssumption
  <2>2. QED BY <1>1, <2>1 DEF Adopt, SpawnInv, SpawnTypeOK
<1>4. CASE Tick BY <1>4 DEF Tick, spawnVars
<1>5. QED BY <1>2, <1>3, <1>4

\* The steps that no applet takes.
LEMMA WorldKeepsSupervise ==
  ASSUME SpawnInv, AppletTypeOK, SuperviseInv, UNCHANGED applet,
         (World /\ Quiet) \/ OrphanArrives \/ Tick
  PROVE  SuperviseInv'
<1> USE DEF AppletTypeOK, AppletStates, SuperviseInv, ReportsItsChild, RcEndsBeforeShutdown
<1>1. call' = call
  BY DEF World, ProgramExit, KilledFromOutside, Deliver, End, OrphanArrives, Adopt, Tick, spawnVars
<1>2. applet.pid # 0 /\ call.pc = "idle" /\ proc[applet.pid].state = "free"
        => proc'[applet.pid] = proc[applet.pid]
  BY ReapedStays
<1>3. applet.timedOut => clock'.quiet = clock'.since
  BY DEF Quiet, OrphanArrives, Tick
<1>4. QED BY <1>1, <1>2, <1>3

\* Every step of an applet keeps SuperviseInv.
LEMMA SuperviseStep ==
  ASSUME SpawnInv, AppletTypeOK, SuperviseInv, [Next]_vars PROVE SuperviseInv'
<1> USE DEF AppletTypeOK, AppletStates, SuperviseInv, ReportsItsChild, RcEndsBeforeShutdown
<1>1. call \in Calls BY DEF SpawnInv, SpawnTypeOK
<1>2. CASE StartSpawn
  BY <1>2 DEF StartSpawn, Go, Call
<1>3. ASSUME TakeResult PROVE call'.pc = "idle"
  BY <1>1, <1>3 DEF TakeResult, Calls
<1>4. ASSUME NEW p \in AllPids, CallerReaps(p)
      PROVE  /\ proc'[p].state = "free" /\ proc'[p].status = proc[p].status
             /\ call'.pc = "idle"
  BY <1>4 DEF CallerReaps, Reap, SpawnInv, SpawnTypeOK, Processes
<1>5. ASSUME NEW p, CallerReaps(p) PROVE p \in AllPids /\ call.pc = "idle"
  BY <1>5 DEF CallerReaps, Zombies
<1>6. CASE Timeout
  <2>1. CASE TimeoutFailed BY <1>3, <2>1 DEF TimeoutFailed, Failed, Return
  <2>2. CASE TimeoutStarted
    <3>1. call'.pc = "idle" /\ applet' = [applet EXCEPT !.pc = "wait", !.pid = call.pid]
      BY <1>3, <2>2 DEF TimeoutStarted, Started
    <3>2. clock'.quiet = clock.quiet /\ clock'.since = clock.since
      BY <2>2 DEF TimeoutStarted, Clocks
    <3>3. QED BY <3>1, <3>2
  <2>3. CASE TimeoutPollEnded
    <3>1. applet.pid \in AllPids BY <1>5, <2>3 DEF TimeoutPollEnded
    <3>2. /\ proc'[applet.pid].state = "free"
          /\ proc'[applet.pid].status = proc[applet.pid].status
          /\ call'.pc = "idle"
      BY <1>4, <2>3, <3>1 DEF TimeoutPollEnded
    <3>3. QED BY <2>3, <3>2 DEF TimeoutPollEnded, Return, CommandStatus
  <2>4. CASE TimeoutPollRunning \/ TimeoutSleep
    BY <2>4 DEF TimeoutPollRunning, TimeoutSleep, Go, At, spawnVars
  <2>5. CASE TimeoutExpire
    BY <2>5 DEF TimeoutExpire, At, Clocks
  <2>6. CASE TimeoutEscalate
    BY <2>6 DEF TimeoutEscalate, At
  <2>7. QED BY <1>6, <2>1, <2>2, <2>3, <2>4, <2>5, <2>6 DEF Timeout
<1>7. CASE Time
  <2>1. CASE TimeFailed BY <1>3, <2>1 DEF TimeFailed, Failed, Return
  <2>2. CASE TimeStarted BY <1>3, <2>2 DEF TimeStarted, Started
  <2>3. CASE TimeWait
    <3>1. applet.pid \in AllPids BY <1>5, <2>3 DEF TimeWait
    <3>2. /\ proc'[applet.pid].state = "free"
          /\ proc'[applet.pid].status = proc[applet.pid].status
          /\ call'.pc = "idle"
      BY <1>4, <2>3, <3>1 DEF TimeWait
    <3>3. ~ applet.timedOut BY <2>3 DEF TimeWait, At
    <3>4. QED BY <2>3, <3>2, <3>3 DEF TimeWait, Return, At
  <2>4. QED BY <1>7, <2>1, <2>2, <2>3 DEF Time
<1>8. CASE InitApplet
  <2>1. CASE NoRc BY <2>1 DEF NoRc, Go, At, spawnVars
  <2>2. CASE RcFailed BY <1>3, <2>2 DEF RcFailed, Failed, Go
  <2>3. CASE RcStarted BY <1>3, <2>3 DEF RcStarted, Started
  <2>4. ASSUME NEW p \in AllPids, InitReap(p) PROVE SuperviseInv'
    <3>1. proc'[p].state = "free" /\ call'.pc = "idle" BY <1>4, <2>4 DEF InitReap
    <3>2. CASE p = applet.pid BY <2>4, <3>1, <3>2 DEF InitReap, Go, At
    <3>3. CASE p # applet.pid BY <2>4, <3>1, <3>3 DEF InitReap, At
    <3>4. QED BY <3>2, <3>3
  <2>5. CASE Init1
    <3>1. proc'[applet.pid].state = "free" \/ applet.pid = 0
      BY <2>5 DEF Init1, Shutdown, At, SendSignal, Living, AllPids
    <3>2. PICK to \in {"kill", "done"} : applet' = [applet EXCEPT !.pc = to]
      BY <2>5 DEF Init1, Shutdown, Go
    <3>3. call' = call /\ clock' = clock /\ applet.pc \in {"term", "kill"} /\ applet.name = "init"
      BY <2>5 DEF Init1, Shutdown, At
    <3>4. QED BY <3>1, <3>2, <3>3
  <2>6. QED BY <1>8, <2>1, <2>2, <2>3, <2>4, <2>5 DEF InitApplet
<1>9. CASE Runit
  <2>1. CASE ServiceTried
    BY <1>3, <2>1 DEF ServiceTried, Failed, Started
  <2>2. CASE AllTried BY <2>2 DEF AllTried, Go, At, spawnVars
  <2>3. ASSUME NEW p \in AllPids, RunitReap(p) PROVE SuperviseInv'
    BY <1>4, <2>3 DEF RunitReap, At
  <2>4. QED BY <1>9, <2>1, <2>2, <2>3 DEF Runit
<1>10. CASE (Spawning \/ \E p \in Pids : Child(p)) /\ Quiet
  <2>1. call.pc # "idle"
    <3>1. CASE Spawning
      BY <3>1 DEF Spawning, CheckRequest, OpenPipe, SetCloseOnExec, ForkFails, Fork,
                  CloseWriteEnd, ReadErrno, ReadEndOfFile, ReapFailed
    <3>2. ASSUME NEW p \in Pids, Child(p) PROVE call.pc # "idle"
      <4>1. proc[p].state \in {"child", "told"}
        BY <3>2 DEF Child, JoinOwnGroup, Try, WriteErrno, ChildGivesUp
      <4>2. QED BY <4>1 DEF SpawnInv, InTheMakingPc, AllPids
    <3>3. QED BY <1>10, <3>1, <3>2
  <2>2. applet.pc = "spawning" BY <2>1
  <2>3. QED BY <1>10, <2>2 DEF Quiet
<1>11. CASE World /\ Quiet BY <1>11, WorldKeepsSupervise DEF Quiet
<1>12. CASE Tick BY <1>12, WorldKeepsSupervise DEF Tick
<1>13. CASE OrphanArrives BY <1>13, WorldKeepsSupervise DEF OrphanArrives
<1>14. CASE UNCHANGED vars BY <1>14 DEF vars
<1>15. QED
  BY <1>2, <1>6, <1>7, <1>8, <1>9, <1>10, <1>11, <1>12, <1>13, <1>14 DEF Next, Applet

\* SuperviseInv holds in every state of the four applets.
LEMMA SuperviseInvariance == Spec => []SuperviseInv
<1>1. Init => SuperviseInv
  BY DEF Init, SpawnInit, SuperviseInv, ReportsItsChild, RcEndsBeforeShutdown
<1>2. TypeOK /\ SpawnInv /\ SuperviseInv /\ [Next]_vars => SuperviseInv'
  BY SuperviseStep DEF TypeOK
<1>3. QED BY <1>1, <1>2, TypeCorrect, PTL DEF Spec

\* timeout and time come back with the status of a child they have reaped, and
\* with 124 exactly when the command was signalled for running over its limit.
THEOREM ChildReported == Spec => []ReportsItsChild
<1>1. SuperviseInv => ReportsItsChild BY DEF SuperviseInv
<1>2. QED BY <1>1, SuperviseInvariance, PTL

\* init begins the shutdown only when the rc it started has ended and is reaped.
THEOREM ShutdownAfterRc == Spec => []RcEndsBeforeShutdown
<1>1. SuperviseInv => RcEndsBeforeShutdown BY DEF SuperviseInv
<1>2. QED BY <1>1, SuperviseInvariance, PTL

\* timeout signals nobody before its limit and kills nobody within the grace
\* period that follows the first signal.
THEOREM GraceIsRespected == Spec => GraceRespected
<1>1. TypeOK /\ SpawnInv /\ SuperviseInv /\ [Next]_vars =>
        [\A p \in AllPids :
           /\ At("timeout", "clock")
           /\ proc'[p].pending # proc[p].pending /\ proc'[p].state = proc[p].state
           /\ applet' # applet
           => IF applet.timedOut THEN clock.since >= KillAfter /\ "KILL" \in proc'[p].pending
                                 ELSE clock.elapsed >= Duration]_vars
  <2> SUFFICES ASSUME TypeOK, SpawnInv, SuperviseInv, Next,
                      NEW p \in AllPids, At("timeout", "clock"),
                      proc'[p].pending # proc[p].pending, applet' # applet
               PROVE  IF applet.timedOut
                      THEN clock.since >= KillAfter /\ "KILL" \in proc'[p].pending
                      ELSE clock.elapsed >= Duration
    OBVIOUS
  <2>1. applet.name = "timeout" /\ applet.pc = "clock" BY DEF At
  <2>2. CASE TimeoutExpire BY <2>2 DEF TimeoutExpire
  <2>3. CASE TimeoutEscalate
    <3>1. clock.quiet >= KillAfter /\ applet.timedOut /\ clock.quiet = clock.since
      BY <2>3 DEF TimeoutEscalate, GraceOver, SuperviseInv
    <3>2. proc' = [q \in AllPids |->
                     IF q \in {r \in AllPids : r = applet.pid /\ proc[r].group} \cap Living
                     THEN [proc[q] EXCEPT !.pending = @ \cup {"KILL"}]
                     ELSE proc[q]]
      BY <2>3 DEF TimeoutEscalate, SignalGroup, SendSignal
    <3>3. proc'[p] = [proc[p] EXCEPT !.pending = @ \cup {"KILL"}]
      BY <3>2
    <3>4. "KILL" \in proc'[p].pending
      BY <3>3 DEF SpawnInv, SpawnTypeOK, Processes
    <3>5. QED BY <3>1, <3>4
  <2>4. proc' # proc OBVIOUS
  <2>5. CASE ~ TimeoutExpire /\ ~ TimeoutEscalate
    BY <2>1, <2>4, <2>5
    DEF Next, Applet, StartSpawn, Timeout, TimeoutFailed, TimeoutStarted, TimeoutPollEnded,
        TimeoutPollRunning, TimeoutSleep, Failed, Started, Time, TimeFailed, TimeStarted,
        TimeWait, InitApplet, NoRc, RcFailed, RcStarted, InitReap, Init1, Shutdown, Runit,
        ServiceTried, AllTried, RunitReap, At, Quiet, Tick, OrphanArrives, spawnVars
  <2>6. QED BY <2>2, <2>3, <2>5
<1>2. QED
  BY <1>1, TypeCorrect, SuperviseInvariance, PTL DEF Spec, GraceRespected

-----------------------------------------------------------------------------
(* The errno of a call that fails. *)

\* errno is that of the last of the first n attempts that were tried, if there is one.
Tells(n, errno) ==
  \A i \in 1 .. n : Attempts[i] # "null" /\ (\A k \in i + 1 .. n : Attempts[k] = "null") => errno = Attempts[i]

\* It is the child's while it tries, in the pipe when it has tried all, and the caller's
\* when it has been read.
ErrnoInv ==
  /\ call.pc \in {"check", "pipe", "cloexec", "fork"} => call.pid = 0
  /\ \A p \in AllPids : proc[p].state = "child" =>
       proc[p].tried \in 0 .. Len(Attempts) /\ Tells(proc[p].tried, proc[p].errno)
  /\ call.pc \in InTheMakingPc /\ pipe.errno # "none" => Tells(Len(Attempts), pipe.errno)
  /\ call.pc = "reap" => call.child_errno = pipe.errno
  /\ ErrnoFromLastAttempt

\* What Tells says of all attempts is what spawn.h promises.
LEMMA TellsLast ==
  ASSUME NEW errno, Tells(Len(Attempts), errno), LastErrno # {}
  PROVE  errno \in LastErrno
<1> DEFINE tried == {i \in 1 .. Len(Attempts) : Attempts[i] # "null"}
<1>1. PICK i \in tried : \A k \in tried : k <= i BY DEF LastErrno
<1>2. \A k \in i + 1 .. Len(Attempts) : Attempts[k] = "null" BY <1>1
<1>3. errno = Attempts[i] BY <1>1, <1>2 DEF Tells
<1>4. QED BY <1>1, <1>3 DEF LastErrno

\* One attempt more: a null one tells nothing, another one takes the place of those before.
LEMMA TellsNext ==
  ASSUME NEW n \in Nat, NEW errno, Tells(n, errno)
  PROVE  Tells(n + 1, IF Attempts[n + 1] = "null" THEN errno ELSE Attempts[n + 1])
<1>1. SUFFICES ASSUME NEW i \in 1 .. n + 1, Attempts[i] # "null",
                      \A k \in i + 1 .. n + 1 : Attempts[k] = "null"
               PROVE  (IF Attempts[n + 1] = "null" THEN errno ELSE Attempts[n + 1]) = Attempts[i]
  BY DEF Tells
<1>2. CASE i = n + 1 BY <1>1, <1>2
<1>3. CASE i # n + 1
  <2>1. i \in 1 .. n /\ n + 1 \in i + 1 .. n + 1 BY <1>3
  <2>2. Attempts[n + 1] = "null" BY <1>1, <2>1
  <2>3. QED BY <1>1, <2>1, <2>2 DEF Tells
<1>4. QED BY <1>2, <1>3

\* A step of smallclueSpawn in the caller.
LEMMA SpawningErrno ==
  ASSUME SpawnAssumption, SpawnInv, ErrnoInv, Spawning PROVE ErrnoInv'
<1> USE DEF InTheMakingPc
<1>0. call \in Calls /\ pipe \in [writers : SUBSET (Pids \cup {Self}), errno : Errnos \cup {"none"}]
      /\ proc \in [AllPids -> Processes]
  BY DEF SpawnInv, SpawnTypeOK
<1>1. ASSUME CheckRequest \/ OpenPipe \/ SetCloseOnExec \/ ForkFails
      PROVE  ErrnoInv'
  <2>1. /\ call.pc \in {"check", "pipe", "cloexec", "fork"} /\ call'.pid = 0
        /\ call'.pc \in {"returned", "pipe", "cloexec", "fork"} /\ proc' = proc
    BY <1>0, <1>1 DEF CheckRequest, OpenPipe, SetCloseOnExec, ForkFails, Returned, Calls, ErrnoInv
  <2>2. \A p \in AllPids : proc'[p].state # "child" BY <2>1 DEF SpawnInv
  <2>3. AllPids' = AllPids BY DEF AllPids
  <2>4. QED BY <2>1, <2>2, <2>3 DEF ErrnoInv, ErrnoFromLastAttempt
<1>2. ASSUME NEW p \in Pids, Fork(p) PROVE ErrnoInv'
  <2>1. /\ call.pc = "fork" /\ call' = [call EXCEPT !.pc = "close", !.pid = p]
        /\ p \in AllPids /\ proc' = [proc EXCEPT ![p] = [NoProcess EXCEPT !.state = "child"]]
        /\ pipe'.errno = "none"
    BY <1>0, <1>2 DEF Fork, AllPids, SpawnInv
  <2>2. Attempts' = Attempts /\ AllPids' = AllPids /\ call'.pc = "close" /\ Len(Attempts) \in Nat
    BY <1>0, <2>1, SpawnAssumption DEF Attempts, Calls, AllPids, SpawnAssumption
  <2>3. \A q \in AllPids \ {p} : proc'[q] = proc[q] /\ proc[q].state # "child"
    BY <1>0, <2>1 DEF SpawnInv
  <2>4. proc'[p].tried = 0 BY <1>0, <2>1 DEF NoProcess
  <2>5. \A e : Tells(0, e)' BY DEF Tells
  <2>6. QED BY <2>1, <2>2, <2>3, <2>4, <2>5 DEF ErrnoInv, ErrnoFromLastAttempt
<1>3. ASSUME CloseWriteEnd \/ ReadErrno PROVE ErrnoInv'
  <2>1. /\ proc' = proc /\ pipe'.errno = pipe.errno /\ call'.pc \in {"read", "reap"}
        /\ call.pc \in {"close", "read"} /\ call'.request = call.request
        /\ call'.pc = "reap" => call'.child_errno = pipe.errno
    BY <1>0, <1>3 DEF CloseWriteEnd, ReadErrno, Calls
  <2>2. Attempts' = Attempts /\ AllPids' = AllPids BY <2>1 DEF Attempts, AllPids
  <2>3. QED BY <2>1, <2>2 DEF ErrnoInv, ErrnoFromLastAttempt, Tells
<1>4. ASSUME ReadEndOfFile PROVE ErrnoInv'
  <2>1. /\ proc' = proc /\ call'.pc = "returned" /\ call'.result = "pid"
        /\ call'.request = call.request
    BY <1>0, <1>4 DEF ReadEndOfFile, Returned, Calls
  <2>2. Attempts' = Attempts /\ AllPids' = AllPids BY <2>1 DEF Attempts, AllPids
  <2>3. QED BY <2>1, <2>2 DEF ErrnoInv, ErrnoFromLastAttempt, Tells
<1>5. ASSUME ReapFailed PROVE ErrnoInv'
  <2>1. /\ call.pc = "reap" /\ call.pid \in AllPids /\ proc[call.pid].state = "zombie"
        /\ proc' = [proc EXCEPT ![call.pid] = [@ EXCEPT !.state = "free", !.pending = {}]]
        /\ call'.pc = "returned" /\ call'.request = call.request
        /\ call'.child_errno = pipe.errno
    BY <1>0, <1>5 DEF ReapFailed, Reap, Zombies, Returned, Calls, ErrnoInv
  <2>2. Attempts' = Attempts /\ AllPids' = AllPids /\ LastErrno' = LastErrno
    BY <2>1 DEF Attempts, AllPids, LastErrno
  <2>3. Tells(Len(Attempts), pipe.errno) BY <2>1 DEF ErrnoInv, SpawnInv
  <2>4. ErrnoFromLastAttempt'
    <3>1. LastErrno # {} => call'.child_errno \in LastErrno BY <2>1, <2>3, TellsLast
    <3>2. QED BY <2>2, <3>1 DEF ErrnoFromLastAttempt
  <2>5. \A p \in AllPids : proc'[p].state = "child" => proc'[p] = proc[p]
    BY <1>0, <2>1 DEF Processes
  <2>6. QED BY <2>1, <2>2, <2>4, <2>5 DEF ErrnoInv, Tells
<1>6. QED BY <1>1, <1>2, <1>3, <1>4, <1>5 DEF Spawning

\* A step that leaves the call and what is in the pipe alone and makes no child.
LEMMA ErrnoKept ==
  ASSUME ErrnoInv, pipe'.errno = pipe.errno, call'.pc = call.pc, call'.request = call.request,
         call'.pid = call.pid, call'.child_errno = call.child_errno, call'.result = call.result,
         \A p \in AllPids : proc'[p].state = "child" =>
            proc[p].state = "child" /\ proc'[p].tried = proc[p].tried /\ proc'[p].errno = proc[p].errno
  PROVE  ErrnoInv'
<1>1. Attempts' = Attempts /\ AllPids' = AllPids /\ LastErrno' = LastErrno
  BY DEF Attempts, AllPids, LastErrno
<1>2. QED BY <1>1 DEF ErrnoInv, ErrnoFromLastAttempt, Tells

\* A step of the child.
LEMMA ChildErrno ==
  ASSUME SpawnAssumption, SpawnInv, ErrnoInv, NEW p \in Pids, Child(p) PROVE ErrnoInv'
<1>0. call \in Calls /\ p \in AllPids /\ proc[p] \in Processes /\ proc \in [AllPids -> Processes]
      /\ pipe \in [writers : SUBSET (Pids \cup {Self}), errno : Errnos \cup {"none"}]
  BY DEF SpawnInv, SpawnTypeOK, AllPids
<1>1. CASE JoinOwnGroup(p)
  BY <1>0, <1>1, ErrnoKept DEF JoinOwnGroup, Processes
<1>2. CASE Try(p)
  <2> DEFINE n == proc[p].tried
             outcome == Attempts[n + 1]
  <2>1. proc[p].state = "child" /\ n < Len(Attempts) BY <1>2 DEF Try
  <2>2. CASE outcome = "runs"
    <3>1. /\ proc' = [proc EXCEPT ![p].state = "program"]
          /\ pipe' = [pipe EXCEPT !.writers = @ \ {p}] /\ call' = [call EXCEPT !.execed = TRUE]
      BY <1>2, <2>2 DEF Try
    <3>2. \A q \in AllPids : proc'[q].state = "child" => proc'[q] = proc[q]
      BY <1>0, <3>1 DEF Processes
    <3>3. pipe'.errno = pipe.errno BY <1>0, <3>1
    <3>4. /\ call'.pc = call.pc /\ call'.request = call.request /\ call'.pid = call.pid
          /\ call'.child_errno = call.child_errno /\ call'.result = call.result
      BY <1>0, <3>1 DEF Calls
    <3>5. QED BY <3>2, <3>3, <3>4, ErrnoKept
  <2>3. CASE outcome # "runs"
    <3>1. /\ proc' = [proc EXCEPT ![p].tried = @ + 1, ![p].errno = IF outcome = "null" THEN @ ELSE outcome]
          /\ UNCHANGED <<pipe, call>>
      BY <1>2, <2>3 DEF Try
    <3>2. /\ proc'[p].tried = n + 1
          /\ proc'[p].errno = IF outcome = "null" THEN proc[p].errno ELSE outcome
          /\ \A q \in AllPids \ {p} : proc'[q] = proc[q]
      BY <1>0, <3>1 DEF Processes
    <3>3. n \in Nat /\ Tells(n, proc[p].errno) /\ Len(Attempts) \in Nat
      BY <1>0, <2>1, SpawnAssumption DEF ErrnoInv, Processes, Calls, Attempts, SpawnAssumption
    <3>4. Tells(n + 1, proc'[p].errno) BY <3>2, <3>3, TellsNext
    <3>5. Attempts' = Attempts /\ AllPids' = AllPids /\ LastErrno' = LastErrno
      BY <3>1 DEF Attempts, AllPids, LastErrno
    <3>6. n + 1 \in 0 .. Len(Attempts) BY <2>1, <3>3
    <3>7. \A q \in AllPids : proc'[q].state = "child" =>
             proc'[q].tried \in 0 .. Len(Attempts) /\ Tells(proc'[q].tried, proc'[q].errno)
      BY <3>2, <3>4, <3>6 DEF ErrnoInv
    <3>8. \A m, e : Tells(m, e)' <=> Tells(m, e) BY <3>5 DEF Tells
    <3>9. ErrnoFromLastAttempt' BY <3>1, <3>5 DEF ErrnoInv, ErrnoFromLastAttempt
    <3>10. QED BY <3>1, <3>5, <3>7, <3>8, <3>9 DEF ErrnoInv
  <2>4. QED BY <2>2, <2>3
<1>3. CASE WriteErrno(p)
  <2>1. /\ proc[p].state = "child" /\ proc[p].tried = Len(Attempts)
        /\ pipe'.errno = proc[p].errno /\ proc' = [proc EXCEPT ![p].state = "told"] /\ call' = call
    BY <1>0, <1>3 DEF WriteErrno
  <2>2. Tells(Len(Attempts), proc[p].errno) BY <1>0, <2>1 DEF ErrnoInv
  <2>3. Attempts' = Attempts /\ AllPids' = AllPids /\ LastErrno' = LastErrno
    BY <2>1 DEF Attempts, AllPids, LastErrno
  <2>4. \A q \in AllPids : proc'[q].state = "child" => proc'[q] = proc[q]
    BY <1>0, <2>1 DEF Processes
  <2>5. call.pc # "reap" BY <1>0, <2>1 DEF SpawnInv
  <2>6. QED BY <2>1, <2>2, <2>3, <2>4, <2>5 DEF ErrnoInv, ErrnoFromLastAttempt, Tells
<1>4. CASE ChildGivesUp(p)
  BY <1>0, <1>4, ErrnoKept DEF ChildGivesUp, End, Processes
<1>5. QED BY <1>1, <1>2, <1>3, <1>4 DEF Child

\* A step of the rest of the world.
LEMMA WorldErrno ==
  ASSUME SpawnInv, ErrnoInv, World PROVE ErrnoInv'
<1>0. proc \in [AllPids -> Processes] /\ pipe \in [writers : SUBSET (Pids \cup {Self}), errno : Errnos \cup {"none"}]
  BY DEF SpawnInv, SpawnTypeOK
<1>1. PICK p \in AllPids : ProgramExit(p) \/ KilledFromOutside(p) \/ Deliver(p) BY DEF World
<1>2. ASSUME NEW status, End(p, status) PROVE ErrnoInv'
  BY <1>0, <1>2, ErrnoKept DEF End, Processes
<1>3. ASSUME proc' = [proc EXCEPT ![p].pending = @ \ {"TERM"}], UNCHANGED <<pipe, call>> PROVE ErrnoInv'
  BY <1>0, <1>3, ErrnoKept DEF Processes
<1>4. QED BY <1>1, <1>2, <1>3 DEF ProgramExit, KilledFromOutside, Deliver

\* A step of the caller between two calls.
LEMMA CallerErrno ==
  ASSUME SpawnInv, ErrnoInv, Caller PROVE ErrnoInv'
<1>0. proc \in [AllPids -> Processes] /\ call \in Calls
  BY DEF SpawnInv, SpawnTypeOK
<1>1. ASSUME NEW request \in Requests, Call(request) PROVE ErrnoInv'
  <2>1. /\ call.pc = "idle" /\ call'.pc = "check" /\ call'.pid = 0 /\ proc' = proc
    BY <1>1 DEF Call
  <2>2. \A p \in AllPids : proc'[p].state # "child" BY <2>1 DEF SpawnInv, InTheMakingPc
  <2>3. AllPids' = AllPids BY DEF AllPids
  <2>4. QED BY <2>1, <2>2, <2>3 DEF ErrnoInv, ErrnoFromLastAttempt, InTheMakingPc
<1>2. ASSUME TakeResult, UNCHANGED proc \/ SetpgidByCaller(call.pid) PROVE ErrnoInv'
  <2>1. call.pc = "returned" /\ call'.pc = "idle" BY <1>0, <1>2 DEF TakeResult, Calls
  <2>2. \A p \in AllPids : proc[p].state # "child" BY <2>1 DEF SpawnInv, InTheMakingPc
  <2>3. \A p \in AllPids : proc'[p].state # "child" BY <1>2, <2>2 DEF SetpgidByCaller
  <2>4. AllPids' = AllPids BY DEF AllPids
  <2>5. QED BY <2>1, <2>3, <2>4 DEF ErrnoInv, ErrnoFromLastAttempt, InTheMakingPc
<1>3. ASSUME NEW p \in AllPids, CallerReaps(p) PROVE ErrnoInv'
  BY <1>0, <1>3, ErrnoKept DEF CallerReaps, Reap, Processes
<1>4. ASSUME NEW p \in Adopted, Adopt(p) PROVE ErrnoInv'
  BY <1>0, <1>4, ErrnoKept DEF Adopt, Processes, NoProcess
<1>5. ASSUME NEW targets \in SUBSET AllPids, NEW signal \in {"TERM", "KILL"}, SendSignal(targets, signal),
             UNCHANGED call
      PROVE  ErrnoInv'
  BY <1>0, <1>5, ErrnoKept DEF SendSignal, Processes
<1>6. QED BY <1>1, <1>2, <1>3, <1>4, <1>5 DEF Caller

\* Every step keeps ErrnoInv.
LEMMA ErrnoStep ==
  ASSUME SpawnAssumption, SpawnInv, ErrnoInv, [SpawnNext]_spawnVars PROVE ErrnoInv'
<1>1. CASE UNCHANGED spawnVars BY <1>1, ErrnoKept DEF spawnVars
<1>2. QED BY <1>1, SpawningErrno, ChildErrno, WorldErrno, CallerErrno DEF SpawnNext

\* When no attempt managed to exec, the errno that timeout, time, init or runit gets is that
\* of the last attempt that was made.
THEOREM ErrnoIsTheLast == Spec => []ErrnoFromLastAttempt
<1>1. Init => ErrnoInv
  <2>1. ASSUME SpawnInit PROVE ErrnoInv
    BY <2>1 DEF SpawnInit, NoProcess, ErrnoInv, ErrnoFromLastAttempt, InTheMakingPc
  <2>2. QED BY <2>1 DEF Init
<1>2. TypeOK /\ SpawnInv /\ ErrnoInv /\ [Next]_vars => ErrnoInv'
  BY SpawnAssumption, NextIsSpawnNext, ErrnoStep DEF TypeOK
<1>3. ErrnoInv => ErrnoFromLastAttempt BY DEF ErrnoInv
<1>4. QED BY <1>1, <1>2, <1>3, TypeCorrect, PTL DEF Spec
=============================================================================
