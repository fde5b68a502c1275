-------------------------------- MODULE Spawn --------------------------------
(***************************************************************************)
(* smallclueSpawn (src/src/spawn.c): fork a child that tries the attempts  *)
(* of the request in turn, and learn through a close-on-exec pipe whether  *)
(* one of them became a program.                                           *)
(*                                                                         *)
(* A step of the caller is one system call, a step of the child one exec,  *)
(* write or exit; anybody may kill a child at any moment.  The kernel is   *)
(* the table proc and the one pipe that is open during a call: its write   *)
(* end is held by writers, a read returns when there is an errno in it or  *)
(* nobody holds the write end any more.                                    *)
(***************************************************************************)
EXTENDS Integers, Sequences

CONSTANTS
    Pids,         \* process ids fork may return
    Adopted,      \* process ids of the orphans that reach pid 1
    Requests      \* the SmallclueSpawnRequests that callers make

\* What an attempt comes to: "null" has no file or no argv and is skipped,
\* "runs" execs, and the others are the errno of the exec.
Outcomes == {"null", "runs", "ENOENT", "EACCES"}

ASSUME SpawnAssumption ==
    /\ Pids \cup Adopted \subseteq Nat \ {0}
    /\ Pids \cap Adopted = {}
    /\ Requests \subseteq [attempts : Seq(Outcomes), setpgid_self : BOOLEAN]

VARIABLES
    proc,         \* kernel: the children of the caller
    pipe,         \* kernel: failpipe
    call          \* smallclueSpawn: where it is, its locals and its result

spawnVars == <<proc, pipe, call>>

Self == 0         \* the caller itself, among the holders of the write end

\* "inherited" is whatever errno the caller had at the fork.
Errnos == {"inherited", "ENOENT", "EACCES", "EINVAL", "EMFILE", "EAGAIN"}
Statuses == {"ok", "fail", "127", "TERM", "KILL"}

\* state: "child" tries the attempts, "told" has written its errno; tried: i of
\* the loop; group: it leads a process group; pending: signals not delivered
\* yet; status: of its end, which stays readable here after it is reaped.
Processes ==
    [state : {"free", "child", "told", "program", "zombie"}, tried : Nat,
     errno : Errnos, group : BOOLEAN, pending : SUBSET {"TERM", "KILL"},
     status : Statuses]
NoProcess == [state |-> "free", tried |-> 0, errno |-> "inherited",
              group |-> FALSE, pending |-> {}, status |-> "ok"]

Calls ==
    [pc : {"idle", "check", "pipe", "cloexec", "fork", "close", "read", "reap", "returned"},
     request : Requests, pid : Pids \cup {0}, child_errno : Errnos,
     result : {"none", "pid", "error"},
     execed : BOOLEAN]     \* history: an attempt of this call became a program

Attempts == call.request.attempts
AllPids == Pids \cup Adopted
Zombies == {p \in AllPids : proc[p].state = "zombie"}
Living == {p \in AllPids : proc[p].state \in {"child", "told", "program"}}

Returned(result, errno) ==
    [call EXCEPT !.pc = "returned", !.result = result, !.child_errno = errno]

-----------------------------------------------------------------------------
(* The caller. *)

Call(request) ==
    /\ call.pc = "idle"
    /\ call' = [pc |-> "check", request |-> request, pid |-> 0,
                child_errno |-> "inherited", result |-> "none", execed |-> FALSE]
    /\ UNCHANGED <<proc, pipe>>

CheckRequest ==
    /\ call.pc = "check"
    /\ call' = IF Attempts = <<>> THEN Returned("error", "EINVAL")
                                 ELSE [call EXCEPT !.pc = "pipe"]
    /\ UNCHANGED <<proc, pipe>>

OpenPipe ==
    /\ call.pc = "pipe"
    /\ \/ /\ call' = [call EXCEPT !.pc = "cloexec"]
          /\ pipe' = [writers |-> {Self}, errno |-> "none"]
       \/ /\ call' = Returned("error", "EMFILE")
          /\ UNCHANGED pipe
    /\ UNCHANGED proc

ClosePipe == pipe' = [writers |-> {}, errno |-> "none"]

SetCloseOnExec ==
    /\ call.pc = "cloexec"
    /\ \/ call' = [call EXCEPT !.pc = "fork"] /\ UNCHANGED pipe
       \/ call' = Returned("error", "EINVAL") /\ ClosePipe
    /\ UNCHANGED proc

ForkFails ==
    /\ call.pc = "fork"
    /\ call' = Returned("error", "EAGAIN")
    /\ ClosePipe
    /\ UNCHANGED proc

Fork(p) ==
    /\ call.pc = "fork"
    /\ proc[p].state = "free"
    /\ proc' = [proc EXCEPT ![p] = [NoProcess EXCEPT !.state = "child"]]
    /\ pipe' = [pipe EXCEPT !.writers = @ \cup {p}]
    /\ call' = [call EXCEPT !.pc = "close", !.pid = p]

CloseWriteEndNot ==
    /\ call.pc = "close"
    /\ call' = [call EXCEPT !.pc = "read"]
    /\ UNCHANGED <<proc, pipe>>

CloseWriteEnd ==
    /\ call.pc = "close"
    /\ pipe' = [pipe EXCEPT !.writers = @ \ {Self}]
    /\ call' = [call EXCEPT !.pc = "read"]
    /\ UNCHANGED proc

ReadErrnoNoReap ==
    /\ call.pc = "read"
    /\ pipe.errno # "none"
    /\ call' = Returned("error", pipe.errno)
    /\ UNCHANGED <<proc, pipe>>

ReadErrno ==
    /\ call.pc = "read"
    /\ pipe.errno # "none"
    /\ call' = [call EXCEPT !.pc = "reap", !.child_errno = pipe.errno]
    /\ UNCHANGED <<proc, pipe>>

ReadEndOfFile ==
    /\ call.pc = "read"
    /\ pipe.errno = "none"
    /\ pipe.writers = {}
    /\ call' = Returned("pid", call.child_errno)
    /\ UNCHANGED <<proc, pipe>>

\* waitpid collects the zombie p; its record keeps the status.
Reap(p) == proc' = [proc EXCEPT ![p] = [@ EXCEPT !.state = "free", !.pending = {}]]

ReapFailed ==
    /\ call.pc = "reap"
    /\ call.pid \in Zombies
    /\ Reap(call.pid)
    /\ call' = Returned("error", call.child_errno)
    /\ UNCHANGED pipe

\* The caller of smallclueSpawn goes on with the result.
TakeResult ==
    /\ call.pc = "returned"
    /\ call' = [call EXCEPT !.pc = "idle"]
    /\ UNCHANGED pipe

\* setpgid(p, p) of the caller: the kernel refuses it once p has exec'd or ended.
SetpgidByCaller(p) ==
    proc' = [q \in AllPids |-> IF q = p /\ proc[q].state = "child"
                               THEN [proc[q] EXCEPT !.group = TRUE] ELSE proc[q]]

\* A waitpid of the caller of smallclueSpawn.
CallerReaps(p) ==
    /\ call.pc = "idle"
    /\ p \in Zombies
    /\ Reap(p)
    /\ UNCHANGED <<pipe, call>>

-----------------------------------------------------------------------------
(* The child. *)

JoinOwnGroup(p) ==
    /\ proc[p].state = "child"
    /\ proc[p].tried = 0
    /\ call.request.setpgid_self
    /\ ~ proc[p].group
    /\ proc' = [proc EXCEPT ![p].group = TRUE]
    /\ UNCHANGED <<pipe, call>>

TryFirstErrno(p) ==
    LET outcome == Attempts[proc[p].tried + 1]
    IN  /\ proc[p].state = "child"
        /\ proc[p].tried < Len(Attempts)
        /\ call.request.setpgid_self => proc[p].group
        /\ \/ /\ outcome = "runs"
              /\ proc' = [proc EXCEPT ![p].state = "program"]
              /\ pipe' = [pipe EXCEPT !.writers = @ \ {p}]
              /\ call' = [call EXCEPT !.execed = TRUE]
           \/ /\ outcome # "runs"
              /\ proc' = [proc EXCEPT ![p].tried = @ + 1,
                                      ![p].errno = IF outcome = "null" \/ proc[p].tried > 0
                                                          THEN @ ELSE outcome]
              /\ UNCHANGED <<pipe, call>>

\* One turn of the loop over the attempts.
Try(p) ==
    LET outcome == Attempts[proc[p].tried + 1]
    IN  /\ proc[p].state = "child"
        /\ proc[p].tried < Len(Attempts)
        /\ call.request.setpgid_self => proc[p].group
        /\ \/ /\ outcome = "runs"
              /\ proc' = [proc EXCEPT ![p].state = "program"]
              /\ pipe' = [pipe EXCEPT !.writers = @ \ {p}]
              /\ call' = [call EXCEPT !.execed = TRUE]
           \/ /\ outcome # "runs"
              /\ proc' = [proc EXCEPT ![p].tried = @ + 1,
                                      ![p].errno = IF outcome = "null" THEN @ ELSE outcome]
              /\ UNCHANGED <<pipe, call>>

WriteErrno(p) ==
    /\ proc[p].state = "child"
    /\ proc[p].tried = Len(Attempts)
    /\ pipe' = [pipe EXCEPT !.errno = proc[p].errno]
    /\ proc' = [proc EXCEPT ![p].state = "told"]
    /\ UNCHANGED call

\* The process p ends, and with it its copy of the write end.
End(p, status) ==
    /\ proc' = [proc EXCEPT ![p] = [@ EXCEPT !.state = "zombie", !.pending = {},
                                             !.status = status]]
    /\ pipe' = [pipe EXCEPT !.writers = @ \ {p}]
    /\ UNCHANGED call

ChildGivesUp(p) == proc[p].state = "told" /\ End(p, "127")

-----------------------------------------------------------------------------
(* The rest of the world. *)

ProgramExit(p) ==
    /\ proc[p].state = "program"
    /\ \E status \in {"ok", "fail"} : End(p, status)

\* KILL sent by somebody else.
KilledFromOutside(p) == p \in Living /\ End(p, "KILL")

\* A signal that the caller has sent arrives: KILL ends the process, TERM ends
\* it or is caught.
Deliver(p) ==
    /\ p \in Living
    /\ \/ "KILL" \in proc[p].pending /\ End(p, "KILL")
       \/ /\ "TERM" \in proc[p].pending
          /\ \/ End(p, "TERM")
             \/ /\ proc' = [proc EXCEPT ![p].pending = @ \ {"TERM"}]
                /\ UNCHANGED <<pipe, call>>

\* kill(-pgid, signal) or kill(-1, signal) of the caller: targets are the
\* processes it reaches.
SendSignal(targets, signal) ==
    /\ proc' = [p \in AllPids |->
                  IF p \in targets \cap Living
                  THEN [proc[p] EXCEPT !.pending = @ \cup {signal}]
                  ELSE proc[p]]
    /\ UNCHANGED pipe

Adopt(p) ==
    /\ proc[p].state = "free"
    /\ proc' = [proc EXCEPT ![p] = [NoProcess EXCEPT !.state = "program"]]
    /\ UNCHANGED <<pipe, call>>

-----------------------------------------------------------------------------
SpawnInit ==
    /\ proc = [p \in AllPids |-> NoProcess]
    /\ pipe = [writers |-> {}, errno |-> "none"]
    /\ call \in [pc : {"idle"}, request : Requests, pid : {0}, child_errno : {"inherited"},
                 result : {"none"}, execed : {FALSE}]

\* smallclueSpawn itself, once called.
Spawning ==
    \/ CheckRequest \/ OpenPipe \/ SetCloseOnExec \/ ForkFails \/ CloseWriteEnd
    \/ ReadErrno \/ ReadEndOfFile \/ ReapFailed
    \/ \E p \in Pids : Fork(p)

Child(p) == JoinOwnGroup(p) \/ Try(p) \/ WriteErrno(p) \/ ChildGivesUp(p)

World == \E p \in AllPids : ProgramExit(p) \/ KilledFromOutside(p) \/ Deliver(p)

\* What a caller may do to the variables of this module between two calls.
Caller ==
    \/ \E request \in Requests : Call(request)
    \/ /\ TakeResult
       /\ UNCHANGED proc \/ SetpgidByCaller(call.pid)
    \/ \E p \in AllPids : CallerReaps(p)
    \/ \E p \in Adopted : Adopt(p)
    \/ \E targets \in SUBSET AllPids, signal \in {"TERM", "KILL"} :
          /\ SendSignal(targets, signal)
          /\ UNCHANGED call

SpawnNext == Spawning \/ World \/ Caller \/ \E p \in Pids : Child(p)

SpawnSpec == SpawnInit /\ [][SpawnNext]_spawnVars

-----------------------------------------------------------------------------
SpawnTypeOK ==
    /\ proc \in [AllPids -> Processes]
    /\ pipe \in [writers : SUBSET (Pids \cup {Self}), errno : Errnos \cup {"none"}]
    /\ call \in Calls

\* The child of the call in progress and what it has told, for the proofs: a child
\* that still tries is the one in the making, holds the pipe and keeps it empty,
\* and an errno in the pipe comes from a child that will never be a program.
InTheMakingPc == {"close", "read", "reap"}
SpawnInv ==
    /\ SpawnTypeOK
    /\ call.pc \in InTheMakingPc =>
         call.pid \in Pids /\ proc[call.pid].state # "free"
    /\ call.pc \in {"check", "pipe", "cloexec", "fork"} => ~ call.execed
    /\ call.pc \in {"cloexec", "fork"} => pipe.errno = "none"
    /\ call.pc \in InTheMakingPc /\ pipe.errno # "none" => ~ call.execed
    /\ call.pc = "reap" => pipe.errno # "none"
    /\ \A p \in AllPids :
         proc[p].state \in {"child", "told"} =>
           /\ call.pc \in InTheMakingPc
           /\ p = call.pid
           /\ p \in pipe.writers
           /\ ~ call.execed
           /\ pipe.errno = "none" <=> proc[p].state = "child"

\* The child that the call in progress has forked and not yet handed over.
InTheMaking == IF call.pc \in InTheMakingPc THEN {call.pid} ELSE {}
Outcome == IF call.pc \in {"idle", "returned"} THEN call.result ELSE "calling"
Children == {p \in AllPids : proc[p].state # "free"} \ InTheMaking

\* spawn.h: -1 means that no attempt managed to exec, and then the caller has
\* no child to wait for; a pid is a new child of its own.
Promise == INSTANCE SpawnPromise WITH
    Pids <- AllPids, outcome <- Outcome, execed <- call.execed, children <- Children
KeepsPromise == Promise!Spec

\* spawn.h: when no attempt managed to exec, errno is from the last attempt.
LastErrno ==
    LET tried == {i \in 1 .. Len(Attempts) : Attempts[i] # "null"}
    IN  {Attempts[i] : i \in {j \in tried : \A k \in tried : k <= j}}
ErrnoFromLastAttempt ==
    call.pc = "returned" /\ call.result = "error" /\ call.pid # 0 /\ LastErrno # {}
        => call.child_errno \in LastErrno
=============================================================================
