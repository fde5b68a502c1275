------------------------------ MODULE Supervise ------------------------------
(***************************************************************************)
(* The applets of src/src/core.c that start a child with smallclueSpawn    *)
(* and look after it: timeout, time, init and runit.  A step of an applet  *)
(* is a system call with the decision that follows it, so the child, the   *)
(* clock and the kernel come in between.                                   *)
(*                                                                         *)
(* Times are compared only with the two limits of timeout, so the clock    *)
(* counts ticks up to each of them: elapsed since the start, quiet since   *)
(* the time in signalSentAt, which is 0 and so long ago until it is set.   *)
(***************************************************************************)
EXTENDS Spawn

CONSTANTS
    Applets,      \* which of "timeout", "time", "init" and "runit" are run
    Duration,     \* ticks until the limit of timeout
    KillAfter,    \* ticks of -k DURATION
    Services      \* how many services runit finds

ASSUME SuperviseAssumption ==
    /\ Applets \subseteq {"timeout", "time", "init", "runit"}
    /\ Duration \in Nat
    /\ KillAfter \in Nat \ {0}
    /\ Services \in Nat

VARIABLES
    applet,       \* the applet that runs: its name, options and locals
    clock         \* CLOCK_MONOTONIC as far as timeout can tell

vars == <<proc, pipe, call, applet, clock>>

\* pid1: getpid() = 1; kill: -k was given; signal: -s; pid: the child; result:
\* the exit status; service: how many services runit has started.
AppletStates ==
    [name : Applets, pid1 : BOOLEAN, kill : BOOLEAN, preserve : BOOLEAN,
     signal : {"TERM", "KILL"}, pc : {"start", "spawning", "wait", "clock", "term", "kill", "done"},
     pid : Pids \cup {0}, timedOut : BOOLEAN, killSent : BOOLEAN,
     service : Nat, result : Statuses \cup {"none", "124", "125", "126"}]

\* since: history, ticks since the command of timeout was first signalled.
Clocks == [elapsed : 0 .. Duration, quiet : 0 .. KillAfter, since : 0 .. KillAfter]

AppletTypeOK == applet \in AppletStates /\ clock \in Clocks
TypeOK == SpawnTypeOK /\ AppletTypeOK

At(name, pc) == applet.name = name /\ applet.pc = pc
Go(pc) == applet' = [applet EXCEPT !.pc = pc]
Return(result) == applet' = [applet EXCEPT !.pc = "done", !.result = result]

RequestOfNoGroup(name) ==
    {r \in Requests :
        /\ ~ r.setpgid_self
        /\ name = "init" \/ Len(r.attempts) = 1
        /\ "null" \notin {r.attempts[i] : i \in DOMAIN r.attempts}}

\* What the applets ask smallclueSpawn for.
RequestOf(name) ==
    {r \in Requests :
        /\ r.setpgid_self <=> name = "timeout"
        /\ name = "init" \/ Len(r.attempts) = 1
        /\ "null" \notin {r.attempts[i] : i \in DOMAIN r.attempts}}

StartSpawn ==
    /\ applet.pc = "start"
    /\ applet.name = "runit" => applet.service < Services
    /\ \E request \in RequestOf(applet.name) : Call(request)
    /\ Go("spawning")
    /\ UNCHANGED clock

Failed == applet.pc = "spawning" /\ call.result = "error" /\ TakeResult
Started == applet.pc = "spawning" /\ call.result = "pid" /\ TakeResult

-----------------------------------------------------------------------------
(* timeout *)

TimeoutFailed ==
    /\ applet.name = "timeout"
    /\ Failed
    /\ Return("125")
    /\ UNCHANGED <<proc, clock>>

\* setpgid of the parent is refused once the child has become a program.
TimeoutStarted ==
    /\ applet.name = "timeout"
    /\ Started
    /\ SetpgidByCaller(call.pid)
    /\ applet' = [applet EXCEPT !.pc = "wait", !.pid = call.pid]
    /\ clock' = [clock EXCEPT !.elapsed = 0]

CommandStatusNotPreserved(p) ==
    IF applet.timedOut THEN "124" ELSE proc[p].status

CommandStatus(p) ==
    IF applet.timedOut /\ ~ applet.preserve THEN "124" ELSE proc[p].status

TimeoutPollEnded ==
    /\ At("timeout", "wait")
    /\ CallerReaps(applet.pid)
    /\ Return(CommandStatus(applet.pid))
    /\ UNCHANGED clock

TimeoutPollRunning ==
    /\ At("timeout", "wait")
    /\ applet.pid \notin Zombies
    /\ Go("clock")
    /\ UNCHANGED <<spawnVars, clock>>

\* kill(-pid, ..) reaches the group that pid leads, if there is one.
SignalGroup(signal) ==
    SendSignal({p \in AllPids : p = applet.pid /\ proc[p].group}, signal)

TimeoutExpireUnstamped ==
    /\ At("timeout", "clock")
    /\ ~ applet.timedOut
    /\ clock.elapsed >= Duration
    /\ SignalGroup(applet.signal)
    /\ applet' = [applet EXCEPT !.pc = "wait", !.timedOut = TRUE]
    /\ clock' = [clock EXCEPT !.since = 0]
    /\ UNCHANGED call

TimeoutExpire ==
    /\ At("timeout", "clock")
    /\ ~ applet.timedOut
    /\ clock.elapsed >= Duration
    /\ SignalGroup(applet.signal)
    /\ applet' = [applet EXCEPT !.pc = "wait", !.timedOut = TRUE]
    /\ clock' = [clock EXCEPT !.quiet = 0, !.since = 0]
    /\ UNCHANGED call

GraceOver == applet.kill /\ ~ applet.killSent /\ clock.quiet >= KillAfter

TimeoutEscalate ==
    /\ At("timeout", "clock")
    /\ applet.timedOut
    /\ GraceOver
    /\ SignalGroup("KILL")
    /\ applet' = [applet EXCEPT !.pc = "wait", !.killSent = TRUE]
    /\ UNCHANGED <<call, clock>>

TimeoutSleep ==
    /\ At("timeout", "clock")
    /\ IF applet.timedOut THEN ~ GraceOver ELSE clock.elapsed < Duration
    /\ Go("wait")
    /\ UNCHANGED <<spawnVars, clock>>

Timeout ==
    \/ TimeoutFailed \/ TimeoutStarted \/ TimeoutPollEnded \/ TimeoutPollRunning
    \/ TimeoutExpire \/ TimeoutEscalate \/ TimeoutSleep

UptoLate(n, limit) == IF n <= limit THEN n + 1 ELSE limit

Upto(n, limit) == IF n < limit THEN n + 1 ELSE limit

Tick ==
    /\ applet.name = "timeout"
    /\ applet.pc \in {"wait", "clock"}
    /\ clock' = [elapsed |-> Upto(clock.elapsed, Duration),
                 quiet |-> Upto(clock.quiet, KillAfter),
                 since |-> Upto(clock.since, KillAfter)]
    /\ clock' # clock
    /\ UNCHANGED <<spawnVars, applet>>

-----------------------------------------------------------------------------
(* time *)

TimeFailed ==
    /\ applet.name = "time"
    /\ Failed
    /\ Return(IF call.child_errno = "ENOENT" THEN "127" ELSE "126")
    /\ UNCHANGED <<proc, clock>>

TimeStarted ==
    /\ applet.name = "time"
    /\ Started
    /\ applet' = [applet EXCEPT !.pc = "wait", !.pid = call.pid]
    /\ UNCHANGED <<proc, clock>>

TimeWait ==
    /\ At("time", "wait")
    /\ CallerReaps(applet.pid)
    /\ Return(proc[applet.pid].status)
    /\ UNCHANGED clock

Time == TimeFailed \/ TimeStarted \/ TimeWait

-----------------------------------------------------------------------------
(* init *)

NoRc ==
    /\ At("init", "start")
    /\ Go("term")
    /\ UNCHANGED <<spawnVars, clock>>

RcFailed ==
    /\ applet.name = "init"
    /\ Failed
    /\ Go("term")
    /\ UNCHANGED <<proc, clock>>

RcStarted ==
    /\ applet.name = "init"
    /\ Started
    /\ applet' = [applet EXCEPT !.pc = "wait", !.pid = call.pid]
    /\ UNCHANGED <<proc, clock>>

InitReapAny(p) ==
    /\ At("init", "wait")
    /\ CallerReaps(p)
    /\ Go("term")
    /\ UNCHANGED clock

InitReapRcOnly(p) ==
    /\ At("init", "wait")
    /\ p = applet.pid
    /\ CallerReaps(p)
    /\ Go("term")
    /\ UNCHANGED clock

\* waitpid(-1, ..) returns any child that has ended.
InitReap(p) ==
    /\ At("init", "wait")
    /\ CallerReaps(p)
    /\ IF p = applet.pid THEN Go("term") ELSE UNCHANGED applet
    /\ UNCHANGED clock

Shutdown(from, signal, to) ==
    /\ At("init", from)
    /\ IF applet.pid1 THEN SendSignal(AllPids, signal) ELSE UNCHANGED <<proc, pipe>>
    /\ Go(to)
    /\ UNCHANGED <<call, clock>>

Init1 == Shutdown("term", "TERM", "kill") \/ Shutdown("kill", "KILL", "done")

InitApplet == NoRc \/ RcFailed \/ RcStarted \/ (\E p \in AllPids : InitReap(p)) \/ Init1

-----------------------------------------------------------------------------
(* runit *)

ServiceTried ==
    /\ applet.name = "runit"
    /\ Failed \/ Started
    /\ applet' = [applet EXCEPT !.pc = "start", !.service = @ + 1]
    /\ UNCHANGED <<proc, clock>>

AllTried ==
    /\ At("runit", "start")
    /\ applet.service = Services
    /\ Go("wait")
    /\ UNCHANGED <<spawnVars, clock>>

RunitReap(p) ==
    /\ At("runit", "wait")
    /\ CallerReaps(p)
    /\ UNCHANGED <<applet, clock>>

Runit == ServiceTried \/ AllTried \/ \E p \in AllPids : RunitReap(p)

-----------------------------------------------------------------------------
(* An orphan reaches the applet only when it is pid 1. *)
OrphanArrives ==
    /\ applet.name \in {"init", "runit"}
    /\ applet.pid1
    /\ applet.pc # "done"
    /\ \E p \in Adopted : Adopt(p)
    /\ UNCHANGED <<applet, clock>>

Init ==
    /\ SpawnInit
    /\ applet \in [name : Applets, pid1 : BOOLEAN, kill : BOOLEAN, preserve : BOOLEAN,
                   signal : {"TERM", "KILL"}, pc : {"start"}, pid : {0},
                   timedOut : {FALSE}, killSent : {FALSE}, service : {0}, result : {"none"}]
    /\ applet.pid1 => applet.name \in {"init", "runit"}
    /\ applet.name # "timeout" => ~ applet.kill /\ ~ applet.preserve /\ applet.signal = "TERM"
    /\ clock = [elapsed |-> 0, quiet |-> KillAfter, since |-> 0]

Applet == StartSpawn \/ Timeout \/ Time \/ InitApplet \/ Runit

Quiet == UNCHANGED <<applet, clock>>

Next ==
    \/ Applet
    \/ Spawning /\ Quiet
    \/ (\E p \in Pids : Child(p)) /\ Quiet
    \/ World /\ Quiet
    \/ Tick
    \/ OrphanArrives

\* The caller and the child run; the kernel delivers signals, time passes, and
\* wait(2) returns every child that has ended at some time: it goes through the
\* children in order.  Nothing makes a program end by itself.
Fairness ==
    /\ WF_vars(StartSpawn \/ Timeout \/ Time \/ NoRc \/ RcFailed \/ RcStarted \/ Init1
               \/ ServiceTried \/ AllTried)
    /\ WF_vars(Spawning /\ Quiet)
    /\ WF_vars(Tick)
    /\ \A p \in Pids : WF_vars(Child(p) /\ Quiet)
    /\ \A p \in AllPids : /\ WF_vars(Deliver(p) /\ Quiet)
                          /\ WF_vars(InitReap(p) \/ RunitReap(p))

Spec == Init /\ [][Next]_vars /\ Fairness

-----------------------------------------------------------------------------
\* smallclueSpawn comes back whatever its child does before it is a program.
SpawnReturns == call.pc = "check" ~> call.pc = "returned"

\* timeout: "escalating to KILL after --kill-after if it's still alive": the
\* command is never signalled before the limit, and never killed before the
\* grace period that follows its first signal is over.
GraceRespected ==
    [][\A p \in AllPids :
         /\ At("timeout", "clock")
         /\ proc'[p].pending # proc[p].pending /\ proc'[p].state = proc[p].state
         /\ applet' # applet
         => IF applet.timedOut THEN clock.since >= KillAfter /\ "KILL" \in proc'[p].pending
                               ELSE clock.elapsed >= Duration]_vars

\* timeout and time return when their child has been reaped, and report how it
\* ended; 124 says that it was signalled for running over its limit.
ReportsItsChild ==
    applet.pc = "done" /\ applet.pid # 0 /\ applet.name \in {"timeout", "time"}
        => /\ proc[applet.pid].state = "free"
           /\ applet.result = IF applet.timedOut /\ ~ applet.preserve
                              THEN "124" ELSE proc[applet.pid].status

\* A timeout that kills comes back, whatever its command does with other signals.
TimeoutEnds ==
    At("timeout", "wait") /\ (applet.kill \/ applet.signal = "KILL") ~> At("timeout", "done")

\* init: "keep looping past any non-rc child until we see rc's own pid": the
\* shutdown begins only when the rc it started has ended.
RcEndsBeforeShutdown ==
    applet.name = "init" /\ applet.pc \in {"term", "kill"} /\ applet.pid # 0
        => proc[applet.pid].state = "free"

\* init: "every orphan that exits while rc runs gets reaped as it happens", and
\* the same for runit once it has tried its services.
NoLastingZombie ==
    \A p \in AllPids :
        p \in Zombies /\ applet.name \in {"init", "runit"} /\ applet.pc = "wait"
            ~> p \notin Zombies \/ applet.pc # "wait"

\* Nothing supervises for ever: a spawn comes back, a timeout that kills ends,
\* and init and runit reap every orphan.
SupervisionEnds == SpawnReturns /\ TimeoutEnds /\ NoLastingZombie

\* What the proofs need beyond the types: smallclueSpawn runs only while an
\* applet waits for it, and both clocks start with the first signal.
SuperviseInv ==
    /\ applet.pc # "spawning" => call.pc = "idle"
    /\ applet.pc \in {"start", "spawning"} => applet.pid = 0
    /\ applet.timedOut => applet.name = "timeout" /\ clock.quiet = clock.since
    /\ ReportsItsChild
    /\ RcEndsBeforeShutdown
=============================================================================
