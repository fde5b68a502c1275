---------------------------- MODULE SpawnPromise ----------------------------
(***************************************************************************)
(* What src/src/spawn.h promises a caller of smallclueSpawn: -1 means that *)
(* no attempt managed to exec, and then there is no child to wait for; a   *)
(* pid is a child of the caller, which the caller waits for itself.        *)
(***************************************************************************)
CONSTANT Pids

VARIABLES
    outcome,      \* of the last call: "none", "calling", "pid", "error"
    execed,       \* an attempt of the last call has become a program
    children      \* the children the caller may wait for

vars == <<outcome, execed, children>>

Init ==
    /\ outcome = "none"
    /\ execed = FALSE
    /\ children = {}

Call ==
    /\ outcome # "calling"
    /\ outcome' = "calling"
    /\ execed' = FALSE
    /\ UNCHANGED children

Exec ==
    /\ outcome = "calling"
    /\ execed' = TRUE
    /\ UNCHANGED <<outcome, children>>

ReturnPid(p) ==
    /\ outcome = "calling"
    /\ p \notin children
    /\ outcome' = "pid"
    /\ children' = children \cup {p}
    /\ UNCHANGED execed

ReturnError ==
    /\ outcome = "calling"
    /\ ~ execed
    /\ outcome' = "error"
    /\ UNCHANGED <<execed, children>>

Wait(p) ==
    /\ outcome # "calling"
    /\ p \in children
    /\ children' = children \ {p}
    /\ UNCHANGED <<outcome, execed>>

\* A process whose parent ended becomes a child of pid 1.
Adopt(p) ==
    /\ p \notin children
    /\ children' = children \cup {p}
    /\ UNCHANGED <<outcome, execed>>

Next ==
    \/ Call
    \/ Exec
    \/ ReturnError
    \/ \E p \in Pids : ReturnPid(p) \/ Wait(p) \/ Adopt(p)

Spec == Init /\ [][Next]_vars
=============================================================================
