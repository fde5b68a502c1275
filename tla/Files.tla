------------------------------- MODULE Files -------------------------------
(***************************************************************************)
(* A small tree of files under the commands that change files, and what    *)
(* can befall a command: a system call fails, or the process is killed     *)
(* between two of them.  Replace and Copy give the commands; a process     *)
(* here is a command with its state.                                       *)
(*                                                                         *)
(* The content of a file is a sequence of chunks, each with the set of     *)
(* commands that have edited it, so a file cut short is told from a whole  *)
(* one and an old one from a new one.  Output through stdio waits in a     *)
(* buffer; the write that empties it may fail where nobody looks           *)
(* (unnoticed).                                                            *)
(***************************************************************************)
EXTENDS Naturals, Sequences, FiniteSets

CONSTANTS
    Procs,      \* processes (strings), at most one command each
    Paths,      \* names, as sequences of strings
    Device,     \* [first names -> devices]
    Worlds,     \* what may be: the files at first and the commands that run,
                \* [files : ..., requests : [Procs -> requests]]
    Temp,       \* [Procs -> Paths]: what mkstemp names for each process
    MaxFaults   \* bound on the system calls that fail

ASSUME PathsAssumption == Paths \subseteq Seq(STRING)

Chunks == [id : Nat, by : SUBSET Procs, packed : BOOLEAN]

Empty == [kind |-> "file", data |-> <<>>]
Directory == [kind |-> "dir"]
LinkTo(path) == [kind |-> "link", to |-> path]
Fifo == [kind |-> "fifo"]

VARIABLES
    fs,         \* the files: a function from the paths that exist
    proc,       \* the state of each command
    lock,       \* who holds the lock of the password file
    faults,     \* system calls that have failed so far
    unnoticed,  \* processes that lost data to a failure the code does not look at (history)
    declined,   \* paths a user said not to remove (history)
    before      \* the files at first (history)

vars == <<fs, proc, lock, faults, unnoticed, declined, before>>

Nobody == "nobody"

\* req is the command; todo its operands still to come; into whether the
\* destination is a directory; src, dst what is being read and written; input
\* and pos the open input; buf what stdio has not written; stack the directories
\* being walked; ret the last result of a call; copied is set when mv goes on to
\* the removal.  done and stuck are history: the files replaced, and whether
\* something could not be unlinked.
NewProc(req) ==
    [pc |-> CASE req.tool = "none" -> "exit"
              [] req.tool \in {"cp", "mv", "ln"} -> "begin"
              [] OTHER -> "start",
     req |-> req, todo |-> req.operands, into |-> FALSE, src |-> <<>>, dst |-> <<>>,
     input |-> <<>>, pos |-> 1, buf |-> <<>>, stack |-> <<>>, ret |-> TRUE, status |-> 0,
     copied |-> FALSE, done |-> {}, stuck |-> FALSE]

Init ==
    /\ \E world \in Worlds :
         /\ fs = world.files /\ before = world.files
         /\ proc = [p \in Procs |-> NewProc(world.requests[p])]
    /\ lock = Nobody /\ faults = 0 /\ unnoticed = {} /\ declined = {}

Tool(p) == proc[p].req.tool
At(p, pc) == proc[p].pc = pc
Alive(p) == proc[p].pc \notin {"exit", "killed"}

-----------------------------------------------------------------------------
(* The file system.                                                        *)

Exists(path) == path \in DOMAIN fs
Is(path, kind) == Exists(path) /\ fs[path].kind = kind
IsDir(path) == Is(path, "dir")
Follow(path) == IF Is(path, "link") THEN fs[path].to ELSE path
Content(path) == IF Is(path, "file") THEN fs[path].data ELSE <<>>
Parent(path) == SubSeq(path, 1, Len(path) - 1)
Leaf(path) == path[Len(path)]
Within(path, d) == Len(path) >= Len(d) /\ SubSeq(path, 1, Len(d)) = d

\* A name can be made where its directory is one.
HasPlace(path) == path \in Paths /\ (Len(path) = 1 \/ IsDir(Parent(path)))

Entries(d) == {Leaf(path) : path \in {q \in DOMAIN fs : Len(q) = Len(d) + 1 /\ Within(q, d)}}

Put(path, node) == [q \in DOMAIN fs \cup {path} |-> IF q = path THEN node ELSE fs[q]]
Unlinked(path) == [q \in DOMAIN fs \ {path} |-> fs[q]]
Extended(path, chunks) ==
    IF Exists(path) THEN [fs EXCEPT ![path].data = @ \o chunks] ELSE fs

\* rename(2) of a file or of a tree, on one device, over what is there.
Rebased(path, from, to) == to \o SubSeq(path, Len(from) + 1, Len(path))
Renamed(from, to) ==
    LET here == {q \in DOMAIN fs : ~Within(q, to)}
        moved == {q \in here : Within(q, from)}
    IN  [q \in (here \ moved) \cup {Rebased(r, from, to) : r \in moved} |->
            IF Within(q, to) THEN fs[Rebased(q, to, from)] ELSE fs[q]]

SameDevice(a, b) == Device[a[1]] = Device[b[1]]

\* A system call that fails for a reason of its own.
Fault == faults < MaxFaults /\ faults' = faults + 1
NoFault == faults' = faults

\* The process is killed: its buffers are lost, the kernel drops its lock.
Killed(p) ==
    /\ Alive(p)
    /\ proc' = [proc EXCEPT ![p].pc = "killed"]
    /\ lock' = IF lock = p THEN Nobody ELSE lock
    /\ UNCHANGED <<fs, faults, unnoticed, declined, before>>
=============================================================================
