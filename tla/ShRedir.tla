------------------------------ MODULE ShRedir ------------------------------
(***************************************************************************)
(* The redirections of commands that the shell runs in its own process     *)
(* (sh_exec.c, 272-508): builtins, functions, groups, loops, subshells     *)
(* before the fork.  A descriptor is copied to a high number, the file is  *)
(* put in its place, and when the command ends the copies go back, the     *)
(* last one first; exec throws the copies away instead.                    *)
(*                                                                         *)
(* A step is one redirection applied or one copy put back.  fds is the     *)
(* descriptor table of the process.  Of a command under way, before,       *)
(* execed and loose are history: the table when it began, and since then   *)
(* the descriptors that exec changed, and those that were closed and where *)
(* open put the file of their own redirection.                             *)
(***************************************************************************)
EXTENDS Integers, Sequences, FiniteSetsExt

CONSTANTS
    LastFd,      \* the highest descriptor of the process
    SaveBase,    \* copies are made from this number on: 10
    Standard,    \* the descriptors that are open when the shell starts
    Targets,     \* the descriptors that commands redirect
    Sources,     \* the descriptors that >& names
    MaxRedirs,   \* how many redirections a command has
    MaxDepth,  \* how deep commands nest
    MaxCommands  \* how many commands the script has

Fds == 0 .. LastFd
CommandKinds == {"builtin", "compound", "exec"}

ASSUME RedirAssumption ==
    /\ LastFd \in Nat /\ SaveBase \in 1 .. LastFd /\ MaxDepth \in Nat /\ MaxCommands \in Nat
    /\ Standard \subseteq 0 .. SaveBase - 1
    /\ Targets \cup Sources \subseteq Fds
    /\ MaxRedirs \in Nat

\* A copy can always be made: the descriptors from SaveBase on are more than
\* commands redirect there and nested commands have copies.  (saveFd does not tell
\* a descriptor that it could not copy from one that was closed.)
ASSUME RoomAssumption ==
    Cardinality(Targets \cap (SaveBase .. LastFd)) + MaxDepth * MaxRedirs < LastFd - SaveBase + 1

VARIABLES
    fds,      \* what each descriptor stands for, or "closed"
    commands, \* those under way, the innermost last
    begun     \* how many commands have begun

redirVars == <<fds, commands, begun>>

Files == {"terminal", "file"}
Closed == "closed"

-----------------------------------------------------------------------------
(* The kernel: the lowest descriptor that is free.                         *)

Free(t, from) == {d \in from .. LastFd : t[d] = Closed}
\* fcntl(F_DUPFD), open and dup: -1 when there is none.
Lowest(t, from) == IF Free(t, from) = {} THEN -1 ELSE Min(Free(t, from))

-----------------------------------------------------------------------------
Innermost == commands[Len(commands)]
Doing(step) == commands # <<>> /\ Innermost.step = step
Replace(frame) == commands' = [commands EXCEPT ![Len(commands)] = frame]

\* A command begins: applyRedirections.
Start(kind) ==
    /\ commands # <<>> => Doing("runs") /\ Innermost.kind = "compound"
    /\ Len(commands) < MaxDepth
    /\ begun < MaxCommands
    /\ begun' = begun + 1
    /\ commands' = Append(commands, [kind |-> kind, step |-> "applies",
                                 saved |-> <<>>, before |-> fds, execed |-> {}, loose |-> {}])
    /\ UNCHANGED fds

\* The command has another redirection, of io.  (exec is not asked to change the
\* descriptors where the copies are.)
Redirects(io) ==
    /\ Doing("applies")
    /\ Len(Innermost.saved) < MaxRedirs
    /\ Innermost.kind = "exec" => io < SaveBase

\* saveFd, when the descriptors are t: the entry, and the table with the copy.
Save(t, io) == [fd |-> io, saved |-> IF t[io] = Closed THEN -1 ELSE Lowest(t, SaveBase)]

WithCopy(t, entry) ==
    IF entry.saved = -1 THEN t ELSE [t EXCEPT ![entry.saved] = t[entry.fd]]

\* Slip: the copies are put back in the order they were made.
SavedAtTail(command, entry) == [command EXCEPT !.saved = Append(@, entry)]

\* The new entry is the head of the list.
Saved(command, entry) == [command EXCEPT !.saved = <<entry>> \o @]

\* The new file is at fd: save io, move the file there.
MoveTo(file, fd, io) ==
    LET opened == [fds EXCEPT ![fd] = file]
        entry == Save(opened, io)
        copied == WithCopy(opened, entry)
    IN  /\ fds' = IF fd = io THEN copied ELSE [copied EXCEPT ![io] = file, ![fd] = Closed]
        /\ Replace([Saved(Innermost, entry) EXCEPT !.loose = @ \cup ({fd} \cap {io})])
        /\ UNCHANGED begun

OpenFile(io) ==
    /\ Redirects(io)
    /\ Lowest(fds, 0) # -1
    /\ MoveTo("file", Lowest(fds, 0), io)

\* contentToFd: the descriptor of the temporary file's stream is copied, and
\* the stream is closed.
HereDocument(io) ==
    /\ Redirects(io)
    /\ LET stream == Lowest(fds, 0) IN
        /\ stream # -1
        /\ LET fd == Lowest([fds EXCEPT ![stream] = "file"], 0) IN
            /\ fd # -1
            /\ MoveTo("file", fd, io)

CloseFd(io) ==
    /\ Redirects(io)
    /\ LET entry == Save(fds, io) IN
        /\ fds' = [WithCopy(fds, entry) EXCEPT ![io] = Closed]
        /\ Replace(Saved(Innermost, entry))
    /\ UNCHANGED begun

DupFd(io, src) ==
    /\ Redirects(io)
    /\ LET entry == Save(fds, io)
           copied == WithCopy(fds, entry)
       IN  /\ copied[src] # Closed
           /\ fds' = [copied EXCEPT ![io] = copied[src]]
           /\ Replace(Saved(Innermost, entry))
    /\ UNCHANGED begun

\* dup2 of a closed descriptor: the copy has been made, and the command is not run.
DupFails(io, src) ==
    /\ Redirects(io)
    /\ LET entry == Save(fds, io) IN
        /\ WithCopy(fds, entry)[src] = Closed
        /\ fds' = WithCopy(fds, entry)
        /\ Replace([Saved(Innermost, entry) EXCEPT !.step = "restores"])
    /\ UNCHANGED begun

\* The file cannot be opened, or there is no descriptor for it: the redirections
\* before it are undone and the command is not run.
OpenFails ==
    /\ \E io \in Targets : Redirects(io)
    /\ Replace([Innermost EXCEPT !.step = "restores"])
    /\ UNCHANGED <<fds, begun>>

Entries == {Innermost.saved[i] : i \in 1 .. Len(Innermost.saved)}

Run ==
    /\ Doing("applies")
    /\ Replace([Innermost EXCEPT !.step = "runs"])
    /\ UNCHANGED <<fds, begun>>

\* exec without a command, and exec whose command is not there, keep the
\* redirections of exec.
Finish ==
    /\ Doing("runs")
    /\ Replace(IF Innermost.kind = "exec"
               THEN [Innermost EXCEPT !.step = "discards", !.execed = {e.fd : e \in Entries}]
               ELSE [Innermost EXCEPT !.step = "restores"])
    /\ UNCHANGED <<fds, begun>>

Drop == Replace([Innermost EXCEPT !.saved = Tail(@)])

\* One turn of restoreFds.
RestoreFd ==
    /\ Doing("restores") /\ Innermost.saved # <<>>
    /\ LET entry == Head(Innermost.saved) IN
        fds' = IF entry.saved = -1 THEN [fds EXCEPT ![entry.fd] = Closed]
               ELSE [fds EXCEPT ![entry.fd] = IF fds[entry.saved] = Closed THEN @ ELSE fds[entry.saved],
                                ![entry.saved] = Closed]
    /\ Drop
    /\ UNCHANGED begun

\* One turn of discardSavedFds.
DiscardFd ==
    /\ Doing("discards") /\ Innermost.saved # <<>>
    /\ LET entry == Head(Innermost.saved) IN
        fds' = IF entry.saved = -1 THEN fds ELSE [fds EXCEPT ![entry.saved] = Closed]
    /\ Drop
    /\ UNCHANGED begun

\* The command is over; what it changed for good, it changed within the command
\* around it.
Around(outer, inner) ==
    [outer EXCEPT !.execed = @ \cup inner.execed, !.loose = @ \cup inner.loose]

Over == commands # <<>> /\ Innermost.step \in {"restores", "discards"} /\ Innermost.saved = <<>>
End ==
    /\ Over
    /\ LET rest == SubSeq(commands, 1, Len(commands) - 1) IN
        commands' = IF rest = <<>> THEN rest
                  ELSE [rest EXCEPT ![Len(rest)] = Around(@, Innermost)]
    /\ UNCHANGED <<fds, begun>>

-----------------------------------------------------------------------------
RedirInit ==
    /\ fds = [d \in Fds |-> IF d \in Standard THEN "terminal" ELSE Closed]
    /\ commands = <<>>
    /\ begun = 0

RedirNext ==
    \/ \E kind \in CommandKinds : Start(kind)
    \/ \E io \in Targets : \/ OpenFile(io) \/ HereDocument(io) \/ CloseFd(io)
                            \/ \E src \in Sources : DupFd(io, src) \/ DupFails(io, src)
    \/ OpenFails \/ Run \/ Finish \/ RestoreFd \/ DiscardFd \/ End

RedirSpec == RedirInit /\ [][RedirNext]_redirVars

-----------------------------------------------------------------------------
(* Properties.                                                             *)

RedirTypeOK ==
    /\ fds \in [Fds -> Files \cup {Closed}]
    /\ Len(commands) <= MaxDepth /\ begun <= MaxCommands
    /\ \A i \in 1 .. Len(commands) :
        /\ commands[i].kind \in CommandKinds
        /\ commands[i].step \in {"applies", "runs", "restores", "discards"}
        /\ commands[i].saved \in Seq([fd : Fds, saved : -1 .. LastFd])
        /\ commands[i].before \in [Fds -> Files \cup {Closed}]
        /\ commands[i].execed \cup commands[i].loose \subseteq Fds

\* "`exec` redirections persist in the shell; everything else restores": when a
\* command is over, also one whose redirections failed half way, every
\* descriptor stands for what it stood for before, and no copy is left open;
\* but for what exec changed in it, and for a file that open put by chance at
\* the very number it was wanted at, which the code saves as if it had been there.
DescriptorsRestored ==
    /\ RedirTypeOK
    /\ Over => \A d \in Fds \ (Innermost.execed \cup Innermost.loose) : fds[d] = Innermost.before[d]

\* The same with only the exception that the comment makes.
EverythingElseRestores ==
    Over => \A d \in Fds \ Innermost.execed : fds[d] = Innermost.before[d]
=============================================================================
