------------------------------ MODULE Commands ------------------------------
(***************************************************************************)
(* The commands that change files, side by side, and what may not be lost. *)
(***************************************************************************)
EXTENDS Replace, Copy

Next == ReplaceNext \/ CopyNext \/ \E p \in Procs : Killed(p)

Spec == Init /\ [][Next]_vars

-----------------------------------------------------------------------------
FilesTypeOK ==
    /\ DOMAIN fs \subseteq Paths
    /\ \A path \in DOMAIN fs :
         /\ fs[path].kind \in {"file", "dir", "link", "fifo"}
         /\ \A i \in 1 .. Len(Content(path)) : Content(path)[i] \in Chunks
    /\ lock \in Procs \cup {Nobody}
    /\ faults \in 0 .. MaxFaults
    /\ unnoticed \subseteq Procs /\ declined \subseteq Paths
    /\ \A p \in Procs :
         /\ proc[p].status \in {0, 1} /\ proc[p].pos \in 1 .. Len(proc[p].input) + 1
         /\ {proc[p].ret, proc[p].copied, proc[p].stuck} \subseteq BOOLEAN

\* The files that a request names.
Asked(request) == {request.operands[i] : i \in 1 .. Len(request.operands)}
Operands(p) == Asked(proc[p].req)

-----------------------------------------------------------------------------
(* Editing implements AtomicEdit.                                          *)

EditTools == {"sed", "patch", "passwd"}

\* The files that some command is asked to edit.
Goals(requests) ==
    UNION {Asked(requests[p]) : p \in {q \in Procs : requests[q].tool \in EditTools}}

\* Each command names files that have a text, and the password file is for passwd.
Editable(files, requests) ==
    /\ DOMAIN files \subseteq Paths
    /\ \A p \in Procs :
         /\ requests[p].tool \in EditTools \cup {"none"}
         /\ requests[p].operands \in Seq(Paths)
         /\ requests[p].tool = "passwd" => requests[p].operands = <<Shadow>>
         /\ requests[p].tool \in {"sed", "patch"} => Shadow \notin Asked(requests[p])
    /\ \A t \in Goals(requests) :
         /\ t \in DOMAIN files /\ files[t] = [kind |-> "file", data |-> files[t].data]
         /\ files[t].data \in Seq(Chunks) /\ files[t].data # <<>>
         /\ \A i \in 1 .. Len(files[t].data) : files[t].data[i].by = {}

\* mkstemp gives a new name, and nobody edits a temporary file, a backup or a directory.
NamesApart(requests) ==
    LET names == Goals(requests) \cup {Backup(t) : t \in Goals(requests)}
                    \cup {Temp[p] : p \in Procs} \cup {ShadowTmp}
    IN  /\ \A path \in Paths : \A n \in names : Within(path, n) => path = n
        /\ \A t \in Goals(requests) :
             /\ t \notin {Temp[p] : p \in Procs} \cup {ShadowTmp}
             /\ t # Shadow => Backup(t) \in Paths
             /\ Backup(t) \notin Goals(requests) \cup {Temp[p] : p \in Procs} \cup {ShadowTmp}
             /\ \A u \in Goals(requests) : Backup(u) = Backup(t) => u = t
        /\ \A p \in Procs :
             /\ Temp[p] \in Paths /\ Temp[p] # ShadowTmp
             /\ \A q \in Procs : Temp[q] = Temp[p] => q = p
        /\ ShadowTmp \in Paths

\* Editors run among themselves, or commands of the other kinds do.
ASSUME WorldsAssumption ==
    /\ Procs \cap {Nobody, "none", "broken"} = {}
    /\ \A world \in Worlds :
         \/ \A p \in Procs : world.requests[p].tool \notin EditTools
         \/ Editable(world.files, world.requests) /\ NamesApart(world.requests)

Edited == Goals([p \in Procs |-> proc[p].req])

\* A content is whole when every chunk is there, each with the same edits, or,
\* in the password file, each with those of its user.
WholeText(t, data) ==
    /\ Len(data) = Len(before[t].data)
    /\ \A i \in 1 .. Len(data) :
         /\ data[i].id = before[t].data[i].id
         /\ t # Shadow => data[i].by = data[1].by
Broken == {"broken"}
Version(t, data) ==
    IF WholeText(t, data) THEN UNION {data[i].by : i \in 1 .. Len(data)} ELSE Broken

\* Between the two renames of sed -iSUFFIX the file is under its other name.
Current(t) ==
    IF t \notin Edited THEN {}
    ELSE IF Exists(t) THEN Version(t, Content(t))
    ELSE IF Exists(Backup(t)) THEN Version(t, Content(Backup(t)))
    ELSE Broken

Editing(p) ==
    Tool(p) \in EditTools
    /\ proc[p].pc \in {"temp", "stream", "close", "backup", "replace", "discard"}

Result(p) ==
    IF Tool(p) \notin EditTools \/ proc[p].pc \notin {"exit", "killed"} THEN "running"
    ELSE IF At(p, "killed") THEN "killed"
    ELSE IF proc[p].status = 0 THEN "ok" ELSE "failed"

Promise == INSTANCE AtomicEdit WITH
    Editors <- Procs,
    Targets <- Paths,
    None <- {"none"},
    Broken <- Broken,
    current <- [t \in Paths |-> Current(t)],
    copy <- [p \in Procs |-> IF Editing(p) THEN Version(proc[p].src, proc[p].input) ELSE {"none"}],
    target <- [p \in Procs |-> IF Tool(p) \in EditTools THEN proc[p].src ELSE <<>>],
    asked <- [p \in Procs |-> [files |-> IF Tool(p) \in EditTools THEN Operands(p) ELSE {},
                               exclusive |-> Tool(p) = "passwd"]],
    done <- [p \in Procs |-> proc[p].done],
    result <- [p \in Procs |-> Result(p)]

\* sed -i, patch and passwd replace a file at once or not at all, whatever
\* fails or is killed and whoever else edits it; they report success when they
\* have, and no passwd undoes another's.
EditsAreAtomic == Promise!Spec

-----------------------------------------------------------------------------
(* Copying and removing.                                                   *)

Was(path, kind) == path \in DOMAIN before /\ before[path].kind = kind
Texts(s) == {path \in DOMAIN before : Within(path, s) /\ (Was(path, "file") \/ Was(path, "link"))}
Final(p, s) ==
    IF Was(proc[p].req.dest, "dir") THEN Append(proc[p].req.dest, Leaf(s)) ELSE proc[p].req.dest
Moved(p, s, path) == Rebased(path, s, Final(p, s))
Kept(path) == Exists(path) /\ fs[path] = before[path]

\* copy holds the text of path, where a link that is an operand of cp or mv may
\* have become the file that it names.
Holds(copy, path) ==
    /\ Exists(copy)
    /\ \/ fs[copy] = before[path]
       \/ Was(path, "link") /\ Is(copy, "file") /\ fs[copy] = before[before[path].to]

Converted(p, f) ==
    LET text == before[Source(p, f)].data
    IN  Content(Target(p, f)) = [i \in 1 .. Len(text) |-> [text[i] EXCEPT !.packed = (Tool(p) = "gzip")]]

\* No text disappears while mv, gzip or gunzip makes another of it: at every
\* moment, and so after any failure or a kill, one of the two is whole.  What
\* the user of rm said not to remove is there.
NothingLost ==
    /\ FilesTypeOK
    /\ \A p \in Procs :
         /\ Tool(p) \in {"mv", "cp"} =>
              \A s \in Operands(p) : \A path \in Texts(s) :
                 Kept(path) \/ (Tool(p) = "mv" /\ Holds(Moved(p, s, path), path))
         /\ Tool(p) \in Gzips /\ p \notin unnoticed =>
              \A f \in Operands(p) : Was(Source(p, f), "file") =>
                 Kept(Source(p, f)) \/ Converted(p, f)
    /\ \A path \in declined : Exists(path)

\* A command that exits 0 has done what it was asked, except for what the user
\* declined, what -f hides and what -n, -i and -u left.
SuccessIsDone ==
    \A p \in Procs : At(p, "exit") /\ proc[p].status = 0 =>
        /\ Tool(p) \in {"cp", "mv"} =>
             \A s \in Operands(p) : \A path \in Texts(s) :
                \/ Holds(Moved(p, s, path), path)
                \/ /\ Tool(p) = "mv" /\ (proc[p].req.keep \/ proc[p].req.asks)
                   /\ Final(p, s) \in DOMAIN before
        /\ Tool(p) \in Gzips /\ p \notin unnoticed =>
             \A f \in Operands(p) : Converted(p, f)
        /\ Tool(p) = "rm" /\ ~proc[p].req.force =>
             \A s \in Operands(p) : ~Exists(s) \/ \E path \in declined : Within(path, s)
        /\ Tool(p) = "ln" => \A s \in Operands(p) : Is(Final(p, s), "link") /\ Follow(Final(p, s)) = s

\* Commands that end by themselves leave no temporary file and no part of a
\* copy, unless it cannot be unlinked.
CleanUp ==
    (\A p \in Procs : At(p, "exit") /\ ~proc[p].stuck) =>
        /\ ~Exists(ShadowTmp)
        /\ \A p \in Procs :
             /\ ~Exists(Temp[p])
             /\ Tool(p) \in {"cp", "mv"} =>
                  \A s \in Operands(p) : \A path \in Texts(s) :
                     LET copy == Moved(p, s, path)
                     IN  Exists(copy) => (copy \in DOMAIN before /\ Kept(copy)) \/ Holds(copy, path)

\* What a command did not do it undid: it did what its status says, and the
\* files it made on the way are gone.
DoneOrUndone == SuccessIsDone /\ CleanUp
=============================================================================
