-------------------------- MODULE Commands_proofs --------------------------
(***************************************************************************)
(* sed -i, patch and passwd implement AtomicEdit, for any number of them   *)
(* side by side, any files and any text, whatever fails or is killed.      *)
(*                                                                         *)
(* The invariant says of an editor what its temporary file holds: as long  *)
(* as nothing was lost unnoticed, the edit of what it has read so far      *)
(* (WrittenSoFar).  A file other than the password file always has the     *)
(* same edits in all its parts (Uniform), since an editor edits them all.  *)
(* passwd edits only what is its own, and relies on its lock: while it has *)
(* it, the password file is what it has read (HasShadow).                  *)
(***************************************************************************)
EXTENDS Commands, TLAPS, SequenceTheorems

-----------------------------------------------------------------------------
(* The invariant.                                                          *)

Places(tool) ==
    CASE tool = "sed" -> {"start", "temp", "stream", "close", "backup", "replace", "discard"}
      [] tool = "patch" -> {"start", "temp", "stream", "replace", "discard"}
      [] tool = "passwd" -> {"start", "ask", "temp", "stream", "close", "replace", "unlock", "discard"}
      [] OTHER -> {}
AllPlaces == {"start", "ask", "temp", "stream", "close", "backup", "replace", "unlock", "discard",
              "exit", "killed"}
Writing == {"stream", "close", "backup", "replace"}

Requests == {world.requests[p] : world \in Worlds, p \in Procs}
Nodes == [kind : {"file"}, data : Seq(Chunks)]
Processes ==
    [pc : AllPlaces, req : Requests, todo : Seq(Paths), into : {FALSE},
     src : Paths \cup {<<>>}, dst : Paths \cup {<<>>}, input : Seq(Chunks), pos : Nat \ {0},
     buf : Seq(Chunks), stack : {<<>>}, ret : {TRUE}, status : {0, 1}, copied : {FALSE},
     done : SUBSET Paths, stuck : BOOLEAN]

\* What an editor makes of a chunk, where it writes, and what it has written.
Edition(p, chunk) ==
    IF Tool(p) = "passwd" /\ chunk.id # proc[p].req.user THEN chunk ELSE Edit(p, chunk)
Draft(p) == IF Tool(p) = "passwd" THEN ShadowTmp ELSE Temp[p]
Out(p) == Content(proc[p].dst) \o proc[p].buf

AllBy(data, b) == \A i \in 1 .. Len(data) : data[i].by = b
Uniform(data) == \E b \in SUBSET Procs : AllBy(data, b)

Typed ==
    /\ proc \in [Procs -> Processes]
    /\ lock \in Procs \cup {Nobody} /\ unnoticed \subseteq Procs
    /\ DOMAIN fs \subseteq Paths
    /\ LET requests == [p \in Procs |-> proc[p].req]
       IN  Editable(before, requests) /\ NamesApart(requests)

\* What is still to do and what is done make up the request.
WorkLeft(p) ==
    Tool(p) \in {"sed", "patch"} =>
        /\ \A i \in 1 .. Len(proc[p].todo) : proc[p].todo[i] \in Operands(p)
        /\ proc[p].done \subseteq Operands(p)
        /\ proc[p].status = 0 =>
             Operands(p) \subseteq proc[p].done \cup {proc[p].todo[i] : i \in 1 .. Len(proc[p].todo)}
        /\ Editing(p) => proc[p].todo # <<>> /\ proc[p].src = Head(proc[p].todo)

\* sed gives up where it failed.
SedStatus(p) ==
    Tool(p) = "sed" =>
        /\ proc[p].pc \in {"temp", "stream", "backup", "replace"} => proc[p].status = 0
        /\ At(p, "close") => proc[p].status = 1

HasDraft(p) ==
    /\ proc[p].pc \in Writing \cup {"discard"} => proc[p].dst = Draft(p)
    /\ proc[p].pc \in Writing => Exists(Draft(p)) /\ fs[Draft(p)] \in Nodes
    /\ proc[p].pc \notin {"stream", "close", "exit", "killed"} => proc[p].buf = <<>>

WrittenSoFar(p) ==
    /\ proc[p].pos <= Len(proc[p].input) + 1 /\ (At(p, "temp") => proc[p].pos = 1)
    /\ p \notin unnoticed /\ proc[p].pc \in {"stream", "backup", "replace"} =>
         /\ Len(Out(p)) = proc[p].pos - 1
         /\ \A i \in 1 .. Len(Out(p)) : Out(p)[i] = Edition(p, proc[p].input[i])
    /\ p \notin unnoticed /\ proc[p].pc \in {"backup", "replace"} =>
         proc[p].pos = Len(proc[p].input) + 1
    /\ Tool(p) = "passwd" /\ At(p, "close") => p \in unnoticed

InputUniform(p) ==
    Tool(p) \in {"sed", "patch"} /\ Editing(p) =>
        \E b \in SUBSET Procs :
            /\ AllBy(proc[p].input, b)
            /\ proc[p].pc \in Writing => AllBy(Out(p), b \cup {p})

HasShadow(p) ==
    Tool(p) = "passwd" =>
        /\ proc[p].pc \notin {"start", "exit", "killed"} => lock = p
        /\ Editing(p) => proc[p].src = Shadow
        /\ proc[p].pc \in {"temp"} \cup Writing => proc[p].input = fs[Shadow].data
        /\ At(p, "replace") =>
             \E i \in 1 .. Len(proc[p].input) : i < proc[p].pos /\ proc[p].input[i].id = proc[p].req.user
        /\ proc[p].done \subseteq {Shadow}
        /\ At(p, "unlock") => proc[p].done = {Shadow}

EditorOK(p) ==
    /\ proc[p].pc \in Places(Tool(p)) \cup {"exit", "killed"}
    /\ WorkLeft(p) /\ SedStatus(p) /\ HasDraft(p) /\ WrittenSoFar(p) /\ InputUniform(p) /\ HasShadow(p)

TargetOK(t) ==
    /\ Exists(t) => fs[t] \in Nodes /\ (t # Shadow => Uniform(fs[t].data))
    /\ t = Shadow => Exists(t)

EditInv ==
    /\ Typed
    /\ \A p \in Procs : EditorOK(p)
    /\ \A t \in Edited : TargetOK(t)

\* Where no editor runs.
NoEditors ==
    /\ DOMAIN proc = Procs
    /\ \A p \in Procs :
         /\ {"req", "done", "pc"} \subseteq DOMAIN proc[p]
         /\ Tool(p) \notin EditTools /\ proc[p].done = {}
    /\ unnoticed \subseteq Procs

CommandsInv == EditInv \/ NoEditors

-----------------------------------------------------------------------------
(* What a system call does to the files.                                   *)

SameBut(X) ==
    \A q : q \notin X =>
        /\ q \in DOMAIN fs' <=> q \in DOMAIN fs
        /\ q \in DOMAIN fs => fs'[q] = fs[q]

LEMMA SameAt ==
    ASSUME NEW X, SameBut(X), NEW x, x \notin X
    PROVE  /\ x \in DOMAIN fs' <=> x \in DOMAIN fs
           /\ x \in DOMAIN fs => fs'[x] = fs[x]
BY DEF SameBut

\* A name below which nothing can be.
Single(n) == \A path \in Paths : Within(path, n) => path = n

LEMMA PutAt ==
    ASSUME NEW path, NEW node, fs' = Put(path, node)
    PROVE  /\ SameBut({path})
           /\ DOMAIN fs' = DOMAIN fs \cup {path}
           /\ fs'[path] = node
BY DEF Put, SameBut

LEMMA UnlinkedAt ==
    ASSUME NEW path, fs' = Unlinked(path)
    PROVE  SameBut({path}) /\ DOMAIN fs' = DOMAIN fs \ {path}
BY DEF Unlinked, SameBut

LEMMA ExtendedAt ==
    ASSUME NEW path, NEW chunks \in Seq(Chunks), path \in DOMAIN fs, fs[path] \in Nodes,
           fs' = Extended(path, chunks)
    PROVE  /\ SameBut({path})
           /\ DOMAIN fs' = DOMAIN fs
           /\ fs'[path] \in Nodes
           /\ fs'[path].data = fs[path].data \o chunks
<1>1. fs' = [fs EXCEPT ![path] = [fs[path] EXCEPT !.data = fs[path].data \o chunks]]
      BY DEF Extended, Exists
<1>2. fs'[path] = [fs[path] EXCEPT !.data = fs[path].data \o chunks] /\ DOMAIN fs' = DOMAIN fs
      BY <1>1
<1>3. fs[path].data \o chunks \in Seq(Chunks)
  <2>1. fs[path].data \in Seq(Chunks)
        BY DEF Nodes
  <2> QED BY <2>1, ConcatProperties
<1>4. fs'[path] \in Nodes /\ fs'[path].data = fs[path].data \o chunks
      BY <1>2, <1>3 DEF Nodes
<1> QED BY <1>1, <1>2, <1>4 DEF SameBut

\* rename(2) of a file over a file.
LEMMA RenamedAt ==
    ASSUME NEW from \in Paths, NEW to \in Paths, from # to, from \in DOMAIN fs,
           DOMAIN fs \subseteq Paths, Single(from), Single(to), fs' = Renamed(from, to)
    PROVE  /\ SameBut({from, to})
           /\ DOMAIN fs' = (DOMAIN fs \ {from}) \cup {to}
           /\ fs'[to] = fs[from]
<1>1. \A a \in Paths, b \in Paths : Rebased(a, a, b) = b
  <2> SUFFICES ASSUME NEW a \in Paths, NEW b \in Paths PROVE Rebased(a, a, b) = b
      OBVIOUS
  <2>1. a \in Seq(STRING) /\ b \in Seq(STRING)
        BY PathsAssumption
  <2>2. SubSeq(a, Len(a) + 1, Len(a)) = <<>>
        BY <2>1
  <2> QED BY <2>1, <2>2, ConcatEmptySeq DEF Rebased
<1>2. \A a \in Paths : Within(a, a)
  <2> SUFFICES ASSUME NEW a \in Paths PROVE Within(a, a)
      OBVIOUS
  <2>1. a \in Seq(STRING)
        BY PathsAssumption
  <2> QED BY <2>1, SubSeqFull DEF Within
<1> DEFINE here == {q \in DOMAIN fs : ~Within(q, to)}
           moved == {q \in here : Within(q, from)}
           names == (here \ moved) \cup {Rebased(r, from, to) : r \in moved}
<1>3. here = DOMAIN fs \ {to}
      BY <1>2 DEF Single
<1>4. moved = {from}
      BY <1>2, <1>3 DEF Single
<1>5. {Rebased(r, from, to) : r \in moved} = {to}
      BY <1>1, <1>4
<1>6. names = (DOMAIN fs \ {from}) \cup {to}
      BY <1>3, <1>4, <1>5
<1>7. fs' = [q \in names |-> IF Within(q, to) THEN fs[Rebased(q, to, from)] ELSE fs[q]]
      BY DEF Renamed
<1>8. DOMAIN fs' = names
      BY <1>7
<1>9. to \in names /\ fs'[to] = fs[from]
      BY <1>1, <1>2, <1>6, <1>7
<1>10. \A q \in names : q # to => fs'[q] = fs[q]
       BY <1>6, <1>7 DEF Single
<1> HIDE DEF names
<1> QED BY <1>6, <1>8, <1>9, <1>10 DEF SameBut

-----------------------------------------------------------------------------
(* The names, and what the step of one process leaves alone.               *)

LEMMA NamesAre ==
    ASSUME Typed
    PROVE  /\ \A p \in Procs : Tool(p) \in EditTools =>
                 /\ Draft(p) \in Paths /\ Single(Draft(p)) /\ Draft(p) \notin Edited
                 /\ Operands(p) \subseteq Edited
                 /\ Tool(p) = "passwd" => Operands(p) = {Shadow}
                 /\ Tool(p) # "passwd" => Shadow \notin Operands(p)
           /\ \A p, q \in Procs : Tool(p) # "passwd" /\ Draft(p) = Draft(q) => p = q
           /\ \A p, q \in Procs : Temp[p] # ShadowTmp /\ (Temp[p] = Temp[q] => p = q)
           /\ \A p \in Procs : Temp[p] \notin Edited
           /\ ShadowTmp \notin Edited
           /\ \A t \in Edited : t \in Paths /\ Single(t)
           /\ \A t \in Edited : t # Shadow =>
                 /\ Backup(t) \in Paths /\ Single(Backup(t))
           /\ \A t \in Edited :
                 /\ Backup(t) \notin Edited \cup {Temp[p] : p \in Procs} \cup {ShadowTmp}
                 /\ \A u \in Edited : Backup(u) = Backup(t) => u = t
<1> DEFINE reqs == [p \in Procs |-> proc[p].req]
<1>1. Editable(before, reqs) /\ NamesApart(reqs)
      BY DEF Typed
<1>2. Edited = Goals(reqs)
      BY DEF Edited
<1>3. \A p \in Procs : Tool(p) = reqs[p].tool /\ Operands(p) = Asked(reqs[p])
      BY DEF Tool, Operands
<1> HIDE DEF reqs
<1>4. \A t \in Edited : t \in Paths
      BY <1>1, <1>2 DEF Editable
<1>5. \A p \in Procs : Tool(p) \in EditTools => Operands(p) \subseteq Edited
      BY <1>2, <1>3 DEF Goals
<1>6. \A p \in Procs : Tool(p) = "passwd" => Operands(p) = {Shadow}
  <2> SUFFICES ASSUME NEW p \in Procs, Tool(p) = "passwd" PROVE Operands(p) = {Shadow}
      OBVIOUS
  <2>1. reqs[p].operands = <<Shadow>>
        BY <1>1, <1>3 DEF Editable
  <2> QED BY <2>1, <1>3 DEF Asked
<1>7. \A p \in Procs : Tool(p) \in EditTools /\ Tool(p) # "passwd" => Shadow \notin Operands(p)
      BY <1>1, <1>3 DEF Editable, EditTools
<1> DEFINE names == Goals(reqs) \cup {Backup(t) : t \in Goals(reqs)}
                    \cup {Temp[p] : p \in Procs} \cup {ShadowTmp}
<1>8. \A n \in names : Single(n)
      BY <1>1 DEF NamesApart, Single
<1>9. /\ \A p \in Procs : Temp[p] \in names
      /\ ShadowTmp \in names
      /\ \A t \in Edited : t \in names /\ Backup(t) \in names
      BY <1>2
<1> HIDE DEF names
<1>10. \A t \in Edited :
            /\ t \notin {Temp[p] : p \in Procs} \cup {ShadowTmp}
            /\ t # Shadow => Backup(t) \in Paths
            /\ Backup(t) \notin Edited \cup {Temp[p] : p \in Procs} \cup {ShadowTmp}
            /\ \A u \in Edited : Backup(u) = Backup(t) => u = t
       BY <1>1, <1>2, Zenon DEF NamesApart
<1>11. /\ \A p \in Procs : Temp[p] \in Paths /\ Temp[p] # ShadowTmp /\ \A q \in Procs : Temp[q] = Temp[p] => q = p
       /\ ShadowTmp \in Paths
       BY <1>1, Zenon DEF NamesApart
<1>12. (\A p \in Procs : Temp[p] \notin Edited) /\ ShadowTmp \notin Edited
       BY <1>10
<1>13. \A p \in Procs : Draft(p) \in Paths /\ Single(Draft(p)) /\ Draft(p) \notin Edited
       BY <1>8, <1>9, <1>11, <1>12 DEF Draft
<1>14. \A p, q \in Procs : Tool(p) # "passwd" /\ Draft(p) = Draft(q) => p = q
       BY <1>11 DEF Draft
<1> QED BY <1>4, <1>5, <1>6, <1>7, <1>8, <1>9, <1>10, <1>11, <1>12, <1>13, <1>14

\* What process p may change.
Reach(p) ==
    IF Tool(p) = "passwd" THEN {Shadow, ShadowTmp}
    ELSE {Temp[p]} \cup (Edited \ {Shadow}) \cup {Backup(t) : t \in Edited \ {Shadow}}

\* A step of p: its record becomes r.
Turn(p, r) ==
    /\ Tool(p) \in EditTools
    /\ r \in Processes /\ r.req = proc[p].req
    /\ proc' = [proc EXCEPT ![p] = r]
    /\ before' = before
    /\ DOMAIN fs' \subseteq Paths /\ SameBut(Reach(p))
    /\ Tool(p) = "passwd" => fs' = fs \/ lock = p
    /\ unnoticed' = unnoticed \/ unnoticed' = unnoticed \cup {p}
    /\ lock' = lock \/ (lock = p /\ lock' = Nobody) \/ (lock = Nobody /\ lock' = p)

LEMMA TurnKeepsRequests ==
    ASSUME EditInv, NEW p \in Procs, NEW r, Turn(p, r)
    PROVE  /\ Typed' /\ Edited' = Edited
           /\ proc'[p] = r /\ \A q \in Procs \ {p} : proc'[q] = proc[q]
           /\ \A q \in Procs : Tool(q)' = Tool(q) /\ Operands(q)' = Operands(q)
<1>1. proc \in [Procs -> Processes] /\ proc' = [proc EXCEPT ![p] = r] /\ r \in Processes
      BY DEF EditInv, Typed, Turn
<1>2. proc'[p] = r /\ \A q \in Procs \ {p} : proc'[q] = proc[q]
      BY <1>1
<1>3. proc' \in [Procs -> Processes]
      BY <1>1
<1>4. \A q \in Procs : proc'[q].req = proc[q].req
      BY <1>2 DEF Turn
<1>5. [q \in Procs |-> proc'[q].req] = [q \in Procs |-> proc[q].req]
      BY <1>4
<1>6. Edited' = Edited
      BY <1>5 DEF Edited
<1>7. \A q \in Procs : Tool(q)' = Tool(q) /\ Operands(q)' = Operands(q)
      BY <1>4 DEF Tool, Operands
<1>8. lock' \in Procs \cup {Nobody} /\ unnoticed' \subseteq Procs /\ DOMAIN fs' \subseteq Paths
      BY DEF EditInv, Typed, Turn
<1>9. before' = before
      BY DEF Turn
<1> DEFINE reqs == [q \in Procs |-> proc[q].req]
<1>10. Editable(before, reqs) /\ NamesApart(reqs) /\ reqs' = reqs
       BY <1>5 DEF EditInv, Typed
<1> HIDE DEF reqs
<1>11. Editable(before, reqs)' /\ NamesApart(reqs)'
  <2>1. Editable(before, reqs)'
        BY <1>9, <1>10 DEF Editable, Goals, Asked
  <2>2. NamesApart(reqs)'
        BY <1>10 DEF NamesApart, Goals, Asked
  <2> QED BY <2>1, <2>2
<1>12. Typed'
       BY <1>3, <1>8, <1>11 DEF Typed, reqs
<1> QED BY <1>2, <1>6, <1>7, <1>12

\* Where it reaches nothing of q's.
LEMMA OutOfReach ==
    ASSUME EditInv, NEW p \in Procs, NEW q \in Procs, p # q, Tool(p) \in EditTools,
           Tool(q) \in EditTools
    PROVE  /\ Tool(p) # "passwd" \/ Tool(q) # "passwd" => Draft(q) \notin Reach(p)
           /\ Tool(p) # "passwd" /\ Tool(q) = "passwd" => Shadow \notin Reach(p)
<1>1. CASE Tool(p) = "passwd"
  <2>1. SUFFICES ASSUME Tool(q) # "passwd" PROVE Draft(q) \notin {Shadow, ShadowTmp}
        BY <1>1 DEF Reach
  <2>2. Shadow \in Edited
        BY <1>1, NamesAre DEF EditInv
  <2>3. Draft(q) = Temp[q] /\ Temp[q] \notin Edited /\ Temp[q] # ShadowTmp
        BY <2>1, NamesAre DEF EditInv, Draft
  <2> QED BY <2>2, <2>3
<1>2. CASE Tool(p) # "passwd"
  <2>1. Reach(p) = {Temp[p]} \cup (Edited \ {Shadow}) \cup {Backup(t) : t \in Edited \ {Shadow}}
        BY <1>2 DEF Reach
  <2>2. Draft(q) \notin Edited /\ Draft(q) # Temp[p] /\ Draft(q) \notin {Backup(t) : t \in Edited}
        BY <1>2, NamesAre DEF EditInv, Draft
  <2>3. ASSUME Tool(q) = "passwd" PROVE Shadow \notin Reach(p)
    <3>1. Shadow \in Edited
          BY <2>3, NamesAre DEF EditInv
    <3>2. Shadow # Temp[p] /\ Shadow \notin {Backup(t) : t \in Edited}
          BY <3>1, NamesAre DEF EditInv
    <3> QED BY <2>1, <3>2
  <2> QED BY <1>2, <2>1, <2>2, <2>3
<1> QED BY <1>1, <1>2

\* The step of one process keeps the invariant of another.
LEMMA NeighbourOK ==
    ASSUME EditInv, NEW p \in Procs, NEW q \in Procs, p # q, NEW r, Turn(p, r)
    PROVE  EditorOK(q)'
<1>1. /\ Edited' = Edited /\ proc'[q] = proc[q]
      /\ Tool(q)' = Tool(q) /\ Operands(q)' = Operands(q)
      BY TurnKeepsRequests
<1>2. q \in unnoticed' <=> q \in unnoticed
      BY DEF Turn
<1>3. EditorOK(q) /\ proc[q] \in Processes
      BY DEF EditInv, Typed
<1>4. /\ At(q, "temp")' = At(q, "temp") /\ Editing(q)' = Editing(q) /\ Draft(q)' = Draft(q)
      BY <1>1 DEF At, Editing, Draft
<1>5. (proc[q].pc \in Places(Tool(q)) \cup {"exit", "killed"})'
      BY <1>1, <1>3 DEF EditorOK
<1>6. WorkLeft(q)' /\ SedStatus(q)'
      BY <1>1, <1>3, <1>4 DEF EditorOK, WorkLeft, SedStatus, At
<1>7. CASE Tool(q) \notin EditTools
  <2>1. proc[q].pc \in {"exit", "killed"}
        BY <1>3, <1>7 DEF EditorOK, Places, EditTools
  <2>2. (HasDraft(q) /\ WrittenSoFar(q) /\ InputUniform(q) /\ HasShadow(q))'
        BY <1>1, <1>3, <1>7, <2>1 DEF EditorOK, HasDraft, WrittenSoFar, InputUniform, HasShadow,
           Writing, EditTools, At
  <2> QED BY <1>5, <1>6, <2>2 DEF EditorOK
<1>8. CASE Tool(q) \in EditTools
  <2>1. Tool(p) # "passwd" \/ Tool(q) # "passwd" => Draft(q) \notin Reach(p)
        BY <1>8, OutOfReach DEF Turn
  <2>2. Tool(p) # "passwd" /\ Tool(q) = "passwd" => Shadow \notin Reach(p)
        BY <1>8, OutOfReach DEF Turn
  <2>3. Tool(p) = "passwd" /\ Tool(q) = "passwd" /\ fs' # fs =>
            proc[q].pc \in {"start", "exit", "killed"}
        BY <1>3 DEF Turn, EditorOK, HasShadow
  <2>4. proc[q].pc \in Writing =>
            (Draft(q) \in DOMAIN fs' <=> Draft(q) \in DOMAIN fs)
            /\ (Draft(q) \in DOMAIN fs => fs'[Draft(q)] = fs[Draft(q)])
    <3> SUFFICES ASSUME proc[q].pc \in Writing, fs' # fs
                 PROVE  (Draft(q) \in DOMAIN fs' <=> Draft(q) \in DOMAIN fs)
                        /\ (Draft(q) \in DOMAIN fs => fs'[Draft(q)] = fs[Draft(q)])
        OBVIOUS
    <3>1. Draft(q) \notin Reach(p)
          BY <2>1, <2>3 DEF Writing
    <3>2. SameBut(Reach(p))
          BY DEF Turn
    <3> QED BY <3>1, <3>2, SameAt
  <2>5. HasDraft(q)'
        BY <1>1, <1>3, <1>4, <2>4 DEF EditorOK, HasDraft, Exists
  <2>6. proc[q].pc \in Writing => Out(q)' = Out(q)
    <3> SUFFICES ASSUME proc[q].pc \in Writing PROVE Out(q)' = Out(q)
        OBVIOUS
    <3>1. proc[q].dst = Draft(q) /\ Exists(Draft(q))
          BY <1>3 DEF EditorOK, HasDraft
    <3>2. Content(proc[q].dst)' = Content(proc[q].dst)
          BY <1>1, <2>4, <3>1 DEF Content, Is, Exists
    <3> QED BY <1>1, <3>2 DEF Out
  <2>7. WrittenSoFar(q)'
    <3>1. \A chunk : Edition(q, chunk)' = Edition(q, chunk)
          BY <1>1 DEF Edition, Edit
    <3> QED BY <1>1, <1>2, <1>3, <2>6, <3>1 DEF EditorOK, WrittenSoFar, Writing, At
  <2>8. InputUniform(q)'
        BY <1>1, <1>3, <1>4, <2>6 DEF EditorOK, InputUniform, AllBy
  <2>9. HasShadow(q)'
    <3> SUFFICES ASSUME Tool(q) = "passwd" PROVE HasShadow(q)'
        BY <1>1 DEF HasShadow
    <3>1. lock = q => lock' = q
          BY WorldsAssumption DEF Turn
    <3>2. proc[q].pc \notin {"start", "exit", "killed"} => fs'[Shadow] = fs[Shadow]
      <4>1. Shadow \in DOMAIN fs
        <5>1. Shadow \in Edited
              BY <1>8, NamesAre DEF EditInv
        <5> QED BY <5>1 DEF EditInv, TargetOK, Exists
      <4>2. SUFFICES ASSUME proc[q].pc \notin {"start", "exit", "killed"}, fs' # fs
                     PROVE  fs'[Shadow] = fs[Shadow]
            OBVIOUS
      <4>3. Shadow \notin Reach(p) /\ SameBut(Reach(p))
            BY <2>2, <2>3, <4>2 DEF Turn
      <4> QED BY <4>1, <4>3, SameAt
    <3> QED BY <1>1, <1>3, <1>4, <3>1, <3>2 DEF EditorOK, HasShadow, Writing, At
  <2> QED BY <1>5, <1>6, <2>5, <2>7, <2>8, <2>9 DEF EditorOK
<1> QED BY <1>7, <1>8

-----------------------------------------------------------------------------
(* Steps of AtomicEdit.                                                    *)

CopyOf(p) == IF Editing(p) THEN Version(proc[p].src, proc[p].input) ELSE {"none"}
TargetOf(p) == IF Tool(p) \in EditTools THEN proc[p].src ELSE <<>>
Wanted(p) == [files |-> IF Tool(p) \in EditTools THEN Operands(p) ELSE {},
              exclusive |-> Tool(p) = "passwd"]

\* A file is what it was where neither it nor its backup is touched.
LEMMA CurrentAt ==
    ASSUME EditInv, Edited' = Edited, before' = before, NEW X, SameBut(X), NEW t,
           t \in Edited => t \notin X /\ (t # Shadow => Backup(t) \notin X)
    PROVE  Current(t)' = Current(t)
<1>1. CASE t \notin Edited
      BY <1>1 DEF Current
<1>2. CASE t \in Edited
  <2>1. \A data : Version(t, data)' = Version(t, data)
        BY DEF Version, WholeText
  <2>2. Exists(t)' <=> Exists(t)
        BY <1>2, SameAt DEF Exists
  <2>3. Exists(t) => Content(t)' = Content(t)
        BY <1>2, <2>2, SameAt DEF Exists, Content, Is
  <2>4. CASE Exists(t)
    <3>1. Current(t) = Version(t, Content(t))
          BY <1>2, <2>4 DEF Current
    <3>2. Current(t)' = Version(t, Content(t))'
          BY <1>2, <2>2, <2>4 DEF Current
    <3>3. Version(t, Content(t))' = Version(t, Content(t))
          BY <2>3, <2>4 DEF Version, WholeText
    <3> QED BY <3>1, <3>2, <3>3
  <2>5. CASE ~Exists(t)
    <3>1. t # Shadow
          BY <1>2, <2>5 DEF EditInv, TargetOK
    <3>2. Exists(Backup(t))' <=> Exists(Backup(t))
          BY <1>2, <3>1, SameAt DEF Exists
    <3>3. Exists(Backup(t)) => Content(Backup(t))' = Content(Backup(t))
          BY <1>2, <3>1, <3>2, SameAt DEF Exists, Content, Is
    <3>4. CASE Exists(Backup(t))
      <4>1. Current(t) = Version(t, Content(Backup(t)))
            BY <1>2, <2>5, <3>4 DEF Current
      <4>2. Current(t)' = Version(t, Content(Backup(t)))'
            BY <1>2, <2>2, <2>5, <3>2, <3>4 DEF Current
      <4>3. Version(t, Content(Backup(t)))' = Version(t, Content(Backup(t)))
            BY <3>3, <3>4 DEF Version, WholeText
      <4> QED BY <4>1, <4>2, <4>3
    <3>5. CASE ~Exists(Backup(t))
          BY <1>2, <2>2, <2>5, <3>2, <3>5 DEF Current, Broken
    <3> QED BY <3>4, <3>5
  <2> QED BY <2>4, <2>5
<1> QED BY <1>1, <1>2

\* Only p's part of the promise moves, and what was lost stays lost.
LEMMA OthersRest ==
    ASSUME EditInv, NEW p \in Procs, NEW r, Turn(p, r)
    PROVE  /\ \A q \in Procs \ {p} : /\ CopyOf(q)' = CopyOf(q)
                                     /\ TargetOf(q)' = TargetOf(q)
                                     /\ Result(q)' = Result(q)
                                     /\ proc'[q].done = proc[q].done
           /\ \A q \in Procs : Wanted(q)' = Wanted(q)
           /\ unnoticed \subseteq unnoticed'
<1>1. /\ proc'[p] = r /\ \A q \in Procs \ {p} : proc'[q] = proc[q]
      /\ \A q \in Procs : Tool(q)' = Tool(q) /\ Operands(q)' = Operands(q)
      BY TurnKeepsRequests
<1>2. before' = before
      BY DEF Turn
<1>3. ASSUME NEW q \in Procs \ {p}
      PROVE  /\ CopyOf(q)' = CopyOf(q) /\ TargetOf(q)' = TargetOf(q) /\ Result(q)' = Result(q)
             /\ proc'[q].done = proc[q].done
  <2>1. proc'[q] = proc[q] /\ Tool(q)' = Tool(q)
        BY <1>1
  <2>2. Editing(q)' = Editing(q)
        BY <2>1 DEF Editing
  <2>3. CopyOf(q)' = CopyOf(q)
        BY <1>2, <2>1, <2>2 DEF CopyOf, Version, WholeText
  <2>4. TargetOf(q)' = TargetOf(q) /\ Result(q)' = Result(q)
        BY <2>1 DEF TargetOf, Result, At
  <2> QED BY <2>1, <2>3, <2>4
<1>4. \A q \in Procs : Wanted(q)' = Wanted(q)
      BY <1>1 DEF Wanted
<1> QED BY <1>3, <1>4 DEF Turn

\* What a step of p changes of what AtomicEdit sees, kind by kind.
Same(p) == CopyOf(p)' = CopyOf(p) /\ TargetOf(p)' = TargetOf(p) /\ Result(p)' = Result(p)
           /\ proc'[p].done = proc[p].done
FilesRest == \A t \in Paths : Current(t)' = Current(t)

Takes(p) ==
    /\ ~Editing(p) /\ Result(p) = "running" /\ Result(p)' = "running"
    /\ proc'[p].src \in Operands(p)
    /\ p \notin unnoticed' => CopyOf(p)' = Current(proc'[p].src)
    /\ proc'[p].done = proc[p].done
Installs(p) ==
    /\ Editing(p) /\ ~Editing(p)' /\ Result(p)' = Result(p)
    /\ p \notin unnoticed =>
         /\ \A t \in Paths : t = proc[p].src => Current(t)' = Promise!With(CopyOf(p), p)
         /\ Tool(p) = "passwd" => Current(proc[p].src) = CopyOf(p)
    /\ \A t \in Paths \ {proc[p].src} : Current(t)' = Current(t)
    /\ proc'[p].done = proc[p].done \cup {proc[p].src}
GivesUp(p) == Editing(p) /\ ~Editing(p)' /\ proc'[p].done = proc[p].done /\ Result(p)' = Result(p)
Leaves(p) ==
    /\ Result(p) = "running" /\ Result(p)' \in {"ok", "failed", "killed"}
    /\ ~Editing(p)' /\ proc'[p].done = proc[p].done
    /\ Result(p)' = "ok" => proc[p].done = Operands(p)

\* No version of a file is the mark for none.
LEMMA VersionIsSome ==
    ASSUME NEW t, NEW data \in Seq(Chunks)
    PROVE  Version(t, data) # {"none"} /\ (WholeText(t, data) => Version(t, data) # Broken)
<1>1. \A i \in 1 .. Len(data) : data[i] \in Chunks
      OBVIOUS
<1>2. UNION {data[i].by : i \in 1 .. Len(data)} \subseteq Procs
      BY <1>1 DEF Chunks
<1>3. UNION {data[i].by : i \in 1 .. Len(data)} \notin {{"none"}, {"broken"}}
      BY <1>2, WorldsAssumption
<1> QED BY <1>3 DEF Version, Broken

LEMMA SourceIsAsked ==
    ASSUME EditInv, NEW p \in Procs, Editing(p)
    PROVE  proc[p].src \in Operands(p) /\ proc[p].src \in Paths /\ proc[p].src \in Edited
<1>1. EditorOK(p) /\ Tool(p) \in EditTools /\ proc[p] \in Processes
      BY DEF EditInv, Editing, Typed
<1>2. CASE Tool(p) = "passwd"
      BY <1>1, <1>2, NamesAre DEF EditInv, EditorOK, HasShadow
<1>3. CASE Tool(p) # "passwd"
  <2>1. proc[p].todo \in Seq(Paths) /\ proc[p].todo # <<>> /\ proc[p].src = Head(proc[p].todo)
        BY <1>1, <1>3 DEF EditorOK, WorkLeft, EditTools, Processes
  <2>2. 1 \in 1 .. Len(proc[p].todo) /\ proc[p].src = proc[p].todo[1]
        BY <2>1
  <2>3. proc[p].src \in Operands(p)
        BY <1>1, <1>3, <2>2 DEF EditorOK, WorkLeft, EditTools
  <2> QED BY <1>1, <2>3, NamesAre DEF EditInv
<1> QED BY <1>2, <1>3

LEMMA StepIsPromised ==
    ASSUME EditInv, NEW p \in Procs, NEW r, Turn(p, r),
           \/ FilesRest /\ (Same(p) \/ Takes(p) \/ GivesUp(p) \/ Leaves(p))
           \/ Installs(p)
    PROVE  Promise!Next
<1> DEFINE current == [t \in Paths |-> Current(t)]
           copy == [q \in Procs |-> CopyOf(q)]
           target == [q \in Procs |-> TargetOf(q)]
           asked == [q \in Procs |-> Wanted(q)]
           done == [q \in Procs |-> proc[q].done]
           result == [q \in Procs |-> Result(q)]
<1>1. asked' = asked /\ unnoticed \subseteq unnoticed'
      BY OthersRest
<1>2. \A o \in Procs \ {p} : copy'[o] = copy[o] /\ target'[o] = target[o] /\ result'[o] = result[o]
                              /\ done'[o] = done[o]
      BY OthersRest
<1>3. FilesRest => current' = current
      BY DEF FilesRest
<1>4. Tool(p) \in EditTools /\ proc'[p] = r /\ Tool(p)' = Tool(p) /\ Operands(p)' = Operands(p)
      BY TurnKeepsRequests DEF Turn
<1>5. asked[p].files = Operands(p) /\ asked[p].exclusive = (Tool(p) = "passwd")
      BY <1>4 DEF Wanted
<1>6. Editing(p) => copy[p] # {"none"}
  <2>1. proc[p].input \in Seq(Chunks)
        BY DEF EditInv, Typed, Processes
  <2> QED BY <2>1, VersionIsSome DEF CopyOf
<1>7. ~Editing(p) => copy[p] = {"none"}
      BY DEF CopyOf
<1>8. ~Editing(p)' => copy'[p] = {"none"}
      BY DEF CopyOf
<1>9. Editing(p) => proc[p].src \in Paths /\ target[p] = proc[p].src
  <2> QED BY <1>4, SourceIsAsked DEF TargetOf
<1>11. CASE FilesRest /\ Same(p)
  <2>1. copy' = copy /\ target' = target /\ done' = done /\ result' = result
        BY <1>2, <1>11 DEF Same
  <2> QED BY <1>1, <1>3, <1>11, <2>1 DEF Promise!Next, Promise!Lose, CopyOf, TargetOf, Wanted
<1>12. CASE FilesRest /\ Takes(p)
  <2>1. done' = done /\ result' = result /\ result[p] = "running" /\ copy[p] = {"none"}
        BY <1>2, <1>7, <1>12 DEF Takes
  <2>2. target'[p] = proc'[p].src /\ target'[p] \in asked[p].files
        BY <1>4, <1>5, <1>12 DEF Takes, TargetOf
  <2>3. proc'[p].src \in Paths
        BY <1>4, <1>12, NamesAre DEF EditInv, Takes
  <2>4. p \notin unnoticed' => copy'[p] = current[target'[p]]
        BY <1>12, <2>2, <2>3 DEF Takes
  <2> HIDE DEF current, copy, target, asked, done, result
  <2>5. current' = current
        BY <1>3, <1>12
  <2> QED BY <1>1, <1>2, <2>1, <2>2, <2>4, <2>5
          DEF Promise!Next, Promise!Step, Promise!Take, CopyOf, TargetOf, Wanted,
              current, copy, target, asked, done, result
<1>13. CASE FilesRest /\ GivesUp(p)
  <2>1. done' = done /\ result' = result /\ copy[p] # {"none"} /\ copy'[p] = {"none"}
        BY <1>2, <1>6, <1>8, <1>13 DEF GivesUp
  <2> HIDE DEF current, copy, target, asked, done, result
  <2>2. current' = current
        BY <1>3, <1>13
  <2> QED BY <1>1, <1>2, <2>1, <2>2
          DEF Promise!Next, Promise!Step, Promise!GiveUp, CopyOf, TargetOf, Wanted,
              current, copy, target, asked, done, result
<1>14. CASE FilesRest /\ Leaves(p)
  <2>1. done' = done /\ copy'[p] = {"none"}
        BY <1>2, <1>8, <1>14 DEF Leaves
  <2>2. /\ result[p] = "running" /\ result'[p] \in {"ok", "failed", "killed"}
        /\ result'[p] = "ok" => done[p] = asked[p].files
        BY <1>5, <1>14 DEF Leaves
  <2> HIDE DEF current, copy, target, asked, done, result
  <2>3. current' = current
        BY <1>3, <1>14
  <2> QED BY <1>1, <1>2, <2>1, <2>2, <2>3
          DEF Promise!Next, Promise!Step, Promise!End, CopyOf, TargetOf, Wanted,
              current, copy, target, asked, done, result
<1>15. CASE Installs(p)
  <2>1. result' = result /\ copy[p] # {"none"} /\ copy'[p] = {"none"}
        BY <1>2, <1>6, <1>8, <1>15 DEF Installs
  <2>2. target[p] \in Paths /\ target[p] = proc[p].src
        BY <1>9, <1>15 DEF Installs
  <2>3. \A t \in Paths \ {target[p]} : current'[t] = current[t]
        BY <1>15, <2>2 DEF Installs
  <2>4. done' = [done EXCEPT ![p] = done[p] \cup {target[p]}]
    <3>1. done'[p] = done[p] \cup {target[p]}
          BY <1>15, <2>2 DEF Installs
    <3> QED BY <1>2, <3>1
  <2>5. ASSUME p \notin unnoticed
        PROVE  /\ current' = [current EXCEPT ![target[p]] = Promise!With(copy[p], p)]
               /\ asked[p].exclusive => current[target[p]] = copy[p]
    <3>1. current'[target[p]] = Promise!With(copy[p], p)
          BY <1>15, <2>2, <2>5 DEF Installs
    <3>2. asked[p].exclusive => current[target[p]] = copy[p]
      <4>1. SUFFICES ASSUME asked[p].exclusive PROVE current[target[p]] = copy[p]
            OBVIOUS
      <4>2. Tool(p) = "passwd"
            BY <1>5, <4>1
      <4> QED BY <1>15, <2>2, <2>5, <4>2 DEF Installs
    <3> QED BY <2>3, <3>1, <3>2
  <2> HIDE DEF current, copy, target, asked, done, result
  <2> QED BY <1>1, <1>2, <2>1, <2>3, <2>4, <2>5
          DEF Promise!Next, Promise!Step, Promise!Install, CopyOf, TargetOf, Wanted,
              current, copy, target, asked, done, result
<1> QED BY <1>11, <1>12, <1>13, <1>14, <1>15

-----------------------------------------------------------------------------
(* Versions of a text, and what has been written of one.                   *)

LEMMA EditionIsChunk ==
    ASSUME NEW p \in Procs, NEW chunk \in Chunks
    PROVE  /\ Edition(p, chunk) \in Chunks /\ Edition(p, chunk).id = chunk.id
           /\ Edit(p, chunk) \in Chunks
           /\ Tool(p) = "passwd" /\ chunk.id # proc[p].req.user => Edition(p, chunk).by = chunk.by
           /\ ~(Tool(p) = "passwd" /\ chunk.id # proc[p].req.user) =>
                Edition(p, chunk).by = chunk.by \cup {p}
<1>1. /\ Edit(p, chunk) \in Chunks /\ Edit(p, chunk).id = chunk.id
      /\ Edit(p, chunk).by = chunk.by \cup {p}
      BY DEF Edit, Chunks
<1> QED BY <1>1 DEF Edition

\* The edit of a version is the version with the editor in it.
LEMMA EditedVersion ==
    ASSUME EditInv, NEW p \in Procs, NEW t \in Edited, NEW old \in Seq(Chunks), NEW new \in Seq(Chunks),
           Len(new) = Len(old), \A i \in 1 .. Len(new) : new[i] = Edition(p, old[i]),
           \/ Tool(p) # "passwd" /\ t # Shadow /\ Uniform(old)
           \/ /\ Tool(p) = "passwd" /\ t = Shadow
              /\ \E i \in 1 .. Len(old) : old[i].id = proc[p].req.user
    PROVE  Version(t, new) = Promise!With(Version(t, old), p)
<1>1. \A i \in 1 .. Len(old) : old[i] \in Chunks
      OBVIOUS
<1>2. \A i \in 1 .. Len(old) :
        /\ new[i].id = old[i].id
        /\ Tool(p) = "passwd" /\ old[i].id # proc[p].req.user => new[i].by = old[i].by
        /\ ~(Tool(p) = "passwd" /\ old[i].id # proc[p].req.user) => new[i].by = old[i].by \cup {p}
      BY <1>1, EditionIsChunk
<1>3. before[t].data \in Seq(Chunks) /\ before[t].data # <<>>
      BY DEF EditInv, Typed, Editable, Edited
<1>4. Len(before[t].data) \in Nat \ {0}
      BY <1>3
<1>5. WholeText(t, new) <=> WholeText(t, old)
  <2>1. CASE Tool(p) = "passwd" /\ t = Shadow
        BY <1>2, <2>1 DEF WholeText
  <2>2. CASE Tool(p) # "passwd" /\ t # Shadow /\ Uniform(old)
    <3>1. PICK b \in SUBSET Procs : AllBy(old, b)
          BY <2>2 DEF Uniform
    <3>2. \A i \in 1 .. Len(old) : old[i].by = b /\ new[i].by = b \cup {p}
          BY <1>2, <2>2, <3>1 DEF AllBy
    <3>3. Len(old) # 0 => 1 \in 1 .. Len(old)
          OBVIOUS
    <3> QED BY <1>2, <1>4, <2>2, <3>2, <3>3 DEF WholeText
  <2> QED BY <2>1, <2>2
<1>6. CASE ~WholeText(t, old)
      BY <1>5, <1>6 DEF Version, Promise!With
<1>7. CASE WholeText(t, old)
  <2>1. Len(old) = Len(before[t].data)
        BY <1>7 DEF WholeText
  <2>2. \E i \in 1 .. Len(old) : new[i].by = old[i].by \cup {p}
    <3>1. CASE Tool(p) # "passwd"
          BY <1>2, <1>4, <2>1, <3>1
    <3>2. CASE Tool(p) = "passwd"
          BY <1>2, <3>2
    <3> QED BY <3>1, <3>2
  <2>3. \A i \in 1 .. Len(old) : new[i].by = old[i].by \/ new[i].by = old[i].by \cup {p}
        BY <1>2
  <2> DEFINE edits == UNION {old[i].by : i \in 1 .. Len(old)}
             after == UNION {new[i].by : i \in 1 .. Len(new)}
  <2>4. ASSUME NEW x PROVE x \in after => x \in edits \cup {p}
    <3> SUFFICES ASSUME x \in after PROVE x \in edits \cup {p}
        OBVIOUS
    <3>1. PICK i \in 1 .. Len(new) : x \in new[i].by
          OBVIOUS
    <3>2. x \in old[i].by => x \in edits
          OBVIOUS
    <3> HIDE DEF edits, after
    <3> QED BY <2>3, <3>1, <3>2
  <2>5. ASSUME NEW x PROVE x \in edits => x \in after
    <3> SUFFICES ASSUME x \in edits PROVE x \in after
        OBVIOUS
    <3>1. PICK i \in 1 .. Len(old) : x \in old[i].by
          OBVIOUS
    <3>2. x \in new[i].by
          BY <2>3, <3>1
    <3> QED BY <3>2
  <2>6. p \in after
    <3>1. PICK i \in 1 .. Len(old) : new[i].by = old[i].by \cup {p}
          BY <2>2
    <3>2. p \in new[i].by
          BY <3>1
    <3> QED BY <3>2
  <2>7. after = edits \cup {p}
    <3> HIDE DEF edits, after
    <3> QED BY <2>4, <2>5, <2>6
  <2>8. Version(t, old) = edits /\ Version(t, new) = after
        BY <1>5, <1>7 DEF Version
  <2>9. Version(t, old) # Broken
        BY <1>7, VersionIsSome
  <2> HIDE DEF edits, after
  <2> QED BY <2>7, <2>8, <2>9 DEF Promise!With
<1> QED BY <1>6, <1>7

LEMMA AppendToConcat ==
    ASSUME NEW S, NEW s \in Seq(S), NEW t \in Seq(S), NEW x \in S
    PROVE  s \o Append(t, x) = Append(s \o t, x)
<1>1. /\ Append(t, x) \in Seq(S) /\ Len(Append(t, x)) = Len(t) + 1
      /\ \A i \in 1 .. Len(t) : Append(t, x)[i] = t[i]
      /\ Append(t, x)[Len(t) + 1] = x
      OBVIOUS
<1>2. s \o t \in Seq(S) /\ Len(s \o t) = Len(s) + Len(t)
      BY ConcatProperties
<1> DEFINE st == s \o t
           left == s \o Append(t, x)
           right == Append(st, x)
<1>3. left \in Seq(S) /\ Len(left) = Len(s) + Len(t) + 1
      BY <1>1, ConcatProperties
<1>4. right \in Seq(S) /\ Len(right) = Len(s) + Len(t) + 1
      BY <1>2
<1>5. ASSUME NEW i \in 1 .. Len(left) PROVE left[i] = right[i]
  <2>1. Len(s) \in Nat /\ Len(t) \in Nat /\ i \in 1 .. Len(s) + Len(t) + 1
        BY <1>3
  <2>2. left[i] = IF i <= Len(s) THEN s[i] ELSE Append(t, x)[i - Len(s)]
        BY <1>1, <2>1, ConcatProperties
  <2>3. i <= Len(s) + Len(t) => right[i] = st[i]
        BY <1>2, <2>1
  <2>4. i <= Len(s) + Len(t) => st[i] = IF i <= Len(s) THEN s[i] ELSE t[i - Len(s)]
        BY <2>1, ConcatProperties
  <2>5. i = Len(s) + Len(t) + 1 => right[i] = x
        BY <1>2, <2>1
  <2> HIDE DEF st, left, right
  <2> QED BY <1>1, <2>1, <2>2, <2>3, <2>4, <2>5
<1> HIDE DEF left, right
<1>6. left = right
      BY <1>3, <1>4, <1>5, SeqEqual
<1> QED BY <1>6 DEF left, right

LEMMA OutIsText ==
    ASSUME EditInv, NEW p \in Procs, Tool(p) \in EditTools, proc[p].pc \in Writing
    PROVE  /\ Out(p) = fs[Draft(p)].data \o proc[p].buf
           /\ proc[p].dst = Draft(p) /\ Draft(p) \in DOMAIN fs /\ fs[Draft(p)] \in Nodes
           /\ fs[Draft(p)].data \in Seq(Chunks) /\ proc[p].buf \in Seq(Chunks)
           /\ Out(p) \in Seq(Chunks)
<1>1. /\ proc[p].dst = Draft(p) /\ Draft(p) \in DOMAIN fs /\ fs[Draft(p)] \in Nodes
      BY DEF EditInv, EditorOK, HasDraft, Exists
<1>2. proc[p].buf \in Seq(Chunks)
      BY DEF EditInv, Typed, Processes
<1>3. fs[Draft(p)].data \in Seq(Chunks) /\ fs[Draft(p)].kind = "file"
      BY <1>1 DEF Nodes
<1>4. Out(p) = fs[Draft(p)].data \o proc[p].buf
      BY <1>1, <1>3 DEF Out, Content, Is, Exists
<1> QED BY <1>1, <1>2, <1>3, <1>4, ConcatProperties

\* Printing adds a chunk to what is written, unless it fails.
LEMMA PrintedOut ==
    ASSUME EditInv, NEW p \in Procs, Tool(p) \in EditTools, proc[p].pc \in Writing,
           NEW chunk \in Chunks, NEW how \in Hows, Printed(p, chunk, how),
           Tool(p)' = Tool(p), proc'[p].dst = proc[p].dst, proc'[p].buf = Held(p, chunk, how)
    PROVE  /\ SameBut({Draft(p)}) /\ DOMAIN fs' = DOMAIN fs /\ fs'[Draft(p)] \in Nodes
           /\ Held(p, chunk, how) \in Seq(Chunks)
           /\ how # "fail" => Out(p)' = Append(Out(p), chunk)
           /\ how = "fail" => Out(p)' = fs[Draft(p)].data
<1> DEFINE data == fs[Draft(p)].data
           buf == proc[p].buf
<1>1. /\ Out(p) = data \o buf /\ data \in Seq(Chunks) /\ buf \in Seq(Chunks)
      /\ proc[p].dst = Draft(p) /\ Draft(p) \in DOMAIN fs /\ fs[Draft(p)] \in Nodes
      BY OutIsText
<1>2. Append(buf, chunk) \in Seq(Chunks)
      BY <1>1
<1>3. Held(p, chunk, how) \in Seq(Chunks)
      BY <1>2 DEF Held
<1>4. Draft(p)' = Draft(p)
      BY DEF Draft
<1>5. ASSUME fs'[Draft(p)] \in Nodes, DOMAIN fs' = DOMAIN fs
      PROVE  Out(p)' = fs'[Draft(p)].data \o Held(p, chunk, how)
      BY <1>1, <1>5 DEF Out, Content, Is, Exists, Nodes
<1>6. data \o Append(buf, chunk) = Append(data \o buf, chunk)
  <2>1. data \in Seq(Chunks) /\ buf \in Seq(Chunks)
        BY <1>1
  <2>2. \A s, t \in Seq(Chunks) : s \o Append(t, chunk) = Append(s \o t, chunk)
        BY AppendToConcat
  <2> HIDE DEF data, buf
  <2> QED BY <2>1, <2>2
<1>7. CASE how = "write"
  <2>1. fs' = Extended(Draft(p), Append(buf, chunk))
        BY <1>1, <1>7 DEF Printed
  <2>2. /\ SameBut({Draft(p)}) /\ DOMAIN fs' = DOMAIN fs /\ fs'[Draft(p)] \in Nodes
        /\ fs'[Draft(p)].data = data \o Append(buf, chunk)
        BY <1>1, <1>2, <2>1, ExtendedAt
  <2>3. Out(p)' = (data \o Append(buf, chunk)) \o <<>>
        BY <1>5, <1>7, <2>2 DEF Held
  <2>4. data \o Append(buf, chunk) \in Seq(Chunks)
        BY <1>1, <1>2, ConcatProperties
  <2>5. Out(p)' = Append(Out(p), chunk)
        BY <1>1, <1>6, <2>3, <2>4, ConcatEmptySeq
  <2> QED BY <1>3, <1>7, <2>2, <2>5
<1>8. CASE how # "write"
  <2>1. fs' = fs
        BY <1>8 DEF Printed
  <2>2. SameBut({Draft(p)}) /\ DOMAIN fs' = DOMAIN fs /\ fs'[Draft(p)] \in Nodes
        BY <1>1, <2>1 DEF SameBut
  <2>3. CASE how = "keep"
        BY <1>1, <1>3, <1>5, <1>6, <2>1, <2>2, <2>3 DEF Held
  <2>4. CASE how = "fail"
    <3>1. Out(p)' = data \o <<>>
          BY <1>5, <2>1, <2>2, <2>4 DEF Held
    <3>2. Out(p)' = data
          BY <1>1, <3>1, ConcatEmptySeq
    <3> QED BY <1>3, <2>2, <2>4, <3>2
  <2> QED BY <1>8, <2>3, <2>4 DEF Hows
<1> QED BY <1>7, <1>8

\* Closing writes what was held, or loses it unnoticed.
LEMMA ClosedOut ==
    ASSUME EditInv, NEW p \in Procs, Tool(p) \in EditTools, proc[p].pc \in Writing,
           NEW how \in {"write", "fail"}, Closed(p, how),
           Tool(p)' = Tool(p), proc'[p].dst = proc[p].dst, proc'[p].buf = <<>>
    PROVE  /\ SameBut({Draft(p)}) /\ DOMAIN fs' = DOMAIN fs /\ fs'[Draft(p)] \in Nodes
           /\ how = "write" => Out(p)' = Out(p) /\ unnoticed' = unnoticed
           /\ how = "fail" => Out(p)' = fs[Draft(p)].data /\ unnoticed' = unnoticed \cup {p}
<1> DEFINE data == fs[Draft(p)].data
           buf == proc[p].buf
<1>1. /\ Out(p) = data \o buf /\ data \in Seq(Chunks) /\ buf \in Seq(Chunks)
      /\ proc[p].dst = Draft(p) /\ Draft(p) \in DOMAIN fs /\ fs[Draft(p)] \in Nodes
      BY OutIsText
<1>2. Draft(p)' = Draft(p)
      BY DEF Draft
<1>3. ASSUME fs'[Draft(p)] \in Nodes, DOMAIN fs' = DOMAIN fs
      PROVE  Out(p)' = fs'[Draft(p)].data
  <2>1. Out(p)' = fs'[Draft(p)].data \o <<>>
        BY <1>1, <1>3 DEF Out, Content, Is, Exists, Nodes
  <2>2. fs'[Draft(p)].data \in Seq(Chunks)
        BY <1>3 DEF Nodes
  <2> QED BY <2>1, <2>2, ConcatEmptySeq
<1>4. CASE how = "write"
  <2>1. fs' = Extended(Draft(p), buf)
        BY <1>1, <1>4 DEF Closed
  <2>2. /\ SameBut({Draft(p)}) /\ DOMAIN fs' = DOMAIN fs /\ fs'[Draft(p)] \in Nodes
        /\ fs'[Draft(p)].data = data \o buf
        BY <1>1, <2>1, ExtendedAt
  <2> QED BY <1>1, <1>3, <1>4, <2>2 DEF Closed
<1>5. CASE how = "fail"
  <2>1. fs' = fs
        BY <1>5 DEF Closed
  <2>2. SameBut({Draft(p)}) /\ DOMAIN fs' = DOMAIN fs /\ fs'[Draft(p)] \in Nodes
        BY <1>1, <2>1 DEF SameBut
  <2> QED BY <1>3, <1>5, <2>1, <2>2 DEF Closed
<1> QED BY <1>4, <1>5

-----------------------------------------------------------------------------
(* Steps that touch no file but p's own.                                   *)

QuietTurn(p, r) ==
    /\ Tool(p) \in EditTools
    /\ r \in Processes /\ r.req = proc[p].req
    /\ proc' = [proc EXCEPT ![p] = r]
    /\ before' = before
    /\ DOMAIN fs' \subseteq Paths /\ SameBut({Draft(p)})
    /\ Tool(p) = "passwd" => fs' = fs \/ lock = p
    /\ unnoticed' = unnoticed \/ unnoticed' = unnoticed \cup {p}
    /\ lock' = lock \/ (lock = p /\ lock' = Nobody) \/ (lock = Nobody /\ lock' = p)

LEMMA QuietStep ==
    ASSUME EditInv, NEW p \in Procs, NEW r, QuietTurn(p, r)
    PROVE  Turn(p, r) /\ FilesRest /\ \A t \in Edited : TargetOK(t)'
<1>1. Draft(p) \in Reach(p)
      BY DEF Draft, Reach
<1>2. SameBut(Reach(p))
      BY <1>1 DEF QuietTurn, SameBut
<1>3. Turn(p, r)
      BY <1>2 DEF Turn, QuietTurn
<1>4. Edited' = Edited /\ before' = before /\ Draft(p) \notin Edited
      BY <1>3, TurnKeepsRequests, NamesAre DEF QuietTurn, EditInv
<1>5. \A t \in Edited : Backup(t) # Draft(p)
      BY NamesAre DEF EditInv, Draft
<1>6. FilesRest
  <2> SUFFICES ASSUME NEW t \in Paths PROVE Current(t)' = Current(t)
      BY DEF FilesRest
  <2>1. SameBut({Draft(p)})
        BY DEF QuietTurn
  <2>2. t \in Edited => t \notin {Draft(p)} /\ (t # Shadow => Backup(t) \notin {Draft(p)})
        BY <1>4, <1>5
  <2> QED BY <1>4, <2>1, <2>2, CurrentAt
<1>7. ASSUME NEW t \in Edited PROVE TargetOK(t)'
  <2>1. t \notin {Draft(p)} /\ SameBut({Draft(p)})
        BY <1>4 DEF QuietTurn
  <2>2. (Exists(t)' <=> Exists(t)) /\ (Exists(t) => fs'[t] = fs[t])
        BY <2>1, SameAt DEF Exists
  <2>3. TargetOK(t)
        BY DEF EditInv
  <2> QED BY <2>2, <2>3 DEF TargetOK, Uniform, AllBy
<1> QED BY <1>3, <1>6, <1>7

LEMMA TurnKeepsInv ==
    ASSUME EditInv, NEW p \in Procs, NEW r, Turn(p, r), EditorOK(p)',
           \A t \in Edited : TargetOK(t)'
    PROVE  EditInv'
<1>1. Typed' /\ Edited' = Edited
      BY TurnKeepsRequests
<1>2. \A q \in Procs \ {p} : EditorOK(q)'
      BY NeighbourOK
<1> QED BY <1>1, <1>2 DEF EditInv

\* A process that is between two files.
LEMMA IdleOK ==
    ASSUME EditInv, NEW p \in Procs, NEW r, Turn(p, r),
           r.pc \in {"start", "ask", "unlock", "exit", "killed"}, r.pc \in Places(Tool(p)) \cup {"exit", "killed"},
           r.pc \in {"start", "ask", "unlock"} => r.buf = <<>>,
           r.pos <= Len(r.input) + 1, WorkLeft(p)', HasShadow(p)'
    PROVE  EditorOK(p)'
<1>1. proc'[p] = r /\ Tool(p)' = Tool(p)
      BY TurnKeepsRequests
<1>2. ~Editing(p)'
      BY <1>1 DEF Editing
<1>3. SedStatus(p)' /\ HasDraft(p)' /\ InputUniform(p)'
      BY <1>1, <1>2 DEF SedStatus, HasDraft, InputUniform, Writing, At
<1>4. WrittenSoFar(p)'
      BY <1>1 DEF WrittenSoFar, At
<1> QED BY <1>1, <1>3, <1>4 DEF EditorOK

\* What a step makes of the record of a process.
Opening(w, f, data) == [w EXCEPT !.src = f, !.input = data, !.pos = 1, !.pc = "temp"]
Going(w, status) == [w EXCEPT !.todo = Tail(w.todo), !.status = status, !.pc = "start"]
Moving(w, pc) == [w EXCEPT !.pc = pc]
Failing(w, pc, status) == [w EXCEPT !.status = status, !.pc = pc]
Starting(w, f) == [w EXCEPT !.dst = f, !.pc = "stream"]
Printing(w, buf, pc) == [w EXCEPT !.pos = w.pos + 1, !.buf = buf, !.pc = pc]
Closing(w, pc) == [w EXCEPT !.buf = <<>>, !.pc = pc]
Replacing(w, f) == [w EXCEPT !.todo = Tail(w.todo), !.pc = "start", !.done = w.done \cup {f}]
Discarding(w, stuck) == [w EXCEPT !.todo = Tail(w.todo), !.status = 1, !.pc = "start", !.stuck = stuck]

LEMMA Types ==
    ASSUME NEW w \in Processes
    PROVE  /\ w.pc \in AllPlaces /\ w.todo \in Seq(Paths) /\ w.input \in Seq(Chunks)
           /\ w.buf \in Seq(Chunks) /\ w.pos \in Nat \ {0} /\ w.status \in {0, 1}
           /\ w.src \in Paths \cup {<<>>} /\ w.dst \in Paths \cup {<<>>}
           /\ w.done \subseteq Paths
           /\ w.todo # <<>> => Tail(w.todo) \in Seq(Paths)
<1>1. w.todo \in Seq(Paths)
      BY DEF Processes
<1> QED BY <1>1 DEF Processes

LEMMA OpeningRecord ==
    ASSUME NEW w \in Processes, NEW f \in Paths, NEW data \in Seq(Chunks)
    PROVE  LET r == Opening(w, f, data)
           IN  /\ r \in Processes
               /\ r.pc = "temp" /\ r.src = f /\ r.input = data /\ r.pos = 1
               /\ r.req = w.req /\ r.todo = w.todo /\ r.status = w.status /\ r.dst = w.dst
               /\ r.buf = w.buf /\ r.done = w.done
<1> DEFINE r == Opening(w, f, data)
<1>1. "temp" \in AllPlaces /\ f \in Paths \cup {<<>>} /\ 1 \in Nat \ {0}
      BY DEF AllPlaces
<1>2. r \in Processes
      BY <1>1 DEF Processes, Opening
<1>3. /\ r.pc = "temp" /\ r.src = f /\ r.input = data /\ r.pos = 1
      /\ r.req = w.req /\ r.todo = w.todo /\ r.status = w.status /\ r.dst = w.dst
      /\ r.buf = w.buf /\ r.done = w.done
      BY DEF Processes, Opening
<1> QED BY <1>2, <1>3

LEMMA GoingRecord ==
    ASSUME NEW w \in Processes, w.todo # <<>>, NEW status \in {0, 1}
    PROVE  LET r == Going(w, status)
           IN  /\ r \in Processes
               /\ r.pc = "start" /\ r.todo = Tail(w.todo) /\ r.status = status
               /\ r.req = w.req /\ r.src = w.src /\ r.dst = w.dst /\ r.input = w.input
               /\ r.pos = w.pos /\ r.buf = w.buf /\ r.done = w.done
<1> DEFINE r == Going(w, status)
<1>1. "start" \in AllPlaces /\ Tail(w.todo) \in Seq(Paths)
      BY Types DEF AllPlaces
<1>2. r \in Processes
      BY <1>1 DEF Processes, Going
<1>3. /\ r.pc = "start" /\ r.todo = Tail(w.todo) /\ r.status = status
      /\ r.req = w.req /\ r.src = w.src /\ r.dst = w.dst /\ r.input = w.input
      /\ r.pos = w.pos /\ r.buf = w.buf /\ r.done = w.done
      BY DEF Processes, Going
<1> QED BY <1>2, <1>3

LEMMA MovingRecord ==
    ASSUME NEW w \in Processes, NEW pc \in AllPlaces
    PROVE  LET r == Moving(w, pc)
           IN  /\ r \in Processes
               /\ r.pc = pc
               /\ r.req = w.req /\ r.todo = w.todo /\ r.status = w.status /\ r.src = w.src
               /\ r.dst = w.dst /\ r.input = w.input /\ r.pos = w.pos /\ r.buf = w.buf /\ r.done = w.done
<1> DEFINE r == Moving(w, pc)
<1>1. pc \in AllPlaces
      BY Types
<1>2. r \in Processes
      BY <1>1 DEF Processes, Moving
<1>3. /\ r.pc = pc
      /\ r.req = w.req /\ r.todo = w.todo /\ r.status = w.status /\ r.src = w.src
      /\ r.dst = w.dst /\ r.input = w.input /\ r.pos = w.pos /\ r.buf = w.buf /\ r.done = w.done
      BY DEF Processes, Moving
<1> QED BY <1>2, <1>3

LEMMA FailingRecord ==
    ASSUME NEW w \in Processes, NEW pc \in AllPlaces, NEW status \in {0, 1}
    PROVE  LET r == Failing(w, pc, status)
           IN  /\ r \in Processes
               /\ r.pc = pc /\ r.status = status
               /\ r.req = w.req /\ r.todo = w.todo /\ r.src = w.src /\ r.dst = w.dst
               /\ r.input = w.input /\ r.pos = w.pos /\ r.buf = w.buf /\ r.done = w.done
<1> DEFINE r == Failing(w, pc, status)
<1>1. pc \in AllPlaces
      BY Types
<1>2. r \in Processes
      BY <1>1 DEF Processes, Failing
<1>3. /\ r.pc = pc /\ r.status = status
      /\ r.req = w.req /\ r.todo = w.todo /\ r.src = w.src /\ r.dst = w.dst
      /\ r.input = w.input /\ r.pos = w.pos /\ r.buf = w.buf /\ r.done = w.done
      BY DEF Processes, Failing
<1> QED BY <1>2, <1>3

LEMMA StartingRecord ==
    ASSUME NEW w \in Processes, NEW f \in Paths
    PROVE  LET r == Starting(w, f)
           IN  /\ r \in Processes
               /\ r.pc = "stream" /\ r.dst = f
               /\ r.req = w.req /\ r.todo = w.todo /\ r.status = w.status /\ r.src = w.src
               /\ r.input = w.input /\ r.pos = w.pos /\ r.buf = w.buf /\ r.done = w.done
<1> DEFINE r == Starting(w, f)
<1>1. "stream" \in AllPlaces /\ f \in Paths \cup {<<>>}
      BY DEF AllPlaces
<1>2. r \in Processes
      BY <1>1 DEF Processes, Starting
<1>3. /\ r.pc = "stream" /\ r.dst = f
      /\ r.req = w.req /\ r.todo = w.todo /\ r.status = w.status /\ r.src = w.src
      /\ r.input = w.input /\ r.pos = w.pos /\ r.buf = w.buf /\ r.done = w.done
      BY DEF Processes, Starting
<1> QED BY <1>2, <1>3

LEMMA PrintingRecord ==
    ASSUME NEW w \in Processes, NEW buf \in Seq(Chunks), NEW pc \in AllPlaces
    PROVE  LET r == Printing(w, buf, pc)
           IN  /\ r \in Processes
               /\ r.pc = pc /\ r.pos = w.pos + 1 /\ r.buf = buf
               /\ r.req = w.req /\ r.todo = w.todo /\ r.status = w.status /\ r.src = w.src
               /\ r.dst = w.dst /\ r.input = w.input /\ r.done = w.done
<1> DEFINE r == Printing(w, buf, pc)
<1>1. w.pos + 1 \in Nat \ {0}
      BY Types
<1>2. r \in Processes
      BY <1>1 DEF Processes, Printing
<1>3. /\ r.pc = pc /\ r.pos = w.pos + 1 /\ r.buf = buf
      /\ r.req = w.req /\ r.todo = w.todo /\ r.status = w.status /\ r.src = w.src
      /\ r.dst = w.dst /\ r.input = w.input /\ r.done = w.done
      BY DEF Processes, Printing
<1> QED BY <1>2, <1>3

LEMMA ClosingRecord ==
    ASSUME NEW w \in Processes, NEW pc \in AllPlaces
    PROVE  LET r == Closing(w, pc)
           IN  /\ r \in Processes
               /\ r.pc = pc /\ r.buf = <<>>
               /\ r.req = w.req /\ r.todo = w.todo /\ r.status = w.status /\ r.src = w.src
               /\ r.dst = w.dst /\ r.input = w.input /\ r.pos = w.pos /\ r.done = w.done
<1> DEFINE r == Closing(w, pc)
<1>1. <<>> \in Seq(Chunks)
      BY EmptySeq
<1>2. r \in Processes
      BY <1>1 DEF Processes, Closing
<1>3. /\ r.pc = pc /\ r.buf = <<>>
      /\ r.req = w.req /\ r.todo = w.todo /\ r.status = w.status /\ r.src = w.src
      /\ r.dst = w.dst /\ r.input = w.input /\ r.pos = w.pos /\ r.done = w.done
      BY DEF Processes, Closing
<1> QED BY <1>2, <1>3

LEMMA ReplacingRecord ==
    ASSUME NEW w \in Processes, w.todo # <<>>, NEW f \in Paths
    PROVE  LET r == Replacing(w, f)
           IN  /\ r \in Processes
               /\ r.pc = "start" /\ r.todo = Tail(w.todo) /\ r.done = w.done \cup {f}
               /\ r.req = w.req /\ r.status = w.status /\ r.src = w.src /\ r.dst = w.dst
               /\ r.input = w.input /\ r.pos = w.pos /\ r.buf = w.buf
<1> DEFINE r == Replacing(w, f)
<1>1. "start" \in AllPlaces /\ Tail(w.todo) \in Seq(Paths) /\ w.done \cup {f} \in SUBSET Paths
      BY Types DEF AllPlaces
<1>2. r \in Processes
      BY <1>1 DEF Processes, Replacing
<1>3. /\ r.pc = "start" /\ r.todo = Tail(w.todo) /\ r.done = w.done \cup {f}
      /\ r.req = w.req /\ r.status = w.status /\ r.src = w.src /\ r.dst = w.dst
      /\ r.input = w.input /\ r.pos = w.pos /\ r.buf = w.buf
      BY DEF Processes, Replacing
<1> QED BY <1>2, <1>3

LEMMA DiscardingRecord ==
    ASSUME NEW w \in Processes, w.todo # <<>>, NEW stuck \in BOOLEAN
    PROVE  LET r == Discarding(w, stuck)
           IN  /\ r \in Processes
               /\ r.pc = "start" /\ r.todo = Tail(w.todo) /\ r.status = 1
               /\ r.req = w.req /\ r.src = w.src /\ r.dst = w.dst /\ r.input = w.input
               /\ r.pos = w.pos /\ r.buf = w.buf /\ r.done = w.done
<1> DEFINE r == Discarding(w, stuck)
<1>1. "start" \in AllPlaces /\ Tail(w.todo) \in Seq(Paths)
      BY Types DEF AllPlaces
<1>2. r \in Processes
      BY <1>1 DEF Processes, Discarding
<1>3. /\ r.pc = "start" /\ r.todo = Tail(w.todo) /\ r.status = 1
      /\ r.req = w.req /\ r.src = w.src /\ r.dst = w.dst /\ r.input = w.input
      /\ r.pos = w.pos /\ r.buf = w.buf /\ r.done = w.done
      BY DEF Processes, Discarding
<1> QED BY <1>2, <1>3

\* What a step does.
Promised(p) == EditInv' /\ Promise!Next

\* The editors of a text; passwd is another matter.
Plain == {"sed", "patch"}

\* What remains of a list of files.
LEMMA TailOfList ==
    ASSUME NEW S, NEW s \in Seq(S), s # <<>>
    PROVE  /\ Head(s) = s[1] /\ 1 \in 1 .. Len(s)
           /\ \A i \in 1 .. Len(Tail(s)) : i + 1 \in 1 .. Len(s) /\ Tail(s)[i] = s[i + 1]
           /\ \A i \in 1 .. Len(s) : i = 1 \/ (i - 1 \in 1 .. Len(Tail(s)) /\ Tail(s)[i - 1] = s[i])
           /\ {s[i] : i \in 1 .. Len(s)} = {Head(s)} \cup {Tail(s)[i] : i \in 1 .. Len(Tail(s))}
<1>1. /\ Head(s) = s[1] /\ 1 \in 1 .. Len(s)
      /\ \A i \in 1 .. Len(Tail(s)) : i + 1 \in 1 .. Len(s) /\ Tail(s)[i] = s[i + 1]
      /\ \A i \in 1 .. Len(s) : i = 1 \/ (i - 1 \in 1 .. Len(Tail(s)) /\ Tail(s)[i - 1] = s[i])
      OBVIOUS
<1>2. ASSUME NEW x \in {s[i] : i \in 1 .. Len(s)}
      PROVE  x \in {Head(s)} \cup {Tail(s)[i] : i \in 1 .. Len(Tail(s))}
  <2>1. PICK i \in 1 .. Len(s) : x = s[i]
        OBVIOUS
  <2> QED BY <1>1, <2>1
<1>3. ASSUME NEW x \in {Head(s)} \cup {Tail(s)[i] : i \in 1 .. Len(Tail(s))}
      PROVE  x \in {s[i] : i \in 1 .. Len(s)}
  <2>1. CASE x = Head(s)
        BY <1>1, <2>1
  <2>2. CASE x \in {Tail(s)[i] : i \in 1 .. Len(Tail(s))}
    <3>1. PICK i \in 1 .. Len(Tail(s)) : x = Tail(s)[i]
          BY <2>2
    <3> QED BY <1>1, <3>1
  <2> QED BY <1>3, <2>1, <2>2
<1> QED BY <1>1, <1>2, <1>3

\* The next file of a request.
LEMMA NextFileAsked ==
    ASSUME EditInv, NEW p \in Procs, Tool(p) \in Plain, proc[p].todo # <<>>
    PROVE  LET f == Head(proc[p].todo)
           IN  f \in Operands(p) /\ f \in Edited /\ f \in Paths /\ f # Shadow
<1>1. proc[p] \in Processes /\ EditorOK(p) /\ Tool(p) \in EditTools
      BY DEF EditInv, Typed, Plain, EditTools
<1>2. proc[p].todo \in Seq(Paths)
      BY <1>1, Types
<1>3. Head(proc[p].todo) = proc[p].todo[1] /\ 1 \in 1 .. Len(proc[p].todo)
      BY <1>2
<1>4. Head(proc[p].todo) \in Operands(p)
      BY <1>1, <1>3 DEF EditorOK, WorkLeft, Plain
<1> QED BY <1>1, <1>4, NamesAre DEF EditInv, Plain

\* sed and patch read a file.
LEMMA TakesText ==
    ASSUME EditInv, NEW p \in Procs, Tool(p) \in Plain, proc[p].pc = "start", proc[p].todo # <<>>,
           Tool(p) = "sed" => proc[p].status = 0,
           NEW f, f = Head(proc[p].todo), NEW data \in Seq(Chunks), Uniform(data),
           fs' = fs, lock' = lock, before' = before,
           unnoticed' = unnoticed \/ unnoticed' = unnoticed \cup {p},
           p \notin unnoticed' => Exists(f) /\ data = Content(f),
           proc' = [proc EXCEPT ![p] = Opening(proc[p], f, data)]
    PROVE  Promised(p)
<1> DEFINE r == Opening(proc[p], f, data)
<1>1. proc[p] \in Processes /\ EditorOK(p) /\ Tool(p) \in EditTools
      BY DEF EditInv, Typed, Plain, EditTools
<1>2. f \in Operands(p) /\ f \in Edited /\ f \in Paths /\ f # Shadow
      BY NextFileAsked
<1>3. /\ r \in Processes /\ r.req = proc[p].req
      /\ r.pc = "temp" /\ r.src = f /\ r.input = data /\ r.pos = 1
      /\ r.todo = proc[p].todo /\ r.status = proc[p].status /\ r.buf = proc[p].buf /\ r.done = proc[p].done
      BY <1>1, <1>2, OpeningRecord
<1> HIDE DEF r
<1>4. QuietTurn(p, r)
  <2>1. SameBut({Draft(p)}) /\ DOMAIN fs' \subseteq Paths
        BY DEF SameBut, EditInv, Typed
  <2> QED BY <1>1, <1>3, <2>1 DEF QuietTurn, r, Plain
<1>5. Turn(p, r) /\ FilesRest /\ \A t \in Edited : TargetOK(t)'
      BY <1>4, QuietStep
<1>6. proc'[p] = r /\ Tool(p)' = Tool(p) /\ Operands(p)' = Operands(p)
      BY <1>5, TurnKeepsRequests
<1>7. ~Editing(p) /\ Editing(p)' /\ proc[p].buf = <<>>
      BY <1>1, <1>3, <1>6 DEF Editing, EditorOK, HasDraft
<1>8. EditorOK(p)'
  <2>1. (proc[p].pc \in Places(Tool(p)) \cup {"exit", "killed"})'
        BY <1>3, <1>6 DEF Places, Plain
  <2>2. WorkLeft(p)'
        BY <1>1, <1>3, <1>6 DEF EditorOK, WorkLeft
  <2>3. SedStatus(p)'
        BY <1>3, <1>6 DEF SedStatus, At
  <2>4. HasDraft(p)'
        BY <1>3, <1>6, <1>7 DEF HasDraft, Writing
  <2>5. WrittenSoFar(p)'
        BY <1>3, <1>6 DEF WrittenSoFar, At
  <2>6. InputUniform(p)'
        BY <1>3, <1>6 DEF InputUniform, Writing, Uniform, AllBy
  <2>7. HasShadow(p)'
        BY <1>6 DEF HasShadow, Plain
  <2> QED BY <2>1, <2>2, <2>3, <2>4, <2>5, <2>6, <2>7 DEF EditorOK
<1>9. EditInv'
      BY <1>5, <1>8, TurnKeepsInv
<1>10. Takes(p)
  <2>1. Result(p) = "running" /\ Result(p)' = "running"
        BY <1>3, <1>6 DEF Result
  <2>2. ASSUME p \notin unnoticed' PROVE CopyOf(p)' = Current(f)
    <3>1. Current(f) = Version(f, data)
          BY <1>2, <2>2 DEF Current
    <3>2. CopyOf(p)' = Version(f, data)'
          BY <1>3, <1>6, <1>7 DEF CopyOf
    <3>3. Version(f, data)' = Version(f, data)
          BY DEF Version, WholeText
    <3> QED BY <3>1, <3>2, <3>3
  <2> QED BY <1>2, <1>3, <1>6, <1>7, <2>1, <2>2 DEF Takes
<1> QED BY <1>5, <1>9, <1>10, StepIsPromised DEF Promised

\* A step that p makes with no file but its own, from the facts about its record.
LEMMA QuietEditor ==
    ASSUME EditInv, NEW p \in Procs, Tool(p) \in EditTools, NEW r \in Processes, r.req = proc[p].req,
           proc' = [proc EXCEPT ![p] = r], before' = before,
           DOMAIN fs' \subseteq Paths, SameBut({Draft(p)}),
           Tool(p) = "passwd" => fs' = fs \/ lock = p,
           unnoticed' = unnoticed \/ unnoticed' = unnoticed \cup {p},
           lock' = lock \/ (lock = p /\ lock' = Nobody) \/ (lock = Nobody /\ lock' = p)
    PROVE  /\ Turn(p, r) /\ FilesRest /\ \A t \in Edited : TargetOK(t)'
           /\ proc'[p] = r /\ Tool(p)' = Tool(p) /\ Operands(p)' = Operands(p) /\ Draft(p)' = Draft(p)
           /\ EditorOK(p)' => EditInv'
<1>1. QuietTurn(p, r)
      BY DEF QuietTurn
<1>2. Turn(p, r) /\ FilesRest /\ \A t \in Edited : TargetOK(t)'
      BY <1>1, QuietStep
<1>3. proc'[p] = r /\ Tool(p)' = Tool(p) /\ Operands(p)' = Operands(p)
      BY <1>2, TurnKeepsRequests
<1>4. EditorOK(p)' => EditInv'
      BY <1>2, TurnKeepsInv
<1> QED BY <1>2, <1>3, <1>4 DEF Draft

\* sed and patch go to the next file with an error.
LEMMA SkipsFile ==
    ASSUME EditInv, NEW p \in Procs, Tool(p) \in Plain, proc[p].pc \in {"start", "temp"},
           proc[p].todo # <<>>, fs' = fs, lock' = lock, before' = before, unnoticed' = unnoticed,
           proc' = [proc EXCEPT ![p] = Going(proc[p], 1)]
    PROVE  Promised(p)
<1> DEFINE r == Going(proc[p], 1)
<1>1. proc[p] \in Processes /\ EditorOK(p) /\ Tool(p) \in EditTools /\ DOMAIN fs \subseteq Paths
      BY DEF EditInv, Typed, Plain, EditTools
<1>2. /\ r \in Processes /\ r.req = proc[p].req
      /\ r.pc = "start" /\ r.todo = Tail(proc[p].todo) /\ r.status = 1
      /\ r.src = proc[p].src /\ r.input = proc[p].input /\ r.pos = proc[p].pos
      /\ r.buf = proc[p].buf /\ r.done = proc[p].done
      BY <1>1, GoingRecord
<1> HIDE DEF r
<1>3. /\ Turn(p, r) /\ FilesRest
      /\ proc'[p] = r /\ Tool(p)' = Tool(p) /\ Operands(p)' = Operands(p)
      /\ EditorOK(p)' => EditInv'
  <2>1. SameBut({Draft(p)})
        BY DEF SameBut
  <2> QED BY <1>1, <1>2, <2>1, QuietEditor DEF r, Plain
<1>4. EditorOK(p)'
  <2>1. WorkLeft(p)'
    <3>1. \A i \in 1 .. Len(r.todo) : r.todo[i] \in Operands(p)
      <4>1. proc[p].todo \in Seq(Paths)
            BY <1>1, Types
      <4> QED BY <1>1, <1>2, <4>1, TailOfList DEF EditorOK, WorkLeft, Plain
    <3>2. ~Editing(p)'
          BY <1>2, <1>3 DEF Editing
    <3>3. proc[p].done \subseteq Operands(p)
          BY <1>1 DEF EditorOK, WorkLeft, Plain
    <3>4. r.done \subseteq Operands(p) /\ r.status = 1
          BY <1>2, <3>3
    <3> QED BY <1>3, <3>1, <3>2, <3>4 DEF WorkLeft
  <2>2. HasShadow(p)'
        BY <1>3 DEF HasShadow, Plain
  <2>3. r.buf = <<>> /\ r.pos <= Len(r.input) + 1 /\ r.pc \in Places(Tool(p))
        BY <1>1, <1>2 DEF EditorOK, HasDraft, WrittenSoFar, Places, Plain
  <2> QED BY <1>2, <1>3, <2>1, <2>2, <2>3, IdleOK
<1>5. Result(p) = "running" /\ Result(p)' = "running" /\ ~Editing(p)'
      BY <1>2, <1>3 DEF Result, Editing
<1>6. CASE Editing(p)
  <2>1. GivesUp(p)
        BY <1>2, <1>3, <1>5, <1>6 DEF GivesUp
  <2> QED BY <1>3, <1>4, <2>1, StepIsPromised DEF Promised
<1>7. CASE ~Editing(p)
  <2>1. Same(p)
        BY <1>2, <1>3, <1>5, <1>7 DEF Same, CopyOf, TargetOf
  <2> QED BY <1>3, <1>4, <2>1, StepIsPromised DEF Promised
<1> QED BY <1>6, <1>7

EditPlaces == {"temp", "stream", "close", "backup", "replace", "discard"}

\* A step in the middle of a file.
LEMMA StaysEditing ==
    ASSUME EditInv, NEW p \in Procs, NEW r, Turn(p, r), Editing(p), r.pc \in EditPlaces,
           r.src = proc[p].src, r.input = proc[p].input, r.done = proc[p].done,
           r.todo = proc[p].todo, r.status \in {proc[p].status, 1}
    PROVE  /\ Editing(p)' /\ Same(p) /\ WorkLeft(p)'
           /\ FilesRest /\ EditInv' => Promised(p)
<1>1. /\ proc'[p] = r /\ Tool(p)' = Tool(p) /\ Operands(p)' = Operands(p)
      /\ Tool(p) \in EditTools /\ proc[p].pc \in EditPlaces /\ EditorOK(p)
      BY TurnKeepsRequests DEF Editing, EditInv, EditPlaces
<1>2. Editing(p)'
      BY <1>1 DEF Editing, EditPlaces
<1>3. \A t, data : Version(t, data)' = Version(t, data)
      BY DEF Version, WholeText, Turn
<1>4. CopyOf(p)' = CopyOf(p) /\ TargetOf(p)' = TargetOf(p)
      BY <1>1, <1>2, <1>3 DEF CopyOf, TargetOf
<1>5. Result(p) = "running" /\ Result(p)' = "running"
      BY <1>1 DEF Result, EditPlaces
<1>6. Same(p)
      BY <1>1, <1>4, <1>5 DEF Same
<1>7. WorkLeft(p)'
  <2>1. SUFFICES ASSUME Tool(p) \in {"sed", "patch"} PROVE WorkLeft(p)'
        BY <1>1 DEF WorkLeft
  <2>2. /\ \A i \in 1 .. Len(proc[p].todo) : proc[p].todo[i] \in Operands(p)
        /\ proc[p].done \subseteq Operands(p)
        /\ proc[p].status = 0 =>
             Operands(p) \subseteq proc[p].done \cup {proc[p].todo[i] : i \in 1 .. Len(proc[p].todo)}
        /\ proc[p].todo # <<>> /\ proc[p].src = Head(proc[p].todo)
        BY <1>1, <2>1 DEF EditorOK, WorkLeft
  <2> QED BY <1>1, <2>2 DEF WorkLeft
<1>8. FilesRest /\ EditInv' => Promised(p)
      BY <1>6, StepIsPromised DEF Promised
<1> QED BY <1>2, <1>6, <1>7, <1>8

\* A step that leaves a file, or between two.
LEMMA LetsGo ==
    ASSUME EditInv, NEW p \in Procs, NEW r, Turn(p, r), proc[p].pc \notin {"exit", "killed"},
           r.pc \in {"start", "ask", "unlock"}, r.src = proc[p].src, r.done = proc[p].done,
           FilesRest, EditInv'
    PROVE  Promised(p)
<1>1. proc'[p] = r /\ Tool(p)' = Tool(p) /\ Tool(p) \in EditTools
      BY TurnKeepsRequests DEF Turn
<1>2. Result(p) = "running" /\ Result(p)' = "running" /\ ~Editing(p)'
      BY <1>1 DEF Result, Editing
<1>3. CASE Editing(p)
  <2>1. GivesUp(p)
        BY <1>1, <1>2, <1>3 DEF GivesUp
  <2> QED BY <2>1, StepIsPromised DEF Promised
<1>4. CASE ~Editing(p)
  <2>1. Same(p)
        BY <1>1, <1>2, <1>4 DEF Same, CopyOf, TargetOf
  <2> QED BY <2>1, StepIsPromised DEF Promised
<1> QED BY <1>3, <1>4

LEMMA AllOfAppend ==
    ASSUME NEW s \in Seq(Chunks), NEW chunk \in Chunks, NEW b, AllBy(s, b), chunk.by = b
    PROVE  AllBy(Append(s, chunk), b)
BY DEF AllBy

LEMMA AllOfPrefix ==
    ASSUME NEW s \in Seq(Chunks), NEW t \in Seq(Chunks), NEW b, AllBy(s \o t, b)
    PROVE  AllBy(s, b)
<1> SUFFICES ASSUME NEW i \in 1 .. Len(s) PROVE s[i].by = b
    BY DEF AllBy
<1>1. Len(s \o t) = Len(s) + Len(t) /\ (s \o t)[i] = s[i]
      OBVIOUS
<1>2. i \in 1 .. Len(s \o t)
      BY <1>1
<1> QED BY <1>1, <1>2 DEF AllBy

\* An editor makes its temporary file.
LEMMA MakesTemp ==
    ASSUME EditInv, NEW p \in Procs, Tool(p) \in EditTools, proc[p].pc = "temp",
           fs' = Put(Draft(p), Empty), lock' = lock, before' = before, unnoticed' = unnoticed,
           proc' = [proc EXCEPT ![p] = Starting(proc[p], Draft(p))]
    PROVE  Promised(p)
<1> DEFINE r == Starting(proc[p], Draft(p))
<1>1. /\ proc[p] \in Processes /\ EditorOK(p) /\ DOMAIN fs \subseteq Paths
      /\ Draft(p) \in Paths
      BY NamesAre DEF EditInv, Typed
<1>2. /\ r \in Processes /\ r.req = proc[p].req
      /\ r.pc = "stream" /\ r.dst = Draft(p)
      /\ r.src = proc[p].src /\ r.input = proc[p].input /\ r.pos = proc[p].pos
      /\ r.buf = proc[p].buf /\ r.done = proc[p].done
      /\ r.todo = proc[p].todo /\ r.status = proc[p].status
      BY <1>1, StartingRecord
<1> HIDE DEF r
<1>3. SameBut({Draft(p)}) /\ DOMAIN fs' = DOMAIN fs \cup {Draft(p)} /\ fs'[Draft(p)] = Empty
      BY <1>1, PutAt
<1>4. /\ Turn(p, r) /\ FilesRest
      /\ proc'[p] = r /\ Tool(p)' = Tool(p) /\ Operands(p)' = Operands(p) /\ Draft(p)' = Draft(p)
      /\ EditorOK(p)' => EditInv'
  <2>1. Tool(p) = "passwd" => lock = p
        BY <1>1 DEF EditorOK, HasShadow
  <2>2. DOMAIN fs' \subseteq Paths
        BY <1>1, <1>3
  <2> QED BY <1>1, <1>2, <1>3, <2>1, <2>2, QuietEditor DEF r
<1>5. proc[p].buf = <<>> /\ proc[p].pos = 1 /\ Editing(p)
      BY <1>1 DEF EditorOK, HasDraft, WrittenSoFar, At, Editing
<1>6. Editing(p)' /\ WorkLeft(p)' /\ (FilesRest /\ EditInv' => Promised(p))
  <2>1. r.pc \in EditPlaces
        BY <1>2 DEF EditPlaces
  <2> QED BY <1>2, <1>4, <1>5, <2>1, StaysEditing
<1>7. Out(p)' = <<>>
  <2>1. Content(proc[p].dst)' = <<>>
        BY <1>1, <1>2, <1>3, <1>4 DEF Content, Is, Exists, Empty
  <2>2. Out(p)' = <<>> \o <<>>
        BY <1>2, <1>4, <1>5, <2>1 DEF Out
  <2> QED BY <2>2, EmptySeq, ConcatEmptySeq
<1>8. EditorOK(p)'
  <2>1. (proc[p].pc \in Places(Tool(p)) \cup {"exit", "killed"})'
        BY <1>2, <1>4 DEF Places, EditTools
  <2>2. SedStatus(p)'
        BY <1>1, <1>2, <1>4 DEF EditorOK, SedStatus, At
  <2>3. HasDraft(p)'
    <3>1. Empty \in Nodes
          BY EmptySeq DEF Empty, Nodes
    <3> QED BY <1>1, <1>2, <1>3, <1>4, <1>5, <3>1 DEF HasDraft, Writing, Exists
  <2>4. WrittenSoFar(p)'
    <3>1. Len(Out(p)') = 0
          BY <1>7, EmptySeq
    <3>2. \A i \in 1 .. Len(Out(p)') : FALSE
          BY <3>1
    <3> QED BY <1>1, <1>2, <1>4, <1>5, <3>1, <3>2 DEF EditorOK, WrittenSoFar, At
  <2>5. InputUniform(p)'
    <3>1. SUFFICES ASSUME Tool(p) \in Plain PROVE InputUniform(p)'
          BY <1>4 DEF InputUniform, Plain
    <3>2. \A b : AllBy(<<>>, b)
          BY EmptySeq DEF AllBy
    <3>3. PICK b \in SUBSET Procs : AllBy(proc[p].input, b)
          BY <1>1, <1>5, <3>1 DEF EditorOK, InputUniform, Plain
    <3>4. AllBy(proc[p].input, b)' /\ AllBy(Out(p), b \cup {p})'
          BY <1>2, <1>4, <1>7, <3>2, <3>3 DEF AllBy
    <3> QED BY <3>4 DEF InputUniform
  <2>6. HasShadow(p)'
    <3>1. SUFFICES ASSUME Tool(p) = "passwd" PROVE HasShadow(p)'
          BY <1>4 DEF HasShadow
    <3>2. fs'[Shadow] = fs[Shadow]
      <4>1. Shadow \in Edited /\ Draft(p) \notin Edited
            BY <3>1, NamesAre DEF EditInv
      <4>2. Shadow \in DOMAIN fs
            BY <4>1 DEF EditInv, TargetOK, Exists
      <4>3. Shadow \notin {Draft(p)}
            BY <4>1
      <4> QED BY <1>3, <4>2, <4>3, SameAt
    <3> QED BY <1>1, <1>2, <1>4, <1>5, <3>1, <3>2 DEF EditorOK, HasShadow, At
  <2> QED BY <1>6, <2>1, <2>2, <2>3, <2>4, <2>5, <2>6 DEF EditorOK
<1> QED BY <1>4, <1>6, <1>8

\* An editor prints the edit of a chunk; where that fails, it stops there or does not notice.
LEMMA PrintsChunk ==
    ASSUME EditInv, NEW p \in Procs, Tool(p) \in EditTools, proc[p].pc = "stream",
           proc[p].pos <= Len(proc[p].input),
           NEW chunk, chunk = Edition(p, proc[p].input[proc[p].pos]),
           NEW how \in Hows, Printed(p, chunk, how), NEW pc,
           IF how = "fail" THEN \/ pc = "discard" /\ unnoticed' = unnoticed
                                \/ pc = "stream" /\ unnoticed' = unnoticed \cup {p}
           ELSE pc = "stream" /\ unnoticed' = unnoticed,
           lock' = lock, before' = before,
           proc' = [proc EXCEPT ![p] = Printing(proc[p], Held(p, chunk, how), pc)]
    PROVE  Promised(p)
<1> DEFINE w == proc[p]
           r == Printing(proc[p], Held(p, chunk, how), pc)
<1>1. /\ w \in Processes /\ EditorOK(p) /\ DOMAIN fs \subseteq Paths
      /\ w.input \in Seq(Chunks) /\ w.pos \in Nat \ {0} /\ Editing(p) /\ w.pc \in Writing
      BY Types DEF EditInv, Typed, Editing, Writing
<1>2. w.input[w.pos] \in Chunks
  <2> HIDE DEF w
  <2>1. w.pos \in 1 .. Len(w.input)
        BY <1>1 DEF w
  <2> QED BY <1>1, <2>1
<1>3. chunk \in Chunks /\ (Tool(p) \in Plain => chunk.by = w.input[w.pos].by \cup {p})
      BY <1>2, EditionIsChunk DEF Plain
<1>4. pc \in {"stream", "discard"} /\ pc \in AllPlaces /\ Held(p, chunk, how) \in Seq(Chunks)
  <2>1. Held(p, chunk, how) \in Seq(Chunks)
    <3>1. w.buf \in Seq(Chunks)
          BY <1>1, Types
    <3> QED BY <1>3, <3>1 DEF Held
  <2> QED BY <2>1 DEF AllPlaces
<1>5. /\ r \in Processes /\ r.req = w.req
      /\ r.pc = pc /\ r.pos = w.pos + 1 /\ r.buf = Held(p, chunk, how)
      /\ r.todo = w.todo /\ r.status = w.status /\ r.src = w.src
      /\ r.dst = w.dst /\ r.input = w.input /\ r.done = w.done
      BY <1>1, <1>4, PrintingRecord
<1> HIDE DEF r
<1>6. proc'[p] = r
      BY <1>1 DEF EditInv, Typed, r
<1>7. Tool(p)' = Tool(p)
      BY <1>5, <1>6 DEF Tool
<1>8. /\ SameBut({Draft(p)}) /\ DOMAIN fs' = DOMAIN fs /\ fs'[Draft(p)] \in Nodes
      /\ how # "fail" => Out(p)' = Append(Out(p), chunk)
      /\ how = "fail" => Out(p)' = fs[Draft(p)].data
      BY <1>1, <1>3, <1>5, <1>6, <1>7, PrintedOut
<1>9. /\ Out(p) = fs[Draft(p)].data \o w.buf /\ Out(p) \in Seq(Chunks)
      /\ w.dst = Draft(p) /\ Draft(p) \in DOMAIN fs
      /\ fs[Draft(p)].data \in Seq(Chunks) /\ w.buf \in Seq(Chunks)
      BY <1>1, OutIsText
<1>10. Tool(p) = "passwd" => lock = p
       BY <1>1 DEF EditorOK, HasShadow
<1>11. /\ Turn(p, r) /\ FilesRest /\ Operands(p)' = Operands(p) /\ Draft(p)' = Draft(p)
       /\ EditorOK(p)' => EditInv'
  <2>1. unnoticed' = unnoticed \/ unnoticed' = unnoticed \cup {p}
        OBVIOUS
  <2> QED BY <1>1, <1>5, <1>8, <1>10, <2>1, QuietEditor DEF r
<1>12. Editing(p)' /\ WorkLeft(p)' /\ (FilesRest /\ EditInv' => Promised(p))
  <2>1. r.pc \in EditPlaces
        BY <1>4, <1>5 DEF EditPlaces
  <2> QED BY <1>1, <1>5, <1>11, <2>1, StaysEditing
<1>13. EditorOK(p)'
  <2>1. (proc[p].pc \in Places(Tool(p)) \cup {"exit", "killed"})'
        BY <1>4, <1>5, <1>6, <1>7 DEF Places, EditTools
  <2>2. SedStatus(p)'
        BY <1>1, <1>4, <1>5, <1>6, <1>7 DEF EditorOK, SedStatus, At
  <2>3. HasDraft(p)'
    <3>1. pc = "discard" => Held(p, chunk, how) = <<>>
          BY DEF Held
    <3> QED BY <1>4, <1>5, <1>6, <1>8, <1>9, <1>11, <3>1 DEF HasDraft, Writing, Exists
  <2>4. WrittenSoFar(p)'
    <3>1. w.pos + 1 <= Len(w.input) + 1
          BY <1>1
    <3>2. ASSUME p \notin unnoticed', pc = "stream"
          PROVE  /\ Len(Append(Out(p), chunk)) = (w.pos + 1) - 1
                 /\ \A i \in 1 .. Len(Append(Out(p), chunk)) :
                       Append(Out(p), chunk)[i] = Edition(p, w.input[i])
                 /\ Out(p)' = Append(Out(p), chunk)
      <4>1. how # "fail" /\ p \notin unnoticed
            BY <3>2
      <4>2. Len(Out(p)) = w.pos - 1 /\ \A i \in 1 .. Len(Out(p)) : Out(p)[i] = Edition(p, w.input[i])
            BY <1>1, <4>1 DEF EditorOK, WrittenSoFar
      <4>3. Append(Out(p), chunk)[w.pos] = chunk
        <5>1. Append(Out(p), chunk)[Len(Out(p)) + 1] = chunk
          <6>1. \A s \in Seq(Chunks) : Append(s, chunk)[Len(s) + 1] = chunk
                OBVIOUS
          <6> QED BY <1>9, <6>1
        <5>2. Len(Out(p)) + 1 = w.pos
          <6>1. w.pos \in Nat
                BY <1>1
          <6> HIDE DEF w
          <6> QED BY <4>2, <6>1
        <5> QED BY <5>1, <5>2
      <4> HIDE DEF w
      <4>4. \A i \in 1 .. Len(Out(p)) : Append(Out(p), chunk)[i] = Out(p)[i]
            BY <1>9
      <4>5. Len(Append(Out(p), chunk)) = Len(Out(p)) + 1
            BY <1>9
      <4>6. chunk = Edition(p, w.input[w.pos])
            BY DEF w
      <4>7. w.pos \in Nat
            BY <1>1
      <4> QED BY <1>8, <4>1, <4>2, <4>3, <4>4, <4>5, <4>6, <4>7
    <3>3. \A c : Edition(p, c)' = Edition(p, c)
          BY <1>5, <1>6, <1>7 DEF Edition, Edit
    <3> QED BY <1>4, <1>5, <1>6, <1>7, <3>1, <3>2, <3>3 DEF WrittenSoFar, At
  <2>5. InputUniform(p)'
    <3>1. SUFFICES ASSUME Tool(p) \in Plain PROVE InputUniform(p)'
          BY <1>7 DEF InputUniform, Plain
    <3>2. PICK b \in SUBSET Procs : AllBy(w.input, b) /\ AllBy(Out(p), b \cup {p})
          BY <1>1, <3>1 DEF EditorOK, InputUniform, Plain
    <3>3. w.input[w.pos].by = b
      <4>1. w.pos \in 1 .. Len(w.input)
            BY <1>1
      <4> QED BY <3>2, <4>1 DEF AllBy
    <3>4. AllBy(Append(Out(p), chunk), b \cup {p})
          BY <1>3, <1>9, <3>1, <3>2, <3>3, AllOfAppend
    <3>5. AllBy(fs[Draft(p)].data, b \cup {p})
      <4>1. AllBy(fs[Draft(p)].data \o w.buf, b \cup {p})
            BY <1>9, <3>2
      <4> QED BY <1>9, <4>1, AllOfPrefix
    <3>6. AllBy(Out(p)', b \cup {p})
          BY <1>8, <3>4, <3>5
    <3>7. AllBy(proc[p].input, b)' /\ AllBy(Out(p), b \cup {p})'
          BY <1>5, <1>6, <3>2, <3>6 DEF AllBy
    <3> QED BY <3>7 DEF InputUniform
  <2>6. HasShadow(p)'
    <3>1. SUFFICES ASSUME Tool(p) = "passwd" PROVE HasShadow(p)'
          BY <1>7 DEF HasShadow
    <3>2. fs'[Shadow] = fs[Shadow]
      <4>1. Shadow \in Edited /\ Draft(p) \notin Edited
            BY <3>1, NamesAre DEF EditInv
      <4>2. Shadow \in DOMAIN fs
            BY <4>1 DEF EditInv, TargetOK, Exists
      <4>3. Shadow \notin {Draft(p)}
            BY <4>1
      <4> QED BY <1>8, <4>2, <4>3, SameAt
    <3> QED BY <1>1, <1>4, <1>5, <1>6, <1>7, <3>1, <3>2 DEF EditorOK, HasShadow, At, Editing
  <2> QED BY <1>12, <2>1, <2>2, <2>3, <2>4, <2>5, <2>6 DEF EditorOK
<1> QED BY <1>11, <1>12, <1>13

\* An editor stops on an error, or where it takes an error for the end.
LEMMA StopsEditing ==
    ASSUME EditInv, NEW p \in Procs, Tool(p) \in EditTools, proc[p].pc \in Writing,
           NEW r \in Processes, r.req = proc[p].req, r.todo = proc[p].todo, r.src = proc[p].src,
           r.dst = proc[p].dst, r.input = proc[p].input, r.pos = proc[p].pos,
           r.buf = proc[p].buf, r.done = proc[p].done, r.status \in {proc[p].status, 1},
           \/ /\ proc[p].pc = "stream" /\ r.pc = "close"
              /\ \/ Tool(p) = "sed" /\ r.status = 1
                 \/ Tool(p) = "passwd" /\ p \in unnoticed'
           \/ proc[p].pc \in {"backup", "replace"} /\ r.pc = "discard",
           fs' = fs, lock' = lock, before' = before,
           unnoticed' = unnoticed \/ unnoticed' = unnoticed \cup {p},
           proc' = [proc EXCEPT ![p] = r]
    PROVE  Promised(p)
<1> DEFINE w == proc[p]
<1>1. w \in Processes /\ EditorOK(p) /\ Editing(p) /\ DOMAIN fs \subseteq Paths
      BY DEF EditInv, Typed, Editing, Writing
<1>2. /\ Turn(p, r) /\ FilesRest
      /\ proc'[p] = r /\ Tool(p)' = Tool(p) /\ Operands(p)' = Operands(p) /\ Draft(p)' = Draft(p)
      /\ EditorOK(p)' => EditInv'
  <2>1. SameBut({Draft(p)})
        BY DEF SameBut
  <2> QED BY <1>1, <2>1, QuietEditor
<1>3. Editing(p)' /\ WorkLeft(p)' /\ (FilesRest /\ EditInv' => Promised(p))
  <2>1. r.pc \in EditPlaces
        BY DEF EditPlaces
  <2> QED BY <1>1, <1>2, <2>1, StaysEditing
<1>4. Out(p)' = Out(p)
  <2>1. proc'[p].dst = proc[p].dst /\ proc'[p].buf = proc[p].buf
        BY <1>2
  <2>2. Content(proc[p].dst)' = Content(proc[p].dst)
        BY <2>1 DEF Content, Is, Exists
  <2> QED BY <2>1, <2>2 DEF Out
<1>5. EditorOK(p)'
  <2>1. (proc[p].pc \in Places(Tool(p)) \cup {"exit", "killed"})'
        BY <1>2 DEF Places, EditTools
  <2>2. SedStatus(p)'
        BY <1>2 DEF SedStatus, At
  <2>3. HasDraft(p)'
        BY <1>1, <1>2 DEF EditorOK, HasDraft, Writing, Exists
  <2>4. WrittenSoFar(p)'
        BY <1>1, <1>2 DEF EditorOK, WrittenSoFar, At
  <2>5. InputUniform(p)'
    <3>1. SUFFICES ASSUME Tool(p) \in Plain PROVE InputUniform(p)'
          BY <1>2 DEF InputUniform, Plain
    <3>2. PICK b \in SUBSET Procs : AllBy(w.input, b) /\ AllBy(Out(p), b \cup {p})
          BY <1>1, <3>1 DEF EditorOK, InputUniform, Plain
    <3>3. AllBy(proc[p].input, b)' /\ AllBy(Out(p), b \cup {p})'
          BY <1>2, <1>4, <3>2 DEF AllBy
    <3> QED BY <3>3 DEF InputUniform
  <2>6. HasShadow(p)'
        BY <1>1, <1>2 DEF EditorOK, HasShadow, At, Editing, Writing
  <2> QED BY <1>3, <2>1, <2>2, <2>3, <2>4, <2>5, <2>6 DEF EditorOK
<1> QED BY <1>2, <1>3, <1>5

\* It closes its file, which may lose what was held.
LEMMA ClosesDraft ==
    ASSUME EditInv, NEW p \in Procs, Tool(p) \in EditTools, proc[p].pc \in {"stream", "close"},
           NEW how \in {"write", "fail"}, Closed(p, how), NEW pc \in {"discard", "backup", "replace"},
           pc # "discard" =>
             /\ \/ proc[p].pc = "stream" /\ proc[p].pos > Len(proc[p].input)
                \/ p \in unnoticed
             /\ Tool(p) = "sed" => proc[p].status = 0
             /\ Tool(p) = "passwd" =>
                  \E i \in 1 .. Len(proc[p].input) :
                     i < proc[p].pos /\ proc[p].input[i].id = proc[p].req.user,
           pc = "backup" => Tool(p) = "sed",
           lock' = lock, before' = before,
           proc' = [proc EXCEPT ![p] = Closing(proc[p], pc)]
    PROVE  Promised(p)
<1> DEFINE w == proc[p]
           r == Closing(proc[p], pc)
<1>1. /\ w \in Processes /\ EditorOK(p) /\ DOMAIN fs \subseteq Paths
      /\ w.input \in Seq(Chunks) /\ w.pos \in Nat \ {0} /\ Editing(p) /\ w.pc \in Writing
      /\ pc \in AllPlaces /\ pc \in EditPlaces
  <2>1. pc \in AllPlaces /\ pc \in EditPlaces /\ w.pc \in Writing
        BY DEF AllPlaces, EditPlaces, Writing
  <2> QED BY <2>1, Types DEF EditInv, Typed, Editing
<1>2. /\ r \in Processes /\ r.req = w.req
      /\ r.pc = pc /\ r.pos = w.pos /\ r.buf = <<>>
      /\ r.todo = w.todo /\ r.status = w.status /\ r.src = w.src
      /\ r.dst = w.dst /\ r.input = w.input /\ r.done = w.done
      BY <1>1, ClosingRecord
<1> HIDE DEF r
<1>3. proc'[p] = r
      BY <1>1 DEF EditInv, Typed, r
<1>4. Tool(p)' = Tool(p)
      BY <1>2, <1>3 DEF Tool
<1>5. /\ SameBut({Draft(p)}) /\ DOMAIN fs' = DOMAIN fs /\ fs'[Draft(p)] \in Nodes
      /\ how = "write" => Out(p)' = Out(p) /\ unnoticed' = unnoticed
      /\ how = "fail" => Out(p)' = fs[Draft(p)].data /\ unnoticed' = unnoticed \cup {p}
      BY <1>1, <1>2, <1>3, <1>4, ClosedOut
<1>6. /\ Out(p) = fs[Draft(p)].data \o w.buf /\ Out(p) \in Seq(Chunks)
      /\ w.dst = Draft(p) /\ Draft(p) \in DOMAIN fs
      /\ fs[Draft(p)].data \in Seq(Chunks) /\ w.buf \in Seq(Chunks)
      BY <1>1, OutIsText
<1>7. Tool(p) = "passwd" => lock = p
      BY <1>1 DEF EditorOK, HasShadow
<1>8. /\ Turn(p, r) /\ FilesRest /\ Operands(p)' = Operands(p) /\ Draft(p)' = Draft(p)
      /\ EditorOK(p)' => EditInv'
  <2>1. unnoticed' = unnoticed \/ unnoticed' = unnoticed \cup {p}
        BY <1>5
  <2> QED BY <1>1, <1>2, <1>5, <1>7, <2>1, QuietEditor DEF r
<1>9. Editing(p)' /\ WorkLeft(p)' /\ (FilesRest /\ EditInv' => Promised(p))
  <2>1. r.pc \in EditPlaces
        BY <1>1, <1>2
  <2> QED BY <1>1, <1>2, <1>8, <2>1, StaysEditing
<1>10. EditorOK(p)'
  <2>1. (proc[p].pc \in Places(Tool(p)) \cup {"exit", "killed"})'
        BY <1>2, <1>3, <1>4 DEF Places, EditTools
  <2>2. SedStatus(p)'
        BY <1>2, <1>3, <1>4 DEF SedStatus, At
  <2>3. HasDraft(p)'
        BY <1>2, <1>3, <1>5, <1>6, <1>8 DEF HasDraft, Writing, Exists
  <2>4. WrittenSoFar(p)'
    <3>1. w.pos <= Len(w.input) + 1
          BY <1>1 DEF EditorOK, WrittenSoFar
    <3>2. ASSUME p \notin unnoticed', pc # "discard"
          PROVE  /\ w.pos = Len(w.input) + 1
                 /\ Len(Out(p)) = w.pos - 1
                 /\ \A i \in 1 .. Len(Out(p)) : Out(p)[i] = Edition(p, w.input[i])
                 /\ Out(p)' = Out(p)
      <4>1. p \notin unnoticed /\ Out(p)' = Out(p)
            BY <1>5, <3>2
      <4>2. w.pc = "stream" /\ w.pos > Len(w.input)
            BY <3>2, <4>1
      <4>3. Len(Out(p)) = w.pos - 1 /\ \A i \in 1 .. Len(Out(p)) : Out(p)[i] = Edition(p, w.input[i])
            BY <1>1, <4>1, <4>2 DEF EditorOK, WrittenSoFar
      <4>4. w.pos = Len(w.input) + 1
        <5>1. w.pos \in Nat /\ Len(w.input) \in Nat
              BY <1>1
        <5> QED BY <3>1, <4>2, <5>1
      <4> QED BY <4>1, <4>3, <4>4
    <3>3. \A c : Edition(p, c)' = Edition(p, c)
          BY <1>2, <1>3, <1>4 DEF Edition, Edit
    <3> QED BY <1>2, <1>3, <1>4, <3>1, <3>2, <3>3 DEF WrittenSoFar, At
  <2>5. InputUniform(p)'
    <3>1. SUFFICES ASSUME Tool(p) \in Plain PROVE InputUniform(p)'
          BY <1>4 DEF InputUniform, Plain
    <3>2. PICK b \in SUBSET Procs : AllBy(w.input, b) /\ AllBy(Out(p), b \cup {p})
          BY <1>1, <3>1 DEF EditorOK, InputUniform, Plain
    <3>3. AllBy(fs[Draft(p)].data, b \cup {p})
      <4>1. AllBy(fs[Draft(p)].data \o w.buf, b \cup {p})
            BY <1>6, <3>2
      <4> QED BY <1>6, <4>1, AllOfPrefix
    <3>4. AllBy(Out(p)', b \cup {p})
          BY <1>5, <3>2, <3>3
    <3>5. AllBy(proc[p].input, b)' /\ AllBy(Out(p), b \cup {p})'
          BY <1>2, <1>3, <3>2, <3>4 DEF AllBy
    <3> QED BY <3>5 DEF InputUniform
  <2>6. HasShadow(p)'
    <3>1. SUFFICES ASSUME Tool(p) = "passwd" PROVE HasShadow(p)'
          BY <1>4 DEF HasShadow
    <3>2. fs'[Shadow] = fs[Shadow]
      <4>1. Shadow \in Edited /\ Draft(p) \notin Edited
            BY <3>1, NamesAre DEF EditInv
      <4>2. Shadow \in DOMAIN fs
            BY <4>1 DEF EditInv, TargetOK, Exists
      <4>3. Shadow \notin {Draft(p)}
            BY <4>1
      <4> QED BY <1>5, <4>2, <4>3, SameAt
    <3>3. w.src = Shadow /\ w.input = fs[Shadow].data /\ w.done \subseteq {Shadow}
          BY <1>1, <3>1 DEF EditorOK, HasShadow
    <3>4. pc = "replace" =>
            \E i \in 1 .. Len(w.input) : i < w.pos /\ w.input[i].id = w.req.user
          BY <3>1
    <3> QED BY <1>2, <1>3, <1>4, <1>7, <3>1, <3>2, <3>3, <3>4 DEF HasShadow, At
  <2> QED BY <1>9, <2>1, <2>2, <2>3, <2>4, <2>5, <2>6 DEF EditorOK
<1> QED BY <1>8, <1>9, <1>10

\* Where the file of an editor is.
LEMMA SourceAndDraft ==
    ASSUME EditInv, NEW p \in Procs, Editing(p)
    PROVE  LET f == proc[p].src
           IN  /\ f \in Edited /\ f \in Paths /\ Single(f) /\ f # Draft(p)
               /\ Draft(p) \in Paths /\ Single(Draft(p))
               /\ Tool(p) = "passwd" <=> f = Shadow
               /\ f # Shadow => Backup(f) \in Paths /\ Single(Backup(f))
               /\ Backup(f) # f /\ Backup(f) # Draft(p)
               /\ \A t \in Edited : t # f => t # Draft(p) /\ t # Backup(f) /\ Backup(t) # f
                                             /\ Backup(t) # Draft(p) /\ Backup(t) # Backup(f)
<1> DEFINE f == proc[p].src
<1>1. Typed /\ Tool(p) \in EditTools /\ f \in Operands(p) /\ f \in Edited
      BY SourceIsAsked DEF EditInv, Editing
<1>2. Draft(p) \in {Temp[q] : q \in Procs} \cup {ShadowTmp}
      BY DEF Draft
<1>3. /\ Draft(p) \in Paths /\ Single(Draft(p)) /\ Draft(p) \notin Edited
      /\ Tool(p) = "passwd" => Operands(p) = {Shadow}
      /\ Tool(p) # "passwd" => Shadow \notin Operands(p)
      BY <1>1, NamesAre
<1>4. \A t \in Edited :
        /\ Backup(t) \notin Edited \cup {Temp[q] : q \in Procs} \cup {ShadowTmp}
        /\ \A u \in Edited : Backup(u) = Backup(t) => u = t
      BY <1>1, NamesAre
<1>5. /\ f \in Paths /\ Single(f)
      /\ f # Shadow => Backup(f) \in Paths /\ Single(Backup(f))
      BY <1>1, NamesAre
<1> HIDE DEF f
<1>6. \A t \in Edited : Backup(t) # Draft(p)
      BY <1>2, <1>4
<1>7. Tool(p) = "passwd" <=> f = Shadow
      BY <1>1, <1>3
<1> QED BY <1>1, <1>3, <1>4, <1>5, <1>6, <1>7 DEF f

\* sed -iSUFFIX gives the file its other name: its content is where Current looks for it.
LEMMA BacksUp ==
    ASSUME EditInv, NEW p \in Procs, Tool(p) = "sed", proc[p].pc = "backup",
           NEW f, f = proc[p].src, Exists(f),
           fs' = Renamed(f, Backup(f)), lock' = lock, before' = before, unnoticed' = unnoticed,
           proc' = [proc EXCEPT ![p] = Moving(proc[p], "replace")]
    PROVE  Promised(p)
<1> DEFINE w == proc[p]
           r == Moving(proc[p], "replace")
<1>1. /\ w \in Processes /\ EditorOK(p) /\ DOMAIN fs \subseteq Paths /\ Editing(p)
      /\ Tool(p) \in EditTools /\ w.pc \in Writing /\ "replace" \in AllPlaces
      BY DEF EditInv, Typed, Editing, EditTools, Writing, AllPlaces
<1>2. /\ r \in Processes /\ r.req = w.req
      /\ r.pc = "replace" /\ r.pos = w.pos /\ r.buf = w.buf
      /\ r.todo = w.todo /\ r.status = w.status /\ r.src = w.src
      /\ r.dst = w.dst /\ r.input = w.input /\ r.done = w.done
      BY <1>1, MovingRecord
<1> HIDE DEF r
<1>3. /\ f \in Edited /\ f \in Paths /\ Single(f) /\ f # Draft(p) /\ f # Shadow
      /\ Backup(f) \in Paths /\ Single(Backup(f)) /\ Backup(f) # f /\ Backup(f) # Draft(p)
      /\ \A t \in Edited : t # f => t # Backup(f) /\ Backup(t) # f /\ Backup(t) # Backup(f)
      BY <1>1, SourceAndDraft
<1>4. /\ SameBut({f, Backup(f)})
      /\ DOMAIN fs' = (DOMAIN fs \ {f}) \cup {Backup(f)}
      /\ fs'[Backup(f)] = fs[f]
      BY <1>1, <1>3, RenamedAt DEF Exists
<1>5. Turn(p, r)
  <2>1. f \in Reach(p) /\ Backup(f) \in Reach(p)
        BY <1>3 DEF Reach
  <2>2. SameBut(Reach(p))
        BY <1>4, <2>1 DEF SameBut
  <2>3. DOMAIN fs' \subseteq Paths
        BY <1>1, <1>3, <1>4
  <2> QED BY <1>1, <1>2, <2>2, <2>3 DEF Turn, r
<1>6. /\ proc'[p] = r /\ Tool(p)' = Tool(p) /\ Operands(p)' = Operands(p) /\ Edited' = Edited
      /\ Draft(p)' = Draft(p)
  <2>1. proc'[p] = r /\ Tool(p)' = Tool(p) /\ Operands(p)' = Operands(p) /\ Edited' = Edited
        BY <1>5, TurnKeepsRequests
  <2> QED BY <2>1 DEF Draft
<1>7. Editing(p)' /\ WorkLeft(p)' /\ (FilesRest /\ EditInv' => Promised(p))
  <2>1. r.pc \in EditPlaces
        BY <1>2 DEF EditPlaces
  <2> QED BY <1>1, <1>2, <1>5, <2>1, StaysEditing
<1>8. FilesRest
  <2> SUFFICES ASSUME NEW t \in Paths PROVE Current(t)' = Current(t)
      BY DEF FilesRest
  <2>1. CASE t # f
    <3>1. t \in Edited => t \notin {f, Backup(f)} /\ (t # Shadow => Backup(t) \notin {f, Backup(f)})
          BY <1>3, <2>1
    <3> QED BY <1>4, <1>6, <3>1, CurrentAt
  <2>2. CASE t = f
    <3>1. Current(f) = Version(f, Content(f))
          BY <1>3 DEF Current
    <3>2. ~Exists(f)' /\ Exists(Backup(f))'
          BY <1>3, <1>4 DEF Exists
    <3>3. Current(f)' = Version(f, Content(Backup(f)))'
          BY <1>3, <1>6, <3>2 DEF Current
    <3>4. Content(Backup(f))' = Content(f)
          BY <1>4, <3>2 DEF Content, Is, Exists
    <3>5. Version(f, Content(Backup(f)))' = Version(f, Content(f))
          BY <3>4 DEF Version, WholeText
    <3> QED BY <2>2, <3>1, <3>3, <3>5
  <2> QED BY <2>1, <2>2
<1>9. ASSUME NEW t \in Edited PROVE TargetOK(t)'
  <2>1. TargetOK(t)
        BY DEF EditInv
  <2>2. CASE t = f
        BY <1>3, <1>4, <2>2 DEF TargetOK, Exists
  <2>3. CASE t # f
    <3>1. t \notin {f, Backup(f)}
          BY <1>3, <2>3
    <3>2. (Exists(t)' <=> Exists(t)) /\ (Exists(t) => fs'[t] = fs[t])
          BY <1>4, <3>1, SameAt DEF Exists
    <3>3. Uniform(fs[t].data)' <=> Uniform(fs'[t].data)
          BY DEF Uniform, AllBy
    <3>4. Exists(t)' => fs'[t] \in Nodes /\ (t # Shadow => Uniform(fs'[t].data))
          BY <2>1, <3>2 DEF TargetOK
    <3> QED BY <2>1, <3>2, <3>3, <3>4 DEF TargetOK
  <2> QED BY <2>2, <2>3
<1>10. /\ Draft(p) \in DOMAIN fs /\ fs[Draft(p)] \in Nodes /\ w.dst = Draft(p)
       /\ Draft(p) \in DOMAIN fs' /\ fs'[Draft(p)] = fs[Draft(p)]
  <2>1. Draft(p) \in DOMAIN fs /\ fs[Draft(p)] \in Nodes /\ w.dst = Draft(p)
        BY <1>1 DEF EditorOK, HasDraft, Exists
  <2>2. Draft(p) \notin {f, Backup(f)}
        BY <1>3
  <2> QED BY <1>4, <2>1, <2>2, SameAt
<1>11. Out(p)' = Out(p)
  <2>1. Content(w.dst)' = Content(w.dst)
        BY <1>2, <1>6, <1>10 DEF Content, Is, Exists
  <2> QED BY <1>2, <1>6, <2>1 DEF Out
<1>12. EditorOK(p)'
  <2>1. (proc[p].pc \in Places(Tool(p)) \cup {"exit", "killed"})'
        BY <1>2, <1>6 DEF Places
  <2>2. SedStatus(p)'
        BY <1>1, <1>2, <1>6 DEF EditorOK, SedStatus, At
  <2>3. HasDraft(p)'
        BY <1>1, <1>2, <1>6, <1>10 DEF EditorOK, HasDraft, Writing, Exists
  <2>4. WrittenSoFar(p)'
    <3>1. \A c : Edition(p, c)' = Edition(p, c)
          BY <1>2, <1>6 DEF Edition, Edit
    <3> QED BY <1>1, <1>2, <1>6, <1>11, <3>1 DEF EditorOK, WrittenSoFar, At
  <2>5. InputUniform(p)'
    <3>1. PICK b \in SUBSET Procs : AllBy(w.input, b) /\ AllBy(Out(p), b \cup {p})
          BY <1>1 DEF EditorOK, InputUniform
    <3>2. AllBy(proc[p].input, b)' /\ AllBy(Out(p), b \cup {p})'
          BY <1>2, <1>6, <1>11, <3>1 DEF AllBy
    <3> QED BY <3>2 DEF InputUniform
  <2>6. HasShadow(p)'
        BY <1>6 DEF HasShadow
  <2> QED BY <1>7, <2>1, <2>2, <2>3, <2>4, <2>5, <2>6 DEF EditorOK
<1>13. EditInv'
       BY <1>5, <1>9, <1>12, TurnKeepsInv
<1> QED BY <1>7, <1>8, <1>13

\* The rename that installs what an editor has written.
LEMMA InstallsDraft ==
    ASSUME EditInv, NEW p \in Procs, Tool(p) \in EditTools, proc[p].pc = "replace",
           NEW f, f = proc[p].src, fs' = Renamed(proc[p].dst, f),
           lock' = lock, before' = before, unnoticed' = unnoticed,
           NEW r \in Processes, r.req = proc[p].req, r.pc \in {"start", "unlock"},
           r.done = proc[p].done \cup {f}, proc' = [proc EXCEPT ![p] = r]
    PROVE  /\ Turn(p, r) /\ proc'[p] = r /\ Tool(p)' = Tool(p) /\ Operands(p)' = Operands(p)
           /\ EditorOK(p)' => Promised(p)
<1> DEFINE w == proc[p]
           d == Draft(p)
<1>1. /\ w \in Processes /\ EditorOK(p) /\ DOMAIN fs \subseteq Paths /\ Editing(p)
      /\ w.pc \in Writing /\ w.buf = <<>> /\ w.dst = d
  <2>1. w \in Processes /\ EditorOK(p) /\ DOMAIN fs \subseteq Paths /\ Editing(p) /\ w.pc \in Writing
        BY DEF EditInv, Typed, Editing, Writing
  <2> QED BY <2>1 DEF EditorOK, HasDraft
<1>2. /\ f \in Edited /\ f \in Paths /\ Single(f) /\ f # d
      /\ d \in Paths /\ Single(d)
      /\ Tool(p) = "passwd" <=> f = Shadow
      /\ \A t \in Edited : t # f => t # d /\ Backup(t) # f /\ Backup(t) # d
      BY <1>1, SourceAndDraft
<1>3. /\ Out(p) = fs[d].data \o w.buf /\ d \in DOMAIN fs /\ fs[d] \in Nodes
      /\ fs[d].data \in Seq(Chunks)
      BY <1>1, OutIsText
<1>4. Out(p) = fs[d].data
      BY <1>1, <1>3, ConcatEmptySeq
<1> HIDE DEF d
<1>5. /\ SameBut({d, f}) /\ DOMAIN fs' = (DOMAIN fs \ {d}) \cup {f} /\ fs'[f] = fs[d]
  <2>1. fs' = Renamed(d, f)
        BY <1>1
  <2> QED BY <1>1, <1>2, <1>3, <2>1, RenamedAt
<1>6. Turn(p, r)
  <2>1. d \in Reach(p) /\ f \in Reach(p)
        BY <1>2 DEF Reach, Draft, d
  <2>2. SameBut(Reach(p)) /\ DOMAIN fs' \subseteq Paths
        BY <1>1, <1>2, <1>5, <2>1 DEF SameBut
  <2>3. Tool(p) = "passwd" => lock = p
        BY <1>1 DEF EditorOK, HasShadow
  <2> QED BY <2>2, <2>3 DEF Turn
<1>7. proc'[p] = r /\ Tool(p)' = Tool(p) /\ Operands(p)' = Operands(p) /\ Edited' = Edited
      BY <1>6, TurnKeepsRequests
<1>8. w.input \in Seq(Chunks) /\ (Tool(p) # "passwd" => Uniform(w.input) /\ Uniform(fs[d].data))
  <2>1. ASSUME Tool(p) # "passwd" PROVE Uniform(w.input) /\ Uniform(fs[d].data)
    <3>1. PICK b \in SUBSET Procs : AllBy(w.input, b) /\ AllBy(Out(p), b \cup {p})
          BY <1>1, <2>1 DEF EditorOK, InputUniform, EditTools
    <3>2. b \cup {p} \in SUBSET Procs
          OBVIOUS
    <3> QED BY <1>4, <3>1, <3>2 DEF Uniform
  <2> QED BY <1>1, <2>1, Types
<1>9. ASSUME NEW t \in Edited PROVE TargetOK(t)'
  <2>1. TargetOK(t)
        BY DEF EditInv
  <2>2. CASE t = f
    <3>1. Exists(t)' /\ fs'[t] = fs[d]
          BY <1>5, <2>2 DEF Exists
    <3>2. t # Shadow => Uniform(fs[d].data)
          BY <1>2, <1>8, <2>2
    <3>3. fs'[t] \in Nodes
          BY <1>3, <3>1
    <3>4. t # Shadow => Uniform(fs[t].data)'
          BY <3>1, <3>2 DEF Uniform, AllBy
    <3> QED BY <3>1, <3>3, <3>4 DEF TargetOK
  <2>3. CASE t # f
    <3>1. t \notin {d, f}
          BY <1>2, <2>3
    <3>2. (Exists(t)' <=> Exists(t)) /\ (Exists(t) => fs'[t] = fs[t])
          BY <1>5, <3>1, SameAt DEF Exists
    <3>3. t = Shadow => Exists(t)'
          BY <2>1, <3>2 DEF TargetOK
    <3>4. ASSUME Exists(t)'
          PROVE  fs'[t] \in Nodes /\ (t # Shadow => Uniform(fs[t].data)')
      <4>1. fs'[t] = fs[t] /\ fs[t] \in Nodes /\ (t # Shadow => Uniform(fs[t].data))
            BY <2>1, <3>2, <3>4 DEF TargetOK
      <4>2. Uniform(fs[t].data) => Uniform(fs[t].data)'
            BY <4>1 DEF Uniform, AllBy
      <4> QED BY <4>1, <4>2
    <3> QED BY <3>3, <3>4 DEF TargetOK
  <2> QED BY <2>2, <2>3
<1>10. \A t \in Paths \ {f} : Current(t)' = Current(t)
  <2> SUFFICES ASSUME NEW t \in Paths \ {f} PROVE Current(t)' = Current(t)
      OBVIOUS
  <2>1. t \in Edited => t \notin {d, f} /\ (t # Shadow => Backup(t) \notin {d, f})
        BY <1>2
  <2> QED BY <1>5, <1>7, <2>1, CurrentAt
<1>11. CopyOf(p) = Version(f, w.input)
       BY <1>1 DEF CopyOf
<1>12. ASSUME p \notin unnoticed PROVE Current(f)' = Promise!With(CopyOf(p), p)
  <2>1. Len(Out(p)) = w.pos - 1 /\ w.pos = Len(w.input) + 1
        /\ \A i \in 1 .. Len(Out(p)) : Out(p)[i] = Edition(p, w.input[i])
        BY <1>1, <1>12 DEF EditorOK, WrittenSoFar
  <2>2. Len(fs[d].data) = Len(w.input)
    <3>1. Len(w.input) \in Nat
          BY <1>8
    <3> HIDE DEF w
    <3> QED BY <1>4, <2>1, <3>1
  <2>3. \A i \in 1 .. Len(fs[d].data) : fs[d].data[i] = Edition(p, w.input[i])
        BY <1>4, <2>1
  <2>4. \/ Tool(p) # "passwd" /\ f # Shadow /\ Uniform(w.input)
        \/ /\ Tool(p) = "passwd" /\ f = Shadow
           /\ \E i \in 1 .. Len(w.input) : w.input[i].id = w.req.user
    <3>1. Tool(p) = "passwd" => \E i \in 1 .. Len(w.input) : w.input[i].id = w.req.user
          BY <1>1 DEF EditorOK, HasShadow, At
    <3> QED BY <1>2, <1>8, <3>1
  <2>5. Version(f, fs[d].data) = Promise!With(Version(f, w.input), p)
        BY <1>2, <1>3, <1>8, <2>2, <2>3, <2>4, EditedVersion
  <2>6. Current(f)' = Version(f, Content(f))'
        BY <1>2, <1>5, <1>7 DEF Current, Exists
  <2>7. Content(f)' = fs[d].data
        BY <1>3, <1>5 DEF Content, Is, Exists, Nodes
  <2>8. Version(f, Content(f))' = Version(f, fs[d].data)
        BY <2>7 DEF Version, WholeText
  <2> QED BY <1>11, <2>5, <2>6, <2>8
<1>13. ASSUME Tool(p) = "passwd" PROVE Current(f) = CopyOf(p)
  <2>1. f = Shadow /\ w.input = fs[Shadow].data
        BY <1>1, <1>2, <1>13 DEF EditorOK, HasShadow
  <2>2. Exists(f) /\ fs[f] \in Nodes
        BY <1>2, <2>1 DEF EditInv, TargetOK
  <2>3. Content(f) = w.input
        BY <2>1, <2>2 DEF Content, Is, Nodes
  <2> QED BY <1>2, <1>11, <2>2, <2>3 DEF Current
<1>14. ~Editing(p)' /\ Result(p)' = Result(p)
       BY <1>1, <1>7 DEF Editing, Result, At
<1>15. Installs(p)
  <2>1. proc'[p].done = proc[p].done \cup {proc[p].src}
        BY <1>7
  <2>2. p \notin unnoticed => \A t \in Paths : t = proc[p].src => Current(t)' = Promise!With(CopyOf(p), p)
        BY <1>12
  <2> QED BY <1>1, <1>10, <1>13, <1>14, <2>1, <2>2 DEF Installs
<1>16. EditorOK(p)' => Promised(p)
       BY <1>6, <1>9, <1>15, TurnKeepsInv, StepIsPromised DEF Promised
<1> QED BY <1>6, <1>7, <1>16

\* sed and patch have replaced a file.
LEMMA ReplacesFile ==
    ASSUME EditInv, NEW p \in Procs, Tool(p) \in Plain, proc[p].pc = "replace",
           fs' = Renamed(proc[p].dst, proc[p].src),
           lock' = lock, before' = before, unnoticed' = unnoticed,
           proc' = [proc EXCEPT ![p] = Replacing(proc[p], proc[p].src)]
    PROVE  Promised(p)
<1> DEFINE w == proc[p]
           f == proc[p].src
           r == Replacing(proc[p], f)
<1>1. /\ w \in Processes /\ EditorOK(p) /\ Tool(p) \in EditTools /\ Editing(p)
      BY DEF EditInv, Typed, Plain, EditTools, Editing
<1>2. /\ w.todo # <<>> /\ f = Head(w.todo) /\ w.done \subseteq Operands(p) /\ w.buf = <<>>
      /\ w.pos <= Len(w.input) + 1 /\ w.todo \in Seq(Paths)
      /\ \A i \in 1 .. Len(w.todo) : w.todo[i] \in Operands(p)
      /\ w.status = 0 => Operands(p) \subseteq w.done \cup {w.todo[i] : i \in 1 .. Len(w.todo)}
      BY <1>1, Types DEF EditorOK, WorkLeft, Plain, HasDraft, WrittenSoFar
<1>3. f \in Operands(p) /\ f \in Paths
      BY <1>1, SourceIsAsked
<1>4. /\ r \in Processes /\ r.req = w.req
      /\ r.pc = "start" /\ r.todo = Tail(w.todo) /\ r.done = w.done \cup {f}
      /\ r.status = w.status /\ r.pos = w.pos /\ r.buf = w.buf /\ r.input = w.input
      BY <1>1, <1>2, <1>3, ReplacingRecord
<1> HIDE DEF r, f
<1>5. /\ Turn(p, r) /\ proc'[p] = r /\ Tool(p)' = Tool(p) /\ Operands(p)' = Operands(p)
      /\ EditorOK(p)' => Promised(p)
      BY <1>1, <1>4, InstallsDraft DEF r, f
<1>6. WorkLeft(p)'
  <2>1. ~Editing(p)'
        BY <1>4, <1>5 DEF Editing
  <2>2. \A i \in 1 .. Len(Tail(w.todo)) : Tail(w.todo)[i] \in Operands(p)
        BY <1>2, TailOfList
  <2>3. {w.todo[i] : i \in 1 .. Len(w.todo)} =
            {f} \cup {Tail(w.todo)[i] : i \in 1 .. Len(Tail(w.todo))}
    <3>1. \A s \in Seq(Paths) : s # <<>> =>
            {s[i] : i \in 1 .. Len(s)} = {Head(s)} \cup {Tail(s)[i] : i \in 1 .. Len(Tail(s))}
          BY TailOfList
    <3> QED BY <1>2, <3>1
  <2>4. /\ \A i \in 1 .. Len(r.todo) : r.todo[i] \in Operands(p)
        /\ r.done \subseteq Operands(p)
        BY <1>2, <1>3, <1>4, <2>2
  <2>5. ASSUME r.status = 0
        PROVE  Operands(p) \subseteq r.done \cup {r.todo[i] : i \in 1 .. Len(r.todo)}
    <3>1. Operands(p) \subseteq w.done \cup ({f} \cup {Tail(w.todo)[i] : i \in 1 .. Len(Tail(w.todo))})
          BY <1>2, <1>4, <2>3, <2>5
    <3>2. {r.todo[i] : i \in 1 .. Len(r.todo)} = {Tail(w.todo)[i] : i \in 1 .. Len(Tail(w.todo))}
          BY <1>4
    <3> QED BY <1>4, <3>1, <3>2
  <2> QED BY <1>5, <2>1, <2>4, <2>5 DEF WorkLeft
<1>7. HasShadow(p)'
      BY <1>5 DEF HasShadow, Plain
<1>8. EditorOK(p)'
  <2>1. r.pc \in Places(Tool(p))
        BY <1>4 DEF Places, Plain
  <2> QED BY <1>2, <1>4, <1>5, <1>6, <1>7, <2>1, IdleOK
<1> QED BY <1>5, <1>8

\* sed and patch unlink their temporary file, or fail to, and go on.
LEMMA DiscardsDraft ==
    ASSUME EditInv, NEW p \in Procs, Tool(p) \in Plain, proc[p].pc = "discard",
           NEW stuck \in BOOLEAN, IF stuck THEN fs' = fs ELSE fs' = Unlinked(proc[p].dst),
           lock' = lock, before' = before, unnoticed' = unnoticed,
           proc' = [proc EXCEPT ![p] = Discarding(proc[p], stuck)]
    PROVE  Promised(p)
<1> DEFINE w == proc[p]
           r == Discarding(proc[p], stuck)
<1>1. /\ w \in Processes /\ EditorOK(p) /\ Tool(p) \in EditTools /\ Editing(p) /\ DOMAIN fs \subseteq Paths
      BY DEF EditInv, Typed, Plain, EditTools, Editing
<1>2. /\ w.todo # <<>> /\ w.done \subseteq Operands(p) /\ w.buf = <<>> /\ w.dst = Draft(p)
      /\ w.pos <= Len(w.input) + 1 /\ w.todo \in Seq(Paths)
      /\ \A i \in 1 .. Len(w.todo) : w.todo[i] \in Operands(p)
      BY <1>1, Types DEF EditorOK, WorkLeft, Plain, HasDraft, WrittenSoFar
<1>3. /\ r \in Processes /\ r.req = w.req
      /\ r.pc = "start" /\ r.todo = Tail(w.todo) /\ r.done = w.done /\ r.status = 1
      /\ r.src = w.src /\ r.pos = w.pos /\ r.buf = w.buf /\ r.input = w.input
      BY <1>1, <1>2, DiscardingRecord
<1> HIDE DEF r
<1>4. SameBut({Draft(p)}) /\ DOMAIN fs' \subseteq Paths
  <2>1. CASE stuck
        BY <1>1, <2>1 DEF SameBut
  <2>2. CASE ~stuck
        BY <1>1, <1>2, <2>2, UnlinkedAt
  <2> QED BY <2>1, <2>2
<1>5. /\ Turn(p, r) /\ FilesRest
      /\ proc'[p] = r /\ Tool(p)' = Tool(p) /\ Operands(p)' = Operands(p)
      /\ EditorOK(p)' => EditInv'
      BY <1>1, <1>3, <1>4, QuietEditor DEF r, Plain
<1>6. WorkLeft(p)'
  <2>1. ~Editing(p)'
        BY <1>3, <1>5 DEF Editing
  <2>2. \A i \in 1 .. Len(Tail(w.todo)) : Tail(w.todo)[i] \in Operands(p)
        BY <1>2, TailOfList
  <2>3. /\ \A i \in 1 .. Len(r.todo) : r.todo[i] \in Operands(p)
        /\ r.done \subseteq Operands(p) /\ r.status = 1
        BY <1>2, <1>3, <2>2
  <2> QED BY <1>5, <2>1, <2>3 DEF WorkLeft
<1>7. HasShadow(p)'
      BY <1>5 DEF HasShadow, Plain
<1>8. EditorOK(p)'
  <2>1. r.pc \in Places(Tool(p))
        BY <1>3 DEF Places, Plain
  <2> QED BY <1>2, <1>3, <1>5, <1>6, <1>7, <2>1, IdleOK
<1>9. w.pc \notin {"exit", "killed"} /\ r.pc \in {"start", "ask", "unlock"}
      BY <1>3
<1> QED BY <1>3, <1>5, <1>8, <1>9, LetsGo

\* An editor ends, or is killed.
LEMMA EndsEditing ==
    ASSUME EditInv, NEW p \in Procs, Tool(p) \in EditTools, proc[p].pc \notin {"exit", "killed"},
           NEW r \in Processes, r.req = proc[p].req, r.pc \in {"exit", "killed"},
           r.todo = proc[p].todo, r.src = proc[p].src, r.input = proc[p].input,
           r.pos = proc[p].pos, r.done = proc[p].done,
           Tool(p) \in Plain => r.status = proc[p].status,
           r.pc = "exit" /\ r.status = 0 => proc[p].done = Operands(p),
           DOMAIN fs' \subseteq Paths, SameBut({Draft(p)}),
           Tool(p) = "passwd" => fs' = fs \/ lock = p,
           lock' = lock \/ (lock = p /\ lock' = Nobody),
           before' = before, unnoticed' = unnoticed,
           proc' = [proc EXCEPT ![p] = r]
    PROVE  Promised(p)
<1> DEFINE w == proc[p]
<1>1. /\ w \in Processes /\ EditorOK(p) /\ r.status \in {0, 1}
      BY Types DEF EditInv, Typed
<1>2. /\ Turn(p, r) /\ FilesRest
      /\ proc'[p] = r /\ Tool(p)' = Tool(p) /\ Operands(p)' = Operands(p)
      /\ EditorOK(p)' => EditInv'
      BY QuietEditor
<1>3. ~Editing(p)'
      BY <1>2 DEF Editing
<1>4. WorkLeft(p)'
  <2>1. SUFFICES ASSUME Tool(p) \in Plain PROVE WorkLeft(p)'
        BY <1>2 DEF WorkLeft, Plain
  <2>2. /\ \A i \in 1 .. Len(w.todo) : w.todo[i] \in Operands(p)
        /\ w.done \subseteq Operands(p)
        /\ w.status = 0 => Operands(p) \subseteq w.done \cup {w.todo[i] : i \in 1 .. Len(w.todo)}
        BY <1>1, <2>1 DEF EditorOK, WorkLeft, Plain
  <2> QED BY <1>2, <1>3, <2>1, <2>2 DEF WorkLeft
<1>5. HasShadow(p)'
      BY <1>1, <1>2, <1>3 DEF EditorOK, HasShadow, At, Writing
<1>6. EditorOK(p)'
  <2>1. r.pos <= Len(r.input) + 1
        BY <1>1 DEF EditorOK, WrittenSoFar
  <2>2. r.pc \in {"start", "unlock", "exit", "killed"} /\ r.pc \in Places(Tool(p)) \cup {"exit", "killed"}
        OBVIOUS
  <2> QED BY <1>2, <1>4, <1>5, <2>1, <2>2, IdleOK
<1>7. Leaves(p)
      BY <1>1, <1>2, <1>3 DEF Leaves, Result, At
<1> QED BY <1>2, <1>6, <1>7, StepIsPromised DEF Promised

\* passwd takes the lock.
LEMMA TakesLock ==
    ASSUME EditInv, NEW p \in Procs, Tool(p) = "passwd", proc[p].pc = "start",
           lock = Nobody, lock' = p, fs' = fs, before' = before, unnoticed' = unnoticed,
           proc' = [proc EXCEPT ![p] = Moving(proc[p], "ask")]
    PROVE  Promised(p)
<1> DEFINE w == proc[p]
           r == Moving(proc[p], "ask")
<1>1. /\ w \in Processes /\ EditorOK(p) /\ Tool(p) \in EditTools /\ DOMAIN fs \subseteq Paths
      /\ "ask" \in AllPlaces
      BY DEF EditInv, Typed, EditTools, AllPlaces
<1>2. /\ r \in Processes /\ r.req = w.req
      /\ r.pc = "ask" /\ r.pos = w.pos /\ r.buf = w.buf /\ r.todo = w.todo /\ r.status = w.status
      /\ r.src = w.src /\ r.dst = w.dst /\ r.input = w.input /\ r.done = w.done
      BY <1>1, MovingRecord
<1> HIDE DEF r
<1>3. /\ Turn(p, r) /\ FilesRest
      /\ proc'[p] = r /\ Tool(p)' = Tool(p) /\ Operands(p)' = Operands(p)
      /\ EditorOK(p)' => EditInv'
  <2>1. SameBut({Draft(p)})
        BY DEF SameBut
  <2> QED BY <1>1, <1>2, <2>1, QuietEditor DEF r
<1>4. EditorOK(p)'
  <2>1. WorkLeft(p)'
        BY <1>3 DEF WorkLeft
  <2>2. HasShadow(p)'
        BY <1>1, <1>2, <1>3 DEF EditorOK, HasShadow, At, Editing, Writing
  <2>3. r.buf = <<>> /\ r.pos <= Len(r.input) + 1 /\ r.pc \in Places(Tool(p))
        BY <1>1, <1>2 DEF EditorOK, HasDraft, WrittenSoFar, Places
  <2> QED BY <1>2, <1>3, <2>1, <2>2, <2>3, IdleOK
<1>5. w.pc \notin {"exit", "killed"} /\ r.pc \in {"start", "ask", "unlock"}
      BY <1>2
<1> QED BY <1>2, <1>3, <1>4, <1>5, LetsGo

\* passwd reads the password file: it has the lock, so the file stays as it reads it.
LEMMA ReadsShadow ==
    ASSUME EditInv, NEW p \in Procs, Tool(p) = "passwd", proc[p].pc = "ask",
           fs' = fs, lock' = lock, before' = before, unnoticed' = unnoticed,
           proc' = [proc EXCEPT ![p] = Opening(proc[p], Shadow, Content(Shadow))]
    PROVE  Promised(p)
<1> DEFINE w == proc[p]
           data == Content(Shadow)
           r == Opening(proc[p], Shadow, data)
<1>1. /\ w \in Processes /\ EditorOK(p) /\ Tool(p) \in EditTools /\ DOMAIN fs \subseteq Paths
      BY DEF EditInv, Typed, EditTools
<1>2. Shadow \in Edited /\ Shadow \in Paths /\ Operands(p) = {Shadow}
  <2>1. Operands(p) = {Shadow} /\ Operands(p) \subseteq Edited /\ \A t \in Edited : t \in Paths
        BY <1>1, NamesAre DEF EditInv
  <2> QED BY <2>1
<1>3. Exists(Shadow) /\ data = fs[Shadow].data /\ data \in Seq(Chunks)
  <2>1. Exists(Shadow) /\ fs[Shadow] \in Nodes
        BY <1>2 DEF EditInv, TargetOK
  <2> QED BY <2>1 DEF Content, Is, Nodes
<1> HIDE DEF data
<1>4. /\ r \in Processes /\ r.req = w.req
      /\ r.pc = "temp" /\ r.src = Shadow /\ r.input = data /\ r.pos = 1
      /\ r.todo = w.todo /\ r.status = w.status /\ r.buf = w.buf /\ r.done = w.done
      BY <1>1, <1>2, <1>3, OpeningRecord
<1> HIDE DEF r
<1>5. /\ Turn(p, r) /\ FilesRest
      /\ proc'[p] = r /\ Tool(p)' = Tool(p) /\ Operands(p)' = Operands(p)
      /\ EditorOK(p)' => EditInv'
  <2>1. SameBut({Draft(p)})
        BY DEF SameBut
  <2> QED BY <1>1, <1>4, <2>1, QuietEditor DEF r, data
<1>6. ~Editing(p) /\ Editing(p)' /\ w.buf = <<>> /\ lock = p /\ w.done \subseteq {Shadow}
      BY <1>1, <1>4, <1>5 DEF Editing, EditorOK, HasDraft, HasShadow
<1>7. EditorOK(p)'
  <2>1. (proc[p].pc \in Places(Tool(p)) \cup {"exit", "killed"})'
        BY <1>4, <1>5 DEF Places
  <2>2. WorkLeft(p)' /\ SedStatus(p)' /\ InputUniform(p)'
        BY <1>5 DEF WorkLeft, SedStatus, InputUniform
  <2>3. HasDraft(p)'
        BY <1>4, <1>5, <1>6 DEF HasDraft, Writing
  <2>4. WrittenSoFar(p)'
    <3>1. 1 <= Len(data) + 1
          BY <1>3
    <3> QED BY <1>4, <1>5, <3>1 DEF WrittenSoFar, At
  <2>5. HasShadow(p)'
        BY <1>3, <1>4, <1>5, <1>6 DEF HasShadow, At
  <2> QED BY <2>1, <2>2, <2>3, <2>4, <2>5 DEF EditorOK
<1>8. Takes(p)
  <2>1. Result(p) = "running" /\ Result(p)' = "running"
        BY <1>4, <1>5 DEF Result
  <2>2. CopyOf(p)' = Current(Shadow)
    <3>1. Current(Shadow) = Version(Shadow, data)
          BY <1>2, <1>3 DEF Current, data
    <3>2. \A t, text : Version(t, text)' = Version(t, text)
          BY DEF Version, WholeText
    <3>3. CopyOf(p)' = Version(Shadow, data)
          BY <1>4, <1>5, <1>6, <3>2 DEF CopyOf
    <3> QED BY <3>1, <3>3
  <2> QED BY <1>2, <1>4, <1>5, <1>6, <2>1, <2>2 DEF Takes
<1> QED BY <1>5, <1>7, <1>8, StepIsPromised DEF Promised

\* What passwd makes of its record when it has replaced the password file.
Changing(w) == [w EXCEPT !.pc = "unlock", !.done = {Shadow}]

LEMMA ChangingRecord ==
    ASSUME NEW w \in Processes, Shadow \in Paths
    PROVE  LET r == Changing(w)
           IN  /\ r \in Processes
               /\ r.pc = "unlock" /\ r.done = {Shadow}
               /\ r.req = w.req /\ r.pos = w.pos /\ r.buf = w.buf /\ r.input = w.input
<1> DEFINE r == Changing(w)
<1>1. "unlock" \in AllPlaces /\ {Shadow} \in SUBSET Paths
      BY DEF AllPlaces
<1>2. r \in Processes
      BY <1>1 DEF Processes, Changing
<1>3. /\ r.pc = "unlock" /\ r.done = {Shadow}
      /\ r.req = w.req /\ r.pos = w.pos /\ r.buf = w.buf /\ r.input = w.input
      BY DEF Processes, Changing
<1> QED BY <1>2, <1>3

LEMMA ReplacesShadow ==
    ASSUME EditInv, NEW p \in Procs, Tool(p) = "passwd", proc[p].pc = "replace",
           fs' = Renamed(proc[p].dst, proc[p].src),
           lock' = lock, before' = before, unnoticed' = unnoticed,
           proc' = [proc EXCEPT ![p] = Changing(proc[p])]
    PROVE  Promised(p)
<1> DEFINE w == proc[p]
           r == Changing(proc[p])
<1>1. /\ w \in Processes /\ EditorOK(p) /\ Tool(p) \in EditTools /\ Editing(p)
      BY DEF EditInv, Typed, EditTools, Editing
<1>2. /\ w.src = Shadow /\ w.done \subseteq {Shadow} /\ lock = p /\ w.buf = <<>>
      /\ w.pos <= Len(w.input) + 1
      BY <1>1 DEF EditorOK, HasShadow, HasDraft, WrittenSoFar
<1>3. Shadow \in Paths
      BY <1>1, <1>2, SourceIsAsked
<1>4. /\ r \in Processes /\ r.req = w.req /\ r.pc = "unlock" /\ r.done = {Shadow}
      /\ r.pos = w.pos /\ r.buf = w.buf /\ r.input = w.input
      BY <1>1, <1>3, ChangingRecord
<1> HIDE DEF r
<1>5. /\ Turn(p, r) /\ proc'[p] = r /\ Tool(p)' = Tool(p)
      /\ EditorOK(p)' => Promised(p)
  <2>1. r.done = w.done \cup {w.src}
        BY <1>2, <1>4
  <2>2. r \in Processes /\ r.req = w.req /\ r.pc = "unlock"
        BY <1>4
  <2>3. /\ Turn(p, r) /\ proc'[p] = r /\ Tool(p)' = Tool(p) /\ Operands(p)' = Operands(p)
        /\ EditorOK(p)' => Promised(p)
        BY <1>1, <2>1, <2>2, InstallsDraft DEF r
  <2> QED BY <2>3
<1>6. EditorOK(p)'
  <2>1. WorkLeft(p)'
        BY <1>5 DEF WorkLeft
  <2>2. HasShadow(p)'
        BY <1>2, <1>4, <1>5 DEF HasShadow, At, Editing, Writing
  <2>3. r.pc \in Places(Tool(p))
        BY <1>4 DEF Places
  <2> QED BY <1>2, <1>4, <1>5, <2>1, <2>2, <2>3, IdleOK
<1> QED BY <1>5, <1>6

-----------------------------------------------------------------------------
(* The actions.                                                            *)

\* What the actions write is a record of the kinds above.
LEMMA Updates ==
    ASSUME proc \in [Procs -> Processes], NEW p \in Procs
    PROVE  /\ \A f : Opened(p, f) => proc' = [proc EXCEPT ![p] = Opening(proc[p], f, Content(f))]
           /\ \A status : NextFile(p, status) => proc' = [proc EXCEPT ![p] = Going(proc[p], status)]
           /\ \A pc : [proc EXCEPT ![p].pc = pc] = [proc EXCEPT ![p] = Moving(proc[p], pc)]
           /\ \A pc, status : [proc EXCEPT ![p].status = status, ![p].pc = pc]
                                = [proc EXCEPT ![p] = Failing(proc[p], pc, status)]
           /\ \A f : [proc EXCEPT ![p].dst = f, ![p].pc = "stream"]
                       = [proc EXCEPT ![p] = Starting(proc[p], f)]
           /\ \A pc : [proc EXCEPT ![p].buf = <<>>, ![p].pc = pc]
                        = [proc EXCEPT ![p] = Closing(proc[p], pc)]
<1>1. \A f : Opened(p, f) => proc' = [proc EXCEPT ![p] = Opening(proc[p], f, Content(f))]
      BY DEF Opened, Opening
<1>2. \A status : NextFile(p, status) => proc' = [proc EXCEPT ![p] = Going(proc[p], status)]
      BY DEF NextFile, Going
<1>3. \A pc : [proc EXCEPT ![p].pc = pc] = [proc EXCEPT ![p] = Moving(proc[p], pc)]
      BY DEF Moving
<1>4. \A pc, status : [proc EXCEPT ![p].status = status, ![p].pc = pc]
                        = [proc EXCEPT ![p] = Failing(proc[p], pc, status)]
      BY DEF Failing
<1>5. \A f : [proc EXCEPT ![p].dst = f, ![p].pc = "stream"]
               = [proc EXCEPT ![p] = Starting(proc[p], f)]
      BY DEF Starting
<1>6. \A pc : [proc EXCEPT ![p].buf = <<>>, ![p].pc = pc]
                = [proc EXCEPT ![p] = Closing(proc[p], pc)]
      BY DEF Closing
<1> QED BY <1>1, <1>2, <1>3, <1>4, <1>5, <1>6

LEMMA MoreUpdates ==
    ASSUME proc \in [Procs -> Processes], NEW p \in Procs
    PROVE  /\ \A buf : [proc EXCEPT ![p].pos = @ + 1, ![p].buf = buf]
                         = [proc EXCEPT ![p] = Printing(proc[p], buf, proc[p].pc)]
           /\ \A buf, how :
                [proc EXCEPT ![p].pos = @ + 1, ![p].buf = buf,
                             ![p].pc = IF how = "fail" THEN "discard" ELSE @]
                  = [proc EXCEPT ![p] = Printing(proc[p], buf, IF how = "fail" THEN "discard"
                                                               ELSE proc[p].pc)]
           /\ [proc EXCEPT ![p].todo = Tail(@), ![p].pc = "start", ![p].done = @ \cup {proc[p].src}]
                = [proc EXCEPT ![p] = Replacing(proc[p], proc[p].src)]
           /\ \A stuck : [proc EXCEPT ![p].todo = Tail(@), ![p].status = 1, ![p].pc = "start",
                                      ![p].stuck = stuck]
                           = [proc EXCEPT ![p] = Discarding(proc[p], stuck)]
           /\ [proc EXCEPT ![p].pc = "unlock", ![p].done = {Shadow}]
                = [proc EXCEPT ![p] = Changing(proc[p])]
<1>1. \A buf : [proc EXCEPT ![p].pos = @ + 1, ![p].buf = buf]
                 = [proc EXCEPT ![p] = Printing(proc[p], buf, proc[p].pc)]
  <2> SUFFICES ASSUME NEW buf
               PROVE  [proc EXCEPT ![p].pos = @ + 1, ![p].buf = buf]
                        = [proc EXCEPT ![p] = Printing(proc[p], buf, proc[p].pc)]
      OBVIOUS
  <2>1. proc[p] \in Processes
        OBVIOUS
  <2>2. [proc[p] EXCEPT !.pos = proc[p].pos + 1, !.buf = buf]
          = [proc[p] EXCEPT !.pos = proc[p].pos + 1, !.buf = buf, !.pc = proc[p].pc]
        BY <2>1 DEF Processes
  <2> QED BY <2>2 DEF Printing
<1>2. \A buf, how :
         [proc EXCEPT ![p].pos = @ + 1, ![p].buf = buf,
                      ![p].pc = IF how = "fail" THEN "discard" ELSE @]
           = [proc EXCEPT ![p] = Printing(proc[p], buf, IF how = "fail" THEN "discard"
                                                        ELSE proc[p].pc)]
      BY DEF Printing
<1>3. [proc EXCEPT ![p].todo = Tail(@), ![p].pc = "start", ![p].done = @ \cup {proc[p].src}]
        = [proc EXCEPT ![p] = Replacing(proc[p], proc[p].src)]
      BY DEF Replacing
<1>4. \A stuck : [proc EXCEPT ![p].todo = Tail(@), ![p].status = 1, ![p].pc = "start",
                              ![p].stuck = stuck]
                   = [proc EXCEPT ![p] = Discarding(proc[p], stuck)]
      BY DEF Discarding
<1>5. [proc EXCEPT ![p].pc = "unlock", ![p].done = {Shadow}]
        = [proc EXCEPT ![p] = Changing(proc[p])]
      BY DEF Changing
<1> QED BY <1>1, <1>2, <1>3, <1>4, <1>5

\* What every action of an editor starts from.
LEMMA AtWork ==
    ASSUME EditInv, NEW p \in Procs, Tool(p) \in EditTools
    PROVE  /\ proc \in [Procs -> Processes] /\ proc[p] \in Processes /\ EditorOK(p)
           /\ DOMAIN fs \subseteq Paths
           /\ fs' = fs => SameBut({Draft(p)}) /\ DOMAIN fs' \subseteq Paths
           /\ Editing(p) /\ Tool(p) \in Plain => proc[p].todo # <<>>
BY DEF EditInv, Typed, SameBut, EditorOK, WorkLeft, Plain

\* The file that sed or patch reads has all its parts edited alike.
LEMMA ContentUniform ==
    ASSUME EditInv, NEW f \in Edited, f # Shadow
    PROVE  Content(f) \in Seq(Chunks) /\ Uniform(Content(f))
<1>1. CASE Exists(f)
  <2>1. fs[f] \in Nodes /\ Uniform(fs[f].data)
        BY <1>1 DEF EditInv, TargetOK
  <2>2. Content(f) = fs[f].data /\ fs[f].data \in Seq(Chunks)
        BY <1>1, <2>1 DEF Content, Is, Nodes
  <2> QED BY <2>1, <2>2
<1>2. CASE ~Exists(f)
  <2>1. Content(f) = <<>>
        BY <1>2 DEF Content, Is
  <2>2. AllBy(<<>>, {})
        BY EmptySeq DEF AllBy
  <2>3. Uniform(<<>>)
    <3>1. {} \in SUBSET Procs
          OBVIOUS
    <3> QED BY <2>2, <3>1 DEF Uniform
  <2> QED BY <2>1, <2>3, EmptySeq
<1> QED BY <1>1, <1>2

\* So has what a read that fails leaves of it.
LEMMA ReadsUniform ==
    ASSUME EditInv, NEW f \in Edited, f # Shadow, NEW n \in 0 .. Len(Content(f))
    PROVE  /\ Content(f) \in Seq(Chunks) /\ Uniform(Content(f))
           /\ SubSeq(Content(f), 1, n) \in Seq(Chunks) /\ Uniform(SubSeq(Content(f), 1, n))
<1>1. Content(f) \in Seq(Chunks) /\ Uniform(Content(f))
      BY ContentUniform
<1> DEFINE s == Content(f)
<1> HIDE DEF s
<1>2. s \in Seq(Chunks) /\ n \in 0 .. Len(s)
      BY <1>1 DEF s
<1>3. /\ SubSeq(s, 1, n) \in Seq(Chunks) /\ Len(SubSeq(s, 1, n)) = n
      /\ \A i \in 1 .. n : SubSeq(s, 1, n)[i] = s[i] /\ i \in 1 .. Len(s)
      BY <1>2
<1>4. Uniform(SubSeq(s, 1, n))
  <2>1. PICK b \in SUBSET Procs : AllBy(s, b)
        BY <1>1 DEF Uniform, s
  <2>2. AllBy(SubSeq(s, 1, n), b)
        BY <1>3, <2>1 DEF AllBy
  <2> QED BY <2>2 DEF Uniform
<1> QED BY <1>1, <1>3, <1>4 DEF s

LEMMA SedActs ==
    ASSUME EditInv, NEW p \in Procs, Sed(p)
    PROVE  Promised(p)
<1> DEFINE w == proc[p]
<1>1. Tool(p) = "sed" /\ Tool(p) \in EditTools /\ Tool(p) \in Plain
      BY DEF Sed, SedOpen, SedExit, SedTemp, SedStream, SedClose, SedBackup, SedReplace, SedDiscard,
             Streaming, Streamed, EditTools, Plain
<1>2. /\ proc \in [Procs -> Processes] /\ w \in Processes /\ EditorOK(p) /\ DOMAIN fs \subseteq Paths
      /\ fs' = fs => SameBut({Draft(p)}) /\ DOMAIN fs' \subseteq Paths
      /\ Editing(p) => w.todo # <<>>
      BY <1>1, AtWork
<1>3. w.status \in {0, 1}
      BY <1>2, Types
<1>4. CASE SedOpen(p)
  <2> DEFINE f == Head(w.todo)
  <2>1. w.pc = "start" /\ w.todo # <<>> /\ w.status = 0
        /\ fs' = fs /\ lock' = lock /\ unnoticed' = unnoticed /\ before' = before
        BY <1>4 DEF SedOpen, At
  <2>2. CASE Exists(f) /\ Opened(p, f)
    <3>1. proc' = [proc EXCEPT ![p] = Opening(proc[p], f, Content(f))]
          BY <1>2, <2>2, Updates
    <3>2. f \in Edited /\ f # Shadow
          BY <1>1, <2>1, NextFileAsked
    <3>3. Content(f) \in Seq(Chunks) /\ Uniform(Content(f))
          BY <3>2, ContentUniform
    <3> HIDE DEF f
    <3> QED BY <1>1, <2>1, <2>2, <3>1, <3>3, TakesText DEF f
  <2>3. CASE NextFile(p, 1)
    <3>1. proc' = [proc EXCEPT ![p] = Going(proc[p], 1)]
          BY <1>2, <2>3, Updates
    <3> QED BY <1>1, <2>1, <3>1, SkipsFile
  <2> QED BY <1>4, <2>2, <2>3 DEF SedOpen
<1>5. CASE SedExit(p)
  <2>1. w.pc = "start" /\ (w.todo = <<>> \/ w.status # 0)
        /\ fs' = fs /\ lock' = lock /\ unnoticed' = unnoticed /\ before' = before
        BY <1>5 DEF SedExit, At
  <2>2. proc' = [proc EXCEPT ![p] = Moving(proc[p], "exit")]
        BY <1>2, <1>5, Updates DEF SedExit
  <2>3. w.status = 0 => w.done = Operands(p)
    <3>1. SUFFICES ASSUME w.status = 0 PROVE w.done = Operands(p)
          OBVIOUS
    <3>2. w.todo = <<>> /\ w.done \subseteq Operands(p)
          /\ Operands(p) \subseteq w.done \cup {w.todo[i] : i \in 1 .. Len(w.todo)}
          BY <1>1, <1>2, <2>1, <3>1 DEF EditorOK, WorkLeft
    <3>3. {w.todo[i] : i \in 1 .. Len(w.todo)} = {}
          BY <3>2
    <3> QED BY <3>2, <3>3
  <2>4. "exit" \in AllPlaces
        BY DEF AllPlaces
  <2> QED BY <1>1, <1>2, <2>1, <2>2, <2>3, <2>4, MovingRecord, EndsEditing
<1>6. CASE SedTemp(p)
  <2>1. w.pc = "temp" /\ lock' = lock /\ unnoticed' = unnoticed /\ before' = before
        BY <1>6 DEF SedTemp, At
  <2>2. w.todo # <<>> /\ Draft(p) = Temp[p]
        BY <1>1, <1>2, <2>1 DEF Editing, Draft
  <2>3. CASE fs' = Put(Temp[p], Empty) /\ proc' = [proc EXCEPT ![p].dst = Temp[p], ![p].pc = "stream"]
    <3>1. fs' = Put(Draft(p), Empty) /\ proc' = [proc EXCEPT ![p] = Starting(proc[p], Draft(p))]
          BY <1>2, <2>2, <2>3 DEF Starting
    <3> QED BY <1>1, <2>1, <3>1, MakesTemp
  <2>4. CASE fs' = fs /\ NextFile(p, 1)
    <3>1. proc' = [proc EXCEPT ![p] = Going(proc[p], 1)]
          BY <1>2, <2>4, Updates
    <3> QED BY <1>1, <2>1, <2>2, <2>4, <3>1, SkipsFile
  <2> QED BY <1>6, <2>3, <2>4 DEF SedTemp
<1>7. CASE SedStream(p)
  <2> DEFINE chunk == Edit(p, w.input[w.pos])
  <2>1. w.pc = "stream" /\ w.pos <= Len(w.input) /\ lock' = lock /\ before' = before
        BY <1>7 DEF SedStream, Streaming, At
  <2>2. chunk = Edition(p, w.input[w.pos])
        BY <1>1 DEF Edition
  <2>3. ASSUME NEW how \in Hows, Printed(p, chunk, how),
               proc' = [proc EXCEPT ![p].pos = @ + 1, ![p].buf = Held(p, chunk, how)],
               unnoticed' = IF how = "fail" THEN unnoticed \cup {p} ELSE unnoticed
        PROVE  Promised(p)
    <3> HIDE DEF chunk
    <3>1. proc' = [proc EXCEPT ![p] = Printing(proc[p], Held(p, chunk, how), proc[p].pc)]
          BY <1>2, <2>3, MoreUpdates
    <3>2. proc' = [proc EXCEPT ![p] = Printing(proc[p], Held(p, chunk, how), "stream")]
          BY <2>1, <3>1
    <3>3. IF how = "fail" THEN \/ "stream" = "discard" /\ unnoticed' = unnoticed
                               \/ "stream" = "stream" /\ unnoticed' = unnoticed \cup {p}
          ELSE "stream" = "stream" /\ unnoticed' = unnoticed
          BY <2>3
    <3>4. Printed(p, chunk, how)
          BY <2>3
    <3> QED BY <1>1, <2>1, <2>2, <3>2, <3>3, <3>4, PrintsChunk
  <2>4. CASE /\ proc' = [proc EXCEPT ![p].status = 1, ![p].pc = "close"]
             /\ UNCHANGED <<fs, unnoticed>>
    <3>1. proc' = [proc EXCEPT ![p] = Failing(proc[p], "close", 1)]
          BY <1>2, <2>4 DEF Failing
    <3> DEFINE r == Failing(proc[p], "close", 1)
    <3>2. "close" \in AllPlaces /\ w.pc \in Writing
          BY <2>1 DEF AllPlaces, Writing
    <3>3. /\ r \in Processes /\ r.req = w.req /\ r.pc = "close" /\ r.status = 1
          /\ r.todo = w.todo /\ r.src = w.src /\ r.dst = w.dst /\ r.input = w.input
          /\ r.pos = w.pos /\ r.buf = w.buf /\ r.done = w.done
          BY <1>2, <3>2, FailingRecord
    <3> HIDE DEF r
    <3> QED BY <1>1, <2>1, <2>4, <3>1, <3>2, <3>3, StopsEditing DEF r
  <2> QED BY <1>7, <2>3, <2>4 DEF SedStream
<1>8. CASE SedClose(p)
  <2> DEFINE pc == IF w.status # 0 THEN "discard" ELSE IF w.req.suffix THEN "backup" ELSE "replace"
  <2>1. /\ w.pc \in {"stream", "close"} /\ lock' = lock /\ before' = before
        /\ w.pc = "stream" => w.pos > Len(w.input)
        BY <1>8 DEF SedClose, Streamed, At
  <2>2. PICK how \in {"write", "fail"} : Closed(p, how)
        BY <1>8 DEF SedClose
  <2>3. proc' = [proc EXCEPT ![p] = Closing(proc[p], pc)]
        BY <1>2, <1>8, Updates DEF SedClose
  <2>4. pc \in {"discard", "backup", "replace"} /\ (pc # "discard" => w.status = 0)
        OBVIOUS
  <2>5. w.status = 0 => w.pc = "stream"
        BY <1>1, <1>2, <2>1 DEF EditorOK, SedStatus, At
  <2> HIDE DEF pc
  <2> QED BY <1>1, <2>1, <2>2, <2>3, <2>4, <2>5, ClosesDraft
<1>9. CASE SedBackup(p)
  <2>1. w.pc = "backup" /\ lock' = lock /\ unnoticed' = unnoticed /\ before' = before
        BY <1>9 DEF SedBackup, At
  <2>2. CASE /\ Exists(w.src) /\ fs' = Renamed(w.src, Backup(w.src))
             /\ proc' = [proc EXCEPT ![p].pc = "replace"]
    <3>1. proc' = [proc EXCEPT ![p] = Moving(proc[p], "replace")]
          BY <1>2, <2>2, Updates
    <3> QED BY <1>1, <2>1, <2>2, <3>1, BacksUp
  <2>3. CASE fs' = fs /\ proc' = [proc EXCEPT ![p].status = 1, ![p].pc = "discard"]
    <3>1. proc' = [proc EXCEPT ![p] = Failing(proc[p], "discard", 1)]
          BY <1>2, <2>3 DEF Failing
    <3> DEFINE r == Failing(proc[p], "discard", 1)
    <3>2. "discard" \in AllPlaces /\ w.pc \in Writing
          BY <2>1 DEF AllPlaces, Writing
    <3>3. /\ r \in Processes /\ r.req = w.req /\ r.pc = "discard" /\ r.status = 1
          /\ r.todo = w.todo /\ r.src = w.src /\ r.dst = w.dst /\ r.input = w.input
          /\ r.pos = w.pos /\ r.buf = w.buf /\ r.done = w.done
          BY <1>2, <3>2, FailingRecord
    <3> HIDE DEF r
    <3> QED BY <1>1, <2>1, <2>3, <3>1, <3>2, <3>3, StopsEditing DEF r
  <2> QED BY <1>9, <2>2, <2>3 DEF SedBackup
<1>10. CASE SedReplace(p)
  <2>1. w.pc = "replace" /\ lock' = lock /\ unnoticed' = unnoticed /\ before' = before
        BY <1>10 DEF SedReplace, At
  <2>2. CASE /\ fs' = Renamed(w.dst, w.src)
             /\ proc' = [proc EXCEPT ![p].todo = Tail(@), ![p].pc = "start",
                                     ![p].done = @ \cup {proc[p].src}]
    <3>1. proc' = [proc EXCEPT ![p] = Replacing(proc[p], proc[p].src)]
          BY <1>2, <2>2, MoreUpdates
    <3> QED BY <1>1, <2>1, <2>2, <3>1, ReplacesFile
  <2>3. CASE fs' = fs /\ proc' = [proc EXCEPT ![p].status = 1, ![p].pc = "discard"]
    <3>1. proc' = [proc EXCEPT ![p] = Failing(proc[p], "discard", 1)]
          BY <1>2, <2>3 DEF Failing
    <3> DEFINE r == Failing(proc[p], "discard", 1)
    <3>2. "discard" \in AllPlaces /\ w.pc \in Writing
          BY <2>1 DEF AllPlaces, Writing
    <3>3. /\ r \in Processes /\ r.req = w.req /\ r.pc = "discard" /\ r.status = 1
          /\ r.todo = w.todo /\ r.src = w.src /\ r.dst = w.dst /\ r.input = w.input
          /\ r.pos = w.pos /\ r.buf = w.buf /\ r.done = w.done
          BY <1>2, <3>2, FailingRecord
    <3> HIDE DEF r
    <3> QED BY <1>1, <2>1, <2>3, <3>1, <3>2, <3>3, StopsEditing DEF r
  <2> QED BY <1>10, <2>2, <2>3 DEF SedReplace
<1>11. CASE SedDiscard(p)
  <2>1. w.pc = "discard" /\ lock' = lock /\ unnoticed' = unnoticed /\ before' = before
        BY <1>11 DEF SedDiscard, At
  <2>2. PICK stuck \in BOOLEAN :
           /\ Discarded(p, stuck)
           /\ proc' = [proc EXCEPT ![p].todo = Tail(@), ![p].status = 1, ![p].pc = "start",
                                   ![p].stuck = stuck]
        BY <1>11 DEF SedDiscard
  <2>3. proc' = [proc EXCEPT ![p] = Discarding(proc[p], stuck)]
        BY <1>2, <2>2, MoreUpdates
  <2>4. IF stuck THEN fs' = fs ELSE fs' = Unlinked(w.dst)
        BY <2>2 DEF Discarded
  <2> QED BY <1>1, <2>1, <2>3, <2>4, DiscardsDraft
<1> QED BY <1>4, <1>5, <1>6, <1>7, <1>8, <1>9, <1>10, <1>11 DEF Sed

\* patch and passwd give up a rename that fails.
LEMMA RenameFails ==
    ASSUME EditInv, NEW p \in Procs, Tool(p) \in EditTools, proc[p].pc = "replace",
           fs' = fs, lock' = lock, before' = before, unnoticed' = unnoticed,
           proc' = [proc EXCEPT ![p].pc = "discard"]
    PROVE  Promised(p)
<1> DEFINE r == Moving(proc[p], "discard")
<1>1. proc \in [Procs -> Processes] /\ proc[p] \in Processes
      BY AtWork
<1>2. proc' = [proc EXCEPT ![p] = r]
      BY <1>1 DEF Moving
<1>3. "discard" \in AllPlaces /\ proc[p].pc \in Writing
      BY DEF AllPlaces, Writing
<1>4. /\ r \in Processes /\ r.req = proc[p].req /\ r.pc = "discard" /\ r.status = proc[p].status
      /\ r.todo = proc[p].todo /\ r.src = proc[p].src /\ r.dst = proc[p].dst
      /\ r.input = proc[p].input /\ r.pos = proc[p].pos /\ r.buf = proc[p].buf /\ r.done = proc[p].done
      BY <1>1, <1>3, MovingRecord
<1> HIDE DEF r
<1> QED BY <1>2, <1>3, <1>4, StopsEditing

LEMMA PatchActs ==
    ASSUME EditInv, NEW p \in Procs, Patch(p)
    PROVE  Promised(p)
<1> DEFINE w == proc[p]
<1>1. Tool(p) = "patch" /\ Tool(p) \in EditTools /\ Tool(p) \in Plain
      BY DEF Patch, PatchApply, PatchExit, PatchTemp, PatchWrite, PatchClose, PatchReplace,
             PatchDiscard, Streaming, Streamed, EditTools, Plain
<1>2. /\ proc \in [Procs -> Processes] /\ w \in Processes /\ EditorOK(p) /\ DOMAIN fs \subseteq Paths
      /\ fs' = fs => SameBut({Draft(p)}) /\ DOMAIN fs' \subseteq Paths
      /\ Editing(p) => w.todo # <<>>
      BY <1>1, AtWork
<1>3. w.status \in {0, 1}
      BY <1>2, Types
<1>4. CASE PatchApply(p)
  <2>1. w.pc = "start" /\ w.todo # <<>> /\ fs' = fs /\ lock' = lock /\ before' = before
        BY <1>4 DEF PatchApply, At
  <2> DEFINE f == Head(w.todo)
  <2>2. f \in Edited /\ f # Shadow
        BY <1>1, <2>1, NextFileAsked
  <2>3. PICK n \in 0 .. Len(Content(f)) :
          \/ /\ proc' = [proc EXCEPT ![p].src = f, ![p].input = SubSeq(Content(f), 1, n),
                                     ![p].pos = 1, ![p].pc = "temp"]
             /\ unnoticed' = IF n < Len(Content(f)) \/ ~Exists(f) THEN unnoticed \cup {p}
                             ELSE unnoticed
          \/ NextFile(p, 1) /\ UNCHANGED unnoticed
        BY <1>4 DEF PatchApply
  <2> DEFINE data == SubSeq(Content(f), 1, n)
  <2>4. Content(f) \in Seq(Chunks) /\ data \in Seq(Chunks) /\ Uniform(data)
    <3> HIDE DEF f
    <3> QED BY <2>2, ReadsUniform
  <2>5. CASE /\ proc' = [proc EXCEPT ![p].src = f, ![p].input = data, ![p].pos = 1, ![p].pc = "temp"]
             /\ unnoticed' = IF n < Len(Content(f)) \/ ~Exists(f) THEN unnoticed \cup {p}
                             ELSE unnoticed
    <3>1. proc' = [proc EXCEPT ![p] = Opening(proc[p], f, data)]
      <4> HIDE DEF f, data
      <4> QED BY <1>2, <2>5 DEF Opening
    <3>2. p \notin unnoticed' => Exists(f) /\ data = Content(f)
      <4> DEFINE s == Content(f)
      <4>1. p \notin unnoticed' => Exists(f) /\ ~(n < Len(s))
            BY <2>5
      <4>2. s \in Seq(Chunks) /\ n \in 0 .. Len(s)
            BY <2>4
      <4> HIDE DEF s
      <4>3. ~(n < Len(s)) => SubSeq(s, 1, n) = s
            BY <4>2, SubSeqFull
      <4> QED BY <4>1, <4>3 DEF s
    <3>3. unnoticed' = unnoticed \/ unnoticed' = unnoticed \cup {p}
          BY <2>5
    <3> HIDE DEF f, data
    <3> QED BY <1>1, <2>1, <2>4, <3>1, <3>2, <3>3, TakesText DEF f
  <2>6. CASE NextFile(p, 1) /\ UNCHANGED unnoticed
    <3>1. proc' = [proc EXCEPT ![p] = Going(proc[p], 1)]
          BY <1>2, <2>6, Updates
    <3> QED BY <1>1, <2>1, <2>6, <3>1, SkipsFile
  <2> QED BY <2>3, <2>5, <2>6
<1>5. CASE PatchExit(p)
  <2>1. w.pc = "start" /\ w.todo = <<>>
        /\ fs' = fs /\ lock' = lock /\ unnoticed' = unnoticed /\ before' = before
        BY <1>5 DEF PatchExit, At
  <2>2. proc' = [proc EXCEPT ![p] = Moving(proc[p], "exit")]
        BY <1>2, <1>5, Updates DEF PatchExit
  <2>3. w.status = 0 => w.done = Operands(p)
    <3>1. SUFFICES ASSUME w.status = 0 PROVE w.done = Operands(p)
          OBVIOUS
    <3>2. w.todo = <<>> /\ w.done \subseteq Operands(p)
          /\ Operands(p) \subseteq w.done \cup {w.todo[i] : i \in 1 .. Len(w.todo)}
          BY <1>1, <1>2, <2>1, <3>1 DEF EditorOK, WorkLeft
    <3>3. {w.todo[i] : i \in 1 .. Len(w.todo)} = {}
          BY <3>2
    <3> QED BY <3>2, <3>3
  <2>4. "exit" \in AllPlaces
        BY DEF AllPlaces
  <2> QED BY <1>1, <1>2, <2>1, <2>2, <2>3, <2>4, MovingRecord, EndsEditing
<1>6. CASE PatchTemp(p)
  <2>1. w.pc = "temp" /\ lock' = lock /\ unnoticed' = unnoticed /\ before' = before
        BY <1>6 DEF PatchTemp, At
  <2>2. w.todo # <<>> /\ Draft(p) = Temp[p]
        BY <1>1, <1>2, <2>1 DEF Editing, Draft
  <2>3. CASE fs' = Put(Temp[p], Empty) /\ proc' = [proc EXCEPT ![p].dst = Temp[p], ![p].pc = "stream"]
    <3>1. fs' = Put(Draft(p), Empty) /\ proc' = [proc EXCEPT ![p] = Starting(proc[p], Draft(p))]
          BY <1>2, <2>2, <2>3 DEF Starting
    <3> QED BY <1>1, <2>1, <3>1, MakesTemp
  <2>4. CASE fs' = fs /\ NextFile(p, 1)
    <3>1. proc' = [proc EXCEPT ![p] = Going(proc[p], 1)]
          BY <1>2, <2>4, Updates
    <3> QED BY <1>1, <2>1, <2>2, <2>4, <3>1, SkipsFile
  <2> QED BY <1>6, <2>3, <2>4 DEF PatchTemp
<1>7. CASE PatchWrite(p)
  <2> DEFINE chunk == Edit(p, w.input[w.pos])
  <2>1. w.pc = "stream" /\ w.pos <= Len(w.input) /\ lock' = lock /\ before' = before
        BY <1>7 DEF PatchWrite, Streaming, At
  <2>2. chunk = Edition(p, w.input[w.pos])
        BY <1>1 DEF Edition
  <2>3. PICK how \in Hows :
          /\ Printed(p, chunk, how)
          /\ proc' = [proc EXCEPT ![p].pos = @ + 1, ![p].buf = Held(p, chunk, how)]
          /\ unnoticed' = IF how = "fail" THEN unnoticed \cup {p} ELSE unnoticed
        BY <1>7 DEF PatchWrite
  <2> HIDE DEF chunk
  <2>4. proc' = [proc EXCEPT ![p] = Printing(proc[p], Held(p, chunk, how), proc[p].pc)]
        BY <1>2, <2>3, MoreUpdates
  <2>5. proc' = [proc EXCEPT ![p] = Printing(proc[p], Held(p, chunk, how), "stream")]
        BY <2>1, <2>4
  <2>6. IF how = "fail" THEN \/ "stream" = "discard" /\ unnoticed' = unnoticed
                             \/ "stream" = "stream" /\ unnoticed' = unnoticed \cup {p}
        ELSE "stream" = "stream" /\ unnoticed' = unnoticed
        BY <2>3
  <2>7. Printed(p, chunk, how)
        BY <2>3
  <2> QED BY <1>1, <2>1, <2>2, <2>5, <2>6, <2>7, PrintsChunk
<1>8. CASE PatchClose(p)
  <2>1. /\ w.pc \in {"stream", "close"} /\ lock' = lock /\ before' = before
        /\ w.pc = "stream" => w.pos > Len(w.input)
        BY <1>8 DEF PatchClose, Streamed, At
  <2>2. PICK how \in {"write", "fail"} : Closed(p, how)
        BY <1>8 DEF PatchClose
  <2>3. proc' = [proc EXCEPT ![p] = Closing(proc[p], "replace")]
        BY <1>2, <1>8, Updates DEF PatchClose
  <2>4. w.pc = "stream"
        BY <1>1, <1>2, <2>1 DEF EditorOK, Places
  <2> QED BY <1>1, <2>1, <2>2, <2>3, <2>4, ClosesDraft
<1>9. CASE PatchReplace(p)
  <2>1. w.pc = "replace" /\ lock' = lock /\ unnoticed' = unnoticed /\ before' = before
        BY <1>9 DEF PatchReplace, At
  <2>2. CASE /\ fs' = Renamed(w.dst, w.src)
             /\ proc' = [proc EXCEPT ![p].todo = Tail(@), ![p].pc = "start",
                                     ![p].done = @ \cup {proc[p].src}]
    <3>1. proc' = [proc EXCEPT ![p] = Replacing(proc[p], proc[p].src)]
          BY <1>2, <2>2, MoreUpdates
    <3> QED BY <1>1, <2>1, <2>2, <3>1, ReplacesFile
  <2>3. CASE fs' = fs /\ proc' = [proc EXCEPT ![p].pc = "discard"]
        BY <1>1, <2>1, <2>3, RenameFails
  <2> QED BY <1>9, <2>2, <2>3 DEF PatchReplace
<1>10. CASE PatchDiscard(p)
  <2>1. w.pc = "discard" /\ lock' = lock /\ unnoticed' = unnoticed /\ before' = before
        BY <1>10 DEF PatchDiscard, At
  <2>2. PICK stuck \in BOOLEAN :
           /\ Discarded(p, stuck)
           /\ proc' = [proc EXCEPT ![p].todo = Tail(@), ![p].status = 1, ![p].pc = "start",
                                   ![p].stuck = stuck]
        BY <1>10 DEF PatchDiscard
  <2>3. proc' = [proc EXCEPT ![p] = Discarding(proc[p], stuck)]
        BY <1>2, <2>2, MoreUpdates
  <2>4. IF stuck THEN fs' = fs ELSE fs' = Unlinked(w.dst)
        BY <2>2 DEF Discarded
  <2> QED BY <1>1, <2>1, <2>3, <2>4, DiscardsDraft
<1> QED BY <1>4, <1>5, <1>6, <1>7, <1>8, <1>9, <1>10 DEF Patch

\* passwd ends, with the lock or without.
LEMMA Goes ==
    ASSUME EditInv, NEW p \in Procs, Tool(p) = "passwd", proc[p].pc \notin {"exit", "killed"},
           NEW status \in {0, 1}, Leave(p, status),
           status = 0 => proc[p].done = Operands(p),
           DOMAIN fs' \subseteq Paths, SameBut({Draft(p)}), fs' = fs \/ lock = p,
           before' = before, unnoticed' = unnoticed
    PROVE  Promised(p)
<1> DEFINE r == Failing(proc[p], "exit", status)
<1>1. proc \in [Procs -> Processes] /\ proc[p] \in Processes /\ Tool(p) \in EditTools /\ Tool(p) \notin Plain
      BY AtWork DEF EditTools, Plain
<1>2. "exit" \in AllPlaces
      BY DEF AllPlaces
<1>3. proc' = [proc EXCEPT ![p] = r]
      BY <1>1 DEF Leave, Failing
<1>4. /\ r \in Processes /\ r.pc = "exit" /\ r.status = status /\ r.req = proc[p].req
      /\ r.todo = proc[p].todo /\ r.src = proc[p].src
      /\ r.input = proc[p].input /\ r.pos = proc[p].pos /\ r.done = proc[p].done
      BY <1>1, <1>2, FailingRecord
<1>5. lock' = lock \/ (lock = p /\ lock' = Nobody)
      BY DEF Leave
<1> HIDE DEF r
<1> QED BY <1>1, <1>3, <1>4, <1>5, EndsEditing

\* What passwd makes of its record when it has given up.
Quitting(w, stuck) == [w EXCEPT !.pc = "exit", !.status = 1, !.stuck = stuck]

LEMMA QuitsEditing ==
    ASSUME EditInv, NEW p \in Procs, Tool(p) = "passwd", proc[p].pc = "discard",
           NEW stuck \in BOOLEAN, Discarded(p, stuck), lock' = Nobody,
           before' = before, unnoticed' = unnoticed,
           proc' = [proc EXCEPT ![p].pc = "exit", ![p].status = 1, ![p].stuck = stuck]
    PROVE  Promised(p)
<1> DEFINE w == proc[p]
           r == Quitting(proc[p], stuck)
<1>1. /\ proc \in [Procs -> Processes] /\ w \in Processes /\ EditorOK(p)
      /\ Tool(p) \in EditTools /\ Tool(p) \notin Plain /\ DOMAIN fs \subseteq Paths
      BY AtWork DEF EditTools, Plain
<1>2. proc' = [proc EXCEPT ![p] = r]
      BY <1>1 DEF Quitting
<1>3. "exit" \in AllPlaces
      BY DEF AllPlaces
<1>4. /\ r \in Processes /\ r.pc = "exit" /\ r.status = 1 /\ r.req = w.req
      /\ r.todo = w.todo /\ r.src = w.src
      /\ r.input = w.input /\ r.pos = w.pos /\ r.done = w.done
  <2>1. r \in Processes
        BY <1>1, <1>3 DEF Processes, Quitting
  <2> QED BY <1>1, <2>1 DEF Processes, Quitting
<1>5. lock = p /\ w.dst = Draft(p)
      BY <1>1 DEF EditorOK, HasShadow, HasDraft
<1>6. SameBut({Draft(p)}) /\ DOMAIN fs' \subseteq Paths
  <2>1. CASE stuck
        BY <1>1, <2>1 DEF SameBut, Discarded
  <2>2. CASE ~stuck
    <3>1. fs' = Unlinked(Draft(p))
          BY <1>5, <2>2 DEF Discarded
    <3> QED BY <1>1, <3>1, UnlinkedAt
  <2> QED BY <2>1, <2>2
<1>7. fs' = fs \/ lock = p
      BY <1>5
<1>8. lock' = lock \/ (lock = p /\ lock' = Nobody)
      BY <1>5
<1>9. r.pc \in {"exit", "killed"} /\ ~(r.pc = "exit" /\ r.status = 0)
      BY <1>4
<1> HIDE DEF r
<1> QED BY <1>1, <1>2, <1>4, <1>6, <1>7, <1>8, <1>9, EndsEditing DEF r

LEMMA PasswdActs ==
    ASSUME EditInv, NEW p \in Procs, Passwd(p)
    PROVE  Promised(p)
<1> DEFINE w == proc[p]
<1>1. Tool(p) = "passwd" /\ Tool(p) \in EditTools /\ Tool(p) \notin Plain /\ Draft(p) = ShadowTmp
      BY DEF Passwd, PasswdLock, PasswdAsk, PasswdTemp, PasswdEntry, PasswdClose, PasswdReplace,
             PasswdUnlock, PasswdDiscard, Streaming, Streamed, EditTools, Plain, Draft
<1>2. /\ proc \in [Procs -> Processes] /\ w \in Processes /\ EditorOK(p) /\ DOMAIN fs \subseteq Paths
      /\ fs' = fs => SameBut({Draft(p)}) /\ DOMAIN fs' \subseteq Paths
      BY <1>1, AtWork
<1>3. w.pc \notin {"start", "exit", "killed"} => lock = p
      BY <1>1, <1>2 DEF EditorOK, HasShadow
<1>4. CASE PasswdLock(p)
  <2>1. w.pc = "start" /\ fs' = fs /\ unnoticed' = unnoticed /\ before' = before
        BY <1>4 DEF PasswdLock, At
  <2>2. CASE lock = Nobody /\ lock' = p /\ proc' = [proc EXCEPT ![p].pc = "ask"]
    <3>1. proc' = [proc EXCEPT ![p] = Moving(proc[p], "ask")]
          BY <1>2, <2>2 DEF Moving
    <3> QED BY <1>1, <2>1, <2>2, <3>1, TakesLock
  <2>3. CASE Leave(p, 1)
        BY <1>1, <1>2, <2>1, <2>3, Goes
  <2> QED BY <1>4, <2>2, <2>3 DEF PasswdLock
<1>5. CASE PasswdAsk(p)
  <2>1. w.pc = "ask" /\ fs' = fs /\ unnoticed' = unnoticed /\ before' = before
        BY <1>5 DEF PasswdAsk, At
  <2>2. CASE Opened(p, Shadow) /\ UNCHANGED <<lock, faults>>
    <3>1. proc' = [proc EXCEPT ![p] = Opening(proc[p], Shadow, Content(Shadow))]
          BY <1>2, <2>2, Updates
    <3> QED BY <1>1, <2>1, <2>2, <3>1, ReadsShadow
  <2>3. CASE Leave(p, 1)
        BY <1>1, <1>2, <2>1, <2>3, Goes
  <2> QED BY <1>5, <2>2, <2>3 DEF PasswdAsk
<1>6. CASE PasswdTemp(p)
  <2>1. w.pc = "temp" /\ unnoticed' = unnoticed /\ before' = before
        BY <1>6 DEF PasswdTemp, At
  <2>2. CASE /\ fs' = Put(ShadowTmp, Empty) /\ lock' = lock
             /\ proc' = [proc EXCEPT ![p].dst = ShadowTmp, ![p].pc = "stream"]
    <3>1. fs' = Put(Draft(p), Empty) /\ proc' = [proc EXCEPT ![p] = Starting(proc[p], Draft(p))]
          BY <1>1, <1>2, <2>2 DEF Starting
    <3> QED BY <1>1, <2>1, <2>2, <3>1, MakesTemp
  <2>3. CASE fs' \in {fs, Unlinked(ShadowTmp)} /\ Leave(p, 1)
    <3>1. SameBut({Draft(p)}) /\ DOMAIN fs' \subseteq Paths
      <4>1. CASE fs' = fs
            BY <1>2, <4>1
      <4>2. CASE fs' = Unlinked(Draft(p))
            BY <1>2, <4>2, UnlinkedAt
      <4> QED BY <1>1, <2>3, <4>1, <4>2
    <3> QED BY <1>1, <1>3, <2>1, <2>3, <3>1, Goes
  <2> QED BY <1>6, <2>2, <2>3 DEF PasswdTemp
<1>7. CASE PasswdEntry(p)
  <2> DEFINE old == w.input[w.pos]
             entry == IF old.id = w.req.user THEN Edit(p, old) ELSE old
  <2>1. w.pc = "stream" /\ w.pos <= Len(w.input) /\ lock' = lock /\ before' = before
        BY <1>7 DEF PasswdEntry, Streaming, At
  <2>2. entry = Edition(p, w.input[w.pos])
        BY <1>1 DEF Edition
  <2>3. ASSUME NEW how \in Hows, Printed(p, entry, how), unnoticed' = unnoticed,
               proc' = [proc EXCEPT ![p].pos = @ + 1, ![p].buf = Held(p, entry, how),
                                    ![p].pc = IF how = "fail" THEN "discard" ELSE @]
        PROVE  Promised(p)
    <3> HIDE DEF entry
    <3> DEFINE pc == IF how = "fail" THEN "discard" ELSE "stream"
    <3>1. proc' = [proc EXCEPT ![p] = Printing(proc[p], Held(p, entry, how),
                                               IF how = "fail" THEN "discard" ELSE proc[p].pc)]
          BY <1>2, <2>3 DEF Printing
    <3>2. proc' = [proc EXCEPT ![p] = Printing(proc[p], Held(p, entry, how), pc)]
          BY <2>1, <3>1
    <3>3. IF how = "fail" THEN \/ pc = "discard" /\ unnoticed' = unnoticed
                               \/ pc = "stream" /\ unnoticed' = unnoticed \cup {p}
          ELSE pc = "stream" /\ unnoticed' = unnoticed
          BY <2>3
    <3>4. Printed(p, entry, how)
          BY <2>3
    <3> HIDE DEF pc
    <3> QED BY <1>1, <2>1, <2>2, <3>2, <3>3, <3>4, PrintsChunk
  <2>4. CASE /\ proc' = [proc EXCEPT ![p].pc = "close"]
             /\ unnoticed' = unnoticed \cup {p} /\ fs' = fs
    <3> DEFINE r == Moving(proc[p], "close")
    <3>1. proc' = [proc EXCEPT ![p] = r]
          BY <1>2, <2>4 DEF Moving
    <3>2. "close" \in AllPlaces /\ w.pc \in Writing
          BY <2>1 DEF AllPlaces, Writing
    <3>3. /\ r \in Processes /\ r.req = w.req /\ r.pc = "close" /\ r.status = w.status
          /\ r.todo = w.todo /\ r.src = w.src /\ r.dst = w.dst /\ r.input = w.input
          /\ r.pos = w.pos /\ r.buf = w.buf /\ r.done = w.done
          BY <1>2, <3>2, MovingRecord
    <3> HIDE DEF r
    <3> QED BY <1>1, <2>1, <2>4, <3>1, <3>2, <3>3, StopsEditing DEF r
  <2> QED BY <1>7, <2>3, <2>4 DEF PasswdEntry
<1>8. CASE PasswdClose(p)
  <2> DEFINE found == \E i \in 1 .. w.pos - 1 : w.input[i].id = w.req.user
             pc == IF found THEN "replace" ELSE "discard"
  <2>1. /\ w.pc \in {"stream", "close"} /\ lock' = lock /\ before' = before
        /\ w.pc = "stream" => w.pos > Len(w.input)
        BY <1>8 DEF PasswdClose, Streamed, At
  <2>2. PICK how \in {"write", "fail"} : Closed(p, how)
        BY <1>8 DEF PasswdClose
  <2>3. proc' = [proc EXCEPT ![p] = Closing(proc[p], pc)]
        BY <1>2, <1>8, Updates DEF PasswdClose
  <2>4. w.pc = "close" => p \in unnoticed
        BY <1>1, <1>2 DEF EditorOK, WrittenSoFar, At
  <2>5. pc # "discard" =>
          \E i \in 1 .. Len(w.input) : i < w.pos /\ w.input[i].id = w.req.user
    <3>1. SUFFICES ASSUME found
                   PROVE  \E i \in 1 .. Len(w.input) : i < w.pos /\ w.input[i].id = w.req.user
          OBVIOUS
    <3>2. w.input \in Seq(Chunks) /\ w.pos \in Nat \ {0}
          BY <1>2, Types
    <3>3. w.pos <= Len(w.input) + 1
          BY <1>2 DEF EditorOK, WrittenSoFar
    <3>4. PICK i \in 1 .. w.pos - 1 : w.input[i].id = w.req.user
          BY <3>1
    <3>5. i \in 1 .. Len(w.input) /\ i < w.pos
      <4> DEFINE n == Len(w.input)
                 pos == w.pos
      <4>1. n \in Nat /\ pos \in Nat \ {0} /\ pos <= n + 1 /\ i \in 1 .. pos - 1
            BY <3>2, <3>3
      <4> HIDE DEF n, pos
      <4>2. i \in 1 .. n /\ i < pos
            BY <4>1
      <4> QED BY <4>2 DEF n, pos
    <3> QED BY <3>4, <3>5
  <2>6. pc \in {"discard", "backup", "replace"} /\ pc # "backup"
        OBVIOUS
  <2> HIDE DEF pc, found
  <2> QED BY <1>1, <2>1, <2>2, <2>3, <2>4, <2>5, <2>6, ClosesDraft
<1>9. CASE PasswdReplace(p)
  <2>1. w.pc = "replace" /\ lock' = lock /\ unnoticed' = unnoticed /\ before' = before
        BY <1>9 DEF PasswdReplace, At
  <2>2. w.src = Shadow
        BY <1>1, <1>2, <2>1 DEF EditorOK, HasShadow, Editing
  <2>3. CASE /\ fs' = Renamed(w.dst, Shadow)
             /\ proc' = [proc EXCEPT ![p].pc = "unlock", ![p].done = {Shadow}]
    <3>1. proc' = [proc EXCEPT ![p] = Changing(proc[p])] /\ fs' = Renamed(w.dst, w.src)
          BY <1>2, <2>2, <2>3 DEF Changing
    <3> QED BY <1>1, <2>1, <3>1, ReplacesShadow
  <2>4. CASE fs' = fs /\ proc' = [proc EXCEPT ![p].pc = "discard"]
        BY <1>1, <2>1, <2>4, RenameFails
  <2> QED BY <1>9, <2>3, <2>4 DEF PasswdReplace
<1>10. CASE PasswdUnlock(p)
  <2>1. w.pc = "unlock" /\ fs' = fs /\ unnoticed' = unnoticed /\ before' = before /\ Leave(p, 0)
        BY <1>10 DEF PasswdUnlock, At
  <2>2. w.done = Operands(p)
        BY <1>1, <1>2, <2>1, NamesAre DEF EditorOK, HasShadow, At, EditInv
  <2> QED BY <1>1, <1>2, <2>1, <2>2, Goes
<1>11. CASE PasswdDiscard(p)
  <2>1. w.pc = "discard" /\ lock' = Nobody /\ unnoticed' = unnoticed /\ before' = before
        BY <1>11 DEF PasswdDiscard, At
  <2> QED BY <1>1, <1>11, <2>1, QuitsEditing DEF PasswdDiscard
<1> QED BY <1>4, <1>5, <1>6, <1>7, <1>8, <1>9, <1>10, <1>11 DEF Passwd

\* Whoever kills an editor leaves its files as they are.
LEMMA KilledActs ==
    ASSUME EditInv, NEW p \in Procs, Killed(p)
    PROVE  Promised(p)
<1> DEFINE r == Moving(proc[p], "killed")
<1>1. proc[p].pc \notin {"exit", "killed"} /\ fs' = fs /\ unnoticed' = unnoticed /\ before' = before
      BY DEF Killed, Alive
<1>2. Tool(p) \in EditTools
      BY <1>1 DEF EditInv, EditorOK, Places, EditTools
<1>3. /\ proc \in [Procs -> Processes] /\ proc[p] \in Processes
      /\ SameBut({Draft(p)}) /\ DOMAIN fs' \subseteq Paths
      BY <1>1, <1>2, AtWork
<1>4. proc' = [proc EXCEPT ![p] = r]
      BY <1>3 DEF Killed, Moving
<1>5. "killed" \in AllPlaces
      BY DEF AllPlaces
<1>6. /\ r \in Processes /\ r.pc = "killed" /\ r.status = proc[p].status /\ r.req = proc[p].req
      /\ r.todo = proc[p].todo /\ r.src = proc[p].src
      /\ r.input = proc[p].input /\ r.pos = proc[p].pos /\ r.done = proc[p].done
      BY <1>3, <1>5, MovingRecord
<1>7. lock' = lock \/ (lock = p /\ lock' = Nobody)
      BY DEF Killed
<1> HIDE DEF r
<1> QED BY <1>1, <1>2, <1>3, <1>4, <1>6, <1>7, EndsEditing

-----------------------------------------------------------------------------
(* Where no editor runs, AtomicEdit has nothing to do.                     *)

\* Requests and the files edited stay.
Records == DOMAIN proc = Procs /\ \A q \in Procs : {"req", "done", "pc"} \subseteq DOMAIN proc[q]
ProcRests ==
    /\ DOMAIN proc' = Procs
    /\ \A q \in Procs :
         /\ DOMAIN proc'[q] = DOMAIN proc[q]
         /\ proc'[q].req = proc[q].req /\ proc'[q].done = proc[q].done

LEMMA CallsRest ==
    ASSUME Records, NEW p \in Procs
    PROVE  /\ \A pc, src, dst : Enter(p, pc, src, dst) => ProcRests
           /\ \A op, src, dst : Push(p, op, src, dst) => ProcRests
           /\ \A ok, stuck : Returning(p, ok, stuck) => ProcRests
           /\ \A ok : Return(p, ok) => ProcRests
           /\ \A ok : Popped(p, ok) => ProcRests
           /\ \A status : NextOperand(p, status) => ProcRests
           /\ \A status : NextFile(p, status) => ProcRests
<1>1. \A pc, src, dst : Enter(p, pc, src, dst) => ProcRests
      BY DEF Enter, ProcRests, Records
<1>2. \A op, src, dst : Push(p, op, src, dst) => ProcRests
      BY DEF Push, ProcRests, Records
<1>3. \A ok, stuck : Returning(p, ok, stuck) => ProcRests
      BY DEF Returning, ProcRests, Records
<1>4. \A ok : Return(p, ok) => ProcRests
      BY <1>3 DEF Return
<1>5. \A ok : Popped(p, ok) => ProcRests
      BY DEF Popped, ProcRests, Records
<1>6. \A status : NextOperand(p, status) => ProcRests
      BY DEF NextOperand, ProcRests, Records
<1>7. \A status : NextFile(p, status) => ProcRests
      BY DEF NextFile, ProcRests, Records
<1> QED BY <1>1, <1>2, <1>3, <1>4, <1>5, <1>6, <1>7

CopyActions(p) ==
    \/ CopyOpen(p) \/ CopyChunk(p) \/ CopyClose(p) \/ CopyUndo(p)
    \/ CopyStep(p) \/ WalkEntry(p) \/ CopyDirEnd(p) \/ RemoveStep(p) \/ RemoveDirEnd(p)
    \/ smallclueCpCommand(p) \/ CpBack(p) \/ smallclueMvCommand(p) \/ MvCopied(p) \/ MvRemoved(p)
    \/ smallclueRmCommand(p) \/ RmBack(p) \/ smallclueLnCommand(p) \/ LnCreate(p)
    \/ Destination(p) \/ CommandExit(p)

LEMMA CopyRests ==
    ASSUME Records, NEW p \in Procs, CopyActions(p)
    PROVE  ProcRests /\ unnoticed' = unnoticed
<1>1. CASE CopyOpen(p)
  <2>1. unnoticed' = unnoticed
        BY <1>1 DEF CopyOpen
  <2>2. CASE Return(p, FALSE)
        BY <2>1, <2>2, CallsRest
  <2>3. CASE \E data : proc' = [proc EXCEPT ![p].input = data, ![p].pos = 1, ![p].ret = TRUE,
                                            ![p].pc = "writing"]
        BY <2>1, <2>3 DEF ProcRests, Records
  <2> QED BY <1>1, <2>2, <2>3 DEF CopyOpen
<1>2. CASE CopyChunk(p)
      BY <1>2 DEF CopyChunk, ProcRests, Records
<1>3. CASE CopyClose(p)
  <2>1. unnoticed' = unnoticed
        BY <1>3 DEF CopyClose
  <2>2. CASE Return(p, TRUE)
        BY <2>1, <2>2, CallsRest
  <2>3. CASE proc' = [proc EXCEPT ![p].pc = "uncopy"]
        BY <2>1, <2>3 DEF ProcRests, Records
  <2> QED BY <1>3, <2>2, <2>3 DEF CopyClose
<1>4. CASE CopyUndo(p)
      BY <1>4, CallsRest DEF CopyUndo
<1>5. CASE CopyStep(p)
      BY <1>5, CallsRest DEF CopyStep
<1>6. CASE WalkEntry(p)
      BY <1>6 DEF WalkEntry, ProcRests, Records
<1>7. CASE CopyDirEnd(p)
      BY <1>7, CallsRest DEF CopyDirEnd
<1>8. CASE RemoveStep(p)
      BY <1>8, CallsRest DEF RemoveStep
<1>9. CASE RemoveDirEnd(p)
      BY <1>9, CallsRest DEF RemoveDirEnd
<1>10. CASE smallclueCpCommand(p)
       BY <1>10, CallsRest DEF smallclueCpCommand
<1>11. CASE CpBack(p)
       BY <1>11, CallsRest DEF CpBack
<1>12. CASE smallclueMvCommand(p)
       BY <1>12, CallsRest DEF smallclueMvCommand
<1>13. CASE MvCopied(p)
       BY <1>13, CallsRest DEF MvCopied, ProcRests, Records
<1>14. CASE MvRemoved(p)
       BY <1>14 DEF MvRemoved, ProcRests, Records
<1>15. CASE smallclueRmCommand(p)
       BY <1>15, CallsRest DEF smallclueRmCommand
<1>16. CASE RmBack(p)
       BY <1>16, CallsRest DEF RmBack
<1>17. CASE smallclueLnCommand(p)
       BY <1>17, CallsRest DEF smallclueLnCommand
<1>18. CASE LnCreate(p)
       BY <1>18, CallsRest DEF LnCreate
<1>19. CASE Destination(p)
       BY <1>19 DEF Destination, ProcRests, Records
<1>20. CASE CommandExit(p)
       BY <1>20 DEF CommandExit, ProcRests, Records
<1> QED BY <1>1, <1>2, <1>3, <1>4, <1>5, <1>6, <1>7, <1>8, <1>9, <1>10, <1>11, <1>12, <1>13,
           <1>14, <1>15, <1>16, <1>17, <1>18, <1>19, <1>20 DEF CopyActions

LEMMA GzipRests ==
    ASSUME Records, NEW p \in Procs, Gzip(p)
    PROVE  ProcRests /\ unnoticed \subseteq unnoticed' /\ unnoticed' \subseteq unnoticed \cup {p}
<1>1. CASE GzipOpen(p)
  <2>1. unnoticed' = unnoticed
        BY <1>1 DEF GzipOpen
  <2>2. CASE NextFile(p, 1)
        BY <2>1, <2>2, CallsRest
  <2> DEFINE f == Head(proc[p].todo)
             from == Source(p, f)
             to == Target(p, f)
  <2>3. CASE proc' = [proc EXCEPT ![p].src = from, ![p].dst = to, ![p].input = Content(from),
                                  ![p].pos = 1, ![p].ret = TRUE, ![p].pc = "stream"]
    <3> HIDE DEF from, to
    <3> QED BY <2>1, <2>3 DEF ProcRests, Records
  <2> QED BY <1>1, <2>2, <2>3 DEF GzipOpen
<1>2. CASE GzipExit(p)
      BY <1>2 DEF GzipExit, ProcRests, Records
<1>3. CASE GzipCopy(p)
  <2>1. unnoticed' = unnoticed
        BY <1>3 DEF GzipCopy
  <2> DEFINE chunk == [proc[p].input[proc[p].pos] EXCEPT !.packed = (Tool(p) = "gzip")]
  <2>2. CASE \E how \in Hows :
                proc' = [proc EXCEPT ![p].pos = @ + 1, ![p].buf = Held(p, chunk, how),
                                     ![p].ret = (how # "fail"),
                                     ![p].pc = IF how = "fail" THEN "close" ELSE @]
    <3>1. PICK how \in Hows :
            proc' = [proc EXCEPT ![p].pos = @ + 1, ![p].buf = Held(p, chunk, how),
                                 ![p].ret = (how # "fail"),
                                 ![p].pc = IF how = "fail" THEN "close" ELSE @]
          BY <2>2
    <3> HIDE DEF chunk
    <3> QED BY <2>1, <3>1 DEF ProcRests, Records
  <2>3. CASE proc' = [proc EXCEPT ![p].ret = FALSE, ![p].pc = "close"]
        BY <2>1, <2>3 DEF ProcRests, Records
  <2> QED BY <1>3, <2>2, <2>3 DEF GzipCopy
<1>4. CASE GzipClose(p)
  <2>1. unnoticed' = unnoticed \/ unnoticed' = unnoticed \cup {p}
        BY <1>4 DEF GzipClose, Closed
  <2>2. CASE proc' = [proc EXCEPT ![p].buf = <<>>, ![p].pc = "unlink"]
        BY <2>1, <2>2 DEF ProcRests, Records
  <2>3. CASE proc' = [proc EXCEPT ![p].buf = <<>>, ![p].todo = Tail(@), ![p].pc = "start",
                                  ![p].status = IF proc[p].ret THEN @ ELSE 1]
        BY <2>1, <2>3 DEF ProcRests, Records
  <2> QED BY <1>4, <2>2, <2>3 DEF GzipClose
<1>5. CASE GzipUnlink(p)
      BY <1>5, CallsRest DEF GzipUnlink
<1> QED BY <1>1, <1>2, <1>3, <1>4, <1>5 DEF Gzip

\* In EditInv no process is where the other commands act.
LEMMA OthersAreIdle ==
    ASSUME EditInv, NEW p \in Procs
    PROVE  ~CopyActions(p) /\ ~Gzip(p)
<1>1. proc[p].pc \in Places(Tool(p)) \cup {"exit", "killed"}
      BY DEF EditInv, EditorOK
<1>2. proc[p].pc \in AllPlaces /\ (Tool(p) \notin EditTools => proc[p].pc \in {"exit", "killed"})
      BY <1>1 DEF Places, AllPlaces, EditTools
<1>3. proc[p].pc \notin {"copyfile", "writing", "closing", "uncopy", "copy", "walk", "remove", "begin",
                         "link", "back", "unlink"}
      BY <1>2 DEF AllPlaces
<1>4. ASSUME CopyActions(p)
      PROVE  Tool(p) \in CopyTools /\ proc[p].pc = "start"
      BY <1>3, <1>4 DEF CopyActions, CopyOpen, CopyChunk, CopyClose, CopyUndo, CopyStep, WalkEntry, CopyDirEnd,
         RemoveStep, RemoveDirEnd, smallclueCpCommand, CpBack, smallclueMvCommand, MvCopied, MvRemoved,
         smallclueRmCommand, RmBack, smallclueLnCommand, LnCreate, Destination, CommandExit, Operand, At,
         CopyTools
<1>5. ASSUME Gzip(p)
      PROVE  Tool(p) \in Gzips /\ proc[p].pc \notin {"exit", "killed"}
      BY <1>5 DEF Gzip, GzipOpen, GzipExit, GzipCopy, GzipClose, GzipUnlink, Streaming, Streamed, At
<1>6. Tool(p) \in CopyTools \cup Gzips => Tool(p) \notin EditTools
      BY DEF CopyTools, Gzips, EditTools
<1> QED BY <1>2, <1>4, <1>5, <1>6

LEMMA EditorsRest ==
    ASSUME NoEditors, NEW p \in Procs
    PROVE  ~Sed(p) /\ ~Patch(p) /\ ~Passwd(p)
<1>1. Tool(p) \notin EditTools
      BY DEF NoEditors
<1>2. ~Sed(p)
      BY <1>1 DEF Sed, SedOpen, SedExit, SedTemp, SedStream, SedClose, SedBackup, SedReplace, SedDiscard,
                  Streaming, Streamed, EditTools
<1>3. ~Patch(p)
      BY <1>1 DEF Patch, PatchApply, PatchExit, PatchTemp, PatchWrite, PatchClose, PatchReplace,
                  PatchDiscard, Streaming, Streamed, EditTools
<1>4. ~Passwd(p)
      BY <1>1 DEF Passwd, PasswdLock, PasswdAsk, PasswdTemp, PasswdEntry, PasswdClose, PasswdReplace,
                  PasswdUnlock, PasswdDiscard, Streaming, Streamed, EditTools
<1> QED BY <1>2, <1>3, <1>4

\* Without editors no file is edited.
LEMMA NothingEdited ==
    ASSUME NoEditors
    PROVE  Edited = {}
<1>1. \A q \in Procs : [p \in Procs |-> proc[p].req][q].tool \notin EditTools
      BY DEF NoEditors, Tool
<1> DEFINE requests == [p \in Procs |-> proc[p].req]
<1> HIDE DEF requests
<1>2. {q \in Procs : requests[q].tool \in EditTools} = {}
      BY <1>1 DEF requests
<1>3. Goals(requests) = {}
      BY <1>2 DEF Goals
<1> QED BY <1>3 DEF Edited, requests

LEMMA OthersKeepPromise ==
    ASSUME NoEditors, NEW p \in Procs, CopyActions(p) \/ Gzip(p) \/ Killed(p)
    PROVE  NoEditors' /\ Promise!Next
<1>1. Records
      BY DEF NoEditors, Records
<1>2. ProcRests /\ unnoticed \subseteq unnoticed' /\ unnoticed' \subseteq unnoticed \cup {p}
  <2>1. CASE Killed(p)
        BY <1>1, <2>1 DEF Killed, ProcRests, Records
  <2> QED BY <1>1, <2>1, CopyRests, GzipRests
<1>3. NoEditors'
      BY <1>2 DEF NoEditors, ProcRests, Tool
<1>4. Edited = {} /\ Edited' = {}
  <2>1. (Edited = {})'
        BY <1>3, NothingEdited, PTL
  <2> QED BY <2>1, NothingEdited
<1>5. \A q \in Procs : Tool(q) \notin EditTools /\ Tool(q)' \notin EditTools /\ Tool(q)' = Tool(q)
      BY <1>2, <1>3 DEF NoEditors, ProcRests, Tool
<1>6. [t \in Paths |-> Current(t)]' = [t \in Paths |-> Current(t)]
      BY <1>4 DEF Current
<1>7. \A q \in Procs : /\ CopyOf(q) = {"none"} /\ CopyOf(q)' = {"none"}
                       /\ TargetOf(q) = <<>> /\ TargetOf(q)' = <<>>
                       /\ Wanted(q)' = Wanted(q) /\ Result(q) = "running" /\ Result(q)' = "running"
      BY <1>5 DEF CopyOf, Editing, TargetOf, Wanted, Result
<1>8. \A q \in Procs : proc'[q].done = proc[q].done
      BY <1>2 DEF ProcRests
<1> DEFINE copy == [q \in Procs |-> CopyOf(q)]
           target == [q \in Procs |-> TargetOf(q)]
           asked == [q \in Procs |-> Wanted(q)]
           done == [q \in Procs |-> proc[q].done]
           result == [q \in Procs |-> Result(q)]
<1>9. copy' = copy /\ target' = target /\ asked' = asked /\ done' = done /\ result' = result
      BY <1>7, <1>8
<1> QED BY <1>2, <1>3, <1>6, <1>9 DEF Promise!Next, Promise!Lose, CopyOf, TargetOf, Wanted

-----------------------------------------------------------------------------
(* The initial states, and the theorems.                                   *)

LEMMA NewProcRecord ==
    ASSUME NEW req
    PROVE  LET r == NewProc(req)
           IN  /\ DOMAIN r = {"pc", "req", "todo", "into", "src", "dst", "input", "pos", "buf", "stack",
                              "ret", "status", "copied", "done", "stuck"}
               /\ r.req = req /\ r.todo = req.operands /\ r.into = FALSE /\ r.src = <<>>
               /\ r.dst = <<>> /\ r.input = <<>> /\ r.pos = 1 /\ r.buf = <<>> /\ r.stack = <<>>
               /\ r.ret = TRUE /\ r.status = 0 /\ r.copied = FALSE /\ r.done = {} /\ r.stuck = FALSE
               /\ req.tool = "none" => r.pc = "exit"
               /\ req.tool \in EditTools => r.pc = "start"
               /\ req \in Requests /\ req.tool \in EditTools \cup {"none"} /\ req.operands \in Seq(Paths)
                    => r \in Processes
<1> DEFINE r == NewProc(req)
<1>1. /\ DOMAIN r = {"pc", "req", "todo", "into", "src", "dst", "input", "pos", "buf", "stack",
                     "ret", "status", "copied", "done", "stuck"}
      /\ r.req = req /\ r.todo = req.operands /\ r.into = FALSE /\ r.src = <<>>
      /\ r.dst = <<>> /\ r.input = <<>> /\ r.pos = 1 /\ r.buf = <<>> /\ r.stack = <<>>
      /\ r.ret = TRUE /\ r.status = 0 /\ r.copied = FALSE /\ r.done = {} /\ r.stuck = FALSE
      BY DEF NewProc
<1>2. (req.tool = "none" => r.pc = "exit") /\ (req.tool \in EditTools => r.pc = "start")
      BY DEF NewProc, EditTools
<1>3. ASSUME req \in Requests, req.tool \in EditTools \cup {"none"}, req.operands \in Seq(Paths)
      PROVE  r \in Processes
  <2>1. r.pc \in AllPlaces
        BY <1>2, <1>3 DEF AllPlaces
  <2>2. <<>> \in Seq(Chunks)
        BY EmptySeq
  <2>3. \E pc : r = [pc |-> pc, req |-> req, todo |-> req.operands, into |-> FALSE, src |-> <<>>,
                     dst |-> <<>>, input |-> <<>>, pos |-> 1, buf |-> <<>>, stack |-> <<>>, ret |-> TRUE,
                     status |-> 0, copied |-> FALSE, done |-> {}, stuck |-> FALSE]
        BY DEF NewProc
  <2>4. PICK pc : r = [pc |-> pc, req |-> req, todo |-> req.operands, into |-> FALSE, src |-> <<>>,
                       dst |-> <<>>, input |-> <<>>, pos |-> 1, buf |-> <<>>, stack |-> <<>>, ret |-> TRUE,
                       status |-> 0, copied |-> FALSE, done |-> {}, stuck |-> FALSE]
        BY <2>3
  <2> HIDE DEF r
  <2>5. pc \in AllPlaces
        BY <2>1, <2>4
  <2> HIDE DEF AllPlaces
  <2> QED BY <1>3, <2>2, <2>4, <2>5 DEF Processes
<1> QED BY <1>1, <1>2, <1>3

\* Every world has editors and no other commands, or none.
LEMMA InitIsOK ==
    ASSUME Init
    PROVE  CommandsInv /\ Promise!Init
<1>1. PICK world \in Worlds :
         /\ fs = world.files /\ before = world.files
         /\ proc = [p \in Procs |-> NewProc(world.requests[p])]
      BY DEF Init
<1>2. lock = Nobody /\ unnoticed = {}
      BY DEF Init
<1>3. \A p \in Procs :
        /\ proc[p].req = world.requests[p] /\ proc[p].todo = world.requests[p].operands
        /\ proc[p].src = <<>> /\ proc[p].input = <<>> /\ proc[p].pos = 1 /\ proc[p].buf = <<>>
        /\ proc[p].status = 0 /\ proc[p].done = {}
        /\ Tool(p) = "none" => proc[p].pc = "exit"
        /\ Tool(p) \in EditTools => proc[p].pc = "start"
  <2> SUFFICES ASSUME NEW p \in Procs
               PROVE  /\ proc[p].req = world.requests[p] /\ proc[p].todo = world.requests[p].operands
                      /\ proc[p].src = <<>> /\ proc[p].input = <<>> /\ proc[p].pos = 1 /\ proc[p].buf = <<>>
                      /\ proc[p].status = 0 /\ proc[p].done = {}
                      /\ Tool(p) = "none" => proc[p].pc = "exit"
                      /\ Tool(p) \in EditTools => proc[p].pc = "start"
      OBVIOUS
  <2> DEFINE req == world.requests[p]
  <2>1. proc[p] = NewProc(req)
        BY <1>1
  <2> HIDE DEF req
  <2>2. /\ proc[p].req = req /\ proc[p].todo = req.operands /\ proc[p].src = <<>> /\ proc[p].input = <<>>
        /\ proc[p].pos = 1 /\ proc[p].buf = <<>> /\ proc[p].status = 0 /\ proc[p].done = {}
    <3>1. /\ NewProc(req).req = req /\ NewProc(req).todo = req.operands
          /\ NewProc(req).src = <<>> /\ NewProc(req).input = <<>> /\ NewProc(req).pos = 1
          /\ NewProc(req).buf = <<>> /\ NewProc(req).status = 0 /\ NewProc(req).done = {}
          BY NewProcRecord
    <3> QED BY <2>1, <3>1
  <2>3. (req.tool = "none" => proc[p].pc = "exit") /\ (req.tool \in EditTools => proc[p].pc = "start")
    <3>1. /\ req.tool = "none" => NewProc(req).pc = "exit"
          /\ req.tool \in EditTools => NewProc(req).pc = "start"
          BY NewProcRecord
    <3> QED BY <2>1, <3>1
  <2>4. Tool(p) = req.tool
        BY <2>2 DEF Tool
  <2> QED BY <2>2, <2>3, <2>4 DEF req
<1>4. Promise!Init
  <2>1. \A p \in Procs : /\ CopyOf(p) = {"none"} /\ proc[p].done = {} /\ Result(p) = "running"
        BY <1>3 DEF CopyOf, Editing, Result
  <2> QED BY <1>2, <2>1 DEF Promise!Init, CopyOf
<1>5. CASE \A p \in Procs : world.requests[p].tool \notin EditTools
  <2>1. \A p \in Procs : Tool(p) \notin EditTools
        BY <1>3, <1>5 DEF Tool
  <2>2. \A p \in Procs : {"req", "done", "pc"} \subseteq DOMAIN proc[p]
    <3> SUFFICES ASSUME NEW p \in Procs PROVE {"req", "done", "pc"} \subseteq DOMAIN proc[p]
        OBVIOUS
    <3>1. proc[p] = NewProc(world.requests[p])
          BY <1>1
    <3>2. {"req", "done", "pc"} \subseteq DOMAIN NewProc(world.requests[p])
      <4>1. \A req : DOMAIN NewProc(req) = {"pc", "req", "todo", "into", "src", "dst", "input", "pos", "buf",
                                            "stack", "ret", "status", "copied", "done", "stuck"}
            BY NewProcRecord
      <4> QED BY <4>1
    <3> QED BY <3>1, <3>2
  <2>3. NoEditors
        BY <1>1, <1>2, <1>3, <2>1, <2>2 DEF NoEditors
  <2> QED BY <1>4, <2>3 DEF CommandsInv
<1>6. CASE Editable(world.files, world.requests) /\ NamesApart(world.requests)
  <2> DEFINE reqs == [p \in Procs |-> proc[p].req]
  <2>1. Goals(reqs) = Goals(world.requests) /\ \A p \in Procs : reqs[p] = world.requests[p]
    <3>1. \A p \in Procs : reqs[p] = world.requests[p]
          BY <1>3
    <3> HIDE DEF reqs
    <3>2. {q \in Procs : reqs[q].tool \in EditTools} = {q \in Procs : world.requests[q].tool \in EditTools}
          BY <3>1
    <3>3. {Asked(reqs[p]) : p \in {q \in Procs : reqs[q].tool \in EditTools}} =
          {Asked(world.requests[p]) : p \in {q \in Procs : world.requests[q].tool \in EditTools}}
          BY <3>1, <3>2
    <3> QED BY <3>1, <3>3 DEF Goals
  <2> HIDE DEF reqs
  <2>2. Editable(before, reqs)
        BY <1>1, <1>6, <2>1 DEF Editable
  <2>3. NamesApart(reqs)
        BY <1>6, <2>1 DEF NamesApart
  <2>4. \A p \in Procs : Tool(p) \in EditTools \cup {"none"} /\ world.requests[p].operands \in Seq(Paths)
        BY <1>3, <1>6 DEF Editable, Tool
  <2>5. proc \in [Procs -> Processes]
    <3>1. ASSUME NEW p \in Procs PROVE NewProc(world.requests[p]) \in Processes
      <4>1. world.requests[p] \in Requests
            BY DEF Requests
      <4>2. world.requests[p].tool \in EditTools \cup {"none"}
            BY <1>6 DEF Editable
      <4> QED BY <2>4, <4>1, <4>2, NewProcRecord
    <3> QED BY <1>1, <3>1
  <2>6. Typed
    <3>1. DOMAIN fs \subseteq Paths
          BY <1>1, <1>6 DEF Editable
    <3> QED BY <1>2, <2>2, <2>3, <2>5, <3>1 DEF Typed, reqs
  <2>7. ASSUME NEW p \in Procs PROVE EditorOK(p)
    <3>1. proc[p].pc \in Places(Tool(p)) \cup {"exit", "killed"} /\ proc[p].pc \in {"start", "exit"}
          BY <1>3, <2>4 DEF Places, EditTools
    <3>2. ~Editing(p)
          BY <3>1 DEF Editing
    <3>3. proc[p].todo = proc[p].req.operands
          BY <1>3
    <3>4. Operands(p) = {proc[p].todo[i] : i \in 1 .. Len(proc[p].todo)}
          BY <3>3 DEF Operands, Asked
    <3>5. WorkLeft(p)
          BY <1>3, <3>2, <3>4 DEF WorkLeft
    <3>6. SedStatus(p) /\ HasDraft(p) /\ InputUniform(p) /\ HasShadow(p)
          BY <1>3, <3>1, <3>2 DEF SedStatus, HasDraft, InputUniform, HasShadow, Writing, At
    <3>7. WrittenSoFar(p)
      <4>1. 1 <= Len(<<>>) + 1
            BY EmptySeq
      <4> QED BY <1>3, <3>1, <4>1 DEF WrittenSoFar, At
    <3> QED BY <3>1, <3>5, <3>6, <3>7 DEF EditorOK
  <2>8. ASSUME NEW t \in Edited PROVE TargetOK(t)
    <3>1. t \in Goals(world.requests)
          BY <2>1 DEF Edited, reqs
    <3>2. /\ t \in DOMAIN fs /\ fs[t] = [kind |-> "file", data |-> fs[t].data]
          /\ fs[t].data \in Seq(Chunks)
          /\ \A i \in 1 .. Len(fs[t].data) : fs[t].data[i].by = {}
          BY <1>1, <1>6, <3>1 DEF Editable
    <3>3. fs[t] \in Nodes
          BY <3>2 DEF Nodes
    <3>4. Uniform(fs[t].data)
      <4>1. {} \in SUBSET Procs /\ AllBy(fs[t].data, {})
            BY <3>2 DEF AllBy
      <4> QED BY <4>1 DEF Uniform
    <3> QED BY <3>2, <3>3, <3>4 DEF TargetOK, Exists
  <2> QED BY <1>4, <2>6, <2>7, <2>8 DEF CommandsInv, EditInv
<1> QED BY <1>5, <1>6, WorldsAssumption

\* A step without effect.
LEMMA StutterIsPromised ==
    ASSUME UNCHANGED vars, CommandsInv
    PROVE  CommandsInv' /\ UNCHANGED Promise!vars
<1>1. fs' = fs /\ proc' = proc /\ lock' = lock /\ unnoticed' = unnoticed /\ before' = before
      BY DEF vars
<1>2. Edited' = Edited
      BY <1>1 DEF Edited
<1>3. \A q \in Procs : Tool(q)' = Tool(q) /\ Operands(q)' = Operands(q)
      BY <1>1 DEF Tool, Operands
<1>4. \A t, data : Version(t, data)' = Version(t, data)
      BY <1>1 DEF Version, WholeText
<1>5. \A path : Exists(path)' = Exists(path) /\ Content(path)' = Content(path)
      BY <1>1 DEF Exists, Content, Is
<1>6. ASSUME NEW t \in Paths PROVE Current(t)' = Current(t)
  <2>1. Backup(t)' = Backup(t)
        BY DEF Backup
  <2> QED BY <1>2, <1>4, <1>5, <2>1 DEF Current
<1>7. \A q \in Procs : /\ CopyOf(q)' = CopyOf(q) /\ TargetOf(q)' = TargetOf(q)
                       /\ Wanted(q)' = Wanted(q) /\ Result(q)' = Result(q)
      BY <1>1, <1>3, <1>4 DEF CopyOf, Editing, TargetOf, Wanted, Result, At
<1>8. UNCHANGED Promise!vars
  <2>1. [t \in Paths |-> Current(t)]' = [t \in Paths |-> Current(t)]
        BY <1>6
  <2>2. [q \in Procs |-> CopyOf(q)]' = [q \in Procs |-> CopyOf(q)]
        BY <1>7
  <2>3. [q \in Procs |-> TargetOf(q)]' = [q \in Procs |-> TargetOf(q)]
        BY <1>7
  <2>4. [q \in Procs |-> Wanted(q)]' = [q \in Procs |-> Wanted(q)]
        BY <1>7
  <2>5. [q \in Procs |-> proc[q].done]' = [q \in Procs |-> proc[q].done]
        BY <1>1
  <2>6. [q \in Procs |-> Result(q)]' = [q \in Procs |-> Result(q)]
        BY <1>7
  <2> QED BY <1>1, <2>1, <2>2, <2>3, <2>4, <2>5, <2>6 DEF Promise!vars, CopyOf, TargetOf, Wanted
<1>9. CommandsInv'
  <2>1. CASE NoEditors
        BY <1>1, <1>3, <2>1 DEF CommandsInv, NoEditors
  <2>2. CASE EditInv
    <3>1. \A q \in Procs : Draft(q)' = Draft(q)
          BY <1>3 DEF Draft
    <3>2. EditInv'
      <4>1. Typed'
        <5> DEFINE reqs == [q \in Procs |-> proc[q].req]
        <5>1. Editable(before, reqs) /\ NamesApart(reqs) /\ reqs' = reqs
              BY <1>1, <2>2 DEF EditInv, Typed
        <5> HIDE DEF reqs
        <5>2. Editable(before, reqs)'
          <6>1. before' = before
                BY <1>1
          <6>2. Editable(before', reqs')
                BY <5>1, <6>1
          <6> QED BY <6>2 DEF Editable, Goals, Asked
        <5>3. NamesApart(reqs)'
              BY <5>1 DEF NamesApart, Goals, Asked
        <5>4. /\ proc' \in [Procs -> Processes] /\ lock' \in Procs \cup {Nobody}
              /\ unnoticed' \subseteq Procs /\ DOMAIN fs' \subseteq Paths
              BY <1>1, <2>2 DEF EditInv, Typed
        <5> QED BY <5>2, <5>3, <5>4 DEF Typed, reqs
      <4>2. ASSUME NEW q \in Procs PROVE EditorOK(q)'
        <5>1. EditorOK(q)
              BY <2>2 DEF EditInv
        <5>2. Editing(q)' = Editing(q) /\ Out(q)' = Out(q)
              BY <1>1, <1>3, <1>5 DEF Editing, Out
        <5>3. \A c : Edition(q, c)' = Edition(q, c)
              BY <1>1, <1>3 DEF Edition, Edit
        <5>4. WorkLeft(q)' /\ SedStatus(q)' /\ HasShadow(q)'
              BY <1>1, <1>3, <5>1, <5>2 DEF EditorOK, WorkLeft, SedStatus, HasShadow, At
        <5>5. HasDraft(q)' /\ WrittenSoFar(q)' /\ InputUniform(q)'
              BY <1>1, <1>3, <1>5, <3>1, <5>1, <5>2, <5>3
              DEF EditorOK, HasDraft, WrittenSoFar, InputUniform, AllBy, At
        <5> QED BY <1>1, <1>3, <5>1, <5>4, <5>5 DEF EditorOK
      <4>3. \A t \in Edited : TargetOK(t)'
            BY <1>1, <1>5, <2>2 DEF EditInv, TargetOK, Uniform, AllBy
      <4> QED BY <1>2, <4>1, <4>2, <4>3 DEF EditInv
    <3> QED BY <3>2 DEF CommandsInv
  <2> QED BY <2>1, <2>2 DEF CommandsInv
<1> QED BY <1>8, <1>9

LEMMA NextIsPromised ==
    ASSUME CommandsInv, [Next]_vars
    PROVE  CommandsInv' /\ [Promise!Next]_(Promise!vars)
<1>1. CASE UNCHANGED vars
      BY <1>1, StutterIsPromised
<1>2. CASE Next
  <2>1. PICK p \in Procs : Sed(p) \/ Patch(p) \/ Passwd(p) \/ Gzip(p) \/ CopyActions(p) \/ Killed(p)
        BY <1>2 DEF Next, ReplaceNext, CopyNext, CopyActions
  <2>2. CASE EditInv
    <3>1. Promised(p)
          BY <2>1, <2>2, SedActs, PatchActs, PasswdActs, KilledActs, OthersAreIdle
    <3> QED BY <3>1 DEF Promised, CommandsInv
  <2>3. CASE NoEditors
    <3>1. NoEditors' /\ Promise!Next
          BY <2>1, <2>3, EditorsRest, OthersKeepPromise
    <3> QED BY <3>1 DEF CommandsInv
  <2> QED BY <2>2, <2>3 DEF CommandsInv
<1> QED BY <1>1, <1>2

\* Whatever editors run side by side, and whatever fails or is killed: each
\* temporary file holds the edit of what has been read, all parts of a file have
\* the same edits, and who has the lock has read what the password file is.
THEOREM EditorsStayInOrder == Spec => []CommandsInv
<1>1. Init => CommandsInv
      BY InitIsOK
<1>2. CommandsInv /\ [Next]_vars => CommandsInv'
      BY NextIsPromised
<1> QED BY <1>1, <1>2, PTL DEF Spec

\* sed -i, patch and passwd implement AtomicEdit: whatever fails or is killed
\* and whoever else edits it, a file is replaced at once by its edit or not at
\* all, success means it was, and no passwd undoes another's change.
THEOREM EditorsKeepPromise == Spec => EditsAreAtomic
<1>1. Init => Promise!Init
      BY InitIsOK
<1>2. CommandsInv /\ [Next]_vars => [Promise!Next]_(Promise!vars)
      BY NextIsPromised
<1> QED BY <1>1, <1>2, EditorsStayInOrder, PTL DEF Spec, EditsAreAtomic, Promise!Spec
=============================================================================
