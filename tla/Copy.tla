-------------------------------- MODULE Copy --------------------------------
(***************************************************************************)
(* cp, mv, rm and ln.  mv between devices is a copy and then a removal.    *)
(* The recursion over directories is a stack of frames, one per call that  *)
(* reads a directory: op is what it does, from and to its arguments, left  *)
(* the entries readdir has still to give, ok whether all went well so far. *)
(***************************************************************************)
EXTENDS Files

CopyTools == {"cp", "mv", "rm", "ln"}

\* The operand as it is inside the destination, when that is a directory.
Into(p, src) ==
    IF proc[p].into THEN Append(Follow(proc[p].req.dest), Leaf(src))
    ELSE proc[p].req.dest

\* A call of the recursion, and its return to the frame below or to the command.
Enter(p, pc, src, dst) ==
    proc' = [proc EXCEPT ![p].src = src, ![p].dst = dst, ![p].pc = pc]
Push(p, op, src, dst) ==
    proc' = [proc EXCEPT ![p].pc = "walk",
                         ![p].stack = Append(@, [op |-> op, from |-> src, to |-> dst,
                                                 left |-> Entries(src), ok |-> TRUE])]
Returning(p, ok, stuck) ==
    IF proc[p].stack = <<>>
    THEN proc' = [proc EXCEPT ![p].ret = ok, ![p].pc = "back", ![p].stuck = stuck]
    ELSE proc' = [proc EXCEPT ![p].pc = "walk", ![p].stack[Len(proc[p].stack)].ok = @ /\ ok,
                              ![p].stuck = stuck]
Return(p, ok) == Returning(p, ok, proc[p].stuck)
Top(p) == proc[p].stack[Len(proc[p].stack)]

\* The next operand, with the exit status so far.
NextOperand(p, status) ==
    proc' = [proc EXCEPT ![p].todo = Tail(@), ![p].status = status, ![p].pc = "start",
                         ![p].stack = <<>>]
Operand(p, tool) == Tool(p) = tool /\ At(p, "start") /\ proc[p].todo # <<>>

-----------------------------------------------------------------------------
(* smallclueCopyFile.                                                      *)

\* The destination is cut to nothing before the first chunk is written.
CopyOpen(p) ==
    /\ At(p, "copyfile")
    /\ LET from == Follow(proc[p].src)
           to == Follow(proc[p].dst)
       IN  \/ /\ Exists(from) /\ ~IsDir(from) /\ HasPlace(to) /\ ~IsDir(to) /\ NoFault
              /\ fs' = Put(to, Empty)
              /\ proc' = [proc EXCEPT ![p].input = IF from = to THEN <<>> ELSE Content(from),
                                      ![p].pos = 1, ![p].ret = TRUE, ![p].pc = "writing"]
           \/ /\ ~Exists(from) \/ IsDir(from) \/ ~HasPlace(to) \/ IsDir(to)
              /\ fs' = fs /\ NoFault /\ Return(p, FALSE)
           \/ fs' = fs /\ Fault /\ Return(p, FALSE)
    /\ UNCHANGED <<lock, unnoticed, declined, before>>

\* Slip: a failed write is taken for a done one.
CopyChunkUnchecked(p) ==
    /\ At(p, "writing") /\ proc[p].pos <= Len(proc[p].input)
    /\ \/ fs' = Extended(Follow(proc[p].dst), <<proc[p].input[proc[p].pos]>>) /\ NoFault
       \/ fs' = fs /\ Fault
    /\ proc' = [proc EXCEPT ![p].pos = @ + 1]
    /\ UNCHANGED <<lock, unnoticed, declined, before>>

CopyChunk(p) ==
    /\ At(p, "writing") /\ proc[p].pos <= Len(proc[p].input)
    /\ \/ /\ fs' = Extended(Follow(proc[p].dst), <<proc[p].input[proc[p].pos]>>) /\ NoFault
          /\ proc' = [proc EXCEPT ![p].pos = @ + 1]
       \/ /\ fs' = fs /\ Fault
          /\ proc' = [proc EXCEPT ![p].ret = FALSE, ![p].pc = "closing"]
    /\ UNCHANGED <<lock, unnoticed, declined, before>>

CopyClose(p) ==
    /\ At(p, "closing") \/ (At(p, "writing") /\ proc[p].pos > Len(proc[p].input))
    /\ \/ /\ proc[p].ret /\ NoFault /\ Return(p, TRUE)
       \/ /\ proc[p].ret /\ Fault
          /\ proc' = [proc EXCEPT ![p].pc = "uncopy"]
       \/ /\ ~proc[p].ret /\ NoFault
          /\ proc' = [proc EXCEPT ![p].pc = "uncopy"]
    /\ UNCHANGED <<fs, lock, unnoticed, declined, before>>

\* A failed copy is unlinked, whether or not there was a file before.
CopyUndo(p) ==
    /\ At(p, "uncopy")
    /\ \/ fs' = Unlinked(proc[p].dst) /\ NoFault /\ Return(p, FALSE)
       \/ fs' = fs /\ Fault /\ Returning(p, FALSE, TRUE)
    /\ UNCHANGED <<lock, unnoticed, declined, before>>

-----------------------------------------------------------------------------
(* smallclueCopyRecursive.                                                 *)

CopyStep(p) ==
    /\ At(p, "copy")
    /\ LET from == proc[p].src
           to == proc[p].dst
       IN  \/ /\ IF Exists(from) THEN Fault ELSE NoFault             \* lstat, readlink
              /\ fs' = fs /\ Return(p, FALSE)
           \/ /\ Is(from, "link")
              /\ IF HasPlace(to) /\ ~IsDir(to)
                 THEN \/ fs' = Put(to, fs[from]) /\ NoFault /\ Return(p, TRUE)
                      \/ fs' \in {fs, Unlinked(to)} /\ Fault /\ Return(p, FALSE)
                 ELSE fs' = fs /\ NoFault /\ Return(p, FALSE)
           \/ /\ Is(from, "dir")
              /\ \/ /\ HasPlace(to) \/ Exists(to)
                    /\ fs' = IF Exists(to) THEN fs ELSE Put(to, Directory)
                    /\ \/ NoFault /\ Push(p, "copy", from, to)
                       \/ Fault /\ Return(p, FALSE)                   \* opendir fails
                 \/ /\ IF HasPlace(to) \/ Exists(to) THEN Fault ELSE NoFault
                    /\ fs' = fs /\ Return(p, FALSE)
           \/ /\ Is(from, "file") /\ fs' = fs /\ NoFault /\ Enter(p, "copyfile", from, to)
           \/ /\ Is(from, "fifo") /\ fs' = fs /\ NoFault /\ Return(p, TRUE)   \* skipped
    /\ UNCHANGED <<lock, unnoticed, declined, before>>

\* One turn of a loop over a directory: an entry, or the end.
WalkEntry(p) ==
    /\ At(p, "walk") /\ Top(p).left # {}
    /\ \E name \in Top(p).left :
         proc' = [proc EXCEPT ![p].stack[Len(proc[p].stack)].left = @ \ {name},
                              ![p].src = Append(Top(p).from, name),
                              ![p].dst = Append(Top(p).to, name),
                              ![p].pc = Top(p).op]
    /\ UNCHANGED <<fs, lock, faults, unnoticed, declined, before>>

\* The frame goes; its result is the result of the call.
Popped(p, ok) ==
    LET below == SubSeq(proc[p].stack, 1, Len(proc[p].stack) - 1)
    IN  IF below = <<>>
        THEN proc' = [proc EXCEPT ![p].stack = <<>>, ![p].ret = ok, ![p].pc = "back"]
        ELSE proc' = [proc EXCEPT ![p].stack = [below EXCEPT ![Len(below)].ok = @ /\ ok]]

CopyDirEnd(p) ==
    /\ At(p, "walk") /\ Top(p).left = {} /\ Top(p).op = "copy"
    /\ Popped(p, Top(p).ok)
    /\ UNCHANGED <<fs, lock, faults, unnoticed, declined, before>>

-----------------------------------------------------------------------------
(* smallclueRemovePathWithLabel: mv calls it with force, without -i.       *)

Recursive(p) == IF Tool(p) = "mv" THEN IsDir(Head(proc[p].todo)) ELSE proc[p].req.recursive
Forced(p) == Tool(p) = "mv" \/ proc[p].req.force
Interactive(p) == Tool(p) = "rm" /\ proc[p].req.interactive

RemoveStep(p) ==
    /\ At(p, "remove")
    /\ LET path == proc[p].src
           Decline(ok) == declined' = declined \cup {path} /\ fs' = fs /\ NoFault /\ Return(p, ok)
       IN  \/ /\ ~Exists(path)
              /\ UNCHANGED <<fs, declined>> /\ NoFault /\ Return(p, Forced(p))
           \/ /\ Exists(path) /\ Interactive(p) /\ ~Forced(p) /\ Decline(TRUE)
           \/ /\ IsDir(path)
              /\ \/ /\ ~Recursive(p)
                    /\ UNCHANGED <<fs, declined>> /\ NoFault /\ Return(p, FALSE)
                 \/ /\ Recursive(p) /\ ~Interactive(p) /\ ~Forced(p) /\ Decline(FALSE)
                 \/ /\ Recursive(p) /\ UNCHANGED <<fs, declined>>
                    /\ \/ NoFault /\ Push(p, "remove", path, path)
                       \/ Fault /\ Return(p, FALSE)
           \/ /\ Exists(path) /\ ~IsDir(path) /\ UNCHANGED declined
              /\ \/ fs' = Unlinked(path) /\ NoFault /\ Return(p, TRUE)
                 \/ fs' = fs /\ Fault /\ Return(p, Forced(p))          \* -f hides it
    /\ UNCHANGED <<lock, unnoticed, before>>

RemoveDirEnd(p) ==
    /\ At(p, "walk") /\ Top(p).left = {} /\ Top(p).op = "remove"
    /\ \/ ~Top(p).ok /\ fs' = fs /\ NoFault /\ Popped(p, FALSE)
       \/ /\ Top(p).ok /\ Entries(Top(p).from) = {} /\ NoFault
          /\ fs' = Unlinked(Top(p).from) /\ Popped(p, TRUE)
       \/ /\ Top(p).ok /\ fs' = fs /\ Popped(p, FALSE)
          /\ IF Entries(Top(p).from) = {} THEN Fault ELSE NoFault
    /\ UNCHANGED <<lock, unnoticed, declined, before>>

-----------------------------------------------------------------------------
(* The commands.                                                           *)

CommandExit(p) ==
    /\ Tool(p) \in CopyTools /\ At(p, "start") /\ proc[p].todo = <<>>
    /\ proc' = [proc EXCEPT ![p].pc = "exit"]
    /\ UNCHANGED <<fs, lock, faults, unnoticed, declined, before>>

\* Whether the destination is a directory is asked once, before the first
\* operand; cp and mv insist on it when there are several, ln takes it for granted.
Destination(p) ==
    /\ At(p, "begin")
    /\ LET isDir == IsDir(Follow(proc[p].req.dest))
           several == Len(proc[p].todo) > 1
       IN  proc' = IF several /\ ~isDir /\ Tool(p) # "ln"
                   THEN [proc EXCEPT ![p].status = 1, ![p].pc = "exit"]
                   ELSE [proc EXCEPT ![p].into = isDir \/ several, ![p].pc = "start"]
    /\ UNCHANGED <<fs, lock, faults, unnoticed, declined, before>>

\* cp: -r walks directories; any other operand, a link too, is read as a file.
smallclueCpCommand(p) ==
    /\ Operand(p, "cp")
    /\ LET src == Head(proc[p].todo)
           dst == Into(p, src)
       IN  IF \/ ~Exists(src)
              \/ IsDir(src) /\ ~proc[p].req.recursive
              \/ Exists(Follow(dst)) /\ Follow(dst) = src
           THEN NextOperand(p, 1)
           ELSE Enter(p, IF IsDir(src) THEN "copy" ELSE "copyfile", src, dst)
    /\ UNCHANGED <<fs, lock, faults, unnoticed, declined, before>>

CpBack(p) ==
    /\ Tool(p) = "cp" /\ At(p, "back")
    /\ NextOperand(p, IF proc[p].ret THEN proc[p].status ELSE 1)
    /\ UNCHANGED <<fs, lock, faults, unnoticed, declined, before>>

\* mv: the checks, rename, and the copy when that is of another device.
\* With -i or -u (req.asks) the user or the times may keep what is there.
smallclueMvCommand(p) ==
    /\ Operand(p, "mv")
    /\ LET src == Head(proc[p].todo)
           dst == Into(p, src)
           Stay(status) == NextOperand(p, status) /\ fs' = fs
       IN  IF ~Exists(src) \/ (IsDir(dst) /\ ~IsDir(src)) THEN Stay(1) /\ NoFault
           ELSE \/ Exists(dst) /\ proc[p].req.keep /\ Stay(proc[p].status) /\ NoFault
                \/ Exists(dst) /\ proc[p].req.asks /\ Stay(proc[p].status) /\ NoFault
                \/ /\ Exists(dst) => ~proc[p].req.keep
                   /\ IF SameDevice(src, dst)
                      THEN IF \/ ~HasPlace(dst)
                              \/ Within(dst, src) /\ dst # src
                              \/ IsDir(src) /\ Exists(dst) /\ (~IsDir(dst) \/ Entries(dst) # {})
                           THEN Stay(1) /\ NoFault
                           ELSE \/ /\ fs' = IF src = dst THEN fs ELSE Renamed(src, dst)
                                   /\ NoFault /\ NextOperand(p, proc[p].status)
                                \/ Stay(1) /\ Fault
                      ELSE /\ fs' = fs /\ NoFault
                           /\ Enter(p, IF IsDir(src) THEN "copy" ELSE "copyfile", src, dst)
    /\ UNCHANGED <<lock, unnoticed, declined, before>>

\* Slip: the source is removed whatever the copy returns.
MvCopiedOrNot(p) ==
    /\ Tool(p) = "mv" /\ At(p, "back") /\ ~proc[p].copied
    /\ proc' = [proc EXCEPT ![p].copied = TRUE, ![p].src = Head(proc[p].todo), ![p].pc = "remove"]
    /\ UNCHANGED <<fs, lock, faults, unnoticed, declined, before>>

MvCopied(p) ==
    /\ Tool(p) = "mv" /\ At(p, "back") /\ ~proc[p].copied
    /\ IF proc[p].ret
       THEN proc' = [proc EXCEPT ![p].copied = TRUE, ![p].src = Head(proc[p].todo),
                                 ![p].pc = "remove"]
       ELSE NextOperand(p, 1)
    /\ UNCHANGED <<fs, lock, faults, unnoticed, declined, before>>

MvRemoved(p) ==
    /\ Tool(p) = "mv" /\ At(p, "back") /\ proc[p].copied
    /\ proc' = [proc EXCEPT ![p].todo = Tail(@), ![p].pc = "start", ![p].copied = FALSE,
                            ![p].status = IF proc[p].ret THEN @ ELSE 1]
    /\ UNCHANGED <<fs, lock, faults, unnoticed, declined, before>>

smallclueRmCommand(p) ==
    /\ Operand(p, "rm")
    /\ Enter(p, "remove", Head(proc[p].todo), Head(proc[p].todo))
    /\ UNCHANGED <<fs, lock, faults, unnoticed, declined, before>>

RmBack(p) ==
    /\ Tool(p) = "rm" /\ At(p, "back")
    /\ NextOperand(p, IF proc[p].ret \/ Forced(p) THEN proc[p].status ELSE 1)
    /\ UNCHANGED <<fs, lock, faults, unnoticed, declined, before>>

\* ln -s: with -f what has the name goes first; then the link is made.
smallclueLnCommand(p) ==
    /\ Operand(p, "ln")
    /\ LET src == Head(proc[p].todo)
           name == Into(p, src)
           goes == proc[p].req.force /\ Exists(name) /\ ~IsDir(name)
       IN  /\ Enter(p, "link", src, name)
           /\ \/ goes /\ fs' = Unlinked(name) /\ NoFault
              \/ ~goes /\ fs' = fs /\ NoFault
              \/ goes /\ fs' = fs /\ Fault
    /\ UNCHANGED <<lock, unnoticed, declined, before>>

LnCreate(p) ==
    /\ At(p, "link")
    /\ \/ /\ ~Exists(proc[p].dst) /\ HasPlace(proc[p].dst) /\ NoFault
          /\ fs' = Put(proc[p].dst, LinkTo(proc[p].src))
          /\ NextOperand(p, proc[p].status)
       \/ /\ IF Exists(proc[p].dst) \/ ~HasPlace(proc[p].dst) THEN NoFault ELSE Fault
          /\ fs' = fs /\ NextOperand(p, 1)
    /\ UNCHANGED <<lock, unnoticed, declined, before>>

CopyNext == \E p \in Procs :
    \/ CopyOpen(p) \/ CopyChunk(p) \/ CopyClose(p) \/ CopyUndo(p)
    \/ CopyStep(p) \/ WalkEntry(p) \/ CopyDirEnd(p) \/ RemoveStep(p) \/ RemoveDirEnd(p)
    \/ smallclueCpCommand(p) \/ CpBack(p) \/ smallclueMvCommand(p) \/ MvCopied(p) \/ MvRemoved(p)
    \/ smallclueRmCommand(p) \/ RmBack(p) \/ smallclueLnCommand(p) \/ LnCreate(p)
    \/ Destination(p) \/ CommandExit(p)
=============================================================================
