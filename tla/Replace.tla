------------------------------ MODULE Replace ------------------------------
(***************************************************************************)
(* Commands that give a file new content: sed -i, patch and passwd write   *)
(* a temporary file and rename it over the old one; gzip and gunzip write  *)
(* another file and then unlink the first.  One action is the code up to   *)
(* and with one system call that others can see.                           *)
(***************************************************************************)
EXTENDS Files

Shadow == <<"shadow">>
ShadowTmp == <<"shadow.tmp">>
Backup(f) == <<f[1] \o ".bak">>
Archive(f) == <<f[1] \o ".gz">>

Edit(p, chunk) == [chunk EXCEPT !.by = @ \cup {p}]

\* Printing a chunk: stdio keeps it, or writes what it holds, and that may fail.
Printed(p, chunk, how) ==
    /\ fs' = IF how = "write" THEN Extended(proc[p].dst, Append(proc[p].buf, chunk)) ELSE fs
    /\ IF how = "fail" THEN Fault ELSE NoFault
Held(p, chunk, how) == IF how = "keep" THEN Append(proc[p].buf, chunk) ELSE <<>>
Hows == {"keep", "write", "fail"}

\* fclose writes the rest; no command here looks at its result.
Closed(p, how) ==
    /\ how = "fail" => proc[p].buf # <<>>
    /\ fs' = IF how = "write" THEN Extended(proc[p].dst, proc[p].buf) ELSE fs
    /\ IF how = "fail" THEN Fault ELSE NoFault
    /\ unnoticed' = IF how = "fail" THEN unnoticed \cup {p} ELSE unnoticed

\* unlink of the temporary file, whose result no command looks at either.
Discarded(p, stuck) ==
    IF stuck THEN fs' = fs /\ Fault ELSE fs' = Unlinked(proc[p].dst) /\ NoFault

Streaming(p, tool) ==
    Tool(p) = tool /\ At(p, "stream") /\ proc[p].pos <= Len(proc[p].input)
Streamed(p, tool) ==
    Tool(p) = tool /\ (At(p, "close") \/ (At(p, "stream") /\ proc[p].pos > Len(proc[p].input)))

Opened(p, f) ==
    proc' = [proc EXCEPT ![p].src = f, ![p].input = Content(f), ![p].pos = 1, ![p].pc = "temp"]
NextFile(p, status) ==
    proc' = [proc EXCEPT ![p].todo = Tail(@), ![p].status = status, ![p].pc = "start"]

-----------------------------------------------------------------------------
(* sed -i[SUFFIX] FILE...: the first file that fails ends it.              *)

SedOpen(p) ==
    /\ Tool(p) = "sed" /\ At(p, "start") /\ proc[p].todo # <<>> /\ proc[p].status = 0
    /\ LET f == Head(proc[p].todo)
       IN  \/ Exists(f) /\ Opened(p, f) /\ NoFault
           \/ ~Exists(f) /\ NextFile(p, 1) /\ NoFault
           \/ Exists(f) /\ NextFile(p, 1) /\ Fault
    /\ UNCHANGED <<fs, lock, unnoticed, declined, before>>

SedExit(p) ==
    /\ Tool(p) = "sed" /\ At(p, "start") /\ (proc[p].todo = <<>> \/ proc[p].status # 0)
    /\ proc' = [proc EXCEPT ![p].pc = "exit"]
    /\ UNCHANGED <<fs, lock, faults, unnoticed, declined, before>>

SedTemp(p) ==
    /\ Tool(p) = "sed" /\ At(p, "temp")
    /\ \/ /\ fs' = Put(Temp[p], Empty) /\ NoFault
          /\ proc' = [proc EXCEPT ![p].dst = Temp[p], ![p].pc = "stream"]
       \/ fs' = fs /\ Fault /\ NextFile(p, 1)
    /\ UNCHANGED <<lock, unnoticed, declined, before>>

\* smallclueSedProcessStream: a failed read is an error, a failed write is not.
SedStream(p) ==
    /\ Streaming(p, "sed")
    /\ LET chunk == Edit(p, proc[p].input[proc[p].pos])
       IN  \/ \E how \in Hows :
                /\ Printed(p, chunk, how)
                /\ proc' = [proc EXCEPT ![p].pos = @ + 1, ![p].buf = Held(p, chunk, how)]
                /\ unnoticed' = IF how = "fail" THEN unnoticed \cup {p} ELSE unnoticed
           \/ /\ Fault
              /\ proc' = [proc EXCEPT ![p].status = 1, ![p].pc = "close"]
              /\ UNCHANGED <<fs, unnoticed>>
    /\ UNCHANGED <<lock, declined, before>>

SedClose(p) ==
    /\ Streamed(p, "sed")
    /\ \E how \in {"write", "fail"} : Closed(p, how)
    /\ proc' = [proc EXCEPT ![p].buf = <<>>,
                            ![p].pc = IF proc[p].status # 0 THEN "discard"
                                      ELSE IF proc[p].req.suffix THEN "backup" ELSE "replace"]
    /\ UNCHANGED <<lock, declined, before>>

SedBackup(p) ==
    /\ Tool(p) = "sed" /\ At(p, "backup")
    /\ \/ /\ Exists(proc[p].src) /\ NoFault
          /\ fs' = Renamed(proc[p].src, Backup(proc[p].src))
          /\ proc' = [proc EXCEPT ![p].pc = "replace"]
       \/ /\ IF Exists(proc[p].src) THEN Fault ELSE NoFault
          /\ fs' = fs
          /\ proc' = [proc EXCEPT ![p].status = 1, ![p].pc = "discard"]
    /\ UNCHANGED <<lock, unnoticed, declined, before>>

SedReplace(p) ==
    /\ Tool(p) = "sed" /\ At(p, "replace")
    /\ \/ /\ fs' = Renamed(proc[p].dst, proc[p].src) /\ NoFault
          /\ proc' = [proc EXCEPT ![p].todo = Tail(@), ![p].pc = "start",
                                  ![p].done = @ \cup {proc[p].src}]
       \/ /\ fs' = fs /\ Fault
          /\ proc' = [proc EXCEPT ![p].status = 1, ![p].pc = "discard"]
    /\ UNCHANGED <<lock, unnoticed, declined, before>>

SedDiscard(p) ==
    /\ Tool(p) = "sed" /\ At(p, "discard")
    /\ \E stuck \in BOOLEAN :
         /\ Discarded(p, stuck)
         /\ proc' = [proc EXCEPT ![p].todo = Tail(@), ![p].status = 1, ![p].pc = "start",
                                 ![p].stuck = stuck]
    /\ UNCHANGED <<lock, unnoticed, declined, before>>

Sed(p) ==
    \/ SedOpen(p) \/ SedExit(p) \/ SedTemp(p) \/ SedStream(p) \/ SedClose(p)
    \/ SedBackup(p) \/ SedReplace(p) \/ SedDiscard(p)

-----------------------------------------------------------------------------
(* patch: a section per file; one that fails does not stop the next.       *)

\* smallcluePatchApplySection has the whole file and applies the hunks before
\* it writes.  A file that cannot be opened counts as empty, and a failed
\* read as its end; the hunks need the first req.context lines.
PatchApply(p) ==
    /\ Tool(p) = "patch" /\ At(p, "start") /\ proc[p].todo # <<>>
    /\ LET f == Head(proc[p].todo)
       IN  \E n \in 0 .. Len(Content(f)) :
             /\ IF n < Len(Content(f)) THEN Fault ELSE NoFault
             /\ \/ /\ n >= proc[p].req.context
                   /\ proc' = [proc EXCEPT ![p].src = f, ![p].input = SubSeq(Content(f), 1, n),
                                           ![p].pos = 1, ![p].pc = "temp"]
                   /\ unnoticed' = IF n < Len(Content(f)) \/ ~Exists(f) THEN unnoticed \cup {p}
                                   ELSE unnoticed
                \/ NextFile(p, 1) /\ UNCHANGED unnoticed        \* a hunk does not match
    /\ UNCHANGED <<fs, lock, declined, before>>

PatchExit(p) ==
    /\ Tool(p) = "patch" /\ At(p, "start") /\ proc[p].todo = <<>>
    /\ proc' = [proc EXCEPT ![p].pc = "exit"]
    /\ UNCHANGED <<fs, lock, faults, unnoticed, declined, before>>

PatchTemp(p) ==
    /\ Tool(p) = "patch" /\ At(p, "temp")
    /\ \/ /\ fs' = Put(Temp[p], Empty) /\ NoFault
          /\ proc' = [proc EXCEPT ![p].dst = Temp[p], ![p].pc = "stream"]
       \/ fs' = fs /\ Fault /\ NextFile(p, 1)
    /\ UNCHANGED <<lock, unnoticed, declined, before>>

PatchWrite(p) ==
    /\ Streaming(p, "patch")
    /\ LET chunk == Edit(p, proc[p].input[proc[p].pos])
       IN  \E how \in Hows :
             /\ Printed(p, chunk, how)
             /\ proc' = [proc EXCEPT ![p].pos = @ + 1, ![p].buf = Held(p, chunk, how)]
             /\ unnoticed' = IF how = "fail" THEN unnoticed \cup {p} ELSE unnoticed
    /\ UNCHANGED <<lock, declined, before>>

PatchClose(p) ==
    /\ Streamed(p, "patch")
    /\ \E how \in {"write", "fail"} : Closed(p, how)
    /\ proc' = [proc EXCEPT ![p].buf = <<>>, ![p].pc = "replace"]
    /\ UNCHANGED <<lock, declined, before>>

PatchReplace(p) ==
    /\ Tool(p) = "patch" /\ At(p, "replace")
    /\ \/ /\ fs' = Renamed(proc[p].dst, proc[p].src) /\ NoFault
          /\ proc' = [proc EXCEPT ![p].todo = Tail(@), ![p].pc = "start",
                                  ![p].done = @ \cup {proc[p].src}]
       \/ fs' = fs /\ Fault /\ proc' = [proc EXCEPT ![p].pc = "discard"]
    /\ UNCHANGED <<lock, unnoticed, declined, before>>

PatchDiscard(p) ==
    /\ Tool(p) = "patch" /\ At(p, "discard")
    /\ \E stuck \in BOOLEAN :
         /\ Discarded(p, stuck)
         /\ proc' = [proc EXCEPT ![p].todo = Tail(@), ![p].status = 1, ![p].pc = "start",
                                 ![p].stuck = stuck]
    /\ UNCHANGED <<lock, unnoticed, declined, before>>

Patch(p) ==
    \/ PatchApply(p) \/ PatchExit(p) \/ PatchTemp(p) \/ PatchWrite(p) \/ PatchClose(p)
    \/ PatchReplace(p) \/ PatchDiscard(p)

-----------------------------------------------------------------------------
(* passwd: chunk i is the entry of user i, and every passwd uses the same  *)
(* temporary file, under the lock.                                         *)

Leave(p, status) ==
    /\ proc' = [proc EXCEPT ![p].pc = "exit", ![p].status = status]
    /\ lock' = IF lock = p THEN Nobody ELSE lock

\* Slip: the result of lckpwdf is not looked at.
PasswdLockUnchecked(p) ==
    /\ Tool(p) = "passwd" /\ At(p, "start")
    /\ lock' = IF lock = Nobody THEN p ELSE lock
    /\ proc' = [proc EXCEPT ![p].pc = "ask"]
    /\ UNCHANGED <<fs, faults, unnoticed, declined, before>>

\* lckpwdf waits for the lock, for a time.
PasswdLock(p) ==
    /\ Tool(p) = "passwd" /\ At(p, "start")
    /\ \/ lock = Nobody /\ lock' = p /\ proc' = [proc EXCEPT ![p].pc = "ask"]
       \/ lock # Nobody /\ Leave(p, 1)
    /\ UNCHANGED <<fs, faults, unnoticed, declined, before>>

\* The user answers, or cannot; then the file is opened.
PasswdAsk(p) ==
    /\ Tool(p) = "passwd" /\ At(p, "ask")
    /\ \/ Opened(p, Shadow) /\ UNCHANGED <<lock, faults>>
       \/ Leave(p, 1) /\ NoFault
       \/ Leave(p, 1) /\ Fault
    /\ UNCHANGED <<fs, unnoticed, declined, before>>

\* unlink of a file that an earlier passwd left, and open with O_EXCL.
PasswdTemp(p) ==
    /\ Tool(p) = "passwd" /\ At(p, "temp")
    /\ \/ /\ fs' = Put(ShadowTmp, Empty) /\ NoFault
          /\ proc' = [proc EXCEPT ![p].dst = ShadowTmp, ![p].pc = "stream"]
          /\ UNCHANGED lock
       \/ fs' \in {fs, Unlinked(ShadowTmp)} /\ Fault /\ Leave(p, 1)
    /\ UNCHANGED <<unnoticed, declined, before>>

\* fgetspent and putspent: a failed write is an error, a failed read is the end.
PasswdEntry(p) ==
    /\ Streaming(p, "passwd")
    /\ LET old == proc[p].input[proc[p].pos]
           entry == IF old.id = proc[p].req.user THEN Edit(p, old) ELSE old
       IN  \/ \E how \in Hows :
                /\ Printed(p, entry, how)
                /\ proc' = [proc EXCEPT ![p].pos = @ + 1, ![p].buf = Held(p, entry, how),
                                        ![p].pc = IF how = "fail" THEN "discard" ELSE @]
                /\ UNCHANGED unnoticed
           \/ /\ Fault
              /\ proc' = [proc EXCEPT ![p].pc = "close"]
              /\ unnoticed' = unnoticed \cup {p}
              /\ UNCHANGED fs
    /\ UNCHANGED <<lock, declined, before>>

PasswdClose(p) ==
    /\ Streamed(p, "passwd")
    /\ \E how \in {"write", "fail"} : Closed(p, how)
    /\ LET found == \E i \in 1 .. proc[p].pos - 1 : proc[p].input[i].id = proc[p].req.user
       IN  proc' = [proc EXCEPT ![p].buf = <<>>, ![p].pc = IF found THEN "replace" ELSE "discard"]
    /\ UNCHANGED <<lock, declined, before>>

PasswdReplace(p) ==
    /\ Tool(p) = "passwd" /\ At(p, "replace")
    /\ \/ /\ fs' = Renamed(proc[p].dst, Shadow) /\ NoFault
          /\ proc' = [proc EXCEPT ![p].pc = "unlock", ![p].done = {Shadow}]
       \/ fs' = fs /\ Fault /\ proc' = [proc EXCEPT ![p].pc = "discard"]
    /\ UNCHANGED <<lock, unnoticed, declined, before>>

PasswdUnlock(p) ==
    /\ Tool(p) = "passwd" /\ At(p, "unlock")
    /\ Leave(p, 0)
    /\ UNCHANGED <<fs, faults, unnoticed, declined, before>>

PasswdDiscard(p) ==
    /\ Tool(p) = "passwd" /\ At(p, "discard")
    /\ \E stuck \in BOOLEAN :
         /\ Discarded(p, stuck)
         /\ proc' = [proc EXCEPT ![p].pc = "exit", ![p].status = 1, ![p].stuck = stuck]
    /\ lock' = Nobody
    /\ UNCHANGED <<unnoticed, declined, before>>

Passwd(p) ==
    \/ PasswdLock(p) \/ PasswdAsk(p) \/ PasswdTemp(p) \/ PasswdEntry(p) \/ PasswdClose(p)
    \/ PasswdReplace(p) \/ PasswdUnlock(p) \/ PasswdDiscard(p)

-----------------------------------------------------------------------------
(* gzip and gunzip FILE...: no temporary file; what has been written stays *)
(* when the rest fails.                                                    *)

Gzips == {"gzip", "gunzip"}
Source(p, f) == IF Tool(p) = "gzip" THEN f ELSE Archive(f)
Target(p, f) == IF Tool(p) = "gzip" THEN Archive(f) ELSE f

\* Without -f an output that is there already is left alone.
GzipOpen(p) ==
    /\ Tool(p) \in Gzips /\ At(p, "start") /\ proc[p].todo # <<>>
    /\ LET f == Head(proc[p].todo)
           from == Source(p, f)
           to == Target(p, f)
       IN  \/ /\ Exists(from) /\ (proc[p].req.force \/ ~Exists(to)) /\ NoFault
              /\ fs' = Put(to, Empty)
              /\ proc' = [proc EXCEPT ![p].src = from, ![p].dst = to, ![p].input = Content(from),
                                      ![p].pos = 1, ![p].ret = TRUE, ![p].pc = "stream"]
           \/ /\ ~Exists(from) \/ (~proc[p].req.force /\ Exists(to))
              /\ fs' = fs /\ NoFault /\ NextFile(p, 1)
           \/ fs' = fs /\ Fault /\ NextFile(p, 1)
    /\ UNCHANGED <<lock, unnoticed, declined, before>>

GzipExit(p) ==
    /\ Tool(p) \in Gzips /\ At(p, "start") /\ proc[p].todo = <<>>
    /\ proc' = [proc EXCEPT ![p].pc = "exit"]
    /\ UNCHANGED <<fs, lock, faults, unnoticed, declined, before>>

\* gzipCopyPlainToGz and gzipCopyGzToPlain: failed reads and writes are errors.
\* zlib takes the end of an archive cut short for its end.
GzipCopy(p) ==
    /\ Tool(p) \in Gzips /\ Streaming(p, Tool(p))
    /\ LET chunk == [proc[p].input[proc[p].pos] EXCEPT !.packed = (Tool(p) = "gzip")]
       IN  \/ \E how \in Hows :
                /\ Printed(p, chunk, how)
                /\ proc' = [proc EXCEPT ![p].pos = @ + 1, ![p].buf = Held(p, chunk, how),
                                        ![p].ret = (how # "fail"),
                                        ![p].pc = IF how = "fail" THEN "close" ELSE @]
           \/ /\ Fault /\ UNCHANGED fs
              /\ proc' = [proc EXCEPT ![p].ret = FALSE, ![p].pc = "close"]
    /\ UNCHANGED <<lock, unnoticed, declined, before>>

GzipClose(p) ==
    /\ Tool(p) \in Gzips /\ Streamed(p, Tool(p))
    /\ \E how \in {"write", "fail"} : Closed(p, how)
    /\ IF proc[p].ret /\ ~proc[p].req.keep
       THEN proc' = [proc EXCEPT ![p].buf = <<>>, ![p].pc = "unlink"]
       ELSE proc' = [proc EXCEPT ![p].buf = <<>>, ![p].todo = Tail(@), ![p].pc = "start",
                                 ![p].status = IF proc[p].ret THEN @ ELSE 1]
    /\ UNCHANGED <<lock, declined, before>>

GzipUnlink(p) ==
    /\ Tool(p) \in Gzips /\ At(p, "unlink")
    /\ \/ fs' = Unlinked(proc[p].src) /\ NoFault
       \/ fs' = fs /\ Fault
    /\ NextFile(p, proc[p].status)
    /\ UNCHANGED <<lock, unnoticed, declined, before>>

Gzip(p) == GzipOpen(p) \/ GzipExit(p) \/ GzipCopy(p) \/ GzipClose(p) \/ GzipUnlink(p)

ReplaceNext == \E p \in Procs : Sed(p) \/ Patch(p) \/ Passwd(p) \/ Gzip(p)
=============================================================================
