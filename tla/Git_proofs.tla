----------------------------- MODULE Git_proofs -----------------------------
(***************************************************************************)
(* What is proved of the git applet, for every history, every request and  *)
(* every order of failures, kills and pushes by others.                    *)
(***************************************************************************)
EXTENDS Git, NaturalsInduction, WellFoundedInduction, FiniteSetTheorems, SequenceTheorems, TLAPS

CmdFields == {"request", "pc", "rc", "index", "at", "commit", "specs", "seen", "denied"}

-----------------------------------------------------------------------------
(* Records stay records.                                                   *)

CmdShape == Is(cmd, CmdFields) /\ Is(cmd.request, RequestFields)
Shape == Is(repo, RepoFields) /\ Is(before, RepoFields) /\ CmdShape

LEMMA IsDomain ==
    ASSUME NEW r, NEW fields, Is(r, fields)
    PROVE  DOMAIN r = fields
  BY DEF Is

LEMMA ExceptIs ==
    ASSUME NEW r, NEW fields, Is(r, fields), NEW f, NEW v
    PROVE  Is([r EXCEPT ![f] = v], fields)
  BY DEF Is

\* git_checkout of some paths changes the index and the files.
LEMMA WriteIs ==
    ASSUME NEW r, Is(r, RepoFields), NEW tree, NEW ps
    PROVE  Is(Write(r, tree, ps), RepoFields)
  BY DEF Write, Is, RepoFields

LEMMA CheckoutIs ==
    ASSUME NEW r, Is(r, RepoFields), NEW a, NEW b, NEW ps
    PROVE  Is(SafeCheckout(r, a, b), RepoFields) /\ Is(ForceCheckout(r, a, ps), RepoFields)
           /\ Is(Apply(r, a, b), RepoFields)
  BY WriteIs DEF SafeCheckout, ForceCheckout, Apply

LEMMA MoveHeadIs ==
    ASSUME NEW r, Is(r, RepoFields), NEW c
    PROVE  Is(MoveHead(r, c), RepoFields)
  BY DEF MoveHead, Is, RepoFields

LEMMA CommitTreeIs ==
    ASSUME NEW r, Is(r, RepoFields), NEW tree, NEW parents
    PROVE  Is(CommitTree(r, tree, parents), RepoFields)
  <1>1. Is([r EXCEPT !.dag = Append(@, [parents |-> parents, tree |-> tree])], RepoFields)
    BY DEF Is, RepoFields
  <1> QED BY <1>1, MoveHeadIs DEF CommitTree

LEMMA ResetIs ==
    ASSUME NEW r, Is(r, RepoFields), NEW c, NEW ps
    PROVE  Is(ResetHard(r, c), RepoFields) /\ Is(ResetMixed(r, c), RepoFields)
           /\ Is(ResetSoft(r, c), RepoFields) /\ Is(ResetPaths(r, c, ps), RepoFields)
  <1>1. Is(MoveHead(ForceCheckout(r, TreeOf(r, c), Paths), c), RepoFields)
    BY CheckoutIs, MoveHeadIs
  <1>2. Is(ResetHard(r, c), RepoFields)
    BY <1>1 DEF ResetHard, Is, RepoFields
  <1>3. Is(MoveHead(r, c), RepoFields)
    BY MoveHeadIs
  <1>4. Is(ResetMixed(r, c), RepoFields) /\ Is(ResetSoft(r, c), RepoFields)
    BY <1>3 DEF ResetMixed, ResetSoft, Is, RepoFields
  <1>5. Is(ResetPaths(r, c, ps), RepoFields)
    BY DEF ResetPaths, Is, RepoFields
  <1> QED BY <1>2, <1>4, <1>5

LEMMA StashIs ==
    ASSUME NEW r, Is(r, RepoFields), NEW s, NEW x, NEW y
    PROVE  Is(StashSave(r, x, y), RepoFields) /\ Is(StashApply(r, s, x), RepoFields)
  <1>1. Is(StashSave(r, x, y), RepoFields)
    BY DEF StashSave, Is, RepoFields
  <1>2. Is(StashApply(r, s, x), RepoFields)
    BY CheckoutIs DEF StashApply, Is, RepoFields
  <1> QED BY <1>1, <1>2

LEMMA DownloadedIs ==
    ASSUME NEW r, Is(r, RepoFields), NEW remote, NEW ps, NEW prune, NEW tags
    PROVE  Is(Downloaded(r, remote, ps, prune, tags), RepoFields)
  BY DEF Downloaded, Is, RepoFields

LEMMA CleanupIs ==
    ASSUME NEW r, Is(r, RepoFields)
    PROVE  Is(Cleanup(r), RepoFields)
  BY DEF Cleanup, Is, RepoFields

-----------------------------------------------------------------------------
(* A command that refuses has changed nothing.  What it may have changed   *)
(* before it finds out is Touchable; the places from which it can refuse   *)
(* are MayRefuse.                                                          *)

Touchable ==
    IF IsOne({"rm"}) THEN {"files"}
    ELSE IF IsOne({"commit"}) /\ Has("all") THEN {"index"}
    ELSE IF IsOne({"remote"}) /\ Count > 0 THEN {"config"}
    ELSE IF IsOne({"rebase"}) THEN {"tags", "tracking"}
    ELSE {}
Untouched(fields) == \A f \in RepoFields \ (fields \cup {"dag"}) : repo[f] = before[f]
\* The loops of branch -d and tag -d, in which nothing is refused any more.
Deleting ==
    /\ Has("delete")
    /\ \/ Command("branch") /\ ~BranchUsage
       \/ Command("tag") /\ ~TagUsage
MayRefuse ==
    \/ cmd.pc = "start" /\ ~Deleting
    \/ At("rm", "remove") \/ cmd.pc = "pull_fetch" \/ At("commit", "check") \/ At("commit", "message")
    \/ Command("remote") /\ Count > 0 /\ cmd.pc \in {"refspecs", "tracks"}
    \/ Ended /\ cmd.rc \in {2, 128}
RefuseInv ==
    /\ Shape /\ session \in Sessions
    /\ OneAction(cmd.request) /\ cmd.request.paths \in Seq(STRING)
    /\ MayRefuse => Untouched(Touchable)
    /\ cmd.pc = "pull_fetch" => Command("pull")
    /\ At("remote", "tracks") /\ Count = 0 => cmd.specs \in {<<>>, <<"*">>}

\* The process goes on, ends, or ends without another change.
LEMMA GotoCmd ==
    ASSUME CmdShape, NEW pc, Goto(pc)
    PROVE  CmdShape' /\ cmd'.pc = pc /\ cmd'.request = cmd.request /\ cmd'.rc = cmd.rc
           /\ cmd'.specs = cmd.specs
  BY DEF CmdShape, Is, CmdFields, Goto

LEMMA ExitCmd ==
    ASSUME CmdShape, NEW rc, Exit(rc)
    PROVE  CmdShape' /\ cmd'.pc = "exit" /\ cmd'.request = cmd.request /\ cmd'.rc = rc
  BY DEF CmdShape, Is, CmdFields, Exit

LEMMA NoPaths == <<>> \in Seq(STRING) /\ Tail(<<"*">>) = <<>>
  OBVIOUS

LEMMA CountIsNat ==
    ASSUME RefuseInv
    PROVE  Count \in Nat
  <1>1. cmd.request.paths \in Seq(STRING)
    BY DEF RefuseInv
  <1> QED BY <1>1 DEF Count

LEMMA IdleCmd ==
    /\ Is(Idle, CmdFields) /\ Is(NoRequest, RequestFields) /\ Idle.request = NoRequest
    /\ Idle.pc = "idle" /\ OneAction(NoRequest) /\ NoRequest.paths \in Seq(STRING)
  BY NoPaths DEF Idle, NoRequest, Is, CmdFields, RequestFields, OneAction

\* A step after which nothing can be refused.
LEMMA NoRefusal ==
    ASSUME RefuseInv, Shape', cmd'.request = cmd.request, session' = session,
           ~MayRefuse', ~(Command("remote") /\ cmd'.pc = "tracks")
    PROVE  RefuseInv'
  BY DEF RefuseInv, At, Command, MayRefuse

\* A step from a place where something may be refused that changes only what may be touched.
LEMMA TouchesLittle ==
    ASSUME RefuseInv, Shape', cmd'.request = cmd.request, UNCHANGED <<before, session>>, MayRefuse,
           \A f \in RepoFields \ (Touchable \cup {"dag"}) : repo'[f] = repo[f],
           ~(Command("remote") /\ cmd'.pc = "tracks"), cmd'.pc = "pull_fetch" => Command("pull")
    PROVE  RefuseInv'
  <1>1. Touchable' = Touchable
    BY DEF Touchable, IsOne, Has, Count
  <1>2. Untouched(Touchable)'
    BY <1>1 DEF RefuseInv, Untouched
  <1> QED BY <1>2 DEF RefuseInv, At, Command

LEMMA RefusalEnds == RefuseInv => RefusalChangesNothing
  <1> SUFFICES ASSUME RefuseInv, Ended, cmd.rc \in {2, 128}
               PROVE  Apart(repo) = Apart(Excused)
    BY DEF RefusalChangesNothing
  <1>1. Untouched(Touchable) /\ Is(repo, RepoFields) /\ Is(before, RepoFields)
    BY DEF RefuseInv, Shape, MayRefuse
  <1>2. CASE IsOne({"rm"})
    BY <1>1, <1>2 DEF Untouched, Touchable, Apart, Excused, Is, RepoFields
  <1>3. CASE ~IsOne({"rm"}) /\ IsOne({"commit"}) /\ Has("all")
    BY <1>1, <1>3 DEF Untouched, Touchable, Apart, Excused, Is, RepoFields
  <1>4. CASE ~IsOne({"rm"}) /\ ~(IsOne({"commit"}) /\ Has("all")) /\ IsOne({"remote"}) /\ Count > 0
    BY <1>1, <1>4 DEF Untouched, Touchable, Apart, Excused, Is, RepoFields
  <1>5. CASE ~IsOne({"rm"}) /\ ~(IsOne({"commit"}) /\ Has("all")) /\ ~(IsOne({"remote"}) /\ Count > 0)
    <2>1. CASE IsOne({"rebase"})
      BY <1>1, <1>5, <2>1 DEF Untouched, Touchable, Apart, Excused, Is, RepoFields
    <2>2. CASE ~IsOne({"rebase"})
      BY <1>1, <1>5, <2>2 DEF Untouched, Touchable, Apart, Excused, Is, RepoFields
    <2> QED BY <2>1, <2>2
  <1> QED BY <1>2, <1>3, <1>4, <1>5

-----------------------------------------------------------------------------
(* Kinds of steps.                                                         *)

\* The places that RefuseInv says something of.
Careful == {"start", "remove", "pull_fetch", "check", "message", "refspecs", "tracks", "exit"}

LEMMA StopKeeps ==
    ASSUME RefuseInv, UNCHANGED <<before, session>>, NEW rc, Stop(rc), rc \in {2, 128} => MayRefuse
    PROVE  RefuseInv'
  <1>1. CmdShape' /\ cmd'.pc = "exit" /\ cmd'.request = cmd.request /\ cmd'.rc = rc /\ repo' = repo
    BY ExitCmd DEF RefuseInv, Shape, Stop
  <1>2. Shape'
    BY <1>1 DEF RefuseInv, Shape
  <1>3. CASE rc \in {2, 128}
    BY <1>1, <1>2, <1>3, TouchesLittle
  <1>4. CASE rc \notin {2, 128}
    BY <1>1, <1>2, <1>4, NoRefusal DEF MayRefuse, At, Ended
  <1> QED BY <1>3, <1>4

LEMMA ExitKeeps ==
    ASSUME RefuseInv, UNCHANGED <<before, session>>, NEW rc, Exit(rc), rc \notin {2, 128}, Is(repo', RepoFields)
    PROVE  RefuseInv'
  <1>1. CmdShape' /\ cmd'.pc = "exit" /\ cmd'.request = cmd.request /\ cmd'.rc = rc
    BY ExitCmd DEF RefuseInv, Shape
  <1>2. Shape'
    BY <1>1 DEF RefuseInv, Shape
  <1> QED BY <1>1, <1>2, NoRefusal DEF MayRefuse, At, Ended

LEMMA QuietKeeps ==
    ASSUME RefuseInv, UNCHANGED <<before, session>>, Is(repo', RepoFields), CmdShape',
           cmd'.request = cmd.request, cmd'.pc \notin Careful
    PROVE  RefuseInv'
  <1>1. Shape'
    BY DEF RefuseInv, Shape
  <1> QED BY <1>1, NoRefusal DEF MayRefuse, At, Ended, Careful

LEMMA GotoKeeps ==
    ASSUME RefuseInv, UNCHANGED <<before, session>>, Is(repo', RepoFields), NEW pc, Goto(pc),
           pc \notin Careful
    PROVE  RefuseInv'
  <1>1. CmdShape' /\ cmd'.pc = pc /\ cmd'.request = cmd.request
    BY GotoCmd DEF RefuseInv, Shape
  <1> QED BY <1>1, QuietKeeps

LEMMA SamePlace ==
    ASSUME RefuseInv, UNCHANGED <<before, session, cmd>>, Is(repo', RepoFields), cmd.pc \notin Careful
    PROVE  RefuseInv'
  <1>1. CmdShape'
    BY DEF RefuseInv, Shape, CmdShape
  <1> QED BY <1>1, QuietKeeps

-----------------------------------------------------------------------------
(* add, rm, mv, clean, commit, reset, restore, checkout, switch.           *)

LEMMA IndexKeeps ==
    ASSUME RefuseInv, UNCHANGED session, Add \/ Rm \/ RmOne \/ Mv \/ MvIndex \/ WriteIndex \/ Clean \/ CleanOne
    PROVE  RefuseInv'
  <1>1. Is(repo, RepoFields) /\ CmdShape
    BY DEF RefuseInv, Shape
  <1>2. CASE Add
    <2>1. UNCHANGED before /\ MayRefuse
      BY <1>2 DEF Add, Rest, At, Command, MayRefuse, Deleting
    <2>2. CASE Stop(2) \/ Stop(128)
      BY <2>1, <2>2, StopKeeps
    <2>3. CASE ~(Stop(2) \/ Stop(128))
      <3>1. repo' = repo /\ \E index : cmd' = [cmd EXCEPT !.pc = "write", !.index = index]
        BY <1>2, <2>3 DEF Add
      <3> QED BY <1>1, <2>1, <3>1, QuietKeeps DEF CmdShape, Is, CmdFields, Careful
    <2> QED BY <2>2, <2>3
  <1>3. CASE Rm
    <2>1. UNCHANGED before /\ MayRefuse /\ Command("rm")
      BY <1>3 DEF Rm, Rest, At, Command, MayRefuse, Deleting
    <2>2. CASE \E rc \in {1, 2, 128} : Stop(rc)
      BY <2>1, <2>2, StopKeeps
    <2>3. CASE ~\E rc \in {1, 2, 128} : Stop(rc)
      <3>1. repo' = repo /\ (Goto("write") \/ Goto("remove"))
        BY <1>3, <2>3 DEF Rm
      <3>2. CmdShape' /\ cmd'.pc \in {"write", "remove"} /\ cmd'.request = cmd.request
        BY <1>1, <3>1, GotoCmd
      <3> QED BY <1>1, <2>1, <3>1, <3>2, TouchesLittle DEF Shape, RefuseInv
    <2> QED BY <2>2, <2>3
  <1>4. CASE RmOne
    <2>1. UNCHANGED before /\ MayRefuse /\ Command("rm") /\ Touchable = {"files"}
      BY <1>4 DEF RmOne, Rest, At, Command, MayRefuse, Touchable, IsOne
    <2>2. /\ repo' = repo \/ \E p : repo' = [repo EXCEPT !.files[p] = Absent]
          /\ \/ cmd' = [cmd EXCEPT !.pc = "start", !.at = @ + 1]
             \/ \E p : cmd' = [cmd EXCEPT !.index[p] = Absent]
      BY <1>4 DEF RmOne
    <2>3. Is(repo', RepoFields) /\ \A f \in RepoFields \ {"files"} : repo'[f] = repo[f]
      BY <1>1, <2>2 DEF Is, RepoFields
    <2>4. CmdShape' /\ cmd'.request = cmd.request /\ cmd'.pc \in {"start", "remove"}
      BY <1>1, <1>4, <2>2 DEF CmdShape, Is, CmdFields, RmOne, At
    <2> QED BY <2>1, <2>3, <2>4, TouchesLittle DEF Shape, RefuseInv
  <1>5. CASE Mv
    <2>1. UNCHANGED before /\ MayRefuse
      BY <1>5 DEF Mv, Rest, At, Command, MayRefuse, Deleting
    <2>2. CASE \E rc \in {1, 2} : Stop(rc)
      BY <2>1, <2>2, StopKeeps
    <2>3. CASE ~\E rc \in {1, 2} : Stop(rc)
      <3>1. Goto("index") /\ \E a, b : repo' = [repo EXCEPT !.files[a] = repo.files[b], !.files[b] = Absent]
        BY <1>5, <2>3 DEF Mv
      <3>2. Is(repo', RepoFields)
        BY <1>1, <3>1 DEF Is, RepoFields
      <3> QED BY <2>1, <3>1, <3>2, GotoKeeps DEF Careful
    <2> QED BY <2>2, <2>3
  <1>6. CASE MvIndex
    <2>1. CmdShape' /\ cmd'.request = cmd.request /\ cmd'.pc = "write"
      BY <1>1, <1>6 DEF MvIndex, CmdShape, Is, CmdFields
    <2> QED BY <1>1, <1>6, <2>1, QuietKeeps DEF MvIndex, Rest, Careful
  <1>7. CASE WriteIndex
    <2>1. Is(repo', RepoFields)
      BY <1>1, <1>7 DEF WriteIndex, Is, RepoFields
    <2> QED BY <1>7, <2>1, ExitKeeps DEF WriteIndex, Rest
  <1>8. CASE Clean
    <2>1. UNCHANGED before /\ MayRefuse
      BY <1>8 DEF Clean, Rest, At, Command, MayRefuse, Deleting
    <2>2. CASE \E rc \in {1, 2} : Stop(rc)
      BY <2>1, <2>2, StopKeeps
    <2>3. CASE ~\E rc \in {1, 2} : Stop(rc)
      <3>1. Goto("remove") /\ repo' = repo
        BY <1>8, <2>3 DEF Clean
      <3>2. CmdShape' /\ cmd'.pc = "remove" /\ cmd'.request = cmd.request
        BY <1>1, <3>1, GotoCmd
      <3> QED BY <1>1, <2>1, <3>1, <3>2, TouchesLittle DEF Shape, RefuseInv
    <2> QED BY <2>2, <2>3
  <1>9. CASE CleanOne
    <2>1. UNCHANGED before /\ ~MayRefuse /\ cmd.pc = "remove" /\ Command("clean")
      BY <1>9 DEF CleanOne, Rest, At, Command, MayRefuse, Ended
    <2>2. CASE Stop(0)
      BY <2>1, <2>2, StopKeeps
    <2>3. CASE ~Stop(0)
      <3>1. cmd' = cmd /\ \E p : repo' = [repo EXCEPT !.files[p] = Absent]
        BY <1>9, <2>3 DEF CleanOne
      <3>2. Is(repo', RepoFields) /\ CmdShape'
        BY <1>1, <3>1 DEF Is, RepoFields, CmdShape
      <3>3. ~MayRefuse'
        BY <2>1, <3>1 DEF MayRefuse, Deleting, At, Command, Has, Ended, Count, BranchUsage, TagUsage
      <3> QED BY <2>1, <3>1, <3>2, <3>3, NoRefusal DEF Shape, RefuseInv
    <2> QED BY <2>2, <2>3
  <1> QED BY <1>2, <1>3, <1>4, <1>5, <1>6, <1>7, <1>8, <1>9

LEMMA CommitKeeps ==
    ASSUME RefuseInv, UNCHANGED session, CommitStage \/ CommitCheck \/ CommitMessage \/ CommitCreate
    PROVE  RefuseInv'
  <1>1. Is(repo, RepoFields) /\ CmdShape
    BY DEF RefuseInv, Shape
  <1>2. CASE CommitStage
    <2>1. UNCHANGED before /\ MayRefuse /\ Command("commit")
      BY <1>2 DEF CommitStage, Rest, At, Command, MayRefuse, Deleting
    <2>2. CASE \E rc \in {1, 2} : Stop(rc)
      BY <2>1, <2>2, StopKeeps
    <2>3. CASE ~\E rc \in {1, 2} : Stop(rc)
      <3> DEFINE staged == IF Has("all") THEN StageTracked(repo.index, repo.files) ELSE repo.index
      <3>1. repo' = [repo EXCEPT !.index = staged] /\ cmd' = [cmd EXCEPT !.pc = "check", !.index = staged]
        BY <1>2, <2>3 DEF CommitStage
      <3>2. Is(repo', RepoFields) /\ \A f \in RepoFields \ {"index"} : repo'[f] = repo[f]
        BY <1>1, <3>1 DEF Is, RepoFields
      <3>3. ~Has("all") => repo'["index"] = repo["index"]
        BY <1>1, <3>1 DEF Is, RepoFields
      <3>4. Has("all") => Touchable = {"index"}
        BY <2>1 DEF Touchable, IsOne, Command
      <3>5. CmdShape' /\ cmd'.request = cmd.request /\ cmd'.pc = "check"
        BY <1>1, <3>1 DEF CmdShape, Is, CmdFields
      <3> HIDE DEF staged
      <3> QED BY <2>1, <3>2, <3>3, <3>4, <3>5, TouchesLittle DEF Shape, RefuseInv
    <2> QED BY <2>2, <2>3
  <1>3. CASE CommitCheck \/ CommitMessage
    <2>1. UNCHANGED before /\ MayRefuse /\ Command("commit")
      BY <1>3 DEF CommitCheck, CommitMessage, Rest, At, Command, MayRefuse, Deleting
    <2>2. CASE \E rc \in {1, 2, 128} : Stop(rc)
      BY <2>1, <2>2, StopKeeps
    <2>3. CASE ~\E rc \in {1, 2, 128} : Stop(rc)
      <3>1. (Goto("message") \/ Goto("create")) /\ repo' = repo
        BY <1>3, <2>3 DEF CommitCheck, CommitMessage
      <3>2. CmdShape' /\ cmd'.pc \in {"message", "create"} /\ cmd'.request = cmd.request
        BY <1>1, <3>1, GotoCmd
      <3> QED BY <1>1, <2>1, <3>1, <3>2, TouchesLittle DEF Shape, RefuseInv
    <2> QED BY <2>2, <2>3
  <1>4. CASE CommitCreate
    BY <1>1, <1>4, CommitTreeIs, ExitKeeps DEF CommitCreate, Rest
  <1> QED BY <1>2, <1>3, <1>4

LEMMA RestoreKeeps ==
    ASSUME RefuseInv, UNCHANGED session, Reset \/ RestoreIndex \/ RestoreFiles
    PROVE  RefuseInv'
  <1>1. Is(repo, RepoFields) /\ CmdShape
    BY DEF RefuseInv, Shape
  <1>2. CASE Reset
    <2>1. UNCHANGED before /\ MayRefuse
      BY <1>2 DEF Reset, Rest, At, Command, MayRefuse, Deleting
    <2>2. CASE \E rc \in {1, 2, 128} : Stop(rc)
      BY <2>1, <2>2, StopKeeps
    <2>3. CASE ~\E rc \in {1, 2, 128} : Stop(rc)
      <3>1. /\ Exit(0)
            /\ \E c : \/ repo' = ResetPaths(repo, c, Operands) \/ repo' = ResetSoft(repo, c)
                      \/ repo' = ResetHard(repo, c) \/ repo' = ResetMixed(repo, c)
        BY <1>2, <2>3 DEF Reset
      <3>2. Is(repo', RepoFields)
        BY <1>1, <3>1, ResetIs
      <3> QED BY <2>1, <3>1, <3>2, ExitKeeps
    <2> QED BY <2>2, <2>3
  <1>3. CASE RestoreIndex
    <2>1. UNCHANGED before /\ MayRefuse
      BY <1>3 DEF RestoreIndex, Rest, At, Command, MayRefuse, Deleting
    <2>2. CASE \E rc \in {2, 128} : Stop(rc)
      BY <2>1, <2>2, StopKeeps
    <2>3. CASE ~\E rc \in {2, 128} : Stop(rc)
      <3>1. /\ \E c : cmd' = [cmd EXCEPT !.pc = "files", !.commit = c]
            /\ repo' = repo \/ \E c : repo' = ResetPaths(repo, c, Operands)
        BY <1>3, <2>3 DEF RestoreIndex
      <3>2. Is(repo', RepoFields)
        BY <1>1, <3>1, ResetIs
      <3>3. CmdShape' /\ cmd'.request = cmd.request /\ cmd'.pc = "files"
        BY <1>1, <3>1 DEF CmdShape, Is, CmdFields
      <3> QED BY <2>1, <3>2, <3>3, QuietKeeps DEF Careful
    <2> QED BY <2>2, <2>3
  <1>4. CASE RestoreFiles
    <2>1. repo' = repo \/ \E tree : repo' = ForceCheckout(repo, tree, Operands)
      BY <1>4 DEF RestoreFiles
    <2>2. Is(repo', RepoFields)
      BY <1>1, <2>1, CheckoutIs
    <2> QED BY <1>4, <2>2, ExitKeeps DEF RestoreFiles, Rest
  <1> QED BY <1>2, <1>3, <1>4

LEMMA CheckoutKeeps ==
    ASSUME RefuseInv, UNCHANGED session,
           \/ CheckoutPaths \/ CheckoutStart \/ CheckoutSetHead \/ CheckoutHead
           \/ CheckoutDetach \/ CheckoutDetachHead
    PROVE  RefuseInv'
  <1>1. Is(repo, RepoFields) /\ CmdShape
    BY DEF RefuseInv, Shape
  <1>2. CASE CheckoutPaths
    <2>1. UNCHANGED before /\ MayRefuse
      BY <1>2 DEF CheckoutPaths, Rest, At, Command, MayRefuse, Deleting
    <2>2. CASE Stop(128)
      BY <2>1, <2>2, StopKeeps
    <2>3. CASE ~Stop(128)
      <3> DEFINE from == IF cmd.request.rev # "" THEN ResetPaths(repo, Resolve(repo, cmd.request.rev), Operands)
                         ELSE repo
      <3>1. Exit(0) /\ \E tree : repo' = ForceCheckout(from, tree, Operands)
        BY <1>2, <2>3 DEF CheckoutPaths
      <3>2. Is(from, RepoFields)
        BY <1>1, ResetIs
      <3>3. Is(repo', RepoFields)
        BY <3>1, <3>2, CheckoutIs
      <3> HIDE DEF from
      <3> QED BY <2>1, <3>1, <3>3, ExitKeeps
    <2> QED BY <2>2, <2>3
  <1>3. CASE CheckoutStart
    <2>1. UNCHANGED before /\ MayRefuse
      BY <1>3 DEF CheckoutStart, Rest, At, Command, MayRefuse, Deleting
    <2>2. CASE \E rc \in {1, 2, 128} : Stop(rc)
      BY <2>1, <2>2, StopKeeps
    <2>3. CASE ~\E rc \in {1, 2, 128} : Stop(rc)
      <3>1. \/ repo' = repo /\ (Goto("detach") \/ Goto("set_head"))
            \/ /\ \E new, c : repo' = [repo EXCEPT !.refs[new] = c]
               /\ \E new : cmd' = [cmd EXCEPT !.pc = "set_head", !.request.rev = new]
        BY <1>3, <2>3 DEF CheckoutStart
      <3>2. CASE repo' = repo /\ (Goto("detach") \/ Goto("set_head"))
        BY <1>1, <2>1, <3>2, GotoKeeps DEF Careful
      <3>3. CASE /\ \E new, c : repo' = [repo EXCEPT !.refs[new] = c]
                 /\ \E new : cmd' = [cmd EXCEPT !.pc = "set_head", !.request.rev = new]
        <4>1. Is(repo', RepoFields)
          BY <1>1, <3>3 DEF Is, RepoFields
        <4>2. CmdShape' /\ cmd'.pc = "set_head" /\ cmd'.request.opts = cmd.request.opts
              /\ cmd'.request.name = cmd.request.name /\ cmd'.request.paths = cmd.request.paths
          <5>1. PICK new : cmd' = [cmd EXCEPT !.pc = "set_head", !.request.rev = new]
            BY <3>3
          <5>2. Is(cmd', CmdFields) /\ cmd'.pc = "set_head" /\ cmd'.request = [cmd.request EXCEPT !.rev = new]
            BY <1>1, <5>1 DEF CmdShape, Is, CmdFields
          <5>3. Is(cmd'.request, RequestFields) /\ cmd'.request.opts = cmd.request.opts
                /\ cmd'.request.name = cmd.request.name /\ cmd'.request.paths = cmd.request.paths
            BY <1>1, <5>2 DEF CmdShape, Is, RequestFields
          <5> QED BY <5>2, <5>3 DEF CmdShape
        <4>3. Shape' /\ OneAction(cmd.request)'
          BY <2>1, <4>1, <4>2 DEF RefuseInv, Shape, OneAction
        <4>4. ~MayRefuse' /\ ~At("remote", "tracks")'
          BY <4>2 DEF MayRefuse, At, Ended
        <4> QED BY <4>2, <4>3, <4>4 DEF RefuseInv
      <3> QED BY <3>1, <3>2, <3>3
    <2> QED BY <2>2, <2>3
  <1>4. CASE CheckoutSetHead
    <2>1. Is(repo', RepoFields)
      BY <1>1, <1>4 DEF CheckoutSetHead, Is, RepoFields
    <2> QED BY <1>4, <2>1, GotoKeeps DEF CheckoutSetHead, Rest, Careful
  <1>5. CASE CheckoutHead
    <2>1. Is(repo', RepoFields)
      BY <1>1, <1>5, CheckoutIs DEF CheckoutHead
    <2> QED BY <1>5, <2>1, ExitKeeps DEF CheckoutHead, Rest
  <1>6. CASE CheckoutDetach
    <2>1. UNCHANGED before
      BY <1>6 DEF CheckoutDetach, Rest
    <2>2. CASE Stop(1)
      BY <2>1, <2>2, StopKeeps
    <2>3. CASE ~Stop(1)
      <3>1. /\ \E c : cmd' = [cmd EXCEPT !.pc = "detach_head", !.commit = c]
            /\ \E a, b : repo' = ForceCheckout(repo, a, Paths) \/ repo' = SafeCheckout(repo, b, a)
        BY <1>6, <2>3 DEF CheckoutDetach
      <3>2. Is(repo', RepoFields)
        BY <1>1, <3>1, CheckoutIs
      <3>3. CmdShape' /\ cmd'.request = cmd.request /\ cmd'.pc = "detach_head"
        BY <1>1, <3>1 DEF CmdShape, Is, CmdFields
      <3> QED BY <2>1, <3>2, <3>3, QuietKeeps DEF Careful
    <2> QED BY <2>2, <2>3
  <1>7. CASE CheckoutDetachHead
    <2>1. Is(repo', RepoFields)
      BY <1>1, <1>7 DEF CheckoutDetachHead, Is, RepoFields
    <2>2. Exit(0) /\ UNCHANGED <<before, session>>
      BY <1>7 DEF CheckoutDetachHead, Rest
    <2> QED BY <2>1, <2>2, ExitKeeps
  <1> QED BY <1>2, <1>3, <1>4, <1>5, <1>6, <1>7

-----------------------------------------------------------------------------
(* merge, cherry-pick, revert, rebase, stash.                              *)

LEMMA OperationIs ==
    ASSUME NEW r, Is(r, RepoFields), NEW o
    PROVE  Is([r EXCEPT !.op = o], RepoFields)
  BY DEF Is, RepoFields

LEMMA MergeKeeps ==
    ASSUME RefuseInv, UNCHANGED session,
           MergeStart \/ MergeAnalysis \/ MergeForward \/ MergeApply \/ MergeCommit \/ MergeCleanup \/ FinalReset
    PROVE  RefuseInv'
  <1>1. Is(repo, RepoFields) /\ CmdShape
    BY DEF RefuseInv, Shape
  <1>2. CASE MergeStart
    <2>1. UNCHANGED before /\ MayRefuse
      BY <1>2 DEF MergeStart, Rest, At, Command, MayRefuse, Deleting
    <2>2. CASE \E rc \in {1, 2, 128} : Stop(rc)
      BY <2>1, <2>2, StopKeeps
    <2>3. CASE ~\E rc \in {1, 2, 128} : Stop(rc)
      <3>1. (Goto("reset") /\ repo' = Cleanup(repo)) \/ (Goto("analysis") /\ repo' = repo)
        BY <1>2, <2>3 DEF MergeStart
      <3>2. Is(repo', RepoFields)
        BY <1>1, <3>1, CleanupIs
      <3> QED BY <2>1, <3>1, <3>2, GotoKeeps DEF Careful
    <2> QED BY <2>2, <2>3
  <1>3. CASE MergeAnalysis
    <2>1. UNCHANGED before
      BY <1>3 DEF MergeAnalysis, Rest
    <2>2. CASE \E rc \in {0, 1} : Stop(rc)
      BY <2>1, <2>2, StopKeeps
    <2>3. CASE ~\E rc \in {0, 1} : Stop(rc)
      <3>1. repo' = repo /\ \E c, index : \E pc \in {"merge", "commit", "forward"} :
                cmd' = [cmd EXCEPT !.commit = c, !.index = index, !.pc = pc]
        BY <1>3, <2>3 DEF MergeAnalysis
      <3>2. CmdShape' /\ cmd'.request = cmd.request /\ cmd'.pc \in {"merge", "commit", "forward"}
        BY <1>1, <3>1 DEF CmdShape, Is, CmdFields
      <3> QED BY <1>1, <2>1, <3>1, <3>2, QuietKeeps DEF Careful
    <2> QED BY <2>2, <2>3
  <1>4. CASE MergeForward
    <2>1. UNCHANGED before
      BY <1>4 DEF MergeForward, Rest
    <2>2. CASE Stop(1)
      BY <2>1, <2>2, StopKeeps
    <2>3. CASE ~Stop(1)
      <3>1. Goto("reset") /\ repo' = [repo EXCEPT !.refs[repo.head.branch] = cmd.commit]
        BY <1>4, <2>3 DEF MergeForward
      <3>2. Is(repo', RepoFields)
        BY <1>1, <3>1 DEF Is, RepoFields
      <3> QED BY <2>1, <3>1, <3>2, GotoKeeps DEF Careful
    <2> QED BY <2>2, <2>3
  <1>5. CASE MergeApply
    <2> DEFINE base == TreeOf(repo, MergeBase(repo.dag, HeadCommit(repo), cmd.commit))
               applied == Apply(repo, base, TreeOf(repo, cmd.commit))
    <2>1. UNCHANGED before
      BY <1>5 DEF MergeApply, Rest
    <2>2. Is(applied, RepoFields)
      BY <1>1, CheckoutIs
    <2>3. \/ Stop(1)
          \/ repo' = Cleanup(applied) /\ Exit(1)
          \/ /\ \E o : repo' = [applied EXCEPT !.op = o]
             /\ \E index : cmd' = [cmd EXCEPT !.pc = "commit", !.index = index]
      BY <1>5 DEF MergeApply
    <2> HIDE DEF applied
    <2>4. CASE Stop(1)
      BY <2>1, <2>4, StopKeeps
    <2>5. CASE repo' = Cleanup(applied) /\ Exit(1)
      BY <2>1, <2>2, <2>5, CleanupIs, ExitKeeps
    <2>6. CASE /\ \E o : repo' = [applied EXCEPT !.op = o]
               /\ \E index : cmd' = [cmd EXCEPT !.pc = "commit", !.index = index]
      <3>1. Is(repo', RepoFields)
        BY <2>2, <2>6, OperationIs
      <3>2. CmdShape' /\ cmd'.request = cmd.request /\ cmd'.pc = "commit"
        BY <1>1, <2>6 DEF CmdShape, Is, CmdFields
      <3> QED BY <2>1, <3>1, <3>2, QuietKeeps DEF Careful
    <2> QED BY <2>3, <2>4, <2>5, <2>6
  <1>6. CASE MergeCommit
    <2>1. Is(repo', RepoFields) /\ Goto("cleanup") /\ UNCHANGED before
      BY <1>1, <1>6, CommitTreeIs DEF MergeCommit, Rest
    <2> QED BY <2>1, GotoKeeps DEF Careful
  <1>7. CASE MergeCleanup
    <2>1. Is(repo', RepoFields) /\ Goto("reset") /\ UNCHANGED before
      BY <1>1, <1>7, CleanupIs DEF MergeCleanup, Rest
    <2> QED BY <2>1, GotoKeeps DEF Careful
  <1>8. CASE FinalReset
    <2>1. Is(repo', RepoFields) /\ Exit(0) /\ UNCHANGED before
      BY <1>1, <1>8, ResetIs DEF FinalReset, Rest
    <2> QED BY <2>1, ExitKeeps
  <1> QED BY <1>2, <1>3, <1>4, <1>5, <1>6, <1>7, <1>8

LEMMA PickKeeps ==
    ASSUME RefuseInv, UNCHANGED session,
           PickStart \/ PickApply \/ PickIndex \/ PickCommit \/ PickCleanup
    PROVE  RefuseInv'
  <1>1. Is(repo, RepoFields) /\ CmdShape
    BY DEF RefuseInv, Shape
  <1>2. CASE PickStart
    <2>1. UNCHANGED before /\ MayRefuse
      BY <1>2 DEF PickStart, PickAt, Picks, Rest, Command, MayRefuse, Deleting
    <2>2. CASE \E rc \in {1, 2, 128} : Stop(rc)
      BY <2>1, <2>2, StopKeeps
    <2>3. CASE ~\E rc \in {1, 2, 128} : Stop(rc)
      <3>1. \/ Goto("reset") /\ repo' = Cleanup(repo)
            \/ repo' = repo /\ \E c : \E pc \in {"index", "apply"} : cmd' = [cmd EXCEPT !.commit = c, !.pc = pc]
        BY <1>2, <2>3 DEF PickStart
      <3>2. CASE Goto("reset") /\ repo' = Cleanup(repo)
        BY <1>1, <2>1, <3>2, CleanupIs, GotoKeeps DEF Careful
      <3>3. CASE repo' = repo /\ \E c : \E pc \in {"index", "apply"} : cmd' = [cmd EXCEPT !.commit = c, !.pc = pc]
        <4>1. CmdShape' /\ cmd'.request = cmd.request /\ cmd'.pc \in {"index", "apply"}
          BY <1>1, <3>3 DEF CmdShape, Is, CmdFields
        <4> QED BY <1>1, <2>1, <3>3, <4>1, QuietKeeps DEF Careful
      <3> QED BY <3>1, <3>2, <3>3
    <2> QED BY <2>2, <2>3
  <1>3. CASE PickApply
    <2>1. UNCHANGED before
      BY <1>3 DEF PickApply, Rest
    <2>2. CASE Stop(1)
      BY <2>1, <2>2, StopKeeps
    <2>3. CASE ~Stop(1)
      <3> DEFINE parents == repo.dag[cmd.commit].parents
                 parent == IF parents = <<>> THEN NoTree ELSE TreeOf(repo, parents[1])
                 base == IF Command("revert") THEN TreeOf(repo, cmd.commit) ELSE parent
                 theirs == IF Command("revert") THEN parent ELSE TreeOf(repo, cmd.commit)
                 picked == Apply(repo, base, theirs)
      <3>1. Goto("index") /\ repo' = [picked EXCEPT !.op = Operation(Kind, cmd.commit)]
        BY <1>3, <2>3 DEF PickApply
      <3>2. Is(picked, RepoFields)
        BY <1>1, CheckoutIs
      <3> HIDE DEF picked
      <3>3. Is(repo', RepoFields)
        BY <3>1, <3>2, OperationIs
      <3> QED BY <2>1, <3>1, <3>3, GotoKeeps DEF Careful
    <2> QED BY <2>2, <2>3
  <1>4. CASE PickIndex
    <2>1. UNCHANGED before
      BY <1>4 DEF PickIndex, Rest
    <2>2. Stop(1) \/ (repo' = Cleanup(repo) /\ Exit(0)) \/ (repo' = repo /\ Goto("commit"))
      BY <1>4 DEF PickIndex
    <2>3. Stop(1) \/ Is(repo', RepoFields)
      BY <1>1, <2>2, CleanupIs
    <2>4. CASE Stop(1)
      BY <2>1, <2>4, StopKeeps
    <2>5. CASE Is(repo', RepoFields) /\ Exit(0)
      BY <2>1, <2>5, ExitKeeps
    <2>6. CASE Is(repo', RepoFields) /\ Goto("commit")
      BY <2>1, <2>6, GotoKeeps DEF Careful
    <2> QED BY <2>2, <2>3, <2>4, <2>5, <2>6
  <1>5. CASE PickCommit
    <2>1. Is(repo', RepoFields) /\ Goto("cleanup") /\ UNCHANGED before
      BY <1>1, <1>5, CommitTreeIs DEF PickCommit, Rest
    <2> QED BY <2>1, GotoKeeps DEF Careful
  <1>6. CASE PickCleanup
    <2>1. Is(repo', RepoFields) /\ Goto("reset") /\ UNCHANGED before
      BY <1>1, <1>6, CleanupIs DEF PickCleanup, Rest
    <2> QED BY <2>1, GotoKeeps DEF Careful
  <1> QED BY <1>2, <1>3, <1>4, <1>5, <1>6

LEMMA RebaseKeeps ==
    ASSUME RefuseInv, UNCHANGED session,
           \/ RebaseStart \/ RebaseInit \/ RebaseAbort \/ RebaseContinue \/ RebaseNext
           \/ RebaseCommit \/ RebaseFinish
    PROVE  RefuseInv'
  <1>1. Is(repo, RepoFields) /\ CmdShape
    BY DEF RefuseInv, Shape
  <1>2. CASE RebaseStart
    <2>1. UNCHANGED before /\ MayRefuse
      BY <1>2 DEF RebaseStart, Rest, At, Command, MayRefuse, Deleting
    <2>2. CASE \E rc \in {1, 2, 128} : Stop(rc)
      BY <2>1, <2>2, StopKeeps
    <2>3. CASE ~\E rc \in {1, 2, 128} : Stop(rc)
      <3>1. repo' = repo /\ (Goto("abort") \/ Goto("continue") \/ Goto("init"))
        BY <1>2, <2>3 DEF RebaseStart
      <3> QED BY <1>1, <2>1, <3>1, GotoKeeps DEF Careful
    <2> QED BY <2>2, <2>3
  <1>3. CASE RebaseInit
    <2>1. UNCHANGED before
      BY <1>3 DEF RebaseInit, Rest
    <2>2. CASE Stop(1)
      BY <2>1, <2>2, StopKeeps
    <2>3. CASE ~Stop(1)
      <3>1. Goto("next") /\ \E a, b, o, h : repo' = [SafeCheckout(repo, a, b) EXCEPT !.op = o, !.head = h]
        BY <1>3, <2>3 DEF RebaseInit
      <3>2. PICK a, b, o, h : repo' = [SafeCheckout(repo, a, b) EXCEPT !.op = o, !.head = h]
        BY <3>1
      <3>3. Is(SafeCheckout(repo, a, b), RepoFields)
        BY <1>1, CheckoutIs
      <3>4. Is(repo', RepoFields)
        BY <3>2, <3>3 DEF Is, RepoFields
      <3> QED BY <2>1, <3>1, <3>4, GotoKeeps DEF Careful
    <2> QED BY <2>2, <2>3
  <1>4. CASE RebaseAbort
    <2> DEFINE back == [repo EXCEPT !.head = [branch |-> repo.op.branch,
                                              at |-> IF repo.op.branch = "" THEN repo.op.orig ELSE 0]]
    <2>1. Is(back, RepoFields)
      BY <1>1 DEF Is, RepoFields
    <2>2. repo' = ResetHard(back, repo.op.orig) /\ Exit(0) /\ UNCHANGED before
      BY <1>4 DEF RebaseAbort, Rest
    <2> HIDE DEF back
    <2>3. Is(repo', RepoFields)
      BY <2>1, <2>2, ResetIs
    <2> QED BY <2>2, <2>3, ExitKeeps
  <1>5. CASE RebaseContinue
    <2>1. UNCHANGED before /\ (Stop(1) \/ (repo' = repo /\ (Goto("next") \/ Goto("commit"))))
      BY <1>5 DEF RebaseContinue, Rest
    <2>2. CASE Stop(1)
      BY <2>1, <2>2, StopKeeps
    <2>3. CASE repo' = repo /\ (Goto("next") \/ Goto("commit"))
      BY <1>1, <2>1, <2>3, GotoKeeps DEF Careful
    <2> QED BY <2>1, <2>2, <2>3
  <1>6. CASE RebaseNext
    <2>1. UNCHANGED before
      BY <1>6 DEF RebaseNext, Rest
    <2> DEFINE c == repo.op.todo[1]
               base == IF repo.dag[c].parents = <<>> THEN NoTree ELSE TreeOf(repo, repo.dag[c].parents[1])
               applied == Apply(repo, base, TreeOf(repo, c))
    <2>2. \/ Stop(1) \/ (repo' = repo /\ Goto("finish"))
          \/ Goto("commit") /\ repo' = [applied EXCEPT !.op.commit = c, !.op.todo = Tail(@)]
      BY <1>6 DEF RebaseNext
    <2>a. Is(applied, RepoFields)
      BY <1>1, CheckoutIs
    <2> HIDE DEF applied, c
    <2>3. CASE Stop(1)
      BY <2>1, <2>3, StopKeeps
    <2>4. CASE repo' = repo /\ Goto("finish")
      BY <1>1, <2>1, <2>4, GotoKeeps DEF Careful
    <2>5. CASE Goto("commit") /\ repo' = [applied EXCEPT !.op.commit = c, !.op.todo = Tail(@)]
      <3>1. Is(repo', RepoFields)
        BY <2>a, <2>5 DEF Is, RepoFields
      <3> QED BY <2>1, <2>5, <3>1, GotoKeeps DEF Careful
    <2> QED BY <2>2, <2>3, <2>4, <2>5
  <1>7. CASE RebaseCommit
    <2>1. UNCHANGED before
      BY <1>7 DEF RebaseCommit, Rest
    <2>2. \/ Stop(1)
          \/ Goto("next") /\ (repo' = repo \/ \E parents : repo' = CommitTree(repo, repo.index, parents))
      BY <1>7 DEF RebaseCommit
    <2>3. CASE Stop(1)
      BY <2>1, <2>3, StopKeeps
    <2>4. CASE Goto("next") /\ (repo' = repo \/ \E parents : repo' = CommitTree(repo, repo.index, parents))
      <3>1. Is(repo', RepoFields)
        BY <1>1, <2>4, CommitTreeIs
      <3> QED BY <2>1, <2>4, <3>1, GotoKeeps DEF Careful
    <2> QED BY <2>2, <2>3, <2>4
  <1>8. CASE RebaseFinish
    <2>1. UNCHANGED before /\ Goto("reset")
      BY <1>8 DEF RebaseFinish, Rest
    <2>2. repo' = Cleanup(repo) \/ \E b, c, h : repo' = Cleanup([repo EXCEPT !.refs[b] = c, !.head = h])
      BY <1>8 DEF RebaseFinish
    <2>3. \A b, c, h : Is([repo EXCEPT !.refs[b] = c, !.head = h], RepoFields)
      BY <1>1 DEF Is, RepoFields
    <2>4. Is(repo', RepoFields)
      BY <1>1, <2>2, <2>3, CleanupIs
    <2> QED BY <2>1, <2>4, GotoKeeps DEF Careful
  <1> QED BY <1>2, <1>3, <1>4, <1>5, <1>6, <1>7, <1>8

LEMMA StashKeeps ==
    ASSUME RefuseInv, UNCHANGED session,
           \/ StashStart \/ StashPush \/ StashClear \/ StashBranch \/ StashHead \/ StashCheckout
           \/ StashApplied \/ StashDrop
    PROVE  RefuseInv'
  <1>1. Is(repo, RepoFields) /\ CmdShape
    BY DEF RefuseInv, Shape
  <1> DEFINE Dropped == [repo EXCEPT !.stash = Tail(@)]
  <1>d. Is(Dropped, RepoFields)
    BY <1>1 DEF Is, RepoFields
  <1>2. CASE StashStart
    <2>1. UNCHANGED before /\ MayRefuse
      BY <1>2 DEF StashStart, Rest, At, Command, MayRefuse, Deleting
    <2>2. CASE \E rc \in {1, 2} : Stop(rc)
      BY <2>1, <2>2, StopKeeps
    <2>3. CASE ~\E rc \in {1, 2} : Stop(rc)
      <3>1. \/ repo' = Dropped /\ Exit(0)
            \/ repo' = repo /\ \E pc \in {"save", "clear", "branch", "apply"} : Goto(pc)
        BY <1>2, <2>3 DEF StashStart
      <3> HIDE DEF Dropped
      <3>2. CASE repo' = Dropped /\ Exit(0)
        BY <1>d, <2>1, <3>2, ExitKeeps
      <3>3. CASE repo' = repo /\ \E pc \in {"save", "clear", "branch", "apply"} : Goto(pc)
        BY <1>1, <2>1, <3>3, GotoKeeps DEF Careful
      <3> QED BY <3>1, <3>2, <3>3
    <2> QED BY <2>2, <2>3
  <1>3. CASE StashPush
    <2>1. UNCHANGED before /\ (Stop(0) \/ Stop(1) \/ (Exit(0) /\ \E x, y : repo' = StashSave(repo, x, y)))
      BY <1>3 DEF StashPush, Rest
    <2>2. CASE Stop(0) \/ Stop(1)
      BY <2>1, <2>2, StopKeeps
    <2>3. CASE Exit(0) /\ \E x, y : repo' = StashSave(repo, x, y)
      <3>1. Is(repo', RepoFields)
        BY <1>1, <2>3, StashIs
      <3> QED BY <2>1, <2>3, <3>1, ExitKeeps
    <2> QED BY <2>1, <2>2, <2>3
  <1>4. CASE StashClear
    <2>1. UNCHANGED before /\ (Stop(0) \/ (cmd' = cmd /\ repo' = Dropped)) /\ cmd.pc = "clear"
      BY <1>4 DEF StashClear, Rest, At
    <2> HIDE DEF Dropped
    <2>2. CASE Stop(0)
      BY <2>1, <2>2, StopKeeps
    <2>3. CASE cmd' = cmd /\ repo' = Dropped
      BY <1>d, <2>1, <2>3, SamePlace DEF Careful
    <2> QED BY <2>1, <2>2, <2>3
  <1>5. CASE StashBranch
    <2>1. /\ UNCHANGED before
          /\ Stop(1) \/ (Goto("stash_head") /\ \E b, c : repo' = [repo EXCEPT !.refs[b] = c])
      BY <1>5 DEF StashBranch, Rest
    <2>2. CASE Stop(1)
      BY <2>1, <2>2, StopKeeps
    <2>3. CASE Goto("stash_head") /\ \E b, c : repo' = [repo EXCEPT !.refs[b] = c]
      <3>1. Is(repo', RepoFields)
        BY <1>1, <2>3 DEF Is, RepoFields
      <3> QED BY <2>1, <2>3, <3>1, GotoKeeps DEF Careful
    <2> QED BY <2>1, <2>2, <2>3
  <1>6. CASE StashHead
    <2>1. UNCHANGED before /\ Goto("stash_checkout") /\ \E h : repo' = [repo EXCEPT !.head = h]
      BY <1>6 DEF StashHead, Rest
    <2>2. Is(repo', RepoFields)
      BY <1>1, <2>1 DEF Is, RepoFields
    <2> QED BY <2>1, <2>2, GotoKeeps DEF Careful
  <1>7. CASE StashCheckout
    <2>1. UNCHANGED before /\ Goto("apply") /\ Is(repo', RepoFields)
      BY <1>1, <1>7, CheckoutIs DEF StashCheckout, Rest
    <2> QED BY <2>1, GotoKeeps DEF Careful
  <1>8. CASE StashApplied
    <2>1. /\ UNCHANGED before
          /\ \/ Stop(1)
             \/ (Goto("drop") \/ Exit(0)) /\ \E s, x : repo' = StashApply(repo, s, x)
      BY <1>8 DEF StashApplied, Rest
    <2>2. CASE Stop(1)
      BY <2>1, <2>2, StopKeeps
    <2>3. CASE (Goto("drop") \/ Exit(0)) /\ \E s, x : repo' = StashApply(repo, s, x)
      <3>1. Is(repo', RepoFields)
        BY <1>1, <2>3, StashIs
      <3>2. CASE Goto("drop")
        BY <2>1, <3>1, <3>2, GotoKeeps DEF Careful
      <3>3. CASE Exit(0)
        BY <2>1, <3>1, <3>3, ExitKeeps
      <3> QED BY <2>3, <3>2, <3>3
    <2> QED BY <2>1, <2>2, <2>3
  <1>9. CASE StashDrop
    <2>1. UNCHANGED before /\ Exit(0) /\ repo' = Dropped
      BY <1>9 DEF StashDrop, Rest
    <2> HIDE DEF Dropped
    <2> QED BY <1>d, <2>1, ExitKeeps
  <1> QED BY <1>2, <1>3, <1>4, <1>5, <1>6, <1>7, <1>8, <1>9

-----------------------------------------------------------------------------
(* branch, tag, fetch, pull, push.                                         *)

LEMMA BranchKeeps ==
    ASSUME RefuseInv, UNCHANGED session,
           \/ BranchWrong \/ BranchCreate \/ BranchDelete \/ BranchRename \/ BranchCopy
           \/ BranchSetUpstream \/ BranchUnsetUpstream
    PROVE  RefuseInv'
  <1>1. Is(repo, RepoFields) /\ CmdShape /\ OneAction(cmd.request)
    BY DEF RefuseInv, Shape
  <1>2. UNCHANGED before /\ Command("branch") /\ cmd.pc = "start"
    BY DEF BranchWrong, BranchCreate, BranchDelete, BranchRename, BranchCopy, BranchSetUpstream,
           BranchUnsetUpstream, BranchIs, At, Rest
  <1>3. \A option \in {"create", "move", "copy"} : Has(option) => ~Deleting
    BY <1>1, <1>2 DEF OneAction, Actions, Has, Deleting, Command
  <1>4. CASE BranchWrong
    <2>1. MayRefuse /\ Stop(2)
      BY <1>2, <1>4 DEF BranchWrong, MayRefuse, Deleting, Command
    <2> QED BY <1>2, <2>1, StopKeeps
  <1>5. CASE BranchCreate
    <2>1. MayRefuse
      BY <1>2, <1>3, <1>5 DEF BranchCreate, BranchIs, MayRefuse
    <2>2. CASE \E rc \in {1, 128} : Stop(rc)
      BY <1>2, <2>1, <2>2, StopKeeps
    <2>3. CASE ~\E rc \in {1, 128} : Stop(rc)
      <3>1. Exit(0) /\ \E b, c : repo' = [repo EXCEPT !.refs[b] = c]
        BY <1>5, <2>3 DEF BranchCreate
      <3>2. Is(repo', RepoFields)
        BY <1>1, <3>1 DEF Is, RepoFields
      <3> QED BY <1>2, <3>1, <3>2, ExitKeeps
    <2> QED BY <2>2, <2>3
  <1>6. CASE BranchDelete
    <2>1. Deleting
      BY <1>2, <1>6 DEF BranchDelete, BranchIs, Deleting
    <2>2. CASE \E rc \in {0, 1} : Stop(rc)
      BY <1>2, <2>2, StopKeeps
    <2>3. CASE ~\E rc \in {0, 1} : Stop(rc)
      <3> DEFINE name == Operand(cmd.at + 1)
      <3>1. /\ cmd' = [cmd EXCEPT !.at = @ + 1]
            /\ repo' = [repo EXCEPT !.refs[name] = 0, !.upstream[name] = IF Has("force") THEN @ ELSE NoUpstream]
        BY <1>6, <2>3 DEF BranchDelete
      <3>2. Is(repo', RepoFields)
        BY <1>1, <3>1 DEF Is, RepoFields
      <3>3. CmdShape' /\ cmd'.pc = "start" /\ cmd'.request = cmd.request
        BY <1>1, <1>2, <3>1 DEF CmdShape, Is, CmdFields
      <3>4. Deleting'
        BY <2>1, <3>3 DEF Deleting, Has, Command, BranchUsage, TagUsage, Count
      <3>5. ~MayRefuse'
        BY <3>3, <3>4 DEF MayRefuse, At, Ended
      <3> QED BY <1>2, <3>2, <3>3, <3>5, NoRefusal DEF RefuseInv, Shape
    <2> QED BY <2>2, <2>3
  <1>7. CASE BranchRename
    <2>1. MayRefuse
      BY <1>2, <1>3, <1>7 DEF BranchRename, BranchIs, MayRefuse
    <2>2. CASE \E rc \in {1, 2, 128} : Stop(rc)
      BY <1>2, <2>1, <2>2, StopKeeps
    <2>3. CASE ~\E rc \in {1, 2, 128} : Stop(rc)
      <3>1. Exit(0) /\ \E refs, upstream, b :
                repo' = [repo EXCEPT !.refs = refs, !.upstream = upstream, !.head.branch = b]
        BY <1>7, <2>3 DEF BranchRename, NotFound, FreedName
      <3>2. Is(repo', RepoFields)
        BY <1>1, <3>1 DEF Is, RepoFields
      <3> QED BY <1>2, <3>1, <3>2, ExitKeeps
    <2> QED BY <2>2, <2>3
  <1>8. CASE BranchCopy
    <2>1. MayRefuse
      BY <1>2, <1>3, <1>8 DEF BranchCopy, BranchIs, MayRefuse
    <2>2. CASE \E rc \in {1, 2, 128} : Stop(rc)
      BY <1>2, <2>1, <2>2, StopKeeps
    <2>3. CASE ~\E rc \in {1, 2, 128} : Stop(rc)
      <3>1. Exit(0) /\ \E b, c, u : repo' = [repo EXCEPT !.refs[b] = c, !.upstream[b] = u]
        BY <1>8, <2>3 DEF BranchCopy, NotFound, FreedName
      <3>2. Is(repo', RepoFields)
        BY <1>1, <3>1 DEF Is, RepoFields
      <3> QED BY <1>2, <3>1, <3>2, ExitKeeps
    <2> QED BY <2>2, <2>3
  <1>9. CASE BranchSetUpstream \/ BranchUnsetUpstream
    <2>1. CASE Stop(1)
      BY <1>2, <2>1, StopKeeps
    <2>2. CASE ~Stop(1)
      <3>1. Exit(0) /\ \E b, u : repo' = [repo EXCEPT !.upstream[b] = u]
        BY <1>9, <2>2 DEF BranchSetUpstream, BranchUnsetUpstream
      <3>2. Is(repo', RepoFields)
        BY <1>1, <3>1 DEF Is, RepoFields
      <3> QED BY <1>2, <3>1, <3>2, ExitKeeps
    <2> QED BY <2>1, <2>2
  <1> QED BY <1>4, <1>5, <1>6, <1>7, <1>8, <1>9

LEMMA TagKeeps ==
    ASSUME RefuseInv, UNCHANGED session, TagCreate \/ TagDelete
    PROVE  RefuseInv'
  <1>1. Is(repo, RepoFields) /\ CmdShape /\ OneAction(cmd.request)
    BY DEF RefuseInv, Shape
  <1>2. UNCHANGED before /\ Command("tag") /\ cmd.pc = "start"
    BY DEF TagCreate, TagDelete, At, Rest
  <1>3. CASE TagCreate
    <2>1. ~Deleting
      BY <1>1, <1>2, <1>3 DEF TagCreate, OneAction, Actions, Has, Deleting, Command
    <2>2. MayRefuse
      BY <1>2, <2>1 DEF MayRefuse
    <2>3. CASE \E rc \in {1, 2, 128} : Stop(rc)
      BY <1>2, <2>2, <2>3, StopKeeps
    <2>4. CASE ~\E rc \in {1, 2, 128} : Stop(rc)
      <3>1. Exit(0) /\ \E t, c, a : repo' = [repo EXCEPT !.tags[t] = c, !.annotated = a]
        BY <1>3, <2>4 DEF TagCreate
      <3>2. Is(repo', RepoFields)
        BY <1>1, <3>1 DEF Is, RepoFields
      <3> QED BY <1>2, <3>1, <3>2, ExitKeeps
    <2> QED BY <2>3, <2>4
  <1>4. CASE TagDelete
    <2>1. Deleting
      BY <1>2, <1>4 DEF TagDelete, Deleting
    <2>2. CASE \E rc \in {0, 1} : Stop(rc)
      BY <1>2, <2>2, StopKeeps
    <2>3. CASE ~\E rc \in {0, 1} : Stop(rc)
      <3> DEFINE name == Operand(cmd.at + 1)
      <3>1. /\ cmd' = [cmd EXCEPT !.at = @ + 1]
            /\ repo' = [repo EXCEPT !.tags[name] = 0, !.annotated = @ \ {name}]
        BY <1>4, <2>3 DEF TagDelete
      <3>2. Is(repo', RepoFields)
        BY <1>1, <3>1 DEF Is, RepoFields
      <3>3. CmdShape' /\ cmd'.pc = "start" /\ cmd'.request = cmd.request
        BY <1>1, <1>2, <3>1 DEF CmdShape, Is, CmdFields
      <3>4. Deleting'
        BY <2>1, <3>3 DEF Deleting, Has, Command, BranchUsage, TagUsage, Count
      <3>5. ~MayRefuse'
        BY <3>3, <3>4 DEF MayRefuse, At, Ended
      <3> QED BY <1>2, <3>2, <3>3, <3>5, NoRefusal DEF RefuseInv, Shape
    <2> QED BY <2>2, <2>3
  <1> QED BY <1>3, <1>4

LEMMA FetchKeeps ==
    ASSUME RefuseInv, UNCHANGED session, FetchStart \/ FetchOne
    PROVE  RefuseInv'
  <1>1. Is(repo, RepoFields) /\ CmdShape
    BY DEF RefuseInv, Shape
  <1>2. CASE FetchStart
    <2>1. UNCHANGED before /\ MayRefuse
      BY <1>2 DEF FetchStart, Rest, At, Command, MayRefuse, Deleting
    <2>2. CASE \E rc \in {1, 2} : Stop(rc)
      BY <2>1, <2>2, StopKeeps
    <2>3. CASE ~\E rc \in {1, 2} : Stop(rc)
      <3>1. repo' = repo /\ \E specs : cmd' = [cmd EXCEPT !.pc = "fetch", !.specs = specs]
        BY <1>2, <2>3 DEF FetchStart
      <3>2. CmdShape' /\ cmd'.pc = "fetch" /\ cmd'.request = cmd.request
        BY <1>1, <3>1 DEF CmdShape, Is, CmdFields
      <3> QED BY <1>1, <2>1, <3>1, <3>2, QuietKeeps DEF Careful
    <2> QED BY <2>2, <2>3
  <1>3. CASE FetchOne
    <2>1. UNCHANGED before /\ cmd.pc = "fetch"
      BY <1>3 DEF FetchOne, Rest
    <2>2. CASE \E rc \in {0, 1} : Stop(rc)
      BY <2>1, <2>2, StopKeeps
    <2>3. CASE ~\E rc \in {0, 1} : Stop(rc)
      <3> DEFINE wanted == IF cmd.request.paths # <<>> THEN ToSet(cmd.request.paths)
                           ELSE Fetched(repo, cmd.specs[1])
      <3>1. /\ cmd' = [cmd EXCEPT !.specs = Tail(@)]
            /\ repo' = Downloaded(repo, cmd.specs[1], wanted, Has("prune"), TagMode)
        BY <1>3, <2>3 DEF FetchOne
      <3>2. Is(repo', RepoFields)
        BY <1>1, <3>1, DownloadedIs
      <3>3. CmdShape' /\ cmd'.pc = "fetch" /\ cmd'.request = cmd.request
        BY <1>1, <2>1, <3>1 DEF CmdShape, Is, CmdFields
      <3> QED BY <2>1, <3>2, <3>3, QuietKeeps DEF Careful
    <2> QED BY <2>2, <2>3
  <1> QED BY <1>2, <1>3

\* pull --rebase is the command rebase from here on; the fetch has changed tags and tracking.
LEMMA PullFetchKeeps ==
    ASSUME RefuseInv, UNCHANGED session, PullFetch
    PROVE  RefuseInv'
  <1>1. Is(repo, RepoFields) /\ CmdShape /\ UNCHANGED before /\ MayRefuse
    BY DEF RefuseInv, Shape, PullFetch, Rest, MayRefuse
  <1> DEFINE got == Downloaded(repo, cmd.specs[1], {cmd.specs[2]}, FALSE, "auto")
             asked == [NoRequest EXCEPT !.name = "rebase",
                                        !.rev = TrackingName[<<cmd.specs[1], cmd.specs[2]>>]]
  <1>2. Is(got, RepoFields) /\ \A f \in RepoFields \ {"tags", "tracking"} : got[f] = repo[f]
    <2>1. Is(got, RepoFields)
      BY <1>1, DownloadedIs
    <2>2. \A f \in RepoFields \ {"tags", "tracking"} : got[f] = repo[f]
      BY <1>1 DEF Downloaded, Is, RepoFields
    <2> QED BY <2>1, <2>2
  <1>3. CASE Stop(1)
    BY <1>1, <1>3, StopKeeps
  <1>4. CASE ~Stop(1)
    <2> DEFINE c == got.tracking[cmd.specs[1]][cmd.specs[2]]
    <2>1. /\ repo' = got
          /\ Exit(1) \/ cmd' = IF Has("rebase") THEN [cmd EXCEPT !.request = asked, !.pc = "start"]
                              ELSE [cmd EXCEPT !.pc = "pull_analysis", !.commit = c]
      BY <1>4 DEF PullFetch
    <2> HIDE DEF got, c
    <2>2. CASE Exit(1)
      BY <1>1, <1>2, <2>1, <2>2, ExitKeeps
    <2>3. CASE cmd' = [cmd EXCEPT !.pc = "pull_analysis", !.commit = c]
      <3>1. CmdShape' /\ cmd'.pc = "pull_analysis" /\ cmd'.request = cmd.request
        BY <1>1, <2>3 DEF CmdShape, Is, CmdFields
      <3> QED BY <1>1, <1>2, <2>1, <3>1, QuietKeeps DEF Careful
    <2>4. CASE cmd' = [cmd EXCEPT !.request = asked, !.pc = "start"]
      <3>1. Is(asked, RequestFields) /\ asked.name = "rebase" /\ asked.opts = {} /\ asked.paths \in Seq(STRING)
        BY NoPaths DEF NoRequest, Is, RequestFields
      <3> HIDE DEF asked
      <3>2. CmdShape' /\ cmd'.pc = "start" /\ cmd'.request = asked
        BY <1>1, <2>4, <3>1 DEF CmdShape, Is, CmdFields
      <3>3. Shape' /\ OneAction(cmd.request)'
        BY <1>1, <1>2, <2>1, <3>1, <3>2 DEF RefuseInv, Shape, OneAction
      <3>4. Touchable' = {"tags", "tracking"}
        BY <3>1, <3>2 DEF Touchable, IsOne
      <3>5. Touchable = {} /\ Untouched({})
        BY <1>1 DEF RefuseInv, PullFetch, Touchable, IsOne, Command
      <3>6. Untouched(Touchable)'
        BY <1>1, <1>2, <2>1, <3>4, <3>5 DEF Untouched
      <3>7. RefuseInv'
        BY <3>1, <3>2, <3>3, <3>6 DEF RefuseInv, At
      <3> QED BY <3>7
    <2> QED BY <2>1, <2>2, <2>3, <2>4
  <1> QED BY <1>3, <1>4

LEMMA PullKeeps ==
    ASSUME RefuseInv, UNCHANGED session,
           PullStart \/ PullAnalysis \/ PullForward \/ PullMerge \/ PullCommit
    PROVE  RefuseInv'
  <1>1. Is(repo, RepoFields) /\ CmdShape
    BY DEF RefuseInv, Shape
  <1>2. CASE PullStart
    <2>1. UNCHANGED before /\ MayRefuse /\ Command("pull")
      BY <1>2 DEF PullStart, Rest, At, Command, MayRefuse, Deleting
    <2>2. CASE \E rc \in {1, 2} : Stop(rc)
      BY <2>1, <2>2, StopKeeps
    <2>3. CASE ~\E rc \in {1, 2} : Stop(rc)
      <3>1. repo' = repo /\ cmd' = [cmd EXCEPT !.pc = "pull_fetch", !.specs = PullFrom]
        BY <1>2, <2>3 DEF PullStart
      <3>2. CmdShape' /\ cmd'.pc = "pull_fetch" /\ cmd'.request = cmd.request
        BY <1>1, <3>1 DEF CmdShape, Is, CmdFields
      <3> QED BY <1>1, <2>1, <3>1, <3>2, TouchesLittle DEF RefuseInv, Shape
    <2> QED BY <2>2, <2>3
  <1>3. CASE PullAnalysis
    <2>1. UNCHANGED before
      BY <1>3 DEF PullAnalysis, Rest
    <2>2. CASE \E rc \in {0, 1} : Stop(rc)
      BY <2>1, <2>2, StopKeeps
    <2>3. CASE ~\E rc \in {0, 1} : Stop(rc)
      <3>1. repo' = repo /\ \E at, index : \E pc \in {"pull_forward", "pull_commit", "pull_merge"} :
                cmd' = [cmd EXCEPT !.at = at, !.index = index, !.pc = pc]
        BY <1>3, <2>3 DEF PullAnalysis
      <3>2. CmdShape' /\ cmd'.request = cmd.request /\ cmd'.pc \in {"pull_forward", "pull_commit", "pull_merge"}
        BY <1>1, <3>1 DEF CmdShape, Is, CmdFields
      <3> QED BY <1>1, <2>1, <3>1, <3>2, QuietKeeps DEF Careful
    <2> QED BY <2>2, <2>3
  <1>4. CASE PullForward
    <2>1. UNCHANGED before /\ Goto("checkout_head") /\ repo' = [repo EXCEPT !.refs[Current] = cmd.commit]
      BY <1>4 DEF PullForward, Rest
    <2>2. Is(repo', RepoFields)
      BY <1>1, <2>1 DEF Is, RepoFields
    <2> QED BY <2>1, <2>2, GotoKeeps DEF Careful
  <1>5. CASE PullMerge
    <2> DEFINE base == TreeOf(repo, MergeBase(repo.dag, HeadCommit(repo), cmd.commit))
               applied == Apply(repo, base, TreeOf(repo, cmd.commit))
    <2>1. UNCHANGED before
      BY <1>5 DEF PullMerge, Rest
    <2>2. Is(applied, RepoFields)
      BY <1>1, CheckoutIs
    <2>3. \/ Stop(1)
          \/ repo' = Cleanup(applied) /\ Exit(1)
          \/ /\ repo' = [applied EXCEPT !.op = Operation("merge", cmd.commit)]
             /\ cmd' = [cmd EXCEPT !.pc = "pull_commit", !.index = applied.index]
      BY <1>5 DEF PullMerge
    <2> HIDE DEF applied
    <2>4. CASE Stop(1)
      BY <2>1, <2>4, StopKeeps
    <2>5. CASE repo' = Cleanup(applied) /\ Exit(1)
      BY <2>1, <2>2, <2>5, CleanupIs, ExitKeeps
    <2>6. CASE /\ repo' = [applied EXCEPT !.op = Operation("merge", cmd.commit)]
               /\ cmd' = [cmd EXCEPT !.pc = "pull_commit", !.index = applied.index]
      <3>1. Is(repo', RepoFields)
        BY <2>2, <2>6, OperationIs
      <3>2. CmdShape' /\ cmd'.request = cmd.request /\ cmd'.pc = "pull_commit"
        BY <1>1, <2>6 DEF CmdShape, Is, CmdFields
      <3> QED BY <2>1, <3>1, <3>2, QuietKeeps DEF Careful
    <2> QED BY <2>3, <2>4, <2>5, <2>6
  <1>6. CASE PullCommit
    <2>1. Is(repo', RepoFields) /\ Goto("checkout_head") /\ UNCHANGED before
      BY <1>1, <1>6, CommitTreeIs, CleanupIs DEF PullCommit, Rest
    <2> QED BY <2>1, GotoKeeps DEF Careful
  <1> QED BY <1>2, <1>3, <1>4, <1>5, <1>6

LEMMA PushKeeps ==
    ASSUME RefuseInv, UNCHANGED session,
           PushStart \/ PushConnect \/ PushUpdate \/ PushTips \/ PushUpstream
    PROVE  RefuseInv'
  <1>1. Is(repo, RepoFields) /\ CmdShape
    BY DEF RefuseInv, Shape
  <1> DEFINE remote == IF cmd.request.to = "" THEN "origin" ELSE cmd.request.to
  <1>2. CASE PushStart
    <2>1. UNCHANGED before /\ MayRefuse
      BY <1>2 DEF PushStart, Rest, At, Command, MayRefuse, Deleting
    <2>2. CASE \E rc \in {0, 1, 2} : Stop(rc)
      BY <2>1, <2>2, StopKeeps
    <2>3. CASE ~\E rc \in {0, 1, 2} : Stop(rc)
      <3>1. repo' = repo /\ cmd' = [cmd EXCEPT !.pc = "push_connect", !.specs = SetToSeq(PushSpecs)]
        BY <1>2, <2>3 DEF PushStart
      <3>2. CmdShape' /\ cmd'.pc = "push_connect" /\ cmd'.request = cmd.request
        BY <1>1, <3>1 DEF CmdShape, Is, CmdFields
      <3> QED BY <1>1, <2>1, <3>1, <3>2, QuietKeeps DEF Careful
    <2> QED BY <2>2, <2>3
  <1>3. CASE PushConnect
    <2>1. UNCHANGED before
      BY <1>3 DEF PushConnect, Rest
    <2>2. CASE Stop(1)
      BY <2>1, <2>2, StopKeeps
    <2>3. CASE ~Stop(1)
      <3> DEFINE told == [i \in DOMAIN cmd.specs |-> Advertised(cmd.specs[i])]
      <3>1. repo' = repo /\ cmd' = [cmd EXCEPT !.pc = "push_update", !.seen = told]
        BY <1>3, <2>3 DEF PushConnect
      <3> HIDE DEF told
      <3>2. CmdShape' /\ cmd'.pc = "push_update" /\ cmd'.request = cmd.request
        BY <1>1, <3>1 DEF CmdShape, Is, CmdFields
      <3> QED BY <1>1, <2>1, <3>1, <3>2, QuietKeeps DEF Careful
    <2> QED BY <2>2, <2>3
  <1>4. CASE PushUpdate
    <2>1. UNCHANGED <<before, repo>> /\ \E index : cmd' = [cmd EXCEPT !.pc = "push_tips", !.index = index]
      BY <1>4 DEF PushUpdate, Rest
    <2>2. CmdShape' /\ cmd'.pc = "push_tips" /\ cmd'.request = cmd.request
      BY <1>1, <2>1 DEF CmdShape, Is, CmdFields
    <2> QED BY <1>1, <2>1, <2>2, QuietKeeps DEF Careful
  <1>5. CASE PushTips
    <2>1. /\ UNCHANGED before /\ Goto("push_upstream")
          /\ \E now : repo' = [repo EXCEPT !.tracking[remote] = now]
      BY <1>5 DEF PushTips, Rest
    <2>2. Is(repo', RepoFields)
      BY <1>1, <2>1 DEF Is, RepoFields
    <2> QED BY <2>1, <2>2, GotoKeeps DEF Careful
  <1>6. CASE PushUpstream
    <2>1. /\ UNCHANGED before /\ Exit(0)
          /\ repo' = repo \/ repo' = [repo EXCEPT !.upstream[Current] = <<remote, Current>>]
      BY <1>6 DEF PushUpstream, Rest
    <2>2. Is(repo', RepoFields)
      BY <1>1, <2>1 DEF Is, RepoFields
    <2>3. Exit(0) /\ UNCHANGED <<before, session>>
      BY <2>1
    <2> QED BY <2>2, <2>3, ExitKeeps
  <1> QED BY <1>2, <1>3, <1>4, <1>5, <1>6

-----------------------------------------------------------------------------
(* config, remote, init, clone, submodule.                                 *)

LEMMA SetIs ==
    ASSUME Is(repo, RepoFields), NEW key, NEW values, Set(key, values)
    PROVE  Is(repo', RepoFields) /\ \A f \in RepoFields \ {"config"} : repo'[f] = repo[f]
  BY DEF Set, Is, RepoFields

LEMMA ConfigKeeps ==
    ASSUME RefuseInv, UNCHANGED session, ConfigStart \/ ConfigDelete \/ ConfigAppend
    PROVE  RefuseInv'
  <1>1. Is(repo, RepoFields) /\ CmdShape
    BY DEF RefuseInv, Shape
  <1>2. CASE ConfigStart
    <2>1. UNCHANGED before /\ MayRefuse
      BY <1>2 DEF ConfigStart, Rest, At, Command, MayRefuse, Deleting
    <2>2. CASE \E rc \in {2, 5} : Stop(rc)
      BY <2>1, <2>2, StopKeeps
    <2>3. CASE ~\E rc \in {2, 5} : Stop(rc)
      <3>1. \/ Exit(0) /\ \E values : Set(Key, values)
            \/ repo' = repo /\ \E specs : cmd' = [cmd EXCEPT !.pc = "delete", !.specs = specs]
        BY <1>2, <2>3 DEF ConfigStart
      <3>2. CASE Exit(0) /\ \E values : Set(Key, values)
        BY <1>1, <2>1, <3>2, SetIs, ExitKeeps
      <3>3. CASE repo' = repo /\ \E specs : cmd' = [cmd EXCEPT !.pc = "delete", !.specs = specs]
        <4>1. CmdShape' /\ cmd'.pc = "delete" /\ cmd'.request = cmd.request
          BY <1>1, <3>3 DEF CmdShape, Is, CmdFields
        <4> QED BY <1>1, <2>1, <3>3, <4>1, QuietKeeps DEF Careful
      <3> QED BY <3>1, <3>2, <3>3
    <2> QED BY <2>2, <2>3
  <1>3. CASE ConfigDelete
    <2>1. UNCHANGED before /\ Goto("append") /\ Set(DeleteKey, <<>>)
      BY <1>3 DEF ConfigDelete, Rest
    <2> QED BY <1>1, <2>1, SetIs, GotoKeeps DEF Careful
  <1>4. CASE ConfigAppend
    <2>1. UNCHANGED before /\ cmd.pc = "append"
      BY <1>4 DEF ConfigAppend, Rest
    <2>2. CASE Stop(0)
      BY <2>1, <2>2, StopKeeps
    <2>3. CASE ~Stop(0)
      <3>1. /\ cmd' = [cmd EXCEPT !.specs = Tail(@)]
            /\ Set(DeleteKey, Appended(Values(DeleteKey), cmd.specs[1]))
        BY <1>4, <2>3 DEF ConfigAppend
      <3>2. Is(repo', RepoFields)
        BY <1>1, <3>1, SetIs
      <3>3. CmdShape' /\ cmd'.pc = "append" /\ cmd'.request = cmd.request
        BY <1>1, <2>1, <3>1 DEF CmdShape, Is, CmdFields
      <3> QED BY <2>1, <3>2, <3>3, QuietKeeps DEF Careful
    <2> QED BY <2>2, <2>3
  <1> QED BY <1>2, <1>3, <1>4

\* remote add: the names are looked at one by one, after the first ones have been written.
LEMMA RemoteAddKeeps ==
    ASSUME RefuseInv, UNCHANGED session,
           RemoteWrong \/ RemoteAdd \/ RemoteRefspecs \/ RemoteTrack \/ RemoteOptions \/ RemoteMaster
    PROVE  RefuseInv'
  <1>1. Is(repo, RepoFields) /\ CmdShape
    BY DEF RefuseInv, Shape
  <1>2. CASE RemoteWrong
    <2>1. UNCHANGED before /\ MayRefuse /\ Stop(2)
      BY <1>2 DEF RemoteWrong, Rest, At, Command, MayRefuse, Deleting
    <2> QED BY <2>1, StopKeeps
  <1>3. CASE RemoteAdd
    <2>1. UNCHANGED before /\ MayRefuse /\ Command("remote")
      BY <1>3 DEF RemoteAdd, RemoteIs, Rest, At, Command, MayRefuse, Deleting
    <2>2. CASE \E rc \in {1, 128} : Stop(rc)
      BY <2>1, <2>2, StopKeeps
    <2>3. CASE ~\E rc \in {1, 128} : Stop(rc)
      <3>1. /\ repo' = [repo EXCEPT !.config = [repo.config EXCEPT ![RemoteKey[Remote, "url"]] = <<cmd.request.rev>>,
                                                         ![FetchKey] = <<"*">>]]
            /\ Goto(IF Mirror \/ Count > 0 THEN "refspecs" ELSE "options")
        BY <1>3, <2>3 DEF RemoteAdd
      <3>2. Is(repo', RepoFields) /\ \A f \in RepoFields \ {"config"} : repo'[f] = repo[f]
        BY <1>1, <3>1 DEF Is, RepoFields
      <3>3. CmdShape' /\ cmd'.pc \in {"refspecs", "options"} /\ cmd'.request = cmd.request
        BY <1>1, <3>1, GotoCmd
      <3>4. Shape'
        BY <2>1, <3>2, <3>3 DEF RefuseInv, Shape
      <3>5. CASE Count > 0
        <4>1. Touchable = {"config"}
          BY <2>1, <3>5 DEF Touchable, IsOne, Command
        <4> QED BY <2>1, <3>2, <3>3, <3>4, <4>1, TouchesLittle
      <3>6. CASE ~(Count > 0)
        <4>1. ~(Count > 0)'
          BY <3>3, <3>6 DEF Count
        <4>2. ~MayRefuse'
          BY <2>1, <3>3, <4>1 DEF MayRefuse, At, Command, Ended
        <4> QED BY <2>1, <3>3, <3>4, <4>2, NoRefusal
      <3> QED BY <3>5, <3>6
    <2> QED BY <2>2, <2>3
  <1>4. CASE RemoteRefspecs
    <2> DEFINE names == IF Has("mirror_push") /\ ~Has("mirror_fetch") THEN <<>>
                        ELSE IF Count = 0 THEN <<"*">> ELSE cmd.request.paths
               values == IF Has("add") \/ ~Has("insert") THEN <<>> ELSE Values(FetchKey)
    <2>1. UNCHANGED before /\ Command("remote") /\ cmd.pc = "refspecs" /\ Set(FetchKey, values)
          /\ cmd' = [cmd EXCEPT !.pc = "tracks", !.specs = names]
      BY <1>4 DEF RemoteRefspecs, At, Rest
    <2>2. Is(repo', RepoFields) /\ \A f \in RepoFields \ {"config"} : repo'[f] = repo[f]
      BY <1>1, <2>1, SetIs
    <2>3. Count = 0 => names \in {<<>>, <<"*">>}
      OBVIOUS
    <2> HIDE DEF names
    <2>4. CmdShape' /\ cmd'.pc = "tracks" /\ cmd'.request = cmd.request /\ cmd'.specs = names
      BY <1>1, <2>1 DEF CmdShape, Is, CmdFields
    <2>5. Shape' /\ Count' = Count
      BY <2>1, <2>2, <2>4 DEF RefuseInv, Shape, Count
    <2>6. Count > 0 => Untouched(Touchable)'
      <3> SUFFICES ASSUME Count > 0 PROVE Untouched(Touchable)'
        OBVIOUS
      <3>1. MayRefuse /\ Touchable = {"config"}
        BY <2>1 DEF MayRefuse, Touchable, IsOne, Command
      <3>2. Touchable' = Touchable
        BY <2>4 DEF Touchable, IsOne, Has, Count
      <3> QED BY <2>1, <2>2, <3>1, <3>2 DEF RefuseInv, Untouched
    <2>7. MayRefuse' => Count > 0
      BY <2>1, <2>4, <2>5 DEF MayRefuse, At, Command, Ended
    <2> QED BY <2>3, <2>4, <2>5, <2>6, <2>7 DEF RefuseInv, At
  <1>5. CASE RemoteTrack
    <2>1. UNCHANGED before /\ Command("remote") /\ cmd.pc = "tracks"
      BY <1>5 DEF RemoteTrack, At, Rest
    <2>2. CASE cmd.specs = <<>>
      <3>1. repo' = repo /\ (Goto("options") \/ Exit(0))
        BY <1>5, <2>2 DEF RemoteTrack
      <3>2. CASE Goto("options")
        BY <1>1, <2>1, <3>1, <3>2, GotoKeeps DEF Careful
      <3>3. CASE Exit(0)
        BY <1>1, <2>1, <3>1, <3>3, ExitKeeps
      <3> QED BY <3>1, <3>2, <3>3
    <2>3. CASE cmd.specs # <<>> /\ cmd.specs[1] \notin Branches \cup {"*"}
      <3>1. Stop(2)
        BY <1>5, <2>3 DEF RemoteTrack
      <3>2. Count # 0
        BY <2>1, <2>3 DEF RefuseInv, At
      <3>3. MayRefuse
        BY <2>1, <3>2, CountIsNat DEF MayRefuse
      <3> QED BY <2>1, <3>1, <3>3, StopKeeps
    <2>4. CASE cmd.specs # <<>> /\ cmd.specs[1] \in Branches \cup {"*"}
      <3>1. /\ Set(FetchKey, Append(Values(FetchKey), cmd.specs[1]))
            /\ cmd' = [cmd EXCEPT !.specs = Tail(@)]
        BY <1>5, <2>4 DEF RemoteTrack
      <3>2. Is(repo', RepoFields) /\ \A f \in RepoFields \ {"config"} : repo'[f] = repo[f]
        BY <1>1, <3>1, SetIs
      <3>3. CmdShape' /\ cmd'.pc = "tracks" /\ cmd'.request = cmd.request /\ cmd'.specs = Tail(cmd.specs)
        BY <1>1, <2>1, <3>1 DEF CmdShape, Is, CmdFields
      <3>4. Shape' /\ Count' = Count
        BY <2>1, <3>2, <3>3 DEF RefuseInv, Shape, Count
      <3>5. Count > 0 => Untouched(Touchable)'
        <4> SUFFICES ASSUME Count > 0 PROVE Untouched(Touchable)'
          OBVIOUS
        <4>1. MayRefuse /\ Touchable = {"config"}
          BY <2>1 DEF MayRefuse, Touchable, IsOne, Command
        <4>2. Touchable' = Touchable
          BY <3>3 DEF Touchable, IsOne, Has, Count
        <4> QED BY <2>1, <3>2, <4>1, <4>2 DEF RefuseInv, Untouched
      <3>6. Count = 0 => Tail(cmd.specs) = <<>>
        <4>1. Count = 0 => cmd.specs = <<"*">>
          BY <2>1, <2>4 DEF RefuseInv, At
        <4> QED BY <4>1, NoPaths
      <3>7. MayRefuse' => Count > 0
        BY <2>1, <3>3, <3>4 DEF MayRefuse, At, Command, Ended
      <3> QED BY <3>3, <3>4, <3>5, <3>6, <3>7 DEF RefuseInv, At
    <2> QED BY <2>2, <2>3, <2>4
  <1>6. CASE RemoteOptions
    <2> DEFINE option == IF Has("tags") THEN <<"--tags">> ELSE IF Has("no_tags") THEN <<"--no-tags">> ELSE <<>>
               config == [repo.config EXCEPT
                            ![RemoteKey[Remote, "mirror"]] = IF Has("mirror_push") THEN <<"true">> ELSE repo.config[RemoteKey[Remote, "mirror"]],
                            ![RemoteKey[Remote, "tagOpt"]] = IF option # <<>> THEN option ELSE repo.config[RemoteKey[Remote, "tagOpt"]]]
    <2>1. UNCHANGED before /\ Goto("master") /\ repo' = [repo EXCEPT !.config = config]
      BY <1>6 DEF RemoteOptions, Rest
    <2> HIDE DEF config
    <2>2. Is(repo', RepoFields)
      BY <1>1, <2>1 DEF Is, RepoFields
    <2> QED BY <2>1, <2>2, GotoKeeps DEF Careful
  <1>7. CASE RemoteMaster
    <2>1. /\ UNCHANGED before
          /\ repo' = repo \/ repo' = [repo EXCEPT !.rhead[Remote] = Operand(1)]
          /\ Exit(0) \/ cmd' = [cmd EXCEPT !.pc = "fetch", !.specs = <<Remote>>, !.request.paths = <<>>]
      BY <1>7 DEF RemoteMaster, Rest
    <2>2. Is(repo', RepoFields)
      BY <1>1, <2>1 DEF Is, RepoFields
    <2>3. CASE Exit(0)
      BY <2>1, <2>2, <2>3, ExitKeeps
    <2>4. CASE cmd' = [cmd EXCEPT !.pc = "fetch", !.specs = <<Remote>>, !.request.paths = <<>>]
      <3>1. Is(cmd', CmdFields) /\ cmd'.pc = "fetch" /\ cmd'.request = [cmd.request EXCEPT !.paths = <<>>]
        BY <1>1, <2>4 DEF CmdShape, Is, CmdFields
      <3>2. Is(cmd'.request, RequestFields) /\ cmd'.request.opts = cmd.request.opts
            /\ cmd'.request.name = cmd.request.name /\ cmd'.request.paths = <<>>
        BY <1>1, <3>1 DEF CmdShape, Is, RequestFields
      <3>3. Shape' /\ OneAction(cmd.request)' /\ cmd'.request.paths \in Seq(STRING)
        BY <2>1, <2>2, <3>1, <3>2 DEF RefuseInv, Shape, CmdShape, OneAction
      <3>4. ~MayRefuse' /\ ~At("remote", "tracks")'
        BY <3>1 DEF MayRefuse, At, Ended
      <3> QED BY <3>1, <3>3, <3>4 DEF RefuseInv
    <2> QED BY <2>1, <2>3, <2>4
  <1> QED BY <1>2, <1>3, <1>4, <1>5, <1>6, <1>7

LEMMA RemoteEditKeeps ==
    ASSUME RefuseInv, UNCHANGED session, RemoteRemove \/ RemoteRename \/ RemoteSetUrl \/ RemoteSetBranches
    PROVE  RefuseInv'
  <1>1. Is(repo, RepoFields) /\ CmdShape
    BY DEF RefuseInv, Shape
  <1>2. UNCHANGED before /\ MayRefuse /\ Command("remote")
    BY DEF RemoteRemove, RemoteRename, RemoteSetUrl, RemoteSetBranches, RemoteIs, Rest, At, Command,
           MayRefuse, Deleting
  <1>3. CASE \E rc \in {1, 2} : Stop(rc)
    BY <1>2, <1>3, StopKeeps
  <1>4. CASE ~(\E rc \in {1, 2} : Stop(rc)) /\ RemoteRemove
    <2> DEFINE config == [k \in Keys |-> IF \E f \in Fields : k = RemoteKey[Remote, f] THEN <<>>
                                         ELSE repo.config[k]]
               tracked == [b \in Branches |-> IF repo.upstream[b][1] = Remote THEN NoUpstream
                                              ELSE repo.upstream[b]]
    <2>1. Exit(0) /\ repo' = [repo EXCEPT !.config = config, !.tracking[Remote] = NoBranches,
                                          !.rhead[Remote] = "", !.upstream = tracked]
      BY <1>4 DEF RemoteRemove
    <2> HIDE DEF config, tracked
    <2>2. Is(repo', RepoFields)
      BY <1>1, <2>1 DEF Is, RepoFields
    <2> QED BY <1>2, <2>1, <2>2, ExitKeeps
  <1>5. CASE ~(\E rc \in {1, 2} : Stop(rc)) /\ RemoteRename
    <2> DEFINE new == cmd.request.rev
               field(k) == {f \in Fields : k = RemoteKey[new, f]}
               config == [k \in Keys |->
                            IF \E f \in Fields : k = RemoteKey[Remote, f] THEN <<>>
                            ELSE IF field(k) # {} THEN repo.config[RemoteKey[Remote, CHOOSE f \in field(k) : TRUE]]
                            ELSE repo.config[k]]
               tracking == [repo.tracking EXCEPT ![new] = repo.tracking[Remote], ![Remote] = NoBranches]
               rhead == [repo.rhead EXCEPT ![new] = repo.rhead[Remote], ![Remote] = ""]
               tracked == [b \in Branches |-> IF repo.upstream[b][1] = Remote THEN <<new, repo.upstream[b][2]>>
                                              ELSE repo.upstream[b]]
    <2>1. Exit(0) /\ repo' = [repo EXCEPT !.config = config, !.tracking = tracking, !.rhead = rhead,
                                          !.upstream = tracked]
      BY <1>5 DEF RemoteRename
    <2> HIDE DEF config, tracking, rhead, tracked
    <2>2. Is(repo', RepoFields)
      BY <1>1, <2>1 DEF Is, RepoFields
    <2> QED BY <1>2, <2>1, <2>2, ExitKeeps
  <1>6. CASE ~(\E rc \in {1, 2} : Stop(rc)) /\ RemoteSetUrl
    <2> DEFINE url == cmd.request.rev
               added == Appended(Values(UrlKey), url)
               kept == Others(IF Has("old") THEN Operand(1) ELSE url, Values(UrlKey))
                       \o (IF Has("old") THEN <<url>> ELSE <<>>)
    <2>1. \/ Exit(0) /\ Set(UrlKey, added)
          \/ Exit(0) /\ Set(UrlKey, <<url>>)
          \/ repo' = repo /\ cmd' = [cmd EXCEPT !.pc = "delete", !.specs = kept]
      BY <1>6 DEF RemoteSetUrl
    <2> HIDE DEF url, added, kept
    <2>2. CASE Exit(0) /\ (Set(UrlKey, added) \/ Set(UrlKey, <<url>>))
      <3>1. Is(repo', RepoFields)
        BY <1>1, <2>2, SetIs
      <3> QED BY <1>2, <2>2, <3>1, ExitKeeps
    <2>3. CASE repo' = repo /\ cmd' = [cmd EXCEPT !.pc = "delete", !.specs = kept]
      <3>1. CmdShape' /\ cmd'.pc = "delete" /\ cmd'.request = cmd.request
        BY <1>1, <2>3 DEF CmdShape, Is, CmdFields
      <3> QED BY <1>1, <1>2, <2>3, <3>1, QuietKeeps DEF Careful
    <2> QED BY <2>1, <2>2, <2>3
  <1>7. CASE ~(\E rc \in {1, 2} : Stop(rc)) /\ RemoteSetBranches
    <2>1. repo' = repo /\ Goto("refspecs")
      BY <1>7 DEF RemoteSetBranches
    <2>2. CmdShape' /\ cmd'.pc = "refspecs" /\ cmd'.request = cmd.request
      BY <1>1, <2>1, GotoCmd
    <2> QED BY <1>1, <1>2, <2>1, <2>2, TouchesLittle DEF RefuseInv, Shape
  <1> QED BY <1>3, <1>4, <1>5, <1>6, <1>7

LEMMA RemoteAskKeeps ==
    ASSUME RefuseInv, UNCHANGED session, RemoteFetch \/ RemoteAsk \/ RemoteSetHead
    PROVE  RefuseInv'
  <1>1. Is(repo, RepoFields) /\ CmdShape
    BY DEF RefuseInv, Shape
  <1>2. UNCHANGED before /\ MayRefuse
    BY DEF RemoteFetch, RemoteAsk, RemoteSetHead, RemoteIs, Rest, At, Command, MayRefuse, Deleting
  <1>3. CASE \E rc \in {0, 1} : Stop(rc)
    BY <1>2, <1>3, StopKeeps
  <1>4. CASE ~(\E rc \in {0, 1} : Stop(rc))
    <2>1. ~RemoteAsk
      BY <1>4 DEF RemoteAsk
    <2>2. CASE RemoteFetch
      <3>1. repo' = repo /\ \E specs : cmd' = [cmd EXCEPT !.pc = "fetch", !.specs = specs]
        BY <1>4, <2>2 DEF RemoteFetch
      <3>2. CmdShape' /\ cmd'.pc = "fetch" /\ cmd'.request = cmd.request
        BY <1>1, <3>1 DEF CmdShape, Is, CmdFields
      <3> QED BY <1>1, <1>2, <3>1, <3>2, QuietKeeps DEF Careful
    <2>3. CASE RemoteSetHead
      <3>1. Exit(0) /\ \E b : repo' = [repo EXCEPT !.rhead[Remote] = b]
        BY <1>4, <2>3 DEF RemoteSetHead
      <3>2. Is(repo', RepoFields)
        BY <1>1, <3>1 DEF Is, RepoFields
      <3> QED BY <1>2, <3>1, <3>2, ExitKeeps
    <2> QED BY <2>1, <2>2, <2>3
  <1> QED BY <1>3, <1>4

LEMMA CloneKeeps ==
    ASSUME RefuseInv, UNCHANGED session,
           InitStart \/ InitHead \/ CloneStart \/ SubmoduleStart \/ ModuleUpdate
    PROVE  RefuseInv'
  <1>1. Is(repo, RepoFields) /\ CmdShape /\ UNCHANGED before
    BY DEF RefuseInv, Shape, InitStart, InitHead, CloneStart, SubmoduleStart, ModuleUpdate, Rest
  <1> DEFINE Refused == cmd' = [cmd EXCEPT !.pc = "exit", !.rc = 1, !.denied = TRUE] /\ UNCHANGED repo
  <1>2. CASE Refused
    <2>1. CmdShape' /\ cmd'.pc = "exit" /\ cmd'.rc = 1 /\ cmd'.request = cmd.request
      BY <1>1, <1>2 DEF CmdShape, Is, CmdFields
    <2>2. Shape' /\ ~MayRefuse'
      BY <1>1, <1>2, <2>1 DEF RefuseInv, Shape, MayRefuse, At, Ended
    <2> QED BY <2>1, <2>2, NoRefusal
  <1>3. CASE \E specs : cmd' = [cmd EXCEPT !.pc = "modules", !.specs = specs] /\ Is(repo', RepoFields)
    <2>1. CmdShape' /\ cmd'.pc = "modules" /\ cmd'.request = cmd.request
      BY <1>1, <1>3 DEF CmdShape, Is, CmdFields
    <2> QED BY <1>1, <1>3, <2>1, QuietKeeps DEF Careful
  <1>4. CASE InitStart
    <2>1. MayRefuse
      BY <1>4 DEF InitStart, At, Command, MayRefuse, Deleting
    <2> DEFINE none == [branch |-> "", at |-> 0]
    <2>2. Stop(2) \/ Stop(0) \/ (Goto("init_head") /\ repo' = [repo EXCEPT !.head = none])
      BY <1>4 DEF InitStart
    <2> HIDE DEF none
    <2>3. CASE Stop(2) \/ Stop(0)
      BY <1>1, <2>1, <2>3, StopKeeps
    <2>4. CASE Goto("init_head") /\ repo' = [repo EXCEPT !.head = none]
      <3>1. Is(repo', RepoFields)
        BY <1>1, <2>4 DEF Is, RepoFields
      <3> QED BY <1>1, <2>4, <3>1, GotoKeeps DEF Careful
    <2> QED BY <2>2, <2>3, <2>4
  <1>5. CASE InitHead
    <2> DEFINE unborn == [branch |-> cmd.request.to, at |-> 0]
    <2>1. Exit(0) /\ repo' = [repo EXCEPT !.head = unborn]
      BY <1>5 DEF InitHead
    <2> HIDE DEF unborn
    <2>2. Is(repo', RepoFields)
      BY <1>1, <2>1 DEF Is, RepoFields
    <2> QED BY <1>1, <2>1, <2>2, ExitKeeps
  <1>6. CASE CloneStart
    <2>1. MayRefuse
      BY <1>6 DEF CloneStart, At, Command, MayRefuse, Deleting
    <2>2. \/ Stop(2)
          \/ Stop(1)
          \/ Refused
          \/ /\ repo' = [repo EXCEPT !.clone = {}, !.cloned = TRUE]
             /\ (Exit(0) \/ cmd' = [cmd EXCEPT !.pc = "modules", !.specs = Outermost])
      BY <1>6 DEF CloneStart
    <2>3. CASE Stop(2) \/ Stop(1)
      BY <1>1, <2>1, <2>3, StopKeeps
    <2>4. CASE /\ repo' = [repo EXCEPT !.clone = {}, !.cloned = TRUE]
               /\ (Exit(0) \/ cmd' = [cmd EXCEPT !.pc = "modules", !.specs = Outermost])
      <3>1. Is(repo', RepoFields)
        BY <1>1, <2>4 DEF Is, RepoFields
      <3>2. CASE Exit(0)
        BY <1>1, <3>1, <3>2, ExitKeeps
      <3> QED BY <1>3, <2>4, <3>1, <3>2
    <2> QED BY <1>2, <2>2, <2>3, <2>4
  <1>7. CASE SubmoduleStart
    <2>1. MayRefuse
      BY <1>7 DEF SubmoduleStart, At, Command, MayRefuse, Deleting
    <2> DEFINE modules == IF repo.cloned THEN Outermost ELSE <<>>
    <2>2. \/ Stop(2)
          \/ Stop(0)
          \/ repo' = repo /\ cmd' = [cmd EXCEPT !.pc = "modules", !.specs = modules]
      BY <1>7 DEF SubmoduleStart
    <2> HIDE DEF modules
    <2>3. CASE Stop(2) \/ Stop(0)
      BY <1>1, <2>1, <2>3, StopKeeps
    <2> QED BY <1>1, <1>3, <2>2, <2>3
  <1>8. CASE ModuleUpdate
    <2>1. cmd.pc = "modules"
      BY <1>8 DEF ModuleUpdate
    <2> DEFINE more == Children(cmd.specs[1]) \o Tail(cmd.specs)
               clone == repo.clone \cup {cmd.specs[1]}
    <2>2. \/ Stop(0)
          \/ Refused
          \/ repo' = repo /\ cmd' = [cmd EXCEPT !.specs = Tail(cmd.specs)]
          \/ repo' = [repo EXCEPT !.clone = clone] /\ cmd' = [cmd EXCEPT !.specs = more]
      BY <1>8 DEF ModuleUpdate
    <2> HIDE DEF more, clone
    <2>3. CASE Stop(0)
      BY <1>1, <2>3, StopKeeps
    <2>4. CASE \/ repo' = repo /\ cmd' = [cmd EXCEPT !.specs = Tail(cmd.specs)]
               \/ repo' = [repo EXCEPT !.clone = clone] /\ cmd' = [cmd EXCEPT !.specs = more]
      <3>1. Is(repo', RepoFields)
        BY <1>1, <2>4 DEF Is, RepoFields
      <3>2. CmdShape' /\ cmd'.pc = "modules" /\ cmd'.request = cmd.request
        BY <1>1, <2>1, <2>4 DEF CmdShape, Is, CmdFields
      <3> QED BY <1>1, <3>1, <3>2, QuietKeeps DEF Careful
    <2> QED BY <1>2, <2>2, <2>3, <2>4
  <1> QED BY <1>4, <1>5, <1>6, <1>7, <1>8

-----------------------------------------------------------------------------
(* What comes between: questions, the main program, failures, others.      *)

LEMMA WorldKeeps ==
    ASSUME RefuseInv, UNCHANGED session,
           \/ Ask \/ End \/ Fail \/ Kill
           \/ \E q \in session.requests : Begin(q)
           \/ \E p, blob : Edit(p, blob)
           \/ \E b \in Branches : ServerCommit(b, TreeOf(repo, server.refs[b]))
    PROVE  RefuseInv'
  <1>1. Is(repo, RepoFields) /\ Is(before, RepoFields) /\ CmdShape /\ session \in Sessions
    BY DEF RefuseInv, Shape
  <1>2. CASE Ask
    <2>1. MayRefuse
      BY <1>2 DEF Ask, Asks, MayRefuse, Deleting, Command, Has
    <2>2. UNCHANGED before /\ Stop(Answer(repo, cmd.request).rc)
      BY <1>2 DEF Ask, Rest
    <2> QED BY <2>1, <2>2, StopKeeps
  <1>3. CASE End
    <2>1. cmd' = Idle /\ UNCHANGED <<repo, before>>
      BY <1>3 DEF End
    <2>2. Shape' /\ OneAction(cmd.request)' /\ cmd'.request.paths \in Seq(STRING) /\ cmd'.pc = "idle"
      BY <1>1, <2>1, IdleCmd DEF Shape, CmdShape
    <2> QED BY <1>1, <2>2 DEF RefuseInv, MayRefuse, At, Ended
  <1>4. CASE Fail
    <2>1. /\ Exit(1) /\ UNCHANGED before
          /\ repo' = repo \/ repo' = Cleanup(repo) \/ repo' = [repo EXCEPT !.head = before.head]
      BY <1>4 DEF Fail
    <2>2. Is(repo', RepoFields)
      BY <1>1, <2>1, CleanupIs DEF Is, RepoFields
    <2> QED BY <2>1, <2>2, ExitKeeps
  <1>5. CASE Kill
    <2>1. cmd' = [cmd EXCEPT !.pc = "exit", !.rc = 137] /\ UNCHANGED <<repo, before>>
      BY <1>5 DEF Kill
    <2>2. Exit(137)
      BY <2>1 DEF Exit
    <2> QED BY <1>1, <2>1, <2>2, ExitKeeps
  <1>6. CASE \E q \in session.requests : Begin(q)
    <2>1. PICK q \in session.requests : Begin(q)
      BY <1>6
    <2>2. Is(q, RequestFields) /\ q.paths \in Seq(STRING) /\ OneAction(q)
      BY <1>1, <2>1, SessionsAssumption
    <2>3. before' = repo /\ repo' = repo
      BY <2>1 DEF Begin
    <2>4. /\ Is(cmd', CmdFields) /\ cmd'.request = q
          /\ cmd'.pc = "start" \/ (cmd'.pc = "exit" /\ cmd'.rc = 1)
      BY <2>1, IdleCmd DEF Begin, Is, CmdFields
    <2>5. Shape' /\ Untouched(Touchable)'
      BY <1>1, <2>2, <2>3, <2>4 DEF Shape, CmdShape, Untouched
    <2> QED BY <1>1, <2>2, <2>4, <2>5 DEF RefuseInv, At
  <1>7. CASE \E p, blob : Edit(p, blob)
    <2>1. cmd' = cmd /\ before' = repo' /\ cmd.pc = "idle" /\ \E p, blob : repo' = [repo EXCEPT !.files[p] = blob]
      BY <1>7 DEF Edit
    <2>2. Is(repo', RepoFields)
      BY <1>1, <2>1 DEF Is, RepoFields
    <2>3. Shape' /\ OneAction(cmd.request)' /\ cmd'.request.paths \in Seq(STRING)
      BY <1>1, <2>1, <2>2 DEF Shape, CmdShape, RefuseInv
    <2> QED BY <1>1, <2>1, <2>3 DEF RefuseInv, MayRefuse, At, Ended
  <1>8. CASE \E b \in Branches : ServerCommit(b, TreeOf(repo, server.refs[b]))
    <2>1. UNCHANGED <<cmd, before>> /\ \E dag : repo' = [repo EXCEPT !.dag = dag]
      BY <1>8 DEF ServerCommit
    <2>2. Is(repo', RepoFields) /\ \A f \in RepoFields \ {"dag"} : repo'[f] = repo[f]
      BY <1>1, <2>1 DEF Is, RepoFields
    <2>3. Shape' /\ (MayRefuse' <=> MayRefuse) /\ Touchable' = Touchable
      BY <1>1, <2>1, <2>2 DEF Shape, CmdShape, MayRefuse, Deleting, At, Command, Has, Ended, Count,
                              BranchUsage, TagUsage, Touchable, IsOne
    <2>4. Untouched(Touchable) => Untouched(Touchable)'
      BY <2>1, <2>2, <2>3 DEF Untouched
    <2> QED BY <1>1, <2>1, <2>3, <2>4 DEF RefuseInv, At, Command, Count
  <1> QED BY <1>2, <1>3, <1>4, <1>5, <1>6, <1>7, <1>8

LEMMA StutterKeeps ==
    ASSUME RefuseInv, UNCHANGED vars
    PROVE  RefuseInv'
  BY DEF vars, RefuseInv, Shape, CmdShape, MayRefuse, Deleting, At, Command, Has, Ended, Count,
         BranchUsage, TagUsage, Touchable, IsOne, Untouched

LEMMA NextKeeps == RefuseInv /\ [Next]_vars => RefuseInv'
  <1> SUFFICES ASSUME RefuseInv, Next PROVE RefuseInv'
    BY StutterKeeps
  <1>1. UNCHANGED session
    BY DEF Next
  <1>2. CASE WorkNext
    BY <1>1, <1>2, IndexKeeps, CommitKeeps, RestoreKeeps, CheckoutKeeps DEF WorkNext
  <1>3. CASE SequenceNext
    BY <1>1, <1>3, MergeKeeps, PickKeeps, RebaseKeeps, StashKeeps DEF SequenceNext
  <1>4. CASE RefsNext
    BY <1>1, <1>4, BranchKeeps, TagKeeps, FetchKeeps, PullFetchKeeps, PullKeeps, PushKeeps DEF RefsNext
  <1>5. CASE RemoteNext
    BY <1>1, <1>5, ConfigKeeps, RemoteAddKeeps, RemoteEditKeeps, RemoteAskKeeps, CloneKeeps DEF RemoteNext
  <1>6. CASE ~(WorkNext \/ SequenceNext \/ RefsNext \/ RemoteNext)
    BY <1>1, <1>6, WorldKeeps DEF Next, Local
  <1> QED BY <1>2, <1>3, <1>4, <1>5, <1>6

LEMMA InitRefuses == Init => RefuseInv
  <1> SUFFICES ASSUME Init PROVE RefuseInv
    OBVIOUS
  <1>1. Is(repo, RepoFields) /\ Is(before, RepoFields) /\ session \in Sessions /\ cmd = Idle
    BY SessionsAssumption DEF Init
  <1>2. Shape /\ cmd.pc = "idle" /\ OneAction(cmd.request) /\ cmd.request.paths \in Seq(STRING)
    BY <1>1, IdleCmd DEF Shape, CmdShape
  <1> QED BY <1>1, <1>2 DEF RefuseInv, MayRefuse, At, Ended

\* A command of the git applet that refuses, by its usage or for a name that is not there, has
\* changed nothing of the repository, but for the four that Excused names: whatever the history,
\* the request, the failures and kills before it and the pushes of others (git_app.c).
THEOREM RefusalIsClean == Spec => []RefusalChangesNothing
  <1>1. Spec => []RefuseInv
    BY InitRefuses, NextKeeps, PTL DEF Spec
  <1> QED BY <1>1, RefusalEnds, PTL

-----------------------------------------------------------------------------
(* The history of a commit.                                                *)

\* A nonempty set of numbers has a least one.
LEMMA LeastNumber ==
    ASSUME NEW s, s \subseteq Nat, s # {}
    PROVE  \E x \in s : \A y \in s : x <= y
  <1> DEFINE R == OpToRel(<, Nat)
  <1>1. \A x, y \in Nat : <<x, y>> \in R <=> x < y
    BY DEF OpToRel
  <1>2. IsWellFoundedOn(R, Nat)
    BY NatLessThanWellFounded
  <1> HIDE DEF R
  <1>3. PICK x \in s : \A y \in s : ~ (<<y, x>> \in R)
    BY <1>2, WFMin
  <1>4. ASSUME NEW y \in s PROVE x <= y
    <2>1. x \in Nat /\ y \in Nat /\ ~ (<<y, x>> \in R)
      BY <1>3
    <2> QED BY <1>1, <2>1
  <1> QED BY <1>4

\* The parents of a commit are commits before it.
LEMMA ParentsAreBefore ==
    ASSUME NEW dag, Graph(dag), NEW d \in 1 .. Len(dag)
    PROVE  /\ ToSet(dag[d].parents) \subseteq 0 .. d - 1 /\ Len(dag) \in Nat /\ DOMAIN dag = 1 .. Len(dag)
           /\ dag[d].parents \in Seq(0 .. d - 1)
  <1>1. Len(dag) \in Nat /\ DOMAIN dag = 1 .. Len(dag)
    BY DEF Graph
  <1>2. dag[d].parents \in Seq(0 .. d - 1)
    BY <1>1 DEF Graph
  <1> QED BY <1>1, <1>2 DEF ToSet

\* The recursion that History is made with, up to n.
Reached_(dag, f, d) == IF d = 0 THEN {} ELSE {d} \cup UNION {f[p] : p \in ToSet(dag[d].parents)}
UpTo(dag, f, n) == f = [d \in 0 .. n |-> Reached_(dag, f, d)]

LEMMA UpToMore ==
    ASSUME NEW dag, Graph(dag), NEW n \in 1 .. Len(dag), NEW g, UpTo(dag, g, n - 1)
    PROVE  \E f : UpTo(dag, f, n)
  <1> DEFINE f == [d \in 0 .. n |-> IF d = n THEN Reached_(dag, g, n) ELSE g[d]]
  <1>1. Len(dag) \in Nat /\ n \in Nat
    BY ParentsAreBefore
  <1>2. ASSUME NEW d \in 0 .. n PROVE Reached_(dag, f, d) = Reached_(dag, g, d)
    <2>1. CASE d = 0
      BY <2>1 DEF Reached_
    <2>2. CASE d # 0
      <3>1. d \in 1 .. Len(dag)
        BY <1>1, <2>2
      <3>2. ToSet(dag[d].parents) \subseteq 0 .. d - 1
        BY <3>1, ParentsAreBefore
      <3>3. \A p \in 0 .. d - 1 : f[p] = g[p]
        BY <1>1, <3>1
      <3>4. \A p \in ToSet(dag[d].parents) : f[p] = g[p]
        BY <3>2, <3>3
      <3> HIDE DEF f
      <3> QED BY <3>4 DEF Reached_
    <2> QED BY <2>1, <2>2
  <1>3. \A d \in 0 .. n - 1 : g[d] = Reached_(dag, g, d)
    BY DEF UpTo
  <1>4. \A d \in 0 .. n : f[d] = Reached_(dag, f, d)
    BY <1>1, <1>2, <1>3
  <1> QED BY <1>4 DEF UpTo

LEMMA UpToAll ==
    ASSUME NEW dag, Graph(dag)
    PROVE  \E f : UpTo(dag, f, Len(dag))
  <1> DEFINE missing == {n \in 0 .. Len(dag) : ~\E f : UpTo(dag, f, n)}
  <1>0. Len(dag) \in Nat
    BY DEF Graph
  <1>1. CASE missing = {}
    BY <1>0, <1>1
  <1>2. CASE missing # {}
    <2>0. missing \subseteq Nat
      BY <1>0
    <2>1. \E n \in missing : \A m \in missing : n <= m
      <3> HIDE DEF missing
      <3> QED BY <1>2, <2>0, LeastNumber
    <2> PICK n \in missing : \A m \in missing : n <= m
      BY <2>1
    <2>2. n # 0
      <3> DEFINE f == [d \in 0 .. 0 |-> {}]
      <3>1. \A d \in 0 .. 0 : f[d] = Reached_(dag, f, d)
        BY DEF Reached_
      <3>2. UpTo(dag, f, 0)
        BY <3>1 DEF UpTo
      <3> QED BY <3>2
    <2>3. n - 1 \in 0 .. Len(dag) /\ n - 1 \notin missing /\ n \in 1 .. Len(dag)
      BY <1>0, <2>2
    <2>4. \E f : UpTo(dag, f, n)
      BY <2>3, UpToMore
    <2> QED BY <2>4
  <1> QED BY <1>1, <1>2

LEMMA UpToStep ==
    ASSUME NEW dag, NEW n \in Nat, NEW f, UpTo(dag, f, n)
    PROVE  f[0] = {} /\ \A d \in 1 .. n : f[d] = {d} \cup UNION {f[p] : p \in ToSet(dag[d].parents)}
  <1>1. \A d \in 0 .. n : f[d] = Reached_(dag, f, d)
    BY DEF UpTo
  <1>2. f[0] = {}
    <2>1. 0 \in 0 .. n
      OBVIOUS
    <2>2. f[0] = Reached_(dag, f, 0)
      BY <1>1, <2>1
    <2>3. Reached_(dag, f, 0) = {}
      BY DEF Reached_
    <2> QED BY <2>2, <2>3
  <1>3. ASSUME NEW d \in 1 .. n PROVE f[d] = {d} \cup UNION {f[p] : p \in ToSet(dag[d].parents)}
    <2>1. f[d] = Reached_(dag, f, d) /\ d # 0
      BY <1>1
    <2> DEFINE all == {d} \cup UNION {f[p] : p \in ToSet(dag[d].parents)}
    <2>2. Reached_(dag, f, d) = IF d = 0 THEN {} ELSE all
      BY DEF Reached_
    <2> HIDE DEF all
    <2>3. f[d] = all
      BY <2>1, <2>2
    <2> QED BY <2>3 DEF all
  <1> QED BY <1>2, <1>3

LEMMA HistoryStep ==
    ASSUME NEW dag, Graph(dag)
    PROVE  /\ History(dag, 0) = {}
           /\ \A d \in 1 .. Len(dag) : History(dag, d) = {d} \cup UNION {History(dag, p) : p \in ToSet(dag[d].parents)}
  <1> DEFINE f == CHOOSE reach : reach = [d \in 0 .. Len(dag) |-> Reached_(dag, reach, d)]
  <1>1. \A c : History(dag, c) = f[c]
    BY DEF History, Reached_
  <1>2. UpTo(dag, f, Len(dag))
    BY UpToAll DEF UpTo
  <1> HIDE DEF f
  <1>3. Len(dag) \in Nat
    BY DEF Graph
  <1>4. f[0] = {} /\ \A d \in 1 .. Len(dag) : f[d] = {d} \cup UNION {f[p] : p \in ToSet(dag[d].parents)}
    BY <1>2, <1>3, UpToStep
  <1> QED BY <1>1, <1>4

LEMMA HistorySelf ==
    ASSUME NEW dag, Graph(dag), NEW d \in 1 .. Len(dag)
    PROVE  /\ d \in History(dag, d)
           /\ \A p \in ToSet(dag[d].parents) : History(dag, p) \subseteq History(dag, d)
  <1> DEFINE H(c) == History(dag, c)
  <1>1. H(d) = {d} \cup UNION {H(p) : p \in ToSet(dag[d].parents)}
    BY HistoryStep
  <1> HIDE DEF H
  <1>2. d \in H(d) /\ \A p \in ToSet(dag[d].parents) : H(p) \subseteq H(d)
    BY <1>1
  <1> QED BY <1>2 DEF H

\* What a commit reaches reaches no more than the commit does.
LEMMA HistoryTransitive ==
    ASSUME NEW dag, Graph(dag), NEW c \in 0 .. Len(dag), NEW a, a \in History(dag, c), NEW x, x \in History(dag, a)
    PROVE  x \in History(dag, c)
  <1> DEFINE H(d) == History(dag, d)
             bad == {d \in 0 .. Len(dag) : ~\A y \in H(d) : H(y) \subseteq H(d)}
  <1>0. Len(dag) \in Nat
    BY DEF Graph
  <1>1. CASE bad = {}
    <2>1. \A d \in 0 .. Len(dag) : \A y \in H(d) : H(y) \subseteq H(d)
      BY <1>1
    <2> QED BY <2>1
  <1>2. CASE bad # {}
    <2>1. \E d \in bad : \A m \in bad : d <= m
      <3>1. bad \subseteq Nat
        BY <1>0
      <3> HIDE DEF bad
      <3> QED BY <1>2, <3>1, LeastNumber
    <2> PICK d \in bad : \A m \in bad : d <= m
      BY <2>1
    <2>2. d # 0
      BY HistoryStep
    <2>3. d \in 1 .. Len(dag)
      BY <1>0, <2>2
    <2>4. H(d) = {d} \cup UNION {H(p) : p \in ToSet(dag[d].parents)}
      BY <2>3, HistoryStep
    <2>5. ToSet(dag[d].parents) \subseteq 0 .. d - 1
      BY <2>3, ParentsAreBefore
    <2>6. ASSUME NEW y \in H(d) PROVE H(y) \subseteq H(d)
      <3>1. CASE y = d
        BY <3>1
      <3>2. CASE y # d
        <4>1. PICK p \in ToSet(dag[d].parents) : y \in H(p)
          <5> HIDE DEF H
          <5> QED BY <2>4, <3>2
        <4>2. p \in 0 .. Len(dag) /\ p \notin bad
          BY <1>0, <2>3, <2>5
        <4>3. H(y) \subseteq H(p)
          BY <4>1, <4>2
        <4>4. H(p) \subseteq H(d)
          BY <2>3, HistorySelf
        <4> QED BY <4>3, <4>4
      <3> QED BY <3>1, <3>2
    <2> QED BY <2>6
  <1> QED BY <1>1, <1>2

\* Commits that are made later do not change what a commit reaches.
Longer(a, b) == Len(a) <= Len(b) /\ \A i \in 1 .. Len(a) : b[i] = a[i]
LEMMA HistoryGrows ==
    ASSUME NEW a, NEW b, Graph(a), Graph(b), Longer(a, b), NEW c \in 0 .. Len(a)
    PROVE  History(b, c) = History(a, c)
  <1> DEFINE bad == {d \in 0 .. Len(a) : History(b, d) # History(a, d)}
  <1>0. Len(a) \in Nat /\ Len(b) \in Nat /\ Len(a) <= Len(b)
    BY DEF Graph, Longer
  <1>1. CASE bad = {}
    BY <1>1
  <1>2. CASE bad # {}
    <2>1. \E d \in bad : \A m \in bad : d <= m
      <3>1. bad \subseteq Nat
        BY <1>0
      <3> HIDE DEF bad
      <3> QED BY <1>2, <3>1, LeastNumber
    <2> PICK d \in bad : \A m \in bad : d <= m
      BY <2>1
    <2>2. d # 0
      BY HistoryStep
    <2>3. d \in 1 .. Len(a) /\ d \in 1 .. Len(b)
      BY <1>0, <2>2
    <2>4. ToSet(a[d].parents) \subseteq 0 .. d - 1 /\ a[d] = b[d]
      BY <2>3, ParentsAreBefore DEF Longer
    <2>5. \A p \in ToSet(a[d].parents) : History(b, p) = History(a, p)
      <3>1. ASSUME NEW p \in ToSet(a[d].parents) PROVE p \in 0 .. Len(a) /\ p \notin bad
        BY <1>0, <2>3, <2>4
      <3> QED BY <3>1
    <2>6. History(a, d) = {d} \cup UNION {History(a, p) : p \in ToSet(a[d].parents)}
      BY <2>3, HistoryStep
    <2>7. History(b, d) = {d} \cup UNION {History(b, p) : p \in ToSet(b[d].parents)}
      BY <2>3, HistoryStep
    <2>8. History(a, d) = History(b, d)
      <3> DEFINE A(p) == History(a, p)
                 B(p) == History(b, p)
                 ps == ToSet(a[d].parents)
      <3>1. (\A p \in ps : A(p) = B(p)) /\ A(d) = {d} \cup UNION {A(p) : p \in ps}
            /\ B(d) = {d} \cup UNION {B(p) : p \in ps}
        BY <2>4, <2>5, <2>6, <2>7
      <3> HIDE DEF A, B, ps
      <3>2. A(d) = B(d)
        BY <3>1
      <3> QED BY <3>2 DEF A, B
    <2> QED BY <2>8
  <1> QED BY <1>1, <1>2

-----------------------------------------------------------------------------
(* What every name names stays there: the parts of Grounded.               *)

LEMMA AppendGraph ==
    ASSUME NEW dag, Graph(dag), NEW parents \in Seq(0 .. Len(dag)), NEW tree
    PROVE  LET new == Append(dag, [parents |-> parents, tree |-> tree])
           IN  /\ Graph(new) /\ Longer(dag, new) /\ Len(new) = Len(dag) + 1
               /\ new[Len(dag) + 1].parents = parents
  <1> DEFINE e == [parents |-> parents, tree |-> tree]
             new == Append(dag, e)
             all == ToSet(dag) \cup {e}
  <1>1. dag \in Seq(ToSet(dag)) /\ Len(dag) \in Nat /\ DOMAIN dag = 1 .. Len(dag)
    BY DEF Graph
  <1>2. e.parents = parents
    OBVIOUS
  <1> HIDE DEF e
  <1>3. dag \in Seq(all)
    <2>1. ToSet(dag) \subseteq all
      OBVIOUS
    <2> HIDE DEF all
    <2>2. \A i \in 1 .. Len(dag) : dag[i] \in all
      BY <1>1, <2>1
    <2> QED BY <1>1, <2>2
  <1>4. new \in Seq(all) /\ Len(new) = Len(dag) + 1 /\ new[Len(dag) + 1] = e
        /\ \A i \in 1 .. Len(dag) : new[i] = dag[i]
    BY <1>1, <1>3
  <1> HIDE DEF all, new
  <1>5. DOMAIN new = 1 .. Len(new) /\ Len(new) \in Nat /\ new \in [1 .. Len(new) -> all]
    BY <1>4, LenProperties
  <1>6. new \in Seq(ToSet(new))
    <2>1. \A i \in 1 .. Len(new) : new[i] \in ToSet(new)
      BY <1>5 DEF ToSet
    <2> HIDE DEF all
    <2>2. new \in [1 .. Len(new) -> ToSet(new)]
      BY <1>5, <2>1
    <2> QED BY <1>5, <2>2, SeqDef
  <1>7. ASSUME NEW i \in DOMAIN new PROVE new[i].parents \in Seq(0 .. i - 1)
    <2>1. CASE i \in 1 .. Len(dag)
      BY <1>1, <1>4, <2>1 DEF Graph
    <2>2. CASE i \notin 1 .. Len(dag)
      <3>1. i = Len(dag) + 1
        BY <1>1, <1>4, <1>5, <2>2
      <3> QED BY <1>1, <1>2, <1>4, <3>1
    <2> QED BY <2>1, <2>2
  <1>8. Graph(new) /\ Longer(dag, new) /\ Len(new) = Len(dag) + 1 /\ new[Len(dag) + 1].parents = parents
    BY <1>1, <1>2, <1>4, <1>6, <1>7 DEF Graph, Longer
  <1> QED BY <1>8 DEF new, e

LEMMA LongerIds ==
    ASSUME NEW r, NEW s, Graph(r.dag), Graph(s.dag), Longer(r.dag, s.dag)
    PROVE  Ids(r) \subseteq Ids(s)
  BY DEF Ids, Graph, Longer

LEMMA LongerSelf ==
    ASSUME NEW dag, Graph(dag)
    PROVE  Longer(dag, dag)
  BY DEF Graph, Longer

Same(r, s, fields) == \A f \in fields : s[f] = r[f]
NameFields == {"refs", "tags", "annotated", "tracking", "upstream"}
Firm == NameFields \cup {"dag", "head", "op", "stash"}

LEMMA NamesStay ==
    ASSUME NEW r, NEW s, RefsOK(r), Ids(r) \subseteq Ids(s), Same(r, s, NameFields)
    PROVE  RefsOK(s)
  <1>1. s.refs = r.refs /\ s.tags = r.tags /\ s.annotated = r.annotated /\ s.tracking = r.tracking
        /\ s.upstream = r.upstream
    BY DEF Same, NameFields
  <1>2. s.refs \in [Branches -> Ids(s)] /\ s.tags \in [Tags -> Ids(s)] /\ s.annotated \subseteq Tags
    BY <1>1 DEF RefsOK
  <1>3. s.tracking \in [Remotes -> [Branches -> Ids(s)]]
    <2>1. r.tracking \in [Remotes -> [Branches -> Ids(r)]]
      BY DEF RefsOK
    <2>2. [Branches -> Ids(r)] \subseteq [Branches -> Ids(s)]
      OBVIOUS
    <2> QED BY <1>1, <2>1, <2>2
  <1> QED BY <1>1, <1>2, <1>3 DEF RefsOK

LEMMA HeadStays ==
    ASSUME NEW r, NEW s, HeadOK(r), Ids(r) \subseteq Ids(s), s.head = r.head
    PROVE  HeadOK(s)
  BY DEF HeadOK

LEMMA StateStays ==
    ASSUME NEW r, NEW s, StateOK(r), Ids(r) \subseteq Ids(s), s.stash = r.stash, s.op = r.op
    PROVE  StateOK(s)
  BY DEF StateOK

LEMMA GroundedStays ==
    ASSUME NEW r, NEW s, Grounded(r), Same(r, s, Firm)
    PROVE  Grounded(s) /\ Longer(r.dag, s.dag) /\ s.refs = r.refs
  <1>1. s.dag = r.dag /\ s.head = r.head /\ s.op = r.op /\ s.stash = r.stash /\ Same(r, s, NameFields)
        /\ s.refs = r.refs
    BY DEF Same, Firm, NameFields
  <1>2. Ids(s) = Ids(r)
    BY <1>1 DEF Ids
  <1>3. RefsOK(s) /\ HeadOK(s) /\ StateOK(s)
    BY <1>1, <1>2, NamesStay, HeadStays, StateStays DEF Grounded
  <1> QED BY <1>1, <1>3, LongerSelf DEF Grounded

LEMMA HeadTyped ==
    ASSUME NEW r, Grounded(r)
    PROVE  HeadCommit(r) \in Ids(r) /\ Ids(r) \subseteq Nat /\ 0 \in Ids(r) /\ Len(r.dag) \in Nat
  <1>1. Len(r.dag) \in Nat
    BY DEF Grounded, Graph
  <1>2. HeadCommit(r) \in Ids(r)
    BY DEF Grounded, HeadOK, RefsOK, HeadCommit
  <1> QED BY <1>1, <1>2 DEF Ids

LEMMA FirstIs ==
    ASSUME NEW S, NEW list \in Seq(S), list # <<>>
    PROVE  list[1] \in S /\ Tail(list) \in Seq(S) /\ Len(list) \in Nat \ {0}
  OBVIOUS

LEMMA ParentTyped ==
    ASSUME NEW r, Grounded(r), NEW c \in Ids(r), c # 0, r.dag[c].parents # <<>>
    PROVE  r.dag[c].parents[1] \in Ids(r)
  <1>1. c \in 1 .. Len(r.dag) /\ Len(r.dag) \in Nat /\ Graph(r.dag)
    BY HeadTyped DEF Ids, Grounded
  <1>2. r.dag[c].parents \in Seq(0 .. c - 1)
    BY <1>1, ParentsAreBefore
  <1>3. r.dag[c].parents[1] \in 0 .. c - 1
    BY <1>2, FirstIs
  <1> QED BY <1>1, <1>3 DEF Ids

LEMMA Resolved ==
    ASSUME NEW r, Grounded(r), NEW rev
    PROVE  Resolve(r, rev) \in Ids(r)
  <1> DEFINE named == {k \in DOMAIN TrackingName : TrackingName[k] = rev}
             k == CHOOSE k \in named : TRUE
  <1>1. 0 \in Ids(r) /\ HeadCommit(r) \in Ids(r)
    BY HeadTyped
  <1>2. (HeadCommit(r) # 0 /\ r.dag[HeadCommit(r)].parents # <<>>) => r.dag[HeadCommit(r)].parents[1] \in Ids(r)
    BY <1>1, ParentTyped
  <1>3. (rev \in Branches => r.refs[rev] \in Ids(r)) /\ (rev \in Tags => r.tags[rev] \in Ids(r))
    BY DEF Grounded, RefsOK
  <1>4. (IF named = {} THEN 0 ELSE r.tracking[k[1]][k[2]]) \in Ids(r)
    <2>1. named # {} => k \in Remotes \X Branches
      BY GitAssumption
    <2> HIDE DEF k
    <2>2. named # {} => r.tracking[k[1]][k[2]] \in Ids(r)
      BY <2>1 DEF Grounded, RefsOK
    <2> QED BY <1>1, <2>2
  <1> QED BY <1>1, <1>2, <1>3, <1>4 DEF Resolve

\* Writing the index and the files moves no name.
LEMMA WriteFirm ==
    ASSUME NEW r, Is(r, RepoFields), NEW a, NEW b, NEW ps
    PROVE  /\ Same(r, Write(r, a, ps), Firm) /\ Same(r, SafeCheckout(r, a, b), Firm)
           /\ Same(r, ForceCheckout(r, a, ps), Firm) /\ Same(r, Apply(r, a, b), Firm)
  <1>1. \A tree, qs : Same(r, Write(r, tree, qs), Firm)
    BY DEF Write, Same, Firm, NameFields, Is, RepoFields
  <1> QED BY <1>1 DEF SafeCheckout, ForceCheckout, Apply

LEMMA MoveHeadGrounded ==
    ASSUME NEW r, Is(r, RepoFields), Grounded(r), NEW c \in Ids(r)
    PROVE  LET s == MoveHead(r, c)
           IN  /\ Grounded(s) /\ Same(r, s, Firm \ {"refs", "head"})
               /\ \A b \in Branches : s.refs[b] = IF b = r.head.branch THEN c ELSE r.refs[b]
  <1> DEFINE s == MoveHead(r, c)
  <1>1. /\ r.refs \in [Branches -> Ids(r)] /\ Is(r.head, {"branch", "at"})
        /\ r.head.branch \in Branches \cup {""} /\ r.head.at \in Ids(r) /\ "" \notin Branches
    BY GitAssumption DEF Grounded, RefsOK, HeadOK
  <1>2. CASE r.head.branch # ""
    <2>1. s = [r EXCEPT !.refs = [r.refs EXCEPT ![r.head.branch] = c]]
      BY <1>2 DEF MoveHead
    <2> HIDE DEF s
    <2>2. s.refs = [r.refs EXCEPT ![r.head.branch] = c] /\ Same(r, s, Firm \ {"refs"}) /\ s.head = r.head
          /\ s.dag = r.dag /\ s.tags = r.tags /\ s.annotated = r.annotated /\ s.tracking = r.tracking
          /\ s.upstream = r.upstream /\ s.stash = r.stash /\ s.op = r.op
      BY <2>1 DEF Is, RepoFields, Same, Firm, NameFields
    <2>3. Ids(s) = Ids(r)
      BY <2>2 DEF Ids
    <2>4. s.refs \in [Branches -> Ids(s)]
      BY <1>1, <2>2, <2>3
    <2>5. RefsOK(s)
      BY <2>2, <2>3, <2>4 DEF Grounded, RefsOK
    <2>6. Grounded(s)
      BY <2>2, <2>3, <2>5, HeadStays, StateStays DEF Grounded
    <2>7. \A b \in Branches : s.refs[b] = IF b = r.head.branch THEN c ELSE r.refs[b]
      BY <1>1, <2>2
    <2>8. Same(r, s, Firm \ {"refs", "head"})
      BY <2>2 DEF Same
    <2> QED BY <2>6, <2>7, <2>8 DEF s
  <1>3. CASE r.head.branch = ""
    <2>1. s = [r EXCEPT !.head = [r.head EXCEPT !.at = c]]
      BY <1>3 DEF MoveHead
    <2> HIDE DEF s
    <2>2. s.head = [r.head EXCEPT !.at = c] /\ Same(r, s, Firm \ {"head"}) /\ Same(r, s, NameFields)
          /\ s.refs = r.refs /\ s.dag = r.dag /\ s.stash = r.stash /\ s.op = r.op
      BY <2>1 DEF Is, RepoFields, Same, Firm, NameFields
    <2>3. Ids(s) = Ids(r)
      BY <2>2 DEF Ids
    <2>4. Is(s.head, {"branch", "at"}) /\ s.head.branch = r.head.branch /\ s.head.at = c
      BY <1>1, <2>2 DEF Is
    <2>5. HeadOK(s)
      BY <1>1, <2>3, <2>4 DEF HeadOK
    <2>6. Grounded(s)
      BY <2>2, <2>3, <2>5, NamesStay, StateStays DEF Grounded
    <2>7. \A b \in Branches : s.refs[b] = IF b = r.head.branch THEN c ELSE r.refs[b]
      BY <1>1, <1>3, <2>2
    <2>8. Same(r, s, Firm \ {"refs", "head"})
      BY <2>2 DEF Same
    <2> QED BY <2>6, <2>7, <2>8 DEF s
  <1> QED BY <1>2, <1>3

\* A branch that r has reaches in s what it reached.
Onward(r, s) == \A b \in Branches : r.refs[b] # 0 => Reaches(s, s.refs[b], r.refs[b])

LEMMA OnwardSame ==
    ASSUME NEW r, NEW s, Grounded(r), Graph(s.dag), Longer(r.dag, s.dag), \A b \in Branches : s.refs[b] = r.refs[b]
    PROVE  Onward(r, s)
  <1> SUFFICES ASSUME NEW b \in Branches, r.refs[b] # 0
               PROVE  Reaches(s, s.refs[b], r.refs[b])
    BY DEF Onward
  <1>1. r.refs[b] \in Ids(r) /\ Ids(r) \subseteq Ids(s) /\ Ids(r) \subseteq Nat
    BY LongerIds, HeadTyped DEF Grounded, RefsOK
  <1>2. s.refs[b] \in 1 .. Len(s.dag) /\ s.refs[b] = r.refs[b]
    BY <1>1 DEF Ids
  <1> QED BY <1>2, HistorySelf DEF Reaches

LEMMA OnwardTwice ==
    ASSUME NEW a, NEW r, NEW s, Onward(a, r), Onward(r, s), Grounded(r), Grounded(s), Longer(r.dag, s.dag)
    PROVE  Onward(a, s)
  <1> SUFFICES ASSUME NEW b \in Branches, a.refs[b] # 0
               PROVE  Reaches(s, s.refs[b], a.refs[b])
    BY DEF Onward
  <1>1. a.refs[b] \in History(r.dag, r.refs[b]) /\ r.refs[b] \in Ids(r)
    BY DEF Onward, Reaches, Grounded, RefsOK
  <1>2. r.refs[b] # 0
    BY <1>1, HistoryStep DEF Grounded
  <1>3. r.refs[b] \in History(s.dag, s.refs[b]) /\ s.refs[b] \in Ids(s)
    BY <1>2 DEF Onward, Reaches, Grounded, RefsOK
  <1>4. a.refs[b] \in History(s.dag, r.refs[b])
    BY <1>1, HistoryGrows DEF Grounded, Ids
  <1> QED BY <1>3, <1>4, HistoryTransitive DEF Reaches, Grounded, Ids

\* HEAD moves to a commit that reaches the one it was at.
LEMMA MoveHeadOnward ==
    ASSUME NEW r, Is(r, RepoFields), Grounded(r), NEW c \in Ids(r),
           HeadCommit(r) # 0 => Reaches(r, c, HeadCommit(r))
    PROVE  Onward(r, MoveHead(r, c))
  <1> DEFINE s == MoveHead(r, c)
  <1>1. s.dag = r.dag /\ \A b \in Branches : s.refs[b] = IF b = r.head.branch THEN c ELSE r.refs[b]
    BY MoveHeadGrounded DEF Same, Firm, NameFields
  <1> HIDE DEF s
  <1>2. ASSUME NEW b \in Branches, r.refs[b] # 0
        PROVE  Reaches(s, s.refs[b], r.refs[b])
    <2>1. CASE b = r.head.branch
      <3>1. HeadCommit(r) = r.refs[b]
        BY <2>1, GitAssumption DEF HeadCommit
      <3> QED BY <1>1, <1>2, <2>1, <3>1 DEF Reaches
    <2>2. CASE b # r.head.branch
      <3>1. r.refs[b] \in 1 .. Len(r.dag)
        BY <1>2 DEF Grounded, RefsOK, Graph, Ids
      <3> QED BY <1>1, <2>2, <3>1, HistorySelf DEF Reaches, Grounded
    <2> QED BY <2>1, <2>2
  <1> QED BY <1>2 DEF Onward, s

\* One more commit, and nothing moves yet.
LEMMA ObjectGrounded ==
    ASSUME NEW r, Is(r, RepoFields), Grounded(r), NEW parents \in Seq(Ids(r)), NEW tree
    PROVE  LET s == [r EXCEPT !.dag = Append(@, [parents |-> parents, tree |-> tree])]
           IN  /\ Is(s, RepoFields) /\ Grounded(s) /\ Longer(r.dag, s.dag) /\ Onward(r, s)
               /\ Same(r, s, Firm \ {"dag"}) /\ Len(s.dag) = Len(r.dag) + 1
               /\ s.dag[Len(r.dag) + 1].parents = parents /\ Ids(r) \subseteq Ids(s) /\ Len(r.dag) + 1 \in Ids(s)
  <1> DEFINE new == Append(r.dag, [parents |-> parents, tree |-> tree])
             s == [r EXCEPT !.dag = new]
  <1>1. Graph(new) /\ Longer(r.dag, new) /\ Len(new) = Len(r.dag) + 1 /\ new[Len(r.dag) + 1].parents = parents
    BY AppendGraph DEF Grounded, Ids
  <1> HIDE DEF new
  <1>2. Is(s, RepoFields) /\ s.dag = new /\ Same(r, s, Firm \ {"dag"}) /\ Same(r, s, NameFields)
        /\ s.head = r.head /\ s.stash = r.stash /\ s.op = r.op /\ s.refs = r.refs
    BY DEF Is, RepoFields, Same, Firm, NameFields
  <1> HIDE DEF s
  <1>3. Ids(r) \subseteq Ids(s) /\ Len(r.dag) \in Nat /\ Len(r.dag) + 1 \in Ids(s)
    BY <1>1, <1>2, LongerIds, HeadTyped DEF Grounded, Ids
  <1>4. Grounded(s)
    BY <1>1, <1>2, <1>3, NamesStay, HeadStays, StateStays DEF Grounded
  <1>5. Onward(r, s)
    BY <1>1, <1>2, OnwardSame
  <1> QED BY <1>1, <1>2, <1>3, <1>4, <1>5 DEF s, new

LEMMA CommitTreeGrounded ==
    ASSUME NEW r, Is(r, RepoFields), Grounded(r), NEW parents \in Seq(Ids(r)), NEW tree
    PROVE  LET s == CommitTree(r, tree, parents)
           IN  /\ Grounded(s) /\ Longer(r.dag, s.dag)
               /\ (HeadCommit(r) # 0 => HeadCommit(r) \in ToSet(parents)) => Onward(r, s)
  <1> DEFINE o == [r EXCEPT !.dag = Append(@, [parents |-> parents, tree |-> tree])]
             n == Len(r.dag) + 1
             s == MoveHead(o, n)
  <1>1. /\ Is(o, RepoFields) /\ Grounded(o) /\ Longer(r.dag, o.dag) /\ Onward(r, o)
        /\ Same(r, o, Firm \ {"dag"}) /\ Len(o.dag) = Len(r.dag) + 1
        /\ o.dag[n].parents = parents /\ n \in Ids(o)
    BY ObjectGrounded
  <1> HIDE DEF o
  <1>2. Grounded(s) /\ s.dag = o.dag
    BY <1>1, MoveHeadGrounded DEF Same, Firm, NameFields
  <1>3. ASSUME HeadCommit(r) # 0 => HeadCommit(r) \in ToSet(parents)
        PROVE  Onward(r, s)
    <2>1. HeadCommit(o) = HeadCommit(r)
      BY <1>1 DEF HeadCommit, Same, Firm, NameFields
    <2>2. n \in 1 .. Len(o.dag) /\ HeadCommit(r) \in Ids(r) /\ Len(r.dag) \in Nat
      BY <1>1, HeadTyped
    <2>3. HeadCommit(r) # 0 => Reaches(o, n, HeadCommit(o))
      <3> SUFFICES ASSUME HeadCommit(r) # 0 PROVE Reaches(o, n, HeadCommit(o))
        OBVIOUS
      <3>1. HeadCommit(r) \in 1 .. Len(o.dag)
        BY <1>1, <2>2 DEF Ids
      <3>2. HeadCommit(r) \in History(o.dag, HeadCommit(r))
        BY <1>1, <3>1, HistorySelf DEF Grounded
      <3>3. History(o.dag, HeadCommit(r)) \subseteq History(o.dag, n)
        BY <1>1, <1>3, <2>2, HistorySelf DEF Grounded
      <3> QED BY <2>1, <3>2, <3>3 DEF Reaches
    <2>4. Onward(o, s)
      BY <1>1, <2>1, <2>3, MoveHeadOnward
    <2> QED BY <1>1, <1>2, <2>4, OnwardTwice, LongerSelf DEF Grounded
  <1>4. Longer(r.dag, s.dag)
    BY <1>1, <1>2
  <1> QED BY <1>2, <1>3, <1>4 DEF s, o, n, CommitTree

LEMMA NoOperationIs ==
    Is(NoOperation, {"kind", "commit", "todo", "branch", "orig"}) /\ NoOperation.branch = "" /\ NoOperation.orig = 0
  BY DEF NoOperation, Is

\* The operation is forgotten.
LEMMA ForgetGrounded ==
    ASSUME NEW r, NEW s, Grounded(r), Same(r, s, Firm \ {"op"}), s.op = NoOperation
    PROVE  Grounded(s) /\ Longer(r.dag, s.dag) /\ s.refs = r.refs /\ s.dag = r.dag
  <1>1. Same(r, s, NameFields) /\ s.dag = r.dag /\ s.head = r.head /\ s.stash = r.stash /\ s.refs = r.refs
    BY DEF Same, Firm, NameFields
  <1>2. Ids(s) = Ids(r) /\ 0 \in Ids(r)
    BY <1>1, HeadTyped DEF Ids
  <1>3. StateOK(s)
    BY <1>1, <1>2, NoOperationIs DEF StateOK, Grounded
  <1>4. Grounded(s)
    BY <1>1, <1>2, <1>3, NamesStay, HeadStays DEF Grounded
  <1> QED BY <1>1, <1>4, LongerSelf DEF Grounded

LEMMA CleanupGrounded ==
    ASSUME NEW r, Is(r, RepoFields), Grounded(r)
    PROVE  /\ Grounded(Cleanup(r)) /\ Longer(r.dag, Cleanup(r).dag) /\ Cleanup(r).refs = r.refs
           /\ Cleanup(r).dag = r.dag
  <1>1. Same(r, Cleanup(r), Firm \ {"op"}) /\ Cleanup(r).op = NoOperation
    BY DEF Is, RepoFields, Same, Firm, NameFields, Cleanup
  <1> QED BY <1>1, ForgetGrounded

\* An operation of libgit2 begins: what it will need to give the branch back is known.
LEMMA OperationGrounded ==
    ASSUME NEW r, NEW s, Grounded(r), Same(r, s, Firm \ {"op"}), NEW kind, NEW c, s.op = Operation(kind, c)
    PROVE  Grounded(s) /\ Longer(r.dag, s.dag) /\ s.refs = r.refs /\ HeadCommit(s) = HeadCommit(r)
  <1>1. Same(r, s, NameFields) /\ s.dag = r.dag /\ s.head = r.head /\ s.stash = r.stash /\ s.refs = r.refs
    BY DEF Same, Firm, NameFields
  <1>2. Ids(s) = Ids(r) /\ 0 \in Ids(r)
    BY <1>1, HeadTyped DEF Ids
  <1>3. Is(s.op, {"kind", "commit", "todo", "branch", "orig"}) /\ s.op.branch = "" /\ s.op.orig = 0
    BY DEF Operation, NoOperation, Is
  <1>4. StateOK(s)
    BY <1>1, <1>2, <1>3 DEF StateOK, Grounded
  <1>5. Grounded(s)
    BY <1>1, <1>2, <1>4, NamesStay, HeadStays DEF Grounded
  <1>6. HeadCommit(s) = HeadCommit(r)
    BY <1>1 DEF HeadCommit
  <1> QED BY <1>1, <1>5, <1>6, LongerSelf DEF Grounded

LEMMA ResetGrounded ==
    ASSUME NEW r, Is(r, RepoFields), Grounded(r), NEW c \in Ids(r)
    PROVE  \A s \in {ResetHard(r, c), ResetMixed(r, c), ResetSoft(r, c)} :
               /\ Grounded(s) /\ Longer(r.dag, s.dag)
               /\ \A b \in Branches : s.refs[b] = IF b = r.head.branch THEN c ELSE r.refs[b]
  <1>1. ASSUME NEW m, NEW s, Grounded(m), m.dag = r.dag, Same(m, s, Firm \ {"op"}), s.op = NoOperation,
               \A b \in Branches : m.refs[b] = IF b = r.head.branch THEN c ELSE r.refs[b]
        PROVE  Grounded(s) /\ Longer(r.dag, s.dag)
               /\ \A b \in Branches : s.refs[b] = IF b = r.head.branch THEN c ELSE r.refs[b]
    <2>1. Grounded(s) /\ Longer(m.dag, s.dag) /\ s.refs = m.refs
      BY <1>1, ForgetGrounded
    <2> QED BY <1>1, <2>1
  <1>2. /\ Grounded(MoveHead(r, c)) /\ MoveHead(r, c).dag = r.dag /\ Is(MoveHead(r, c), RepoFields)
        /\ \A b \in Branches : MoveHead(r, c).refs[b] = IF b = r.head.branch THEN c ELSE r.refs[b]
    BY MoveHeadGrounded, MoveHeadIs DEF Same, Firm, NameFields
  <1>3. /\ Grounded(ResetHard(r, c)) /\ Longer(r.dag, ResetHard(r, c).dag)
        /\ \A b \in Branches : ResetHard(r, c).refs[b] = IF b = r.head.branch THEN c ELSE r.refs[b]
    <2> DEFINE f == ForceCheckout(r, TreeOf(r, c), Paths)
               m == MoveHead(f, c)
               s == [m EXCEPT !.index = TreeOf(r, c), !.op = NoOperation]
    <2>1. Is(f, RepoFields) /\ Same(r, f, Firm)
      BY CheckoutIs, WriteFirm
    <2> HIDE DEF f
    <2>2. Grounded(f) /\ f.dag = r.dag /\ f.head = r.head /\ f.refs = r.refs /\ Ids(f) = Ids(r)
      BY <2>1, GroundedStays DEF Same, Firm, Ids
    <2>3. Grounded(m) /\ m.dag = f.dag /\ Is(m, RepoFields)
          /\ \A b \in Branches : m.refs[b] = IF b = f.head.branch THEN c ELSE f.refs[b]
      BY <2>1, <2>2, MoveHeadGrounded, MoveHeadIs DEF Same, Firm, NameFields
    <2> HIDE DEF m
    <2>4. Same(m, s, Firm \ {"op"}) /\ s.op = NoOperation
      BY <2>3 DEF Is, RepoFields, Same, Firm, NameFields
    <2> HIDE DEF s
    <2>5. Grounded(s) /\ Longer(r.dag, s.dag)
          /\ \A b \in Branches : s.refs[b] = IF b = r.head.branch THEN c ELSE r.refs[b]
      BY <1>1, <2>2, <2>3, <2>4
    <2>6. s = ResetHard(r, c)
      BY DEF s, m, f, ResetHard
    <2> QED BY <2>5, <2>6
  <1>4. /\ Grounded(ResetMixed(r, c)) /\ Longer(r.dag, ResetMixed(r, c).dag)
        /\ \A b \in Branches : ResetMixed(r, c).refs[b] = IF b = r.head.branch THEN c ELSE r.refs[b]
    <2> DEFINE m == MoveHead(r, c)
               s == [m EXCEPT !.index = TreeOf(r, c), !.op = NoOperation]
    <2> HIDE DEF m
    <2>1. Is(m, RepoFields)
      BY <1>2 DEF m
    <2>4. Same(m, s, Firm \ {"op"}) /\ s.op = NoOperation
      BY <2>1 DEF Is, RepoFields, Same, Firm, NameFields
    <2> HIDE DEF s
    <2>5. Grounded(s) /\ Longer(r.dag, s.dag)
          /\ \A b \in Branches : s.refs[b] = IF b = r.head.branch THEN c ELSE r.refs[b]
      BY <1>1, <1>2, <2>4 DEF m
    <2>6. s = ResetMixed(r, c)
      BY DEF s, m, ResetMixed
    <2> QED BY <2>5, <2>6
  <1>5. Grounded(ResetSoft(r, c)) /\ Longer(r.dag, ResetSoft(r, c).dag)
        /\ \A b \in Branches : ResetSoft(r, c).refs[b] = IF b = r.head.branch THEN c ELSE r.refs[b]
    BY <1>2, LongerSelf DEF ResetSoft, Grounded
  <1> QED BY <1>3, <1>4, <1>5

LEMMA ResetPathsFirm ==
    ASSUME NEW r, Is(r, RepoFields), NEW c, NEW ps
    PROVE  Same(r, ResetPaths(r, c, ps), Firm)
  BY DEF ResetPaths, Same, Firm, NameFields, Is, RepoFields

LEMMA SeqMono ==
    ASSUME NEW S, NEW T, S \subseteq T
    PROVE  Seq(S) \subseteq Seq(T)
  OBVIOUS

LEMMA SeqOfItself ==
    ASSUME NEW S, NEW list \in Seq(S)
    PROVE  list \in Seq(ToSet(list))
  <1>1. DOMAIN list = 1 .. Len(list) /\ Len(list) \in Nat /\ list \in [1 .. Len(list) -> S]
    BY LenProperties
  <1>2. \A i \in 1 .. Len(list) : list[i] \in ToSet(list)
    BY <1>1 DEF ToSet
  <1>3. list \in [1 .. Len(list) -> ToSet(list)]
    BY <1>1, <1>2
  <1> QED BY <1>1, <1>3, SeqDef

LEMMA StashGrounded ==
    ASSUME NEW r, NEW s, Grounded(r), Same(r, s, Firm \ {"stash"}),
           NEW S, s.stash \in Seq(S), \A e \in S : e.base \in Ids(r)
    PROVE  Grounded(s) /\ Longer(r.dag, s.dag) /\ s.refs = r.refs /\ s.dag = r.dag
  <1>1. Same(r, s, NameFields) /\ s.dag = r.dag /\ s.head = r.head /\ s.op = r.op /\ s.refs = r.refs
    BY DEF Same, Firm, NameFields
  <1>2. Ids(s) = Ids(r)
    BY <1>1 DEF Ids
  <1>3. s.stash \in Seq(ToSet(s.stash))
    BY SeqOfItself
  <1>4. \A i \in DOMAIN s.stash : s.stash[i] \in S
    BY LenProperties
  <1>5. StateOK(s)
    BY <1>1, <1>2, <1>3, <1>4 DEF StateOK, Grounded
  <1>6. Grounded(s)
    BY <1>1, <1>2, <1>5, NamesStay, HeadStays DEF Grounded
  <1> QED BY <1>1, <1>6, LongerSelf DEF Grounded

Entries(r) == {e \in ToSet(r.stash) : e.base \in Ids(r)}
LEMMA StashEntries ==
    ASSUME NEW r, Grounded(r)
    PROVE  /\ r.stash \in Seq(Entries(r)) /\ \A e \in Entries(r) : e.base \in Ids(r)
           /\ r.stash # <<>> => r.stash[1].base \in Ids(r) /\ Tail(r.stash) \in Seq(Entries(r))
  <1>1. r.stash \in Seq(ToSet(r.stash)) /\ \A i \in DOMAIN r.stash : r.stash[i].base \in Ids(r)
    BY DEF Grounded, StateOK
  <1>2. DOMAIN r.stash = 1 .. Len(r.stash) /\ Len(r.stash) \in Nat
    BY <1>1, LenProperties
  <1>3. \A i \in 1 .. Len(r.stash) : r.stash[i] \in Entries(r)
    BY <1>1, <1>2 DEF Entries, ToSet
  <1>4. r.stash \in [1 .. Len(r.stash) -> Entries(r)]
    BY <1>1, <1>2, <1>3, LenProperties
  <1>5. r.stash \in Seq(Entries(r))
    BY <1>2, <1>4, SeqDef
  <1>6. \A e \in Entries(r) : e.base \in Ids(r)
    BY DEF Entries
  <1> QED BY <1>5, <1>6, FirstIs

LEMMA StashSaveGrounded ==
    ASSUME NEW r, Is(r, RepoFields), Grounded(r), NEW x, NEW y
    PROVE  LET s == StashSave(r, x, y) IN Grounded(s) /\ Longer(r.dag, s.dag) /\ s.refs = r.refs
  <1> DEFINE s == StashSave(r, x, y)
             e == StashEntry(r, x)
             S == Entries(r) \cup {e}
  <1>1. Same(r, s, Firm \ {"stash"}) /\ s.stash = <<e>> \o r.stash
    BY DEF StashSave, Same, Firm, NameFields, Is, RepoFields
  <1>2. e.base = HeadCommit(r)
    BY DEF StashEntry
  <1> HIDE DEF e, s
  <1>3. r.stash \in Seq(Entries(r)) /\ \A d \in S : d.base \in Ids(r)
    BY <1>2, StashEntries, HeadTyped
  <1>4. r.stash \in Seq(S) /\ <<e>> \in Seq(S)
    <2>1. Entries(r) \subseteq S /\ e \in S
      OBVIOUS
    <2> HIDE DEF S
    <2>2. Seq(Entries(r)) \subseteq Seq(S)
      BY <2>1
    <2> QED BY <1>3, <2>1, <2>2
  <1> HIDE DEF S
  <1>5. s.stash \in Seq(S)
    BY <1>1, <1>4
  <1> QED BY <1>1, <1>3, <1>5, StashGrounded DEF s

LEMMA StashTailGrounded ==
    ASSUME NEW r, Is(r, RepoFields), Grounded(r), r.stash # <<>>
    PROVE  LET s == [r EXCEPT !.stash = Tail(@)] IN Grounded(s) /\ Longer(r.dag, s.dag) /\ s.refs = r.refs
  <1> DEFINE s == [r EXCEPT !.stash = Tail(r.stash)]
  <1>1. Same(r, s, Firm \ {"stash"}) /\ s.stash = Tail(r.stash)
    BY DEF Same, Firm, NameFields, Is, RepoFields
  <1>2. Tail(r.stash) \in Seq(Entries(r)) /\ \A d \in Entries(r) : d.base \in Ids(r)
    BY StashEntries
  <1> HIDE DEF s
  <1>3. Grounded(s) /\ Longer(r.dag, s.dag) /\ s.refs = r.refs
    BY <1>1, <1>2, StashGrounded
  <1> QED BY <1>3 DEF s

LEMMA StashApplyFirm ==
    ASSUME NEW r, Is(r, RepoFields), NEW e, NEW x
    PROVE  Same(r, StashApply(r, e, x), Firm)
  <1> DEFINE result == Merged(TreeOf(r, e.base), r.index, e.files)
             m == SafeCheckout(r, r.index, result)
  <1>1. Same(r, m, Firm) /\ Is(m, RepoFields)
    BY WriteFirm, CheckoutIs
  <1> HIDE DEF result, m
  <1>2. \A i : Same(r, [m EXCEPT !.index = i], Firm)
    BY <1>1 DEF Same, Firm, NameFields, Is, RepoFields
  <1>3. \E i : StashApply(r, e, x) = [m EXCEPT !.index = i]
    BY DEF StashApply, result, m
  <1> QED BY <1>2, <1>3

LEMMA DownloadedGrounded ==
    ASSUME NEW r, Is(r, RepoFields), Grounded(r), Serves(server, r), NEW remote, NEW ps, NEW prune, NEW tags
    PROVE  LET s == Downloaded(r, remote, ps, prune, tags)
           IN  Grounded(s) /\ Longer(r.dag, s.dag) /\ s.refs = r.refs /\ s.dag = r.dag /\ s.head = r.head
  <1> DEFINE s == Downloaded(r, remote, ps, prune, tags)
             new == [b \in Branches |-> IF b \in ps /\ (server.refs[b] # 0 \/ prune)
                                        THEN server.refs[b] ELSE r.tracking[remote][b]]
             come == {t \in Tags : r.tags[t] = 0 /\ (tags = "all" \/ (tags = "auto" /\ server.tags[t] \in
                                   UNION {History(r.dag, server.refs[b]) : b \in ps}))}
             now == [t \in Tags |-> IF t \in come THEN server.tags[t] ELSE r.tags[t]]
  <1>1. /\ server.refs \in [Branches -> Ids(r)] /\ server.tags \in [Tags -> Ids(r)]
        /\ r.tags \in [Tags -> Ids(r)] /\ r.tracking \in [Remotes -> [Branches -> Ids(r)]]
    BY DEF Serves, Grounded, RefsOK
  <1>2. /\ Same(r, s, Firm \ {"tags", "tracking"}) /\ s.tags = now
        /\ s.tracking = [r.tracking EXCEPT ![remote] = new]
    BY DEF Downloaded, Same, Firm, NameFields, Is, RepoFields
  <1>3. now \in [Tags -> Ids(r)]
    BY <1>1
  <1>4. remote \in Remotes => new \in [Branches -> Ids(r)]
    BY <1>1
  <1> HIDE DEF s, new, now, come
  <1>5. s.tracking \in [Remotes -> [Branches -> Ids(r)]]
    BY <1>1, <1>2, <1>4
  <1>6. s.dag = r.dag /\ s.head = r.head /\ s.op = r.op /\ s.stash = r.stash /\ s.refs = r.refs
        /\ s.annotated = r.annotated /\ s.upstream = r.upstream
    BY <1>2 DEF Same, Firm, NameFields
  <1>7. Ids(s) = Ids(r)
    BY <1>6 DEF Ids
  <1>8. RefsOK(s)
    BY <1>2, <1>3, <1>5, <1>6, <1>7 DEF RefsOK, Grounded
  <1>9. Grounded(s)
    BY <1>6, <1>7, <1>8, HeadStays, StateStays DEF Grounded
  <1> QED BY <1>6, <1>9, LongerSelf DEF s, Grounded

-----------------------------------------------------------------------------
(* The invariant behind the history that is kept: every name names         *)
(* something, the process remembers what it found out about the history as *)
(* long as it relies on it, and so far every branch reaches what it did    *)
(* when the command began.                                                 *)

PushTo == IF cmd.request.to = "" THEN "origin" ELSE cmd.request.to
PickPlaces == {"start", "apply", "index", "commit", "cleanup", "reset", "exit"}
StashPlaces == {"branch", "stash_head", "stash_checkout", "apply", "drop"}
Remembered ==
    /\ Named(cmd.request)
    /\ IF IsOne(Picks) THEN cmd.pc \in PickPlaces ELSE cmd.commit \in Ids(repo)
    /\ cmd.pc = "set_head" => cmd.request.rev \in Branches \cup {""}
    /\ cmd.pc \in {"message", "create"} /\ Has("amend") => HeadCommit(repo) # 0
    /\ cmd.pc = "pull_forward" \/ At("merge", "forward") => Reaches(repo, cmd.commit, HeadCommit(repo))
    /\ Command("stash") /\ cmd.pc \in StashPlaces => repo.stash # <<>>
    /\ cmd.pc = "pull_fetch" => cmd.specs[1] \in Remotes /\ cmd.specs[2] \in Branches
    /\ cmd.pc \in {"pull_forward", "pull_merge", "pull_commit"} => cmd.at = HeadCommit(repo)
    /\ cmd.pc \in {"push_connect", "push_update"} =>
           \A i \in DOMAIN cmd.specs : cmd.specs[i].to \in Ids(repo)
    /\ cmd.pc = "push_update" =>
           \A i \in DOMAIN cmd.specs : /\ Forward(cmd.specs[i], cmd.seen[i])
                                       /\ ~Has("delete") => cmd.specs[i].to # 0
    /\ cmd.pc = "push_tips" /\ PushTo \in Remotes => cmd.index \in [Fetched(repo, PushTo) -> Ids(repo)]
\* The places of which Remembered says more than of all the others.
Watched == StashPlaces \cup {"set_head", "message", "create", "forward", "pull_fetch", "pull_forward", "pull_merge",
                             "pull_commit", "push_connect", "push_update", "push_tips"}
Throws == IsOne({"reset", "rebase", "branch"}) \/ Has("amend") \/ Has("force_create")
Keeps == cmd.pc # "idle" /\ ~Throws => Onward(before, repo)
\* What stash branch goes back to when its checkout fails.
BeforeOK == Is(before.head, {"branch", "at"}) /\ before.head.branch \in Branches \cup {""}
            /\ before.head.at \in Ids(repo)
HistoryInv == Grounded(repo) /\ Serves(server, repo) /\ BeforeOK /\ Remembered /\ Keeps

LEMMA ServesLonger ==
    ASSUME NEW s, NEW r, NEW q, Serves(s, r), Ids(r) \subseteq Ids(q)
    PROVE  Serves(s, q)
  BY DEF Serves

LEMMA StepHolds ==
    ASSUME HistoryInv, UNCHANGED before, Grounded(repo'), Longer(repo.dag, repo'.dag),
           server' = server \/ Serves(server', repo'), Remembered',
           cmd'.pc # "idle" /\ ~Throws' => cmd.pc # "idle" /\ ~Throws /\ Onward(repo, repo')
    PROVE  HistoryInv'
  <1>1. Ids(repo) \subseteq Ids(repo')
    BY LongerIds DEF HistoryInv, Grounded
  <1>2. Serves(server', repo')
    BY <1>1, ServesLonger DEF HistoryInv
  <1>3. BeforeOK'
    BY <1>1 DEF HistoryInv, BeforeOK
  <1>4. Keeps'
    <2> SUFFICES ASSUME cmd'.pc # "idle", ~Throws' PROVE Onward(before, repo')
      BY DEF Keeps, Onward, Reaches
    <2>1. Onward(before, repo) /\ Onward(repo, repo')
      BY DEF HistoryInv, Keeps
    <2> QED BY <2>1, OnwardTwice DEF HistoryInv
  <1> QED BY <1>2, <1>3, <1>4 DEF HistoryInv

LEMMA CalmHolds ==
    ASSUME HistoryInv, UNCHANGED <<before, server>>, cmd.pc # "idle", cmd'.request = cmd.request,
           IsOne(Picks) \/ cmd'.commit \in Ids(repo') \/ cmd'.commit = cmd.commit, IsOne(Picks) => cmd'.pc \in PickPlaces,
           cmd'.pc \notin Watched \/ (IsOne(Picks) /\ cmd'.pc = "apply"),
           Grounded(repo'), Longer(repo.dag, repo'.dag), Throws \/ Onward(repo, repo')
    PROVE  HistoryInv'
  <1>1. Ids(repo) \subseteq Ids(repo')
    BY LongerIds DEF HistoryInv, Grounded
  <1>2. Throws' <=> Throws
    BY DEF Throws, IsOne, Has
  <1>3. Named(cmd'.request)
    BY DEF HistoryInv, Remembered
  <1>4. IF IsOne(Picks)' THEN cmd'.pc \in PickPlaces ELSE cmd'.commit \in Ids(repo')
    BY <1>1 DEF HistoryInv, Remembered, IsOne
  <1>5. ~Command("stash")' \/ cmd'.pc \notin StashPlaces
    BY DEF Watched, StashPlaces, Command, IsOne, Picks
  <1>6. cmd'.pc \notin {"set_head", "message", "create", "forward", "pull_fetch", "pull_forward", "pull_merge",
                        "pull_commit", "push_connect", "push_update", "push_tips"}
    BY DEF Watched
  <1>7. Remembered'
    BY <1>3, <1>4, <1>5, <1>6 DEF Remembered, At
  <1> QED BY <1>2, <1>7, StepHolds

\* A step that moves no name, no operation and no stash.
LEMMA LooseHolds ==
    ASSUME HistoryInv, UNCHANGED <<before, server>>, cmd.pc # "idle", cmd'.request = cmd.request,
           IsOne(Picks) \/ cmd'.commit \in Ids(repo) \/ cmd'.commit = cmd.commit, IsOne(Picks) => cmd'.pc \in PickPlaces,
           cmd'.pc \notin Watched \/ (IsOne(Picks) /\ cmd'.pc = "apply"),
           Same(repo, repo', Firm)
    PROVE  HistoryInv'
  <1>1. Grounded(repo') /\ Longer(repo.dag, repo'.dag) /\ repo'.refs = repo.refs
    BY GroundedStays DEF HistoryInv
  <1>2. Onward(repo, repo') /\ Ids(repo) \subseteq Ids(repo')
    BY <1>1, OnwardSame, LongerIds DEF HistoryInv, Grounded
  <1> QED BY <1>1, <1>2, CalmHolds

LEMMA SameSelf ==
    ASSUME NEW r, NEW fields
    PROVE  Same(r, r, fields)
  BY DEF Same

LEMMA ExitCommit ==
    ASSUME CmdShape, NEW rc, Exit(rc)
    PROVE  cmd'.pc = "exit" /\ cmd'.request = cmd.request /\ cmd'.commit = cmd.commit
           /\ "exit" \in PickPlaces /\ "exit" \notin Watched
  BY DEF CmdShape, Is, CmdFields, Exit, PickPlaces, Watched, StashPlaces

LEMMA GotoCommit ==
    ASSUME CmdShape, NEW pc, Goto(pc)
    PROVE  cmd'.pc = pc /\ cmd'.request = cmd.request /\ cmd'.commit = cmd.commit
           /\ cmd'.specs = cmd.specs /\ cmd'.at = cmd.at
  BY DEF CmdShape, Is, CmdFields, Goto

LEMMA ExitHolds ==
    ASSUME HistoryInv, CmdShape, UNCHANGED <<before, server>>, cmd.pc # "idle", NEW rc, Exit(rc),
           Grounded(repo'), Longer(repo.dag, repo'.dag), Throws \/ Onward(repo, repo')
    PROVE  HistoryInv'
  BY ExitCommit, CalmHolds

LEMMA ExitLooseHolds ==
    ASSUME HistoryInv, CmdShape, UNCHANGED <<before, server>>, cmd.pc # "idle", NEW rc, Exit(rc), Same(repo, repo', Firm)
    PROVE  HistoryInv'
  BY ExitCommit, LooseHolds

LEMMA StopHolds ==
    ASSUME HistoryInv, CmdShape, UNCHANGED <<before, server>>, cmd.pc # "idle", NEW rc, Stop(rc)
    PROVE  HistoryInv'
  BY SameSelf, ExitLooseHolds DEF Stop

LEMMA GotoHolds ==
    ASSUME HistoryInv, CmdShape, UNCHANGED <<before, server>>, cmd.pc # "idle", NEW pc, Goto(pc),
           IsOne(Picks) => pc \in PickPlaces, pc \notin Watched \/ (IsOne(Picks) /\ pc = "apply"),
           Grounded(repo'), Longer(repo.dag, repo'.dag), Throws \/ Onward(repo, repo')
    PROVE  HistoryInv'
  BY GotoCommit, CalmHolds

LEMMA GotoLooseHolds ==
    ASSUME HistoryInv, CmdShape, UNCHANGED <<before, server>>, cmd.pc # "idle", NEW pc, Goto(pc),
           IsOne(Picks) => pc \in PickPlaces, pc \notin Watched \/ (IsOne(Picks) /\ pc = "apply"),
           Same(repo, repo', Firm)
    PROVE  HistoryInv'
  BY GotoCommit, LooseHolds

LEMMA IndexHolds ==
    ASSUME HistoryInv, Is(repo, RepoFields), CmdShape, UNCHANGED server,
           Add \/ Rm \/ RmOne \/ Mv \/ MvIndex \/ WriteIndex \/ Clean \/ CleanOne
    PROVE  HistoryInv'
  <1>1. UNCHANGED before /\ cmd.pc # "idle" /\ ~IsOne(Picks)
    BY DEF Add, Rm, RmOne, Mv, MvIndex, WriteIndex, Clean, CleanOne, Rest, At, Command, IsOne, Picks
  <1>2. Same(repo, repo', Firm)
    <2>1. CASE Add \/ Rm \/ Clean
      BY <2>1 DEF Add, Rm, Clean, Stop, Same
    <2>2. CASE RmOne \/ CleanOne
      BY <2>2 DEF RmOne, CleanOne, Stop, Same, Firm, NameFields, Is, RepoFields
    <2>3. CASE Mv
      BY <2>3 DEF Mv, Stop, Same, Firm, NameFields, Is, RepoFields
    <2>4. CASE MvIndex \/ WriteIndex
      BY <2>4 DEF MvIndex, WriteIndex, Same, Firm, NameFields, Is, RepoFields
    <2> QED BY <2>1, <2>2, <2>3, <2>4
  <1>3. cmd'.request = cmd.request /\ cmd'.commit = cmd.commit
        /\ cmd'.pc \in {"start", "write", "remove", "index", "exit"}
    <2>1. CASE Add \/ Mv \/ MvIndex \/ WriteIndex
      BY <2>1 DEF Add, Mv, MvIndex, WriteIndex, Stop, Exit, Goto, CmdShape, Is, CmdFields
    <2>2. CASE Rm \/ RmOne
      BY <2>2 DEF Rm, RmOne, At, Stop, Exit, Goto, CmdShape, Is, CmdFields
    <2>3. CASE Clean \/ CleanOne
      BY <2>3 DEF Clean, CleanOne, At, Stop, Exit, Goto, CmdShape, Is, CmdFields
    <2> QED BY <2>1, <2>2, <2>3
  <1>4. cmd'.pc \notin Watched
    BY <1>3 DEF Watched, StashPlaces
  <1> QED BY <1>1, <1>2, <1>3, <1>4, LooseHolds

LEMMA CommitHolds ==
    ASSUME HistoryInv, Is(repo, RepoFields), CmdShape, UNCHANGED server,
           CommitStage \/ CommitCheck \/ CommitMessage \/ CommitCreate
    PROVE  HistoryInv'
  <1>1. UNCHANGED before /\ cmd.pc # "idle" /\ Command("commit") /\ ~IsOne(Picks)
    BY DEF CommitStage, CommitCheck, CommitMessage, CommitCreate, Rest, At, Command, IsOne, Picks
  <1>2. CASE CommitStage
    <2>1. Same(repo, repo', Firm)
      BY <1>2 DEF CommitStage, Stop, Same, Firm, NameFields, Is, RepoFields
    <2>2. cmd'.request = cmd.request /\ cmd'.commit = cmd.commit /\ cmd'.pc \in {"check", "exit"}
      BY <1>2 DEF CommitStage, Stop, Exit, CmdShape, Is, CmdFields
    <2> QED BY <1>1, <2>1, <2>2, LooseHolds DEF Watched, StashPlaces
  <1>3. CASE CommitCheck \/ CommitMessage
    <2>1. CASE \E rc \in {1, 2, 128} : Stop(rc)
      BY <1>1, <2>1, StopHolds
    <2>2. CASE ~\E rc \in {1, 2, 128} : Stop(rc)
      <3>2. repo' = repo /\ (Goto("message") \/ Goto("create")) /\ (Has("amend") => HeadCommit(repo) # 0)
        BY <1>3, <2>2 DEF CommitCheck, CommitMessage, At, HistoryInv, Remembered
      <3>3. cmd'.pc \in {"message", "create"} /\ cmd'.request = cmd.request /\ cmd'.commit = cmd.commit
        BY <3>2, GotoCommit
      <3>4. Remembered'
        BY <1>1, <3>2, <3>3 DEF HistoryInv, Remembered, At, Command, Has, IsOne, Picks
      <3>5. Throws' <=> Throws
        BY <3>3 DEF Throws, IsOne, Has
      <3>6. Onward(repo, repo) /\ Longer(repo.dag, repo.dag)
        BY OnwardSame, LongerSelf DEF HistoryInv, Grounded
      <3>7. Grounded(repo)
        BY DEF HistoryInv
      <3> QED BY <1>1, <3>2, <3>4, <3>5, <3>6, <3>7, StepHolds
    <2> QED BY <2>1, <2>2
  <1>4. CASE CommitCreate
    <2> DEFINE head == HeadCommit(repo)
               parents == IF Has("amend") THEN repo.dag[head].parents ELSE IF head = 0 THEN <<>> ELSE <<head>>
    <2>1. Exit(0) /\ repo' = CommitTree(repo, cmd.index, parents)
      BY <1>4 DEF CommitCreate
    <2>2. head \in Ids(repo) /\ Graph(repo.dag) /\ (Has("amend") => head # 0) /\ Grounded(repo)
      BY <1>4, HeadTyped DEF CommitCreate, At, HistoryInv, Remembered, Grounded
    <2>3. parents \in Seq(Ids(repo))
      <3>1. CASE Has("amend")
        <4>1. head \in 1 .. Len(repo.dag) /\ Len(repo.dag) \in Nat
          BY <2>2, <3>1, HeadTyped DEF Ids
        <4>2. repo.dag[head].parents \in Seq(0 .. head - 1)
          BY <2>2, <4>1, ParentsAreBefore
        <4>3. 0 .. head - 1 \subseteq Ids(repo)
          BY <4>1 DEF Ids
        <4>4. Seq(0 .. head - 1) \subseteq Seq(Ids(repo))
          BY <4>3, SeqMono
        <4> QED BY <3>1, <4>2, <4>4
      <3>2. CASE ~Has("amend")
        BY <2>2, <3>2
      <3> QED BY <3>1, <3>2
    <2>4. ~Has("amend") => (HeadCommit(repo) # 0 => HeadCommit(repo) \in ToSet(parents))
      BY DEF ToSet
    <2> HIDE DEF head, parents
    <2>5. Grounded(repo') /\ Longer(repo.dag, repo'.dag)
          /\ ((HeadCommit(repo) # 0 => HeadCommit(repo) \in ToSet(parents)) => Onward(repo, repo'))
      BY <2>1, <2>2, <2>3, CommitTreeGrounded
    <2>6. Throws \/ Onward(repo, repo')
      BY <2>4, <2>5 DEF Throws
    <2> QED BY <1>1, <2>1, <2>5, <2>6, ExitHolds
  <1> QED BY <1>2, <1>3, <1>4

LEMMA RestoreHolds ==
    ASSUME HistoryInv, Is(repo, RepoFields), CmdShape, UNCHANGED server, Reset \/ RestoreIndex \/ RestoreFiles
    PROVE  HistoryInv'
  <1>1. UNCHANGED before /\ cmd.pc # "idle" /\ ~IsOne(Picks) /\ Grounded(repo)
    BY DEF Reset, RestoreIndex, RestoreFiles, Rest, At, Command, IsOne, Picks, HistoryInv
  <1>2. CASE Reset
    <2>1. Throws
      BY <1>2 DEF Reset, At, Command, Throws, IsOne
    <2>2. CASE \E rc \in {1, 2, 128} : Stop(rc)
      BY <1>1, <2>2, StopHolds
    <2>3. CASE ~\E rc \in {1, 2, 128} : Stop(rc)
      <3> DEFINE c == Resolve(repo, IF cmd.request.rev = "" THEN "HEAD" ELSE cmd.request.rev)
      <3>1. Exit(0) /\ (repo' = ResetPaths(repo, c, Operands)
                        \/ repo' \in {ResetHard(repo, c), ResetMixed(repo, c), ResetSoft(repo, c)})
        BY <1>2, <2>3 DEF Reset
      <3>2. c \in Ids(repo)
        BY <1>1, Resolved
      <3> HIDE DEF c
      <3>3. CASE repo' = ResetPaths(repo, c, Operands)
        BY <1>1, <3>1, <3>3, ResetPathsFirm, ExitLooseHolds
      <3>4. CASE repo' \in {ResetHard(repo, c), ResetMixed(repo, c), ResetSoft(repo, c)}
        BY <1>1, <2>1, <3>1, <3>2, <3>4, ResetGrounded, ExitHolds
      <3> QED BY <3>1, <3>3, <3>4
    <2> QED BY <2>2, <2>3
  <1>3. CASE RestoreIndex
    <2>1. CASE \E rc \in {2, 128} : Stop(rc)
      BY <1>1, <2>1, StopHolds
    <2>2. CASE ~\E rc \in {2, 128} : Stop(rc)
      <3> DEFINE c == Resolve(repo, IF cmd.request.rev # "" THEN cmd.request.rev ELSE "HEAD")
                 d == IF Has("staged") \/ cmd.request.rev # "" THEN c ELSE 0
      <3>1. /\ cmd' = [cmd EXCEPT !.pc = "files", !.commit = d]
            /\ repo' = IF Has("staged") THEN ResetPaths(repo, c, Operands) ELSE repo
        BY <1>3, <2>2 DEF RestoreIndex
      <3>2. d \in Ids(repo)
        BY <1>1, Resolved, HeadTyped
      <3> HIDE DEF c, d
      <3>3. Same(repo, repo', Firm)
        BY <3>1, ResetPathsFirm, SameSelf
      <3>4. cmd'.request = cmd.request /\ cmd'.commit = d /\ cmd'.pc = "files"
        BY <3>1 DEF CmdShape, Is, CmdFields
      <3> QED BY <1>1, <3>2, <3>3, <3>4, LooseHolds DEF Watched, StashPlaces
    <2> QED BY <2>1, <2>2
  <1>4. CASE RestoreFiles
    <2>1. Exit(0) /\ (repo' = repo \/ \E tree : repo' = ForceCheckout(repo, tree, Operands))
      BY <1>4 DEF RestoreFiles
    <2>2. Same(repo, repo', Firm)
      BY <2>1, WriteFirm, SameSelf
    <2> QED BY <1>1, <2>1, <2>2, ExitLooseHolds
  <1> QED BY <1>2, <1>3, <1>4

\* HEAD is put on a branch, or on a commit.
LEMMA HeadSetGrounded ==
    ASSUME NEW r, NEW s, Grounded(r), Same(r, s, Firm \ {"head"}), HeadOK(s)
    PROVE  Grounded(s) /\ Longer(r.dag, s.dag) /\ s.refs = r.refs /\ Onward(r, s)
  <1>1. Same(r, s, NameFields) /\ s.dag = r.dag /\ s.stash = r.stash /\ s.op = r.op /\ s.refs = r.refs
    BY DEF Same, Firm, NameFields
  <1>2. Ids(s) = Ids(r)
    BY <1>1 DEF Ids
  <1>3. Grounded(s)
    BY <1>1, <1>2, NamesStay, StateStays DEF Grounded
  <1>4. Longer(r.dag, s.dag)
    BY <1>1, LongerSelf DEF Grounded
  <1> QED BY <1>1, <1>3, <1>4, OnwardSame DEF Grounded

LEMMA NewHeadGrounded ==
    ASSUME NEW r, Is(r, RepoFields), Grounded(r), NEW b \in Branches \cup {""}, NEW c \in Ids(r)
    PROVE  LET s == [r EXCEPT !.head = [branch |-> b, at |-> c]]
           IN  Grounded(s) /\ Longer(r.dag, s.dag) /\ s.refs = r.refs /\ Onward(r, s)
  <1> DEFINE h == [branch |-> b, at |-> c]
             s == [r EXCEPT !.head = h]
  <1>1. Is(h, {"branch", "at"}) /\ h.branch = b /\ h.at = c
    BY DEF Is
  <1> HIDE DEF h
  <1>2. Same(r, s, Firm \ {"head"}) /\ s.head = h /\ s.dag = r.dag
    BY DEF Same, Firm, NameFields, Is, RepoFields
  <1> HIDE DEF s
  <1>3. HeadOK(s)
    BY <1>1, <1>2 DEF HeadOK, Ids
  <1>4. Grounded(s) /\ Longer(r.dag, s.dag) /\ s.refs = r.refs /\ Onward(r, s)
    BY <1>2, <1>3, HeadSetGrounded
  <1> QED BY <1>4 DEF s, h

\* A branch is made or moved.
LEMMA BranchSetGrounded ==
    ASSUME NEW r, Is(r, RepoFields), Grounded(r), NEW b, NEW c \in Ids(r)
    PROVE  LET s == [r EXCEPT !.refs[b] = c]
           IN  /\ Grounded(s) /\ Longer(r.dag, s.dag)
               /\ (b \in Branches /\ r.refs[b] # 0 => Reaches(r, c, r.refs[b])) => Onward(r, s)
  <1> DEFINE s == [r EXCEPT !.refs = [r.refs EXCEPT ![b] = c]]
  <1>1. /\ s.refs = [r.refs EXCEPT ![b] = c] /\ s.dag = r.dag /\ s.head = r.head /\ s.stash = r.stash /\ s.op = r.op
        /\ s.tags = r.tags /\ s.annotated = r.annotated /\ s.tracking = r.tracking /\ s.upstream = r.upstream
    BY DEF Is, RepoFields
  <1> HIDE DEF s
  <1>2. Ids(s) = Ids(r) /\ r.refs \in [Branches -> Ids(r)]
    BY <1>1 DEF Ids, Grounded, RefsOK
  <1>3. RefsOK(s)
    BY <1>1, <1>2 DEF RefsOK, Grounded
  <1>4. Grounded(s) /\ Longer(r.dag, s.dag)
    BY <1>1, <1>2, <1>3, HeadStays, StateStays, LongerSelf DEF Grounded
  <1>5. ASSUME b \in Branches /\ r.refs[b] # 0 => Reaches(r, c, r.refs[b])
        PROVE  Onward(r, s)
    <2> SUFFICES ASSUME NEW d \in Branches, r.refs[d] # 0
                 PROVE  Reaches(s, s.refs[d], r.refs[d])
      BY DEF Onward
    <2>1. CASE d = b
      BY <1>1, <1>2, <1>5, <2>1 DEF Reaches
    <2>2. CASE d # b
      <3>1. r.refs[d] \in 1 .. Len(r.dag) /\ s.refs[d] = r.refs[d]
        BY <1>1, <1>2, <2>2, HeadTyped DEF Ids
      <3> QED BY <1>1, <3>1, HistorySelf DEF Reaches, Grounded
    <2> QED BY <2>1, <2>2
  <1> QED BY <1>4, <1>5 DEF s

LEMMA CheckoutHolds ==
    ASSUME HistoryInv, Is(repo, RepoFields), CmdShape, UNCHANGED server,
           CheckoutPaths \/ CheckoutHead \/ CheckoutDetach \/ CheckoutDetachHead \/ CheckoutSetHead
    PROVE  HistoryInv'
  <1>1. UNCHANGED before /\ cmd.pc # "idle" /\ ~IsOne(Picks) /\ Grounded(repo) /\ cmd.commit \in Ids(repo)
    BY DEF CheckoutPaths, CheckoutHead, CheckoutDetach, CheckoutDetachHead, CheckoutSetHead,
           Rest, At, Command, IsOne, Picks, HistoryInv, Remembered, PickPlaces
  <1>2. CASE CheckoutPaths
    <2>1. CASE Stop(128)
      BY <1>1, <2>1, StopHolds
    <2>2. CASE ~Stop(128)
      <3> DEFINE from == IF cmd.request.rev # "" THEN ResetPaths(repo, Resolve(repo, cmd.request.rev), Operands)
                         ELSE repo
      <3>1. Exit(0) /\ \E tree : repo' = ForceCheckout(from, tree, Operands)
        BY <1>2, <2>2 DEF CheckoutPaths
      <3>2. Is(from, RepoFields) /\ Same(repo, from, Firm)
        BY ResetIs, ResetPathsFirm, SameSelf
      <3> HIDE DEF from
      <3>3. Same(from, repo', Firm)
        BY <3>1, <3>2, WriteFirm
      <3>4. Same(repo, repo', Firm)
        BY <3>2, <3>3 DEF Same
      <3> QED BY <1>1, <3>1, <3>4, ExitLooseHolds
    <2> QED BY <2>1, <2>2
  <1>3. CASE CheckoutHead
    <2>1. Exit(0) /\ \E a, b : repo' = ForceCheckout(repo, a, Paths) \/ repo' = SafeCheckout(repo, a, b)
      BY <1>3 DEF CheckoutHead
    <2>2. Same(repo, repo', Firm)
      BY <2>1, WriteFirm
    <2> QED BY <1>1, <2>1, <2>2, ExitLooseHolds
  <1>4. CASE CheckoutDetach
    <2>1. CASE Stop(1)
      BY <1>1, <2>1, StopHolds
    <2>2. CASE ~Stop(1)
      <3> DEFINE c == Resolve(repo, CheckoutTarget)
      <3>1. /\ cmd' = [cmd EXCEPT !.pc = "detach_head", !.commit = c]
            /\ \E a, b : repo' = ForceCheckout(repo, a, Paths) \/ repo' = SafeCheckout(repo, a, b)
        BY <1>4, <2>2 DEF CheckoutDetach
      <3>2. c \in Ids(repo) /\ Same(repo, repo', Firm)
        BY <1>1, <3>1, Resolved, WriteFirm
      <3> HIDE DEF c
      <3>3. cmd'.request = cmd.request /\ cmd'.commit = c /\ cmd'.pc = "detach_head"
        BY <3>1 DEF CmdShape, Is, CmdFields
      <3> QED BY <1>1, <3>2, <3>3, LooseHolds DEF Watched, StashPlaces
    <2> QED BY <2>1, <2>2
  <1>5. CASE CheckoutDetachHead
    <2>1. Exit(0) /\ repo' = [repo EXCEPT !.head = [branch |-> "", at |-> cmd.commit]]
      BY <1>5 DEF CheckoutDetachHead
    <2>2. Grounded(repo') /\ Longer(repo.dag, repo'.dag) /\ Onward(repo, repo')
      BY <1>1, <2>1, NewHeadGrounded
    <2> QED BY <1>1, <2>1, <2>2, ExitHolds
  <1>6. CASE CheckoutSetHead
    <2>1. Goto("checkout_head") /\ repo' = [repo EXCEPT !.head = [branch |-> cmd.request.rev, at |-> 0]]
          /\ cmd.request.rev \in Branches \cup {""}
      BY <1>6 DEF CheckoutSetHead, HistoryInv, Remembered
    <2>2. Grounded(repo') /\ Longer(repo.dag, repo'.dag) /\ Onward(repo, repo')
      BY <1>1, <2>1, NewHeadGrounded, HeadTyped
    <2> QED BY <1>1, <2>1, <2>2, GotoHolds DEF Watched, StashPlaces
  <1> QED BY <1>2, <1>3, <1>4, <1>5, <1>6

\* checkout -b and switch -c make a branch only where there is none, unless told to.
LEMMA CheckoutStartHolds ==
    ASSUME HistoryInv, Is(repo, RepoFields), CmdShape, UNCHANGED server, CheckoutStart
    PROVE  HistoryInv'
  <1>1. UNCHANGED before /\ cmd.pc = "start" /\ IsOne({"checkout", "switch"}) /\ Grounded(repo) /\ Named(cmd.request)
    BY DEF CheckoutStart, Rest, At, Command, IsOne, HistoryInv, Remembered
  <1>2. ~IsOne(Picks) /\ cmd.commit \in Ids(repo)
    BY <1>1 DEF IsOne, Picks, HistoryInv, Remembered
  <1>3. CASE \E rc \in {1, 2, 128} : Stop(rc)
    BY <1>1, <1>3, StopHolds
  <1>4. CASE Goto("detach") /\ UNCHANGED repo
    BY <1>1, <1>2, <1>4, SameSelf, GotoLooseHolds DEF Watched, StashPlaces
  <1>5. CASE Goto("set_head") /\ UNCHANGED repo /\ CheckoutTarget \in Branches
    <2>1. cmd'.pc = "set_head" /\ cmd'.request = cmd.request /\ cmd'.commit = cmd.commit
      BY <1>5, GotoCommit
    <2>2. cmd.request.rev \in Branches \cup {""}
      BY <1>5 DEF CheckoutTarget
    <2>3. Remembered'
      BY <1>1, <1>2, <1>5, <2>1, <2>2 DEF Remembered, At, Command, Has, IsOne, Picks, StashPlaces
    <2>4. Throws' <=> Throws
      BY <2>1 DEF Throws, IsOne, Has
    <2>5. Onward(repo, repo) /\ Longer(repo.dag, repo.dag)
      BY <1>1, OnwardSame, LongerSelf DEF Grounded
    <2> QED BY <1>1, <1>5, <2>3, <2>4, <2>5, StepHolds
  <1>6. CASE ~(\E rc \in {1, 2, 128} : Stop(rc)) /\ ~(Goto("detach") /\ UNCHANGED repo)
             /\ ~(Goto("set_head") /\ UNCHANGED repo /\ CheckoutTarget \in Branches)
    <2> DEFINE c == Resolve(repo, CheckoutTarget)
               new == cmd.request.to
    <2>1. /\ repo' = [repo EXCEPT !.refs[new] = c] /\ cmd' = [cmd EXCEPT !.pc = "set_head", !.request.rev = new]
          /\ repo.refs[new] = 0 \/ Has("force_create")
      BY <1>6 DEF CheckoutStart
    <2>2. c \in Ids(repo) /\ new \in Branches \cup {""}
      BY <1>1, Resolved DEF Named, IsOne
    <2> HIDE DEF c
    <2>3. /\ Grounded(repo') /\ Longer(repo.dag, repo'.dag)
          /\ (new \in Branches /\ repo.refs[new] # 0 => Reaches(repo, c, repo.refs[new])) => Onward(repo, repo')
      BY <1>1, <2>1, <2>2, BranchSetGrounded
    <2>4. Throws \/ Onward(repo, repo')
      BY <2>1, <2>3 DEF Throws
    <2>5. /\ cmd'.pc = "set_head" /\ cmd'.commit = cmd.commit /\ cmd'.request = [cmd.request EXCEPT !.rev = new]
          /\ cmd'.request.name = cmd.request.name /\ cmd'.request.opts = cmd.request.opts
          /\ cmd'.request.rev = new /\ cmd'.request.to = cmd.request.to /\ cmd'.request.paths = cmd.request.paths
      BY <2>1 DEF CmdShape, Is, CmdFields, RequestFields
    <2>6. Named(cmd'.request) /\ ~IsOne(Picks)'
      BY <1>1, <1>2, <2>5 DEF Named, IsOne
    <2>7. cmd'.commit \in Ids(repo')
      BY <1>2, <2>3, <2>5, LongerIds DEF Grounded, HistoryInv
    <2>8. Remembered'
      BY <1>1, <2>2, <2>5, <2>6, <2>7 DEF Remembered, At, Command, IsOne, StashPlaces
    <2>9. Throws' <=> Throws
      BY <2>5 DEF Throws, IsOne, Has
    <2> QED BY <1>1, <2>3, <2>4, <2>8, <2>9, StepHolds
  <1> QED BY <1>3, <1>4, <1>5, <1>6

\* The steps that forget the operation.
LEMMA CleanupHolds ==
    ASSUME HistoryInv, Is(repo, RepoFields), CmdShape, UNCHANGED <<before, server>>, cmd.pc # "idle",
           repo' = Cleanup(repo), Goto("reset") \/ Exit(0) \/ Exit(1)
    PROVE  HistoryInv'
  <1>1. Grounded(repo)
    BY DEF HistoryInv
  <1>2. Grounded(repo') /\ Longer(repo.dag, repo'.dag) /\ Onward(repo, repo')
    BY <1>1, CleanupGrounded, OnwardSame DEF Grounded
  <1>3. "reset" \in PickPlaces /\ "reset" \notin Watched
    BY DEF PickPlaces, Watched, StashPlaces
  <1> QED BY <1>2, <1>3, GotoHolds, ExitHolds

\* An operation that begins, or a merge that meets a conflict.
LEMMA ApplyOperation ==
    ASSUME NEW r, Is(r, RepoFields), Grounded(r), NEW a, NEW b, NEW kind, NEW c,
           NEW s, s = Cleanup(Apply(r, a, b)) \/ s = [Apply(r, a, b) EXCEPT !.op = Operation(kind, c)]
    PROVE  Grounded(s) /\ Longer(r.dag, s.dag) /\ s.dag = r.dag /\ s.refs = r.refs /\ Onward(r, s)
           /\ HeadCommit(s) = HeadCommit(r)
  <1> DEFINE m == Apply(r, a, b)
  <1>1. Is(m, RepoFields) /\ Same(r, m, Firm)
    BY CheckoutIs, WriteFirm
  <1> HIDE DEF m
  <1>2. s = Cleanup(m) \/ s = [m EXCEPT !.op = Operation(kind, c)]
    BY DEF m
  <1>3. Same(m, s, Firm \ {"op"}) /\ (s.op = NoOperation \/ s.op = Operation(kind, c))
    BY <1>1, <1>2 DEF Is, RepoFields, Same, Firm, NameFields, Cleanup
  <1>4. Grounded(m) /\ m.refs = r.refs /\ m.dag = r.dag /\ m.head = r.head
    BY <1>1, GroundedStays DEF Same, Firm
  <1>5. Grounded(s)
    BY <1>3, <1>4, ForgetGrounded, OperationGrounded
  <1>6. s.dag = r.dag /\ s.refs = r.refs /\ s.head = r.head
    BY <1>3, <1>4 DEF Same, Firm, NameFields
  <1>7. Longer(r.dag, s.dag) /\ HeadCommit(s) = HeadCommit(r)
    BY <1>6, LongerSelf DEF HeadCommit, Grounded
  <1> QED BY <1>5, <1>6, <1>7, OnwardSame DEF Grounded

LEMMA ForwardReaches ==
    ASSUME NEW r, Grounded(r), NEW c, Analysis(r, c) = "fastforward"
    PROVE  Reaches(r, c, HeadCommit(r))
  BY DEF Analysis, Reaches

LEMMA MergeHolds ==
    ASSUME HistoryInv, Is(repo, RepoFields), CmdShape, UNCHANGED server,
           MergeStart \/ MergeAnalysis \/ MergeForward \/ MergeApply \/ MergeCommit \/ MergeCleanup
    PROVE  HistoryInv'
  <1>1. UNCHANGED before /\ cmd.pc # "idle" /\ Command("merge") /\ ~IsOne(Picks) /\ Grounded(repo)
        /\ cmd.commit \in Ids(repo) /\ Named(cmd.request)
    BY DEF MergeStart, MergeAnalysis, MergeForward, MergeApply, MergeCommit, MergeCleanup,
           Rest, At, Command, IsOne, Picks, HistoryInv, Remembered
  <1>2. CASE MergeStart
    <2>1. CASE \E rc \in {1, 2, 128} : Stop(rc)
      BY <1>1, <2>1, StopHolds
    <2>2. CASE repo' = Cleanup(repo) /\ Goto("reset")
      BY <1>1, <2>2, CleanupHolds
    <2>3. CASE Goto("analysis") /\ UNCHANGED repo
      BY <1>1, <2>3, SameSelf, GotoLooseHolds DEF Watched, StashPlaces
    <2> QED BY <1>2, <2>1, <2>2, <2>3 DEF MergeStart
  <1>3. CASE MergeAnalysis
    <2>1. CASE \E rc \in {0, 1} : Stop(rc)
      BY <1>1, <2>1, StopHolds
    <2>2. CASE ~\E rc \in {0, 1} : Stop(rc)
      <3> DEFINE c == Resolve(repo, cmd.request.rev)
                 found == Analysis(repo, c)
                 pc == IF found # "fastforward" THEN "merge" ELSE IF Has("no_ff") THEN "commit" ELSE "forward"
      <3>1. cmd' = [cmd EXCEPT !.commit = c, !.index = TreeOf(repo, c), !.pc = pc] /\ repo' = repo
        BY <1>3, <2>2 DEF MergeAnalysis
      <3>2. c \in Ids(repo) /\ (pc = "forward" => Reaches(repo, c, HeadCommit(repo)))
        BY <1>1, Resolved, ForwardReaches
      <3>3. pc \in {"merge", "commit", "forward"}
        OBVIOUS
      <3> HIDE DEF c, found, pc
      <3>4. cmd'.request = cmd.request /\ cmd'.commit = c /\ cmd'.pc = pc
        BY <3>1 DEF CmdShape, Is, CmdFields
      <3>5. Remembered'
        BY <1>1, <3>1, <3>2, <3>3, <3>4 DEF Remembered, At, Command, IsOne, Picks, StashPlaces
      <3>6. Throws' <=> Throws
        BY <3>4 DEF Throws, IsOne, Has
      <3>7. Onward(repo, repo) /\ Longer(repo.dag, repo.dag)
        BY <1>1, OnwardSame, LongerSelf DEF Grounded
      <3> QED BY <1>1, <3>1, <3>5, <3>6, <3>7, StepHolds
    <2> QED BY <2>1, <2>2
  <1>4. CASE MergeForward
    <2>1. CASE Stop(1)
      BY <1>1, <2>1, StopHolds
    <2>2. CASE ~Stop(1)
      <3>1. /\ repo.head.branch # "" /\ repo' = [repo EXCEPT !.refs[repo.head.branch] = cmd.commit] /\ Goto("reset")
            /\ Reaches(repo, cmd.commit, HeadCommit(repo))
        BY <1>4, <2>2 DEF MergeForward, HistoryInv, Remembered
      <3>2. HeadCommit(repo) = repo.refs[repo.head.branch]
        BY <3>1 DEF HeadCommit
      <3>3. Grounded(repo') /\ Longer(repo.dag, repo'.dag) /\ Onward(repo, repo')
        BY <1>1, <3>1, <3>2, BranchSetGrounded
      <3> QED BY <1>1, <3>1, <3>3, GotoHolds DEF Watched, StashPlaces
    <2> QED BY <2>1, <2>2
  <1>5. CASE MergeApply
    <2>1. CASE Stop(1)
      BY <1>1, <2>1, StopHolds
    <2>2. CASE ~Stop(1)
      <3> DEFINE base == TreeOf(repo, MergeBase(repo.dag, HeadCommit(repo), cmd.commit))
                 theirs == TreeOf(repo, cmd.commit)
                 applied == Apply(repo, base, theirs)
      <3>1. \/ repo' = Cleanup(applied) /\ Exit(1)
            \/ /\ repo' = [applied EXCEPT !.op = Operation("merge", cmd.commit)]
               /\ cmd' = [cmd EXCEPT !.pc = "commit", !.index = applied.index]
        BY <1>5, <2>2 DEF MergeApply
      <3> HIDE DEF base, theirs
      <3>2. Grounded(repo') /\ Longer(repo.dag, repo'.dag) /\ Onward(repo, repo')
        BY <1>1, <3>1, ApplyOperation
      <3> HIDE DEF applied
      <3>3. CASE Exit(1)
        BY <1>1, <3>2, <3>3, ExitHolds
      <3>4. CASE cmd' = [cmd EXCEPT !.pc = "commit", !.index = applied.index]
        <4>1. cmd'.request = cmd.request /\ cmd'.commit = cmd.commit /\ cmd'.pc = "commit"
          BY <3>4 DEF CmdShape, Is, CmdFields
        <4> QED BY <1>1, <3>2, <4>1, CalmHolds DEF Watched, StashPlaces
      <3> QED BY <3>1, <3>3, <3>4
    <2> QED BY <2>1, <2>2
  <1>6. CASE MergeCommit
    <2>1. repo' = CommitTree(repo, cmd.index, <<HeadCommit(repo), cmd.commit>>) /\ Goto("cleanup")
      BY <1>6 DEF MergeCommit
    <2>2. <<HeadCommit(repo), cmd.commit>> \in Seq(Ids(repo))
          /\ HeadCommit(repo) \in ToSet(<<HeadCommit(repo), cmd.commit>>)
      BY <1>1, HeadTyped DEF ToSet
    <2>3. Grounded(repo') /\ Longer(repo.dag, repo'.dag) /\ Onward(repo, repo')
      BY <1>1, <2>1, <2>2, CommitTreeGrounded
    <2> QED BY <1>1, <2>1, <2>3, GotoHolds DEF Watched, StashPlaces
  <1>7. CASE MergeCleanup
    BY <1>1, <1>7, CleanupHolds DEF MergeCleanup
  <1> QED BY <1>2, <1>3, <1>4, <1>5, <1>6, <1>7

LEMMA PickHolds ==
    ASSUME HistoryInv, Is(repo, RepoFields), CmdShape, UNCHANGED server,
           PickStart \/ PickApply \/ PickIndex \/ PickCommit \/ PickCleanup
    PROVE  HistoryInv'
  <1>1. UNCHANGED before /\ cmd.pc # "idle" /\ IsOne(Picks) /\ Grounded(repo)
    BY DEF PickStart, PickApply, PickIndex, PickCommit, PickCleanup, Rest, PickAt, IsOne, HistoryInv
  <1>2. CASE PickStart
    <2>1. CASE \E rc \in {1, 2, 128} : Stop(rc)
      BY <1>1, <2>1, StopHolds
    <2>2. CASE repo' = Cleanup(repo) /\ Goto("reset")
      BY <1>1, <2>2, CleanupHolds
    <2>3. CASE ~(\E rc \in {1, 2, 128} : Stop(rc)) /\ ~(repo' = Cleanup(repo) /\ Goto("reset"))
      <3>1. repo' = repo /\ \E c : cmd' = [cmd EXCEPT !.commit = c, !.pc = IF Has("continue") THEN "index" ELSE "apply"]
        BY <1>2, <2>3 DEF PickStart
      <3>2. cmd'.request = cmd.request /\ cmd'.pc \in {"index", "apply"}
        BY <3>1 DEF CmdShape, Is, CmdFields
      <3> QED BY <1>1, <3>1, <3>2, SameSelf, LooseHolds DEF Watched, StashPlaces, PickPlaces
    <2> QED BY <2>1, <2>2, <2>3
  <1>3. CASE PickApply
    <2>1. CASE Stop(1)
      BY <1>1, <2>1, StopHolds
    <2>2. CASE ~Stop(1)
      <3>1. Goto("index") /\ \E a, b : repo' = [Apply(repo, a, b) EXCEPT !.op = Operation(Kind, cmd.commit)]
        BY <1>3, <2>2 DEF PickApply
      <3> PICK a, b : repo' = [Apply(repo, a, b) EXCEPT !.op = Operation(Kind, cmd.commit)]
        BY <3>1
      <3>2. Grounded(repo') /\ Longer(repo.dag, repo'.dag) /\ Onward(repo, repo')
        BY <1>1, ApplyOperation
      <3> QED BY <1>1, <3>1, <3>2, GotoHolds DEF Watched, StashPlaces, PickPlaces
    <2> QED BY <2>1, <2>2
  <1>4. CASE PickIndex
    <2>1. CASE Stop(1)
      BY <1>1, <2>1, StopHolds
    <2>2. CASE repo' = Cleanup(repo) /\ Exit(0)
      BY <1>1, <2>2, CleanupHolds
    <2>3. CASE Goto("commit") /\ UNCHANGED repo
      BY <1>1, <2>3, SameSelf, GotoLooseHolds DEF Watched, StashPlaces, PickPlaces
    <2> QED BY <1>4, <2>1, <2>2, <2>3 DEF PickIndex
  <1>5. CASE PickCommit
    <2>1. repo' = CommitTree(repo, repo.index, <<HeadCommit(repo)>>) /\ Goto("cleanup")
      BY <1>5 DEF PickCommit
    <2>2. <<HeadCommit(repo)>> \in Seq(Ids(repo)) /\ HeadCommit(repo) \in ToSet(<<HeadCommit(repo)>>)
      BY <1>1, HeadTyped DEF ToSet
    <2>3. Grounded(repo') /\ Longer(repo.dag, repo'.dag) /\ Onward(repo, repo')
      BY <1>1, <2>1, <2>2, CommitTreeGrounded
    <2> QED BY <1>1, <2>1, <2>3, GotoHolds DEF Watched, StashPlaces, PickPlaces
  <1>6. CASE PickCleanup
    BY <1>1, <1>6, CleanupHolds DEF PickCleanup
  <1> QED BY <1>2, <1>3, <1>4, <1>5, <1>6

\* The last reset of merge, cherry-pick, revert and rebase is to where HEAD is.
LEMMA FinalResetHolds ==
    ASSUME HistoryInv, Is(repo, RepoFields), CmdShape, UNCHANGED server, FinalReset
    PROVE  HistoryInv'
  <1>1. UNCHANGED before /\ cmd.pc # "idle" /\ Exit(0) /\ Grounded(repo)
        /\ repo' = ResetHard(repo, HeadCommit(repo))
    BY DEF FinalReset, Rest, HistoryInv
  <1>2. Grounded(repo') /\ Longer(repo.dag, repo'.dag)
        /\ \A b \in Branches : repo'.refs[b] = IF b = repo.head.branch THEN HeadCommit(repo) ELSE repo.refs[b]
    BY <1>1, ResetGrounded, HeadTyped
  <1>3. \A b \in Branches : repo'.refs[b] = repo.refs[b]
    BY <1>2, GitAssumption DEF HeadCommit
  <1>4. Onward(repo, repo')
    BY <1>1, <1>2, <1>3, OnwardSame DEF Grounded
  <1> QED BY <1>1, <1>2, <1>4, ExitHolds

LEMMA OperationHeadGrounded ==
    ASSUME NEW r, NEW s, Grounded(r), Same(r, s, Firm \ {"op", "head"}), HeadOK(s),
           Is(s.op, {"kind", "commit", "todo", "branch", "orig"}),
           s.op.branch \in Branches \cup {""}, s.op.orig \in Ids(r)
    PROVE  Grounded(s) /\ Longer(r.dag, s.dag)
  <1>1. Same(r, s, NameFields) /\ s.dag = r.dag /\ s.stash = r.stash
    BY DEF Same, Firm, NameFields
  <1>2. Ids(s) = Ids(r)
    BY <1>1 DEF Ids
  <1>3. StateOK(s)
    BY <1>1, <1>2 DEF StateOK, Grounded
  <1>4. Grounded(s)
    BY <1>1, <1>2, <1>3, NamesStay DEF Grounded
  <1> QED BY <1>1, <1>4, LongerSelf DEF Grounded

LEMMA RebaseHolds ==
    ASSUME HistoryInv, Is(repo, RepoFields), CmdShape, UNCHANGED server,
           RebaseStart \/ RebaseInit \/ RebaseAbort \/ RebaseContinue \/ RebaseNext \/ RebaseCommit \/ RebaseFinish
    PROVE  HistoryInv'
  <1>1. UNCHANGED before /\ cmd.pc # "idle" /\ ~IsOne(Picks) /\ Grounded(repo) /\ Throws
    BY DEF RebaseStart, RebaseInit, RebaseAbort, RebaseContinue, RebaseNext, RebaseCommit, RebaseFinish,
           Rest, At, Command, IsOne, Picks, HistoryInv, Throws
  <1>2. CASE RebaseStart
    <2>1. CASE \E rc \in {1, 2, 128} : Stop(rc)
      BY <1>1, <2>1, StopHolds
    <2>2. CASE \E pc \in {"abort", "continue", "init"} : Goto(pc) /\ UNCHANGED repo
      BY <1>1, <2>2, SameSelf, GotoLooseHolds DEF Watched, StashPlaces
    <2> QED BY <1>2, <2>1, <2>2 DEF RebaseStart
  <1>3. CASE RebaseInit
    <2>1. CASE Stop(1)
      BY <1>1, <2>1, StopHolds
    <2>2. CASE ~Stop(1)
      <3> DEFINE upstream == Resolve(repo, cmd.request.rev)
                 h == [branch |-> "", at |-> upstream]
      <3>1. Goto("next") /\ \E a, b, todo :
                repo' = [SafeCheckout(repo, a, b) EXCEPT
                            !.op = [kind |-> "rebase", commit |-> 0, todo |-> todo,
                                    branch |-> repo.head.branch, orig |-> HeadCommit(repo)],
                            !.head = h]
        BY <1>3, <2>2 DEF RebaseInit
      <3> PICK a, b, todo : repo' = [SafeCheckout(repo, a, b) EXCEPT
                            !.op = [kind |-> "rebase", commit |-> 0, todo |-> todo,
                                    branch |-> repo.head.branch, orig |-> HeadCommit(repo)],
                            !.head = h]
        BY <3>1
      <3> DEFINE o == [kind |-> "rebase", commit |-> 0, todo |-> todo,
                       branch |-> repo.head.branch, orig |-> HeadCommit(repo)]
                 m == SafeCheckout(repo, a, b)
      <3>2. Is(m, RepoFields) /\ Same(repo, m, Firm)
        BY WriteFirm, CheckoutIs
      <3>3. Is(o, {"kind", "commit", "todo", "branch", "orig"}) /\ o.branch = repo.head.branch /\ o.orig = HeadCommit(repo)
        BY DEF Is
      <3>4. Is(h, {"branch", "at"}) /\ h.branch = "" /\ h.at = upstream
        BY DEF Is
      <3>5. upstream \in Ids(repo) /\ HeadCommit(repo) \in Ids(repo) /\ repo.head.branch \in Branches \cup {""}
        BY <1>1, Resolved, HeadTyped DEF Grounded, HeadOK
      <3>6. repo' = [m EXCEPT !.op = o, !.head = h]
        OBVIOUS
      <3> HIDE DEF o, m, h, upstream
      <3>7. Same(m, repo', Firm \ {"op", "head"}) /\ repo'.op = o /\ repo'.head = h
        BY <3>2, <3>6 DEF Is, RepoFields, Same, Firm, NameFields
      <3>8. Grounded(m) /\ m.dag = repo.dag /\ Ids(m) = Ids(repo) /\ repo'.dag = m.dag /\ Ids(repo') = Ids(repo)
        BY <1>1, <3>2, <3>7, GroundedStays DEF Same, Firm, NameFields, Ids
      <3>9. HeadOK(repo')
        BY <3>4, <3>5, <3>7, <3>8 DEF HeadOK
      <3>10. Grounded(repo') /\ Longer(m.dag, repo'.dag)
        BY <3>3, <3>5, <3>7, <3>8, <3>9, OperationHeadGrounded
      <3>11. Longer(repo.dag, repo'.dag)
        BY <3>8, <3>10
      <3> QED BY <1>1, <3>1, <3>10, <3>11, GotoHolds DEF Watched, StashPlaces
    <2> QED BY <2>1, <2>2
  <1>4. CASE RebaseAbort
    <2> DEFINE c == IF repo.op.branch = "" THEN repo.op.orig ELSE 0
               back == [repo EXCEPT !.head = [branch |-> repo.op.branch, at |-> c]]
    <2>1. Exit(0) /\ repo' = ResetHard(back, repo.op.orig)
      BY <1>4 DEF RebaseAbort
    <2>2. repo.op.branch \in Branches \cup {""} /\ repo.op.orig \in Ids(repo) /\ c \in Ids(repo)
      BY <1>1, HeadTyped DEF Grounded, StateOK
    <2>3. Is(back, RepoFields) /\ back.dag = repo.dag
      BY DEF Is, RepoFields
    <2> HIDE DEF c
    <2>4. Grounded(back)
      BY <1>1, <2>2, NewHeadGrounded
    <2> HIDE DEF back
    <2>5. repo.op.orig \in Ids(back)
      BY <2>2, <2>3 DEF Ids
    <2>6. Grounded(repo') /\ Longer(repo.dag, repo'.dag)
      BY <2>1, <2>3, <2>4, <2>5, ResetGrounded
    <2> QED BY <1>1, <2>1, <2>6, ExitHolds
  <1>5. CASE RebaseContinue
    <2>1. CASE Stop(1)
      BY <1>1, <2>1, StopHolds
    <2>2. CASE \E pc \in {"next", "commit"} : Goto(pc) /\ UNCHANGED repo
      BY <1>1, <2>2, SameSelf, GotoLooseHolds DEF Watched, StashPlaces
    <2> QED BY <1>5, <2>1, <2>2 DEF RebaseContinue
  <1>6. CASE RebaseNext
    <2>1. CASE Stop(1)
      BY <1>1, <2>1, StopHolds
    <2>2. CASE Goto("finish") /\ UNCHANGED repo
      BY <1>1, <2>2, SameSelf, GotoLooseHolds DEF Watched, StashPlaces
    <2>3. CASE ~Stop(1) /\ ~(Goto("finish") /\ UNCHANGED repo)
      <3>1. Goto("commit") /\ \E a, b, c : repo' = [Apply(repo, a, b) EXCEPT !.op.commit = c, !.op.todo = Tail(@)]
        BY <1>6, <2>3 DEF RebaseNext
      <3> PICK a, b, c : repo' = [Apply(repo, a, b) EXCEPT !.op.commit = c, !.op.todo = Tail(@)]
        BY <3>1
      <3> DEFINE m == Apply(repo, a, b)
      <3>2. Is(m, RepoFields) /\ Same(repo, m, Firm)
        BY WriteFirm, CheckoutIs
      <3>3. repo' = [m EXCEPT !.op.commit = c, !.op.todo = Tail(@)]
        OBVIOUS
      <3> HIDE DEF m
      <3>4. Grounded(m) /\ m.dag = repo.dag /\ Ids(m) = Ids(repo)
        BY <1>1, <3>2, GroundedStays DEF Same, Firm, Ids
      <3>5. Is(m.op, {"kind", "commit", "todo", "branch", "orig"}) /\ m.op.branch \in Branches \cup {""} /\ m.op.orig \in Ids(m)
        BY <3>4 DEF Grounded, StateOK
      <3>6. Same(m, repo', Firm \ {"op", "head"}) /\ repo'.head = m.head /\ repo'.dag = m.dag
        BY <3>2, <3>3 DEF Is, RepoFields, Same, Firm, NameFields
      <3>7. /\ Is(repo'.op, {"kind", "commit", "todo", "branch", "orig"})
            /\ repo'.op.branch = m.op.branch /\ repo'.op.orig = m.op.orig
        <4> DEFINE o == m.op
                   t == Tail(o.todo)
        <4>1. repo'.op = [[o EXCEPT !.commit = c] EXCEPT !.todo = t]
          BY <3>2, <3>3, <3>5 DEF Is, RepoFields
        <4> HIDE DEF t
        <4> QED BY <3>5, <4>1 DEF Is
      <3>8. HeadOK(repo')
        BY <3>4, <3>6, HeadStays DEF Grounded, Ids
      <3>9. Grounded(repo') /\ Longer(m.dag, repo'.dag)
        BY <3>4, <3>5, <3>6, <3>7, <3>8, OperationHeadGrounded
      <3>10. Longer(repo.dag, repo'.dag)
        BY <3>4, <3>9
      <3> QED BY <1>1, <3>1, <3>9, <3>10, GotoHolds DEF Watched, StashPlaces
    <2> QED BY <2>1, <2>2, <2>3
  <1>7. CASE RebaseCommit
    <2>1. CASE Stop(1)
      BY <1>1, <2>1, StopHolds
    <2>2. CASE ~Stop(1)
      <3>1. Goto("next") /\ (repo' = repo \/ repo' = CommitTree(repo, repo.index, <<HeadCommit(repo)>>))
        BY <1>7, <2>2 DEF RebaseCommit
      <3>2. <<HeadCommit(repo)>> \in Seq(Ids(repo))
        BY <1>1, HeadTyped
      <3>3. Grounded(repo') /\ Longer(repo.dag, repo'.dag)
        BY <1>1, <3>1, <3>2, CommitTreeGrounded, LongerSelf DEF Grounded
      <3> QED BY <1>1, <3>1, <3>3, GotoHolds DEF Watched, StashPlaces
    <2> QED BY <2>1, <2>2
  <1>8. CASE RebaseFinish
    <2> DEFINE b == repo.op.branch
               h == [branch |-> b, at |-> 0]
               m == [repo EXCEPT !.refs[b] = repo.head.at]
               n == [m EXCEPT !.head = [branch |-> b, at |-> 0]]
    <2>1. Goto("reset") /\ (repo' = Cleanup(repo) \/ repo' = Cleanup(n))
      <3>1. n = [repo EXCEPT !.refs[b] = repo.head.at, !.head = h]
        BY DEF Is, RepoFields
      <3> HIDE DEF n
      <3> QED BY <1>8, <3>1 DEF RebaseFinish
    <2>2. repo.head.at \in Ids(repo) /\ b \in Branches \cup {""} /\ 0 \in Ids(repo)
      BY <1>1, HeadTyped DEF Grounded, HeadOK, StateOK
    <2>3. Is(m, RepoFields) /\ m.dag = repo.dag
      BY DEF Is, RepoFields
    <2>4. Grounded(m) /\ Ids(m) = Ids(repo)
      BY <1>1, <2>2, <2>3, BranchSetGrounded DEF Ids
    <2> HIDE DEF m
    <2>5. Grounded(n)
      BY <2>2, <2>3, <2>4, NewHeadGrounded
    <2>6. Is(n, RepoFields) /\ n.dag = repo.dag
      BY <2>3 DEF Is, RepoFields
    <2> HIDE DEF n
    <2>7. Grounded(repo') /\ Longer(repo.dag, repo'.dag)
      BY <1>1, <2>1, <2>5, <2>6, CleanupGrounded
    <2> QED BY <1>1, <2>1, <2>7, GotoHolds DEF Watched, StashPlaces
  <1> QED BY <1>2, <1>3, <1>4, <1>5, <1>6, <1>7, <1>8

LEMMA StashPlaceHolds ==
    ASSUME HistoryInv, CmdShape, UNCHANGED <<before, server>>, cmd.pc # "idle", Command("stash"),
           NEW pc \in StashPlaces, Goto(pc), repo'.stash # <<>>,
           Grounded(repo'), Longer(repo.dag, repo'.dag), Onward(repo, repo')
    PROVE  HistoryInv'
  <1>1. cmd'.pc = pc /\ cmd'.request = cmd.request /\ cmd'.commit = cmd.commit
    BY GotoCommit
  <1>2. cmd'.commit \in Ids(repo') /\ ~IsOne(Picks)' /\ Named(cmd'.request)
    BY <1>1, LongerIds DEF HistoryInv, Remembered, Grounded, IsOne, Command, Picks
  <1>3. cmd'.pc \notin {"set_head", "message", "create", "forward", "pull_fetch", "pull_forward", "pull_merge",
                        "pull_commit", "push_connect", "push_update", "push_tips"}
    BY <1>1 DEF StashPlaces
  <1>4. Remembered'
    BY <1>2, <1>3 DEF Remembered, At
  <1>5. Throws' <=> Throws
    BY <1>1 DEF Throws, IsOne, Has
  <1> QED BY <1>4, <1>5, StepHolds

LEMMA StashHolds ==
    ASSUME HistoryInv, Is(repo, RepoFields), CmdShape, UNCHANGED server,
           \/ StashStart \/ StashPush \/ StashClear \/ StashBranch \/ StashHead
           \/ StashCheckout \/ StashApplied \/ StashDrop
    PROVE  HistoryInv'
  <1>1. UNCHANGED before /\ cmd.pc # "idle" /\ Command("stash") /\ ~IsOne(Picks) /\ Grounded(repo)
        /\ cmd.commit \in Ids(repo) /\ cmd.request.to \in Branches \cup {""}
        /\ (cmd.pc \in StashPlaces => repo.stash # <<>>)
    BY DEF StashStart, StashPush, StashClear, StashBranch, StashHead, StashCheckout, StashApplied, StashDrop,
           Rest, At, Command, IsOne, Picks, HistoryInv, Remembered, Named
  <1>2. Onward(repo, repo) /\ Longer(repo.dag, repo.dag)
    BY <1>1, OnwardSame, LongerSelf DEF Grounded
  <1>3. ASSUME repo.stash # <<>>, repo' = [repo EXCEPT !.stash = Tail(@)]
        PROVE  Grounded(repo') /\ Longer(repo.dag, repo'.dag) /\ Onward(repo, repo')
    <2>1. Grounded(repo') /\ Longer(repo.dag, repo'.dag) /\ repo'.refs = repo.refs
      BY <1>1, <1>3, StashTailGrounded
    <2> QED BY <1>1, <2>1, OnwardSame DEF Grounded
  <1>4. CASE StashStart
    <2>1. CASE \E rc \in {1, 2} : Stop(rc)
      BY <1>1, <2>1, StopHolds
    <2>2. CASE \E pc \in {"save", "clear"} : Goto(pc) /\ UNCHANGED repo
      BY <1>1, <2>2, SameSelf, GotoLooseHolds DEF Watched, StashPlaces
    <2>3. CASE repo.stash # <<>> /\ repo' = [repo EXCEPT !.stash = Tail(@)] /\ Exit(0)
      BY <1>1, <1>3, <2>3, ExitHolds
    <2>4. CASE repo.stash # <<>> /\ \E pc \in {"branch", "apply"} : Goto(pc) /\ UNCHANGED repo
      BY <1>1, <1>2, <2>4, StashPlaceHolds DEF StashPlaces
    <2> QED BY <1>4, <2>1, <2>2, <2>3, <2>4 DEF StashStart
  <1>5. CASE StashPush
    <2>1. CASE \E rc \in {0, 1} : Stop(rc)
      BY <1>1, <2>1, StopHolds
    <2>2. CASE ~\E rc \in {0, 1} : Stop(rc)
      <3>1. Exit(0) /\ \E x, y : repo' = StashSave(repo, x, y)
        BY <1>5, <2>2 DEF StashPush
      <3>2. Grounded(repo') /\ Longer(repo.dag, repo'.dag) /\ repo'.refs = repo.refs
        BY <1>1, <3>1, StashSaveGrounded
      <3>3. Onward(repo, repo')
        BY <1>1, <3>2, OnwardSame DEF Grounded
      <3> QED BY <1>1, <3>1, <3>2, <3>3, ExitHolds
    <2> QED BY <2>1, <2>2
  <1>6. CASE StashClear
    <2>1. CASE Stop(0)
      BY <1>1, <2>1, StopHolds
    <2>2. CASE ~Stop(0)
      <3>1. repo.stash # <<>> /\ repo' = [repo EXCEPT !.stash = Tail(@)] /\ cmd' = cmd /\ cmd.pc = "clear"
        BY <1>6, <2>2 DEF StashClear, At
      <3> QED BY <1>1, <1>3, <3>1, CalmHolds DEF Watched, StashPlaces
    <2> QED BY <2>1, <2>2
  <1>7. CASE StashBranch
    <2>1. CASE Stop(1)
      BY <1>1, <2>1, StopHolds
    <2>2. CASE ~Stop(1)
      <3> DEFINE new == cmd.request.to
                 c == repo.stash[1].base
      <3>1. repo.refs[new] = 0 /\ repo' = [repo EXCEPT !.refs[new] = c] /\ Goto("stash_head")
        BY <1>7, <2>2 DEF StashBranch
      <3>2. repo.stash # <<>>
        BY <1>1, <1>7 DEF StashBranch, At, StashPlaces
      <3>3. c \in Ids(repo)
        BY <1>1, <3>2, StashEntries
      <3> HIDE DEF c, new
      <3>4. Grounded(repo') /\ Longer(repo.dag, repo'.dag) /\ Onward(repo, repo')
        BY <1>1, <3>1, <3>3, BranchSetGrounded
      <3>5. repo'.stash = repo.stash
        BY <3>1 DEF Is, RepoFields
      <3> QED BY <1>1, <3>1, <3>2, <3>4, <3>5, StashPlaceHolds DEF StashPlaces
    <2> QED BY <2>1, <2>2
  <1>8. CASE StashHead
    <2>1. /\ Goto("stash_checkout") /\ repo' = [repo EXCEPT !.head = [branch |-> cmd.request.to, at |-> 0]]
          /\ repo.stash # <<>> /\ repo'.stash = repo.stash
      BY <1>1, <1>8 DEF StashHead, At, StashPlaces, Is, RepoFields
    <2>2. Grounded(repo') /\ Longer(repo.dag, repo'.dag) /\ Onward(repo, repo')
      BY <1>1, <2>1, NewHeadGrounded, HeadTyped
    <2> QED BY <1>1, <2>1, <2>2, StashPlaceHolds DEF StashPlaces
  <1>9. CASE StashCheckout
    <2>1. Goto("apply") /\ repo' = SafeCheckout(repo, HeadTree(repo), HeadTree(repo)) /\ repo.stash # <<>>
      BY <1>1, <1>9 DEF StashCheckout, At, StashPlaces
    <2>2. Same(repo, repo', Firm)
      BY <2>1, WriteFirm
    <2>3. Grounded(repo') /\ Longer(repo.dag, repo'.dag) /\ Onward(repo, repo') /\ repo'.stash = repo.stash
      BY <1>1, <2>2, GroundedStays, OnwardSame DEF Same, Firm, NameFields, Grounded
    <2> QED BY <1>1, <2>1, <2>3, StashPlaceHolds DEF StashPlaces
  <1>10. CASE StashApplied
    <2>1. CASE Stop(1)
      BY <1>1, <2>1, StopHolds
    <2>2. CASE ~Stop(1)
      <3>1. /\ \E e, x : repo' = StashApply(repo, e, x)
            /\ Goto("drop") \/ Exit(0)
            /\ repo.stash # <<>>
        BY <1>1, <1>10, <2>2 DEF StashApplied, At, StashPlaces
      <3>2. Same(repo, repo', Firm)
        BY <3>1, StashApplyFirm
      <3>3. Grounded(repo') /\ Longer(repo.dag, repo'.dag) /\ Onward(repo, repo') /\ repo'.stash = repo.stash
        BY <1>1, <3>2, GroundedStays, OnwardSame DEF Same, Firm, NameFields, Grounded
      <3>4. CASE Goto("drop")
        BY <1>1, <3>1, <3>3, <3>4, StashPlaceHolds DEF StashPlaces
      <3>5. CASE Exit(0)
        BY <1>1, <3>3, <3>5, ExitHolds
      <3> QED BY <3>1, <3>4, <3>5
    <2> QED BY <2>1, <2>2
  <1>11. CASE StashDrop
    <2>1. Exit(0) /\ repo' = [repo EXCEPT !.stash = Tail(@)] /\ repo.stash # <<>>
      BY <1>1, <1>11 DEF StashDrop, At, StashPlaces
    <2> QED BY <1>1, <1>3, <2>1, ExitHolds
  <1> QED BY <1>4, <1>5, <1>6, <1>7, <1>8, <1>9, <1>10, <1>11

\* Branches, tags, remote-tracking branches and upstreams are written.
LEMMA NamesGrounded ==
    ASSUME NEW r, NEW s, Grounded(r), Same(r, s, Firm \ NameFields), RefsOK(s)
    PROVE  Grounded(s) /\ Longer(r.dag, s.dag) /\ s.dag = r.dag
  <1>1. s.dag = r.dag /\ s.head = r.head /\ s.stash = r.stash /\ s.op = r.op
    BY DEF Same, Firm, NameFields
  <1>2. Ids(s) = Ids(r)
    BY <1>1 DEF Ids
  <1> QED BY <1>1, <1>2, HeadStays, StateStays, LongerSelf DEF Grounded

LEMMA NameTypes ==
    ASSUME NEW r, Grounded(r)
    PROVE  /\ r.refs \in [Branches -> Ids(r)] /\ r.tags \in [Tags -> Ids(r)] /\ r.annotated \subseteq Tags
           /\ r.tracking \in [Remotes -> [Branches -> Ids(r)]] /\ r.head.branch \in Branches \cup {""}
  BY DEF Grounded, RefsOK, HeadOK

LEMMA UpstreamTypes ==
    ASSUME NEW r, Grounded(r)
    PROVE  /\ Is(r.upstream, Branches)
           /\ \A b \in Branches : r.upstream[b][1] \in Remotes => r.upstream[b][2] \in Branches
  BY DEF Grounded, RefsOK

Put(f, k, v) == [f EXCEPT ![k] = v]
LEMMA PutAt ==
    ASSUME NEW f, NEW S, Is(f, S), NEW k, NEW v
    PROVE  Is(Put(f, k, v), S) /\ \A x \in S : Put(f, k, v)[x] = IF x = k THEN v ELSE f[x]
  <1>1. DOMAIN f = S
    BY DEF Is
  <1>2. \A x \in S : [f EXCEPT ![k] = v][x] = IF x = k THEN v ELSE f[x]
    BY <1>1
  <1> QED BY <1>2, ExceptIs DEF Put

LEMMA NoUpstreamIs == NoUpstream[1] \notin Remotes
  BY NamesAssumption DEF NoUpstream

\* An upstream is set, or taken away.
LEMMA UpstreamGrounded ==
    ASSUME NEW r, Is(r, RepoFields), Grounded(r), NEW b, NEW u,
           b \in Branches => (u[1] \in Remotes => u[2] \in Branches)
    PROVE  LET s == [r EXCEPT !.upstream[b] = u]
           IN  /\ Grounded(s) /\ Longer(r.dag, s.dag) /\ s.refs = r.refs /\ s.dag = r.dag
               /\ Is(s, RepoFields) /\ Onward(r, s)
  <1> DEFINE new == Put(r.upstream, b, u)
             s == [r EXCEPT !.upstream = new]
  <1>1. Is(r.upstream, Branches)
    BY UpstreamTypes
  <1>2. Is(new, Branches) /\ \A x \in Branches : new[x] = IF x = b THEN u ELSE r.upstream[x]
    BY <1>1, PutAt
  <1> HIDE DEF new
  <1>3. Same(r, s, Firm \ {"upstream"}) /\ s.upstream = new /\ Is(s, RepoFields)
    BY DEF Same, Firm, NameFields, Is, RepoFields
  <1> HIDE DEF s
  <1>4. /\ s.refs = r.refs /\ s.tags = r.tags /\ s.annotated = r.annotated /\ s.tracking = r.tracking
        /\ s.dag = r.dag /\ Same(r, s, Firm \ NameFields)
    BY <1>3 DEF Same, Firm, NameFields
  <1>5. Ids(s) = Ids(r)
    BY <1>4 DEF Ids
  <1>6. \A x \in Branches : s.upstream[x][1] \in Remotes => s.upstream[x][2] \in Branches
    BY <1>2, <1>3, UpstreamTypes
  <1>7. RefsOK(s)
    BY <1>2, <1>3, <1>4, <1>5, <1>6, NameTypes DEF RefsOK
  <1>8. Grounded(s) /\ Longer(r.dag, s.dag)
    BY <1>4, <1>7, NamesGrounded
  <1>9. Onward(r, s)
    BY <1>4, <1>8, OnwardSame DEF Grounded
  <1> QED BY <1>3, <1>4, <1>8, <1>9 DEF s, new, Put

\* A branch is written together with its upstream.
LEMMA BranchUpstreamGrounded ==
    ASSUME NEW r, Is(r, RepoFields), Grounded(r), NEW b, NEW c \in Ids(r), NEW u,
           b \in Branches => (u[1] \in Remotes => u[2] \in Branches)
    PROVE  LET s == [r EXCEPT !.refs[b] = c, !.upstream[b] = u]
           IN  Grounded(s) /\ Longer(r.dag, s.dag)
  <1> DEFINE m == [r EXCEPT !.refs[b] = c]
             s == [r EXCEPT !.refs[b] = c, !.upstream[b] = u]
  <1>1. s = [m EXCEPT !.upstream[b] = u] /\ Is(m, RepoFields) /\ m.dag = r.dag
    BY DEF Is, RepoFields
  <1>2. Grounded(m)
    BY BranchSetGrounded
  <1> HIDE DEF m
  <1>3. Grounded([m EXCEPT !.upstream[b] = u]) /\ [m EXCEPT !.upstream[b] = u].dag = m.dag
    BY <1>1, <1>2, UpstreamGrounded
  <1>4. Grounded(s) /\ s.dag = r.dag
    BY <1>1, <1>3
  <1> QED BY <1>4, LongerSelf DEF Grounded

LEMMA BranchHolds ==
    ASSUME HistoryInv, Is(repo, RepoFields), CmdShape,
           BranchWrong \/ BranchCreate \/ BranchDelete \/ BranchSetUpstream \/ BranchUnsetUpstream
    PROVE  HistoryInv'
  <1>1. UNCHANGED <<before, server>> /\ cmd.pc = "start" /\ ~IsOne(Picks) /\ Grounded(repo) /\ Throws
    BY DEF BranchWrong, BranchCreate, BranchDelete, BranchSetUpstream, BranchUnsetUpstream, BranchIs,
           Rest, At, Command, IsOne, Picks, HistoryInv, Throws
  <1>2. CASE \E rc \in {0, 1, 2, 128} : Stop(rc)
    BY <1>1, <1>2, StopHolds
  <1>3. CASE BranchWrong
    BY <1>2, <1>3 DEF BranchWrong
  <1>4. CASE BranchCreate /\ ~\E rc \in {0, 1, 2, 128} : Stop(rc)
    <2> DEFINE c == Resolve(repo, IF Count = 2 THEN Operand(2) ELSE "HEAD")
    <2>1. Exit(0) /\ repo' = [repo EXCEPT !.refs[Operand(1)] = c]
      BY <1>4 DEF BranchCreate
    <2>2. c \in Ids(repo)
      BY <1>1, Resolved
    <2> HIDE DEF c
    <2>3. Grounded(repo') /\ Longer(repo.dag, repo'.dag)
      BY <1>1, <2>1, <2>2, BranchSetGrounded
    <2> QED BY <1>1, <2>1, <2>3, ExitHolds
  <1>5. CASE BranchDelete /\ ~\E rc \in {0, 1, 2, 128} : Stop(rc)
    <2> DEFINE name == Operand(cmd.at + 1)
               u == IF Has("force") THEN repo.upstream[name] ELSE NoUpstream
    <2>1. cmd' = [cmd EXCEPT !.at = @ + 1] /\ repo' = [repo EXCEPT !.refs[name] = 0, !.upstream[name] = u]
      BY <1>5 DEF BranchDelete, Is, RepoFields
    <2>2. name \in Branches => (u[1] \in Remotes => u[2] \in Branches)
      BY <1>1, UpstreamTypes, NoUpstreamIs
    <2>3. 0 \in Ids(repo)
      BY <1>1, HeadTyped
    <2> HIDE DEF name, u
    <2>5. Grounded(repo') /\ Longer(repo.dag, repo'.dag)
      BY <1>1, <2>1, <2>2, <2>3, BranchUpstreamGrounded
    <2>6. cmd'.request = cmd.request /\ cmd'.commit = cmd.commit /\ cmd'.pc = "start"
      BY <1>1, <2>1 DEF CmdShape, Is, CmdFields
    <2> QED BY <1>1, <2>5, <2>6, CalmHolds DEF Watched, StashPlaces, PickPlaces
  <1>6. CASE (BranchSetUpstream \/ BranchUnsetUpstream) /\ ~\E rc \in {0, 1, 2, 128} : Stop(rc)
    <2>1. Exit(0) /\ \E branch, u : (u[1] \in Remotes => u[2] \in Branches)
                                    /\ repo' = [repo EXCEPT !.upstream[branch] = u]
      <3> DEFINE branch == IF Count = 1 THEN Operand(1) ELSE Current
      <3>1. CASE BranchUnsetUpstream
        <4>1. Exit(0) /\ repo' = [repo EXCEPT !.upstream[branch] = NoUpstream]
          BY <1>6, <3>1 DEF BranchUnsetUpstream
        <4> HIDE DEF branch
        <4> QED BY <4>1, NoUpstreamIs
      <3>2. CASE BranchSetUpstream
        <4> DEFINE u == UpstreamOf(repo, cmd.request.rev)
                   named == {k \in DOMAIN TrackingName : TrackingName[k] = cmd.request.rev
                                                         /\ repo.tracking[k[1]][k[2]] # 0}
        <4>1. Exit(0) /\ repo' = [repo EXCEPT !.upstream[branch] = u]
          BY <1>6, <3>2 DEF BranchSetUpstream
        <4>2. named = {} => (u[1] \in Remotes => u[2] \in Branches)
          BY NoUpstreamIs DEF UpstreamOf
        <4>3. named # {} => u \in Remotes \X Branches
          BY GitAssumption DEF UpstreamOf
        <4> HIDE DEF branch, u, named
        <4> QED BY <4>1, <4>2, <4>3
      <3> QED BY <1>6, <3>1, <3>2
    <2> PICK branch, u : (u[1] \in Remotes => u[2] \in Branches)
                         /\ repo' = [repo EXCEPT !.upstream[branch] = u]
      BY <2>1
    <2>5. Grounded(repo') /\ Longer(repo.dag, repo'.dag)
      BY <1>1, UpstreamGrounded
    <2> QED BY <1>1, <2>1, <2>5, ExitHolds
  <1> QED BY <1>2, <1>3, <1>4, <1>5, <1>6

LEMMA RenamedGrounded ==
    ASSUME NEW r, NEW s, Grounded(r), NEW old \in Branches, NEW new \in Branches,
           s.refs = [b \in Branches |-> IF b = new THEN r.refs[old] ELSE IF b = old THEN 0 ELSE r.refs[b]],
           s.upstream = [b \in Branches |-> IF b = new THEN r.upstream[old]
                                            ELSE IF b = old THEN NoUpstream ELSE r.upstream[b]],
           Is(s.head, {"branch", "at"}), s.head.at = r.head.at,
           s.head.branch = IF r.head.branch = old THEN new ELSE r.head.branch,
           Same(r, s, Firm \ {"refs", "upstream", "head"})
    PROVE  Grounded(s) /\ Longer(r.dag, s.dag)
  <1>1. /\ s.dag = r.dag /\ s.tags = r.tags /\ s.annotated = r.annotated /\ s.tracking = r.tracking
        /\ s.op = r.op /\ s.stash = r.stash
    BY DEF Same, Firm, NameFields
  <1>2. Ids(s) = Ids(r) /\ 0 \in Ids(r)
    BY <1>1, HeadTyped DEF Ids
  <1>3. s.refs \in [Branches -> Ids(s)]
    <2>1. r.refs \in [Branches -> Ids(r)]
      BY NameTypes
    <2>2. \A b \in Branches : (IF b = new THEN r.refs[old] ELSE IF b = old THEN 0 ELSE r.refs[b]) \in Ids(r)
      BY <1>2, <2>1
    <2> QED BY <1>2, <2>2
  <1>4. \A b \in Branches : s.upstream[b][1] \in Remotes => s.upstream[b][2] \in Branches
    <2> SUFFICES ASSUME NEW b \in Branches PROVE s.upstream[b][1] \in Remotes => s.upstream[b][2] \in Branches
      OBVIOUS
    <2>1. s.upstream[b] \in {r.upstream[old], NoUpstream, r.upstream[b]}
      OBVIOUS
    <2> QED BY <2>1, NoUpstreamIs, UpstreamTypes
  <1>5. Is(s.upstream, Branches)
    BY DEF Is
  <1>6. RefsOK(s)
    BY <1>1, <1>2, <1>3, <1>4, <1>5, NameTypes DEF RefsOK
  <1>7. HeadOK(s)
    BY <1>2 DEF Grounded, HeadOK
  <1>8. Graph(s.dag) /\ StateOK(s) /\ Longer(r.dag, s.dag)
    BY <1>1, <1>2, StateStays, LongerSelf DEF Grounded
  <1> QED BY <1>6, <1>7, <1>8 DEF Grounded

LEMMA ElementIs ==
    ASSUME NEW S, NEW p \in Seq(S)
    PROVE  Len(p) \in Nat /\ DOMAIN p = 1 .. Len(p) /\ \A i \in 1 .. Len(p) : p[i] \in S
  OBVIOUS

LEMMA MoveHolds ==
    ASSUME HistoryInv, Is(repo, RepoFields), CmdShape, BranchRename \/ BranchCopy
    PROVE  HistoryInv'
  <1>1. UNCHANGED <<before, server>> /\ cmd.pc = "start" /\ Grounded(repo) /\ Throws /\ Named(cmd.request)
        /\ Command("branch") /\ cmd.request.opts \cap {"move", "copy"} # {} /\ Count \in 1 .. 2
    BY DEF BranchRename, BranchCopy, BranchIs, BranchUsage, Rest, At, Command, IsOne, HistoryInv, Remembered,
           Throws, Has
  <1>2. CASE \E rc \in {1, 2, 128} : Stop(rc)
    BY <1>1, <1>2, StopHolds
  <1>3. CASE ~\E rc \in {1, 2, 128} : Stop(rc)
    <2>1. cmd.request.paths \in Seq(Branches)
      BY <1>1 DEF Named, Command
    <2>2. \A i \in 1 .. Count : Operand(i) \in Branches
      BY <2>1, ElementIs DEF Operand, Count
    <2>3. OldName # ""
      BY <1>3 DEF BranchRename, BranchCopy, FreedName, NotFound
    <2>4. NewName \in Branches /\ OldName \in Branches
      <3>1. Current \in Branches \cup {""}
        BY <1>1, NameTypes DEF Current
      <3>2. 1 \in 1 .. Count /\ Count \in 1 .. Count
        BY <1>1
      <3> QED BY <2>2, <2>3, <3>1, <3>2 DEF NewName, OldName
    <2>5. CASE BranchRename
      <3> DEFINE old == OldName
                 new == NewName
      <3>1. /\ Exit(0)
            /\ repo' = [repo EXCEPT
                     !.refs = [b \in Branches |-> IF b = new THEN @[old] ELSE IF b = old THEN 0 ELSE @[b]],
                     !.upstream = [b \in Branches |-> IF b = new THEN @[old]
                                                      ELSE IF b = old THEN NoUpstream ELSE @[b]],
                     !.head.branch = IF @ = old THEN new ELSE @]
        BY <1>3, <2>3, <2>5 DEF BranchRename, FreedName, NotFound
      <3> HIDE DEF old, new
      <3>2. /\ repo'.refs = [b \in Branches |-> IF b = new THEN repo.refs[old]
                                                ELSE IF b = old THEN 0 ELSE repo.refs[b]]
            /\ repo'.upstream = [b \in Branches |-> IF b = new THEN repo.upstream[old]
                                                    ELSE IF b = old THEN NoUpstream ELSE repo.upstream[b]]
            /\ Same(repo, repo', Firm \ {"refs", "upstream", "head"})
            /\ repo'.head = [repo.head EXCEPT !.branch = IF @ = old THEN new ELSE @]
        BY <3>1 DEF Is, RepoFields, Same, Firm, NameFields
      <3>4. Is(repo.head, {"branch", "at"})
        BY <1>1 DEF Grounded, HeadOK
      <3>5. /\ Is(repo'.head, {"branch", "at"}) /\ repo'.head.at = repo.head.at
            /\ repo'.head.branch = IF repo.head.branch = old THEN new ELSE repo.head.branch
        BY <3>2, <3>4 DEF Is
      <3>3. Grounded(repo') /\ Longer(repo.dag, repo'.dag)
        BY <1>1, <2>4, <3>2, <3>5, RenamedGrounded DEF old, new
      <3> QED BY <1>1, <3>1, <3>3, ExitHolds
    <2>6. CASE BranchCopy
      <3> DEFINE u == IF repo.upstream[OldName] # NoUpstream THEN repo.upstream[OldName] ELSE repo.upstream[NewName]
                 new == NewName
                 c == repo.refs[OldName]
      <3>1. Exit(0) /\ repo' = [repo EXCEPT !.refs[new] = c, !.upstream[new] = u]
        BY <1>3, <2>3, <2>6 DEF BranchCopy, FreedName, NotFound, Is, RepoFields
      <3>2. c \in Ids(repo) /\ (u[1] \in Remotes => u[2] \in Branches)
        BY <1>1, <2>4, NameTypes, UpstreamTypes
      <3> HIDE DEF u, new, c
      <3>3. Grounded(repo') /\ Longer(repo.dag, repo'.dag)
        BY <1>1, <3>1, <3>2, BranchUpstreamGrounded
      <3> QED BY <1>1, <3>1, <3>3, ExitHolds
    <2> QED BY <2>5, <2>6
  <1> QED BY <1>2, <1>3

LEMMA TagsGrounded ==
    ASSUME NEW r, Is(r, RepoFields), Grounded(r), NEW t, NEW c \in Ids(r), NEW a, a \subseteq Tags
    PROVE  LET s == [r EXCEPT !.tags[t] = c, !.annotated = a]
           IN  Grounded(s) /\ Longer(r.dag, s.dag) /\ Onward(r, s)
  <1> DEFINE new == Put(r.tags, t, c)
             s == [r EXCEPT !.tags = new, !.annotated = a]
  <1>1. r.tags \in [Tags -> Ids(r)] /\ new \in [Tags -> Ids(r)]
    BY NameTypes DEF Put
  <1> HIDE DEF new
  <1>2. /\ s.tags = new /\ s.annotated = a /\ Same(r, s, Firm \ NameFields)
        /\ s.refs = r.refs /\ s.tracking = r.tracking /\ s.upstream = r.upstream /\ s.dag = r.dag
    BY DEF Same, Firm, NameFields, Is, RepoFields
  <1> HIDE DEF s
  <1>3. Ids(s) = Ids(r)
    BY <1>2 DEF Ids
  <1>4. RefsOK(s)
    BY <1>1, <1>2, <1>3, NameTypes, UpstreamTypes DEF RefsOK
  <1>5. Grounded(s) /\ Longer(r.dag, s.dag)
    BY <1>2, <1>4, NamesGrounded
  <1>6. Onward(r, s)
    BY <1>2, <1>5, OnwardSame DEF Grounded
  <1> QED BY <1>5, <1>6 DEF s, new, Put

LEMMA TagHolds ==
    ASSUME HistoryInv, Is(repo, RepoFields), CmdShape, cmd.request.paths \in Seq(STRING), TagCreate \/ TagDelete
    PROVE  HistoryInv'
  <1>1. UNCHANGED <<before, server>> /\ cmd.pc = "start" /\ ~IsOne(Picks) /\ Grounded(repo) /\ Command("tag")
        /\ Named(cmd.request)
    BY DEF TagCreate, TagDelete, Rest, At, Command, IsOne, Picks, HistoryInv, Remembered
  <1>2. CASE \E rc \in {0, 1, 2, 128} : Stop(rc)
    BY <1>1, <1>2, StopHolds
  <1>3. CASE TagCreate /\ ~\E rc \in {0, 1, 2, 128} : Stop(rc)
    <2> DEFINE c == Resolve(repo, IF Count = 2 THEN Operand(2) ELSE "HEAD")
               t == Operand(1)
               a == IF Has("annotate") THEN repo.annotated \cup {t} ELSE repo.annotated \ {t}
    <2>1. Exit(0) /\ repo' = [repo EXCEPT !.tags[t] = c, !.annotated = a] /\ ~TagUsage /\ Has("create")
      BY <1>3 DEF TagCreate, Is, RepoFields
    <2>2. c \in Ids(repo)
      BY <1>1, Resolved
    <2>3. t \in Tags
      <3>1. Count \in 1 .. 2
        BY <2>1 DEF TagUsage
      <3>2. cmd.request.paths # <<>> /\ 1 \in DOMAIN cmd.request.paths
        BY <3>1, ElementIs DEF Count
      <3> QED BY <1>1, <2>1, <3>2 DEF Named, Command, Has, Operand
    <2>4. a \subseteq Tags
      BY <1>1, <2>3, NameTypes
    <2> HIDE DEF c, a, t
    <2>5. Grounded(repo') /\ Longer(repo.dag, repo'.dag) /\ Onward(repo, repo')
      BY <1>1, <2>1, <2>2, <2>4, TagsGrounded
    <2> QED BY <1>1, <2>1, <2>5, ExitHolds
  <1>4. CASE TagDelete /\ ~\E rc \in {0, 1, 2, 128} : Stop(rc)
    <2> DEFINE name == Operand(cmd.at + 1)
               a == repo.annotated \ {name}
    <2>1. cmd' = [cmd EXCEPT !.at = @ + 1] /\ repo' = [repo EXCEPT !.tags[name] = 0, !.annotated = a]
      BY <1>4 DEF TagDelete, Is, RepoFields
    <2>2. a \subseteq Tags /\ 0 \in Ids(repo)
      BY <1>1, NameTypes, HeadTyped
    <2> HIDE DEF name, a
    <2>3. Grounded(repo') /\ Longer(repo.dag, repo'.dag) /\ Onward(repo, repo')
      BY <1>1, <2>1, <2>2, TagsGrounded
    <2>4. cmd'.request = cmd.request /\ cmd'.commit = cmd.commit /\ cmd'.pc = "start"
      BY <1>1, <2>1 DEF CmdShape, Is, CmdFields
    <2> QED BY <1>1, <2>3, <2>4, CalmHolds DEF Watched, StashPlaces
  <1> QED BY <1>2, <1>3, <1>4

LEMMA FetchHolds ==
    ASSUME HistoryInv, Is(repo, RepoFields), CmdShape, FetchStart \/ FetchOne
    PROVE  HistoryInv'
  <1>1. UNCHANGED <<before, server>> /\ cmd.pc # "idle" /\ ~IsOne(Picks) /\ Grounded(repo) /\ Serves(server, repo)
    BY DEF FetchStart, FetchOne, Rest, At, Command, IsOne, Picks, HistoryInv, Remembered, PickPlaces
  <1>2. CASE \E rc \in {0, 1, 2} : Stop(rc)
    BY <1>1, <1>2, StopHolds
  <1>3. CASE FetchStart /\ ~\E rc \in {0, 1, 2} : Stop(rc)
    <2>1. repo' = repo /\ \E specs : cmd' = [cmd EXCEPT !.pc = "fetch", !.specs = specs]
      BY <1>3 DEF FetchStart
    <2>2. cmd'.request = cmd.request /\ cmd'.commit = cmd.commit /\ cmd'.pc = "fetch"
      BY <2>1 DEF CmdShape, Is, CmdFields
    <2> QED BY <1>1, <2>1, <2>2, LooseHolds, SameSelf DEF Watched, StashPlaces
  <1>4. CASE FetchOne /\ ~\E rc \in {0, 1, 2} : Stop(rc)
    <2> DEFINE wanted == IF cmd.request.paths # <<>> THEN ToSet(cmd.request.paths)
                         ELSE Fetched(repo, cmd.specs[1])
    <2>1. /\ cmd' = [cmd EXCEPT !.specs = Tail(@)] /\ cmd.pc = "fetch"
          /\ repo' = Downloaded(repo, cmd.specs[1], wanted, Has("prune"), TagMode)
      BY <1>4 DEF FetchOne
    <2> HIDE DEF wanted
    <2>2. Grounded(repo') /\ Longer(repo.dag, repo'.dag) /\ repo'.refs = repo.refs
      BY <1>1, <2>1, DownloadedGrounded
    <2>3. Onward(repo, repo')
      BY <1>1, <2>2, OnwardSame DEF Grounded
    <2>4. cmd'.request = cmd.request /\ cmd'.commit = cmd.commit /\ cmd'.pc = "fetch"
      BY <2>1 DEF CmdShape, Is, CmdFields
    <2> QED BY <1>1, <2>2, <2>3, <2>4, CalmHolds DEF Watched, StashPlaces
  <1> QED BY <1>2, <1>3, <1>4

LEMMA PullPlaceHolds ==
    ASSUME HistoryInv, UNCHANGED <<before, server>>, cmd.pc # "idle", ~IsOne(Picks), cmd'.request = cmd.request,
           cmd'.commit \in Ids(repo'), cmd'.pc \in {"pull_forward", "pull_merge", "pull_commit"},
           cmd'.at = HeadCommit(repo'),
           cmd'.pc = "pull_forward" => Reaches(repo', cmd'.commit, HeadCommit(repo')),
           Grounded(repo'), Longer(repo.dag, repo'.dag), Onward(repo, repo')
    PROVE  HistoryInv'
  <1>1. ~IsOne(Picks)' /\ Named(cmd'.request) /\ (Throws' <=> Throws)
    BY DEF HistoryInv, Remembered, IsOne, Throws, Has
  <1>2. cmd'.pc \notin StashPlaces \cup {"set_head", "message", "create", "forward", "pull_fetch", "push_connect",
                                         "push_update", "push_tips"}
    BY DEF StashPlaces
  <1>3. Remembered'
    BY <1>1, <1>2 DEF Remembered, At
  <1> QED BY <1>1, <1>3, StepHolds

LEMMA OriginIs == "origin" \in Remotes
  BY NamesAssumption

LEMMA PullFetchHolds ==
    ASSUME HistoryInv, Is(repo, RepoFields), CmdShape, cmd.request.paths \in Seq(STRING), PullStart \/ PullFetch
    PROVE  HistoryInv'
  <1>1. UNCHANGED <<before, server>> /\ cmd.pc # "idle" /\ ~IsOne(Picks) /\ Grounded(repo) /\ Serves(server, repo)
        /\ Named(cmd.request) /\ cmd.commit \in Ids(repo)
    BY DEF PullStart, PullFetch, Rest, At, Command, IsOne, Picks, HistoryInv, Remembered, PickPlaces
  <1>2. CASE \E rc \in {1, 2} : Stop(rc)
    BY <1>1, <1>2, StopHolds
  <1>3. CASE PullStart /\ ~\E rc \in {1, 2} : Stop(rc)
    <2>1. /\ repo' = repo /\ cmd' = [cmd EXCEPT !.pc = "pull_fetch", !.specs = PullFrom]
          /\ Command("pull") /\ Current # ""
      BY <1>3 DEF PullStart, At, OnBranch, Current
    <2>2. Current \in Branches
      BY <1>1, <2>1, NameTypes DEF Current
    <2>3. PullFrom[1] \in Remotes /\ PullFrom[2] \in Branches
      <3>1. cmd.request.paths \in Seq(Branches) /\ cmd.request.to \in Remotes \cup {""}
        BY <1>1, <2>1 DEF Named, Command
      <3>2. Count > 0 => Operand(1) \in Branches
        <4>1. /\ Count \in Nat /\ DOMAIN cmd.request.paths = 1 .. Count
              /\ \A i \in 1 .. Count : cmd.request.paths[i] \in Branches
          BY <3>1, ElementIs DEF Count
        <4>2. Count > 0 => 1 \in 1 .. Count
          BY <4>1
        <4> QED BY <4>1, <4>2 DEF Operand
      <3>3. repo.upstream[Current][1] \in Remotes => repo.upstream[Current][2] \in Branches
        BY <1>1, <2>2, UpstreamTypes
      <3>4. CASE cmd.request.to # ""
        BY <2>2, <3>1, <3>2, <3>4 DEF PullFrom
      <3>5. CASE cmd.request.to = ""
        <4>1. PullFrom = <<"origin", Current>>
              \/ (PullFrom = repo.upstream[Current] /\ repo.upstream[Current][1] \in Remotes)
          BY <3>5 DEF PullFrom
        <4> QED BY <2>2, <3>3, <4>1, OriginIs
      <3> QED BY <3>4, <3>5
    <2> HIDE DEF PullFrom
    <2>4. cmd'.request = cmd.request /\ cmd'.commit = cmd.commit /\ cmd'.pc = "pull_fetch" /\ cmd'.specs = PullFrom
      BY <2>1 DEF CmdShape, Is, CmdFields
    <2>5. Remembered'
      BY <1>1, <2>1, <2>3, <2>4 DEF Remembered, At, IsOne, StashPlaces
    <2>6. Onward(repo, repo) /\ Longer(repo.dag, repo.dag) /\ (Throws' <=> Throws)
      BY <1>1, <2>4, OnwardSame, LongerSelf DEF Grounded, Throws, IsOne, Has
    <2> QED BY <1>1, <2>1, <2>5, <2>6, StepHolds
  <1>4. CASE PullFetch /\ ~\E rc \in {1, 2} : Stop(rc)
    <2> DEFINE remote == cmd.specs[1]
               branch == cmd.specs[2]
               prune == FALSE
               got == Downloaded(repo, remote, {branch}, prune, "auto")
               rev == TrackingName[<<remote, branch>>]
    <2>1. /\ repo' = got
          /\ \/ Exit(1)
             \/ cmd' = [cmd EXCEPT !.request = [NoRequest EXCEPT !.name = "rebase", !.rev = rev], !.pc = "start"]
             \/ cmd' = [cmd EXCEPT !.pc = "pull_analysis", !.commit = got.tracking[remote][branch]]
      BY <1>4 DEF PullFetch
    <2>2. remote \in Remotes /\ branch \in Branches
      BY <1>4 DEF PullFetch, HistoryInv, Remembered
    <2> HIDE DEF remote, branch, rev, prune
    <2>3. Grounded(got) /\ Longer(repo.dag, got.dag) /\ got.refs = repo.refs
      BY <1>1, DownloadedGrounded
    <2> HIDE DEF got
    <2>4. got.tracking[remote][branch] \in Ids(got)
      <3>1. got.tracking \in [Remotes -> [Branches -> Ids(got)]]
        BY <2>3, NameTypes
      <3> QED BY <2>2, <3>1
    <2>5. Grounded(repo') /\ Longer(repo.dag, repo'.dag) /\ Onward(repo, repo')
      BY <1>1, <2>1, <2>3, OnwardSame DEF Grounded
    <2>6. CASE Exit(1)
      BY <1>1, <2>5, <2>6, ExitHolds
    <2>7. CASE cmd' = [cmd EXCEPT !.request = [NoRequest EXCEPT !.name = "rebase", !.rev = rev], !.pc = "start"]
      <3> DEFINE q == [NoRequest EXCEPT !.name = "rebase", !.rev = rev]
      <3>1. cmd' = [cmd EXCEPT !.request = q, !.pc = "start"] /\ q.name = "rebase"
        BY <2>7 DEF NoRequest
      <3> HIDE DEF q
      <3>2. cmd'.request = q /\ cmd'.commit = cmd.commit /\ cmd'.pc = "start"
        BY <3>1 DEF CmdShape, Is, CmdFields
      <3>3. Named(cmd'.request) /\ ~IsOne(Picks)' /\ Throws'
        BY <3>1, <3>2 DEF Named, IsOne, Picks, Throws
      <3>4. cmd'.commit \in Ids(repo')
        BY <1>1, <2>5, <3>2, LongerIds DEF Grounded
      <3>5. Remembered'
        BY <3>1, <3>2, <3>3, <3>4 DEF Remembered, At, Command, StashPlaces
      <3> QED BY <1>1, <2>5, <3>3, <3>5, StepHolds
    <2>8. CASE cmd' = [cmd EXCEPT !.pc = "pull_analysis", !.commit = got.tracking[remote][branch]]
      <3>1. cmd'.request = cmd.request /\ cmd'.commit = got.tracking[remote][branch] /\ cmd'.pc = "pull_analysis"
        BY <2>8 DEF CmdShape, Is, CmdFields
      <3> QED BY <1>1, <2>1, <2>4, <2>5, <3>1, CalmHolds DEF Watched, StashPlaces
    <2> QED BY <2>1, <2>6, <2>7, <2>8
  <1> QED BY <1>2, <1>3, <1>4

LEMMA PullHolds ==
    ASSUME HistoryInv, Is(repo, RepoFields), CmdShape, PullAnalysis \/ PullForward \/ PullMerge \/ PullCommit
    PROVE  HistoryInv'
  <1>1. UNCHANGED <<before, server>> /\ cmd.pc # "idle" /\ ~IsOne(Picks) /\ Grounded(repo)
        /\ cmd.commit \in Ids(repo)
    BY DEF PullAnalysis, PullForward, PullMerge, PullCommit, Rest, IsOne, HistoryInv, Remembered, PickPlaces
  <1>2. CASE \E rc \in {0, 1} : Stop(rc)
    BY <1>1, <1>2, StopHolds
  <1>3. CASE PullAnalysis /\ ~\E rc \in {0, 1} : Stop(rc)
    <2> DEFINE found == Analysis(repo, cmd.commit)
               merging == found # "fastforward" \/ Has("no_ff")
               pc == IF ~merging THEN "pull_forward" ELSE IF found = "fastforward" THEN "pull_commit" ELSE "pull_merge"
               head == HeadCommit(repo)
    <2>1. /\ cmd' = [cmd EXCEPT !.at = head, !.index = TreeOf(repo, cmd.commit), !.pc = pc]
          /\ repo' = repo
      BY <1>3 DEF PullAnalysis
    <2>2. pc \in {"pull_forward", "pull_merge", "pull_commit"}
          /\ (pc = "pull_forward" => Reaches(repo, cmd.commit, HeadCommit(repo)))
      BY <1>1, ForwardReaches
    <2> HIDE DEF found, merging, pc, head
    <2>3. cmd'.request = cmd.request /\ cmd'.commit = cmd.commit /\ cmd'.pc = pc /\ cmd'.at = head
      BY <2>1 DEF CmdShape, Is, CmdFields
    <2>4. Onward(repo, repo) /\ Longer(repo.dag, repo.dag)
      BY <1>1, OnwardSame, LongerSelf DEF Grounded
    <2> QED BY <1>1, <2>1, <2>2, <2>3, <2>4, PullPlaceHolds DEF head
  <1>4. CASE PullForward
    <2>1. /\ repo' = [repo EXCEPT !.refs[Current] = cmd.commit] /\ Goto("checkout_head")
          /\ Reaches(repo, cmd.commit, HeadCommit(repo))
      BY <1>4 DEF PullForward, HistoryInv, Remembered
    <2>2. Current \in Branches => HeadCommit(repo) = repo.refs[Current]
      BY GitAssumption DEF HeadCommit, Current
    <2> HIDE DEF Current
    <2>3. Grounded(repo') /\ Longer(repo.dag, repo'.dag) /\ Onward(repo, repo')
      BY <1>1, <2>1, <2>2, BranchSetGrounded
    <2> QED BY <1>1, <2>1, <2>3, GotoHolds DEF Watched, StashPlaces
  <1>5. CASE PullMerge /\ ~\E rc \in {0, 1} : Stop(rc)
    <2> DEFINE base == TreeOf(repo, MergeBase(repo.dag, HeadCommit(repo), cmd.commit))
               theirs == TreeOf(repo, cmd.commit)
               applied == Apply(repo, base, theirs)
    <2>1. /\ cmd.at = HeadCommit(repo)
          /\ \/ repo' = Cleanup(applied) /\ Exit(1)
             \/ /\ repo' = [applied EXCEPT !.op = Operation("merge", cmd.commit)]
                /\ cmd' = [cmd EXCEPT !.pc = "pull_commit", !.index = applied.index]
      BY <1>5 DEF PullMerge, HistoryInv, Remembered
    <2> HIDE DEF base, theirs
    <2>2. Grounded(repo') /\ Longer(repo.dag, repo'.dag) /\ Onward(repo, repo') /\ repo'.dag = repo.dag
          /\ HeadCommit(repo') = HeadCommit(repo)
      BY <1>1, <2>1, ApplyOperation
    <2> HIDE DEF applied
    <2>3. CASE Exit(1)
      BY <1>1, <2>2, <2>3, ExitHolds
    <2>4. CASE cmd' = [cmd EXCEPT !.pc = "pull_commit", !.index = applied.index]
      <3>1. cmd'.request = cmd.request /\ cmd'.commit = cmd.commit /\ cmd'.pc = "pull_commit" /\ cmd'.at = cmd.at
        BY <2>4 DEF CmdShape, Is, CmdFields
      <3>2. cmd'.commit \in Ids(repo')
        BY <1>1, <2>2, <3>1 DEF Ids
      <3> QED BY <1>1, <2>1, <2>2, <3>1, <3>2, PullPlaceHolds
    <2> QED BY <2>1, <2>3, <2>4
  <1>6. CASE PullCommit
    <2> DEFINE m == CommitTree(repo, cmd.index, <<cmd.at, cmd.commit>>)
    <2>1. repo' = Cleanup(m) /\ Goto("checkout_head") /\ cmd.at = HeadCommit(repo)
      BY <1>6 DEF PullCommit, HistoryInv, Remembered
    <2>2. <<cmd.at, cmd.commit>> \in Seq(Ids(repo)) /\ HeadCommit(repo) \in ToSet(<<cmd.at, cmd.commit>>)
      BY <1>1, <2>1, HeadTyped DEF ToSet
    <2>3. Is(m, RepoFields) /\ Grounded(m) /\ Longer(repo.dag, m.dag) /\ Onward(repo, m)
      BY <1>1, <2>2, CommitTreeGrounded, CommitTreeIs
    <2> HIDE DEF m
    <2>4. Grounded(repo') /\ repo'.dag = m.dag /\ repo'.refs = m.refs
      BY <2>1, <2>3, CleanupGrounded
    <2>5. Longer(repo.dag, repo'.dag) /\ Onward(repo, repo')
      BY <2>3, <2>4 DEF Onward, Reaches
    <2> QED BY <1>1, <2>1, <2>4, <2>5, GotoHolds DEF Watched, StashPlaces
  <1> QED BY <1>2, <1>3, <1>4, <1>5, <1>6

-----------------------------------------------------------------------------
(* push: what is pushed are finitely many updates, each to a commit.       *)

LEMMA SetToSeqIs ==
    ASSUME NEW S, IsFiniteSet(S)
    PROVE  \A i \in DOMAIN SetToSeq(S) : SetToSeq(S)[i] \in S
  <1> DEFINE n == Cardinality(S)
  <1>1. ExistsBijection(1 .. n, S)
    BY FS_CardinalityType
  <1>2. \E f \in [1 .. n -> S] : IsInjective(f)
    BY <1>1 DEF ExistsBijection, Bijection, Injection
  <1> HIDE DEF n
  <1>3. (CHOOSE f \in [1 .. n -> S] : IsInjective(f)) \in [1 .. n -> S]
    BY <1>2
  <1>4. SetToSeq(S) \in [1 .. n -> S]
    BY <1>3 DEF SetToSeq, n
  <1> QED BY <1>4

LEMMA FiniteRecords ==
    ASSUME NEW K, NEW N, NEW I, IsFiniteSet(K), IsFiniteSet(N), IsFiniteSet(I)
    PROVE  IsFiniteSet([kind : K, name : N, to : I])
  <1> DEFINE P == (K \X N) \X I
             R == [kind : K, name : N, to : I]
             f == [p \in P |-> [kind |-> p[1][1], name |-> p[1][2], to |-> p[2]]]
  <1>1. IsFiniteSet(P)
    <2>1. IsFiniteSet(K \X N)
      BY FS_Product
    <2> QED BY <2>1, FS_Product
  <1>2. f \in [P -> R]
    OBVIOUS
  <1>3. \A r \in R : \E p \in P : f[p] = r
    <2> TAKE r \in R
    <2>1. <<<<r.kind, r.name>>, r.to>> \in P
      OBVIOUS
    <2>2. f[<<<<r.kind, r.name>>, r.to>>] = r
      BY <2>1
    <2> QED BY <2>1, <2>2
  <1> HIDE DEF P, R, f
  <1>4. f \in Surjection(P, R)
    BY <1>2, <1>3 DEF Surjection
  <1>5. IsFiniteSet(R)
    BY <1>1, <1>4, FS_Surjection
  <1> QED BY <1>5 DEF R

LEMMA PushSpecsAre ==
    ASSUME Grounded(repo), cmd.request.paths \in Seq(Branches), Count = 0 /\ ~Has("all") => Current \in Branches
    PROVE  IsFiniteSet(PushSpecs) /\ \A s \in PushSpecs : s.to \in Ids(repo)
  <1> DEFINE R == [kind : {"branch", "tag"}, name : Branches \cup Tags, to : Ids(repo)]
  <1>1. /\ repo.refs \in [Branches -> Ids(repo)] /\ repo.tags \in [Tags -> Ids(repo)] /\ repo.annotated \subseteq Tags
        /\ 0 \in Ids(repo) /\ Ids(repo) = 0 .. Len(repo.dag) /\ Len(repo.dag) \in Nat
    BY NameTypes, HeadTyped DEF Ids
  <1>2. \A b \in Branches : BranchSpec(b) \in R /\ DeleteSpec(b) \in R
    BY <1>1 DEF BranchSpec, DeleteSpec
  <1>3. \A t \in Tags : TagSpec(t) \in R
    BY <1>1 DEF TagSpec
  <1>4. \A i \in 1 .. Count : cmd.request.paths[i] \in Branches
    BY ElementIs DEF Count
  <1>5. \A specs : FollowedTags(specs) \subseteq R
    BY <1>1, <1>3 DEF FollowedTags
  <1>6. IsFiniteSet(R)
    <2>1. IsFiniteSet({"branch", "tag"})
      <3>1. IsFiniteSet({"branch"}) /\ {"branch", "tag"} = {"branch"} \cup {"tag"}
        BY FS_Singleton
      <3> QED BY <3>1, FS_AddElement
    <2>2. IsFiniteSet(Branches \cup Tags)
      BY NamesAssumption, FS_Union
    <2>3. IsFiniteSet(Ids(repo))
      BY <1>1, FS_Interval
    <2> QED BY <2>1, <2>2, <2>3, FiniteRecords
  <1>7. \A s \in R : s.to \in Ids(repo)
    OBVIOUS
  <1> HIDE DEF R
  <1>8. PushSpecs \subseteq R
    <2> DEFINE branches == IF Has("all") THEN {BranchSpec(b) : b \in {b \in Branches : repo.refs[b] # 0}}
                           ELSE IF Has("delete") THEN {DeleteSpec(cmd.request.paths[i]) : i \in 1 .. Count}
                           ELSE IF Count = 0 THEN {BranchSpec(Current)}
                           ELSE {BranchSpec(cmd.request.paths[i]) : i \in 1 .. Count}
               tags == IF Has("tags") THEN {TagSpec(t) : t \in {t \in Tags : repo.tags[t] # 0}} ELSE {}
    <2>1. branches \subseteq R
      BY <1>2, <1>4
    <2>2. tags \subseteq R
      BY <1>3
    <2>3. PushSpecs = branches \cup tags \cup (IF Has("follow_tags") THEN FollowedTags(branches) ELSE {})
      BY DEF PushSpecs
    <2> HIDE DEF branches, tags
    <2> QED BY <1>5, <2>1, <2>2, <2>3
  <1>9. IsFiniteSet(PushSpecs)
    BY <1>6, <1>8, FS_Subset
  <1> QED BY <1>7, <1>8, <1>9

\* What the server takes of a push, and where a name of it is afterwards.
Taken == {cmd.specs[i] : i \in {i \in DOMAIN cmd.specs : Advertised(cmd.specs[i]) = cmd.seen[i]}}
TakenTo(kind, name) == {s.to : s \in {s \in Taken : s.kind = kind /\ s.name = name}}
Moved(kind, old, name) == IF TakenTo(kind, name) = {} THEN old ELSE CHOOSE c \in TakenTo(kind, name) : TRUE

LEMMA MovedIs ==
    ASSUME NEW kind, NEW old, NEW name
    PROVE  Moved(kind, old, name) = old \/ Moved(kind, old, name) \in TakenTo(kind, name)
  BY DEF Moved

LEMMA TakenIs ==
    ASSUME HistoryInv, cmd.pc = "push_update", NEW kind, NEW name, NEW c \in TakenTo(kind, name)
    PROVE  /\ c \in Ids(repo)
           /\ kind = "branch" /\ ~Has("force") /\ ~Has("delete") /\ server.refs[name] # 0 =>
                  server.refs[name] \in History(repo.dag, c)
  <1>1. PICK i \in DOMAIN cmd.specs : /\ Advertised(cmd.specs[i]) = cmd.seen[i] /\ c = cmd.specs[i].to
                                      /\ cmd.specs[i].kind = kind /\ cmd.specs[i].name = name
    BY DEF TakenTo, Taken
  <1>2. /\ cmd.specs[i].to \in Ids(repo) /\ Forward(cmd.specs[i], cmd.seen[i])
        /\ ~Has("delete") => cmd.specs[i].to # 0
    BY DEF HistoryInv, Remembered
  <1>3. kind = "branch" => cmd.seen[i] = server.refs[name]
    BY <1>1 DEF Advertised
  <1> QED BY <1>1, <1>2, <1>3 DEF Forward

\* The update as the server makes it, in these words.
LEMMA PushUpdateIs ==
    ASSUME PushUpdate, Serves(server, repo), CmdShape
    PROVE  /\ cmd.pc = "push_update" /\ UNCHANGED <<repo, before>>
           /\ Is(server', {"refs", "tags", "auth", "head"})
           /\ server'.refs = [b \in Branches |-> Moved("branch", server.refs[b], b)]
           /\ server'.tags = [t \in Tags |-> Moved("tag", server.tags[t], t)]
           /\ cmd' = [cmd EXCEPT !.pc = "push_tips",
                        !.index = [b \in Fetched(repo, PushTo) |-> Moved("branch", repo.tracking[PushTo][b], b)]]
  <1>1. /\ cmd.pc = "push_update" /\ UNCHANGED <<repo, before>>
        /\ server' = [server EXCEPT
                  !.refs = [b \in Branches |-> Moved("branch", server.refs[b], b)],
                  !.tags = [t \in Tags |-> Moved("tag", server.tags[t], t)]]
        /\ cmd' = [cmd EXCEPT !.pc = "push_tips",
                        !.index = [b \in Fetched(repo, PushTo) |-> Moved("branch", repo.tracking[PushTo][b], b)]]
    BY DEF PushUpdate, Rest, Moved, TakenTo, Taken, PushTo
  <1>2. Is(server, {"refs", "tags", "auth", "head"})
    BY DEF Serves
  <1> QED BY <1>1, <1>2 DEF Is

LEMMA PushHolds ==
    ASSUME HistoryInv, Is(repo, RepoFields), CmdShape, PushStart \/ PushConnect \/ PushTips \/ PushUpstream
    PROVE  HistoryInv'
  <1>1. UNCHANGED <<before, server>> /\ cmd.pc # "idle" /\ ~IsOne(Picks) /\ Grounded(repo) /\ Named(cmd.request)
        /\ cmd.commit \in Ids(repo)
    BY DEF PushStart, PushConnect, PushTips, PushUpstream, Rest, At, Command, IsOne, Picks, HistoryInv,
           Remembered, PickPlaces
  <1>2. CASE \E rc \in {0, 1, 2} : Stop(rc)
    BY <1>1, <1>2, StopHolds
  <1>3. Onward(repo, repo) /\ Longer(repo.dag, repo.dag)
    BY <1>1, OnwardSame, LongerSelf DEF Grounded
  <1>4. CASE PushStart /\ ~\E rc \in {0, 1, 2} : Stop(rc)
    <2>1. /\ repo' = repo /\ cmd' = [cmd EXCEPT !.pc = "push_connect", !.specs = SetToSeq(PushSpecs)]
          /\ Command("push") /\ (Count = 0 /\ ~Has("all") => Current # "")
      BY <1>4 DEF PushStart, At, OnBranch, Current
    <2>2. cmd.request.paths \in Seq(Branches)
      BY <1>1, <2>1 DEF Named, Command
    <2>3. Count = 0 /\ ~Has("all") => Current \in Branches
      BY <1>1, <2>1, NameTypes DEF Current
    <2>4. \A i \in DOMAIN SetToSeq(PushSpecs) : SetToSeq(PushSpecs)[i].to \in Ids(repo)
      BY <1>1, <2>2, <2>3, PushSpecsAre, SetToSeqIs
    <2>5. cmd'.request = cmd.request /\ cmd'.commit = cmd.commit /\ cmd'.pc = "push_connect"
          /\ cmd'.specs = SetToSeq(PushSpecs)
      BY <2>1 DEF CmdShape, Is, CmdFields
    <2> HIDE DEF PushSpecs
    <2>6. Remembered'
      BY <1>1, <2>1, <2>4, <2>5 DEF Remembered, At, IsOne, StashPlaces
    <2>7. Throws' <=> Throws
      BY <2>5 DEF Throws, IsOne, Has
    <2> QED BY <1>1, <1>3, <2>1, <2>6, <2>7, StepHolds
  <1>5. CASE PushConnect /\ ~\E rc \in {0, 1, 2} : Stop(rc)
    <2> DEFINE told == [i \in DOMAIN cmd.specs |-> Advertised(cmd.specs[i])]
    <2>1. /\ repo' = repo /\ cmd' = [cmd EXCEPT !.pc = "push_update", !.seen = told]
          /\ \A i \in DOMAIN cmd.specs : Forward(cmd.specs[i], told[i]) /\ (~Has("delete") => cmd.specs[i].to # 0)
          /\ \A i \in DOMAIN cmd.specs : cmd.specs[i].to \in Ids(repo)
      BY <1>5 DEF PushConnect, HistoryInv, Remembered
    <2> HIDE DEF told
    <2>2. cmd'.request = cmd.request /\ cmd'.commit = cmd.commit /\ cmd'.pc = "push_update"
          /\ cmd'.specs = cmd.specs /\ cmd'.seen = told
      BY <2>1 DEF CmdShape, Is, CmdFields
    <2>3. \A s, old : Forward(s, old)' <=> Forward(s, old)
      BY <2>1, <2>2 DEF Forward, Has
    <2>4. Has("delete")' <=> Has("delete")
      BY <2>2 DEF Has
    <2>5. (\A i \in DOMAIN cmd.specs : /\ Forward(cmd.specs[i], cmd.seen[i])
                                       /\ ~Has("delete") => cmd.specs[i].to # 0)'
      BY <2>1, <2>2, <2>3, <2>4
    <2>8. \A i \in DOMAIN cmd'.specs : cmd'.specs[i].to \in Ids(repo')
      BY <2>1, <2>2
    <2>9. ~IsOne(Picks)' /\ Named(cmd'.request) /\ cmd'.commit \in Ids(repo')
      BY <1>1, <2>1, <2>2 DEF IsOne
    <2>6. Remembered'
      BY <2>2, <2>5, <2>8, <2>9 DEF Remembered, At, StashPlaces
    <2>7. Throws' <=> Throws
      BY <2>2 DEF Throws, IsOne, Has
    <2> QED BY <1>1, <1>3, <2>1, <2>6, <2>7, StepHolds
  <1>6. CASE PushTips
    <2> DEFINE now == [b \in Branches |-> IF b \in DOMAIN cmd.index THEN cmd.index[b]
                                          ELSE repo.tracking[PushTo][b]]
               tracking == Put(repo.tracking, PushTo, now)
    <2>1. /\ Goto("push_upstream") /\ repo' = [repo EXCEPT !.tracking[PushTo] = now]
          /\ (PushTo \in Remotes => cmd.index \in [Fetched(repo, PushTo) -> Ids(repo)])
      BY <1>6 DEF PushTips, PushTo, HistoryInv, Remembered
    <2> HIDE DEF now
    <2>2. repo'.tracking = tracking /\ Same(repo, repo', Firm \ {"tracking"})
      BY <2>1 DEF Put, Is, RepoFields, Same, Firm, NameFields
    <2>3. repo.tracking \in [Remotes -> [Branches -> Ids(repo)]]
      BY <1>1, NameTypes
    <2>4. PushTo \in Remotes => now \in [Branches -> Ids(repo)]
      <3> SUFFICES ASSUME PushTo \in Remotes PROVE now \in [Branches -> Ids(repo)]
        OBVIOUS
      <3>1. Fetched(repo, PushTo) \subseteq Branches
        BY DEF Fetched
      <3>2. repo.tracking[PushTo] \in [Branches -> Ids(repo)]
        BY <2>3
      <3> QED BY <2>1, <3>1, <3>2 DEF now
    <2>5. tracking \in [Remotes -> [Branches -> Ids(repo)]]
      BY <2>3, <2>4 DEF Put
    <2> HIDE DEF tracking
    <2>6. /\ repo'.refs = repo.refs /\ repo'.tags = repo.tags /\ repo'.annotated = repo.annotated
          /\ repo'.upstream = repo.upstream /\ repo'.dag = repo.dag /\ Same(repo, repo', Firm \ NameFields)
      BY <2>2 DEF Same, Firm, NameFields
    <2>7. Ids(repo') = Ids(repo)
      BY <2>6 DEF Ids
    <2>8. RefsOK(repo')
      BY <1>1, <2>2, <2>5, <2>6, <2>7, NameTypes, UpstreamTypes DEF RefsOK
    <2>9. Grounded(repo') /\ Longer(repo.dag, repo'.dag)
      BY <1>1, <2>6, <2>8, NamesGrounded
    <2>10. Onward(repo, repo')
      BY <1>1, <2>6, <2>9, OnwardSame DEF Grounded
    <2> QED BY <1>1, <2>1, <2>9, <2>10, GotoHolds DEF Watched, StashPlaces
  <1>7. CASE PushUpstream
    <2> DEFINE u == <<PushTo, Current>>
    <2>1. Exit(0) /\ (repo' = repo \/ (Current # "" /\ repo' = [repo EXCEPT !.upstream[Current] = u]))
      BY <1>7 DEF PushUpstream, PushTo, OnBranch, Current
    <2>2. CASE repo' = repo
      BY <1>1, <1>3, <2>1, <2>2, ExitHolds
    <2>3. CASE Current # "" /\ repo' = [repo EXCEPT !.upstream[Current] = u]
      <3>1. Current \in Branches
        BY <1>1, <2>3, NameTypes DEF Current
      <3>2. u[1] \in Remotes => u[2] \in Branches
        BY <3>1
      <3> HIDE DEF u, Current
      <3>3. Grounded(repo') /\ Longer(repo.dag, repo'.dag) /\ Onward(repo, repo')
        BY <1>1, <2>3, <3>2, UpstreamGrounded
      <3> QED BY <1>1, <2>1, <3>3, ExitHolds
    <2> QED BY <2>1, <2>2, <2>3
  <1> QED BY <1>2, <1>4, <1>5, <1>6, <1>7

LEMMA PushUpdateHolds ==
    ASSUME HistoryInv, Is(repo, RepoFields), CmdShape, PushUpdate
    PROVE  HistoryInv'
  <1>1. Grounded(repo) /\ Serves(server, repo) /\ cmd.pc = "push_update" /\ UNCHANGED <<repo, before>>
    BY PushUpdateIs DEF HistoryInv, PushUpdate
  <1>2. ~IsOne(Picks) /\ Named(cmd.request) /\ cmd.commit \in Ids(repo)
    BY <1>1 DEF HistoryInv, Remembered, PickPlaces
  <1>3. server.refs \in [Branches -> Ids(repo)] /\ server.tags \in [Tags -> Ids(repo)]
    BY <1>1 DEF Serves
  <1>4. /\ \A b \in Branches : Moved("branch", server.refs[b], b) \in Ids(repo)
        /\ \A t \in Tags : Moved("tag", server.tags[t], t) \in Ids(repo)
    BY <1>1, <1>3, MovedIs, TakenIs
  <1>5. server'.refs \in [Branches -> Ids(repo)] /\ server'.tags \in [Tags -> Ids(repo)]
    BY <1>1, <1>4, PushUpdateIs
  <1>6. Serves(server', repo')
    BY <1>1, <1>5, PushUpdateIs DEF Serves
  <1> DEFINE index == [b \in Fetched(repo, PushTo) |-> Moved("branch", repo.tracking[PushTo][b], b)]
  <1>7. PushTo \in Remotes => index \in [Fetched(repo, PushTo) -> Ids(repo)]
    <2> SUFFICES ASSUME PushTo \in Remotes, NEW b \in Fetched(repo, PushTo)
                 PROVE  Moved("branch", repo.tracking[PushTo][b], b) \in Ids(repo)
      OBVIOUS
    <2>1. b \in Branches
      BY DEF Fetched
    <2>2. repo.tracking[PushTo][b] \in Ids(repo)
      <3>1. repo.tracking \in [Remotes -> [Branches -> Ids(repo)]]
        BY <1>1, NameTypes
      <3> QED BY <2>1, <3>1
    <2> QED BY <1>1, <2>2, MovedIs, TakenIs
  <1>8. cmd' = [cmd EXCEPT !.pc = "push_tips", !.index = index]
    BY <1>1, PushUpdateIs
  <1> HIDE DEF index
  <1>9. cmd'.request = cmd.request /\ cmd'.commit = cmd.commit /\ cmd'.pc = "push_tips" /\ cmd'.index = index
    BY <1>8 DEF CmdShape, Is, CmdFields
  <1>10. PushTo' = PushTo /\ (Throws' <=> Throws) /\ ~IsOne(Picks)'
    BY <1>2, <1>9 DEF PushTo, Throws, IsOne, Has
  <1>11. cmd'.pc = "push_tips" /\ (PushTo' \in Remotes => cmd'.index \in [Fetched(repo', PushTo') -> Ids(repo')])
    BY <1>1, <1>7, <1>9, <1>10
  <1>12. Remembered'
    BY <1>1, <1>2, <1>9, <1>10, <1>11 DEF Remembered, At, StashPlaces
  <1>13. Onward(repo, repo) /\ Longer(repo.dag, repo.dag)
    BY <1>1, OnwardSame, LongerSelf DEF Grounded
  <1> QED BY <1>1, <1>6, <1>10, <1>12, <1>13, StepHolds

-----------------------------------------------------------------------------
(* config, remote, init, clone and submodule.                              *)

LEMMA SetFirm ==
    ASSUME Is(repo, RepoFields), NEW key, NEW values, Set(key, values)
    PROVE  Same(repo, repo', Firm)
  BY DEF Set, Is, RepoFields, Same, Firm, NameFields

LEMMA ConfigHolds ==
    ASSUME HistoryInv, Is(repo, RepoFields), CmdShape, ConfigStart \/ ConfigDelete \/ ConfigAppend
    PROVE  HistoryInv'
  <1>1. UNCHANGED <<before, server>> /\ cmd.pc # "idle" /\ ~IsOne(Picks)
    BY DEF ConfigStart, ConfigDelete, ConfigAppend, Rest, At, Command, IsOne, Picks, HistoryInv,
           Remembered, PickPlaces
  <1>2. CASE \E rc \in {0, 2, 5} : Stop(rc)
    BY <1>1, <1>2, StopHolds
  <1>3. CASE ConfigStart /\ ~\E rc \in {0, 2, 5} : Stop(rc)
    <2>1. \/ \E values : Set(Key, values) /\ Exit(0)
          \/ repo' = repo /\ \E specs : cmd' = [cmd EXCEPT !.pc = "delete", !.specs = specs]
      BY <1>3 DEF ConfigStart
    <2>2. CASE \E values : Set(Key, values) /\ Exit(0)
      BY <1>1, <2>2, SetFirm, ExitLooseHolds
    <2>3. CASE repo' = repo /\ \E specs : cmd' = [cmd EXCEPT !.pc = "delete", !.specs = specs]
      <3>1. cmd'.request = cmd.request /\ cmd'.commit = cmd.commit /\ cmd'.pc = "delete"
        BY <2>3 DEF CmdShape, Is, CmdFields
      <3> QED BY <1>1, <2>3, <3>1, SameSelf, LooseHolds DEF Watched, StashPlaces
    <2> QED BY <2>1, <2>2, <2>3
  <1>4. CASE ConfigDelete
    <2>1. Set(DeleteKey, <<>>) /\ Goto("append")
      BY <1>4 DEF ConfigDelete
    <2> QED BY <1>1, <2>1, SetFirm, GotoLooseHolds DEF Watched, StashPlaces
  <1>5. CASE ConfigAppend /\ ~\E rc \in {0, 2, 5} : Stop(rc)
    <2>1. Set(DeleteKey, Appended(Values(DeleteKey), cmd.specs[1])) /\ cmd' = [cmd EXCEPT !.specs = Tail(@)]
          /\ cmd.pc = "append"
      BY <1>5 DEF ConfigAppend
    <2>2. Same(repo, repo', Firm)
      BY <2>1, SetFirm
    <2>3. cmd'.request = cmd.request /\ cmd'.commit = cmd.commit /\ cmd'.pc = "append"
      BY <2>1 DEF CmdShape, Is, CmdFields
    <2> QED BY <1>1, <2>2, <2>3, LooseHolds DEF Watched, StashPlaces
  <1> QED BY <1>2, <1>3, <1>4, <1>5

LEMMA RemoteWriteHolds ==
    ASSUME HistoryInv, Is(repo, RepoFields), CmdShape,
           RemoteWrong \/ RemoteAdd \/ RemoteRefspecs \/ RemoteTrack \/ RemoteOptions
    PROVE  HistoryInv'
  <1>1. UNCHANGED <<before, server>> /\ cmd.pc # "idle" /\ ~IsOne(Picks)
    BY DEF RemoteWrong, RemoteAdd, RemoteRefspecs, RemoteTrack, RemoteOptions, RemoteIs, Rest, At, Command,
           IsOne, Picks
  <1>2. CASE \E rc \in {1, 2, 128} : Stop(rc)
    BY <1>1, <1>2, StopHolds
  <1>3. CASE RemoteWrong
    BY <1>2, <1>3 DEF RemoteWrong
  <1>4. CASE RemoteAdd /\ ~\E rc \in {1, 2, 128} : Stop(rc)
    <2>1. /\ \E config : repo' = [repo EXCEPT !.config = config]
          /\ \E pc \in {"refspecs", "options"} : Goto(pc)
      BY <1>4 DEF RemoteAdd
    <2>2. Same(repo, repo', Firm)
      BY <2>1 DEF Is, RepoFields, Same, Firm, NameFields
    <2> QED BY <1>1, <2>1, <2>2, GotoLooseHolds DEF Watched, StashPlaces
  <1>5. CASE RemoteRefspecs
    <2> DEFINE values == IF Has("add") \/ ~Has("insert") THEN <<>> ELSE Values(FetchKey)
               specs == IF Has("mirror_push") /\ ~Has("mirror_fetch") THEN <<>>
                        ELSE IF Count = 0 THEN <<"*">> ELSE cmd.request.paths
    <2>1. Set(FetchKey, values) /\ cmd' = [cmd EXCEPT !.pc = "tracks", !.specs = specs]
      BY <1>5 DEF RemoteRefspecs
    <2> HIDE DEF values, specs
    <2>2. Same(repo, repo', Firm)
      BY <2>1, SetFirm
    <2>3. cmd'.request = cmd.request /\ cmd'.commit = cmd.commit /\ cmd'.pc = "tracks"
      BY <2>1 DEF CmdShape, Is, CmdFields
    <2> QED BY <1>1, <2>2, <2>3, LooseHolds DEF Watched, StashPlaces
  <1>6. CASE RemoteTrack /\ ~\E rc \in {1, 2, 128} : Stop(rc)
    <2> DEFINE values == Append(Values(FetchKey), cmd.specs[1])
    <2>1. \/ repo' = repo /\ (Goto("options") \/ Exit(0))
          \/ Set(FetchKey, values) /\ cmd' = [cmd EXCEPT !.specs = Tail(@)] /\ cmd.pc = "tracks"
      BY <1>6 DEF RemoteTrack, At
    <2> HIDE DEF values
    <2>2. CASE repo' = repo /\ (Goto("options") \/ Exit(0))
      BY <1>1, <2>2, SameSelf, GotoLooseHolds, ExitLooseHolds DEF Watched, StashPlaces
    <2>3. CASE Set(FetchKey, values) /\ cmd' = [cmd EXCEPT !.specs = Tail(@)] /\ cmd.pc = "tracks"
      <3>1. cmd'.request = cmd.request /\ cmd'.commit = cmd.commit /\ cmd'.pc = "tracks"
        BY <2>3 DEF CmdShape, Is, CmdFields
      <3>2. Same(repo, repo', Firm)
        BY <2>3, SetFirm
      <3> QED BY <1>1, <3>1, <3>2, LooseHolds DEF Watched, StashPlaces
    <2> QED BY <2>1, <2>2, <2>3
  <1>7. CASE RemoteOptions
    <2>1. Goto("master") /\ \E config : repo' = [repo EXCEPT !.config = config]
      BY <1>7 DEF RemoteOptions
    <2>2. Same(repo, repo', Firm)
      BY <2>1 DEF Is, RepoFields, Same, Firm, NameFields
    <2> QED BY <1>1, <2>1, <2>2, GotoLooseHolds DEF Watched, StashPlaces
  <1> QED BY <1>2, <1>3, <1>4, <1>5, <1>6, <1>7

LEMMA RemoteMasterHolds ==
    ASSUME HistoryInv, Is(repo, RepoFields), CmdShape, RemoteMaster
    PROVE  HistoryInv'
  <1>1. UNCHANGED <<before, server>> /\ cmd.pc # "idle" /\ Command("remote") /\ Named(cmd.request)
        /\ ~IsOne(Picks) /\ cmd.commit \in Ids(repo) /\ Grounded(repo)
    BY DEF RemoteMaster, Rest, At, Command, IsOne, Picks, HistoryInv, Remembered
  <1>2. Same(repo, repo', Firm)
    BY DEF RemoteMaster, Is, RepoFields, Same, Firm, NameFields
  <1>3. CASE Exit(0)
    BY <1>1, <1>2, <1>3, ExitLooseHolds
  <1>4. CASE cmd' = [cmd EXCEPT !.pc = "fetch", !.specs = <<Remote>>, !.request.paths = <<>>]
    <2> DEFINE q == [cmd.request EXCEPT !.paths = <<>>]
    <2>1. cmd' = [cmd EXCEPT !.pc = "fetch", !.specs = <<Remote>>, !.request = q]
      BY <1>4 DEF CmdShape, Is, CmdFields
    <2>2. q.name = cmd.request.name /\ q.opts = cmd.request.opts /\ q.to = cmd.request.to
      BY DEF CmdShape, Is, RequestFields
    <2> HIDE DEF q
    <2>3. cmd'.request = q /\ cmd'.commit = cmd.commit /\ cmd'.pc = "fetch"
      BY <2>1 DEF CmdShape, Is, CmdFields
    <2>4. Named(cmd'.request)
      BY <1>1, <2>2, <2>3 DEF Named, Command
    <2>5. ~IsOne(Picks)' /\ (Throws' <=> Throws)
      BY <1>1, <2>2, <2>3 DEF IsOne, Throws, Has
    <2>6. Grounded(repo') /\ Longer(repo.dag, repo'.dag) /\ repo'.refs = repo.refs
      BY <1>1, <1>2, GroundedStays
    <2>7. cmd'.commit \in Ids(repo') /\ Onward(repo, repo')
      BY <1>1, <2>3, <2>6, LongerIds, OnwardSame DEF Grounded
    <2>8. Remembered'
      BY <2>3, <2>4, <2>5, <2>7 DEF Remembered, At, StashPlaces
    <2> QED BY <1>1, <2>5, <2>6, <2>7, <2>8, StepHolds
  <1> QED BY <1>3, <1>4 DEF RemoteMaster

LEMMA TrackingGrounded ==
    ASSUME NEW r, NEW s, Grounded(r), s.tracking \in [Remotes -> [Branches -> Ids(r)]],
           Is(s.upstream, Branches), \A b \in Branches : s.upstream[b][1] \in Remotes => s.upstream[b][2] \in Branches,
           Same(r, s, Firm \ {"tracking", "upstream"})
    PROVE  Grounded(s) /\ Longer(r.dag, s.dag) /\ Onward(r, s)
  <1>1. /\ s.refs = r.refs /\ s.tags = r.tags /\ s.annotated = r.annotated /\ s.dag = r.dag
        /\ Same(r, s, Firm \ NameFields)
    BY DEF Same, Firm, NameFields
  <1>2. Ids(s) = Ids(r)
    BY <1>1 DEF Ids
  <1>3. RefsOK(s)
    BY <1>1, <1>2, NameTypes DEF RefsOK
  <1>4. Grounded(s) /\ Longer(r.dag, s.dag)
    BY <1>1, <1>3, NamesGrounded
  <1> QED BY <1>1, <1>4, OnwardSame DEF Grounded

LEMMA NoBranchesIs ==
    ASSUME NEW r, Grounded(r)
    PROVE  NoBranches \in [Branches -> Ids(r)]
  BY HeadTyped DEF NoBranches

LEMMA RemoteEditHolds ==
    ASSUME HistoryInv, Is(repo, RepoFields), CmdShape,
           RemoteRemove \/ RemoteRename \/ RemoteSetUrl \/ RemoteSetBranches
    PROVE  HistoryInv'
  <1>1. UNCHANGED <<before, server>> /\ cmd.pc # "idle" /\ Command("remote") /\ ~IsOne(Picks) /\ Grounded(repo)
        /\ Named(cmd.request)
    BY DEF RemoteRemove, RemoteRename, RemoteSetUrl, RemoteSetBranches, RemoteIs, Rest, At, Command,
           IsOne, Picks, HistoryInv, Remembered
  <1>2. CASE \E rc \in {1, 2} : Stop(rc)
    BY <1>1, <1>2, StopHolds
  <1>3. repo.tracking \in [Remotes -> [Branches -> Ids(repo)]] /\ NoBranches \in [Branches -> Ids(repo)]
    BY <1>1, NameTypes, NoBranchesIs
  <1>4. CASE ~(\E rc \in {1, 2} : Stop(rc)) /\ RemoteRemove
    <2> DEFINE config == [k \in Keys |-> IF \E f \in Fields : k = RemoteKey[Remote, f] THEN <<>>
                                         ELSE repo.config[k]]
               tracked == [b \in Branches |-> IF repo.upstream[b][1] = Remote THEN NoUpstream
                                              ELSE repo.upstream[b]]
               tracking == [repo.tracking EXCEPT ![Remote] = NoBranches]
               rhead == [repo.rhead EXCEPT ![Remote] = ""]
    <2>1. Exit(0) /\ repo' = [repo EXCEPT !.config = config, !.tracking = tracking,
                                          !.rhead = rhead, !.upstream = tracked]
      BY <1>4 DEF RemoteRemove, Is, RepoFields
    <2>2. tracking \in [Remotes -> [Branches -> Ids(repo)]]
      BY <1>3
    <2>3. Is(tracked, Branches)
      BY DEF Is
    <2>4. \A b \in Branches : tracked[b][1] \in Remotes => tracked[b][2] \in Branches
      BY <1>1, NoUpstreamIs, UpstreamTypes
    <2> HIDE DEF config, tracked, tracking, rhead
    <2>5. repo'.tracking = tracking /\ repo'.upstream = tracked /\ Same(repo, repo', Firm \ {"tracking", "upstream"})
      BY <2>1 DEF Is, RepoFields, Same, Firm, NameFields
    <2>6. Grounded(repo') /\ Longer(repo.dag, repo'.dag) /\ Onward(repo, repo')
      BY <1>1, <2>2, <2>3, <2>4, <2>5, TrackingGrounded
    <2> QED BY <1>1, <2>1, <2>6, ExitHolds
  <1>5. CASE ~(\E rc \in {1, 2} : Stop(rc)) /\ RemoteRename
    <2> DEFINE new == cmd.request.rev
               field(k) == {f \in Fields : k = RemoteKey[new, f]}
               config == [k \in Keys |->
                            IF \E f \in Fields : k = RemoteKey[Remote, f] THEN <<>>
                            ELSE IF field(k) # {} THEN repo.config[RemoteKey[Remote, CHOOSE f \in field(k) : TRUE]]
                            ELSE repo.config[k]]
               tracking == [repo.tracking EXCEPT ![new] = repo.tracking[Remote], ![Remote] = NoBranches]
               rhead == [repo.rhead EXCEPT ![new] = repo.rhead[Remote], ![Remote] = ""]
               tracked == [b \in Branches |-> IF repo.upstream[b][1] = Remote THEN <<new, repo.upstream[b][2]>>
                                              ELSE repo.upstream[b]]
    <2>1. Exit(0) /\ repo' = [repo EXCEPT !.config = config, !.tracking = tracking, !.rhead = rhead,
                                          !.upstream = tracked]
      BY <1>5 DEF RemoteRename
    <2> HIDE DEF config, rhead
    <2>2. Remote \in Remotes
      <3>1. Remote # ""
        BY <1>5 DEF RemoteRename, RemoteIs, RemoteUsage, Remote
      <3>2. Remote \in Remotes \cup {""}
        BY <1>1 DEF Named, Command, Remote
      <3> QED BY <3>1, <3>2
    <2> HIDE DEF new
    <2>3. tracking \in [Remotes -> [Branches -> Ids(repo)]]
      BY <1>3, <2>2
    <2>4. Is(tracked, Branches)
      BY DEF Is
    <2>5. \A b \in Branches : tracked[b][1] \in Remotes => tracked[b][2] \in Branches
      BY <1>1, <2>2, UpstreamTypes
    <2> HIDE DEF tracking, tracked
    <2>6. repo'.tracking = tracking /\ repo'.upstream = tracked /\ Same(repo, repo', Firm \ {"tracking", "upstream"})
      BY <2>1 DEF Is, RepoFields, Same, Firm, NameFields
    <2>7. Grounded(repo') /\ Longer(repo.dag, repo'.dag) /\ Onward(repo, repo')
      BY <1>1, <2>3, <2>4, <2>5, <2>6, TrackingGrounded
    <2> QED BY <1>1, <2>1, <2>7, ExitHolds
  <1>6. CASE ~(\E rc \in {1, 2} : Stop(rc)) /\ RemoteSetUrl
    <2> DEFINE url == cmd.request.rev
               added == Appended(Values(UrlKey), url)
               kept == Others(IF Has("old") THEN Operand(1) ELSE url, Values(UrlKey))
                       \o (IF Has("old") THEN <<url>> ELSE <<>>)
    <2>1. \/ Exit(0) /\ Set(UrlKey, added)
          \/ Exit(0) /\ Set(UrlKey, <<url>>)
          \/ repo' = repo /\ cmd' = [cmd EXCEPT !.pc = "delete", !.specs = kept]
      BY <1>6 DEF RemoteSetUrl
    <2> HIDE DEF url, added, kept
    <2>2. CASE Exit(0) /\ (Set(UrlKey, added) \/ Set(UrlKey, <<url>>))
      BY <1>1, <2>2, SetFirm, ExitLooseHolds
    <2>3. CASE repo' = repo /\ cmd' = [cmd EXCEPT !.pc = "delete", !.specs = kept]
      <3>1. cmd'.request = cmd.request /\ cmd'.commit = cmd.commit /\ cmd'.pc = "delete"
        BY <2>3 DEF CmdShape, Is, CmdFields
      <3> QED BY <1>1, <2>3, <3>1, SameSelf, LooseHolds DEF Watched, StashPlaces
    <2> QED BY <2>1, <2>2, <2>3
  <1>7. CASE ~(\E rc \in {1, 2} : Stop(rc)) /\ RemoteSetBranches
    <2>1. repo' = repo /\ Goto("refspecs")
      BY <1>7 DEF RemoteSetBranches
    <2> QED BY <1>1, <2>1, SameSelf, GotoLooseHolds DEF Watched, StashPlaces
  <1> QED BY <1>2, <1>4, <1>5, <1>6, <1>7

LEMMA RemoteAskHolds ==
    ASSUME HistoryInv, Is(repo, RepoFields), CmdShape, RemoteFetch \/ RemoteAsk \/ RemoteSetHead
    PROVE  HistoryInv'
  <1>1. UNCHANGED <<before, server>> /\ cmd.pc # "idle" /\ ~IsOne(Picks)
    BY DEF RemoteFetch, RemoteAsk, RemoteSetHead, RemoteIs, Rest, At, Command, IsOne, Picks
  <1>2. CASE \E rc \in {0, 1} : Stop(rc)
    BY <1>1, <1>2, StopHolds
  <1>3. CASE ~(\E rc \in {0, 1} : Stop(rc))
    <2>1. ~RemoteAsk
      BY <1>3 DEF RemoteAsk
    <2>2. CASE RemoteFetch
      <3>1. repo' = repo /\ \E specs : cmd' = [cmd EXCEPT !.pc = "fetch", !.specs = specs]
        BY <1>3, <2>2 DEF RemoteFetch
      <3>2. cmd'.request = cmd.request /\ cmd'.commit = cmd.commit /\ cmd'.pc = "fetch"
        BY <3>1 DEF CmdShape, Is, CmdFields
      <3> QED BY <1>1, <3>1, <3>2, SameSelf, LooseHolds DEF Watched, StashPlaces
    <2>3. CASE RemoteSetHead
      <3>1. Exit(0) /\ \E b : repo' = [repo EXCEPT !.rhead[Remote] = b]
        BY <1>3, <2>3 DEF RemoteSetHead
      <3>2. Same(repo, repo', Firm)
        BY <3>1 DEF Is, RepoFields, Same, Firm, NameFields
      <3> QED BY <1>1, <3>1, <3>2, ExitLooseHolds
    <2> QED BY <2>1, <2>2, <2>3
  <1> QED BY <1>2, <1>3

LEMMA CloneHolds ==
    ASSUME HistoryInv, Is(repo, RepoFields), CmdShape,
           InitStart \/ InitHead \/ CloneStart \/ SubmoduleStart \/ ModuleUpdate
    PROVE  HistoryInv'
  <1>1. UNCHANGED <<before, server>> /\ cmd.pc # "idle" /\ ~IsOne(Picks) /\ Grounded(repo) /\ Named(cmd.request)
    BY DEF InitStart, InitHead, CloneStart, SubmoduleStart, ModuleUpdate, Rest, At, Command, IsOne, Picks,
           HistoryInv, Remembered, PickPlaces
  <1>2. CASE \E rc \in {0, 1, 2} : Stop(rc)
    BY <1>1, <1>2, StopHolds
  <1> DEFINE Denies == cmd' = [cmd EXCEPT !.pc = "exit", !.rc = 1, !.denied = TRUE] /\ repo' = repo
             Walks == \E specs : cmd' = [cmd EXCEPT !.pc = "modules", !.specs = specs]
  <1>3. CASE Denies
    <2>1. cmd'.request = cmd.request /\ cmd'.commit = cmd.commit /\ cmd'.pc = "exit"
      BY <1>3 DEF CmdShape, Is, CmdFields
    <2> QED BY <1>1, <1>3, <2>1, SameSelf, LooseHolds DEF Watched, StashPlaces
  <1>4. CASE Walks /\ Same(repo, repo', Firm)
    <2>1. cmd'.request = cmd.request /\ cmd'.commit = cmd.commit /\ cmd'.pc = "modules"
      BY <1>4 DEF CmdShape, Is, CmdFields
    <2> QED BY <1>1, <1>4, <2>1, LooseHolds DEF Watched, StashPlaces
  <1>5. CASE InitStart /\ ~\E rc \in {0, 1, 2} : Stop(rc)
    <2>1. Goto("init_head") /\ repo' = [repo EXCEPT !.head = [branch |-> "", at |-> 0]]
      BY <1>5 DEF InitStart
    <2>2. Grounded(repo') /\ Longer(repo.dag, repo'.dag) /\ Onward(repo, repo')
      BY <1>1, <2>1, NewHeadGrounded, HeadTyped
    <2> QED BY <1>1, <2>1, <2>2, GotoHolds DEF Watched, StashPlaces
  <1>6. CASE InitHead
    <2>1. Exit(0) /\ repo' = [repo EXCEPT !.head = [branch |-> cmd.request.to, at |-> 0]]
          /\ cmd.request.to \in Branches \cup {""}
      BY <1>1, <1>6 DEF InitHead, At, Command, Named
    <2>2. Grounded(repo') /\ Longer(repo.dag, repo'.dag) /\ Onward(repo, repo')
      BY <1>1, <2>1, NewHeadGrounded, HeadTyped
    <2> QED BY <1>1, <2>1, <2>2, ExitHolds
  <1>7. CASE CloneStart /\ ~\E rc \in {0, 1, 2} : Stop(rc)
    <2>1. \/ Denies
          \/ repo' = [repo EXCEPT !.clone = {}, !.cloned = TRUE] /\ (Walks \/ Exit(0))
      BY <1>7 DEF CloneStart
    <2>2. CASE repo' = [repo EXCEPT !.clone = {}, !.cloned = TRUE] /\ (Walks \/ Exit(0))
      <3>1. Same(repo, repo', Firm)
        BY <2>2 DEF Is, RepoFields, Same, Firm, NameFields
      <3> QED BY <1>1, <1>4, <2>2, <3>1, ExitLooseHolds
    <2> QED BY <1>3, <2>1, <2>2
  <1>8. CASE SubmoduleStart /\ ~\E rc \in {0, 1, 2} : Stop(rc)
    <2>1. Walks /\ repo' = repo
      BY <1>8 DEF SubmoduleStart
    <2> QED BY <1>4, <2>1, SameSelf
  <1>9. CASE ModuleUpdate /\ ~\E rc \in {0, 1, 2} : Stop(rc)
    <2> DEFINE clone == repo.clone \cup {cmd.specs[1]}
    <2>1. cmd.pc = "modules" /\ (Denies \/ ((repo' = repo \/ repo' = [repo EXCEPT !.clone = clone])
                                            /\ \E specs : cmd' = [cmd EXCEPT !.specs = specs]))
      BY <1>9 DEF ModuleUpdate
    <2> HIDE DEF clone
    <2>2. CASE (repo' = repo \/ repo' = [repo EXCEPT !.clone = clone]) /\ \E specs : cmd' = [cmd EXCEPT !.specs = specs]
      <3>1. Same(repo, repo', Firm)
        BY <2>2 DEF Is, RepoFields, Same, Firm, NameFields
      <3>2. cmd'.request = cmd.request /\ cmd'.commit = cmd.commit /\ cmd'.pc = "modules"
        BY <2>1, <2>2 DEF CmdShape, Is, CmdFields
      <3> QED BY <1>1, <3>1, <3>2, LooseHolds DEF Watched, StashPlaces
    <2> QED BY <1>3, <2>1, <2>2
  <1> QED BY <1>2, <1>5, <1>6, <1>7, <1>8, <1>9

-----------------------------------------------------------------------------
(* Between the steps of a command: questions, failures, the main program,  *)
(* and the others who push.                                                *)

\* A call that fails: a cleanup, or the HEAD of before, or nothing.
LEMMA FailHolds ==
    ASSUME HistoryInv, Is(repo, RepoFields), CmdShape, UNCHANGED server, Fail
    PROVE  HistoryInv'
  <1>1. UNCHANGED before /\ cmd.pc # "idle" /\ Exit(1) /\ Grounded(repo) /\ BeforeOK
    BY DEF Fail, HistoryInv
  <1>2. CASE repo' = Cleanup(repo)
    BY <1>1, <1>2, CleanupHolds
  <1>3. CASE repo' = [repo EXCEPT !.head = before.head]
    <2>1. Same(repo, repo', Firm \ {"head"}) /\ repo'.head = before.head /\ Ids(repo') = Ids(repo)
      BY <1>3 DEF Same, Firm, NameFields, Is, RepoFields, Ids
    <2>2. HeadOK(repo')
      BY <1>1, <2>1 DEF HeadOK, BeforeOK
    <2>3. Grounded(repo') /\ Longer(repo.dag, repo'.dag) /\ Onward(repo, repo')
      BY <1>1, <2>1, <2>2, HeadSetGrounded
    <2> QED BY <1>1, <2>3, ExitHolds
  <1>4. CASE repo' = repo
    BY <1>1, <1>4, SameSelf, ExitLooseHolds
  <1> QED BY <1>2, <1>3, <1>4 DEF Fail

\* What is remembered between two commands, and when one begins: only what its names are.
LEMMA FreshHolds ==
    ASSUME NEW q, Named(q), Grounded(repo'), Is(cmd', CmdFields), cmd'.request = q, cmd'.commit = 0,
           cmd'.pc \in {"idle", "start", "exit"}, cmd'.pc = "idle" => q = NoRequest
    PROVE  Remembered'
  <1>1. 0 \in Ids(repo')
    BY HeadTyped
  <1>2. NoRequest.name \notin Picks
    BY DEF NoRequest, Picks
  <1>3. cmd'.pc = "idle" => ~IsOne(Picks)'
    BY <1>2 DEF IsOne
  <1> QED BY <1>1, <1>3 DEF Remembered, At, StashPlaces, PickPlaces

LEMMA EndHolds ==
    ASSUME HistoryInv, UNCHANGED server, End
    PROVE  HistoryInv'
  <1>1. UNCHANGED <<repo, before>> /\ cmd' = Idle /\ Grounded(repo)
    BY DEF End, HistoryInv
  <1>2. Is(cmd', CmdFields) /\ cmd'.request = NoRequest /\ cmd'.commit = 0 /\ cmd'.pc = "idle"
    BY <1>1, IdleCmd DEF Idle
  <1>3. Named(NoRequest)
    BY DEF Named, NoRequest
  <1>4. Remembered'
    BY <1>1, <1>2, <1>3, FreshHolds
  <1>5. Longer(repo.dag, repo.dag)
    BY <1>1, LongerSelf DEF Grounded
  <1> QED BY <1>1, <1>2, <1>4, <1>5, StepHolds

LEMMA OnwardSelf ==
    ASSUME NEW r, Grounded(r)
    PROVE  Onward(r, r) /\ Longer(r.dag, r.dag)
  BY OnwardSame, LongerSelf DEF Grounded

LEMMA BeginHolds ==
    ASSUME HistoryInv, UNCHANGED server, session \in Sessions, NEW q \in session.requests, Begin(q)
    PROVE  HistoryInv'
  <1>1. UNCHANGED repo /\ before' = repo /\ Grounded(repo) /\ Serves(server, repo) /\ Named(q)
    BY NamesAssumption DEF Begin, HistoryInv
  <1>2. Is(cmd', CmdFields) /\ cmd'.request = q /\ cmd'.commit = 0 /\ cmd'.pc \in {"start", "exit"}
    BY IdleCmd DEF Begin, Is, CmdFields, Idle
  <1>3. Remembered'
    BY <1>1, <1>2, FreshHolds
  <1>4. Onward(repo, repo) /\ before'.head = repo.head
    BY <1>1, OnwardSelf
  <1>5. Keeps'
    BY <1>1, <1>4 DEF Keeps, Onward, Reaches
  <1>6. BeforeOK'
    BY <1>1, <1>4 DEF BeforeOK, Grounded, HeadOK, Ids
  <1> QED BY <1>1, <1>3, <1>5, <1>6 DEF HistoryInv

LEMMA EditHolds ==
    ASSUME HistoryInv, Is(repo, RepoFields), UNCHANGED server, NEW p, NEW blob, Edit(p, blob)
    PROVE  HistoryInv'
  <1>1. UNCHANGED cmd /\ cmd.pc = "idle" /\ before' = repo' /\ repo' = [repo EXCEPT !.files[p] = blob] /\ Grounded(repo)
    BY DEF Edit, HistoryInv
  <1>2. Same(repo, repo', Firm) /\ repo'.dag = repo.dag /\ repo'.head = repo.head
    BY <1>1 DEF Same, Firm, NameFields, Is, RepoFields
  <1>3. Grounded(repo') /\ Ids(repo') = Ids(repo)
    BY <1>1, <1>2, GroundedStays DEF Ids
  <1>4. Serves(server', repo')
    BY <1>3, ServesLonger DEF HistoryInv
  <1>5. BeforeOK'
    BY <1>1, <1>3 DEF BeforeOK, Grounded, HeadOK
  <1>6. ~IsOne(Picks) /\ Named(cmd.request) /\ cmd.commit \in Ids(repo)
    BY <1>1 DEF HistoryInv, Remembered, PickPlaces
  <1>7. Remembered'
    BY <1>1, <1>3, <1>6 DEF Remembered, At, IsOne, StashPlaces
  <1> QED BY <1>1, <1>3, <1>4, <1>5, <1>7 DEF HistoryInv, Keeps

\* Somebody else pushes: one more commit, which only the server has.
LEMMA ServerCommitIs ==
    ASSUME HistoryInv, Is(repo, RepoFields), NEW b \in Branches, NEW tree, ServerCommit(b, tree)
    PROVE  /\ UNCHANGED <<cmd, before>> /\ Grounded(repo') /\ Longer(repo.dag, repo'.dag) /\ Onward(repo, repo')
           /\ Same(repo, repo', Firm \ {"dag"}) /\ repo'.config = repo.config /\ Ids(repo) \subseteq Ids(repo')
           /\ Serves(server', repo') /\ \A d \in Branches \ {b} : server'.refs[d] = server.refs[d]
           /\ server.refs[b] \in History(repo'.dag, server'.refs[b])
  <1> DEFINE old == server.refs[b]
             parents == <<old>>
             new == Len(repo.dag) + 1
             s == [repo EXCEPT !.dag = Append(@, [parents |-> parents, tree |-> tree])]
             refs == [server.refs EXCEPT ![b] = new]
  <1>1. repo' = s /\ server' = [server EXCEPT !.refs = refs] /\ UNCHANGED <<cmd, before>> /\ old # 0
    BY DEF ServerCommit
  <1>2. Grounded(repo) /\ server.refs \in [Branches -> Ids(repo)] /\ server.tags \in [Tags -> Ids(repo)]
        /\ Is(server, {"refs", "tags", "auth", "head"})
    BY DEF HistoryInv, Serves
  <1>3. parents \in Seq(Ids(repo)) /\ old \in Ids(repo) /\ parents[1] = old /\ 1 \in DOMAIN parents
    BY <1>2
  <1>4. s.config = repo.config
    BY DEF Is, RepoFields
  <1> HIDE DEF parents
  <1>5. /\ Grounded(s) /\ Longer(repo.dag, s.dag) /\ Onward(repo, s) /\ Same(repo, s, Firm \ {"dag"})
        /\ Len(s.dag) = new /\ s.dag[new].parents = parents /\ Ids(repo) \subseteq Ids(s) /\ new \in Ids(s)
    BY <1>2, <1>3, ObjectGrounded
  <1> HIDE DEF s
  <1>6. refs \in [Branches -> Ids(s)] /\ refs[b] = new /\ \A d \in Branches \ {b} : refs[d] = server.refs[d]
    BY <1>2, <1>5
  <1> HIDE DEF refs
  <1>7. /\ server'.refs = refs /\ server'.tags = server.tags
        /\ Is(server', {"refs", "tags", "auth", "head"})
    BY <1>1, <1>2 DEF Is
  <1>8. Serves(server', s)
    BY <1>2, <1>5, <1>6, <1>7 DEF Serves
  <1>9. old \in History(s.dag, new)
    <2>1. new \in 1 .. Len(s.dag) /\ old \in 1 .. Len(s.dag) /\ Graph(s.dag)
      BY <1>1, <1>2, <1>3, <1>5, HeadTyped DEF Ids, Grounded
    <2>2. old \in ToSet(s.dag[new].parents)
      BY <1>3, <1>5 DEF ToSet
    <2>3. old \in History(s.dag, old) /\ History(s.dag, old) \subseteq History(s.dag, new)
      BY <2>1, <2>2, HistorySelf
    <2> QED BY <2>3
  <1> QED BY <1>1, <1>4, <1>5, <1>6, <1>7, <1>8, <1>9

LEMMA ServerCommitHolds ==
    ASSUME HistoryInv, Is(repo, RepoFields), NEW b \in Branches, NEW tree, ServerCommit(b, tree)
    PROVE  HistoryInv'
  <1>1. /\ UNCHANGED <<cmd, before>> /\ Grounded(repo') /\ Longer(repo.dag, repo'.dag) /\ Onward(repo, repo')
        /\ Same(repo, repo', Firm \ {"dag"}) /\ repo'.config = repo.config /\ Ids(repo) \subseteq Ids(repo')
        /\ Serves(server', repo')
    BY ServerCommitIs
  <1>2. repo'.refs = repo.refs /\ repo'.head = repo.head /\ repo'.stash = repo.stash
    BY <1>1 DEF Same, Firm, NameFields
  <1>3. HeadCommit(repo') = HeadCommit(repo)
    BY <1>2 DEF HeadCommit
  <1>4. Graph(repo.dag) /\ Graph(repo'.dag) /\ \A c \in Ids(repo) : History(repo'.dag, c) = History(repo.dag, c)
    BY <1>1, HistoryGrows DEF HistoryInv, Grounded, Ids
  <1>5. Remembered
    BY DEF HistoryInv
  <1>6. Named(cmd.request)' /\ IF IsOne(Picks)' THEN cmd'.pc \in PickPlaces ELSE cmd'.commit \in Ids(repo')
    BY <1>1, <1>5 DEF Remembered, Named, IsOne
  <1>7. /\ cmd'.pc = "set_head" => cmd'.request.rev \in Branches \cup {""}
        /\ cmd'.pc \in {"message", "create"} /\ Has("amend")' => HeadCommit(repo') # 0
        /\ Command("stash")' /\ cmd'.pc \in StashPlaces => repo'.stash # <<>>
        /\ cmd'.pc = "pull_fetch" => cmd'.specs[1] \in Remotes /\ cmd'.specs[2] \in Branches
        /\ cmd'.pc \in {"pull_forward", "pull_merge", "pull_commit"} => cmd'.at = HeadCommit(repo')
    BY <1>1, <1>2, <1>3, <1>5 DEF Remembered, Has, Command
  <1>8. cmd'.pc = "pull_forward" \/ At("merge", "forward")' => Reaches(repo', cmd'.commit, HeadCommit(repo'))
    <2>1. CASE cmd.pc = "pull_forward" \/ At("merge", "forward")
      <3>1. ~IsOne(Picks)
        BY <1>5, <2>1 DEF Remembered, PickPlaces, At
      <3>2. cmd.commit \in Ids(repo) /\ HeadCommit(repo) \in History(repo.dag, cmd.commit)
        BY <1>5, <2>1, <3>1 DEF Remembered, Reaches
      <3> QED BY <1>1, <1>3, <1>4, <3>2 DEF Reaches
    <2>2. CASE ~(cmd.pc = "pull_forward" \/ At("merge", "forward"))
      BY <1>1, <2>2 DEF At, Command
    <2> QED BY <2>1, <2>2
  <1>9. cmd'.pc \in {"push_connect", "push_update"} => \A i \in DOMAIN cmd'.specs : cmd'.specs[i].to \in Ids(repo')
    BY <1>1, <1>5 DEF Remembered
  <1>10. cmd'.pc = "push_update" => \A i \in DOMAIN cmd'.specs : /\ Forward(cmd.specs[i], cmd.seen[i])'
                                                                 /\ ~Has("delete")' => cmd'.specs[i].to # 0
    <2> SUFFICES ASSUME cmd.pc = "push_update", NEW i \in DOMAIN cmd.specs
                 PROVE  Forward(cmd.specs[i], cmd.seen[i])' /\ (~Has("delete")' => cmd'.specs[i].to # 0)
      BY <1>1
    <2>1. /\ cmd.specs[i].to \in Ids(repo) /\ Forward(cmd.specs[i], cmd.seen[i])
          /\ ~Has("delete") => cmd.specs[i].to # 0
      BY <1>5 DEF Remembered
    <2>2. Has("force")' = Has("force") /\ Has("delete")' = Has("delete")
      BY <1>1 DEF Has
    <2> QED BY <1>1, <1>4, <2>1, <2>2 DEF Forward
  <1>11. cmd'.pc = "push_tips" /\ PushTo' \in Remotes => cmd'.index \in [Fetched(repo', PushTo') -> Ids(repo')]
    <2> SUFFICES ASSUME cmd.pc = "push_tips", PushTo \in Remotes
                 PROVE  cmd.index \in [Fetched(repo', PushTo) -> Ids(repo')]
      <3>1. PushTo' = PushTo
        BY <1>1 DEF PushTo
      <3> QED BY <1>1, <3>1
    <2>1. cmd.index \in [Fetched(repo, PushTo) -> Ids(repo)]
      BY <1>5 DEF Remembered
    <2>2. Fetched(repo', PushTo) = Fetched(repo, PushTo)
      BY <1>1 DEF Fetched
    <2> QED BY <1>1, <2>1, <2>2
  <1>12. Remembered'
    BY <1>1, <1>6, <1>7, <1>8, <1>9, <1>10, <1>11 DEF Remembered
  <1>13. Throws' <=> Throws
    BY <1>1 DEF Throws, IsOne, Has
  <1>14. cmd'.pc # "idle" /\ ~Throws' => cmd.pc # "idle" /\ ~Throws /\ Onward(repo, repo')
    BY <1>1, <1>13
  <1> QED BY <1>1, <1>12, <1>14, StepHolds

-----------------------------------------------------------------------------
(* The invariant, and what follows.                                        *)

LEMMA StillHolds ==
    ASSUME HistoryInv, UNCHANGED vars
    PROVE  HistoryInv'
  <1>1. UNCHANGED <<repo, cmd, before, server>>
    BY DEF vars
  <1>2. Remembered'
    <2>1. Remembered /\ cmd' = cmd /\ repo' = repo
      BY <1>1 DEF HistoryInv
    <2>2. Named(cmd.request)' /\ (IsOne(Picks)' <=> IsOne(Picks)) /\ PushTo' = PushTo
      BY <2>1 DEF Remembered, Named, IsOne, PushTo
    <2>3. /\ Has("amend")' = Has("amend") /\ Has("delete")' = Has("delete") /\ Command("stash")' = Command("stash")
          /\ At("merge", "forward")' = At("merge", "forward")
      BY <2>1 DEF Has, Command, At
    <2>4. cmd'.pc = "push_update" =>
              \A i \in DOMAIN cmd'.specs : /\ Forward(cmd.specs[i], cmd.seen[i])'
                                           /\ ~Has("delete")' => cmd'.specs[i].to # 0
      BY <2>1, <2>3 DEF Remembered, Forward, Has
    <2>5. cmd'.pc = "push_tips" /\ PushTo' \in Remotes => cmd'.index \in [Fetched(repo', PushTo') -> Ids(repo')]
      BY <2>1, <2>2 DEF Remembered
    <2> QED BY <2>1, <2>2, <2>3, <2>4, <2>5 DEF Remembered
  <1>3. Keeps' /\ BeforeOK'
    BY <1>1 DEF HistoryInv, Keeps, Throws, IsOne, Has, BeforeOK
  <1> QED BY <1>1, <1>2, <1>3 DEF HistoryInv

LEMMA HistoryNext == RefuseInv /\ HistoryInv /\ [Next]_vars => HistoryInv'
  <1> SUFFICES ASSUME RefuseInv, HistoryInv, Next PROVE HistoryInv'
    BY StillHolds
  <1>1. Is(repo, RepoFields) /\ CmdShape /\ session \in Sessions /\ cmd.request.paths \in Seq(STRING)
    BY DEF RefuseInv, Shape
  <1>2. CASE UNCHANGED server /\ WorkNext
    BY <1>1, <1>2, IndexHolds, CommitHolds, RestoreHolds, CheckoutHolds, CheckoutStartHolds DEF WorkNext
  <1>3. CASE UNCHANGED server /\ SequenceNext
    BY <1>1, <1>3, MergeHolds, PickHolds, FinalResetHolds, RebaseHolds, StashHolds DEF SequenceNext
  <1>4. CASE RefsNext
    BY <1>1, <1>4, BranchHolds, MoveHolds, TagHolds, FetchHolds, PullFetchHolds, PullHolds, PushHolds,
       PushUpdateHolds DEF RefsNext
  <1>5. CASE RemoteNext
    BY <1>1, <1>5, ConfigHolds, RemoteWriteHolds, RemoteMasterHolds, RemoteEditHolds, RemoteAskHolds, CloneHolds
       DEF RemoteNext
  <1>6. CASE Ask
    <2>1. UNCHANGED <<before, server>> /\ cmd.pc # "idle" /\ Stop(Answer(repo, cmd.request).rc)
      BY <1>6 DEF Ask, Rest
    <2> QED BY <1>1, <2>1, StopHolds
  <1>7. CASE UNCHANGED server /\ Kill
    <2>1. UNCHANGED <<before, repo>> /\ cmd.pc # "idle" /\ Exit(137)
      BY <1>7 DEF Kill, Exit
    <2> QED BY <1>1, <1>7, <2>1, SameSelf, ExitLooseHolds
  <1>8. CASE /\ UNCHANGED server
             /\ \/ \E request \in session.requests : Begin(request)
                \/ \E edit \in session.edits : Edit(edit[1], edit[2])
                \/ End \/ Fail
    BY <1>1, <1>8, BeginHolds, EditHolds, EndHolds, FailHolds
  <1>9. CASE \E b \in Branches : ServerCommit(b, TreeOf(repo, server.refs[b]))
    BY <1>1, <1>9, ServerCommitHolds
  <1> QED BY <1>2, <1>3, <1>4, <1>5, <1>6, <1>7, <1>8, <1>9 DEF Next, Local

LEMMA HistoryInit == Init => HistoryInv
  <1> SUFFICES ASSUME Init PROVE HistoryInv
    OBVIOUS
  <1>1. /\ before = repo /\ cmd = Idle
        /\ Grounded(repo) /\ Serves(server, repo)
    BY NamesAssumption DEF Init
  <1>2. cmd.pc = "idle" /\ cmd.commit = 0 /\ cmd.request = NoRequest
    BY <1>1 DEF Idle
  <1>3. Named(NoRequest) /\ NoRequest.name \notin Picks
    BY DEF Named, NoRequest, Picks
  <1>4. 0 \in Ids(repo)
    BY <1>1, HeadTyped
  <1>5. Remembered
    BY <1>2, <1>3, <1>4 DEF Remembered, At, StashPlaces, IsOne
  <1>6. BeforeOK
    BY <1>1 DEF BeforeOK, Grounded, HeadOK
  <1> QED BY <1>1, <1>2, <1>5, <1>6 DEF HistoryInv, Keeps

LEMMA HistoryAlways == Spec => [](RefuseInv /\ HistoryInv)
  <1>1. Init => RefuseInv /\ HistoryInv
    BY InitRefuses, HistoryInit
  <1>2. RefuseInv /\ HistoryInv /\ [Next]_vars => (RefuseInv /\ HistoryInv)'
    BY NextKeeps, HistoryNext
  <1> QED BY <1>1, <1>2, PTL DEF Spec

\* A command of the git applet that is not asked to throw history away keeps it, however it ends:
\* what each branch reached when the command began it reaches when the command has ended well, has
\* failed at any call or was killed between any two, and whatever is pushed to the server
\* meanwhile (git_app.c).
THEOREM HistoryIsKept == Spec => []HistoryKept
  <1>1. HistoryInv => HistoryKept
    BY DEF HistoryInv, Keeps, Onward, Throws, HistoryKept, Ended, IsOne
  <1> QED BY <1>1, HistoryAlways, PTL

-----------------------------------------------------------------------------
(* The other repository.                                                   *)

\* Only a push's update changes what the server has.
LEMMA ServerMoves ==
    ASSUME Next
    PROVE  \/ UNCHANGED server \/ PushUpdate
           \/ \E b \in Branches : ServerCommit(b, TreeOf(repo, server.refs[b]))
  <1>1. CASE BranchWrong \/ BranchCreate \/ BranchDelete \/ BranchRename \/ BranchCopy
             \/ BranchSetUpstream \/ BranchUnsetUpstream \/ TagCreate \/ TagDelete
    BY <1>1 DEF BranchWrong, BranchCreate, BranchDelete, BranchRename, BranchCopy, BranchSetUpstream,
                BranchUnsetUpstream, TagCreate, TagDelete
  <1>2. CASE FetchStart \/ FetchOne \/ PullStart \/ PullFetch \/ PullAnalysis \/ PullForward \/ PullMerge \/ PullCommit
    BY <1>2 DEF FetchStart, FetchOne, PullStart, PullFetch, PullAnalysis, PullForward, PullMerge, PullCommit
  <1>3. CASE PushStart \/ PushConnect \/ PushTips \/ PushUpstream
    BY <1>3 DEF PushStart, PushConnect, PushTips, PushUpstream
  <1>4. CASE ConfigStart \/ ConfigDelete \/ ConfigAppend \/ RemoteWrong \/ RemoteAdd \/ RemoteRefspecs \/ RemoteTrack
             \/ RemoteOptions \/ RemoteMaster
    BY <1>4 DEF ConfigStart, ConfigDelete, ConfigAppend, RemoteWrong, RemoteAdd, RemoteRefspecs, RemoteTrack,
                RemoteOptions, RemoteMaster
  <1>5. CASE RemoteRemove \/ RemoteRename \/ RemoteSetUrl \/ RemoteSetBranches \/ RemoteFetch \/ RemoteAsk
             \/ RemoteSetHead
    BY <1>5 DEF RemoteRemove, RemoteRename, RemoteSetUrl, RemoteSetBranches, RemoteFetch, RemoteAsk, RemoteSetHead
  <1>6. CASE InitStart \/ InitHead \/ CloneStart \/ SubmoduleStart \/ ModuleUpdate \/ Ask
    BY <1>6 DEF InitStart, InitHead, CloneStart, SubmoduleStart, ModuleUpdate, Ask
  <1> QED BY <1>1, <1>2, <1>3, <1>4, <1>5, <1>6 DEF Next, RefsNext, RemoteNext

LEMMA ServerReaches ==
    ASSUME RefuseInv, HistoryInv, HistoryInv', [Next]_vars, ~Has("force"), ~Has("delete"),
           NEW b \in Branches, server.refs[b] # 0
    PROVE  Reaches(repo', server'.refs[b], server.refs[b])
  <1>1. Is(repo, RepoFields) /\ CmdShape /\ Serves(server, repo)
    BY DEF RefuseInv, Shape, HistoryInv
  <1>2. Grounded(repo') /\ server'.refs[b] \in Ids(repo')
    BY DEF HistoryInv, Serves
  <1>3. ASSUME server'.refs[b] = server.refs[b]
        PROVE  Reaches(repo', server'.refs[b], server.refs[b])
    <2>1. server.refs[b] \in 1 .. Len(repo'.dag)
      BY <1>2, <1>3, HeadTyped DEF Ids
    <2> QED BY <1>2, <1>3, <2>1, HistorySelf DEF Reaches, Grounded
  <1>4. CASE UNCHANGED server
    BY <1>3, <1>4
  <1>5. CASE PushUpdate
    <2>1. cmd.pc = "push_update" /\ repo' = repo /\ server'.refs[b] = Moved("branch", server.refs[b], b)
      BY <1>1, <1>5, PushUpdateIs
    <2>2. CASE server'.refs[b] = server.refs[b]
      BY <1>3, <2>2
    <2>3. CASE server'.refs[b] \in TakenTo("branch", b)
      BY <2>1, <2>3, TakenIs DEF Reaches
    <2> QED BY <2>1, <2>2, <2>3, MovedIs
  <1>6. CASE \E d \in Branches : ServerCommit(d, TreeOf(repo, server.refs[d]))
    <2>1. PICK d \in Branches : ServerCommit(d, TreeOf(repo, server.refs[d]))
      BY <1>6
    <2>2. /\ d # b => server'.refs[b] = server.refs[b]
          /\ server.refs[d] \in History(repo'.dag, server'.refs[d])
      BY <1>1, <2>1, ServerCommitIs
    <2> QED BY <1>3, <2>2 DEF Reaches
  <1>7. UNCHANGED vars => UNCHANGED server
    BY DEF vars
  <1> QED BY <1>4, <1>5, <1>6, <1>7, ServerMoves

\* The server loses no commit to a push that is neither forced nor a deletion: what a branch of it
\* reached before any step it reaches afterwards, although the push looks first and writes later
\* and others push in between (smallclueGitPush in git_app.c).
THEOREM ServerKeepsItsHistory == Spec => ServerKeepsHistory
  <1> DEFINE Onwards == ~Has("force") /\ ~Has("delete") =>
                            \A b \in Branches : server.refs[b] # 0 => Reaches(repo', server'.refs[b], server.refs[b])
             I == RefuseInv /\ HistoryInv
  <1>1. I /\ I' /\ [Next]_vars => Onwards
    BY ServerReaches
  <1>2. Spec => [][Onwards]_vars
    <2>1. I /\ I' /\ [Next]_vars => [Onwards]_vars
      BY <1>1
    <2> HIDE DEF I, Onwards
    <2>2. Spec => []I
      BY HistoryAlways DEF I
    <2> QED BY <2>1, <2>2, PTL DEF Spec
  <1> QED BY <1>2 DEF ServerKeepsHistory
=============================================================================
