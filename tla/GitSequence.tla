----------------------------- MODULE GitSequence -----------------------------
(***************************************************************************)
(* The commands of the git applet that build commits out of other commits: *)
(* merge, cherry-pick, revert, rebase, with --abort and --continue, and    *)
(* the stash.  What they leave behind when they stop half-way (a conflict, *)
(* a failed call, an interruption) is what the next command finds.         *)
(***************************************************************************)
EXTENDS GitWork

Unfinished == repo.op.kind # "none"
\* Slip: only what is staged counts.
DirtyStaged == repo.index # HeadTree(repo)
\* smallclueGitHasTrackedChanges.
Dirty ==
    \/ repo.index # HeadTree(repo)
    \/ \E p \in Paths : repo.index[p] # Absent /\ repo.files[p] # repo.index[p]
Operation(kind, c) == [NoOperation EXCEPT !.kind = kind, !.commit = c]
Cleanup(r) == [r EXCEPT !.op = NoOperation]

-----------------------------------------------------------------------------
(* merge                                                                   *)

MergeUsage ==
    \/ Has("bad")
    \/ Has("abort") /\ cmd.request.rev # ""
    \/ ~Has("abort") /\ cmd.request.rev = ""
    \/ Has("ff_only") /\ Has("no_ff")
\* Slip: nobody asks for changes that are not committed.
MergeStartDirty ==
    /\ At("merge", "start")
    /\ IF MergeUsage THEN Stop(2)
       ELSE IF Has("abort")
            THEN IF repo.op.kind # "merge" THEN Stop(128)
                 ELSE repo' = Cleanup(repo) /\ Goto("reset")
       ELSE IF Unfinished \/ HeadCommit(repo) = 0 THEN Stop(1)
       ELSE IF Resolve(repo, cmd.request.rev) = 0 THEN Stop(128)
       ELSE Goto("analysis") /\ UNCHANGED repo
    /\ Rest
MergeStart ==
    /\ At("merge", "start")
    /\ IF MergeUsage THEN Stop(2)
       ELSE IF Has("abort")
            THEN IF repo.op.kind # "merge" THEN Stop(128)
                 ELSE repo' = Cleanup(repo) /\ Goto("reset")
       ELSE IF Unfinished \/ Dirty \/ HeadCommit(repo) = 0 THEN Stop(1)
       ELSE IF Resolve(repo, cmd.request.rev) = 0 THEN Stop(128)
       ELSE Goto("analysis") /\ UNCHANGED repo
    /\ Rest
MergeAnalysis ==
    /\ At("merge", "analysis")
    /\ LET c == Resolve(repo, cmd.request.rev)
           found == Analysis(repo, c)
       IN  IF found = "up_to_date" THEN Stop(0)
           ELSE IF found # "fastforward" /\ Has("ff_only") THEN Stop(1)
           ELSE /\ cmd' = [cmd EXCEPT !.commit = c, !.index = TreeOf(repo, c),
                              !.pc = IF found # "fastforward" THEN "merge"
                                     ELSE IF Has("no_ff") THEN "commit" ELSE "forward"]
                /\ UNCHANGED repo
    /\ Rest
\* The branch of HEAD by name, refs/heads/HEAD when HEAD is detached; then the files.
MergeForward ==
    /\ At("merge", "forward")
    /\ IF repo.head.branch = "" THEN Stop(1)
       ELSE repo' = [repo EXCEPT !.refs[repo.head.branch] = cmd.commit] /\ Goto("reset")
    /\ Rest
\* git_merge, which takes its own state back when it fails, and the test for conflicts: the
\* way out of a conflict passes by the label cleanup.
MergeApply ==
    /\ At("merge", "merge")
    /\ LET base == TreeOf(repo, MergeBase(repo.dag, HeadCommit(repo), cmd.commit))
           theirs == TreeOf(repo, cmd.commit)
           applied == Apply(repo, base, theirs)
       IN  IF ~Applies(repo, base, theirs) THEN Stop(1)
           ELSE IF HasConflicts(applied) THEN repo' = Cleanup(applied) /\ Exit(1)
           ELSE /\ repo' = [applied EXCEPT !.op = Operation("merge", cmd.commit)]
                /\ cmd' = [cmd EXCEPT !.pc = "commit", !.index = applied.index]
    /\ Rest
MergeCommit ==
    /\ At("merge", "commit") /\ Len(repo.dag) < MaxObjects
    /\ repo' = CommitTree(repo, cmd.index, <<HeadCommit(repo), cmd.commit>>)
    /\ Goto("cleanup") /\ Rest
MergeCleanup == At("merge", "cleanup") /\ repo' = Cleanup(repo) /\ Goto("reset") /\ Rest

-----------------------------------------------------------------------------
(* cherry-pick and revert: the same steps with the trees the other way     *)
(* round.                                                                  *)

Picks == {"cherry-pick", "revert"}
Kind == IF Command("revert") THEN "revert" ELSE "cherrypick"
PickAt(pc) == cmd.request.name \in Picks /\ cmd.pc = pc
PickUsage ==
    \/ Has("bad")
    \/ Has("abort") /\ Has("continue")
    \/ Has("continue") /\ (cmd.request.rev # "" \/ Has("no_commit") \/ Has("mainline"))
    \/ ~Has("abort") /\ ~Has("continue") /\ cmd.request.rev = ""
PickStart ==
    /\ PickAt("start")
    /\ LET inProgress == repo.op.kind = Kind
           c == IF Has("continue") THEN repo.op.commit ELSE Resolve(repo, cmd.request.rev)
       IN  IF PickUsage THEN Stop(2)
           ELSE IF Has("abort")
                THEN IF ~inProgress THEN Stop(1) ELSE repo' = Cleanup(repo) /\ Goto("reset")
           ELSE IF Has("continue") /\ ~inProgress THEN Stop(128)
           ELSE IF ~Has("continue") /\ (Unfinished \/ Dirty) THEN Stop(1)
           ELSE IF c = 0 THEN Stop(128)
           ELSE /\ cmd' = [cmd EXCEPT !.commit = c, !.pc = IF Has("continue") THEN "index" ELSE "apply"]
                /\ UNCHANGED repo
    /\ Rest
\* git_cherrypick, git_revert: a merge commit needs -m, any other commit must not have it.
PickApply ==
    /\ PickAt("apply")
    /\ LET c == cmd.commit
           parents == repo.dag[c].parents
           parent == IF parents = <<>> THEN NoTree ELSE TreeOf(repo, parents[1])
           base == IF Command("revert") THEN TreeOf(repo, c) ELSE parent
           theirs == IF Command("revert") THEN parent ELSE TreeOf(repo, c)
       IN  IF (Len(parents) > 1) # Has("mainline") \/ ~Applies(repo, base, theirs) THEN Stop(1)
           ELSE repo' = [Apply(repo, base, theirs) EXCEPT !.op = Operation(Kind, c)] /\ Goto("index")
    /\ Rest
PickIndex ==
    /\ PickAt("index")
    /\ IF HasConflicts(repo) THEN Stop(1)
       ELSE IF Has("no_commit") THEN repo' = Cleanup(repo) /\ Exit(0)
       ELSE IF HeadCommit(repo) = 0 THEN Stop(1)
       ELSE Goto("commit") /\ UNCHANGED repo
    /\ Rest
PickCommit ==
    /\ PickAt("commit") /\ Len(repo.dag) < MaxObjects
    /\ repo' = CommitTree(repo, repo.index, <<HeadCommit(repo)>>)
    /\ Goto("cleanup") /\ Rest
PickCleanup == PickAt("cleanup") /\ repo' = Cleanup(repo) /\ Goto("reset") /\ Rest

\* merge, cherry-pick, revert and rebase end with HEAD's files; so do their --abort.
FinalReset ==
    /\ cmd.pc = "reset"
    /\ repo' = ResetHard(repo, HeadCommit(repo))
    /\ Exit(0) /\ Rest

-----------------------------------------------------------------------------
(* rebase                                                                  *)

RebaseUsage ==
    \/ Has("bad")
    \/ Has("abort") /\ Has("continue")
    \/ (Has("abort") \/ Has("continue")) # (cmd.request.rev = "")
RebaseStart ==
    /\ At("rebase", "start")
    /\ IF RebaseUsage THEN Stop(2)
       ELSE IF Has("abort") \/ Has("continue")
            THEN IF repo.op.kind # "rebase" THEN Stop(1)
                 ELSE Goto(IF Has("abort") THEN "abort" ELSE "continue") /\ UNCHANGED repo
       ELSE IF Unfinished \/ Dirty \/ HeadCommit(repo) = 0 THEN Stop(1)
       ELSE IF Resolve(repo, cmd.request.rev) = 0 THEN Stop(128)
       ELSE Goto("init") /\ UNCHANGED repo
    /\ Rest
\* git_rebase_init: what HEAD has and the upstream lacks, oldest first, and HEAD on the upstream.
RebaseInit ==
    /\ At("rebase", "init")
    /\ LET upstream == Resolve(repo, cmd.request.rev)
           own == History(repo.dag, HeadCommit(repo)) \ History(repo.dag, upstream)
           todo == SetToSortSeq({c \in own : Len(repo.dag[c].parents) < 2}, <)
           moved == SafeCheckout(repo, HeadTree(repo), TreeOf(repo, upstream))
       IN  IF Blocked(repo, HeadTree(repo), TreeOf(repo, upstream)) # {} THEN Stop(1)
           ELSE /\ repo' = [moved EXCEPT
                              !.op = [kind |-> "rebase", commit |-> 0, todo |-> todo,
                                      branch |-> repo.head.branch, orig |-> HeadCommit(repo)],
                              !.head = [branch |-> "", at |-> upstream]]
                /\ Goto("next")
    /\ Rest
\* git_rebase_abort: the branch as it was.
RebaseAbort ==
    /\ At("rebase", "abort")
    /\ LET back == [repo EXCEPT !.head = [branch |-> repo.op.branch,
                                          at |-> IF repo.op.branch = "" THEN repo.op.orig ELSE 0]]
       IN  repo' = ResetHard(back, repo.op.orig)
    /\ Exit(0) /\ Rest
RebaseContinue ==
    /\ At("rebase", "continue")
    /\ IF HasConflicts(repo) THEN Stop(1)
       ELSE Goto(IF repo.op.commit = 0 THEN "next" ELSE "commit") /\ UNCHANGED repo
    /\ Rest
\* git_rebase_next: the operation is now the current one, and its change is in the index.
RebaseNext ==
    /\ At("rebase", "next")
    /\ LET c == repo.op.todo[1]
           parents == repo.dag[c].parents
           base == IF parents = <<>> THEN NoTree ELSE TreeOf(repo, parents[1])
       IN  IF repo.op.todo = <<>> THEN Goto("finish") /\ UNCHANGED repo
           ELSE IF ~Applies(repo, base, TreeOf(repo, c)) THEN Stop(1)
           ELSE /\ repo' = [Apply(repo, base, TreeOf(repo, c)) EXCEPT
                              !.op.commit = c, !.op.todo = Tail(@)]
                /\ Goto("commit")
    /\ Rest
\* git_rebase_commit: GIT_EUNMERGED, GIT_EAPPLIED when nothing is left to do, or a commit.
RebaseCommit ==
    /\ At("rebase", "commit") /\ Len(repo.dag) < MaxObjects
    /\ IF HasConflicts(repo) THEN Stop(1)
       ELSE /\ repo' = IF repo.index = HeadTree(repo) THEN repo
                       ELSE CommitTree(repo, repo.index, <<HeadCommit(repo)>>)
            /\ Goto("next")
    /\ Rest
\* Slip: HEAD is the branch again, and the branch is what it was.
RebaseFinishOld ==
    /\ At("rebase", "finish")
    /\ repo' = IF repo.op.branch = "" THEN Cleanup(repo)
               ELSE Cleanup([repo EXCEPT !.head = [branch |-> repo.op.branch, at |-> 0]])
    /\ Goto("reset") /\ Rest
RebaseFinish ==
    /\ At("rebase", "finish")
    /\ LET b == repo.op.branch
       IN  repo' = IF b = "" THEN Cleanup(repo)
                   ELSE Cleanup([repo EXCEPT !.refs[b] = repo.head.at, !.head = [branch |-> b, at |-> 0]])
    /\ Goto("reset") /\ Rest

-----------------------------------------------------------------------------
(* stash                                                                   *)

StashStart ==
    /\ At("stash", "start") /\ ~Has("list") /\ ~Has("show")
    /\ IF Has("bad") THEN Stop(2)
       ELSE IF Has("save") THEN Goto("save") /\ UNCHANGED repo
       ELSE IF Has("clear") THEN Goto("clear") /\ UNCHANGED repo
       ELSE IF Has("branch") /\ cmd.request.to = "" THEN Stop(2)
       ELSE IF repo.stash = <<>> THEN Stop(1)
       ELSE IF Has("drop") THEN repo' = [repo EXCEPT !.stash = Tail(@)] /\ Exit(0)
       ELSE Goto(IF Has("branch") THEN "branch" ELSE "apply") /\ UNCHANGED repo
    /\ Rest
StashPush ==
    /\ At("stash", "save")
    /\ IF ~Stashable(repo, Has("untracked")) THEN Stop(0)
       ELSE IF HeadCommit(repo) = 0 \/ HasConflicts(repo) THEN Stop(1)
       ELSE repo' = StashSave(repo, Has("untracked"), Has("keep_index")) /\ Exit(0)
    /\ Rest
\* Entry by entry until there is none.
StashClear ==
    /\ At("stash", "clear")
    /\ IF repo.stash = <<>> THEN Stop(0) ELSE repo' = [repo EXCEPT !.stash = Tail(@)] /\ UNCHANGED cmd
    /\ Rest
\* stash branch: the branch at the stash's base, HEAD on it, and the files checked out; HEAD
\* goes back when that fails.
StashBranch ==
    /\ At("stash", "branch")
    /\ LET new == cmd.request.to
       IN  IF HeadCommit(repo) = 0 \/ repo.refs[new] # 0 THEN Stop(1)
           ELSE repo' = [repo EXCEPT !.refs[new] = repo.stash[1].base] /\ Goto("stash_head")
    /\ Rest
StashHead ==
    /\ At("stash", "stash_head")
    /\ repo' = [repo EXCEPT !.head = [branch |-> cmd.request.to, at |-> 0]]
    /\ Goto("stash_checkout") /\ Rest
StashCheckout ==
    /\ At("stash", "stash_checkout")
    /\ repo' = SafeCheckout(repo, HeadTree(repo), HeadTree(repo))
    /\ Goto("apply") /\ Rest
\* git_stash_apply, git_stash_pop; drop comes only after an application that worked.
StashApplied ==
    /\ At("stash", "apply")
    /\ IF ~StashApplies(repo, repo.stash[1]) THEN Stop(1)
       ELSE /\ repo' = StashApply(repo, repo.stash[1], Has("index") \/ Has("branch"))
            /\ IF Has("pop") \/ Has("branch") THEN Goto("drop") ELSE Exit(0)
    /\ Rest
StashDrop == At("stash", "drop") /\ repo' = [repo EXCEPT !.stash = Tail(@)] /\ Exit(0) /\ Rest

-----------------------------------------------------------------------------
(* What may go wrong, and the whole.                                       *)

\* A call fails: the command ends with 1, merge and pull by way of their cleanup and stash branch
\* by way of HEAD's old name.
Fail ==
    /\ cmd.pc \notin {"idle", "exit", "start"} /\ budget.faults > 0
    /\ budget' = [budget EXCEPT !.faults = @ - 1]
    /\ repo' = IF (Command("merge") /\ ~Has("abort") /\ cmd.pc \in {"commit", "cleanup"}) \/ cmd.pc = "pull_commit"
               THEN Cleanup(repo)
               ELSE IF cmd.pc = "stash_checkout" THEN [repo EXCEPT !.head = before.head]
               ELSE repo
    /\ Exit(1) /\ UNCHANGED before
\* The process is killed.
Kill ==
    /\ cmd.pc \notin {"idle", "exit", "start"} /\ budget.faults > 0
    /\ budget' = [budget EXCEPT !.faults = @ - 1]
    /\ cmd' = [cmd EXCEPT !.pc = "exit", !.rc = 137]
    /\ UNCHANGED <<repo, before>>

SequenceNext ==
    \/ MergeStart \/ MergeAnalysis \/ MergeForward \/ MergeApply \/ MergeCommit \/ MergeCleanup
    \/ PickStart \/ PickApply \/ PickIndex \/ PickCommit \/ PickCleanup \/ FinalReset
    \/ RebaseStart \/ RebaseInit \/ RebaseAbort \/ RebaseContinue \/ RebaseNext
    \/ RebaseCommit \/ RebaseFinish
    \/ StashStart \/ StashPush \/ StashClear \/ StashBranch \/ StashHead \/ StashCheckout \/ StashApplied \/ StashDrop
=============================================================================
