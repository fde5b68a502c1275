------------------------------- MODULE GitRefs -------------------------------
(***************************************************************************)
(* The commands of the git applet that move names and exchange them with   *)
(* another repository: branch, tag, fetch, pull, push.  The other          *)
(* repository is moved by other people at any time, also between what a    *)
(* command was told by it and what the command does then.                  *)
(***************************************************************************)
EXTENDS GitSequence

CONSTANTS
    RemoteKey,  \* the configuration key of each field of each remote
    Hub,        \* the URL the other repository answers at
    Offered     \* whether the callback finds a credential in the environment

VARIABLE
    server      \* the other repository: its branches, its tags, whether it wants credentials

\* A remote is what the configuration says: its URLs, and the branches to fetch ("*": all).
Urls(r, remote) == r.config[RemoteKey[remote, "url"]]
Configured(r, remote) == Urls(r, remote) # <<>>
Fetched(r, remote) ==
    LET specs == ToSet(r.config[RemoteKey[remote, "fetch"]])
    IN  IF "*" \in specs THEN Branches ELSE specs \cap Branches
\* A connection; callback is whether the call carries the credentials callback.
Denied(callback) == server.auth /\ ~(callback /\ Offered)
Reached(remote, callback) == Urls(repo, remote)[1] = Hub /\ ~Denied(callback)

NoUpstream == <<"", "">>
OnBranch == repo.head.branch # ""
Current == repo.head.branch
Operand(i) == IF i \in DOMAIN cmd.request.paths THEN cmd.request.paths[i] ELSE ""
Count == Len(cmd.request.paths)
Unchanged == UNCHANGED <<repo, server>>

-----------------------------------------------------------------------------
(* branch                                                                  *)

\* The last option that names an action decides; an operand ends the options.
BranchUsage ==
    \/ Has("bad")
    \/ Has("create") /\ Count \notin 1 .. 2
    \/ Has("delete") /\ Count = 0
    \/ (Has("move") \/ Has("copy")) /\ Count \notin 1 .. 2
    \/ (Has("upstream") \/ Has("no_upstream")) /\ Count > 1
    \/ Has("show_current") /\ Count > 0
    \/ Has("merged") /\ Has("no_merged")
    \/ Has("contains") /\ Has("no_contains")
BranchWrong == At("branch", "start") /\ BranchUsage /\ Stop(2) /\ UNCHANGED server /\ Rest
BranchIs(option) == At("branch", "start") /\ ~BranchUsage /\ Has(option)

\* git_branch_create refuses an existing name, and by force the branch HEAD is on.
Creatable(name) == repo.refs[name] = 0 \/ (Has("force") /\ Current # name)
BranchCreate ==
    /\ BranchIs("create")
    /\ LET base == IF Count = 2 THEN Operand(2) ELSE "HEAD"
       IN  IF Resolve(repo, base) = 0 THEN Stop(128)
           ELSE IF ~Creatable(Operand(1)) THEN Stop(1)
           ELSE repo' = [repo EXCEPT !.refs[Operand(1)] = Resolve(repo, base)] /\ Exit(0)
    /\ UNCHANGED server /\ Rest
\* One name after the other; the first that is HEAD's or is not there ends the command.
\* -D deletes the reference only (git_reference_delete), and not what is configured for it.
BranchDelete ==
    /\ BranchIs("delete")
    /\ LET name == Operand(cmd.at + 1)
       IN  IF cmd.at = Count THEN Stop(0)
           ELSE IF name = Current \/ repo.refs[name] = 0 THEN Stop(1)
           ELSE /\ repo' = [repo EXCEPT !.refs[name] = 0,
                                        !.upstream[name] = IF Has("force") THEN @ ELSE NoUpstream]
                /\ cmd' = [cmd EXCEPT !.at = @ + 1]
    /\ UNCHANGED server /\ Rest
\* With one name the old one is HEAD's, read from a reference that was freed just before:
\* the lookup may find anything.
OldName == IF Count = 1 THEN Current ELSE Operand(1)
NewName == Operand(Count)
NotFound == repo.refs[OldName] = 0 /\ Stop(1)
FreedName == Count = 1 /\ \E rc \in {1, 2} : Stop(rc)
BranchRename ==
    /\ BranchIs("move")
    /\ IF Count = 1 /\ HeadCommit(repo) = 0 THEN Stop(128)
       ELSE \/ FreedName
            \/ OldName = "" /\ Stop(1)
            \/ OldName # "" /\ NotFound
            \/ OldName # "" /\ repo.refs[OldName] # 0
               /\ IF repo.refs[NewName] # 0 /\ ~Has("force") THEN Stop(1)
                  ELSE /\ repo' = [repo EXCEPT
                             !.refs = [b \in Branches |-> IF b = NewName THEN @[OldName]
                                                          ELSE IF b = OldName THEN 0 ELSE @[b]],
                             !.upstream = [b \in Branches |-> IF b = NewName THEN @[OldName]
                                              ELSE IF b = OldName THEN NoUpstream ELSE @[b]],
                             !.head.branch = IF @ = OldName THEN NewName ELSE @]
                       /\ Exit(0)
    /\ UNCHANGED server /\ Rest
\* -c: a new branch at the same commit, and the upstream of the old one if that can be set.
BranchCopy ==
    /\ BranchIs("copy")
    /\ IF Count = 1 /\ HeadCommit(repo) = 0 THEN Stop(128)
       ELSE \/ FreedName
            \/ OldName = "" /\ Stop(1)
            \/ OldName # "" /\ NotFound
            \/ OldName # "" /\ repo.refs[OldName] # 0
               /\ IF ~Creatable(NewName) THEN Stop(1)
                  ELSE /\ repo' = [repo EXCEPT
                             !.refs[NewName] = repo.refs[OldName],
                             !.upstream[NewName] = IF repo.upstream[OldName] # NoUpstream
                                                   THEN repo.upstream[OldName] ELSE @]
                       /\ Exit(0)
    /\ UNCHANGED server /\ Rest
\* git_branch_set_upstream needs a branch of that name, here or at the remote.
UpstreamOf(r, name) ==
    LET named == {k \in DOMAIN TrackingName : TrackingName[k] = name /\ r.tracking[k[1]][k[2]] # 0}
    IN  IF named # {} THEN CHOOSE k \in named : TRUE
        ELSE IF name \in Branches /\ r.refs[name] # 0 THEN <<".", name>> ELSE NoUpstream
BranchSetUpstream ==
    /\ BranchIs("upstream")
    /\ LET branch == IF Count = 1 THEN Operand(1) ELSE Current
           to == UpstreamOf(repo, cmd.request.rev)
       IN  IF branch = "" THEN Stop(1)
           ELSE IF repo.refs[branch] = 0 \/ to = NoUpstream THEN Stop(1)
           ELSE repo' = [repo EXCEPT !.upstream[branch] = to] /\ Exit(0)
    /\ UNCHANGED server /\ Rest
BranchUnsetUpstream ==
    /\ BranchIs("no_upstream")
    /\ LET branch == IF Count = 1 THEN Operand(1) ELSE Current
       IN  IF branch = "" THEN Stop(1)
           ELSE IF repo.refs[branch] = 0 \/ repo.upstream[branch] = NoUpstream THEN Stop(1)
           ELSE repo' = [repo EXCEPT !.upstream[branch] = NoUpstream] /\ Exit(0)
    /\ UNCHANGED server /\ Rest

-----------------------------------------------------------------------------
(* tag                                                                     *)

TagUsage ==
    \/ Has("bad")
    \/ Has("delete") /\ Count = 0
    \/ Has("create") /\ (Count \notin 1 .. 2 \/ (Has("annotate") /\ ~Has("message")))
TagCreate ==
    /\ At("tag", "start") /\ (TagUsage \/ Has("create"))
    /\ LET base == IF Count = 2 THEN Operand(2) ELSE "HEAD"
           c == Resolve(repo, base)
       IN  IF TagUsage THEN Stop(2)
           ELSE IF c = 0 THEN Stop(128)
           ELSE IF repo.tags[Operand(1)] # 0 /\ ~Has("force") THEN Stop(1)
           ELSE /\ repo' = [repo EXCEPT
                      !.tags[Operand(1)] = c,
                      !.annotated = IF Has("annotate") THEN @ \cup {Operand(1)} ELSE @ \ {Operand(1)}]
                /\ Exit(0)
    /\ UNCHANGED server /\ Rest
TagDelete ==
    /\ At("tag", "start") /\ ~TagUsage /\ Has("delete")
    /\ LET name == Operand(cmd.at + 1)
       IN  IF cmd.at = Count THEN Stop(0)
           ELSE IF repo.tags[name] = 0 THEN Stop(1)
           ELSE /\ repo' = [repo EXCEPT !.tags[name] = 0, !.annotated = @ \ {name}]
                /\ cmd' = [cmd EXCEPT !.at = @ + 1]
    /\ UNCHANGED server /\ Rest

-----------------------------------------------------------------------------
(* fetch                                                                   *)

\* git_remote_fetch: the branches of ps as the server has them, and with prune only those.
\* Tags come along when their commit does (or all, or none); an existing tag stays.
Downloaded(r, remote, ps, prune, tags) ==
    LET old == r.tracking[remote]
        new == [b \in Branches |-> IF b \in ps /\ (server.refs[b] # 0 \/ prune)
                                   THEN server.refs[b] ELSE old[b]]
        got == UNION {History(r.dag, server.refs[b]) : b \in ps}
    IN  [r EXCEPT
            !.tracking[remote] = new,
            !.tags = [t \in Tags |->
                IF @[t] = 0 /\ (tags = "all" \/ (tags = "auto" /\ server.tags[t] \in got))
                THEN server.tags[t] ELSE @[t]]]
TagMode == IF ~Command("fetch") THEN "auto"
           ELSE IF Has("tags") THEN "all" ELSE IF Has("no_tags") THEN "none" ELSE "auto"
RemoteOrder == SetToSortSeq(Remotes, LAMBDA a, b : a = "origin" /\ b # "origin")

FetchStart ==
    /\ At("fetch", "start")
    /\ LET one == IF cmd.request.to = "" THEN "origin" ELSE cmd.request.to
       IN  IF Has("bad") \/ (Has("all") /\ cmd.request.to # "") THEN Stop(2)
           ELSE IF Has("all")
                THEN cmd' = [cmd EXCEPT !.pc = "fetch",
                        !.specs = SelectSeq(RemoteOrder, LAMBDA m : Configured(repo, m))] /\ UNCHANGED repo
           ELSE IF ~Configured(repo, one) THEN Stop(1)
           ELSE cmd' = [cmd EXCEPT !.pc = "fetch", !.specs = <<one>>] /\ UNCHANGED repo
    /\ UNCHANGED server /\ Rest
\* One remote after the other; the first that fails ends the command.
FetchOne ==
    /\ cmd.pc = "fetch"
    /\ IF cmd.specs = <<>> THEN Stop(0)
       ELSE LET remote == cmd.specs[1]
                wanted == IF cmd.request.paths # <<>> THEN ToSet(cmd.request.paths)
                          ELSE Fetched(repo, remote)
            IN  IF ~Configured(repo, remote) \/ ~Reached(remote, TRUE) THEN Stop(1)
                ELSE /\ repo' = Downloaded(repo, remote, wanted, Has("prune"), TagMode)
                     /\ cmd' = [cmd EXCEPT !.specs = Tail(@)]
    /\ UNCHANGED server /\ Rest
-----------------------------------------------------------------------------
(* pull                                                                    *)

PullUsage ==
    \/ Has("bad")
    \/ Has("ff_only") /\ Has("no_ff")
    \/ Has("rebase") /\ (Has("ff_only") \/ Has("no_ff"))
\* Without operands the upstream of the branch, or else the same name at origin.
PullFrom ==
    LET configured == repo.upstream[Current]
    IN  IF cmd.request.to # ""
        THEN <<cmd.request.to, IF Count > 0 THEN Operand(1) ELSE Current>>
        ELSE IF configured[1] \in Remotes /\ repo.tracking[configured[1]][configured[2]] # 0 THEN configured
        ELSE <<"origin", Current>>
PullStart ==
    /\ At("pull", "start")
    /\ IF Has("bad") THEN Stop(2)
       ELSE IF ~OnBranch \/ HeadCommit(repo) = 0 THEN Stop(1)
       ELSE IF PullUsage THEN Stop(2)
       ELSE IF ~Configured(repo, PullFrom[1]) THEN Stop(1)
       ELSE cmd' = [cmd EXCEPT !.pc = "pull_fetch", !.specs = PullFrom] /\ UNCHANGED repo
    /\ UNCHANGED server /\ Rest
\* The one branch is fetched; with --rebase the rest is the command rebase, usage and all.
PullFetch ==
    /\ cmd.pc = "pull_fetch"
    /\ LET remote == cmd.specs[1]
           branch == cmd.specs[2]
           got == Downloaded(repo, remote, {branch}, FALSE, "auto")
       IN  IF ~Reached(remote, TRUE) THEN Stop(1)
           ELSE IF ~Has("rebase") /\ got.tracking[remote][branch] = 0 THEN repo' = got /\ Exit(1)
           ELSE /\ repo' = got
                /\ cmd' = IF Has("rebase")
                          THEN [cmd EXCEPT !.request = [NoRequest EXCEPT
                                    !.name = "rebase", !.rev = TrackingName[<<remote, branch>>]],
                                    !.pc = "start"]
                          ELSE [cmd EXCEPT !.pc = "pull_analysis",
                                    !.commit = got.tracking[remote][branch]]
    /\ UNCHANGED server /\ Rest
\* Slip: whatever is not new is taken for a fast-forward.
PullAnalysisBlind ==
    /\ cmd.pc = "pull_analysis"
    /\ IF Analysis(repo, cmd.commit) = "up_to_date" THEN Stop(0)
       ELSE cmd' = [cmd EXCEPT !.at = HeadCommit(repo), !.pc = "pull_forward"] /\ UNCHANGED repo
    /\ UNCHANGED server /\ Rest
PullAnalysis ==
    /\ cmd.pc = "pull_analysis"
    /\ LET found == Analysis(repo, cmd.commit)
           merging == found # "fastforward" \/ Has("no_ff")
       IN  IF found = "up_to_date" THEN Stop(0)
           ELSE IF Has("ff_only") /\ found # "fastforward" THEN Stop(1)
           ELSE IF merging /\ (Unfinished \/ Dirty) THEN Stop(1)
           ELSE /\ cmd' = [cmd EXCEPT !.at = HeadCommit(repo), !.index = TreeOf(repo, cmd.commit),
                              !.pc = IF ~merging THEN "pull_forward"
                                     ELSE IF found = "fastforward" THEN "pull_commit" ELSE "pull_merge"]
                /\ UNCHANGED repo
    /\ UNCHANGED server /\ Rest
\* The branch to the fetched commit (and HEAD on it, where it is), then what HEAD has is checked out.
PullForward ==
    /\ cmd.pc = "pull_forward"
    /\ repo' = [repo EXCEPT !.refs[Current] = cmd.commit]
    /\ Goto("checkout_head") /\ UNCHANGED server /\ Rest
PullMerge ==
    /\ cmd.pc = "pull_merge"
    /\ LET base == TreeOf(repo, MergeBase(repo.dag, HeadCommit(repo), cmd.commit))
           theirs == TreeOf(repo, cmd.commit)
           applied == Apply(repo, base, theirs)
       IN  IF ~Applies(repo, base, theirs) THEN Stop(1)
           ELSE IF HasConflicts(applied) THEN repo' = Cleanup(applied) /\ Exit(1)
           ELSE /\ repo' = [applied EXCEPT !.op = Operation("merge", cmd.commit)]
                /\ cmd' = [cmd EXCEPT !.pc = "pull_commit", !.index = applied.index]
    /\ UNCHANGED server /\ Rest
PullCommit ==
    /\ cmd.pc = "pull_commit" /\ Len(repo.dag) < MaxObjects
    /\ repo' = Cleanup(CommitTree(repo, cmd.index, <<cmd.at, cmd.commit>>))
    /\ Goto("checkout_head") /\ UNCHANGED server /\ Rest

-----------------------------------------------------------------------------
(* push                                                                    *)

PushUsage ==
    \/ Has("bad")
    \/ Has("all") /\ (Has("delete") \/ Count > 0)
    \/ Has("delete") /\ (Count = 0 \/ Has("tags") \/ Has("follow_tags"))
\* A refspec: what is pushed (0: deleted) to which name of the server.
BranchSpec(b) == [kind |-> "branch", name |-> b, to |-> repo.refs[b]]
DeleteSpec(b) == [kind |-> "branch", name |-> b, to |-> 0]
TagSpec(t) == [kind |-> "tag", name |-> t, to |-> repo.tags[t]]
\* --follow-tags: the annotated tags whose commit is in what is pushed.
FollowedTags(specs) ==
    LET tips == {s.to : s \in {s \in specs : s.kind = "branch" /\ s.to # 0}}
    IN  {TagSpec(t) : t \in {t \in repo.annotated : \E c \in tips : repo.tags[t] \in History(repo.dag, c)}}
PushSpecs ==
    LET branches == IF Has("all") THEN {BranchSpec(b) : b \in {b \in Branches : repo.refs[b] # 0}}
                    ELSE IF Has("delete") THEN {DeleteSpec(cmd.request.paths[i]) : i \in 1 .. Count}
                    ELSE IF Count = 0 THEN {BranchSpec(Current)}
                    ELSE {BranchSpec(cmd.request.paths[i]) : i \in 1 .. Count}
        tags == IF Has("tags") THEN {TagSpec(t) : t \in {t \in Tags : repo.tags[t] # 0}} ELSE {}
    IN  branches \cup tags \cup (IF Has("follow_tags") THEN FollowedTags(branches) ELSE {})
PushStart ==
    /\ At("push", "start")
    /\ LET remote == IF cmd.request.to = "" THEN "origin" ELSE cmd.request.to
       IN  IF PushUsage THEN Stop(2)
           ELSE IF Count = 0 /\ ~Has("all") /\ (~OnBranch \/ HeadCommit(repo) = 0) THEN Stop(1)
           ELSE IF PushSpecs = {} \/ Has("dry_run") THEN Stop(0)
           ELSE IF ~Configured(repo, remote) THEN Stop(1)
           ELSE /\ cmd' = [cmd EXCEPT !.pc = "push_connect", !.specs = SetToSeq(PushSpecs)]
                /\ UNCHANGED repo
    /\ UNCHANGED server /\ Rest
\* git_remote_push: what the server has is told first, and checked on this side.
Advertised(s) == IF s.kind = "branch" THEN server.refs[s.name] ELSE server.tags[s.name]
\* Slip: every refspec is written with a plus sign.
ForwardAlways(s, old) == TRUE
Forward(s, old) == old = 0 \/ s.to = 0 \/ Has("force") \/ old \in History(repo.dag, s.to)
PushConnect ==
    /\ cmd.pc = "push_connect"
    /\ LET remote == IF cmd.request.to = "" THEN "origin" ELSE cmd.request.to
           missing == {i \in DOMAIN cmd.specs : cmd.specs[i].to = 0 /\ ~Has("delete")}
       IN  IF ~Reached(remote, TRUE) \/ missing # {} THEN Stop(1)
           ELSE IF \E i \in DOMAIN cmd.specs : ~Forward(cmd.specs[i], Advertised(cmd.specs[i])) THEN Stop(1)
           ELSE /\ cmd' = [cmd EXCEPT !.pc = "push_update",
                              !.seen = [i \in DOMAIN cmd.specs |-> Advertised(cmd.specs[i])]]
                /\ UNCHANGED repo
    /\ UNCHANGED server /\ Rest
\* The server takes each update whose old value is still its own, and says so for each; a
\* refused update is reported to a callback the applet does not set.
PushUpdate ==
    /\ cmd.pc = "push_update"
    /\ LET remote == IF cmd.request.to = "" THEN "origin" ELSE cmd.request.to
           taken == {cmd.specs[i] : i \in {i \in DOMAIN cmd.specs : Advertised(cmd.specs[i]) = cmd.seen[i]}}
           to(kind, name) == {s.to : s \in {s \in taken : s.kind = kind /\ s.name = name}}
           moved(kind, old, name) == IF to(kind, name) = {} THEN old
                                     ELSE CHOOSE c \in to(kind, name) : TRUE
       IN  /\ server' = [server EXCEPT
                  !.refs = [b \in Branches |-> moved("branch", @[b], b)],
                  !.tags = [t \in Tags |-> moved("tag", @[t], t)]]
           /\ cmd' = [cmd EXCEPT !.pc = "push_tips",
                        !.index = [b \in Fetched(repo, remote) |->
                                      moved("branch", repo.tracking[remote][b], b)]]
    /\ UNCHANGED repo /\ Rest
\* What was taken is now what the remote-tracking branches say.
PushTips ==
    /\ cmd.pc = "push_tips"
    /\ LET remote == IF cmd.request.to = "" THEN "origin" ELSE cmd.request.to
       IN  repo' = [repo EXCEPT !.tracking[remote] =
                 [b \in Branches |-> IF b \in DOMAIN cmd.index THEN cmd.index[b] ELSE @[b]]]
    /\ Goto("push_upstream") /\ UNCHANGED server /\ Rest
\* -u, and only for a push of the one current branch.
PushUpstream ==
    /\ cmd.pc = "push_upstream"
    /\ LET remote == IF cmd.request.to = "" THEN "origin" ELSE cmd.request.to
           alone == Count = 0 \/ (Count = 1 /\ Operand(1) = Current)
           sets == /\ Has("set_upstream") /\ OnBranch /\ alone
                   /\ ~Has("all") /\ ~Has("tags") /\ ~Has("delete")
                   /\ repo.tracking[remote][Current] # 0
       IN  repo' = IF sets THEN [repo EXCEPT !.upstream[Current] = <<remote, Current>>] ELSE repo
    /\ Exit(0) /\ UNCHANGED server /\ Rest

\* Somebody else pushes to the server: a commit on what it has.
ServerCommit(b, tree) ==
    /\ Len(repo.dag) < MaxObjects /\ server.refs[b] # 0 /\ budget.faults > 0
    /\ repo' = [repo EXCEPT !.dag = Append(@, [parents |-> <<server.refs[b]>>, tree |-> tree])]
    /\ server' = [server EXCEPT !.refs[b] = Len(repo.dag) + 1]
    /\ budget' = [budget EXCEPT !.faults = @ - 1]
    /\ UNCHANGED <<cmd, before>>

RefsNext ==
    \/ BranchWrong \/ BranchCreate \/ BranchDelete \/ BranchRename \/ BranchCopy
    \/ BranchSetUpstream \/ BranchUnsetUpstream \/ TagCreate \/ TagDelete
    \/ FetchStart \/ FetchOne
    \/ PullStart \/ PullFetch \/ PullAnalysis \/ PullForward \/ PullMerge \/ PullCommit
    \/ PushStart \/ PushConnect \/ PushUpdate \/ PushTips \/ PushUpstream
=============================================================================
