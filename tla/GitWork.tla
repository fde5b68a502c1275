------------------------------- MODULE GitWork -------------------------------
(***************************************************************************)
(* The commands of the git applet that move the index, the files and HEAD: *)
(* add, rm, mv, clean, commit, reset, restore, checkout, switch.  A        *)
(* command is one process; its actions are the stretches between two calls *)
(* that can fail or leave something on disk, so that a failed call or an   *)
(* interruption is possible between any two of them.                       *)
(***************************************************************************)
EXTENDS GitRepo

CONSTANT MaxObjects     \* commits there may be in a run

VARIABLES
    repo,       \* the repository: objects, branches, HEAD, index, files, operation, stash
    cmd,        \* the running command: its request, where it is, its exit status, its memory
    before,     \* the repository when the command began
    budget      \* what is left of commands and of failures

NoRequest == [name |-> "none", opts |-> {}, rev |-> "", to |-> "", paths |-> <<>>]
Idle == [request |-> NoRequest, pc |-> "idle", rc |-> 0, index |-> NoTree, at |-> 0, commit |-> 0,
         specs |-> <<>>, seen |-> <<>>, denied |-> FALSE]

Has(option) == option \in cmd.request.opts
Command(name) == cmd.request.name = name
At(name, pc) == Command(name) /\ cmd.pc = pc
Rest == UNCHANGED <<before, budget>>
Goto(pc) == cmd' = [cmd EXCEPT !.pc = pc]
Exit(rc) == cmd' = [cmd EXCEPT !.pc = "exit", !.rc = rc]
Stop(rc) == Exit(rc) /\ UNCHANGED repo
\* The paths an operand stands for.
Under(operand) == IF operand \in Dirs THEN Inside[operand] ELSE {operand}
Operands == UNION {Under(cmd.request.paths[i]) : i \in DOMAIN cmd.request.paths}

\* HEAD names nothing: an empty file, which no repository can have.
Broken(r) == r.head = [branch |-> "", at |-> 0]
\* The main program: options, the repository, the table of subcommands.
Begin(request) ==
    /\ cmd.pc = "idle" /\ budget.commands > 0
    /\ cmd' = IF Broken(repo) /\ request.name \notin {"init", "clone", "ls-remote"}
              THEN [Idle EXCEPT !.request = request, !.pc = "exit", !.rc = 1]
              ELSE [Idle EXCEPT !.request = request, !.pc = "start", !.index = repo.index]
    /\ before' = repo
    /\ budget' = [budget EXCEPT !.commands = @ - 1]
    /\ UNCHANGED repo
End == cmd.pc = "exit" /\ cmd' = Idle /\ UNCHANGED <<repo, before, budget>>

\* The user works on a file between two commands.
Edit(p, blob) ==
    /\ cmd.pc = "idle" /\ budget.commands > 0 /\ repo.files[p] # blob
    /\ repo' = [repo EXCEPT !.files[p] = blob]
    /\ before' = repo' /\ budget' = [budget EXCEPT !.commands = @ - 1]
    /\ UNCHANGED cmd

-----------------------------------------------------------------------------
(* add: every operand into the index in memory, which is then written.     *)

Add ==
    /\ At("add", "start")
    /\ LET missing == {p \in Operands : repo.files[p] = Absent}
           chosen == IF cmd.request.paths # <<>> THEN Operands ELSE Paths
       IN  IF Has("bad") \/ (cmd.request.paths = <<>> /\ ~Has("all")) THEN Stop(2)
           ELSE IF missing # {} THEN Stop(128)
           ELSE /\ cmd' = [cmd EXCEPT !.pc = "write",
                              !.index = [p \in Paths |-> IF p \in chosen THEN repo.files[p] ELSE @[p]]]
                /\ UNCHANGED repo
    /\ Rest

\* rm: operand by operand, path by path, out of the index in memory and then off the disk.
RmMatches(operand) == {p \in Under(operand) : cmd.index[p] # Absent}
Rm ==
    /\ At("rm", "start")
    /\ LET i == cmd.at + 1
           wanted == cmd.request.paths
       IN  IF Has("bad") \/ wanted = <<>> THEN Stop(2)
           ELSE IF i > Len(wanted) THEN Goto("write") /\ UNCHANGED repo
           ELSE IF wanted[i] \in Dirs /\ ~Has("recursive")
                THEN Stop(IF RmMatches(wanted[i]) = {} THEN 128 ELSE 1)
           ELSE IF RmMatches(wanted[i]) = {} THEN Stop(128)
           ELSE Goto("remove") /\ UNCHANGED repo
    /\ Rest
RmOne ==
    /\ At("rm", "remove")
    /\ LET left == RmMatches(cmd.request.paths[cmd.at + 1])
       IN  IF left = {} THEN cmd' = [cmd EXCEPT !.pc = "start", !.at = @ + 1] /\ UNCHANGED repo
           ELSE \E p \in left :
                    /\ cmd' = [cmd EXCEPT !.index[p] = Absent]
                    /\ repo' = IF Has("cached") THEN repo ELSE [repo EXCEPT !.files[p] = Absent]
    /\ Rest

\* mv of a path: rename on the disk, then its entry in the index in memory.
Mv ==
    /\ At("mv", "start")
    /\ LET from == cmd.request.paths[1]
           to == cmd.request.paths[2]
       IN  IF Has("bad") \/ Len(cmd.request.paths) < 2 THEN Stop(2)
           ELSE IF cmd.index[from] = Absent \/ (~Has("force") /\ repo.files[to] # Absent) THEN Stop(1)
           ELSE IF repo.files[from] = Absent THEN Stop(1)
           ELSE /\ repo' = [repo EXCEPT !.files[to] = repo.files[from], !.files[from] = Absent]
                /\ Goto("index")
    /\ Rest
MvIndex ==
    /\ At("mv", "index")
    /\ LET from == cmd.request.paths[1]
           to == cmd.request.paths[2]
       IN  cmd' = [cmd EXCEPT !.index[from] = Absent, !.index[to] = repo.files[to], !.pc = "write"]
    /\ UNCHANGED repo /\ Rest

\* add, rm and mv end by writing the index.
WriteIndex ==
    /\ \E name \in {"add", "rm", "mv"} : At(name, "write")
    /\ repo' = [repo EXCEPT !.index = cmd.index]
    /\ Exit(0) /\ Rest

\* clean: needs -f or -n; what is listed is removed, one path after the other.
CleanCandidates ==
    {p \in Paths : /\ repo.files[p] # Absent /\ repo.index[p] = Absent
                   /\ cmd.request.paths = <<>> \/ p \in Operands}
\* Without operands a directory with nothing tracked is one entry of the list.
Collapsed(p) ==
    /\ cmd.request.paths = <<>>
    /\ \E d \in Dirs : p \in Inside[d] /\ \A q \in Inside[d] : repo.index[q] = Absent
Clean ==
    /\ At("clean", "start")
    /\ IF Has("bad") THEN Stop(2)
       ELSE IF ~Has("force") /\ ~Has("dry") THEN Stop(1)
       ELSE Goto("remove") /\ UNCHANGED repo
    /\ Rest
CleanOne ==
    /\ At("clean", "remove")
    /\ LET left == IF Has("dry") THEN {} ELSE {p \in CleanCandidates : Has("dirs") \/ ~Collapsed(p)}
       IN  IF left = {} THEN Stop(0)
           ELSE /\ \E p \in left : repo' = [repo EXCEPT !.files[p] = Absent]
                /\ UNCHANGED cmd
    /\ Rest

-----------------------------------------------------------------------------
(* commit: the index is staged and written first, everything is checked    *)
(* after that, and the commit is the last step.                            *)

CommitUsage ==
    \/ Has("bad")
    \/ (Has("no_edit") \/ Has("reset_author")) /\ ~Has("amend")
    \/ ~Has("amend") /\ ~Has("message") /\ ~Has("reuse")

\* -a: what is tracked and changed or gone.
StageTracked(index, files) ==
    [p \in Paths |-> IF index[p] \in {Absent, Conflicted} THEN index[p] ELSE files[p]]

CommitStage ==
    /\ At("commit", "start")
    /\ LET staged == IF Has("all") THEN StageTracked(repo.index, repo.files) ELSE repo.index
       IN  IF CommitUsage THEN Stop(2)
           ELSE IF \E p \in Paths : staged[p] = Conflicted THEN Stop(1)
           ELSE /\ repo' = [repo EXCEPT !.index = staged]
                /\ cmd' = [cmd EXCEPT !.pc = "check", !.index = staged]
    /\ Rest
CommitCheck ==
    /\ At("commit", "check")
    /\ LET head == HeadCommit(repo)
       IN  IF Has("amend") /\ head = 0 THEN Stop(1)
           ELSE IF Has("reuse") /\ Resolve(repo, cmd.request.rev) = 0 THEN Stop(128)
           ELSE IF ~Has("allow_empty") /\ ~Has("amend") /\ head # 0 /\ cmd.index = HeadTree(repo)
                THEN Stop(1)
           ELSE Goto("message") /\ UNCHANGED repo
    /\ Rest
\* The message, the signatures, --author, the sign-off.
CommitMessage ==
    /\ At("commit", "message")
    /\ IF Has("author_bad") THEN Stop(2)
       ELSE Goto("create") /\ UNCHANGED repo
    /\ Rest
CommitCreate ==
    /\ At("commit", "create") /\ Len(repo.dag) < MaxObjects
    /\ LET head == HeadCommit(repo)
           parents == IF Has("amend") THEN repo.dag[head].parents
                      ELSE IF head = 0 THEN <<>> ELSE <<head>>
       IN  repo' = CommitTree(repo, cmd.index, parents)
    /\ Exit(0) /\ Rest

-----------------------------------------------------------------------------
(* reset, restore.                                                         *)

ResetUsage == Has("bad") \/ (cmd.request.paths # <<>> /\ (Has("soft") \/ Has("hard")))
\* Slip: paths and modes are found not to go together after the paths are reset.
ResetEarly ==
    /\ At("reset", "start")
    /\ LET c == Resolve(repo, IF cmd.request.rev = "" THEN "HEAD" ELSE cmd.request.rev)
       IN  IF Has("bad") THEN Stop(2)
           ELSE IF c = 0 THEN Stop(128)
           ELSE IF cmd.request.paths # <<>>
                THEN repo' = ResetPaths(repo, c, Operands) /\ Exit(IF ResetUsage THEN 2 ELSE 0)
           ELSE repo' = ResetMixed(repo, c) /\ Exit(0)
    /\ Rest
Reset ==
    /\ At("reset", "start")
    /\ LET rev == IF cmd.request.rev = "" THEN "HEAD" ELSE cmd.request.rev
           c == Resolve(repo, rev)
       IN  IF Has("bad") THEN Stop(2)
           ELSE IF c = 0 THEN Stop(128)
           ELSE IF ResetUsage THEN Stop(2)
           ELSE IF Has("soft") /\ (HasConflicts(repo) \/ repo.op.kind = "merge") THEN Stop(1)
           ELSE /\ repo' = IF cmd.request.paths # <<>> THEN ResetPaths(repo, c, Operands)
                           ELSE IF Has("soft") THEN ResetSoft(repo, c)
                           ELSE IF Has("hard") THEN ResetHard(repo, c)
                           ELSE ResetMixed(repo, c)
                /\ Exit(0)
    /\ Rest

\* restore: the index of the paths first (--staged), then their files.
RestoreIndex ==
    /\ At("restore", "start")
    /\ LET source == IF cmd.request.rev # "" THEN cmd.request.rev ELSE "HEAD"
           needed == Has("staged") \/ cmd.request.rev # ""
           c == Resolve(repo, source)
       IN  IF Has("bad") \/ cmd.request.paths = <<>> THEN Stop(2)
           ELSE IF needed /\ c = 0 THEN Stop(128)
           ELSE /\ repo' = IF Has("staged") THEN ResetPaths(repo, c, Operands) ELSE repo
                /\ cmd' = [cmd EXCEPT !.pc = "files", !.commit = IF needed THEN c ELSE 0]
    /\ Rest
RestoreFiles ==
    /\ At("restore", "files")
    /\ repo' = IF Has("staged") /\ ~Has("worktree") THEN repo
               ELSE ForceCheckout(repo, IF cmd.commit # 0 THEN TreeOf(repo, cmd.commit) ELSE repo.index,
                                  Operands)
    /\ Exit(0) /\ Rest

-----------------------------------------------------------------------------
(* checkout and switch.                                                    *)

Switching == Command("switch")
CheckoutUsage ==
    \/ Has("bad")
    \/ Has("paths") /\ (Switching \/ Has("detach") \/ Has("create") \/ cmd.request.paths = <<>>)
    \/ ~Has("paths") /\ ~Has("create") /\ cmd.request.rev = ""
\* checkout [rev] -- paths: the index from the revision, then the files by force.
CheckoutPaths ==
    /\ At("checkout", "start") /\ ~CheckoutUsage /\ Has("paths")
    /\ LET c == Resolve(repo, cmd.request.rev)
           given == cmd.request.rev # ""
           from == IF given THEN ResetPaths(repo, c, Operands) ELSE repo
       IN  IF given /\ c = 0 THEN Stop(128)
           ELSE /\ repo' = ForceCheckout(from, IF given THEN TreeOf(repo, c) ELSE repo.index, Operands)
                /\ Exit(0)
    /\ Rest

CheckoutTarget == IF cmd.request.rev = "" THEN "HEAD" ELSE cmd.request.rev
\* The usage errors; -b, -B, -c, -C make the branch; otherwise the name says how to go on.
CheckoutStart ==
    /\ At("checkout", "start") \/ At("switch", "start")
    /\ CheckoutUsage \/ ~Has("paths")
    /\ LET c == Resolve(repo, CheckoutTarget)
           new == cmd.request.to
       IN  IF CheckoutUsage THEN Stop(2)
           ELSE IF Has("create")
           THEN IF c = 0 THEN Stop(128)
                ELSE IF repo.refs[new] # 0 /\ (~Has("force_create") \/ repo.head.branch = new) THEN Stop(1)
                ELSE repo' = [repo EXCEPT !.refs[new] = c]
                     /\ cmd' = [cmd EXCEPT !.pc = "set_head", !.request.rev = new]
           ELSE IF Has("detach") THEN IF c = 0 THEN Stop(128) ELSE Goto("detach") /\ UNCHANGED repo
           ELSE IF CheckoutTarget \in Branches /\ c # 0 THEN Goto("set_head") /\ UNCHANGED repo
           ELSE IF Switching THEN Stop(1)
           ELSE IF c = 0 THEN Stop(128)
           ELSE Goto("detach") /\ UNCHANGED repo
    /\ Rest

\* A branch: HEAD first, and then git_checkout_head, for which HEAD is also what the files had.
CheckoutSetHead ==
    /\ cmd.pc = "set_head"
    /\ repo' = [repo EXCEPT !.head = [branch |-> cmd.request.rev, at |-> 0]]
    /\ Goto("checkout_head") /\ Rest
CheckoutHead ==
    /\ cmd.pc = "checkout_head"
    /\ repo' = IF Has("force") THEN ForceCheckout(repo, HeadTree(repo), Paths)
               ELSE SafeCheckout(repo, HeadTree(repo), HeadTree(repo))
    /\ Exit(0) /\ Rest

\* A commit: the files first, from what HEAD has, and then HEAD.
CheckoutDetach ==
    /\ cmd.pc = "detach"
    /\ LET c == Resolve(repo, CheckoutTarget)
           tree == TreeOf(repo, c)
       IN  IF ~Has("force") /\ Blocked(repo, HeadTree(repo), tree) # {} THEN Stop(1)
           ELSE /\ repo' = IF Has("force") THEN ForceCheckout(repo, tree, Paths)
                           ELSE SafeCheckout(repo, HeadTree(repo), tree)
                /\ cmd' = [cmd EXCEPT !.pc = "detach_head", !.commit = c]
    /\ Rest
CheckoutDetachHead ==
    /\ cmd.pc = "detach_head"
    /\ repo' = [repo EXCEPT !.head = [branch |-> "", at |-> cmd.commit]]
    /\ Exit(0) /\ Rest

WorkNext ==
    \/ Add \/ Rm \/ RmOne \/ Mv \/ MvIndex \/ WriteIndex \/ Clean \/ CleanOne
    \/ CommitStage \/ CommitCheck \/ CommitMessage \/ CommitCreate
    \/ Reset \/ RestoreIndex \/ RestoreFiles
    \/ CheckoutPaths \/ CheckoutStart \/ CheckoutSetHead \/ CheckoutHead
    \/ CheckoutDetach \/ CheckoutDetachHead
=============================================================================
