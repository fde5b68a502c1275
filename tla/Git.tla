--------------------------------- MODULE Git ---------------------------------
(***************************************************************************)
(* The git applet: one command after the other on a repository, edits by   *)
(* the user between them, somebody else's pushes to the server at any      *)
(* time, failed calls and kills between any two steps of a command.  A     *)
(* session says where things stand at first and what may be done in it.    *)
(*                                                                         *)
(* First the questions.  A question changes nothing: it is an operator     *)
(* from the repository r and the request q to the exit status and what is  *)
(* told, in the order in which it is told.  Revisions are the operands; a  *)
(* name that is hidden is q.to.                                            *)
(***************************************************************************)
EXTENDS GitRemote

Says(rc) == [rc |-> rc, out |-> <<>>]
Tells(out) == [rc |-> 0, out |-> out]
On(q, option) == option \in q.opts
Rev(q, i) == IF i \in DOMAIN q.paths THEN q.paths[i] ELSE "HEAD"
Unresolved(r, revs) == \E rev \in revs : Resolve(r, rev) = 0
\* git_graph_descendant_of: a commit does not descend from itself.
Descends(r, d, c) == d # c /\ c \in History(r.dag, d)
\* git_revwalk, sorted: newest first, and every commit before its parents.
Walk(r, from, hidden) ==
    SetToSortSeq(UNION {History(r.dag, c) : c \in from} \ UNION {History(r.dag, c) : c \in hidden}, >)
First(q, list) == IF On(q, "one") THEN SubSeq(list, 1, IF list = <<>> THEN 0 ELSE 1) ELSE list
\* The paths in which two trees differ.
Differing(a, b) == {p \in Paths : a[p] # b[p]}
\* smallclueGitRefNameMatchesPattern and fnmatch, for patterns that are names.
Selected(q, name) == q.paths = <<>> \/ name \in ToSet(q.paths)

-----------------------------------------------------------------------------
(* Names.                                                                  *)

RevParse(r, q) ==
    IF On(q, "bad") THEN Says(2)
    ELSE IF On(q, "inside") THEN Tells(<<"true">>)
    ELSE IF On(q, "toplevel") \/ On(q, "git_dir") THEN Tells(<<"path">>)
    ELSE IF Resolve(r, Rev(q, 1)) = 0 THEN Says(128)
    ELSE IF On(q, "abbrev_ref") \/ On(q, "symbolic")
         THEN Tells(IF Rev(q, 1) # "HEAD" THEN <<Rev(q, 1)>>
                    ELSE IF r.head.branch # "" THEN <<r.head.branch>> ELSE <<"HEAD">>)
    ELSE Tells(<<Resolve(r, Rev(q, 1))>>)

SymbolicRef(r, q) ==
    IF On(q, "bad") \/ Len(q.paths) > 1 THEN Says(2)
    ELSE IF Rev(q, 1) = "HEAD" /\ r.head.branch # "" THEN Tells(<<r.head.branch>>)
    ELSE Says(1)

ShowRef(r, q) ==
    LET heads == {<<"heads", b>> : b \in {b \in Branches : r.refs[b] # 0}}
        tags == {<<"tags", t>> : t \in {t \in Tags : r.tags[t] # 0}}
        remotes == {<<"remotes", k[2]>> : k \in {k \in Remotes \X Branches : r.tracking[k[1]][k[2]] # 0}}
        all == (IF On(q, "tags") THEN {} ELSE heads) \cup (IF On(q, "heads") THEN {} ELSE tags)
               \cup (IF On(q, "heads") \/ On(q, "tags") THEN {} ELSE remotes)
        found == {name \in all : Selected(q, name[2])}
    IN  IF On(q, "bad") THEN Says(2)
        ELSE IF q.paths # <<>> /\ found = {} THEN Says(1)
        ELSE Tells(SetToSeq(found))

\* branch without an action: the filters are tested branch by branch.
Passes(r, q, c, target) ==
    LET merged == c = target \/ Descends(r, target, c)
        contains == c = target \/ Descends(r, c, target)
    IN  /\ On(q, "merged") => merged
        /\ On(q, "no_merged") => ~merged
        /\ On(q, "contains") => contains
        /\ On(q, "no_contains") => ~contains
        /\ On(q, "points_at") => c = target
BranchList(r, q) ==
    LET target == Resolve(r, IF q.rev = "" THEN "HEAD" ELSE q.rev)
        filtered == q.opts \cap {"merged", "no_merged", "contains", "no_contains", "points_at"} # {}
    IN  IF On(q, "bad") \/ (On(q, "merged") /\ On(q, "no_merged"))
           \/ (On(q, "contains") /\ On(q, "no_contains")) THEN Says(2)
        ELSE IF filtered /\ target = 0 THEN Says(128)
        ELSE Tells(SetToSeq({b \in Branches : /\ r.refs[b] # 0 /\ Selected(q, b)
                                              /\ Passes(r, q, r.refs[b], target)}))
ShowCurrent(r, q) ==
    IF Len(q.paths) > 0 THEN Says(2)
    ELSE IF HeadCommit(r) = 0 THEN Says(1)
    ELSE Tells(IF r.head.branch = "" THEN <<>> ELSE <<r.head.branch>>)
TagList(r, q) == Tells(SetToSeq({t \in Tags : r.tags[t] # 0 /\ Selected(q, t)}))

\* The nearest tag that is reached; only an annotated one unless --tags.
Describe(r, q) ==
    LET c == Resolve(r, Rev(q, 1))
        usable == IF On(q, "tags") THEN Tags ELSE r.annotated
        reached == {t \in usable : r.tags[t] \in History(r.dag, c)}
        distance(t) == Cardinality(History(r.dag, c) \ History(r.dag, r.tags[t]))
        nearest == {t \in reached : \A u \in reached : distance(t) <= distance(u)}
    IN  IF On(q, "bad") \/ Len(q.paths) > 1 THEN Says(2)
        ELSE IF c = 0 THEN Says(128)
        ELSE IF reached # {} THEN LET t == CHOOSE t \in nearest : TRUE IN Tells(<<t, distance(t)>>)
        ELSE IF On(q, "always") THEN Tells(<<c>>) ELSE Says(128)

-----------------------------------------------------------------------------
(* History.                                                                *)

\* rev-list and log cut the list first and turn it round afterwards.
Listed(q, list) == IF On(q, "reverse") THEN Reverse(First(q, list)) ELSE First(q, list)
RevList(r, q) ==
    IF On(q, "bad") \/ q.paths = <<>> THEN Says(2)
    ELSE IF On(q, "zero") THEN Tells(<<>>)
    ELSE IF Unresolved(r, ToSet(q.paths)) THEN Says(128)
    ELSE Tells(Listed(q, Walk(r, {Resolve(r, rev) : rev \in ToSet(q.paths)}, {})))

\* log --all takes what is under refs/, which HEAD need not be; -p sets --reverse aside.
LogFrom(r, q) ==
    LET under == {r.refs[b] : b \in Branches} \cup {r.tags[t] : t \in Tags}
                 \cup {r.tracking[k[1]][k[2]] : k \in Remotes \X Branches}
    IN  (IF On(q, "all") THEN under \ {0} ELSE IF q.paths = <<>> THEN {HeadCommit(r)} ELSE {})
        \cup {Resolve(r, rev) : rev \in ToSet(q.paths)}
Log(r, q) ==
    LET from == LogFrom(r, q)
        hidden == IF q.to = "" THEN {} ELSE {Resolve(r, q.to)}
        list == Walk(r, from, hidden)
    IN  IF On(q, "bad") THEN Says(2)
        ELSE IF ~On(q, "all") /\ q.paths = <<>> /\ HeadCommit(r) = 0 THEN Says(1)
        ELSE IF 0 \in from \cup hidden THEN Says(128)
        ELSE IF On(q, "zero") THEN Tells(<<>>)
        ELSE Tells(IF On(q, "patch") THEN First(q, list) ELSE Listed(q, list))

MergeBaseOf(r, q) ==
    LET a == Resolve(r, Rev(q, 1))
        b == Resolve(r, Rev(q, 2))
        common == History(r.dag, a) \cap History(r.dag, b)
        best == {c \in common : \A d \in common : ~Descends(r, d, c)}
    IN  IF On(q, "bad") \/ Len(q.paths) # 2 \/ (On(q, "all") /\ On(q, "is_ancestor")) THEN Says(2)
        ELSE IF a = 0 \/ b = 0 THEN Says(128)
        ELSE IF On(q, "is_ancestor") THEN Says(IF Descends(r, b, a) THEN 0 ELSE 1)
        ELSE IF common = {} THEN Says(1)
        ELSE Tells(IF On(q, "all") THEN SetToSeq(best) ELSE <<MergeBase(r.dag, a, b)>>)

\* cherry: what head has and upstream lacks, oldest first; "-" when upstream has the same
\* patch.  A merge has no patch.
Patch(r, c) ==
    LET parents == r.dag[c].parents
        old == IF parents = <<>> THEN NoTree ELSE TreeOf(r, parents[1])
    IN  IF Len(parents) > 1 THEN {} ELSE {<<p, old[p], TreeOf(r, c)[p]>> : p \in Differing(old, TreeOf(r, c))}
DefaultUpstream(r) ==
    LET to == r.upstream[r.head.branch]
    IN  IF r.head.branch = "" \/ to = NoUpstream THEN 0
        ELSE IF to[1] = "." THEN r.refs[to[2]] ELSE r.tracking[to[1]][to[2]]
Cherry(r, q) ==
    LET upstream == IF q.paths = <<>> THEN DefaultUpstream(r) ELSE Resolve(r, q.paths[1])
        head == Resolve(r, Rev(q, 2))
        limit == IF Len(q.paths) > 2 THEN {Resolve(r, q.paths[3])} ELSE {}
        theirs == {Patch(r, c) : c \in ToSet(Walk(r, {upstream}, {head}))} \ {{}}
        list == Reverse(Walk(r, {head}, {upstream} \cup limit))
    IN  IF On(q, "bad") \/ Len(q.paths) > 3 THEN Says(2)
        ELSE IF q.paths = <<>> /\ upstream = 0 THEN Says(129)
        ELSE IF 0 \in {upstream, head} \cup limit THEN Says(128)
        ELSE Tells([i \in DOMAIN list |-> <<IF Patch(r, list[i]) \in theirs THEN "-" ELSE "+", list[i]>>])

\* blame of a path: the commit that gave it what it has.
Blame(r, q) ==
    LET c == Resolve(r, IF q.rev = "" THEN "HEAD" ELSE q.rev)
        path == q.paths[1]
        same == {d \in History(r.dag, c) : TreeOf(r, d)[path] = TreeOf(r, c)[path]}
        origin(d) == \A i \in DOMAIN r.dag[d].parents : r.dag[d].parents[i] \notin same
    IN  IF On(q, "bad") \/ Len(q.paths) # 1 THEN Says(2)
        ELSE IF c = 0 THEN Says(128)
        ELSE IF TreeOf(r, c)[path] = Absent THEN Says(1)
        ELSE Tells(<<Max({d \in same : origin(d)})>>)

-----------------------------------------------------------------------------
(* Files.                                                                  *)

Untracked(r) == {p \in Paths : r.index[p] = Absent /\ r.files[p] # Absent}
Changed(r) == {p \in Paths : r.index[p] # Absent /\ r.files[p] # r.index[p]}
Staged(r) == Differing(r.index, HeadTree(r))

\* status: two letters for each path, "??" for an untracked one whatever else it is; a
\* conflict has no letter.
StatusLetter(old, new) ==
    IF new = Conflicted THEN " " ELSE IF old = new THEN " " ELSE IF old = Absent THEN "A"
    ELSE IF new = Absent THEN "D" ELSE "M"
Status(r, q) ==
    LET told == Staged(r) \cup Changed(r) \cup (IF On(q, "no_untracked") THEN {} ELSE Untracked(r))
        entry(p) == IF p \in Untracked(r) /\ ~On(q, "no_untracked") THEN <<"?", "?", p>>
                    ELSE <<StatusLetter(HeadTree(r)[p], r.index[p]),
                           IF p \in Changed(r) THEN StatusLetter(r.index[p], r.files[p]) ELSE " ", p>>
    IN  IF On(q, "bad") THEN Says(2) ELSE Tells(SetToSeq({entry(p) : p \in told}))

\* diff of one revision is not made: it ends like a revision that is not there.
Diff(r, q) ==
    LET a == Resolve(r, Rev(q, 1))
        b == Resolve(r, Rev(q, 2))
    IN  IF On(q, "bad") \/ Len(q.paths) > 2 THEN Says(2)
        ELSE IF q.paths = <<>> /\ ~On(q, "cached") THEN Tells(SetToSeq(Changed(r)))
        ELSE IF Len(q.paths) = 1 \/ a = 0 \/ b = 0 THEN Says(128)
        ELSE IF q.paths = <<>> THEN Tells(SetToSeq(Staged(r)))
        ELSE Tells(SetToSeq(Differing(TreeOf(r, a), TreeOf(r, b))))

\* show: the revision is the last operand; what it changed from its first parent.
Show(r, q) ==
    LET c == Resolve(r, IF q.paths = <<>> THEN "HEAD" ELSE q.paths[Len(q.paths)])
        old == IF r.dag[c].parents = <<>> THEN NoTree ELSE TreeOf(r, r.dag[c].parents[1])
    IN  IF On(q, "bad") THEN Says(2)
        ELSE IF c = 0 THEN Says(128)
        ELSE IF On(q, "no_patch") THEN Tells(<<>>)
        ELSE Tells(SetToSeq(Differing(old, TreeOf(r, c))))

LsFiles(r, q) ==
    LET cached == On(q, "cached") \/ ~On(q, "others")
    IN  IF On(q, "bad") THEN Says(2)
        ELSE Tells((IF cached THEN SetToSeq(Tracked(r)) ELSE <<>>)
                   \o (IF On(q, "others") THEN SetToSeq(Untracked(r)) ELSE <<>>))

\* ls-tree: the entries of the tree, or of the operands that are there; a directory is an
\* entry of its own with -d or -t, or unless -r goes into it.
LsTree(r, q) ==
    LET tree == TreeOf(r, Resolve(r, q.rev))
        in(d) == {p \in Inside[d] : tree[p] # Absent}
        dirs == {d \in Dirs : in(d) # {}}
        whole == On(q, "only_trees") \/ ~On(q, "recurse") \/ On(q, "show_trees")
        of(d) == (IF whole THEN {d} ELSE {})
                 \cup (IF On(q, "recurse") /\ ~On(q, "only_trees") THEN in(d) ELSE {})
        top == {p \in Paths : tree[p] # Absent /\ \A d \in Dirs : p \notin Inside[d]}
        files(ps) == IF On(q, "only_trees") THEN {} ELSE {p \in ps : tree[p] # Absent}
        wanted == ToSet(q.paths)
    IN  IF On(q, "bad") \/ q.rev = "" \/ (On(q, "name_only") /\ On(q, "object_only")) THEN Says(2)
        ELSE IF Resolve(r, q.rev) = 0 THEN Says(128)
        ELSE IF q.paths = <<>> THEN Tells(SetToSeq(files(top) \cup UNION {of(d) : d \in dirs}))
        ELSE Tells(SetToSeq(files(wanted \cap Paths) \cup UNION {of(d) : d \in wanted \cap dirs}))

CatFile(r, q) ==
    LET modes == q.opts \cap {"exists", "pretty", "type", "size", "typed"}
    IN  IF On(q, "bad") \/ Cardinality(modes) # 1 \/ q.rev = "" THEN Says(2)
        ELSE IF Resolve(r, q.rev) = 0 THEN Says(128)
        ELSE Tells(IF On(q, "exists") THEN <<>> ELSE <<Resolve(r, q.rev)>>)

-----------------------------------------------------------------------------
(* The configuration and the other side.                                   *)

ConfigAsk(r, q) ==
    LET values == r.config[q.paths[1]]
    IN  IF On(q, "list") THEN Tells(SetToSeq({k \in Keys : r.config[k] # <<>>}))
        ELSE IF values = <<>> THEN Says(1)
        ELSE Tells(IF On(q, "get_all") THEN values ELSE <<values[Len(values)]>>)
\* remote, remote -v, and remote get-url: a push URL that is not set is the URL.
RemoteList(r, q) == Tells(SetToSeq({m \in Remotes : Configured(r, m)}))
GetUrl(r, q) ==
    LET urls == Urls(r, q.to)
        push == r.config[RemoteKey[q.to, "pushurl"]]
        shown == IF On(q, "push") /\ push # <<>> THEN push ELSE urls
    IN  IF On(q, "bad") \/ q.to = "" THEN Says(2)
        ELSE IF ~Configured(r, q.to) THEN Says(1)
        ELSE Tells(IF On(q, "all") THEN shown ELSE <<shown[1]>>)
\* ls-remote connects without the credentials callback.
LsRemote(r, q) ==
    LET remote == IF q.to = "" THEN "origin" ELSE q.to
        heads == {b \in Branches : server.refs[b] # 0}
        tags == {t \in Tags : server.tags[t] # 0}
        all == IF On(q, "heads") = On(q, "tags") THEN heads \cup tags
               ELSE IF On(q, "heads") THEN heads ELSE tags
        found == {name \in all : Selected(q, name)}
    IN  IF On(q, "bad") THEN Says(2)
        ELSE IF ~Configured(r, remote) \/ Urls(r, remote)[1] # Hub \/ Denied(FALSE) THEN Says(1)
        ELSE IF On(q, "exit_code") /\ found = {} THEN Says(2)
        ELSE Tells(IF On(q, "quiet") THEN <<>> ELSE SetToSeq(found))
\* stash list and stash show.
StashAsk(r, q) ==
    IF On(q, "list") THEN Tells([i \in DOMAIN r.stash |-> r.stash[i].base])
    ELSE IF r.stash = <<>> THEN Says(1)
    ELSE Tells(SetToSeq(Differing(TreeOf(r, r.stash[1].base), r.stash[1].files)))

Answer(r, q) ==
    CASE q.name = "rev-parse" -> RevParse(r, q)
      [] q.name = "symbolic-ref" -> SymbolicRef(r, q)
      [] q.name = "show-ref" -> ShowRef(r, q)
      [] q.name = "branch" -> IF On(q, "show_current") THEN ShowCurrent(r, q) ELSE BranchList(r, q)
      [] q.name = "tag" -> TagList(r, q)
      [] q.name = "describe" -> Describe(r, q)
      [] q.name = "rev-list" -> RevList(r, q)
      [] q.name = "log" -> Log(r, q)
      [] q.name = "merge-base" -> MergeBaseOf(r, q)
      [] q.name = "cherry" -> Cherry(r, q)
      [] q.name = "blame" -> Blame(r, q)
      [] q.name = "status" -> Status(r, q)
      [] q.name = "diff" -> Diff(r, q)
      [] q.name = "show" -> Show(r, q)
      [] q.name = "ls-files" -> LsFiles(r, q)
      [] q.name = "ls-tree" -> LsTree(r, q)
      [] q.name = "cat-file" -> CatFile(r, q)
      [] q.name = "config" -> ConfigAsk(r, q)
      [] q.name = "remote" -> IF q.to = "" THEN RemoteList(r, q) ELSE GetUrl(r, q)
      [] q.name = "ls-remote" -> LsRemote(r, q)
      [] q.name = "stash" -> StashAsk(r, q)
      [] OTHER -> Says(2)

\* A request that only asks: branch and tag without an action, and the like.
Asks(q) ==
    \/ q.name \in {"rev-parse", "symbolic-ref", "show-ref", "describe", "rev-list", "log", "merge-base",
                   "cherry", "blame", "status", "diff", "show", "ls-files", "ls-tree", "cat-file", "ls-remote"}
    \/ q.name = "branch" /\ q.opts \cap {"create", "delete", "move", "copy", "upstream", "no_upstream"} = {}
    \/ q.name = "tag" /\ q.opts \cap {"create", "delete"} = {}
    \/ q.name = "config" /\ q.opts \cap {"get", "get_all", "list"} # {}
    \/ q.name = "remote" /\ q.opts \subseteq {"get_url", "push", "all", "verbose"}
    \/ q.name = "stash" /\ q.opts \cap {"list", "show"} # {}
    \/ q.name = "unknown"
Ask ==
    /\ cmd.pc = "start" /\ Asks(cmd.request)
    /\ ~(Command("branch") /\ BranchUsage) /\ ~(Command("tag") /\ TagUsage)
    /\ ~(Command("config") /\ ConfigUsage)
    /\ Stop(Answer(repo, cmd.request).rc) /\ UNCHANGED server /\ Rest

-----------------------------------------------------------------------------
(* The whole.                                                              *)

CONSTANT Sessions   \* [repo, server, requests, edits, commands, faults]
VARIABLE session

\* The parts of a repository and of a request.
RepoFields == {"dag", "refs", "head", "index", "files", "op", "stash", "tags", "annotated", "tracking",
               "upstream", "config", "rhead", "clone", "cloned"}
RequestFields == {"name", "opts", "rev", "to", "paths"}
Is(record, fields) == record = [field \in fields |-> record[field]]
\* The action of branch and of tag is one variable, which every option that names one sets.
Actions(name) == CASE name = "branch" -> {"create", "delete", "move", "copy", "upstream", "no_upstream", "show_current"}
                   [] name = "tag" -> {"create", "delete"}
                   [] OTHER -> {}
OneAction(q) == \A a, b \in q.opts \cap Actions(q.name) : a = b
ASSUME SessionsAssumption ==
    \A s \in Sessions :
        /\ Is(s.repo, RepoFields)
        /\ \A q \in s.requests : Is(q, RequestFields) /\ q.paths \in Seq(STRING) /\ OneAction(q)

\* A commit has its parents before it, and every name that is kept, here and at the other
\* repository, is one of a commit, of a branch, of a remote.
Ids(r) == 0 .. Len(r.dag)
Graph(dag) == dag \in Seq(ToSet(dag)) /\ \A i \in DOMAIN dag : dag[i].parents \in Seq(0 .. i - 1)
RefsOK(r) ==
    /\ r.refs \in [Branches -> Ids(r)]
    /\ r.tags \in [Tags -> Ids(r)] /\ r.annotated \subseteq Tags
    /\ r.tracking \in [Remotes -> [Branches -> Ids(r)]]
    /\ Is(r.upstream, Branches)
    /\ \A b \in Branches : r.upstream[b][1] \in Remotes => r.upstream[b][2] \in Branches
HeadOK(r) ==
    /\ Is(r.head, {"branch", "at"})
    /\ r.head.branch \in Branches \cup {""} /\ r.head.at \in Ids(r)
StateOK(r) ==
    /\ r.stash \in Seq(ToSet(r.stash)) /\ \A i \in DOMAIN r.stash : r.stash[i].base \in Ids(r)
    /\ Is(r.op, {"kind", "commit", "todo", "branch", "orig"})
    /\ r.op.branch \in Branches \cup {""} /\ r.op.orig \in Ids(r)
Grounded(r) == Graph(r.dag) /\ RefsOK(r) /\ HeadOK(r) /\ StateOK(r)
Serves(s, r) ==
    /\ Is(s, {"refs", "tags", "auth", "head"})
    /\ s.refs \in [Branches -> Ids(r)] /\ s.tags \in [Tags -> Ids(r)]
\* What an operand names is one of the branches, tags or remotes there may be.
Named(q) ==
    /\ q.name \in {"checkout", "switch", "stash", "init"} => q.to \in Branches \cup {""}
    /\ q.name \in {"pull", "remote"} => q.to \in Remotes \cup {""}
    /\ q.name \in {"pull", "push"} \/ (q.name = "branch" /\ q.opts \cap {"move", "copy"} # {}) =>
           q.paths \in Seq(Branches)
    /\ q.name = "tag" /\ "create" \in q.opts /\ q.paths # <<>> => q.paths[1] \in Tags
ASSUME NamesAssumption ==
    /\ IsFiniteSet(Branches) /\ IsFiniteSet(Tags) /\ "origin" \in Remotes /\ "" \notin Remotes
    /\ \A s \in Sessions :
           /\ Grounded(s.repo) /\ Serves(s.server, s.repo)
           /\ \A q \in s.requests : Named(q)

vars == <<repo, cmd, before, budget, server, session>>

Init ==
    /\ session \in Sessions
    /\ repo = session.repo /\ before = session.repo /\ server = session.server
    /\ cmd = Idle
    /\ budget = [commands |-> session.commands, faults |-> session.faults]

Local ==
    \/ \E request \in session.requests : Begin(request)
    \/ \E edit \in session.edits : Edit(edit[1], edit[2])
    \/ End \/ Fail \/ Kill \/ WorkNext \/ SequenceNext
Next ==
    /\ \/ Local /\ UNCHANGED server
       \/ RefsNext \/ RemoteNext \/ Ask
       \/ \E b \in Branches : ServerCommit(b, TreeOf(repo, server.refs[b]))
    /\ UNCHANGED session
Spec == Init /\ [][Next]_vars

-----------------------------------------------------------------------------
Ended == cmd.pc = "exit"
Succeeded == Ended /\ cmd.rc = 0
IsOne(names) == cmd.request.name \in names
Reaches(r, c, d) == d \in History(r.dag, c)

\* A command that is not asked to throw history away keeps it, however it ends: what a branch
\* reached before it reaches afterwards.  Asked to are reset, rebase, commit --amend, a forced
\* creation of a branch, branch -d, -m and -f, and stash branch of a new name.
HistoryKept ==
    Ended /\ ~IsOne({"reset", "rebase", "branch"}) /\ ~Has("amend") /\ ~Has("force_create") =>
        \A b \in Branches : before.refs[b] # 0 => Reaches(repo, repo.refs[b], before.refs[b])

\* What was only in a file is still somewhere when a command that does not name the file and
\* is not forced has ended: in the file, in the index, or in the stash.  Two exceptions: merge,
\* cherry-pick, revert and rebase end with a reset that overwrites a file nobody tracks, and
\* with --continue whatever was not staged.
Resets == IsOne({"merge", "cherry-pick", "revert", "rebase"})
Only(r, p) ==
    /\ r.files[p] \notin {Absent, Markers, r.index[p], HeadTree(r)[p]}
    /\ Resets => r.index[p] # Absent
KeptAt(p) ==
    \/ repo.files[p] = before.files[p] \/ repo.index[p] = before.files[p]
    \/ \E i \in DOMAIN repo.stash : repo.stash[i].files[p] = before.files[p]
    \/ HeadTree(repo)[p] = before.files[p]
Gentle ==
    /\ IsOne({"merge", "cherry-pick", "revert", "rebase", "pull", "checkout", "switch", "stash", "commit",
              "branch", "tag", "fetch", "push", "remote", "config"})
    /\ cmd.request.opts \cap {"abort", "continue", "force", "clear", "drop", "paths"} = {}
UncommittedKept == Ended /\ Gentle => \A p \in Paths : Only(before, p) => KeptAt(p)

\* A rebase that ends well gives each path what a merge would have given it, wherever the
\* merge would not have been a conflict.
RebaseKeepsChanges ==
    Succeeded /\ IsOne({"rebase"}) /\ cmd.request.rev # "" =>
        LET ours == HeadCommit(before)
            theirs == Resolve([before EXCEPT !.tracking = repo.tracking], cmd.request.rev)
            base == TreeOf(repo, MergeBase(repo.dag, ours, theirs))
            merged == Merged(base, TreeOf(repo, ours), TreeOf(repo, theirs))
        IN  \A p \in Paths : merged[p] # Conflicted => HeadTree(repo)[p] = merged[p]

\* A command that refuses (2 for its usage, 128 for a name) has changed nothing, but for four:
\* rm has removed the files before the operand that is not there; commit -a has staged when it
\* finds out about -C and --author; remote add -t and set-branches have written the names before
\* the one with a colon; pull --rebase has fetched when the branch it fetched is not there.
Apart(r) == [r EXCEPT !.dag = <<>>]
Excused ==
    IF IsOne({"rm"}) THEN [before EXCEPT !.files = repo.files]
    ELSE IF IsOne({"commit"}) /\ Has("all") THEN [before EXCEPT !.index = repo.index]
    ELSE IF IsOne({"remote"}) /\ Count > 0 THEN [before EXCEPT !.config = repo.config]
    ELSE IF IsOne({"rebase"}) THEN [before EXCEPT !.tags = repo.tags, !.tracking = repo.tracking]
    ELSE before
RefusalChangesNothing == Ended /\ cmd.rc \in {2, 128} => Apart(repo) = Apart(Excused)

\* The server loses no commit to a push that is not forced, whoever else pushes in between.
ServerKeepsHistory ==
    [][~Has("force") /\ ~Has("delete") =>
        \A b \in Branches : server.refs[b] # 0 =>
            Reaches(repo', server'.refs[b], server.refs[b])]_vars

\* A value of a key goes away only when the command names the key and an expression that
\* matches it, when no step of the command failed, and when it is not empty.
Expression == IF Has("replace_all") THEN Operand(3) ELSE IF Has("old") THEN Operand(1)
              ELSE IF Command("remote") THEN cmd.request.rev ELSE Operand(2)
Edits ==
    \/ IsOne({"config"}) /\ ~Has("set")
    \/ IsOne({"remote"}) /\ Has("set_url") /\ cmd.request.opts \cap {"insert", "delete", "old"} # {}
ConfigKept ==
    Succeeded /\ Edits /\ Expression # "" =>
        \A k \in Keys : \A i \in DOMAIN before.config[k] :
            LET v == before.config[k][i]
            IN  v # "" /\ v \notin Matches[Expression] => v \in ToSet(repo.config[k])

\* The questions agree with one another: about two branches, merge-base --is-ancestor (of
\* different commits), merge-base, branch --merged, branch --contains, log a..b and cherry;
\* and about the files, status, the two diffs, ls-files and the test before a merge.
Question(name, opts, revs, rev) ==
    Answer(repo, [NoRequest EXCEPT !.name = name, !.opts = opts, !.paths = revs, !.rev = rev])
Ahead(a, b) == Answer(repo, [NoRequest EXCEPT !.name = "log", !.paths = <<b>>, !.to = a]).out
AgreeOn(a, b) ==
    LET same == repo.refs[a] = repo.refs[b]
        merged == a \in ToSet(Question("branch", {"merged"}, <<>>, b).out)
        cherry == Question("cherry", {}, <<b, a>>, "").out
    IN  /\ (same \/ Question("merge-base", {"is_ancestor"}, <<a, b>>, "").rc = 0) = merged
        /\ merged = (b \in ToSet(Question("branch", {"contains"}, <<>>, a).out))
        /\ merged = (Question("merge-base", {}, <<a, b>>, "").out = <<repo.refs[a]>>)
        /\ merged = (Ahead(b, a) = <<>>)
        /\ [i \in DOMAIN cherry |-> cherry[i][2]] = Reverse(Ahead(b, a))
FilesAgree ==
    LET status == Question("status", {"no_untracked"}, <<>>, "").out
        unstaged == Question("diff", {}, <<>>, "").out
        staged == Question("diff", {"cached"}, <<>>, "").out
    IN  /\ {status[i][3] : i \in DOMAIN status} = ToSet(unstaged) \cup ToSet(staged)
        /\ (status = <<>>) = ~Dirty
        /\ ToSet(Question("ls-files", {"others"}, <<>>, "").out)
           \cap ToSet(Question("ls-files", {"cached"}, <<>>, "").out) = {}
QuestionsAgree ==
    cmd.pc = "idle" /\ HeadCommit(repo) # 0 =>
        /\ FilesAgree
        /\ \A a, b \in {b \in Branches : repo.refs[b] # 0} : AgreeOn(a, b)
=============================================================================
