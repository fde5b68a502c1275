------------------------------ MODULE GitRemote ------------------------------
(***************************************************************************)
(* The commands of the git applet that keep the configuration: config,     *)
(* remote, and clone with its submodules.  A key has any number of values. *)
(* libgit2 can add one value, replace or delete the values that match an   *)
(* expression; the applet composes those calls, so that a failure or an    *)
(* interruption between two of them is in the configuration file.          *)
(***************************************************************************)
EXTENDS GitRefs

CONSTANTS
    Keys,       \* the keys of the configuration: pairs of a section and a name
    Matches,    \* which values each expression matches
    Modules,    \* the submodules of what is cloned, and theirs
    Above       \* the submodules each one is in

Values(key) == repo.config[key]
Set(key, values) == repo' = [repo EXCEPT !.config[key] = values]
Matching(expression, values) == SelectSeq(values, LAMBDA v : v \in Matches[expression])
\* Slip: the values to keep are collected up to the first that goes.
OthersBefore(expression, values) ==
    LET gone == {i \in DOMAIN values : values[i] \in Matches[expression]}
    IN  SubSeq(values, 1, IF gone = {} THEN Len(values) ELSE Min(gone) - 1)
Others(expression, values) == SelectSeq(values, LAMBDA v : v \notin Matches[expression])

\* Appending is git_config_set_multivar with the expression $^, which matches the empty
\* value: such a value is replaced.
Appended(values, value) ==
    IF "" \in ToSet(values) THEN [i \in DOMAIN values |-> IF values[i] = "" THEN value ELSE values[i]]
    ELSE Append(values, value)

-----------------------------------------------------------------------------
(* config                                                                  *)

\* One action at a time, and the number of operands each of them takes.
ConfigActions == {"get", "get_all", "list", "set", "add", "replace_all", "unset", "unset_all"}
OperandCounts(action) ==
    CASE action \in {"get", "get_all"} -> {1}
      [] action = "list" -> {0}
      [] action \in {"set", "add"} -> {2}
      [] action = "replace_all" -> {2, 3}
      [] OTHER -> {1, 2}
ConfigUsage ==
    LET actions == cmd.request.opts \cap ConfigActions
    IN  Has("bad") \/ Cardinality(actions) # 1 \/ \E action \in actions : Count \notin OperandCounts(action)
Key == Operand(1)

ConfigStart ==
    /\ At("config", "start") /\ (ConfigUsage \/ ~(Has("get") \/ Has("get_all") \/ Has("list")))
    /\ LET values == Values(Key)
           pattern == IF Has("replace_all") THEN Operand(3) ELSE Operand(2)
           expression == IF pattern = "" THEN ".*" ELSE pattern
           matching == Matching(expression, values)
       IN  IF ConfigUsage THEN Stop(2)
           ELSE IF Has("set")
                THEN IF Len(values) > 1 THEN Stop(5) ELSE Set(Key, <<Operand(2)>>) /\ Exit(0)
           ELSE IF Has("add") THEN Set(Key, Appended(values, Operand(2))) /\ Exit(0)
           ELSE IF Has("replace_all")
                THEN /\ Set(Key, IF matching = <<>> THEN Append(values, Operand(2))
                                 ELSE [i \in DOMAIN values |-> IF values[i] \in Matches[expression]
                                                               THEN Operand(2) ELSE values[i]])
                     /\ Exit(0)
           ELSE IF matching = <<>> \/ (Has("unset") /\ Len(matching) > 1) THEN Stop(5)
           ELSE IF Has("unset_all") /\ pattern = "" THEN Set(Key, <<>>) /\ Exit(0)
           ELSE /\ cmd' = [cmd EXCEPT !.pc = "delete", !.specs = Others(expression, values)]
                /\ UNCHANGED repo
    /\ UNCHANGED server /\ Rest

Remote == cmd.request.to
UrlKey == RemoteKey[Remote, IF Has("push") THEN "pushurl" ELSE "url"]
\* What smallclueGitConfigDeleteMatchingValue does once it knows the values to keep: all of
\* them are deleted, and those to keep are appended one by one.
DeleteKey == IF Command("config") THEN Key ELSE UrlKey
ConfigDelete ==
    /\ cmd.pc = "delete"
    /\ Set(DeleteKey, <<>>) /\ Goto("append") /\ UNCHANGED server /\ Rest
ConfigAppend ==
    /\ cmd.pc = "append"
    /\ IF cmd.specs = <<>> THEN Stop(0)
       ELSE /\ Set(DeleteKey, Appended(Values(DeleteKey), cmd.specs[1]))
            /\ cmd' = [cmd EXCEPT !.specs = Tail(@)]
    /\ UNCHANGED server /\ Rest

-----------------------------------------------------------------------------
(* remote: to names it, rev is a URL, a new name or a branch, paths are    *)
(* the branches.                                                           *)

RemoteIs(option) == At("remote", "start") /\ Has(option)
FetchKey == RemoteKey[Remote, "fetch"]

RemoteUsage ==
    \/ Has("bad")
    \/ Has("add") /\ (Remote = "" \/ cmd.request.rev = "")
    \/ Has("remove") /\ Remote = ""
    \/ Has("rename") /\ (Remote = "" \/ cmd.request.rev = "")
    \/ Has("set_url") /\ (cmd.request.rev = "" \/ Cardinality({"insert", "delete", "old"} \cap cmd.request.opts) > 1)
    \/ Has("set_branches") /\ (Remote = "" \/ Count = 0)
    \/ Has("prune") /\ ~Has("update") /\ Remote = ""
    \/ Has("set_head") /\ (Cardinality({"auto", "delete"} \cap cmd.request.opts)
                           + (IF cmd.request.rev # "" THEN 1 ELSE 0) # 1)
RemoteWrong == At("remote", "start") /\ RemoteUsage /\ Stop(2) /\ UNCHANGED server /\ Rest

\* add: git_remote_create, with the branches of everything to fetch.
Mirror == Has("mirror_fetch") \/ Has("mirror_push")
RemoteAdd ==
    /\ RemoteIs("add") /\ ~RemoteUsage
    /\ IF (Count > 0 /\ Has("mirror_push") /\ ~Has("mirror_fetch")) \/ (Has("master") /\ Mirror) THEN Stop(128)
       ELSE IF Configured(repo, Remote) THEN Stop(1)
       ELSE /\ repo' = [repo EXCEPT !.config = [repo.config EXCEPT
                          ![RemoteKey[Remote, "url"]] = <<cmd.request.rev>>, ![FetchKey] = <<"*">>]]
            /\ Goto(IF Mirror \/ Count > 0 THEN "refspecs" ELSE "options")
    /\ UNCHANGED server /\ Rest
\* Other branches to fetch: none at first, then one after the other; a name with a colon is
\* found only when it is its turn.
RemoteRefspecs ==
    /\ At("remote", "refspecs")
    /\ Set(FetchKey, IF Has("add") \/ ~Has("insert") THEN <<>> ELSE Values(FetchKey))
    /\ cmd' = [cmd EXCEPT !.pc = "tracks",
                 !.specs = IF Has("mirror_push") /\ ~Has("mirror_fetch") THEN <<>>
                           ELSE IF Count = 0 THEN <<"*">> ELSE cmd.request.paths]
    /\ UNCHANGED server /\ Rest
RemoteTrack ==
    /\ At("remote", "tracks")
    /\ IF cmd.specs = <<>> THEN (IF Has("add") THEN Goto("options") ELSE Exit(0)) /\ UNCHANGED repo
       ELSE IF cmd.specs[1] \notin Branches \cup {"*"} THEN Stop(2)
       ELSE /\ Set(FetchKey, Append(Values(FetchKey), cmd.specs[1]))
            /\ cmd' = [cmd EXCEPT !.specs = Tail(@)]
    /\ UNCHANGED server /\ Rest
RemoteOptions ==
    /\ At("remote", "options")
    /\ LET option == IF Has("tags") THEN <<"--tags">> ELSE IF Has("no_tags") THEN <<"--no-tags">> ELSE <<>>
       IN  repo' = [repo EXCEPT !.config = [repo.config EXCEPT
              ![RemoteKey[Remote, "mirror"]] = IF Has("mirror_push") THEN <<"true">> ELSE repo.config[RemoteKey[Remote, "mirror"]],
              ![RemoteKey[Remote, "tagOpt"]] = IF option # <<>> THEN option ELSE repo.config[RemoteKey[Remote, "tagOpt"]]]]
    /\ Goto("master") /\ UNCHANGED server /\ Rest
RemoteMaster ==
    /\ At("remote", "master")
    /\ repo' = IF Has("master") THEN [repo EXCEPT !.rhead[Remote] = Operand(1)] ELSE repo
    /\ IF Has("fetch") THEN cmd' = [cmd EXCEPT !.pc = "fetch", !.specs = <<Remote>>, !.request.paths = <<>>]
       ELSE Exit(0)
    /\ UNCHANGED server /\ Rest

\* Everything of a remote, in the record of the repository.
Fields == {"url", "pushurl", "fetch", "mirror", "tagOpt"}
NoBranches == [b \in Branches |-> 0]
RemoteRemove ==
    /\ RemoteIs("remove") /\ ~RemoteUsage
    /\ IF ~Configured(repo, Remote) THEN Stop(1)
       ELSE /\ repo' = [repo EXCEPT
                 !.config = [k \in Keys |-> IF \E f \in Fields : k = RemoteKey[Remote, f] THEN <<>> ELSE @[k]],
                 !.tracking[Remote] = NoBranches, !.rhead[Remote] = "",
                 !.upstream = [b \in Branches |-> IF @[b][1] = Remote THEN NoUpstream ELSE @[b]]]
            /\ Exit(0)
    /\ UNCHANGED server /\ Rest
RemoteRename ==
    /\ RemoteIs("rename") /\ ~RemoteUsage
    /\ LET new == cmd.request.rev
           field(k) == {f \in Fields : k = RemoteKey[new, f]}
       IN  IF ~Configured(repo, Remote) \/ Configured(repo, new) THEN Stop(1)
           ELSE /\ repo' = [repo EXCEPT
                     !.config = [k \in Keys |->
                         IF \E f \in Fields : k = RemoteKey[Remote, f] THEN <<>>
                         ELSE IF field(k) # {} THEN @[RemoteKey[Remote, CHOOSE f \in field(k) : TRUE]] ELSE @[k]],
                     !.tracking = [repo.tracking EXCEPT ![new] = repo.tracking[Remote], ![Remote] = NoBranches],
                     !.rhead = [repo.rhead EXCEPT ![new] = repo.rhead[Remote], ![Remote] = ""],
                     !.upstream = [b \in Branches |-> IF @[b][1] = Remote THEN <<new, @[b][2]>> ELSE @[b]]]
                /\ Exit(0)
    /\ UNCHANGED server /\ Rest

\* set-url: the one URL, one more URL, or the matching ones deleted (and replaced: "old").
RemoteSetUrl ==
    /\ RemoteIs("set_url") /\ ~RemoteUsage
    /\ LET values == Values(UrlKey)
           url == cmd.request.rev
           removed == IF Has("old") THEN Operand(1) ELSE url
       IN  IF ~Configured(repo, Remote) THEN Stop(1)
           ELSE IF Has("insert") THEN Set(UrlKey, Appended(values, url)) /\ Exit(0)
           ELSE IF Has("delete") \/ Has("old")
                THEN IF Matching(removed, values) = <<>> THEN Stop(2)
                     ELSE /\ cmd' = [cmd EXCEPT !.pc = "delete",
                                !.specs = Others(removed, values) \o (IF Has("old") THEN <<url>> ELSE <<>>)]
                          /\ UNCHANGED repo
           ELSE IF Len(values) > 1 THEN Stop(1)
           ELSE Set(UrlKey, <<url>>) /\ Exit(0)
    /\ UNCHANGED server /\ Rest
RemoteSetBranches ==
    /\ RemoteIs("set_branches") /\ ~RemoteUsage
    /\ IF ~Configured(repo, Remote) THEN Stop(1) ELSE Goto("refspecs") /\ UNCHANGED repo
    /\ UNCHANGED server /\ Rest
\* prune and update are fetches.
RemoteFetch ==
    /\ (RemoteIs("prune") /\ ~Has("dry_run")) \/ RemoteIs("update")
    /\ ~RemoteUsage
    /\ LET names == IF Remote # "" THEN <<Remote>>
                    ELSE SelectSeq(RemoteOrder, LAMBDA m : Configured(repo, m))
       IN  IF Remote # "" /\ ~Configured(repo, Remote) THEN Stop(1)
           ELSE cmd' = [cmd EXCEPT !.pc = "fetch", !.specs = names] /\ UNCHANGED repo
    /\ UNCHANGED server /\ Rest
\* prune --dry-run, show and set-head --auto connect without the credentials callback.
RemoteAsk ==
    /\ (RemoteIs("prune") /\ Has("dry_run")) \/ (RemoteIs("show") /\ ~Has("no_query"))
    /\ ~RemoteUsage
    /\ IF Remote = "" THEN Stop(0)
       ELSE IF ~Configured(repo, Remote) \/ ~Reached(Remote, FALSE) THEN Stop(1)
       ELSE Stop(0)
    /\ UNCHANGED server /\ Rest
\* set-head: the branch given or the server's must be one that was fetched.
RemoteSetHead ==
    /\ RemoteIs("set_head") /\ ~RemoteUsage
    /\ LET branch == IF Has("auto") THEN server.head ELSE cmd.request.rev
       IN  IF ~Configured(repo, Remote) \/ (Has("auto") /\ ~Reached(Remote, FALSE)) THEN Stop(1)
           ELSE IF Has("delete") THEN repo' = [repo EXCEPT !.rhead[Remote] = ""] /\ Exit(0)
           ELSE IF repo.tracking[Remote][branch] = 0 THEN Stop(1)
           ELSE repo' = [repo EXCEPT !.rhead[Remote] = branch] /\ Exit(0)
    /\ UNCHANGED server /\ Rest
-----------------------------------------------------------------------------
(* clone and submodule: each submodule is updated and then its own ones.   *)

\* A submodule is chosen when a pathspec names it, something above it or something below it.
Chosen(m) ==
    LET specs == ToSet(cmd.request.paths)
    IN  specs = {} \/ \E s \in specs : s = m \/ s \in Above[m] \/ m \in Above[s]
Children(m) == SetToSeq({k \in Modules : Above[k] = Above[m] \cup {m}})
Outermost == SetToSeq({m \in Modules : Above[m] = {}})

\* init: git_repository_init leaves an existing repository as it is; -b then opens HEAD for
\* writing, which empties it, and nobody asks what became of the writing.
InitStart ==
    /\ At("init", "start")
    /\ IF Has("bad") THEN Stop(2)
       ELSE IF cmd.request.to = "" THEN Stop(0)
       ELSE repo' = [repo EXCEPT !.head = [branch |-> "", at |-> 0]] /\ Goto("init_head")
    /\ UNCHANGED server /\ Rest
InitHead ==
    /\ At("init", "init_head")
    /\ repo' = [repo EXCEPT !.head = [branch |-> cmd.request.to, at |-> 0]]
    /\ Exit(0) /\ UNCHANGED server /\ Rest
\* The names of the directory and of the branch do not matter here; git_clone leaves nothing
\* behind when it fails.
CloneStart ==
    /\ At("clone", "start")
    /\ IF Has("bad") \/ cmd.request.rev = "" \/ (Has("bare") /\ Has("recurse")) THEN Stop(2)
       ELSE IF cmd.request.rev # Hub THEN Stop(1)
       ELSE IF Denied(TRUE) THEN cmd' = [cmd EXCEPT !.pc = "exit", !.rc = 1, !.denied = TRUE] /\ UNCHANGED repo
       ELSE /\ repo' = [repo EXCEPT !.clone = {}, !.cloned = TRUE]
            /\ IF Has("recurse") THEN cmd' = [cmd EXCEPT !.pc = "modules", !.specs = Outermost] ELSE Exit(0)
    /\ UNCHANGED server /\ Rest
SubmoduleStart ==
    /\ At("submodule", "start")
    /\ IF Has("sync") \/ Has("foreach") \/ Has("deinit") \/ Has("bad") THEN Stop(2)
       ELSE IF Has("status") THEN Stop(0)
       ELSE cmd' = [cmd EXCEPT !.pc = "modules", !.specs = IF repo.cloned THEN Outermost ELSE <<>>]
            /\ UNCHANGED repo
    /\ UNCHANGED server /\ Rest
\* git_submodule_update clones or fetches: its options carry no callbacks.
ModuleUpdate ==
    /\ cmd.pc = "modules"
    /\ IF cmd.specs = <<>> THEN Stop(0)
       ELSE LET m == cmd.specs[1]
            IN  IF ~Chosen(m) THEN cmd' = [cmd EXCEPT !.specs = Tail(@)] /\ UNCHANGED repo
                ELSE IF Denied(FALSE)
                THEN cmd' = [cmd EXCEPT !.pc = "exit", !.rc = 1, !.denied = TRUE] /\ UNCHANGED repo
                ELSE /\ repo' = [repo EXCEPT !.clone = @ \cup {m}]
                     /\ cmd' = [cmd EXCEPT !.specs = Children(m) \o Tail(@)]
    /\ UNCHANGED server /\ Rest

RemoteNext ==
    \/ ConfigStart \/ ConfigDelete \/ ConfigAppend
    \/ RemoteWrong \/ RemoteAdd \/ RemoteRefspecs \/ RemoteTrack \/ RemoteOptions \/ RemoteMaster
    \/ RemoteRemove \/ RemoteRename \/ RemoteSetUrl \/ RemoteSetBranches \/ RemoteFetch \/ RemoteAsk
    \/ RemoteSetHead \/ InitStart \/ InitHead \/ CloneStart \/ SubmoduleStart \/ ModuleUpdate
=============================================================================
