------------------------------- MODULE MCGit -------------------------------
EXTENDS Git

MCPaths == {"f", "g"}
MCDirs == {"d"}
MCInside == [d \in MCDirs |-> {"g"}]
MCBranches == {"main", "topic"}
MCTags == {"v1", "v2"}
MCRemotes == {"origin", "other"}
MCTrackingName == [k \in MCRemotes \X MCBranches |->
    CASE k = <<"origin", "main">> -> "origin/main" [] k = <<"origin", "topic">> -> "origin/topic"
      [] k = <<"other", "main">> -> "other/main" [] OTHER -> "other/topic"]
MCBlobs == 1 .. 3
MCFields == {"url", "pushurl", "fetch", "mirror", "tagOpt"}
MCRemoteKey == [k \in MCRemotes \X MCFields |-> k[1] \o "." \o k[2]]
MCKeys == {MCRemoteKey[k] : k \in MCRemotes \X MCFields} \cup {"key"}
MCMatches == [e \in {".*", "a", "b", "hub", "old"} |-> IF e = ".*" THEN {"a", "b", "hub", "old", ""} ELSE {e}]
MCModules == {"k", "m", "m/n"}
MCAbove == [m \in MCModules |-> IF m = "m/n" THEN {"m"} ELSE {}]

-----------------------------------------------------------------------------
Tree(f, g) == [p \in MCPaths |-> IF p = "f" THEN f ELSE g]
Commit(parents, tree) == [parents |-> parents, tree |-> tree]
NoTracking == [m \in MCRemotes |-> [b \in MCBranches |-> 0]]
World(dag, main, topic, files) ==
    [dag |-> dag, refs |-> [b \in MCBranches |-> IF b = "main" THEN main ELSE topic],
     head |-> [branch |-> "main", at |-> 0],
     index |-> IF main = 0 THEN Tree(0, 0) ELSE dag[main].tree, files |-> files,
     op |-> [kind |-> "none", commit |-> 0, todo |-> <<>>, branch |-> "", orig |-> 0],
     stash |-> <<>>, tags |-> [t \in MCTags |-> 0], annotated |-> {}, tracking |-> NoTracking,
     upstream |-> [b \in MCBranches |-> <<"", "">>],
     config |-> [k \in MCKeys |-> IF k = "origin.url" THEN <<"hub">>
                                  ELSE IF k = "origin.fetch" THEN <<"*">> ELSE <<>>],
     rhead |-> [m \in MCRemotes |-> ""], clone |-> {}, cloned |-> FALSE]
NoServer == [refs |-> [b \in MCBranches |-> 0], tags |-> [t \in MCTags |-> 0], auth |-> FALSE, head |-> "main"]
Q(name, opts, rev, to, paths) == [name |-> name, opts |-> opts, rev |-> rev, to |-> to, paths |-> paths]
Session(world, srv, requests, edits, commands, faults) ==
    [repo |-> world, server |-> srv, requests |-> requests, edits |-> edits,
     commands |-> commands, faults |-> faults]

\* Histories: one commit, a line, a fork whose sides differ in one or in two paths.
One == <<Commit(<<>>, Tree(1, 0))>>
Line == One \o <<Commit(<<1>>, Tree(1, 2))>>
Fork == One \o <<Commit(<<1>>, Tree(2, 0)), Commit(<<1>>, Tree(1, 2))>>
Clash == One \o <<Commit(<<1>>, Tree(2, 0)), Commit(<<1>>, Tree(3, 2))>>
Long == One \o <<Commit(<<1>>, Tree(2, 0)), Commit(<<1>>, Tree(1, 2)), Commit(<<3>>, Tree(1, 3))>>

Names(name, opts, tails) == {Q(name, opts, "", "", t) : t \in tails}
F == {<<"f">>}
WorkRequests ==
    Names("add", {}, {<<>>, <<"f">>, <<"d">>, <<"g", "f">>}) \cup {Q("add", {"all"}, "", "", <<>>)}
    \cup Names("rm", {}, {<<>>, <<"f">>, <<"d">>}) \cup Names("rm", {"cached"}, F)
    \cup Names("rm", {"recursive"}, {<<"d">>, <<"f", "d">>})
    \cup Names("mv", {}, {<<"f", "g">>, <<"f">>}) \cup Names("mv", {"force"}, {<<"f", "g">>})
    \cup {Q("clean", o, "", "", <<>>) : o \in {{}, {"force"}, {"force", "dirs"}, {"dry"}, {"bad"}}}
    \cup {Q("commit", o, "", "", <<>>) :
            o \in {{}, {"message"}, {"message", "all"}, {"message", "amend"}, {"message", "allow_empty"},
                   {"message", "all", "author_bad"}}}
    \cup {Q("commit", {"reuse", "all"}, rev, "", <<>>) : rev \in {"topic", "HEAD"}}
ResetRequests ==
    {Q("reset", o, rev, "", <<>>) : o \in {{}, {"soft"}, {"hard"}}, rev \in {"", "HEAD^"}}
    \cup {Q("reset", o, "", "", <<"f">>) : o \in {{}, {"hard"}}}
    \cup {Q("restore", o, rev, "", p) : o \in {{}, {"staged"}, {"staged", "worktree"}},
              rev \in {"", "HEAD^"}, p \in {<<"f">>, <<>>}}
    \cup {Q("add", {"all"}, "", "", <<>>), Q("commit", {"message"}, "", "", <<>>)}
SwitchRequests ==
    {Q("checkout", o, rev, "", <<>>) : o \in {{}, {"force"}, {"detach"}}, rev \in {"", "main", "topic", "HEAD^"}}
    \cup {Q("checkout", {"paths"}, rev, "", p) : rev \in {"", "topic", "v1"}, p \in {<<"f">>, <<>>}}
    \cup {Q("checkout", {"create"}, "", "topic", <<>>), Q("checkout", {"create", "force_create"}, "", "topic", <<>>)}
    \cup {Q("switch", o, rev, "", <<>>) : o \in {{}, {"detach"}}, rev \in {"topic", "v1"}}
    \cup {Q("commit", {"message", "all"}, "", "", <<>>), Q("init", {}, "", "topic", <<>>), Q("init", {}, "", "", <<>>)}
MergeRequests ==
    {Q("merge", o, "topic", "", <<>>) : o \in {{}, {"no_ff"}, {"ff_only"}, {"bad"}}}
    \cup {Q("merge", {"abort"}, "", "", <<>>), Q("merge", {}, "v1", "", <<>>), Q("add", {"all"}, "", "", <<>>),
          Q("commit", {"message"}, "", "", <<>>), Q("checkout", {"detach"}, "", "", <<>>)}
PickRequests ==
    {Q(name, o, "topic", "", <<>>) : name \in {"cherry-pick", "revert"}, o \in {{}, {"no_commit"}, {"mainline"}}}
    \cup {Q(name, o, "", "", <<>>) : name \in {"cherry-pick", "revert"}, o \in {{"abort"}, {"continue"}, {}}}
    \cup {Q("revert", {}, "HEAD", "", <<>>), Q("add", {"all"}, "", "", <<>>), Q("merge", {"no_ff"}, "topic", "", <<>>)}
RebaseRequests ==
    {Q("rebase", {}, rev, "", <<>>) : rev \in {"topic", "main", "v1", ""}}
    \cup {Q("rebase", o, "", "", <<>>) : o \in {{"abort"}, {"continue"}}}
    \cup {Q("add", {"all"}, "", "", <<>>), Q("checkout", {}, "topic", "", <<>>)}
StashRequests ==
    {Q("stash", o, "", "", <<>>) : o \in {{"save"}, {"save", "untracked"}, {"save", "keep_index"}, {"pop"},
                                          {"pop", "index"}, {}, {"drop"}, {"clear"}, {"branch"}}}
    \cup {Q("stash", {"branch"}, "", to, <<>>) : to \in {"main", "topic"}}
    \cup {Q("add", {"all"}, "", "", <<>>), Q("commit", {"message", "all"}, "", "", <<>>)}
RefRequests ==
    {Q("branch", o, "", "", p) : o \in {{"create"}, {"create", "force"}}, p \in {<<"topic">>, <<"topic", "HEAD^">>, <<"main">>}}
    \cup {Q("branch", o, "", "", p) : o \in {{"delete"}, {"delete", "force"}}, p \in {<<"topic">>, <<"topic", "main">>}}
    \cup {Q("branch", o, "", "", p) : o \in {{"move"}, {"move", "force"}, {"copy"}, {"copy", "force"}},
                                      p \in {<<"topic">>, <<"main", "topic">>, <<"topic", "main">>}}
    \cup {Q("branch", {"upstream"}, rev, "", p) : rev \in {"origin/main", "topic"}, p \in {<<>>, <<"topic">>}}
    \cup {Q("branch", {"no_upstream"}, "", "", <<>>), Q("branch", {"merged", "no_merged"}, "", "", <<>>)}
    \cup {Q("tag", o, "", "", p) : o \in {{"create"}, {"create", "force"}, {"create", "annotate", "message"}, {"delete"}},
                                   p \in {<<"v1">>, <<"v2", "v1">>}}
    \cup {Q("tag", {"create", "annotate"}, "", "", <<"v1">>)}
ExchangeRequests ==
    {Q("fetch", o, "", to, p) : o \in {{}, {"prune"}, {"all"}}, to \in {"", "other"}, p \in {<<>>}}
    \cup {Q("fetch", {"tags"}, "", "", <<"topic">>)}
    \cup {Q("pull", o, "", "", <<>>) : o \in {{}, {"ff_only"}, {"no_ff"}, {"rebase"}, {"rebase", "no_ff"}}}
    \cup {Q("push", o, "", "", p) : o \in {{}, {"set_upstream"}, {"force"}}, p \in {<<>>, <<"main">>}}
    \cup {Q("push", o, "", "", <<>>) : o \in {{"all"}, {"tags"}, {"follow_tags"}, {"all", "delete"}, {"dry_run"}}}
    \cup {Q("push", {"delete"}, "", "", <<"topic">>), Q("commit", {"message", "allow_empty"}, "", "", <<>>)}
ConfigRequests ==
    {Q("config", o, "", "", <<"key", "a">>) : o \in {{"set"}, {"add"}, {"replace_all"}, {"unset"}, {"unset_all"}}}
    \cup {Q("config", o, "", "", <<"key">>) : o \in {{"unset_all"}, {"unset"}, {"get"}, {"set"}}}
    \cup {Q("config", {"replace_all"}, "", "", <<"key", "b", "a">>), Q("config", {"add"}, "", "", <<"key", "b">>)}
RemoteRequests ==
    {Q("remote", o, "hub", "other", <<>>) : o \in {{"add"}, {"add", "fetch"}, {"add", "mirror_push"}, {"add", "tags"}}}
    \cup {Q("remote", {"add"}, "hub", "other", <<"main", "a:b">>), Q("remote", {"add", "master"}, "hub", "other", <<"main">>)}
    \cup {Q("remote", {"remove"}, "", "origin", <<>>), Q("remote", {"rename"}, "other", "origin", <<>>)}
    \cup {Q("remote", {"set_url"} \cup o, "old", "origin", p) : o \in {{}, {"insert"}, {"delete"}, {"old"}}, p \in {<<"hub">>}}
    \cup {Q("remote", {"set_branches"} \cup o, "", "origin", <<"topic">>) : o \in {{}, {"insert"}}}
    \cup {Q("remote", o, "", "origin", <<>>) : o \in {{"prune"}, {"prune", "dry_run"}, {"show"}, {"set_head", "auto"},
                                                      {"set_head", "delete"}, {"update"}, {"set_head"}}}
    \cup {Q("remote", {"set_head"}, "topic", "origin", <<>>)}
CloneRequests ==
    {Q("clone", o, rev, "", <<>>) : o \in {{}, {"recurse"}, {"recurse", "bare"}}, rev \in {"hub", "old"}}
    \cup {Q("submodule", o, "", "", p) : o \in {{}, {"status"}, {"sync"}}, p \in {<<>>, <<"m/n">>}}
QueryRequests ==
    {Q("rev-parse", o, "", "", p) : o \in {{}, {"inside"}, {"toplevel"}, {"abbrev_ref"}, {"bad"}}, p \in {<<>>, <<"topic">>, <<"v2">>}}
    \cup {Q(name, o, "", "", p) : name \in {"symbolic-ref", "show-ref", "rev-list", "merge-base", "cherry", "log", "diff",
                                            "show", "describe"},
              o \in {{}, {"bad"}, {"all"}, {"reverse", "one"}, {"zero"}, {"tags"}},
              p \in {<<>>, <<"main", "topic">>, <<"v1">>}}
    \cup {Q("log", {"patch"}, "", "topic", <<>>), Q("show", {"no_patch"}, "", "", <<>>), Q("unknown", {}, "", "", <<>>)}
    \cup {Q("branch", o, "", "", <<>>) : o \in {{}, {"no_merged"}, {"no_contains"}, {"points_at"}, {"show_current"}}}
    \cup {Q("blame", {}, rev, "", <<p>>) : rev \in {"", "topic", "v2"}, p \in MCPaths}
    \cup {Q(name, o, "HEAD", "", <<>>) : name \in {"ls-tree", "cat-file"},
              o \in {{}, {"recurse"}, {"only_trees"}, {"show_trees"}, {"exists"}, {"pretty"}}}
    \cup {Q("ls-tree", {}, "HEAD", "", <<"d", "f">>), Q("tag", {}, "", "", <<>>), Q("status", {}, "", "", <<>>),
          Q("ls-files", {"others"}, "", "", <<>>), Q("remote", {}, "", "", <<>>), Q("remote", {"get_url", "push"}, "", "origin", <<>>),
          Q("stash", {"list"}, "", "", <<>>), Q("stash", {"show"}, "", "", <<>>)}
    \cup {Q("ls-remote", o, "", to, <<>>) : o \in {{}, {"heads"}, {"exit_code"}, {"quiet"}}, to \in {"", "other"}}

-----------------------------------------------------------------------------
Plain(world, requests, edits, commands, faults) == Session(world, NoServer, requests, edits, commands, faults)
HubAt(main, topic, auth) == [NoServer EXCEPT !.refs = [b \in MCBranches |-> IF b = "main" THEN main ELSE topic], !.auth = auth,
                               !.tags = [t \in MCTags |-> IF t = "v1" THEN 2 ELSE 0]]
Behind == [World(Clash, 1, 0, Tree(1, 0)) EXCEPT !.tracking["origin"]["main"] = 1]
Aside == [World(Long, 4, 0, Tree(1, 3)) EXCEPT !.tags = [t \in MCTags |-> IF t = "v2" THEN 3 ELSE 0],
                                              !.annotated = {"v2"}]
Tracking == [World(Line, 2, 1, Tree(1, 2)) EXCEPT !.tracking["origin"] = [b \in MCBranches |-> 1],
                !.upstream["main"] = <<"origin", "main">>, !.tags["v1"] = 1]
Keyed(values) == [World(Line, 2, 0, Tree(1, 2)) EXCEPT !.config["key"] = values]
Urled(values) == [Keyed(<<>>) EXCEPT !.config["origin.url"] = values]

MCSessions ==
    {Plain(World(Line, 2, 0, files), WorkRequests, {<<"f", 2>>, <<"g", 3>>}, 3, 1) : files \in {Tree(1, 2)}}
    \cup {Plain(World(One, 1, 0, Tree(1, 2)), WorkRequests, {<<"f", 3>>}, 2, 1),
          Plain(World(<<>>, 0, 0, Tree(1, 2)), WorkRequests \cup ResetRequests, {}, 2, 0),
          Plain(World(Line, 2, 1, Tree(1, 2)), ResetRequests, {<<"f", 2>>, <<"g", 3>>}, 3, 1)}
    \cup {Plain(World(dag, 2, 3, dag[2].tree), SwitchRequests, {<<"f", 3>>, <<"g", 1>>}, 3, 1) : dag \in {Fork, Clash}}
    \cup {Plain(World(dag, 2, 3, dag[2].tree), MergeRequests, {<<"f", 3>>, <<"g", 1>>}, 4, 1) : dag \in {Fork, Clash}}
    \cup {Plain(World(Line, 1, 2, Tree(1, 0)), MergeRequests, {<<"f", 3>>, <<"g", 1>>}, 3, 1)}
    \cup {Plain(World(dag, 2, 3, dag[2].tree), PickRequests, {<<"f", 3>>}, 3, 1) : dag \in {Fork, Clash}}
    \cup {Plain(World(dag, 2, Len(dag), dag[2].tree), RebaseRequests, {<<"f", 3>>, <<"g", 1>>}, 4, 1) : dag \in {Long, Clash}}
    \cup {Plain(World(Line, 2, 0, Tree(f, g)), StashRequests, {<<"f", 3>>}, 3, 1) : f \in {1, 2}, g \in {0, 3}}
    \cup {Session(Tracking, HubAt(2, 1, FALSE), RefRequests, {}, 3, 0)}
    \cup {Session(Behind, HubAt(2, 3, auth), ExchangeRequests, {<<"f", 3>>}, 2, 2) : auth \in BOOLEAN}
    \cup {Session(Aside, HubAt(2, 3, FALSE), ExchangeRequests, {}, 2, 2)}
    \cup {Session(Tracking, HubAt(2, 1, FALSE), ExchangeRequests, {}, 2, 2)}
    \cup {Plain(Keyed(values), ConfigRequests, {}, 2, 1) : values \in {<<"a", "b">>, <<"b", "a", "b">>, <<"", "a">>}}
    \cup {Session(Urled(<<"hub", "old">>), HubAt(2, 1, auth), RemoteRequests, {}, 2, 1) : auth \in BOOLEAN}
    \cup {Session(World(Line, 1, 0, Tree(1, 0)), HubAt(2, 1, auth), CloneRequests, {}, 2, 1) : auth \in BOOLEAN}
    \cup {Session([World(Line, 1, 0, Tree(1, 0)) EXCEPT !.cloned = TRUE], HubAt(2, 1, auth), CloneRequests, {}, 1, 1) :
              auth \in BOOLEAN}
    \cup {Session(World(Clash, 2, 0, Tree(2, 0)), HubAt(3, 1, FALSE), ExchangeRequests, {<<"f", 3>>}, 2, 1)}
    \cup {Session([Tracking EXCEPT !.files = Tree(3, 2)], HubAt(2, 1, FALSE), QueryRequests, {}, 1, 0)}
    \cup {Plain(World(Long, 2, 4, Tree(2, 3)), QueryRequests, {}, 1, 0)}
=============================================================================
