------------------------------- MODULE GitRepo -------------------------------
(***************************************************************************)
(* The repository the git applet works on, and what libgit2 does to it     *)
(* when the applet calls it.  libgit2 is not part of this code: its        *)
(* operations are modelled from the calls of src/git_app.c, one operator   *)
(* per call, on a record with the objects, the branches, HEAD, the index,  *)
(* the files, the unfinished operation and the stash.                      *)
(*                                                                         *)
(* A commit is its position in dag, so that its parents come before it; 0  *)
(* is no commit.  A tree gives every path a blob or Absent.  A path that   *)
(* does not merge is Conflicted in the index and has Markers in its file.  *)
(***************************************************************************)
EXTENDS Integers, Sequences, FiniteSets, SequencesExt, FiniteSetsExt

CONSTANTS
    Paths,      \* the files there may be
    Dirs,       \* directories that may be operands
    Inside,     \* the paths below each directory
    Branches,   \* names a branch may have
    Tags,       \* names a tag may have
    Remotes,    \* names a remote may have
    TrackingName, \* how a revision names the remote-tracking branch of a remote
    Blobs       \* contents a file may have

Absent == 0
Conflicted == -1
Markers == -2

ASSUME GitAssumption ==
    /\ Inside \in [Dirs -> SUBSET Paths]
    /\ Blobs \subseteq Nat \ {Absent}
    /\ Paths \cap Dirs = {} /\ "" \notin Branches
    /\ DOMAIN TrackingName = Remotes \X Branches

Trees == [Paths -> Blobs \cup {Absent, Markers}]
NoTree == [p \in Paths |-> Absent]
NoOperation == [kind |-> "none", commit |-> 0, todo |-> <<>>, branch |-> "", orig |-> 0]

-----------------------------------------------------------------------------
(* Objects and names.                                                      *)

HeadCommit(r) == IF r.head.branch # "" THEN r.refs[r.head.branch] ELSE r.head.at
TreeOf(r, c) == IF c = 0 THEN NoTree ELSE r.dag[c].tree
HeadTree(r) == TreeOf(r, HeadCommit(r))

\* c and all its ancestors.
History(dag, c) ==
    LET reach[d \in 0 .. Len(dag)] ==
            IF d = 0 THEN {} ELSE {d} \cup UNION {reach[p] : p \in ToSet(dag[d].parents)}
    IN  reach[c]

\* git_merge_base: a common ancestor that no other one descends from.
MergeBase(dag, a, b) ==
    LET common == History(dag, a) \cap History(dag, b)
    IN  IF common = {} THEN 0 ELSE Max(common)

\* git_revparse_single; 0 when the name resolves to nothing.
Resolve(r, rev) ==
    CASE rev = "HEAD" -> HeadCommit(r)
      [] rev = "HEAD^" -> IF HeadCommit(r) = 0 \/ r.dag[HeadCommit(r)].parents = <<>> THEN 0
                          ELSE r.dag[HeadCommit(r)].parents[1]
      [] rev \in Branches -> r.refs[rev]
      [] rev \in Tags -> r.tags[rev]
      [] OTHER -> LET named == {k \in DOMAIN TrackingName : TrackingName[k] = rev}
                  IN  IF named = {} THEN 0 ELSE LET k == CHOOSE k \in named : TRUE
                                                IN  r.tracking[k[1]][k[2]]

-----------------------------------------------------------------------------
(* The index and the files.                                                *)

HasConflicts(r) == \E p \in Paths : r.index[p] = Conflicted

\* Path by path: what only one side changed is taken from that side.
Merged(base, ours, theirs) ==
    [p \in Paths |->
        IF ours[p] = theirs[p] \/ base[p] = theirs[p] THEN ours[p]
        ELSE IF base[p] = ours[p] THEN theirs[p]
        ELSE Conflicted]

\* The paths in which a safe checkout from tree a to tree b would lose something.
Blocked(r, a, b) == {p \in Paths : b[p] # a[p] /\ r.files[p] \notin {a[p], b[p]}}

\* The tree's paths in ps into the index and the files.
Write(r, tree, ps) ==
    [r EXCEPT
        !.index = [p \in Paths |-> IF p \in ps THEN tree[p] ELSE @[p]],
        !.files = [p \in Paths |-> IF p \notin ps THEN @[p]
                                   ELSE IF tree[p] = Conflicted THEN Markers ELSE tree[p]]]

\* GIT_CHECKOUT_SAFE | GIT_CHECKOUT_RECREATE_MISSING from a to b: what differs, and what is missing.
SafeCheckout(r, a, b) ==
    Write(r, b, {p \in Paths : b[p] # a[p] \/ (r.files[p] = Absent /\ b[p] # Absent)})

\* GIT_CHECKOUT_FORCE of the paths in ps: what is tracked and not in the tree goes, too.
Known(r) == {p \in Paths : r.index[p] # Absent \/ HeadTree(r)[p] # Absent}
ForceCheckout(r, tree, ps) == Write(r, tree, {p \in ps : tree[p] # Absent \/ p \in Known(r)})

\* HEAD's branch, or the detached HEAD, moves to c.
MoveHead(r, c) ==
    IF r.head.branch # "" THEN [r EXCEPT !.refs[r.head.branch] = c] ELSE [r EXCEPT !.head.at = c]

\* git_reset --hard: what the old index or HEAD tracked goes, what the new tree has is written.
ResetHard(r, c) ==
    [MoveHead(ForceCheckout(r, TreeOf(r, c), Paths), c) EXCEPT
        !.index = TreeOf(r, c), !.op = NoOperation]
ResetMixed(r, c) == [MoveHead(r, c) EXCEPT !.index = TreeOf(r, c), !.op = NoOperation]
ResetSoft(r, c) == MoveHead(r, c)
\* git_reset_default: the index entries of some paths go back to those of a commit.
ResetPaths(r, c, ps) ==
    [r EXCEPT !.index = [p \in Paths |-> IF p \in ps THEN TreeOf(r, c)[p] ELSE @[p]]]

\* git_commit_create: a commit on HEAD.
CommitTree(r, tree, parents) ==
    MoveHead([r EXCEPT !.dag = Append(@, [parents |-> parents, tree |-> tree])], Len(r.dag) + 1)

\* A three-way merge into the index and the files, by git_merge, git_cherrypick, git_revert.
Apply(r, base, theirs) ==
    LET ours == HeadTree(r)
        result == Merged(base, ours, theirs)
    IN  SafeCheckout(r, ours, result)
Applies(r, base, theirs) == Blocked(r, HeadTree(r), Merged(base, HeadTree(r), theirs)) = {}

\* git_merge_analysis.
Analysis(r, c) ==
    LET ours == HeadCommit(r)
    IN  IF c \in History(r.dag, ours) THEN "up_to_date"
        ELSE IF ours \in History(r.dag, c) THEN "fastforward"
        ELSE "normal"

-----------------------------------------------------------------------------
(* The stash: git_stash_save, git_stash_apply.                             *)

Tracked(r) == {p \in Paths : r.index[p] # Absent}
Stashable(r, untracked) ==
    \/ r.index # HeadTree(r)
    \/ \E p \in Paths : r.files[p] # r.index[p] /\ (p \in Tracked(r) \/ untracked)
StashEntry(r, untracked) ==
    [base |-> HeadCommit(r), index |-> r.index,
     files |-> [p \in Paths |-> IF p \in Tracked(r) \/ untracked THEN r.files[p] ELSE HeadTree(r)[p]]]
StashSave(r, untracked, keep) ==
    LET clean == ResetHard(r, HeadCommit(r))
        kept == IF keep THEN r.index ELSE clean.index
    IN  [r EXCEPT !.stash = <<StashEntry(r, untracked)>> \o @, !.index = kept,
                  !.files = [p \in Paths |-> IF p \in Tracked(r) \/ untracked THEN kept[p]
                                             ELSE clean.files[p]]]
\* Applying needs an index without staged changes; the stash's changes go to the files.
StashApplies(r, s) ==
    /\ r.index = HeadTree(r)
    /\ Blocked(r, r.index, Merged(TreeOf(r, s.base), r.index, s.files)) = {}
StashApply(r, s, reinstate) ==
    LET result == Merged(TreeOf(r, s.base), r.index, s.files)
    IN  [SafeCheckout(r, r.index, result) EXCEPT
            !.index = [p \in Paths |-> IF result[p] = Conflicted THEN Conflicted
                                       ELSE IF reinstate THEN s.index[p] ELSE r.index[p]]]
=============================================================================
