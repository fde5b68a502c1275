---------------------------- MODULE AtomicEdit ----------------------------
(***************************************************************************)
(* What an editor of a file promises: it takes the content, and later      *)
(* installs that content with its edit at once, or nothing.  Whoever reads *)
(* in between, or after a crash, finds the old content or the new.  An     *)
(* editor that is exclusive loses no other's edit.  The one way out is     *)
(* output lost unnoticed.                                                  *)
(***************************************************************************)
CONSTANTS
    Editors,    \* who edits
    Targets,    \* the files
    None,       \* no content
    Broken      \* what lost output leaves

VARIABLES
    current,    \* [Targets -> SUBSET Editors, or Broken]: the edits in each file
    copy,       \* [Editors -> a content, or None]: what an editor works on
    target,     \* [Editors -> Targets]: and where it came from
    asked,      \* [Editors -> [files : SUBSET Targets, exclusive : BOOLEAN]]
    done,       \* [Editors -> SUBSET Targets]: the files an editor has changed
    result,     \* [Editors -> {"running", "ok", "failed", "killed"}]
    unnoticed   \* editors that lost output and do not know

vars == <<current, copy, target, asked, done, result, unnoticed>>

Init ==
    /\ \A e \in Editors : copy[e] = None /\ done[e] = {} /\ result[e] = "running"
    /\ unnoticed = {}

With(content, e) == IF content = Broken THEN Broken ELSE content \cup {e}

Take(e) ==
    /\ copy[e] = None /\ result[e] = "running"
    /\ target'[e] \in asked[e].files
    /\ e \notin unnoticed' => copy'[e] = current[target'[e]]
    /\ current' = current /\ done' = done /\ result' = result

Install(e) ==
    /\ copy[e] # None
    /\ e \notin unnoticed =>
         /\ current' = [current EXCEPT ![target[e]] = With(copy[e], e)]
         /\ asked[e].exclusive => current[target[e]] = copy[e]
    /\ \A t \in Targets \ {target[e]} : current'[t] = current[t]
    /\ copy'[e] = None
    /\ done' = [done EXCEPT ![e] = @ \cup {target[e]}]
    /\ result' = result

GiveUp(e) ==
    /\ copy[e] # None /\ copy'[e] = None
    /\ UNCHANGED <<current, done, result>>

End(e) ==
    /\ result[e] = "running" /\ result'[e] \in {"ok", "failed", "killed"}
    /\ copy'[e] = None
    /\ result'[e] = "ok" => done[e] = asked[e].files
    /\ UNCHANGED <<current, done>>

\* Others keep what they have, and what was asked and lost does not change back.
Step(e) ==
    /\ Take(e) \/ Install(e) \/ GiveUp(e) \/ End(e)
    /\ \A o \in Editors \ {e} : copy'[o] = copy[o] /\ target'[o] = target[o] /\ result'[o] = result[o]

Lose == UNCHANGED <<current, copy, target, done, result>>

Next ==
    /\ asked' = asked
    /\ unnoticed \subseteq unnoticed'
    /\ Lose \/ \E e \in Editors : Step(e)

Spec == Init /\ [][Next]_vars
=============================================================================
