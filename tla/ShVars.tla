------------------------------- MODULE ShVars -------------------------------
(***************************************************************************)
(* The variables of the shell (sh_var.c) and the commands that change them *)
(* (runSimpleCommand and callFunction of sh_exec.c, the builtins of        *)
(* sh_builtins.c).  The code keeps one list of variables; a function's     *)
(* frame saves what a name was when local declares it, and puts it back    *)
(* when the function returns (shallow binding).  ShScopes says what that   *)
(* is to look like.                                                        *)
(*                                                                         *)
(* The assignments in front of a command are made one after the other, and *)
(* a builtin that is not special has its own undone afterwards: todo holds *)
(* the shVarSet and shVarUnset calls that the command under way has still  *)
(* to make.  prefixes are the builtins under way that have such            *)
(* assignments (source runs a whole script under them).                    *)
(***************************************************************************)
EXTENDS Naturals, Sequences

CONSTANTS
    Names,       \* names of variables
    Values,      \* their values; "" is one of them
    Environment, \* the environments the shell may be started with
    Interactive, \* whether it may be interactive
    MaxNesting,  \* how deep functions, scripts and builtins with assignments nest
    ArgLists,    \* the argument lists of commands
    MaxParams    \* how many positional parameters set -- may leave

Null == "null"   \* value == NULL: a name that is exported and has no value
VarTypes == [value : Values \cup {Null}, exported : BOOLEAN, read_only : BOOLEAN]
Unset == [value |-> "unset", exported |-> FALSE, read_only |-> FALSE]
NotSaved == [value |-> "not here", exported |-> FALSE, read_only |-> FALSE]
Bindings == VarTypes \cup {Unset}
Parameters == Seq(Values)

ASSUME ValuesAssumption ==
    /\ "" \in Values
    /\ {Null, "unset", "not here"} \cap Values = {}
    /\ Environment \subseteq [Names -> Values \cup {"unset"}]
    /\ Interactive \subseteq BOOLEAN
    /\ ArgLists \subseteq Parameters
    /\ MaxNesting \in Nat /\ MaxParams \in Nat

VARIABLES
    table,        \* interp->vars
    frames,       \* interp->func_frames, with the frames of the . command between them
    params,       \* interp->params
    prefixes,     \* the builtins under way whose assignments are to be undone
    todo,         \* the shVarSet and shVarUnset calls still to make
    opt_allexport,
    interactive,
    flow          \* "NONE" or "EXIT"

vars == <<table, frames, params, prefixes, todo, opt_allexport, interactive, flow>>

\* "assign": an assignment that is a command of its own.
Pending == [op : {"assign", "set", "unset"}, name : Names, value : Values \cup {Null}]
Functions == {i \in 1 .. Len(frames) : frames[i].kind = "function"}

-----------------------------------------------------------------------------
(* sh_var.c: what becomes of one variable.                                 *)

shVarSet(v, value, exported) ==
    IF v.read_only THEN v
    ELSE [value |-> value, exported |-> v.exported \/ exported \/ opt_allexport,
          read_only |-> FALSE]

shVarUnset(v) == IF v.read_only THEN v ELSE Unset

shVarExport(v, value) ==
    IF v = Unset THEN shVarSet(v, value, TRUE)
    ELSE IF value = Null THEN [v EXCEPT !.exported = TRUE]
    ELSE IF v.read_only THEN v
    ELSE [v EXCEPT !.value = value, !.exported = TRUE]

\* Slip: a name that is not there is marked like one that is.
MarkReadOnly(v, value) ==
    [v EXCEPT !.value = IF value # Null /\ ~v.read_only THEN value ELSE @, !.read_only = TRUE]

shVarMakeReadOnly(v, value) ==
    IF v = Unset THEN [shVarSet(v, IF value = Null THEN "" ELSE value, FALSE) EXCEPT !.read_only = TRUE]
    ELSE [v EXCEPT !.value = IF value # Null /\ ~v.read_only THEN value ELSE @,
                   !.read_only = TRUE]

\* Slip: an attribute that is not put back.
RestoredWithoutReadOnly(v, save) ==
    IF save = Unset THEN Unset
    ELSE [shVarSet([v EXCEPT !.read_only = FALSE], save.value, FALSE) EXCEPT !.exported = save.exported]

\* shPopLocalScope for one name: v as it is, save as local found it.
Restored(v, save) ==
    IF save = Unset THEN shVarUnset([v EXCEPT !.read_only = FALSE])
    ELSE [value |-> shVarSet([v EXCEPT !.read_only = FALSE], save.value, FALSE).value,
          exported |-> save.exported, read_only |-> save.read_only]

-----------------------------------------------------------------------------
(* Commands.                                                               *)

Nesting == Len(frames) + Len(prefixes)

\* The shell looks for its next command.
AtCommand == todo = <<>> /\ flow = "NONE"

Change(n, v) == table' = [table EXCEPT ![n] = v]

Assign(sets) ==
    /\ AtCommand
    /\ todo' = [i \in 1 .. Len(sets) |-> [sets[i] EXCEPT !.op = "assign"]]
    /\ UNCHANGED <<table, frames, params, prefixes, opt_allexport, interactive, flow>>

\* One turn of a loop over assignments.
DoSet ==
    /\ todo # <<>>
    /\ LET a == Head(todo) IN
        /\ a.op \in {"assign", "set"}
        /\ Change(a.name, shVarSet(table[a.name], a.value, FALSE))
        /\ flow' = IF a.op = "assign" /\ table[a.name].read_only /\ ~interactive THEN "EXIT" ELSE flow
    /\ todo' = Tail(todo)
    /\ UNCHANGED <<frames, params, prefixes, opt_allexport, interactive>>

DoUnset ==
    /\ todo # <<>>
    /\ LET a == Head(todo) IN
        /\ a.op = "unset"
        /\ Change(a.name, shVarUnset(table[a.name]))
    /\ todo' = Tail(todo)
    /\ UNCHANGED <<frames, params, prefixes, opt_allexport, interactive, flow>>

\* Assignments in front of a special builtin stay.
SpecialPrefix(sets) ==
    /\ AtCommand
    /\ todo' = sets
    /\ UNCHANGED <<table, frames, params, prefixes, opt_allexport, interactive, flow>>

\* What a builtin that is not special puts back: values, looked up before.
RestoreOf(sets) ==
    [i \in 1 .. Len(sets) |->
        LET v == table[sets[i].name] IN
        IF v.value \in Values THEN [op |-> "set", name |-> sets[i].name, value |-> v.value]
        ELSE [op |-> "unset", name |-> sets[i].name, value |-> Null]]

\* Assignments in front of a builtin that is not special.
StartPrefix(sets) ==
    /\ AtCommand
    /\ Nesting < MaxNesting
    /\ prefixes' = Append(prefixes, [depth |-> Len(frames), restore |-> RestoreOf(sets)])
    /\ todo' = sets
    /\ UNCHANGED <<table, frames, params, opt_allexport, interactive, flow>>

\* The builtin on top of the C stack is one with assignments.
PrefixOnTop == prefixes # <<>> /\ prefixes[Len(prefixes)].depth = Len(frames)

EndPrefix ==
    /\ todo = <<>>
    /\ PrefixOnTop
    /\ todo' = prefixes[Len(prefixes)].restore
    /\ prefixes' = SubSeq(prefixes, 1, Len(prefixes) - 1)
    /\ UNCHANGED <<table, frames, params, opt_allexport, interactive, flow>>

builtinExport(n, value) ==
    /\ AtCommand
    /\ Change(n, shVarExport(table[n], value))
    /\ UNCHANGED <<frames, params, prefixes, todo, opt_allexport, interactive, flow>>

builtinReadonly(n, value) ==
    /\ AtCommand
    /\ Change(n, shVarMakeReadOnly(table[n], value))
    /\ UNCHANGED <<frames, params, prefixes, todo, opt_allexport, interactive, flow>>

builtinUnset(n) ==
    /\ AtCommand
    /\ Change(n, shVarUnset(table[n]))
    /\ UNCHANGED <<frames, params, prefixes, todo, opt_allexport, interactive, flow>>

\* The function whose frame local writes to: interp->func_frames.
TopFunction == CHOOSE f \in Functions : \A g \in Functions : g <= f

\* shVarMarkLocal, and then the assignment of local, which a read-only variable
\* refuses without a word to the command.
builtinLocal(n, value) ==
    /\ AtCommand
    /\ Functions # {}
    /\ frames[TopFunction].locals[n] = NotSaved
    /\ frames' = [frames EXCEPT ![TopFunction].locals[n] = table[n]]
    /\ todo' = <<[op |-> "set", name |-> n, value |-> value]>>
    /\ UNCHANGED <<table, params, prefixes, opt_allexport, interactive, flow>>

\* The name is local already.
builtinLocalAgain(n, value) ==
    /\ AtCommand
    /\ Functions # {}
    /\ frames[TopFunction].locals[n] # NotSaved
    /\ Change(n, shVarSet(table[n], value, FALSE))
    /\ UNCHANGED <<frames, params, prefixes, todo, opt_allexport, interactive, flow>>

SetAllexport(value) ==
    /\ AtCommand
    /\ opt_allexport' = value
    /\ UNCHANGED <<table, frames, params, prefixes, todo, interactive, flow>>

setPositionalParams(given) ==
    /\ AtCommand
    /\ params' = given
    /\ UNCHANGED <<table, frames, prefixes, todo, opt_allexport, interactive, flow>>

builtinShift(n) ==
    /\ AtCommand
    /\ n <= Len(params)
    /\ params' = SubSeq(params, n + 1, Len(params))
    /\ UNCHANGED <<table, frames, prefixes, todo, opt_allexport, interactive, flow>>

-----------------------------------------------------------------------------
(* Calls.                                                                  *)

Enter(kind, given) ==
    /\ AtCommand
    /\ Nesting < MaxNesting
    /\ frames' = Append(frames, [kind |-> kind, old_params |-> params,
                                 locals |-> [n \in Names |-> NotSaved]])
    /\ params' = given
    /\ UNCHANGED <<table, prefixes, todo, opt_allexport, interactive, flow>>

callFunction(given) == Enter("function", given)

\* . or source with arguments; without them its commands run as if they stood
\* in its place.
builtinDot(given) == given # <<>> /\ Enter("script", given)

Top == frames[Len(frames)]

\* The function or script ends, by return, by its last command, or because the
\* shell exits.
Leave ==
    /\ frames # <<>> /\ todo = <<>> /\ ~PrefixOnTop
    /\ table' = [n \in Names |-> IF Top.locals[n] = NotSaved THEN table[n]
                                 ELSE Restored(table[n], Top.locals[n])]
    /\ params' = Top.old_params
    /\ frames' = SubSeq(frames, 1, Len(frames) - 1)
    /\ UNCHANGED <<prefixes, todo, opt_allexport, interactive, flow>>

-----------------------------------------------------------------------------
OneSet == {<<a>> : a \in [op : {"set"}, name : Names, value : Values]}
SetLists == OneSet \cup {s \in {a \o b : a, b \in OneSet} : s[1] # s[2]}

Init ==
    /\ \E given \in Environment :
        table = [n \in Names |-> IF given[n] = "unset" THEN Unset
                    ELSE [value |-> given[n], exported |-> TRUE, read_only |-> FALSE]]
    /\ frames = <<>>
    /\ params \in ArgLists
    /\ prefixes = <<>>
    /\ todo = <<>>
    /\ opt_allexport = FALSE
    /\ interactive \in Interactive
    /\ flow = "NONE"

Assignments == (\E s \in SetLists : Assign(s) \/ StartPrefix(s) \/ SpecialPrefix(s)) \/ DoSet \/ DoUnset \/ EndPrefix

Builtins ==
    \/ \E n \in Names :
        \/ \E value \in Values \cup {Null} : builtinExport(n, value) \/ builtinReadonly(n, value)
        \/ builtinUnset(n)
        \/ \E value \in Values : builtinLocal(n, value) \/ builtinLocalAgain(n, value)
    \/ \E value \in BOOLEAN : SetAllexport(value)
    \/ \E given \in ArgLists : setPositionalParams(given)
    \/ \E n \in 0 .. MaxParams : builtinShift(n)

Calls == (\E given \in ArgLists : callFunction(given) \/ builtinDot(given)) \/ Leave

Next == Assignments \/ Builtins \/ Calls

Spec == Init /\ [][Next]_vars

-----------------------------------------------------------------------------
(* Properties.                                                             *)

Frames == [kind : {"function", "script"}, old_params : Parameters,
           locals : [Names -> Bindings \cup {NotSaved}]]

TypeOK ==
    /\ table \in [Names -> Bindings]
    /\ frames \in Seq(Frames)
    /\ params \in Parameters
    /\ prefixes \in Seq([depth : Nat, restore : Seq(Pending)])
    /\ todo \in Seq(Pending)
    /\ {opt_allexport, interactive} \subseteq BOOLEAN
    /\ flow \in {"NONE", "EXIT"}

\* What a table t and frames fs mean: the calls after call i that saved n (0 is
\* the script itself),
SavedAfter(fs, n, i) == {j \in i + 1 .. Len(fs) : fs[j].locals[n] # NotSaved}
First(s) == CHOOSE j \in s : \A k \in s : j <= k

\* and what call i declares of n.
Declared(t, fs, i, n) ==
    IF i > 0 /\ fs[i].locals[n] = NotSaved THEN NotSaved
    ELSE IF SavedAfter(fs, n, i) = {} THEN t[n]
    ELSE fs[First(SavedAfter(fs, n, i))].locals[n]

Env(t, fs) == [i \in 1 .. Len(fs) + 1 |-> [n \in Names |-> Declared(t, fs, i - 1, n)]]
Args(fs, p) == [i \in 1 .. Len(fs) + 1 |-> IF i > Len(fs) THEN p ELSE fs[i].old_params]
Kinds(fs) == [i \in 1 .. Len(fs) + 1 |-> IF i = 1 THEN "global" ELSE fs[i - 1].kind]

Scopes == INSTANCE ShScopes WITH
    env <- Env(table, frames), args <- Args(frames, params), kind <- Kinds(frames)

\* Functions and scripts see dynamic scopes: local variables and positional
\* parameters are what they were once the call that shadowed them is over,
\* and a read-only variable does not change while it is in scope.
ScopesRestored == Scopes!Spec
=============================================================================
