------------------------------ MODULE ShScopes ------------------------------
(***************************************************************************)
(* What the variables of the shell promise a script: dynamic scoping.  The *)
(* calls under way are a stack, the first element the script itself.  Each *)
(* has its positional parameters and the variables it declared; a name     *)
(* means its binding in the innermost call that declares it, a command     *)
(* changes the meaning of a name in that call only, and a call that ends   *)
(* takes its parameters and its variables with it.  A read-only variable   *)
(* keeps its value until the call that declares it ends.                   *)
(***************************************************************************)
EXTENDS Naturals, Sequences

CONSTANTS Names, Values

Vars == [value : Values \cup {"null"}, exported : BOOLEAN, read_only : BOOLEAN]
Unset == [value |-> "unset", exported |-> FALSE, read_only |-> FALSE]
NotHere == [value |-> "not here", exported |-> FALSE, read_only |-> FALSE]
Bindings == Vars \cup {Unset}
Parameters == Seq(Values)

VARIABLES
    env,     \* env[i][n]: what the i-th call declares of n
    args,    \* args[i]: the positional parameters of the i-th call
    kind     \* kind[i]: "global", "function" or "script" (the . command)

vars == <<env, args, kind>>

Depth == Len(kind)

Innermost(n, i) ==
    /\ env[i][n] # NotHere
    /\ \A j \in i + 1 .. Depth : env[j][n] = NotHere

Init ==
    /\ env \in Seq([Names -> Bindings])
    /\ args \in Seq(Parameters)
    /\ Len(env) = 1 /\ Len(args) = 1
    /\ kind = <<"global">>

\* Commands may change what names mean, each where it is declared.
Write ==
    /\ env' \in Seq([Names -> Bindings \cup {NotHere}])
    /\ Len(env') = Depth
    /\ \A i \in 1 .. Depth, n \in Names :
         IF Innermost(n, i)
         THEN /\ env'[i][n] # NotHere
              /\ env[i][n].read_only =>
                    env'[i][n].read_only /\ env'[i][n].value = env[i][n].value
         ELSE env'[i][n] = env[i][n]
    /\ UNCHANGED <<args, kind>>

\* local: the innermost function declares a name, which begins as what it meant.
Declare(n) ==
    /\ \E f \in 2 .. Depth :
        /\ kind[f] = "function" /\ \A j \in f + 1 .. Depth : kind[j] # "function"
        /\ env[f][n] = NotHere
        /\ \E i \in 1 .. Depth :
            /\ Innermost(n, i)
            /\ env' = [env EXCEPT ![f][n] = env[i][n]]
    /\ UNCHANGED <<args, kind>>

SetParameters ==
    /\ args' \in Seq(Parameters)
    /\ Len(args') = Depth
    /\ \A i \in 1 .. Depth - 1 : args'[i] = args[i]
    /\ UNCHANGED <<env, kind>>

Enter(k) ==
    /\ args' \in Seq(Parameters)
    /\ Len(args') = Depth + 1
    /\ \A i \in 1 .. Depth : args'[i] = args[i]
    /\ env' = Append(env, [n \in Names |-> NotHere])
    /\ kind' = Append(kind, k)

Leave ==
    /\ Depth > 1
    /\ env' = SubSeq(env, 1, Depth - 1)
    /\ args' = SubSeq(args, 1, Depth - 1)
    /\ kind' = SubSeq(kind, 1, Depth - 1)

Next ==
    \/ Write
    \/ \E n \in Names : Declare(n)
    \/ SetParameters
    \/ \E k \in {"function", "script"} : Enter(k)
    \/ Leave

Spec == Init /\ [][Next]_vars
=============================================================================
