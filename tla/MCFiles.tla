------------------------------ MODULE MCFiles ------------------------------
(***************************************************************************)
(* Two processes, a few files of two chunks, a directory with a file, a    *)
(* link and a pipe, a second device for t, and every way in which one or   *)
(* two system calls fail; and, as a part of its own that shares no state   *)
(* with it, the text tools.                                                *)
(***************************************************************************)
EXTENDS Commands, MCTools, TLC

VARIABLE part     \* the part that moves: "commands" or "tools"

MCProcs == {"P", "Q"}
MCTemp == [p \in MCProcs |-> <<"tmp" \o p>>]
MCPaths ==
    {<<n>> : n \in {"f", "g", "k", "s", "t", "m", "f.bak", "g.bak", "f.gz", "shadow", "shadow.tmp",
                    "tmpP", "tmpQ"}}
    \cup {<<d, n>> : d \in {"s", "t", "m"}, n \in {"a", "l", "p"}}
    \cup {<<"t", "f">>, <<"t", "s">>, <<"t", "k">>} \cup {<<"t", "s", n>> : n \in {"a", "l", "p"}}
MCDevice == [n \in {path[1] : path \in MCPaths} |-> IF n = "t" THEN 2 ELSE 1]

Chunk(i, packed) == [id |-> i, by |-> {}, packed |-> packed]
File(n, packed) == [Empty EXCEPT !.data = [i \in 1 .. n |-> Chunk(i, packed)]]

\* What is there in every world; t and f.gz are in some.
Home ==
    (<<"f">> :> File(2, FALSE)) @@ (<<"g">> :> File(1, FALSE)) @@ (<<"shadow">> :> File(2, FALSE))
    @@ (<<"k">> :> LinkTo(<<"f">>)) @@ (<<"s">> :> Directory) @@ (<<"s", "a">> :> File(2, FALSE))
    @@ (<<"s", "l">> :> LinkTo(<<"g">>)) @@ (<<"s", "p">> :> Fifo)
NoCommand ==
    [tool |-> "none", operands |-> <<>>, suffix |-> FALSE, context |-> 0, user |-> 0,
     keep |-> FALSE, force |-> FALSE, recursive |-> FALSE, interactive |-> FALSE, asks |-> FALSE,
     dest |-> <<>>]
Does(tool, operands) == [NoCommand EXCEPT !.tool = tool, !.operands = operands]
To(tool, operands, dest) == [Does(tool, operands) EXCEPT !.dest = dest]
SideBySide(a, b) == ("P" :> a) @@ ("Q" :> b)
Alone(a) == SideBySide(a, NoCommand)

F == <<"f">>
G == <<"g">>
S == <<"s">>
T == <<"t">>

\* Editors side by side.
Edits ==
    {SideBySide([Does("sed", <<F, G>>) EXCEPT !.suffix = suffix], Does("sed", <<F>>)) : suffix \in BOOLEAN}
    \cup {SideBySide([Does("sed", <<F>>) EXCEPT !.suffix = TRUE],
               [Does("patch", <<F, G>>) EXCEPT !.context = context]) :
             context \in {0, 1}}
    \cup {SideBySide([Does("passwd", <<Shadow>>) EXCEPT !.user = 1], [Does("passwd", <<Shadow>>) EXCEPT !.user = 2])}

Packings ==
    {Alone([Does(tool, <<F>>) EXCEPT !.keep = keep, !.force = force]) :
             tool \in Gzips, keep \in BOOLEAN, force \in BOOLEAN}

Copies ==
    {Alone([To("cp", operands, T) EXCEPT !.recursive = TRUE]) : operands \in {<<S>>, <<<<"k">>>>, <<S, F>>}}
    \cup {Alone(To("cp", <<S>>, T))}
    \cup {Alone(To("mv", operands, dest)) : operands \in {<<S>>, <<F>>, <<<<"k">>>>}, dest \in {T, <<"m">>}}
    \cup {Alone([To("mv", <<F>>, T) EXCEPT !.asks = asks, !.keep = ~asks]) : asks \in BOOLEAN}
    \cup {Alone([Does("rm", operands) EXCEPT !.recursive = TRUE, !.force = (how = "f"),
                                        !.interactive = (how = "i")]) :
             operands \in {<<S>>, <<F, T, S>>}, how \in {"f", "i", "r"}}
    \cup {Alone(Does("rm", <<S>>))}
    \cup {Alone([To("ln", <<F>>, dest) EXCEPT !.force = force]) : dest \in {T, <<"k">>}, force \in BOOLEAN}

Run(trees, requests) == [files : trees, requests : requests]
MCWorlds ==
    Run({Home}, Edits)
    \cup Run({Home, (<<"f.gz">> :> File(2, TRUE)) @@ Home}, Packings)
    \cup Run({Home, (T :> Directory) @@ Home, (T :> File(1, FALSE)) @@ Home}, Copies)

CommandsRest == Init /\ before = Home /\ \A p \in Procs : proc[p].req = Alone(Does("rm", <<S>>))[p]
FilesInit ==
    \/ part = "commands" /\ Init /\ asked = Nothing
    \/ part = "tools" /\ CommandsRest /\ ToolsInit
FilesNext ==
    /\ UNCHANGED part
    /\ \/ part = "commands" /\ Next /\ UNCHANGED asked
       \/ part = "tools" /\ ToolsNext /\ UNCHANGED vars
FilesSpec == FilesInit /\ [][FilesNext]_<<vars, part, asked>>
=============================================================================
