--------------------------- MODULE ShFlow_proofs ---------------------------
(***************************************************************************)
(* No jump loses its target (FlowHasTarget) and set -e is in force exactly *)
(* where it should be (ErrexitFollowsContext), for every script, every     *)
(* depth of subshells and signals at any moment.                           *)
(*                                                                         *)
(* The argument: every call on the C stack of a process is made at a level *)
(* (how many loops, loop bodies and functions it is in, whether set -e is  *)
(* in force, and what was so where the process waits for its child), and   *)
(* the level of a call follows from its caller's (Inside, Well).  The      *)
(* interpreter's counters say the level of the call on top (Counts).  A    *)
(* frame has saved what the level below it says (FrameOK), so leaving it   *)
(* by whatever path restores it.  A break counts bodies, not loops: one    *)
(* that a loop's condition runs never sees its own loop.                   *)
(***************************************************************************)
EXTENDS ShFlow, TLAPS, SequenceTheorems, FiniteSetTheorems, WellFoundedInduction

Bytes == 0 .. 255
Levels == {lv \in [loops : Nat, bodies : Nat, functions : Nat, errexit : BOOLEAN] : lv.bodies <= lv.loops}
States == [now : Levels, waits : BOOLEAN, wait : Levels]

\* The level of what the call f does, from the level of its caller.
Inside(f, v) ==
    [now |-> [loops |-> IF f.k = "loop" THEN v.now.loops + 1 ELSE v.now.loops,
              bodies |-> IF f.k = "loop" /\ f.at = "body" THEN v.now.bodies + 1 ELSE v.now.bodies,
              functions |-> IF f.k = "function" THEN v.now.functions + 1 ELSE v.now.functions,
              errexit |-> IF Suppressing(f) THEN FALSE ELSE v.now.errexit],
     waits |-> IF f.k = "waitpid" THEN TRUE ELSE v.waits,
     wait |-> IF f.k = "waitpid" THEN v.now ELSE v.wait]

ListOK(list, v) ==
    \E l \in 0 .. v.now.bodies, g \in BOOLEAN : IsList(list, l, g) /\ (g => v.now.functions > 0)

CommandOK(c, v) ==
    \E l \in 0 .. v.now.bodies, g \in BOOLEAN : Stands(c, l, g) /\ (g => v.now.functions > 0)

FrameOK(f, v) ==
    /\ f.k \in Kinds
    /\ f.k = "program" =>
        /\ \E L : f \in [k : {"program"}, list : L, i : Nat, st : Bytes, at : {"command", "trap"}]
        /\ ListOK(f.list, v) /\ (f.list = <<>> \/ f.i \in 1 .. Len(f.list))
    /\ f.k = "command" => CommandOK(f.c, v)
    /\ f.k = "logical" =>
        /\ \E C : f \in [k : {"logical"}, c : C, i : Nat, st : {0}, saved : BOOLEAN]
        /\ CommandOK(f.c, v) /\ f.c.t = "logical"
        /\ f.i \in 1 .. Len(f.c.pipelines) /\ f.saved = v.now.errexit
    /\ f.k = "condition" => CommandOK(f.c, v) /\ f.c.t = "if" /\ f.saved = v.now.errexit
    /\ f.k = "loop" =>
        /\ \E C : f \in [k : {"loop"}, c : C, at : {"start", "condition", "body"}, left : Nat,
                         st : Bytes, saved : BOOLEAN]
        /\ CommandOK(f.c, v) /\ f.c.t = "loop"
        /\ f.at = "condition" => f.saved = v.now.errexit
    /\ f.k = "waitpid" => ~v.waits
    /\ f.k = "trap" => f.saved \in Bytes
    /\ f.k = "main" => f \in [k : {"main"}, at : {"body", "exit trap"}, st : Bytes]

\* A frame that has called another one.
Waiting(f) ==
    f.k # "command" /\ (f.k = "program" => f.list # <<>>) /\ (f.k = "loop" => f.at # "start")

\* The stack st of a process that was forked at base is at the level top.
Well(st, base, top) ==
    \E S : /\ st \in Seq(S)
           /\ \E V \in [1 .. Len(st) + 1 -> States] :
                /\ V[Len(st) + 1] = base /\ V[1] = top
                /\ \A i \in 1 .. Len(st) :
                    /\ V[i] = Inside(st[i], V[i + 1]) /\ FrameOK(st[i], V[i + 1])
                    /\ i > 1 => Waiting(st[i])

-----------------------------------------------------------------------------
(* Stacks.                                                                 *)

LEMMA InsideState ==
  ASSUME NEW f, NEW v \in States
  PROVE  Inside(f, v) \in States
<1>1. /\ v.now \in [loops : Nat, bodies : Nat, functions : Nat, errexit : BOOLEAN]
      /\ v.now.bodies <= v.now.loops /\ v.waits \in BOOLEAN /\ v.wait \in Levels /\ v.now \in Levels
  BY DEF States, Levels
<1>2. Inside(f, v).now \in [loops : Nat, bodies : Nat, functions : Nat, errexit : BOOLEAN]
  <2>1. (IF Suppressing(f) THEN FALSE ELSE v.now.errexit) \in BOOLEAN BY <1>1
  <2>2. /\ (IF f.k = "loop" THEN v.now.loops + 1 ELSE v.now.loops) \in Nat
        /\ (IF f.k = "loop" /\ f.at = "body" THEN v.now.bodies + 1 ELSE v.now.bodies) \in Nat
        /\ (IF f.k = "function" THEN v.now.functions + 1 ELSE v.now.functions) \in Nat
    BY <1>1
  <2>3. QED BY <2>1, <2>2 DEF Inside
<1>3. Inside(f, v).now.bodies <= Inside(f, v).now.loops
  <2>1. v.now.loops \in Nat /\ v.now.bodies \in Nat BY <1>1
  <2>2. QED BY <1>1, <2>1 DEF Inside
<1>4. Inside(f, v).now \in Levels BY <1>2, <1>3 DEF Levels
<1>5. QED BY <1>1, <1>4 DEF Inside, States

LEMMA NothingOnStack ==
  ASSUME NEW v \in States
  PROVE  Well(<<>>, v, v)
<1> DEFINE V == [i \in 1 .. 1 |-> v]
<1>1. V \in [1 .. 1 -> States] /\ V[1] = v OBVIOUS
<1>2. PICK st : st = <<>> OBVIOUS
<1>3. Len(st) = 0 /\ st \in Seq({}) BY <1>2
<1>4. Well(st, v, v)
  <2>1. V \in [1 .. Len(st) + 1 -> States] /\ V[Len(st) + 1] = v BY <1>1, <1>3
  <2>2. \A i \in 1 .. Len(st) : FALSE BY <1>3
  <2> HIDE DEF V
  <2>3. QED BY <1>1, <1>3, <2>1, <2>2 DEF Well
<1>5. QED BY <1>2, <1>4

LEMMA TopIsState ==
  ASSUME NEW st, NEW base, NEW top, Well(st, base, top)
  PROVE  top \in States /\ base \in States /\ (st = <<>> => top = base)
<1>1. PICK S : /\ st \in Seq(S)
               /\ \E V \in [1 .. Len(st) + 1 -> States] : V[Len(st) + 1] = base /\ V[1] = top
  BY DEF Well
<1>2. PICK n \in Nat : n = Len(st) BY <1>1
<1>3. PICK V \in [1 .. n + 1 -> States] : V[n + 1] = base /\ V[1] = top BY <1>1, <1>2
<1>4. 1 \in 1 .. n + 1 /\ n + 1 \in 1 .. n + 1 BY <1>2
<1>5. st = <<>> => n = 0 BY <1>2
<1>6. QED BY <1>3, <1>4, <1>5

\* A function calls another one.
LEMMA Pushes ==
  ASSUME NEW st, NEW base, NEW top, NEW f,
         Well(st, base, top), st = <<>> \/ Waiting(Head(st)), FrameOK(f, top)
  PROVE  Well(<<f>> \o st, base, Inside(f, top))
<1>1. PICK S : /\ st \in Seq(S)
               /\ \E V \in [1 .. Len(st) + 1 -> States] :
                    /\ V[Len(st) + 1] = base /\ V[1] = top
                    /\ \A i \in 1 .. Len(st) :
                        /\ V[i] = Inside(st[i], V[i + 1]) /\ FrameOK(st[i], V[i + 1])
                        /\ i > 1 => Waiting(st[i])
  BY DEF Well
<1>2. PICK n \in Nat : n = Len(st) BY <1>1
<1>3. PICK V \in [1 .. n + 1 -> States] :
         /\ V[n + 1] = base /\ V[1] = top
         /\ \A i \in 1 .. n : /\ V[i] = Inside(st[i], V[i + 1]) /\ FrameOK(st[i], V[i + 1])
                              /\ i > 1 => Waiting(st[i])
  BY <1>1, <1>2
<1>4. PICK R : R = S \cup {f} OBVIOUS
<1>5. st \in Seq(R) /\ <<f>> \in Seq(R) BY <1>1, <1>4
<1>6. PICK new : new = <<f>> \o st OBVIOUS
<1>7. new \in Seq(R) /\ Len(new) = n + 1 /\ new[1] = f /\ \A i \in 2 .. n + 1 : new[i] = st[i - 1]
  BY <1>2, <1>5, <1>6, ConcatProperties
<1> DEFINE W == [i \in 1 .. n + 2 |-> IF i = 1 THEN Inside(f, top) ELSE V[i - 1]]
<1>8. W \in [1 .. Len(new) + 1 -> States] /\ W[Len(new) + 1] = base /\ W[1] = Inside(f, top)
  <2>1. V[1] \in States /\ top \in States BY <1>2, <1>3
  <2>2. Inside(f, top) \in States BY <2>1, InsideState
  <2>3. QED BY <1>2, <1>3, <1>7, <2>2
<1>9. \A i \in 1 .. n + 1 : /\ W[i] = Inside(new[i], W[i + 1]) /\ FrameOK(new[i], W[i + 1])
                            /\ i > 1 => Waiting(new[i])
  <2> SUFFICES ASSUME NEW i \in 1 .. n + 1
               PROVE  /\ W[i] = Inside(new[i], W[i + 1]) /\ FrameOK(new[i], W[i + 1])
                      /\ i > 1 => Waiting(new[i])
    OBVIOUS
  <2>1. CASE i = 1
    <3>1. W[i] = Inside(f, top) /\ W[i + 1] = V[1] /\ new[i] = f BY <1>2, <1>7, <2>1
    <3>2. QED BY <3>1, <1>3, <2>1
  <2>2. CASE i # 1
    <3>1. i - 1 \in 1 .. n /\ W[i] = V[i - 1] /\ W[i + 1] = V[(i - 1) + 1] /\ new[i] = st[i - 1]
      BY <1>2, <1>7, <2>2
    <3>2. CASE i - 1 > 1 BY <3>1, <3>2, <1>3
    <3>3. CASE i - 1 = 1
      <4>1. st # <<>> /\ Head(st) = st[1] BY <1>1, <1>2, <3>1
      <4>2. QED BY <3>1, <3>3, <4>1, <1>3
    <3>4. QED BY <3>1, <3>2, <3>3
  <2>3. QED BY <2>1, <2>2
<1> HIDE DEF W
<1>10. QED
  <2>1. Well(new, base, Inside(f, top)) BY <1>7, <1>8, <1>9 DEF Well
  <2>2. QED BY <2>1, <1>6

\* A function returns.
LEMMA Pops ==
  ASSUME NEW st, NEW base, NEW top, Well(st, base, top), st # <<>>
  PROVE  \E u \in States : /\ top = Inside(Head(st), u) /\ FrameOK(Head(st), u)
                           /\ Well(Tail(st), base, u)
                           /\ Tail(st) = <<>> \/ Waiting(Head(Tail(st)))
<1>1. PICK S : /\ st \in Seq(S)
               /\ \E V \in [1 .. Len(st) + 1 -> States] :
                    /\ V[Len(st) + 1] = base /\ V[1] = top
                    /\ \A i \in 1 .. Len(st) :
                        /\ V[i] = Inside(st[i], V[i + 1]) /\ FrameOK(st[i], V[i + 1])
                        /\ i > 1 => Waiting(st[i])
  BY DEF Well
<1>2. PICK n \in Nat \ {0} : n = Len(st) BY <1>1
<1>3. PICK V \in [1 .. n + 1 -> States] :
         /\ V[n + 1] = base /\ V[1] = top
         /\ \A i \in 1 .. n : /\ V[i] = Inside(st[i], V[i + 1]) /\ FrameOK(st[i], V[i + 1])
                              /\ i > 1 => Waiting(st[i])
  BY <1>1, <1>2
<1>4. PICK new : new = Tail(st) OBVIOUS
<1>5. new \in Seq(S) /\ Len(new) = n - 1 /\ (\A i \in 1 .. n - 1 : new[i] = st[i + 1]) /\ Head(st) = st[1]
  BY <1>1, <1>2, <1>4, HeadTailProperties
<1> DEFINE W == [i \in 1 .. n |-> V[i + 1]]
<1>6. W \in [1 .. Len(new) + 1 -> States] /\ W[Len(new) + 1] = base /\ W[1] = V[2] /\ V[2] \in States
  BY <1>2, <1>3, <1>5
<1>7. \A i \in 1 .. n - 1 : /\ W[i] = Inside(new[i], W[i + 1]) /\ FrameOK(new[i], W[i + 1])
                            /\ Waiting(new[i])
  <2> SUFFICES ASSUME NEW i \in 1 .. n - 1
               PROVE  /\ W[i] = Inside(new[i], W[i + 1]) /\ FrameOK(new[i], W[i + 1])
                      /\ Waiting(new[i])
    OBVIOUS
  <2>1. i + 1 \in 1 .. n /\ i + 1 > 1 /\ W[i] = V[i + 1] /\ W[i + 1] = V[(i + 1) + 1] /\ new[i] = st[i + 1]
    BY <1>2, <1>5
  <2>2. QED BY <2>1, <1>3
<1>8. top = Inside(Head(st), V[2]) /\ FrameOK(Head(st), V[2])
  <2>1. 1 \in 1 .. n /\ 1 + 1 = 2 BY <1>2
  <2>2. QED BY <2>1, <1>3, <1>5
<1>9. new = <<>> \/ Waiting(Head(new))
  <2> SUFFICES ASSUME new # <<>> PROVE Waiting(Head(new)) OBVIOUS
  <2>1. Len(new) # 0 /\ Head(new) = new[1] BY <1>5
  <2>2. 1 \in 1 .. n - 1 BY <2>1, <1>2, <1>5
  <2>3. QED BY <2>1, <2>2, <1>7
<1> HIDE DEF W
<1>10. Well(new, base, V[2]) BY <1>5, <1>6, <1>7 DEF Well
<1>11. QED BY <1>4, <1>6, <1>8, <1>9, <1>10

LEMMA TopOfStack ==
  ASSUME NEW st, NEW base, NEW top, Well(st, base, top), NEW f
  PROVE  Head(<<f>> \o st) = f /\ Tail(<<f>> \o st) = st /\ <<f>> \o st # <<>>
<1>1. PICK S : st \in Seq(S) BY DEF Well
<1>2. PICK R : R = S \cup {f} OBVIOUS
<1>3. st \in Seq(R) /\ f \in R BY <1>1, <1>2
<1>4. QED BY <1>3

-----------------------------------------------------------------------------
(* Processes.                                                              *)

ShInterps(X) ==
    [stack : X, mode : {"call", "back"}, ret : Bytes, flow : Flows, flow_count : Nat,
     exit_status : Bytes, last_status : Bytes, opt_errexit : BOOLEAN, loop_depth : Nat,
     func_depth : Nat, pending : BOOLEAN, exit_trap : BOOLEAN, fuel : Nat]

Typed(s) == \E X : s \in ShInterps(X)

\* The interpreter's counters say the level v.
Counts(s, v) ==
    /\ s.loop_depth = v.now.loops /\ s.func_depth = v.now.functions /\ s.opt_errexit = v.now.errexit
    /\ s.flow \in {"BREAK", "CONTINUE"} => s.flow_count \in 1 .. v.now.bodies
    /\ s.flow = "RETURN" => v.now.functions > 0

ModeOK(s) ==
    /\ s.stack # <<>> /\ s.mode = "back" => Waiting(Head(s.stack))
    /\ s.stack # <<>> /\ s.mode = "call" /\ Head(s.stack).k = "loop" => Head(s.stack).at = "start"

\* The process s, forked at base, is at the level v.
ProcOK(s, base, v) == Typed(s) /\ Well(s.stack, base, v) /\ Counts(s, v) /\ ModeOK(s)

\* What is below the call on top of s is at the level u.
Below(s, base, u) ==
    /\ Typed(s) /\ s.stack # <<>> /\ Well(Tail(s.stack), base, u)
    /\ Tail(s.stack) = <<>> \/ Waiting(Head(Tail(s.stack)))

\* The process s, forked at base, is all right where it now is; what was so where it waits, is.
Goes(s, base, v) ==
    \E w \in States : ProcOK(s, base, w) /\ w.waits = v.waits /\ w.wait = v.wait

LEMMA LevelTypes ==
  ASSUME NEW v \in States
  PROVE  /\ v.now.loops \in Nat /\ v.now.bodies \in Nat /\ v.now.functions \in Nat
         /\ v.now.bodies <= v.now.loops /\ v.now.errexit \in BOOLEAN
         /\ v.now \in Levels /\ v.waits \in BOOLEAN /\ v.wait \in Levels
BY DEF States, Levels

LEMMA InsidePlain ==
  ASSUME NEW v \in States, NEW f, f.k \in {"program", "command", "pipeline", "body", "trap", "main"}
  PROVE  Inside(f, v) = v
<1>1. ~ Suppressing(f) BY DEF Suppressing
<1>2. Inside(f, v).now = v.now BY <1>1 DEF Inside, States, Levels
<1>3. QED BY <1>2 DEF Inside, States

LEMMA Popped ==
  ASSUME NEW s, NEW base, NEW v, ProcOK(s, base, v), s.stack # <<>>
  PROVE  \E u \in States : v = Inside(Top(s), u) /\ FrameOK(Top(s), u) /\ Below(s, base, u)
<1>1. Well(s.stack, base, v) /\ Typed(s) BY DEF ProcOK
<1>2. QED BY <1>1, Pops DEF Below, Top

LEMMA Returns ==
  ASSUME NEW s, NEW base, NEW u, Below(s, base, u), Counts(s, u), NEW status \in Bytes
  PROVE  ProcOK(Leave(s, status), base, u)
<1>1. PICK X : s \in ShInterps(X) BY DEF Below, Typed
<1>2. PICK t : t = Leave(s, status) OBVIOUS
<1>3. t \in ShInterps({Tail(s.stack)}) BY <1>1, <1>2 DEF Leave, ShInterps
<1>4. t.stack = Tail(s.stack) /\ t.mode = "back" BY <1>1, <1>2 DEF Leave, ShInterps
<1>5. Counts(t, u) BY <1>1, <1>2 DEF Leave, ShInterps, Counts
<1>6. QED BY <1>2, <1>3, <1>4, <1>5 DEF ProcOK, Typed, Below, ModeOK

LEMMA Ends ==
  ASSUME NEW s, NEW base, NEW u, Below(s, base, u), Counts(s, u), NEW status \in Bytes,
         NEW exempt
  PROVE  ProcOK(EndCommand(s, exempt, status), base, u)
<1>1. PICK t : t = Leave(s, status) OBVIOUS
<1>2. ProcOK(t, base, u) BY <1>1, Returns
<1>3. PICK X : t \in ShInterps(X) BY <1>2 DEF ProcOK, Typed
<1>4. PICK e : e = EndCommand(s, exempt, status) OBVIOUS
<1>5. PICK fires \in BOOLEAN :
        fires <=> s.opt_errexit /\ status # 0 /\ s.flow = "NONE" /\ ~exempt
  OBVIOUS
<1>6. e = [t EXCEPT !.last_status = status,
                    !.flow = IF fires THEN "EXIT" ELSE @,
                    !.exit_status = IF fires THEN status ELSE @]
  BY <1>1, <1>4, <1>5 DEF EndCommand
<1>7. e \in ShInterps({t.stack}) /\ e.stack = t.stack /\ e.mode = t.mode
  BY <1>3, <1>6 DEF ShInterps, Flows
<1>8. Counts(e, u) BY <1>2, <1>3, <1>6 DEF ShInterps, Counts, ProcOK
<1>9. QED BY <1>2, <1>4, <1>7, <1>8 DEF ProcOK, Typed, ModeOK

\* The function whose frame is put in the place of the top one.
LEMMA Becoming ==
  ASSUME NEW s, NEW base, NEW u, Below(s, base, u), NEW f, FrameOK(f, u)
  PROVE  LET st == <<f>> \o Tail(s.stack) IN
         Well(st, base, Inside(f, u)) /\ Head(st) = f /\ st # <<>>
BY Pushes, TopOfStack DEF Below

\* The function whose frame is put on top of a stack is about to begin.
LEMMA Calls ==
  ASSUME NEW t, NEW st, NEW base, NEW v, Typed(t), Well(st, base, v), st = <<>> \/ Waiting(Head(st)),
         NEW g, g.k \in {"program", "command"}, FrameOK(g, v),
         t.stack = <<g>> \o st, t.mode = "call", Counts(t, v)
  PROVE  ProcOK(t, base, v)
<1>1. v \in States BY TopIsState
<1>2. Inside(g, v) = v BY <1>1, InsidePlain
<1>3. Well(t.stack, base, v) BY <1>2, Pushes
<1>4. Head(t.stack) = g BY TopOfStack
<1>5. QED BY <1>3, <1>4 DEF ProcOK, ModeOK

-----------------------------------------------------------------------------
(* Trees.                                                                  *)

Wider(v, w) ==
    v.now.bodies <= w.now.bodies /\ (v.now.functions > 0 => w.now.functions > 0)

LEMMA StandsLegal ==
  ASSUME ScriptsAssumption, NEW c, NEW l, NEW g, Stands(c, l, g)
  PROVE  l \in Nat /\ g \in BOOLEAN /\ Legal(c, l, g)
<1>1. PICK node \in Nodes : <<c, l, g>> = <<node.c, node.loops, node.in_function>> BY DEF Stands, Places
<1>2. c = node.c /\ l = node.loops /\ g = node.in_function BY <1>1
<1>3. QED BY <1>2 DEF ScriptsAssumption

LEMMA WiderOK ==
  ASSUME NEW v \in States, NEW w \in States, Wider(v, w), NEW x
  PROVE  (CommandOK(x, v) => CommandOK(x, w)) /\ (ListOK(x, v) => ListOK(x, w))
<1>1. v.now.bodies \in Nat /\ w.now.bodies \in Nat /\ v.now.bodies <= w.now.bodies
  BY LevelTypes DEF Wider
<1>2. \A l \in 0 .. v.now.bodies : l \in 0 .. w.now.bodies BY <1>1
<1>3. QED BY <1>2 DEF CommandOK, ListOK, Wider

LEMMA InsideWider ==
  ASSUME NEW v \in States, NEW f
  PROVE  Wider(v, Inside(f, v))
<1>1. v.now.bodies \in Nat /\ v.now.functions \in Nat BY LevelTypes
<1>2. QED BY <1>1 DEF Wider, Inside

LEMMA ElementOK ==
  ASSUME NEW v \in States, NEW list, ListOK(list, v)
  PROVE  list \in Seq(Trees) /\ \A i \in 1 .. Len(list) : CommandOK(list[i], v)
BY DEF ListOK, IsList, CommandOK

LEMMA ScriptListsOK ==
  ASSUME ScriptsAssumption, script \in Scripts, NEW v \in States
  PROVE  ListOK(script.list, v) /\ ListOK(script.trap, v) /\ ListOK(script.exit_trap, v)
<1>1. 0 \in 0 .. v.now.bodies BY LevelTypes
<1>2. QED BY <1>1 DEF ScriptsAssumption, ListOK

LEMMA SimpleParts ==
  ASSUME ScriptsAssumption, NEW v \in States, NEW c, CommandOK(c, v), c.t = "simple"
  PROVE  /\ c.op = "status" => c.n \in Bytes
         /\ c.op \in {"return", "exit"} => c.n \in Bytes \cup {NoArg}
         /\ c.op \in {"break", "continue"} => c.n \in 1 .. v.now.bodies
         /\ c.op = "return" => v.now.functions > 0
<1>1. PICK l \in 0 .. v.now.bodies, g \in BOOLEAN : Stands(c, l, g) /\ (g => v.now.functions > 0)
  BY DEF CommandOK
<1>2. Legal(c, l, g) BY <1>1, StandsLegal
<1>3. \A n \in 1 .. l : n \in 1 .. v.now.bodies BY LevelTypes
<1>4. QED BY <1>1, <1>2, <1>3 DEF Legal, Bytes

LEMMA CommandParts ==
  ASSUME ScriptsAssumption, NEW v \in States, NEW c, CommandOK(c, v)
  PROVE  /\ c.t \in {"simple", "call", "pipe", "logical", "group", "subshell", "case", "if", "loop"}
         /\ c.t = "pipe" => c.negated \in BOOLEAN /\ CommandOK(c.cmd, v)
         /\ c.t = "logical" =>
              /\ c.pipelines \in Seq(Trees) /\ c.pipelines # <<>>
              /\ \A i \in 1 .. Len(c.pipelines) :
                    c.pipelines[i].negated \in BOOLEAN /\ CommandOK(c.pipelines[i].cmd, v)
         /\ c.t \in {"group", "subshell", "case"} => ListOK(c.body, v)
         /\ c.t = "if" => CommandOK(c.cond, v) /\ ListOK(c.then, v) /\ ListOK(c.else, v)
         /\ c.t = "loop" => c.n \in Nat /\ CommandOK(c.cond, v)
<1>1. PICK l \in 0 .. v.now.bodies, g \in BOOLEAN : Stands(c, l, g) /\ (g => v.now.functions > 0)
  BY DEF CommandOK
<1>2. Legal(c, l, g) /\ l \in Nat BY <1>1, StandsLegal
<1>3. \A d : Stands(d, l, g) => CommandOK(d, v) BY <1>1 DEF CommandOK
<1>4. \A list : IsList(list, l, g) => ListOK(list, v) BY <1>1 DEF ListOK
<1>5. CASE c.t = "logical"
  <2>1. c.pipelines \in Seq(Trees) /\ c.pipelines # <<>> BY <1>2, <1>5 DEF Legal, IsList
  <2>2. ASSUME NEW i \in 1 .. Len(c.pipelines)
        PROVE  c.pipelines[i].negated \in BOOLEAN /\ CommandOK(c.pipelines[i].cmd, v)
    <3>1. Stands(c.pipelines[i], l, g) /\ c.pipelines[i].t = "pipe" BY <1>2, <1>5 DEF Legal, IsList
    <3>2. Legal(c.pipelines[i], l, g) BY <3>1, StandsLegal
    <3>3. QED BY <3>1, <3>2, <1>3 DEF Legal
  <2>3. QED BY <1>5, <2>1, <2>2
<1>6. CASE c.t # "logical" BY <1>2, <1>3, <1>4, <1>6 DEF Legal
<1>7. QED BY <1>5, <1>6

\* The body of a loop stands in one loop more, that of a function in a function.
LEMMA LoopBody ==
  ASSUME ScriptsAssumption, NEW v \in States, NEW c, CommandOK(c, v), c.t = "loop",
         NEW w \in States, w.now.bodies = v.now.bodies + 1, w.now.functions = v.now.functions
  PROVE  ListOK(c.body, w)
<1>1. PICK l \in 0 .. v.now.bodies, g \in BOOLEAN : Stands(c, l, g) /\ (g => v.now.functions > 0)
  BY DEF CommandOK
<1>2. IsList(c.body, l + 1, g) BY <1>1, StandsLegal DEF Legal
<1>3. l + 1 \in 0 .. w.now.bodies BY <1>1, LevelTypes
<1>4. QED BY <1>1, <1>2, <1>3 DEF ListOK

LEMMA FunctionBody ==
  ASSUME ScriptsAssumption, NEW v \in States, NEW c, CommandOK(c, v), c.t = "call",
         NEW w \in States, w.now.bodies = v.now.bodies, w.now.functions > 0
  PROVE  ListOK(c.body, w)
<1>1. PICK l \in 0 .. v.now.bodies, g \in BOOLEAN : Stands(c, l, g) /\ (g => v.now.functions > 0)
  BY DEF CommandOK
<1>2. IsList(c.body, l, TRUE) BY <1>1, StandsLegal DEF Legal
<1>3. QED BY <1>1, <1>2 DEF ListOK

-----------------------------------------------------------------------------
(* Lists of commands and traps.                                            *)

LEMMA TrapStarts ==
  ASSUME ScriptsAssumption, script \in Scripts,
         NEW t, NEW base, NEW v, Typed(t), Well(t.stack, base, v),
         t.stack = <<>> \/ Waiting(Head(t.stack)), Counts(t, v)
  PROVE  ProcOK(RunTrap(t), base, v)
<1>1. PICK X : t \in ShInterps(X) BY DEF Typed
<1>2. v \in States BY TopIsState
<1> DEFINE f == TrapFrame(t.last_status)
           st == <<f>> \o t.stack
           g == ProgramFrame(script.trap)
<1>3. FrameOK(f, v) /\ Waiting(f) /\ f.k = "trap" BY <1>1 DEF TrapFrame, FrameOK, Waiting, Kinds, ShInterps
<1>4. Well(st, base, v) /\ Head(st) = f BY <1>2, <1>3, Pushes, InsidePlain, TopOfStack
<1>5. ListOK(script.trap, v) /\ script.trap \in Seq(Trees) BY <1>2, ScriptListsOK, ElementOK
<1>6. script.trap = <<>> \/ 1 \in 1 .. Len(script.trap) BY <1>5
<1>7. FrameOK(g, v) /\ g.k = "program" BY <1>5, <1>6 DEF ProgramFrame, FrameOK, Kinds, Bytes
<1>8. RunTrap(t) = [t EXCEPT !.stack = <<g>> \o st, !.mode = "call", !.pending = FALSE]
  BY <1>1 DEF RunTrap, Call, ShInterps
<1> HIDE DEF f, st, g
<1>9. PICK r : r = RunTrap(t) OBVIOUS
<1>10. r \in ShInterps({<<g>> \o st}) /\ r.stack = <<g>> \o st /\ r.mode = "call"
  BY <1>1, <1>8, <1>9 DEF ShInterps
<1>11. Counts(r, v) BY <1>1, <1>8, <1>9 DEF ShInterps, Counts
<1>12. ProcOK(r, base, v) BY <1>3, <1>4, <1>7, <1>10, <1>11, Calls DEF Typed
<1>13. QED BY <1>9, <1>12

LEMMA NextCommandOK ==
  ASSUME ScriptsAssumption,
         NEW s, NEW base, NEW u, Below(s, base, u), Counts(s, u), u \in States,
         Top(s).k = "program", FrameOK(Top(s), u), Waiting(Top(s)), NEW status \in Bytes
  PROVE  ProcOK(NextCommand(s, status), base, u)
<1>1. PICK X : s \in ShInterps(X) BY DEF Below, Typed
<1>2. CASE Top(s).i = Len(Top(s).list) BY <1>2, Returns DEF NextCommand
<1>3. CASE Top(s).i # Len(Top(s).list)
  <2> DEFINE i == Top(s).i + 1
             f == [Top(s) EXCEPT !.i = i, !.at = "command"]
             st == <<f>> \o Tail(s.stack)
             g == CommandFrame(Top(s).list[i])
  <2>1. PICK L : Top(s) \in [k : {"program"}, list : L, i : Nat, st : Bytes, at : {"command", "trap"}]
    BY DEF FrameOK
  <2>0. ListOK(Top(s).list, u) /\ Top(s).list # <<>> /\ Top(s).i \in 1 .. Len(Top(s).list)
    BY DEF FrameOK, Waiting
  <2>2. Top(s).list \in Seq(Trees) /\ \A j \in 1 .. Len(Top(s).list) : CommandOK(Top(s).list[j], u)
    BY <2>0, ElementOK
  <2>3. i \in 1 .. Len(Top(s).list) /\ i \in Nat BY <2>0, <2>2, <1>3
  <2> HIDE DEF i
  <2>4. /\ f \in [k : {"program"}, list : L, i : Nat, st : Bytes, at : {"command", "trap"}]
        /\ f.list = Top(s).list /\ f.i = i
    BY <2>1, <2>3
  <2>14. FrameOK(f, u) /\ Waiting(f) /\ f.k = "program" BY <2>0, <2>3, <2>4 DEF FrameOK, Waiting, Kinds
  <2> HIDE DEF f
  <2>15. Inside(f, u) = u BY <2>14, InsidePlain
  <2>5. Well(st, base, u) /\ Head(st) = f BY <2>14, <2>15, Becoming
  <2>6. FrameOK(g, u) /\ g.k = "command" BY <2>2, <2>3 DEF FrameOK, CommandFrame, Kinds
  <2>8. NextCommand(s, status) = [s EXCEPT !.stack = <<g>> \o st, !.mode = "call"]
    BY <1>1, <1>3 DEF NextCommand, Call, Become, ShInterps, i, f
  <2> HIDE DEF st, g
  <2>9. PICK r : r = NextCommand(s, status) OBVIOUS
  <2>10. r \in ShInterps({<<g>> \o st}) /\ r.stack = <<g>> \o st /\ r.mode = "call"
    BY <1>1, <2>8, <2>9 DEF ShInterps
  <2>11. Counts(r, u) BY <1>1, <2>8, <2>9 DEF ShInterps, Counts
  <2>12. ProcOK(r, base, u) BY <2>14, <2>5, <2>6, <2>10, <2>11, Calls DEF Typed
  <2>13. QED BY <2>9, <2>12
<1>4. QED BY <1>2, <1>3

LEMMA BecomeFields ==
  ASSUME NEW s, Typed(s), NEW f, NEW t, t = Become(s, f)
  PROVE  /\ Typed(t) /\ t.stack = <<f>> \o Tail(s.stack)
         /\ t.mode = s.mode /\ t.ret = s.ret /\ t.flow = s.flow /\ t.flow_count = s.flow_count
         /\ t.exit_status = s.exit_status /\ t.last_status = s.last_status
         /\ t.opt_errexit = s.opt_errexit /\ t.loop_depth = s.loop_depth
         /\ t.func_depth = s.func_depth /\ t.pending = s.pending
         /\ t.exit_trap = s.exit_trap /\ t.fuel = s.fuel
<1>1. PICK X : s \in ShInterps(X) BY DEF Typed
<1>2. PICK st : st = <<f>> \o Tail(s.stack) OBVIOUS
<1>3. t = [s EXCEPT !.stack = st] BY <1>1, <1>2 DEF Become, ShInterps
<1>4. t \in ShInterps({st}) BY <1>1, <1>3 DEF ShInterps
<1>5. /\ t.stack = st /\ t.mode = s.mode /\ t.ret = s.ret /\ t.flow = s.flow
      /\ t.flow_count = s.flow_count /\ t.exit_status = s.exit_status
      /\ t.last_status = s.last_status /\ t.opt_errexit = s.opt_errexit
      /\ t.loop_depth = s.loop_depth /\ t.func_depth = s.func_depth /\ t.pending = s.pending
      /\ t.exit_trap = s.exit_trap /\ t.fuel = s.fuel
  BY <1>1, <1>3 DEF ShInterps
<1>6. QED BY <1>2, <1>4, <1>5 DEF Typed

LEMMA GoesAtLevel ==
  ASSUME NEW t, NEW base, NEW v, ProcOK(t, base, v)
  PROVE  Goes(t, base, v)
BY TopIsState DEF Goes, ProcOK

LEMMA ProgramStep ==
  ASSUME ScriptsAssumption, script \in Scripts,
         NEW s, NEW base, NEW v, ProcOK(s, base, v), s.stack # <<>>, Top(s).k = "program"
  PROVE  Goes(shRunProgram(s), base, v)
<1>1. PICK X : s \in ShInterps(X) BY DEF ProcOK, Typed
<1>2. PICK u \in States : v = Inside(Top(s), u) /\ FrameOK(Top(s), u) /\ Below(s, base, u)
  BY Popped
<1>3. v = u /\ Counts(s, u) BY <1>2, InsidePlain DEF ProcOK
<1>4. PICK f : f = Top(s) OBVIOUS
<1>5. PICK L : f \in [k : {"program"}, list : L, i : Nat, st : Bytes, at : {"command", "trap"}]
  BY <1>2, <1>4 DEF FrameOK
<1>6. CASE s.mode = "back"
  <2>1. Waiting(f) BY <1>4, <1>6 DEF ProcOK, ModeOK, Top
  <2>2. PICK status \in Bytes : status = IF f.at = "command" THEN s.ret ELSE f.st
    BY <1>1, <1>5 DEF ShInterps
  <2>3. CASE flowInterrupts(s)
    <3>1. shRunProgram(s) = Leave(s, status) BY <1>4, <1>6, <2>2, <2>3 DEF shRunProgram, ProgramBack
    <3>2. QED BY <3>1, <1>2, <1>3, Returns, GoesAtLevel
  <2>4. CASE ~ flowInterrupts(s) /\ f.at = "command" /\ s.pending
    <3>1. PICK g : g = [f EXCEPT !.at = "trap", !.st = status] OBVIOUS
    <3>2. /\ g \in [k : {"program"}, list : L, i : Nat, st : Bytes, at : {"command", "trap"}]
          /\ g.list = f.list /\ g.i = f.i
      BY <3>1, <1>5
    <3>3. FrameOK(g, u) /\ Waiting(g) /\ g.k = "program" BY <3>2, <2>1, <1>2, <1>4 DEF FrameOK, Waiting, Kinds
    <3>4. Inside(g, u) = u BY <3>3, InsidePlain
    <3>5. PICK t : t = Become(s, g) OBVIOUS
    <3>6. Typed(t) /\ t.stack = <<g>> \o Tail(s.stack) /\ Counts(t, u)
      BY <3>5, <1>1, <1>3, BecomeFields DEF Typed, Counts
    <3>7. Well(t.stack, base, u) /\ Head(t.stack) = g BY <3>3, <3>4, <3>6, <1>2, Becoming
    <3>8. ProcOK(RunTrap(t), base, u) BY <3>3, <3>6, <3>7, TrapStarts DEF Typed
    <3>9. shRunProgram(s) = RunTrap(t)
      BY <1>4, <1>6, <2>2, <2>4, <3>1, <3>5 DEF shRunProgram, ProgramBack
    <3>10. QED BY <3>8, <3>9, <1>3, GoesAtLevel
  <2>5. CASE ~ flowInterrupts(s) /\ ~ (f.at = "command" /\ s.pending)
    <3>1. shRunProgram(s) = NextCommand(s, status)
      BY <1>4, <1>6, <2>2, <2>5 DEF shRunProgram, ProgramBack
    <3>2. Waiting(Top(s)) /\ Top(s).k = "program" BY <2>1, <1>4
    <3>3. ProcOK(NextCommand(s, status), base, u) BY <3>2, <1>2, <1>3, NextCommandOK
    <3>4. QED BY <3>1, <3>3, <1>3, GoesAtLevel
  <2>6. QED BY <2>3, <2>4, <2>5
<1>7. CASE s.mode # "back" /\ f.list = <<>>
  <2>1. shRunProgram(s) = Leave(s, s.last_status) BY <1>4, <1>7 DEF shRunProgram
  <2>2. s.last_status \in Bytes BY <1>1 DEF ShInterps
  <2>3. QED BY <2>1, <2>2, <1>2, <1>3, Returns, GoesAtLevel
<1>8. CASE s.mode # "back" /\ f.list # <<>>
  <2>1. PICK g : g = CommandFrame(f.list[1]) OBVIOUS
  <2>2. f.list \in Seq(Trees) /\ \A i \in 1 .. Len(f.list) : CommandOK(f.list[i], u)
    BY <1>2, <1>4, <1>5, ElementOK DEF FrameOK
  <2>3. 1 \in 1 .. Len(f.list) BY <1>8, <2>2
  <2>4. FrameOK(g, u) /\ g.k = "command" BY <2>1, <2>2, <2>3 DEF FrameOK, CommandFrame, Kinds
  <2>5. PICK r : r = Call(s, g) OBVIOUS
  <2>6. r \in ShInterps({<<g>> \o s.stack}) /\ r.stack = <<g>> \o s.stack /\ r.mode = "call" /\ Counts(r, u)
    BY <2>5, <1>1, <1>3 DEF Call, ShInterps, Counts
  <2>7. Waiting(Head(s.stack)) BY <1>4, <1>5, <1>8 DEF Top, Waiting
  <2>8. Well(s.stack, base, u) BY <1>3 DEF ProcOK
  <2>9. ProcOK(r, base, u) BY <2>4, <2>6, <2>7, <2>8, Calls DEF Typed
  <2>10. shRunProgram(s) = r BY <1>4, <1>8, <2>1, <2>5 DEF shRunProgram
  <2>11. QED BY <2>9, <2>10, <1>3, GoesAtLevel
<1>9. QED BY <1>6, <1>7, <1>8

LEMMA TrapStep ==
  ASSUME NEW s, NEW base, NEW v, ProcOK(s, base, v), s.stack # <<>>, Top(s).k = "trap"
  PROVE  Goes(EndTrap(s), base, v)
<1>1. PICK X : s \in ShInterps(X) BY DEF ProcOK, Typed
<1>2. PICK u \in States : v = Inside(Top(s), u) /\ FrameOK(Top(s), u) /\ Below(s, base, u)
  BY Popped
<1>3. v = u /\ Counts(s, u) BY <1>2, InsidePlain DEF ProcOK
<1>4. PICK t : t = Leave(s, s.ret) OBVIOUS
<1>5. ProcOK(t, base, u) BY <1>1, <1>2, <1>3, <1>4, Returns DEF ShInterps
<1>6. PICK Y : t \in ShInterps(Y) BY <1>5 DEF ProcOK, Typed
<1>7. Top(s).saved \in Bytes BY <1>2 DEF FrameOK
<1>8. PICK r : r = EndTrap(s) OBVIOUS
<1>9. r = [t EXCEPT !.last_status = Top(s).saved] BY <1>4, <1>8 DEF EndTrap
<1>10. r \in ShInterps(Y) /\ r.stack = t.stack /\ r.mode = t.mode /\ Counts(r, u)
  BY <1>5, <1>6, <1>7, <1>9 DEF ShInterps, Counts, ProcOK
<1>11. ProcOK(r, base, u) BY <1>5, <1>10 DEF ProcOK, Typed, ModeOK
<1>12. QED BY <1>3, <1>8, <1>11, GoesAtLevel

-----------------------------------------------------------------------------
(* The pieces of the other steps.                                          *)

LEMMA NewFrames ==
  ASSUME NEW w \in States, NEW x
  PROVE  /\ ListOK(x, w) => FrameOK(ProgramFrame(x), w) /\ ProgramFrame(x).k = "program"
         /\ CommandOK(x, w) => FrameOK(CommandFrame(x), w) /\ CommandFrame(x).k = "command"
<1>1. CommandOK(x, w) => FrameOK(CommandFrame(x), w) /\ CommandFrame(x).k = "command"
  BY DEF FrameOK, CommandFrame, Kinds
<1>2. ASSUME ListOK(x, w) PROVE FrameOK(ProgramFrame(x), w) /\ ProgramFrame(x).k = "program"
  <2>1. x = <<>> \/ 1 \in 1 .. Len(x) BY <1>2, ElementOK
  <2>2. ProgramFrame(x) \in [k : {"program"}, list : {x}, i : Nat, st : Bytes, at : {"command", "trap"}]
    BY DEF ProgramFrame, Bytes
  <2>3. ProgramFrame(x).k = "program" /\ ProgramFrame(x).list = x /\ ProgramFrame(x).i = 1 BY DEF ProgramFrame
  <2>4. QED BY <1>2, <2>1, <2>2, <2>3 DEF FrameOK, Kinds
<1>3. QED BY <1>1, <1>2

LEMMA InsideKeeps ==
  ASSUME NEW f, NEW u \in States, f.k # "waitpid"
  PROVE  Inside(f, u).waits = u.waits /\ Inside(f, u).wait = u.wait
BY DEF Inside

LEMMA CallFields ==
  ASSUME NEW s, Typed(s), NEW g, NEW t, t = Call(s, g)
  PROVE  /\ Typed(t) /\ t.stack = <<g>> \o s.stack
         /\ t.mode = "call" /\ t.flow = s.flow /\ t.flow_count = s.flow_count
         /\ t.opt_errexit = s.opt_errexit /\ t.loop_depth = s.loop_depth
         /\ t.func_depth = s.func_depth
<1>1. PICK X : s \in ShInterps(X) BY DEF Typed
<1>2. PICK st : st = <<g>> \o s.stack OBVIOUS
<1>3. t = [s EXCEPT !.stack = st, !.mode = "call"] BY <1>1, <1>2 DEF Call, ShInterps
<1>8. PICK r : r = [s EXCEPT !.stack = st] OBVIOUS
<1>9. r \in ShInterps({st}) BY <1>1, <1>8 DEF ShInterps
<1>10. t = [r EXCEPT !.mode = "call"] BY <1>1, <1>3, <1>8 DEF ShInterps
<1>4. t \in ShInterps({st}) BY <1>9, <1>10 DEF ShInterps
<1>5. /\ t.stack = st /\ t.mode = "call" /\ t.flow = s.flow /\ t.flow_count = s.flow_count
      /\ t.opt_errexit = s.opt_errexit /\ t.loop_depth = s.loop_depth
      /\ t.func_depth = s.func_depth
  BY <1>1, <1>3 DEF ShInterps
<1>6. QED BY <1>2, <1>4, <1>5 DEF Typed

\* The frame on top becomes f, which calls g.
LEMMA CallBecomeFields ==
  ASSUME NEW s, Typed(s), NEW f, NEW g, NEW t, t = Call(Become(s, f), g)
  PROVE  /\ Typed(t) /\ t.stack = <<g>> \o (<<f>> \o Tail(s.stack))
         /\ t.mode = "call" /\ t.flow = s.flow /\ t.flow_count = s.flow_count
         /\ t.opt_errexit = s.opt_errexit /\ t.loop_depth = s.loop_depth
         /\ t.func_depth = s.func_depth
<1>1. PICK r : r = Become(s, f) OBVIOUS
<1>2. /\ Typed(r) /\ r.stack = <<f>> \o Tail(s.stack) /\ r.flow = s.flow /\ r.flow_count = s.flow_count
      /\ r.opt_errexit = s.opt_errexit /\ r.loop_depth = s.loop_depth /\ r.func_depth = s.func_depth
  BY <1>1, BecomeFields
<1>3. PICK X : r \in ShInterps(X) BY <1>2 DEF Typed
<1>4. PICK st : st = <<g>> \o r.stack OBVIOUS
<1>5. t = [r EXCEPT !.stack = st, !.mode = "call"] BY <1>1, <1>3, <1>4 DEF Call, ShInterps
<1>6. PICK q : q = [r EXCEPT !.stack = st] OBVIOUS
<1>7. q \in ShInterps({st}) BY <1>3, <1>6 DEF ShInterps
<1>8. t = [q EXCEPT !.mode = "call"] BY <1>3, <1>5, <1>6 DEF ShInterps
<1>9. t \in ShInterps({st}) BY <1>7, <1>8 DEF ShInterps
<1>10. /\ t.stack = st /\ t.mode = "call" /\ t.flow = r.flow /\ t.flow_count = r.flow_count
       /\ t.opt_errexit = r.opt_errexit /\ t.loop_depth = r.loop_depth
       /\ t.func_depth = r.func_depth
  BY <1>3, <1>5 DEF ShInterps
<1>11. QED BY <1>2, <1>4, <1>9, <1>10 DEF Typed

LEMMA Descends ==
  ASSUME NEW s, NEW base, NEW u \in States, Below(s, base, u),
         NEW f, FrameOK(f, u), Waiting(f), f.k # "waitpid",
         NEW g, FrameOK(g, Inside(f, u)), g.k \in {"program", "command"},
         NEW t, Typed(t), t.stack = <<g>> \o (<<f>> \o Tail(s.stack)), t.mode = "call",
         Counts(t, Inside(f, u))
  PROVE  Goes(t, base, u)
<1>1. PICK w \in States : w = Inside(f, u) BY InsideState
<1>2. PICK st : st = <<f>> \o Tail(s.stack) OBVIOUS
<1>3. Well(st, base, w) /\ Head(st) = f BY <1>1, <1>2, Becoming
<1>7. Waiting(Head(st)) /\ FrameOK(g, w) /\ Counts(t, w) /\ t.stack = <<g>> \o st BY <1>1, <1>2, <1>3
<1>4. ProcOK(t, base, w) BY <1>3, <1>7, Calls
<1>5. w.waits = u.waits /\ w.wait = u.wait BY <1>1, InsideKeeps
<1>6. QED BY <1>4, <1>5 DEF Goes

LEMMA GoesFrom ==
  ASSUME NEW t, NEW base, NEW u \in States, Goes(t, base, u), NEW f, f.k # "waitpid"
  PROVE  Goes(t, base, Inside(f, u))
BY InsideKeeps DEF Goes

LEMMA EndGoes ==
  ASSUME NEW s, NEW base, NEW u \in States, Below(s, base, u), Counts(s, u), NEW status \in Bytes,
         NEW exempt
  PROVE  Goes(EndCommand(s, exempt, status), base, u)
BY Ends, GoesAtLevel

-----------------------------------------------------------------------------
(* Simple commands and functions.                                          *)

LEMMA SimpleStep ==
  ASSUME ScriptsAssumption,
         NEW s, NEW base, NEW u \in States, Below(s, base, u), Counts(s, u),
         NEW c, CommandOK(c, u), c.t = "simple"
  PROVE  Goes(runSimpleCommand(s, c), base, u)
<1>1. PICK X : s \in ShInterps(X) BY DEF Below, Typed
<1>2. CASE flowInterrupts(s)
  <2>1. s.last_status \in Bytes BY <1>1 DEF ShInterps
  <2>2. runSimpleCommand(s, c) = EndCommand(s, FALSE, s.last_status) BY <1>2 DEF runSimpleCommand
  <2>3. QED BY <2>1, <2>2, EndGoes
<1>3. CASE ~ flowInterrupts(s)
  <2>1. PICK status \in Bytes : status = Status(s, c)
    <3> 0 \in Bytes /\ 1 \in Bytes BY DEF Bytes
    <3>1. s.last_status \in Bytes BY <1>1 DEF ShInterps
    <3>2. /\ c.op = "status" => c.n \in Bytes
          /\ c.op \in {"return", "exit"} /\ c.n # NoArg => c.n \in Bytes
      BY SimpleParts
    <3>3. Status(s, c) \in Bytes BY <3>1, <3>2 DEF Status
    <3>4. QED BY <3>3
  <2>2. PICK flow \in Flows : flow = Flow(s, c) BY DEF Flow, Flows
  <2>3. PICK t : t = [s EXCEPT !.flow = flow,
                    !.flow_count = IF flow \in {"BREAK", "CONTINUE"} THEN c.n ELSE @,
                    !.exit_status = IF flow \in {"RETURN", "EXIT"} THEN status ELSE @,
                    !.fuel = IF c.op = "more" /\ @ > 0 THEN @ - 1 ELSE @]
    OBVIOUS
  <2>4. flow \in {"BREAK", "CONTINUE"} => c.n \in 1 .. u.now.bodies BY <2>2, SimpleParts DEF Flow
  <2>5. flow = "RETURN" => u.now.functions > 0 BY <2>2, SimpleParts DEF Flow
  <2>11. flow \in {"BREAK", "CONTINUE"} => c.n \in Nat BY <2>4
  <2>12. PICK count \in Nat : count = IF flow \in {"BREAK", "CONTINUE"} THEN c.n ELSE s.flow_count
    BY <1>1, <2>11 DEF ShInterps
  <2>13. PICK exit_status \in Bytes :
            exit_status = IF flow \in {"RETURN", "EXIT"} THEN status ELSE s.exit_status
    BY <1>1 DEF ShInterps
  <2>14. PICK fuel \in Nat : fuel = IF c.op = "more" /\ s.fuel > 0 THEN s.fuel - 1 ELSE s.fuel
    BY <1>1 DEF ShInterps
  <2>15. t = [s EXCEPT !.flow = flow, !.flow_count = count, !.exit_status = exit_status, !.fuel = fuel]
    BY <1>1, <2>3, <2>12, <2>13, <2>14 DEF ShInterps
  <2>6. t \in ShInterps(X) BY <1>1, <2>2, <2>12, <2>13, <2>14, <2>15 DEF ShInterps
  <2>7. t.stack = s.stack /\ Counts(t, u) BY <1>1, <2>3, <2>4, <2>5 DEF ShInterps, Counts
  <2>8. Below(t, base, u) BY <2>6, <2>7 DEF Below, Typed
  <2>9. runSimpleCommand(s, c) = EndCommand(t, FALSE, status)
    BY <1>3, <2>1, <2>2, <2>3 DEF runSimpleCommand
  <2>10. QED BY <2>7, <2>8, <2>9, EndGoes
<1>4. QED BY <1>2, <1>3

LEMMA CallStep ==
  ASSUME ScriptsAssumption,
         NEW s, NEW base, NEW u \in States, Below(s, base, u), Counts(s, u),
         NEW c, CommandOK(c, u), c.t = "call"
  PROVE  Goes(callFunction(s, c), base, u)
<1>1. PICK X : s \in ShInterps(X) BY DEF Below, Typed
<1>2. CASE flowInterrupts(s)
  <2>1. s.last_status \in Bytes BY <1>1 DEF ShInterps
  <2>2. callFunction(s, c) = EndCommand(s, FALSE, s.last_status) BY <1>2 DEF callFunction
  <2>3. QED BY <2>1, <2>2, EndGoes
<1>3. CASE ~ flowInterrupts(s)
  <2>1. PICK f : f = FunctionFrame OBVIOUS
  <2>2. FrameOK(f, u) /\ Waiting(f) /\ f.k = "function" BY <2>1 DEF FunctionFrame, FrameOK, Waiting, Kinds
  <2>3. PICK w \in States : w = Inside(f, u) BY InsideState
  <2>4. /\ w.now.bodies = u.now.bodies /\ w.now.functions = u.now.functions + 1
        /\ w.now.loops = u.now.loops /\ w.now.errexit = u.now.errexit
    BY <2>2, <2>3 DEF Inside, Suppressing
  <2>5. w.now.functions > 0 BY <2>4, LevelTypes
  <2>6. ListOK(c.body, w) BY <2>4, <2>5, FunctionBody
  <2>7. PICK g : g = ProgramFrame(c.body) OBVIOUS
  <2>8. FrameOK(g, w) /\ g.k = "program" BY <2>6, <2>7, NewFrames
  <2>9. PICK t : t = Call(Become(s, f), g) OBVIOUS
  <2>10. /\ Typed(t) /\ t.stack = <<g>> \o (<<f>> \o Tail(s.stack)) /\ t.mode = "call"
         /\ t.flow = s.flow /\ t.flow_count = s.flow_count /\ t.opt_errexit = s.opt_errexit
         /\ t.loop_depth = s.loop_depth /\ t.func_depth = s.func_depth
    <3>1. Typed(s) BY DEF Below
    <3>2. QED BY <3>1, <2>9, CallBecomeFields
  <2>11. PICK Y : t \in ShInterps(Y) BY <2>10 DEF Typed
  <2>12. PICK r : r = [t EXCEPT !.func_depth = @ + 1] OBVIOUS
  <2>18. r \in ShInterps(Y) BY <2>11, <2>12 DEF ShInterps
  <2>19. r.stack = t.stack /\ r.mode = t.mode BY <2>11, <2>12 DEF ShInterps
  <2>13. r \in ShInterps(Y) /\ r.stack = t.stack /\ r.mode = "call" BY <2>10, <2>18, <2>19
  <2>14. Counts(r, w)
    <3>1. r.flow = s.flow /\ r.flow_count = s.flow_count /\ r.func_depth = s.func_depth + 1
          /\ r.loop_depth = s.loop_depth /\ r.opt_errexit = s.opt_errexit
      BY <2>10, <2>11, <2>12 DEF ShInterps
    <3>2. QED BY <3>1, <2>4, <2>5 DEF Counts
  <2>15. callFunction(s, c) = r BY <1>3, <2>1, <2>7, <2>9, <2>12 DEF callFunction
  <2>16. Goes(r, base, u) BY <2>2, <2>3, <2>8, <2>10, <2>13, <2>14, Descends DEF Typed
  <2>17. QED BY <2>15, <2>16
<1>4. QED BY <1>2, <1>3

LEMMA FunctionStep ==
  ASSUME NEW s, NEW base, NEW u \in States, Below(s, base, u), Top(s).k = "function",
         Counts(s, Inside(Top(s), u))
  PROVE  Goes(EndFunction(s), base, u)
<1>1. PICK X : s \in ShInterps(X) BY DEF Below, Typed
<1>2. PICK w : w = Inside(Top(s), u) OBVIOUS
<1>3. /\ w.now.bodies = u.now.bodies /\ w.now.functions = u.now.functions + 1
      /\ w.now.loops = u.now.loops /\ w.now.errexit = u.now.errexit
  BY <1>2 DEF Inside, Suppressing
<1>4. u.now.functions \in Nat BY LevelTypes
<1>5. PICK returned \in BOOLEAN : returned <=> s.flow = "RETURN" OBVIOUS
<1>6. PICK status \in Bytes : status = IF returned THEN s.exit_status ELSE s.ret
  BY <1>1 DEF ShInterps
<1>7. PICK depth \in Nat : depth = s.func_depth - 1 /\ depth = u.now.functions
  BY <1>2, <1>3, <1>4 DEF Counts
<1>8. PICK t : t = [s EXCEPT !.func_depth = depth, !.flow = IF returned THEN "NONE" ELSE @] OBVIOUS
<1>9. t \in ShInterps(X) /\ t.stack = s.stack BY <1>1, <1>7, <1>8 DEF ShInterps, Flows
<1>10. /\ t.func_depth = depth /\ t.flow_count = s.flow_count /\ t.loop_depth = s.loop_depth
       /\ t.opt_errexit = s.opt_errexit /\ t.flow = IF returned THEN "NONE" ELSE s.flow
  BY <1>1, <1>8 DEF ShInterps
<1>11. Counts(t, u) BY <1>2, <1>3, <1>5, <1>7, <1>10 DEF Counts
<1>12. Below(t, base, u) BY <1>9 DEF Below, Typed
<1>13. EndFunction(s) = EndCommand(t, FALSE, status)
  BY <1>1, <1>5, <1>6, <1>7, <1>8 DEF EndFunction, ShInterps
<1>14. QED BY <1>11, <1>12, <1>13, EndGoes

-----------------------------------------------------------------------------
(* Pipelines and and-or lists.                                             *)

LEMMA PipelineStep ==
  ASSUME NEW s, NEW base, NEW u \in States, Below(s, base, u), Counts(s, u)
  PROVE  Goes(EndElement(s), base, u) /\ Goes(EndPipeline(s), base, u)
<1>1. PICK X : s \in ShInterps(X) BY DEF Below, Typed
<1>2. PICK status \in Bytes : status = IF Top(s).negated THEN (IF s.ret = 0 THEN 1 ELSE 0) ELSE s.ret
  BY <1>1 DEF ShInterps, Bytes
<1>3. EndPipeline(s) = EndCommand(s, Top(s).negated, status) BY <1>2 DEF EndPipeline
<1>4. PICK t : t = Leave(s, status) OBVIOUS
<1>5. ProcOK(t, base, u) BY <1>4, Returns
<1>6. PICK Y : t \in ShInterps(Y) BY <1>5 DEF ProcOK, Typed
<1>7. PICK r : r = [t EXCEPT !.last_status = status] OBVIOUS
<1>8. r \in ShInterps(Y) /\ r.stack = t.stack /\ r.mode = t.mode /\ Counts(r, u)
  BY <1>2, <1>5, <1>6, <1>7 DEF ShInterps, Counts, ProcOK
<1>9. ProcOK(r, base, u) BY <1>5, <1>8 DEF ProcOK, Typed, ModeOK
<1>10. EndElement(s) = r BY <1>2, <1>4, <1>7 DEF EndElement
<1>11. QED BY <1>3, <1>9, <1>10, EndGoes, GoesAtLevel

\* RunElement, from the level under the and-or list.
LEMMA ElementRuns ==
  ASSUME ScriptsAssumption,
         NEW s, NEW base, NEW u \in States, Below(s, base, u),
         s.loop_depth = u.now.loops, s.func_depth = u.now.functions,
         s.flow \in {"BREAK", "CONTINUE"} => s.flow_count \in 1 .. u.now.bodies,
         s.flow = "RETURN" => u.now.functions > 0,
         NEW f, NEW C, f \in [k : {"logical"}, c : C, i : Nat, st : {0}, saved : BOOLEAN],
         CommandOK(f.c, u), f.c.t = "logical", f.saved = u.now.errexit,
         NEW i \in 1 .. Len(f.c.pipelines)
  PROVE  Goes(RunElement(s, f, i), base, u)
<1>1. PICK n \in Nat : n = Len(f.c.pipelines) BY CommandParts
<1>2. PICK g : g = [f EXCEPT !.i = i] OBVIOUS
<1>3. i \in Nat /\ i \in 1 .. n BY <1>1
<1>4. g \in [k : {"logical"}, c : C, i : Nat, st : {0}, saved : BOOLEAN] /\ g.i = i /\ g.c = f.c /\ g.saved = f.saved
  BY <1>2, <1>3
<1>5. g.k = "logical" /\ FrameOK(g, u) /\ Waiting(g) BY <1>4, <1>1, <1>3 DEF FrameOK, Waiting, Kinds
<1>6. PICK w \in States : w = Inside(g, u) BY InsideState
<1>7. PICK e \in BOOLEAN : e <=> f.saved /\ i = n OBVIOUS
<1>8. /\ w.now.bodies = u.now.bodies /\ w.now.functions = u.now.functions
      /\ w.now.loops = u.now.loops /\ w.now.errexit = e
  <2>1. Suppressing(g) <=> i < n BY <1>1, <1>4, <1>5 DEF Suppressing
  <2>2. w.now.errexit = IF Suppressing(g) THEN FALSE ELSE u.now.errexit BY <1>6 DEF Inside
  <2>3. e = IF Suppressing(g) THEN FALSE ELSE u.now.errexit
    <3>1. u.now.errexit \in BOOLEAN BY LevelTypes
    <3>2. CASE i = n
      <4>1. ~ (i < n) BY <3>2, <1>1
      <4>2. e = u.now.errexit BY <3>1, <3>2, <1>7
      <4>3. QED BY <4>1, <4>2, <2>1
    <3>3. CASE i # n
      <4>1. i < n BY <3>3, <1>3
      <4>2. e = FALSE BY <3>3, <1>7
      <4>3. QED BY <4>1, <4>2, <2>1
    <3>4. QED BY <3>2, <3>3
  <2>4. QED BY <1>5, <1>6, <2>2, <2>3 DEF Inside
<1>9. /\ f.c.pipelines[i].negated \in BOOLEAN /\ CommandOK(f.c.pipelines[i].cmd, u) BY CommandParts
<1>10. CommandOK(f.c.pipelines[i].cmd, w) BY <1>6, <1>9, InsideWider, WiderOK
<1>11. PICK h : h = PipelineFrame(f.c.pipelines[i]) OBVIOUS
<1>12. h.k = "pipeline" /\ FrameOK(h, w) /\ Waiting(h) BY <1>11 DEF PipelineFrame, FrameOK, Waiting, Kinds
<1>13. PICK cmd : cmd = CommandFrame(f.c.pipelines[i].cmd) OBVIOUS
<1>14. FrameOK(cmd, w) /\ cmd.k = "command" BY <1>10, <1>13, NewFrames
<1>15. PICK st : st = <<g>> \o Tail(s.stack) OBVIOUS
<1>16. Well(st, base, w) /\ Head(st) = g /\ st # <<>> BY <1>5, <1>6, <1>15, Becoming
<1>17. PICK st2 : st2 = <<h>> \o st OBVIOUS
<1>18. Well(st2, base, w) /\ Head(st2) = h
  <2>1. Inside(h, w) = w BY <1>12, InsidePlain
  <2>2. Waiting(Head(st)) BY <1>5, <1>16
  <2>3. QED BY <2>1, <2>2, <1>12, <1>16, <1>17, Pushes, TopOfStack
<1>19. PICK t : t = Call(Become(s, g), h) OBVIOUS
<1>20. /\ Typed(t) /\ t.stack = st2 /\ t.flow = s.flow /\ t.flow_count = s.flow_count
       /\ t.loop_depth = s.loop_depth /\ t.func_depth = s.func_depth
  <2>1. Typed(s) BY DEF Below
  <2>2. /\ Typed(t) /\ t.stack = <<h>> \o (<<g>> \o Tail(s.stack))
        /\ t.mode = "call" /\ t.flow = s.flow /\ t.flow_count = s.flow_count
        /\ t.opt_errexit = s.opt_errexit /\ t.loop_depth = s.loop_depth
        /\ t.func_depth = s.func_depth
    BY <2>1, <1>19, CallBecomeFields, SMTT(60)
  <2>3. QED BY <2>2, <1>15, <1>17
<1>21. PICK q : q = Call(t, cmd) OBVIOUS
<1>22. /\ Typed(q) /\ q.stack = <<cmd>> \o st2 /\ q.mode = "call" /\ q.flow = s.flow /\ q.flow_count = s.flow_count
       /\ q.loop_depth = s.loop_depth /\ q.func_depth = s.func_depth
  BY <1>20, <1>21, CallFields
<1>23. PICK Y : q \in ShInterps(Y) BY <1>22 DEF Typed
<1>24. PICK r : r = [q EXCEPT !.opt_errexit = e] OBVIOUS
<1>25. r \in ShInterps(Y) BY <1>7, <1>23, <1>24 DEF ShInterps
<1>26. /\ r.stack = q.stack /\ r.mode = q.mode /\ r.flow = q.flow /\ r.flow_count = q.flow_count
       /\ r.loop_depth = q.loop_depth /\ r.func_depth = q.func_depth /\ r.opt_errexit = e
  BY <1>23, <1>24 DEF ShInterps
<1>27. Counts(r, w) BY <1>8, <1>22, <1>26 DEF Counts
<1>28. ProcOK(r, base, w)
  <2>1. Typed(r) /\ r.stack = <<cmd>> \o st2 /\ r.mode = "call" BY <1>22, <1>25, <1>26 DEF Typed
  <2>2. Waiting(Head(st2)) BY <1>12, <1>18
  <2>3. QED BY <2>1, <2>2, <1>14, <1>18, <1>27, Calls
<1>29. RunElement(s, f, i) = r
  <2>1. e = (f.saved /\ i = Len(f.c.pipelines)) BY <1>1, <1>7
  <2>2. QED BY <2>1, <1>2, <1>11, <1>13, <1>19, <1>21, <1>24 DEF RunElement
<1>30. w.waits = u.waits /\ w.wait = u.wait BY <1>5, <1>6, InsideKeeps
<1>31. QED BY <1>28, <1>29, <1>30 DEF Goes

LEMMA MinOfNaturals ==
  ASSUME NEW S \in SUBSET Nat, S # {}
  PROVE  \E x \in S : \A y \in S : x <= y
<1>1. PICK x \in S : \A y \in S : ~ (<<y, x>> \in OpToRel(<, Nat))
  BY WFMin, NatLessThanWellFounded
<1>2. \A y \in S : ~ (y < x) BY <1>1 DEF OpToRel
<1>3. QED BY <1>2

\* The connectors lead to an element of the list, or one past its end.
LEMMA NextElementOK ==
  ASSUME NEW c, NEW n \in Nat, n = Len(c.pipelines), NEW i \in 1 .. n, NEW status
  PROVE  NextElement(c, i, status) \in 1 .. n + 1
<1> DEFINE Runs(j) == c.connectors[j] = "AND" <=> status = 0
           S == {j \in i + 1 .. n + 1 : j > n \/ Runs(j)}
<1>1. n + 1 \in S OBVIOUS
<1>2. S \in SUBSET Nat /\ S # {} BY <1>1
<1>3. PICK j \in S : \A k \in S : j <= k BY <1>2, MinOfNaturals
<1>4. j \in i + 1 .. n + 1 /\ (j > n \/ Runs(j)) OBVIOUS
<1>5. \A k \in i + 1 .. j - 1 : ~ Runs(k)
  <2> SUFFICES ASSUME NEW k \in i + 1 .. j - 1, Runs(k) PROVE FALSE OBVIOUS
  <2>1. k \in i + 1 .. n + 1 /\ k < j BY <1>4
  <2>2. k \in S BY <2>1
  <2> HIDE DEF S
  <2>3. QED BY <2>1, <2>2, <1>3, <1>4
<1>6. \E m \in i + 1 .. n + 1 : (m > n \/ Runs(m)) /\ \A k \in i + 1 .. m - 1 : ~ Runs(k)
  BY <1>4, <1>5
<1> HIDE DEF Runs
<1>7. NextElement(c, i, status)
        = CHOOSE m \in i + 1 .. n + 1 : (m > n \/ Runs(m)) /\ \A k \in i + 1 .. m - 1 : ~ Runs(k)
  BY DEF NextElement, Runs
<1>8. NextElement(c, i, status) \in i + 1 .. n + 1 BY <1>6, <1>7
<1>9. QED BY <1>8

LEMMA LogicalStep ==
  ASSUME ScriptsAssumption,
         NEW s, NEW base, NEW u \in States, Below(s, base, u), Top(s).k = "logical",
         FrameOK(Top(s), u), Counts(s, Inside(Top(s), u))
  PROVE  Goes(LogicalBack(s), base, u)
<1>1. PICK X : s \in ShInterps(X) BY DEF Below, Typed
<1>2. PICK f : f = Top(s) OBVIOUS
<1>3. PICK C : f \in [k : {"logical"}, c : C, i : Nat, st : {0}, saved : BOOLEAN]
  BY <1>2 DEF FrameOK
<1>4. /\ CommandOK(f.c, u) /\ f.c.t = "logical" /\ f.i \in 1 .. Len(f.c.pipelines)
      /\ f.saved = u.now.errexit
  BY <1>2 DEF FrameOK
<1>5. PICK n \in Nat : n = Len(f.c.pipelines) BY <1>4, CommandParts
<1>6. PICK next \in 1 .. n + 1 : next = NextElement(f.c, f.i, s.ret) BY <1>4, <1>5, NextElementOK
<1>7. /\ s.loop_depth = u.now.loops /\ s.func_depth = u.now.functions
      /\ s.flow \in {"BREAK", "CONTINUE"} => s.flow_count \in 1 .. u.now.bodies
      /\ s.flow = "RETURN" => u.now.functions > 0
  BY DEF Counts, Inside
<1>8. CASE flowInterrupts(s) \/ next > n
  <2>1. PICK t : t = [s EXCEPT !.opt_errexit = f.saved] OBVIOUS
  <2>2. t \in ShInterps(X) /\ t.stack = s.stack BY <1>1, <1>3, <2>1 DEF ShInterps
  <2>3. /\ t.loop_depth = s.loop_depth /\ t.func_depth = s.func_depth /\ t.flow = s.flow
        /\ t.flow_count = s.flow_count /\ t.opt_errexit = f.saved
    BY <1>1, <2>1 DEF ShInterps
  <2>4. Counts(t, u) BY <1>4, <1>7, <2>3 DEF Counts
  <2>5. Below(t, base, u) BY <2>2 DEF Below, Typed
  <2>6. LogicalBack(s) = EndCommand(t, FALSE, s.ret)
    BY <1>2, <1>5, <1>6, <1>8, <2>1 DEF LogicalBack, EndLogical
  <2>7. s.ret \in Bytes BY <1>1 DEF ShInterps
  <2>8. QED BY <2>4, <2>5, <2>6, <2>7, EndGoes
<1>9. CASE ~ (flowInterrupts(s) \/ next > n)
  <2>1. next \in 1 .. Len(f.c.pipelines) BY <1>5, <1>6, <1>9
  <2>2. LogicalBack(s) = RunElement(s, f, next) BY <1>2, <1>5, <1>6, <1>9 DEF LogicalBack
  <2>3. CommandOK(f.c, u) /\ f.c.t = "logical" /\ f.saved = u.now.errexit BY <1>4
  <2>4. Goes(RunElement(s, f, next), base, u) BY <2>1, <2>3, <1>3, <1>7, ElementRuns
  <2>5. QED BY <2>2, <2>4
<1>10. QED BY <1>8, <1>9

LEMMA LogicalStarts ==
  ASSUME ScriptsAssumption,
         NEW s, NEW base, NEW u \in States, Below(s, base, u), Counts(s, u),
         NEW c, CommandOK(c, u), c.t = "logical"
  PROVE  Goes(RunElement(s, LogicalFrame(c, s.opt_errexit), 1), base, u)
<1>1. PICK X : s \in ShInterps(X) BY DEF Below, Typed
<1>2. PICK f : f = LogicalFrame(c, s.opt_errexit) OBVIOUS
<1>3. /\ f \in [k : {"logical"}, c : {c}, i : Nat, st : {0}, saved : BOOLEAN]
      /\ f.c = c /\ f.saved = s.opt_errexit
  BY <1>1, <1>2 DEF LogicalFrame, ShInterps
<1>4. 1 \in 1 .. Len(f.c.pipelines)
  <2>1. c.pipelines \in Seq(Trees) /\ c.pipelines # <<>> BY CommandParts
  <2>2. QED BY <2>1, <1>3
<1>5. QED
  <2>1. /\ s.loop_depth = u.now.loops /\ s.func_depth = u.now.functions
        /\ s.flow \in {"BREAK", "CONTINUE"} => s.flow_count \in 1 .. u.now.bodies
        /\ s.flow = "RETURN" => u.now.functions > 0 /\ f.saved = u.now.errexit
    BY <1>3 DEF Counts
  <2>2. CommandOK(f.c, u) /\ f.c.t = "logical" /\ f.saved = u.now.errexit BY <1>3 DEF Counts
  <2>3. QED BY <1>2, <1>3, <1>4, <2>1, <2>2, ElementRuns

-----------------------------------------------------------------------------
(* if, case and groups.                                                    *)

\* The frame on top becomes one of no consequence, which calls g.
LEMMA PlainCall ==
  ASSUME NEW s, NEW base, NEW u \in States, Below(s, base, u), Counts(s, u),
         NEW f, FrameOK(f, u), Waiting(f), f.k \in {"pipeline", "body", "main"},
         NEW g, FrameOK(g, u), g.k \in {"program", "command"}
  PROVE  Goes(Call(Become(s, f), g), base, u)
<1>1. PICK t : t = Call(Become(s, f), g) OBVIOUS
<1>2. Typed(s) BY DEF Below
<1>3. /\ Typed(t) /\ t.stack = <<g>> \o (<<f>> \o Tail(s.stack)) /\ t.mode = "call"
      /\ t.flow = s.flow /\ t.flow_count = s.flow_count /\ t.opt_errexit = s.opt_errexit
      /\ t.loop_depth = s.loop_depth /\ t.func_depth = s.func_depth
  BY <1>1, <1>2, CallBecomeFields
<1>4. Inside(f, u) = u BY InsidePlain
<1>5. Counts(t, Inside(f, u)) BY <1>3, <1>4 DEF Counts
<1>6. FrameOK(g, Inside(f, u)) BY <1>4
<1>7. Goes(t, base, u) BY <1>3, <1>5, <1>6, Descends
<1>8. QED BY <1>1, <1>7

LEMMA BodyCall ==
  ASSUME NEW s, NEW base, NEW u \in States, Below(s, base, u), Counts(s, u),
         NEW list, ListOK(list, u), NEW exempt
  PROVE  Goes(Call(Become(s, BodyFrame(exempt)), ProgramFrame(list)), base, u)
<1>1. PICK f : f = BodyFrame(exempt) OBVIOUS
<1>2. FrameOK(f, u) /\ Waiting(f) /\ f.k = "body" BY <1>1 DEF BodyFrame, FrameOK, Waiting, Kinds
<1>3. PICK g : g = ProgramFrame(list) OBVIOUS
<1>4. FrameOK(g, u) /\ g.k = "program" BY <1>3, NewFrames
<1>5. Goes(Call(Become(s, f), g), base, u) BY <1>2, <1>4, PlainCall
<1>6. QED BY <1>1, <1>3, <1>5

LEMMA PipeStarts ==
  ASSUME NEW s, NEW base, NEW u \in States, Below(s, base, u), Counts(s, u),
         NEW c, CommandOK(c.cmd, u)
  PROVE  Goes(Call(Become(s, PipelineFrame(c)), CommandFrame(c.cmd)), base, u)
<1>1. PICK f : f = PipelineFrame(c) OBVIOUS
<1>2. FrameOK(f, u) /\ Waiting(f) /\ f.k = "pipeline" BY <1>1 DEF PipelineFrame, FrameOK, Waiting, Kinds
<1>3. PICK g : g = CommandFrame(c.cmd) OBVIOUS
<1>4. FrameOK(g, u) /\ g.k = "command" BY <1>3, NewFrames
<1>5. Goes(Call(Become(s, f), g), base, u) BY <1>2, <1>4, PlainCall
<1>6. QED BY <1>1, <1>3, <1>5

LEMMA IfStarts ==
  ASSUME ScriptsAssumption,
         NEW s, NEW base, NEW u \in States, Below(s, base, u), Counts(s, u),
         NEW c, CommandOK(c, u), c.t = "if"
  PROVE  Goes([Call(Become(s, ConditionFrame(c, s.opt_errexit)), CommandFrame(c.cond))
                 EXCEPT !.opt_errexit = FALSE], base, u)
<1>1. PICK f : f = ConditionFrame(c, s.opt_errexit) OBVIOUS
<1>2. f.k = "condition" /\ FrameOK(f, u) /\ Waiting(f)
  BY <1>1 DEF ConditionFrame, FrameOK, Waiting, Kinds, Counts
<1>3. PICK w \in States : w = Inside(f, u) BY InsideState
<1>4. /\ w.now.bodies = u.now.bodies /\ w.now.functions = u.now.functions
      /\ w.now.loops = u.now.loops /\ w.now.errexit = FALSE
  BY <1>2, <1>3 DEF Inside, Suppressing
<1>5. CommandOK(c.cond, w) BY <1>3, CommandParts, InsideWider, WiderOK
<1>6. PICK g : g = CommandFrame(c.cond) OBVIOUS
<1>7. FrameOK(g, w) /\ g.k = "command" BY <1>5, <1>6, NewFrames
<1>8. PICK t : t = Call(Become(s, f), g) OBVIOUS
<1>9. Typed(s) BY DEF Below
<1>10. /\ Typed(t) /\ t.stack = <<g>> \o (<<f>> \o Tail(s.stack)) /\ t.mode = "call"
       /\ t.flow = s.flow /\ t.flow_count = s.flow_count
       /\ t.opt_errexit = s.opt_errexit
       /\ t.loop_depth = s.loop_depth /\ t.func_depth = s.func_depth
  BY <1>8, <1>9, CallBecomeFields
<1>11. PICK Y : t \in ShInterps(Y) BY <1>10 DEF Typed
<1>12. PICK r : r = [t EXCEPT !.opt_errexit = FALSE] OBVIOUS
<1>13. r \in ShInterps(Y) BY <1>11, <1>12 DEF ShInterps
<1>14. /\ r.stack = t.stack /\ r.mode = t.mode /\ r.flow = t.flow /\ r.flow_count = t.flow_count
       /\ r.loop_depth = t.loop_depth /\ r.func_depth = t.func_depth /\ r.opt_errexit = FALSE
  BY <1>11, <1>12 DEF ShInterps
<1>15. Counts(r, w) BY <1>4, <1>10, <1>14 DEF Counts
<1>16. Typed(r) /\ r.stack = <<g>> \o (<<f>> \o Tail(s.stack)) /\ r.mode = "call"
  BY <1>10, <1>13, <1>14 DEF Typed
<1>17. Goes(r, base, u) BY <1>2, <1>3, <1>7, <1>15, <1>16, Descends
<1>18. QED BY <1>1, <1>6, <1>8, <1>12, <1>17

LEMMA ConditionStep ==
  ASSUME ScriptsAssumption,
         NEW s, NEW base, NEW u \in States, Below(s, base, u), Top(s).k = "condition",
         FrameOK(Top(s), u), Counts(s, Inside(Top(s), u))
  PROVE  Goes(EndCondition(s), base, u)
<1>1. PICK X : s \in ShInterps(X) BY DEF Below, Typed
<1>2. PICK f : f = Top(s) OBVIOUS
<1>3. CommandOK(f.c, u) /\ f.c.t = "if" /\ f.saved = u.now.errexit BY <1>2 DEF FrameOK
<1>4. PICK t : t = [s EXCEPT !.opt_errexit = f.saved] OBVIOUS
<1>5. f.saved \in BOOLEAN BY <1>3, LevelTypes
<1>6. t \in ShInterps(X) /\ t.stack = s.stack BY <1>1, <1>4, <1>5 DEF ShInterps
<1>7. /\ t.loop_depth = s.loop_depth /\ t.func_depth = s.func_depth /\ t.flow = s.flow
      /\ t.flow_count = s.flow_count /\ t.opt_errexit = f.saved
  BY <1>1, <1>4 DEF ShInterps
<1>8. Counts(t, u) BY <1>3, <1>7 DEF Counts, Inside
<1>9. Below(t, base, u) BY <1>6 DEF Below, Typed
<1>10. ListOK(f.c.then, u) /\ ListOK(f.c.else, u) BY <1>3, CommandParts
<1>11. s.last_status \in Bytes /\ 0 \in Bytes BY <1>1 DEF ShInterps, Bytes
<1>12. \/ EndCondition(s) = EndCommand(t, TRUE, s.last_status)
       \/ EndCondition(s) = Call(Become(t, BodyFrame(TRUE)), ProgramFrame(f.c.then))
       \/ EndCondition(s) = Call(Become(t, BodyFrame(TRUE)), ProgramFrame(f.c.else))
       \/ EndCondition(s) = EndCommand(t, TRUE, 0)
  BY <1>2, <1>4 DEF EndCondition
<1>13. Goes(EndCommand(t, TRUE, s.last_status), base, u) BY <1>8, <1>9, <1>11, EndGoes
<1>14. Goes(EndCommand(t, TRUE, 0), base, u) BY <1>8, <1>9, <1>11, EndGoes
<1>15. Goes(Call(Become(t, BodyFrame(TRUE)), ProgramFrame(f.c.then)), base, u)
  BY <1>8, <1>9, <1>10, BodyCall
<1>16. Goes(Call(Become(t, BodyFrame(TRUE)), ProgramFrame(f.c.else)), base, u)
  BY <1>8, <1>9, <1>10, BodyCall
<1>17. QED BY <1>12, <1>13, <1>14, <1>15, <1>16

\* shRunExitTrap.
LEMMA MainStep ==
  ASSUME ScriptsAssumption, script \in Scripts,
         NEW s, NEW base, NEW u \in States, Below(s, base, u), Top(s).k = "main",
         FrameOK(Top(s), u), Counts(s, u)
  PROVE  Goes(shRunExitTrap(s), base, u)
<1>1. PICK X : s \in ShInterps(X) BY DEF Below, Typed
<1>2. PICK f : f = Top(s) OBVIOUS
<1>3. f \in [k : {"main"}, at : {"body", "exit trap"}, st : Bytes] BY <1>2 DEF FrameOK
<1>4. PICK status \in Bytes : status = IF s.flow = "EXIT" THEN s.exit_status ELSE s.ret
  BY <1>1 DEF ShInterps
<1>5. CASE f.at = "body" /\ s.exit_trap
  <2>1. PICK h : h = [f EXCEPT !.at = "exit trap", !.st = status] OBVIOUS
  <2>2. h \in [k : {"main"}, at : {"body", "exit trap"}, st : Bytes] BY <1>3, <1>4, <2>1
  <2>3. FrameOK(h, u) /\ Waiting(h) /\ h.k = "main" BY <2>2 DEF FrameOK, Waiting, Kinds
  <2>4. PICK g : g = ProgramFrame(script.exit_trap) OBVIOUS
  <2>5. FrameOK(g, u) /\ g.k = "program" BY <2>4, ScriptListsOK, NewFrames
  <2>6. PICK t : t = Call(Become(s, h), g) OBVIOUS
  <2>7. Goes(t, base, u) BY <2>3, <2>5, <2>6, PlainCall
  <2>8. PICK w \in States : ProcOK(t, base, w) /\ w.waits = u.waits /\ w.wait = u.wait
    BY <2>7 DEF Goes
  <2>9. PICK Y : t \in ShInterps(Y) BY <2>8 DEF ProcOK, Typed
  <2>10. PICK r : r = [t EXCEPT !.exit_trap = FALSE] OBVIOUS
  <2>11. r \in ShInterps(Y) /\ r.stack = t.stack /\ r.mode = t.mode /\ Counts(r, w)
    BY <2>8, <2>9, <2>10 DEF ShInterps, Counts, ProcOK
  <2>12. ProcOK(r, base, w) BY <2>8, <2>11 DEF ProcOK, Typed, ModeOK
  <2>13. shRunExitTrap(s) = r BY <1>2, <1>4, <1>5, <2>1, <2>4, <2>6, <2>10 DEF shRunExitTrap
  <2>14. QED BY <2>8, <2>12, <2>13 DEF Goes
<1>6. CASE ~ (f.at = "body" /\ s.exit_trap)
  <2>1. PICK last \in Bytes : last = IF f.at = "body" THEN status ELSE f.st BY <1>3, <1>4
  <2>2. shRunExitTrap(s) = Leave(s, last) BY <1>2, <1>4, <1>6, <2>1 DEF shRunExitTrap
  <2>3. QED BY <2>2, Returns, GoesAtLevel
<1>7. QED BY <1>5, <1>6

-----------------------------------------------------------------------------
(* Loops.                                                                  *)

\* The interpreter between two turns of a loop that stands at the level u.
BetweenTurns(s, u) ==
    /\ s.loop_depth = u.now.loops + 1 /\ s.func_depth = u.now.functions
    /\ s.opt_errexit = u.now.errexit
    /\ s.flow \in {"BREAK", "CONTINUE"} => s.flow_count \in 1 .. u.now.bodies
    /\ s.flow = "RETURN" => u.now.functions > 0

LoopFrames(C) ==
    [k : {"loop"}, c : C, at : {"start", "condition", "body"}, left : Nat, st : Bytes, saved : BOOLEAN]

LEMMA LoopEnds ==
  ASSUME NEW s, NEW base, NEW u \in States, Below(s, base, u), BetweenTurns(s, u), NEW status \in Bytes
  PROVE  Goes(EndLoop(s, status), base, u)
<1>1. PICK X : s \in ShInterps(X) BY DEF Below, Typed
<1>2. PICK depth \in Nat : depth = s.loop_depth - 1 /\ depth = u.now.loops BY LevelTypes DEF BetweenTurns
<1>3. PICK t : t = [s EXCEPT !.loop_depth = depth] OBVIOUS
<1>4. t \in ShInterps(X) /\ t.stack = s.stack BY <1>1, <1>2, <1>3 DEF ShInterps
<1>5. /\ t.loop_depth = depth /\ t.func_depth = s.func_depth /\ t.flow = s.flow
      /\ t.flow_count = s.flow_count /\ t.opt_errexit = s.opt_errexit
  BY <1>1, <1>3 DEF ShInterps
<1>6. Counts(t, u) BY <1>2, <1>5 DEF Counts, BetweenTurns
<1>7. Below(t, base, u) BY <1>4 DEF Below, Typed
<1>8. EndLoop(s, status) = EndCommand(t, TRUE, status) BY <1>1, <1>2, <1>3 DEF EndLoop, ShInterps
<1>9. QED BY <1>6, <1>7, <1>8, EndGoes

LEMMA BodyRuns ==
  ASSUME ScriptsAssumption,
         NEW s, NEW base, NEW u \in States, Below(s, base, u), BetweenTurns(s, u),
         NEW C, NEW h \in LoopFrames(C), h.at = "body", CommandOK(h.c, u), h.c.t = "loop"
  PROVE  Goes(Call(Become(s, h), ProgramFrame(h.c.body)), base, u)
<1>1. h.k = "loop" /\ FrameOK(h, u) /\ Waiting(h) BY DEF LoopFrames, FrameOK, Waiting, Kinds
<1>2. PICK w \in States : w = Inside(h, u) BY InsideState
<1>3. /\ w.now.bodies = u.now.bodies + 1 /\ w.now.functions = u.now.functions
      /\ w.now.loops = u.now.loops + 1 /\ w.now.errexit = u.now.errexit
  BY <1>1, <1>2 DEF Inside, Suppressing
<1>4. ListOK(h.c.body, w) BY <1>3, LoopBody
<1>5. PICK g : g = ProgramFrame(h.c.body) OBVIOUS
<1>6. FrameOK(g, w) /\ g.k = "program" BY <1>4, <1>5, NewFrames
<1>7. PICK t : t = Call(Become(s, h), g) OBVIOUS
<1>8. Typed(s) BY DEF Below
<1>9. /\ Typed(t) /\ t.stack = <<g>> \o (<<h>> \o Tail(s.stack)) /\ t.mode = "call"
      /\ t.flow = s.flow /\ t.flow_count = s.flow_count /\ t.opt_errexit = s.opt_errexit
      /\ t.loop_depth = s.loop_depth /\ t.func_depth = s.func_depth
  BY <1>7, <1>8, CallBecomeFields
<1>10. \A n \in 1 .. u.now.bodies : n \in 1 .. w.now.bodies BY <1>3, LevelTypes
<1>11. Counts(t, w) BY <1>3, <1>9, <1>10 DEF Counts, BetweenTurns
<1>12. Goes(t, base, u) BY <1>1, <1>2, <1>6, <1>9, <1>11, Descends
<1>13. QED BY <1>5, <1>7, <1>12

LEMMA NextTurnOK ==
  ASSUME ScriptsAssumption,
         NEW s, NEW base, NEW u \in States, Below(s, base, u), BetweenTurns(s, u),
         NEW C, Top(s) \in LoopFrames(C), CommandOK(Top(s).c, u), Top(s).c.t = "loop",
         NEW status \in Bytes
  PROVE  Goes(NextTurn(s, status), base, u)
<1>1. PICK X : s \in ShInterps(X) BY DEF Below, Typed
<1>2. PICK f \in LoopFrames(C) : f = Top(s) OBVIOUS
<1>3. CommandOK(f.c, u) /\ f.c.t = "loop" /\ f.left \in Nat BY <1>2 DEF LoopFrames
<1>4. CASE f.c.kind = "for" /\ f.left = 0
  <2>1. NextTurn(s, status) = EndLoop(s, status) BY <1>2, <1>4 DEF NextTurn
  <2>2. QED BY <2>1, LoopEnds
<1>5. CASE f.c.kind = "for" /\ f.left > 0
  <2>1. PICK left \in Nat : left = f.left - 1 BY <1>3, <1>5
  <2>2. PICK h : h = [f EXCEPT !.at = "body", !.left = left, !.st = status] OBVIOUS
  <2>3. h \in LoopFrames(C) /\ h.at = "body" /\ h.c = f.c BY <1>2, <2>1, <2>2 DEF LoopFrames
  <2>4. Goes(Call(Become(s, h), ProgramFrame(h.c.body)), base, u) BY <1>3, <2>3, BodyRuns
  <2>5. NextTurn(s, status) = Call(Become(s, h), ProgramFrame(h.c.body))
    BY <1>2, <1>5, <2>1, <2>2, <2>3 DEF NextTurn
  <2>6. QED BY <2>4, <2>5
<1>6. CASE f.c.kind # "for"
  <2>1. PICK h : h = [f EXCEPT !.at = "condition", !.st = status, !.saved = s.opt_errexit] OBVIOUS
  <2>2. s.opt_errexit \in BOOLEAN BY <1>1 DEF ShInterps
  <2>3. h \in LoopFrames(C) /\ h.at = "condition" /\ h.c = f.c /\ h.saved = s.opt_errexit
    BY <1>2, <2>1, <2>2 DEF LoopFrames
  <2>4. h.k = "loop" /\ h.saved = u.now.errexit BY <2>3 DEF LoopFrames, BetweenTurns
  <2>5. FrameOK(h, u) /\ Waiting(h) BY <1>3, <2>3, <2>4 DEF LoopFrames, FrameOK, Waiting, Kinds
  <2>6. PICK w \in States : w = Inside(h, u) BY InsideState
  <2>7. /\ w.now.bodies = u.now.bodies /\ w.now.functions = u.now.functions
        /\ w.now.loops = u.now.loops + 1 /\ w.now.errexit = FALSE
    BY <2>3, <2>4, <2>6 DEF Inside, Suppressing
  <2>8. CommandOK(f.c.cond, w) BY <1>3, <2>6, CommandParts, InsideWider, WiderOK
  <2>9. PICK g : g = CommandFrame(f.c.cond) OBVIOUS
  <2>10. FrameOK(g, w) /\ g.k = "command" BY <2>8, <2>9, NewFrames
  <2>11. PICK t : t = Call(Become(s, h), g) OBVIOUS
  <2>12. Typed(s) BY DEF Below
  <2>13. /\ Typed(t) /\ t.stack = <<g>> \o (<<h>> \o Tail(s.stack)) /\ t.mode = "call"
         /\ t.flow = s.flow /\ t.flow_count = s.flow_count /\ t.opt_errexit = s.opt_errexit
         /\ t.loop_depth = s.loop_depth /\ t.func_depth = s.func_depth
    BY <2>11, <2>12, CallBecomeFields
  <2>14. PICK Y : t \in ShInterps(Y) BY <2>13 DEF Typed
  <2>15. PICK r : r = [t EXCEPT !.opt_errexit = FALSE] OBVIOUS
  <2>16. r \in ShInterps(Y) BY <2>14, <2>15 DEF ShInterps
  <2>17. /\ r.stack = t.stack /\ r.mode = t.mode /\ r.flow = t.flow /\ r.flow_count = t.flow_count
         /\ r.loop_depth = t.loop_depth /\ r.func_depth = t.func_depth /\ r.opt_errexit = FALSE
    BY <2>14, <2>15 DEF ShInterps
  <2>18. Counts(r, w) BY <2>7, <2>13, <2>17 DEF Counts, BetweenTurns
  <2>19. Typed(r) /\ r.stack = <<g>> \o (<<h>> \o Tail(s.stack)) /\ r.mode = "call"
    BY <2>13, <2>16, <2>17 DEF Typed
  <2>20. Goes(r, base, u) BY <2>4, <2>5, <2>6, <2>10, <2>18, <2>19, Descends
  <2>21. NextTurn(s, status) = r BY <1>2, <1>6, <2>1, <2>9, <2>11, <2>15 DEF NextTurn
  <2>22. QED BY <2>20, <2>21
<1>7. QED BY <1>3, <1>4, <1>5, <1>6

LEMMA LoopStarts ==
  ASSUME ScriptsAssumption,
         NEW s, NEW base, NEW u \in States, Below(s, base, u), Counts(s, u), s.mode = "call",
         NEW c, CommandOK(c, u), c.t = "loop"
  PROVE  Goes([Become(s, LoopFrame(c, s.opt_errexit)) EXCEPT !.loop_depth = @ + 1], base, u)
<1>1. PICK X : s \in ShInterps(X) BY DEF Below, Typed
<1>2. PICK f : f = LoopFrame(c, s.opt_errexit) OBVIOUS
<1>3. c.n \in Nat BY CommandParts
<1>4. s.opt_errexit \in BOOLEAN /\ 0 \in Bytes BY <1>1 DEF ShInterps, Bytes
<1>5. f \in LoopFrames({c}) /\ f.c = c /\ f.at = "start" BY <1>2, <1>3, <1>4 DEF LoopFrame, LoopFrames
<1>6. f.k = "loop" /\ FrameOK(f, u) BY <1>5 DEF LoopFrames, FrameOK, Kinds
<1>7. PICK w \in States : w = Inside(f, u) BY InsideState
<1>8. /\ w.now.bodies = u.now.bodies /\ w.now.functions = u.now.functions
      /\ w.now.loops = u.now.loops + 1 /\ w.now.errexit = u.now.errexit
  BY <1>5, <1>6, <1>7 DEF Inside, Suppressing
<1>9. PICK t : t = Become(s, f) OBVIOUS
<1>10. /\ Typed(t) /\ t.stack = <<f>> \o Tail(s.stack) /\ t.mode = s.mode
       /\ t.flow = s.flow /\ t.flow_count = s.flow_count /\ t.opt_errexit = s.opt_errexit
       /\ t.loop_depth = s.loop_depth /\ t.func_depth = s.func_depth
  BY <1>1, <1>9, BecomeFields DEF Typed
<1>11. PICK Y : t \in ShInterps(Y) BY <1>10 DEF Typed
<1>12. PICK r : r = [t EXCEPT !.loop_depth = @ + 1] OBVIOUS
<1>13. r \in ShInterps(Y) BY <1>11, <1>12 DEF ShInterps
<1>14. /\ r.stack = t.stack /\ r.mode = t.mode /\ r.flow = t.flow /\ r.flow_count = t.flow_count
       /\ r.loop_depth = t.loop_depth + 1 /\ r.func_depth = t.func_depth /\ r.opt_errexit = t.opt_errexit
  BY <1>11, <1>12 DEF ShInterps
<1>15. Counts(r, w) BY <1>8, <1>10, <1>14 DEF Counts
<1>16. Well(r.stack, base, w) /\ Head(r.stack) = f BY <1>6, <1>7, <1>10, <1>14, Becoming
<1>17. ModeOK(r) BY <1>5, <1>10, <1>14, <1>16 DEF ModeOK
<1>18. w.waits = u.waits /\ w.wait = u.wait BY <1>6, <1>7, InsideKeeps
<1>19. QED BY <1>2, <1>9, <1>12, <1>13, <1>15, <1>16, <1>17, <1>18 DEF Goes, ProcOK, Typed

LEMMA LoopConditionStep ==
  ASSUME ScriptsAssumption,
         NEW s, NEW base, NEW u \in States, Below(s, base, u),
         NEW C, Top(s) \in LoopFrames(C), CommandOK(Top(s).c, u), Top(s).c.t = "loop",
         Top(s).at = "condition", Top(s).saved = u.now.errexit, Counts(s, Inside(Top(s), u))
  PROVE  Goes(EndLoopCondition(s), base, u)
<1>1. PICK X : s \in ShInterps(X) BY DEF Below, Typed
<1>2. PICK f \in LoopFrames(C) : f = Top(s) OBVIOUS
<1>3. f.k = "loop" /\ f.at = "condition" /\ f.st \in Bytes /\ f.saved \in BOOLEAN BY <1>2 DEF LoopFrames
<1>4. PICK t : t = [s EXCEPT !.opt_errexit = f.saved] OBVIOUS
<1>5. t \in ShInterps(X) /\ t.stack = s.stack BY <1>1, <1>3, <1>4 DEF ShInterps
<1>6. /\ t.loop_depth = s.loop_depth /\ t.func_depth = s.func_depth /\ t.flow = s.flow
      /\ t.flow_count = s.flow_count /\ t.opt_errexit = f.saved
  BY <1>1, <1>4 DEF ShInterps
<1>7. BetweenTurns(t, u) BY <1>2, <1>3, <1>6 DEF BetweenTurns, Counts, Inside
<1>8. Below(t, base, u) BY <1>5 DEF Below, Typed
<1>9. PICK h : h = [f EXCEPT !.at = "body"] OBVIOUS
<1>10. h \in LoopFrames(C) /\ h.at = "body" /\ h.c = f.c BY <1>2, <1>9 DEF LoopFrames
<1>11. \/ EndLoopCondition(s) = EndLoop(t, f.st)
       \/ EndLoopCondition(s) = Call(Become(t, h), ProgramFrame(h.c.body))
  BY <1>2, <1>4, <1>9, <1>10 DEF EndLoopCondition
<1>12. Goes(EndLoop(t, f.st), base, u) BY <1>3, <1>7, <1>8, LoopEnds
<1>13. Goes(Call(Become(t, h), ProgramFrame(h.c.body)), base, u)
  BY <1>2, <1>7, <1>8, <1>10, BodyRuns
<1>14. QED BY <1>11, <1>12, <1>13

LEMMA LoopBodyStep ==
  ASSUME ScriptsAssumption,
         NEW s, NEW base, NEW u \in States, Below(s, base, u),
         NEW C, Top(s) \in LoopFrames(C), CommandOK(Top(s).c, u), Top(s).c.t = "loop",
         Top(s).at = "body", Counts(s, Inside(Top(s), u))
  PROVE  Goes(EndBody(s), base, u)
<1>1. PICK X : s \in ShInterps(X) BY DEF Below, Typed
<1>2. PICK f \in LoopFrames(C) : f = Top(s) OBVIOUS
<1>3. f.k = "loop" /\ f.at = "body" BY <1>2 DEF LoopFrames
<1>4. PICK w \in States : w = Inside(f, u) BY InsideState
<1>5. /\ w.now.bodies = u.now.bodies + 1 /\ w.now.functions = u.now.functions
      /\ w.now.loops = u.now.loops + 1 /\ w.now.errexit = u.now.errexit
  BY <1>3, <1>4 DEF Inside, Suppressing
<1>6. Counts(s, w) BY <1>2, <1>4
<1>7. u.now.bodies \in Nat BY LevelTypes
<1>8. s.ret \in Bytes /\ s.flow \in Flows /\ s.flow_count \in Nat BY <1>1 DEF ShInterps
<1>9. CASE s.flow \in {"BREAK", "CONTINUE"}
  <2>1. s.flow_count \in 1 .. u.now.bodies + 1 BY <1>5, <1>6, <1>9 DEF Counts
  <2>2. PICK count \in Nat : count = s.flow_count - 1 BY <2>1, <1>7
  <2>3. PICK flow \in Flows : flow = IF count <= 0 THEN "NONE" ELSE s.flow BY <1>8 DEF Flows
  <2>4. PICK t : t = [s EXCEPT !.flow_count = count, !.flow = flow] OBVIOUS
  <2>5. t = LeaveOne(s) BY <1>1, <2>2, <2>3, <2>4 DEF LeaveOne, ShInterps
  <2>6. t \in ShInterps(X) /\ t.stack = s.stack BY <1>1, <2>2, <2>3, <2>4 DEF ShInterps
  <2>7. /\ t.loop_depth = s.loop_depth /\ t.func_depth = s.func_depth /\ t.flow = flow
        /\ t.flow_count = count /\ t.opt_errexit = s.opt_errexit
    BY <1>1, <2>4 DEF ShInterps
  <2>8. flow # "NONE" => count \in 1 .. u.now.bodies BY <2>1, <2>2, <2>3, <1>7
  <2>9. flow # "RETURN" BY <2>3, <1>9
  <2>10. BetweenTurns(t, u) BY <1>5, <1>6, <2>7, <2>8, <2>9 DEF BetweenTurns, Counts
  <2>11. Below(t, base, u) /\ Top(t) = Top(s) BY <2>6 DEF Below, Typed, Top
  <2>12. EndBody(s) = NextTurn(t, s.ret) \/ EndBody(s) = EndLoop(t, s.ret)
    <3>1. CASE s.flow = "CONTINUE" /\ s.flow_count <= 1 BY <3>1, <2>5 DEF EndBody
    <3>2. CASE ~ (s.flow = "CONTINUE" /\ s.flow_count <= 1)
      <4>1. s.flow = "BREAK" \/ (s.flow = "CONTINUE" /\ s.flow_count > 1) BY <3>2, <1>8, <1>9
      <4>2. QED BY <4>1, <3>2, <2>5 DEF EndBody
    <3>3. QED BY <3>1, <3>2
  <2>13. Goes(NextTurn(t, s.ret), base, u) BY <1>8, <2>10, <2>11, NextTurnOK
  <2>14. Goes(EndLoop(t, s.ret), base, u) BY <1>8, <2>10, <2>11, LoopEnds
  <2>15. QED BY <2>12, <2>13, <2>14
<1>10. CASE s.flow \notin {"BREAK", "CONTINUE"}
  <2>1. BetweenTurns(s, u) BY <1>5, <1>6, <1>10 DEF BetweenTurns, Counts
  <2>2. EndBody(s) = NextTurn(s, s.ret) \/ EndBody(s) = EndLoop(s, s.ret) BY <1>10 DEF EndBody
  <2>3. QED BY <2>1, <2>2, <1>8, NextTurnOK, LoopEnds
<1>11. QED BY <1>9, <1>10

LEMMA LoopStep ==
  ASSUME ScriptsAssumption,
         NEW s, NEW base, NEW u \in States, Below(s, base, u), Top(s).k = "loop",
         FrameOK(Top(s), u), Counts(s, Inside(Top(s), u)), ModeOK(s)
  PROVE  Goes(LoopBack(s), base, u)
<1>1. PICK X : s \in ShInterps(X) BY DEF Below, Typed
<1>2. PICK C : Top(s) \in LoopFrames(C) BY DEF FrameOK, LoopFrames
<1>3. CommandOK(Top(s).c, u) /\ Top(s).c.t = "loop" BY DEF FrameOK
<1>4. Top(s).at = "condition" => Top(s).saved = u.now.errexit BY DEF FrameOK
<1>5. Top(s).at \in {"start", "condition", "body"} /\ s.mode \in {"call", "back"}
  BY <1>1, <1>2 DEF LoopFrames, ShInterps
<1>6. /\ s.mode = "back" => Top(s).at # "start"
      /\ s.mode = "call" => Top(s).at = "start"
  BY DEF ModeOK, Waiting, Top, Below
<1>7. CASE s.mode = "call"
  <2>1. Top(s).at = "start" BY <1>6, <1>7
  <2>2. BetweenTurns(s, u) BY <2>1 DEF BetweenTurns, Counts, Inside, Suppressing
  <2>3. LoopBack(s) = NextTurn(s, 0) BY <1>7 DEF LoopBack
  <2>4. 0 \in Bytes BY DEF Bytes
  <2>5. QED BY <2>2, <2>3, <2>4, <1>2, <1>3, NextTurnOK
<1>8. CASE s.mode = "back" /\ Top(s).at = "condition"
  <2>1. LoopBack(s) = EndLoopCondition(s) BY <1>8 DEF LoopBack
  <2>2. QED BY <2>1, <1>2, <1>3, <1>4, <1>8, LoopConditionStep
<1>9. CASE s.mode = "back" /\ Top(s).at = "body"
  <2>1. LoopBack(s) = EndBody(s) BY <1>9 DEF LoopBack
  <2>2. QED BY <2>1, <1>2, <1>3, <1>9, LoopBodyStep
<1>10. QED BY <1>5, <1>6, <1>7, <1>8, <1>9

-----------------------------------------------------------------------------
(* The chain of processes.                                                 *)

Start(errexit) == [loops |-> 0, bodies |-> 0, functions |-> 0, errexit |-> errexit]
ForkedAt(level) == [now |-> level, waits |-> FALSE, wait |-> level]

\* The level process p of a chain was forked at, when T gives the levels of its processes.
BaseOf(T, p, errexit) == ForkedAt(IF p = 1 THEN Start(errexit) ELSE T[p - 1].wait)

\* T gives the level of every process; each but the first was forked where its parent waits.
Levelled(chain, T, errexit) ==
    \A p \in 1 .. Len(chain) :
        /\ ProcOK(chain[p], BaseOf(T, p, errexit), T[p])
        /\ T[p].waits <=> p < Len(chain)

Chain(chain, errexit) ==
    /\ \E X : chain \in Seq(X)
    /\ Len(chain) \in 1 .. MaxProcesses
    /\ \E T \in [1 .. Len(chain) -> States] : Levelled(chain, T, errexit)

FlowInv == script \in Scripts /\ signals \in 0 .. MaxSignals /\ Chain(sh, script.errexit)

\* What a step of one process, after which it is t, has to keep.
Keeps(s, t) == \A base, v : ProcOK(s, base, v) => Goes(t, base, v)

LEMMA OneChanges ==
  ASSUME NEW chain, NEW errexit, Chain(chain, errexit), NEW p \in 1 .. Len(chain),
         NEW t, Keeps(chain[p], t), NEW new, new = [chain EXCEPT ![p] = t]
  PROVE  Chain(new, errexit)
<1>1. PICK X : chain \in Seq(X) BY DEF Chain
<1>2. PICK n \in Nat : n = Len(chain) BY <1>1
<1>3. PICK T \in [1 .. n -> States] : Levelled(chain, T, errexit) BY <1>2 DEF Chain
<1>4. new \in Seq(X \cup {t}) /\ Len(new) = n /\ \A q \in 1 .. n : new[q] = IF q = p THEN t ELSE chain[q]
  BY <1>1, <1>2
<1>5. ProcOK(chain[p], BaseOf(T, p, errexit), T[p]) BY <1>3 DEF Levelled
<1>6. Goes(t, BaseOf(T, p, errexit), T[p]) BY <1>5 DEF Keeps
<1>7. PICK w \in States :
        ProcOK(t, BaseOf(T, p, errexit), w) /\ w.waits = T[p].waits /\ w.wait = T[p].wait
  BY <1>6 DEF Goes
<1>8. PICK U \in [1 .. n -> States] : U = [q \in 1 .. n |-> IF q = p THEN w ELSE T[q]] BY <1>3, <1>7
<1>9. \A q \in 1 .. n : U[q].waits = T[q].waits /\ U[q].wait = T[q].wait BY <1>7, <1>8
<1>10. ASSUME NEW q \in 1 .. n
       PROVE  ProcOK(new[q], BaseOf(U, q, errexit), U[q]) /\ (U[q].waits <=> q < n)
  <2>1. BaseOf(U, q, errexit) = BaseOf(T, q, errexit)
    <3>1. CASE q = 1 BY <3>1 DEF BaseOf
    <3>2. CASE q # 1
      <4>1. q - 1 \in 1 .. n BY <3>2, <1>2
      <4>2. QED BY <3>2, <4>1, <1>9 DEF BaseOf
    <3>3. QED BY <3>1, <3>2
  <2>2. ProcOK(chain[q], BaseOf(T, q, errexit), T[q]) /\ (T[q].waits <=> q < n)
    BY <1>2, <1>3 DEF Levelled
  <2>3. CASE q = p
    <3>1. new[q] = t /\ U[q] = w BY <2>3, <1>4, <1>8
    <3>2. QED BY <2>1, <2>2, <2>3, <3>1, <1>7
  <2>4. CASE q # p
    <3>1. new[q] = chain[q] /\ U[q] = T[q] BY <2>4, <1>4, <1>8
    <3>2. QED BY <2>1, <2>2, <3>1
  <2>5. QED BY <2>3, <2>4
<1>11. Levelled(new, U, errexit) BY <1>4, <1>10 DEF Levelled
<1>12. Len(new) \in 1 .. MaxProcesses BY <1>2, <1>4 DEF Chain
<1>13. QED BY <1>4, <1>8, <1>11, <1>12 DEF Chain

LEMMA OneMoves ==
  ASSUME FlowInv, NEW p \in 1 .. Len(sh), NEW t, sh' = [sh EXCEPT ![p] = t],
         script' = script, signals' \in 0 .. MaxSignals, Keeps(sh[p], t)
  PROVE  FlowInv'
<1>1. Chain(sh', script.errexit) BY OneChanges DEF FlowInv
<1>2. script' \in Scripts BY DEF FlowInv
<1>3. QED BY <1>1, <1>2 DEF FlowInv

\* A function that does not wait keeps the level when what it calls or becomes, or its
\* return, is all right for its caller's level.
LEMMA KeepsFrom ==
  ASSUME NEW s, NEW t, s.stack # <<>>, Top(s).k # "waitpid",
         \A base : \A u \in States :
            Below(s, base, u) /\ FrameOK(Top(s), u) /\ Counts(s, Inside(Top(s), u)) /\ ModeOK(s)
              => Goes(t, base, u)
  PROVE  Keeps(s, t)
<1> SUFFICES ASSUME NEW base, NEW v, ProcOK(s, base, v) PROVE Goes(t, base, v)
  BY DEF Keeps
<1>1. PICK u \in States : v = Inside(Top(s), u) /\ FrameOK(Top(s), u) /\ Below(s, base, u)
  BY Popped
<1>2. Counts(s, Inside(Top(s), u)) /\ ModeOK(s) BY <1>1 DEF ProcOK
<1>3. Goes(t, base, u) BY <1>1, <1>2
<1>4. QED BY <1>1, <1>3, GoesFrom

LEMMA SimpleKeeps ==
  ASSUME ScriptsAssumption, NEW s, s.stack # <<>>, Top(s).k = "command", Top(s).c.t = "simple"
  PROVE  Keeps(s, shRunCommand(s, Top(s).c))
<1> DEFINE c == Top(s).c
<1>1. shRunCommand(s, c) = runSimpleCommand(s, c) BY DEF shRunCommand
<1>2. ASSUME NEW base, NEW u \in States, Below(s, base, u), FrameOK(Top(s), u),
             Counts(s, Inside(Top(s), u))
      PROVE  Goes(runSimpleCommand(s, c), base, u)
  <2>1. CommandOK(c, u) BY <1>2 DEF FrameOK
  <2>2. Counts(s, u) BY <1>2, InsidePlain
  <2>3. QED BY <1>2, <2>1, <2>2, SimpleStep
<1> HIDE DEF c
<1>3. Keeps(s, runSimpleCommand(s, c)) BY <1>2, KeepsFrom
<1>4. QED BY <1>1, <1>3 DEF c

LEMMA CompoundKeeps ==
  ASSUME ScriptsAssumption, NEW s, s.stack # <<>>, Top(s).k = "command",
         Top(s).c.t \notin {"simple", "subshell"}
  PROVE  Keeps(s, shRunCommand(s, Top(s).c))
<1>1. PICK c : c = Top(s).c OBVIOUS
<1>2. ASSUME NEW base, NEW u \in States, Below(s, base, u), FrameOK(Top(s), u),
             Counts(s, Inside(Top(s), u)), ModeOK(s)
      PROVE  Goes(shRunCommand(s, c), base, u)
  <2>1. CommandOK(c, u) BY <1>1, <1>2 DEF FrameOK
  <2>2. Counts(s, u) BY <1>2, InsidePlain
  <2>3. c.t \in {"call", "pipe", "logical", "group", "case", "if", "loop"}
    BY <1>1, <2>1, CommandParts
  <2>4. CASE c.t = "call"
    <3>1. shRunCommand(s, c) = callFunction(s, c) BY <2>4 DEF shRunCommand
    <3>2. QED BY <3>1, <1>2, <2>1, <2>2, <2>4, CallStep
  <2>5. CASE c.t = "pipe"
    <3>1. shRunCommand(s, c) = Call(Become(s, PipelineFrame(c)), CommandFrame(c.cmd))
      BY <2>5 DEF shRunCommand
    <3>2. CommandOK(c.cmd, u) BY <2>1, <2>5, CommandParts
    <3>3. QED BY <3>1, <3>2, <1>2, <2>2, PipeStarts
  <2>6. CASE c.t = "logical"
    <3>1. shRunCommand(s, c) = RunElement(s, LogicalFrame(c, s.opt_errexit), 1)
      BY <2>6 DEF shRunCommand
    <3>2. QED BY <3>1, <1>2, <2>1, <2>2, <2>6, LogicalStarts
  <2>7. CASE c.t = "group"
    <3>1. shRunCommand(s, c) = Call(Become(s, BodyFrame(FALSE)), ProgramFrame(c.body))
      BY <2>7 DEF shRunCommand
    <3>2. ListOK(c.body, u) BY <2>1, <2>7, CommandParts
    <3>3. QED BY <3>1, <3>2, <1>2, <2>2, BodyCall
  <2>8. CASE c.t = "case"
    <3>1. shRunCommand(s, c) = runCase(s, c) BY <2>8 DEF shRunCommand
    <3>2. ListOK(c.body, u) BY <2>1, <2>8, CommandParts
    <3>3. Goes(Call(Become(s, BodyFrame(FALSE)), ProgramFrame(c.body)), base, u)
      BY <3>2, <1>2, <2>2, BodyCall
    <3>4. 0 \in Bytes BY DEF Bytes
    <3>5. Goes(EndCommand(s, FALSE, 0), base, u) BY <3>4, <1>2, <2>2, EndGoes
    <3>6. QED BY <3>1, <3>3, <3>5 DEF runCase
  <2>9. CASE c.t = "if"
    <3>1. shRunCommand(s, c) = [Call(Become(s, ConditionFrame(c, s.opt_errexit)), CommandFrame(c.cond))
                                  EXCEPT !.opt_errexit = FALSE]
      BY <2>9 DEF shRunCommand
    <3>2. Goes([Call(Become(s, ConditionFrame(c, s.opt_errexit)), CommandFrame(c.cond))
                  EXCEPT !.opt_errexit = FALSE], base, u)
      BY <1>2, <2>1, <2>2, <2>9, IfStarts
    <3>3. QED BY <3>1, <3>2
  <2>10. CASE c.t = "loop"
    <3>1. shRunCommand(s, c) = [Become(s, LoopFrame(c, s.opt_errexit)) EXCEPT !.loop_depth = @ + 1]
      BY <2>10 DEF shRunCommand
    <3>2. s.mode = "call"
      <4>1. s.mode \in {"call", "back"} BY <1>2 DEF Below, Typed, ShInterps
      <4>2. ~ Waiting(Head(s.stack)) BY DEF Waiting, Top
      <4>3. QED BY <4>1, <4>2, <1>2 DEF ModeOK
    <3>3. Goes([Become(s, LoopFrame(c, s.opt_errexit)) EXCEPT !.loop_depth = @ + 1], base, u)
      BY <3>2, <1>2, <2>1, <2>2, <2>10, LoopStarts
    <3>4. QED BY <3>1, <3>3
  <2>11. QED BY <2>3, <2>4, <2>5, <2>6, <2>7, <2>8, <2>9, <2>10
<1>3. Keeps(s, shRunCommand(s, c)) BY <1>2, KeepsFrom
<1>4. QED BY <1>1, <1>3

LEMMA ReturnKeeps ==
  ASSUME NEW s, s.stack # <<>>
  PROVE  /\ Top(s).k = "pipeline" => Keeps(s, EndElement(s)) /\ Keeps(s, EndPipeline(s))
         /\ Top(s).k = "body" => Keeps(s, EndCommand(s, Top(s).exempt, s.ret))
         /\ Top(s).k = "function" => Keeps(s, EndFunction(s))
         /\ Top(s).k = "trap" => Keeps(s, EndTrap(s))
<1>1. CASE Top(s).k = "pipeline"
  <2>1. ASSUME NEW base, NEW u \in States, Below(s, base, u), Counts(s, Inside(Top(s), u))
        PROVE  Goes(EndElement(s), base, u) /\ Goes(EndPipeline(s), base, u)
    <3>1. Counts(s, u) BY <1>1, <2>1, InsidePlain
    <3>2. QED BY <2>1, <3>1, PipelineStep
  <2>2. Keeps(s, EndElement(s)) BY <1>1, <2>1, KeepsFrom
  <2>3. Keeps(s, EndPipeline(s)) BY <1>1, <2>1, KeepsFrom
  <2>4. QED BY <1>1, <2>2, <2>3
<1>2. CASE Top(s).k = "body"
  <2>1. PICK t : t = EndCommand(s, Top(s).exempt, s.ret) OBVIOUS
  <2>2. ASSUME NEW base, NEW u \in States, Below(s, base, u), Counts(s, Inside(Top(s), u))
        PROVE  Goes(t, base, u)
    <3>1. Counts(s, u) BY <1>2, <2>2, InsidePlain
    <3>2. s.ret \in Bytes BY <2>2 DEF Below, Typed, ShInterps
    <3>3. QED BY <2>1, <2>2, <3>1, <3>2, EndGoes
  <2>3. Keeps(s, t) BY <1>2, <2>2, KeepsFrom
  <2>4. QED BY <1>2, <2>1, <2>3
<1>3. CASE Top(s).k = "function"
  <2>1. Keeps(s, EndFunction(s)) BY <1>3, FunctionStep, KeepsFrom
  <2>2. QED BY <1>3, <2>1
<1>4. CASE Top(s).k = "trap"
  <2>1. Keeps(s, EndTrap(s)) BY <1>4, TrapStep DEF Keeps
  <2>2. QED BY <1>4, <2>1
<1>5. QED BY <1>1, <1>2, <1>3, <1>4

LEMMA WithinKeeps ==
  ASSUME ScriptsAssumption, script \in Scripts, NEW s, s.stack # <<>>
  PROVE  /\ Top(s).k = "program" => Keeps(s, shRunProgram(s))
         /\ Top(s).k = "logical" => Keeps(s, LogicalBack(s))
         /\ Top(s).k = "condition" => Keeps(s, EndCondition(s))
         /\ Top(s).k = "loop" => Keeps(s, LoopBack(s))
         /\ Top(s).k = "main" => Keeps(s, shRunExitTrap(s))
<1>1. CASE Top(s).k = "program"
  <2>1. Keeps(s, shRunProgram(s)) BY <1>1, ProgramStep DEF Keeps
  <2>2. QED BY <1>1, <2>1
<1>2. CASE Top(s).k = "logical"
  <2>1. Keeps(s, LogicalBack(s)) BY <1>2, LogicalStep, KeepsFrom
  <2>2. QED BY <1>2, <2>1
<1>3. CASE Top(s).k = "condition"
  <2>1. Keeps(s, EndCondition(s)) BY <1>3, ConditionStep, KeepsFrom
  <2>2. QED BY <1>3, <2>1
<1>4. CASE Top(s).k = "loop"
  <2>1. Keeps(s, LoopBack(s)) BY <1>4, LoopStep, KeepsFrom
  <2>2. QED BY <1>4, <2>1
<1>5. CASE Top(s).k = "main"
  <2>1. ASSUME NEW base, NEW u \in States, Below(s, base, u), FrameOK(Top(s), u),
               Counts(s, Inside(Top(s), u))
        PROVE  Goes(shRunExitTrap(s), base, u)
    <3>1. Counts(s, u) BY <1>5, <2>1, InsidePlain
    <3>2. QED BY <1>5, <2>1, <3>1, MainStep
  <2>2. Keeps(s, shRunExitTrap(s)) BY <1>5, <2>1, KeepsFrom
  <2>3. QED BY <1>5, <2>2
<1>6. QED BY <1>1, <1>2, <1>3, <1>4, <1>5

\* A process that begins: the shell, or a forked child.
LEMMA NewProcess ==
  ASSUME NEW s, Typed(s), NEW b \in States, Counts(s, b), NEW list, ListOK(list, b)
  PROVE  ProcOK(Process(list, s), b, b)
<1>1. PICK X : s \in ShInterps(X) BY DEF Typed
<1>2. PICK g : g = ProgramFrame(list) OBVIOUS
<1>3. PICK m : m = MainFrame OBVIOUS
<1>4. FrameOK(g, b) /\ g.k = "program" BY <1>2, NewFrames
<1>5. FrameOK(m, b) /\ m.k = "main" /\ Waiting(m) BY <1>3 DEF MainFrame, FrameOK, Waiting, Kinds, Bytes
<1>6. PICK st : st = <<m>> \o <<>> OBVIOUS
<1>7. Well(st, b, b) /\ Head(st) = m
  <2>1. Well(<<>>, b, b) BY NothingOnStack
  <2>2. Inside(m, b) = b BY <1>5, InsidePlain
  <2>3. Well(<<m>> \o <<>>, b, Inside(m, b)) BY <2>1, <1>5, Pushes
  <2>4. Head(<<m>> \o <<>>) = m BY <2>1, TopOfStack
  <2>5. QED BY <2>2, <2>3, <2>4, <1>6
<1>8. PICK t : t = Process(list, s) OBVIOUS
<1>9. t = [s EXCEPT !.stack = <<g, m>>, !.mode = "call"] BY <1>2, <1>3, <1>8 DEF Process
<1>10. t \in ShInterps({<<g, m>>}) BY <1>1, <1>9 DEF ShInterps
<1>11. <<g, m>> = <<g>> \o st BY <1>6
<1>12. t.stack = <<g>> \o st /\ t.mode = "call" BY <1>1, <1>9, <1>11 DEF ShInterps
<1>13. Counts(t, b) BY <1>1, <1>9 DEF ShInterps, Counts
<1>14. Typed(t) BY <1>10 DEF Typed
<1>15. ProcOK(t, b, b) BY <1>4, <1>5, <1>7, <1>12, <1>13, <1>14, Calls
<1>16. QED BY <1>8, <1>15

LEMMA Forks ==
  ASSUME ScriptsAssumption, NEW chain, NEW errexit, Chain(chain, errexit),
         Len(chain) < MaxProcesses, NEW s, s = chain[Len(chain)],
         s.stack # <<>>, Top(s).k = "command", Top(s).c.t = "subshell",
         NEW new,
         new = Append([chain EXCEPT ![Len(chain)] = Become(s, WaitFrame)], Process(Top(s).c.body, s))
  PROVE  Chain(new, errexit)
<1>1. PICK X : chain \in Seq(X) BY DEF Chain
<1>2. PICK n \in Nat : n = Len(chain) BY <1>1
<1>3. PICK T \in [1 .. n -> States] : Levelled(chain, T, errexit) BY <1>2 DEF Chain
<1>4. n \in 1 .. n /\ n < MaxProcesses /\ s = chain[n] BY <1>2 DEF Chain
<1>5. PICK base : base = BaseOf(T, n, errexit) OBVIOUS
<1>6. ProcOK(s, base, T[n]) /\ ~ T[n].waits BY <1>2, <1>3, <1>4, <1>5 DEF Levelled
<1>7. PICK u \in States : T[n] = Inside(Top(s), u) /\ FrameOK(Top(s), u) /\ Below(s, base, u)
  BY <1>6, Popped
<1>8. T[n] = u BY <1>7, InsidePlain
<1>9. Counts(s, u) /\ ~ u.waits BY <1>6, <1>8 DEF ProcOK
<1>10. PICK f : f = WaitFrame OBVIOUS
<1>11. PICK w \in States : w = Inside(f, u) BY InsideState
<1>12. f.k = "waitpid" /\ FrameOK(f, u) /\ Waiting(f)
  BY <1>9, <1>10 DEF WaitFrame, FrameOK, Waiting, Kinds
<1>13. w.now = u.now /\ w.waits = TRUE /\ w.wait = u.now
  <2>1. ~ Suppressing(f) BY <1>12 DEF Suppressing
  <2>2. u.now \in [loops : Nat, bodies : Nat, functions : Nat, errexit : BOOLEAN]
    BY DEF States, Levels
  <2>3. w.now = u.now BY <2>1, <2>2, <1>11, <1>12 DEF Inside
  <2>4. QED BY <2>3, <1>11, <1>12 DEF Inside
<1>14. PICK t : t = Become(s, f) OBVIOUS
<1>15. ProcOK(t, base, w)
  <2>1. Typed(s) BY <1>7 DEF Below
  <2>2. /\ Typed(t) /\ t.stack = <<f>> \o Tail(s.stack) /\ t.flow = s.flow
        /\ t.flow_count = s.flow_count /\ t.opt_errexit = s.opt_errexit
        /\ t.loop_depth = s.loop_depth /\ t.func_depth = s.func_depth
    BY <2>1, <1>14, BecomeFields
  <2>3. Well(t.stack, base, w) /\ Head(t.stack) = f BY <2>2, <1>7, <1>11, <1>12, Becoming
  <2>4. Counts(t, w) BY <2>2, <1>9, <1>13 DEF Counts
  <2>5. ModeOK(t) BY <2>3, <1>12 DEF ModeOK
  <2>6. QED BY <2>2, <2>3, <2>4, <2>5 DEF ProcOK
<1>16. PICK b : b = ForkedAt(w.wait) OBVIOUS
<1>17. b \in States /\ b.now = u.now /\ b.waits = FALSE BY <1>13, <1>16, LevelTypes DEF ForkedAt, States
<1>18. PICK child : child = Process(Top(s).c.body, s) OBVIOUS
<1>19. ProcOK(child, b, b)
  <2>1. Typed(s) BY <1>7 DEF Below
  <2>2. Counts(s, b) BY <1>9, <1>17 DEF Counts
  <2>3. CommandOK(Top(s).c, u) BY <1>7 DEF FrameOK
  <2>4. ListOK(Top(s).c.body, u) BY <2>3, CommandParts
  <2>5. Wider(u, b) BY <1>17, LevelTypes DEF Wider
  <2>6. ListOK(Top(s).c.body, b) BY <2>4, <2>5, <1>17, WiderOK
  <2>7. QED BY <2>1, <2>2, <2>6, <1>17, <1>18, NewProcess
<1>20. PICK Y : Y = X \cup {t, child} OBVIOUS
<1>21. PICK old : old = [chain EXCEPT ![n] = t] OBVIOUS
<1>22. new = Append(old, child) BY <1>2, <1>10, <1>14, <1>18, <1>21
<1>23. /\ new \in Seq(Y) /\ Len(new) = n + 1
       /\ \A q \in 1 .. n : new[q] = IF q = n THEN t ELSE chain[q]
       /\ new[n + 1] = child
  <2>1. child \in Y /\ t \in Y /\ chain \in Seq(Y) BY <1>1, <1>20
  <2>2. old \in Seq(Y) /\ Len(old) = n /\ \A q \in 1 .. n : old[q] = IF q = n THEN t ELSE chain[q]
    BY <2>1, <1>2, <1>4, <1>21
  <2>3. new \in Seq(Y) /\ Len(new) = n + 1 /\ (\A q \in 1 .. n : new[q] = old[q]) /\ new[n + 1] = child
    <3>1. /\ Append(old, child) \in Seq(Y) /\ Len(Append(old, child)) = Len(old) + 1
          /\ \A q \in 1 .. Len(old) : Append(old, child)[q] = old[q]
          /\ Append(old, child)[Len(old) + 1] = child
      BY <2>1, <2>2, AppendProperties
    <3>2. QED BY <3>1, <2>2, <1>22
  <2>4. QED BY <2>2, <2>3
<1>24. PICK U \in [1 .. n + 1 -> States] :
         U = [q \in 1 .. n + 1 |-> IF q = n + 1 THEN b ELSE IF q = n THEN w ELSE T[q]]
  <2>1. ASSUME NEW q \in 1 .. n + 1
        PROVE  (IF q = n + 1 THEN b ELSE IF q = n THEN w ELSE T[q]) \in States
    <3>1. q # n + 1 => q \in 1 .. n BY <1>2
    <3>2. QED BY <3>1, <1>3, <1>11, <1>17
  <2>2. QED BY <2>1
<1>25. ASSUME NEW q \in 1 .. n + 1
       PROVE  ProcOK(new[q], BaseOf(U, q, errexit), U[q]) /\ (U[q].waits <=> q < n + 1)
  <2>1. CASE q = n + 1
    <3>1. U[q] = b /\ U[n] = w /\ new[q] = child /\ q - 1 = n /\ q # 1
      BY <2>1, <1>2, <1>4, <1>23, <1>24
    <3>2. BaseOf(U, q, errexit) = b BY <3>1, <1>16 DEF BaseOf
    <3>3. ~ (q < n + 1) BY <2>1, <1>2
    <3>4. ~ U[q].waits BY <3>1, <1>17
    <3>6. ProcOK(new[q], BaseOf(U, q, errexit), U[q]) BY <3>1, <3>2, <1>19
    <3>5. QED BY <3>3, <3>4, <3>6
  <2>2. CASE q # n + 1
    <3>1. q \in 1 .. n BY <2>2, <1>2
    <3>2. BaseOf(U, q, errexit) = BaseOf(T, q, errexit)
      <4>1. CASE q = 1 BY <4>1 DEF BaseOf
      <4>2. CASE q # 1
        <5>1. q - 1 \in 1 .. n /\ q - 1 # n /\ q - 1 # n + 1 BY <3>1, <4>2, <1>2
        <5>2. U[q - 1] = T[q - 1] BY <5>1, <1>24
        <5>3. QED BY <4>2, <5>2 DEF BaseOf
      <4>3. QED BY <4>1, <4>2
    <3>3. CASE q = n
      <4>1. U[q] = w /\ new[q] = t BY <3>1, <3>3, <1>23, <1>24
      <4>2. U[q].waits /\ q < n + 1 BY <3>3, <4>1, <1>2, <1>13
      <4>3. ProcOK(new[q], BaseOf(U, q, errexit), U[q]) BY <3>2, <3>3, <4>1, <1>5, <1>15
      <4>4. QED BY <4>2, <4>3
    <3>4. CASE q # n
      <4>1. U[q] = T[q] /\ new[q] = chain[q] BY <2>2, <3>1, <3>4, <1>23, <1>24
      <4>2. ProcOK(chain[q], BaseOf(T, q, errexit), T[q]) /\ (T[q].waits <=> q < n)
        BY <3>1, <1>2, <1>3 DEF Levelled
      <4>3. q < n /\ q < n + 1 BY <3>1, <3>4, <1>2
      <4>4. T[q].waits BY <4>2, <4>3
      <4>5. U[q].waits /\ ProcOK(new[q], BaseOf(U, q, errexit), U[q]) BY <3>2, <4>1, <4>2, <4>4
      <4>6. QED BY <4>3, <4>5
    <3>5. QED BY <3>3, <3>4
  <2>3. QED BY <2>1, <2>2
<1>26. Levelled(new, U, errexit) BY <1>23, <1>25 DEF Levelled
<1>27. n + 1 \in 1 .. MaxProcesses BY <1>2, <1>4 DEF ScriptsAssumption
<1>28. QED BY <1>23, <1>24, <1>26, <1>27 DEF Chain

LEMMA Reaps ==
  ASSUME ScriptsAssumption, NEW chain, NEW errexit, Chain(chain, errexit),
         NEW p \in Nat \ {0}, p + 1 = Len(chain), NEW s, s = chain[p],
         chain[p + 1].stack = <<>>, Top(s).k = "waitpid",
         NEW new, new = [SubSeq(chain, 1, p) EXCEPT ![p] = EndCommand(s, FALSE, chain[p + 1].ret)]
  PROVE  Chain(new, errexit)
<1>1. PICK X : chain \in Seq(X) BY DEF Chain
<1>2. PICK T \in [1 .. p + 1 -> States] : Levelled(chain, T, errexit) BY DEF Chain
<1>3. PICK base : base = BaseOf(T, p, errexit) OBVIOUS
<1>4. ProcOK(s, base, T[p]) /\ T[p].waits BY <1>2, <1>3 DEF Levelled
<1>5. s.stack # <<>>
  <2>1. base.waits = FALSE BY <1>3 DEF BaseOf, ForkedAt
  <2>2. QED BY <2>1, <1>4, TopIsState DEF ProcOK
<1>6. PICK u \in States : T[p] = Inside(Top(s), u) /\ FrameOK(Top(s), u) /\ Below(s, base, u)
  BY <1>4, <1>5, Popped
<1>7. ~ u.waits BY <1>6 DEF FrameOK
<1>8. Counts(s, u)
  <2>1. ~ Suppressing(Top(s)) BY DEF Suppressing
  <2>2. u.now \in [loops : Nat, bodies : Nat, functions : Nat, errexit : BOOLEAN]
    BY DEF States, Levels
  <2>3. T[p].now = u.now BY <2>1, <2>2, <1>6 DEF Inside
  <2>4. QED BY <2>3, <1>4 DEF ProcOK, Counts
<1>9. chain[p + 1].ret \in Bytes
  <2>1. p + 1 \in 1 .. Len(chain) OBVIOUS
  <2>2. Typed(chain[p + 1]) BY <2>1, <1>2 DEF Levelled, ProcOK
  <2>3. QED BY <2>2 DEF Typed, ShInterps
<1>10. PICK t : t = EndCommand(s, FALSE, chain[p + 1].ret) OBVIOUS
<1>11. ProcOK(t, base, u) BY <1>6, <1>8, <1>9, <1>10, Ends
<1>12. new \in Seq(X \cup {t}) /\ Len(new) = p /\ \A q \in 1 .. p : new[q] = IF q = p THEN t ELSE chain[q]
  <2>1. PICK short : short = SubSeq(chain, 1, p) OBVIOUS
  <2>2. short \in Seq(X) /\ Len(short) = p /\ \A q \in 1 .. p : short[q] = chain[q]
    BY <2>1, <1>1, SubSeqProperties
  <2>3. new = [short EXCEPT ![p] = t] BY <2>1, <1>10
  <2>4. PICK Y : Y = X \cup {t} OBVIOUS
  <2>5. short \in Seq(Y) /\ t \in Y BY <2>2, <2>4
  <2>6. p \in 1 .. Len(short) BY <2>2
  <2>7. /\ [short EXCEPT ![p] = t] \in Seq(Y) /\ Len([short EXCEPT ![p] = t]) = Len(short)
        /\ \A q \in 1 .. Len(short) : [short EXCEPT ![p] = t][q] = IF q = p THEN t ELSE short[q]
    BY <2>5, <2>6, ExceptSeq
  <2>8. QED BY <2>2, <2>3, <2>4, <2>7
<1>13. PICK U \in [1 .. p -> States] : U = [q \in 1 .. p |-> IF q = p THEN u ELSE T[q]]
  <2>1. \A q \in 1 .. p : T[q] \in States
    <3>1. \A q \in 1 .. p : q \in 1 .. p + 1 OBVIOUS
    <3>2. QED BY <3>1, <1>2
  <2>2. QED BY <2>1
<1>14. ASSUME NEW q \in 1 .. p
       PROVE  ProcOK(new[q], BaseOf(U, q, errexit), U[q]) /\ (U[q].waits <=> q < p)
  <2>1. BaseOf(U, q, errexit) = BaseOf(T, q, errexit)
    <3>1. CASE q = 1 BY <3>1 DEF BaseOf
    <3>2. CASE q # 1
      <4>1. q - 1 \in 1 .. p /\ q - 1 # p BY <3>2
      <4>2. U[q - 1] = T[q - 1] BY <4>1, <1>13
      <4>3. QED BY <3>2, <4>2 DEF BaseOf
    <3>3. QED BY <3>1, <3>2
  <2>2. CASE q = p
    <3>1. U[q] = u /\ new[q] = t BY <2>2, <1>12, <1>13
    <3>2. ~ U[q].waits /\ ~ (q < p) BY <2>2, <3>1, <1>7
    <3>3. ProcOK(new[q], BaseOf(U, q, errexit), U[q]) BY <2>1, <2>2, <3>1, <1>3, <1>11
    <3>4. QED BY <3>2, <3>3
  <2>3. CASE q # p
    <3>1. U[q] = T[q] /\ new[q] = chain[q] BY <2>3, <1>12, <1>13
    <3>2. q < p /\ q < p + 1 /\ q \in 1 .. p + 1 BY <2>3
    <3>3. ProcOK(chain[q], BaseOf(T, q, errexit), T[q]) /\ (T[q].waits <=> q < p + 1)
      BY <3>2, <1>2 DEF Levelled
    <3>4. T[q].waits BY <3>2, <3>3
    <3>5. U[q].waits /\ ProcOK(new[q], BaseOf(U, q, errexit), U[q]) BY <2>1, <3>1, <3>3, <3>4
    <3>6. QED BY <3>2, <3>5
  <2>4. QED BY <2>2, <2>3
<1>15. Levelled(new, U, errexit) BY <1>12, <1>14 DEF Levelled
<1>16. p \in 1 .. MaxProcesses BY DEF Chain, ScriptsAssumption
<1>17. QED BY <1>12, <1>13, <1>15, <1>16 DEF Chain

LEMMA ParentWaits ==
  ASSUME NEW chain, NEW errexit, Chain(chain, errexit), NEW p \in 1 .. Len(chain), p < Len(chain)
  PROVE  chain[p].stack # <<>>
<1>1. PICK T : Levelled(chain, T, errexit) BY DEF Chain
<1>2. ProcOK(chain[p], BaseOf(T, p, errexit), T[p]) /\ T[p].waits BY <1>1 DEF Levelled
<1>3. BaseOf(T, p, errexit).waits = FALSE BY DEF BaseOf, ForkedAt
<1>4. QED BY <1>2, <1>3, TopIsState DEF ProcOK

LEMMA InitFlowInv ==
  ASSUME ScriptsAssumption, Init
  PROVE  FlowInv
<1>1. PICK e \in BOOLEAN : e = script.errexit BY DEF Init, ScriptsAssumption
<1>2. PICK b : b = ForkedAt(Start(e)) OBVIOUS
<1>3. b \in States /\ b.now = Start(e) /\ b.waits = FALSE BY <1>2 DEF ForkedAt, Start, States, Levels
<1>4. PICK s : s = [stack |-> <<>>, mode |-> "call", ret |-> 0, flow |-> "NONE", flow_count |-> 0,
                    exit_status |-> 0, last_status |-> 0, opt_errexit |-> e,
                    loop_depth |-> 0, func_depth |-> 0, pending |-> FALSE,
                    exit_trap |-> script.exit_trap # <<>>, fuel |-> script.fuel]
  OBVIOUS
<1>5. Typed(s)
  <2>1. script.fuel \in Nat BY DEF Init, ScriptsAssumption
  <2>2. s \in ShInterps({<<>>}) BY <2>1, <1>4 DEF ShInterps, Flows, Bytes
  <2>3. QED BY <2>2 DEF Typed
<1>6. Counts(s, b) BY <1>3, <1>4 DEF Counts, Start
<1>7. ListOK(script.list, b) BY <1>3, ScriptListsOK DEF Init
<1>8. PICK t : t = Process(script.list, s) OBVIOUS
<1>9. ProcOK(t, b, b) BY <1>3, <1>5, <1>6, <1>7, <1>8, NewProcess
<1>10. sh = <<t>> BY <1>1, <1>4, <1>8 DEF Init, Shell
<1>11. sh \in Seq({t}) /\ Len(sh) = 1 /\ sh[1] = t BY <1>10
<1>12. PICK T \in [1 .. 1 -> States] : T = [q \in 1 .. 1 |-> b] BY <1>3
<1>13. Levelled(sh, T, e)
  <2> SUFFICES ASSUME NEW p \in 1 .. Len(sh)
               PROVE  ProcOK(sh[p], BaseOf(T, p, e), T[p]) /\ (T[p].waits <=> p < Len(sh))
    BY DEF Levelled
  <2>1. p = 1 /\ T[p] = b /\ sh[p] = t /\ ~ (p < Len(sh)) BY <1>11, <1>12
  <2>2. BaseOf(T, p, e) = b BY <2>1, <1>2 DEF BaseOf
  <2>3. QED BY <2>1, <2>2, <1>3, <1>9
<1>14. 1 \in 1 .. MaxProcesses /\ 0 \in 0 .. MaxSignals BY DEF ScriptsAssumption
<1>15. Chain(sh, e) BY <1>11, <1>12, <1>13, <1>14 DEF Chain
<1>16. QED BY <1>1, <1>14, <1>15 DEF FlowInv, Init

LEMMA SignalKeeps ==
  ASSUME NEW s
  PROVE  Keeps(s, [s EXCEPT !.pending = TRUE])
<1> SUFFICES ASSUME NEW base, NEW v, ProcOK(s, base, v)
             PROVE  Goes([s EXCEPT !.pending = TRUE], base, v)
  BY DEF Keeps
<1>1. PICK X : s \in ShInterps(X) BY DEF ProcOK, Typed
<1>2. PICK t : t = [s EXCEPT !.pending = TRUE] OBVIOUS
<1>3. t \in ShInterps(X) /\ t.stack = s.stack /\ t.mode = s.mode BY <1>1, <1>2 DEF ShInterps
<1>4. Counts(t, v) BY <1>1, <1>2 DEF ShInterps, Counts, ProcOK
<1>5. ProcOK(t, base, v) BY <1>3, <1>4 DEF ProcOK, Typed, ModeOK
<1>6. QED BY <1>2, <1>5, GoesAtLevel

LEMMA SignalInWaitKeeps ==
  ASSUME ScriptsAssumption, script \in Scripts, NEW s, s.stack # <<>>, Top(s).k = "waitpid"
  PROVE  Keeps(s, RunTrap(s))
<1> SUFFICES ASSUME NEW base, NEW v, ProcOK(s, base, v)
             PROVE  Goes(RunTrap(s), base, v)
  BY DEF Keeps
<1>1. Waiting(Head(s.stack)) BY DEF Waiting, Top
<1>2. ProcOK(RunTrap(s), base, v) BY <1>1, TrapStarts DEF ProcOK
<1>3. QED BY <1>2, GoesAtLevel

LEMMA StepFlowInv ==
  ASSUME ScriptsAssumption, FlowInv, [Next]_vars
  PROVE  FlowInv'
<1>1. PICK X : sh \in Seq(X) BY DEF FlowInv, Chain
<1>2. script \in Scripts /\ signals \in 0 .. MaxSignals /\ Chain(sh, script.errexit) BY DEF FlowInv
<1>3. Len(sh) \in 1 .. MaxProcesses /\ MaxProcesses \in Nat BY <1>2 DEF Chain, ScriptsAssumption
<1>4. ASSUME NEW p \in 1 .. MaxProcesses, NEW t, Running(p), Becomes(p, t), Keeps(sh[p], t)
      PROVE  FlowInv'
  <2>1. p \in 1 .. Len(sh) BY <1>3, <1>4 DEF Running
  <2>2. QED BY <2>1, <1>2, <1>4, OneMoves DEF Becomes
<1>5. ASSUME NEW p \in 1 .. MaxProcesses, Run(p) PROVE FlowInv'
  <2>1. CASE Program(p)
    <3>1. Keeps(sh[p], shRunProgram(sh[p])) BY <2>1, <1>2, WithinKeeps DEF Program, Running
    <3>2. QED BY <3>1, <2>1, <1>4 DEF Program
  <2>2. CASE Simple(p)
    <3>1. Keeps(sh[p], shRunCommand(sh[p], Top(sh[p]).c)) BY <2>2, SimpleKeeps DEF Simple, Running
    <3>2. p \in 1 .. Len(sh) BY <2>2, <1>3 DEF Simple, Running
    <3>3. QED BY <3>1, <3>2, <2>2, <1>2, OneMoves DEF Simple
  <2>3. CASE Compound(p)
    <3>1. Keeps(sh[p], shRunCommand(sh[p], Top(sh[p]).c)) BY <2>3, CompoundKeeps DEF Compound, Running
    <3>2. QED BY <3>1, <2>3, <1>4 DEF Compound
  <2>4. CASE Subshell(p)
    <3>1. p = Len(sh) /\ Len(sh) < MaxProcesses /\ sh[p].stack # <<>> BY <2>4 DEF Subshell, Running
    <3>2. PICK s : s = sh[p] OBVIOUS
    <3>3. sh' = Append([sh EXCEPT ![Len(sh)] = Become(s, WaitFrame)], Process(Top(s).c.body, s))
      BY <2>4, <3>1, <3>2 DEF Subshell
    <3>4. Chain(sh', script.errexit) BY <3>1, <3>2, <3>3, <2>4, <1>2, Forks DEF Subshell
    <3>5. QED BY <3>4, <2>4, <1>2 DEF FlowInv, Subshell
  <2>5. CASE Collect(p)
    <3>1. p \in Nat \ {0} /\ p + 1 = Len(sh) BY <2>5 DEF Collect
    <3>2. PICK s : s = sh[p] OBVIOUS
    <3>3. /\ sh[p + 1].stack = <<>> /\ Top(s).k = "waitpid"
          /\ sh' = [SubSeq(sh, 1, p) EXCEPT ![p] = EndCommand(s, FALSE, sh[p + 1].ret)]
      BY <2>5, <3>2 DEF Collect
    <3>4. Chain(sh', script.errexit) BY <3>1, <3>2, <3>3, <1>2, Reaps
    <3>5. QED BY <3>4, <2>5, <1>2 DEF FlowInv, Collect
  <2>6. CASE Pipeline(p)
    <3>1. Keeps(sh[p], EndElement(sh[p])) /\ Keeps(sh[p], EndPipeline(sh[p]))
      BY <2>6, ReturnKeeps DEF Pipeline, Running
    <3>2. QED BY <3>1, <2>6, <1>4 DEF Pipeline
  <2>7. CASE Logical(p)
    <3>1. Keeps(sh[p], LogicalBack(sh[p])) BY <2>7, <1>2, WithinKeeps DEF Logical, Running
    <3>2. QED BY <3>1, <2>7, <1>4 DEF Logical
  <2>8. CASE runConditional(p)
    <3>1. Keeps(sh[p], EndCondition(sh[p])) BY <2>8, <1>2, WithinKeeps DEF runConditional, Running
    <3>2. QED BY <3>1, <2>8, <1>4 DEF runConditional
  <2>9. CASE runLoop(p)
    <3>1. Keeps(sh[p], LoopBack(sh[p])) BY <2>9, <1>2, WithinKeeps DEF runLoop, Running
    <3>2. QED BY <3>1, <2>9, <1>4 DEF runLoop
  <2>10. CASE Body(p)
    <3>1. Keeps(sh[p], EndCommand(sh[p], Top(sh[p]).exempt, sh[p].ret))
      BY <2>10, ReturnKeeps DEF Body, Running
    <3>2. QED BY <3>1, <2>10, <1>4 DEF Body
  <2>11. CASE Function(p)
    <3>1. Keeps(sh[p], EndFunction(sh[p])) BY <2>11, ReturnKeeps DEF Function, Running
    <3>2. QED BY <3>1, <2>11, <1>4 DEF Function
  <2>12. CASE Trap(p)
    <3>1. Keeps(sh[p], EndTrap(sh[p])) BY <2>12, ReturnKeeps DEF Trap, Running
    <3>2. QED BY <3>1, <2>12, <1>4 DEF Trap
  <2>13. CASE Main(p)
    <3>1. Keeps(sh[p], shRunExitTrap(sh[p])) BY <2>13, <1>2, WithinKeeps DEF Main, Running
    <3>2. QED BY <3>1, <2>13, <1>4 DEF Main
  <2>14. QED
    BY <1>5, <2>1, <2>2, <2>3, <2>4, <2>5, <2>6, <2>7, <2>8, <2>9, <2>10, <2>11, <2>12, <2>13 DEF Run
<1>6. 1 \in 1 .. Len(sh) BY <1>3
<1>7. CanSignal => signals' \in 0 .. MaxSignals /\ script' = script
  BY <1>2 DEF CanSignal, ScriptsAssumption
<1>8. CASE Signal
  <2>1. sh' = [sh EXCEPT ![1] = [sh[1] EXCEPT !.pending = TRUE]] BY <1>8 DEF Signal
  <2>2. QED BY <2>1, <1>6, <1>7, <1>8, SignalKeeps, OneMoves DEF Signal
<1>9. CASE SignalInWait
  <2>1. sh[1].stack # <<>> BY <1>2, <1>6, <1>9, ParentWaits DEF SignalInWait
  <2>2. Keeps(sh[1], RunTrap(sh[1])) BY <2>1, <1>2, <1>9, SignalInWaitKeeps DEF SignalInWait
  <2>3. QED BY <2>2, <1>6, <1>7, <1>9, OneMoves DEF SignalInWait
<1>10. CASE UNCHANGED vars BY <1>10 DEF FlowInv, vars
<1>11. QED BY <1>5, <1>8, <1>9, <1>10 DEF Next, Done

-----------------------------------------------------------------------------
(* What the levels say of the calls on a stack.                            *)

LEMMA UpTo ==
  ASSUME NEW n \in Nat, NEW S, 0 \in S, \A k \in 0 .. n - 1 : k \in S => k + 1 \in S
  PROVE  \A k \in 0 .. n : k \in S
<1> SUFFICES ASSUME NEW c \in 0 .. n, c \notin S PROVE FALSE OBVIOUS
<1>1. PICK R : R = (0 .. n) \ S OBVIOUS
<1>2. R \in SUBSET Nat /\ R # {} BY <1>1
<1>3. PICK x \in R : \A y \in R : x <= y BY <1>2, MinOfNaturals
<1>4. x \in 0 .. n /\ x # 0 /\ x \notin S BY <1>1, <1>3
<1>5. x - 1 \in 0 .. n - 1 /\ x - 1 \notin R BY <1>3, <1>4
<1>6. x - 1 \in S BY <1>1, <1>5
<1>7. (x - 1) + 1 \in S BY <1>5, <1>6
<1>8. QED BY <1>4, <1>7

Within(S, m, n) == S \cap (m .. n)

LEMMA CountDown ==
  ASSUME NEW n \in Nat, NEW S, NEW X, \A i \in 1 .. n + 1 : X[i] \in Nat,
         \A i \in 1 .. n : i \in S => X[i] = X[i + 1] + 1,
         \A i \in 1 .. n : i \notin S => X[i] = X[i + 1],
         NEW m \in 1 .. n + 1
  PROVE  /\ IsFiniteSet(Within(S, m, n)) /\ Cardinality(Within(S, m, n)) \in Nat
         /\ X[m] = X[n + 1] + Cardinality(Within(S, m, n))
<1> DEFINE Q(k) == S \cap (n + 1 - k .. n)
           Good == {k \in 0 .. n : IsFiniteSet(Q(k)) /\ X[n + 1 - k] = X[n + 1] + Cardinality(Q(k))}
<1>1. 0 \in Good
  <2>1. Q(0) = {} OBVIOUS
  <2>2. n + 1 - 0 = n + 1 /\ X[n + 1] \in Nat OBVIOUS
  <2>3. IsFiniteSet({}) /\ Cardinality({}) = 0 BY FS_EmptySet
  <2>4. IsFiniteSet(Q(0)) /\ Cardinality(Q(0)) = 0 BY <2>1, <2>3
  <2> HIDE DEF Q
  <2>5. X[n + 1 - 0] = X[n + 1] + Cardinality(Q(0)) BY <2>2, <2>4
  <2>6. QED BY <2>4, <2>5
<1>2. ASSUME NEW k \in 0 .. n - 1, k \in Good PROVE k + 1 \in Good
  <2>1. IsFiniteSet(Q(k)) /\ X[n + 1 - k] = X[n + 1] + Cardinality(Q(k)) BY <1>2
  <2>2. PICK i \in 1 .. n : i = n - k OBVIOUS
  <2>3. n + 1 - k = i + 1 /\ n + 1 - (k + 1) = i /\ k + 1 \in 0 .. n BY <2>2
  <2>4. Cardinality(Q(k)) \in Nat BY <2>1, FS_CardinalityType
  <2>5. CASE i \in S
    <3>1. Q(k + 1) = Q(k) \cup {i}
      <4>1. \A j \in n + 1 - (k + 1) .. n : j = i \/ j \in n + 1 - k .. n BY <2>2
      <4>2. \A j \in n + 1 - k .. n : j \in n + 1 - (k + 1) .. n BY <2>2
      <4>3. i \in n + 1 - (k + 1) .. n BY <2>2
      <4>4. QED BY <4>1, <4>2, <4>3, <2>5
    <3>2. i \notin Q(k) BY <2>2
    <3> HIDE DEF Q
    <3>3. IsFiniteSet(Q(k + 1)) /\ Cardinality(Q(k + 1)) = Cardinality(Q(k)) + 1
      BY <3>1, <3>2, <2>1, FS_AddElement
    <3>4. X[i] = X[i + 1] + 1 /\ X[n + 1] \in Nat BY <2>5
    <3>5. X[n + 1 - (k + 1)] = X[n + 1] + Cardinality(Q(k + 1))
      BY <3>3, <3>4, <2>1, <2>3, <2>4
    <3>6. QED BY <3>3, <3>5, <2>3
  <2>6. CASE i \notin S
    <3>1. Q(k + 1) = Q(k)
      <4>1. \A j \in n + 1 - (k + 1) .. n : j = i \/ j \in n + 1 - k .. n BY <2>2
      <4>2. \A j \in n + 1 - k .. n : j \in n + 1 - (k + 1) .. n BY <2>2
      <4>3. QED BY <4>1, <4>2, <2>6
    <3> HIDE DEF Q
    <3>2. X[i] = X[i + 1] BY <2>6
    <3>3. QED BY <3>1, <3>2, <2>1, <2>3
  <2>7. QED BY <2>5, <2>6
<1> HIDE DEF Good
<1>3. \A k \in 0 .. n : k \in Good BY <1>1, <1>2, UpTo
<1>4. PICK k \in 0 .. n : k = n + 1 - m OBVIOUS
<1>5. k \in Good /\ n + 1 - k = m BY <1>3, <1>4
<1> USE DEF Good
<1>6. IsFiniteSet(Q(k)) /\ X[n + 1 - k] = X[n + 1] + Cardinality(Q(k)) BY <1>5
<1>7. Q(k) = Within(S, m, n) BY <1>5 DEF Within
<1> HIDE DEF Q, Good
<1>8. QED BY <1>5, <1>6, <1>7, FS_CardinalityType

LEMMA AllDown ==
  ASSUME NEW n \in Nat, NEW S, NEW B,
         \A i \in 1 .. n : B[i] = TRUE <=> B[i + 1] = TRUE /\ i \notin S,
         NEW m \in 1 .. n + 1
  PROVE  B[m] = TRUE <=> B[n + 1] = TRUE /\ \A i \in m .. n : i \notin S
<1> DEFINE Q(k) == B[n + 1 - k] = TRUE <=> B[n + 1] = TRUE /\ \A i \in n + 1 - k .. n : i \notin S
           Good == {k \in 0 .. n : Q(k)}
<1>1. 0 \in Good
  <2>1. n + 1 - 0 = n + 1 /\ \A i \in n + 1 .. n : FALSE OBVIOUS
  <2>2. QED BY <2>1
<1>2. ASSUME NEW k \in 0 .. n - 1, k \in Good PROVE k + 1 \in Good
  <2>1. B[n + 1 - k] = TRUE <=> B[n + 1] = TRUE /\ \A i \in n + 1 - k .. n : i \notin S BY <1>2
  <2>2. PICK j \in 1 .. n : j = n - k OBVIOUS
  <2>3. n + 1 - k = j + 1 /\ n + 1 - (k + 1) = j /\ k + 1 \in 0 .. n BY <2>2
  <2>4. (\A i \in j .. n : i \notin S) <=> j \notin S /\ \A i \in j + 1 .. n : i \notin S
    <3>1. \A i \in j .. n : i = j \/ i \in j + 1 .. n OBVIOUS
    <3>2. \A i \in j + 1 .. n : i \in j .. n OBVIOUS
    <3>3. j \in j .. n OBVIOUS
    <3>4. QED BY <3>1, <3>2, <3>3
  <2>5. B[j] = TRUE <=> B[j + 1] = TRUE /\ j \notin S OBVIOUS
  <2>6. Q(k + 1) BY <2>1, <2>3, <2>4, <2>5
  <2>7. QED BY <2>3, <2>6
<1> HIDE DEF Good
<1>3. \A k \in 0 .. n : k \in Good BY <1>1, <1>2, UpTo
<1>4. PICK k \in 0 .. n : k = n + 1 - m OBVIOUS
<1>5. k \in Good /\ n + 1 - k = m BY <1>3, <1>4
<1>6. Q(k) BY <1>5 DEF Good
<1>7. QED BY <1>5, <1>6

\* The calls of some kinds on the stack st, and those below its waitpid.
At(st, kinds) == {i \in 1 .. Len(st) : st[i].k \in kinds}
UnderWait(st) == {i \in 1 .. Len(st) : \E j \in At(st, {"waitpid"}) : i > j}

\* The counters say how many loops and functions are on the stack, and set -e is in
\* force unless something on it suppresses it; the same of the calls below waitpid.
LEMMA StackLevels ==
  ASSUME NEW st, NEW base \in States, NEW top, Well(st, base, top), ~ base.waits
  PROVE  /\ IsFiniteSet(At(st, {"loop"})) /\ IsFiniteSet(At(st, {"function"}))
         /\ top.now.loops = base.now.loops + Cardinality(At(st, {"loop"}))
         /\ top.now.functions = base.now.functions + Cardinality(At(st, {"function"}))
         /\ top.now.errexit <=> base.now.errexit /\ \A i \in 1 .. Len(st) : ~ Suppressing(st[i])
         /\ top.waits =>
              /\ top.wait.loops = base.now.loops + Cardinality(At(st, {"loop"}) \cap UnderWait(st))
              /\ top.wait.functions = base.now.functions + Cardinality(At(st, {"function"}) \cap UnderWait(st))
              /\ top.wait.errexit <=> base.now.errexit /\ \A i \in UnderWait(st) : ~ Suppressing(st[i])
<1>1. PICK S : /\ st \in Seq(S)
               /\ \E V \in [1 .. Len(st) + 1 -> States] :
                    /\ V[Len(st) + 1] = base /\ V[1] = top
                    /\ \A i \in 1 .. Len(st) :
                        V[i] = Inside(st[i], V[i + 1]) /\ FrameOK(st[i], V[i + 1])
  BY DEF Well
<1>2. PICK n \in Nat : n = Len(st) BY <1>1
<1>3. PICK V \in [1 .. n + 1 -> States] :
         /\ V[n + 1] = base /\ V[1] = top
         /\ \A i \in 1 .. n : V[i] = Inside(st[i], V[i + 1]) /\ FrameOK(st[i], V[i + 1])
  BY <1>1, <1>2
<1>4. PICK loops : loops = At(st, {"loop"}) OBVIOUS
<1>5. PICK functions : functions = At(st, {"function"}) OBVIOUS
<1>6. PICK suppressing : suppressing = {i \in 1 .. n : Suppressing(st[i])} OBVIOUS
<1>7. PICK waiting : waiting = At(st, {"waitpid"}) OBVIOUS
<1>8. /\ \A i \in 1 .. n : i \in loops <=> st[i].k = "loop"
      /\ \A i \in 1 .. n : i \in functions <=> st[i].k = "function"
      /\ \A i \in 1 .. n : i \in suppressing <=> Suppressing(st[i])
      /\ \A i \in 1 .. n : i \in waiting <=> st[i].k = "waitpid"
      /\ loops \subseteq 1 .. n /\ functions \subseteq 1 .. n
      /\ suppressing \subseteq 1 .. n /\ waiting \subseteq 1 .. n
  <2>1. /\ \A i \in 1 .. n : i \in loops <=> st[i].k = "loop"
        /\ loops \subseteq 1 .. n
    BY <1>2, <1>4 DEF At
  <2>2. /\ \A i \in 1 .. n : i \in functions <=> st[i].k = "function"
        /\ functions \subseteq 1 .. n
    BY <1>2, <1>5 DEF At
  <2>3. /\ \A i \in 1 .. n : i \in suppressing <=> Suppressing(st[i])
        /\ suppressing \subseteq 1 .. n
    BY <1>6
  <2>4. /\ \A i \in 1 .. n : i \in waiting <=> st[i].k = "waitpid"
        /\ waiting \subseteq 1 .. n
    BY <1>2, <1>7 DEF At
  <2>5. QED BY <2>1, <2>2, <2>3, <2>4
<1>9. PICK X \in [1 .. n + 1 -> Nat] : X = [i \in 1 .. n + 1 |-> V[i].now.loops] BY <1>3, LevelTypes
<1>10. PICK Y \in [1 .. n + 1 -> Nat] : Y = [i \in 1 .. n + 1 |-> V[i].now.functions] BY <1>3, LevelTypes
<1>11. PICK B : B = [i \in 1 .. n + 1 |-> V[i].now.errexit] OBVIOUS
<1>12. PICK free : free = [i \in 1 .. n + 1 |-> ~ V[i].waits] OBVIOUS
<1>22. ASSUME NEW i \in 1 .. n
       PROVE  /\ V[i].now.loops = IF st[i].k = "loop" THEN V[i + 1].now.loops + 1 ELSE V[i + 1].now.loops
              /\ V[i].now.functions
                   = IF st[i].k = "function" THEN V[i + 1].now.functions + 1 ELSE V[i + 1].now.functions
              /\ Suppressing(st[i]) => V[i].now.errexit = FALSE
              /\ ~ Suppressing(st[i]) => V[i].now.errexit = V[i + 1].now.errexit
              /\ st[i].k = "waitpid" => V[i].waits = TRUE /\ V[i].wait = V[i + 1].now
              /\ st[i].k # "waitpid" => V[i].waits = V[i + 1].waits /\ V[i].wait = V[i + 1].wait
  <2>1. PICK g : g = st[i] OBVIOUS
  <2>2. PICK u : u = V[i + 1] OBVIOUS
  <2>3. PICK w : w = V[i] OBVIOUS
  <2>4. w = Inside(g, u) BY <2>1, <2>2, <2>3, <1>3
  <2>5. PICK e : e = IF Suppressing(g) THEN FALSE ELSE u.now.errexit OBVIOUS
  <2>6. w.now.errexit = e BY <2>4, <2>5 DEF Inside
  <2>7. w.now.loops = IF g.k = "loop" THEN u.now.loops + 1 ELSE u.now.loops BY <2>4 DEF Inside
  <2>8. w.now.functions = IF g.k = "function" THEN u.now.functions + 1 ELSE u.now.functions
    BY <2>4 DEF Inside
  <2>9. g.k = "waitpid" => w.waits = TRUE /\ w.wait = u.now BY <2>4 DEF Inside
  <2>10. g.k # "waitpid" => w.waits = u.waits /\ w.wait = u.wait BY <2>4 DEF Inside
  <2>11. QED BY <2>1, <2>2, <2>3, <2>5, <2>6, <2>7, <2>8, <2>9, <2>10
<1>13. ASSUME NEW i \in 1 .. n
       PROVE  /\ X[i] = IF i \in loops THEN X[i + 1] + 1 ELSE X[i + 1]
              /\ Y[i] = IF i \in functions THEN Y[i + 1] + 1 ELSE Y[i + 1]
              /\ B[i] = TRUE <=> B[i + 1] = TRUE /\ i \notin suppressing
              /\ free[i] = TRUE <=> free[i + 1] = TRUE /\ i \notin waiting
  <2>1. i \in 1 .. n + 1 /\ i + 1 \in 1 .. n + 1 OBVIOUS
  <2>3. V[i + 1].now.errexit \in BOOLEAN /\ V[i + 1].waits \in BOOLEAN BY <2>1, <1>3, LevelTypes
  <2>4. X[i] = V[i].now.loops /\ X[i + 1] = V[i + 1].now.loops BY <2>1, <1>9
  <2>5. Y[i] = V[i].now.functions /\ Y[i + 1] = V[i + 1].now.functions BY <2>1, <1>10
  <2>6. B[i] = V[i].now.errexit /\ B[i + 1] = V[i + 1].now.errexit BY <2>1, <1>11
  <2>7. (free[i] = TRUE <=> ~ V[i].waits) /\ (free[i + 1] = TRUE <=> ~ V[i + 1].waits) BY <2>1, <1>12
  <2>0. /\ i \in loops <=> st[i].k = "loop"
        /\ i \in functions <=> st[i].k = "function"
        /\ i \in suppressing <=> Suppressing(st[i])
        /\ i \in waiting <=> st[i].k = "waitpid"
    BY <1>8
  <2>8. X[i] = IF i \in loops THEN X[i + 1] + 1 ELSE X[i + 1] BY <2>0, <2>4, <1>22
  <2>9. Y[i] = IF i \in functions THEN Y[i + 1] + 1 ELSE Y[i + 1] BY <2>0, <2>5, <1>22
  <2>10. B[i] = TRUE <=> B[i + 1] = TRUE /\ i \notin suppressing
    <3>1. CASE Suppressing(st[i])
      <4>1. V[i].now.errexit = FALSE BY <3>1, <1>22
      <4>2. QED BY <3>1, <4>1, <2>0, <2>6
    <3>2. CASE ~ Suppressing(st[i])
      <4>1. V[i].now.errexit = V[i + 1].now.errexit BY <3>2, <1>22
      <4>2. QED BY <3>2, <4>1, <2>0, <2>6
    <3>3. QED BY <3>1, <3>2
  <2>11. free[i] = TRUE <=> free[i + 1] = TRUE /\ i \notin waiting
    <3>1. CASE st[i].k = "waitpid"
      <4>1. V[i].waits = TRUE BY <3>1, <1>22
      <4>2. QED BY <3>1, <4>1, <2>0, <2>7
    <3>2. CASE st[i].k # "waitpid"
      <4>1. V[i].waits = V[i + 1].waits BY <3>2, <1>22
      <4>2. QED BY <3>2, <4>1, <2>0, <2>7
    <3>3. QED BY <3>1, <3>2
  <2>12. QED BY <2>8, <2>9, <2>10, <2>11
<1>14. ASSUME NEW m \in 1 .. n + 1
       PROVE  /\ IsFiniteSet(loops \cap (m .. n)) /\ IsFiniteSet(functions \cap (m .. n))
              /\ V[m].now.loops = base.now.loops + Cardinality(loops \cap (m .. n))
              /\ V[m].now.functions = base.now.functions + Cardinality(functions \cap (m .. n))
              /\ V[m].now.errexit = TRUE <=> base.now.errexit = TRUE /\ \A i \in m .. n : i \notin suppressing
              /\ ~ V[m].waits <=> \A i \in m .. n : i \notin waiting
  <2>1. n + 1 \in 1 .. n + 1 OBVIOUS
  <2>2. X[m] = V[m].now.loops /\ X[n + 1] = base.now.loops BY <2>1, <1>3, <1>9
  <2>3. Y[m] = V[m].now.functions /\ Y[n + 1] = base.now.functions BY <2>1, <1>3, <1>10
  <2>4. B[m] = V[m].now.errexit /\ B[n + 1] = base.now.errexit BY <2>1, <1>3, <1>11
  <2>5. (free[m] = TRUE <=> ~ V[m].waits) /\ free[n + 1] = TRUE BY <2>1, <1>3, <1>12
  <2>6. IsFiniteSet(loops \cap (m .. n)) /\ X[m] = X[n + 1] + Cardinality(loops \cap (m .. n))
    <3>1. /\ \A i \in 1 .. n : i \in loops => X[i] = X[i + 1] + 1
          /\ \A i \in 1 .. n : i \notin loops => X[i] = X[i + 1]
      BY <1>13
    <3>3. \A i \in 1 .. n + 1 : X[i] \in Nat OBVIOUS
    <3>2. IsFiniteSet(Within(loops, m, n)) /\ X[m] = X[n + 1] + Cardinality(Within(loops, m, n))
      BY <3>1, <3>3, CountDown
    <3>4. QED BY <3>2 DEF Within
  <2>7. IsFiniteSet(functions \cap (m .. n)) /\ Y[m] = Y[n + 1] + Cardinality(functions \cap (m .. n))
    <3>1. /\ \A i \in 1 .. n : i \in functions => Y[i] = Y[i + 1] + 1
          /\ \A i \in 1 .. n : i \notin functions => Y[i] = Y[i + 1]
      BY <1>13
    <3>3. \A i \in 1 .. n + 1 : Y[i] \in Nat OBVIOUS
    <3>2. IsFiniteSet(Within(functions, m, n)) /\ Y[m] = Y[n + 1] + Cardinality(Within(functions, m, n))
      BY <3>1, <3>3, CountDown
    <3>4. QED BY <3>2 DEF Within
  <2>8. B[m] = TRUE <=> B[n + 1] = TRUE /\ \A i \in m .. n : i \notin suppressing BY <1>13, AllDown
  <2>9. free[m] = TRUE <=> free[n + 1] = TRUE /\ \A i \in m .. n : i \notin waiting BY <1>13, AllDown
  <2>10. QED BY <2>2, <2>3, <2>4, <2>5, <2>6, <2>7, <2>8, <2>9
<1>15. /\ IsFiniteSet(loops) /\ IsFiniteSet(functions)
       /\ top.now.loops = base.now.loops + Cardinality(loops)
       /\ top.now.functions = base.now.functions + Cardinality(functions)
       /\ top.now.errexit = TRUE <=> base.now.errexit = TRUE /\ \A i \in 1 .. n : i \notin suppressing
  <2>1. loops \cap (1 .. n) = loops /\ functions \cap (1 .. n) = functions BY <1>8
  <2>2. 1 \in 1 .. n + 1 OBVIOUS
  <2>3. QED BY <2>1, <2>2, <1>3, <1>14
<1>16. ASSUME top.waits
       PROVE  /\ top.wait.loops = base.now.loops + Cardinality(loops \cap UnderWait(st))
              /\ top.wait.functions = base.now.functions + Cardinality(functions \cap UnderWait(st))
              /\ top.wait.errexit = TRUE <=> base.now.errexit = TRUE /\ \A i \in UnderWait(st) : i \notin suppressing
  <2>1. PICK j \in 1 .. n : j \in waiting
    <3>1. 1 \in 1 .. n + 1 OBVIOUS
    <3>2. QED BY <3>1, <1>3, <1>14, <1>16
  <2>2. ASSUME NEW i \in 1 .. n, NEW l \in waiting, i < l PROVE i \notin waiting
    <3>1. i + 1 \in 1 .. n + 1 /\ l \in i + 1 .. n BY <2>2, <1>8
    <3>2. V[i + 1].waits BY <3>1, <1>14
    <3>3. FrameOK(st[i], V[i + 1]) BY <1>3
    <3>4. st[i].k # "waitpid" BY <3>2, <3>3 DEF FrameOK
    <3>5. QED BY <3>4, <1>8
  <2>3. \A i \in waiting : i = j
    <3>1. ASSUME NEW i \in waiting PROVE i = j
      <4>1. i \in 1 .. n BY <1>8
      <4>2. ~ (i < j) /\ ~ (j < i) BY <4>1, <2>1, <2>2
      <4>3. QED BY <4>1, <4>2
    <3>2. QED BY <3>1
  <2>4. UnderWait(st) = j + 1 .. n
    <3>1. UnderWait(st) = {i \in 1 .. n : i > j} BY <1>2, <1>7, <2>1, <2>3 DEF UnderWait
    <3>2. {i \in 1 .. n : i > j} = j + 1 .. n OBVIOUS
    <3>3. QED BY <3>1, <3>2
  <2>5. top.wait = V[j + 1].now
    <3> DEFINE Good == {k \in 0 .. j - 1 : V[j - k].wait = V[j + 1].now}
    <3>1. 0 \in Good
      <4>1. V[j].wait = V[j + 1].now BY <1>8, <1>22, <2>1
      <4>2. j - 0 = j BY <2>1
      <4>3. QED BY <4>1, <4>2
    <3>2. ASSUME NEW k \in 0 .. j - 1 - 1, k \in Good PROVE k + 1 \in Good
      <4>1. PICK i \in 1 .. n : i = j - (k + 1) /\ i < j /\ i + 1 = j - k OBVIOUS
      <4>2. i \notin waiting BY <4>1, <2>1, <2>2
      <4>3. V[i].wait = V[i + 1].wait BY <4>1, <4>2, <1>8, <1>22
      <4>4. QED BY <4>1, <4>3, <3>2
    <3> HIDE DEF Good
    <3>3. j - 1 \in Nat OBVIOUS
    <3>4. \A k \in 0 .. j - 1 : k \in Good BY <3>1, <3>2, <3>3, UpTo
    <3>5. j - 1 \in Good /\ j - (j - 1) = 1 BY <3>3, <3>4
    <3>6. QED BY <3>5, <1>3 DEF Good
  <2>6. j + 1 \in 1 .. n + 1 OBVIOUS
  <2>7. QED BY <2>4, <2>5, <2>6, <1>14
<1>17. top \in States BY TopIsState
<1>18. top.now.errexit \in BOOLEAN /\ base.now.errexit \in BOOLEAN /\ top.wait.errexit \in BOOLEAN
  BY <1>17, LevelTypes DEF Levels
<1>19. (\A i \in 1 .. n : i \notin suppressing) <=> \A i \in 1 .. Len(st) : ~ Suppressing(st[i])
  BY <1>2, <1>8
<1>20. (\A i \in UnderWait(st) : i \notin suppressing) <=> \A i \in UnderWait(st) : ~ Suppressing(st[i])
  BY <1>2, <1>8 DEF UnderWait
<1>21. QED BY <1>4, <1>5, <1>15, <1>16, <1>18, <1>19, <1>20

LEMMA KindsOfFrames ==
  ASSUME NEW st, NEW base, NEW top, Well(st, base, top)
  PROVE  \A i \in 1 .. Len(st) : st[i].k \in Kinds
BY DEF Well, FrameOK

\* What process p of a chain was forked with (level L[p]) and has done since.
ForkLevels(L) ==
    /\ L[1] = Start(script.errexit)
    /\ \A p \in 1 .. Len(sh) :
        /\ sh[p].loop_depth = L[p].loops + Cardinality(Frames(p, {"loop"}))
        /\ sh[p].func_depth = L[p].functions + Cardinality(Frames(p, {"function"}))
        /\ sh[p].opt_errexit <=> L[p].errexit /\ \A i \in 1 .. Len(sh[p].stack) : ~ Suppressing(sh[p].stack[i])
        /\ Cardinality(Frames(p, {"loop"})) \in Nat /\ Cardinality(Frames(p, {"function"})) \in Nat
    /\ \A p \in 1 .. Len(sh) - 1 :
        /\ L[p + 1].loops = L[p].loops + Cardinality(Frames(p, {"loop"}) \cap Inherited(p))
        /\ L[p + 1].functions = L[p].functions + Cardinality(Frames(p, {"function"}) \cap Inherited(p))
        /\ L[p + 1].errexit <=> L[p].errexit /\ \A i \in Inherited(p) : ~ Suppressing(sh[p].stack[i])
        /\ Cardinality(Frames(p, {"loop"}) \cap Inherited(p)) \in Nat
        /\ Cardinality(Frames(p, {"function"}) \cap Inherited(p)) \in Nat

LEMMA ChainLevels ==
  ASSUME ScriptsAssumption, FlowInv
  PROVE  /\ \E L \in [1 .. Len(sh) -> Levels] : ForkLevels(L)
         /\ TypeOK
         /\ \A p \in 1 .. Len(sh) :
              /\ sh[p].flow \in {"BREAK", "CONTINUE"} => sh[p].flow_count \in 1 .. sh[p].loop_depth
              /\ sh[p].flow = "RETURN" => sh[p].func_depth > 0
<1>1. PICK n \in Nat : n = Len(sh) BY DEF FlowInv, Chain
<1>2. PICK e \in BOOLEAN : e = script.errexit BY DEF FlowInv, ScriptsAssumption
<1>3. PICK T \in [1 .. n -> States] : Levelled(sh, T, e) BY <1>1, <1>2 DEF FlowInv, Chain
<1>4. n \in 1 .. MaxProcesses BY <1>1 DEF FlowInv, Chain
<1>5. ASSUME NEW p \in 1 .. n
      PROVE  /\ ProcOK(sh[p], BaseOf(T, p, e), T[p]) /\ (T[p].waits <=> p < n)
             /\ BaseOf(T, p, e) \in States /\ ~ BaseOf(T, p, e).waits
  <2>1. ProcOK(sh[p], BaseOf(T, p, e), T[p]) /\ (T[p].waits <=> p < n) BY <1>1, <1>3 DEF Levelled
  <2>2. BaseOf(T, p, e) \in States BY <2>1, TopIsState DEF ProcOK
  <2>3. BaseOf(T, p, e).waits = FALSE BY DEF BaseOf, ForkedAt
  <2>4. QED BY <2>1, <2>2, <2>3
<1>6. PICK L \in [1 .. n -> Levels] : L = [p \in 1 .. n |-> BaseOf(T, p, e).now]
  BY <1>5, LevelTypes
<1>7. ASSUME NEW p \in 1 .. n
      PROVE  /\ sh[p].loop_depth = L[p].loops + Cardinality(Frames(p, {"loop"}))
             /\ sh[p].func_depth = L[p].functions + Cardinality(Frames(p, {"function"}))
             /\ sh[p].opt_errexit <=> L[p].errexit /\ \A i \in 1 .. Len(sh[p].stack) : ~ Suppressing(sh[p].stack[i])
             /\ IsFiniteSet(Frames(p, {"loop"})) /\ IsFiniteSet(Frames(p, {"function"}))
             /\ p < n =>
                  /\ T[p].wait.loops = L[p].loops + Cardinality(Frames(p, {"loop"}) \cap Inherited(p))
                  /\ T[p].wait.functions = L[p].functions + Cardinality(Frames(p, {"function"}) \cap Inherited(p))
                  /\ T[p].wait.errexit <=> L[p].errexit /\ \A i \in Inherited(p) : ~ Suppressing(sh[p].stack[i])
  <2>1. PICK st : st = sh[p].stack OBVIOUS
  <2>2. PICK base \in States : base = BaseOf(T, p, e) /\ ~ base.waits BY <1>5
  <2>3. L[p] = base.now BY <2>2, <1>6
  <2>4. Well(st, base, T[p]) /\ Counts(sh[p], T[p]) /\ (T[p].waits <=> p < n)
    BY <2>1, <2>2, <1>5 DEF ProcOK
  <2>5. /\ Frames(p, {"loop"}) = At(st, {"loop"}) /\ Frames(p, {"function"}) = At(st, {"function"})
        /\ Frames(p, {"waitpid"}) = At(st, {"waitpid"})
    BY <2>1 DEF Frames, At
  <2>6. Inherited(p) = UnderWait(st) BY <2>1, <2>5 DEF Inherited, UnderWait
  <2>7. /\ sh[p].loop_depth = T[p].now.loops /\ sh[p].func_depth = T[p].now.functions
        /\ sh[p].opt_errexit = T[p].now.errexit
    BY <2>4 DEF Counts
  <2>8. /\ IsFiniteSet(At(st, {"loop"})) /\ IsFiniteSet(At(st, {"function"}))
        /\ T[p].now.loops = base.now.loops + Cardinality(At(st, {"loop"}))
        /\ T[p].now.functions = base.now.functions + Cardinality(At(st, {"function"}))
        /\ T[p].now.errexit <=> base.now.errexit /\ \A i \in 1 .. Len(st) : ~ Suppressing(st[i])
        /\ T[p].waits =>
              /\ T[p].wait.loops = base.now.loops + Cardinality(At(st, {"loop"}) \cap UnderWait(st))
              /\ T[p].wait.functions = base.now.functions + Cardinality(At(st, {"function"}) \cap UnderWait(st))
              /\ T[p].wait.errexit <=> base.now.errexit /\ \A i \in UnderWait(st) : ~ Suppressing(st[i])
    BY <2>2, <2>4, StackLevels
  <2>9. QED BY <2>1, <2>3, <2>4, <2>5, <2>6, <2>7, <2>8
<1>8. ASSUME NEW p \in 1 .. n - 1
      PROVE  L[p + 1] = T[p].wait
  <2>1. p + 1 \in 1 .. n /\ p + 1 # 1 /\ (p + 1) - 1 = p OBVIOUS
  <2>2. BaseOf(T, p + 1, e).now = T[p].wait BY <2>1 DEF BaseOf, ForkedAt
  <2>3. QED BY <2>1, <2>2, <1>6
<1>9. L[1] = Start(e)
  <2>1. 1 \in 1 .. n BY <1>4
  <2>2. BaseOf(T, 1, e).now = Start(e) BY DEF BaseOf, ForkedAt
  <2>3. QED BY <2>1, <2>2, <1>6
<1>10. ForkLevels(L)
  <2>1. ASSUME NEW p \in 1 .. n
        PROVE  /\ Cardinality(Frames(p, {"loop"})) \in Nat
               /\ Cardinality(Frames(p, {"function"})) \in Nat
               /\ Cardinality(Frames(p, {"loop"}) \cap Inherited(p)) \in Nat
               /\ Cardinality(Frames(p, {"function"}) \cap Inherited(p)) \in Nat
    <3>1. IsFiniteSet(Frames(p, {"loop"})) /\ IsFiniteSet(Frames(p, {"function"})) BY <1>7
    <3>2. /\ IsFiniteSet(Frames(p, {"loop"}) \cap Inherited(p))
          /\ IsFiniteSet(Frames(p, {"function"}) \cap Inherited(p))
      BY <3>1, FS_Intersection
    <3>3. QED BY <3>1, <3>2, FS_CardinalityType
  <2>2. ASSUME NEW p \in 1 .. n - 1
        PROVE  /\ L[p + 1].loops = L[p].loops + Cardinality(Frames(p, {"loop"}) \cap Inherited(p))
               /\ L[p + 1].functions = L[p].functions + Cardinality(Frames(p, {"function"}) \cap Inherited(p))
               /\ L[p + 1].errexit <=> L[p].errexit /\ \A i \in Inherited(p) : ~ Suppressing(sh[p].stack[i])
    <3>1. p \in 1 .. n /\ p < n OBVIOUS
    <3>2. QED BY <3>1, <1>7, <1>8
  <2>3. \A p \in 1 .. n - 1 : p \in 1 .. n OBVIOUS
  <2>4. QED BY <2>1, <2>2, <2>3, <1>1, <1>2, <1>7, <1>9 DEF ForkLevels
<1>11. ASSUME NEW p \in 1 .. n
       PROVE  /\ sh[p].flow \in {"BREAK", "CONTINUE"} => sh[p].flow_count \in 1 .. sh[p].loop_depth
              /\ sh[p].flow = "RETURN" => sh[p].func_depth > 0
  <2>1. Counts(sh[p], T[p]) BY <1>5 DEF ProcOK
  <2>2. T[p].now.bodies \in Nat /\ T[p].now.loops \in Nat /\ T[p].now.bodies <= T[p].now.loops
    BY <1>3, LevelTypes
  <2>3. QED BY <2>1, <2>2 DEF Counts
<1>12. TypeOK
  <2>1. ASSUME NEW p \in 1 .. Len(sh)
        PROVE  /\ \A i \in 1 .. Len(sh[p].stack) : sh[p].stack[i].k \in Kinds
               /\ sh[p].mode \in {"call", "back"}
               /\ sh[p].flow \in Flows
               /\ sh[p].flow_count \in Nat
               /\ {sh[p].ret, sh[p].exit_status, sh[p].last_status} \subseteq 0 .. 255
               /\ {sh[p].loop_depth, sh[p].func_depth, sh[p].fuel} \subseteq Nat
               /\ {sh[p].opt_errexit, sh[p].pending, sh[p].exit_trap} \subseteq BOOLEAN
    <3>1. Well(sh[p].stack, BaseOf(T, p, e), T[p]) /\ Typed(sh[p]) BY <1>1, <1>5 DEF ProcOK
    <3>2. PICK X : sh[p] \in ShInterps(X) BY <3>1 DEF Typed
    <3>3. \A i \in 1 .. Len(sh[p].stack) : sh[p].stack[i].k \in Kinds BY <3>1, KindsOfFrames
    <3>4. /\ sh[p].mode \in {"call", "back"} /\ sh[p].flow \in Flows /\ sh[p].flow_count \in Nat
          /\ sh[p].ret \in Bytes /\ sh[p].exit_status \in Bytes /\ sh[p].last_status \in Bytes
          /\ sh[p].loop_depth \in Nat /\ sh[p].func_depth \in Nat /\ sh[p].fuel \in Nat
          /\ sh[p].opt_errexit \in BOOLEAN /\ sh[p].pending \in BOOLEAN /\ sh[p].exit_trap \in BOOLEAN
      BY <3>2 DEF ShInterps
    <3>5. {sh[p].ret, sh[p].exit_status, sh[p].last_status} \subseteq Bytes BY <3>4
    <3>6. QED BY <3>3, <3>4, <3>5 DEF Bytes
  <2>2. Len(sh) \in 1 .. MaxProcesses /\ signals \in 0 .. MaxSignals BY <1>1, <1>4 DEF FlowInv
  <2>3. QED BY <2>1, <2>2, Zenon DEF TypeOK
<1>13. QED BY <1>1, <1>6, <1>10, <1>11, <1>12

LEMMA FlowInvFlowHasTarget ==
  ASSUME ScriptsAssumption, FlowInv
  PROVE  FlowHasTarget
<1>1. PICK L \in [1 .. Len(sh) -> Levels] : ForkLevels(L) BY ChainLevels
<1>2. TypeOK /\ Len(sh) \in Nat
  <2>1. TypeOK BY ChainLevels
  <2>2. Len(sh) \in Nat BY DEF FlowInv, Chain
  <2>3. QED BY <2>1, <2>2
<1>3. ASSUME NEW p \in 1 .. Len(sh)
      PROVE  L[p].loops \in Nat /\ L[p].functions \in Nat
  BY <1>1 DEF Levels
<1>4. SUFFICES ASSUME NEW p \in 1 .. Len(sh)
               PROVE  /\ sh[p].loop_depth
                           = Cardinality(Frames(p, {"loop"}))
                             + (IF p = 1 THEN 0
                                ELSE sh[p - 1].loop_depth
                                     + (Cardinality(Frames(p - 1, {"loop"}) \cap Inherited(p - 1))
                                        - Cardinality(Frames(p - 1, {"loop"}))))
                      /\ sh[p].func_depth
                           = Cardinality(Frames(p, {"function"}))
                             + (IF p = 1 THEN 0
                                ELSE sh[p - 1].func_depth
                                     + (Cardinality(Frames(p - 1, {"function"}) \cap Inherited(p - 1))
                                        - Cardinality(Frames(p - 1, {"function"}))))
  BY <1>2, ChainLevels DEF FlowHasTarget
<1>5. /\ sh[p].loop_depth = L[p].loops + Cardinality(Frames(p, {"loop"}))
      /\ sh[p].func_depth = L[p].functions + Cardinality(Frames(p, {"function"}))
      /\ Cardinality(Frames(p, {"loop"})) \in Nat /\ Cardinality(Frames(p, {"function"})) \in Nat
  BY <1>1 DEF ForkLevels
<1>6. CASE p = 1
  <2>1. L[p].loops = 0 /\ L[p].functions = 0 BY <1>1, <1>6 DEF ForkLevels, Start
  <2>2. QED BY <2>1, <1>5, <1>6
<1>7. CASE p # 1
  <2>1. PICK q \in 1 .. Len(sh) - 1 : q = p - 1 /\ p = q + 1 BY <1>7, <1>2
  <2>2. q \in 1 .. Len(sh) BY <2>1, <1>2
  <2>3. /\ sh[q].loop_depth = L[q].loops + Cardinality(Frames(q, {"loop"}))
        /\ sh[q].func_depth = L[q].functions + Cardinality(Frames(q, {"function"}))
        /\ Cardinality(Frames(q, {"loop"})) \in Nat /\ Cardinality(Frames(q, {"function"})) \in Nat
    BY <2>2, <1>1 DEF ForkLevels
  <2>4. /\ L[p].loops = L[q].loops + Cardinality(Frames(q, {"loop"}) \cap Inherited(q))
        /\ L[p].functions = L[q].functions + Cardinality(Frames(q, {"function"}) \cap Inherited(q))
        /\ Cardinality(Frames(q, {"loop"}) \cap Inherited(q)) \in Nat
        /\ Cardinality(Frames(q, {"function"}) \cap Inherited(q)) \in Nat
    BY <2>1, <1>1 DEF ForkLevels
  <2>5. L[q].loops \in Nat /\ L[q].functions \in Nat BY <2>2, <1>3
  <2>6. sh[p].loop_depth
          = Cardinality(Frames(p, {"loop"}))
            + (sh[q].loop_depth + (Cardinality(Frames(q, {"loop"}) \cap Inherited(q))
                                   - Cardinality(Frames(q, {"loop"}))))
    <3>1. PICK a \in Nat : a = Cardinality(Frames(p, {"loop"})) BY <1>5
    <3>2. PICK b \in Nat : b = Cardinality(Frames(q, {"loop"}) \cap Inherited(q)) BY <2>4
    <3>3. PICK c \in Nat : c = Cardinality(Frames(q, {"loop"})) BY <2>3
    <3>4. PICK l \in Nat : l = L[q].loops BY <2>5
    <3>5. sh[p].loop_depth = (l + b) + a /\ sh[q].loop_depth = l + c
      BY <3>1, <3>2, <3>3, <3>4, <2>3, <2>4, <1>5
    <3>6. (l + b) + a = a + ((l + c) + (b - c)) OBVIOUS
    <3>7. QED BY <3>1, <3>2, <3>3, <3>5, <3>6
  <2>7. sh[p].func_depth
          = Cardinality(Frames(p, {"function"}))
            + (sh[q].func_depth + (Cardinality(Frames(q, {"function"}) \cap Inherited(q))
                                   - Cardinality(Frames(q, {"function"}))))
    <3>1. PICK a \in Nat : a = Cardinality(Frames(p, {"function"})) BY <1>5
    <3>2. PICK b \in Nat : b = Cardinality(Frames(q, {"function"}) \cap Inherited(q)) BY <2>4
    <3>3. PICK c \in Nat : c = Cardinality(Frames(q, {"function"})) BY <2>3
    <3>4. PICK l \in Nat : l = L[q].functions BY <2>5
    <3>5. sh[p].func_depth = (l + b) + a /\ sh[q].func_depth = l + c
      BY <3>1, <3>2, <3>3, <3>4, <2>3, <2>4, <1>5
    <3>6. (l + b) + a = a + ((l + c) + (b - c)) OBVIOUS
    <3>7. QED BY <3>1, <3>2, <3>3, <3>5, <3>6
  <2>8. p - 1 = q BY <2>1
  <2>9. QED BY <2>6, <2>7, <2>8, <1>7
<1>8. QED BY <1>6, <1>7

LEMMA FlowInvErrexit ==
  ASSUME ScriptsAssumption, FlowInv
  PROVE  ErrexitFollowsContext
<1>1. PICK L \in [1 .. Len(sh) -> Levels] : ForkLevels(L) BY ChainLevels
<1>2. PICK n \in Nat : n = Len(sh) /\ n > 0 BY DEF FlowInv, Chain, ScriptsAssumption
<1> DEFINE Free(q) == \A i \in Inherited(q) : ~ Suppressing(sh[q].stack[i])
           Good == {k \in 0 .. n - 1 :
                      L[k + 1].errexit <=> script.errexit /\ \A q \in 1 .. k : Free(q)}
<1>3. 0 \in Good
  <2>1. L[0 + 1].errexit = script.errexit BY <1>1 DEF ForkLevels, Start
  <2>2. \A q \in 1 .. 0 : FALSE OBVIOUS
  <2>3. QED BY <2>1, <2>2, <1>2
<1>4. ASSUME NEW k \in 0 .. n - 1 - 1, k \in Good PROVE k + 1 \in Good
  <2>1. k + 1 \in 1 .. n - 1 BY <1>2
  <2>2. L[(k + 1) + 1].errexit <=> L[k + 1].errexit /\ Free(k + 1)
    BY <2>1, <1>1, <1>2 DEF ForkLevels
  <2>3. L[k + 1].errexit <=> script.errexit /\ \A q \in 1 .. k : Free(q) BY <1>4
  <2>4. (\A q \in 1 .. k + 1 : Free(q)) <=> Free(k + 1) /\ \A q \in 1 .. k : Free(q)
    <3>1. \A q \in 1 .. k + 1 : q = k + 1 \/ q \in 1 .. k OBVIOUS
    <3>2. k + 1 \in 1 .. k + 1 /\ \A q \in 1 .. k : q \in 1 .. k + 1 OBVIOUS
    <3> HIDE DEF Free
    <3>3. QED BY <3>1, <3>2
  <2> HIDE DEF Free
  <2>5. L[(k + 1) + 1].errexit <=> script.errexit /\ \A q \in 1 .. k + 1 : Free(q)
    BY <2>2, <2>3, <2>4
  <2>6. k + 1 \in 0 .. n - 1 BY <2>1
  <2>7. QED BY <2>5, <2>6
<1>5. n - 1 \in Nat BY <1>2
<1> HIDE DEF Good
<1>6. \A k \in 0 .. n - 1 : k \in Good BY <1>3, <1>4, <1>5, UpTo
<1>7. SUFFICES ASSUME NEW p \in 1 .. n
               PROVE  sh[p].opt_errexit <=> script.errexit /\ \A f \in Context(p) : ~ Suppressing(f)
  BY <1>2 DEF ErrexitFollowsContext
<1>8. sh[p].opt_errexit <=> L[p].errexit /\ \A i \in 1 .. Len(sh[p].stack) : ~ Suppressing(sh[p].stack[i])
  BY <1>1, <1>2 DEF ForkLevels
<1>9. L[p].errexit <=> script.errexit /\ \A q \in 1 .. p - 1 : Free(q)
  <2>1. PICK k \in 0 .. n - 1 : k = p - 1 /\ k + 1 = p BY <1>2
  <2> HIDE DEF Free
  <2>2. k \in Good BY <1>6
  <2>3. QED BY <2>1, <2>2 DEF Good
<1>10. (\A f \in Context(p) : ~ Suppressing(f))
         <=> /\ \A i \in 1 .. Len(sh[p].stack) : ~ Suppressing(sh[p].stack[i])
             /\ \A q \in 1 .. p - 1 : Free(q)
  <2>1. ASSUME \A f \in Context(p) : ~ Suppressing(f)
        PROVE  /\ \A i \in 1 .. Len(sh[p].stack) : ~ Suppressing(sh[p].stack[i])
               /\ \A q \in 1 .. p - 1 : Free(q)
    <3>1. ASSUME NEW i \in 1 .. Len(sh[p].stack) PROVE sh[p].stack[i] \in Context(p)
      <4>1. p \in 1 .. p OBVIOUS
      <4>2. sh[p].stack[i] \in {sh[p].stack[j] : j \in IF p = p THEN 1 .. Len(sh[p].stack) ELSE Inherited(p)}
        OBVIOUS
      <4>3. QED BY <4>1, <4>2 DEF Context
    <3>2. ASSUME NEW q \in 1 .. p - 1, NEW i \in Inherited(q) PROVE sh[q].stack[i] \in Context(p)
      <4>1. q \in 1 .. p /\ q # p OBVIOUS
      <4>2. sh[q].stack[i] \in {sh[q].stack[j] : j \in IF q = p THEN 1 .. Len(sh[q].stack) ELSE Inherited(q)}
        BY <4>1
      <4>3. QED BY <4>1, <4>2 DEF Context
    <3>3. QED BY <2>1, <3>1, <3>2
  <2>2. ASSUME \A i \in 1 .. Len(sh[p].stack) : ~ Suppressing(sh[p].stack[i]),
               \A q \in 1 .. p - 1 : Free(q),
               NEW f \in Context(p)
        PROVE  ~ Suppressing(f)
    <3>1. PICK q \in 1 .. p : \E i \in IF q = p THEN 1 .. Len(sh[q].stack) ELSE Inherited(q) : f = sh[q].stack[i]
      BY <2>2 DEF Context
    <3>2. CASE q = p BY <3>1, <3>2, <2>2
    <3>3. CASE q # p
      <4>1. q \in 1 .. p - 1 BY <3>3
      <4>2. Free(q) BY <4>1, <2>2
      <4>3. QED BY <3>1, <3>3, <4>2
    <3>4. QED BY <3>2, <3>3
  <2>3. QED BY <2>1, <2>2
<1>11. QED BY <1>8, <1>9, <1>10

\* For every script, depth of subshells and number of signals: a break or continue
\* under way always has the loops it still has to leave on the stack, a return its
\* function, and the counters of loops and functions say what is on the stack
\* (runLoop, callFunction, the flow fields of ShInterp).
THEOREM FlowAlwaysHasTarget == Spec => []FlowHasTarget
<1>1. Init => FlowInv BY ScriptsAssumption, InitFlowInv
<1>2. FlowInv /\ [Next]_vars => FlowInv' BY ScriptsAssumption, StepFlowInv
<1>3. FlowInv => FlowHasTarget BY ScriptsAssumption, FlowInvFlowHasTarget
<1>4. QED BY <1>1, <1>2, <1>3, PTL DEF Spec

\* set -e is in force exactly outside conditions and all but the last elements of
\* and-or lists, in every process, however the shell got there (the saves and restores
\* of opt_errexit in runLogical, runConditional and runLoop).
THEOREM ErrexitAlwaysFollowsContext == Spec => []ErrexitFollowsContext
<1>1. Init => FlowInv BY ScriptsAssumption, InitFlowInv
<1>2. FlowInv /\ [Next]_vars => FlowInv' BY ScriptsAssumption, StepFlowInv
<1>3. FlowInv => ErrexitFollowsContext BY ScriptsAssumption, FlowInvErrexit
<1>4. QED BY <1>1, <1>2, <1>3, PTL DEF Spec

=============================================================================
