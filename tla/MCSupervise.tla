----------------------------- MODULE MCSupervise -----------------------------
(* Supervise for TLC: every request of one attempt, and the two attempts of   *)
(* init, with a child of each outcome; two children and one orphan.          *)
EXTENDS Supervise

MCRequests ==
    {[attempts |-> <<a>>, setpgid_self |-> g] : a \in Outcomes, g \in BOOLEAN}
    \cup {[attempts |-> <<a, b>>, setpgid_self |-> FALSE] :
              a \in {"ENOENT", "EACCES"}, b \in {"runs", "ENOENT", "EACCES"}}
MCApplets == {"timeout", "time", "init", "runit"}
MCPids == {2, 3}
MCAdopted == {4}
=============================================================================
