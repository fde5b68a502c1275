---------------------------- MODULE MCShTerminal ----------------------------
(* ShTerminal for TLC: every command, with two stages and their children.   *)
EXTENDS ShTerminal

MCForms == {[form |-> "external", body |-> "external"]}
              \cup [form : {"subshell", "pipeline"}, body : {"builtin", "external"}]
=============================================================================
