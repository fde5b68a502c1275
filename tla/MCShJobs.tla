------------------------------ MODULE MCShJobs ------------------------------
(* ShJobs for TLC: two children at a time, three jobs in all, the three ways *)
(* shMain starts a shell: interactive, a script, a script with -m.  One  *)
(* pid is also a job id, as in a container where pids are small.             *)
EXTENDS ShJobs

MCPids == {2, 11}
MCCodes == {0, 7}
MCJobIds == 1 .. 3
MCShells == {[interactive |-> TRUE, opt_monitor |-> TRUE],
             [interactive |-> FALSE, opt_monitor |-> FALSE],
             [interactive |-> FALSE, opt_monitor |-> TRUE]}
=============================================================================
