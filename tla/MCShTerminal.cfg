\* A pipeline or a subshell that is stopped by Ctrl-Z blocks the shell for ever,
\* and so the system may really stop.
CONSTANT Forms <- MCForms
SPECIFICATION Spec
INVARIANTS TerminalAtRest NoTerminalStop PipelineInOneGroup
PROPERTY PromptComesBack
CHECK_DEADLOCK FALSE
