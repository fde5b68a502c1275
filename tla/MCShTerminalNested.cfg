CONSTANT Forms <- MCForms
SPECIFICATION Spec
INVARIANT NoTerminalStopAnywhere
CHECK_DEADLOCK FALSE
