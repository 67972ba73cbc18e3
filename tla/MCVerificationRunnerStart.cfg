CONSTANT ExitCodes <- MCExitCodes
SPECIFICATION Spec
INVARIANT VerdictNeedsARun
CHECK_DEADLOCK FALSE
