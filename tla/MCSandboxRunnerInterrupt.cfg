CONSTANT ExitCodes <- MCExitCodes
SPECIFICATION Spec
INVARIANT InterruptIsKept
CHECK_DEADLOCK FALSE
