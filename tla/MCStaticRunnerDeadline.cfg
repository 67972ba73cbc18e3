CONSTANT ExitCodes <- MCExitCodes
CONSTANT EarlyTimeouts = FALSE
SPECIFICATION Spec
PROPERTY SpentDeadlineIsTimeout
CHECK_DEADLOCK FALSE
