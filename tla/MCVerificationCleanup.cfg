CONSTANT MaxChanges = 0
CONSTANT ExitCodes <- MCExitCodes
SPECIFICATION VerifySpec
INVARIANT CleanupFailureIsVisible
CHECK_DEADLOCK FALSE
