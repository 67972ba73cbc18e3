CONSTANT ExitCodes <- MCExitCodes
SPECIFICATION Spec
INVARIANTS
  VerdictIsTheContainers
PROPERTIES
  NothingLeftBehind
  HangsOnlyWithTheTests
CHECK_DEADLOCK FALSE
