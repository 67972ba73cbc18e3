CONSTANT MaxChanges = 2
CONSTANT ExitCodes <- MCExitCodes
SPECIFICATION VerifySpec
INVARIANTS
  HiddenTestsAreGuarded
  RaisesOnlyWhenCutShort
  StageIsTheContainers
  InterruptIsKept
  KnownContainerIsRemoved
PROPERTIES
  VerdictIsForTheCandidate
  RemovalIsAttempted
  ImplementsService
  HangsOnlyWithTheTests
CHECK_DEADLOCK FALSE
