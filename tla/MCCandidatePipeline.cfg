CONSTANT ExitCodes <- MCExitCodes
CONSTANT EarlyTimeouts = TRUE
CONSTANT SyntaxChecks = 2
CONSTANT ToolChecks = 1
CONSTANT MaxFindings = 2
CONSTANT MaxPayload = 2
CONSTANT MaxEdits = 2
CONSTANT Files = 2
CONSTANT Texts = {"a", "b"}
CONSTANT MaxChanges = 2
CONSTANT Gone = Gone
CONSTANT PyFiles = 2
CONSTANT Definitions = 2
CONSTANT Namesakes <- MCNamesakes
CONSTANT MaxFrames = 2
CONSTANT MaxMentions = 3
CONSTANT Limits <- MCLimits
CONSTANT Path = {"p", "q"}
CONSTANT Protected = {"q"}
CONSTANT Planned <- MCPlanned
CONSTANT Trees <- MCTrees
CONSTANT Line = {"a", "b", "e"}
CONSTANT Assertions = {"b"}
CONSTANT Empty = "e"
CONSTANT Headers <- MCHeaders
CONSTANT MaxText = 6
CONSTANT MaxChanged = 2
CONSTANT MaxFiles = 1
SPECIFICATION PipelineSpec
INVARIANTS
  AlwaysAnswers
  PassesOnlyTheClean
  OnlyTheCandidateStays
  InterruptEndsValidate
  CollectsTheReachable
  ChangesAreApproved
  PreparedIsASnapshot
PROPERTIES
  VerdictIsOnTheCopy
  Validates
  OwnsItsDirectory
  KeepsTheBest
  AppliedAsWritten
CHECK_DEADLOCK FALSE
