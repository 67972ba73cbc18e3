CONSTANT Providers <- MCProviders
SPECIFICATION RunSpec
INVARIANTS
  RunTypeOK
  SuccessIsEarned
  AlwaysRoutable
  UsageAccounted
  DecidedIsPublishable
  ExitIsEarned
  ArtifactIsHonest
PROPERTIES
  OnlyRoutingRaises
  EvidenceIsFinal
  InterruptIsFinal
  ImplementsVerdict
CHECK_DEADLOCK FALSE
