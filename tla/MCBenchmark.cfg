CONSTANTS
  Providers <- MCProviders
  Latencies <- MCLatencies
  Rounded <- MCRounded
  Cases = 3
SPECIFICATION BenchmarkSpec
INVARIANTS
  FailsFast
  UsageIsItsOwn
  OnlyRoundingIsRefused
  ExitIsHonest
PROPERTIES
  InterruptEndsBenchmark
CHECK_DEADLOCK FALSE
