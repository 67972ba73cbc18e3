CONSTANTS
  Providers <- MCProviders
  Latencies <- MCLatencies
  Rounded <- MCRounded
  Cases = 2
SPECIFICATION BenchmarkSpec
INVARIANT EveryCallIsReported
CHECK_DEADLOCK FALSE
