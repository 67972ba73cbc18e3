CONSTANT Providers <- MCProviders
SPECIFICATION RunSpec
INVARIANT RemovedOnEveryExit
CHECK_DEADLOCK FALSE
