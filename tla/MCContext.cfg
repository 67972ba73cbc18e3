CONSTANT PyFiles = 1
CONSTANT Definitions = 2
CONSTANT Namesakes <- MCNamesakes
CONSTANT MaxFrames = 2
CONSTANT MaxMentions = 1
CONSTANT Limits <- MCLimits
SPECIFICATION ContextSpec
INVARIANT FailuresAreTyped
CHECK_DEADLOCK FALSE
