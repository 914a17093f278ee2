\* Two goroutines and two Inits on the same ports; one of the goroutines also
\* operates the sides itself.
CONSTANTS
  Apps = {a1, a2}
  Owners = {a1}
  MaxInits = 2
  Configs <- MCConfigs
SPECIFICATION FairSpec
INVARIANTS FailedInitLeavesNothing OnlyPublishedRuns PredecessorIsGone BackLinkTrue
PROPERTIES CallsReturn
CHECK_DEADLOCK FALSE
