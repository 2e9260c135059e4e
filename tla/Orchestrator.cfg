SPECIFICATION FairSpec
CONSTANTS
    Phases <- ShortChain
    MaxResolve = 1
    MaxPatch = 2
    MaxCiFix = 2
    CiMaxPolls = 1
    SettlePolls = 1
    Verify = TRUE
    ForceRun = FALSE
    AllowDirty = FALSE
    MaxBlockers = 2
    MaxVersion = 2
    MaxRuns = 2
INVARIANTS MergedOnce NothingSkipped HonestExit
PROPERTIES MergeOnlyOnGreen BlockersHanded Terminates
CHECK_DEADLOCK FALSE
