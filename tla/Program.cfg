\* Two threads; files with one or two entries, each with at most one thing amiss.
CONSTANTS
    IntModulus = 8
    LongModulus = 64
    Configurations <- OneOrTwo
    Commands = {1, 7}
    MaxThreads = 2
SPECIFICATION FairSpec
INVARIANTS
    HarmOnlyAtExit
    WritersUndisturbed
    FirstEntryRuns
PROPERTIES
    ExitEnds
