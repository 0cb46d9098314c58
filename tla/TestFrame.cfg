\* Two threads; with and without a quota, a throttle and a time limit.  No symmetry, for
\* the liveness properties.
CONSTANTS
    Workers = {w1, w2}
    NoThread = NoThread
    RepeatCounts = {0, 1, 2}
    Frequences = {0, 1, 2}
    DurationTimes = {0, 1}
    MaxSpurious = 1
SPECIFICATION FairSpec
INVARIANTS
    TypeOK
    QuotaRespected
    NoEarlyExit
    ThrottleHolds
    StartBarrierHolds
PROPERTIES
    ImplementsLoadBudget
    DurationHonoured
    QuotaCompletes
    WaitersReleased
