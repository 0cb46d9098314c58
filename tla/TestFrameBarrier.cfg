\* One thread, no limit on the frequency: the broadcast of the barrier is lost.
CONSTANTS
    Workers = {w1}
    NoThread = NoThread
    RepeatCounts = {0}
    Frequences = {0}
    DurationTimes = {0}
    MaxSpurious = 0
SPECIFICATION FairSpec
PROPERTIES
    StartBarrierOpens
