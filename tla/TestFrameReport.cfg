\* Two threads and a quota of two requests: the last report misses one.
CONSTANTS
    Workers = {w1, w2}
    NoThread = NoThread
    RepeatCounts = {2}
    Frequences = {0}
    DurationTimes = {0}
    MaxSpurious = 0
SPECIFICATION Spec
INVARIANTS
    FinalReportComplete
