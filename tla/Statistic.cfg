\* Two workers and three requests, with and without a threshold between the delays.
CONSTANTS
    Workers = {w1, w2}
    Delays = {1, 3}
    Thresholds = {0, 2}
    NoDelay = 9
    NoDelay_ps = 8
    MaxRequests = 3
    Watches <- EveryWatch
SPECIFICATION Spec
SYMMETRY Symmetry
INVARIANTS
    ExactTotals
    NoDoubleCount
    OverallCoversSecond
