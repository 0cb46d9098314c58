\* Slow requests and a threshold: the health that is printed is no percentage.
CONSTANTS
    Workers = {w1, w2}
    Delays = {1, 3}
    Thresholds = {2}
    NoDelay = 9
    NoDelay_ps = 8
    MaxRequests = 3
    Watches <- EveryWatch
SPECIFICATION Spec
INVARIANTS
    HealthIsPercentage
