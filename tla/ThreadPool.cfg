\* Two threads, so that one works, or is stopped, while the other takes a job; two jobs,
\* so that their order matters; the functors of one start(tf), before any job is added.
CONSTANTS
    Threads = 2
    MaxJobs = 2
    MaxStartqueue = 2
SPECIFICATION FairSpec
PROPERTIES
    ImplementsJobPool
    MissesOnlyTaken
    JobsReturn
    StopReturns
    WaitReturns
