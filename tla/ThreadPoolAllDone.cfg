\* One thread and two jobs: the second is taken when the first is done.
CONSTANTS
    Threads = 1
    MaxJobs = 2
    MaxStartqueue = 0

SPECIFICATION Spec

PROPERTY AllDoneMeansDone
