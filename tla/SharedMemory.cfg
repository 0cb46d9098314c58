\* Two messages, of one byte and of two, in a ring of seven; a hash map of three
\* units, a tree of up to ten.
CONSTANTS
    short = short
    long = long
    Messages = {short, long}
    NoMessage = NoMessage
    Length <- MCLength
    RingSize = 7
    WordSize = 2
    CountModulus = 4
    ReserveLen = 1
    MaxNum = 1
    x = x
    y = y
    z = z
    Index <- MCIndex
    Settings <- MCSettings
    NoKey = NoKey
    Slots = {1, 2, 3}
    Buckets = {0, 1}
    TreeUnits = {1, 2, 3, 4, 5, 6, 7, 8, 9, 10}
    TreeKeys = {1, 2, 3, 4, 5, 6, 7, 8, 9, 10}
    EraseCount = 1
SPECIFICATION SharedSpec
SYMMETRY Symmetry
INVARIANTS
    SharedTypeOK
    LooksAreRight
    SQueueAssertsHold
    StaysUsable
    TreeIsSound
    CountsAgree
    DirtyIsReached
PROPERTIES
    ImplementsFifo
    AtomicUpdate
    SQueueImplementsFifo
    NothingSkipped
