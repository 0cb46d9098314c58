\* Three calls; answers of one part, of as many as a recv returns, and of more.
CONSTANTS
    Sizes = {1, 2, 3}
    RecvParts = 2
    MaxCalls = 3
SPECIFICATION FairSpec
INVARIANTS
    LagBound
    SuccessesAnswered
    KilledOnlyAfterTimeout
PROPERTIES
    CallReturns
