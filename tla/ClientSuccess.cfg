\* One call that times out.
CONSTANTS
    Sizes = {1}
    RecvParts = 1
    MaxCalls = 1
SPECIFICATION Spec
INVARIANTS
    SuccessMeansAnswer
