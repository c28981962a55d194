SPECIFICATION FairSpec
CONSTANTS
    MaxRequest = 1
    MaxInstance = 2
    Cancelled = {1}
    Expiring = {1}
    MayDispose = TRUE
INVARIANTS
    TerminalIsProof
PROPERTIES
    AnswerIsStored InteractiveSettles
CHECK_DEADLOCK FALSE
