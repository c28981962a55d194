SPECIFICATION FairSpec
CONSTANTS
    Ids = {a, b, c}
    Anonymous = {a, b, c}
    Keys = {k}
    Starts = {c1}
    Fences = {}
    MaxRequests = 2
    MaxTasks = 3
    Attempts = {"completed"}
    None = None
INVARIANTS
    OneRunPerConversation ConversationsReclaimed
PROPERTIES
    WorkEnds
CHECK_DEADLOCK FALSE
