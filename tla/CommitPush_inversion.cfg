\* Two uploads whose rows become visible out of id order.
SPECIFICATION Spec
CONSTANTS
    a1 = a1
    a2 = a2
    b1 = b1
    Upload = {a1, b1}
    Part <- TwoParts
    Surface = {"status"}
    Status = "status"
    NoWorker = NoWorker
    PushLease = 3
    PushTimeout = 1
    FinishTimeout = 1
    MaxFollowUpRounds = 2
    MaxTime = 0
INVARIANT ForgeEndsOnNewest
CHECK_DEADLOCK FALSE
