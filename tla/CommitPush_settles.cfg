\* Three uploads, a part re-uploaded: every upload that lands is pushed.
SPECIFICATION CalmSpec
CONSTANTS
    a1 = a1
    a2 = a2
    b1 = b1
    Upload = {a1, a2, b1}
    Part <- RetryAndPart
    Surface = {"status"}
    Status = "status"
    NoWorker = NoWorker
    PushLease = 3
    PushTimeout = 1
    FinishTimeout = 1
    MaxFollowUpRounds = 4
    MaxTime = 1
INVARIANT SettledBoardIsNewest
PROPERTY LandedReachesForge
CHECK_DEADLOCK FALSE
