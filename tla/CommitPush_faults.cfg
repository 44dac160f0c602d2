\* Two uploads, every failure, the clock running past a lease.
SPECIFICATION Spec
CONSTANTS
    a1 = a1
    a2 = a2
    b1 = b1
    Upload = {a1, b1}
    Part <- TwoParts
    Surface = {"status", "comment"}
    Status = "status"
    NoWorker = NoWorker
    PushLease = 3
    PushTimeout = 1
    FinishTimeout = 1
    MaxFollowUpRounds = 2
    MaxTime = 4
INVARIANTS OnePushAtATime HeldLeaseHasHolder UnseenIsNewerThanRecorded MergedUploadIsReported
PROPERTY OneBoard
CHECK_DEADLOCK FALSE
