\* Three requests with one bearer and every failure, the limits scaled down to one or two.
SPECIFICATION Spec
CONSTANTS
    u1 = u1
    u2 = u2
    u3 = u3
    fit = fit
    unfit = unfit
    pa = pa
    pb = pb
    run = run
    Request = {u1, u2, u3}
    NoClaim = NoClaim
    Run = {run}
    Claim = {fit, unfit}
    Part = {pa, pb}
    ClaimsOf <- MCClaimsOf
    PartOf <- MCPartOf
    RunOf <- MCRunOf
    Unfit = {unfit}
    Faults = {"gone", "database", "crash"}
    MaxPreAuth = 2
    MaxParts = 1
    MaxAttempts = 1
    MaxVerdicts = 1
    VerdictTTL = 1
    Window = 1
    MaxTime = 3
INVARIANTS
    AcceptedOnce
    LateUploadsReplace
    StoredRowHasBlob
PROPERTIES
    VerdictIsOfItsClaim
SYMMETRY Alike
CHECK_DEADLOCK FALSE
