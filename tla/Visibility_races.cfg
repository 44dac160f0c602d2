\* An upload, a page view, a publication, a webhook and a disconnect.
SPECIFICATION Spec
CONSTANTS
    p1 = p1
    p2 = p2
    up = up
    page = page
    pub = pub
    priv = priv
    disc = disc
    Process = {p1, p2}
    Check = {up, page, pub}
    Closer = {priv, disc}
    KindOf <- Kinds
    ProcessOf <- TwoProcesses
    UploadTTL = 1
    ServeTTL = 2
    RecheckGap = 1
    MaxTime = 6
INVARIANTS OpenPredatesHiding NewsIsNotUndone OneQuestionPerProcess
CHECK_DEADLOCK FALSE
