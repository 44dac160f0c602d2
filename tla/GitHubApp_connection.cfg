SPECIFICATION LiveSpec
CONSTANTS
    push = push
    claim = claim
    p1 = p1
    o1 = o1
    a = a
    b = b
    Process = {p1}
    Installation = {a, b}
    NoInstallation = NoInstallation
    Request = {push, claim}
    Owner = {o1}
    Founder = Founder
    NoRow = NoRow
    First = a
    ProcessOf <- MCProcessOf
    UseOf <- MCUseOf
    KindsOf <- MCKindsOf
    InstallationOf <- MCInstallationOf
    MaxFaults = 1
    MaxWithheld = 1
INVARIANTS
    BrokenWasRefused
PROPERTIES
    OwnersHaveTheLastWord
    GoneIsNoticed
    LiveIsHealed
CHECK_DEADLOCK FALSE
