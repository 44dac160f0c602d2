\* Two requests in two processes, a new consent, a disconnect, every failure.
SPECIFICATION LiveSpec
CONSTANTS
    p1 = p1
    p2 = p2
    r1 = r1
    r2 = r2
    c0 = c0
    c1 = c1
    d1 = d1
    Process = {p1, p2}
    Request = {r1, r2}
    Consent = {c0, c1}
    Disconnect = {d1}
    First = c0
    NoConsent = NoConsent
    NoOne = NoOne
    ProcessOf <- TwoProcesses
    AccountOf <- NewAccount
INVARIANTS NoTokenSpentTwice OnlyRefusedAccountIsBroken
PROPERTIES RequestsEnd RefreshIsAtomic
CHECK_DEADLOCK FALSE
