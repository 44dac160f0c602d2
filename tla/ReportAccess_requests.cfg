\* Two requests at once while the world changes around them.
SPECIFICATION Spec
CONSTANTS
    Slot = {p, q}
    User = {"ann"}
    Nobody = nobody
    Workspace = {"sub", "acme", "other"}
    Owning <- MCOwning
    RedirectsOf <- MCRedirectsOf
    UriOf <- MCUriOf
    Challenge = {"x", "y"}
    Instances <- MCInstances
    SessionTTL = 1
    CodeTTL = 1
    TokenTTL = 1
    MaxTime = 2
    MaxFresh = 6
SYMMETRY Swaps
INVARIANTS ServedWasEntitled 
CHECK_DEADLOCK FALSE
