SPECIFICATION Spec
CONSTANTS
    ann = ann
    bob = bob
    p1 = p1
    p2 = p2
    annSigns = annSigns
    bobSigns = bobSigns
    annClaims = annClaims
    bobClaims = bobClaims
    annDeletes = annDeletes
    User = {ann, bob}
    Prefix = {p1, p2}
    SignIn = {annSigns, bobSigns}
    Claim = {annClaims, bobClaims}
    Delete = {annDeletes}
    UserOf <- MCUserOf
    PrefixOf <- MCPrefixOf
    Hosted = FALSE
    Allowed = {}
    RepoPrefix = {}
    FirstRoles <- MCFirstRoles
    Registered = {p2}
    MaxForgeChanges = 1
INVARIANTS
    RoleWasReported
    SeatHasWorkspace
    SeatsMatchSnapshot
CHECK_DEADLOCK FALSE
