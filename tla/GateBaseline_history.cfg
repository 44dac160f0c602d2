\* Four commits, two parts, four uploads, tips moving behind the uploads.
SPECIFICATION Spec
CONSTANTS
    c1 = c1
    c2 = c2
    c3 = c3
    c4 = c4
    unit = unit
    e2e = e2e
    Commit = {c1, c2, c3, c4}
    Part = {unit, e2e}
    PartSize = 1
    MinCoverage = 0
    MaxCoverageDrop = 40
    Depth = 2
    MaxUploads = 4
INVARIANTS
    SettledLikeWithLike
    BaselineIsNewest

    
SYMMETRY Alike
CHECK_DEADLOCK FALSE
