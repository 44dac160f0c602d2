\* Every small case of the calls an upload makes one after another.
SPECIFICATION CallSpec
CONSTANTS
    MaxLine = 30
    HiddenLine = 99
    MaxMarks = 12
    Ext <- MCExt
    Suffix <- MCSuffix
    GlobMatch <- MCGlobMatch
    BadGlob <- MCBadGlob
    Spread <- MCSpread
    Cost <- MCCost
    Reports <- MCReports
    Commits <- MCCommits
    Edits <- MCEdits
    BlockLists <- MCBlockLists
    Pairings <- MCPairings
    Measurements <- MCMeasurements
    Matchings <- MCMatchings
    Submissions <- MCSubmissions
INVARIANTS FormatsAgree MergeIsTheUnion ParsedDiffIsTheEdit SpansAreLines BoundIsTouched MergeNeverOverstates IgnoresWhatIsMeant BlameIsEarned
CHECK_DEADLOCK FALSE
