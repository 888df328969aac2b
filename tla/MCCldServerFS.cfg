CONSTANTS
    Paths <- MCPaths
    RootName <- MCRootName
    MaxFh = 3
    DbFail = TRUE
SPECIFICATION Spec
INVARIANT TypeOK
INVARIANT ListingMatches
INVARIANT SessionRecordCurrent
CHECK_DEADLOCK FALSE
