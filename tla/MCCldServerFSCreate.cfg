CONSTANTS
    Paths <- MCPaths
    RootName <- MCRootName
    MaxFh = 3
    DbFail = FALSE
SPECIFICATION Spec
INVARIANT CreateOnEmptyRoot
CHECK_DEADLOCK FALSE
