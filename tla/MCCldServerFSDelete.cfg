CONSTANTS
    Paths <- MCPaths
    RootName <- MCRootName
    MaxFh = 3
    DbFail = FALSE
SPECIFICATION Spec
INVARIANT DeleteRestores
CHECK_DEADLOCK FALSE
