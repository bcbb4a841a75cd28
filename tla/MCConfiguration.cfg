CONSTANTS
    Files <- MCFiles
    Environments <- MCEnvironments
    Overrides <- MCOverrides
    NoFile = NoFile
    NoConfig = NoConfig
SPECIFICATION ConfigSpec
CHECK_DEADLOCK FALSE
INVARIANTS Reloadable Precedence
