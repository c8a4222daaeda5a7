SPECIFICATION Spec
CONSTANTS
    Name <- MCName
    Root <- MCRoot
    Paths <- MCPaths
    Listed <- Careful
    Disks <- MCDisks
INVARIANTS
    OutputsImportOutputs
    ErrorsAreReal
    NothingMissing
    SelfCheckAccepts
CHECK_DEADLOCK FALSE
