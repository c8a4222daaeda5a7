SPECIFICATION Spec
CONSTANTS
    Vars <- MCVars
    Callees <- MCCallees
    Functions <- MCFunctions
    Nodes <- MCNodes
    Height = 6
    Called = {"require", "view", "set", "sort", "read", "two", "based", "file"}
INVARIANTS GuardHarmless InputsReady SharedOnce
