SPECIFICATION Spec
CONSTANTS
    Contracts <- MCContracts
    Order <- MCOrder
    Statements <- MCStatements
    Units <- MCUnits
    Kinds = {}
    Layouts = {"base", "derived"}
INVARIANTS BranchesClean CacheTransparent
CHECK_DEADLOCK FALSE
