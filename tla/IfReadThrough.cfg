SPECIFICATION Spec
CONSTANTS
    LValue <- MCLv
    StateVars <- MCStateVars
    Pointers <- MCPointers
    Cell <- MCCells
    StorageCell <- MCStorage
    Layouts <- MCLayouts
    Val <- MCVal
    TrueVal = 1
    Fn <- MCFn
    Arity = 1
    Apply <- MCApply
    Programs <- ReadThroughPrograms
INVARIANTS StoresAgree
CHECK_DEADLOCK FALSE
