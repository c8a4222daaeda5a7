SPECIFICATION Spec
CONSTANTS
    Slots <- MCSlots
    Returns <- MCReturns
    Inputs <- MCInputs
    MaxTrips = 2
INVARIANTS NothingMisused NothingLeaks EndIsKnown
CHECK_DEADLOCK FALSE
