SPECIFICATION Spec
CONSTANTS
    Size = 4
    Boundaries <- MCBoundaries
    Patches <- MCPatches
    MaxPatches = 3
INVARIANTS
    CopiedExactly
    TracedToSource
PROPERTIES
    Implements
CHECK_DEADLOCK FALSE
