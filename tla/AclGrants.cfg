SPECIFICATION Spec
CONSTANTS
    None = None
    Slots <- MCSlots
    Indexed <- OneKey
    Stepping = {}
    SenderKeyed = {"mine"}
    Policied = {"pol"}
    Locals = {"a"}
    Temps <- MCTemps
    EventPolicy = TRUE
    Callees = {"c"}
    Readers = {"r1", "r2"}
    Nobody = "nobody"
    MaxKey = 3
    Inputs <- MCInputs
INVARIANTS Idempotent SameOutcome SlotsKept Served AudienceServed NothingUnasked
CHECK_DEADLOCK FALSE
