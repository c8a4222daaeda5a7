SPECIFICATION Spec
CONSTANTS
    None = None
    Slots <- MCSlots
    Indexed <- StepKeys
    Stepping <- JustStep
    SenderKeyed = {"mine"}
    Policied = {"pol"}
    Locals = {"a"}
    Temps <- MCTemps
    EventPolicy = TRUE
    Callees = {"c"}
    Readers = {"r1", "r2"}
    Nobody = "nobody"
    MaxKey = 3
    Inputs <- Stepped
INVARIANT SameOutcome
CHECK_DEADLOCK FALSE
