SPECIFICATION Spec
CONSTANTS
    Units <- MCUnits
    Worlds <- MCWorlds
    Families = {"orders", "members", "files", "blocks"}
    Reexports = FALSE
INVARIANTS FactsNotGuesses CallsTheProfile LinearizationExact
CHECK_DEADLOCK FALSE
