SPECIFICATION Spec
CONSTANTS
    Widths = {1, 3}
    PlainWidths = {1, 3, 4}
    MaxPower = 5
    Literals = {1, 2, 9}
    MaxStack = 3
    MaxLeaves = 3
    Combines = {}
    Acting = {"operand"}
INVARIANTS RendersAsTyped ConversionsExact EffectsAsWritten
CHECK_DEADLOCK FALSE
