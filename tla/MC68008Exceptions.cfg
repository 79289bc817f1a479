CONSTANTS
    PcCount = 2
    Levels = {0, 2, 7}
    Masks = {0, 2, 7}
    StackTop = 2
    UserTop = 2

SPECIFICATION Spec

INVARIANTS
    Level7Once

PROPERTIES
    TracedInstructions
    SavesContexts
