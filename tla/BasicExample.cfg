\* The two program buttons and the note button.
CONSTANTS
    Button = {0, 1, 2}
    INPUT_HISTORY = 2
    ProgramRange = 3
SPECIFICATION Spec
PROPERTIES
    ImplementsDebouncer
    ProgramFollows
    LeavesInOrder
    LoopGoesOn
