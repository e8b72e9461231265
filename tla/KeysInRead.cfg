SPECIFICATION Spec
CONSTANTS
    PROCESS_NUMBER_PIT = 2
    BUFFER_LIM = 3
    ReadSizes = {4}
    Modifiers = {"alt"}
    STROKES = 3
    KeysInRead = {"char", "backspace", "enter", "switch", "modifier"}
    BadReads = TRUE
INVARIANTS
    ReaderKeepsTurn
    OwnLinesOnly
