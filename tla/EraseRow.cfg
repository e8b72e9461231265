SPECIFICATION Spec
CONSTANTS
    NUM_COLS = 3
    NUM_ROWS = 2
    TAB_WIDTH = 2
    PROCESS_NUMBER_PIT = 1
    BUFFER_LIM = 4
    HEADER_LEN = 2
    HELLO_LINE_COUNT = 2
    HELLO_BYTE_COUNT = 2
    Keys <- MCKeys
    Drawings <- MCDrawings
    Texts <- MCTexts
    Message <- MCMessage
    OPS = 6
INVARIANT StoresOnScreen
CHECK_DEADLOCK FALSE
