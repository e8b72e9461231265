SPECIFICATION Spec
CONSTANTS
    NUM_COLS = 3
    NUM_ROWS = 2
    TAB_WIDTH = 2
    PROCESS_NUMBER_PIT = 3
    BUFFER_LIM = 4
    HEADER_LEN = 2
    HELLO_LINE_COUNT = 2
    HELLO_BYTE_COUNT = 2
    Keys <- MCKeys
    Drawings <- MCDrawings
    Texts <- MCTexts
    Message <- MCMessage
    OPS = 5
INVARIANTS
    TypeOK
    OwnText
PROPERTIES
    OnlyActorsChange
    SwitchKeepsScreens
    TypedInOrder
    SeenOrNot
    WriteIsReadable
CHECK_DEADLOCK FALSE
