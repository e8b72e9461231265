SPECIFICATION FairSpec
CONSTANTS
    PROCESS_NUMBER_PIT = 2
    BUFFER_LIM = 3
    ReadSizes = {2, 4}
    Modifiers = {"alt"}
    STROKES = 4
    KeysInRead = {"modifier"}
    BadReads = FALSE
INVARIANTS
    TypeOK
    TailIsEmpty
PROPERTIES
    LineByLine
    EnterAnswers
    TurnsGoRound
