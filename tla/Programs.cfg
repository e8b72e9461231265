SPECIFICATION FairSpec
CONSTANTS
    Characters = {"nul", "newline", " ", ".", "a", "b", "c", "f", "g", "h", "i", "?", "ELF", "cat", "grep", "ls", "rtc"}
    FOUR_KB = 2
    DENTRY_FILE_NAME_LEN = 2
    BUFSIZE = 5
    direntries <- MCDir
    inodes <- MCInodes
    data <- MCData
    Terminals = {0, 1}
    Commands <- MCCommands
INVARIANTS
    TypeOK
    OwnArguments
    LoadedWhole
    CatShows
    LsLists
    GrepFinds
PROPERTIES
    ProgramsEnd
