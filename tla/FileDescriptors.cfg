SPECIFICATION FileSpec
CONSTANTS
    PROCESS_NUMBER_PIT = 2
    MAX_PCB = 3
    SHELL_LIMIT = 2
    Commands <- Programs
    ShellNamed = {}
    Executables <- Programs
    Statuses = {0}
    RtcOpenHalt = TRUE
    SyscallsDuringBoot = FALSE
    FD_MIN = 2
    FD_MAX = 3
    Files <- FileSystem
    NoFile = NoFile
    FileType <- TypesOfFiles
    FileLength <- LengthsOfFiles
    dir_count = 1
    ReadSizes = {2}
    OPENS = 2
INVARIANTS
    FileTypeOK
    OpenFilesMakeSense
    FreePcbsAreClosed
PROPERTIES
    OwnFilesOnly
    DescriptorsAreStable
