SPECIFICATION FairSpec
CONSTANTS
    PROCESS_NUMBER_PIT = 2
    MAX_PCB = 3
    SHELL_LIMIT = 3
    Commands <- AllCommands
    ShellNamed <- OnlyShells
    Executables <- OnDisk
    Statuses = {0}
    RtcOpenHalt = TRUE
    SyscallsDuringBoot = FALSE
INVARIANTS
    TypeOK
    ShellLimit
    CallersOutlive
PROPERTIES
    OwnTurnOnly
