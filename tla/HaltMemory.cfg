SPECIFICATION FairSpec
CONSTANTS
    PROCESS_NUMBER_PIT = 2
    MAX_PCB = 3
    SHELL_LIMIT = 4
    Commands <- AllCommands
    ShellNamed <- OnlyShells
    Executables <- OnDisk
    Statuses = {0}
    RtcOpenHalt = TRUE
    SyscallsDuringBoot = FALSE
INVARIANT
    ParentMemoryRestored
