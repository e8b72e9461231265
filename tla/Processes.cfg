SPECIFICATION FairSpec
CONSTANTS
    PROCESS_NUMBER_PIT = 3
    MAX_PCB = 4
    SHELL_LIMIT = 4
    Commands <- AllCommands
    ShellNamed <- OnlyShells
    Executables <- OnDisk
    Statuses = {0}
    RtcOpenHalt = FALSE
    SyscallsDuringBoot = FALSE
INVARIANTS
    CallChains
    CurrentAgree
    NextContextIsLive
