-------------------------- MODULE FileDescriptors --------------------------
(***************************************************************************)
(* The file descriptors of the PCBs, on top of the processes that own      *)
(* them: open, close and read, the close loop of halt and what execute     *)
(* finds in a PCB that it uses again.                                      *)
(*                                                                         *)
(* The kernel has two ways to find the PCB of the program that makes a     *)
(* call, and the code of one call mixes them: files and directories take   *)
(* process_num, everything else takes curr_pid of the terminal whose turn  *)
(* it is.                                                                  *)
(***************************************************************************)
EXTENDS Processes

CONSTANTS
    FD_MIN, FD_MAX,  \* descriptors that open gives out
    Files,           \* names in the file system
    NoFile,          \* stands for the inode of the others, 0
    FileType,        \* type of each
    FileLength,      \* length of each, in bytes
    dir_count,       \* entries of the directory
    ReadSizes,       \* sizes a program reads
    OPENS            \* bound on the descriptors ever opened

FileTypes == {"rtc", "directory", "file"}

ASSUME DescriptorConstants ==
    /\ FD_MIN \in Nat /\ FD_MIN > 1
    /\ FD_MAX \in Nat /\ FD_MAX >= FD_MIN
    /\ NoFile \notin Files
    /\ FileType \in [Files -> FileTypes]
    /\ FileLength \in [Files -> Nat]
    /\ dir_count \in Nat
    /\ ReadSizes \subseteq Nat
    /\ OPENS \in Nat

Slots == FD_MIN .. FD_MAX
Fds == {0, 1} \cup Slots

\* file_operations_table_pointer is named after the table.
Descriptors == [flags : BOOLEAN,
                fop : {"none", "stdin", "stdout"} \cup FileTypes,
                inode : Files \cup {NoFile},
                file_position : Nat]

VARIABLES
    file_descriptor,  \* of each PCB
    opens             \* descriptors opened so far

files == <<file_descriptor, opens>>

FileTypeOK ==
    /\ file_descriptor \in [Pids -> [Fds -> Descriptors]]
    /\ opens \in 0 .. OPENS

\* The memory of the PCBs is zero.
FileInit ==
    /\ Init
    /\ file_descriptor = [p \in Pids |-> [fd \in Fds |->
         [flags |-> FALSE, fop |-> "none", inode |-> NoFile, file_position |-> 0]]]
    /\ opens = 0

-----------------------------------------------------------------------------
(* open, close and read *)

\* Fault: the RTC takes the PCB of the terminal's base shell.
PcbOf_BaseShell(type) == IF type = "rtc" THEN schedule_idx ELSE process_num

\* The PCB that the operations of a file type work on.
PcbOf(type) == IF type = "rtc" THEN curr_pid[schedule_idx] ELSE process_num

\* The descriptor that read and close look at.
Caller == curr_pid[schedule_idx]
IsOpen(fd) == fd \in Fds /\ file_descriptor[Caller][fd].flags

\* Fault: a slot is taken without a look at its flags.
FreeSlots_Unchecked(p) == Slots

FreeSlots(p) == {fd \in Slots : ~file_descriptor[p][fd].flags}

\* Fault: the position of the last file stays in the slot.
FirstPosition_Kept(old) == old
FirstPosition(old) == 0

\* The base shells run the shell program, which opens nothing. A call that
\* finds no file or no slot changes nothing.
Open(name) ==
    /\ InUser /\ ~is_base_shell[cpu.on]
    /\ opens < OPENS
    /\ LET type == FileType[name]
           p == PcbOf(type)
       IN \E fd \in FreeSlots(p) :
            /\ IsLeast(fd, FreeSlots(p))
            /\ file_descriptor' = [file_descriptor EXCEPT ![p][fd] =
                 [flags |-> TRUE, fop |-> type,
                  inode |-> IF type = "file" THEN name ELSE NoFile,
                  file_position |-> FirstPosition(@.file_position)]]
    /\ opens' = opens + 1
    /\ UNCHANGED vars

Close(fd) ==
    /\ InUser
    /\ fd \in Slots /\ IsOpen(fd)
    /\ LET p == PcbOf(file_descriptor[Caller][fd].fop)
       IN file_descriptor' = [file_descriptor EXCEPT ![p][fd].flags = FALSE]
    /\ UNCHANGED <<vars, opens>>

\* Fault: the end of the file is an error, whose -1 is added like a number.
BytesRead_Signed(f, position, n) ==
    IF position >= FileLength[f] THEN -1
    ELSE IF position + n > FileLength[f] THEN FileLength[f] - position ELSE n

\* What read_data finds of the n bytes asked for.
BytesRead(f, position, n) ==
    IF position >= FileLength[f] THEN 0
    ELSE IF position + n > FileLength[f] THEN FileLength[f] - position ELSE n

ReadFile(fd, n) ==
    /\ InUser
    /\ IsOpen(fd) /\ file_descriptor[Caller][fd].fop = "file"
    /\ LET p == PcbOf("file")
           descriptor == file_descriptor[p][fd]
       IN /\ descriptor.flags
          /\ file_descriptor' = [file_descriptor EXCEPT ![p][fd].file_position =
                @ + BytesRead(descriptor.inode, @, n)]
    /\ UNCHANGED <<vars, opens>>

\* A read of the directory returns one name, until there is none left.
ReadDirectory(fd) ==
    /\ InUser
    /\ IsOpen(fd) /\ file_descriptor[Caller][fd].fop = "directory"
    /\ LET p == PcbOf("directory")
       IN /\ file_descriptor[p][fd].flags
          /\ file_descriptor[p][fd].file_position < dir_count
          /\ file_descriptor' = [file_descriptor EXCEPT ![p][fd].file_position = @ + 1]
    /\ UNCHANGED <<vars, opens>>

-----------------------------------------------------------------------------
(* execute and halt *)

\* execute opens descriptors 0 and 1 and leaves the others as they are.
StdioOpened(fds, q) ==
    [fds EXCEPT ![q][0] = [@ EXCEPT !.flags = TRUE, !.fop = "stdin"],
                ![q][1] = [@ EXCEPT !.flags = TRUE, !.fop = "stdout"]]

\* Fault: the loop ends yet one descriptor earlier.
CloseLoop_Short == 0 .. FD_MAX - 2
CloseLoop == 0 .. FD_MAX - 1

ClosedByHalt == {fd \in CloseLoop \cap Slots : file_descriptor[process_num][fd].flags}

\* halt closes what is open in the PCB of process_num, each by the close
\* function of its type; that of the terminal does nothing.
AfterCloseLoop ==
    [p \in Pids |-> [fd \in Fds |->
        IF fd \in ClosedByHalt /\ p = PcbOf(file_descriptor[process_num][fd].fop)
        THEN [file_descriptor[p][fd] EXCEPT !.flags = FALSE]
        ELSE file_descriptor[p][fd]]]

ClosesRtc == \E fd \in ClosedByHalt : file_descriptor[process_num][fd].fop = "rtc"

StartsProcess ==
    /\ PitFirst \/ PitLaunch \/ \E name \in Commands : ExecuteStart(name)
    /\ file_descriptor' = StdioOpened(file_descriptor, process_num')
    /\ UNCHANGED opens

RefusesProcess ==
    /\ \E name \in Commands :
         ExecuteShellLimit(name) \/ ExecuteNoPcb(name) \/ ExecuteNotLoaded(name)
    /\ UNCHANGED files

\* An RTC file makes halt enable interrupts on the way. The timer may then
\* come before the rest of the loop, which has the same effect as after it:
\* nothing else looks at these descriptors until the PCB is free.
HaltsProcess ==
    /\ InUser
    /\ \E status \in Statuses :
         \/ ~ClosesRtc /\ HaltToParent(status)
         \/ ClosesRtc /\ HaltClosesRtc(status)
    /\ file_descriptor' = AfterCloseLoop
    /\ UNCHANGED opens

RestartsShell ==
    /\ \E status \in Statuses : HaltBaseShell(status)
    /\ file_descriptor' = StdioOpened(AfterCloseLoop, cpu.on)
    /\ UNCHANGED opens

FileNext ==
    \/ StartsProcess
    \/ RefusesProcess
    \/ HaltsProcess
    \/ RestartsShell
    \/ (PitSwitch \/ HaltStep) /\ UNCHANGED files
    \/ \E name \in Files : Open(name)
    \/ \E fd \in Fds : \/ Close(fd)
                       \/ \E n \in ReadSizes : ReadFile(fd, n)
                       \/ ReadDirectory(fd)

FileSpec == FileInit /\ [][FileNext]_<<vars, files>>
-----------------------------------------------------------------------------
(* Properties *)

\* A program can only make calls when both ways to find its PCB lead to it,
\* halts that the timer cut in pieces on its own or on other terminals
\* included; so no call opens, reads or closes the files of another program.
OwnFilesStep ==
    \A p \in Pids : file_descriptor'[p] # file_descriptor[p]
        => p = cpu.on \/ (~active[p] /\ active'[p])
OwnFilesOnly == [][OwnFilesStep]_<<vars, files>>

\* Between open and close a descriptor stands for one file, and what it has
\* read it does not read again, whatever programs start and end meanwhile.
StableStep ==
    \A p \in Pids, fd \in Slots :
        LET old == file_descriptor[p][fd]
            new == file_descriptor'[p][fd]
        IN old.flags /\ new.flags =>
             /\ new.fop = old.fop
             /\ new.inode = old.inode
             /\ new.file_position >= old.file_position
DescriptorsAreStable == [][StableStep]_<<vars, files>>

\* A file that is open has a type, a regular file for its inode, and a position
\* inside it, even in a slot that another program used for a longer one.
OpenFilesMakeSense ==
    \A p \in Pids, fd \in Slots :
        LET descriptor == file_descriptor[p][fd]
        IN descriptor.flags =>
             CASE descriptor.fop = "file" ->
                    /\ descriptor.inode \in Files
                    /\ FileType[descriptor.inode] = "file"
                    /\ descriptor.file_position <= FileLength[descriptor.inode]
               [] descriptor.fop = "directory" ->
                    descriptor.file_position <= dir_count
               [] OTHER -> descriptor.fop = "rtc"

\* However its last program ended, a PCB that is free to be used again has
\* nothing open but perhaps the last descriptor.
FreePcbsAreClosed ==
    \A p \in Pids : ~active[p] =>
        \A fd \in FD_MIN .. FD_MAX - 1 : ~file_descriptor[p][fd].flags
=============================================================================
