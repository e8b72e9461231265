------------------------------ MODULE Programs ------------------------------
(***************************************************************************)
(* Shells, cat, ls and grep on several terminals, one action per system    *)
(* call, in the order in which the timer lets them run.  What they share   *)
(* is the argument buffer of the kernel; the disk is read-only, and every  *)
(* process has its own descriptors.  A read and the writes that follow it  *)
(* are one action: the writes reach only the program's terminal.  What     *)
(* the kernel itself prints goes to the visible screen and is in Screens.  *)
(***************************************************************************)
EXTENDS FileSystem, CommandLine

CONSTANTS
    Terminals,
    Commands,     \* Commands[t]: the lines that the user enters on terminal t
    BUFSIZE       \* buffers of getargs, cat and grep (1024)

magic == "ELF"

\* A line has its only newline at its end.
ASSUME ProgramConstants ==
    /\ space \in Characters
    /\ BUFSIZE \in Nat /\ BUFSIZE > DENTRY_FILE_NAME_LEN
    /\ \A t \in Terminals : Commands[t] \subseteq Text
    /\ \A t \in Terminals : \A line \in Commands[t] :
          /\ line # <<>>
          /\ \A k \in DOMAIN line : line[k] = eol <=> k = Len(line)

\* The programs on the disk are those that are modelled.
ASSUME ModelledPrograms ==
    \A k \in DOMAIN direntries :
        LET node == inodes[direntries[k].inode_num]
        IN  node.length > 0 /\ ByteOf(node, 0, 0) = magic =>
                direntries[k].filename \in {<<"ls">>, <<"cat">>, <<"grep">>}

dot == <<".">>

VARIABLES
    stored_buf,   \* the argument buffer
    at,           \* the next call of the program of each terminal
    command,      \* the last line of each shell
    args,         \* what getargs gave to the program
    image,        \* what execute loaded
    file, dir,    \* the descriptors it has open
    name,         \* the file that grep searches
    buffer,       \* grep's data and last
    shown,        \* what appeared on the terminal since the command
    overtaken     \* another execute came between the program's own and its getargs

process == <<args, image, file, dir, name, buffer>>
vars == <<stored_buf, at, command, process, shown, overtaken>>

NoBuffer == [data |-> Nuls(BUFSIZE + 1), last |-> 0]

Init ==
    /\ stored_buf = NoArguments
    /\ at = [t \in Terminals |-> "shell"]
    /\ command = [t \in Terminals |-> <<eol>>]
    /\ args = [t \in Terminals |-> NoArguments]
    /\ image = [t \in Terminals |-> <<>>]
    /\ file = [t \in Terminals |-> Closed]
    /\ dir = [t \in Terminals |-> Closed]
    /\ name = [t \in Terminals |-> <<>>]
    /\ buffer = [t \in Terminals |-> NoBuffer]
    /\ shown = [t \in Terminals |-> <<>>]
    /\ overtaken = [t \in Terminals |-> FALSE]

Program(t) == get_file_name(command[t])
Goes(t, to) == at' = [at EXCEPT ![t] = to]
Shows(t, text) == shown' = [shown EXCEPT ![t] = @ \o text]

\* A program ends: halt, and what its shell says of the status.
Says(status) ==
    CASE status = 0 -> <<>>
      [] status = 256 -> <<"program terminated by exception">>
      [] OTHER -> <<"program terminated abnormally">>
Ends(t, text, status) == Goes(t, "shell") /\ Shows(t, text \o Says(status))

-----------------------------------------------------------------------------
(* execute *)

FirstCall(program) ==
    CASE program = <<"ls">> -> "opendir"
      [] program \in {<<"cat">>, <<"grep">>} -> "getargs"

\* The arguments are replaced before anything is checked.
ParseArgs(t, line) ==
    /\ stored_buf' = parse_args(line, stored_buf)
    /\ command' = [command EXCEPT ![t] = line]
    /\ overtaken' = [u \in Terminals |->
                        u # t /\ (overtaken[u] \/ at[u] = "getargs")]

\* Too short a file, or a directory, leaves the buffer that is_executable looks
\* at as it was on the stack.
is_executable(bytes, stale) == IF bytes = <<>> THEN stale ELSE bytes[1] = magic

Load(t, k, stale) ==
    LET inode == direntries[k].inode_num
        bytes == read_data(inode, 0, inodes[inode].length)
    IN  /\ image' = [image EXCEPT ![t] = bytes]
        /\ args' = [args EXCEPT ![t] = NoArguments]
        /\ file' = [file EXCEPT ![t] = Closed]
        /\ dir' = [dir EXCEPT ![t] = Closed]
        /\ Goes(t, IF bytes = <<>> THEN "stale" ELSE FirstCall(direntries[k].filename))
        /\ name' = [name EXCEPT ![t] = <<>>]
        /\ buffer' = [buffer EXCEPT ![t] = NoBuffer]
        /\ shown' = [shown EXCEPT ![t] = <<>>]

NoSuchCommand(t) ==
    /\ shown' = [shown EXCEPT ![t] = <<"no such command">>]
    /\ args' = [args EXCEPT ![t] = NoArguments]
    /\ UNCHANGED <<at, image, file, dir, name, buffer>>

execute(t, line, stale) ==
    LET k == read_dentry_by_name(get_file_name(line))
    IN  /\ at[t] = "shell"
        /\ ParseArgs(t, line)
        /\ IF k # 0 /\ is_executable(read_data(direntries[k].inode_num, 0, 1), stale)
           THEN Load(t, k, stale) ELSE NoSuchCommand(t)

\* A program without an image runs what the memory held before.
StaleEnds(t) ==
    /\ at[t] = "stale"
    /\ Ends(t, <<>>, 256)
    /\ UNCHANGED <<stored_buf, command, process, overtaken>>

-----------------------------------------------------------------------------
(* getargs, by cat and grep *)

getargs(t) ==
    LET ended == Ended(stored_buf, BUFSIZE)
    IN  /\ at[t] = "getargs"
        /\ stored_buf' = ended
        /\ IF ArgumentsFit(ended, BUFSIZE)
           THEN /\ args' = [args EXCEPT ![t] = ended]
                /\ Goes(t, IF Program(t) = <<"cat">> THEN "open" ELSE "opendir")
                /\ UNCHANGED shown
           ELSE Ends(t, <<"could not read arguments">>, 3) /\ UNCHANGED args
        /\ UNCHANGED <<command, image, file, dir, name, buffer, overtaken>>

-----------------------------------------------------------------------------
(* cat *)

CatOpen(t) ==
    /\ at[t] = "open"
    /\ file' = [file EXCEPT ![t] = open(args[t])]
    /\ IF file'[t] = Closed THEN Ends(t, <<"file not found">>, 2)
       ELSE Goes(t, "copy") /\ UNCHANGED shown
    /\ UNCHANGED <<stored_buf, command, args, image, dir, name, buffer, overtaken>>

CatCopy(t) ==
    LET r == read(file[t], BUFSIZE)
    IN  /\ at[t] = "copy"
        /\ file' = [file EXCEPT ![t] = r.fd]
        /\ IF r.returned = 0 THEN Ends(t, <<>>, 0)
           ELSE Shows(t, Printed(r.buf)) /\ UNCHANGED at
        /\ UNCHANGED <<stored_buf, command, args, image, dir, name, buffer, overtaken>>

-----------------------------------------------------------------------------
(* ls, and the directory loop of grep *)

\* grep's data array is on the stack: its last byte is not written by any read.
OpenDir(t, junk) ==
    /\ at[t] = "opendir"
    /\ dir' = [dir EXCEPT ![t] = open(dot)]
    /\ Goes(t, IF Program(t) = <<"ls">> THEN "list" ELSE "next")
    /\ buffer' = [buffer EXCEPT ![t] =
          IF Program(t) = <<"ls">> THEN @
          ELSE [data |-> Append(Nuls(BUFSIZE), junk), last |-> 0]]
    /\ UNCHANGED <<stored_buf, command, args, image, file, name, shown, overtaken>>

LsList(t) ==
    LET r == read(dir[t], DENTRY_FILE_NAME_LEN)
    IN  /\ at[t] = "list"
        /\ dir' = [dir EXCEPT ![t] = r.fd]
        /\ IF r.returned = 0 THEN Ends(t, <<>>, 0)
           ELSE Shows(t, Printed(r.buf) \o <<newline>>) /\ UNCHANGED at
        /\ UNCHANGED <<stored_buf, command, args, image, file, name, buffer, overtaken>>

GrepNext(t) ==
    LET r == read(dir[t], DENTRY_FILE_NAME_LEN)
        fname == CString(r.buf)
    IN  /\ at[t] = "next"
        /\ dir' = [dir EXCEPT ![t] = r.fd]
        /\ IF r.returned = 0 THEN Ends(t, <<>>, 0) /\ UNCHANGED <<file, name, buffer>>
           ELSE IF fname[1] = "." THEN UNCHANGED <<at, shown, file, name, buffer>>
           ELSE /\ file' = [file EXCEPT ![t] = open(fname)]
                /\ name' = [name EXCEPT ![t] = fname]
                /\ buffer' = [buffer EXCEPT ![t].last = 0]
                /\ Goes(t, "search") /\ UNCHANGED shown
        /\ UNCHANGED <<stored_buf, command, args, image, overtaken>>

-----------------------------------------------------------------------------
(* do_one_file of grep *)

Put(array, from, bytes) ==
    SubSeq(array, 1, from) \o bytes \o SubSeq(array, from + Len(bytes) + 1, Len(array))
StringAt(array, from) == CString(SubSeq(array, from + 1, Len(array)))
Occurs(s, array, from, to) ==
    \E check \in from .. to - 1 :
        \A m \in 1 .. Len(s) : check + m <= Len(array) /\ array[check + m] = s[m]

\* The inner loop takes the lines of the first last bytes in turn; what it reads
\* at last itself is left over or junk.  Byte k of data is array[k + 1].
LineStart(array, k) == Max({0} \cup {m \in 1 .. k : array[m] = newline})
Unended(array, last) == last = 0 \/ array[last] # newline
Cut(array, last) ==
    [k \in DOMAIN array |->
        IF \/ k \in 1 .. last /\ array[k] = newline
           \/ k = last + 1 /\ Unended(array, last) THEN nul ELSE array[k]]

\* The last line goes on in the next read, unless it began the buffer.
GoesOn(array, last, cnt) ==
    /\ Unended(array, last) /\ array[last + 1] # newline
    /\ cnt # 0 /\ LineStart(array, last) # 0

\* How much of the buffer is then kept.
Carried_Nothing(last, start) == 0
Carried(last, start) == last - start
Kept(array, last, cnt) ==
    LET cut == Cut(array, last)
        start == LineStart(array, last)
    IN  IF GoesOn(array, last, cnt)
        THEN [data |-> Put(cut, 0, Append(StringAt(cut, start), nul)),
              last |-> Carried(last, start)]
        ELSE [data |-> cut, last |-> 0]

\* What is printed for a line that holds the string, and for the lines that are
\* searched after a read, in order.
Line(fname, text) == fname \o <<":">> \o text \o <<newline>>
Found(s, fname, array, from, to) ==
    IF Occurs(s, array, from, to) THEN Line(fname, StringAt(array, from)) ELSE <<>>

Joint(pieces, n) ==
    LET joint[k \in 0 .. n] == IF k = 0 THEN <<>> ELSE joint[k - 1] \o pieces[k]
    IN  joint[n]
Matches(s, fname, array, last, cnt) ==
    LET cut == Cut(array, last)
        ended == Joint([k \in 1 .. last |->
                           IF array[k] = newline
                           THEN Found(s, fname, cut, LineStart(array, k - 1), k - 1)
                           ELSE <<>>], last)
    IN  IF Unended(array, last) /\ ~GoesOn(array, last, cnt)
        THEN ended \o Found(s, fname, cut, LineStart(array, last), last)
        ELSE ended

GrepSearch(t) ==
    /\ at[t] = "search"
    /\ \E r \in {read(file[t], BUFSIZE - buffer[t].last)} :
       \E array \in {Put(buffer[t].data, buffer[t].last, r.buf)} :
       \E last \in {buffer[t].last + r.returned} :
          /\ buffer' = [buffer EXCEPT ![t] = Kept(array, last, r.returned)]
          /\ Shows(t, Matches(args[t], name[t], array, last, r.returned))
          /\ IF r.returned = 0
             THEN Goes(t, "next") /\ file' = [file EXCEPT ![t] = Closed]
             ELSE UNCHANGED at /\ file' = [file EXCEPT ![t] = r.fd]
    /\ UNCHANGED <<stored_buf, command, args, image, dir, name, overtaken>>

-----------------------------------------------------------------------------

Calls(t) ==
    \/ StaleEnds(t)
    \/ getargs(t)
    \/ CatOpen(t) \/ CatCopy(t)
    \/ \E junk \in {nul, newline} : OpenDir(t, junk)
    \/ LsList(t)
    \/ GrepNext(t) \/ GrepSearch(t)
Shell(t) == \E line \in Commands[t], stale \in BOOLEAN : execute(t, line, stale)
Next == \E t \in Terminals : Shell(t) \/ Calls(t)
Spec == Init /\ [][Next]_vars

\* Every terminal gets its turns (EveryTerminalRuns of Processes), and a program
\* makes its next call in one of them.
FairSpec == Spec /\ \A t \in Terminals : WF_vars(Calls(t))

-----------------------------------------------------------------------------
(* Properties. *)

\* Every variable has its type; a file is never read past its end, nor the
\* directory past its last entry (filesys.c:84-197, 292-340).
Size(fd) ==
    CASE fd.file_type = REGULAR_FILE_TYPE -> inodes[fd.inode].length
      [] fd.file_type = DIRECTORY_FILE_TYPE -> Len(direntries)
      [] OTHER -> 0
TypeOK ==
    \A t \in Terminals :
        /\ at[t] \in {"shell", "stale", "getargs", "open", "copy", "opendir",
                     "list", "next", "search"}
        /\ command[t] \in Commands[t] \cup {<<eol>>} /\ overtaken[t] \in BOOLEAN
        /\ Len(buffer[t].data) = BUFSIZE + 1 /\ buffer[t].last \in 0 .. BUFSIZE - 1
        /\ \A fd \in {file[t], dir[t]} : fd.file_position \in 0 .. Size(fd)

\* A program gets the arguments of its own command, whatever other programs read
\* theirs in between: unless a command was entered on another terminal before it
\* asked, which replaces them (system_call.c:389-412, 630-665).
IsSplit(line, word, arguments) ==
    line = word \o <<space>> \o arguments \o <<eol>> /\ space \notin ToSet(word)
OwnArguments ==
    \A t \in Terminals :
        args[t] # NoArguments /\ ~overtaken[t] =>
            IsSplit(command[t], Program(t), args[t])

\* execute loads the file that the command names, whole, wherever its blocks
\* lie (system_call.c:284, filesys.c:84-163).
Names(k, fname) ==
    direntries[k].filename = fname /\ \A m \in 1 .. k - 1 : direntries[m].filename # fname
LoadedWhole ==
    \A t \in Terminals :
        at[t] \notin {"shell", "stale"} =>
            \E k \in DOMAIN direntries :
                Names(k, Program(t)) /\ image[t] = Contents(direntries[k].inode_num)

\* cat shows the file from its first byte to its last and nothing else, though
\* a read at the end of the file claims more bytes than it found
\* (system_call.c:536, ece391cat.c:21-30); of a directory it shows the names.
FirstNames(separator, n) ==
    LET listed[k \in 0 .. n] ==
            IF k = 0 THEN <<>> ELSE listed[k - 1] \o direntries[k].filename \o separator
    IN  listed[n]
AllNames(separator) == FirstNames(separator, Len(direntries))
CatText(fname) ==
    IF \E k \in DOMAIN direntries : Names(k, fname)
    THEN LET k == CHOOSE k \in DOMAIN direntries : Names(k, fname)
             d == direntries[k]
         IN  CASE d.file_type = REGULAR_FILE_TYPE -> Printed(Contents(d.inode_num))
               [] d.file_type = DIRECTORY_FILE_TYPE -> AllNames(<<>>)
               [] OTHER -> <<>>
    ELSE <<"file not found">> \o Says(2)
CatShows ==
    \A t \in Terminals :
        Program(t) = <<"cat">> /\ args[t] # NoArguments =>
            IF at[t] = "shell" THEN shown[t] = CatText(args[t])
            ELSE IsPrefix(shown[t], CatText(args[t]))

\* ls, if the disk has it, lists every name once, in the order of the directory,
\* names without room for a NUL included (filesys.c:292-340, ece391ls.c:18-26).
Installed(fname) ==
    \E k \in DOMAIN direntries :
        LET node == inodes[direntries[k].inode_num]
        IN  Names(k, fname) /\ node.length > 0 /\ ByteOf(node, 0, 0) = magic
LsLists ==
    Installed(<<"ls">>) =>
        \A t \in Terminals :
            Program(t) = <<"ls">> =>
                IF at[t] = "shell" THEN shown[t] = AllNames(<<newline>>)
                ELSE IsPrefix(shown[t], AllNames(<<newline>>))

\* grep prints, file by file in the order of the directory, every line that
\* contains the pattern, in order and once.  Because reads claim more than they
\* found it may print one more line for a file: what stands behind its last
\* newline, often nothing, on the strength of an old line still in the buffer
\* (ece391grep.c:20-59, system_call.c:536).  What it prints for other files is
\* left open: for one with a line as long as the buffer, one with NULs, since
\* strcpy moves the rest of a line only up to one, one that shares its name, and
\* a long one that is searched while the byte behind the buffer, which no read
\* sets, may still hold a newline that was never there.
Within(s, text, from, to) ==
    \E k \in from .. to - Len(s) : \A m \in 1 .. Len(s) : text[k + m] = s[m]
Reported(s, fname, text, from, to) ==
    IF Within(s, text, from, to) THEN Line(fname, SubSeq(text, from + 1, to)) ELSE <<>>
EndedLines(s, fname, text) ==
    [k \in 1 .. Len(text) |->
        IF text[k] = newline THEN Reported(s, fname, text, LineStart(text, k - 1), k - 1)
        ELSE <<>>]
TextOf(k) == Contents(direntries[k].inode_num)
GrepText(s, k, extra) ==
    LET fname == direntries[k].filename
        text == TextOf(k)
        start == LineStart(text, Len(text))
    IN  Joint(EndedLines(s, fname, text), Len(text))
            \o IF extra THEN Line(fname, SubSeq(text, start + 1, Len(text)))
               ELSE Reported(s, fname, text, start, Len(text))

Hidden(k) == direntries[k].filename[1] = "."
OneFile(k, type) ==
    Names(k, direntries[k].filename) /\ direntries[k].file_type = type /\ ~Hidden(k)
Clears(k) == OneFile(k, REGULAR_FILE_TYPE) /\ Len(TextOf(k)) \in 1 .. BUFSIZE - 1
Searchable(k) ==
    /\ OneFile(k, REGULAR_FILE_TYPE)
    /\ \A m \in 1 .. Len(TextOf(k)) :
          TextOf(k)[m] # nul /\ m - LineStart(TextOf(k), m) < BUFSIZE
    /\ Len(TextOf(k)) < BUFSIZE \/ \E m \in 1 .. k - 1 : Clears(m)

\* What entry k adds may be text, and where what the first n entries add may end.
Adds(s, k, text) ==
    CASE Hidden(k) \/ OneFile(k, RTC_FILE_TYPE) -> text = <<>>
      [] Searchable(k) -> text \in {GrepText(s, k, FALSE), GrepText(s, k, TRUE)}
      [] OTHER -> TRUE
Reach(s, text, n) ==
    LET reach[k \in 0 .. n] ==
            IF k = 0 THEN {0}
            ELSE UNION {{e \in b .. Len(text) : Adds(s, k, SubSeq(text, b + 1, e))} :
                        b \in reach[k - 1]}
    IN  reach[n]
GrepFinds ==
    \A t \in Terminals :
        /\ Program(t) = <<"grep">> /\ at[t] = "shell"
        /\ args[t] # NoArguments /\ nul \notin ToSet(args[t])
        => Len(shown[t]) \in Reach(args[t], shown[t], Len(direntries))

\* Every program ends, whatever it is given: a read reports the end of a file or
\* directory in the end (system_call.c:527-529).
ProgramsEnd == \A t \in Terminals : at[t] # "shell" ~> at[t] = "shell"
=============================================================================
