# 391OS: specification, model checking and proofs

391OS (`src/student-distrib`) is a teaching kernel for one i386 processor. Three
text terminals each run a stack of programs that starts with a shell; a timer
interrupt passes the processor from terminal to terminal. There is no kernel
thread, no lock and no allocator: all concurrency comes from interrupts, and all
protection from `cli`/`sti` and from masking IRQ0. That is what these modules
are about.

## 1. Inventory

| component (code) | state | operations | what must hold |
|---|---|---|---|
| processes: `execute`, `system_halt`, `exception_halt` (system_call.c) | PCBs, `process_num`, `shell_process_count`, `saved_status_num`, `shell_halt_flag`, `base_shell_id` | start a program, fail to, end it, restart a base shell | callers form one chain per terminal; the status reaches the caller; at most six shells |
| scheduler and timer (scheduling.c, pit.c) | `schedule_array`, `schedule_idx`, `pit_count`, `saved_esp/ebp`, TSS, page directory entry 32 | launch three shells, then switch | a live context for every terminal that waits; nobody starves |
| line input (keyboard.c, `terminal_read`) | `terminal[].keyboard_buffer`, `buffer_ct`, `enter_read`, `terminal_num`, modifier flags, IRQ0 mask | key, backspace, Enter, Alt+Fn, poll, copy, clear | a line goes once, whole, to the program of its terminal |
| screens (`terminal_write`, both `putc` of lib.c, the echo of keyboard.c, `switch_terminals`, `vidmap`) | video memory, three pages behind it, cursors, `row_letter_ct`, `cat_flag`, `hello_flag`, page table of 132 MB | type, write, switch, map, draw | what a terminal shows is its own, in order, and survives being hidden |
| file descriptors (system_call.c, filesys.c, rtc.c) | the eight descriptors of a PCB | open, close, read, write | a program sees only what it opened |
| RTC virtualisation (rtc.c) | `interrupt_count/flag`, `desired_virtualized_frequency`, `rtc_idx` | open, write, read, interrupt | every read ends; waits match the frequency |
| file system (filesys.c) | boot block in memory, read-only; `file_position` | look up, read data, list directory | sequential reads return the file, whole, wherever its blocks lie |
| command line (`parse_args`, `get_file_name`, `getargs`) | `stored_buf` | cut, store, fetch | a program gets its own arguments |
| interrupt controller (i8259.c, idt_handler.c) | masks, in-service bits | mask, unmask, end of interrupt | no IRQ stays blocked |
| boot, descriptor tables, paging set-up (kernel.c, x86_desc.*, paging.c, idt_helper.c, intr_linkage.S) | set once | | |
| user programs (syscalls, fish) | buffers of cat and grep | the callers of all of the above | cat, ls and grep show what the files hold, and end |

Components meet in four ways: system calls; interrupt handlers that run between
any two instructions with interrupts enabled; globals shared by all programs
(`saved_status_num`, `stored_buf`, `terminal_num`); and the two answers to "who
runs", `process_num` (used by execute and halt) and
`terminal[schedule_idx].curr_pid` (used by everything with a descriptor).

`PROJECT.json` lists the hazards of the code line by line, with the property
that watches each one or the reason why none does. Where the code does what a property
would forbid, and nothing in the repository promises better, the property is stated
for the rest and the hazard has a note instead: keys that edit inside a read, reads
with bad arguments, the descriptor that halt leaves open, arguments replaced before
getargs, newlines on the screen in front, texts counted from the wrong column.

## 2. Modules

| module | models |
|---|---|
| `Processes` | execute, halt, the restart of a base shell, the launches and the switch of the scheduler; properties and seeded faults |
| `TerminalStacks` | the promise of the above: one stack of programs per terminal, turns that go round |
| `TerminalInput` | the keyboard handler, Alt+Fn, `terminal_read`, the mask of the timer |
| `LineDiscipline` | the promise of the above: one editable line per terminal that goes to one read |
| `FileDescriptors` | open, close, read and the close loop of halt; extends `Processes` |
| `Rtc` | the virtual clocks behind IRQ8, the keyboard's IRQ1 beside it, and their end of interrupt |
| `Console` | operators: `putc`, `background_putc`, scrolling, the row breaking of `terminal_write` |
| `Screens` | which page a key, a write, a kernel message, a drawing or an Alt+Fn touches; extends `Console` |
| `FileSystem` | operators: `read_dentry_by_name`, `read_data`, `open`, the reads of files and directories on a disk |
| `CommandLine` | operators: `parse_args`, `get_file_name`, what `getargs` does to the buffer |
| `Programs` | shells, cat, ls and grep call by call on several terminals; composes `FileSystem` and `CommandLine` |
| `MCProcesses`, `MCFileDescriptors`, `MCRtc`, `MCScreens`, `MCPrograms` | instances for TLC |
| `ProcessesProofs`, `HaltsProofs`, `TerminalInputProofs`, `FileDescriptorsProofs`, `RtcProofs`, `ScreensProofs`, `ProgramsProofs` | theorems about them |
| `Loops` | lemmas about numbers and about loops written as functions, used by the last two |

### Processes

A PCB is its index, so `PCB(p)` and `p` are the same thing; each PCB field is a
function on pids. `saved_esp`/`saved_ebp` and the stack they point into are
one *context*: where a flow of control stands (`pc`), whose kernel stack it is
on (`on`) and, in a halt, the status it carries. `Wild` is what a dead stack
holds; a context becomes `Wild` when it is resumed and when a new process takes
over its stack, and a flow that resumes `Wild` is not followed except that the
timer still interrupts it. `cpu` is the flow that runs, `page` the process
mapped at 128 MB (entry 32 of `page_dir`) and `esp0` the owner of the kernel
stack in the TSS. `eax` is the last value that execute returned and to whom.

Granularity follows `cli`. execute runs from `cli()` to `iret` in one step. So
does halt, unless one of the descriptors that it closes is an RTC file:
`rtc_close` ends in `sti()`, so what follows are the actions `HaltClosesRtc`,
`HaltQueue`, `HaltCurr`, `HaltDeactivate`, `HaltCurrent`, `HaltCount` and
`HaltReturn`, between which `PitSwitch` may fire. User code and the parts of the
other system calls that run with interrupts enabled change none of this state:
they are the `pc` "user".

Outcomes the C code leaves undefined are choices: `is_shell` of a restarted
base shell (halt jumps into execute with its own stack frame, and the flag is
whatever byte lies there) and the value of an execute that is refused by a limit
(it jumps to the end with `eax` as it is). A base shell never has an RTC file
open, because the shell program opens none, so `HaltBaseShell` is one step.

`disable_child_page` writes an entry of `page_dir` that maps no program and so
has no counterpart. `process_count`, `first_call`, and the arrays `saved_esp[]`,
`saved_ebp[]` of the keyboard are never read. `cat_flag` and `stored_buf`, which
execute also writes, are in `Screens` and `Programs`.

Two constants say what programs do. `RtcOpenHalt`: some program halts with its
RTC file open (fish does when a frame file is missing, and so does any program
that an exception ends there). `SyscallsDuringBoot`: a shell runs a command
before the fourth timer tick, about 0.2 s after the start; keys typed during the
boot can do that. `Quiet` is neither. No run sets `SyscallsDuringBoot` (see "Facts
without a run").

### TerminalStacks

Sets stand for stacks because pids grow from bottom to top. The refinement maps
the set of active PCBs of a terminal to its stack, `schedule_idx` to the turn and
`eax` to the result; preparing, switching contexts and restarting a base shell
are steps or stutters of it.

### TerminalInput

`keyboard_buffer`, `buffer_ct` and `enter_read` are the fields of `terminal[t]`,
`held` the flags `alt` and `ctrl`, `irq0_masked` bit 0 of `master_mask`.
`reader[t]` is the flow of terminal t with the locals of `terminal_read`, and
`answer[t]` the line that its last read returned.

Granularity. The keyboard handler runs under `cli()`: one action per key.
`terminal_read` keeps the timer out with `disable_irq(0)`, but that function
ends in `sti()`, so the keyboard may interrupt it anywhere: each access to a
shared buffer is an action, and `terminal_num`, which an Alt+Fn may change, is
read anew in each, as the C code does. The polling loop is `PollMasks`,
`PollFails`, `PollSucceeds`; between a failed test and the next mask the timer
may pass the turn on.

A character is the number of its key stroke and the terminal that was visible,
so that lines can be told apart; `STROKES` bounds them. Shift and Caps Lock
choose the character, echo, `row_letter_ct` and Ctrl+L concern the screen: they
are in `Screens`. A tab is any other character, and the loop of `clear_buffer` has
a counter of its own, which the code shares with the tab of `putc`. The size of a
read matters only when its loop ends, so the model chooses it there. Whether a
line says "exit" is left open.

Two constants say what happens around a read. `KeysInRead` are the kinds of keys
that may arrive while a read copies and clears, some microseconds once per line.
`BadReads` lets programs call read with a bad buffer or size. No run with fairness
sets it: such a read leaves the timer masked (see "Facts without a run").

### LineDiscipline

One sequence per terminal with Type, Erase, Enter, Look and Read. The refinement
takes the line away at the moment the read starts to clear it. It holds when no
key but a modifier arrives during a copy (`KeysInRead \subseteq {"modifier"}`), and
says the rest exactly: Enter does not close the line, keys typed before the
program reads still join it, and a short read drops what does not fit.

### FileDescriptors

The module adds `file_descriptor` to the state of `Processes` and composes each
of its actions with what it does to descriptors. Programs and PCBs, the timer and
halts that it cuts in pieces are those of the lower module, so PCB reuse is the
real one.

The kernel has two ways to find the caller's PCB. `PcbOf` translates them:
`process_num` for files and directories, `curr_pid` of the scheduled terminal for
the RTC, and for `read` and `close` themselves. A whole call is one action: it
touches descriptors of one PCB, between `disable_irq(0)` or `cli()` and its
return, and no interrupt handler touches any. The close loop of halt is one
action too, even when `rtc_close` enables interrupts within: nothing else looks
at those descriptors until the PCB is free. Calls that fail change nothing.

Base shells open nothing, because the shell program opens nothing. PCBs are zero
at boot, as `active` already requires. The terminal's close does nothing, so
descriptors 0 and 1 never close. `OPENS` bounds the opens of a behaviour. What a
read copies is in `FileSystem`, writes to the terminal are in `Screens`, reads and
writes of the RTC in `Rtc`.

### Rtc

`interrupt_count`, `interrupt_flag`, `desired_virtualized_frequency` and `rtc_idx`
are the globals of rtc.c (`interrupt_flag` is a Boolean, TRUE for 1), the constant
3 of that file is `PROCESS_NUMBER_PIT`. `in_service` is the in-service register of
the interrupt controller and `handlers[t]` the stack of handlers that terminal t's
flow is in, innermost first, each behind its `sti()` and before the end of interrupt
that `hardware_handler` sends. Handlers run under `cli()` up to that point:
`RtcInterrupt` and `KeyboardInterrupt` are one action, `SendEoi` another. Between the
two come ticks, turns of other terminals, and other handlers.

The two handlers differ. The RTC's enables interrupts (rtc.c:228) before its end of
interrupt (idt_handler.c:167), so IRQ8 stays in service in between and cannot nest in
itself. `keyboard_handler` sends its end of interrupt under `cli()` on every path
(for instance keyboard.c:405), enables interrupts, and `hardware_handler` sends it a
second time (idt_handler.c:162). Behind the `sti()` IRQ1 is therefore not in service:
IRQ8 and further keys interrupt the rest of that handler, and keys interrupt the
RTC's, whose priority is lower. `EoiEndsItsOwn` says that the second end of interrupt
of a key ends nothing, in whatever handler it comes; it names its IRQ, and one that
named none would end IRQ8 (the mutant). What the keyboard handler does to lines is in
`TerminalInput`.

`NESTED` bounds the handlers that are cut short at any time, on all flows together: a
handler that comes on top of so many runs to its end in one step. Nothing is blocked
by the bound.

`COUNTS` bounds what is counted at the largest threshold, because a count is only
compared with thresholds. `since` is a ghost: the interrupts since a count was
zero. A failed `rtc_open` and a good one do the same to the clock. `rtc_read`
masks nothing: it looks at the flag under `cli()` and lets interrupts in between
two looks. The module starts from a boot in which the first tick did not hit a
handler: that tick never returns (scheduling.c:27), so IRQ8, had it cut off its
handler, would stay in service for ever.

### Console and Screens

A console is a record: the cells of one page, a cursor, the counter
`row_letter_ct`, and `fault`, which says that a store missed the page. The source
has `putc` and a copy of it, `background_putc`, for pages that are not shown; the
module has both, so that they can be compared. `Rem` is C's `%`, which keeps the
sign: column -1 stays -1. Attributes, and the hardware cursor, are left out. A
cell holds a character of a small alphabet.

In `Screens` page 0 is video memory (0xB8000) and page t + 1 the one behind it for
terminal t. `View(t)` is the screen of a terminal wherever it is. `line[t]` and
`enter_read` are `TerminalInput` in short: a line is taken in one step. `user_page`
is the page of the user's 4 kB at 132 MB (`UserPage`, set by the scheduler and by
`vidmap`), and `Draw` a store to it, as fish does. Keys, writes and ticks run under
`cli()`, each is one action; `OPS` bounds their number. The kernel's own messages
(`KernelPrints`) go to video memory whatever terminal runs. `terminal_write` knows
some texts by their bytes ("391OS> ", "Hello, ", the newline behind the output of
cat): the field `is` of a text says which it is. A page fault inside the keyboard
interrupt (`fault`) ends what is followed.

`Init` is the moment after the launches, when the last terminal is visible; the
page behind it has never been written.

### FileSystem, CommandLine and Programs

A disk is three constants: `direntries`, `inodes` and `data`. `Characters` are the
bytes that names, files and command lines are made of. `DiskConstants` and
`ProgramConstants` say of a disk what the image tool makes of it: names are not
empty and hold no NUL, the one directory is ".", an inode names the blocks it needs.
`ModelledPrograms`: the program files that can be entered are those of cat, ls and
grep; the commands that are given are lines as the shell reads them. `read_data` has the
three parts of the C code (up to the end of a block, whole blocks, the rest). What
`file_read` and `directory_read` leave in the buffer of the caller and what `read`
returns are two fields of the result, because they differ: `read` returns the size
asked for whenever the driver returned anything but 0 (system_call.c:536).

In `Programs` every program is a loop of calls, one action each; `at[t]` is the
call that comes next. A call and the printing that follows it are one action,
because the printing goes to the program's own terminal and nothing else reads it
(where it appears is the business of `Screens`). `shown[t]` is what appeared since
the command. `stored_buf` is the kernel's one argument buffer; execute replaces it
before it checks anything, and `getargs` ends it at the newline in place.
`overtaken` is a ghost: another terminal's execute came between a program's own
and its getargs. A file of length 0 leaves `is_executable` with what the stack
held (the choice `stale`), as does byte 1024 of grep's array (`junk`). A program
without an image (`at = "stale"`) is only said to end in an exception.

What the shell prints on the visible screen, how programs nest and descriptors are
in the other modules: here a terminal runs one program at a time and each has one
file and one directory open. The shell's read and its prompt are part of the choice
of the next command.

One read of grep and all lines that its inner loop then takes are one action. `Cut`
is the buffer after the newlines were overwritten with NULs, `LineStart` what
`line_start` is when the loop comes to a byte, `GoesOn` the test of line 33 and `Kept`
what is left in the buffer for the next read. `Matches` is what is printed: a line
for each newline in the buffer (`Joint` puts the pieces one behind the other) and one
for the last line, where that is searched already. Two sides of `GrepFinds` are kept
apart: those operators translate the C code and look at the buffer; `GrepText`, what
should be printed, looks only at the file. `Reach` cuts what was printed into what
each entry of the directory added.

## 3. Runs

| run | instance | shows |
|---|---|---|
| `processes` | 3 terminals, 2 free PCBs, 4 shells, `Quiet` | chains of callers, agreement on who runs, live contexts |
| `promise` | 2 terminals, 2 free PCBs, statuses 0 and 256, `Quiet` | refinement of `TerminalStacks` with its fairness, no starvation |
| `rtc_halts` | 2 terminals, 2 free PCBs, 3 shells, halts cut by the timer | what survives: types, shell limit, order of callers, independence of the terminals |
| `halt_memory` | 2 terminals, RTC files open at halt | **violated**: `ParentMemoryRestored` |
| `lines` | 2 terminals, lines of 2 characters, 4 strokes, reads of 2 and 4 bytes, Alt, also during a read | refinement of `LineDiscipline`, clean tails, Enter is answered, turns go round |
| `keys_in_read` | the same with 3 strokes, every key at every statement of a read, bad reads | a reader keeps the turn, no character of another terminal |
| `switch_in_read` | Alt+Fn during a read | **violated**: `OtherLinesKept` |
| `rtc` | 2 terminals, 4 interrupts a second, rates -1, 0, 1, 3 and 8 asked for, 2 handlers cut short at a time | clocks follow rates, every read ends, ends of interrupt match handlers, no IRQ stays blocked |
| `descriptors` | 2 terminals, 2 free PCBs, 2 slots, 4 files, halts cut by the timer | own files only, stable descriptors, sensible positions, free PCBs closed |
| `screens` | 3 terminals, 3 x 2 cells, 5 operations | own text, hidden screens kept, typing and writing in order, both consoles alike |
| `erase_row` | 1 terminal, 3 x 2 cells, 6 operations | **violated**: `StoresOnScreen` |
| `programs` | 2 terminals, blocks of 2 bytes, names of 2, buffers of 5 | own arguments, whole images, what cat, ls and grep show, and that they end |

Bounds. Two PCBs beyond the base shells let one terminal nest two programs, or
two terminals hold one each and reuse each other's PCBs, or exhaust the table.
The names are one shell, one program and one name that begins with "shell" but
does not exist, which are all the cases execute tells apart. 0 and 256 are an
ordinary status and the one that does not fit a byte. Counters need no bound.

A line of two characters has the empty, the partial and the full line; reads of 2
and 4 bytes are shorter and longer than it. Four strokes are two characters and
two Enters, or a line and the beginning of the next one; three suffice for
ownership, where one character and one Enter decide. Two slots are the last one,
which halt leaves open, and one before it. A file of three bytes read two at a
time has a full, a short and an empty read.

At four interrupts a second the thresholds of the rates 2 (the default) and 1
are 1 and 2, so that counts pass the smaller one unseen; the other rates are refused. The
threshold 0 of high rates is left to the proof. Two handlers cut short at a time are a
key in the RTC's handler, the RTC in a key's, a key in a key's, and one handler on
each flow (44,000 states); deeper stacks are left to the proof of `EoiEndsItsOwn`.

A screen of three columns and two rows is filled, broken and scrolled by a prompt
and one text of four characters; five operations are enough to write on a hidden
screen, show it, write again and hide it, with a tick in between (240,000 states).
Every terminal types, prints and draws characters of its own, and one text has a
tab. Blocks of two bytes make files of five and nine bytes begin,
cross and end blocks; buffers of five bytes hold two full blocks and a part, so
that one file fits the buffer exactly and one needs a second read and carries a
line over. One name fills its field. Terminal 0 gives every kind of command;
terminal 1 one command with arguments, enough to overtake.

Fairness. `Processes` assumes `WF_vars(Pit)`: the timer is periodic hardware, IRQ0
is unmasked in everything it models and every flow has interrupts enabled at its
step boundaries. Programs are not assumed to do anything. `TerminalInput` models
the mask and assumes `SF_vars(Pit)`: the interrupt controller latches a tick that
arrives while IRQ0 is masked and delivers it when a poll unmasks it, and a poll
unmasks it again and again. `SF_vars(ReadStep(t))`: a turn lasts 55 ms, enough for
the program that has it to take a step. `Rtc` assumes that of the RTC, which fires 56.24
times in a turn, and of the loop of `rtc_read` (`SF_vars(Awaited(t))`: in its turns a
program gets the interrupts that it waits for, and then sees the flag); because of
the fraction the two timers drift against each other, so a tick does not hit the
last microseconds of the RTC's handler at the end of every turn
(`SF_vars(Delivered(RTC_PIC_PIN) /\ Pit)`). A key takes milliseconds to send its codes
and a handler microseconds to return, so a handler that comes to run again and again,
when those that interrupted it are done, returns: strong fairness of `SendEoi` for
each terminal and each depth of its stack. Keys may come for ever. `Programs` assumes that
every program makes its next call (`WF_vars(Calls(t))`): a system call on the
read-only disk waits for nobody, and `promise` shows that every terminal gets its
turns. Shells are not assumed to start anything, nor users to press anything.
`Screens` promises no liveness.

Findings.
1. `halt_memory`: after a halt with an RTC file open the parent may run in the
   child's memory with the child's kernel stack (system_call.c:147). In the same
   window another halt may overwrite `saved_status_num`.
2. `switch_in_read`: `clear_buffer` erases the line of the visible terminal, which
   an Alt+Fn may have changed since the copy (terminal.c:103, keyboard.c:522).
   Likewise a key that arrives during the copy is erased unread.
3. `erase_row`: after a row was filled exactly the cursor is in column 0 of that
   same row; a backspace there moves it to column -1, which is the last cell of the
   row above and, on the top row, a page that is not present (keyboard.c:206,
   lib.c:190). The fault happens inside the keyboard interrupt, whose end of
   interrupt is then never sent.

Facts without a run. Seen in the code while modelling; none is needed to use the
models, and each is at the boundary of what they cover.
- Boot: the tick after the launches marks whatever process it interrupts as the
  third base shell (scheduling.c:62). With `SyscallsDuringBoot` set the model
  reaches it.
- The end of interrupt of a key is sent twice (keyboard.c:405 and the other paths,
  idt_handler.c:162). The second one ends nothing (`EoiEndsItsOwn`).
- A read of descriptor 0 that fails on its arguments leaves IRQ0 masked
  (system_call.c:521); with `BadReads` set `TurnsGoRound` fails.
- The close loop of halt ends before descriptor 7 and execute resets none
  (system_call.c:157), so a new program may find it open: `FreePcbsAreClosed` speaks
  of all slots but the last.
- execute counts a shell before it looks for the file: failed executes of names
  that begin with "shell" use up the shell limit (system_call.c:232).
- `rtc_open` resets the clock even when no descriptor is free (rtc.c:127).
- The threshold 1024/(3f) is rounded down (rtc.c:221): clocks run up to a third too
  fast, and 512 Hz as 1024 Hz; `WakesFollowRate` speaks of the rounded rate.
- A tab at the end of the last row moves the cursor to the top row instead of
  scrolling; a text that starts behind a prompt runs over the row it started in,
  because `terminal_write` counts from 0 (terminal.c:128). A tab in a text breaks a
  full row only on the visible screen: `putc` looks at `row_letter_ct`, which
  `background_putc` does not. So `SeenOrNot` speaks of texts without tabs, and
  `WriteIsReadable` of such texts that start in the column it counts from. The column
  it counts from is global too (`hello_flag`): the write that follows "Hello, ", on
  whatever terminal, counts from 7.
- `terminal_write` may add newlines behind a text, and each may scroll: a text that
  just fits the screen loses its first row to them. `WriteIsReadable` asks for room
  for both.
- The loop counter `i` is one global (lib.c:13, keyboard.c:24): a tab key early in
  `clear_buffer` moves its counter to 4, and slots stay uncleared.
- The newlines behind "exit" and behind the output of cat go to `putc` even when the
  program is hidden (terminal.c:171); kernel messages and vidmap drawings likewise
  appear on the visible screen. `OnlyActorsChange` allows exactly that.
- `read` returns the size asked for, not the bytes read (system_call.c:536). The
  shell therefore executes an empty line; grep may print one more line for a file,
  on the strength of an old line in its buffer. `GrepFinds` says how far this goes.
- Byte 1024 of grep's `data` is read (as `data[line_end]` with `last` 1024) before
  anything stores to it: if the stack holds a newline there, the cut line of a long
  file is searched in two parts, and a match across them is missed. A file shorter
  than the buffer that is searched before puts a NUL there for good
  (ece391grep.c:33, 41).
- grep opens files by name, so of two entries of one name it searches the first one
  twice, and names that begin with a dot are skipped (ece391grep.c:89). `strcpy` moves
  the rest of a cut line only up to a NUL. `GrepFinds` leaves these files open, as well
  as files with a line that fills the buffer.
- `get_file_name` keeps leading spaces, so a command behind spaces is not found
  (system_call.c:422); parse_args replaces the arguments even when execute then
  fails; a file of length 0, a directory or the RTC passes `is_executable` when the
  stack happens to hold the magic number.
- vidmap accepts the address 132 MB exactly, the first byte behind the program.

Each property of a passing run has a seeded fault in the module (operators named
`X_Fault` before `X`) that breaks it.

## 4. Proofs

`ProcessesProofs` proves, for every number of terminals, PCBs, shells, names and
statuses, and under `Quiet`, that `Spec` implies `[]TypeOK`, `[]CallChains`,
`[]CurrentAgree` and `[]NextContextIsLive`. Assumptions: `ProcessConstants`
(at least one terminal, at least one PCB more than terminals, room for the base
shells under the limit), which TLC evaluates in every run.

The argument is one inductive invariant `IInv`. None of the four is inductive
alone. To show that the context loaded next is live one must know that the
process that runs is the top of its stack (`CurrentAgree`, `CallChains`), else
saving it could overwrite the wrong PCB; that a new process takes a PCB whose
stack nobody waits on needs `CallChains`; that a child is not taken for a base
shell needs `BaseFlags`, because execute never resets `is_base_shell` and
`parent_id = -1` in a PCB it reuses; that the launches are right needs the exact
state of the boot (`BootPhase`). There is one lemma per action: `LaunchIInv`,
`SwitchIInv`, `RefusedIInv`, `ExecuteIInv`, `HaltIInv`, `RestartIInv`. The
preemptible steps of halt are shown to be unreachable under `Quiet`; without it
most of the invariants are false, as `halt_memory` shows.

It also proves that `Processes` implements `TerminalStacks` under `Quiet`, apart from
fairness (`StacksImplemented`): the initial states map to initial states of the
promise, and each action maps to one of its steps or a stutter, with `IInv` saying
what the stacks are.

`HaltsProofs` lifts `Quiet`. Only system calls during the boot are excluded
(`BootFirst`); whether programs halt with an RTC file open, so that the timer cuts
the halt, is left arbitrary. A cut halt may lose its flow for ever, leave `curr_pid`
and the memory of another process behind, and let another terminal take the PCB
that it has just freed, so `IInv` is false there. `HInv` says what is left:
`IInv` during the boot, with `SavedInBoot`, and `Settled` after it. `Settled` keeps
`BaseFlags`; `Families` (callers form one chain per terminal and are in use, whatever
`process_num` says); `CallersWait` and `SavedOwn` (whose contexts are kept where); and
for each terminal the flows that its next turn may resume (`FlowsWait`, `FlowRuns`):
user code, a halt before its first statement, a halt that has already set
`process_num`, or nothing known any more. Between those two points of a halt
(`Ending`) the queue names the caller and `process_num` the program that ends;
a tick there loses the flow, which is what the code does. From `HInv` follow, under
`BootFirst`,
- `[]TypeOK`;
- `[]CallersOutlive`, from `Families` and `Ending`;
- `[]ShellLimit`. A PCB is freed (`HaltDeactivate`) before its shell is counted down
  (`HaltCount`), and the next execute may come in between. `Owed` are the shells freed and
  not yet counted down, and `LimitInv` compares the counter with `Counted`, the shells
  in use and those: a flow that is lost leaves the count too high, never too low;
- `OwnTurnOnly`: in the turn of one terminal nothing changes the queue entry, the
  current process or the set of programs of another.

`TerminalInputProofs` proves `[]TypeOK`, `[]ReaderKeepsTurn` and `[]OwnLinesOnly`
for every number of terminals, length of line, size of read and bound on strokes,
with every key at every statement (`KeysInRead` is any set) and bad reads.
`ReaderKeepsTurn` is inductive with the types. `OwnLinesOnly` needs `Owned`: the
buffers (`LinesOwned`) and the copies in progress (`CopiesOwned`) hold only
characters of their terminal, and for the copy, which indexes with the reader's
terminal, that the turn is kept. `[]TailIsEmpty` is proved for the case that no
character and no Alt+Fn arrives inside a copy; `ClearedSoFar` strengthens it to what
`clear_buffer` has erased up to its counter. Under the same condition,
`KeysInRead \subseteq {"modifier"}`, `LinesImplemented` proves the refinement of
`LineDiscipline` (`LineByLine`). It needs `CopyInv`: what a read has copied is the part
of the buffer up to its counter, the rest is still there, and while it clears, the
visible terminal is its own. Without the condition the refinement is false
(`switch_in_read`).

`FileDescriptorsProofs` proves the four file properties and the types for every file
system and number of slots, under `BootFirst`: wherever the timer cuts a halt. Each
composed step is a step of `Processes` (`StepOfProcesses`), so `HInv` comes for free.
On top of it stand three parts, inductive together (`Inv`):
- `FileInv == FileTypeOK /\ OpenFilesMakeSense /\ FreePcbsAreClosed /\ StdioIsTerminal`;
- `CurrFollows`, what is left of the agreement of `curr_pid` with the queue. A tick
  between the two assignments of halt leaves `curr_pid` behind, but the terminal's
  flow is lost then (`SwitchKeepsCurr`), so that no user code runs where they differ.
  It makes the two ways to find the caller's PCB the same (`PcbIsCaller`), although
  `CurrentAgree` is false here;
- `EndedAreClosed`: a halt that waits for its turn, or stands before the statement that
  frees its PCB, has nothing open that the next program could find there. Only user
  code that goes on opens a slot (`OpeningStep`, a part of `Safe`), and of the program
  that runs no flow is kept.

`RtcProofs` proves `[]TypeOK`, `[]EoiEndsItsOwn` and `WakesFollowRate` for every number
of terminals, frequency and rate, and every depth of handlers (`NESTED`).
`EoiEndsItsOwn` is inductive with the types; the proof follows the places of the RTC's
handler through a push (`Entered`) and a pop (`Returned`) of the stack. The invariant of the last, `CountsInStep`, ties a
count to the interrupts since it was zero: a count n with its last increment `age`
interrupts ago took more than N(n-1) + age and at most Nn + age of them. The
arithmetic of the rotation is in the lemmas `AdvanceOther`, `AdvanceOwn`,
`ReachedInTime` and `NotReachedYet`, which treat the products as units because the
provers have no theory of them.

`ScreensProofs` proves `OnlyActorsChange` and `SwitchKeepsScreens` for every size of
screen, number of terminals, set of texts and number of operations. Every step is
one of five kinds (`StepKinds`): it touches video memory only, the running
program's page besides, the page at 132 MB, none, or exchanges two pages. The
invariant `ScreenInv` says that 132 MB is video memory or the page of the program
that runs (`Drawable`); the scheduler moves it with the turn, which is why a
drawing cannot reach a third screen.

A second part of the module is about what the cells show. `putc`, `background_putc`,
scrolling and the loops of `terminal_write` are functions of the number of rounds;
`Loops` gives for such a function that it exists (`LoopExists`: were there none, take
the least number of rounds without one) and that what each round keeps holds at
its end (`LoopKeeps`). `Consoles(M)` are the consoles that show nothing but marks in M
and whose cursor is below the last row in column 0 only (`Placed`; a column may be
negative, and then a store may miss the page). Every operation keeps a console in
`Consoles(M)` if its characters are in M: a store changes one cell or none, and the
blanks and copies of scrolling are in M. That gives `TextInv`: video memory and the
pages have the shape of a screen, and each terminal's screen, wherever it lies,
shows nothing but its own marks (kernel messages and drawings are marks of everyone). `[]TypeOK` and `[]OwnText` follow. `ConsolesAlike` proves
`SeenOrNot`: two consoles with the same cells and cursor stay so when `putc` writes to
the one and `background_putc` to the other (`Same`), for texts without tabs.

The last part is about what one can read. `ReadCells` reads cells in order and skips
what prints nothing; it is a function of their number too, and reading two stretches
one behind the other is reading their concatenation. `TypingShows` proves `TypedInOrder`,
for every size of a screen (up to 127 columns: the row counter is a byte): a key that prints puts its character into the next cell,
which is the first of the following row when the row is full, and everything behind
it stays blank; a scroll takes one row off the front. Its one invariant is `Seated`
(`SeatsInvariance`): the cursor, which backspace may have left of column 0, never
stands before the first cell of the screen unless the fault of `erase_row` has happened.
`WritesShow` proves `WriteIsReadable`, for texts of every length: `Writing` says that
once g of the bytes are out, the g cells from a row's start and the column of the first
byte on read as they do in the text, nothing is behind them, and the count of
`terminal_write` is the column of the next cell, one ahead of the cursor when a row is
full; `Follows` says what remains of that behind the newlines. Each scroll moves the
text up one row, and the room that the property asks for is what keeps it on the
screen.

`ProgramsProofs` is about the disk and the programs on it, for every disk that
`DiskConstants` admits and every program file and command that `ProgramConstants` and
`ModelledPrograms` admit.
- `ReadIsSlice`: `read_data`, with its three loops, returns the bytes of the file from
  the offset up to the length or the end of the file, and their number, wherever
  the data blocks lie. `FoundByName`: `read_dentry_by_name` finds the first entry of
  that name, and nothing only if there is none.
- `PInv` is the inductive invariant of the behaviour: types and positions (`Typed`),
  what an open descriptor stands for (`Opened`), buffers, where a program may be
  (`Entered`), and, for the shared `stored_buf`, `OneAhead` and `StoredOwn`: at most one
  program that has not called getargs yet was not overtaken, and the buffer then
  holds its arguments, possibly ended at the newline already. The latter is needed
  because the getargs of an overtaken program ends the arguments of another one in place;
  the proof shows that ending them twice is ending them once. `[]TypeOK`,
  `[]OwnArguments` and `[]LoadedWhole` follow.
- `ToldInv` is the invariant behind what is printed: which program makes which call
  (`Calling`), that cat has shown the bytes, or the names, up to `file_position`
  (`CatTells`, `CatUpTo`), and ls the names up to its position in the directory
  (`LsTells`). With `ReadIsSlice` it gives `[]CatShows` and `[]LsLists`: files of
  every length and directories of every size, read through buffers of every size.
- `GrepFindsLines` proves `[]GrepFinds`: every disk, pattern and size of the buffer. Its
  invariant `GrepInv` says of each grep that has its arguments either that it stands
  between two entries of the directory (`Between`: the text printed so far can be cut
  into what the entries behind it may add) or in the middle of one (`Midway`: such a
  text, and behind it the v that was printed for this file). How far a file of which v
  has been printed is searched is `Searching`, three cases that a read leads from one to the
  next: the buffer holds the part of a line that the last read cut, its beginning at
  a line's beginning in the file and v what the lines before it give (`InLine`); the file
  is read to its end and a last line without newline is still held (`LeftOver`); all of it
  has been searched (`Searched`). A read that fills the buffer goes on in `InLine`
  (`FullRead`: the lines that end in the buffer are those that end in that stretch of
  the file, `StartShift` and `PartsAdd`); the read that finds the last bytes *claims*
  more (`LastRead`), and what it then searches behind the text are NULs, or old
  bytes that cannot pass for a line of this file; the read at the end returns 0 and
  searches what is held once more (`AtEndOfFile`), which is where the one additional
  line comes from. `ShortLines` is what keeps a line from filling the buffer. The byte
  behind the buffer is followed by `ClearByte`: no step puts a newline there, a cut line
  or a file shorter than the buffer puts a NUL (`ByteBehind`).

Only model-checked: liveness, and with it the fairness of both refinements. `CallChains`,
`CurrentAgree` and `NextContextIsLive` are proved and checked under `Quiet`, without
which they are false. Liveness and ENABLED are out of the prover's
reach. So is induction with an operator as parameter: loops are done by the least
counterexample instead, on sets and functions (`Loops`).

## 5. Plan

Done: all modules of the table above, and a proof of every safety property that the
passing runs check. What could come next: the page faults of a program that stores
outside of its page, as an exception in `Processes`; `Processes` and `TerminalInput`
composed, so that a read of a base shell that restarts is followed.

## 6. Not modelled

Hardware set-up (descriptor tables, the chips of the timer, RTC and interrupt
controller, multiboot) and page table layouts are straight-line code that runs once
at boot. `printf` and `itoa` are wording. `set_handler` and
`sigreturn` are stubs that return -1. The kernel's tests and the host's image tools are not part
of the running system; sigtest, syserr, testprint and ece391emulate.c exercise or
imitate calls and keep no state. The limit of 512 PCBs cannot be reached: PCBs grow
down from 8 MB and would meet the kernel image first; the model checks a small
table. Nothing is said about timing beyond fairness.
