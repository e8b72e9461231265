----------------------------- MODULE Processes -----------------------------
(***************************************************************************)
(* The process core of the kernel: boot of the base shells by the timer,   *)
(* execute, halt and the round-robin switch of scheduler(), as they        *)
(* interleave on the one processor.                                        *)
(*                                                                         *)
(* One action is one stretch of code that interrupts cannot split: the     *)
(* system calls run under cli() from their first line to the iret, except  *)
(* halt once rtc_close has executed sti(), whose remaining assignments are *)
(* therefore one action each.                                              *)
(***************************************************************************)
EXTENDS Integers, FiniteSets

CONSTANTS
    PROCESS_NUMBER_PIT,  \* number of terminals, each with a base shell
    MAX_PCB,             \* largest pid the search of execute can hand out
    SHELL_LIMIT,         \* shells that may exist at the same time
    Commands,            \* file names a program passes to execute
    ShellNamed,          \* those that begin with the five letters "shell"
    Executables,         \* those that name an executable in the file system
    Statuses,            \* values a program passes to halt
    RtcOpenHalt,         \* TRUE: a program may halt with its RTC file open
    SyscallsDuringBoot   \* TRUE: a shell may use execute and halt before the
                         \*       timer has launched every base shell

ASSUME ProcessConstants ==
    /\ PROCESS_NUMBER_PIT \in Nat \ {0}
    /\ MAX_PCB \in Nat /\ MAX_PCB >= PROCESS_NUMBER_PIT
    /\ SHELL_LIMIT \in Nat /\ SHELL_LIMIT >= PROCESS_NUMBER_PIT
    /\ ShellNamed \subseteq Commands
    /\ Executables \subseteq Commands
    /\ Statuses \subseteq 0..256 /\ 0 \in Statuses
    /\ RtcOpenHalt \in BOOLEAN
    /\ SyscallsDuringBoot \in BOOLEAN

Terminals == 0 .. PROCESS_NUMBER_PIT - 1
Pids == 0 .. MAX_PCB
NoPid == -1
Results == Statuses \cup {-1}

\* Where a flow of control stands. A halting flow is named after the statement
\* it executes next.
HaltPoints == {"queue", "curr", "deactivate", "current", "count", "return"}
Wild == [pc |-> "wild", on |-> NoPid, status |-> 0]
Contexts == [pc : {"boot", "user", "wild"} \cup HaltPoints,
             on : Pids \cup {NoPid}, status : Statuses]
User(p) == [pc |-> "user", on |-> p, status |-> 0]

VARIABLES
    pit_count,           \* base shells launched so far, then one tick more
    schedule_idx,        \* terminal whose turn it is
    schedule_array,      \* pid to run on each terminal
    curr_pid,            \* terminal[t].curr_pid
    process_num,         \* the process the kernel believes is running
    \* the fields of the PCBs
    active, parent_id, is_shell, is_base_shell, pcb_terminal,
    saved,               \* context behind saved_esp and saved_ebp
    saved_parents_esp,   \* kernel stack that holds the caller's execute frame
    shell_process_count,
    saved_status_num,
    \* the processor
    page,                \* process whose memory is mapped at 128 MB
    esp0,                \* process whose kernel stack the TSS names
    cpu,                 \* the flow that runs: where it stands, whose it is
    eax                  \* last value execute returned, and to whom

tables == <<schedule_array, curr_pid, active, parent_id, is_shell,
            is_base_shell, pcb_terminal, saved_parents_esp>>
counters == <<pit_count, shell_process_count, saved_status_num>>
machine == <<schedule_idx, process_num, saved, page, esp0, cpu>>
vars == <<tables, counters, machine, eax>>

TypeOK ==
    /\ pit_count \in 0 .. PROCESS_NUMBER_PIT + 1
    /\ schedule_idx \in Terminals
    /\ schedule_array \in [Terminals -> Pids]
    /\ curr_pid \in [Terminals -> Pids]
    /\ process_num \in Pids \cup {NoPid}
    /\ active \in [Pids -> BOOLEAN]
    /\ parent_id \in [Pids -> Pids \cup {NoPid}]
    /\ is_shell \in [Pids -> BOOLEAN]
    /\ is_base_shell \in [Pids -> BOOLEAN]
    /\ pcb_terminal \in [Pids -> Terminals]
    /\ saved \in [Pids -> Contexts]
    /\ saved_parents_esp \in [Pids -> Pids \cup {NoPid}]
    /\ shell_process_count \in Int
    /\ saved_status_num \in Statuses
    /\ page \in Pids \cup {NoPid}
    /\ esp0 \in Pids \cup {NoPid}
    /\ cpu \in Contexts
    /\ eax \in [to : Pids \cup {NoPid}, value : Results]

\* Global data is zero and entry() sets the counters before it enables
\* interrupts and spins on the boot stack.
Init ==
    /\ pit_count = 0
    /\ schedule_idx = 0
    /\ schedule_array = [t \in Terminals |-> 0]
    /\ curr_pid = [t \in Terminals |-> 0]
    /\ process_num = NoPid
    /\ active = [p \in Pids |-> FALSE]
    /\ parent_id = [p \in Pids |-> 0]
    /\ is_shell = [p \in Pids |-> FALSE]
    /\ is_base_shell = [p \in Pids |-> FALSE]
    /\ pcb_terminal = [p \in Pids |-> 0]
    /\ saved = [p \in Pids |-> Wild]
    /\ saved_parents_esp = [p \in Pids |-> NoPid]
    /\ shell_process_count = 0
    /\ saved_status_num = 0
    /\ page = NoPid
    /\ esp0 = NoPid
    /\ cpu = [pc |-> "boot", on |-> NoPid, status |-> 0]
    /\ eax = [to |-> NoPid, value |-> 0]

-----------------------------------------------------------------------------
(* execute *)

\* Fault: the search takes the next PCB without looking at its active flag.
FreePcbs_Unchecked == {q \in Pids : q > process_num}

\* The PCBs that execute may hand out: it searches upwards from the caller.
FreePcbs == {q \in Pids : q > process_num /\ ~active[q]}
IsLeast(q, S) == q \in S /\ \A r \in S : q <= r

\* Fault: the status of an exception, 256, is cut to the byte of system_halt.
Returns_Byte(p, value) == eax' = [to |-> p, value |-> value % 256]

Returns(p, value) == eax' = [to |-> p, value |-> value]

\* A name that begins with "shell" is counted before the file is looked for.
ShellRefused(shell) == shell /\ shell_process_count >= SHELL_LIMIT

CountShell(shell) ==
    /\ ~ShellRefused(shell)
    /\ shell_process_count' = shell_process_count + (IF shell THEN 1 ELSE 0)

\* The terminal of a new or restarted process: while base shells are missing
\* it becomes the base shell of the next terminal, otherwise a base shell
\* keeps its terminal and a child takes its caller's.
JoinTerminal(q, parent, base) ==
    \/ /\ pit_count < PROCESS_NUMBER_PIT
       /\ pcb_terminal' = [pcb_terminal EXCEPT ![q] = pit_count]
       /\ is_base_shell' = [is_base_shell EXCEPT ![q] = TRUE]
       /\ parent_id' = [parent_id EXCEPT ![q] = NoPid]
       /\ schedule_array' = [schedule_array EXCEPT ![pit_count] = pit_count]
       /\ curr_pid' = [curr_pid EXCEPT ![pit_count] = pit_count]
       /\ pit_count' = pit_count + 1
    \/ /\ pit_count >= PROCESS_NUMBER_PIT
       /\ LET t == IF base THEN pcb_terminal[q] ELSE pcb_terminal[parent]
          IN /\ pcb_terminal' = [pcb_terminal EXCEPT ![q] = t]
             /\ schedule_array' = [schedule_array EXCEPT ![t] = q]
             /\ curr_pid' = [curr_pid EXCEPT ![t] = q]
       /\ is_base_shell' = [is_base_shell EXCEPT ![q] = base]
       /\ parent_id' = [parent_id EXCEPT ![q] = parent]
       /\ UNCHANGED pit_count

\* The end of execute: the processor leaves for user code of process q.
EnterUser(q) ==
    /\ esp0' = q
    /\ process_num' = q
    /\ cpu' = User(q)

\* A context saved on a kernel stack that a new process takes over is lost.
WithoutStack(contexts, q) ==
    [p \in Pids |-> IF contexts[p].on = q THEN Wild ELSE contexts[p]]

\* execute of a file that loads, by the flow that runs. The timer marks the
\* process it interrupts as an active shell and saves its context first.
Start(shell, interrupted, contexts) ==
    \E q \in FreePcbs :
        /\ IsLeast(q, FreePcbs)
        /\ CountShell(shell)
        /\ page' = q
        /\ active' = [p \in Pids |-> p = q \/ p \in interrupted \/ active[p]]
        /\ is_shell' = [p \in Pids |-> IF p = q THEN shell
                                       ELSE p \in interrupted \/ is_shell[p]]
        /\ saved_parents_esp' = [saved_parents_esp EXCEPT ![q] = cpu.on]
        /\ JoinTerminal(q, IF parent_id[q] = NoPid THEN NoPid ELSE process_num,
                        is_base_shell[q])
        /\ EnterUser(q)
        /\ saved' = WithoutStack(contexts, q)
        /\ UNCHANGED <<saved_status_num, eax>>

\* A program makes system calls while it is in user code with its own memory
\* and kernel stack; one that runs on another's is not followed any further.
InUser ==
    /\ cpu.pc = "user"
    /\ page = cpu.on /\ esp0 = cpu.on
    /\ SyscallsDuringBoot \/ pit_count > PROCESS_NUMBER_PIT

ExecuteStart(name) ==
    /\ InUser
    /\ name \in Executables
    /\ Start(name \in ShellNamed, {}, saved)
    /\ UNCHANGED schedule_idx

\* The limits jump to the end of execute with eax as it happens to be.
RefusedValue == \E garbage \in Results : Returns(cpu.on, garbage)

ExecuteShellLimit(name) ==
    /\ InUser
    /\ ShellRefused(name \in ShellNamed)
    /\ RefusedValue
    /\ UNCHANGED <<tables, machine, counters>>

ExecuteNoPcb(name) ==
    /\ InUser
    /\ name \in Executables
    /\ FreePcbs = {}
    /\ CountShell(name \in ShellNamed)
    /\ RefusedValue
    /\ UNCHANGED <<tables, machine, pit_count, saved_status_num>>

ExecuteNotLoaded(name) ==
    /\ InUser
    /\ name \notin Executables
    /\ CountShell(name \in ShellNamed)
    /\ Returns(cpu.on, -1)
    /\ UNCHANGED <<tables, machine, pit_count, saved_status_num>>

-----------------------------------------------------------------------------
(* halt, from the system call or from an exception *)

child == cpu.on
parent == parent_id[child]

\* Faults: curr_pid stays behind; the child's PCB is never freed; the parent's
\* is freed in its place; every program that ends counts as a shell.
CurrAfterHalt_Kept == curr_pid
ActiveAfterHalt_NeverFreed == [active EXCEPT ![parent] = TRUE]
ActiveAfterHalt_WrongPcb == [active EXCEPT ![parent] = FALSE]
CountAfterHalt_Always == shell_process_count - 1

\* What the statements after the close loop leave behind.
QueueAfterHalt == [schedule_array EXCEPT ![pcb_terminal[child]] = parent]
CurrAfterHalt == [curr_pid EXCEPT ![pcb_terminal[child]] = parent]
ActiveAfterHalt == [active EXCEPT ![child] = FALSE, ![parent] = TRUE]
CountAfterHalt == shell_process_count - (IF is_shell[child] THEN 1 ELSE 0)

\* What halt does first for a program that returns to its caller.
ReturnToParentMemory(status) ==
    /\ saved_status_num' = status
    /\ esp0' = parent
    /\ page' = parent

\* Without an RTC file open the rest of halt follows at once.
HaltToParent(status) ==
    /\ InUser
    /\ ~is_base_shell[child]
    /\ ReturnToParentMemory(status)
    /\ schedule_array' = QueueAfterHalt
    /\ curr_pid' = CurrAfterHalt
    /\ active' = ActiveAfterHalt
    /\ process_num' = parent
    /\ shell_process_count' = CountAfterHalt
    /\ cpu' = User(saved_parents_esp[child])
    /\ Returns(saved_parents_esp[child], status)
    /\ UNCHANGED <<pit_count, schedule_idx, parent_id, is_shell, is_base_shell,
                   pcb_terminal, saved, saved_parents_esp>>

\* A base shell that halts enters the end of execute from the wrong stack
\* frame: it starts again in the memory it has, and is_shell is set from
\* whatever byte lies where execute keeps is_shell_flag.
HaltBaseShell(status) ==
    /\ InUser
    /\ is_base_shell[child]
    /\ saved_status_num' = status
    /\ active' = [active EXCEPT ![child] = TRUE]
    /\ \E flag \in BOOLEAN : is_shell' = [is_shell EXCEPT ![child] = flag]
    /\ saved_parents_esp' = [saved_parents_esp EXCEPT ![child] = child]
    /\ JoinTerminal(child, NoPid, TRUE)
    /\ EnterUser(child)
    /\ UNCHANGED <<schedule_idx, shell_process_count, saved, page, eax>>

\* With an RTC file open the close loop executes sti(), and from there on the
\* timer may interrupt halt between any two statements.
HaltClosesRtc(status) ==
    /\ InUser /\ RtcOpenHalt
    /\ ~is_base_shell[child]
    /\ ReturnToParentMemory(status)
    /\ cpu' = [cpu EXCEPT !.pc = "queue", !.status = status]
    /\ UNCHANGED <<tables, eax, pit_count, shell_process_count, schedule_idx,
                   process_num, saved>>

\* A halting flow moves from one statement to the next.
Halting(from, to) == cpu.pc = from /\ cpu' = [cpu EXCEPT !.pc = to]

HaltQueue ==
    /\ Halting("queue", "curr")
    /\ schedule_array' = QueueAfterHalt
    /\ UNCHANGED <<counters, eax, schedule_idx, process_num, saved, page, esp0,
                   curr_pid, active, parent_id, is_shell, is_base_shell,
                   pcb_terminal, saved_parents_esp>>

HaltCurr ==
    /\ Halting("curr", "deactivate")
    /\ curr_pid' = CurrAfterHalt
    /\ UNCHANGED <<counters, eax, schedule_idx, process_num, saved, page, esp0,
                   schedule_array, active, parent_id, is_shell, is_base_shell,
                   pcb_terminal, saved_parents_esp>>

HaltDeactivate ==
    /\ Halting("deactivate", "current")
    /\ active' = ActiveAfterHalt
    /\ UNCHANGED <<counters, eax, schedule_idx, process_num, saved, page, esp0,
                   schedule_array, curr_pid, parent_id, is_shell, is_base_shell,
                   pcb_terminal, saved_parents_esp>>

HaltCurrent ==
    /\ Halting("current", "count")
    /\ process_num' = parent
    /\ UNCHANGED <<tables, counters, eax, schedule_idx, saved, page, esp0>>

HaltCount ==
    /\ Halting("count", "return")
    /\ shell_process_count' = CountAfterHalt
    /\ UNCHANGED <<tables, eax, pit_count, saved_status_num, schedule_idx,
                   process_num, saved, page, esp0>>

HaltReturn ==
    /\ cpu.pc = "return"
    /\ cpu' = User(saved_parents_esp[child])
    /\ Returns(saved_parents_esp[child], saved_status_num)
    /\ UNCHANGED <<tables, counters, schedule_idx, process_num, saved, page, esp0>>

HaltStep == \/ HaltQueue \/ HaltCurr \/ HaltDeactivate
            \/ HaltCurrent \/ HaltCount \/ HaltReturn

-----------------------------------------------------------------------------
(* The timer interrupt *)

\* What the scheduler saves of the flow it interrupts.
Interrupted == IF cpu.pc = "user" /\ (page # cpu.on \/ esp0 # cpu.on)
               THEN Wild ELSE cpu

\* Fault: the interrupted context is not saved before the next launch.
ContextsSaved_Dropped == saved

ContextsSaved == [saved EXCEPT ![process_num] = Interrupted]

\* scheduler() launches the base shells on the first ticks.
PitFirst ==
    /\ pit_count = 0
    /\ Start(TRUE, {}, saved)
    /\ UNCHANGED schedule_idx

\* The other base shells: the interrupted process is saved and marked. The
\* shell limit cannot refuse them unless shells were counted during the boot
\* without being started, which is not followed here.
PitLaunch ==
    /\ pit_count \in 1 .. PROCESS_NUMBER_PIT - 1
    /\ schedule_idx' = schedule_idx + 1
    /\ Start(TRUE, {process_num}, ContextsSaved)

\* Fault: the round ends one terminal early.
NextTurn_Short == IF schedule_idx < PROCESS_NUMBER_PIT - 2 THEN schedule_idx + 1 ELSE 0

\* Turns go round the terminals.
NextTurn == IF schedule_idx < PROCESS_NUMBER_PIT - 1 THEN schedule_idx + 1 ELSE 0

\* Fault: every later tick sets up "the third shell" again.
SetUpLastShell_EveryTick ==
    /\ is_shell' = [is_shell EXCEPT ![process_num] = TRUE]
    /\ is_base_shell' = [is_base_shell EXCEPT ![process_num] = TRUE]
    /\ parent_id' = [parent_id EXCEPT ![process_num] = NoPid]
    /\ active' = [active EXCEPT ![process_num] = TRUE]
    /\ pit_count' = pit_count + 1

\* The first tick after the launches sets up the PCB of the last base shell,
\* taking the process it interrupts for it.
SetUpLastShell ==
    IF pit_count = PROCESS_NUMBER_PIT
    THEN /\ is_shell' = [is_shell EXCEPT ![process_num] = TRUE]
         /\ is_base_shell' = [is_base_shell EXCEPT ![process_num] = TRUE]
         /\ parent_id' = [parent_id EXCEPT ![process_num] = NoPid]
         /\ active' = [active EXCEPT ![process_num] = TRUE]
         /\ pit_count' = pit_count + 1
    ELSE UNCHANGED <<is_shell, is_base_shell, parent_id, active, pit_count>>

PitSwitch ==
    /\ pit_count >= PROCESS_NUMBER_PIT
    /\ SetUpLastShell
    /\ schedule_idx' = NextTurn
    /\ LET next == schedule_array[NextTurn]
       IN /\ process_num' = next
          /\ page' = next
          /\ esp0' = next
          /\ cpu' = ContextsSaved[next]
          /\ saved' = [ContextsSaved EXCEPT ![next] = Wild]
    /\ UNCHANGED <<schedule_array, curr_pid, pcb_terminal, saved_parents_esp,
                   shell_process_count, saved_status_num, eax>>

Pit == PitFirst \/ PitLaunch \/ PitSwitch

Next ==
    \/ Pit
    \/ \E name \in Commands : \/ ExecuteStart(name)
                             \/ ExecuteShellLimit(name)
                             \/ ExecuteNoPcb(name)
                             \/ ExecuteNotLoaded(name)
    \/ \E status \in Statuses : \/ HaltToParent(status)
                                \/ HaltBaseShell(status)
                                \/ HaltClosesRtc(status)
    \/ HaltStep

Spec == Init /\ [][Next]_vars

\* The timer interrupts every flow of the model: all of them run with
\* interrupts enabled.
FairSpec == Spec /\ WF_vars(Pit)
-----------------------------------------------------------------------------
(* Properties *)

Quiet == ~RtcOpenHalt /\ ~SyscallsDuringBoot

\* The active processes of a terminal.
stack == [t \in Terminals |-> {p \in Pids : active[p] /\ pcb_terminal[p] = t}]
Launched == {t \in Terminals : t < pit_count}

\* Every launched terminal runs one chain of callers: its base shell is the
\* process with the terminal's own number, every other process was called by
\* the next lower process of the same terminal, and the scheduler's entry is
\* the last one called. Execute, halt, the restart of a base shell and the
\* launches by the timer together keep the PCBs in that shape.
CallChains ==
    /\ \A p \in Pids : active[p] => pcb_terminal[p] \in Launched
    /\ \A t \in Launched :
        /\ t \in stack[t]
        /\ schedule_array[t] \in stack[t]
        /\ \A p \in stack[t] :
            /\ p <= schedule_array[t]
            /\ is_base_shell[p] <=> p = t
            /\ parent_id[p] = NoPid <=> p = t
            /\ p # t => /\ parent_id[p] \in stack[t]
                        /\ parent_id[p] < p
                        /\ \A q \in stack[t] : q <= parent_id[p] \/ p <= q
            /\ p # t => saved_parents_esp[p] = parent_id[p]

\* The five places that say which process runs agree whenever user code does:
\* process_num, the scheduler's queue, curr_pid, the memory mapped at 128 MB
\* and the kernel stack in the TSS. rtc_open and rtc_close take the process
\* from curr_pid, the other calls from process_num.
CurrentAgree ==
    cpu.pc = "user" =>
        /\ process_num = cpu.on
        /\ schedule_array[schedule_idx] = cpu.on
        /\ curr_pid[schedule_idx] = cpu.on
        /\ page = cpu.on
        /\ esp0 = cpu.on

\* The context that each later turn will load is one that the timer saved, of
\* the very process the turn belongs to, and has not been resumed since.
NextContextIsLive ==
    \A t \in Launched \ {schedule_idx} :
        saved[schedule_array[t]] = User(schedule_array[t])

Shells == {p \in Pids : active[p] /\ (is_shell[p] \/ is_base_shell[p])}

\* Shells alive never exceed their count, nor the count the limit.
ShellLimit ==
    /\ Cardinality(Shells) <= shell_process_count
    /\ shell_process_count <= SHELL_LIMIT

\* Even when the timer cuts a halt in pieces, a process is outlived by its
\* caller: the PCB of a caller is not free while a process it called is in use.
CallersOutlive ==
    \A p \in Pids : active[p] /\ parent_id[p] # NoPid =>
        /\ active[parent_id[p]]
        /\ parent_id[p] < p
        /\ pcb_terminal[parent_id[p]] = pcb_terminal[p]

\* Whatever another terminal does in its turn, a terminal's queue entry and
\* current process are as it left them when its own turn comes again.
OwnTurnOnly ==
    [][\A t \in Terminals :
         pit_count >= PROCESS_NUMBER_PIT /\ t # schedule_idx =>
             /\ schedule_array'[t] = schedule_array[t]
             /\ curr_pid'[t] = curr_pid[t]
             /\ stack'[t] = stack[t]]_vars

\* The process core implements one call stack per terminal: a program returns
\* to the program that called it, on its own terminal, with the status it
\* passed to halt, and the turns go round.
Promise == INSTANCE TerminalStacks WITH
    launched <- IF pit_count < PROCESS_NUMBER_PIT THEN pit_count
                ELSE PROCESS_NUMBER_PIT,
    turn <- schedule_idx,
    result <- eax
CallStacks == Promise!Spec

\* Every terminal gets the processor again and again, in a process of its own.
EveryTerminalRuns ==
    \A t \in Terminals :
        []<>(cpu.pc = "user" /\ cpu.on \in stack[t])

\* What the comments of the code say and the code does not do.

\* system_call.c: halt restores the parent's program before it returns.
ParentMemoryRestored == cpu.pc = "user" => page = cpu.on
=============================================================================
