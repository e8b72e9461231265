----------------------- MODULE FileDescriptorsProofs -----------------------
(***************************************************************************)
(* Proofs about FileDescriptors, for any file system, any number of slots  *)
(* and any processes, halts that the timer cuts in pieces included: only   *)
(* system calls during the boot are excluded (BootFirst). The process core *)
(* is used through its invariant HInv, and two facts are added to it that  *)
(* the files need: where curr_pid may be stale no user code runs, and a    *)
(* program whose halt is under way has closed its files before its PCB is  *)
(* free.                                                                   *)
(***************************************************************************)
EXTENDS FileDescriptors, HaltsProofs

\* curr_pid names the queue's entry on every terminal, except where a halt stands
\* between the two, or was lost there: then no flow of that terminal goes on.
CurrFollows ==
    pit_count > PROCESS_NUMBER_PIT =>
      \A t \in Terminals :
        \/ curr_pid[t] = schedule_array[t]
        \/ t # schedule_idx /\ saved[schedule_array[t]] = Wild
        \/ t = schedule_idx /\ (cpu = Wild \/ cpu.pc = "curr")

CoreInv == HInv /\ CurrFollows

\* A program that has nothing open but perhaps the last descriptor.
Closed(p) == \A fd \in FD_MIN .. FD_MAX - 1 : ~file_descriptor[p][fd].flags

\* A halt that goes on after the close loop has closed what it will leave behind
\* in a free PCB, also while it waits for its terminal's turn.
EndedAreClosed ==
    /\ cpu.pc \in {"queue", "curr", "deactivate"} => Closed(process_num)
    /\ \A p \in Pids : saved[p].pc = "queue" => Closed(p)

\* Descriptors 0 and 1 are never files: open does not give them out.
StdioIsTerminal ==
    \A p \in Pids, fd \in {0, 1} :
        file_descriptor[p][fd].fop \in {"none", "stdin", "stdout"}

FileInv == FileTypeOK /\ OpenFilesMakeSense /\ FreePcbsAreClosed /\ StdioIsTerminal

\* A slot is only opened by user code that goes on.
OpeningStep ==
    \A p \in Pids, fd \in Slots : file_descriptor'[p][fd].flags =>
        \/ file_descriptor[p][fd].flags
        \/ p = process_num /\ InUser /\ UNCHANGED vars

\* What every step keeps and what it may not do.
Safe == FileInv' /\ OwnFilesStep /\ StableStep /\ OpeningStep

\* A step that works on the files of no other program than the one that runs,
\* slot by slot, is safe if what it writes makes sense.
MakesSense(descriptor) ==
    descriptor.flags =>
      CASE descriptor.fop = "file" ->
             /\ descriptor.inode \in Files
             /\ FileType[descriptor.inode] = "file"
             /\ descriptor.file_position <= FileLength[descriptor.inode]
        [] descriptor.fop = "directory" -> descriptor.file_position <= dir_count
        [] OTHER -> descriptor.fop = "rtc"

Continues(old, new) ==
    old.flags /\ new.flags =>
      /\ new.fop = old.fop
      /\ new.inode = old.inode
      /\ new.file_position >= old.file_position

-----------------------------------------------------------------------------

\* Descriptors 0 and 1 are no slots.
LEMMA SlotFacts ==
    /\ Slots \subseteq Fds
    /\ 0 \in Fds /\ 1 \in Fds /\ 0 \notin Slots /\ 1 \notin Slots
    /\ CloseLoop \cap Slots = FD_MIN .. FD_MAX - 1
    /\ FD_MIN .. FD_MAX - 1 \subseteq Slots
    /\ Slots \subseteq Nat
BY DescriptorConstants DEF Slots, Fds, CloseLoop

\* Nothing is open before the first program runs.
LEMMA FileInitInv == FileInit => FileInv
<1>1. [flags |-> FALSE, fop |-> "none", inode |-> NoFile, file_position |-> 0] \in Descriptors
  BY DEF Descriptors
<1> QED
  BY <1>1, SlotFacts, DescriptorConstants
  DEF FileInit, FileInv, FileTypeOK, OpenFilesMakeSense, FreePcbsAreClosed, StdioIsTerminal

-----------------------------------------------------------------------------
(* What the files need of the process core *)

\* In the boot no flow is a halt, and the base shells are entered everywhere.
LEMMA BootStays ==
    ASSUME BootFirst, HInv, pit_count <= PROCESS_NUMBER_PIT, [Next]_vars
    PROVE  IInv' /\ SavedInBoot'
<1>1. IInv /\ SavedInBoot
  BY DEF HInv
<1>2. CASE UNCHANGED vars
  <2>1. HInv' /\ pit_count' = pit_count
    BY <1>2, NextHInv DEF vars, counters
  <2> QED
    BY <2>1 DEF HInv
<1>3. CASE PitFirst \/ PitLaunch
  BY <1>1, <1>3, LaunchIInv, LaunchSaves
<1>4. CASE PitSwitch /\ pit_count = PROCESS_NUMBER_PIT
  BY <1>1, <1>4, SwitchIInv, LastBootTick
<1> QED
  BY <1>1, <1>2, <1>3, <1>4, BootOnlyTimer

\* Entries and curr_pid go together in a turn, but in the one step of a halt that
\* is between them.
LEMMA TurnKeepsCurr ==
    ASSUME CurrFollows, pit_count > PROCESS_NUMBER_PIT, schedule_idx' = schedule_idx,
           TypeOK, cpu # Wild,
           \A t \in Terminals :
              \/ curr_pid'[t] = schedule_array'[t]
              \/ /\ curr_pid'[t] = curr_pid[t] /\ schedule_array'[t] = schedule_array[t]
                 /\ t # schedule_idx \/ cpu.pc # "curr"
              \/ t = schedule_idx /\ cpu'.pc = "curr",
           \A p \in Pids : saved[p] = Wild => saved'[p] = Wild
    PROVE  CurrFollows'
<1> SUFFICES ASSUME NEW t \in Terminals, curr_pid'[t] # schedule_array'[t],
                    ~(t = schedule_idx /\ cpu'.pc = "curr")
             PROVE  t # schedule_idx /\ saved'[schedule_array'[t]] = Wild
  BY DEF CurrFollows
<1>1. /\ curr_pid'[t] = curr_pid[t] /\ schedule_array'[t] = schedule_array[t]
      /\ t # schedule_idx \/ cpu.pc # "curr"
  OBVIOUS
<1>2. t # schedule_idx /\ saved[schedule_array[t]] = Wild
  BY <1>1 DEF CurrFollows
<1> QED
  BY <1>1, <1>2 DEF TypeOK

\* Where entry and curr_pid differ when a tick comes, the terminal's flow is lost.
LEMMA SwitchKeepsCurr ==
    ASSUME TypeOK, Settled, CurrFollows, PitSwitch PROVE CurrFollows'
<1>0. pit_count > PROCESS_NUMBER_PIT
  BY ProcessConstants DEF Settled
<1>1. PICK c \in Pids, t0 \in Terminals, t1 \in Terminals, next \in Pids :
        /\ c = process_num /\ t0 = schedule_idx /\ t1 = NextTurn
        /\ next = schedule_array[t1]
  <2>1. NextTurn \in Terminals
    BY ProcessConstants DEF NextTurn, TypeOK, Terminals
  <2> QED
    BY <2>1, TurnFacts
<1>2. /\ schedule_idx' = t1 /\ cpu' = ContextsSaved[next]
      /\ saved' = [ContextsSaved EXCEPT ![next] = Wild]
      /\ UNCHANGED <<schedule_array, curr_pid>>
  BY <1>1 DEF PitSwitch
<1>3. /\ \A p \in Pids : ContextsSaved[p] = IF p = c THEN Interrupted ELSE saved[p]
      /\ \A p \in Pids : saved'[p] = IF p = next THEN Wild ELSE ContextsSaved[p]
  BY <1>1, <1>2, InterruptedTypes DEF ContextsSaved, TypeOK
<1>4. ASSUME NEW t \in Terminals, curr_pid[t] # schedule_array[t]
      PROVE  ContextsSaved[schedule_array[t]] = Wild
  <2>1. schedule_array[t] \in Pids /\ active[schedule_array[t]]
        /\ pcb_terminal[schedule_array[t]] = t /\ pcb_terminal[c] = t0
    BY <1>1, TurnFacts
  <2>2. CASE t # t0
    <3>1. saved[schedule_array[t]] = Wild
      BY <1>0, <1>1, <1>4, <2>2 DEF CurrFollows
    <3> QED
      BY <1>3, <2>1, <2>2, <3>1
  <2>3. CASE t = t0 /\ cpu = Wild
    <3>1. Interrupted = Wild
      BY <2>3 DEF Interrupted
    <3>2. c = schedule_array[t]
      BY <1>1, <2>3, EntryRuns DEF Wild
    <3> QED
      BY <1>3, <2>1, <3>1, <3>2
  <2>4. CASE t = t0 /\ cpu.pc = "curr"
    <3>1. Ending(t0, schedule_array[t0], c)
      BY <1>1, <2>4, EndingRuns
    <3>2. schedule_array[t] # c
      BY <2>1, <2>4, <3>1 DEF Ending, Leaf
    <3> QED
      BY <1>3, <2>1, <2>4, <3>1, <3>2 DEF Ending
  <2> QED
    BY <1>0, <1>1, <1>4, <2>2, <2>3, <2>4 DEF CurrFollows
<1> SUFFICES ASSUME NEW t \in Terminals, curr_pid[t] # schedule_array[t]
             PROVE  IF t = t1 THEN cpu' = Wild ELSE saved'[schedule_array[t]] = Wild
  BY <1>2 DEF CurrFollows
<1> QED
  BY <1>1, <1>2, <1>3, <1>4, TurnFacts

\* Every step keeps them together so far.
LEMMA CurrStays == ASSUME BootFirst, CoreInv, [Next]_vars PROVE CurrFollows'
<1>0. pit_count \in Int /\ PROCESS_NUMBER_PIT \in Nat /\ HInv
  BY ProcessConstants DEF CoreInv, HInv, TypeOK
<1>1. CASE pit_count <= PROCESS_NUMBER_PIT
  <2>1. IInv'
    BY <1>0, <1>1, BootStays
  <2>2. pit_count' > PROCESS_NUMBER_PIT => \A t \in Terminals : t < pit_count'
    BY <2>1, ProcessConstants DEF IInv, TypeOK, Terminals
  <2> QED
    BY <2>1, <2>2 DEF IInv, CurrentTop, Launched, CurrFollows
<1>2. CASE UNCHANGED vars
  BY <1>2 DEF CoreInv, CurrFollows, vars, tables, counters, machine
<1>3. CASE pit_count > PROCESS_NUMBER_PIT /\ Next
  <2>1. TypeOK /\ Settled /\ CurrFollows /\ pit_count > PROCESS_NUMBER_PIT
    BY <1>0, <1>3 DEF HInv, CoreInv
  <2>2. CASE Pit
    <3>1. pit_count # 0 /\ pit_count \notin 1 .. PROCESS_NUMBER_PIT - 1
      BY <1>0, <1>3
    <3> QED
      BY <2>1, <2>2, <3>1, SwitchKeepsCurr DEF Pit, PitFirst, PitLaunch
  <2>3. ASSUME InUser, UNCHANGED schedule_idx,
               \A p \in Pids : saved[p] = Wild => saved'[p] = Wild,
               \A t \in Terminals :
                  \/ curr_pid'[t] = schedule_array'[t]
                  \/ curr_pid'[t] = curr_pid[t] /\ schedule_array'[t] = schedule_array[t]
        PROVE  CurrFollows'
    BY <2>1, <2>3, TurnKeepsCurr DEF InUser, Wild
  <2>4. ASSUME NEW q \in Pids, NEW caller, NEW base, JoinTerminal(q, caller, base)
        PROVE  \A t \in Terminals :
                  \/ curr_pid'[t] = schedule_array'[t]
                  \/ curr_pid'[t] = curr_pid[t] /\ schedule_array'[t] = schedule_array[t]
    <3>1. ~(pit_count < PROCESS_NUMBER_PIT)
      BY <1>0, <1>3
    <3>2. PICK t1 : /\ schedule_array' = [schedule_array EXCEPT ![t1] = q]
                    /\ curr_pid' = [curr_pid EXCEPT ![t1] = q]
      BY <2>4, <3>1 DEF JoinTerminal
    <3> QED
      BY <2>1, <3>2 DEF TypeOK
  <2>5. ASSUME NEW name \in Commands, ExecuteStart(name) PROVE CurrFollows'
    <3>1. PICK q \in Pids :
            /\ JoinTerminal(q, IF parent_id[q] = NoPid THEN NoPid ELSE process_num,
                            is_base_shell[q])
            /\ saved' = WithoutStack(saved, q)
      BY <2>5 DEF ExecuteStart, Start, FreePcbs
    <3>2. \A p \in Pids : saved[p] = Wild => saved'[p] = Wild
      BY <3>1 DEF WithoutStack
    <3> QED
      BY <2>3, <2>4, <2>5, <3>1, <3>2 DEF ExecuteStart
  <2>6. ASSUME NEW name \in Commands,
               ExecuteShellLimit(name) \/ ExecuteNoPcb(name) \/ ExecuteNotLoaded(name)
        PROVE  CurrFollows'
    BY <2>3, <2>6 DEF ExecuteShellLimit, ExecuteNoPcb, ExecuteNotLoaded, tables, machine
  <2>7. ASSUME NEW status \in Statuses, HaltToParent(status) PROVE CurrFollows'
    <3>1. \A t \in Terminals :
             \/ curr_pid'[t] = schedule_array'[t]
             \/ curr_pid'[t] = curr_pid[t] /\ schedule_array'[t] = schedule_array[t]
      BY <2>1, <2>7 DEF HaltToParent, QueueAfterHalt, CurrAfterHalt, TypeOK
    <3> QED
      BY <2>3, <2>7, <3>1 DEF HaltToParent
  <2>8. ASSUME NEW status \in Statuses, HaltBaseShell(status) PROVE CurrFollows'
    <3>1. child \in Pids /\ JoinTerminal(child, NoPid, TRUE)
      BY <2>1, <2>8, UserRuns DEF HaltBaseShell, InUser, child
    <3> QED
      BY <2>3, <2>4, <2>8, <3>1 DEF HaltBaseShell
  <2>9. ASSUME NEW status \in Statuses, HaltClosesRtc(status) PROVE CurrFollows'
    BY <2>3, <2>9 DEF HaltClosesRtc, tables
  <2>10. CASE HaltQueue
    <3>1. /\ cpu.pc = "queue" /\ cpu'.pc = "curr"
          /\ schedule_array' = QueueAfterHalt /\ UNCHANGED <<schedule_idx, curr_pid, saved>>
      BY <2>1, <2>10, HaltingTypes DEF HaltQueue, HaltPoints
    <3>2. pcb_terminal[child] = schedule_idx
      BY <2>1, <3>1, EntryRuns, TurnFacts DEF Flow, Wild, User, child
    <3> QED
      BY <2>1, <3>1, <3>2, TurnKeepsCurr DEF QueueAfterHalt, TypeOK, Wild
  <2>11. CASE HaltCurr
    <3>1. /\ cpu.pc = "curr" /\ curr_pid' = CurrAfterHalt
          /\ UNCHANGED <<schedule_idx, schedule_array, saved>>
      BY <2>11 DEF HaltCurr, Halting
    <3>2. /\ pcb_terminal[child] = schedule_idx /\ schedule_idx \in Terminals
          /\ parent = schedule_array[schedule_idx]
      BY <2>1, <3>1, EndingRuns, TurnFacts
    <3> QED
      BY <2>1, <3>1, <3>2, TurnKeepsCurr DEF CurrAfterHalt, TypeOK, Wild
  <2>12. CASE HaltDeactivate \/ HaltCurrent \/ HaltCount \/ HaltReturn
    <3>1. /\ cpu.pc \notin {"curr", "wild"}
          /\ UNCHANGED <<schedule_idx, schedule_array, curr_pid, saved>>
      BY <2>12 DEF HaltDeactivate, HaltCurrent, HaltCount, HaltReturn, Halting, tables
    <3> QED
      BY <2>1, <3>1, TurnKeepsCurr DEF Wild
  <2> QED
    BY <1>3, <2>2, <2>5, <2>6, <2>7, <2>8, <2>9, <2>10, <2>11, <2>12 DEF Next, HaltStep
<1> QED
  BY <1>0, <1>1, <1>2, <1>3

\* A program whose halt is under way stays closed: only the program that runs
\* opens files, in user code, and no flow is kept for it then.
LEMMA EndedStay ==
    ASSUME BootFirst, HInv, HInv', EndedAreClosed, OpeningStep, [Next]_vars,
           (\E status \in Statuses : HaltClosesRtc(status)) => Closed(process_num)'
    PROVE  EndedAreClosed'
<1>0. pit_count \in Int /\ PROCESS_NUMBER_PIT \in Nat /\ TypeOK
  <2>1. TypeOK
    BY DEF HInv
  <2> QED
    BY <2>1, ProcessConstants DEF TypeOK
<1>1. CASE pit_count <= PROCESS_NUMBER_PIT
  <2>1. IInv' /\ SavedInBoot'
    BY <1>1, BootStays
  <2>2. cpu'.pc \in {"boot", "user"}
    BY <2>1, ProcessConstants DEF IInv, BootPhase, TypeOK, User
  <2>3. \A p \in Pids : saved'[p].pc \in {"wild", "user"}
    BY <2>1 DEF SavedInBoot, Wild, User
  <2> QED
    BY <2>2, <2>3 DEF EndedAreClosed
<1>2. CASE pit_count > PROCESS_NUMBER_PIT
  <2>1. Settled /\ process_num \in Pids /\ saved[process_num] = Wild
    BY <1>2, TurnFacts DEF HInv, Settled, SavedOwn
\* Nothing is opened where a halt is under way.
  <2>2. \A p \in Pids : Closed(p) /\ ~(p = process_num /\ InUser /\ UNCHANGED vars) => Closed(p)'
    BY SlotFacts DEF Closed, OpeningStep
  <2>3. \A p \in Pids : saved[p].pc = "queue" => Closed(p)'
    BY <2>1, <2>2 DEF EndedAreClosed, Wild
  <2>4. ASSUME NEW p \in Pids, p = process_num, cpu.pc \in {"queue", "curr", "deactivate"}
        PROVE  Closed(p)'
    <3>1. Closed(p) /\ ~InUser
      BY <2>4 DEF EndedAreClosed, InUser
    <3> QED
      BY <2>2, <3>1
  <2>5. CASE UNCHANGED vars
    BY <2>1, <2>3, <2>4, <2>5 DEF EndedAreClosed, Closed, vars, machine
  <2>6. CASE Next /\ Pit
    <3>1. PitSwitch
      <4>1. pit_count # 0 /\ pit_count \notin 1 .. PROCESS_NUMBER_PIT - 1
        BY <1>0, <1>2
      <4> QED
        BY <2>6, <4>1 DEF Pit, PitFirst, PitLaunch
    <3>2. PICK next \in Pids :
            /\ process_num' = next /\ cpu' = ContextsSaved[next]
            /\ saved' = [ContextsSaved EXCEPT ![next] = Wild]
      <4>1. NextTurn \in Terminals
        BY <1>0, ProcessConstants DEF NextTurn, TypeOK, Terminals
      <4> QED
        BY <1>0, <3>1, <4>1 DEF PitSwitch, TypeOK
    <3>3. ASSUME NEW p \in Pids, ContextsSaved[p].pc = "queue" PROVE Closed(p)'
      <4>1. ContextsSaved[p] = IF p = process_num THEN Interrupted ELSE saved[p]
        BY <1>0, <2>1 DEF ContextsSaved, TypeOK
      <4>2. CASE p = process_num
        <5>1. Interrupted.pc = "queue"
          BY <3>3, <4>1, <4>2
        <5>2. cpu.pc = "queue"
          BY <5>1 DEF Interrupted, Wild
        <5> QED
          BY <2>4, <4>2, <5>2
      <4>3. CASE p # process_num
        <5>1. saved[p].pc = "queue"
          BY <3>3, <4>1, <4>3
        <5> QED
          BY <2>3, <5>1
      <4> QED
        BY <4>2, <4>3
    <3>4. \A p \in Pids : saved'[p].pc = "queue" => Closed(p)'
      BY <1>0, <3>2, <3>3, InterruptedTypes DEF Wild
    <3>5. cpu'.pc \notin {"curr", "deactivate"}
      <4>1. SUFFICES ASSUME cpu'.pc \in {"curr", "deactivate"} PROVE FALSE
        OBVIOUS
      <4>2. next = schedule_array'[schedule_idx'] /\ UNCHANGED active
        BY <1>0, <1>2, <3>1, <3>2 DEF PitSwitch, SetUpLastShell, Settled
      <4>3. pit_count' > PROCESS_NUMBER_PIT
        BY <1>0, <1>2, <3>1 DEF PitSwitch, SetUpLastShell
      <4>4. Ending(schedule_idx, schedule_array[schedule_idx], process_num)'
        BY <4>1, <4>3 DEF HInv, Settled, FlowRuns, Flow, Wild, User
      <4> QED
        BY <3>2, <4>1, <4>2, <4>4 DEF Ending, Leaf
    <3> QED
      BY <3>2, <3>3, <3>4, <3>5 DEF EndedAreClosed
  <2>7. CASE \E name \in Commands : ExecuteStart(name)
    <3>1. PICK q : saved' = WithoutStack(saved, q) /\ cpu' = User(q)
      BY <2>7 DEF ExecuteStart, Start, EnterUser
    <3>2. \A p \in Pids : saved'[p] \in {Wild, saved[p]}
      BY <3>1 DEF WithoutStack
    <3> QED
      BY <2>3, <3>1, <3>2 DEF EndedAreClosed, Wild, User
  <2>8. CASE \E name \in Commands :
               ExecuteShellLimit(name) \/ ExecuteNoPcb(name) \/ ExecuteNotLoaded(name)
    BY <2>1, <2>3, <2>4, <2>8
    DEF EndedAreClosed, Closed, ExecuteShellLimit, ExecuteNoPcb, ExecuteNotLoaded, machine
  <2>9. CASE \E status \in Statuses : HaltToParent(status) \/ HaltBaseShell(status)
    <3>1. saved' = saved /\ \E q : cpu' = User(q)
      BY <2>9 DEF HaltToParent, HaltBaseShell, EnterUser
    <3> QED
      BY <2>3, <3>1 DEF EndedAreClosed, User
  <2>10. CASE \E status \in Statuses : HaltClosesRtc(status)
    <3>1. saved' = saved /\ process_num' = process_num
      BY <2>10 DEF HaltClosesRtc
    <3>2. Closed(process_num)'
      BY <2>10
    <3> QED
      BY <2>3, <3>1, <3>2 DEF EndedAreClosed
  <2>11. CASE HaltQueue \/ HaltCurr
    <3>1. /\ cpu.pc \in {"queue", "curr"}
          /\ saved' = saved /\ process_num' = process_num
      BY <2>11 DEF HaltQueue, HaltCurr, Halting
    <3> QED
      BY <2>1, <2>3, <2>4, <3>1 DEF EndedAreClosed, Closed
  <2>12. CASE HaltDeactivate \/ HaltCurrent \/ HaltCount \/ HaltReturn
    <3>1. saved' = saved
      BY <2>12 DEF HaltDeactivate, HaltCurrent, HaltCount, HaltReturn
    <3>2. cpu'.pc \in {"current", "count", "return", "user"}
      BY <1>0, <2>12, HaltingTypes
      DEF HaltDeactivate, HaltCurrent, HaltCount, HaltReturn, HaltPoints, User
    <3> QED
      BY <2>3, <3>1, <3>2 DEF EndedAreClosed
  <2> QED
    BY <2>5, <2>6, <2>7, <2>8, <2>9, <2>10, <2>11, <2>12 DEF Next, HaltStep
<1> QED
  BY <1>0, <1>1, <1>2

-----------------------------------------------------------------------------
(* Calls *)

\* In a system call the two ways to find the PCB of the caller agree.
LEMMA PcbIsCaller ==
    ASSUME BootFirst, CoreInv, InUser
    PROVE  /\ process_num \in Pids /\ cpu.on = process_num /\ active[process_num]
           /\ Caller = process_num
           /\ \A type : PcbOf(type) = process_num
           /\ saved[process_num] = Wild
<1>1. TypeOK /\ Settled /\ cpu.pc = "user" /\ pit_count > PROCESS_NUMBER_PIT
  BY DEF CoreInv, HInv, InUser, BootFirst
<1>2. schedule_idx \in Terminals /\ cpu # Wild
  BY <1>1, TurnFacts DEF Wild
<1>3. /\ process_num \in Pids /\ cpu.on = process_num /\ active[process_num]
      /\ process_num = schedule_array[schedule_idx]
  BY <1>1, UserRuns
<1>4. curr_pid[schedule_idx] = process_num
  BY <1>1, <1>2, <1>3 DEF CoreInv, CurrFollows
<1>5. saved[process_num] = Wild
  BY <1>1 DEF Settled, SavedOwn
<1> QED
  BY <1>3, <1>4, <1>5 DEF Caller, PcbOf

\* One slot of the running program changes.
LEMMA EditIsSafe ==
    ASSUME FileInv, NEW p \in Pids, NEW fd \in Slots, NEW descriptor \in Descriptors,
           p = cpu.on, p = process_num, active[p], InUser, UNCHANGED vars,
           file_descriptor' = [file_descriptor EXCEPT ![p][fd] = descriptor],
           opens' \in 0 .. OPENS,
           MakesSense(descriptor), Continues(file_descriptor[p][fd], descriptor)
    PROVE  Safe
<1>1. file_descriptor \in [Pids -> [Fds -> Descriptors]] /\ fd \in Fds
  BY SlotFacts DEF FileInv, FileTypeOK
<1>2. file_descriptor' \in [Pids -> [Fds -> Descriptors]]
  BY <1>1
<1>3. \A q \in Pids, g \in Fds :
        file_descriptor'[q][g] = IF q = p /\ g = fd THEN descriptor ELSE file_descriptor[q][g]
  BY <1>1
<1>4. \A q \in Pids : q # p => file_descriptor'[q] = file_descriptor[q]
  BY <1>1
<1>5. OpenFilesMakeSense'
  <2>1. SUFFICES ASSUME NEW q \in Pids, NEW g \in Slots
                 PROVE  MakesSense(file_descriptor'[q][g])
    BY DEF OpenFilesMakeSense, MakesSense
  <2>2. MakesSense(file_descriptor[q][g])
    BY DEF FileInv, OpenFilesMakeSense, MakesSense
  <2>3. g \in Fds
    BY SlotFacts
  <2> QED
    BY <1>3, <2>2, <2>3
<1>6. FreePcbsAreClosed'
  BY <1>4 DEF FreePcbsAreClosed, FileInv, vars, tables
<1>7. OwnFilesStep
  BY <1>4 DEF OwnFilesStep
<1>8. StableStep
  <2>1. SUFFICES ASSUME NEW q \in Pids, NEW g \in Slots
                 PROVE  Continues(file_descriptor[q][g], file_descriptor'[q][g])
    BY DEF StableStep, Continues
  <2>2. g \in Fds /\ file_descriptor[q][g] \in Descriptors
    BY <1>1, SlotFacts
  <2>3. CASE q = p /\ g = fd
    BY <1>3, <2>2, <2>3
  <2>4. CASE ~(q = p /\ g = fd)
    <3>1. file_descriptor'[q][g] = file_descriptor[q][g]
      BY <1>3, <2>2, <2>4
    <3> QED
      BY <2>2, <3>1 DEF Continues, Descriptors
  <2> QED
    BY <2>3, <2>4
<1>9. StdioIsTerminal'
  BY <1>3, SlotFacts DEF StdioIsTerminal, FileInv
<1>10. OpeningStep
  BY <1>3, SlotFacts DEF OpeningStep
<1> QED
  BY <1>2, <1>5, <1>6, <1>7, <1>8, <1>9, <1>10 DEF Safe, FileInv, FileTypeOK

\* What the slots of a program hold.
LEMMA SlotTypes ==
    ASSUME FileInv, NEW p \in Pids, NEW fd \in Slots
    PROVE  /\ fd \in Fds
           /\ file_descriptor[p][fd] \in Descriptors
           /\ MakesSense(file_descriptor[p][fd])
BY SlotFacts DEF FileInv, FileTypeOK, OpenFilesMakeSense, MakesSense

\* open fills a free slot of the caller.
LEMMA OpenIsSafe ==
    ASSUME BootFirst, CoreInv, FileInv, NEW name \in Files, Open(name) PROVE Safe
<1> DEFINE type == FileType[name]
           p == process_num
<1>1. /\ p \in Pids /\ cpu.on = p /\ active[p] /\ PcbOf(type) = p
  BY PcbIsCaller DEF Open
<1>2. PICK fd \in FreeSlots(p) :
        file_descriptor' = [file_descriptor EXCEPT ![p][fd] =
          [flags |-> TRUE, fop |-> type,
           inode |-> IF type = "file" THEN name ELSE NoFile,
           file_position |-> FirstPosition(@.file_position)]]
  BY <1>1 DEF Open
<1> DEFINE descriptor == [flags |-> TRUE, fop |-> type,
                          inode |-> IF type = "file" THEN name ELSE NoFile,
                          file_position |-> 0]
<1>3. file_descriptor' = [file_descriptor EXCEPT ![p][fd] = descriptor]
  BY <1>2 DEF FirstPosition
<1>4. fd \in Slots /\ ~file_descriptor[p][fd].flags
  BY <1>2 DEF FreeSlots
<1>5. descriptor \in Descriptors /\ type \in FileTypes
  BY DescriptorConstants DEF Descriptors
<1>6. MakesSense(descriptor)
  BY <1>5, DescriptorConstants DEF MakesSense, FileTypes
<1>7. Continues(file_descriptor[p][fd], descriptor)
  BY <1>4 DEF Continues
<1>8. InUser /\ UNCHANGED vars
  BY DEF Open
<1>9. opens' \in 0 .. OPENS
  BY DescriptorConstants DEF Open, FileInv, FileTypeOK
<1> HIDE DEF descriptor
<1> QED
  BY <1>1, <1>3, <1>4, <1>5, <1>6, <1>7, <1>8, <1>9, EditIsSafe

\* close frees a slot of the caller.
LEMMA CloseIsSafe ==
    ASSUME BootFirst, CoreInv, FileInv, NEW fd \in Fds, Close(fd) PROVE Safe
<1> DEFINE p == process_num
           descriptor == [file_descriptor[p][fd] EXCEPT !.flags = FALSE]
<1>1. /\ p \in Pids /\ cpu.on = p /\ active[p] /\ Caller = p
      /\ PcbOf(file_descriptor[Caller][fd].fop) = p
  BY PcbIsCaller DEF Close
<1>2. fd \in Slots
  BY DEF Close
<1>3. file_descriptor[p][fd] \in Descriptors
  BY <1>1, <1>2, SlotTypes
<1>4. descriptor \in Descriptors /\ ~descriptor.flags
  BY <1>3 DEF Descriptors
<1>5. file_descriptor' = [file_descriptor EXCEPT ![p][fd] = descriptor]
  BY <1>1 DEF Close
<1>6. MakesSense(descriptor) /\ Continues(file_descriptor[p][fd], descriptor)
  BY <1>4 DEF MakesSense, Continues
<1>7. InUser /\ UNCHANGED vars /\ opens' \in 0 .. OPENS
  BY DEF Close, FileInv, FileTypeOK
<1> HIDE DEF descriptor
<1> QED
  BY <1>1, <1>2, <1>4, <1>5, <1>6, <1>7, EditIsSafe

\* A read never reaches beyond the end of the file.
LEMMA ReadStaysInside ==
    ASSUME NEW f \in Files, NEW position \in Nat, NEW n \in Nat,
           position <= FileLength[f]
    PROVE  /\ BytesRead(f, position, n) \in Nat
           /\ position + BytesRead(f, position, n) <= FileLength[f]
BY DescriptorConstants DEF BytesRead

\* read moves a slot of the caller forward.
LEMMA ReadFileIsSafe ==
    ASSUME BootFirst, CoreInv, FileInv, NEW fd \in Fds, NEW n \in ReadSizes, ReadFile(fd, n)
    PROVE  Safe
<1> DEFINE p == process_num
           old == file_descriptor[p][fd]
           moved == old.file_position + BytesRead(old.inode, old.file_position, n)
           descriptor == [old EXCEPT !.file_position = moved]
<1>1. /\ p \in Pids /\ cpu.on = p /\ active[p] /\ Caller = p /\ PcbOf("file") = p
  BY PcbIsCaller DEF ReadFile
<1>2. old.flags /\ old.fop = "file"
  BY <1>1 DEF ReadFile
<1>3. fd \in Slots
  BY <1>1, <1>2 DEF FileInv, StdioIsTerminal, Fds
<1>4. old \in Descriptors /\ MakesSense(old)
  BY <1>1, <1>3, SlotTypes
<1>5. old.inode \in Files /\ old.file_position \in Nat /\ n \in Nat
      /\ old.file_position <= FileLength[old.inode]
  BY <1>2, <1>4, DescriptorConstants DEF MakesSense, Descriptors
<1>6. moved \in Nat /\ old.file_position <= moved /\ moved <= FileLength[old.inode]
  <2>1. BytesRead(old.inode, old.file_position, n) \in Nat
        /\ old.file_position + BytesRead(old.inode, old.file_position, n)
             <= FileLength[old.inode]
    BY <1>5, ReadStaysInside
  <2> QED
    BY <1>5, <2>1
<1>7. file_descriptor' = [file_descriptor EXCEPT ![p][fd] = descriptor]
  BY <1>1 DEF ReadFile
<1> HIDE DEF moved
<1>8. /\ descriptor \in Descriptors
      /\ descriptor.flags = old.flags /\ descriptor.fop = old.fop
      /\ descriptor.inode = old.inode /\ descriptor.file_position = moved
  BY <1>4, <1>6 DEF Descriptors
<1>9. MakesSense(descriptor) /\ Continues(old, descriptor)
  BY <1>2, <1>4, <1>6, <1>8 DEF MakesSense, Continues
<1>10. InUser /\ UNCHANGED vars /\ opens' \in 0 .. OPENS
  BY DEF ReadFile, FileInv, FileTypeOK
<1> HIDE DEF descriptor, old
<1> QED
  BY <1>1, <1>3, <1>7, <1>8, <1>9, <1>10, EditIsSafe DEF old

\* A read of the directory moves to the next entry, if there is one.
LEMMA ReadDirectoryIsSafe ==
    ASSUME BootFirst, CoreInv, FileInv, NEW fd \in Fds, ReadDirectory(fd) PROVE Safe
<1> DEFINE p == process_num
           old == file_descriptor[p][fd]
           descriptor == [old EXCEPT !.file_position = old.file_position + 1]
<1>1. /\ p \in Pids /\ cpu.on = p /\ active[p] /\ Caller = p
      /\ PcbOf("directory") = p
  BY PcbIsCaller DEF ReadDirectory
<1>2. old.flags /\ old.fop = "directory" /\ old.file_position < dir_count
  BY <1>1 DEF ReadDirectory
<1>3. fd \in Slots
  BY <1>1, <1>2 DEF FileInv, StdioIsTerminal, Fds
<1>4. old \in Descriptors /\ old.file_position \in Nat
  BY <1>1, <1>3, SlotTypes DEF Descriptors
<1>5. file_descriptor' = [file_descriptor EXCEPT ![p][fd] = descriptor]
  BY <1>1 DEF ReadDirectory
<1>6. /\ descriptor \in Descriptors
      /\ descriptor.flags = old.flags /\ descriptor.fop = old.fop
      /\ descriptor.inode = old.inode
      /\ descriptor.file_position = old.file_position + 1
  BY <1>4 DEF Descriptors
<1>7. MakesSense(descriptor) /\ Continues(old, descriptor)
  BY <1>2, <1>4, <1>6, DescriptorConstants DEF MakesSense, Continues
<1>8. InUser /\ UNCHANGED vars /\ opens' \in 0 .. OPENS
  BY DEF ReadDirectory, FileInv, FileTypeOK
<1> HIDE DEF descriptor, old
<1> QED
  BY <1>1, <1>3, <1>5, <1>6, <1>7, <1>8, EditIsSafe DEF old

-----------------------------------------------------------------------------
(* Programs start and end *)

\* A step that leaves the descriptors alone and frees no PCB with open files.
LEMMA OthersAreSafe ==
    ASSUME FileInv, UNCHANGED files,
           \A p \in Pids : active[p] => active'[p] \/ Closed(p)
    PROVE  Safe
<1>1. FileTypeOK' /\ OpenFilesMakeSense' /\ FreePcbsAreClosed' /\ StdioIsTerminal'
  BY DEF files, FileInv, FileTypeOK, OpenFilesMakeSense, FreePcbsAreClosed, StdioIsTerminal,
         Closed
<1>2. OwnFilesStep
  BY DEF files, OwnFilesStep
<1>3. StableStep
  BY SlotTypes DEF files, StableStep, Descriptors
<1>4. OpeningStep
  BY DEF files, OpeningStep
<1> QED
  BY <1>1, <1>2, <1>3, <1>4 DEF Safe, FileInv

\* The slots of one program change, each to closed or not at all; the program
\* is the one that runs, or a new one.
LEMMA ClosingIsSafe ==
    ASSUME FileInv, NEW p \in Pids, p = cpu.on \/ (~active[p] /\ active'[p]),
           FileTypeOK', StdioIsTerminal',
           \A q \in Pids \ {p} : file_descriptor'[q] = file_descriptor[q],
           \A q \in Pids \ {p} : active[q] => active'[q],
           \A fd \in Slots : file_descriptor'[p][fd].flags
                                => file_descriptor'[p][fd] = file_descriptor[p][fd],
           ~active'[p] => \A fd \in FD_MIN .. FD_MAX - 1 : ~file_descriptor'[p][fd].flags
    PROVE  Safe
<1>1. \A q \in Pids, fd \in Slots :
        file_descriptor'[q][fd].flags => file_descriptor'[q][fd] = file_descriptor[q][fd]
  OBVIOUS
<1>2. OpenFilesMakeSense'
  BY <1>1 DEF OpenFilesMakeSense, FileInv
<1>3. FreePcbsAreClosed'
  BY DEF FreePcbsAreClosed, FileInv
<1>4. OwnFilesStep
  BY DEF OwnFilesStep
<1>5. StableStep
  <2>1. SUFFICES ASSUME NEW q \in Pids, NEW fd \in Slots, file_descriptor'[q][fd].flags
                 PROVE  Continues(file_descriptor[q][fd], file_descriptor'[q][fd])
    BY DEF StableStep, Continues
  <2>2. file_descriptor'[q][fd] = file_descriptor[q][fd]
    BY <1>1, <2>1
  <2> QED
    BY <2>2, SlotTypes DEF Continues, Descriptors
<1>6. OpeningStep
  BY <1>1 DEF OpeningStep
<1> QED
  BY <1>2, <1>3, <1>4, <1>5, <1>6 DEF Safe, FileInv

\* Opening the descriptors of the terminal touches no slot.
LEMMA StdioTouchesNoSlot ==
    ASSUME NEW fds \in [Pids -> [Fds -> Descriptors]], NEW q \in Pids
    PROVE  /\ StdioOpened(fds, q) \in [Pids -> [Fds -> Descriptors]]
           /\ \A p \in Pids : p # q => StdioOpened(fds, q)[p] = fds[p]
           /\ \A fd \in Slots : StdioOpened(fds, q)[q][fd] = fds[q][fd]
           /\ StdioOpened(fds, q)[q][0].fop = "stdin"
           /\ StdioOpened(fds, q)[q][1].fop = "stdout"
<1> DEFINE in == [fds[q][0] EXCEPT !.flags = TRUE, !.fop = "stdin"]
           out == [fds[q][1] EXCEPT !.flags = TRUE, !.fop = "stdout"]
<1>1. fds[q][0] \in Descriptors /\ fds[q][1] \in Descriptors
  BY SlotFacts
<1>2. in \in Descriptors /\ out \in Descriptors /\ in.fop = "stdin" /\ out.fop = "stdout"
  BY <1>1 DEF Descriptors
<1>3. StdioOpened(fds, q) = [fds EXCEPT ![q] = [@ EXCEPT ![0] = in, ![1] = out]]
  BY SlotFacts DEF StdioOpened
<1> HIDE DEF in, out
<1>4. [fds[q] EXCEPT ![0] = in, ![1] = out] \in [Fds -> Descriptors]
  BY <1>2, SlotFacts
<1> QED
  BY <1>2, <1>3, <1>4, SlotFacts

\* A program that starts takes a free PCB and finds its slots as they are.
LEMMA StartIsSafe ==
    ASSUME BootFirst, CoreInv, FileInv, StartsProcess PROVE Safe
<1>1. process_num' \in Pids /\ ~active[process_num'] /\ active'[process_num']
      /\ \A p \in Pids : active[p] => active'[p]
  <2>1. \E shell, interrupted, contexts : Start(shell, interrupted, contexts)
    <3>1. CASE PitFirst
      BY <3>1 DEF PitFirst
    <3>2. CASE PitLaunch
      BY <3>2 DEF PitLaunch
    <3>3. CASE \E name \in Commands : ExecuteStart(name)
      BY <3>3 DEF ExecuteStart
    <3> QED
      BY <3>1, <3>2, <3>3 DEF StartsProcess
  <2>2. PICK shell, interrupted, contexts : Start(shell, interrupted, contexts)
    BY <2>1
  <2>3. PICK q \in FreePcbs :
          /\ active' = [p \in Pids |-> p = q \/ p \in interrupted \/ active[p]]
          /\ EnterUser(q)
    BY <2>2 DEF Start
  <2> QED
    BY <2>3 DEF EnterUser, FreePcbs
<1> DEFINE q == process_num'
<1>2. file_descriptor' = StdioOpened(file_descriptor, q) /\ opens' = opens
  BY DEF StartsProcess
<1>3. file_descriptor \in [Pids -> [Fds -> Descriptors]]
  BY DEF FileInv, FileTypeOK
<1>4. FileTypeOK'
  BY <1>1, <1>2, <1>3, StdioTouchesNoSlot DEF FileTypeOK, FileInv
<1>5. StdioIsTerminal'
  <2>1. \A p \in Pids : p # q => file_descriptor'[p] = file_descriptor[p]
    BY <1>1, <1>2, <1>3, StdioTouchesNoSlot
  <2>2. file_descriptor'[q][0].fop = "stdin" /\ file_descriptor'[q][1].fop = "stdout"
    BY <1>1, <1>2, <1>3, StdioTouchesNoSlot
  <2> QED
    BY <2>1, <2>2 DEF StdioIsTerminal, FileInv
<1> HIDE DEF q
<1> QED
  BY <1>1, <1>2, <1>3, <1>4, <1>5, StdioTouchesNoSlot, ClosingIsSafe DEF q

\* The close loop closes the slots of the program that halts, but the last.
LEMMA CloseLoopEffect ==
    ASSUME BootFirst, CoreInv, FileInv, InUser
    PROVE  LET p == process_num IN
           /\ AfterCloseLoop \in [Pids -> [Fds -> Descriptors]]
           /\ \A q \in Pids \ {p} : AfterCloseLoop[q] = file_descriptor[q]
           /\ \A fd \in Fds : AfterCloseLoop[p][fd].fop = file_descriptor[p][fd].fop
           /\ \A fd \in Slots : AfterCloseLoop[p][fd].flags
                => AfterCloseLoop[p][fd] = file_descriptor[p][fd]
           /\ \A fd \in FD_MIN .. FD_MAX - 1 : ~AfterCloseLoop[p][fd].flags
<1> DEFINE p == process_num
<1>1. p \in Pids /\ \A type : PcbOf(type) = p
  BY PcbIsCaller
<1>2. file_descriptor \in [Pids -> [Fds -> Descriptors]]
  BY DEF FileInv, FileTypeOK
<1>3. AfterCloseLoop =
        [q \in Pids |-> [fd \in Fds |->
           IF fd \in ClosedByHalt /\ q = p
           THEN [file_descriptor[q][fd] EXCEPT !.flags = FALSE]
           ELSE file_descriptor[q][fd]]]
  BY <1>1 DEF AfterCloseLoop
<1> DEFINE closed(d) == [d EXCEPT !.flags = FALSE]
<1>4. \A d \in Descriptors : closed(d) \in Descriptors /\ ~closed(d).flags /\ closed(d).fop = d.fop
  BY DEF Descriptors
<1>5. AfterCloseLoop \in [Pids -> [Fds -> Descriptors]]
  BY <1>2, <1>3, <1>4
<1>6. \A q \in Pids \ {p} : AfterCloseLoop[q] = file_descriptor[q]
  BY <1>2, <1>3
<1>7. \A fd \in Fds :
        AfterCloseLoop[p][fd] = IF fd \in ClosedByHalt THEN closed(file_descriptor[p][fd])
                                ELSE file_descriptor[p][fd]
  BY <1>1, <1>3
<1>8. \A fd \in FD_MIN .. FD_MAX - 1 : fd \notin ClosedByHalt => ~file_descriptor[p][fd].flags
  BY SlotFacts DEF ClosedByHalt
<1> HIDE DEF closed
<1>9. \A fd \in Fds : AfterCloseLoop[p][fd].fop = file_descriptor[p][fd].fop
  BY <1>1, <1>2, <1>4, <1>7
<1>10. \A fd \in Slots : AfterCloseLoop[p][fd].flags
                           => AfterCloseLoop[p][fd] = file_descriptor[p][fd]
  BY <1>1, <1>2, <1>4, <1>7, SlotFacts
<1>11. \A fd \in FD_MIN .. FD_MAX - 1 : ~AfterCloseLoop[p][fd].flags
  BY <1>1, <1>2, <1>4, <1>7, <1>8, SlotFacts
<1> QED
  BY <1>5, <1>6, <1>9, <1>10, <1>11

\* A program that halts leaves its caller's files alone and its PCB closed.
LEMMA HaltIsSafe ==
    ASSUME BootFirst, CoreInv, FileInv, HaltsProcess PROVE Safe
<1> DEFINE p == process_num
<1>1. /\ InUser /\ file_descriptor' = AfterCloseLoop /\ opens' = opens
  BY DEF HaltsProcess
<1>2. PICK status \in Statuses : HaltToParent(status) \/ HaltClosesRtc(status)
  BY DEF HaltsProcess
<1>3. p \in Pids /\ p = cpu.on
  BY <1>1, PcbIsCaller
<1>4. \A q \in Pids \ {p} : active[q] => active'[q]
  BY <1>2, <1>3
  DEF HaltToParent, HaltClosesRtc, ActiveAfterHalt, child, CoreInv, HInv, TypeOK, tables
<1>5. FileTypeOK'
  BY <1>1, CloseLoopEffect DEF FileTypeOK, FileInv
<1>6. StdioIsTerminal'
  BY <1>1, <1>3, CloseLoopEffect, SlotFacts DEF StdioIsTerminal, FileInv
<1> QED
  BY <1>1, <1>3, <1>4, <1>5, <1>6, CloseLoopEffect, ClosingIsSafe

\* A base shell that halts starts again with its terminal open.
LEMMA RestartIsSafe ==
    ASSUME BootFirst, CoreInv, FileInv, RestartsShell PROVE Safe
<1> DEFINE p == process_num
           after == AfterCloseLoop
<1>1. PICK status \in Statuses : HaltBaseShell(status)
  BY DEF RestartsShell
<1>2. InUser
  BY <1>1 DEF HaltBaseShell
<1>3. p \in Pids /\ p = cpu.on
  BY <1>2, PcbIsCaller
<1>4. file_descriptor' = StdioOpened(after, p) /\ opens' = opens
  BY <1>3 DEF RestartsShell
<1>5. active'[p] /\ \A q \in Pids \ {p} : active[q] => active'[q]
  BY <1>1, <1>3 DEF HaltBaseShell, child, CoreInv, HInv, TypeOK
<1>6. /\ after \in [Pids -> [Fds -> Descriptors]]
      /\ \A q \in Pids \ {p} : after[q] = file_descriptor[q]
      /\ \A fd \in Slots : after[p][fd].flags => after[p][fd] = file_descriptor[p][fd]
  BY <1>2, CloseLoopEffect
<1> HIDE DEF after
<1>7. /\ StdioOpened(after, p) \in [Pids -> [Fds -> Descriptors]]
      /\ \A q \in Pids : q # p => StdioOpened(after, p)[q] = after[q]
      /\ \A fd \in Slots : StdioOpened(after, p)[p][fd] = after[p][fd]
      /\ StdioOpened(after, p)[p][0].fop = "stdin"
      /\ StdioOpened(after, p)[p][1].fop = "stdout"
  BY <1>3, <1>6, StdioTouchesNoSlot
<1>8. \A q \in Pids \ {p} : file_descriptor'[q] = file_descriptor[q]
  BY <1>4, <1>6, <1>7
<1>9. FileTypeOK'
  BY <1>4, <1>7 DEF FileTypeOK, FileInv
<1>10. StdioIsTerminal'
  BY <1>4, <1>7, <1>8 DEF StdioIsTerminal, FileInv
<1>11. \A fd \in Slots : file_descriptor'[p][fd].flags
                           => file_descriptor'[p][fd] = file_descriptor[p][fd]
  BY <1>4, <1>6, <1>7
<1> QED
  BY <1>3, <1>5, <1>8, <1>9, <1>10, <1>11, ClosingIsSafe

-----------------------------------------------------------------------------

\* Every step of the composition is a step of the process core or leaves it as
\* it is.
LEMMA StepOfProcesses == ASSUME [FileNext]_<<vars, files>> PROVE [Next]_vars
<1>1. CASE StartsProcess \/ RefusesProcess \/ HaltsProcess \/ RestartsShell
  BY <1>1 DEF StartsProcess, RefusesProcess, HaltsProcess, RestartsShell, Next, Pit
<1>2. CASE (PitSwitch \/ HaltStep) /\ UNCHANGED files
  BY <1>2 DEF Next, Pit
<1>3. CASE \/ \E name \in Files : Open(name)
           \/ \E fd \in Fds : \/ Close(fd)
                              \/ \E n \in ReadSizes : ReadFile(fd, n)
                              \/ ReadDirectory(fd)
  BY <1>3 DEF Open, Close, ReadFile, ReadDirectory
<1>4. CASE UNCHANGED <<vars, files>>
  BY <1>4
<1> QED
  BY <1>1, <1>2, <1>3, <1>4 DEF FileNext

\* A halt that is cut in pieces frees a PCB that it has closed before.
LEMMA HaltStepIsSafe ==
    ASSUME BootFirst, CoreInv, FileInv, EndedAreClosed, HaltStep, UNCHANGED files PROVE Safe
<1>1. cpu.pc \notin {"boot", "user"} /\ TypeOK
  BY DEF HaltStep, HaltQueue, HaltCurr, HaltDeactivate, HaltCurrent, HaltCount,
         HaltReturn, Halting, CoreInv, HInv
<1>2. Settled
  <2>1. pit_count > PROCESS_NUMBER_PIT \/ IInv
    BY <1>1, ProcessConstants DEF CoreInv, HInv, TypeOK
  <2>2. ~IInv
    BY <1>1, ProcessConstants DEF IInv, BootPhase, TypeOK, User
  <2> QED
    BY <2>1, <2>2 DEF CoreInv, HInv
<1>3. CASE HaltDeactivate
  <2>1. cpu.pc = "deactivate" /\ active' = ActiveAfterHalt
    BY <1>3 DEF HaltDeactivate, Halting
  <2>2. child = process_num /\ Closed(child)
    BY <1>1, <1>2, <2>1, EndingRuns DEF EndedAreClosed
  <2>3. \A p \in Pids : active[p] => active'[p] \/ Closed(p)
    BY <1>1, <2>1, <2>2 DEF ActiveAfterHalt, TypeOK
  <2> QED
    BY <2>3, OthersAreSafe
<1>4. CASE ~HaltDeactivate
  <2>1. active' = active
    BY <1>4 DEF HaltStep, HaltQueue, HaltCurr, HaltCurrent, HaltCount, HaltReturn, tables
  <2> QED
    BY <2>1, OthersAreSafe
<1> QED
  BY <1>3, <1>4

\* Every step of the composition is safe.
LEMMA StepIsSafe ==
    ASSUME BootFirst, CoreInv, FileInv, EndedAreClosed, [FileNext]_<<vars, files>>
    PROVE  Safe
<1>1. CASE StartsProcess
  BY <1>1, StartIsSafe
<1>2. CASE RefusesProcess
  <2>1. UNCHANGED files /\ active' = active
    BY <1>2 DEF RefusesProcess, ExecuteShellLimit, ExecuteNoPcb, ExecuteNotLoaded, tables
  <2> QED
    BY <2>1, OthersAreSafe
<1>3. CASE HaltsProcess
  BY <1>3, HaltIsSafe
<1>4. CASE RestartsShell
  BY <1>4, RestartIsSafe
<1>5. CASE PitSwitch /\ UNCHANGED files
  <2>1. \A p \in Pids : active[p] => active'[p]
    BY <1>5 DEF PitSwitch, SetUpLastShell, CoreInv, HInv, TypeOK
  <2> QED
    BY <1>5, <2>1, OthersAreSafe
<1>6. CASE HaltStep /\ UNCHANGED files
  BY <1>6, HaltStepIsSafe
<1>7. CASE \E name \in Files : Open(name)
  BY <1>7, OpenIsSafe
<1>8. CASE \E fd \in Fds : \/ Close(fd)
                           \/ \E n \in ReadSizes : ReadFile(fd, n)
                           \/ ReadDirectory(fd)
  BY <1>8, CloseIsSafe, ReadFileIsSafe, ReadDirectoryIsSafe
<1>9. CASE UNCHANGED <<vars, files>>
  BY <1>9, OthersAreSafe DEF vars, tables
<1> QED
  BY <1>1, <1>2, <1>3, <1>4, <1>5, <1>6, <1>7, <1>8, <1>9 DEF FileNext

\* The process core, the files and the halts that are under way.
Inv == CoreInv /\ FileInv /\ EndedAreClosed

\* Every step of the composition keeps the three together.
LEMMA FileNextInv ==
    ASSUME BootFirst, Inv, [FileNext]_<<vars, files>> PROVE Inv'
<1>1. CoreInv /\ FileInv /\ EndedAreClosed /\ HInv
  BY DEF Inv, CoreInv
<1>2. [Next]_vars
  BY StepOfProcesses
<1>3. HInv' /\ CurrFollows'
  BY <1>1, <1>2, NextHInv, CurrStays
<1>4. FileInv' /\ OpeningStep
  BY <1>1, StepIsSafe DEF Safe
<1>5. ASSUME NEW status \in Statuses, HaltClosesRtc(status) PROVE Closed(process_num)'
  <2>1. InUser /\ cpu.pc = "user" /\ process_num' = process_num
    BY <1>5 DEF HaltClosesRtc, InUser
  <2>2. cpu'.pc = "queue"
    BY <1>1, <1>5 DEF HaltClosesRtc, HInv, TypeOK, Contexts
\* No other step of the composition leaves that point of halt behind.
  <2>3. file_descriptor' = AfterCloseLoop
    <3>1. ~StartsProcess /\ ~RestartsShell
      <4>1. \A q : ~EnterUser(q)
        BY <2>2 DEF EnterUser, User
      <4>2. \A shell, interrupted, contexts : ~Start(shell, interrupted, contexts)
        BY <4>1 DEF Start
      <4> QED
        BY <4>1, <4>2 DEF StartsProcess, RestartsShell, PitFirst, PitLaunch, ExecuteStart,
                          HaltBaseShell
    <3>2. UNCHANGED cpu => FALSE
      BY <2>1, <2>2
    <3>3. ~RefusesProcess /\ ~UNCHANGED <<vars, files>>
      BY <3>2 DEF RefusesProcess, ExecuteShellLimit, ExecuteNoPcb, ExecuteNotLoaded,
                  vars, machine
    <3>4. \A name \in Files : ~Open(name)
      BY <3>2 DEF Open, vars, machine
    <3>5. \A fd \in Fds : /\ ~Close(fd) /\ ~ReadDirectory(fd)
                          /\ \A n \in ReadSizes : ~ReadFile(fd, n)
      BY <3>2 DEF Close, ReadDirectory, ReadFile, vars, machine
    <3>6. ~HaltStep
      BY <2>1 DEF HaltStep, HaltQueue, HaltCurr, HaltDeactivate, HaltCurrent, HaltCount,
                  HaltReturn, Halting
    <3>7. ~PitSwitch
      <4>1. SUFFICES ASSUME PitSwitch PROVE FALSE
        OBVIOUS
      <4>2. cpu' = ContextsSaved[process_num]
        BY <2>1, <4>1 DEF PitSwitch
      <4>3. process_num \in Pids
        BY <1>1, <2>1, PcbIsCaller
      <4>4. cpu' = Interrupted
        BY <1>1, <4>2, <4>3 DEF ContextsSaved, HInv, TypeOK
      <4> QED
        BY <2>1, <2>2, <4>4 DEF Interrupted, Wild
    <3>8. HaltsProcess
      BY <3>1, <3>3, <3>4, <3>5, <3>6, <3>7 DEF FileNext
    <3> QED
      BY <3>8 DEF HaltsProcess
  <2> QED
    BY <1>1, <2>1, <2>3, CloseLoopEffect DEF Closed
<1>6. EndedAreClosed'
  BY <1>1, <1>2, <1>3, <1>4, <1>5, EndedStay
<1> QED
  BY <1>3, <1>4, <1>6 DEF Inv, CoreInv

\* The process core and its files keep their invariants together, wherever the
\* timer cuts a halt.
THEOREM FileInvariance == ASSUME BootFirst PROVE FileSpec => []Inv
<1>1. ASSUME FileInit PROVE Inv
  <2>1. HInv /\ pit_count = 0
    BY <1>1, InitIInv, ProcessConstants DEF FileInit, Init, HInv, IInv, SavedInBoot
  <2>2. CurrFollows /\ EndedAreClosed
    BY <1>1, <2>1, ProcessConstants DEF FileInit, Init, CurrFollows, EndedAreClosed, Wild
  <2> QED
    BY <1>1, <2>1, <2>2, FileInitInv DEF Inv, CoreInv
<1>2. Inv /\ [FileNext]_<<vars, files>> => Inv'
  BY FileNextInv
<1> QED
  BY <1>1, <1>2, PTL DEF FileSpec

\* Descriptors, positions and counters keep their types; positions are never
\* advanced by the -1 of a read that fails (filesys.c:192-195).
THEOREM FilesTyped == ASSUME BootFirst PROVE FileSpec => []FileTypeOK
<1>1. Inv => FileTypeOK
  BY DEF Inv, FileInv
<1> QED
  BY <1>1, FileInvariance, PTL

\* A PCB that execute may use again has every slot but the last closed: a new
\* program finds none of the files of the program before it there.
THEOREM FreeIsClosed == ASSUME BootFirst PROVE FileSpec => []FreePcbsAreClosed
<1>1. Inv => FreePcbsAreClosed
  BY DEF Inv, FileInv
<1> QED
  BY <1>1, FileInvariance, PTL

\* Open files have a type, an inode of that type and a position inside.
THEOREM FilesMakeSense == ASSUME BootFirst PROVE FileSpec => []OpenFilesMakeSense
<1>1. Inv => OpenFilesMakeSense
  BY DEF Inv, FileInv
<1> QED
  BY <1>1, FileInvariance, PTL

\* No step changes the files of a program that is neither running nor starting.
THEOREM OwnFiles == ASSUME BootFirst PROVE FileSpec => OwnFilesOnly
<1>1. Inv /\ [FileNext]_<<vars, files>> => [OwnFilesStep]_<<vars, files>>
  BY StepIsSafe DEF Safe, Inv
<1> QED
  BY <1>1, FileInvariance, PTL DEF FileSpec, OwnFilesOnly

\* A descriptor keeps its file, and its position only grows, until it is closed.
THEOREM StableDescriptors == ASSUME BootFirst PROVE FileSpec => DescriptorsAreStable
<1>1. Inv /\ [FileNext]_<<vars, files>> => [StableStep]_<<vars, files>>
  BY StepIsSafe DEF Safe, Inv
<1> QED
  BY <1>1, FileInvariance, PTL DEF FileSpec, DescriptorsAreStable
=============================================================================
