------------------------------ MODULE HaltsProofs ------------------------------
(***************************************************************************)
(* Proofs about Processes when the timer may cut a halt in pieces: only    *)
(* the system calls during the boot are excluded (BootFirst), RtcOpenHalt  *)
(* is arbitrary. A cut halt may lose its flow for ever, leave curr_pid and *)
(* the memory of another process behind, and let the PCB that it has just  *)
(* freed be taken by another terminal; what survives is proved here.       *)
(***************************************************************************)
EXTENDS ProcessesProofs, FiniteSetTheorems

BootFirst == ~SyscallsDuringBoot

-----------------------------------------------------------------------------
(* The inductive invariant *)

\* During the boot, saved contexts are of base shells that wait for their turn.
SavedInBoot ==
    /\ \A p \in Pids : saved[p] \in {Wild, User(p)}
    /\ pit_count > 0 => saved[process_num] = Wild

\* p has not called a program that is still there.
Leaf(p) == \A q \in Pids : active[q] => parent_id[q] # p

\* A program in use, other than the base shells, has a caller in use on the same
\* terminal, below it, and is the only one that this caller has called.
HasCaller(p) ==
    /\ parent_id[p] \in Pids /\ active[parent_id[p]] /\ parent_id[p] < p
    /\ pcb_terminal[parent_id[p]] = pcb_terminal[p]
    /\ saved_parents_esp[p] = parent_id[p]
    /\ \A q \in Pids : active[q] /\ parent_id[q] = parent_id[p] => q = p

Families ==
    /\ \A t \in Terminals : /\ active[t] /\ pcb_terminal[t] = t
                            /\ active[schedule_array[t]]
                            /\ pcb_terminal[schedule_array[t]] = t
    /\ \A p \in Pids \ Terminals : active[p] => HasCaller(p)

\* No context is kept for a program that waits for one it called.
CallersWait == \A p \in Pids : active[p] /\ ~Leaf(p) => saved[p] = Wild

\* c has ended and is about to return to p, on terminal t.
Returning(t, p, c) ==
    /\ c \in Pids /\ ~active[c] /\ pcb_terminal[c] = t
    /\ parent_id[c] = p /\ saved_parents_esp[c] = p

\* The flows that a turn of terminal t may resume in process p: none that is
\* still known, user code, a halt of p before its first statement, or a halt of
\* a program that p called after process_num is set to p.
Flow(t, p, f) ==
    \/ f = Wild
    \/ f = User(p) /\ Leaf(p)
    \/ f.pc = "queue" /\ f.on = p /\ p # t /\ Leaf(p)
    \/ f.pc \in {"count", "return"} /\ Returning(t, p, f.on) /\ Leaf(p)

\* Between those points of a halt the queue names the caller p already, and
\* process_num still the program c that ends: a tick here would lose the flow.
Ending(t, p, c) ==
    /\ cpu.pc \in {"curr", "deactivate", "current"}
    /\ cpu.on = c /\ process_num = c
    /\ c \in Pids /\ c \notin Terminals /\ pcb_terminal[c] = t
    /\ parent_id[c] = p /\ saved_parents_esp[c] = p
    /\ active[c] <=> cpu.pc # "current"
    /\ Leaf(c)
    /\ saved[p] = Wild
    /\ cpu.pc = "current" => Leaf(p)

FlowsWait ==
    \A t \in Terminals \ {schedule_idx} :
        Flow(t, schedule_array[t], saved[schedule_array[t]])

FlowRuns ==
    \/ /\ process_num = schedule_array[schedule_idx]
       /\ Flow(schedule_idx, process_num, cpu)
    \/ Ending(schedule_idx, schedule_array[schedule_idx], process_num)

\* A context lies in the PCB of the process on whose stack it is, except for a
\* halt that returns to a process whose terminal waits.
SavedOwn ==
    /\ saved[process_num] = Wild
    /\ \A p \in Pids : \/ saved[p] = Wild
                       \/ saved[p].on = p
                       \/ \E t \in Terminals \ {schedule_idx} : p = schedule_array[t]

Settled ==
    /\ pit_count = PROCESS_NUMBER_PIT + 1
    /\ BaseFlags /\ Families /\ CallersWait
    /\ FlowsWait /\ FlowRuns /\ SavedOwn

HInv ==
    /\ TypeOK
    /\ pit_count <= PROCESS_NUMBER_PIT => IInv /\ SavedInBoot
    /\ pit_count > PROCESS_NUMBER_PIT => Settled

-----------------------------------------------------------------------------
(* The boot *)

\* When the boot is over only the base shells are there, and the contexts that
\* wait are theirs.
BootEnds ==
    /\ IInv /\ SavedInBoot /\ pit_count = PROCESS_NUMBER_PIT + 1
    /\ \A p \in Pids : active[p] => p \in Terminals

\* From there the invariant of the settled system holds.
LEMMA BootSettles == BootEnds => Settled
<1> SUFFICES ASSUME BootEnds PROVE Settled
  OBVIOUS
<1> USE DEF BootEnds
<1>1. Launched = Terminals /\ pit_count > 0 /\ Terminals \subseteq Pids
  BY ProcessConstants DEF Launched, Terminals, Pids
<1>2. ASSUME NEW t \in Terminals
      PROVE  /\ active[t] /\ pcb_terminal[t] = t /\ t \in Pids
             /\ active[schedule_array[t]] /\ pcb_terminal[schedule_array[t]] = t
             /\ schedule_array[t] \in Pids
  BY <1>1, InStack DEF IInv, CallChains
<1>3. Families
  BY <1>2 DEF Families
<1>4. ASSUME NEW p \in Pids PROVE Leaf(p)
  <2> SUFFICES ASSUME NEW q \in Pids, active[q], parent_id[q] = p PROVE FALSE
    BY DEF Leaf
  <2>1. parent_id[q] = NoPid
    BY <1>1 DEF IInv, BaseFlags
  <2> QED
    BY <2>1 DEF Pids, NoPid
<1>5. /\ schedule_idx \in Terminals /\ cpu = User(process_num)
      /\ process_num = schedule_array[schedule_idx]
  BY <1>1, RunningIsTop
<1>6. FlowRuns
  BY <1>2, <1>4, <1>5 DEF FlowRuns, Flow
<1>7. FlowsWait
  BY <1>1, <1>2, <1>4 DEF IInv, NextContextIsLive, FlowsWait, Flow
<1>8. SavedOwn
  BY <1>1 DEF SavedInBoot, SavedOwn, User
<1>9. CallersWait
  BY <1>4 DEF CallersWait
<1> QED
  BY <1>3, <1>6, <1>7, <1>8, <1>9 DEF Settled, IInv

\* Before the boot is over a step is one of the timer's.
LEMMA BootOnlyTimer ==
    ASSUME BootFirst, IInv, pit_count <= PROCESS_NUMBER_PIT, Next
    PROVE  PitFirst \/ PitLaunch \/ (PitSwitch /\ pit_count = PROCESS_NUMBER_PIT)
<1>1. ~InUser
  BY ProcessConstants DEF InUser, BootFirst, IInv, TypeOK
<1>2. cpu.pc \in {"boot", "user"}
  BY ProcessConstants DEF IInv, BootPhase, TypeOK, User
<1>3. ~HaltStep
  BY <1>2 DEF HaltStep, HaltQueue, HaltCurr, HaltDeactivate, HaltCurrent, HaltCount,
              HaltReturn, Halting
<1>4. Pit
  BY <1>1, <1>3 DEF Next, ExecuteStart, ExecuteShellLimit, ExecuteNoPcb, ExecuteNotLoaded,
                    HaltToParent, HaltBaseShell, HaltClosesRtc
<1> QED
  BY <1>4, ProcessConstants DEF Pit, PitSwitch, IInv, TypeOK

\* The launches save the base shells they interrupt, in the PCBs of their own.
LEMMA LaunchSaves ==
    ASSUME IInv, SavedInBoot, PitFirst \/ PitLaunch PROVE SavedInBoot'
<1>1. PICK contexts, interrupted :
        /\ Start(TRUE, interrupted, contexts)
        /\ contexts = saved \/ (contexts = ContextsSaved /\ pit_count > 0)
  <2>1. CASE PitFirst
    <3>1. Start(TRUE, {}, saved)
      BY <2>1 DEF PitFirst
    <3> QED
      BY <3>1
  <2>2. CASE PitLaunch
    <3>1. Start(TRUE, {process_num}, ContextsSaved)
      BY <2>2 DEF PitLaunch
    <3>2. pit_count > 0
      BY <2>2, ProcessConstants DEF PitLaunch
    <3> QED
      BY <3>1, <3>2
  <2> QED
    BY <2>1, <2>2
<1>2. \A p \in Pids : contexts[p] \in {Wild, User(p)}
  <2>1. CASE contexts = saved
    BY <2>1 DEF SavedInBoot
  <2>2. CASE contexts = ContextsSaved /\ pit_count > 0
    <3>1. Interrupted = User(process_num)
      BY <2>2, InterruptedIsUser
    <3> QED
      BY <2>2, <3>1 DEF ContextsSaved, SavedInBoot, IInv, TypeOK
  <2> QED
    BY <1>1, <2>1, <2>2
<1>3. PICK q \in Pids : process_num' = q /\ saved' = WithoutStack(contexts, q)
  BY <1>1 DEF Start, EnterUser, FreePcbs
<1>4. \A p \in Pids : saved'[p] = IF contexts[p].on = q THEN Wild ELSE contexts[p]
  BY <1>3 DEF WithoutStack
<1>5. saved'[q] = Wild
  BY <1>2, <1>4 DEF User
<1> QED
  BY <1>2, <1>3, <1>4, <1>5 DEF SavedInBoot

\* The last step of the boot saves the last base shell and resumes the first.
LEMMA LastBootTick ==
    ASSUME IInv, SavedInBoot, PitSwitch, pit_count = PROCESS_NUMBER_PIT
    PROVE  /\ SavedInBoot' /\ pit_count' = PROCESS_NUMBER_PIT + 1
           /\ \A p \in Pids : active'[p] => p \in Terminals
<1>1. pit_count > 0 /\ pit_count \in 1 .. PROCESS_NUMBER_PIT
  BY ProcessConstants
<1>2. process_num \in Pids /\ active[process_num] /\ Interrupted = User(process_num)
  BY <1>1, RunningIsTop, InterruptedIsUser
<1>3. \A p \in Pids : ContextsSaved[p] \in {Wild, User(p)}
  BY <1>2 DEF ContextsSaved, SavedInBoot, IInv, TypeOK
<1>4. PICK next \in Pids :
        process_num' = next /\ saved' = [ContextsSaved EXCEPT ![next] = Wild]
  <2>1. NextTurn \in Terminals
    BY ProcessConstants DEF NextTurn, IInv, TypeOK, Terminals
  <2> QED
    BY <2>1 DEF PitSwitch, IInv, TypeOK
<1>5. SavedInBoot'
  BY <1>3, <1>4, InterruptedTypes DEF SavedInBoot, IInv
<1>6. /\ pit_count' = PROCESS_NUMBER_PIT + 1
      /\ active' = [active EXCEPT ![process_num] = TRUE]
  BY DEF PitSwitch, SetUpLastShell
<1>7. \A p \in Pids : active[p] => p \in Terminals
  BY <1>1, ProcessConstants DEF IInv, BootPhase, Pids, Terminals
<1> QED
  BY <1>2, <1>5, <1>6, <1>7 DEF IInv, TypeOK

\* The boot keeps the invariant and ends in a settled state.
LEMMA BootHInv ==
    ASSUME BootFirst, HInv, pit_count <= PROCESS_NUMBER_PIT, Next PROVE HInv'
<1>1. IInv /\ SavedInBoot
  BY DEF HInv
<1>2. CASE PitFirst \/ PitLaunch
  <2>1. pit_count' <= PROCESS_NUMBER_PIT /\ pit_count' \in Int
    <3>1. pit_count \in 0 .. PROCESS_NUMBER_PIT - 1
      <4>1. CASE PitFirst
        BY <4>1, ProcessConstants DEF PitFirst
      <4>2. CASE PitLaunch
        BY <4>2, ProcessConstants DEF PitLaunch
      <4> QED
        BY <1>2, <4>1, <4>2
    <3>2. \E q, parent_of, base : JoinTerminal(q, parent_of, base)
      BY <1>2 DEF PitFirst, PitLaunch, Start
    <3> QED
      BY <3>1, <3>2, ProcessConstants DEF JoinTerminal
  <2>2. IInv' /\ SavedInBoot'
    BY <1>1, <1>2, LaunchIInv, LaunchSaves
  <2> QED
    BY <2>1, <2>2, ProcessConstants DEF HInv, IInv
<1>3. CASE PitSwitch /\ pit_count = PROCESS_NUMBER_PIT
  <2>1. IInv'
    BY <1>1, <1>3, SwitchIInv
  <2>2. /\ SavedInBoot' /\ pit_count' = PROCESS_NUMBER_PIT + 1
        /\ \A p \in Pids : active'[p] => p \in Terminals
    BY <1>1, <1>3, LastBootTick
  <2>3. BootEnds'
    BY <2>1, <2>2 DEF BootEnds
  <2>4. Settled'
    BY <2>3, BootSettles, PTL
  <2> QED
    BY <2>1, <2>2, <2>4, ProcessConstants DEF HInv, IInv
<1> QED
  BY <1>1, <1>2, <1>3, BootOnlyTimer

-----------------------------------------------------------------------------
(* What holds after the boot *)

\* Whichever flow runs, process_num is a process of the terminal whose turn it
\* is, and so is the queue's entry.
LEMMA TurnFacts ==
    ASSUME TypeOK, Settled
    PROVE  /\ Launched = Terminals /\ Terminals \subseteq Pids
           /\ schedule_idx \in Terminals
           /\ process_num \in Pids /\ pcb_terminal[process_num] = schedule_idx
           /\ \A t \in Terminals : /\ active[t] /\ pcb_terminal[t] = t
                                   /\ schedule_array[t] \in Pids
                                   /\ active[schedule_array[t]]
                                   /\ pcb_terminal[schedule_array[t]] = t
<1>1. Launched = Terminals /\ Terminals \subseteq Pids
  BY ProcessConstants DEF Settled, Launched, Terminals, Pids
<1>2. schedule_idx \in Terminals
  BY DEF TypeOK
<1>3. \A t \in Terminals : schedule_array[t] \in Pids /\ pcb_terminal[schedule_array[t]] = t
  BY DEF TypeOK, Settled, Families
<1> QED
  BY <1>1, <1>2, <1>3 DEF Settled, Families, FlowRuns, Ending

\* User code, a halt before its first statement, and one that is about to return
\* run as the queue's entry.
LEMMA EntryRuns ==
    ASSUME TypeOK, Settled, cpu.pc \notin {"curr", "deactivate", "current"}
    PROVE  /\ process_num = schedule_array[schedule_idx] /\ active[process_num]
           /\ Flow(schedule_idx, process_num, cpu)
BY TurnFacts DEF Settled, FlowRuns, Ending

\* User code runs in the queue's entry, which has called nothing.
LEMMA UserRuns ==
    ASSUME TypeOK, Settled, cpu.pc = "user"
    PROVE  /\ cpu.on = process_num /\ cpu = User(process_num)
           /\ process_num = schedule_array[schedule_idx]
           /\ process_num \in Pids /\ active[process_num] /\ Leaf(process_num)
BY TurnFacts, EntryRuns DEF Flow, Wild, User

\* A program other than a base shell is not marked as one, and has a caller.
LEMMA CalledFacts ==
    ASSUME TypeOK, Settled, NEW p \in Pids, active[p]
    PROVE  /\ is_base_shell[p] <=> p \in Terminals
           /\ parent_id[p] = NoPid <=> p \in Terminals
           /\ p \notin Terminals => HasCaller(p)
           /\ pcb_terminal[p] \in Terminals
BY TurnFacts DEF Settled, BaseFlags, Families, TypeOK

\* What no step of the settled system but execute and halt touches.
Kin == <<schedule_array, active, parent_id, is_base_shell, pcb_terminal,
         saved_parents_esp, pit_count>>

\* Families and leaves are those of the tables.
LEMMA KinKept ==
    ASSUME UNCHANGED Kin
    PROVE  /\ BaseFlags => BaseFlags'
           /\ Families => Families'
           /\ \A p : Leaf(p) <=> Leaf(p)'
           /\ \A t, p, c : Returning(t, p, c) <=> Returning(t, p, c)'
           /\ \A t, p, f : Flow(t, p, f) <=> Flow(t, p, f)'
<1> USE DEF Kin
<1>1. BaseFlags => BaseFlags'
  BY DEF BaseFlags, Launched
<1>2. \A p : Leaf(p) <=> Leaf(p)'
  BY DEF Leaf
<1>3. Families => Families'
  BY DEF Families, HasCaller
<1>4. \A t, p, c : Returning(t, p, c) <=> Returning(t, p, c)'
  BY DEF Returning
<1>5. \A t, p, f : Flow(t, p, f) <=> Flow(t, p, f)'
  BY <1>2, <1>4 DEF Flow
<1> QED
  BY <1>1, <1>2, <1>3, <1>4, <1>5

\* A step that leaves kin, contexts and the turn alone keeps everything but,
\* perhaps, the flow that runs.
LEMMA OthersKept ==
    ASSUME TypeOK, Settled, UNCHANGED <<Kin, saved, schedule_idx>>,
           FlowRuns', saved[process_num'] = Wild
    PROVE  Settled'
<1>1. BaseFlags' /\ Families'
  BY KinKept DEF Settled
<1>2. CallersWait'
  BY KinKept DEF Settled, CallersWait, Kin
<1>3. FlowsWait'
  <2>1. \A t \in Terminals \ {schedule_idx} :
           Flow(t, schedule_array[t], saved[schedule_array[t]])'
    BY KinKept DEF Settled, FlowsWait, Kin
  <2> QED
    BY <2>1 DEF FlowsWait
<1>4. SavedOwn'
  BY DEF Settled, SavedOwn, Kin
<1> QED
  BY <1>1, <1>2, <1>3, <1>4 DEF Settled, Kin

-----------------------------------------------------------------------------
(* execute and the restart of a base shell *)

\* A refused call changes no process.
LEMMA RefusedHInv ==
    ASSUME TypeOK, Settled, NEW name \in Commands,
           ExecuteShellLimit(name) \/ ExecuteNoPcb(name) \/ ExecuteNotLoaded(name)
    PROVE  TypeOK' /\ Settled'
<1>1. cpu.pc = "user"
  BY DEF ExecuteShellLimit, ExecuteNoPcb, ExecuteNotLoaded, InUser
<1>2. UNCHANGED <<tables, machine, pit_count, saved_status_num>>
  BY DEF ExecuteShellLimit, ExecuteNoPcb, ExecuteNotLoaded, counters
<1>3. shell_process_count' \in Int
  BY DEF ExecuteShellLimit, ExecuteNoPcb, ExecuteNotLoaded, counters, CountShell, TypeOK
<1>4. eax' \in [to : Pids \cup {NoPid}, value : Results]
  <2>1. \E value \in Results : Returns(cpu.on, value)
    BY DEF ExecuteShellLimit, ExecuteNoPcb, ExecuteNotLoaded, RefusedValue, Results
  <2> QED
    BY <1>1, <2>1, UserRuns DEF Returns
<1>5. TypeOK'
  BY <1>2, <1>3, <1>4 DEF TypeOK, tables, machine
<1>6. UNCHANGED <<Kin, saved, schedule_idx, cpu, process_num>>
  BY <1>2 DEF Kin, tables, machine
<1>7. FlowRuns'
  BY <1>6, KinKept DEF FlowRuns, Ending, Kin, Settled
<1>8. saved[process_num'] = Wild
  BY <1>6 DEF Settled, SavedOwn
<1> QED
  BY <1>5, <1>6, <1>7, <1>8, OthersKept

\* A program that is called: it takes a free PCB, which a halt that another
\* terminal has yet to end may have left, and with it that halt's stack.
LEMMA ExecuteHInv ==
    ASSUME TypeOK, Settled, NEW name \in Commands, ExecuteStart(name)
    PROVE  TypeOK' /\ Settled'
<1> DEFINE t0 == schedule_idx
           c == process_num
<1>1. /\ cpu.on = c /\ c = schedule_array[t0] /\ c \in Pids /\ active[c] /\ Leaf(c)
      /\ t0 \in Terminals /\ pcb_terminal[c] = t0 /\ saved[c] = Wild
      /\ schedule_idx' = schedule_idx
  BY UserRuns, TurnFacts DEF ExecuteStart, InUser, Settled, SavedOwn
<1>2. PICK q \in FreePcbs : Started(q, {}, saved)
  <2>1. Start(name \in ShellNamed, {}, saved) /\ saved \in [Pids -> Contexts]
    BY DEF ExecuteStart, TypeOK
  <2>2. (name \in ShellNamed) \in BOOLEAN
    OBVIOUS
  <2> QED
    BY <2>1, <2>2, StartTypes
<1>3. q \in Pids /\ q > c /\ ~active[q] /\ q # c /\ q \notin Terminals
  <2>1. q \in Pids /\ q > c /\ ~active[q]
    BY <1>2 DEF FreePcbs
  <2> QED
    BY <1>1, <2>1, TurnFacts DEF Pids
<1>4. is_base_shell[q] = FALSE /\ parent_id[q] # NoPid
  BY <1>3, TurnFacts DEF Settled, BaseFlags, TypeOK
<1>5. /\ pcb_terminal' = [pcb_terminal EXCEPT ![q] = t0]
      /\ schedule_array' = [schedule_array EXCEPT ![t0] = q]
      /\ curr_pid' = [curr_pid EXCEPT ![t0] = q]
      /\ is_base_shell' = [is_base_shell EXCEPT ![q] = FALSE]
      /\ parent_id' = [parent_id EXCEPT ![q] = c]
      /\ pit_count' = pit_count /\ pit_count = PROCESS_NUMBER_PIT + 1
  <2>1. JoinTerminal(q, c, FALSE)
    BY <1>2, <1>4 DEF Started
  <2>2. pit_count = PROCESS_NUMBER_PIT + 1 /\ ~(pit_count < PROCESS_NUMBER_PIT)
    BY ProcessConstants DEF Settled
  <2> QED
    BY <1>1, <2>1, <2>2 DEF JoinTerminal
<1>6. /\ page' = q /\ esp0' = q /\ process_num' = q /\ cpu' = User(q)
      /\ cpu' \in Contexts
      /\ is_shell' \in [Pids -> BOOLEAN]
      /\ saved_parents_esp' = [saved_parents_esp EXCEPT ![q] = c]
      /\ shell_process_count' \in Int
      /\ saved' = WithoutStack(saved, q) /\ saved' \in [Pids -> Contexts]
      /\ UNCHANGED <<saved_status_num, eax>>
      /\ active' \in [Pids -> BOOLEAN]
  BY <1>1, <1>2 DEF Started
<1>7. TypeOK'
  <2>1. /\ schedule_array' \in [Terminals -> Pids]
        /\ curr_pid' \in [Terminals -> Pids]
        /\ parent_id' \in [Pids -> Pids \cup {NoPid}]
        /\ is_base_shell' \in [Pids -> BOOLEAN]
        /\ pcb_terminal' \in [Pids -> Terminals]
        /\ saved_parents_esp' \in [Pids -> Pids \cup {NoPid}]
    BY <1>1, <1>3, <1>5, <1>6 DEF TypeOK
  <2> QED
    BY <1>1, <1>3, <1>5, <1>6, <2>1 DEF TypeOK
<1>8. \A p \in Pids :
        /\ active'[p] <=> p = q \/ active[p]
        /\ parent_id'[p] = IF p = q THEN c ELSE parent_id[p]
        /\ pcb_terminal'[p] = IF p = q THEN t0 ELSE pcb_terminal[p]
        /\ saved_parents_esp'[p] = IF p = q THEN c ELSE saved_parents_esp[p]
        /\ is_base_shell'[p] = IF p = q THEN FALSE ELSE is_base_shell[p]
        /\ saved'[p] = IF saved[p].on = q THEN Wild ELSE saved[p]
  BY <1>2, <1>5, <1>6 DEF Started, TypeOK, WithoutStack
<1>9. \A t \in Terminals : schedule_array'[t] = IF t = t0 THEN q ELSE schedule_array[t]
  BY <1>5 DEF TypeOK
<1>10. BaseFlags'
  <2>1. Launched' = Launched /\ Launched = Terminals
    BY <1>5, TurnFacts DEF Launched
  <2>2. c # NoPid
    BY <1>1 DEF Pids, NoPid
  <2> QED
    BY <1>3, <1>4, <1>8, <2>1, <2>2 DEF Settled, BaseFlags
\* The new program is a leaf, and its caller is the only one that no longer is.
<1>11. \A r \in Pids : active[r] => parent_id[r] # q
  <2>1. ASSUME NEW r \in Pids, active[r] PROVE parent_id[r] = NoPid \/ active[parent_id[r]]
    BY <2>1, CalledFacts DEF HasCaller
  <2> QED
    BY <1>3, <2>1 DEF Pids, NoPid
<1>12. Leaf(q)' /\ \A p \in Pids : p # c /\ Leaf(p) => Leaf(p)'
  BY <1>3, <1>8, <1>11 DEF Leaf
<1>13. Families'
  <2>1. ASSUME NEW t \in Terminals
        PROVE  /\ active'[t] /\ pcb_terminal'[t] = t
               /\ active'[schedule_array'[t]]
               /\ pcb_terminal'[schedule_array'[t]] = t
    <3>1. t \in Pids /\ t # q /\ active'[t] /\ pcb_terminal'[t] = t
      <4>1. t \in Pids /\ active[t] /\ pcb_terminal[t] = t
        BY TurnFacts
      <4>2. t # q
        BY <1>3, <4>1
      <4> QED
        BY <1>8, <4>1, <4>2
    <3>2. CASE t = t0
      BY <1>3, <1>8, <1>9, <3>1, <3>2
    <3>3. CASE t # t0
      <4>1. schedule_array[t] \in Pids \ {q} /\ schedule_array'[t] = schedule_array[t]
        BY <1>3, <1>9, <3>3, TurnFacts
      <4>2. active[schedule_array[t]] /\ pcb_terminal[schedule_array[t]] = t
        BY TurnFacts
      <4>3. active'[schedule_array[t]] /\ pcb_terminal'[schedule_array[t]] = t
        BY <1>8, <4>1, <4>2
      <4> QED
        BY <3>1, <4>1, <4>3
    <3> QED
      BY <3>2, <3>3
  <2>2. HasCaller(q)'
    <3>1. \A r \in Pids : active'[r] /\ parent_id'[r] = c => r = q
      BY <1>1, <1>8 DEF Leaf
    <3> QED
      BY <1>1, <1>3, <1>8, <3>1 DEF HasCaller
  <2>3. ASSUME NEW p \in Pids \ Terminals, active[p] PROVE HasCaller(p)'
    <3>1. HasCaller(p) /\ p # q /\ parent_id[p] # q /\ parent_id[p] # c
      BY <1>1, <1>3, <2>3, <1>11, CalledFacts DEF Leaf
    <3> QED
      BY <1>8, <3>1 DEF HasCaller
  <2> QED
    BY <1>8, <2>1, <2>2, <2>3 DEF Families
<1>14. CallersWait'
  <2> SUFFICES ASSUME NEW p \in Pids, active'[p], ~Leaf(p)' PROVE saved'[p] = Wild
    BY DEF CallersWait
  <2>1. p # q /\ active[p] /\ (p = c \/ ~Leaf(p))
    BY <1>8, <1>12
  <2>2. saved[p] = Wild
    BY <1>1, <2>1 DEF Settled, CallersWait
  <2> QED
    BY <1>8, <2>2
<1>15. FlowsWait'
  <2> SUFFICES ASSUME NEW t \in Terminals \ {t0}
               PROVE  Flow(t, schedule_array[t], saved[schedule_array[t]])'
    BY <1>1 DEF FlowsWait
  <2> DEFINE s == schedule_array[t]
             f == saved[s]
  <2>1. s \in Pids /\ active[s] /\ pcb_terminal[s] = t /\ s # q /\ s # c
    BY <1>1, <1>3, TurnFacts
  <2>2. schedule_array'[t] = s
    BY <1>9
  <2>3. CASE f.on = q
    BY <1>8, <2>1, <2>2, <2>3 DEF Flow
  <2>4. CASE f.on # q
    <3>1. saved'[s] = f
      BY <1>8, <2>1, <2>4
    <3>2. Flow(t, s, f)
      BY DEF Settled, FlowsWait
    <3>3. Leaf(s) => Leaf(s)'
      BY <1>12, <2>1, <2>2
    <3>4. Returning(t, s, f.on) => Returning(t, s, f.on)'
      BY <1>8, <2>2, <2>4, <3>1 DEF Returning
    <3> QED
      BY <2>2, <3>1, <3>2, <3>3, <3>4 DEF Flow
  <2> QED
    BY <2>3, <2>4
<1>16. FlowRuns'
  BY <1>1, <1>6, <1>9, <1>12 DEF FlowRuns, Flow
<1>17. SavedOwn'
  <2>1. saved[q] = Wild \/ saved[q].on = q
    BY <1>3, TurnFacts DEF Settled, SavedOwn
  <2>2. saved'[q] = Wild
    BY <1>3, <1>8, <2>1
  <2>3. ASSUME NEW p \in Pids
        PROVE  \/ saved'[p] = Wild
               \/ saved'[p].on = p
               \/ \E t \in Terminals \ {t0} : p = schedule_array'[t]
    <3>1. saved'[p] = Wild \/ saved'[p] = saved[p]
      BY <1>8
    <3>2. \/ saved[p] = Wild \/ saved[p].on = p
          \/ \E t \in Terminals \ {t0} : p = schedule_array[t]
      BY DEF Settled, SavedOwn
    <3>3. \A t \in Terminals \ {t0} : schedule_array'[t] = schedule_array[t]
      BY <1>9
    <3> QED
      BY <3>1, <3>2, <3>3
  <2> QED
    BY <1>1, <1>6, <2>2, <2>3 DEF SavedOwn
<1> QED
  BY <1>5, <1>7, <1>10, <1>13, <1>14, <1>15, <1>16, <1>17 DEF Settled

\* A base shell that halts starts again where it was, in the same tables.
LEMMA RestartHInv ==
    ASSUME TypeOK, Settled, NEW status \in Statuses, HaltBaseShell(status)
    PROVE  TypeOK' /\ Settled'
<1> DEFINE c == process_num
<1>1. /\ cpu = User(c) /\ child = c /\ c = schedule_array[schedule_idx]
      /\ c \in Pids /\ active[c] = TRUE /\ pcb_terminal[c] = schedule_idx
      /\ is_base_shell[c] = TRUE /\ Leaf(c)
  BY UserRuns, TurnFacts DEF HaltBaseShell, InUser, child, TypeOK
<1>2. c \in Terminals /\ parent_id[c] = NoPid /\ c = schedule_idx
  BY <1>1, CalledFacts, TurnFacts
<1>3. /\ saved_status_num' = status
      /\ active' = [active EXCEPT ![c] = TRUE]
      /\ saved_parents_esp' = [saved_parents_esp EXCEPT ![c] = c]
      /\ esp0' = c /\ process_num' = c /\ cpu' = User(c)
      /\ UNCHANGED <<schedule_idx, shell_process_count, saved, page, eax>>
      /\ JoinTerminal(c, NoPid, TRUE)
  BY <1>1 DEF HaltBaseShell, EnterUser
<1>4. /\ pcb_terminal' = [pcb_terminal EXCEPT ![c] = schedule_idx]
      /\ schedule_array' = [schedule_array EXCEPT ![schedule_idx] = c]
      /\ curr_pid' = [curr_pid EXCEPT ![schedule_idx] = c]
      /\ is_base_shell' = [is_base_shell EXCEPT ![c] = TRUE]
      /\ parent_id' = [parent_id EXCEPT ![c] = NoPid]
      /\ pit_count' = pit_count
  <2>1. ~(pit_count < PROCESS_NUMBER_PIT)
    BY ProcessConstants DEF Settled
  <2> QED
    BY <1>1, <1>3, <2>1 DEF JoinTerminal
<1>5. UNCHANGED <<pcb_terminal, schedule_array, is_base_shell, parent_id, pit_count, active>>
  <2>1. pcb_terminal' = pcb_terminal /\ schedule_array' = schedule_array
    BY <1>1, <1>4 DEF TypeOK
  <2>2. is_base_shell' = is_base_shell /\ parent_id' = parent_id /\ active' = active
    BY <1>1, <1>2, <1>3, <1>4 DEF TypeOK
  <2> QED
    BY <1>4, <2>1, <2>2
<1>6. is_shell' \in [Pids -> BOOLEAN]
  <2>1. PICK flag \in BOOLEAN : is_shell' = [is_shell EXCEPT ![c] = flag]
    BY <1>1 DEF HaltBaseShell
  <2> QED
    BY <2>1 DEF TypeOK
<1>7. curr_pid' \in [Terminals -> Pids] /\ saved_parents_esp' \in [Pids -> Pids \cup {NoPid}]
  BY <1>1, <1>3, <1>4 DEF TypeOK
<1>8. TypeOK'
  BY <1>1, <1>3, <1>5, <1>6, <1>7 DEF TypeOK
<1>9. /\ BaseFlags' /\ \A p : Leaf(p) <=> Leaf(p)'
  BY <1>5 DEF Settled, BaseFlags, Launched, Leaf
<1>10. \A p \in Pids \ Terminals : saved_parents_esp'[p] = saved_parents_esp[p]
  BY <1>2, <1>3 DEF TypeOK
<1>11. Families' /\ CallersWait'
  BY <1>3, <1>5, <1>9, <1>10 DEF Settled, Families, CallersWait, HasCaller
<1>12. \A t \in Terminals : \A p, d : Returning(t, p, d) => Returning(t, p, d)'
  BY <1>5, <1>10, TurnFacts DEF Returning
<1>13. \A t \in Terminals : \A p, f : Flow(t, p, f) => Flow(t, p, f)'
  BY <1>9, <1>12 DEF Flow
<1>14. FlowsWait'
  <2>1. \A t \in Terminals \ {schedule_idx} :
           Flow(t, schedule_array[t], saved[schedule_array[t]])'
    BY <1>3, <1>5, <1>13 DEF Settled, FlowsWait
  <2> QED
    BY <1>3, <2>1 DEF FlowsWait
<1>15. FlowRuns'
  BY <1>1, <1>3, <1>5, <1>9 DEF FlowRuns, Flow
<1>16. SavedOwn'
  BY <1>3, <1>5 DEF Settled, SavedOwn
<1> QED
  BY <1>5, <1>8, <1>9, <1>11, <1>14, <1>15, <1>16 DEF Settled

-----------------------------------------------------------------------------
(* halt *)

\* A program in use that is no base shell and has called nothing leaves its
\* terminal to its caller.
Leaves(c, q, t) ==
    /\ c \in Pids \ Terminals /\ active[c] /\ Leaf(c)
    /\ q = parent_id[c] /\ t = pcb_terminal[c]
    /\ UNCHANGED <<parent_id, is_base_shell, pcb_terminal, saved_parents_esp, pit_count>>
    /\ active' = [active EXCEPT ![c] = FALSE, ![q] = TRUE]
    /\ schedule_array' = [schedule_array EXCEPT ![t] = q]

\* Its caller is in use, on the same terminal, and waits.
LEMMA CallerWaits ==
    ASSUME TypeOK, Settled, NEW c \in Pids \ Terminals, active[c]
    PROVE  /\ parent_id[c] \in Pids /\ active[parent_id[c]] /\ parent_id[c] < c
           /\ pcb_terminal[parent_id[c]] = pcb_terminal[c]
           /\ saved_parents_esp[c] = parent_id[c]
           /\ ~Leaf(parent_id[c]) /\ saved[parent_id[c]] = Wild
<1>1. HasCaller(c)
  BY CalledFacts
<1>2. ~Leaf(parent_id[c])
  BY <1>1 DEF HasCaller, Leaf
<1> QED
  BY <1>1, <1>2 DEF HasCaller, Settled, CallersWait

\* The families without the program that ended; its caller is a leaf again.
LEMMA LeavesFacts ==
    ASSUME TypeOK, Settled, NEW c, NEW q, NEW t, Leaves(c, q, t)
    PROVE  /\ q \in Pids /\ q # c /\ active[q] /\ pcb_terminal[q] = t /\ t \in Terminals
           /\ saved_parents_esp[c] = q /\ saved[q] = Wild
           /\ active' \in [Pids -> BOOLEAN] /\ schedule_array' \in [Terminals -> Pids]
           /\ \A p \in Pids : active'[p] <=> active[p] /\ p # c
           /\ \A s \in Terminals : schedule_array'[s] = IF s = t THEN q ELSE schedule_array[s]
           /\ BaseFlags' /\ Families' /\ Returning(t, q, c)'
           /\ Leaf(q)' /\ \A p : Leaf(p) => Leaf(p)'
           /\ \A s, p, d : Returning(s, p, d) => Returning(s, p, d)'
<1> USE DEF Leaves
<1>1. /\ q \in Pids /\ active[q] /\ q < c /\ q # c /\ pcb_terminal[q] = t /\ t \in Terminals
      /\ saved_parents_esp[c] = q /\ saved[q] = Wild
  <2>1. /\ q \in Pids /\ active[q] /\ q < c /\ pcb_terminal[q] = t /\ t \in Terminals
        /\ saved_parents_esp[c] = q /\ saved[q] = Wild
    BY CallerWaits DEF TypeOK
  <2> QED
    BY <2>1 DEF Pids
<1>2. active' \in [Pids -> BOOLEAN] /\ schedule_array' \in [Terminals -> Pids]
  BY <1>1 DEF TypeOK
<1>3. \A p \in Pids : active'[p] <=> active[p] /\ p # c
  BY <1>1 DEF TypeOK
<1>4. \A s \in Terminals : schedule_array'[s] = IF s = t THEN q ELSE schedule_array[s]
  BY DEF TypeOK
<1>5. BaseFlags'
  BY DEF Settled, BaseFlags, Launched
<1>6. \A p : Leaf(p) => Leaf(p)'
  BY <1>3 DEF Leaf
<1>7. Leaf(q)'
  <2>1. HasCaller(c)
    BY CalledFacts
  <2> QED
    BY <1>3, <2>1 DEF HasCaller, Leaf
<1>8. Returning(t, q, c)'
  BY <1>1, <1>3 DEF Returning
<1>9. \A s, p, d : Returning(s, p, d) => Returning(s, p, d)'
  BY <1>3 DEF Returning
<1>10. Families'
  <2>1. ASSUME NEW s \in Terminals
        PROVE  /\ active'[s] /\ pcb_terminal'[s] = s
               /\ active'[schedule_array'[s]]
               /\ pcb_terminal'[schedule_array'[s]] = s
    <3>1. s \in Pids /\ active'[s] /\ pcb_terminal'[s] = s
      BY <1>3, TurnFacts
    <3>2. CASE s = t
      BY <1>1, <1>3, <1>4, <3>1, <3>2
    <3>3. CASE s # t
      <4>1. /\ schedule_array[s] \in Pids /\ active[schedule_array[s]]
            /\ pcb_terminal[schedule_array[s]] = s
        BY TurnFacts
      <4>2. schedule_array[s] # c
        BY <3>3, <4>1
      <4>3. active'[schedule_array[s]] /\ schedule_array'[s] = schedule_array[s]
        BY <1>3, <1>4, <3>3, <4>1, <4>2
      <4> QED
        BY <3>1, <4>1, <4>3
    <3> QED
      BY <3>2, <3>3
  <2>2. ASSUME NEW p \in Pids \ Terminals, active'[p] PROVE HasCaller(p)'
    <3>1. active[p] /\ p # c /\ HasCaller(p)
      BY <1>3, <2>2, CalledFacts
    <3>2. parent_id[p] \in Pids /\ parent_id[p] # c
      BY <3>1 DEF HasCaller, Leaf
    <3>3. active'[parent_id[p]]
      BY <1>3, <3>1, <3>2 DEF HasCaller
    <3>4. \A r \in Pids : active'[r] /\ parent_id[r] = parent_id[p] => r = p
      BY <1>3, <3>1 DEF HasCaller
    <3> QED
      BY <3>1, <3>3, <3>4 DEF HasCaller
  <2> QED
    BY <2>1, <2>2 DEF Families
<1> QED
  BY <1>1, <1>2, <1>3, <1>4, <1>5, <1>6, <1>7, <1>8, <1>9, <1>10

\* When a program leaves on the terminal whose turn it is, those of the others
\* wait as before.
LEMMA LeavesKeepsOthers ==
    ASSUME TypeOK, Settled, NEW c, NEW q, Leaves(c, q, schedule_idx),
           UNCHANGED <<saved, schedule_idx>>
    PROVE  /\ CallersWait' /\ FlowsWait'
           /\ saved[process_num'] = Wild => SavedOwn'
<1> DEFINE t0 == schedule_idx
<1>1. \A p : Leaf(p) => Leaf(p)'
  BY LeavesFacts
<1>2. /\ \A p \in Pids : active'[p] <=> active[p] /\ p # c
      /\ \A t \in Terminals \ {t0} : schedule_array'[t] = schedule_array[t]
  BY LeavesFacts
<1>3. \A s, p, d : Returning(s, p, d) => Returning(s, p, d)'
  BY LeavesFacts
<1>4. CallersWait'
  BY <1>1, <1>2 DEF Settled, CallersWait
<1>5. \A t, p, f : Flow(t, p, f) => Flow(t, p, f)'
  BY <1>1, <1>3 DEF Flow
<1>6. FlowsWait'
  <2>1. \A t \in Terminals \ {t0} : Flow(t, schedule_array[t], saved[schedule_array[t]])
    BY DEF Settled, FlowsWait
  <2>2. \A t \in Terminals \ {t0} : Flow(t, schedule_array[t], saved[schedule_array[t]])'
    BY <1>2, <1>5, <2>1
  <2> QED
    BY <2>2 DEF FlowsWait
<1>7. saved[process_num'] = Wild => SavedOwn'
  BY <1>2 DEF Settled, SavedOwn
<1> QED
  BY <1>4, <1>6, <1>7

\* The program that runs, when it halts without an interruption.
LEMMA HaltHInv ==
    ASSUME TypeOK, Settled, NEW status \in Statuses, HaltToParent(status)
    PROVE  TypeOK' /\ Settled'
<1>1. PICK c \in Pids, q \in Pids, t0 \in Terminals :
        /\ c = process_num /\ q = parent_id[c] /\ t0 = schedule_idx
        /\ child = c /\ parent = q /\ c = schedule_array[t0] /\ pcb_terminal[c] = t0
        /\ active[c] /\ Leaf(c) /\ c \notin Terminals
  <2>1. /\ child = process_num /\ process_num \in Pids \ Terminals
        /\ active[process_num] /\ Leaf(process_num)
        /\ schedule_idx \in Terminals /\ pcb_terminal[process_num] = schedule_idx
        /\ process_num = schedule_array[schedule_idx]
    BY UserRuns, TurnFacts, CalledFacts DEF HaltToParent, InUser, child
  <2>2. parent = parent_id[process_num] /\ parent_id[process_num] \in Pids
    BY <2>1, CallerWaits DEF parent
  <2> QED
    BY <2>1, <2>2
<1>2. /\ saved_status_num' = status /\ esp0' = q /\ page' = q /\ process_num' = q
      /\ schedule_array' = [schedule_array EXCEPT ![t0] = q]
      /\ curr_pid' = [curr_pid EXCEPT ![t0] = q]
      /\ active' = [active EXCEPT ![c] = FALSE, ![q] = TRUE]
      /\ cpu' = User(saved_parents_esp[c])
      /\ eax' = [to |-> saved_parents_esp[c], value |-> status]
      /\ UNCHANGED <<pit_count, schedule_idx, parent_id, is_shell, is_base_shell,
                     pcb_terminal, saved, saved_parents_esp>>
  BY <1>1 DEF HaltToParent, ReturnToParentMemory, QueueAfterHalt, CurrAfterHalt,
              ActiveAfterHalt, Returns
<1>3. Leaves(c, q, t0)
  BY <1>1, <1>2 DEF Leaves
<1>4. /\ saved_parents_esp[c] = q /\ saved[q] = Wild
      /\ active' \in [Pids -> BOOLEAN] /\ schedule_array' \in [Terminals -> Pids]
      /\ schedule_array'[t0] = q
      /\ BaseFlags' /\ Families' /\ Leaf(q)'
  BY <1>1, <1>3, LeavesFacts
<1>5. shell_process_count' \in Int
  BY DEF HaltToParent, CountAfterHalt, TypeOK
<1>6. TypeOK'
  <2>1. cpu' \in Contexts /\ curr_pid' \in [Terminals -> Pids]
    BY <1>1, <1>2, <1>4, ContextTypes DEF TypeOK
  <2>2. eax' \in [to : Pids \cup {NoPid}, value : Results]
    BY <1>1, <1>2, <1>4 DEF Results
  <2> QED
    BY <1>1, <1>2, <1>4, <1>5, <2>1, <2>2 DEF TypeOK
<1>7. CallersWait' /\ FlowsWait' /\ SavedOwn'
  BY <1>1, <1>2, <1>3, <1>4, LeavesKeepsOthers
<1>8. FlowRuns'
  BY <1>1, <1>2, <1>4 DEF FlowRuns, Flow
<1> QED
  BY <1>2, <1>4, <1>6, <1>7, <1>8 DEF Settled

\* A program with an RTC file open: from here on the timer may interrupt.
LEMMA HaltOpensHInv ==
    ASSUME TypeOK, Settled, NEW status \in Statuses, HaltClosesRtc(status)
    PROVE  TypeOK' /\ Settled'
<1>1. /\ cpu.on = process_num /\ process_num \in Pids \ Terminals
      /\ process_num = schedule_array[schedule_idx]
      /\ active[process_num] /\ Leaf(process_num) /\ schedule_idx \in Terminals
      /\ saved[process_num] = Wild
      /\ child = process_num /\ parent = parent_id[process_num]
  BY UserRuns, TurnFacts, CalledFacts
  DEF HaltClosesRtc, InUser, child, parent, Settled, SavedOwn
<1>2. /\ cpu' = [cpu EXCEPT !.pc = "queue", !.status = status]
      /\ saved_status_num' = status /\ esp0' = parent /\ page' = parent
      /\ UNCHANGED <<tables, eax, pit_count, shell_process_count, schedule_idx,
                     process_num, saved>>
  BY DEF HaltClosesRtc, ReturnToParentMemory
<1>3. parent \in Pids
  BY <1>1, CallerWaits
<1>4. cpu' \in Contexts /\ cpu'.pc = "queue" /\ cpu'.on = process_num
  BY <1>1, <1>2 DEF TypeOK, Contexts, HaltPoints
<1>5. TypeOK'
  BY <1>2, <1>3, <1>4 DEF TypeOK, tables
<1>6. UNCHANGED <<Kin, saved, schedule_idx>> /\ process_num' = process_num
  BY <1>2 DEF Kin, tables
<1>7. FlowRuns'
  <2>1. process_num # schedule_idx
    BY <1>1
  <2>2. Leaf(process_num)'
    BY <1>1, <1>6 DEF Kin, Leaf
  <2> QED
    BY <1>1, <1>4, <1>6, <2>1, <2>2 DEF FlowRuns, Flow, Kin
<1> QED
  BY <1>1, <1>5, <1>6, <1>7, OthersKept

\* A halt moves on from one statement to the next, on the same stack.
LEMMA HaltingTypes ==
    ASSUME TypeOK, NEW from, NEW to \in HaltPoints, Halting(from, to)
    PROVE  /\ cpu.pc = from /\ cpu' \in Contexts /\ cpu'.pc = to /\ cpu'.on = cpu.on
           /\ cpu' = [cpu EXCEPT !.pc = to]
BY DEF Halting, TypeOK, Contexts

\* The queue passes to the caller while process_num still names the program.
LEMMA HaltQueueHInv ==
    ASSUME TypeOK, Settled, HaltQueue PROVE TypeOK' /\ Settled'
<1>1. /\ cpu.pc = "queue" /\ cpu' \in Contexts /\ cpu'.pc = "curr" /\ cpu'.on = cpu.on
  BY HaltingTypes DEF HaltQueue, HaltPoints
<1>2. PICK c \in Pids \ Terminals, q \in Pids, t0 \in Terminals :
        /\ c = process_num /\ q = parent_id[c] /\ t0 = schedule_idx
        /\ child = c /\ parent = q /\ c = schedule_array[t0] /\ pcb_terminal[c] = t0
        /\ active[c] /\ Leaf(c)
        /\ active[q] /\ pcb_terminal[q] = t0 /\ saved_parents_esp[c] = q /\ saved[q] = Wild
  <2>1. Flow(schedule_idx, process_num, cpu) /\ active[process_num]
        /\ process_num = schedule_array[schedule_idx]
    BY <1>1, EntryRuns
  <2>2. child = process_num /\ process_num # schedule_idx /\ Leaf(process_num)
    BY <1>1, <2>1 DEF Flow, Wild, User, child
  <2>3. /\ process_num \in Pids \ Terminals /\ schedule_idx \in Terminals
        /\ pcb_terminal[process_num] = schedule_idx
    BY <2>2, TurnFacts
  <2>4. parent = parent_id[process_num]
    BY <2>2 DEF parent
  <2> QED
    BY <2>1, <2>2, <2>3, <2>4, CallerWaits
<1>3. /\ schedule_array' = [schedule_array EXCEPT ![t0] = q]
      /\ UNCHANGED <<counters, eax, schedule_idx, process_num, saved, page, esp0,
                     curr_pid, active, parent_id, is_shell, is_base_shell,
                     pcb_terminal, saved_parents_esp>>
  BY <1>2 DEF HaltQueue, QueueAfterHalt
<1>4. TypeOK'
  <2>1. schedule_array' \in [Terminals -> Pids]
    BY <1>3 DEF TypeOK
  <2> QED
    BY <1>1, <1>3, <2>1 DEF TypeOK, counters
<1>5. \A t \in Terminals : schedule_array'[t] = IF t = t0 THEN q ELSE schedule_array[t]
  BY <1>3 DEF TypeOK
<1>6. BaseFlags' /\ \A p : Leaf(p) <=> Leaf(p)'
  BY <1>3 DEF Settled, BaseFlags, Launched, Leaf, counters
<1>7. Families'
  BY <1>2, <1>3, <1>5, TurnFacts DEF Settled, Families, HasCaller
<1>8. CallersWait'
  BY <1>3, <1>6 DEF Settled, CallersWait
<1>9. \A t, p, f : Flow(t, p, f) => Flow(t, p, f)'
  BY <1>3, <1>6 DEF Flow, Returning
<1>10. FlowsWait'
  <2>1. \A t \in Terminals \ {t0} : Flow(t, schedule_array[t], saved[schedule_array[t]])
    BY <1>2 DEF Settled, FlowsWait
  <2>2. \A t \in Terminals \ {t0} : Flow(t, schedule_array[t], saved[schedule_array[t]])'
    BY <1>3, <1>5, <1>9, <2>1
  <2> QED
    BY <1>2, <1>3, <2>2 DEF FlowsWait
<1>11. SavedOwn'
  BY <1>2, <1>3, <1>5 DEF Settled, SavedOwn
<1>12. FlowRuns'
  <2>1. cpu.on = c
    BY <1>2 DEF child
  <2>2. Leaf(c)'
    BY <1>2, <1>6
  <2>3. Ending(t0, q, c)'
    BY <1>1, <1>2, <1>3, <2>1, <2>2 DEF Ending
  <2> QED
    BY <1>2, <1>3, <1>5, <2>3 DEF FlowRuns
<1> QED
  BY <1>3, <1>4, <1>6, <1>7, <1>8, <1>10, <1>11, <1>12 DEF Settled, counters

\* Between those statements the flow that runs is the ending program's.
LEMMA EndingRuns ==
    ASSUME TypeOK, Settled, cpu.pc \in {"curr", "deactivate", "current"}
    PROVE  /\ Ending(schedule_idx, schedule_array[schedule_idx], process_num)
           /\ child = process_num /\ parent = schedule_array[schedule_idx]
<1>1. Ending(schedule_idx, schedule_array[schedule_idx], process_num)
  BY DEF Settled, FlowRuns, Flow, Wild, User
<1> QED
  BY <1>1 DEF Ending, child, parent

\* curr_pid follows.
LEMMA HaltCurrHInv ==
    ASSUME TypeOK, Settled, HaltCurr PROVE TypeOK' /\ Settled'
<1>1. /\ cpu.pc = "curr" /\ cpu' \in Contexts /\ cpu'.pc = "deactivate" /\ cpu'.on = cpu.on
  BY HaltingTypes DEF HaltCurr, HaltPoints
<1>2. /\ Ending(schedule_idx, schedule_array[schedule_idx], process_num)
      /\ child = process_num /\ parent = schedule_array[schedule_idx]
  BY <1>1, EndingRuns
<1>3. curr_pid' \in [Terminals -> Pids]
  BY <1>2, TurnFacts DEF HaltCurr, CurrAfterHalt, TypeOK
<1>4. UNCHANGED <<counters, eax, schedule_idx, process_num, saved, page, esp0,
                  schedule_array, active, parent_id, is_shell, is_base_shell,
                  pcb_terminal, saved_parents_esp>>
  BY DEF HaltCurr
<1>5. TypeOK'
  BY <1>1, <1>3, <1>4 DEF TypeOK, counters
<1>6. UNCHANGED <<Kin, saved, schedule_idx>>
  BY <1>4 DEF Kin, counters
<1>7. \A p : Leaf(p) <=> Leaf(p)'
  BY <1>6, KinKept
<1>8. FlowRuns'
  BY <1>1, <1>2, <1>4, <1>7 DEF FlowRuns, Ending
<1>9. saved[process_num'] = Wild
  BY <1>4 DEF Settled, SavedOwn
<1> QED
  BY <1>5, <1>6, <1>8, <1>9, OthersKept

\* The PCB of the program is free from here on.
LEMMA HaltDeactivateHInv ==
    ASSUME TypeOK, Settled, HaltDeactivate PROVE TypeOK' /\ Settled'
<1>1. /\ cpu.pc = "deactivate" /\ cpu' \in Contexts
      /\ cpu'.pc = "current" /\ cpu'.on = cpu.on
  BY HaltingTypes DEF HaltDeactivate, HaltPoints
<1>2. PICK c \in Pids, q \in Pids, t0 \in Terminals :
        /\ c = process_num /\ q = schedule_array[t0] /\ t0 = schedule_idx
        /\ child = c /\ parent = q
  <2>1. child = process_num /\ parent = schedule_array[schedule_idx]
    BY <1>1, EndingRuns
  <2>2. /\ schedule_idx \in Terminals /\ process_num \in Pids
        /\ schedule_array[schedule_idx] \in Pids
    BY TurnFacts
  <2> QED
    BY <2>1, <2>2
<1>3. Ending(t0, q, c)
  BY <1>1, <1>2, EndingRuns
<1>4. /\ active' = [active EXCEPT ![c] = FALSE, ![q] = TRUE]
      /\ UNCHANGED <<counters, eax, schedule_idx, process_num, saved, page, esp0,
                     schedule_array, curr_pid, parent_id, is_shell, is_base_shell,
                     pcb_terminal, saved_parents_esp>>
  BY <1>2 DEF HaltDeactivate, ActiveAfterHalt
<1>5. Leaves(c, q, t0)
  <2>1. schedule_array' = [schedule_array EXCEPT ![t0] = q]
    BY <1>2, <1>4 DEF TypeOK
  <2> QED
    BY <1>1, <1>3, <1>4, <2>1 DEF Leaves, Ending, counters
<1>6. /\ active' \in [Pids -> BOOLEAN]
      /\ \A p \in Pids : active'[p] <=> active[p] /\ p # c
      /\ BaseFlags' /\ Families' /\ Leaf(q)' /\ \A p : Leaf(p) => Leaf(p)'
  BY <1>5, LeavesFacts
<1>7. TypeOK'
  BY <1>1, <1>4, <1>6 DEF TypeOK, counters
<1>8. saved[process_num'] = Wild
  BY <1>4 DEF Settled, SavedOwn
<1>9. CallersWait' /\ FlowsWait' /\ SavedOwn'
  BY <1>2, <1>4, <1>5, <1>8, LeavesKeepsOthers
<1>10. FlowRuns'
  <2>1. Ending(t0, q, c)'
    BY <1>1, <1>3, <1>4, <1>6 DEF Ending
  <2> QED
    BY <1>2, <1>4, <2>1 DEF FlowRuns
<1> QED
  BY <1>4, <1>6, <1>7, <1>9, <1>10 DEF Settled, counters

\* process_num names the caller again, as the queue does.
LEMMA HaltCurrentHInv ==
    ASSUME TypeOK, Settled, HaltCurrent PROVE TypeOK' /\ Settled'
<1>1. /\ cpu.pc = "current" /\ cpu' \in Contexts /\ cpu'.pc = "count" /\ cpu'.on = cpu.on
  BY HaltingTypes DEF HaltCurrent, HaltPoints
<1>2. /\ Ending(schedule_idx, schedule_array[schedule_idx], process_num)
      /\ parent = schedule_array[schedule_idx]
  BY <1>1, EndingRuns
<1>3. /\ process_num' = schedule_array[schedule_idx]
      /\ UNCHANGED <<tables, counters, eax, schedule_idx, saved, page, esp0>>
  BY <1>2 DEF HaltCurrent
<1>4. process_num' \in Pids
  BY <1>3, TurnFacts
<1>5. TypeOK'
  BY <1>1, <1>3, <1>4 DEF TypeOK, tables, counters
<1>6. UNCHANGED <<Kin, saved, schedule_idx>>
  BY <1>3 DEF Kin, tables, counters
<1>7. saved[process_num'] = Wild
  BY <1>2, <1>3 DEF Ending
<1>8. FlowRuns'
  <2>1. /\ Returning(schedule_idx, schedule_array[schedule_idx], cpu.on)
        /\ Leaf(schedule_array[schedule_idx])
    BY <1>1, <1>2 DEF Ending, Returning
  <2>2. /\ Returning(schedule_idx, schedule_array[schedule_idx], cpu.on)'
        /\ Leaf(schedule_array[schedule_idx])'
    BY <1>1, <1>6, <2>1 DEF Kin, Returning, Leaf
  <2> QED
    BY <1>1, <1>3, <1>6, <2>2 DEF FlowRuns, Flow, Kin
<1> QED
  BY <1>5, <1>6, <1>7, <1>8, OthersKept

\* Where a halt is about to return, the program it ends is gone.
LEMMA ReturningRuns ==
    ASSUME TypeOK, Settled, cpu.pc \in {"count", "return"}
    PROVE  /\ Returning(schedule_idx, process_num, cpu.on) /\ Leaf(process_num)
           /\ process_num = schedule_array[schedule_idx] /\ process_num \in Pids
BY EntryRuns, TurnFacts DEF Flow, Wild, User

\* Only the count of shells changes.
LEMMA HaltCountHInv ==
    ASSUME TypeOK, Settled, HaltCount PROVE TypeOK' /\ Settled'
<1>1. /\ cpu.pc = "count" /\ cpu' \in Contexts /\ cpu'.pc = "return" /\ cpu'.on = cpu.on
  BY HaltingTypes DEF HaltCount, HaltPoints
<1>2. /\ Returning(schedule_idx, process_num, cpu.on) /\ Leaf(process_num)
      /\ process_num = schedule_array[schedule_idx]
  BY <1>1, ReturningRuns
<1>3. /\ shell_process_count' \in Int
      /\ UNCHANGED <<tables, eax, pit_count, saved_status_num, schedule_idx,
                     process_num, saved, page, esp0>>
  BY DEF HaltCount, CountAfterHalt, TypeOK
<1>4. TypeOK'
  BY <1>1, <1>3 DEF TypeOK, tables
<1>5. UNCHANGED <<Kin, saved, schedule_idx>> /\ process_num' = process_num
  BY <1>3 DEF Kin, tables
<1>6. FlowRuns'
  <2>1. Returning(schedule_idx, process_num, cpu.on)' /\ Leaf(process_num)'
    BY <1>1, <1>2, <1>5 DEF Kin, Returning, Leaf
  <2> QED
    BY <1>1, <1>2, <1>5, <2>1 DEF FlowRuns, Flow, Kin
<1>7. saved[process_num'] = Wild
  BY <1>5 DEF Settled, SavedOwn
<1> QED
  BY <1>4, <1>5, <1>6, <1>7, OthersKept

\* The caller's execute returns.
LEMMA HaltReturnHInv ==
    ASSUME TypeOK, Settled, HaltReturn PROVE TypeOK' /\ Settled'
<1>1. /\ Returning(schedule_idx, process_num, cpu.on) /\ Leaf(process_num)
      /\ process_num = schedule_array[schedule_idx] /\ process_num \in Pids
  BY ReturningRuns DEF HaltReturn
<1>2. saved_parents_esp[child] = process_num
  BY <1>1 DEF Returning, child
<1>3. /\ cpu' = User(process_num)
      /\ eax' = [to |-> process_num, value |-> saved_status_num]
      /\ UNCHANGED <<tables, counters, schedule_idx, process_num, saved, page, esp0>>
  BY <1>2 DEF HaltReturn, Returns
<1>4. TypeOK'
  <2>1. cpu' \in Contexts /\ eax' \in [to : Pids \cup {NoPid}, value : Results]
    BY <1>1, <1>3, ContextTypes DEF TypeOK, Results
  <2> QED
    BY <1>3, <2>1 DEF TypeOK, tables, counters
<1>5. UNCHANGED <<Kin, saved, schedule_idx>> /\ process_num' = process_num
  BY <1>3 DEF Kin, tables, counters
<1>6. FlowRuns'
  <2>1. Leaf(process_num)'
    BY <1>1, <1>5 DEF Kin, Leaf
  <2> QED
    BY <1>1, <1>3, <1>5, <2>1 DEF FlowRuns, Flow, Kin
<1>7. saved[process_num'] = Wild
  BY <1>5 DEF Settled, SavedOwn
<1> QED
  BY <1>4, <1>5, <1>6, <1>7, OthersKept

-----------------------------------------------------------------------------
(* The switch *)

\* A tick saves the flow that runs, if it can still be known, and resumes the one
\* that waits on the next terminal; a halt between its first statement and the
\* one that sets process_num is never resumed.
LEMMA SwitchHInv ==
    ASSUME TypeOK, Settled, PitSwitch PROVE TypeOK' /\ Settled'
<1>1. PICK c \in Pids, t0 \in Terminals, t1 \in Terminals, next \in Pids :
        /\ c = process_num /\ t0 = schedule_idx /\ t1 = NextTurn
        /\ next = schedule_array[t1] /\ pcb_terminal[next] = t1 /\ pcb_terminal[c] = t0
  <2>1. NextTurn \in Terminals
    BY ProcessConstants DEF NextTurn, TypeOK, Terminals
  <2> QED
    BY <2>1, TurnFacts
<1>2. /\ schedule_idx' = t1 /\ process_num' = next /\ page' = next /\ esp0' = next
      /\ cpu' = ContextsSaved[next]
      /\ saved' = [ContextsSaved EXCEPT ![next] = Wild]
      /\ UNCHANGED <<schedule_array, curr_pid, pcb_terminal, saved_parents_esp,
                     shell_process_count, saved_status_num, eax>>
  BY <1>1 DEF PitSwitch
<1>3. UNCHANGED <<is_shell, is_base_shell, parent_id, active, pit_count>>
  BY ProcessConstants DEF PitSwitch, SetUpLastShell, Settled
<1>4. UNCHANGED Kin
  BY <1>2, <1>3 DEF Kin
<1>5. \A t, p, f : Flow(t, p, f) => Flow(t, p, f)'
  BY <1>4, KinKept
\* What is in the PCBs after the tick has saved the flow that runs.
<1>6. /\ \A p \in Pids : ContextsSaved[p] = IF p = c THEN Interrupted ELSE saved[p]
      /\ \A p \in Pids : saved'[p] = IF p = next THEN Wild ELSE ContextsSaved[p]
  BY <1>1, <1>2, InterruptedTypes DEF ContextsSaved, TypeOK
<1>7. Interrupted \in {Wild, cpu}
  BY DEF Interrupted
<1>8. TypeOK'
  <2>1. cpu' \in Contexts /\ saved' \in [Pids -> Contexts]
    BY <1>1, <1>2, InterruptedTypes, ContextTypes
  <2> QED
    BY <1>1, <1>2, <1>3, <2>1 DEF TypeOK
\* Each terminal, the one whose turn ends included, has a flow it can resume.
<1>9. \A t \in Terminals : Flow(t, schedule_array[t], ContextsSaved[schedule_array[t]])
  <2> SUFFICES ASSUME NEW t \in Terminals
               PROVE  Flow(t, schedule_array[t], ContextsSaved[schedule_array[t]])
    OBVIOUS
  <2>1. schedule_array[t] \in Pids /\ pcb_terminal[schedule_array[t]] = t
    BY TurnFacts
  <2>2. CASE t # t0
    <3>1. ContextsSaved[schedule_array[t]] = saved[schedule_array[t]]
      BY <1>1, <1>6, <2>1, <2>2
    <3> QED
      BY <1>1, <2>2, <3>1 DEF Settled, FlowsWait
  <2>3. CASE t = t0 /\ c = schedule_array[t0] /\ Flow(t0, c, cpu)
    <3>1. ContextsSaved[schedule_array[t]] = Interrupted
      BY <1>1, <1>6, <2>3
    <3> QED
      BY <1>7, <2>3, <3>1 DEF Flow
  <2>4. CASE t = t0 /\ Ending(t0, schedule_array[t0], c)
    <3>1. schedule_array[t0] # c
      <4>1. c \notin Terminals /\ parent_id[c] = schedule_array[t0] /\ Leaf(c)
        BY <2>4 DEF Ending
      <4>2. CASE active[c]
        BY <4>1, <4>2 DEF Leaf
      <4>3. CASE ~active[c]
        BY <4>3, TurnFacts
      <4> QED
        BY <4>2, <4>3
    <3>2. ContextsSaved[schedule_array[t]] = Wild
      BY <1>6, <2>1, <2>4, <3>1 DEF Ending
    <3> QED
      BY <3>2 DEF Flow
  <2>5. \/ c = schedule_array[t0] /\ Flow(t0, c, cpu)
        \/ Ending(t0, schedule_array[t0], c)
    BY <1>1 DEF Settled, FlowRuns
  <2> QED
    BY <2>2, <2>3, <2>4, <2>5
<1>10. FlowRuns'
  BY <1>1, <1>2, <1>5, <1>9 DEF FlowRuns
<1>11. FlowsWait'
  <2>1. ASSUME NEW t \in Terminals \ {t1}
        PROVE  Flow(t, schedule_array[t], saved[schedule_array[t]])'
    <3>1. schedule_array[t] # next /\ schedule_array[t] \in Pids
      BY <1>1, TurnFacts
    <3>2. saved'[schedule_array[t]] = ContextsSaved[schedule_array[t]]
      BY <1>6, <3>1
    <3> QED
      BY <1>2, <1>5, <1>9, <3>2
  <2> QED
    BY <1>2, <2>1 DEF FlowsWait
<1>12. CallersWait'
  <2> SUFFICES ASSUME NEW p \in Pids, active[p], ~Leaf(p) PROVE saved'[p] = Wild
    BY <1>3, <1>4, KinKept DEF CallersWait
  <2>1. saved[p] = Wild
    BY DEF Settled, CallersWait
  <2>2. p = c => Interrupted = Wild
    BY <1>1, <1>7 DEF Settled, FlowRuns, Flow, Ending
  <2> QED
    BY <1>6, <2>1, <2>2
<1>13. SavedOwn'
  <2>1. ASSUME NEW p \in Pids, saved'[p] # Wild, saved'[p].on # p
        PROVE  \E t \in Terminals \ {t1} : p = schedule_array[t]
    <3>1. p # next /\ saved'[p] = ContextsSaved[p]
      BY <1>6, <2>1
    <3>2. CASE p = c
      <4>1. cpu # Wild /\ cpu.on # c
        BY <1>6, <1>7, <2>1, <3>1, <3>2
      <4>2. c = schedule_array[t0]
        BY <1>1, <4>1 DEF Settled, FlowRuns, Ending
      <4> QED
        BY <1>1, <3>1, <3>2, <4>2
    <3>3. CASE p # c
      <4>1. saved'[p] = saved[p]
        BY <1>6, <3>1, <3>3
      <4>2. \E t \in Terminals \ {t0} : p = schedule_array[t]
        BY <1>1, <2>1, <4>1 DEF Settled, SavedOwn
      <4> QED
        BY <1>1, <3>1, <4>2
    <3> QED
      BY <3>2, <3>3
  <2>2. saved'[process_num'] = Wild
    BY <1>2, <1>6
  <2> QED
    BY <1>2, <2>1, <2>2 DEF SavedOwn
<1>14. BaseFlags' /\ Families'
  BY <1>4, KinKept DEF Settled
<1> QED
  BY <1>3, <1>8, <1>10, <1>11, <1>12, <1>13, <1>14 DEF Settled

-----------------------------------------------------------------------------
(* The theorems *)

\* Every step keeps the invariant: in the boot those of the timer, after it every
\* call, every statement of a halt and every switch between them.
LEMMA NextHInv == ASSUME BootFirst, HInv, [Next]_vars PROVE HInv'
<1>0. pit_count \in Int /\ PROCESS_NUMBER_PIT \in Nat
  BY ProcessConstants DEF HInv, TypeOK
<1>1. CASE UNCHANGED vars
  <2>1. UNCHANGED <<Kin, saved, schedule_idx, cpu, process_num>> /\ TypeOK'
    BY <1>1 DEF vars, tables, counters, machine, Kin, HInv, TypeOK
  <2>2. CASE pit_count <= PROCESS_NUMBER_PIT
    <3>1. stack' = stack /\ Launched' = Launched
      BY <1>1 DEF vars, tables, counters, machine, stack, Launched
    <3>2. IInv'
      BY <1>1, <2>1, <2>2, <3>1
      DEF HInv, vars, tables, counters, machine, IInv, BootPhase, BaseFlags, CallChains,
          CurrentAgree, CurrentTop, NextContextIsLive
    <3>3. SavedInBoot' /\ pit_count' = pit_count
      BY <2>1, <2>2 DEF HInv, SavedInBoot, Kin
    <3>4. ~(pit_count' > PROCESS_NUMBER_PIT)
      BY <1>0, <2>2, <3>3
    <3> QED
      BY <2>1, <3>2, <3>3, <3>4 DEF HInv
  <2>3. CASE pit_count > PROCESS_NUMBER_PIT
    <3>1. TypeOK /\ Settled
      BY <2>3 DEF HInv
    <3>2. FlowRuns'
      BY <2>1, <3>1, KinKept DEF FlowRuns, Ending, Kin, Settled
    <3>3. saved[process_num'] = Wild
      BY <2>1, <3>1 DEF Settled, SavedOwn
    <3>4. Settled'
      BY <2>1, <3>1, <3>2, <3>3, OthersKept
    <3> QED
      BY <2>1, <3>4, ProcessConstants DEF HInv, Settled
  <2> QED
    BY <1>0, <2>2, <2>3
<1>2. CASE Next /\ pit_count <= PROCESS_NUMBER_PIT
  BY <1>2, BootHInv
<1>3. CASE Next /\ pit_count > PROCESS_NUMBER_PIT
  <2>1. TypeOK /\ Settled
    BY <1>3 DEF HInv
  <2>2. CASE Pit
    <3>1. PitSwitch
      <4>1. pit_count # 0 /\ pit_count \notin 1 .. PROCESS_NUMBER_PIT - 1
        BY <1>0, <1>3
      <4> QED
        BY <2>2, <4>1 DEF Pit, PitFirst, PitLaunch
    <3> QED
      BY <2>1, <3>1, SwitchHInv, ProcessConstants DEF HInv, Settled
  <2>3. CASE \E name \in Commands : \/ ExecuteStart(name) \/ ExecuteShellLimit(name)
                                    \/ ExecuteNoPcb(name) \/ ExecuteNotLoaded(name)
    BY <2>1, <2>3, ExecuteHInv, RefusedHInv, ProcessConstants DEF HInv, Settled
  <2>4. CASE \E status \in Statuses : \/ HaltToParent(status) \/ HaltBaseShell(status)
                                      \/ HaltClosesRtc(status)
    BY <2>1, <2>4, HaltHInv, RestartHInv, HaltOpensHInv, ProcessConstants DEF HInv, Settled
  <2>5. CASE HaltStep
    BY <2>1, <2>5, HaltQueueHInv, HaltCurrHInv, HaltDeactivateHInv, HaltCurrentHInv,
       HaltCountHInv, HaltReturnHInv, ProcessConstants DEF HaltStep, HInv, Settled
  <2> QED
    BY <1>3, <2>2, <2>3, <2>4, <2>5 DEF Next
<1> QED
  BY <1>0, <1>1, <1>2, <1>3

\* The invariant of a kernel whose halts the timer cuts wherever it can.
THEOREM HaltInvariance == ASSUME BootFirst PROVE Spec => []HInv
<1>1. Init => HInv
  <2>1. ASSUME Init PROVE IInv
    BY <2>1, InitIInv
  <2> QED
    BY <2>1, ProcessConstants DEF Init, HInv, IInv, SavedInBoot
<1>2. HInv /\ [Next]_vars => HInv'
  BY NextHInv
<1> QED
  BY <1>1, <1>2, PTL DEF Spec

\* Wherever the timer cuts a halt, no pid, terminal or context leaves its table
\* (system_call.c:73-181, scheduling.c:19-110).
THEOREM TypesKept == ASSUME BootFirst PROVE Spec => []TypeOK
<1>1. HInv => TypeOK
  BY DEF HInv
<1> QED
  BY <1>1, HaltInvariance, PTL

-----------------------------------------------------------------------------
(* The count of shells. *)

\* Shells are among finitely many PCBs, so they can be counted.
LEMMA Countable ==
    ASSUME NEW S \in SUBSET Pids
    PROVE  IsFiniteSet(S) /\ Cardinality(S) \in Nat
<1>1. IsFiniteSet(Pids)
  BY FS_Interval, ProcessConstants DEF Pids
<1> QED
  BY <1>1, FS_Subset, FS_CardinalityType

\* The counting that every start and end of a program comes down to.
LEMMA AtMostOneMore ==
    ASSUME NEW S \in SUBSET Pids, NEW T \in SUBSET Pids, NEW q, T \subseteq S \cup {q}
    PROVE  Cardinality(T) <= Cardinality(S) + 1
<1>1. IsFiniteSet(S) /\ Cardinality(S) \in Nat /\ Cardinality(T) \in Nat
  BY Countable
<1>2. IsFiniteSet(S \cup {q}) /\ Cardinality(S \cup {q}) <= Cardinality(S) + 1
  BY <1>1, FS_AddElement
<1>3. Cardinality(T) <= Cardinality(S \cup {q}) /\ Cardinality(S \cup {q}) \in Nat
  BY <1>2, FS_Subset, FS_CardinalityType
<1> QED
  BY <1>1, <1>2, <1>3

\* A subset of the shells does not have more of them.
LEMMA NotMore ==
    ASSUME NEW S \in SUBSET Pids, NEW T \in SUBSET S
    PROVE  Cardinality(T) <= Cardinality(S)
BY Countable, FS_Subset

\* A shell that ends is one shell less.
LEMMA OneLess ==
    ASSUME NEW S \in SUBSET Pids, NEW T \in SUBSET S, NEW q \in S, q \notin T
    PROVE  Cardinality(T) <= Cardinality(S) - 1
<1>1. IsFiniteSet(S) /\ Cardinality(S) \in Nat /\ Cardinality(T) \in Nat
  BY Countable
<1>2. IsFiniteSet(S \ {q}) /\ Cardinality(S \ {q}) = Cardinality(S) - 1
  BY <1>1, FS_RemoveElement
<1>3. T \subseteq S \ {q}
  OBVIOUS
<1> QED
  BY <1>1, <1>2, <1>3, FS_Subset

\* Only active PCBs can be marked as base shells: those of launched terminals.
LEMMA BaseIsActive ==
    ASSUME IInv, NEW p \in Pids, is_base_shell[p] \/ parent_id[p] = NoPid
    PROVE  active[p]
<1>1. p \in Launched
  BY DEF IInv, BaseFlags
<1>2. p \in stack[p] /\ p \in Terminals
  BY <1>1 DEF IInv, CallChains, Launched
<1> QED
  BY <1>2, InStack

\* Shells are PCBs.
LEMMA ShellsArePids == Shells \subseteq Pids /\ Shells' \subseteq Pids
BY DEF Shells, Pids

-----------------------------------------------------------------------------
(* The shell limit, one lemma per action that touches shells or their count. *)

\* execute and the launches count the process they start when it is a shell,
\* and mark none but it and the base shell that the launch interrupts.
LEMMA StartKeepsLimit ==
    ASSUME IInv, ShellLimit, NEW shell \in BOOLEAN,
           NEW interrupted \in SUBSET Shells, NEW contexts,
           Start(shell, interrupted, contexts),
           pit_count < PROCESS_NUMBER_PIT => shell
    PROVE  ShellLimit'
<1>1. PICK q \in FreePcbs :
        /\ CountShell(shell)
        /\ active' = [p \in Pids |-> p = q \/ p \in interrupted \/ active[p]]
        /\ is_shell' = [p \in Pids |-> IF p = q THEN shell
                                       ELSE p \in interrupted \/ is_shell[p]]
        /\ JoinTerminal(q, IF parent_id[q] = NoPid THEN NoPid ELSE process_num,
                        is_base_shell[q])
  BY DEF Start
<1>2. q \in Pids /\ ~active[q] /\ ~is_base_shell[q] /\ q \notin Shells
  BY BaseIsActive DEF FreePcbs, Shells
<1>3. shell_process_count \in Int /\ SHELL_LIMIT \in Int
  BY ProcessConstants DEF IInv, TypeOK
<1>4. \A p \in Pids \ {q} : is_base_shell'[p] = is_base_shell[p]
  BY <1>1, <1>2 DEF JoinTerminal, IInv, TypeOK
<1>5. \A p \in Pids \ {q} : p \in Shells' => p \in Shells
  BY <1>1, <1>2, <1>4 DEF Shells
<1>6. CASE shell
  <2>1. shell_process_count' = shell_process_count + 1 /\ shell_process_count < SHELL_LIMIT
    BY <1>1, <1>3, <1>6 DEF CountShell, ShellRefused
  <2>2. Shells' \subseteq Shells \cup {q}
    BY <1>5, ShellsArePids
  <2>3. Cardinality(Shells') <= Cardinality(Shells) + 1
    BY <2>2, ShellsArePids, AtMostOneMore
  <2> QED
    BY <1>3, <2>1, <2>3, ShellsArePids, Countable DEF ShellLimit
<1>7. CASE ~shell
  <2>1. shell_process_count' = shell_process_count
    BY <1>1, <1>3, <1>7 DEF CountShell
  <2>2. ~is_base_shell'[q]
    BY <1>1, <1>2, <1>7 DEF JoinTerminal, IInv, TypeOK
  <2>3. Shells' \subseteq Shells
    BY <1>1, <1>2, <1>5, <1>7, <2>2, ShellsArePids DEF Shells
  <2>4. Cardinality(Shells') <= Cardinality(Shells)
    BY <2>3, ShellsArePids, NotMore
  <2> QED
    BY <1>3, <2>1, <2>4, ShellsArePids, Countable DEF ShellLimit
<1> QED
  BY <1>6, <1>7

\* The tick after the launches marks a process that was marked already.
LEMMA SwitchKeepsLimit ==
    ASSUME IInv, ShellLimit, PitSwitch PROVE ShellLimit'
<1>1. shell_process_count' = shell_process_count
  BY DEF PitSwitch
<1>2. Shells' \subseteq Shells
  <2>1. CASE pit_count = PROCESS_NUMBER_PIT
    <3>1. process_num \in Pids /\ schedule_idx \in Launched /\ process_num = schedule_idx
      BY <2>1, RunningIsTop, ProcessConstants DEF IInv, BootPhase, Launched
    <3>2. process_num \in Shells
      BY <3>1, BaseIsActive DEF IInv, BaseFlags, Shells
    <3> QED
      BY <2>1, <3>1, <3>2 DEF PitSwitch, SetUpLastShell, Shells, IInv, TypeOK
  <2>2. CASE pit_count # PROCESS_NUMBER_PIT
    BY <2>2 DEF PitSwitch, SetUpLastShell, Shells
  <2> QED
    BY <2>1, <2>2
<1> QED
  BY <1>1, <1>2, ShellsArePids, NotMore, Countable, ProcessConstants
     DEF ShellLimit, IInv, TypeOK

\* A launch starts a shell beside the base shell it interrupts.
LEMMA LaunchKeepsLimit ==
    ASSUME IInv, ShellLimit, PitFirst \/ PitLaunch PROVE ShellLimit'
<1>1. CASE PitFirst
  <2>1. Start(TRUE, {}, saved) /\ {} \in SUBSET Shells
    BY <1>1 DEF PitFirst
  <2> QED
    BY <2>1, StartKeepsLimit
<1>2. CASE PitLaunch
  <2>1. process_num \in Pids /\ process_num \in Launched
    BY <1>2, RunningIsTop, ProcessConstants DEF PitLaunch, IInv, BootPhase, Launched
  <2>2. process_num \in Shells
    BY <2>1, BaseIsActive DEF IInv, BaseFlags, Shells
  <2>3. Start(TRUE, {process_num}, ContextsSaved) /\ {process_num} \in SUBSET Shells
    BY <1>2, <2>2 DEF PitLaunch
  <2> QED
    BY <2>3, StartKeepsLimit
<1> QED
  BY <1>1, <1>2

-----------------------------------------------------------------------------
(* The shell limit after the boot *)

\* Shells that have ended and that a halt has yet to take from the count: the one
\* of the flow that runs, and those of the flows that a turn will resume.
Owed ==
    {c \in Pids :
        /\ ~active[c] /\ is_shell[c]
        /\ \/ cpu.pc \in {"current", "count"} /\ cpu.on = c
           \/ \E t \in Terminals \ {schedule_idx} :
                /\ saved[schedule_array[t]].pc = "count"
                /\ saved[schedule_array[t]].on = c}

Counted == Shells \cup Owed

LimitInv ==
    /\ Cardinality(Counted) <= shell_process_count
    /\ shell_process_count <= SHELL_LIMIT

\* All of them are PCBs.
LEMMA CountedArePids == Counted \in SUBSET Pids /\ Counted' \in SUBSET Pids
BY DEF Counted, Owed, Shells, Pids

\* The invariant implies the limit itself.
LEMMA LimitFollows == LimitInv /\ TypeOK => ShellLimit
<1> SUFFICES ASSUME LimitInv, TypeOK PROVE ShellLimit
  OBVIOUS
<1>1. Shells \in SUBSET Counted
  BY DEF Counted
<1>2. Cardinality(Shells) <= Cardinality(Counted)
  BY <1>1, CountedArePids, NotMore
<1> QED
  BY <1>1, <1>2, CountedArePids, Countable DEF LimitInv, ShellLimit, TypeOK

\* A step that counts no shell keeps it if no shell appears.
LEMMA NoneMore ==
    ASSUME TypeOK, LimitInv, Counted' \subseteq Counted,
           shell_process_count' = shell_process_count
    PROVE  LimitInv'
<1>1. Counted' \in SUBSET Counted
  OBVIOUS
<1>2. Cardinality(Counted') <= Cardinality(Counted)
  BY <1>1, CountedArePids, NotMore
<1> QED
  BY <1>2, CountedArePids, Countable, ProcessConstants DEF LimitInv, TypeOK

\* During the boot no halt is under way.
LEMMA BootOwesNone == IInv /\ SavedInBoot => Owed = {}
<1> SUFFICES ASSUME IInv, SavedInBoot PROVE Owed = {}
  OBVIOUS
<1>1. cpu.pc \in {"boot", "user"}
  BY ProcessConstants DEF IInv, BootPhase, TypeOK, User
<1>2. \A t \in Terminals : saved[schedule_array[t]].pc # "count"
  BY DEF IInv, TypeOK, SavedInBoot, User, Wild
<1> QED
  BY <1>1, <1>2 DEF Owed

\* execute counts the process that it starts when it is a shell; should the PCB
\* be one that a halt has just freed, that halt will never count it down.
LEMMA ExecuteKeepsLimit ==
    ASSUME TypeOK, Settled, LimitInv, NEW name \in Commands, ExecuteStart(name)
    PROVE  LimitInv'
<1> DEFINE shell == name \in ShellNamed
<1>1. PICK q \in FreePcbs :
        /\ CountShell(shell)
        /\ active' = [p \in Pids |-> p = q \/ p \in {} \/ active[p]]
        /\ is_shell' = [p \in Pids |-> IF p = q THEN shell ELSE p \in {} \/ is_shell[p]]
        /\ JoinTerminal(q, IF parent_id[q] = NoPid THEN NoPid ELSE process_num,
                        is_base_shell[q])
        /\ EnterUser(q) /\ saved' = WithoutStack(saved, q)
  BY DEF ExecuteStart, Start
<1>2. q \in Pids /\ ~active[q] /\ q \notin Terminals
  BY <1>1, TurnFacts DEF FreePcbs
<1>3. is_base_shell[q] = FALSE /\ parent_id[q] # NoPid
  BY <1>2, TurnFacts DEF Settled, BaseFlags, TypeOK
<1>4. /\ is_base_shell' = [is_base_shell EXCEPT ![q] = FALSE]
      /\ schedule_array' = [schedule_array EXCEPT ![schedule_idx] = q]
      /\ schedule_idx' = schedule_idx
  <2>1. JoinTerminal(q, process_num, FALSE) /\ pcb_terminal[process_num] = schedule_idx
    BY <1>1, <1>3, TurnFacts
  <2>2. ~(pit_count < PROCESS_NUMBER_PIT)
    BY ProcessConstants DEF Settled
  <2> QED
    BY <2>1, <2>2 DEF JoinTerminal, ExecuteStart
<1>5. \A p \in Pids :
        /\ active'[p] <=> p = q \/ active[p]
        /\ is_shell'[p] = IF p = q THEN shell ELSE is_shell[p]
        /\ is_base_shell'[p] = IF p = q THEN FALSE ELSE is_base_shell[p]
        /\ saved'[p] = IF saved[p].on = q THEN Wild ELSE saved[p]
  BY <1>1, <1>4 DEF TypeOK, WithoutStack
<1>6. Owed' \subseteq Owed
  <2>1. cpu'.pc = "user"
    BY <1>1 DEF EnterUser, User
  <2>2. \A t \in Terminals \ {schedule_idx} :
          /\ schedule_array'[t] = schedule_array[t] /\ schedule_array[t] \in Pids
    BY <1>4 DEF TypeOK
  <2>3. ASSUME NEW p \in Owed' PROVE p \in Owed
    <3>1. p \in Pids /\ p # q /\ ~active[p] /\ is_shell[p]
      BY <1>5, <2>3 DEF Owed
    <3>2. PICK t \in Terminals \ {schedule_idx} :
            saved'[schedule_array'[t]].pc = "count" /\ saved'[schedule_array'[t]].on = p
      BY <1>4, <2>1, <2>3 DEF Owed
    <3>3. saved[schedule_array[t]].pc = "count" /\ saved[schedule_array[t]].on = p
      <4>1. /\ saved'[schedule_array[t]].pc = "count"
            /\ saved'[schedule_array[t]].on = p
        BY <2>2, <3>2
      <4>2. saved'[schedule_array[t]] \in {Wild, saved[schedule_array[t]]}
        BY <1>5, <2>2
      <4> QED
        BY <4>1, <4>2 DEF Wild
    <3> QED
      BY <3>1, <3>3 DEF Owed
  <2> QED
    BY <2>3
<1>7. \A p \in Shells' : p \in Shells \/ (p = q /\ shell)
  BY <1>5 DEF Shells
<1>8. CASE shell
  <2>1. shell_process_count' = shell_process_count + 1 /\ shell_process_count < SHELL_LIMIT
    BY <1>1, <1>8, ProcessConstants DEF CountShell, ShellRefused, TypeOK
  <2>2. Counted' \subseteq Counted \cup {q}
    BY <1>6, <1>7 DEF Counted
  <2>3. Cardinality(Counted') <= Cardinality(Counted) + 1
    BY <2>2, CountedArePids, AtMostOneMore
  <2>4. Cardinality(Counted) \in Nat /\ Cardinality(Counted') \in Nat
    BY CountedArePids, Countable
  <2> QED
    BY <2>1, <2>3, <2>4, ProcessConstants DEF LimitInv, TypeOK
<1>9. CASE ~shell
  <2>1. shell_process_count' = shell_process_count
    BY <1>1, <1>9 DEF CountShell, TypeOK
  <2>2. Counted' \subseteq Counted
    BY <1>6, <1>7, <1>9 DEF Counted
  <2> QED
    BY <2>1, <2>2, NoneMore
<1> QED
  BY <1>8, <1>9

\* A failed execute at most raises the count.
LEMMA RefusalKeepsLimit ==
    ASSUME TypeOK, Settled, LimitInv, NEW name \in Commands,
           ExecuteShellLimit(name) \/ ExecuteNoPcb(name) \/ ExecuteNotLoaded(name)
    PROVE  LimitInv'
<1>1. Counted' = Counted
  BY DEF ExecuteShellLimit, ExecuteNoPcb, ExecuteNotLoaded, tables, machine, Counted,
         Shells, Owed
<1>2. shell_process_count \in Int /\ SHELL_LIMIT \in Int
  BY ProcessConstants DEF TypeOK
<1>3. \/ shell_process_count' = shell_process_count
      \/ /\ shell_process_count' = shell_process_count + 1
         /\ shell_process_count < SHELL_LIMIT
  BY <1>2 DEF ExecuteShellLimit, ExecuteNoPcb, ExecuteNotLoaded, counters, CountShell,
              ShellRefused
<1> QED
  BY <1>1, <1>2, <1>3, CountedArePids, Countable DEF LimitInv

\* halt takes a shell from the count when, and only when, one ends.
LEMMA HaltKeepsLimit ==
    ASSUME TypeOK, Settled, LimitInv, NEW status \in Statuses, HaltToParent(status)
    PROVE  LimitInv'
<1>1. PICK c \in Pids \ Terminals, q \in Pids :
        /\ c = process_num /\ q = parent_id[c]
        /\ child = c /\ parent = q /\ active[c] /\ active[q]
        /\ schedule_idx \in Terminals /\ pcb_terminal[c] = schedule_idx
  <2>1. /\ child = process_num /\ process_num \in Pids \ Terminals
        /\ active[process_num] /\ schedule_idx \in Terminals
        /\ pcb_terminal[process_num] = schedule_idx
    BY UserRuns, TurnFacts, CalledFacts DEF HaltToParent, InUser, child
  <2>2. parent = parent_id[process_num]
    BY <2>1 DEF parent
  <2> QED
    BY <2>1, <2>2, CallerWaits
<1>2. /\ active' = [active EXCEPT ![c] = FALSE, ![q] = TRUE]
      /\ schedule_array' = [schedule_array EXCEPT ![schedule_idx] = q]
      /\ shell_process_count' = shell_process_count - (IF is_shell[c] THEN 1 ELSE 0)
      /\ cpu'.pc = "user"
      /\ UNCHANGED <<is_shell, is_base_shell, saved, schedule_idx>>
  BY <1>1 DEF HaltToParent, QueueAfterHalt, ActiveAfterHalt, CountAfterHalt, User
<1>3. \A p \in Pids : active'[p] => active[p]
  BY <1>1, <1>2 DEF TypeOK
<1>4. ~active'[c] \/ c = q
  BY <1>1, <1>2 DEF TypeOK
<1>5. c # q
  <2>1. q < c
    BY <1>1, CallerWaits
  <2> QED
    BY <2>1 DEF Pids
<1>6. Shells' \subseteq Shells \ {c}
  BY <1>2, <1>3, <1>4, <1>5 DEF Shells
\* No flow that waits ends a program that is still in use.
<1>7. Owed' \subseteq Owed \ {c}
  <2>1. \A t \in Terminals \ {schedule_idx} : schedule_array'[t] = schedule_array[t]
    BY <1>2 DEF TypeOK
  <2>2. ASSUME NEW p \in Owed' PROVE p \in Owed \ {c}
    <3>1. p \in Pids /\ is_shell[p] /\ ~active'[p]
      BY <1>2, <2>2 DEF Owed
    <3>2. PICK t \in Terminals \ {schedule_idx} :
            saved[schedule_array[t]].pc = "count" /\ saved[schedule_array[t]].on = p
      BY <1>2, <2>1, <2>2 DEF Owed
    <3>3. Flow(t, schedule_array[t], saved[schedule_array[t]])
      BY DEF Settled, FlowsWait
    <3>4. ~active[p]
      BY <3>2, <3>3 DEF Flow, Returning, Wild, User
    <3> QED
      BY <1>1, <3>1, <3>2, <3>4 DEF Owed
  <2> QED
    BY <2>2
<1>8. CASE is_shell[c]
  <2>1. c \in Counted /\ Counted' \in SUBSET Counted /\ c \notin Counted'
    BY <1>1, <1>6, <1>7, <1>8 DEF Counted, Shells
  <2>2. Cardinality(Counted') <= Cardinality(Counted) - 1
    BY <2>1, CountedArePids, OneLess
  <2>3. Cardinality(Counted) \in Nat /\ Cardinality(Counted') \in Nat
    BY CountedArePids, Countable
  <2> QED
    BY <1>2, <1>8, <2>2, <2>3, ProcessConstants DEF LimitInv, TypeOK
<1>9. CASE ~is_shell[c]
  <2>1. Counted' \subseteq Counted /\ shell_process_count' = shell_process_count
    BY <1>2, <1>6, <1>7, <1>9 DEF Counted, TypeOK
  <2> QED
    BY <2>1, NoneMore
<1> QED
  BY <1>8, <1>9

\* A base shell that starts again was one before.
LEMMA RestartKeepsLimit ==
    ASSUME TypeOK, Settled, LimitInv, NEW status \in Statuses, HaltBaseShell(status)
    PROVE  LimitInv'
<1> DEFINE c == process_num
<1>1. /\ cpu.pc = "user" /\ child = c /\ c \in Pids /\ active[c] = TRUE
      /\ is_base_shell[c] = TRUE
      /\ pcb_terminal[c] = schedule_idx /\ c = schedule_array[schedule_idx]
  BY UserRuns, TurnFacts DEF HaltBaseShell, InUser, child, TypeOK
<1>2. /\ schedule_array' = [schedule_array EXCEPT ![schedule_idx] = c]
      /\ is_base_shell' = [is_base_shell EXCEPT ![c] = TRUE]
      /\ active' = [active EXCEPT ![c] = TRUE]
  <2>1. JoinTerminal(c, NoPid, TRUE) /\ active' = [active EXCEPT ![c] = TRUE]
    BY <1>1 DEF HaltBaseShell
  <2>2. ~(pit_count < PROCESS_NUMBER_PIT)
    BY ProcessConstants DEF Settled
  <2> QED
    BY <1>1, <2>1, <2>2 DEF JoinTerminal
<1>3. schedule_array' = schedule_array /\ is_base_shell' = is_base_shell /\ active' = active
  BY <1>1, <1>2 DEF TypeOK
<1>4. /\ \A p \in Pids \ {c} : is_shell'[p] = is_shell[p]
      /\ cpu'.pc = "user"
      /\ UNCHANGED <<schedule_idx, saved, shell_process_count>>
  BY <1>1 DEF HaltBaseShell, EnterUser, User, TypeOK
<1>5. Shells' \subseteq Shells
  BY <1>1, <1>3, <1>4 DEF Shells
<1>6. Owed' \subseteq Owed
  BY <1>1, <1>3, <1>4 DEF Owed
<1> QED
  BY <1>4, <1>5, <1>6, NoneMore DEF Counted

\* The statements of a halt up to the count move a shell that ends from those
\* alive to those owed.
LEMMA HaltStepKeepsLimit ==
    ASSUME TypeOK, Settled, LimitInv,
           \/ \E status \in Statuses : HaltClosesRtc(status)
           \/ HaltQueue \/ HaltCurr \/ HaltDeactivate \/ HaltCurrent \/ HaltReturn
    PROVE  LimitInv'
<1>1. CASE \E status \in Statuses : HaltClosesRtc(status)
  <2>1. /\ cpu'.pc = "queue"
        /\ UNCHANGED <<tables, shell_process_count, schedule_idx, saved>>
    BY <1>1 DEF HaltClosesRtc, TypeOK, Contexts
  <2>2. Shells' \subseteq Shells /\ Owed' \subseteq Owed
    BY <2>1 DEF Shells, Owed, tables
  <2> QED
    BY <2>1, <2>2, NoneMore DEF Counted
<1>2. CASE HaltQueue
  <2>1. /\ cpu'.pc = "curr"
        /\ schedule_array' = [schedule_array EXCEPT ![pcb_terminal[child]] = parent]
        /\ UNCHANGED <<counters, schedule_idx, saved, active, is_shell, is_base_shell>>
    BY <1>2, HaltingTypes DEF HaltQueue, HaltPoints, QueueAfterHalt
  <2>2. pcb_terminal[child] = schedule_idx
    BY <1>2, EntryRuns, TurnFacts
    DEF HaltQueue, Halting, Flow, Wild, User, child
  <2>3. Shells' \subseteq Shells /\ Owed' \subseteq Owed
    BY <2>1, <2>2 DEF Shells, Owed, TypeOK
  <2> QED
    BY <2>1, <2>3, NoneMore DEF Counted, counters
<1>3. CASE HaltCurr
  <2>1. /\ cpu'.pc = "deactivate"
        /\ UNCHANGED <<counters, schedule_idx, saved, active, is_shell, is_base_shell,
                       schedule_array>>
    BY <1>3, HaltingTypes DEF HaltCurr, HaltPoints
  <2>2. Shells' \subseteq Shells /\ Owed' \subseteq Owed
    BY <2>1 DEF Shells, Owed
  <2> QED
    BY <2>1, <2>2, NoneMore DEF Counted, counters
<1>4. CASE HaltDeactivate
  <2>1. /\ cpu.pc = "deactivate" /\ cpu'.pc = "current" /\ cpu'.on = cpu.on
        /\ active' = [active EXCEPT ![child] = FALSE, ![parent] = TRUE]
        /\ UNCHANGED <<counters, schedule_idx, saved, is_shell, is_base_shell,
                       schedule_array>>
    BY <1>4, HaltingTypes DEF HaltDeactivate, HaltPoints, ActiveAfterHalt
  <2>2. /\ child \in Pids /\ active[child] /\ cpu.on = child
        /\ parent \in Pids /\ active[parent]
    <3>1. /\ Ending(schedule_idx, schedule_array[schedule_idx], process_num)
          /\ child = process_num /\ parent = schedule_array[schedule_idx]
      BY <2>1, EndingRuns
    <3>2. /\ schedule_array[schedule_idx] \in Pids
          /\ active[schedule_array[schedule_idx]]
      BY TurnFacts
    <3> QED
      BY <2>1, <3>1, <3>2 DEF Ending
  <2>3. \A p \in Pids : /\ active'[p] => active[p]
                        /\ active[p] => active'[p] \/ p = child
    BY <2>1, <2>2 DEF TypeOK
  <2>4. Shells' \subseteq Shells
    BY <2>1, <2>3 DEF Shells
  <2>5. ASSUME NEW p \in Owed' PROVE p \in Counted
    <3>1. p \in Pids /\ is_shell[p] /\ ~active'[p]
      BY <2>1, <2>5 DEF Owed
    <3>2. CASE active[p]
      BY <3>1, <3>2 DEF Counted, Shells
    <3>3. CASE ~active[p]
      <4>1. p # child
        BY <2>2, <3>3
      <4>2. \E t \in Terminals \ {schedule_idx} :
              saved[schedule_array[t]].pc = "count" /\ saved[schedule_array[t]].on = p
        BY <2>1, <2>2, <2>5, <4>1 DEF Owed
      <4> QED
        BY <3>1, <3>3, <4>2 DEF Counted, Owed
    <3> QED
      BY <3>2, <3>3
  <2>6. Counted' \subseteq Counted
    BY <2>4, <2>5 DEF Counted
  <2> QED
    BY <2>1, <2>6, NoneMore DEF counters
<1>5. CASE HaltCurrent
  <2>1. /\ cpu.pc = "current" /\ cpu'.pc = "count" /\ cpu'.on = cpu.on
        /\ UNCHANGED <<tables, counters, schedule_idx, saved>>
    BY <1>5, HaltingTypes DEF HaltCurrent, HaltPoints
  <2>2. Shells' \subseteq Shells /\ Owed' \subseteq Owed
    BY <2>1 DEF Shells, Owed, tables
  <2> QED
    BY <2>1, <2>2, NoneMore DEF Counted, counters
<1>6. CASE HaltReturn
  <2>1. /\ cpu'.pc = "user"
        /\ UNCHANGED <<tables, counters, schedule_idx, saved>>
    BY <1>6 DEF HaltReturn, User
  <2>2. Shells' \subseteq Shells /\ Owed' \subseteq Owed
    BY <2>1 DEF Shells, Owed, tables
  <2> QED
    BY <2>1, <2>2, NoneMore DEF Counted, counters
<1> QED
  BY <1>1, <1>2, <1>3, <1>4, <1>5, <1>6

\* The count follows: the flow that runs is the only one that owes this shell,
\* as those that wait belong to other terminals.
LEMMA CountKeepsLimit ==
    ASSUME TypeOK, Settled, LimitInv, HaltCount PROVE LimitInv'
<1> DEFINE c == cpu.on
<1>1. /\ cpu.pc = "count" /\ cpu'.pc = "return" /\ child = c
      /\ shell_process_count' = shell_process_count - (IF is_shell[c] THEN 1 ELSE 0)
      /\ UNCHANGED <<tables, schedule_idx, saved>>
  BY HaltingTypes DEF HaltCount, HaltPoints, CountAfterHalt, child
<1>2. c \in Pids /\ ~active[c] /\ pcb_terminal[c] = schedule_idx
  BY <1>1, ReturningRuns DEF Returning
<1>3. Shells' = Shells /\ c \notin Shells
  BY <1>1, <1>2 DEF Shells, tables
<1>4. Owed' \subseteq Owed \ {c}
  <2>1. ASSUME NEW p \in Owed' PROVE p \in Owed \ {c}
    <3>1. p \in Pids /\ is_shell[p] /\ ~active[p]
      BY <1>1, <2>1 DEF Owed, tables
    <3>2. PICK t \in Terminals \ {schedule_idx} :
            saved[schedule_array[t]].pc = "count" /\ saved[schedule_array[t]].on = p
      BY <1>1, <2>1 DEF Owed, tables
    <3>3. Flow(t, schedule_array[t], saved[schedule_array[t]])
      BY DEF Settled, FlowsWait
    <3>4. pcb_terminal[p] = t
      BY <3>2, <3>3 DEF Flow, Returning, Wild, User
    <3> QED
      BY <1>2, <3>1, <3>2, <3>4 DEF Owed
  <2> QED
    BY <2>1
<1>5. CASE is_shell[c]
  <2>1. c \in Counted /\ Counted' \in SUBSET Counted /\ c \notin Counted'
    BY <1>1, <1>2, <1>3, <1>4, <1>5 DEF Counted, Owed
  <2>2. Cardinality(Counted') <= Cardinality(Counted) - 1
    BY <2>1, CountedArePids, OneLess
  <2>3. Cardinality(Counted) \in Nat /\ Cardinality(Counted') \in Nat
    BY CountedArePids, Countable
  <2> QED
    BY <1>1, <1>5, <2>2, <2>3, ProcessConstants DEF LimitInv, TypeOK
<1>6. CASE ~is_shell[c]
  <2>1. Counted' \subseteq Counted /\ shell_process_count' = shell_process_count
    BY <1>1, <1>3, <1>4, <1>6 DEF Counted, TypeOK
  <2> QED
    BY <2>1, NoneMore
<1> QED
  BY <1>5, <1>6

\* A tick only moves flows between the processor and the PCBs, or loses one.
LEMMA TurnKeepsLimit ==
    ASSUME TypeOK, Settled, LimitInv, PitSwitch PROVE LimitInv'
<1>1. PICK c \in Pids, t0 \in Terminals, t1 \in Terminals, next \in Pids :
        /\ c = process_num /\ t0 = schedule_idx /\ t1 = NextTurn
        /\ next = schedule_array[t1] /\ pcb_terminal[next] = t1 /\ pcb_terminal[c] = t0
  <2>1. NextTurn \in Terminals
    BY ProcessConstants DEF NextTurn, TypeOK, Terminals
  <2> QED
    BY <2>1, TurnFacts
<1>2. /\ schedule_idx' = t1 /\ cpu' = ContextsSaved[next]
      /\ saved' = [ContextsSaved EXCEPT ![next] = Wild]
      /\ UNCHANGED <<schedule_array, shell_process_count>>
  BY <1>1 DEF PitSwitch
<1>3. UNCHANGED <<is_shell, is_base_shell, active>>
  BY ProcessConstants DEF PitSwitch, SetUpLastShell, Settled
<1>4. /\ \A p \in Pids : ContextsSaved[p] = IF p = c THEN Interrupted ELSE saved[p]
      /\ \A p \in Pids : saved'[p] = IF p = next THEN Wild ELSE ContextsSaved[p]
      /\ Interrupted \in {Wild, cpu}
  BY <1>1, <1>2, InterruptedTypes DEF ContextsSaved, TypeOK, Interrupted
\* Of the contexts in the PCBs after the tick, those of a halt that still has to
\* count were in Owed before.
<1>5. ASSUME NEW t \in Terminals, NEW p \in Pids, ~active[p], is_shell[p],
             ContextsSaved[schedule_array[t]].pc \in {"current", "count"},
             ContextsSaved[schedule_array[t]].on = p
      PROVE  p \in Owed
  <2> DEFINE s == schedule_array[t]
  <2>1. s \in Pids /\ pcb_terminal[s] = t
    BY TurnFacts
  <2>2. CASE s = c
    BY <1>4, <1>5, <2>1, <2>2 DEF Owed, Wild
  <2>3. CASE s # c /\ t # t0
    <3>1. Flow(t, s, saved[s]) /\ ContextsSaved[s] = saved[s]
      BY <1>1, <1>4, <2>1, <2>3 DEF Settled, FlowsWait
    <3>2. saved[s].pc = "count" /\ saved[s].on = p
      BY <1>5, <3>1 DEF Flow, Wild, User
    <3> QED
      BY <1>1, <1>5, <2>3, <3>2 DEF Owed
  <2>4. CASE s # c /\ t = t0
    <3>1. saved[s] = Wild
      BY <1>1, <2>4 DEF Settled, FlowRuns, Ending
    <3> QED
      BY <1>4, <1>5, <2>1, <2>4, <3>1 DEF Wild
  <2> QED
    BY <2>2, <2>3, <2>4
<1>6. Owed' \subseteq Owed
  <2>1. ASSUME NEW p \in Owed' PROVE p \in Owed
    <3>1. p \in Pids /\ ~active[p] /\ is_shell[p]
      BY <1>3, <2>1 DEF Owed
    <3>2. CASE cpu'.pc \in {"current", "count"} /\ cpu'.on = p
      BY <1>1, <1>2, <1>5, <3>1, <3>2
    <3>3. CASE \E t \in Terminals \ {t1} :
                 saved'[schedule_array[t]].pc = "count" /\ saved'[schedule_array[t]].on = p
      <4>1. PICK t \in Terminals \ {t1} :
              saved'[schedule_array[t]].pc = "count" /\ saved'[schedule_array[t]].on = p
        BY <3>3
      <4>2. schedule_array[t] \in Pids /\ schedule_array[t] # next
        BY <1>1, TurnFacts
      <4>3. saved'[schedule_array[t]] = ContextsSaved[schedule_array[t]]
        BY <1>4, <4>2
      <4> QED
        BY <1>5, <3>1, <4>1, <4>3
    <3> QED
      BY <1>2, <2>1, <3>2, <3>3 DEF Owed
  <2> QED
    BY <2>1
<1>7. Shells' \subseteq Shells
  BY <1>3 DEF Shells
<1> QED
  BY <1>2, <1>6, <1>7, NoneMore DEF Counted

-----------------------------------------------------------------------------
(* The theorems *)

\* No step of the boot leaves more shells than it counts.
LEMMA BootKeepsLimit ==
    ASSUME BootFirst, HInv, pit_count <= PROCESS_NUMBER_PIT, LimitInv, Next
    PROVE  LimitInv'
<1>1. IInv /\ SavedInBoot /\ ShellLimit
  BY LimitFollows DEF HInv
<1>2. CASE PitFirst \/ PitLaunch
  <2>1. IInv' /\ SavedInBoot' /\ ShellLimit'
    BY <1>1, <1>2, LaunchIInv, LaunchSaves, LaunchKeepsLimit
  <2>2. Owed' = {}
    <3>1. (IInv /\ SavedInBoot)'
      BY <2>1
    <3>2. (Owed = {})'
      BY <3>1, BootOwesNone, PTL
    <3> QED
      BY <3>2
  <2> QED
    BY <2>1, <2>2 DEF LimitInv, Counted, ShellLimit
<1>3. CASE PitSwitch /\ pit_count = PROCESS_NUMBER_PIT
  <2>1. IInv' /\ SavedInBoot' /\ ShellLimit'
    BY <1>1, <1>3, SwitchIInv, LastBootTick, SwitchKeepsLimit
  <2>2. (IInv /\ SavedInBoot)'
    BY <2>1
  <2>3. (Owed = {})'
    BY <2>2, BootOwesNone, PTL
  <2> QED
    BY <2>1, <2>3 DEF LimitInv, Counted, ShellLimit
<1> QED
  BY <1>1, <1>2, <1>3, BootOnlyTimer

\* No step of the kernel leaves more shells, alive or owed, than it counts.
LEMMA NextKeepsLimit ==
    ASSUME BootFirst, HInv, LimitInv, [Next]_vars PROVE LimitInv'
<1>0. pit_count \in Int /\ PROCESS_NUMBER_PIT \in Nat
  BY ProcessConstants DEF HInv, TypeOK
<1>1. CASE UNCHANGED vars
  BY <1>1 DEF vars, tables, counters, machine, LimitInv, Counted, Shells, Owed
<1>2. CASE Next /\ pit_count <= PROCESS_NUMBER_PIT
  BY <1>2, BootKeepsLimit
<1>3. CASE Next /\ pit_count > PROCESS_NUMBER_PIT
  <2>1. TypeOK /\ Settled
    BY <1>3 DEF HInv
  <2>2. CASE Pit
    <3>1. pit_count # 0 /\ pit_count \notin 1 .. PROCESS_NUMBER_PIT - 1
      BY <1>0, <1>3
    <3>2. PitSwitch
      BY <2>2, <3>1 DEF Pit, PitFirst, PitLaunch
    <3> QED
      BY <2>1, <3>2, TurnKeepsLimit
  <2>3. CASE \E name \in Commands : \/ ExecuteStart(name) \/ ExecuteShellLimit(name)
                                    \/ ExecuteNoPcb(name) \/ ExecuteNotLoaded(name)
    BY <2>1, <2>3, ExecuteKeepsLimit, RefusalKeepsLimit
  <2>4. CASE \E status \in Statuses : \/ HaltToParent(status) \/ HaltBaseShell(status)
                                      \/ HaltClosesRtc(status)
    BY <2>1, <2>4, HaltKeepsLimit, RestartKeepsLimit, HaltStepKeepsLimit
  <2>5. CASE HaltStep
    BY <2>1, <2>5, HaltStepKeepsLimit, CountKeepsLimit DEF HaltStep
  <2> QED
    BY <1>3, <2>2, <2>3, <2>4, <2>5 DEF Next
<1> QED
  BY <1>0, <1>1, <1>2, <1>3

\* However programs start, fail to start and end on all terminals, and wherever
\* the timer cuts the ends, never more than SHELL_LIMIT shells live, and none is
\* forgotten by the count (system_call.c:222-234, 169-171, scheduling.c:27-47).
THEOREM ShellsLimited == ASSUME BootFirst PROVE Spec => []ShellLimit
<1>1. Init => LimitInv
  <2>1. ASSUME Init PROVE Counted = {}
    BY <2>1 DEF Init, Counted, Shells, Owed, Wild
  <2>2. ASSUME Init PROVE Cardinality(Counted) = 0 /\ shell_process_count = 0
    BY <2>1, <2>2, FS_EmptySet DEF Init
  <2> QED
    BY <2>2, ProcessConstants DEF LimitInv
<1>2. HInv /\ LimitInv /\ [Next]_vars => LimitInv'
  BY NextKeepsLimit
<1>3. HInv /\ LimitInv => ShellLimit
  BY LimitFollows DEF HInv
<1> QED
  BY <1>1, <1>2, <1>3, HaltInvariance, PTL DEF Spec

\* A process is outlived by the process that called it, on the same terminal,
\* even if the timer cuts a halt in pieces (system_call.c:150-175, 240-252).
THEOREM CallersCorrect == ASSUME BootFirst PROVE Spec => []CallersOutlive
<1>1. ASSUME IInv, NEW p \in Pids, active[p], parent_id[p] # NoPid
      PROVE  /\ active[parent_id[p]] /\ parent_id[p] < p
             /\ pcb_terminal[parent_id[p]] = pcb_terminal[p]
  <2>1. pcb_terminal[p] \in Launched /\ p \in stack[pcb_terminal[p]]
    BY <1>1, InStack DEF IInv, CallChains, TypeOK
  <2>2. pcb_terminal[p] \in Terminals
    BY <2>1 DEF Launched
  <2>3. p # pcb_terminal[p]
    BY <1>1, <2>1 DEF IInv, CallChains
  <2>4. CallChains
    BY <1>1 DEF IInv
  <2>5. parent_id[p] \in stack[pcb_terminal[p]] /\ parent_id[p] < p
    BY <2>1, <2>3, <2>4 DEF CallChains
  <2> QED
    BY <2>2, <2>5, InStack
<1>2. ASSUME TypeOK, Settled PROVE CallersOutlive
  BY <1>2, CalledFacts DEF CallersOutlive, HasCaller
<1>3. HInv => CallersOutlive
  BY <1>1, <1>2, ProcessConstants DEF HInv, CallersOutlive, TypeOK
<1> QED
  BY <1>3, HaltInvariance, PTL

-----------------------------------------------------------------------------
(* What a turn leaves alone *)

\* A terminal that waits keeps its queue entry, its current process and its
\* stack through a step.
OwnTurnStep ==
    \A t \in Terminals :
        pit_count >= PROCESS_NUMBER_PIT /\ t # schedule_idx =>
            /\ schedule_array'[t] = schedule_array[t]
            /\ curr_pid'[t] = curr_pid[t]
            /\ stack'[t] = stack[t]

\* It is so when only the tables of the terminal whose turn it is change.
LEMMA OnlyOwnTables ==
    ASSUME TypeOK,
           \A t \in Terminals \ {schedule_idx} : /\ schedule_array'[t] = schedule_array[t]
                                                 /\ curr_pid'[t] = curr_pid[t],
           \A p \in Pids : \/ /\ active'[p] <=> active[p]
                              /\ pcb_terminal'[p] = pcb_terminal[p]
                           \/ /\ active[p] => pcb_terminal[p] = schedule_idx
                              /\ active'[p] => pcb_terminal'[p] = schedule_idx
    PROVE  OwnTurnStep
<1> SUFFICES ASSUME NEW t \in Terminals \ {schedule_idx} PROVE stack'[t] = stack[t]
  BY DEF OwnTurnStep
<1>1. stack[t] = {p \in Pids : active[p] /\ pcb_terminal[p] = t}
  BY DEF stack
<1>2. stack'[t] = {p \in Pids : active'[p] /\ pcb_terminal'[p] = t}
  BY DEF stack
<1>3. ASSUME NEW p \in Pids
      PROVE  active'[p] /\ pcb_terminal'[p] = t <=> active[p] /\ pcb_terminal[p] = t
  OBVIOUS
<1> QED
  BY <1>1, <1>2, <1>3, Zenon

\* The switch touches no table of a terminal, not even when it ends the boot.
LEMMA SwitchOwnTurn ==
    ASSUME HInv, PitSwitch PROVE OwnTurnStep
<1>1. TypeOK /\ pit_count \in Int /\ PROCESS_NUMBER_PIT \in Nat
  BY ProcessConstants DEF HInv, TypeOK
<1>2. UNCHANGED <<schedule_array, curr_pid, pcb_terminal>>
  BY DEF PitSwitch
<1>3. active' = active
  <2>1. CASE pit_count = PROCESS_NUMBER_PIT
    <3>1. IInv /\ pit_count > 0
      BY <1>1, <2>1, ProcessConstants DEF HInv
    <3>2. active[process_num] = TRUE
      BY <3>1, RunningIsTop DEF IInv, TypeOK
    <3>3. active' = [active EXCEPT ![process_num] = TRUE]
      BY <2>1 DEF PitSwitch, SetUpLastShell
    <3> QED
      BY <1>1, <3>2, <3>3 DEF TypeOK
  <2>2. CASE pit_count # PROCESS_NUMBER_PIT
    BY <2>2 DEF PitSwitch, SetUpLastShell
  <2> QED
    BY <2>1, <2>2
<1> QED
  BY <1>1, <1>2, <1>3, OnlyOwnTables

\* A program that starts joins the terminal of its caller, whose turn it is; the
\* PCB it takes was of no terminal's stack.
LEMMA ExecuteOwnTurn ==
    ASSUME TypeOK, Settled, NEW name \in Commands, ExecuteStart(name)
    PROVE  OwnTurnStep
<1>1. PICK q \in FreePcbs :
        /\ active' = [p \in Pids |-> p = q \/ p \in {} \/ active[p]]
        /\ JoinTerminal(q, IF parent_id[q] = NoPid THEN NoPid ELSE process_num,
                        is_base_shell[q])
  BY DEF ExecuteStart, Start
<1>2. q \in Pids /\ ~active[q] /\ q \notin Terminals
  BY <1>1, TurnFacts DEF FreePcbs
<1>3. is_base_shell[q] = FALSE /\ parent_id[q] # NoPid
  BY <1>2, TurnFacts DEF Settled, BaseFlags, TypeOK
<1>4. /\ schedule_array' = [schedule_array EXCEPT ![schedule_idx] = q]
      /\ curr_pid' = [curr_pid EXCEPT ![schedule_idx] = q]
      /\ pcb_terminal' = [pcb_terminal EXCEPT ![q] = schedule_idx]
  <2>1. JoinTerminal(q, process_num, FALSE) /\ pcb_terminal[process_num] = schedule_idx
    BY <1>1, <1>3, TurnFacts
  <2>2. ~(pit_count < PROCESS_NUMBER_PIT)
    BY ProcessConstants DEF Settled
  <2> QED
    BY <2>1, <2>2 DEF JoinTerminal
<1>5. \A t \in Terminals \ {schedule_idx} : /\ schedule_array'[t] = schedule_array[t]
                                            /\ curr_pid'[t] = curr_pid[t]
  BY <1>4 DEF TypeOK
<1>6. \A p \in Pids : \/ /\ active'[p] <=> active[p]
                         /\ pcb_terminal'[p] = pcb_terminal[p]
                      \/ /\ active[p] => pcb_terminal[p] = schedule_idx
                         /\ active'[p] => pcb_terminal'[p] = schedule_idx
  BY <1>1, <1>2, <1>4 DEF TypeOK
<1> QED
  BY <1>5, <1>6, OnlyOwnTables

\* Every way a program ends, in one piece or statement by statement, changes the
\* tables of its own terminal only, and a base shell that starts again none.
LEMMA HaltOwnTurn ==
    ASSUME TypeOK, Settled,
           \/ \E status \in Statuses : \/ HaltToParent(status) \/ HaltBaseShell(status)
                                       \/ HaltClosesRtc(status)
           \/ HaltStep
    PROVE  OwnTurnStep
\* The process that halts and its caller are of the terminal whose turn it is.
<1>1. ASSUME cpu.pc \in {"user", "queue", "curr", "deactivate"}
      PROVE  /\ child = process_num /\ child \in Pids /\ active[child]
             /\ pcb_terminal[child] = schedule_idx /\ schedule_idx \in Terminals
             /\ child \notin Terminals =>
                  /\ parent \in Pids /\ active[parent]
                  /\ pcb_terminal[parent] = schedule_idx
  <2>1. CASE cpu.pc \in {"user", "queue"}
    BY <2>1, EntryRuns, TurnFacts, CallerWaits DEF Flow, Wild, User, child, parent
  <2>2. CASE cpu.pc \in {"curr", "deactivate"}
    BY <2>2, EndingRuns, TurnFacts, CallerWaits DEF Ending, child, parent
  <2> QED
    BY <1>1, <2>1, <2>2
<1>2. CASE \E status \in Statuses : HaltToParent(status)
  <2>1. /\ cpu.pc = "user" /\ ~is_base_shell[child]
        /\ schedule_array' = QueueAfterHalt /\ curr_pid' = CurrAfterHalt
        /\ active' = ActiveAfterHalt /\ pcb_terminal' = pcb_terminal
    BY <1>2 DEF HaltToParent, InUser
  <2>2. child \notin Terminals
    BY <1>1, <2>1, CalledFacts
  <2> QED
    BY <1>1, <2>1, <2>2, OnlyOwnTables
    DEF QueueAfterHalt, CurrAfterHalt, ActiveAfterHalt, TypeOK
<1>3. CASE \E status \in Statuses : HaltBaseShell(status)
  <2>1. /\ cpu.pc = "user" /\ is_base_shell[child]
        /\ active' = [active EXCEPT ![child] = TRUE]
        /\ JoinTerminal(child, NoPid, TRUE)
    BY <1>3 DEF HaltBaseShell, InUser
  <2>2. ~(pit_count < PROCESS_NUMBER_PIT)
    BY ProcessConstants DEF Settled
  <2>3. /\ pcb_terminal' = [pcb_terminal EXCEPT ![child] = pcb_terminal[child]]
        /\ schedule_array' = [schedule_array EXCEPT ![pcb_terminal[child]] = child]
        /\ curr_pid' = [curr_pid EXCEPT ![pcb_terminal[child]] = child]
    BY <2>1, <2>2 DEF JoinTerminal
  <2> QED
    BY <1>1, <2>1, <2>3, OnlyOwnTables DEF TypeOK
<1>4. CASE \E status \in Statuses : HaltClosesRtc(status)
  BY <1>4, OnlyOwnTables DEF HaltClosesRtc, tables
<1>5. CASE HaltQueue
  <2>1. /\ cpu.pc = "queue" /\ schedule_array' = QueueAfterHalt
        /\ UNCHANGED <<curr_pid, active, pcb_terminal>>
    BY <1>5 DEF HaltQueue, Halting
  <2> QED
    BY <1>1, <2>1, OnlyOwnTables DEF QueueAfterHalt, TypeOK
<1>6. CASE HaltCurr
  <2>1. /\ cpu.pc = "curr" /\ curr_pid' = CurrAfterHalt
        /\ UNCHANGED <<schedule_array, active, pcb_terminal>>
    BY <1>6 DEF HaltCurr, Halting
  <2> QED
    BY <1>1, <2>1, OnlyOwnTables DEF CurrAfterHalt, TypeOK
<1>7. CASE HaltDeactivate
  <2>1. /\ cpu.pc = "deactivate" /\ active' = ActiveAfterHalt
        /\ UNCHANGED <<schedule_array, curr_pid, pcb_terminal>>
    BY <1>7 DEF HaltDeactivate, Halting
  <2>2. child \notin Terminals
    BY <1>1, <2>1, EndingRuns DEF Ending
  <2> QED
    BY <1>1, <2>1, <2>2, OnlyOwnTables DEF ActiveAfterHalt, TypeOK
<1>8. CASE HaltCurrent \/ HaltCount \/ HaltReturn
  BY <1>8, OnlyOwnTables DEF HaltCurrent, HaltCount, HaltReturn, tables
<1> QED
  BY <1>2, <1>3, <1>4, <1>5, <1>6, <1>7, <1>8 DEF HaltStep

\* Whatever programs do in a turn, and wherever the timer ends it, the terminals
\* that wait find their queue entry, current process and programs as they left
\* them (scheduling.c:60-104, system_call.c:130-175, 240-330).
THEOREM TurnsApart == ASSUME BootFirst PROVE Spec => OwnTurnOnly
<1>1. ASSUME HInv, [Next]_vars PROVE [OwnTurnStep]_vars
  <2>0. TypeOK /\ pit_count \in Int /\ PROCESS_NUMBER_PIT \in Nat
    BY <1>1, ProcessConstants DEF HInv, TypeOK
  <2>1. CASE pit_count < PROCESS_NUMBER_PIT
    BY <2>0, <2>1 DEF OwnTurnStep
  <2>2. CASE PitSwitch
    BY <1>1, <2>2, SwitchOwnTurn
  <2>3. CASE pit_count = PROCESS_NUMBER_PIT /\ Next
    <3>1. IInv /\ pit_count # 0 /\ pit_count \notin 1 .. PROCESS_NUMBER_PIT - 1
      BY <1>1, <2>0, <2>3, ProcessConstants DEF HInv
    <3>2. PitFirst \/ PitLaunch \/ PitSwitch
      <4>1. pit_count <= PROCESS_NUMBER_PIT
        BY <2>0, <2>3
      <4> QED
        BY <2>3, <3>1, <4>1, BootOnlyTimer
    <3>3. PitSwitch
      BY <3>1, <3>2 DEF PitFirst, PitLaunch
    <3> QED
      BY <2>2, <3>3
  <2>4. CASE pit_count > PROCESS_NUMBER_PIT /\ Next
    <3>1. TypeOK /\ Settled
      BY <1>1, <2>4 DEF HInv
    <3>2. CASE Pit
      <4>1. pit_count # 0 /\ pit_count \notin 1 .. PROCESS_NUMBER_PIT - 1
        BY <2>0, <2>4
      <4> QED
        BY <2>2, <3>2, <4>1 DEF Pit, PitFirst, PitLaunch
    <3>3. ASSUME NEW name \in Commands, ExecuteStart(name) PROVE OwnTurnStep
      BY <3>1, <3>3, ExecuteOwnTurn
    <3>4. ASSUME NEW name \in Commands,
                 ExecuteShellLimit(name) \/ ExecuteNoPcb(name) \/ ExecuteNotLoaded(name)
          PROVE OwnTurnStep
      BY <3>1, <3>4, OnlyOwnTables
      DEF ExecuteShellLimit, ExecuteNoPcb, ExecuteNotLoaded, tables
    <3> QED
      BY <2>4, <3>1, <3>2, <3>3, <3>4, HaltOwnTurn DEF Next
  <2> QED
    BY <1>1, <2>0, <2>1, <2>3, <2>4
<1>2. HInv /\ [Next]_vars => [OwnTurnStep]_vars
  BY <1>1
<1> QED
  BY <1>2, HaltInvariance, PTL DEF Spec, OwnTurnOnly, OwnTurnStep
=============================================================================
