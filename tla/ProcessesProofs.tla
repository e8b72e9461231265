-------------------------- MODULE ProcessesProofs --------------------------
(***************************************************************************)
(* Proofs about Processes, for any number of terminals, processes and      *)
(* shells, when programs close their RTC file before they halt and make no *)
(* system call before the boot is over (Quiet).                            *)
(***************************************************************************)
EXTENDS Processes, TLAPS

\* The boot in three phases: nothing launched; the base shells launched one by
\* one, each running when the next tick comes; all of them launched.
BootPhase ==
    /\ pit_count = 0 =>
        /\ cpu = [pc |-> "boot", on |-> NoPid, status |-> 0]
        /\ schedule_idx = 0 /\ process_num = NoPid
        /\ \A p \in Pids : ~active[p]
    /\ pit_count > 0 => cpu = User(process_num) /\ process_num \in Pids
    /\ pit_count \in 1 .. PROCESS_NUMBER_PIT =>
        /\ schedule_idx = pit_count - 1
        /\ \A p \in Pids : active[p] <=> p < pit_count
        /\ \A t \in Launched : schedule_array[t] = t

\* The flags that execute leaves as it finds them in a PCB mark the base shells
\* only, in free PCBs too.
BaseFlags ==
    \A p \in Pids : /\ is_base_shell[p] <=> p \in Launched
                    /\ parent_id[p] = NoPid <=> p \in Launched

\* curr_pid and the queue agree for the terminals that wait, too.
CurrentTop == \A t \in Launched : curr_pid[t] = schedule_array[t]

IInv == TypeOK /\ BootPhase /\ BaseFlags /\ CallChains /\ CurrentAgree /\ CurrentTop
        /\ NextContextIsLive

-----------------------------------------------------------------------------

\* A stack of a terminal holds its active PCBs, and only those.
LEMMA InStack == \A t \in Terminals : \A p :
                    p \in stack[t] <=> p \in Pids /\ active[p] /\ pcb_terminal[p] = t
BY DEF stack

\* The process that runs is the top of the stack whose turn it is.
LEMMA RunningIsTop ==
    ASSUME IInv, pit_count > 0
    PROVE  /\ schedule_idx \in Launched
           /\ process_num \in Pids /\ cpu = User(process_num)
           /\ schedule_array[schedule_idx] = process_num
           /\ curr_pid[schedule_idx] = process_num
           /\ page = process_num /\ esp0 = process_num
           /\ active[process_num] /\ pcb_terminal[process_num] = schedule_idx
<1>1. process_num \in Pids /\ cpu = User(process_num)
  BY DEF IInv, BootPhase
<1>2. cpu.pc = "user" /\ cpu.on = process_num
  BY <1>1 DEF User
<1>3. schedule_idx \in Launched
  BY ProcessConstants DEF IInv, BootPhase, TypeOK, Launched, Terminals
<1>4. schedule_array[schedule_idx] \in stack[schedule_idx]
  BY <1>3 DEF IInv, CallChains
<1> QED
  BY <1>1, <1>2, <1>3, <1>4, InStack DEF IInv, CurrentAgree, Launched

\* Before the first tick the invariant holds: no process exists yet.
LEMMA InitIInv == ASSUME Init PROVE IInv
<1>1. TypeOK
  BY ProcessConstants DEF Init, TypeOK, Terminals, Pids, NoPid, Wild, Contexts, Results
<1> QED
  BY <1>1, ProcessConstants
  DEF Init, IInv, BootPhase, BaseFlags, CurrentTop, CallChains, CurrentAgree, NextContextIsLive,
      Launched, Terminals, Pids, NoPid

\* The contexts and the records that PCBs hold are of the types TypeOK names.
LEMMA ContextTypes ==
    /\ Wild \in Contexts
    /\ \A p \in Pids : User(p) \in Contexts
BY ProcessConstants DEF Wild, User, Contexts

\* What a started program leaves behind, types included.
Started(q, interrupted, contexts) ==
    /\ q \in Pids /\ IsLeast(q, FreePcbs)
    /\ page' = q /\ esp0' = q /\ process_num' = q /\ cpu' = User(q)
    /\ cpu' \in Contexts
    /\ active' = [p \in Pids |-> p = q \/ p \in interrupted \/ active[p]]
    /\ is_shell' \in [Pids -> BOOLEAN]
    /\ saved_parents_esp' = [saved_parents_esp EXCEPT ![q] = cpu.on]
    /\ saved_parents_esp' \in [Pids -> Pids \cup {NoPid}]
    /\ shell_process_count' \in Int
    /\ saved' = WithoutStack(contexts, q)
    /\ saved' \in [Pids -> Contexts]
    /\ UNCHANGED <<saved_status_num, eax>>
    /\ JoinTerminal(q, IF parent_id[q] = NoPid THEN NoPid ELSE process_num,
                    is_base_shell[q])

\* A successful execute, or the restart of a base shell, ends in such a state.
LEMMA StartTypes ==
    ASSUME TypeOK, NEW shell \in BOOLEAN, NEW interrupted,
           NEW contexts \in [Pids -> Contexts], Start(shell, interrupted, contexts)
    PROVE  \E q \in FreePcbs : Started(q, interrupted, contexts)
<1>1. PICK q \in FreePcbs :
        /\ IsLeast(q, FreePcbs)
        /\ CountShell(shell)
        /\ page' = q
        /\ active' = [p \in Pids |-> p = q \/ p \in interrupted \/ active[p]]
        /\ is_shell' = [p \in Pids |-> IF p = q THEN shell
                                       ELSE p \in interrupted \/ is_shell[p]]
        /\ saved_parents_esp' = [saved_parents_esp EXCEPT ![q] = cpu.on]
        /\ JoinTerminal(q, IF parent_id[q] = NoPid THEN NoPid ELSE process_num,
                        is_base_shell[q])
        /\ EnterUser(q)
        /\ saved' = WithoutStack(contexts, q)
        /\ UNCHANGED <<saved_status_num, eax>>
  BY DEF Start
<1>2. q \in Pids
  BY DEF FreePcbs
<1>3. is_shell' \in [Pids -> BOOLEAN]
  <2>1. \A p \in Pids : (IF p = q THEN shell ELSE p \in interrupted \/ is_shell[p]) \in BOOLEAN
    OBVIOUS
  <2> QED
    BY <1>1, <2>1
<1>4. shell_process_count' \in Int
  BY <1>1 DEF CountShell, TypeOK
<1>5. cpu.on \in Pids \cup {NoPid}
  BY DEF TypeOK, Contexts
<1>6. saved_parents_esp' \in [Pids -> Pids \cup {NoPid}]
  BY <1>1, <1>5 DEF TypeOK
<1>7. saved' \in [Pids -> Contexts]
  BY <1>1, ContextTypes DEF WithoutStack
<1>8. cpu' = User(q) /\ cpu' \in Contexts /\ esp0' = q /\ process_num' = q
  BY <1>1, <1>2, ContextTypes DEF EnterUser
<1> QED
  BY <1>1, <1>2, <1>3, <1>4, <1>6, <1>7, <1>8 DEF Started

-----------------------------------------------------------------------------
(* The timer *)

\* The context that a timer interrupt saves is well typed.
LEMMA InterruptedTypes ==
    ASSUME TypeOK
    PROVE  Interrupted \in Contexts /\ ContextsSaved \in [Pids -> Contexts]
BY ContextTypes DEF Interrupted, ContextsSaved, TypeOK

\* In user code the interrupted context is the process that runs.
LEMMA InterruptedIsUser ==
    ASSUME IInv, pit_count > 0
    PROVE  Interrupted = User(process_num)
BY RunningIsTop DEF Interrupted, User

\* A base shell launched by the timer.
LEMMA LaunchIInv ==
    ASSUME IInv, PitFirst \/ PitLaunch PROVE IInv'
<1> DEFINE k == pit_count
<1>1. k \in 0 .. PROCESS_NUMBER_PIT - 1
  <2>1. CASE PitFirst
    BY <2>1, ProcessConstants DEF PitFirst
  <2>2. CASE PitLaunch
    BY <2>2, ProcessConstants DEF PitLaunch
  <2> QED
    BY <2>1, <2>2
<1>2. k \in Pids /\ k \in Terminals
  BY <1>1, ProcessConstants DEF Pids, Terminals
<1>3. \A p \in Pids : active[p] <=> p < k
  BY <1>1, ProcessConstants DEF IInv, BootPhase, Pids
<1>4. process_num = k - 1 /\ (k > 0 => schedule_idx = k - 1)
  <2>1. CASE k = 0
    BY <2>1 DEF IInv, BootPhase, NoPid
  <2>2. CASE k > 0
    <3>1. k \in 1 .. PROCESS_NUMBER_PIT
      BY <1>1, <2>2, ProcessConstants
    <3>2. schedule_idx = k - 1 /\ schedule_array[schedule_idx] = schedule_idx
      BY <2>2, <3>1, RunningIsTop DEF IInv, BootPhase
    <3> QED
      BY <2>2, <3>2, RunningIsTop
  <2> QED
    BY <2>1, <2>2, <1>1
<1>5. \A q : IsLeast(q, FreePcbs) => q = k
  BY <1>2, <1>3, <1>4 DEF IsLeast, FreePcbs, Pids
<1>6. PICK interrupted \in SUBSET Pids, contexts \in [Pids -> Contexts] :
        /\ Start(TRUE, interrupted, contexts)
        /\ interrupted \subseteq 0 .. k
        /\ \A t \in 0 .. k - 1 : contexts[t] = User(t)
        /\ schedule_idx' = k
  <2>1. CASE PitFirst
    <3>1. k = 0 /\ schedule_idx' = 0 /\ Start(TRUE, {}, saved)
      BY <2>1 DEF PitFirst, IInv, BootPhase
    <3>2. saved \in [Pids -> Contexts] /\ {} \subseteq 0 .. k /\ {} \in SUBSET Pids
      BY DEF IInv, TypeOK
    <3>3. \A t \in 0 .. k - 1 : saved[t] = User(t)
      BY <3>1
    <3> QED
      BY <3>1, <3>2, <3>3
  <2>2. CASE PitLaunch
    <3>1. k > 0 /\ schedule_idx' = k
      <4>1. k > 0 /\ schedule_idx' = schedule_idx + 1
        BY <2>2, ProcessConstants DEF PitLaunch
      <4> QED
        BY <1>1, <1>4, <4>1
    <3>5. Start(TRUE, {process_num}, ContextsSaved)
      BY <2>2 DEF PitLaunch
    <3>2. {process_num} \subseteq 0 .. k /\ {process_num} \in SUBSET Pids
      <4>1. process_num \in 0 .. k /\ process_num \in Pids
        BY <1>1, <1>2, <1>4, <3>1, ProcessConstants DEF Pids
      <4> QED
        BY <4>1
    <3>3. ASSUME NEW t \in 0 .. k - 1 PROVE ContextsSaved[t] = User(t)
      <4>1. t \in Launched /\ t \in Pids /\ schedule_array[t] = t
        BY <1>1, <3>1, ProcessConstants DEF IInv, BootPhase, Launched, Terminals, Pids
      <4>2. t # process_num => saved[t] = User(t)
        BY <1>4, <3>1, <4>1 DEF IInv, NextContextIsLive
      <4>3. Interrupted = User(process_num)
        BY <3>1, InterruptedIsUser
      <4> QED
        BY <4>1, <4>2, <4>3 DEF ContextsSaved, IInv, TypeOK
    <3>4. ContextsSaved \in [Pids -> Contexts]
      BY InterruptedTypes DEF IInv
    <3> QED
      BY <3>1, <3>2, <3>3, <3>4, <3>5
  <2> QED
    BY <2>1, <2>2
<1>7. /\ page' = k /\ esp0' = k /\ process_num' = k /\ cpu' = User(k)
      /\ cpu' \in Contexts
      /\ active' = [p \in Pids |-> p = k \/ p \in interrupted \/ active[p]]
      /\ is_shell' \in [Pids -> BOOLEAN]
      /\ saved_parents_esp' \in [Pids -> Pids \cup {NoPid}]
      /\ shell_process_count' \in Int
      /\ saved' = WithoutStack(contexts, k)
      /\ saved' \in [Pids -> Contexts]
      /\ UNCHANGED <<saved_status_num, eax>>
      /\ \E parent_of, base : JoinTerminal(k, parent_of, base)
  <2>1. TypeOK
    BY DEF IInv
  <2>2. PICK q \in FreePcbs : Started(q, interrupted, contexts)
    BY <1>6, <2>1, StartTypes
  <2>3. q = k
    BY <1>5, <2>2 DEF Started
  <2> QED
    BY <2>2, <2>3 DEF Started
<1>8. \A p \in Pids : active'[p] <=> p <= k
  <2>1. ASSUME NEW p \in Pids
        PROVE  active'[p] <=> p = k \/ p \in interrupted \/ active[p]
    BY <1>7
  <2>2. ASSUME NEW p \in Pids, p \in interrupted PROVE p <= k
    BY <1>1, <1>6, <2>2
  <2> QED
    BY <1>1, <1>3, <2>1, <2>2 DEF Pids
<1>9. /\ pcb_terminal' = [pcb_terminal EXCEPT ![k] = k]
      /\ is_base_shell' = [is_base_shell EXCEPT ![k] = TRUE]
      /\ parent_id' = [parent_id EXCEPT ![k] = NoPid]
      /\ schedule_array' = [schedule_array EXCEPT ![k] = k]
      /\ curr_pid' = [curr_pid EXCEPT ![k] = k]
      /\ pit_count' = k + 1
  BY <1>1, <1>7, ProcessConstants DEF JoinTerminal
<1>10. TypeOK'
  <2>1. /\ pit_count' \in 0 .. PROCESS_NUMBER_PIT + 1
        /\ schedule_idx' \in Terminals
    BY <1>1, <1>2, <1>6, <1>9, ProcessConstants
  <2>2. /\ schedule_array' \in [Terminals -> Pids]
        /\ curr_pid' \in [Terminals -> Pids]
        /\ parent_id' \in [Pids -> Pids \cup {NoPid}]
        /\ is_base_shell' \in [Pids -> BOOLEAN]
        /\ pcb_terminal' \in [Pids -> Terminals]
    BY <1>2, <1>9 DEF TypeOK, IInv
  <2>3. active' \in [Pids -> BOOLEAN]
    BY <1>7
  <2>4. saved_status_num' \in Statuses /\ eax' \in [to : Pids \cup {NoPid}, value : Results]
    BY <1>7 DEF TypeOK, IInv
  <2> QED
    BY <1>2, <1>7, <2>1, <2>2, <2>3, <2>4 DEF TypeOK
<1>11. Launched' = 0 .. k /\ Launched = 0 .. k - 1
  BY <1>1, <1>9, ProcessConstants DEF Launched, Terminals
<1>12. \A t \in 0 .. k : schedule_array'[t] = t
  BY <1>1, <1>2, <1>9, <1>11, ProcessConstants DEF IInv, TypeOK, BootPhase
<1>13. BootPhase'
  BY <1>1, <1>2, <1>6, <1>7, <1>8, <1>9, <1>11, <1>12 DEF BootPhase
<1>14. BaseFlags'
  BY <1>1, <1>2, <1>9, <1>11, ProcessConstants DEF BaseFlags, IInv, TypeOK, Pids, NoPid
<1>15. \A p \in Pids : active'[p] => p \in Launched' /\ pcb_terminal'[p] = p
  <2>1. ASSUME NEW p \in Pids, p < k PROVE pcb_terminal[p] = p
    <3>1. p \in Launched
      BY <1>1, <1>11, <2>1 DEF Pids
    <3> QED
      BY <3>1, InStack DEF IInv, CallChains, Launched
  <2> QED
    BY <1>1, <1>2, <1>8, <1>9, <1>11, <2>1 DEF IInv, TypeOK, Pids
<1>16. \A t \in Launched' : stack'[t] = {t}
  <2>1. ASSUME NEW t \in Launched' PROVE t \in Terminals /\ t \in Pids /\ active'[t]
    BY <1>1, <1>8, <1>11, <2>1, ProcessConstants DEF Terminals, Pids
  <2> QED
    BY <1>15, <2>1 DEF stack
<1>17. CallChains'
  <2>1. \A p \in Pids : active'[p] => pcb_terminal'[p] \in Launched'
    BY <1>15
  <2>2. ASSUME NEW t \in Launched', NEW p \in stack'[t]
        PROVE  /\ t \in stack'[t] /\ schedule_array'[t] \in stack'[t]
               /\ p = t /\ p <= schedule_array'[t]
               /\ is_base_shell'[p] <=> p = t
               /\ parent_id'[p] = NoPid <=> p = t
    <3>1. t \in Pids /\ p = t /\ schedule_array'[t] = t /\ t <= t
      BY <1>1, <1>2, <1>11, <1>12, <1>16, <2>2, ProcessConstants DEF Pids
    <3> QED
      BY <1>11, <1>14, <1>16, <3>1 DEF BaseFlags
  <2> QED
    BY <1>16, <2>1, <2>2 DEF CallChains
<1>18. CurrentAgree'
  BY <1>2, <1>6, <1>7, <1>9 DEF CurrentAgree, User, IInv, TypeOK
<1>19. NextContextIsLive'
  <2> SUFFICES ASSUME NEW t \in Launched' \ {schedule_idx'}
               PROVE  saved'[schedule_array'[t]] = User(schedule_array'[t])
    BY DEF NextContextIsLive
  <2>1. t \in 0 .. k - 1 /\ t \in Pids /\ schedule_array'[t] = t
    BY <1>1, <1>2, <1>6, <1>11, <1>12, ProcessConstants DEF Pids
  <2>2. contexts[t] = User(t) /\ contexts[t].on # k
    <3>1. contexts[t] = User(t)
      BY <1>6, <2>1
    <3>2. t # k
      BY <1>1, <2>1, ProcessConstants
    <3> QED
      BY <3>1, <3>2 DEF User
  <2> QED
    BY <1>7, <2>1, <2>2 DEF WithoutStack
<1>20. CurrentTop'
  BY <1>2, <1>9, <1>11, <1>12 DEF CurrentTop, IInv, TypeOK
<1> QED
  BY <1>10, <1>13, <1>14, <1>17, <1>18, <1>19, <1>20 DEF IInv

\* A switch to the next terminal.
LEMMA SwitchIInv ==
    ASSUME IInv, PitSwitch PROVE IInv'
<1> DEFINE next == schedule_array[NextTurn]
<1>1. pit_count \in {PROCESS_NUMBER_PIT, PROCESS_NUMBER_PIT + 1} /\ pit_count > 0
  BY ProcessConstants DEF PitSwitch, IInv, TypeOK
<1>2. Launched = Terminals
  BY <1>1, ProcessConstants DEF Launched, Terminals
<1>3. /\ schedule_idx \in Terminals /\ process_num \in Pids
      /\ cpu = User(process_num) /\ schedule_array[schedule_idx] = process_num
      /\ active[process_num] /\ pcb_terminal[process_num] = schedule_idx
  BY <1>1, <1>2, RunningIsTop
<1>4. NextTurn \in Terminals
  BY <1>3, ProcessConstants DEF NextTurn, Terminals
<1>5. next \in Pids /\ active[next] /\ pcb_terminal[next] = NextTurn
  <2>1. next \in stack[NextTurn]
    BY <1>2, <1>4 DEF IInv, CallChains
  <2> QED
    BY <2>1, <1>4, InStack
<1>6. /\ schedule_idx' = NextTurn /\ process_num' = next
      /\ page' = next /\ esp0' = next
      /\ cpu' = ContextsSaved[next]
      /\ saved' = [ContextsSaved EXCEPT ![next] = Wild]
      /\ UNCHANGED <<schedule_array, curr_pid, pcb_terminal, saved_parents_esp,
                     shell_process_count, saved_status_num, eax>>
  BY DEF PitSwitch
\* Setting up the last shell changes nothing but pit_count: the interrupted
\* process is the last base shell.
<1>7. /\ is_base_shell' = is_base_shell /\ parent_id' = parent_id /\ active' = active
      /\ is_shell' \in [Pids -> BOOLEAN]
      /\ pit_count' = PROCESS_NUMBER_PIT + 1
  <2>1. CASE pit_count = PROCESS_NUMBER_PIT
    <3>1. process_num = PROCESS_NUMBER_PIT - 1 /\ process_num \in Launched
      BY <1>2, <1>3, <2>1, ProcessConstants DEF IInv, BootPhase
    <3>2. is_base_shell[process_num] = TRUE /\ parent_id[process_num] = NoPid
      BY <3>1, <1>3 DEF IInv, BaseFlags, TypeOK
    <3>3. /\ is_shell' = [is_shell EXCEPT ![process_num] = TRUE]
          /\ is_base_shell' = [is_base_shell EXCEPT ![process_num] = TRUE]
          /\ parent_id' = [parent_id EXCEPT ![process_num] = NoPid]
          /\ active' = [active EXCEPT ![process_num] = TRUE]
          /\ pit_count' = pit_count + 1
      BY <2>1 DEF PitSwitch, SetUpLastShell
    <3>4. active[process_num] = TRUE
      BY <1>3 DEF IInv, TypeOK
    <3> QED
      BY <1>3, <2>1, <3>2, <3>3, <3>4 DEF IInv, TypeOK
  <2>2. CASE pit_count = PROCESS_NUMBER_PIT + 1
    <3>1. UNCHANGED <<is_shell, is_base_shell, parent_id, active, pit_count>>
      BY <2>2, ProcessConstants DEF PitSwitch, SetUpLastShell
    <3> QED
      BY <2>2, <3>1 DEF IInv, TypeOK
  <2> QED
    BY <1>1, <2>1, <2>2
<1>8. Launched' = Launched
  BY <1>2, <1>7, ProcessConstants DEF Launched, Terminals
<1>9. stack' = stack
  BY <1>6, <1>7 DEF stack
<1>10. ContextsSaved[next] = User(next)
  <2>1. Interrupted = User(process_num)
    BY <1>1, InterruptedIsUser
  <2>2. CASE next = process_num
    BY <1>3, <2>1, <2>2 DEF ContextsSaved, IInv, TypeOK
  <2>3. CASE next # process_num
    <3>1. NextTurn # schedule_idx
      BY <1>3, <2>3
    <3> QED
      BY <1>2, <1>3, <1>4, <1>5, <2>3, <3>1 DEF ContextsSaved, IInv, TypeOK, NextContextIsLive
  <2> QED
    BY <2>2, <2>3
<1>11. TypeOK'
  <2>1. cpu' \in Contexts /\ saved' \in [Pids -> Contexts]
    BY <1>5, <1>6, <1>10, ContextTypes, InterruptedTypes DEF IInv
  <2>2. pit_count' \in 0 .. PROCESS_NUMBER_PIT + 1
    BY <1>7, ProcessConstants
  <2> QED
    BY <1>4, <1>5, <1>6, <1>7, <2>1, <2>2 DEF IInv, TypeOK
<1>12. BootPhase'
  BY <1>5, <1>6, <1>7, <1>10, ProcessConstants DEF BootPhase
<1>13. BaseFlags'
  BY <1>7, <1>8 DEF BaseFlags, IInv
<1>14. CallChains'
  BY <1>6, <1>7, <1>8, <1>9 DEF CallChains, IInv
<1>15. CurrentAgree'
  <2>1. curr_pid[NextTurn] = next
    BY <1>2, <1>4 DEF IInv, CurrentTop
  <2> QED
    BY <1>4, <1>6, <1>10, <2>1 DEF CurrentAgree, User
<1>16. NextContextIsLive'
  <2> SUFFICES ASSUME NEW t \in Terminals \ {NextTurn}
               PROVE  saved'[schedule_array[t]] = User(schedule_array[t])
    BY <1>2, <1>6, <1>8 DEF NextContextIsLive
  <2>1. schedule_array[t] \in Pids /\ pcb_terminal[schedule_array[t]] = t
    BY <1>2, InStack DEF IInv, CallChains
  <2>2. schedule_array[t] # next
    BY <1>5, <2>1
  <2>3. ContextsSaved[schedule_array[t]] = User(schedule_array[t])
    <3>1. CASE t = schedule_idx
      BY <1>1, <1>3, <3>1, InterruptedIsUser DEF ContextsSaved, IInv, TypeOK
    <3>2. CASE t # schedule_idx
      BY <1>2, <1>3, <2>1, <3>2 DEF ContextsSaved, IInv, TypeOK, NextContextIsLive
    <3> QED
      BY <3>1, <3>2
  <2> QED
    BY <1>6, <2>1, <2>2, <2>3, InterruptedTypes DEF IInv
<1>17. CurrentTop'
  BY <1>6, <1>8 DEF CurrentTop, IInv
<1> QED
  BY <1>11, <1>12, <1>13, <1>14, <1>15, <1>16, <1>17 DEF IInv

-----------------------------------------------------------------------------
(* The system calls *)

\* What a system call finds: the boot is over, its process is on top of the
\* stack whose turn it is.
LEMMA CallerFacts ==
    ASSUME Quiet, IInv, InUser
    PROVE  /\ pit_count = PROCESS_NUMBER_PIT + 1
           /\ Launched = Terminals
           /\ schedule_idx \in Terminals
           /\ process_num \in stack[schedule_idx]
           /\ process_num \in Pids /\ cpu = User(process_num) /\ cpu.on = process_num
           /\ schedule_array[schedule_idx] = process_num
           /\ page = process_num /\ esp0 = process_num
           /\ active[process_num] /\ pcb_terminal[process_num] = schedule_idx
<1>1. pit_count = PROCESS_NUMBER_PIT + 1
  BY ProcessConstants DEF InUser, Quiet, IInv, TypeOK
<1>2. Launched = Terminals
  BY <1>1, ProcessConstants DEF Launched, Terminals
<1>3. pit_count > 0
  BY <1>1, ProcessConstants
<1> QED
  BY <1>1, <1>2, <1>3, RunningIsTop, InStack DEF User

\* A refused call changes the count of shells and the returned value only.
LEMMA RefusedIInv ==
    ASSUME Quiet, IInv, NEW name \in Commands,
           ExecuteShellLimit(name) \/ ExecuteNoPcb(name) \/ ExecuteNotLoaded(name)
    PROVE  IInv'
<1>1. InUser
  BY DEF ExecuteShellLimit, ExecuteNoPcb, ExecuteNotLoaded
<1>2. UNCHANGED <<tables, machine, pit_count, saved_status_num>>
  BY DEF ExecuteShellLimit, ExecuteNoPcb, ExecuteNotLoaded, counters
<1>3. shell_process_count' \in Int
  BY DEF ExecuteShellLimit, ExecuteNoPcb, ExecuteNotLoaded, counters, CountShell, IInv, TypeOK
<1>4. eax' \in [to : Pids \cup {NoPid}, value : Results]
  <2>1. \E value \in Results : Returns(cpu.on, value)
    BY DEF ExecuteShellLimit, ExecuteNoPcb, ExecuteNotLoaded, RefusedValue, Results
  <2> QED
    BY <1>1, <2>1, CallerFacts DEF Returns
<1>5. TypeOK'
  BY <1>2, <1>3, <1>4 DEF TypeOK, IInv, tables, machine
<1>6. Launched' = Launched /\ stack' = stack
  BY <1>2 DEF Launched, stack, tables
<1> QED
  BY <1>2, <1>5, <1>6
  DEF IInv, BootPhase, BaseFlags, CallChains, CurrentAgree, CurrentTop,
      NextContextIsLive, tables, machine

\* A child joins the stack of its caller, above it.
LEMMA ExecuteIInv ==
    ASSUME Quiet, IInv, NEW name \in Commands, ExecuteStart(name)
    PROVE  IInv'
<1> DEFINE t0 == schedule_idx
           caller == process_num
<1>1. /\ pit_count = PROCESS_NUMBER_PIT + 1 /\ Launched = Terminals
      /\ t0 \in Terminals /\ caller \in stack[t0] /\ caller \in Pids
      /\ cpu = User(caller) /\ cpu.on = caller
      /\ schedule_array[t0] = caller
      /\ active[caller] /\ pcb_terminal[caller] = t0
  BY CallerFacts DEF ExecuteStart
<1>2. PICK q \in FreePcbs : Started(q, {}, saved)
  <2>1. Start(name \in ShellNamed, {}, saved) /\ TypeOK /\ saved \in [Pids -> Contexts]
    BY DEF ExecuteStart, IInv, TypeOK
  <2>2. (name \in ShellNamed) \in BOOLEAN
    OBVIOUS
  <2> QED
    BY <2>1, <2>2, StartTypes
<1>3. q \in Pids /\ q > caller /\ ~active[q]
  BY <1>2 DEF FreePcbs
<1>4. q \notin Launched
  BY <1>3, InStack DEF IInv, CallChains, Launched
<1>5. is_base_shell[q] = FALSE /\ parent_id[q] # NoPid
  BY <1>3, <1>4 DEF IInv, BaseFlags, TypeOK
<1>6. /\ pcb_terminal' = [pcb_terminal EXCEPT ![q] = t0]
      /\ schedule_array' = [schedule_array EXCEPT ![t0] = q]
      /\ curr_pid' = [curr_pid EXCEPT ![t0] = q]
      /\ is_base_shell' = [is_base_shell EXCEPT ![q] = FALSE]
      /\ parent_id' = [parent_id EXCEPT ![q] = caller]
      /\ pit_count' = pit_count
  <2>1. JoinTerminal(q, caller, FALSE)
    BY <1>2, <1>5 DEF Started
  <2>2. ~(pit_count < PROCESS_NUMBER_PIT)
    BY <1>1, ProcessConstants
  <2> QED
    BY <1>1, <2>1, <2>2 DEF JoinTerminal
<1>7. /\ page' = q /\ esp0' = q /\ process_num' = q /\ cpu' = User(q)
      /\ cpu' \in Contexts
      /\ is_shell' \in [Pids -> BOOLEAN]
      /\ saved_parents_esp' = [saved_parents_esp EXCEPT ![q] = caller]
      /\ saved_parents_esp' \in [Pids -> Pids \cup {NoPid}]
      /\ shell_process_count' \in Int
      /\ saved' = WithoutStack(saved, q)
      /\ saved' \in [Pids -> Contexts]
      /\ UNCHANGED <<saved_status_num, eax, schedule_idx>>
      /\ active' \in [Pids -> BOOLEAN]
  BY <1>1, <1>2 DEF Started, ExecuteStart
<1>8. \A p \in Pids : active'[p] <=> p = q \/ active[p]
  BY <1>2 DEF Started
<1>9. Launched' = Terminals
  BY <1>1, <1>6 DEF Launched
<1>10. \A t \in Terminals : \A p : p \in stack'[t] <=> p \in stack[t] \/ (t = t0 /\ p = q)
  <2> SUFFICES ASSUME NEW t \in Terminals, NEW p
               PROVE  p \in stack'[t] <=> p \in stack[t] \/ (t = t0 /\ p = q)
    OBVIOUS
  <2>1. p \in stack'[t] <=> p \in Pids /\ active'[p] /\ pcb_terminal'[p] = t
    BY DEF stack
  <2>2. p \in Pids => pcb_terminal'[p] = IF p = q THEN t0 ELSE pcb_terminal[p]
    BY <1>6 DEF IInv, TypeOK
  <2> QED
    BY <1>3, <1>8, <2>1, <2>2, InStack
<1>11. \A t \in Terminals : q \notin stack[t]
  BY <1>3, InStack
<1>12. TypeOK'
  <2>1. /\ schedule_array' \in [Terminals -> Pids]
        /\ curr_pid' \in [Terminals -> Pids]
        /\ parent_id' \in [Pids -> Pids \cup {NoPid}]
        /\ is_base_shell' \in [Pids -> BOOLEAN]
        /\ pcb_terminal' \in [Pids -> Terminals]
    BY <1>1, <1>3, <1>6 DEF TypeOK, IInv
  <2> QED
    BY <1>1, <1>3, <1>6, <1>7, <2>1 DEF TypeOK, IInv
<1>13. BootPhase'
  BY <1>1, <1>3, <1>6, <1>7, ProcessConstants DEF BootPhase
<1>14. BaseFlags'
  <2>1. caller # NoPid
    BY <1>1 DEF Pids, NoPid
  <2>2. ASSUME NEW p \in Pids
        PROVE  /\ is_base_shell'[p] = IF p = q THEN FALSE ELSE is_base_shell[p]
               /\ parent_id'[p] = IF p = q THEN caller ELSE parent_id[p]
    BY <1>6 DEF IInv, TypeOK
  <2> QED
    BY <1>1, <1>4, <1>9, <2>1, <2>2 DEF BaseFlags, IInv
<1>15. CallChains'
  <2>1. \A p \in Pids : active'[p] => pcb_terminal'[p] \in Launched'
    BY <1>1, <1>6, <1>8, <1>9 DEF IInv, CallChains, TypeOK
  <2>2. ASSUME NEW t \in Terminals
        PROVE  t \in stack'[t] /\ schedule_array'[t] \in stack'[t]
    <3>1. t \in stack[t] /\ schedule_array[t] \in stack[t]
      BY <1>1 DEF IInv, CallChains
    <3>2. schedule_array'[t] = IF t = t0 THEN q ELSE schedule_array[t]
      BY <1>6 DEF IInv, TypeOK
    <3> QED
      BY <1>10, <3>1, <3>2
  <2>3. ASSUME NEW t \in Terminals, NEW p \in stack'[t]
        PROVE  /\ p <= schedule_array'[t]
               /\ is_base_shell'[p] <=> p = t
               /\ parent_id'[p] = NoPid <=> p = t
               /\ p # t => /\ parent_id'[p] \in stack'[t]
                           /\ parent_id'[p] < p
                           /\ \A r \in stack'[t] : r <= parent_id'[p] \/ p <= r
               /\ p # t => saved_parents_esp'[p] = parent_id'[p]
    <3>1. CASE p = q
      <4>1. t = t0
        BY <1>10, <1>11, <2>3, <3>1
      <4>2. \A r \in stack[t0] : r <= caller
        BY <1>1 DEF IInv, CallChains
      <4>3. \A r \in stack'[t0] : r = q \/ r <= caller
        BY <1>1, <1>10, <4>2
      <4>4. q # t
        BY <1>1, <1>4, <4>1
      <4>5. parent_id'[q] = caller /\ saved_parents_esp'[q] = caller /\ is_base_shell'[q] = FALSE
        BY <1>3, <1>6, <1>7 DEF IInv, TypeOK
      <4>6. caller \in stack'[t0] /\ schedule_array'[t0] = q
        BY <1>1, <1>6, <1>10 DEF IInv, TypeOK
      <4>7. caller # NoPid /\ caller < q /\ q <= q
        BY <1>1, <1>3 DEF Pids, NoPid
      <4> QED
        BY <3>1, <4>1, <4>3, <4>4, <4>5, <4>6, <4>7
    <3>2. CASE p # q
      <4>1. p \in stack[t] /\ p \in Pids
        BY <1>10, <3>2, <2>3, InStack
      <4>2. /\ p <= schedule_array[t]
            /\ is_base_shell[p] <=> p = t
            /\ parent_id[p] = NoPid <=> p = t
            /\ p # t => /\ parent_id[p] \in stack[t]
                        /\ parent_id[p] < p
                        /\ \A r \in stack[t] : r <= parent_id[p] \/ p <= r
            /\ p # t => saved_parents_esp[p] = parent_id[p]
        BY <1>1, <4>1 DEF IInv, CallChains
      <4>3. /\ is_base_shell'[p] = is_base_shell[p] /\ parent_id'[p] = parent_id[p]
            /\ saved_parents_esp'[p] = saved_parents_esp[p]
        BY <1>6, <1>7, <3>2, <4>1 DEF IInv, TypeOK
      <4>4. p <= schedule_array'[t] /\ (t = t0 => p < q)
        <5>1. CASE t = t0
          <6>1. p <= caller /\ caller < q /\ schedule_array'[t] = q
            BY <1>1, <1>3, <1>6, <4>2, <5>1 DEF IInv, TypeOK
          <6> QED
            BY <1>1, <1>3, <4>1, <6>1 DEF Pids
        <5>2. CASE t # t0
          BY <1>6, <4>2, <5>2 DEF IInv, TypeOK
        <5> QED
          BY <5>1, <5>2
      <4>5. \A r \in stack'[t] : r \in stack[t] \/ (t = t0 /\ r = q)
        BY <1>1, <1>10
      <4>6. stack[t] \subseteq stack'[t]
        BY <1>1, <1>10
      <4>7. p # t => \A r \in stack'[t] : r <= parent_id[p] \/ p <= r
        BY <1>3, <4>1, <4>2, <4>4, <4>5 DEF Pids
      <4> QED
        BY <4>2, <4>3, <4>4, <4>6, <4>7
    <3> QED
      BY <3>1, <3>2
  <2> QED
    BY <1>9, <2>1, <2>2, <2>3 DEF CallChains
<1>16. CurrentAgree' /\ CurrentTop'
  BY <1>1, <1>6, <1>7, <1>9 DEF CurrentAgree, CurrentTop, User, IInv, TypeOK
<1>17. NextContextIsLive'
  <2> SUFFICES ASSUME NEW t \in Terminals \ {t0}
               PROVE  saved'[schedule_array[t]] = User(schedule_array[t])
    BY <1>1, <1>6, <1>7, <1>9 DEF NextContextIsLive, IInv, TypeOK
  <2>1. saved[schedule_array[t]] = User(schedule_array[t])
    BY <1>1 DEF IInv, NextContextIsLive
  <2>2. schedule_array[t] \in Pids /\ schedule_array[t] # q
    <3>1. schedule_array[t] \in stack[t]
      BY <1>1 DEF IInv, CallChains
    <3> QED
      BY <1>11, <3>1, InStack
  <2> QED
    BY <1>7, <2>1, <2>2 DEF WithoutStack, User
<1> QED
  BY <1>12, <1>13, <1>14, <1>15, <1>16, <1>17 DEF IInv

\* A child leaves the top of its stack; its caller is the top again.
LEMMA HaltIInv ==
    ASSUME Quiet, IInv, NEW status \in Statuses, HaltToParent(status)
    PROVE  IInv'
<1> DEFINE t0 == schedule_idx
           c == process_num
           caller == parent_id[process_num]
<1>1. /\ pit_count = PROCESS_NUMBER_PIT + 1 /\ Launched = Terminals
      /\ t0 \in Terminals /\ c \in stack[t0] /\ c \in Pids
      /\ cpu.on = c /\ child = c /\ parent = caller
      /\ schedule_array[t0] = c
      /\ active[c] /\ pcb_terminal[c] = t0
  BY CallerFacts DEF HaltToParent, child, parent
<1>2. c # t0 /\ ~is_base_shell[c]
  BY <1>1 DEF HaltToParent, IInv, CallChains
<1>3. /\ caller \in stack[t0] /\ caller < c
      /\ \A q \in stack[t0] : q <= caller \/ c <= q
      /\ saved_parents_esp[c] = caller
  BY <1>1, <1>2 DEF IInv, CallChains
<1>4. /\ caller \in Pids /\ active[caller] /\ pcb_terminal[caller] = t0
      /\ caller # NoPid /\ caller # c
  BY <1>1, <1>3, InStack DEF Pids, NoPid
<1>5. /\ saved_status_num' = status
      /\ esp0' = caller /\ page' = caller /\ process_num' = caller
      /\ cpu' = User(caller)
      /\ eax' = [to |-> caller, value |-> status]
      /\ schedule_array' = [schedule_array EXCEPT ![t0] = caller]
      /\ curr_pid' = [curr_pid EXCEPT ![t0] = caller]
      /\ active' = [active EXCEPT ![c] = FALSE, ![caller] = TRUE]
      /\ UNCHANGED <<pit_count, schedule_idx, parent_id, is_shell, is_base_shell,
                     pcb_terminal, saved, saved_parents_esp>>
  BY <1>1, <1>3
  DEF HaltToParent, ReturnToParentMemory, Returns, QueueAfterHalt, CurrAfterHalt,
      ActiveAfterHalt, child, parent
<1>6. shell_process_count' \in Int
  BY DEF HaltToParent, CountAfterHalt, IInv, TypeOK
<1>7. Launched' = Launched
  BY <1>5 DEF Launched
<1>8. \A p \in Pids : active'[p] <=> active[p] /\ p # c
  BY <1>1, <1>4, <1>5 DEF IInv, TypeOK
<1>9. \A t \in Terminals : \A p : p \in stack'[t] <=> p \in stack[t] /\ p # c
  <2>1. \A t \in Terminals : \A p :
          p \in stack'[t] <=> p \in Pids /\ active'[p] /\ pcb_terminal[p] = t
    BY <1>5 DEF stack
  <2> QED
    BY <1>8, <2>1, InStack
<1>10. \A t \in Terminals : schedule_array'[t] = IF t = t0 THEN caller ELSE schedule_array[t]
  BY <1>5 DEF IInv, TypeOK
<1>11. TypeOK'
  <2>1. cpu' \in Contexts
    BY <1>4, <1>5, ContextTypes
  <2>2. active' \in [Pids -> BOOLEAN]
    BY <1>5 DEF IInv, TypeOK
  <2>3. eax' \in [to : Pids \cup {NoPid}, value : Results]
    BY <1>4, <1>5 DEF Results
  <2> QED
    BY <1>4, <1>5, <1>6, <2>1, <2>2, <2>3 DEF IInv, TypeOK
<1>12. BootPhase'
  BY <1>1, <1>4, <1>5, ProcessConstants DEF BootPhase
<1>13. BaseFlags'
  BY <1>5, <1>7 DEF BaseFlags, IInv
<1>14. CallChains'
  <2>1. \A p \in Pids : active'[p] => pcb_terminal'[p] \in Launched'
    BY <1>5, <1>7, <1>8 DEF IInv, CallChains
  <2>2. ASSUME NEW t \in Terminals
        PROVE  t \in stack'[t] /\ schedule_array'[t] \in stack'[t]
    <3>1. t \in stack[t] /\ schedule_array[t] \in stack[t]
      BY <1>1 DEF IInv, CallChains
    <3>2. t # c
      BY <1>1, <1>2, <3>1, InStack
    <3>3. t # t0 => schedule_array[t] # c
      BY <1>1, <3>1, InStack
    <3> QED
      BY <1>3, <1>4, <1>9, <1>10, <3>1, <3>2, <3>3
  <2>3. ASSUME NEW t \in Terminals, NEW p \in stack'[t]
        PROVE  /\ p <= schedule_array'[t]
               /\ is_base_shell'[p] <=> p = t
               /\ parent_id'[p] = NoPid <=> p = t
               /\ p # t => /\ parent_id'[p] \in stack'[t]
                           /\ parent_id'[p] < p
                           /\ \A r \in stack'[t] : r <= parent_id'[p] \/ p <= r
               /\ p # t => saved_parents_esp'[p] = parent_id'[p]
    <3>1. p \in stack[t] /\ p # c /\ p \in Pids
      BY <1>9, <2>3, InStack
    <3>2. /\ p <= schedule_array[t]
          /\ is_base_shell[p] <=> p = t
          /\ parent_id[p] = NoPid <=> p = t
          /\ p # t => /\ parent_id[p] \in stack[t]
                      /\ parent_id[p] < p
                      /\ \A r \in stack[t] : r <= parent_id[p] \/ p <= r
          /\ p # t => saved_parents_esp[p] = parent_id[p]
      BY <1>1, <3>1 DEF IInv, CallChains
    <3>3. p <= schedule_array'[t]
      <4>1. CASE t = t0
        <5>1. p <= c /\ (p <= caller \/ c <= p) /\ schedule_array'[t] = caller
          BY <1>1, <1>3, <1>10, <3>1, <3>2, <4>1
        <5> QED
          BY <1>1, <1>4, <3>1, <5>1 DEF Pids
      <4>2. CASE t # t0
        BY <1>10, <3>2, <4>2
      <4> QED
        BY <4>1, <4>2
    <3>4. p # t => parent_id[p] # c
      <4>1. CASE t = t0
        <5>1. p <= c
          BY <1>1, <3>2, <4>1
        <5> QED
          BY <1>1, <3>1, <3>2, <5>1 DEF Pids
      <4>2. CASE t # t0
        BY <1>1, <3>2, <4>2, InStack
      <4> QED
        BY <4>1, <4>2
    <3>5. p # t => parent_id[p] \in stack'[t]
      BY <1>9, <3>2, <3>4
    <3>6. stack'[t] \subseteq stack[t]
      BY <1>9
    <3> QED
      BY <1>5, <3>2, <3>3, <3>5, <3>6
  <2> QED
    BY <1>1, <1>7, <2>1, <2>2, <2>3 DEF CallChains
<1>15. CurrentAgree' /\ CurrentTop'
  BY <1>1, <1>5, <1>7 DEF CurrentAgree, CurrentTop, User, IInv, TypeOK
<1>16. NextContextIsLive'
  BY <1>1, <1>5, <1>7, <1>10 DEF NextContextIsLive, IInv
<1> QED
  BY <1>11, <1>12, <1>13, <1>14, <1>15, <1>16 DEF IInv

\* A base shell that halts starts again where it was.
LEMMA RestartIInv ==
    ASSUME Quiet, IInv, NEW status \in Statuses, HaltBaseShell(status)
    PROVE  IInv'
<1> DEFINE c == process_num
<1>1. /\ pit_count = PROCESS_NUMBER_PIT + 1 /\ Launched = Terminals
      /\ schedule_idx \in Terminals /\ c \in stack[schedule_idx] /\ c \in Pids
      /\ cpu = User(c) /\ child = c /\ is_base_shell[c] /\ c \in Launched
      /\ schedule_array[schedule_idx] = c /\ curr_pid[schedule_idx] = c
      /\ page = c /\ esp0 = c
      /\ active[c] /\ pcb_terminal[c] = schedule_idx
  <2>1. InUser /\ is_base_shell[child]
    BY DEF HaltBaseShell
  <2>2. child = process_num /\ process_num \in Pids /\ schedule_idx \in Launched
    BY <2>1, CallerFacts DEF child
  <2>3. is_base_shell[process_num] => process_num \in Launched
    BY <2>2 DEF IInv, BaseFlags
  <2>4. curr_pid[schedule_idx] = schedule_array[schedule_idx]
    BY <2>2 DEF IInv, CurrentTop
  <2> QED
    BY <2>1, <2>2, <2>3, <2>4, CallerFacts
<1>2. /\ c = schedule_idx /\ parent_id[c] = NoPid /\ is_base_shell[c] = TRUE
      /\ active[c] = TRUE
  BY <1>1 DEF IInv, CallChains, BaseFlags, TypeOK
<1>3. /\ saved_status_num' = status
      /\ active' = [active EXCEPT ![c] = TRUE]
      /\ is_shell' \in [Pids -> BOOLEAN]
      /\ saved_parents_esp' = [saved_parents_esp EXCEPT ![c] = c]
      /\ EnterUser(c)
      /\ UNCHANGED <<schedule_idx, shell_process_count, saved, page, eax>>
      /\ JoinTerminal(c, NoPid, TRUE)
  <2>1. PICK flag \in BOOLEAN : is_shell' = [is_shell EXCEPT ![c] = flag]
    BY <1>1 DEF HaltBaseShell
  <2>2. is_shell' \in [Pids -> BOOLEAN]
    BY <2>1 DEF IInv, TypeOK
  <2> QED
    BY <1>1, <2>2 DEF HaltBaseShell
<1>4. /\ pcb_terminal' = [pcb_terminal EXCEPT ![c] = pcb_terminal[c]]
      /\ schedule_array' = [schedule_array EXCEPT ![pcb_terminal[c]] = c]
      /\ curr_pid' = [curr_pid EXCEPT ![pcb_terminal[c]] = c]
      /\ is_base_shell' = [is_base_shell EXCEPT ![c] = TRUE]
      /\ parent_id' = [parent_id EXCEPT ![c] = NoPid]
      /\ pit_count' = pit_count
  <2>1. ~(pit_count < PROCESS_NUMBER_PIT)
    BY <1>1, ProcessConstants
  <2> QED
    BY <1>3, <2>1 DEF JoinTerminal
<1>5. UNCHANGED <<pcb_terminal, schedule_array, curr_pid, is_base_shell, parent_id,
                  pit_count, active>>
  BY <1>1, <1>2, <1>3, <1>4 DEF IInv, TypeOK
<1>6. process_num' = process_num /\ esp0' = esp0 /\ cpu' = cpu
  BY <1>1, <1>3 DEF EnterUser
<1>7. TypeOK'
  BY <1>1, <1>3, <1>5, <1>6 DEF IInv, TypeOK
<1>8. Launched' = Launched /\ stack' = stack
  BY <1>5 DEF Launched, stack
<1>9. CallChains'
  <2>1. \A p \in Pids : p # c => saved_parents_esp'[p] = saved_parents_esp[p]
    BY <1>3 DEF IInv, TypeOK
  <2>2. \A t \in Launched : \A p \in stack[t] : p # t => p # c
    BY <1>1, <1>2, InStack
  <2> QED
    BY <1>1, <1>5, <1>8, <2>1, <2>2, InStack DEF IInv, CallChains
<1> QED
  BY <1>3, <1>5, <1>6, <1>7, <1>8, <1>9
  DEF IInv, BootPhase, BaseFlags, CurrentAgree, CurrentTop, NextContextIsLive

-----------------------------------------------------------------------------
(* The theorems *)

\* Every step preserves the invariant: the timer's, execute, halt and the restart
\* of a base shell; the steps of a halt that the timer may cut cannot occur.
LEMMA NextIInv == ASSUME Quiet, IInv, [Next]_vars PROVE IInv'
<1>1. CASE Pit
  BY <1>1, LaunchIInv, SwitchIInv DEF Pit
<1>2. CASE \E name \in Commands : \/ ExecuteStart(name)
                                  \/ ExecuteShellLimit(name)
                                  \/ ExecuteNoPcb(name)
                                  \/ ExecuteNotLoaded(name)
  BY <1>2, ExecuteIInv, RefusedIInv
<1>3. CASE \E status \in Statuses : \/ HaltToParent(status)
                                    \/ HaltBaseShell(status)
  BY <1>3, HaltIInv, RestartIInv
\* No halt is ever cut in pieces.
<1>4. CASE (\E status \in Statuses : HaltClosesRtc(status)) \/ HaltStep
  <2>1. cpu.pc \in {"boot", "user"}
    BY DEF IInv, BootPhase, TypeOK, User
  <2> QED
    BY <1>4, <2>1
    DEF Quiet, HaltClosesRtc, HaltStep, HaltQueue, HaltCurr, HaltDeactivate,
        HaltCurrent, HaltCount, HaltReturn, Halting
<1>5. CASE UNCHANGED vars
  <2>1. stack' = stack /\ Launched' = Launched
    BY <1>5 DEF vars, tables, counters, machine, stack, Launched
  <2> QED
    BY <1>5, <2>1
    DEF vars, tables, counters, machine, IInv, TypeOK, BootPhase, BaseFlags,
        CallChains, CurrentAgree, CurrentTop, NextContextIsLive
<1> QED
  BY <1>1, <1>2, <1>3, <1>4, <1>5 DEF Next

\* The inductive invariant holds in every state the kernel reaches when no
\* program halts with an RTC file open and none runs a command during the boot.
THEOREM Invariance == ASSUME Quiet PROVE Spec => []IInv
<1>1. Init => IInv
  BY InitIInv
<1>2. IInv /\ [Next]_vars => IInv'
  BY NextIInv
<1> QED
  BY <1>1, <1>2, PTL DEF Spec

\* Every variable keeps its type: no pid, terminal or context ever leaves the
\* tables that the kernel indexes with it.
THEOREM TypeCorrect == ASSUME Quiet PROVE Spec => []TypeOK
<1>1. IInv => TypeOK
  BY DEF IInv
<1> QED
  BY <1>1, Invariance, PTL

\* execute, halt and the timer keep one chain of callers per terminal.
THEOREM ChainsCorrect == ASSUME Quiet PROVE Spec => []CallChains
<1>1. IInv => CallChains
  BY DEF IInv
<1> QED
  BY <1>1, Invariance, PTL

\* User code runs only when process_num, the queue, curr_pid, the page directory
\* and the TSS name the process it belongs to.
THEOREM CurrentCorrect == ASSUME Quiet PROVE Spec => []CurrentAgree
<1>1. IInv => CurrentAgree
  BY DEF IInv
<1> QED
  BY <1>1, Invariance, PTL

\* The scheduler never loads a context that was not saved, or saved by another
\* process, or already resumed.
THEOREM ContextsCorrect == ASSUME Quiet PROVE Spec => []NextContextIsLive
<1>1. IInv => NextContextIsLive
  BY DEF IInv
<1> QED
  BY <1>1, Invariance, PTL

-----------------------------------------------------------------------------
(* The process core implements the call stacks of TerminalStacks: the initial *)
(* state maps to an initial state and every action to a step of the abstract  *)
(* specification or to a stutter.                                             *)

\* The mapping of the counter of launches.
MappedLaunched == IF pit_count < PROCESS_NUMBER_PIT THEN pit_count ELSE PROCESS_NUMBER_PIT

\* Two families of sets, one per terminal, are one when their members are.
LEMMA SameStacks ==
    ASSUME NEW S, S = [t \in Terminals |-> S[t]],
           \A t \in Terminals : \A p : p \in stack'[t] <=> p \in S[t]
    PROVE  stack' = S
<1>1. stack' = [t \in Terminals |-> stack'[t]]
  BY DEF stack
<1>2. \A t \in Terminals : stack'[t] = S[t]
  OBVIOUS
<1> QED
  BY <1>1, <1>2

\* Before the first tick no terminal has a program.
LEMMA InitMaps == ASSUME Init PROVE Promise!Init
<1>1. pit_count = 0 /\ schedule_idx = 0 /\ \A p \in Pids : ~active[p]
  BY DEF Init
<1>2. stack = [t \in Terminals |-> {}]
  BY <1>1 DEF stack
<1>3. eax = [to |-> -1, value |-> 0]
  BY DEF Init, NoPid
<1> QED
  BY <1>1, <1>2, <1>3, ProcessConstants DEF Promise!Init, Promise!Terminals, Terminals

\* A tick during the boot gives the next terminal its shell and its turn.
LEMMA LaunchMaps ==
    ASSUME Quiet, IInv, PitFirst \/ PitLaunch PROVE Promise!Launch
<1> DEFINE k == pit_count
<1>1. k \in 0 .. PROCESS_NUMBER_PIT - 1 /\ k \in Terminals
  <2>1. CASE PitFirst
    BY <2>1, ProcessConstants DEF PitFirst, Terminals
  <2>2. CASE PitLaunch
    BY <2>2, ProcessConstants DEF PitLaunch, Terminals
  <2> QED
    BY <2>1, <2>2
<1>2. IInv'
  BY LaunchIInv
<1>3. pit_count' = k + 1 /\ eax' = eax
  <2>1. PICK q, parent_of, base : JoinTerminal(q, parent_of, base) /\ eax' = eax
    BY DEF PitFirst, PitLaunch, Start
  <2> QED
    BY <1>1, <2>1, ProcessConstants DEF JoinTerminal
<1>4. schedule_idx' = k /\ \A p \in Pids : active'[p] <=> p <= k
  <2>1. schedule_idx' = pit_count' - 1 /\ \A p \in Pids : active'[p] <=> p < pit_count'
    BY <1>1, <1>2, <1>3, ProcessConstants DEF IInv, BootPhase
  <2> QED
    BY <1>1, <1>3, <2>1 DEF Pids
<1>5. \A t \in Terminals : \A p : p \in stack'[t] <=> p = t /\ p <= k
  <2>1. ASSUME NEW p \in Pids, p <= k PROVE p \in Terminals /\ pcb_terminal'[p] = p
    <3>1. p \in Launched' /\ p \in Terminals
      BY <1>1, <1>3, <2>1, ProcessConstants DEF Launched, Pids, Terminals
    <3>2. p \in stack'[p]
      BY <1>2, <3>1 DEF IInv, CallChains
    <3> QED
      BY <3>1, <3>2 DEF stack
  <2>2. \A t \in Terminals : \A p : p \in stack'[t]
            <=> p \in Pids /\ active'[p] /\ pcb_terminal'[p] = t
    BY DEF stack
  <2>3. Terminals \subseteq Pids
    BY ProcessConstants DEF Terminals, Pids
  <2> QED
    BY <1>4, <2>1, <2>2, <2>3
<1>6. \A t \in Terminals : \A p : p \in stack[t] <=> p = t /\ p < k
  <2>1. \A p \in Pids : active[p] <=> p < k
    BY <1>1, ProcessConstants DEF IInv, BootPhase, Pids
  <2>2. ASSUME NEW p \in Pids, p < k PROVE p \in Terminals /\ pcb_terminal[p] = p
    <3>1. p \in Launched /\ p \in Terminals
      BY <1>1, <2>2, ProcessConstants DEF Launched, Pids, Terminals
    <3>2. p \in stack[p]
      BY <3>1 DEF IInv, CallChains
    <3> QED
      BY <3>1, <3>2, InStack
  <2>3. Terminals \subseteq Pids
    BY ProcessConstants DEF Terminals, Pids
  <2> QED
    BY <2>1, <2>2, <2>3, InStack
<1>7. stack' = [stack EXCEPT ![k] = {k}]
  <2> DEFINE S == [stack EXCEPT ![k] = {k}]
  <2>1. S = [t \in Terminals |-> S[t]] /\ \A t \in Terminals : S[t] = IF t = k THEN {k} ELSE stack[t]
    BY DEF stack
  <2>2. \A t \in Terminals : \A p : p \in stack'[t] <=> p \in S[t]
    BY <1>1, <1>5, <1>6, <2>1 DEF Terminals
  <2> QED
    BY <2>1, <2>2, SameStacks
<1>8. MappedLaunched = k /\ MappedLaunched' = k + 1
  BY <1>1, <1>3, ProcessConstants DEF MappedLaunched
<1>9. MappedLaunched < PROCESS_NUMBER_PIT
  BY <1>1, <1>8, ProcessConstants
<1> QED
  BY <1>3, <1>4, <1>7, <1>8, <1>9 DEF Promise!Launch, MappedLaunched

\* A tick after the boot passes the turn on and touches no stack.
LEMMA SwitchMaps ==
    ASSUME Quiet, IInv, PitSwitch PROVE Promise!Rotate
<1>1. pit_count >= PROCESS_NUMBER_PIT /\ pit_count' >= PROCESS_NUMBER_PIT
      /\ pit_count \in Int /\ pit_count' \in Int
  BY ProcessConstants DEF PitSwitch, SetUpLastShell, IInv, TypeOK
<1>2. schedule_idx' = (schedule_idx + 1) % PROCESS_NUMBER_PIT
  <2>1. schedule_idx \in 0 .. PROCESS_NUMBER_PIT - 1 /\ PROCESS_NUMBER_PIT \in Nat \ {0}
    BY ProcessConstants DEF IInv, TypeOK, Terminals
  <2>2. schedule_idx' = NextTurn
    BY DEF PitSwitch
  <2>3. CASE schedule_idx < PROCESS_NUMBER_PIT - 1
    BY <2>1, <2>2, <2>3 DEF NextTurn
  <2>4. CASE schedule_idx = PROCESS_NUMBER_PIT - 1
    <3>1. PROCESS_NUMBER_PIT % PROCESS_NUMBER_PIT = 0
      BY <2>1
    <3> QED
      BY <2>1, <2>2, <2>4, <3>1 DEF NextTurn
  <2> QED
    BY <2>1, <2>3, <2>4
<1>3. active' = active
  <2>1. CASE pit_count = PROCESS_NUMBER_PIT
    <3>1. active[process_num] = TRUE /\ active' = [active EXCEPT ![process_num] = TRUE]
      BY <2>1, RunningIsTop, ProcessConstants
      DEF PitSwitch, SetUpLastShell, IInv, TypeOK
    <3> QED
      BY <3>1 DEF IInv, TypeOK
  <2>2. CASE pit_count # PROCESS_NUMBER_PIT
    BY <2>2 DEF PitSwitch, SetUpLastShell
  <2> QED
    BY <2>1, <2>2
<1>4. stack' = stack /\ eax' = eax
  BY <1>3 DEF PitSwitch, stack
<1>5. MappedLaunched = PROCESS_NUMBER_PIT /\ MappedLaunched' = PROCESS_NUMBER_PIT
  BY <1>1, ProcessConstants DEF MappedLaunched, IInv, TypeOK
<1> QED
  BY <1>2, <1>4, <1>5 DEF Promise!Rotate, MappedLaunched

\* The caller is the top of the stack whose turn it is.
LEMMA CallerIsTop ==
    ASSUME Quiet, IInv, InUser
    PROVE  /\ process_num \in stack[schedule_idx]
           /\ Promise!IsTop(process_num, stack[schedule_idx])
<1>1. /\ process_num \in stack[schedule_idx] /\ schedule_idx \in Launched
      /\ schedule_array[schedule_idx] = process_num
  BY CallerFacts
<1>2. \A q \in stack[schedule_idx] : q <= process_num
  BY <1>1 DEF IInv, CallChains
<1> QED
  BY <1>1, <1>2 DEF Promise!IsTop

\* A refused or failed execute is a call that fails.
LEMMA RefusalMaps ==
    ASSUME Quiet, IInv, NEW name \in Commands,
           ExecuteShellLimit(name) \/ ExecuteNoPcb(name) \/ ExecuteNotLoaded(name)
    PROVE  Promise!CallFails
<1>1. InUser
  BY DEF ExecuteShellLimit, ExecuteNoPcb, ExecuteNotLoaded
<1>2. UNCHANGED <<tables, machine, pit_count>>
  BY DEF ExecuteShellLimit, ExecuteNoPcb, ExecuteNotLoaded, counters
<1>3. \E value \in Results : eax' = [to |-> process_num, value |-> value]
  BY <1>1, CallerFacts
  DEF ExecuteShellLimit, ExecuteNoPcb, ExecuteNotLoaded, RefusedValue, Returns, Results
<1>4. stack' = stack /\ schedule_idx' = schedule_idx /\ pit_count' = pit_count
  BY <1>2 DEF stack, tables, machine
<1> QED
  BY <1>1, <1>3, <1>4, CallerIsTop DEF Promise!CallFails, Results

\* A successful execute puts one program, in no stack before, on the caller's.
LEMMA ExecuteMaps ==
    ASSUME Quiet, IInv, NEW name \in Commands, ExecuteStart(name)
    PROVE  Promise!Call
<1> DEFINE t0 == schedule_idx
           caller == process_num
<1>1. /\ InUser /\ pit_count = PROCESS_NUMBER_PIT + 1 /\ Launched = Terminals
      /\ t0 \in Terminals /\ caller \in Pids /\ caller \in stack[t0]
      /\ pcb_terminal[caller] = t0 /\ t0' = t0
  BY CallerFacts DEF ExecuteStart
<1>2. PICK q \in FreePcbs : Started(q, {}, saved)
  <2>1. Start(name \in ShellNamed, {}, saved) /\ TypeOK /\ saved \in [Pids -> Contexts]
    BY DEF ExecuteStart, IInv, TypeOK
  <2>2. (name \in ShellNamed) \in BOOLEAN
    OBVIOUS
  <2> QED
    BY <2>1, <2>2, StartTypes
<1>3. q \in Pids /\ q > caller /\ ~active[q]
  BY <1>2 DEF FreePcbs
<1>4. ~is_base_shell[q] /\ parent_id[q] # NoPid
  BY <1>3, InStack DEF IInv, BaseFlags, CallChains, Launched
<1>5. pcb_terminal' = [pcb_terminal EXCEPT ![q] = t0] /\ pit_count' = pit_count
  <2>1. JoinTerminal(q, caller, is_base_shell[q])
    BY <1>2, <1>4 DEF Started
  <2>2. ~(pit_count < PROCESS_NUMBER_PIT)
    BY <1>1, ProcessConstants
  <2> QED
    BY <1>1, <1>4, <2>1, <2>2 DEF JoinTerminal
<1>6. /\ eax' = eax
      /\ \A p \in Pids : active'[p] <=> p = q \/ active[p]
  BY <1>2 DEF Started
<1>7. stack' = [stack EXCEPT ![t0] = @ \cup {q}]
  <2> DEFINE S == [stack EXCEPT ![t0] = @ \cup {q}]
  <2>1. /\ S = [t \in Terminals |-> S[t]]
        /\ \A t \in Terminals : S[t] = IF t = t0 THEN stack[t] \cup {q} ELSE stack[t]
    BY DEF stack
  <2>2. ASSUME NEW t \in Terminals, NEW p
        PROVE  p \in stack'[t] <=> p \in stack[t] \/ (t = t0 /\ p = q)
    <3>1. p \in stack'[t] <=> p \in Pids /\ active'[p] /\ pcb_terminal'[p] = t
      BY DEF stack
    <3>2. p \in Pids => pcb_terminal'[p] = IF p = q THEN t0 ELSE pcb_terminal[p]
      BY <1>5 DEF IInv, TypeOK
    <3> QED
      BY <1>3, <1>6, <3>1, <3>2, InStack
  <2>3. \A t \in Terminals : \A p : p \in stack'[t] <=> p \in S[t]
    BY <2>1, <2>2
  <2> QED
    BY <2>1, <2>3, SameStacks
<1>8. /\ \A t \in Terminals : q \notin stack[t]
      /\ \A r \in stack[t0] : r < q
  <2>1. \A r \in stack[t0] : r <= caller /\ r \in Pids
    BY <1>1, CallerIsTop, InStack DEF Promise!IsTop
  <2> QED
    BY <1>1, <1>3, <2>1, InStack DEF Pids
<1> QED
  BY <1>1, <1>3, <1>5, <1>6, <1>7, <1>8
  DEF Promise!Call, Promise!Pids, Promise!Terminals, Pids, Terminals

\* A program that halts leaves the top of its stack; the program below it, its
\* caller, receives the status.
LEMMA HaltMaps ==
    ASSUME Quiet, IInv, NEW status \in Statuses, HaltToParent(status)
    PROVE  Promise!Return(status)
<1> DEFINE t0 == schedule_idx
           c == process_num
           caller == parent_id[c]
<1>1. /\ InUser /\ Launched = Terminals
      /\ t0 \in Terminals /\ c \in Pids /\ c \in stack[t0] /\ active[c]
      /\ child = c /\ parent = caller
  BY CallerFacts DEF HaltToParent, child, parent
<1>2. c # t0
  BY <1>1 DEF HaltToParent, IInv, CallChains
<1>3. /\ caller \in stack[t0] /\ caller < c
      /\ \A q \in stack[t0] : q <= caller \/ c <= q
      /\ saved_parents_esp[c] = caller
  BY <1>1, <1>2 DEF IInv, CallChains
<1>4. caller \in Pids /\ active[caller] /\ caller # c
  BY <1>1, <1>3, InStack DEF Pids
<1>5. /\ eax' = [to |-> caller, value |-> status]
      /\ active' = [active EXCEPT ![c] = FALSE, ![caller] = TRUE]
      /\ UNCHANGED <<pit_count, schedule_idx, pcb_terminal>>
  BY <1>1, <1>3 DEF HaltToParent, Returns, ActiveAfterHalt
<1>6. \A p \in Pids : active'[p] <=> active[p] /\ p # c
  BY <1>1, <1>4, <1>5 DEF IInv, TypeOK
<1>7. stack' = [stack EXCEPT ![t0] = @ \ {c}]
  <2> DEFINE S == [stack EXCEPT ![t0] = @ \ {c}]
  <2>1. /\ S = [t \in Terminals |-> S[t]]
        /\ \A t \in Terminals : S[t] = IF t = t0 THEN stack[t] \ {c} ELSE stack[t]
    BY DEF stack
  <2>2. \A t \in Terminals : \A p : p \in stack'[t] <=> p \in stack[t] /\ p # c
    <3>1. \A t \in Terminals : \A p :
            p \in stack'[t] <=> p \in Pids /\ active'[p] /\ pcb_terminal[p] = t
      BY <1>5 DEF stack
    <3> QED
      BY <1>6, <3>1, InStack
  <2>3. \A t \in Terminals : t # t0 => c \notin stack[t]
    BY <1>1, InStack
  <2>4. \A t \in Terminals : \A p : p \in stack'[t] <=> p \in S[t]
    BY <2>1, <2>2, <2>3
  <2> QED
    BY <2>1, <2>4, SameStacks
<1>8. Promise!IsTop(c, stack[t0]) /\ Promise!IsTop(caller, stack[t0] \ {c})
  <2>1. \A q \in stack[t0] : q <= c /\ q \in Pids
    BY <1>1, CallerIsTop, InStack DEF Promise!IsTop
  <2>2. \A q \in stack[t0] \ {c} : q <= caller
    BY <1>1, <1>3, <1>4, <2>1 DEF Pids
  <2> QED
    BY <1>1, <1>3, <1>4, <2>1, <2>2 DEF Promise!IsTop
<1> QED
  BY <1>1, <1>3, <1>4, <1>5, <1>7, <1>8 DEF Promise!Return

\* A base shell that starts again was the bottom of its stack and remains there.
LEMMA RestartMaps ==
    ASSUME Quiet, IInv, NEW status \in Statuses, HaltBaseShell(status)
    PROVE  UNCHANGED Promise!vars
<1>1. /\ pit_count = PROCESS_NUMBER_PIT + 1 /\ child = process_num
      /\ process_num \in Pids /\ active[process_num] = TRUE
  BY CallerFacts DEF HaltBaseShell, child, IInv, TypeOK
<1>2. active' = active
  BY <1>1 DEF HaltBaseShell, IInv, TypeOK
<1>3. pcb_terminal' = pcb_terminal /\ pit_count' = pit_count
  <2>1. JoinTerminal(process_num, NoPid, TRUE)
    BY <1>1 DEF HaltBaseShell
  <2>2. ~(pit_count < PROCESS_NUMBER_PIT)
    BY <1>1, ProcessConstants
  <2> QED
    BY <1>1, <2>1, <2>2 DEF JoinTerminal, IInv, TypeOK
<1>4. stack' = stack /\ schedule_idx' = schedule_idx /\ eax' = eax
  BY <1>2, <1>3 DEF HaltBaseShell, stack
<1> QED
  BY <1>3, <1>4 DEF Promise!vars

\* Every step of the process core is a step of the call stacks or changes nothing
\* that they show; the steps of a halt that the timer may cut do not occur.
LEMMA NextMaps ==
    ASSUME Quiet, IInv, [Next]_vars PROVE [Promise!Next]_(Promise!vars)
<1>1. CASE Pit
  BY <1>1, LaunchMaps, SwitchMaps DEF Pit, Promise!Next
<1>2. ASSUME NEW name \in Commands,
             \/ ExecuteStart(name) \/ ExecuteShellLimit(name)
             \/ ExecuteNoPcb(name) \/ ExecuteNotLoaded(name)
      PROVE  Promise!Next
  BY <1>2, ExecuteMaps, RefusalMaps DEF Promise!Next
<1>3. ASSUME NEW status \in Statuses, HaltToParent(status) PROVE Promise!Next
  BY <1>3, HaltMaps DEF Promise!Next
<1>4. ASSUME NEW status \in Statuses, HaltBaseShell(status) PROVE UNCHANGED Promise!vars
  BY <1>4, RestartMaps
<1>5. CASE (\E status \in Statuses : HaltClosesRtc(status)) \/ HaltStep
  <2>1. cpu.pc \in {"boot", "user"}
    BY ProcessConstants DEF IInv, BootPhase, TypeOK, User
  <2> QED
    BY <1>5, <2>1
    DEF Quiet, HaltClosesRtc, HaltStep, HaltQueue, HaltCurr, HaltDeactivate,
        HaltCurrent, HaltCount, HaltReturn, Halting
<1>6. CASE UNCHANGED vars
  <2>1. UNCHANGED <<pit_count, schedule_idx, eax, active, pcb_terminal>>
    BY <1>6 DEF vars, tables, counters, machine
  <2>2. stack' = stack
    BY <2>1 DEF stack
  <2> QED
    BY <2>1, <2>2 DEF Promise!vars
<1> QED
  BY <1>1, <1>2, <1>3, <1>4, <1>5, <1>6 DEF Next

\* Boot, execute, halt, restart and the switches of the timer implement one call
\* stack per terminal: a program returns to its caller, on its own terminal and
\* with its own status, only the top of a stack runs, and turns go round
\* (system_call.c:73-181, 198-420, scheduling.c:19-110).
THEOREM StacksImplemented == ASSUME Quiet PROVE Spec => Promise!Safe
<1>1. Init => Promise!Init
  BY InitMaps
<1>2. IInv /\ [Next]_vars => [Promise!Next]_(Promise!vars)
  BY NextMaps
<1> QED
  BY <1>1, <1>2, Invariance, PTL DEF Spec, Promise!Safe
=============================================================================
