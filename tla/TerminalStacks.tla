--------------------------- MODULE TerminalStacks ---------------------------
(***************************************************************************)
(* What the process core promises, without PCBs, stacks or page tables:    *)
(* each terminal runs one stack of programs. A program that calls another  *)
(* waits until that one ends and then receives its exit status; the bottom *)
(* program of a terminal, its shell, never ends; and the terminals take    *)
(* turns on the processor.                                                 *)
(*                                                                         *)
(* Pids of a stack increase from bottom to top, so a set stands for it.    *)
(***************************************************************************)
EXTENDS Integers

CONSTANTS
    PROCESS_NUMBER_PIT,  \* number of terminals
    MAX_PCB,             \* largest pid
    Statuses             \* exit statuses

Terminals == 0 .. PROCESS_NUMBER_PIT - 1
Pids == 0 .. MAX_PCB

VARIABLES
    launched,  \* terminals with a shell
    stack,     \* programs of each terminal
    turn,      \* terminal whose top program runs
    result     \* last value that a call returned, and the program it went to

vars == <<launched, stack, turn, result>>

IsTop(p, S) == p \in S /\ \A q \in S : q <= p

Init ==
    /\ launched = 0
    /\ stack = [t \in Terminals |-> {}]
    /\ turn = 0
    /\ result = [to |-> -1, value |-> 0]

\* The timer starts the shell of one terminal after the other.
Launch ==
    /\ launched < PROCESS_NUMBER_PIT
    /\ stack' = [stack EXCEPT ![launched] = {launched}]
    /\ turn' = launched
    /\ launched' = launched + 1
    /\ UNCHANGED result

\* The running program calls a new one.
Call ==
    \E p \in Pids :
        /\ \A t \in Terminals : p \notin stack[t]
        /\ stack[turn] # {} /\ \A q \in stack[turn] : q < p
        /\ stack' = [stack EXCEPT ![turn] = @ \cup {p}]
        /\ UNCHANGED <<launched, turn, result>>

\* The call fails, by a limit with any value, else with -1.
CallFails ==
    \E p \in stack[turn], value \in Statuses \cup {-1} :
        /\ IsTop(p, stack[turn])
        /\ result' = [to |-> p, value |-> value]
        /\ UNCHANGED <<launched, stack, turn>>

\* The running program ends: the one below it continues with its status.
Return(status) ==
    \E p, caller \in stack[turn] :
        /\ IsTop(p, stack[turn])
        /\ caller # p /\ IsTop(caller, stack[turn] \ {p})
        /\ stack' = [stack EXCEPT ![turn] = @ \ {p}]
        /\ result' = [to |-> caller, value |-> status]
        /\ UNCHANGED <<launched, turn>>

\* The turn passes on, once every terminal has its shell.
Rotate ==
    /\ launched = PROCESS_NUMBER_PIT
    /\ turn' = (turn + 1) % PROCESS_NUMBER_PIT
    /\ UNCHANGED <<launched, stack, result>>

Next ==
    \/ Launch
    \/ Call
    \/ CallFails
    \/ \E status \in Statuses : Return(status)
    \/ Rotate

\* What may happen, and what must.
Safe == Init /\ [][Next]_vars
Spec == Safe /\ WF_vars(Launch) /\ WF_vars(Rotate)
=============================================================================
