--------------------------------- MODULE Rtc ---------------------------------
(***************************************************************************)
(* One periodic interrupt, IRQ8 at MAX_FREQUENCY Hz, behind a virtual      *)
(* clock per terminal; and the interrupt controller that carries it,       *)
(* beside the keyboard's IRQ1.                                             *)
(*                                                                         *)
(* Both handlers run under cli() and enable interrupts before they return. *)
(* The RTC's does so before it sends the end of interrupt, the keyboard's  *)
(* after it, and then sends it once more. Behind the sti() the timer may   *)
(* switch to another terminal, and a key may interrupt either handler:     *)
(* IRQ8 is in service until the flow that it interrupted has returned from *)
(* the handlers above its own, perhaps many turns later.                   *)
(***************************************************************************)
EXTENDS Integers, Sequences, FiniteSets

CONSTANTS
    PROCESS_NUMBER_PIT,  \* number of terminals
    MAX_FREQUENCY,       \* interrupts per second
    AskedRates,          \* what programs write to an RTC file
    NESTED               \* bound: with so many handlers cut short, another runs uncut

ASSUME RtcConstants ==
    /\ PROCESS_NUMBER_PIT \in Nat /\ PROCESS_NUMBER_PIT > 1
    /\ MAX_FREQUENCY \in Nat /\ MAX_FREQUENCY > 1
    /\ AskedRates \subseteq Int
    /\ NESTED \in Nat

Terminals == 0 .. PROCESS_NUMBER_PIT - 1

KEYBOARD_IRQ_NUM == 1
RTC_PIC_PIN == 8
Irqs == {KEYBOARD_IRQ_NUM, RTC_PIC_PIN}

\* A count is only compared with thresholds, none of which is above COUNTS, so
\* the model stops counting there.
COUNTS == MAX_FREQUENCY \div PROCESS_NUMBER_PIT
UpTo(bound, n) == IF n < bound THEN n ELSE bound

VARIABLES
    schedule_idx,     \* terminal whose turn it is
    rtc_idx,          \* terminal whose count the next interrupt increments
    interrupt_count,
    interrupt_flag,   \* TRUE: the program has had its last interrupt
    desired_virtualized_frequency,
    reading,          \* flows in the loop of rtc_read
    in_service,       \* IRQs that the controller has not seen the end of
    handlers,         \* IRQs whose handlers a flow is in, the innermost first
    since             \* interrupts since the count of a terminal was zero

clocks == <<rtc_idx, interrupt_count, interrupt_flag, desired_virtualized_frequency, since>>
controller == <<in_service, handlers>>
vars == <<schedule_idx, reading, clocks, controller>>

TypeOK ==
    /\ schedule_idx \in Terminals
    /\ rtc_idx \in Terminals
    /\ interrupt_count \in [Terminals -> 0 .. COUNTS]
    /\ interrupt_flag \in [Terminals -> BOOLEAN]
    /\ desired_virtualized_frequency \in [Terminals -> 1 .. MAX_FREQUENCY]
    /\ reading \in [Terminals -> BOOLEAN]
    /\ in_service \in SUBSET Irqs
    /\ handlers \in [Terminals -> Seq(Irqs)]
    /\ since \in [Terminals -> 0 .. PROCESS_NUMBER_PIT * COUNTS]

\* The shells run; the RTC's handler was not cut off when the first of them was launched.
Init ==
    /\ schedule_idx = 0
    /\ rtc_idx = 0
    /\ interrupt_count = [t \in Terminals |-> 0]
    /\ interrupt_flag = [t \in Terminals |-> TRUE]
    /\ desired_virtualized_frequency = [t \in Terminals |-> 2]
    /\ reading = [t \in Terminals |-> FALSE]
    /\ in_service = {}
    /\ handlers = [t \in Terminals |-> <<>>]
    /\ since = [t \in Terminals |-> 0]

-----------------------------------------------------------------------------
(* Interrupts: they find the flow that runs with interrupts enabled. *)

\* Fault: every interrupt counts for the terminal whose turn it is.
Counted_Scheduled == schedule_idx
Counted == rtc_idx

Threshold(t) == MAX_FREQUENCY \div (desired_virtualized_frequency[t] * PROCESS_NUMBER_PIT)

\* Fault: a count that went past the threshold during the other turns is missed.
Elapsed_Exactly(count, t) == count = Threshold(t)
Elapsed(count, t) == count >= Threshold(t)

\* As i8259_init leaves it, the controller delivers an IRQ when none of its priority
\* or above is in service. IRQ8 comes through IRQ2, and so below the keyboard's.
Delivered(irq) == \A other \in in_service : irq < other

\* Fault: only the slave hears of the end of IRQ8, the master keeps its IRQ2.
InServiceAfter_SlaveOnly(served, irq) == IF irq = RTC_PIC_PIN THEN served ELSE served \ {irq}
\* Fault: an end of interrupt that names no IRQ ends the one of highest priority.
InServiceAfter_Unspecific(served, irq) == {i \in served : \E other \in served : other < i}
\* The end of interrupt names its IRQ; one that is not in service changes nothing.
InServiceAfter(served, irq) == served \ {irq}

\* Where a handler has yet to return: the flow and the place on its stack.
Unfinished == {h \in Terminals \X (1 .. NESTED) : h[2] <= Len(handlers[h[1]])}

\* The flow that runs is now in the handler of irq, behind its sti(), with served
\* in service; or, at the bound, already back from it.
Enter(irq, served) ==
    IF Cardinality(Unfinished) < NESTED
    THEN /\ in_service' = served
         /\ handlers' = [handlers EXCEPT ![schedule_idx] = <<irq>> \o @]
    ELSE /\ in_service' = InServiceAfter(served, irq)
         /\ handlers' = handlers

\* The counts go round the terminals whoever runs, but only the terminal whose
\* turn it is has its count compared.
RtcInterrupt ==
    /\ Delivered(RTC_PIC_PIN)
    /\ LET count == [interrupt_count EXCEPT ![Counted] = UpTo(COUNTS, @ + 1)]
           elapsed == Elapsed(count[schedule_idx], schedule_idx)
       IN /\ interrupt_count' = [count EXCEPT ![schedule_idx] = IF elapsed THEN 0 ELSE @]
          /\ interrupt_flag' = [interrupt_flag EXCEPT ![schedule_idx] = @ /\ ~elapsed]
          /\ since' = [t \in Terminals |->
                IF t = schedule_idx /\ elapsed THEN 0
                ELSE UpTo(PROCESS_NUMBER_PIT * COUNTS, since[t] + 1)]
    /\ rtc_idx' = IF rtc_idx < PROCESS_NUMBER_PIT - 1 THEN rtc_idx + 1 ELSE 0
    /\ Enter(RTC_PIC_PIN, in_service \cup {RTC_PIC_PIN})
    /\ UNCHANGED <<schedule_idx, reading, desired_virtualized_frequency>>

\* keyboard_handler sends its end of interrupt under cli(), whatever the key.
KeyboardInterrupt ==
    /\ Delivered(KEYBOARD_IRQ_NUM)
    /\ Enter(KEYBOARD_IRQ_NUM,
             InServiceAfter(in_service \cup {KEYBOARD_IRQ_NUM}, KEYBOARD_IRQ_NUM))
    /\ UNCHANGED <<schedule_idx, reading, clocks>>

\* The innermost handler sends its end of interrupt, the keyboard's for the
\* second time, and returns. A tick between the two halves of that for IRQ8
\* finds it blocked by the master still, so they are one step.
SendEoi ==
    /\ handlers[schedule_idx] # <<>>
    /\ in_service' = InServiceAfter(in_service, Head(handlers[schedule_idx]))
    /\ handlers' = [handlers EXCEPT ![schedule_idx] = Tail(@)]
    /\ UNCHANGED <<schedule_idx, reading, clocks>>

Pit ==
    /\ schedule_idx' = (schedule_idx + 1) % PROCESS_NUMBER_PIT
    /\ UNCHANGED <<reading, clocks, controller>>

-----------------------------------------------------------------------------
(* Programs *)

\* The program of terminal t executes, outside the handlers.
Runs(t) == t = schedule_idx /\ handlers[t] = <<>>

\* The virtual clock is reset before it is known whether the file can be opened.
Open(t) ==
    /\ Runs(t) /\ ~reading[t]
    /\ desired_virtualized_frequency' = [desired_virtualized_frequency EXCEPT ![t] = 2]
    /\ interrupt_count' = [interrupt_count EXCEPT ![t] = 0]
    /\ interrupt_flag' = [interrupt_flag EXCEPT ![t] = TRUE]
    /\ since' = [since EXCEPT ![t] = 0]
    /\ UNCHANGED <<schedule_idx, reading, rtc_idx, controller>>

\* Fault: zero passes for a power of two.
ValidRate_Zero(rate) == rate <= MAX_FREQUENCY /\ (rate = 0 \/ \E k \in 0 .. rate - 1 : rate = 2 ^ k)
ValidRate(rate) == rate <= MAX_FREQUENCY /\ \E k \in 0 .. rate - 1 : rate = 2 ^ k

\* A write of anything else fails and changes nothing.
Write(t, rate) ==
    /\ Runs(t) /\ ~reading[t]
    /\ ValidRate(rate)
    /\ desired_virtualized_frequency' = [desired_virtualized_frequency EXCEPT ![t] = rate]
    /\ UNCHANGED <<schedule_idx, reading, rtc_idx, interrupt_count, interrupt_flag, since,
                   controller>>

\* The loop of rtc_read lets interrupts in between two looks at the flag.
ReadStarts(t) ==
    /\ Runs(t) /\ ~reading[t]
    /\ reading' = [reading EXCEPT ![t] = TRUE]
    /\ UNCHANGED <<schedule_idx, clocks, controller>>

ReadReturns(t) ==
    /\ Runs(t) /\ reading[t]
    /\ ~interrupt_flag[t]
    /\ interrupt_flag' = [interrupt_flag EXCEPT ![t] = TRUE]
    /\ reading' = [reading EXCEPT ![t] = FALSE]
    /\ UNCHANGED <<schedule_idx, rtc_idx, interrupt_count, desired_virtualized_frequency, since,
                   controller>>

-----------------------------------------------------------------------------

Next ==
    \/ RtcInterrupt
    \/ KeyboardInterrupt
    \/ SendEoi
    \/ Pit
    \/ \E t \in Terminals : \/ Open(t)
                            \/ \E rate \in AskedRates : Write(t, rate)
                            \/ ReadStarts(t)
                            \/ ReadReturns(t)

Spec == Init /\ [][Next]_vars

\* What the loop of rtc_read waits for in a turn of terminal t.
Awaited(t) == schedule_idx = t /\ IF interrupt_flag[t] THEN RtcInterrupt ELSE ReadReturns(t)

\* A turn is 56.24 periods of the RTC, so each has time for interrupts and for
\* what the program was about to do, and the timer does not hit the last
\* microseconds of a handler at the end of every turn: the two drift. Keys are
\* thousands of times slower than handlers: one that comes to run again and
\* again, after those that interrupted it, returns.
FairSpec ==
    /\ Spec
    /\ WF_vars(Pit)
    /\ SF_vars(Delivered(RTC_PIC_PIN) /\ Pit)
    /\ \A t \in Terminals :
         /\ \A depth \in 1 .. NESTED :
              SF_vars(schedule_idx = t /\ Len(handlers[t]) = depth /\ SendEoi)
         /\ SF_vars(Awaited(t))
-----------------------------------------------------------------------------
(* Properties *)

\* The k-th handler on the stack of terminal t is that of the RTC.
InRtcHandler(t, k) == handlers[t][k] = RTC_PIC_PIN

\* However the timer cuts the handlers and however keys nest in them, IRQ8 is in
\* service exactly while one handler of it has yet to return, on one flow, and
\* the keyboard's never is: its second end of interrupt, which comes with
\* interrupts enabled and perhaps inside a handler of IRQ8, ends nothing.
EoiEndsItsOwn ==
    /\ KEYBOARD_IRQ_NUM \notin in_service
    /\ RTC_PIC_PIN \in in_service
         <=> \E t \in Terminals : \E k \in DOMAIN handlers[t] : InRtcHandler(t, k)
    /\ \A t, u \in Terminals : \A k \in DOMAIN handlers[t], m \in DOMAIN handlers[u] :
         InRtcHandler(t, k) /\ InRtcHandler(u, m) => t = u /\ k = m

\* A virtual clock runs at the rate of its program up to one round of the
\* counts, although its count advances on every third interrupt only, is
\* compared during its own turns only and the rate may change on the way: it
\* never wakes its reader early, nor lets an interrupt of its turn pass late.
WakesFollowRateStep ==
    \A t \in Terminals :
        LET period == PROCESS_NUMBER_PIT * Threshold(t)
        IN /\ interrupt_flag[t] /\ ~interrupt_flag'[t]
                => since[t] + 1 > period - PROCESS_NUMBER_PIT
           /\ rtc_idx' # rtc_idx /\ t = schedule_idx
                => since'[t] = 0 \/ since'[t] < period
WakesFollowRate == [][WakesFollowRateStep]_vars

\* Every read ends, although its terminal's interrupts may come in the turns of
\* others and may be blocked by a handler that the timer cut.
ReadsEnd == \A t \in Terminals : reading[t] ~> ~reading[t]

\* No IRQ stays blocked by the handlers that the timer and the keys cut.
IrqsComeBack == []<>(in_service = {})
=============================================================================
