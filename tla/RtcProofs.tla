------------------------------ MODULE RtcProofs ------------------------------
(***************************************************************************)
(* Theorems about Rtc: types, the bookkeeping of the interrupt controller, *)
(* and the rate of the virtual clocks.                                     *)
(***************************************************************************)
EXTENDS Rtc, TLAPS

N == PROCESS_NUMBER_PIT

\* There are at least two terminals, and a highest rate above one.
LEMMA ConstantTypes ==
    /\ N \in Nat /\ N > 1 /\ MAX_FREQUENCY \in Nat /\ MAX_FREQUENCY > 1
    /\ COUNTS \in Nat
    /\ N * COUNTS \in Nat
<1>1. N \in Nat /\ N > 1 /\ MAX_FREQUENCY \in Nat /\ MAX_FREQUENCY > 1
  BY RtcConstants DEF N
<1>2. COUNTS \in Nat
  BY <1>1 DEF COUNTS, N
<1> QED
  BY <1>1, <1>2

\* The threshold of a rate that programs can set is a number.
LEMMA ThresholdType ==
    ASSUME NEW f \in 1 .. MAX_FREQUENCY
    PROVE  MAX_FREQUENCY \div (f * N) \in Int
<1>1. f * N \in Nat /\ f * N > 0
  BY ConstantTypes
<1> QED
  BY <1>1, ConstantTypes

-----------------------------------------------------------------------------
(* Arithmetic of the rotation *)

\* A count n and the s interrupts in which it was counted go together, when the
\* last interrupt that was counted is age interrupts old.
InStep(n, s, age) ==
    /\ s <= N * n + age
    /\ n > 0 => s > N * (n - 1) + age

\* Multiplication by the number of terminals, for provers without products.
LEMMA Times ==
    ASSUME NEW a \in Int, NEW b \in Int, a <= b
    PROVE  N * a <= N * b /\ N * (a + 1) = N * a + N /\ N * (a - 1) = N * a - N
<1>1. N * (b - a) >= 0
  BY ConstantTypes
<1>2. N * (b - a) = N * b - N * a
  BY ConstantTypes
<1> QED
  BY <1>1, <1>2, ConstantTypes

\* The count of another terminal is incremented.
LEMMA AdvanceOther ==
    ASSUME NEW n \in 0 .. COUNTS, NEW s \in 0 .. N * COUNTS, NEW age \in 0 .. N - 2,
           InStep(n, s, age)
    PROVE  InStep(n, UpTo(N * COUNTS, s + 1), age + 1)
<1>1. n > 0 => N * (n - 1) + age + 1 < N * COUNTS
  <2>1. N * n <= N * COUNTS /\ N * (n - 1) = N * n - N
    BY Times, ConstantTypes
  <2> QED
    BY <2>1, ConstantTypes
<1>2. N * n \in Int /\ N * (n - 1) \in Int
  BY ConstantTypes
<1> DEFINE whole == N * n
           before == N * (n - 1)
           bound == N * COUNTS
<1>3. /\ s <= whole + age /\ (n > 0 => s > before + age)
      /\ n > 0 => before + age + 1 < bound
      /\ whole \in Int /\ before \in Int /\ bound \in Nat
  BY <1>1, <1>2, ConstantTypes DEF InStep
<1> SUFFICES /\ UpTo(bound, s + 1) <= whole + age + 1
             /\ n > 0 => UpTo(bound, s + 1) > before + age + 1
  BY ConstantTypes, <1>2 DEF InStep
<1> HIDE DEF whole, before, bound
<1> QED
  BY <1>3, ConstantTypes DEF UpTo

\* The terminal's own count is incremented; the last one was N interrupts ago.
LEMMA AdvanceOwn ==
    ASSUME NEW n \in 0 .. COUNTS, NEW s \in 0 .. N * COUNTS, InStep(n, s, N - 1)
    PROVE  InStep(UpTo(COUNTS, n + 1), UpTo(N * COUNTS, s + 1), 0)
<1>1. CASE n < COUNTS
  <2> DEFINE whole == N * n
             bound == N * COUNTS
  <2>1. UpTo(COUNTS, n + 1) = n + 1
    BY <1>1, ConstantTypes DEF UpTo
  <2>2. /\ N * (n + 1) = whole + N /\ N * (n - 1) = whole - N
        /\ whole + N <= bound /\ whole >= 0 /\ whole \in Int /\ bound \in Nat
    <3>1. N * (n + 1) <= N * COUNTS
      BY <1>1, Times, ConstantTypes
    <3> QED
      BY <3>1, Times, ConstantTypes
  <2>3. s <= whole + N - 1 /\ (n > 0 => s > whole - N + N - 1)
    BY <2>2, ConstantTypes DEF InStep
  <2>4. n = 0 => whole = 0
    BY ConstantTypes
  <2> HIDE DEF whole, bound
  <2>5. UpTo(bound, s + 1) <= whole + N /\ UpTo(bound, s + 1) > whole
    BY <2>2, <2>3, <2>4, ConstantTypes DEF UpTo
  <2>6. UpTo(bound, s + 1) <= N * (n + 1) + 0 /\ UpTo(bound, s + 1) > N * n + 0
    <3>1. UpTo(bound, s + 1) \in Int
      BY <2>2 DEF UpTo
    <3> QED
      BY <2>2, <2>5, <3>1, ConstantTypes DEF whole
  <2>7. n + 1 - 1 = n
    OBVIOUS
  <2> QED
    BY <2>1, <2>6, <2>7 DEF InStep, bound
<1>2. CASE n = COUNTS
  <2> DEFINE bound == N * COUNTS
  <2>1. UpTo(COUNTS, n + 1) = COUNTS
    BY <1>2, ConstantTypes DEF UpTo
  <2>2. N * (COUNTS - 1) = bound - N /\ bound \in Nat
    BY Times, ConstantTypes
  <2>3. COUNTS > 0 => s > bound - N + N - 1
    BY <1>2, <2>2, ConstantTypes DEF InStep
  <2> SUFFICES /\ UpTo(bound, s + 1) <= bound
               /\ COUNTS > 0 => UpTo(bound, s + 1) > bound - N
    BY <2>1, <2>2, ConstantTypes DEF InStep
  <2> HIDE DEF bound
  <2> QED
    BY <2>2, <2>3, ConstantTypes DEF UpTo
<1> QED
  BY <1>1, <1>2, ConstantTypes

\* A count that has reached threshold took all but the last round of it.
LEMMA ReachedInTime ==
    ASSUME NEW n \in Nat, NEW s \in Int, NEW threshold \in Int, NEW age \in 0 .. N - 1,
           InStep(n, s, age), threshold <= n, s >= 0
    PROVE  s > N * threshold - N
<1>1. N * threshold <= N * n /\ N * (n - 1) = N * n - N /\ N * n \in Int /\ N * threshold \in Int
  BY Times, ConstantTypes
<1>2. n = 0 => N * n = 0
  BY ConstantTypes
<1> DEFINE whole == N * n
           period == N * threshold
<1>3. period <= whole /\ whole \in Int /\ period \in Int /\ (n = 0 => whole = 0)
      /\ (n > 0 => s > whole - N + age)
  BY <1>1, <1>2 DEF InStep
<1> HIDE DEF whole, period
<1>4. s > period - N
  BY <1>3, ConstantTypes
<1> QED
  BY <1>4 DEF period

\* A count below threshold has not taken longer than its rounds.
LEMMA NotReachedYet ==
    ASSUME NEW n \in Nat, NEW s \in Int, NEW threshold \in Int, NEW age \in 0 .. N - 1,
           InStep(n, s, age), n < threshold
    PROVE  s < N * threshold
<1>1. N * (n + 1) <= N * threshold /\ N * (n + 1) = N * n + N /\ N * n \in Int
      /\ N * threshold \in Int
  BY Times, ConstantTypes
<1> DEFINE whole == N * n
           period == N * threshold
<1>2. whole + N <= period /\ whole \in Int /\ period \in Int /\ s <= whole + age
  BY <1>1 DEF InStep
<1> HIDE DEF whole, period
<1>3. s < period
  BY <1>2, ConstantTypes
<1> QED
  BY <1>3 DEF period

-----------------------------------------------------------------------------
(* The invariants *)

\* Interrupts since the one that counted for terminal t.
Age(t) == IF rtc_idx > t THEN rtc_idx - t - 1 ELSE rtc_idx - t - 1 + N

CountsInStep == \A t \in Terminals : InStep(interrupt_count[t], since[t], Age(t))

\* One step of a clock that does not end a period.
Advanced(t) ==
    /\ InStep(IF t = rtc_idx THEN UpTo(COUNTS, interrupt_count[t] + 1) ELSE interrupt_count[t],
              UpTo(N * COUNTS, since[t] + 1), Age(t)')
    /\ UpTo(N * COUNTS, since[t] + 1) \in 0 .. since[t] + 1
    /\ Age(t)' \in 0 .. N - 1

\* One RTC interrupt advances the time of every clock and the count of one.
LEMMA EveryClockAdvances ==
    ASSUME TypeOK, CountsInStep, RtcInterrupt, NEW t \in Terminals
    PROVE  Advanced(t)
<1>1. rtc_idx \in 0 .. N - 1 /\ t \in 0 .. N - 1
  BY DEF TypeOK, Terminals, N
<1>2. interrupt_count[t] \in 0 .. COUNTS /\ since[t] \in 0 .. N * COUNTS
  BY DEF TypeOK, N
<1>3. rtc_idx' = IF rtc_idx < N - 1 THEN rtc_idx + 1 ELSE 0
  BY DEF RtcInterrupt, N
<1>4. InStep(interrupt_count[t], since[t], Age(t))
  BY DEF CountsInStep
<1>5. UpTo(N * COUNTS, since[t] + 1) \in 0 .. since[t] + 1
  BY <1>2, ConstantTypes DEF UpTo
<1>6. CASE t = rtc_idx
  <2>1. Age(t) = N - 1 /\ Age(t)' = 0
    BY <1>1, <1>3, <1>6, ConstantTypes DEF Age
  <2>2. InStep(UpTo(COUNTS, interrupt_count[t] + 1), UpTo(N * COUNTS, since[t] + 1), 0)
    BY <1>2, <1>4, <2>1, AdvanceOwn
  <2> QED
    BY <1>5, <1>6, <2>1, <2>2, ConstantTypes DEF Advanced
<1>7. CASE t # rtc_idx
  <2>1. Age(t) \in 0 .. N - 2 /\ Age(t)' = Age(t) + 1
    BY <1>1, <1>3, <1>7, ConstantTypes DEF Age
  <2>2. InStep(interrupt_count[t], UpTo(N * COUNTS, since[t] + 1), Age(t) + 1)
    BY <1>2, <1>4, <2>1, AdvanceOther
  <2>3. Age(t)' \in 0 .. N - 1
    BY <2>1, ConstantTypes
  <2> QED
    BY <1>5, <1>7, <2>1, <2>2, <2>3 DEF Advanced
<1> QED
  BY <1>6, <1>7

\* What an interrupt does to the clock of terminal t.
LEMMA InterruptEffect ==
    ASSUME TypeOK, RtcInterrupt, NEW t \in Terminals
    PROVE  LET count == IF t = rtc_idx THEN UpTo(COUNTS, interrupt_count[t] + 1)
                        ELSE interrupt_count[t]
               elapsed == t = schedule_idx /\ count >= Threshold(t)
           IN /\ count \in 0 .. COUNTS
              /\ interrupt_count'[t] = IF elapsed THEN 0 ELSE count
              /\ interrupt_flag'[t] = (interrupt_flag[t] /\ ~elapsed)
              /\ since'[t] = IF elapsed THEN 0 ELSE UpTo(N * COUNTS, since[t] + 1)
<1> DEFINE counts == [interrupt_count EXCEPT ![rtc_idx] = UpTo(COUNTS, @ + 1)]
           over == counts[schedule_idx] >= Threshold(schedule_idx)
<1>1. rtc_idx \in Terminals /\ schedule_idx \in Terminals
      /\ interrupt_count \in [Terminals -> 0 .. COUNTS]
      /\ interrupt_flag \in [Terminals -> BOOLEAN]
  BY DEF TypeOK
<1>2. UpTo(COUNTS, interrupt_count[rtc_idx] + 1) \in 0 .. COUNTS
  BY <1>1, ConstantTypes DEF UpTo
<1>3. counts[t] = (IF t = rtc_idx THEN UpTo(COUNTS, interrupt_count[t] + 1)
                   ELSE interrupt_count[t])
      /\ counts[t] \in 0 .. COUNTS
  BY <1>1, <1>2
<1>4. counts \in [Terminals -> 0 .. COUNTS]
  BY <1>1, <1>2
<1>5. /\ interrupt_count' = [counts EXCEPT ![schedule_idx] = IF over THEN 0 ELSE @]
      /\ interrupt_flag' = [interrupt_flag EXCEPT ![schedule_idx] = @ /\ ~over]
      /\ since' = [u \in Terminals |->
                     IF u = schedule_idx /\ over THEN 0 ELSE UpTo(N * COUNTS, since[u] + 1)]
  BY DEF RtcInterrupt, Counted, Elapsed, N
<1> HIDE DEF counts
<1>6. /\ interrupt_count'[t] = IF t = schedule_idx /\ over THEN 0 ELSE counts[t]
      /\ since'[t] = IF t = schedule_idx /\ over THEN 0 ELSE UpTo(N * COUNTS, since[t] + 1)
  BY <1>1, <1>4, <1>5
<1>7. interrupt_flag'[t] = (interrupt_flag[t] /\ ~(t = schedule_idx /\ over))
  BY <1>1, <1>5
<1> QED
  BY <1>3, <1>6, <1>7

\* The state after rtc_init satisfies the invariants.
LEMMA InitInvariants == Init => TypeOK /\ CountsInStep /\ EoiEndsItsOwn
<1> SUFFICES ASSUME Init PROVE TypeOK /\ CountsInStep /\ EoiEndsItsOwn
  OBVIOUS
<1>1. 0 \in Terminals /\ 2 \in 1 .. MAX_FREQUENCY /\ 0 \in 0 .. COUNTS
      /\ 0 \in 0 .. PROCESS_NUMBER_PIT * COUNTS
  BY ConstantTypes DEF Terminals, N
<1>2. TypeOK
  BY <1>1 DEF Init, TypeOK
<1>3. ASSUME NEW t \in Terminals PROVE InStep(interrupt_count[t], since[t], Age(t))
  <2>1. interrupt_count[t] = 0 /\ since[t] = 0 /\ Age(t) >= 0
    BY ConstantTypes DEF Init, Age, Terminals, N
  <2>2. Age(t) \in Int
    BY ConstantTypes DEF Init, Age, Terminals, N
  <2> QED
    BY <2>1, <2>2, ConstantTypes DEF InStep
<1>4. EoiEndsItsOwn
  BY DEF Init, EoiEndsItsOwn
<1> QED
  BY <1>2, <1>3, <1>4 DEF CountsInStep

\* A stack of handlers with one more on top, or one less.
LEMMA PushAndPop ==
    ASSUME NEW stack \in Seq(Irqs), NEW irq \in Irqs
    PROVE  /\ <<irq>> \o stack \in Seq(Irqs)
           /\ Len(<<irq>> \o stack) = Len(stack) + 1
           /\ (<<irq>> \o stack)[1] = irq
           /\ \A k \in 2 .. Len(stack) + 1 : (<<irq>> \o stack)[k] = stack[k - 1]
           /\ stack # <<>> =>
                /\ Head(stack) = stack[1] /\ Head(stack) \in Irqs
                /\ Len(stack) >= 1
                /\ Tail(stack) \in Seq(Irqs)
                /\ Len(Tail(stack)) = Len(stack) - 1
                /\ \A k \in 1 .. Len(stack) - 1 : Tail(stack)[k] = stack[k + 1]
OBVIOUS

\* No interrupt and no RTC call leaves the tables.
LEMMA NextTypes == TypeOK /\ [Next]_vars => TypeOK'
<1> SUFFICES ASSUME TypeOK, [Next]_vars PROVE TypeOK'
  OBVIOUS
<1>1. ASSUME NEW irq \in Irqs, NEW served \in SUBSET Irqs, Enter(irq, served)
      PROVE  in_service' \in SUBSET Irqs /\ handlers' \in [Terminals -> Seq(Irqs)]
  <2>1. handlers[schedule_idx] \in Seq(Irqs)
    BY DEF TypeOK
  <2>2. <<irq>> \o handlers[schedule_idx] \in Seq(Irqs)
    BY <2>1, PushAndPop
  <2> QED
    BY <1>1, <2>2 DEF Enter, InServiceAfter, TypeOK
<1>2. CASE RtcInterrupt
  <2>1. rtc_idx' \in Terminals
    BY <1>2, ConstantTypes DEF RtcInterrupt, TypeOK, Terminals, N
  <2>2. in_service' \in SUBSET Irqs /\ handlers' \in [Terminals -> Seq(Irqs)]
    <3>1. RTC_PIC_PIN \in Irqs /\ in_service \cup {RTC_PIC_PIN} \in SUBSET Irqs
      BY DEF Irqs, TypeOK
    <3> QED
      BY <1>1, <1>2, <3>1 DEF RtcInterrupt
  <2>3. interrupt_count' \in [Terminals -> 0 .. COUNTS]
    <3>1. UpTo(COUNTS, interrupt_count[rtc_idx] + 1) \in 0 .. COUNTS
      BY ConstantTypes DEF UpTo, TypeOK
    <3> DEFINE counts == [interrupt_count EXCEPT ![rtc_idx] = UpTo(COUNTS, @ + 1)]
    <3>2. counts \in [Terminals -> 0 .. COUNTS] /\ 0 \in 0 .. COUNTS
      BY <3>1, ConstantTypes DEF TypeOK
    <3>3. interrupt_count' = [counts EXCEPT ![schedule_idx] =
            IF Elapsed(counts[schedule_idx], schedule_idx) THEN 0 ELSE @]
      BY <1>2 DEF RtcInterrupt, Counted
    <3> HIDE DEF counts
    <3> QED
      BY <3>2, <3>3
  <2>4. interrupt_flag' \in [Terminals -> BOOLEAN]
    BY <1>2 DEF RtcInterrupt, TypeOK
  <2>5. since' \in [Terminals -> 0 .. PROCESS_NUMBER_PIT * COUNTS]
    <3>1. \A t \in Terminals : UpTo(PROCESS_NUMBER_PIT * COUNTS, since[t] + 1)
                                 \in 0 .. PROCESS_NUMBER_PIT * COUNTS
      BY ConstantTypes DEF UpTo, TypeOK, N
    <3> QED
      BY <1>2, <3>1, ConstantTypes DEF RtcInterrupt, N
  <2> QED
    BY <1>2, <2>1, <2>2, <2>3, <2>4, <2>5 DEF RtcInterrupt, TypeOK
<1>3. CASE KeyboardInterrupt
  <2>1. /\ KEYBOARD_IRQ_NUM \in Irqs
        /\ InServiceAfter(in_service \cup {KEYBOARD_IRQ_NUM}, KEYBOARD_IRQ_NUM) \in SUBSET Irqs
    BY DEF Irqs, TypeOK, InServiceAfter
  <2>2. in_service' \in SUBSET Irqs /\ handlers' \in [Terminals -> Seq(Irqs)]
    BY <1>1, <1>3, <2>1 DEF KeyboardInterrupt
  <2> QED
    BY <1>3, <2>2 DEF KeyboardInterrupt, TypeOK, clocks
<1>4. CASE SendEoi
  <2>1. handlers[schedule_idx] \in Seq(Irqs) /\ handlers[schedule_idx] # <<>>
    BY <1>4 DEF SendEoi, TypeOK
  <2>2. Tail(handlers[schedule_idx]) \in Seq(Irqs)
    BY <2>1
  <2> QED
    BY <1>4, <2>2 DEF SendEoi, InServiceAfter, TypeOK, clocks
<1>5. CASE Pit
  <2>1. schedule_idx' \in Terminals
    BY <1>5, ConstantTypes DEF Pit, TypeOK, Terminals, N
  <2> QED
    BY <1>5, <2>1 DEF Pit, TypeOK, clocks, controller
<1>6. ASSUME NEW t \in Terminals, Open(t) PROVE TypeOK'
  <2>1. 2 \in 1 .. MAX_FREQUENCY /\ 0 \in 0 .. COUNTS /\ 0 \in 0 .. PROCESS_NUMBER_PIT * COUNTS
    BY ConstantTypes DEF N
  <2> QED
    BY <1>6, <2>1 DEF Open, TypeOK, controller
<1>7. ASSUME NEW t \in Terminals, NEW rate \in AskedRates, Write(t, rate) PROVE TypeOK'
  <2>1. rate \in 1 .. MAX_FREQUENCY
    BY <1>7, RtcConstants DEF Write, ValidRate
  <2> QED
    BY <1>7, <2>1 DEF Write, TypeOK, controller
<1>8. ASSUME NEW t \in Terminals, ReadStarts(t) \/ ReadReturns(t) PROVE TypeOK'
  BY <1>8 DEF ReadStarts, ReadReturns, TypeOK, clocks, controller
<1>9. CASE UNCHANGED vars
  BY <1>9 DEF vars, clocks, controller, TypeOK
<1> QED
  BY <1>2, <1>3, <1>4, <1>5, <1>6, <1>7, <1>8, <1>9 DEF Next

\* No table of the interrupt controller or of the clocks is left, no rate is
\* zero: the division of the handler is defined.
THEOREM RtcTypes == Spec => []TypeOK
BY InitInvariants, NextTypes, PTL DEF Spec

-----------------------------------------------------------------------------
(* The interrupt controller *)

\* The k-th handler of flow t is one of the RTC.
RtcAt(t, k) == k \in 1 .. Len(handlers[t]) /\ handlers[t][k] = RTC_PIC_PIN

\* EoiEndsItsOwn, with the places on the stacks taken from all numbers.
Owed ==
    /\ KEYBOARD_IRQ_NUM \notin in_service
    /\ RTC_PIC_PIN \in in_service <=> \E t \in Terminals, k \in Int : RtcAt(t, k)
    /\ \A t, u \in Terminals, k, m \in Int : RtcAt(t, k) /\ RtcAt(u, m) => t = u /\ k = m

LEMMA OwedIsEoiEndsItsOwn == TypeOK => (Owed <=> EoiEndsItsOwn)
<1> SUFFICES ASSUME TypeOK PROVE Owed <=> EoiEndsItsOwn
  OBVIOUS
<1>1. \A t \in Terminals : DOMAIN handlers[t] = 1 .. Len(handlers[t]) /\ Len(handlers[t]) \in Nat
  BY DEF TypeOK
<1>2. \A t \in Terminals, k \in Int :
        RtcAt(t, k) <=> k \in DOMAIN handlers[t] /\ InRtcHandler(t, k)
  BY <1>1 DEF RtcAt, InRtcHandler
<1>3. \A t \in Terminals : \A k \in DOMAIN handlers[t] : k \in Int
  BY <1>1
<1> QED
  BY <1>2, <1>3 DEF Owed, EoiEndsItsOwn

\* A handler enters on top of those of the flow that runs. The others move.
LEMMA Entered ==
    ASSUME TypeOK, NEW irq \in Irqs, NEW t \in Terminals, NEW k \in Int,
           handlers' = [handlers EXCEPT ![schedule_idx] = <<irq>> \o @]
    PROVE  RtcAt(t, k)' <=> IF t # schedule_idx THEN RtcAt(t, k)
                            ELSE (k = 1 /\ irq = RTC_PIC_PIN) \/ RtcAt(t, k - 1)
<1>1. handlers[schedule_idx] \in Seq(Irqs) /\ Len(handlers[schedule_idx]) \in Nat
  BY DEF TypeOK
<1>2. CASE t # schedule_idx
  BY <1>2 DEF RtcAt, TypeOK
<1>3. CASE t = schedule_idx
  <2> DEFINE stack == handlers[schedule_idx]
             longer == <<irq>> \o stack
  <2>1. handlers'[t] = longer
    BY <1>3 DEF TypeOK
  <2>2. /\ Len(longer) = Len(stack) + 1 /\ longer[1] = irq
        /\ \A j \in 2 .. Len(stack) + 1 : longer[j] = stack[j - 1]
    BY <1>1, PushAndPop
  <2> HIDE DEF longer
  <2> QED
    BY <1>1, <1>3, <2>1, <2>2 DEF RtcAt
<1> QED
  BY <1>2, <1>3

\* The innermost handler of the flow that runs returns. The others move back.
LEMMA Returned ==
    ASSUME TypeOK, SendEoi, NEW t \in Terminals, NEW k \in Int
    PROVE  RtcAt(t, k)' <=> IF t # schedule_idx THEN RtcAt(t, k)
                            ELSE k >= 1 /\ RtcAt(t, k + 1)
<1>1. handlers[schedule_idx] \in Seq(Irqs) /\ Len(handlers[schedule_idx]) \in Nat
  BY DEF TypeOK
<1>2. CASE t # schedule_idx
  BY <1>2 DEF RtcAt, TypeOK, SendEoi
<1>3. CASE t = schedule_idx
  <2> DEFINE stack == handlers[schedule_idx]
             shorter == Tail(stack)
  <2>1. handlers'[t] = shorter
    BY <1>3 DEF TypeOK, SendEoi
  <2>2. KEYBOARD_IRQ_NUM \in Irqs /\ stack # <<>>
    BY DEF Irqs, SendEoi
  <2>3. /\ Len(shorter) = Len(stack) - 1
        /\ \A j \in 1 .. Len(stack) - 1 : shorter[j] = stack[j + 1]
    BY <1>1, <2>2, PushAndPop
  <2> HIDE DEF shorter
  <2> QED
    BY <1>1, <1>3, <2>1, <2>3 DEF RtcAt
<1> QED
  BY <1>2, <1>3

\* An end of interrupt ends the IRQ of its own handler or, the second one of the
\* keyboard, nothing, wherever the handlers were cut and however they nest.
LEMMA NextOwed == TypeOK /\ Owed /\ [Next]_vars => Owed'
<1> SUFFICES ASSUME TypeOK, Owed, [Next]_vars PROVE Owed'
  OBVIOUS
<1>1. schedule_idx \in Terminals /\ KEYBOARD_IRQ_NUM \in Irqs /\ RTC_PIC_PIN \in Irqs
      /\ KEYBOARD_IRQ_NUM # RTC_PIC_PIN
  BY DEF TypeOK, Irqs, KEYBOARD_IRQ_NUM, RTC_PIC_PIN
<1>2. ASSUME UNCHANGED controller PROVE Owed'
  BY <1>2 DEF controller, Owed, RtcAt
<1>3. CASE RtcInterrupt
  <2>1. RTC_PIC_PIN \notin in_service
    BY <1>3 DEF RtcInterrupt, Delivered, RTC_PIC_PIN
  <2>2. CASE Cardinality(Unfinished) < NESTED
    <3>1. /\ in_service' = in_service \cup {RTC_PIC_PIN}
          /\ handlers' = [handlers EXCEPT ![schedule_idx] = <<RTC_PIC_PIN>> \o @]
      BY <1>3, <2>2 DEF RtcInterrupt, Enter
    <3>2. \A t \in Terminals, k \in Int : ~RtcAt(t, k)
      BY <2>1 DEF Owed
    <3>3. \A t \in Terminals, k \in Int : RtcAt(t, k)' <=> t = schedule_idx /\ k = 1
      <4> SUFFICES ASSUME NEW t \in Terminals, NEW k \in Int
                   PROVE  RtcAt(t, k)' <=> t = schedule_idx /\ k = 1
        OBVIOUS
      <4>1. ~RtcAt(t, k) /\ ~RtcAt(t, k - 1)
        BY <3>2
      <4>2. RtcAt(t, k)' <=> IF t # schedule_idx THEN RtcAt(t, k)
                             ELSE (k = 1 /\ RTC_PIC_PIN = RTC_PIC_PIN) \/ RtcAt(t, k - 1)
        BY <1>1, <3>1, Entered
      <4> QED
        BY <4>1, <4>2
    <3> QED
      BY <1>1, <3>1, <3>3 DEF Owed
  <2>3. CASE ~(Cardinality(Unfinished) < NESTED)
    <3>1. in_service' = in_service /\ handlers' = handlers
      BY <1>3, <2>1, <2>3 DEF RtcInterrupt, Enter, InServiceAfter
    <3> QED
      BY <1>2, <3>1 DEF controller
  <2> QED
    BY <2>2, <2>3
<1>4. CASE KeyboardInterrupt
  <2>1. in_service' = in_service
    <3>1. /\ InServiceAfter(in_service \cup {KEYBOARD_IRQ_NUM}, KEYBOARD_IRQ_NUM) = in_service
          /\ InServiceAfter(in_service, KEYBOARD_IRQ_NUM) = in_service
      BY DEF InServiceAfter, Owed
    <3> QED
      BY <1>4, <3>1 DEF KeyboardInterrupt, Enter
  <2>2. CASE Cardinality(Unfinished) < NESTED
    <3>1. handlers' = [handlers EXCEPT ![schedule_idx] = <<KEYBOARD_IRQ_NUM>> \o @]
      BY <1>4, <2>2 DEF KeyboardInterrupt, Enter
    <3> DEFINE Before(t, k) == IF t = schedule_idx THEN k - 1 ELSE k
               After(t, k) == IF t = schedule_idx THEN k + 1 ELSE k
    <3>2. \A t \in Terminals, k \in Int : RtcAt(t, k)' <=> RtcAt(t, Before(t, k))
      BY <1>1, <3>1, Entered
    <3>3. \A t \in Terminals, k \in Int : /\ Before(t, k) \in Int /\ After(t, k) \in Int
                                          /\ Before(t, After(t, k)) = k
      OBVIOUS
    <3>4. \A t \in Terminals, k, m \in Int : Before(t, k) = Before(t, m) => k = m
      OBVIOUS
    <3> HIDE DEF Before, After
    <3> QED
      BY <2>1, <3>2, <3>3, <3>4 DEF Owed
  <2>3. CASE ~(Cardinality(Unfinished) < NESTED)
    <3>1. handlers' = handlers
      BY <1>4, <2>3 DEF KeyboardInterrupt, Enter
    <3> QED
      BY <1>2, <2>1, <3>1 DEF controller
  <2> QED
    BY <2>2, <2>3
<1>5. CASE SendEoi
  <2> DEFINE irq == Head(handlers[schedule_idx])
             Before(t, k) == IF t = schedule_idx THEN k + 1 ELSE k
  <2>1. in_service' = in_service \ {irq}
    BY <1>5 DEF SendEoi, InServiceAfter
  <2>2. irq \in Irqs /\ (irq = RTC_PIC_PIN <=> RtcAt(schedule_idx, 1))
    <3>1. handlers[schedule_idx] \in Seq(Irqs) /\ handlers[schedule_idx] # <<>>
      BY <1>5 DEF SendEoi, TypeOK
    <3>2. irq = handlers[schedule_idx][1] /\ irq \in Irqs /\ Len(handlers[schedule_idx]) >= 1
          /\ Len(handlers[schedule_idx]) \in Nat
      BY <1>1, <3>1, PushAndPop
    <3> QED
      BY <3>2 DEF RtcAt
  <2>3. \A t \in Terminals, k \in Int :
          RtcAt(t, k)' => RtcAt(t, Before(t, k)) /\ (t = schedule_idx => k >= 1)
    BY <1>5, Returned
  <2>4. \A t \in Terminals, k \in Int : /\ Before(t, k) \in Int
                                        /\ k >= 1 => ~(t = schedule_idx /\ Before(t, k) = 1)
    OBVIOUS
  <2>5. \A t \in Terminals, k, m \in Int : Before(t, k) = Before(t, m) => k = m
    OBVIOUS
  <2>6. \A t \in Terminals, k \in Int :
          RtcAt(t, k) /\ ~(t = schedule_idx /\ k = 1) => \E j \in Int : RtcAt(t, j)'
    <3> SUFFICES ASSUME NEW t \in Terminals, NEW k \in Int, RtcAt(t, k),
                        ~(t = schedule_idx /\ k = 1)
                 PROVE  \E j \in Int : RtcAt(t, j)'
      OBVIOUS
    <3>1. CASE t = schedule_idx
      <4>1. k >= 2 /\ k - 1 \in Int /\ (k - 1) + 1 = k
        BY <3>1 DEF RtcAt, TypeOK
      <4>2. RtcAt(t, k - 1)' <=> k - 1 >= 1 /\ RtcAt(t, (k - 1) + 1)
        BY <1>5, <3>1, <4>1, Returned
      <4> QED
        BY <3>1, <4>1, <4>2
    <3>2. CASE t # schedule_idx
      BY <1>5, <3>2, Returned
    <3> QED
      BY <3>1, <3>2
  <2> HIDE DEF Before, irq
  <2>7. \A t, u \in Terminals, k, m \in Int : RtcAt(t, k)' /\ RtcAt(u, m)' => t = u /\ k = m
    BY <2>3, <2>4, <2>5 DEF Owed
  <2>8. CASE irq = RTC_PIC_PIN
    <3>1. RtcAt(schedule_idx, 1)
      BY <2>2, <2>8
    <3>2. \A t \in Terminals, k \in Int : ~RtcAt(t, k)'
      BY <1>1, <2>3, <2>4, <3>1 DEF Owed
    <3> QED
      BY <2>1, <2>7, <2>8, <3>2 DEF Owed
  <2>9. CASE irq # RTC_PIC_PIN
    <3>1. ~RtcAt(schedule_idx, 1)
      BY <2>2, <2>9
    <3>2. (\E t \in Terminals, k \in Int : RtcAt(t, k))
            <=> (\E t \in Terminals, k \in Int : RtcAt(t, k)')
      BY <2>3, <2>4, <2>6, <3>1
    <3> QED
      BY <2>1, <2>7, <2>9, <3>2 DEF Owed
  <2> QED
    BY <2>8, <2>9
<1>6. ASSUME NEW t \in Terminals, NEW rate, Open(t) \/ Write(t, rate) \/ ReadStarts(t)
                                              \/ ReadReturns(t)
      PROVE  UNCHANGED controller
  BY <1>6 DEF Open, Write, ReadStarts, ReadReturns
<1> QED
  BY <1>2, <1>3, <1>4, <1>5, <1>6 DEF Next, Pit, vars

\* IRQ8 is in service exactly while one handler of it has yet to return, and the
\* keyboard's end of interrupt, sent twice, ends no other handler's IRQ: for
\* every number of flows and every depth to which handlers nest on them.
THEOREM EoiEnds == Spec => []EoiEndsItsOwn
<1>1. Init => Owed
  BY InitInvariants, OwedIsEoiEndsItsOwn
<1>2. TypeOK /\ Owed /\ [Next]_vars => Owed'
  BY NextOwed
<1>3. TypeOK /\ Owed => EoiEndsItsOwn
  BY OwedIsEoiEndsItsOwn
<1> QED
  BY <1>1, <1>2, <1>3, RtcTypes, PTL DEF Spec

-----------------------------------------------------------------------------
(* The rate of the virtual clocks *)

\* The handler keeps every count in step with the interrupts, whether it wakes
\* the reader or not.
LEMMA InterruptInStep ==
    ASSUME TypeOK, CountsInStep, RtcInterrupt
    PROVE  CountsInStep'
<1> SUFFICES ASSUME NEW t \in Terminals
             PROVE  InStep(interrupt_count'[t], since'[t], Age(t)')
  BY DEF CountsInStep
<1> DEFINE count == IF t = rtc_idx THEN UpTo(COUNTS, interrupt_count[t] + 1)
                    ELSE interrupt_count[t]
           elapsed == t = schedule_idx /\ count >= Threshold(t)
<1>1. InStep(count, UpTo(N * COUNTS, since[t] + 1), Age(t)') /\ Age(t)' \in 0 .. N - 1
  BY EveryClockAdvances DEF Advanced
<1>2. /\ interrupt_count'[t] = IF elapsed THEN 0 ELSE count
      /\ since'[t] = IF elapsed THEN 0 ELSE UpTo(N * COUNTS, since[t] + 1)
  BY InterruptEffect
<1> HIDE DEF count, elapsed
<1>3. CASE elapsed
  <2>1. InStep(0, 0, Age(t)')
    BY <1>1, ConstantTypes DEF InStep
  <2> QED
    BY <1>2, <1>3, <2>1
<1>4. CASE ~elapsed
  BY <1>1, <1>2, <1>4
<1> QED
  BY <1>3, <1>4

\* Nothing else disturbs a count, and rtc_open starts one afresh.
LEMMA NextInStep == TypeOK /\ CountsInStep /\ [Next]_vars => CountsInStep'
<1> SUFFICES ASSUME TypeOK, CountsInStep, [Next]_vars PROVE CountsInStep'
  OBVIOUS
<1>1. CASE RtcInterrupt
  BY <1>1, InterruptInStep
<1>2. ASSUME NEW t \in Terminals, Open(t) PROVE CountsInStep'
  <2>1. /\ rtc_idx' = rtc_idx /\ interrupt_count'[t] = 0 /\ since'[t] = 0
        /\ \A u \in Terminals \ {t} :
             interrupt_count'[u] = interrupt_count[u] /\ since'[u] = since[u]
    BY <1>2 DEF Open, TypeOK
  <2>2. Age(t) \in Int /\ Age(t) >= 0
    BY ConstantTypes DEF Age, TypeOK, Terminals, N
  <2>3. InStep(0, 0, Age(t))
    BY <2>2, ConstantTypes DEF InStep
  <2> QED
    BY <2>1, <2>3 DEF CountsInStep, Age
<1>3. CASE UNCHANGED <<rtc_idx, interrupt_count, since>>
  BY <1>3 DEF CountsInStep, Age
<1>4. ASSUME KeyboardInterrupt \/ SendEoi \/ Pit \/ UNCHANGED vars
      PROVE  UNCHANGED <<rtc_idx, interrupt_count, since>>
  BY <1>4 DEF KeyboardInterrupt, SendEoi, Pit, vars, clocks
<1>5. ASSUME NEW t \in Terminals, NEW rate, Write(t, rate) \/ ReadStarts(t) \/ ReadReturns(t)
      PROVE  UNCHANGED <<rtc_idx, interrupt_count, since>>
  BY <1>5 DEF Write, ReadStarts, ReadReturns, clocks
<1> QED
  BY <1>1, <1>2, <1>3, <1>4, <1>5 DEF Next

\* A reader is woken when its count reaches the threshold, which its clock has
\* not done before the last round of its period and does by the end of it.
LEMMA NextRate ==
    ASSUME TypeOK, CountsInStep, [Next]_vars
    PROVE  WakesFollowRateStep
<1>1. ASSUME RtcInterrupt, NEW t \in Terminals
      PROVE  /\ interrupt_flag[t] /\ ~interrupt_flag'[t]
                  => since[t] + 1 > N * Threshold(t) - N
             /\ t = schedule_idx => since'[t] = 0 \/ since'[t] < N * Threshold(t)
  <2> DEFINE count == IF t = rtc_idx THEN UpTo(COUNTS, interrupt_count[t] + 1)
                      ELSE interrupt_count[t]
             elapsed == t = schedule_idx /\ count >= Threshold(t)
             later == UpTo(N * COUNTS, since[t] + 1)
  <2>1. InStep(count, later, Age(t)') /\ later \in 0 .. since[t] + 1 /\ Age(t)' \in 0 .. N - 1
    BY <1>1, EveryClockAdvances DEF Advanced
  <2>2. /\ count \in 0 .. COUNTS
        /\ interrupt_flag'[t] = (interrupt_flag[t] /\ ~elapsed)
        /\ since'[t] = IF elapsed THEN 0 ELSE later
    BY <1>1, InterruptEffect
  <2>3. Threshold(t) \in Int
    <3>1. desired_virtualized_frequency[t] \in 1 .. MAX_FREQUENCY
      BY DEF TypeOK
    <3> QED
      BY <3>1, ThresholdType DEF Threshold, N
  <2>4. since[t] \in Int /\ count \in Nat /\ later \in Int /\ later >= 0 /\ later <= since[t] + 1
    BY <2>1, <2>2, ConstantTypes DEF TypeOK
  <2> HIDE DEF count, later
  <2>5. N * Threshold(t) \in Int
    BY <2>3, ConstantTypes
  <2>6. CASE elapsed
    <3>1. later > N * Threshold(t) - N
      BY <2>1, <2>3, <2>4, <2>6, ReachedInTime
    <3>2. since[t] + 1 > N * Threshold(t) - N
      BY <2>4, <2>5, <3>1, ConstantTypes
    <3> QED
      BY <2>2, <2>6, <3>2
  <2>7. CASE ~elapsed
    <3>1. t = schedule_idx => later < N * Threshold(t)
      <4>1. t = schedule_idx => count < Threshold(t)
        BY <2>3, <2>4, <2>7
      <4> QED
        BY <2>1, <2>3, <2>4, <4>1, NotReachedYet
    <3> QED
      BY <2>2, <2>7, <3>1
  <2> QED
    BY <2>6, <2>7
<1>2. CASE RtcInterrupt
  BY <1>1, <1>2 DEF WakesFollowRateStep, N
<1>3. ASSUME rtc_idx' = rtc_idx, \A t \in Terminals : interrupt_flag[t] => interrupt_flag'[t]
      PROVE  WakesFollowRateStep
  BY <1>3 DEF WakesFollowRateStep
<1>4. ASSUME KeyboardInterrupt \/ SendEoi \/ Pit \/ UNCHANGED vars
      PROVE  WakesFollowRateStep
  BY <1>3, <1>4 DEF KeyboardInterrupt, SendEoi, Pit, vars, clocks
<1>5. ASSUME NEW t \in Terminals, NEW rate, Open(t) \/ Write(t, rate) \/ ReadStarts(t)
                                              \/ ReadReturns(t)
      PROVE  WakesFollowRateStep
  BY <1>3, <1>5 DEF Open, Write, ReadStarts, ReadReturns, clocks, TypeOK
<1> QED
  BY <1>2, <1>4, <1>5 DEF Next

\* A virtual clock counts every third interrupt, no more and no less
\* (rtc.c:210-222).
THEOREM ClocksInStep == Spec => []CountsInStep
<1>1. Init => CountsInStep
  BY InitInvariants
<1> QED
  BY <1>1, NextInStep, RtcTypes, PTL DEF Spec

\* For every number of terminals and every rate, a virtual clock is never more
\* than one round of the counts away from the rate that it was rounded to.
THEOREM Rate == Spec => WakesFollowRate
<1>1. TypeOK /\ CountsInStep /\ [Next]_vars => [WakesFollowRateStep]_vars
  BY NextRate
<1> QED
  BY <1>1, RtcTypes, ClocksInStep, PTL DEF Spec, WakesFollowRate
=============================================================================
