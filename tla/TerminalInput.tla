---------------------------- MODULE TerminalInput ----------------------------
(***************************************************************************)
(* Line input: the keyboard interrupt edits the line buffer of the visible *)
(* terminal while the program whose turn it is polls, copies and clears    *)
(* the buffer of its own terminal.                                         *)
(*                                                                         *)
(* terminal_read keeps the timer out by masking IRQ0, but disable_irq ends *)
(* in sti(): from then on the keyboard may interrupt it between any two    *)
(* accesses to the buffers, which are therefore one action each. The       *)
(* handler of the keyboard runs under cli() and is one action per key.     *)
(***************************************************************************)
EXTENDS Integers, Sequences

CONSTANTS
    PROCESS_NUMBER_PIT,  \* number of terminals
    BUFFER_LIM,          \* bytes of a line, the newline included
    ReadSizes,           \* sizes a program asks for
    Modifiers,           \* modifier keys that the user has
    STROKES,             \* bound on the characters and Enters typed
    KeysInRead,          \* kinds of keys that may arrive while a read copies
    BadReads             \* TRUE: a program may read descriptor 0 with a bad
                         \*       buffer or a negative size

KeyKinds == {"char", "backspace", "enter", "switch", "modifier"}

ASSUME InputConstants ==
    /\ PROCESS_NUMBER_PIT \in Nat \ {0}
    /\ BUFFER_LIM \in Nat \ {0}
    /\ ReadSizes \subseteq Nat
    /\ Modifiers \subseteq {"alt", "ctrl"}
    /\ STROKES \in Nat
    /\ KeysInRead \subseteq KeyKinds
    /\ BadReads \in BOOLEAN

Terminals == 0 .. PROCESS_NUMBER_PIT - 1

\* A typed character is the number of its key stroke and the terminal that the
\* user was looking at.
Chars == [key : 1 .. STROKES, on : Terminals]
Nul == [key |-> 0, on |-> 0]
Newline == [key |-> -1, on |-> 0]
Unwritten == [key |-> -2, on |-> 0]
Bytes == Chars \cup {Nul, Newline, Unwritten}

Slots == 0 .. BUFFER_LIM - 2

\* Where a flow stands in terminal_read, and its locals. "wait" and "test" are
\* the polling loop, before and after its disable_irq(0).
CopyPoints == {"copy", "count", "exit", "clear", "flag"}
Readers == [at : {"user", "wait", "test"} \cup CopyPoints,
            n : ReadSizes \cup {0}, i : 0 .. BUFFER_LIM - 1,
            saved_buffer_ct : 0 .. BUFFER_LIM - 1,
            buf : [0 .. BUFFER_LIM - 1 -> Bytes]]
Idle == [at |-> "user", n |-> 0, i |-> 0, saved_buffer_ct |-> 0,
         buf |-> [k \in 0 .. BUFFER_LIM - 1 |-> Unwritten]]

VARIABLES
    terminal_num,     \* visible terminal
    held,             \* modifiers held: the flags alt and ctrl
    keyboard_buffer, buffer_ct, enter_read,  \* fields of terminal[t]
    strokes,          \* characters and Enters typed so far
    schedule_idx,     \* terminal whose turn it is
    irq0_masked,      \* bit 0 of master_mask
    reader,           \* the flow of each terminal
    answer            \* last line that a read returned on each terminal

lines == <<keyboard_buffer, buffer_ct, enter_read>>
keys == <<terminal_num, held, strokes>>
vars == <<lines, keys, schedule_idx, irq0_masked, reader, answer>>

TypeOK ==
    /\ terminal_num \in Terminals
    /\ held \subseteq Modifiers
    /\ keyboard_buffer \in [Terminals -> [Slots -> Chars \cup {Nul}]]
    /\ buffer_ct \in [Terminals -> 0 .. BUFFER_LIM - 1]
    /\ enter_read \in [Terminals -> BOOLEAN]
    /\ strokes \in 0 .. STROKES
    /\ schedule_idx \in Terminals
    /\ irq0_masked \in BOOLEAN
    /\ reader \in [Terminals -> Readers]
    /\ answer \in [Terminals -> Seq(Bytes)]

\* The base shells run; nothing has been typed.
Init ==
    /\ terminal_num = 0
    /\ held = {}
    /\ keyboard_buffer = [t \in Terminals |-> [k \in Slots |-> Nul]]
    /\ buffer_ct = [t \in Terminals |-> 0]
    /\ enter_read = [t \in Terminals |-> FALSE]
    /\ strokes = 0
    /\ schedule_idx \in Terminals
    /\ irq0_masked = FALSE
    /\ reader = [t \in Terminals |-> Idle]
    /\ answer = [t \in Terminals |-> <<>>]

-----------------------------------------------------------------------------
(* keyboard_handler *)

Copying(t) == reader[t].at \in CopyPoints

\* The model numbers what is typed.
Stroke == strokes < STROKES /\ strokes' = strokes + 1

\* The kinds of keys that may arrive now.
Arrives(kind) == Copying(schedule_idx) => kind \in KeysInRead

\* Fault: one character too many.
Full_Late == buffer_ct[terminal_num] = BUFFER_LIM
Full == buffer_ct[terminal_num] = BUFFER_LIM - 1

\* A printable key, space or tab; ignored with alt or ctrl and at a full line.
KeyChar ==
    /\ Arrives("char")
    /\ held = {}
    /\ ~Full
    /\ Stroke
    /\ keyboard_buffer' = [keyboard_buffer EXCEPT ![terminal_num][buffer_ct[terminal_num]] =
                              [key |-> strokes', on |-> terminal_num]]
    /\ buffer_ct' = [buffer_ct EXCEPT ![terminal_num] = @ + 1]
    /\ UNCHANGED <<terminal_num, held, enter_read, schedule_idx, irq0_masked, reader, answer>>

KeyBackspace ==
    /\ Arrives("backspace")
    /\ held = {}
    /\ buffer_ct[terminal_num] # 0
    /\ buffer_ct' = [buffer_ct EXCEPT ![terminal_num] = @ - 1]
    /\ keyboard_buffer' = [keyboard_buffer EXCEPT ![terminal_num][buffer_ct'[terminal_num]] = Nul]
    /\ UNCHANGED <<keys, enter_read, schedule_idx, irq0_masked, reader, answer>>

\* Enter marks the line of the visible terminal, whoever reads it and when.
KeyEnter ==
    /\ Arrives("enter")
    /\ Stroke
    /\ enter_read' = [enter_read EXCEPT ![terminal_num] = TRUE]
    /\ UNCHANGED <<terminal_num, held, keyboard_buffer, buffer_ct, schedule_idx, irq0_masked,
                   reader, answer>>

\* Alt with a function key shows another terminal.
KeySwitch(next_terminal_num) ==
    /\ Arrives("switch")
    /\ "alt" \in held
    /\ terminal_num' = next_terminal_num
    /\ UNCHANGED <<held, strokes, lines, schedule_idx, irq0_masked, reader, answer>>

KeyModifier(m) ==
    /\ Arrives("modifier")
    /\ held' \in {held \cup {m}, held \ {m}}
    /\ UNCHANGED <<terminal_num, strokes, lines, schedule_idx, irq0_masked, reader, answer>>

Keyboard ==
    \/ KeyChar
    \/ KeyBackspace
    \/ KeyEnter
    \/ \E t \in Terminals : KeySwitch(t)
    \/ \E m \in Modifiers : KeyModifier(m)

-----------------------------------------------------------------------------
(* read and terminal_read, on the terminal whose turn it is *)

At(t, point) == t = schedule_idx /\ reader[t].at = point

GoTo(t, point) == reader' = [reader EXCEPT ![t].at = point]

\* read masks the timer for descriptor 0 before it looks at its arguments.
ReadStdin(t) ==
    /\ At(t, "user")
    /\ irq0_masked' = TRUE
    /\ GoTo(t, "test")
    /\ UNCHANGED <<lines, keys, schedule_idx, answer>>

\* The path of a bad argument returns without unmasking it.
ReadBadArgument(t) ==
    /\ At(t, "user") /\ BadReads
    /\ irq0_masked' = TRUE
    /\ UNCHANGED <<lines, keys, schedule_idx, reader, answer>>

\* A read of another descriptor unmasks it.
ReadOther(t) ==
    /\ At(t, "user") /\ BadReads
    /\ irq0_masked' = FALSE
    /\ UNCHANGED <<lines, keys, schedule_idx, reader, answer>>

\* Fault: the loop waits for a terminal that the user does not look at.
LineReady_Inverted(t) == enter_read[t] /\ terminal_num # schedule_idx

LineReady(t) == enter_read[t] /\ terminal_num = schedule_idx

\* Fault: the loop looks at the line with the timer running.
MaskBeforeTest_Dropped == FALSE
MaskBeforeTest == TRUE

\* The polling loop looks at the line only with the timer masked.
PollMasks(t) ==
    /\ At(t, "wait")
    /\ irq0_masked' = MaskBeforeTest
    /\ GoTo(t, "test")
    /\ UNCHANGED <<lines, keys, schedule_idx, answer>>

\* Fault: the loop never lets the timer in.
MaskAfterTest_Kept == TRUE
MaskAfterTest == FALSE

PollFails(t) ==
    /\ At(t, "test")
    /\ ~LineReady(t)
    /\ irq0_masked' = MaskAfterTest
    /\ GoTo(t, "wait")
    /\ UNCHANGED <<lines, keys, schedule_idx, answer>>

\* The size is looked at only now.
PollSucceeds(t) ==
    /\ At(t, "test")
    /\ LineReady(t)
    /\ \E n \in ReadSizes :
         reader' = [reader EXCEPT ![t] = [Idle EXCEPT !.at = "copy", !.n = n]]
    /\ UNCHANGED <<lines, keys, schedule_idx, irq0_masked, answer>>

\* Characters that a read of n bytes copies.
Copied(n) == IF n > BUFFER_LIM THEN BUFFER_LIM - 1 ELSE IF n = 0 THEN 0 ELSE n - 1

\* Fault: the copy takes the line of the visible terminal.
CopiedLine_Visible(t) == keyboard_buffer[terminal_num]
CopiedLine(t) == keyboard_buffer[t]

CopyChar(t) ==
    /\ At(t, "copy")
    /\ reader[t].i < Copied(reader[t].n)
    /\ reader' = [reader EXCEPT ![t].buf[reader[t].i] = CopiedLine(t)[reader[t].i],
                                ![t].i = @ + 1]
    /\ UNCHANGED <<lines, keys, schedule_idx, irq0_masked, answer>>

CopyNewline(t) ==
    /\ At(t, "copy")
    /\ reader[t].i = Copied(reader[t].n)
    /\ reader' = [reader EXCEPT ![t].buf[buffer_ct[t]] = Newline, ![t].at = "count"]
    /\ UNCHANGED <<lines, keys, schedule_idx, irq0_masked, answer>>

SaveCount(t) ==
    /\ At(t, "count")
    /\ reader' = [reader EXCEPT ![t].saved_buffer_ct = buffer_ct[t], ![t].at = "exit"]
    /\ UNCHANGED <<lines, keys, schedule_idx, irq0_masked, answer>>

\* The line "exit" gets a zero in place of its newline. Which lines read
\* "exit" is left open.
EndExitLine(t) ==
    /\ At(t, "exit")
    /\ \E zero \in SUBSET {buffer_ct[terminal_num]} :
         reader' = [reader EXCEPT ![t].buf = [k \in DOMAIN @ |-> IF k \in zero THEN Nul ELSE @[k]],
                                  ![t].i = 0, ![t].at = "clear"]
    /\ UNCHANGED <<lines, keys, schedule_idx, irq0_masked, answer>>

\* Fault: the loop of clear_buffer ends one slot early.
SlotsToClear_Short == BUFFER_LIM - 2
SlotsToClear == BUFFER_LIM - 1

\* clear_buffer erases the line of the visible terminal, whichever that is at
\* each of its statements.
ClearSlot(t) ==
    /\ At(t, "clear")
    /\ reader[t].i < SlotsToClear
    /\ keyboard_buffer' = [keyboard_buffer EXCEPT ![terminal_num][reader[t].i] = Nul]
    /\ reader' = [reader EXCEPT ![t].i = @ + 1]
    /\ UNCHANGED <<keys, buffer_ct, enter_read, schedule_idx, irq0_masked, answer>>

ClearCount(t) ==
    /\ At(t, "clear")
    /\ reader[t].i = SlotsToClear
    /\ buffer_ct' = [buffer_ct EXCEPT ![terminal_num] = 0]
    /\ GoTo(t, "flag")
    /\ UNCHANGED <<keys, keyboard_buffer, enter_read, schedule_idx, irq0_masked, answer>>

\* The characters that the caller finds in its buffer.
Taken(r) == LET n == IF r.saved_buffer_ct < Copied(r.n)
                     THEN r.saved_buffer_ct ELSE Copied(r.n)
            IN [k \in 1 .. n |-> r.buf[k - 1]]

\* Fault: the next read finds the Enter of this one.
EnterAfterRead_Kept(t) == enter_read
EnterAfterRead(t) == [enter_read EXCEPT ![t] = FALSE]

ReadReturns(t) ==
    /\ At(t, "flag")
    /\ enter_read' = EnterAfterRead(t)
    /\ irq0_masked' = FALSE
    /\ answer' = [answer EXCEPT ![t] = Taken(reader[t])]
    /\ reader' = [reader EXCEPT ![t] = Idle]
    /\ UNCHANGED <<keys, keyboard_buffer, buffer_ct, schedule_idx>>

\* What a program does once it is in terminal_read.
ReadStep(t) ==
    \/ PollMasks(t) \/ PollFails(t) \/ PollSucceeds(t)
    \/ CopyChar(t) \/ CopyNewline(t) \/ SaveCount(t) \/ EndExitLine(t)
    \/ ClearSlot(t) \/ ClearCount(t) \/ ReadReturns(t)

-----------------------------------------------------------------------------

\* The scheduler passes the turn on, unless the timer is masked.
Pit ==
    /\ ~irq0_masked
    /\ schedule_idx' = (schedule_idx + 1) % PROCESS_NUMBER_PIT
    /\ UNCHANGED <<lines, keys, irq0_masked, reader, answer>>

Next ==
    \/ Keyboard
    \/ Pit
    \/ \E t \in Terminals : \/ ReadStdin(t)
                            \/ ReadBadArgument(t)
                            \/ ReadOther(t)
                            \/ ReadStep(t)

Spec == Init /\ [][Next]_vars

\* The interrupt controller latches a tick that arrives while IRQ0 is masked
\* and delivers it when the polling loop unmasks it; a turn of 55 ms is long
\* enough for a step of the program it is given to.
FairSpec ==
    /\ Spec
    /\ SF_vars(Pit)
    /\ \A t \in Terminals : SF_vars(ReadStep(t))
-----------------------------------------------------------------------------
(* Properties *)

\* A program that has its line in sight holds the processor, with the timer
\* masked, until it returns: the turn never passes while a read is between its
\* test and its last statement, so the two ways the code names "the terminal
\* of the reader" (its own PCB and schedule_idx) agree.
ReaderKeepsTurn ==
    \A t \in Terminals :
        reader[t].at \in CopyPoints \cup {"test"} => t = schedule_idx /\ irq0_masked

\* Whatever keys arrive at whatever moment, Alt+Fn in the middle of a copy
\* included, a program only ever receives characters that were typed while its
\* own terminal was visible.
OwnLinesOnly ==
    \A t \in Terminals : \A k \in DOMAIN answer[t] :
        answer[t][k] \in Chars => answer[t][k].on = t

\* No read leaves anything of a line behind its end: the slots from buffer_ct
\* on are zero whenever no program clears the buffer.
TailIsEmpty ==
    \A t \in Terminals : ~Copying(schedule_idx) =>
        \A k \in Slots : k >= buffer_ct[t] => keyboard_buffer[t][k] = Nul

\* Line input implements one editable line per terminal that goes to one read.
\* A read takes the line at the moment it starts to clear it.
Taking(t) == reader[t].at \in {"clear", "flag"}
Promise == INSTANCE LineDiscipline WITH
    Bytes <- Chars,
    Capacity <- BUFFER_LIM - 1,
    visible <- terminal_num,
    line <- [t \in Terminals |->
               IF Taking(t) THEN <<>>
               ELSE [k \in 1 .. buffer_ct[t] |-> keyboard_buffer[t][k - 1]]],
    ready <- [t \in Terminals |-> enter_read[t] /\ ~Taking(t)],
    answer <- [t \in Terminals |-> IF Taking(t) THEN Taken(reader[t]) ELSE answer[t]]
LineByLine == Promise!Spec

\* A program that waits for a line gets it once the user has pressed Enter, if
\* the user goes on looking at its terminal.
EnterAnswers ==
    \A t \in Terminals :
        (enter_read[t] /\ terminal_num = t /\ reader[t].at \in {"wait", "test"})
            ~> (reader[t].at = "user" \/ terminal_num # t)

\* The reads of one terminal, which mask the timer again and again, do not keep
\* the processor from the others.
TurnsGoRound == \A t \in Terminals : []<>(schedule_idx = t)

\* What the comments say and the code does not do.

\* terminal.c: the read clears the keyboard buffer (of its own terminal).
OtherLinesKept ==
    [][\A t \in Terminals : reader' # reader /\ t # schedule_idx
         => keyboard_buffer'[t] = keyboard_buffer[t]]_vars
=============================================================================
