------------------------------ MODULE Screens ------------------------------
(***************************************************************************)
(* Which screen a byte reaches.  Video memory shows one terminal; the      *)
(* screens of the others wait in pages behind it, and an Alt+Fn copies.    *)
(* Keys echo on the visible screen (keyboard.c), terminal_write prints on  *)
(* the screen of the program that runs (terminal.c), the kernel's own      *)
(* messages go where the user looks, and the 4 kB page at 132 MB, which    *)
(* vidmap gives to programs, is moved by the scheduler (scheduling.c).     *)
(* A key, a write and a tick each run with interrupts disabled: one        *)
(* action.  Lines and their reads are those of TerminalInput in short.     *)
(***************************************************************************)
EXTENDS Console, FiniteSets

CONSTANTS
    PROCESS_NUMBER_PIT,  \* number of terminals
    BUFFER_LIM,          \* one more than the characters of a full line
    HEADER_LEN,          \* length of the shell's prompt
    HELLO_LINE_COUNT,    \* length of the text "Hello, "
    HELLO_BYTE_COUNT,    \* length of the text "Hi, what's your name? "
    Keys,                \* Keys[t]: what a character key prints on terminal t
    Texts,               \* Texts[t]: what programs of terminal t write, each
                         \* [bytes, is], "is" for texts terminal_write knows
    Drawings,            \* Drawings[t]: what programs of t draw at 132 MB
    Message,             \* a message of the kernel
    OPS                  \* bound: operations in a behaviour

Terminals == 0 .. PROCESS_NUMBER_PIT - 1

ASSUME ScreenConstants ==
    /\ PROCESS_NUMBER_PIT \in Nat \ {0}
    /\ BUFFER_LIM \in Nat \ {0} /\ HEADER_LEN \in 1 .. NUM_COLS
    /\ HELLO_LINE_COUNT \in Nat /\ HELLO_BYTE_COUNT \in 0 .. 255 /\ OPS \in Nat
    /\ \A t \in Terminals : Texts[t] \subseteq [bytes : Seq(STRING), is : STRING]
    /\ Terminals \subseteq DOMAIN Drawings /\ Message \in Seq(STRING)

\* Page 0 is video memory, page t + 1 the one behind it for terminal t.
Video == 0
PageOf(t) == t + 1
Pages == 0 .. PROCESS_NUMBER_PIT
Prompt == [k \in 1 .. HEADER_LEN |-> ">"]

VARIABLES
    page,                \* the characters of every page
    screen_x, screen_y,  \* the cursor of the visible screen
    save_x, save_y,      \* terminal[t].save_x, .save_y
    row_letter_ct,       \* characters in the row the user types in, one byte
    fault,               \* a store missed the screen: page fault in the kernel
    line,                \* what was typed: terminal[t].keyboard_buffer
    enter_read,          \* terminals whose line has been entered
    terminal_num,        \* the visible terminal
    schedule_idx,        \* the terminal whose program runs
    cat_flag,            \* terminals whose last command begins with "cat"
    hello_flag,          \* the last write was "Hello, "
    mapped,              \* terminals whose program has called vidmap
    user_page,           \* the page that programs see at 132 MB
    ops

cursors == <<screen_x, screen_y, save_x, save_y>>
input == <<line, enter_read>>
writers == <<cat_flag, hello_flag>>
mapping == <<mapped, user_page>>
vars == <<page, cursors, row_letter_ct, fault, input, terminal_num, schedule_idx,
          writers, mapping, ops>>

\* After the launches and the first prompts: the last terminal is visible and
\* runs, and the page behind it has not been used.
Newest == PROCESS_NUMBER_PIT - 1
Prompted == [k \in Cells |-> IF k < HEADER_LEN THEN ">" ELSE Blank]
Init ==
    /\ page = [p \in Pages |-> IF p = PageOf(Newest) THEN EmptyScreen ELSE Prompted]
    /\ screen_x = Rem(HEADER_LEN) /\ screen_y = 0
    /\ save_x = [t \in Terminals |-> IF t = Newest THEN 0 ELSE Rem(HEADER_LEN)]
    /\ save_y = [t \in Terminals |-> 0]
    /\ row_letter_ct = HEADER_LEN
    /\ fault = FALSE
    /\ line = [t \in Terminals |-> <<>>]
    /\ enter_read = {}
    /\ terminal_num = Newest /\ schedule_idx = Newest
    /\ cat_flag = {} /\ hello_flag = FALSE
    /\ mapped = {} /\ user_page = Video
    /\ ops = 0

\* Nothing is followed behind a page fault in an interrupt handler.
Operation == ~fault /\ ops < OPS /\ ops' = ops + 1

-----------------------------------------------------------------------------
(* Consoles, as putc and background_putc see them. *)

Visible == [text |-> page[Video], x |-> screen_x, y |-> screen_y,
            row |-> row_letter_ct, fault |-> fault]
Hidden(t) == [text |-> page[PageOf(t)], x |-> save_x[t], y |-> save_y[t],
              row |-> row_letter_ct, fault |-> fault]

\* The screen of a terminal, wherever it is.
View(t) == IF t = terminal_num
           THEN [text |-> page[Video], x |-> screen_x, y |-> screen_y]
           ELSE [text |-> page[PageOf(t)], x |-> save_x[t], y |-> save_y[t]]

ShowsCursor(c) == screen_x' = c.x /\ screen_y' = c.y
Shows(c) ==
    /\ page' = [page EXCEPT ![Video] = c.text]
    /\ ShowsCursor(c)
    /\ UNCHANGED <<save_x, save_y>>
    /\ row_letter_ct' = c.row /\ fault' = c.fault

PutAll(c, bytes) ==
    LET shown[n \in 0 .. Len(bytes)] ==
            IF n = 0 THEN c ELSE putc(shown[n - 1], bytes[n])
    IN  shown[Len(bytes)]

-----------------------------------------------------------------------------
(* The keyboard handler: what each key does to the visible screen. *)

KeyUnchanged == UNCHANGED <<terminal_num, schedule_idx, writers, mapping>>
Full(t) == Len(line[t]) = BUFFER_LIM - 1

\* A row that is full is ended before the character goes out.
Wrapped_Never(c) == c
Wrapped(c) ==
    IF c.row = ROW_LIM THEN [putc(c, "newline") EXCEPT !.row = 0] ELSE c
CountUp(c) == [c EXCEPT !.row = Byte(c.row + 1)]

KeyChar ==
    /\ Operation
    /\ ~Full(terminal_num)
    /\ Shows(putc(CountUp(Wrapped(Visible)), Keys[terminal_num]))
    /\ line' = [line EXCEPT ![terminal_num] = Append(@, "char")]
    /\ UNCHANGED enter_read /\ KeyUnchanged

KeyTab ==
    /\ Operation
    /\ ~Full(terminal_num)
    /\ Shows(putc(Visible, "tab"))
    /\ line' = [line EXCEPT ![terminal_num] = Append(@, "tab")]
    /\ UNCHANGED enter_read /\ KeyUnchanged

Erasures(key) == IF key = "tab" THEN TAB_WIDTH ELSE 1
CountDown_Signed(c) == [c EXCEPT !.row = c.row - 1]
CountDown(c) == [c EXCEPT !.row = Byte(c.row - 1)]

KeyBackspace ==
    /\ Operation
    /\ line[terminal_num] # <<>>
    /\ LET blanks == [k \in 1 .. Erasures(Last(line[terminal_num])) |-> "backspace"]
       IN  Shows(CountDown(PutAll(Visible, blanks)))
    /\ line' = [line EXCEPT ![terminal_num] = Front(@)]
    /\ UNCHANGED enter_read /\ KeyUnchanged

KeyEnter ==
    /\ Operation
    /\ enter_read' = enter_read \cup {terminal_num}
    /\ Shows([putc(Visible, "newline") EXCEPT !.row = HEADER_LEN])
    /\ UNCHANGED line /\ KeyUnchanged

\* Ctrl+L redraws the prompt but leaves the line that was typed.
KeyClear ==
    /\ Operation
    /\ Shows(PutAll([clear(Visible) EXCEPT !.row = HEADER_LEN], Prompt))
    /\ UNCHANGED <<line, enter_read>> /\ KeyUnchanged

\* Alt+Fn: the cursors first, then the pages; F of the visible terminal too.
SavedPages_Never == page
SavedPages == [page EXCEPT ![PageOf(terminal_num)] = page[Video]]
KeySwitch(next) ==
    /\ Operation
    /\ save_x' = [save_x EXCEPT ![terminal_num] = screen_x]
    /\ save_y' = [save_y EXCEPT ![terminal_num] = screen_y]
    /\ screen_x' = save_x'[next] /\ screen_y' = save_y'[next]
    /\ page' = [SavedPages EXCEPT ![Video] = SavedPages[PageOf(next)]]
    /\ terminal_num' = next
    /\ UNCHANGED <<row_letter_ct, fault, input, schedule_idx, writers, mapping>>

-----------------------------------------------------------------------------
(* Calls of the program that runs. *)

\* terminal_write starts to count at 0, or behind "Hello, ", and sets the row
\* counter of two texts that it knows.
FirstCount == IF hello_flag THEN HELLO_LINE_COUNT ELSE 0
RowOfText(text) ==
    CASE text.is = "hi" -> HELLO_BYTE_COUNT
      [] text.is = "counter" -> 0
      [] OTHER -> row_letter_ct

\* Behind "exit", and behind every text after a cat but the prompt, it puts a
\* newline, with putc.
Newlines(text) ==
    (IF text.is = "exit" THEN 1 ELSE 0)
    + (IF schedule_idx \in cat_flag /\ text.is # "prompt" THEN 1 ELSE 0)
Trailer(text, c) == PutAll(c, [k \in 1 .. Newlines(text) |-> "newline"])

WriteVisible(text) ==
    LET c == PutBytes(TRUE, [Visible EXCEPT !.row = RowOfText(text)],
                      text.bytes, FirstCount)
    IN  Shows(Trailer(text, c))

WriteHidden(text) ==
    LET t == schedule_idx
        c == PutBytes(FALSE, Hidden(t), text.bytes, FirstCount)
        v == Trailer(text, [Visible EXCEPT !.row = RowOfText(text)])
    IN  /\ page' = [page EXCEPT ![PageOf(t)] = c.text, ![Video] = v.text]
        /\ save_x' = [save_x EXCEPT ![t] = c.x]
        /\ save_y' = [save_y EXCEPT ![t] = c.y]
        /\ ShowsCursor(v)
        /\ row_letter_ct' = v.row
        /\ fault' = (c.fault \/ v.fault)

InForeground_Always == TRUE
InForeground == schedule_idx = terminal_num
terminal_write(text) ==
    /\ Operation
    /\ IF InForeground THEN WriteVisible(text) ELSE WriteHidden(text)
    /\ hello_flag' = (text.is = "hello")
    /\ cat_flag' = IF text.is = "prompt" THEN cat_flag \ {schedule_idx} ELSE cat_flag
    /\ UNCHANGED <<input, terminal_num, schedule_idx, mapping>>

\* printf in execute (the shell limit), getargs (no arguments) and the
\* exception handler, all on behalf of the program that runs.
KernelPrints ==
    /\ Operation
    /\ Shows(PutAll(Visible, Message))
    /\ UNCHANGED <<input, terminal_num, schedule_idx, writers, mapping>>

\* The end of terminal_read: the line of the program that runs is taken.
TakeLine ==
    /\ Operation
    /\ schedule_idx = terminal_num /\ terminal_num \in enter_read
    /\ line' = [line EXCEPT ![terminal_num] = <<>>]
    /\ enter_read' = enter_read \ {terminal_num}
    /\ UNCHANGED <<page, cursors, row_letter_ct, fault, terminal_num, schedule_idx,
                   writers, mapping>>

\* execute looks at the name of the command.
Execute(isCat) ==
    /\ Operation
    /\ cat_flag' = IF isCat THEN cat_flag \cup {schedule_idx}
                   ELSE cat_flag \ {schedule_idx}
    /\ mapped' = mapped \ {schedule_idx}
    /\ UNCHANGED <<page, cursors, row_letter_ct, fault, input, terminal_num,
                   schedule_idx, hello_flag, user_page>>

\* vidmap maps video memory, whether the program is visible or not.
vidmap ==
    /\ Operation
    /\ mapped' = mapped \cup {schedule_idx}
    /\ user_page' = Video
    /\ UNCHANGED <<page, cursors, row_letter_ct, fault, input, terminal_num,
                   schedule_idx, writers>>

\* A program stores at 132 MB; fish draws there in its first columns.
Draw ==
    /\ Operation
    /\ schedule_idx \in mapped
    /\ page' = [page EXCEPT ![user_page][0] = Drawings[schedule_idx]]
    /\ UNCHANGED <<cursors, row_letter_ct, fault, input, terminal_num, schedule_idx,
                   writers, mapping>>

\* The timer: the next program, and the page for it.
NextTurn == (schedule_idx + 1) % PROCESS_NUMBER_PIT
UserPage_Before(t) == IF schedule_idx = terminal_num THEN Video ELSE PageOf(schedule_idx)
UserPage(t) == IF t = terminal_num THEN Video ELSE PageOf(t)
Pit ==
    /\ Operation
    /\ schedule_idx' = NextTurn
    /\ user_page' = UserPage(NextTurn)
    /\ UNCHANGED <<page, cursors, row_letter_ct, fault, input, terminal_num, writers,
                   mapped>>

Keyboard ==
    \/ KeyChar \/ KeyTab \/ KeyBackspace \/ KeyEnter \/ KeyClear
    \/ \E t \in Terminals : KeySwitch(t)
Program ==
    \/ \E text \in Texts[schedule_idx] : terminal_write(text)
    \/ KernelPrints \/ TakeLine \/ vidmap \/ Draw
    \/ \E isCat \in BOOLEAN : Execute(isCat)
Next == Keyboard \/ Program \/ Pit
Spec == Init /\ [][Next]_vars

-----------------------------------------------------------------------------
(* Properties. *)

\* Every variable has its type; the row counter is a byte, and the cursor may
\* stand before the first column (a remainder in C keeps its sign) and, until
\* the next character, below the last row (lib.c:182-226).
Columns == 1 - NUM_COLS .. NUM_COLS - 1
TypeOK ==
    /\ DOMAIN page = Pages /\ \A p \in Pages : DOMAIN page[p] = Cells
    /\ {screen_x} \cup Range(save_x) \subseteq Columns
    /\ {screen_y} \cup Range(save_y) \subseteq 0 .. NUM_ROWS
    /\ row_letter_ct \in 0 .. 255
    /\ \A t \in Terminals : Len(line[t]) < BUFFER_LIM
    /\ {terminal_num, schedule_idx} \subseteq Terminals
    /\ enter_read \cup cat_flag \cup mapped \subseteq Terminals
    /\ user_page \in Pages

\* What is typed, printed and drawn on behalf of a terminal shows on the screen
\* of that terminal and of no other, however the user switches and the timer
\* ticks; messages of the kernel and drawings are apart (terminal.c:142-161).
Marks(t) ==
    {Blank, ">", Keys[t]} \cup ToSet(Message) \cup Range(Drawings)
    \cup UNION {ToSet(text.bytes) : text \in Texts[t]}
OwnText == \A t \in Terminals : Range(View(t).text) \subseteq Marks(t)

\* A step changes no other screen than the one the user sees and the one of the
\* program that runs: the newline that terminal_write puts on the wrong screen
\* (terminal.c:171-179), vidmap of a hidden program (system_call.c:697) and a
\* user page that a switch has made stale (keyboard.c:539) reach no third one.
OnlyActorsChange ==
    [][\A t \in Terminals \ {terminal_num, schedule_idx} : View(t)' = View(t)]_vars

\* Alt+Fn keeps every screen, contents and cursor (keyboard.c:534-540).
SwitchKeepsScreens ==
    [][terminal_num' # terminal_num => \A t \in Terminals : View(t)' = View(t)]_vars

\* While the row counter agrees with the cursor, or says that the row of the
\* cursor is full, typing appends to what is on the screen, over the end of a
\* row too, and backspace takes the last character away, over the start of a row
\* too, where the counter, a byte, passes below zero and comes back
\* (keyboard.c:184-216, 504-512).  Between a full row and the next character it
\* erases the row above: not so there.
Agree == row_letter_ct = Byte(screen_x)
RowFull == row_letter_ct = ROW_LIM /\ screen_x = 0
BlankFrom(text, first) == \A k \in Cells : k >= first => text[k] = Blank
NextCell == At(Visible) + (IF RowFull THEN NUM_COLS ELSE 0)
Prints(key) == key \notin Silent \cup {"tab", "backspace"}
Shown == Reading(page[Video])
TypedInOrder ==
    [][/\ (/\ KeyChar /\ Prints(Keys[terminal_num])
           /\ Agree \/ RowFull
           /\ BlankFrom(page[Video], NextCell)) =>
             /\ Agree' \/ RowFull'
             /\ Shown' # <<>> /\ IsSuffix(Shown', Append(Shown, Keys[terminal_num]))
       /\ (/\ KeyBackspace /\ Last(line[terminal_num]) = "char"
           /\ Agree /\ BlankFrom(page[Video], NextCell) /\ screen_x > 1 - NUM_COLS
           /\ At(Visible) \in Cells
           /\ At(Visible) > 0 /\ page[Video][At(Visible) - 1] \notin Silent) =>
             Agree' /\ Shown' = Front(Shown)]_vars

\* A program's screen gets the same from a write whether or not the user looks
\* at it: putc and background_putc agree (lib.c:182-277).  Tabs are apart, where
\* putc alone breaks a full row, and so are the newlines behind the text: they
\* go to the visible screen.
Written(text) ==
    LET v == View(schedule_idx)
    IN  PutBytes(TRUE, [text |-> v.text, x |-> v.x, y |-> v.y, row |-> 0,
                        fault |-> FALSE], text.bytes, FirstCount)
Tabless(text) == "tab" \notin ToSet(text.bytes)
SeenOrNot ==
    [][\A text \in Texts[schedule_idx] :
          terminal_write(text) /\ Newlines(text) = 0 /\ Tabless(text) =>
             LET v == View(schedule_idx)'
                 c == Written(text)
             IN  v.text = c.text /\ v.x = c.x /\ v.y = c.y]_vars

\* A text written from the column that terminal_write counts from, onto blank
\* cells, can be read on the screen, whatever rows it fills, if there is room
\* for it and for the newlines behind it; one that starts elsewhere, or has
\* tabs, may run over itself (terminal.c:127-163).
Glyphs(text) == ReadCells(text.bytes, 1, Len(text.bytes))
Plain(text) == Tabless(text) /\ "backspace" \notin ToSet(text.bytes)
                             /\ "newline" \notin ToSet(Front(text.bytes))
WriteIsReadable ==
    [][\A text \in Texts[schedule_idx] :
          (/\ terminal_write(text) /\ Plain(text)
           /\ FirstCount = View(schedule_idx).x
           /\ BlankFrom(View(schedule_idx).text, At(View(schedule_idx)))
           /\ FirstCount + Len(text.bytes) + NUM_COLS * Newlines(text)
                <= NUM_COLS * NUM_ROWS) =>
             IsSuffix(Glyphs(text), Reading((View(schedule_idx)').text))]_vars

\* The comment on backspace (keyboard.c:88): it "doesn't delete past the start
\* of the new line".
StoresOnScreen == ~fault
=============================================================================
