------------------------------ MODULE Console ------------------------------
(***************************************************************************)
(* The text console of lib.c, as operators on a record: the cells of one   *)
(* video page (text), a cursor (x, y), the counter row_letter_ct (row) and *)
(* whether a store missed the page (fault).  putc works on video memory    *)
(* and background_putc on the page of a terminal that is not visible; the  *)
(* source has two copies of the code and so has this module.  A loop of    *)
(* the source is a function of the number of its rounds.                   *)
(***************************************************************************)
EXTENDS Integers, Sequences, SequencesExt

CONSTANTS
    NUM_COLS, NUM_ROWS,  \* size of the screen (80 and 25)
    TAB_WIDTH            \* blanks that a tab prints (4)

ASSUME ConsoleConstants ==
    /\ NUM_COLS \in 2..127 /\ NUM_ROWS \in Nat \ {0}
    /\ TAB_WIDTH \in Nat \ {0}

ROW_LIM == NUM_COLS
Cells == 0 .. NUM_COLS * NUM_ROWS - 1
Blank == " "
EmptyScreen == [k \in Cells |-> Blank]

\* What C's % leaves of a column that moved by one.
Rem(x) == IF x \in {NUM_COLS, -NUM_COLS} THEN 0 ELSE x
Byte(n) == n % 256

At(c) == NUM_COLS * c.y + c.x
MoveTo(c, x) == [c EXCEPT !.x = Rem(x), !.y = c.y % NUM_ROWS]
Store(c, char) ==
    IF At(c) \in Cells THEN [c EXCEPT !.text[At(c)] = char]
                       ELSE [c EXCEPT !.fault = TRUE]

Newline(c) == [c EXCEPT !.x = 0, !.y = c.y + 1]
Character(c, char) == LET d == Store(c, char) IN MoveTo(d, d.x + 1)
Backspace(c) == Store(MoveTo(c, c.x - 1), Blank)

-----------------------------------------------------------------------------
(* The visible console. *)

vertical_scroll(c) ==
    [c EXCEPT !.text = [k \in Cells |->
                  IF k + NUM_COLS \in Cells THEN c.text[k + NUM_COLS] ELSE Blank],
              !.x = 0, !.y = NUM_ROWS - 1]

RollUp(c) == IF At(c) >= NUM_COLS * NUM_ROWS THEN vertical_scroll(c) ELSE c

\* One of the blanks of a tab.  The newline of a full row may leave the cursor
\* below the last row, and the remainder by NUM_ROWS then takes it to the top.
TabStep(c) ==
    LET d == IF c.row = NUM_COLS THEN [Newline(RollUp(c)) EXCEPT !.row = 0] ELSE c
    IN  Store(MoveTo([d EXCEPT !.row = Byte(d.row + 1)], d.x + 1), Blank)

Tab(c) ==
    LET blanked[k \in 0 .. TAB_WIDTH] == IF k = 0 THEN c ELSE TabStep(blanked[k - 1])
    IN  blanked[TAB_WIDTH]

putc(c, char) ==
    CASE char = "backspace" -> Backspace(RollUp(c))
      [] char = "tab"       -> Tab(RollUp(c))
      [] char = "newline"   -> Newline(RollUp(c))
      [] OTHER              -> Character(RollUp(c), char)

clear(c) == [c EXCEPT !.text = EmptyScreen, !.x = 0, !.y = 0]

-----------------------------------------------------------------------------
(* The console of a terminal in the background. *)

background_scroll(c) ==
    LET lastRow == NUM_COLS * (NUM_ROWS - 1)
    IN  [c EXCEPT !.text = [k \in Cells |->
                      IF k < lastRow THEN c.text[k + NUM_COLS] ELSE Blank],
                  !.x = 0, !.y = NUM_ROWS - 1]

BackgroundRollUp_Late(c) ==
    IF At(c) > NUM_COLS * NUM_ROWS THEN background_scroll(c) ELSE c
BackgroundRollUp(c) ==
    IF At(c) >= NUM_COLS * NUM_ROWS THEN background_scroll(c) ELSE c

BackgroundTabStep(c) == Store(MoveTo(c, c.x + 1), Blank)
BackgroundTab(c) ==
    LET blanked[k \in 0 .. TAB_WIDTH] ==
            IF k = 0 THEN c ELSE BackgroundTabStep(blanked[k - 1])
    IN  blanked[TAB_WIDTH]

background_putc(c, char) ==
    CASE char = "backspace" -> Backspace(BackgroundRollUp(c))
      [] char = "tab"       -> BackgroundTab(BackgroundRollUp(c))
      [] char = "newline"   -> Newline(BackgroundRollUp(c))
      [] OTHER              -> Character(BackgroundRollUp(c), char)

-----------------------------------------------------------------------------
(* The loop of terminal_write over the bytes of a buffer.  It counts what it *)
(* puts on a row, the newline itself included, and breaks a full row.        *)

\* Which of the two copies prints.
Put(visible, c, char) == IF visible THEN putc(c, char) ELSE background_putc(c, char)

WriteByte_Late(visible, w, byte) ==
    LET broken  == w.line_ct > ROW_LIM /\ byte \notin {"nul", "newline"}
        started == IF broken THEN [console |-> Put(visible, w.console, "newline"), line_ct |-> 0]
                   ELSE IF byte = "newline" THEN [w EXCEPT !.line_ct = 0] ELSE w
    IN  IF byte = "nul" THEN started
        ELSE [console |-> Put(visible, started.console, byte), line_ct |-> started.line_ct + 1]
WriteByte(visible, w, byte) ==
    LET broken  == w.line_ct = ROW_LIM /\ byte \notin {"nul", "newline"}
        started == IF broken THEN [console |-> Put(visible, w.console, "newline"), line_ct |-> 0]
                   ELSE IF byte = "newline" THEN [w EXCEPT !.line_ct = 0] ELSE w
    IN  IF byte = "nul" THEN started
        ELSE [console |-> Put(visible, started.console, byte), line_ct |-> started.line_ct + 1]

PutBytes(visible, c, bytes, line_ct) ==
    LET written[n \in 0 .. Len(bytes)] ==
            IF n = 0 THEN [console |-> c, line_ct |-> line_ct]
            ELSE WriteByte(visible, written[n - 1], bytes[n])
    IN  written[Len(bytes)].console

\* What one can read in n cells from a first one on; blanks and what prints
\* nothing do not count.
Silent == {Blank, "nul", "newline"}
ReadCells(text, from, n) ==
    LET read[k \in 0 .. n] ==
            IF k = 0 THEN <<>>
            ELSE IF text[from + k - 1] \in Silent THEN read[k - 1]
            ELSE Append(read[k - 1], text[from + k - 1])
    IN  read[n]
Reading(text) == ReadCells(text, 0, NUM_COLS * NUM_ROWS)
=============================================================================
