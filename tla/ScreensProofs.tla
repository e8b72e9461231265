--------------------------- MODULE ScreensProofs ---------------------------
(***************************************************************************)
(* Theorems about Screens, for every size of a screen, number of terminals *)
(* and set of texts.  The first two hold whatever putc and background_putc *)
(* do with the cells of the page that they are given: on which screens a   *)
(* step can be seen, and what Alt+Fn keeps.  The others follow the two     *)
(* copies of putc through the loops that call them.                        *)
(***************************************************************************)
EXTENDS Screens, Loops, SequenceTheorems, TLAPS

\* Two pages never share their place, and none lies in video memory.
LEMMA PagesApart ==
    /\ Video \in Pages
    /\ \A t \in Terminals : PageOf(t) \in Pages /\ PageOf(t) # Video
    /\ \A t, u \in Terminals : PageOf(t) = PageOf(u) => t = u
BY ScreenConstants DEF Video, Pages, PageOf, Terminals

\* Every page and every saved cursor has its place; a drawing goes to the page
\* on the screen or to the one of the program that runs.
Shape ==
    /\ page = [p \in Pages |-> page[p]]
    /\ save_x = [t \in Terminals |-> save_x[t]]
    /\ save_y = [t \in Terminals |-> save_y[t]]
    /\ terminal_num \in Terminals /\ schedule_idx \in Terminals
Drawable == user_page \in {Video, PageOf(schedule_idx)}
ScreenInv == Shape /\ Drawable

-----------------------------------------------------------------------------
(* The three ways in which a step treats the screens. *)

\* The visible screen alone.
EchoStep ==
    /\ \E text : page' = [page EXCEPT ![Video] = text]
    /\ UNCHANGED <<save_x, save_y, terminal_num, schedule_idx, user_page>>

\* The visible screen and the one of the program that runs.
WriteStep ==
    /\ \E hidden, seen :
          page' = [page EXCEPT ![PageOf(schedule_idx)] = hidden, ![Video] = seen]
    /\ \E x : save_x' = [save_x EXCEPT ![schedule_idx] = x]
    /\ \E y : save_y' = [save_y EXCEPT ![schedule_idx] = y]
    /\ UNCHANGED <<terminal_num, schedule_idx, user_page>>

\* No screen at all.
SilentStep ==
    /\ UNCHANGED <<page, screen_x, screen_y, save_x, save_y, terminal_num>>
    /\ schedule_idx' \in Terminals
    /\ user_page' \in {Video, PageOf(schedule_idx')}

DrawStep ==
    /\ \E text : page' = [page EXCEPT ![user_page] = text]
    /\ UNCHANGED <<screen_x, screen_y, save_x, save_y, terminal_num, schedule_idx,
                   user_page>>

SwitchStep == \E t \in Terminals : KeySwitch(t)

\* Keys and kernel messages draw in video memory at the visible cursor.
LEMMA KeysEcho ==
    ASSUME KeyChar \/ KeyTab \/ KeyBackspace \/ KeyEnter \/ KeyClear \/ KernelPrints
    PROVE  EchoStep
<1>1. KeyUnchanged => UNCHANGED <<terminal_num, schedule_idx, user_page>>
  BY DEF KeyUnchanged, mapping
<1>2. ASSUME NEW c, Shows(c)
      PROVE  /\ \E text : page' = [page EXCEPT ![Video] = text]
             /\ UNCHANGED <<save_x, save_y>>
  BY <1>2 DEF Shows
<1>3. CASE KeyChar
  BY <1>1, <1>2, <1>3 DEF KeyChar, EchoStep
<1>4. CASE KeyTab
  BY <1>1, <1>2, <1>4 DEF KeyTab, EchoStep
<1>5. CASE KeyBackspace
  BY <1>1, <1>2, <1>5 DEF KeyBackspace, EchoStep
<1>6. CASE KeyEnter
  BY <1>1, <1>2, <1>6 DEF KeyEnter, EchoStep
<1>7. CASE KeyClear
  BY <1>1, <1>2, <1>7 DEF KeyClear, EchoStep
<1>8. CASE KernelPrints
  BY <1>2, <1>8 DEF KernelPrints, EchoStep, mapping
<1> QED
  BY <1>3, <1>4, <1>5, <1>6, <1>7, <1>8

\* A program draws on its own page, or on the screen when it is visible.
LEMMA WritesWrite ==
    ASSUME ScreenInv, NEW text, terminal_write(text)
    PROVE  EchoStep \/ WriteStep
<1>1. UNCHANGED <<terminal_num, schedule_idx, user_page>>
  BY DEF terminal_write, mapping
<1>2. CASE InForeground
  <2>1. WriteVisible(text)
    BY <1>2 DEF terminal_write
  <2>2. PICK c : Shows(c)
    BY <2>1 DEF WriteVisible
  <2> QED
    BY <1>1, <2>2 DEF Shows, EchoStep
<1>3. CASE ~InForeground
  <2>1. WriteHidden(text)
    BY <1>3 DEF terminal_write
  <2> QED
    BY <1>1, <2>1 DEF WriteHidden, WriteStep
<1> QED
  BY <1>2, <1>3

\* What every step is, as far as the screens can tell.
LEMMA StepKinds ==
    ASSUME ScreenInv, Next
    PROVE  EchoStep \/ WriteStep \/ SilentStep \/ DrawStep \/ SwitchStep
<1>1. CASE Keyboard
  BY <1>1, KeysEcho DEF Keyboard, SwitchStep
<1>2. CASE \E text \in Texts[schedule_idx] : terminal_write(text)
  BY <1>2, WritesWrite
<1>3. CASE KernelPrints
  BY <1>3, KeysEcho
<1>4. CASE TakeLine
  BY <1>4 DEF TakeLine, SilentStep, ScreenInv, Shape, Drawable, cursors, mapping
<1>5. CASE vidmap
  BY <1>5 DEF vidmap, SilentStep, ScreenInv, Shape, cursors
<1>6. CASE Draw
  BY <1>6 DEF Draw, DrawStep, cursors, mapping
<1>7. CASE \E isCat \in BOOLEAN : Execute(isCat)
  BY <1>7 DEF Execute, SilentStep, ScreenInv, Shape, Drawable, cursors
<1>8. CASE Pit
  <2>1. NextTurn \in Terminals
    BY ScreenConstants DEF NextTurn, Terminals, ScreenInv, Shape
  <2> QED
    BY <1>8, <2>1 DEF Pit, SilentStep, UserPage, cursors
<1> QED
  BY <1>1, <1>2, <1>3, <1>4, <1>5, <1>6, <1>7, <1>8 DEF Next, Program

-----------------------------------------------------------------------------
(* The invariant. *)

\* The screens after the boot are three pages and none is drawn on.
LEMMA InvInit == Init => ScreenInv
BY PagesApart, ScreenConstants
   DEF Init, ScreenInv, Shape, Drawable, Newest, Terminals

\* Every step leaves the user page in video memory or on the running program's.
LEMMA InvNext == ScreenInv /\ [Next]_vars => ScreenInv'
<1> SUFFICES ASSUME ScreenInv, [Next]_vars
             PROVE  ScreenInv'
  OBVIOUS
<1>1. CASE EchoStep
  BY <1>1 DEF EchoStep, ScreenInv, Shape, Drawable
<1>2. CASE WriteStep
  BY <1>2 DEF WriteStep, ScreenInv, Shape, Drawable
<1>3. CASE SilentStep
  BY <1>3 DEF SilentStep, ScreenInv, Shape, Drawable
<1>4. CASE DrawStep
  BY <1>4 DEF DrawStep, ScreenInv, Shape, Drawable
<1>5. CASE SwitchStep
  BY <1>5 DEF SwitchStep, KeySwitch, SavedPages, mapping, ScreenInv, Shape, Drawable
<1>6. CASE UNCHANGED vars
  BY <1>6 DEF vars, cursors, mapping, ScreenInv, Shape, Drawable
<1> QED
  BY <1>1, <1>2, <1>3, <1>4, <1>5, <1>6, StepKinds

\* In every reachable state a drawing can only hit the page on the screen or
\* the page of the program that runs (scheduling.c:97-120, system_call.c:697).
THEOREM ScreenInvariant == Spec => []ScreenInv
<1> QED
  BY InvInit, InvNext, PTL DEF Spec

-----------------------------------------------------------------------------
(* The theorems. *)

\* A screen that is neither visible nor the running program's stays as it is.
LEMMA ActorsStep ==
    ASSUME ScreenInv, [Next]_vars,
           NEW t \in Terminals \ {terminal_num, schedule_idx}
    PROVE  View(t)' = View(t)
<1> USE DEF ScreenInv
<1>1. CASE EchoStep
  BY <1>1, PagesApart DEF EchoStep, Shape, View
<1>2. CASE WriteStep
  BY <1>2, PagesApart DEF WriteStep, Shape, View
<1>3. CASE SilentStep
  BY <1>3 DEF SilentStep, View
<1>4. CASE DrawStep
  BY <1>4, PagesApart DEF DrawStep, Shape, Drawable, View
<1>5. CASE SwitchStep
  <2>1. PICK next \in Terminals : KeySwitch(next)
    BY <1>5 DEF SwitchStep
  <2>2. CASE t = next
    BY <2>1, <2>2, PagesApart DEF KeySwitch, SavedPages, Shape, View
  <2>3. CASE t # next
    BY <2>1, <2>3, PagesApart DEF KeySwitch, SavedPages, Shape, View
  <2> QED
    BY <2>2, <2>3
<1>6. CASE UNCHANGED vars
  BY <1>6 DEF vars, cursors, View
<1> QED
  BY <1>1, <1>2, <1>3, <1>4, <1>5, <1>6, StepKinds

\* Whatever is typed, written, drawn, scheduled or switched: the step shows on
\* the screen the user sees or on the one of the program that runs.
THEOREM ActorsOnly == Spec => OnlyActorsChange
<1>1. ScreenInv /\ [Next]_vars =>
        [\A t \in Terminals \ {terminal_num, schedule_idx} : View(t)' = View(t)]_vars
  BY ActorsStep
<1> QED
  BY <1>1, ScreenInvariant, PTL DEF Spec, OnlyActorsChange

\* Alt+Fn copies the screen out and another in (keyboard.c:529-543).
LEMMA SwitchStepKeeps ==
    ASSUME ScreenInv, [Next]_vars, terminal_num' # terminal_num,
           NEW t \in Terminals
    PROVE  View(t)' = View(t)
<1>1. SwitchStep
  BY StepKinds DEF EchoStep, WriteStep, SilentStep, DrawStep, vars
<1>2. PICK next \in Terminals : KeySwitch(next)
  BY <1>1 DEF SwitchStep
<1>3. terminal_num' = next /\ next # terminal_num
  BY <1>2 DEF KeySwitch
<1>4. CASE t = next
  BY <1>2, <1>3, <1>4, PagesApart DEF KeySwitch, SavedPages, ScreenInv, Shape, View
<1>5. CASE t = terminal_num
  BY <1>2, <1>3, <1>5, PagesApart DEF KeySwitch, SavedPages, ScreenInv, Shape, View
<1>6. CASE t # next /\ t # terminal_num
  BY <1>2, <1>3, <1>6, PagesApart DEF KeySwitch, SavedPages, ScreenInv, Shape, View
<1> QED
  BY <1>4, <1>5, <1>6

\* Alt+Fn loses nothing: every terminal's screen and cursor are what they were.
THEOREM SwitchKeeps == Spec => SwitchKeepsScreens
<1>1. ScreenInv /\ [Next]_vars =>
        [terminal_num' # terminal_num =>
            \A t \in Terminals : View(t)' = View(t)]_vars
  BY SwitchStepKeeps
<1> QED
  BY <1>1, ScreenInvariant, PTL DEF Spec, SwitchKeepsScreens

-----------------------------------------------------------------------------
(* The rounds of the four loops. *)

LEMMA TabRounds ==
    ASSUME NEW S, NEW c \in S, \A d \in S : TabStep(d) \in S
    PROVE  \E f \in [0 .. TAB_WIDTH -> S] :
               /\ f[0] = c /\ \A n \in 1 .. TAB_WIDTH : f[n] = TabStep(f[n - 1])
               /\ Tab(c) = f[TAB_WIDTH]
<1>1. TAB_WIDTH \in Nat
  BY ConsoleConstants
<1>2. PICK F \in [1 .. TAB_WIDTH -> [S -> S]] :
          \A n \in 1 .. TAB_WIDTH, d \in S : F[n][d] = TabStep(d)
  <2> DEFINE G == [n \in 1 .. TAB_WIDTH |-> [d \in S |-> TabStep(d)]]
  <2>1. /\ G \in [1 .. TAB_WIDTH -> [S -> S]]
        /\ \A n \in 1 .. TAB_WIDTH, d \in S : G[n][d] = TabStep(d)
    OBVIOUS
  <2> HIDE DEF G
  <2> QED
    BY <2>1
<1>3. PICK f : Rounds(f, S, TAB_WIDTH, c, F)
  BY <1>1, <1>2, LoopExists
<1>4. f = [n \in 0 .. TAB_WIDTH |-> IF n = 0 THEN c ELSE TabStep(f[n - 1])]
  <2>1. ASSUME NEW n \in 0 .. TAB_WIDTH
        PROVE  f[n] = IF n = 0 THEN c ELSE TabStep(f[n - 1])
    <3>1. CASE n # 0
      <4>1. n \in 1 .. TAB_WIDTH /\ n - 1 \in 0 .. TAB_WIDTH
        BY <1>1, <3>1
      <4>2. f[n] = F[n][f[n - 1]] /\ f[n - 1] \in S
        BY <1>3, <4>1 DEF Rounds
      <4> QED
        BY <1>2, <3>1, <4>1, <4>2
    <3> QED
      BY <1>3, <3>1 DEF Rounds
  <2>2. f = [n \in 0 .. TAB_WIDTH |-> f[n]]
    BY <1>3 DEF Rounds
  <2> QED
    BY <2>1, <2>2
<1> DEFINE W == CHOOSE w : w = [n \in 0 .. TAB_WIDTH |->
                                   IF n = 0 THEN c ELSE TabStep(w[n - 1])]
<1>5. W = [n \in 0 .. TAB_WIDTH |-> IF n = 0 THEN c ELSE TabStep(W[n - 1])]
  BY <1>4
<1>6. Tab(c) = W[TAB_WIDTH]
  BY DEF Tab
<1> HIDE DEF W
<1>7. W[0] = c /\ \A n \in 1 .. TAB_WIDTH : W[n] = TabStep(W[n - 1])
  BY <1>1, <1>5
<1>8. \A n \in 0 .. TAB_WIDTH : W[n] \in S
  BY <1>1, <1>7, LoopKeeps
<1>9. W \in [0 .. TAB_WIDTH -> S]
  BY <1>5, <1>8
<1> QED
  BY <1>6, <1>7, <1>9

LEMMA BackgroundTabRounds ==
    ASSUME NEW S, NEW c \in S, \A d \in S : BackgroundTabStep(d) \in S
    PROVE  \E f \in [0 .. TAB_WIDTH -> S] :
               /\ f[0] = c /\ \A n \in 1 .. TAB_WIDTH : f[n] = BackgroundTabStep(f[n - 1])
               /\ BackgroundTab(c) = f[TAB_WIDTH]
<1>1. TAB_WIDTH \in Nat
  BY ConsoleConstants
<1>2. PICK F \in [1 .. TAB_WIDTH -> [S -> S]] :
          \A n \in 1 .. TAB_WIDTH, d \in S : F[n][d] = BackgroundTabStep(d)
  <2> DEFINE G == [n \in 1 .. TAB_WIDTH |-> [d \in S |-> BackgroundTabStep(d)]]
  <2>1. /\ G \in [1 .. TAB_WIDTH -> [S -> S]]
        /\ \A n \in 1 .. TAB_WIDTH, d \in S : G[n][d] = BackgroundTabStep(d)
    OBVIOUS
  <2> HIDE DEF G
  <2> QED
    BY <2>1
<1>3. PICK f : Rounds(f, S, TAB_WIDTH, c, F)
  BY <1>1, <1>2, LoopExists
<1>4. f = [n \in 0 .. TAB_WIDTH |-> IF n = 0 THEN c ELSE BackgroundTabStep(f[n - 1])]
  <2>1. ASSUME NEW n \in 0 .. TAB_WIDTH
        PROVE  f[n] = IF n = 0 THEN c ELSE BackgroundTabStep(f[n - 1])
    <3>1. CASE n # 0
      <4>1. n \in 1 .. TAB_WIDTH /\ n - 1 \in 0 .. TAB_WIDTH
        BY <1>1, <3>1
      <4>2. f[n] = F[n][f[n - 1]] /\ f[n - 1] \in S
        BY <1>3, <4>1 DEF Rounds
      <4> QED
        BY <1>2, <3>1, <4>1, <4>2
    <3> QED
      BY <1>3, <3>1 DEF Rounds
  <2>2. f = [n \in 0 .. TAB_WIDTH |-> f[n]]
    BY <1>3 DEF Rounds
  <2> QED
    BY <2>1, <2>2
<1> DEFINE W == CHOOSE w : w = [n \in 0 .. TAB_WIDTH |->
                                   IF n = 0 THEN c ELSE BackgroundTabStep(w[n - 1])]
<1>5. W = [n \in 0 .. TAB_WIDTH |-> IF n = 0 THEN c ELSE BackgroundTabStep(W[n - 1])]
  BY <1>4
<1>6. BackgroundTab(c) = W[TAB_WIDTH]
  BY DEF BackgroundTab
<1> HIDE DEF W
<1>7. W[0] = c /\ \A n \in 1 .. TAB_WIDTH : W[n] = BackgroundTabStep(W[n - 1])
  BY <1>1, <1>5
<1>8. \A n \in 0 .. TAB_WIDTH : W[n] \in S
  BY <1>1, <1>7, LoopKeeps
<1>9. W \in [0 .. TAB_WIDTH -> S]
  BY <1>5, <1>8
<1> QED
  BY <1>6, <1>7, <1>9

LEMMA PutAllRounds ==
    ASSUME NEW S, NEW c \in S, NEW B, NEW bytes \in Seq(B),
           \A d \in S, b \in B : putc(d, b) \in S
    PROVE  \E f \in [0 .. Len(bytes) -> S] :
               /\ f[0] = c /\ \A n \in 1 .. Len(bytes) : f[n] = putc(f[n - 1], bytes[n])
               /\ PutAll(c, bytes) = f[Len(bytes)]
<1>1. Len(bytes) \in Nat
  OBVIOUS
<1>2. PICK F \in [1 .. Len(bytes) -> [S -> S]] :
          \A n \in 1 .. Len(bytes), d \in S : F[n][d] = putc(d, bytes[n])
  <2> DEFINE G == [n \in 1 .. Len(bytes) |-> [d \in S |-> putc(d, bytes[n])]]
  <2>1. /\ G \in [1 .. Len(bytes) -> [S -> S]]
        /\ \A n \in 1 .. Len(bytes), d \in S : G[n][d] = putc(d, bytes[n])
    OBVIOUS
  <2> HIDE DEF G
  <2> QED
    BY <2>1
<1>3. PICK f : Rounds(f, S, Len(bytes), c, F)
  BY <1>1, <1>2, LoopExists
<1>4. f = [n \in 0 .. Len(bytes) |-> IF n = 0 THEN c ELSE putc(f[n - 1], bytes[n])]
  <2>1. ASSUME NEW n \in 0 .. Len(bytes)
        PROVE  f[n] = IF n = 0 THEN c ELSE putc(f[n - 1], bytes[n])
    <3>1. CASE n # 0
      <4>1. n \in 1 .. Len(bytes) /\ n - 1 \in 0 .. Len(bytes)
        BY <1>1, <3>1
      <4>2. f[n] = F[n][f[n - 1]] /\ f[n - 1] \in S
        BY <1>3, <4>1 DEF Rounds
      <4> QED
        BY <1>2, <3>1, <4>1, <4>2
    <3> QED
      BY <1>3, <3>1 DEF Rounds
  <2>2. f = [n \in 0 .. Len(bytes) |-> f[n]]
    BY <1>3 DEF Rounds
  <2> QED
    BY <2>1, <2>2
<1> DEFINE W == CHOOSE w : w = [n \in 0 .. Len(bytes) |->
                                   IF n = 0 THEN c ELSE putc(w[n - 1], bytes[n])]
<1>5. W = [n \in 0 .. Len(bytes) |-> IF n = 0 THEN c ELSE putc(W[n - 1], bytes[n])]
  BY <1>4
<1>6. PutAll(c, bytes) = W[Len(bytes)]
  BY DEF PutAll
<1> HIDE DEF W
<1>7. W[0] = c /\ \A n \in 1 .. Len(bytes) : W[n] = putc(W[n - 1], bytes[n])
  BY <1>1, <1>5
<1>8. \A n \in 0 .. Len(bytes) : W[n] \in S
  <2>1. \A n \in 1 .. Len(bytes) : bytes[n] \in B
    BY ElementOfSeq
  <2>2. \A n \in 1 .. Len(bytes) : W[n - 1] \in S => W[n] \in S
    BY <1>7, <2>1
  <2> QED
    BY <1>1, <1>7, <2>2, LoopKeeps
<1>9. W \in [0 .. Len(bytes) -> S]
  BY <1>5, <1>8
<1> QED
  BY <1>6, <1>7, <1>9

LEMMA PutBytesRounds ==
    ASSUME NEW visible \in BOOLEAN, NEW c, NEW line_ct, NEW S, NEW B,
           [console |-> c, line_ct |-> line_ct] \in S, NEW bytes \in Seq(B),
           \A d \in S, b \in B : WriteByte(visible, d, b) \in S
    PROVE  \E f \in [0 .. Len(bytes) -> S] :
               /\ f[0] = [console |-> c, line_ct |-> line_ct]
               /\ \A n \in 1 .. Len(bytes) : f[n] = WriteByte(visible, f[n - 1], bytes[n])
               /\ PutBytes(visible, c, bytes, line_ct) = f[Len(bytes)].console
<1>1. Len(bytes) \in Nat
  OBVIOUS
<1>2. PICK F \in [1 .. Len(bytes) -> [S -> S]] :
          \A n \in 1 .. Len(bytes), d \in S : F[n][d] = WriteByte(visible, d, bytes[n])
  <2> DEFINE G == [n \in 1 .. Len(bytes) |-> [d \in S |-> WriteByte(visible, d, bytes[n])]]
  <2>1. /\ G \in [1 .. Len(bytes) -> [S -> S]]
        /\ \A n \in 1 .. Len(bytes), d \in S : G[n][d] = WriteByte(visible, d, bytes[n])
    OBVIOUS
  <2> HIDE DEF G
  <2> QED
    BY <2>1
<1>3. PICK f : Rounds(f, S, Len(bytes), [console |-> c, line_ct |-> line_ct], F)
  BY <1>1, <1>2, LoopExists
<1>4. f = [n \in 0 .. Len(bytes) |->
              IF n = 0 THEN [console |-> c, line_ct |-> line_ct]
              ELSE WriteByte(visible, f[n - 1], bytes[n])]
  <2>1. ASSUME NEW n \in 0 .. Len(bytes)
        PROVE  f[n] = IF n = 0 THEN [console |-> c, line_ct |-> line_ct]
                      ELSE WriteByte(visible, f[n - 1], bytes[n])
    <3>1. CASE n # 0
      <4>1. n \in 1 .. Len(bytes) /\ n - 1 \in 0 .. Len(bytes)
        BY <1>1, <3>1
      <4>2. f[n] = F[n][f[n - 1]] /\ f[n - 1] \in S
        BY <1>3, <4>1 DEF Rounds
      <4> QED
        BY <1>2, <3>1, <4>1, <4>2
    <3> QED
      BY <1>3, <3>1 DEF Rounds
  <2>2. f = [n \in 0 .. Len(bytes) |-> f[n]]
    BY <1>3 DEF Rounds
  <2> QED
    BY <2>1, <2>2
<1> DEFINE W == CHOOSE w : w = [n \in 0 .. Len(bytes) |->
                       IF n = 0 THEN [console |-> c, line_ct |-> line_ct]
                       ELSE WriteByte(visible, w[n - 1], bytes[n])]
<1>5. W = [n \in 0 .. Len(bytes) |->
              IF n = 0 THEN [console |-> c, line_ct |-> line_ct]
              ELSE WriteByte(visible, W[n - 1], bytes[n])]
  BY <1>4
<1>6. PutBytes(visible, c, bytes, line_ct) = W[Len(bytes)].console
  BY DEF PutBytes
<1> HIDE DEF W
<1>7. /\ W[0] = [console |-> c, line_ct |-> line_ct]
      /\ \A n \in 1 .. Len(bytes) : W[n] = WriteByte(visible, W[n - 1], bytes[n])
  BY <1>1, <1>5
<1>8. \A n \in 0 .. Len(bytes) : W[n] \in S
  <2>1. \A n \in 1 .. Len(bytes) : bytes[n] \in B
    BY ElementOfSeq
  <2>2. \A n \in 1 .. Len(bytes) : W[n - 1] \in S => W[n] \in S
    BY <1>7, <2>1
  <2> QED
    BY <1>1, <1>7, <2>2, LoopKeeps
<1>9. W \in [0 .. Len(bytes) -> S]
  BY <1>5, <1>8
<1> QED
  BY <1>6, <1>7, <1>9

-----------------------------------------------------------------------------
(* Both copies of putc keep a console whole. *)

Placed(x, y) == x \in Columns /\ y \in 0 .. NUM_ROWS /\ (y = NUM_ROWS => x = 0)

\* The consoles that show nothing but M.
Consoles(M) ==
    {c \in [text : [Cells -> M], x : Columns, y : 0 .. NUM_ROWS, row : 0 .. 255,
            fault : BOOLEAN] : Placed(c.x, c.y)}
Controls == {"backspace", "tab", "newline"}

LEMMA SizeFacts ==
    /\ NUM_COLS \in Nat /\ NUM_COLS >= 2 /\ NUM_COLS <= 127
    /\ NUM_ROWS \in Nat /\ NUM_ROWS >= 1
    /\ NUM_COLS * NUM_ROWS \in Nat /\ NUM_COLS * NUM_ROWS >= NUM_COLS
    /\ NUM_COLS * (NUM_ROWS - 1) = NUM_COLS * NUM_ROWS - NUM_COLS
    /\ 0 \in Cells
<1>1. /\ NUM_COLS \in Nat /\ NUM_COLS >= 2 /\ NUM_COLS <= 127
      /\ NUM_ROWS \in Nat /\ NUM_ROWS >= 1
  BY ConsoleConstants
<1>2. NUM_COLS * NUM_ROWS \in Nat /\ NUM_COLS * NUM_ROWS >= NUM_COLS
  BY <1>1
<1>3. NUM_COLS * (NUM_ROWS - 1) = NUM_COLS * NUM_ROWS - NUM_COLS
  BY <1>1
<1> QED
  BY <1>1, <1>2, <1>3 DEF Cells

LEMMA ConsoleIs ==
    ASSUME NEW M, NEW c,
           c = [text |-> c.text, x |-> c.x, y |-> c.y, row |-> c.row, fault |-> c.fault],
           c.text \in [Cells -> M], Placed(c.x, c.y), c.row \in 0 .. 255,
           c.fault \in BOOLEAN
    PROVE  c \in Consoles(M)
BY DEF Consoles, Placed

LEMMA ConsoleHas ==
    ASSUME NEW M, NEW c \in Consoles(M)
    PROVE  /\ c = [text |-> c.text, x |-> c.x, y |-> c.y, row |-> c.row, fault |-> c.fault]
           /\ c.text \in [Cells -> M] /\ Placed(c.x, c.y)
           /\ c.x \in Int /\ c.y \in Nat /\ c.row \in 0 .. 255 /\ c.fault \in BOOLEAN
<1>1. c \in [text : [Cells -> M], x : Columns, y : 0 .. NUM_ROWS, row : 0 .. 255,
             fault : BOOLEAN] /\ Placed(c.x, c.y)
  BY DEF Consoles
<1>2. c.x \in Int /\ c.y \in Nat
  BY <1>1, SizeFacts DEF Columns
<1> QED
  BY <1>1, <1>2

LEMMA StoreKeeps ==
    ASSUME NEW M, NEW c \in Consoles(M), NEW char \in M
    PROVE  /\ Store(c, char) \in Consoles(M)
           /\ Store(c, char).x = c.x /\ Store(c, char).y = c.y
           /\ Store(c, char).row = c.row
<1> DEFINE d == Store(c, char)
<1>0. PICK text, x0, y0, row0, fault0 :
          c = [text |-> text, x |-> x0, y |-> y0, row |-> row0, fault |-> fault0]
  BY ConsoleHas
<1>1. /\ d = [text |-> d.text, x |-> c.x, y |-> c.y, row |-> c.row, fault |-> d.fault]
      /\ d.text = c.text \/ d.text = [c.text EXCEPT ![At(c)] = char]
      /\ d.fault \in BOOLEAN
  <2>1. c.fault \in BOOLEAN /\ c.fault = fault0
    BY <1>0, ConsoleHas
  <2>2. CASE At(c) \in Cells
    <3>1. d = [c EXCEPT !.text[At(c)] = char]
      BY <2>2 DEF Store
    <3>2. PICK k : k = At(c)
      OBVIOUS
    <3>3. d = [text |-> [text EXCEPT ![k] = char], x |-> x0, y |-> y0, row |-> row0,
               fault |-> fault0]
      BY <1>0, <3>1, <3>2
    <3> HIDE DEF d
    <3> QED
      BY <1>0, <2>1, <3>2, <3>3
  <2>3. CASE At(c) \notin Cells
    <3>1. d = [c EXCEPT !.fault = TRUE]
      BY <2>3 DEF Store
    <3> HIDE DEF d
    <3> QED
      BY <1>0, <3>1
  <2> QED
    BY <2>2, <2>3
<1> HIDE DEF d
<1>2. d.text \in [Cells -> M]
  BY <1>1, ConsoleHas
<1>3. d \in Consoles(M)
  BY <1>1, <1>2, ConsoleHas, ConsoleIs
<1> QED
  BY <1>1, <1>3 DEF d

LEMMA MoveToKeeps ==
    ASSUME NEW M, NEW c \in Consoles(M), NEW x \in -NUM_COLS .. NUM_COLS
    PROVE  /\ MoveTo(c, x) \in Consoles(M)
           /\ MoveTo(c, x).y < NUM_ROWS /\ MoveTo(c, x).row = c.row
<1> DEFINE d == MoveTo(c, x)
<1>1. d = [text |-> c.text, x |-> Rem(x), y |-> c.y % NUM_ROWS, row |-> c.row,
           fault |-> c.fault]
  <2>1. PICK text, x0, y0, row0, fault0 :
            c = [text |-> text, x |-> x0, y |-> y0, row |-> row0, fault |-> fault0]
    BY ConsoleHas
  <2>2. PICK column, row : column = Rem(x) /\ row = c.y % NUM_ROWS
    OBVIOUS
  <2>3. d = [c EXCEPT !.x = column, !.y = row]
    BY <2>2 DEF MoveTo
  <2> HIDE DEF d
  <2>4. d = [text |-> text, x |-> column, y |-> row, row |-> row0, fault |-> fault0]
    BY <2>1, <2>3
  <2> QED
    BY <2>1, <2>2, <2>4
<1>2. Rem(x) \in Columns
  BY SizeFacts DEF Rem, Columns
<1>3. c.y % NUM_ROWS \in 0 .. NUM_ROWS - 1
  BY ConsoleHas, SizeFacts
<1> HIDE DEF d
<1>4. d.y < NUM_ROWS /\ d.row = c.row /\ Placed(d.x, d.y)
  BY <1>1, <1>2, <1>3, SizeFacts DEF Placed
<1>5. d \in Consoles(M)
  BY <1>1, <1>4, ConsoleHas, ConsoleIs
<1> QED
  BY <1>4, <1>5 DEF d

\* Scrolling, on either copy, leaves room for what comes next.
LEMMA RollsKeep ==
    ASSUME NEW M, Blank \in M, NEW c \in Consoles(M),
           NEW d, d = RollUp(c) \/ d = BackgroundRollUp(c)
    PROVE  d \in Consoles(M) /\ d.y < NUM_ROWS /\ d.row = c.row
<1>0. PICK text0, x0, y0, row0, fault0 :
          c = [text |-> text0, x |-> x0, y |-> y0, row |-> row0, fault |-> fault0]
  BY ConsoleHas
<1>1. ASSUME At(c) >= NUM_COLS * NUM_ROWS
      PROVE  /\ d = [text |-> d.text, x |-> 0, y |-> NUM_ROWS - 1, row |-> c.row,
                     fault |-> c.fault]
             /\ d.text \in [Cells -> M]
  <2>1. CASE d = RollUp(c)
    <3> DEFINE text == [k \in Cells |-> IF k + NUM_COLS \in Cells
                                        THEN c.text[k + NUM_COLS] ELSE Blank]
    <3>1. text \in [Cells -> M]
      BY ConsoleHas
    <3>2. d = [c EXCEPT !.text = text, !.x = 0, !.y = NUM_ROWS - 1]
      BY <1>1, <2>1 DEF RollUp, vertical_scroll
    <3> HIDE DEF text
    <3> QED
      BY <1>0, <3>1, <3>2
  <2>2. CASE d = BackgroundRollUp(c)
    <3> DEFINE lastRow == NUM_COLS * (NUM_ROWS - 1)
               text == [k \in Cells |-> IF k < lastRow THEN c.text[k + NUM_COLS] ELSE Blank]
    <3>1. \A k \in Cells : k < lastRow => k + NUM_COLS \in Cells
      BY SizeFacts DEF Cells
    <3>2. text \in [Cells -> M]
      BY <3>1, ConsoleHas
    <3>3. d = [c EXCEPT !.text = text, !.x = 0, !.y = NUM_ROWS - 1]
      BY <1>1, <2>2 DEF BackgroundRollUp, background_scroll
    <3> HIDE DEF text
    <3> QED
      BY <1>0, <3>2, <3>3
  <2> QED
    BY <2>1, <2>2
<1>2. CASE At(c) >= NUM_COLS * NUM_ROWS
  <2>1. Placed(d.x, d.y) /\ d.y < NUM_ROWS
    BY <1>1, <1>2, SizeFacts DEF Placed, Columns
  <2>2. d \in Consoles(M)
    BY <1>1, <1>2, <2>1, ConsoleHas, ConsoleIs
  <2> QED
    BY <1>1, <1>2, <2>1, <2>2
<1>3. CASE ~(At(c) >= NUM_COLS * NUM_ROWS)
  <2>1. d = c
    BY <1>3 DEF RollUp, BackgroundRollUp
  <2>2. c.y # NUM_ROWS
    <3>1. ASSUME c.y = NUM_ROWS PROVE At(c) = NUM_COLS * NUM_ROWS
      BY <3>1, ConsoleHas, SizeFacts DEF Placed, At
    <3> QED
      BY <1>3, <3>1, SizeFacts
  <2>3. c.y < NUM_ROWS
    BY <2>2, ConsoleHas, SizeFacts DEF Placed
  <2> QED
    BY <2>1, <2>3
<1> QED
  BY <1>2, <1>3

LEMMA NewlineKeeps ==
    ASSUME NEW M, NEW c \in Consoles(M), c.y < NUM_ROWS
    PROVE  Newline(c) \in Consoles(M) /\ Newline(c).x = 0
<1>1. PICK text, x0, y0, row0, fault0 :
          c = [text |-> text, x |-> x0, y |-> y0, row |-> row0, fault |-> fault0]
  BY ConsoleHas
<1> DEFINE d == Newline(c)
<1>2. PICK row : row = c.y + 1
  OBVIOUS
<1>3. d = [c EXCEPT !.x = 0, !.y = row]
  BY <1>2 DEF Newline
<1> HIDE DEF d
<1>4. d = [text |-> text, x |-> 0, y |-> row, row |-> row0, fault |-> fault0]
  BY <1>1, <1>3
<1>5. Placed(d.x, d.y)
  BY <1>2, <1>4, ConsoleHas, SizeFacts DEF Placed, Columns
<1>6. d \in Consoles(M)
  BY <1>1, <1>4, <1>5, ConsoleHas, ConsoleIs
<1> QED
  BY <1>4, <1>6 DEF d

LEMMA RowKeeps ==
    ASSUME NEW M, NEW c \in Consoles(M), NEW row \in 0 .. 255
    PROVE  /\ [c EXCEPT !.row = row] \in Consoles(M)
           /\ [c EXCEPT !.row = row].x = c.x /\ [c EXCEPT !.row = row].y = c.y
           /\ [c EXCEPT !.row = row].text = c.text
<1>1. PICK text, x0, y0, row0, fault0 :
          c = [text |-> text, x |-> x0, y |-> y0, row |-> row0, fault |-> fault0]
  BY ConsoleHas
<1>2. PICK d : d = [c EXCEPT !.row = row]
  OBVIOUS
<1>3. d = [text |-> text, x |-> x0, y |-> y0, row |-> row, fault |-> fault0]
  BY <1>1, <1>2
<1>4. d \in Consoles(M)
  BY <1>1, <1>3, ConsoleHas, ConsoleIs
<1> QED
  BY <1>1, <1>2, <1>3, <1>4

LEMMA ByteIs == \A n \in Int : Byte(n) \in 0 .. 255
BY DEF Byte

\* A column moved by one, to either side.
LEMMA NextColumns ==
    ASSUME NEW M, NEW c \in Consoles(M)
    PROVE  c.x + 1 \in -NUM_COLS .. NUM_COLS /\ c.x - 1 \in -NUM_COLS .. NUM_COLS
BY ConsoleHas, SizeFacts DEF Placed, Columns

\* Characters and backspaces, behind the scrolling.
LEMMA CharacterKeeps ==
    ASSUME NEW M, Blank \in M, NEW c \in Consoles(M), NEW char \in M
    PROVE  Character(c, char) \in Consoles(M) /\ Backspace(c) \in Consoles(M)
<1>1. PICK d : d = Store(c, char)
  OBVIOUS
<1>2. d \in Consoles(M)
  BY <1>1, StoreKeeps
<1>3. Character(c, char) \in Consoles(M)
  BY <1>1, <1>2, NextColumns, MoveToKeeps DEF Character
<1>4. MoveTo(c, c.x - 1) \in Consoles(M)
  BY NextColumns, MoveToKeeps
<1> QED
  BY <1>3, <1>4, StoreKeeps DEF Backspace

LEMMA BackgroundTabStepKeeps ==
    ASSUME NEW M, Blank \in M, NEW c \in Consoles(M)
    PROVE  BackgroundTabStep(c) \in Consoles(M)
BY NextColumns, MoveToKeeps, StoreKeeps DEF BackgroundTabStep

LEMMA TabStepStores ==
    ASSUME NEW M, Blank \in M, NEW c \in Consoles(M)
    PROVE  \E d \in Consoles(M) : TabStep(c) = Store(d, Blank)
<1>1. PICK d : d = IF c.row = NUM_COLS THEN [Newline(RollUp(c)) EXCEPT !.row = 0] ELSE c
  OBVIOUS
<1>2. d \in Consoles(M)
  <2>1. CASE c.row = NUM_COLS
    <3>1. PICK e : e = RollUp(c)
      OBVIOUS
    <3>2. e \in Consoles(M) /\ e.y < NUM_ROWS
      BY <3>1, RollsKeep
    <3>3. PICK l : l = Newline(e)
      OBVIOUS
    <3>4. l \in Consoles(M)
      BY <3>2, <3>3, NewlineKeeps
    <3>5. [l EXCEPT !.row = 0] \in Consoles(M)
      <4>1. 0 \in 0 .. 255
        OBVIOUS
      <4> QED
        BY <3>4, <4>1, RowKeeps
    <3>6. d = [l EXCEPT !.row = 0]
      BY <1>1, <2>1, <3>1, <3>3
    <3> QED
      BY <3>5, <3>6
  <2>2. CASE c.row # NUM_COLS
    BY <1>1, <2>2
  <2> QED
    BY <2>1, <2>2
<1>3. PICK row : row = Byte(d.row + 1)
  OBVIOUS
<1>4. row \in 0 .. 255
  BY <1>2, <1>3, ConsoleHas, ByteIs
<1>5. PICK e : e = [d EXCEPT !.row = row]
  OBVIOUS
<1>6. e \in Consoles(M) /\ e.x = d.x
  BY <1>2, <1>4, <1>5, RowKeeps
<1>7. d.x + 1 \in -NUM_COLS .. NUM_COLS
  BY <1>2, NextColumns
<1>8. MoveTo(e, d.x + 1) \in Consoles(M)
  BY <1>6, <1>7, MoveToKeeps
<1>9. TabStep(c) = Store(MoveTo(e, d.x + 1), Blank)
  BY <1>1, <1>3, <1>5 DEF TabStep
<1> QED
  BY <1>8, <1>9

LEMMA TabStepKeeps ==
    ASSUME NEW M, Blank \in M, NEW c \in Consoles(M)
    PROVE  TabStep(c) \in Consoles(M)
BY TabStepStores, StoreKeeps

LEMMA TabsKeep ==
    ASSUME NEW M, Blank \in M, NEW c \in Consoles(M)
    PROVE  Tab(c) \in Consoles(M) /\ BackgroundTab(c) \in Consoles(M)
<1>1. TAB_WIDTH \in 0 .. TAB_WIDTH
  BY ConsoleConstants
<1>2. PICK S : S = Consoles(M)
  OBVIOUS
<1>3. /\ \A d \in S : TabStep(d) \in S
      /\ \A d \in S : BackgroundTabStep(d) \in S
  BY <1>2, TabStepKeeps, BackgroundTabStepKeeps
<1>4. Tab(c) \in S
  BY <1>1, <1>2, <1>3, TabRounds
<1>5. BackgroundTab(c) \in S
  BY <1>1, <1>2, <1>3, BackgroundTabRounds
<1> QED
  BY <1>2, <1>4, <1>5

LEMMA putcKeeps ==
    ASSUME NEW M, Blank \in M, NEW c \in Consoles(M), NEW char \in M \cup Controls
    PROVE  putc(c, char) \in Consoles(M) /\ background_putc(c, char) \in Consoles(M)
<1>1. PICK d : d = RollUp(c)
  OBVIOUS
<1>2. PICK e : e = BackgroundRollUp(c)
  OBVIOUS
<1>3. d \in Consoles(M) /\ d.y < NUM_ROWS /\ e \in Consoles(M) /\ e.y < NUM_ROWS
  BY <1>1, <1>2, RollsKeep
<1>4. CASE char = "backspace"
  BY <1>1, <1>2, <1>3, <1>4, CharacterKeeps DEF putc, background_putc
<1>5. CASE char = "tab"
  BY <1>1, <1>2, <1>3, <1>5, TabsKeep DEF putc, background_putc
<1>6. CASE char = "newline"
  BY <1>1, <1>2, <1>3, <1>6, NewlineKeeps DEF putc, background_putc
<1>7. CASE char \notin Controls
  <2>1. putc(c, char) = Character(d, char) /\ background_putc(c, char) = Character(e, char)
    BY <1>1, <1>2, <1>7 DEF putc, background_putc, Controls
  <2> QED
    BY <1>3, <1>7, <2>1, CharacterKeeps
<1> QED
  BY <1>4, <1>5, <1>6, <1>7 DEF Controls

\* Whatever a buffer holds, its bytes and blanks are all that appears.
LEMMA PutAllKeeps ==
    ASSUME NEW M, Blank \in M, NEW c \in Consoles(M), NEW bytes \in Seq(M \cup Controls)
    PROVE  PutAll(c, bytes) \in Consoles(M)
<1>1. Len(bytes) \in 0 .. Len(bytes)
  OBVIOUS
<1>2. PICK S, B : S = Consoles(M) /\ B = M \cup Controls
  OBVIOUS
<1>3. c \in S /\ bytes \in Seq(B) /\ \A d \in S, b \in B : putc(d, b) \in S
  BY <1>2, putcKeeps
<1>4. PutAll(c, bytes) \in S
  <2>1. PICK f \in [0 .. Len(bytes) -> S] : PutAll(c, bytes) = f[Len(bytes)]
    BY <1>3, PutAllRounds
  <2> QED
    BY <1>1, <2>1
<1> QED
  BY <1>2, <1>4

LEMMA WriteByteKeeps ==
    ASSUME NEW M, Blank \in M, NEW visible \in BOOLEAN, NEW b \in M \cup Controls,
           NEW w \in [console : Consoles(M), line_ct : Nat]
    PROVE  WriteByte(visible, w, b) \in [console : Consoles(M), line_ct : Nat]
<1>1. \A d \in Consoles(M), char \in M \cup Controls : Put(visible, d, char) \in Consoles(M)
  BY putcKeeps DEF Put
<1>2. "newline" \in M \cup Controls
  BY DEF Controls
<1>3. w.console \in Consoles(M) /\ w.line_ct \in Nat
  OBVIOUS
<1>4. PICK started : started =
          IF w.line_ct = ROW_LIM /\ b \notin {"nul", "newline"}
          THEN [console |-> Put(visible, w.console, "newline"), line_ct |-> 0]
          ELSE IF b = "newline" THEN [w EXCEPT !.line_ct = 0] ELSE w
  OBVIOUS
<1>5. [w EXCEPT !.line_ct = 0] \in [console : Consoles(M), line_ct : Nat]
  OBVIOUS
<1>6. started \in [console : Consoles(M), line_ct : Nat]
  BY <1>1, <1>2, <1>3, <1>4, <1>5
<1>7. WriteByte(visible, w, b) =
          IF b = "nul" THEN started
          ELSE [console |-> Put(visible, started.console, b),
                line_ct |-> started.line_ct + 1]
  BY <1>4 DEF WriteByte
<1>8. started.console \in Consoles(M) /\ started.line_ct + 1 \in Nat
  BY <1>6
<1>9. Put(visible, started.console, b) \in Consoles(M)
  BY <1>1, <1>8
<1> QED
  BY <1>6, <1>7, <1>8, <1>9

LEMMA PutBytesKeeps ==
    ASSUME NEW M, Blank \in M, NEW c \in Consoles(M), NEW bytes \in Seq(M \cup Controls),
           NEW visible \in BOOLEAN, NEW line_ct \in Nat
    PROVE  PutBytes(visible, c, bytes, line_ct) \in Consoles(M)
<1>1. Len(bytes) \in 0 .. Len(bytes)
  OBVIOUS
<1>2. PICK S, B : S = [console : Consoles(M), line_ct : Nat] /\ B = M \cup Controls
  OBVIOUS
<1>3. \A w \in S, b \in B : WriteByte(visible, w, b) \in S
  BY <1>2, WriteByteKeeps
<1>4. [console |-> c, line_ct |-> line_ct] \in S /\ bytes \in Seq(B)
  BY <1>2
<1>5. PutBytes(visible, c, bytes, line_ct) \in Consoles(M)
  <2>1. PICK f \in [0 .. Len(bytes) -> S] :
            PutBytes(visible, c, bytes, line_ct) = f[Len(bytes)].console
    BY <1>3, <1>4, PutBytesRounds
  <2>2. f[Len(bytes)] \in S
    BY <1>1, <2>1
  <2> QED
    BY <1>2, <2>1, <2>2
<1> QED
  BY <1>5

-----------------------------------------------------------------------------
(* Every screen shows its own text. *)

AllMarks == UNION {Marks(t) : t \in Terminals}

\* The screens: video memory is the one of terminal_num, and the page behind a
\* visible screen may hold anything.
ScreensWhole ==
    /\ page \in [Pages -> [Cells -> AllMarks]]
    /\ save_x \in [Terminals -> Columns] /\ save_y \in [Terminals -> 0 .. NUM_ROWS]
    /\ Placed(screen_x, screen_y)
    /\ \A t \in Terminals : Placed(save_x[t], save_y[t])
    /\ row_letter_ct \in 0 .. 255 /\ fault \in BOOLEAN
    /\ terminal_num \in Terminals
ShowsOwn == \A t \in Terminals : View(t).text \in [Cells -> Marks(t)]
PictureInv == ScreensWhole /\ ShowsOwn

\* The rest of the state.
OthersWhole ==
    /\ line \in [Terminals -> Seq({"char", "tab"})]
    /\ \A t \in Terminals : Len(line[t]) < BUFFER_LIM
    /\ schedule_idx \in Terminals
    /\ enter_read \cup cat_flag \cup mapped \subseteq Terminals
    /\ user_page \in Pages
TextInv == PictureInv /\ OthersWhole

LEMMA MarksHave ==
    ASSUME NEW t \in Terminals
    PROVE  /\ Blank \in Marks(t) /\ ">" \in Marks(t) /\ Keys[t] \in Marks(t)
           /\ ToSet(Message) \subseteq Marks(t) /\ Range(Drawings) \subseteq Marks(t)
           /\ \A text \in Texts[t] : ToSet(text.bytes) \subseteq Marks(t)
           /\ Marks(t) \subseteq AllMarks
BY DEF Marks, AllMarks

LEMMA OwnBytes ==
    ASSUME NEW M, NEW bytes \in Seq(STRING), ToSet(bytes) \subseteq M
    PROVE  bytes \in Seq(M \cup Controls)
<1>1. \A n \in 1 .. Len(bytes) : bytes[n] \in M
  BY DEF ToSet
<1>2. bytes \in [1 .. Len(bytes) -> M \cup Controls] /\ Len(bytes) \in Nat
  BY <1>1
<1> QED
  BY <1>2, SeqDef

LEMMA RepeatedBytes ==
    ASSUME NEW M, NEW byte \in M \cup Controls, NEW n \in Nat
    PROVE  [k \in 1 .. n |-> byte] \in Seq(M \cup Controls)
<1>1. [k \in 1 .. n |-> byte] \in [1 .. n -> M \cup Controls]
  OBVIOUS
<1> QED
  BY <1>1, SeqDef

LEMMA VisibleIs ==
    ASSUME PictureInv
    PROVE  /\ terminal_num \in Terminals
           /\ Visible \in Consoles(Marks(terminal_num))
<1>1. terminal_num \in Terminals /\ page[Video] \in [Cells -> Marks(terminal_num)]
  BY DEF PictureInv, ScreensWhole, ShowsOwn, View
<1>2. Visible = [text |-> Visible.text, x |-> Visible.x, y |-> Visible.y,
                 row |-> Visible.row, fault |-> Visible.fault]
  BY DEF Visible
<1>3. /\ Visible.text \in [Cells -> Marks(terminal_num)] /\ Placed(Visible.x, Visible.y)
      /\ Visible.row \in 0 .. 255 /\ Visible.fault \in BOOLEAN
  BY <1>1 DEF Visible, PictureInv, ScreensWhole
<1> QED
  BY <1>1, <1>2, <1>3, ConsoleIs

LEMMA HiddenIs ==
    ASSUME PictureInv, NEW t \in Terminals, t # terminal_num
    PROVE  Hidden(t) \in Consoles(Marks(t))
<1>1. page[PageOf(t)] \in [Cells -> Marks(t)]
  BY DEF PictureInv, ShowsOwn, View
<1>2. Hidden(t) = [text |-> Hidden(t).text, x |-> Hidden(t).x, y |-> Hidden(t).y,
                   row |-> Hidden(t).row, fault |-> Hidden(t).fault]
  BY DEF Hidden
<1>3. /\ Hidden(t).text \in [Cells -> Marks(t)] /\ Placed(Hidden(t).x, Hidden(t).y)
      /\ Hidden(t).row \in 0 .. 255 /\ Hidden(t).fault \in BOOLEAN
  BY <1>1 DEF Hidden, PictureInv, ScreensWhole
<1> QED
  BY <1>2, <1>3, ConsoleIs

\* What the visible console becomes when the user's screen alone changes.
LEMMA ShowsKeeps ==
    ASSUME PictureInv, NEW c \in Consoles(Marks(terminal_num)), Shows(c),
           UNCHANGED terminal_num
    PROVE  PictureInv'
<1>1. terminal_num \in Terminals /\ Marks(terminal_num) \subseteq AllMarks
  BY MarksHave DEF PictureInv, ScreensWhole
<1>2. PICK text : text = c.text /\ page' = [page EXCEPT ![Video] = text]
  BY DEF Shows
<1>3. text \in [Cells -> Marks(terminal_num)] /\ text \in [Cells -> AllMarks]
  BY <1>1, <1>2, ConsoleHas
<1>4. page' \in [Pages -> [Cells -> AllMarks]]
  BY <1>2, <1>3 DEF PictureInv, ScreensWhole
<1>5. ScreensWhole'
  BY <1>4, ConsoleHas DEF PictureInv, ScreensWhole, Shows, ShowsCursor
<1>6. /\ page'[Video] = text
      /\ \A t \in Terminals : page'[PageOf(t)] = page[PageOf(t)]
  BY <1>2, PagesApart DEF PictureInv, ScreensWhole
<1>7. ASSUME NEW t \in Terminals
      PROVE  View(t)'.text \in [Cells -> Marks(t)]
  <2>1. CASE t = terminal_num
    BY <1>3, <1>6, <2>1 DEF View
  <2>2. CASE t # terminal_num
    BY <1>6, <2>2 DEF View, PictureInv, ShowsOwn
  <2> QED
    BY <2>1, <2>2
<1>8. ShowsOwn'
  <2>1. \A t \in Terminals : Marks(t)' = Marks(t)
    BY DEF Marks
  <2> QED
    BY <1>7, <2>1 DEF ShowsOwn
<1> QED
  BY <1>5, <1>8 DEF PictureInv

LEMMA SilentKeeps ==
    ASSUME PictureInv, UNCHANGED <<page, cursors, row_letter_ct, fault, terminal_num>>
    PROVE  PictureInv'
BY DEF PictureInv, ScreensWhole, ShowsOwn, View, Marks, cursors

\* The consoles that the keys make of the visible one.
LEMMA WrappedKeeps ==
    ASSUME NEW M, Blank \in M, NEW c \in Consoles(M)
    PROVE  CountUp(Wrapped(c)) \in Consoles(M)
<1>1. "newline" \in M \cup Controls /\ 0 \in 0 .. 255
  BY DEF Controls
<1>2. PICK d : d = Wrapped(c)
  OBVIOUS
<1>3. d \in Consoles(M)
  <2>1. PICK e : e = putc(c, "newline")
    OBVIOUS
  <2>2. e \in Consoles(M)
    BY <1>1, <2>1, putcKeeps
  <2>3. [e EXCEPT !.row = 0] \in Consoles(M)
    BY <1>1, <2>2, RowKeeps
  <2> QED
    BY <1>2, <2>1, <2>3 DEF Wrapped
<1>4. Byte(d.row + 1) \in 0 .. 255
  BY <1>3, ConsoleHas, ByteIs
<1>5. [d EXCEPT !.row = Byte(d.row + 1)] \in Consoles(M)
  BY <1>3, <1>4, RowKeeps
<1> QED
  BY <1>2, <1>5 DEF CountUp

LEMMA CountDownKeeps ==
    ASSUME NEW M, NEW c \in Consoles(M)
    PROVE  CountDown(c) \in Consoles(M)
<1>1. Byte(c.row - 1) \in 0 .. 255
  BY ConsoleHas, ByteIs
<1> QED
  BY <1>1, RowKeeps DEF CountDown

LEMMA clearKeeps ==
    ASSUME NEW M, Blank \in M, NEW c \in Consoles(M)
    PROVE  clear(c) \in Consoles(M)
<1>1. PICK text, x0, y0, row0, fault0 :
          c = [text |-> text, x |-> x0, y |-> y0, row |-> row0, fault |-> fault0]
  BY ConsoleHas
<1>2. EmptyScreen \in [Cells -> M]
  BY DEF EmptyScreen
<1>3. PICK empty : empty = EmptyScreen
  OBVIOUS
<1>4. PICK d : d = clear(c)
  OBVIOUS
<1>5. d = [text |-> empty, x |-> 0, y |-> 0, row |-> row0, fault |-> fault0]
  BY <1>1, <1>3, <1>4 DEF clear
<1>6. Placed(0, 0)
  BY SizeFacts DEF Placed, Columns
<1>7. d \in Consoles(M)
  BY <1>1, <1>2, <1>3, <1>5, <1>6, ConsoleHas, ConsoleIs
<1> QED
  BY <1>4, <1>7

LEMMA KeyCharKeeps ==
    ASSUME PictureInv, KeyChar
    PROVE  PictureInv'
<1> DEFINE M == Marks(terminal_num)
           c == CountUp(Wrapped(Visible))
<1>1. terminal_num \in Terminals /\ Visible \in Consoles(M) /\ Blank \in M
      /\ Keys[terminal_num] \in M \cup Controls
  BY VisibleIs, MarksHave
<1>2. c \in Consoles(M)
  BY <1>1, WrappedKeeps
<1>3. putc(c, Keys[terminal_num]) \in Consoles(M)
  BY <1>1, <1>2, putcKeeps
<1>4. Shows(putc(c, Keys[terminal_num])) /\ UNCHANGED terminal_num
  BY DEF KeyChar, KeyUnchanged
<1> QED
  BY <1>3, <1>4, ShowsKeeps

LEMMA KeyTabKeeps ==
    ASSUME PictureInv, KeyTab
    PROVE  PictureInv'
<1> DEFINE M == Marks(terminal_num)
<1>1. Visible \in Consoles(M) /\ Blank \in M /\ "tab" \in M \cup Controls
  BY VisibleIs, MarksHave DEF Controls
<1>2. putc(Visible, "tab") \in Consoles(M)
  BY <1>1, putcKeeps
<1>3. Shows(putc(Visible, "tab")) /\ UNCHANGED terminal_num
  BY DEF KeyTab, KeyUnchanged
<1> QED
  BY <1>2, <1>3, ShowsKeeps

LEMMA KeyBackspaceKeeps ==
    ASSUME PictureInv, KeyBackspace
    PROVE  PictureInv'
<1> DEFINE M == Marks(terminal_num)
           n == Erasures(Last(line[terminal_num]))
           blanks == [k \in 1 .. n |-> "backspace"]
<1>1. Visible \in Consoles(M) /\ Blank \in M /\ "backspace" \in M \cup Controls
  BY VisibleIs, MarksHave DEF Controls
<1>2. n \in Nat
  BY ConsoleConstants DEF Erasures
<1>3. blanks \in Seq(M \cup Controls)
  BY <1>1, <1>2, RepeatedBytes
<1>4. PutAll(Visible, blanks) \in Consoles(M)
  BY <1>1, <1>3, PutAllKeeps
<1>5. CountDown(PutAll(Visible, blanks)) \in Consoles(M)
  BY <1>4, CountDownKeeps
<1>6. Shows(CountDown(PutAll(Visible, blanks))) /\ UNCHANGED terminal_num
  BY DEF KeyBackspace, KeyUnchanged
<1> QED
  BY <1>5, <1>6, ShowsKeeps

LEMMA HeaderIsByte == HEADER_LEN \in 0 .. 255 /\ HEADER_LEN \in Nat
BY SizeFacts, ScreenConstants

LEMMA KeyEnterKeeps ==
    ASSUME PictureInv, KeyEnter
    PROVE  PictureInv'
<1> DEFINE M == Marks(terminal_num)
<1>1. Visible \in Consoles(M) /\ Blank \in M /\ "newline" \in M \cup Controls
  BY VisibleIs, MarksHave DEF Controls
<1>2. PICK c : c = putc(Visible, "newline")
  OBVIOUS
<1>3. c \in Consoles(M)
  BY <1>1, <1>2, putcKeeps
<1>4. [c EXCEPT !.row = HEADER_LEN] \in Consoles(M)
  BY <1>3, HeaderIsByte, RowKeeps
<1>5. Shows([c EXCEPT !.row = HEADER_LEN]) /\ UNCHANGED terminal_num
  BY <1>2 DEF KeyEnter, KeyUnchanged
<1> QED
  BY <1>4, <1>5, ShowsKeeps

LEMMA KeyClearKeeps ==
    ASSUME PictureInv, KeyClear
    PROVE  PictureInv'
<1> DEFINE M == Marks(terminal_num)
<1>1. Visible \in Consoles(M) /\ Blank \in M /\ ">" \in M \cup Controls
  BY VisibleIs, MarksHave
<1>2. PICK c : c = clear(Visible)
  OBVIOUS
<1>3. c \in Consoles(M)
  BY <1>1, <1>2, clearKeeps
<1>4. PICK d : d = [c EXCEPT !.row = HEADER_LEN]
  OBVIOUS
<1>5. d \in Consoles(M)
  BY <1>3, <1>4, HeaderIsByte, RowKeeps
<1>6. Prompt \in Seq(M \cup Controls)
  BY <1>1, HeaderIsByte, RepeatedBytes DEF Prompt
<1>7. PutAll(d, Prompt) \in Consoles(M)
  BY <1>1, <1>5, <1>6, PutAllKeeps
<1>8. Shows(PutAll(d, Prompt)) /\ UNCHANGED terminal_num
  BY <1>2, <1>4 DEF KeyClear, KeyUnchanged
<1> QED
  BY <1>7, <1>8, ShowsKeeps

LEMMA KernelPrintsKeeps ==
    ASSUME PictureInv, KernelPrints
    PROVE  PictureInv'
<1> DEFINE M == Marks(terminal_num)
<1>1. Visible \in Consoles(M) /\ Blank \in M /\ ToSet(Message) \subseteq M
  BY VisibleIs, MarksHave
<1>2. Message \in Seq(M \cup Controls)
  BY <1>1, ScreenConstants, OwnBytes
<1>3. PutAll(Visible, Message) \in Consoles(M)
  BY <1>1, <1>2, PutAllKeeps
<1>4. Shows(PutAll(Visible, Message)) /\ UNCHANGED terminal_num
  BY DEF KernelPrints
<1> QED
  BY <1>3, <1>4, ShowsKeeps

\* An Alt+Fn moves the screens, and none of them changes.
LEMMA KeySwitchKeeps ==
    ASSUME PictureInv, NEW next \in Terminals, KeySwitch(next)
    PROVE  PictureInv'
<1>1. PICK seen : seen = page[Video]
  OBVIOUS
<1>2. PICK saved : /\ saved = [page EXCEPT ![PageOf(terminal_num)] = seen]
                   /\ page' = [saved EXCEPT ![Video] = saved[PageOf(next)]]
  BY <1>1 DEF KeySwitch, SavedPages
<1>3. /\ terminal_num \in Terminals /\ page \in [Pages -> [Cells -> AllMarks]]
      /\ seen \in [Cells -> AllMarks]
  BY <1>1, PagesApart DEF PictureInv, ScreensWhole
<1>4. saved \in [Pages -> [Cells -> AllMarks]]
  BY <1>2, <1>3
<1>5. page' \in [Pages -> [Cells -> AllMarks]]
  BY <1>2, <1>4, PagesApart
<1>6. /\ save_x' \in [Terminals -> Columns] /\ save_y' \in [Terminals -> 0 .. NUM_ROWS]
      /\ \A t \in Terminals : Placed(save_x'[t], save_y'[t])
      /\ Placed(screen_x', screen_y')
  BY DEF KeySwitch, PictureInv, ScreensWhole, Placed
<1>7. ScreensWhole'
  BY <1>5, <1>6 DEF KeySwitch, PictureInv, ScreensWhole
<1>8. ASSUME NEW t \in Terminals
      PROVE  View(t)'.text \in [Cells -> Marks(t)]
  <2>1. terminal_num' = next
    BY DEF KeySwitch
  <2>2. saved[PageOf(t)] = View(t).text
    BY <1>1, <1>2, <1>3, PagesApart DEF View
  <2>3. CASE t = next
    <3>1. page'[Video] = saved[PageOf(t)]
      BY <1>2, <1>4, <2>3, PagesApart
    <3> QED
      BY <2>1, <2>2, <2>3, <3>1 DEF View, PictureInv, ShowsOwn
  <2>4. CASE t # next
    <3>1. page'[PageOf(t)] = saved[PageOf(t)]
      BY <1>2, <1>4, PagesApart
    <3> QED
      BY <2>1, <2>2, <2>4, <3>1 DEF View, PictureInv, ShowsOwn
  <2> QED
    BY <2>3, <2>4
<1>9. ShowsOwn'
  <2>1. \A t \in Terminals : Marks(t)' = Marks(t)
    BY DEF Marks
  <2> QED
    BY <1>8, <2>1 DEF ShowsOwn
<1> QED
  BY <1>7, <1>9 DEF PictureInv

\* What a text needs to be written.
LEMMA TextFacts ==
    ASSUME NEW t \in Terminals, NEW text \in Texts[t]
    PROVE  /\ text.bytes \in Seq(Marks(t) \cup Controls)
           /\ FirstCount \in Nat
           /\ row_letter_ct \in 0 .. 255 => RowOfText(text) \in 0 .. 255
           /\ \A M : Blank \in M =>
                  \A c \in Consoles(M) : Trailer(text, c) \in Consoles(M)
<1>1. text.bytes \in Seq(STRING) /\ ToSet(text.bytes) \subseteq Marks(t)
  BY ScreenConstants, MarksHave
<1>2. text.bytes \in Seq(Marks(t) \cup Controls)
  BY <1>1, OwnBytes
<1>3. FirstCount \in Nat
  BY ScreenConstants DEF FirstCount
<1>4. row_letter_ct \in 0 .. 255 => RowOfText(text) \in 0 .. 255
  <2>1. HELLO_BYTE_COUNT \in 0 .. 255 /\ 0 \in 0 .. 255
    BY ScreenConstants
  <2> QED
    BY <2>1 DEF RowOfText
<1>5. ASSUME NEW M, Blank \in M, NEW c \in Consoles(M)
      PROVE  Trailer(text, c) \in Consoles(M)
  <2>1. "newline" \in M \cup Controls
    BY DEF Controls
  <2>2. Newlines(text) \in Nat
    BY DEF Newlines
  <2>3. PICK n \in Nat : n = Newlines(text)
    BY <2>2
  <2>4. [k \in 1 .. n |-> "newline"] \in Seq(M \cup Controls)
    BY <2>1, RepeatedBytes
  <2>5. PutAll(c, [k \in 1 .. n |-> "newline"]) \in Consoles(M)
    BY <1>5, <2>4, PutAllKeeps
  <2> QED
    BY <2>3, <2>5 DEF Trailer
<1> QED
  BY <1>2, <1>3, <1>4, <1>5

\* The visible console as terminal_write finds it.
LEMMA VisibleRow ==
    ASSUME PictureInv, NEW t \in Terminals, NEW text \in Texts[t]
    PROVE  [Visible EXCEPT !.row = RowOfText(text)] \in Consoles(Marks(terminal_num))
<1>1. RowOfText(text) \in 0 .. 255
  BY TextFacts DEF PictureInv, ScreensWhole
<1> QED
  BY <1>1, VisibleIs, RowKeeps

LEMMA WriteVisibleKeeps ==
    ASSUME PictureInv, NEW text \in Texts[terminal_num], WriteVisible(text),
           UNCHANGED terminal_num
    PROVE  PictureInv'
<1> DEFINE M == Marks(terminal_num)
<1>1. terminal_num \in Terminals /\ Blank \in M
  BY VisibleIs, MarksHave
<1>2. PICK start : start = [Visible EXCEPT !.row = RowOfText(text)]
  OBVIOUS
<1>3. start \in Consoles(M)
  BY <1>1, <1>2, VisibleRow
<1>4. PICK c : c = PutBytes(TRUE, start, text.bytes, FirstCount)
  OBVIOUS
<1>5. text.bytes \in Seq(M \cup Controls) /\ FirstCount \in Nat /\ TRUE \in BOOLEAN
  BY <1>1, TextFacts
<1>6. c \in Consoles(M)
  BY <1>1, <1>3, <1>4, <1>5, PutBytesKeeps
<1>7. Trailer(text, c) \in Consoles(M)
  BY <1>1, <1>6, TextFacts
<1>8. Shows(Trailer(text, c))
  BY <1>2, <1>4 DEF WriteVisible
<1> QED
  BY <1>7, <1>8, ShowsKeeps

\* A hidden program's text goes to its page, and the newline behind it, if any,
\* to the visible screen.
LEMMA WriteHiddenKeeps ==
    ASSUME PictureInv, schedule_idx \in Terminals \ {terminal_num},
           NEW text \in Texts[schedule_idx], WriteHidden(text), UNCHANGED terminal_num
    PROVE  PictureInv'
<1> DEFINE M == Marks(schedule_idx)
           V == Marks(terminal_num)
<1>1. /\ terminal_num \in Terminals /\ Blank \in M /\ Blank \in V
      /\ M \subseteq AllMarks /\ V \subseteq AllMarks
  BY VisibleIs, MarksHave
<1>2. PICK c : c = PutBytes(FALSE, Hidden(schedule_idx), text.bytes, FirstCount)
  OBVIOUS
<1>3. Hidden(schedule_idx) \in Consoles(M)
  BY HiddenIs
<1>4. text.bytes \in Seq(M \cup Controls) /\ FirstCount \in Nat /\ FALSE \in BOOLEAN
  BY TextFacts
<1>5. c \in Consoles(M)
  BY <1>1, <1>2, <1>3, <1>4, PutBytesKeeps
<1>6. PICK v : v = Trailer(text, [Visible EXCEPT !.row = RowOfText(text)])
  OBVIOUS
<1>7. v \in Consoles(V)
  BY <1>1, <1>6, VisibleRow, TextFacts
<1>8. PICK hidden, seen : hidden = c.text /\ seen = v.text
  OBVIOUS
<1>9. /\ page' = [page EXCEPT ![PageOf(schedule_idx)] = hidden, ![Video] = seen]
      /\ save_x' = [save_x EXCEPT ![schedule_idx] = c.x]
      /\ save_y' = [save_y EXCEPT ![schedule_idx] = c.y]
      /\ screen_x' = v.x /\ screen_y' = v.y /\ row_letter_ct' = v.row
      /\ fault' = (c.fault \/ v.fault)
  BY <1>2, <1>6, <1>8 DEF WriteHidden, ShowsCursor
<1> HIDE DEF M, V
<1>10. /\ hidden \in [Cells -> M] /\ seen \in [Cells -> V]
       /\ Placed(c.x, c.y) /\ Placed(v.x, v.y) /\ v.row \in 0 .. 255
       /\ c.fault \in BOOLEAN /\ v.fault \in BOOLEAN
  BY <1>5, <1>7, <1>8, ConsoleHas
<1>11. hidden \in [Cells -> AllMarks] /\ seen \in [Cells -> AllMarks]
  BY <1>1, <1>10
<1>12. page' \in [Pages -> [Cells -> AllMarks]]
  BY <1>9, <1>11, PagesApart DEF PictureInv, ScreensWhole
<1>13. /\ save_x' \in [Terminals -> Columns] /\ save_y' \in [Terminals -> 0 .. NUM_ROWS]
       /\ \A t \in Terminals : Placed(save_x'[t], save_y'[t])
  BY <1>9, <1>10 DEF PictureInv, ScreensWhole, Placed
<1>14. fault' \in BOOLEAN
  BY <1>9, <1>10
<1>15. ScreensWhole'
  BY <1>1, <1>9, <1>10, <1>12, <1>13, <1>14 DEF ScreensWhole
<1>16. /\ page'[Video] = seen /\ page'[PageOf(schedule_idx)] = hidden
       /\ \A t \in Terminals : t # schedule_idx => page'[PageOf(t)] = page[PageOf(t)]
  BY <1>9, PagesApart DEF PictureInv, ScreensWhole
<1>17. ASSUME NEW t \in Terminals
       PROVE  View(t)'.text \in [Cells -> Marks(t)]
  <2>1. CASE t = terminal_num
    BY <1>10, <1>16, <2>1 DEF View, V
  <2>2. CASE t = schedule_idx
    BY <1>10, <1>16, <2>2 DEF View, M
  <2>3. CASE t # terminal_num /\ t # schedule_idx
    BY <1>16, <2>3 DEF View, PictureInv, ShowsOwn
  <2> QED
    BY <2>1, <2>2, <2>3
<1>18. ShowsOwn'
  <2>1. \A t \in Terminals : Marks(t)' = Marks(t)
    BY DEF Marks
  <2> QED
    BY <1>17, <2>1 DEF ShowsOwn
<1> QED
  BY <1>15, <1>18 DEF PictureInv

\* A drawing is a cell of one page, whichever.
LEMMA DrawKeeps ==
    ASSUME PictureInv, OthersWhole, Draw
    PROVE  PictureInv'
<1>1. PICK char : char = Drawings[schedule_idx]
  OBVIOUS
<1>2. \A t \in Terminals : char \in Marks(t)
  <2>1. char \in Range(Drawings)
    BY <1>1, ScreenConstants DEF OthersWhole, Range
  <2> QED
    BY <2>1, MarksHave
<1>3. char \in AllMarks /\ user_page \in Pages /\ 0 \in Cells
  BY <1>2, SizeFacts, MarksHave DEF OthersWhole, PictureInv, ScreensWhole
<1>4. /\ page' = [page EXCEPT ![user_page][0] = char]
      /\ UNCHANGED <<save_x, save_y, screen_x, screen_y, row_letter_ct, fault, terminal_num>>
  BY <1>1 DEF Draw, cursors
<1>5. \A p \in Pages : page'[p] = page[p] \/ page'[p] = [page[p] EXCEPT ![0] = char]
  BY <1>3, <1>4 DEF PictureInv, ScreensWhole
<1>6. ASSUME NEW M, char \in M, NEW p \in Pages, page[p] \in [Cells -> M]
      PROVE  page'[p] \in [Cells -> M]
  BY <1>5, <1>6
<1>7. page' \in [Pages -> [Cells -> AllMarks]]
  <2>1. \A p \in Pages : page'[p] \in [Cells -> AllMarks]
    BY <1>3, <1>6 DEF PictureInv, ScreensWhole
  <2>2. page' = [p \in Pages |-> page'[p]]
    BY <1>4 DEF PictureInv, ScreensWhole
  <2> QED
    BY <2>1, <2>2
<1>8. ScreensWhole'
  BY <1>4, <1>7 DEF PictureInv, ScreensWhole
<1>9. ASSUME NEW t \in Terminals
      PROVE  View(t)'.text \in [Cells -> Marks(t)]
  <2>1. PICK p \in Pages : View(t).text = page[p] /\ View(t)'.text = page'[p]
    BY <1>4, PagesApart DEF View
  <2>2. page[p] \in [Cells -> Marks(t)]
    BY <2>1 DEF PictureInv, ShowsOwn
  <2> QED
    BY <1>2, <1>6, <2>1, <2>2
<1>10. ShowsOwn'
  <2>1. \A t \in Terminals : Marks(t)' = Marks(t)
    BY DEF Marks
  <2> QED
    BY <1>9, <2>1 DEF ShowsOwn
<1> QED
  BY <1>8, <1>10 DEF PictureInv

LEMMA terminal_writeKeeps ==
    ASSUME PictureInv, OthersWhole, NEW text \in Texts[schedule_idx], terminal_write(text)
    PROVE  PictureInv'
<1>1. schedule_idx \in Terminals /\ UNCHANGED terminal_num
  BY DEF OthersWhole, terminal_write
<1>2. CASE InForeground
  BY <1>1, <1>2, WriteVisibleKeeps DEF terminal_write, InForeground
<1>3. CASE ~InForeground
  BY <1>1, <1>3, WriteHiddenKeeps DEF terminal_write, InForeground
<1> QED
  BY <1>2, <1>3

LEMMA PictureStep == PictureInv /\ OthersWhole /\ [Next]_vars => PictureInv'
<1> SUFFICES ASSUME PictureInv, OthersWhole, [Next]_vars
             PROVE  PictureInv'
  OBVIOUS
<1>1. CASE Keyboard
  BY <1>1, KeyCharKeeps, KeyTabKeeps, KeyBackspaceKeeps, KeyEnterKeeps, KeyClearKeeps,
     KeySwitchKeeps DEF Keyboard
<1>2. CASE \E text \in Texts[schedule_idx] : terminal_write(text)
  BY <1>2, terminal_writeKeeps
<1>3. CASE KernelPrints
  BY <1>3, KernelPrintsKeeps
<1>4. CASE TakeLine
  BY <1>4, SilentKeeps DEF TakeLine
<1>5. CASE vidmap
  BY <1>5, SilentKeeps DEF vidmap
<1>6. CASE Draw
  BY <1>6, DrawKeeps
<1>7. CASE \E isCat \in BOOLEAN : Execute(isCat)
  BY <1>7, SilentKeeps DEF Execute
<1>8. CASE Pit
  BY <1>8, SilentKeeps DEF Pit
<1>9. CASE UNCHANGED vars
  BY <1>9, SilentKeeps DEF vars
<1> QED
  BY <1>1, <1>2, <1>3, <1>4, <1>5, <1>6, <1>7, <1>8, <1>9 DEF Next, Program

\* A line grows by one key and shrinks by one, and stays within its buffer.
LEMMA LinesKeep ==
    ASSUME OthersWhole, terminal_num \in Terminals,
           \/ KeyChar \/ KeyTab
           \/ KeyBackspace
           \/ TakeLine
    PROVE  /\ line' \in [Terminals -> Seq({"char", "tab"})]
           /\ \A t \in Terminals : Len(line'[t]) < BUFFER_LIM
<1>1. PICK l : l = line[terminal_num]
  OBVIOUS
<1>2. l \in Seq({"char", "tab"}) /\ Len(l) < BUFFER_LIM /\ Len(l) \in Nat
      /\ BUFFER_LIM \in Nat \ {0}
  BY <1>1, ScreenConstants DEF OthersWhole
<1>3. PICK m : line' = [line EXCEPT ![terminal_num] = m] /\ m \in Seq({"char", "tab"})
               /\ Len(m) < BUFFER_LIM
  <2>1. CASE KeyChar \/ KeyTab
    <3>1. PICK key \in {"char", "tab"} : line' = [line EXCEPT ![terminal_num] = Append(l, key)]
      BY <1>1, <2>1 DEF KeyChar, KeyTab
    <3>2. Len(l) # BUFFER_LIM - 1
      BY <1>1, <2>1 DEF KeyChar, KeyTab, Full
    <3>3. Append(l, key) \in Seq({"char", "tab"}) /\ Len(Append(l, key)) < BUFFER_LIM
      BY <1>2, <3>2
    <3> QED
      BY <3>1, <3>3
  <2>2. CASE KeyBackspace
    <3>1. line' = [line EXCEPT ![terminal_num] = SubSeq(l, 1, Len(l) - 1)]
      BY <1>1, <2>2 DEF KeyBackspace, Front
    <3>2. Len(l) # 0
      BY <1>1, <1>2, <2>2, EmptySeq DEF KeyBackspace
    <3>3. Len(l) - 1 \in Nat
      BY <1>2, <3>2
    <3>4. /\ SubSeq(l, 1, Len(l) - 1) \in Seq({"char", "tab"})
          /\ Len(SubSeq(l, 1, Len(l) - 1)) < BUFFER_LIM
      BY <1>2, <3>3
    <3> QED
      BY <3>1, <3>4
  <2>3. CASE TakeLine
    <3>1. <<>> \in Seq({"char", "tab"}) /\ Len(<<>>) < BUFFER_LIM
      BY <1>2
    <3> QED
      BY <2>3, <3>1 DEF TakeLine
  <2> QED
    BY <2>1, <2>2, <2>3
<1> QED
  BY <1>3 DEF OthersWhole

LEMMA OthersStep == PictureInv /\ OthersWhole /\ [Next]_vars => OthersWhole'
<1> SUFFICES ASSUME PictureInv, OthersWhole, [Next]_vars
             PROVE  OthersWhole'
  OBVIOUS
<1> USE DEF OthersWhole
<1>0. terminal_num \in Terminals
  BY DEF PictureInv, ScreensWhole
<1>1. CASE KeyChar \/ KeyTab \/ KeyBackspace
  <2>1. /\ line' \in [Terminals -> Seq({"char", "tab"})]
        /\ \A t \in Terminals : Len(line'[t]) < BUFFER_LIM
    BY <1>0, <1>1, LinesKeep
  <2>2. UNCHANGED <<enter_read, schedule_idx, cat_flag, mapped, user_page>>
    BY <1>1 DEF KeyChar, KeyTab, KeyBackspace, KeyUnchanged, writers, mapping
  <2> QED
    BY <2>1, <2>2
<1>2. CASE KeyEnter \/ KeyClear \/ SwitchStep \/ KernelPrints
  <2>1. enter_read' \subseteq Terminals
    BY <1>0, <1>2 DEF KeyEnter, KeyClear, SwitchStep, KeySwitch, KernelPrints, input
  <2>2. UNCHANGED <<line, schedule_idx, cat_flag, mapped, user_page>>
    BY <1>2 DEF KeyEnter, KeyClear, SwitchStep, KeySwitch, KernelPrints, KeyUnchanged,
                writers, mapping, input
  <2> QED
    BY <2>1, <2>2
<1>3. CASE \E text \in Texts[schedule_idx] : terminal_write(text)
  BY <1>3 DEF terminal_write, input, mapping
<1>4. CASE TakeLine
  <2>1. /\ line' \in [Terminals -> Seq({"char", "tab"})]
        /\ \A t \in Terminals : Len(line'[t]) < BUFFER_LIM
    BY <1>0, <1>4, LinesKeep
  <2> QED
    BY <1>4, <2>1 DEF TakeLine, writers, mapping
<1>5. CASE vidmap
  BY <1>5, PagesApart DEF vidmap, input, writers
<1>6. CASE Draw
  BY <1>6 DEF Draw, input, writers, mapping
<1>7. CASE \E isCat \in BOOLEAN : Execute(isCat)
  BY <1>7 DEF Execute, input
<1>8. CASE Pit
  <2>1. NextTurn \in Terminals
    BY ScreenConstants, SMTT(20) DEF NextTurn, Terminals
  <2>2. UserPage(NextTurn) \in Pages
    BY <2>1, PagesApart DEF UserPage
  <2> QED
    BY <1>8, <2>1, <2>2 DEF Pit, input, writers
<1>9. CASE UNCHANGED vars
  BY <1>9 DEF vars, input, writers, mapping
<1> QED
  BY <1>1, <1>2, <1>3, <1>4, <1>5, <1>6, <1>7, <1>8, <1>9
  DEF Next, Program, Keyboard, SwitchStep

LEMMA TextInit == Init => TextInv
<1> SUFFICES ASSUME Init PROVE TextInv
  OBVIOUS
<1>1. Newest \in Terminals
  <2>1. PROCESS_NUMBER_PIT \in Nat \ {0}
    BY ScreenConstants
  <2> QED
    BY <2>1 DEF Newest, Terminals
<1>2. \A t \in Terminals : EmptyScreen \in [Cells -> Marks(t)] /\ Prompted \in [Cells -> Marks(t)]
  BY MarksHave DEF EmptyScreen, Prompted
<1>3. \A t \in Terminals : EmptyScreen \in [Cells -> AllMarks] /\ Prompted \in [Cells -> AllMarks]
  BY MarksHave DEF EmptyScreen, Prompted
<1>4. PICK empty, prompted : empty = EmptyScreen /\ prompted = Prompted
  OBVIOUS
<1>5. page = [p \in Pages |-> IF p = PageOf(Newest) THEN empty ELSE prompted]
  BY <1>4 DEF Init
<1>6. Rem(HEADER_LEN) \in Columns /\ 0 \in Columns
  BY SizeFacts, ScreenConstants DEF Rem, Columns
<1>7. Placed(Rem(HEADER_LEN), 0) /\ Placed(0, 0)
  BY <1>6, SizeFacts DEF Placed
<1>8. ScreensWhole
  <2>1. page \in [Pages -> [Cells -> AllMarks]]
    BY <1>1, <1>3, <1>4, <1>5
  <2>2. save_x \in [Terminals -> Columns] /\ save_y \in [Terminals -> 0 .. NUM_ROWS]
    BY <1>6, SizeFacts DEF Init
  <2>3. \A t \in Terminals : Placed(save_x[t], save_y[t])
    BY <1>7 DEF Init
  <2> QED
    BY <1>1, <1>7, <2>1, <2>2, <2>3, HeaderIsByte DEF Init, ScreensWhole
<1>9. ShowsOwn
  <2>1. terminal_num = Newest
    BY DEF Init
  <2>2. ASSUME NEW t \in Terminals PROVE View(t).text = prompted
    BY <1>1, <1>5, <2>1, PagesApart DEF View
  <2> QED
    BY <1>2, <1>4, <2>2 DEF ShowsOwn
<1>10. OthersWhole
  <2>1. <<>> \in Seq({"char", "tab"}) /\ Len(<<>>) = 0
    OBVIOUS
  <2> QED
    BY <1>1, <2>1, PagesApart, ScreenConstants DEF Init, OthersWhole
<1> QED
  BY <1>8, <1>9, <1>10 DEF TextInv, PictureInv

\* The invariance of all of it.
THEOREM TextInvariance == Spec => []TextInv
<1>1. TextInv /\ [Next]_vars => TextInv'
  BY PictureStep, OthersStep DEF TextInv
<1> QED
  BY TextInit, <1>1, PTL DEF Spec

\* Whatever is typed, written, drawn and switched, for every size of a screen:
\* the cursors stay where putc can deal with them, which scrolls a cursor below
\* the last row, the row counter fits its byte and a line its buffer
\* (lib.c:182-277, keyboard.c:82-407).
THEOREM ScreensTyped == Spec => []TypeOK
<1>1. TextInv => TypeOK
  <2> SUFFICES ASSUME TextInv PROVE TypeOK
    OBVIOUS
  <2>1. DOMAIN page = Pages /\ \A p \in Pages : DOMAIN page[p] = Cells
    BY DEF TextInv, PictureInv, ScreensWhole
  <2>2. /\ {screen_x} \cup Range(save_x) \subseteq Columns
        /\ {screen_y} \cup Range(save_y) \subseteq 0 .. NUM_ROWS
    BY DEF TextInv, PictureInv, ScreensWhole, Placed, Range
  <2> QED
    BY <2>1, <2>2 DEF TextInv, PictureInv, ScreensWhole, OthersWhole, TypeOK
<1> QED
  BY <1>1, TextInvariance, PTL

\* No screen shows what another terminal typed or wrote, wherever its page was
\* when it was written (terminal.c:142-161, lib.c:233-277, keyboard.c:529-543).
THEOREM TextsOwn == Spec => []OwnText
<1>1. TextInv => OwnText
  BY DEF TextInv, PictureInv, ShowsOwn, OwnText, Range
<1> QED
  BY <1>1, TextInvariance, PTL

-----------------------------------------------------------------------------
(* The two copies of putc show the same. *)

Same(c, d) == c.text = d.text /\ c.x = d.x /\ c.y = d.y

LEMMA BothAre ==
    ASSUME NEW M, NEW c \in Consoles(M), NEW d \in Consoles(M), Same(c, d)
    PROVE  \E text, x, y, row1, f1, row2, f2 :
               /\ c = [text |-> text, x |-> x, y |-> y, row |-> row1, fault |-> f1]
               /\ d = [text |-> text, x |-> x, y |-> y, row |-> row2, fault |-> f2]
<1>1. /\ c = [text |-> c.text, x |-> c.x, y |-> c.y, row |-> c.row, fault |-> c.fault]
      /\ d = [text |-> d.text, x |-> d.x, y |-> d.y, row |-> d.row, fault |-> d.fault]
  BY ConsoleHas
<1>2. d = [text |-> c.text, x |-> c.x, y |-> c.y, row |-> d.row, fault |-> d.fault]
  BY <1>1 DEF Same
<1> QED
  BY <1>1, <1>2

LEMMA SameStore ==
    ASSUME NEW M, NEW c \in Consoles(M), NEW d \in Consoles(M), Same(c, d), NEW char \in M
    PROVE  Same(Store(c, char), Store(d, char))
<1>1. PICK k : k = At(c) /\ k = At(d)
  BY DEF Same, At
<1>2. PICK text, x, y, row1, f1, row2, f2 :
          /\ c = [text |-> text, x |-> x, y |-> y, row |-> row1, fault |-> f1]
          /\ d = [text |-> text, x |-> x, y |-> y, row |-> row2, fault |-> f2]
  BY BothAre
<1>3. CASE k \in Cells
  <2>1. /\ Store(c, char) = [c EXCEPT !.text[k] = char]
        /\ Store(d, char) = [d EXCEPT !.text[k] = char]
    BY <1>1, <1>3 DEF Store
  <2> QED
    BY <1>2, <2>1 DEF Same
<1>4. CASE k \notin Cells
  <2>1. /\ Store(c, char) = [c EXCEPT !.fault = TRUE]
        /\ Store(d, char) = [d EXCEPT !.fault = TRUE]
    BY <1>1, <1>4 DEF Store
  <2> QED
    BY <1>2, <2>1 DEF Same
<1> QED
  BY <1>3, <1>4

LEMMA SameMoveTo ==
    ASSUME NEW M, NEW c \in Consoles(M), NEW d \in Consoles(M), Same(c, d), NEW x
    PROVE  Same(MoveTo(c, x), MoveTo(d, x))
<1>1. PICK a, b : a = Rem(x) /\ b = c.y % NUM_ROWS /\ b = d.y % NUM_ROWS
  BY DEF Same
<1>2. MoveTo(c, x) = [c EXCEPT !.x = a, !.y = b] /\ MoveTo(d, x) = [d EXCEPT !.x = a, !.y = b]
  BY <1>1 DEF MoveTo
<1>3. PICK text, x0, y0, row1, f1, row2, f2 :
          /\ c = [text |-> text, x |-> x0, y |-> y0, row |-> row1, fault |-> f1]
          /\ d = [text |-> text, x |-> x0, y |-> y0, row |-> row2, fault |-> f2]
  BY BothAre
<1> QED
  BY <1>2, <1>3 DEF Same

LEMMA SameNewline ==
    ASSUME NEW M, NEW c \in Consoles(M), NEW d \in Consoles(M), Same(c, d)
    PROVE  Same(Newline(c), Newline(d))
<1>1. PICK b : b = c.y + 1 /\ b = d.y + 1
  BY DEF Same
<1>2. Newline(c) = [c EXCEPT !.x = 0, !.y = b] /\ Newline(d) = [d EXCEPT !.x = 0, !.y = b]
  BY <1>1 DEF Newline
<1>3. PICK text, x0, y0, row1, f1, row2, f2 :
          /\ c = [text |-> text, x |-> x0, y |-> y0, row |-> row1, fault |-> f1]
          /\ d = [text |-> text, x |-> x0, y |-> y0, row |-> row2, fault |-> f2]
  BY BothAre
<1> QED
  BY <1>2, <1>3 DEF Same

\* The two ways to scroll give the same screen.
LEMMA SameScroll ==
    ASSUME NEW M, Blank \in M, NEW c \in Consoles(M)
    PROVE  vertical_scroll(c) = background_scroll(c)
<1> DEFINE lastRow == NUM_COLS * (NUM_ROWS - 1)
           down == [k \in Cells |-> IF k + NUM_COLS \in Cells
                                    THEN c.text[k + NUM_COLS] ELSE Blank]
           up == [k \in Cells |-> IF k < lastRow THEN c.text[k + NUM_COLS] ELSE Blank]
<1>1. \A k \in Cells : k < lastRow <=> k + NUM_COLS \in Cells
  BY SizeFacts DEF Cells
<1>2. down = up
  BY <1>1
<1>3. /\ vertical_scroll(c) = [c EXCEPT !.text = down, !.x = 0, !.y = NUM_ROWS - 1]
      /\ background_scroll(c) = [c EXCEPT !.text = up, !.x = 0, !.y = NUM_ROWS - 1]
  BY DEF vertical_scroll, background_scroll
<1> HIDE DEF down, up
<1> QED
  BY <1>2, <1>3

LEMMA SameRollUp ==
    ASSUME NEW M, Blank \in M, NEW c \in Consoles(M), NEW d \in Consoles(M), Same(c, d)
    PROVE  Same(RollUp(c), RollUp(d)) /\ Same(BackgroundRollUp(c), RollUp(d))
<1>1. At(c) = At(d)
  BY DEF Same, At
<1>2. CASE ~(At(c) >= NUM_COLS * NUM_ROWS)
  BY <1>1, <1>2 DEF RollUp, BackgroundRollUp
<1>3. CASE At(c) >= NUM_COLS * NUM_ROWS
  <2>1. /\ RollUp(c) = vertical_scroll(c) /\ RollUp(d) = vertical_scroll(d)
        /\ BackgroundRollUp(c) = vertical_scroll(c)
    BY <1>1, <1>3, SameScroll DEF RollUp, BackgroundRollUp
  <2>2. PICK text : text = [k \in Cells |-> IF k + NUM_COLS \in Cells
                                             THEN c.text[k + NUM_COLS] ELSE Blank]
    OBVIOUS
  <2>3. /\ vertical_scroll(c) = [c EXCEPT !.text = text, !.x = 0, !.y = NUM_ROWS - 1]
        /\ vertical_scroll(d) = [d EXCEPT !.text = text, !.x = 0, !.y = NUM_ROWS - 1]
    BY <2>2 DEF vertical_scroll, Same
  <2>4. PICK text1, x1, y1, row1, f1 :
            c = [text |-> text1, x |-> x1, y |-> y1, row |-> row1, fault |-> f1]
    BY ConsoleHas
  <2>5. PICK text2, x2, y2, row2, f2 :
            d = [text |-> text2, x |-> x2, y |-> y2, row |-> row2, fault |-> f2]
    BY ConsoleHas
  <2>6. Same(vertical_scroll(c), vertical_scroll(d))
    BY <2>3, <2>4, <2>5 DEF Same
  <2> QED
    BY <2>1, <2>6
<1> QED
  BY <1>2, <1>3

\* A character but the tab, on either copy, next to the same on putc's.
LEMMA SamePut ==
    ASSUME NEW M, Blank \in M, NEW c \in Consoles(M), NEW d \in Consoles(M), Same(c, d),
           NEW char \in M \cup Controls, char # "tab", NEW visible \in BOOLEAN
    PROVE  Same(Put(visible, c, char), Put(TRUE, d, char))
<1>1. PICK e : e = IF visible THEN RollUp(c) ELSE BackgroundRollUp(c)
  OBVIOUS
<1>2. PICK g : g = RollUp(d)
  OBVIOUS
<1>3. e \in Consoles(M) /\ g \in Consoles(M) /\ Same(e, g)
  BY <1>1, <1>2, RollsKeep, SameRollUp
<1>4. e.x = g.x
  BY <1>3 DEF Same
<1>5. CASE char = "backspace"
  <2>1. Put(visible, c, char) = Backspace(e) /\ Put(TRUE, d, char) = Backspace(g)
    BY <1>1, <1>2, <1>5 DEF Put, putc, background_putc
  <2>2. /\ MoveTo(e, e.x - 1) \in Consoles(M) /\ MoveTo(g, g.x - 1) \in Consoles(M)
        /\ Same(MoveTo(e, e.x - 1), MoveTo(g, g.x - 1))
    BY <1>3, <1>4, NextColumns, MoveToKeeps, SameMoveTo
  <2> QED
    BY <2>1, <2>2, SameStore DEF Backspace
<1>6. CASE char = "newline"
  <2>1. Put(visible, c, char) = Newline(e) /\ Put(TRUE, d, char) = Newline(g)
    BY <1>1, <1>2, <1>6 DEF Put, putc, background_putc
  <2> QED
    BY <1>3, <2>1, SameNewline
<1>7. CASE char \notin Controls
  <2>1. Put(visible, c, char) = Character(e, char) /\ Put(TRUE, d, char) = Character(g, char)
    BY <1>1, <1>2, <1>7 DEF Put, putc, background_putc, Controls
  <2>2. PICK k, l : k = Store(e, char) /\ l = Store(g, char)
    OBVIOUS
  <2>3. /\ k \in Consoles(M) /\ l \in Consoles(M) /\ Same(k, l) /\ k.x + 1 = l.x + 1
    BY <1>3, <1>4, <1>7, <2>2, StoreKeeps, SameStore
  <2>4. Character(e, char) = MoveTo(k, k.x + 1) /\ Character(g, char) = MoveTo(l, l.x + 1)
    BY <2>2 DEF Character
  <2> QED
    BY <2>1, <2>3, <2>4, SameMoveTo
<1> QED
  BY <1>5, <1>6, <1>7 DEF Controls

SameWriting(w, z) == Same(w.console, z.console) /\ w.line_ct = z.line_ct

LEMMA SameRecords ==
    ASSUME NEW c, NEW d, NEW n, Same(c, d),
           NEW w, w = [console |-> c, line_ct |-> n],
           NEW z, z = [console |-> d, line_ct |-> n]
    PROVE  SameWriting(w, z)
<1>1. w.console = c /\ z.console = d /\ w.line_ct = n /\ z.line_ct = n
  OBVIOUS
<1> QED
  BY <1>1 DEF SameWriting

\* One byte of a buffer: the two copies break rows alike, for terminal_write
\* counts for both.
LEMMA SameByte ==
    ASSUME NEW M, Blank \in M, NEW visible \in BOOLEAN,
           NEW byte \in M \cup Controls, byte # "tab",
           NEW w \in [console : Consoles(M), line_ct : Nat],
           NEW z \in [console : Consoles(M), line_ct : Nat], SameWriting(w, z)
    PROVE  SameWriting(WriteByte(visible, w, byte), WriteByte(TRUE, z, byte))
<1>1. PICK c, d, n : /\ w = [console |-> c, line_ct |-> n]
                     /\ z = [console |-> d, line_ct |-> n]
                     /\ c \in Consoles(M) /\ d \in Consoles(M) /\ Same(c, d)
  <2>1. /\ w = [console |-> w.console, line_ct |-> w.line_ct]
        /\ z = [console |-> z.console, line_ct |-> w.line_ct]
        /\ w.console \in Consoles(M) /\ z.console \in Consoles(M)
    BY DEF SameWriting
  <2> QED
    BY <2>1 DEF SameWriting
<1>2. TRUE \in BOOLEAN /\ "newline" \in M \cup Controls /\ "newline" # "tab"
  BY DEF Controls
<1> DEFINE broken == n = ROW_LIM /\ byte \notin {"nul", "newline"}
<1>3. PICK e, g : /\ e = IF broken THEN Put(visible, c, "newline") ELSE c
                  /\ g = IF broken THEN Put(TRUE, d, "newline") ELSE d
  OBVIOUS
<1>4. e \in Consoles(M) /\ g \in Consoles(M) /\ Same(e, g)
  <2>1. CASE broken
    <3>1. Put(visible, c, "newline") \in Consoles(M) /\ Put(TRUE, d, "newline") \in Consoles(M)
      BY <1>1, <1>2, putcKeeps DEF Put
    <3>2. Same(Put(visible, c, "newline"), Put(TRUE, d, "newline"))
      BY <1>1, <1>2, SamePut
    <3> QED
      BY <1>3, <2>1, <3>1, <3>2
  <2>2. CASE ~broken
    BY <1>1, <1>3, <2>2
  <2> QED
    BY <2>1, <2>2
<1>5. PICK m : m = IF broken \/ byte = "newline" THEN 0 ELSE n
  OBVIOUS
<1>6. /\ WriteByte(visible, w, byte) =
             IF byte = "nul" THEN [console |-> e, line_ct |-> m]
             ELSE [console |-> Put(visible, e, byte), line_ct |-> m + 1]
      /\ WriteByte(TRUE, z, byte) =
             IF byte = "nul" THEN [console |-> g, line_ct |-> m]
             ELSE [console |-> Put(TRUE, g, byte), line_ct |-> m + 1]
  BY <1>1, <1>3, <1>5 DEF WriteByte
<1>7. Same(Put(visible, e, byte), Put(TRUE, g, byte))
  BY <1>4, SamePut
<1> HIDE DEF broken
<1>8. CASE byte = "nul"
  <2>1. /\ WriteByte(visible, w, byte) = [console |-> e, line_ct |-> m]
        /\ WriteByte(TRUE, z, byte) = [console |-> g, line_ct |-> m]
    BY <1>6, <1>8
  <2> QED
    BY <1>4, <2>1, SameRecords
<1>9. CASE byte # "nul"
  <2>1. PICK p, q : p = Put(visible, e, byte) /\ q = Put(TRUE, g, byte)
    OBVIOUS
  <2>2. /\ WriteByte(visible, w, byte) = [console |-> p, line_ct |-> m + 1]
        /\ WriteByte(TRUE, z, byte) = [console |-> q, line_ct |-> m + 1]
    BY <1>6, <1>9, <2>1
  <2>3. Same(p, q)
    BY <1>7, <2>1
  <2> QED
    BY <2>2, <2>3, SameRecords
<1> QED
  BY <1>8, <1>9

LEMMA SameBytes ==
    ASSUME NEW M, Blank \in M, NEW visible \in BOOLEAN, NEW line_ct \in Nat,
           NEW bytes \in Seq(M \cup Controls), "tab" \notin ToSet(bytes),
           NEW c \in Consoles(M), NEW d \in Consoles(M), Same(c, d)
    PROVE  Same(PutBytes(visible, c, bytes, line_ct), PutBytes(TRUE, d, bytes, line_ct))
<1>1. PICK S, B : S = [console : Consoles(M), line_ct : Nat]
                  /\ B = {b \in M \cup Controls : b # "tab"}
  OBVIOUS
<1>2. ASSUME NEW w \in S, NEW b \in B, NEW v \in BOOLEAN PROVE WriteByte(v, w, b) \in S
  BY <1>1, WriteByteKeeps
<1>3. bytes \in Seq(B)
  <2>1. bytes \in [1 .. Len(bytes) -> B] /\ Len(bytes) \in Nat
    BY <1>1 DEF ToSet
  <2> QED
    BY <2>1, SeqDef
<1>4. /\ [console |-> c, line_ct |-> line_ct] \in S
      /\ [console |-> d, line_ct |-> line_ct] \in S
  BY <1>1
<1>5. PICK f \in [0 .. Len(bytes) -> S] :
          /\ f[0] = [console |-> c, line_ct |-> line_ct]
          /\ \A n \in 1 .. Len(bytes) : f[n] = WriteByte(visible, f[n - 1], bytes[n])
          /\ PutBytes(visible, c, bytes, line_ct) = f[Len(bytes)].console
  BY <1>2, <1>3, <1>4, PutBytesRounds, SMTT(20)
<1>6. PICK seen \in BOOLEAN : seen = TRUE
  OBVIOUS
<1>7. PICK g \in [0 .. Len(bytes) -> S] :
          /\ g[0] = [console |-> d, line_ct |-> line_ct]
          /\ \A n \in 1 .. Len(bytes) : g[n] = WriteByte(seen, g[n - 1], bytes[n])
          /\ PutBytes(seen, d, bytes, line_ct) = g[Len(bytes)].console
  <2>1. \A w \in S, b \in B : WriteByte(seen, w, b) \in S
    BY <1>2
  <2> QED
    BY <1>3, <1>4, <2>1, PutBytesRounds
<1>8. Len(bytes) \in Nat /\ 0 \in 0 .. Len(bytes) /\ Len(bytes) \in 0 .. Len(bytes)
  OBVIOUS
<1>9. PICK Good, h :
          /\ Good = {"same"}
          /\ h = [n \in 0 .. Len(bytes) |->
                     IF SameWriting(f[n], g[n]) THEN "same" ELSE "apart"]
  OBVIOUS
<1>10. \A n \in 0 .. Len(bytes) : h[n] \in Good <=> SameWriting(f[n], g[n])
  BY <1>9
<1>11. h[0] \in Good
  <2>1. SameWriting(f[0], g[0])
    BY <1>5, <1>7 DEF SameWriting
  <2> QED
    BY <1>8, <1>10, <2>1
<1>12. ASSUME NEW n \in 1 .. Len(bytes), h[n - 1] \in Good PROVE h[n] \in Good
  <2>1. n - 1 \in 0 .. Len(bytes) /\ n \in 0 .. Len(bytes)
    BY <1>8
  <2>2. PICK w, z : w = f[n - 1] /\ z = g[n - 1]
    OBVIOUS
  <2>3. w \in S /\ z \in S /\ SameWriting(w, z)
    BY <1>5, <1>7, <1>10, <1>12, <2>1, <2>2
  <2>4. /\ w \in [console : Consoles(M), line_ct : Nat]
        /\ z \in [console : Consoles(M), line_ct : Nat]
    BY <1>1, <2>3
  <2>5. PICK byte : byte = bytes[n]
    OBVIOUS
  <2>6. byte \in M \cup Controls /\ byte # "tab"
    BY <1>1, <1>3, <2>5
  <2>7. SameWriting(WriteByte(visible, w, byte), WriteByte(TRUE, z, byte))
    BY <2>3, <2>4, <2>6, SameByte
  <2>8. f[n] = WriteByte(visible, w, byte) /\ g[n] = WriteByte(TRUE, z, byte)
    BY <1>5, <1>6, <1>7, <2>2, <2>5
  <2> QED
    BY <1>10, <2>1, <2>7, <2>8
<1>13. \A n \in 0 .. Len(bytes) : h[n] \in Good
  BY <1>8, <1>11, <1>12, LoopKeeps
<1>14. SameWriting(f[Len(bytes)], g[Len(bytes)])
  BY <1>8, <1>10, <1>13
<1>15. PutBytes(TRUE, d, bytes, line_ct) = g[Len(bytes)].console
  BY <1>6, <1>7
<1> QED
  BY <1>5, <1>14, <1>15 DEF SameWriting

\* Without a newline behind the text nothing more is printed.
LEMMA NothingBehind ==
    ASSUME NEW M, Blank \in M, NEW c \in Consoles(M), NEW text, Newlines(text) = 0
    PROVE  Trailer(text, c) = c
<1>1. PICK bytes : bytes = [k \in 1 .. 0 |-> "newline"]
  OBVIOUS
<1>2. bytes \in Seq({}) /\ Len(bytes) = 0
  <2>1. bytes = <<>>
    BY <1>1
  <2> QED
    BY <2>1
<1>3. PICK S, B : S = Consoles(M) /\ B = {}
  OBVIOUS
<1>4. c \in S /\ bytes \in Seq(B) /\ \A d \in S, b \in B : putc(d, b) \in S
  BY <1>2, <1>3
<1>5. PICK f \in [0 .. Len(bytes) -> S] : f[0] = c /\ PutAll(c, bytes) = f[Len(bytes)]
  BY <1>4, PutAllRounds
<1>6. Trailer(text, c) = PutAll(c, bytes)
  BY <1>1 DEF Trailer
<1> QED
  BY <1>2, <1>5, <1>6

\* What terminal_write prints is what putc would have printed on the screen of
\* the program, whichever copy prints.
LEMMA Alike ==
    ASSUME PictureInv, schedule_idx \in Terminals, NEW text \in Texts[schedule_idx],
           Tabless(text), NEW visible \in BOOLEAN,
           NEW c \in Consoles(Marks(schedule_idx)),
           c.text = View(schedule_idx).text, c.x = View(schedule_idx).x,
           c.y = View(schedule_idx).y
    PROVE  Same(PutBytes(visible, c, text.bytes, FirstCount), Written(text))
<1> DEFINE M == Marks(schedule_idx)
<1>1. PICK d : d = [text |-> c.text, x |-> c.x, y |-> c.y, row |-> 0, fault |-> FALSE]
  OBVIOUS
<1>2. d \in Consoles(M) /\ Same(c, d)
  <2>1. 0 \in 0 .. 255 /\ FALSE \in BOOLEAN
    OBVIOUS
  <2>2. c.text \in [Cells -> M] /\ Placed(c.x, c.y)
    BY ConsoleHas
  <2>3. d \in Consoles(M)
    BY <1>1, <2>1, <2>2, ConsoleIs
  <2>4. Same(c, d)
    BY <1>1 DEF Same
  <2> QED
    BY <2>3, <2>4
<1>3. Written(text) = PutBytes(TRUE, d, text.bytes, FirstCount)
  BY <1>1 DEF Written
<1>4. /\ text.bytes \in Seq(M \cup Controls) /\ FirstCount \in Nat
      /\ "tab" \notin ToSet(text.bytes) /\ Blank \in M
  BY TextFacts, MarksHave DEF Tabless
<1> HIDE DEF M
<1>5. Same(PutBytes(visible, c, text.bytes, FirstCount),
           PutBytes(TRUE, d, text.bytes, FirstCount))
  BY <1>2, <1>4, SameBytes DEF M
<1> QED
  BY <1>3, <1>5

LEMMA WriteAlike ==
    ASSUME PictureInv, OthersWhole, NEW text \in Texts[schedule_idx],
           terminal_write(text), Newlines(text) = 0, Tabless(text)
    PROVE  LET v == View(schedule_idx)'
               c == Written(text)
           IN  v.text = c.text /\ v.x = c.x /\ v.y = c.y
<1> DEFINE M == Marks(schedule_idx)
<1>1. /\ schedule_idx \in Terminals /\ terminal_num \in Terminals /\ Blank \in M
      /\ Blank \in Marks(terminal_num)
  BY VisibleIs, MarksHave DEF OthersWhole
<1>2. schedule_idx' = schedule_idx /\ terminal_num' = terminal_num
  BY DEF terminal_write
<1>3. text.bytes \in Seq(M \cup Controls) /\ FirstCount \in Nat
  BY <1>1, TextFacts
<1>4. page \in [Pages -> [Cells -> AllMarks]] /\ save_x \in [Terminals -> Columns]
      /\ save_y \in [Terminals -> 0 .. NUM_ROWS]
  BY DEF PictureInv, ScreensWhole
<1>5. CASE schedule_idx = terminal_num
  <2>1. PICK e, row : row = RowOfText(text) /\ e = [Visible EXCEPT !.row = row]
    OBVIOUS
  <2>2. e \in Consoles(M)
    BY <1>1, <1>5, <2>1, VisibleRow
  <2>3. /\ e.text = View(schedule_idx).text /\ e.x = View(schedule_idx).x
        /\ e.y = View(schedule_idx).y
    BY <1>5, <2>1 DEF Visible, View
  <2>4. PICK seen \in BOOLEAN : seen = TRUE
    OBVIOUS
  <2>5. PICK c : c = PutBytes(seen, e, text.bytes, FirstCount)
    OBVIOUS
  <2>6. c \in Consoles(M) /\ Same(c, Written(text))
    BY <1>1, <1>3, <2>2, <2>3, <2>5, PutBytesKeeps, Alike
  <2>7. Trailer(text, c) = c
    BY <1>1, <2>6, NothingBehind
  <2>8. WriteVisible(text)
    BY <1>5 DEF terminal_write, InForeground
  <2>9. Shows(c)
    BY <2>1, <2>4, <2>5, <2>7, <2>8 DEF WriteVisible
  <2>10. PICK shown : shown = c.text /\ page' = [page EXCEPT ![Video] = shown]
    BY <2>9 DEF Shows
  <2>11. page'[Video] = shown /\ screen_x' = c.x /\ screen_y' = c.y
    BY <1>4, <2>9, <2>10, PagesApart DEF Shows, ShowsCursor
  <2>12. View(schedule_idx)' = [text |-> shown, x |-> c.x, y |-> c.y]
    BY <1>2, <1>5, <2>11 DEF View
  <2> QED
    BY <2>6, <2>10, <2>12 DEF Same
<1>6. CASE schedule_idx # terminal_num
  <2>1. PICK e : e = Hidden(schedule_idx)
    OBVIOUS
  <2>2. e \in Consoles(M)
    BY <1>1, <1>6, <2>1, HiddenIs
  <2>3. /\ e.text = View(schedule_idx).text /\ e.x = View(schedule_idx).x
        /\ e.y = View(schedule_idx).y
    BY <1>6, <2>1 DEF Hidden, View
  <2>4. PICK seen \in BOOLEAN : seen = FALSE
    OBVIOUS
  <2>5. PICK c : c = PutBytes(seen, e, text.bytes, FirstCount)
    OBVIOUS
  <2>6. Same(c, Written(text))
    BY <1>1, <2>2, <2>3, <2>5, Alike
  <2>7. PICK shown, v, other :
            /\ shown = c.text /\ other = v.text
            /\ page' = [page EXCEPT ![PageOf(schedule_idx)] = shown, ![Video] = other]
            /\ save_x' = [save_x EXCEPT ![schedule_idx] = c.x]
            /\ save_y' = [save_y EXCEPT ![schedule_idx] = c.y]
    <3>1. WriteHidden(text)
      BY <1>6 DEF terminal_write, InForeground
    <3> QED
      BY <2>1, <2>4, <2>5, <3>1 DEF WriteHidden
  <2>8. /\ page'[PageOf(schedule_idx)] = shown
        /\ save_x'[schedule_idx] = c.x /\ save_y'[schedule_idx] = c.y
    BY <1>1, <1>4, <2>7, PagesApart
  <2>9. View(schedule_idx)' = [text |-> shown, x |-> c.x, y |-> c.y]
    BY <1>2, <1>6, <2>8 DEF View
  <2> QED
    BY <2>6, <2>7, <2>9 DEF Same
<1> QED
  BY <1>5, <1>6

\* For texts without tabs and without a newline behind them, whatever they hold
\* and however long they are, a program's screen gets the same from a write
\* whether or not the user looks at it (terminal.c:142-161, lib.c:182-277).
THEOREM ConsolesAlike == Spec => SeenOrNot
<1>1. TextInv /\ [Next]_vars =>
      [\A text \in Texts[schedule_idx] :
          terminal_write(text) /\ Newlines(text) = 0 /\ Tabless(text) =>
             LET v == View(schedule_idx)'
                 c == Written(text)
             IN  v.text = c.text /\ v.x = c.x /\ v.y = c.y]_vars
  BY WriteAlike DEF TextInv
<1> QED
  BY <1>1, TextInvariance, PTL DEF Spec, SeenOrNot

-----------------------------------------------------------------------------
(* What can be read on a screen. *)

\* n cells of a text from one on hold what is in M.
Held(text, from, n, M) == \A k \in 1 .. n : text[from + k - 1] \in M

\* n cells of two texts are the same.
Match(s, a, t, b, n) == \A k \in 1 .. n : s[a + k - 1] = t[b + k - 1]

\* What was read before a cell, and with it.
ReadOne(text, cell, s) == IF text[cell] \in Silent THEN s ELSE Append(s, text[cell])

\* f is what was read after each of n cells.
Reads(f, text, from, n, M) ==
    /\ f \in [0 .. n -> Seq(M)] /\ f[0] = <<>>
    /\ \A k \in 1 .. n : f[k] = ReadOne(text, from + k - 1, f[k - 1])

\* The rounds of a reading of n cells.
LEMMA ReadingRounds ==
    ASSUME NEW text, NEW from \in Int, NEW n \in Nat, NEW M, Held(text, from, n, M)
    PROVE  \E f : Reads(f, text, from, n, M) /\ ReadCells(text, from, n) = f[n]
<1> DEFINE G(k, s) == ReadOne(text, from + k - 1, s)
<1>1. PICK F \in [1 .. n -> [Seq(M) -> Seq(M)]] :
          \A k \in 1 .. n, s \in Seq(M) : F[k][s] = G(k, s)
  <2> DEFINE H == [k \in 1 .. n |-> [s \in Seq(M) |-> G(k, s)]]
  <2>1. ASSUME NEW k \in 1 .. n, NEW s \in Seq(M) PROVE G(k, s) \in Seq(M)
    <3>1. PICK char \in M : char = text[from + k - 1]
      BY DEF Held
    <3>2. Append(s, char) \in Seq(M)
      OBVIOUS
    <3> QED
      BY <3>1, <3>2 DEF ReadOne
  <2> HIDE DEF G
  <2>2. /\ H \in [1 .. n -> [Seq(M) -> Seq(M)]]
        /\ \A k \in 1 .. n, s \in Seq(M) : H[k][s] = G(k, s)
    BY <2>1
  <2> HIDE DEF H
  <2> QED
    BY <2>2
<1> HIDE DEF G
<1>2. <<>> \in Seq(M)
  OBVIOUS
<1>3. PICK f : Rounds(f, Seq(M), n, <<>>, F)
  BY <1>1, <1>2, LoopExists
<1>4. f = [k \in 0 .. n |-> IF k = 0 THEN <<>> ELSE G(k, f[k - 1])]
  <2>1. ASSUME NEW k \in 0 .. n
        PROVE  f[k] = IF k = 0 THEN <<>> ELSE G(k, f[k - 1])
    <3>1. CASE k # 0
      <4>1. k \in 1 .. n /\ k - 1 \in 0 .. n
        BY <3>1
      <4>2. f[k] = F[k][f[k - 1]] /\ f[k - 1] \in Seq(M)
        BY <1>3, <4>1 DEF Rounds
      <4> QED
        BY <1>1, <3>1, <4>1, <4>2
    <3> QED
      BY <1>3, <3>1 DEF Rounds
  <2>2. f = [k \in 0 .. n |-> f[k]]
    BY <1>3 DEF Rounds
  <2> QED
    BY <2>1, <2>2
<1> DEFINE W == CHOOSE w : w = [k \in 0 .. n |-> IF k = 0 THEN <<>> ELSE G(k, w[k - 1])]
<1>5. W = [k \in 0 .. n |-> IF k = 0 THEN <<>> ELSE G(k, W[k - 1])]
  BY <1>4
<1>6. ReadCells(text, from, n) = W[n]
  <2> DEFINE V == CHOOSE v : v = [k \in 0 .. n |->
                     IF k = 0 THEN <<>>
                     ELSE IF text[from + k - 1] \in Silent THEN v[k - 1]
                     ELSE Append(v[k - 1], text[from + k - 1])]
  <2>1. ReadCells(text, from, n) = V[n]
    BY DEF ReadCells
  <2>2. V = W
    BY DEF G, ReadOne
  <2> QED
    BY <2>1, <2>2
<1> HIDE DEF W
<1>7. W[0] = <<>> /\ \A k \in 1 .. n : W[k] = G(k, W[k - 1])
  BY <1>5
<1>8. \A k \in 0 .. n : W[k] \in Seq(M)
  <2>1. \A k \in 1 .. n : W[k - 1] \in Seq(M) => W[k] \in Seq(M)
    BY <1>1, <1>7
  <2>2. W[0] \in Seq(M)
    BY <1>2, <1>7
  <2> QED
    BY <2>1, <2>2, LoopKeeps
<1>9. W \in [0 .. n -> Seq(M)]
  BY <1>5, <1>8
<1> QED
  BY <1>6, <1>7, <1>9 DEF G, Reads

\* The cell that is read last.
LEMMA ReadNone ==
    ASSUME NEW text, NEW from \in Int PROVE ReadCells(text, from, 0) = <<>>
<1>1. Held(text, from, 0, {}) /\ 0 \in Nat
  BY DEF Held
<1>2. PICK f : Reads(f, text, from, 0, {}) /\ ReadCells(text, from, 0) = f[0]
  BY <1>1, ReadingRounds
<1> QED
  BY <1>2 DEF Reads

LEMMA ReadNext ==
    ASSUME NEW text, NEW from \in Int, NEW n \in Nat, NEW M, Held(text, from, n, M),
           NEW k \in 1 .. n
    PROVE  /\ ReadCells(text, from, k - 1) \in Seq(M)
           /\ ReadCells(text, from, k) =
                 ReadOne(text, from + k - 1, ReadCells(text, from, k - 1))
<1>1. ASSUME NEW m \in 0 .. n PROVE m \in Nat /\ Held(text, from, m, M)
  BY DEF Held
<1>2. PICK f : Reads(f, text, from, n, M)
  BY ReadingRounds
<1>3. ASSUME NEW m \in 0 .. n PROVE ReadCells(text, from, m) = f[m]
  <2>0. m \in Nat /\ Held(text, from, m, M)
    BY <1>1
  <2>1. PICK g : Reads(g, text, from, m, M) /\ ReadCells(text, from, m) = g[m]
    BY <2>0, ReadingRounds
  <2>2. PICK P : P = {j \in 0 .. m : g[j] = f[j]}
    OBVIOUS
  <2>3. 0 \in P /\ m \in Nat /\ m \in 0 .. m
    BY <1>2, <2>1, <2>2 DEF Reads
  <2>4. ASSUME NEW j \in 1 .. m, j - 1 \in P PROVE j \in P
    <3>1. j \in 1 .. n /\ j \in 0 .. m
      OBVIOUS
    <3>2. g[j - 1] = f[j - 1]
      BY <2>2, <2>4
    <3>3. g[j] = ReadOne(text, from + j - 1, g[j - 1])
      BY <2>1 DEF Reads
    <3>4. f[j] = ReadOne(text, from + j - 1, f[j - 1])
      BY <1>2, <3>1 DEF Reads
    <3> QED
      BY <2>2, <3>1, <3>2, <3>3, <3>4
  <2>5. \A j \in 0 .. m : j \in P
    BY <2>3, <2>4, Induct
  <2> QED
    BY <2>1, <2>2, <2>3, <2>5
<1>4. k - 1 \in 0 .. n /\ k \in 0 .. n
  OBVIOUS
<1>5. ReadCells(text, from, k - 1) = f[k - 1] /\ ReadCells(text, from, k) = f[k]
  BY <1>3, <1>4
<1> QED
  BY <1>2, <1>4, <1>5 DEF Reads

LEMMA ReadIs ==
    ASSUME NEW text, NEW from \in Int, NEW n \in Nat, NEW M, Held(text, from, n, M)
    PROVE  ReadCells(text, from, n) \in Seq(M)
<1>1. PICK f : Reads(f, text, from, n, M) /\ ReadCells(text, from, n) = f[n]
  BY ReadingRounds
<1> QED
  BY <1>1 DEF Reads

\* Cells that hold the same read the same, wherever they are.
LEMMA ReadSame ==
    ASSUME NEW s, NEW t, NEW a \in Int, NEW b \in Int, NEW n \in Nat, NEW M,
           Held(s, a, n, M), Match(s, a, t, b, n)
    PROVE  ReadCells(s, a, n) = ReadCells(t, b, n)
<1>1. PICK P : P = {k \in 0 .. n : ReadCells(s, a, k) = ReadCells(t, b, k)}
  OBVIOUS
<1>2. 0 \in P
  BY <1>1, ReadNone
<1>3. Held(t, b, n, M)
  BY DEF Held, Match
<1>4. ASSUME NEW k \in 1 .. n, k - 1 \in P PROVE k \in P
  <2>1. ReadCells(s, a, k) = ReadOne(s, a + k - 1, ReadCells(s, a, k - 1))
    BY ReadNext
  <2>2. ReadCells(t, b, k) = ReadOne(t, b + k - 1, ReadCells(t, b, k - 1))
    BY <1>3, ReadNext
  <2>3. ReadCells(s, a, k - 1) = ReadCells(t, b, k - 1) /\ s[a + k - 1] = t[b + k - 1]
    BY <1>1, <1>4 DEF Match
  <2>4. ReadCells(s, a, k) = ReadCells(t, b, k)
    BY <2>1, <2>2, <2>3 DEF ReadOne
  <2> QED
    BY <1>1, <2>4
<1>5. n \in 0 .. n /\ \A k \in 0 .. n : k \in P
  BY <1>2, <1>4, Induct
<1> QED
  BY <1>1, <1>5

\* Blank cells read as nothing.
LEMMA ReadBlank ==
    ASSUME NEW text, NEW from \in Int, NEW n \in Nat, Held(text, from, n, Silent)
    PROVE  ReadCells(text, from, n) = <<>>
<1>1. PICK P : P = {k \in 0 .. n : ReadCells(text, from, k) = <<>>}
  OBVIOUS
<1>2. 0 \in P
  BY <1>1, ReadNone
<1>3. ASSUME NEW k \in 1 .. n, k - 1 \in P PROVE k \in P
  <2>1. ReadCells(text, from, k) = ReadOne(text, from + k - 1, ReadCells(text, from, k - 1))
    BY ReadNext
  <2>2. text[from + k - 1] \in Silent
    BY DEF Held
  <2> QED
    BY <1>1, <1>3, <2>1, <2>2 DEF ReadOne
<1>4. n \in 0 .. n /\ \A k \in 0 .. n : k \in P
  BY <1>2, <1>3, Induct
<1> QED
  BY <1>1, <1>4

\* One part is read after the other.
LEMMA ReadParts ==
    ASSUME NEW text, NEW from \in Int, NEW m \in Nat, NEW n \in Nat, NEW M,
           Held(text, from, m + n, M)
    PROVE  /\ ReadCells(text, from, m) \in Seq(M)
           /\ ReadCells(text, from + m, n) \in Seq(M)
           /\ ReadCells(text, from, m + n) =
                 ReadCells(text, from, m) \o ReadCells(text, from + m, n)
<1>1. m + n \in Nat /\ from + m \in Int
  OBVIOUS
<1>2. Held(text, from + m, n, M)
  <2> SUFFICES ASSUME NEW k \in 1 .. n PROVE text[from + m + k - 1] \in M
    BY DEF Held
  <2>1. m + k \in 1 .. m + n /\ from + (m + k) - 1 = from + m + k - 1
    OBVIOUS
  <2> QED
    BY <2>1 DEF Held
<1>3. Held(text, from, m, M)
  BY DEF Held
<1>4. PICK u \in Seq(M) : u = ReadCells(text, from, m)
  BY <1>3, ReadIs
<1>5. PICK P : P = {k \in 0 .. n : ReadCells(text, from, m + k) =
                                      u \o ReadCells(text, from + m, k)}
  OBVIOUS
<1>6. 0 \in P
  <2>1. u \o <<>> = u /\ m + 0 = m
    OBVIOUS
  <2> QED
    BY <1>1, <1>4, <1>5, <2>1, ReadNone
<1>7. ASSUME NEW k \in 1 .. n, k - 1 \in P PROVE k \in P
  <2>1. /\ m + k \in 1 .. m + n /\ (m + k) - 1 = m + (k - 1)
        /\ from + (m + k) - 1 = from + m + k - 1 /\ k \in 0 .. n
    OBVIOUS
  <2>2. ReadCells(text, from, m + k) =
           ReadOne(text, from + m + k - 1, ReadCells(text, from, m + (k - 1)))
    <3>1. ReadCells(text, from, m + k) =
             ReadOne(text, from + (m + k) - 1, ReadCells(text, from, (m + k) - 1))
      BY <1>1, <2>1, ReadNext
    <3> QED
      BY <2>1, <3>1
  <2>3. PICK b \in Seq(M) : b = ReadCells(text, from + m, k - 1)
    BY <1>1, <1>2, ReadNext
  <2>4. ReadCells(text, from + m, k) = ReadOne(text, from + m + k - 1, b)
    BY <1>1, <1>2, <2>3, ReadNext
  <2>5. ReadCells(text, from, m + (k - 1)) = u \o b
    BY <1>5, <1>7, <2>3
  <2>6. PICK char \in M : char = text[from + m + k - 1]
    BY <2>1 DEF Held
  <2>7. Append(u \o b, char) = u \o Append(b, char)
    OBVIOUS
  <2>8. ReadCells(text, from, m + k) = u \o ReadCells(text, from + m, k)
    BY <2>2, <2>4, <2>5, <2>6, <2>7 DEF ReadOne
  <2> QED
    BY <1>5, <2>1, <2>8
<1>8. n \in 0 .. n /\ \A k \in 0 .. n : k \in P
  BY <1>6, <1>7, Induct
<1> QED
  BY <1>1, <1>2, <1>4, <1>5, <1>8, ReadIs

\* A suffix is what a sequence ends with.
LEMMA EndIsSuffix ==
    ASSUME NEW M, NEW a \in Seq(M), NEW b \in Seq(M)
    PROVE  IsSuffix(b, a \o b)
<1> DEFINE t == a \o b
<1>1. /\ t \in Seq(M) /\ Len(t) = Len(a) + Len(b) /\ Len(a) \in Nat /\ Len(b) \in Nat
      /\ \A k \in 1 .. Len(b) : t[Len(a) + k] = b[k]
  OBVIOUS
<1> HIDE DEF t
<1> DEFINE r == Reverse(t)
           q == Reverse(b)
<1>2. r = [k \in 1 .. Len(t) |-> t[(Len(t) - k) + 1]]
  BY DEF Reverse
<1>3. q = [k \in 1 .. Len(b) |-> b[(Len(b) - k) + 1]]
  BY DEF Reverse
<1>4. r \in Seq(M) /\ Len(r) = Len(t)
  <2>1. \A k \in 1 .. Len(t) : (Len(t) - k) + 1 \in 1 .. Len(t)
    BY <1>1
  <2>2. \A k \in 1 .. Len(t) : t[k] \in M
    BY <1>1
  <2>3. r \in [1 .. Len(t) -> M]
    BY <1>2, <2>1, <2>2
  <2> QED
    BY <1>1, <2>3, SeqDef, LenProperties
<1>5. q \in Seq(M) /\ Len(q) = Len(b)
  <2>1. \A k \in 1 .. Len(b) : (Len(b) - k) + 1 \in 1 .. Len(b)
    BY <1>1
  <2>2. q \in [1 .. Len(b) -> M]
    BY <1>3, <2>1
  <2>0. Len(b) \in Nat
    BY <1>1
  <2>3. q \in Seq(M)
    <3> HIDE DEF q
    <3> QED
      BY <2>0, <2>2, SeqDef
  <2> QED
    BY <1>1, <2>2, <2>3, LenProperties
<1>6. \A k \in 1 .. Len(b) : q[k] = r[k]
  <2> SUFFICES ASSUME NEW k \in 1 .. Len(b) PROVE q[k] = r[k]
    OBVIOUS
  <2>1. /\ (Len(t) - k) + 1 = Len(a) + ((Len(b) - k) + 1)
        /\ (Len(b) - k) + 1 \in 1 .. Len(b) /\ k \in 1 .. Len(t)
    BY <1>1
  <2> QED
    BY <1>1, <1>2, <1>3, <2>1
<1> HIDE DEF r, q
<1>7. SubSeq(q, 1, Len(q)) = SubSeq(r, 1, Len(q))
  <2>1. Len(q) \in Nat /\ Len(q) <= Len(r)
    BY <1>1, <1>4, <1>5
  <2>2. /\ SubSeq(q, 1, Len(q)) = [k \in 1 .. Len(q) |-> q[k]]
        /\ SubSeq(r, 1, Len(q)) = [k \in 1 .. Len(q) |-> r[k]]
    BY <1>4, <1>5, <2>1
  <2>3. Len(q) = Len(b)
    BY <1>5
  <2> QED
    BY <1>6, <2>2, <2>3
<1>8. IsPrefix(q, r)
  BY <1>1, <1>4, <1>5, <1>7 DEF IsPrefix
<1> QED
  BY <1>8 DEF IsSuffix, r, q, t

-----------------------------------------------------------------------------
(* What putc does with the parts of a console. *)

\* A text that moved up by some cells.
Shift(text, s) == [k \in Cells |-> IF k + s \in Cells THEN text[k + s] ELSE Blank]

LEMMA ShiftIs ==
    ASSUME NEW M, Blank \in M, NEW text \in [Cells -> M], NEW a \in Nat, NEW b \in Nat
    PROVE  /\ Shift(text, a) \in [Cells -> M]
           /\ Shift(text, 0) = text
           /\ Shift(Shift(text, a), b) = Shift(text, a + b)
<1>1. \A k \in Cells : k + 0 = k /\ k \in Nat
  BY DEF Cells
<1>2. Shift(text, a) \in [Cells -> M]
  BY DEF Shift
<1>3. Shift(text, 0) = text
  BY <1>1 DEF Shift
<1>4. Shift(Shift(text, a), b) = Shift(text, a + b)
  <2>1. \A k \in Cells : /\ k + (a + b) \in Cells <=> (k + b \in Cells /\ (k + b) + a \in Cells)
                         /\ (k + b) + a = k + (a + b)
    BY SizeFacts DEF Cells
  <2> QED
    BY <2>1 DEF Shift
<1> QED
  BY <1>2, <1>3, <1>4

\* What the steps of putc do with each part of a console.
LEMMA StoreIs ==
    ASSUME NEW M, NEW c \in Consoles(M), NEW char, At(c) \in Cells
    PROVE  /\ Store(c, char).text = [c.text EXCEPT ![At(c)] = char]
           /\ Store(c, char).x = c.x /\ Store(c, char).y = c.y
           /\ Store(c, char).row = c.row /\ Store(c, char).fault = c.fault
<1>1. PICK text, x0, y0, row0, fault0 :
          c = [text |-> text, x |-> x0, y |-> y0, row |-> row0, fault |-> fault0]
  BY ConsoleHas
<1>2. PICK d, k : d = Store(c, char) /\ k = At(c)
  OBVIOUS
<1>3. d = [c EXCEPT !.text[k] = char]
  BY <1>2 DEF Store
<1>4. d = [text |-> [text EXCEPT ![k] = char], x |-> x0, y |-> y0, row |-> row0,
           fault |-> fault0]
  BY <1>1, <1>3
<1>5. c.text = text /\ c.x = x0 /\ c.y = y0 /\ c.row = row0 /\ c.fault = fault0
  BY <1>1
<1>6. PICK stored : stored = [text EXCEPT ![k] = char]
  OBVIOUS
<1>7. /\ d.text = stored /\ d.x = x0 /\ d.y = y0 /\ d.row = row0 /\ d.fault = fault0
  BY <1>4, <1>6
<1> QED
  BY <1>2, <1>5, <1>6, <1>7

LEMMA MoveToIs ==
    ASSUME NEW M, NEW c \in Consoles(M), NEW x
    PROVE  /\ MoveTo(c, x).text = c.text
           /\ MoveTo(c, x).x = Rem(x) /\ MoveTo(c, x).y = c.y % NUM_ROWS
           /\ MoveTo(c, x).row = c.row /\ MoveTo(c, x).fault = c.fault
<1>1. PICK text, x0, y0, row0, fault0 :
          c = [text |-> text, x |-> x0, y |-> y0, row |-> row0, fault |-> fault0]
  BY ConsoleHas
<1>2. PICK column, row : column = Rem(x) /\ row = c.y % NUM_ROWS
  OBVIOUS
<1>3. PICK d : d = [c EXCEPT !.x = column, !.y = row]
  OBVIOUS
<1>4. d = [text |-> text, x |-> column, y |-> row, row |-> row0, fault |-> fault0]
  BY <1>1, <1>3
<1>5. d = MoveTo(c, x)
  BY <1>2, <1>3 DEF MoveTo
<1> QED
  BY <1>1, <1>2, <1>4, <1>5

LEMMA NewlineIs ==
    ASSUME NEW M, NEW c \in Consoles(M)
    PROVE  /\ Newline(c).text = c.text
           /\ Newline(c).x = 0 /\ Newline(c).y = c.y + 1
           /\ Newline(c).row = c.row /\ Newline(c).fault = c.fault
<1>1. PICK text, x0, y0, row0, fault0 :
          c = [text |-> text, x |-> x0, y |-> y0, row |-> row0, fault |-> fault0]
  BY ConsoleHas
<1>2. PICK row : row = c.y + 1
  OBVIOUS
<1>3. PICK d : d = [c EXCEPT !.x = 0, !.y = row]
  OBVIOUS
<1>4. d = [text |-> text, x |-> 0, y |-> row, row |-> row0, fault |-> fault0]
  BY <1>1, <1>3
<1>5. d = Newline(c)
  BY <1>2, <1>3 DEF Newline
<1> QED
  BY <1>1, <1>2, <1>4, <1>5

LEMMA RowIs ==
    ASSUME NEW M, NEW c \in Consoles(M), NEW row, NEW d, d = [c EXCEPT !.row = row]
    PROVE  /\ d.text = c.text /\ d.x = c.x /\ d.y = c.y
           /\ d.row = row /\ d.fault = c.fault
<1>1. PICK text, x0, y0, row0, fault0 :
          c = [text |-> text, x |-> x0, y |-> y0, row |-> row0, fault |-> fault0]
  BY ConsoleHas
<1>2. d = [text |-> text, x |-> x0, y |-> y0, row |-> row, fault |-> fault0]
  BY <1>1
<1> QED
  BY <1>1, <1>2

\* Where a console's cursor is, in cells.
LEMMA AtIs ==
    ASSUME NEW M, NEW c \in Consoles(M)
    PROVE  /\ At(c) = NUM_COLS * c.y + c.x /\ NUM_COLS * c.y \in Nat
           /\ c.x \in 1 - NUM_COLS .. NUM_COLS - 1 /\ c.y \in 0 .. NUM_ROWS
           /\ c.y = NUM_ROWS => c.x = 0 /\ At(c) = NUM_COLS * NUM_ROWS
           /\ c.y # NUM_ROWS => At(c) < NUM_COLS * NUM_ROWS
<1>1. c.x \in 1 - NUM_COLS .. NUM_COLS - 1 /\ c.y \in 0 .. NUM_ROWS
      /\ (c.y = NUM_ROWS => c.x = 0)
  BY ConsoleHas DEF Placed, Columns
<1>2. PICK x, y : x = c.x /\ y = c.y
  OBVIOUS
<1>3. NUM_COLS * y \in Nat
  BY <1>1, <1>2, SizeFacts
<1>4. y # NUM_ROWS => NUM_COLS * y <= NUM_COLS * NUM_ROWS - NUM_COLS
  <2> SUFFICES ASSUME y # NUM_ROWS PROVE NUM_COLS * y <= NUM_COLS * NUM_ROWS - NUM_COLS
    OBVIOUS
  <2>1. PICK z \in Nat : NUM_ROWS = y + 1 + z
    <3>1. NUM_ROWS - y - 1 \in Nat /\ NUM_ROWS = y + 1 + (NUM_ROWS - y - 1)
      BY <1>1, <1>2, SizeFacts
    <3> QED
      BY <3>1
  <2>2. NUM_COLS * NUM_ROWS = NUM_COLS * y + NUM_COLS + NUM_COLS * z /\ NUM_COLS * z \in Nat
    BY <1>1, <1>2, <2>1, SizeFacts
  <2> QED
    BY <1>3, <2>2, SizeFacts
<1>5. At(c) = NUM_COLS * y + x
  BY <1>2 DEF At
<1> QED
  BY <1>1, <1>2, <1>3, <1>4, <1>5, SizeFacts

\* Scrolling moves the text and the cursor by a row, or nothing at all.
LEMMA RollUpIs ==
    ASSUME NEW M, Blank \in M, NEW c \in Consoles(M)
    PROVE  \E s \in {0, NUM_COLS} :
              LET d == RollUp(c)
              IN  /\ d \in Consoles(M)
                  /\ d.text = Shift(c.text, s) /\ d.x = c.x
                  /\ NUM_COLS * d.y = NUM_COLS * c.y - s /\ At(d) = At(c) - s
                  /\ d.y < NUM_ROWS /\ d.row = c.row /\ d.fault = c.fault
                  /\ s # 0 <=> c.y = NUM_ROWS
<1>1. PICK d : d = RollUp(c)
  OBVIOUS
<1>2. d \in Consoles(M) /\ d.y < NUM_ROWS /\ d.row = c.row
  BY <1>1, RollsKeep
<1>3. CASE At(c) >= NUM_COLS * NUM_ROWS
  <2>1. c.y = NUM_ROWS /\ c.x = 0
    BY <1>3, AtIs, SizeFacts
  <2>2. PICK text0, x0, y0, row0, fault0 :
            c = [text |-> text0, x |-> x0, y |-> y0, row |-> row0, fault |-> fault0]
    BY ConsoleHas
  <2>3. PICK text : text = Shift(c.text, NUM_COLS)
    OBVIOUS
  <2>4. d = [c EXCEPT !.text = text, !.x = 0, !.y = NUM_ROWS - 1]
    BY <1>1, <1>3, <2>3 DEF RollUp, vertical_scroll, Shift
  <2>5. d = [text |-> text, x |-> 0, y |-> NUM_ROWS - 1, row |-> row0, fault |-> fault0]
    BY <2>2, <2>4
  <2>6. d.text = text /\ d.x = c.x /\ d.y = NUM_ROWS - 1 /\ d.fault = c.fault
    BY <2>1, <2>2, <2>5
  <2>7. NUM_COLS * d.y = NUM_COLS * c.y - NUM_COLS
    BY <2>1, <2>6, SizeFacts
  <2>8. At(d) = At(c) - NUM_COLS
    <3>1. At(d) = NUM_COLS * d.y + d.x
      BY <1>2, AtIs
    <3>2. At(c) = NUM_COLS * c.y + c.x /\ NUM_COLS * c.y \in Nat /\ c.x \in Int
      BY AtIs
    <3> QED
      BY <2>6, <2>7, <3>1, <3>2, SizeFacts
  <2> QED
    BY <1>1, <1>2, <2>1, <2>3, <2>6, <2>7, <2>8, SizeFacts
<1>4. CASE ~(At(c) >= NUM_COLS * NUM_ROWS)
  <2>1. d = c
    BY <1>1, <1>4 DEF RollUp
  <2>2. c.y # NUM_ROWS
    BY <1>2, <2>1, AtIs
  <2>3. Shift(c.text, 0) = c.text
    BY ConsoleHas, ShiftIs
  <2>4. At(c) - 0 = At(c) /\ NUM_COLS * c.y - 0 = NUM_COLS * c.y
    BY AtIs
  <2> QED
    BY <1>1, <1>2, <2>1, <2>2, <2>3, <2>4
<1> QED
  BY <1>3, <1>4, AtIs, SizeFacts

\* A character goes to the cell of the cursor.
LEMMA PutCharIs ==
    ASSUME NEW M, Blank \in M, NEW c \in Consoles(M), At(c) >= 0,
           NEW char \in M \ Controls
    PROVE  \E s \in {0, NUM_COLS} :
              LET d == putc(c, char)
              IN  /\ d \in Consoles(M) /\ At(c) - s \in Cells
                  /\ d.text = [Shift(c.text, s) EXCEPT ![At(c) - s] = char]
                  /\ d.x = Rem(c.x + 1) /\ NUM_COLS * d.y = NUM_COLS * c.y - s
                  /\ d.y < NUM_ROWS /\ d.row = c.row /\ d.fault = c.fault
                  /\ s # 0 <=> c.y = NUM_ROWS
<1>1. PICK r, s : /\ r = RollUp(c) /\ s \in {0, NUM_COLS} /\ r \in Consoles(M)
                  /\ r.text = Shift(c.text, s) /\ r.x = c.x
                  /\ NUM_COLS * r.y = NUM_COLS * c.y - s /\ At(r) = At(c) - s
                  /\ r.y < NUM_ROWS /\ r.row = c.row /\ r.fault = c.fault
                  /\ s # 0 <=> c.y = NUM_ROWS
  BY RollUpIs
<1>2. At(r) \in Cells
  <2>1. At(r) \in Int /\ At(r) < NUM_COLS * NUM_ROWS
    BY <1>1, AtIs, SizeFacts
  <2>2. At(r) >= 0
    BY <1>1, AtIs, SizeFacts
  <2> QED
    BY <2>1, <2>2, SizeFacts DEF Cells
<1>3. PICK e : e = Store(r, char)
  OBVIOUS
<1>4. /\ e \in Consoles(M) /\ e.text = [r.text EXCEPT ![At(r)] = char]
      /\ e.x = r.x /\ e.y = r.y /\ e.row = r.row /\ e.fault = r.fault
  BY <1>1, <1>2, <1>3, StoreIs, StoreKeeps
<1>5. putc(c, char) = MoveTo(e, e.x + 1)
  <2>1. putc(c, char) = Character(r, char)
    BY <1>1 DEF putc, Controls
  <2> QED
    BY <1>3, <2>1 DEF Character
<1>6. PICK d : d = MoveTo(e, e.x + 1)
  OBVIOUS
<1>7. e.x + 1 \in -NUM_COLS .. NUM_COLS
  BY <1>4, NextColumns
<1>8. /\ d \in Consoles(M) /\ d.text = e.text /\ d.x = Rem(e.x + 1) /\ d.y = e.y % NUM_ROWS
      /\ d.row = e.row /\ d.fault = e.fault /\ d.y < NUM_ROWS
  BY <1>4, <1>6, <1>7, MoveToIs, MoveToKeeps
<1>9. e.y % NUM_ROWS = e.y
  <2>1. e.y \in Nat /\ e.y < NUM_ROWS
    BY <1>1, <1>4, ConsoleHas
  <2> QED
    BY <2>1, SizeFacts
<1> QED
  BY <1>1, <1>2, <1>4, <1>5, <1>6, <1>8, <1>9

\* A newline goes to the row below, wherever that is.
LEMMA PutNewlineIs ==
    ASSUME NEW M, Blank \in M, NEW c \in Consoles(M)
    PROVE  \E s \in {0, NUM_COLS} :
              LET d == putc(c, "newline")
              IN  /\ d \in Consoles(M) /\ d.text = Shift(c.text, s)
                  /\ d.x = 0 /\ NUM_COLS * d.y = NUM_COLS * c.y - s + NUM_COLS
                  /\ d.row = c.row /\ d.fault = c.fault
                  /\ s # 0 <=> c.y = NUM_ROWS
<1>1. PICK r, s : /\ r = RollUp(c) /\ s \in {0, NUM_COLS} /\ r \in Consoles(M)
                  /\ r.text = Shift(c.text, s) /\ r.x = c.x
                  /\ NUM_COLS * r.y = NUM_COLS * c.y - s /\ At(r) = At(c) - s
                  /\ r.y < NUM_ROWS /\ r.row = c.row /\ r.fault = c.fault
                  /\ s # 0 <=> c.y = NUM_ROWS
  BY RollUpIs
<1>2. putc(c, "newline") = Newline(r)
  BY <1>1 DEF putc
<1>3. /\ Newline(r) \in Consoles(M) /\ Newline(r).text = r.text /\ Newline(r).x = 0
      /\ Newline(r).y = r.y + 1 /\ Newline(r).row = r.row /\ Newline(r).fault = r.fault
  BY <1>1, NewlineIs, NewlineKeeps
<1>4. NUM_COLS * (r.y + 1) = NUM_COLS * r.y + NUM_COLS
  BY <1>1, ConsoleHas, SizeFacts
<1> QED
  BY <1>1, <1>2, <1>3, <1>4

-----------------------------------------------------------------------------
(* What a character more or less changes for a reader. *)

\* A screen with blank rows below it.
Beyond(text) == [k \in Nat |-> IF k \in Cells THEN text[k] ELSE Blank]

LEMMA CellsAre ==
    ASSUME NEW M, NEW text \in [Cells -> M], NEW from \in Nat, NEW n \in Nat,
           from + n <= NUM_COLS * NUM_ROWS
    PROVE  Held(text, from, n, M)
<1>1. \A k \in 1 .. n : from + k - 1 \in Cells
  BY SizeFacts DEF Cells
<1> QED
  BY <1>1 DEF Held

LEMMA BeyondIs ==
    ASSUME NEW M, Blank \in M, NEW text \in [Cells -> M], NEW from \in Nat, NEW n \in Nat
    PROVE  Held(Beyond(text), from, n, M)
<1>1. \A k \in 1 .. n : from + k - 1 \in Nat
  OBVIOUS
<1> QED
  BY <1>1 DEF Held, Beyond

\* From a blank part on nothing is read.
LEMMA ReadUpTo ==
    ASSUME NEW M, Blank \in M, NEW text \in [Cells -> M], NEW n \in Nat,
           BlankFrom(text, n)
    PROVE  Reading(text) = ReadCells(Beyond(text), 0, n)
<1> DEFINE N == NUM_COLS * NUM_ROWS
           B == Beyond(text)
<1>0. N \in Nat /\ 0 \in Int /\ 0 \in Nat
  BY SizeFacts
<1>1. Reading(text) = ReadCells(B, 0, N)
  <2>1. Held(text, 0, N, M)
    BY <1>0, CellsAre
  <2>2. Match(text, 0, B, 0, N)
    <3>1. \A k \in 1 .. N : 0 + k - 1 \in Cells /\ 0 + k - 1 \in Nat
      BY <1>0 DEF Cells
    <3> QED
      BY <3>1 DEF Beyond, Match
  <2> HIDE DEF B, N
  <2>3. ReadCells(text, 0, N) = ReadCells(B, 0, N)
    BY <1>0, <2>1, <2>2, ReadSame
  <2> QED
    BY <2>3 DEF Reading, N
<1>2. \A k \in Nat : k >= n \/ k >= N => B[k] \in Silent
  BY SizeFacts DEF BlankFrom, Beyond, Silent, Cells
<1>3. \A from, m \in Nat : Held(B, from, m, M)
  BY BeyondIs
<1> HIDE DEF B, N
<1>4. \A a, m \in Nat : (a >= n \/ a >= N) => Held(B, 0 + a, m, Silent)
  BY <1>0, <1>2 DEF Held
<1>5. ASSUME NEW a \in Nat, NEW m \in Nat, a >= n \/ a >= N
      PROVE  ReadCells(B, 0, a + m) = ReadCells(B, 0, a)
  <2>1. /\ ReadCells(B, 0, a) \in Seq(M)
        /\ ReadCells(B, 0, a + m) = ReadCells(B, 0, a) \o ReadCells(B, 0 + a, m)
    <3>1. a + m \in Nat
      OBVIOUS
    <3>2. Held(B, 0, a + m, M)
      BY <1>0, <1>3, <3>1
    <3>3. PICK from \in Int : from = 0
      BY <1>0
    <3>4. Held(B, from, a + m, M)
      BY <3>2, <3>3
    <3>5. /\ ReadCells(B, from, a) \in Seq(M)
          /\ ReadCells(B, from, a + m) =
                ReadCells(B, from, a) \o ReadCells(B, from + a, m)
      BY <3>4, ReadParts
    <3> QED
      BY <3>3, <3>5
  <2>2. ReadCells(B, 0 + a, m) = <<>>
    <3>1. Held(B, 0 + a, m, Silent) /\ 0 + a \in Int
      BY <1>4, <1>5
    <3> QED
      BY <3>1, ReadBlank
  <2> QED
    BY <2>1, <2>2
<1>6. CASE n <= N
  <2>1. PICK m \in Nat : N = n + m
    <3>1. N - n \in Nat /\ N = n + (N - n)
      BY <1>0, <1>6
    <3> QED
      BY <3>1
  <2> QED
    BY <1>1, <1>5, <2>1 DEF B
<1>7. CASE N < n
  <2>1. PICK m \in Nat : n = N + m
    <3>1. n - N \in Nat /\ n = N + (n - N)
      BY <1>0, <1>7
    <3> QED
      BY <3>1
  <2>2. N >= N
    BY <1>0
  <2> QED
    BY <1>0, <1>1, <1>5, <2>1, <2>2 DEF B
<1> QED
  BY <1>0, <1>6, <1>7

\* A character on the first blank cell, whatever has scrolled away before.
LEMMA TypedAppends ==
    ASSUME NEW M, Blank \in M, NEW text \in [Cells -> M], NEW s \in Nat, NEW p \in Cells,
           NEW char \in M \ Silent, BlankFrom(text, p + s),
           NEW typed, typed = [Shift(text, s) EXCEPT ![p] = char]
    PROVE  /\ Reading(typed) \in Seq(M) /\ Reading(text) \in Seq(M)
           /\ Reading(typed) # <<>>
           /\ IsSuffix(Reading(typed), Append(Reading(text), char))
<1> DEFINE B == Beyond(text)
           T == Beyond(typed)
<1>0. p \in Nat /\ p + 1 \in Nat /\ p + s \in Nat /\ s + p \in Nat /\ p + s = s + p
      /\ 0 \in Int /\ 0 \in Nat /\ p <= p + 1 /\ p + 1 \in 1 .. p + 1
      /\ (p + 1) - 1 = p /\ 0 + (p + 1) - 1 = p /\ 0 + s = s /\ s \in Int
  BY SizeFacts DEF Cells
<1>1. Shift(text, s) \in [Cells -> M]
  BY ShiftIs
<1>2. typed \in [Cells -> M] /\ typed[p] = char
      /\ \A k \in Cells : k # p => typed[k] = Shift(text, s)[k]
  BY <1>1
<1>3. BlankFrom(typed, p + 1)
  <2> SUFFICES ASSUME NEW k \in Cells, k >= p + 1 PROVE typed[k] = Blank
    BY DEF BlankFrom
  <2>1. k # p /\ k \in Nat /\ k + s >= p + s
    BY <1>0 DEF Cells
  <2>2. typed[k] = IF k + s \in Cells THEN text[k + s] ELSE Blank
    BY <1>2, <2>1 DEF Shift
  <2> QED
    BY <2>1, <2>2 DEF BlankFrom
<1>4. Reading(text) = ReadCells(B, 0, p + s)
  BY <1>0, ReadUpTo
<1>5. Reading(typed) = ReadCells(T, 0, p + 1)
  BY <1>0, <1>2, <1>3, ReadUpTo
<1>6. \A n \in Nat : Held(B, 0, n, M) /\ Held(T, 0, n, M) /\ Held(B, s, n, M)
  BY <1>0, <1>2, BeyondIs
<1>7. Match(T, 0, B, s, p)
  <2> SUFFICES ASSUME NEW k \in 1 .. p PROVE T[0 + k - 1] = B[s + k - 1]
    BY DEF Match
  <2>1. /\ 0 + k - 1 = k - 1 /\ k - 1 \in Nat /\ k - 1 \in Cells /\ k - 1 # p
        /\ s + k - 1 \in Nat /\ (k - 1) + s = s + k - 1
    BY SizeFacts DEF Cells
  <2>2. T[k - 1] = typed[k - 1]
    BY <2>1 DEF Beyond
  <2>3. typed[k - 1] = IF (k - 1) + s \in Cells THEN text[(k - 1) + s] ELSE Blank
    BY <1>2, <2>1 DEF Shift
  <2>4. B[s + k - 1] = IF s + k - 1 \in Cells THEN text[s + k - 1] ELSE Blank
    BY <2>1 DEF Beyond
  <2> QED
    BY <2>1, <2>2, <2>3, <2>4
<1>8. T[p] = char
  BY <1>0, <1>2 DEF Beyond
<1> HIDE DEF B, T
<1>9. PICK v \in Seq(M) : v = ReadCells(T, 0, p) /\ v = ReadCells(B, s, p)
  <2>1. ReadCells(T, 0, p) = ReadCells(B, s, p)
    BY <1>0, <1>6, <1>7, ReadSame
  <2>2. ReadCells(T, 0, p) \in Seq(M)
    BY <1>0, <1>6, ReadIs
  <2> QED
    BY <2>1, <2>2
<1>10. ReadCells(T, 0, p + 1) = Append(v, char)
  <2>1. ReadCells(T, 0, p + 1) = ReadOne(T, 0 + (p + 1) - 1, ReadCells(T, 0, (p + 1) - 1))
    BY <1>0, <1>6, ReadNext
  <2>2. ReadCells(T, 0, p + 1) = ReadOne(T, p, v)
    BY <1>0, <1>9, <2>1
  <2> QED
    BY <1>8, <2>2 DEF ReadOne
<1>11. PICK u \in Seq(M) : ReadCells(B, 0, s + p) = u \o v
  <2>1. Held(B, 0, s + p, M)
    BY <1>0, <1>6
  <2>2. /\ ReadCells(B, 0, s) \in Seq(M)
        /\ ReadCells(B, 0, s + p) = ReadCells(B, 0, s) \o ReadCells(B, 0 + s, p)
    BY <1>0, <2>1, ReadParts
  <2> QED
    BY <1>0, <1>9, <2>2
<1>12. /\ Append(v, char) \in Seq(M) /\ Append(v, char) # <<>>
       /\ Append(u \o v, char) = u \o Append(v, char) /\ u \o v \in Seq(M)
  <2>1. char \in M
    OBVIOUS
  <2> HIDE DEF B, T
  <2>2. Append(v, char) \in Seq(M) /\ u \o v \in Seq(M)
    BY <2>1
  <2>3. Append(v, char) # <<>>
    BY <2>1, AppendProperties
  <2>4. Append(u \o v, char) = u \o Append(v, char)
    <3>1. PICK one : one = <<char>>
      OBVIOUS
    <3>2. one \in Seq(M)
      BY <2>1, <3>1
    <3>3. Append(v, char) = v \o one /\ Append(u \o v, char) = (u \o v) \o one
      BY <2>1, <2>2, <3>1, AppendIsConcat
    <3>4. (u \o v) \o one = u \o (v \o one)
      BY <3>2, ConcatAssociative
    <3> QED
      BY <3>3, <3>4
  <2> QED
    BY <2>2, <2>3, <2>4
<1>13. IsSuffix(Append(v, char), u \o Append(v, char))
  BY <1>12, EndIsSuffix
<1> QED
  BY <1>0, <1>4, <1>5, <1>10, <1>11, <1>12, <1>13

\* A blank on the last character.
LEMMA ErasedGoes ==
    ASSUME NEW M, Blank \in M, NEW text \in [Cells -> M], NEW p \in Cells,
           text[p] \notin Silent, BlankFrom(text, p + 1),
           NEW erased, erased = [text EXCEPT ![p] = Blank]
    PROVE  Reading(erased) = Front(Reading(text))
<1> DEFINE B == Beyond(text)
           E == Beyond(erased)
<1>0. p \in Nat /\ p + 1 \in Nat
      /\ 0 \in Int /\ 0 \in Nat /\ p + 1 \in 1 .. p + 1
      /\ (p + 1) - 1 = p /\ 0 + (p + 1) - 1 = p
  BY SizeFacts DEF Cells
<1>1. erased \in [Cells -> M] /\ erased[p] = Blank
      /\ \A k \in Cells : k # p => erased[k] = text[k]
  OBVIOUS
<1>2. BlankFrom(erased, p)
  <2> SUFFICES ASSUME NEW k \in Cells, k >= p PROVE erased[k] = Blank
    BY DEF BlankFrom
  <2>1. k = p \/ k >= p + 1
    BY <1>0 DEF Cells
  <2> QED
    BY <1>1, <2>1 DEF BlankFrom
<1>3. Reading(text) = ReadCells(B, 0, p + 1)
  BY <1>0, ReadUpTo
<1>4. Reading(erased) = ReadCells(E, 0, p)
  BY <1>0, <1>1, <1>2, ReadUpTo
<1>5. \A n \in Nat : Held(B, 0, n, M)
  BY <1>0, BeyondIs
<1>6. Match(B, 0, E, 0, p)
  <2>1. \A k \in 1 .. p : 0 + k - 1 \in Cells /\ 0 + k - 1 # p /\ 0 + k - 1 \in Nat
    BY SizeFacts DEF Cells
  <2> QED
    BY <1>1, <2>1 DEF Beyond, Match
<1>7. B[p] = text[p]
  BY <1>0 DEF Beyond
<1> HIDE DEF B, E
<1>8. PICK v \in Seq(M) : v = ReadCells(B, 0, p) /\ v = ReadCells(E, 0, p)
  <2>1. ReadCells(B, 0, p) = ReadCells(E, 0, p)
    BY <1>0, <1>5, <1>6, ReadSame
  <2>2. ReadCells(B, 0, p) \in Seq(M)
    BY <1>0, <1>5, ReadIs
  <2> QED
    BY <2>1, <2>2
<1>9. PICK char \in M : char = text[p]
  OBVIOUS
<1>10. ReadCells(B, 0, p + 1) = Append(v, char)
  <2>1. ReadCells(B, 0, p + 1) = ReadOne(B, 0 + (p + 1) - 1, ReadCells(B, 0, (p + 1) - 1))
    BY <1>0, <1>5, ReadNext
  <2>2. ReadCells(B, 0, p + 1) = ReadOne(B, p, v)
    BY <1>0, <1>8, <2>1
  <2> QED
    BY <1>7, <1>9, <2>2 DEF ReadOne
<1>11. Front(Append(v, char)) = v
  <2>1. /\ Append(v, char) \in Seq(M) /\ Len(Append(v, char)) = Len(v) + 1
        /\ Len(v) \in Nat /\ \A k \in 1 .. Len(v) : Append(v, char)[k] = v[k]
    OBVIOUS
  <2>2. Front(Append(v, char)) = SubSeq(Append(v, char), 1, Len(v))
    BY <2>1 DEF Front
  <2>3. PICK w : w = Append(v, char)
    OBVIOUS
  <2>4. PICK z : z = SubSeq(w, 1, Len(v))
    OBVIOUS
  <2>5. z \in Seq(M) /\ Len(z) = Len(v) /\ \A k \in 1 .. Len(v) : z[k] = w[k]
    BY <2>1, <2>3, <2>4, SubSeqProperties
  <2>6. z = v
    BY <2>1, <2>3, <2>5, SeqEqual
  <2> QED
    BY <2>2, <2>3, <2>4, <2>6
<1> QED
  BY <1>3, <1>4, <1>8, <1>10, <1>11

-----------------------------------------------------------------------------
(* Where the cursor may stand. *)

\* A console whose next character has a cell, above the page or on it: before
\* the first cell a store misses, and nothing follows behind that fault.
Seats(M) == {c \in Consoles(M) : c.fault \/ At(c) >= 0}

LEMMA StoreSeats ==
    ASSUME NEW M, NEW c \in Consoles(M), NEW char \in M
    PROVE  /\ Store(c, char) \in Seats(M)
           /\ Store(c, char).fault \/ At(c) \in Cells
<1>1. PICK d : d = Store(c, char)
  OBVIOUS
<1>2. d \in Consoles(M) /\ d.x = c.x /\ d.y = c.y
  BY <1>1, StoreKeeps
<1>3. d.fault \/ At(c) \in Cells
  <2> SUFFICES ASSUME At(c) \notin Cells PROVE d.fault
    OBVIOUS
  <2>1. PICK text, x0, y0, row0, fault0 :
            c = [text |-> text, x |-> x0, y |-> y0, row |-> row0, fault |-> fault0]
    BY ConsoleHas
  <2>2. d = [c EXCEPT !.fault = TRUE]
    BY <1>1 DEF Store
  <2> QED
    BY <2>1, <2>2
<1>4. At(d) = At(c)
  BY <1>2 DEF At
<1>5. At(c) \in Cells => At(d) >= 0
  BY <1>4, SizeFacts DEF Cells
<1> QED
  BY <1>1, <1>2, <1>3, <1>5 DEF Seats

LEMMA NewlineSeats ==
    ASSUME NEW M, NEW c \in Consoles(M), c.x = 0 PROVE c \in Seats(M)
<1>1. At(c) >= 0
  BY AtIs
<1> QED
  BY <1>1 DEF Seats

LEMMA CharacterSeats ==
    ASSUME NEW M, Blank \in M, NEW c \in Consoles(M), c.y < NUM_ROWS, NEW char \in M
    PROVE  Character(c, char) \in Seats(M) /\ Backspace(c) \in Seats(M)
<1>1. PICK d : d = Store(c, char)
  OBVIOUS
<1>2. d \in Consoles(M) /\ d.x = c.x /\ d.y = c.y /\ (d.fault \/ At(c) \in Cells)
  BY <1>1, StoreSeats, StoreKeeps
<1>3. PICK e : e = MoveTo(d, d.x + 1)
  OBVIOUS
<1>4. /\ e \in Consoles(M) /\ e.x = Rem(d.x + 1) /\ e.y = d.y % NUM_ROWS
      /\ e.fault = d.fault
  <2>1. d.x + 1 \in -NUM_COLS .. NUM_COLS
    BY <1>2, NextColumns
  <2> QED
    BY <1>2, <1>3, <2>1, MoveToIs, MoveToKeeps
<1>5. e.fault \/ At(e) >= 0
  <2> SUFFICES ASSUME ~ e.fault PROVE At(e) >= 0
    OBVIOUS
  <2>1. At(c) >= 0
    BY <1>2, <1>4, SizeFacts DEF Cells
  <2>2. e.y = c.y
    <3>1. c.y \in Nat
      BY AtIs
    <3> QED
      BY <1>2, <1>4, <3>1, SizeFacts
  <2>3. e.x = IF c.x + 1 = NUM_COLS THEN 0 ELSE c.x + 1
    BY <1>2, <1>4, AtIs, SizeFacts DEF Rem
  <2>4. At(c) = NUM_COLS * c.y + c.x /\ NUM_COLS * c.y \in Nat /\ c.x \in Int
    BY AtIs
  <2>5. At(e) = NUM_COLS * c.y + e.x
    BY <2>2 DEF At
  <2> QED
    BY <2>1, <2>3, <2>4, <2>5
<1>6. Character(c, char) \in Seats(M)
  BY <1>1, <1>3, <1>4, <1>5 DEF Character, Seats
<1>7. MoveTo(c, c.x - 1) \in Consoles(M)
  BY NextColumns, MoveToKeeps
<1> QED
  BY <1>6, <1>7, StoreSeats DEF Backspace

LEMMA TabSeats ==
    ASSUME NEW M, Blank \in M, NEW c \in Consoles(M)
    PROVE  Tab(c) \in Seats(M) /\ BackgroundTab(c) \in Seats(M)
<1>1. TAB_WIDTH \in 1 .. TAB_WIDTH /\ TAB_WIDTH - 1 \in 0 .. TAB_WIDTH
  BY ConsoleConstants
<1>2. PICK S : S = Consoles(M)
  OBVIOUS
<1>3. /\ \A d \in S : TabStep(d) \in S /\ TabStep(d) \in Seats(M)
      /\ \A d \in S : BackgroundTabStep(d) \in S /\ BackgroundTabStep(d) \in Seats(M)
  <2>1. ASSUME NEW d \in Consoles(M) PROVE TabStep(d) \in Seats(M)
    <3>1. PICK e \in Consoles(M) : TabStep(d) = Store(e, Blank)
      BY TabStepStores
    <3> QED
      BY <3>1, StoreSeats
  <2>2. ASSUME NEW d \in Consoles(M) PROVE BackgroundTabStep(d) \in Seats(M)
    <3>1. MoveTo(d, d.x + 1) \in Consoles(M)
      BY NextColumns, MoveToKeeps
    <3> QED
      BY <3>1, StoreSeats DEF BackgroundTabStep
  <2> QED
    BY <1>2, <2>1, <2>2 DEF Seats
<1>4. PICK f \in [0 .. TAB_WIDTH -> S] :
          /\ f[0] = c /\ \A n \in 1 .. TAB_WIDTH : f[n] = TabStep(f[n - 1])
          /\ Tab(c) = f[TAB_WIDTH]
  BY <1>2, <1>3, TabRounds
<1>5. PICK g \in [0 .. TAB_WIDTH -> S] :
          /\ g[0] = c /\ \A n \in 1 .. TAB_WIDTH : g[n] = BackgroundTabStep(g[n - 1])
          /\ BackgroundTab(c) = g[TAB_WIDTH]
  BY <1>2, <1>3, BackgroundTabRounds
<1> QED
  BY <1>1, <1>3, <1>4, <1>5

LEMMA putcSeats ==
    ASSUME NEW M, Blank \in M, NEW c \in Consoles(M), NEW char \in M \cup Controls
    PROVE  putc(c, char) \in Seats(M) /\ background_putc(c, char) \in Seats(M)
<1>1. PICK d : d = RollUp(c)
  OBVIOUS
<1>2. PICK e : e = BackgroundRollUp(c)
  OBVIOUS
<1>3. d \in Consoles(M) /\ d.y < NUM_ROWS /\ e \in Consoles(M) /\ e.y < NUM_ROWS
  BY <1>1, <1>2, RollsKeep
<1>4. CASE char = "backspace"
  BY <1>1, <1>2, <1>3, <1>4, CharacterSeats DEF putc, background_putc
<1>5. CASE char = "tab"
  BY <1>1, <1>2, <1>3, <1>5, TabSeats DEF putc, background_putc
<1>6. CASE char = "newline"
  BY <1>1, <1>2, <1>3, <1>6, NewlineKeeps, NewlineSeats DEF putc, background_putc
<1>7. CASE char \notin Controls
  <2>1. putc(c, char) = Character(d, char) /\ background_putc(c, char) = Character(e, char)
    BY <1>1, <1>2, <1>7 DEF putc, background_putc, Controls
  <2> QED
    BY <1>3, <1>7, <2>1, CharacterSeats
<1> QED
  BY <1>4, <1>5, <1>6, <1>7 DEF Controls

LEMMA RowSeats ==
    ASSUME NEW M, NEW c \in Seats(M), NEW row \in 0 .. 255
    PROVE  [c EXCEPT !.row = row] \in Seats(M)
<1>1. c \in Consoles(M) /\ (c.fault \/ At(c) >= 0)
  BY DEF Seats
<1>2. PICK d : d = [c EXCEPT !.row = row]
  OBVIOUS
<1>3. d \in Consoles(M) /\ d.x = c.x /\ d.y = c.y /\ d.fault = c.fault
  <2>1. d \in Consoles(M)
    BY <1>1, <1>2, RowKeeps
  <2>2. d.x = c.x /\ d.y = c.y /\ d.fault = c.fault
    BY <1>1, <1>2, RowIs
  <2> QED
    BY <2>1, <2>2
<1> QED
  BY <1>1, <1>2, <1>3 DEF Seats, At

LEMMA PutAllSeats ==
    ASSUME NEW M, Blank \in M, NEW c \in Seats(M), NEW bytes \in Seq(M \cup Controls)
    PROVE  PutAll(c, bytes) \in Seats(M)
<1>1. Len(bytes) \in 0 .. Len(bytes)
  OBVIOUS
<1>2. PICK S, B : S = Seats(M) /\ B = M \cup Controls
  OBVIOUS
<1>3. c \in S /\ bytes \in Seq(B) /\ \A d \in S, b \in B : putc(d, b) \in S
  BY <1>2, putcSeats DEF Seats
<1>4. PICK f \in [0 .. Len(bytes) -> S] : PutAll(c, bytes) = f[Len(bytes)]
  BY <1>3, PutAllRounds
<1> QED
  BY <1>1, <1>2, <1>4

LEMMA WriteByteSeats ==
    ASSUME NEW M, Blank \in M, NEW visible \in BOOLEAN, NEW b \in M \cup Controls,
           NEW w \in [console : Seats(M), line_ct : Nat]
    PROVE  WriteByte(visible, w, b) \in [console : Seats(M), line_ct : Nat]
<1>1. \A d \in Consoles(M), char \in M \cup Controls : Put(visible, d, char) \in Seats(M)
  BY putcSeats DEF Put
<1>2. "newline" \in M \cup Controls
  BY DEF Controls
<1>3. /\ w.console \in Consoles(M) /\ w.line_ct \in Nat
      /\ w \in [console : Consoles(M), line_ct : Nat]
  <2>1. Seats(M) \subseteq Consoles(M)
    BY DEF Seats
  <2> QED
    BY <2>1
<1>4. PICK started : started =
          IF w.line_ct = ROW_LIM /\ b \notin {"nul", "newline"}
          THEN [console |-> Put(visible, w.console, "newline"), line_ct |-> 0]
          ELSE IF b = "newline" THEN [w EXCEPT !.line_ct = 0] ELSE w
  OBVIOUS
<1>5. [w EXCEPT !.line_ct = 0] \in [console : Seats(M), line_ct : Nat]
  OBVIOUS
<1>6. started \in [console : Seats(M), line_ct : Nat]
  BY <1>1, <1>2, <1>3, <1>4, <1>5
<1>7. WriteByte(visible, w, b) =
          IF b = "nul" THEN started
          ELSE [console |-> Put(visible, started.console, b),
                line_ct |-> started.line_ct + 1]
  BY <1>4 DEF WriteByte
<1>8. started.console \in Consoles(M) /\ started.line_ct + 1 \in Nat
  BY <1>6 DEF Seats
<1>9. Put(visible, started.console, b) \in Seats(M)
  BY <1>1, <1>8
<1> QED
  BY <1>6, <1>7, <1>8, <1>9

LEMMA PutBytesSeats ==
    ASSUME NEW M, Blank \in M, NEW c \in Seats(M), NEW bytes \in Seq(M \cup Controls),
           NEW visible \in BOOLEAN, NEW line_ct \in Nat
    PROVE  PutBytes(visible, c, bytes, line_ct) \in Seats(M)
<1>1. Len(bytes) \in 0 .. Len(bytes)
  OBVIOUS
<1>2. PICK S, B : S = [console : Seats(M), line_ct : Nat] /\ B = M \cup Controls
  OBVIOUS
<1>3. \A w \in S, b \in B : WriteByte(visible, w, b) \in S
  BY <1>2, WriteByteSeats
<1>4. [console |-> c, line_ct |-> line_ct] \in S /\ bytes \in Seq(B)
  BY <1>2
<1>5. PICK f \in [0 .. Len(bytes) -> S] :
            PutBytes(visible, c, bytes, line_ct) = f[Len(bytes)].console
  BY <1>3, <1>4, PutBytesRounds
<1>6. f[Len(bytes)] \in S
  BY <1>1, <1>5
<1> QED
  BY <1>2, <1>5, <1>6

LEMMA TrailerSeats ==
    ASSUME NEW M, Blank \in M, NEW c \in Seats(M), NEW text
    PROVE  Trailer(text, c) \in Seats(M)
<1>1. "newline" \in M \cup Controls
  BY DEF Controls
<1>2. PICK n \in Nat : n = Newlines(text)
  BY DEF Newlines
<1>3. [k \in 1 .. n |-> "newline"] \in Seq(M \cup Controls)
  BY <1>1, RepeatedBytes
<1>4. PutAll(c, [k \in 1 .. n |-> "newline"]) \in Seats(M)
  BY <1>3, PutAllSeats
<1> QED
  BY <1>2, <1>4 DEF Trailer

\* No cursor stands before the first cell of its screen.
Sits(x, y) == NUM_COLS * y + x >= 0
Seated ==
    fault \/ (/\ Sits(screen_x, screen_y)
              /\ \A t \in Terminals : Sits(save_x[t], save_y[t]))

LEMMA ShowsSits ==
    ASSUME PictureInv, Seated, ~ fault,
           NEW c \in Seats(Marks(terminal_num)), Shows(c)
    PROVE  Seated'
<1>1. c.fault \/ Sits(c.x, c.y)
  BY DEF Seats, Sits, At
<1> QED
  BY <1>1 DEF Shows, ShowsCursor, Seated

LEMMA KeysSit ==
    ASSUME PictureInv, Seated, ~ fault,
           KeyChar \/ KeyTab \/ KeyBackspace \/ KeyEnter \/ KeyClear \/ KernelPrints
    PROVE  Seated'
<1> DEFINE M == Marks(terminal_num)
<1>1. /\ terminal_num \in Terminals /\ Visible \in Consoles(M) /\ Blank \in M
      /\ Keys[terminal_num] \in M \cup Controls /\ Controls \subseteq M \cup Controls
      /\ ">" \in M \cup Controls /\ ToSet(Message) \subseteq M
  BY VisibleIs, MarksHave
<1>2. Visible \in Seats(M)
  BY <1>1 DEF Seats, Seated, Sits, Visible, At
<1>3. {"tab", "backspace", "newline"} \subseteq M \cup Controls
  BY DEF Controls
<1> HIDE DEF M
<1>4. PICK c \in Seats(M) : Shows(c)
  <2>1. CASE KeyChar
    <3>1. PICK c : c = CountUp(Wrapped(Visible))
      OBVIOUS
    <3>2. c \in Consoles(M)
      BY <1>1, <3>1, WrappedKeeps
    <3>3. putc(c, Keys[terminal_num]) \in Seats(M)
      BY <1>1, <3>2, putcSeats
    <3> QED
      BY <2>1, <3>1, <3>3 DEF KeyChar
  <2>2. CASE KeyTab
    <3>1. putc(Visible, "tab") \in Seats(M)
      BY <1>1, <1>3, putcSeats
    <3> QED
      BY <2>2, <3>1 DEF KeyTab
  <2>3. CASE KeyBackspace
    <3>1. PICK n \in Nat : n = Erasures(Last(line[terminal_num]))
      BY ConsoleConstants DEF Erasures
    <3>2. [k \in 1 .. n |-> "backspace"] \in Seq(M \cup Controls)
      BY <1>3, RepeatedBytes
    <3>3. PICK c : c = PutAll(Visible, [k \in 1 .. n |-> "backspace"])
      OBVIOUS
    <3>4. c \in Seats(M) /\ c \in Consoles(M)
      BY <1>1, <1>2, <3>2, <3>3, PutAllSeats DEF Seats
    <3>5. Byte(c.row - 1) \in 0 .. 255
      BY <3>4, ConsoleHas, ByteIs
    <3>6. CountDown(c) \in Seats(M)
      BY <3>4, <3>5, RowSeats DEF CountDown
    <3> QED
      BY <2>3, <3>1, <3>3, <3>6 DEF KeyBackspace
  <2>4. CASE KeyEnter
    <3>1. PICK c : c = putc(Visible, "newline")
      OBVIOUS
    <3>2. c \in Seats(M)
      BY <1>1, <1>3, <3>1, putcSeats
    <3>3. [c EXCEPT !.row = HEADER_LEN] \in Seats(M)
      BY <3>2, HeaderIsByte, RowSeats
    <3> QED
      BY <2>4, <3>1, <3>3 DEF KeyEnter
  <2>5. CASE KeyClear
    <3>1. PICK c : c = clear(Visible)
      OBVIOUS
    <3>2. c \in Consoles(M)
      BY <1>1, <3>1, clearKeeps
    <3>3. c.x = 0
      <4>1. PICK text, x0, y0, row0, fault0 : Visible =
                [text |-> text, x |-> x0, y |-> y0, row |-> row0, fault |-> fault0]
        BY <1>1, ConsoleHas
      <4>2. c = [Visible EXCEPT !.text = EmptyScreen, !.x = 0, !.y = 0]
        BY <3>1 DEF clear
      <4> QED
        BY <4>1, <4>2
    <3>4. PICK d : d = [c EXCEPT !.row = HEADER_LEN]
      OBVIOUS
    <3>5. d \in Seats(M)
      BY <3>2, <3>3, <3>4, NewlineSeats, HeaderIsByte, RowSeats
    <3>6. Prompt \in Seq(M \cup Controls)
      BY <1>1, HeaderIsByte, RepeatedBytes DEF Prompt
    <3>7. PutAll(d, Prompt) \in Seats(M)
      BY <1>1, <3>5, <3>6, PutAllSeats
    <3> QED
      BY <2>5, <3>1, <3>4, <3>7 DEF KeyClear
  <2>6. CASE KernelPrints
    <3>1. Message \in Seq(M \cup Controls)
      BY <1>1, ScreenConstants, OwnBytes
    <3>2. PutAll(Visible, Message) \in Seats(M)
      BY <1>1, <1>2, <3>1, PutAllSeats
    <3> QED
      BY <2>6, <3>2 DEF KernelPrints
  <2> QED
    BY <2>1, <2>2, <2>3, <2>4, <2>5, <2>6
<1> QED
  BY <1>4, ShowsSits DEF M

LEMMA WriteSits ==
    ASSUME PictureInv, OthersWhole, Seated, ~ fault,
           NEW text \in Texts[schedule_idx], terminal_write(text)
    PROVE  Seated'
<1> DEFINE M == Marks(schedule_idx)
           V == Marks(terminal_num)
<1>1. /\ schedule_idx \in Terminals /\ terminal_num \in Terminals
      /\ Blank \in M /\ Blank \in V
  BY VisibleIs, MarksHave DEF OthersWhole
<1>2. text.bytes \in Seq(M \cup Controls) /\ FirstCount \in Nat
      /\ TRUE \in BOOLEAN /\ FALSE \in BOOLEAN
  BY <1>1, TextFacts
<1>3. PICK row \in 0 .. 255 : row = RowOfText(text)
  BY <1>1, TextFacts DEF PictureInv, ScreensWhole
<1>4. PICK start : start = [Visible EXCEPT !.row = row]
  OBVIOUS
<1>5. start \in Seats(V)
  <2>1. Visible \in Seats(V)
    BY VisibleIs DEF Seats, Seated, Sits, Visible, At
  <2> QED
    BY <1>4, <2>1, RowSeats
<1>6. CASE InForeground
  <2>1. PICK c : c = PutBytes(TRUE, start, text.bytes, FirstCount)
    OBVIOUS
  <2>2. V = M
    BY <1>6 DEF InForeground
  <2>3. c \in Seats(V)
    BY <1>1, <1>2, <1>5, <2>1, <2>2, PutBytesSeats
  <2>4. Trailer(text, c) \in Seats(V)
    BY <1>1, <2>3, TrailerSeats
  <2>5. Shows(Trailer(text, c))
    BY <1>3, <1>4, <1>6, <2>1 DEF terminal_write, WriteVisible
  <2> QED
    BY <2>4, <2>5, ShowsSits
<1>7. CASE ~ InForeground
  <2>1. PICK e : e = Hidden(schedule_idx)
    OBVIOUS
  <2>2. e \in Seats(M)
    <3>1. e \in Consoles(M)
      BY <1>1, <1>7, <2>1, HiddenIs DEF InForeground
    <3>2. NUM_COLS * e.y + e.x >= 0
      BY <1>1, <2>1 DEF Seated, Sits, Hidden
    <3> QED
      BY <3>1, <3>2 DEF Seats, At
  <2>3. PICK c : c = PutBytes(FALSE, e, text.bytes, FirstCount)
    OBVIOUS
  <2>4. c \in Seats(M)
    BY <1>1, <1>2, <2>2, <2>3, PutBytesSeats
  <2>5. PICK v : v = Trailer(text, start)
    OBVIOUS
  <2>6. v \in Seats(V)
    BY <1>1, <1>5, <2>5, TrailerSeats
  <2>7. /\ save_x' = [save_x EXCEPT ![schedule_idx] = c.x]
        /\ save_y' = [save_y EXCEPT ![schedule_idx] = c.y]
        /\ screen_x' = v.x /\ screen_y' = v.y /\ fault' = (c.fault \/ v.fault)
    BY <1>3, <1>4, <1>7, <2>1, <2>3, <2>5 DEF terminal_write, WriteHidden, ShowsCursor
  <2>8. (c.fault \/ Sits(c.x, c.y)) /\ (v.fault \/ Sits(v.x, v.y))
    BY <2>4, <2>6 DEF Seats, Sits, At
  <2>9. save_x \in [Terminals -> Columns] /\ save_y \in [Terminals -> 0 .. NUM_ROWS]
    BY DEF PictureInv, ScreensWhole
  <2>10. \A t \in Terminals : t # schedule_idx =>
            save_x'[t] = save_x[t] /\ save_y'[t] = save_y[t]
    BY <2>7, <2>9
  <2>11. save_x'[schedule_idx] = c.x /\ save_y'[schedule_idx] = c.y
    BY <1>1, <2>7, <2>9
  <2> QED
    BY <2>7, <2>8, <2>10, <2>11 DEF Seated
<1> QED
  BY <1>6, <1>7

LEMMA SeatedStep == PictureInv /\ OthersWhole /\ Seated /\ [Next]_vars => Seated'
<1> SUFFICES ASSUME PictureInv, OthersWhole, Seated, [Next]_vars
             PROVE  Seated'
  OBVIOUS
<1>1. CASE UNCHANGED vars
  BY <1>1 DEF vars, cursors, Seated
<1>2. CASE Next
  <2>0. ~ fault
    BY <1>2 DEF Next, Keyboard, Program, KeyChar, KeyTab, KeyBackspace, KeyEnter, KeyClear,
                KeySwitch, terminal_write, KernelPrints, TakeLine, vidmap, Draw, Execute,
                Pit, Operation
  <2>1. CASE KeyChar \/ KeyTab \/ KeyBackspace \/ KeyEnter \/ KeyClear \/ KernelPrints
    BY <2>0, <2>1, KeysSit
  <2>2. CASE \E next \in Terminals : KeySwitch(next)
    <3>1. PICK next \in Terminals : KeySwitch(next)
      BY <2>2
    <3>2. /\ save_x \in [Terminals -> Columns] /\ save_y \in [Terminals -> 0 .. NUM_ROWS]
          /\ terminal_num \in Terminals
      BY DEF PictureInv, ScreensWhole
    <3>3. \A t \in Terminals : Sits(save_x'[t], save_y'[t])
      BY <2>0, <3>1, <3>2 DEF KeySwitch, Seated
    <3> QED
      BY <2>0, <3>1, <3>3 DEF KeySwitch, Seated
  <2>3. CASE \E text \in Texts[schedule_idx] : terminal_write(text)
    BY <2>0, <2>3, WriteSits
  <2>4. CASE TakeLine \/ vidmap \/ Draw \/ Pit \/ \E isCat \in BOOLEAN : Execute(isCat)
    BY <2>4 DEF TakeLine, vidmap, Draw, Pit, Execute, cursors, Seated
  <2> QED
    BY <1>2, <2>1, <2>2, <2>3, <2>4 DEF Next, Keyboard, Program
<1> QED
  BY <1>1, <1>2

LEMMA SeatedInit == Init => Seated
<1> SUFFICES ASSUME Init PROVE Seated
  OBVIOUS
<1>1. Rem(HEADER_LEN) >= 0 /\ Rem(HEADER_LEN) \in Int
  BY SizeFacts, ScreenConstants DEF Rem
<1>2. Sits(Rem(HEADER_LEN), 0) /\ Sits(0, 0)
  BY <1>1, SizeFacts DEF Sits
<1> QED
  BY <1>2 DEF Init, Seated

\* Cells and cursors have their shapes, and no cursor is left of the first cell of
\* its screen, backspace included, unless a store has already missed the page
\* (keyboard.c:184-216, lib.c:185-193).
THEOREM SeatsInvariance == Spec => [](TextInv /\ Seated)
<1>1. TextInv /\ Seated /\ [Next]_vars => (TextInv /\ Seated)'
  BY PictureStep, OthersStep, SeatedStep DEF TextInv
<1> QED
  BY TextInit, SeatedInit, <1>1, PTL DEF Spec

-----------------------------------------------------------------------------
(* What is typed can be read. *)

FullRow(c) == c.row = ROW_LIM /\ c.x = 0
InStep(c) == c.row = Byte(c.x) \/ FullRow(c)

\* The counter in step with the column, one key on and one key back.
LEMMA ByteSteps ==
    /\ \A x \in 1 - NUM_COLS .. NUM_COLS - 1 :
          /\ Byte(x) # NUM_COLS
          /\ Byte(Byte(x) + 1) = IF x = NUM_COLS - 1 THEN NUM_COLS ELSE Byte(x + 1)
          /\ Byte(Byte(x) - 1) = Byte(x - 1)
    /\ Byte(0 + 1) = 1 /\ Byte(1) = 1
<1>1. \A x \in 0 .. 127 : Byte(x) = x
  BY DEF Byte
<1>2. \A x \in -127 .. -1 : Byte(x) = x + 256
  BY DEF Byte
<1>3. Byte(128) = 128 /\ Byte(256) = 0
  BY DEF Byte
<1>4. \A x \in 128 .. 255 : Byte(x) = x
  BY DEF Byte
<1>5. ASSUME NEW x \in 1 - NUM_COLS .. NUM_COLS - 1
      PROVE  /\ Byte(x) # NUM_COLS
             /\ Byte(Byte(x) + 1) = IF x = NUM_COLS - 1 THEN NUM_COLS ELSE Byte(x + 1)
             /\ Byte(Byte(x) - 1) = Byte(x - 1)
  <2>1. x \in -126 .. 126
    BY <1>5, SizeFacts
  <2>2. CASE x >= 0
    <3>1. Byte(x) = x /\ Byte(x + 1) = x + 1
      BY <1>1, <2>1, <2>2
    <3> QED
      BY <1>5, <2>1, <2>2, <3>1, SizeFacts
  <2>3. CASE x < -1
    <3>1. Byte(x) = x + 256 /\ Byte(x + 1) = x + 257 /\ Byte(x - 1) = x + 255
      BY <1>2, <2>1, <2>3
    <3>2. Byte(x + 257) = x + 257 /\ Byte(x + 255) = x + 255
      BY <1>4, <2>1, <2>3
    <3> QED
      BY <1>5, <2>1, <2>3, <3>1, <3>2, SizeFacts
  <2>4. CASE x = -1
    <3>1. Byte(x) = 255 /\ Byte(x + 1) = 0 /\ Byte(x - 1) = 254
      BY <1>1, <1>2, <2>4
    <3>2. Byte(256) = 0 /\ Byte(254) = 254
      BY <1>3, <1>4
    <3> QED
      BY <2>4, <3>1, <3>2, SizeFacts
  <2> QED
    BY <2>1, <2>2, <2>3, <2>4
<1> QED
  BY <1>1, <1>5

LEMMA TypedOn ==
    ASSUME NEW M, Blank \in M, NEW c \in Consoles(M), ~ c.fault, At(c) >= 0, InStep(c),
           NEW key \in M \ Silent, key \notin Controls,
           BlankFrom(c.text, At(c) + (IF FullRow(c) THEN NUM_COLS ELSE 0)),
           NEW d, d = putc(CountUp(Wrapped(c)), key)
    PROVE  /\ d \in Consoles(M) /\ InStep(d)
           /\ Reading(d.text) # <<>>
           /\ IsSuffix(Reading(d.text), Append(Reading(c.text), key))
<1>0. /\ key \in M \ Controls /\ c.text \in [Cells -> M]
      /\ c.row \in 0 .. 255 /\ 0 \in 0 .. 255
  BY ConsoleHas
<1>1. PICK e, s : /\ e = CountUp(Wrapped(c)) /\ e \in Consoles(M) /\ At(e) >= 0
                  /\ s \in Nat /\ e.text = Shift(c.text, s)
                  /\ BlankFrom(c.text, At(e) + s)
                  /\ \/ e.row = Byte(c.row + 1) /\ e.x = c.x /\ ~ FullRow(c)
                     \/ e.row = 1 /\ e.x = 0
  <2>1. PICK e : e = CountUp(Wrapped(c))
    OBVIOUS
  <2>2. e \in Consoles(M)
    BY <2>1, WrappedKeeps
  <2>3. CASE c.row # ROW_LIM
    <3>1. PICK row : row = Byte(c.row + 1)
      OBVIOUS
    <3>2. e = [c EXCEPT !.row = row]
      BY <2>1, <2>3, <3>1 DEF CountUp, Wrapped
    <3>3. e.text = c.text /\ e.x = c.x /\ e.y = c.y /\ e.row = row
      BY <3>2, RowIs
    <3>4. At(e) = At(c) /\ At(e) + 0 = At(e) /\ At(c) + 0 = At(c)
      <4>1. At(c) \in Int
        BY AtIs
      <4> QED
        BY <3>3, <4>1 DEF At
    <3>5. ~ FullRow(c) /\ Shift(c.text, 0) = c.text /\ 0 \in Nat
      BY <1>0, <2>3, ShiftIs DEF FullRow
    <3>6. BlankFrom(c.text, At(e) + 0)
      BY <3>4, <3>5
    <3>7. At(e) >= 0 /\ e.text = Shift(c.text, 0) /\ e.row = Byte(c.row + 1)
      BY <3>1, <3>3, <3>4, <3>5
    <3> QED
      BY <2>1, <2>2, <3>3, <3>5, <3>6, <3>7
  <2>4. CASE c.row = ROW_LIM
    <3>1. FullRow(c)
      <4>1. c.x \in 1 - NUM_COLS .. NUM_COLS - 1
        BY AtIs
      <4> QED
        BY <2>4, <4>1, ByteSteps DEF InStep, ROW_LIM
    <3>2. PICK n, s : /\ n = putc(c, "newline") /\ s \in {0, NUM_COLS} /\ n \in Consoles(M)
                      /\ n.text = Shift(c.text, s) /\ n.x = 0
                      /\ NUM_COLS * n.y = NUM_COLS * c.y - s + NUM_COLS
      BY PutNewlineIs
    <3>3. PICK w : w = [n EXCEPT !.row = 0]
      OBVIOUS
    <3>4. w \in Consoles(M)
      BY <1>0, <3>2, <3>3, RowKeeps
    <3>5. w.text = n.text /\ w.x = n.x /\ w.y = n.y /\ w.row = 0
      BY <3>2, <3>3, RowIs
    <3>6. w = Wrapped(c)
      BY <2>4, <3>2, <3>3 DEF Wrapped
    <3>7. e = [w EXCEPT !.row = 1]
      <4>1. Byte(w.row + 1) = 1
        BY <3>5, ByteSteps
      <4> QED
        BY <2>1, <3>6, <4>1 DEF CountUp
    <3>8. e.text = w.text /\ e.x = w.x /\ e.y = w.y /\ e.row = 1
      BY <3>4, <3>7, RowIs
    <3>9. At(e) = NUM_COLS * c.y - s + NUM_COLS /\ At(c) = NUM_COLS * c.y
          /\ NUM_COLS * c.y \in Nat /\ s \in Nat /\ NUM_COLS - s \in Nat
      <4>1. At(e) = NUM_COLS * n.y + 0 /\ NUM_COLS * n.y \in Nat
        BY <3>2, <3>5, <3>8, AtIs DEF At
      <4>2. At(c) = NUM_COLS * c.y + 0 /\ NUM_COLS * c.y \in Nat
        BY <3>1, AtIs DEF FullRow
      <4> QED
        BY <3>2, <4>1, <4>2, SizeFacts
    <3>10. At(e) + s = At(c) + NUM_COLS /\ At(e) >= 0
      BY <3>9, SizeFacts
    <3>11. BlankFrom(c.text, At(e) + s) /\ s \in Nat
      BY <3>1, <3>9, <3>10
    <3>12. e.text = Shift(c.text, s) /\ e.row = 1 /\ e.x = 0
      BY <3>2, <3>5, <3>8
    <3> QED
      BY <2>1, <2>2, <3>10, <3>11, <3>12
  <2> QED
    BY <2>3, <2>4
<1>2. PICK r : /\ r \in {0, NUM_COLS} /\ d \in Consoles(M) /\ At(e) - r \in Cells
               /\ d.text = [Shift(e.text, r) EXCEPT ![At(e) - r] = key]
               /\ d.x = Rem(e.x + 1) /\ d.row = e.row
  <2>1. d = putc(e, key)
    BY <1>1
  <2> QED
    BY <1>0, <1>1, <2>1, PutCharIs
<1>3. r \in Nat
  BY <1>2, SizeFacts
<1>4. Shift(e.text, r) = Shift(c.text, s + r)
  BY <1>0, <1>1, <1>3, ShiftIs
<1>5. PICK p, q : p = At(e) - r /\ q = s + r
  OBVIOUS
<1>6. p \in Cells /\ q \in Nat /\ p + q = At(e) + s
  <2>1. At(e) \in Int
    BY <1>1, AtIs
  <2> QED
    BY <1>1, <1>2, <1>3, <1>5, <2>1
<1>7. Reading(d.text) # <<>> /\ IsSuffix(Reading(d.text), Append(Reading(c.text), key))
  <2>1. BlankFrom(c.text, p + q)
    BY <1>1, <1>6
  <2>2. d.text = [Shift(c.text, q) EXCEPT ![p] = key]
    BY <1>2, <1>4, <1>5
  <2> QED
    BY <1>0, <1>6, <2>1, <2>2, TypedAppends
<1>8. InStep(d)
  <2>1. CASE e.row = Byte(c.row + 1) /\ e.x = c.x /\ ~ FullRow(c)
    <3>1. c.row = Byte(c.x) /\ c.x \in 1 - NUM_COLS .. NUM_COLS - 1
      BY <2>1, AtIs DEF InStep
    <3>2. d.row = IF c.x = NUM_COLS - 1 THEN NUM_COLS ELSE Byte(c.x + 1)
      BY <1>2, <2>1, <3>1, ByteSteps
    <3>3. d.x = IF c.x = NUM_COLS - 1 THEN 0 ELSE c.x + 1
      BY <1>2, <2>1, <3>1, SizeFacts DEF Rem
    <3> QED
      BY <3>2, <3>3 DEF InStep, FullRow, ROW_LIM
  <2>2. CASE e.row = 1 /\ e.x = 0
    <3>1. d.x = 1
      BY <1>2, <2>2, SizeFacts DEF Rem
    <3> QED
      BY <1>2, <2>2, <3>1, ByteSteps DEF InStep
  <2> QED
    BY <1>1, <2>1, <2>2
<1> QED
  BY <1>2, <1>7, <1>8

LEMMA PutOneByte ==
    ASSUME NEW M, Blank \in M, NEW c \in Consoles(M), NEW B, B = M \cup Controls,
           NEW bytes \in Seq(B)
    PROVE  Len(bytes) = 1 => PutAll(c, bytes) = putc(c, bytes[1])
<1>1. PICK S : S = Consoles(M)
  OBVIOUS
<1>2. c \in S /\ \A d \in S, b \in B : putc(d, b) \in S
  BY <1>1, putcKeeps
<1>3. PICK f \in [0 .. Len(bytes) -> S] :
          /\ f[0] = c /\ \A n \in 1 .. Len(bytes) : f[n] = putc(f[n - 1], bytes[n])
          /\ PutAll(c, bytes) = f[Len(bytes)]
  BY <1>2, PutAllRounds
<1>4. Len(bytes) = 1 => 1 \in 1 .. Len(bytes) /\ 1 - 1 = 0
  OBVIOUS
<1> QED
  BY <1>3, <1>4

LEMMA PutOne ==
    ASSUME NEW M, Blank \in M, NEW c \in Consoles(M), NEW byte \in M \cup Controls
    PROVE  PutAll(c, [k \in 1 .. 1 |-> byte]) = putc(c, byte)
<1>1. PICK bytes, B : bytes = [k \in 1 .. 1 |-> byte] /\ B = M \cup Controls
  OBVIOUS
<1>2. bytes \in Seq(B)
  <2>1. 1 \in Nat
    OBVIOUS
  <2> QED
    BY <1>1, <2>1, RepeatedBytes
<1>3. Len(bytes) = 1 /\ bytes[1] = byte
  BY <1>1
<1> QED
  BY <1>1, <1>2, <1>3, PutOneByte

LEMMA ErasedOn ==
    ASSUME NEW M, Blank \in M, NEW c \in Consoles(M), c.row = Byte(c.x),
           c.x > 1 - NUM_COLS, At(c) \in Cells, At(c) > 0,
           c.text[At(c) - 1] \notin Silent, BlankFrom(c.text, At(c)),
           NEW d, d = CountDown(putc(c, "backspace"))
    PROVE  d.row = Byte(d.x) /\ Reading(d.text) = Front(Reading(c.text))
<1>1. RollUp(c) = c
  BY SizeFacts DEF RollUp, Cells
<1>2. putc(c, "backspace") = Store(MoveTo(c, c.x - 1), Blank)
  BY <1>1 DEF putc, Backspace
<1>3. PICK m : m = MoveTo(c, c.x - 1)
  OBVIOUS
<1>4. /\ m \in Consoles(M) /\ m.text = c.text /\ m.x = Rem(c.x - 1)
      /\ m.y = c.y % NUM_ROWS /\ m.row = c.row
  BY <1>3, NextColumns, MoveToIs, MoveToKeeps
<1>5. /\ At(c) = NUM_COLS * c.y + c.x /\ NUM_COLS * c.y \in Nat
      /\ c.x \in 2 - NUM_COLS .. NUM_COLS - 1 /\ c.y \in 0 .. NUM_ROWS - 1
  <2>1. c.y # NUM_ROWS
    BY AtIs, SizeFacts DEF Cells
  <2> QED
    BY <2>1, AtIs, SizeFacts
<1>6. m.y = c.y
  <2>1. c.y \in Nat /\ c.y < NUM_ROWS
    BY <1>5, SizeFacts
  <2>2. c.y % NUM_ROWS = c.y
    BY <2>1, SizeFacts
  <2> QED
    BY <1>4, <2>2
<1>7. m.x = c.x - 1
  BY <1>4, <1>5, SizeFacts DEF Rem
<1>8. At(m) = At(c) - 1
  <2>1. At(m) = NUM_COLS * c.y + (c.x - 1)
    BY <1>6, <1>7 DEF At
  <2> QED
    BY <1>5, <2>1
<1>9. PICK p : p = At(c) - 1
  OBVIOUS
<1>10. p \in Cells /\ p + 1 = At(c)
  BY <1>5, <1>9, SizeFacts DEF Cells
<1>11. PICK e : e = Store(m, Blank)
  OBVIOUS
<1>12. /\ e \in Consoles(M) /\ e.text = [c.text EXCEPT ![p] = Blank]
       /\ e.x = c.x - 1 /\ e.row = c.row
  BY <1>4, <1>7, <1>8, <1>9, <1>10, <1>11, StoreIs, StoreKeeps
<1>13. PICK row : row = Byte(e.row - 1)
  OBVIOUS
<1>14. d = [e EXCEPT !.row = row]
  BY <1>2, <1>3, <1>11, <1>13 DEF CountDown
<1>15. d.text = e.text /\ d.x = e.x /\ d.row = row
  BY <1>12, <1>14, RowIs
<1>16. d.row = Byte(d.x)
  BY <1>5, <1>12, <1>13, <1>15, ByteSteps, SizeFacts
<1>17. Reading(e.text) = Front(Reading(c.text))
  <2>1. c.text \in [Cells -> M] /\ c.text[p] \notin Silent /\ BlankFrom(c.text, p + 1)
    BY <1>9, <1>10, ConsoleHas
  <2> QED
    BY <1>10, <1>12, <2>1, ErasedGoes
<1> QED
  BY <1>15, <1>16, <1>17

LEMMA TypedStep ==
    ASSUME PictureInv, Seated, KeyChar, Prints(Keys[terminal_num]), Agree \/ RowFull,
           BlankFrom(page[Video], NextCell)
    PROVE  /\ Agree' \/ RowFull'
           /\ Shown' # <<>> /\ IsSuffix(Shown', Append(Shown, Keys[terminal_num]))
<1> DEFINE M == Marks(terminal_num)
<1>1. /\ terminal_num \in Terminals /\ Visible \in Consoles(M) /\ Blank \in M
      /\ Keys[terminal_num] \in M
  BY VisibleIs, MarksHave
<1>2. PICK c, key : c = Visible /\ key = Keys[terminal_num]
  OBVIOUS
<1>3. /\ c.text = page[Video] /\ c.x = screen_x /\ c.y = screen_y
      /\ c.row = row_letter_ct /\ c.fault = fault
  BY <1>2 DEF Visible
<1>4. ~ c.fault /\ At(c) >= 0
  BY <1>3 DEF KeyChar, Operation, Seated, Sits, At
<1>5. InStep(c) /\ (RowFull <=> FullRow(c))
  BY <1>3 DEF Agree, RowFull, InStep, FullRow
<1>6. BlankFrom(c.text, At(c) + (IF FullRow(c) THEN NUM_COLS ELSE 0))
  BY <1>2, <1>3, <1>5 DEF NextCell
<1>7. key \in M \ Silent /\ key \notin Controls
  BY <1>1, <1>2 DEF Prints, Silent, Controls
<1>8. PICK d : d = putc(CountUp(Wrapped(c)), key)
  OBVIOUS
<1> HIDE DEF M
<1>9. /\ d \in Consoles(M) /\ InStep(d) /\ Reading(d.text) # <<>>
      /\ IsSuffix(Reading(d.text), Append(Reading(c.text), key))
  BY <1>1, <1>2, <1>4, <1>5, <1>6, <1>7, <1>8, TypedOn
<1>10. PICK text : text = d.text /\ page' = [page EXCEPT ![Video] = text]
  BY <1>2, <1>8 DEF KeyChar, Shows
<1>11. /\ page'[Video] = d.text /\ screen_x' = d.x /\ row_letter_ct' = d.row
  BY <1>2, <1>8, <1>10, PagesApart DEF KeyChar, Shows, ShowsCursor, PictureInv, ScreensWhole
<1>12. Agree' \/ RowFull'
  BY <1>9, <1>11 DEF Agree, RowFull, InStep, FullRow
<1> QED
  BY <1>2, <1>3, <1>9, <1>11, <1>12 DEF Shown

LEMMA ErasedStep ==
    ASSUME PictureInv, KeyBackspace, Last(line[terminal_num]) = "char",
           Agree, BlankFrom(page[Video], NextCell), screen_x > 1 - NUM_COLS,
           At(Visible) \in Cells, At(Visible) > 0,
           page[Video][At(Visible) - 1] \notin Silent
    PROVE  Agree' /\ Shown' = Front(Shown)
<1> DEFINE M == Marks(terminal_num)
<1>1. /\ Visible \in Consoles(M) /\ Blank \in M /\ "backspace" \in M \cup Controls
  BY VisibleIs, MarksHave DEF Controls
<1>2. PICK c : c = Visible
  OBVIOUS
<1>3. /\ c.text = page[Video] /\ c.x = screen_x /\ c.y = screen_y
      /\ c.row = row_letter_ct
  BY <1>2 DEF Visible
<1> HIDE DEF M
<1>4. ~ RowFull
  <2>1. c.x \in 1 - NUM_COLS .. NUM_COLS - 1
    BY <1>1, <1>2, AtIs
  <2> QED
    BY <1>3, <2>1, ByteSteps DEF Agree, RowFull, ROW_LIM
<1>5. BlankFrom(c.text, At(c))
  <2>1. At(c) + 0 = At(c)
    BY <1>1, <1>2, AtIs
  <2> QED
    BY <1>2, <1>3, <1>4, <2>1 DEF NextCell
<1>6. PICK d : d = CountDown(putc(c, "backspace"))
  OBVIOUS
<1>7. d.row = Byte(d.x) /\ Reading(d.text) = Front(Reading(c.text))
  BY <1>1, <1>2, <1>3, <1>5, <1>6, ErasedOn DEF Agree
<1>8. Shows(d)
  <2>1. Erasures(Last(line[terminal_num])) = 1
    BY DEF Erasures
  <2>2. Shows(CountDown(PutAll(c, [k \in 1 .. 1 |-> "backspace"])))
    BY <1>2, <2>1 DEF KeyBackspace
  <2>3. PutAll(c, [k \in 1 .. 1 |-> "backspace"]) = putc(c, "backspace")
    BY <1>1, <1>2, PutOne
  <2> QED
    BY <1>6, <2>2, <2>3
<1>9. PICK text : text = d.text /\ page' = [page EXCEPT ![Video] = text]
  BY <1>8 DEF Shows
<1>10. page'[Video] = d.text /\ screen_x' = d.x /\ row_letter_ct' = d.row
  BY <1>8, <1>9, PagesApart DEF Shows, ShowsCursor, PictureInv, ScreensWhole
<1> QED
  BY <1>3, <1>7, <1>10 DEF Agree, Shown

\* What is typed shows in the order in which it is typed, over the end of a row,
\* while the screen scrolls and back again with backspace, for every size of a
\* screen (keyboard.c:184-216, 504-512, lib.c:182-226).
THEOREM TypingShows == Spec => TypedInOrder
<1>1. TextInv /\ Seated /\ [Next]_vars =>
      [/\ (/\ KeyChar /\ Prints(Keys[terminal_num])
           /\ Agree \/ RowFull
           /\ BlankFrom(page[Video], NextCell)) =>
             /\ Agree' \/ RowFull'
             /\ Shown' # <<>> /\ IsSuffix(Shown', Append(Shown, Keys[terminal_num]))
       /\ (/\ KeyBackspace /\ Last(line[terminal_num]) = "char"
           /\ Agree /\ BlankFrom(page[Video], NextCell) /\ screen_x > 1 - NUM_COLS
           /\ At(Visible) \in Cells
           /\ At(Visible) > 0 /\ page[Video][At(Visible) - 1] \notin Silent) =>
             Agree' /\ Shown' = Front(Shown)]_vars
  BY TypedStep, ErasedStep DEF TextInv
<1> QED
  BY <1>1, SeatsInvariance, PTL DEF Spec, TypedInOrder

-----------------------------------------------------------------------------
(* What is written can be read. *)

\* g cells from q on read as what was said, and nothing stands behind them.
Says(text, q, g, said) ==
    /\ q \in Nat /\ g \in Nat /\ q + g <= NUM_COLS * NUM_ROWS
    /\ BlankFrom(text, q + g) /\ ReadCells(text, q, g) = said

LEMMA SaysShifted ==
    ASSUME NEW M, NEW text \in [Cells -> M], NEW q, NEW g, NEW said,
           Says(text, q, g, said), NUM_COLS <= q
    PROVE  Says(Shift(text, NUM_COLS), q - NUM_COLS, g, said)
<1>1. /\ q \in Nat /\ g \in Nat /\ q + g <= NUM_COLS * NUM_ROWS
      /\ BlankFrom(text, q + g) /\ ReadCells(text, q, g) = said
  BY DEF Says
<1>2. PICK p \in Nat : p = q - NUM_COLS
  BY <1>1, SizeFacts
<1>3. PICK shifted : shifted = Shift(text, NUM_COLS)
  OBVIOUS
<1>4. \A k \in 1 .. g : /\ p + k - 1 \in Cells /\ q + k - 1 \in Cells
                        /\ (p + k - 1) + NUM_COLS = q + k - 1
  BY <1>1, <1>2, SizeFacts DEF Cells
<1>5. Match(text, q, shifted, p, g)
  BY <1>3, <1>4 DEF Shift, Match
<1>6. ReadCells(shifted, p, g) = said
  <2>1. Held(text, q, g, M)
    BY <1>4 DEF Held
  <2>2. p \in Int /\ q \in Int
    BY <1>1, <1>2
  <2> QED
    BY <1>1, <1>5, <2>1, <2>2, ReadSame
<1>7. BlankFrom(shifted, p + g)
  <2> SUFFICES ASSUME NEW k \in Cells, k >= p + g PROVE shifted[k] = Blank
    BY DEF BlankFrom
  <2>1. k + NUM_COLS >= q + g
    BY <1>1, <1>2, SizeFacts DEF Cells
  <2> QED
    BY <1>1, <1>3, <2>1 DEF Shift, BlankFrom
<1>8. p + g <= NUM_COLS * NUM_ROWS
  BY <1>1, <1>2, SizeFacts
<1> QED
  BY <1>1, <1>2, <1>3, <1>6, <1>7, <1>8 DEF Says

LEMMA SaysNext ==
    ASSUME NEW M, NEW text \in [Cells -> M], NEW q, NEW g, NEW said,
           Says(text, q, g, said), q + g \in Cells, NEW char \in M,
           NEW told, told = [text EXCEPT ![q + g] = char]
    PROVE  Says(told, q, g + 1, IF char \in Silent THEN said ELSE Append(said, char))
<1>1. /\ q \in Nat /\ g \in Nat /\ q + g <= NUM_COLS * NUM_ROWS
      /\ BlankFrom(text, q + g) /\ ReadCells(text, q, g) = said
  BY DEF Says
<1>2. PICK p : p = q + g
  OBVIOUS
<1>3. told \in [Cells -> M] /\ told[p] = char
      /\ \A k \in Cells : k # p => told[k] = text[k]
  BY <1>2
<1>4. \A k \in 1 .. g : q + k - 1 \in Cells /\ q + k - 1 # p
  BY <1>1, <1>2, SizeFacts DEF Cells
<1>5. p + 1 <= NUM_COLS * NUM_ROWS /\ q + (g + 1) = p + 1 /\ q + (g + 1) - 1 = p
      /\ g + 1 \in Nat /\ (g + 1) - 1 = g /\ g + 1 \in 1 .. g + 1 /\ q \in Int
  BY <1>1, <1>2, SizeFacts DEF Cells
<1>6. ReadCells(told, q, g) = said
  <2>1. Held(text, q, g, M) /\ Match(text, q, told, q, g)
    BY <1>3, <1>4 DEF Held, Match
  <2> QED
    BY <1>1, <1>5, <2>1, ReadSame
<1>7. ReadCells(told, q, g + 1) = ReadOne(told, p, said)
  <2>1. Held(told, q, g + 1, M)
    <3>1. \A k \in 1 .. g + 1 : q + k - 1 \in Cells
      BY <1>1, <1>5, SizeFacts DEF Cells
    <3> QED
      BY <1>3, <3>1 DEF Held
  <2>2. ReadCells(told, q, g + 1) =
           ReadOne(told, q + (g + 1) - 1, ReadCells(told, q, (g + 1) - 1))
    BY <1>5, <2>1, ReadNext
  <2> QED
    BY <1>5, <1>6, <2>2
<1>8. BlankFrom(told, p + 1)
  <2> SUFFICES ASSUME NEW k \in Cells, k >= p + 1 PROVE told[k] = Blank
    BY DEF BlankFrom
  <2>1. k # p /\ k >= q + g
    BY <1>1, <1>2 DEF Cells
  <2> QED
    BY <1>1, <1>3, <2>1 DEF BlankFrom
<1> QED
  BY <1>1, <1>3, <1>5, <1>7, <1>8 DEF Says, ReadOne

LEMMA SaysLast ==
    ASSUME NEW M, NEW text \in [Cells -> M], NEW q, NEW g, NEW said,
           Says(text, q, g, said)
    PROVE  IsSuffix(said, Reading(text))
<1>1. /\ q \in Nat /\ g \in Nat /\ q + g <= NUM_COLS * NUM_ROWS
      /\ BlankFrom(text, q + g) /\ ReadCells(text, q, g) = said
  BY DEF Says
<1>2. PICK m \in Nat, n \in Nat : m = q + g /\ NUM_COLS * NUM_ROWS = m + n
  <2>1. NUM_COLS * NUM_ROWS - (q + g) \in Nat /\ q + g \in Nat
    BY <1>1, SizeFacts
  <2> QED
    BY <1>1, <2>1, SizeFacts
<1>3. PICK from \in Int : from = 0
  OBVIOUS
<1>4. from + q = q /\ from + m = m /\ from \in Nat /\ m + n \in Nat /\ from + (m + n) = m + n
  BY <1>1, <1>2, <1>3
<1>5. /\ ReadCells(text, from, m) \in Seq(M)
      /\ ReadCells(text, from, m + n) =
            ReadCells(text, from, m) \o ReadCells(text, from + m, n)
  <2>1. from + (m + n) <= NUM_COLS * NUM_ROWS
    BY <1>2, <1>4
  <2>2. Held(text, from, m + n, M)
    BY <1>4, <2>1, CellsAre
  <2> QED
    BY <2>2, ReadParts
<1>6. ReadCells(text, m, n) = <<>>
  <2>1. \A k \in 1 .. n : m + k - 1 \in Cells /\ m + k - 1 >= q + g
    BY <1>1, <1>2 DEF Cells
  <2>2. Held(text, m, n, Silent)
    BY <1>1, <2>1 DEF Held, BlankFrom, Silent
  <2>3. m \in Int
    OBVIOUS
  <2> QED
    BY <2>2, <2>3, ReadBlank
<1>7. /\ ReadCells(text, from, q) \in Seq(M) /\ ReadCells(text, from + q, g) \in Seq(M)
      /\ ReadCells(text, from, q + g) = ReadCells(text, from, q) \o ReadCells(text, from + q, g)
  <2>1. q + g \in Nat /\ from + (q + g) <= NUM_COLS * NUM_ROWS
    BY <1>1, <1>3
  <2>2. Held(text, from, q + g, M)
    BY <1>4, <2>1, CellsAre
  <2>3. q \in Nat /\ g \in Nat
    BY <1>1
  <2> QED
    BY <2>2, <2>3, ReadParts
<1>8. PICK a \in Seq(M), b \in Seq(M) : a = ReadCells(text, from, q) /\ b = said
  BY <1>1, <1>4, <1>7
<1>9. ReadCells(text, from, m) = a \o b
  BY <1>1, <1>2, <1>4, <1>7, <1>8
<1>10. Reading(text) = a \o b
  <2>1. Reading(text) = ReadCells(text, from, m + n)
    BY <1>2, <1>3 DEF Reading
  <2>2. (a \o b) \o <<>> = a \o b
    OBVIOUS
  <2> QED
    BY <1>4, <1>5, <1>6, <1>9, <2>1, <2>2
<1> QED
  BY <1>8, <1>10, EndIsSuffix

\* What stands on a console that was at column x0 once g of the bytes are out:
\* line_ct is ahead of the column when a row is full.
Writing(M, w, x0, g, said) ==
    /\ w.console \in Consoles(M) /\ ~ w.console.fault
    /\ w.line_ct \in 0 .. NUM_COLS /\ w.console.x = Rem(w.line_ct)
    /\ w.console.y = NUM_ROWS => w.line_ct = 0
    /\ \E s \in Nat :
          /\ NUM_COLS * w.console.y + w.line_ct = NUM_COLS * s + x0 + g
          /\ Says(w.console.text, NUM_COLS * s + x0, g, said)

\* The same behind j newlines.
Follows(M, c, x0, g, j, said) ==
    /\ c \in Consoles(M)
    /\ \E s \in Nat :
          /\ NUM_COLS * c.y <= NUM_COLS * s + x0 + g + NUM_COLS * j
          /\ Says(c.text, NUM_COLS * s + x0, g, said)

LEMMA Rows ==
    ASSUME NEW s \in Nat
    PROVE  /\ NUM_COLS * s \in Nat
           /\ NUM_COLS * s > 0 => s - 1 \in Nat /\ NUM_COLS <= NUM_COLS * s
           /\ NUM_COLS * (s - 1) = NUM_COLS * s - NUM_COLS
           /\ NUM_COLS * (s + 1) = NUM_COLS * s + NUM_COLS
<1>1. NUM_COLS * s \in Nat
  BY SizeFacts
<1>2. NUM_COLS * (s - 1) = NUM_COLS * s - NUM_COLS /\ NUM_COLS * (s + 1) = NUM_COLS * s + NUM_COLS
  BY SizeFacts
<1>3. CASE s = 0
  <2>1. NUM_COLS * s = 0
    BY <1>3, SizeFacts
  <2> QED
    BY <1>1, <1>2, <2>1
<1>4. CASE s # 0
  <2>1. PICK r \in Nat : s = r + 1
    <3>1. s - 1 \in Nat /\ s = (s - 1) + 1
      BY <1>4
    <3> QED
      BY <3>1
  <2>2. NUM_COLS * s = NUM_COLS * r + NUM_COLS /\ NUM_COLS * r \in Nat
    BY <2>1, SizeFacts
  <2> QED
    BY <1>1, <1>2, <2>1, <2>2, SizeFacts
<1> QED
  BY <1>3, <1>4

LEMMA NewlineFollows ==
    ASSUME NEW M, Blank \in M, NEW c, NEW x0 \in Nat, NEW g \in Nat, NEW j \in Nat, NEW said,
           Follows(M, c, x0, g, j, said), x0 + g + NUM_COLS * j < NUM_COLS * NUM_ROWS
    PROVE  Follows(M, putc(c, "newline"), x0, g, j + 1, said)
<1>1. PICK s \in Nat : /\ c \in Consoles(M)
                       /\ NUM_COLS * c.y <= NUM_COLS * s + x0 + g + NUM_COLS * j
                       /\ Says(c.text, NUM_COLS * s + x0, g, said)
  BY DEF Follows
<1>2. PICK d, r : /\ d = putc(c, "newline") /\ r \in {0, NUM_COLS} /\ d \in Consoles(M)
                  /\ d.text = Shift(c.text, r)
                  /\ NUM_COLS * d.y = NUM_COLS * c.y - r + NUM_COLS
                  /\ r # 0 <=> c.y = NUM_ROWS
  BY <1>1, PutNewlineIs
<1>3. /\ NUM_COLS * j \in Nat /\ NUM_COLS * (j + 1) = NUM_COLS * j + NUM_COLS
      /\ NUM_COLS * s \in Nat /\ NUM_COLS * c.y \in Nat /\ NUM_COLS * d.y \in Nat
      /\ c.text \in [Cells -> M]
  BY <1>1, <1>2, Rows, AtIs, ConsoleHas
<1>4. CASE r = 0
  <2>1. d.text = c.text
    BY <1>2, <1>3, <1>4, ShiftIs
  <2>2. NUM_COLS * d.y <= NUM_COLS * s + x0 + g + NUM_COLS * (j + 1)
    BY <1>1, <1>2, <1>3, <1>4, SizeFacts
  <2> QED
    BY <1>1, <1>2, <2>1, <2>2 DEF Follows
<1>5. CASE r = NUM_COLS
  <2>1. c.y = NUM_ROWS
    BY <1>2, <1>5, SizeFacts
  <2>2. NUM_COLS * s > 0
    BY <1>1, <1>3, <2>1, SizeFacts
  <2>3. PICK z \in Nat : z = s - 1 /\ NUM_COLS * z = NUM_COLS * s - NUM_COLS
                         /\ NUM_COLS <= NUM_COLS * s
    BY <2>2, Rows
  <2>4. NUM_COLS * z + x0 = (NUM_COLS * s + x0) - NUM_COLS /\ NUM_COLS <= NUM_COLS * s + x0
    BY <1>3, <2>3, SizeFacts
  <2>5. PICK q : q = NUM_COLS * s + x0
    OBVIOUS
  <2>6. Says(d.text, q - NUM_COLS, g, said)
    BY <1>1, <1>2, <1>3, <1>5, <2>4, <2>5, SaysShifted
  <2>7. Says(d.text, NUM_COLS * z + x0, g, said)
    BY <2>4, <2>5, <2>6
  <2>8. NUM_COLS * d.y <= NUM_COLS * z + x0 + g + NUM_COLS * (j + 1)
    BY <1>1, <1>2, <1>3, <1>5, <2>3, SizeFacts
  <2> QED
    BY <1>2, <2>7, <2>8 DEF Follows
<1> QED
  BY <1>2, <1>4, <1>5

\* A row that is full is broken before the next byte.
LEMMA RowBreaks ==
    ASSUME NEW M, Blank \in M, NEW c, NEW l, NEW x0 \in Nat, NEW g \in Nat, NEW said,
           NEW w, w = [console |-> c, line_ct |-> l], Writing(M, w, x0, g, said),
           l = NUM_COLS,
           NEW z, z = [console |-> putc(c, "newline"), line_ct |-> 0]
    PROVE  Writing(M, z, x0, g, said)
<1>1. PICK s \in Nat : /\ c \in Consoles(M) /\ ~ c.fault /\ c.y # NUM_ROWS
                       /\ NUM_COLS * c.y + NUM_COLS = NUM_COLS * s + x0 + g
                       /\ Says(c.text, NUM_COLS * s + x0, g, said)
  BY SizeFacts DEF Writing
<1>2. PICK d, r : /\ d = putc(c, "newline") /\ r \in {0, NUM_COLS} /\ d \in Consoles(M)
                  /\ d.text = Shift(c.text, r) /\ d.x = 0 /\ d.fault = c.fault
                  /\ NUM_COLS * d.y = NUM_COLS * c.y - r + NUM_COLS
                  /\ r # 0 <=> c.y = NUM_ROWS
  BY <1>1, PutNewlineIs
<1>3. NUM_COLS * c.y \in Nat /\ NUM_COLS * d.y \in Nat /\ c.text \in [Cells -> M]
  BY <1>1, <1>2, AtIs, ConsoleHas
<1>4. d.text = c.text /\ NUM_COLS * d.y = NUM_COLS * c.y + NUM_COLS
  <2>1. r = 0
    BY <1>1, <1>2
  <2>2. Shift(c.text, 0) = c.text
    BY <1>3, ShiftIs
  <2>3. d.text = c.text /\ NUM_COLS * d.y = NUM_COLS * c.y - 0 + NUM_COLS
    BY <1>2, <2>1, <2>2
  <2> QED
    BY <1>3, <2>3, SizeFacts
<1>5. z.console = d /\ z.line_ct = 0 /\ 0 \in 0 .. NUM_COLS /\ Rem(0) = 0
  BY <1>2, SizeFacts DEF Rem
<1>6. NUM_COLS * d.y + 0 = NUM_COLS * s + x0 + g
  BY <1>1, <1>3, <1>4
<1> QED
  BY <1>1, <1>2, <1>4, <1>5, <1>6 DEF Writing

\* A byte goes behind the ones before it.
LEMMA ByteFollows ==
    ASSUME NEW M, Blank \in M, NEW c, NEW l, NEW x0 \in Nat, NEW g \in Nat, NEW said,
           NEW w, w = [console |-> c, line_ct |-> l], Writing(M, w, x0, g, said),
           l # NUM_COLS, x0 + g < NUM_COLS * NUM_ROWS, NEW char \in M \ Controls,
           NEW z, z = [console |-> putc(c, char), line_ct |-> l + 1]
    PROVE  Writing(M, z, x0, g + 1, IF char \in Silent THEN said ELSE Append(said, char))
<1>1. PICK s \in Nat : /\ c \in Consoles(M) /\ ~ c.fault /\ l \in 0 .. NUM_COLS - 1
                       /\ c.x = Rem(l)
                       /\ NUM_COLS * c.y + l = NUM_COLS * s + x0 + g
                       /\ Says(c.text, NUM_COLS * s + x0, g, said)
  <2>1. w.console = c /\ w.line_ct = l
    OBVIOUS
  <2>2. l \in 0 .. NUM_COLS /\ c.x = Rem(l) /\ c \in Consoles(M) /\ ~ c.fault
    BY <2>1 DEF Writing
  <2>3. l \in 0 .. NUM_COLS - 1
    BY <2>2, SizeFacts
  <2> QED
    BY <2>1, <2>2, <2>3 DEF Writing
<1>2. c.x = l
  BY <1>1, SizeFacts DEF Rem
<1>3. /\ At(c) = NUM_COLS * c.y + l /\ NUM_COLS * c.y \in Nat /\ c.text \in [Cells -> M]
      /\ At(c) \in Nat /\ NUM_COLS * s \in Nat
  <2>1. At(c) = NUM_COLS * c.y + c.x /\ NUM_COLS * c.y \in Nat /\ c.text \in [Cells -> M]
    BY <1>1, AtIs, ConsoleHas
  <2> QED
    BY <1>1, <1>2, <2>1, Rows, SizeFacts
<1>4. At(c) >= 0
  BY <1>3
<1>5. PICK d, r : /\ d = putc(c, char) /\ r \in {0, NUM_COLS}
                  /\ d \in Consoles(M) /\ At(c) - r \in Cells
                  /\ d.text = [Shift(c.text, r) EXCEPT ![At(c) - r] = char]
                  /\ d.x = Rem(c.x + 1) /\ NUM_COLS * d.y = NUM_COLS * c.y - r
                  /\ d.y < NUM_ROWS /\ d.fault = c.fault
                  /\ r # 0 <=> c.y = NUM_ROWS
  BY <1>1, <1>4, PutCharIs
<1>6. PICK t \in Nat : /\ NUM_COLS * t = NUM_COLS * s - r
                       /\ Says(Shift(c.text, r), NUM_COLS * t + x0, g, said)
  <2>1. CASE r = 0
    <3>1. Shift(c.text, r) = c.text /\ NUM_COLS * s = NUM_COLS * s - r
      BY <1>3, <2>1, ShiftIs
    <3> QED
      BY <1>1, <3>1
  <2>2. CASE r = NUM_COLS
    <3>1. At(c) = NUM_COLS * NUM_ROWS
      BY <1>1, <1>5, <2>2, AtIs, SizeFacts
    <3>2. NUM_COLS * s > 0
      BY <1>1, <1>3, <3>1, SizeFacts
    <3>3. PICK t \in Nat : t = s - 1 /\ NUM_COLS * t = NUM_COLS * s - NUM_COLS
                           /\ NUM_COLS <= NUM_COLS * s
      BY <3>2, Rows
    <3>4. PICK q : q = NUM_COLS * s + x0
      OBVIOUS
    <3>5. q - NUM_COLS = NUM_COLS * t + x0 /\ NUM_COLS <= q
      BY <1>3, <3>3, <3>4, SizeFacts
    <3>6. Says(Shift(c.text, NUM_COLS), q - NUM_COLS, g, said)
      BY <1>1, <1>3, <3>4, <3>5, SaysShifted
    <3> QED
      BY <2>2, <3>3, <3>5, <3>6
  <2> QED
    BY <1>5, <2>1, <2>2
<1>7. PICK q, text : q = NUM_COLS * t + x0 /\ text = Shift(c.text, r)
  OBVIOUS
<1>8. /\ text \in [Cells -> M] /\ Says(text, q, g, said) /\ q + g = At(c) - r
      /\ q + g \in Cells /\ d.text = [text EXCEPT ![q + g] = char]
  <2>1. text \in [Cells -> M]
    BY <1>3, <1>5, <1>7, ShiftIs, SizeFacts
  <2>2. q + g = At(c) - r
    BY <1>1, <1>3, <1>5, <1>6, <1>7, SizeFacts
  <2> QED
    BY <1>5, <1>6, <1>7, <2>1, <2>2
<1>9. PICK told : told = d.text
  OBVIOUS
<1>10. Says(told, q, g + 1, IF char \in Silent THEN said ELSE Append(said, char))
  BY <1>8, <1>9, SaysNext
<1>11. /\ z.console = d /\ z.line_ct = l + 1 /\ l + 1 \in 0 .. NUM_COLS
       /\ d.x = Rem(l + 1) /\ d.y # NUM_ROWS
  BY <1>1, <1>2, <1>5, SizeFacts
<1>12. NUM_COLS * d.y + (l + 1) = NUM_COLS * t + x0 + (g + 1)
  BY <1>1, <1>3, <1>5, <1>6, SizeFacts
<1> QED
  BY <1>1, <1>5, <1>7, <1>9, <1>10, <1>11, <1>12 DEF Writing

\* Another byte is out; what prints nothing need not be.
Grown(M, w, x0, g, said, char) ==
    \E h \in {g, g + 1} :
        Writing(M, w, x0, h, IF char \in Silent THEN said ELSE Append(said, char))

\* One byte of a text, which has no control characters.
LEMMA ByteWritten ==
    ASSUME NEW M, Blank \in M, NEW x0 \in Nat, NEW g \in Nat, NEW said,
           NEW w \in [console : Consoles(M), line_ct : Nat], Writing(M, w, x0, g, said),
           x0 + g < NUM_COLS * NUM_ROWS, NEW char \in M \ Controls
    PROVE  Grown(M, WriteByte(TRUE, w, char), x0, g, said, char)
<1>1. PICK c, l : c = w.console /\ l = w.line_ct /\ w = [console |-> c, line_ct |-> l]
  OBVIOUS
<1>2. char # "newline"
  BY DEF Controls
<1>3. CASE char = "nul"
  BY <1>2, <1>3 DEF WriteByte, Silent, Grown
<1>4. CASE char # "nul" /\ l = NUM_COLS
  <2>1. PICK d : d = putc(c, "newline")
    OBVIOUS
  <2>2. PICK z : z = [console |-> d, line_ct |-> 0]
    OBVIOUS
  <2>3. Writing(M, z, x0, g, said)
    BY <1>1, <1>4, <2>1, <2>2, RowBreaks
  <2>4. WriteByte(TRUE, w, char) = [console |-> putc(d, char), line_ct |-> 0 + 1]
    BY <1>1, <1>2, <1>4, <2>1 DEF WriteByte, Put, ROW_LIM
  <2>5. 0 # NUM_COLS
    BY SizeFacts
  <2>6. PICK v : v = [console |-> putc(d, char), line_ct |-> 0 + 1]
    OBVIOUS
  <2>7. Writing(M, v, x0, g + 1, IF char \in Silent THEN said ELSE Append(said, char))
    BY <2>2, <2>3, <2>5, <2>6, ByteFollows
  <2> QED
    BY <2>4, <2>6, <2>7 DEF Grown
<1>5. CASE char # "nul" /\ l # NUM_COLS
  <2>1. WriteByte(TRUE, w, char) = [console |-> putc(c, char), line_ct |-> l + 1]
    BY <1>1, <1>2, <1>5 DEF WriteByte, Put, ROW_LIM
  <2>2. PICK v : v = [console |-> putc(c, char), line_ct |-> l + 1]
    OBVIOUS
  <2>3. Writing(M, v, x0, g + 1, IF char \in Silent THEN said ELSE Append(said, char))
    BY <1>1, <1>5, <2>2, ByteFollows
  <2> QED
    BY <2>1, <2>2, <2>3 DEF Grown
<1> QED
  BY <1>3, <1>4, <1>5

\* The newline at the end of a text.
LEMMA WritingFollows ==
    ASSUME NEW M, NEW w, NEW x0 \in Nat, NEW g \in Nat, NEW said,
           Writing(M, w, x0, g, said)
    PROVE  Follows(M, w.console, x0, g, 0, said)
<1>1. PICK s \in Nat : /\ w.console \in Consoles(M) /\ w.line_ct \in 0 .. NUM_COLS
                       /\ NUM_COLS * w.console.y + w.line_ct = NUM_COLS * s + x0 + g
                       /\ Says(w.console.text, NUM_COLS * s + x0, g, said)
  BY DEF Writing
<1>2. NUM_COLS * w.console.y \in Nat /\ NUM_COLS * s \in Nat /\ NUM_COLS * 0 = 0
  BY <1>1, AtIs, Rows, SizeFacts
<1>3. NUM_COLS * w.console.y <= NUM_COLS * s + x0 + g + NUM_COLS * 0
  BY <1>1, <1>2, SizeFacts
<1> QED
  BY <1>1, <1>3 DEF Follows

LEMMA WritingBegins ==
    ASSUME NEW M, NEW c \in Consoles(M), ~ c.fault, NEW l \in Nat, c.x = l,
           BlankFrom(c.text, At(c)), NEW w, w = [console |-> c, line_ct |-> l]
    PROVE  Writing(M, w, l, 0, <<>>)
<1>1. /\ At(c) = NUM_COLS * c.y + l /\ NUM_COLS * c.y \in Nat /\ c.y \in Nat
      /\ l \in 0 .. NUM_COLS - 1 /\ (c.y = NUM_ROWS => l = 0)
      /\ At(c) <= NUM_COLS * NUM_ROWS
  <2>1. c.y \in Nat
    BY ConsoleHas
  <2> QED
    BY <2>1, AtIs, SizeFacts
<1>2. PICK q, y : y = c.y /\ q = NUM_COLS * y + l
  OBVIOUS
<1>3. q \in Nat /\ q + 0 = q /\ q = At(c) /\ q <= NUM_COLS * NUM_ROWS
  BY <1>1, <1>2
<1>4. ReadCells(c.text, q, 0) = <<>>
  BY <1>3, ReadNone
<1>5. Says(c.text, q, 0, <<>>)
  BY <1>3, <1>4 DEF Says
<1>6. w.console = c /\ w.line_ct = l /\ Rem(l) = l /\ l \in 0 .. NUM_COLS
  <2>1. l # NUM_COLS /\ l # -NUM_COLS /\ l \in 0 .. NUM_COLS
    BY <1>1, SizeFacts
  <2>2. w.console = c /\ w.line_ct = l
    OBVIOUS
  <2>3. Rem(l) = l
    BY <2>1 DEF Rem
  <2> QED
    BY <2>1, <2>2, <2>3
<1>7. NUM_COLS * c.y + l = NUM_COLS * y + l + 0
  BY <1>1, <1>2
<1> QED
  BY <1>1, <1>2, <1>5, <1>6, <1>7 DEF Writing

\* The bytes but a last newline.
LEMMA PlainBytes ==
    ASSUME NEW M, NEW bytes \in Seq(M \cup Controls), "tab" \notin ToSet(bytes),
           "backspace" \notin ToSet(bytes), "newline" \notin ToSet(Front(bytes))
    PROVE  \E m \in 0 .. Len(bytes) :
              /\ \A k \in 1 .. m : bytes[k] \in M \ Controls
              /\ \/ m = Len(bytes)
                 \/ m = Len(bytes) - 1 /\ bytes[Len(bytes)] = "newline"
<1>1. PICK n \in Nat : n = Len(bytes)
  OBVIOUS
<1>2. \A k \in 1 .. n : /\ bytes[k] \in M \cup Controls
                        /\ bytes[k] # "tab" /\ bytes[k] # "backspace"
  BY <1>1 DEF ToSet
<1>3. \A k \in 1 .. n - 1 : bytes[k] # "newline"
  <2> SUFFICES ASSUME NEW k \in 1 .. n - 1 PROVE bytes[k] # "newline"
    OBVIOUS
  <2>1. Front(bytes) = SubSeq(bytes, 1, n - 1) /\ n >= 1
    BY <1>1 DEF Front
  <2>2. Len(Front(bytes)) = n - 1 /\ Front(bytes)[k] = bytes[k]
    BY <1>1, <2>1
  <2> QED
    BY <2>2 DEF ToSet
<1>4. \A k \in 1 .. n : bytes[k] # "newline" => bytes[k] \in M \ Controls
  BY <1>2 DEF Controls
<1>5. CASE n > 0 /\ bytes[n] = "newline"
  <2>1. n - 1 \in 0 .. n /\ \A k \in 1 .. n - 1 : k \in 1 .. n
    BY <1>5
  <2> QED
    BY <1>1, <1>3, <1>4, <1>5, <2>1
<1>6. CASE ~ (n > 0 /\ bytes[n] = "newline")
  <2>1. \A k \in 1 .. n : k # n => k \in 1 .. n - 1
    OBVIOUS
  <2>2. \A k \in 1 .. n : bytes[k] # "newline"
    BY <1>3, <1>6, <2>1
  <2> QED
    BY <1>1, <1>4, <2>2
<1> QED
  BY <1>5, <1>6

\* The rounds of the two loops on consoles that show M.
LEMMA BytesRounds ==
    ASSUME NEW M, Blank \in M, NEW c \in Consoles(M), NEW B, B = M \cup Controls,
           NEW bytes \in Seq(B), NEW visible \in BOOLEAN, NEW l \in Nat
    PROVE  \E f \in [0 .. Len(bytes) -> [console : Consoles(M), line_ct : Nat]] :
              /\ f[0] = [console |-> c, line_ct |-> l]
              /\ \A n \in 1 .. Len(bytes) : f[n] = WriteByte(visible, f[n - 1], bytes[n])
              /\ PutBytes(visible, c, bytes, l) = f[Len(bytes)].console
<1>1. PICK S : S = [console : Consoles(M), line_ct : Nat]
  OBVIOUS
<1>2. \A w \in S, b \in B : WriteByte(visible, w, b) \in S
  BY <1>1, WriteByteKeeps
<1>3. [console |-> c, line_ct |-> l] \in S
  BY <1>1
<1>4. PICK f \in [0 .. Len(bytes) -> S] :
          /\ f[0] = [console |-> c, line_ct |-> l]
          /\ \A n \in 1 .. Len(bytes) : f[n] = WriteByte(visible, f[n - 1], bytes[n])
          /\ PutBytes(visible, c, bytes, l) = f[Len(bytes)].console
  BY <1>2, <1>3, PutBytesRounds
<1> QED
  BY <1>1, <1>4

LEMMA AllRounds ==
    ASSUME NEW M, Blank \in M, NEW c \in Consoles(M), NEW B, B = M \cup Controls,
           NEW bytes \in Seq(B)
    PROVE  \E f \in [0 .. Len(bytes) -> Consoles(M)] :
              /\ f[0] = c /\ \A n \in 1 .. Len(bytes) : f[n] = putc(f[n - 1], bytes[n])
              /\ PutAll(c, bytes) = f[Len(bytes)]
<1>1. PICK S : S = Consoles(M)
  OBVIOUS
<1>2. c \in S /\ \A d \in S, b \in B : putc(d, b) \in S
  BY <1>1, putcKeeps
<1>3. PICK f \in [0 .. Len(bytes) -> S] :
          /\ f[0] = c /\ \A n \in 1 .. Len(bytes) : f[n] = putc(f[n - 1], bytes[n])
          /\ PutAll(c, bytes) = f[Len(bytes)]
  BY <1>2, PutAllRounds
<1> QED
  BY <1>1, <1>3

\* All bytes of a text that has control characters only at its end.
LEMMA BytesWritten ==
    ASSUME NEW M, Blank \in M, NEW c \in Consoles(M), ~ c.fault, NEW l \in Nat, c.x = l,
           BlankFrom(c.text, At(c)), NEW bytes \in Seq(M \cup Controls),
           "tab" \notin ToSet(bytes), "backspace" \notin ToSet(bytes),
           "newline" \notin ToSet(Front(bytes)),
           l + Len(bytes) <= NUM_COLS * NUM_ROWS
    PROVE  \E g \in Nat, j \in {0, 1} :
              /\ g + j <= Len(bytes)
              /\ Follows(M, PutBytes(TRUE, c, bytes, l), l, g, j,
                         ReadCells(bytes, 1, Len(bytes)))
<1>1. PICK n \in Nat : n = Len(bytes)
  OBVIOUS
<1>2. PICK m \in 0 .. n : /\ \A k \in 1 .. m : bytes[k] \in M \ Controls
                          /\ m = n \/ (m = n - 1 /\ bytes[n] = "newline")
  BY <1>1, PlainBytes
<1>3. PICK S, B : S = [console : Consoles(M), line_ct : Nat] /\ B = M \cup Controls
  OBVIOUS
<1>5. bytes \in Seq(B)
  BY <1>3
<1>4. PICK visible \in BOOLEAN : visible = TRUE
  OBVIOUS
<1>18. B = M \cup Controls /\ bytes \in Seq(B)
  BY <1>3, <1>5
<1>19. PICK f \in [0 .. Len(bytes) -> [console : Consoles(M), line_ct : Nat]] :
          /\ f[0] = [console |-> c, line_ct |-> l]
          /\ \A k \in 1 .. Len(bytes) : f[k] = WriteByte(visible, f[k - 1], bytes[k])
          /\ PutBytes(visible, c, bytes, l) = f[Len(bytes)].console
  BY <1>18, BytesRounds
<1>6. /\ f \in [0 .. Len(bytes) -> S]
      /\ f[0] = [console |-> c, line_ct |-> l]
      /\ \A k \in 1 .. Len(bytes) : f[k] = WriteByte(TRUE, f[k - 1], bytes[k])
      /\ PutBytes(TRUE, c, bytes, l) = f[Len(bytes)].console
  BY <1>3, <1>4, <1>19
<1>7. PICK read : read = [k \in 0 .. n |-> ReadCells(bytes, 1, k)]
  OBVIOUS
<1>8. read[0] = <<>> /\ \A k \in 1 .. n : read[k] = ReadOne(bytes, k, read[k - 1])
  <2>1. Held(bytes, 1, n, B)
    BY <1>1, <1>5 DEF Held
  <2>2. 1 \in Int /\ 0 \in 0 .. n /\ \A k \in 1 .. n : k \in 0 .. n /\ k - 1 \in 0 .. n
    OBVIOUS
  <2>3. ReadCells(bytes, 1, 0) = <<>>
    BY <2>2, ReadNone
  <2>4. ASSUME NEW k \in 1 .. n PROVE read[k] = ReadOne(bytes, k, read[k - 1])
    <3>1. ReadCells(bytes, 1, k) = ReadOne(bytes, 1 + k - 1, ReadCells(bytes, 1, k - 1))
      BY <2>1, <2>2, ReadNext
    <3>2. 1 + k - 1 = k
      OBVIOUS
    <3> QED
      BY <1>7, <2>2, <3>1, <3>2
  <2> QED
    BY <1>7, <2>2, <2>3, <2>4
<1>9. PICK P : P = {k \in 0 .. m : \E g \in 0 .. k : Writing(M, f[k], l, g, read[k])}
  OBVIOUS
<1>10. 0 \in P
  <2>1. PICK w : w = [console |-> c, line_ct |-> l]
    OBVIOUS
  <2>2. Writing(M, w, l, 0, <<>>)
    BY <2>1, WritingBegins
  <2> QED
    BY <1>6, <1>8, <1>9, <2>1, <2>2
<1>11. ASSUME NEW k \in 1 .. m, k - 1 \in P PROVE k \in P
  <2>1. /\ k \in 1 .. n /\ k - 1 \in 0 .. n /\ k \in 0 .. m
        /\ bytes[k] \in M \ Controls
    BY <1>2
  <2>2. PICK g \in 0 .. k - 1 : Writing(M, f[k - 1], l, g, read[k - 1])
    BY <1>9, <1>11
  <2>3. g \in Nat /\ l + g < NUM_COLS * NUM_ROWS
    BY <1>1, <2>1, SizeFacts
  <2>4. PICK w \in S : w = f[k - 1]
    BY <1>1, <1>6, <2>1
  <2>5. w \in [console : Consoles(M), line_ct : Nat]
    BY <1>3
  <2>14. PICK said : said = read[k - 1]
    OBVIOUS
  <2>10. PICK char \in M \ Controls : char = bytes[k]
    BY <2>1
  <2>11. Writing(M, w, l, g, said)
    BY <2>2, <2>4, <2>14
  <2>13. w \in [console : Consoles(M), line_ct : Nat] /\ g \in Nat
         /\ l + g < NUM_COLS * NUM_ROWS /\ Writing(M, w, l, g, said)
    BY <2>3, <2>5, <2>11
  <2>15. Grown(M, WriteByte(TRUE, w, char), l, g, said, char)
    BY <2>13, ByteWritten
  <2>12. PICK h \in {g, g + 1} :
            Writing(M, WriteByte(TRUE, w, char), l, h,
                    IF char \in Silent THEN said ELSE Append(said, char))
    BY <2>15 DEF Grown
  <2>6. Writing(M, WriteByte(TRUE, w, bytes[k]), l, h,
                IF bytes[k] \in Silent THEN read[k - 1] ELSE Append(read[k - 1], bytes[k]))
        /\ h \in {g, g + 1}
    BY <2>10, <2>12, <2>14
  <2>7. f[k] = WriteByte(TRUE, w, bytes[k])
    BY <1>1, <1>6, <2>1, <2>4
  <2>8. read[k] = IF bytes[k] \in Silent THEN read[k - 1] ELSE Append(read[k - 1], bytes[k])
    BY <1>8, <2>1 DEF ReadOne
  <2>9. h \in 0 .. k
    BY <2>2, <2>6
  <2> QED
    BY <1>9, <2>1, <2>6, <2>7, <2>8, <2>9
<1>12. m \in P
  <2>1. m \in Nat /\ m \in 0 .. m
    BY <1>2
  <2>2. \A k \in 0 .. m : k \in P
    BY <1>10, <1>11, <2>1, Induct
  <2> QED
    BY <2>1, <2>2
<1>13. PICK g \in 0 .. m : Writing(M, f[m], l, g, read[m])
  BY <1>9, <1>12
<1>14. Follows(M, f[m].console, l, g, 0, read[m]) /\ g \in Nat
  BY <1>13, WritingFollows
<1>15. n \in 0 .. n /\ read[n] = ReadCells(bytes, 1, Len(bytes))
  BY <1>1, <1>7
<1>16. CASE m = n
  <2>1. g + 0 <= Len(bytes) /\ 0 \in {0, 1}
    BY <1>1, <1>13, <1>16
  <2> QED
    BY <1>1, <1>6, <1>14, <1>15, <1>16, <2>1
<1>17. CASE m = n - 1 /\ bytes[n] = "newline"
  <2>1. n \in 1 .. n /\ n - 1 \in 0 .. n /\ m \in 0 .. n
    BY <1>2, <1>17
  <2>2. PICK w \in S : w = f[m]
    BY <1>1, <1>6, <2>1
  <2>3. f[n] = WriteByte(TRUE, w, "newline")
    BY <1>1, <1>6, <1>17, <2>1, <2>2
  <2>4. f[n].console = putc(w.console, "newline")
    <3>1. [w EXCEPT !.line_ct = 0].console = w.console
      BY <1>3
    <3> QED
      BY <2>3, <3>1 DEF WriteByte, Put
  <2>5. read[n] = read[m]
    BY <1>8, <1>17, <2>1 DEF ReadOne, Silent
  <2>6. g + 1 <= Len(bytes) /\ l + g + NUM_COLS * 0 < NUM_COLS * NUM_ROWS /\ 0 \in Nat
        /\ 0 + 1 = 1
    BY <1>1, <1>13, <1>17, SizeFacts
  <2>7. Follows(M, putc(w.console, "newline"), l, g, 0 + 1, read[m])
    BY <1>14, <2>2, <2>6, NewlineFollows
  <2> QED
    BY <1>1, <1>6, <1>14, <1>15, <2>4, <2>5, <2>6, <2>7
<1> QED
  BY <1>2, <1>16, <1>17

\* The newlines behind a text.
LEMMA NewlinesFollow ==
    ASSUME NEW M, Blank \in M, NEW c, NEW x0 \in Nat, NEW g \in Nat, NEW j \in Nat,
           NEW said, NEW n \in Nat, Follows(M, c, x0, g, j, said),
           n > 0 => x0 + g + NUM_COLS * (j + n - 1) < NUM_COLS * NUM_ROWS
    PROVE  Follows(M, PutAll(c, [k \in 1 .. n |-> "newline"]), x0, g, j + n, said)
<1>1. PICK bytes, S, B : /\ bytes = [k \in 1 .. n |-> "newline"] /\ S = Consoles(M)
                         /\ B = M \cup Controls
  OBVIOUS
<1>2. bytes \in Seq(B) /\ Len(bytes) = n /\ \A k \in 1 .. n : bytes[k] = "newline"
  BY <1>1 DEF Controls
<1>3. c \in Consoles(M) /\ B = M \cup Controls /\ bytes \in Seq(B)
  BY <1>1, <1>2 DEF Follows
<1>4. PICK f \in [0 .. Len(bytes) -> Consoles(M)] :
          /\ f[0] = c /\ \A k \in 1 .. Len(bytes) : f[k] = putc(f[k - 1], bytes[k])
          /\ PutAll(c, bytes) = f[Len(bytes)]
  BY <1>3, AllRounds
<1>5. PICK P : P = {k \in 0 .. n : Follows(M, f[k], x0, g, j + k, said)}
  OBVIOUS
<1>6. 0 \in P
  <2>1. j + 0 = j /\ 0 \in 0 .. n
    OBVIOUS
  <2> QED
    BY <1>4, <1>5, <2>1
<1>7. ASSUME NEW k \in 1 .. n, k - 1 \in P PROVE k \in P
  <2>1. PICK i \in Nat : i = j + (k - 1)
    OBVIOUS
  <2>2. i + 1 = j + k /\ k \in 0 .. n /\ Follows(M, f[k - 1], x0, g, i, said)
    BY <1>5, <1>7, <2>1
  <2>3. x0 + g + NUM_COLS * i < NUM_COLS * NUM_ROWS
    <3>1. PICK a \in Nat, b \in Nat : b = j + n - 1 /\ b = i + a
      <4>1. j + n - 1 \in Nat /\ n - k \in Nat /\ j + n - 1 = i + (n - k)
        BY <2>1
      <4> QED
        BY <4>1
    <3>2. NUM_COLS * b = NUM_COLS * i + NUM_COLS * a
      BY <3>1, SizeFacts
    <3>3. NUM_COLS * a \in Nat /\ NUM_COLS * i \in Nat /\ NUM_COLS * b \in Nat
      BY Rows
    <3>4. x0 + g + NUM_COLS * b < NUM_COLS * NUM_ROWS
      BY <3>1
    <3> QED
      BY <3>2, <3>3, <3>4, SizeFacts
  <2>4. f[k] = putc(f[k - 1], "newline")
    BY <1>2, <1>4
  <2>5. PICK d : d = f[k - 1]
    OBVIOUS
  <2>6. Follows(M, putc(d, "newline"), x0, g, i + 1, said)
    BY <2>2, <2>3, <2>5, NewlineFollows
  <2> QED
    BY <1>5, <2>2, <2>4, <2>5, <2>6
<1>8. n \in 0 .. n /\ \A k \in 0 .. n : k \in P
  BY <1>6, <1>7, Induct, SMTT(20)
<1> QED
  BY <1>1, <1>2, <1>4, <1>5, <1>8

LEMMA FollowsLast ==
    ASSUME NEW M, NEW c, NEW x0 \in Nat, NEW g, NEW j, NEW said,
           Follows(M, c, x0, g, j, said)
    PROVE  IsSuffix(said, Reading(c.text))
<1>1. PICK s \in Nat : c \in Consoles(M) /\ Says(c.text, NUM_COLS * s + x0, g, said)
  BY DEF Follows
<1>2. PICK text \in [Cells -> M] : text = c.text
  BY <1>1, ConsoleHas
<1>3. PICK q : q = NUM_COLS * s + x0
  OBVIOUS
<1>4. Says(text, q, g, said)
  BY <1>1, <1>2, <1>3
<1> QED
  BY <1>2, <1>4, SaysLast

LEMMA NewlineCount ==
    ASSUME NEW text PROVE Newlines(text) \in Nat
BY DEF Newlines

\* A plain text on a console from the column that terminal_write counts from.
LEMMA PlainOn ==
    ASSUME schedule_idx \in Terminals, NEW text \in Texts[schedule_idx], Plain(text),
           FirstCount = View(schedule_idx).x,
           BlankFrom(View(schedule_idx).text, At(View(schedule_idx))),
           FirstCount + Len(text.bytes) + NUM_COLS * Newlines(text) <= NUM_COLS * NUM_ROWS,
           NEW c \in Consoles(Marks(schedule_idx)), ~ c.fault,
           c.text = View(schedule_idx).text, c.x = View(schedule_idx).x,
           c.y = View(schedule_idx).y,
           NEW d, d = PutBytes(TRUE, c, text.bytes, FirstCount)
    PROVE  /\ IsSuffix(Glyphs(text), Reading(d.text))
           /\ IsSuffix(Glyphs(text), Reading(Trailer(text, d).text))
<1> DEFINE M == Marks(schedule_idx)
<1>1. PICK l \in Nat, n \in Nat : l = FirstCount /\ n = Newlines(text)
  BY TextFacts, NewlineCount
<1>2. PICK bytes \in Seq(M \cup Controls) : bytes = text.bytes
  BY TextFacts
<1>3. Blank \in M /\ c.x = l /\ BlankFrom(c.text, At(c))
  <2>1. At(c) = At(View(schedule_idx))
    BY DEF At
  <2> QED
    BY <1>1, <2>1, MarksHave
<1>4. /\ "tab" \notin ToSet(bytes) /\ "backspace" \notin ToSet(bytes)
      /\ "newline" \notin ToSet(Front(bytes))
  BY <1>2 DEF Plain, Tabless
<1>5. NUM_COLS * n \in Nat /\ Len(bytes) \in Nat
      /\ l + Len(bytes) + NUM_COLS * n <= NUM_COLS * NUM_ROWS
  <2>1. NUM_COLS * n \in Nat
    BY Rows
  <2>2. Len(bytes) \in Nat
    OBVIOUS
  <2>3. l + Len(bytes) + NUM_COLS * n <= NUM_COLS * NUM_ROWS
    BY <1>1, <1>2
  <2> QED
    BY <2>1, <2>2, <2>3
<1>6. l + Len(bytes) <= NUM_COLS * NUM_ROWS
  BY <1>5, SizeFacts
<1>7. d = PutBytes(TRUE, c, bytes, l) /\ Glyphs(text) = ReadCells(bytes, 1, Len(bytes))
      /\ Trailer(text, d) = PutAll(d, [k \in 1 .. n |-> "newline"])
  BY <1>1, <1>2 DEF Glyphs, Trailer
<1> HIDE DEF M
<1>8. c \in Consoles(M)
  BY DEF M
<1>9. \E g \in Nat, j \in {0, 1} :
          /\ g + j <= Len(bytes)
          /\ Follows(M, PutBytes(TRUE, c, bytes, l), l, g, j, ReadCells(bytes, 1, Len(bytes)))
  BY <1>3, <1>4, <1>6, <1>8, BytesWritten
<1>10. PICK g \in Nat, j \in {0, 1} :
             /\ g + j <= Len(bytes)
             /\ Follows(M, d, l, g, j, Glyphs(text))
  BY <1>7, <1>9
<1>11. IsSuffix(Glyphs(text), Reading(d.text))
  BY <1>10, FollowsLast
<1>12. n > 0 => l + g + NUM_COLS * (j + n - 1) < NUM_COLS * NUM_ROWS
  <2> SUFFICES ASSUME n > 0 PROVE l + g + NUM_COLS * (j + n - 1) < NUM_COLS * NUM_ROWS
    OBVIOUS
  <2>1. NUM_COLS * (n - 1) = NUM_COLS * n - NUM_COLS
    BY Rows
  <2>2. CASE j = 0
    <3>1. j + n - 1 = n - 1
      BY <2>2
    <3>2. l + g + NUM_COLS * (n - 1) < NUM_COLS * NUM_ROWS
      BY <1>5, <1>10, <2>1, <2>2, SizeFacts
    <3> QED
      BY <3>1, <3>2
  <2>3. CASE j = 1
    <3>1. j + n - 1 = n
      BY <2>3
    <3>2. l + g + NUM_COLS * n < NUM_COLS * NUM_ROWS
      BY <1>5, <1>10, <2>3, SizeFacts
    <3> QED
      BY <3>1, <3>2
  <2> QED
    BY <1>10, <2>2, <2>3
<1>13. Follows(M, PutAll(d, [k \in 1 .. n |-> "newline"]), l, g, j + n, Glyphs(text))
  <2>1. j \in Nat
    BY <1>10
  <2>2. PICK said : said = Glyphs(text)
    OBVIOUS
  <2>3. Follows(M, d, l, g, j, said)
    BY <1>10, <2>2
  <2>4. Follows(M, PutAll(d, [k \in 1 .. n |-> "newline"]), l, g, j + n, said)
    BY <1>3, <1>12, <2>1, <2>3, NewlinesFollow
  <2> QED
    BY <2>2, <2>4
<1>14. IsSuffix(Glyphs(text), Reading(Trailer(text, d).text))
  BY <1>7, <1>13, FollowsLast
<1> QED
  BY <1>11, <1>14

LEMMA ReadableStep ==
    ASSUME PictureInv, OthersWhole, NEW text \in Texts[schedule_idx],
           terminal_write(text), Plain(text), FirstCount = View(schedule_idx).x,
           BlankFrom(View(schedule_idx).text, At(View(schedule_idx))),
           FirstCount + Len(text.bytes) + NUM_COLS * Newlines(text) <= NUM_COLS * NUM_ROWS
    PROVE  IsSuffix(Glyphs(text), Reading((View(schedule_idx)').text))
<1> DEFINE M == Marks(schedule_idx)
<1>1. /\ schedule_idx \in Terminals /\ terminal_num \in Terminals /\ Blank \in M
  BY VisibleIs, MarksHave DEF OthersWhole
<1>2. schedule_idx' = schedule_idx /\ terminal_num' = terminal_num /\ ~ fault
  BY DEF terminal_write, Operation
<1>3. page \in [Pages -> [Cells -> AllMarks]] /\ save_x \in [Terminals -> Columns]
      /\ save_y \in [Terminals -> 0 .. NUM_ROWS]
  BY DEF PictureInv, ScreensWhole
<1>4. CASE schedule_idx = terminal_num
  <2>1. PICK e, row : row = RowOfText(text) /\ e = [Visible EXCEPT !.row = row]
    OBVIOUS
  <2>2. e \in Consoles(M)
    BY <1>1, <1>4, <2>1, VisibleRow
  <2>3. /\ e.text = View(schedule_idx).text /\ e.x = View(schedule_idx).x
        /\ e.y = View(schedule_idx).y /\ ~ e.fault
    BY <1>2, <1>4, <2>1 DEF Visible, View
  <2>4. PICK d : d = PutBytes(TRUE, e, text.bytes, FirstCount)
    OBVIOUS
  <2>5. IsSuffix(Glyphs(text), Reading(Trailer(text, d).text))
    BY <1>1, <2>2, <2>3, <2>4, PlainOn
  <2>6. WriteVisible(text)
    BY <1>4 DEF terminal_write, InForeground
  <2>7. PICK c : c = Trailer(text, d)
    OBVIOUS
  <2>8. Shows(c)
    BY <2>1, <2>4, <2>6, <2>7 DEF WriteVisible
  <2>9. PICK shown : shown = c.text /\ page' = [page EXCEPT ![Video] = shown]
    BY <2>8 DEF Shows
  <2>10. page'[Video] = shown
    BY <1>3, <2>9, PagesApart
  <2>11. (View(schedule_idx)').text = shown
    BY <1>2, <1>4, <2>10 DEF View
  <2> QED
    BY <2>5, <2>7, <2>9, <2>11
<1>5. CASE schedule_idx # terminal_num
  <2>1. PICK e : e = Hidden(schedule_idx)
    OBVIOUS
  <2>2. e \in Consoles(M)
    BY <1>1, <1>5, <2>1, HiddenIs
  <2>3. /\ e.text = View(schedule_idx).text /\ e.x = View(schedule_idx).x
        /\ e.y = View(schedule_idx).y /\ ~ e.fault
    BY <1>2, <1>5, <2>1 DEF Hidden, View
  <2>4. PICK d : d = PutBytes(TRUE, e, text.bytes, FirstCount)
    OBVIOUS
  <2>5. IsSuffix(Glyphs(text), Reading(d.text))
    BY <1>1, <2>2, <2>3, <2>4, PlainOn
  <2>6. PICK hidden \in BOOLEAN, seen \in BOOLEAN : hidden = FALSE /\ seen = TRUE
    OBVIOUS
  <2>7. PICK c : c = PutBytes(hidden, e, text.bytes, FirstCount)
    OBVIOUS
  <2>8. Same(c, Written(text)) /\ Same(PutBytes(seen, e, text.bytes, FirstCount), Written(text))
    BY <1>1, <2>2, <2>3, <2>7, Alike DEF Plain
  <2>9. c.text = d.text
    BY <2>4, <2>6, <2>8 DEF Same
  <2>10. PICK shown, v, other :
            /\ shown = c.text /\ other = v.text
            /\ page' = [page EXCEPT ![PageOf(schedule_idx)] = shown, ![Video] = other]
    <3>1. WriteHidden(text)
      BY <1>5 DEF terminal_write, InForeground
    <3> QED
      BY <2>1, <2>6, <2>7, <3>1 DEF WriteHidden
  <2>11. page'[PageOf(schedule_idx)] = shown
    BY <1>1, <1>3, <2>10, PagesApart
  <2>12. (View(schedule_idx)').text = shown
    BY <1>2, <1>5, <2>11 DEF View
  <2> QED
    BY <2>5, <2>9, <2>10, <2>12
<1> QED
  BY <1>4, <1>5

\* A text written from the column that terminal_write counts from can be read on
\* the screen of its terminal, visible or not, over the ends of its rows and
\* through the newlines behind it, for every size of a screen
\* (terminal.c:127-179, lib.c:182-277).
THEOREM WritesShow == Spec => WriteIsReadable
<1>1. TextInv /\ [Next]_vars =>
      [\A text \in Texts[schedule_idx] :
          (/\ terminal_write(text) /\ Plain(text)
           /\ FirstCount = View(schedule_idx).x
           /\ BlankFrom(View(schedule_idx).text, At(View(schedule_idx)))
           /\ FirstCount + Len(text.bytes) + NUM_COLS * Newlines(text)
                <= NUM_COLS * NUM_ROWS) =>
             IsSuffix(Glyphs(text), Reading((View(schedule_idx)').text))]_vars
  BY ReadableStep DEF TextInv
<1> QED
  BY <1>1, TextInvariance, PTL DEF Spec, WriteIsReadable
=============================================================================
