--------------------------- MODULE LineDiscipline ---------------------------
(***************************************************************************)
(* What line input promises, without interrupts, masks or copying loops.   *)
(* The user looks at one terminal at a time and edits the line of that     *)
(* terminal; Enter makes the line ready; one read of a program on that     *)
(* terminal takes the line, whole up to the size it asked for, and the     *)
(* next line starts empty. Enter does not close the line: what is typed    *)
(* before the read takes it still belongs to it.                           *)
(***************************************************************************)
EXTENDS Integers, Sequences

CONSTANTS
    Terminals,
    Bytes,       \* what a key may put into a line
    Capacity,    \* bytes of a line
    ReadSizes    \* sizes a program may ask for

VARIABLES
    visible,     \* terminal the user looks at
    line,        \* bytes typed on each terminal and not yet read
    ready,       \* terminals on which Enter has been pressed since
    answer,      \* the last line that a program of each terminal has read
    strokes      \* characters and Enters typed so far

vars == <<visible, line, ready, answer, strokes>>

Init ==
    /\ visible \in Terminals
    /\ line = [t \in Terminals |-> <<>>]
    /\ ready = [t \in Terminals |-> FALSE]
    /\ answer = [t \in Terminals |-> <<>>]
    /\ strokes = 0

Look ==
    /\ visible' \in Terminals
    /\ UNCHANGED <<line, ready, answer, strokes>>

Type ==
    /\ Len(line[visible]) < Capacity
    /\ \E byte \in Bytes : line' = [line EXCEPT ![visible] = Append(@, byte)]
    /\ strokes' = strokes + 1
    /\ UNCHANGED <<visible, ready, answer>>

Erase ==
    /\ line[visible] # <<>>
    /\ line' = [line EXCEPT ![visible] = SubSeq(@, 1, Len(@) - 1)]
    /\ UNCHANGED <<visible, ready, answer, strokes>>

Enter ==
    /\ ready' = [ready EXCEPT ![visible] = TRUE]
    /\ strokes' = strokes + 1
    /\ UNCHANGED <<visible, line, answer>>

\* A read takes the bytes that fit beside the newline; the others are dropped.
Read(n) ==
    /\ ready[visible]
    /\ answer' = [answer EXCEPT ![visible] =
                    IF n - 1 < Len(line[visible])
                    THEN SubSeq(line[visible], 1, n - 1) ELSE line[visible]]
    /\ line' = [line EXCEPT ![visible] = <<>>]
    /\ ready' = [ready EXCEPT ![visible] = FALSE]
    /\ UNCHANGED <<visible, strokes>>

Next ==
    \/ Look
    \/ Type
    \/ Erase
    \/ Enter
    \/ \E n \in ReadSizes : Read(n)

Spec == Init /\ [][Next]_vars
=============================================================================
