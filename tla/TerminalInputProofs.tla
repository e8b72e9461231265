------------------------ MODULE TerminalInputProofs ------------------------
(***************************************************************************)
(* Theorems about TerminalInput, for every number of terminals, length of  *)
(* a line, sizes of reads and keys, whichever keys arrive during a read,   *)
(* unless a theorem says which.                                            *)
(***************************************************************************)
EXTENDS TerminalInput, SequenceTheorems, TLAPS

\* What a program may receive next is its own as well: the line that is being
\* typed and the copy that a read has made so far.
LinesOwned ==
    \A t \in Terminals : \A k \in Slots :
        keyboard_buffer[t][k] \in Chars => keyboard_buffer[t][k].on = t
CopiesOwned ==
    \A t \in Terminals : \A k \in 0 .. BUFFER_LIM - 1 :
        reader[t].buf[k] \in Chars => reader[t].buf[k].on = t
Owned == LinesOwned /\ CopiesOwned /\ OwnLinesOnly

-----------------------------------------------------------------------------
(* Types *)

\* The bytes that are not characters, and the locals of a fresh read.
LEMMA ByteTypes ==
    /\ Nul \notin Chars /\ Newline \notin Chars /\ Unwritten \notin Chars
    /\ {Nul, Newline, Unwritten} \subseteq Bytes
    /\ Idle \in Readers
    /\ \A n \in ReadSizes : [Idle EXCEPT !.at = "copy", !.n = n] \in Readers
<1>1. Nul \notin Chars /\ Newline \notin Chars /\ Unwritten \notin Chars
  BY InputConstants DEF Nul, Newline, Unwritten, Chars
<1>2. {Nul, Newline, Unwritten} \subseteq Bytes
  BY DEF Bytes
<1>3. 0 \in 0 .. BUFFER_LIM - 1
  BY InputConstants
<1>4. Idle \in Readers
  BY <1>2, <1>3 DEF Idle, Readers
<1>5. ASSUME NEW n \in ReadSizes PROVE [Idle EXCEPT !.at = "copy", !.n = n] \in Readers
  BY <1>4, <1>5 DEF Readers, CopyPoints
<1> QED
  BY <1>1, <1>2, <1>4, <1>5

\* A read never copies more characters than a line can hold.
LEMMA CopiedBound ==
    ASSUME NEW n \in ReadSizes \cup {0}
    PROVE  Copied(n) \in 0 .. BUFFER_LIM - 1
BY InputConstants DEF Copied

\* What a read returns is a sequence of bytes of its copy.
LEMMA TakenType ==
    ASSUME NEW r \in Readers
    PROVE  /\ Taken(r) \in Seq(Bytes)
           /\ \A k \in DOMAIN Taken(r) : \E j \in 0 .. BUFFER_LIM - 1 : Taken(r)[k] = r.buf[j]
<1> DEFINE n == IF r.saved_buffer_ct < Copied(r.n) THEN r.saved_buffer_ct ELSE Copied(r.n)
<1>1. Copied(r.n) \in 0 .. BUFFER_LIM - 1 /\ r.saved_buffer_ct \in 0 .. BUFFER_LIM - 1
  BY CopiedBound DEF Readers
<1>2. n \in 0 .. BUFFER_LIM - 1
  BY <1>1
<1>3. Taken(r) = [k \in 1 .. n |-> r.buf[k - 1]]
  BY DEF Taken
<1> HIDE DEF n
<1>4. \A k \in 1 .. n : k - 1 \in 0 .. BUFFER_LIM - 1
  BY <1>2, InputConstants
<1>5. r.buf \in [0 .. BUFFER_LIM - 1 -> Bytes]
  BY DEF Readers
<1>6. Taken(r) \in [1 .. n -> Bytes]
  BY <1>3, <1>4, <1>5
<1>7. n \in Nat
  BY <1>2, InputConstants
<1>8. Taken(r) \in Seq(Bytes)
  BY <1>6, <1>7, SeqDef
<1> QED
  BY <1>3, <1>4, <1>8

\* The initial state is well typed.
LEMMA InitTypes == Init => TypeOK
<1> SUFFICES ASSUME Init PROVE TypeOK
  OBVIOUS
<1>1. <<>> \in Seq(Bytes)
  OBVIOUS
<1>2. answer \in [Terminals -> Seq(Bytes)]
  BY <1>1 DEF Init
<1>3. reader \in [Terminals -> Readers]
  BY ByteTypes DEF Init
<1>4. keyboard_buffer \in [Terminals -> [Slots -> Chars \cup {Nul}]]
  BY DEF Init
<1>5. /\ 0 \in Terminals /\ 0 \in 0 .. BUFFER_LIM - 1 /\ 0 \in 0 .. STROKES
  BY InputConstants DEF Terminals
<1>6. buffer_ct \in [Terminals -> 0 .. BUFFER_LIM - 1]
  BY <1>5 DEF Init
<1>7. enter_read \in [Terminals -> BOOLEAN]
  BY DEF Init
<1> QED
  BY <1>2, <1>3, <1>4, <1>5, <1>6, <1>7 DEF Init, TypeOK

\* Every step keeps the types.
LEMMA NextTypes == ASSUME TypeOK, [Next]_vars PROVE TypeOK'
<1>1. CASE KeyChar
  <2>1. [key |-> strokes', on |-> terminal_num] \in Chars
    BY <1>1, InputConstants DEF KeyChar, Stroke, TypeOK, Chars
  <2>2. buffer_ct[terminal_num] \in Slots
    BY <1>1, InputConstants DEF KeyChar, Full, TypeOK, Slots
  <2>3. keyboard_buffer' \in [Terminals -> [Slots -> Chars \cup {Nul}]]
    BY <1>1, <2>1, <2>2 DEF KeyChar, TypeOK
  <2>4. buffer_ct' \in [Terminals -> 0 .. BUFFER_LIM - 1]
    BY <1>1, <2>2, InputConstants DEF KeyChar, TypeOK, Slots
  <2>5. strokes' \in 0 .. STROKES
    BY <1>1, InputConstants DEF KeyChar, Stroke, TypeOK
  <2> QED
    BY <1>1, <2>3, <2>4, <2>5 DEF KeyChar, TypeOK
<1>2. CASE KeyBackspace
  <2>1. buffer_ct' \in [Terminals -> 0 .. BUFFER_LIM - 1]
    BY <1>2, InputConstants DEF KeyBackspace, TypeOK
  <2>2. keyboard_buffer' \in [Terminals -> [Slots -> Chars \cup {Nul}]]
    BY <1>2 DEF KeyBackspace, TypeOK
  <2> QED
    BY <1>2, <2>1, <2>2 DEF KeyBackspace, TypeOK, keys
<1>3. CASE KeyEnter
  BY <1>3, InputConstants DEF KeyEnter, Stroke, TypeOK
<1>4. ASSUME NEW t \in Terminals, KeySwitch(t) PROVE TypeOK'
  BY <1>4 DEF KeySwitch, TypeOK, lines
<1>5. ASSUME NEW m \in Modifiers, KeyModifier(m) PROVE TypeOK'
  BY <1>5 DEF KeyModifier, TypeOK, lines
<1>6. CASE Pit
  <2>1. schedule_idx' \in Terminals
    BY <1>6, InputConstants DEF Pit, TypeOK, Terminals
  <2> QED
    BY <1>6, <2>1 DEF Pit, TypeOK, lines, keys
<1>7. ASSUME NEW t \in Terminals,
             ReadStdin(t) \/ ReadBadArgument(t) \/ ReadOther(t) \/ PollMasks(t) \/ PollFails(t)
      PROVE  TypeOK'
  <2>1. \A point \in {"wait", "test"} : GoTo(t, point) => reader' \in [Terminals -> Readers]
    <3>1. ASSUME NEW point \in {"wait", "test"}, GoTo(t, point)
          PROVE  reader' \in [Terminals -> Readers]
      <4>1. [reader[t] EXCEPT !.at = point] \in Readers
        BY DEF TypeOK, Readers
      <4> QED
        BY <3>1, <4>1 DEF GoTo, TypeOK
    <3> QED
      BY <3>1
  <2>2. irq0_masked' \in BOOLEAN /\ reader' \in [Terminals -> Readers]
    BY <1>7, <2>1 DEF ReadStdin, ReadBadArgument, ReadOther, PollMasks, PollFails,
                      MaskBeforeTest, MaskAfterTest, TypeOK
  <2>3. UNCHANGED <<lines, keys, schedule_idx, answer>>
    BY <1>7 DEF ReadStdin, ReadBadArgument, ReadOther, PollMasks, PollFails
  <2> QED
    BY <2>2, <2>3 DEF TypeOK, lines, keys
<1>8. ASSUME NEW t \in Terminals,
             PollSucceeds(t) \/ CopyChar(t) \/ CopyNewline(t) \/ SaveCount(t) \/ EndExitLine(t)
      PROVE  TypeOK'
  <2>1. reader[t] \in Readers /\ reader[t].n \in ReadSizes \cup {0}
    BY DEF TypeOK, Readers
  <2>2. CASE PollSucceeds(t)
    BY <2>2, ByteTypes DEF PollSucceeds, TypeOK, lines, keys
  <2>3. CASE CopyChar(t)
    <3>1. reader[t].i \in Slots /\ reader[t].i + 1 \in 0 .. BUFFER_LIM - 1
      BY <2>1, <2>3, CopiedBound, InputConstants DEF CopyChar, Readers, Slots
    <3>2. CopiedLine(t)[reader[t].i] \in Bytes
      BY <3>1 DEF CopiedLine, TypeOK, Bytes
    <3>3. reader' \in [Terminals -> Readers]
      BY <2>1, <2>3, <3>1, <3>2 DEF CopyChar, TypeOK, Readers
    <3> QED
      BY <2>3, <3>3 DEF CopyChar, TypeOK, lines, keys
  <2>4. CASE CopyNewline(t)
    <3>1. [reader[t].buf EXCEPT ![buffer_ct[t]] = Newline] \in [0 .. BUFFER_LIM - 1 -> Bytes]
      BY <2>1, ByteTypes DEF Readers
    <3> DEFINE line == [reader[t].buf EXCEPT ![buffer_ct[t]] = Newline]
    <3>2. reader' = [reader EXCEPT ![t] = [@ EXCEPT !.buf = line, !.at = "count"]]
      BY <2>1, <2>4 DEF CopyNewline, TypeOK, Readers
    <3> HIDE DEF line
    <3>3. [reader[t] EXCEPT !.buf = line, !.at = "count"] \in Readers
      BY <2>1, <3>1 DEF Readers, CopyPoints, line
    <3>4. reader' \in [Terminals -> Readers]
      BY <3>2, <3>3 DEF TypeOK
    <3> QED
      BY <2>4, <3>4 DEF CopyNewline, TypeOK, lines, keys
  <2>5. CASE SaveCount(t)
    <3>1. reader' \in [Terminals -> Readers]
      BY <2>1, <2>5 DEF SaveCount, TypeOK, Readers, CopyPoints
    <3> QED
      BY <2>5, <3>1 DEF SaveCount, TypeOK, lines, keys
  <2>6. CASE EndExitLine(t)
    <3> DEFINE Ended(zero) == [k \in DOMAIN reader[t].buf |->
                                 IF k \in zero THEN Nul ELSE reader[t].buf[k]]
    <3>1. PICK zero : reader' = [reader EXCEPT ![t].buf = Ended(zero), ![t].i = 0,
                                               ![t].at = "clear"]
      BY <2>6 DEF EndExitLine
    <3>2. Ended(zero) \in [0 .. BUFFER_LIM - 1 -> Bytes]
      BY <2>1, ByteTypes DEF Readers
    <3>3. 0 \in 0 .. BUFFER_LIM - 1
      BY InputConstants
    <3> HIDE DEF Ended
    <3>4. [reader[t] EXCEPT !.buf = Ended(zero), !.i = 0, !.at = "clear"] \in Readers
      BY <2>1, <3>2, <3>3 DEF Readers, CopyPoints
    <3>5. reader' \in [Terminals -> Readers]
      BY <3>1, <3>4 DEF TypeOK
    <3> QED
      BY <2>6, <3>5 DEF EndExitLine, TypeOK, lines, keys
  <2> QED
    BY <1>8, <2>2, <2>3, <2>4, <2>5, <2>6
<1>9. ASSUME NEW t \in Terminals, ClearSlot(t) \/ ClearCount(t) PROVE TypeOK'
  <2>1. CASE ClearSlot(t)
    <3>1. reader[t].i + 1 \in 0 .. BUFFER_LIM - 1
      <4>1. reader[t].i \in 0 .. BUFFER_LIM - 1
        BY DEF TypeOK, Readers
      <4>2. reader[t].i < BUFFER_LIM - 1
        BY <2>1 DEF ClearSlot, SlotsToClear
      <4> QED
        BY <4>1, <4>2, InputConstants
    <3>2. reader' \in [Terminals -> Readers]
      BY <2>1, <3>1 DEF ClearSlot, TypeOK, Readers
    <3>3. keyboard_buffer' \in [Terminals -> [Slots -> Chars \cup {Nul}]]
      BY <2>1 DEF ClearSlot, TypeOK
    <3> QED
      BY <2>1, <3>2, <3>3 DEF ClearSlot, TypeOK, keys
  <2>2. CASE ClearCount(t)
    <3>1. reader' \in [Terminals -> Readers]
      <4>1. [reader[t] EXCEPT !.at = "flag"] \in Readers
        BY DEF TypeOK, Readers, CopyPoints
      <4> QED
        BY <2>2, <4>1 DEF ClearCount, GoTo, TypeOK
    <3>2. buffer_ct' \in [Terminals -> 0 .. BUFFER_LIM - 1]
      BY <2>2, InputConstants DEF ClearCount, TypeOK
    <3> QED
      BY <2>2, <3>1, <3>2 DEF ClearCount, TypeOK, keys
  <2> QED
    BY <1>9, <2>1, <2>2
<1>10. ASSUME NEW t \in Terminals, ReadReturns(t) PROVE TypeOK'
  <2>1. Taken(reader[t]) \in Seq(Bytes)
    BY TakenType DEF TypeOK
  <2> QED
    BY <1>10, <2>1, ByteTypes DEF ReadReturns, EnterAfterRead, TypeOK, keys
<1>11. CASE UNCHANGED vars
  BY <1>11 DEF vars, lines, keys, TypeOK
<1> QED
  BY <1>1, <1>2, <1>3, <1>4, <1>5, <1>6, <1>7, <1>8, <1>9, <1>10, <1>11
  DEF Next, Keyboard, ReadStep

\* Every index that the keyboard and the readers use stays inside the buffers.
THEOREM InputTypes == Spec => []TypeOK
BY InitTypes, NextTypes, PTL DEF Spec

-----------------------------------------------------------------------------
(* The turn of a reader *)

\* A program gets past its test only by masking the timer, and whoever unmasks
\* it leaves that part of the code: every step keeps the turn of the reader.
LEMMA NextKeepsTurn ==
    ASSUME TypeOK, ReaderKeepsTurn, [Next]_vars
    PROVE  ReaderKeepsTurn'
<1>1. CASE Keyboard
  BY <1>1 DEF Keyboard, KeyChar, KeyBackspace, KeyEnter, KeySwitch, KeyModifier, ReaderKeepsTurn,
              lines, keys
<1>2. CASE Pit
  BY <1>2 DEF Pit, ReaderKeepsTurn
<1>3. ASSUME NEW t \in Terminals, ReadStdin(t) \/ PollMasks(t) PROVE ReaderKeepsTurn'
  <2>1. /\ t = schedule_idx /\ irq0_masked' = TRUE /\ schedule_idx' = schedule_idx
        /\ \A u \in Terminals : u # t => reader'[u] = reader[u]
    BY <1>3 DEF ReadStdin, PollMasks, At, GoTo, MaskBeforeTest, TypeOK
  <2> QED
    BY <2>1 DEF ReaderKeepsTurn
<1>4. ASSUME NEW t \in Terminals, ReadBadArgument(t) \/ ReadOther(t) PROVE ReaderKeepsTurn'
  <2>1. /\ t = schedule_idx /\ reader[t].at = "user"
        /\ schedule_idx' = schedule_idx /\ reader' = reader
    BY <1>4 DEF ReadBadArgument, ReadOther, At
  <2> QED
    BY <2>1 DEF ReaderKeepsTurn, CopyPoints
<1>5. ASSUME NEW t \in Terminals,
             PollSucceeds(t) \/ CopyChar(t) \/ CopyNewline(t) \/ SaveCount(t) \/ EndExitLine(t)
               \/ ClearSlot(t) \/ ClearCount(t)
      PROVE  ReaderKeepsTurn'
  <2>1. /\ t = schedule_idx /\ reader[t].at \in CopyPoints \cup {"test"}
        /\ schedule_idx' = schedule_idx /\ irq0_masked' = irq0_masked
        /\ \A u \in Terminals : u # t => reader'[u] = reader[u]
    BY <1>5 DEF PollSucceeds, CopyChar, CopyNewline, SaveCount, EndExitLine, ClearSlot, ClearCount,
                At, GoTo, CopyPoints, TypeOK
  <2> QED
    BY <2>1 DEF ReaderKeepsTurn
<1>6. ASSUME NEW t \in Terminals, PollFails(t) \/ ReadReturns(t) PROVE ReaderKeepsTurn'
  <2>1. /\ t = schedule_idx
        /\ \A u \in Terminals : u # t => reader'[u] = reader[u]
        /\ reader'[t].at \in {"user", "wait"}
    BY <1>6 DEF PollFails, ReadReturns, At, GoTo, Idle, TypeOK, Readers
  <2> QED
    BY <2>1 DEF ReaderKeepsTurn, CopyPoints
<1>7. CASE UNCHANGED vars
  BY <1>7 DEF vars, ReaderKeepsTurn
<1> QED
  BY <1>1, <1>2, <1>3, <1>4, <1>5, <1>6, <1>7 DEF Next, ReadStep

\* The turn never passes while a program reads its line, whatever keys arrive.
THEOREM TurnKept == Spec => []ReaderKeepsTurn
<1>1. Init => ReaderKeepsTurn
  BY DEF Init, ReaderKeepsTurn, Idle, CopyPoints
<1>2. TypeOK /\ ReaderKeepsTurn /\ [Next]_vars => ReaderKeepsTurn'
  BY NextKeepsTurn
<1> QED
  BY <1>1, <1>2, InputTypes, PTL DEF Spec

-----------------------------------------------------------------------------
(* Whose characters a program receives *)

\* Keys go into the line of the terminal the user looks at.
LEMMA KeyboardOwned == ASSUME TypeOK, Owned, Keyboard PROVE Owned'
<1>1. UNCHANGED <<reader, answer>>
  BY DEF Keyboard, KeyChar, KeyBackspace, KeyEnter, KeySwitch, KeyModifier
<1>2. CopiesOwned' /\ OwnLinesOnly'
  BY <1>1 DEF Owned, CopiesOwned, OwnLinesOnly
<1>3. ASSUME NEW k, NEW byte, byte \in Chars => byte.on = terminal_num,
             keyboard_buffer' = [keyboard_buffer EXCEPT ![terminal_num][k] = byte]
      PROVE  LinesOwned'
  BY <1>3 DEF Owned, LinesOwned, TypeOK
<1>4. ASSUME KeyChar PROVE LinesOwned'
  <2> DEFINE char == [key |-> strokes', on |-> terminal_num]
  <2>1. char.on = terminal_num
    OBVIOUS
  <2>2. keyboard_buffer' =
            [keyboard_buffer EXCEPT ![terminal_num][buffer_ct[terminal_num]] = char]
    BY <1>4 DEF KeyChar
  <2> HIDE DEF char
  <2> QED
    BY <1>3, <2>1, <2>2
<1>5. ASSUME KeyBackspace PROVE LinesOwned'
  <2>1. keyboard_buffer' =
            [keyboard_buffer EXCEPT ![terminal_num][buffer_ct'[terminal_num]] = Nul]
    BY <1>5 DEF KeyBackspace
  <2> QED
    BY <1>3, <2>1, ByteTypes
<1>6. ASSUME UNCHANGED keyboard_buffer PROVE LinesOwned'
  BY <1>6 DEF Owned, LinesOwned
<1>7. LinesOwned'
  BY <1>4, <1>5, <1>6 DEF Keyboard, KeyEnter, KeySwitch, KeyModifier, lines
<1> QED
  BY <1>2, <1>7 DEF Owned

\* The copy of a read is made from the line of the reader's own terminal.
LEMMA CopyOwned ==
    ASSUME TypeOK, Owned, NEW t \in Terminals,
           PollSucceeds(t) \/ CopyChar(t) \/ CopyNewline(t) \/ SaveCount(t) \/ EndExitLine(t)
    PROVE  Owned'
<1>1. UNCHANGED <<keyboard_buffer, answer>>
  BY DEF PollSucceeds, CopyChar, CopyNewline, SaveCount, EndExitLine, lines
<1>2. LinesOwned' /\ OwnLinesOnly'
  BY <1>1 DEF Owned, LinesOwned, OwnLinesOnly
<1>3. /\ \A u \in Terminals \ {t} : reader'[u] = reader[u]
  BY DEF PollSucceeds, CopyChar, CopyNewline, SaveCount, EndExitLine, TypeOK
<1>4. ASSUME NEW k \in 0 .. BUFFER_LIM - 1, reader'[t].buf[k] \in Chars
      PROVE  reader'[t].buf[k].on = t
  <2>1. reader[t] \in Readers
    BY DEF TypeOK
  <2>2. reader[t].buf[k] \in Chars => reader[t].buf[k].on = t
    BY DEF Owned, CopiesOwned
  <2>3. CASE PollSucceeds(t)
    <3>1. reader'[t].buf = Idle.buf
      BY <2>3 DEF PollSucceeds, Idle, TypeOK
    <3>2. Idle.buf[k] = Unwritten
      BY DEF Idle
    <3> QED
      BY <1>4, <3>1, <3>2, ByteTypes
  <2>4. CASE CopyChar(t)
    <3>1. reader[t].i \in Slots
      BY <2>1, <2>4, CopiedBound, InputConstants DEF CopyChar, Readers, Slots
    <3>2. reader'[t].buf = [reader[t].buf EXCEPT ![reader[t].i] = keyboard_buffer[t][reader[t].i]]
      BY <2>1, <2>4 DEF CopyChar, CopiedLine, TypeOK
    <3>3. keyboard_buffer[t][reader[t].i] \in Chars => keyboard_buffer[t][reader[t].i].on = t
      BY <3>1 DEF Owned, LinesOwned
    <3> QED
      BY <1>4, <2>1, <2>2, <3>2, <3>3 DEF Readers
  <2>5. CASE CopyNewline(t)
    <3>1. reader'[t].buf = [reader[t].buf EXCEPT ![buffer_ct[t]] = Newline]
      BY <2>1, <2>5 DEF CopyNewline, TypeOK
    <3> QED
      BY <1>4, <2>1, <2>2, <3>1, ByteTypes DEF Readers
  <2>6. CASE SaveCount(t)
    <3>1. reader'[t].buf = reader[t].buf
      BY <2>1, <2>6 DEF SaveCount, TypeOK
    <3> QED
      BY <1>4, <2>2, <3>1
  <2>7. CASE EndExitLine(t)
    <3> DEFINE Ended(zero) == [j \in DOMAIN reader[t].buf |->
                                 IF j \in zero THEN Nul ELSE reader[t].buf[j]]
    <3>3. PICK zero : reader' = [reader EXCEPT ![t].buf = Ended(zero), ![t].i = 0,
                                               ![t].at = "clear"]
      BY <2>7 DEF EndExitLine
    <3> HIDE DEF Ended
    <3>4. reader'[t].buf = Ended(zero)
      BY <2>1, <3>3 DEF TypeOK, Readers
    <3>1. reader'[t].buf = [j \in DOMAIN reader[t].buf |->
                              IF j \in zero THEN Nul ELSE reader[t].buf[j]]
      BY <3>4 DEF Ended
    <3>2. k \in DOMAIN reader[t].buf
      BY <2>1 DEF Readers
    <3> QED
      BY <1>4, <2>2, <3>1, <3>2, ByteTypes
  <2> QED
    BY <2>3, <2>4, <2>5, <2>6, <2>7
<1>5. CopiesOwned'
  BY <1>3, <1>4 DEF Owned, CopiesOwned
<1> QED
  BY <1>2, <1>5 DEF Owned

\* A flow that moves on changes nothing in its copy.
LEMMA OtherFieldsKept ==
    ASSUME TypeOK, NEW t \in Terminals, NEW point, GoTo(t, point)
    PROVE  \A u \in Terminals : reader'[u].buf = reader[u].buf
<1>1. reader \in [Terminals -> Readers]
  BY DEF TypeOK
<1>2. reader'[t] = [reader[t] EXCEPT !.at = point]
  BY <1>1 DEF GoTo
<1>3. reader'[t].buf = reader[t].buf
  BY <1>1, <1>2 DEF Readers
<1>4. \A u \in Terminals \ {t} : reader'[u] = reader[u]
  BY <1>1 DEF GoTo
<1> QED
  BY <1>3, <1>4

\* Clearing only puts zeroes, whichever terminal it happens to clear.
LEMMA ClearOwned ==
    ASSUME TypeOK, Owned, NEW t \in Terminals, ClearSlot(t) \/ ClearCount(t)
    PROVE  Owned'
<1>1. answer' = answer /\ \A u \in Terminals : reader'[u].buf = reader[u].buf
  <2>1. CASE ClearSlot(t)
    BY <2>1 DEF ClearSlot, TypeOK, Readers
  <2>2. CASE ClearCount(t)
    BY <2>2, OtherFieldsKept DEF ClearCount
  <2> QED
    BY <2>1, <2>2
<1>2. \A u \in Terminals : \A k \in Slots :
        keyboard_buffer'[u][k] = keyboard_buffer[u][k] \/ keyboard_buffer'[u][k] = Nul
  <2>1. CASE ClearSlot(t)
    BY <2>1 DEF ClearSlot, TypeOK
  <2>2. CASE ClearCount(t)
    BY <2>2 DEF ClearCount
  <2> QED
    BY <2>1, <2>2
<1> QED
  BY <1>1, <1>2, ByteTypes DEF Owned, LinesOwned, CopiesOwned, OwnLinesOnly

\* A read returns bytes of its copy.
LEMMA ReturnOwned ==
    ASSUME TypeOK, Owned, NEW t \in Terminals, ReadReturns(t)
    PROVE  Owned'
<1>1. /\ keyboard_buffer' = keyboard_buffer
      /\ answer' = [answer EXCEPT ![t] = Taken(reader[t])]
      /\ reader' = [reader EXCEPT ![t] = Idle]
  BY DEF ReadReturns
<1>2. LinesOwned'
  BY <1>1 DEF Owned, LinesOwned
<1>3. \A k \in 0 .. BUFFER_LIM - 1 : Idle.buf[k] = Unwritten
  BY DEF Idle
<1>4. CopiesOwned'
  BY <1>1, <1>3, ByteTypes DEF Owned, CopiesOwned, TypeOK
<1>5. \A k \in DOMAIN Taken(reader[t]) :
        Taken(reader[t])[k] \in Chars => Taken(reader[t])[k].on = t
  <2>1. reader[t] \in Readers
    BY DEF TypeOK
  <2>2. \A k \in DOMAIN Taken(reader[t]) :
            \E j \in 0 .. BUFFER_LIM - 1 : Taken(reader[t])[k] = reader[t].buf[j]
    BY <2>1, TakenType
  <2> QED
    BY <2>2 DEF Owned, CopiesOwned
<1>6. OwnLinesOnly'
  BY <1>1, <1>5 DEF Owned, OwnLinesOnly, TypeOK
<1> QED
  BY <1>2, <1>4, <1>6 DEF Owned

\* No step puts a character of one terminal into the hands of another.
LEMMA NextOwned == ASSUME TypeOK, Owned, [Next]_vars PROVE Owned'
<1>1. ASSUME UNCHANGED <<keyboard_buffer, answer>>,
             \A t \in Terminals : reader'[t].buf = reader[t].buf
      PROVE  Owned'
  BY <1>1 DEF Owned, LinesOwned, CopiesOwned, OwnLinesOnly
<1>2. ASSUME NEW t \in Terminals,
             ReadStdin(t) \/ ReadBadArgument(t) \/ ReadOther(t) \/ PollMasks(t) \/ PollFails(t)
      PROVE  Owned'
  <2>1. UNCHANGED <<keyboard_buffer, answer>>
    BY <1>2 DEF ReadStdin, ReadBadArgument, ReadOther, PollMasks, PollFails, lines
  <2>2. \A u \in Terminals : reader'[u].buf = reader[u].buf
    BY <1>2, OtherFieldsKept DEF ReadStdin, ReadBadArgument, ReadOther, PollMasks, PollFails
  <2> QED
    BY <1>1, <2>1, <2>2
<1>3. CASE Pit
  BY <1>1, <1>3 DEF Pit, lines
<1>4. CASE UNCHANGED vars
  BY <1>1, <1>4 DEF vars, lines
<1> QED
  BY <1>2, <1>3, <1>4, KeyboardOwned, CopyOwned, ClearOwned, ReturnOwned DEF Next, ReadStep

\* Whatever keys arrive during a read, a program receives no character that was
\* typed on another terminal.
THEOREM OwnLines == Spec => []OwnLinesOnly
<1>1. Init => Owned
  <2> SUFFICES ASSUME Init PROVE Owned
    OBVIOUS
  <2>1. \A k \in 0 .. BUFFER_LIM - 1 : Idle.buf[k] = Unwritten
    BY DEF Idle
  <2>2. LinesOwned
    BY ByteTypes DEF Init, LinesOwned
  <2>3. CopiesOwned
    BY <2>1, ByteTypes DEF Init, CopiesOwned
  <2>4. \A t \in Terminals : DOMAIN answer[t] = {}
    BY DEF Init
  <2> QED
    BY <2>2, <2>3, <2>4 DEF Owned, OwnLinesOnly
<1>2. TypeOK /\ Owned /\ [Next]_vars => Owned'
  BY NextOwned
<1>3. Owned => OwnLinesOnly
  BY DEF Owned
<1> QED
  BY <1>1, <1>2, <1>3, InputTypes, PTL DEF Spec
-----------------------------------------------------------------------------
(* Nothing behind the end of a line, when no key types or switches the view  *)
(* in the microseconds of a copy.                                            *)

\* The tail is empty at any moment, and a read that clears the line has made
\* room up to its counter.
ZeroTail == \A t \in Terminals : \A k \in Slots :
               k >= buffer_ct[t] => keyboard_buffer[t][k] = Nul
ClearedSoFar == \A t \in Terminals : reader[t].at = "clear" =>
                   \A k \in Slots : k < reader[t].i => keyboard_buffer[terminal_num][k] = Nul
TailInv == ZeroTail /\ ClearedSoFar

\* Keys edit the end of the line, and only outside a read.
LEMMA KeyboardTail ==
    ASSUME KeysInRead \cap {"char", "switch"} = {}, TypeOK, ReaderKeepsTurn, TailInv, Keyboard
    PROVE  TailInv'
<1>1. CASE KeyChar
  <2>1. ~Copying(schedule_idx) /\ reader' = reader
    BY <1>1 DEF KeyChar, Arrives
  <2>2. \A t \in Terminals : reader[t].at # "clear"
    BY <2>1 DEF ReaderKeepsTurn, Copying, CopyPoints
  <2>3. ZeroTail'
    BY <1>1, InputConstants DEF KeyChar, TailInv, ZeroTail, TypeOK, Slots
  <2> QED
    BY <2>1, <2>2, <2>3 DEF TailInv, ClearedSoFar
<1>2. CASE KeyBackspace
  <2>1. reader' = reader /\ terminal_num' = terminal_num
    BY <1>2 DEF KeyBackspace, keys
  <2>2. \A t \in Terminals : \A k \in Slots :
            keyboard_buffer'[t][k] \in {keyboard_buffer[t][k], Nul}
    BY <1>2 DEF KeyBackspace, TypeOK
  <2>3. terminal_num \in Terminals
    BY DEF TypeOK
  <2>4. ZeroTail'
    BY <1>2, InputConstants DEF KeyBackspace, TailInv, ZeroTail, TypeOK, Slots
  <2> QED
    BY <2>1, <2>2, <2>3, <2>4 DEF TailInv, ClearedSoFar
<1>3. ASSUME UNCHANGED <<keyboard_buffer, buffer_ct, terminal_num, reader>> PROVE TailInv'
  BY <1>3 DEF TailInv, ZeroTail, ClearedSoFar
<1>4. ASSUME NEW u \in Terminals, KeySwitch(u) PROVE TailInv'
  <2>1. \A t \in Terminals : reader[t].at # "clear"
    BY <1>4 DEF KeySwitch, Arrives, ReaderKeepsTurn, Copying, CopyPoints
  <2> QED
    BY <1>4, <2>1 DEF KeySwitch, lines, TailInv, ZeroTail, ClearedSoFar
<1> QED
  BY <1>1, <1>2, <1>3, <1>4 DEF Keyboard, KeyEnter, KeyModifier, lines

\* clear_buffer erases from the front and sets the count when it has erased all.
LEMMA ReadTail ==
    ASSUME TypeOK, ReaderKeepsTurn, TailInv, NEW t \in Terminals, ReadStep(t)
    PROVE  TailInv'
<1>1. terminal_num' = terminal_num /\ terminal_num \in Terminals
  BY DEF ReadStep, PollMasks, PollFails, PollSucceeds, CopyChar, CopyNewline, SaveCount,
         EndExitLine, ClearSlot, ClearCount, ReadReturns, keys, TypeOK
<1>2. \A u \in Terminals \ {t} : reader'[u] = reader[u] /\ reader[u].at # "clear"
  <2>1. \A u \in Terminals \ {t} : reader[u].at # "clear"
    BY DEF ReadStep, PollMasks, PollFails, PollSucceeds, CopyChar, CopyNewline, SaveCount,
           EndExitLine, ClearSlot, ClearCount, ReadReturns, At, ReaderKeepsTurn, CopyPoints
  <2>2. \A u \in Terminals \ {t} : reader'[u] = reader[u]
    BY DEF ReadStep, PollMasks, PollFails, PollSucceeds, CopyChar, CopyNewline, SaveCount,
           EndExitLine, ClearSlot, ClearCount, ReadReturns, GoTo, TypeOK
  <2> QED
    BY <2>1, <2>2
<1>3. CASE ClearSlot(t)
  <2>1. /\ reader'[t].at = "clear" /\ reader[t].at = "clear"
        /\ reader'[t].i = reader[t].i + 1 /\ reader[t].i \in 0 .. BUFFER_LIM - 1
    BY <1>3 DEF ClearSlot, At, TypeOK, Readers
  <2>2. \A u \in Terminals : \A k \in Slots :
            keyboard_buffer'[u][k] = IF u = terminal_num /\ k = reader[t].i THEN Nul
                                     ELSE keyboard_buffer[u][k]
    BY <1>3 DEF ClearSlot, TypeOK
  <2>3. \A k \in Slots : k < reader'[t].i => k = reader[t].i \/ k < reader[t].i
    BY <2>1 DEF Slots
  <2>4. ZeroTail'
    BY <1>3, <2>2 DEF ClearSlot, TailInv, ZeroTail
  <2>5. ClearedSoFar'
    BY <1>1, <1>2, <2>1, <2>2, <2>3 DEF TailInv, ClearedSoFar
  <2> QED
    BY <2>4, <2>5 DEF TailInv
<1>4. CASE ClearCount(t)
  <2>1. reader[t].at = "clear" /\ reader[t].i = BUFFER_LIM - 1 /\ keyboard_buffer' = keyboard_buffer
    BY <1>4 DEF ClearCount, At, SlotsToClear
  <2>2. reader'[t].at = "flag"
    BY <1>4 DEF ClearCount, GoTo, TypeOK
  <2>3. \A k \in Slots : keyboard_buffer[terminal_num][k] = Nul
    BY <2>1, InputConstants DEF TailInv, ClearedSoFar, Slots
  <2>4. \A u \in Terminals : u # terminal_num => buffer_ct'[u] = buffer_ct[u]
    BY <1>4 DEF ClearCount, TypeOK
  <2>5. ZeroTail'
    BY <2>1, <2>3, <2>4 DEF TailInv, ZeroTail
  <2>6. ClearedSoFar'
    BY <1>2, <2>2 DEF ClearedSoFar
  <2> QED
    BY <2>5, <2>6 DEF TailInv
<1>5. CASE ~ClearSlot(t) /\ ~ClearCount(t)
  <2>1. UNCHANGED <<keyboard_buffer, buffer_ct>>
    BY <1>5 DEF ReadStep, PollMasks, PollFails, PollSucceeds, CopyChar, CopyNewline, SaveCount,
                EndExitLine, ReadReturns, lines
  <2>2. reader'[t].at = "clear" => reader'[t].i = 0
    <3>0. reader \in [Terminals -> Readers] /\ t \in DOMAIN reader
      BY DEF TypeOK
    <3>1. CASE EndExitLine(t)
      <4>1. PICK b : reader' = [reader EXCEPT ![t].buf = b, ![t].i = 0, ![t].at = "clear"]
        BY <3>1 DEF EndExitLine
      <4>2. reader'[t].i = 0
        BY <3>0, <4>1 DEF Readers
      <4> QED
        BY <4>2
    <3>2. CASE PollSucceeds(t)
      BY <3>0, <3>2 DEF PollSucceeds, Idle, Readers
    <3>3. CASE PollMasks(t) \/ PollFails(t) \/ ReadReturns(t)
      BY <3>0, <3>3 DEF PollMasks, PollFails, ReadReturns, GoTo, Idle, Readers
    <3>4. CASE CopyChar(t)
      <4>1. reader[t].at = "copy" /\ reader'[t].at = reader[t].at
        BY <3>0, <3>4 DEF CopyChar, At, Readers
      <4> QED
        BY <4>1
    <3>5. CASE CopyNewline(t) \/ SaveCount(t)
      <4>1. reader'[t].at = "count" \/ reader'[t].at = "exit"
        BY <3>0, <3>5 DEF CopyNewline, SaveCount, Readers
      <4> QED
        BY <4>1
    <3> QED
      BY <1>5, <3>1, <3>2, <3>3, <3>4, <3>5 DEF ReadStep
  <2>3. \A k \in Slots : ~(k < 0)
    BY DEF Slots
  <2>4. ClearedSoFar'
    BY <1>2, <2>2, <2>3 DEF ClearedSoFar
  <2> QED
    BY <2>1, <2>4 DEF TailInv, ZeroTail
<1> QED
  BY <1>3, <1>4, <1>5

\* No step of the system leaves anything behind the end of a line.
LEMMA NextTail ==
    ASSUME KeysInRead \cap {"char", "switch"} = {}, TypeOK, ReaderKeepsTurn, TailInv,
           [Next]_vars
    PROVE  TailInv'
<1>1. ASSUME NEW t \in Terminals, ReadStdin(t) \/ ReadBadArgument(t) \/ ReadOther(t)
      PROVE  TailInv'
  <2>1. UNCHANGED <<keyboard_buffer, buffer_ct, terminal_num>>
    BY <1>1 DEF ReadStdin, ReadBadArgument, ReadOther, lines, keys
  <2>2. reader \in [Terminals -> Readers]
    BY DEF TypeOK
  <2>3. CASE ReadStdin(t)
    <3>1. reader' = [reader EXCEPT ![t].at = "test"]
      BY <2>3 DEF ReadStdin, GoTo
    <3>2. reader'[t].at = "test" /\ \A u \in Terminals \ {t} : reader'[u] = reader[u]
      BY <2>2, <3>1 DEF Readers
    <3> QED
      BY <2>1, <3>2 DEF TailInv, ZeroTail, ClearedSoFar
  <2>4. CASE reader' = reader
    BY <2>1, <2>4 DEF TailInv, ZeroTail, ClearedSoFar
  <2> QED
    BY <1>1, <2>3, <2>4 DEF ReadBadArgument, ReadOther
<1>2. ASSUME UNCHANGED <<lines, keys, reader>> PROVE TailInv'
  BY <1>2 DEF lines, keys, TailInv, ZeroTail, ClearedSoFar
<1> QED
  BY <1>1, <1>2, KeyboardTail, ReadTail DEF Next, Pit, vars

\* As long as no key types or switches the view inside a copy, a read leaves
\* nothing behind the end of a line, whatever the sizes (keyboard.c:520-525).
THEOREM TailStaysEmpty ==
    ASSUME KeysInRead \cap {"char", "switch"} = {} PROVE Spec => []TailIsEmpty
<1>1. Init => TailInv
  BY DEF Init, Idle, TailInv, ZeroTail, ClearedSoFar
<1>2. TypeOK /\ ReaderKeepsTurn /\ TailInv /\ [Next]_vars => TailInv'
  BY NextTail
<1>3. TailInv => TailIsEmpty
  BY DEF TailInv, ZeroTail, TailIsEmpty
<1> QED
  BY <1>1, <1>2, <1>3, InputTypes, TurnKept, PTL DEF Spec

-----------------------------------------------------------------------------
(* One line per terminal that goes to one read: LineDiscipline, when of the  *)
(* keys only modifiers arrive in the microseconds of a copy.                 *)

\* A program that copies has its own terminal in sight, with Enter pressed; what
\* it has copied of the line is the line still, and the counts are right when
\* they are used.
CopyRight(t) ==
    /\ reader[t].at \in CopyPoints =>
         terminal_num = t /\ enter_read[t] /\ reader[t].n \in ReadSizes
    /\ reader[t].at = "copy" => reader[t].i <= Copied(reader[t].n)
    /\ reader[t].at \in {"count", "exit"} => reader[t].i = Copied(reader[t].n)
    /\ reader[t].at \in {"copy", "count", "exit"} =>
         \A k \in Slots : k < reader[t].i /\ k < buffer_ct[t] =>
             reader[t].buf[k] = keyboard_buffer[t][k]
    /\ reader[t].at = "exit" => reader[t].saved_buffer_ct = buffer_ct[t]
    /\ reader[t].at = "flag" => buffer_ct[t] = 0
CopyInv == \A t \in Terminals : CopyRight(t)

\* What the theorem's steps have in hand.
LineInv == TypeOK /\ ReaderKeepsTurn /\ CopyInv

\* A reader whose line, place and flag stay as they are remains right.
LEMMA CopyStays ==
    ASSUME NEW t \in Terminals, CopyRight(t), reader'[t] = reader[t],
           reader[t].at \notin CopyPoints
             \/ UNCHANGED <<terminal_num, enter_read, buffer_ct, keyboard_buffer>>
    PROVE  CopyRight(t)'
BY DEF CopyRight, CopyPoints

\* Only the program whose turn it is copies.
LEMMA OneCopies ==
    ASSUME LineInv, NEW t \in Terminals, reader[t].at \in CopyPoints
    PROVE  t = schedule_idx /\ Copying(schedule_idx) /\ terminal_num = t /\ enter_read[t]
BY DEF LineInv, ReaderKeepsTurn, CopyInv, CopyRight, Copying

\* While keys other than modifiers arrive, nobody copies.
LEMMA KeysWait ==
    ASSUME KeysInRead \subseteq {"modifier"}, LineInv,
           KeyChar \/ KeyBackspace \/ KeyEnter \/ \E u \in Terminals : KeySwitch(u)
    PROVE  reader' = reader /\ \A t \in Terminals : reader[t].at \notin CopyPoints
<1>1. reader' = reader /\ ~Copying(schedule_idx)
  BY DEF KeyChar, KeyBackspace, KeyEnter, KeySwitch, Arrives
<1> QED
  BY <1>1, OneCopies

LEMMA KeyboardCopies ==
    ASSUME KeysInRead \subseteq {"modifier"}, LineInv, Keyboard PROVE CopyInv'
<1> SUFFICES ASSUME NEW t \in Terminals PROVE CopyRight(t)'
  BY DEF CopyInv
<1>1. CASE KeyChar \/ KeyBackspace \/ KeyEnter \/ \E u \in Terminals : KeySwitch(u)
  BY <1>1, KeysWait, CopyStays DEF LineInv, CopyInv
<1>2. CASE \E m \in Modifiers : KeyModifier(m)
  BY <1>2, CopyStays DEF KeyModifier, lines, LineInv, CopyInv
<1> QED
  BY <1>1, <1>2 DEF Keyboard

\* The program whose turn it is copies, counts and clears its own line.
LEMMA ReadCopies ==
    ASSUME LineInv, NEW t \in Terminals, ReadStep(t) PROVE CopyRight(t)'
<1>0. /\ reader \in [Terminals -> Readers] /\ t \in Terminals
      /\ CopyRight(t) /\ terminal_num' = terminal_num
  BY DEF LineInv, TypeOK, CopyInv, ReadStep, PollMasks, PollFails, PollSucceeds, CopyChar,
         CopyNewline, SaveCount, EndExitLine, ClearSlot, ClearCount, ReadReturns, keys
<1>1. CASE PollMasks(t) \/ PollFails(t) \/ ReadReturns(t)
  <2>1. reader'[t].at \in {"user", "wait", "test"}
    BY <1>0, <1>1 DEF PollMasks, PollFails, ReadReturns, GoTo, Idle, Readers
  <2> QED
    BY <2>1 DEF CopyRight, CopyPoints
<1>2. CASE PollSucceeds(t)
  <2>1. PICK n \in ReadSizes : reader' = [reader EXCEPT ![t] = [Idle EXCEPT !.at = "copy", !.n = n]]
    BY <1>2 DEF PollSucceeds
  <2>2. reader'[t].at = "copy" /\ reader'[t].i = 0 /\ reader'[t].n = n
    BY <1>0, <2>1 DEF Idle
  <2>3. terminal_num' = t /\ enter_read'[t]
    BY <1>2 DEF PollSucceeds, At, LineReady, lines, keys
  <2>4. 0 <= Copied(n) /\ \A k \in Slots : ~(k < 0)
    BY CopiedBound, InputConstants DEF Slots
  <2> QED
    BY <2>2, <2>3, <2>4 DEF CopyRight, CopyPoints
<1>3. CASE CopyChar(t)
  <2>1. /\ reader[t].at = "copy" /\ reader[t].i < Copied(reader[t].n)
        /\ UNCHANGED <<keyboard_buffer, buffer_ct, enter_read>>
    BY <1>3 DEF CopyChar, At, lines
  <2>2. reader[t].i \in 0 .. BUFFER_LIM - 1 /\ Copied(reader[t].n) \in 0 .. BUFFER_LIM - 1
    BY <1>0, CopiedBound DEF Readers
  <2>3. /\ reader'[t].at = "copy" /\ reader'[t].i = reader[t].i + 1 /\ reader'[t].n = reader[t].n
        /\ reader'[t].buf = [reader[t].buf EXCEPT ![reader[t].i] = keyboard_buffer[t][reader[t].i]]
    BY <1>0, <1>3, <2>1 DEF CopyChar, CopiedLine, Readers
  <2>4. \A k \in Slots : k < reader'[t].i /\ k < buffer_ct[t] =>
            reader'[t].buf[k] = keyboard_buffer[t][k]
    <3> SUFFICES ASSUME NEW k \in Slots, k < reader'[t].i, k < buffer_ct[t]
                 PROVE  reader'[t].buf[k] = keyboard_buffer[t][k]
      OBVIOUS
    <3>1. k \in DOMAIN reader[t].buf
      BY <1>0, InputConstants DEF Readers, Slots
    <3>2. k = reader[t].i \/ k < reader[t].i
      BY <2>2, <2>3, InputConstants DEF Slots
    <3> QED
      BY <1>0, <2>1, <2>3, <3>1, <3>2 DEF CopyRight
  <2> QED
    BY <1>0, <2>1, <2>2, <2>3, <2>4 DEF CopyRight, CopyPoints
<1>4. CASE CopyNewline(t)
  <2>1. /\ reader[t].at = "copy" /\ reader[t].i = Copied(reader[t].n)
        /\ UNCHANGED <<keyboard_buffer, buffer_ct, enter_read>>
    BY <1>4 DEF CopyNewline, At, lines
  <2>2. /\ reader'[t].at = "count" /\ reader'[t].i = reader[t].i /\ reader'[t].n = reader[t].n
        /\ reader'[t].buf = [reader[t].buf EXCEPT ![buffer_ct[t]] = Newline]
    BY <1>0, <1>4 DEF CopyNewline, Readers
  <2>3. buffer_ct[t] \in 0 .. BUFFER_LIM - 1
    BY DEF LineInv, TypeOK
  <2>4. \A k \in Slots : k < buffer_ct[t] => reader'[t].buf[k] = reader[t].buf[k]
    BY <1>0, <2>2, <2>3, InputConstants DEF Readers, Slots
  <2> QED
    BY <1>0, <2>1, <2>2, <2>4 DEF CopyRight, CopyPoints
<1>5. CASE SaveCount(t)
  <2>1. /\ reader[t].at = "count" /\ UNCHANGED <<keyboard_buffer, buffer_ct, enter_read>>
    BY <1>5 DEF SaveCount, At, lines
  <2>2. /\ reader'[t].at = "exit" /\ reader'[t].saved_buffer_ct = buffer_ct[t]
        /\ reader'[t].i = reader[t].i /\ reader'[t].n = reader[t].n
        /\ reader'[t].buf = reader[t].buf
    BY <1>0, <1>5 DEF SaveCount, Readers
  <2> QED
    BY <1>0, <2>1, <2>2 DEF CopyRight, CopyPoints
<1>6. CASE EndExitLine(t)
  <2>1. /\ reader[t].at = "exit" /\ UNCHANGED <<keyboard_buffer, buffer_ct, enter_read>>
    BY <1>6 DEF EndExitLine, At, lines
  <2>2. reader'[t].at = "clear" /\ reader'[t].n = reader[t].n
    BY <1>0, <1>6 DEF EndExitLine, Readers
  <2> QED
    BY <1>0, <2>1, <2>2 DEF CopyRight, CopyPoints
<1>7. CASE ClearSlot(t)
  <2>1. /\ reader[t].at = "clear" /\ UNCHANGED <<buffer_ct, enter_read>>
    BY <1>7 DEF ClearSlot, At
  <2>2. reader'[t].at = "clear" /\ reader'[t].n = reader[t].n
    BY <1>0, <1>7, <2>1 DEF ClearSlot, Readers
  <2> QED
    BY <1>0, <2>1, <2>2 DEF CopyRight, CopyPoints
<1>8. CASE ClearCount(t)
  <2>1. /\ reader[t].at = "clear" /\ UNCHANGED enter_read
    BY <1>8 DEF ClearCount, At
  <2>2. reader'[t].at = "flag" /\ reader'[t].n = reader[t].n
    BY <1>0, <1>8 DEF ClearCount, GoTo, Readers
  <2>3. terminal_num = t
    BY <1>0, <2>1 DEF CopyRight, CopyPoints
  <2>4. buffer_ct'[t] = 0
    BY <1>8, <2>3 DEF ClearCount, LineInv, TypeOK
  <2> QED
    BY <1>0, <2>1, <2>2, <2>3, <2>4 DEF CopyRight, CopyPoints
<1> QED
  BY <1>1, <1>2, <1>3, <1>4, <1>5, <1>6, <1>7, <1>8 DEF ReadStep

\* The steps of one program leave the flows of the others, which do not copy.
LEMMA OthersRest ==
    ASSUME LineInv, NEW t \in Terminals,
           ReadStdin(t) \/ ReadBadArgument(t) \/ ReadOther(t) \/ ReadStep(t)
    PROVE  \A u \in Terminals \ {t} :
              reader'[u] = reader[u] /\ reader[u].at \notin CopyPoints
<1>1. t = schedule_idx /\ \A u \in Terminals \ {t} : reader'[u] = reader[u]
  BY DEF ReadStdin, ReadBadArgument, ReadOther, ReadStep, PollMasks, PollFails, PollSucceeds,
         CopyChar, CopyNewline, SaveCount, EndExitLine, ClearSlot, ClearCount, ReadReturns,
         GoTo, At, LineInv, TypeOK
<1> QED
  BY <1>1, OneCopies

LEMMA NextCopies ==
    ASSUME KeysInRead \subseteq {"modifier"}, LineInv, [Next]_vars PROVE CopyInv'
<1>0. \A u \in Terminals : CopyRight(u)
  BY DEF LineInv, CopyInv
<1>1. ASSUME NEW t \in Terminals, ReadStep(t) PROVE CopyInv'
  <2>1. \A u \in Terminals \ {t} : CopyRight(u)'
    BY <1>0, <1>1, OthersRest, CopyStays
  <2> QED
    BY <1>1, <2>1, ReadCopies DEF CopyInv
<1>2. ASSUME NEW t \in Terminals, ReadStdin(t) \/ ReadBadArgument(t) \/ ReadOther(t)
      PROVE  CopyInv'
  <2>1. \A u \in Terminals \ {t} : CopyRight(u)'
    BY <1>0, <1>2, OthersRest, CopyStays
  <2>2. reader'[t].at \notin CopyPoints
    BY <1>2 DEF ReadStdin, ReadBadArgument, ReadOther, At, GoTo, CopyPoints, LineInv, TypeOK,
                Readers
  <2>3. CopyRight(t)'
    BY <2>2 DEF CopyRight, CopyPoints
  <2> QED
    BY <2>1, <2>3 DEF CopyInv
<1>3. CASE Pit \/ UNCHANGED vars
  BY <1>0, <1>3, CopyStays DEF Pit, vars, lines, keys, CopyInv
<1> QED
  BY <1>1, <1>2, <1>3, KeyboardCopies DEF Next

\* The mapping of the variables of LineDiscipline.
Typed(t) == [k \in 1 .. buffer_ct[t] |-> keyboard_buffer[t][k - 1]]
MappedLine == [t \in Terminals |-> IF Taking(t) THEN <<>> ELSE Typed(t)]
MappedReady == [t \in Terminals |-> enter_read[t] /\ ~Taking(t)]
MappedAnswer == [t \in Terminals |-> IF Taking(t) THEN Taken(reader[t]) ELSE answer[t]]
Mapped == <<terminal_num, MappedLine, MappedReady, MappedAnswer, strokes>>

\* The line of a terminal is a sequence as long as its count.
LEMMA TypedFacts ==
    ASSUME TypeOK, NEW t \in Terminals
    PROVE  /\ buffer_ct[t] \in 0 .. BUFFER_LIM - 1
           /\ Typed(t) \in Seq(Chars \cup {Nul}) /\ Len(Typed(t)) = buffer_ct[t]
           /\ \A k \in 1 .. buffer_ct[t] : Typed(t)[k] = keyboard_buffer[t][k - 1]
<1>1. buffer_ct[t] \in 0 .. BUFFER_LIM - 1 /\ buffer_ct[t] \in Nat
  BY InputConstants DEF TypeOK
<1>2. \A k \in 1 .. buffer_ct[t] : keyboard_buffer[t][k - 1] \in Chars \cup {Nul}
  BY <1>1, InputConstants DEF TypeOK, Slots
<1>3. Typed(t) \in [1 .. buffer_ct[t] -> Chars \cup {Nul}]
  BY <1>2 DEF Typed
<1>4. Typed(t) \in Seq(Chars \cup {Nul})
  BY <1>1, <1>3, SeqDef
<1>5. Len(Typed(t)) = buffer_ct[t]
  BY <1>1, <1>3, <1>4, LenProperties
<1> QED
  BY <1>1, <1>4, <1>5 DEF Typed

\* What is behind the last of a sequence.
LEMMA AppendIs ==
    ASSUME NEW S, NEW s \in Seq(S), NEW e \in S
    PROVE  Append(s, e) = [k \in 1 .. Len(s) + 1 |-> IF k = Len(s) + 1 THEN e ELSE s[k]]
<1>1. /\ Append(s, e) \in Seq(S) /\ Len(Append(s, e)) = Len(s) + 1
      /\ \A k \in 1 .. Len(s) : Append(s, e)[k] = s[k]
      /\ Append(s, e)[Len(s) + 1] = e
  BY AppendProperties
<1>2. Append(s, e) \in [1 .. Len(s) + 1 -> S] /\ Len(s) \in Nat
  BY <1>1, LenProperties
<1>3. \A k \in 1 .. Len(s) + 1 : Append(s, e)[k] = IF k = Len(s) + 1 THEN e ELSE s[k]
  BY <1>1, <1>2
<1> QED
  BY <1>2, <1>3

\* A step that leaves these alone is no step of the line.
LEMMA LineRests ==
    ASSUME UNCHANGED <<terminal_num, strokes, lines, answer>>,
           \A t \in Terminals : /\ Taking(t)' <=> Taking(t)
                                /\ Taking(t) => Taken(reader'[t]) = Taken(reader[t])
    PROVE  UNCHANGED Mapped
<1>1. MappedLine' = MappedLine
  BY DEF MappedLine, Typed, lines
<1>2. MappedReady' = MappedReady
  BY DEF MappedReady, lines
<1>3. MappedAnswer' = MappedAnswer
  BY DEF MappedAnswer
<1> QED
  BY <1>1, <1>2, <1>3 DEF Mapped

\* Keys are Type, Erase, Enter and Look; modifiers are none.
LEMMA CharMaps ==
    ASSUME KeysInRead \subseteq {"modifier"}, LineInv, KeyChar PROVE Promise!Type
<1>0. TypeOK /\ TypeOK' /\ terminal_num \in Terminals /\ terminal_num' = terminal_num
  BY NextTypes DEF Next, Keyboard, LineInv, TypeOK, KeyChar
<1>1. \A t \in Terminals : ~Taking(t) /\ ~Taking(t)'
  BY KeysWait DEF Taking, CopyPoints
<1> DEFINE byte == [key |-> strokes', on |-> terminal_num]
<1>2. byte \in Chars
  BY <1>0 DEF KeyChar, Stroke, TypeOK, Chars
<1>3. /\ buffer_ct[terminal_num] < BUFFER_LIM - 1
      /\ \A t \in Terminals : buffer_ct'[t] = IF t = terminal_num THEN buffer_ct[t] + 1
                                              ELSE buffer_ct[t]
      /\ \A t \in Terminals : \A k \in Slots :
            keyboard_buffer'[t][k] = IF t = terminal_num /\ k = buffer_ct[t] THEN byte
                                     ELSE keyboard_buffer[t][k]
  BY <1>0, InputConstants DEF KeyChar, Full, TypeOK
<1> HIDE DEF byte
<1>4. \A t \in Terminals \ {terminal_num} : Typed(t)' = Typed(t)
  <2> SUFFICES ASSUME NEW t \in Terminals \ {terminal_num} PROVE Typed(t)' = Typed(t)
    OBVIOUS
  <2>1. \A k \in 1 .. buffer_ct[t] : k - 1 \in Slots
    BY <1>0, TypedFacts, InputConstants DEF Slots
  <2> QED
    BY <1>3, <2>1 DEF Typed
<1>5. Typed(terminal_num)' = Append(Typed(terminal_num), byte)
  <2>1. /\ Typed(terminal_num) \in Seq(Chars \cup {Nul})
        /\ Len(Typed(terminal_num)) = buffer_ct[terminal_num]
        /\ buffer_ct[terminal_num] \in Nat
        /\ \A k \in 1 .. buffer_ct[terminal_num] :
              Typed(terminal_num)[k] = keyboard_buffer[terminal_num][k - 1]
    BY <1>0, TypedFacts, InputConstants
  <2>2. Append(Typed(terminal_num), byte) = [k \in 1 .. buffer_ct[terminal_num] + 1 |->
            IF k = buffer_ct[terminal_num] + 1 THEN byte
            ELSE keyboard_buffer[terminal_num][k - 1]]
    <3>1. byte \in Chars \cup {Nul}
      BY <1>2
    <3> QED
      BY <2>1, <3>1, AppendIs
  <2>3. Typed(terminal_num)' = [k \in 1 .. buffer_ct[terminal_num] + 1 |->
            keyboard_buffer'[terminal_num][k - 1]]
    BY <1>0, <1>3 DEF Typed
  <2>4. \A k \in 1 .. buffer_ct[terminal_num] + 1 :
            /\ k - 1 \in Slots
            /\ k - 1 = buffer_ct[terminal_num] <=> k = buffer_ct[terminal_num] + 1
    BY <1>3, <2>1, InputConstants DEF Slots
  <2>5. \A k \in 1 .. buffer_ct[terminal_num] + 1 :
            keyboard_buffer'[terminal_num][k - 1] =
              IF k = buffer_ct[terminal_num] + 1 THEN byte
              ELSE keyboard_buffer[terminal_num][k - 1]
    BY <1>0, <1>3, <2>4
  <2> QED
    BY <2>2, <2>3, <2>5
<1>6. MappedLine' = [MappedLine EXCEPT ![terminal_num] = Append(@, byte)]
  BY <1>0, <1>1, <1>4, <1>5 DEF MappedLine
<1>7. Len(MappedLine[terminal_num]) < BUFFER_LIM - 1
  BY <1>0, <1>1, <1>3, TypedFacts DEF MappedLine
<1>8. MappedReady' = MappedReady /\ MappedAnswer' = MappedAnswer
  BY <1>1 DEF MappedReady, MappedAnswer, KeyChar
<1>9. strokes' = strokes + 1
  BY DEF KeyChar, Stroke
<1> QED
  BY <1>0, <1>2, <1>6, <1>7, <1>8, <1>9
  DEF Promise!Type, MappedLine, MappedReady, MappedAnswer, Typed

LEMMA BackspaceMaps ==
    ASSUME KeysInRead \subseteq {"modifier"}, LineInv, KeyBackspace PROVE Promise!Erase
<1>0. TypeOK /\ TypeOK' /\ terminal_num \in Terminals /\ UNCHANGED keys
  BY NextTypes DEF Next, Keyboard, LineInv, TypeOK, KeyBackspace
<1>1. \A t \in Terminals : ~Taking(t) /\ ~Taking(t)'
  BY KeysWait DEF Taking, CopyPoints
<1>2. /\ buffer_ct[terminal_num] # 0
      /\ \A t \in Terminals : buffer_ct'[t] = IF t = terminal_num THEN buffer_ct[t] - 1
                                              ELSE buffer_ct[t]
      /\ \A t \in Terminals : \A k \in Slots :
            keyboard_buffer'[t][k] = IF t = terminal_num /\ k = buffer_ct[t] - 1 THEN Nul
                                     ELSE keyboard_buffer[t][k]
  BY <1>0, InputConstants DEF KeyBackspace, TypeOK
<1>3. \A t \in Terminals \ {terminal_num} : Typed(t)' = Typed(t)
  <2> SUFFICES ASSUME NEW t \in Terminals \ {terminal_num} PROVE Typed(t)' = Typed(t)
    OBVIOUS
  <2>1. \A k \in 1 .. buffer_ct[t] : k - 1 \in Slots
    BY <1>0, TypedFacts, InputConstants DEF Slots
  <2> QED
    BY <1>2, <2>1 DEF Typed
<1>4. /\ Typed(terminal_num)' = SubSeq(Typed(terminal_num), 1, Len(Typed(terminal_num)) - 1)
      /\ Typed(terminal_num) # <<>>
  <2>1. /\ Typed(terminal_num) \in Seq(Chars \cup {Nul})
        /\ Len(Typed(terminal_num)) = buffer_ct[terminal_num]
        /\ buffer_ct[terminal_num] \in Nat \ {0} /\ buffer_ct[terminal_num] <= BUFFER_LIM - 1
        /\ \A k \in 1 .. buffer_ct[terminal_num] :
              Typed(terminal_num)[k] = keyboard_buffer[terminal_num][k - 1]
    BY <1>0, <1>2, TypedFacts, InputConstants
  <2>2. SubSeq(Typed(terminal_num), 1, buffer_ct[terminal_num] - 1) =
            [k \in 1 .. buffer_ct[terminal_num] - 1 |-> keyboard_buffer[terminal_num][k - 1]]
    BY <2>1
  <2>3. Typed(terminal_num)' = [k \in 1 .. buffer_ct[terminal_num] - 1 |->
            keyboard_buffer'[terminal_num][k - 1]]
    BY <1>0, <1>2 DEF Typed, keys
  <2>4. \A k \in 1 .. buffer_ct[terminal_num] - 1 :
            k - 1 \in Slots /\ k - 1 # buffer_ct[terminal_num] - 1
    BY <2>1, InputConstants DEF Slots
  <2> QED
    BY <1>0, <1>2, <2>1, <2>2, <2>3, <2>4
<1>5. /\ MappedLine' = [MappedLine EXCEPT ![terminal_num] = SubSeq(@, 1, Len(@) - 1)]
      /\ MappedLine[terminal_num] # <<>>
  <2>1. MappedLine = [t \in Terminals |-> Typed(t)] /\ MappedLine' = [t \in Terminals |-> Typed(t)']
    BY <1>1 DEF MappedLine
  <2>2. MappedLine[terminal_num] = Typed(terminal_num)
    BY <1>0, <2>1
  <2>3. \A t \in Terminals : Typed(t)' = IF t = terminal_num
                                        THEN SubSeq(MappedLine[t], 1, Len(MappedLine[t]) - 1)
                                        ELSE MappedLine[t]
    <3>1. \A t \in Terminals : MappedLine[t] = Typed(t)
      BY <2>1
    <3>2. \A t \in Terminals : t = terminal_num => Typed(t)' = Typed(terminal_num)'
      BY <1>0 DEF Typed, keys
    <3> QED
      BY <1>3, <1>4, <3>1, <3>2
  <2> QED
    BY <1>0, <1>4, <2>1, <2>2, <2>3
<1>6. MappedReady' = MappedReady /\ MappedAnswer' = MappedAnswer
  BY <1>1 DEF MappedReady, MappedAnswer, KeyBackspace
<1> QED
  BY <1>0, <1>5, <1>6 DEF Promise!Erase, MappedLine, MappedReady, MappedAnswer, Typed, keys

LEMMA EnterMaps ==
    ASSUME KeysInRead \subseteq {"modifier"}, LineInv, KeyEnter PROVE Promise!Enter
<1>1. \A t \in Terminals : ~Taking(t) /\ ~Taking(t)'
  BY KeysWait DEF Taking, CopyPoints
<1>2. MappedLine' = MappedLine /\ MappedAnswer' = MappedAnswer
  BY <1>1 DEF MappedLine, MappedAnswer, Typed, KeyEnter
<1>3. MappedReady' = [MappedReady EXCEPT ![terminal_num] = TRUE]
  BY <1>1 DEF MappedReady, KeyEnter, LineInv, TypeOK
<1> QED
  BY <1>2, <1>3 DEF Promise!Enter, MappedLine, MappedReady, MappedAnswer, Typed, KeyEnter, Stroke

LEMMA SwitchMaps ==
    ASSUME KeysInRead \subseteq {"modifier"}, LineInv, NEW t \in Terminals, KeySwitch(t)
    PROVE  Promise!Look
<1>1. \A u \in Terminals : ~Taking(u) /\ ~Taking(u)'
  BY KeysWait DEF Taking, CopyPoints
<1>2. MappedLine' = MappedLine /\ MappedReady' = MappedReady /\ MappedAnswer' = MappedAnswer
  BY <1>1 DEF MappedLine, MappedReady, MappedAnswer, Typed, KeySwitch, lines
<1> QED
  BY <1>2 DEF Promise!Look, MappedLine, MappedReady, MappedAnswer, Typed, KeySwitch

\* The steps of a read before it clears are no steps of the line.
LEMMA PollMaps ==
    ASSUME LineInv, NEW t \in Terminals,
           ReadStdin(t) \/ ReadBadArgument(t) \/ ReadOther(t) \/ PollMasks(t) \/ PollFails(t)
             \/ PollSucceeds(t) \/ CopyChar(t) \/ CopyNewline(t) \/ SaveCount(t)
    PROVE  UNCHANGED Mapped
<1>1. /\ UNCHANGED <<terminal_num, strokes, lines, answer>>
      /\ reader \in [Terminals -> Readers]
  BY DEF ReadStdin, ReadBadArgument, ReadOther, PollMasks, PollFails, PollSucceeds, CopyChar,
         CopyNewline, SaveCount, keys, LineInv, TypeOK
<1>2. reader[t].at \notin {"clear", "flag"}
  BY DEF ReadStdin, ReadBadArgument, ReadOther, PollMasks, PollFails, PollSucceeds, CopyChar,
         CopyNewline, SaveCount, At
<1>3. reader'[t].at \notin {"clear", "flag"}
  <2>1. CASE ReadStdin(t) \/ PollMasks(t) \/ PollFails(t)
    BY <1>1, <2>1 DEF ReadStdin, PollMasks, PollFails, GoTo, Readers
  <2>2. CASE ReadBadArgument(t) \/ ReadOther(t)
    BY <1>2, <2>2 DEF ReadBadArgument, ReadOther
  <2>3. CASE PollSucceeds(t)
    BY <1>1, <2>3 DEF PollSucceeds, Idle
  <2>4. CASE CopyChar(t)
    BY <1>1, <1>2, <2>4 DEF CopyChar, Readers
  <2>5. CASE CopyNewline(t) \/ SaveCount(t)
    BY <1>1, <2>5 DEF CopyNewline, SaveCount, Readers
  <2> QED
    BY <2>1, <2>2, <2>3, <2>4, <2>5
<1>4. \A u \in Terminals \ {t} : reader'[u] = reader[u]
  BY OthersRest DEF ReadStep
<1>5. \A u \in Terminals : /\ Taking(u)' <=> Taking(u)
                           /\ Taking(u) => Taken(reader'[u]) = Taken(reader[u])
  BY <1>2, <1>3, <1>4 DEF Taking
<1> QED
  BY <1>1, <1>5, LineRests

\* A read that has copied takes what LineDiscipline says: the part of the line
\* that fits, though it is copied slot by slot and counted after that.
LEMMA TakenIsLine ==
    ASSUME LineInv, NEW t \in Terminals, EndExitLine(t)
    PROVE  Taken(reader'[t]) = IF reader[t].n - 1 < Len(Typed(t))
                               THEN SubSeq(Typed(t), 1, reader[t].n - 1) ELSE Typed(t)
<1> DEFINE r == reader[t]
           n == IF buffer_ct[t] < Copied(r.n) THEN buffer_ct[t] ELSE Copied(r.n)
<1>1. /\ r \in Readers /\ CopyRight(t) /\ r.at = "exit" /\ terminal_num = t
      /\ buffer_ct[t] \in 0 .. BUFFER_LIM - 1 /\ Typed(t) \in Seq(Chars \cup {Nul})
      /\ Len(Typed(t)) = buffer_ct[t]
      /\ \A k \in 1 .. buffer_ct[t] : Typed(t)[k] = keyboard_buffer[t][k - 1]
  BY TypedFacts, OneCopies DEF LineInv, TypeOK, CopyInv, EndExitLine, At, CopyPoints
<1>2. PICK zero \in SUBSET {buffer_ct[t]} :
        reader' = [reader EXCEPT ![t].buf = [k \in DOMAIN @ |-> IF k \in zero THEN Nul ELSE @[k]],
                                 ![t].i = 0, ![t].at = "clear"]
  BY <1>1 DEF EndExitLine
<1>3. /\ reader'[t].n = r.n /\ reader'[t].saved_buffer_ct = buffer_ct[t]
      /\ reader'[t].buf = [k \in DOMAIN r.buf |-> IF k \in zero THEN Nul ELSE r.buf[k]]
  BY <1>1, <1>2 DEF LineInv, TypeOK, Readers, CopyRight
<1>4. Copied(r.n) \in 0 .. BUFFER_LIM - 1 /\ r.n \in Nat
  <2>1. r.n \in ReadSizes /\ ReadSizes \subseteq Nat
    BY <1>1, InputConstants DEF CopyRight, CopyPoints
  <2> QED
    BY <2>1, CopiedBound
<1>5. n \in 0 .. BUFFER_LIM - 1 /\ n <= buffer_ct[t] /\ n <= Copied(r.n)
  BY <1>1, <1>4
<1>6. Taken(reader'[t]) = [k \in 1 .. n |-> reader'[t].buf[k - 1]]
  BY <1>3 DEF Taken
<1>7. \A k \in 1 .. n : reader'[t].buf[k - 1] = keyboard_buffer[t][k - 1]
  <2> SUFFICES ASSUME NEW k \in 1 .. n PROVE reader'[t].buf[k - 1] = keyboard_buffer[t][k - 1]
    OBVIOUS
  <2>1. /\ k - 1 \in Slots /\ k - 1 < buffer_ct[t] /\ k - 1 < Copied(r.n)
        /\ k - 1 \in 0 .. BUFFER_LIM - 1 /\ k - 1 \notin zero
    BY <1>1, <1>4, <1>5, InputConstants DEF Slots
  <2>2. reader'[t].buf[k - 1] = r.buf[k - 1]
    BY <1>1, <1>3, <2>1 DEF Readers
  <2>3. r.buf[k - 1] = keyboard_buffer[t][k - 1]
    BY <1>1, <2>1 DEF CopyRight
  <2> QED
    BY <2>2, <2>3
<1>8. Taken(reader'[t]) = [k \in 1 .. n |-> keyboard_buffer[t][k - 1]]
  BY <1>6, <1>7
<1>9. CASE r.n - 1 < buffer_ct[t]
  <2>1. r.n - 1 \in Int /\ \A k \in 1 .. r.n - 1 : Typed(t)[k] \in Chars \cup {Nul}
    BY <1>1, <1>4, <1>9, ElementOfSeq
  <2>2. SubSeq(Typed(t), 1, r.n - 1) = [k \in 1 .. r.n - 1 |-> Typed(t)[k]]
    BY <1>1, <1>4
  <2>3. 1 .. n = 1 .. r.n - 1
    BY <1>1, <1>4, <1>9, InputConstants DEF Copied
  <2>4. \A k \in 1 .. r.n - 1 : Typed(t)[k] = keyboard_buffer[t][k - 1]
    BY <1>1, <1>4, <1>9
  <2> QED
    BY <1>1, <1>8, <1>9, <2>2, <2>3, <2>4
<1>10. CASE ~(r.n - 1 < buffer_ct[t])
  <2>1. n = buffer_ct[t]
    BY <1>1, <1>4, <1>10, InputConstants DEF Copied
  <2>2. Typed(t) = Taken(reader'[t])
    BY <1>8, <2>1 DEF Typed
  <2> QED
    BY <1>1, <1>10, <2>2
<1> QED
  BY <1>9, <1>10

LEMMA TakeMaps ==
    ASSUME LineInv, NEW t \in Terminals, EndExitLine(t)
    PROVE  \E n \in ReadSizes : Promise!Read(n)
<1>1. /\ terminal_num = t /\ enter_read[t] /\ reader[t].at = "exit"
      /\ UNCHANGED <<terminal_num, strokes, lines, answer>>
      /\ reader \in [Terminals -> Readers] /\ reader[t].n \in ReadSizes
  BY OneCopies DEF EndExitLine, At, CopyPoints, keys, LineInv, TypeOK, CopyInv, CopyRight
<1>2. \A u \in Terminals \ {t} : reader'[u] = reader[u]
  BY OthersRest DEF ReadStep
<1>3. ~Taking(t) /\ Taking(t)'
  <2>1. PICK buf : reader' = [reader EXCEPT ![t].buf = buf, ![t].i = 0, ![t].at = "clear"]
    BY <1>1 DEF EndExitLine
  <2>2. DOMAIN reader = Terminals /\ "at" \in DOMAIN reader[t]
    BY <1>1 DEF Readers
  <2>3. reader'[t].at = "clear"
    BY <2>1, <2>2
  <2> QED
    BY <1>1, <2>3 DEF Taking
<1>4. \A u \in Terminals \ {t} : (Taking(u)' <=> Taking(u)) /\ Typed(u)' = Typed(u)
  BY <1>1, <1>2 DEF Taking, Typed, lines
<1>5. MappedLine' = [MappedLine EXCEPT ![t] = <<>>]
  BY <1>3, <1>4 DEF MappedLine
<1>6. MappedReady[t] /\ MappedReady' = [MappedReady EXCEPT ![t] = FALSE]
  BY <1>1, <1>3, <1>4 DEF MappedReady, lines
<1>7. MappedAnswer' = [MappedAnswer EXCEPT ![t] = Taken(reader'[t])]
  BY <1>1, <1>2, <1>3, <1>4 DEF MappedAnswer
<1>8. MappedLine[t] = Typed(t)
  BY <1>3 DEF MappedLine
<1>9. PICK n \in ReadSizes : n = reader[t].n
  BY <1>1
<1>10. MappedAnswer' = [MappedAnswer EXCEPT ![t] =
                           IF n - 1 < Len(MappedLine[t])
                           THEN SubSeq(MappedLine[t], 1, n - 1) ELSE MappedLine[t]]
  BY <1>7, <1>8, <1>9, TakenIsLine
<1>11. Promise!Read(n)
  BY <1>1, <1>5, <1>6, <1>10
  DEF Promise!Read, MappedLine, MappedReady, MappedAnswer, Typed
<1> QED
  BY <1>11

\* Clearing and leaving are no steps of the line, which is the read's by then.
LEMMA ClearMaps ==
    ASSUME LineInv, NEW t \in Terminals, ClearSlot(t) \/ ClearCount(t)
    PROVE  UNCHANGED Mapped
<1>1. /\ terminal_num = t /\ UNCHANGED <<terminal_num, strokes, enter_read, answer>>
      /\ reader \in [Terminals -> Readers]
  BY OneCopies DEF ClearSlot, ClearCount, At, CopyPoints, keys, LineInv, TypeOK
<1>2. \A u \in Terminals \ {t} :
        /\ reader'[u] = reader[u] /\ buffer_ct'[u] = buffer_ct[u]
        /\ keyboard_buffer'[u] = keyboard_buffer[u]
  BY <1>1, OthersRest DEF ReadStep, ClearSlot, ClearCount, LineInv, TypeOK
<1>3. Taking(t) /\ Taking(t)'
  <2>1. CASE ClearSlot(t)
    BY <1>1, <2>1 DEF ClearSlot, At, Taking, Readers
  <2>2. CASE ClearCount(t)
    BY <1>1, <2>2 DEF ClearCount, GoTo, At, Taking, Readers
  <2> QED
    BY <2>1, <2>2
<1>4. Taken(reader'[t]) = Taken(reader[t])
  <2>1. /\ reader'[t].n = reader[t].n /\ reader'[t].buf = reader[t].buf
        /\ reader'[t].saved_buffer_ct = reader[t].saved_buffer_ct
    BY <1>1 DEF ClearSlot, ClearCount, GoTo, Readers
  <2> QED
    BY <2>1 DEF Taken
<1>5. \A u \in Terminals \ {t} : (Taking(u)' <=> Taking(u)) /\ Typed(u)' = Typed(u)
  BY <1>2 DEF Taking, Typed
<1>6. MappedLine' = MappedLine
  BY <1>3, <1>5 DEF MappedLine
<1>7. MappedReady' = MappedReady
  BY <1>1, <1>3, <1>5 DEF MappedReady
<1>8. MappedAnswer' = MappedAnswer
  BY <1>1, <1>2, <1>3, <1>4, <1>5 DEF MappedAnswer
<1> QED
  BY <1>1, <1>6, <1>7, <1>8 DEF Mapped

LEMMA ReturnMaps ==
    ASSUME LineInv, NEW t \in Terminals, ReadReturns(t) PROVE UNCHANGED Mapped
<1>1. /\ UNCHANGED <<terminal_num, strokes, keyboard_buffer, buffer_ct>>
      /\ reader[t].at = "flag" /\ buffer_ct[t] = 0
      /\ reader \in [Terminals -> Readers] /\ enter_read \in [Terminals -> BOOLEAN]
      /\ answer \in [Terminals -> Seq(Bytes)]
  BY DEF ReadReturns, At, keys, LineInv, TypeOK, CopyInv, CopyRight
<1>2. /\ \A u \in Terminals \ {t} : /\ reader'[u] = reader[u] /\ answer'[u] = answer[u]
                                    /\ enter_read'[u] = enter_read[u]
      /\ reader'[t].at = "user" /\ answer'[t] = Taken(reader[t]) /\ enter_read'[t] = FALSE
  BY <1>1 DEF ReadReturns, EnterAfterRead, Idle
<1>3. Taking(t) /\ ~Taking(t)'
  BY <1>1, <1>2 DEF Taking
<1>4. \A u \in Terminals \ {t} : (Taking(u)' <=> Taking(u)) /\ Typed(u)' = Typed(u)
  BY <1>1, <1>2 DEF Taking, Typed
<1>5. Typed(t)' = <<>>
  BY <1>1 DEF Typed
<1>6. MappedLine' = MappedLine
  BY <1>3, <1>4, <1>5 DEF MappedLine
<1>7. MappedReady' = MappedReady
  BY <1>2, <1>3, <1>4 DEF MappedReady
<1>8. MappedAnswer' = MappedAnswer
  BY <1>2, <1>3, <1>4 DEF MappedAnswer
<1> QED
  BY <1>1, <1>6, <1>7, <1>8 DEF Mapped

LEMMA NextMaps ==
    ASSUME KeysInRead \subseteq {"modifier"}, LineInv, [Next]_vars
    PROVE  Promise!Next \/ UNCHANGED Mapped
<1>1. CASE KeyChar \/ KeyBackspace \/ KeyEnter
  BY <1>1, CharMaps, BackspaceMaps, EnterMaps DEF Promise!Next
<1>2. ASSUME NEW t \in Terminals, KeySwitch(t) PROVE Promise!Next
  BY <1>2, SwitchMaps DEF Promise!Next
<1>3. CASE Pit \/ UNCHANGED vars \/ \E m \in Modifiers : KeyModifier(m)
  <2>1. UNCHANGED <<terminal_num, strokes, lines, answer, reader>>
    BY <1>3 DEF Pit, vars, KeyModifier, keys
  <2> QED
    BY <2>1, LineRests DEF Taking
<1>4. ASSUME NEW t \in Terminals, EndExitLine(t) PROVE Promise!Next
  BY <1>4, TakeMaps DEF Promise!Next
<1>5. ASSUME NEW t \in Terminals,
             \/ ReadStdin(t) \/ ReadBadArgument(t) \/ ReadOther(t)
             \/ ReadStep(t) /\ ~EndExitLine(t)
      PROVE  UNCHANGED Mapped
  BY <1>5, PollMaps, ClearMaps, ReturnMaps DEF ReadStep
<1> QED
  BY <1>1, <1>2, <1>3, <1>4, <1>5 DEF Next, Keyboard

LEMMA InitMaps == ASSUME Init PROVE Promise!Init
<1>1. \A t \in Terminals : ~Taking(t) /\ Typed(t) = <<>>
  BY DEF Init, Idle, Taking, Typed
<1>2. MappedLine = [t \in Terminals |-> <<>>] /\ MappedReady = [t \in Terminals |-> FALSE]
  BY <1>1 DEF MappedLine, MappedReady, Init
<1>3. MappedAnswer = [t \in Terminals |-> <<>>]
  BY <1>1 DEF MappedAnswer, Init
<1>4. 0 \in Terminals
  BY InputConstants DEF Terminals
<1> QED
  BY <1>2, <1>3, <1>4 DEF Promise!Init, MappedLine, MappedReady, MappedAnswer, Typed, Init

\* The statements of terminal_read and the keyboard implement one line per
\* terminal that goes whole to one read, for every length of a line and size of
\* a read: as long as no key but a modifier arrives during a copy
\* (terminal.c:63-108, keyboard.c:82-407).
THEOREM LinesImplemented ==
    ASSUME KeysInRead \subseteq {"modifier"} PROVE Spec => LineByLine
<1>1. Init => CopyInv /\ Promise!Init
  <2> SUFFICES ASSUME Init PROVE CopyInv /\ Promise!Init
    OBVIOUS
  <2>1. \A t \in Terminals : reader[t].at = "user"
    BY DEF Init, Idle
  <2>2. CopyInv
    BY <2>1 DEF CopyInv, CopyRight, CopyPoints
  <2> QED
    BY <2>2, InitMaps
<1>2. TypeOK /\ ReaderKeepsTurn /\ CopyInv /\ [Next]_vars => CopyInv'
  BY NextCopies DEF LineInv
<1>3. TypeOK /\ ReaderKeepsTurn /\ CopyInv /\ [Next]_vars => [Promise!Next]_(Promise!vars)
  <2> SUFFICES ASSUME LineInv, [Next]_vars PROVE Promise!Next \/ UNCHANGED Promise!vars
    BY DEF LineInv
  <2>1. CASE UNCHANGED Mapped
    BY <2>1 DEF Promise!vars, Mapped, MappedLine, MappedReady, MappedAnswer, Typed
  <2> QED
    BY <2>1, NextMaps
<1> QED
  BY <1>1, <1>2, <1>3, InputTypes, TurnKept, PTL DEF Spec, LineByLine, Promise!Spec
=============================================================================
