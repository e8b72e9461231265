--------------------------- MODULE ProgramsProofs ---------------------------
(***************************************************************************)
(* Theorems about FileSystem, CommandLine and Programs: for every disk,    *)
(* size of a block and length of a name, of a file or of a command.  First *)
(* the reads, lookups and commands, then what cat and ls show, then what   *)
(* grep finds.                                                             *)
(***************************************************************************)
EXTENDS Programs, Loops, SequenceTheorems, TLAPS

-----------------------------------------------------------------------------
(* Numbers *)

\* The least of a set of numbers.
LEMMA MinIs ==
    ASSUME NEW T, T \subseteq Nat, T # {}
    PROVE  Min(T) \in T /\ \A y \in T : Min(T) <= y
<1>1. \E x \in T : \A y \in T : x <= y
  BY HasLeast
<1> QED
  BY <1>1 DEF Min

LEMMA Times ==
    ASSUME NEW a \in Nat, NEW b \in Nat, NEW K \in Nat, a <= b
    PROVE  a * K <= b * K /\ a * K \in Nat /\ b * K \in Nat
<1>1. (b - a) * K >= 0
  OBVIOUS
<1>2. (b - a) * K = b * K - a * K
  OBVIOUS
<1>3. a * K \in Nat /\ b * K \in Nat
  OBVIOUS
<1> QED
  BY <1>1, <1>2, <1>3

\* Quotient and remainder, and that there is one pair of them.
LEMMA DivMod ==
    ASSUME NEW x \in Nat, NEW K \in Nat \ {0}
    PROVE  /\ x \div K \in Nat /\ x % K \in 0 .. K - 1
           /\ x = (x \div K) * K + (x % K)
OBVIOUS

LEMMA DivUnique ==
    ASSUME NEW q \in Nat, NEW K \in Nat \ {0}, NEW r \in 0 .. K - 1
    PROVE  (q * K + r) \div K = q /\ (q * K + r) % K = r
<1> DEFINE x == q * K + r
<1>1. x \in Nat
  OBVIOUS
<1>2. PICK p \in Nat, s \in 0 .. K - 1 : p = x \div K /\ s = x % K /\ x = p * K + s
  BY <1>1, DivMod
<1>3. p * K \in Nat /\ q * K \in Nat /\ p * K + s = q * K + r
  BY <1>2
<1>4. ~(p < q)
  <2>1. ASSUME p < q PROVE FALSE
    <3>1. (p + 1) * K <= q * K
      BY <2>1, Times
    <3>2. (p + 1) * K = p * K + K
      OBVIOUS
    <3> QED
      BY <1>3, <3>1, <3>2
  <2> QED
    BY <2>1
<1>5. ~(q < p)
  <2>1. ASSUME q < p PROVE FALSE
    <3>1. (q + 1) * K <= p * K
      BY <2>1, Times
    <3>2. (q + 1) * K = q * K + K
      OBVIOUS
    <3> QED
      BY <1>3, <3>1, <3>2
  <2> QED
    BY <2>1
<1>6. p = q
  BY <1>4, <1>5
<1> QED
  BY <1>2, <1>3, <1>6

-----------------------------------------------------------------------------
(* read_data *)

\* Three pieces of a sequence, one behind the other.
LEMMA Joined ==
    ASSUME NEW S, NEW f \in Seq(S), NEW s \in Seq(S), NEW t \in Seq(S), NEW u \in Seq(S),
           Len(f) = Len(s) + Len(t) + Len(u),
           \A i \in 1 .. Len(s) : s[i] = f[i],
           \A i \in 1 .. Len(t) : t[i] = f[Len(s) + i],
           \A i \in 1 .. Len(u) : u[i] = f[Len(s) + Len(t) + i]
    PROVE  s \o t \o u = f
<1>1. /\ s \o t \in Seq(S) /\ Len(s \o t) = Len(s) + Len(t)
      /\ \A i \in 1 .. Len(s) + Len(t) :
            (s \o t)[i] = IF i <= Len(s) THEN s[i] ELSE t[i - Len(s)]
  BY ConcatProperties
<1>2. /\ s \o t \o u \in Seq(S) /\ Len(s \o t \o u) = Len(s) + Len(t) + Len(u)
      /\ \A i \in 1 .. Len(s) + Len(t) + Len(u) :
            (s \o t \o u)[i] = IF i <= Len(s) + Len(t) THEN (s \o t)[i]
                               ELSE u[i - (Len(s) + Len(t))]
  BY <1>1, ConcatProperties
<1>3. Len(s) \in Nat /\ Len(t) \in Nat /\ Len(u) \in Nat
  BY LenProperties
<1>4. \A i \in 1 .. Len(s) + Len(t) : (s \o t)[i] = f[i]
  <2> SUFFICES ASSUME NEW i \in 1 .. Len(s) + Len(t) PROVE (s \o t)[i] = f[i]
    OBVIOUS
  <2>1. CASE i <= Len(s)
    BY <1>1, <1>3, <2>1
  <2>2. CASE i > Len(s)
    <3>1. i - Len(s) \in 1 .. Len(t) /\ Len(s) + (i - Len(s)) = i
      BY <1>3, <2>2
    <3>2. t[i - Len(s)] = f[Len(s) + (i - Len(s))]
      BY <3>1
    <3> QED
      BY <1>1, <1>3, <2>2, <3>1, <3>2
  <2> QED
    BY <1>3, <2>1, <2>2
<1>5. \A i \in 1 .. Len(s) + Len(t) + Len(u) : (s \o t \o u)[i] = f[i]
  <2> SUFFICES ASSUME NEW i \in 1 .. Len(s) + Len(t) + Len(u) PROVE (s \o t \o u)[i] = f[i]
    OBVIOUS
  <2>1. CASE i <= Len(s) + Len(t)
    BY <1>2, <1>3, <1>4, <2>1
  <2>2. CASE i > Len(s) + Len(t)
    <3> DEFINE j == i - (Len(s) + Len(t))
    <3>1. j \in 1 .. Len(u) /\ Len(s) + Len(t) + j = i
      BY <1>3, <2>2
    <3>2. u[j] = f[Len(s) + Len(t) + j]
      BY <3>1
    <3> QED
      BY <1>2, <1>3, <2>2, <3>1, <3>2
  <2> QED
    BY <1>3, <2>1, <2>2
<1> QED
  BY <1>2, <1>5, SeqEqual

\* A byte counted from a block on is a byte of the file.
LEMMA ByteShift ==
    ASSUME NEW node, NEW b \in Nat, NEW j \in Nat
    PROVE  ByteOf(node, b, j) = ByteOf(node, 0, b * FOUR_KB + j)
<1>1. PICK q \in Nat, r \in 0 .. FOUR_KB - 1 :
        q = j \div FOUR_KB /\ r = j % FOUR_KB /\ j = q * FOUR_KB + r
  BY DivMod, DiskConstants
<1>2. b * FOUR_KB + j = (b + q) * FOUR_KB + r
  <2>1. (b + q) * FOUR_KB = b * FOUR_KB + q * FOUR_KB
    BY DiskConstants
  <2>2. b * FOUR_KB \in Int /\ q * FOUR_KB \in Int
    BY DiskConstants
  <2> QED
    BY <1>1, <2>1, <2>2
<1>3. (b * FOUR_KB + j) \div FOUR_KB = b + q /\ (b * FOUR_KB + j) % FOUR_KB = r
  <2>1. FOUR_KB \in Nat \ {0} /\ b + q \in Nat
    BY DiskConstants
  <2>2. ASSUME NEW i \in 0 .. FOUR_KB - 1
        PROVE  /\ ((b + q) * FOUR_KB + i) \div FOUR_KB = b + q
               /\ ((b + q) * FOUR_KB + i) % FOUR_KB = i
    BY <2>1, DivUnique
  <2> QED
    BY <1>2, <2>2
<1> QED
  BY <1>1, <1>3 DEF ByteOf

\* A file's blocks are there: its bytes, and the block of each, as long as a block.
LEMMA ByteThere ==
    ASSUME NEW n \in DOMAIN inodes, NEW q \in Nat, q * FOUR_KB < inodes[n].length
    PROVE  /\ data[inodes[n].data_blocks[q + 1]] \in Text
           /\ Len(data[inodes[n].data_blocks[q + 1]]) = FOUR_KB
           /\ \A r \in 0 .. FOUR_KB - 1 : data[inodes[n].data_blocks[q + 1]][r + 1] \in Characters
<1> DEFINE blocks == inodes[n].data_blocks
<1>1. /\ inodes[n].length \in Nat /\ blocks \in Seq(DOMAIN data) /\ FOUR_KB \in Nat \ {0}
      /\ inodes[n].length <= Len(blocks) * FOUR_KB /\ Len(blocks) \in Nat
  BY DiskConstants, LenProperties
<1>2. q < Len(blocks)
  <2>1. ASSUME Len(blocks) <= q PROVE FALSE
    <3>1. Len(blocks) * FOUR_KB <= q * FOUR_KB /\ q * FOUR_KB \in Nat /\ Len(blocks) * FOUR_KB \in Nat
      BY <1>1, <2>1, Times
    <3> QED
      BY <1>1, <3>1
  <2> QED
    BY <1>1, <2>1
<1>3. blocks[q + 1] \in DOMAIN data
  BY <1>1, <1>2, ElementOfSeq
<1>4. data[blocks[q + 1]] \in Seq(Characters) /\ Len(data[blocks[q + 1]]) = FOUR_KB
  BY <1>3, DiskConstants DEF Text
<1>5. \A r \in 0 .. FOUR_KB - 1 : r + 1 \in 1 .. FOUR_KB
  BY <1>1
<1> QED
  BY <1>4, <1>5, ElementOfSeq DEF Text

LEMMA BytesAreThere ==
    ASSUME NEW n \in DOMAIN inodes, NEW k \in 0 .. inodes[n].length - 1
    PROVE  ByteOf(inodes[n], 0, k) \in Characters /\ Contents(n)[k + 1] = ByteOf(inodes[n], 0, k)
<1>1. inodes[n].length \in Nat /\ k \in Nat /\ FOUR_KB \in Nat \ {0}
  BY DiskConstants
<1>2. PICK q \in Nat, r \in 0 .. FOUR_KB - 1 :
        q = k \div FOUR_KB /\ r = k % FOUR_KB /\ k = q * FOUR_KB + r
  BY <1>1, DivMod
<1>3. q * FOUR_KB < inodes[n].length
  <2>1. q * FOUR_KB \in Nat /\ r \in Nat
    BY <1>1
  <2>2. k < inodes[n].length
    BY <1>1
  <2>3. q * FOUR_KB <= k
    BY <1>2, <2>1
  <2> QED
    BY <1>1, <2>1, <2>2, <2>3
<1>4. ByteOf(inodes[n], 0, k) \in Characters
  <2>1. ByteOf(inodes[n], 0, k) = data[inodes[n].data_blocks[q + 1]][r + 1]
    BY <1>2 DEF ByteOf
  <2>2. data[inodes[n].data_blocks[q + 1]][r + 1] \in Characters
    BY <1>3, ByteThere
  <2> QED
    BY <2>1, <2>2
<1>5. k + 1 \in 1 .. inodes[n].length /\ (k + 1) - 1 = k
  BY <1>1
<1> QED
  BY <1>4, <1>5 DEF Contents

\* What read_data has to give: the bytes that follow, as many as there are.
Left(n, offset, length) ==
    IF offset >= inodes[n].length THEN 0 ELSE Least(length, inodes[n].length - offset)
Slice(n, offset, length) ==
    [k \in 1 .. Left(n, offset, length) |-> Contents(n)[offset + k]]

\* The part of the first block, of a read that starts inside it.
LEMMA FirstPartIs ==
    ASSUME NEW n \in DOMAIN inodes, NEW offset \in Nat, NEW m \in Nat,
           offset < inodes[n].length
    PROVE  LET head == FirstPart(inodes[n], offset, m)
           IN  /\ head \in Text /\ Len(head) <= m
               /\ \A i \in 1 .. Len(head) : head[i] = ByteOf(inodes[n], 0, offset + i - 1)
               /\ Len(head) < m => NextBlock(offset) * FOUR_KB = offset + Len(head)
               /\ NextBlock(offset) \in Nat
<1>1. inodes[n].length \in Nat /\ FOUR_KB \in Nat \ {0}
  BY DiskConstants
<1>2. PICK q \in Nat, r \in 0 .. FOUR_KB - 1 :
        q = offset \div FOUR_KB /\ r = offset % FOUR_KB /\ offset = q * FOUR_KB + r
  BY <1>1, DivMod
<1> DEFINE block == data[inodes[n].data_blocks[q + 1]]
           head == FirstPart(inodes[n], offset, m)
<1>3. /\ q * FOUR_KB \in Nat /\ q * FOUR_KB < inodes[n].length
      /\ (q + 1) * FOUR_KB = q * FOUR_KB + FOUR_KB
  <2>1. q * FOUR_KB \in Nat /\ (q + 1) * FOUR_KB = q * FOUR_KB + FOUR_KB /\ r \in Nat
    BY <1>1
  <2>2. q * FOUR_KB <= offset
    BY <1>2, <2>1
  <2> QED
    BY <1>1, <2>1, <2>2
<1>4. /\ block \in Seq(Characters) /\ Len(block) = FOUR_KB
      /\ \A k \in 0 .. FOUR_KB - 1 : block[k + 1] \in Characters
  BY <1>3, ByteThere DEF Text
<1>5. head = IF r = 0 THEN <<>> ELSE SubSeq(block, r + 1, Least(r + m, FOUR_KB))
  BY <1>2 DEF FirstPart
<1>6. CASE r = 0
  <2>1. head = <<>> /\ head \in Text /\ Len(head) = 0
    BY <1>5, <1>6 DEF Text
  <2>2. NextBlock(offset) = q
    <3>1. offset + FOUR_KB - 1 = q * FOUR_KB + (FOUR_KB - 1) /\ FOUR_KB - 1 \in 0 .. FOUR_KB - 1
      BY <1>1, <1>2, <1>3, <1>6
    <3> QED
      BY <1>1, <3>1, DivUnique DEF NextBlock
  <2> QED
    BY <1>2, <1>3, <1>6, <2>1, <2>2
<1>7. CASE r # 0
  <2> DEFINE to == Least(r + m, FOUR_KB)
  <2>1. to \in r .. FOUR_KB /\ to <= r + m /\ r + 1 \in Nat /\ to \in Nat
    BY <1>1, <1>7 DEF Least
  <2>2. \A i \in r + 1 .. to : block[i] \in Characters
    BY <1>1, <1>4, <2>1, ElementOfSeq
  <2> HIDE DEF to
  <2>3. /\ SubSeq(block, r + 1, to) \in Seq(Characters)
        /\ Len(SubSeq(block, r + 1, to)) = to - r
        /\ \A i \in 1 .. to - r : SubSeq(block, r + 1, to)[i] = block[r + i]
    <3>1. /\ SubSeq(block, r + 1, to) \in Seq(Characters)
          /\ Len(SubSeq(block, r + 1, to)) = IF r + 1 <= to THEN to - (r + 1) + 1 ELSE 0
          /\ \A i \in 1 .. to - (r + 1) + 1 : SubSeq(block, r + 1, to)[i] = block[r + 1 + i - 1]
      BY <2>1, <2>2, SubSeqProperties
    <3>2. to - (r + 1) + 1 = to - r /\ \A i \in 1 .. to - r : r + 1 + i - 1 = r + i
      BY <2>1
    <3> QED
      BY <2>1, <3>1, <3>2
  <2>4. head \in Seq(Characters) /\ Len(head) = to - r
    BY <1>5, <1>7, <2>3 DEF to
  <2>5. ASSUME NEW i \in 1 .. Len(head)
        PROVE  head[i] = ByteOf(inodes[n], 0, offset + i - 1)
    <3>1. i \in 1 .. to - r /\ r + i - 1 \in 0 .. FOUR_KB - 1
      BY <1>1, <2>1, <2>4
    <3>2. offset + i - 1 = q * FOUR_KB + (r + i - 1)
      BY <1>2, <1>3, <3>1
    <3>3. (offset + i - 1) \div FOUR_KB = q /\ (offset + i - 1) % FOUR_KB = r + i - 1
      <4>1. ASSUME NEW j \in 0 .. FOUR_KB - 1
            PROVE  (q * FOUR_KB + j) \div FOUR_KB = q /\ (q * FOUR_KB + j) % FOUR_KB = j
        BY <1>1, DivUnique
      <4> QED
        BY <3>1, <3>2, <4>1
    <3>4. (r + i - 1) + 1 = r + i /\ 0 + q + 1 = q + 1
      BY <3>1
    <3>5. ByteOf(inodes[n], 0, offset + i - 1) = block[r + i]
      BY <3>3, <3>4 DEF ByteOf
    <3>6. head[i] = block[r + i]
      BY <1>5, <1>7, <2>3, <3>1 DEF to
    <3> QED
      BY <3>5, <3>6
  <2>6. NextBlock(offset) = q + 1
    <3>1. /\ offset + FOUR_KB - 1 = (q + 1) * FOUR_KB + (r - 1)
          /\ r - 1 \in 0 .. FOUR_KB - 1 /\ q + 1 \in Nat
      BY <1>1, <1>2, <1>3, <1>7
    <3>2. ((q + 1) * FOUR_KB + (r - 1)) \div FOUR_KB = q + 1
      BY <1>1, <3>1, DivUnique
    <3> QED
      BY <3>1, <3>2 DEF NextBlock
  <2>7. Len(head) < m => to = FOUR_KB
    BY <1>1, <2>1, <2>4 DEF to, Least
  <2>8. Len(head) < m => NextBlock(offset) * FOUR_KB = offset + Len(head)
    <3>1. PICK z \in Nat : z = q * FOUR_KB
      BY <1>3
    <3>2. NextBlock(offset) * FOUR_KB = z + FOUR_KB
      BY <1>3, <2>6, <3>1
    <3>3. Len(head) < m => offset + Len(head) = z + FOUR_KB
      BY <1>1, <1>2, <2>4, <2>7, <3>1, SMTT(30)
    <3> QED
      BY <3>2, <3>3
  <2>9. head \in Text /\ Len(head) <= m /\ NextBlock(offset) \in Nat
    BY <1>2, <2>1, <2>4, <2>6, SMTT(30) DEF Text
  <2> QED
    BY <2>5, <2>8, <2>9
<1> QED
  BY <1>2, <1>6, <1>7

\* Whole blocks and the beginning of one are the bytes from there on.
LEMMA BlocksAre ==
    ASSUME NEW n \in DOMAIN inodes, NEW b \in Nat, NEW m \in Nat,
           m > 0 => b * FOUR_KB + m * FOUR_KB <= inodes[n].length
    PROVE  LET whole == WholeBlocks(inodes[n], b, m)
           IN  /\ whole \in Text /\ Len(whole) = m * FOUR_KB
               /\ \A i \in 1 .. Len(whole) :
                     whole[i] = ByteOf(inodes[n], 0, b * FOUR_KB + (i - 1))
<1> DEFINE whole == WholeBlocks(inodes[n], b, m)
<1>1. /\ inodes[n].length \in Nat /\ FOUR_KB \in Nat \ {0}
      /\ m * FOUR_KB \in Nat /\ b * FOUR_KB \in Nat
  BY DiskConstants
<1>2. ASSUME NEW i \in 1 .. m * FOUR_KB
      PROVE  /\ whole[i] = ByteOf(inodes[n], 0, b * FOUR_KB + (i - 1))
             /\ whole[i] \in Characters
  <2>1. i - 1 \in Nat /\ b * FOUR_KB + (i - 1) \in 0 .. inodes[n].length - 1
    <3>1. m # 0
      BY <1>1
    <3> QED
      BY <1>1, <3>1
  <2>2. whole[i] = ByteOf(inodes[n], b, i - 1)
    BY DEF WholeBlocks
  <2> QED
    BY <2>1, <2>2, ByteShift, BytesAreThere
<1>3. whole \in [1 .. m * FOUR_KB -> Characters]
  BY <1>2 DEF WholeBlocks
<1>4. whole \in Seq(Characters)
  BY <1>1, <1>3, SeqDef
<1>5. Len(whole) = m * FOUR_KB
  BY <1>1, <1>3, <1>4, LenProperties
<1> QED
  BY <1>2, <1>4, <1>5 DEF Text

LEMMA RestIs ==
    ASSUME NEW n \in DOMAIN inodes, NEW b \in Nat, NEW m \in 0 .. FOUR_KB - 1,
           m > 0 => b * FOUR_KB + m <= inodes[n].length
    PROVE  LET rest == Rest(inodes[n], b, m)
           IN  /\ rest \in Text /\ Len(rest) = m
               /\ \A i \in 1 .. Len(rest) :
                     rest[i] = ByteOf(inodes[n], 0, b * FOUR_KB + (i - 1))
<1>1. inodes[n].length \in Nat /\ FOUR_KB \in Nat \ {0} /\ b * FOUR_KB \in Nat
  BY DiskConstants
<1>2. CASE m = 0
  <2>1. Rest(inodes[n], b, m) = <<>>
    BY <1>2 DEF Rest
  <2>2. <<>> \in Seq(Characters) /\ Len(<<>>) = 0 /\ 1 .. 0 = {}
    BY EmptySeq
  <2> QED
    BY <1>2, <2>1, <2>2 DEF Text
<1>3. CASE m # 0
  <2> DEFINE block == data[inodes[n].data_blocks[b + 1]]
  <2>1. block \in Seq(Characters) /\ Len(block) = FOUR_KB
    <3>1. b * FOUR_KB < inodes[n].length
      BY <1>1, <1>3
    <3> QED
      BY <3>1, ByteThere DEF Text
  <2>2. Rest(inodes[n], b, m) = SubSeq(block, 1, m)
    BY <1>3 DEF Rest
  <2>3. /\ SubSeq(block, 1, m) \in Seq(Characters) /\ Len(SubSeq(block, 1, m)) = m
        /\ \A i \in 1 .. m : SubSeq(block, 1, m)[i] = block[i]
    <3>1. \A i \in 1 .. m : block[i] \in Characters /\ 1 + i - 1 = i
      BY <1>1, <2>1, ElementOfSeq
    <3>2. m \in Int /\ m >= 1 /\ m - 1 + 1 = m
      BY <1>1, <1>3
    <3>3. /\ SubSeq(block, 1, m) \in Seq(Characters)
          /\ Len(SubSeq(block, 1, m)) = IF 1 <= m THEN m - 1 + 1 ELSE 0
          /\ \A i \in 1 .. m - 1 + 1 : SubSeq(block, 1, m)[i] = block[1 + i - 1]
      BY <3>1, <3>2, SubSeqProperties
    <3> QED
      BY <3>1, <3>2, <3>3
  <2>4. ASSUME NEW i \in 1 .. m
        PROVE  block[i] = ByteOf(inodes[n], 0, b * FOUR_KB + (i - 1))
    <3>1. i - 1 \in 0 .. FOUR_KB - 1
      BY <1>1
    <3>2. (b * FOUR_KB + (i - 1)) \div FOUR_KB = b /\ (b * FOUR_KB + (i - 1)) % FOUR_KB = i - 1
      BY <1>1, <3>1, DivUnique
    <3>3. 0 + b + 1 = b + 1 /\ (i - 1) + 1 = i
      BY <3>1
    <3> QED
      BY <3>2, <3>3 DEF ByteOf
  <2> QED
    BY <2>2, <2>3, <2>4 DEF Text
<1> QED
  BY <1>2, <1>3

\* Wherever the blocks of a file lie and a read starts, read_data gives the bytes
\* of the file from there on, up to its end and no more (filesys.c:84-163).
THEOREM ReadIsSlice ==
    ASSUME NEW n \in DOMAIN inodes, NEW offset \in Nat, NEW length \in Nat
    PROVE  read_data(n, offset, length) = Slice(n, offset, length)
<1> DEFINE node == inodes[n]
           m == Least(length, node.length - offset)
           head == FirstPart(node, offset, m)
           left == m - Len(head)
           w == left \div FOUR_KB
           nb == NextBlock(offset)
           whole == WholeBlocks(node, nb, w)
           rest == Rest(node, nb + w, left % FOUR_KB)
           f == [k \in 1 .. m |-> Contents(n)[offset + k]]
<1>0. node.length \in Nat /\ FOUR_KB \in Nat \ {0}
  BY DiskConstants
<1>1. CASE offset >= node.length
  <2>1. read_data(n, offset, length) = <<>>
    BY <1>1 DEF read_data
  <2>2. Slice(n, offset, length) = <<>>
    BY <1>1 DEF Slice, Left
  <2> QED
    BY <2>1, <2>2
<1>2. CASE offset < node.length
  <2>1. m \in Nat /\ offset + m <= node.length
    BY <1>0, <1>2 DEF Least
  <2>2. /\ head \in Seq(Characters) /\ Len(head) <= m /\ Len(head) \in Nat /\ nb \in Nat
        /\ \A i \in 1 .. Len(head) : head[i] = ByteOf(node, 0, offset + i - 1)
        /\ Len(head) < m => nb * FOUR_KB = offset + Len(head)
    <3> HIDE DEF m
    <3>1. head \in Text /\ Len(head) <= m /\ nb \in Nat
      BY <1>2, <2>1, FirstPartIs
    <3>2. Len(head) \in Nat
      BY <3>1, LenProperties DEF Text
    <3> QED
      BY <1>2, <2>1, <3>1, <3>2, FirstPartIs DEF Text
  <2>3. left \in Nat /\ w \in Nat /\ left % FOUR_KB \in 0 .. FOUR_KB - 1
        /\ left = w * FOUR_KB + (left % FOUR_KB)
    <3>1. left \in Nat
      BY <2>1, <2>2
    <3> QED
      BY <1>0, <3>1, DivMod
  <2> HIDE DEF m, head, left, w, nb
  <2>4. PICK rem \in 0 .. FOUR_KB - 1, h \in Nat, ws \in Nat, ns \in Nat :
          rem = left % FOUR_KB /\ h = Len(head) /\ ws = w * FOUR_KB /\ ns = nb * FOUR_KB
    BY <1>0, <2>2, <2>3
  <2>5. h + ws + rem = m /\ (h < m => ns = offset + h)
    <3>1. left = m - h
      BY <2>4 DEF left
    <3>2. left = ws + rem
      BY <2>3, <2>4
    <3>3. h + ws + rem = m
      BY <2>1, <3>1, <3>2
    <3>4. h < m => ns = offset + h
      BY <2>2, <2>4
    <3> QED
      BY <3>3, <3>4
  <2>6. w > 0 => h < m /\ ns + ws <= node.length
    <3>1. w > 0 => ws > 0
      BY <1>0, <2>3, <2>4
    <3> QED
      BY <1>0, <2>1, <2>5, <3>1
  <2>7. nb + w \in Nat /\ (nb + w) * FOUR_KB = ns + ws
    BY <1>0, <2>2, <2>3, <2>4
  <2>8. /\ whole \in Seq(Characters) /\ Len(whole) = ws
        /\ \A i \in 1 .. Len(whole) : whole[i] = ByteOf(node, 0, ns + (i - 1))
    BY <2>2, <2>3, <2>4, <2>6, BlocksAre DEF Text
  <2>9. /\ rest \in Seq(Characters) /\ Len(rest) = rem
        /\ \A i \in 1 .. Len(rest) : rest[i] = ByteOf(node, 0, ns + ws + (i - 1))
    <3>1. rem > 0 => (nb + w) * FOUR_KB + rem <= node.length
      BY <1>0, <2>1, <2>5, <2>7
    <3>2. /\ rest \in Text /\ Len(rest) = rem
          /\ \A i \in 1 .. Len(rest) : rest[i] = ByteOf(node, 0, (nb + w) * FOUR_KB + (i - 1))
      BY <2>4, <2>7, <3>1, RestIs, SMTT(30)
    <3> QED
      BY <2>7, <3>2 DEF Text
  <2>10. \A k \in 1 .. m : f[k] = ByteOf(node, 0, offset + k - 1)
    <3> SUFFICES ASSUME NEW k \in 1 .. m PROVE f[k] = ByteOf(node, 0, offset + k - 1)
      OBVIOUS
    <3>1. offset + k - 1 \in 0 .. node.length - 1 /\ (offset + k - 1) + 1 = offset + k
      BY <1>0, <2>1
    <3> QED
      BY <3>1, BytesAreThere
  <2>11. \A i \in 1 .. Len(head) : head[i] = f[i]
    <3>1. \A i \in 1 .. Len(head) : i \in 1 .. m
      BY <2>1, <2>2
    <3> QED
      BY <2>2, <2>10, <3>1
  <2>12. \A i \in 1 .. Len(whole) : whole[i] = f[Len(head) + i]
    <3> SUFFICES ASSUME NEW i \in 1 .. ws PROVE whole[i] = f[h + i]
      BY <2>4, <2>8
    <3>1. h < m /\ h + i \in 1 .. m
      BY <2>1, <2>5
    <3>2. offset + (h + i) - 1 = ns + (i - 1)
      BY <2>5, <3>1
    <3>3. f[h + i] = ByteOf(node, 0, offset + (h + i) - 1)
      BY <2>10, <3>1
    <3> QED
      BY <2>8, <3>2, <3>3
  <2>13. \A i \in 1 .. Len(rest) : rest[i] = f[Len(head) + Len(whole) + i]
    <3> SUFFICES ASSUME NEW i \in 1 .. rem PROVE rest[i] = f[h + ws + i]
      BY <2>4, <2>8, <2>9
    <3>1. h < m /\ h + ws + i \in 1 .. m
      BY <2>1, <2>5
    <3>2. offset + (h + ws + i) - 1 = ns + ws + (i - 1)
      BY <2>5, <3>1
    <3>3. f[h + ws + i] = ByteOf(node, 0, offset + (h + ws + i) - 1)
      BY <2>10, <3>1
    <3> QED
      BY <2>9, <3>2, <3>3
  <2>14. head \o whole \o rest = f
    <3>1. \A k \in 1 .. m : f[k] \in Characters
      <4>1. \A k \in 1 .. m : offset + k - 1 \in 0 .. node.length - 1
        BY <1>0, <2>1
      <4> QED
        BY <2>10, <4>1, BytesAreThere
    <3>2. f \in [1 .. m -> Characters]
      BY <3>1
    <3>3. f \in Seq(Characters)
      BY <2>1, <3>2, SeqDef
    <3>4. Len(f) = m
      BY <2>1, <3>2, <3>3, LenProperties
    <3> HIDE DEF whole, rest, f
    <3>5. Len(f) = Len(head) + Len(whole) + Len(rest)
      BY <2>4, <2>5, <2>8, <2>9, <3>4
    <3> QED
      BY <2>2, <2>8, <2>9, <2>11, <2>12, <2>13, <3>3, <3>5, Joined, ZenonT(60)
  <2>15. read_data(n, offset, length) = head \o whole \o rest
    BY <1>0, <1>2 DEF read_data, m, head, left, w, nb
  <2>16. Slice(n, offset, length) = f
    BY <1>0, <1>2 DEF Slice, Left, m
  <2> QED
    BY <2>14, <2>15, <2>16
<1> QED
  BY <1>0, <1>1, <1>2

\* What a read finds is text, no more of it than asked for and than there is.
LEMMA ReadFacts ==
    ASSUME NEW n \in DOMAIN inodes, NEW offset \in Nat, NEW length \in Nat
    PROVE  /\ read_data(n, offset, length) \in Text
           /\ Len(read_data(n, offset, length)) = Left(n, offset, length)
           /\ Left(n, offset, length) \in 0 .. length
           /\ offset <= inodes[n].length =>
                offset + Left(n, offset, length) <= inodes[n].length
           /\ \A k \in 1 .. Left(n, offset, length) :
                read_data(n, offset, length)[k] = ByteOf(inodes[n], 0, offset + k - 1)
<1> DEFINE m == Left(n, offset, length)
<1>1. inodes[n].length \in Nat
  BY DiskConstants
<1>2. /\ m \in 0 .. length /\ m \in Nat
      /\ offset <= inodes[n].length => offset + m <= inodes[n].length
      /\ \A k \in 1 .. m : offset + k - 1 \in 0 .. inodes[n].length - 1
  BY <1>1 DEF Left, Least
<1> HIDE DEF m
<1>3. ASSUME NEW k \in 1 .. m
      PROVE  /\ Contents(n)[offset + k] = ByteOf(inodes[n], 0, offset + k - 1)
             /\ Contents(n)[offset + k] \in Characters
  <2>1. offset + k - 1 \in 0 .. inodes[n].length - 1 /\ (offset + k - 1) + 1 = offset + k
    BY <1>2
  <2> QED
    BY <2>1, BytesAreThere
<1>4. Slice(n, offset, length) = [k \in 1 .. m |-> Contents(n)[offset + k]]
  BY DEF Slice, m
<1>5. Slice(n, offset, length) \in [1 .. m -> Characters]
  BY <1>3, <1>4
<1>6. Slice(n, offset, length) \in Seq(Characters)
  BY <1>2, <1>5, SeqDef
<1>7. Len(Slice(n, offset, length)) = m
  BY <1>2, <1>5, <1>6, LenProperties
<1> QED
  BY <1>2, <1>3, <1>4, <1>6, <1>7, ReadIsSlice DEF Text, m

\* A file that is read at once, as execute does, is read whole.
LEMMA LoadIsWhole ==
    ASSUME NEW n \in DOMAIN inodes
    PROVE  read_data(n, 0, inodes[n].length) = Contents(n)
<1>1. inodes[n].length \in Nat
  BY DiskConstants
<1>2. Left(n, 0, inodes[n].length) = inodes[n].length
  BY <1>1 DEF Left, Least
<1>3. Slice(n, 0, inodes[n].length) = [k \in 1 .. inodes[n].length |-> Contents(n)[0 + k]]
  BY <1>2 DEF Slice
<1>4. \A k \in 1 .. inodes[n].length : Contents(n)[0 + k] = Contents(n)[k]
  BY <1>1
<1>5. Contents(n) = [k \in 1 .. inodes[n].length |-> Contents(n)[k]]
  BY DEF Contents
<1> QED
  BY <1>1, <1>3, <1>4, <1>5, ReadIsSlice

-----------------------------------------------------------------------------
(* Names and strings *)

\* Strings that fit are the same up to the length of a name only if they are.
LEMMA SameIsEqual ==
    ASSUME NEW s \in Text, NEW t \in Text,
           Len(s) <= DENTRY_FILE_NAME_LEN, Len(t) <= DENTRY_FILE_NAME_LEN
    PROVE  SameUpTo(s, t, DENTRY_FILE_NAME_LEN) <=> s = t
<1>1. Len(s) \in Nat /\ Len(t) \in Nat
  BY LenProperties DEF Text
<1>2. /\ Least(DENTRY_FILE_NAME_LEN, Len(s)) = Len(s)
      /\ Least(DENTRY_FILE_NAME_LEN, Len(t)) = Len(t)
  BY <1>1, DiskConstants DEF Least
<1>3. SubSeq(s, 1, Len(s)) = s /\ SubSeq(t, 1, Len(t)) = t
  BY SubSeqFull DEF Text
<1> QED
  BY <1>2, <1>3 DEF SameUpTo

\* A lookup finds the first entry of that name, and finds one if there is one
\* (filesys.c:24-52).
THEOREM FoundByName ==
    ASSUME NEW fname \in Text
    PROVE  /\ read_dentry_by_name(fname) # 0 =>
                /\ read_dentry_by_name(fname) \in DOMAIN direntries
                /\ Names(read_dentry_by_name(fname), fname)
           /\ read_dentry_by_name(fname) = 0 =>
                \A k \in DOMAIN direntries : direntries[k].filename # fname
<1> DEFINE hits == {k \in 1 .. Len(direntries) :
                      SameUpTo(direntries[k].filename, fname, DENTRY_FILE_NAME_LEN)}
<1>1. /\ Len(direntries) \in Nat /\ DOMAIN direntries = 1 .. Len(direntries)
      /\ \A k \in DOMAIN direntries :
            /\ direntries[k].filename \in Text
            /\ Len(direntries[k].filename) \in 1 .. DENTRY_FILE_NAME_LEN
  <2>1. /\ Len(direntries) \in Nat /\ DOMAIN direntries = 1 .. Len(direntries)
        /\ \A k \in 1 .. Len(direntries) : direntries[k] \in Entries
    BY DiskConstants, LenProperties, ElementOfSeq
  <2> QED
    BY <2>1, DiskConstants DEF Entries
<1>2. Len(fname) \in Nat /\ DENTRY_FILE_NAME_LEN \in Nat
  BY DiskConstants, LenProperties DEF Text
<1>3. CASE Len(fname) > DENTRY_FILE_NAME_LEN
  <2>1. read_dentry_by_name(fname) = 0
    BY <1>3 DEF read_dentry_by_name
  <2>2. \A k \in DOMAIN direntries : direntries[k].filename # fname
    BY <1>1, <1>2, <1>3
  <2> QED
    BY <2>1, <2>2
<1>4. CASE Len(fname) <= DENTRY_FILE_NAME_LEN
  <2>1. read_dentry_by_name(fname) = IF hits # {} THEN Min(hits) ELSE 0
    BY <1>2, <1>4 DEF read_dentry_by_name, SelectInSeq
  <2>2. \A k \in DOMAIN direntries : k \in hits <=> direntries[k].filename = fname
    BY <1>1, <1>4, SameIsEqual
  <2>3. hits # {} => Min(hits) \in hits /\ \A k \in hits : Min(hits) <= k
    <3>1. hits \subseteq Nat
      BY <1>1
    <3> QED
      BY <3>1, MinIs
  <2> HIDE DEF hits
  <2>4. hits \subseteq DOMAIN direntries /\ hits \subseteq 1 .. Len(direntries)
    BY <1>1 DEF hits
  <2>5. CASE hits # {}
    <3>1. \A m \in 1 .. Min(hits) - 1 : m \in DOMAIN direntries /\ m \notin hits
      BY <1>1, <2>3, <2>4, <2>5
    <3> QED
      BY <2>1, <2>2, <2>3, <2>4, <2>5, <3>1 DEF Names
  <2> QED
    BY <2>1, <2>2, <2>5
<1> QED
  BY <1>2, <1>3, <1>4
-----------------------------------------------------------------------------
(* parse_args, get_file_name and getargs *)

LEMMA Start ==
    ASSUME NEW s \in Text, NEW k \in 1 .. Len(s)
    PROVE  /\ SubSeq(s, 1, k - 1) \in Text /\ Len(SubSeq(s, 1, k - 1)) = k - 1
           /\ \A i \in 1 .. k - 1 : SubSeq(s, 1, k - 1)[i] = s[i]
<1>1. Len(s) \in Nat
  BY LenProperties DEF Text
<1>2. \A i \in 1 .. k - 1 : s[i] \in Characters
  BY <1>1, ElementOfSeq DEF Text
<1>3. k - 1 \in Int /\ 1 \in Int
  BY <1>1
<1> QED
  BY <1>1, <1>2, <1>3, SubSeqProperties DEF Text

LEMMA End ==
    ASSUME NEW s \in Text, NEW k \in 1 .. Len(s)
    PROVE  SubSeq(s, k, Len(s)) \in Text /\ Len(SubSeq(s, k, Len(s))) = Len(s) - k + 1
<1>1. PICK n \in Nat : n = Len(s)
  BY LenProperties DEF Text
<1>2. \A i \in k .. n : s[i] \in Characters
  BY <1>1, ElementOfSeq DEF Text
<1>3. k \in Int /\ n \in Int /\ k <= n
  BY <1>1
<1>4. /\ SubSeq(s, k, n) \in Seq(Characters)
      /\ Len(SubSeq(s, k, n)) = IF k <= n THEN n - k + 1 ELSE 0
  BY <1>2, <1>3, SubSeqProperties
<1> QED
  BY <1>1, <1>3, <1>4 DEF Text

\* The string is cut at its first newline, if that is near enough.
LEMMA EndedIs ==
    ASSUME NEW s \in Text, NEW n \in Nat
    PROVE  \/ (\A i \in 1 .. Len(s) : s[i] # eol) /\ Ended(s, n) = s
           \/ \E k \in 1 .. Len(s) :
                /\ s[k] = eol /\ \A i \in 1 .. k - 1 : s[i] # eol
                /\ Ended(s, n) = IF k <= n THEN SubSeq(s, 1, k - 1) ELSE s
<1> DEFINE ends == {i \in 1 .. Len(s) : s[i] = eol}
           first == IF ends # {} THEN Min(ends) ELSE 0
<1>1. Ended(s, n) = IF first \in 1 .. n THEN SubSeq(s, 1, first - 1) ELSE s
  BY DEF Ended, SelectInSeq
<1>2. Len(s) \in Nat
  BY LenProperties DEF Text
<1>3. CASE ends = {}
  <2>1. \A i \in 1 .. Len(s) : s[i] # eol
    BY <1>3
  <2>2. first = 0
    BY <1>3
  <2> QED
    BY <1>1, <2>1, <2>2
<1>4. CASE ends # {}
  <2>1. ends \subseteq Nat
    OBVIOUS
  <2>2. Min(ends) \in ends /\ \A i \in ends : Min(ends) <= i
    BY <1>4, <2>1, MinIs
  <2>3. PICK k \in 1 .. Len(s) : k = first /\ s[k] = eol /\ \A i \in ends : k <= i
    BY <1>4, <2>2
  <2>4. \A i \in 1 .. k - 1 : s[i] # eol
    BY <1>2, <2>3
  <2> HIDE DEF first
  <2>5. Ended(s, n) = IF k <= n THEN SubSeq(s, 1, k - 1) ELSE s
    BY <1>1, <1>2, <2>3
  <2> QED
    BY <2>3, <2>4, <2>5
<1> QED
  BY <1>3, <1>4

\* getargs may be called twice: an end that is marked stays where it is.
LEMMA EndedOnce ==
    ASSUME NEW s \in Text, NEW n \in Nat
    PROVE  Ended(s, n) \in Text /\ Ended(Ended(s, n), n) = Ended(s, n)
<1>1. CASE Ended(s, n) = s
  BY <1>1
<1>2. CASE Ended(s, n) # s
  <2>1. PICK k \in 1 .. Len(s) :
          (\A i \in 1 .. k - 1 : s[i] # eol) /\ Ended(s, n) = SubSeq(s, 1, k - 1)
    BY <1>2, EndedIs
  <2>2. PICK r \in Text : /\ r = Ended(s, n) /\ Len(r) = k - 1
                          /\ \A i \in 1 .. k - 1 : r[i] # eol
    BY <2>1, Start
  <2>3. Ended(r, n) = r
    BY <2>2, EndedIs
  <2> QED
    BY <2>2, <2>3
<1> QED
  BY <1>1, <1>2

\* What getargs accepts is what stood in front of the newline.
LEMMA FitsWhole ==
    ASSUME NEW b \in Text, \A i \in 1 .. Len(b) : b[i] # eol, NEW n \in Nat,
           ArgumentsFit(Ended(Append(b, eol), n), n)
    PROVE  Ended(Append(b, eol), n) = b
<1>1. PICK s \in Text : /\ s = Append(b, eol) /\ Len(s) = Len(b) + 1 /\ s[Len(b) + 1] = eol
                        /\ \A i \in 1 .. Len(b) : s[i] = b[i]
  <2>1. eol \in Characters /\ b \in Seq(Characters)
    BY DiskConstants DEF Text, eol, newline
  <2>2. /\ Append(b, eol) \in Seq(Characters) /\ Len(Append(b, eol)) = Len(b) + 1
        /\ \A i \in 1 .. Len(b) : Append(b, eol)[i] = b[i]
        /\ Append(b, eol)[Len(b) + 1] = eol
    BY <2>1, AppendProperties
  <2> QED
    BY <2>2 DEF Text
<1>2. Len(b) \in Nat /\ Len(b) + 1 \in 1 .. Len(s)
  BY <1>1, LenProperties DEF Text
<1>3. PICK k \in 1 .. Len(s) :
        /\ s[k] = eol /\ \A i \in 1 .. k - 1 : s[i] # eol
        /\ Ended(s, n) = IF k <= n THEN SubSeq(s, 1, k - 1) ELSE s
  BY <1>1, <1>2, EndedIs
<1>4. k = Len(b) + 1
  BY <1>1, <1>2, <1>3
<1>5. k <= n
  <2>1. CASE k > n
    BY <1>1, <1>2, <1>3, <1>4, <2>1 DEF ArgumentsFit
  <2> QED
    BY <1>2, <1>4, <2>1
<1>6. /\ SubSeq(s, 1, k - 1) \in Text /\ Len(SubSeq(s, 1, k - 1)) = k - 1
      /\ \A i \in 1 .. k - 1 : SubSeq(s, 1, k - 1)[i] = s[i]
  BY Start
<1>7. SubSeq(s, 1, k - 1) = b
  BY <1>1, <1>2, <1>4, <1>6, SeqEqual DEF Text
<1> QED
  BY <1>1, <1>3, <1>5, <1>7

IsLine(line) ==
    /\ line \in Text /\ line # <<>>
    /\ \A k \in DOMAIN line : line[k] = eol <=> k = Len(line)

\* A line has a first word, and the name ends at the first space or newline
\* behind the beginning of that word.
LEMMA NameIs ==
    ASSUME NEW line, IsLine(line)
    PROVE  \E word, end \in 1 .. Len(line) :
              /\ word <= end
              /\ FirstWord(line) = word
              /\ \A i \in 1 .. word - 1 : line[i] = space
              /\ line[word] # space
              /\ line[end] \in {space, eol}
              /\ \A i \in word .. end - 1 : line[i] \notin {space, eol}
              /\ get_file_name(line) = SubSeq(line, 1, end - 1)
<1>1. /\ Len(line) \in Nat \ {0} /\ DOMAIN line = 1 .. Len(line) /\ line[Len(line)] = eol
      /\ eol # space
  <2>1. Len(line) \in Nat /\ Len(line) # 0 /\ DOMAIN line = 1 .. Len(line)
    BY LenProperties, EmptySeq DEF IsLine, Text
  <2>2. Len(line) \in DOMAIN line
    BY <2>1
  <2> QED
    BY <2>1, <2>2 DEF IsLine, eol, space
<1> DEFINE letters == {i \in 1 .. Len(line) : line[i] # space}
<1>2. PICK word \in 1 .. Len(line) :
        /\ FirstWord(line) = word /\ line[word] # space
        /\ \A i \in 1 .. word - 1 : line[i] = space
  <2>1. Len(line) \in letters
    BY <1>1
  <2>2. letters \subseteq Nat
    OBVIOUS
  <2>3. Min(letters) \in letters /\ \A i \in letters : Min(letters) <= i
    BY <2>1, <2>2, MinIs
  <2>4. FirstWord(line) = Min(letters)
    BY <2>1 DEF FirstWord, SelectInSeq
  <2>5. PICK word \in letters : FirstWord(line) = word /\ \A i \in letters : word <= i
    BY <2>3, <2>4
  <2>6. \A i \in 1 .. word - 1 : line[i] = space
    BY <1>1, <2>5
  <2> QED
    BY <2>5, <2>6
<1> DEFINE ends == {i \in word .. Len(line) : line[i] \in {space, eol}}
<1>3. PICK end \in 1 .. Len(line) :
        /\ word <= end /\ line[end] \in {space, eol}
        /\ \A i \in word .. end - 1 : line[i] \notin {space, eol}
        /\ get_file_name(line) = SubSeq(line, 1, end - 1)
  <2>1. Len(line) \in ends
    BY <1>1
  <2>2. ends \subseteq Nat
    BY <1>1
  <2>3. Min(ends) \in ends /\ \A i \in ends : Min(ends) <= i
    BY <2>1, <2>2, MinIs
  <2>4. get_file_name(line) = SubSeq(line, 1, Min(ends) - 1)
    <3>1. get_file_name(line) =
            IF FirstWord(line) = 0 \/ (IF ends # {} THEN Min(ends) ELSE 0) = 0 THEN line
            ELSE SubSeq(line, 1, (IF ends # {} THEN Min(ends) ELSE 0) - 1)
      BY <1>2 DEF get_file_name, SelectInSubSeq
    <3>2. Min(ends) # 0 /\ FirstWord(line) # 0
      BY <1>1, <1>2, <2>3
    <3> QED
      BY <2>1, <3>1, <3>2
  <2>5. PICK end \in ends : end = Min(ends) /\ \A i \in ends : end <= i
    BY <2>3
  <2>6. \A i \in word .. end - 1 : line[i] \notin {space, eol}
    BY <1>1, <2>5
  <2>7. end \in 1 .. Len(line) /\ word <= end
    BY <1>1, <2>5
  <2> QED
    BY <2>4, <2>5, <2>6, <2>7
<1> QED
  BY <1>2, <1>3

LEMMA WordAndRest ==
    ASSUME NEW f \in Text, NEW e \in 1 .. Len(f), f[e] = space,
           NEW s \in Text, Len(s) = e - 1, \A i \in 1 .. Len(s) : s[i] = f[i],
           NEW u \in Text, Len(f) = e + Len(u), \A i \in 1 .. Len(u) : u[i] = f[e + i]
    PROVE  s \o <<space>> \o u = f
<1>1. PICK gap \in Seq(Characters) : gap = <<space>> /\ Len(gap) = 1 /\ gap[1] = space
  <2>1. /\ <<space>> \in Seq(Characters) /\ Len(<<space>>) = 1
        /\ <<space>>[1] = space
    BY ProgramConstants
  <2> QED
    BY <2>1
<1>2. Len(f) \in Nat /\ Len(u) \in Nat /\ Len(s) + 1 = e
  BY LenProperties DEF Text
<1>3. \A i \in 1 .. Len(gap) : gap[i] = f[Len(s) + i]
  BY <1>1, <1>2
<1>4. \A i \in 1 .. Len(u) : u[i] = f[Len(s) + Len(gap) + i]
  BY <1>1, <1>2
<1>5. Len(f) = Len(s) + Len(gap) + Len(u)
  BY <1>1, <1>2
<1>6. gap \in Seq(Characters)
  BY <1>1
<1>7. s \o gap \o u = f
  BY <1>3, <1>4, <1>5, <1>6, Joined, ZenonT(60) DEF Text
<1> QED
  BY <1>1, <1>7

\* What parse_args keeps of a line whose first word has no space in front of it
\* is what stands behind the space after the word, its newline included.
LEMMA CommandTaken ==
    ASSUME NEW line, IsLine(line), NEW stored, space \notin ToSet(get_file_name(line))
    PROVE  \/ parse_args(line, stored) = NoArguments
           \/ \E b \in Text : /\ parse_args(line, stored) = Append(b, eol)
                              /\ IsSplit(line, get_file_name(line), b)
                              /\ \A i \in 1 .. Len(b) : b[i] # eol
<1>1. PICK word \in 1 .. Len(line), end \in 1 .. Len(line) :
        /\ word <= end
        /\ FirstWord(line) = word
        /\ \A i \in 1 .. word - 1 : line[i] = space
        /\ line[word] # space
        /\ line[end] \in {space, eol}
        /\ \A i \in word .. end - 1 : line[i] \notin {space, eol}
        /\ get_file_name(line) = SubSeq(line, 1, end - 1)
  BY NameIs
<1>2. PICK n \in Nat \ {0} :
        /\ n = Len(line) /\ DOMAIN line = 1 .. n /\ line \in Text
        /\ \A i \in 1 .. n : line[i] \in Characters
        /\ \A i \in 1 .. n : line[i] = eol <=> i = n
  <2>1. Len(line) \in Nat /\ Len(line) # 0 /\ DOMAIN line = 1 .. Len(line)
    BY LenProperties, EmptySeq DEF IsLine, Text
  <2>2. \A i \in 1 .. Len(line) : line[i] \in Characters
    BY ElementOfSeq DEF IsLine, Text
  <2>3. line \in Text /\ \A i \in 1 .. Len(line) : line[i] = eol <=> i = Len(line)
    BY <2>1 DEF IsLine
  <2>4. Len(line) \in Nat \ {0}
    BY <2>1
  <2> HIDE DEF IsLine
  <2> QED
    BY <2>1, <2>2, <2>3, <2>4
<1>3. PICK name0 \in Text :
        /\ name0 = get_file_name(line) /\ Len(name0) = end - 1
        /\ \A i \in 1 .. end - 1 : name0[i] = line[i] /\ line[i] # space
  <2>1. /\ SubSeq(line, 1, end - 1) \in Text /\ Len(SubSeq(line, 1, end - 1)) = end - 1
        /\ \A i \in 1 .. end - 1 : SubSeq(line, 1, end - 1)[i] = line[i]
    BY <1>2, Start
  <2>2. DOMAIN SubSeq(line, 1, end - 1) = 1 .. end - 1
    BY <2>1, LenProperties DEF Text
  <2>3. \A i \in 1 .. end - 1 : line[i] # space
    BY <1>1, <2>1, <2>2 DEF ToSet
  <2> QED
    BY <1>1, <2>1, <2>3
<1>4. word = 1
  <2>1. CASE word > 1
    <3>1. 1 \in 1 .. word - 1 /\ 1 \in 1 .. end - 1
      BY <1>1, <1>2, <2>1
    <3> QED
      BY <1>1, <1>3, <3>1
  <2> QED
    BY <1>2, <2>1
<1> DEFINE gaps == {i \in 1 .. n : line[i] = space}
<1>5. parse_args(line, stored) =
        IF gaps = {} THEN NoArguments ELSE SubSeq(line, Min(gaps) + 1, n)
  <2>1. parse_args(line, stored) =
          IF (IF gaps # {} THEN Min(gaps) ELSE 0) = 0 THEN NoArguments
          ELSE SubSeq(line, (IF gaps # {} THEN Min(gaps) ELSE 0) + 1, n)
    BY <1>1, <1>2, <1>4 DEF parse_args, SelectInSubSeq
  <2>2. gaps # {} => Min(gaps) \in gaps
    <3>1. gaps \subseteq Nat
      BY <1>2
    <3> QED
      BY <3>1, MinIs
  <2>3. 0 \notin gaps
    OBVIOUS
  <2> QED
    BY <2>1, <2>2, <2>3
<1>6. CASE gaps = {}
  BY <1>5, <1>6
<1>7. CASE gaps # {}
  <2>1. Min(gaps) = end /\ line[end] = space
    <3>1. gaps \subseteq Nat
      BY <1>2
    <3>2. PICK first \in gaps : first = Min(gaps) /\ \A i \in gaps : first <= i
      <4>1. Min(gaps) \in gaps /\ \A i \in gaps : Min(gaps) <= i
        BY <1>7, <3>1, MinIs
      <4> HIDE DEF gaps
      <4> QED
        BY <4>1
    <3>3. ~(first < end)
      <4>1. ASSUME first < end PROVE FALSE
        <5>1. first \in 1 .. end - 1
          BY <1>2, <3>2, <4>1
        <5> QED
          BY <1>3, <3>2, <5>1
      <4> QED
        BY <4>1
    <3>4. line[end] = space
      <4>1. CASE line[end] = eol
        <5>1. end = n
          BY <1>2, <4>1
        <5>2. first = n
          BY <1>2, <3>2, <3>3, <5>1
        <5> QED
          BY <1>2, <3>2, <5>2 DEF eol, space
      <4> QED
        BY <1>1, <4>1
    <3>5. first <= end
      BY <1>2, <3>2, <3>4
    <3> QED
      BY <1>2, <3>2, <3>3, <3>4, <3>5
  <2>2. end \in 1 .. n - 1
    <3>1. end # n
      BY <1>2, <2>1 DEF eol, space
    <3> QED
      BY <1>2, <3>1
  <2> DEFINE b == SubSeq(line, end + 1, n - 1)
             rest == SubSeq(line, end + 1, n)
             front == SubSeq(line, 1, n - 1)
  <2>3. /\ b \in Text /\ Len(b) = n - 1 - end
        /\ \A i \in 1 .. n - 1 - end : b[i] = line[end + i]
    <3>1. \A i \in end + 1 .. n - 1 : line[i] \in Characters
      BY <1>2, <2>2
    <3>2. /\ b \in Seq(Characters) /\ Len(b) = IF end + 1 <= n - 1 THEN (n - 1) - (end + 1) + 1 ELSE 0
          /\ \A i \in 1 .. (n - 1) - (end + 1) + 1 : b[i] = line[(end + 1) + i - 1]
      BY <1>2, <2>2, <3>1, SubSeqProperties
    <3> HIDE DEF b
    <3> QED
      BY <1>2, <2>2, <3>2 DEF Text
  <2>4. /\ rest \in Text /\ Len(rest) = n - end
        /\ \A i \in 1 .. n - end : rest[i] = line[end + i]
    <3>1. \A i \in end + 1 .. n : line[i] \in Characters
      BY <1>2, <2>2
    <3>2. /\ rest \in Seq(Characters) /\ Len(rest) = IF end + 1 <= n THEN n - (end + 1) + 1 ELSE 0
          /\ \A i \in 1 .. n - (end + 1) + 1 : rest[i] = line[(end + 1) + i - 1]
      BY <1>2, <2>2, <3>1, SubSeqProperties
    <3> HIDE DEF rest
    <3> QED
      BY <1>2, <2>2, <3>2 DEF Text
  <2>5. /\ front \in Text /\ Len(front) = n - 1
        /\ \A i \in 1 .. n - 1 : front[i] = line[i]
    <3>1. n \in 1 .. Len(line)
      BY <1>2
    <3> QED
      BY <1>2, <3>1, Start
  <2> HIDE DEF b, rest, front
  <2>6. eol \in Characters /\ space \in Characters
    BY DiskConstants, ProgramConstants DEF eol, newline
  <2>7. rest = Append(b, eol)
    <3>1. /\ Append(b, eol) \in Seq(Characters) /\ Len(Append(b, eol)) = Len(b) + 1
          /\ \A i \in 1 .. Len(b) : Append(b, eol)[i] = b[i]
          /\ Append(b, eol)[Len(b) + 1] = eol
      BY <2>3, <2>6, AppendProperties DEF Text
    <3>2. \A i \in 1 .. n - end : rest[i] = Append(b, eol)[i]
      <4> SUFFICES ASSUME NEW i \in 1 .. n - end PROVE rest[i] = Append(b, eol)[i]
        OBVIOUS
      <4>1. CASE i = n - end
        <5>1. end + i = n /\ i = Len(b) + 1
          BY <1>2, <2>2, <2>3, <4>1
        <5> QED
          BY <1>2, <2>4, <3>1, <5>1
      <4>2. CASE i # n - end
        <5>1. i \in 1 .. n - 1 - end /\ i \in 1 .. Len(b)
          BY <1>2, <2>2, <2>3, <4>2
        <5> QED
          BY <2>3, <2>4, <3>1, <5>1
      <4> QED
        BY <4>1, <4>2
    <3>3. Len(rest) = Len(Append(b, eol))
      BY <1>2, <2>2, <2>3, <2>4, <3>1
    <3> QED
      BY <2>4, <3>1, <3>2, <3>3, SeqEqual DEF Text
  <2>8. IsSplit(line, name0, b)
    <3>1. name0 \o <<space>> \o b = front
      <4>1. \A i \in 1 .. Len(name0) : name0[i] = front[i]
        BY <1>2, <1>3, <2>2, <2>5
      <4>2. front[end] = space /\ Len(front) = end + Len(b) /\ end \in 1 .. Len(front)
        BY <1>2, <2>1, <2>2, <2>3, <2>5
      <4>3. \A i \in 1 .. Len(b) : b[i] = front[end + i]
        <5> SUFFICES ASSUME NEW i \in 1 .. Len(b) PROVE b[i] = front[end + i]
          OBVIOUS
        <5>1. end + i \in 1 .. n - 1 /\ i \in 1 .. n - 1 - end
          BY <1>2, <2>2, <2>3
        <5> QED
          BY <2>3, <2>5, <5>1
      <4> QED
        BY <1>3, <2>3, <2>5, <4>1, <4>2, <4>3, WordAndRest
    <3>2. front \o <<eol>> = line
      <4>1. front \o <<eol>> = Append(front, eol)
        BY <2>5, <2>6, AppendIsConcat DEF Text
      <4>2. /\ Append(front, eol) \in Seq(Characters) /\ Len(Append(front, eol)) = Len(front) + 1
            /\ \A i \in 1 .. Len(front) : Append(front, eol)[i] = front[i]
            /\ Append(front, eol)[Len(front) + 1] = eol
        BY <2>5, <2>6, AppendProperties DEF Text
      <4>3. Len(Append(front, eol)) = Len(line) /\ line[n] = eol
        BY <1>2, <2>5, <4>2
      <4>4. \A i \in 1 .. Len(line) : Append(front, eol)[i] = line[i]
        <5> SUFFICES ASSUME NEW i \in 1 .. n PROVE Append(front, eol)[i] = line[i]
          BY <1>2
        <5>1. i = n \/ i \in 1 .. n - 1
          BY <1>2
        <5>2. n = Len(front) + 1
          BY <1>2, <2>5
        <5> QED
          BY <2>5, <4>2, <4>3, <5>1, <5>2
      <4>5. Append(front, eol) = line
        BY <1>2, <4>2, <4>3, <4>4, SeqEqual DEF Text
      <4> QED
        BY <4>1, <4>5
    <3> QED
      BY <1>3, <3>1, <3>2 DEF IsSplit
  <2>9. \A i \in 1 .. Len(b) : b[i] # eol
    <3> SUFFICES ASSUME NEW i \in 1 .. Len(b) PROVE b[i] # eol
      OBVIOUS
    <3>1. end + i \in 1 .. n /\ end + i # n /\ b[i] = line[end + i]
      BY <1>2, <2>2, <2>3
    <3> QED
      BY <1>2, <3>1
  <2> QED
    BY <1>3, <1>5, <1>7, <2>1, <2>3, <2>7, <2>8, <2>9 DEF rest
<1> QED
  BY <1>6, <1>7

-----------------------------------------------------------------------------
(* Buffers and descriptors *)

\* The greatest of a set of numbers up to n.
LEMMA MaxIs ==
    ASSUME NEW n \in Nat, NEW T, T \subseteq 0 .. n, T # {}
    PROVE  Max(T) \in T /\ \A y \in T : y <= Max(T)
<1> DEFINE below == {n - x : x \in T}
<1>1. below \subseteq Nat /\ below # {}
  <2>1. \A x \in T : n - x \in Nat
    OBVIOUS
  <2> QED
    BY <2>1
<1>2. Min(below) \in below /\ \A y \in below : Min(below) <= y
  BY <1>1, MinIs
<1>3. PICK x \in T : Min(below) = n - x
  BY <1>2
<1>4. \A y \in T : x >= y
  <2> SUFFICES ASSUME NEW y \in T PROVE x >= y
    OBVIOUS
  <2>1. n - x <= n - y
    BY <1>2, <1>3
  <2> QED
    BY <2>1
<1>5. \E m \in T : \A y \in T : m >= y
  BY <1>4
<1>6. Max(T) \in T /\ \A y \in T : Max(T) >= y
  BY <1>5 DEF Max
<1> QED
  BY <1>6

LEMMA FilledIs ==
    ASSUME NEW bytes \in Text, NEW n \in Nat, Len(bytes) <= n
    PROVE  /\ Filled(bytes, n) \in Text /\ Len(Filled(bytes, n)) = n
           /\ \A i \in 1 .. Len(bytes) : Filled(bytes, n)[i] = bytes[i]
           /\ \A i \in Len(bytes) + 1 .. n : Filled(bytes, n)[i] = nul
<1>1. Len(bytes) \in Nat /\ n - Len(bytes) \in Nat
  BY LenProperties DEF Text
<1> DEFINE m == n - Len(bytes)
<1>2. Nuls(m) \in [1 .. m -> Characters] /\ \A i \in 1 .. m : Nuls(m)[i] = nul
  BY DiskConstants DEF Nuls
<1> HIDE DEF m
<1>3. Nuls(m) \in Seq(Characters) /\ Len(Nuls(m)) = m
  BY <1>1, <1>2, SeqDef, LenProperties DEF m
<1>4. /\ bytes \o Nuls(m) \in Seq(Characters) /\ Len(bytes \o Nuls(m)) = Len(bytes) + m
      /\ \A i \in 1 .. Len(bytes) + m : (bytes \o Nuls(m))[i] =
            IF i <= Len(bytes) THEN bytes[i] ELSE Nuls(m)[i - Len(bytes)]
  BY <1>3, ConcatProperties DEF Text
<1>5. m \in Nat /\ Len(bytes) + m = n /\ Filled(bytes, n) = bytes \o Nuls(m)
  BY <1>1 DEF m, Filled
<1>6. ASSUME NEW i \in Len(bytes) + 1 .. n PROVE Filled(bytes, n)[i] = nul
  <2>1. i - Len(bytes) \in 1 .. m /\ i \in 1 .. Len(bytes) + m /\ ~(i <= Len(bytes))
    BY <1>1, <1>5
  <2> QED
    BY <1>2, <1>4, <1>5, <2>1
<1>7. ASSUME NEW i \in 1 .. Len(bytes) PROVE Filled(bytes, n)[i] = bytes[i]
  <2>1. i \in 1 .. Len(bytes) + m /\ i <= Len(bytes)
    BY <1>1, <1>5
  <2> QED
    BY <1>4, <1>5, <2>1
<1> QED
  BY <1>4, <1>5, <1>6, <1>7 DEF Text

\* The string of a buffer ends in front of the first NUL, if there is one.
LEMMA CStringIs ==
    ASSUME NEW bytes \in Text
    PROVE  \E k \in 1 .. Len(bytes) + 1 :
              /\ CString(bytes) = SubSeq(bytes, 1, k - 1)
              /\ CString(bytes) \in Text /\ Len(CString(bytes)) = k - 1
              /\ k <= Len(bytes) => bytes[k] = nul
              /\ \A i \in 1 .. k - 1 : bytes[i] # nul /\ CString(bytes)[i] = bytes[i]
<1>1. PICK n \in Nat : n = Len(bytes)
  BY LenProperties DEF Text
<1>2. PICK s \in Text : /\ s = Append(bytes, nul) /\ Len(s) = n + 1 /\ s[n + 1] = nul
                        /\ \A i \in 1 .. n : s[i] = bytes[i]
  <2>1. nul \in Characters /\ bytes \in Seq(Characters)
    BY DiskConstants DEF Text
  <2>2. /\ Append(bytes, nul) \in Seq(Characters) /\ Len(Append(bytes, nul)) = Len(bytes) + 1
        /\ \A i \in 1 .. Len(bytes) : Append(bytes, nul)[i] = bytes[i]
        /\ Append(bytes, nul)[Len(bytes) + 1] = nul
    BY <2>1, AppendProperties
  <2> QED
    BY <1>1, <2>2 DEF Text
<1> DEFINE nuls == {i \in 1 .. n + 1 : s[i] = nul}
<1>3. PICK k \in 1 .. n + 1 :
        /\ CString(bytes) = SubSeq(bytes, 1, k - 1)
        /\ s[k] = nul /\ \A i \in 1 .. k - 1 : s[i] # nul
  <2>1. n + 1 \in nuls /\ nuls \subseteq Nat
    BY <1>2
  <2>2. Min(nuls) \in nuls /\ \A i \in nuls : Min(nuls) <= i
    BY <2>1, MinIs
  <2>3. CString(bytes) =
          SubSeq(bytes, 1, (IF nuls # {} THEN Min(nuls) ELSE 0) - 1)
    BY <1>2 DEF CString, SelectInSeq
  <2>4. PICK k \in nuls : k = Min(nuls) /\ \A i \in nuls : k <= i
    BY <2>2
  <2>5. CString(bytes) = SubSeq(bytes, 1, k - 1)
    BY <2>1, <2>3, <2>4
  <2>6. \A i \in 1 .. k - 1 : s[i] # nul
    BY <2>4
  <2> QED
    BY <2>4, <2>5, <2>6
<1>4. \A i \in 1 .. k - 1 : i \in 1 .. n /\ bytes[i] \in Characters
  BY <1>1, ElementOfSeq DEF Text
<1>5. /\ SubSeq(bytes, 1, k - 1) \in Text /\ Len(SubSeq(bytes, 1, k - 1)) = k - 1
      /\ \A i \in 1 .. k - 1 : SubSeq(bytes, 1, k - 1)[i] = bytes[i]
  <2>1. k - 1 \in Nat /\ k - 1 \in Int /\ 1 \in Int
    OBVIOUS
  <2>2. /\ SubSeq(bytes, 1, k - 1) \in Seq(Characters)
        /\ Len(SubSeq(bytes, 1, k - 1)) = IF 1 <= k - 1 THEN (k - 1) - 1 + 1 ELSE 0
        /\ \A i \in 1 .. (k - 1) - 1 + 1 : SubSeq(bytes, 1, k - 1)[i] = bytes[1 + i - 1]
    BY <1>4, <2>1, SubSeqProperties
  <2>3. \A i \in 1 .. k - 1 : SubSeq(bytes, 1, k - 1)[i] = bytes[i]
    BY <2>1, <2>2
  <2> QED
    BY <2>1, <2>2, <2>3 DEF Text
<1>6. k <= n => bytes[k] = nul
  BY <1>2, <1>3
<1>7. \A i \in 1 .. k - 1 : bytes[i] # nul
  BY <1>2, <1>3, <1>4
<1> QED
  BY <1>1, <1>3, <1>5, <1>6, <1>7

\* A name comes back from the field in which it stands with NULs behind it.
LEMMA NameComesBack ==
    ASSUME NEW fname \in Text, NEW n \in Nat, Len(fname) <= n,
           \A i \in 1 .. Len(fname) : fname[i] # nul
    PROVE  CString(Filled(fname, n)) = fname
<1>1. PICK field \in Text :
        /\ field = Filled(fname, n) /\ Len(field) = n
        /\ \A i \in 1 .. Len(fname) : field[i] = fname[i]
        /\ \A i \in Len(fname) + 1 .. n : field[i] = nul
  BY FilledIs
<1>2. PICK k \in 1 .. n + 1 :
        /\ CString(field) \in Text /\ Len(CString(field)) = k - 1
        /\ k <= n => field[k] = nul
        /\ \A i \in 1 .. k - 1 : field[i] # nul /\ CString(field)[i] = field[i]
  <2>1. \E k \in 1 .. Len(field) + 1 :
          /\ CString(field) \in Text /\ Len(CString(field)) = k - 1
          /\ k <= Len(field) => field[k] = nul
          /\ \A i \in 1 .. k - 1 : field[i] # nul /\ CString(field)[i] = field[i]
    BY CStringIs
  <2> QED
    BY <1>1, <2>1
<1>3. Len(fname) \in Nat
  BY LenProperties DEF Text
<1>4. k = Len(fname) + 1
  <2>1. ~(k <= Len(fname))
    BY <1>1, <1>2, <1>3
  <2>2. ~(k > Len(fname) + 1)
    <3>1. ASSUME k > Len(fname) + 1 PROVE FALSE
      <4>1. Len(fname) + 1 \in 1 .. k - 1 /\ Len(fname) + 1 \in Len(fname) + 1 .. n
        BY <1>2, <1>3, <3>1
      <4> QED
        BY <1>1, <1>2, <4>1
    <3> QED
      BY <3>1
  <2> QED
    BY <1>3, <2>1, <2>2
<1>5. Len(CString(field)) = Len(fname) /\ \A i \in 1 .. Len(fname) : CString(field)[i] = fname[i]
  BY <1>1, <1>2, <1>3, <1>4
<1>6. CString(field) = fname
  BY <1>2, <1>3, <1>5, SeqEqual DEF Text
<1> QED
  BY <1>1, <1>6

\* Bytes put into an array leave it as long as it was.
LEMMA PutFits ==
    ASSUME NEW array \in Text, NEW from \in Nat, NEW bytes \in Text,
           from + Len(bytes) <= Len(array)
    PROVE  Put(array, from, bytes) \in Text /\ Len(Put(array, from, bytes)) = Len(array)
<1>1. PICK n \in Nat, m \in Nat : n = Len(array) /\ m = Len(bytes)
  BY LenProperties DEF Text
<1>2. \A i \in 1 .. n : array[i] \in Characters
  BY <1>1, ElementOfSeq DEF Text
<1>3. from + m <= n
  BY <1>1
<1>4. PICK s \in Seq(Characters) : s = SubSeq(array, 1, from) /\ Len(s) = from
  <2>1. \A i \in 1 .. from : array[i] \in Characters
    BY <1>2, <1>3
  <2>2. /\ SubSeq(array, 1, from) \in Seq(Characters)
        /\ Len(SubSeq(array, 1, from)) = IF 1 <= from THEN from - 1 + 1 ELSE 0
    BY <2>1, SubSeqProperties
  <2>3. Len(SubSeq(array, 1, from)) = from
    BY <2>2
  <2> QED
    BY <2>2, <2>3
<1>5. PICK u \in Seq(Characters) : u = SubSeq(array, from + m + 1, n) /\ Len(u) = n - (from + m)
  <2>1. \A i \in from + m + 1 .. n : array[i] \in Characters
    BY <1>2, <1>3
  <2>2. from + m + 1 \in Int /\ n \in Int
    OBVIOUS
  <2>3. /\ SubSeq(array, from + m + 1, n) \in Seq(Characters)
        /\ Len(SubSeq(array, from + m + 1, n)) =
              IF from + m + 1 <= n THEN n - (from + m + 1) + 1 ELSE 0
    BY <2>1, <2>2, SubSeqProperties
  <2>4. Len(SubSeq(array, from + m + 1, n)) = n - (from + m)
    BY <1>3, <2>3
  <2> QED
    BY <2>3, <2>4
<1>6. s \o bytes \in Seq(Characters) /\ Len(s \o bytes) = from + m
  BY <1>1, <1>4, ConcatProperties DEF Text
<1>7. s \o bytes \o u \in Seq(Characters) /\ Len(s \o bytes \o u) = n
  <2>1. PICK sb \in Seq(Characters) : sb = s \o bytes /\ Len(sb) = from + m
    BY <1>6
  <2>2. sb \o u \in Seq(Characters) /\ Len(sb \o u) = Len(sb) + Len(u)
    <3>1. u \in Seq(Characters) /\ sb \in Seq(Characters)
      BY <1>5, <2>1
    <3> QED
      BY <3>1, ConcatProperties
  <2>3. Len(sb) + Len(u) = n
    BY <1>3, <1>5, <2>1
  <2> QED
    BY <2>1, <2>2, <2>3
<1> QED
  BY <1>1, <1>4, <1>5, <1>7 DEF Put, Text

LEMMA CutFits ==
    ASSUME NEW array \in Text, NEW last \in Nat
    PROVE  Cut(array, last) \in Text /\ Len(Cut(array, last)) = Len(array)
<1>1. PICK n \in Nat : n = Len(array) /\ DOMAIN array = 1 .. n
  BY LenProperties DEF Text
<1>2. \A i \in 1 .. n : array[i] \in Characters
  BY <1>1, ElementOfSeq DEF Text
<1>3. Cut(array, last) =
        [k \in 1 .. n |-> IF \/ k \in 1 .. last /\ array[k] = newline
                             \/ k = last + 1 /\ Unended(array, last) THEN nul ELSE array[k]]
  BY <1>1 DEF Cut
<1>4. Cut(array, last) \in [1 .. n -> Characters]
  BY <1>2, <1>3, DiskConstants
<1>5. Cut(array, last) \in Seq(Characters)
  BY <1>4, SeqDef
<1> QED
  BY <1>1, <1>4, <1>5, LenProperties DEF Text

\* A line begins behind the last newline before it, or in front of everything.
LEMMA LineStartIs ==
    ASSUME NEW array, NEW n \in Nat
    PROVE  /\ LineStart(array, n) \in 0 .. n
           /\ LineStart(array, n) # 0 => array[LineStart(array, n)] = newline
           /\ \A k \in 1 .. n : array[k] = newline => k <= LineStart(array, n)
<1>1. PICK T : T = {0} \cup {m \in 1 .. n : array[m] = newline}
  OBVIOUS
<1>2. T \subseteq 0 .. n /\ T # {}
  BY <1>1
<1>3. Max(T) \in T /\ \A y \in T : y <= Max(T)
  BY <1>2, MaxIs
<1>4. LineStart(array, n) = Max(T)
  BY <1>1 DEF LineStart
<1> QED
  BY <1>1, <1>2, <1>3, <1>4

\* What grep keeps of its buffer for the next read leaves room for a byte, though
\* strcpy moves a string whose end it does not know (ece391grep.c:20-59).
LEMMA KeptFits ==
    ASSUME NEW array \in Text, Len(array) = BUFSIZE + 1, NEW last \in 0 .. BUFSIZE,
           NEW cnt, cnt # 0 => last = BUFSIZE
    PROVE  /\ Kept(array, last, cnt) \in [data : Text, last : Nat]
           /\ Len(Kept(array, last, cnt).data) = BUFSIZE + 1
           /\ Kept(array, last, cnt).last \in 0 .. BUFSIZE - 1
<1>1. BUFSIZE \in Nat /\ BUFSIZE >= 1
  BY ProgramConstants, DiskConstants
<1> DEFINE start == LineStart(array, last)
<1>2. PICK cut \in Text : cut = Cut(array, last) /\ Len(cut) = BUFSIZE + 1
  BY <1>1, CutFits
<1>3. CASE ~GoesOn(array, last, cnt)
  <2>1. Kept(array, last, cnt) = [data |-> cut, last |-> 0]
    BY <1>2, <1>3 DEF Kept
  <2> QED
    BY <1>1, <1>2, <2>1
<1>4. CASE GoesOn(array, last, cnt)
  <2>1. last = BUFSIZE /\ start # 0
    BY <1>4 DEF GoesOn
  <2>2. start \in 1 .. BUFSIZE - 1
    <3>1. start \in 0 .. BUFSIZE /\ (start # 0 => array[start] = newline)
      BY <1>1, <2>1, LineStartIs
    <3>2. array[BUFSIZE] # newline
      BY <1>1, <1>4, <2>1 DEF GoesOn, Unended
    <3> HIDE DEF start
    <3> QED
      BY <1>1, <2>1, <3>1, <3>2
  <2> HIDE DEF start
  <2>3. PICK text \in Text : text = StringAt(cut, start) /\ Len(text) <= BUFSIZE + 1 - start
    <3>1. PICK from \in 1 .. Len(cut) : from = start + 1
      BY <1>1, <1>2, <2>2
    <3>2. SubSeq(cut, from, Len(cut)) \in Text /\ Len(SubSeq(cut, from, Len(cut))) = Len(cut) - from + 1
      BY End
    <3>3. Len(cut) - from + 1 = BUFSIZE + 1 - start
      BY <1>1, <1>2, <2>2, <3>1
    <3>4. PICK tail \in Text : /\ tail = SubSeq(cut, start + 1, BUFSIZE + 1)
                               /\ Len(tail) = BUFSIZE + 1 - start
      BY <1>2, <3>1, <3>2, <3>3
    <3>5. PICK k \in 1 .. Len(tail) + 1 : CString(tail) \in Text /\ Len(CString(tail)) = k - 1
      BY CStringIs
    <3>6. Len(CString(tail)) <= BUFSIZE + 1 - start
      BY <1>1, <2>2, <3>4, <3>5
    <3> QED
      BY <1>2, <3>4, <3>5, <3>6 DEF StringAt
  <2>4. PICK moved \in Text : moved = Append(text, nul) /\ Len(moved) <= BUFSIZE + 1
    <3>1. nul \in Characters /\ text \in Seq(Characters) /\ Len(text) \in Nat
      BY DiskConstants, LenProperties DEF Text
    <3>2. Append(text, nul) \in Seq(Characters) /\ Len(Append(text, nul)) = Len(text) + 1
      BY <3>1, AppendProperties
    <3>3. Len(text) + 1 <= BUFSIZE + 1
      BY <1>1, <2>2, <2>3, <3>1
    <3> QED
      BY <3>2, <3>3 DEF Text
  <2>5. Put(cut, 0, moved) \in Text /\ Len(Put(cut, 0, moved)) = BUFSIZE + 1
    <3>1. 0 + Len(moved) <= Len(cut)
      <4>1. Len(moved) \in Nat
        BY LenProperties DEF Text
      <4> QED
        BY <1>2, <2>4, <4>1
    <3> QED
      BY <1>2, <3>1, PutFits
  <2>6. Kept(array, last, cnt) = [data |-> Put(cut, 0, moved), last |-> BUFSIZE - start]
    BY <1>2, <1>4, <2>1, <2>3, <2>4 DEF Kept, Carried, start
  <2>7. BUFSIZE - start \in 0 .. BUFSIZE - 1 /\ BUFSIZE - start \in Nat
    BY <1>1, <2>2
  <2> QED
    BY <2>5, <2>6, <2>7
<1> QED
  BY <1>3, <1>4

-----------------------------------------------------------------------------
(* The invariant.  Of the programs that are on their way to getargs, only  *)
(* the one that was started last has not been overtaken, and the argument  *)
(* buffer still holds its arguments, perhaps with their end marked.        *)

Places == {"shell", "stale", "getargs", "open", "copy", "opendir", "list", "next", "search"}
Fds == [file_type : -1 .. 2, inode : DOMAIN inodes \cup {0}, file_position : Nat]

Typed ==
    /\ at \in [Terminals -> Places]
    /\ stored_buf \in Text
    /\ command \in [Terminals -> Text] /\ args \in [Terminals -> Text]
    /\ DOMAIN image = Terminals
    /\ file \in [Terminals -> Fds] /\ dir \in [Terminals -> Fds]
    /\ buffer \in [Terminals -> [data : Text, last : Nat]]
    /\ overtaken \in [Terminals -> BOOLEAN]

\* A descriptor stands in what it describes, and a program that reads from one
\* has it open; grep searches no directory.
Stands(fd) ==
    /\ fd.file_type = REGULAR_FILE_TYPE => fd.inode \in DOMAIN inodes
    /\ fd.file_position \in 0 .. Size(fd)
Opened ==
    \A t \in Terminals :
        /\ Stands(file[t]) /\ Stands(dir[t])
        /\ at[t] \in {"list", "next", "search"} => dir[t].file_type = DIRECTORY_FILE_TYPE
        /\ at[t] = "copy" => file[t].file_type # Failed
        /\ at[t] = "search" => file[t].file_type \in {REGULAR_FILE_TYPE, RTC_FILE_TYPE}

Buffers ==
    \A t \in Terminals : Len(buffer[t].data) = BUFSIZE + 1 /\ buffer[t].last \in 0 .. BUFSIZE - 1

Entered ==
    \A t \in Terminals :
        /\ command[t] \in Commands[t] \cup {<<eol>>}
        /\ at[t] = "getargs" => Program(t) \in {<<"cat">>, <<"grep">>}

OneAhead ==
    \A t, u \in Terminals :
        at[t] = "getargs" /\ at[u] = "getargs" /\ ~overtaken[t] /\ ~overtaken[u] => t = u

StoredOwn ==
    \A t \in Terminals :
        at[t] = "getargs" /\ ~overtaken[t] =>
            LET arguments == parse_args(command[t], NoArguments)
            IN  stored_buf \in {arguments, Ended(arguments, BUFSIZE)}

PInv == Typed /\ Opened /\ Buffers /\ Entered /\ OneAhead /\ StoredOwn
        /\ OwnArguments /\ LoadedWhole

-----------------------------------------------------------------------------
(* What open and read do to a descriptor. *)

LEMMA EntryIs ==
    ASSUME NEW k \in DOMAIN direntries
    PROVE  /\ direntries[k].filename \in Text
           /\ Len(direntries[k].filename) \in 1 .. DENTRY_FILE_NAME_LEN
           /\ \A m \in 1 .. Len(direntries[k].filename) : direntries[k].filename[m] # nul
           /\ direntries[k].file_type \in 0 .. 2
           /\ direntries[k].file_type = DIRECTORY_FILE_TYPE <=> direntries[k].filename = dot
           /\ direntries[k].inode_num \in DOMAIN inodes
<1>1. direntries[k] \in Entries
  BY DiskConstants, LenProperties, ElementOfSeq
<1>2. direntries[k].filename \in Text /\ direntries[k].file_type \in 0 .. 2
      /\ direntries[k].inode_num \in DOMAIN inodes
  BY <1>1 DEF Entries
<1>3. DOMAIN direntries[k].filename = 1 .. Len(direntries[k].filename)
  BY <1>2, LenProperties DEF Text
<1> QED
  BY <1>2, <1>3, DiskConstants DEF dot

LEMMA OpenStands ==
    ASSUME NEW fname \in Text
    PROVE  /\ open(fname) \in Fds /\ Stands(open(fname))
           /\ open(fname) # Closed => open(fname).file_type \in 0 .. 2
           /\ \A k \in DOMAIN direntries :
                direntries[k].filename = fname => open(fname).file_type \in 0 .. 2
           /\ open(fname).file_type = DIRECTORY_FILE_TYPE => fname = dot
           /\ open(dot).file_type = DIRECTORY_FILE_TYPE
<1>1. Closed \in Fds /\ Stands(Closed) /\ Closed.file_type = -1
  BY DEF Closed, Failed, Fds, Stands, Size, REGULAR_FILE_TYPE, DIRECTORY_FILE_TYPE
<1>2. ASSUME NEW f \in Text, read_dentry_by_name(f) # 0
      PROVE  /\ open(f) \in Fds /\ Stands(open(f)) /\ open(f).file_type \in 0 .. 2
             /\ open(f).file_type = DIRECTORY_FILE_TYPE <=> f = dot
  <2>1. PICK k \in DOMAIN direntries : k = read_dentry_by_name(f) /\ direntries[k].filename = f
    BY <1>2, FoundByName DEF Names
  <2>2. PICK fd : fd = open(f) /\ fd =
          [file_type |-> direntries[k].file_type,
           inode |-> IF direntries[k].file_type = REGULAR_FILE_TYPE
                     THEN direntries[k].inode_num ELSE 0,
           file_position |-> 0]
    BY <1>2, <2>1 DEF open
  <2>3. fd \in Fds
    BY <2>2, EntryIs DEF Fds
  <2>4. fd.file_type = REGULAR_FILE_TYPE => fd.inode \in DOMAIN inodes
    BY <2>2, EntryIs
  <2>5. Size(fd) \in Nat
    BY <2>4, DiskConstants, LenProperties DEF Size
  <2>6. fd.file_position \in 0 .. Size(fd)
    BY <2>2, <2>5
  <2>7. fd.file_type \in 0 .. 2 /\ (fd.file_type = DIRECTORY_FILE_TYPE <=> f = dot)
    BY <2>1, <2>2, EntryIs
  <2> QED
    BY <2>2, <2>3, <2>4, <2>6, <2>7 DEF Stands
<1>3. open(dot).file_type = DIRECTORY_FILE_TYPE
  <2>1. dot \in Text
    BY DiskConstants DEF dot, Text
  <2>2. PICK k \in DOMAIN direntries : direntries[k].filename = dot
    BY DiskConstants DEF dot
  <2>3. read_dentry_by_name(dot) # 0
    BY <2>1, <2>2, FoundByName
  <2> QED
    BY <1>2, <2>1, <2>3
<1>4. CASE read_dentry_by_name(fname) = 0
  <2>1. open(fname) = Closed
    BY <1>4 DEF open
  <2>2. \A k \in DOMAIN direntries : direntries[k].filename # fname
    BY <1>4, FoundByName
  <2> QED
    BY <1>1, <2>1, <2>2, <1>3 DEF DIRECTORY_FILE_TYPE
<1> QED
  BY <1>2, <1>3, <1>4

LEMMA MovedOn ==
    ASSUME NEW fd \in Fds, NEW m \in Nat
    PROVE  \E after \in Fds : /\ after = [fd EXCEPT !.file_position = @ + m]
                             /\ after.file_type = fd.file_type /\ after.inode = fd.inode
                             /\ after.file_position = fd.file_position + m
<1> DEFINE after == [fd EXCEPT !.file_position = @ + m]
<1>1. fd.file_position \in Nat /\ fd.file_position + m \in Nat
  BY DEF Fds
<1>2. after = [fd EXCEPT !.file_position = fd.file_position + m]
  OBVIOUS
<1>3. after \in Fds /\ after.file_type = fd.file_type /\ after.inode = fd.inode
  BY <1>1 DEF Fds
<1>4. after.file_position = fd.file_position + m
  BY <1>2 DEF Fds
<1> HIDE DEF after
<1>5. \E x \in Fds : x = after
  BY <1>3
<1> QED
  BY <1>3, <1>4 DEF after

\* A read leaves the descriptor where it is open, no further than the end; of a
\* file or of the RTC it fills the whole buffer or returns 0.
LEMMA ReadStands ==
    ASSUME NEW fd \in Fds, Stands(fd), fd.file_type # Failed, NEW n \in Nat
    PROVE  /\ read(fd, n).fd \in Fds /\ Stands(read(fd, n).fd)
           /\ read(fd, n).fd.file_type = fd.file_type
           /\ fd.file_type \in {REGULAR_FILE_TYPE, RTC_FILE_TYPE} =>
                /\ read(fd, n).buf \in Text /\ Len(read(fd, n).buf) \in {0, n}
                /\ read(fd, n).returned \in {0, n}
<1>1. fd.file_type \in {0, 1, 2} /\ fd.file_position \in Nat
  BY DEF Fds, Failed
<1>2. CASE fd.file_type = 2
  <2>1. fd.inode \in DOMAIN inodes /\ fd.file_position \in 0 .. inodes[fd.inode].length
    BY <1>2 DEF Stands, Size, REGULAR_FILE_TYPE, DIRECTORY_FILE_TYPE
  <2>2. PICK bytes \in Text, m \in Nat :
          /\ bytes = read_data(fd.inode, fd.file_position, n)
          /\ Len(bytes) = m /\ m <= n /\ fd.file_position + m <= inodes[fd.inode].length
    <3>1. PICK i \in DOMAIN inodes, p \in Nat : i = fd.inode /\ p = fd.file_position
      BY <1>1, <2>1
    <3>2. p <= inodes[i].length
      BY <2>1, <3>1
    <3>3. /\ read_data(i, p, n) \in Text /\ Len(read_data(i, p, n)) = Left(i, p, n)
          /\ Left(i, p, n) \in 0 .. n
          /\ p + Left(i, p, n) <= inodes[i].length
      BY <3>2, ReadFacts
    <3>4. PICK m \in Nat : m = Left(i, p, n) /\ m <= n
      BY <3>3
    <3> QED
      BY <3>1, <3>3, <3>4
  <2>3. read(fd, n) = [buf |-> Filled(bytes, n),
                       fd |-> [fd EXCEPT !.file_position = @ + m],
                       returned |-> IF bytes = <<>> THEN 0 ELSE n]
    BY <1>2, <2>2 
    DEF read, file_read, Advanced, Returned, REGULAR_FILE_TYPE, DIRECTORY_FILE_TYPE, RTC_FILE_TYPE
  <2>4. Filled(bytes, n) \in Text /\ Len(Filled(bytes, n)) = n
    BY <2>2, FilledIs
  <2>5. PICK after \in Fds : /\ after = [fd EXCEPT !.file_position = @ + m]
                             /\ after.file_type = 2 /\ after.inode = fd.inode
                             /\ after.file_position = fd.file_position + m
    BY <1>1, <1>2, MovedOn
  <2>6. Stands(after)
    BY <1>1, <2>1, <2>2, <2>5, DiskConstants
    DEF Stands, Size, REGULAR_FILE_TYPE, DIRECTORY_FILE_TYPE
  <2>7. /\ read(fd, n).fd = after /\ read(fd, n).buf = Filled(bytes, n)
        /\ read(fd, n).returned \in {0, n}
    BY <2>3, <2>5
  <2> QED
    BY <1>2, <2>4, <2>5, <2>6, <2>7
<1>3. CASE fd.file_type = 1
  <2>1. fd.file_position \in 0 .. Len(direntries) /\ Len(direntries) \in Nat
    BY <1>3, DiskConstants, LenProperties DEF Stands, Size, REGULAR_FILE_TYPE, DIRECTORY_FILE_TYPE
  <2>2. read(fd, n) = directory_read(fd, n)
    BY <1>3 DEF read, REGULAR_FILE_TYPE, DIRECTORY_FILE_TYPE, RTC_FILE_TYPE
  <2>3. CASE fd.file_position >= Len(direntries)
    <3>1. read(fd, n).fd = fd
      BY <2>2, <2>3 DEF directory_read
    <3> QED
      BY <1>3, <3>1 DEF REGULAR_FILE_TYPE, RTC_FILE_TYPE
  <2>4. CASE fd.file_position < Len(direntries)
    <3>1. read(fd, n).fd = [fd EXCEPT !.file_position = @ + 1]
      BY <2>1, <2>2, <2>4 DEF directory_read, NextEntry
    <3>2. PICK after \in Fds : /\ after = [fd EXCEPT !.file_position = @ + 1]
                               /\ after.file_type = 1
                               /\ after.file_position = fd.file_position + 1
      BY <1>1, <1>3, MovedOn
    <3>3. Stands(after)
      BY <2>1, <2>4, <3>2 DEF Stands, Size, REGULAR_FILE_TYPE, DIRECTORY_FILE_TYPE
    <3> QED
      BY <1>3, <3>1, <3>2, <3>3 DEF REGULAR_FILE_TYPE, RTC_FILE_TYPE
  <2> QED
    BY <1>1, <2>1, <2>3, <2>4
<1>4. CASE fd.file_type = 0
  <2>1. read(fd, n) = [buf |-> <<>>, fd |-> fd, returned |-> 0]
    BY <1>4 DEF read, rtc_read, REGULAR_FILE_TYPE, DIRECTORY_FILE_TYPE, RTC_FILE_TYPE
  <2>2. <<>> \in Text /\ Len(<<>>) = 0
    BY DEF Text
  <2> QED
    BY <2>1, <2>2
<1> QED
  BY <1>1, <1>2, <1>3, <1>4

-----------------------------------------------------------------------------
(* The steps.  Most calls touch neither the argument buffer nor the image: *)
(* they move the program on and change what it has open.                   *)

LEMMA ArgumentsStay ==
    ASSUME PInv, at' \in [Terminals -> Places],
           UNCHANGED <<stored_buf, command, args, image, overtaken>>,
           \A u \in Terminals : at'[u] = "getargs" => at[u] = "getargs",
           \A u \in Terminals : at'[u] \notin {"shell", "stale"} => at[u] \notin {"shell", "stale"}
    PROVE  Entered' /\ OneAhead' /\ StoredOwn' /\ OwnArguments' /\ LoadedWhole'
<1>1. Entered'
  BY DEF PInv, Entered, Program
<1>2. OneAhead'
  BY DEF PInv, OneAhead
<1>3. StoredOwn'
  BY DEF PInv, StoredOwn
<1>4. OwnArguments'
  BY DEF PInv, OwnArguments, Program
<1>5. LoadedWhole'
  BY DEF PInv, LoadedWhole, Program
<1> QED
  BY <1>1, <1>2, <1>3, <1>4, <1>5

LEMMA NoBufferIs ==
    /\ NoBuffer \in [data : Text, last : Nat] /\ Len(NoBuffer.data) = BUFSIZE + 1
    /\ NoBuffer.last \in 0 .. BUFSIZE - 1
<1>1. BUFSIZE + 1 \in Nat /\ 0 \in 0 .. BUFSIZE - 1 /\ nul \in Characters
  BY ProgramConstants, DiskConstants
<1>2. Nuls(BUFSIZE + 1) \in [1 .. BUFSIZE + 1 -> Characters]
  BY <1>1 DEF Nuls
<1>3. Nuls(BUFSIZE + 1) \in Seq(Characters) /\ Len(Nuls(BUFSIZE + 1)) = BUFSIZE + 1
  BY <1>1, <1>2, SeqDef, LenProperties
<1> QED
  BY <1>1, <1>3 DEF NoBuffer, Text

LEMMA ParsedIsText ==
    ASSUME NEW line \in Text, NEW stored
    PROVE  parse_args(line, stored) \in Text
<1>1. PICK n \in Nat : n = Len(line)
  BY LenProperties DEF Text
<1> DEFINE word == FirstWord(line)
           gaps == {i \in word .. n : line[i] = space}
           gap == IF gaps # {} THEN Min(gaps) ELSE 0
<1>2. parse_args(line, stored) =
        IF word = 0 \/ gap = 0 THEN NoArguments ELSE SubSeq(line, gap + 1, n)
  BY <1>1 DEF parse_args, SelectInSubSeq
<1>3. NoArguments \in Text
  BY DEF NoArguments, Text
<1>4. word \in Nat
  <2> DEFINE letters == {i \in 1 .. n : line[i] # space}
  <2>1. word = IF letters # {} THEN Min(letters) ELSE 0
    BY <1>1 DEF FirstWord, SelectInSeq
  <2>2. letters \subseteq Nat
    OBVIOUS
  <2>3. letters # {} => Min(letters) \in Nat
    BY <2>2, MinIs
  <2> HIDE DEF word, letters
  <2> QED
    BY <2>1, <2>3
<1> HIDE DEF word
<1>5. gap = 0 \/ gap \in word .. n
  <2>1. gaps \subseteq Nat
    BY <1>4
  <2>2. gaps # {} => Min(gaps) \in gaps
    BY <2>1, MinIs
  <2> QED
    BY <2>2
<1> HIDE DEF gap
<1>6. ASSUME gap \in word .. n, gap # 0 PROVE SubSeq(line, gap + 1, n) \in Text
  <2>1. \A i \in gap + 1 .. n : line[i] \in Characters
    BY <1>1, <1>4, <1>6, ElementOfSeq DEF Text
  <2>2. gap + 1 \in Int /\ n \in Int
    BY <1>4, <1>6
  <2> QED
    BY <2>1, <2>2, SubSeqProperties DEF Text
<1> QED
  BY <1>2, <1>3, <1>5, <1>6

LEMMA Lines ==
    ASSUME NEW t \in Terminals, NEW line \in Commands[t] \cup {<<eol>>}
    PROVE  IsLine(line)
<1>1. CASE line \in Commands[t]
  BY <1>1, ProgramConstants DEF IsLine
<1>2. CASE line = <<eol>>
  <2>1. eol \in Characters
    BY DiskConstants DEF eol, newline
  <2>2. line \in Seq(Characters) /\ line # <<>> /\ DOMAIN line = {1} /\ Len(line) = 1 /\ line[1] = eol
    BY <1>2, <2>1
  <2> QED
    BY <2>2 DEF IsLine, Text
<1> QED
  BY <1>1, <1>2

\* The arguments of a command that starts cat or grep.
LEMMA EnteredIs ==
    ASSUME PInv, NEW t \in Terminals, at[t] = "getargs"
    PROVE  /\ parse_args(command[t], NoArguments) \in Text
           /\ \/ parse_args(command[t], NoArguments) = NoArguments
              \/ \E b \in Text : /\ parse_args(command[t], NoArguments) = Append(b, eol)
                                 /\ IsSplit(command[t], Program(t), b)
                                 /\ \A i \in 1 .. Len(b) : b[i] # eol
<1>1. PICK line : line = command[t] /\ IsLine(line)
  BY Lines DEF PInv, Entered
<1>2. get_file_name(line) \in {<<"cat">>, <<"grep">>}
  BY <1>1 DEF PInv, Entered, Program
<1>3. space \notin ToSet(get_file_name(line))
  <2>1. \A c : c # space => space \notin ToSet(<<c>>)
    BY DEF ToSet
  <2> QED
    BY <1>2, <2>1 DEF space
<1>4. \/ parse_args(line, NoArguments) = NoArguments
      \/ \E b \in Text : /\ parse_args(line, NoArguments) = Append(b, eol)
                         /\ IsSplit(line, get_file_name(line), b)
                         /\ \A i \in 1 .. Len(b) : b[i] # eol
  BY <1>1, <1>3, CommandTaken
<1>5. NoArguments \in Text /\ \A b \in Text : Append(b, eol) \in Text
  <2>1. eol \in Characters
    BY DiskConstants DEF eol, newline
  <2> QED
    BY <2>1, AppendProperties DEF NoArguments, Text
<1>6. parse_args(line, NoArguments) \in Text
  BY <1>4, <1>5
<1> QED
  BY <1>1, <1>4, <1>6 DEF Program

LEMMA StaleEndsKeeps == ASSUME PInv, NEW t \in Terminals, StaleEnds(t) PROVE PInv'
<1>1. /\ at' = [at EXCEPT ![t] = "shell"]
      /\ UNCHANGED <<stored_buf, command, process, overtaken>>
  BY DEF StaleEnds, Ends, Goes
<1>2. Typed'
  BY <1>1 DEF PInv, Typed, process, Places
<1>3. Opened'
  BY <1>1 DEF PInv, Typed, Opened, process
<1>4. Buffers'
  BY <1>1 DEF PInv, Buffers, process
<1>5. Entered' /\ OneAhead' /\ StoredOwn' /\ OwnArguments' /\ LoadedWhole'
  <2>1. /\ \A u \in Terminals : at'[u] = "getargs" => at[u] = "getargs"
        /\ \A u \in Terminals : at'[u] \notin {"shell", "stale"} => at[u] \notin {"shell", "stale"}
    BY <1>1 DEF PInv, Typed
  <2> QED
    BY <1>1, <1>2, <2>1, ArgumentsStay DEF Typed, process
<1> QED
  BY <1>2, <1>3, <1>4, <1>5 DEF PInv
LEMMA CatOpenKeeps == ASSUME PInv, NEW t \in Terminals, CatOpen(t) PROVE PInv'
<1>1. PICK fd \in Fds : fd = open(args[t]) /\ Stands(fd) /\ (fd # Closed => fd.file_type \in 0 .. 2)
  <2>1. args[t] \in Text
    BY DEF PInv, Typed
  <2> QED
    BY <2>1, OpenStands
<1>2. PICK to \in {"shell", "copy"} :
        /\ at[t] = "open" /\ at' = [at EXCEPT ![t] = to] /\ file' = [file EXCEPT ![t] = fd]
        /\ to = "copy" => fd.file_type \in 0 .. 2
        /\ UNCHANGED <<stored_buf, command, args, image, dir, name, buffer, overtaken>>
  <2>1. /\ at[t] = "open" /\ file' = [file EXCEPT ![t] = fd] /\ file'[t] = fd
        /\ UNCHANGED <<stored_buf, command, args, image, dir, name, buffer, overtaken>>
    BY <1>1 DEF CatOpen, PInv, Typed
  <2>2. at' = [at EXCEPT ![t] = IF fd = Closed THEN "shell" ELSE "copy"]
    BY <2>1 DEF CatOpen, Ends, Goes
  <2> QED
    BY <1>1, <2>1, <2>2
<1>3. Typed'
  BY <1>2 DEF PInv, Typed, Places
<1>4. Opened'
  BY <1>1, <1>2 DEF PInv, Typed, Opened, Failed
<1>5. Buffers'
  BY <1>2 DEF PInv, Buffers
<1>6. Entered' /\ OneAhead' /\ StoredOwn' /\ OwnArguments' /\ LoadedWhole'
  <2>1. /\ \A u \in Terminals : at'[u] = "getargs" => at[u] = "getargs"
        /\ \A u \in Terminals : at'[u] \notin {"shell", "stale"} => at[u] \notin {"shell", "stale"}
    BY <1>2 DEF PInv, Typed
  <2> QED
    BY <1>2, <1>3, <2>1, ArgumentsStay DEF Typed
<1> QED
  BY <1>3, <1>4, <1>5, <1>6 DEF PInv

LEMMA CatCopyKeeps == ASSUME PInv, NEW t \in Terminals, CatCopy(t) PROVE PInv'
<1>1. file[t] \in Fds /\ Stands(file[t]) /\ file[t].file_type # Failed /\ at[t] = "copy"
  BY DEF PInv, Typed, Opened, CatCopy
<1>2. PICK fd \in Fds : /\ fd = read(file[t], BUFSIZE).fd /\ Stands(fd)
                        /\ fd.file_type = file[t].file_type
  <2>1. PICK before \in Fds : before = file[t]
    BY <1>1
  <2> QED
    BY <1>1, <2>1, ReadStands, ProgramConstants
<1>3. PICK to \in {"shell", "copy"} :
        /\ at' = [at EXCEPT ![t] = to] /\ file' = [file EXCEPT ![t] = fd]
        /\ UNCHANGED <<stored_buf, command, args, image, dir, name, buffer, overtaken>>
  <2>1. at' = [at EXCEPT ![t] = "shell"] \/ at' = [at EXCEPT ![t] = "copy"]
    BY <1>1 DEF CatCopy, Ends, Goes, PInv, Typed
  <2>2. /\ file' = [file EXCEPT ![t] = fd]
        /\ UNCHANGED <<stored_buf, command, args, image, dir, name, buffer, overtaken>>
    BY <1>2 DEF CatCopy
  <2> QED
    BY <2>1, <2>2
<1>4. Typed'
  BY <1>3 DEF PInv, Typed, Places
<1>5. Opened'
  BY <1>1, <1>2, <1>3 DEF PInv, Typed, Opened
<1>6. Buffers'
  BY <1>3 DEF PInv, Buffers
<1>7. Entered' /\ OneAhead' /\ StoredOwn' /\ OwnArguments' /\ LoadedWhole'
  <2>1. /\ \A u \in Terminals : at'[u] = "getargs" => at[u] = "getargs"
        /\ \A u \in Terminals : at'[u] \notin {"shell", "stale"} => at[u] \notin {"shell", "stale"}
    BY <1>1, <1>3 DEF PInv, Typed
  <2> QED
    BY <1>3, <1>4, <2>1, ArgumentsStay DEF Typed
<1> QED
  BY <1>4, <1>5, <1>6, <1>7 DEF PInv

LEMMA OpenDirKeeps ==
    ASSUME PInv, NEW t \in Terminals, NEW junk \in {nul, newline}, OpenDir(t, junk) PROVE PInv'
<1>1. PICK fd \in Fds : fd = open(dot) /\ Stands(fd) /\ fd.file_type = DIRECTORY_FILE_TYPE
  <2>1. dot \in Text
    BY DiskConstants DEF dot, Text
  <2> QED
    BY <2>1, OpenStands
<1>2. PICK array \in Text : array = Append(Nuls(BUFSIZE), junk) /\ Len(array) = BUFSIZE + 1
  <2>1. BUFSIZE \in Nat /\ nul \in Characters /\ junk \in Characters
    BY ProgramConstants, DiskConstants
  <2>2. Nuls(BUFSIZE) \in [1 .. BUFSIZE -> Characters]
    BY <2>1 DEF Nuls
  <2>3. Nuls(BUFSIZE) \in Seq(Characters) /\ Len(Nuls(BUFSIZE)) = BUFSIZE
    BY <2>1, <2>2, SeqDef, LenProperties
  <2> QED
    BY <2>1, <2>3, AppendProperties, ZenonT(30) DEF Text
<1>3. PICK to \in {"list", "next"} :
        /\ at[t] = "opendir" /\ at' = [at EXCEPT ![t] = to] /\ dir' = [dir EXCEPT ![t] = fd]
        /\ \/ buffer' = [buffer EXCEPT ![t] = buffer[t]]
           \/ buffer' = [buffer EXCEPT ![t] = [data |-> array, last |-> 0]]
        /\ UNCHANGED <<stored_buf, command, args, image, file, name, shown, overtaken>>
  <2>1. at' = [at EXCEPT ![t] = IF Program(t) = <<"ls">> THEN "list" ELSE "next"]
    BY DEF OpenDir, Goes
  <2>2. /\ at[t] = "opendir" /\ dir' = [dir EXCEPT ![t] = fd]
        /\ UNCHANGED <<stored_buf, command, args, image, file, name, shown, overtaken>>
    BY <1>1 DEF OpenDir
  <2>3. \/ buffer' = [buffer EXCEPT ![t] = buffer[t]]
        \/ buffer' = [buffer EXCEPT ![t] = [data |-> array, last |-> 0]]
    BY <1>2 DEF OpenDir
  <2> QED
    BY <2>1, <2>2, <2>3
<1>4. Typed'
  BY <1>3 DEF PInv, Typed, Places
<1>5. Opened'
  BY <1>1, <1>3 DEF PInv, Typed, Opened
<1>6. Buffers'
  <2>1. 0 \in 0 .. BUFSIZE - 1
    BY ProgramConstants, DiskConstants
  <2>2. buffer'[t] \in {buffer[t], [data |-> array, last |-> 0]}
    BY <1>3 DEF PInv, Typed
  <2>3. \A u \in Terminals : u # t => buffer'[u] = buffer[u]
    BY <1>3 DEF PInv, Typed
  <2>4. Len(buffer'[t].data) = BUFSIZE + 1 /\ buffer'[t].last \in 0 .. BUFSIZE - 1
    BY <1>2, <2>1, <2>2 DEF PInv, Buffers
  <2> QED
    BY <2>3, <2>4 DEF PInv, Buffers
<1>7. Entered' /\ OneAhead' /\ StoredOwn' /\ OwnArguments' /\ LoadedWhole'
  <2>1. /\ \A u \in Terminals : at'[u] = "getargs" => at[u] = "getargs"
        /\ \A u \in Terminals : at'[u] \notin {"shell", "stale"} => at[u] \notin {"shell", "stale"}
    BY <1>3 DEF PInv, Typed
  <2> QED
    BY <1>3, <1>4, <2>1, ArgumentsStay DEF Typed
<1> QED
  BY <1>4, <1>5, <1>6, <1>7 DEF PInv

LEMMA LsListKeeps == ASSUME PInv, NEW t \in Terminals, LsList(t) PROVE PInv'
<1>1. /\ dir[t] \in Fds /\ Stands(dir[t]) /\ dir[t].file_type = DIRECTORY_FILE_TYPE
      /\ dir[t].file_type # Failed /\ at[t] = "list"
  BY DEF PInv, Typed, Opened, LsList, Failed, DIRECTORY_FILE_TYPE
<1>2. PICK fd \in Fds : /\ fd = read(dir[t], DENTRY_FILE_NAME_LEN).fd /\ Stands(fd)
                        /\ fd.file_type = DIRECTORY_FILE_TYPE
  <2>1. PICK before \in Fds : before = dir[t]
    BY <1>1
  <2>2. DENTRY_FILE_NAME_LEN \in Nat
    BY DiskConstants
  <2> QED
    BY <1>1, <2>1, <2>2, ReadStands
<1>3. PICK to \in {"shell", "list"} :
        /\ at' = [at EXCEPT ![t] = to] /\ dir' = [dir EXCEPT ![t] = fd]
        /\ UNCHANGED <<stored_buf, command, args, image, file, name, buffer, overtaken>>
  <2>1. at' = [at EXCEPT ![t] = "shell"] \/ at' = [at EXCEPT ![t] = "list"]
    BY <1>1 DEF LsList, Ends, Goes, PInv, Typed
  <2>2. /\ dir' = [dir EXCEPT ![t] = fd]
        /\ UNCHANGED <<stored_buf, command, args, image, file, name, buffer, overtaken>>
    BY <1>2 DEF LsList
  <2> QED
    BY <2>1, <2>2
<1>4. Typed'
  BY <1>3 DEF PInv, Typed, Places
<1>5. Opened'
  BY <1>1, <1>2, <1>3 DEF PInv, Typed, Opened
<1>6. Buffers'
  BY <1>3 DEF PInv, Buffers
<1>7. Entered' /\ OneAhead' /\ StoredOwn' /\ OwnArguments' /\ LoadedWhole'
  <2>1. /\ \A u \in Terminals : at'[u] = "getargs" => at[u] = "getargs"
        /\ \A u \in Terminals : at'[u] \notin {"shell", "stale"} => at[u] \notin {"shell", "stale"}
    BY <1>1, <1>3 DEF PInv, Typed
  <2> QED
    BY <1>3, <1>4, <2>1, ArgumentsStay DEF Typed
<1> QED
  BY <1>4, <1>5, <1>6, <1>7 DEF PInv
\* grep opens what the directory names, never the directory itself.
LEMMA GrepNextKeeps == ASSUME PInv, NEW t \in Terminals, GrepNext(t) PROVE PInv'
<1>1. /\ dir[t] \in Fds /\ Stands(dir[t]) /\ dir[t].file_type = DIRECTORY_FILE_TYPE
      /\ dir[t].file_type # Failed /\ at[t] = "next"
  BY DEF PInv, Typed, Opened, GrepNext, Failed, DIRECTORY_FILE_TYPE
<1> DEFINE r == read(dir[t], DENTRY_FILE_NAME_LEN)
           fname == CString(r.buf)
<1>2. PICK fd \in Fds : fd = r.fd /\ Stands(fd) /\ fd.file_type = DIRECTORY_FILE_TYPE
  <2>1. PICK before \in Fds : before = dir[t]
    BY <1>1
  <2>2. DENTRY_FILE_NAME_LEN \in Nat
    BY DiskConstants
  <2> QED
    BY <1>1, <2>1, <2>2, ReadStands
<1>3. ASSUME r.returned # 0, fname[1] # "."
      PROVE  \E new \in Fds : /\ new = open(fname) /\ Stands(new)
                              /\ new.file_type \in {REGULAR_FILE_TYPE, RTC_FILE_TYPE}
  <2>1. r = directory_read(dir[t], DENTRY_FILE_NAME_LEN)
    BY <1>1 DEF read, REGULAR_FILE_TYPE, DIRECTORY_FILE_TYPE, RTC_FILE_TYPE
  <2>2. PICK k \in DOMAIN direntries :
          r.buf = Filled(direntries[k].filename, DENTRY_FILE_NAME_LEN)
    <3>1. PICK p \in Nat : p = dir[t].file_position
      BY <1>1 DEF Fds
    <3>2. Len(direntries) \in Nat /\ DOMAIN direntries = 1 .. Len(direntries)
      BY DiskConstants, LenProperties
    <3>3. ~(p >= Len(direntries))
      BY <1>3, <2>1, <3>1 DEF directory_read
    <3>4. p + 1 \in DOMAIN direntries
      BY <3>2, <3>3
    <3>5. DENTRY_FILE_NAME_LEN \in Nat
      BY DiskConstants
    <3>6. r.buf = Filled(direntries[p + 1].filename, DENTRY_FILE_NAME_LEN)
      BY <2>1, <3>1, <3>3, <3>5 DEF directory_read
    <3> QED
      BY <3>4, <3>6
  <2>3. PICK entry \in Text :
          /\ entry = direntries[k].filename /\ Len(entry) \in 1 .. DENTRY_FILE_NAME_LEN
          /\ \A m \in 1 .. Len(entry) : entry[m] # nul
    BY EntryIs
  <2>4. fname = entry
    <3>1. DENTRY_FILE_NAME_LEN \in Nat /\ Len(entry) <= DENTRY_FILE_NAME_LEN
      BY <2>3, DiskConstants
    <3> QED
      BY <2>2, <2>3, <3>1, NameComesBack
  <2> HIDE DEF fname, r
  <2>5. entry # dot
    BY <1>3, <2>4 DEF dot
  <2>6. PICK new \in Fds : /\ new = open(entry) /\ Stands(new) /\ new.file_type \in 0 .. 2
                           /\ new.file_type # DIRECTORY_FILE_TYPE
    BY <2>3, <2>5, OpenStands
  <2> QED
    BY <2>4, <2>6 DEF REGULAR_FILE_TYPE, RTC_FILE_TYPE, DIRECTORY_FILE_TYPE
<1> DEFINE emptied == [buffer[t] EXCEPT !.last = 0]
<1>0. /\ emptied \in [data : Text, last : Nat]
      /\ Len(emptied.data) = BUFSIZE + 1 /\ emptied.last \in 0 .. BUFSIZE - 1
  <2>1. buffer[t] \in [data : Text, last : Nat] /\ Len(buffer[t].data) = BUFSIZE + 1
    BY DEF PInv, Typed, Buffers
  <2>2. emptied \in [data : Text, last : Nat] /\ emptied.data = buffer[t].data /\ emptied.last = 0
    BY <2>1
  <2>3. 0 \in 0 .. BUFSIZE - 1
    BY ProgramConstants, DiskConstants
  <2> QED
    BY <2>1, <2>2, <2>3
<1>4. /\ dir' = [dir EXCEPT ![t] = fd]
      /\ UNCHANGED <<stored_buf, command, args, image, overtaken>>
      /\ \/ /\ at' = [at EXCEPT ![t] = "shell"] \/ at' = at
            /\ UNCHANGED <<file, buffer>>
         \/ \E new \in Fds :
              /\ Stands(new) /\ new.file_type \in {REGULAR_FILE_TYPE, RTC_FILE_TYPE}
              /\ file' = [file EXCEPT ![t] = new] /\ at' = [at EXCEPT ![t] = "search"]
              /\ buffer' = [buffer EXCEPT ![t] = emptied]
  <2>1. /\ dir' = [dir EXCEPT ![t] = fd]
        /\ UNCHANGED <<stored_buf, command, args, image, overtaken>>
    BY <1>2 DEF GrepNext
  <2>2. CASE r.returned = 0
    BY <2>1, <2>2 DEF GrepNext, Ends, Goes
  <2>3. CASE r.returned # 0 /\ fname[1] = "."
    BY <2>1, <2>3 DEF GrepNext
  <2>4. CASE r.returned # 0 /\ fname[1] # "."
    <3>1. /\ file' = [file EXCEPT ![t] = open(fname)] /\ at' = [at EXCEPT ![t] = "search"]
          /\ buffer' = [buffer EXCEPT ![t] = emptied]
      BY <2>4 DEF GrepNext, Goes
    <3> QED
      BY <1>3, <2>1, <2>4, <3>1
  <2> HIDE DEF r, fname
  <2> QED
    BY <2>2, <2>3, <2>4
<1> HIDE DEF r, fname, emptied
<1>5. at' \in [Terminals -> Places] /\ \A u \in Terminals : u # t => at'[u] = at[u]
  BY <1>4 DEF PInv, Typed, Places
<1>6. /\ file' \in [Terminals -> Fds]
      /\ buffer' \in [Terminals -> [data : Text, last : Nat]]
  <2>1. file \in [Terminals -> Fds] /\ buffer \in [Terminals -> [data : Text, last : Nat]]
    BY DEF PInv, Typed
  <2>2. file' = file \/ \E new \in Fds : file' = [file EXCEPT ![t] = new]
    BY <1>4
  <2>3. buffer' = buffer \/ buffer' = [buffer EXCEPT ![t] = emptied]
    BY <1>4
  <2>4. file' \in [Terminals -> Fds]
    BY <2>1, <2>2
  <2>5. buffer' \in [Terminals -> [data : Text, last : Nat]]
    BY <1>0, <2>1, <2>3
  <2> QED
    BY <2>4, <2>5
<1>7. Typed'
  BY <1>4, <1>5, <1>6 DEF PInv, Typed
<1>8. Opened'
  BY <1>1, <1>2, <1>4 DEF PInv, Typed, Opened
<1>9. Buffers'
  <2>1. /\ buffer'[t] \in {buffer[t], emptied}
        /\ \A u \in Terminals : u # t => buffer'[u] = buffer[u]
    BY <1>4 DEF PInv, Typed
  <2>2. Len(buffer'[t].data) = BUFSIZE + 1 /\ buffer'[t].last \in 0 .. BUFSIZE - 1
    BY <1>0, <2>1 DEF PInv, Buffers
  <2> QED
    BY <2>1, <2>2 DEF PInv, Buffers
<1>10. Entered' /\ OneAhead' /\ StoredOwn' /\ OwnArguments' /\ LoadedWhole'
  <2>1. /\ \A u \in Terminals : at'[u] = "getargs" => at[u] = "getargs"
        /\ \A u \in Terminals : at'[u] \notin {"shell", "stale"} => at[u] \notin {"shell", "stale"}
    BY <1>1, <1>4 DEF PInv, Typed
  <2> QED
    BY <1>4, <1>5, <2>1, ArgumentsStay
<1> QED
  BY <1>7, <1>8, <1>9, <1>10 DEF PInv

LEMMA GrepSearchKeeps == ASSUME PInv, NEW t \in Terminals, GrepSearch(t) PROVE PInv'
<1>1. PICK before \in Fds, held \in Text, last \in 0 .. BUFSIZE - 1 :
        /\ before = file[t] /\ Stands(before) /\ before.file_type # Failed
        /\ before.file_type \in {REGULAR_FILE_TYPE, RTC_FILE_TYPE} /\ at[t] = "search"
        /\ held = buffer[t].data /\ Len(held) = BUFSIZE + 1 /\ last = buffer[t].last
  <2>1. /\ file[t] \in Fds /\ Stands(file[t]) /\ at[t] = "search"
        /\ file[t].file_type \in {REGULAR_FILE_TYPE, RTC_FILE_TYPE}
    BY DEF PInv, Typed, Opened, GrepSearch
  <2>2. file[t].file_type # Failed
    BY <2>1 DEF Failed, REGULAR_FILE_TYPE, RTC_FILE_TYPE
  <2>3. /\ buffer[t].data \in Text /\ Len(buffer[t].data) = BUFSIZE + 1
        /\ buffer[t].last \in 0 .. BUFSIZE - 1
    BY DEF PInv, Typed, Buffers
  <2> QED
    BY <2>1, <2>2, <2>3
<1>2. BUFSIZE \in Nat /\ BUFSIZE - last \in Nat
  BY ProgramConstants
<1>3. PICK r : r = read(before, BUFSIZE - last)
  OBVIOUS
<1>4. /\ r.fd \in Fds /\ Stands(r.fd) /\ r.fd.file_type = before.file_type
      /\ r.buf \in Text /\ Len(r.buf) \in {0, BUFSIZE - last}
      /\ r.returned \in {0, BUFSIZE - last}
  BY <1>1, <1>2, <1>3, ReadStands
<1>5. PICK array \in Text : array = Put(held, last, r.buf) /\ Len(array) = BUFSIZE + 1
  <2>1. last \in Nat /\ last + Len(r.buf) <= Len(held)
    BY <1>1, <1>2, <1>4
  <2> QED
    BY <1>1, <1>4, <2>1, PutFits
<1>6. PICK kept \in [data : Text, last : Nat] :
        /\ kept = Kept(array, last + r.returned, r.returned)
        /\ Len(kept.data) = BUFSIZE + 1 /\ kept.last \in 0 .. BUFSIZE - 1
  <2>1. /\ last + r.returned \in 0 .. BUFSIZE
        /\ r.returned # 0 => last + r.returned = BUFSIZE
    BY <1>1, <1>2, <1>4
  <2> QED
    BY <1>5, <2>1, KeptFits
<1>7. /\ buffer' = [buffer EXCEPT ![t] = kept]
      /\ UNCHANGED <<stored_buf, command, args, image, dir, name, overtaken>>
      /\ \/ at' = [at EXCEPT ![t] = "next"] /\ file' = [file EXCEPT ![t] = Closed]
         \/ at' = at /\ file' = [file EXCEPT ![t] = r.fd]
  BY <1>1, <1>3, <1>5, <1>6 DEF GrepSearch, Goes
<1>8. at' \in [Terminals -> Places] /\ \A u \in Terminals : u # t => at'[u] = at[u]
  BY <1>7 DEF PInv, Typed, Places
<1>9. Closed \in Fds /\ Stands(Closed)
  BY DEF Closed, Failed, Fds, Stands, Size, REGULAR_FILE_TYPE, DIRECTORY_FILE_TYPE
<1>10. Typed'
  <2>1. file' \in [Terminals -> Fds] /\ buffer' \in [Terminals -> [data : Text, last : Nat]]
    <3>1. file \in [Terminals -> Fds] /\ buffer \in [Terminals -> [data : Text, last : Nat]]
      BY DEF PInv, Typed
    <3>2. \E new \in Fds : file' = [file EXCEPT ![t] = new]
      BY <1>4, <1>7, <1>9
    <3>3. file' \in [Terminals -> Fds]
      BY <3>1, <3>2
    <3>4. buffer' \in [Terminals -> [data : Text, last : Nat]]
      BY <1>6, <1>7, <3>1
    <3> QED
      BY <3>3, <3>4
  <2> QED
    BY <1>7, <1>8, <2>1 DEF PInv, Typed
<1>11. Opened'
  BY <1>1, <1>4, <1>7, <1>9, ZenonT(40) DEF PInv, Typed, Opened
<1>12. Buffers'
  BY <1>6, <1>7 DEF PInv, Typed, Buffers
<1>13. Entered' /\ OneAhead' /\ StoredOwn' /\ OwnArguments' /\ LoadedWhole'
  <2>1. /\ \A u \in Terminals : at'[u] = "getargs" => at[u] = "getargs"
        /\ \A u \in Terminals : at'[u] \notin {"shell", "stale"} => at[u] \notin {"shell", "stale"}
    BY <1>1, <1>7 DEF PInv, Typed
  <2> QED
    BY <1>7, <1>8, <2>1, ArgumentsStay
<1> QED
  BY <1>10, <1>11, <1>12, <1>13 DEF PInv
\* What getargs hands over is what was stored, its end marked: the program that
\* has not been overtaken finds its own arguments, marked before or not.
LEMMA getargsKeeps == ASSUME PInv, NEW t \in Terminals, getargs(t) PROVE PInv'
<1>1. PICK ended \in Text : ended = Ended(stored_buf, BUFSIZE)
  BY ProgramConstants, EndedOnce DEF PInv, Typed
<1>2. PICK to \in {"shell", "open", "opendir"} :
        /\ at[t] = "getargs" /\ stored_buf' = ended /\ at' = [at EXCEPT ![t] = to]
        /\ \/ ArgumentsFit(ended, BUFSIZE) /\ args' = [args EXCEPT ![t] = ended]
           \/ UNCHANGED args
        /\ UNCHANGED <<command, image, file, dir, name, buffer, overtaken>>
  <2>1. /\ at[t] = "getargs" /\ stored_buf' = ended
        /\ UNCHANGED <<command, image, file, dir, name, buffer, overtaken>>
    BY <1>1 DEF getargs
  <2>2. CASE ArgumentsFit(ended, BUFSIZE)
    <3>1. args' = [args EXCEPT ![t] = ended]
      BY <1>1, <2>2 DEF getargs
    <3>2. at' = [at EXCEPT ![t] = "open"] \/ at' = [at EXCEPT ![t] = "opendir"]
      BY <1>1, <2>2 DEF getargs, Goes
    <3> QED
      BY <2>1, <2>2, <3>1, <3>2
  <2>3. CASE ~ArgumentsFit(ended, BUFSIZE)
    <3>1. at' = [at EXCEPT ![t] = "shell"] /\ UNCHANGED args
      BY <1>1, <2>3 DEF getargs, Ends, Goes
    <3> QED
      BY <2>1, <3>1
  <2> QED
    BY <2>2, <2>3
<1>3. Typed'
  BY <1>2 DEF PInv, Typed, Places
<1>4. Opened'
  BY <1>2 DEF PInv, Typed, Opened
<1>5. Buffers'
  BY <1>2 DEF PInv, Buffers
<1>6. Entered' /\ OneAhead'
  BY <1>2 DEF PInv, Typed, Entered, OneAhead, Program
<1>7. StoredOwn'
  <2> SUFFICES ASSUME NEW u \in Terminals, at'[u] = "getargs", ~overtaken'[u]
               PROVE  LET arguments == parse_args(command'[u], NoArguments)
                      IN  stored_buf' \in {arguments, Ended(arguments, BUFSIZE)}
    BY DEF StoredOwn
  <2>1. at[u] = "getargs" /\ ~overtaken[u] /\ command'[u] = command[u]
    BY <1>2 DEF PInv, Typed
  <2> DEFINE arguments == parse_args(command[u], NoArguments)
  <2>2. stored_buf = arguments \/ stored_buf = Ended(arguments, BUFSIZE)
    BY <2>1 DEF PInv, StoredOwn
  <2>3. stored_buf' = Ended(arguments, BUFSIZE)
    <3>1. CASE stored_buf = arguments
      BY <1>1, <1>2, <3>1
    <3>2. CASE stored_buf = Ended(arguments, BUFSIZE)
      <4>1. arguments \in Text
        BY <2>1, EnteredIs
      <4> HIDE DEF arguments
      <4> QED
        BY <1>1, <1>2, <3>2, <4>1, EndedOnce, ProgramConstants
    <3> QED
      BY <2>2, <3>1, <3>2
  <2> QED
    BY <2>1, <2>3
<1>8. OwnArguments'
  <2> SUFFICES ASSUME NEW u \in Terminals, args'[u] # NoArguments, ~overtaken'[u]
               PROVE  IsSplit(command'[u], Program(u)', args'[u])
    BY DEF OwnArguments
  <2>1. command'[u] = command[u] /\ Program(u)' = Program(u) /\ ~overtaken[u]
    BY <1>2 DEF Program
  <2>2. CASE args'[u] = args[u]
    BY <2>1, <2>2 DEF PInv, OwnArguments
  <2>3. CASE args'[u] # args[u]
    <3>1. u = t /\ ArgumentsFit(ended, BUFSIZE) /\ args'[u] = ended /\ at[u] = "getargs"
      BY <1>2, <2>3 DEF PInv, Typed
    <3> DEFINE arguments == parse_args(command[u], NoArguments)
    <3>2. ended = Ended(arguments, BUFSIZE)
      <4>1. stored_buf = arguments \/ stored_buf = Ended(arguments, BUFSIZE)
        BY <2>1, <3>1 DEF PInv, StoredOwn
      <4>2. arguments \in Text
        BY <3>1, EnteredIs
      <4> HIDE DEF arguments
      <4> QED
        BY <1>1, <4>1, <4>2, EndedOnce, ProgramConstants
    <3>3. \/ arguments = NoArguments
          \/ \E b \in Text : /\ arguments = Append(b, eol)
                             /\ IsSplit(command[u], Program(u), b)
                             /\ \A i \in 1 .. Len(b) : b[i] # eol
      BY <3>1, EnteredIs
    <3> HIDE DEF arguments
    <3>4. CASE arguments = NoArguments
      <4>1. NoArguments \in Text /\ Len(NoArguments) = 0
        BY DEF NoArguments, Text
      <4>2. Ended(arguments, BUFSIZE) = NoArguments
        BY <3>4, <4>1, EndedIs, ProgramConstants
      <4> QED
        BY <3>1, <3>2, <4>2 DEF ArgumentsFit
    <3>5. ASSUME NEW b \in Text, arguments = Append(b, eol),
                 IsSplit(command[u], Program(u), b), \A i \in 1 .. Len(b) : b[i] # eol
          PROVE  IsSplit(command'[u], Program(u)', args'[u])
      <4>1. ended = b
        BY <3>1, <3>2, <3>5, FitsWhole, ProgramConstants
      <4> QED
        BY <2>1, <3>1, <3>5, <4>1
    <3> QED
      BY <3>3, <3>4, <3>5
  <2> QED
    BY <2>2, <2>3
<1>9. LoadedWhole'
  BY <1>2 DEF PInv, Typed, LoadedWhole, Program
<1> QED
  BY <1>3, <1>4, <1>5, <1>6, <1>7, <1>8, <1>9 DEF PInv
\* execute replaces the arguments of whoever has not asked for its own, and loads
\* the file of that name, if it is one of the programs.
LEMMA Executable ==
    ASSUME NEW k \in DOMAIN direntries, NEW stale \in BOOLEAN,
           is_executable(read_data(direntries[k].inode_num, 0, 1), stale),
           NEW bytes, bytes = read_data(direntries[k].inode_num, 0,
                                        inodes[direntries[k].inode_num].length)
    PROVE  /\ bytes = Contents(direntries[k].inode_num)
           /\ bytes # <<>> => direntries[k].filename \in {<<"ls">>, <<"cat">>, <<"grep">>}
<1>1. PICK n \in DOMAIN inodes : n = direntries[k].inode_num
  BY EntryIs
<1>2. bytes = Contents(n)
  BY <1>1, LoadIsWhole
<1>3. inodes[n].length \in Nat
  BY DiskConstants
<1>4. ASSUME bytes # <<>> PROVE direntries[k].filename \in {<<"ls">>, <<"cat">>, <<"grep">>}
  <2>1. inodes[n].length > 0
    <3>1. CASE inodes[n].length = 0
      <4>1. Left(n, 0, 0) = 0
        BY <1>3, <3>1 DEF Left, Least
      <4>2. PICK s \in Text : s = read_data(n, 0, 0) /\ Len(s) = 0
        BY <4>1, ReadFacts
      <4>3. s = <<>>
        BY <4>2, EmptySeq DEF Text
      <4> QED
        BY <1>1, <1>4, <3>1, <4>2, <4>3
    <3> QED
      BY <1>3, <3>1
  <2>2. Left(n, 0, 1) = 1
    BY <1>3, <2>1 DEF Left, Least
  <2>3. PICK head \in Text : /\ head = read_data(n, 0, 1) /\ Len(head) = 1
                             /\ head[1] = ByteOf(inodes[n], 0, 0)
    <3>1. PICK zero \in Nat : zero = 0
      OBVIOUS
    <3>2. /\ read_data(n, zero, 1) \in Text /\ Len(read_data(n, zero, 1)) = Left(n, zero, 1)
          /\ \A i \in 1 .. Left(n, zero, 1) :
                read_data(n, zero, 1)[i] = ByteOf(inodes[n], 0, zero + i - 1)
      BY ReadFacts
    <3>3. 1 \in 1 .. Left(n, zero, 1) /\ zero + 1 - 1 = 0
      BY <2>2, <3>1
    <3>4. read_data(n, zero, 1)[1] = ByteOf(inodes[n], 0, 0)
      <4>1. read_data(n, zero, 1)[1] = ByteOf(inodes[n], 0, zero + 1 - 1)
        BY <3>2, <3>3
      <4> QED
        BY <3>3, <4>1
    <3> QED
      BY <2>2, <3>1, <3>2, <3>4
  <2>4. head # <<>>
    BY <2>3
  <2>5. ByteOf(inodes[n], 0, 0) = magic
    BY <1>1, <2>3, <2>4 DEF is_executable
  <2> QED
    BY <1>1, <2>1, <2>5, ModelledPrograms
<1> QED
  BY <1>1, <1>2, <1>4

\* What execute makes of the program of a terminal: to is the call it makes
\* first and bytes its image.
Becomes(t, line, to, bytes) ==
    /\ at' = [at EXCEPT ![t] = to] /\ args' = [args EXCEPT ![t] = NoArguments]
    /\ image' = [image EXCEPT ![t] = bytes] \/ UNCHANGED image
    /\ file' = [file EXCEPT ![t] = Closed] \/ UNCHANGED file
    /\ dir' = [dir EXCEPT ![t] = Closed] \/ UNCHANGED dir
    /\ buffer' = [buffer EXCEPT ![t] = NoBuffer] \/ UNCHANGED buffer
    /\ to \notin {"shell", "stale"} =>
          /\ image' = [image EXCEPT ![t] = bytes]
          /\ \E m \in DOMAIN direntries :
                Names(m, get_file_name(line)) /\ bytes = Contents(direntries[m].inode_num)
    /\ to = "getargs" => get_file_name(line) \in {<<"cat">>, <<"grep">>}

LEMMA executeKeeps ==
    ASSUME PInv, NEW t \in Terminals, NEW line \in Commands[t], NEW stale \in BOOLEAN,
           execute(t, line, stale)
    PROVE  PInv'
<1>0. line \in Text /\ IsLine(line)
  BY Lines DEF IsLine
<1> DEFINE k == read_dentry_by_name(get_file_name(line))
           executable == k # 0 /\ is_executable(read_data(direntries[k].inode_num, 0, 1), stale)
<1>1. /\ at[t] = "shell"
      /\ stored_buf' = parse_args(line, stored_buf) /\ command' = [command EXCEPT ![t] = line]
      /\ overtaken' = [u \in Terminals |-> u # t /\ (overtaken[u] \/ at[u] = "getargs")]
      /\ IF executable THEN Load(t, k, stale) ELSE NoSuchCommand(t)
  BY DEF execute, ParseArgs
<1>2. get_file_name(line) \in Text
  <2>1. PICK end \in 1 .. Len(line) : get_file_name(line) = SubSeq(line, 1, end - 1)
    BY <1>0, NameIs
  <2> QED
    BY <1>0, <2>1, Start
<1>3. k # 0 => k \in DOMAIN direntries /\ Names(k, get_file_name(line))
  BY <1>2, FoundByName
<1>4. Closed \in Fds /\ Stands(Closed)
  BY DEF Closed, Failed, Fds, Stands, Size, REGULAR_FILE_TYPE, DIRECTORY_FILE_TYPE
<1>5. NoBuffer \in [data : Text, last : Nat] /\ Len(NoBuffer.data) = BUFSIZE + 1
      /\ NoBuffer.last \in 0 .. BUFSIZE - 1
  BY NoBufferIs
<1>started. \E to \in {"shell", "stale", "getargs", "opendir"} :
          \E bytes : Becomes(t, line, to, bytes)
  <2>1. CASE ~executable
    <3>1. NoSuchCommand(t)
      BY <1>1, <2>1
    <3>2. at' = [at EXCEPT ![t] = "shell"]
      BY <1>1, <3>1 DEF NoSuchCommand, PInv, Typed
    <3> HIDE DEF k, executable
    <3>3. Becomes(t, line, "shell", <<>>)
      BY <3>1, <3>2 DEF NoSuchCommand, Becomes
    <3> QED
      BY <3>3
  <2>2. CASE executable
    <3>1. PICK n \in DOMAIN direntries : n = k /\ Names(n, get_file_name(line))
      BY <1>3, <2>2
    <3>2. Load(t, n, stale)
      BY <1>1, <2>2, <3>1
    <3>3. is_executable(read_data(direntries[n].inode_num, 0, 1), stale)
      BY <2>2, <3>1
    <3> HIDE DEF k, executable
    <3>4. PICK bytes : bytes = read_data(direntries[n].inode_num, 0,
                                         inodes[direntries[n].inode_num].length)
      OBVIOUS
    <3>5. /\ bytes = Contents(direntries[n].inode_num)
          /\ bytes # <<>> => direntries[n].filename \in {<<"ls">>, <<"cat">>, <<"grep">>}
      BY <3>3, <3>4, Executable
    <3>6. /\ image' = [image EXCEPT ![t] = bytes] /\ args' = [args EXCEPT ![t] = NoArguments]
          /\ file' = [file EXCEPT ![t] = Closed] /\ dir' = [dir EXCEPT ![t] = Closed]
          /\ buffer' = [buffer EXCEPT ![t] = NoBuffer]
          /\ at' = [at EXCEPT ![t] = IF bytes = <<>> THEN "stale"
                                     ELSE FirstCall(direntries[n].filename)]
      BY <3>2, <3>4 DEF Load, Goes
    <3>7. direntries[n].filename = get_file_name(line)
      BY <3>1 DEF Names
    <3>8. CASE bytes = <<>>
      <4>1. Becomes(t, line, "stale", bytes)
        BY <3>6, <3>8 DEF Becomes
      <4> QED
        BY <4>1
    <3>9. CASE bytes # <<>>
      <4>1. PICK to \in {"getargs", "opendir"} :
              /\ to = FirstCall(direntries[n].filename)
              /\ to = "getargs" => get_file_name(line) \in {<<"cat">>, <<"grep">>}
        BY <3>5, <3>7, <3>9 DEF FirstCall
      <4>2. at' = [at EXCEPT ![t] = to]
        BY <3>6, <3>9, <4>1
      <4>3. Becomes(t, line, to, bytes)
        BY <3>1, <3>5, <3>6, <4>1, <4>2 DEF Becomes
      <4> QED
        BY <4>1, <4>3
    <3> QED
      BY <3>8, <3>9
  <2> QED
    BY <2>1, <2>2
<1> HIDE DEF k, executable
<1>pick. PICK to, bytes : /\ to \in {"shell", "stale", "getargs", "opendir"}
                        /\ Becomes(t, line, to, bytes)
  BY <1>started
<1>6. /\ to \in {"shell", "stale", "getargs", "opendir"}
      /\ at' = [at EXCEPT ![t] = to] /\ args' = [args EXCEPT ![t] = NoArguments]
      /\ image' = [image EXCEPT ![t] = bytes] \/ UNCHANGED image
      /\ file' = [file EXCEPT ![t] = Closed] \/ UNCHANGED file
      /\ dir' = [dir EXCEPT ![t] = Closed] \/ UNCHANGED dir
      /\ buffer' = [buffer EXCEPT ![t] = NoBuffer] \/ UNCHANGED buffer
      /\ to \notin {"shell", "stale"} =>
            /\ image' = [image EXCEPT ![t] = bytes]
            /\ \E m \in DOMAIN direntries :
                  Names(m, get_file_name(line)) /\ bytes = Contents(direntries[m].inode_num)
      /\ to = "getargs" => get_file_name(line) \in {<<"cat">>, <<"grep">>}
  BY <1>pick DEF Becomes
<1>7. PICK stored \in Text : stored = parse_args(line, stored_buf)
                             /\ stored = parse_args(line, NoArguments)
  <2>1. parse_args(line, stored_buf) = parse_args(line, NoArguments)
    BY DEF parse_args
  <2>2. parse_args(line, stored_buf) \in Text
    BY <1>0, ParsedIsText
  <2> QED
    BY <2>1, <2>2
<1>8. Typed'
  <2>1. NoArguments \in Text
    BY DEF NoArguments, Text
  <2>2. /\ at' \in [Terminals -> Places] /\ stored_buf' \in Text
        /\ command' \in [Terminals -> Text] /\ args' \in [Terminals -> Text]
        /\ overtaken' \in [Terminals -> BOOLEAN]
    BY <1>0, <1>1, <1>6, <1>7, <2>1 DEF PInv, Typed, Places
  <2>3. DOMAIN image' = Terminals
    BY <1>6 DEF PInv, Typed
  <2>4. file' \in [Terminals -> Fds] /\ dir' \in [Terminals -> Fds]
    BY <1>4, <1>6 DEF PInv, Typed
  <2>5. buffer' \in [Terminals -> [data : Text, last : Nat]]
    BY <1>5, <1>6 DEF PInv, Typed
  <2> QED
    BY <2>2, <2>3, <2>4, <2>5 DEF Typed
<1>9. Opened'
  <2>1. \A u \in Terminals : Stands(file[u])' /\ Stands(dir[u])'
    <3> SUFFICES ASSUME NEW u \in Terminals PROVE Stands(file'[u]) /\ Stands(dir'[u])
      BY DEF Stands, Size
    <3> QED
      BY <1>4, <1>6 DEF PInv, Typed, Opened
  <2>2. /\ at'[t] \notin {"list", "next", "search", "copy"}
        /\ \A u \in Terminals : u # t => /\ at'[u] = at[u] /\ file'[u] = file[u]
                                         /\ dir'[u] = dir[u]
    BY <1>6 DEF PInv, Typed
  <2> QED
    BY <2>1, <2>2 DEF PInv, Opened
<1>10. Buffers'
  <2>1. \A u \in Terminals : buffer'[u] \in {buffer[u], NoBuffer}
    BY <1>6 DEF PInv, Typed
  <2> QED
    BY <1>5, <2>1 DEF PInv, Buffers
<1>11. Entered'
  BY <1>1, <1>6 DEF PInv, Typed, Entered, Program
<1>12. OneAhead'
  <2>1. \A u \in Terminals : at'[u] = "getargs" /\ ~overtaken'[u] => u = t
    BY <1>1, <1>6 DEF PInv, Typed
  <2> QED
    BY <2>1 DEF OneAhead
<1>13. StoredOwn'
  <2>1. \A u \in Terminals : at'[u] = "getargs" /\ ~overtaken'[u] => u = t
    BY <1>1, <1>6 DEF PInv, Typed
  <2>2. command'[t] = line /\ stored_buf' = parse_args(line, NoArguments)
    BY <1>1, <1>7 DEF PInv, Typed
  <2> QED
    BY <2>1, <2>2 DEF StoredOwn
<1>14. OwnArguments'
  <2> SUFFICES ASSUME NEW u \in Terminals, args'[u] # NoArguments, ~overtaken'[u]
               PROVE  IsSplit(command'[u], Program(u)', args'[u])
    BY DEF OwnArguments
  <2>1. u # t /\ args'[u] = args[u] /\ command'[u] = command[u] /\ ~overtaken[u]
    BY <1>1, <1>6 DEF PInv, Typed
  <2>2. Program(u)' = Program(u)
    BY <2>1 DEF Program
  <2> QED
    BY <2>1, <2>2 DEF PInv, OwnArguments
<1>15. LoadedWhole'
  <2> SUFFICES ASSUME NEW u \in Terminals, at'[u] \notin {"shell", "stale"}
               PROVE  \E m \in DOMAIN direntries :
                        /\ Names(m, Program(u)')
                        /\ image'[u] = Contents(direntries[m].inode_num)
    BY DEF LoadedWhole, Names, Contents
  <2>1. CASE u = t
    <3>1. to \notin {"shell", "stale"} /\ image'[t] = bytes
      BY <1>6, <2>1 DEF PInv, Typed
    <3>2. Program(t)' = get_file_name(line)
      BY <1>1 DEF PInv, Typed, Program
    <3> QED
      BY <1>6, <2>1, <3>1, <3>2
  <2>2. CASE u # t
    <3>1. at'[u] = at[u] /\ image'[u] = image[u] /\ command'[u] = command[u]
      BY <1>1, <1>6, <2>2 DEF PInv, Typed
    <3>2. Program(u)' = Program(u)
      BY <3>1 DEF Program
    <3> QED
      BY <3>1, <3>2 DEF PInv, LoadedWhole
  <2> QED
    BY <2>1, <2>2
<1> QED
  BY <1>8, <1>9, <1>10, <1>11, <1>12, <1>13, <1>14, <1>15 DEF PInv

LEMMA PInvStep == PInv /\ [Next]_vars => PInv'
<1> SUFFICES ASSUME PInv, [Next]_vars PROVE PInv'
  OBVIOUS
<1>1. CASE UNCHANGED vars
  BY <1>1 DEF vars, process, PInv, Typed, Opened, Stands, Size, Buffers, Entered, OneAhead,
              StoredOwn, OwnArguments, LoadedWhole, Program
<1>2. ASSUME NEW t \in Terminals, Shell(t) PROVE PInv'
  BY <1>2, executeKeeps DEF Shell
<1>3. ASSUME NEW t \in Terminals, Calls(t) PROVE PInv'
  BY <1>3, StaleEndsKeeps, getargsKeeps, CatOpenKeeps, CatCopyKeeps, OpenDirKeeps,
     LsListKeeps, GrepNextKeeps, GrepSearchKeeps DEF Calls
<1> QED
  BY <1>1, <1>2, <1>3 DEF Next

LEMMA PInvInit == Init => PInv
<1> SUFFICES ASSUME Init PROVE PInv
  OBVIOUS
<1>1. Closed \in Fds /\ Stands(Closed)
  BY DEF Closed, Failed, Fds, Stands, Size, REGULAR_FILE_TYPE, DIRECTORY_FILE_TYPE
<1>2. NoBuffer \in [data : Text, last : Nat] /\ Len(NoBuffer.data) = BUFSIZE + 1
      /\ NoBuffer.last \in 0 .. BUFSIZE - 1
  BY NoBufferIs
<1>3. NoArguments \in Text /\ <<eol>> \in Text
  <2>1. eol \in Characters
    BY DiskConstants DEF eol, newline
  <2> QED
    BY <2>1 DEF NoArguments, Text
<1>4. Typed
  BY <1>1, <1>2, <1>3 DEF Init, Typed, Places
<1>5. Opened
  BY <1>1 DEF Init, Opened
<1>6. Buffers
  BY <1>2 DEF Init, Buffers
<1>7. Entered /\ OneAhead /\ StoredOwn /\ OwnArguments /\ LoadedWhole
  BY DEF Init, Entered, OneAhead, StoredOwn, OwnArguments, LoadedWhole
<1> QED
  BY <1>4, <1>5, <1>6, <1>7 DEF PInv

\* The invariance of all of it.
THEOREM ProgramInvariance == Spec => []PInv
<1> QED
  BY PInvInit, PInvStep, PTL DEF Spec

\* A program finds the arguments of its own command, unless it was overtaken
\* before it asked for them (system_call.c:389-412, 630-665).
THEOREM ArgumentsOwn == Spec => []OwnArguments
<1>1. PInv => OwnArguments
  BY DEF PInv
<1> QED
  BY <1>1, ProgramInvariance, PTL

\* What runs is the first file of the name that was entered, every byte of it
\* (system_call.c:284, filesys.c:84-163).
THEOREM WholeProgramsRun == Spec => []LoadedWhole
<1>1. PInv => LoadedWhole
  BY DEF PInv
<1> QED
  BY <1>1, ProgramInvariance, PTL

\* No descriptor stands beyond the end of its file or of the directory, and
\* grep's buffer always has room for one more byte (filesys.c:84-197, 292-340,
\* ece391grep.c:20-59).
THEOREM PositionsWithin == Spec => []TypeOK
<1>1. PInv => TypeOK
  BY DEF PInv, Typed, Opened, Stands, Buffers, Entered, Places, TypeOK
<1> QED
  BY <1>1, ProgramInvariance, PTL

-----------------------------------------------------------------------------
(* What is printed *)

LEMMA UpTo ==
    ASSUME NEW s \in Text, NEW n \in 1 .. Len(s)
    PROVE  /\ SubSeq(s, 1, n - 1) \in Text /\ s[n] \in Characters
           /\ SubSeq(s, 1, n) = Append(SubSeq(s, 1, n - 1), s[n])
<1>1. Len(s) \in Nat /\ 1 \in 1 .. Len(s) /\ s \in Seq(Characters)
  BY LenProperties DEF Text
<1>2. SubSeq(s, 1, n) = SubSeq(s, 1, n - 1) \o <<s[n]>>
  <2>1. n \in 1 .. Len(s)
    OBVIOUS
  <2> QED
    BY <1>1, <2>1, SubSeqRecursiveSecond
<1>3. SubSeq(s, 1, n - 1) \in Seq(Characters) /\ s[n] \in Characters
  BY <1>1, Start, ElementOfSeq DEF Text
<1> QED
  BY <1>2, <1>3, AppendIsConcat DEF Text

LEMMA AppendLater ==
    ASSUME NEW s \in Text, NEW t \in Text, NEW c \in Characters
    PROVE  s \o Append(t, c) = Append(s \o t, c)
<1>1. PICK one : one = <<c>>
  OBVIOUS
<1>2. one \in Seq(Characters) /\ s \in Seq(Characters) /\ t \in Seq(Characters)
  BY <1>1 DEF Text
<1>3. s \o t \in Seq(Characters)
  BY <1>2, ConcatProperties
<1>4. Append(t, c) = t \o one /\ Append(s \o t, c) = (s \o t) \o one
  BY <1>1, <1>2, <1>3, AppendIsConcat
<1> QED
  BY <1>2, <1>4, ConcatAssociative

LEMMA PrefixOf ==
    ASSUME NEW s \in Text, NEW t \in Text
    PROVE  IsPrefix(s, s \o t)
<1>1. s \in Seq(Characters) /\ t \in Seq(Characters) /\ Len(s) \in Nat /\ Len(t) \in Nat
  BY LenProperties DEF Text
<1>2. Len(s \o t) = Len(s) + Len(t)
  BY <1>1, ConcatProperties
<1>3. SubSeq(s, 1, Len(s)) = SubSeq(s \o t, 1, Len(s))
  <2>1. CASE Len(s) = 0
    BY <2>1, SubSeqEmpty
  <2>2. CASE Len(s) # 0
    <3>1. 1 \in 1 .. Len(s) /\ Len(s) \in 1 .. Len(s)
      BY <1>1, <2>2
    <3> QED
      BY <1>1, <3>1, SubSeqOfConcat1
  <2> QED
    BY <2>1, <2>2
<1> QED
  BY <1>1, <1>2, <1>3 DEF IsPrefix

LEMMA PrintedRounds ==
    ASSUME NEW bytes \in Text
    PROVE  \E f \in [0 .. Len(bytes) -> Text] :
              /\ f[0] = <<>>
              /\ \A n \in 1 .. Len(bytes) :
                    f[n] = IF bytes[n] = nul THEN f[n - 1] ELSE Append(f[n - 1], bytes[n])
              /\ Printed(bytes) = f[Len(bytes)]
<1>1. Len(bytes) \in Nat /\ <<>> \in Text
  BY LenProperties DEF Text
<1>2. \A n \in 1 .. Len(bytes), d \in Text : Append(d, bytes[n]) \in Text
  BY ElementOfSeq, AppendProperties DEF Text
<1>3. PICK F \in [1 .. Len(bytes) -> [Text -> Text]] :
          \A n \in 1 .. Len(bytes), d \in Text :
              F[n][d] = IF bytes[n] = nul THEN d ELSE Append(d, bytes[n])
  <2> DEFINE G == [n \in 1 .. Len(bytes) |->
                      [d \in Text |-> IF bytes[n] = nul THEN d ELSE Append(d, bytes[n])]]
  <2>1. /\ G \in [1 .. Len(bytes) -> [Text -> Text]]
        /\ \A n \in 1 .. Len(bytes), d \in Text :
              G[n][d] = IF bytes[n] = nul THEN d ELSE Append(d, bytes[n])
    BY <1>2
  <2> HIDE DEF G
  <2> QED
    BY <2>1
<1>4. PICK f : Rounds(f, Text, Len(bytes), <<>>, F)
  BY <1>1, <1>3, LoopExists
<1>5. f \in [0 .. Len(bytes) -> Text] /\ f[0] = <<>>
  BY <1>4 DEF Rounds
<1>6. ASSUME NEW n \in 1 .. Len(bytes)
      PROVE  f[n] = IF bytes[n] = nul THEN f[n - 1] ELSE Append(f[n - 1], bytes[n])
  <2>1. n - 1 \in 0 .. Len(bytes)
    BY <1>1
  <2>2. f[n] = F[n][f[n - 1]] /\ f[n - 1] \in Text
    BY <1>4, <1>5, <2>1 DEF Rounds
  <2> QED
    BY <1>3, <2>2
<1>7. f = [n \in 0 .. Len(bytes) |->
              IF n = 0 THEN <<>>
              ELSE IF bytes[n] = nul THEN f[n - 1] ELSE Append(f[n - 1], bytes[n])]
  <2>1. ASSUME NEW n \in 0 .. Len(bytes)
        PROVE  f[n] = IF n = 0 THEN <<>>
                      ELSE IF bytes[n] = nul THEN f[n - 1] ELSE Append(f[n - 1], bytes[n])
    <3>1. CASE n # 0
      <4>1. n \in 1 .. Len(bytes)
        BY <1>1, <3>1
      <4> QED
        BY <1>6, <3>1, <4>1
    <3> QED
      BY <1>5, <3>1
  <2>2. f = [n \in 0 .. Len(bytes) |-> f[n]]
    BY <1>5
  <2> QED
    BY <2>1, <2>2
<1> DEFINE W == CHOOSE w : w = [n \in 0 .. Len(bytes) |->
                       IF n = 0 THEN <<>>
                       ELSE IF bytes[n] = nul THEN w[n - 1] ELSE Append(w[n - 1], bytes[n])]
<1>8. W = [n \in 0 .. Len(bytes) |->
              IF n = 0 THEN <<>>
              ELSE IF bytes[n] = nul THEN W[n - 1] ELSE Append(W[n - 1], bytes[n])]
  BY <1>7
<1>9. Printed(bytes) = W[Len(bytes)]
  BY DEF Printed
<1> HIDE DEF W
<1>10. /\ W[0] = <<>>
       /\ \A n \in 1 .. Len(bytes) :
             W[n] = IF bytes[n] = nul THEN W[n - 1] ELSE Append(W[n - 1], bytes[n])
  <2>1. 0 \in 0 .. Len(bytes) /\ \A n \in 1 .. Len(bytes) : n \in 0 .. Len(bytes) /\ n # 0
    BY <1>1
  <2>2. W[0] = <<>>
    BY <1>8, <2>1
  <2>3. ASSUME NEW n \in 1 .. Len(bytes)
        PROVE  W[n] = IF bytes[n] = nul THEN W[n - 1] ELSE Append(W[n - 1], bytes[n])
    BY <1>8, <2>1
  <2> QED
    BY <2>2, <2>3
<1>11. \A n \in 0 .. Len(bytes) : W[n] \in Text
  <2>1. \A n \in 1 .. Len(bytes) : W[n - 1] \in Text => W[n] \in Text
    BY <1>2, <1>10
  <2> QED
    BY <1>1, <1>10, <2>1, LoopKeeps
<1>12. W \in [0 .. Len(bytes) -> Text]
  BY <1>8, <1>11
<1> QED
  BY <1>9, <1>10, <1>12

LEMMA PrintedNone == Printed(<<>>) = <<>>
<1>1. PICK s \in Text : s = <<>> /\ Len(s) = 0
  BY EmptySeq DEF Text
<1>2. Printed(s) = <<>>
  BY <1>1, PrintedRounds
<1> QED
  BY <1>1, <1>2

LEMMA PrintedAppend ==
    ASSUME NEW s \in Text, NEW c \in Characters
    PROVE  /\ Printed(s) \in Text
           /\ Printed(Append(s, c)) = IF c = nul THEN Printed(s) ELSE Append(Printed(s), c)
<1>1. PICK r \in Text, N \in Nat : /\ r = Append(s, c) /\ Len(s) = N /\ Len(r) = N + 1
                                   /\ r[N + 1] = c /\ \A n \in 1 .. N : r[n] = s[n]
  <2>1. Len(s) \in Nat /\ s \in Seq(Characters)
    BY LenProperties DEF Text
  <2>2. /\ Append(s, c) \in Seq(Characters) /\ Len(Append(s, c)) = Len(s) + 1
        /\ Append(s, c)[Len(s) + 1] = c
        /\ \A n \in 1 .. Len(s) : Append(s, c)[n] = s[n]
    BY <2>1, AppendProperties
  <2> QED
    BY <2>1, <2>2 DEF Text
<1>2. PICK f \in [0 .. N -> Text] :
          /\ f[0] = <<>>
          /\ \A n \in 1 .. N : f[n] = IF s[n] = nul THEN f[n - 1] ELSE Append(f[n - 1], s[n])
          /\ Printed(s) = f[N]
  <2>1. PICK f \in [0 .. Len(s) -> Text] :
            /\ f[0] = <<>>
            /\ \A n \in 1 .. Len(s) :
                  f[n] = IF s[n] = nul THEN f[n - 1] ELSE Append(f[n - 1], s[n])
            /\ Printed(s) = f[Len(s)]
    BY PrintedRounds
  <2> QED
    BY <1>1, <2>1
<1>3. PICK g \in [0 .. N + 1 -> Text] :
          /\ g[0] = <<>>
          /\ \A n \in 1 .. N + 1 :
                g[n] = IF r[n] = nul THEN g[n - 1] ELSE Append(g[n - 1], r[n])
          /\ Printed(r) = g[N + 1]
  <2>1. PICK g \in [0 .. Len(r) -> Text] :
            /\ g[0] = <<>>
            /\ \A n \in 1 .. Len(r) :
                  g[n] = IF r[n] = nul THEN g[n - 1] ELSE Append(g[n - 1], r[n])
            /\ Printed(r) = g[Len(r)]
    BY PrintedRounds
  <2> QED
    BY <1>1, <2>1
<1>4. PICK P : P = {n \in 0 .. N : f[n] = g[n]}
  OBVIOUS
<1>5. 0 \in P
  BY <1>2, <1>3, <1>4
<1>6. ASSUME NEW n \in 1 .. N, n - 1 \in P PROVE n \in P
  <2>1. f[n - 1] = g[n - 1] /\ n \in 1 .. N + 1 /\ n \in 0 .. N
    BY <1>4, <1>6
  <2>2. f[n] = g[n]
    BY <1>1, <1>2, <1>3, <2>1
  <2> QED
    BY <1>4, <2>1, <2>2
<1>7. N \in P
  <2>1. \A n \in 0 .. N : n \in P
    BY <1>5, <1>6, Induct
  <2> QED
    BY <2>1
<1>8. N + 1 \in 1 .. N + 1 /\ N + 1 - 1 = N
  OBVIOUS
<1>9. g[N + 1] = IF c = nul THEN g[N] ELSE Append(g[N], c)
  BY <1>1, <1>3, <1>8
<1> QED
  BY <1>1, <1>2, <1>3, <1>4, <1>7, <1>9

LEMMA PrintedConcat ==
    ASSUME NEW s \in Text, NEW t \in Text
    PROVE  /\ Printed(s) \in Text /\ s \o t \in Text
           /\ Printed(s \o t) = Printed(s) \o Printed(t)
<1>0. PICK N \in Nat : N = Len(t)
  BY LenProperties DEF Text
<1>1. \A u \in Text : Printed(u) \in Text
  <2>1. nul \in Characters
    BY DiskConstants
  <2> QED
    BY <2>1, PrintedAppend
<1>2. PICK P : P = {n \in 0 .. N : Printed(s \o SubSeq(t, 1, n))
                                   = Printed(s) \o Printed(SubSeq(t, 1, n))}
  OBVIOUS
<1>3. 0 \in P
  <2>1. SubSeq(t, 1, 0) = <<>>
    BY SubSeqEmpty
  <2>2. s \o <<>> = s /\ Printed(s) \o <<>> = Printed(s)
    BY <1>1, ConcatEmptySeq DEF Text
  <2>3. 0 \in 0 .. N
    OBVIOUS
  <2> QED
    BY <1>2, <2>1, <2>2, <2>3, PrintedNone
<1>4. ASSUME NEW n \in 1 .. N, n - 1 \in P PROVE n \in P
  <2>1. PICK u \in Text, c \in Characters :
            u = SubSeq(t, 1, n - 1) /\ SubSeq(t, 1, n) = Append(u, c)
    BY <1>0, UpTo
  <2>2. s \o u \in Text /\ s \o Append(u, c) = Append(s \o u, c)
    BY AppendLater, ConcatProperties DEF Text
  <2>3. Printed(s \o u) = Printed(s) \o Printed(u)
    BY <1>2, <1>4, <2>1
  <2>4. Printed(s \o Append(u, c)) = Printed(s) \o Printed(Append(u, c))
    <3>1. CASE c = nul
      BY <2>2, <2>3, <3>1, PrintedAppend
    <3>2. CASE c # nul
      <4>1. Printed(Append(s \o u, c)) = Append(Printed(s) \o Printed(u), c)
        BY <2>2, <2>3, <3>2, PrintedAppend
      <4>2. Printed(Append(u, c)) = Append(Printed(u), c)
        BY <3>2, PrintedAppend
      <4>3. Printed(s) \o Append(Printed(u), c) = Append(Printed(s) \o Printed(u), c)
        BY <1>1, AppendLater
      <4> QED
        BY <2>2, <4>1, <4>2, <4>3
    <3> QED
      BY <3>1, <3>2
  <2>5. n \in 0 .. N
    OBVIOUS
  <2> QED
    BY <1>2, <2>1, <2>4, <2>5
<1>5. N \in P
  <2>1. \A n \in 0 .. N : n \in P
    BY <1>3, <1>4, Induct
  <2> QED
    BY <2>1
<1>6. SubSeq(t, 1, N) = t
  BY <1>0, SubSeqFull DEF Text
<1>7. s \o t \in Text
  BY ConcatProperties DEF Text
<1> QED
  BY <1>1, <1>2, <1>5, <1>6, <1>7

\* Names are printed as they are, and what fills a buffer up is not.
LEMMA PrintedWhole ==
    ASSUME NEW s \in Text, \A i \in 1 .. Len(s) : s[i] # nul
    PROVE  Printed(s) = s
<1>0. PICK N \in Nat : N = Len(s)
  BY LenProperties DEF Text
<1>1. PICK P : P = {n \in 0 .. N : Printed(SubSeq(s, 1, n)) = SubSeq(s, 1, n)}
  OBVIOUS
<1>2. 0 \in P
  <2>1. SubSeq(s, 1, 0) = <<>> /\ 0 \in 0 .. N
    BY SubSeqEmpty
  <2> QED
    BY <1>1, <2>1, PrintedNone
<1>3. ASSUME NEW n \in 1 .. N, n - 1 \in P PROVE n \in P
  <2>1. PICK u \in Text, c \in Characters :
            u = SubSeq(s, 1, n - 1) /\ c = s[n] /\ SubSeq(s, 1, n) = Append(u, c)
    BY <1>0, UpTo
  <2>2. Printed(u) = u /\ c # nul /\ n \in 0 .. N
    BY <1>0, <1>1, <1>3, <2>1
  <2>3. Printed(Append(u, c)) = Append(u, c)
    BY <2>2, PrintedAppend
  <2> QED
    BY <1>1, <2>1, <2>2, <2>3
<1>4. N \in P
  <2>1. \A n \in 0 .. N : n \in P
    BY <1>2, <1>3, Induct
  <2> QED
    BY <2>1
<1>5. SubSeq(s, 1, N) = s
  BY <1>0, SubSeqFull DEF Text
<1> QED
  BY <1>1, <1>4, <1>5

LEMMA PrintedNuls ==
    ASSUME NEW n \in Nat
    PROVE  Nuls(n) \in Text /\ Printed(Nuls(n)) = <<>>
<1>1. ASSUME NEW m \in Nat PROVE Nuls(m) \in Seq(Characters) /\ Len(Nuls(m)) = m
  <2>1. Nuls(m) \in [1 .. m -> Characters]
    BY DiskConstants DEF Nuls
  <2> QED
    BY <2>1, SeqDef, LenProperties
<1>2. PICK P : P = {m \in 0 .. n : Printed(Nuls(m)) = <<>>}
  OBVIOUS
<1>3. 0 \in P
  <2>1. Nuls(0) = <<>> /\ 0 \in 0 .. n
    BY <1>1, EmptySeq
  <2> QED
    BY <1>2, <2>1, PrintedNone
<1>4. ASSUME NEW m \in 1 .. n, m - 1 \in P PROVE m \in P
  <2>1. PICK s \in Text, r \in Text : /\ s = Nuls(m - 1) /\ r = Nuls(m) /\ Len(s) = m - 1
                                      /\ Len(r) = m /\ nul \in Characters
    <3>1. m \in Nat /\ m - 1 \in Nat
      OBVIOUS
    <3>2. /\ Nuls(m) \in Seq(Characters) /\ Len(Nuls(m)) = m
          /\ Nuls(m - 1) \in Seq(Characters) /\ Len(Nuls(m - 1)) = m - 1
      BY <1>1, <3>1
    <3> QED
      BY <3>2, DiskConstants DEF Text
  <2>2. \A i \in 1 .. m : r[i] = nul
    BY <2>1 DEF Nuls
  <2>3. \A i \in 1 .. m - 1 : s[i] = nul
    BY <2>1 DEF Nuls
  <2>4. /\ Append(s, nul) \in Seq(Characters) /\ Len(Append(s, nul)) = m
        /\ \A i \in 1 .. m : Append(s, nul)[i] = r[i]
    <3>1. /\ Append(s, nul) \in Seq(Characters) /\ Len(Append(s, nul)) = Len(s) + 1
          /\ \A i \in 1 .. Len(s) : Append(s, nul)[i] = s[i]
          /\ Append(s, nul)[Len(s) + 1] = nul
      BY <2>1, AppendProperties DEF Text
    <3> QED
      BY <2>1, <2>2, <2>3, <3>1
  <2>5. r = Append(s, nul)
    BY <2>1, <2>4, SeqEqual DEF Text
  <2>6. Printed(r) = <<>>
    BY <1>2, <1>4, <2>1, <2>5, PrintedAppend
  <2> QED
    BY <1>2, <2>1, <2>6
<1>5. n \in P
  <2>1. \A m \in 0 .. n : m \in P
    BY <1>3, <1>4, Induct
  <2> QED
    BY <2>1
<1> QED
  BY <1>1, <1>2, <1>5 DEF Text

LEMMA PrintedFilled ==
    ASSUME NEW bytes \in Text, NEW n \in Nat, Len(bytes) <= n
    PROVE  Printed(Filled(bytes, n)) = Printed(bytes)
<1>1. n - Len(bytes) \in Nat
  BY LenProperties DEF Text
<1>2. PICK nuls \in Text : nuls = Nuls(n - Len(bytes)) /\ Printed(nuls) = <<>>
  BY <1>1, PrintedNuls
<1>3. Printed(bytes) \in Text /\ Printed(bytes \o nuls) = Printed(bytes) \o Printed(nuls)
  BY <1>2, PrintedConcat
<1>4. Printed(bytes) \o <<>> = Printed(bytes)
  BY <1>3, ConcatEmptySeq DEF Text
<1> QED
  BY <1>2, <1>3, <1>4 DEF Filled

-----------------------------------------------------------------------------
(* What the directory lists *)

LEMMA NamesRounds ==
    ASSUME NEW separator \in Text, NEW n \in 0 .. Len(direntries)
    PROVE  \E f \in [0 .. n -> Text] :
              /\ f[0] = <<>>
              /\ \A k \in 1 .. n : f[k] = f[k - 1] \o direntries[k].filename \o separator
              /\ FirstNames(separator, n) = f[n]
<1>1. n \in Nat /\ Len(direntries) \in Nat /\ <<>> \in Text
  BY DiskConstants, LenProperties DEF Text
<1>2. \A k \in 1 .. n : direntries[k].filename \in Text
  <2>1. \A k \in 1 .. n : k \in DOMAIN direntries
    BY <1>1, DiskConstants, LenProperties
  <2> QED
    BY <2>1, EntryIs
<1>3. \A k \in 1 .. n, d \in Text : d \o direntries[k].filename \o separator \in Text
  BY <1>2, ConcatProperties DEF Text
<1>4. PICK F \in [1 .. n -> [Text -> Text]] :
          \A k \in 1 .. n, d \in Text : F[k][d] = d \o direntries[k].filename \o separator
  <2> DEFINE G == [k \in 1 .. n |-> [d \in Text |-> d \o direntries[k].filename \o separator]]
  <2>1. /\ G \in [1 .. n -> [Text -> Text]]
        /\ \A k \in 1 .. n, d \in Text : G[k][d] = d \o direntries[k].filename \o separator
    BY <1>3
  <2> HIDE DEF G
  <2> QED
    BY <2>1
<1>5. PICK f : Rounds(f, Text, n, <<>>, F)
  BY <1>1, <1>4, LoopExists
<1>6. f \in [0 .. n -> Text] /\ f[0] = <<>>
  BY <1>5 DEF Rounds
<1>7. ASSUME NEW k \in 1 .. n PROVE f[k] = f[k - 1] \o direntries[k].filename \o separator
  <2>1. k - 1 \in 0 .. n
    BY <1>1
  <2>2. f[k] = F[k][f[k - 1]] /\ f[k - 1] \in Text
    BY <1>5, <1>6, <2>1 DEF Rounds
  <2> QED
    BY <1>4, <2>2
<1>8. f = [k \in 0 .. n |-> IF k = 0 THEN <<>>
                            ELSE f[k - 1] \o direntries[k].filename \o separator]
  <2>1. ASSUME NEW k \in 0 .. n
        PROVE  f[k] = IF k = 0 THEN <<>> ELSE f[k - 1] \o direntries[k].filename \o separator
    <3>1. CASE k # 0
      <4>1. k \in 1 .. n
        BY <1>1, <3>1
      <4> QED
        BY <1>7, <3>1, <4>1
    <3> QED
      BY <1>6, <3>1
  <2>2. f = [k \in 0 .. n |-> f[k]]
    BY <1>6
  <2> QED
    BY <2>1, <2>2
<1> DEFINE W == CHOOSE w : w = [k \in 0 .. n |->
                IF k = 0 THEN <<>> ELSE w[k - 1] \o direntries[k].filename \o separator]
<1>9. W = [k \in 0 .. n |-> IF k = 0 THEN <<>>
                            ELSE W[k - 1] \o direntries[k].filename \o separator]
  BY <1>8
<1>10. FirstNames(separator, n) = W[n]
  BY DEF FirstNames
<1> HIDE DEF W
<1>11. /\ W[0] = <<>>
       /\ \A k \in 1 .. n : W[k] = W[k - 1] \o direntries[k].filename \o separator
  <2>1. 0 \in 0 .. n /\ \A k \in 1 .. n : k \in 0 .. n /\ k # 0
    BY <1>1
  <2>2. W[0] = <<>>
    BY <1>9, <2>1
  <2>3. ASSUME NEW k \in 1 .. n
        PROVE  W[k] = W[k - 1] \o direntries[k].filename \o separator
    BY <1>9, <2>1
  <2> QED
    BY <2>2, <2>3
<1>12. \A k \in 0 .. n : W[k] \in Text
  <2>1. \A k \in 1 .. n : W[k - 1] \in Text => W[k] \in Text
    BY <1>3, <1>11
  <2> QED
    BY <1>1, <1>11, <2>1, LoopKeeps
<1>13. W \in [0 .. n -> Text]
  BY <1>9, <1>12
<1> QED
  BY <1>10, <1>11, <1>13

LEMMA NamesNone == ASSUME NEW separator \in Text PROVE FirstNames(separator, 0) = <<>>
<1>1. 0 \in 0 .. Len(direntries)
  BY DiskConstants, LenProperties
<1> QED
  BY <1>1, NamesRounds

LEMMA NamesNext ==
    ASSUME NEW separator \in Text, NEW n \in 1 .. Len(direntries)
    PROVE  /\ FirstNames(separator, n - 1) \in Text /\ FirstNames(separator, n) \in Text
           /\ FirstNames(separator, n) =
                FirstNames(separator, n - 1) \o direntries[n].filename \o separator
<1>1. n \in Nat /\ n - 1 \in Nat /\ n - 1 \in 0 .. Len(direntries) /\ n \in 0 .. Len(direntries)
  BY DiskConstants, LenProperties
<1>2. PICK N \in Nat : N = n - 1
  BY <1>1
<1>3. PICK f \in [0 .. n -> Text] :
          /\ f[0] = <<>>
          /\ \A k \in 1 .. n : f[k] = f[k - 1] \o direntries[k].filename \o separator
          /\ FirstNames(separator, n) = f[n]
  BY <1>1, NamesRounds
<1>4. PICK g \in [0 .. N -> Text] :
          /\ g[0] = <<>>
          /\ \A k \in 1 .. N : g[k] = g[k - 1] \o direntries[k].filename \o separator
          /\ FirstNames(separator, N) = g[N]
  BY <1>1, <1>2, NamesRounds
<1>5. PICK P : P = {k \in 0 .. N : f[k] = g[k]}
  OBVIOUS
<1>6. 0 \in P
  BY <1>3, <1>4, <1>5
<1>7. ASSUME NEW k \in 1 .. N, k - 1 \in P PROVE k \in P
  <2>1. f[k - 1] = g[k - 1] /\ k \in 1 .. n /\ k \in 0 .. N
    BY <1>1, <1>2, <1>5, <1>7
  <2>2. f[k] = g[k]
    BY <1>3, <1>4, <2>1
  <2> QED
    BY <1>5, <2>1, <2>2
<1>8. N \in P
  <2>1. \A k \in 0 .. N : k \in P
    BY <1>6, <1>7, Induct
  <2> QED
    BY <2>1
<1>9. f[n - 1] = g[N] /\ g[N] \in Text /\ f[n] \in Text /\ n \in 1 .. n
  BY <1>1, <1>2, <1>3, <1>4, <1>5, <1>8
<1> QED
  BY <1>2, <1>3, <1>4, <1>9

Begins(s, t) == \E x \in Text : t = s \o x

LEMMA Associates ==
    ASSUME NEW s \in Text, NEW t \in Text, NEW u \in Text
    PROVE  (s \o t) \o u = s \o (t \o u)
<1>1. s \in Seq(Characters) /\ t \in Seq(Characters) /\ u \in Seq(Characters)
  BY DEF Text
<1> QED
  BY <1>1, ConcatAssociative

LEMMA TwoTexts == ASSUME NEW s \in Text, NEW t \in Text PROVE s \o t \in Text
<1>1. s \in Seq(Characters) /\ t \in Seq(Characters)
  BY DEF Text
<1>2. s \o t \in Seq(Characters)
  BY <1>1, ConcatProperties
<1> QED
  BY <1>2 DEF Text

LEMMA BeginsThree ==
    ASSUME NEW s \in Text, NEW x \in Text, NEW t \in Text
    PROVE  Begins(s, (s \o x) \o t)
<1>1. (s \o x) \o t = s \o (x \o t)
  BY Associates
<1>2. x \o t \in Text
  BY TwoTexts
<1> QED
  BY <1>1, <1>2 DEF Begins

LEMMA BeginsLater ==
    ASSUME NEW s \in Text, NEW r, Begins(s, r), NEW t \in Text
    PROVE  Begins(s, r \o t)
<1>1. PICK x \in Text : r = s \o x
  BY DEF Begins
<1>2. Begins(s, (s \o x) \o t)
  BY <1>1, BeginsThree
<1> QED
  BY <1>1, <1>2

LEMMA NamesBegin ==
    ASSUME NEW separator \in Text, NEW n \in 0 .. Len(direntries)
    PROVE  /\ FirstNames(separator, n) \in Text /\ AllNames(separator) \in Text
           /\ IsPrefix(FirstNames(separator, n), AllNames(separator))
<1>1. PICK L \in Nat : L = Len(direntries)
  BY DiskConstants, LenProperties
<1>2. n \in Nat /\ n \in 0 .. L
  BY <1>1
<1>3. PICK begin \in Text : begin = FirstNames(separator, n)
  <2>1. PICK f \in [0 .. n -> Text] : FirstNames(separator, n) = f[n]
    BY NamesRounds
  <2>2. f[n] \in Text
    BY <1>2, <2>1
  <2> QED
    BY <2>1, <2>2
<1>4. PICK P : P = {k \in 0 .. L : k >= n => Begins(begin, FirstNames(separator, k))}
  OBVIOUS
<1>5. Begins(begin, FirstNames(separator, n))
  <2>1. begin \o <<>> = begin /\ <<>> \in Text
    BY ConcatEmptySeq DEF Text
  <2> QED
    BY <1>3, <2>1 DEF Begins
<1>6. 0 \in P
  BY <1>2, <1>4, <1>5
<1>7. ASSUME NEW k \in 1 .. L, k - 1 \in P PROVE k \in P
  <2>1. CASE k < n
    BY <1>2, <1>4, <2>1
  <2>2. CASE k = n
    BY <1>2, <1>4, <1>5, <2>2
  <2>3. CASE k > n
    <3>1. PICK r : r = FirstNames(separator, k - 1) /\ Begins(begin, r)
      BY <1>2, <1>4, <1>7, <2>3
    <3>2. PICK fname \in Text : fname = direntries[k].filename
      <4>1. k \in DOMAIN direntries
        BY <1>1, DiskConstants, LenProperties
      <4> QED
        BY <4>1, EntryIs
    <3>3. FirstNames(separator, k) = (r \o fname) \o separator
      BY <1>1, <3>1, <3>2, NamesNext
    <3>4. PICK rr : rr = r \o fname /\ Begins(begin, rr)
      BY <1>3, <3>1, <3>2, BeginsLater
    <3>5. Begins(begin, rr \o separator)
      BY <1>3, <3>4, BeginsLater
    <3>7. Begins(begin, FirstNames(separator, k)) /\ k \in 0 .. L
      BY <3>3, <3>4, <3>5
    <3> QED
      BY <1>4, <3>7
  <2> QED
    BY <1>2, <2>1, <2>2, <2>3
<1>8. L \in P
  <2>1. \A k \in 0 .. L : k \in P
    BY <1>6, <1>7, Induct
  <2> QED
    BY <2>1
<1>9. PICK x \in Text : FirstNames(separator, L) = begin \o x
  <2>1. Begins(begin, FirstNames(separator, L))
    BY <1>2, <1>4, <1>8
  <2> QED
    BY <2>1 DEF Begins
<1>10. AllNames(separator) = begin \o x
  BY <1>1, <1>9 DEF AllNames
<1>11. begin \o x \in Text
  BY ConcatProperties DEF Text
<1> QED
  BY <1>3, <1>10, <1>11, PrefixOf

-----------------------------------------------------------------------------
(* What a read adds to what is shown *)

\* What cat has shown of entry k after the first n bytes, or names.
CatUpTo(k, n) ==
    LET d == direntries[k]
    IN  CASE d.file_type = REGULAR_FILE_TYPE -> Printed(SubSeq(Contents(d.inode_num), 1, n))
          [] d.file_type = DIRECTORY_FILE_TYPE -> FirstNames(<<>>, n)
          [] OTHER -> <<>>
OpensEntry(fd, k) ==
    /\ fd.file_type = direntries[k].file_type
    /\ fd.file_type = REGULAR_FILE_TYPE => fd.inode = direntries[k].inode_num

\* Which program makes which call.
Calling(where, program, arguments, text) ==
    /\ where \in {"open", "copy"} => program = <<"cat">>
    /\ where = "list" => program = <<"ls">>
    /\ where \in {"next", "search"} => program = <<"grep">>
    /\ where = "opendir" => program \in {<<"ls">>, <<"grep">>}
    /\ where \in {"getargs", "stale"} => arguments = NoArguments
    /\ where = "getargs" => text = <<>>

CatTells(where, arguments, fd, text) ==
    /\ where \in {"open", "copy", "shell"}
    /\ where = "open" => text = <<>>
    /\ where = "copy" =>
          \E k \in DOMAIN direntries :
              Names(k, arguments) /\ OpensEntry(fd, k) /\ text = CatUpTo(k, fd.file_position)
    /\ where = "shell" => text = CatText(arguments)

LsTells(where, fd, text) ==
    /\ where \in {"opendir", "list", "shell"}
    /\ where = "opendir" => text = <<>>
    /\ where = "list" => text = FirstNames(<<newline>>, fd.file_position)
    /\ where = "shell" => text = AllNames(<<newline>>)

Told(where, program, arguments, fd, directory, text) ==
    /\ Calling(where, program, arguments, text)
    /\ program = <<"cat">> /\ arguments # NoArguments => CatTells(where, arguments, fd, text)
    /\ Installed(<<"ls">>) /\ program = <<"ls">> => LsTells(where, directory, text)

ToldInv ==
    /\ DOMAIN shown = Terminals
    /\ \A t \in Terminals : Told(at[t], Program(t), args[t], file[t], dir[t], shown[t])

LEMMA ContentsIs ==
    ASSUME NEW n \in DOMAIN inodes
    PROVE  /\ Contents(n) \in Text /\ Len(Contents(n)) = inodes[n].length
           /\ inodes[n].length \in Nat
<1>1. inodes[n].length \in Nat
  BY DiskConstants
<1>2. \A k \in 1 .. inodes[n].length : ByteOf(inodes[n], 0, k - 1) \in Characters
  <2> SUFFICES ASSUME NEW k \in 1 .. inodes[n].length
               PROVE  ByteOf(inodes[n], 0, k - 1) \in Characters
    OBVIOUS
  <2>1. k - 1 \in 0 .. inodes[n].length - 1
    BY <1>1
  <2> QED
    BY <2>1, BytesAreThere
<1>3. Contents(n) \in [1 .. inodes[n].length -> Characters]
  BY <1>2 DEF Contents
<1> QED
  BY <1>1, <1>3, SeqDef, LenProperties DEF Text

\* Parts of a text.
LEMMA PartIs ==
    ASSUME NEW s \in Text, NEW a \in Nat, NEW b \in Nat, a + b <= Len(s)
    PROVE  /\ SubSeq(s, a + 1, a + b) \in Text /\ Len(SubSeq(s, a + 1, a + b)) = b
           /\ \A k \in 1 .. b : SubSeq(s, a + 1, a + b)[k] = s[a + k]
<1>1. PICK n \in Nat : n = Len(s)
  BY LenProperties DEF Text
<1>2. PICK from \in Int, to \in Int : from = a + 1 /\ to = a + b
  OBVIOUS
<1>3. \A j \in from .. to : s[j] \in Characters
  <2>1. \A j \in from .. to : j \in 1 .. n
    BY <1>1, <1>2
  <2> QED
    BY <1>1, <2>1, ElementOfSeq DEF Text
<1>4. /\ SubSeq(s, from, to) \in Seq(Characters)
      /\ Len(SubSeq(s, from, to)) = IF from <= to THEN to - from + 1 ELSE 0
      /\ \A k \in 1 .. to - from + 1 : SubSeq(s, from, to)[k] = s[from + k - 1]
  BY <1>3, SubSeqProperties
<1>5. /\ to - from + 1 = b /\ (from <= to <=> b # 0)
      /\ \A k \in 1 .. b : from + k - 1 = a + k
  BY <1>2
<1>6. Len(SubSeq(s, from, to)) = b
  BY <1>4, <1>5
<1>7. ASSUME NEW k \in 1 .. b PROVE SubSeq(s, from, to)[k] = s[a + k]
  <2>1. SubSeq(s, from, to)[k] = s[from + k - 1] /\ from + k - 1 = a + k
    BY <1>4, <1>5
  <2> QED
    BY <2>1
<1> QED
  BY <1>2, <1>4, <1>6, <1>7 DEF Text

LEMMA BeginIs ==
    ASSUME NEW s \in Text, NEW n \in Nat, n <= Len(s)
    PROVE  SubSeq(s, 1, n) \in Text
<1>1. PICK zero \in Nat : zero = 0
  OBVIOUS
<1>2. zero + n <= Len(s) /\ zero + 1 = 1 /\ zero + n = n
  BY <1>1
<1>3. SubSeq(s, zero + 1, zero + n) \in Text
  BY <1>2, PartIs
<1> QED
  BY <1>2, <1>3

\* A read of a file, of a directory and of the RTC, when there is nothing more
\* and when there is.
LEMMA FileAdds ==
    ASSUME NEW fd \in Fds, Stands(fd), fd.file_type = REGULAR_FILE_TYPE, NEW n \in Nat \ {0}
    PROVE  LET r == read(fd, n)
               text(p) == Printed(SubSeq(Contents(fd.inode), 1, p))
           IN  /\ r.fd.file_type = fd.file_type /\ r.fd.inode = fd.inode
               /\ r.returned = 0 => fd.file_position = inodes[fd.inode].length
               /\ r.returned # 0 => text(r.fd.file_position) = text(fd.file_position) \o Printed(r.buf)
<1>1. PICK i \in DOMAIN inodes, p \in Nat, L \in Nat :
        i = fd.inode /\ p = fd.file_position /\ L = inodes[i].length /\ p <= L
  <2>1. fd.inode \in DOMAIN inodes /\ fd.file_position \in 0 .. inodes[fd.inode].length
    BY DEF Stands, Size, REGULAR_FILE_TYPE, DIRECTORY_FILE_TYPE
  <2> QED
    BY <2>1, DiskConstants
<1>2. PICK bytes \in Text, m \in Nat :
        /\ bytes = read_data(i, p, n) /\ bytes = Slice(i, p, n) /\ Len(bytes) = m
        /\ m = Left(i, p, n) /\ m <= n /\ p + m <= L
  <2>1. n \in Nat
    OBVIOUS
  <2>2. /\ read_data(i, p, n) \in Text /\ Len(read_data(i, p, n)) = Left(i, p, n)
        /\ Left(i, p, n) \in 0 .. n /\ p + Left(i, p, n) <= inodes[i].length
    <3>1. i \in DOMAIN inodes /\ p \in Nat /\ n \in Nat /\ p <= inodes[i].length
      BY <1>1, <2>1
    <3>2. /\ read_data(i, p, n) \in Text /\ Len(read_data(i, p, n)) = Left(i, p, n)
          /\ Left(i, p, n) \in 0 .. n
      BY <3>1, ReadFacts
    <3>3. p + Left(i, p, n) <= inodes[i].length
      BY <3>1, ReadFacts
    <3> QED
      BY <3>2, <3>3
  <2>3. read_data(i, p, n) = Slice(i, p, n)
    BY <1>1, ReadIsSlice
  <2>4. PICK m \in Nat : m = Left(i, p, n) /\ m <= n
    BY <2>2
  <2> QED
    BY <1>1, <2>2, <2>3, <2>4
<1>3. /\ read(fd, n).buf = Filled(bytes, n)
      /\ read(fd, n).fd = [fd EXCEPT !.file_position = @ + m]
      /\ read(fd, n).returned = IF bytes = <<>> THEN 0 ELSE n
  BY <1>1, <1>2
  DEF read, file_read, Advanced, Returned, REGULAR_FILE_TYPE, DIRECTORY_FILE_TYPE, RTC_FILE_TYPE
<1>4. PICK after \in Fds : /\ after = [fd EXCEPT !.file_position = @ + m]
                           /\ after.file_type = fd.file_type /\ after.inode = fd.inode
                           /\ after.file_position = fd.file_position + m
  BY MovedOn
<1>5. CASE bytes = <<>>
  <2>1. m = 0
    BY <1>2, <1>5
  <2>2. p = L
    BY <1>1, <1>2, <2>1 DEF Left, Least
  <2> QED
    BY <1>1, <1>3, <1>4, <1>5, <2>2
<1>6. CASE bytes # <<>>
  <2>1. PICK C \in Text : C = Contents(i) /\ Len(C) = L
    BY <1>1, ContentsIs
  <2>2. SubSeq(C, p + 1, p + m) = bytes
    <3>1. PICK part \in Text : /\ part = SubSeq(C, p + 1, p + m) /\ Len(part) = m
                               /\ \A k \in 1 .. m : part[k] = C[p + k]
      <4>1. p + m <= Len(C)
        BY <1>2, <2>1
      <4>2. C \in Text /\ p \in Nat /\ m \in Nat
        BY <1>1, <1>2, <2>1
      <4>3. /\ SubSeq(C, p + 1, p + m) \in Text /\ Len(SubSeq(C, p + 1, p + m)) = m
            /\ \A k \in 1 .. m : SubSeq(C, p + 1, p + m)[k] = C[p + k]
        BY <4>1, <4>2, PartIs
      <4> QED
        BY <4>3
    <3>2. \A k \in 1 .. m : bytes[k] = C[p + k]
      BY <1>2, <2>1 DEF Slice
    <3>3. part = bytes
      <4>1. part \in Seq(Characters) /\ bytes \in Seq(Characters) /\ Len(part) = Len(bytes)
        BY <1>2, <3>1 DEF Text
      <4>2. \A k \in 1 .. Len(part) : part[k] = bytes[k]
        BY <3>1, <3>2
      <4> QED
        BY <4>1, <4>2, SeqEqual
    <3> QED
      BY <3>1, <3>3
  <2>3. SubSeq(C, 1, p) \o bytes = SubSeq(C, 1, p + m)
    <3>1. /\ 1 \in 1 .. Len(C) + 1 /\ p \in 1 - 1 .. Len(C) /\ p + m \in p .. Len(C)
      BY <1>1, <1>2, <2>1
    <3>2. C \in Seq(Characters)
      BY <2>1 DEF Text
    <3>3. SubSeq(C, 1, p) \o SubSeq(C, p + 1, p + m) = SubSeq(C, 1, p + m)
      BY <3>1, <3>2, ConcatAdjacentSubSeq
    <3> QED
      BY <2>2, <3>3
  <2>4. PICK begin \in Text : begin = SubSeq(C, 1, p)
    <3>1. p <= Len(C)
      BY <1>1, <2>1
    <3> QED
      BY <1>1, <2>1, <3>1, BeginIs
  <2>5. Printed(begin \o bytes) = Printed(begin) \o Printed(bytes)
    BY <1>2, <2>4, PrintedConcat
  <2>6. Printed(Filled(bytes, n)) = Printed(bytes)
    BY <1>2, PrintedFilled
  <2>7. Printed(SubSeq(C, 1, p + m)) = Printed(SubSeq(C, 1, p)) \o Printed(read(fd, n).buf)
    BY <1>3, <2>3, <2>4, <2>5, <2>6
  <2>8. read(fd, n).returned # 0
    BY <1>3, <1>6
  <2> QED
    BY <1>1, <1>3, <1>4, <2>1, <2>7, <2>8
<1> QED
  BY <1>5, <1>6

LEMMA NewlineIs == <<newline>> \in Text
<1>1. newline \in Characters
  BY DiskConstants
<1> QED
  BY <1>1 DEF Text

LEMMA Nothing == <<>> \in Text
BY EmptySeq DEF Text

LEMMA DirectoryAdds ==
    ASSUME NEW fd \in Fds, Stands(fd), fd.file_type = DIRECTORY_FILE_TYPE, NEW n \in Nat \ {0}
    PROVE  LET r == read(fd, n)
               p == fd.file_position
           IN  /\ r.fd.file_type = fd.file_type
               /\ r.returned = 0 => p = Len(direntries)
               /\ r.returned # 0 =>
                    /\ p + 1 \in 1 .. Len(direntries) /\ r.fd.file_position = p + 1
                    /\ Printed(r.buf) = direntries[p + 1].filename
<1>1. PICK p \in Nat, L \in Nat : p = fd.file_position /\ L = Len(direntries) /\ p <= L
  <2>1. fd.file_position \in 0 .. Len(direntries) /\ Len(direntries) \in Nat
    BY DiskConstants, LenProperties DEF Stands, Size, REGULAR_FILE_TYPE, DIRECTORY_FILE_TYPE
  <2> QED
    BY <2>1
<1>2. read(fd, n) = directory_read(fd, n)
  BY DEF read, REGULAR_FILE_TYPE, DIRECTORY_FILE_TYPE, RTC_FILE_TYPE
<1>3. CASE p = L
  <2>1. read(fd, n).fd = fd /\ read(fd, n).returned = 0
    BY <1>1, <1>2, <1>3 DEF directory_read
  <2> QED
    BY <1>1, <1>3, <2>1
<1>4. CASE p < L
  <2>1. PICK m \in Nat : /\ m = IF n < DENTRY_FILE_NAME_LEN THEN DENTRY_FILE_NAME_LEN ELSE n
                         /\ DENTRY_FILE_NAME_LEN <= m
    BY DiskConstants
  <2>2. /\ read(fd, n).buf = Filled(direntries[p + 1].filename, m)
        /\ read(fd, n).fd = [fd EXCEPT !.file_position = @ + 1]
        /\ read(fd, n).returned = n
    BY <1>1, <1>2, <1>4, <2>1 DEF directory_read, NextEntry
  <2>3. PICK after \in Fds : /\ after = [fd EXCEPT !.file_position = @ + 1]
                             /\ after.file_type = fd.file_type
                             /\ after.file_position = fd.file_position + 1
    <3>1. fd \in Fds /\ 1 \in Nat
      OBVIOUS
    <3> QED
      BY <3>1, MovedOn
  <2>4. p + 1 \in 1 .. L /\ p + 1 \in DOMAIN direntries
    BY <1>1, <1>4, DiskConstants, LenProperties
  <2>5. PICK fname \in Text : /\ fname = direntries[p + 1].filename
                              /\ Len(fname) \in 1 .. DENTRY_FILE_NAME_LEN
                              /\ \A i \in 1 .. Len(fname) : fname[i] # nul
    BY <2>4, EntryIs
  <2>6. Len(fname) <= m
    BY <2>1, <2>5, DiskConstants
  <2>7. Printed(Filled(fname, m)) = fname
    BY <2>1, <2>5, <2>6, PrintedFilled, PrintedWhole
  <2> QED
    BY <1>1, <2>2, <2>3, <2>4, <2>5, <2>7
<1> QED
  BY <1>1, <1>3, <1>4

LEMMA RtcAdds ==
    ASSUME NEW fd \in Fds, fd.file_type = RTC_FILE_TYPE, NEW n \in Nat
    PROVE  read(fd, n).returned = 0
BY DEF read, rtc_read, REGULAR_FILE_TYPE, DIRECTORY_FILE_TYPE, RTC_FILE_TYPE

LEMMA CatBegins == ASSUME NEW k \in DOMAIN direntries PROVE CatUpTo(k, 0) = <<>>
<1>1. CASE direntries[k].file_type = REGULAR_FILE_TYPE
  <2>1. PICK C : C = Contents(direntries[k].inode_num)
    OBVIOUS
  <2>2. CatUpTo(k, 0) = Printed(SubSeq(C, 1, 0))
    BY <1>1, <2>1 DEF CatUpTo, REGULAR_FILE_TYPE, DIRECTORY_FILE_TYPE
  <2>3. SubSeq(C, 1, 0) = <<>>
    BY SubSeqEmpty
  <2> QED
    BY <2>2, <2>3, PrintedNone
<1>2. CASE direntries[k].file_type = DIRECTORY_FILE_TYPE
  <2>1. FirstNames(<<>>, 0) = <<>>
    BY NamesNone, Nothing
  <2> QED
    BY <1>2, <2>1 DEF CatUpTo, REGULAR_FILE_TYPE, DIRECTORY_FILE_TYPE
<1>3. CASE direntries[k].file_type \notin {REGULAR_FILE_TYPE, DIRECTORY_FILE_TYPE}
  BY <1>3 DEF CatUpTo
<1> QED
  BY <1>1, <1>2, <1>3

\* The whole of entry k, as cat shows it.
CatWhole(k) ==
    LET d == direntries[k]
    IN  CASE d.file_type = REGULAR_FILE_TYPE -> Printed(Contents(d.inode_num))
          [] d.file_type = DIRECTORY_FILE_TYPE -> AllNames(<<>>)
          [] OTHER -> <<>>

LEMMA CatTextIs ==
    ASSUME NEW fname
    PROVE  /\ \A k \in DOMAIN direntries : Names(k, fname) => CatText(fname) = CatWhole(k)
           /\ (~ \E k \in DOMAIN direntries : Names(k, fname)) =>
                 CatText(fname) = <<"file not found">> \o Says(2)
<1>1. ASSUME NEW k \in DOMAIN direntries, Names(k, fname)
      PROVE  CatText(fname) = CatWhole(k)
  <2>1. PICK m \in DOMAIN direntries :
          /\ Names(m, fname) /\ m = CHOOSE j \in DOMAIN direntries : Names(j, fname)
    BY <1>1
  <2>2. m = k
    <3>1. k \in Nat /\ m \in Nat /\ k \in 1 .. Len(direntries) /\ m \in 1 .. Len(direntries)
      BY DiskConstants, LenProperties
    <3>2. direntries[k].filename = fname /\ direntries[m].filename = fname
      BY <1>1, <2>1 DEF Names
    <3>3. ~(m \in 1 .. k - 1) /\ ~(k \in 1 .. m - 1)
      BY <1>1, <2>1, <3>2 DEF Names
    <3> QED
      BY <3>1, <3>3
  <2> QED
    BY <1>1, <2>1, <2>2 DEF CatText, CatWhole
<1>2. ASSUME ~ \E k \in DOMAIN direntries : Names(k, fname)
      PROVE  CatText(fname) = <<"file not found">> \o Says(2)
  BY <1>2 DEF CatText
<1> QED
  BY <1>1, <1>2

LEMMA CatIsText == ASSUME NEW k \in DOMAIN direntries PROVE CatWhole(k) \in Text
<1>1. CASE direntries[k].file_type = REGULAR_FILE_TYPE
  <2>1. PICK C \in Text : C = Contents(direntries[k].inode_num)
    BY EntryIs, ContentsIs
  <2>2. Printed(C) \in Text
    BY <2>1, PrintedConcat
  <2> QED
    BY <1>1, <2>1, <2>2 DEF CatWhole, REGULAR_FILE_TYPE, DIRECTORY_FILE_TYPE
<1>2. CASE direntries[k].file_type = DIRECTORY_FILE_TYPE
  <2>1. PICK separator \in Text : separator = <<>>
    BY Nothing
  <2>2. 0 \in 0 .. Len(direntries)
    BY DiskConstants, LenProperties
  <2>3. AllNames(separator) \in Text
    BY <2>2, NamesBegin
  <2> QED
    BY <1>2, <2>1, <2>3 DEF CatWhole, REGULAR_FILE_TYPE, DIRECTORY_FILE_TYPE
<1>3. CASE direntries[k].file_type \notin {REGULAR_FILE_TYPE, DIRECTORY_FILE_TYPE}
  BY <1>3, Nothing DEF CatWhole
<1> QED
  BY <1>1, <1>2, <1>3

\* A read by cat: at the end everything has been shown, before that more is.
LEMMA CatAdds ==
    ASSUME NEW fd \in Fds, Stands(fd), fd.file_type # Failed, NEW k \in DOMAIN direntries,
           OpensEntry(fd, k), NEW n \in Nat \ {0}
    PROVE  LET r == read(fd, n)
           IN  /\ r.returned = 0 => CatUpTo(k, fd.file_position) = CatWhole(k)
               /\ r.returned # 0 =>
                    /\ OpensEntry(r.fd, k)
                    /\ CatUpTo(k, r.fd.file_position) =
                          CatUpTo(k, fd.file_position) \o Printed(r.buf)
<1>1. direntries[k].file_type = fd.file_type /\ fd.file_type \in {0, 1, 2}
  BY DEF OpensEntry, Fds, Failed
<1>2. CASE fd.file_type = REGULAR_FILE_TYPE
  <2>1. PICK i : i = fd.inode /\ i = direntries[k].inode_num /\ i \in DOMAIN inodes
    BY <1>2, EntryIs DEF OpensEntry
  <2>2. \A q : CatUpTo(k, q) = Printed(SubSeq(Contents(i), 1, q))
    BY <1>1, <1>2, <2>1 DEF CatUpTo, REGULAR_FILE_TYPE, DIRECTORY_FILE_TYPE
  <2>3. CatWhole(k) = Printed(Contents(i))
    BY <1>1, <1>2, <2>1 DEF CatWhole, REGULAR_FILE_TYPE, DIRECTORY_FILE_TYPE
  <2>4. Contents(i) \in Seq(Characters) /\ Len(Contents(i)) = inodes[i].length
    BY <2>1, ContentsIs DEF Text
  <2>5. SubSeq(Contents(i), 1, inodes[i].length) = Contents(i)
    BY <2>4, SubSeqFull
  <2>6. /\ read(fd, n).fd.file_type = fd.file_type /\ read(fd, n).fd.inode = i
        /\ read(fd, n).returned = 0 => fd.file_position = inodes[i].length
        /\ read(fd, n).returned # 0 =>
              Printed(SubSeq(Contents(i), 1, read(fd, n).fd.file_position)) =
                  Printed(SubSeq(Contents(i), 1, fd.file_position)) \o Printed(read(fd, n).buf)
    BY <1>2, <2>1, FileAdds
  <2>7. OpensEntry(read(fd, n).fd, k)
    BY <1>1, <2>1, <2>6 DEF OpensEntry
  <2> QED
    BY <2>2, <2>3, <2>5, <2>6, <2>7
<1>3. CASE fd.file_type = DIRECTORY_FILE_TYPE
  <2>1. \A q : CatUpTo(k, q) = FirstNames(<<>>, q)
    BY <1>1, <1>3 DEF CatUpTo, REGULAR_FILE_TYPE, DIRECTORY_FILE_TYPE
  <2>2. CatWhole(k) = FirstNames(<<>>, Len(direntries))
    BY <1>1, <1>3 DEF CatWhole, AllNames, REGULAR_FILE_TYPE, DIRECTORY_FILE_TYPE
  <2>3. PICK r : r = read(fd, n)
    OBVIOUS
  <2>4. PICK p \in Nat : p = fd.file_position
    BY DEF Fds
  <2>5. /\ r.fd.file_type = fd.file_type
        /\ r.returned = 0 => p = Len(direntries)
        /\ r.returned # 0 =>
              /\ p + 1 \in 1 .. Len(direntries) /\ r.fd.file_position = p + 1
              /\ Printed(r.buf) = direntries[p + 1].filename
    BY <1>3, <2>3, <2>4, DirectoryAdds
  <2>6. OpensEntry(r.fd, k)
    BY <1>1, <1>3, <2>5 DEF OpensEntry, REGULAR_FILE_TYPE, DIRECTORY_FILE_TYPE
  <2>7. ASSUME r.returned # 0
        PROVE  FirstNames(<<>>, p + 1) = FirstNames(<<>>, p) \o Printed(r.buf)
    <3>1. PICK q \in 1 .. Len(direntries) : q = p + 1 /\ q - 1 = p
      BY <2>4, <2>5, <2>7
    <3>2. PICK fname \in Text : fname = direntries[q].filename
      <4>1. q \in DOMAIN direntries
        BY <3>1, DiskConstants, LenProperties
      <4> QED
        BY <4>1, EntryIs
    <3>3. PICK separator \in Text : separator = <<>>
      BY Nothing
    <3>4. /\ FirstNames(separator, q - 1) \in Text
          /\ FirstNames(separator, q) = FirstNames(separator, q - 1) \o fname \o separator
      BY <3>1, <3>2, <3>3, NamesNext
    <3>5. PICK begin \in Text : begin = FirstNames(separator, q - 1)
      BY <3>4
    <3>6. begin \o fname \in Seq(Characters)
      BY <3>2, <3>5, TwoTexts DEF Text
    <3>7. (begin \o fname) \o <<>> = begin \o fname
      BY <3>6, ConcatEmptySeq
    <3> QED
      BY <2>5, <2>7, <3>1, <3>2, <3>3, <3>4, <3>5, <3>7
  <2> QED
    BY <2>1, <2>2, <2>3, <2>4, <2>5, <2>6, <2>7
<1>4. CASE fd.file_type = RTC_FILE_TYPE
  <2>1. read(fd, n).returned = 0
    BY <1>4, RtcAdds
  <2>2. CatUpTo(k, fd.file_position) = <<>> /\ CatWhole(k) = <<>>
    BY <1>1, <1>4 DEF CatUpTo, CatWhole, REGULAR_FILE_TYPE, DIRECTORY_FILE_TYPE, RTC_FILE_TYPE
  <2> QED
    BY <2>1, <2>2
<1> QED
  BY <1>1, <1>2, <1>3, <1>4 DEF REGULAR_FILE_TYPE, DIRECTORY_FILE_TYPE, RTC_FILE_TYPE

\* What cat has shown on the way is a beginning of it.
LEMMA CatPrefix ==
    ASSUME NEW fd \in Fds, Stands(fd), NEW k \in DOMAIN direntries, OpensEntry(fd, k)
    PROVE  IsPrefix(CatUpTo(k, fd.file_position), CatWhole(k))
<1>1. direntries[k].file_type = fd.file_type
  BY DEF OpensEntry
<1>2. CASE fd.file_type = REGULAR_FILE_TYPE
  <2>1. PICK i \in DOMAIN inodes : i = fd.inode /\ i = direntries[k].inode_num
    BY <1>2, EntryIs DEF OpensEntry
  <2>2. PICK C \in Text, p \in Nat, L \in Nat :
          C = Contents(i) /\ Len(C) = L /\ p = fd.file_position /\ p <= L
    <3>1. fd.file_position \in 0 .. inodes[i].length
      BY <1>2, <2>1 DEF Stands, Size, REGULAR_FILE_TYPE, DIRECTORY_FILE_TYPE
    <3>2. Contents(i) \in Text /\ Len(Contents(i)) = inodes[i].length /\ inodes[i].length \in Nat
      BY ContentsIs
    <3> QED
      BY <3>1, <3>2
  <2>3. CatUpTo(k, p) = Printed(SubSeq(C, 1, p)) /\ CatWhole(k) = Printed(C)
    BY <1>1, <1>2, <2>1, <2>2 DEF CatUpTo, CatWhole, REGULAR_FILE_TYPE, DIRECTORY_FILE_TYPE
  <2>4. PICK begin \in Text : begin = SubSeq(C, 1, p)
    BY <2>2, BeginIs
  <2>5. PICK rest \in Text : rest = SubSeq(C, p + 1, L)
    <3>1. PICK m \in Nat : p + m = L
      <4>1. L - p \in Nat /\ p + (L - p) = L
        BY <2>2
      <4> QED
        BY <4>1
    <3>2. C \in Text /\ p \in Nat /\ m \in Nat /\ p + m <= Len(C)
      BY <2>2, <3>1
    <3>3. SubSeq(C, p + 1, p + m) \in Text
      BY <3>2, PartIs
    <3> QED
      BY <3>1, <3>3
  <2>6. begin \o rest = C
    <3>1. 1 \in 1 .. Len(C) + 1 /\ p \in 1 - 1 .. Len(C) /\ L \in p .. Len(C) /\ L = Len(C)
      BY <2>2
    <3>2. C \in Seq(Characters)
      BY <2>2 DEF Text
    <3>3. SubSeq(C, 1, p) \o SubSeq(C, p + 1, L) = SubSeq(C, 1, L)
      BY <3>1, <3>2, ConcatAdjacentSubSeq
    <3>4. SubSeq(C, 1, L) = C
      BY <3>1, <3>2, SubSeqFull
    <3> QED
      BY <2>4, <2>5, <3>3, <3>4
  <2>7. /\ Printed(begin) \in Text /\ Printed(rest) \in Text
        /\ Printed(begin \o rest) = Printed(begin) \o Printed(rest)
    BY <2>4, <2>5, PrintedConcat
  <2>8. IsPrefix(Printed(begin), Printed(begin) \o Printed(rest))
    BY <2>7, PrefixOf
  <2> QED
    BY <2>2, <2>3, <2>4, <2>6, <2>7, <2>8
<1>3. CASE fd.file_type = DIRECTORY_FILE_TYPE
  <2>1. /\ CatUpTo(k, fd.file_position) = FirstNames(<<>>, fd.file_position)
        /\ CatWhole(k) = AllNames(<<>>)
    BY <1>1, <1>3 DEF CatUpTo, CatWhole, REGULAR_FILE_TYPE, DIRECTORY_FILE_TYPE
  <2>2. fd.file_position \in 0 .. Len(direntries)
    BY <1>3 DEF Stands, Size, REGULAR_FILE_TYPE, DIRECTORY_FILE_TYPE
  <2>3. PICK separator \in Text : separator = <<>>
    BY Nothing
  <2>4. IsPrefix(FirstNames(separator, fd.file_position), AllNames(separator))
    BY <2>2, NamesBegin
  <2> QED
    BY <2>1, <2>3, <2>4
<1>4. CASE fd.file_type \notin {REGULAR_FILE_TYPE, DIRECTORY_FILE_TYPE}
  <2>1. CatUpTo(k, fd.file_position) = <<>> /\ CatWhole(k) = <<>>
    BY <1>1, <1>4 DEF CatUpTo, CatWhole
  <2>2. IsPrefix(<<>>, <<>>)
    BY DEF IsPrefix
  <2> QED
    BY <2>1, <2>2
<1> QED
  BY <1>2, <1>3, <1>4

-----------------------------------------------------------------------------
(* The steps.  One program moves on; what the others tell is as it was. *)

LEMMA OthersTell ==
    ASSUME PInv, ToldInv, NEW t \in Terminals, DOMAIN shown' = Terminals,
           \A u \in Terminals : u # t =>
               /\ at'[u] = at[u] /\ command'[u] = command[u] /\ args'[u] = args[u]
               /\ file'[u] = file[u] /\ dir'[u] = dir[u] /\ shown'[u] = shown[u],
           Told(at'[t], Program(t)', args'[t], file'[t], dir'[t], shown'[t])
    PROVE  ToldInv'
<1> SUFFICES ASSUME NEW u \in Terminals
             PROVE  Told(at'[u], Program(u)', args'[u], file'[u], dir'[u], shown'[u])
  BY DEF ToldInv, Told, Calling, CatTells, LsTells, CatUpTo, CatText, OpensEntry, Names,
         FirstNames, AllNames, Installed, ByteOf, Printed, Contents, Says
<1>1. CASE u = t
  BY <1>1
<1>2. CASE u # t
  <2>1. Program(u)' = Program(u)
    BY <1>2 DEF Program
  <2>2. Told(at[u], Program(u), args[u], file[u], dir[u], shown[u])
    BY DEF ToldInv
  <2> QED
    BY <1>2, <2>1, <2>2
<1> QED
  BY <1>1, <1>2

LEMMA TwoMessages ==
    ASSUME NEW S, NEW x \in S, NEW y \in S
    PROVE  <<x>> \o <<y>> \in Seq(S)
<1>1. <<x>> \in Seq(S) /\ <<y>> \in Seq(S)
  OBVIOUS
<1> QED
  BY <1>1, ConcatProperties

LEMMA NothingBefore ==
    ASSUME NEW S, NEW x \in S, NEW y \in S
    PROVE  <<>> \o (<<x>> \o <<y>>) = <<x>> \o <<y>>
<1>1. <<x>> \o <<y>> \in Seq(S)
  BY TwoMessages
<1> QED
  BY <1>1, ConcatEmptySeq

LEMMA EmptyBegins == ASSUME NEW S, NEW s \in Seq(S) PROVE IsPrefix(<<>>, s)
<1>1. Len(s) \in Nat /\ Len(<<>>) = 0 /\ SubSeq(<<>>, 1, 0) = <<>> /\ SubSeq(s, 1, 0) = <<>>
  BY LenProperties, SubSeqEmpty
<1> QED
  BY <1>1 DEF IsPrefix

LEMMA CatTextLong == ASSUME NEW fname PROVE IsPrefix(<<>>, CatText(fname))
<1>1. CASE \E k \in DOMAIN direntries : Names(k, fname)
  <2>1. PICK k \in DOMAIN direntries : Names(k, fname)
    BY <1>1
  <2>2. CatText(fname) \in Seq(Characters)
    BY <2>1, CatTextIs, CatIsText DEF Text
  <2> QED
    BY <2>2, EmptyBegins
<1>2. CASE ~ \E k \in DOMAIN direntries : Names(k, fname)
  <2>0. PICK Messages : Messages = {"file not found", "program terminated abnormally"}
    OBVIOUS
  <2>1. PICK missing \in Messages, ended \in Messages :
          missing = "file not found" /\ ended = "program terminated abnormally"
    BY <2>0
  <2>2. 2 # 0 /\ 2 # 256
    OBVIOUS
  <2>3. Says(2) = <<ended>>
    BY <2>1, <2>2, Zenon DEF Says
  <2>4. CatText(fname) = <<missing>> \o <<ended>>
    BY <1>2, <2>1, <2>3, CatTextIs
  <2>5. <<missing>> \o <<ended>> \in Seq(Messages)
    BY <2>1, TwoMessages
  <2> QED
    BY <2>4, <2>5, EmptyBegins
<1> QED
  BY <1>1, <1>2

LEMMA SayNothing == Says(0) = <<>>
BY DEF Says

\* No command is the empty name, and the first command is.
LEMMA FirstName == get_file_name(<<eol>>) \notin {<<"cat">>, <<"ls">>}
<1>1. PICK line : line = <<eol>>
  OBVIOUS
<1>2. IsLine(line) /\ Len(line) = 1
  <2>1. eol \in Characters
    BY DiskConstants DEF eol, newline
  <2>2. line \in Seq(Characters) /\ line # <<>> /\ DOMAIN line = {1} /\ Len(line) = 1 /\ line[1] = eol
    BY <1>1, <2>1
  <2> QED
    BY <2>2 DEF IsLine, Text
<1>3. PICK end \in 1 .. Len(line) : get_file_name(line) = SubSeq(line, 1, end - 1)
  BY <1>2, NameIs
<1>4. get_file_name(line) = <<>>
  <2>1. end = 1
    BY <1>2, <1>3
  <2> QED
    BY <1>3, <2>1, SubSeqEmpty
<1> QED
  BY <1>1, <1>4

LEMMA ToldStart == Init => ToldInv
<1> SUFFICES ASSUME Init, NEW t \in Terminals
             PROVE  Told(at[t], Program(t), args[t], file[t], dir[t], shown[t])
  BY DEF Init, ToldInv
<1>1. at[t] = "shell" /\ command[t] = <<eol>> /\ args[t] = NoArguments
  BY DEF Init
<1>2. Program(t) \notin {<<"cat">>, <<"ls">>}
  BY <1>1, FirstName DEF Program
<1> QED
  BY <1>1, <1>2 DEF Told, Calling

LEMMA StaleEndsTells == ASSUME PInv, ToldInv, NEW t \in Terminals, StaleEnds(t) PROVE ToldInv'
<1>1. /\ at[t] = "stale" /\ at' = [at EXCEPT ![t] = "shell"]
      /\ shown' = [shown EXCEPT ![t] = @ \o (<<>> \o Says(256))]
      /\ UNCHANGED <<command, args, file, dir>>
  BY DEF StaleEnds, Ends, Goes, Shows, process
<1>2. Told(at[t], Program(t), args[t], file[t], dir[t], shown[t])
  BY DEF ToldInv
<1>3. args[t] = NoArguments /\ ~(Installed(<<"ls">>) /\ Program(t) = <<"ls">>)
  BY <1>1, <1>2 DEF Told, Calling, LsTells
<1>4. at'[t] = "shell" /\ Program(t)' = Program(t) /\ args'[t] = args[t]
  BY <1>1 DEF PInv, Typed, Program
<1>5. Told(at'[t], Program(t)', args'[t], file'[t], dir'[t], shown'[t])
  BY <1>3, <1>4 DEF Told, Calling
<1> QED
  BY <1>1, <1>5, OthersTell DEF ToldInv, PInv, Typed

LEMMA getargsTells == ASSUME PInv, ToldInv, NEW t \in Terminals, getargs(t) PROVE ToldInv'
<1>1. at[t] = "getargs" /\ UNCHANGED <<command, file, dir>> /\ Program(t)' = Program(t)
  BY DEF getargs, Program
<1>2. Told(at[t], Program(t), args[t], file[t], dir[t], shown[t])
  BY DEF ToldInv
<1>3. args[t] = NoArguments /\ shown[t] = <<>> /\ Program(t) \in {<<"cat">>, <<"grep">>}
  BY <1>1, <1>2 DEF Told, Calling, PInv, Entered
<1>4. PICK ended : ended = Ended(stored_buf, BUFSIZE)
  OBVIOUS
<1>5. CASE ArgumentsFit(ended, BUFSIZE)
  <2>1. /\ args' = [args EXCEPT ![t] = ended]
        /\ at' = [at EXCEPT ![t] = IF Program(t) = <<"cat">> THEN "open" ELSE "opendir"]
        /\ UNCHANGED shown
    BY <1>4, <1>5 DEF getargs, Goes
  <2>2. at'[t] = IF Program(t) = <<"cat">> THEN "open" ELSE "opendir"
    BY <2>1 DEF PInv, Typed
  <2>3. Told(at'[t], Program(t)', args'[t], file'[t], dir'[t], shown'[t])
    BY <1>1, <1>3, <2>1, <2>2 DEF Told, Calling, CatTells
  <2> QED
    BY <1>1, <2>1, <2>3, OthersTell DEF ToldInv, PInv, Typed
<1>6. CASE ~ArgumentsFit(ended, BUFSIZE)
  <2>1. /\ at' = [at EXCEPT ![t] = "shell"] /\ UNCHANGED args
        /\ shown' = [shown EXCEPT ![t] = @ \o (<<"could not read arguments">> \o Says(3))]
    BY <1>4, <1>6 DEF getargs, Ends, Goes, Shows
  <2>2. at'[t] = "shell"
    BY <2>1 DEF PInv, Typed
  <2>3. Told(at'[t], Program(t)', args'[t], file'[t], dir'[t], shown'[t])
    <3>1. Program(t)' # <<"cat">> \/ args'[t] = NoArguments
      BY <1>3, <2>1
    <3>2. Program(t)' # <<"ls">>
      BY <1>1, <1>3
    <3> QED
      BY <2>2, <3>1, <3>2 DEF Told, Calling
  <2> QED
    BY <1>1, <2>1, <2>3, OthersTell DEF ToldInv, PInv, Typed
<1> QED
  BY <1>5, <1>6

LEMMA CatOpenTells == ASSUME PInv, ToldInv, NEW t \in Terminals, CatOpen(t) PROVE ToldInv'
<1>1. PICK fd : fd = open(args[t])
  OBVIOUS
<1>2. /\ at[t] = "open" /\ file' = [file EXCEPT ![t] = fd] /\ file'[t] = fd
      /\ UNCHANGED <<command, args, dir>> /\ Program(t)' = Program(t)
  BY <1>1 DEF CatOpen, PInv, Typed, Program
<1>3. Told(at[t], Program(t), args[t], file[t], dir[t], shown[t])
  BY DEF ToldInv
<1>4. Program(t) = <<"cat">> /\ (args[t] # NoArguments => shown[t] = <<>>)
  BY <1>2, <1>3 DEF Told, Calling, CatTells
<1>5. PICK f \in Text : f = args[t]
  BY DEF PInv, Typed
<1>6. CASE read_dentry_by_name(f) = 0
  <2>1. fd = Closed
    BY <1>1, <1>5, <1>6 DEF open
  <2>2. ~ \E k \in DOMAIN direntries : Names(k, f)
    BY <1>6, FoundByName DEF Names
  <2>3. CatText(f) = <<"file not found">> \o Says(2)
    BY <2>2, CatTextIs
  <2>4. /\ at' = [at EXCEPT ![t] = "shell"]
        /\ shown' = [shown EXCEPT ![t] = @ \o (<<"file not found">> \o Says(2))]
    BY <1>2, <2>1 DEF CatOpen, Ends, Goes, Shows
  <2>5. at'[t] = "shell" /\ shown'[t] = shown[t] \o CatText(f)
    BY <2>3, <2>4 DEF PInv, Typed, ToldInv
  <2>6. args[t] # NoArguments => shown'[t] = CatText(f)
    <3>0. PICK Messages : Messages = {"file not found", "program terminated abnormally"}
      OBVIOUS
    <3>1. PICK missing \in Messages, ended \in Messages :
            missing = "file not found" /\ ended = "program terminated abnormally"
      BY <3>0
    <3>2. CatText(f) = <<missing>> \o <<ended>>
      <4>1. 2 # 0 /\ 2 # 256
        OBVIOUS
      <4>2. Says(2) = <<ended>>
        BY <3>1, <4>1, Zenon DEF Says
      <4> QED
        BY <2>3, <3>1, <4>2
    <3>3. <<>> \o CatText(f) = CatText(f)
      BY <3>1, <3>2, NothingBefore
    <3> QED
      BY <1>4, <2>5, <3>3
  <2>7. Told(at'[t], Program(t)', args'[t], file'[t], dir'[t], shown'[t])
    <3>1. Program(t)' = <<"cat">> /\ args'[t] = args[t] /\ args[t] = f
      BY <1>2, <1>4, <1>5
    <3>2. args[t] # NoArguments => CatTells(at'[t], args'[t], file'[t], shown'[t])
      BY <2>5, <2>6, <3>1 DEF CatTells
    <3> QED
      BY <2>5, <3>1, <3>2 DEF Told, Calling
  <2> QED
    BY <1>2, <2>4, <2>7, OthersTell DEF ToldInv, PInv, Typed
<1>7. CASE read_dentry_by_name(f) # 0
  <2>1. PICK k \in DOMAIN direntries : k = read_dentry_by_name(f) /\ Names(k, f)
    BY <1>7, FoundByName
  <2>2. fd = [file_type |-> direntries[k].file_type,
              inode |-> IF direntries[k].file_type = REGULAR_FILE_TYPE
                        THEN direntries[k].inode_num ELSE 0,
              file_position |-> 0]
    BY <1>1, <1>5, <1>7, <2>1 DEF open
  <2>3. OpensEntry(fd, k) /\ fd.file_position = 0
    BY <2>2 DEF OpensEntry
  <2>4. fd # Closed
    <3>1. fd.file_type \in 0 .. 2
      BY <2>2, EntryIs
    <3> QED
      BY <3>1 DEF Closed, Failed
  <2>5. at' = [at EXCEPT ![t] = "copy"] /\ UNCHANGED shown
    BY <1>2, <2>4 DEF CatOpen, Goes
  <2>6. at'[t] = "copy"
    BY <2>5 DEF PInv, Typed
  <2>7. args[t] # NoArguments => shown'[t] = CatUpTo(k, file'[t].file_position)
    BY <1>2, <1>4, <2>3, <2>5, CatBegins
  <2>8. Told(at'[t], Program(t)', args'[t], file'[t], dir'[t], shown'[t])
    <3>1. args'[t] = f /\ file'[t] = fd
      BY <1>2, <1>5
    <3>2. args[t] # NoArguments => CatTells(at'[t], args'[t], file'[t], shown'[t])
      BY <2>1, <2>3, <2>6, <2>7, <3>1 DEF CatTells
    <3> QED
      BY <1>2, <1>4, <2>6, <3>2 DEF Told, Calling
  <2> QED
    BY <1>2, <2>5, <2>8, OthersTell DEF ToldInv, PInv, Typed
<1> QED
  BY <1>6, <1>7

LEMMA CatCopyTells == ASSUME PInv, ToldInv, NEW t \in Terminals, CatCopy(t) PROVE ToldInv'
<1>1. PICK fd \in Fds : fd = file[t] /\ Stands(fd) /\ fd.file_type # Failed
  BY DEF PInv, Typed, Opened, CatCopy
<1>2. PICK r : r = read(fd, BUFSIZE)
  OBVIOUS
<1>3. /\ at[t] = "copy" /\ file' = [file EXCEPT ![t] = r.fd] /\ file'[t] = r.fd
      /\ UNCHANGED <<command, args, dir>> /\ Program(t)' = Program(t)
  BY <1>1, <1>2 DEF CatCopy, PInv, Typed, Program
<1>4. Told(at[t], Program(t), args[t], file[t], dir[t], shown[t])
  BY DEF ToldInv
<1>5. Program(t) = <<"cat">>
  BY <1>3, <1>4 DEF Told, Calling
<1>6. BUFSIZE \in Nat \ {0}
  BY ProgramConstants, DiskConstants
<1>7. ASSUME NEW k \in DOMAIN direntries, OpensEntry(fd, k)
      PROVE  /\ r.returned = 0 => CatUpTo(k, fd.file_position) = CatWhole(k)
             /\ r.returned # 0 =>
                  /\ OpensEntry(r.fd, k)
                  /\ CatUpTo(k, r.fd.file_position) =
                        CatUpTo(k, fd.file_position) \o Printed(r.buf)
  BY <1>1, <1>2, <1>6, <1>7, CatAdds
<1>8. args[t] # NoArguments =>
        \E k \in DOMAIN direntries :
            Names(k, args[t]) /\ OpensEntry(fd, k) /\ shown[t] = CatUpTo(k, fd.file_position)
  BY <1>1, <1>3, <1>4, <1>5 DEF Told, CatTells
<1>9. CASE r.returned = 0
  <2>1. at' = [at EXCEPT ![t] = "shell"] /\ shown' = [shown EXCEPT ![t] = @ \o (<<>> \o <<>>)]
    BY <1>1, <1>2, <1>9, SayNothing DEF CatCopy, Ends, Goes, Shows
  <2>2. at'[t] = "shell" /\ shown'[t] = shown[t] \o (<<>> \o <<>>)
    BY <2>1 DEF PInv, Typed, ToldInv
  <2>3. ASSUME args[t] # NoArguments PROVE shown'[t] = CatText(args[t])
    <3>1. PICK k \in DOMAIN direntries :
            Names(k, args[t]) /\ OpensEntry(fd, k) /\ shown[t] = CatUpTo(k, fd.file_position)
      BY <1>8, <2>3
    <3>2. shown[t] = CatWhole(k)
      BY <1>7, <1>9, <3>1
    <3>3. CatText(args[t]) = CatWhole(k)
      BY <3>1, CatTextIs
    <3>4. CatWhole(k) \in Text
      BY CatIsText
    <3>5. <<>> \o <<>> = <<>> /\ CatWhole(k) \o <<>> = CatWhole(k)
      BY <3>4, ConcatEmptySeq DEF Text
    <3> QED
      BY <2>2, <3>2, <3>3, <3>5
  <2>4. Told(at'[t], Program(t)', args'[t], file'[t], dir'[t], shown'[t])
    BY <1>3, <1>5, <2>2, <2>3 DEF Told, Calling, CatTells
  <2> QED
    BY <1>3, <2>1, <2>4, OthersTell DEF ToldInv, PInv, Typed
<1>10. CASE r.returned # 0
  <2>1. UNCHANGED at /\ shown' = [shown EXCEPT ![t] = @ \o Printed(r.buf)]
    BY <1>1, <1>2, <1>10 DEF CatCopy, Shows
  <2>2. at'[t] = "copy" /\ shown'[t] = shown[t] \o Printed(r.buf)
    BY <1>3, <2>1 DEF PInv, Typed, ToldInv
  <2>3. ASSUME args[t] # NoArguments
        PROVE  \E k \in DOMAIN direntries :
                  /\ Names(k, args[t]) /\ OpensEntry(r.fd, k)
                  /\ shown'[t] = CatUpTo(k, r.fd.file_position)
    <3>1. PICK k \in DOMAIN direntries :
            Names(k, args[t]) /\ OpensEntry(fd, k) /\ shown[t] = CatUpTo(k, fd.file_position)
      BY <1>8, <2>3
    <3>2. OpensEntry(r.fd, k) /\ shown'[t] = CatUpTo(k, r.fd.file_position)
      BY <1>7, <1>10, <2>2, <3>1
    <3> QED
      BY <3>1, <3>2
  <2>4. Told(at'[t], Program(t)', args'[t], file'[t], dir'[t], shown'[t])
    <3>1. args[t] # NoArguments => CatTells(at'[t], args'[t], file'[t], shown'[t])
      BY <1>3, <2>2, <2>3 DEF CatTells
    <3> QED
      BY <1>3, <1>5, <2>2, <3>1 DEF Told, Calling
  <2> QED
    BY <1>3, <2>1, <2>4, OthersTell DEF ToldInv, PInv, Typed
<1> QED
  BY <1>9, <1>10

LEMMA OpenDirTells ==
    ASSUME PInv, ToldInv, NEW t \in Terminals, NEW junk \in {nul, newline}, OpenDir(t, junk)
    PROVE  ToldInv'
<1>1. /\ at[t] = "opendir" /\ UNCHANGED <<command, args, file, shown>>
      /\ dir' = [dir EXCEPT ![t] = open(dot)] /\ Program(t)' = Program(t)
      /\ at' = [at EXCEPT ![t] = IF Program(t) = <<"ls">> THEN "list" ELSE "next"]
  BY DEF OpenDir, Goes, Program
<1>2. /\ dir'[t] = open(dot)
      /\ at'[t] = IF Program(t) = <<"ls">> THEN "list" ELSE "next"
  BY <1>1 DEF PInv, Typed
<1>3. Told(at[t], Program(t), args[t], file[t], dir[t], shown[t])
  BY DEF ToldInv
<1>4. Program(t) \in {<<"ls">>, <<"grep">>}
  BY <1>1, <1>3 DEF Told, Calling
<1>5. open(dot).file_position = 0
  BY DEF open, Closed
<1>6. FirstNames(<<newline>>, 0) = <<>>
  BY NewlineIs, NamesNone
<1>7. Calling(at'[t], Program(t)', args'[t], shown'[t])
  BY <1>1, <1>2, <1>4 DEF Calling
<1>8. Program(t)' # <<"cat">>
  BY <1>1, <1>4
<1>9. Installed(<<"ls">>) /\ Program(t)' = <<"ls">> => LsTells(at'[t], dir'[t], shown'[t])
  BY <1>1, <1>2, <1>3, <1>5, <1>6 DEF Told, LsTells
<1>10. Told(at'[t], Program(t)', args'[t], file'[t], dir'[t], shown'[t])
  BY <1>7, <1>8, <1>9 DEF Told
<1> QED
  BY <1>1, <1>10, OthersTell DEF ToldInv, PInv, Typed

LEMMA LsListTells == ASSUME PInv, ToldInv, NEW t \in Terminals, LsList(t) PROVE ToldInv'
<1>1. PICK fd \in Fds : fd = dir[t] /\ Stands(fd) /\ fd.file_type = DIRECTORY_FILE_TYPE
  BY DEF PInv, Typed, Opened, LsList
<1>2. PICK r : r = read(fd, DENTRY_FILE_NAME_LEN)
  OBVIOUS
<1>3. /\ at[t] = "list" /\ dir' = [dir EXCEPT ![t] = r.fd] /\ dir'[t] = r.fd
      /\ UNCHANGED <<command, args, file>> /\ Program(t)' = Program(t)
  BY <1>1, <1>2 DEF LsList, PInv, Typed, Program
<1>4. Told(at[t], Program(t), args[t], file[t], dir[t], shown[t])
  BY DEF ToldInv
<1>5. Program(t) = <<"ls">> /\ Program(t)' # <<"cat">>
  BY <1>3, <1>4 DEF Told, Calling
<1>6. PICK separator \in Text : separator = <<newline>>
  BY NewlineIs
<1>7. PICK p \in Nat : p = fd.file_position
  BY DEF Fds
<1>8. /\ r.returned = 0 => p = Len(direntries)
      /\ r.returned # 0 =>
            /\ p + 1 \in 1 .. Len(direntries) /\ r.fd.file_position = p + 1
            /\ Printed(r.buf) = direntries[p + 1].filename
  <2>1. DENTRY_FILE_NAME_LEN \in Nat \ {0}
    BY DiskConstants
  <2> QED
    BY <1>1, <1>2, <1>7, <2>1, DirectoryAdds
<1>9. Installed(<<"ls">>) => shown[t] = FirstNames(separator, p)
  BY <1>1, <1>3, <1>4, <1>5, <1>6, <1>7 DEF Told, LsTells
<1>10. CASE r.returned = 0
  <2>1. at' = [at EXCEPT ![t] = "shell"] /\ shown' = [shown EXCEPT ![t] = @ \o (<<>> \o <<>>)]
    BY <1>1, <1>2, <1>10, SayNothing DEF LsList, Ends, Goes, Shows
  <2>2. at'[t] = "shell" /\ shown'[t] = shown[t] \o (<<>> \o <<>>)
    BY <2>1 DEF PInv, Typed, ToldInv
  <2>3. Installed(<<"ls">>) => shown'[t] = AllNames(<<newline>>)
    <3>1. FirstNames(separator, p) = AllNames(separator)
      BY <1>8, <1>10 DEF AllNames
    <3>2. 0 \in 0 .. Len(direntries)
      BY DiskConstants, LenProperties
    <3>3. AllNames(separator) \in Text
      BY <3>2, NamesBegin
    <3>4. <<>> \o <<>> = <<>> /\ AllNames(separator) \o <<>> = AllNames(separator)
      BY <3>3, ConcatEmptySeq DEF Text
    <3> QED
      BY <1>6, <1>9, <2>2, <3>1, <3>4
  <2>4. Told(at'[t], Program(t)', args'[t], file'[t], dir'[t], shown'[t])
    BY <1>3, <1>5, <2>2, <2>3 DEF Told, Calling, LsTells
  <2> QED
    BY <1>3, <2>1, <2>4, OthersTell DEF ToldInv, PInv, Typed
<1>11. CASE r.returned # 0
  <2>1. UNCHANGED at /\ shown' = [shown EXCEPT ![t] = @ \o (Printed(r.buf) \o separator)]
    BY <1>1, <1>2, <1>6, <1>11 DEF LsList, Shows
  <2>2. at'[t] = "list" /\ shown'[t] = shown[t] \o (Printed(r.buf) \o separator)
    BY <1>3, <2>1 DEF PInv, Typed, ToldInv
  <2>3. Installed(<<"ls">>) => shown'[t] = FirstNames(separator, r.fd.file_position)
    <3>1. PICK q \in 1 .. Len(direntries) : q = p + 1 /\ q - 1 = p /\ q = r.fd.file_position
      BY <1>7, <1>8, <1>11
    <3>2. PICK fname \in Text : fname = direntries[q].filename /\ fname = Printed(r.buf)
      <4>1. q \in DOMAIN direntries
        BY <3>1, DiskConstants, LenProperties
      <4> QED
        BY <1>8, <1>11, <3>1, <4>1, EntryIs
    <3>3. PICK begin \in Text : /\ begin = FirstNames(separator, p)
                                /\ FirstNames(separator, q) = (begin \o fname) \o separator
      BY <1>6, <3>1, <3>2, NamesNext
    <3>4. (begin \o fname) \o separator = begin \o (fname \o separator)
      BY <1>6, <3>2, <3>3, Associates
    <3> QED
      BY <1>9, <2>2, <3>1, <3>2, <3>3, <3>4
  <2>4. Told(at'[t], Program(t)', args'[t], file'[t], dir'[t], shown'[t])
    <3>1. Installed(<<"ls">>) => LsTells(at'[t], dir'[t], shown'[t])
      BY <1>3, <1>6, <2>2, <2>3 DEF LsTells
    <3> QED
      BY <1>3, <1>5, <2>2, <3>1 DEF Told, Calling
  <2> QED
    BY <1>3, <2>1, <2>4, OthersTell DEF ToldInv, PInv, Typed
<1> QED
  BY <1>10, <1>11

\* grep tells nothing here: it only must not be taken for another program.
LEMMA GrepTells ==
    ASSUME PInv, ToldInv, NEW t \in Terminals, at[t] \in {"next", "search"},
           NEW to \in {"shell", "next", "search"}, at' = [at EXCEPT ![t] = to],
           UNCHANGED <<command, args>>, DOMAIN shown' = Terminals,
           \A u \in Terminals : u # t =>
               file'[u] = file[u] /\ dir'[u] = dir[u] /\ shown'[u] = shown[u]
    PROVE  ToldInv'
<1>1. Told(at[t], Program(t), args[t], file[t], dir[t], shown[t])
  BY DEF ToldInv
<1>2. Program(t) = <<"grep">> /\ Program(t)' = Program(t)
  BY <1>1 DEF Told, Calling, Program
<1>3. Program(t)' # <<"cat">> /\ Program(t)' # <<"ls">>
  BY <1>2
<1>4. at'[t] = to /\ \A u \in Terminals : u # t => at'[u] = at[u]
  BY DEF PInv, Typed
<1>5. Told(at'[t], Program(t)', args'[t], file'[t], dir'[t], shown'[t])
  BY <1>2, <1>3, <1>4 DEF Told, Calling
<1> QED
  BY <1>4, <1>5, OthersTell

LEMMA GrepNextTells == ASSUME PInv, ToldInv, NEW t \in Terminals, GrepNext(t) PROVE ToldInv'
<1>1. at[t] = "next" /\ UNCHANGED <<command, args>>
  BY DEF GrepNext
<1>2. /\ \E to \in {"shell", "next", "search"} : at' = [at EXCEPT ![t] = to]
      /\ \/ UNCHANGED shown
         \/ \E text : shown' = [shown EXCEPT ![t] = @ \o text]
      /\ dir' = [dir EXCEPT ![t] = read(dir[t], DENTRY_FILE_NAME_LEN).fd]
      /\ UNCHANGED file \/ \E fd : file' = [file EXCEPT ![t] = fd]
  <2>1. dir' = [dir EXCEPT ![t] = read(dir[t], DENTRY_FILE_NAME_LEN).fd]
    BY DEF GrepNext
  <2>2. PICK r : r = read(dir[t], DENTRY_FILE_NAME_LEN)
    OBVIOUS
  <2>3. CASE r.returned = 0
    BY <2>1, <2>2, <2>3 DEF GrepNext, Ends, Goes, Shows
  <2>4. CASE r.returned # 0 /\ CString(r.buf)[1] = "."
    <3>1. UNCHANGED <<at, shown, file>>
      BY <2>2, <2>4 DEF GrepNext
    <3>2. at' = [at EXCEPT ![t] = "next"]
      BY <1>1, <3>1 DEF PInv, Typed
    <3> QED
      BY <2>1, <3>1, <3>2
  <2>5. CASE r.returned # 0 /\ CString(r.buf)[1] # "."
    BY <2>1, <2>2, <2>5 DEF GrepNext, Goes
  <2> QED
    BY <2>3, <2>4, <2>5
<1>3. DOMAIN shown' = Terminals /\ \A u \in Terminals : u # t =>
          file'[u] = file[u] /\ dir'[u] = dir[u] /\ shown'[u] = shown[u]
  BY <1>2 DEF ToldInv, PInv, Typed
<1>4. PICK to \in {"shell", "next", "search"} : at' = [at EXCEPT ![t] = to]
  BY <1>2
<1>5. at[t] \in {"next", "search"} /\ UNCHANGED <<command, args>>
  BY <1>1
<1> QED
  BY <1>3, <1>4, <1>5, GrepTells

LEMMA GrepSearchTells == ASSUME PInv, ToldInv, NEW t \in Terminals, GrepSearch(t) PROVE ToldInv'
<1>1. at[t] = "search" /\ UNCHANGED <<command, args, dir>>
  BY DEF GrepSearch
<1>2. /\ \E to \in {"next", "search"} : at' = [at EXCEPT ![t] = to]
      /\ \E text : shown' = [shown EXCEPT ![t] = @ \o text]
      /\ \E fd : file' = [file EXCEPT ![t] = fd]
  <2>1. PICK r, found :
          /\ Shows(t, found)
          /\ IF r.returned = 0
             THEN Goes(t, "next") /\ file' = [file EXCEPT ![t] = Closed]
             ELSE UNCHANGED at /\ file' = [file EXCEPT ![t] = r.fd]
    BY DEF GrepSearch
  <2>2. at' = [at EXCEPT ![t] = "next"] \/ at' = [at EXCEPT ![t] = "search"]
    BY <1>1, <2>1 DEF Goes, PInv, Typed
  <2>3. \E text : shown' = [shown EXCEPT ![t] = @ \o text]
    BY <2>1 DEF Shows
  <2>4. \E fd : file' = [file EXCEPT ![t] = fd]
    BY <2>1
  <2> QED
    BY <2>2, <2>3, <2>4
<1>3. DOMAIN shown' = Terminals /\ \A u \in Terminals : u # t =>
          file'[u] = file[u] /\ dir'[u] = dir[u] /\ shown'[u] = shown[u]
  BY <1>1, <1>2 DEF ToldInv, PInv, Typed
<1>4. PICK to \in {"shell", "next", "search"} : at' = [at EXCEPT ![t] = to]
  BY <1>2
<1>5. at[t] \in {"next", "search"} /\ UNCHANGED <<command, args>>
  BY <1>1
<1> QED
  BY <1>3, <1>4, <1>5, GrepTells

\* A program that is on the disk is found, and it is run.
LEMMA InstalledRuns ==
    ASSUME NEW fname \in Text, Installed(fname), NEW stale \in BOOLEAN
    PROVE  LET k == read_dentry_by_name(fname)
           IN  /\ k # 0
               /\ is_executable(read_data(direntries[k].inode_num, 0, 1), stale)
               /\ read_data(direntries[k].inode_num, 0,
                            inodes[direntries[k].inode_num].length) # <<>>
<1>1. PICK k \in DOMAIN direntries :
        /\ Names(k, fname) /\ inodes[direntries[k].inode_num].length > 0
        /\ ByteOf(inodes[direntries[k].inode_num], 0, 0) = magic
  BY DEF Installed
<1>2. read_dentry_by_name(fname) = k
  <2>1. PICK m : m = read_dentry_by_name(fname)
    OBVIOUS
  <2>2. m \in DOMAIN direntries /\ Names(m, fname)
    BY <1>1, <2>1, FoundByName DEF Names
  <2>3. k \in Nat /\ m \in Nat /\ k \in 1 .. Len(direntries) /\ m \in 1 .. Len(direntries)
    BY <2>2, DiskConstants, LenProperties
  <2>4. ~(m \in 1 .. k - 1) /\ ~(k \in 1 .. m - 1)
    BY <1>1, <2>2 DEF Names
  <2> QED
    BY <2>1, <2>3, <2>4
<1>3. k # 0
  BY DiskConstants, LenProperties
<1>4. PICK n \in DOMAIN inodes, L \in Nat : n = direntries[k].inode_num /\ L = inodes[n].length /\ L > 0
  BY <1>1, EntryIs, DiskConstants
<1>5. ASSUME NEW m \in Nat, m > 0
      PROVE  /\ read_data(n, 0, m) # <<>>
             /\ read_data(n, 0, m)[1] = ByteOf(inodes[n], 0, 0)
  <2>1. PICK zero \in Nat : zero = 0
    OBVIOUS
  <2>2. Left(n, zero, m) > 0 /\ Left(n, zero, m) \in Nat
    BY <1>4, <1>5, <2>1 DEF Left, Least
  <2>3. /\ Len(read_data(n, zero, m)) = Left(n, zero, m)
        /\ \A i \in 1 .. Left(n, zero, m) :
              read_data(n, zero, m)[i] = ByteOf(inodes[n], 0, zero + i - 1)
    BY ReadFacts
  <2>4. 1 \in 1 .. Left(n, zero, m) /\ zero + 1 - 1 = 0
    BY <2>1, <2>2
  <2>5. read_data(n, zero, m)[1] = ByteOf(inodes[n], 0, zero + 1 - 1)
    BY <2>3, <2>4
  <2>6. read_data(n, zero, m) # <<>>
    BY <2>2, <2>3
  <2> QED
    BY <2>1, <2>4, <2>5, <2>6
<1>6. read_data(n, 0, L) # <<>> /\ read_data(n, 0, 1) # <<>> /\ read_data(n, 0, 1)[1] = magic
  <2>1. 1 \in Nat /\ 1 > 0
    OBVIOUS
  <2> QED
    BY <1>1, <1>4, <1>5, <2>1
<1>7. is_executable(read_data(n, 0, 1), stale)
  BY <1>6 DEF is_executable
<1> QED
  BY <1>2, <1>3, <1>4, <1>6, <1>7

LEMMA executeTells ==
    ASSUME PInv, ToldInv, NEW t \in Terminals, NEW line \in Commands[t], NEW stale \in BOOLEAN,
           execute(t, line, stale)
    PROVE  ToldInv'
<1> DEFINE fname == get_file_name(line)
           executable(k) ==
              k # 0 /\ is_executable(read_data(direntries[k].inode_num, 0, 1), stale)
<1>1. PICK k : k = read_dentry_by_name(fname)
  OBVIOUS
<1>2. /\ at[t] = "shell" /\ command' = [command EXCEPT ![t] = line]
      /\ IF executable(k) THEN Load(t, k, stale) ELSE NoSuchCommand(t)
  BY <1>1 DEF execute, ParseArgs
<1>3. fname \in Text
  <2>1. line \in Text /\ IsLine(line)
    BY Lines DEF IsLine
  <2>2. PICK end \in 1 .. Len(line) : fname = SubSeq(line, 1, end - 1)
    BY <2>1, NameIs
  <2> QED
    BY <2>1, <2>2, Start
<1>4. Program(t)' = fname
  BY <1>2 DEF PInv, Typed, Program
<1>5. k # 0 => k \in DOMAIN direntries /\ direntries[k].filename = fname
  BY <1>1, <1>3, FoundByName DEF Names
<1>6. Installed(fname) =>
        /\ executable(k)
        /\ read_data(direntries[k].inode_num, 0, inodes[direntries[k].inode_num].length) # <<>>
  BY <1>1, <1>3, InstalledRuns
<1> HIDE DEF fname
<1>7. CASE ~executable(k)
  <2>1. NoSuchCommand(t)
    BY <1>2, <1>7
  <2>2. /\ shown' = [shown EXCEPT ![t] = <<"no such command">>]
        /\ args' = [args EXCEPT ![t] = NoArguments]
        /\ UNCHANGED <<at, file, dir>>
    BY <2>1 DEF NoSuchCommand
  <2>3. at'[t] = "shell" /\ args'[t] = NoArguments
    BY <1>2, <2>2 DEF PInv, Typed
  <2>4. ~ (Installed(<<"ls">>) /\ fname = <<"ls">>)
    BY <1>6, <1>7
  <2>5. Told(at'[t], Program(t)', args'[t], file'[t], dir'[t], shown'[t])
    BY <1>4, <2>3, <2>4 DEF Told, Calling
  <2> QED
    BY <1>2, <2>2, <2>5, OthersTell DEF ToldInv, PInv, Typed
<1>8. CASE executable(k)
  <2>1. PICK bytes : bytes = read_data(direntries[k].inode_num, 0,
                                       inodes[direntries[k].inode_num].length)
    OBVIOUS
  <2>2. /\ bytes # <<>> => direntries[k].filename \in {<<"ls">>, <<"cat">>, <<"grep">>}
    BY <1>5, <1>8, <2>1, Executable
  <2>3. PICK to : to = IF bytes = <<>> THEN "stale" ELSE FirstCall(direntries[k].filename)
    OBVIOUS
  <2>4. Load(t, k, stale)
    BY <1>2, <1>8
  <2>5. /\ at' = [at EXCEPT ![t] = to]
        /\ shown' = [shown EXCEPT ![t] = <<>>]
        /\ args' = [args EXCEPT ![t] = NoArguments]
        /\ file' = [file EXCEPT ![t] = Closed] /\ dir' = [dir EXCEPT ![t] = Closed]
    BY <2>1, <2>3, <2>4 DEF Load, Goes
  <2>6. at'[t] = to /\ shown'[t] = <<>> /\ args'[t] = NoArguments
    BY <2>5 DEF PInv, Typed, ToldInv
  <2>7. CASE bytes = <<>>
    <3>1. ~ (Installed(<<"ls">>) /\ fname = <<"ls">>)
      BY <1>6, <2>1, <2>7
    <3>2. to = "stale"
      BY <2>3, <2>7
    <3>3. Told(at'[t], Program(t)', args'[t], file'[t], dir'[t], shown'[t])
      BY <1>4, <2>6, <3>1, <3>2 DEF Told, Calling
    <3> QED
      BY <1>2, <2>5, <3>3, OthersTell DEF ToldInv, PInv, Typed
  <2>8. CASE bytes # <<>>
    <3>1. /\ fname \in {<<"ls">>, <<"cat">>, <<"grep">>} /\ to = FirstCall(fname)
      BY <1>5, <1>8, <2>2, <2>3, <2>8
    <3>2. to \in {"opendir", "getargs"} /\ (to = "opendir" <=> fname = <<"ls">>)
      BY <3>1 DEF FirstCall
    <3>3. Calling(at'[t], Program(t)', args'[t], shown'[t])
      BY <1>4, <2>6, <3>2 DEF Calling
    <3>4. Program(t)' = <<"ls">> => LsTells(at'[t], dir'[t], shown'[t])
      BY <1>4, <2>6, <3>2 DEF LsTells
    <3>5. Told(at'[t], Program(t)', args'[t], file'[t], dir'[t], shown'[t])
      BY <2>6, <3>3, <3>4 DEF Told
    <3> QED
      BY <1>2, <2>5, <3>5, OthersTell DEF ToldInv, PInv, Typed
  <2> QED
    BY <2>7, <2>8
<1> QED
  BY <1>7, <1>8

LEMMA ToldStep == PInv /\ ToldInv /\ [Next]_vars => ToldInv'
<1> SUFFICES ASSUME PInv, ToldInv, [Next]_vars PROVE ToldInv'
  OBVIOUS
<1>1. CASE UNCHANGED vars
  <2>1. UNCHANGED <<at, command, args, file, dir, shown>>
    BY <1>1 DEF vars, process
  <2> QED
    BY <2>1 DEF ToldInv, Program
<1>2. ASSUME NEW t \in Terminals, Shell(t) PROVE ToldInv'
  BY <1>2, executeTells DEF Shell
<1>3. ASSUME NEW t \in Terminals, Calls(t) PROVE ToldInv'
  BY <1>3, StaleEndsTells, getargsTells, CatOpenTells, CatCopyTells, OpenDirTells,
     LsListTells, GrepNextTells, GrepSearchTells DEF Calls
<1> QED
  BY <1>1, <1>2, <1>3 DEF Next

\* The invariance of what every program has shown so far.
THEOREM TellInvariance == Spec => []ToldInv
<1>1. Init => ToldInv
  BY ToldStart
<1>2. PInv /\ PInv' /\ ToldInv /\ [Next]_vars => ToldInv'
  BY ToldStep
<1> QED
  BY <1>1, <1>2, ProgramInvariance, PTL DEF Spec

\* cat shows the whole file that its arguments name, each byte once and in order
\* (NULs are not printed), and on the way a beginning of it
\* (system_call.c:536, ece391cat.c:21-30).
THEOREM CatShowsFiles == Spec => []CatShows
<1>1. PInv /\ ToldInv => CatShows
  <2> SUFFICES ASSUME PInv, ToldInv, NEW t \in Terminals,
                      Program(t) = <<"cat">>, args[t] # NoArguments
               PROVE  IF at[t] = "shell" THEN shown[t] = CatText(args[t])
                      ELSE IsPrefix(shown[t], CatText(args[t]))
    BY DEF CatShows
  <2>1. CatTells(at[t], args[t], file[t], shown[t])
    BY DEF ToldInv, Told
  <2>2. CASE at[t] = "shell"
    BY <2>1, <2>2 DEF CatTells
  <2>3. CASE at[t] = "open"
    <3>1. shown[t] = <<>>
      BY <2>1, <2>3 DEF CatTells
    <3>2. IsPrefix(<<>>, CatText(args[t]))
      BY CatTextLong
    <3> QED
      BY <2>3, <3>1, <3>2
  <2>4. CASE at[t] = "copy"
    <3>1. PICK k \in DOMAIN direntries :
            /\ Names(k, args[t]) /\ OpensEntry(file[t], k)
            /\ shown[t] = CatUpTo(k, file[t].file_position)
      BY <2>1, <2>4 DEF CatTells
    <3>2. CatText(args[t]) = CatWhole(k)
      BY <3>1, CatTextIs
    <3>3. PICK fd \in Fds : fd = file[t] /\ Stands(fd)
      BY DEF PInv, Typed, Opened
    <3>4. IsPrefix(CatUpTo(k, fd.file_position), CatWhole(k))
      BY <3>1, <3>3, CatPrefix
    <3> QED
      BY <2>4, <3>1, <3>2, <3>3, <3>4
  <2> QED
    BY <2>1, <2>2, <2>3, <2>4 DEF CatTells
<1> QED
  BY <1>1, ProgramInvariance, TellInvariance, PTL

\* ls, where the disk has it, shows every name of the directory once and in
\* order, one to a line (filesys.c:292-340, ece391ls.c:18-26).
THEOREM LsListsNames == Spec => []LsLists
<1>1. PInv /\ ToldInv => LsLists
  <2> SUFFICES ASSUME PInv, ToldInv, Installed(<<"ls">>), NEW t \in Terminals,
                      Program(t) = <<"ls">>
               PROVE  IF at[t] = "shell" THEN shown[t] = AllNames(<<newline>>)
                      ELSE IsPrefix(shown[t], AllNames(<<newline>>))
    BY DEF LsLists
  <2>1. LsTells(at[t], dir[t], shown[t])
    BY DEF ToldInv, Told
  <2>2. PICK separator \in Text : separator = <<newline>>
    BY NewlineIs
  <2>3. CASE at[t] = "shell"
    BY <2>1, <2>3 DEF LsTells
  <2>4. CASE at[t] = "opendir"
    <3>1. shown[t] = <<>>
      BY <2>1, <2>4 DEF LsTells
    <3>2. 0 \in 0 .. Len(direntries)
      BY DiskConstants, LenProperties
    <3>3. IsPrefix(FirstNames(separator, 0), AllNames(separator))
      BY <3>2, NamesBegin
    <3> QED
      BY <2>2, <2>4, <3>1, <3>3, NamesNone
  <2>5. CASE at[t] = "list"
    <3>1. shown[t] = FirstNames(separator, dir[t].file_position)
      BY <2>1, <2>2, <2>5 DEF LsTells
    <3>2. Stands(dir[t]) /\ dir[t].file_type = DIRECTORY_FILE_TYPE
      BY <2>5 DEF PInv, Opened
    <3>3. dir[t].file_position \in 0 .. Len(direntries)
      BY <3>2 DEF Stands, Size, REGULAR_FILE_TYPE, DIRECTORY_FILE_TYPE
    <3>4. IsPrefix(FirstNames(separator, dir[t].file_position), AllNames(separator))
      BY <3>3, NamesBegin
    <3> QED
      BY <2>2, <2>5, <3>1, <3>4
  <2> QED
    BY <2>1, <2>3, <2>4, <2>5 DEF LsTells
<1> QED
  BY <1>1, ProgramInvariance, TellInvariance, PTL

-----------------------------------------------------------------------------
(* Pieces of text, one behind the other *)

\* Whatever grep prints.
Prints == Seq(Characters \cup {":"})

LEMMA TwoPrints ==
    ASSUME NEW u \in Prints, NEW v \in Prints
    PROVE  /\ u \o v \in Prints /\ Len(u \o v) = Len(u) + Len(v)
           /\ Len(u) \in Nat /\ Len(v) \in Nat
BY ConcatProperties, LenProperties DEF Prints

LEMMA ThreePrints ==
    ASSUME NEW u \in Prints, NEW v \in Prints, NEW w \in Prints
    PROVE  (u \o v) \o w = u \o (v \o w)
BY ConcatAssociative DEF Prints

LEMMA NoPrint ==
    /\ <<>> \in Prints /\ Len(<<>>) = 0
    /\ \A u \in Prints : u \o <<>> = u /\ <<>> \o u = u
BY ConcatEmptySeq, EmptySeq DEF Prints

LEMMA JointRounds ==
    ASSUME NEW n \in Nat, NEW pieces, \A k \in 1 .. n : pieces[k] \in Prints
    PROVE  \E f \in [0 .. n -> Prints] :
              /\ f[0] = <<>>
              /\ \A k \in 1 .. n : f[k] = f[k - 1] \o pieces[k]
              /\ Joint(pieces, n) = f[n]
<1>1. <<>> \in Prints
  BY NoPrint
<1>2. \A k \in 1 .. n, d \in Prints : d \o pieces[k] \in Prints
  BY TwoPrints
<1>3. PICK F \in [1 .. n -> [Prints -> Prints]] :
          \A k \in 1 .. n, d \in Prints : F[k][d] = d \o pieces[k]
  <2> DEFINE G == [k \in 1 .. n |-> [d \in Prints |-> d \o pieces[k]]]
  <2>1. /\ G \in [1 .. n -> [Prints -> Prints]]
        /\ \A k \in 1 .. n, d \in Prints : G[k][d] = d \o pieces[k]
    BY <1>2
  <2> HIDE DEF G
  <2> QED
    BY <2>1
<1>4. PICK f : Rounds(f, Prints, n, <<>>, F)
  BY <1>1, <1>3, LoopExists
<1>5. f \in [0 .. n -> Prints] /\ f[0] = <<>>
  BY <1>4 DEF Rounds
<1>6. ASSUME NEW k \in 1 .. n PROVE f[k] = f[k - 1] \o pieces[k]
  <2>1. k - 1 \in 0 .. n
    OBVIOUS
  <2>2. f[k] = F[k][f[k - 1]] /\ f[k - 1] \in Prints
    BY <1>4, <1>5, <2>1 DEF Rounds
  <2> QED
    BY <1>3, <2>2
<1>7. f = [k \in 0 .. n |-> IF k = 0 THEN <<>> ELSE f[k - 1] \o pieces[k]]
  <2>1. ASSUME NEW k \in 0 .. n
        PROVE  f[k] = IF k = 0 THEN <<>> ELSE f[k - 1] \o pieces[k]
    <3>1. CASE k # 0
      <4>1. k \in 1 .. n
        BY <3>1
      <4> QED
        BY <1>6, <3>1, <4>1
    <3> QED
      BY <1>5, <3>1
  <2>2. f = [k \in 0 .. n |-> f[k]]
    BY <1>5
  <2> QED
    BY <2>1, <2>2
<1> DEFINE W == CHOOSE w : w = [k \in 0 .. n |->
                                  IF k = 0 THEN <<>> ELSE w[k - 1] \o pieces[k]]
<1>8. W = [k \in 0 .. n |-> IF k = 0 THEN <<>> ELSE W[k - 1] \o pieces[k]]
  BY <1>7
<1>9. Joint(pieces, n) = W[n]
  BY DEF Joint
<1> HIDE DEF W
<1>10. W[0] = <<>> /\ \A k \in 1 .. n : W[k] = W[k - 1] \o pieces[k]
  <2>1. 0 \in 0 .. n /\ \A k \in 1 .. n : k \in 0 .. n /\ k # 0
    OBVIOUS
  <2>2. W[0] = <<>>
    BY <1>8, <2>1
  <2>3. ASSUME NEW k \in 1 .. n PROVE W[k] = W[k - 1] \o pieces[k]
    BY <1>8, <2>1
  <2> QED
    BY <2>2, <2>3
<1>11. \A k \in 0 .. n : W[k] \in Prints
  <2>1. \A k \in 1 .. n : W[k - 1] \in Prints => W[k] \in Prints
    BY <1>2, <1>10
  <2> QED
    BY <1>1, <1>10, <2>1, LoopKeeps
<1>12. W \in [0 .. n -> Prints]
  BY <1>8, <1>11
<1> QED
  BY <1>9, <1>10, <1>12

\* Only the pieces that are joined matter.
LEMMA JointSame ==
    ASSUME NEW n \in Nat, NEW p, NEW q,
           \A k \in 1 .. n : p[k] \in Prints /\ q[k] = p[k]
    PROVE  Joint(p, n) = Joint(q, n) /\ Joint(p, n) \in Prints
<1>1. PICK f \in [0 .. n -> Prints] :
          /\ f[0] = <<>>
          /\ \A k \in 1 .. n : f[k] = f[k - 1] \o p[k]
          /\ Joint(p, n) = f[n]
  BY JointRounds
<1>2. PICK g \in [0 .. n -> Prints] :
          /\ g[0] = <<>>
          /\ \A k \in 1 .. n : g[k] = g[k - 1] \o q[k]
          /\ Joint(q, n) = g[n]
  <2>1. \A k \in 1 .. n : q[k] \in Prints
    OBVIOUS
  <2> QED
    BY <2>1, JointRounds
<1>3. PICK P : P = {k \in 0 .. n : f[k] = g[k]}
  OBVIOUS
<1>4. 0 \in P
  BY <1>1, <1>2, <1>3
<1>5. ASSUME NEW k \in 1 .. n, k - 1 \in P PROVE k \in P
  BY <1>1, <1>2, <1>3, <1>5
<1>6. \A k \in 0 .. n : k \in P
  BY <1>4, <1>5, Induct
<1> QED
  BY <1>1, <1>2, <1>3, <1>6

\* An array begins with m elements of a text.
Copies(array, text, off, m) == \A i \in 1 .. m : array[i] = text[off + i]
AllPrints(p, off, m) == \A k \in 1 .. off + m : p[k] \in Prints
Adding(p, q, off, m, last) ==
    /\ Joint(p, off + m) = Joint(p, off) \o Joint(q, last)
    /\ Joint(p, off) \in Prints /\ Joint(q, last) \in Prints

\* The first pieces, and then the others.
LEMMA JointSplit ==
    ASSUME NEW a \in Nat, NEW b \in Nat, NEW p, NEW q,
           AllPrints(p, a, b), Copies(q, p, a, b)
    PROVE  Adding(p, q, a, b, b)
<1>0. /\ \A k \in 1 .. a + b : p[k] \in Prints
      /\ \A k \in 1 .. b : q[k] = p[a + k]
  BY DEF AllPrints, Copies
<1>1. a + b \in Nat
  OBVIOUS
<1>2. PICK f \in [0 .. a + b -> Prints] :
          /\ f[0] = <<>>
          /\ \A k \in 1 .. a + b : f[k] = f[k - 1] \o p[k]
          /\ Joint(p, a + b) = f[a + b]
  BY <1>0, <1>1, JointRounds
<1>3. PICK h \in [0 .. a -> Prints] :
          /\ h[0] = <<>>
          /\ \A k \in 1 .. a : h[k] = h[k - 1] \o p[k]
          /\ Joint(p, a) = h[a]
  <2>1. \A k \in 1 .. a : p[k] \in Prints
    BY <1>0
  <2> QED
    BY <2>1, JointRounds
<1>4. \A k \in 1 .. b : q[k] \in Prints /\ q[k] = p[a + k] /\ a + k \in 1 .. a + b
  BY <1>0
<1>5. PICK g \in [0 .. b -> Prints] :
          /\ g[0] = <<>>
          /\ \A k \in 1 .. b : g[k] = g[k - 1] \o q[k]
          /\ Joint(q, b) = g[b]
  BY <1>4, JointRounds
<1>6. f[a] = h[a] /\ h[a] \in Prints
  <2>1. PICK P : P = {k \in 0 .. a : f[k] = h[k]}
    OBVIOUS
  <2>2. 0 \in P
    BY <1>2, <1>3, <2>1
  <2>3. ASSUME NEW k \in 1 .. a, k - 1 \in P PROVE k \in P
    <3>1. f[k - 1] = h[k - 1] /\ k \in 0 .. a /\ k \in 1 .. a + b
      BY <2>1, <2>3
    <3>2. f[k] = f[k - 1] \o p[k] /\ h[k] = h[k - 1] \o p[k]
      BY <1>2, <1>3, <3>1
    <3> QED
      BY <2>1, <3>1, <3>2
  <2>4. \A k \in 0 .. a : k \in P
    BY <2>2, <2>3, Induct
  <2> QED
    BY <1>3, <2>1, <2>4
<1>7. f[a + b] = h[a] \o g[b]
  <2>1. PICK P : P = {k \in 0 .. b : f[a + k] = h[a] \o g[k]}
    OBVIOUS
  <2>2. 0 \in P
    <3>1. h[a] \o <<>> = h[a]
      BY <1>6, NoPrint
    <3>2. a + 0 = a /\ 0 \in 0 .. b
      OBVIOUS
    <3>3. f[a + 0] = h[a] \o g[0]
      BY <1>5, <1>6, <3>1, <3>2
    <3> QED
      BY <2>1, <3>2, <3>3
  <2>3. ASSUME NEW k \in 1 .. b, k - 1 \in P PROVE k \in P
    <3>1. f[a + k] = f[a + (k - 1)] \o p[a + k]
      <4>1. a + k \in 1 .. a + b /\ (a + k) - 1 = a + (k - 1)
        OBVIOUS
      <4> QED
        BY <1>2, <4>1
    <3>2. f[a + (k - 1)] = h[a] \o g[k - 1]
      BY <2>1, <2>3
    <3>3. g[k - 1] \in Prints /\ q[k] \in Prints
      BY <1>4, <1>5
    <3>4. (h[a] \o g[k - 1]) \o q[k] = h[a] \o (g[k - 1] \o q[k])
      BY <1>6, <3>3, ThreePrints
    <3>5. g[k] = g[k - 1] \o q[k] /\ p[a + k] = q[k]
      BY <1>4, <1>5
    <3>6. f[a + k] = h[a] \o g[k]
      BY <3>1, <3>2, <3>4, <3>5
    <3> QED
      BY <2>1, <3>6
  <2>4. \A k \in 0 .. b : k \in P
    BY <2>2, <2>3, Induct
  <2>5. b \in 0 .. b
    OBVIOUS
  <2> QED
    BY <2>1, <2>4, <2>5
<1> QED
  BY <1>2, <1>3, <1>5, <1>6, <1>7 DEF Adding

LEMMA JointEmpty ==
    ASSUME NEW n \in Nat, NEW p, \A k \in 1 .. n : p[k] = <<>>
    PROVE  Joint(p, n) = <<>>
<1>1. \A k \in 1 .. n : p[k] \in Prints
  BY NoPrint
<1>2. PICK f \in [0 .. n -> Prints] :
          /\ f[0] = <<>>
          /\ \A k \in 1 .. n : f[k] = f[k - 1] \o p[k]
          /\ Joint(p, n) = f[n]
  BY <1>1, JointRounds
<1>3. PICK P : P = {k \in 0 .. n : f[k] = <<>>}
  OBVIOUS
<1>4. 0 \in P
  BY <1>2, <1>3
<1>5. ASSUME NEW k \in 1 .. n, k - 1 \in P PROVE k \in P
  <2>1. f[k] = <<>> \o <<>>
    BY <1>2, <1>3, <1>5
  <2>2. <<>> \o <<>> = <<>>
    BY NoPrint
  <2> QED
    BY <1>3, <2>1, <2>2
<1>6. \A k \in 0 .. n : k \in P
  BY <1>4, <1>5, Induct
<1> QED
  BY <1>2, <1>3, <1>6

-----------------------------------------------------------------------------
(* What the entries add *)

LEMMA ReachRounds ==
    ASSUME NEW s, NEW text \in Prints, NEW n \in Nat
    PROVE  \E f \in [0 .. n -> SUBSET (0 .. Len(text))] :
              /\ f[0] = {0}
              /\ \A k \in 1 .. n :
                    f[k] = UNION {{e \in b .. Len(text) : Adds(s, k, SubSeq(text, b + 1, e))} :
                                  b \in f[k - 1]}
              /\ Reach(s, text, n) = f[n]
<1>1. PICK len \in Nat : len = Len(text)
  BY NoPrint, TwoPrints
<1> DEFINE S == SUBSET (0 .. len)
           Behind(b, k) == {e \in b .. len : Adds(s, k, SubSeq(text, b + 1, e))}
           More(d, k) == UNION {Behind(b, k) : b \in d}
<1>2. {0} \in S
  OBVIOUS
<1>3. \A k \in 1 .. n, d \in S : More(d, k) \in S
  <2> SUFFICES ASSUME NEW k \in 1 .. n, NEW d \in S, NEW b \in d, NEW e \in Behind(b, k)
               PROVE  e \in 0 .. len
    OBVIOUS
  <2>1. b \in 0 .. len /\ e \in b .. len
    OBVIOUS
  <2> QED
    BY <2>1
<1> HIDE DEF More
<1>4. PICK F \in [1 .. n -> [S -> S]] : \A k \in 1 .. n, d \in S : F[k][d] = More(d, k)
  <2> DEFINE G == [k \in 1 .. n |-> [d \in S |-> More(d, k)]]
  <2>1. /\ G \in [1 .. n -> [S -> S]]
        /\ \A k \in 1 .. n, d \in S : G[k][d] = More(d, k)
    BY <1>3
  <2> HIDE DEF G
  <2> QED
    BY <2>1
<1> HIDE DEF S
<1>5. PICK f : Rounds(f, S, n, {0}, F)
  BY <1>2, <1>4, LoopExists
<1>6. f \in [0 .. n -> S] /\ f[0] = {0}
  BY <1>5 DEF Rounds
<1>7. ASSUME NEW k \in 1 .. n PROVE f[k] = More(f[k - 1], k)
  <2>1. k - 1 \in 0 .. n
    OBVIOUS
  <2>2. f[k] = F[k][f[k - 1]] /\ f[k - 1] \in S
    BY <1>5, <1>6, <2>1 DEF Rounds
  <2> QED
    BY <1>4, <2>2
<1>8. f = [k \in 0 .. n |-> IF k = 0 THEN {0} ELSE More(f[k - 1], k)]
  <2>1. ASSUME NEW k \in 0 .. n
        PROVE  f[k] = IF k = 0 THEN {0} ELSE More(f[k - 1], k)
    <3>1. CASE k # 0
      <4>1. k \in 1 .. n
        BY <3>1
      <4> QED
        BY <1>7, <3>1, <4>1
    <3> QED
      BY <1>6, <3>1
  <2>2. f = [k \in 0 .. n |-> f[k]]
    BY <1>6
  <2> QED
    BY <2>1, <2>2
<1> DEFINE W == CHOOSE w : w = [k \in 0 .. n |-> IF k = 0 THEN {0} ELSE More(w[k - 1], k)]
<1>9. W = [k \in 0 .. n |-> IF k = 0 THEN {0} ELSE More(W[k - 1], k)]
  BY <1>8
<1>10. Reach(s, text, n) = W[n]
  BY <1>1 DEF Reach, More
<1> HIDE DEF W
<1>11. W[0] = {0} /\ \A k \in 1 .. n : W[k] = More(W[k - 1], k)
  <2>1. 0 \in 0 .. n /\ \A k \in 1 .. n : k \in 0 .. n /\ k # 0
    OBVIOUS
  <2>2. W[0] = {0}
    BY <1>9, <2>1
  <2>3. ASSUME NEW k \in 1 .. n PROVE W[k] = More(W[k - 1], k)
    BY <1>9, <2>1
  <2> QED
    BY <2>2, <2>3
<1>12. \A k \in 0 .. n : W[k] \in S
  <2>1. \A k \in 1 .. n : W[k - 1] \in S => W[k] \in S
    BY <1>3, <1>11, SMTT(20) DEF S
  <2> QED
    BY <1>2, <1>11, <2>1, LoopKeeps
<1>13. W \in [0 .. n -> S]
  BY <1>9, <1>12
<1> QED
  BY <1>1, <1>10, <1>11, <1>13 DEF S, More

\* One entry more.
LEMMA ReachNext ==
    ASSUME NEW s, NEW text \in Prints, NEW n \in Nat
    PROVE  /\ Reach(s, text, 0) = {0}
           /\ Reach(s, text, n) \subseteq 0 .. Len(text)
           /\ \A e : e \in Reach(s, text, n + 1) <=>
                 \E b \in Reach(s, text, n) :
                     e \in b .. Len(text) /\ Adds(s, n + 1, SubSeq(text, b + 1, e))
<1> DEFINE Step(d, k) == UNION {{e \in b .. Len(text) : Adds(s, k, SubSeq(text, b + 1, e))} :
                                b \in d}
<1>1. \A k \in Nat : \E f \in [0 .. k -> SUBSET (0 .. Len(text))] :
          /\ f[0] = {0}
          /\ \A m \in 1 .. k : f[m] = Step(f[m - 1], m)
          /\ Reach(s, text, k) = f[k]
  BY ReachRounds
<1>2. \A d, k, e : e \in Step(d, k) <=>
          \E b \in d : e \in b .. Len(text) /\ Adds(s, k, SubSeq(text, b + 1, e))
  OBVIOUS
<1> HIDE DEF Step
<1>3. Reach(s, text, 0) = {0}
  BY <1>1
<1>4. PICK f \in [0 .. n -> SUBSET (0 .. Len(text))] :
          /\ f[0] = {0}
          /\ \A m \in 1 .. n : f[m] = Step(f[m - 1], m)
          /\ Reach(s, text, n) = f[n]
  BY <1>1
<1>5. n + 1 \in Nat
  OBVIOUS
<1>6. PICK g \in [0 .. n + 1 -> SUBSET (0 .. Len(text))] :
          /\ g[0] = {0}
          /\ \A m \in 1 .. n + 1 : g[m] = Step(g[m - 1], m)
          /\ Reach(s, text, n + 1) = g[n + 1]
  BY <1>1, <1>5
<1>7. f[n] = g[n]
  <2>1. PICK P : P = {k \in 0 .. n : f[k] = g[k]}
    OBVIOUS
  <2>2. 0 \in P
    <3>1. f[0] = g[0] /\ 0 \in 0 .. n
      BY <1>4, <1>6
    <3> QED
      BY <2>1, <3>1
  <2>3. ASSUME NEW k \in 1 .. n, k - 1 \in P PROVE k \in P
    <3>1. f[k - 1] = g[k - 1] /\ k \in 0 .. n /\ k \in 1 .. n + 1
      BY <2>1, <2>3
    <3>2. f[k] = Step(f[k - 1], k) /\ g[k] = Step(g[k - 1], k)
      BY <1>4, <1>6, <3>1
    <3> QED
      BY <2>1, <3>1, <3>2
  <2>4. \A k \in 0 .. n : k \in P
    BY <2>2, <2>3, Induct
  <2> QED
    BY <2>1, <2>4
<1>8. Reach(s, text, n + 1) = Step(Reach(s, text, n), n + 1)
  <2>1. n + 1 \in 1 .. n + 1 /\ (n + 1) - 1 = n
    OBVIOUS
  <2> QED
    BY <1>4, <1>6, <1>7, <2>1
<1>9. Reach(s, text, n) \subseteq 0 .. Len(text)
  BY <1>4
<1> QED
  BY <1>2, <1>3, <1>8, <1>9

\* What stands in a text stays where it is when more is printed.
LEMMA SameFront ==
    ASSUME NEW u \in Prints, NEW v \in Prints, NEW b \in 0 .. Len(u), NEW e \in b .. Len(u)
    PROVE  SubSeq(u \o v, b + 1, e) = SubSeq(u, b + 1, e)
<1>1. Len(u) \in Nat
  BY TwoPrints
<1>2. CASE b = e
  <2>1. b + 1 \in Int /\ e \in Int /\ e < b + 1
    BY <1>1, <1>2
  <2>2. SubSeq(u \o v, b + 1, e) = <<>> /\ SubSeq(u, b + 1, e) = <<>>
    BY <2>1, SubSeqEmpty
  <2> QED
    BY <2>2
<1>3. CASE b # e
  <2>1. b + 1 \in 1 .. Len(u) /\ e \in 1 .. Len(u)
    BY <1>1, <1>3
  <2> QED
    BY <2>1, SubSeqOfConcat1 DEF Prints
<1> QED
  BY <1>2, <1>3

LEMMA ReachStays ==
    ASSUME NEW s, NEW u \in Prints, NEW v \in Prints, NEW n \in Nat
    PROVE  Reach(s, u, n) \subseteq Reach(s, u \o v, n)
<1>1. PICK w \in Prints : w = u \o v /\ Len(u) <= Len(w) /\ Len(w) \in Nat /\ Len(u) \in Nat
  <2>1. /\ u \o v \in Prints /\ Len(u \o v) = Len(u) + Len(v)
        /\ Len(u) \in Nat /\ Len(v) \in Nat
    BY TwoPrints
  <2>2. Len(u) <= Len(u \o v) /\ Len(u \o v) \in Nat
    BY <2>1
  <2> QED
    BY <2>1, <2>2
<1>2. PICK P : P = {k \in 0 .. n : Reach(s, u, k) \subseteq Reach(s, w, k)}
  OBVIOUS
<1>3. 0 \in P
  BY <1>2, ReachNext
<1>4. ASSUME NEW k \in 1 .. n, k - 1 \in P PROVE k \in P
  <2>1. PICK m \in Nat : m = k - 1 /\ k = m + 1
    OBVIOUS
  <2>2. Reach(s, u, m) \subseteq Reach(s, w, m)
    BY <1>2, <1>4, <2>1
  <2>3. ASSUME NEW e \in Reach(s, u, m + 1) PROVE e \in Reach(s, w, m + 1)
    <3>1. PICK b \in Reach(s, u, m) :
            e \in b .. Len(u) /\ Adds(s, m + 1, SubSeq(u, b + 1, e))
      BY ReachNext
    <3>2. b \in 0 .. Len(u)
      BY ReachNext
    <3>3. SubSeq(w, b + 1, e) = SubSeq(u, b + 1, e)
      BY <1>1, <3>1, <3>2, SameFront
    <3>4. b \in Reach(s, w, m) /\ e \in b .. Len(w)
      BY <1>1, <2>2, <3>1, <3>2
    <3>5. Adds(s, m + 1, SubSeq(w, b + 1, e))
      BY <3>1, <3>3
    <3> QED
      BY <3>4, <3>5, ReachNext
  <2> QED
    BY <1>2, <2>1, <2>3
<1>5. \A k \in 0 .. n : k \in P
  BY <1>3, <1>4, Induct
<1> QED
  BY <1>1, <1>2, <1>5

\* All that was printed for one more entry.
LEMMA ReachEntry ==
    ASSUME NEW s, NEW u \in Prints, NEW v \in Prints, NEW n \in Nat,
           Len(u) \in Reach(s, u, n), Adds(s, n + 1, v)
    PROVE  Len(u \o v) \in Reach(s, u \o v, n + 1)
<1>1. PICK w \in Prints : /\ w = u \o v /\ Len(w) = Len(u) + Len(v)
                          /\ Len(v) \in Nat /\ Len(u) \in Nat
  BY TwoPrints
<1>2. SubSeq(w, Len(u) + 1, Len(w)) = v
  <2>1. CASE Len(v) = 0
    <3>1. v = <<>>
      BY <2>1, EmptySeq DEF Prints
    <3>2. Len(u) + 1 \in Int /\ Len(w) \in Int /\ Len(w) < Len(u) + 1
      BY <1>1, <2>1
    <3> QED
      BY <3>1, <3>2, SubSeqEmpty
  <2>2. CASE Len(v) # 0
    <3>1. Len(u) + 1 \in Len(u) + 1 .. Len(u) + Len(v) /\ Len(w) \in Len(u) + 1 .. Len(u) + Len(v)
      BY <1>1, <2>2
    <3>2. (Len(u) + 1) - Len(u) = 1 /\ Len(w) - Len(u) = Len(v)
      BY <1>1
    <3>3. SubSeq(w, Len(u) + 1, Len(w)) = SubSeq(v, (Len(u) + 1) - Len(u), Len(w) - Len(u))
      BY <1>1, <3>1, SubSeqOfConcat2 DEF Prints
    <3>4. SubSeq(v, 1, Len(v)) = v
      BY SubSeqFull DEF Prints
    <3> QED
      BY <3>2, <3>3, <3>4
  <2> QED
    BY <2>1, <2>2
<1>3. Len(u) \in Reach(s, w, n)
  BY <1>1, ReachStays
<1>4. Len(w) \in Len(u) .. Len(w)
  BY <1>1
<1>5. Adds(s, n + 1, SubSeq(w, Len(u) + 1, Len(w)))
  BY <1>2
<1>6. Len(w) \in Reach(s, w, n + 1)
  BY <1>3, <1>4, <1>5, ReachNext
<1> QED
  BY <1>1, <1>6

-----------------------------------------------------------------------------
(* One line, in the buffer and in the file *)

\* An array holds n bytes of a text, from its place b and the text's place o on.
Holds(array, b, text, o, n) == \A i \in 1 .. n : array[b + i] = text[o + i]

LEMMA StringIs ==
    ASSUME NEW array \in Text, NEW b \in Nat, NEW n \in Nat, b + n < Len(array),
           array[b + n + 1] = nul, \A i \in 1 .. n : array[b + i] # nul
    PROVE  /\ StringAt(array, b) \in Text /\ Len(StringAt(array, b)) = n
           /\ \A i \in 1 .. n : StringAt(array, b)[i] = array[b + i]
<1>1. PICK len \in Nat : len = Len(array) - b /\ Len(array) = b + len /\ n < len
  <2>1. Len(array) \in Nat
    BY LenProperties DEF Text
  <2> QED
    BY <2>1
<1> DEFINE tail == SubSeq(array, b + 1, b + len)
<1>2. tail \in Text /\ Len(tail) = len /\ \A i \in 1 .. len : tail[i] = array[b + i]
  <2>1. b + len <= Len(array)
    BY <1>1
  <2> QED
    BY <2>1, PartIs
<1>3. StringAt(array, b) = CString(tail)
  BY <1>1 DEF StringAt
<1> HIDE DEF tail
<1>4. PICK k \in 1 .. len + 1 :
        /\ CString(tail) \in Text /\ Len(CString(tail)) = k - 1
        /\ k <= len => tail[k] = nul
        /\ \A i \in 1 .. k - 1 : tail[i] # nul /\ CString(tail)[i] = tail[i]
  BY <1>2, CStringIs
<1>5. tail[n + 1] = nul /\ n + 1 \in 1 .. len /\ \A i \in 1 .. n : tail[i] # nul
  <2>1. n + 1 \in 1 .. len /\ \A i \in 1 .. n : i \in 1 .. len
    BY <1>1
  <2>2. tail[n + 1] = array[b + (n + 1)] /\ b + (n + 1) = b + n + 1
    BY <1>2, <2>1
  <2>3. \A i \in 1 .. n : tail[i] = array[b + i]
    BY <1>2, <2>1
  <2> QED
    BY <2>1, <2>2, <2>3
<1>6. ~(n + 1 \in 1 .. k - 1) /\ ~(k \in 1 .. n)
  <2>1. k \in 1 .. n => tail[k] = nul
    BY <1>1, <1>4
  <2> QED
    BY <1>4, <1>5, <2>1
<1>7. k = n + 1
  BY <1>4, <1>6
<1>8. \A i \in 1 .. n : CString(tail)[i] = array[b + i]
  <2>1. \A i \in 1 .. n : i \in 1 .. k - 1 /\ i \in 1 .. len
    BY <1>1, <1>7
  <2> QED
    BY <1>2, <1>4, <2>1
<1> QED
  BY <1>3, <1>4, <1>7, <1>8

\* The string that stands in the buffer is the line of the file.
IsPart(line, text, o, n) == line = SubSeq(text, o + 1, o + n)

LEMMA LineStringIs ==
    ASSUME NEW array \in Text, NEW b \in Nat, NEW n \in Nat, b + n < Len(array),
           array[b + n + 1] = nul,
           NEW text \in Text, \A i \in 1 .. Len(text) : text[i] # nul,
           NEW o \in Nat, o + n <= Len(text), Holds(array, b, text, o, n)
    PROVE  IsPart(StringAt(array, b), text, o, n)
<1>1. \A i \in 1 .. n : array[b + i] = text[o + i] /\ array[b + i] # nul
  <2>1. \A i \in 1 .. n : o + i \in 1 .. Len(text)
    BY LenProperties DEF Text
  <2> QED
    BY <2>1 DEF Holds
<1> DEFINE line == StringAt(array, b)
           part == SubSeq(text, o + 1, o + n)
<1>2. line \in Text /\ Len(line) = n /\ \A i \in 1 .. n : line[i] = array[b + i]
  BY <1>1, StringIs
<1>3. part \in Text /\ Len(part) = n /\ \A i \in 1 .. n : part[i] = text[o + i]
  BY PartIs
<1> HIDE DEF line, part
<1>4. \A i \in 1 .. n : line[i] = part[i]
  BY <1>1, <1>2, <1>3
<1>5. line = part
  BY <1>2, <1>3, <1>4, SeqEqual DEF Text
<1> QED
  BY <1>5 DEF line, part, IsPart

\* The pattern: it is not empty and has no NUL.
Pattern(s) == s \in Text /\ s # <<>> /\ \A m \in 1 .. Len(s) : s[m] # nul

LEMMA PatternIs ==
    ASSUME NEW s, Pattern(s)
    PROVE  Len(s) \in Nat /\ Len(s) >= 1 /\ s[1] # nul
<1>1. Len(s) \in Nat /\ s \in Seq(Characters)
  BY LenProperties DEF Pattern, Text
<1>2. Len(s) # 0
  BY <1>1, EmptySeq DEF Pattern
<1> QED
  BY <1>1, <1>2 DEF Pattern

\* A line that contains the pattern is found to, wherever the search ends.
LEMMA WithinOccurs ==
    ASSUME NEW s, Pattern(s), NEW array \in Text, NEW text, NEW b \in Nat, NEW o \in Nat,
           NEW n \in Nat, NEW to \in Nat, b + n <= to, b + n < Len(array),
           Holds(array, b, text, o, n), Within(s, text, o, o + n)
    PROVE  Occurs(s, array, b, to)
<1>1. PICK len \in Nat : len = Len(s) /\ len >= 1
  BY PatternIs
<1>2. PICK k \in o .. (o + n) - len : \A m \in 1 .. len : text[k + m] = s[m]
  BY <1>1 DEF Within
<1>3. PICK check \in Nat : check = b + (k - o) /\ check \in b .. to - 1
  BY <1>1, <1>2
<1>4. ASSUME NEW m \in 1 .. len
      PROVE  check + m <= Len(array) /\ array[check + m] = s[m]
  <2>1. PICK i \in 1 .. n : i = (k - o) + m
    BY <1>1, <1>2
  <2>2. array[b + i] = text[o + i] /\ b + i = check + m /\ o + i = k + m
    BY <1>2, <1>3, <2>1 DEF Holds
  <2>3. check + m <= Len(array)
    <3>1. PICK len0 \in Nat : len0 = Len(array)
      BY LenProperties DEF Text
    <3>2. b + i <= len0
      BY <2>1, <3>1
    <3> QED
      BY <2>2, <3>1, <3>2
  <2> QED
    BY <1>2, <2>2, <2>3
<1> QED
  BY <1>1, <1>3, <1>4 DEF Occurs

\* And what is found in a line that nothing but NULs follows is contained in it.
LEMMA OccursWithin ==
    ASSUME NEW s, Pattern(s), NEW array \in Text, NEW text, NEW b \in Nat, NEW o \in Nat,
           NEW n \in Nat, NEW to \in Nat, b + n <= to, b + n < Len(array),
           Holds(array, b, text, o, n), array[b + n + 1] = nul,
           \A i \in b + n + 1 .. to : array[i] = nul, Occurs(s, array, b, to)
    PROVE  Within(s, text, o, o + n)
<1>1. PICK len \in Nat : len = Len(s) /\ len >= 1 /\ s[1] # nul
  BY PatternIs
<1>2. PICK check \in b .. to - 1 :
        \A m \in 1 .. len : check + m <= Len(array) /\ array[check + m] = s[m]
  BY <1>1 DEF Occurs
<1>3. check < b + n
  <2> SUFFICES ASSUME ~(check < b + n) PROVE FALSE
    OBVIOUS
  <2>1. check + 1 \in b + n + 1 .. to
    BY <1>2
  <2>2. array[check + 1] = nul
    BY <2>1
  <2>3. 1 \in 1 .. len
    BY <1>1
  <2>4. array[check + 1] = s[1]
    BY <1>2, <2>3
  <2> QED
    BY <1>1, <2>2, <2>4
<1>4. check + len <= b + n
  <2> SUFFICES ASSUME ~(check + len <= b + n) PROVE FALSE
    OBVIOUS
  <2>1. PICK m \in 1 .. len : check + m = b + n + 1
    <3>1. (b + n + 1) - check \in 1 .. len /\ check + ((b + n + 1) - check) = b + n + 1
      BY <1>2, <1>3
    <3> QED
      BY <3>1
  <2>2. s[m] = nul
    BY <1>2, <2>1
  <2> QED
    BY <1>1, <2>2 DEF Pattern
<1>5. PICK k \in Nat : k = o + (check - b) /\ k \in o .. (o + n) - len
  BY <1>1, <1>2, <1>4
<1>6. ASSUME NEW m \in 1 .. len PROVE text[k + m] = s[m]
  <2>1. PICK i \in 1 .. n : i = (check - b) + m
    BY <1>1, <1>2, <1>4
  <2>2. b + i = check + m /\ o + i = k + m
    BY <1>2, <1>5, <2>1
  <2>3. array[b + i] = text[o + i]
    BY DEF Holds
  <2> QED
    BY <1>2, <2>2, <2>3
<1>7. k \in o .. (o + n) - Len(s)
  BY <1>1, <1>5
<1>8. \A m \in 1 .. Len(s) : text[k + m] = s[m]
  BY <1>1, <1>6
<1> QED
  BY <1>7, <1>8, Zenon DEF Within

\* What grep prints for a line of the buffer is the report of the line.
LEMMA FoundIs ==
    ASSUME NEW s, Pattern(s), NEW fname, NEW array \in Text, NEW b \in Nat, NEW n \in Nat,
           NEW text \in Text, \A i \in 1 .. Len(text) : text[i] # nul,
           NEW o \in Nat, o + n <= Len(text), Holds(array, b, text, o, n),
           NEW to \in Nat, b + n <= to, b + n < Len(array), array[b + n + 1] = nul,
           \A i \in b + n + 1 .. to : array[i] = nul
    PROVE  Found(s, fname, array, b, to) = Reported(s, fname, text, o, o + n)
<1>1. StringAt(array, b) = SubSeq(text, o + 1, o + n)
  BY LineStringIs, SMTT(20) DEF IsPart
<1>2. Occurs(s, array, b, to) <=> Within(s, text, o, o + n)
  BY WithinOccurs, OccursWithin
<1> QED
  BY <1>1, <1>2 DEF Found, Reported

LEMMA LineIs ==
    ASSUME NEW fname \in Text, NEW text \in Text
    PROVE  Line(fname, text) \in Prints
<1>1. fname \in Prints /\ text \in Prints
  BY SeqMonotonic, Characters \subseteq Characters \cup {":"} DEF Prints, Text
<1>2. <<":">> \in Prints /\ <<newline>> \in Prints
  <2>1. ":" \in Characters \cup {":"} /\ newline \in Characters \cup {":"}
    BY DiskConstants
  <2> QED
    BY <2>1 DEF Prints
<1>3. fname \o <<":">> \in Prints
  BY <1>1, <1>2, TwoPrints
<1>4. (fname \o <<":">>) \o text \in Prints
  BY <1>1, <1>3, TwoPrints
<1>5. ((fname \o <<":">>) \o text) \o <<newline>> \in Prints
  BY <1>2, <1>4, TwoPrints
<1> QED
  BY <1>5 DEF Line

LEMMA ReportIs ==
    ASSUME NEW s, NEW fname \in Text, NEW text \in Text,
           NEW from \in Nat, NEW to \in Nat, from <= to, to <= Len(text)
    PROVE  Reported(s, fname, text, from, to) \in Prints /\ SubSeq(text, from + 1, to) \in Text
<1>1. PICK n \in Nat : n = to - from /\ to = from + n
  OBVIOUS
<1>2. SubSeq(text, from + 1, from + n) \in Text
  BY <1>1, PartIs
<1>3. Line(fname, SubSeq(text, from + 1, to)) \in Prints
  BY <1>1, <1>2, LineIs
<1> QED
  BY <1>1, <1>2, <1>3, NoPrint DEF Reported

-----------------------------------------------------------------------------
(* The lines that end in the buffer *)

\* The place of a line's beginning is the only one of its kind.
LEMMA StartIsThere ==
    ASSUME NEW array, NEW n \in Nat, NEW x \in 0 .. n, x # 0 => array[x] = newline,
           \A k \in x + 1 .. n : array[k] # newline
    PROVE  LineStart(array, n) = x
<1>1. PICK y \in 0 .. n : /\ y = LineStart(array, n) /\ (y # 0 => array[y] = newline)
                          /\ \A k \in 1 .. n : array[k] = newline => k <= y
  BY LineStartIs
<1>2. ~(y > x)
  BY <1>1
<1>3. ~(x > y)
  BY <1>1
<1> QED
  BY <1>1, <1>2, <1>3

\* No newline follows a line's beginning.
LEMMA NoneBehind ==
    ASSUME NEW array, NEW n \in Nat
    PROVE  \A k \in LineStart(array, n) + 1 .. n : array[k] # newline
<1>1. PICK y \in 0 .. n : /\ y = LineStart(array, n)
                          /\ \A k \in 1 .. n : array[k] = newline => k <= y
  BY LineStartIs
<1> QED
  BY <1>1

\* A line begins at the same place in the buffer and in the file.
LineBegins(text, off) == off # 0 => text[off] = newline


Shifted(text, array, off, i) ==
    \E y \in 0 .. i : y = LineStart(array, i) /\ LineStart(text, off + i) = off + y

LEMMA StartShift ==
    ASSUME NEW text, NEW array, NEW off \in Nat, LineBegins(text, off), NEW m \in Nat,
           Copies(array, text, off, m), NEW i \in Nat, i <= m
    PROVE  Shifted(text, array, off, i)
<1>1. PICK y \in 0 .. i : /\ y = LineStart(array, i) /\ (y # 0 => array[y] = newline)
                          /\ \A k \in 1 .. i : array[k] = newline => k <= y
  BY LineStartIs
<1>2. \A k \in 1 .. m : array[k] = text[off + k]
  BY DEF Copies
<1>3. PICK x \in 0 .. off + i : x = off + y
  BY <1>1
<1>4. x # 0 => text[x] = newline
  <2>1. CASE y = 0
    BY <1>3, <2>1 DEF LineBegins
  <2>2. CASE y # 0
    <3>1. y \in 1 .. m
      BY <2>2
    <3> QED
      BY <1>1, <1>2, <1>3, <2>2, <3>1
  <2> QED
    BY <2>1, <2>2
<1>5. ASSUME NEW k \in x + 1 .. off + i PROVE text[k] # newline
  <2>1. PICK j \in 1 .. i : j = k - off /\ k = off + j /\ j > y
    BY <1>1, <1>3
  <2>2. j \in 1 .. m
    BY <2>1
  <2> QED
    BY <1>1, <1>2, <2>1, <2>2
<1>6. off + i \in Nat
  OBVIOUS
<1>7. LineStart(text, off + i) = x
  BY <1>4, <1>5, <1>6, StartIsThere
<1> QED
  BY <1>1, <1>3, <1>7 DEF Shifted

LEMMA EndedLinesAre ==
    ASSUME NEW s, NEW fname \in Text, NEW text \in Text, NEW k \in 1 .. Len(text)
    PROVE  /\ EndedLines(s, fname, text)[k] \in Prints
           /\ EndedLines(s, fname, text)[k] =
                IF text[k] = newline THEN Reported(s, fname, text, LineStart(text, k - 1), k - 1)
                ELSE <<>>
<1>1. Len(text) \in Nat /\ k - 1 \in Nat /\ k - 1 <= Len(text)
  BY LenProperties DEF Text
<1>2. LineStart(text, k - 1) \in Nat /\ LineStart(text, k - 1) <= k - 1
  BY <1>1, LineStartIs
<1>3. Reported(s, fname, text, LineStart(text, k - 1), k - 1) \in Prints
  BY <1>1, <1>2, ReportIs
<1> QED
  BY <1>3, NoPrint DEF EndedLines

\* What is printed for the lines that end within the first last bytes.
Parts(s, fname, array, last) ==
    [k \in 1 .. last |->
        IF array[k] = newline
        THEN Found(s, fname, Cut(array, last), LineStart(array, k - 1), k - 1)
        ELSE <<>>]

\* The lines that are searched are cut where they end.
LEMMA CutIs ==
    ASSUME NEW array \in Text, NEW last \in Nat, last < Len(array)
    PROVE  /\ Cut(array, last) \in Text /\ Len(Cut(array, last)) = Len(array)
           /\ \A k \in 1 .. last : array[k] = newline => Cut(array, last)[k] = nul
           /\ \A k \in 1 .. last : array[k] # newline => Cut(array, last)[k] = array[k]
           /\ Unended(array, last) => Cut(array, last)[last + 1] = nul
           /\ Cut(array, last)[last + 1] \in {nul, array[last + 1]}
<1>1. PICK n \in Nat : n = Len(array) /\ DOMAIN array = 1 .. n
  BY LenProperties DEF Text
<1>2. Cut(array, last) =
        [k \in 1 .. n |-> IF \/ k \in 1 .. last /\ array[k] = newline
                             \/ k = last + 1 /\ Unended(array, last) THEN nul ELSE array[k]]
  BY <1>1 DEF Cut
<1>3. last + 1 \in 1 .. n /\ ~(last + 1 \in 1 .. last)
      /\ \A k \in 1 .. last : k \in 1 .. n /\ k # last + 1
  BY <1>1
<1>4. /\ \A k \in 1 .. last : array[k] = newline => Cut(array, last)[k] = nul
      /\ \A k \in 1 .. last : array[k] # newline => Cut(array, last)[k] = array[k]
  BY <1>2, <1>3
<1>5. /\ Unended(array, last) => Cut(array, last)[last + 1] = nul
      /\ Cut(array, last)[last + 1] \in {nul, array[last + 1]}
  BY <1>2, <1>3
<1> QED
  BY <1>4, <1>5, CutFits

LEMMA PartIsLine ==
    ASSUME NEW s, Pattern(s), NEW fname \in Text, NEW array \in Text, NEW last \in Nat,
           last < Len(array),
           NEW text \in Text, \A i \in 1 .. Len(text) : text[i] # nul,
           NEW off \in Nat, LineBegins(text, off), NEW m \in Nat, m <= last, off + m <= Len(text),
           Copies(array, text, off, m), NEW k \in 1 .. m
    PROVE  /\ Parts(s, fname, array, last)[k] = EndedLines(s, fname, text)[off + k]
           /\ off + k \in 1 .. Len(text)
<1>1. PICK len \in Nat : len = Len(text)
  BY LenProperties DEF Text
<1>2. \A j \in 1 .. m : array[j] = text[off + j]
  BY DEF Copies
<1>3. off + k \in 1 .. len /\ k \in 1 .. last /\ k - 1 \in Nat /\ k - 1 \in 0 .. m
  BY <1>1
<1>4. Parts(s, fname, array, last)[k] =
        IF array[k] = newline
        THEN Found(s, fname, Cut(array, last), LineStart(array, k - 1), k - 1) ELSE <<>>
  BY <1>3 DEF Parts
<1>5. EndedLines(s, fname, text)[off + k] =
        IF text[off + k] = newline
        THEN Reported(s, fname, text, LineStart(text, off + k - 1), off + k - 1) ELSE <<>>
  BY <1>1, <1>3, EndedLinesAre
<1>6. CASE array[k] # newline
  BY <1>1, <1>2, <1>3, <1>4, <1>5, <1>6
<1>7. CASE array[k] = newline
  <2>1. PICK b \in 0 .. k - 1 : b = LineStart(array, k - 1)
    BY <1>3, LineStartIs
  <2>2. \A j \in b + 1 .. k - 1 : array[j] # newline
    BY <1>3, <2>1, NoneBehind
  <2>3. LineStart(text, off + (k - 1)) = off + b
    <3>1. PICK i \in Nat : i = k - 1 /\ i <= m
      BY <1>3
    <3>2. PICK y \in 0 .. i : y = LineStart(array, i) /\ LineStart(text, off + i) = off + y
      <4>1. Shifted(text, array, off, i)
        BY <3>1, StartShift
      <4> QED
        BY <4>1 DEF Shifted
    <3> QED
      BY <2>1, <3>1, <3>2
  <2>4. PICK cut \in Text : cut = Cut(array, last) /\ Len(cut) = Len(array)
    BY CutIs
  <2>5. /\ cut[k] = nul
        /\ \A j \in b + 1 .. k - 1 : cut[j] = array[j]
    <3>1. \A j \in b + 1 .. k - 1 : j \in 1 .. last
      OBVIOUS
    <3> QED
      BY <1>3, <1>7, <2>2, <2>4, <3>1, CutIs
  <2>6. PICK n \in Nat, o \in Nat : n = (k - 1) - b /\ o = off + b
    BY <1>3
  <2>7. Holds(cut, b, text, o, n)
    <3> SUFFICES ASSUME NEW i \in 1 .. n PROVE cut[b + i] = text[o + i]
      BY DEF Holds
    <3>1. b + i \in b + 1 .. k - 1 /\ b + i \in 1 .. m /\ o + i = off + (b + i)
      BY <2>6
    <3> QED
      BY <1>2, <2>5, <3>1
  <2>8. /\ o + n <= Len(text) /\ b + n <= k - 1 /\ b + n < Len(cut) /\ cut[b + n + 1] = nul
        /\ o + n = off + (k - 1) /\ b \in Nat
    <3>1. b + n + 1 = k /\ b + n = k - 1 /\ o + n = off + (k - 1) /\ b \in Nat
      BY <2>6
    <3>2. PICK size \in Nat : size = Len(array)
      BY LenProperties DEF Text
    <3> QED
      BY <1>1, <1>3, <2>4, <2>5, <3>1, <3>2
  <2>9. \A i \in b + n + 1 .. k - 1 : cut[i] = nul
    BY <2>6
  <2>10. Found(s, fname, cut, b, k - 1) = Reported(s, fname, text, o, o + n)
    BY <1>3, <2>7, <2>8, <2>9, FoundIs, SMTT(30)
  <2>11. off + k - 1 = off + (k - 1)
    BY <1>3
  <2> QED
    BY <1>1, <1>2, <1>3, <1>4, <1>5, <1>7, <2>1, <2>3, <2>4, <2>6, <2>8, <2>10, <2>11
<1> QED
  BY <1>6, <1>7

NothingBehind(q, m, last) == \A k \in m + 1 .. last : q[k] = <<>>

LEMMA JointPadded ==
    ASSUME NEW p, NEW q, NEW off \in Nat, NEW m \in Nat, NEW last \in Nat, m <= last,
           AllPrints(p, off, m), Copies(q, p, off, m), NothingBehind(q, m, last)
    PROVE  Adding(p, q, off, m, last)
<1>0. /\ \A k \in 1 .. off + m : p[k] \in Prints
      /\ \A k \in 1 .. m : q[k] = p[off + k]
      /\ \A k \in m + 1 .. last : q[k] = <<>>
  BY DEF AllPrints, Copies, NothingBehind
<1>1. Adding(p, q, off, m, m)
  BY JointSplit
<1>2. PICK b \in Nat : b = last - m /\ m + b = last
  OBVIOUS
<1> DEFINE r == [i \in 1 .. b |-> q[m + i]]
<1>3. \A k \in 1 .. b : r[k] = q[m + k]
  OBVIOUS
<1>4. \A k \in 1 .. b : r[k] = <<>>
  <2>1. \A k \in 1 .. b : m + k \in m + 1 .. last
    BY <1>2
  <2> QED
    BY <1>0, <1>3, <2>1
<1>5. \A k \in 1 .. m + b : q[k] \in Prints
  <2> SUFFICES ASSUME NEW k \in 1 .. m + b PROVE q[k] \in Prints
    OBVIOUS
  <2>1. CASE k <= m
    <3>1. k \in 1 .. m /\ off + k \in 1 .. off + m
      BY <2>1
    <3> QED
      BY <1>0, <3>1
  <2>2. CASE ~(k <= m)
    <3>1. k \in m + 1 .. last
      BY <1>2, <2>2
    <3> QED
      BY <1>0, <3>1, NoPrint
  <2> QED
    BY <2>1, <2>2
<1> HIDE DEF r
<1>6. Joint(q, m + b) = Joint(q, m) \o Joint(r, b)
  <2>1. AllPrints(q, m, b) /\ Copies(r, q, m, b)
    BY <1>3, <1>5 DEF AllPrints, Copies
  <2>2. Adding(q, r, m, b, b)
    BY <2>1, JointSplit
  <2> QED
    BY <2>2 DEF Adding
<1>7. Joint(r, b) = <<>>
  BY <1>4, JointEmpty
<1>8. Joint(q, m) \o <<>> = Joint(q, m)
  BY <1>1, NoPrint DEF Adding
<1> QED
  BY <1>1, <1>2, <1>6, <1>7, <1>8 DEF Adding

\* What the ended lines of the buffer add to what was printed of the file.
LEMMA PartsAdd ==
    ASSUME NEW s, Pattern(s), NEW fname \in Text, NEW array \in Text, NEW last \in Nat,
           last < Len(array),
           NEW text \in Text, \A i \in 1 .. Len(text) : text[i] # nul,
           NEW off \in Nat, LineBegins(text, off), NEW m \in Nat, m <= last, off + m <= Len(text),
           Copies(array, text, off, m),
           \A i \in m + 1 .. last : array[i] # newline
    PROVE  Adding(EndedLines(s, fname, text), Parts(s, fname, array, last), off, m, last)
<1>1. PICK p : p = EndedLines(s, fname, text)
  OBVIOUS
<1>2. PICK q : q = Parts(s, fname, array, last)
  OBVIOUS
<1>3. m \in Nat /\ Len(text) \in Nat
  BY LenProperties DEF Text
<1>4. \A k \in 1 .. off + m : p[k] \in Prints
  BY <1>1, <1>3, EndedLinesAre, SMTT(20)
<1>5. \A k \in 1 .. m : q[k] = p[off + k]
  BY <1>1, <1>2, PartIsLine
<1>6. \A k \in m + 1 .. last : q[k] = <<>>
  <2>1. \A k \in m + 1 .. last : k \in 1 .. last
    BY <1>3
  <2> QED
    BY <1>2, <2>1 DEF Parts
<1>7. AllPrints(p, off, m) /\ Copies(q, p, off, m) /\ NothingBehind(q, m, last)
  BY <1>4, <1>5, <1>6 DEF AllPrints, Copies, NothingBehind
<1>8. Adding(p, q, off, m, last)
  BY <1>7, JointPadded
<1> QED
  BY <1>1, <1>2, <1>8

-----------------------------------------------------------------------------
(* What a read puts behind what is left of the last one *)

LEMMA PutIs ==
    ASSUME NEW array \in Text, NEW from \in Nat, NEW bytes \in Text,
           from + Len(bytes) <= Len(array)
    PROVE  /\ Put(array, from, bytes) \in Text /\ Len(Put(array, from, bytes)) = Len(array)
           /\ \A i \in 1 .. from : Put(array, from, bytes)[i] = array[i]
           /\ \A i \in 1 .. Len(bytes) : Put(array, from, bytes)[from + i] = bytes[i]
           /\ \A i \in from + Len(bytes) + 1 .. Len(array) :
                 Put(array, from, bytes)[i] = array[i]
<1>1. PICK n \in Nat, m \in Nat : n = Len(array) /\ m = Len(bytes)
  BY LenProperties DEF Text
<1>2. from + m <= n /\ from <= Len(array)
  BY <1>1
<1> DEFINE s == SubSeq(array, 1, from)
           u == SubSeq(array, from + m + 1, n)
<1>3. s \in Text /\ Len(s) = from /\ \A i \in 1 .. from : s[i] = array[i]
  <2>1. PICK zero \in Nat : zero = 0
    OBVIOUS
  <2>2. zero + from <= Len(array) /\ zero + 1 = 1 /\ zero + from = from
    BY <1>2, <2>1
  <2>3. /\ SubSeq(array, zero + 1, zero + from) \in Text
        /\ Len(SubSeq(array, zero + 1, zero + from)) = from
        /\ \A k \in 1 .. from : SubSeq(array, zero + 1, zero + from)[k] = array[zero + k]
    BY <2>2, PartIs
  <2>4. \A k \in 1 .. from : zero + k = k
    BY <2>1
  <2> QED
    BY <2>2, <2>3, <2>4
<1>4. /\ u \in Text /\ Len(u) = n - (from + m)
      /\ \A i \in 1 .. n - (from + m) : u[i] = array[(from + m) + i]
  <2>1. PICK a \in Nat, b \in Nat : a = from + m /\ b = n - (from + m) /\ a + b = n
    BY <1>2
  <2>2. a + b <= Len(array)
    BY <1>1, <2>1
  <2>3. /\ SubSeq(array, a + 1, a + b) \in Text /\ Len(SubSeq(array, a + 1, a + b)) = b
        /\ \A k \in 1 .. b : SubSeq(array, a + 1, a + b)[k] = array[a + k]
    BY <2>2, PartIs
  <2>4. SubSeq(array, a + 1, a + b) = u
    BY <2>1
  <2> QED
    BY <2>1, <2>3, <2>4
<1>5. Put(array, from, bytes) = s \o bytes \o u
  BY <1>1 DEF Put
<1> HIDE DEF s, u
<1> DEFINE sb == s \o bytes
<1>6. /\ sb \in Text /\ Len(sb) = from + m
      /\ \A i \in 1 .. from + m : sb[i] = IF i <= from THEN s[i] ELSE bytes[i - from]
  BY <1>1, <1>3, ConcatProperties DEF Text
<1> HIDE DEF sb
<1> DEFINE put == sb \o u
<1>7. /\ put \in Text /\ Len(put) = n
      /\ \A i \in 1 .. n : put[i] = IF i <= from + m THEN sb[i] ELSE u[i - (from + m)]
  <2>0. sb \in Seq(Characters) /\ u \in Seq(Characters)
    BY <1>4, <1>6 DEF Text
  <2>1. /\ put \in Text /\ Len(put) = Len(sb) + Len(u)
        /\ \A i \in 1 .. Len(sb) + Len(u) :
              put[i] = IF i <= Len(sb) THEN sb[i] ELSE u[i - Len(sb)]
    BY <2>0, ConcatProperties DEF Text
  <2>2. Len(sb) + Len(u) = n
    BY <1>2, <1>4, <1>6
  <2> QED
    BY <1>6, <2>1, <2>2
<1>8. put = Put(array, from, bytes)
  BY <1>5 DEF put, sb
<1> HIDE DEF put
<1>9. \A i \in 1 .. from : put[i] = array[i]
  <2>1. \A i \in 1 .. from : i \in 1 .. n /\ i \in 1 .. from + m /\ i <= from + m /\ i <= from
    BY <1>2
  <2> QED
    BY <1>3, <1>6, <1>7, <2>1
<1>10. \A i \in 1 .. m : put[from + i] = bytes[i]
  <2>1. \A i \in 1 .. m : /\ from + i \in 1 .. n /\ from + i \in 1 .. from + m
                          /\ from + i <= from + m /\ ~(from + i <= from) /\ (from + i) - from = i
    BY <1>2
  <2> QED
    BY <1>6, <1>7, <2>1
<1>11. \A i \in from + m + 1 .. n : put[i] = array[i]
  <2> SUFFICES ASSUME NEW i \in from + m + 1 .. n PROVE put[i] = array[i]
    OBVIOUS
  <2>1. PICK j \in 1 .. n - (from + m) : j = i - (from + m) /\ (from + m) + j = i
    BY <1>2
  <2>2. put[i] = u[i - (from + m)]
    BY <1>2, <1>7
  <2> QED
    BY <1>4, <2>1, <2>2
<1> QED
  BY <1>1, <1>7, <1>8, <1>9, <1>10, <1>11

\* A read of a file copies the bytes that follow, as far as the file and the
\* request go, and NULs for the others.
FileReads(r, text, pos, n, got) ==
    /\ r.fd.file_position = pos + got
    /\ r.returned = IF pos = Len(text) THEN 0 ELSE n
    /\ r.buf \in Text /\ Len(r.buf) = n
    /\ \A i \in 1 .. got : r.buf[i] = text[pos + i]
    /\ \A i \in got + 1 .. n : r.buf[i] = nul
    /\ got <= n /\ pos + got <= Len(text) /\ (got = n \/ pos + got = Len(text))

LEMMA FileReadIs ==
    ASSUME NEW fd \in Fds, Stands(fd), fd.file_type = REGULAR_FILE_TYPE, NEW n \in Nat \ {0}
    PROVE  /\ read(fd, n).fd.file_type = fd.file_type /\ read(fd, n).fd.inode = fd.inode
           /\ \E got \in Nat :
                 FileReads(read(fd, n), Contents(fd.inode), fd.file_position, n, got)
<1>1. PICK i \in DOMAIN inodes, p \in Nat, L \in Nat :
        i = fd.inode /\ p = fd.file_position /\ L = inodes[i].length /\ p <= L
  <2>1. fd.inode \in DOMAIN inodes /\ fd.file_position \in 0 .. inodes[fd.inode].length
    BY DEF Stands, Size, REGULAR_FILE_TYPE, DIRECTORY_FILE_TYPE
  <2> QED
    BY <2>1, DiskConstants
<1>2. PICK bytes \in Text, m \in Nat :
        /\ bytes = read_data(i, p, n) /\ bytes = Slice(i, p, n) /\ Len(bytes) = m
        /\ m = Left(i, p, n) /\ m <= n /\ p + m <= L
  <2>1. n \in Nat
    OBVIOUS
  <2>2. /\ read_data(i, p, n) \in Text /\ Len(read_data(i, p, n)) = Left(i, p, n)
        /\ Left(i, p, n) \in 0 .. n /\ p + Left(i, p, n) <= inodes[i].length
    <3>1. i \in DOMAIN inodes /\ p \in Nat /\ n \in Nat /\ p <= inodes[i].length
      BY <1>1, <2>1
    <3>2. /\ read_data(i, p, n) \in Text /\ Len(read_data(i, p, n)) = Left(i, p, n)
          /\ Left(i, p, n) \in 0 .. n
      BY <3>1, ReadFacts
    <3>3. p + Left(i, p, n) <= inodes[i].length
      BY <3>1, ReadFacts
    <3> QED
      BY <3>2, <3>3
  <2>3. read_data(i, p, n) = Slice(i, p, n)
    BY <1>1, ReadIsSlice
  <2>4. PICK m \in Nat : m = Left(i, p, n) /\ m <= n
    BY <2>2
  <2> QED
    BY <1>1, <2>2, <2>3, <2>4
<1> DEFINE r == read(fd, n)
           text == Contents(i)
<1>3. /\ r.buf = Filled(bytes, n)
      /\ r.fd = [fd EXCEPT !.file_position = @ + m]
      /\ r.returned = IF bytes = <<>> THEN 0 ELSE n
  BY <1>1, <1>2
  DEF read, file_read, Advanced, Returned, REGULAR_FILE_TYPE, DIRECTORY_FILE_TYPE, RTC_FILE_TYPE
<1>4. PICK after \in Fds : /\ after = [fd EXCEPT !.file_position = @ + m]
                           /\ after.file_type = fd.file_type /\ after.inode = fd.inode
                           /\ after.file_position = fd.file_position + m
  BY MovedOn
<1>5. m = IF p >= L THEN 0 ELSE Least(n, L - p)
  BY <1>1, <1>2 DEF Left
<1>6. /\ bytes = <<>> <=> m = 0
      /\ m = n \/ p + m = L
      /\ m = 0 <=> p = L
  <2>1. bytes = <<>> <=> m = 0
    BY <1>2, EmptySeq DEF Text
  <2> QED
    BY <1>1, <1>5, <2>1 DEF Least
<1>7. text \in Text /\ Len(text) = L
  BY <1>1, ContentsIs
<1>8. \A k \in 1 .. m : bytes[k] = text[p + k]
  BY <1>2 DEF Slice
<1>9. /\ Filled(bytes, n) \in Text /\ Len(Filled(bytes, n)) = n
      /\ \A k \in 1 .. m : Filled(bytes, n)[k] = bytes[k]
      /\ \A k \in m + 1 .. n : Filled(bytes, n)[k] = nul
  BY <1>2, FilledIs
<1> HIDE DEF r, text
<1>10. FileReads(r, text, p, n, m)
  <2>1. r.fd.file_position = p + m /\ r.returned = IF p = Len(text) THEN 0 ELSE n
    BY <1>1, <1>3, <1>4, <1>6, <1>7
  <2>2. /\ r.buf \in Text /\ Len(r.buf) = n
        /\ \A k \in 1 .. m : r.buf[k] = text[p + k]
        /\ \A k \in m + 1 .. n : r.buf[k] = nul
    BY <1>3, <1>8, <1>9
  <2>3. m <= n /\ p + m <= Len(text) /\ (m = n \/ p + m = Len(text))
    BY <1>2, <1>6, <1>7
  <2> QED
    BY <2>1, <2>2, <2>3 DEF FileReads
<1>11. r.fd.file_type = fd.file_type /\ r.fd.inode = fd.inode
  BY <1>3, <1>4
<1> QED
  BY <1>1, <1>10, <1>11 DEF r, text

\* The buffer after a read: the bytes that were left, those that were found,
\* NULs, and the byte behind that no read reaches.
ReadInto(held, last, text, pos, got, array) ==
    /\ pos + got <= Len(text) /\ last + got <= BUFSIZE
    /\ last + got = BUFSIZE \/ pos + got = Len(text)
    /\ \A i \in 1 .. last : array[i] = held[i]
    /\ \A i \in 1 .. got : array[last + i] = text[pos + i]
    /\ \A i \in last + got + 1 .. BUFSIZE : array[i] = nul
    /\ array[BUFSIZE + 1] = held[BUFSIZE + 1]

LEMMA BufferRead ==
    ASSUME NEW held \in Text, Len(held) = BUFSIZE + 1, NEW last \in 0 .. BUFSIZE - 1,
           NEW text, NEW pos \in Nat, NEW got \in Nat,
           NEW r, FileReads(r, text, pos, BUFSIZE - last, got),
           NEW array, array = Put(held, last, r.buf)
    PROVE  /\ array \in Text /\ Len(array) = BUFSIZE + 1
           /\ ReadInto(held, last, text, pos, got, array)
<1>1. BUFSIZE \in Nat
  BY ProgramConstants
<1>2. PICK n \in Nat : n = BUFSIZE - last /\ last + n = BUFSIZE
  BY <1>1
<1>3. PICK buf \in Text : buf = r.buf
  BY DEF FileReads
<1>4. Len(buf) = n
  BY <1>2, <1>3 DEF FileReads
<1>5. last \in Nat /\ last + Len(buf) <= Len(held)
  BY <1>1, <1>2, <1>4
<1>6. /\ array \in Text /\ Len(array) = Len(held)
      /\ \A i \in 1 .. last : array[i] = held[i]
      /\ \A i \in 1 .. Len(buf) : array[last + i] = buf[i]
      /\ \A i \in last + Len(buf) + 1 .. Len(held) : array[i] = held[i]
  BY <1>3, <1>5, PutIs, SMTT(20)
<1>7. /\ got <= n /\ pos + got <= Len(text) /\ (got = n \/ pos + got = Len(text))
      /\ \A i \in 1 .. got : buf[i] = text[pos + i]
      /\ \A i \in got + 1 .. n : buf[i] = nul
  BY <1>2, <1>3 DEF FileReads
<1>8. \A i \in 1 .. got : array[last + i] = text[pos + i]
  BY <1>4, <1>6, <1>7
<1>9. ASSUME NEW i \in last + got + 1 .. BUFSIZE PROVE array[i] = nul
  <2>1. PICK j \in got + 1 .. n : j = i - last /\ i = last + j
    BY <1>2
  <2>2. j \in 1 .. Len(buf)
    BY <1>4, <2>1
  <2> QED
    BY <1>6, <1>7, <2>1, <2>2
<1>10. array[BUFSIZE + 1] = held[BUFSIZE + 1]
  <2>1. BUFSIZE + 1 \in last + Len(buf) + 1 .. Len(held)
    BY <1>1, <1>2, <1>4
  <2> QED
    BY <1>6, <2>1
<1> QED
  BY <1>1, <1>2, <1>6, <1>7, <1>8, <1>9, <1>10 DEF ReadInto

-----------------------------------------------------------------------------
(* What is printed after a read *)

LEMMA MatchesAre ==
    ASSUME NEW s, NEW fname, NEW array, NEW last, NEW cnt
    PROVE  Matches(s, fname, array, last, cnt) =
             IF Unended(array, last) /\ ~GoesOn(array, last, cnt)
             THEN Joint(Parts(s, fname, array, last), last)
                    \o Found(s, fname, Cut(array, last), LineStart(array, last), last)
             ELSE Joint(Parts(s, fname, array, last), last)
BY DEF Matches, Parts

LEMMA FoundPrints ==
    ASSUME NEW s, NEW fname \in Text, NEW array \in Text, NEW from \in Nat, from <= Len(array), NEW to
    PROVE  Found(s, fname, array, from, to) \in Prints
<1>1. PICK n \in Nat, l \in Nat : l = Len(array) /\ from + n = l
  <2>1. Len(array) \in Nat
    BY LenProperties DEF Text
  <2>2. PICK l \in Nat : l = Len(array)
    BY <2>1
  <2>3. l - from \in Nat /\ from + (l - from) = l
    BY <2>2
  <2> QED
    BY <2>2, <2>3
<1>2. SubSeq(array, from + 1, from + n) \in Text
  BY <1>1, PartIs
<1>3. StringAt(array, from) \in Text
  BY <1>1, <1>2, CStringIs DEF StringAt
<1>4. Line(fname, StringAt(array, from)) \in Prints
  BY <1>3, LineIs
<1> QED
  BY <1>4, NoPrint DEF Found

LEMMA MatchesPrint ==
    ASSUME NEW s, NEW fname \in Text, NEW array \in Text, NEW last \in Nat, last < Len(array), NEW cnt
    PROVE  Matches(s, fname, array, last, cnt) \in Prints
<1>1. PICK cut \in Text : cut = Cut(array, last) /\ Len(cut) = Len(array)
  BY CutIs
<1>2. \A k \in 1 .. last : Parts(s, fname, array, last)[k] \in Prints
  <2> SUFFICES ASSUME NEW k \in 1 .. last PROVE Parts(s, fname, array, last)[k] \in Prints
    OBVIOUS
  <2>1. PICK j \in Nat : j = k - 1
    OBVIOUS
  <2>2. LineStart(array, j) \in 0 .. j
    BY LineStartIs
  <2>3. PICK x \in Nat : x = LineStart(array, j) /\ x <= j
    BY <2>2
  <2>4. Len(cut) \in Nat
    BY LenProperties DEF Text
  <2>5. x <= Len(cut)
    BY <1>1, <2>1, <2>3, <2>4
  <2>6. Found(s, fname, cut, x, j) \in Prints
    BY <2>5, FoundPrints
  <2>7. Parts(s, fname, array, last)[k] =
          IF array[k] = newline THEN Found(s, fname, cut, x, j) ELSE <<>>
    BY <1>1, <2>1, <2>3 DEF Parts
  <2> QED
    BY <2>6, <2>7, NoPrint
<1>3. Joint(Parts(s, fname, array, last), last) \in Prints
  BY <1>2, JointSame
<1>4. Found(s, fname, cut, LineStart(array, last), last) \in Prints
  <2>1. LineStart(array, last) \in 0 .. last
    BY LineStartIs
  <2>2. PICK x \in Nat : x = LineStart(array, last) /\ x <= last
    BY <2>1
  <2>3. Len(cut) \in Nat
    BY LenProperties DEF Text
  <2>4. x <= Len(cut)
    BY <1>1, <2>2, <2>3
  <2> QED
    BY <2>2, <2>4, FoundPrints
<1> QED
  BY <1>1, <1>3, <1>4, MatchesAre, TwoPrints

\* The program, the file and what it holds.
Greps(s, fname, text) ==
    /\ Pattern(s) /\ fname \in Text /\ text \in Text
    /\ \A i \in 1 .. Len(text) : text[i] # nul

\* All that is printed for it, and that with its last piece once for nothing.
WholeText(s, fname, text) ==
    LET start == LineStart(text, Len(text))
    IN  Joint(EndedLines(s, fname, text), Len(text))
            \o Reported(s, fname, text, start, Len(text))
OneMore(s, fname, text) ==
    LET start == LineStart(text, Len(text))
    IN  Joint(EndedLines(s, fname, text), Len(text))
            \o Line(fname, SubSeq(text, start + 1, Len(text)))

Makes(u, v, w) == u \o v = w

\* When nothing is kept for the next read, the last line has been searched too.
LEMMA SearchedAll ==
    ASSUME NEW s, NEW fname, NEW text, Greps(s, fname, text), NEW array \in Text,
           NEW off \in Nat, LineBegins(text, off), NEW m \in Nat, NEW last \in Nat,
           m <= last, last < Len(array), off + m = Len(text), Copies(array, text, off, m),
           \A i \in m + 1 .. last : array[i] = nul,
           Unended(array, last), NEW cnt, ~GoesOn(array, last, cnt)
    PROVE  Makes(Joint(EndedLines(s, fname, text), off), Matches(s, fname, array, last, cnt),
                 WholeText(s, fname, text))
<1>1. Pattern(s) /\ fname \in Text /\ text \in Text /\ \A i \in 1 .. Len(text) : text[i] # nul
  BY DEF Greps
<1>2. PICK L \in Nat : L = Len(text) /\ off + m = L
  BY <1>1, LenProperties DEF Text
<1>3. \A i \in m + 1 .. last : array[i] # newline
  BY DEF nul, newline
<1>4. PICK cut \in Text : cut = Cut(array, last) /\ Len(cut) = Len(array)
  BY CutIs
<1>5. /\ \A k \in 1 .. last : array[k] # newline => cut[k] = array[k]
      /\ cut[last + 1] = nul
  BY <1>4, CutIs
<1> DEFINE E == EndedLines(s, fname, text)
           P == Parts(s, fname, array, last)
<1>6. Adding(E, P, off, m, last)
  BY <1>1, <1>3, <1>2, PartsAdd
<1>7. Joint(E, L) = Joint(E, off) \o Joint(P, last) /\ Joint(E, off) \in Prints /\ Joint(P, last) \in Prints
  BY <1>2, <1>6 DEF Adding
<1>8. PICK b \in Nat : b = LineStart(array, last) /\ b <= m /\ LineStart(text, L) = off + b
  <2>1. PICK x \in Nat : x = LineStart(array, m) /\ x <= m /\ LineStart(text, off + m) = off + x
    <3>1. Shifted(text, array, off, m)
      BY StartShift
    <3> QED
      BY <3>1 DEF Shifted
  <2>2. x \in 0 .. last
    BY <2>1
  <2>3. x # 0 => array[x] = newline
    BY <2>1, LineStartIs
  <2>4. \A k \in x + 1 .. last : array[k] # newline
    <3> SUFFICES ASSUME NEW k \in x + 1 .. last PROVE array[k] # newline
      OBVIOUS
    <3>1. CASE k <= m
      BY <2>1, <3>1, NoneBehind
    <3>2. CASE ~(k <= m)
      BY <1>3, <3>2
    <3> QED
      BY <3>1, <3>2
  <2>5. LineStart(array, last) = x
    BY <2>2, <2>3, <2>4, StartIsThere
  <2> QED
    BY <1>2, <2>1, <2>5
<1>9. PICK n \in Nat, o \in Nat : n = m - b /\ b + n = m /\ o = off + b /\ o + n = L
  BY <1>2, <1>8, SMTT(30)
<1>10. Holds(cut, b, text, o, n)
  <2> SUFFICES ASSUME NEW i \in 1 .. n PROVE cut[b + i] = text[o + i]
    BY DEF Holds
  <2>1. PICK j \in 1 .. m : j = b + i /\ j \in b + 1 .. last /\ off + j = o + i
    BY <1>9
  <2>2. array[j] # newline
    BY <1>8, <2>1, NoneBehind
  <2>3. cut[j] = array[j]
    BY <1>5, <2>1, <2>2
  <2>4. array[j] = text[off + j]
    BY <2>1 DEF Copies
  <2> QED
    BY <2>1, <2>3, <2>4
<1>11. \A i \in m + 1 .. last : cut[i] = nul
  BY <1>3, <1>5
<1>12. cut[m + 1] = nul
  <2>1. CASE m = last
    BY <1>5, <2>1
  <2>2. CASE m # last
    <3>1. m + 1 \in m + 1 .. last
      BY <2>2
    <3> QED
      BY <1>11, <3>1
  <2> QED
    BY <2>1, <2>2
<1>13. Found(s, fname, cut, b, last) = Reported(s, fname, text, o, o + n)
  <2>1. b + n <= last /\ b + n < Len(cut) /\ o + n <= Len(text) /\ b + n = m
    BY <1>2, <1>4, <1>9, LenProperties DEF Text
  <2>2. cut[b + n + 1] = nul /\ \A i \in b + n + 1 .. last : cut[i] = nul
    BY <1>11, <1>12, <2>1
  <2> QED
    BY <1>1, <1>10, <2>1, <2>2, FoundIs, SMTT(20)
<1>14. Reported(s, fname, text, o, L) \in Prints
  BY <1>1, <1>2, <1>9, ReportIs
<1>15. WholeText(s, fname, text) = Joint(E, L) \o Reported(s, fname, text, o, L)
  BY <1>2, <1>8, <1>9 DEF WholeText
<1>16. Matches(s, fname, array, last, cnt) = Joint(P, last) \o Reported(s, fname, text, o, L)
  BY <1>4, <1>8, <1>9, <1>13, MatchesAre
<1>17. (Joint(E, off) \o Joint(P, last)) \o Reported(s, fname, text, o, L)
         = Joint(E, off) \o (Joint(P, last) \o Reported(s, fname, text, o, L))
  BY <1>7, <1>14, ThreePrints
<1> QED
  BY <1>7, <1>15, <1>16, <1>17 DEF Makes

-----------------------------------------------------------------------------
(* What is kept for the next read *)

\* The string that strcpy moves to the front, its NUL, and what is behind.
Moved(cut, str, front) ==
    /\ \A i \in 1 .. Len(str) : front[i] = str[i]
    /\ front[Len(str) + 1] = nul
    /\ \A i \in Len(str) + 2 .. BUFSIZE + 1 : front[i] = cut[i]

LEMMA StringEnds ==
    ASSUME NEW array \in Text, NEW b \in Nat, NEW l \in Nat, l = Len(array), b < l, array[l] = nul
    PROVE  /\ StringAt(array, b) \in Text
           /\ \E n \in Nat : n = Len(StringAt(array, b)) /\ b + n < l
<1>1. PICK n \in Nat : b + n = l
  <2>1. l - b \in Nat /\ b + (l - b) = l
    OBVIOUS
  <2> QED
    BY <2>1
<1>2. PICK tail \in Text : /\ tail = SubSeq(array, b + 1, b + n) /\ Len(tail) = n
                           /\ \A i \in 1 .. n : tail[i] = array[b + i]
  <2>1. b + n <= Len(array)
    BY <1>1
  <2>2. /\ SubSeq(array, b + 1, b + n) \in Text /\ Len(SubSeq(array, b + 1, b + n)) = n
        /\ \A i \in 1 .. n : SubSeq(array, b + 1, b + n)[i] = array[b + i]
    BY <2>1, PartIs
  <2> QED
    BY <2>2
<1>3. PICK k \in 1 .. n + 1 :
        /\ CString(tail) \in Text /\ Len(CString(tail)) = k - 1
        /\ \A i \in 1 .. k - 1 : tail[i] # nul
  BY <1>2, CStringIs
<1>4. n \in 1 .. n /\ tail[n] = nul
  BY <1>1, <1>2
<1>5. k # n + 1
  BY <1>3, <1>4
<1>6. CString(tail) = StringAt(array, b)
  BY <1>1, <1>2 DEF StringAt
<1>7. k - 1 \in Nat /\ b + (k - 1) < l
  BY <1>1, <1>5
<1> QED
  BY <1>3, <1>6, <1>7

LEMMA PutFront ==
    ASSUME NEW array \in Text, Len(array) = BUFSIZE + 1, NEW str \in Text, Len(str) < BUFSIZE
    PROVE  /\ Put(array, 0, Append(str, nul)) \in Text
           /\ Len(Put(array, 0, Append(str, nul))) = BUFSIZE + 1
           /\ Moved(array, str, Put(array, 0, Append(str, nul)))
<1>1. PICK n \in Nat : n = Len(str) /\ n < BUFSIZE /\ BUFSIZE \in Nat
  BY LenProperties, ProgramConstants DEF Text
<1>2. PICK bytes \in Text : /\ bytes = Append(str, nul) /\ Len(bytes) = n + 1
                            /\ \A i \in 1 .. n : bytes[i] = str[i]
                            /\ bytes[n + 1] = nul
  <2>1. nul \in Characters /\ str \in Seq(Characters)
    BY DiskConstants DEF Text
  <2>2. /\ Append(str, nul) \in Seq(Characters) /\ Len(Append(str, nul)) = Len(str) + 1
        /\ \A i \in 1 .. Len(str) : Append(str, nul)[i] = str[i]
        /\ Append(str, nul)[Len(str) + 1] = nul
    BY <2>1, AppendProperties
  <2> QED
    BY <1>1, <2>2 DEF Text
<1>3. PICK zero \in Nat : zero = 0
  OBVIOUS
<1>4. zero + Len(bytes) <= Len(array)
  BY <1>1, <1>2, <1>3
<1>5. PICK put \in Text :
        /\ put = Put(array, zero, bytes) /\ Len(put) = Len(array)
        /\ \A i \in 1 .. Len(bytes) : put[zero + i] = bytes[i]
        /\ \A i \in zero + Len(bytes) + 1 .. Len(array) : put[i] = array[i]
  BY <1>4, PutIs
<1>6. put = Put(array, 0, Append(str, nul))
  BY <1>2, <1>3, <1>5
<1>7. \A i \in 1 .. n + 1 : put[i] = bytes[i]
  <2>1. \A i \in 1 .. n + 1 : zero + i = i
    BY <1>3
  <2> QED
    BY <1>2, <1>5, <2>1
<1>8. Moved(array, str, put)
  <2>1. \A i \in 1 .. n : put[i] = str[i]
    BY <1>2, <1>7
  <2>2. put[n + 1] = nul
    BY <1>2, <1>7
  <2>3. \A i \in n + 2 .. BUFSIZE + 1 : put[i] = array[i]
    BY <1>1, <1>2, <1>3, <1>5
  <2> QED
    BY <1>1, <2>1, <2>2, <2>3 DEF Moved
<1> QED
  BY <1>5, <1>6, <1>8

LEMMA KeptIs ==
    ASSUME NEW array \in Text, Len(array) = BUFSIZE + 1, NEW cnt, GoesOn(array, BUFSIZE, cnt)
    PROVE  \E b \in 1 .. BUFSIZE - 1, str \in Text, front \in Text :
              /\ b = LineStart(array, BUFSIZE) /\ str = StringAt(Cut(array, BUFSIZE), b)
              /\ Len(str) < BUFSIZE
              /\ Kept(array, BUFSIZE, cnt).data = front
              /\ Kept(array, BUFSIZE, cnt).last = BUFSIZE - b
              /\ Len(front) = BUFSIZE + 1 /\ Moved(Cut(array, BUFSIZE), str, front)
<1>1. BUFSIZE \in Nat /\ BUFSIZE >= 1 /\ BUFSIZE < Len(array)
  BY ProgramConstants, DiskConstants
<1>2. PICK b \in 1 .. BUFSIZE - 1 : b = LineStart(array, BUFSIZE)
  <2>1. LineStart(array, BUFSIZE) \in 0 .. BUFSIZE /\ LineStart(array, BUFSIZE) # 0
        /\ array[LineStart(array, BUFSIZE)] = newline
    BY <1>1, LineStartIs DEF GoesOn
  <2>2. array[BUFSIZE] # newline
    BY <1>1 DEF GoesOn, Unended
  <2> QED
    BY <1>1, <2>1, <2>2
<1>3. PICK cut \in Text : /\ cut = Cut(array, BUFSIZE) /\ Len(cut) = BUFSIZE + 1
                          /\ cut[BUFSIZE + 1] = nul
  BY <1>1, CutIs DEF GoesOn
<1>4. PICK str \in Text : str = StringAt(cut, b) /\ Len(str) < BUFSIZE
  <2>1. PICK l \in Nat : l = BUFSIZE + 1
    BY <1>1
  <2>2. b \in Nat /\ l = Len(cut) /\ b < l /\ cut[l] = nul
    BY <1>1, <1>3, <2>1
  <2>3. StringAt(cut, b) \in Text /\ \E n \in Nat : n = Len(StringAt(cut, b)) /\ b + n < l
    BY <2>2, StringEnds
  <2> QED
    BY <1>1, <2>1, <2>3
<1>5. PICK front \in Text : /\ front = Put(cut, 0, Append(str, nul)) /\ Len(front) = BUFSIZE + 1
                            /\ Moved(cut, str, front)
  BY <1>3, <1>4, PutFront
<1>6. Kept(array, BUFSIZE, cnt) = [data |-> front, last |-> BUFSIZE - b]
  BY <1>2, <1>3, <1>4, <1>5 DEF Kept, Carried
<1> QED
  BY <1>2, <1>3, <1>4, <1>5, <1>6

\* The byte behind the buffer is as no read found it, or a NUL.
LEMMA ByteBehind ==
    ASSUME NEW array \in Text, Len(array) = BUFSIZE + 1, NEW last \in 0 .. BUFSIZE,
           NEW cnt, cnt # 0 => last = BUFSIZE
    PROVE  LET byte == Kept(array, last, cnt).data[BUFSIZE + 1]
           IN  /\ byte \in {nul, array[BUFSIZE + 1]}
               /\ last = BUFSIZE /\ array[BUFSIZE] # newline => byte = nul
<1>1. BUFSIZE \in Nat /\ BUFSIZE >= 1 /\ last \in Nat /\ last < Len(array)
  BY ProgramConstants, DiskConstants
<1>2. PICK cut \in Text : /\ cut = Cut(array, last) /\ Len(cut) = BUFSIZE + 1
                          /\ Unended(array, last) => cut[last + 1] = nul
                          /\ cut[last + 1] \in {nul, array[last + 1]}
  BY <1>1, CutIs
<1>3. last = BUFSIZE /\ array[BUFSIZE] # newline => Unended(array, last)
  BY DEF Unended
<1>4. cut[BUFSIZE + 1] \in {nul, array[BUFSIZE + 1]}
  <2>1. CASE last = BUFSIZE
    BY <1>2, <2>1
  <2>2. CASE last # BUFSIZE
    <3>1. PICK n \in Nat : n = Len(array) /\ DOMAIN array = 1 .. n
      BY LenProperties DEF Text
    <3>2. BUFSIZE + 1 \in DOMAIN array /\ ~(BUFSIZE + 1 \in 1 .. last) /\ BUFSIZE + 1 # last + 1
      BY <1>1, <2>2, <3>1
    <3> QED
      BY <1>2, <3>2 DEF Cut
  <2> QED
    BY <2>1, <2>2
<1>5. CASE ~GoesOn(array, last, cnt)
  <2>1. Kept(array, last, cnt).data = cut
    BY <1>2, <1>5 DEF Kept
  <2> QED
    BY <1>2, <1>3, <1>4, <2>1
<1>6. CASE GoesOn(array, last, cnt)
  <2>1. last = BUFSIZE
    BY <1>6 DEF GoesOn
  <2>2. PICK str \in Text, front \in Text :
          /\ Len(str) < BUFSIZE /\ Kept(array, BUFSIZE, cnt).data = front
          /\ Moved(cut, str, front)
    BY <1>2, <1>6, <2>1, KeptIs
  <2>3. PICK n \in Nat : n = Len(str) /\ n < BUFSIZE
    BY <1>1, <2>2, LenProperties DEF Text
  <2>4. cut[BUFSIZE + 1] = nul
    BY <1>2, <1>6, <2>1 DEF GoesOn
  <2>5. front[BUFSIZE + 1] = nul
    <3>1. BUFSIZE + 1 \in n + 2 .. BUFSIZE + 1
      BY <1>1, <2>3
    <3> QED
      BY <2>2, <2>3, <2>4, <3>1 DEF Moved
  <2> QED
    BY <2>1, <2>2, <2>5
<1> QED
  BY <1>5, <1>6

-----------------------------------------------------------------------------
(* How far grep is with a file, at a position in it, when its buffer holds *)
(* last bytes and v has been printed for the file: in the middle of the    *)
(* file, behind its end with a line that it still holds, or behind its end *)
(* with nothing held.                                                      *)

InLine(s, fname, text, pos, held, last, v) ==
    \E off \in Nat :
        /\ off + last = pos /\ LineBegins(text, off) /\ Copies(held, text, off, last)
        /\ Unended(held, last)
        /\ v = Joint(EndedLines(s, fname, text), off)
LeftOver(s, fname, text, pos, held, last, v) ==
    /\ pos = Len(text) /\ v = Joint(EndedLines(s, fname, text), pos)
    /\ \A i \in 1 .. last : held[i] # newline
    /\ \E start \in Nat, n \in Nat :
          /\ start = LineStart(text, pos) /\ start + n = pos /\ n < last
          /\ held[n + 1] = nul /\ Copies(held, text, start, n)
Searched(s, fname, text, pos, held, last, v) ==
    pos = Len(text) /\ last = 0 /\ v = WholeText(s, fname, text)
Searching(s, fname, text, pos, held, last, v) ==
    \/ InLine(s, fname, text, pos, held, last, v)
    \/ LeftOver(s, fname, text, pos, held, last, v)
    \/ Searched(s, fname, text, pos, held, last, v)

LEMMA JointPrints ==
    ASSUME NEW s, NEW fname, NEW text, Greps(s, fname, text), NEW n \in Nat, n <= Len(text)
    PROVE  Joint(EndedLines(s, fname, text), n) \in Prints
<1>1. fname \in Text /\ text \in Text /\ Len(text) \in Nat
  BY LenProperties DEF Greps, Text
<1>2. \A k \in 1 .. n : k \in 1 .. Len(text)
  BY <1>1
<1>3. \A k \in 1 .. n : EndedLines(s, fname, text)[k] \in Prints
  BY <1>1, <1>2, EndedLinesAre
<1> QED
  BY <1>3, JointSame

LEMMA WholePrints ==
    ASSUME NEW s, NEW fname, NEW text, Greps(s, fname, text)
    PROVE  WholeText(s, fname, text) \in Prints /\ OneMore(s, fname, text) \in Prints
<1>1. fname \in Text /\ text \in Text /\ Len(text) \in Nat
  BY LenProperties DEF Greps, Text
<1>2. PICK L \in Nat : L = Len(text)
  BY <1>1
<1>3. PICK x \in Nat : x = LineStart(text, L) /\ x <= L
  <2>1. LineStart(text, L) \in 0 .. L
    BY LineStartIs
  <2> QED
    BY <2>1
<1>4. Reported(s, fname, text, x, L) \in Prints /\ SubSeq(text, x + 1, L) \in Text
  BY <1>1, <1>2, <1>3, ReportIs
<1>5. Line(fname, SubSeq(text, x + 1, L)) \in Prints
  BY <1>1, <1>4, LineIs
<1>6. Joint(EndedLines(s, fname, text), L) \in Prints
  BY <1>2, JointPrints
<1> QED
  BY <1>2, <1>3, <1>4, <1>5, <1>6, TwoPrints DEF WholeText, OneMore

\* At the end of the file.
LEMMA InLineEnds ==
    ASSUME NEW s, NEW fname, NEW text, Greps(s, fname, text), NEW pos \in Nat, NEW held,
           NEW last \in 0 .. BUFSIZE - 1, NEW v, InLine(s, fname, text, pos, held, last, v),
           pos = Len(text), NEW array \in Text, Len(array) = BUFSIZE + 1,
           \A i \in 1 .. last : array[i] = held[i], NEW cnt, ~GoesOn(array, last, cnt)
    PROVE  Makes(v, Matches(s, fname, array, last, cnt), WholeText(s, fname, text))
<1>1. PICK off \in Nat :
        /\ off + last = pos /\ LineBegins(text, off) /\ Copies(held, text, off, last)
        /\ Unended(held, last)
        /\ v = Joint(EndedLines(s, fname, text), off)
  BY DEF InLine
<1>2. BUFSIZE \in Nat /\ last \in Nat /\ last < Len(array) /\ off + last = Len(text) /\ last <= last
  BY <1>1, ProgramConstants
<1>3. Copies(array, text, off, last)
  BY <1>1 DEF Copies
<1>4. Unended(array, last)
  BY <1>1, <1>2 DEF Unended
<1>5. \A i \in last + 1 .. last : array[i] = nul
  BY <1>2
<1>7. PICK m \in Nat : m = last
  BY <1>2
<1>8. /\ m <= last /\ last < Len(array) /\ off + m = Len(text) /\ Copies(array, text, off, m)
      /\ Unended(array, last) /\ ~GoesOn(array, last, cnt)
      /\ \A i \in m + 1 .. last : array[i] = nul
  BY <1>2, <1>3, <1>4, <1>7
<1>9. Makes(Joint(EndedLines(s, fname, text), off), Matches(s, fname, array, last, cnt),
            WholeText(s, fname, text))
  <2>1. m \in Nat /\ last \in Nat /\ off \in Nat /\ LineBegins(text, off)
    BY <1>1, <1>2, <1>7
  <2> QED
    BY <1>8, <2>1, SearchedAll
<1> QED
  BY <1>1, <1>9 DEF Makes

LEMMA SearchedEnds ==
    ASSUME NEW s, NEW fname, NEW text, Greps(s, fname, text), NEW pos, NEW held, NEW last, NEW v,
           Searched(s, fname, text, pos, held, last, v),
           NEW array, NEW cnt, ~GoesOn(array, last, cnt)
    PROVE  Makes(v, Matches(s, fname, array, last, cnt), WholeText(s, fname, text))
<1>1. PICK zero \in Nat : zero = 0 /\ zero = last
  BY DEF Searched
<1>2. Unended(array, zero) /\ ~GoesOn(array, zero, cnt)
  BY <1>1 DEF Unended
<1>3. LineStart(array, zero) \in 0 .. zero
  BY LineStartIs
<1>4. ~Occurs(s, Cut(array, zero), LineStart(array, zero), zero)
  <2>1. LineStart(array, zero) .. zero - 1 = {}
    BY <1>1, <1>3
  <2> QED
    BY <2>1 DEF Occurs
<1>5. Joint(Parts(s, fname, array, zero), zero) = <<>>
  <2>1. \A k \in 1 .. zero : Parts(s, fname, array, zero)[k] = <<>>
    BY <1>1
  <2> QED
    BY <2>1, JointEmpty
<1>6. Matches(s, fname, array, zero, cnt) = <<>> \o <<>>
  BY <1>2, <1>4, <1>5, MatchesAre DEF Found
<1>7. Matches(s, fname, array, zero, cnt) = <<>>
  BY <1>6, NoPrint
<1>8. v = WholeText(s, fname, text) /\ v \in Prints
  BY WholePrints DEF Searched
<1> QED
  BY <1>1, <1>7, <1>8, NoPrint DEF Makes

LEMMA LeftOverEnds ==
    ASSUME NEW s, NEW fname, NEW text, Greps(s, fname, text), NEW pos \in Nat, NEW held,
           NEW last \in 0 .. BUFSIZE - 1, NEW v, LeftOver(s, fname, text, pos, held, last, v),
           NEW array \in Text, Len(array) = BUFSIZE + 1,
           \A i \in 1 .. last : array[i] = held[i], NEW cnt, ~GoesOn(array, last, cnt)
    PROVE  \/ Makes(v, Matches(s, fname, array, last, cnt), WholeText(s, fname, text))
           \/ Makes(v, Matches(s, fname, array, last, cnt), OneMore(s, fname, text))
<1>1. PICK start \in Nat, n \in Nat :
        /\ start = LineStart(text, pos) /\ start + n = pos /\ n < last
        /\ held[n + 1] = nul /\ Copies(held, text, start, n)
  BY DEF LeftOver
<1>2. /\ BUFSIZE \in Nat /\ last \in Nat /\ last < Len(array) /\ pos = Len(text)
      /\ v = Joint(EndedLines(s, fname, text), pos)
      /\ \A i \in 1 .. last : array[i] # newline
  BY ProgramConstants DEF LeftOver
<1>3. /\ Pattern(s) /\ fname \in Text /\ text \in Text
      /\ \A i \in 1 .. Len(text) : text[i] # nul
  BY DEF Greps
<1>4. PICK cut \in Text : /\ cut = Cut(array, last) /\ Len(cut) = Len(array)
                          /\ \A k \in 1 .. last : cut[k] = array[k]
  BY <1>2, CutIs
<1>5. PICK zero \in Nat : zero = 0
  OBVIOUS
<1>6. LineStart(array, last) = zero
  <2>1. zero \in 0 .. last /\ (zero # 0 => array[zero] = newline)
    BY <1>5, <1>2
  <2>2. \A k \in zero + 1 .. last : array[k] # newline
    BY <1>2, <1>5
  <2> QED
    BY <1>2, <2>1, <2>2, StartIsThere
<1>7. Unended(array, last) /\ ~GoesOn(array, last, cnt)
  <2>1. last \in 1 .. last
    BY <1>1, <1>2
  <2> QED
    BY <1>2, <2>1 DEF Unended
<1>8. Joint(Parts(s, fname, array, last), last) = <<>>
  <2>1. \A k \in 1 .. last : Parts(s, fname, array, last)[k] = <<>>
    BY <1>2 DEF Parts
  <2> QED
    BY <1>2, <2>1, JointEmpty
<1>9. Matches(s, fname, array, last, cnt) = Found(s, fname, cut, zero, last)
  <2>1. Matches(s, fname, array, last, cnt) = <<>> \o Found(s, fname, cut, zero, last)
    BY <1>4, <1>6, <1>7, <1>8, MatchesAre
  <2>2. zero <= Len(cut)
    BY <1>2, <1>4, <1>5
  <2>3. Found(s, fname, cut, zero, last) \in Prints
    BY <1>3, <2>2, FoundPrints
  <2> QED
    BY <2>1, <2>3, NoPrint
<1>10. Holds(cut, zero, text, start, n)
  <2> SUFFICES ASSUME NEW i \in 1 .. n PROVE cut[zero + i] = text[start + i]
    BY DEF Holds
  <2>1. zero + i = i /\ i \in 1 .. last
    BY <1>1, <1>2, <1>5
  <2>2. held[i] = text[start + i]
    BY <1>1 DEF Copies
  <2> QED
    BY <1>4, <2>1, <2>2
<1>11. /\ zero + n <= last /\ zero + n < Len(cut) /\ start + n <= Len(text)
       /\ zero + n + 1 = n + 1 /\ n + 1 \in 1 .. last
  BY <1>1, <1>2, <1>4, <1>5
<1>12. cut[zero + n + 1] = nul
  BY <1>1, <1>4, <1>11
<1>13. StringAt(cut, zero) = SubSeq(text, start + 1, start + n)
  <2>1. text \in Text /\ \A i \in 1 .. Len(text) : text[i] # nul
    BY <1>3
  <2>2. zero + n < Len(cut) /\ start + n <= Len(text)
    BY <1>11
  <2>3. zero \in Nat /\ start \in Nat /\ n \in Nat
    BY <1>1, <1>5
  <2>4. IsPart(StringAt(cut, zero), text, start, n)
    BY <1>10, <1>12, <2>1, <2>2, <2>3, LineStringIs
  <2> QED
    BY <2>4 DEF IsPart
<1>14. /\ OneMore(s, fname, text) = v \o Line(fname, SubSeq(text, start + 1, start + n))
       /\ WholeText(s, fname, text) = v \o Reported(s, fname, text, start, start + n)
  BY <1>1, <1>2 DEF WholeText, OneMore
<1>15. CASE Occurs(s, cut, zero, last)
  <2>1. Matches(s, fname, array, last, cnt) = Line(fname, SubSeq(text, start + 1, start + n))
    BY <1>9, <1>13, <1>15 DEF Found
  <2> QED
    BY <1>14, <2>1 DEF Makes
<1>16. CASE ~Occurs(s, cut, zero, last)
  <2>1. Matches(s, fname, array, last, cnt) = <<>>
    BY <1>9, <1>16 DEF Found
  <2>2. ~Within(s, text, start, start + n)
    BY <1>2, <1>3, <1>10, <1>11, <1>16, WithinOccurs
  <2>3. Reported(s, fname, text, start, start + n) = <<>>
    BY <2>2 DEF Reported
  <2> QED
    BY <1>14, <2>1, <2>3 DEF Makes
<1> QED
  BY <1>15, <1>16

-----------------------------------------------------------------------------
(* A read in the middle of a file *)

ShortLines(text) == \A m \in 1 .. Len(text) : m - LineStart(text, m) < BUFSIZE

LEMMA CopyGoesOn ==
    ASSUME NEW held, NEW last \in Nat, NEW text, NEW pos \in Nat, NEW got \in Nat, NEW array,
           ReadInto(held, last, text, pos, got, array),
           NEW off \in Nat, off + last = pos, Copies(held, text, off, last),
           NEW m \in Nat, m = last + got
    PROVE  Copies(array, text, off, m)
<1> SUFFICES ASSUME NEW i \in 1 .. m PROVE array[i] = text[off + i]
  BY DEF Copies
<1>1. CASE i <= last
  BY <1>1 DEF ReadInto, Copies
<1>2. CASE ~(i <= last)
  <2>1. PICK j \in 1 .. got : j = i - last /\ i = last + j /\ off + i = pos + j
    BY <1>2
  <2>2. array[last + j] = text[pos + j]
    BY DEF ReadInto
  <2> QED
    BY <2>1, <2>2
<1> QED
  BY <1>1, <1>2

NoneEnds(text, a, n) == \A k \in 1 .. n : text[a + k] # newline

LEMMA JointSkips ==
    ASSUME NEW s, NEW fname, NEW text, Greps(s, fname, text), NEW a \in Nat, NEW n \in Nat,
           a + n <= Len(text), NoneEnds(text, a, n), NEW c \in Nat, c = a + n
    PROVE  Joint(EndedLines(s, fname, text), c) = Joint(EndedLines(s, fname, text), a)
<1>1. fname \in Text /\ text \in Text /\ Len(text) \in Nat
  BY LenProperties DEF Greps, Text
<1> DEFINE E == EndedLines(s, fname, text)
           q == [k \in 1 .. n |-> E[a + k]]
<1>2. AllPrints(E, a, n)
  <2>1. \A k \in 1 .. a + n : k \in 1 .. Len(text)
    BY <1>1
  <2>2. \A k \in 1 .. a + n : E[k] \in Prints
    BY <1>1, <2>1, EndedLinesAre
  <2> QED
    BY <2>2 DEF AllPrints
<1>3. Copies(q, E, a, n)
  BY DEF Copies
<1>4. \A k \in 1 .. n : q[k] = <<>>
  <2> SUFFICES ASSUME NEW k \in 1 .. n PROVE E[a + k] = <<>>
    OBVIOUS
  <2>1. PICK j \in 1 .. Len(text) : j = a + k
    BY <1>1
  <2>2. E[j] = IF text[j] = newline THEN Reported(s, fname, text, LineStart(text, j - 1), j - 1)
               ELSE <<>>
    BY <1>1, EndedLinesAre
  <2>3. text[j] # newline
    BY <2>1 DEF NoneEnds
  <2> QED
    BY <2>1, <2>2, <2>3
<1> HIDE DEF E, q
<1>5. Joint(q, n) = <<>>
  BY <1>4, JointEmpty
<1>6. Adding(E, q, a, n, n)
  BY <1>2, <1>3, JointSplit
<1>7. Joint(E, a + n) = Joint(E, a) \o <<>> /\ Joint(E, a) \in Prints
  BY <1>5, <1>6 DEF Adding
<1> QED
  BY <1>7, NoPrint DEF E

LEMMA FullRead ==
    ASSUME NEW s, NEW fname, NEW text, Greps(s, fname, text), ShortLines(text),
           NEW pos \in Nat, NEW held, NEW last \in 0 .. BUFSIZE - 1, NEW v,
           InLine(s, fname, text, pos, held, last, v),
           NEW got \in Nat, NEW array \in Text, Len(array) = BUFSIZE + 1,
           ReadInto(held, last, text, pos, got, array), last + got = BUFSIZE,
           BUFSIZE <= Len(text) => array[BUFSIZE + 1] # newline,
           NEW cnt, cnt # 0, NEW to \in Nat, to = pos + got
    PROVE  InLine(s, fname, text, to, Kept(array, BUFSIZE, cnt).data,
                  Kept(array, BUFSIZE, cnt).last, v \o Matches(s, fname, array, BUFSIZE, cnt))
<1>1. PICK off \in Nat :
        /\ off + last = pos /\ LineBegins(text, off) /\ Copies(held, text, off, last)
        /\ v = Joint(EndedLines(s, fname, text), off)
  BY DEF InLine
<1>2. /\ Pattern(s) /\ fname \in Text /\ text \in Text
      /\ \A i \in 1 .. Len(text) : text[i] # nul
  BY DEF Greps
<1>3. PICK K \in Nat, L \in Nat :
        /\ K = BUFSIZE /\ K >= 1 /\ L = Len(text) /\ off + K = to /\ off + K <= L /\ K = last + got
        /\ Len(array) = K + 1 /\ last \in Nat
  <2>1. BUFSIZE \in Nat /\ BUFSIZE >= 1 /\ Len(text) \in Nat
    BY <1>2, ProgramConstants, DiskConstants, LenProperties DEF Text
  <2>2. pos + got <= Len(text)
    BY DEF ReadInto
  <2> QED
    BY <1>1, <2>1, <2>2
<1>4. Copies(array, text, off, K)
  BY <1>1, <1>3, CopyGoesOn
<1> DEFINE E == EndedLines(s, fname, text)
           P == Parts(s, fname, array, K)
<1>5. Adding(E, P, off, K, K)
  <2>1. PICK m \in Nat : m = K
    OBVIOUS
  <2>2. /\ K < Len(array) /\ m <= K /\ off + m <= Len(text) /\ Copies(array, text, off, m)
        /\ \A i \in m + 1 .. K : array[i] # newline
    BY <1>3, <1>4, <2>1
  <2>3. Adding(E, P, off, m, K)
    BY <1>1, <1>2, <2>2, PartsAdd
  <2> QED
    BY <2>1, <2>3
<1>6. Joint(E, to) = v \o Joint(P, K)
  BY <1>1, <1>3, <1>5 DEF Adding
<1>7. text[to] = array[K]
  <2>1. K \in 1 .. K
    BY <1>3
  <2> QED
    BY <1>3, <1>4, <2>1 DEF Copies
<1>8. CASE array[K] = newline
  <2>1. ~Unended(array, K) /\ ~GoesOn(array, K, cnt)
    BY <1>3, <1>8 DEF Unended, GoesOn
  <2>2. Matches(s, fname, array, K, cnt) = Joint(P, K)
    BY <2>1, MatchesAre
  <2>3. PICK zero \in Nat : zero = 0
    OBVIOUS
  <2>4. Kept(array, K, cnt).last = zero
    BY <2>1, <2>3 DEF Kept
  <2>5. InLine(s, fname, text, to, Kept(array, K, cnt).data, zero,
               v \o Matches(s, fname, array, K, cnt))
    <3>1. to + zero = to
      BY <2>3
    <3>2. LineBegins(text, to)
      BY <1>7, <1>8 DEF LineBegins
    <3>3. Copies(Kept(array, K, cnt).data, text, to, zero) /\ Unended(Kept(array, K, cnt).data, zero)
      BY <2>3 DEF Copies, Unended
    <3>4. v \o Matches(s, fname, array, K, cnt) = Joint(EndedLines(s, fname, text), to)
      BY <1>6, <2>2
    <3> QED
      BY <3>1, <3>2, <3>3, <3>4 DEF InLine
  <2> QED
    BY <1>3, <2>4, <2>5
<1>9. CASE array[K] # newline
  <2>1. PICK b \in Nat : b = LineStart(array, K) /\ b <= K /\ LineStart(text, to) = off + b
    <3>1. Shifted(text, array, off, K)
      BY <1>1, <1>3, <1>4, StartShift
    <3> QED
      BY <1>3, <3>1 DEF Shifted
  <2>2. b # 0
    <3>1. to \in 1 .. Len(text)
      BY <1>3
    <3>2. to - LineStart(text, to) < BUFSIZE
      BY <3>1 DEF ShortLines
    <3> QED
      BY <1>3, <2>1, <3>2
  <2>3. Unended(array, K) /\ GoesOn(array, K, cnt)
    <3>1. array[K + 1] # newline
      BY <1>3
    <3> QED
      BY <1>9, <2>1, <2>2, <3>1 DEF Unended, GoesOn
  <2>4. Matches(s, fname, array, K, cnt) = Joint(P, K)
    BY <2>3, MatchesAre
  <2>5. PICK str \in Text, front \in Text, cut \in Text :
          /\ cut = Cut(array, K) /\ str = StringAt(cut, b) /\ Len(str) < K
          /\ Kept(array, K, cnt).data = front /\ Kept(array, K, cnt).last = K - b
          /\ Moved(cut, str, front) /\ Len(cut) = Len(array)
          /\ \A k \in 1 .. K : array[k] # newline => cut[k] = array[k]
          /\ cut[K + 1] = nul
    <3>1. /\ Cut(array, K) \in Text /\ Len(Cut(array, K)) = Len(array)
          /\ \A k \in 1 .. K : array[k] # newline => Cut(array, K)[k] = array[k]
          /\ Cut(array, K)[K + 1] = nul
      BY <1>3, <2>3, CutIs
    <3>2. \E c \in 1 .. BUFSIZE - 1, str \in Text, front \in Text :
              /\ c = LineStart(array, BUFSIZE) /\ str = StringAt(Cut(array, BUFSIZE), c)
              /\ Len(str) < BUFSIZE
              /\ Kept(array, BUFSIZE, cnt).data = front
              /\ Kept(array, BUFSIZE, cnt).last = BUFSIZE - c
              /\ Moved(Cut(array, BUFSIZE), str, front)
      BY <1>3, <2>3, KeptIs
    <3> QED
      BY <1>3, <2>1, <3>1, <3>2
  <2>6. PICK n \in Nat : n = K - b /\ b + n = K
    <3>1. K - b \in Nat /\ b + (K - b) = K
      BY <1>3, <2>1
    <3> QED
      BY <3>1
  <2>7. \A i \in 1 .. n : cut[b + i] = array[b + i] /\ array[b + i] # newline
                          /\ array[b + i] = text[off + (b + i)] /\ cut[b + i] # nul
    <3> SUFFICES ASSUME NEW i \in 1 .. n
                 PROVE  cut[b + i] = array[b + i] /\ array[b + i] # newline
                          /\ array[b + i] = text[off + (b + i)] /\ cut[b + i] # nul
      OBVIOUS
    <3>1. PICK j \in 1 .. K : j = b + i /\ j \in b + 1 .. K
      BY <2>6
    <3>2. array[j] # newline
      BY <2>1, <3>1, NoneBehind
    <3>3. cut[j] = array[j] /\ array[j] = text[off + j]
      BY <1>4, <2>5, <3>2 DEF Copies
    <3>4. off + j \in 1 .. Len(text)
      BY <1>3
    <3>5. text[off + j] # nul
      BY <1>2, <3>4
    <3> QED
      BY <3>1, <3>2, <3>3, <3>5
  <2>8. PICK new \in Nat : new = off + b /\ new + n = to
    BY <1>3, <2>6
  <2>9. Len(str) = n /\ \A i \in 1 .. n : str[i] = text[new + i]
    <3>1. b \in Nat /\ n \in Nat /\ new \in Nat /\ cut \in Text
      BY <2>1, <2>5, <2>6, <2>8
    <3>2. b + n < Len(cut) /\ new + n <= Len(text)
      BY <1>3, <2>5, <2>6, <2>8
    <3>3. cut[b + n + 1] = nul
      BY <2>5, <2>6
    <3>4. Holds(cut, b, text, new, n)
      <4>1. \A i \in 1 .. n : off + (b + i) = new + i
        BY <2>8
      <4> QED
        BY <2>7, <4>1 DEF Holds
    <3>5. IsPart(StringAt(cut, b), text, new, n)
      BY <1>2, <3>1, <3>2, <3>3, <3>4, LineStringIs
    <3>6. /\ Len(SubSeq(text, new + 1, new + n)) = n
          /\ \A k \in 1 .. n : SubSeq(text, new + 1, new + n)[k] = text[new + k]
      BY <1>2, <3>1, <3>2, PartIs
    <3> QED
      BY <2>5, <3>5, <3>6 DEF IsPart
  <2>10. \A i \in 1 .. n : front[i] = text[new + i]
    BY <2>5, <2>9 DEF Moved
  <2>11. Copies(front, text, new, n)
    BY <2>10 DEF Copies
  <2>12. LineBegins(text, new)
    <3>1. b \in 1 .. K /\ array[b] = newline
      BY <2>1, <2>2, LineStartIs, SMTT(30)
    <3>2. text[off + b] = newline
      BY <1>4, <3>1 DEF Copies
    <3> QED
      BY <2>8, <3>2 DEF LineBegins
  <2>13. Unended(front, n)
    <3>1. CASE n = 0
      BY <3>1 DEF Unended
    <3>2. CASE n # 0
      <4>1. n \in 1 .. n /\ off + (b + n) = new + n
        BY <2>8, <3>2
      <4>2. front[n] = array[b + n]
        BY <2>7, <2>10, <4>1
      <4> QED
        BY <2>7, <4>1, <4>2 DEF Unended
    <3> QED
      BY <3>1, <3>2
  <2>14. v \o Matches(s, fname, array, K, cnt) = Joint(EndedLines(s, fname, text), new)
    <3>1. NoneEnds(text, new, n)
      <4>1. \A k \in 1 .. n : off + (b + k) = new + k
        BY <2>8
      <4> QED
        BY <2>7, <4>1 DEF NoneEnds
    <3>2. new + n <= Len(text)
      BY <1>3, <2>8
    <3>3. PICK c \in Nat : c = to
      OBVIOUS
    <3>4. c \in Nat /\ new \in Nat /\ n \in Nat /\ c = new + n
      BY <2>6, <2>8, <3>3
    <3>5. Joint(E, c) = Joint(E, new)
      BY <3>1, <3>2, <3>4, JointSkips
    <3> QED
      BY <1>6, <2>4, <3>3, <3>5
  <2>15. InLine(s, fname, text, to, front, n, v \o Matches(s, fname, array, K, cnt))
    BY <2>8, <2>11, <2>12, <2>13, <2>14 DEF InLine
  <2> QED
    BY <1>3, <2>5, <2>6, <2>15
<1> QED
  BY <1>3, <1>8, <1>9

\* The read that finds the last of the file: it claims to have filled the buffer.
LEMMA LastRead ==
    ASSUME NEW s, NEW fname, NEW text, Greps(s, fname, text),
           NEW pos \in Nat, NEW held, NEW last \in 0 .. BUFSIZE - 1, NEW v,
           InLine(s, fname, text, pos, held, last, v),
           NEW got \in Nat, NEW array \in Text, Len(array) = BUFSIZE + 1,
           ReadInto(held, last, text, pos, got, array), last + got < BUFSIZE,
           NEW cnt, NEW to \in Nat, to = pos + got
    PROVE  Searching(s, fname, text, to, Kept(array, BUFSIZE, cnt).data,
                     Kept(array, BUFSIZE, cnt).last, v \o Matches(s, fname, array, BUFSIZE, cnt))
<1>1. PICK off \in Nat :
        /\ off + last = pos /\ LineBegins(text, off) /\ Copies(held, text, off, last)
        /\ v = Joint(EndedLines(s, fname, text), off)
  BY DEF InLine
<1>2. /\ Pattern(s) /\ fname \in Text /\ text \in Text
      /\ \A i \in 1 .. Len(text) : text[i] # nul
  BY DEF Greps
<1>3. PICK K \in Nat, m \in Nat :
        /\ K = BUFSIZE /\ K >= 1 /\ m = last + got /\ off + m = to /\ Len(text) = to /\ m < K
        /\ Len(array) = K + 1 /\ last \in Nat
  <2>1. BUFSIZE \in Nat /\ BUFSIZE >= 1
    BY ProgramConstants, DiskConstants
  <2>2. pos + got = Len(text)
    BY <2>1 DEF ReadInto
  <2> QED
    BY <1>1, <2>1, <2>2
<1>4. Copies(array, text, off, m)
  BY <1>1, <1>3, CopyGoesOn
<1>5. \A i \in m + 1 .. K : array[i] = nul /\ array[i] # newline
  BY <1>3 DEF ReadInto, nul, newline
<1>6. Unended(array, K)
  <2>1. K \in m + 1 .. K
    BY <1>3
  <2> QED
    BY <1>5, <2>1 DEF Unended
<1> DEFINE E == EndedLines(s, fname, text)
           P == Parts(s, fname, array, K)
<1>7. CASE ~GoesOn(array, K, cnt)
  <2>1. m <= K /\ K < Len(array) /\ off + m = Len(text) /\ \A i \in m + 1 .. K : array[i] = nul
    BY <1>3, <1>5
  <2>2. off \in Nat /\ m \in Nat /\ K \in Nat
    BY <1>1, <1>3
  <2>3. Makes(Joint(EndedLines(s, fname, text), off), Matches(s, fname, array, K, cnt),
              WholeText(s, fname, text))
    BY <1>1, <1>4, <1>6, <1>7, <2>1, <2>2, SearchedAll
  <2>4. Kept(array, K, cnt).last = 0
    BY <1>7 DEF Kept
  <2> QED
    BY <1>1, <1>3, <2>3, <2>4 DEF Searching, Searched, Makes
<1>8. CASE GoesOn(array, K, cnt)
  <2>1. PICK b \in Nat : b = LineStart(array, K) /\ b <= m /\ LineStart(text, to) = off + b
    <3>1. PICK x \in Nat : x = LineStart(array, m) /\ x <= m /\ LineStart(text, to) = off + x
      <4>1. m <= m
        BY <1>3
      <4>2. Shifted(text, array, off, m)
        BY <1>1, <1>3, <1>4, <4>1, StartShift
      <4> QED
        BY <1>3, <4>2 DEF Shifted
    <3>2. x \in 0 .. K
      BY <1>3, <3>1
    <3>3. x # 0 => array[x] = newline
      BY <1>3, <3>1, LineStartIs
    <3>4. \A k \in x + 1 .. K : array[k] # newline
      <4> SUFFICES ASSUME NEW k \in x + 1 .. K PROVE array[k] # newline
        OBVIOUS
      <4>1. CASE k <= m
        BY <1>3, <3>1, <4>1, NoneBehind
      <4>2. CASE ~(k <= m)
        BY <1>3, <1>5, <4>2
      <4> QED
        BY <4>1, <4>2
    <3>5. LineStart(array, K) = x
      BY <1>3, <3>2, <3>3, <3>4, StartIsThere
    <3> QED
      BY <3>1, <3>5
  <2>2. b # 0
    BY <1>8, <2>1 DEF GoesOn
  <2>3. Matches(s, fname, array, K, cnt) = Joint(P, K)
    BY <1>8, MatchesAre
  <2>4. Joint(E, to) = v \o Joint(P, K)
    <3>1. K < Len(array) /\ m <= K /\ off + m <= Len(text) /\ \A i \in m + 1 .. K : array[i] # newline
      BY <1>3, <1>5
    <3>2. off \in Nat /\ m \in Nat /\ K \in Nat
      BY <1>1, <1>3
    <3>3. Adding(E, P, off, m, K)
      BY <1>1, <1>2, <1>4, <3>1, <3>2, PartsAdd
    <3> QED
      BY <1>1, <1>3, <3>3 DEF Adding
  <2>5. PICK str \in Text, front \in Text, cut \in Text :
          /\ cut = Cut(array, K) /\ str = StringAt(cut, b) /\ Len(str) < K
          /\ Kept(array, K, cnt).data = front /\ Kept(array, K, cnt).last = K - b
          /\ Moved(cut, str, front) /\ Len(cut) = Len(array)
          /\ \A k \in 1 .. K : array[k] = newline => cut[k] = nul
          /\ \A k \in 1 .. K : array[k] # newline => cut[k] = array[k]
    <3>1. /\ Cut(array, K) \in Text /\ Len(Cut(array, K)) = Len(array)
          /\ \A k \in 1 .. K : array[k] = newline => Cut(array, K)[k] = nul
          /\ \A k \in 1 .. K : array[k] # newline => Cut(array, K)[k] = array[k]
      BY <1>3, CutIs
    <3>2. PICK c \in 1 .. BUFSIZE - 1, str \in Text, front \in Text :
              /\ c = LineStart(array, BUFSIZE) /\ str = StringAt(Cut(array, BUFSIZE), c)
              /\ Len(str) < BUFSIZE
              /\ Kept(array, BUFSIZE, cnt).data = front
              /\ Kept(array, BUFSIZE, cnt).last = BUFSIZE - c
              /\ Moved(Cut(array, BUFSIZE), str, front)
      BY <1>3, <1>8, KeptIs
    <3>3. PICK cut \in Text : cut = Cut(array, K)
      BY <3>1
    <3>4. /\ str = StringAt(cut, b) /\ Len(str) < K
          /\ Kept(array, K, cnt).data = front /\ Kept(array, K, cnt).last = K - b
          /\ Moved(cut, str, front)
      BY <1>3, <2>1, <3>2, <3>3
    <3> QED
      BY <3>1, <3>2, <3>3, <3>4
  <2>6. PICK n \in Nat, left \in Nat : b + n = m /\ left = K - b /\ n < left /\ left < K
    <3>1. m - b \in Nat /\ b + (m - b) = m /\ K - b \in Nat /\ m - b < K - b /\ K - b < K
      BY <1>3, <2>1, <2>2
    <3> QED
      BY <3>1
  <2>7. PICK new \in Nat : new = off + b /\ new + n = to
    BY <1>3, <2>6
  <2>8. \A i \in 1 .. n : cut[b + i] = text[new + i] /\ text[new + i] # newline
    <3> SUFFICES ASSUME NEW i \in 1 .. n PROVE cut[b + i] = text[new + i] /\ text[new + i] # newline
      OBVIOUS
    <3>1. PICK j \in 1 .. m : j = b + i /\ j \in b + 1 .. K /\ j \in 1 .. K /\ off + j = new + i
      BY <1>3, <2>6, <2>7
    <3>2. array[j] # newline
      BY <1>3, <2>1, <3>1, NoneBehind
    <3>3. cut[j] = array[j] /\ array[j] = text[off + j]
      BY <1>4, <2>5, <3>1, <3>2 DEF Copies
    <3> QED
      BY <3>1, <3>2, <3>3
  <2>9. Len(str) = n /\ \A i \in 1 .. n : str[i] = text[new + i]
    <3>1. b \in Nat /\ n \in Nat /\ new \in Nat /\ cut \in Text
      BY <2>1, <2>5, <2>6, <2>7
    <3>2. b + n < Len(cut) /\ new + n <= Len(text)
      BY <1>3, <2>5, <2>6, <2>7
    <3>3. cut[b + n + 1] = nul
      <4>1. m + 1 \in m + 1 .. K /\ m + 1 \in 1 .. K
        BY <1>3
      <4>2. cut[m + 1] = nul
        BY <1>5, <2>5, <4>1
      <4> QED
        BY <2>6, <4>2
    <3>4. Holds(cut, b, text, new, n)
      BY <2>8 DEF Holds
    <3>5. IsPart(StringAt(cut, b), text, new, n)
      BY <1>2, <3>1, <3>2, <3>3, <3>4, LineStringIs
    <3>6. /\ Len(SubSeq(text, new + 1, new + n)) = n
          /\ \A k \in 1 .. n : SubSeq(text, new + 1, new + n)[k] = text[new + k]
      BY <1>2, <3>1, <3>2, PartIs
    <3> QED
      BY <2>5, <3>5, <3>6 DEF IsPart
  <2>10. /\ \A i \in 1 .. n : front[i] = text[new + i]
         /\ front[n + 1] = nul
         /\ \A i \in n + 2 .. K : front[i] = cut[i]
    BY <1>3, <2>5, <2>9 DEF Moved
  <2>11. \A i \in 1 .. left : front[i] # newline
    <3> SUFFICES ASSUME NEW i \in 1 .. left PROVE front[i] # newline
      OBVIOUS
    <3>1. CASE i <= n
      <4>1. i \in 1 .. n
        BY <2>6, <3>1
      <4>2. front[i] = text[new + i]
        BY <2>10, <4>1
      <4>3. text[new + i] # newline
        BY <2>8, <4>1
      <4> QED
        BY <4>2, <4>3
    <3>2. CASE i = n + 1
      BY <2>6, <2>10, <3>2 DEF nul, newline
    <3>3. CASE i > n + 1
      <4>1. i \in n + 2 .. K /\ i \in 1 .. K
        BY <1>3, <2>6, <3>3
      <4>2. cut[i] # newline
        BY <2>5, <4>1 DEF nul, newline
      <4> QED
        BY <2>10, <4>1, <4>2
    <3> QED
      BY <2>6, <3>1, <3>2, <3>3
  <2>12. Copies(front, text, new, n)
    BY <2>10 DEF Copies
  <2>13. LeftOver(s, fname, text, to, front, left, v \o Matches(s, fname, array, K, cnt))
    <3>1. to = Len(text) /\ v \o Matches(s, fname, array, K, cnt) = Joint(EndedLines(s, fname, text), to)
      BY <1>3, <2>3, <2>4
    <3>2. new = LineStart(text, to) /\ new + n = to /\ n < left
      BY <2>1, <2>6, <2>7
    <3> QED
      BY <2>6, <2>7, <2>10, <2>11, <2>12, <3>1, <3>2 DEF LeftOver
  <2> QED
    BY <1>3, <2>5, <2>6, <2>13 DEF Searching
<1> QED
  BY <1>3, <1>7, <1>8

-----------------------------------------------------------------------------
(* One read of a file that is searched *)

LEMMA AtEndOfFile ==
    ASSUME NEW s, NEW fname, NEW text, Greps(s, fname, text), NEW pos \in Nat,
           NEW held, NEW last \in 0 .. BUFSIZE - 1, NEW v,
           Searching(s, fname, text, pos, held, last, v), pos = Len(text),
           NEW array \in Text, Len(array) = BUFSIZE + 1,
           \A i \in 1 .. last : array[i] = held[i], NEW cnt, ~GoesOn(array, last, cnt)
    PROVE  \/ Makes(v, Matches(s, fname, array, last, cnt), WholeText(s, fname, text))
           \/ Makes(v, Matches(s, fname, array, last, cnt), OneMore(s, fname, text))
<1>1. CASE InLine(s, fname, text, pos, held, last, v)
  BY <1>1, InLineEnds
<1>2. CASE LeftOver(s, fname, text, pos, held, last, v)
  BY <1>2, LeftOverEnds
<1>3. CASE Searched(s, fname, text, pos, held, last, v)
  BY <1>3, SearchedEnds
<1> QED
  BY <1>1, <1>2, <1>3 DEF Searching

LEMMA SearchStep ==
    ASSUME NEW s, NEW fname, NEW text, Greps(s, fname, text), ShortLines(text),
           NEW pos \in Nat, pos <= Len(text), NEW held \in Text, Len(held) = BUFSIZE + 1,
           NEW last \in 0 .. BUFSIZE - 1, NEW v, Searching(s, fname, text, pos, held, last, v),
           BUFSIZE <= Len(text) => held[BUFSIZE + 1] # newline,
           NEW got \in Nat, NEW r, FileReads(r, text, pos, BUFSIZE - last, got),
           NEW array \in Text, array = Put(held, last, r.buf)
    PROVE  /\ pos = Len(text) =>
                \/ Makes(v, Matches(s, fname, array, last, r.returned), WholeText(s, fname, text))
                \/ Makes(v, Matches(s, fname, array, last, r.returned), OneMore(s, fname, text))
           /\ pos # Len(text) =>
                Searching(s, fname, text, r.fd.file_position,
                          Kept(array, BUFSIZE, r.returned).data,
                          Kept(array, BUFSIZE, r.returned).last,
                          v \o Matches(s, fname, array, BUFSIZE, r.returned))
<1>1. Len(array) = BUFSIZE + 1 /\ ReadInto(held, last, text, pos, got, array)
  BY BufferRead
<1>2. PICK to \in Nat, cnt \in Nat : cnt = r.returned /\ to = r.fd.file_position
  <2>1. r.fd.file_position \in Nat
    BY DEF FileReads
  <2>2. r.returned = 0 \/ r.returned = BUFSIZE - last
    BY DEF FileReads
  <2>3. r.returned \in Nat
    BY <2>2, ProgramConstants
  <2> QED
    BY <2>1, <2>3
<1>3. to = pos + got /\ cnt = IF pos = Len(text) THEN 0 ELSE BUFSIZE - last
  BY <1>2 DEF FileReads
<1>4. BUFSIZE \in Nat /\ last \in Nat
  BY ProgramConstants
<1>5. CASE pos = Len(text)
  <2>1. ~GoesOn(array, last, cnt)
    BY <1>3, <1>5 DEF GoesOn
  <2>2. \A i \in 1 .. last : array[i] = held[i]
    BY <1>1 DEF ReadInto
  <2>3. \/ Makes(v, Matches(s, fname, array, last, cnt), WholeText(s, fname, text))
        \/ Makes(v, Matches(s, fname, array, last, cnt), OneMore(s, fname, text))
    BY <1>1, <1>5, <2>1, <2>2, AtEndOfFile
  <2> QED
    BY <1>2, <1>5, <2>3
<1>6. CASE pos # Len(text)
  <2>1. InLine(s, fname, text, pos, held, last, v)
    BY <1>6 DEF Searching, LeftOver, Searched
  <2>2. cnt # 0 /\ (last + got = BUFSIZE \/ last + got < BUFSIZE)
    BY <1>1, <1>3, <1>4, <1>6 DEF ReadInto
  <2>3. CASE last + got = BUFSIZE
    <3>1. BUFSIZE <= Len(text) => array[BUFSIZE + 1] # newline
      BY <1>1 DEF ReadInto
    <3>2. InLine(s, fname, text, to, Kept(array, BUFSIZE, cnt).data,
                  Kept(array, BUFSIZE, cnt).last, v \o Matches(s, fname, array, BUFSIZE, cnt))
      BY <1>1, <1>3, <2>1, <2>2, <2>3, <3>1, FullRead
    <3> QED
      BY <1>2, <1>6, <3>2 DEF Searching
  <2>4. CASE last + got < BUFSIZE
    <3>1. Searching(s, fname, text, to, Kept(array, BUFSIZE, cnt).data,
                    Kept(array, BUFSIZE, cnt).last, v \o Matches(s, fname, array, BUFSIZE, cnt))
      BY <1>1, <1>3, <2>1, <2>4, LastRead
    <3> QED
      BY <1>2, <1>6, <3>1
  <2> QED
    BY <2>2, <2>3, <2>4
<1> QED
  BY <1>5, <1>6

-----------------------------------------------------------------------------
(* Where grep is with its file: what it has open, and what the buffer and  *)
(* the byte behind it hold.                                                *)

ClearByte(b) == b.data[BUFSIZE + 1] # newline
Cleared(b, n) == (\E m \in 1 .. n : Clears(m)) => ClearByte(b)
InFile(k, s, fd, b, v) ==
    /\ OneFile(k, RTC_FILE_TYPE) => fd.file_type = RTC_FILE_TYPE /\ v = <<>> /\ b.last = 0
    /\ OneFile(k, REGULAR_FILE_TYPE) =>
          fd.file_type = REGULAR_FILE_TYPE /\ fd.inode = direntries[k].inode_num
    /\ Clears(k) => IF fd.file_position = 0 THEN b.last = 0 ELSE ClearByte(b)
    /\ Searchable(k) =>
          /\ Searching(s, direntries[k].filename, TextOf(k), fd.file_position,
                       b.data, b.last, v)
          /\ BUFSIZE <= Len(TextOf(k)) => ClearByte(b)

LEMMA TextOfIs ==
    ASSUME NEW k \in DOMAIN direntries
    PROVE  TextOf(k) \in Text /\ Len(TextOf(k)) \in Nat
BY EntryIs, ContentsIs DEF TextOf

LEMMA SearchableIs ==
    ASSUME NEW k \in DOMAIN direntries, Searchable(k), NEW s, Pattern(s)
    PROVE  Greps(s, direntries[k].filename, TextOf(k)) /\ ShortLines(TextOf(k))
<1>1. TextOf(k) \in Text /\ direntries[k].filename \in Text
  BY TextOfIs, EntryIs
<1>2. \A m \in 1 .. Len(TextOf(k)) :
          TextOf(k)[m] # nul /\ m - LineStart(TextOf(k), m) < BUFSIZE
  BY DEF Searchable
<1> QED
  BY <1>1, <1>2 DEF Greps, ShortLines

LEMMA GrepTextIs ==
    ASSUME NEW s, NEW k
    PROVE  /\ GrepText(s, k, FALSE) = WholeText(s, direntries[k].filename, TextOf(k))
           /\ GrepText(s, k, TRUE) = OneMore(s, direntries[k].filename, TextOf(k))
BY DEF GrepText, WholeText, OneMore

LEMMA OneKind ==
    ASSUME NEW k
    PROVE  /\ Searchable(k) => OneFile(k, REGULAR_FILE_TYPE)
           /\ Clears(k) => OneFile(k, REGULAR_FILE_TYPE)
           /\ OneFile(k, REGULAR_FILE_TYPE) => ~OneFile(k, RTC_FILE_TYPE) /\ ~Hidden(k)
BY DEF Searchable, Clears, OneFile, REGULAR_FILE_TYPE, RTC_FILE_TYPE

LEMMA AddsIs ==
    ASSUME NEW s, NEW k, NEW v
    PROVE  /\ Hidden(k) => (v = <<>> => Adds(s, k, v))
           /\ OneFile(k, RTC_FILE_TYPE) => (v = <<>> => Adds(s, k, v))
           /\ (~Hidden(k) /\ ~OneFile(k, RTC_FILE_TYPE) /\ ~Searchable(k)) => Adds(s, k, v)
           /\ Searchable(k) /\ v \in {WholeText(s, direntries[k].filename, TextOf(k)),
                                      OneMore(s, direntries[k].filename, TextOf(k))}
                => Adds(s, k, v)
<1>1. CASE Hidden(k) \/ OneFile(k, RTC_FILE_TYPE)
  <2>1. ~Searchable(k)
    BY <1>1, OneKind
  <2>2. Adds(s, k, v) <=> v = <<>>
    BY <1>1, <2>1 DEF Adds
  <2> QED
    BY <1>1, <2>1, <2>2
<1>2. CASE ~Hidden(k) /\ ~OneFile(k, RTC_FILE_TYPE) /\ Searchable(k)
  <2>1. Adds(s, k, v) <=> v \in {GrepText(s, k, FALSE), GrepText(s, k, TRUE)}
    BY <1>2 DEF Adds
  <2> QED
    BY <1>2, <2>1, GrepTextIs
<1>3. CASE ~Hidden(k) /\ ~OneFile(k, RTC_FILE_TYPE) /\ ~Searchable(k)
  <2>1. Adds(s, k, v)
    BY <1>3 DEF Adds
  <2> QED
    BY <1>3, <2>1
<1> QED
  BY <1>1, <1>2, <1>3

\* A file is opened at its first byte, under the name of its entry.
LEMMA OpensIt ==
    ASSUME NEW k \in DOMAIN direntries, NEW type, OneFile(k, type)
    PROVE  /\ open(direntries[k].filename).file_type = type
           /\ type = REGULAR_FILE_TYPE =>
                open(direntries[k].filename).inode = direntries[k].inode_num
<1>1. PICK fname \in Text : fname = direntries[k].filename
  BY EntryIs
<1>2. Names(k, fname) /\ direntries[k].file_type = type /\ direntries[k].filename = fname
  BY <1>1 DEF OneFile
<1>3. read_dentry_by_name(fname) # 0
  BY <1>2, FoundByName
<1>4. PICK j \in DOMAIN direntries : j = read_dentry_by_name(fname) /\ Names(j, fname)
  BY <1>3, FoundByName
<1>5. j = k
  <2>1. j \in 1 .. Len(direntries) /\ k \in 1 .. Len(direntries) /\ Len(direntries) \in Nat
    BY DiskConstants, LenProperties
  <2>2. ~(j < k) /\ ~(k < j)
    <3>1. j < k => j \in 1 .. k - 1
      BY <2>1
    <3>2. k < j => k \in 1 .. j - 1
      BY <2>1
    <3> QED
      BY <1>2, <1>4, <3>1, <3>2 DEF Names
  <2> QED
    BY <2>1, <2>2
<1> QED
  BY <1>1, <1>2, <1>3, <1>4, <1>5 DEF open

LEMMA OpensAtStart == ASSUME NEW fname PROVE open(fname).file_position = 0
BY DEF open, Closed

LEMMA FileBegins ==
    ASSUME NEW k \in DOMAIN direntries, NEW s, Pattern(s), NEW b, b.last = 0,
           NEW m \in Nat, m = k - 1, Cleared(b, m)
    PROVE  InFile(k, s, open(direntries[k].filename), b, <<>>)
<1> DEFINE fd == open(direntries[k].filename)
<1>1. fd.file_position = 0
  BY OpensAtStart
<1>2. OneFile(k, RTC_FILE_TYPE) => fd.file_type = RTC_FILE_TYPE
  BY OpensIt
<1>3. OneFile(k, REGULAR_FILE_TYPE) =>
          fd.file_type = REGULAR_FILE_TYPE /\ fd.inode = direntries[k].inode_num
  BY OpensIt
<1>4. ASSUME Searchable(k)
      PROVE  /\ Searching(s, direntries[k].filename, TextOf(k), fd.file_position,
                          b.data, b.last, <<>>)
             /\ BUFSIZE <= Len(TextOf(k)) => ClearByte(b)
  <2>1. PICK zero \in Nat : zero = 0
    OBVIOUS
  <2>2. \A i \in 1 .. zero : EndedLines(s, direntries[k].filename, TextOf(k))[i] = <<>>
    BY <2>1
  <2>3. Joint(EndedLines(s, direntries[k].filename, TextOf(k)), zero) = <<>>
    BY <2>2, JointEmpty
  <2>4. /\ zero + zero = zero /\ LineBegins(TextOf(k), zero)
        /\ Copies(b.data, TextOf(k), zero, zero) /\ Unended(b.data, zero)
    BY <2>1 DEF LineBegins, Copies, Unended
  <2>5. InLine(s, direntries[k].filename, TextOf(k), zero, b.data, zero, <<>>)
    BY <2>3, <2>4 DEF InLine
  <2>6. fd.file_position = zero /\ b.last = zero
    BY <1>1, <2>1
  <2>7. BUFSIZE <= Len(TextOf(k)) => ClearByte(b)
    <3>1. Len(TextOf(k)) \in Nat /\ BUFSIZE \in Nat
      BY TextOfIs, ProgramConstants
    <3>2. (BUFSIZE <= Len(TextOf(k))) => \E i \in 1 .. k - 1 : Clears(i)
      BY <1>4, <3>1 DEF Searchable
    <3> QED
      BY <3>2 DEF Cleared
  <2> HIDE DEF fd
  <2> QED
    BY <2>5, <2>6, <2>7 DEF Searching
<1> QED
  BY <1>1, <1>2, <1>3, <1>4 DEF InFile

\* What one call does, as far as the file goes.
Reads(s, fname, fd, b, r, array, claimed, kept, found) ==
    /\ r = read(fd, BUFSIZE - b.last) /\ array = Put(b.data, b.last, r.buf)
    /\ claimed = b.last + r.returned /\ kept = Kept(array, claimed, r.returned)
    /\ found = Matches(s, fname, array, claimed, r.returned)

\* What is known of the buffer before and after it.
Buffered(b, r, array, claimed, kept) ==
    /\ array \in Text /\ Len(array) = BUFSIZE + 1
    /\ claimed \in 0 .. BUFSIZE /\ (r.returned # 0 => claimed = BUFSIZE)
    /\ (r.returned = 0 => claimed = b.last)
    /\ array[BUFSIZE + 1] = b.data[BUFSIZE + 1]
    /\ ClearByte(b) => ClearByte(kept)
    /\ claimed = BUFSIZE /\ array[BUFSIZE] # newline => ClearByte(kept)

LEMMA ReadsInto ==
    ASSUME NEW s, NEW fname \in Text, NEW fd \in Fds, Stands(fd),
           fd.file_type \in {REGULAR_FILE_TYPE, RTC_FILE_TYPE},
           NEW b \in [data : Text, last : Nat], Len(b.data) = BUFSIZE + 1,
           b.last \in 0 .. BUFSIZE - 1, NEW r, NEW array, NEW claimed, NEW kept, NEW found,
           Reads(s, fname, fd, b, r, array, claimed, kept, found)
    PROVE  Buffered(b, r, array, claimed, kept) /\ found \in Prints
<1>1. PICK held \in Text, last \in 0 .. BUFSIZE - 1, n \in Nat :
        held = b.data /\ last = b.last /\ n = BUFSIZE - last /\ BUFSIZE \in Nat /\ last \in Nat
  <2>1. BUFSIZE \in Nat /\ BUFSIZE - b.last \in Nat
    BY ProgramConstants
  <2> QED
    BY <2>1
<1>2. r = read(fd, n) /\ array = Put(held, last, r.buf) /\ claimed = last + r.returned
      /\ kept = Kept(array, claimed, r.returned)
      /\ found = Matches(s, fname, array, claimed, r.returned)
  BY <1>1 DEF Reads
<1>3. fd.file_type # Failed
  BY DEF Failed, REGULAR_FILE_TYPE, RTC_FILE_TYPE
<1>4. r.buf \in Text /\ Len(r.buf) \in {0, n} /\ r.returned \in {0, n}
  BY <1>2, <1>3, ReadStands
<1>5. PICK buf \in Text : buf = r.buf
  BY <1>4
<1>6. last + Len(buf) <= Len(held) /\ last + Len(buf) <= BUFSIZE /\ Len(held) = BUFSIZE + 1
  BY <1>1, <1>4, <1>5
<1>7. array \in Text /\ Len(array) = BUFSIZE + 1 /\ array[BUFSIZE + 1] = held[BUFSIZE + 1]
  <2>1. /\ Put(held, last, buf) \in Text /\ Len(Put(held, last, buf)) = Len(held)
        /\ \A i \in last + Len(buf) + 1 .. Len(held) : Put(held, last, buf)[i] = held[i]
    BY <1>1, <1>6, PutIs
  <2>2. BUFSIZE + 1 \in last + Len(buf) + 1 .. Len(held)
    <3>1. Len(buf) \in Nat
      BY LenProperties DEF Text
    <3> QED
      BY <1>1, <1>6, <3>1
  <2> QED
    BY <1>2, <1>5, <1>6, <2>1, <2>2
<1>8. PICK cnt, to \in Nat : cnt = r.returned /\ to = claimed /\ to \in 0 .. BUFSIZE
        /\ (cnt # 0 => to = BUFSIZE) /\ (cnt = 0 => to = last)
  BY <1>1, <1>2, <1>4
<1>9. found \in Prints
  <2>1. to < Len(array)
    BY <1>1, <1>7, <1>8
  <2>2. Matches(s, fname, array, to, cnt) \in Prints
    BY <1>7, <1>8, <2>1, MatchesPrint
  <2> QED
    BY <1>2, <1>8, <2>2
<1>10. /\ ClearByte(b) => ClearByte(kept)
       /\ to = BUFSIZE /\ array[BUFSIZE] # newline => ClearByte(kept)
  <2>1. LET byte == Kept(array, to, cnt).data[BUFSIZE + 1]
        IN  /\ byte \in {nul, array[BUFSIZE + 1]}
            /\ to = BUFSIZE /\ array[BUFSIZE] # newline => byte = nul
    BY <1>7, <1>8, ByteBehind
  <2>2. PICK byte : byte = kept.data[BUFSIZE + 1] /\ byte \in {nul, b.data[BUFSIZE + 1]}
                    /\ (to = BUFSIZE /\ array[BUFSIZE] # newline => byte = nul)
    BY <1>1, <1>2, <1>7, <1>8, <2>1
  <2> QED
    BY <2>2 DEF ClearByte, nul, newline
<1> QED
  BY <1>1, <1>7, <1>8, <1>9, <1>10 DEF Buffered

LEMMA MatchesNone ==
    ASSUME NEW s, NEW fname, NEW array, NEW last \in Nat, last < 1, NEW cnt, cnt = 0
    PROVE  Matches(s, fname, array, last, cnt) = <<>>
<1>1. Unended(array, last) /\ ~GoesOn(array, last, cnt)
  BY DEF Unended, GoesOn
<1>2. LineStart(array, last) \in 0 .. last
  BY LineStartIs
<1>3. ~Occurs(s, Cut(array, last), LineStart(array, last), last)
  <2>1. LineStart(array, last) .. last - 1 = {}
    BY <1>2
  <2> QED
    BY <2>1 DEF Occurs
<1>4. \A k \in 1 .. last : Parts(s, fname, array, last)[k] = <<>>
  OBVIOUS
<1>5. Joint(Parts(s, fname, array, last), last) = <<>>
  BY <1>4, JointEmpty
<1>6. Matches(s, fname, array, last, cnt) = <<>> \o <<>>
  BY <1>1, <1>3, <1>5, MatchesAre DEF Found
<1> QED
  BY <1>6, NoPrint

\* A read of the RTC finds nothing, and prints nothing if nothing is held.
LEMMA RtcSearched ==
    ASSUME NEW k \in DOMAIN direntries, ~Hidden(k), NEW s, NEW fd \in Fds,
           fd.file_type = RTC_FILE_TYPE, NEW b, NEW v, InFile(k, s, fd, b, v), b.last \in Nat,
           BUFSIZE - b.last \in Nat,
           NEW fname, NEW r, NEW array, NEW claimed, NEW kept, NEW found,
           Reads(s, fname, fd, b, r, array, claimed, kept, found)
    PROVE  r.returned = 0 /\ Adds(s, k, v \o found) /\ ~Clears(k)
<1>1. r.returned = 0
  BY RtcAdds DEF Reads
<1>2. ~OneFile(k, REGULAR_FILE_TYPE)
  BY DEF InFile, RTC_FILE_TYPE, REGULAR_FILE_TYPE
<1>3. ~Searchable(k) /\ ~Clears(k)
  BY <1>2, OneKind
<1>4. CASE OneFile(k, RTC_FILE_TYPE)
  <2>1. v = <<>> /\ b.last = 0
    BY <1>4 DEF InFile
  <2>2. PICK last \in Nat, cnt \in Nat : last = claimed /\ last < 1 /\ cnt = r.returned
    BY <1>1, <2>1 DEF Reads
  <2>3. found = Matches(s, fname, array, last, cnt)
    BY <2>2 DEF Reads
  <2>4. cnt = 0
    BY <1>1, <2>2
  <2>5. Matches(s, fname, array, last, cnt) = <<>>
    BY <2>2, <2>4, MatchesNone
  <2>6. v \o found = <<>>
    BY <2>1, <2>3, <2>5, NoPrint
  <2> QED
    BY <1>1, <1>3, <1>4, <2>6, AddsIs
<1>5. CASE ~OneFile(k, RTC_FILE_TYPE)
  BY <1>1, <1>3, <1>5, AddsIs
<1> QED
  BY <1>4, <1>5

\* A read of a file prints what is due, and leaves the rest for the next ones.
LEMMA FileSearched ==
    ASSUME NEW k \in DOMAIN direntries, ~Hidden(k), NEW s, Pattern(s),
           NEW fd \in Fds, Stands(fd), fd.file_type = REGULAR_FILE_TYPE,
           NEW b \in [data : Text, last : Nat], Len(b.data) = BUFSIZE + 1,
           b.last \in 0 .. BUFSIZE - 1, NEW v, InFile(k, s, fd, b, v),
           NEW r, NEW array, NEW claimed, NEW kept, NEW found,
           Reads(s, direntries[k].filename, fd, b, r, array, claimed, kept, found),
           Buffered(b, r, array, claimed, kept)
    PROVE  /\ r.returned = 0 => Adds(s, k, v \o found) /\ (Clears(k) => ClearByte(kept))
           /\ r.returned # 0 => InFile(k, s, r.fd, kept, v \o found)
<1>1. PICK held \in Text, last \in 0 .. BUFSIZE - 1, n \in Nat \ {0}, pos \in Nat :
        /\ held = b.data /\ last = b.last /\ n = BUFSIZE - last /\ pos = fd.file_position
        /\ BUFSIZE \in Nat /\ last \in Nat /\ last + n = BUFSIZE
  <2>1. BUFSIZE \in Nat /\ BUFSIZE - b.last \in Nat \ {0} /\ b.last + (BUFSIZE - b.last) = BUFSIZE
    BY ProgramConstants
  <2>2. fd.file_position \in Nat
    BY DEF Fds
  <2> QED
    BY <2>1, <2>2
<1>2. /\ r = read(fd, n) /\ array = Put(held, last, r.buf) /\ claimed = last + r.returned
      /\ kept = Kept(array, claimed, r.returned)
      /\ found = Matches(s, direntries[k].filename, array, claimed, r.returned)
  BY <1>1 DEF Reads
<1>3. PICK text \in Text, L \in Nat, got \in Nat :
        /\ text = Contents(fd.inode) /\ L = Len(text) /\ pos <= L
        /\ FileReads(r, text, pos, n, got)
        /\ r.fd.file_type = fd.file_type /\ r.fd.inode = fd.inode
  <2>1. fd.inode \in DOMAIN inodes /\ fd.file_position \in 0 .. inodes[fd.inode].length
    BY DEF Stands, Size, REGULAR_FILE_TYPE, DIRECTORY_FILE_TYPE
  <2>2. /\ Contents(fd.inode) \in Text /\ Len(Contents(fd.inode)) = inodes[fd.inode].length
        /\ inodes[fd.inode].length \in Nat
    BY <2>1, ContentsIs
  <2>3. /\ read(fd, n).fd.file_type = fd.file_type /\ read(fd, n).fd.inode = fd.inode
        /\ \E got \in Nat : FileReads(read(fd, n), Contents(fd.inode), fd.file_position, n, got)
    BY FileReadIs
  <2> QED
    BY <1>1, <1>2, <2>1, <2>2, <2>3
<1>4. /\ r.fd.file_position = pos + got /\ (got = n \/ pos + got = L) /\ pos + got <= L
      /\ r.returned = 0 <=> pos = L
  BY <1>1, <1>3 DEF FileReads
<1>5. ~OneFile(k, RTC_FILE_TYPE)
  BY DEF InFile, RTC_FILE_TYPE, REGULAR_FILE_TYPE
<1>6. OneFile(k, REGULAR_FILE_TYPE) => fd.inode = direntries[k].inode_num /\ text = TextOf(k)
  BY <1>3 DEF InFile, TextOf
<1>7. (ClearByte(b) => ClearByte(kept))
      /\ (claimed = BUFSIZE /\ array[BUFSIZE] # newline => ClearByte(kept))
      /\ (r.returned # 0 => claimed = BUFSIZE) /\ (r.returned = 0 => claimed = last)
      /\ array \in Text
  BY <1>1 DEF Buffered
<1>8. ASSUME Clears(k)
      PROVE  /\ r.returned = 0 => ClearByte(kept)
             /\ r.returned # 0 => r.fd.file_position # 0 /\ ClearByte(kept)
  <2>1. OneFile(k, REGULAR_FILE_TYPE)
    BY <1>8, OneKind
  <2>2. L \in 1 .. BUFSIZE - 1
    BY <1>3, <1>6, <1>8, <2>1 DEF Clears
  <2>3. CASE pos = 0
    <3>1. last = 0 /\ r.returned # 0
      BY <1>1, <1>4, <1>8, <2>2, <2>3 DEF InFile
    <3>2. n = BUFSIZE /\ got < n /\ got # 0 /\ pos + got # 0 /\ last + got < BUFSIZE
      BY <1>1, <1>4, <2>2, <2>3, <3>1
    <3>3. array[BUFSIZE] = nul
      <4>1. ReadInto(held, last, text, pos, got, array)
        <5>1. Len(held) = BUFSIZE + 1
          BY <1>1
        <5>2. FileReads(r, text, pos, BUFSIZE - last, got)
          BY <1>1, <1>3
        <5> QED
          BY <1>2, <1>3, <5>1, <5>2, BufferRead
      <4>2. BUFSIZE \in last + got + 1 .. BUFSIZE
        <5>1. PICK K \in Nat : K = BUFSIZE
          BY <1>1
        <5>2. got \in Nat /\ last \in Nat /\ last + got < K
          BY <1>1, <1>3, <3>2, <5>1
        <5>3. K \in last + got + 1 .. K
          BY <5>2
        <5> QED
          BY <5>1, <5>3
      <4> QED
        BY <4>1, <4>2 DEF ReadInto
    <3> QED
      BY <1>4, <1>7, <3>1, <3>2, <3>3 DEF nul, newline
  <2>4. CASE pos # 0
    <3>1. ClearByte(b)
      BY <1>1, <1>8, <2>4 DEF InFile
    <3>2. pos + got # 0
      BY <2>4
    <3> QED
      BY <1>4, <1>7, <3>1, <3>2
  <2> QED
    BY <2>3, <2>4
<1>9. ASSUME Searchable(k)
      PROVE  /\ r.returned = 0 =>
                  v \o found \in {WholeText(s, direntries[k].filename, TextOf(k)),
                                  OneMore(s, direntries[k].filename, TextOf(k))}
             /\ r.returned # 0 =>
                  /\ Searching(s, direntries[k].filename, TextOf(k), r.fd.file_position,
                               kept.data, kept.last, v \o found)
                  /\ BUFSIZE <= Len(TextOf(k)) => ClearByte(kept)
  <2>1. text = TextOf(k)
    BY <1>6, <1>9, OneKind
  <2>2. PICK fname \in Text : fname = direntries[k].filename
    BY EntryIs
  <2>3. Greps(s, fname, text) /\ ShortLines(text)
    BY <1>9, <2>1, <2>2, SearchableIs
  <2>4. /\ Searching(s, fname, text, pos, held, last, v)
        /\ BUFSIZE <= Len(text) => ClearByte(b)
    BY <1>1, <1>9, <2>1, <2>2 DEF InFile
  <2>5. BUFSIZE <= Len(text) => held[BUFSIZE + 1] # newline
    BY <1>1, <2>4 DEF ClearByte
  <2>6. Len(held) = BUFSIZE + 1 /\ FileReads(r, text, pos, BUFSIZE - last, got) /\ pos <= Len(text)
    BY <1>1, <1>3
  <2>7. /\ pos = Len(text) =>
                \/ Makes(v, Matches(s, fname, array, last, r.returned), WholeText(s, fname, text))
                \/ Makes(v, Matches(s, fname, array, last, r.returned), OneMore(s, fname, text))
        /\ pos # Len(text) =>
                Searching(s, fname, text, r.fd.file_position,
                          Kept(array, BUFSIZE, r.returned).data,
                          Kept(array, BUFSIZE, r.returned).last,
                          v \o Matches(s, fname, array, BUFSIZE, r.returned))
    BY <1>2, <1>3, <1>7, <2>3, <2>4, <2>5, <2>6, SearchStep
  <2>8. CASE r.returned = 0
    <3>1. pos = Len(text) /\ found = Matches(s, fname, array, last, r.returned)
      BY <1>2, <1>3, <1>4, <1>7, <2>2, <2>8
    <3> QED
      BY <2>1, <2>2, <2>7, <2>8, <3>1 DEF Makes
  <2>9. CASE r.returned # 0
    <3>1. /\ pos # Len(text) /\ found = Matches(s, fname, array, BUFSIZE, r.returned)
          /\ kept = Kept(array, BUFSIZE, r.returned)
      BY <1>2, <1>3, <1>4, <1>7, <2>2, <2>9
    <3> QED
      BY <1>7, <2>1, <2>2, <2>4, <2>7, <2>9, <3>1
  <2> QED
    BY <2>8, <2>9
<1>10. CASE r.returned = 0
  <2>1. Adds(s, k, v \o found)
    <3>1. CASE Searchable(k)
      BY <1>9, <1>10, <3>1, AddsIs
    <3>2. CASE ~Searchable(k)
      BY <1>5, <3>2, AddsIs
    <3> QED
      BY <3>1, <3>2
  <2> QED
    BY <1>8, <1>10, <2>1
<1>11. CASE r.returned # 0
  <2>1. OneFile(k, REGULAR_FILE_TYPE) =>
          r.fd.file_type = REGULAR_FILE_TYPE /\ r.fd.inode = direntries[k].inode_num
    BY <1>3, <1>6
  <2>2. Clears(k) => IF r.fd.file_position = 0 THEN kept.last = 0 ELSE ClearByte(kept)
    BY <1>8, <1>11
  <2> QED
    BY <1>5, <1>9, <1>11, <2>1, <2>2 DEF InFile
<1> QED
  BY <1>10, <1>11

-----------------------------------------------------------------------------
(* Between two entries of the directory, and in the middle of one. *)

Between(s, n, b, text) ==
    text \in Prints /\ Len(text) \in Reach(s, text, n) /\ Cleared(b, n)
Midway(s, fd, n, fname, b, text) ==
    \E u \in Prints, v \in Prints, m \in Nat :
        /\ n = m + 1 /\ n \in DOMAIN direntries /\ ~Hidden(n)
        /\ fname = direntries[n].filename
        /\ text = u \o v /\ Len(u) \in Reach(s, u, m)
        /\ Cleared(b, m) /\ InFile(n, s, fd, b, v)

LEMMA ClearedStays ==
    ASSUME NEW b, NEW b2, ClearByte(b) => ClearByte(b2), NEW m, Cleared(b, m)
    PROVE  Cleared(b2, m)
BY DEF Cleared

LEMMA ClearedNext ==
    ASSUME NEW b, NEW m \in Nat, NEW n \in Nat, n = m + 1, Cleared(b, m), Clears(n) => ClearByte(b)
    PROVE  Cleared(b, n)
<1>1. \A i \in 1 .. n : i \in 1 .. m \/ i = n
  OBVIOUS
<1> QED
  BY <1>1 DEF Cleared

LEMMA ReachEntryAdds ==
    ASSUME NEW s, NEW u \in Prints, NEW v \in Prints, NEW m \in Nat, NEW n \in Nat, n = m + 1,
           Len(u) \in Reach(s, u, m), Adds(s, n, v)
    PROVE  u \o v \in Prints /\ Len(u \o v) \in Reach(s, u \o v, n)
BY TwoPrints, ReachEntry

LEMMA HiddenEntry ==
    ASSUME NEW s, NEW b, NEW text, NEW m \in Nat, NEW n \in Nat, n = m + 1,
           Between(s, m, b, text), Hidden(n)
    PROVE  Between(s, n, b, text)
<1>1. text \in Prints /\ Len(text) \in Reach(s, text, m) /\ Cleared(b, m)
  BY DEF Between
<1>2. PICK v \in Prints : v = <<>>
  BY NoPrint
<1>3. Adds(s, n, v)
  BY <1>2, AddsIs
<1>4. text \o v = text
  BY <1>1, <1>2, NoPrint
<1>5. Len(text \o v) \in Reach(s, text \o v, n)
  BY <1>1, <1>3, ReachEntryAdds
<1>6. ~Clears(n)
  BY OneKind
<1>7. Cleared(b, n)
  BY <1>1, <1>6, ClearedNext
<1> QED
  BY <1>1, <1>4, <1>5, <1>7 DEF Between

LEMMA EntryBegins ==
    ASSUME NEW s, Pattern(s), NEW b, NEW b2, ClearByte(b) => ClearByte(b2), b2.last = 0,
           NEW text, NEW m \in Nat, NEW n \in Nat, n = m + 1, n \in DOMAIN direntries, ~Hidden(n),
           Between(s, m, b, text), NEW fname, fname = direntries[n].filename
    PROVE  Midway(s, open(fname), n, fname, b2, text)
<1>1. text \in Prints /\ Len(text) \in Reach(s, text, m) /\ Cleared(b, m)
  BY DEF Between
<1>2. <<>> \in Prints /\ text = text \o <<>>
  BY <1>1, NoPrint
<1>3. Cleared(b2, m)
  BY <1>1, ClearedStays
<1>4. InFile(n, s, open(direntries[n].filename), b2, <<>>)
  <2>1. m = n - 1
    OBVIOUS
  <2> QED
    BY <1>3, <2>1, FileBegins
<1> QED
  BY <1>1, <1>2, <1>3, <1>4 DEF Midway

LEMMA EntryGoesOn ==
    ASSUME NEW s, Pattern(s), NEW fd \in Fds, Stands(fd),
           fd.file_type \in {REGULAR_FILE_TYPE, RTC_FILE_TYPE},
           NEW b \in [data : Text, last : Nat], Len(b.data) = BUFSIZE + 1,
           b.last \in 0 .. BUFSIZE - 1, NEW n \in Nat, NEW fname, NEW text,
           Midway(s, fd, n, fname, b, text),
           NEW r, NEW array, NEW claimed, NEW kept, NEW found,
           Reads(s, fname, fd, b, r, array, claimed, kept, found)
    PROVE  /\ r.returned = 0 => Between(s, n, kept, text \o found)
           /\ r.returned # 0 => Midway(s, r.fd, n, fname, kept, text \o found)
<1>1. PICK u \in Prints, v \in Prints, m \in Nat :
        /\ n = m + 1 /\ n \in DOMAIN direntries /\ ~Hidden(n)
        /\ fname = direntries[n].filename
        /\ text = u \o v /\ Len(u) \in Reach(s, u, m)
        /\ Cleared(b, m) /\ InFile(n, s, fd, b, v)
  BY DEF Midway
<1>2. fname \in Text
  BY <1>1, EntryIs
<1>3. Buffered(b, r, array, claimed, kept) /\ found \in Prints
  BY <1>2, ReadsInto
<1>4. Reads(s, direntries[n].filename, fd, b, r, array, claimed, kept, found)
  BY <1>1
<1>5. Cleared(kept, m)
  BY <1>1, <1>3, ClearedStays DEF Buffered
<1>6. v \o found \in Prints /\ text \o found = u \o (v \o found)
  BY <1>1, <1>3, TwoPrints, ThreePrints
<1>7. /\ r.returned = 0 => Adds(s, n, v \o found) /\ (Clears(n) => ClearByte(kept))
      /\ r.returned # 0 => InFile(n, s, r.fd, kept, v \o found)
  <2>1. CASE fd.file_type = REGULAR_FILE_TYPE
    BY <1>1, <1>3, <1>4, <2>1, FileSearched
  <2>2. CASE fd.file_type = RTC_FILE_TYPE
    <3>1. b.last \in Nat /\ BUFSIZE - b.last \in Nat
      BY ProgramConstants
    <3>2. r.returned = 0 /\ Adds(s, n, v \o found) /\ ~Clears(n)
      BY <1>1, <1>4, <2>2, <3>1, RtcSearched
    <3> QED
      BY <3>2
  <2> QED
    BY <2>1, <2>2
<1>8. CASE r.returned = 0
  <2>1. u \o (v \o found) \in Prints
        /\ Len(u \o (v \o found)) \in Reach(s, u \o (v \o found), n)
    BY <1>1, <1>6, <1>7, <1>8, ReachEntryAdds
  <2>2. Cleared(kept, n)
    BY <1>1, <1>5, <1>7, <1>8, ClearedNext
  <2> QED
    BY <1>6, <1>8, <2>1, <2>2 DEF Between
<1>9. CASE r.returned # 0
  BY <1>1, <1>5, <1>6, <1>7, <1>9 DEF Midway
<1> QED
  BY <1>8, <1>9

-----------------------------------------------------------------------------
(* What every grep has printed so far: what the entries behind it may have *)
(* left, and what is due of the file that it searches.                     *)

Searches(program, s) == program = <<"grep">> /\ s # NoArguments /\ nul \notin ToSet(s)
Finding(where, s, fd, n, fname, b, text) ==
    /\ where = "opendir" => text = <<>>
    /\ where = "next" => Between(s, n, b, text)
    /\ where = "search" => Midway(s, fd, n, fname, b, text)
    /\ where = "shell" => Len(text) \in Reach(s, text, Len(direntries))
GrepsAt(where, program, s, fd, n, fname, b, text) ==
    Searches(program, s) => Finding(where, s, fd, n, fname, b, text)

GrepInv ==
    /\ DOMAIN name = Terminals
    /\ \A t \in Terminals :
          GrepsAt(at[t], Program(t), args[t], file[t], dir[t].file_position,
                  name[t], buffer[t], shown[t])

LEMMA OthersGrep ==
    ASSUME PInv, GrepInv, NEW t \in Terminals, DOMAIN name' = Terminals,
           \A u \in Terminals : u # t =>
               /\ at'[u] = at[u] /\ command'[u] = command[u] /\ args'[u] = args[u]
               /\ file'[u] = file[u] /\ dir'[u] = dir[u] /\ shown'[u] = shown[u]
               /\ name'[u] = name[u] /\ buffer'[u] = buffer[u],
           GrepsAt(at'[t], Program(t)', args'[t], file'[t], dir'[t].file_position,
                   name'[t], buffer'[t], shown'[t])
    PROVE  GrepInv'
<1> SUFFICES ASSUME NEW u \in Terminals
             PROVE  GrepsAt(at'[u], Program(u)', args'[u], file'[u], dir'[u].file_position,
                            name'[u], buffer'[u], shown'[u])
  BY DEF GrepInv
<1>1. CASE u = t
  BY <1>1
<1>2. CASE u # t
  <2>1. Program(u)' = Program(u)
    BY <1>2 DEF Program
  <2>2. GrepsAt(at[u], Program(u), args[u], file[u], dir[u].file_position,
                name[u], buffer[u], shown[u])
    BY DEF GrepInv
  <2> QED
    BY <1>2, <2>1, <2>2
<1> QED
  BY <1>1, <1>2

\* The pattern of a grep.
LEMMA SearchedFor ==
    ASSUME NEW program, NEW s \in Text, Searches(program, s)
    PROVE  Pattern(s)
<1>1. s # <<>> /\ nul \notin ToSet(s)
  BY DEF Searches, NoArguments
<1>2. \A m \in 1 .. Len(s) : s[m] # nul
  <2>1. s \in Seq(Characters)
    BY DEF Text
  <2>2. DOMAIN s = 1 .. Len(s)
    BY <2>1, LenProperties
  <2>3. \A m \in 1 .. Len(s) : s[m] \in ToSet(s)
    BY <2>2 DEF ToSet
  <2> QED
    BY <1>1, <2>3
<1> QED
  BY <1>1, <1>2 DEF Pattern

LEMMA GrepStart == Init => GrepInv
<1> SUFFICES ASSUME Init, NEW t \in Terminals
             PROVE  GrepsAt(at[t], Program(t), args[t], file[t], dir[t].file_position,
                            name[t], buffer[t], shown[t])
  BY DEF Init, GrepInv
<1>1. args[t] = NoArguments
  BY DEF Init
<1> QED
  BY <1>1 DEF GrepsAt, Searches

\* The programs that are not grep, and grep before it has its arguments.
LEMMA NoGrep ==
    ASSUME NEW where, NEW program, NEW s, NEW fd, NEW n, NEW fname, NEW b, NEW text,
           program # <<"grep">> \/ s = NoArguments
    PROVE  GrepsAt(where, program, s, fd, n, fname, b, text)
BY DEF GrepsAt, Searches

LEMMA StaleEndsGreps ==
    ASSUME PInv, ToldInv, GrepInv, NEW t \in Terminals, StaleEnds(t) PROVE GrepInv'
<1>1. /\ at[t] = "stale" /\ at' = [at EXCEPT ![t] = "shell"]
      /\ shown' = [shown EXCEPT ![t] = @ \o (<<>> \o Says(256))]
      /\ UNCHANGED <<command, args, file, dir, name, buffer>>
  BY DEF StaleEnds, Ends, Goes, Shows, process
<1>2. Told(at[t], Program(t), args[t], file[t], dir[t], shown[t])
  BY DEF ToldInv
<1>3. args'[t] = NoArguments
  BY <1>1, <1>2 DEF Told, Calling
<1>4. GrepsAt(at'[t], Program(t)', args'[t], file'[t], dir'[t].file_position,
              name'[t], buffer'[t], shown'[t])
  BY <1>3, NoGrep
<1> QED
  BY <1>1, <1>4, OthersGrep DEF GrepInv, ToldInv, PInv, Typed

LEMMA getargsGreps ==
    ASSUME PInv, ToldInv, GrepInv, NEW t \in Terminals, getargs(t) PROVE GrepInv'
<1>1. /\ at[t] = "getargs" /\ UNCHANGED <<command, file, dir, name, buffer>>
      /\ Program(t)' = Program(t)
  BY DEF getargs, Program
<1>2. Told(at[t], Program(t), args[t], file[t], dir[t], shown[t])
  BY DEF ToldInv
<1>3. args[t] = NoArguments /\ shown[t] = <<>>
  BY <1>1, <1>2 DEF Told, Calling
<1>4. PICK ended : ended = Ended(stored_buf, BUFSIZE)
  OBVIOUS
<1>5. CASE ArgumentsFit(ended, BUFSIZE)
  <2>1. /\ args' = [args EXCEPT ![t] = ended]
        /\ at' = [at EXCEPT ![t] = IF Program(t) = <<"cat">> THEN "open" ELSE "opendir"]
        /\ UNCHANGED shown
    BY <1>4, <1>5 DEF getargs, Goes
  <2>2. at'[t] = IF Program(t) = <<"cat">> THEN "open" ELSE "opendir"
    BY <2>1 DEF PInv, Typed
  <2>3. shown'[t] = <<>>
    BY <1>3, <2>1
  <2>4. CASE Program(t) = <<"grep">>
    <3>1. at'[t] = "opendir"
      BY <2>2, <2>4
    <3>2. GrepsAt(at'[t], Program(t)', args'[t], file'[t], dir'[t].file_position,
                  name'[t], buffer'[t], shown'[t])
      BY <2>3, <3>1 DEF GrepsAt, Finding
    <3> QED
      BY <1>1, <2>1, <3>2, OthersGrep DEF GrepInv, ToldInv, PInv, Typed
  <2>5. CASE Program(t) # <<"grep">>
    <3>1. Program(t)' # <<"grep">>
      BY <1>1, <2>5
    <3>2. GrepsAt(at'[t], Program(t)', args'[t], file'[t], dir'[t].file_position,
                  name'[t], buffer'[t], shown'[t])
      BY <3>1, NoGrep
    <3> QED
      BY <1>1, <2>1, <3>2, OthersGrep DEF GrepInv, ToldInv, PInv, Typed
  <2> QED
    BY <2>4, <2>5
<1>6. CASE ~ArgumentsFit(ended, BUFSIZE)
  <2>1. /\ at' = [at EXCEPT ![t] = "shell"] /\ UNCHANGED args
        /\ shown' = [shown EXCEPT ![t] = @ \o (<<"could not read arguments">> \o Says(3))]
    BY <1>4, <1>6 DEF getargs, Ends, Goes, Shows
  <2>2. args'[t] = NoArguments
    BY <1>3, <2>1
  <2>3. GrepsAt(at'[t], Program(t)', args'[t], file'[t], dir'[t].file_position,
                name'[t], buffer'[t], shown'[t])
    BY <2>2, NoGrep
  <2> QED
    BY <1>1, <2>1, <2>3, OthersGrep DEF GrepInv, ToldInv, PInv, Typed
<1> QED
  BY <1>5, <1>6

\* A step of cat or ls.
LEMMA OtherProgramGreps ==
    ASSUME PInv, ToldInv, GrepInv, NEW t \in Terminals, at[t] \in {"open", "copy", "list"},
           UNCHANGED <<command, args, name, buffer>>,
           \A u \in Terminals : u # t =>
               /\ at'[u] = at[u] /\ shown'[u] = shown[u]
               /\ file'[u] = file[u] /\ dir'[u] = dir[u]
    PROVE  GrepInv'
<1>1. Told(at[t], Program(t), args[t], file[t], dir[t], shown[t])
  BY DEF ToldInv
<1>2. Program(t) # <<"grep">> /\ Program(t)' = Program(t)
  BY <1>1 DEF Told, Calling, Program
<1>3. GrepsAt(at'[t], Program(t)', args'[t], file'[t], dir'[t].file_position,
              name'[t], buffer'[t], shown'[t])
  BY <1>2, NoGrep
<1> QED
  BY <1>3, OthersGrep DEF GrepInv

LEMMA CatGreps ==
    ASSUME PInv, ToldInv, GrepInv, NEW t \in Terminals, CatOpen(t) \/ CatCopy(t)
    PROVE  GrepInv'
<1>1. at[t] \in {"open", "copy"} /\ UNCHANGED <<command, args, dir, name, buffer>>
  BY DEF CatOpen, CatCopy
<1>2. /\ at' = at \/ \E to : at' = [at EXCEPT ![t] = to]
      /\ shown' = shown \/ \E text : shown' = [shown EXCEPT ![t] = @ \o text]
      /\ \E fd : file' = [file EXCEPT ![t] = fd]
  BY DEF CatOpen, CatCopy, Ends, Goes, Shows
<1>3. \A u \in Terminals : u # t =>
          at'[u] = at[u] /\ shown'[u] = shown[u] /\ file'[u] = file[u] /\ dir'[u] = dir[u]
  BY <1>1, <1>2 DEF PInv, Typed, ToldInv
<1> QED
  BY <1>1, <1>3, OtherProgramGreps

LEMMA LsListGreps ==
    ASSUME PInv, ToldInv, GrepInv, NEW t \in Terminals, LsList(t) PROVE GrepInv'
<1>1. at[t] = "list" /\ UNCHANGED <<command, args, file, name, buffer>>
  BY DEF LsList
<1>2. /\ at' = at \/ \E to : at' = [at EXCEPT ![t] = to]
      /\ shown' = shown \/ \E text : shown' = [shown EXCEPT ![t] = @ \o text]
      /\ \E fd : dir' = [dir EXCEPT ![t] = fd]
  BY DEF LsList, Ends, Goes, Shows
<1>3. \A u \in Terminals : u # t =>
          at'[u] = at[u] /\ shown'[u] = shown[u] /\ file'[u] = file[u] /\ dir'[u] = dir[u]
  BY <1>1, <1>2 DEF PInv, Typed, ToldInv
<1> QED
  BY <1>1, <1>3, OtherProgramGreps

LEMMA executeGreps ==
    ASSUME PInv, ToldInv, GrepInv, NEW t \in Terminals, NEW line \in Commands[t],
           NEW stale \in BOOLEAN, execute(t, line, stale)
    PROVE  GrepInv'
<1>1. PICK k : Load(t, k, stale) \/ NoSuchCommand(t)
  BY DEF execute
<1>2. command' = [command EXCEPT ![t] = line]
  BY DEF execute, ParseArgs
<1>3. /\ args' = [args EXCEPT ![t] = NoArguments]
      /\ at' = at \/ \E to : at' = [at EXCEPT ![t] = to]
      /\ \E text : shown' = [shown EXCEPT ![t] = text]
      /\ file' = file \/ \E fd : file' = [file EXCEPT ![t] = fd]
      /\ dir' = dir \/ \E fd : dir' = [dir EXCEPT ![t] = fd]
      /\ name' = name \/ name' = [name EXCEPT ![t] = <<>>]
      /\ buffer' = buffer \/ buffer' = [buffer EXCEPT ![t] = NoBuffer]
  BY <1>1 DEF Load, NoSuchCommand, Goes
<1>4. args'[t] = NoArguments
  BY <1>3 DEF PInv, Typed
<1>5. GrepsAt(at'[t], Program(t)', args'[t], file'[t], dir'[t].file_position,
              name'[t], buffer'[t], shown'[t])
  BY <1>4, NoGrep
<1>6. DOMAIN name' = Terminals
  BY <1>3 DEF GrepInv
<1>7. \A u \in Terminals : u # t =>
        /\ at'[u] = at[u] /\ command'[u] = command[u] /\ args'[u] = args[u]
        /\ file'[u] = file[u] /\ dir'[u] = dir[u] /\ shown'[u] = shown[u]
        /\ name'[u] = name[u] /\ buffer'[u] = buffer[u]
  BY <1>2, <1>3 DEF PInv, Typed, ToldInv, GrepInv
<1> QED
  BY <1>5, <1>6, <1>7, OthersGrep

LEMMA BetweenNone ==
    ASSUME NEW s, NEW b, NEW n \in Nat, n < 1
    PROVE  Between(s, n, b, <<>>)
<1>1. PICK text \in Prints : text = <<>>
  BY NoPrint
<1>2. Len(text) \in Reach(s, text, n)
  <2>1. Reach(s, text, 0) = {0}
    BY <1>1, ReachNext
  <2>2. n = 0
    OBVIOUS
  <2>3. Len(text) = 0
    BY <1>1
  <2> QED
    BY <2>1, <2>2, <2>3
<1>3. Cleared(b, n)
  BY DEF Cleared
<1> QED
  BY <1>1, <1>2, <1>3 DEF Between

LEMMA OpenDirGreps ==
    ASSUME PInv, ToldInv, GrepInv, NEW t \in Terminals, NEW junk \in {nul, newline},
           OpenDir(t, junk)
    PROVE  GrepInv'
<1>1. /\ at[t] = "opendir" /\ UNCHANGED <<command, args, file, name, shown>>
      /\ dir' = [dir EXCEPT ![t] = open(dot)] /\ Program(t)' = Program(t)
      /\ at' = [at EXCEPT ![t] = IF Program(t) = <<"ls">> THEN "list" ELSE "next"]
      /\ \E b : buffer' = [buffer EXCEPT ![t] = b]
  <2>1. \E b : buffer' = [buffer EXCEPT ![t] = b]
    BY DEF OpenDir
  <2> QED
    BY <2>1 DEF OpenDir, Goes, Program
<1>2. /\ dir'[t] = open(dot)
      /\ at'[t] = IF Program(t) = <<"ls">> THEN "list" ELSE "next"
  BY <1>1 DEF PInv, Typed
<1>3. GrepsAt(at[t], Program(t), args[t], file[t], dir[t].file_position,
              name[t], buffer[t], shown[t])
  BY DEF GrepInv
<1>4. ASSUME Searches(Program(t), args[t])
      PROVE  Finding(at'[t], args'[t], file'[t], dir'[t].file_position,
                     name'[t], buffer'[t], shown'[t])
  <2>1. at'[t] = "next"
    BY <1>2, <1>4 DEF Searches
  <2>2. shown'[t] = <<>>
    BY <1>1, <1>3, <1>4 DEF GrepsAt, Finding
  <2>3. PICK n \in Nat : n = dir'[t].file_position /\ n < 1
    BY <1>2, OpensAtStart
  <2>4. Between(args'[t], n, buffer'[t], <<>>)
    BY <2>3, BetweenNone
  <2> QED
    BY <2>1, <2>2, <2>3, <2>4 DEF Finding
<1>5. GrepsAt(at'[t], Program(t)', args'[t], file'[t], dir'[t].file_position,
              name'[t], buffer'[t], shown'[t])
  BY <1>1, <1>4 DEF GrepsAt
<1> QED
  BY <1>1, <1>5, OthersGrep DEF GrepInv, ToldInv, PInv, Typed

\* What a read of the directory gives grep.
LEMMA NextName ==
    ASSUME NEW fd \in Fds, Stands(fd), fd.file_type = DIRECTORY_FILE_TYPE
    PROVE  LET r == read(fd, DENTRY_FILE_NAME_LEN)
               p == fd.file_position
           IN  /\ r.returned = 0 => p = Len(direntries)
               /\ r.returned # 0 =>
                    /\ p + 1 \in DOMAIN direntries /\ r.fd.file_position = p + 1
                    /\ CString(r.buf) = direntries[p + 1].filename
<1>1. PICK r : r = read(fd, DENTRY_FILE_NAME_LEN)
  OBVIOUS
<1>2. PICK p \in Nat : p = fd.file_position
  BY DEF Fds
<1>3. DENTRY_FILE_NAME_LEN \in Nat \ {0}
  BY DiskConstants
<1>4. /\ r.returned = 0 => p = Len(direntries)
      /\ r.returned # 0 => p + 1 \in 1 .. Len(direntries) /\ r.fd.file_position = p + 1
  BY <1>1, <1>2, <1>3, DirectoryAdds
<1>5. ASSUME r.returned # 0
      PROVE  p + 1 \in DOMAIN direntries /\ CString(r.buf) = direntries[p + 1].filename
  <2>1. p + 1 \in DOMAIN direntries /\ ~(p >= Len(direntries))
    BY <1>4, <1>5, DiskConstants, LenProperties
  <2>2. r = directory_read(fd, DENTRY_FILE_NAME_LEN)
    BY <1>1 DEF read, REGULAR_FILE_TYPE, DIRECTORY_FILE_TYPE, RTC_FILE_TYPE
  <2>3. r.buf = Filled(direntries[p + 1].filename, DENTRY_FILE_NAME_LEN)
    BY <1>2, <1>3, <2>1, <2>2 DEF directory_read
  <2>4. PICK entry \in Text :
          /\ entry = direntries[p + 1].filename /\ Len(entry) \in 1 .. DENTRY_FILE_NAME_LEN
          /\ \A m \in 1 .. Len(entry) : entry[m] # nul
    BY <2>1, EntryIs
  <2>5. DENTRY_FILE_NAME_LEN \in Nat /\ Len(entry) <= DENTRY_FILE_NAME_LEN
    BY <1>3, <2>4
  <2>6. CString(Filled(entry, DENTRY_FILE_NAME_LEN)) = entry
    BY <2>4, <2>5, NameComesBack
  <2> QED
    BY <2>1, <2>3, <2>4, <2>6
<1> QED
  BY <1>1, <1>2, <1>4, <1>5

LEMMA GrepNextGreps ==
    ASSUME PInv, ToldInv, GrepInv, NEW t \in Terminals, GrepNext(t) PROVE GrepInv'
<1>1. PICK fd \in Fds : fd = dir[t] /\ Stands(fd) /\ fd.file_type = DIRECTORY_FILE_TYPE
  BY DEF PInv, Typed, Opened, GrepNext
<1>2. PICK r : r = read(fd, DENTRY_FILE_NAME_LEN)
  OBVIOUS
<1>3. PICK p \in Nat, n \in Nat : p = fd.file_position /\ n = p + 1
  BY DEF Fds
<1>4. /\ r.returned = 0 => p = Len(direntries)
      /\ r.returned # 0 => /\ n \in DOMAIN direntries /\ r.fd.file_position = n
                           /\ CString(r.buf) = direntries[n].filename
  BY <1>1, <1>2, <1>3, NextName
<1>5. /\ at[t] = "next" /\ dir' = [dir EXCEPT ![t] = r.fd] /\ dir'[t] = r.fd
      /\ UNCHANGED <<command, args>> /\ Program(t)' = Program(t)
  BY <1>1, <1>2 DEF GrepNext, PInv, Typed, Program
<1>6. GrepsAt(at[t], Program(t), args[t], file[t], p, name[t], buffer[t], shown[t])
  BY <1>1, <1>3 DEF GrepInv
<1>7. Searches(Program(t), args[t]) =>
          Between(args[t], p, buffer[t], shown[t]) /\ Pattern(args[t])
  <2>1. args[t] \in Text
    BY DEF PInv, Typed
  <2> QED
    BY <1>5, <1>6, <2>1, SearchedFor DEF GrepsAt, Finding
<1>8. CASE r.returned = 0
  <2>1. /\ at' = [at EXCEPT ![t] = "shell"] /\ shown' = [shown EXCEPT ![t] = @ \o (<<>> \o <<>>)]
        /\ UNCHANGED <<file, name, buffer>>
    BY <1>1, <1>2, <1>8, SayNothing DEF GrepNext, Ends, Goes, Shows
  <2>2. at'[t] = "shell" /\ shown'[t] = shown[t] \o (<<>> \o <<>>)
    BY <2>1 DEF PInv, Typed, ToldInv
  <2>3. ASSUME Searches(Program(t), args[t])
        PROVE  Finding(at'[t], args'[t], file'[t], dir'[t].file_position,
                       name'[t], buffer'[t], shown'[t])
    <3>1. shown[t] \in Prints /\ Len(shown[t]) \in Reach(args[t], shown[t], p)
      BY <1>7, <2>3 DEF Between
    <3>2. <<>> \o <<>> = <<>> /\ shown[t] \o <<>> = shown[t]
      BY <3>1, NoPrint
    <3>3. shown'[t] = shown[t]
      BY <2>2, <3>2
    <3>4. Len(shown[t]) \in Reach(args[t], shown[t], Len(direntries))
      BY <1>4, <1>8, <3>1
    <3> QED
      BY <1>5, <2>2, <3>3, <3>4 DEF Finding
  <2>4. GrepsAt(at'[t], Program(t)', args'[t], file'[t], dir'[t].file_position,
                name'[t], buffer'[t], shown'[t])
    BY <1>5, <2>3 DEF GrepsAt
  <2> QED
    BY <1>5, <2>1, <2>4, OthersGrep DEF GrepInv, ToldInv, PInv, Typed
<1>9. CASE r.returned # 0 /\ CString(r.buf)[1] = "."
  <2>1. UNCHANGED <<at, shown, file, name, buffer>>
    BY <1>1, <1>2, <1>9 DEF GrepNext
  <2>2. at'[t] = "next" /\ dir'[t].file_position = n
    BY <1>4, <1>5, <1>9, <2>1
  <2>3. ASSUME Searches(Program(t), args[t])
        PROVE  Finding(at'[t], args'[t], file'[t], dir'[t].file_position,
                       name'[t], buffer'[t], shown'[t])
    <3>1. Hidden(n)
      BY <1>4, <1>9 DEF Hidden
    <3>2. Between(args[t], n, buffer[t], shown[t])
      BY <1>3, <1>7, <2>3, <3>1, HiddenEntry
    <3> QED
      BY <1>5, <2>1, <2>2, <3>2 DEF Finding
  <2>4. GrepsAt(at'[t], Program(t)', args'[t], file'[t], dir'[t].file_position,
                name'[t], buffer'[t], shown'[t])
    BY <1>5, <2>3 DEF GrepsAt
  <2> QED
    BY <1>5, <2>1, <2>4, OthersGrep DEF GrepInv, ToldInv, PInv, Typed
<1>10. CASE r.returned # 0 /\ CString(r.buf)[1] # "."
  <2>1. PICK fname : fname = direntries[n].filename
    OBVIOUS
  <2>2. /\ file' = [file EXCEPT ![t] = open(fname)] /\ name' = [name EXCEPT ![t] = fname]
        /\ buffer' = [buffer EXCEPT ![t].last = 0] /\ at' = [at EXCEPT ![t] = "search"]
        /\ UNCHANGED shown
    BY <1>1, <1>2, <1>4, <1>10, <2>1 DEF GrepNext, Goes
  <2>3. /\ file'[t] = open(fname) /\ name'[t] = fname /\ at'[t] = "search"
        /\ dir'[t].file_position = n
    BY <1>4, <1>5, <1>10, <2>2 DEF PInv, Typed, GrepInv
  <2>4. PICK b, b2 : /\ b = buffer[t] /\ b2 = buffer'[t]
                     /\ b2.last = 0 /\ b2.data = b.data
    <3>1. buffer[t] \in [data : Text, last : Nat] /\ t \in DOMAIN buffer
      BY DEF PInv, Typed
    <3>2. buffer'[t] = [buffer[t] EXCEPT !.last = 0]
      BY <2>2, <3>1
    <3> QED
      BY <3>1, <3>2
  <2>5. ASSUME Searches(Program(t), args[t])
        PROVE  Finding(at'[t], args'[t], file'[t], dir'[t].file_position,
                       name'[t], buffer'[t], shown'[t])
    <3>1. ~Hidden(n) /\ n \in DOMAIN direntries
      BY <1>4, <1>10 DEF Hidden
    <3>2. ClearByte(b) => ClearByte(b2)
      BY <2>4 DEF ClearByte
    <3>3. Between(args[t], p, b, shown[t]) /\ Pattern(args[t])
      BY <1>7, <2>4, <2>5
    <3>4. Midway(args[t], open(fname), n, fname, b2, shown[t])
      BY <1>3, <2>1, <2>4, <3>1, <3>2, <3>3, EntryBegins
    <3> QED
      BY <1>5, <2>2, <2>3, <2>4, <3>4 DEF Finding
  <2>6. GrepsAt(at'[t], Program(t)', args'[t], file'[t], dir'[t].file_position,
                name'[t], buffer'[t], shown'[t])
    BY <1>5, <2>5 DEF GrepsAt
  <2> QED
    BY <1>5, <2>2, <2>6, OthersGrep DEF GrepInv, ToldInv, PInv, Typed
<1> QED
  BY <1>8, <1>9, <1>10

LEMMA GrepSearchGreps ==
    ASSUME PInv, ToldInv, GrepInv, NEW t \in Terminals, GrepSearch(t) PROVE GrepInv'
<1>1. PICK fd \in Fds, b \in [data : Text, last : Nat] :
        /\ fd = file[t] /\ Stands(fd)
        /\ fd.file_type \in {REGULAR_FILE_TYPE, RTC_FILE_TYPE}
        /\ b = buffer[t] /\ Len(b.data) = BUFSIZE + 1 /\ b.last \in 0 .. BUFSIZE - 1
  BY DEF PInv, Typed, Opened, Buffers, GrepSearch
<1>2. PICK n \in Nat : n = dir[t].file_position
  BY DEF PInv, Typed, Fds
<1>3. PICK s, fname, text : s = args[t] /\ fname = name[t] /\ text = shown[t]
  OBVIOUS
<1>4. PICK r, array, claimed, kept, found :
        /\ Reads(s, fname, fd, b, r, array, claimed, kept, found)
        /\ buffer' = [buffer EXCEPT ![t] = kept] /\ shown' = [shown EXCEPT ![t] = @ \o found]
        /\ IF r.returned = 0
           THEN at' = [at EXCEPT ![t] = "next"] /\ file' = [file EXCEPT ![t] = Closed]
           ELSE UNCHANGED at /\ file' = [file EXCEPT ![t] = r.fd]
  <2>1. PICK r, array, claimed :
          /\ r = read(file[t], BUFSIZE - buffer[t].last)
          /\ array = Put(buffer[t].data, buffer[t].last, r.buf)
          /\ claimed = buffer[t].last + r.returned
          /\ buffer' = [buffer EXCEPT ![t] = Kept(array, claimed, r.returned)]
          /\ Shows(t, Matches(args[t], name[t], array, claimed, r.returned))
          /\ IF r.returned = 0
             THEN Goes(t, "next") /\ file' = [file EXCEPT ![t] = Closed]
             ELSE UNCHANGED at /\ file' = [file EXCEPT ![t] = r.fd]
    BY DEF GrepSearch
  <2>2. PICK kept, found :
          /\ kept = Kept(array, claimed, r.returned)
          /\ found = Matches(s, fname, array, claimed, r.returned)
    OBVIOUS
  <2>3. Reads(s, fname, fd, b, r, array, claimed, kept, found)
    BY <1>1, <2>1, <2>2 DEF Reads
  <2>4. buffer' = [buffer EXCEPT ![t] = kept] /\ shown' = [shown EXCEPT ![t] = @ \o found]
    BY <1>3, <2>1, <2>2 DEF Shows
  <2> QED
    BY <2>1, <2>3, <2>4 DEF Goes
<1>5. /\ at[t] = "search" /\ UNCHANGED <<command, args, dir, name>>
      /\ Program(t)' = Program(t)
  BY DEF GrepSearch, Program
<1>6. buffer'[t] = kept /\ shown'[t] = text \o found
      /\ (r.returned = 0 => at'[t] = "next") /\ (r.returned # 0 => at'[t] = "search")
      /\ (r.returned # 0 => file'[t] = r.fd)
  BY <1>3, <1>4, <1>5 DEF PInv, Typed, ToldInv
<1>7. ASSUME Searches(Program(t), args[t])
      PROVE  Finding(at'[t], args'[t], file'[t], dir'[t].file_position,
                     name'[t], buffer'[t], shown'[t])
  <2>1. Pattern(s)
    BY <1>3, <1>7, SearchedFor DEF PInv, Typed
  <2>2. Midway(s, fd, n, fname, b, text)
    <3>1. GrepsAt(at[t], Program(t), s, fd, n, fname, b, text)
      BY <1>1, <1>2, <1>3 DEF GrepInv
    <3> QED
      BY <1>3, <1>5, <1>7, <3>1 DEF GrepsAt, Finding
  <2>3. /\ r.returned = 0 => Between(s, n, kept, text \o found)
        /\ r.returned # 0 => Midway(s, r.fd, n, fname, kept, text \o found)
    BY <1>1, <1>4, <2>1, <2>2, EntryGoesOn
  <2> QED
    BY <1>2, <1>3, <1>5, <1>6, <2>3 DEF Finding
<1>8. GrepsAt(at'[t], Program(t)', args'[t], file'[t], dir'[t].file_position,
              name'[t], buffer'[t], shown'[t])
  BY <1>5, <1>7 DEF GrepsAt
<1> QED
  BY <1>4, <1>5, <1>8, OthersGrep DEF GrepInv, ToldInv, PInv, Typed

LEMMA GrepStep == PInv /\ ToldInv /\ GrepInv /\ [Next]_vars => GrepInv'
<1> SUFFICES ASSUME PInv, ToldInv, GrepInv, [Next]_vars PROVE GrepInv'
  OBVIOUS
<1>1. CASE UNCHANGED vars
  <2>1. UNCHANGED <<at, command, args, file, dir, name, buffer, shown>>
    BY <1>1 DEF vars, process
  <2> QED
    BY <2>1 DEF GrepInv, Program
<1>2. ASSUME NEW t \in Terminals, Shell(t) PROVE GrepInv'
  BY <1>2, executeGreps DEF Shell
<1>3. ASSUME NEW t \in Terminals, Calls(t) PROVE GrepInv'
  BY <1>3, StaleEndsGreps, getargsGreps, CatGreps, OpenDirGreps, LsListGreps,
     GrepNextGreps, GrepSearchGreps DEF Calls
<1> QED
  BY <1>1, <1>2, <1>3 DEF Next

\* The invariance of what every grep has printed so far.
THEOREM GrepInvariance == Spec => []GrepInv
<1>1. Init => GrepInv
  BY GrepStart
<1>2. PInv /\ ToldInv /\ GrepInv /\ [Next]_vars => GrepInv'
  BY GrepStep
<1> QED
  BY <1>1, <1>2, ProgramInvariance, TellInvariance, PTL DEF Spec

\* grep prints, file by file in the order of the directory, every line that
\* holds the pattern, once and in order, however a line is cut by the ends of
\* the reads, and at most one line more for a file (ece391grep.c:20-59,
\* system_call.c:536).
THEOREM GrepFindsLines == Spec => []GrepFinds
<1>1. GrepInv => GrepFinds
  BY DEF GrepInv, GrepsAt, Searches, Finding, GrepFinds
<1> QED
  BY <1>1, GrepInvariance, PTL
=============================================================================
