----------------------------- MODULE FileSystem -----------------------------
(***************************************************************************)
(* The read-only file system of filesys.c, as operators on a disk: a boot  *)
(* block of directory entries, index nodes that list data blocks in any    *)
(* order, and the blocks.  Bytes are characters; a name or any other       *)
(* string of the program is the sequence of characters before its NUL.     *)
(***************************************************************************)
EXTENDS Integers, Sequences, SequencesExt

CONSTANTS
    Characters,           \* the values of a byte
    FOUR_KB,              \* bytes of a block
    DENTRY_FILE_NAME_LEN, \* bytes of a name in the boot block
    direntries,           \* directory: a sequence of [filename, file_type, inode_num]
    inodes,               \* inodes[n]: [length, data_blocks]
    data                  \* data[b]: the bytes of block b

RTC_FILE_TYPE == 0
DIRECTORY_FILE_TYPE == 1
REGULAR_FILE_TYPE == 2

nul == "nul"
newline == "newline"

\* What the tool that makes the image writes: names without a NUL, files whose
\* blocks are there, and one directory, the dot.
Text == Seq(Characters)
Entries == [filename : Text, file_type : 0 .. 2, inode_num : DOMAIN inodes]
ASSUME DiskConstants ==
    /\ {nul, newline, "."} \subseteq Characters
    /\ FOUR_KB \in Nat \ {0} /\ DENTRY_FILE_NAME_LEN \in Nat \ {0}
    /\ direntries \in Seq(Entries)
    /\ \A k \in DOMAIN direntries :
          LET d == direntries[k]
          IN  /\ Len(d.filename) \in 1 .. DENTRY_FILE_NAME_LEN
              /\ \A m \in DOMAIN d.filename : d.filename[m] # nul
              /\ d.file_type = DIRECTORY_FILE_TYPE <=> d.filename = <<".">>
    /\ \E k \in DOMAIN direntries : direntries[k].file_type = DIRECTORY_FILE_TYPE
    /\ \A n \in DOMAIN inodes :
          /\ inodes[n].length \in Nat
          /\ inodes[n].data_blocks \in Seq(DOMAIN data)
          /\ inodes[n].length <= Len(inodes[n].data_blocks) * FOUR_KB
    /\ \A b \in DOMAIN data : data[b] \in Text /\ Len(data[b]) = FOUR_KB

-----------------------------------------------------------------------------
(* Strings of lib.c. *)

Least(m, n) == IF m <= n THEN m ELSE n
Nuls(n) == [k \in 1 .. n |-> nul]

\* What a write of these bytes prints: terminal_write skips NULs.
Printed(bytes) ==
    LET printed[n \in 0 .. Len(bytes)] ==
            IF n = 0 THEN <<>>
            ELSE IF bytes[n] = nul THEN printed[n - 1] ELSE Append(printed[n - 1], bytes[n])
    IN  printed[Len(bytes)]

\* The string in a buffer, and a buffer of n bytes filled from a shorter one.
CString(bytes) == SubSeq(bytes, 1, SelectInSeq(Append(bytes, nul), LAMBDA b : b = nul) - 1)
Filled(bytes, n) == bytes \o Nuls(n - Len(bytes))

SameUpTo(s, t, n) == SubSeq(s, 1, Least(n, Len(s))) = SubSeq(t, 1, Least(n, Len(t)))

-----------------------------------------------------------------------------

Failed == -1

\* The first entry of that name.
read_dentry_by_name(fname) ==
    IF Len(fname) > DENTRY_FILE_NAME_LEN THEN 0
    ELSE SelectInSeq(direntries,
                     LAMBDA d : SameUpTo(d.filename, fname, DENTRY_FILE_NAME_LEN))

\* Byte k, from 0, of the blocks that an index node lists from block on.
ByteOf(node, block, k) ==
    data[node.data_blocks[block + (k \div FOUR_KB) + 1]][(k % FOUR_KB) + 1]

\* The bytes that read_data copies: up to the end of a block when it starts in
\* the middle of one, whole blocks, and what is left.
FirstPart(node, offset, length) ==
    LET from == offset % FOUR_KB
        block == data[node.data_blocks[offset \div FOUR_KB + 1]]
    IN  IF from = 0 THEN <<>>
        ELSE SubSeq(block, from + 1, Least(from + length, FOUR_KB))

NextBlock_Same(offset) == offset \div FOUR_KB
NextBlock(offset) == (offset + FOUR_KB - 1) \div FOUR_KB

WholeBlocks_Contiguous(node, block, n) ==
    [k \in 1 .. n * FOUR_KB |->
        data[node.data_blocks[block + 1] + ((k - 1) \div FOUR_KB)][((k - 1) % FOUR_KB) + 1]]
WholeBlocks(node, block, n) == [k \in 1 .. n * FOUR_KB |-> ByteOf(node, block, k - 1)]

Rest(node, block, n) ==
    IF n = 0 THEN <<>> ELSE SubSeq(data[node.data_blocks[block + 1]], 1, n)

read_data(inode_index, offset, length) ==
    LET node == inodes[inode_index]
        bytes_to_read == Least(length, node.length - offset)
        head == FirstPart(node, offset, bytes_to_read)
        left == bytes_to_read - Len(head)
        whole == left \div FOUR_KB
    IN  IF offset >= node.length THEN <<>>
        ELSE head \o WholeBlocks(node, NextBlock(offset), whole)
                  \o Rest(node, NextBlock(offset) + whole, left % FOUR_KB)

-----------------------------------------------------------------------------
(* Descriptors, as far as their reads go. *)

Closed == [file_type |-> Failed, inode |-> 0, file_position |-> 0]

open(fname) ==
    LET k == read_dentry_by_name(fname)
    IN  IF k = 0 THEN Closed
        ELSE [file_type |-> direntries[k].file_type,
              inode |-> IF direntries[k].file_type = REGULAR_FILE_TYPE
                        THEN direntries[k].inode_num ELSE 0,
              file_position |-> 0]

\* What a read does to the buffer, given as its first bytes, to the position,
\* and what the system call returns: the size asked for, unless at the end.
Returned_Always(bytes, n) == n
Returned(bytes, n) == IF bytes = <<>> THEN 0 ELSE n
Advanced_Whole(fd, bytes, n) == [fd EXCEPT !.file_position = @ + n]
Advanced(fd, bytes, n) == [fd EXCEPT !.file_position = @ + Len(bytes)]
file_read(fd, n) ==
    LET bytes == read_data(fd.inode, fd.file_position, n)
    IN  [buf |-> Filled(bytes, n), fd |-> Advanced(fd, bytes, n),
         returned |-> Returned(bytes, n)]

NextEntry_Bytes(fd) == [fd EXCEPT !.file_position = @ + DENTRY_FILE_NAME_LEN]
NextEntry(fd) == [fd EXCEPT !.file_position = @ + 1]
directory_read(fd, n) ==
    IF fd.file_position >= Len(direntries)
    THEN [buf |-> <<>>, fd |-> fd, returned |-> 0]
    ELSE [buf |-> Filled(direntries[fd.file_position + 1].filename,
                         IF n < DENTRY_FILE_NAME_LEN THEN DENTRY_FILE_NAME_LEN ELSE n),
          fd |-> NextEntry(fd), returned |-> n]

\* A read of the RTC waits for an interrupt and returns 0.
rtc_read(fd, n) == [buf |-> <<>>, fd |-> fd, returned |-> 0]

read(fd, n) ==
    CASE fd.file_type = REGULAR_FILE_TYPE -> file_read(fd, n)
      [] fd.file_type = DIRECTORY_FILE_TYPE -> directory_read(fd, n)
      [] fd.file_type = RTC_FILE_TYPE -> rtc_read(fd, n)

-----------------------------------------------------------------------------
(* What a file is. *)

Contents(inode_index) ==
    [k \in 1 .. inodes[inode_index].length |-> ByteOf(inodes[inode_index], 0, k - 1)]
=============================================================================
