---------------------------- MODULE CommandLine ----------------------------
(***************************************************************************)
(* How execute takes a command apart (system_call.c): parse_args leaves    *)
(* what stands behind the first word in a buffer that all programs share,  *)
(* get_file_name cuts the command behind that word, and getargs, called    *)
(* later by the program, reads the buffer.                                 *)
(***************************************************************************)
EXTENDS Integers, Sequences, SequencesExt

space == " "
eol == "newline"

\* The place of the first character of a command that is no space, 0 if none.
FirstWord(command) == SelectInSeq(command, LAMBDA c : c # space)

\* What parse_args leaves in stored_buf: everything behind the first space that
\* follows a word, or nothing.
NoArguments == <<>>
parse_args_Kept(command, stored) ==
    LET word == FirstWord(command)
        gap == SelectInSubSeq(command, word, Len(command), LAMBDA c : c = space)
    IN  IF word = 0 \/ gap = 0 THEN stored
        ELSE SubSeq(command, gap + 1, Len(command))
parse_args(command, stored) ==
    LET word == FirstWord(command)
        gap == SelectInSubSeq(command, word, Len(command), LAMBDA c : c = space)
    IN  IF word = 0 \/ gap = 0 THEN NoArguments
        ELSE SubSeq(command, gap + 1, Len(command))

\* Spaces in front of the word are looked past but stay in the name.
get_file_name(command) ==
    LET word == FirstWord(command)
        end == SelectInSubSeq(command, word, Len(command),
                              LAMBDA c : c \in {space, eol})
    IN  IF word = 0 \/ end = 0 THEN command ELSE SubSeq(command, 1, end - 1)

\* getargs(nbytes): it ends the stored string at a newline within nbytes, and
\* refuses an empty string and one that does not fit with its NUL.
Ended(stored, nbytes) ==
    LET k == SelectInSeq(stored, LAMBDA c : c = eol)
    IN  IF k \in 1 .. nbytes THEN SubSeq(stored, 1, k - 1) ELSE stored
ArgumentsFit(args, nbytes) == args # NoArguments /\ Len(args) < nbytes
=============================================================================
