----------------------------- MODULE MCPrograms -----------------------------
(* A disk whose files lie in scattered blocks and end inside one: a name     *)
(* that fills its field, a file as long as the buffers, one that is longer   *)
(* and does not end in a newline, and an empty one at index node 0.          *)
EXTENDS Programs

D(fname, type, inode) == [filename |-> fname, file_type |-> type, inode_num |-> inode]
MCDir == << D(<<".">>, 1, 0), D(<<"cat">>, 2, 1), D(<<"rtc">>, 0, 0), D(<<"grep">>, 2, 2),
            D(<<"f">>, 2, 3), D(<<"g", "h">>, 2, 4), D(<<"ls">>, 2, 5) >>
Inode(length, blocks) == [length |-> length, data_blocks |-> blocks]
MCInodes == << Inode(5, <<4, 1, 13>>), Inode(2, <<2>>), Inode(5, <<7, 3, 9>>),
               Inode(9, <<11, 5, 12, 6, 8>>), Inode(1, <<10>>) >>
            @@ (0 :> Inode(0, <<>>))
nl == "newline"
MCData == << <<"a", "nul">>, <<"ELF", "nul">>, <<"b", nl>>, <<"ELF", "b">>,
             <<"c", "b">>, <<nl, "a">>, <<"a", nl>>, <<"b", "?">>,
             <<nl, "?">>, <<"ELF", "?">>, <<"a", nl>>, <<"b", "b">>,
             <<nl, "?">> >>

MCCommands ==
    (0 :> { <<"cat", " ", "f", nl>>, <<"cat", " ", "g", "h", nl>>,
            <<"cat", " ", ".", nl>>, <<"cat", " ", "g", "h", "i", nl>>,
            <<"cat", nl>>, <<"ls", nl>>, <<"grep", " ", "b", nl>>,
            <<"grep", " ", "b", "b", nl>>, <<" ", "ls", nl>>, <<".", nl>>, <<nl>> })
    @@ (1 :> { <<"cat", " ", "f", nl>> })
=============================================================================
