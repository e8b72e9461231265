----------------------------- MODULE MCScreens -----------------------------
(* Terminals 0, 1 and 2 type and print characters of their own, so that a   *)
(* character on a wrong screen or in a wrong place shows.                   *)
EXTENDS Screens

MCKeys == <<"1", "2">> @@ (0 :> "0")
MCDrawings == <<"%", "&">> @@ (0 :> "$")
MCMessage == <<"!">>

\* The prompt, a text that fills more than a row, a short line, a tab and
\* "Hello, ".
TextsOf(a, b, c) ==
    {[is |-> "prompt", bytes |-> <<">", ">">>],
     [is |-> "other",  bytes |-> <<a, b, c, a>>],
     [is |-> "other",  bytes |-> <<b, "nul", "newline">>],
     [is |-> "other",  bytes |-> <<"tab", c>>],
     [is |-> "hello",  bytes |-> <<c, b>>]}
MCTexts == <<TextsOf("d", "e", "f"), TextsOf("g", "h", "i")>>
           @@ (0 :> TextsOf("a", "b", "c"))
=============================================================================
