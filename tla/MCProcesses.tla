---------------------------- MODULE MCProcesses ----------------------------
(* Instances of Processes for TLC. *)
EXTENDS Processes

\* "shellx" is no file of the file system but begins like one.
AllCommands == {"shell", "shellx", "grep"}
OnlyShells == {"shell", "shellx"}
OnDisk == {"shell", "grep"}
=============================================================================
