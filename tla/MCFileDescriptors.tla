------------------------- MODULE MCFileDescriptors -------------------------
(* Instances of FileDescriptors for TLC. *)
EXTENDS FileDescriptors

Programs == {"grep"}
FileSystem == {"rtc", ".", "frame0.txt", "empty.txt"}
TypesOfFiles == [f \in FileSystem |->
    CASE f = "rtc" -> "rtc" [] f = "." -> "directory" [] OTHER -> "file"]
LengthsOfFiles == [f \in FileSystem |-> IF f = "frame0.txt" THEN 3 ELSE 0]
=============================================================================
