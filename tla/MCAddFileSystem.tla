--------------------------- MODULE MCAddFileSystem ---------------------------
(* Two drives and two threads that both read the first one; one of them    *)
(* lists the directory, too.                                               *)
EXTENDS AddFileSystem

MCWants == [t \in Threads |-> IF t = "fuse1" THEN {"sda"} ELSE {"sda", None}]
=============================================================================
