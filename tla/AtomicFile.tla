---------------------------- MODULE AtomicFile ----------------------------
(***************************************************************************)
(* What a file replaced with dir_write_file (include/third-party/dir/dir.h)*)
(* promises its readers: as long as nothing breaks the trust, the file is  *)
(* absent or holds one whole content that some writer meant to put there;  *)
(* it changes by being replaced or removed, never in place.  Once trust is *)
(* lost (two writers at a time, a write cut short, a power failure) it may *)
(* hold anything, and trust does not come back.                            *)
(***************************************************************************)
CONSTANTS
    Content,   \* the contents a writer can mean to write
    Absent,    \* there is no file
    Broken     \* a file that holds none of Content

VARIABLES
    cell,      \* what a reader of the path finds
    trusted,   \* nothing has broken the promise so far
    wanted     \* the contents the writers now at work want to put there

Init == cell = Absent /\ trusted = TRUE

Replace == trusted /\ cell' \in Content \cap wanted /\ UNCHANGED trusted

Remove == trusted /\ cell' = Absent /\ UNCHANGED trusted

Distrust == trusted' = FALSE /\ cell' \in Content \cup {Absent, Broken}

Next == Replace \/ Remove \/ Distrust

Spec == Init /\ [][Next]_<<cell, trusted>>
=============================================================================
