-------------------------- MODULE MCTranscriptFile ---------------------------
(***************************************************************************)
(* Three writes: two of one process, and one of another process with the   *)
(* same id, which may run beside it or after it was killed.                *)
(***************************************************************************)
EXTENDS TranscriptFile, TLC

CONSTANTS first, second, later

MCProcess == [w \in Writes |-> IF w = later THEN "q" ELSE "p"]
MCPid == [p \in Processes |-> 7]

\* The two writes of one process differ in nothing.
Alike == Permutations({first, second})

\* One whom a new file lets in and the file before doesn't, and one the umask
\* leaves out of a new file and the file before lets in.
MCModes == {{"others"}}
=============================================================================
