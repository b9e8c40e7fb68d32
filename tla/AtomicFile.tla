----------------------------- MODULE AtomicFile ------------------------------
(***************************************************************************)
(* What writing a transcript promises: the file is one that was written    *)
(* whole, each write takes its place all at once or not at all, and        *)
(* a crash may take back what was written since the crash before.          *)
(***************************************************************************)
EXTENDS Options

CONSTANTS Writes,    \* the writes, each known by what it writes
          Before     \* what the file held before any of them

VARIABLES file,      \* what the file holds, None when it isn't there
          recent,    \* what a crash could make it hold
          writing    \* how far each write has come

fileVars == <<file, recent, writing>>

FileInit ==
  /\ file \in {None, Before}
  /\ recent = {file}
  /\ writing = [w \in Writes |-> "idle"]

Opens(w) ==
  /\ writing[w] = "idle"
  /\ writing' = [writing EXCEPT ![w] = "open"]
  /\ UNCHANGED <<file, recent>>

Lands(w) ==
  /\ writing[w] = "open"
  /\ file' = w
  /\ recent' = recent \union {w}
  /\ writing' = [writing EXCEPT ![w] = "written"]

\* Some writes come to nothing: each failed, or its process ended.
Fail(some) ==
  /\ \A w \in some : writing[w] \in {"idle", "open"}
  /\ writing' = [w \in Writes |-> IF w \in some THEN "failed" ELSE writing[w]]
  /\ UNCHANGED <<file, recent>>

FileCrashes ==
  /\ file' \in recent
  /\ recent' = {file'}
  /\ writing' = [w \in Writes |-> IF writing[w] = "open" THEN "failed" ELSE writing[w]]

FileNext ==
  \/ \E w \in Writes : Opens(w) \/ Lands(w)
  \/ \E some \in SUBSET Writes : Fail(some)
  \/ FileCrashes

FileSpec == FileInit /\ [][FileNext]_fileVars
=============================================================================
