--------------------------- MODULE TranscriptFile ----------------------------
(***************************************************************************)
(* The writing of transcripts to one path (transcript-json).  A transcript *)
(* is written to a temporary file beside the path, which is synced and     *)
(* then renamed over it.  Several writes may be under way: a run that was  *)
(* dropped leaves its write to a thread that goes on, and another process  *)
(* may write there too, even one with the same process id.  A process may  *)
(* be killed and the machine may crash between any two steps.              *)
(*                                                                         *)
(* A file is known by the write that made it.                              *)
(***************************************************************************)
EXTENDS Options, Integers

CONSTANTS Writes, Before,     \* as in AtomicFile
          Processes,          \* the lives of processes that write
          Process, Pid,       \* the process of a write, and the id of a process
          Path,               \* the name the config gives the file
          TemporaryNames,     \* how many names a write tries
          LastNumber,         \* bound: how far a process counts
          Everyone, Umask,    \* whom a mode can let in, and who is left out of a new one
          Modes,              \* the modes the file before may have
          Unreadable          \* bound: the writes that may fail to read the mode

Pids == {Pid[p] : p \in Processes}
Names == {Path} \union (Pids \X (0..LastNumber))
Files == Writes \union {Before}
NewMode == Everyone \ Umask

ASSUME TranscriptAssumption ==
  /\ Process \in [Writes -> Processes]
  /\ Path \notin Pids \X Nat
  /\ None \notin Files /\ Before \notin Writes
  /\ LastNumber \in Nat /\ Unreadable \subseteq Writes
  /\ Modes \subseteq SUBSET Everyone /\ \A some \in SUBSET Everyone : None # some

VARIABLES directory,   \* the file each name names, None when it's free
          mayBe,       \* the directories that a crash could leave
          whole,       \* the files that hold all of their whole, which others hold some of
          synced,      \* the files whose text is on the disk
          mode,        \* whom each file lets in
          number,      \* WRITES, for each process
          tries,       \* how many names each write has tried
          held,        \* the mode each write found at the path, None when it found none
          unread,      \* history: the writes that found none of the file that was there
          temporary,   \* the name each write made its file under
          pc, dead     \* where each write is, and the processes that have ended

vars == <<directory, mayBe, whole, synced, mode, number, tries, held, unread, temporary,
          pc, dead>>

Init ==
  /\ \E there \in {None, Before}, some \in Modes :
       /\ directory = [name \in Names |-> IF name = Path THEN there ELSE None]
       /\ mode = [f \in Files |-> IF there = None THEN NewMode ELSE some]
  /\ mayBe = {directory}
  /\ whole = {Before} /\ synced = {Before}
  /\ number = [p \in Processes |-> 0]
  /\ tries = [w \in Writes |-> 0]
  /\ held = [w \in Writes |-> None] /\ unread = {}
  /\ temporary = [w \in Writes |-> Path]
  /\ pc = [w \in Writes |-> "idle"]
  /\ dead = {}

Goes(w, from, to) == pc[w] = from /\ pc' = [pc EXCEPT ![w] = to]

\* The directory changes, and a crash may leave it as it is now or as it was.
Rearranged(new) == directory' = new /\ mayBe' = mayBe \union {new}

-----------------------------------------------------------------------------
\* The path names no file, or its directories can't be made.
Refused(w) ==
  /\ Process[w] \notin dead
  /\ Goes(w, "idle", "failed")
  /\ UNCHANGED <<directory, mayBe, whole, synced, mode, number, tries, held, unread, temporary, dead>>

ModeThere == IF directory[Path] = None THEN None ELSE mode[directory[Path]]

\* The mode of the file at the path is read, if there's one.  Where that fails,
\* for whatever reason, it's as if there were none.
Begin(w) ==
  /\ Process[w] \notin dead
  /\ Goes(w, "idle", "naming")
  /\ \E found \in {ModeThere} \union (IF w \in Unreadable THEN {None} ELSE {}) :
       /\ held' = [held EXCEPT ![w] = found]
       /\ unread' = IF found = ModeThere THEN unread ELSE unread \union {w}
  /\ UNCHANGED <<directory, mayBe, whole, synced, mode, number, tries, temporary, dead>>

NextName(w) == <<Pid[Process[w]], number[Process[w]]>>

\* Mutant: the file is made, or made anew, whoever made one of that name.
FreeAlways(name) == TRUE

\* Whether create_new makes a file of that name.
Free(name) == directory[name] = None

Tried(w) ==
  /\ number[Process[w]] <= LastNumber
  /\ number' = [number EXCEPT ![Process[w]] = @ + 1]
  /\ tries' = [tries EXCEPT ![w] = @ + 1]
  /\ UNCHANGED <<whole, synced, held, unread, dead>>

\* A name that's taken is left as it is and the next is tried, if any is left.
PassOver(w) ==
  /\ Tried(w)
  /\ ~Free(NextName(w))
  /\ Goes(w, "naming", IF tries'[w] < TemporaryNames THEN "naming" ELSE "failed")
  /\ UNCHANGED <<directory, mayBe, mode, temporary>>

\* Mutant: the file is made as any new one is.
ModeOfAny(w) == Everyone

\* The mode a write asks for: that of the file it replaces.
ModeFor(w) == IF held[w] = None THEN Everyone ELSE held[w]

Create(w) ==
  /\ Tried(w)
  /\ Free(NextName(w))
  /\ Goes(w, "naming", "permitting")
  /\ temporary' = [temporary EXCEPT ![w] = NextName(w)]
  /\ Rearranged([directory EXCEPT ![NextName(w)] = w])
  /\ mode' = [mode EXCEPT ![w] = ModeFor(w) \ Umask]

NotCreated(w) ==
  /\ Tried(w)
  /\ Free(NextName(w))
  /\ Goes(w, "naming", "failed")
  /\ UNCHANGED <<directory, mayBe, mode, temporary>>

-----------------------------------------------------------------------------
\* A write that has its file: what none of these steps changes.
Filling(w) == UNCHANGED <<number, tries, held, unread, temporary, dead>>

SetPermissions(w) ==
  /\ Goes(w, "permitting", "filling")
  /\ mode' = [mode EXCEPT ![w] = IF held[w] = None THEN @ ELSE held[w]]
  /\ Filling(w) /\ UNCHANGED <<directory, mayBe, whole, synced>>

Fill(w) ==
  /\ Goes(w, "filling", "syncing")
  /\ whole' = whole \union {w}
  /\ Filling(w) /\ UNCHANGED <<directory, mayBe, synced, mode>>

\* Mutant: the file isn't synced before it's renamed.
SyncNothing(w) ==
  /\ Goes(w, "syncing", "renaming")
  /\ Filling(w) /\ UNCHANGED <<directory, mayBe, whole, synced, mode>>

Sync(w) ==
  /\ Goes(w, "syncing", "renaming")
  /\ synced' = synced \union {w}
  /\ Filling(w) /\ UNCHANGED <<directory, mayBe, whole, mode>>

Rename(w) ==
  /\ directory[temporary[w]] # None
  /\ Goes(w, "renaming", "written")
  /\ Rearranged([directory EXCEPT ![Path] = directory[temporary[w]], ![temporary[w]] = None])
  /\ Filling(w) /\ UNCHANGED <<whole, synced, mode>>

\* Any of those may fail, and then the file is removed, if it can be.
StepFails(w) ==
  /\ \E step \in {"permitting", "filling", "syncing", "renaming"} : Goes(w, step, "removing")
  /\ Filling(w) /\ UNCHANGED <<directory, mayBe, whole, synced, mode>>

Remove(w) ==
  /\ Goes(w, "removing", "failed")
  /\ Rearranged([directory EXCEPT ![temporary[w]] = None])
  /\ Filling(w) /\ UNCHANGED <<whole, synced, mode>>

NotRemoved(w) ==
  /\ Goes(w, "removing", "failed")
  /\ Filling(w) /\ UNCHANGED <<directory, mayBe, whole, synced, mode>>

-----------------------------------------------------------------------------
Over == {"written", "failed", "killed"}

\* The writes under way in some processes stop where they are.
Killed(some) ==
  pc' = [w \in Writes |-> IF Process[w] \in some /\ pc[w] \notin Over \union {"idle"}
                          THEN "killed" ELSE pc[w]]

Kill(p) ==
  /\ p \notin dead
  /\ dead' = dead \union {p}
  /\ Killed({p})
  /\ UNCHANGED <<directory, mayBe, whole, synced, mode, number, tries, held, unread, temporary>>

\* The machine crashes.  Of the directory some earlier state is left, and of a
\* file that wasn't synced perhaps a part.  Only a process that hasn't begun
\* to write yet may still come.
Crash ==
  /\ directory' \in mayBe
  /\ mayBe' = {directory'}
  /\ \E lost \in SUBSET (whole \ synced) : whole' = whole \ lost
  /\ dead' = dead \union {Process[w] : w \in {v \in Writes : pc[v] # "idle"}}
  /\ Killed(Processes)
  /\ UNCHANGED <<synced, mode, number, tries, held, unread, temporary>>

WriteStep(w) ==
  \/ Refused(w) \/ Begin(w) \/ PassOver(w) \/ Create(w) \/ NotCreated(w)
  \/ SetPermissions(w) \/ Fill(w) \/ Sync(w) \/ Rename(w)
  \/ StepFails(w) \/ Remove(w) \/ NotRemoved(w)

Next == (\E w \in Writes : WriteStep(w)) \/ (\E p \in Processes : Kill(p)) \/ Crash

Spec == Init /\ [][Next]_vars

-----------------------------------------------------------------------------
\* The file name that a write fills, renames or removes is its own: no write
\* touches what another one made, in this process or in one with the same id
\* (lib.rs: "a temporary file is made new and a name that's taken is passed
\* over").
OwnTemporary ==
  \A w \in Writes : pc[w] \in {"permitting", "filling", "syncing", "renaming", "removing"} =>
    temporary[w] # Path /\ directory[temporary[w]] = w

\* A transcript that was made private stays private: the one at the path lets in
\* exactly those the file before did, and no file beside it anybody that one
\* kept out (lib.rs: "made no more open than the one it replaces").  Only a
\* write that couldn't read the mode makes its file as any new one is, and
\* opens the transcript up once it's written; every other keeps what it found.
\* Where there was no file, the mode before is that of any new one.
StaysPrivate ==
  (\A w \in unread : pc[w] # "written") =>
    /\ directory[Path] # None => mode[directory[Path]] = mode[Before]
    /\ \A name \in Names : directory[name] \notin unread \union {None} =>
         mode[directory[name]] \subseteq mode[Before]

\* What a directory makes of the file: torn when only a part of it is there.
HeldIn(d) ==
  IF d[Path] = None THEN None ELSE IF d[Path] \in whole THEN d[Path] ELSE "torn"

Standing(w) ==
  CASE pc[w] \in {"idle", "written"} -> pc[w]
    [] pc[w] \in {"failed", "killed"} -> "failed"
    [] OTHER -> "open"

\* The file is only ever one that was written whole, whatever fails, is killed
\* or crashes (lib.rs: "the file holds the document whole or is left as it
\* was").
File == INSTANCE AtomicFile WITH
  file <- HeldIn(directory),
  recent <- {HeldIn(d) : d \in mayBe},
  writing <- [w \in Writes |-> Standing(w)]

ImplementsFile == File!FileSpec
=============================================================================
