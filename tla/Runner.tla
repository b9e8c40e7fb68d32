------------------------------- MODULE Runner --------------------------------
(***************************************************************************)
(* One run after another (lablet-run's Runner, and RunCancellation), whose *)
(* transcripts go to one path.  The loop of a run is a step here: it ends  *)
(* cancelled when the cancellation it polls was fired.  The transcript is  *)
(* written as AtomicFile promises, on a thread of its own, so a write goes *)
(* on when its run's future is dropped.                                    *)
(*                                                                         *)
(* A run is known by its number, and its write too.                        *)
(***************************************************************************)
EXTENDS AtomicFile, Integers

CONSTANT Handles     \* what callers cancel runs with

ASSUME RunnerAssumption ==
  /\ Writes \subseteq Nat \ {0} /\ None \notin Handles
  /\ None \notin Writes /\ None \notin {"cancelled", "other"}
  /\ \A r \in Writes : r = 1 \/ r - 1 \in Writes

Runs == Writes

VARIABLES started,     \* the number of the last run that was started
          at,          \* what is awaited: nothing, the loop, or the write
          current,     \* RunCancellation: the handle the loop polls, if any
          fired,       \* the handles that were fired
          given,       \* the handle each run was given, if any
          placed,      \* whether each run's transcript has a place
          outcome,     \* what each run came to: "cancelled" or "other"
          spawned,     \* the runs whose write was handed to a thread
          emitted,     \* the runs whose wide event was emitted
          unwritten,   \* the runs handed back with an error of their transcript
          dropped      \* the runs whose future was dropped

runnerVars == <<started, at, current, fired, given, placed, outcome, spawned, emitted, unwritten,
                dropped>>
vars == <<fileVars, runnerVars>>

Init ==
  /\ FileInit
  /\ started = 0 /\ at = "nothing" /\ current = None /\ fired = {}
  /\ given = [r \in Runs |-> None]
  /\ placed = [r \in Runs |-> FALSE]
  /\ outcome = [r \in Runs |-> None]
  /\ spawned = {} /\ emitted = {} /\ unwritten = {} /\ dropped = {}

\* Mutant: a run without a handle leaves the cancellation as it was.
SetGiven(handle) == current' = IF handle = None THEN current ELSE handle

\* The cancellation is this run's, or none.
SetCurrent(handle) == current' = handle

\* A run is started with a handle or none, and its id gives its transcript a
\* place or not.
Start(handle) ==
  /\ at = "nothing" /\ started + 1 \in Runs
  /\ started' = started + 1 /\ at' = "loop"
  /\ SetCurrent(handle)
  /\ given' = [given EXCEPT ![started'] = handle]
  /\ \E some \in BOOLEAN : placed' = [placed EXCEPT ![started'] = some]
  /\ UNCHANGED <<fileVars, fired, outcome, spawned, emitted, unwritten, dropped>>

Fire(handle) ==
  /\ fired' = fired \union {handle}
  /\ UNCHANGED <<fileVars, started, at, current, given, placed, outcome, spawned, emitted,
                 unwritten, dropped>>

\* The loop returns.  The transcript is handed to its writer, or the wide
\* event is emitted at once when it has no place, which is handed back.
LoopReturns ==
  /\ at = "loop"
  /\ \E came \in {"other"} \union (IF current \in fired THEN {"cancelled"} ELSE {}) :
       outcome' = [outcome EXCEPT ![started] = came]
  /\ IF placed[started]
     THEN /\ at' = "write" /\ spawned' = spawned \union {started}
          /\ UNCHANGED <<emitted, unwritten>>
     ELSE /\ at' = "nothing" /\ emitted' = emitted \union {started}
          /\ unwritten' = unwritten \union {started}
          /\ UNCHANGED spawned
  /\ UNCHANGED <<fileVars, started, current, fired, given, placed, dropped>>

\* Mutant: the write is left to its thread.
NotAwaited(r) == r \in spawned

WriteOver(r) == writing[r] \in {"written", "failed"}

\* Mutant: what the write came to isn't handed back.
NothingFailed(r) == {}

Unwritten(r) == IF writing[r] = "written" THEN {} ELSE {r}

\* The write has returned: the wide event is emitted and the run handed back.
WriteReturns ==
  /\ at = "write" /\ WriteOver(started)
  /\ at' = "nothing"
  /\ emitted' = emitted \union {started}
  /\ unwritten' = unwritten \union Unwritten(started)
  /\ UNCHANGED <<fileVars, started, current, fired, given, placed, outcome, spawned, dropped>>

\* The caller drops the run's future.
Drop ==
  /\ at # "nothing"
  /\ at' = "nothing" /\ dropped' = dropped \union {started}
  /\ UNCHANGED <<fileVars, started, current, fired, given, placed, outcome, spawned, emitted,
                 unwritten>>

\* A write's own thread takes it further.
WriteStep(r) ==
  /\ r \in spawned
  /\ Opens(r) \/ Lands(r) \/ Fail({r})
  /\ UNCHANGED runnerVars

Done ==
  /\ at = "nothing" /\ started + 1 \notin Runs /\ \A r \in spawned : WriteOver(r)
  /\ UNCHANGED vars

Next ==
  \/ \E handle \in Handles \union {None} : Start(handle)
  \/ \E handle \in Handles : Fire(handle)
  \/ LoopReturns \/ WriteReturns \/ Drop
  \/ \E r \in Runs : WriteStep(r)
  \/ Done

Spec == Init /\ [][Next]_vars

-----------------------------------------------------------------------------
\* A run is only ever cancelled by the handle it was given itself, whatever the
\* runs before it were given and whenever those are fired (cancellation.rs:
\* "one a run was given never reaches the next").
OwnCancellation ==
  \A r \in Runs : outcome[r] = "cancelled" => given[r] \in fired

\* Once a run's wide event is out, the transcript it names was written whole,
\* or the run was handed back with the reason why not (runner.rs: "so the
\* transcript it names is whole").
EventNamesWhole ==
  \A r \in emitted : writing[r] = "written" \/ r \in unwritten

\* Once a run's transcript is written, the file is never an earlier run's
\* (transcript-json's lib.rs:82: "a second run writes over the first").  It
\* fails when a run was dropped: its write may land after a later run's.
LaterWritesOver ==
  \A r, s \in Runs : r < s /\ writing[s] = "written" => file # r

\* While no run's future is dropped it does hold, since each run awaits its
\* write and one run is under way at a time.
LastRunKept == dropped = {} => LaterWritesOver
=============================================================================
