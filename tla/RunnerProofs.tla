---------------------------- MODULE RunnerProofs ----------------------------
(***************************************************************************)
(* What the runner keeps apart from one run to the next, proved for any    *)
(* number of runs and of handles, whenever those are fired and wherever a  *)
(* run's future is dropped.                                                *)
(***************************************************************************)
EXTENDS Runner, TLAPS

Stages == {"idle", "open", "written", "failed"}

Typed ==
  /\ writing \in [Runs -> Stages]
  /\ started \in Nat /\ at \in {"nothing", "loop", "write"}
  /\ given \in [Runs -> Handles \union {None}] /\ fired \subseteq Handles
  /\ placed \in [Runs -> BOOLEAN]
  /\ outcome \in [Runs -> {None, "cancelled", "other"}]
  /\ spawned \subseteq Runs /\ emitted \subseteq Runs /\ unwritten \subseteq Runs
  /\ at # "nothing" => started \in Runs

\* While a run's loop is polled the cancellation is its own, and a run that
\* hasn't come has come to nothing.
Own ==
  /\ at = "loop" => current = given[started]
  /\ \A r \in Runs : r > started => outcome[r] # "cancelled"
  /\ OwnCancellation

\* Only what was spawned is written; and while no run was dropped, every write
\* but the one that's awaited is over.
Awaited ==
  /\ \A r \in Runs : writing[r] # "idle" => r \in spawned
  /\ \A r \in spawned : r <= started
  /\ dropped = {} => \A r \in spawned : WriteOver(r) \/ (at = "write" /\ r = started)
  /\ LastRunKept

LEMMA RunsAreNumbers == Runs \subseteq Nat
  BY RunnerAssumption DEF Runs

\* What a thread makes of its write, which is no other's.
LEMMA WriteMoves ==
  ASSUME Typed, NEW r \in Runs, WriteStep(r)
  PROVE  /\ writing' \in [Runs -> Stages] /\ UNCHANGED runnerVars /\ r \in spawned
         /\ \A s \in Runs : s # r => writing'[s] = writing[s]
         /\ writing[r] \notin {"written", "failed"}
         /\ (file' = r /\ writing'[r] = "written") \/ UNCHANGED file
         /\ writing'[r] = "written" => file' = r
<1>1. CASE Opens(r) \/ Lands(r)
  BY <1>1 DEF WriteStep, Opens, Lands, Typed, Runs, Stages
<1>2. CASE Fail({r})
  BY <1>2 DEF WriteStep, Fail, Typed, Runs, Stages
<1> QED
  BY <1>1, <1>2 DEF WriteStep

LEMMA TypedInit == Init => Typed
  BY DEF Init, FileInit, Typed, Runs, Stages

LEMMA TypedStep == Typed /\ [Next]_vars => Typed'
<1> SUFFICES ASSUME Typed, [Next]_vars PROVE Typed'
  OBVIOUS
<1>1. ASSUME NEW handle \in Handles \union {None}, Start(handle) PROVE Typed'
  <2>1. started' \in Nat /\ started' \in Runs
    BY <1>1, RunsAreNumbers DEF Start
  <2>2. PICK some \in BOOLEAN : placed' = [placed EXCEPT ![started'] = some]
    BY <1>1 DEF Start
  <2> QED
    BY <1>1, <2>1, <2>2 DEF Start, fileVars, Typed
<1>2. ASSUME NEW handle \in Handles, Fire(handle) PROVE Typed'
  BY <1>2 DEF Fire, fileVars, Typed
<1>3. CASE LoopReturns
  <2>1. PICK came \in {"other", "cancelled"} : outcome' = [outcome EXCEPT ![started] = came]
    BY <1>3 DEF LoopReturns
  <2>2. started \in Runs /\ at' \in {"nothing", "write"} /\ spawned' \subseteq Runs
    BY <1>3 DEF LoopReturns, Typed
  <2> QED
    BY <1>3, <2>1, <2>2 DEF LoopReturns, fileVars, Typed
<1>4. CASE WriteReturns
  BY <1>4 DEF WriteReturns, Unwritten, fileVars, Typed
<1>5. CASE Drop
  BY <1>5 DEF Drop, fileVars, Typed
<1>6. ASSUME NEW r \in Runs, WriteStep(r) PROVE Typed'
  BY <1>6, WriteMoves DEF runnerVars, Typed
<1>7. CASE Done \/ UNCHANGED vars
  BY <1>7 DEF Done, vars, fileVars, runnerVars, Typed
<1> QED
  BY <1>1, <1>2, <1>3, <1>4, <1>5, <1>6, <1>7 DEF Next

-----------------------------------------------------------------------------
LEMMA OwnStep == Typed /\ Own /\ [Next]_vars => Own'
<1> SUFFICES ASSUME Typed, Own, [Next]_vars PROVE Own'
  OBVIOUS
<1>1. ASSUME NEW handle \in Handles \union {None}, Start(handle) PROVE Own'
  <2>1. /\ started' = started + 1 /\ started' \in Runs /\ started \in Nat
        /\ UNCHANGED <<fired, outcome>> /\ current' = handle
        /\ given' = [given EXCEPT ![started'] = handle]
    BY <1>1 DEF Start, SetCurrent, Typed
  <2>2. current' = given'[started']
    BY <2>1 DEF Typed
  <2>3. outcome[started'] # "cancelled"
    BY <2>1 DEF Own
  <2>4. \A r \in Runs : outcome'[r] = "cancelled" => given'[r] = given[r]
    BY <2>1, <2>3 DEF Typed
  <2>5. \A r \in Runs : r > started' => outcome'[r] # "cancelled"
    BY <2>1, RunsAreNumbers DEF Own
  <2> QED
    BY <2>1, <2>2, <2>4, <2>5 DEF Own, OwnCancellation
<1>2. ASSUME NEW handle \in Handles, Fire(handle) PROVE Own'
  BY <1>2 DEF Fire, Own, OwnCancellation
<1>3. CASE LoopReturns
  <2>1. PICK came \in {"other"} \union (IF current \in fired THEN {"cancelled"} ELSE {}) :
           outcome' = [outcome EXCEPT ![started] = came]
    BY <1>3 DEF LoopReturns
  <2>2. /\ at = "loop" /\ at' # "loop" /\ current = given[started] /\ started \in Runs
        /\ UNCHANGED <<started, given, fired>>
    BY <1>3 DEF LoopReturns, Own, Typed
  <2>3. came = "cancelled" => given[started] \in fired
    BY <2>1, <2>2
  <2>4. \A r \in Runs : outcome'[r] = IF r = started THEN came ELSE outcome[r]
    BY <2>1, <2>2 DEF Typed
  <2>5. \A r \in Runs : r > started => r # started
    BY <2>2, RunsAreNumbers
  <2> QED
    BY <2>2, <2>3, <2>4, <2>5 DEF Own, OwnCancellation
<1>4. CASE WriteReturns \/ Drop
  BY <1>4 DEF WriteReturns, Drop, Own, OwnCancellation
<1>5. CASE Done \/ UNCHANGED vars \/ \E r \in Runs : WriteStep(r)
  BY <1>5 DEF Done, vars, runnerVars, WriteStep, Own, OwnCancellation
<1> QED
  BY <1>1, <1>2, <1>3, <1>4, <1>5 DEF Next

\* No cancellation a run was given reaches another, however many runs and
\* handles there are (cancellation.rs RunCancellation::set, runner.rs run).
THEOREM OwnCancellationHolds == Spec => []OwnCancellation
<1>1. Init => Own
  <2> SUFFICES ASSUME Init PROVE Own
    OBVIOUS
  <2>1. \A r \in Runs : outcome[r] = None
    BY DEF Init
  <2>2. \A r \in Runs : outcome[r] # "cancelled"
    BY <2>1, RunnerAssumption
  <2> QED
    BY <2>2 DEF Init, Own, OwnCancellation
<1>2. Own => OwnCancellation
  BY DEF Own
<1> QED
  BY TypedInit, TypedStep, OwnStep, <1>1, <1>2, PTL DEF Spec

-----------------------------------------------------------------------------
\* A wide event names a transcript that was written whole, or its run is handed
\* back with the reason why not, for any number of runs (runner.rs run).
THEOREM EventAlwaysNamesWhole == Spec => []EventNamesWhole
<1>1. Init => EventNamesWhole
  BY DEF Init, EventNamesWhole
<1>2. Typed /\ EventNamesWhole /\ [Next]_vars => EventNamesWhole'
  <2> SUFFICES ASSUME Typed, EventNamesWhole, [Next]_vars PROVE EventNamesWhole'
    OBVIOUS
  <2>1. CASE LoopReturns
    BY <2>1 DEF LoopReturns, fileVars, EventNamesWhole
  <2>2. CASE WriteReturns
    BY <2>2 DEF WriteReturns, Unwritten, fileVars, EventNamesWhole
  <2>3. ASSUME NEW r \in Runs, WriteStep(r) PROVE EventNamesWhole'
    <3>1. ASSUME NEW s \in Runs, writing[s] = "written" PROVE writing'[s] = "written"
      BY <2>3, <3>1, WriteMoves
    <3>2. UNCHANGED emitted
      BY <2>3, WriteMoves DEF runnerVars
    <3> QED
      BY <2>3, <3>1, <3>2, WriteMoves DEF EventNamesWhole, Typed, runnerVars
  <2>4. CASE Drop \/ Done \/ UNCHANGED vars
    BY <2>4 DEF Drop, Done, vars, fileVars, runnerVars, EventNamesWhole
  <2>5. ASSUME NEW handle, Start(handle) \/ Fire(handle) PROVE EventNamesWhole'
    BY <2>5 DEF Start, Fire, fileVars, EventNamesWhole
  <2> QED
    BY <2>1, <2>2, <2>3, <2>4, <2>5 DEF Next
<1> QED
  BY TypedInit, TypedStep, <1>1, <1>2, PTL DEF Spec

-----------------------------------------------------------------------------
LEMMA AwaitedStep == Typed /\ Awaited /\ [Next]_vars => Awaited'
<1> SUFFICES ASSUME Typed, Awaited, [Next]_vars PROVE Awaited'
  OBVIOUS
<1>0. started \in Nat
  BY DEF Typed
<1>1. ASSUME NEW handle \in Handles \union {None}, Start(handle) PROVE Awaited'
  <2>1. /\ at = "nothing" /\ started' = started + 1
        /\ UNCHANGED <<file, writing, spawned, dropped>>
    BY <1>1 DEF Start, fileVars
  <2>2. \A r \in spawned : r <= started'
    BY <1>0, <2>1, RunsAreNumbers DEF Awaited, Typed
  <2> QED
    BY <2>1, <2>2 DEF Awaited, WriteOver, LastRunKept, LaterWritesOver
<1>2. ASSUME NEW handle \in Handles, Fire(handle) PROVE Awaited'
  BY <1>2 DEF Fire, fileVars, Awaited, WriteOver, LastRunKept, LaterWritesOver
<1>3. CASE LoopReturns
  <2>1. /\ at = "loop" /\ UNCHANGED <<file, writing, started, dropped>>
        /\ \/ at' = "write" /\ spawned' = spawned \union {started}
           \/ at' = "nothing" /\ UNCHANGED spawned
    BY <1>3 DEF LoopReturns, fileVars
  <2>2. \A r \in spawned' : r <= started
    BY <1>0, <2>1 DEF Awaited
  <2> QED
    BY <2>1, <2>2 DEF Awaited, WriteOver, LastRunKept, LaterWritesOver
<1>4. CASE WriteReturns
  BY <1>4 DEF WriteReturns, fileVars, Awaited, WriteOver, LastRunKept, LaterWritesOver
<1>5. CASE Drop
  <2>1. dropped' # {} /\ UNCHANGED <<writing, started, spawned>>
    BY <1>5 DEF Drop, fileVars
  <2> QED
    BY <2>1 DEF Awaited, LastRunKept
<1>6. ASSUME NEW r \in Runs, WriteStep(r) PROVE Awaited'
  <2>1. /\ UNCHANGED runnerVars /\ r \in spawned
        /\ \A s \in Runs : s # r => writing'[s] = writing[s]
        /\ ~WriteOver(r)
        /\ writing'[r] = "written" => file' = r
        /\ (file' = r /\ writing'[r] = "written") \/ UNCHANGED file
    BY <1>6, WriteMoves DEF WriteOver
  <2>2. \A s \in Runs : writing'[s] # "idle" => s \in spawned
    BY <2>1 DEF Awaited
  <2>3. dropped = {} => /\ at = "write" /\ r = started
                        /\ \A s \in spawned : s # r => writing'[s] \in {"written", "failed"}
    BY <2>1 DEF Awaited, WriteOver, Typed
  <2>4. LastRunKept'
    <3> SUFFICES ASSUME dropped = {}, NEW q \in Runs, NEW s \in Runs, q < s,
                        writing'[s] = "written"
                 PROVE  file' # q
      BY <2>1 DEF LastRunKept, LaterWritesOver, runnerVars
    <3>1. s <= started /\ q \in Nat /\ s \in Nat
      BY <2>2, RunsAreNumbers DEF Awaited
    <3>2. q # r
      BY <1>0, <2>3, <3>1
    <3>3. CASE file' = r
      BY <3>2, <3>3
    <3>4. CASE UNCHANGED file /\ s # r
      <4>1. writing[s] = "written"
        BY <2>1, <3>4
      <4> QED
        BY <3>4, <4>1 DEF Awaited, LastRunKept, LaterWritesOver
    <3> QED
      BY <2>1, <3>3, <3>4
  <2> QED
    BY <2>1, <2>2, <2>3, <2>4 DEF Awaited, WriteOver, runnerVars
<1>7. CASE Done \/ UNCHANGED vars
  BY <1>7 DEF Done, vars, fileVars, runnerVars, Awaited, WriteOver, LastRunKept, LaterWritesOver
<1> QED
  BY <1>1, <1>2, <1>3, <1>4, <1>5, <1>6, <1>7 DEF Next

\* While no run's future is dropped the file is never an earlier run's than the
\* last that was written, for any number of runs (transcript-json write,
\* runner.rs run).
THEOREM LastRunAlwaysKept == Spec => []LastRunKept
<1>1. Init => Awaited
  BY DEF Init, FileInit, Awaited, Runs, LastRunKept, LaterWritesOver
<1>2. Awaited => LastRunKept
  BY DEF Awaited
<1> QED
  BY TypedInit, TypedStep, AwaitedStep, <1>1, <1>2, PTL DEF Spec
=============================================================================
