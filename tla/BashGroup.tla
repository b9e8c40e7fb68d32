----------------------------- MODULE BashGroup ------------------------------
(***************************************************************************)
(* One call of the bash tool (tools-builtin's executor and Bash::run): a   *)
(* shell that leads a process group of its own, the processes it starts,   *)
(* the pipe they all write to, and the future that reads the pipe, waits   *)
(* for the shell, and kills the group when the call has had its time or is *)
(* dropped.                                                                *)
(*                                                                         *)
(* A group is killed by its id.  The id is the shell's, and is nobody      *)
(* else's as long as any process of the group is in the process table,     *)
(* one that has exited and wasn't waited for included.  After that another *)
(* group may be given it.  A process may leave the group, the shell too,   *)
(* which leads a group and not a session, and may come back while the      *)
(* group is there.  One that has left is beyond the kill; it may go on     *)
(* holding the pipe.  Any that's in the group is lablet's to kill: none    *)
(* has become another user's.                                              *)
(*                                                                         *)
(* That the call has had its time, and that the killed group has, are      *)
(* events here: they may come at any moment of what they're raced with.    *)
(***************************************************************************)
EXTENDS FiniteSets

CONSTANTS Children   \* bound: the processes the command may start

Shell == "shell"
Processes == Children \union {Shell}

ASSUME BashAssumption == Shell \notin Children

VARIABLES pc,       \* where the call is
          result,   \* what it returned
          state,    \* where each process is
          inGroup,  \* the processes of the group
          holders,  \* the processes that hold the pipe open
          running,  \* the code's Group::running: the group is killed if it's dropped
          timedOut, \* history: whether the call has had its time
          reused,   \* whether the id is another group's by now
          killed,   \* history: the processes that were killed
          strayed   \* history: whether a kill reached another group

processes == <<state, inGroup, holders>>
call == <<pc, result, running>>
kills == <<killed, strayed>>
vars == <<processes, call, kills, timedOut, reused>>

InTable(p) == state[p] \in {"alive", "dying", "exited"}

TypeOK ==
  /\ pc \in {"called", "reading", "waiting", "killed", "looking", "ended", "dropped"}
  /\ result \in {"none", "unknown", "misfit", "output", "timeout", "failed"}
  /\ state \in [Processes -> {"unborn", "alive", "dying", "exited", "gone"}]
  /\ inGroup \subseteq Processes /\ holders \subseteq Processes
  /\ {running, timedOut, reused, strayed} \subseteq BOOLEAN
  /\ killed \subseteq Processes

Init ==
  /\ pc = "called" /\ result = "none"
  /\ state = [p \in Processes |-> "unborn"]
  /\ inGroup = {} /\ holders = {}
  /\ running = FALSE /\ timedOut = FALSE /\ reused = FALSE
  /\ killed = {} /\ strayed = FALSE

-----------------------------------------------------------------------------
(* The processes.                                                          *)

\* A process starts another, in its own group and with the pipe it holds.
Fork(p, q) ==
  /\ state[p] = "alive" /\ state[q] = "unborn"
  /\ state' = [state EXCEPT ![q] = "alive"]
  /\ inGroup' = IF p \in inGroup THEN inGroup \union {q} ELSE inGroup
  /\ holders' = IF p \in holders THEN holders \union {q} ELSE holders
  /\ UNCHANGED <<call, kills, timedOut, reused>>

\* It leaves the group, comes back to it, or sends its output elsewhere.  The
\* shell can make the group again, for the id is its own; any other process
\* needs the group to be there.
Leave(p) ==
  /\ state[p] = "alive" /\ p \in inGroup
  /\ inGroup' = inGroup \ {p}
  /\ UNCHANGED <<state, holders, call, kills, timedOut, reused>>

Join(p) ==
  /\ state[p] = "alive" /\ p \notin inGroup
  /\ p = Shell \/ \E q \in inGroup : InTable(q)
  /\ inGroup' = inGroup \union {p}
  /\ UNCHANGED <<state, holders, call, kills, timedOut, reused>>

LetGo(p) ==
  /\ state[p] = "alive" /\ p \in holders
  /\ holders' = holders \ {p}
  /\ UNCHANGED <<state, inGroup, call, kills, timedOut, reused>>

\* It exits, by itself or because it was killed, and holds nothing any more.
Gone(p) ==
  /\ state' = [state EXCEPT ![p] = "exited"]
  /\ holders' = holders \ {p}
  /\ UNCHANGED <<inGroup, call, kills, timedOut, reused>>

Exit(p) == state[p] = "alive" /\ Gone(p)
Die(p) == state[p] = "dying" /\ Gone(p)

\* Whoever it was left to takes it from the table, if there's anybody.
Take(p) ==
  /\ p # Shell /\ state[p] = "exited"
  /\ state' = [state EXCEPT ![p] = "gone"]
  /\ UNCHANGED <<inGroup, holders, call, kills, timedOut, reused>>

IdIsFree == state[Shell] = "gone" /\ \A p \in inGroup : ~InTable(p)

\* The id is given to another group.
Reuse ==
  /\ IdIsFree /\ ~reused /\ pc # "ended"
  /\ reused' = TRUE
  /\ UNCHANGED <<processes, call, kills, timedOut>>

-----------------------------------------------------------------------------
(* The call.                                                               *)

\* Group::kill, which reaches whatever group has the id: every process of it
\* that lives, at the states they're in.
Kill(states) ==
  LET reached == {p \in inGroup : states[p] = "alive"}
  IN  /\ state' = [p \in Processes |-> IF p \in reached THEN "dying" ELSE states[p]]
      /\ killed' = killed \union reached
      /\ strayed' = (strayed \/ reused)
      /\ UNCHANGED <<inGroup, holders>>

\* The call's future is over, with a result or dropped, and its group is
\* dropped with it, which kills one that still counts as running.
Over(place, said, states) ==
  /\ pc' = place /\ result' = said
  /\ IF running' THEN Kill(states)
     ELSE state' = states /\ UNCHANGED <<inGroup, holders, kills>>

\* The call ends before anything was started: no such tool is enabled, it has
\* no time, its arguments don't fit, or the shell can't be started.
Refuse ==
  /\ pc = "called"
  /\ UNCHANGED <<running, timedOut, reused>>
  /\ \E said \in {"unknown", "timeout", "misfit", "failed"} : Over("ended", said, state)

Start ==
  /\ pc = "called"
  /\ pc' = "reading"
  /\ state' = [state EXCEPT ![Shell] = "alive"]
  /\ inGroup' = {Shell} /\ holders' = {Shell}
  /\ running' = TRUE
  /\ UNCHANGED <<result, kills, timedOut, reused>>

\* Nothing holds the pipe any more.
PipeEnds ==
  /\ pc = "reading" /\ holders = {}
  /\ pc' = "waiting"
  /\ UNCHANGED <<processes, result, running, kills, timedOut, reused>>

\* The pipe can't be read, or the shell not waited for.
ReadFails ==
  /\ pc \in {"reading", "waiting"}
  /\ UNCHANGED <<running, timedOut, reused>>
  /\ Over("ended", "failed", state)

ShellWaited == [state EXCEPT ![Shell] = "gone"]

\* Mutant: a group whose shell was waited for is still taken to be running.
ShellEndsUnsaid ==
  /\ pc = "waiting" /\ state[Shell] = "exited"
  /\ UNCHANGED <<running, timedOut, reused>>
  /\ Over("ended", "output", ShellWaited)

\* The shell has been waited for, so its id is free as far as the call knows,
\* and what it left running is left running.
ShellEnds ==
  /\ pc = "waiting" /\ state[Shell] = "exited"
  /\ running' = FALSE
  /\ UNCHANGED <<timedOut, reused>>
  /\ Over("ended", "output", ShellWaited)

\* Mutant: the killed shell is waited for and nothing was killed.
RunsOutUnkilled ==
  /\ pc \in {"reading", "waiting"}
  /\ pc' = "killed" /\ timedOut' = TRUE
  /\ UNCHANGED <<result, running, reused, processes, kills>>

\* The call has had its time, wherever its reading is.
RunsOut ==
  /\ pc \in {"reading", "waiting"}
  /\ Kill(state)
  /\ pc' = "killed" /\ timedOut' = TRUE
  /\ UNCHANGED <<result, running, reused>>

\* The shell is waited for, or can't be.  It was killed, unless it had left its
\* group, and then the wait is for as long as it runs.
KilledShellEnds ==
  /\ pc = "killed" /\ state[Shell] = "exited"
  /\ pc' = "looking"
  /\ state' = ShellWaited
  /\ UNCHANGED <<inGroup, holders, result, running, kills, timedOut, reused>>

WaitFails ==
  /\ pc = "killed"
  /\ UNCHANGED <<running, timedOut, reused>>
  /\ Over("ended", "failed", state)

\* Mutant: a process that has exited is taken to have gone, whoever waits.
LivesThere == reused \/ \E p \in inGroup : state[p] \in {"alive", "dying"}

\* Group::is_there: a process that has the id in its group, whosever it is.
IsThere == reused \/ \E p \in inGroup : InTable(p)

\* Nothing of the group is left.
Went ==
  /\ pc = "looking" /\ ~IsThere
  /\ running' = FALSE
  /\ UNCHANGED <<timedOut, reused>>
  /\ Over("ended", "timeout", state)

\* The group was given its time to go and hasn't.
NotGone ==
  /\ pc = "looking" /\ IsThere
  /\ UNCHANGED <<running, timedOut, reused>>
  /\ Over("ended", "failed", state)

\* The loop drops the call, at whatever await it is.
Drop ==
  /\ pc \in {"reading", "waiting", "killed", "looking"}
  /\ UNCHANGED <<running, timedOut, reused>>
  /\ Over("dropped", "none", state)

-----------------------------------------------------------------------------
Environment ==
  \/ \E p \in Processes : Leave(p) \/ Join(p) \/ LetGo(p) \/ Exit(p) \/ Die(p) \/ Take(p)
  \/ \E p, q \in Processes : Fork(p, q)
  \/ Reuse

Polled == Start \/ Refuse \/ PipeEnds \/ ShellEnds \/ KilledShellEnds \/ Went

\* The command may run for ever, and the call may be over.
Done == pc \in {"ended", "dropped"} /\ UNCHANGED vars

Next == Environment \/ Polled \/ RunsOut \/ NotGone \/ ReadFails \/ WaitFails \/ Drop \/ Done

Spec == Init /\ [][Next]_vars

\* The future is polled when what it awaits is there, its two timeouts pass,
\* and a process that was killed dies.  No command has to end, and nobody has
\* to take what was left to them.
FairSpec ==
  /\ Spec
  /\ WF_vars(Polled) /\ WF_vars(RunsOut) /\ WF_vars(NotGone)
  /\ \A p \in Processes : WF_vars(Die(p))

-----------------------------------------------------------------------------
\* A timeout says that the work has stopped: everything the command started
\* that is still in its group has died and been taken, also what the command
\* was starting as it was killed (bash.rs ended_by_the_kill).
TimeoutMeansGone == result = "timeout" => \A p \in inGroup : ~InTable(p)

\* A command that ended by itself has what it left running left alone, and
\* only a call that has had its time can kill by an id that's no longer its
\* own: no other does once the shell was waited for (bash.rs run, "its id is
\* free for another process to have").
KillsOwn ==
  /\ result = "output" => killed = {}
  /\ strayed => timedOut

\* The shell is in its group for as long as it runs, or it ends by itself.
ShellStays == [](state[Shell] = "alive" => Shell \in inGroup)
ShellExits == <>(state[Shell] \in {"exited", "gone"})

\* A call ends, though its command never does, whoever holds its pipe and
\* whether or not anybody takes the processes it leaves (bash.rs run).  It's so
\* of a shell that stays in its group; the wait for one that has left it ends
\* only with the shell.
CallEnds == ShellStays \/ ShellExits => <>(pc \in {"ended", "dropped"})

\* As a call is over whose command didn't end by itself, nothing that's in its
\* group is left running, wherever it was dropped or failed and whoever left
\* the group and came back (bash.rs Drop for Group).
LeavesNoneRunning ==
  [][pc \notin {"ended", "dropped"} /\ pc' \in {"ended", "dropped"} /\ result' # "output" =>
       \A p \in inGroup : state'[p] # "alive"]_vars

\* A call ends, and whichever end it comes to but the command's own stops what
\* it started (bash.rs run, Drop for Group).
CallsStop == CallEnds /\ LeavesNoneRunning
=============================================================================
