--------------------------- MODULE BashGroupProofs --------------------------
(***************************************************************************)
(* What a call of the bash tool promises of the processes it started,      *)
(* proved for any number of them and whatever they do.                     *)
(***************************************************************************)
EXTENDS BashGroup, TLAPS

GroupGone == \A p \in inGroup : ~InTable(p)

\* What of the group each place of the call rests on: until it has had its
\* time nothing was killed, until its shell was waited for the id is its own,
\* and until it's over its group is killed if it's dropped.
CallInv ==
  /\ TypeOK
  /\ \A p \in inGroup : state[p] # "unborn"
  /\ pc = "called" => inGroup = {} /\ ~running /\ state[Shell] = "unborn"
  /\ pc \in {"called", "reading", "waiting"} => killed = {} /\ ~timedOut /\ result = "none"
  /\ pc \in {"called", "reading", "waiting", "killed"} => state[Shell] # "gone"
  /\ pc \in {"killed", "looking"} => timedOut /\ result = "none"
  /\ pc = "looking" => state[Shell] = "gone"
  /\ pc = "dropped" => result = "none"
  /\ pc \in {"reading", "waiting", "killed", "looking"} => running
  /\ state[Shell] = "unborn" => \A p \in Processes : state[p] = "unborn"
  /\ result = "timeout" => state[Shell] \in {"unborn", "gone"}
  /\ reused => state[Shell] = "gone"
  /\ KillsOwn
  /\ TimeoutMeansGone

LEMMA CallInvInit == Init => CallInv
  BY BashAssumption
     DEF Init, CallInv, TypeOK, KillsOwn, TimeoutMeansGone, Processes, InTable

-----------------------------------------------------------------------------
(* The processes.                                                          *)

\* A step of the processes changes what they are and nothing of the call.
LEMMA ProcessStep ==
  ASSUME CallInv, UNCHANGED <<call, kills, timedOut, reused>>,
         state' \in [Processes -> {"unborn", "alive", "dying", "exited", "gone"}],
         inGroup' \subseteq Processes, holders' \subseteq Processes,
         \A p \in inGroup' : state'[p] # "unborn",
         pc = "called" => inGroup' = {},
         state'[Shell] = "gone" <=> state[Shell] = "gone",
         state'[Shell] = "unborn" <=> state[Shell] = "unborn",
         state'[Shell] = "unborn" => \A p \in Processes : state'[p] = "unborn",
         state[Shell] \in {"unborn", "gone"} /\ GroupGone => GroupGone'
  PROVE  CallInv'
  BY DEF CallInv, TypeOK, KillsOwn, TimeoutMeansGone, GroupGone, call, kills

LEMMA EnvironmentStep == CallInv /\ Environment => CallInv'
<1> SUFFICES ASSUME CallInv, Environment PROVE CallInv'
  OBVIOUS
<1>0. /\ state \in [Processes -> {"unborn", "alive", "dying", "exited", "gone"}]
      /\ inGroup \subseteq Processes /\ holders \subseteq Processes /\ Shell \in Processes
  BY DEF CallInv, TypeOK, Processes
<1>1. ASSUME NEW p \in Processes, NEW q \in Processes, Fork(p, q) PROVE CallInv'
  <2>1. /\ state' = [state EXCEPT ![q] = "alive"] /\ state[p] = "alive" /\ state[q] = "unborn"
        /\ inGroup' = IF p \in inGroup THEN inGroup \union {q} ELSE inGroup
        /\ holders' \in {holders, holders \union {q}}
        /\ UNCHANGED <<call, kills, timedOut, reused>>
    BY <1>1 DEF Fork
  <2>2. GroupGone => GroupGone' /\ p \notin inGroup
    BY <1>0, <2>1 DEF GroupGone, InTable, CallInv
  <2>3. \A r \in inGroup' : state'[r] # "unborn"
    BY <1>0, <2>1 DEF CallInv
  <2>4. pc = "called" => inGroup' = {}
    BY <2>1 DEF CallInv
  <2>5. state[Shell] # "unborn" /\ q # Shell
    BY <1>0, <2>1 DEF CallInv
  <2> QED
    BY <1>0, <2>1, <2>2, <2>3, <2>4, <2>5, ProcessStep
<1>2. ASSUME NEW p \in Processes, Leave(p) PROVE CallInv'
  <2>1. /\ inGroup' = inGroup \ {p} /\ UNCHANGED <<state, holders>>
        /\ UNCHANGED <<call, kills, timedOut, reused>>
    BY <1>2 DEF Leave
  <2>2. /\ \A r \in inGroup' : state'[r] # "unborn"
        /\ pc = "called" => inGroup' = {}
        /\ GroupGone => GroupGone'
        /\ state[Shell] = "unborn" => \A r \in Processes : state[r] = "unborn"
    BY <2>1 DEF CallInv, GroupGone, InTable
  <2> QED
    BY <1>0, <2>1, <2>2, ProcessStep
<1>3. ASSUME NEW p \in Processes, LetGo(p) PROVE CallInv'
  <2>1. /\ holders' = holders \ {p} /\ UNCHANGED <<state, inGroup>>
        /\ UNCHANGED <<call, kills, timedOut, reused>>
    BY <1>3 DEF LetGo
  <2>2. /\ \A r \in inGroup' : state'[r] # "unborn"
        /\ pc = "called" => inGroup' = {}
        /\ GroupGone => GroupGone'
        /\ state[Shell] = "unborn" => \A r \in Processes : state[r] = "unborn"
    BY <2>1 DEF CallInv, GroupGone, InTable
  <2> QED
    BY <1>0, <2>1, <2>2, ProcessStep
<1>4. ASSUME NEW p \in Processes, NEW to \in {"exited", "gone"},
             state' = [state EXCEPT ![p] = to], inGroup' = inGroup,
             holders' \subseteq Processes,
             state[p] \in {"alive", "dying", "exited"},
             p = Shell => to = "exited" /\ state[p] # "gone",
             to = "exited" => state[p] \in {"alive", "dying"},
             UNCHANGED <<call, kills, timedOut, reused>>
      PROVE  CallInv'
  <2>1. /\ \A r \in inGroup' : state'[r] # "unborn"
        /\ pc = "called" => inGroup' = {}
        /\ GroupGone => GroupGone'
    BY <1>0, <1>4 DEF CallInv, GroupGone, InTable
  <2>2. /\ state'[Shell] = "gone" <=> state[Shell] = "gone"
        /\ state'[Shell] = "unborn" <=> state[Shell] = "unborn"
        /\ state[Shell] # "unborn"
    BY <1>0, <1>4 DEF CallInv
  <2> QED
    BY <1>0, <1>4, <2>1, <2>2, ProcessStep
<1>5. ASSUME NEW p \in Processes, Exit(p) \/ Die(p) PROVE CallInv'
  BY <1>0, <1>4, <1>5 DEF Exit, Die, Gone
<1>6. ASSUME NEW p \in Processes, Take(p) PROVE CallInv'
  BY <1>0, <1>4, <1>6 DEF Take
<1>7. ASSUME NEW p \in Processes, Join(p) PROVE CallInv'
  <2>1. /\ inGroup' = inGroup \union {p} /\ UNCHANGED <<state, holders>>
        /\ UNCHANGED <<call, kills, timedOut, reused>>
        /\ state[p] = "alive" /\ (p = Shell \/ ~GroupGone)
    BY <1>7 DEF Join, GroupGone
  <2>2. /\ state[Shell] # "unborn" /\ pc # "called"
        /\ \A r \in inGroup' : state'[r] # "unborn"
    BY <1>0, <2>1 DEF CallInv
  <2> QED
    BY <1>0, <2>1, <2>2, ProcessStep
<1>8. CASE Reuse
  BY <1>8 DEF Reuse, IdIsFree, processes, call, kills, CallInv, TypeOK, KillsOwn,
              TimeoutMeansGone, InTable
<1> QED
  BY <1>1, <1>2, <1>3, <1>5, <1>6, <1>7, <1>8 DEF Environment

-----------------------------------------------------------------------------
(* The call.                                                               *)

\* A kill leaves every process of the group in the table and none alive.
LEMMA KillKeeps ==
  ASSUME CallInv, NEW states,
         states \in [Processes -> {"unborn", "alive", "dying", "exited", "gone"}],
         Kill(states)
  PROVE  /\ state' \in [Processes -> {"unborn", "alive", "dying", "exited", "gone"}]
         /\ killed' \subseteq Processes /\ UNCHANGED <<inGroup, holders>>
         /\ strayed' = (strayed \/ reused) /\ strayed' \in BOOLEAN
         /\ \A p \in Processes :
              /\ state'[p] = "gone" <=> states[p] = "gone"
              /\ state'[p] = "unborn" <=> states[p] = "unborn"
  BY DEF Kill, CallInv, TypeOK

\* A call that's over without having said that its time was up, or that it
\* ended by itself, keeps the invariant whether or not it kills.
LEMMA OverKeeps ==
  ASSUME CallInv, NEW place \in {"ended", "dropped"},
         NEW said \in {"none", "unknown", "misfit", "failed"},
         Over(place, said, state), UNCHANGED <<running, timedOut, reused>>,
         place = "dropped" => said = "none",
         pc \in {"called", "reading", "waiting", "killed", "looking"}
  PROVE  CallInv'
<1>1. state \in [Processes -> {"unborn", "alive", "dying", "exited", "gone"}] /\ Shell \in Processes
  BY DEF CallInv, TypeOK, Processes
<1>2. reused => timedOut
  BY DEF CallInv
<1>3. CASE running'
  <2>1. Kill(state) /\ pc' = place /\ result' = said
    BY <1>3 DEF Over
  <2>2. strayed' => timedOut
    BY <1>2, <2>1, <1>1, KillKeeps DEF CallInv, KillsOwn
  <2> QED
    BY <1>1, <2>1, <2>2, KillKeeps DEF CallInv, TypeOK, KillsOwn, TimeoutMeansGone
<1>4. CASE ~running'
  BY <1>4 DEF Over, kills, CallInv, TypeOK, KillsOwn, TimeoutMeansGone
<1> QED
  BY <1>3, <1>4

LEMMA CallStep ==
  ASSUME CallInv, Polled \/ RunsOut \/ NotGone \/ ReadFails \/ WaitFails \/ Drop
  PROVE  CallInv'
<1>0. state \in [Processes -> {"unborn", "alive", "dying", "exited", "gone"}] /\ Shell \in Processes
  BY DEF CallInv, TypeOK, Processes
<1>1. CASE Refuse
  <2>1. PICK said \in {"unknown", "timeout", "misfit", "failed"} : Over("ended", said, state)
    BY <1>1 DEF Refuse
  <2>2. CASE said = "timeout"
    <3>1. /\ pc' = "ended" /\ result' = "timeout" /\ inGroup = {} /\ ~running'
          /\ pc = "called" /\ state[Shell] = "unborn"
          /\ UNCHANGED <<state, inGroup, holders, kills, running, timedOut, reused>>
      BY <1>1, <2>1, <2>2 DEF Refuse, Over, CallInv
    <3> QED
      BY <3>1 DEF kills, CallInv, TypeOK, KillsOwn, TimeoutMeansGone
  <2>3. CASE said # "timeout"
    BY <1>1, <2>1, <2>3, OverKeeps DEF Refuse
  <2> QED
    BY <2>2, <2>3
<1>2. CASE Start
  <2>1. /\ state' = [state EXCEPT ![Shell] = "alive"]
        /\ inGroup' = {Shell} /\ holders' = {Shell} /\ running' = TRUE
        /\ pc = "called" /\ pc' = "reading"
        /\ UNCHANGED <<result, killed, strayed, timedOut, reused>>
    BY <1>2 DEF Start, kills
  <2>2. TypeOK'
    BY <1>0, <2>1 DEF CallInv, TypeOK
  <2>3. ~reused
    BY <2>1 DEF CallInv
  <2> QED
    BY <1>0, <2>1, <2>2, <2>3 DEF CallInv, KillsOwn, TimeoutMeansGone
<1>3. CASE PipeEnds
  BY <1>3 DEF PipeEnds, processes, kills, CallInv, TypeOK, KillsOwn, TimeoutMeansGone, InTable
<1>4. CASE ShellEnds
  <2>1. /\ pc = "waiting" /\ pc' = "ended" /\ result' = "output" /\ running' = FALSE
        /\ state' = [state EXCEPT ![Shell] = "gone"]
        /\ UNCHANGED <<inGroup, holders, killed, strayed, timedOut, reused>>
    BY <1>4 DEF ShellEnds, Over, ShellWaited, kills
  <2> QED
    BY <1>0, <2>1 DEF CallInv, TypeOK, KillsOwn, TimeoutMeansGone
<1>5. CASE KilledShellEnds
  <2>1. /\ pc = "killed" /\ pc' = "looking"
        /\ state' = [state EXCEPT ![Shell] = "gone"]
        /\ UNCHANGED <<inGroup, holders, result, running, killed, strayed, timedOut, reused>>
    BY <1>5 DEF KilledShellEnds, ShellWaited, kills
  <2> QED
    BY <1>0, <2>1 DEF CallInv, TypeOK, KillsOwn, TimeoutMeansGone
<1>6. CASE Went
  <2>1. /\ pc = "looking" /\ pc' = "ended" /\ result' = "timeout" /\ running' = FALSE
        /\ \A p \in inGroup : ~InTable(p)
        /\ UNCHANGED <<state, inGroup, holders, killed, strayed, timedOut, reused>>
    BY <1>6 DEF Went, IsThere, Over, kills
  <2> QED
    BY <2>1 DEF CallInv, TypeOK, KillsOwn, TimeoutMeansGone, InTable
<1>7. CASE RunsOut
  <2>1. /\ pc \in {"reading", "waiting"} /\ pc' = "killed" /\ timedOut' = TRUE /\ Kill(state)
        /\ UNCHANGED <<result, running, reused>>
    BY <1>7 DEF RunsOut
  <2> QED
    BY <1>0, <2>1, KillKeeps DEF CallInv, TypeOK, KillsOwn, TimeoutMeansGone
<1>8. CASE NotGone \/ ReadFails \/ WaitFails \/ Drop
  BY <1>8, OverKeeps DEF NotGone, ReadFails, WaitFails, Drop
<1> QED
  BY <1>1, <1>2, <1>3, <1>4, <1>5, <1>6, <1>7, <1>8 DEF Polled

LEMMA CallInvStep == CallInv /\ [Next]_vars => CallInv'
<1>1. CallInv /\ UNCHANGED vars => CallInv'
  BY DEF vars, processes, call, kills, CallInv, TypeOK, KillsOwn, TimeoutMeansGone, InTable
<1> QED
  BY EnvironmentStep, CallStep, <1>1 DEF Next, Done

-----------------------------------------------------------------------------
\* The call's state keeps its types (bash.rs run).
THEOREM CallTypeCorrect == Spec => []TypeOK
  BY CallInvInit, CallInvStep, PTL DEF Spec, CallInv

\* A call that says it had its time has none of its group left, however many
\* processes its command started, and whenever (bash.rs ended_by_the_kill).
THEOREM TimeoutAlwaysMeansGone == Spec => []TimeoutMeansGone
  BY CallInvInit, CallInvStep, PTL DEF Spec, CallInv

\* A command that ended by itself has nothing killed, and only a call that has
\* had its time can reach another group (bash.rs run).
THEOREM KillsOwnHolds == Spec => []KillsOwn
  BY CallInvInit, CallInvStep, PTL DEF Spec, CallInv

-----------------------------------------------------------------------------
\* A kill leaves nothing of the group running.
LEMMA KillStops ==
  ASSUME CallInv, Kill(state)
  PROVE  \A p \in inGroup : state'[p] # "alive"
  BY DEF Kill, CallInv, TypeOK

LEMMA LeavesNoneRunningStep == CallInv /\ [Next]_vars => [
    pc \notin {"ended", "dropped"} /\ pc' \in {"ended", "dropped"} /\ result' # "output" =>
      \A p \in inGroup : state'[p] # "alive"]_vars
<1> SUFFICES ASSUME CallInv, [Next]_vars, pc \notin {"ended", "dropped"},
                    pc' \in {"ended", "dropped"}, result' # "output"
             PROVE  \A p \in inGroup : state'[p] # "alive"
  OBVIOUS
<1>1. CASE Environment \/ UNCHANGED vars \/ Done
  BY <1>1 DEF Environment, Fork, Leave, Join, LetGo, Exit, Die, Gone, Take, Reuse, call, vars, Done
<1>2. CASE Start \/ PipeEnds \/ KilledShellEnds \/ RunsOut
  BY <1>2 DEF Start, PipeEnds, KilledShellEnds, RunsOut
<1>3. CASE Refuse
  BY <1>3 DEF Refuse, CallInv
<1>4. CASE ShellEnds
  BY <1>4 DEF ShellEnds, Over
<1>5. CASE Went
  BY <1>5 DEF Went, Over, IsThere, InTable
<1>6. CASE NotGone \/ ReadFails \/ WaitFails \/ Drop
  <2>1. running' /\ Kill(state)
    BY <1>6 DEF NotGone, ReadFails, WaitFails, Drop, Over, CallInv
  <2> QED
    BY <2>1, KillStops
<1> QED
  BY <1>1, <1>2, <1>3, <1>4, <1>5, <1>6 DEF Next, Polled

\* However a call is over whose command didn't end by itself, nothing of its
\* group runs on, whatever was forked, left the group or came back to it
\* (bash.rs Drop for Group).
THEOREM LeavesNoneRunningHolds == Spec => LeavesNoneRunning
  BY CallInvInit, CallInvStep, LeavesNoneRunningStep, PTL DEF Spec, LeavesNoneRunning
=============================================================================
