------------------------------ MODULE ToolPhase ------------------------------
(***************************************************************************)
(* The tool phase of one turn, call by call: Pending::answer cuts the      *)
(* calls into groups and runs each group in a pool, and RunService::answer *)
(* runs one call, or doesn't when its turn comes too late.                 *)
(*                                                                         *)
(* The futures of a group are polled by one task, in no order the pool     *)
(* promises, so a call that's in the pool and hasn't been polled yet has   *)
(* still to have its turn.  A turn is one step: its one reading of the     *)
(* clock, its poll of the cancellation, and what it decides with them.     *)
(***************************************************************************)
EXTENDS ToolCalls, StopPolicy, Sequences, FiniteSets

CONSTANTS Phases,         \* the calls a turn may make, at least one
          MaxConcurrent,  \* how many calls of one group may run at once
          Punctual,       \* whether an executor keeps the deadline it's given
          TimeBound       \* bound: the clock stops here

ASSUME PhaseAssumption ==
  /\ \A calls \in Phases : calls \in Seq(Calls) /\ calls # <<>>
  /\ MaxConcurrent \in Nat \ {0}
  /\ Punctual \in BOOLEAN
  /\ TimeBound \in Nat

VARIABLES now,        \* the time since the run started
          cancelled,  \* whether the run has been cancelled
          calls,      \* the calls of the turn
          after,      \* the last call of the group that runs
          next,       \* the next call the pool takes, past after when none is
          place,      \* where each call is
          until,      \* the deadline of each call that has reached its executor
          outcome     \* what became of each call that has ended

vars == <<now, cancelled, calls, after, next, place, until, outcome>>

NoOutcome == "none"

TypeOK ==
  /\ now \in Nat /\ cancelled \in BOOLEAN
  /\ calls \in Phases
  /\ after \in 0..Len(calls) /\ next \in 1..Len(calls) + 1
  /\ place \in [DOMAIN calls -> {"waiting", "pooled", "running", "ended"}]
  /\ until \in [DOMAIN calls -> Nat]
  /\ outcome \in [DOMAIN calls -> Status \union {NoOutcome}]

Init ==
  /\ now \in {t \in 0..TimeBound : TimeLeft(t) > 0}
  /\ cancelled \in BOOLEAN
  /\ calls \in Phases
  /\ after = 0 /\ next = 1
  /\ place = [i \in DOMAIN calls |-> "waiting"]
  /\ until = [i \in DOMAIN calls |-> 0]
  /\ outcome = [i \in DOMAIN calls |-> NoOutcome]

-----------------------------------------------------------------------------
InPool == {i \in DOMAIN calls : place[i] \in {"pooled", "running"}}

AllEnded == \A i \in DOMAIN calls : place[i] = "ended"

\* Mutant: a group is every shared call up to the first exclusive one, with
\* that one.
GroupWithNext(first) ==
  CHOOSE last \in first..Len(calls) :
    /\ \A i \in first..last - 1 : Shared(calls[i])
    /\ last = Len(calls) \/ ~Shared(calls[last])

\* The last call of the group that first begins: the calls after a shared
\* call, as far as they're shared, run beside it.
GroupEnd(first) ==
  CHOOSE last \in first..Len(calls) :
    /\ \A i \in first..last : i = first \/ (Shared(calls[first]) /\ Shared(calls[i]))
    /\ last < Len(calls) => ~Shared(calls[first]) \/ ~Shared(calls[last + 1])

\* Once every call of a group has ended the next group is cut.
NextGroup ==
  /\ after < Len(calls) /\ next = after + 1 /\ InPool = {}
  /\ after' = GroupEnd(next)
  /\ UNCHANGED <<now, cancelled, calls, next, place, until, outcome>>

\* The pool takes the group's calls in order while it has room.
Take ==
  /\ next <= after
  /\ Cardinality(InPool) < MaxConcurrent
  /\ place' = [place EXCEPT ![next] = "pooled"]
  /\ next' = next + 1
  /\ UNCHANGED <<now, cancelled, calls, after, until, outcome>>

EndsAs(i, status) ==
  /\ place' = [place EXCEPT ![i] = "ended"]
  /\ outcome' = [outcome EXCEPT ![i] = status]
  /\ UNCHANGED <<now, cancelled, calls, after, next, until>>

\* Mutant: a call's turn looks at the time and not at the cancellation.
OutOfTime == TimeLeft(now) = 0

\* Whether the run can no longer start a call.
TooLate == cancelled \/ TimeLeft(now) = 0

\* Mutant: a call has the whole timeout, whenever its turn comes.
TurnWholeTime(i) ==
  /\ place[i] = "pooled"
  /\ IF TooLate THEN EndsAs(i, "not_run")
     ELSE IF Executes(calls[i])
     THEN /\ place' = [place EXCEPT ![i] = "running"]
          /\ until' = [until EXCEPT ![i] = now + Timeout]
          /\ UNCHANGED <<now, cancelled, calls, after, next, outcome>>
     ELSE \E status \in Settles(calls[i]) : EndsAs(i, status)

\* The call's turn has come, and it isn't run, it's answered by the loop, or
\* it reaches its executor with the time the run has left.
Turn(i) ==
  /\ place[i] = "pooled"
  /\ IF TooLate THEN EndsAs(i, "not_run")
     ELSE IF Executes(calls[i])
     THEN /\ place' = [place EXCEPT ![i] = "running"]
          /\ until' = [until EXCEPT ![i] = now + TimeLeft(now)]
          /\ UNCHANGED <<now, cancelled, calls, after, next, outcome>>
     ELSE \E status \in Settles(calls[i]) : EndsAs(i, status)

\* Its executor answers, which counts even when the run was cancelled as it
\* did.
End(i) ==
  /\ place[i] = "running"
  /\ \E status \in Settles(calls[i]) : EndsAs(i, status)

\* Mutant: a cancelled call is dropped only when it has had its time.
DropLate(i) ==
  /\ place[i] = "running" /\ cancelled /\ now >= until[i]
  /\ EndsAs(i, "cancelled")

\* The run was cancelled first, and the call is dropped where it is.
Drop(i) ==
  /\ place[i] = "running" /\ cancelled
  /\ EndsAs(i, "cancelled")

Tick ==
  /\ now < TimeBound /\ ~AllEnded
  /\ Punctual => \E i \in DOMAIN calls : place[i] = "running"
  /\ Punctual => \A i \in DOMAIN calls : place[i] = "running" => now < until[i]
  /\ now' = now + 1
  /\ UNCHANGED <<cancelled, calls, after, next, place, until, outcome>>

Cancel ==
  /\ ~cancelled /\ ~AllEnded
  /\ cancelled' = TRUE
  /\ UNCHANGED <<now, calls, after, next, place, until, outcome>>

\* The phase is over, so that any other state without a step is a deadlock.
Done == AllEnded /\ UNCHANGED vars

PhaseStep == NextGroup \/ Take \/ \E i \in DOMAIN calls : Turn(i) \/ Drop(i)

Next == PhaseStep \/ (\E i \in DOMAIN calls : End(i)) \/ Tick \/ Cancel \/ Done

Spec == Init /\ [][Next]_vars

\* The task is polled when there's something to poll it for.  Nothing is
\* promised of the executors or of time.
PolledSpec == Spec /\ WF_vars(PhaseStep)

-----------------------------------------------------------------------------
\* A call starts only when every call ahead of it has ended, but for those it
\* shares a group with, and the pool holds no more than it may: a read the
\* model placed after a write runs after it, and nothing runs beside an
\* exclusive call (spec.md section 1, run.rs Pending::answer).
GroupsHold ==
  /\ \A j \in DOMAIN calls : place[j] # "waiting" =>
       \A i \in 1..j - 1 : place[i] = "ended" \/ \A k \in i..j : Shared(calls[k])
  /\ Cardinality(InPool) <= MaxConcurrent

\* Once a call was dropped or came too late, no call of a later group is run
\* (service.rs answer: "a cancelled tool phase starts no later group").
NoLaterGroup ==
  \A i, j \in DOMAIN calls :
    /\ i < j /\ outcome[i] \in {"cancelled", "not_run"}
    /\ \E k \in i..j : ~Shared(calls[k])
    => outcome[j] \in {NoOutcome, "not_run"} /\ place[j] # "running"

\* The phase keeps what it promises the loop: every call has its outcome, in
\* call order whichever ended first, each explained by the state of the run
\* when the phase ends, and within the run's timeout when the calls keep their
\* deadlines (service.rs run_tools, stop.rs time_left).
Promised == INSTANCE ToolAnswers WITH answers <- IF AllEnded THEN outcome ELSE <<>>

AnswersAsPromised == Promised!AnswerSpec

\* The phase of a cancelled run ends, whatever its executors do (service.rs
\* unless_cancelled).
CancelEndsPhase == cancelled ~> AllEnded
=============================================================================
