------------------------------- MODULE RunLoop ------------------------------
(***************************************************************************)
(* The loop of lablet-run's RunService: one run, from its first provider   *)
(* call to its outcome, among a provider that answers, fails or hangs, a   *)
(* clock that may move between any two of the loop's readings, and a       *)
(* cancellation that may come at any time and stays.                       *)
(*                                                                         *)
(* Each reading of the clock whose value outlives the step is a variable   *)
(* (at), so a decision may rest on a reading that has gone stale.  A poll  *)
(* of the cancellation and a reading used at once are one step with the    *)
(* decision they're for: what comes between them could as well have come   *)
(* before or after the step.                                               *)
(*                                                                         *)
(* The tool phase is one step here, bounded by what became of the calls    *)
(* when it ended; ToolPhase has it call by call, and implements this step. *)
(***************************************************************************)
EXTENDS RunRecord

CONSTANTS ProviderTimeout,  \* how long one attempt may take
          Punctual,         \* whether work in flight ends by the time it was
                            \* given, and the loop's own steps take no time
          Latency,          \* the least time a provider takes to end an attempt
          TurnBound,        \* bound: the provider calls no tools in a later turn
          TimeBound         \* bound: the clock stops here

ASSUME LoopAssumption ==
  /\ ProviderTimeout \in Nat
  /\ Punctual \in BOOLEAN
  /\ Latency \in Nat
  /\ TurnBound \in Nat
  /\ TimeBound \in Nat /\ Timeout <= TimeBound

VARIABLES now,        \* the time since the run started
          cancelled,  \* whether the run has been cancelled
          pc,         \* where the loop is
          asker,      \* what point A was asked for
          at,         \* the reading of the clock point A decides on
          attempt,    \* the number of the attempt of the provider call
          failure,    \* how the last attempt failed
          due,        \* when the work in flight has had the time it was given
          stopped,    \* why the loop stopped, once it has
          attemptsStarted, callsStarted   \* history: attempts, provider calls

environment == <<now, cancelled>>
history == <<attemptsStarted, callsStarted>>
vars == <<recordVars, environment, pc, asker, at, attempt, failure, due, stopped, history>>

Places == {"clock", "admit", "calling", "waiting", "pointR", "tools", "pointB",
           "stopping", "done"}

NoFailure == [kind |-> "none", usage |-> 0, hint |-> None]

TypeOK ==
  /\ RecordTypeOK
  /\ {now, at, attempt, due, attemptsStarted, callsStarted} \subseteq Nat
  /\ cancelled \in BOOLEAN
  /\ pc \in Places
  /\ asker \in {"call", "failure", "retry"}
  /\ failure \in Failures \union {NoFailure}
  /\ stopped \in [reason : StopReasons \union {GoOn}, structured : BOOLEAN]

Init ==
  /\ RecordInit
  /\ now = 0 /\ cancelled = FALSE
  /\ pc = "clock" /\ asker = "call" /\ at = 0
  /\ attempt = 0 /\ failure = NoFailure /\ due = 0
  /\ stopped = [reason |-> GoOn, structured |-> FALSE]
  /\ attemptsStarted = 0 /\ callsStarted = 0

Least(a, b) == IF a < b THEN a ELSE b

Stop(reason, structured) ==
  /\ pc' = "stopping"
  /\ stopped' = [reason |-> reason, structured |-> structured]

-----------------------------------------------------------------------------
(* Point A: one reading of the clock, then cancelled, timeout, the budget. *)

ReadClock ==
  /\ pc = "clock"
  /\ pc' = "admit" /\ at' = now
  /\ UNCHANGED <<recordVars, environment, asker, attempt, failure, due, stopped, history>>

\* Mutant: a failure isn't held to point A before the retry policy is asked.
AdmitUnasked ==
  IF cancelled THEN "cancelled"
  ELSE IF asker # "failure" /\ TimeLeft(at) = 0 THEN "timeout"
  ELSE IF asker # "failure" THEN BeforeCall(Progress(at))
  ELSE GoOn

AdmitReason ==
  IF cancelled THEN "cancelled"
  ELSE IF TimeLeft(at) = 0 THEN "timeout"
  ELSE BeforeCall(Progress(at))

NotAdmitted ==
  /\ pc = "admit" /\ AdmitReason # GoOn
  /\ Stop(AdmitReason, FALSE)
  /\ UNCHANGED <<recordVars, environment, asker, at, attempt, failure, due, history>>

\* The attempt's deadline is the time the run had left at the reading that
\* admitted it, or the provider's own, and it runs from now.
BeginAttempt ==
  /\ pc = "admit" /\ AdmitReason = GoOn
  /\ asker # "failure"
  /\ pc' = "calling"
  /\ attempt' = IF asker = "call" THEN 1 ELSE attempt + 1
  /\ due' = now + Least(TimeLeft(at), ProviderTimeout)
  /\ attemptsStarted' = attemptsStarted + 1
  /\ callsStarted' = IF asker = "call" THEN callsStarted + 1 ELSE callsStarted
  /\ UNCHANGED <<recordVars, environment, asker, at, failure, stopped>>

-----------------------------------------------------------------------------
(* The attempt in flight: it answers, it fails, or it's dropped.  Work that *)
(* has ended counts as ended even when the run was cancelled as it ended.  *)

\* Mutant: a response is read as one that called tools whether it did or not.
ReasonUnsplit(response) ==
  AfterResponse(response.finish, CompletedWith(response.calls))

\* What the turn held says of the run: the reason to stop, or GoOn to run
\* its calls.
ResponseReason(response) ==
  IF response.calls = <<>> THEN AfterFinal(response.finish, Mode)
  ELSE AfterResponse(response.finish, CompletedWith(response.calls))

ProviderResponds(response) ==
  /\ pc = "calling" /\ now >= at + Latency
  /\ response.calls # <<>> => Len(turns) < TurnBound
  /\ Responded(response)
  /\ IF ResponseReason(response) = GoOn
     THEN pc' = "pointR" /\ UNCHANGED stopped
     ELSE Stop(ResponseReason(response), CompletedWith(response.calls))
  /\ UNCHANGED <<outcome, environment, asker, at, attempt, failure, due, history>>

\* A failure another attempt could answer is held to point A before the
\* retry policy is asked; any other ends the run as itself.
ProviderFails(f) ==
  /\ pc = "calling" /\ now >= at + Latency
  /\ FailedAttempt(f.usage)
  /\ failure' = f
  /\ IF f.kind \in Retryable
     THEN pc' = "clock" /\ asker' = "failure" /\ UNCHANGED stopped
     ELSE Stop(StopReasonFor(f.kind), FALSE) /\ UNCHANGED asker
  /\ UNCHANGED <<outcome, environment, at, attempt, due, history>>

\* Mutant: an attempt that was dropped isn't counted.
DroppedUncounted ==
  /\ pc = "calling" /\ cancelled
  /\ Stop("cancelled", FALSE)
  /\ UNCHANGED <<recordVars, environment, asker, at, attempt, failure, due, history>>

AttemptDropped ==
  /\ pc = "calling" /\ cancelled
  /\ FailedAttempt(0)
  /\ Stop("cancelled", FALSE)
  /\ UNCHANGED <<outcome, environment, asker, at, attempt, failure, due, history>>

\* The wait before the next attempt, or why there's none.  A wait that would
\* carry the run to its timeout isn't taken.
AskRetry ==
  /\ pc = "admit" /\ AdmitReason = GoOn
  /\ asker = "failure"
  /\ LET waits == NextWaits(attempt, failure.kind, failure.hint)
     IN  \/ /\ waits = {}
            /\ Stop(StopReasonFor(failure.kind), FALSE)
            /\ UNCHANGED due
         \/ \E wait \in waits :
              IF AllowsWait(now, wait)
              THEN pc' = "waiting" /\ due' = now + wait /\ UNCHANGED stopped
              ELSE Stop("timeout", FALSE) /\ UNCHANGED due
  /\ UNCHANGED <<recordVars, environment, asker, at, attempt, failure, history>>

WaitEnds ==
  /\ pc = "waiting" /\ now >= due
  /\ pc' = "clock" /\ asker' = "retry"
  /\ UNCHANGED <<recordVars, environment, at, attempt, failure, due, stopped, history>>

\* Mutant: the wait isn't raced with the cancellation.
WaitUnraced ==
  /\ pc = "waiting" /\ cancelled /\ now >= due
  /\ Stop("cancelled", FALSE)
  /\ UNCHANGED <<recordVars, environment, asker, at, attempt, failure, due, history>>

WaitDropped ==
  /\ pc = "waiting" /\ cancelled
  /\ Stop("cancelled", FALSE)
  /\ UNCHANGED <<recordVars, environment, asker, at, attempt, failure, due, history>>

-----------------------------------------------------------------------------
(* The tool phase, and the two points around it.                           *)

\* Point R reads only the response, so the time is read once more before a
\* tool starts.
AfterPointR ==
  /\ pc = "pointR"
  /\ IF TimeLeft(now) = 0
     THEN Stop("timeout", FALSE) /\ UNCHANGED due
     ELSE pc' = "tools" /\ due' = now + TimeLeft(now) /\ UNCHANGED stopped
  /\ UNCHANGED <<recordVars, environment, asker, at, attempt, failure, history>>

ToolsAnswer ==
  /\ pc = "tools"
  /\ \E outcomes \in Outcomes(held[1].calls, cancelled, TimeLeft(now) = 0) : Answered(outcomes)
  /\ pc' = "pointB"
  /\ UNCHANGED <<outcome, environment, asker, at, attempt, failure, due, stopped, history>>

\* Mutant: point B forgets to poll the cancellation.
PointBUnpolled == AfterTools(Progress(now))

PointBReason == IF cancelled THEN "cancelled" ELSE AfterTools(Progress(now))

PointB ==
  /\ pc = "pointB"
  /\ IF PointBReason = GoOn
     THEN pc' = "clock" /\ asker' = "call" /\ UNCHANGED stopped
     ELSE Stop(PointBReason, FALSE) /\ UNCHANGED asker
  /\ UNCHANGED <<recordVars, environment, at, attempt, failure, due, history>>

\* The loop has returned and the record is closed.
Close ==
  /\ pc = "stopping"
  /\ Finish(stopped.reason, stopped.structured)
  /\ pc' = "done"
  /\ UNCHANGED <<environment, asker, at, attempt, failure, due, stopped, history>>

-----------------------------------------------------------------------------
(* The environment.                                                        *)

\* Time passes at any step of the loop.  When the run is punctual it passes
\* only while work is in flight, and never past the time the work was given.
Tick ==
  /\ now < TimeBound /\ pc # "done"
  /\ Punctual => pc \in {"calling", "waiting", "tools"} /\ now < due
  /\ now' = now + 1
  /\ UNCHANGED <<recordVars, cancelled, pc, asker, at, attempt, failure, due, stopped, history>>

Cancel ==
  /\ ~cancelled /\ pc # "done"
  /\ cancelled' = TRUE
  /\ UNCHANGED <<recordVars, now, pc, asker, at, attempt, failure, due, stopped, history>>

ProviderStep ==
  \/ \E r \in Responses : ProviderResponds(r)
  \/ \E f \in Failures : ProviderFails(f)

\* The steps the loop takes by itself, which wait for nothing but a poll.
LoopStep ==
  \/ ReadClock \/ NotAdmitted \/ BeginAttempt \/ AskRetry
  \/ AttemptDropped \/ WaitEnds \/ WaitDropped
  \/ AfterPointR \/ PointB \/ Close

\* The run is over, so that any other state without a step is a deadlock.
Done == pc = "done" /\ UNCHANGED vars

Next == LoopStep \/ ProviderStep \/ ToolsAnswer \/ Tick \/ Cancel \/ Done

Spec == Init /\ [][Next]_vars

\* The runtime polls the loop when there's something to poll it for, which a
\* cancellation is: a tool phase of a cancelled run ends whatever its calls
\* would have done.  Nothing is promised of the provider, the tools or time.
PolledSpec ==
  Spec /\ WF_vars(LoopStep) /\ WF_vars(cancelled /\ ToolsAnswer)

\* And every call ends, since each keeps the deadline it's given, and time
\* passes.
FairSpec ==
  PolledSpec /\ WF_vars(ProviderStep) /\ WF_vars(ToolsAnswer) /\ WF_vars(Tick)

-----------------------------------------------------------------------------
(* Safety.                                                                 *)

Over == pc \in {"stopping", "done"}

AttemptUsages == {r.usage : r \in Responses} \union {f.usage : f \in Failures}

\* The budget bounds the run: no attempt is in flight once the budget is
\* spent, and it's passed by less than the one attempt that reached it used,
\* whether that attempt answered or failed (service.rs admit, run.rs spent).
BudgetHolds ==
  MaxTotalTokens # None =>
    LET used == answeredUsage + failedUsage
    IN  /\ pc = "calling" => used < MaxTotalTokens
        /\ used > MaxTotalTokens => \E u \in AttemptUsages : used - u < MaxTotalTokens

\* A run whose work keeps the time it's given is over by its timeout: every
\* deadline, every wait before a retry and every tool phase ends within it
\* (stop.rs time_left, allows_wait).
WithinTimeout == Punctual => now <= Timeout

\* The number an attempt's telemetry carries is the number the record gives
\* the turn it makes, and never passes the retries of the policy: the loop's
\* count and the record's are kept apart and reset apart (service.rs call,
\* run.rs failed_attempt, responded).
AttemptNumbers ==
  pc = "calling" => /\ attempt = failedAttempts + 1
                    /\ attempt <= MaxRetries + 1

\* The retries the summary reports are the attempts made beyond the first of
\* each provider call, whatever ended the run and wherever (run.rs finish).
RetriesCounted == pc = "done" => Retries = attemptsStarted - callsStarted

\* Every attempt is counted once and by both alike, the loop as it's made and
\* the record in what it sums up (service.rs call, run.rs finish).
AttemptsCounted == AttemptNumbers /\ RetriesCounted

\* The model is never sent an outcome of a call that was never run or was
\* dropped: the run that left one stops before its next provider call
\* (tool.rs is_error, service.rs tool_turn against point B).
OnlyStartedSent ==
  pc \in {"clock", "admit", "calling", "waiting"} =>
    \A i \in DOMAIN turns : \A j \in DOMAIN turns[i].outcomes :
      turns[i].outcomes[j] \notin {"not_run", "cancelled"}

\* No call of a response that was refused or cut short is ever run, and such
\* a response is the run's last and never its structured result (stop.rs
\* after_response, outcome.rs closing).
CutShortEndsRun ==
  \A i \in DOMAIN turns : CutShort(turns[i].finish) # GoOn =>
    /\ turns[i].outcomes = <<>>
    /\ i = Len(turns) /\ outcome.reason = CutShort(turns[i].finish)
    /\ ~outcome.structured

\* What each stop reason says of the run it ended (spec.md, "every limit is
\* met when the run reaches it": a cap is never passed, and a failure counts
\* as the end of the retries only in a run with time and tokens left).
ReasonHolds ==
  Over =>
    LET last == (turns \o held)[Len(turns \o held)]
        whole == turns \o held # <<>> /\ CutShort(last.finish) = GoOn
    IN  CASE stopped.reason = "cancelled" -> cancelled
          [] stopped.reason = "timeout" ->
               \/ now >= Timeout
               \/ \E wait \in NextWaits(attempt, failure.kind, failure.hint) :
                     now + wait >= Timeout
          [] stopped.reason = "max_total_tokens" -> Reached(MaxTotalTokens, Spent)
          [] stopped.reason = "max_turns" -> held = <<>> /\ Len(turns) = MaxTurns
          [] stopped.reason = "invalid_calls_exhausted" ->
               held = <<>> /\ ConsecutiveInvalid = MaxInvalidTurns
          [] stopped.reason = "retries_exhausted" ->
               /\ failedAttempts > MaxRetries \/ failure.hint > HintMax
               /\ TimeLeft(at) > 0 /\ ~Reached(MaxTotalTokens, Spent)
          [] stopped.reason = "provider_error" -> failure.kind \in {"auth", "fatal"}
          [] stopped.reason = "completed" ->
               /\ whole /\ last.outcomes = <<>>
               /\ IF Mode = "natural" THEN last.calls = <<>> ELSE CompletedWith(last.calls)
          [] stopped.reason = "ended_without_completion" ->
               whole /\ Mode = "explicit" /\ last.calls = <<>>
          [] OTHER -> stopped.reason = "context_exhausted" \/ ~whole

-----------------------------------------------------------------------------
(* Liveness.                                                               *)

\* A cancelled run stops, whatever the provider and the tools do: nothing it
\* waits for outlives the cancellation (service.rs unless_cancelled).
CancelStops == cancelled ~> pc = "done"

\* Every run ends: with no cap on turns and no budget its timeout ends it
\* (stop.rs max_turns, "the timeout and the token budget bound the run").
RunEnds == <>(pc = "done")
=============================================================================
