----------------------------- MODULE StopPolicy -----------------------------
(***************************************************************************)
(* The stop policy of lablet-policy: pure decisions about whether a run    *)
(* goes on, asked at the points of a turn where it can end.  A decision is *)
(* a stop reason, or GoOn.  Durations are whole units of time, and no time *)
(* left, which the code gives as no duration at all, is 0 here.            *)
(***************************************************************************)
EXTENDS Integers, Options

CONSTANTS Timeout,          \* the elapsed time at which the run stops
          MaxTurns,         \* the cap on turns, or None
          MaxTotalTokens,   \* the token budget, or None
          MaxInvalidTurns   \* the cap on invalid turns in a row, or None

ASSUME LimitsAssumption ==
  /\ Timeout \in Nat
  /\ MaxTurns \in {None} \union (Nat \ {0})
  /\ MaxTotalTokens \in {None} \union Nat
  /\ MaxInvalidTurns \in {None} \union (Nat \ {0})

GoOn == "go_on"

StopReasons == {"completed", "ended_without_completion", "max_turns", "timeout",
                "max_total_tokens", "output_truncated", "context_exhausted",
                "retries_exhausted", "invalid_calls_exhausted", "cancelled",
                "provider_error", "refused"}

Finishes == {"end_turn", "tool_use", "max_tokens", "context_window", "refusal", "other"}

\* The class of a stop reason: a run that failed, and one that completed; any
\* other run stopped.
Failed == {"context_exhausted", "retries_exhausted", "invalid_calls_exhausted",
           "provider_error"}

-----------------------------------------------------------------------------
\* Mutant: a run always has a little time left.
TimeLeftFloored(elapsed) == IF elapsed < Timeout THEN Timeout - elapsed ELSE 1

\* The time the run has left; the only place a deadline is taken from the
\* run's timeout.
TimeLeft(elapsed) == IF elapsed < Timeout THEN Timeout - elapsed ELSE 0

\* Mutant: the wait isn't part of the time it's begun at.
AllowsAnyWait(elapsed, wait) == TimeLeft(elapsed) > 0

\* Whether a wait begun at elapsed ends before the run's timeout.
AllowsWait(elapsed, wait) == TimeLeft(elapsed + wait) > 0

Reached(cap, count) == cap # None /\ count >= cap

\* The limits that grow during a provider call as well as a tool phase.
LimitReached(progress) ==
  IF TimeLeft(progress.elapsed) = 0 THEN "timeout"
  ELSE IF Reached(MaxTotalTokens, progress.usage) THEN "max_total_tokens"
  ELSE GoOn

\* The caps that only a finished tool phase can reach.
CapReached(progress) ==
  IF Reached(MaxInvalidTurns, progress.invalid) THEN "invalid_calls_exhausted"
  ELSE IF Reached(MaxTurns, progress.turns) THEN "max_turns"
  ELSE GoOn

-----------------------------------------------------------------------------
BeforeCall(progress) == LimitReached(progress)

AfterTools(progress) ==
  IF CapReached(progress) # GoOn THEN CapReached(progress) ELSE LimitReached(progress)

\* A response the model refused or that was cut short stops the run whatever
\* it called.
CutShort(finish) ==
  CASE finish = "refusal" -> "refused"
    [] finish = "max_tokens" -> "output_truncated"
    [] finish = "context_window" -> "context_exhausted"
    [] OTHER -> GoOn

\* Mutant: in natural mode a response that calls nothing completes the run.
FinalCompletes(finish, mode) ==
  IF mode = "natural" THEN "completed"
  ELSE IF CutShort(finish) # GoOn THEN CutShort(finish)
  ELSE "ended_without_completion"

AfterFinal(finish, mode) ==
  IF CutShort(finish) # GoOn THEN CutShort(finish)
  ELSE IF mode = "natural" THEN "completed"
  ELSE "ended_without_completion"

\* completes: the response's only call is the completion call, its arguments
\* parsed.
AfterResponse(finish, completes) ==
  IF CutShort(finish) # GoOn THEN CutShort(finish)
  ELSE IF completes THEN "completed"
  ELSE GoOn
=============================================================================
