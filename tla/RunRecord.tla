------------------------------ MODULE RunRecord -----------------------------
(***************************************************************************)
(* The record of a run, as the domain model keeps it (lablet-model's Run,  *)
(* Final, Pending and FinishedRun).  A run waits for a response; recording *)
(* one holds its turn apart until what becomes of the turn's calls is      *)
(* known; a turn that called tools is answered and joins the transcript,   *)
(* or the run finishes and the turn joins it as it is.  The types offer    *)
(* nothing else, and this module's RecordSpec says so; the loop            *)
(* (RunLoop) is held to it.                                                *)
(*                                                                         *)
(* A turn's text, ids and timings are left out.  What usage a call had is  *)
(* its total of input and output tokens, the number a budget counts, and   *)
(* the sum Transcript::usage folds over the turns is kept as it grows.     *)
(***************************************************************************)
EXTENDS ToolCalls, StopPolicy, RetryPolicy, Sequences, FiniteSets

CONSTANTS Responses,   \* what a provider may answer: finish, calls, usage
          Failures     \* how an attempt may fail: kind, usage, hint

ASSUME ResponsesAssumption ==
  \A r \in Responses : /\ DOMAIN r = {"finish", "calls", "usage"}
                       /\ r.finish \in Finishes
                       /\ r.calls \in Seq(Calls)
                       /\ r.usage \in Nat

ASSUME FailuresAssumption ==
  \A f \in Failures : /\ DOMAIN f = {"kind", "usage", "hint"}
                      /\ f.kind \in ErrorKinds
                      /\ f.usage \in Nat
                      /\ f.hint \in Nat \union {None}

VARIABLES turns,           \* the transcript's turns, in order
          held,            \* the turn recorded and not yet in the transcript
          input,           \* whether the task still waits for the first turn
          failedAttempts,  \* failed attempts of the provider call in progress
          answeredUsage,   \* usage summed over every turn, a held one too
          failedUsage,     \* usage the failed attempts of every call reported
          outcome          \* the outcome; its reason is GoOn until there's one

recordVars == <<turns, held, input, failedAttempts, answeredUsage, failedUsage, outcome>>

Turns == [input : BOOLEAN, finish : Finishes, calls : Seq(Calls),
          attempts : Nat \ {0}, outcomes : Seq(Status)]

\* held is empty, or the one turn held.
RecordTypeOK ==
  /\ turns \in Seq(Turns)
  /\ held \in Seq(Turns) /\ Len(held) <= 1
  /\ input \in BOOLEAN
  /\ {failedAttempts, answeredUsage, failedUsage} \subseteq Nat
  /\ outcome \in [reason : StopReasons \union {GoOn}, error : BOOLEAN, structured : BOOLEAN]

RecordInit ==
  /\ turns = <<>> /\ held = <<>>
  /\ input = TRUE
  /\ failedAttempts = 0 /\ answeredUsage = 0 /\ failedUsage = 0
  /\ outcome = [reason |-> GoOn, error |-> FALSE, structured |-> FALSE]

-----------------------------------------------------------------------------
\* A provider call attempt failed, or was dropped, having used usage.
FailedAttempt(usage) ==
  /\ failedAttempts' = failedAttempts + 1
  /\ failedUsage' = failedUsage + usage
  /\ UNCHANGED <<turns, held, input, answeredUsage>>

\* The attempt that returned response is the next turn.
Responded(response) ==
  /\ held' = <<[input |-> input, finish |-> response.finish, calls |-> response.calls,
                attempts |-> failedAttempts + 1, outcomes |-> <<>>]>>
  /\ input' = FALSE
  /\ failedAttempts' = 0
  /\ answeredUsage' = answeredUsage + response.usage
  /\ UNCHANGED <<turns, failedUsage>>

\* Mutant: a call that was never run gets no outcome.
AnsweredRunOnly(outcomes) ==
  /\ turns' = Append(turns, [held[1] EXCEPT !.outcomes = SelectSeq(outcomes, WasStarted)])
  /\ held' = <<>>
  /\ UNCHANGED <<input, failedAttempts, answeredUsage, failedUsage>>

\* Every call of the turn held has its outcome, in call order.
Answered(outcomes) ==
  /\ turns' = Append(turns, [held[1] EXCEPT !.outcomes = outcomes])
  /\ held' = <<>>
  /\ UNCHANGED <<input, failedAttempts, answeredUsage, failedUsage>>

\* Mutant: the structured result outlives the reason it's for.
FinishUnclassed(reason, structured) ==
  /\ turns' = turns \o held
  /\ held' = <<>>
  /\ outcome' = [reason |-> reason, error |-> reason \in Failed, structured |-> structured]
  /\ UNCHANGED <<input, failedAttempts, answeredUsage, failedUsage>>

\* The outcome keeps what the class of its reason allows: an error, which
\* the reason gives when the loop has none, only when the run failed, and a
\* structured result only when it completed.  A turn held joins the
\* transcript with its calls unanswered.
Finish(reason, structured) ==
  /\ turns' = turns \o held
  /\ held' = <<>>
  /\ outcome' = [reason |-> reason, error |-> reason \in Failed,
                 structured |-> structured /\ reason = "completed"]
  /\ UNCHANGED <<input, failedAttempts, answeredUsage, failedUsage>>

-----------------------------------------------------------------------------
\* Mutant: a failed attempt's usage isn't spent.
SpentAnswered == answeredUsage

\* What a token budget is held against and the cost priced from.
Spent == answeredUsage + failedUsage

\* The turns in a row, counted back from the last, of which every call was
\* one the model got wrong.
InvalidTurn(turn) == \A i \in DOMAIN turn.outcomes : turn.outcomes[i] \in Invalid

ConsecutiveInvalid ==
  Cardinality({i \in DOMAIN turns : \A j \in i..Len(turns) : InvalidTurn(turns[j])})

Progress(elapsed) == [turns |-> Len(turns), elapsed |-> elapsed, usage |-> Spent,
                      invalid |-> ConsecutiveInvalid]

\* A response's only call, when it's the completion call and parsed.
CompletedWith(calls) == Len(calls) = 1 /\ Intercepts(calls[1]) /\ calls[1].parsed

\* What the summary counts as a retry: the attempts beyond the first of the
\* call behind each turn, and of the call no response followed.
Retries ==
  LET beyond[i \in 0..Len(turns)] ==
        IF i = 0 THEN 0 ELSE beyond[i - 1] + turns[i].attempts - 1
  IN  beyond[Len(turns)] + (IF failedAttempts = 0 THEN 0 ELSE failedAttempts - 1)

-----------------------------------------------------------------------------
\* What the types allow, whoever drives the run.
Running == outcome.reason = GoOn

RecordFailedAttempt ==
  /\ Running /\ held = <<>>
  /\ \E f \in Failures \union {[usage |-> 0]} : FailedAttempt(f.usage)
  /\ UNCHANGED outcome

RecordResponded ==
  /\ Running /\ held = <<>>
  /\ \E r \in Responses : Responded(r)
  /\ UNCHANGED outcome

RecordAnswered ==
  /\ Running /\ held # <<>> /\ held[1].calls # <<>>
  /\ \E outcomes \in [DOMAIN held[1].calls -> Status] : Answered(outcomes)
  /\ UNCHANGED outcome

RecordFinished ==
  /\ Running
  /\ \E reason \in StopReasons, structured \in BOOLEAN : Finish(reason, structured)

RecordNext == RecordFailedAttempt \/ RecordResponded \/ RecordAnswered \/ RecordFinished

RecordSpec == RecordInit /\ [][RecordNext]_recordVars

-----------------------------------------------------------------------------
\* The rules a transcript states of itself (transcript.rs): something from
\* the user comes before every response, a turn's outcomes answer exactly
\* its calls or there are none, and only the last turn may have calls and no
\* outcomes, which it has only once the run has finished.
TranscriptRules ==
  /\ \A i \in DOMAIN turns :
       /\ turns[i].input \/ (i > 1 /\ turns[i - 1].outcomes # <<>>)
       /\ turns[i].outcomes = <<>> \/ Len(turns[i].outcomes) = Len(turns[i].calls)
       /\ turns[i].outcomes = <<>> => i = Len(turns) /\ ~Running
=============================================================================
