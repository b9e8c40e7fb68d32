----------------------------- MODULE ToolAnswers -----------------------------
(***************************************************************************)
(* What a tool phase promises the loop: some time after it begins every    *)
(* call of the turn has an outcome, all at once, and each outcome is one   *)
(* the state of the run by then explains.  This is RunLoop's ToolsAnswer   *)
(* by itself; ToolPhase, which has the calls one by one, implements it.    *)
(***************************************************************************)
EXTENDS ToolCalls, StopPolicy, Sequences

CONSTANTS Phases,      \* the calls a turn may make, at least one
          Punctual,    \* whether calls keep the deadline they're given
          TimeBound    \* bound: the clock stops here

VARIABLES now, cancelled,   \* as in RunLoop
          calls,            \* the calls of the turn
          answers           \* their outcomes, in call order; empty until known

answerVars == <<now, cancelled, calls, answers>>

\* A phase begins in a run with time left, which may have been cancelled
\* since it was last asked.
AnswerInit ==
  /\ now \in {t \in 0..TimeBound : TimeLeft(t) > 0}
  /\ cancelled \in BOOLEAN
  /\ calls \in Phases
  /\ answers = <<>>

AllAnswer ==
  /\ answers = <<>>
  /\ answers' \in Outcomes(calls, cancelled, TimeLeft(now) = 0)
  /\ UNCHANGED <<now, cancelled, calls>>

TimePasses ==
  /\ answers = <<>> /\ now < TimeBound
  /\ Punctual => now < Timeout
  /\ now' = now + 1
  /\ UNCHANGED <<cancelled, calls, answers>>

RunCancelled ==
  /\ answers = <<>> /\ ~cancelled
  /\ cancelled' = TRUE
  /\ UNCHANGED <<now, calls, answers>>

AnswerNext == AllAnswer \/ TimePasses \/ RunCancelled

AnswerSpec == AnswerInit /\ [][AnswerNext]_answerVars
=============================================================================
