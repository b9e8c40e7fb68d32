----------------------------- MODULE ToolCalls -----------------------------
(***************************************************************************)
(* The tool calls of a response as the loop reads them, and what may       *)
(* become of one.  A call is abstracted to what the loop branches on: what *)
(* its name resolves to, whether its arguments parsed, and whether the     *)
(* tool it names may run beside others.  A name "served" is one an         *)
(* executor of the run serves, "unoffered" one no tool of the run has.     *)
(***************************************************************************)
LOCAL INSTANCE Sequences

CONSTANT Mode   \* how the run decides that the model has finished

ASSUME ModeAssumption == Mode \in {"natural", "explicit"}

Calls == [name : {"served", "task_complete", "unoffered"},
          parsed : BOOLEAN,
          concurrency : {"shared", "exclusive"}]

\* The completion call, which the loop answers itself.  In natural mode an
\* executor may serve a tool of that name, which runs like any other.
Intercepts(call) == Mode = "explicit" /\ call.name = "task_complete"

\* Whether the call reaches an executor once its turn has come.
Executes(call) == call.name # "unoffered" /\ call.parsed /\ ~Intercepts(call)

\* A call the loop answers without an executor changes nothing, so it may
\* run beside any other.
Shared(call) == Executes(call) => call.concurrency = "shared"

-----------------------------------------------------------------------------
\* How a call that reached its executor ended, when nothing dropped it.  An
\* executor may still say that it has no tool of the name.
Executed == {"ok", "tool_error", "timeout", "failed", "unknown"}

\* The statuses of a call the model got wrong, so that it reached no tool.
Invalid == {"unknown", "malformed_input", "rejected"}

Status == Executed \union Invalid \union {"cancelled", "not_run"}

WasStarted(status) == status # "not_run"

\* What a call becomes once its turn has come and nothing drops it: the name
\* is resolved first, the arguments are read second, the completion call
\* that completed nothing is rejected third, and only then is it run.
Settles(call) ==
  CASE call.name = "unoffered" -> {"unknown"}
    [] call.name # "unoffered" /\ ~call.parsed -> {"malformed_input"}
    [] call.name # "unoffered" /\ call.parsed /\ Intercepts(call) -> {"rejected"}
    [] OTHER -> Executed

\* What may have become of the calls of a tool phase by the time it ends: a
\* call is dropped only in a run that was cancelled, and never run only when
\* its turn came in one that was cancelled or had no time left.
Outcomes(calls, cancelled, outOfTime) ==
  {outcomes \in [DOMAIN calls -> Status] :
     \A i \in DOMAIN calls :
       \/ outcomes[i] \in Settles(calls[i])
       \/ outcomes[i] = "cancelled" /\ cancelled /\ Executes(calls[i])
       \/ outcomes[i] = "not_run" /\ (cancelled \/ outOfTime)}
=============================================================================
