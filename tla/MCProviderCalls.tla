-------------------------- MODULE MCProviderCalls ---------------------------
(***************************************************************************)
(* A small instance of ProviderCalls in explicit mode: a server that       *)
(* answers in every class the adapter tells apart, and a script.           *)
(***************************************************************************)
EXTENDS ProviderCalls

Served == [name |-> "served", parsed |-> TRUE, concurrency |-> "exclusive"]
Complete == [name |-> "task_complete", parsed |-> TRUE, concurrency |-> "shared"]

Use(id, call) == [type |-> "tool_use", whole |-> TRUE, id |-> id, call |-> call]
Unsigned == [type |-> "thinking", whole |-> FALSE]

Message(stop, blocks, usage) ==
  [is |-> "message", stop |-> stop, blocks |-> blocks, usage |-> usage]
Envelope(says) == [is |-> "envelope", says |-> says]
Garbled == [is |-> "garbled"]

Answer(status, body) ==
  [status |-> status, length |-> 1, body |-> body, retryAfter |-> None, noRetry |-> FALSE]
Long(answer) == [answer EXCEPT !.length = MaxBodyBytes + 1]
After(wait, answer) == [answer EXCEPT !.retryAfter = wait]
NoRetry(answer) == [answer EXCEPT !.noRetry = TRUE]

Messages ==
  {Message("stop_sequence", <<>>, 1), Message("tool_use", <<Use("a", Complete)>>, 1),
   Message("max_tokens", <<Use("a", Complete)>>, 1),
   Message("model_context_window_exceeded", <<Use("a", Complete)>>, 1),
   Message("tool_use", <<Use("a", Complete), Use("b", Served)>>, 0),
   Message("tool_use", <<Use("a", Complete), Use("a", Served)>>, 2),
   Message("end_turn", <<Unsigned>>, 1), Message(None, <<>>, 0)}

ServerAnswers ==
  {Answer(200, message) : message \in Messages}
  \union {Answer(200, Garbled), Long(Answer(200, Message("end_turn", <<>>, 1)))}
  \union {Answer(302, Garbled), Answer(401, Garbled), Answer(404, Envelope("nothing")),
          Answer(400, Envelope("prompt is too long")),
          Long(Answer(400, Envelope("prompt is too long"))),
          Answer(429, Envelope("enforced_spend_limit_reached"))}
  \union {After(2, Answer(529, Garbled)), After(3, Answer(429, Envelope("nothing"))),
          After(1, NoRetry(Answer(529, Garbled)))}

PlayedScript ==
  <<[latency |-> 1, result |-> Failure("retryable", 1, 2)],
    [latency |-> 0, result |-> Response("tool_use", <<Complete, Served>>, 1)],
    [latency |-> 2, result |-> Response("tool_use", <<Complete>>, 2)],
    [latency |-> 0, result |-> Failure("malformed", 0, None)],
    [latency |-> 0, result |-> Response("end_turn", <<[Complete EXCEPT !.parsed = FALSE]>>, 0)]>>

Results ==
  {Heard(answer) : answer \in ServerAnswers} \union {entry.result : entry \in {PlayedScript[i] : i \in DOMAIN PlayedScript}}
  \union {Failure("retryable", 0, None), Failure("fatal", 0, None)}

HeardResponses == {result.response : result \in {r \in Results : r.ok}}
HeardFailures == {result.failure : result \in {r \in Results : ~r.ok}}
=============================================================================
