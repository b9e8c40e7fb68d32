--------------------------- MODULE MessagesAnswer ---------------------------
(***************************************************************************)
(* How the Messages adapter reads what a server answered an attempt with:  *)
(* a message becomes a response, and anything else a failure of one of the *)
(* five kinds the retry policy tells apart.  An answer is its status, the  *)
(* length of its body against the bound that's read, what its body holds,  *)
(* the wait its retry-after header asks for, and whether its               *)
(* x-should-retry header says false.  A retry-after that isn't a count of  *)
(* seconds is read as none, and is left out.                               *)
(*                                                                         *)
(* A body is a message, an error envelope, of which what it says is kept,  *)
(* or neither ("garbled").  A block of a message is whole when it has      *)
(* every field its kind needs and the domain takes the id and the name in  *)
(* it; its call is what a tool_use block asks for.                         *)
(***************************************************************************)
EXTENDS Integers, Sequences, Options

CONSTANT MaxBodyBytes   \* the most of a body that's read

ASSUME BodyAssumption == MaxBodyBytes \in Nat

Succeeds(status) == status \in 200..299
Redirects(status) == status \in 300..399

Failure(kind, usage, hint) ==
  [ok |-> FALSE, failure |-> [kind |-> kind, usage |-> usage, hint |-> hint]]

Response(finish, calls, usage) ==
  [ok |-> TRUE, response |-> [finish |-> finish, calls |-> calls, usage |-> usage]]

-----------------------------------------------------------------------------
(* A success.                                                              *)

\* The API's names of the reasons to stop, and then the domain's own.
FinishOf(stopReason) ==
  CASE stopReason \in {"end_turn", "stop_sequence"} -> "end_turn"
    [] stopReason \in {"tool_use", "max_tokens", "refusal"} -> stopReason
    [] stopReason \in {"model_context_window_exceeded", "context_window"} -> "context_window"
    [] OTHER -> "other"

ToolUses(blocks) == SelectSeq(blocks, LAMBDA block : block.type = "tool_use")

DistinctIds(blocks) ==
  LET uses == ToolUses(blocks)
  IN  \A i, j \in DOMAIN uses : uses[i].id = uses[j].id => i = j

\* What a 200's body has to be for the domain to take it as a response.
IsResponse(body) ==
  /\ body.is = "message" /\ body.stop # None
  /\ \A i \in DOMAIN body.blocks : body.blocks[i].whole
  /\ DistinctIds(body.blocks)

Parsed(body) ==
  IF IsResponse(body)
  THEN LET uses == ToolUses(body.blocks)
       IN  Response(FinishOf(body.stop), [i \in DOMAIN uses |-> uses[i].call], body.usage)
  ELSE Failure("malformed", 0, None)

-----------------------------------------------------------------------------
(* Anything else, by its status first and its envelope second.             *)

\* What the envelope says, when the body was read and is one.
Says(answer) ==
  IF answer.length <= MaxBodyBytes /\ answer.body.is = "envelope" THEN answer.body.says
  ELSE "nothing"

KindOf(status, says) ==
  CASE status = 400 -> IF says = "prompt is too long" THEN "context_exhausted" ELSE "fatal"
    [] status \in {401, 403} -> "auth"
    [] status \in {408, 409} \union 500..599 -> "retryable"
    [] status = 429 -> IF says = "enforced_spend_limit_reached" THEN "fatal" ELSE "retryable"
    [] OTHER -> "fatal"

\* Mutant: the hint isn't kept.
ClassifiedUnhinted(answer) ==
  LET table == KindOf(answer.status, Says(answer))
  IN  Failure(IF table = "retryable" /\ answer.noRetry THEN "fatal" ELSE table, 0, None)

\* The server may make a retryable failure fatal, and only a failure that's
\* still retryable keeps the wait the server asked for.
Classified(answer) ==
  LET table == KindOf(answer.status, Says(answer))
      kind == IF table = "retryable" /\ answer.noRetry THEN "fatal" ELSE table
  IN  Failure(kind, 0, IF kind = "retryable" THEN answer.retryAfter ELSE None)

-----------------------------------------------------------------------------
\* What the loop hears of an answer.  A success that's too long to read was
\* billed and would come again, so it's fatal where a garbled one is retried.
Heard(answer) ==
  IF ~Succeeds(answer.status) THEN Classified(answer)
  ELSE IF answer.length > MaxBodyBytes THEN Failure("fatal", 0, None)
  ELSE Parsed(answer.body)
=============================================================================
