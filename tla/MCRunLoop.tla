----------------------------- MODULE MCRunLoop ------------------------------
(***************************************************************************)
(* Small instances of RunLoop: the responses and the failures a provider   *)
(* chooses from.                                                           *)
(***************************************************************************)
EXTENDS RunLoop

Served == [name |-> "served", parsed |-> TRUE, concurrency |-> "exclusive"]
Unparsed == [name |-> "served", parsed |-> FALSE, concurrency |-> "exclusive"]
Unoffered == [name |-> "unoffered", parsed |-> TRUE, concurrency |-> "shared"]

Response(finish, calls, usage) == [finish |-> finish, calls |-> calls, usage |-> usage]
Failure(kind, usage, hint) == [kind |-> kind, usage |-> usage, hint |-> hint]

NaturalResponses ==
  {Response("end_turn", <<>>, 1), Response("max_tokens", <<>>, 1),
   Response("tool_use", <<Served>>, 1), Response("tool_use", <<Unoffered>>, 0),
   Response("tool_use", <<Unparsed, Served>>, 2), Response("refusal", <<Served>>, 0)}

FewResponses ==
  {Response("end_turn", <<>>, 1), Response("tool_use", <<Served>>, 1),
   Response("tool_use", <<Unoffered>>, 2)}

SomeFailures ==
  {Failure("retryable", 1, None), Failure("malformed", 0, 2),
   Failure("retryable", 0, 3), Failure("context_exhausted", 2, None)}

FewFailures ==
  {Failure("retryable", 1, None), Failure("malformed", 0, 2), Failure("auth", 0, None)}
=============================================================================
