-------------------------- MODULE MessagesRequest ---------------------------
(***************************************************************************)
(* The messages of a request to the Messages API, from the messages of the *)
(* conversation: a user message is tool results in call order and then its *)
(* input, an assistant message its blocks, of which only the tool calls    *)
(* are kept here.  A block is its kind and the call it makes or answers.   *)
(***************************************************************************)
EXTENDS Sequences

ToolUse(calls) == [i \in DOMAIN calls |-> [kind |-> "tool_use", id |-> i]]

ToolResult(results) ==
  [i \in DOMAIN results |-> [kind |-> "tool_result", id |-> results[i].id]]

MessageParam(message) ==
  [role |-> message.role,
   content |-> IF message.role = "assistant" THEN ToolUse(message.calls)
               ELSE ToolResult(message.results)
                 \o (IF message.input THEN <<[kind |-> "text", id |-> 0]>> ELSE <<>>)]

RequestMessages(messages) == [i \in DOMAIN messages |-> MessageParam(messages[i])]

\* The blocks a cache breakpoint can be put on.
TakesMark(block) == block.kind \in {"text", "tool_result"}

\* Whether the request's messages get their breakpoint, which sits on the last
\* block of the last message or nowhere.
Marked(params) ==
  LET content == params[Len(params)].content
  IN  content # <<>> /\ TakesMark(content[Len(content)])
=============================================================================
