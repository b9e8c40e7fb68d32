---------------------------- MODULE Conversation ----------------------------
(***************************************************************************)
(* What a run says of its provider calls: the chat span of each attempt,   *)
(* the bytes it measured of the request, the retry it announced, and, when *)
(* the run captures content, the exchange it wrote down.                   *)
(*                                                                         *)
(* None of it is read back by the loop, and none of it is taken from the   *)
(* messages that are sent: the request is rendered from the transcript at  *)
(* each attempt, while the captured conversation grows beside it, told of  *)
(* each response and each result as they come, and the measure grows by    *)
(* what it hasn't measured yet.  Each action here is the loop's action and *)
(* what the code does with the conversation in it.                         *)
(*                                                                         *)
(* A call's id is its place in its response, so the ids of one turn come   *)
(* again in the next.  A provider refuses a response with an id twice.     *)
(***************************************************************************)
EXTENDS RunLoop, MessagesRequest

VARIABLES conversation,  \* what's captured: messages, unanswered calls, results
          measure,       \* the size of the messages measured for good, and how many
          opened,        \* the chat span of the attempt in flight, if there's one
          chat           \* the chat span that ended last, with its exchange

telling == <<conversation, measure, opened, chat>>

NoChat == [turn |-> 0]

-----------------------------------------------------------------------------
(* The request, rendered from the transcript (Transcript::messages).       *)

Results(turn) == [call \in DOMAIN turn.outcomes |-> [id |-> call, status |-> turn.outcomes[call]]]

\* The user's message: results and the input, unless there's neither.
PushUser(results, hasInput) ==
  IF results = <<>> /\ ~hasInput THEN <<>>
  ELSE <<[role |-> "user", results |-> results, input |-> hasInput]>>

Assistant(calls) == [role |-> "assistant", calls |-> calls]

\* Mutant: only the results the next turn answers are sent whole.
MessagesElided ==
  LET before[i \in 0..Len(turns)] ==
        IF i = 0 THEN <<>>
        ELSE before[i - 1] \o PushUser(<<>>, turns[i].input) \o <<Assistant(turns[i].calls)>>
      last == IF turns = <<>> THEN <<>> ELSE Results(turns[Len(turns)])
  IN  before[Len(turns)] \o PushUser(last, input)

\* Every response of the transcript, each after the user's message it
\* answered, and then the message the next turn will answer.
Messages ==
  LET results(i) == IF i = 0 THEN <<>> ELSE Results(turns[i])
      before[i \in 0..Len(turns)] ==
        IF i = 0 THEN <<>>
        ELSE before[i - 1] \o PushUser(results(i - 1), turns[i].input)
                           \o <<Assistant(turns[i].calls)>>
  IN  before[Len(turns)] \o PushUser(results(Len(turns)), input)

\* The length of a message: its own, and a part for each thing it holds.
Size(message) ==
  IF message.role = "assistant" THEN 2 + Len(message.calls)
  ELSE 1 + 3 * Len(message.results) + (IF message.input THEN 5 ELSE 0)

SizeOfAll(messages, from, to) ==
  LET sum[i \in from - 1..to] == IF i < from THEN 0 ELSE sum[i - 1] + Size(messages[i])
  IN  IF to < from THEN 0 ELSE sum[to]

\* Each message but the last is measured once, when it can't grow any more.
Measured(messages) ==
  [settled |-> measure.settled + SizeOfAll(messages, measure.measured + 1, Len(messages) - 1),
   measured |-> IF messages = <<>> THEN 0 ELSE Len(messages) - 1]

-----------------------------------------------------------------------------
(* The captured conversation.                                              *)

Opening ==
  [messages |-> <<[role |-> "user", parts |-> <<"task">>]>>, unanswered |-> {}, results |-> <<>>]

\* The conversation is told the outcomes of a tool phase, but for those of
\* calls that were never run.
Answer(told, outcomes) ==
  LET started == {i \in DOMAIN outcomes : WasStarted(outcomes[i])}
  IN  [told EXCEPT !.results = [id \in started \union DOMAIN told.results |->
                                  IF id \in started THEN outcomes[id] ELSE told.results[id]]]

\* The results of the last response's calls become one message, in call
\* order, unless there's none.
Settled(told) ==
  LET came == told.unanswered \intersect DOMAIN told.results
      parts == [n \in 1..Cardinality(came) |->
                  LET id == CHOOSE i \in came : Cardinality({j \in came : j <= i}) = n
                  IN  [id |-> id, status |-> told.results[id]]]
  IN  [messages |-> IF parts = <<>> THEN told.messages
                    ELSE Append(told.messages, [role |-> "tool", parts |-> parts]),
       unanswered |-> {}, results |-> <<>>]

\* A response joins the conversation it was sent for.
Joined(told, calls) ==
  [messages |-> Append(told.messages, [role |-> "assistant", parts |-> calls]),
   unanswered |-> DOMAIN calls, results |-> <<>>]

-----------------------------------------------------------------------------
(* The loop, and what it says.                                             *)

ConversationInit ==
  /\ Init
  /\ conversation = Opening
  /\ measure = [settled |-> 0, measured |-> 0]
  /\ opened = NoChat /\ chat = NoChat

\* An attempt begins: its request is rendered and measured, its span opened.
OpenChat ==
  /\ BeginAttempt
  /\ measure' = Measured(Messages)
  /\ opened' = [turn |-> Len(turns) + 1, attempt |-> attempt', sent |-> Messages,
                bytes |-> measure'.settled + Size(Messages[Len(Messages)])]
  /\ UNCHANGED <<conversation, chat>>

\* The one way a chat span ends, whatever became of its attempt.
EndChat(told, status, retries) ==
  /\ chat' = [turn |-> opened.turn, attempt |-> opened.attempt, sent |-> opened.sent,
              input |-> told.messages, status |-> status, retries |-> retries]
  /\ opened' = NoChat
  /\ UNCHANGED measure

ResponseCame(response) ==
  /\ ProviderResponds(response)
  /\ LET told == Settled(conversation)
     IN  EndChat(told, "answered", FALSE) /\ conversation' = Joined(told, response.calls)

\* Mutant: an attempt that failed takes the conversation as it's found.
FailedUnsettled(status, retries) ==
  EndChat(conversation, status, retries) /\ UNCHANGED conversation

\* What an attempt was sent that nothing answered.
Unanswered(status, retries) ==
  LET told == Settled(conversation)
  IN  EndChat(told, status, retries) /\ conversation' = told

\* An attempt failed in a way no other can answer, and its chat ends at once;
\* or what follows is asked first, and its chat ends with the answer.
AttemptFailed(f) ==
  /\ ProviderFails(f)
  /\ IF f.kind \in Retryable THEN UNCHANGED telling ELSE Unanswered("failed", FALSE)

\* Mutant: a retry is announced when the policy gives a wait for it.
RetryGiven(place) == asker = "failure" /\ NextWaits(attempt, failure.kind, failure.hint) # {}

\* Whether a retry follows, as far as the loop knows when it has decided.
RetryFollows(place) == place = "waiting"

AfterFailure ==
  /\ asker = "failure"
  /\ NotAdmitted \/ AskRetry
  /\ Unanswered("failed", RetryFollows(pc'))

Dropped ==
  /\ AttemptDropped
  /\ Unanswered("cancelled", FALSE)

\* The results of a tool phase are told from the turn that holds them all.
ResultsCame ==
  /\ ToolsAnswer
  /\ conversation' = Answer(conversation, turns'[Len(turns')].outcomes)
  /\ UNCHANGED <<measure, opened, chat>>

Untold ==
  /\ \/ ReadClock \/ (asker # "failure" /\ NotAdmitted) \/ WaitEnds \/ WaitDropped
     \/ AfterPointR \/ PointB \/ Close \/ Tick \/ Cancel \/ Done
  /\ UNCHANGED telling

ConversationNext ==
  \/ OpenChat \/ AfterFailure \/ Dropped \/ ResultsCame \/ Untold
  \/ \E r \in Responses : ResponseCame(r)
  \/ \E f \in Failures : AttemptFailed(f)

ConversationSpec == ConversationInit /\ [][ConversationNext]_<<vars, telling>>

-----------------------------------------------------------------------------
\* A message as the conventions have it: results are the tool's, and the rest
\* the user's.
Captured(message) ==
  IF message.role = "assistant" THEN <<[role |-> "assistant", parts |-> message.calls]>>
  ELSE (IF message.results = <<>> THEN <<>> ELSE <<[role |-> "tool", parts |-> message.results]>>)
    \o (IF message.input THEN <<[role |-> "user", parts |-> <<"task">>]>> ELSE <<>>)

\* What a run captured of an attempt is what the attempt was sent, whether it
\* was answered, failed or was dropped, a retry's no less than a first
\* attempt's (conversation.rs: "each provider call is sent every message
\* before it").
CapturedIsSent ==
  chat # NoChat =>
    LET all[i \in 0..Len(chat.sent)] ==
          IF i = 0 THEN <<>> ELSE all[i - 1] \o Captured(chat.sent[i])
    IN  chat.input = all[Len(chat.sent)]

\* The size an attempt's span gives its request is that of every message it
\* sends, though each is measured only once (service.rs RequestBytes).
MeasuredWhole ==
  opened # NoChat => opened.bytes = SizeOfAll(opened.sent, 1, Len(opened.sent))

\* What a run says of a request, captured and measured beside it, is the
\* request (conversation.rs, service.rs RequestBytes).
ToldIsSent == CapturedIsSent /\ MeasuredWhole

\* Every request is one the API takes and caches: each response in it is
\* followed by a user message that begins with the results of exactly its
\* calls, in call order, and nothing answers a call that isn't there; and its
\* last block takes the cache breakpoint (request.rs message, body).
RequestAnswersCalls ==
  opened # NoChat =>
    LET sent == RequestMessages(opened.sent)
        calls(i) == IF i = 0 THEN <<>> ELSE sent[i].content
        answers(i, j) == sent[i].content[j].kind = "tool_result"
    IN  /\ \A i \in DOMAIN sent : sent[i].role = (IF i % 2 = 1 THEN "user" ELSE "assistant")
        /\ \A i \in DOMAIN sent : sent[i].role = "user" =>
             /\ \A j \in DOMAIN calls(i - 1) :
                  /\ j \in DOMAIN sent[i].content /\ answers(i, j)
                  /\ sent[i].content[j].id = calls(i - 1)[j].id
             /\ \A j \in DOMAIN sent[i].content : answers(i, j) => j \in DOMAIN calls(i - 1)
        /\ Marked(sent)

\* An attempt's request repeats the one before it whole and only adds to its
\* end, a retry's and the next turn's alike, so what one attempt cached the
\* next is served (lib.rs of the Messages adapter, "repeat each other byte for
\* byte up to the turn each appends").
RequestsRepeat ==
  opened # NoChat /\ chat # NoChat =>
    LET before == RequestMessages(chat.sent)
    IN  /\ Len(before) <= Len(opened.sent)
        /\ SubSeq(RequestMessages(opened.sent), 1, Len(before)) = before

\* Each request is taken by the API and is served what the one before it
\* cached (request.rs).
RequestsTaken == RequestAnswersCalls /\ RequestsRepeat

\* A retry is announced by the attempt before it and by no attempt that's the
\* last of its call, so that whatever reads the spans can tell the attempts of
\* one call from those of the next; and a retry that was announced is given up
\* only when the run was cancelled or its time passed meanwhile (service.rs
\* attempt_failed, after_failure).
RetryAnnounced ==
  /\ pc = "calling" =>
       IF attempt = 1 THEN chat = NoChat \/ (~chat.retries /\ chat.turn < opened.turn)
       ELSE chat.retries /\ chat.turn = opened.turn /\ chat.attempt + 1 = attempt
  /\ Over /\ chat # NoChat /\ chat.retries =>
       stopped.reason = "cancelled" \/ (stopped.reason = "timeout" /\ at >= Timeout)
=============================================================================
