---------------------------- MODULE ProviderCalls ---------------------------
(***************************************************************************)
(* The loop with the providers it's built with: the adapter of the         *)
(* Messages API, in front of a server that may answer anything, break the  *)
(* connection or never answer, and the provider that plays a script.  Each *)
(* action of the loop that starts, ends or drops an attempt is here with   *)
(* what the provider does in it; RunLoop lets a provider say anything at   *)
(* any time, and this module says what these two say and when.             *)
(*                                                                         *)
(* An attempt by the Messages adapter is one request: it's sent, its       *)
(* status and headers come, and then its body is read.  The attempt's      *)
(* deadline is the request's timeout, from the connection to the last      *)
(* byte.  The script's provider keeps its place from one call to the next  *)
(* and from one run to the next; whoever starts a run rewinds it.          *)
(***************************************************************************)
EXTENDS RunLoop, MessagesAnswer

CONSTANTS Answers,   \* what a server may answer with
          Script     \* the script's entries: [latency, result]

ASSUME ScriptAssumption ==
  /\ Script # <<>> /\ Script \in Seq({Script[i] : i \in DOMAIN Script})
  /\ \A i \in DOMAIN Script : Script[i].latency \in Nat

ASSUME AnswersAssumption == \A answer \in Answers : answer.retryAfter \in Nat \union {None}

\* All that the loop may hear of the two providers.
Told ==
  {Heard(answer) : answer \in Answers} \union {Script[i].result : i \in DOMAIN Script}
  \union {Failure("retryable", 0, None), Failure("fatal", 0, None)}

ASSUME ToldAssumption ==
  \A result \in Told : /\ result.ok \in BOOLEAN
                       /\ result.ok => result.response \in Responses
                       /\ ~result.ok => result.failure \in Failures

VARIABLES provider,   \* which provider the run calls
          begun,      \* whether the run has been started
          exchange,   \* the attempt in flight, as its provider has it
          played,     \* attempts made since the script was at its start
          reported,   \* history: the usage the provider reported
          notBefore,  \* history: when the server lets the next attempt come
          settled     \* history: whether the server settled the run's end

said == <<reported, notBefore, settled>>
providerVars == <<provider, begun, exchange, played, said>>

Idle == [at |-> "idle"]

ProviderInit ==
  /\ Init
  /\ provider \in {"messages", "script"}
  /\ begun = FALSE /\ exchange = Idle
  \* Whatever an earlier run played of the script.
  /\ played \in (IF provider = "script" THEN 0..Len(Script) + 1 ELSE {0})
  /\ reported = 0 /\ notBefore = 0 /\ settled = FALSE

\* Mutant: a run goes on where the run before it left the script.
BeginUnwound ==
  /\ ~begun /\ begun' = TRUE
  /\ UNCHANGED <<vars, provider, exchange, played, said>>

BeginRun ==
  /\ ~begun /\ begun' = TRUE
  /\ played' = 0
  /\ UNCHANGED <<vars, provider, exchange, said>>

-----------------------------------------------------------------------------
(* An attempt begins.                                                      *)

\* The request, which isn't sent when there's no time for it.
SendRequest ==
  /\ provider = "messages"
  /\ exchange' = [at |-> IF due' = now THEN "late" ELSE "sent"]
  /\ UNCHANGED played

\* The next entry is spent, whatever comes of the attempt.  One that takes as
\* long as the attempt has is never heard, and past the last there's none.
PlayEntry ==
  /\ provider = "script"
  /\ played' = played + 1
  /\ LET left == due' - now
     IN  IF played >= Len(Script)
         THEN exchange' = [at |-> "playing", until |-> now, result |-> Failure("fatal", 0, None)]
         ELSE LET entry == Script[played + 1]
              IN  exchange' = [at |-> "playing", until |-> now + Least(entry.latency, left),
                               result |-> IF entry.latency >= left
                                          THEN Failure("retryable", 0, None) ELSE entry.result]

AttemptBegins ==
  /\ BeginAttempt
  /\ SendRequest \/ PlayEntry
  /\ UNCHANGED <<provider, begun, said>>

-----------------------------------------------------------------------------
(* And ends.                                                               *)

\* The loop is told the attempt's result.
Tells(result) ==
  /\ IF result.ok THEN ProviderResponds(result.response) ELSE ProviderFails(result.failure)
  /\ exchange' = Idle
  /\ UNCHANGED <<provider, begun, played>>

UsageOf(result) == IF result.ok THEN result.response.usage ELSE result.failure.usage

HeadersCome ==
  /\ exchange.at = "sent"
  /\ \E answer \in Answers : exchange' = [at |-> "reading", answer |-> answer]
  /\ UNCHANGED <<vars, provider, begun, played, said>>

\* The usage a body states, when the body was read and is a message.
UsageIn(answer) ==
  IF Succeeds(answer.status) /\ answer.length <= MaxBodyBytes /\ answer.body.is = "message"
  THEN answer.body.usage ELSE 0

\* Whether an answer says that no other attempt may be made: the server said
\* so, or redirects, or has answered whole and billed what's too long to read.
SettlesRun(answer) ==
  IF Succeeds(answer.status) THEN answer.length > MaxBodyBytes
  ELSE answer.noRetry \/ Redirects(answer.status)

\* The body has been read, or is longer than what's read of it.
BodyEnds ==
  /\ exchange.at = "reading"
  /\ LET answer == exchange.answer
     IN  /\ Tells(Heard(answer))
         /\ reported' = reported + UsageIn(answer)
         /\ notBefore' = IF Succeeds(answer.status) \/ answer.retryAfter = None THEN notBefore
                         ELSE now + answer.retryAfter
         /\ settled' = (settled \/ SettlesRun(answer))

\* The connection fails, or is lost in the body; a request that can't be
\* built is never sent.
Breaks ==
  /\ \/ exchange.at \in {"sent", "reading"} /\ Tells(Failure("retryable", 0, None))
     \/ exchange.at = "sent" /\ Tells(Failure("fatal", 0, None))
  /\ UNCHANGED said

TimesOut ==
  /\ exchange.at \in {"late", "sent", "reading"} /\ now >= due
  /\ Tells(Failure("retryable", 0, None))
  /\ UNCHANGED said

ScriptAnswers ==
  /\ exchange.at = "playing" /\ now >= exchange.until
  /\ Tells(exchange.result)
  /\ reported' = reported + UsageOf(exchange.result)
  /\ notBefore' = IF exchange.result.ok \/ exchange.result.failure.hint = None THEN notBefore
                  ELSE now + exchange.result.failure.hint
  /\ UNCHANGED settled

\* What's in flight ends with the attempt, and nothing of it is heard.
DropsAttempt ==
  /\ AttemptDropped
  /\ exchange' = Idle
  /\ UNCHANGED <<provider, begun, played, said>>

-----------------------------------------------------------------------------
\* The loop's other steps, which call no provider.
Uncalled ==
  /\ begun
  /\ \/ ReadClock \/ NotAdmitted \/ AskRetry \/ WaitEnds \/ WaitDropped
     \/ AfterPointR \/ PointB \/ Close
  /\ UNCHANGED providerVars

Around ==
  /\ begun
  /\ ToolsAnswer \/ Tick \/ Cancel \/ Done
  /\ UNCHANGED providerVars

ProviderNext ==
  \/ BeginRun \/ AttemptBegins \/ HeadersCome \/ BodyEnds \/ Breaks \/ TimesOut
  \/ ScriptAnswers \/ DropsAttempt \/ Uncalled \/ Around

\* The loop is polled, and a cancelled tool phase ends.  Nothing is promised
\* of the server, the tools or time.
ProviderSpec ==
  /\ ProviderInit /\ [][ProviderNext]_<<vars, providerVars>>
  /\ WF_<<vars, providerVars>>(BeginRun)
  /\ WF_<<vars, providerVars>>(AttemptBegins \/ DropsAttempt \/ Uncalled)
  /\ WF_<<vars, providerVars>>(cancelled /\ ToolsAnswer /\ UNCHANGED providerVars)

-----------------------------------------------------------------------------
\* The wait a server asked for is kept between the attempt it refused and the
\* next, whatever the backoff and the jitter say: the hint goes from a header
\* through the failure, point A and the policy to the wait (error.rs
\* classified, retry.rs next, service.rs after_failure).
ServerWaitKept == pc = "calling" => now >= notBefore

\* A server that said not to try again, that redirects, or that has answered
\* and billed what's too long to read is sent no other request by the run
\* (error.rs should_not_retry, response.rs longer_than).
NotAskedAgain == pc = "calling" => ~settled

\* Whatever a server says of the next attempt, whether and when, is kept
\* (error.rs classified).
ServerHeeded == ServerWaitKept /\ NotAskedAgain

\* Attempt n of a run is answered by the script's entry n, whatever an
\* earlier run, a failure, a deadline or a dropped attempt left of it
\* (provider-fake lib.rs, "the first attempt of a run gets the first entry,
\* and an attempt that fails is followed by the entry after it").
EntryPerAttempt == begun /\ provider = "script" => played = attemptsStarted

\* What the record says the run used is what the provider reported of every
\* attempt, an attempt that failed no less than one that answered (port
\* provider.rs complete, "The error carries the usage the provider reported
\* for the attempt").
UsageCarried == reported = answeredUsage + failedUsage
=============================================================================
