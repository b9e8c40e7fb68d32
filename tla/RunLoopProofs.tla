---------------------------- MODULE RunLoopProofs ----------------------------
(***************************************************************************)
(* What the runs of RunLoop, ProviderCalls and Conversation check on small *)
(* instances, proved for every value of the constants.                     *)
(*                                                                         *)
(* First the loop: what the record's types hold a run to, whoever drives   *)
(* it, that the loop keeps the record as they allow, and the safety        *)
(* properties that rest on where the loop is when it does so.              *)
(*                                                                         *)
(* Then what goes on around an attempt of the loop: the provider that      *)
(* answers it and what the run says of it.  The loop with its providers is *)
(* the loop: every step of a provider and of the loop beside it is one     *)
(* RunLoop allows or leaves it alone, so what is proved of RunLoop holds   *)
(* of it; and what the two providers promise on their own is proved for    *)
(* every server, script and policy.  The loop with what's said of its      *)
(* attempts is the loop too; and what's said is proved of runs of any      *)
(* length, from what each message of a request is made of.                 *)
(***************************************************************************)
EXTENDS ProviderCalls, Conversation,
        SequenceTheorems, FiniteSetTheorems, WellFoundedInduction, TLAPS

-----------------------------------------------------------------------------
(* Recursion over the numbers up to one.                                   *)

\* Numbers have a least one among them.
LEMMA LeastNumber ==
  ASSUME NEW T \in SUBSET Nat, T # {}
  PROVE  \E n \in T : \A m \in T : n <= m
<1>1. IsWellFoundedOn(OpToRel(<,Nat), Nat)
  BY NatLessThanWellFounded
<1>2. PICK n \in T : \A y \in T : ~(<<y, n>> \in OpToRel(<,Nat))
  BY <1>1, WFMin
<1>3. \A y \in T : ~(y < n)
  BY <1>2 DEF OpToRel
<1> QED
  BY <1>3

\* What holds of zero and of each number after one that it holds of, holds of
\* all of them: induction over a set of numbers.
LEMMA Inductive ==
  ASSUME NEW n \in Nat, NEW T, 0 \in T, \A i \in 1..n : i - 1 \in T => i \in T
  PROVE  0..n \subseteq T
<1> DEFINE out == {i \in 0..n : i \notin T}
<1> SUFFICES ASSUME out # {} PROVE FALSE
  OBVIOUS
<1>0. out \in SUBSET Nat
  OBVIOUS
<1>1. PICK i \in out : \A m \in out : i <= m
  <2> HIDE DEF out
  <2> QED
    BY <1>0, LeastNumber
<1>2. i \in 1..n /\ i - 1 \in 0..n
  BY <1>1
<1>3. i - 1 \notin out
  BY <1>1, <1>2
<1> QED
  BY <1>1, <1>2, <1>3

\* f begins with a value and goes from each number to the next as goes does,
\* within the values of S.
Stays(goes, n, S) == \A i \in 1..n : \A x \in S : goes[i][x] \in S
Follows(f, goes, n, S, first) ==
  f \in [0..n -> S] /\ f[0] = first /\ \A i \in 1..n : f[i] = goes[i][f[i - 1]]

\* A function that's defined by recursion over the numbers up to n is defined.
LEMMA RecursionDefined ==
  ASSUME NEW n \in Nat, NEW S, NEW base \in S,
         NEW goes, Stays(goes, n, S)
  PROVE  \E f : Follows(f, goes, n, S, base)
<1> USE DEF Stays, Follows
<1> DEFINE Fits(f, k) == Follows(f, goes, k, S, base)
           T == {k \in 0..n : \E f : Fits(f, k)}
<1>1. 0 \in T
  <2>1. Fits([i \in 0..0 |-> base], 0)
    OBVIOUS
  <2>2. 0 \in 0..n
    OBVIOUS
  <2> HIDE DEF Fits
  <2> QED
    BY <2>1, <2>2
<1>2. ASSUME NEW k \in 1..n, k - 1 \in T PROVE k \in T
  <2>1. PICK f : Fits(f, k - 1)
    BY <1>2
  <2> DEFINE g == [i \in 0..k |-> IF i = k THEN goes[k][f[k - 1]] ELSE f[i]]
  <2>2. goes[k][f[k - 1]] \in S
    BY <2>1
  <2>3. g \in [0..k -> S] /\ g[0] = base
    BY <2>1, <2>2
  <2>4. ASSUME NEW i \in 1..k PROVE g[i] = goes[i][g[i - 1]]
    <3>1. g[i - 1] = f[i - 1] /\ i - 1 \in 0..k /\ i \in 0..k
      OBVIOUS
    <3>2. CASE i = k
      BY <3>1, <3>2
    <3>3. CASE i # k
      <4>1. i \in 1..k - 1
        BY <3>3
      <4>2. f[i] = goes[i][f[i - 1]] /\ g[i] = f[i]
        BY <2>1, <3>1, <3>3, <4>1
      <4> QED
        BY <3>1, <4>2
    <3> QED
      BY <3>2, <3>3
  <2>5. Fits(g, k)
    BY <2>3, <2>4
  <2>6. k \in 0..n
    OBVIOUS
  <2> HIDE DEF Fits, g
  <2> QED
    BY <2>5, <2>6
<1>3. n \in T
  <2> HIDE DEF T
  <2>1. 0..n \subseteq T
    BY <1>1, <1>2, Inductive
  <2> QED
    BY <2>1
<1> QED
  BY <1>3

\* The running sums of the numbers that a function gives.
Sums(f, g, n) == f \in [0..n -> Int] /\ f[0] = 0 /\ \A i \in 1..n : f[i] = f[i - 1] + g[i]

LEMMA SumsDefined ==
  ASSUME NEW n \in Nat, NEW g \in [1..n -> Int]
  PROVE  \E f : Sums(f, g, n)
<1> DEFINE goes == [i \in 1..n |-> [x \in Int |-> x + g[i]]]
<1>1. \A i \in 1..n : \A x \in Int : goes[i][x] = x + g[i] /\ goes[i][x] \in Int
  OBVIOUS
<1> HIDE DEF goes
<1>2. Stays(goes, n, Int) /\ 0 \in Int
  BY <1>1 DEF Stays
<1>3. PICK f : Follows(f, goes, n, Int, 0)
  BY <1>2, RecursionDefined
<1>4. f \in [0..n -> Int] /\ f[0] = 0 /\ \A i \in 1..n : f[i] = goes[i][f[i - 1]]
  BY <1>3 DEF Follows
<1>5. \A i \in 1..n : f[i - 1] \in Int
  BY <1>4
<1>6. \A i \in 1..n : f[i] = f[i - 1] + g[i]
  BY <1>1, <1>4, <1>5
<1> QED
  BY <1>4, <1>6 DEF Sums

\* Two functions that begin alike and go on alike from where they're alike.
LEMMA AlikeThroughout ==
  ASSUME NEW n \in Nat, NEW f, NEW h, f[0] = h[0],
         \A i \in 1..n : f[i - 1] = h[i - 1] => f[i] = h[i]
  PROVE  \A i \in 0..n : f[i] = h[i]
<1> DEFINE T == {i \in 0..n : f[i] = h[i]}
<1>1. 0 \in T /\ \A i \in 1..n : i - 1 \in T => i \in T
  OBVIOUS
<1>2. 0..n \subseteq T
  <2> HIDE DEF T
  <2> QED
    BY <1>1, Inductive
<1> QED
  BY <1>2

-----------------------------------------------------------------------------
(* What each operation of the record leaves it as (run.rs).                *)

LEMMA FailedAttemptType ==
  ASSUME RecordTypeOK, NEW usage \in Nat, FailedAttempt(usage), UNCHANGED outcome
  PROVE  RecordTypeOK'
  BY DEF RecordTypeOK, FailedAttempt

LEMMA RespondedType ==
  ASSUME RecordTypeOK, NEW r \in Responses, Responded(r), UNCHANGED outcome
  PROVE  RecordTypeOK'
<1>1. /\ r.finish \in Finishes /\ r.calls \in Seq(Calls) /\ r.usage \in Nat
  BY ResponsesAssumption
<1>2. [input |-> input, finish |-> r.finish, calls |-> r.calls,
       attempts |-> failedAttempts + 1, outcomes |-> <<>>] \in Turns
  BY <1>1 DEF RecordTypeOK, Turns
<1>3. held' \in Seq(Turns) /\ Len(held') = 1
  BY <1>2 DEF Responded
<1>4. answeredUsage' \in Nat
  BY <1>1 DEF RecordTypeOK, Responded
<1>5. /\ turns' = turns /\ input' = FALSE /\ failedAttempts' = 0
      /\ failedUsage' = failedUsage
  BY DEF Responded
<1>6. turns' \in Seq(Turns)
  BY <1>5 DEF RecordTypeOK
<1>7. held' \in Seq(Turns) /\ Len(held') <= 1
  BY <1>3
<1>8. input' \in BOOLEAN
  BY <1>5
<1>9. {failedAttempts', answeredUsage', failedUsage'} \subseteq Nat
  BY <1>4, <1>5 DEF RecordTypeOK
<1>10. outcome' \in [reason : StopReasons \union {GoOn}, error : BOOLEAN, structured : BOOLEAN]
  BY DEF RecordTypeOK
<1> QED
  BY <1>6, <1>7, <1>8, <1>9, <1>10 DEF RecordTypeOK

LEMMA AnsweredType ==
  ASSUME RecordTypeOK, held # <<>>, UNCHANGED outcome,
         NEW outcomes \in [DOMAIN held[1].calls -> Status], Answered(outcomes)
  PROVE  /\ RecordTypeOK'
         /\ outcomes \in Seq(Status)
         /\ Len(outcomes) = Len(held[1].calls)
<1>1. held[1] \in Turns
  BY DEF RecordTypeOK
<1>2. held[1].calls \in Seq(Calls)
  BY <1>1 DEF Turns
<1>3. outcomes \in Seq(Status) /\ Len(outcomes) = Len(held[1].calls)
  BY <1>2, LenProperties, SeqDef
<1>4. [held[1] EXCEPT !.outcomes = outcomes] \in Turns
  BY <1>1, <1>3 DEF Turns
<1>5. turns' \in Seq(Turns)
  BY <1>4 DEF Answered, RecordTypeOK
<1> QED
  BY <1>3, <1>5 DEF RecordTypeOK, Answered

\* A turn held joins the transcript as its last.
LEMMA HeldJoins ==
  ASSUME RecordTypeOK, held # <<>>
  PROVE  LET joined == turns \o held
         IN  /\ Len(joined) = Len(turns) + 1 /\ DOMAIN joined = 1..Len(turns) + 1
             /\ joined[Len(turns) + 1] = held[1]
             /\ \A i \in 1..Len(turns) : joined[i] = turns[i]
<1> DEFINE joined == turns \o held
<1>1. turns \in Seq(Turns) /\ held \in Seq(Turns) /\ Len(turns) \in Nat
  BY LenProperties DEF RecordTypeOK
<1>2. Len(held) = 1
  <2>1. Len(held) \in Nat \ {0}
    BY <1>1, EmptySeq
  <2>2. \A n \in Nat \ {0} : n <= 1 => n = 1
    OBVIOUS
  <2>3. Len(held) <= 1
    BY DEF RecordTypeOK
  <2> QED
    BY <2>1, <2>2, <2>3
<1>3. joined \in Seq(Turns) /\ Len(joined) = Len(turns) + 1
  BY <1>1, <1>2, ConcatProperties
<1>4. \A i \in 1..Len(turns) + 1 :
         joined[i] = IF i <= Len(turns) THEN turns[i] ELSE held[i - Len(turns)]
  BY <1>1, <1>2, ConcatProperties
<1> QED
  BY <1>1, <1>3, <1>4, LenProperties

LEMMA FinishType ==
  ASSUME RecordTypeOK, NEW reason \in StopReasons, NEW structured \in BOOLEAN,
         Finish(reason, structured)
  PROVE  RecordTypeOK'
<1>1. turns' \in Seq(Turns)
  BY ConcatProperties DEF RecordTypeOK, Finish
<1>2. outcome' \in [reason : StopReasons \union {GoOn}, error : BOOLEAN, structured : BOOLEAN]
  BY DEF Finish
<1> QED
  BY <1>1, <1>2 DEF RecordTypeOK, Finish


-----------------------------------------------------------------------------
(* The rules of the transcript.                                            *)

\* What makes the rules inductive: the task waits until there's a turn, a turn
\* held has no outcomes yet and has the task only when it's the first, and
\* every turn of a run that goes on is answered in full.
Rules ==
  /\ input <=> turns = <<>> /\ held = <<>>
  /\ held # <<>> => held[1].outcomes = <<>> /\ (held[1].input <=> turns = <<>>)
  /\ Running => \A i \in DOMAIN turns :
                  /\ turns[i].outcomes # <<>>
                  /\ Len(turns[i].outcomes) = Len(turns[i].calls)

RecordInv == RecordTypeOK /\ Rules /\ TranscriptRules

LEMMA RecordInvInit == RecordInit => RecordInv
  BY DEF RecordInit, RecordInv, RecordTypeOK, Rules, TranscriptRules, Running

LEMMA RecordInvStep == RecordInv /\ [RecordNext]_recordVars => RecordInv'
<1> SUFFICES ASSUME RecordInv, [RecordNext]_recordVars PROVE RecordInv'
  OBVIOUS
<1> USE DEF RecordInv
<1>0. /\ turns \in Seq(Turns) /\ held \in Seq(Turns) /\ Len(held) <= 1
      /\ DOMAIN turns = 1..Len(turns) /\ Len(turns) \in Nat
  BY LenProperties DEF RecordTypeOK
<1>1. ASSUME Running, held = <<>>,
             NEW f \in Failures \union {[usage |-> 0]}, FailedAttempt(f.usage),
             UNCHANGED outcome
      PROVE  RecordInv'
  <2>1. f.usage \in Nat
    BY FailuresAssumption
  <2>2. RecordTypeOK'
    BY <1>1, <2>1, FailedAttemptType
  <2> QED
    BY <1>1, <2>2 DEF FailedAttempt, Rules, TranscriptRules, Running
<1>2. ASSUME Running, held = <<>>, NEW r \in Responses, Responded(r), UNCHANGED outcome
      PROVE  RecordInv'
  <2>1. RecordTypeOK'
    BY <1>2, RespondedType
  <2>2. held' # <<>> /\ held'[1].outcomes = <<>> /\ held'[1].input = input
    BY <1>2 DEF Responded
  <2>3. Rules'
    BY <1>2, <2>2 DEF Responded, Rules, Running
  <2>4. TranscriptRules'
    BY <1>2 DEF Responded, TranscriptRules, Running
  <2> QED
    BY <2>1, <2>3, <2>4
<1>3. ASSUME Running, held # <<>>, held[1].calls # <<>>, UNCHANGED outcome,
             NEW outcomes \in [DOMAIN held[1].calls -> Status], Answered(outcomes)
      PROVE  RecordInv'
  <2>1. /\ RecordTypeOK' /\ outcomes \in Seq(Status)
        /\ Len(outcomes) = Len(held[1].calls)
    BY <1>3, AnsweredType
  <2> DEFINE turn == [held[1] EXCEPT !.outcomes = outcomes]
  <2>2. held[1] \in Turns
    BY <1>0, <1>3
  <2>3. /\ turn \in Turns /\ turn.outcomes = outcomes
        /\ turn.calls = held[1].calls /\ turn.input = held[1].input
    BY <2>1, <2>2 DEF Turns
  <2>4. outcomes # <<>>
    BY <1>3, <2>1, <2>2, EmptySeq DEF Turns
  <2>5. /\ turns' = Append(turns, turn) /\ held' = <<>> /\ input' = input
        /\ Running'
    BY <1>3 DEF Answered, Running
  <2> HIDE DEF turn
  <2>6. /\ Len(turns') = Len(turns) + 1 /\ DOMAIN turns' = 1..Len(turns) + 1
        /\ turns'[Len(turns) + 1] = turn
        /\ \A i \in 1..Len(turns) : turns'[i] = turns[i]
    BY <1>0, <2>3, <2>5
  <2>7. turns' # <<>>
    BY <1>0, <2>6, EmptySeq
  <2>8. input' = FALSE
    BY <1>3, <2>5 DEF Rules, RecordTypeOK
  <2>9. \A i \in DOMAIN turns' : /\ turns'[i].outcomes # <<>>
                                  /\ Len(turns'[i].outcomes) = Len(turns'[i].calls)
    BY <1>0, <1>3, <2>1, <2>3, <2>4, <2>6 DEF Rules
  <2>10. Rules'
    BY <2>5, <2>7, <2>8, <2>9 DEF Rules
  <2>11. ASSUME NEW i \in DOMAIN turns'
         PROVE  turns'[i].input \/ (i > 1 /\ turns'[i - 1].outcomes # <<>>)
    <3>1. CASE i <= Len(turns)
      BY <1>0, <2>6, <3>1 DEF TranscriptRules
    <3>2. CASE i = Len(turns) + 1 /\ turns = <<>>
      BY <1>3, <2>3, <2>6, <3>2 DEF Rules
    <3>3. CASE i = Len(turns) + 1 /\ turns # <<>>
      BY <1>0, <1>3, <2>6, <3>3, EmptySeq DEF Rules
    <3> QED
      BY <1>0, <2>6, <3>1, <3>2, <3>3
  <2>12. TranscriptRules'
    BY <2>9, <2>11 DEF TranscriptRules
  <2> QED
    BY <2>1, <2>10, <2>12
<1>4. ASSUME Running, NEW reason \in StopReasons, NEW structured \in BOOLEAN,
             Finish(reason, structured)
      PROVE  RecordInv'
  <2>1. RecordTypeOK'
    BY <1>4, FinishType
  <2>2. ~Running' /\ turns' = turns \o held /\ held' = <<>> /\ input' = input
    BY <1>4 DEF Finish, Running, StopReasons, GoOn
  <2>3. CASE held = <<>>
    <3>1. turns' = turns
      BY <1>0, <2>2, <2>3
    <3> QED
      BY <2>1, <2>2, <2>3, <3>1 DEF Rules, TranscriptRules
  <2>4. CASE held # <<>>
    <3>2. /\ Len(turns') = Len(turns) + 1 /\ DOMAIN turns' = 1..Len(turns) + 1
          /\ turns'[Len(turns) + 1] = held[1]
          /\ \A i \in 1..Len(turns) : turns'[i] = turns[i]
      BY <2>2, <2>4, HeldJoins
    <3>3. turns' # <<>>
      BY <1>0, <3>2, EmptySeq
    <3>4. input' = FALSE
      BY <2>2, <2>4 DEF Rules, RecordTypeOK
    <3>5. Rules'
      BY <2>2, <3>3, <3>4 DEF Rules
    <3>6. ASSUME NEW i \in DOMAIN turns'
          PROVE  /\ turns'[i].input \/ (i > 1 /\ turns'[i - 1].outcomes # <<>>)
                 /\ turns'[i].outcomes = <<>> \/ Len(turns'[i].outcomes) = Len(turns'[i].calls)
                 /\ turns'[i].outcomes = <<>> => i = Len(turns')
      <4>1. CASE i <= Len(turns)
        BY <1>0, <1>4, <3>2, <4>1 DEF TranscriptRules, Rules
      <4>2. CASE i = Len(turns) + 1 /\ turns = <<>>
        BY <2>4, <3>2, <4>2 DEF Rules
      <4>3. CASE i = Len(turns) + 1 /\ turns # <<>>
        BY <1>0, <1>4, <2>4, <3>2, <4>3, EmptySeq DEF Rules
      <4> QED
        BY <1>0, <3>2, <4>1, <4>2, <4>3
    <3> QED
      BY <2>1, <2>2, <3>5, <3>6 DEF TranscriptRules
  <2> QED
    BY <2>3, <2>4
<1>5. CASE UNCHANGED recordVars
  BY <1>5 DEF recordVars, RecordTypeOK, Rules, TranscriptRules, Running
<1> QED
  BY <1>1, <1>2, <1>3, <1>4, <1>5
     DEF RecordNext, RecordFailedAttempt, RecordResponded, RecordAnswered, RecordFinished

\* A transcript keeps its rules whatever is done with a run: something from
\* the user comes before every response, and only the last turn of a finished
\* run has calls without outcomes (transcript.rs, "the rules").
THEOREM TranscriptHolds == RecordSpec => []TranscriptRules
<1>1. RecordInv => TranscriptRules
  BY DEF RecordInv
<1> QED
  BY RecordInvInit, RecordInvStep, <1>1, PTL DEF RecordSpec

-----------------------------------------------------------------------------
(* The loop that drives the record (service.rs).                           *)

\* Where the loop holds a turn, and when the record is closed.
Shape ==
  /\ pc \in {"pointR", "tools"} => held # <<>> /\ held[1].calls # <<>>
  /\ pc \notin {"pointR", "tools", "stopping"} => held = <<>>
  /\ Running <=> pc # "done"
  /\ pc = "stopping" => stopped.reason # GoOn

\* The loop's count of attempts against the record's.
Counts ==
  /\ pc \in {"clock", "admit"} /\ asker = "call" => failedAttempts = 0
  /\ pc \in {"pointR", "tools", "pointB"} => failedAttempts = 0
  /\ pc \in {"clock", "admit"} /\ asker # "call" => attempt = failedAttempts /\ attempt >= 1
  /\ pc = "waiting" => attempt = failedAttempts /\ attempt >= 1
  /\ pc = "waiting" \/ (pc \in {"clock", "admit"} /\ asker = "retry") => attempt <= MaxRetries
  /\ AttemptNumbers

\* Every outcome the model is sent is one of a call that ran to its end, or
\* point B has what it takes to stop the run before it's sent.
Clean ==
  \A i \in DOMAIN turns : \A j \in DOMAIN turns[i].outcomes :
    turns[i].outcomes[j] \notin {"not_run", "cancelled"}

Sent ==
  /\ pc \notin {"pointB", "stopping", "done"} => Clean
  /\ pc = "pointB" => Clean \/ cancelled \/ TimeLeft(now) = 0

\* What a deadline is when it's handed out, in a run whose steps take no time.
Deadlines ==
  Punctual =>
    /\ now <= Timeout
    /\ pc = "admit" => at = now
    /\ pc \in {"calling", "waiting", "tools"} => due <= Timeout

\* A response that was cut short is held by a loop that has stopped on it.
Uncut ==
  /\ Running => \A i \in DOMAIN turns : CutShort(turns[i].finish) = GoOn
  /\ held # <<>> /\ CutShort(held[1].finish) # GoOn =>
       pc = "stopping" /\ stopped.reason = CutShort(held[1].finish)

-----------------------------------------------------------------------------
(* The decisions are stop reasons, or to go on.                            *)

\* Every decision of the stop policy, and of the loop over it, is a stop
\* reason or GoOn (stop.rs StopPolicy, service.rs admit).
LEMMA Decisions ==
  /\ AdmitReason \in StopReasons \union {GoOn}
  /\ PointBReason \in StopReasons \union {GoOn}
  /\ \A r \in Responses : ResponseReason(r) \in StopReasons \union {GoOn}
  /\ \A kind : StopReasonFor(kind) \in StopReasons
  /\ GoOn \notin StopReasons
<1>1. \A p : LimitReached(p) \in StopReasons \union {GoOn}
  BY DEF LimitReached, StopReasons, GoOn
<1>2. \A p : AfterTools(p) \in StopReasons \union {GoOn}
  BY <1>1 DEF AfterTools, CapReached, StopReasons, GoOn
<1>3. \A f : CutShort(f) \in StopReasons \union {GoOn}
  BY DEF CutShort, StopReasons, GoOn
<1>4. \A r \in Responses : ResponseReason(r) \in StopReasons \union {GoOn}
  BY <1>3 DEF ResponseReason, AfterFinal, AfterResponse, StopReasons, GoOn
<1>5. \A kind : StopReasonFor(kind) \in StopReasons
  BY DEF StopReasonFor, StopReasons
<1>6. AdmitReason \in StopReasons \union {GoOn}
  BY <1>1 DEF AdmitReason, BeforeCall, StopReasons, GoOn
<1>7. PointBReason \in StopReasons \union {GoOn}
  BY <1>2 DEF PointBReason, StopReasons, GoOn
<1>8. GoOn \notin StopReasons
  BY DEF StopReasons, GoOn
<1> QED
  BY <1>4, <1>5, <1>6, <1>7, <1>8

\* The reasons the loop names itself (service.rs admit, unless_cancelled).
LEMMA Timeouts == {"timeout", "cancelled"} \subseteq StopReasons
  BY DEF StopReasons

\* Time left is a number of units, so a deadline is too (stop.rs time_left).
LEMMA TimeLeftType == ASSUME NEW t \in Nat PROVE TimeLeft(t) \in Nat
  BY LimitsAssumption DEF TimeLeft

\* A wait the retry policy names is a number of units (retry.rs next).
LEMMA WaitsType == \A n, kind, hint : NextWaits(n, kind, hint) \subseteq Nat
  BY RetryAssumption DEF NextWaits, LongestWait

-----------------------------------------------------------------------------
(* The record.                                                             *)

\* A step that leaves the record alone leaves it well typed, and the shape of
\* the run as it was but for where the loop is.
LEMMA RecordKept ==
  ASSUME RecordTypeOK, UNCHANGED recordVars
  PROVE  RecordTypeOK' /\ (Running' <=> Running)
  BY DEF RecordTypeOK, recordVars, Running

-----------------------------------------------------------------------------
(* The type invariant, with the shape it rests on: recording the answers of *)
(* a turn keeps the types only because a turn is held then.                *)

Typed == TypeOK /\ Shape

\* What a step does to why the loop stopped, when it stops it or lets it go on.
LEMMA StopKept ==
  ASSUME TypeOK,
         \/ UNCHANGED stopped /\ pc' # "stopping"
         \/ \E reason \in StopReasons, structured \in BOOLEAN : Stop(reason, structured)
  PROVE  /\ stopped' \in [reason : StopReasons \union {GoOn}, structured : BOOLEAN]
         /\ pc' = "stopping" => stopped'.reason # GoOn
         /\ UNCHANGED stopped \/ pc' = "stopping"
  BY Decisions DEF Stop, TypeOK

LEMMA TypedInit == Init => Typed
<1> SUFFICES ASSUME Init PROVE Typed
  OBVIOUS
<1>1. RecordTypeOK
  BY DEF Init, RecordInit, RecordTypeOK
<1>2. TypeOK
  <2>1. stopped \in [reason : StopReasons \union {GoOn}, structured : BOOLEAN]
    BY DEF Init
  <2>2. {now, at, attempt, due, attemptsStarted, callsStarted} \subseteq Nat
    BY DEF Init
  <2> QED
    BY <1>1, <2>1, <2>2 DEF Init, TypeOK, Places
<1>3. Shape
  BY DEF Init, RecordInit, Shape, Running
<1> QED
  BY <1>2, <1>3 DEF Typed

LEMMA TypedStep == Typed /\ [Next]_vars => Typed'
<1> SUFFICES ASSUME Typed, [Next]_vars PROVE Typed'
  OBVIOUS
<1> USE DEF Typed
<1>0. RecordTypeOK
  BY DEF TypeOK
<1>1. CASE ReadClock
  BY <1>0, <1>1, RecordKept DEF ReadClock, TypeOK, Shape, recordVars, environment, history, Places
<1>2. CASE NotAdmitted
  BY <1>0, <1>2, RecordKept, Decisions
     DEF NotAdmitted, Stop, TypeOK, Shape, recordVars, environment, history, Places
<1>3. CASE BeginAttempt
  <2>1. TimeLeft(at) \in Nat
    BY TimeLeftType DEF TypeOK
  <2>2. due' \in Nat
    BY <1>3, <2>1, LoopAssumption DEF BeginAttempt, Least, TypeOK
  <2> QED
    BY <1>0, <1>3, <2>2, RecordKept
       DEF BeginAttempt, TypeOK, Shape, recordVars, environment, history, Places
<1>4. CASE AskRetry
  <2>1. due' \in Nat
    BY <1>4, WaitsType DEF AskRetry, Stop, TypeOK
  <2>2. \/ pc' = "waiting" /\ UNCHANGED stopped
        \/ \E reason \in StopReasons : Stop(reason, FALSE)
    BY <1>4, Decisions, Timeouts DEF AskRetry
  <2>3. /\ stopped' \in [reason : StopReasons \union {GoOn}, structured : BOOLEAN]
        /\ pc' = "stopping" => stopped'.reason # GoOn
        /\ pc' \in {"waiting", "stopping"}
    BY <2>2, StopKept DEF Stop
  <2> QED
    BY <1>0, <1>4, <2>1, <2>3, RecordKept
       DEF AskRetry, TypeOK, Shape, recordVars, environment, history, Places
<1>5. CASE AttemptDropped
  <2>1. RecordTypeOK'
    BY <1>0, <1>5, FailedAttemptType DEF AttemptDropped
  <2> QED
    BY <1>5, <2>1, Decisions
       DEF AttemptDropped, FailedAttempt, Stop, TypeOK, Shape, Running, environment, history,
           Places, StopReasons
<1>6. CASE WaitEnds
  BY <1>0, <1>6, RecordKept DEF WaitEnds, TypeOK, Shape, recordVars, environment, history, Places
<1>7. CASE WaitDropped
  BY <1>0, <1>7, RecordKept, Decisions
     DEF WaitDropped, Stop, TypeOK, Shape, recordVars, environment, history, Places, StopReasons
<1>8. CASE AfterPointR
  <2>1. TimeLeft(now) \in Nat
    BY TimeLeftType DEF TypeOK
  <2>2. \/ pc' = "tools" /\ UNCHANGED stopped
        \/ \E reason \in StopReasons : Stop(reason, FALSE)
    BY <1>8, Timeouts DEF AfterPointR
  <2>3. /\ stopped' \in [reason : StopReasons \union {GoOn}, structured : BOOLEAN]
        /\ pc' = "stopping" => stopped'.reason # GoOn
        /\ pc' \in {"tools", "stopping"}
    BY <2>2, StopKept DEF Stop
  <2>4. due' \in Nat
    <3>1. now \in Nat /\ due \in Nat
      BY DEF TypeOK
    <3>2. due' = due \/ due' = now + TimeLeft(now)
      BY <1>8 DEF AfterPointR
    <3> QED
      BY <2>1, <3>1, <3>2
  <2> QED
    BY <1>0, <1>8, <2>3, <2>4, RecordKept
       DEF AfterPointR, TypeOK, Shape, recordVars, environment, history, Places
<1>9. CASE PointB
  <2>1. \/ pc' = "clock" /\ asker' = "call" /\ UNCHANGED stopped
        \/ \E reason \in StopReasons : Stop(reason, FALSE) /\ UNCHANGED asker
    BY <1>9, Decisions DEF PointB
  <2>2. /\ stopped' \in [reason : StopReasons \union {GoOn}, structured : BOOLEAN]
        /\ pc' = "stopping" => stopped'.reason # GoOn
        /\ pc' \in {"clock", "stopping"}
        /\ asker' \in {"call", asker}
    BY <2>1, StopKept DEF Stop
  <2> QED
    BY <1>0, <1>9, <2>2, RecordKept
       DEF PointB, TypeOK, Shape, recordVars, environment, history, Places
<1>10. CASE Close
  <2>1. /\ stopped.reason \in StopReasons
        /\ stopped.structured \in BOOLEAN
    BY <1>10 DEF Close, TypeOK, Shape
  <2>2. RecordTypeOK'
    BY <1>0, <1>10, <2>1, FinishType DEF Close
  <2>3. held' = <<>> /\ outcome'.reason # GoOn
    BY <1>10, <2>1, Decisions DEF Close, Finish
  <2> QED
    BY <1>10, <2>2, <2>3 DEF Close, TypeOK, Shape, Running, environment, history, Places
<1>11. ASSUME NEW r \in Responses, ProviderResponds(r) PROVE Typed'
  <2>1. RecordTypeOK'
    BY <1>0, <1>11, RespondedType DEF ProviderResponds
  <2>2. held'[1].calls = r.calls /\ held' # <<>>
    BY <1>11 DEF ProviderResponds, Responded
  <2>3. ResponseReason(r) = GoOn => r.calls # <<>>
    BY DEF ResponseReason, AfterFinal, GoOn
  <2>4. /\ CompletedWith(r.calls) \in BOOLEAN
        /\ ResponseReason(r) \in StopReasons \union {GoOn}
    BY Decisions DEF CompletedWith
  <2>5. /\ pc' \in {"pointR", "stopping"}
        /\ stopped' \in [reason : StopReasons \union {GoOn}, structured : BOOLEAN]
        /\ pc' = "stopping" => stopped'.reason # GoOn
        /\ pc' = "pointR" => r.calls # <<>>
    BY <1>11, <2>3, <2>4 DEF ProviderResponds, Stop, TypeOK
  <2>6. pc = "calling" /\ outcome' = outcome
    BY <1>11 DEF ProviderResponds
  <2>7. TypeOK'
    BY <1>11, <2>1, <2>5 DEF ProviderResponds, TypeOK, environment, history, Places
  <2>8. Shape'
    BY <2>2, <2>5, <2>6 DEF Shape, Running
  <2> QED
    BY <2>7, <2>8
<1>12. ASSUME NEW f \in Failures, ProviderFails(f) PROVE Typed'
  <2>1. f.usage \in Nat
    BY FailuresAssumption
  <2>2. RecordTypeOK'
    BY <1>0, <1>12, <2>1, FailedAttemptType DEF ProviderFails
  <2>3. \/ pc' = "clock" /\ asker' = "failure" /\ UNCHANGED stopped
        \/ \E reason \in StopReasons : Stop(reason, FALSE) /\ UNCHANGED asker
    BY <1>12, Decisions DEF ProviderFails
  <2>4. /\ stopped' \in [reason : StopReasons \union {GoOn}, structured : BOOLEAN]
        /\ pc' = "stopping" => stopped'.reason # GoOn
        /\ pc' \in {"clock", "stopping"}
        /\ asker' \in {"failure", asker}
    BY <2>3, StopKept DEF Stop
  <2>5. TypeOK'
    BY <1>12, <2>2, <2>4 DEF ProviderFails, TypeOK, environment, history, Places
  <2>6. Shape'
    BY <1>12, <2>4 DEF ProviderFails, FailedAttempt, Shape, Running
  <2> QED
    BY <2>5, <2>6
<1>13. CASE ToolsAnswer
  <2>1. held # <<>> /\ pc = "tools"
    BY <1>13 DEF ToolsAnswer, Shape
  <2>2. PICK outcomes \in Outcomes(held[1].calls, cancelled, TimeLeft(now) = 0) :
           Answered(outcomes)
    BY <1>13 DEF ToolsAnswer
  <2>3. RecordTypeOK'
    BY <1>0, <1>13, <2>1, <2>2, AnsweredType DEF Outcomes, ToolsAnswer
  <2> QED
    BY <1>13, <2>1, <2>2, <2>3
       DEF ToolsAnswer, Answered, TypeOK, Shape, Running, environment, history, Places
<1>14. CASE Tick
  BY <1>0, <1>14, RecordKept DEF Tick, TypeOK, Shape, recordVars, history
<1>15. CASE Cancel
  BY <1>0, <1>15, RecordKept DEF Cancel, TypeOK, Shape, recordVars, history
<1>16. CASE UNCHANGED vars
  BY <1>0, <1>16, RecordKept DEF vars, TypeOK, Shape, recordVars, environment, history
<1> QED
  BY <1>1, <1>2, <1>3, <1>4, <1>5, <1>6, <1>7, <1>8, <1>9, <1>10, <1>11, <1>12, <1>13,
     <1>14, <1>15, <1>16
     DEF Next, LoopStep, ProviderStep, Done

\* Every state of the loop is well typed, and it holds a turn exactly where
\* the code does: from the response to the answers of its calls (service.rs
\* drive, run.rs Responded).
THEOREM TypeCorrect == Spec => []TypeOK
<1>1. Typed => TypeOK
  BY DEF Typed
<1> QED
  BY TypedInit, TypedStep, <1>1, PTL DEF Spec

-----------------------------------------------------------------------------
(* The loop drives the record as its types allow.                          *)

LEMMA ImplementsRecordStep == Typed /\ [Next]_vars => [RecordNext]_recordVars
<1> SUFFICES ASSUME Typed, [Next]_vars PROVE RecordNext \/ UNCHANGED recordVars
  OBVIOUS
<1> USE DEF Typed
<1>1. CASE AttemptDropped
  <2>1. Running /\ held = <<>> /\ UNCHANGED outcome
    BY <1>1 DEF AttemptDropped, Shape
  <2>2. FailedAttempt([usage |-> 0].usage)
    BY <1>1 DEF AttemptDropped
  <2> QED
    BY <2>1, <2>2 DEF RecordNext, RecordFailedAttempt
<1>2. CASE Close
  <2>1. Running /\ stopped.reason \in StopReasons /\ stopped.structured \in BOOLEAN
    BY <1>2 DEF Close, Shape, TypeOK
  <2> QED
    BY <1>2, <2>1 DEF Close, RecordNext, RecordFinished
<1>3. ASSUME NEW r \in Responses, ProviderResponds(r) PROVE RecordResponded
  BY <1>3 DEF ProviderResponds, Shape, RecordResponded
<1>4. ASSUME NEW f \in Failures, ProviderFails(f) PROVE RecordFailedAttempt
  BY <1>4 DEF ProviderFails, Shape, RecordFailedAttempt
<1>5. CASE ToolsAnswer
  BY <1>5 DEF ToolsAnswer, Shape, RecordNext, RecordAnswered, Outcomes
<1>6. CASE ReadClock \/ NotAdmitted \/ BeginAttempt \/ AskRetry \/ WaitEnds
  BY <1>6 DEF ReadClock, NotAdmitted, BeginAttempt, AskRetry, WaitEnds, recordVars
<1>7. CASE WaitDropped \/ AfterPointR \/ PointB \/ Tick \/ Cancel \/ UNCHANGED vars
  BY <1>7 DEF WaitDropped, AfterPointR, PointB, Tick, Cancel, vars, recordVars
<1> QED
  BY <1>1, <1>2, <1>3, <1>4, <1>5, <1>6, <1>7
     DEF Next, LoopStep, ProviderStep, Done, RecordNext

\* The loop does with the record only what its types allow: it answers a turn
\* that called tools, makes no provider call while a turn is held, and closes
\* the record once (service.rs run, run.rs Responded).
THEOREM ImplementsRecord == Spec => RecordSpec
<1>1. Init => RecordInit
  BY DEF Init
<1> QED
  BY TypedInit, TypedStep, ImplementsRecordStep, <1>1, PTL DEF Spec, RecordSpec

\* So a run's transcript keeps its rules (transcript.rs, "the rules").
THEOREM LoopTranscriptHolds == Spec => []TranscriptRules
  BY ImplementsRecord, TranscriptHolds, PTL

-----------------------------------------------------------------------------
(* The numbers of attempts.                                                *)

LEMMA CountsStep == Typed /\ Counts /\ [Next]_vars => Counts'
<1> SUFFICES ASSUME Typed, Counts, [Next]_vars PROVE Counts'
  OBVIOUS
<1>0. /\ failedAttempts \in Nat /\ attempt \in Nat /\ MaxRetries \in Nat
      /\ asker \in {"call", "failure", "retry"}
  BY RetryAssumption DEF Typed, TypeOK, RecordTypeOK
<1>1. CASE BeginAttempt
  BY <1>0, <1>1 DEF BeginAttempt, Counts, AttemptNumbers, recordVars
<1>2. CASE AskRetry
  <2>1. CASE pc' = "waiting"
    <3>1. attempt <= MaxRetries
      BY <1>0, <1>2, <2>1 DEF AskRetry, NextWaits, TryNumber, Stop
    <3> QED
      BY <1>2, <2>1, <3>1 DEF AskRetry, Counts, AttemptNumbers, recordVars
  <2>2. CASE pc' = "stopping"
    BY <2>2 DEF Counts, AttemptNumbers
  <2> QED
    BY <1>2, <2>1, <2>2 DEF AskRetry, Stop
<1>3. ASSUME NEW r \in Responses, ProviderResponds(r) PROVE Counts'
  BY <1>3 DEF ProviderResponds, Responded, Stop, Counts, AttemptNumbers
<1>4. ASSUME NEW f \in Failures, ProviderFails(f) PROVE Counts'
  BY <1>0, <1>4 DEF ProviderFails, FailedAttempt, Stop, Counts, AttemptNumbers
<1>5. CASE AttemptDropped \/ NotAdmitted \/ WaitDropped \/ Close
  BY <1>5 DEF AttemptDropped, NotAdmitted, WaitDropped, Close, Stop, Counts, AttemptNumbers
<1>6. CASE ReadClock \/ WaitEnds
  BY <1>6 DEF ReadClock, WaitEnds, Counts, AttemptNumbers, recordVars
<1>7. CASE AfterPointR \/ PointB
  BY <1>7 DEF AfterPointR, PointB, Stop, Counts, AttemptNumbers, recordVars
<1>8. CASE ToolsAnswer
  BY <1>8 DEF ToolsAnswer, Answered, Counts, AttemptNumbers
<1>9. CASE Tick \/ Cancel \/ UNCHANGED vars
  BY <1>9 DEF Tick, Cancel, vars, Counts, AttemptNumbers, recordVars
<1> QED
  BY <1>1, <1>2, <1>3, <1>4, <1>5, <1>6, <1>7, <1>8, <1>9
     DEF Next, LoopStep, ProviderStep, Done

\* The attempts of some turns beyond the first of each.
Beyond(t) ==
  LET beyond[i \in 0..Len(t)] == IF i = 0 THEN 0 ELSE beyond[i - 1] + t[i].attempts - 1
  IN  beyond[Len(t)]

LEMMA RetriesAre ==
  Retries = Beyond(turns) + (IF failedAttempts = 0 THEN 0 ELSE failedAttempts - 1)
BY DEF Retries, Beyond

\* It's the sum that a recursive function comes to.
LEMMA BeyondSums ==
  ASSUME NEW t \in Seq(Turns)
  PROVE  \E f : /\ Sums(f, [i \in 1..Len(t) |-> t[i].attempts - 1], Len(t))
                /\ Beyond(t) = f[Len(t)]
<1> DEFINE n == Len(t)
           g == [i \in 1..n |-> t[i].attempts - 1]
           b == CHOOSE b : b = [i \in 0..n |-> IF i = 0 THEN 0 ELSE b[i - 1] + t[i].attempts - 1]
<1>0. n \in Nat /\ \A i \in 1..n : t[i].attempts \in Nat
  <2>1. n \in Nat /\ \A i \in 1..n : t[i] \in Turns
    OBVIOUS
  <2>2. \A x \in Turns : x.attempts \in Nat
    BY DEF Turns
  <2> QED
    BY <2>1, <2>2
<1>1. g \in [1..n -> Int]
  BY <1>0
<1>2. PICK f : Sums(f, g, n)
  <2> HIDE DEF g, n
  <2> QED
    BY <1>0, <1>1, SumsDefined
<1>3. \A i \in 1..n : f[i] = f[i - 1] + t[i].attempts - 1
  BY <1>0, <1>2 DEF Sums
<1>4. f = [i \in 0..n |-> IF i = 0 THEN 0 ELSE f[i - 1] + t[i].attempts - 1]
  BY <1>0, <1>2, <1>3 DEF Sums
<1>5. b = [i \in 0..n |-> IF i = 0 THEN 0 ELSE b[i - 1] + t[i].attempts - 1]
  BY <1>4
<1>6. \A i \in 0..n : f[i] = b[i]
  <2>1. f[0] = b[0]
    BY <1>0, <1>2, <1>5 DEF Sums
  <2>2. \A i \in 1..n : f[i - 1] = b[i - 1] => f[i] = b[i]
    <3> HIDE DEF b, n
    <3> QED
      BY <1>0, <1>3, <1>5
  <2>3. n \in Nat
    BY <1>0
  <2> HIDE DEF b, n
  <2> QED
    BY <2>1, <2>2, <2>3, AlikeThroughout
<1>7. Beyond(t) = b[n]
  BY DEF Beyond
<1>8. n \in 0..n
  BY <1>0
<1> HIDE DEF b, n
<1> QED
  BY <1>2, <1>6, <1>7, <1>8 DEF n

\* A turn that joins adds its own.
LEMMA BeyondAppend ==
  ASSUME NEW t \in Seq(Turns), NEW x \in Turns
  PROVE  Beyond(t) \in Int /\ Beyond(Append(t, x)) = Beyond(t) + x.attempts - 1
<1> DEFINE n == Len(t)
           u == Append(t, x)
<1>0. n \in Nat /\ u \in Seq(Turns) /\ Len(u) = n + 1 /\ u[n + 1] = x /\ \A i \in 1..n : u[i] = t[i]
  OBVIOUS
<1>a. x.attempts \in Int
  BY DEF Turns
<1>1. PICK f : Sums(f, [i \in 1..n |-> t[i].attempts - 1], n) /\ Beyond(t) = f[n]
  BY BeyondSums
<1>2. PICK h : Sums(h, [i \in 1..n + 1 |-> u[i].attempts - 1], n + 1) /\ Beyond(u) = h[n + 1]
  BY <1>0, BeyondSums
<1> HIDE DEF u, n
<1>3. f[0] = h[0] /\ \A i \in 1..n : f[i - 1] = h[i - 1] => f[i] = h[i]
  <2>1. \A i \in 1..n : f[i] = f[i - 1] + (t[i].attempts - 1)
    BY <1>0, <1>1 DEF Sums
  <2>2. \A i \in 1..n : h[i] = h[i - 1] + (t[i].attempts - 1)
    <3>1. \A i \in 1..n + 1 : h[i] = h[i - 1] + (u[i].attempts - 1)
      BY <1>0, <1>2 DEF Sums
    <3>2. 1..n \subseteq 1..n + 1
      BY <1>0
    <3> QED
      BY <1>0, <3>1, <3>2
  <2> QED
    BY <1>1, <1>2, <2>1, <2>2 DEF Sums
<1>4. f[n] = h[n]
  <2>0. n \in Nat
    BY <1>0
  <2>1. \A i \in 0..n : f[i] = h[i]
    BY <2>0, <1>3, AlikeThroughout
  <2> QED
    BY <1>0, <2>1
<1>5. h[n + 1] = h[n] + (x.attempts - 1) /\ h[n] \in Int
  BY <1>0, <1>2 DEF Sums
<1> QED
  BY <1>a, <1>1, <1>2, <1>4, <1>5 DEF u

LEMMA BeyondType == ASSUME NEW t \in Seq(Turns) PROVE Beyond(t) \in Int
<1>1. PICK f : Sums(f, [i \in 1..Len(t) |-> t[i].attempts - 1], Len(t)) /\ Beyond(t) = f[Len(t)]
  BY BeyondSums
<1>2. Len(t) \in 0..Len(t)
  BY LenProperties
<1> QED
  BY <1>1, <1>2 DEF Sums

LEMMA BeyondEmpty == Beyond(<<>>) = 0
<1>1. <<>> \in Seq(Turns) /\ Len(<<>>) = 0
  OBVIOUS
<1>2. PICK f : Sums(f, [i \in 1..Len(<<>>) |-> <<>>[i].attempts - 1], Len(<<>>))
               /\ Beyond(<<>>) = f[Len(<<>>)]
  BY <1>1, BeyondSums
<1> QED
  BY <1>1, <1>2 DEF Sums

\* What the turn held counts for, and the call in progress: the attempt in
\* flight is one beyond the first when another has failed.
OfHeld == IF held = <<>> THEN 0 ELSE held[1].attempts - 1
OfCall ==
  IF pc = "calling" THEN failedAttempts
  ELSE IF failedAttempts = 0 THEN 0 ELSE failedAttempts - 1

Tallied ==
  /\ pc = "waiting" \/ (pc \in {"clock", "admit"} /\ asker # "call") => failedAttempts >= 1
  /\ attemptsStarted - callsStarted = Beyond(turns) + OfHeld + OfCall

LEMMA TalliedStep == Typed /\ Counts /\ Tallied /\ [Next]_vars => Tallied'
<1> SUFFICES ASSUME Typed, Counts, Tallied, [Next]_vars PROVE Tallied'
  OBVIOUS
<1>0. /\ {failedAttempts, attempt, attemptsStarted, callsStarted} \subseteq Nat
      /\ asker \in {"call", "failure", "retry"}
      /\ turns \in Seq(Turns) /\ held \in Seq(Turns) /\ Len(held) <= 1
  BY DEF Typed, TypeOK, RecordTypeOK
<1>a. Beyond(turns) \in Int
  BY <1>0, BeyondType
<1>b. held # <<>> => held[1] \in Turns /\ held[1].attempts \in Nat /\ held = <<held[1]>>
  <2>1. held # <<>> => held[1] \in Turns /\ held = <<held[1]>>
    <3>1. SUFFICES ASSUME held # <<>> PROVE held[1] \in Turns /\ held = <<held[1]>>
      OBVIOUS
    <3>2. Len(held) = 1
      <4>1. held \in Seq(Turns) /\ Len(held) <= 1
        BY <1>0
      <4>2. Len(held) \in Nat /\ Len(held) # 0
        BY <3>1, <4>1, EmptySeq
      <4>3. \A n \in Nat : n <= 1 /\ n # 0 => n = 1
        OBVIOUS
      <4> QED
        BY <4>1, <4>2, <4>3
    <3>3. held \in Seq(Turns) /\ 1 \in 1..Len(held)
      BY <1>0, <3>2
    <3>4. held[1] \in Turns
      BY <3>3, ElementOfSeq
    <3> QED
      BY <3>2, <3>3, <3>4
  <2>2. \A x \in Turns : x.attempts \in Nat
    BY DEF Turns
  <2> QED
    BY <2>1, <2>2
<1>c. OfHeld \in Int /\ OfCall \in Int
  BY <1>0, <1>b DEF OfHeld, OfCall
<1>1. CASE BeginAttempt
  <2>1. /\ pc = "admit" /\ pc' = "calling" /\ asker # "failure" /\ asker' = asker
        /\ attemptsStarted' = attemptsStarted + 1
        /\ callsStarted' = IF asker = "call" THEN callsStarted + 1 ELSE callsStarted
        /\ UNCHANGED <<turns, held, failedAttempts>>
    BY <1>1 DEF BeginAttempt, recordVars
  <2>2. asker = "call" => failedAttempts = 0
    BY <2>1 DEF Counts
  <2>3. asker # "call" => failedAttempts >= 1
    BY <2>1 DEF Tallied
  <2>4. OfHeld' = OfHeld /\ OfCall' = failedAttempts
    BY <2>1 DEF OfHeld, OfCall
  <2>5. OfCall = IF failedAttempts = 0 THEN 0 ELSE failedAttempts - 1
    BY <2>1 DEF OfCall
  <2>6. attemptsStarted' - callsStarted' = Beyond(turns) + OfHeld + failedAttempts
    <3>1. attemptsStarted - callsStarted = Beyond(turns) + OfHeld + OfCall
      BY DEF Tallied
    <3>2. attemptsStarted \in Int /\ callsStarted \in Int /\ failedAttempts \in Nat
      BY <1>0
    <3>3. CASE asker = "call"
      BY <1>a, <1>c, <2>1, <2>2, <2>5, <3>1, <3>2, <3>3
    <3>4. CASE asker # "call"
      BY <1>a, <1>c, <2>1, <2>3, <2>5, <3>1, <3>2, <3>4
    <3> QED
      BY <3>3, <3>4
  <2> QED
    BY <2>1, <2>4, <2>6 DEF Tallied
<1>2. ASSUME NEW r \in Responses, ProviderResponds(r) PROVE Tallied'
  <2>1. /\ pc = "calling" /\ pc' \in {"pointR", "stopping"} /\ held = <<>>
        /\ held' # <<>> /\ held'[1].attempts = failedAttempts + 1
        /\ failedAttempts' = 0 /\ UNCHANGED <<turns, attemptsStarted, callsStarted>>
    BY <1>2 DEF ProviderResponds, Responded, Stop, history, Typed, Shape
  <2> QED
    BY <1>0, <1>a, <2>1 DEF Tallied, OfHeld, OfCall
<1>3. ASSUME NEW f \in Failures, ProviderFails(f) PROVE Tallied'
  <2>1. /\ pc = "calling" /\ pc' \in {"clock", "stopping"}
        /\ failedAttempts' = failedAttempts + 1
        /\ UNCHANGED <<turns, held, attemptsStarted, callsStarted>>
    BY <1>3 DEF ProviderFails, FailedAttempt, Stop, history
  <2> QED
    BY <1>0, <1>a, <1>c, <2>1 DEF Tallied, OfHeld, OfCall
<1>4. CASE AttemptDropped
  <2>1. /\ pc = "calling" /\ pc' = "stopping"
        /\ failedAttempts' = failedAttempts + 1
        /\ UNCHANGED <<turns, held, attemptsStarted, callsStarted>>
    BY <1>4 DEF AttemptDropped, FailedAttempt, Stop, history
  <2> QED
    BY <1>0, <1>a, <1>c, <2>1 DEF Tallied, OfHeld, OfCall
<1>5. CASE ToolsAnswer
  <2>1. PICK outcomes \in Outcomes(held[1].calls, cancelled, TimeLeft(now) = 0) :
          Answered(outcomes)
    BY <1>5 DEF ToolsAnswer
  <2>2. held # <<>> /\ pc = "tools" /\ pc' = "pointB"
    BY <1>5 DEF ToolsAnswer, Typed, Shape
  <2>3. outcomes \in [DOMAIN held[1].calls -> Status]
    BY <2>1 DEF Outcomes
  <2> DEFINE turn == [held[1] EXCEPT !.outcomes = outcomes]
  <2>4. turn \in Turns /\ turn.attempts = held[1].attempts
    <3>1. outcomes \in Seq(Status)
      <4>1. held[1].calls \in Seq(Calls)
        BY <1>b, <2>2 DEF Turns
      <4> QED
        BY <2>3, <4>1, LenProperties, SeqDef
    <3> QED
      BY <1>b, <2>2, <3>1 DEF Turns
  <2>5. turns' = Append(turns, turn) /\ held' = <<>>
        /\ UNCHANGED <<failedAttempts, attemptsStarted, callsStarted>>
    BY <1>5, <2>1 DEF ToolsAnswer, Answered, history
  <2>6. Beyond(turns') = Beyond(turns) + held[1].attempts - 1
    <3> HIDE DEF turn
    <3> QED
      BY <1>0, <2>4, <2>5, BeyondAppend
  <2> QED
    BY <1>0, <1>a, <1>b, <2>2, <2>5, <2>6 DEF Tallied, OfHeld, OfCall
<1>6. CASE Close
  <2>1. /\ pc = "stopping" /\ pc' = "done" /\ turns' = turns \o held /\ held' = <<>>
        /\ UNCHANGED <<failedAttempts, attemptsStarted, callsStarted>>
    BY <1>6 DEF Close, Finish, history
  <2>2. CASE held = <<>>
    <3>1. turns' = turns
      BY <1>0, <2>1, <2>2
    <3> QED
      BY <2>1, <2>2, <3>1 DEF Tallied, OfHeld, OfCall
  <2>3. CASE held # <<>>
    <3>1. turns' = Append(turns, held[1])
      BY <1>0, <1>b, <2>1, <2>3
    <3>2. Beyond(turns') = Beyond(turns) + held[1].attempts - 1
      BY <1>0, <1>b, <2>3, <3>1, BeyondAppend
    <3> QED
      BY <1>0, <1>a, <1>b, <2>1, <2>3, <3>2 DEF Tallied, OfHeld, OfCall
  <2> QED
    BY <2>2, <2>3
<1>7. CASE AskRetry
  <2>1. /\ pc = "admit" /\ pc' \in {"waiting", "stopping"} /\ asker = "failure"
        /\ UNCHANGED <<turns, held, failedAttempts, attemptsStarted, callsStarted, asker>>
    BY <1>7 DEF AskRetry, Stop, recordVars, history
  <2> QED
    BY <2>1 DEF Tallied, OfHeld, OfCall
<1>8. CASE ReadClock \/ WaitEnds \/ NotAdmitted \/ WaitDropped
  <2>1. /\ pc \in {"clock", "waiting", "admit"} /\ pc' \in {"clock", "admit", "stopping"}
        /\ pc = "clock" => asker' = asker
        /\ pc' = "clock" => pc = "waiting"
        /\ pc' = "admit" => pc = "clock"
        /\ UNCHANGED <<turns, held, failedAttempts, attemptsStarted, callsStarted>>
    BY <1>8 DEF ReadClock, WaitEnds, NotAdmitted, WaitDropped, Stop, recordVars, history
  <2> QED
    BY <2>1 DEF Tallied, OfHeld, OfCall
<1>9. CASE AfterPointR \/ PointB
  <2>1. /\ pc \in {"pointR", "pointB"} /\ pc' \in {"tools", "clock", "stopping"}
        /\ pc' = "clock" => asker' = "call"
        /\ UNCHANGED <<turns, held, failedAttempts, attemptsStarted, callsStarted>>
    BY <1>9 DEF AfterPointR, PointB, Stop, recordVars, history
  <2> QED
    BY <2>1 DEF Tallied, OfHeld, OfCall
<1>10. CASE Tick \/ Cancel \/ UNCHANGED vars
  BY <1>10 DEF Tick, Cancel, vars, recordVars, history, Tallied, OfHeld, OfCall
<1> QED
  BY <1>1, <1>2, <1>3, <1>4, <1>5, <1>6, <1>7, <1>8, <1>9, <1>10
     DEF Next, LoopStep, ProviderStep, Done

\* Every attempt is counted once and by both alike, whatever ends a run: the
\* numbers telemetry carries are the record's, and the retries the summary
\* reports are the attempts made beyond the first of each provider call
\* (service.rs call, run.rs failed_attempt, responded and finish).
THEOREM AttemptsAlwaysCounted == Spec => []AttemptsCounted
<1>1. Init => Tallied
  BY BeyondEmpty DEF Init, RecordInit, Tallied, OfHeld, OfCall
<1>2. Init => Counts
  BY DEF Init, RecordInit, Counts, AttemptNumbers
<1>3. Typed /\ Counts /\ Tallied => AttemptsCounted
  <2> SUFFICES ASSUME Typed, Counts, Tallied PROVE AttemptsCounted
    OBVIOUS
  <2>1. turns \in Seq(Turns)
    BY DEF Typed, TypeOK, RecordTypeOK
  <2>2. Beyond(turns) \in Int
    BY <2>1, BeyondType
  <2>3. failedAttempts \in Nat
    BY DEF Typed, TypeOK, RecordTypeOK
  <2>4. pc = "done" => held = <<>>
    BY DEF Typed, Shape
  <2> QED
    BY <2>2, <2>3, <2>4, RetriesAre
       DEF AttemptsCounted, RetriesCounted, Counts, Tallied, OfHeld, OfCall
<1> QED
  BY TypedInit, TypedStep, CountsStep, TalliedStep, <1>1, <1>2, <1>3, PTL DEF Spec

-----------------------------------------------------------------------------
(* What the model is sent.                                                 *)

LEMMA SentStep == Typed /\ Sent /\ [Next]_vars => Sent'
<1> SUFFICES ASSUME Typed, Sent, [Next]_vars PROVE Sent'
  OBVIOUS
<1>0. now \in Nat /\ Timeout \in Nat /\ turns \in Seq(Turns) /\ held \in Seq(Turns)
  BY LimitsAssumption DEF Typed, TypeOK, RecordTypeOK
<1>1. CASE ToolsAnswer
  <2>1. PICK outcomes \in Outcomes(held[1].calls, cancelled, TimeLeft(now) = 0) :
           Answered(outcomes)
    BY <1>1 DEF ToolsAnswer
  <2> DEFINE turn == [held[1] EXCEPT !.outcomes = outcomes]
  <2>2. held # <<>> /\ held[1] \in Turns
    BY <1>0, <1>1 DEF ToolsAnswer, Typed, Shape
  <2>3. turn \in Turns /\ turn.outcomes = outcomes
    BY <1>1, <2>1, <2>2, AnsweredType DEF Outcomes, ToolsAnswer, Typed, TypeOK, Turns
  <2>4. /\ DOMAIN turns' = 1..Len(turns) + 1
        /\ turns'[Len(turns) + 1].outcomes = outcomes
        /\ \A i \in 1..Len(turns) : turns'[i] = turns[i]
    BY <1>0, <2>1, <2>3 DEF Answered
  <2>5. CASE cancelled \/ TimeLeft(now) = 0
    BY <1>1, <2>5 DEF ToolsAnswer, Sent, environment, TimeLeft
  <2>6. CASE ~(cancelled \/ TimeLeft(now) = 0)
    <3>1. \A j \in DOMAIN outcomes : outcomes[j] \notin {"not_run", "cancelled"}
      BY <2>1, <2>6 DEF Outcomes, Settles, Executed
    <3>2. Clean
      BY <1>1 DEF ToolsAnswer, Sent
    <3>3. Clean'
      BY <1>0, <2>4, <3>1, <3>2 DEF Clean
    <3> QED
      BY <1>1, <3>3 DEF ToolsAnswer, Sent
  <2> QED
    BY <2>5, <2>6
<1>2. CASE PointB
  <2>1. CASE pc' = "clock"
    <3>1. ~cancelled /\ TimeLeft(now) # 0
      BY <1>2, <2>1
         DEF PointB, PointBReason, AfterTools, LimitReached, Progress, Stop, GoOn
    <3> QED
      BY <1>2, <2>1, <3>1 DEF PointB, Sent, Clean, recordVars
  <2>2. CASE pc' = "stopping"
    BY <2>2 DEF Sent
  <2> QED
    BY <1>2, <2>1, <2>2 DEF PointB, Stop
<1>3. CASE Tick
  BY <1>0, <1>3 DEF Tick, Sent, Clean, recordVars, TimeLeft
<1>4. ASSUME NEW r \in Responses, ProviderResponds(r) PROVE Sent'
  BY <1>4 DEF ProviderResponds, Responded, Stop, Sent, Clean
<1>5. ASSUME NEW f \in Failures, ProviderFails(f) PROVE Sent'
  BY <1>5 DEF ProviderFails, FailedAttempt, Stop, Sent, Clean
<1>6. CASE AttemptDropped \/ NotAdmitted \/ WaitDropped \/ Close
  BY <1>6 DEF AttemptDropped, NotAdmitted, WaitDropped, Close, Stop, Sent
<1>7. CASE ReadClock \/ BeginAttempt \/ AskRetry \/ WaitEnds \/ AfterPointR
  BY <1>7 DEF ReadClock, BeginAttempt, AskRetry, WaitEnds, AfterPointR, Stop, Sent, Clean,
              recordVars
<1>8. CASE Cancel \/ UNCHANGED vars
  BY <1>8 DEF Cancel, vars, Sent, Clean, recordVars, environment
<1> QED
  BY <1>1, <1>2, <1>3, <1>4, <1>5, <1>6, <1>7, <1>8
     DEF Next, LoopStep, ProviderStep, Done

\* No provider call sends the model an outcome of a call that was never run
\* or was dropped: point B stops every run that could hold one (service.rs
\* drive, tool_turn).
THEOREM OnlyStartedSentHolds == Spec => []OnlyStartedSent
<1>1. Init => Sent
  BY DEF Init, RecordInit, Sent, Clean
<1>2. Sent => OnlyStartedSent
  BY DEF Sent, Clean, OnlyStartedSent
<1> QED
  BY TypedInit, TypedStep, SentStep, <1>1, <1>2, PTL DEF Spec

-----------------------------------------------------------------------------
(* The run's time.                                                         *)

LEMMA DeadlinesStep == Typed /\ Deadlines /\ [Next]_vars => Deadlines'
<1> SUFFICES ASSUME Typed, Deadlines, [Next]_vars, Punctual PROVE Deadlines'
  BY DEF Deadlines
<1>0. /\ now \in Nat /\ at \in Nat /\ due \in Nat
      /\ Timeout \in Nat /\ ProviderTimeout \in Nat
  BY LimitsAssumption, LoopAssumption DEF Typed, TypeOK
<1>1. CASE BeginAttempt
  <2>1. now <= Timeout /\ due' = now + Least(TimeLeft(now), ProviderTimeout)
    BY <1>1 DEF BeginAttempt, Deadlines
  <2>2. due' <= Timeout
    BY <1>0, <2>1 DEF Least, TimeLeft
  <2> QED
    BY <1>1, <2>2 DEF BeginAttempt, Deadlines, environment
<1>2. CASE AskRetry
  <2>1. CASE pc' = "waiting"
    <3>1. PICK wait \in Nat : AllowsWait(now, wait) /\ due' = now + wait
      BY <1>2, <2>1, WaitsType DEF AskRetry, Stop
    <3>2. due' <= Timeout
      BY <1>0, <3>1 DEF AllowsWait, TimeLeft
    <3> QED
      BY <1>2, <2>1, <3>2 DEF AskRetry, Deadlines, environment
  <2>2. CASE pc' = "stopping"
    BY <1>2, <2>2 DEF AskRetry, Deadlines, environment
  <2> QED
    BY <1>2, <2>1, <2>2 DEF AskRetry, Stop
<1>3. CASE AfterPointR
  <2>1. CASE pc' = "tools"
    <3>1. due' = now + TimeLeft(now)
      BY <1>3, <2>1 DEF AfterPointR, Stop
    <3>2. due' <= Timeout
      BY <1>0, <3>1 DEF TimeLeft, Deadlines
    <3> QED
      BY <1>3, <2>1, <3>2 DEF AfterPointR, Deadlines, environment
  <2>2. CASE pc' = "stopping"
    BY <1>3, <2>2 DEF AfterPointR, Deadlines, environment
  <2> QED
    BY <1>3, <2>1, <2>2 DEF AfterPointR, Stop
<1>4. CASE Tick
  <2>1. pc \in {"calling", "waiting", "tools"} /\ now < due /\ now' = now + 1
    BY <1>4 DEF Tick
  <2>2. now' <= Timeout
    BY <1>0, <2>1 DEF Deadlines
  <2> QED
    BY <1>4, <2>1, <2>2 DEF Tick, Deadlines
<1>5. ASSUME NEW r \in Responses, ProviderResponds(r) PROVE Deadlines'
  BY <1>5 DEF ProviderResponds, Stop, Deadlines, environment
<1>6. ASSUME NEW f \in Failures, ProviderFails(f) PROVE Deadlines'
  BY <1>6 DEF ProviderFails, Stop, Deadlines, environment
<1>7. CASE AttemptDropped \/ NotAdmitted \/ WaitDropped \/ Close \/ PointB
  BY <1>7 DEF AttemptDropped, NotAdmitted, WaitDropped, Close, PointB, Stop, Deadlines,
              environment
<1>8. CASE ReadClock \/ WaitEnds \/ ToolsAnswer
  BY <1>8 DEF ReadClock, WaitEnds, ToolsAnswer, Deadlines, environment
<1>9. CASE Cancel \/ UNCHANGED vars
  BY <1>9 DEF Cancel, vars, Deadlines, environment
<1> QED
  BY <1>1, <1>2, <1>3, <1>4, <1>5, <1>6, <1>7, <1>8, <1>9
     DEF Next, LoopStep, ProviderStep, Done

\* A run whose work keeps the time it's given is over by its timeout, for any
\* timeout, retry settings and responses (stop.rs time_left, allows_wait).
THEOREM WithinTimeoutHolds == Spec => []WithinTimeout
<1>1. Init => Deadlines
  BY LimitsAssumption DEF Init, Deadlines
<1>2. Deadlines => WithinTimeout
  BY DEF Deadlines, WithinTimeout
<1> QED
  BY TypedInit, TypedStep, DeadlinesStep, <1>1, <1>2, PTL DEF Spec

-----------------------------------------------------------------------------
(* The token budget.                                                       *)

LEMMA BudgetStep == Typed /\ BudgetHolds /\ [Next]_vars => BudgetHolds'
<1> SUFFICES ASSUME Typed, BudgetHolds, [Next]_vars, MaxTotalTokens # None PROVE BudgetHolds'
  BY DEF BudgetHolds
<1> DEFINE used == answeredUsage + failedUsage
<1>0. /\ MaxTotalTokens \in Nat
      /\ answeredUsage \in Nat /\ failedUsage \in Nat
  BY LimitsAssumption DEF Typed, TypeOK, RecordTypeOK
<1>1. CASE BeginAttempt
  <2>1. used < MaxTotalTokens
    BY <1>0, <1>1
       DEF BeginAttempt, AdmitReason, BeforeCall, LimitReached, Reached, Progress, Spent, GoOn
  <2> QED
    BY <1>0, <1>1, <2>1 DEF BeginAttempt, recordVars, BudgetHolds
<1>2. ASSUME NEW u \in Nat, u \in AttemptUsages, pc = "calling", used' = used + u
      PROVE  /\ used < MaxTotalTokens
             /\ \E v \in AttemptUsages : used' - v < MaxTotalTokens
  <2>1. used < MaxTotalTokens
    BY <1>2 DEF BudgetHolds
  <2>2. used' - u < MaxTotalTokens
    BY <1>0, <1>2, <2>1
  <2> QED
    BY <1>2, <2>1, <2>2
<1>3. ASSUME NEW r \in Responses, ProviderResponds(r) PROVE BudgetHolds'
  <2>1. r.usage \in Nat /\ r.usage \in AttemptUsages
    BY ResponsesAssumption DEF AttemptUsages
  <2>2. pc = "calling" /\ pc' # "calling" /\ used' = used + r.usage
    BY <1>0, <1>3, <2>1 DEF ProviderResponds, Responded, Stop
  <2> QED
    BY <1>2, <2>1, <2>2 DEF BudgetHolds
<1>4. ASSUME NEW f \in Failures, ProviderFails(f) PROVE BudgetHolds'
  <2>1. f.usage \in Nat /\ f.usage \in AttemptUsages
    BY FailuresAssumption DEF AttemptUsages
  <2>2. pc = "calling" /\ pc' # "calling" /\ used' = used + f.usage
    BY <1>0, <1>4, <2>1 DEF ProviderFails, FailedAttempt, Stop
  <2> QED
    BY <1>2, <2>1, <2>2 DEF BudgetHolds
<1>5. CASE AttemptDropped
  <2>1. used' = used /\ pc' # "calling"
    BY <1>0, <1>5 DEF AttemptDropped, FailedAttempt, Stop
  <2> QED
    BY <2>1 DEF BudgetHolds
<1>6. CASE NotAdmitted \/ WaitDropped \/ AskRetry \/ AfterPointR \/ PointB
  BY <1>6 DEF NotAdmitted, WaitDropped, AskRetry, AfterPointR, PointB, Stop, recordVars,
              BudgetHolds
<1>7. CASE ReadClock \/ WaitEnds \/ ToolsAnswer \/ Close
  BY <1>7 DEF ReadClock, WaitEnds, ToolsAnswer, Close, Answered, Finish, recordVars, BudgetHolds
<1>8. CASE Tick \/ Cancel \/ UNCHANGED vars
  BY <1>8 DEF Tick, Cancel, vars, recordVars, BudgetHolds
<1> QED
  BY <1>1, <1>3, <1>4, <1>5, <1>6, <1>7, <1>8 DEF Next, LoopStep, ProviderStep, Done

\* No attempt is in flight once the token budget is spent, and the budget is
\* passed by less than the one attempt that reached it used (service.rs admit,
\* run.rs spent, "a failed attempt's usage is spent as well").
THEOREM BudgetAlwaysHolds == Spec => []BudgetHolds
<1>1. Init => BudgetHolds
  BY LimitsAssumption DEF Init, RecordInit, BudgetHolds
<1> QED
  BY TypedInit, TypedStep, BudgetStep, <1>1, PTL DEF Spec

-----------------------------------------------------------------------------
(* Responses that were refused or cut short.                               *)

CutInv == Uncut /\ CutShortEndsRun

LEMMA CutShortReason ==
  \A r \in Responses : CutShort(r.finish) # GoOn => ResponseReason(r) = CutShort(r.finish)
  BY DEF ResponseReason, AfterFinal, AfterResponse

LEMMA CutStep == Typed /\ RecordInv /\ CutInv /\ [Next]_vars => CutInv'
<1> SUFFICES ASSUME Typed, RecordInv, CutInv, [Next]_vars PROVE CutInv'
  OBVIOUS
<1> USE DEF CutInv
<1>0. /\ turns \in Seq(Turns) /\ held \in Seq(Turns) /\ Len(held) <= 1
      /\ DOMAIN turns = 1..Len(turns) /\ Len(turns) \in Nat
  BY LenProperties DEF Typed, TypeOK, RecordTypeOK
<1>1. ASSUME NEW r \in Responses, ProviderResponds(r) PROVE CutInv'
  <2>1. held' # <<>> /\ held'[1].finish = r.finish /\ turns' = turns /\ outcome' = outcome
    BY <1>1 DEF ProviderResponds, Responded
  <2>2. CutShort(r.finish) # GoOn =>
          pc' = "stopping" /\ stopped'.reason = CutShort(r.finish)
    BY <1>1, CutShortReason DEF ProviderResponds, Stop
  <2> QED
    BY <2>1, <2>2 DEF Uncut, CutShortEndsRun, Running
<1>2. CASE ToolsAnswer
  <2>1. PICK outcomes \in Outcomes(held[1].calls, cancelled, TimeLeft(now) = 0) :
           Answered(outcomes)
    BY <1>2 DEF ToolsAnswer
  <2> DEFINE turn == [held[1] EXCEPT !.outcomes = outcomes]
  <2>2. held # <<>> /\ held[1] \in Turns /\ Running /\ UNCHANGED outcome
    BY <1>0, <1>2 DEF ToolsAnswer, Typed, Shape
  <2>3. turn \in Turns /\ turn.finish = held[1].finish
    BY <1>2, <2>1, <2>2, AnsweredType DEF Outcomes, ToolsAnswer, Typed, TypeOK, Turns
  <2>4. CutShort(held[1].finish) = GoOn
    BY <1>2, <2>2 DEF ToolsAnswer, Uncut
  <2>5. /\ DOMAIN turns' = 1..Len(turns) + 1
        /\ turns'[Len(turns) + 1].finish = held[1].finish
        /\ \A i \in 1..Len(turns) : turns'[i] = turns[i]
    BY <1>0, <2>1, <2>3 DEF Answered
  <2>6. \A i \in DOMAIN turns' : CutShort(turns'[i].finish) = GoOn
    BY <1>0, <2>2, <2>4, <2>5 DEF Uncut
  <2>7. held' = <<>>
    BY <2>1 DEF Answered
  <2> QED
    BY <2>6, <2>7 DEF Uncut, CutShortEndsRun
<1>3. CASE Close
  <2>1. /\ Running /\ stopped.reason \in StopReasons
        /\ turns' = turns \o held /\ held' = <<>>
        /\ outcome'.reason = stopped.reason
        /\ outcome'.structured => stopped.reason = "completed"
        /\ ~Running'
    BY <1>3, Decisions DEF Close, Finish, Typed, TypeOK, Shape, Running
  <2>2. \A i \in DOMAIN turns : CutShort(turns[i].finish) = GoOn
    BY <2>1 DEF Uncut
  <2>3. CASE held = <<>>
    <3>1. turns' = turns
      BY <1>0, <2>1, <2>3
    <3> QED
      BY <2>1, <2>2, <3>1 DEF Uncut, CutShortEndsRun
  <2>4. CASE held # <<>>
    <3>1. /\ Len(turns') = Len(turns) + 1 /\ DOMAIN turns' = 1..Len(turns')
          /\ turns'[Len(turns')] = held[1]
          /\ \A i \in 1..Len(turns) : turns'[i] = turns[i]
      BY <2>1, <2>4, HeldJoins DEF Typed, TypeOK
    <3>2. ASSUME NEW i \in DOMAIN turns', CutShort(turns'[i].finish) # GoOn
          PROVE  i = Len(turns') /\ turns'[i] = held[1]
      BY <1>0, <2>2, <3>1, <3>2
    <3>3. held[1].outcomes = <<>>
      BY <2>4 DEF RecordInv, Rules
    <3>4. CutShort(held[1].finish) # GoOn =>
            outcome'.reason = CutShort(held[1].finish) /\ ~outcome'.structured
      BY <2>1, <2>4 DEF Uncut, CutShort, GoOn
    <3>5. CutShortEndsRun'
      BY <3>2, <3>3, <3>4 DEF CutShortEndsRun
    <3> QED
      BY <2>1, <3>5 DEF Uncut
  <2> QED
    BY <2>3, <2>4
<1>4. ASSUME NEW f \in Failures, ProviderFails(f) PROVE CutInv'
  BY <1>4 DEF ProviderFails, FailedAttempt, Uncut, CutShortEndsRun, Running, Typed, Shape
<1>5. CASE AttemptDropped
  BY <1>5 DEF AttemptDropped, FailedAttempt, Uncut, CutShortEndsRun, Running, Typed, Shape
<1>6. CASE AfterPointR
  BY <1>6 DEF AfterPointR, Stop, recordVars, Uncut, CutShortEndsRun, Running
<1>7. CASE ReadClock \/ NotAdmitted \/ BeginAttempt \/ AskRetry
  BY <1>7 DEF ReadClock, NotAdmitted, BeginAttempt, AskRetry, recordVars, Uncut,
              CutShortEndsRun, Running, Typed, Shape
<1>8. CASE WaitEnds \/ WaitDropped \/ PointB
  BY <1>8 DEF WaitEnds, WaitDropped, PointB, recordVars, Uncut, CutShortEndsRun, Running,
              Typed, Shape
<1>9. CASE Tick \/ Cancel \/ UNCHANGED vars
  BY <1>9 DEF Tick, Cancel, vars, recordVars, Uncut, CutShortEndsRun, Running
<1> QED
  BY <1>1, <1>2, <1>3, <1>4, <1>5, <1>6, <1>7, <1>8, <1>9
     DEF Next, LoopStep, ProviderStep, Done

\* A response that was refused or cut short is the run's last, none of its
\* calls is ever run, and it's no structured result (stop.rs after_response,
\* outcome.rs closing).
THEOREM CutShortAlwaysEndsRun == Spec => []CutShortEndsRun
<1>1. Init => CutInv
  BY DEF Init, RecordInit, CutInv, Uncut, CutShortEndsRun
<1>2. Spec => []RecordInv
  BY ImplementsRecord, RecordInvInit, RecordInvStep, PTL DEF RecordSpec
<1>3. CutInv => CutShortEndsRun
  BY DEF CutInv
<1> QED
  BY TypedInit, TypedStep, CutStep, <1>1, <1>2, <1>3, PTL DEF Spec
-----------------------------------------------------------------------------
(* What a stop reason says.                                                *)

\* The caps are never passed, and are met only where point B is asked.
Caps ==
  /\ pc \notin {"pointB", "stopping", "done"} =>
       /\ MaxTurns # None => Len(turns) < MaxTurns
       /\ MaxInvalidTurns # None => ConsecutiveInvalid < MaxInvalidTurns
  /\ pc = "pointB" =>
       /\ MaxTurns # None => Len(turns) <= MaxTurns
       /\ MaxInvalidTurns # None => ConsecutiveInvalid <= MaxInvalidTurns

\* What point A is told of a failure, on a reading the clock has reached.
Asked ==
  /\ at <= now
  /\ pc \in {"clock", "admit"} /\ asker = "failure" => failure.kind \in Retryable

AllTurns == turns \o held
LastTurn == AllTurns[Len(AllTurns)]
Whole == AllTurns # <<>> /\ CutShort(LastTurn.finish) = GoOn

\* What each reason says, one apart from the other.
Warrants(reason) ==
  /\ reason = "cancelled" => cancelled
  /\ reason = "timeout" =>
       \/ now >= Timeout
       \/ \E wait \in NextWaits(attempt, failure.kind, failure.hint) : now + wait >= Timeout
  /\ reason = "max_total_tokens" => Reached(MaxTotalTokens, Spent)
  /\ reason = "max_turns" => held = <<>> /\ Len(turns) = MaxTurns
  /\ reason = "invalid_calls_exhausted" => held = <<>> /\ ConsecutiveInvalid = MaxInvalidTurns
  /\ reason = "retries_exhausted" =>
       /\ failedAttempts > MaxRetries \/ failure.hint > HintMax
       /\ TimeLeft(at) > 0 /\ ~Reached(MaxTotalTokens, Spent)
  /\ reason = "provider_error" => failure.kind \in {"auth", "fatal"}
  /\ reason = "completed" =>
       /\ Whole /\ LastTurn.outcomes = <<>>
       /\ Mode = "natural" => LastTurn.calls = <<>>
       /\ Mode # "natural" => CompletedWith(LastTurn.calls)
  /\ reason = "ended_without_completion" =>
       Whole /\ Mode = "explicit" /\ LastTurn.calls = <<>>
  /\ reason \in {"refused", "output_truncated"} => ~Whole

Warranted == Over => stopped.reason \in StopReasons /\ Warrants(stopped.reason)

ReasonInv == Caps /\ Asked /\ Warranted

LEMMA WarrantedHolds == Warranted => ReasonHolds
<1> SUFFICES ASSUME Over, stopped.reason \in StopReasons, Warrants(stopped.reason) PROVE ReasonHolds
  BY DEF ReasonHolds, Warranted
<1> QED
  BY ModeAssumption DEF Warrants, ReasonHolds, AllTurns, LastTurn, Whole, StopReasons

\* A turn more makes at most one invalid turn in a row more (run.rs
\* consecutive_invalid_turns).
LEMMA InvalidGrows ==
  ASSUME turns \in Seq(Turns), NEW turn \in Turns, turns' = Append(turns, turn)
  PROVE  /\ ConsecutiveInvalid \in Nat /\ ConsecutiveInvalid' \in Nat
         /\ ConsecutiveInvalid' <= ConsecutiveInvalid + 1
<1> DEFINE n == Len(turns)
           row == {i \in DOMAIN turns : \A j \in i..Len(turns) : InvalidTurn(turns[j])}
<1>1. /\ n \in Nat /\ DOMAIN turns = 1..n /\ DOMAIN turns' = 1..n + 1 /\ Len(turns') = n + 1
      /\ \A j \in 1..n : turns'[j] = turns[j]
  BY LenProperties, AppendProperties
<1>2. IsFiniteSet(row) /\ n + 1 \notin row
  <2>1. IsFiniteSet(1..n)
    BY <1>1, FS_Interval
  <2>2. row \subseteq 1..n
    BY <1>1
  <2> QED
    BY <1>1, <2>1, <2>2, FS_Subset
<1>3. ASSUME NEW i \in row' PROVE i \in row \union {n + 1}
  <2>1. CASE i = n + 1
    BY <2>1
  <2>2. CASE i # n + 1
    <3>1. i \in 1..n
      BY <1>1, <2>2
    <3>2. ASSUME NEW j \in i..n PROVE InvalidTurn(turns[j])
      <4>1. j \in i..Len(turns') /\ turns'[j] = turns[j]
        BY <1>1, <3>1
      <4>2. InvalidTurn(turns'[j])
        BY <4>1
      <4> QED
        BY <4>1, <4>2
    <3> QED
      BY <1>1, <3>1, <3>2
  <2> QED
    BY <2>1, <2>2
<1>4. IsFiniteSet(row \union {n + 1})
      /\ Cardinality(row \union {n + 1}) = Cardinality(row) + 1
  BY <1>2, FS_AddElement
<1>5. row' \subseteq row \union {n + 1}
  BY <1>3
<1>6. IsFiniteSet(row') /\ Cardinality(row') <= Cardinality(row) + 1
  BY <1>4, <1>5, FS_Subset
<1>7. Cardinality(row) \in Nat /\ Cardinality(row') \in Nat
  BY <1>2, <1>6, FS_CardinalityType
<1> QED
  BY <1>6, <1>7 DEF ConsecutiveInvalid

\* The turns in a row that are invalid can be counted.
LEMMA InvalidCounted == turns \in Seq(Turns) => ConsecutiveInvalid \in Nat
<1> SUFFICES ASSUME turns \in Seq(Turns) PROVE ConsecutiveInvalid \in Nat
  OBVIOUS
<1> DEFINE row == {i \in DOMAIN turns : \A j \in i..Len(turns) : InvalidTurn(turns[j])}
<1>1. Len(turns) \in Nat /\ DOMAIN turns = 1..Len(turns)
  BY LenProperties
<1>2. IsFiniteSet(1..Len(turns)) /\ row \subseteq 1..Len(turns)
  BY <1>1, FS_Interval
<1>3. Cardinality(row) \in Nat
  BY <1>2, FS_Subset, FS_CardinalityType
<1> QED
  BY <1>3 DEF ConsecutiveInvalid

LEMMA CapsStep == Typed /\ Caps /\ [Next]_vars => Caps'
<1> SUFFICES ASSUME Typed, Caps, [Next]_vars PROVE Caps'
  OBVIOUS
<1>0. /\ turns \in Seq(Turns) /\ Len(turns) \in Nat /\ ConsecutiveInvalid \in Nat
      /\ MaxTurns \in {None} \union Nat /\ MaxInvalidTurns \in {None} \union Nat
  BY LenProperties, InvalidCounted, LimitsAssumption DEF Typed, TypeOK, RecordTypeOK
<1>1. CASE ToolsAnswer
  <2>1. PICK outcomes \in Outcomes(held[1].calls, cancelled, TimeLeft(now) = 0) :
           Answered(outcomes)
    BY <1>1 DEF ToolsAnswer
  <2> DEFINE turn == [held[1] EXCEPT !.outcomes = outcomes]
  <2>2. held # <<>> /\ held[1] \in Turns
    BY <1>1 DEF ToolsAnswer, Typed, Shape, TypeOK, RecordTypeOK
  <2>3. turn \in Turns
    BY <1>1, <2>1, <2>2, AnsweredType DEF Outcomes, ToolsAnswer, Typed, TypeOK, Turns
  <2>4. turns' = Append(turns, turn)
    BY <2>1 DEF Answered
  <2>5. Len(turns') = Len(turns) + 1
    BY <1>0, <2>3, <2>4, AppendProperties
  <2>6. ConsecutiveInvalid' \in Nat /\ ConsecutiveInvalid' <= ConsecutiveInvalid + 1
    BY <1>0, <2>3, <2>4, InvalidGrows
  <2>7. pc = "tools" /\ pc' = "pointB"
    BY <1>1 DEF ToolsAnswer
  <2>8. MaxTurns # None => Len(turns) < MaxTurns
    BY <2>7 DEF Caps
  <2>9. MaxInvalidTurns # None => ConsecutiveInvalid < MaxInvalidTurns
    BY <2>7 DEF Caps
  <2>10. MaxTurns # None => Len(turns') <= MaxTurns
    BY <1>0, <2>5, <2>8
  <2>11. MaxInvalidTurns # None => ConsecutiveInvalid' <= MaxInvalidTurns
    BY <1>0, <2>6, <2>9
  <2> QED
    BY <2>7, <2>10, <2>11 DEF Caps
<1>2. CASE PointB
  <2>1. UNCHANGED turns /\ pc = "pointB" /\ pc' \in {"clock", "stopping"}
    BY <1>2 DEF PointB, Stop, recordVars
  <2>2. ConsecutiveInvalid' = ConsecutiveInvalid
    BY <2>1 DEF ConsecutiveInvalid
  <2>3. pc' = "clock" => /\ MaxTurns # None => Len(turns) < MaxTurns
                         /\ MaxInvalidTurns # None => ConsecutiveInvalid < MaxInvalidTurns
    <3> SUFFICES ASSUME pc' = "clock"
                 PROVE  /\ MaxTurns # None => Len(turns) < MaxTurns
                        /\ MaxInvalidTurns # None => ConsecutiveInvalid < MaxInvalidTurns
      OBVIOUS
    <3>1. AfterTools(Progress(now)) = GoOn
      BY <1>2 DEF PointB, PointBReason, Stop, GoOn
    <3>2. CapReached(Progress(now)) = GoOn
      BY <3>1 DEF AfterTools
    <3>3. ~Reached(MaxInvalidTurns, ConsecutiveInvalid) /\ ~Reached(MaxTurns, Len(turns))
      BY <3>2 DEF CapReached, Progress, GoOn
    <3> QED
      BY <1>0, <3>3 DEF Reached
  <2> QED
    BY <2>1, <2>2, <2>3 DEF Caps
<1>3. CASE Close
  BY <1>3 DEF Close, Caps
<1>4. CASE ~ToolsAnswer /\ ~PointB /\ ~Close
  <2>1. UNCHANGED turns /\ (pc' = "pointB" <=> pc = "pointB")
        /\ (pc \in {"stopping", "done"} => pc' \in {"stopping", "done"})
    BY <1>4 DEF Next, LoopStep, ProviderStep, Done, ReadClock, NotAdmitted, BeginAttempt,
         AskRetry, AttemptDropped, WaitEnds, WaitDropped, AfterPointR, ProviderResponds,
         ProviderFails, Responded, FailedAttempt, Stop, Tick, Cancel, recordVars, vars
  <2>2. ConsecutiveInvalid' = ConsecutiveInvalid
    BY <2>1 DEF ConsecutiveInvalid
  <2> QED
    BY <2>1, <2>2 DEF Caps
<1> QED
  BY <1>1, <1>2, <1>3, <1>4

LEMMA AskedStep == Typed /\ Asked /\ [Next]_vars => Asked'
<1> SUFFICES ASSUME Typed, Asked, [Next]_vars PROVE Asked'
  OBVIOUS
<1>0. now \in Nat /\ at \in Nat /\ at <= now
  BY DEF Typed, TypeOK, Asked
<1>1. CASE Tick
  BY <1>0, <1>1 DEF Tick, Asked
<1>2. CASE ReadClock
  BY <1>0, <1>2 DEF ReadClock, environment, Asked
<1>3. CASE NotAdmitted \/ BeginAttempt \/ AskRetry
  BY <1>3 DEF NotAdmitted, BeginAttempt, AskRetry, Stop, environment, Asked
<1>4. CASE AttemptDropped \/ WaitEnds \/ WaitDropped
  BY <1>4 DEF AttemptDropped, WaitEnds, WaitDropped, Stop, environment, Asked
<1>5. CASE AfterPointR \/ PointB \/ Close \/ ToolsAnswer
  BY <1>5 DEF AfterPointR, PointB, Close, ToolsAnswer, Stop, environment, Asked
<1>6. ASSUME NEW r \in Responses, ProviderResponds(r) PROVE Asked'
  BY <1>6 DEF ProviderResponds, Stop, environment, Asked
<1>7. ASSUME NEW f \in Failures, ProviderFails(f) PROVE Asked'
  BY <1>7 DEF ProviderFails, Stop, environment, Asked
<1>8. CASE Cancel \/ UNCHANGED vars
  BY <1>8 DEF Cancel, vars, environment, Asked
<1> QED
  BY <1>1, <1>2, <1>3, <1>4, <1>5, <1>6, <1>7, <1>8 DEF Next, LoopStep, ProviderStep, Done

\* A backoff is a number of units (retry.rs backoff).
LEMMA BackoffType == ASSUME NEW n \in Nat, TryNumber(n) <= MaxRetries PROVE Backoff(n) \in Nat
<1>1. TryNumber(n) - 1 \in 0..MaxRetries
  BY RetryAssumption DEF TryNumber
<1>2. Factor ^ (TryNumber(n) - 1) \in Nat
  BY <1>1, PowersAssumption
<1>3. BaseDelay * Factor ^ (TryNumber(n) - 1) \in Nat
  <2>1. \A x, y \in Nat : x * y \in Nat
    OBVIOUS
  <2> QED
    BY <1>2, <2>1, RetryAssumption
<1> QED
  BY <1>3, RetryAssumption DEF Backoff

\* The policy gives up on a failure that may be retried only when its retries
\* are used up or the server asks for too long a wait (retry.rs next).
LEMMA GivesUp ==
  ASSUME NEW n \in Nat, NEW kind \in Retryable, NEW hint \in Nat \union {None},
         NextWaits(n, kind, hint) = {}
  PROVE  TryNumber(n) > MaxRetries \/ hint > HintMax
<1> SUFFICES ASSUME TryNumber(n) <= MaxRetries, ~(hint # None /\ hint > HintMax) PROVE FALSE
  BY RetryAssumption DEF TryNumber
<1>3. Backoff(n) \in Nat /\ Backoff(n) <= MaxDelay
  BY BackoffType, RetryAssumption DEF Backoff
<1>4. LeastWait(n, hint) \in 0..LongestWait
  BY <1>3, RetryAssumption DEF LeastWait, LongestWait
<1>5. ~(kind \notin Retryable \/ TryNumber(n) > MaxRetries \/ (hint # None /\ hint > HintMax))
  BY RetryAssumption DEF TryNumber
<1>6. LeastWait(n, hint) \in NextWaits(n, kind, hint)
  BY <1>4, <1>5 DEF NextWaits
<1> QED
  BY <1>6
\* A loop that has stopped stays as it is: the run's end gives the turn held
\* its place and takes nothing from what the reason says.
LEMMA WarrantedStays == Typed /\ Warranted /\ Over /\ [Next]_vars => Warranted'
<1> SUFFICES ASSUME Typed, Warranted, Over, [Next]_vars PROVE Warranted'
  OBVIOUS
<1>0. /\ stopped.reason \in StopReasons /\ Warrants(stopped.reason)
      /\ turns \in Seq(Turns) /\ held \in Seq(Turns) /\ now \in Nat
      /\ answeredUsage \in Nat /\ failedUsage \in Nat
  BY DEF Warranted, Typed, TypeOK, RecordTypeOK
<1>1. CASE Close
  <2>1. /\ turns' = turns \o held /\ held' = <<>>
        /\ UNCHANGED <<environment, at, attempt, failure, stopped, failedAttempts,
                       answeredUsage, failedUsage>>
    BY <1>1 DEF Close, Finish
  <2>2. turns' \in Seq(Turns) /\ AllTurns' = AllTurns
    BY <1>0, <2>1, ConcatProperties, ConcatEmptySeq DEF AllTurns
  <2>3. LastTurn' = LastTurn /\ Whole' = Whole
    BY <2>2 DEF LastTurn, Whole
  <2>4. held = <<>> => turns' = turns
    BY <1>0, <2>1, ConcatEmptySeq
  <2>5. held = <<>> => ConsecutiveInvalid' = ConsecutiveInvalid
    BY <2>4 DEF ConsecutiveInvalid
  <2>6. Warrants(stopped.reason)'
    BY <1>0, <2>1, <2>3, <2>4, <2>5 DEF Warrants, environment, Spent
  <2> QED
    BY <1>0, <2>1, <2>6 DEF Warranted
<1>2. CASE Tick
  <2>1. /\ UNCHANGED <<recordVars, cancelled, at, attempt, failure, stopped>> /\ now' = now + 1
    BY <1>2 DEF Tick
  <2>2. \A wait \in NextWaits(attempt, failure.kind, failure.hint) :
          now + wait >= Timeout => now' + wait >= Timeout
    BY <1>0, <2>1, WaitsType, LimitsAssumption
  <2>3. now >= Timeout => now' >= Timeout
    BY <1>0, <2>1, LimitsAssumption
  <2>4. LastTurn' = LastTurn /\ Whole' = Whole /\ ConsecutiveInvalid' = ConsecutiveInvalid
    BY <2>1 DEF LastTurn, Whole, AllTurns, ConsecutiveInvalid, recordVars
  <2>5. Warrants(stopped.reason)'
    BY <1>0, <2>1, <2>2, <2>3, <2>4 DEF Warrants, Spent, recordVars
  <2> QED
    BY <1>0, <2>1, <2>5 DEF Warranted
<1>3. CASE Cancel \/ UNCHANGED vars
  <2>1. /\ UNCHANGED <<recordVars, now, at, attempt, failure, stopped>>
        /\ cancelled => cancelled'
    BY <1>3 DEF Cancel, vars, environment
  <2>2. LastTurn' = LastTurn /\ Whole' = Whole /\ ConsecutiveInvalid' = ConsecutiveInvalid
    BY <2>1 DEF LastTurn, Whole, AllTurns, ConsecutiveInvalid, recordVars
  <2>3. Warrants(stopped.reason)'
    BY <1>0, <2>1, <2>2 DEF Warrants, Spent, recordVars
  <2> QED
    BY <1>0, <2>1, <2>3 DEF Warranted
<1> QED
  BY <1>1, <1>2, <1>3 DEF Over, Next, LoopStep, ProviderStep, Done, ReadClock, NotAdmitted,
     BeginAttempt, AskRetry, AttemptDropped, WaitEnds, WaitDropped, AfterPointR, PointB,
     ProviderResponds, ProviderFails, ToolsAnswer

\* The loop stops on a response: what it holds is the last turn, and the
\* reason is what the response was (stop.rs after_final, after_response).
LEMMA RespondedWarranted ==
  ASSUME Typed, NEW r \in Responses, ProviderResponds(r), Over'
  PROVE  Warranted'
<1>0. turns \in Seq(Turns) /\ held' \in Seq(Turns) /\ r.calls \in Seq(Calls)
      /\ held' # <<>> /\ RecordTypeOK'
  <2>1. RecordTypeOK'
    BY RespondedType DEF ProviderResponds, Typed, TypeOK
  <2> QED
    BY <2>1, ResponsesAssumption DEF Typed, TypeOK, RecordTypeOK, ProviderResponds, Responded
<1>1. /\ held'[1].finish = r.finish /\ held'[1].calls = r.calls /\ held'[1].outcomes = <<>>
      /\ turns' = turns
  BY DEF ProviderResponds, Responded
<1>2. AllTurns' # <<>> /\ LastTurn' = held'[1]
  <2>1. /\ Len(AllTurns') = Len(turns') + 1
        /\ AllTurns'[Len(turns') + 1] = held'[1]
    <3>1. Len(held') = 1
      BY DEF ProviderResponds, Responded
    <3>2. Len(turns') \in Nat
      BY <1>0, <1>1, LenProperties
    <3>3. AllTurns' = turns \o held' /\ Len(turns') = Len(turns)
      BY <1>1 DEF AllTurns
    <3>4. /\ Len(turns \o held') = Len(turns) + 1
          /\ (turns \o held')[Len(turns) + 1] = held'[1]
      <4>1. /\ Len(turns \o held') = Len(turns) + Len(held')
            /\ \A i \in 1..Len(turns) + Len(held') :
                 (turns \o held')[i] = IF i <= Len(turns) THEN turns[i] ELSE held'[i - Len(turns)]
        BY <1>0, ConcatProperties
      <4>2. Len(turns) + 1 \in 1..Len(turns) + Len(held') /\ (Len(turns) + 1) - Len(turns) = 1
            /\ ~(Len(turns) + 1 <= Len(turns))
        BY <3>1, <3>2, <3>3
      <4> QED
        BY <3>1, <4>1, <4>2
    <3> QED
      BY <3>3, <3>4
  <2>2. Len(turns') \in Nat
    BY <1>0, <1>1, LenProperties
  <2>3. AllTurns' # <<>>
    BY <2>1, <2>2
  <2> QED
    BY <2>1, <2>3 DEF LastTurn
<1>3. /\ ResponseReason(r) # GoOn /\ stopped'.reason = ResponseReason(r)
  BY DEF ProviderResponds, Stop, Over
<1>4. ResponseReason(r) \in StopReasons
  BY <1>3, Decisions
<1>5. Whole' <=> CutShort(r.finish) = GoOn
  BY <1>1, <1>2 DEF Whole
<1>6. CASE CutShort(r.finish) # GoOn
  <2>1. stopped'.reason \in {"refused", "output_truncated", "context_exhausted"}
    BY <1>3, <1>6, CutShortReason DEF CutShort, GoOn
  <2>2. Warrants(stopped.reason)'
    BY <1>5, <1>6, <2>1 DEF Warrants
  <2> QED
    BY <1>3, <1>4, <2>2 DEF Warranted
<1>7. CASE CutShort(r.finish) = GoOn /\ r.calls = <<>>
  <2>1. stopped'.reason = IF Mode = "natural" THEN "completed" ELSE "ended_without_completion"
    BY <1>3, <1>7 DEF ResponseReason, AfterFinal
  <2>2. Warrants(stopped.reason)'
    BY <1>1, <1>2, <1>5, <1>7, <2>1, ModeAssumption DEF Warrants
  <2> QED
    BY <1>3, <1>4, <2>2 DEF Warranted
<1>8. CASE CutShort(r.finish) = GoOn /\ r.calls # <<>>
  <2>1. CompletedWith(r.calls) /\ stopped'.reason = "completed"
    BY <1>3, <1>8 DEF ResponseReason, AfterResponse
  <2>2. Mode # "natural"
    BY <2>1 DEF CompletedWith, Intercepts
  <2>3. Warrants(stopped.reason)'
    BY <1>1, <1>2, <1>5, <1>8, <2>1, <2>2 DEF Warrants
  <2> QED
    BY <1>3, <1>4, <2>3 DEF Warranted
<1> QED
  BY <1>6, <1>7, <1>8

LEMMA WarrantedStep == Typed /\ Counts /\ ReasonInv /\ [Next]_vars => Warranted'
<1> SUFFICES ASSUME Typed, Counts, ReasonInv, [Next]_vars, ~Over, Over' PROVE Warranted'
  BY WarrantedStays DEF ReasonInv, Warranted
<1>0. /\ now \in Nat /\ at \in Nat /\ at <= now /\ attempt \in Nat /\ failedAttempts \in Nat
      /\ failure \in Failures \union {NoFailure} /\ Timeout \in Nat
  BY LimitsAssumption DEF ReasonInv, Asked, Typed, TypeOK, RecordTypeOK
<1>1. CASE NotAdmitted
  <2>1. /\ stopped'.reason = AdmitReason /\ AdmitReason # GoOn
        /\ UNCHANGED <<recordVars, environment, at, attempt, failure>>
    BY <1>1 DEF NotAdmitted, Stop
  <2>2. \/ AdmitReason = "cancelled" /\ cancelled
        \/ AdmitReason = "timeout" /\ TimeLeft(at) = 0
        \/ AdmitReason = "max_total_tokens" /\ Reached(MaxTotalTokens, Spent)
    BY <2>1 DEF AdmitReason, BeforeCall, LimitReached, Progress, GoOn
  <2>3. TimeLeft(at) = 0 => now >= Timeout
    BY <1>0 DEF TimeLeft
  <2>4. Warrants(stopped.reason)'
    BY <2>1, <2>2, <2>3 DEF Warrants, Spent, recordVars, environment
  <2> QED
    BY <2>1, <2>4, Decisions DEF Warranted
<1>2. CASE AttemptDropped \/ WaitDropped
  <2>1. stopped'.reason = "cancelled" /\ cancelled'
    BY <1>2 DEF AttemptDropped, WaitDropped, Stop, environment
  <2> QED
    BY <2>1 DEF Warranted, Warrants, StopReasons
<1>3. CASE AskRetry
  <2>1. /\ UNCHANGED <<recordVars, environment, at, attempt, failure>>
        /\ pc = "admit" /\ asker = "failure" /\ AdmitReason = GoOn
    BY <1>3 DEF AskRetry
  <2>2. attempt = failedAttempts /\ attempt >= 1 /\ failure.kind \in Retryable
    BY <2>1 DEF Counts, ReasonInv, Asked
  <2>3. CASE NextWaits(attempt, failure.kind, failure.hint) = {}
    <3>1. stopped'.reason = "retries_exhausted"
      <4>1. Stop(StopReasonFor(failure.kind), FALSE)
        BY <1>3, <2>3 DEF AskRetry
      <4>2. StopReasonFor(failure.kind) = "retries_exhausted"
        BY <2>2 DEF StopReasonFor, Retryable
      <4> QED
        BY <4>1, <4>2 DEF Stop
    <3>2. failure \in Failures
      BY <1>0, <2>2 DEF NoFailure, Retryable
    <3>3. failure.hint \in Nat \union {None}
      BY <3>2, FailuresAssumption
    <3>4. failedAttempts > MaxRetries \/ failure.hint > HintMax
      <4>1. TryNumber(attempt) > MaxRetries \/ failure.hint > HintMax
        BY <1>0, <2>2, <2>3, <3>3, GivesUp
      <4>2. TryNumber(attempt) = failedAttempts
        BY <1>0, <2>2 DEF TryNumber
      <4> QED
        BY <4>1, <4>2
    <3>5. TimeLeft(at) > 0 /\ ~Reached(MaxTotalTokens, Spent)
      <4>1. TimeLeft(at) # 0 /\ BeforeCall(Progress(at)) = GoOn
        BY <2>1 DEF AdmitReason, GoOn
      <4>2. ~Reached(MaxTotalTokens, Spent)
        BY <4>1 DEF BeforeCall, LimitReached, Progress, GoOn
      <4>3. TimeLeft(at) \in Nat
        BY <1>0, TimeLeftType
      <4> QED
        BY <4>1, <4>2, <4>3
    <3>6. Warrants(stopped.reason)'
      BY <2>1, <3>1, <3>4, <3>5 DEF Warrants, Spent, recordVars
    <3> QED
      BY <3>1, <3>6 DEF Warranted, StopReasons
  <2>4. CASE NextWaits(attempt, failure.kind, failure.hint) # {}
    <3>1. PICK wait \in NextWaits(attempt, failure.kind, failure.hint) :
             ~AllowsWait(now, wait) /\ stopped'.reason = "timeout"
      BY <1>3, <2>4 DEF AskRetry, Stop, Over
    <3>2. now + wait >= Timeout
      <4>1. wait \in Nat
        BY WaitsType
      <4> QED
        BY <1>0, <3>1, <4>1 DEF AllowsWait, TimeLeft
    <3>3. Warrants(stopped.reason)'
      BY <2>1, <3>1, <3>2 DEF Warrants, environment
    <3> QED
      BY <3>1, <3>3 DEF Warranted, StopReasons
  <2> QED
    BY <2>3, <2>4
<1>4. CASE AfterPointR
  <2>1. stopped'.reason = "timeout" /\ TimeLeft(now) = 0 /\ now' = now
    BY <1>4 DEF AfterPointR, Stop, Over, environment
  <2>2. now' >= Timeout
    BY <1>0, <2>1 DEF TimeLeft
  <2> QED
    BY <2>1, <2>2 DEF Warranted, Warrants, StopReasons
<1>5. CASE PointB
  <2>1. /\ stopped'.reason = PointBReason /\ PointBReason # GoOn
        /\ UNCHANGED <<recordVars, environment>> /\ pc = "pointB" /\ held = <<>>
    BY <1>5 DEF PointB, Stop, Over, Typed, Shape
  <2>2. \/ PointBReason = "cancelled" /\ cancelled
        \/ PointBReason = "invalid_calls_exhausted"
             /\ Reached(MaxInvalidTurns, ConsecutiveInvalid)
        \/ PointBReason = "max_turns" /\ Reached(MaxTurns, Len(turns))
        \/ PointBReason = "timeout" /\ TimeLeft(now) = 0
        \/ PointBReason = "max_total_tokens" /\ Reached(MaxTotalTokens, Spent)
    BY <2>1 DEF PointBReason, AfterTools, CapReached, LimitReached, Progress, GoOn
  <2>3. /\ turns \in Seq(Turns) /\ Len(turns) \in Nat /\ ConsecutiveInvalid \in Nat
        /\ MaxTurns \in {None} \union Nat /\ MaxInvalidTurns \in {None} \union Nat
    BY LenProperties, InvalidCounted, LimitsAssumption DEF Typed, TypeOK, RecordTypeOK
  <2>4. Reached(MaxTurns, Len(turns)) => Len(turns) = MaxTurns
    BY <2>1, <2>3 DEF Reached, ReasonInv, Caps
  <2>5. Reached(MaxInvalidTurns, ConsecutiveInvalid) => ConsecutiveInvalid = MaxInvalidTurns
    BY <2>1, <2>3 DEF Reached, ReasonInv, Caps
  <2>6. ConsecutiveInvalid' = ConsecutiveInvalid
    BY <2>1 DEF ConsecutiveInvalid, recordVars
  <2>7. TimeLeft(now) = 0 => now >= Timeout
    BY <1>0 DEF TimeLeft
  <2>8. Warrants(stopped.reason)'
    BY <2>1, <2>2, <2>4, <2>5, <2>6, <2>7 DEF Warrants, Spent, recordVars, environment
  <2> QED
    BY <2>1, <2>8, Decisions DEF Warranted
<1>6. ASSUME NEW r \in Responses, ProviderResponds(r) PROVE Warranted'
  BY <1>6, RespondedWarranted
<1>7. ASSUME NEW f \in Failures, ProviderFails(f) PROVE Warranted'
  <2>1. /\ stopped'.reason = StopReasonFor(f.kind) /\ f.kind \notin Retryable /\ failure' = f
    BY <1>7 DEF ProviderFails, Stop, Over
  <2>2. f.kind \in ErrorKinds
    BY FailuresAssumption
  <2>3. \/ stopped'.reason = "context_exhausted"
        \/ stopped'.reason = "provider_error" /\ failure'.kind \in {"auth", "fatal"}
    BY <2>1, <2>2 DEF StopReasonFor, ErrorKinds, Retryable
  <2> QED
    BY <2>3 DEF Warranted, Warrants, StopReasons
<1>8. ~(ReadClock \/ BeginAttempt \/ WaitEnds \/ ToolsAnswer \/ Close \/ Tick \/ Cancel \/ Done)
      /\ ~UNCHANGED vars
  BY DEF ReadClock, BeginAttempt, WaitEnds, ToolsAnswer, Close, Tick, Cancel, Done, vars, Over
<1> QED
  BY <1>1, <1>2, <1>3, <1>4, <1>5, <1>6, <1>7, <1>8 DEF Next, LoopStep, ProviderStep

\* Every stop reason is true of the run it ended: the cap it names is met and
\* not passed, the time or the tokens it names are used up, and no run says it
\* completed on a response that was cut short (stop.rs, service.rs admit).
THEOREM ReasonAlwaysHolds == Spec => []ReasonHolds
<1>1. Init => ReasonInv
  <2> SUFFICES ASSUME Init PROVE ReasonInv
    OBVIOUS
  <2>1. pc = "clock" /\ asker = "call" /\ at = 0 /\ now = 0 /\ turns = <<>>
    BY DEF Init, RecordInit
  <2>2. ConsecutiveInvalid = 0
    <3>1. {i \in DOMAIN turns : \A j \in i..Len(turns) : InvalidTurn(turns[j])} = {}
      BY <2>1
    <3> QED
      BY <3>1, FS_EmptySet DEF ConsecutiveInvalid
  <2>3. Len(turns) = 0
    BY <2>1
  <2>4. Caps
    BY <2>1, <2>2, <2>3, LimitsAssumption DEF Caps
  <2> QED
    BY <2>1, <2>4 DEF ReasonInv, Asked, Warranted, Over
<1>2. Init => Counts
  BY DEF Init, RecordInit, Counts, AttemptNumbers
<1>3. Typed /\ Counts /\ ReasonInv /\ [Next]_vars => ReasonInv'
  BY CapsStep, AskedStep, WarrantedStep DEF ReasonInv
<1>4. ReasonInv => ReasonHolds
  BY WarrantedHolds DEF ReasonInv
<1> QED
  BY TypedInit, TypedStep, CountsStep, <1>1, <1>2, <1>3, <1>4, PTL DEF Spec

-----------------------------------------------------------------------------
(* The loop with its providers.                                            *)

allVars == <<vars, providerVars>>

\* The specification without its fairness.
ProviderSafety == ProviderInit /\ [][ProviderNext]_allVars

LEMMA SafetyOfSpec == ProviderSpec => ProviderSafety
  BY PTL DEF ProviderSpec, ProviderSafety, allVars

-----------------------------------------------------------------------------
(* What's in flight is what a server or the script may answer.             *)

InFlight ==
  /\ played \in Nat
  /\ exchange.at = "reading" => exchange.answer \in Answers
  /\ exchange.at = "playing" => exchange.result \in Told

LEMMA InFlightInit == ProviderInit => InFlight
<1> Len(Script) \in Nat
  BY ScriptAssumption, LenProperties
<1> QED
  BY DEF ProviderInit, InFlight, Idle

LEMMA InFlightStep == InFlight /\ [ProviderNext]_allVars => InFlight'
<1> SUFFICES ASSUME InFlight, [ProviderNext]_allVars PROVE InFlight'
  OBVIOUS
<1>1. CASE AttemptBegins
  <2>1. CASE SendRequest
    BY <2>1 DEF SendRequest, InFlight
  <2>2. CASE PlayEntry
    <3>1. Failure("fatal", 0, None) \in Told /\ Failure("retryable", 0, None) \in Told
      BY DEF Told
    <3>2. CASE played >= Len(Script)
      BY <2>2, <3>1, <3>2 DEF PlayEntry, InFlight
    <3>3. CASE ~(played >= Len(Script))
      <4>1. Len(Script) \in Nat /\ DOMAIN Script = 1..Len(Script)
        BY ScriptAssumption, LenProperties
      <4>2. played \in Nat /\ played + 1 \in DOMAIN Script
        BY <3>3, <4>1 DEF InFlight
      <4>3. Script[played + 1].result \in Told
        BY <4>2 DEF Told
      <4> QED
        BY <2>2, <3>1, <3>3, <4>2, <4>3 DEF PlayEntry, InFlight
    <3> QED
      BY <3>2, <3>3
  <2> QED
    BY <1>1, <2>1, <2>2 DEF AttemptBegins
<1>2. CASE HeadersCome
  BY <1>2 DEF HeadersCome, InFlight
<1>3. CASE BodyEnds \/ Breaks \/ TimesOut \/ ScriptAnswers
  BY <1>3 DEF BodyEnds, Breaks, TimesOut, ScriptAnswers, Tells, Idle, InFlight
<1>4. CASE DropsAttempt
  BY <1>4 DEF DropsAttempt, Idle, InFlight
<1>5. CASE BeginRun \/ Uncalled \/ Around \/ UNCHANGED allVars
  BY <1>5 DEF BeginRun, Uncalled, Around, allVars, providerVars, InFlight
<1> QED
  BY <1>1, <1>2, <1>3, <1>4, <1>5 DEF ProviderNext

-----------------------------------------------------------------------------
(* The loop's own steps.                                                   *)

LEMMA TellsIsHeard ==
  ASSUME NEW result \in Told, Tells(result)
  PROVE  /\ ProviderStep
         /\ ~result.ok => result.failure \in Failures /\ ProviderFails(result.failure)
         /\ result.ok => result.response \in Responses /\ ProviderResponds(result.response)
  BY ToldAssumption DEF Tells, ProviderStep

\* An attempt ends in one of the ways a provider has, with a result the loop
\* may hear.
LEMMA EndsTold ==
  ASSUME InFlight, BodyEnds \/ Breaks \/ TimesOut \/ ScriptAnswers
  PROVE  \E result \in Told : Tells(result)
<1>1. Failure("fatal", 0, None) \in Told /\ Failure("retryable", 0, None) \in Told
  BY DEF Told
<1>2. CASE BodyEnds
  BY <1>2 DEF BodyEnds, InFlight, Told
<1>3. CASE ScriptAnswers
  BY <1>3 DEF ScriptAnswers, InFlight
<1>4. CASE Breaks \/ TimesOut
  BY <1>1, <1>4 DEF Breaks, TimesOut
<1> QED
  BY <1>2, <1>3, <1>4

LEMMA LoopStepOfProvider == InFlight /\ [ProviderNext]_allVars => [Next]_vars
<1> SUFFICES ASSUME InFlight, [ProviderNext]_allVars PROVE Next \/ UNCHANGED vars
  OBVIOUS
<1>1. CASE AttemptBegins \/ DropsAttempt
  BY <1>1 DEF AttemptBegins, DropsAttempt, Next, LoopStep
<1>2. CASE BodyEnds \/ Breaks \/ TimesOut \/ ScriptAnswers
  BY <1>2, EndsTold, TellsIsHeard DEF Next
<1>3. CASE Uncalled
  BY <1>3 DEF Uncalled, Next, LoopStep
<1>4. CASE Around
  BY <1>4 DEF Around, Next
<1>5. CASE BeginRun \/ HeadersCome \/ UNCHANGED allVars
  BY <1>5 DEF BeginRun, HeadersCome, allVars
<1> QED
  BY <1>1, <1>2, <1>3, <1>4, <1>5 DEF ProviderNext

\* With the Messages adapter or the scripted provider the loop does only what
\* RunLoop says it may with any provider at all (service.rs call over the
\* port's complete).
THEOREM ProvidersImplementLoop == ProviderSpec => Spec
<1>1. ProviderInit => Init
  BY DEF ProviderInit
<1> QED
  BY SafetyOfSpec, InFlightInit, InFlightStep, LoopStepOfProvider, <1>1, PTL
     DEF ProviderSafety, Spec

\* So a response that was refused or cut short ends the run of either
\* provider, none of its calls run (stop.rs after_response).
THEOREM ProvidedCutShortEndsRun == ProviderSpec => []CutShortEndsRun
  BY ProvidersImplementLoop, CutShortAlwaysEndsRun, PTL

\* The loop's types and shape hold with its providers.
LEMMA ProvidedTyped == ProviderSpec => []Typed
  BY ProvidersImplementLoop, TypedInit, TypedStep, PTL DEF Spec

-----------------------------------------------------------------------------
(* The script's entries.                                                   *)

\* Before the run begins the loop has done nothing, and then an entry is
\* spent with each attempt.
Entries ==
  /\ ~begun => pc = "clock" /\ attemptsStarted = 0
  /\ EntryPerAttempt

LEMMA EntriesStep == InFlight /\ Typed /\ Entries /\ [ProviderNext]_allVars => Entries'
<1> SUFFICES ASSUME InFlight, Typed, Entries, [ProviderNext]_allVars PROVE Entries'
  OBVIOUS
<1> USE DEF Entries, EntryPerAttempt
<1>1. CASE BeginRun
  BY <1>1 DEF BeginRun, vars, history
<1>2. CASE AttemptBegins
  BY <1>2 DEF AttemptBegins, BeginAttempt, SendRequest, PlayEntry
<1>3. CASE BodyEnds \/ Breaks \/ TimesOut \/ ScriptAnswers
  <2>1. PICK result \in Told : Tells(result)
    BY <1>3, EndsTold
  <2>2. pc = "calling" /\ UNCHANGED <<provider, begun, played, attemptsStarted>>
    BY <2>1 DEF Tells, ProviderResponds, ProviderFails, history
  <2> QED
    BY <2>2
<1>4. CASE DropsAttempt
  BY <1>4 DEF DropsAttempt, AttemptDropped, history
<1>5. CASE Uncalled
  <2>1. begun /\ UNCHANGED <<providerVars, attemptsStarted>>
    BY <1>5 DEF Uncalled, ReadClock, NotAdmitted, AskRetry, WaitEnds, WaitDropped, AfterPointR,
                PointB, Close, history
  <2> QED
    BY <2>1 DEF providerVars
<1>6. CASE Around
  <2>1. begun /\ UNCHANGED <<providerVars, attemptsStarted>>
    BY <1>6 DEF Around, ToolsAnswer, Tick, Cancel, Done, vars, history
  <2> QED
    BY <2>1 DEF providerVars
<1>7. CASE HeadersCome \/ UNCHANGED allVars
  BY <1>7 DEF HeadersCome, allVars, vars, providerVars, history
<1> QED
  BY <1>1, <1>2, <1>3, <1>4, <1>5, <1>6, <1>7 DEF ProviderNext

\* Attempt n of a run plays entry n, for every script, whatever the earlier
\* runs played of it and however attempts end (provider-fake provider.rs
\* complete, provider-wiring begin_run).
THEOREM EntryPerAttemptHolds == ProviderSpec => []EntryPerAttempt
<1>1. ProviderInit => Entries
  BY DEF ProviderInit, Init, Entries, EntryPerAttempt
<1>2. Entries => EntryPerAttempt
  BY DEF Entries
<1> QED
  BY SafetyOfSpec, ProvidedTyped, InFlightInit, InFlightStep, EntriesStep, <1>1, <1>2, PTL
     DEF ProviderSafety

-----------------------------------------------------------------------------
(* What a server settles.                                                  *)

SettledEnds == settled => Over

\* What settles the run is heard as a failure that's never retried.
LEMMA SettledIsFinal ==
  ASSUME NEW answer \in Answers, SettlesRun(answer)
  PROVE  ~Heard(answer).ok /\ Heard(answer).failure.kind \notin Retryable
<1>1. CASE Succeeds(answer.status)
  BY <1>1 DEF SettlesRun, Heard, Failure, Retryable
<1>2. CASE ~Succeeds(answer.status)
  <2>1. Heard(answer) = Classified(answer)
    BY <1>2 DEF Heard
  <2>2. ~Heard(answer).ok
    BY <2>1 DEF Classified, Failure
  <2>3. KindOf(answer.status, Says(answer)) \in
          {"context_exhausted", "fatal", "auth", "retryable"}
    BY DEF KindOf
  <2>4. ASSUME Redirects(answer.status)
        PROVE  KindOf(answer.status, Says(answer)) = "fatal"
    <3>1. answer.status \in Int /\ 300 <= answer.status /\ answer.status <= 399
      BY <2>4 DEF Redirects
    <3>2. /\ answer.status # 400 /\ answer.status # 429
          /\ answer.status \notin {401, 403}
          /\ answer.status \notin {408, 409} \union 500..599
      BY <3>1
    <3> QED
      BY <3>2, Zenon DEF KindOf
  <2>5. answer.noRetry \/ Redirects(answer.status)
    BY <1>2 DEF SettlesRun
  <2>6. Heard(answer).failure.kind \in {"context_exhausted", "fatal", "auth"}
    BY <2>1, <2>3, <2>4, <2>5 DEF Classified, Failure
  <2> QED
    BY <2>2, <2>6 DEF Retryable
<1> QED
  BY <1>1, <1>2

LEMMA SettledStep == InFlight /\ SettledEnds /\ [ProviderNext]_allVars => SettledEnds'
<1> SUFFICES ASSUME InFlight, SettledEnds, [ProviderNext]_allVars PROVE SettledEnds'
  OBVIOUS
<1> USE DEF SettledEnds, Over
<1>1. CASE BodyEnds
  <2> DEFINE answer == exchange.answer
  <2>1. answer \in Answers /\ Heard(answer) \in Told /\ Tells(Heard(answer))
    BY <1>1 DEF BodyEnds, InFlight, Told
  <2>2. settled' = (settled \/ SettlesRun(answer))
    BY <1>1 DEF BodyEnds
  <2>3. pc = "calling"
    BY <2>1, TellsIsHeard DEF ProviderStep, ProviderResponds, ProviderFails
  <2>4. CASE SettlesRun(answer)
    <3>1. /\ ProviderFails(Heard(answer).failure)
          /\ Heard(answer).failure.kind \notin Retryable
      BY <2>1, <2>4, SettledIsFinal, TellsIsHeard
    <3> QED
      BY <3>1 DEF ProviderFails, Stop
  <2> QED
    BY <2>2, <2>3, <2>4
<1>2. CASE Breaks \/ TimesOut \/ ScriptAnswers
  <2>1. PICK result \in Told : Tells(result)
    BY <1>2, EndsTold
  <2>2. pc = "calling" /\ UNCHANGED settled
    BY <1>2, <2>1, TellsIsHeard
       DEF ProviderStep, ProviderResponds, ProviderFails, Breaks, TimesOut, ScriptAnswers, said
  <2> QED
    BY <2>2
<1>3. CASE AttemptBegins \/ DropsAttempt
  BY <1>3 DEF AttemptBegins, BeginAttempt, DropsAttempt, AttemptDropped, said
<1>4. CASE Uncalled
  BY <1>4 DEF Uncalled, ReadClock, NotAdmitted, AskRetry, WaitEnds, WaitDropped, AfterPointR,
              PointB, Close, providerVars, said
<1>5. CASE Around
  BY <1>5 DEF Around, ToolsAnswer, Tick, Cancel, Done, vars, providerVars, said
<1>6. CASE BeginRun \/ HeadersCome \/ UNCHANGED allVars
  BY <1>6 DEF BeginRun, HeadersCome, allVars, vars, providerVars, said
<1> QED
  BY <1>1, <1>2, <1>3, <1>4, <1>5, <1>6 DEF ProviderNext

\* Whatever the policy, a server that said not to try again, that redirects,
\* or whose whole and billed answer was too long to read gets no other
\* request of the run (error.rs should_not_retry, response.rs longer_than).
THEOREM NotAskedAgainHolds == ProviderSpec => []NotAskedAgain
<1>1. ProviderInit => SettledEnds
  BY DEF ProviderInit, SettledEnds
<1>2. SettledEnds => NotAskedAgain
  BY DEF SettledEnds, NotAskedAgain, Over
<1> QED
  BY SafetyOfSpec, InFlightInit, InFlightStep, SettledStep, <1>1, <1>2, PTL DEF ProviderSafety

-----------------------------------------------------------------------------
(* The waits a server asks for.                                            *)

\* Where the loop has yet to wait, what it was told is in the failure it
\* holds; where it waits, in the wait; and nowhere else is there any left.
HintHeld == failure.hint # None /\ notBefore <= now + failure.hint

WaitsLeft ==
  /\ ~Over => notBefore \in Nat
  /\ pc \in {"clock", "admit"} /\ asker = "failure" => notBefore <= now \/ HintHeld
  /\ pc \in {"clock", "admit"} /\ asker # "failure" => notBefore <= now
  /\ pc = "waiting" => notBefore <= due
  /\ pc \in {"calling", "pointR", "tools", "pointB"} => notBefore <= now

\* Every wait the policy names is at least the server's (retry.rs next).
LEMMA WaitsAtLeastHint ==
  ASSUME NEW n \in Nat, NEW kind, NEW hint \in Nat, NEW wait \in NextWaits(n, kind, hint)
  PROVE  wait \in Nat /\ wait >= hint
<1>0. TryNumber(n) <= MaxRetries
  BY RetryAssumption DEF NextWaits, TryNumber
<1>1. wait \in Nat
  BY WaitsType
<1>2. hint # None
  BY NoneAssumption
<1> DEFINE least == LeastWait(n, hint)
<1>3. wait = least \/ wait > least
  BY DEF NextWaits
<1>4. CASE hint > Backoff(n)
  BY <1>1, <1>2, <1>3, <1>4 DEF LeastWait
<1>5. CASE ~(hint > Backoff(n))
  <2>1. least = Backoff(n)
    BY <1>5 DEF LeastWait
  <2>2. Backoff(n) \in Nat
    BY <1>0, BackoffType
  <2> QED
    BY <1>1, <1>3, <1>5, <2>1, <2>2
<1> QED
  BY <1>4, <1>5

\* A share of a number is no more than the number.
LEMMA ShareOf == \A n \in Nat, percent \in 0..100 : n * percent \in Nat /\ n * percent <= n * 100
<1> SUFFICES ASSUME NEW n \in Nat, NEW percent \in 0..100
             PROVE  n * percent \in Nat /\ n * percent <= n * 100
  OBVIOUS
<1>1. n * (100 - percent) >= 0
  OBVIOUS
<1>2. n * percent >= 0
  OBVIOUS
<1> QED
  BY <1>1, <1>2

\* The caps of the retry policy (retry.rs next): a wait is the longer of the
\* backoff and the server's hint, each held to its cap, raised by no more than
\* the jitter's share of it, and every wait some salt may give is among them.
THEOREM WaitsKeepCaps ==
  ASSUME NEW n \in Nat, NEW kind \in Retryable, NEW hint \in Nat \union {None},
         TryNumber(n) <= MaxRetries, hint # None => hint <= HintMax
  PROVE  /\ LeastWait(n, hint) <= MaxDelay \/ (hint # None /\ LeastWait(n, hint) <= HintMax)
         /\ \A wait \in NextWaits(n, kind, hint) :
              (wait - LeastWait(n, hint)) * 100 <= LeastWait(n, hint) * JitterPercent
         /\ \A wait \in Nat :
              wait >= LeastWait(n, hint) =>
                ((wait - LeastWait(n, hint)) * 100 < LeastWait(n, hint) * JitterPercent =>
                   wait \in NextWaits(n, kind, hint))
         /\ LeastWait(n, hint) \in NextWaits(n, kind, hint)
<1> DEFINE least == LeastWait(n, hint)
<1>1. Backoff(n) \in Nat /\ Backoff(n) <= MaxDelay
  BY BackoffType, RetryAssumption DEF Backoff
<1>2. least \in Nat /\ (least <= MaxDelay \/ (hint # None /\ least <= HintMax))
  <2>1. CASE hint # None /\ hint > Backoff(n)
    <3>1. least = hint
      BY <2>1 DEF LeastWait
    <3>2. hint \in Nat /\ hint <= HintMax
      BY <2>1
    <3> QED
      BY <2>1, <3>1, <3>2
  <2>2. CASE ~(hint # None /\ hint > Backoff(n))
    <3>1. least = Backoff(n)
      BY <2>2 DEF LeastWait
    <3> HIDE DEF least
    <3> QED
      BY <1>1, <3>1
  <2> QED
    BY <2>1, <2>2
<1>3. least * JitterPercent \in Nat /\ least * JitterPercent <= least * 100
  BY <1>2, ShareOf, RetryAssumption
<1>4. ASSUME NEW wait \in NextWaits(n, kind, hint)
      PROVE  (wait - least) * 100 <= least * JitterPercent
  <2>1. wait = least \/ (wait - least) * 100 < least * JitterPercent
    BY DEF NextWaits
  <2>2. wait \in Nat
    BY WaitsType
  <2> HIDE DEF least
  <2> QED
    BY <1>2, <1>3, <2>1, <2>2, RetryAssumption
<1>5. ASSUME NEW wait \in Nat, wait >= least,
             wait = least \/ (wait - least) * 100 < least * JitterPercent
      PROVE  wait \in NextWaits(n, kind, hint)
  <2>1. wait <= 2 * least
    <3> HIDE DEF least
    <3> QED
      BY <1>2, <1>3, <1>5
  <2>2. wait \in 0..LongestWait
    <3> HIDE DEF least
    <3> QED
      BY <1>2, <2>1, RetryAssumption DEF LongestWait
  <2>3. wait = least \/ (wait > least /\ (wait - least) * 100 < least * JitterPercent)
    <3> HIDE DEF least
    <3> QED
      BY <1>2, <1>5
  <2>4. ~(kind \notin Retryable \/ TryNumber(n) > MaxRetries \/ (hint # None /\ hint > HintMax))
    BY RetryAssumption DEF TryNumber
  <2> QED
    BY <2>2, <2>3, <2>4 DEF NextWaits
<1> HIDE DEF least
<1>6. \A wait \in NextWaits(n, kind, hint) : (wait - least) * 100 <= least * JitterPercent
  BY <1>4
<1>7. \A wait \in Nat : wait >= least =>
        ((wait - least) * 100 < least * JitterPercent => wait \in NextWaits(n, kind, hint))
  BY <1>5
<1>8. least \in NextWaits(n, kind, hint)
  BY <1>2, <1>5
<1> QED
  BY <1>2, <1>6, <1>7, <1>8 DEF least

\* What the loop holds of a failure, when a provider's answer is one.
LEMMA FailureHeld ==
  ASSUME NEW f \in Failures, ProviderFails(f), ~Over'
  PROVE  /\ pc' = "clock" /\ asker' = "failure" /\ failure' = f /\ now' = now
         /\ f.hint \in Nat \union {None}
  BY FailuresAssumption DEF ProviderFails, Stop, Over, environment

LEMMA WaitsStep == InFlight /\ Typed /\ WaitsLeft /\ [ProviderNext]_allVars => WaitsLeft'
<1> SUFFICES ASSUME InFlight, Typed, WaitsLeft, [ProviderNext]_allVars, ~Over' PROVE WaitsLeft'
  BY DEF WaitsLeft, Over
<1>0. /\ {now, due, attempt} \subseteq Nat /\ pc \in Places
      /\ failure \in Failures \union {NoFailure}
      /\ failure.hint \in Nat \union {None}
  BY FailuresAssumption DEF Typed, TypeOK, NoFailure
<1>1. CASE BodyEnds
  <2> DEFINE answer == exchange.answer
  <2>1. answer \in Answers /\ Heard(answer) \in Told /\ Tells(Heard(answer))
    BY <1>1 DEF BodyEnds, InFlight, Told
  <2>2. notBefore' = IF Succeeds(answer.status) \/ answer.retryAfter = None THEN notBefore
                     ELSE now + answer.retryAfter
    BY <1>1 DEF BodyEnds
  <2>3. pc = "calling" /\ notBefore \in Nat /\ notBefore <= now /\ UNCHANGED now
    BY <1>0, <2>1, TellsIsHeard
       DEF ProviderStep, ProviderResponds, ProviderFails, WaitsLeft, Over, environment
  <2>4. CASE Heard(answer).ok
    <3>1. Succeeds(answer.status)
      BY <2>4 DEF Heard, Classified, Failure
    <3>2. ProviderResponds(Heard(answer).response)
      BY <2>1, <2>4, TellsIsHeard
    <3>3. pc' = "pointR"
      BY <3>2 DEF ProviderResponds, Stop, Over
    <3> QED
      BY <2>2, <2>3, <3>1, <3>3 DEF WaitsLeft
  <2>5. CASE ~Heard(answer).ok
    <3> DEFINE f == Heard(answer).failure
    <3>1. f \in Failures /\ ProviderFails(f)
      BY <2>1, <2>5, TellsIsHeard
    <3>2. /\ pc' = "clock" /\ asker' = "failure" /\ failure' = f
          /\ f.kind \in Retryable
      BY <3>1, FailureHeld DEF ProviderFails, Stop, Over
    <3>3. CASE Succeeds(answer.status) \/ answer.retryAfter = None
      BY <2>2, <2>3, <3>2, <3>3 DEF WaitsLeft
    <3>4. CASE ~(Succeeds(answer.status) \/ answer.retryAfter = None)
      <4>1. f.hint = answer.retryAfter
        <5> DEFINE table == KindOf(answer.status, Says(answer))
        <5>1. Heard(answer) = Classified(answer)
          BY <3>4 DEF Heard
        <5>2. table \in {"context_exhausted", "fatal", "auth", "retryable"}
          BY DEF KindOf
        <5>3. f.kind = "retryable"
          BY <3>2, <5>1, <5>2 DEF Classified, Failure, Retryable
        <5> QED
          BY <5>1, <5>3 DEF Classified, Failure
      <4>2. answer.retryAfter \in Nat
        BY <2>1, <3>4, AnswersAssumption
      <4> QED
        BY <1>0, <2>2, <2>3, <3>2, <3>4, <4>1, <4>2 DEF WaitsLeft, HintHeld
    <3> QED
      BY <3>3, <3>4
  <2> QED
    BY <2>4, <2>5
<1>2. CASE ScriptAnswers
  <2> DEFINE result == exchange.result
  <2>1. result \in Told /\ Tells(result)
    BY <1>2 DEF ScriptAnswers, InFlight
  <2>2. notBefore' = IF result.ok \/ result.failure.hint = None THEN notBefore
                     ELSE now + result.failure.hint
    BY <1>2 DEF ScriptAnswers
  <2>3. pc = "calling" /\ notBefore \in Nat /\ notBefore <= now /\ UNCHANGED now
    BY <1>0, <2>1, TellsIsHeard
       DEF ProviderStep, ProviderResponds, ProviderFails, WaitsLeft, Over, environment
  <2>4. CASE result.ok
    <3>1. pc' = "pointR"
      BY <2>1, <2>4, TellsIsHeard DEF ProviderResponds, Stop, Over
    <3> QED
      BY <2>2, <2>3, <2>4, <3>1 DEF WaitsLeft
  <2>5. CASE ~result.ok
    <3>1. /\ pc' = "clock" /\ asker' = "failure" /\ failure' = result.failure
          /\ result.failure.hint \in Nat \union {None}
      BY <2>1, <2>5, TellsIsHeard, FailureHeld
    <3>2. CASE result.failure.hint = None
      BY <2>2, <2>3, <3>1, <3>2 DEF WaitsLeft
    <3>3. CASE result.failure.hint # None
      BY <1>0, <2>2, <2>3, <2>5, <3>1, <3>3 DEF WaitsLeft, HintHeld
    <3> QED
      BY <3>2, <3>3
  <2> QED
    BY <2>4, <2>5
<1>3. CASE Breaks \/ TimesOut
  <2>1. PICK result \in Told : Tells(result)
    BY <1>3, EndsTold
  <2>2. /\ pc = "calling" /\ notBefore \in Nat /\ notBefore <= now
        /\ UNCHANGED <<now, notBefore>>
    BY <1>0, <1>3, <2>1, TellsIsHeard
       DEF ProviderStep, ProviderResponds, ProviderFails, WaitsLeft, Over, environment, Breaks,
           TimesOut, said
  <2>3. pc' \in {"pointR", "clock"} /\ (pc' = "clock" => asker' = "failure")
    BY <2>1, TellsIsHeard DEF ProviderResponds, ProviderFails, Stop, Over
  <2> QED
    BY <2>2, <2>3 DEF WaitsLeft
<1>4. CASE AttemptBegins
  BY <1>4 DEF AttemptBegins, BeginAttempt, said, environment, WaitsLeft, Over
<1>5. CASE Uncalled
  <2>0. UNCHANGED <<notBefore, now>> /\ ~Over
    BY <1>5 DEF Uncalled, ReadClock, NotAdmitted, AskRetry, WaitEnds, WaitDropped, AfterPointR,
                PointB, Close, Stop, providerVars, said, environment, Over
  <2>1. CASE AskRetry
    <3>1. PICK wait \in NextWaits(attempt, failure.kind, failure.hint) :
             due' = now + wait
      BY <2>1 DEF AskRetry, Stop, Over
    <3>2. pc' = "waiting" /\ (notBefore <= now \/ HintHeld)
      BY <2>1 DEF AskRetry, Stop, Over, WaitsLeft
    <3>3. wait \in Nat
      BY WaitsType
    <3>4. HintHeld => wait >= failure.hint /\ failure.hint \in Nat
      BY <1>0, WaitsAtLeastHint DEF HintHeld
    <3>5. notBefore \in Nat
      BY <2>0 DEF WaitsLeft
    <3>6. notBefore <= due'
      BY <1>0, <3>1, <3>2, <3>3, <3>4, <3>5 DEF HintHeld
    <3> QED
      BY <2>0, <3>2, <3>5, <3>6 DEF WaitsLeft
  <2>2. CASE WaitEnds
    <3>1. notBefore \in Nat /\ notBefore <= now
      BY <1>0, <2>0, <2>2 DEF WaitEnds, WaitsLeft
    <3> QED
      BY <2>0, <2>2, <3>1 DEF WaitEnds, WaitsLeft
  <2>3. CASE ReadClock \/ AfterPointR \/ PointB
    BY <2>0, <2>3 DEF ReadClock, AfterPointR, PointB, Stop, Over, WaitsLeft, HintHeld
  <2>4. CASE NotAdmitted \/ WaitDropped \/ Close
    BY <2>4 DEF NotAdmitted, WaitDropped, Close, Stop, Over
  <2> QED
    BY <1>5, <2>1, <2>2, <2>3, <2>4 DEF Uncalled
<1>6. CASE Around
  <2>1. UNCHANGED notBefore /\ now' \in {now, now + 1} /\ ~Over
    BY <1>6 DEF Around, ToolsAnswer, Tick, Cancel, Done, vars, environment, providerVars, said,
                Over
  <2>2. CASE ToolsAnswer
    BY <1>0, <2>1, <2>2 DEF ToolsAnswer, environment, WaitsLeft
  <2>3. CASE Tick \/ Cancel \/ Done
    <3>1. UNCHANGED <<pc, asker, due, failure>>
      BY <2>3 DEF Tick, Cancel, Done, vars
    <3> QED
      BY <1>0, <2>1, <3>1 DEF WaitsLeft, HintHeld
  <2> QED
    BY <1>6, <2>2, <2>3 DEF Around
<1>7. CASE DropsAttempt
  BY <1>7 DEF DropsAttempt, AttemptDropped, Stop, Over
<1>8. CASE BeginRun \/ HeadersCome \/ UNCHANGED allVars
  <2>1. UNCHANGED <<vars, notBefore>>
    BY <1>8 DEF BeginRun, HeadersCome, allVars, providerVars, said
  <2> QED
    BY <2>1 DEF vars, environment, WaitsLeft, HintHeld, Over
<1> QED
  BY <1>1, <1>2, <1>3, <1>4, <1>5, <1>6, <1>7, <1>8 DEF ProviderNext

\* For every backoff, cap, jitter and hint, no attempt is made before the
\* wait a server asked for has passed, if another is made at all (error.rs
\* classified, retry.rs next, service.rs after_failure).
THEOREM ServerWaitKeptHolds == ProviderSpec => []ServerWaitKept
<1>1. ProviderInit => WaitsLeft
  BY DEF ProviderInit, Init, WaitsLeft
<1>2. Typed /\ WaitsLeft => ServerWaitKept
  <2> SUFFICES ASSUME Typed, WaitsLeft, pc = "calling" PROVE now >= notBefore
    BY DEF ServerWaitKept
  <2>1. now \in Nat /\ notBefore \in Nat /\ notBefore <= now
    BY DEF Typed, TypeOK, WaitsLeft, Over
  <2> QED
    BY <2>1
<1> QED
  BY SafetyOfSpec, ProvidedTyped, InFlightInit, InFlightStep, WaitsStep, <1>1, <1>2, PTL
     DEF ProviderSafety

\* For any answers and any retry policy, what a server says of the next
\* attempt, whether and when, is kept (error.rs classified, service.rs
\* after_failure).
THEOREM ServerHeededHolds == ProviderSpec => []ServerHeeded
<1>1. ServerWaitKept /\ NotAskedAgain => ServerHeeded
  BY DEF ServerHeeded
<1> QED
  BY <1>1, ServerWaitKeptHolds, NotAskedAgainHolds, PTL

-----------------------------------------------------------------------------
(* What's said of the attempts.                                            *)

\* With what's said of it, the loop makes the steps it makes without.
LEMMA ConversationIsLoop == [ConversationNext]_<<vars, telling>> => [Next]_vars
<1> SUFFICES ASSUME [ConversationNext]_<<vars, telling>> PROVE [Next]_vars
  OBVIOUS
<1>1. CASE OpenChat \/ AfterFailure \/ Dropped \/ ResultsCame
  BY <1>1 DEF OpenChat, AfterFailure, Dropped, ResultsCame, Next, LoopStep
<1>2. CASE \E r \in Responses : ResponseCame(r)
  BY <1>2 DEF ResponseCame, Next, ProviderStep
<1>3. CASE \E f \in Failures : AttemptFailed(f)
  BY <1>3 DEF AttemptFailed, Next, ProviderStep
<1>4. CASE Untold
  BY <1>4 DEF Untold, Next, LoopStep
<1>5. CASE UNCHANGED <<vars, telling>>
  BY <1>5
<1> QED
  BY <1>1, <1>2, <1>3, <1>4, <1>5 DEF ConversationNext

\* An attempt has a span as long as the loop doesn't know whether it's the
\* last of its call, and a retry is coming from then to its attempt.
Open == pc = "calling" \/ (pc \in {"clock", "admit"} /\ asker = "failure")
Retrying == pc = "waiting" \/ (pc \in {"clock", "admit"} /\ asker = "retry")

\* The chat that ended last was the last of its call, in a turn before this one.
Closed == chat = NoChat \/ (~chat.retries /\ chat.turn \in 1..Len(turns))

\* What's open is the attempt of the turn after the last, and the chat that
\* ended before it announced it, unless it's the first of its call; and what
\* was announced is dropped by the cancellation or the clock alone, since the
\* tokens were asked about before it was.
Announced ==
  /\ opened # NoChat <=> Open
  /\ Open =>
       /\ opened.turn = Len(turns) + 1 /\ opened.attempt = attempt
       /\ IF attempt = 1 THEN Closed
          ELSE chat.retries /\ chat.turn = Len(turns) + 1 /\ chat.attempt + 1 = attempt
  /\ Retrying =>
       /\ chat.retries /\ chat.turn = Len(turns) + 1 /\ chat.attempt = attempt
       /\ ~Reached(MaxTotalTokens, Spent)
  /\ (pc \in {"clock", "admit"} /\ asker = "call") \/ pc = "pointB" => Closed
  /\ pc \in {"pointR", "tools"} => ~chat.retries /\ chat.turn = Len(turns) + 1
  /\ Over /\ chat # NoChat /\ chat.retries =>
       stopped.reason = "cancelled" \/ (stopped.reason = "timeout" /\ at >= Timeout)

LEMMA AnnouncedInit == ConversationInit => Announced
  BY DEF ConversationInit, Init, RecordInit, Announced, Open, Retrying, Closed, Over

\* What a chat span says as it ends.
LEMMA EndChatSays ==
  ASSUME NEW told, NEW status, NEW retries, EndChat(told, status, retries)
  PROVE  /\ chat'.turn = opened.turn /\ chat'.attempt = opened.attempt
         /\ chat'.sent = opened.sent /\ chat'.input = told.messages
         /\ chat'.retries = retries
         /\ opened' = NoChat /\ UNCHANGED measure
  BY DEF EndChat

LEMMA AnnouncedStep ==
  Typed /\ Counts /\ Tallied /\ Announced /\ [ConversationNext]_<<vars, telling>> => Announced'
<1> SUFFICES ASSUME Typed, Counts, Tallied, Announced, [ConversationNext]_<<vars, telling>>
             PROVE  Announced'
  OBVIOUS
<1> USE DEF Open, Retrying, Closed
<1>0. /\ turns \in Seq(Turns) /\ Len(turns) \in Nat
      /\ {now, at, attempt, failedAttempts} \subseteq Nat
      /\ NoChat.turn = 0
  BY LenProperties DEF Typed, TypeOK, RecordTypeOK, NoChat
<1>1. CASE OpenChat
  <2>1. /\ pc = "admit" /\ asker # "failure" /\ pc' = "calling"
        /\ attempt' = IF asker = "call" THEN 1 ELSE attempt + 1
        /\ UNCHANGED <<turns, asker, chat>>
        /\ opened'.turn = Len(turns) + 1 /\ opened'.attempt = attempt'
    BY <1>1 DEF OpenChat, BeginAttempt, recordVars
  <2>2. opened' # NoChat
    BY <1>0, <2>1
  <2>3. asker \in {"call", "retry"}
    BY <2>1 DEF Typed, TypeOK
  <2>4. asker = "retry" => attempt >= 1
    BY <2>1, <2>3 DEF Counts, Tallied
  <2> QED
    BY <1>0, <2>1, <2>2, <2>3, <2>4 DEF Announced, Over
<1>2. ASSUME NEW r \in Responses, ResponseCame(r) PROVE Announced'
  <2>1. /\ pc = "calling" /\ pc' \in {"pointR", "stopping"}
        /\ UNCHANGED <<turns, asker, attempt>>
    BY <1>2 DEF ResponseCame, ProviderResponds, Responded, Stop
  <2>2. chat'.retries = FALSE /\ chat'.turn = opened.turn /\ opened' = NoChat
    BY <1>2 DEF ResponseCame, EndChat
  <2> QED
    BY <1>0, <2>1, <2>2 DEF Announced, Over
<1>3. ASSUME NEW f \in Failures, AttemptFailed(f) PROVE Announced'
  <2>1. pc = "calling" /\ UNCHANGED <<turns, attempt>>
    BY <1>3 DEF AttemptFailed, ProviderFails, FailedAttempt
  <2>2. CASE f.kind \in Retryable
    <3>1. pc' = "clock" /\ asker' = "failure" /\ UNCHANGED <<opened, chat>>
      BY <1>3, <2>2 DEF AttemptFailed, ProviderFails, telling
    <3> QED
      BY <1>0, <2>1, <3>1 DEF Announced, Over
  <2>3. CASE f.kind \notin Retryable
    <3>1. pc' = "stopping" /\ chat'.retries = FALSE /\ opened' = NoChat
      BY <1>3, <2>3 DEF AttemptFailed, ProviderFails, Stop, Unanswered, EndChat
    <3> QED
      BY <3>1 DEF Announced, Over
  <2> QED
    BY <2>2, <2>3
<1>4. CASE AfterFailure
  <2>1. /\ asker = "failure" /\ pc = "admit" /\ pc' \in {"waiting", "stopping"}
        /\ UNCHANGED <<recordVars, asker, attempt>>
        /\ pc' = "waiting" => AdmitReason = GoOn
    BY <1>4 DEF AfterFailure, NotAdmitted, AskRetry, Stop
  <2>2. /\ chat'.retries = (pc' = "waiting") /\ opened' = NoChat
        /\ chat'.turn = opened.turn /\ chat'.attempt = opened.attempt
    BY <1>4 DEF AfterFailure, Unanswered, EndChat, RetryFollows
  <2>3. AdmitReason = GoOn => ~Reached(MaxTotalTokens, Spent)
    BY DEF AdmitReason, BeforeCall, LimitReached, Progress, GoOn
  <2>4. Spent' = Spent
    BY <2>1 DEF Spent, recordVars
  <2>5. UNCHANGED turns
    BY <2>1 DEF recordVars
  <2> QED
    BY <1>0, <2>1, <2>2, <2>3, <2>4, <2>5 DEF Announced, Over
<1>5. CASE Dropped
  <2>1. pc' = "stopping" /\ chat'.retries = FALSE /\ opened' = NoChat
    BY <1>5 DEF Dropped, AttemptDropped, Stop, Unanswered, EndChat
  <2> QED
    BY <2>1 DEF Announced, Over
<1>6. CASE ResultsCame
  <2>1. /\ pc = "tools" /\ pc' = "pointB" /\ UNCHANGED <<asker, attempt, opened, chat>>
        /\ \E turn : turns' = Append(turns, turn)
    BY <1>6 DEF ResultsCame, ToolsAnswer, Answered
  <2>2. Len(turns') = Len(turns) + 1
    BY <1>0, <2>1
  <2> QED
    BY <1>0, <2>1, <2>2 DEF Announced, Over
<1>7. CASE Untold
  <2>0. UNCHANGED <<opened, chat>>
    BY <1>7 DEF Untold, telling
  <2>1. CASE ReadClock
    <3>1. pc = "clock" /\ pc' = "admit" /\ UNCHANGED <<recordVars, asker, attempt>>
      BY <2>1 DEF ReadClock
    <3> QED
      BY <2>0, <3>1 DEF Announced, Over, Spent, recordVars
  <2>2. CASE asker # "failure" /\ NotAdmitted
    <3>1. /\ pc = "admit" /\ pc' = "stopping" /\ asker # "failure"
          /\ UNCHANGED <<recordVars, asker, at, attempt>>
          /\ AdmitReason # GoOn /\ stopped'.reason = AdmitReason
      BY <2>2 DEF NotAdmitted, Stop
    <3>2. AdmitReason # GoOn /\ ~Reached(MaxTotalTokens, Spent) =>
            AdmitReason = "cancelled" \/ (AdmitReason = "timeout" /\ TimeLeft(at) = 0)
      BY DEF AdmitReason, BeforeCall, LimitReached, Progress, GoOn
    <3>3. TimeLeft(at) = 0 => at >= Timeout
      BY <1>0, LimitsAssumption DEF TimeLeft
    <3>4. asker \in {"call", "retry"}
      BY <3>1 DEF Typed, TypeOK
    <3> QED
      BY <2>0, <3>1, <3>2, <3>3, <3>4 DEF Announced, Over
  <2>3. CASE WaitEnds
    <3>1. /\ pc = "waiting" /\ pc' = "clock" /\ asker' = "retry"
          /\ UNCHANGED <<recordVars, attempt>>
      BY <2>3 DEF WaitEnds
    <3> QED
      BY <2>0, <3>1 DEF Announced, Over, Spent, recordVars
  <2>4. CASE WaitDropped
    <3>1. pc = "waiting" /\ pc' = "stopping" /\ stopped'.reason = "cancelled"
      BY <2>4 DEF WaitDropped, Stop
    <3> QED
      BY <2>0, <3>1 DEF Announced, Over
  <2>5. CASE AfterPointR
    <3>1. /\ pc = "pointR" /\ pc' \in {"tools", "stopping"}
          /\ UNCHANGED <<turns, asker, attempt>>
      BY <2>5 DEF AfterPointR, Stop, recordVars
    <3> QED
      BY <2>0, <3>1 DEF Announced, Over
  <2>6. CASE PointB
    <3>1. /\ pc = "pointB" /\ UNCHANGED <<turns, attempt>>
          /\ \/ pc' = "clock" /\ asker' = "call"
             \/ pc' = "stopping"
      BY <2>6 DEF PointB, Stop, recordVars
    <3> QED
      BY <2>0, <3>1 DEF Announced, Over
  <2>7. CASE Close
    <3>1. pc = "stopping" /\ pc' = "done" /\ UNCHANGED <<stopped, at>>
      BY <2>7 DEF Close
    <3> QED
      BY <2>0, <3>1 DEF Announced, Over
  <2>8. CASE Tick \/ Cancel \/ Done
    <3>1. UNCHANGED <<recordVars, pc, asker, at, attempt, stopped>>
      BY <2>8 DEF Tick, Cancel, Done, vars
    <3> QED
      BY <2>0, <3>1 DEF Announced, Over, Spent, recordVars
  <2> QED
    BY <1>7, <2>1, <2>2, <2>3, <2>4, <2>5, <2>6, <2>7, <2>8 DEF Untold
<1>8. CASE UNCHANGED <<vars, telling>>
  BY <1>8 DEF vars, telling, recordVars, Announced, Over, Spent
<1> QED
  BY <1>1, <1>2, <1>3, <1>4, <1>5, <1>6, <1>7, <1>8 DEF ConversationNext

LEMMA AnnouncedHolds == Typed /\ Announced => RetryAnnounced
<1> SUFFICES ASSUME Typed, Announced PROVE RetryAnnounced
  OBVIOUS
<1>1. Len(turns) \in Nat
  BY LenProperties DEF Typed, TypeOK, RecordTypeOK
<1> QED
  BY <1>1 DEF Announced, RetryAnnounced, Open, Closed

\* What the record's and the loop's own invariants say, all of the time.
LoopInv == Typed /\ RecordInv /\ Counts /\ Tallied /\ Sent

LEMMA LoopInvInit == Init => LoopInv
<1> SUFFICES ASSUME Init PROVE LoopInv
  OBVIOUS
<1>1. Typed
  BY TypedInit
<1>2. RecordInv
  BY RecordInvInit DEF Init
<1>3. Counts /\ Sent
  BY DEF Init, RecordInit, Counts, AttemptNumbers, Sent, Clean
<1>4. Tallied
  BY BeyondEmpty DEF Init, RecordInit, Tallied, OfHeld, OfCall
<1> QED
  BY <1>1, <1>2, <1>3, <1>4 DEF LoopInv

LEMMA LoopInvStep == LoopInv /\ [Next]_vars => LoopInv'
  BY TypedStep, ImplementsRecordStep, RecordInvStep, CountsStep, TalliedStep, SentStep
     DEF LoopInv

\* What's said of the attempts changes nothing of the run: with it the loop
\* is the loop, so what's proved of the one holds of the other.
THEOREM ConversationIsRun == ConversationSpec => Spec
<1>1. ConversationInit => Init
  BY DEF ConversationInit
<1> QED
  BY <1>1, ConversationIsLoop, PTL DEF ConversationSpec, Spec

\* A retry is announced by the attempt before it and by no other, whatever the
\* provider, the clock and the cancellation do between the two; and one that
\* was announced comes, unless the run was cancelled or its time passed
\* (service.rs attempt_failed, after_failure).
THEOREM RetryAlwaysAnnounced == ConversationSpec => []RetryAnnounced
<1>1. ConversationInit => Init
  BY DEF ConversationInit
<1>2. LoopInv => Typed /\ Counts /\ Tallied
  BY DEF LoopInv
<1> QED
  BY <1>1, <1>2, LoopInvInit, LoopInvStep, ConversationIsLoop, AnnouncedInit, AnnouncedStep,
     AnnouncedHolds, PTL DEF ConversationSpec

\* The sequences that pieces join into, one after another.
Joins(f, pieces, n, S) ==
  f \in [0..n -> Seq(S)] /\ f[0] = <<>> /\ \A i \in 1..n : f[i] = f[i - 1] \o pieces[i]

LEMMA JoinsDefined ==
  ASSUME NEW n \in Nat, NEW S, NEW pieces \in [1..n -> Seq(S)]
  PROVE  \E f : Joins(f, pieces, n, S)
<1> DEFINE goes == [i \in 1..n |-> [x \in Seq(S) |-> x \o pieces[i]]]
<1>1. \A i \in 1..n : \A x \in Seq(S) : goes[i][x] = x \o pieces[i] /\ goes[i][x] \in Seq(S)
  OBVIOUS
<1> HIDE DEF goes
<1>2. Stays(goes, n, Seq(S)) /\ <<>> \in Seq(S)
  BY <1>1 DEF Stays
<1>3. PICK f : Follows(f, goes, n, Seq(S), <<>>)
  BY <1>2, RecursionDefined
<1>4. f \in [0..n -> Seq(S)] /\ f[0] = <<>> /\ \A i \in 1..n : f[i] = goes[i][f[i - 1]]
  BY <1>3 DEF Follows
<1>5. \A i \in 1..n : f[i - 1] \in Seq(S)
  BY <1>4
<1>6. \A i \in 1..n : f[i] = f[i - 1] \o pieces[i]
  BY <1>1, <1>4, <1>5
<1> QED
  BY <1>4, <1>6 DEF Joins

-----------------------------------------------------------------------------
(* The request.                                                            *)

ResultSet == [id : Nat, status : Status]
Message == [role : {"user"}, results : Seq(ResultSet), input : BOOLEAN]
           \union [role : {"assistant"}, calls : Seq(Calls)]

User(results, in) == [role |-> "user", results |-> results, input |-> in]

\* What the i-th turn of some answers with its user's message, and the messages
\* those turns make.
ResultsFor(t, i) == IF i = 1 THEN <<>> ELSE Results(t[i - 1])

Before(t) ==
  LET results(i) == IF i = 0 THEN <<>> ELSE Results(t[i])
      before[i \in 0..Len(t)] ==
        IF i = 0 THEN <<>>
        ELSE before[i - 1] \o PushUser(results(i - 1), t[i].input) \o <<Assistant(t[i].calls)>>
  IN  before[Len(t)]

\* Every turn answers something, the one that comes next too.
Fed(t) == \A i \in 1..Len(t) : t[i].input \/ ResultsFor(t, i) # <<>>
NextFed(t, in) == in \/ ResultsFor(t, Len(t) + 1) # <<>>

\* The messages of the first n turns, each a user's and then a response.
Exchanged(m, t, n) ==
  /\ m \in Seq(Message) /\ Len(m) = 2 * n
  /\ \A i \in 1..n : /\ m[2 * i - 1] = User(ResultsFor(t, i), t[i].input)
                     /\ m[2 * i] = Assistant(t[i].calls)

\* And with the one the next turn answers.
Asks(m, t, in) ==
  LET n == Len(t)
  IN  /\ m \in Seq(Message) /\ Len(m) = 2 * n + 1
      /\ \A i \in 1..n : /\ m[2 * i - 1] = User(ResultsFor(t, i), t[i].input)
                         /\ m[2 * i] = Assistant(t[i].calls)
      /\ m[2 * n + 1] = User(ResultsFor(t, n + 1), in)

LEMMA ResultsType ==
  ASSUME NEW turn \in Turns
  PROVE  /\ Results(turn) \in Seq(ResultSet) /\ Len(Results(turn)) = Len(turn.outcomes)
         /\ \A j \in 1..Len(turn.outcomes) :
              Results(turn)[j] = [id |-> j, status |-> turn.outcomes[j]]
         /\ turn.outcomes # <<>> => Results(turn) # <<>>
<1>1. turn.outcomes \in Seq(Status)
  BY DEF Turns
<1>2. /\ Len(turn.outcomes) \in Nat /\ DOMAIN turn.outcomes = 1..Len(turn.outcomes)
      /\ \A j \in 1..Len(turn.outcomes) : turn.outcomes[j] \in Status
  BY <1>1
<1>3. Results(turn) = [j \in 1..Len(turn.outcomes) |-> [id |-> j, status |-> turn.outcomes[j]]]
  BY <1>2 DEF Results
<1>4. \A j \in 1..Len(turn.outcomes) : [id |-> j, status |-> turn.outcomes[j]] \in ResultSet
  BY <1>2 DEF ResultSet
<1>5. Results(turn) \in Seq(ResultSet) /\ Len(Results(turn)) = Len(turn.outcomes)
  BY <1>2, <1>3, <1>4
<1>6. turn.outcomes # <<>> => Len(turn.outcomes) # 0
  BY <1>1
<1> QED
  BY <1>2, <1>3, <1>5, <1>6

LEMMA ResultsForType ==
  ASSUME NEW t \in Seq(Turns), NEW i \in 1..Len(t) + 1
  PROVE  ResultsFor(t, i) \in Seq(ResultSet)
<1>1. CASE i = 1
  BY <1>1 DEF ResultsFor
<1>2. CASE i # 1
  <2>1. i - 1 \in 1..Len(t)
    BY <1>2
  <2>2. t[i - 1] \in Turns
    BY <2>1
  <2> QED
    BY <1>2, <2>2, ResultsType DEF ResultsFor
<1> QED
  BY <1>1, <1>2

LEMMA MessageTypes ==
  /\ \A r \in Seq(ResultSet) : \A in \in BOOLEAN : User(r, in) \in Message
  /\ \A c \in Seq(Calls) : Assistant(c) \in Message
  BY DEF User, Assistant, Message

LEMMA OneMore ==
  ASSUME NEW S, NEW m \in Seq(S), NEW u \in S
  PROVE  LET w == m \o <<u>>
         IN  /\ w \in Seq(S) /\ Len(w) = Len(m) + 1
             /\ \A k \in 1..Len(m) : w[k] = m[k]
             /\ w[Len(m) + 1] = u
  OBVIOUS

LEMMA PushUserIs ==
  ASSUME NEW r, NEW in, in \/ r # <<>>
  PROVE  PushUser(r, in) = <<User(r, in)>>
  BY DEF PushUser, User

\* The messages of some turns are their exchanges, when each turn answers
\* something.
LEMMA BeforeIs ==
  ASSUME NEW t \in Seq(Turns), Fed(t)
  PROVE  Exchanged(Before(t), t, Len(t))
<1> DEFINE n == Len(t)
           piece(i) == <<User(ResultsFor(t, i), t[i].input)>> \o <<Assistant(t[i].calls)>>
           pieces == [i \in 1..n |-> piece(i)]
           results(i) == IF i = 0 THEN <<>> ELSE Results(t[i])
           goes(x, i) == x \o PushUser(results(i - 1), t[i].input) \o <<Assistant(t[i].calls)>>
           b == CHOOSE b : b = [i \in 0..n |-> IF i = 0 THEN <<>> ELSE goes(b[i - 1], i)]
<1>0. n \in Nat /\ n \in 0..n
  BY LenProperties
<1>1. ASSUME NEW i \in 1..n
      PROVE  /\ User(ResultsFor(t, i), t[i].input) \in Message
             /\ Assistant(t[i].calls) \in Message
             /\ PushUser(results(i - 1), t[i].input) = <<User(ResultsFor(t, i), t[i].input)>>
  <2>1. t[i] \in Turns
    OBVIOUS
  <2>2. t[i].input \in BOOLEAN /\ t[i].calls \in Seq(Calls)
    BY <2>1 DEF Turns
  <2>3. ResultsFor(t, i) \in Seq(ResultSet)
    BY <1>0, ResultsForType
  <2>4. results(i - 1) = ResultsFor(t, i)
    BY <1>0 DEF ResultsFor
  <2>5. t[i].input \/ ResultsFor(t, i) # <<>>
    BY DEF Fed
  <2> HIDE DEF results
  <2> QED
    BY <2>2, <2>3, <2>4, <2>5, MessageTypes, PushUserIs
<1>2. pieces \in [1..n -> Seq(Message)]
  <2>1. ASSUME NEW i \in 1..n PROVE piece(i) \in Seq(Message)
    BY <1>1
  <2> HIDE DEF piece
  <2> QED
    BY <2>1
<1>3. PICK f : Joins(f, pieces, n, Message)
  <2> HIDE DEF pieces, n
  <2> QED
    BY <1>0, <1>2, JoinsDefined
<1>4. f \in [0..n -> Seq(Message)] /\ f[0] = <<>>
  BY <1>3 DEF Joins
<1>5. ASSUME NEW i \in 1..n
      PROVE  f[i] = goes(f[i - 1], i)
  <2>1. f[i] = f[i - 1] \o piece(i) /\ f[i - 1] \in Seq(Message)
    <3>1. pieces[i] = piece(i)
      OBVIOUS
    <3>2. i - 1 \in 0..n
      BY <1>0
    <3> HIDE DEF pieces, piece, n
    <3> QED
      BY <1>3, <1>4, <3>1, <3>2 DEF Joins
  <2> DEFINE u == User(ResultsFor(t, i), t[i].input)
             a == Assistant(t[i].calls)
  <2>2. <<u>> \in Seq(Message) /\ <<a>> \in Seq(Message)
    BY <1>1
  <2>3. PushUser(results(i - 1), t[i].input) = <<u>>
    BY <1>1
  <2>4. (f[i - 1] \o <<u>>) \o <<a>> = f[i - 1] \o (<<u>> \o <<a>>)
    <3> HIDE DEF u, a
    <3> QED
      BY <2>1, <2>2, ConcatAssociative
  <2> HIDE DEF results
  <2> QED
    BY <2>1, <2>3, <2>4
<1>6. f = [i \in 0..n |-> IF i = 0 THEN <<>> ELSE goes(f[i - 1], i)]
  <2> HIDE DEF goes, n
  <2> QED
    BY <1>0, <1>4, <1>5
<1>7. b = [i \in 0..n |-> IF i = 0 THEN <<>> ELSE goes(b[i - 1], i)]
  <2> HIDE DEF goes
  <2> QED
    BY <1>6
<1>8. \A i \in 0..n : f[i] = b[i]
  <2>1. f[0] = b[0]
    <3> HIDE DEF b, n, goes
    <3> QED
      BY <1>0, <1>4, <1>7
  <2>2. \A i \in 1..n : f[i - 1] = b[i - 1] => f[i] = b[i]
    <3> HIDE DEF b, n, goes
    <3> QED
      BY <1>0, <1>5, <1>7
  <2> HIDE DEF b, n
  <2> DEFINE T == {i \in 0..n : f[i] = b[i]}
  <2>8. 0 \in T /\ \A i \in 1..n : i - 1 \in T => i \in T
    BY <1>0, <2>1, <2>2
  <2>9. 0..n \subseteq T
    <3> HIDE DEF T
    <3> QED
      BY ONLY <1>0, <2>8, Inductive, ZenonT(60)
  <2> QED
    BY <2>9
<1>9. Before(t) = b[n]
  BY DEF Before
<1>10. Before(t) = f[n]
  <2> HIDE DEF b, n
  <2> QED
    BY <1>0, <1>8, <1>9
<1>11. \A i \in 0..n : Exchanged(f[i], t, i)
  <2> DEFINE T == {i \in 0..n : Exchanged(f[i], t, i)}
  <2>1. 0 \in T
    BY <1>0, <1>4 DEF Exchanged
  <2>2. ASSUME NEW i \in 1..n, i - 1 \in T PROVE i \in T
    <3> DEFINE m == f[i - 1]
               u == User(ResultsFor(t, i), t[i].input)
               a == Assistant(t[i].calls)
    <3>1. m \in Seq(Message) /\ Len(m) = 2 * (i - 1) /\ i \in Nat
      BY <1>0, <2>2 DEF Exchanged
    <3>2. f[i] = (m \o <<u>>) \o <<a>>
      BY <1>1, <1>5
    <3>3. u \in Message /\ a \in Message
      BY <1>1
    <3>4. \A k \in 1..i - 1 : m[2 * k - 1] = User(ResultsFor(t, k), t[k].input)
                              /\ m[2 * k] = Assistant(t[k].calls)
      BY <2>2 DEF Exchanged
    <3> HIDE DEF m
    <3>5. /\ m \o <<u>> \in Seq(Message) /\ Len(m \o <<u>>) = Len(m) + 1
          /\ \A k \in 1..Len(m) : (m \o <<u>>)[k] = m[k]
          /\ (m \o <<u>>)[Len(m) + 1] = u
      <4> HIDE DEF u
      <4> QED
        BY <3>1, <3>3, OneMore
    <3>6. /\ f[i] \in Seq(Message) /\ Len(f[i]) = Len(m) + 2
          /\ \A k \in 1..Len(m) + 1 : f[i][k] = (m \o <<u>>)[k]
          /\ f[i][Len(m) + 2] = a
      <4> DEFINE w == m \o <<u>>
      <4> HIDE DEF u, a, w
      <4>1. /\ w \o <<a>> \in Seq(Message) /\ Len(w \o <<a>>) = Len(w) + 1
            /\ \A k \in 1..Len(w) : (w \o <<a>>)[k] = w[k]
            /\ (w \o <<a>>)[Len(w) + 1] = a
        BY <3>3, <3>5, OneMore DEF w
      <4>2. Len(w) = Len(m) + 1 /\ f[i] = w \o <<a>>
        BY <3>2, <3>5 DEF w
      <4>3. Len(m) + 1 + 1 = Len(m) + 2
        BY <3>1
      <4> QED
        BY <4>1, <4>2, <4>3 DEF w
    <3>7. ASSUME NEW k \in 1..i
          PROVE  f[i][2 * k - 1] = User(ResultsFor(t, k), t[k].input)
                 /\ f[i][2 * k] = Assistant(t[k].calls)
      <4>1. CASE k = i
        <5>1. 2 * k - 1 = Len(m) + 1 /\ 2 * k = Len(m) + 2
          BY <3>1, <4>1
        <5> QED
          BY <3>1, <3>5, <3>6, <4>1, <5>1
      <4>2. CASE k # i
        <5>1. k \in 1..i - 1 /\ 2 * k - 1 \in 1..Len(m) /\ 2 * k \in 1..Len(m)
          BY <3>1, <4>2
        <5>2. 2 * k - 1 \in 1..Len(m) + 1 /\ 2 * k \in 1..Len(m) + 1
          BY <3>1, <5>1
        <5> HIDE DEF u, a
        <5> QED
          BY <3>4, <3>5, <3>6, <5>1, <5>2
      <4> QED
        BY <4>1, <4>2
    <3>8. Exchanged(f[i], t, i)
      BY <3>1, <3>6, <3>7 DEF Exchanged
    <3> QED
      BY <3>8
  <2>3. 0..n \subseteq T
    <3> HIDE DEF T, n
    <3> QED
      BY <1>0, <2>1, <2>2, Inductive
  <2> QED
    BY <2>3
<1> HIDE DEF n, b, pieces, results
<1> QED
  BY <1>0, <1>10, <1>11 DEF n

LEMMA MessagesAre ==
  ASSUME turns \in Seq(Turns)
  PROVE  Messages = Before(turns) \o PushUser(ResultsFor(turns, Len(turns) + 1), input)
<1>1. Len(turns) \in Nat
  BY LenProperties
<1>2. ResultsFor(turns, Len(turns) + 1) =
        IF Len(turns) = 0 THEN <<>> ELSE Results(turns[Len(turns)])
  BY <1>1 DEF ResultsFor
<1> QED
  BY <1>2 DEF Messages, Before

LEMMA MessagesAsk ==
  ASSUME turns \in Seq(Turns), input \in BOOLEAN, Fed(turns), NextFed(turns, input)
  PROVE  Asks(Messages, turns, input)
<1> DEFINE n == Len(turns)
           u == User(ResultsFor(turns, n + 1), input)
<1>0. n \in Nat
  BY LenProperties
<1>1. Exchanged(Before(turns), turns, n)
  BY BeforeIs
<1>2. Messages = Before(turns) \o <<u>>
  BY MessagesAre, PushUserIs DEF NextFed
<1>3. u \in Message
  BY <1>0, MessageTypes, ResultsForType
<1>4. Before(turns) \in Seq(Message) /\ Len(Before(turns)) = 2 * n
  BY <1>1 DEF Exchanged
<1> HIDE DEF u
<1>5. /\ Messages \in Seq(Message) /\ Len(Messages) = 2 * n + 1 /\ Messages[2 * n + 1] = u
      /\ \A k \in 1..2 * n : Messages[k] = Before(turns)[k]
  <2> DEFINE m == Before(turns)
  <2>1. m \in Seq(Message) /\ Len(m) = 2 * n
    BY <1>4
  <2>2. Messages = m \o <<u>>
    BY <1>2
  <2> HIDE DEF m, n
  <2>3. /\ m \o <<u>> \in Seq(Message) /\ Len(m \o <<u>>) = Len(m) + 1
        /\ \A k \in 1..Len(m) : (m \o <<u>>)[k] = m[k]
        /\ (m \o <<u>>)[Len(m) + 1] = u
    BY <1>3, <2>1, OneMore
  <2> QED
    BY <2>1, <2>2, <2>3 DEF m
<1>6. \A i \in 1..n : 2 * i - 1 \in 1..2 * n /\ 2 * i \in 1..2 * n
  BY <1>0
<1> HIDE DEF n
<1> QED
  BY <1>1, <1>5, <1>6 DEF Asks, Exchanged, u, n

Block == [kind : {"text", "tool_use", "tool_result"}, id : Nat]

LEMMA UserParam ==
  ASSUME NEW r \in Seq(ResultSet), NEW in \in BOOLEAN
  PROVE  LET content == MessageParam(User(r, in)).content
         IN  /\ MessageParam(User(r, in)).role = "user"
             /\ content \in Seq(Block) /\ Len(content) = Len(r) + (IF in THEN 1 ELSE 0)
             /\ \A j \in 1..Len(r) :
                  j \in DOMAIN content /\ content[j] = [kind |-> "tool_result", id |-> r[j].id]
             /\ \A j \in DOMAIN content : j \in 1..Len(r) \/ content[j].kind = "text"
<1> DEFINE content == MessageParam(User(r, in)).content
           blocks == ToolResult(r)
<1>1. /\ MessageParam(User(r, in)).role = "user"
      /\ content = blocks \o (IF in THEN <<[kind |-> "text", id |-> 0]>> ELSE <<>>)
  BY DEF MessageParam, User
<1>2. Len(r) \in Nat /\ DOMAIN r = 1..Len(r) /\ \A j \in 1..Len(r) : r[j] \in ResultSet
  OBVIOUS
<1>3. \A j \in 1..Len(r) : [kind |-> "tool_result", id |-> r[j].id] \in Block
  BY <1>2 DEF Block, ResultSet
<1>4. blocks = [j \in 1..Len(r) |-> [kind |-> "tool_result", id |-> r[j].id]]
  BY <1>2 DEF ToolResult
<1>5. blocks \in Seq(Block) /\ Len(blocks) = Len(r)
      /\ \A j \in 1..Len(r) : blocks[j] = [kind |-> "tool_result", id |-> r[j].id]
  BY <1>2, <1>3, <1>4
<1>6. [kind |-> "text", id |-> 0] \in Block
  BY DEF Block
<1> HIDE DEF blocks, content
<1>7. CASE in
  <2> DEFINE x == [kind |-> "text", id |-> 0]
  <2>0. content = blocks \o <<x>> /\ x \in Block /\ x.kind = "text"
    BY <1>1, <1>6, <1>7
  <2> HIDE DEF x
  <2>1. /\ content \in Seq(Block) /\ Len(content) = Len(blocks) + 1
        /\ \A k \in 1..Len(blocks) : content[k] = blocks[k]
        /\ content[Len(blocks) + 1] = x
    <3>1. /\ blocks \o <<x>> \in Seq(Block) /\ Len(blocks \o <<x>>) = Len(blocks) + 1
          /\ \A k \in 1..Len(blocks) : (blocks \o <<x>>)[k] = blocks[k]
          /\ (blocks \o <<x>>)[Len(blocks) + 1] = x
      BY <1>5, <2>0, OneMore
    <3> QED
      BY <2>0, <3>1
  <2>2. DOMAIN content = 1..Len(r) + 1
    BY <1>5, <2>1
  <2>3. /\ \A j \in 1..Len(r) :
             j \in DOMAIN content /\ content[j] = [kind |-> "tool_result", id |-> r[j].id]
        /\ \A j \in DOMAIN content : j \in 1..Len(r) \/ j = Len(r) + 1
    BY <1>2, <1>5, <2>1, <2>2
  <2> QED
    BY <1>1, <1>5, <1>7, <2>0, <2>1, <2>3 DEF content
<1>8. CASE ~in
  <2>1. content = blocks
    BY <1>1, <1>5, <1>8, ConcatEmptySeq
  <2>2. DOMAIN content = 1..Len(r)
    BY <1>5, <2>1
  <2> QED
    BY <1>1, <1>2, <1>5, <1>8, <2>1, <2>2 DEF content
<1> QED
  BY <1>7, <1>8

LEMMA AssistantParam ==
  ASSUME NEW calls \in Seq(Calls)
  PROVE  LET content == MessageParam(Assistant(calls)).content
         IN  /\ MessageParam(Assistant(calls)).role = "assistant"
             /\ DOMAIN content = 1..Len(calls)
             /\ \A j \in 1..Len(calls) : content[j].id = j
<1>1. DOMAIN calls = 1..Len(calls)
  OBVIOUS
<1> QED
  BY <1>1 DEF MessageParam, Assistant, ToolUse

\* Each number is twice one or one before twice one.
LEMMA Halves ==
  ASSUME NEW n \in Nat, NEW k \in 1..2 * n + 1
  PROVE  \/ \E i \in 1..n : k = 2 * i /\ k % 2 = 0
         \/ \E i \in 1..n + 1 : k = 2 * i - 1 /\ k % 2 = 1
<1>1. k % 2 = 0 => k = 2 * (k \div 2) /\ k \div 2 \in 1..n
  OBVIOUS
<1>2. k % 2 = 1 => k = 2 * ((k + 1) \div 2) - 1 /\ (k + 1) \div 2 \in 1..n + 1
  OBVIOUS
<1> QED
  BY <1>1, <1>2

\* The calls of every turn have their outcomes.
Resulted(t) ==
  \A i \in 1..Len(t) : t[i].outcomes # <<>> /\ Len(t[i].outcomes) = Len(t[i].calls)

LEMMA AsksAnswered ==
  ASSUME NEW t \in Seq(Turns), NEW in \in BOOLEAN, NEW m, Asks(m, t, in), Resulted(t),
         NextFed(t, in)
  PROVE  LET sent == RequestMessages(m)
             calls(i) == IF i = 0 THEN <<>> ELSE sent[i].content
             answers(i, j) == sent[i].content[j].kind = "tool_result"
         IN  /\ \A i \in DOMAIN sent : sent[i].role = (IF i % 2 = 1 THEN "user" ELSE "assistant")
             /\ \A i \in DOMAIN sent : sent[i].role = "user" =>
                  /\ \A j \in DOMAIN calls(i - 1) :
                       /\ j \in DOMAIN sent[i].content /\ answers(i, j)
                       /\ sent[i].content[j].id = calls(i - 1)[j].id
                  /\ \A j \in DOMAIN sent[i].content : answers(i, j) => j \in DOMAIN calls(i - 1)
             /\ Marked(sent)
<1> DEFINE n == Len(t)
           sent == RequestMessages(m)
           calls(i) == IF i = 0 THEN <<>> ELSE sent[i].content
           results(i) == ResultsFor(t, i)
           inputOf(i) == IF i = n + 1 THEN in ELSE t[i].input
<1>0. n \in Nat /\ \A i \in 1..n : t[i] \in Turns
  OBVIOUS
<1>1. Len(m) = 2 * n + 1 /\ DOMAIN m = 1..2 * n + 1
  BY <1>0 DEF Asks
<1>2. /\ DOMAIN sent = 1..2 * n + 1
      /\ \A k \in 1..2 * n + 1 : sent[k] = MessageParam(m[k])
  BY <1>1 DEF RequestMessages
<1>3. ASSUME NEW i \in 1..n + 1
      PROVE  sent[2 * i - 1] = MessageParam(User(results(i), inputOf(i)))
             /\ results(i) \in Seq(ResultSet) /\ inputOf(i) \in BOOLEAN
  <2>1. 2 * i - 1 \in 1..2 * n + 1
    BY <1>0
  <2>2. m[2 * i - 1] = User(results(i), inputOf(i))
    <3>1. CASE i = n + 1
      <4>1. 2 * i - 1 = 2 * n + 1
        BY <1>0, <3>1
      <4> QED
        BY <3>1, <4>1 DEF Asks
    <3>2. CASE i # n + 1
      BY <1>0, <3>2 DEF Asks
    <3> QED
      BY <3>1, <3>2
  <2>3. inputOf(i) \in BOOLEAN
    <3>1. i # n + 1 => t[i] \in Turns
      BY <1>0
    <3> QED
      BY <3>1 DEF Turns
  <2> HIDE DEF sent, inputOf, n
  <2> QED
    BY <1>2, <2>1, <2>2, <2>3, ResultsForType DEF n
<1>4. ASSUME NEW i \in 1..n
      PROVE  sent[2 * i] = MessageParam(Assistant(t[i].calls)) /\ t[i].calls \in Seq(Calls)
  <2>1. 2 * i \in 1..2 * n + 1 /\ t[i] \in Turns
    BY <1>0
  <2> QED
    BY <1>2, <2>1 DEF Asks, Turns
<1>5. ASSUME NEW i \in 1..n + 1
      PROVE  /\ DOMAIN calls(2 * i - 2) = 1..Len(results(i))
             /\ \A j \in 1..Len(results(i)) : calls(2 * i - 2)[j].id = results(i)[j].id
  <2>1. CASE i = 1
    <3>1. calls(2 * i - 2) = <<>> /\ results(i) = <<>>
      BY <2>1 DEF ResultsFor
    <3> QED
      BY <3>1
  <2>2. CASE i # 1
    <3>1. i - 1 \in 1..n /\ 2 * i - 2 = 2 * (i - 1) /\ 2 * i - 2 # 0 /\ t[i - 1] \in Turns
      BY <1>0, <2>2
    <3>2. /\ sent[2 * (i - 1)] = MessageParam(Assistant(t[i - 1].calls))
          /\ t[i - 1].calls \in Seq(Calls)
      BY <1>4, <3>1
    <3>3. calls(2 * i - 2) = sent[2 * (i - 1)].content
      BY <3>1
    <3>4. results(i) = Results(t[i - 1]) /\ Len(t[i - 1].outcomes) = Len(t[i - 1].calls)
      BY <2>2, <3>1 DEF ResultsFor, Resulted
    <3>5. /\ Len(results(i)) = Len(t[i - 1].calls)
          /\ \A j \in 1..Len(results(i)) : results(i)[j].id = j
      <4> DEFINE turn == t[i - 1]
      <4>1. turn \in Turns /\ results(i) = Results(turn) /\ Len(turn.outcomes) = Len(turn.calls)
        BY <3>1, <3>4
      <4> HIDE DEF turn, results
      <4>2. /\ Len(Results(turn)) = Len(turn.outcomes)
            /\ \A j \in 1..Len(turn.outcomes) :
                 Results(turn)[j] = [id |-> j, status |-> turn.outcomes[j]]
        BY <4>1, ResultsType
      <4>3. ASSUME NEW j \in 1..Len(turn.outcomes) PROVE Results(turn)[j].id = j
        <5>1. Results(turn)[j] = [id |-> j, status |-> turn.outcomes[j]]
          BY <4>2
        <5> QED
          BY <5>1
      <4> QED
        BY <4>1, <4>2, <4>3 DEF turn
    <3> HIDE DEF calls, results, sent
    <3> QED
      BY <3>2, <3>3, <3>5, AssistantParam
  <2> QED
    BY <2>1, <2>2
<1> HIDE DEF sent, calls, results, inputOf
<1>6. ASSUME NEW k \in DOMAIN sent
      PROVE  sent[k].role = (IF k % 2 = 1 THEN "user" ELSE "assistant")
  <2>1. CASE \E i \in 1..n : k = 2 * i /\ k % 2 = 0
    BY <1>4, <2>1, AssistantParam
  <2>2. CASE \E i \in 1..n + 1 : k = 2 * i - 1 /\ k % 2 = 1
    BY <1>3, <2>2, UserParam
  <2>3. k \in 1..2 * n + 1
    BY <1>2
  <2> HIDE DEF n
  <2> QED
    BY <1>0, <2>1, <2>2, <2>3, Halves
<1>7. ASSUME NEW k \in DOMAIN sent, sent[k].role = "user"
      PROVE  /\ \A j \in DOMAIN calls(k - 1) :
                  /\ j \in DOMAIN sent[k].content /\ sent[k].content[j].kind = "tool_result"
                  /\ sent[k].content[j].id = calls(k - 1)[j].id
             /\ \A j \in DOMAIN sent[k].content :
                  sent[k].content[j].kind = "tool_result" => j \in DOMAIN calls(k - 1)
  <2>1. k % 2 = 1
    BY <1>6, <1>7
  <2>2. PICK i \in 1..n + 1 : k = 2 * i - 1
    <3>1. k \in 1..2 * n + 1
      BY <1>2
    <3>2. ~(k % 2 = 0)
      BY <2>1
    <3> HIDE DEF n
    <3> QED
      BY <1>0, <3>1, <3>2, Halves
  <2>3. k - 1 = 2 * i - 2
    BY <1>0, <2>2
  <2>4. /\ \A j \in 1..Len(results(i)) :
             /\ j \in DOMAIN sent[k].content
             /\ sent[k].content[j] = [kind |-> "tool_result", id |-> results(i)[j].id]
        /\ \A j \in DOMAIN sent[k].content :
             j \in 1..Len(results(i)) \/ sent[k].content[j].kind = "text"
    BY <1>3, <2>2, UserParam
  <2>5. /\ DOMAIN calls(k - 1) = 1..Len(results(i))
        /\ \A j \in 1..Len(results(i)) : calls(k - 1)[j].id = results(i)[j].id
    BY <1>5, <2>3
  <2>6. ASSUME NEW j \in 1..Len(results(i))
        PROVE  sent[k].content[j].kind = "tool_result" /\ sent[k].content[j].id = results(i)[j].id
    <3>1. sent[k].content[j] = [kind |-> "tool_result", id |-> results(i)[j].id]
      BY <2>4
    <3> QED
      BY <3>1
  <2> QED
    BY <2>4, <2>5, <2>6
<1>8. Marked(sent)
  <2>1. Len(sent) = 2 * n + 1
    BY <1>0, <1>1, <1>2 DEF sent, RequestMessages, Asks
  <2> DEFINE content == sent[2 * n + 1].content
  <2>2. n + 1 \in 1..n + 1 /\ 2 * (n + 1) - 1 = 2 * n + 1
    BY <1>0
  <2>3. /\ sent[2 * n + 1] = MessageParam(User(results(n + 1), inputOf(n + 1)))
        /\ results(n + 1) \in Seq(ResultSet) /\ inputOf(n + 1) \in BOOLEAN
    BY <1>3, <2>2
  <2>4. inputOf(n + 1) = in /\ content = MessageParam(User(results(n + 1), in)).content
    BY <2>3 DEF inputOf
  <2>5. /\ content \in Seq(Block) /\ Len(content) = Len(results(n + 1)) + (IF in THEN 1 ELSE 0)
        /\ \A j \in 1..Len(results(n + 1)) : content[j].kind = "tool_result"
        /\ \A j \in DOMAIN content : j \in 1..Len(results(n + 1)) \/ content[j].kind = "text"
    <3> HIDE DEF content, n
    <3>1. \A j \in 1..Len(results(n + 1)) :
            content[j] = [kind |-> "tool_result", id |-> results(n + 1)[j].id]
      BY <2>3, <2>4, UserParam
    <3>2. ASSUME NEW j \in 1..Len(results(n + 1)) PROVE content[j].kind = "tool_result"
      <4>1. content[j] = [kind |-> "tool_result", id |-> results(n + 1)[j].id]
        BY <3>1
      <4> QED
        BY <4>1
    <3>3. content \in Seq(Block) /\ Len(content) = Len(results(n + 1)) + (IF in THEN 1 ELSE 0)
      BY <2>3, <2>4, UserParam
    <3>4. \A j \in DOMAIN content : j \in 1..Len(results(n + 1)) \/ content[j].kind = "text"
      BY <2>3, <2>4, UserParam
    <3> QED
      BY <3>2, <3>3, <3>4
  <2>6. in \/ results(n + 1) # <<>>
    BY DEF NextFed, results
  <2> HIDE DEF content
  <2>7. Len(content) \in Nat /\ Len(content) # 0 /\ DOMAIN content = 1..Len(content)
    BY <2>3, <2>5, <2>6, EmptySeq
  <2>8. content # <<>> /\ Len(content) \in DOMAIN content
    BY <2>7
  <2>9. content[Len(content)].kind \in {"text", "tool_result"}
    BY <2>5, <2>8
  <2> QED
    BY <2>1, <2>8, <2>9 DEF Marked, TakesMark, content
<1> QED
  BY <1>6, <1>7, <1>8 DEF sent, calls

\* b begins as a does, and adds to its end.
Repeats(a, b) ==
  a \in Seq(Message) /\ Len(a) <= Len(b) /\ \A k \in 1..Len(a) : a[k] = b[k]

\* The next turn's messages repeat the ones this turn was asked with.
LEMMA AsksGrows ==
  ASSUME NEW t \in Seq(Turns), NEW x \in Turns, NEW m, NEW w, NEW in,
         Asks(m, t, x.input), Asks(w, Append(t, x), in)
  PROVE  Repeats(m, w) /\ w[Len(m) + 1] = Assistant(x.calls) /\ Len(w) = Len(m) + 2
<1> DEFINE n == Len(t)
           u == Append(t, x)
<1>0. /\ n \in Nat /\ u \in Seq(Turns) /\ Len(u) = n + 1
      /\ u[n + 1] = x /\ \A i \in 1..n : u[i] = t[i]
  OBVIOUS
<1>1. /\ m \in Seq(Message) /\ w \in Seq(Message)
      /\ Len(m) = 2 * n + 1 /\ Len(w) = 2 * (n + 1) + 1
  BY <1>0 DEF Asks
<1>2. ASSUME NEW i \in 1..n + 1 PROVE ResultsFor(u, i) = ResultsFor(t, i)
  <2>1. i # 1 => i - 1 \in 1..n
    BY <1>0
  <2> HIDE DEF u
  <2> QED
    BY <1>0, <2>1 DEF ResultsFor
<1> HIDE DEF u, n
<1>3. ASSUME NEW k \in 1..2 * n + 1 PROVE m[k] = w[k]
  <2>1. CASE \E i \in 1..n : k = 2 * i
    <3>1. PICK i \in 1..n : k = 2 * i
      BY <2>1
    <3>2. i \in 1..n + 1 /\ u[i] = t[i]
      BY <1>0
    <3> QED
      BY <1>0, <3>1, <3>2 DEF Asks, u, n
  <2>2. CASE \E i \in 1..n + 1 : k = 2 * i - 1
    <3>1. PICK i \in 1..n + 1 : k = 2 * i - 1
      BY <2>2
    <3>2. w[k] = User(ResultsFor(t, i), u[i].input)
      BY <1>0, <1>2, <3>1 DEF Asks, u
    <3>3. CASE i = n + 1
      <4>1. k = 2 * n + 1 /\ u[i] = x
        BY <1>0, <3>1, <3>3
      <4> QED
        BY <3>2, <3>3, <4>1 DEF Asks, n
    <3>4. CASE i # n + 1
      <4>1. i \in 1..n
        BY <1>0, <3>4
      <4> QED
        BY <1>0, <3>1, <3>2, <4>1 DEF Asks, n
    <3> QED
      BY <3>3, <3>4
  <2> QED
    BY <1>0, <2>1, <2>2, Halves
<1>4. w[2 * (n + 1)] = Assistant(u[n + 1].calls)
  <2>1. n + 1 \in 1..n + 1
    BY <1>0
  <2> QED
    BY <1>0, <2>1 DEF Asks, u
<1>5. 2 * (n + 1) = 2 * n + 1 + 1
  BY <1>0
<1> QED
  BY <1>0, <1>1, <1>3, <1>4, <1>5 DEF Repeats

\* In a run that goes on the turns are whole, each answered in full; and with
\* no turn held the messages are theirs and the next turn's.
FedInv == ~Over => turns \in Seq(Turns) /\ Fed(turns) /\ Resulted(turns)

LEMMA LoopFed == LoopInv => FedInv
<1> SUFFICES ASSUME LoopInv, ~Over PROVE turns \in Seq(Turns) /\ Fed(turns) /\ Resulted(turns)
  BY DEF FedInv
<1>0. turns \in Seq(Turns) /\ Len(turns) \in Nat /\ DOMAIN turns = 1..Len(turns)
  BY LenProperties DEF LoopInv, Typed, TypeOK, RecordTypeOK
<1>1. Running
  BY DEF LoopInv, Typed, Shape, Over
<1>2. Resulted(turns)
  BY <1>0, <1>1 DEF LoopInv, RecordInv, Rules, Resulted
<1>3. ASSUME NEW i \in 1..Len(turns) PROVE turns[i].input \/ ResultsFor(turns, i) # <<>>
  <2>1. CASE i = 1
    BY <1>0, <2>1 DEF LoopInv, RecordInv, TranscriptRules
  <2>2. CASE i # 1
    <3>1. i - 1 \in 1..Len(turns)
      BY <1>0, <2>2
    <3>2. turns[i - 1] \in Turns /\ turns[i - 1].outcomes # <<>>
      BY <1>0, <1>2, <3>1 DEF Resulted
    <3> QED
      BY <2>2, <3>2, ResultsType DEF ResultsFor
  <2> QED
    BY <2>1, <2>2
<1> QED
  BY <1>0, <1>2, <1>3 DEF Fed

Asking == Asks(Messages, turns, input) /\ NextFed(turns, input) /\ input \in BOOLEAN

AskInv == held = <<>> /\ ~Over => Asking

LEMMA LoopAsks == LoopInv => AskInv
<1> SUFFICES ASSUME LoopInv, held = <<>>, ~Over PROVE Asking
  BY DEF AskInv
<1>0. input \in BOOLEAN
  BY DEF LoopInv, Typed, TypeOK, RecordTypeOK
<1>1. turns \in Seq(Turns) /\ Fed(turns) /\ Resulted(turns) /\ Len(turns) \in Nat
  BY LoopFed, LenProperties DEF FedInv
<1>2. NextFed(turns, input)
  <2>1. CASE turns = <<>>
    BY <2>1 DEF LoopInv, RecordInv, Rules, NextFed
  <2>2. CASE turns # <<>>
    <3>1. Len(turns) \in 1..Len(turns) /\ Len(turns) + 1 # 1
      BY <1>1, <2>2, EmptySeq
    <3>2. turns[Len(turns)] \in Turns /\ turns[Len(turns)].outcomes # <<>>
      BY <1>1, <3>1 DEF Resulted
    <3>3. Len(turns) + 1 - 1 = Len(turns)
      BY <1>1
    <3> QED
      BY <3>1, <3>2, <3>3, ResultsType DEF NextFed, ResultsFor
  <2> QED
    BY <2>1, <2>2
<1> QED
  BY <1>0, <1>1, <1>2, MessagesAsk DEF Asking

\* The attempt that's open was sent what would be sent now, and what was sent
\* before it is what it begins with; while a turn is held, what was sent last
\* is what that turn answered.
Sends ==
  /\ Open => opened.sent = Messages
  /\ chat # NoChat /\ ~Over =>
       /\ held = <<>> => Repeats(chat.sent, Messages)
       /\ held # <<>> => Asks(chat.sent, turns, held[1].input)

LEMMA SendsInit == ConversationInit => Sends
  BY DEF ConversationInit, Init, Sends, Open

LEMMA MessagesKept == UNCHANGED <<turns, input>> => Messages' = Messages
  BY DEF Messages

LEMMA SendsStep ==
  LoopInv /\ LoopInv' /\ AskInv' /\ Announced /\ Sends
    /\ [ConversationNext]_<<vars, telling>> => Sends'
<1> SUFFICES ASSUME LoopInv, LoopInv', AskInv', Announced, Sends,
                    [ConversationNext]_<<vars, telling>>
             PROVE  Sends'
  OBVIOUS
<1>0. /\ pc \notin {"pointR", "tools"} /\ ~Over => held = <<>>
      /\ pc \in {"pointR", "tools"} => held # <<>>
      /\ Len(held) <= 1 /\ held \in Seq(Turns)
  BY DEF LoopInv, Typed, TypeOK, RecordTypeOK, Shape, Over
<1>a. Open => held = <<>> /\ ~Over
  BY <1>0 DEF Open, Over
\* The attempt that was open ends.
<1>b. ASSUME Open, chat'.sent = opened.sent, opened' = NoChat, ~Open',
             UNCHANGED turns,
             \/ Over'
             \/ held' = <<>> /\ UNCHANGED input
             \/ held' # <<>> /\ held'[1].input = input
      PROVE  Sends'
  <2>1. chat'.sent = Messages /\ (UNCHANGED input => Messages' = Messages)
    BY <1>b, MessagesKept DEF Sends
  <2>2. Asks(Messages, turns, input)
    BY <1>a, <1>b, LoopAsks DEF AskInv, Asking
  <2>3. Messages \in Seq(Message) /\ Repeats(Messages, Messages)
    BY <2>2 DEF Asks, Repeats
  <2> QED
    BY <1>b, <2>1, <2>2, <2>3 DEF Sends
<1>1. CASE OpenChat
  <2>1. UNCHANGED <<turns, input, held, chat>> /\ pc' = "calling" /\ pc = "admit"
        /\ opened'.sent = Messages
    BY <1>1 DEF OpenChat, BeginAttempt, recordVars
  <2> QED
    BY <2>1, MessagesKept DEF Sends, Over, Asks, Open
<1>2. ASSUME NEW r \in Responses, ResponseCame(r) PROVE Sends'
  <2>1. /\ Open /\ ~Open' /\ UNCHANGED turns
        /\ held' # <<>> /\ held'[1].input = input
    <3>1. pc = "calling" /\ pc' \in {"pointR", "stopping"} /\ UNCHANGED turns
      BY <1>2 DEF ResponseCame, ProviderResponds, Responded, Stop
    <3>2. held' = <<[input |-> input, finish |-> r.finish, calls |-> r.calls,
                     attempts |-> failedAttempts + 1, outcomes |-> <<>>]>>
      BY <1>2 DEF ResponseCame, ProviderResponds, Responded
    <3> QED
      BY <3>1, <3>2 DEF Open
  <2>2. chat'.sent = opened.sent /\ opened' = NoChat
    BY <1>2 DEF ResponseCame, EndChat
  <2> QED
    BY <1>b, <2>1, <2>2
<1>3. ASSUME NEW f \in Failures, AttemptFailed(f) PROVE Sends'
  <2>1. Open /\ pc = "calling" /\ UNCHANGED <<turns, input, held>>
    BY <1>3 DEF AttemptFailed, ProviderFails, FailedAttempt, Open
  <2>2. CASE f.kind \in Retryable
    <3>1. pc' = "clock" /\ asker' = "failure" /\ UNCHANGED <<opened, chat>>
      BY <1>3, <2>2 DEF AttemptFailed, ProviderFails, telling
    <3> QED
      BY <1>a, <2>1, <3>1, MessagesKept DEF Sends, Over
  <2>3. CASE f.kind \notin Retryable
    <3>1. pc' = "stopping" /\ chat'.sent = opened.sent /\ opened' = NoChat
      BY <1>3, <2>3 DEF AttemptFailed, ProviderFails, Stop, Unanswered, EndChat
    <3>2. Over' /\ ~Open'
      BY <3>1 DEF Over, Open
    <3> QED
      BY <1>b, <2>1, <3>1, <3>2
  <2> QED
    BY <2>2, <2>3
<1>4. CASE AfterFailure
  <2>1. /\ asker = "failure" /\ pc = "admit" /\ pc' \in {"waiting", "stopping"}
        /\ UNCHANGED <<turns, input, held>>
    BY <1>4 DEF AfterFailure, NotAdmitted, AskRetry, Stop, recordVars
  <2>2. chat'.sent = opened.sent /\ opened' = NoChat
    BY <1>4 DEF AfterFailure, Unanswered, EndChat
  <2>3. Open /\ ~Open'
    BY <2>1 DEF Open
  <2> QED
    BY <1>a, <1>b, <2>1, <2>2, <2>3
<1>5. CASE Dropped
  <2>1. /\ pc = "calling" /\ pc' = "stopping" /\ UNCHANGED <<turns, input>>
        /\ chat'.sent = opened.sent /\ opened' = NoChat
    BY <1>5 DEF Dropped, AttemptDropped, FailedAttempt, Stop, Unanswered, EndChat
  <2>2. Over' /\ Open /\ ~Open'
    BY <2>1 DEF Over, Open
  <2> QED
    BY <1>b, <2>1, <2>2
<1>6. CASE ResultsCame
  <2>1. /\ pc = "tools" /\ pc' = "pointB" /\ UNCHANGED <<input, chat, opened>>
        /\ held' = <<>> /\ held # <<>>
        /\ \E outcomes : turns' = Append(turns, [held[1] EXCEPT !.outcomes = outcomes])
    BY <1>0, <1>6 DEF ResultsCame, ToolsAnswer, Answered
  <2>2. PICK outcomes : turns' = Append(turns, [held[1] EXCEPT !.outcomes = outcomes])
    BY <2>1
  <2> DEFINE x == [held[1] EXCEPT !.outcomes = outcomes]
  <2>3. held[1] \in Turns
    BY <1>0, <2>1
  <2>4. x.input = held[1].input
    BY <2>3 DEF Turns
  <2>5. turns \in Seq(Turns) /\ turns' \in Seq(Turns)
    BY DEF LoopInv, Typed, TypeOK, RecordTypeOK
  <2>6. x \in Turns
    <3>1. Len(turns) \in Nat /\ Len(turns') = Len(turns) + 1 /\ turns'[Len(turns) + 1] = x
      BY <2>2, <2>5
    <3> QED
      BY <2>5, <3>1
  <2>7. Asks(Messages', turns', input')
    BY <2>1 DEF Over, AskInv, Asking
  <2> HIDE DEF x
  <2>8. chat # NoChat => Asks(chat.sent, turns, x.input)
    BY <2>1, <2>4 DEF Sends, Over
  <2>9. chat # NoChat => Repeats(chat.sent, Messages')
    BY <2>2, <2>5, <2>6, <2>7, <2>8, AsksGrows DEF x
  <2> QED
    BY <2>1, <2>9 DEF Sends, Open
<1>7. CASE Untold \/ UNCHANGED <<vars, telling>>
  <2>1. UNCHANGED <<opened, chat>>
    BY <1>7 DEF Untold, telling
  <2>2. CASE Close
    BY <2>1, <2>2 DEF Close, Sends, Over, Open
  <2>3. CASE ~Close
    <3>1. /\ UNCHANGED <<turns, input, held>>
          /\ Open' => Open
          /\ Over => Over'
      BY <1>7, <2>3 DEF Untold, ReadClock, NotAdmitted, WaitEnds, WaitDropped, AfterPointR, PointB,
                        Tick, Cancel, Done, Stop, vars, recordVars, Open, Over
    <3> QED
      BY <2>1, <3>1, MessagesKept DEF Sends, Asks
  <2> QED
    BY <2>2, <2>3
<1> QED
  BY <1>1, <1>2, <1>3, <1>4, <1>5, <1>6, <1>7 DEF ConversationNext

\* The request of b is served what the request of a cached.
Serves(a, b) ==
  /\ Len(RequestMessages(a)) <= Len(b)
  /\ SubSeq(RequestMessages(b), 1, Len(RequestMessages(a))) = RequestMessages(a)

LEMMA ParamsRepeat ==
  ASSUME NEW a, NEW b \in Seq(Message), Repeats(a, b)
  PROVE  Serves(a, b)
<1> DEFINE S == {MessageParam(x) : x \in Message}
           p == RequestMessages(a)
           q == RequestMessages(b)
<1>0. /\ a \in Seq(Message) /\ Len(a) \in Nat /\ Len(b) \in Nat /\ Len(a) <= Len(b)
      /\ DOMAIN a = 1..Len(a) /\ DOMAIN b = 1..Len(b)
      /\ \A k \in 1..Len(a) : a[k] \in Message /\ a[k] = b[k] /\ k \in 1..Len(b)
      /\ \A k \in 1..Len(b) : b[k] \in Message
  BY LenProperties DEF Repeats
<1>1. p \in Seq(S) /\ Len(p) = Len(a) /\ \A k \in 1..Len(a) : p[k] = MessageParam(a[k])
  BY <1>0 DEF RequestMessages
<1>2. q \in Seq(S) /\ Len(q) = Len(b) /\ \A k \in 1..Len(b) : q[k] = MessageParam(b[k])
  BY <1>0 DEF RequestMessages
<1> HIDE DEF p, q, S
<1> DEFINE r == SubSeq(q, 1, Len(p))
<1>3. /\ r \in Seq(S) /\ Len(r) = Len(p)
      /\ \A k \in 1..Len(p) : r[k] = q[k]
  BY <1>0, <1>1, <1>2
<1>4. \A k \in 1..Len(p) : r[k] = p[k]
  BY <1>0, <1>1, <1>2, <1>3
<1> HIDE DEF r
<1>5. r = p
  BY <1>1, <1>3, <1>4, SeqEqual
<1> QED
  BY <1>0, <1>1, <1>2, <1>5 DEF r, p, q, Serves

LEMMA SendsHolds == LoopInv /\ Announced /\ Sends => RequestsTaken
<1> SUFFICES ASSUME LoopInv, Announced, Sends, opened # NoChat
             PROVE  RequestsTaken
  BY DEF RequestsTaken, RequestAnswersCalls, RequestsRepeat
<1>1. Open /\ held = <<>> /\ ~Over /\ opened.sent = Messages
  BY DEF Announced, Sends, Open, Over, LoopInv, Typed, Shape
<1>2. /\ Asks(opened.sent, turns, input) /\ Resulted(turns) /\ NextFed(turns, input)
      /\ turns \in Seq(Turns) /\ input \in BOOLEAN
  BY <1>1, LoopAsks, LoopFed DEF AskInv, Asking, FedInv
<1>3. RequestAnswersCalls
  BY <1>2, AsksAnswered DEF RequestAnswersCalls
<1>4. RequestsRepeat
  <2>1. chat # NoChat => Repeats(chat.sent, opened.sent)
    BY <1>1 DEF Sends
  <2>2. opened.sent \in Seq(Message)
    BY <1>2 DEF Asks
  <2> QED
    <3>1. chat # NoChat => Serves(chat.sent, opened.sent)
      BY <2>1, <2>2, ParamsRepeat
    <3> QED
      BY <3>1 DEF RequestsRepeat, Serves
<1> QED
  BY <1>3, <1>4 DEF RequestsTaken

\* Every request of a run is one the API takes, each response's calls answered
\* in order by the message after it, and repeats the request before it whole,
\* so that the API serves what that one cached (request.rs).
THEOREM RequestsAlwaysTaken == ConversationSpec => []RequestsTaken
<1>1. ConversationInit => Init
  BY DEF ConversationInit
<1>2. LoopInv => Typed /\ Counts /\ Tallied
  BY DEF LoopInv
<1> QED
  BY <1>1, <1>2, LoopInvInit, LoopInvStep, ConversationIsLoop, AnnouncedInit, AnnouncedStep,
     LoopAsks, SendsInit, SendsStep, SendsHolds, PTL DEF ConversationSpec

LEMMA SizeType == \A x \in Message : Size(x) \in Nat
<1>1. ASSUME NEW x \in [role : {"user"}, results : Seq(ResultSet), input : BOOLEAN]
      PROVE  Size(x) \in Nat
  <2>1. x.role = "user" /\ x.results \in Seq(ResultSet)
    OBVIOUS
  <2>2. Len(x.results) \in Nat
    BY <2>1
  <2> QED
    BY <2>1, <2>2 DEF Size
<1>2. ASSUME NEW x \in [role : {"assistant"}, calls : Seq(Calls)]
      PROVE  Size(x) \in Nat
  <2>1. x.role = "assistant" /\ x.calls \in Seq(Calls)
    OBVIOUS
  <2>2. Len(x.calls) \in Nat
    BY <2>1
  <2> QED
    BY <2>1, <2>2 DEF Size
<1> QED
  BY <1>1, <1>2 DEF Message

\* The sizes of messages up to each of them.
SizesOf(f, m) == Sums(f, [i \in 1..Len(m) |-> Size(m[i])], Len(m))

LEMMA SizesDefined == ASSUME NEW m \in Seq(Message) PROVE \E f : SizesOf(f, m)
<1>1. Len(m) \in Nat /\ \A i \in 1..Len(m) : Size(m[i]) \in Int
  BY SizeType
<1>2. [i \in 1..Len(m) |-> Size(m[i])] \in [1..Len(m) -> Int]
  BY <1>1
<1> QED
  BY <1>1, <1>2, SumsDefined DEF SizesOf

LEMMA SizesAre ==
  ASSUME NEW m \in Seq(Message), NEW f, SizesOf(f, m)
  PROVE  /\ \A i \in 0..Len(m) : f[i] \in Int
         /\ f[0] = 0
         /\ \A i \in 1..Len(m) : f[i] = f[i - 1] + Size(m[i])
  BY DEF SizesOf, Sums

\* The size of a part is what the sizes gain over it.
LEMMA SizeIs ==
  ASSUME NEW m \in Seq(Message), NEW y, SizesOf(y, m),
         NEW from \in Nat, NEW to \in Nat, 0 < from, from <= to + 1, to <= Len(m)
  PROVE  SizeOfAll(m, from, to) = y[to] - y[from - 1]
<1> DEFINE b == CHOOSE b : b = [i \in from - 1..to |->
                  IF i < from THEN 0 ELSE b[i - 1] + Size(m[i])]
           z == [i \in from - 1..to |-> y[i] - y[from - 1]]
           n == to - from + 1
<1>0. Len(m) \in Nat /\ to \in Nat /\ from - 1 \in Nat /\ n \in Nat
  OBVIOUS
<1>1. SizeOfAll(m, from, to) = IF to < from THEN 0 ELSE b[to]
  BY DEF SizeOfAll
<1>2. CASE to < from
  <2>1. to = from - 1 /\ to \in 0..Len(m)
    BY <1>0, <1>2
  <2>2. y[to] \in Int
    BY <2>1, SizesAre
  <2> HIDE DEF b
  <2> QED
    BY <1>1, <1>2, <2>1, <2>2
<1>3. CASE ~(to < from)
  <2>1. /\ \A i \in from - 1..to : y[i] \in Int
        /\ \A i \in from..to : y[i] = y[i - 1] + Size(m[i])
        /\ \A i \in from..to : Size(m[i]) \in Int
    <3>1. \A i \in from..to : i \in 1..Len(m)
      BY <1>0
    <3>2. \A i \in from..to : Size(m[i]) \in Int
      BY <3>1, SizeType
    <3>3. \A i \in from - 1..to : i \in 0..Len(m)
      BY <1>0
    <3> QED
      BY <3>1, <3>2, <3>3, SizesAre
  <2>2. \A i \in from..to : z[i] = z[i - 1] + Size(m[i])
    BY <1>0, <2>1
  <2>3. z[from - 1] = 0
    BY <1>0, <2>1
  <2>4. z = [i \in from - 1..to |-> IF i < from THEN 0 ELSE z[i - 1] + Size(m[i])]
    <3>1. \A i \in from - 1..to : i < from => i = from - 1
      BY <1>0
    <3>2. \A i \in from - 1..to : ~(i < from) => i \in from..to
      BY <1>0
    <3>3. z = [i \in from - 1..to |-> z[i]]
      OBVIOUS
    <3> HIDE DEF z
    <3> QED
      BY <2>2, <2>3, <3>1, <3>2, <3>3
  <2>5. b = [i \in from - 1..to |-> IF i < from THEN 0 ELSE b[i - 1] + Size(m[i])]
    <3> HIDE DEF z
    <3> QED
      BY <2>4
  <2> HIDE DEF b, z
  <2>6. z[from - 1] = b[from - 1]
    BY <1>0, <2>3, <2>5
  <2>7. \A i \in from - 1 + 1..to : z[i - 1] = b[i - 1] => z[i] = b[i]
    <3>1. \A i \in from - 1 + 1..to : i \in from..to /\ i \in from - 1..to /\ ~(i < from)
      BY <1>0
    <3> QED
      BY <2>2, <2>5, <3>1
  <2>8. \A i \in from - 1..to : z[i] = b[i]
    <3> DEFINE out == {i \in from - 1..to : z[i] # b[i]}
    <3> SUFFICES ASSUME out # {} PROVE FALSE
      OBVIOUS
    <3>1. out \in SUBSET Nat
      BY <1>0
    <3>2. PICK i \in out : \A k \in out : i <= k
      <4> HIDE DEF out
      <4> QED
        BY <3>1, LeastNumber
    <3>3. i # from - 1 /\ i \in from - 1..to
      BY <2>6, <3>2
    <3>4. i \in from..to /\ i \in from - 1 + 1..to /\ i - 1 \in from - 1..to /\ i - 1 < i
      BY <1>0, <3>3
    <3>5. i - 1 \notin out
      <4> HIDE DEF out
      <4> QED
        BY <1>0, <3>2, <3>4
    <3> QED
      BY <2>7, <3>2, <3>4, <3>5
  <2>9. z[to] = b[to]
    BY <1>0, <1>3, <2>8
  <2>10. z[to] = y[to] - y[from - 1]
    BY <1>0 DEF z
  <2> QED
    BY <1>1, <1>3, <2>9, <2>10
<1> QED
  BY <1>2, <1>3

\* A size is that of a part and of the rest, and that of all but the last and
\* of the last.
LEMMA SizeAdds ==
  ASSUME NEW m \in Seq(Message), NEW a \in 0..Len(m), NEW b \in a..Len(m)
  PROVE  /\ SizeOfAll(m, 1, a) + SizeOfAll(m, a + 1, b) = SizeOfAll(m, 1, b)
         /\ b < Len(m) => SizeOfAll(m, 1, b + 1) = SizeOfAll(m, 1, b) + Size(m[b + 1])
<1>0. Len(m) \in Nat
  OBVIOUS
<1>1. PICK f : SizesOf(f, m)
  BY SizesDefined
<1>2. /\ \A i \in 0..Len(m) : f[i] \in Int
      /\ f[0] = 0
      /\ \A i \in 1..Len(m) : f[i] = f[i - 1] + Size(m[i])
  BY <1>1, SizesAre
<1>3. \A k \in 0..Len(m) : SizeOfAll(m, 1, k) = f[k]
  <2>1. ASSUME NEW k \in 0..Len(m) PROVE SizeOfAll(m, 1, k) = f[k]
    <3>1. k \in Nat /\ 0 < 1 /\ 1 <= k + 1 /\ k <= Len(m) /\ 1 - 1 = 0
      BY <1>0
    <3>2. SizeOfAll(m, 1, k) = f[k] - f[1 - 1]
      BY <1>1, <3>1, SizeIs
    <3> QED
      BY <1>2, <3>1, <3>2
  <2> QED
    BY <2>1
<1>4. SizeOfAll(m, a + 1, b) = f[b] - f[a]
  <2>1. /\ a + 1 \in Nat /\ b \in Nat /\ 0 < a + 1 /\ a + 1 <= b + 1 /\ b <= Len(m)
        /\ a + 1 - 1 = a
    BY <1>0
  <2>2. SizeOfAll(m, a + 1, b) = f[b] - f[a + 1 - 1]
    BY <1>1, <2>1, SizeIs
  <2> QED
    BY <2>1, <2>2
<1>5. b \in 0..Len(m) /\ a \in 0..Len(m)
  BY <1>0
<1>6. b < Len(m) => b + 1 \in 1..Len(m) /\ b + 1 \in 0..Len(m) /\ b + 1 - 1 = b
  BY <1>0
<1> QED
  BY <1>2, <1>3, <1>4, <1>5, <1>6

\* Messages that begin alike measure alike.
LEMMA SizeAlike ==
  ASSUME NEW m \in Seq(Message), NEW w \in Seq(Message),
         NEW n \in Nat, n <= Len(m), n <= Len(w),
         \A i \in 1..n : m[i] = w[i]
  PROVE  SizeOfAll(m, 1, n) = SizeOfAll(w, 1, n)
<1>0. Len(m) \in Nat /\ Len(w) \in Nat /\ n \in Nat /\ n \in 0..Len(w)
  OBVIOUS
<1>1. PICK y : SizesOf(y, m)
  BY SizesDefined
<1>2. PICK z : SizesOf(z, w)
  BY SizesDefined
<1>3. y[0] = z[0] /\ \A i \in 1..n : y[i - 1] = z[i - 1] => y[i] = z[i]
  <2>1. y[0] = 0 /\ \A i \in 1..Len(m) : y[i] = y[i - 1] + Size(m[i])
    BY <1>1, SizesAre
  <2>2. z[0] = 0 /\ \A i \in 1..Len(w) : z[i] = z[i - 1] + Size(w[i])
    BY <1>2, SizesAre
  <2>3. \A i \in 1..n : i \in 1..Len(m) /\ i \in 1..Len(w)
    BY <1>0
  <2> QED
    BY <2>1, <2>2, <2>3
<1>4. y[n] = z[n]
  <2>1. n \in Nat
    BY <1>0
  <2>2. \A i \in 0..n : y[i] = z[i]
    <3>1. y[0] = z[0]
      BY <1>3
    <3>2. \A i \in 1..n : y[i - 1] = z[i - 1] => y[i] = z[i]
      BY <1>3
    <3> DEFINE T == {i \in 0..n : y[i] = z[i]}
    <3>8. 0 \in T /\ \A i \in 1..n : i - 1 \in T => i \in T
      BY <2>1, <3>1, <3>2
    <3>9. 0..n \subseteq T
      <4> HIDE DEF T
      <4> QED
        BY ONLY <2>1, <3>8, Inductive, ZenonT(60)
    <3> QED
      BY <3>9
  <2> QED
    BY <2>1, <2>2
<1>5. SizeOfAll(m, 1, n) = y[n] - y[1 - 1] /\ SizeOfAll(w, 1, n) = z[n] - z[1 - 1]
  <2>1. 1 \in Nat /\ 0 < 1 /\ 1 <= n + 1
    BY <1>0
  <2> QED
    BY <1>1, <1>2, <2>1, SizeIs
<1>6. y[1 - 1] = z[1 - 1]
  BY <1>3
<1> QED
  BY <1>4, <1>5, <1>6

-----------------------------------------------------------------------------
(* What's measured of a request.                                           *)

\* What's measured for good is the size of as many messages as were measured,
\* all of them ones that won't grow; and what's said of the attempt that's open
\* is the size of all it was sent.
Measures ==
  /\ ~Over => LET m == Before(turns)
              IN  /\ measure.measured \in 0..Len(m)
                  /\ measure.settled = SizeOfAll(m, 1, measure.measured)
  /\ MeasuredWhole

LEMMA BeforeGrows ==
  ASSUME NEW t \in Seq(Turns), NEW x \in Turns, Fed(t), Fed(Append(t, x))
  PROVE  Repeats(Before(t), Before(Append(t, x)))
<1> DEFINE n == Len(t)
           u == Append(t, x)
           m == Before(t)
           w == Before(u)
<1>0. /\ n \in Nat /\ u \in Seq(Turns) /\ Len(u) = n + 1 /\ \A i \in 1..n : u[i] = t[i]
  OBVIOUS
<1>1. Exchanged(m, t, n) /\ Exchanged(w, u, n + 1)
  BY <1>0, BeforeIs
<1> HIDE DEF n, u, m, w
<1>2. ASSUME NEW i \in 1..n PROVE ResultsFor(u, i) = ResultsFor(t, i)
  <2>1. i # 1 => i - 1 \in 1..n
    BY <1>0
  <2> QED
    BY <1>0, <2>1 DEF ResultsFor
<1>3. ASSUME NEW k \in 1..2 * n PROVE m[k] = w[k]
  <2>1. PICK i \in 1..n : k = 2 * i \/ k = 2 * i - 1
    <3>1. k \in 1..2 * n + 1 /\ (\A i \in 1..n + 1 : k = 2 * i - 1 => i \in 1..n)
      BY <1>0
    <3> QED
      BY <1>0, <3>1, Halves
  <2>2. i \in 1..n + 1 /\ u[i] = t[i]
    BY <1>0
  <2> QED
    BY <1>0, <1>1, <1>2, <2>1, <2>2 DEF Exchanged
<1>4. m \in Seq(Message) /\ Len(m) = 2 * n /\ Len(w) = 2 * (n + 1)
  BY <1>1 DEF Exchanged
<1> QED
  BY <1>0, <1>3, <1>4 DEF Repeats, m, w, u

LEMMA MeasuresInit == ConversationInit => Measures
<1> SUFFICES ASSUME ConversationInit PROVE Measures
  OBVIOUS
<1>1. turns = <<>> /\ measure = [settled |-> 0, measured |-> 0] /\ opened = NoChat
  BY DEF ConversationInit, Init, RecordInit
<1>2. turns \in Seq(Turns) /\ Len(turns) = 0
  BY <1>1
<1>3. Fed(turns)
  BY <1>2 DEF Fed
<1>4. Before(turns) \in Seq(Message) /\ Len(Before(turns)) = 0
  <2>1. Exchanged(Before(turns), turns, Len(turns))
    BY <1>2, <1>3, BeforeIs
  <2> QED
    BY <1>2, <2>1 DEF Exchanged
<1>5. SizeOfAll(Before(turns), 1, 0) = 0
  BY DEF SizeOfAll
<1> QED
  BY <1>1, <1>4, <1>5 DEF Measures, MeasuredWhole

LEMMA MeasuresStep ==
  LoopInv /\ LoopInv' /\ FedInv' /\ Measures /\ [ConversationNext]_<<vars, telling>> => Measures'
<1> SUFFICES ASSUME LoopInv, FedInv', Measures, [ConversationNext]_<<vars, telling>>
             PROVE  Measures'
  OBVIOUS
<1>a. ASSUME UNCHANGED <<turns, measure>>, Over => Over',
             opened' = opened \/ opened' = NoChat
      PROVE  Measures'
  BY <1>a DEF Measures, MeasuredWhole
<1>1. CASE OpenChat
  <2> DEFINE m == Messages
             w == Before(turns)
             n == Len(turns)
  <2>1. /\ UNCHANGED turns /\ pc = "admit"
        /\ measure' = Measured(m)
        /\ opened'.sent = m /\ opened'.bytes = measure'.settled + Size(m[Len(m)])
    BY <1>1 DEF OpenChat, BeginAttempt, recordVars
  <2>2. ~Over /\ held = <<>>
    BY <2>1 DEF Over, LoopInv, Typed, Shape
  <2>3. Asks(m, turns, input) /\ Exchanged(w, turns, n) /\ n \in Nat
    BY <2>2, LoopAsks, LoopFed, BeforeIs, LenProperties DEF AskInv, Asking, FedInv
  <2>4. /\ m \in Seq(Message) /\ Len(m) = 2 * n + 1
        /\ w \in Seq(Message) /\ Len(w) = 2 * n
    BY <2>3 DEF Asks, Exchanged
  <2>5. ASSUME NEW k \in 1..2 * n PROVE m[k] = w[k]
    <3>1. PICK i \in 1..n : k = 2 * i \/ k = 2 * i - 1
      <4>1. k \in 1..2 * n + 1 /\ (\A i \in 1..n + 1 : k = 2 * i - 1 => i \in 1..n)
        BY <2>3
      <4> HIDE DEF n
      <4> QED
        BY <2>3, <4>1, Halves
    <3> HIDE DEF m, w
    <3> QED
      BY <2>3, <3>1 DEF Asks, Exchanged
  <2>6. /\ measure.measured \in 0..2 * n
        /\ measure.settled = SizeOfAll(w, 1, measure.measured)
    BY <2>2, <2>4 DEF Measures
  <2> HIDE DEF m, w, n
  <2> DEFINE k == measure.measured
  <2>7. /\ measure'.measured = 2 * n
        /\ measure'.settled = SizeOfAll(w, 1, k) + SizeOfAll(m, k + 1, 2 * n)
    <3>1. m # <<>> /\ Len(m) - 1 = 2 * n
      BY <2>3, <2>4, EmptySeq
    <3> QED
      BY <2>1, <2>6, <3>1 DEF Measured
  <2>8. SizeOfAll(w, 1, k) = SizeOfAll(m, 1, k)
    <3>1. k \in 0..Len(w) /\ k <= Len(m) /\ \A i \in 1..k : w[i] = m[i]
      BY <2>3, <2>4, <2>5, <2>6
    <3> HIDE DEF k
    <3> QED
      BY <2>4, <3>1, SizeAlike
  <2>9. SizeOfAll(w, 1, 2 * n) = SizeOfAll(m, 1, 2 * n)
    <3>1. 2 * n \in 0..Len(w) /\ 2 * n <= Len(m) /\ \A i \in 1..2 * n : w[i] = m[i]
      BY <2>3, <2>4, <2>5
    <3> QED
      BY <2>4, <3>1, SizeAlike
  <2>10. /\ SizeOfAll(m, 1, k) + SizeOfAll(m, k + 1, 2 * n) = SizeOfAll(m, 1, 2 * n)
         /\ SizeOfAll(m, 1, 2 * n + 1) = SizeOfAll(m, 1, 2 * n) + Size(m[2 * n + 1])
    <3>1. k \in 0..Len(m) /\ 2 * n \in k..Len(m) /\ 2 * n < Len(m)
      BY <2>3, <2>4, <2>6
    <3> HIDE DEF k
    <3> QED
      BY <2>4, <3>1, SizeAdds
  <2>11. opened'.bytes = SizeOfAll(m, 1, 2 * n + 1)
    BY <2>1, <2>4, <2>7, <2>8, <2>10
  <2>12. /\ measure'.measured \in 0..Len(Before(turns'))
         /\ measure'.settled = SizeOfAll(Before(turns'), 1, measure'.measured)
    <3>1. Before(turns') = w
      BY <2>1 DEF w
    <3>2. 2 * n \in 0..Len(w)
      BY <2>3, <2>4
    <3> QED
      BY <2>7, <2>8, <2>9, <2>10, <3>1, <3>2
  <2> QED
    BY <2>1, <2>4, <2>11, <2>12 DEF Measures, MeasuredWhole
<1>2. ASSUME NEW r \in Responses, ResponseCame(r) PROVE Measures'
  BY <1>a, <1>2 DEF ResponseCame, ProviderResponds, Responded, EndChat, Over
<1>3. ASSUME NEW f \in Failures, AttemptFailed(f) PROVE Measures'
  BY <1>a, <1>3 DEF AttemptFailed, ProviderFails, FailedAttempt, Unanswered, EndChat, telling, Over
<1>4. CASE AfterFailure
  BY <1>a, <1>4 DEF AfterFailure, NotAdmitted, AskRetry, recordVars, Unanswered, EndChat, Over
<1>5. CASE Dropped
  BY <1>a, <1>5 DEF Dropped, AttemptDropped, FailedAttempt, Unanswered, EndChat, Over
<1>6. CASE ResultsCame
  <2>1. pc = "tools" /\ pc' = "pointB" /\ UNCHANGED <<measure, opened>>
        /\ \E x : turns' = Append(turns, x)
    BY <1>6 DEF ResultsCame, ToolsAnswer, Answered
  <2>2. PICK x : turns' = Append(turns, x)
    BY <2>1
  <2>3. turns \in Seq(Turns) /\ turns' \in Seq(Turns) /\ Fed(turns) /\ Fed(turns')
    BY <2>1, LoopFed DEF FedInv, Over
  <2>4. x \in Turns
    <3>1. Len(turns) \in Nat /\ Len(turns') = Len(turns) + 1 /\ turns'[Len(turns) + 1] = x
      BY <2>2, <2>3
    <3> QED
      BY <2>3, <3>1
  <2> DEFINE m == Before(turns)
             w == Before(turns')
             k == measure.measured
  <2>5. Repeats(m, w)
    BY <2>2, <2>3, <2>4, BeforeGrows
  <2>6. m \in Seq(Message) /\ w \in Seq(Message)
    BY <2>3, BeforeIs DEF Exchanged
  <2>7. k \in 0..Len(m) /\ measure.settled = SizeOfAll(m, 1, k)
    BY <2>1 DEF Measures, Over
  <2> HIDE DEF m, w, k
  <2>8. k \in 0..Len(w) /\ k <= Len(w) /\ \A i \in 1..k : m[i] = w[i]
    BY <2>5, <2>6, <2>7, LenProperties DEF Repeats
  <2>9. SizeOfAll(m, 1, k) = SizeOfAll(w, 1, k)
    BY <2>6, <2>7, <2>8, SizeAlike
  <2> QED
    BY <2>1, <2>7, <2>8, <2>9 DEF Measures, MeasuredWhole, w, k
<1>7. CASE Untold \/ UNCHANGED <<vars, telling>>
  <2>1. UNCHANGED <<opened, measure>>
    BY <1>7 DEF Untold, telling
  <2>2. CASE Close
    BY <2>1, <2>2 DEF Close, Measures, MeasuredWhole, Over
  <2>3. CASE ~Close
    <3>1. UNCHANGED turns /\ (Over => Over')
      BY <1>7, <2>3 DEF Untold, ReadClock, NotAdmitted, WaitEnds, WaitDropped, AfterPointR, PointB,
                        Tick, Cancel, Done, Stop, vars, recordVars, Over
    <3> QED
      BY <1>a, <2>1, <3>1
  <2> QED
    BY <2>2, <2>3
<1> QED
  BY <1>1, <1>2, <1>3, <1>4, <1>5, <1>6, <1>7 DEF ConversationNext

\* What all of some messages are captured as, one after another.
AllCaptured(m) ==
  LET all[i \in 0..Len(m)] ==
        IF i = 0 THEN <<>> ELSE all[i - 1] \o Captured(m[i])
  IN  all[Len(m)]

Task == [role |-> "user", parts |-> <<"task">>]
Capture == [role : {"assistant"}, parts : Seq(Calls)]
           \union [role : {"tool"}, parts : Seq(ResultSet)] \union {Task}

LEMMA CapturedType ==
  /\ \A c \in Seq(Calls) :
       Captured(Assistant(c)) = <<[role |-> "assistant", parts |-> c]>>
  /\ \A r \in Seq(ResultSet) : \A in \in BOOLEAN :
       Captured(User(r, in)) = (IF r = <<>> THEN <<>> ELSE <<[role |-> "tool", parts |-> r]>>)
                               \o (IF in THEN <<Task>> ELSE <<>>)
  /\ \A x \in Message : Captured(x) \in Seq(Capture)
<1>1. ASSUME NEW c \in Seq(Calls)
      PROVE  Captured(Assistant(c)) = <<[role |-> "assistant", parts |-> c]>>
  BY DEF Captured, Assistant
<1>2. ASSUME NEW r \in Seq(ResultSet), NEW in \in BOOLEAN
      PROVE  Captured(User(r, in)) = (IF r = <<>> THEN <<>> ELSE <<[role |-> "tool", parts |-> r]>>)
                                     \o (IF in THEN <<Task>> ELSE <<>>)
  BY DEF Captured, User, Task
<1>3. ASSUME NEW x \in [role : {"user"}, results : Seq(ResultSet), input : BOOLEAN]
      PROVE  Captured(x) \in Seq(Capture)
  <2> DEFINE tool == [role |-> "tool", parts |-> x.results]
             a == IF x.results = <<>> THEN <<>> ELSE <<tool>>
             b == IF x.input THEN <<Task>> ELSE <<>>
  <2>1. Captured(x) = a \o b
    BY DEF Captured, Task
  <2>2. tool \in Capture /\ Task \in Capture
    BY DEF Capture
  <2>3. a \in Seq(Capture)
    <3> HIDE DEF tool
    <3> QED
      BY <2>2
  <2>4. b \in Seq(Capture)
    BY <2>2
  <2> HIDE DEF a, b
  <2> QED
    BY <2>1, <2>3, <2>4
<1>4. ASSUME NEW x \in [role : {"assistant"}, calls : Seq(Calls)]
      PROVE  Captured(x) \in Seq(Capture)
  <2> DEFINE joined == [role |-> "assistant", parts |-> x.calls]
  <2>1. Captured(x) = <<joined>>
    BY DEF Captured
  <2>2. joined \in Capture
    BY DEF Capture
  <2> HIDE DEF joined
  <2> QED
    BY <2>1, <2>2
<1> QED
  BY <1>1, <1>2, <1>3, <1>4 DEF Message

CapturesOf(f, m) == Joins(f, [i \in 1..Len(m) |-> Captured(m[i])], Len(m), Capture)

LEMMA CapturesDefined == ASSUME NEW m \in Seq(Message) PROVE \E f : CapturesOf(f, m)
<1>1. Len(m) \in Nat /\ \A i \in 1..Len(m) : Captured(m[i]) \in Seq(Capture)
  BY CapturedType
<1>2. [i \in 1..Len(m) |-> Captured(m[i])] \in [1..Len(m) -> Seq(Capture)]
  BY <1>1
<1> QED
  BY <1>1, <1>2, JoinsDefined DEF CapturesOf

LEMMA CapturesAre ==
  ASSUME NEW m \in Seq(Message), NEW f, CapturesOf(f, m)
  PROVE  /\ f \in [0..Len(m) -> Seq(Capture)]
         /\ f[0] = <<>>
         /\ \A i \in 1..Len(m) : f[i] = f[i - 1] \o Captured(m[i])
  BY DEF CapturesOf, Joins

LEMMA CapturedIs ==
  ASSUME NEW m \in Seq(Message), NEW f, CapturesOf(f, m)
  PROVE  AllCaptured(m) = f[Len(m)] /\ f[Len(m)] \in Seq(Capture)
<1> DEFINE n == Len(m)
           goes(x, i) == x \o Captured(m[i])
           b == CHOOSE b : b = [i \in 0..n |-> IF i = 0 THEN <<>> ELSE goes(b[i - 1], i)]
<1>0. n \in Nat /\ n \in 0..n
  BY LenProperties
<1>1. /\ f \in [0..n -> Seq(Capture)] /\ f[0] = <<>>
      /\ \A i \in 1..n : f[i] = goes(f[i - 1], i)
  BY CapturesAre
<1>2. AllCaptured(m) = b[n]
  BY DEF AllCaptured
<1> HIDE DEF n, goes
<1>3. f = [i \in 0..n |-> IF i = 0 THEN <<>> ELSE goes(f[i - 1], i)]
  BY <1>0, <1>1
<1>4. b = [i \in 0..n |-> IF i = 0 THEN <<>> ELSE goes(b[i - 1], i)]
  BY <1>3
<1> HIDE DEF b
<1>5. f[0] = b[0] /\ \A i \in 1..n : f[i - 1] = b[i - 1] => f[i] = b[i]
  <2>1. b[0] = <<>>
    BY <1>0, <1>4
  <2>2. \A i \in 1..n : b[i] = goes(b[i - 1], i)
    BY <1>0, <1>4
  <2>3. \A i \in 1..n : f[i] = goes(f[i - 1], i)
    BY <1>1
  <2>4. f[0] = b[0]
    BY <1>1, <2>1
  <2>5. ASSUME NEW i \in 1..n, f[i - 1] = b[i - 1] PROVE f[i] = b[i]
    BY <2>2, <2>3, <2>5
  <2> QED
    BY <2>4, <2>5
<1>6. \A i \in 0..n : f[i] = b[i]
  <2>1. n \in Nat
    BY <1>0
  <2> DEFINE T == {i \in 0..n : f[i] = b[i]}
  <2>8. 0 \in T /\ \A i \in 1..n : i - 1 \in T => i \in T
    BY <2>1, <1>5
  <2>9. 0..n \subseteq T
    <3> HIDE DEF T
    <3> QED
      BY ONLY <2>1, <2>8, Inductive, ZenonT(60)
  <2> QED
    BY <2>9
<1> QED
  BY <1>0, <1>1, <1>2, <1>6 DEF n

\* One more message is captured after the others.
LEMMA CapturedGrows ==
  ASSUME NEW m \in Seq(Message), NEW x \in Message
  PROVE  /\ AllCaptured(m) \in Seq(Capture)
         /\ AllCaptured(m \o <<x>>) = AllCaptured(m) \o Captured(x)
<1> DEFINE w == m \o <<x>>
           n == Len(m)
<1>0. n \in Nat /\ w \in Seq(Message) /\ Len(w) = n + 1 /\ w[n + 1] = x
      /\ \A i \in 1..n : w[i] = m[i]
  BY OneMore, LenProperties
<1> HIDE DEF w
<1>1. PICK y : CapturesOf(y, m)
  BY CapturesDefined
<1>2. PICK z : CapturesOf(z, w)
  BY <1>0, CapturesDefined
<1>3. /\ y[0] = <<>> /\ \A i \in 1..n : y[i] = y[i - 1] \o Captured(m[i])
      /\ z[0] = <<>> /\ \A i \in 1..n + 1 : z[i] = z[i - 1] \o Captured(w[i])
  <2>1. y[0] = <<>> /\ \A i \in 1..n : y[i] = y[i - 1] \o Captured(m[i])
    BY <1>1, CapturesAre
  <2>2. z[0] = <<>> /\ \A i \in 1..Len(w) : z[i] = z[i - 1] \o Captured(w[i])
    BY <1>0, <1>2, CapturesAre
  <2> QED
    BY <1>0, <2>1, <2>2
<1> DEFINE goes(c, i) == c \o Captured(w[i])
<1>4. /\ \A i \in 1..n : y[i] = goes(y[i - 1], i)
      /\ \A i \in 1..n + 1 : z[i] = goes(z[i - 1], i)
  BY <1>0, <1>3
<1>9. goes(z[n], n + 1) = z[n] \o Captured(x)
  BY <1>0
<1> HIDE DEF goes
<1>5. \A i \in 0..n : y[i] = z[i]
  <2>1. n \in Nat /\ y[0] = z[0]
    BY <1>0, <1>3
  <2> HIDE DEF n
  <2>2. \A i \in 1..n : y[i - 1] = z[i - 1] => y[i] = z[i]
    BY <1>0, <1>4
  <2> DEFINE T == {i \in 0..n : y[i] = z[i]}
  <2>8. 0 \in T /\ \A i \in 1..n : i - 1 \in T => i \in T
    BY <2>1, <2>2, <2>1
  <2>9. 0..n \subseteq T
    <3> HIDE DEF T
    <3> QED
      BY ONLY <2>1, <2>8, Inductive, ZenonT(60)
  <2> QED
    BY <2>9
<1>6. y[n] = z[n] /\ z[n + 1] = z[n] \o Captured(x)
  <2> HIDE DEF n
  <2>1. n \in 0..n /\ n + 1 \in 1..n + 1 /\ n + 1 - 1 = n
    BY <1>0
  <2> QED
    BY <1>4, <1>5, <1>9, <2>1
<1>7. AllCaptured(m) = y[n] /\ y[n] \in Seq(Capture)
  BY <1>1, CapturedIs
<1>8. AllCaptured(w) = z[n + 1]
  BY <1>0, <1>2, CapturedIs
<1> QED
  BY <1>6, <1>7, <1>8 DEF w

LEMMA NoneCaptured == AllCaptured(<<>>) = <<>>
<1>1. <<>> \in Seq(Message) /\ Len(<<>>) = 0
  OBVIOUS
<1>2. PICK y : CapturesOf(y, <<>>)
  BY <1>1, CapturesDefined
<1>3. y[0] = <<>>
  BY <1>1, <1>2, CapturesAre
<1> QED
  BY <1>1, <1>2, <1>3, CapturedIs

\* A number is how many there are up to it.
LEMMA Numbered ==
  ASSUME NEW n \in Nat, NEW i \in 1..n
  PROVE  i = CHOOSE k \in 1..n : Cardinality({j \in 1..n : j <= k}) = i
<1>1. ASSUME NEW k \in 1..n PROVE Cardinality({j \in 1..n : j <= k}) = k
  <2>1. {j \in 1..n : j <= k} = 1..k
    OBVIOUS
  <2>2. k \in Nat /\ k >= 1
    OBVIOUS
  <2>3. Cardinality(1..k) = k
    BY <2>2, FS_Interval
  <2> QED
    BY <2>1, <2>3
<1> DEFINE Place(k) == Cardinality({j \in 1..n : j <= k})
<1>2. \A k \in 1..n : Place(k) = k
  BY <1>1
<1> HIDE DEF Place
<1>3. i = CHOOSE k \in 1..n : Place(k) = i
  BY <1>2
<1> QED
  BY <1>3 DEF Place

\* A conversation that awaits no results has none to settle.
LEMMA NoneSettle ==
  ASSUME NEW told, told.unanswered = {}
  PROVE  Settled(told) = [messages |-> told.messages, unanswered |-> {}, results |-> <<>>]
<1> DEFINE came == told.unanswered \intersect DOMAIN told.results
           part(n) == LET id == CHOOSE i \in came : Cardinality({j \in came : j <= i}) = n
                      IN  [id |-> id, status |-> told.results[id]]
           parts == [n \in 1..Cardinality(came) |-> part(n)]
<1>1. Cardinality(came) = 0
  BY FS_EmptySet
<1>2. parts = <<>>
  <2> HIDE DEF part, came
  <2> QED
    BY <1>1
<1> QED
  BY <1>2 DEF Settled

\* One that was told every result of its calls settles all of them, in order.
LEMMA AllSettle ==
  ASSUME NEW turn \in Turns, turn.outcomes # <<>>, Len(turn.outcomes) = Len(turn.calls),
         \A i \in DOMAIN turn.outcomes : turn.outcomes[i] # "not_run",
         NEW told, told.unanswered = DOMAIN turn.calls,
         DOMAIN told.results = {i \in DOMAIN turn.outcomes : WasStarted(turn.outcomes[i])},
         \A i \in DOMAIN told.results : told.results[i] = turn.outcomes[i]
  PROVE  Settled(told) = [messages |-> Append(told.messages,
                                              [role |-> "tool", parts |-> Results(turn)]),
                          unanswered |-> {}, results |-> <<>>]
<1> DEFINE o == turn.outcomes
           came == told.unanswered \intersect DOMAIN told.results
           id(n) == CHOOSE i \in came : Cardinality({j \in came : j <= i}) = n
           part(n) == [id |-> id(n), status |-> told.results[id(n)]]
           parts == [n \in 1..Cardinality(came) |-> part(n)]
<1>1. /\ o \in Seq(Status) /\ turn.calls \in Seq(Calls)
      /\ Len(o) \in Nat /\ DOMAIN o = 1..Len(o) /\ DOMAIN turn.calls = 1..Len(o)
  BY DEF Turns
<1>2. came = 1..Len(o)
  BY <1>1 DEF WasStarted
<1>3. Cardinality(came) = Len(o)
  <2> HIDE DEF came
  <2>1. Cardinality(1..Len(o)) = Len(o)
    BY <1>1, FS_Interval
  <2> QED
    BY <1>2, <2>1
<1>4. ASSUME NEW n \in 1..Len(o) PROVE part(n) = [id |-> n, status |-> o[n]]
  <2>1. id(n) = n
    <3> HIDE DEF came, o
    <3> QED
      BY <1>1, <1>2, Numbered
  <2>2. told.results[n] = o[n]
    BY <1>1, <1>2
  <2> QED
    BY <2>1, <2>2
<1>5. parts = [n \in 1..Len(o) |-> [id |-> n, status |-> o[n]]]
  <2> HIDE DEF part, came, o
  <2> QED
    BY <1>3, <1>4
<1>6. parts = Results(turn)
  BY <1>1, <1>5 DEF Results
<1>7. parts # <<>>
  BY <1>6, ResultsType
<1>8. Settled(told) = [messages |-> Append(told.messages, [role |-> "tool", parts |-> parts]),
                       unanswered |-> {}, results |-> <<>>]
  <2> HIDE DEF part
  <2>1. Settled(told) = [messages |-> IF parts = <<>> THEN told.messages
                           ELSE Append(told.messages, [role |-> "tool", parts |-> parts]),
                         unanswered |-> {}, results |-> <<>>]
    BY DEF Settled, part
  <2> QED
    BY <1>7, <2>1
<1> QED
  BY <1>6, <1>8

-----------------------------------------------------------------------------
(* What's captured, while a run goes on.                                   *)

\* What's told so far: all of what the next attempt will be sent, or, from a
\* tool phase to the end of the attempt that answers it, the messages up to the
\* last response and, apart from them, what became of its calls.
AllTold ==
  conversation = [messages |-> AllCaptured(Messages), unanswered |-> {}, results |-> <<>>]

Unsettled ==
  /\ turns # <<>> /\ ~input
  /\ LET last == turns[Len(turns)]
     IN  /\ conversation.messages = AllCaptured(Before(turns))
         /\ conversation.unanswered = DOMAIN last.calls
         /\ DOMAIN conversation.results =
              {i \in DOMAIN last.outcomes : WasStarted(last.outcomes[i])}
         /\ \A i \in DOMAIN conversation.results :
              conversation.results[i] = last.outcomes[i]

\* While a turn is held its response has joined what the attempt was sent.
HeldJoined ==
  conversation = [messages |-> Append(chat.input, [role |-> "assistant", parts |-> held[1].calls]),
                  unanswered |-> DOMAIN held[1].calls, results |-> <<>>]

TellingInv ==
  /\ chat # NoChat => chat.input = AllCaptured(chat.sent)
  /\ ~Over =>
       /\ held = <<>> => AllTold \/ Unsettled
       /\ held # <<>> => chat # NoChat /\ HeldJoined

\* Whatever was told settles as what was sent.
LEMMA TellingSettles ==
  ASSUME LoopInv, TellingInv, held = <<>>, pc \notin {"pointB", "stopping", "done"}
  PROVE  Settled(conversation) = [messages |-> AllCaptured(Messages), unanswered |-> {},
                                  results |-> <<>>]
<1>0. ~Over /\ Clean
  BY DEF Over, LoopInv, Sent
<1>1. CASE AllTold
  <2>1. conversation.unanswered = {} /\ conversation.messages = AllCaptured(Messages)
    BY <1>1 DEF AllTold
  <2> QED
    BY <2>1, NoneSettle
<1>2. CASE Unsettled
  <2> DEFINE n == Len(turns)
             last == turns[n]
             r == Results(last)
             x == User(r, input)
             told == [role |-> "tool", parts |-> r]
  <2>1. /\ turns \in Seq(Turns) /\ Fed(turns) /\ Resulted(turns) /\ n \in 1..n
        /\ DOMAIN turns = 1..n /\ n \in Nat
    <3>1. turns \in Seq(Turns) /\ Fed(turns) /\ Resulted(turns)
      BY <1>0, LoopFed DEF FedInv
    <3> QED
      BY <1>2, <3>1, EmptySeq DEF Unsettled
  <2>2. /\ last \in Turns /\ last.outcomes # <<>> /\ Len(last.outcomes) = Len(last.calls)
        /\ \A i \in DOMAIN last.outcomes : last.outcomes[i] # "not_run"
    BY <1>0, <2>1 DEF Resulted, Clean
  <2>3. Settled(conversation) = [messages |-> Append(conversation.messages, told),
                                 unanswered |-> {}, results |-> <<>>]
    BY <1>2, <2>2, AllSettle DEF Unsettled
  <2>4. /\ r \in Seq(ResultSet) /\ r # <<>>
        /\ ResultsFor(turns, n + 1) = r
    BY <2>1, <2>2, ResultsType DEF ResultsFor
  <2>5. Messages = Before(turns) \o <<x>> /\ x \in Message
    BY <2>1, <2>4, MessagesAre, PushUserIs, MessageTypes DEF LoopInv, Typed, TypeOK, RecordTypeOK
  <2>6. Captured(x) = <<told>>
    <3>1. ~input
      BY <1>2 DEF Unsettled
    <3>2. input \in BOOLEAN
      BY DEF LoopInv, Typed, TypeOK, RecordTypeOK
    <3>3. Captured(x) = <<told>> \o <<>>
      BY <2>4, <3>1, <3>2, CapturedType
    <3> QED
      BY <3>3
  <2>7. Before(turns) \in Seq(Message)
    BY <2>1, BeforeIs DEF Exchanged
  <2> DEFINE m == Before(turns)
  <2>8. AllCaptured(Messages) = AllCaptured(m) \o <<told>> /\ AllCaptured(m) \in Seq(Capture)
    <3> HIDE DEF x, m, told
    <3> QED
      BY <2>5, <2>6, <2>7, CapturedGrows DEF m
  <2>9. AllCaptured(Messages) = Append(AllCaptured(m), told)
    <3> HIDE DEF told, m
    <3> QED
      BY <2>8, AppendIsConcat
  <2> QED
    BY <1>2, <2>3, <2>9 DEF Unsettled
<1> QED
  BY <1>0, <1>1, <1>2 DEF TellingInv

LEMMA TellingInit == ConversationInit => TellingInv
<1> SUFFICES ASSUME ConversationInit PROVE TellingInv
  OBVIOUS
<1>1. turns = <<>> /\ input = TRUE /\ held = <<>> /\ chat = NoChat /\ conversation = Opening
  BY DEF ConversationInit, Init, RecordInit
<1>2. turns \in Seq(Turns) /\ Len(turns) = 0 /\ Fed(turns)
  BY <1>1 DEF Fed
<1> DEFINE x == User(<<>>, TRUE)
<1>3. x \in Message /\ Captured(x) = <<Task>>
  <2>1. <<>> \in Seq(ResultSet) /\ TRUE \in BOOLEAN
    OBVIOUS
  <2>2. Captured(x) = <<>> \o <<Task>>
    BY <2>1, CapturedType
  <2>3. <<>> \o <<Task>> = <<Task>>
    OBVIOUS
  <2>4. x \in Message
    BY <2>1, MessageTypes
  <2> HIDE DEF x
  <2> QED
    BY <2>2, <2>3, <2>4
<1>4. Before(turns) = <<>>
  <2>1. Exchanged(Before(turns), turns, 0)
    BY <1>2, BeforeIs
  <2> QED
    BY <2>1, EmptySeq DEF Exchanged
<1>5. Messages = <<>> \o <<x>>
  <2>1. ResultsFor(turns, Len(turns) + 1) = <<>>
    BY <1>2 DEF ResultsFor
  <2> QED
    BY <1>1, <1>2, <1>4, <2>1, MessagesAre, PushUserIs
<1>6. AllCaptured(Messages) = <<Task>>
  <2> HIDE DEF x
  <2>1. <<>> \in Seq(Message) /\ <<>> \o <<Task>> = <<Task>>
    OBVIOUS
  <2>2. AllCaptured(<<>> \o <<x>>) = AllCaptured(<<>>) \o Captured(x)
    BY <1>3, <2>1, CapturedGrows
  <2> QED
    BY <1>3, <1>5, <2>1, <2>2, NoneCaptured
<1>7. AllTold
  BY <1>1, <1>6 DEF AllTold, Opening, Task
<1> QED
  BY <1>1, <1>7 DEF TellingInv

LEMMA TellingStep ==
  LoopInv /\ LoopInv' /\ FedInv' /\ Announced /\ Sends /\ TellingInv
    /\ [ConversationNext]_<<vars, telling>> => TellingInv'
<1> SUFFICES ASSUME LoopInv, LoopInv', FedInv', Announced, Sends, TellingInv,
                    [ConversationNext]_<<vars, telling>>
             PROVE  TellingInv'
  OBVIOUS
<1>0. /\ pc \notin {"pointR", "tools"} /\ ~Over => held = <<>>
      /\ pc \in {"pointR", "tools"} => held # <<>>
      /\ Len(held) <= 1 /\ held \in Seq(Turns)
  BY DEF LoopInv, Typed, TypeOK, RecordTypeOK, Shape, Over
<1>a. ASSUME UNCHANGED <<turns, input, held, conversation, chat>>, Over => Over'
      PROVE  TellingInv'
  <2>1. Messages' = Messages
    BY <1>a, MessagesKept
  <2> QED
    BY <1>a, <2>1 DEF TellingInv, AllTold, Unsettled, HeldJoined
\* The attempt that was open ends, and the conversation is told that.
<1> DEFINE told == Settled(conversation)
<1>b. ASSUME Open
      PROVE  /\ held = <<>> /\ ~Over
             /\ told = [messages |-> AllCaptured(Messages), unanswered |-> {}, results |-> <<>>]
             /\ opened.sent = Messages
  BY <1>0, <1>b, TellingSettles DEF Open, Over, Sends
<1> HIDE DEF told
<1>c. ASSUME Open, chat'.sent = opened.sent, chat'.input = told.messages,
             conversation' = told, UNCHANGED turns,
             Over' \/ (UNCHANGED <<input, held>>)
      PROVE  TellingInv'
  <2>1. chat'.input = AllCaptured(chat'.sent)
    BY <1>b, <1>c
  <2>2. ~Over' => AllTold'
    BY <1>b, <1>c, MessagesKept DEF AllTold
  <2> QED
    BY <1>b, <1>c, <2>1, <2>2 DEF TellingInv
<1>1. CASE OpenChat
  <2>1. UNCHANGED <<turns, input, held, conversation, chat>> /\ pc = "admit"
    BY <1>1 DEF OpenChat, BeginAttempt, recordVars
  <2> QED
    BY <1>a, <2>1 DEF Over
<1>2. ASSUME NEW r \in Responses, ResponseCame(r) PROVE TellingInv'
  <2>1. Open /\ UNCHANGED turns
    BY <1>2 DEF ResponseCame, ProviderResponds, Responded, Open
  <2>2. held' # <<>> /\ held'[1].calls = r.calls
    <3>1. held' = <<[input |-> input, finish |-> r.finish, calls |-> r.calls,
                     attempts |-> failedAttempts + 1, outcomes |-> <<>>]>>
      BY <1>2 DEF ResponseCame, ProviderResponds, Responded
    <3> QED
      BY <3>1
  <2>3. /\ chat'.turn = opened.turn /\ chat'.sent = opened.sent /\ chat'.input = told.messages
        /\ conversation' = Joined(told, r.calls)
    BY <1>2 DEF ResponseCame, EndChat, told
  <2>4. chat' # NoChat
    BY <2>1, <2>3 DEF Announced, NoChat, LoopInv, Typed, TypeOK, RecordTypeOK
  <2>5. HeldJoined'
    BY <2>2, <2>3 DEF HeldJoined, Joined
  <2>6. chat'.input = AllCaptured(chat'.sent)
    BY <1>b, <2>1, <2>3
  <2> QED
    BY <2>2, <2>4, <2>5, <2>6 DEF TellingInv
<1>3. ASSUME NEW f \in Failures, AttemptFailed(f) PROVE TellingInv'
  <2>1. Open /\ pc = "calling" /\ UNCHANGED <<turns, input, held>>
    BY <1>3 DEF AttemptFailed, ProviderFails, FailedAttempt, Open
  <2>2. CASE f.kind \in Retryable
    BY <1>3, <1>a, <2>1, <2>2 DEF AttemptFailed, telling, Over
  <2>3. CASE f.kind \notin Retryable
    <3>1. /\ pc' = "stopping" /\ chat'.sent = opened.sent /\ chat'.input = told.messages
          /\ conversation' = told
      BY <1>3, <2>3 DEF AttemptFailed, ProviderFails, Stop, Unanswered, EndChat, told
    <3> QED
      BY <1>c, <2>1, <3>1
  <2> QED
    BY <2>2, <2>3
<1>4. CASE AfterFailure
  <2>1. /\ asker = "failure" /\ pc = "admit" /\ UNCHANGED <<turns, input, held>>
    BY <1>4 DEF AfterFailure, NotAdmitted, AskRetry, Stop, recordVars
  <2>2. /\ chat'.sent = opened.sent /\ chat'.input = told.messages
        /\ conversation' = told
    BY <1>4 DEF AfterFailure, Unanswered, EndChat, told
  <2> QED
    BY <1>c, <2>1, <2>2 DEF Open
<1>5. CASE Dropped
  <2>1. /\ pc = "calling" /\ pc' = "stopping" /\ UNCHANGED <<turns, input>>
        /\ chat'.sent = opened.sent /\ chat'.input = told.messages
        /\ conversation' = told
    BY <1>5 DEF Dropped, AttemptDropped, FailedAttempt, Stop, Unanswered, EndChat, told
  <2> QED
    BY <1>c, <2>1 DEF Open, Over
<1>6. CASE ResultsCame
  <2>1. /\ pc = "tools" /\ pc' = "pointB" /\ UNCHANGED <<input, chat, opened>>
        /\ held' = <<>> /\ held # <<>>
        /\ \E outcomes : turns' = Append(turns, [held[1] EXCEPT !.outcomes = outcomes])
        /\ conversation' = Answer(conversation, turns'[Len(turns')].outcomes)
    BY <1>0, <1>6 DEF ResultsCame, ToolsAnswer, Answered
  <2>2. PICK outcomes : turns' = Append(turns, [held[1] EXCEPT !.outcomes = outcomes])
    BY <2>1
  <2> DEFINE x == [held[1] EXCEPT !.outcomes = outcomes]
             n == Len(turns)
  <2>3. held[1] \in Turns
    BY <1>0, <2>1
  <2>4. x.input = held[1].input /\ x.calls = held[1].calls /\ x.outcomes = outcomes
    BY <2>3 DEF Turns
  <2>5. /\ turns \in Seq(Turns) /\ turns' \in Seq(Turns) /\ turns' = Append(turns, x)
        /\ Fed(turns') /\ Resulted(turns')
    BY <2>1, <2>2 DEF Over, FedInv, LoopInv, Typed, TypeOK, RecordTypeOK
  <2> HIDE DEF x
  <2>6. /\ n \in Nat /\ Len(turns') = n + 1 /\ turns'[n + 1] = x /\ x \in Turns
        /\ \A i \in 1..n : turns'[i] = turns[i]
    BY <2>5
  <2>7. chat # NoChat /\ chat.input = AllCaptured(chat.sent) /\ HeldJoined
        /\ Asks(chat.sent, turns, x.input)
    BY <2>1, <2>4 DEF TellingInv, Sends, Over
  <2> DEFINE m == chat.sent
             a == Assistant(x.calls)
  <2>8. m \in Seq(Message) /\ Len(m) = 2 * n + 1 /\ a \in Message /\ x.calls \in Seq(Calls)
    BY <2>6, <2>7, MessageTypes DEF Asks, Turns
  <2>9. Before(turns') = m \o <<a>>
    <3> DEFINE w == Before(turns')
               u == m \o <<a>>
    <3>1. Exchanged(w, turns', n + 1)
      BY <2>5, <2>6, BeforeIs
    <3>2. /\ u \in Seq(Message) /\ Len(u) = 2 * n + 2 /\ u[2 * n + 2] = a
          /\ \A k \in 1..2 * n + 1 : u[k] = m[k]
      <4> HIDE DEF a, m, n
      <4>1. 2 * n + 1 + 1 = 2 * n + 2
        BY <2>6
      <4> QED
        BY <2>8, <4>1, OneMore
    <3>3. w \in Seq(Message) /\ Len(w) = 2 * n + 2
      BY <2>6, <3>1 DEF Exchanged
    <3>4. ASSUME NEW i \in 1..n + 1
          PROVE  w[2 * i - 1] = m[2 * i - 1]
      <4>1. w[2 * i - 1] = User(ResultsFor(turns', i), turns'[i].input)
        BY <3>1 DEF Exchanged
      <4>2. ResultsFor(turns', i) = ResultsFor(turns, i)
        <5>1. i # 1 => i - 1 \in 1..n
          BY <2>6
        <5> QED
          BY <2>6, <5>1 DEF ResultsFor
      <4>3. CASE i = n + 1
        <5>1. 2 * i - 1 = 2 * n + 1
          BY <2>6, <4>3
        <5> QED
          BY <2>6, <2>7, <4>1, <4>2, <4>3, <5>1 DEF Asks
      <4>4. CASE i # n + 1
        <5>1. i \in 1..n
          BY <2>6, <4>4
        <5> QED
          BY <2>6, <2>7, <4>1, <4>2, <5>1 DEF Asks
      <4> QED
        BY <4>3, <4>4
    <3>5. ASSUME NEW i \in 1..n PROVE w[2 * i] = m[2 * i]
      <4>1. i \in 1..n + 1
        BY <2>6
      <4> QED
        BY <2>6, <2>7, <3>1, <4>1 DEF Exchanged, Asks
    <3>6. w[2 * n + 2] = a
      <4>1. n + 1 \in 1..n + 1 /\ 2 * (n + 1) = 2 * n + 2
        BY <2>6
      <4> QED
        BY <2>6, <3>1, <4>1 DEF Exchanged
    <3> HIDE DEF w, u, m, a, n
    <3>7. ASSUME NEW k \in 1..2 * n + 2 PROVE w[k] = u[k]
      <4>1. CASE k = 2 * n + 2
        BY <3>2, <3>6, <4>1
      <4>2. CASE k # 2 * n + 2
        <5>1. k \in 1..2 * n + 1
          BY <2>6, <4>2
        <5>2. w[k] = m[k]
          BY <2>6, <3>4, <3>5, <5>1, Halves
        <5> QED
          BY <3>2, <5>1, <5>2
      <4> QED
        BY <4>1, <4>2
    <3>8. w = u
      BY <3>2, <3>3, <3>7, SeqEqual
    <3> QED
      BY <3>8 DEF w, u, m, a
  <2>10. conversation'.messages = AllCaptured(Before(turns'))
    <3> DEFINE joined == [role |-> "assistant", parts |-> x.calls]
    <3>1. Captured(a) = <<joined>>
      BY <2>8, CapturedType
    <3> HIDE DEF m, a, joined
    <3>2. /\ AllCaptured(m) \in Seq(Capture)
          /\ AllCaptured(m \o <<a>>) = AllCaptured(m) \o <<joined>>
      BY <2>8, <3>1, CapturedGrows
    <3>3. AllCaptured(m \o <<a>>) = Append(AllCaptured(m), joined)
      BY <3>2, AppendIsConcat
    <3>4. conversation.messages = Append(AllCaptured(m), joined)
      BY <2>4, <2>7 DEF HeldJoined, joined, m
    <3>5. conversation'.messages = conversation.messages
      BY <2>1, <2>7 DEF Answer, HeldJoined
    <3> QED
      BY <2>9, <3>3, <3>4, <3>5
  <2>11. /\ conversation'.unanswered = DOMAIN x.calls
         /\ DOMAIN conversation'.results = {i \in DOMAIN x.outcomes : WasStarted(x.outcomes[i])}
         /\ \A i \in DOMAIN conversation'.results : conversation'.results[i] = x.outcomes[i]
    <3>1. conversation' = Answer(conversation, x.outcomes)
      BY <2>1, <2>6
    <3>2. DOMAIN conversation.results = {}
      BY <2>7 DEF HeldJoined
    <3> QED
      BY <2>4, <2>7, <3>1, <3>2 DEF Answer, HeldJoined
  <2>12. turns' # <<>> /\ ~input'
    BY <2>1, <2>6, EmptySeq DEF LoopInv, RecordInv, Rules, Typed, TypeOK, RecordTypeOK
  <2>13. Unsettled'
    BY <2>6, <2>10, <2>11, <2>12 DEF Unsettled
  <2> QED
    BY <2>1, <2>7, <2>13 DEF TellingInv
<1>7. CASE Untold \/ UNCHANGED <<vars, telling>>
  <2>1. UNCHANGED <<conversation, chat>>
    BY <1>7 DEF Untold, telling
  <2>2. CASE Close
    BY <2>1, <2>2 DEF Close, TellingInv, Over
  <2>3. CASE ~Close
    <3>1. UNCHANGED <<turns, input, held>> /\ (Over => Over')
      BY <1>7, <2>3 DEF Untold, ReadClock, NotAdmitted, WaitEnds, WaitDropped, AfterPointR, PointB,
                        Tick, Cancel, Done, Stop, vars, recordVars, Over
    <3> QED
      BY <1>a, <2>1, <3>1
  <2> QED
    BY <2>2, <2>3
<1> QED
  BY <1>1, <1>2, <1>3, <1>4, <1>5, <1>6, <1>7 DEF ConversationNext

LEMMA TellingHolds == TellingInv /\ Measures => ToldIsSent
  BY DEF TellingInv, Measures, ToldIsSent, CapturedIsSent, AllCaptured

\* What a run says of an attempt is what it sent, whatever ended the attempt
\* and those before it: the captured exchange is its request and the measured
\* bytes are all of its messages (conversation.rs, service.rs RequestBytes).
THEOREM ToldIsAlwaysSent == ConversationSpec => []ToldIsSent
<1>1. ConversationInit => Init
  BY DEF ConversationInit
<1>2. LoopInv => Typed /\ Counts /\ Tallied
  BY DEF LoopInv
<1> QED
  BY <1>1, <1>2, LoopInvInit, LoopInvStep, ConversationIsLoop, AnnouncedInit, AnnouncedStep,
     LoopFed, LoopAsks, SendsInit, SendsStep, MeasuresInit, MeasuresStep, TellingInit, TellingStep,
     TellingHolds, PTL DEF ConversationSpec
=============================================================================
