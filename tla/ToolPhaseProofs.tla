--------------------------- MODULE ToolPhaseProofs ---------------------------
(***************************************************************************)
(* The tool phase implements what it promises the loop, for any calls, any *)
(* size of the pool and any timeout; and over the tools of a run, whatever *)
(* it's built of, a call reaches its own tool.                             *)
(***************************************************************************)
EXTENDS OfferedPhase, SequenceTheorems, FiniteSetTheorems, WellFoundedInduction, TLAPS

\* What may be said of call i once it has ended, the run being as it is.
Explained(i) ==
  \/ outcome[i] \in Settles(calls[i])
  \/ outcome[i] = "cancelled" /\ cancelled /\ Executes(calls[i])
  \/ outcome[i] = "not_run" /\ TooLate

\* An outcome stays explained because a cancellation stays and time only
\* passes; a deadline is the run's timeout whenever the call's turn came; and
\* the pool takes only calls that still wait.
PhaseInv ==
  /\ now \in Nat /\ cancelled \in BOOLEAN /\ next \in Nat
  /\ calls \in Seq(Calls) /\ calls # <<>>
  /\ place \in [DOMAIN calls -> {"waiting", "pooled", "running", "ended"}]
  /\ outcome \in [DOMAIN calls -> Status \union {NoOutcome}]
  /\ until \in [DOMAIN calls -> Nat]
  /\ \A i \in DOMAIN calls :
       /\ place[i] = "ended" => Explained(i)
       /\ place[i] = "running" => Executes(calls[i]) /\ until[i] = Timeout
       /\ i >= next => place[i] = "waiting"

LEMMA SettlesType == \A call \in Calls : Settles(call) \subseteq Status
  BY DEF Settles, Status, Executed, Invalid

LEMMA CallsType == PhaseInv => \A i \in DOMAIN calls : calls[i] \in Calls
  BY LenProperties DEF PhaseInv

LEMMA PhaseInvInit == Init => PhaseInv
<1> SUFFICES ASSUME Init PROVE PhaseInv
  OBVIOUS
<1>1. calls \in Seq(Calls) /\ calls # <<>>
  BY PhaseAssumption DEF Init
<1>2. now \in Nat
  BY PhaseAssumption DEF Init
<1> QED
  BY <1>1, <1>2 DEF Init, PhaseInv

\* A call that ends with an explained outcome keeps the invariant.
LEMMA EndsAsKeeps ==
  ASSUME PhaseInv, NEW i \in DOMAIN calls, NEW status \in Status,
         place[i] \in {"pooled", "running"}, EndsAs(i, status),
         \/ status \in Settles(calls[i])
         \/ status = "cancelled" /\ cancelled /\ Executes(calls[i])
         \/ status = "not_run" /\ TooLate
  PROVE  PhaseInv'
<1>1. /\ UNCHANGED <<now, cancelled, calls, next, until>>
      /\ place' = [place EXCEPT ![i] = "ended"]
      /\ outcome' = [outcome EXCEPT ![i] = status]
  BY DEF EndsAs
<1>2. /\ place' \in [DOMAIN calls -> {"waiting", "pooled", "running", "ended"}]
      /\ outcome' \in [DOMAIN calls -> Status \union {NoOutcome}]
  BY <1>1 DEF PhaseInv
<1>3. ASSUME NEW j \in DOMAIN calls
      PROVE  /\ place'[j] = "ended" => Explained(j)'
             /\ place'[j] = "running" => Executes(calls[j]) /\ until[j] = Timeout
             /\ j >= next => place'[j] = "waiting"
  <2>1. CASE j = i
    BY <1>1, <2>1 DEF PhaseInv, Explained, TooLate
  <2>2. CASE j # i
    <3>1. place'[j] = place[j] /\ outcome'[j] = outcome[j]
      BY <1>1, <2>2 DEF PhaseInv
    <3> QED
      BY <1>1, <3>1 DEF PhaseInv, Explained, TooLate
  <2> QED
    BY <2>1, <2>2
<1> QED
  BY <1>1, <1>2, <1>3 DEF PhaseInv

LEMMA PhaseInvStep == PhaseInv /\ [Next]_vars => PhaseInv'
<1> SUFFICES ASSUME PhaseInv, [Next]_vars PROVE PhaseInv'
  OBVIOUS
<1>1. CASE NextGroup
  BY <1>1 DEF NextGroup, PhaseInv, Explained, TooLate
<1>2. CASE Take
  <2>1. /\ UNCHANGED <<now, cancelled, calls, until, outcome>>
        /\ place' = [place EXCEPT ![next] = "pooled"] /\ next' = next + 1
    BY <1>2 DEF Take
  <2>2. place' \in [DOMAIN calls -> {"waiting", "pooled", "running", "ended"}]
    BY <2>1 DEF PhaseInv
  <2>3. ASSUME NEW j \in DOMAIN calls
        PROVE  /\ place'[j] = "ended" => Explained(j)'
               /\ place'[j] = "running" => Executes(calls[j]) /\ until[j] = Timeout
               /\ j >= next' => place'[j] = "waiting"
    <3>0. j \in Nat /\ next \in Nat
      BY LenProperties DEF PhaseInv
    <3>1. CASE j = next
      BY <2>1, <3>0, <3>1 DEF PhaseInv
    <3>2. CASE j # next
      BY <2>1, <3>0, <3>2 DEF PhaseInv, Explained, TooLate
    <3> QED
      BY <3>1, <3>2
  <2> QED
    BY <2>1, <2>2, <2>3 DEF PhaseInv
<1>3. ASSUME NEW i \in DOMAIN calls, Turn(i) PROVE PhaseInv'
  <2>1. CASE TooLate
    BY <1>3, <2>1, EndsAsKeeps DEF Turn, Status
  <2>2. CASE ~TooLate /\ Executes(calls[i])
    <3>1. /\ UNCHANGED <<now, cancelled, calls, next, outcome>>
          /\ place' = [place EXCEPT ![i] = "running"]
          /\ until' = [until EXCEPT ![i] = now + TimeLeft(now)]
      BY <1>3, <2>2 DEF Turn
    <3>2. now + TimeLeft(now) = Timeout
      BY <2>2, LimitsAssumption DEF TooLate, TimeLeft, PhaseInv
    <3>3. /\ place' \in [DOMAIN calls -> {"waiting", "pooled", "running", "ended"}]
          /\ until' \in [DOMAIN calls -> Nat]
      BY <3>1, <3>2, LimitsAssumption DEF PhaseInv
    <3>4. ASSUME NEW j \in DOMAIN calls
          PROVE  /\ place'[j] = "ended" => Explained(j)'
                 /\ place'[j] = "running" => Executes(calls[j]) /\ until'[j] = Timeout
                 /\ j >= next => place'[j] = "waiting"
      <4>1. CASE j = i
        BY <1>3, <2>2, <3>1, <3>2, <4>1 DEF PhaseInv, Turn
      <4>2. CASE j # i
        BY <3>1, <4>2 DEF PhaseInv, Explained, TooLate
      <4> QED
        BY <4>1, <4>2
    <3> QED
      BY <3>1, <3>3, <3>4 DEF PhaseInv
  <2>3. CASE ~TooLate /\ ~Executes(calls[i])
    <3>1. PICK status \in Settles(calls[i]) : EndsAs(i, status)
      BY <1>3, <2>3 DEF Turn
    <3>2. status \in Status
      BY <3>1, SettlesType, CallsType
    <3> QED
      BY <1>3, <3>1, <3>2, EndsAsKeeps DEF Turn
  <2> QED
    BY <2>1, <2>2, <2>3
<1>4. ASSUME NEW i \in DOMAIN calls, End(i) PROVE PhaseInv'
  <2>1. PICK status \in Settles(calls[i]) : EndsAs(i, status)
    BY <1>4 DEF End
  <2>2. status \in Status
    BY <2>1, SettlesType, CallsType
  <2> QED
    BY <1>4, <2>1, <2>2, EndsAsKeeps DEF End
<1>5. ASSUME NEW i \in DOMAIN calls, Drop(i) PROVE PhaseInv'
  <2>1. Executes(calls[i]) /\ cancelled
    BY <1>5 DEF Drop, PhaseInv
  <2> QED
    BY <1>5, <2>1, EndsAsKeeps DEF Drop, Status
<1>6. CASE Tick
  <2>1. now' = now + 1 /\ UNCHANGED <<cancelled, calls, next, place, until, outcome>>
    BY <1>6 DEF Tick
  <2>2. TooLate => TooLate'
    BY <2>1, LimitsAssumption DEF TooLate, TimeLeft, PhaseInv
  <2>3. \A i \in DOMAIN calls : Explained(i) => Explained(i)'
    BY <2>1, <2>2 DEF Explained
  <2> QED
    BY <2>1, <2>3 DEF PhaseInv
<1>7. CASE Cancel
  <2>1. cancelled' = TRUE /\ UNCHANGED <<now, calls, next, place, until, outcome>>
    BY <1>7 DEF Cancel
  <2>2. \A i \in DOMAIN calls : Explained(i) => Explained(i)'
    BY <2>1 DEF Explained, TooLate
  <2> QED
    BY <2>1, <2>2 DEF PhaseInv
<1>8. CASE UNCHANGED vars
  BY <1>8 DEF vars, PhaseInv, Explained, TooLate
<1> QED
  BY <1>1, <1>2, <1>3, <1>4, <1>5, <1>6, <1>7, <1>8 DEF Next, PhaseStep, Done

-----------------------------------------------------------------------------
(* The refinement.                                                         *)

\* The instance's words for time left and for outcomes mean what they mean here.
LEMMA SameWords ==
  /\ \A t : Promised!TimeLeft(t) = TimeLeft(t)
  /\ \A c, x, o : Promised!Outcomes(c, x, o) = Outcomes(c, x, o)
<1>1. \A t : Promised!TimeLeft(t) = TimeLeft(t)
  BY DEF TimeLeft, Promised!TimeLeft
<1>2. \A call : Promised!Executes(call) = Executes(call)
  BY DEF Executes, Promised!Executes, Intercepts, Promised!Intercepts
<1>3. \A call : Promised!Settles(call) = Settles(call)
  BY DEF Settles, Promised!Settles, Intercepts, Promised!Intercepts, Executed,
         Promised!Executed
<1>4. Promised!Status = Status
  BY DEF Status, Promised!Status, Executed, Promised!Executed, Invalid, Promised!Invalid
<1> QED
  BY <1>1, <1>2, <1>3, <1>4 DEF Outcomes, Promised!Outcomes

\* Once every call has ended the outcomes are what the loop may be handed.
LEMMA EndedAsPromised ==
  PhaseInv /\ AllEnded => /\ outcome \in Outcomes(calls, cancelled, TimeLeft(now) = 0)
                          /\ outcome # <<>>
<1> SUFFICES ASSUME PhaseInv, AllEnded
             PROVE  /\ outcome \in Outcomes(calls, cancelled, TimeLeft(now) = 0)
                    /\ outcome # <<>>
  OBVIOUS
<1>1. ASSUME NEW i \in DOMAIN calls
      PROVE  Explained(i) /\ outcome[i] \in Status
  <2>1. Explained(i)
    BY DEF PhaseInv, AllEnded
  <2> QED
    BY <2>1, SettlesType, CallsType DEF Explained, Status
<1>2. outcome \in [DOMAIN calls -> Status]
  BY <1>1 DEF PhaseInv
<1>3. outcome # <<>>
  <2>1. DOMAIN outcome = 1..Len(calls) /\ Len(calls) \in Nat \ {0}
    BY LenProperties, EmptySeq DEF PhaseInv
  <2>2. 1 \in DOMAIN outcome
    BY <2>1
  <2> QED
    BY <2>2
<1> QED
  BY <1>1, <1>2, <1>3 DEF Outcomes, Explained, TooLate

\* A step of one call changes what's promised only when it ends the last one.
LEMMA StepAsPromised ==
  ASSUME PhaseInv, PhaseInv', ~AllEnded, UNCHANGED <<now, cancelled, calls>>
  PROVE  [Promised!AnswerNext]_(Promised!answerVars)
<1>1. CASE AllEnded'
  <2>1. outcome' \in Outcomes(calls, cancelled, TimeLeft(now) = 0)
    <3>1. (outcome \in Outcomes(calls, cancelled, TimeLeft(now) = 0))'
      BY <1>1, EndedAsPromised, PTL
    <3> QED
      BY <3>1 DEF Outcomes, TimeLeft
  <2> QED
    BY <1>1, <2>1, SameWords DEF Promised!AnswerNext, Promised!AllAnswer
<1>2. CASE ~AllEnded'
  BY <1>2 DEF Promised!answerVars
<1> QED
  BY <1>1, <1>2

LEMMA RefinementStep ==
  PhaseInv /\ PhaseInv' /\ [Next]_vars => [Promised!AnswerNext]_(Promised!answerVars)
<1> SUFFICES ASSUME PhaseInv, PhaseInv', [Next]_vars
             PROVE  [Promised!AnswerNext]_(Promised!answerVars)
  OBVIOUS
<1>1. CASE Tick
  <2>1. /\ ~AllEnded /\ ~AllEnded' /\ now < TimeBound /\ now' = now + 1
        /\ UNCHANGED <<cancelled, calls>>
    BY <1>1 DEF Tick, AllEnded
  <2>2. Punctual => now < Timeout
    BY <1>1 DEF Tick, PhaseInv
  <2> QED
    BY <2>1, <2>2 DEF Promised!AnswerNext, Promised!TimePasses
<1>2. CASE Cancel
  <2>1. /\ ~AllEnded /\ ~AllEnded' /\ ~cancelled /\ cancelled' = TRUE
        /\ UNCHANGED <<now, calls>>
    BY <1>2 DEF Cancel, AllEnded
  <2> QED
    BY <2>1 DEF Promised!AnswerNext, Promised!RunCancelled
<1>3. CASE NextGroup \/ UNCHANGED vars
  BY <1>3 DEF NextGroup, vars, Promised!answerVars, AllEnded
<1>4. CASE Take
  <2>1. UNCHANGED <<now, cancelled, calls>>
    BY <1>4 DEF Take
  <2>2. CASE AllEnded
    <3>1. next \notin DOMAIN calls
      <4>1. next \in DOMAIN calls => place[next] = "waiting"
        <5>1. next >= next
          BY DEF PhaseInv
        <5> QED
          BY <5>1 DEF PhaseInv
      <4> QED
        BY <2>2, <4>1 DEF AllEnded
    <3>2. place' = place /\ outcome' = outcome
      BY <1>4, <3>1 DEF Take, PhaseInv
    <3> QED
      BY <2>1, <3>2 DEF Promised!answerVars, AllEnded
  <2> QED
    BY <2>1, <2>2, StepAsPromised
<1>5. ASSUME NEW i \in DOMAIN calls, Turn(i) \/ Drop(i) \/ End(i)
      PROVE  [Promised!AnswerNext]_(Promised!answerVars)
  <2>1. ~AllEnded
    BY <1>5 DEF AllEnded, Turn, Drop, End
  <2>2. UNCHANGED <<now, cancelled, calls>>
    BY <1>5 DEF Turn, Drop, End, EndsAs
  <2> QED
    BY <2>1, <2>2, StepAsPromised
<1> QED
  BY <1>1, <1>2, <1>3, <1>4, <1>5 DEF Next, PhaseStep, Done

\* Call by call the phase does what RunLoop's one step says: every call has an
\* outcome the state of the run explains, in call order, within the run's
\* timeout when executors keep their deadlines (run.rs Pending::answer,
\* service.rs answer).
THEOREM ImplementsAnswers == Spec => AnswersAsPromised
<1>1. Init => Promised!AnswerInit
  <2> SUFFICES ASSUME Init PROVE Promised!AnswerInit
    OBVIOUS
  <2>1. ~AllEnded
    <3>1. calls \in Seq(Calls) /\ calls # <<>>
      BY PhaseAssumption DEF Init
    <3>2. 1 \in DOMAIN calls
      BY <3>1, LenProperties, EmptySeq
    <3> QED
      BY <3>2 DEF Init, AllEnded
  <2> QED
    BY <2>1, SameWords DEF Init, Promised!AnswerInit
<1> QED
  BY PhaseInvInit, PhaseInvStep, RefinementStep, <1>1, PTL
     DEF Spec, AnswersAsPromised, Promised!AnswerSpec

-----------------------------------------------------------------------------
(* The groups.                                                             *)

\* The calls from i to j may all run beside each other.
Beside(i, j) == \A k \in i..j : Shared(calls[k])

\* Of the calls of the groups cut so far, one has ended or runs beside every
\* call after it that isn't in a later group; and the calls before next have
\* all been taken.
GroupInv ==
  /\ after \in 0..Len(calls) /\ next \in 1..after + 1
  /\ \A j \in DOMAIN calls : j < next => place[j] # "waiting"
  /\ \A i, j \in DOMAIN calls : i < j /\ j <= after => place[i] = "ended" \/ Beside(i, j)
  /\ Cardinality(InPool) <= MaxConcurrent

LEMMA LeastNumber ==
  ASSUME NEW T \in SUBSET Nat, T # {}
  PROVE  \E n \in T : \A m \in T : n <= m
<1>1. IsWellFoundedOn(OpToRel(<,Nat), Nat)
  BY NatLessThanWellFounded
<1>2. PICK n \in T : \A y \in T : ~(<<y, n>> \in OpToRel(<,Nat))
  BY <1>1, WFMin
<1>3. \A y \in T : ~(y < n)
  BY <1>2 DEF OpToRel
<1> QED
  BY <1>3

\* What a group is: its first call, and the calls after it as far as all of
\* them are shared (run.rs Pending::answer).
LEMMA GroupEndIs ==
  ASSUME PhaseInv, NEW first \in DOMAIN calls
  PROVE  /\ GroupEnd(first) \in first..Len(calls)
         /\ \A i \in first..GroupEnd(first) :
              i = first \/ (Shared(calls[first]) /\ Shared(calls[i]))
<1> DEFINE Group(last) ==
      /\ \A i \in first..last : i = first \/ (Shared(calls[first]) /\ Shared(calls[i]))
      /\ last < Len(calls) => ~Shared(calls[first]) \/ ~Shared(calls[last + 1])
<1>0. Len(calls) \in Nat /\ first \in Nat /\ first <= Len(calls) /\ first >= 1
  BY LenProperties DEF PhaseInv
<1>1. \E last \in first..Len(calls) : Group(last)
  <2>1. CASE ~Shared(calls[first])
    BY <1>0, <2>1
  <2>2. CASE Shared(calls[first])
    <3> DEFINE cuts == {k \in first..Len(calls) : k < Len(calls) => ~Shared(calls[k + 1])}
    <3>1. Len(calls) \in cuts /\ cuts \in SUBSET Nat
      BY <1>0
    <3> HIDE DEF cuts
    <3>2. PICK last \in cuts : \A m \in cuts : last <= m
      BY <3>1, LeastNumber
    <3>3. last \in first..Len(calls) /\ (last < Len(calls) => ~Shared(calls[last + 1]))
      BY <3>2 DEF cuts
    <3>4. ASSUME NEW i \in first..last, i # first PROVE Shared(calls[i])
      <4>1. i - 1 \in first..Len(calls) /\ i - 1 < last /\ i - 1 < Len(calls)
        BY <1>0, <3>3, <3>4
      <4>2. i - 1 \notin cuts
        <5>1. last \in Int /\ i - 1 \in Int /\ ~(last <= i - 1)
          BY <1>0, <3>3, <4>1
        <5> QED
          BY <3>2, <5>1
      <4>3. i - 1 + 1 = i
        BY <1>0
      <4> QED
        BY <4>1, <4>2, <4>3 DEF cuts
    <3> QED
      BY <2>2, <3>3, <3>4
  <2> QED
    BY <2>1, <2>2
<1>2. GroupEnd(first) = CHOOSE last \in first..Len(calls) : Group(last)
  BY DEF GroupEnd
<1> HIDE DEF Group
<1>3. GroupEnd(first) \in first..Len(calls) /\ Group(GroupEnd(first))
  BY <1>1, <1>2
<1> QED
  BY <1>3 DEF Group

LEMMA InPoolFinite == PhaseInv => IsFiniteSet(InPool) /\ Cardinality(InPool) \in Nat
<1> SUFFICES ASSUME PhaseInv PROVE IsFiniteSet(InPool) /\ Cardinality(InPool) \in Nat
  OBVIOUS
<1>1. DOMAIN calls = 1..Len(calls) /\ Len(calls) \in Nat
  BY LenProperties DEF PhaseInv
<1>2. IsFiniteSet(1..Len(calls))
  BY <1>1, FS_Interval
<1>3. InPool \in SUBSET (1..Len(calls))
  BY <1>1 DEF InPool
<1> QED
  BY <1>2, <1>3, FS_Subset, FS_CardinalityType

LEMMA GroupInvInit == Init => GroupInv
<1> SUFFICES ASSUME Init PROVE GroupInv
  OBVIOUS
<1>1. DOMAIN calls = 1..Len(calls) /\ Len(calls) \in Nat
  BY PhaseInvInit, LenProperties DEF PhaseInv
<1>2. InPool = {}
  BY DEF Init, InPool
<1> QED
  BY <1>1, <1>2, FS_EmptySet, PhaseAssumption DEF Init, GroupInv

\* A call that's in the pool moves on, and nothing else does.
LEMMA CallMoves ==
  ASSUME PhaseInv, GroupInv, NEW i \in DOMAIN calls, NEW to \in {"running", "ended"},
         place[i] \in {"pooled", "running"},
         place' = [place EXCEPT ![i] = to], UNCHANGED <<calls, after, next>>
  PROVE  GroupInv'
<1>1. \A j \in DOMAIN calls : place'[j] = IF j = i THEN to ELSE place[j]
  BY DEF PhaseInv
<1>2. Cardinality(InPool') <= MaxConcurrent
  <2>1. InPool' \in SUBSET InPool
    BY <1>1 DEF InPool
  <2>2. Cardinality(InPool') <= Cardinality(InPool) /\ Cardinality(InPool') \in Nat
    BY <2>1, InPoolFinite, FS_Subset, FS_CardinalityType
  <2> QED
    BY <2>2, InPoolFinite, PhaseAssumption DEF GroupInv
<1> QED
  BY <1>1, <1>2 DEF GroupInv, Beside

LEMMA GroupInvStep == PhaseInv /\ GroupInv /\ [Next]_vars => GroupInv'
<1> SUFFICES ASSUME PhaseInv, GroupInv, [Next]_vars PROVE GroupInv'
  OBVIOUS
<1>0. /\ DOMAIN calls = 1..Len(calls) /\ Len(calls) \in Nat
      /\ after \in Nat /\ next \in Nat
  BY LenProperties DEF PhaseInv, GroupInv
<1>1. CASE NextGroup
  <2>1. /\ next = after + 1 /\ next \in DOMAIN calls /\ InPool = {}
        /\ after' = GroupEnd(next) /\ UNCHANGED <<calls, next, place>>
    BY <1>0, <1>1 DEF NextGroup
  <2>2. /\ after' \in next..Len(calls)
        /\ \A k \in next..after' :
             k = next \/ (Shared(calls[next]) /\ Shared(calls[k]))
    BY <2>1, GroupEndIs
  <2>3. ASSUME NEW i \in DOMAIN calls, NEW j \in DOMAIN calls, i < j, j <= after'
        PROVE  place[i] = "ended" \/ Beside(i, j)
    <3>1. CASE i < next
      BY <2>1, <3>1 DEF GroupInv, InPool, PhaseInv
    <3>2. CASE ~(i < next)
      <4>1. j \in next..after' /\ j # next
        BY <1>0, <2>2, <2>3, <3>2
      <4>2. ASSUME NEW k \in i..j PROVE k \in next..after'
        BY <1>0, <2>2, <2>3, <3>2
      <4> QED
        BY <2>2, <4>1, <4>2 DEF Beside
    <3> QED
      BY <3>1, <3>2
  <2>4. InPool' = InPool
    BY <2>1 DEF InPool
  <2>5. after' \in 0..Len(calls) /\ next \in 1..after' + 1
    BY <1>0, <2>1, <2>2
  <2> QED
    BY <2>1, <2>3, <2>4, <2>5 DEF GroupInv, Beside
<1>2. CASE Take
  <2>1. /\ next <= after /\ Cardinality(InPool) < MaxConcurrent
        /\ place' = [place EXCEPT ![next] = "pooled"] /\ next' = next + 1
        /\ UNCHANGED <<calls, after>>
    BY <1>2 DEF Take
  <2>2. next \in DOMAIN calls /\ place[next] = "waiting"
    <3>1. after \in 0..Len(calls) /\ next \in 1..after + 1
      BY DEF GroupInv
    <3>2. next \in 1..Len(calls)
      BY <1>0, <2>1, <3>1
    <3>3. \A i \in DOMAIN calls : i >= next => place[i] = "waiting"
      BY DEF PhaseInv
    <3> QED
      BY <1>0, <3>2, <3>3
  <2>3. \A j \in DOMAIN calls : place'[j] = IF j = next THEN "pooled" ELSE place[j]
    BY <2>1 DEF PhaseInv
  <2>4. InPool' = InPool \union {next}
    BY <2>1, <2>2, <2>3 DEF InPool
  <2>5. next \notin InPool
    BY <2>2 DEF InPool
  <2>6. Cardinality(InPool') = Cardinality(InPool) + 1
    BY <2>4, <2>5, InPoolFinite, FS_AddElement
  <2>7. Cardinality(InPool') <= MaxConcurrent
    BY <2>1, <2>6, InPoolFinite, PhaseAssumption
  <2>8. next' \in 1..after + 1
    BY <1>0, <2>1
  <2>9. ASSUME NEW j \in DOMAIN calls, j < next' PROVE place'[j] # "waiting"
    BY <1>0, <2>1, <2>3, <2>9 DEF GroupInv
  <2>10. \A i \in DOMAIN calls : place[i] = "ended" => place'[i] = "ended"
    BY <2>2, <2>3
  <2> QED
    BY <2>1, <2>7, <2>8, <2>9, <2>10 DEF GroupInv, Beside
<1>3. ASSUME NEW i \in DOMAIN calls, Turn(i) \/ End(i) \/ Drop(i) PROVE GroupInv'
  <2>1. /\ place[i] \in {"pooled", "running"}
        /\ \E to \in {"running", "ended"} : place' = [place EXCEPT ![i] = to]
        /\ UNCHANGED <<calls, after, next>>
    BY <1>3 DEF Turn, End, Drop, EndsAs
  <2> QED
    BY <2>1, CallMoves
<1>4. CASE Tick \/ Cancel \/ UNCHANGED vars
  <2>1. UNCHANGED <<calls, after, next, place>>
    BY <1>4 DEF Tick, Cancel, vars
  <2> QED
    BY <2>1 DEF GroupInv, Beside, InPool
<1> QED
  BY <1>1, <1>2, <1>3, <1>4 DEF Next, PhaseStep, Done

LEMMA GroupInvHolds == PhaseInv /\ GroupInv => GroupsHold
<1> SUFFICES ASSUME PhaseInv, GroupInv PROVE GroupsHold
  OBVIOUS
<1>0. DOMAIN calls = 1..Len(calls) /\ Len(calls) \in Nat /\ next \in Nat /\ after \in Nat
  BY LenProperties DEF PhaseInv, GroupInv
<1>1. ASSUME NEW j \in DOMAIN calls, place[j] # "waiting", NEW i \in 1..j - 1
      PROVE  place[i] = "ended" \/ \A k \in i..j : Shared(calls[k])
  <2>1. j < next
    BY <1>0, <1>1 DEF PhaseInv
  <2>2. i \in DOMAIN calls /\ i < j /\ j <= after
    BY <1>0, <2>1 DEF GroupInv
  <2> QED
    BY <2>2 DEF GroupInv, Beside
<1> QED
  BY <1>1 DEF GroupsHold, GroupInv

\* For any calls and any size of the pool, a call starts only when every call
\* before it has ended, but for those it may run beside, and no more of them
\* run than may (run.rs Pending::answer).
THEOREM GroupsAlwaysHold == Spec => []GroupsHold
  BY PhaseInvInit, PhaseInvStep, GroupInvInit, GroupInvStep, GroupInvHolds, PTL DEF Spec

-----------------------------------------------------------------------------
(* The groups after one that was cut short.                                *)

CutOff == {"cancelled", "not_run"}

\* A call has an outcome only once it has ended, and one that was cut off was
\* so in a run that starts no call any more.
CutInv ==
  /\ \A i \in DOMAIN calls : place[i] # "ended" => outcome[i] = NoOutcome
  /\ \A i \in DOMAIN calls : outcome[i] \in CutOff => TooLate
  /\ NoLaterGroup

\* A call ends with an outcome, and one that's cut off in a run that's too late.
LEMMA EndCutsOff ==
  ASSUME PhaseInv, GroupInv, CutInv, NEW i \in DOMAIN calls, NEW status \in Status,
         place[i] \in {"pooled", "running"}, EndsAs(i, status),
         status \in CutOff => TooLate,
         place[i] = "pooled" /\ TooLate => status = "not_run"
  PROVE  CutInv'
<1>0. DOMAIN calls = 1..Len(calls) /\ Len(calls) \in Nat
  BY LenProperties DEF PhaseInv
<1>1. /\ UNCHANGED <<now, cancelled, calls, next>>
      /\ \A j \in DOMAIN calls : place'[j] = IF j = i THEN "ended" ELSE place[j]
      /\ \A j \in DOMAIN calls : outcome'[j] = IF j = i THEN status ELSE outcome[j]
  BY DEF EndsAs, PhaseInv
<1>2. TooLate' <=> TooLate
  BY <1>1 DEF TooLate
<1>3. ASSUME NEW a \in DOMAIN calls, NEW b \in DOMAIN calls, a < b,
             outcome'[a] \in CutOff, \E k \in a..b : ~Shared(calls[k])
      PROVE  outcome'[b] \in {NoOutcome, "not_run"} /\ place'[b] # "running"
  <2>1. CASE a = i
    <3>1. place[a] # "ended" /\ a \in 1..b - 1
      BY <1>0, <1>3, <2>1
    <3>2. place[b] = "waiting"
      BY <1>3, <3>1, GroupInvHolds DEF GroupsHold
    <3> QED
      BY <1>1, <1>3, <2>1, <3>2 DEF CutInv
  <2>2. CASE a # i
    <3>1. outcome[a] \in CutOff /\ TooLate
      BY <1>1, <1>3, <2>2 DEF CutInv
    <3>2. outcome[b] \in {NoOutcome, "not_run"} /\ place[b] # "running"
      BY <1>3, <3>1 DEF CutInv, NoLaterGroup, CutOff
    <3>3. b = i => status = "not_run"
      BY <3>1, <3>2
    <3> QED
      BY <1>1, <3>2, <3>3
  <2> QED
    BY <2>1, <2>2
<1>4. NoLaterGroup'
  BY <1>1, <1>3 DEF NoLaterGroup, CutOff
<1> QED
  BY <1>1, <1>2, <1>4 DEF CutInv

LEMMA CutInvStep == PhaseInv /\ GroupInv /\ CutInv /\ [Next]_vars => CutInv'
<1> SUFFICES ASSUME PhaseInv, GroupInv, CutInv, [Next]_vars PROVE CutInv'
  OBVIOUS
<1>0. \A j \in DOMAIN calls : Settles(calls[j]) \subseteq Status \ CutOff
  BY CallsType DEF Settles, Status, Executed, Invalid, CutOff
<1>1. CASE NextGroup
  BY <1>1 DEF NextGroup, CutInv, NoLaterGroup, TooLate
<1>2. CASE Take
  <2>1. /\ UNCHANGED <<now, cancelled, calls, outcome>>
        /\ place' = [place EXCEPT ![next] = "pooled"]
    BY <1>2 DEF Take
  <2>2. ASSUME NEW j \in DOMAIN calls
        PROVE  /\ place'[j] = "ended" => place[j] = "ended"
               /\ place'[j] = "running" => place[j] = "running"
               /\ place'[j] # "ended" => outcome[j] = NoOutcome
    <3>1. j = next => place[j] = "waiting"
      <4>1. next >= next
        BY DEF PhaseInv
      <4> QED
        BY <4>1 DEF PhaseInv
    <3> QED
      BY <2>1, <3>1 DEF PhaseInv, CutInv
  <2> QED
    BY <2>1, <2>2 DEF CutInv, NoLaterGroup, TooLate
<1>3. ASSUME NEW i \in DOMAIN calls, Turn(i) PROVE CutInv'
  <2>1. CASE TooLate
    BY <1>3, <2>1, EndCutsOff DEF Turn, Status
  <2>2. CASE ~TooLate /\ Executes(calls[i])
    <3>1. /\ UNCHANGED <<now, cancelled, calls, outcome>> /\ place[i] = "pooled"
          /\ place' = [place EXCEPT ![i] = "running"]
      BY <1>3, <2>2 DEF Turn
    <3>2. \A j \in DOMAIN calls : outcome[j] \notin CutOff
      BY <2>2 DEF CutInv
    <3>3. \A j \in DOMAIN calls : place'[j] # "ended" => outcome[j] = NoOutcome
      BY <3>1 DEF CutInv, PhaseInv
    <3> QED
      BY <3>1, <3>2, <3>3 DEF CutInv, NoLaterGroup, CutOff
  <2>3. CASE ~TooLate /\ ~Executes(calls[i])
    <3>1. PICK status \in Settles(calls[i]) : EndsAs(i, status)
      BY <1>3, <2>3 DEF Turn
    <3> QED
      BY <1>0, <1>3, <2>3, <3>1, EndCutsOff DEF Turn
  <2> QED
    BY <2>1, <2>2, <2>3
<1>4. ASSUME NEW i \in DOMAIN calls, End(i) PROVE CutInv'
  <2>1. PICK status \in Settles(calls[i]) : EndsAs(i, status)
    BY <1>4 DEF End
  <2> QED
    BY <1>0, <1>4, <2>1, EndCutsOff DEF End
<1>5. ASSUME NEW i \in DOMAIN calls, Drop(i) PROVE CutInv'
  BY <1>5, EndCutsOff DEF Drop, Status, TooLate
<1>6. CASE Tick \/ Cancel
  <2>1. UNCHANGED <<calls, place, outcome>>
    BY <1>6 DEF Tick, Cancel
  <2>2. TooLate => TooLate'
    BY <1>6, LimitsAssumption DEF Tick, Cancel, TooLate, TimeLeft, PhaseInv
  <2> QED
    BY <2>1, <2>2 DEF CutInv, NoLaterGroup
<1>7. CASE UNCHANGED vars
  BY <1>7 DEF vars, CutInv, NoLaterGroup, TooLate
<1> QED
  BY <1>1, <1>2, <1>3, <1>4, <1>5, <1>6, <1>7 DEF Next, PhaseStep, Done

\* Once a call was dropped or came too late, no call of a later group is ever
\* run, for any calls, executors and moment of the cancellation (service.rs
\* answer).
THEOREM NoLaterGroupHolds == Spec => []NoLaterGroup
<1>1. Init => CutInv
  BY DEF Init, CutInv, NoLaterGroup, NoOutcome, CutOff
<1>2. CutInv => NoLaterGroup
  BY DEF CutInv
<1> QED
  BY PhaseInvInit, PhaseInvStep, GroupInvInit, GroupInvStep, CutInvStep, <1>1, <1>2, PTL DEF Spec

-----------------------------------------------------------------------------
\* The phase's state keeps its types: the pool takes no call past the last,
\* and a group ends within the turn (run.rs Pending::answer).
THEOREM PhaseTypeCorrect == Spec => []TypeOK
<1>1. Init => calls \in Phases
  BY DEF Init
<1>2. calls \in Phases /\ [Next]_vars => (calls \in Phases)'
  BY DEF Next, PhaseStep, NextGroup, Take, Turn, Drop, End, EndsAs, Tick, Cancel, Done, vars
<1>3. PhaseInv /\ GroupInv /\ calls \in Phases => TypeOK
  <2> SUFFICES ASSUME PhaseInv, GroupInv, calls \in Phases PROVE TypeOK
    OBVIOUS
  <2>1. Len(calls) \in Nat
    BY LenProperties DEF PhaseInv
  <2>2. after \in 0..Len(calls) /\ next \in 1..Len(calls) + 1
    BY <2>1 DEF GroupInv
  <2> QED
    BY <2>2 DEF PhaseInv, TypeOK
<1> QED
  BY PhaseInvInit, PhaseInvStep, GroupInvInit, GroupInvStep, <1>1, <1>2, <1>3, PTL DEF Spec

-----------------------------------------------------------------------------
(* The tools of the run.                                                   *)

\* The one place where a tool that's routed is listed (toolset.rs build).
LEMMA RoutedOnce ==
  ASSUME NEW executors, NEW filter, Builds(executors, filter),
         NEW name \in DOMAIN Routes(executors, filter)
  PROVE  \E e \in DOMAIN executors : \E k \in DOMAIN executors[e] :
           /\ Listing(executors, name) = <<e, k>> /\ executors[e][k].name = name
           /\ \A x \in DOMAIN executors : \A y \in DOMAIN executors[x] :
                executors[x][y].name = name => x = e /\ y = k
<1>1. name \in NamesListed(executors)
  BY DEF Routes
<1>2. \A x, y : <<x, y>> \in ListedAt(executors, name) <=>
        x \in DOMAIN executors /\ y \in DOMAIN executors[x] /\ executors[x][y].name = name
  BY DEF ListedAt
<1>3. \A at \in ListedAt(executors, name) :
        \E x \in DOMAIN executors : \E y \in DOMAIN executors[x] :
          at = <<x, y>> /\ executors[x][y].name = name
  BY DEF ListedAt
<1>4. PICK x \in DOMAIN executors : \E y \in DOMAIN executors[x] : executors[x][y].name = name
  BY <1>1 DEF NamesListed
<1>5. ListedAt(executors, name) # {}
  BY <1>2, <1>4
<1>6. Listing(executors, name) \in ListedAt(executors, name)
  BY <1>5 DEF Listing
<1>7. \A at, other \in ListedAt(executors, name) : at = other
  BY <1>1 DEF Builds, ClaimedOnce
<1>8. PICK e \in DOMAIN executors : \E k \in DOMAIN executors[e] :
        Listing(executors, name) = <<e, k>> /\ executors[e][k].name = name
  BY <1>3, <1>6
<1>9. PICK k \in DOMAIN executors[e] :
        Listing(executors, name) = <<e, k>> /\ executors[e][k].name = name
  BY <1>8
<1>10. ASSUME NEW a \in DOMAIN executors, NEW b \in DOMAIN executors[a],
             executors[a][b].name = name
      PROVE  a = e /\ b = k
  <2>1. <<a, b>> \in ListedAt(executors, name)
    BY <1>2, <1>10
  <2>2. <<a, b>> = <<e, k>>
    BY <1>6, <1>7, <1>9, <2>1
  <2> QED
    BY <2>2
<1> QED
  BY <1>9, <1>10

\* A call that's to be executed names a tool that's routed, not the one that
\* completes the run, and runs beside others as its tool is listed.
LEMMA ExecutedIsRouted ==
  ASSUME NEW executors, NEW filter, NEW use, NEW call,
         call = CallOf(Build(executors, filter), use), Executes(call)
  PROVE  /\ use.name \in DOMAIN Routes(executors, filter)
         /\ use.parsed
         /\ ~(Mode = "explicit" /\ use.name = TaskComplete)
         /\ Shared(call) => Concurrency(executors, filter, use.name) = "shared"
<1> DEFINE tools == Build(executors, filter)
<1>1. /\ DOMAIN tools.concurrency = Offered(executors, filter)
      /\ \A name \in Offered(executors, filter) :
           tools.concurrency[name] = Concurrency(executors, filter, name)
  BY DEF Build
<1>2. use.name \in Offered(executors, filter)
  BY <1>1 DEF CallOf, Executes
<1>3. /\ call.name = IF use.name = TaskComplete THEN "task_complete" ELSE "served"
      /\ call.parsed = use.parsed
      /\ call.concurrency = tools.concurrency[use.name]
  BY <1>1, <1>2 DEF CallOf
<1>4. ~(Mode = "explicit" /\ use.name = TaskComplete)
  BY <1>3 DEF Executes, Intercepts
<1>5. use.name \in DOMAIN Routes(executors, filter)
  BY <1>2, <1>4 DEF Offered
<1> HIDE DEF tools
<1>6. Shared(call) => Concurrency(executors, filter, use.name) = "shared"
  BY <1>1, <1>2, <1>3 DEF Shared
<1>7. use.parsed
  BY <1>3 DEF Executes
<1> QED
  BY <1>4, <1>5, <1>6, <1>7

\* The run's tools are what they were built to be, the calls what the loop
\* makes of their uses, and a call that has reached an executor was to be
\* executed and reached the one its name is routed to.
OfferedInv ==
  /\ Builds(tooling.executors, tooling.filter)
  /\ set = Build(tooling.executors, tooling.filter)
  /\ DOMAIN calls = DOMAIN uses /\ DOMAIN reached = DOMAIN uses
  /\ \A i \in DOMAIN uses : calls[i] = CallOf(set, uses[i])
  /\ \A i \in DOMAIN uses :
       reached[i] # 0 \/ place[i] = "running" =>
         Executes(calls[i]) /\ reached[i] = set.routes[uses[i].name]

LEMMA OfferedInvInit == OfferedInit => OfferedInv
  BY DEF OfferedInit, Init, OfferedInv

LEMMA OfferedIsPhase == [OfferedNext]_<<vars, built>> => [Next]_vars
  BY DEF OfferedNext, OfferedStep, OfferedTurn, Next, PhaseStep, built

LEMMA OfferedInvStep ==
  PhaseInv /\ OfferedInv /\ [OfferedNext]_<<vars, built>> => OfferedInv'
<1> SUFFICES ASSUME PhaseInv, OfferedInv, [OfferedNext]_<<vars, built>> PROVE OfferedInv'
  OBVIOUS
<1>0. ASSUME UNCHANGED <<calls, built>>,
             \A i \in DOMAIN calls : place'[i] = "running" => place[i] = "running"
      PROVE  OfferedInv'
  BY <1>0 DEF OfferedInv, built
<1>1. ASSUME NEW i \in DOMAIN calls, OfferedTurn(i) PROVE OfferedInv'
  <2>1. /\ UNCHANGED <<calls, tooling, set, uses>> /\ i \in DOMAIN uses
        /\ \A j \in DOMAIN calls : j # i => place'[j] = place[j]
        /\ place'[i] = "running" => Executes(calls[i])
    BY <1>1 DEF OfferedTurn, Turn, EndsAs, OfferedInv, PhaseInv
  <2>2. CASE place'[i] = "running"
    <3>1. reached' = [reached EXCEPT ![i] = set.routes[uses[i].name]]
      BY <1>1, <2>2 DEF OfferedTurn
    <3> QED
      BY <2>1, <2>2, <3>1 DEF OfferedInv
  <2>3. CASE place'[i] # "running"
    <3>1. reached' = reached
      BY <1>1, <2>3 DEF OfferedTurn
    <3> QED
      BY <2>1, <2>3, <3>1 DEF OfferedInv
  <2> QED
    BY <2>2, <2>3
<1>2. CASE (NextGroup \/ Take \/ Tick \/ Cancel \/ Done) /\ UNCHANGED built
  <2>1. calls' = calls /\ \A i \in DOMAIN calls : place'[i] = "running" => place[i] = "running"
    BY <1>2 DEF NextGroup, Take, Tick, Cancel, Done, vars, PhaseInv
  <2> QED
    BY <1>0, <1>2, <2>1 DEF built
<1>3. ASSUME NEW i \in DOMAIN calls, Drop(i) \/ End(i), UNCHANGED built PROVE OfferedInv'
  <2>1. calls' = calls /\ \A j \in DOMAIN calls : place'[j] = "running" => place[j] = "running"
    BY <1>3 DEF Drop, End, EndsAs, PhaseInv
  <2> QED
    BY <1>0, <1>3, <2>1 DEF built
<1>4. CASE UNCHANGED <<vars, built>>
  BY <1>0, <1>4 DEF vars
<1> QED
  BY <1>1, <1>2, <1>3, <1>4 DEF OfferedNext, OfferedStep

LEMMA OfferedReaches ==
  ASSUME OfferedInv, NEW i \in DOMAIN uses, Executes(calls[i]),
         reached[i] = set.routes[uses[i].name]
  PROVE  \E k \in DOMAIN tooling.executors[reached[i]] :
           /\ reached[i] \in DOMAIN tooling.executors
           /\ tooling.executors[reached[i]][k].name = uses[i].name
           /\ Shared(calls[i]) => tooling.executors[reached[i]][k].concurrency = "shared"
           /\ \A x \in DOMAIN tooling.executors : \A y \in DOMAIN tooling.executors[x] :
                tooling.executors[x][y].name = uses[i].name => x = reached[i]
           /\ uses[i].name \in DOMAIN Routes(tooling.executors, tooling.filter)
           /\ uses[i].parsed
           /\ ~(Mode = "explicit" /\ uses[i].name = TaskComplete)
<1> DEFINE executors == tooling.executors
           filter == tooling.filter
           name == uses[i].name
<1>1. /\ name \in DOMAIN Routes(executors, filter) /\ uses[i].parsed
      /\ ~(Mode = "explicit" /\ name = TaskComplete)
      /\ Shared(calls[i]) => Concurrency(executors, filter, name) = "shared"
  BY ExecutedIsRouted DEF OfferedInv
<1>2. PICK e \in DOMAIN executors : \E k \in DOMAIN executors[e] :
        /\ Listing(executors, name) = <<e, k>> /\ executors[e][k].name = name
        /\ \A x \in DOMAIN executors : \A y \in DOMAIN executors[x] :
             executors[x][y].name = name => x = e /\ y = k
  BY <1>1, RoutedOnce DEF OfferedInv
<1>3. PICK k \in DOMAIN executors[e] :
        /\ Listing(executors, name) = <<e, k>> /\ executors[e][k].name = name
        /\ \A x \in DOMAIN executors : \A y \in DOMAIN executors[x] :
             executors[x][y].name = name => x = e /\ y = k
  BY <1>2
<1>4. reached[i] = e
  BY <1>1, <1>3 DEF OfferedInv, Build, Routes
<1>5. Concurrency(executors, filter, name) = executors[e][k].concurrency
  BY <1>1, <1>3 DEF Concurrency
<1> QED
  BY <1>1, <1>3, <1>4, <1>5

LEMMA OfferedAsListed == OfferedInv /\ PhaseInv /\ GroupsHold => ToolsAsListed
<1> SUFFICES ASSUME OfferedInv, PhaseInv, GroupsHold PROVE ToolsAsListed
  OBVIOUS
<1>0. DOMAIN calls = 1..Len(calls) /\ Len(calls) \in Nat
  BY LenProperties DEF PhaseInv
<1>1. ReachesItsTool
  <2>1. ASSUME NEW i \in DOMAIN uses, reached[i] # 0
        PROVE  LET name == uses[i].name
                   lists(e) == \E k \in DOMAIN tooling.executors[e] :
                                 tooling.executors[e][k].name = name
               IN  /\ {e \in DOMAIN tooling.executors : lists(e)} = {reached[i]}
                   /\ uses[i].parsed
                   /\ name \notin tooling.filter.deny
                   /\ tooling.filter.allow # {} => name \in tooling.filter.allow
                   /\ ~(Mode = "explicit" /\ name = TaskComplete)
    <3>1. Executes(calls[i]) /\ reached[i] = set.routes[uses[i].name]
      BY <2>1 DEF OfferedInv
    <3>2. Offers(tooling.filter, uses[i].name)
      BY <3>1, OfferedReaches DEF Routes
    <3> QED
      BY <3>1, <3>2, OfferedReaches DEF Offers
  <2> QED
    BY <2>1 DEF ReachesItsTool
<1>2. AloneAsListed
  <2>1. ASSUME NEW i \in DOMAIN uses, NEW j \in DOMAIN uses, i # j,
               place[i] = "running", place[j] = "running"
        PROVE  Shared(calls[i])
    <3>1. i \in 1..Len(calls) /\ j \in 1..Len(calls)
      BY <1>0 DEF OfferedInv
    <3>2. CASE i < j
      BY <1>0, <2>1, <3>1, <3>2 DEF GroupsHold
    <3>3. CASE j < i
      BY <1>0, <2>1, <3>1, <3>3 DEF GroupsHold
    <3> QED
      BY <1>0, <2>1, <3>1, <3>2, <3>3
  <2>2. ASSUME NEW i \in DOMAIN uses, NEW j \in DOMAIN uses, i # j,
               place[i] = "running", place[j] = "running"
        PROVE  \E k \in DOMAIN tooling.executors[reached[i]] :
                 LET tool == tooling.executors[reached[i]][k]
                 IN  tool.name = uses[i].name /\ tool.concurrency = "shared"
    <3>1. Executes(calls[i]) /\ reached[i] = set.routes[uses[i].name]
      BY <2>2 DEF OfferedInv
    <3> QED
      BY <2>1, <2>2, <3>1, OfferedReaches
  <2> QED
    BY <2>2 DEF AloneAsListed
<1> QED
  BY <1>1, <1>2 DEF ToolsAsListed

\* Whatever executors a run is built of, however they list their tools and
\* whatever the filter says, a call of any turn that reaches an executor
\* reaches the one that lists its tool, as the filter offers it, and runs
\* beside others only when that listing lets it (toolset.rs build, execute,
\* concurrency; run.rs Pending::answer).
THEOREM ToolsAlwaysAsListed == OfferedSpec => []ToolsAsListed
<1>1. OfferedInit => Init
  BY DEF OfferedInit
<1> QED
  BY <1>1, PhaseInvInit, PhaseInvStep, GroupInvInit, GroupInvStep, GroupInvHolds,
     OfferedInvInit, OfferedIsPhase, OfferedInvStep, OfferedAsListed, PTL DEF OfferedSpec

\* With the tools of a run, the phase still is the phase that was proved
\* about: it makes the steps of ToolPhase and no others.
THEOREM OfferedIsToolPhase == OfferedSpec => Spec
<1>1. OfferedInit => Init
  BY DEF OfferedInit
<1> QED
  BY <1>1, OfferedIsPhase, PTL DEF OfferedSpec, Spec
=============================================================================
