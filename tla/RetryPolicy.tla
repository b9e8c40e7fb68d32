----------------------------- MODULE RetryPolicy ----------------------------
(***************************************************************************)
(* The retry policy of lablet-policy: how long to wait before a failed     *)
(* provider call is tried again, and when to give up.  The jitter the code *)
(* draws from a salt is a choice here: the set of waits some salt gives,   *)
(* which is empty when the call isn't tried again.                         *)
(***************************************************************************)
EXTENDS Integers, Options

CONSTANTS MaxRetries,     \* how many times a failed call is tried again
          BaseDelay,      \* the backoff after the first attempt
          MaxDelay,       \* the longest backoff
          Factor,         \* what the backoff grows by after each attempt
          HintMax,        \* the longest wait a server may ask for
          JitterPercent   \* the largest share of a wait that's added to it

\* What RetryPolicy::new refuses to build without.
ASSUME RetryAssumption ==
  /\ {MaxRetries, BaseDelay, MaxDelay, HintMax} \subseteq Nat
  /\ BaseDelay <= MaxDelay
  /\ Factor \in Nat \ {0}
  /\ JitterPercent \in 0..100

\* Arithmetic of powers that the provers don't have.
ASSUME PowersAssumption == \A n \in 0..MaxRetries : Factor ^ n \in Nat

ErrorKinds == {"retryable", "malformed", "context_exhausted", "auth", "fatal"}

\* The failures another attempt could answer differently.
Retryable == {"retryable", "malformed"}

\* Attempt number 0 is read as 1.
TryNumber(attempt) == IF attempt = 0 THEN 1 ELSE attempt

Backoff(attempt) ==
  LET grown == BaseDelay * Factor ^ (TryNumber(attempt) - 1)
  IN  IF grown < MaxDelay THEN grown ELSE MaxDelay

\* The longer of the backoff and the wait the server asked for.
LeastWait(attempt, hint) ==
  IF hint # None /\ hint > Backoff(attempt) THEN hint ELSE Backoff(attempt)

\* The share added is below one, so a wait never doubles.
LongestWait == 2 * (MaxDelay + HintMax)

\* Every wait after attempt number attempt has failed with kind and hint; none
\* when the policy gives up.
NextWaits(attempt, kind, hint) ==
  IF kind \notin Retryable \/ TryNumber(attempt) > MaxRetries \/ (hint # None /\ hint > HintMax)
  THEN {}
  ELSE LET least == LeastWait(attempt, hint)
       IN  {wait \in 0..LongestWait :
              \/ wait = least
              \/ wait > least /\ (wait - least) * 100 < least * JitterPercent}

\* What a failure the loop has stopped trying on means for the run.
StopReasonFor(kind) ==
  CASE kind \in Retryable -> "retries_exhausted"
    [] kind = "context_exhausted" -> "context_exhausted"
    [] OTHER -> "provider_error"
=============================================================================
