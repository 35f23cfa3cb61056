------------------------------ MODULE RetryDelays ------------------------------
(***************************************************************************)
(* How long the worker waits between attempts: the claim loop of            *)
(* Worker::run, fetch_with_retry and submit_with_retry of src/worker.rs.    *)
(* Only the delays are kept; the loops themselves are in Worker, BatchTask. *)
(* Delays are u64 milliseconds: Word is 2^64, and sums wrap at it in a       *)
(* release build.  A debug build panics where SumsFit does not hold.         *)
(***************************************************************************)
EXTENDS Naturals

CONSTANTS
  Polls,         \* values of OPENSTAR_POLL_INTERVAL_MS
  Maxima,        \* values of OPENSTAR_MAX_BACKOFF_MS
  FetchDelay,    \* the first delay of fetch_with_retry, 250
  SubmitDelay,   \* the first delay of submit_with_retry, 500
  Word

\* What Config::validate asks of the intervals, which is no upper bound, and that the
\* first delays are small: 250 and 500 of 2^64.
ASSUME DelayAssumption ==
  /\ Word \in Nat
  /\ Polls \subseteq 1..(Word - 1)
  /\ Maxima \subseteq 1..(Word - 1)
  /\ FetchDelay \in Nat \ {0} /\ 16 * FetchDelay < Word
  /\ SubmitDelay \in Nat \ {0} /\ 2 * SubmitDelay < Word

VARIABLES
  poll, max,    \* the configuration, chosen once
  backoff,      \* of the claim loop
  fetchDelay, attempt,
  submitDelay,
  slept         \* history: the last sleep and the loop it was made in, an Option

vars == <<poll, max, backoff, fetchDelay, attempt, submitDelay, slept>>

\* "for attempt in 0..5"
FetchAttempts == 5

Lesser(a, b)  == IF a < b THEN a ELSE b
Greater(a, b) == IF a < b THEN b ELSE a

Wrap(n)       == IF n < Word THEN n ELSE n - Word
Saturate(n)   == IF n < Word THEN n ELSE Word - 1

Init ==
  /\ poll \in Polls
  /\ max \in Maxima
  /\ backoff = poll
  /\ fetchDelay = FetchDelay
  /\ attempt = 0
  /\ submitDelay = SubmitDelay
  /\ slept = {}

Sleep(loop, n) == slept' = {[loop |-> loop, ms |-> n]}

-----------------------------------------------------------------------------
(* Worker::run *)

\* 0..=(backoff / 4)
Jitter == 0..(backoff \div 4)

\* Mutant: no maximum.
NextBackoff_Unbounded == backoff * 2

\* Mutant: a polling interval above the maximum stays.
NextBackoff_KeepsPoll == Lesser(Saturate(backoff * 2), Greater(max, poll))

\* Mutant: `*` for saturating_mul.
NextBackoff_Wraps == Lesser(Wrap(backoff * 2), max)

NextBackoff == Lesser(Saturate(backoff * 2), max)

ClaimFailed ==
  /\ \E jitter \in Jitter : Sleep("claim", Wrap(backoff + jitter))
  /\ backoff' = NextBackoff
  /\ UNCHANGED <<poll, max, fetchDelay, attempt, submitDelay>>

\* No work: the backoff of earlier failures is kept.
ClaimEmpty ==
  /\ Sleep("idle", poll)
  /\ UNCHANGED <<poll, max, backoff, fetchDelay, attempt, submitDelay>>

ClaimGotWork ==
  /\ backoff' = poll
  /\ UNCHANGED <<poll, max, fetchDelay, attempt, submitDelay, slept>>

(* fetch_with_retry: a call begins, and a transient error that is retried *)

\* Mutant: the delay of the last call is kept.
FetchBegins_KeepsDelay ==
  /\ attempt' = 0
  /\ UNCHANGED <<poll, max, backoff, fetchDelay, submitDelay, slept>>

FetchBegins ==
  /\ fetchDelay' = FetchDelay
  /\ attempt' = 0
  /\ UNCHANGED <<poll, max, backoff, submitDelay, slept>>

\* Mutant: no maximum.
NextFetchDelay_Unbounded == Wrap(fetchDelay * 2)

NextFetchDelay == Lesser(Wrap(fetchDelay * 2), max)

FetchRetries ==
  /\ attempt < FetchAttempts - 1
  /\ Sleep("fetch", fetchDelay)
  /\ fetchDelay' = NextFetchDelay
  /\ attempt' = attempt + 1
  /\ UNCHANGED <<poll, max, backoff, submitDelay>>

(* submit_with_retry *)

SubmitBegins ==
  /\ submitDelay' = SubmitDelay
  /\ UNCHANGED <<poll, max, backoff, fetchDelay, attempt, slept>>

\* Mutant: the maximum alone.
NextSubmitDelay_MaxOnly == Lesser(Wrap(submitDelay * 2), max)

NextSubmitDelay == Lesser(Wrap(submitDelay * 2), Greater(max, SubmitDelay))

SubmitRetries ==
  /\ Sleep("submit", submitDelay)
  /\ submitDelay' = NextSubmitDelay
  /\ UNCHANGED <<poll, max, backoff, fetchDelay, attempt>>

Next ==
  \/ ClaimFailed \/ ClaimEmpty \/ ClaimGotWork
  \/ FetchBegins \/ FetchRetries
  \/ SubmitBegins \/ SubmitRetries

Spec == Init /\ [][Next]_vars

-----------------------------------------------------------------------------
TypeOK ==
  /\ poll \in Polls
  /\ max \in Maxima
  /\ {backoff, fetchDelay, submitDelay} \subseteq 0..(Word - 1)
  /\ attempt \in 0..(FetchAttempts - 1)
  /\ slept \subseteq [loop: {"claim", "idle", "fetch", "submit"}, ms: 0..(Word - 1)]

\* However the outcomes of claims, fetches and submissions alternate, no retry
\* waits longer than its first delay or the configured maximum, whichever is
\* larger, plus a quarter for the jitter of a claim.
RetriesBounded ==
  \A s \in slept :
    /\ s.loop = "claim"  => 4 * s.ms <= 5 * Greater(poll, max)
    /\ s.loop = "fetch"  => s.ms <= Greater(FetchDelay, max)
    /\ s.loop = "submit" => s.ms <= Greater(SubmitDelay, max)

\* The configurations whose longest interval leaves room for the jitter, and those whose
\* maximum can be doubled.  validate accepts others too.
RoomForJitter   == 5 * Greater(poll, max) < 4 * Word
RoomForDoubling == 2 * max < Word

\* The sums that neither `saturating_mul` nor `min` guards: the delay of a fetch never
\* overflows, whatever the configuration, because a call makes few attempts; the
\* delay of a submission and the jittered wait of a claim overflow in no
\* configuration that leaves room for them.
SumsFit ==
  /\ attempt < FetchAttempts - 1 => 2 * fetchDelay < Word
  /\ RoomForDoubling => 2 * submitDelay < Word
  /\ RoomForJitter => \A jitter \in Jitter : backoff + jitter < Word

\* No retry loop becomes a busy loop: a wait is at least the loop's first delay or the
\* configured maximum, whichever is smaller, and a submission's never less than
\* SubmitDelay.  A sum that wraps is the only exception, and then the configuration
\* left no room for it.  The backoff itself never falls, in any configuration.
NeverHot ==
  /\ backoff >= Lesser(poll, max)
  /\ \A s \in slept :
       /\ s.loop = "claim"  => s.ms >= Lesser(poll, max) \/ ~RoomForJitter
       /\ s.loop = "fetch"  => s.ms >= Lesser(FetchDelay, max)
       /\ s.loop = "submit" => s.ms >= SubmitDelay \/ ~RoomForDoubling

\* When claims keep failing and none brings work, the claim loop ends up at the
\* ceiling for good, also when the polling interval was set above it.
OutageReachesCeiling ==
  ([]<><<ClaimFailed>>_vars /\ <>[][~ClaimGotWork]_vars) => <>[](backoff = max)
=============================================================================
