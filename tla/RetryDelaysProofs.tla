--------------------------- MODULE RetryDelaysProofs ---------------------------
(***************************************************************************)
(* Proofs about RetryDelays, for every configuration that Config::validate  *)
(* accepts.  Where one leaves no room for a sum, the properties say so.      *)
(***************************************************************************)
EXTENDS RetryDelays, TLAPS

Within(n, low, high) == low <= n /\ n <= high

\* A fetch has doubled its delay once for every attempt so far.
Grown ==
  \/ attempt = 0 /\ fetchDelay <= FetchDelay
  \/ attempt = 1 /\ fetchDelay <= 2 * FetchDelay
  \/ attempt = 2 /\ fetchDelay <= 4 * FetchDelay
  \/ attempt = 3 /\ fetchDelay <= 8 * FetchDelay
  \/ attempt = 4

\* The delays about to be slept stay between the smaller and the larger of their
\* first value and the maximum, that of a submission as long as its doubling
\* fits; the sleep made last did.
DelayInv ==
  /\ TypeOK
  /\ Within(backoff, Lesser(poll, max), Greater(poll, max))
  /\ Within(fetchDelay, Lesser(FetchDelay, max), Greater(FetchDelay, max))
  /\ Grown
  /\ submitDelay <= Greater(SubmitDelay, max)
  /\ RoomForDoubling => SubmitDelay <= submitDelay
  /\ RetriesBounded
  /\ NeverHot

\* What Config::validate gives for the chosen values.
LEMMA Configuration ==
  ASSUME TypeOK
  PROVE  /\ poll \in Nat \ {0} /\ max \in Nat \ {0} /\ poll < Word /\ max < Word
         /\ FetchDelay \in Nat \ {0} /\ SubmitDelay \in Nat \ {0}
         /\ Word \in Nat
         /\ 16 * FetchDelay < Word /\ 2 * SubmitDelay < Word
BY DelayAssumption DEF TypeOK

\* The first delays are within their bounds.
LEMMA InitDelayInv == Init => DelayInv
<1> SUFFICES ASSUME Init PROVE DelayInv
  OBVIOUS
<1>1. /\ poll \in Nat \ {0} /\ max \in Nat \ {0} /\ poll < Word /\ Word \in Nat
      /\ FetchDelay \in Nat \ {0} /\ SubmitDelay \in Nat \ {0}
      /\ 16 * FetchDelay < Word /\ 2 * SubmitDelay < Word
  BY DelayAssumption DEF Init
<1>2. TypeOK
  BY <1>1 DEF Init, TypeOK, FetchAttempts
<1> QED
  BY <1>1, <1>2 DEF Init, DelayInv, Grown, Within, Lesser, Greater, RetriesBounded, NeverHot

\* A wait of the claim loop is at most a quarter longer than its backoff, and shorter
\* than it only if there was no room for the sum.
LEMMA JitterBound ==
  ASSUME DelayInv, NEW jitter \in Jitter
  PROVE  /\ backoff + jitter \in Nat
         /\ RoomForJitter => backoff + jitter < Word
         /\ Wrap(backoff + jitter) \in 0..(Word - 1)
         /\ 4 * Wrap(backoff + jitter) <= 5 * Greater(poll, max)
         /\ Wrap(backoff + jitter) >= Lesser(poll, max) \/ ~RoomForJitter
<1>1. /\ backoff \in Nat /\ backoff < Word /\ Word \in Nat
      /\ poll \in Nat /\ max \in Nat
      /\ Lesser(poll, max) <= backoff /\ backoff <= Greater(poll, max)
      /\ Lesser(poll, max) \in Nat /\ Greater(poll, max) \in Nat
  BY Configuration DEF DelayInv, TypeOK, Within, Lesser, Greater
<1>2. jitter \in Nat /\ 4 * jitter <= backoff
  BY <1>1 DEF Jitter
<1>3. /\ 4 * (backoff + jitter) <= 5 * Greater(poll, max)
      /\ backoff + jitter < 2 * Word
  BY <1>1, <1>2
<1>4. RoomForJitter => backoff + jitter < Word
  BY <1>1, <1>2, <1>3 DEF RoomForJitter
<1> QED
  BY <1>1, <1>2, <1>3, <1>4 DEF Wrap

\* The claim loop keeps its delays within their bounds.
LEMMA ClaimDelayInv ==
  ASSUME DelayInv, ClaimFailed \/ ClaimEmpty \/ ClaimGotWork
  PROVE  DelayInv'
<1> USE Configuration
<1>1. CASE ClaimFailed
  <2>1. PICK jitter \in Jitter : slept' = {[loop |-> "claim", ms |-> Wrap(backoff + jitter)]}
    BY <1>1 DEF ClaimFailed, Sleep
  <2> DEFINE wait == Wrap(backoff + jitter)
  <2>2. /\ slept' = {[loop |-> "claim", ms |-> wait]}
        /\ wait \in 0..(Word - 1)
        /\ 4 * wait <= 5 * Greater(poll, max)
        /\ wait >= Lesser(poll, max) \/ ~RoomForJitter
    BY <2>1, JitterBound
  <2> HIDE DEF wait
  <2>3. /\ backoff' \in 0..(Word - 1)
        /\ Within(backoff', Lesser(poll, max), Greater(poll, max))
    <3>1. /\ backoff \in Nat /\ Within(backoff, Lesser(poll, max), Greater(poll, max))
          /\ poll \in Nat \ {0} /\ max \in Nat \ {0} /\ max < Word /\ Word \in Nat
      BY DEF DelayInv, TypeOK
    <3>2. backoff' = Lesser(2 * backoff, max)
      BY <1>1, <3>1 DEF ClaimFailed, NextBackoff, Saturate, Within, Lesser, Greater
    <3> QED
      BY <3>1, <3>2 DEF Within, Lesser, Greater
  <2>4. UNCHANGED <<poll, max, fetchDelay, attempt, submitDelay>>
    BY <1>1 DEF ClaimFailed
  <2>5. TypeOK'
    BY <2>2, <2>3, <2>4 DEF DelayInv, TypeOK
  <2>6. RetriesBounded'
    BY <2>2, <2>4 DEF RetriesBounded
  <2>7. NeverHot'
    BY <2>2, <2>3, <2>4 DEF NeverHot, Within, RoomForJitter
  <2> QED
    BY <2>3, <2>4, <2>5, <2>6, <2>7 DEF DelayInv, Grown, RoomForDoubling
<1>2. CASE ClaimEmpty
  BY <1>2 DEF ClaimEmpty, Sleep, DelayInv, TypeOK, Grown, Within, RetriesBounded, NeverHot,
              RoomForDoubling
<1>3. CASE ClaimGotWork
  BY <1>3 DEF ClaimGotWork, DelayInv, TypeOK, Grown, Within, Lesser, Greater, RetriesBounded,
              NeverHot, RoomForJitter, RoomForDoubling
<1> QED
  BY <1>1, <1>2, <1>3

\* So does fetch_with_retry; its doubling does not overflow.
LEMMA FetchDelayInv ==
  ASSUME DelayInv, FetchBegins \/ FetchRetries
  PROVE  DelayInv'
<1> USE Configuration
<1>1. CASE FetchBegins
  BY <1>1 DEF FetchBegins, FetchAttempts, DelayInv, TypeOK, Grown, Within, Lesser, Greater,
              RetriesBounded, NeverHot, RoomForJitter, RoomForDoubling
<1>2. CASE FetchRetries
  <2>1. /\ fetchDelay \in Nat /\ attempt \in 0..3 /\ attempt' = attempt + 1
        /\ Within(fetchDelay, Lesser(FetchDelay, max), Greater(FetchDelay, max))
        /\ fetchDelay' = Lesser(Wrap(fetchDelay * 2), max)
        /\ slept' = {[loop |-> "fetch", ms |-> fetchDelay]}
        /\ UNCHANGED <<poll, max, backoff, submitDelay>>
    BY <1>2 DEF FetchRetries, NextFetchDelay, FetchAttempts, Sleep, DelayInv, TypeOK
  <2>2. fetchDelay * 2 < Word /\ fetchDelay' = Lesser(fetchDelay * 2, max)
    BY <2>1 DEF DelayInv, Grown, Wrap
  <2>3. /\ fetchDelay' \in 0..(Word - 1)
        /\ Within(fetchDelay', Lesser(FetchDelay, max), Greater(FetchDelay, max))
    BY <2>1, <2>2 DEF DelayInv, Within, Lesser, Greater
  <2>4. Grown'
    BY <2>1, <2>2 DEF DelayInv, Grown, Lesser
  <2>5. TypeOK'
    BY <2>1, <2>3 DEF DelayInv, TypeOK, FetchAttempts
  <2>6. RetriesBounded'
    BY <2>1 DEF RetriesBounded, Within
  <2>7. NeverHot'
    BY <2>1 DEF DelayInv, NeverHot, Within
  <2> QED
    BY <2>1, <2>3, <2>4, <2>5, <2>6, <2>7 DEF DelayInv, RoomForDoubling
<1> QED
  BY <1>1, <1>2

\* So does submit_with_retry, unless the maximum cannot be doubled.
LEMMA SubmitDelayInv ==
  ASSUME DelayInv, SubmitBegins \/ SubmitRetries
  PROVE  DelayInv'
<1> USE Configuration
<1>1. CASE SubmitBegins
  BY <1>1 DEF SubmitBegins, DelayInv, TypeOK, Grown, Within, Lesser, Greater,
              RetriesBounded, NeverHot, RoomForJitter, RoomForDoubling
<1>2. CASE SubmitRetries
  <2>1. /\ submitDelay \in 0..(Word - 1) /\ Word \in Nat /\ max \in Nat \ {0} /\ max < Word
        /\ SubmitDelay \in Nat \ {0} /\ 2 * SubmitDelay < Word
        /\ submitDelay <= Greater(SubmitDelay, max)
        /\ RoomForDoubling => SubmitDelay <= submitDelay
        /\ submitDelay' = Lesser(Wrap(submitDelay * 2), Greater(max, SubmitDelay))
        /\ slept' = {[loop |-> "submit", ms |-> submitDelay]}
        /\ UNCHANGED <<poll, max, backoff, fetchDelay, attempt>>
    BY <1>2 DEF SubmitRetries, NextSubmitDelay, Sleep, DelayInv, TypeOK
  <2>2. Wrap(submitDelay * 2) \in 0..(Word - 1)
    BY <2>1 DEF Wrap
  <2>3. /\ submitDelay' \in 0..(Word - 1)
        /\ submitDelay' <= Greater(SubmitDelay, max)
    BY <2>1, <2>2 DEF Lesser, Greater
  <2>4. RoomForDoubling => SubmitDelay <= submitDelay'
    <3> SUFFICES ASSUME RoomForDoubling PROVE SubmitDelay <= submitDelay'
      OBVIOUS
    <3>1. submitDelay * 2 < Word
      BY <2>1 DEF RoomForDoubling, Greater
    <3> QED
      BY <2>1, <3>1 DEF Wrap, Lesser, Greater
  <2>5. TypeOK'
    BY <2>1, <2>3 DEF DelayInv, TypeOK
  <2>6. RetriesBounded'
    BY <2>1 DEF RetriesBounded
  <2>7. NeverHot'
    BY <2>1 DEF DelayInv, NeverHot, RoomForDoubling
  <2> QED
    BY <2>1, <2>3, <2>4, <2>5, <2>6, <2>7 DEF DelayInv, Grown, RoomForDoubling
<1> QED
  BY <1>1, <1>2

\* No step takes a delay out of its bounds.
LEMMA NextDelayInv == DelayInv /\ [Next]_vars => DelayInv'
<1> SUFFICES ASSUME DelayInv, [Next]_vars PROVE DelayInv'
  OBVIOUS
<1>1. CASE Next
  BY <1>1, ClaimDelayInv, FetchDelayInv, SubmitDelayInv DEF Next
<1>2. CASE UNCHANGED vars
  BY <1>2 DEF vars, DelayInv, TypeOK, Grown, RetriesBounded, NeverHot, RoomForJitter,
              RoomForDoubling
<1> QED
  BY <1>1, <1>2

\* Of the sums nothing in the code guards, the doubling of a fetch's delay never
\* overflows, and the others only where the configuration leaves no room.
THEOREM DelaysFit == Spec => []SumsFit
<1>1. DelayInv => SumsFit
  <2> SUFFICES ASSUME DelayInv PROVE SumsFit
    OBVIOUS
  <2> USE Configuration
  <2>1. attempt < FetchAttempts - 1 => 2 * fetchDelay < Word
    BY DEF DelayInv, TypeOK, Grown, FetchAttempts
  <2>2. RoomForDoubling => 2 * submitDelay < Word
    BY DEF DelayInv, TypeOK, RoomForDoubling, Greater
  <2>3. RoomForJitter => \A jitter \in Jitter : backoff + jitter < Word
    BY JitterBound
  <2> QED
    BY <2>1, <2>2, <2>3 DEF SumsFit
<1> QED
  BY <1>1, InitDelayInv, NextDelayInv, PTL DEF Spec

\* No retry waits longer than its first delay or the maximum, plus the jitter of a
\* claim, whatever the outcomes and for every configuration validate accepts.
THEOREM DelaysBounded == Spec => []RetriesBounded
<1>1. DelayInv => RetriesBounded
  BY DEF DelayInv
<1> QED
  BY <1>1, InitDelayInv, NextDelayInv, PTL DEF Spec

\* No retry loop becomes a busy loop, except by a sum that the configuration leaves
\* no room for; the backoff and the waits of a fetch keep their bounds even then.
THEOREM DelaysNeverHot == Spec => []NeverHot
<1>1. DelayInv => NeverHot
  BY DEF DelayInv
<1> QED
  BY <1>1, InitDelayInv, NextDelayInv, PTL DEF Spec
=============================================================================
