--------------------------- MODULE LombKernelProofs ---------------------------
(***************************************************************************)
(* Proofs about LombKernel, for every set of calls and powers, every radius *)
(* and every order in which the powers are finished: that the result is the *)
(* winner of the chunk on the CPU (CpuExact), that of the window around the *)
(* device's winner otherwise (RefinedExact), and what follows for agreement *)
(* of the backends, the edge diagnostic and the frequencies used.           *)
(***************************************************************************)
EXTENDS LombKernel, TLAPS

\* The powers under collection are those of the CPU, not the device's.
OnCpu == ~OnDevice \/ raw # {}

\* The only power `powers` holds for i is v.
Holds(i, v) == powers[i] = {v}

\* Of the indices in S, w has the greatest of the powers collected, the first of several.
Leads(w, S) ==
  /\ w \in S
  /\ \A j \in S : /\ ~Holds(j, NonFinite)
                  /\ ~Better(j, w)
                  /\ j < w => Better(w, j)

\* Nothing has been computed yet.
Untouched == cpu = {} /\ range = {} /\ raw = {} /\ best = {} /\ next = 0

\* What is wanted is the whole chunk or, once the device has found its winner, the
\* window around it.
Wanted(R, S) == (R = {} => S = Chunk) /\ (\A r \in R : S = RefinementRange(P.count, r))

\* What the CPU has collected are finite values of `power`.
Collected ==
  OnCpu => /\ cpu # {}
           /\ \A f \in cpu, i \in range :
                powers[i] # {} => f[i] # NonFinite /\ powers[i] = {f[i]}

\* The scan has gone through an initial part of the range and knows its winner.
Scanning ==
  \E lo, hi \in Chunk :
    /\ lo <= hi /\ range = lo..hi
    /\ next \in lo..(hi + 1)
    /\ next = lo => best = {}
    /\ next > lo => \E w \in Chunk : best = {w} /\ Leads(w, lo..(next - 1))

\* A success carries the winner of the range, in the powers of the CPU.
Success ==
  /\ Validated(call.dataset) = "none"
  /\ OnCpu /\ Wanted(raw, range)
  /\ \E f \in cpu, w \in Chunk :
       /\ best = {w} /\ IsWinner(w, range, f)
       /\ P.first + w <= MaxIndex
       /\ result = {Ok(w, f[w])}

\* On the CPU a failure has one of four reasons.
Failure ==
  ~OnDevice =>
    \/ Validated(call.dataset) # "none"
    \/ \E i \in Chunk : ~IsPositive(Frequency(P, i))
    \/ \E f \in cpu, i \in Chunk : f[i] = NonFinite
    \/ \E f \in cpu, w \in Chunk : IsWinner(w, Chunk, f) /\ P.first + w > MaxIndex

\* The inductive invariant: what each phase knows of the powers, and in the end of the
\* result.
KernelInv ==
  /\ TypeOK
  /\ \A f, g \in cpu : f = g
  /\ \A r, q \in raw : r = q
  /\ ~OnDevice => raw = {}
  /\ phase \in {"validate", "device"} => Untouched
  /\ phase \in {"device", "evaluate", "scan"} => Validated(call.dataset) = "none"
  /\ phase = "device" => OnDevice
  /\ phase = "evaluate" => OnCpu /\ best = {}
  /\ phase \in {"evaluate", "scan"} => Wanted(raw, range) /\ Collected
  /\ phase = "scan" => Scanning
  /\ phase = "done" => IF Succeeded THEN Success ELSE Failure

-----------------------------------------------------------------------------
(* The operators of the kernel. *)

\* What the assumption says of the call at hand.
LEMMA PayloadTypes ==
  ASSUME call \in Calls
  PROVE  /\ P.count \in Nat /\ P.first \in Nat /\ P.first <= MaxIndex /\ MaxIndex \in Nat
         /\ P.start \in Float /\ P.step \in Float
BY KernelAssumption DEF P

\* A product of natural numbers grows with its first factor.
LEMMA ProductMonotone ==
  ASSUME NEW i \in Nat, NEW n \in Nat, NEW s \in Nat, i <= n
  PROVE  i * s \in Nat /\ n * s \in Nat /\ i * s <= n * s
<1>1. PICK k \in Nat : n = i + k
  <2>1. n - i \in Nat /\ n = i + (n - i)
    OBVIOUS
  <2> QED
    BY <2>1
<1>2. n * s = i * s + k * s
  BY <1>1
<1>3. k * s \in Nat /\ i * s \in Nat
  OBVIOUS
<1> QED
  BY <1>2, <1>3

\* Natural numbers are added and multiplied exactly as long as the result is finite.
LEMMA ExactBelowMax ==
  ASSUME NEW a \in Nat, NEW b \in Nat
  PROVE  /\ a + b <= MaxFinite => Plus(a, b) = a + b
         /\ a * b <= MaxFinite => Times(a, b) = a * b
<1>1. IsFinite(a) /\ IsFinite(b)
  BY FloatAssumption DEF IsFinite
<1>2. \A v \in Nat : v <= MaxFinite => Overflowing(v) = v
  BY FloatAssumption DEF Overflowing
<1>3. a + b \in Nat /\ a * b \in Nat
  OBVIOUS
<1> QED
  BY <1>1, <1>2, <1>3 DEF Plus, Times

\* If both ends of a grid are usable, so are all frequencies between them.
LEMMA GridBetweenEnds ==
  ASSUME NEW p, p.count \in Nat \ {0}, p.start \in Float, p.step \in Float,
         GridStarts(p), GridEnds(p), NEW i \in 0..(p.count - 1)
  PROVE  IsPositive(Frequency(p, i))
<1> DEFINE a == p.start
           s == p.step
           n == p.count - 1
<1>1. /\ a \in Nat \ {0} /\ s \in Nat \ {0} /\ a <= MaxFinite /\ s <= MaxFinite
      /\ MaxFinite \in Nat /\ NonFinite \notin Int /\ i \in Nat /\ n \in Nat /\ i <= n
  BY FloatAssumption DEF GridStarts, IsPositive, IsFinite, Float
<1>2. IsPositive(Plus(a, Times(n, s)))
  BY DEF GridEnds, Frequency
<1> SUFFICES IsPositive(Plus(a, Times(i, s)))
  BY DEF Frequency
<1> HIDE DEF a, s, n
<1>3. i * s \in Nat /\ n * s \in Nat /\ i * s <= n * s
  BY <1>1, ProductMonotone
<1>4. Times(n, s) = n * s /\ n * s <= MaxFinite
  BY <1>1, <1>2, <1>3 DEF Times, Plus, IsPositive, IsFinite, Overflowing
<1>5. a + n * s <= MaxFinite
  BY <1>1, <1>2, <1>3, <1>4 DEF Plus, IsPositive, IsFinite, Overflowing
<1>6. i * s <= MaxFinite /\ a + i * s <= MaxFinite
  BY <1>1, <1>3, <1>4, <1>5
<1>7. Times(i, s) = i * s /\ Plus(a, i * s) = a + i * s
  BY <1>1, <1>3, <1>6, ExactBelowMax
<1> QED
  BY <1>1, <1>3, <1>7 DEF IsPositive, IsFinite

\* A valid call has a chunk, and a usable frequency for every index of it.
LEMMA ValidChunk ==
  ASSUME call \in Calls, Validated(call.dataset) = "none"
  PROVE  /\ P.count \in Nat \ {0}
         /\ \A i \in Chunk : IsPositive(Frequency(P, i))
<1>1. P.count # 0 /\ GridStarts(P) /\ GridEnds(P)
  BY DEF Validated
<1> QED
  BY <1>1, PayloadTypes, GridBetweenEnds DEF Chunk

\* refinement_range is the part of the chunk within Radius of the winner.
LEMMA WindowExtent ==
  ASSUME NEW n \in Nat \ {0}, NEW w \in 0..(n - 1)
  PROVE  /\ RefinementStart(w) \in 0..(n - 1) /\ RefinementEnd(n, w) \in 0..(n - 1)
         /\ RefinementStart(w) <= w /\ w <= RefinementEnd(n, w)
         /\ RefinementRange(n, w) = {j \in 0..(n - 1) : w - Radius <= j /\ j <= w + Radius}
<1>1. Radius \in Nat
  BY KernelAssumption
<1>2. /\ RefinementStart(w) \in 0..(n - 1) /\ RefinementEnd(n, w) \in 0..(n - 1)
      /\ RefinementStart(w) <= w /\ w <= RefinementEnd(n, w)
  BY <1>1 DEF RefinementStart, RefinementEnd
<1>3. ASSUME NEW j \in 0..(n - 1)
      PROVE  /\ RefinementStart(w) <= j <=> w - Radius <= j
             /\ j <= RefinementEnd(n, w) <=> j <= w + Radius
  BY <1>1 DEF RefinementStart, RefinementEnd
<1> QED
  BY <1>2, <1>3 DEF RefinementRange

\* The ends of an interval.
LEMMA IntervalEnds ==
  ASSUME NEW lo \in Int, NEW hi \in Int, lo <= hi
  PROVE  Lowest(lo..hi) = lo /\ Highest(lo..hi) = hi
<1>1. lo \in lo..hi /\ hi \in lo..hi
  OBVIOUS
<1>2. \A i \in lo..hi : (\A j \in lo..hi : i <= j) => i = lo
  BY <1>1
<1>3. \A i \in lo..hi : (\A j \in lo..hi : j <= i) => i = hi
  BY <1>1
<1> QED
  BY <1>1, <1>2, <1>3 DEF Lowest, Highest

\* A finite power is a number.
LEMMA PowersAreNumbers ==
  Powers \subseteq Nat /\ NonFinite \notin Powers /\ NonFinite \notin Nat
<1>1. Powers \subseteq Nat
  BY KernelAssumption
<1>2. NonFinite \notin Nat
  BY FloatAssumption
<1> QED
  BY <1>1, <1>2

\* There is at most one winner.
LEMMA WinnerUnique ==
  ASSUME NEW S \in SUBSET Nat, NEW f, \A j \in S : f[j] \in PowerOutcomes,
         NEW v, NEW w, IsWinner(v, S, f), IsWinner(w, S, f)
  PROVE  v = w
<1>1. f[v] \in Nat /\ f[w] \in Nat /\ v \in Nat /\ w \in Nat
  BY PowersAreNumbers DEF IsWinner, PowerOutcomes
<1>2. f[v] = f[w]
  BY <1>1 DEF IsWinner
<1> QED
  BY <1>1, <1>2 DEF IsWinner

\* The ranges the powers are wanted for are intervals of the chunk.
LEMMA WantedInterval ==
  ASSUME call \in Calls, Validated(call.dataset) = "none", NEW R \in SUBSET Chunk,
         NEW S, Wanted(R, S)
  PROVE  \E lo, hi \in Chunk : lo <= hi /\ S = lo..hi
<1>1. P.count \in Nat \ {0}
  BY ValidChunk
<1>2. CASE R = {}
  <2>1. 0 \in Chunk /\ P.count - 1 \in Chunk /\ 0 <= P.count - 1 /\ S = 0..(P.count - 1)
    BY <1>1, <1>2 DEF Wanted, Chunk
  <2> QED
    BY <2>1
<1>3. ASSUME NEW r \in R PROVE \E lo, hi \in Chunk : lo <= hi /\ S = lo..hi
  <2>1. r \in 0..(P.count - 1)
    BY DEF Chunk
  <2>2. S = RefinementStart(r)..RefinementEnd(P.count, r)
    BY DEF Wanted, RefinementRange
  <2>3. /\ RefinementStart(r) \in Chunk /\ RefinementEnd(P.count, r) \in Chunk
        /\ RefinementStart(r) <= RefinementEnd(P.count, r)
    BY <1>1, <2>1, WindowExtent DEF Chunk
  <2> QED
    BY <2>2, <2>3
<1> QED
  BY <1>2, <1>3

\* At the end of a scan the leader of the CPU's powers is the winner.
LEMMA LeaderIsWinner ==
  ASSUME NEW f, NEW S \in SUBSET Nat, NEW w, Leads(w, S),
         \A j \in S : f[j] \in Powers /\ powers[j] = {f[j]}
  PROVE  IsWinner(w, S, f)
<1>1. w \in S /\ \A j \in S : ~Better(j, w) /\ (j < w => Better(w, j))
  BY DEF Leads
<1>2. \A j \in S : f[j] \in Nat /\ f[j] # NonFinite
  BY PowersAreNumbers
<1>3. \A j \in S : Better(j, w) <=> f[j] > f[w]
  BY <1>1 DEF Better
<1>4. \A j \in S : Better(w, j) <=> f[w] > f[j]
  BY <1>1 DEF Better
<1>5. ASSUME NEW j \in S PROVE f[j] <= f[w] /\ (f[j] = f[w] => w <= j)
  <2>1. ~(f[j] > f[w]) /\ f[j] \in Nat /\ f[w] \in Nat
    BY <1>1, <1>2, <1>3
  <2>2. j < w => f[w] > f[j]
    BY <1>1, <1>4
  <2>3. j \in Nat /\ w \in Nat
    BY <1>1
  <2> QED
    BY <2>1, <2>2, <2>3
<1> QED
  BY <1>1, <1>2, <1>5 DEF IsWinner

-----------------------------------------------------------------------------
(* The invariant, step by step. *)

\* What follows from the call alone stays.
LEMMA SameCall ==
  ASSUME call' = call
  PROVE  /\ P' = P /\ Chunk' = Chunk /\ OnDevice' = OnDevice
         /\ Validated(call.dataset)' = Validated(call.dataset)
BY DEF P, Chunk, OnDevice, Validated

\* Before validation nothing has been computed.
LEMMA InitKernelInv == Init => KernelInv
<1> SUFFICES ASSUME Init PROVE KernelInv
  OBVIOUS
<1>1. powers \in [Chunk -> {{}} \cup {{v} : v \in PowerOutcomes \cup ShaderOutcomes}]
  BY DEF Init, NoPowers
<1>2. TypeOK
  BY <1>1 DEF Init, TypeOK, Succeeded
<1> QED
  BY <1>2 DEF Init, KernelInv, Untouched

\* A call that returns an error, for one of the reasons there are.
LEMMA FailInv ==
  ASSUME KernelInv, NEW e, e # "none", Return(Err(e)), Failure,
         UNCHANGED <<call, cpu, range, powers, next, best, raw>>
  PROVE  KernelInv'
<1>1. phase' = "done" /\ result' = {Err(e)} /\ Err(e).error # "none"
  BY DEF Return, Err
<1>2. ~Succeeded'
  BY <1>1 DEF Succeeded
<1>3. TypeOK'
  BY <1>1, <1>2, SameCall DEF KernelInv, TypeOK
<1>4. Failure'
  BY SameCall DEF Failure
<1>5. (~OnDevice => raw = {})'
  BY SameCall DEF KernelInv
<1> QED
  BY <1>1, <1>2, <1>3, <1>4, <1>5 DEF KernelInv

\* The CPU begins to evaluate a range of a valid call.
LEMMA EvaluatingInv ==
  ASSUME KernelInv, Validated(call.dataset) = "none", result = {}, NEW S, Evaluating(S),
         UNCHANGED <<call, next, result>>,
         raw' \subseteq Chunk, \A r, q \in raw' : r = q, OnDevice <=> raw' # {},
         Wanted(raw', S)
  PROVE  KernelInv'
<1>1. /\ phase' = "evaluate" /\ range' = S /\ powers' = NoPowers /\ best' = {}
      /\ cpu' \in IF cpu = {} THEN {{f} : f \in [Chunk -> PowerOutcomes]} ELSE {cpu}
  BY DEF Evaluating
<1>2. /\ call' = call /\ Chunk' = Chunk /\ P' = P /\ OnDevice' = OnDevice
      /\ Validated(call.dataset)' = "none"
  BY SameCall
<1>3. PICK lo, hi \in Chunk : lo <= hi /\ S = lo..hi
  BY WantedInterval DEF KernelInv, TypeOK
<1>4. S \subseteq Chunk
  BY <1>3, PayloadTypes DEF KernelInv, TypeOK, Chunk
<1>5. /\ cpu' \in SUBSET [Chunk -> PowerOutcomes] /\ cpu' # {}
      /\ \A f, g \in cpu' : f = g
  BY <1>1 DEF KernelInv, TypeOK
<1>6. /\ powers' \in [Chunk -> {{}} \cup {{v} : v \in PowerOutcomes \cup ShaderOutcomes}]
      /\ \A i \in Chunk : powers'[i] = {}
  BY <1>1 DEF NoPowers
<1>7. ~Succeeded'
  BY DEF Succeeded
<1>8. TypeOK'
  BY <1>1, <1>2, <1>4, <1>5, <1>6, <1>7 DEF KernelInv, TypeOK
<1>9. Collected'
  BY <1>1, <1>2, <1>4, <1>5, <1>6 DEF Collected
<1>10. OnCpu'
  BY <1>2 DEF OnCpu
<1>11. Wanted(raw, range)'
  BY <1>1, <1>2 DEF Wanted
<1> QED
  BY <1>1, <1>2, <1>5, <1>7, <1>8, <1>9, <1>10, <1>11 DEF KernelInv

\* Validation rejects the call, or leads to the device or to the CPU.
LEMMA ValidateInv == KernelInv /\ Validate => KernelInv'
<1> SUFFICES ASSUME KernelInv, Validate PROVE KernelInv'
  OBVIOUS
<1> DEFINE error == Validated(call.dataset)
<1>1. phase = "validate" /\ Untouched /\ UNCHANGED <<call, next, raw>> /\ result = {}
  BY DEF Validate, KernelInv, TypeOK
<1>2. CASE error # "none" /\ Return(Err(error)) /\ UNCHANGED <<cpu, range, powers, best>>
  BY <1>1, <1>2, FailInv DEF Failure
<1>3. CASE OnDevice /\ Return(Err("InvalidCount")) /\ UNCHANGED <<cpu, range, powers, best>>
  BY <1>1, <1>3, FailInv DEF Failure
<1>4. CASE /\ error = "none" /\ OnDevice /\ phase' = "device"
           /\ UNCHANGED <<cpu, range, powers, best, result>>
  <2>1. TypeOK' /\ Untouched'
    BY <1>1, <1>4, SameCall DEF KernelInv, TypeOK, Untouched, Succeeded
  <2>2. OnDevice' /\ Validated(call.dataset)' = "none"
    BY <1>1, <1>4, SameCall
  <2> QED
    BY <1>1, <1>4, <2>1, <2>2 DEF KernelInv
<1>5. CASE error = "none" /\ ~OnDevice /\ Evaluating(Chunk) /\ UNCHANGED result
  <2>1. raw' = {} /\ Wanted(raw', Chunk)
    BY <1>1 DEF Untouched, Wanted
  <2> QED
    BY <1>1, <1>5, <2>1, EvaluatingInv
<1> QED
  BY <1>2, <1>3, <1>4, <1>5 DEF Validate

\* The device returns powers of the whole chunk, or fails.
LEMMA DeviceInv == KernelInv /\ Device => KernelInv'
<1> SUFFICES ASSUME KernelInv, Device PROVE KernelInv'
  OBVIOUS
<1>1. /\ phase = "device" /\ OnDevice /\ Untouched /\ Validated(call.dataset) = "none"
      /\ UNCHANGED <<call, cpu, next, best, raw>> /\ result = {}
  BY DEF Device, KernelInv, TypeOK
<1>2. CASE Return(Err("Execution")) /\ UNCHANGED <<powers, range>>
  BY <1>1, <1>2, FailInv DEF Failure
<1>3. ASSUME NEW f \in [Chunk -> ShaderOutcomes], powers' = [i \in Chunk |-> {f[i]}],
             range' = Chunk, phase' = "scan", result' = result
      PROVE  KernelInv'
  <2>1. Chunk' = Chunk /\ P' = P /\ OnDevice' /\ Validated(call.dataset)' = "none"
    BY <1>1, SameCall
  <2>2. P.count \in Nat \ {0}
    BY <1>1, ValidChunk DEF KernelInv, TypeOK
  <2>3. powers' \in [Chunk -> {{}} \cup {{v} : v \in PowerOutcomes \cup ShaderOutcomes}]
    BY <1>3
  <2>4. \A i \in Chunk : powers'[i] # {}
    BY <1>3
  <2>5. TypeOK'
    BY <1>1, <1>3, <2>1, <2>3, <2>4 DEF KernelInv, TypeOK, Untouched, Succeeded
  <2>6. Scanning'
    <3>1. /\ 0 \in Chunk' /\ P.count - 1 \in Chunk' /\ range' = 0..(P.count - 1)
          /\ 0 <= P.count - 1
      BY <1>3, <2>1, <2>2 DEF Chunk
    <3>2. next' = 0 /\ best' = {} /\ 0 \in 0..((P.count - 1) + 1)
      BY <1>1, <2>2 DEF Untouched
    <3> QED
      BY <3>1, <3>2 DEF Scanning
  <2>7. ~OnCpu'
    BY <1>1, <2>1 DEF OnCpu, Untouched
  <2>8. Wanted(raw, range)' /\ Collected'
    BY <1>1, <1>3, <2>1, <2>7 DEF Wanted, Collected, Untouched
  <2> QED
    BY <1>1, <1>3, <2>1, <2>5, <2>6, <2>8 DEF KernelInv
<1> QED
  BY <1>2, <1>3 DEF Device

\* One more power is collected, in whatever order the threads finish.
LEMMA EvaluateInv == ASSUME KernelInv, NEW i \in range, Evaluate(i) PROVE KernelInv'
<1>1. /\ phase = "evaluate" /\ OnCpu /\ best = {} /\ Collected /\ Wanted(raw, range)
      /\ Validated(call.dataset) = "none" /\ result = {} /\ i \in Chunk
      /\ UNCHANGED <<call, cpu, range, best, raw>>
  BY DEF Evaluate, KernelInv, TypeOK
<1>2. PICK f \in cpu :
        \/ ~OnDevice /\ ~IsPositive(Frequency(P, i)) /\ Return(Err("InvalidFrequency"))
           /\ UNCHANGED <<powers, next>>
        \/ f[i] = NonFinite /\ Return(Err("InvalidResult")) /\ UNCHANGED <<powers, next>>
        \/ /\ f[i] # NonFinite
           /\ Collect(i, f[i])
           /\ phase' = IF \A j \in range : powers'[j] # {} THEN "scan" ELSE phase
           /\ next' = Lowest(range)
           /\ UNCHANGED result
  BY DEF Evaluate
<1>3. CASE ~OnDevice /\ ~IsPositive(Frequency(P, i)) /\ Return(Err("InvalidFrequency"))
           /\ UNCHANGED <<powers, next>>
  BY <1>1, <1>3, FailInv DEF Failure
<1>4. CASE f[i] = NonFinite /\ Return(Err("InvalidResult")) /\ UNCHANGED <<powers, next>>
  BY <1>1, <1>4, FailInv DEF Failure
<1>5. CASE /\ f[i] # NonFinite
           /\ Collect(i, f[i])
           /\ phase' = IF \A j \in range : powers'[j] # {} THEN "scan" ELSE phase
           /\ next' = Lowest(range)
           /\ UNCHANGED result
  <2>1. /\ P' = P /\ Chunk' = Chunk /\ OnDevice' = OnDevice
        /\ Validated(call.dataset)' = "none"
    BY <1>1, SameCall
  <2>2. PICK lo, hi \in Chunk : lo <= hi /\ range = lo..hi
    BY <1>1, WantedInterval DEF KernelInv, TypeOK
  <2>3. lo \in Nat /\ hi \in Nat
    BY PayloadTypes DEF Chunk, KernelInv, TypeOK
  <2>4. next' = lo /\ next' \in Nat
    BY <1>5, <2>2, <2>3, IntervalEnds
  <2>5. powers' = [powers EXCEPT ![i] = {f[i]}] /\ f[i] \in PowerOutcomes
    BY <1>1, <1>5 DEF Collect, KernelInv, TypeOK
  <2>6. /\ powers' \in [Chunk -> {{}} \cup {{v} : v \in PowerOutcomes \cup ShaderOutcomes}]
        /\ powers'[i] = {f[i]} /\ \A j \in Chunk \ {i} : powers'[j] = powers[j]
    BY <1>1, <2>5 DEF KernelInv, TypeOK
  <2>7. phase' \in {"evaluate", "scan"} /\ (phase' = "scan" => \A j \in range : powers'[j] # {})
    BY <1>1, <1>5
  <2>8. TypeOK'
    BY <1>1, <1>5, <2>1, <2>4, <2>6, <2>7 DEF KernelInv, TypeOK, Succeeded
  <2>9. Collected'
    <3>1. \A g \in cpu : g = f
      BY DEF KernelInv
    <3>2. range \subseteq Chunk
      BY DEF KernelInv, TypeOK
    <3>3. \A j \in range : powers'[j] # {} => f[j] # NonFinite /\ powers'[j] = {f[j]}
      BY <1>1, <1>5, <2>6, <3>2 DEF Collected
    <3> QED
      BY <1>1, <3>1, <3>3 DEF Collected
  <2>10. Scanning'
    BY <1>1, <2>1, <2>2, <2>3, <2>4 DEF Scanning
  <2>11. Wanted(raw, range)' /\ OnCpu'
    BY <1>1, <2>1 DEF Wanted, OnCpu
  <2> QED
    BY <1>1, <2>1, <2>7, <2>8, <2>9, <2>10, <2>11 DEF KernelInv
<1> QED
  BY <1>2, <1>3, <1>4, <1>5

\* The leader after one more power.
LEMMA LeaderStep ==
  ASSUME NEW lo \in Nat, NEW n \in Nat, NEW g,
         \A j \in lo..n : g[j] \in Nat /\ powers[j] = {g[j]} /\ g[j] # NonFinite,
         \/ n = lo /\ best = {}
         \/ n > lo /\ \E w \in lo..(n - 1) : best = {w} /\ Leads(w, lo..(n - 1)),
         best' = IF \A j \in best : Better(n, j) THEN {n} ELSE best
  PROVE  \E w \in lo..n : best' = {w} /\ Leads(w, lo..n)
<1>1. \A i, j \in lo..n : Better(i, j) <=> g[i] > g[j]
  BY DEF Better
<1>2. \A j \in lo..n : ~Holds(j, NonFinite)
  BY DEF Holds
<1>3. CASE n = lo /\ best = {}
  <2>1. best' = {n} /\ n \in lo..n /\ lo..n = {n}
    BY <1>3
  <2>2. Leads(n, lo..n)
    BY <1>1, <1>2, <2>1 DEF Leads
  <2> QED
    BY <2>1, <2>2
<1>4. ASSUME n > lo, NEW w \in lo..(n - 1), best = {w}, Leads(w, lo..(n - 1))
      PROVE  \E v \in lo..n : best' = {v} /\ Leads(v, lo..n)
  <2>1. /\ w \in lo..n /\ n \in lo..n /\ w < n
        /\ \A j \in lo..n : j = n \/ j \in lo..(n - 1)
        /\ lo..(n - 1) \subseteq lo..n
    BY <1>4
  <2>2. \A j \in lo..(n - 1) : g[j] <= g[w] /\ (j < w => g[w] > g[j])
    BY <1>1, <1>4, <2>1 DEF Leads
  <2>3. CASE g[n] > g[w]
    <3>1. best' = {n}
      BY <1>1, <1>4, <2>1, <2>3
    <3>2. \A j \in lo..n : g[j] <= g[n] /\ (j < n => g[n] > g[j])
      BY <2>1, <2>2, <2>3
    <3>3. Leads(n, lo..n)
      BY <1>1, <1>2, <2>1, <3>2 DEF Leads
    <3> QED
      BY <2>1, <3>1, <3>3
  <2>4. CASE ~(g[n] > g[w])
    <3>1. best' = {w}
      BY <1>1, <1>4, <2>1, <2>4
    <3>2. \A j \in lo..n : g[j] <= g[w] /\ (j < w => g[w] > g[j])
      BY <2>1, <2>2, <2>4
    <3>3. Leads(w, lo..n)
      BY <1>1, <1>2, <2>1, <3>2 DEF Leads
    <3> QED
      BY <2>1, <3>1, <3>3
  <2> QED
    BY <2>3, <2>4
<1> QED
  BY <1>3, <1>4

\* One more power is compared with the leader.
LEMMA ScanInv == KernelInv /\ Scan => KernelInv'
<1> SUFFICES ASSUME KernelInv, Scan PROVE KernelInv'
  OBVIOUS
<1>1. /\ phase = "scan" /\ Collected /\ Wanted(raw, range) /\ next \in range
      /\ Validated(call.dataset) = "none" /\ result = {} /\ range \subseteq Chunk
      /\ \A j \in range : powers[j] # {}
      /\ UNCHANGED <<call, cpu, range, powers, raw>>
  BY DEF Scan, KernelInv, TypeOK
<1>2. PICK lo, hi \in Chunk :
        /\ lo <= hi /\ range = lo..hi /\ next \in lo..(hi + 1)
        /\ next = lo => best = {}
        /\ next > lo => \E w \in Chunk : best = {w} /\ Leads(w, lo..(next - 1))
  BY <1>1 DEF KernelInv, Scanning
<1>3. lo \in Nat /\ hi \in Nat /\ next \in Nat /\ next <= hi
  BY <1>1, <1>2, PayloadTypes DEF Chunk, KernelInv, TypeOK
<1>4. CASE /\ powers[next] = {NonFinite} /\ Return(Err("InvalidResult"))
           /\ UNCHANGED <<next, best>>
  <2>1. OnDevice
    BY <1>1, <1>4 DEF Collected, OnCpu
  <2> QED
    BY <1>1, <1>4, <2>1, FailInv DEF Failure
<1>5. CASE /\ powers[next] # {NonFinite}
           /\ best' = IF \A j \in best : Better(next, j) THEN {next} ELSE best
           /\ next' = next + 1
           /\ UNCHANGED <<phase, result>>
  <2>1. /\ P' = P /\ Chunk' = Chunk /\ OnDevice' = OnDevice
        /\ Validated(call.dataset)' = "none"
    BY <1>1, SameCall
  <2> DEFINE g == [j \in lo..next |-> CHOOSE v \in Powers : powers[j] = {v}]
  <2>2. \A j \in lo..next : ~Holds(j, NonFinite)
    <3>1. \A j \in lo..(next - 1) : ~Holds(j, NonFinite)
      BY <1>2, <1>3 DEF Leads
    <3>2. ~Holds(next, NonFinite)
      BY <1>5 DEF Holds
    <3> QED
      BY <1>3, <3>1, <3>2
  <2>3. \A j \in lo..next : \E v \in Powers : powers[j] = {v}
    <3>1. lo..next \subseteq range
      BY <1>2, <1>3
    <3>2. \A j \in range : \E v \in Powers \cup {NonFinite} : powers[j] = {v}
      BY <1>1 DEF KernelInv, TypeOK, PowerOutcomes, ShaderOutcomes
    <3> QED
      BY <2>2, <3>1, <3>2 DEF Holds
  <2>4. \A j \in lo..next : g[j] \in Powers /\ powers[j] = {g[j]}
    BY <2>3
  <2> HIDE DEF g
  <2>5. \A j \in lo..next : g[j] \in Nat /\ powers[j] = {g[j]} /\ g[j] # NonFinite
    BY <2>4, PowersAreNumbers
  <2>6. \/ next = lo /\ best = {}
        \/ next > lo /\ \E w \in lo..(next - 1) : best = {w} /\ Leads(w, lo..(next - 1))
    BY <1>2, <1>3 DEF Leads
  <2>7. PICK w \in lo..next : best' = {w} /\ Leads(w, lo..next)
    BY <1>3, <1>5, <2>5, <2>6, LeaderStep
  <2>8. w \in range /\ w \in Chunk /\ best' \subseteq range
    BY <1>1, <1>2, <1>3, <2>7
  <2>9. PICK n \in Nat : n = next
    BY <1>3
  <2>10. Scanning'
    <3>1. /\ next' = n + 1 /\ next' - 1 = n /\ next' \in lo..(hi + 1) /\ next' > lo /\ next' # lo
      BY <1>2, <1>3, <1>5, <2>9
    <3>2. Leads(w, lo..n)
      BY <2>7, <2>9
    <3>3. Leads(w, lo..n)'
      BY <1>1, <3>2 DEF Leads, Better, Holds
    <3>4. Leads(w, lo..(next - 1))'
      BY <3>1, <3>3 DEF Leads, Better, Holds
    <3> HIDE DEF g
    <3> QED
      BY <1>1, <1>2, <2>1, <2>7, <2>8, <3>1, <3>4 DEF Scanning
  <2>11. TypeOK'
    BY <1>1, <1>3, <1>5, <2>1, <2>8 DEF KernelInv, TypeOK, Succeeded
  <2>12. Wanted(raw, range)' /\ Collected'
    BY <1>1, <2>1 DEF Wanted, Collected, OnCpu
  <2> QED
    BY <1>1, <1>5, <2>1, <2>10, <2>11, <2>12 DEF KernelInv
<1> QED
  BY <1>4, <1>5 DEF Scan

\* The scan's winner is the result, the device's winner, or beyond the index type.
LEMMA SelectInv == KernelInv /\ Select => KernelInv'
<1> SUFFICES ASSUME KernelInv, Select PROVE KernelInv'
  OBVIOUS
<1>1. /\ phase = "scan" /\ Collected /\ Wanted(raw, range) /\ next \notin range
      /\ Validated(call.dataset) = "none" /\ result = {} /\ range \subseteq Chunk
      /\ \A j \in range : powers[j] # {}
      /\ UNCHANGED <<call, next>>
  BY DEF Select, KernelInv, TypeOK
<1>2. PICK lo, hi \in Chunk :
        /\ lo <= hi /\ range = lo..hi /\ next \in lo..(hi + 1)
        /\ next > lo => \E v \in Chunk : best = {v} /\ Leads(v, lo..(next - 1))
  BY <1>1 DEF KernelInv, Scanning
<1>3. lo \in Nat /\ hi \in Nat /\ next = hi + 1
  BY <1>1, <1>2, PayloadTypes DEF Chunk, KernelInv, TypeOK
<1>4. PICK w \in best :
        \/ P.first + w > MaxIndex /\ Return(Err("InvalidResult"))
           /\ UNCHANGED <<cpu, range, powers, best, raw>>
        \/ /\ P.first + w <= MaxIndex /\ OnDevice /\ raw = {} /\ raw' = {w}
           /\ Evaluating(RefinementRange(P.count, w))
           /\ UNCHANGED result
        \/ /\ P.first + w <= MaxIndex /\ OnCpu
           /\ \E power \in powers[w] : Return(Ok(w, power))
           /\ UNCHANGED <<cpu, range, powers, best, raw>>
  BY DEF Select, OnCpu
<1>5. w \in Chunk /\ best = {w} /\ Leads(w, range)
  BY <1>2, <1>3, <1>4
<1>6. ASSUME OnCpu PROVE \E f \in cpu : IsWinner(w, range, f) /\ powers[w] = {f[w]}
  <2>1. PICK f \in cpu : \A j \in range : f[j] # NonFinite /\ powers[j] = {f[j]}
    BY <1>1, <1>6 DEF Collected
  <2>2. \A j \in range : f[j] \in Powers
    BY <1>1, <2>1 DEF KernelInv, TypeOK, PowerOutcomes
  <2>3. range \subseteq Nat
    BY <1>2, <1>3
  <2>4. w \in range
    BY <1>5 DEF Leads
  <2> QED
    BY <1>5, <2>1, <2>2, <2>3, <2>4, LeaderIsWinner
<1>7. CASE P.first + w > MaxIndex /\ Return(Err("InvalidResult"))
           /\ UNCHANGED <<cpu, range, powers, best, raw>>
  <2>1. Failure
    <3>1. SUFFICES ASSUME ~OnDevice
                   PROVE  \E f \in cpu, v \in Chunk : IsWinner(v, Chunk, f) /\ P.first + v > MaxIndex
      BY DEF Failure
    <3>2. range = Chunk /\ OnCpu
      BY <1>1, <3>1 DEF Wanted, OnCpu, KernelInv
    <3> QED
      BY <1>5, <1>6, <1>7, <3>2
  <2> QED
    BY <1>1, <1>7, <2>1, FailInv
<1>8. CASE /\ P.first + w <= MaxIndex /\ OnDevice /\ raw = {} /\ raw' = {w}
           /\ Evaluating(RefinementRange(P.count, w))
           /\ UNCHANGED result
  <2>1. Wanted(raw', RefinementRange(P.count, w))
    BY <1>8 DEF Wanted
  <2> QED
    BY <1>1, <1>5, <1>8, <2>1, EvaluatingInv
<1>9. CASE /\ P.first + w <= MaxIndex /\ OnCpu
           /\ \E power \in powers[w] : Return(Ok(w, power))
           /\ UNCHANGED <<cpu, range, powers, best, raw>>
  <2>1. PICK f \in cpu : IsWinner(w, range, f) /\ powers[w] = {f[w]}
    BY <1>6, <1>9
  <2>2. phase' = "done" /\ result' = {Ok(w, f[w])}
    BY <1>9, <2>1 DEF Return
  <2>3. /\ P' = P /\ Chunk' = Chunk /\ OnDevice' = OnDevice
        /\ Validated(call.dataset)' = "none"
    BY <1>1, SameCall
  <2>4. Ok(w, f[w]).error = "none" /\ Ok(w, f[w]).index = P.first + w
    BY DEF Ok
  <2>5. Succeeded'
    BY <2>2, <2>4 DEF Succeeded
  <2>6. TypeOK'
    BY <1>1, <1>9, <2>2, <2>3, <2>4 DEF KernelInv, TypeOK
  <2>7. OnCpu' /\ Wanted(raw, range)'
    BY <1>1, <1>9, <2>3 DEF OnCpu, Wanted
  <2>8. Ok(w, f[w])' = Ok(w, f[w])
    BY <2>3 DEF Ok
  <2>9. Success'
    BY <1>5, <1>9, <2>1, <2>2, <2>3, <2>7, <2>8 DEF Success
  <2> QED
    BY <1>9, <2>2, <2>3, <2>5, <2>6, <2>9 DEF KernelInv
<1> QED
  BY <1>4, <1>7, <1>8, <1>9

\* Every step of the execution preserves the invariant.
LEMMA NextKernelInv == KernelInv /\ [Next]_vars => KernelInv'
<1> SUFFICES ASSUME KernelInv, [Next]_vars PROVE KernelInv'
  OBVIOUS
<1>1. CASE Validate
  BY <1>1, ValidateInv
<1>2. CASE Device
  BY <1>2, DeviceInv
<1>3. CASE \E i \in range : Evaluate(i)
  BY <1>3, EvaluateInv
<1>4. CASE Scan
  BY <1>4, ScanInv
<1>5. CASE Select
  BY <1>5, SelectInv
<1>6. CASE UNCHANGED vars
  <2>1. UNCHANGED <<call, phase, cpu, range, powers, next, best, raw, result>>
    BY <1>6 DEF vars
  <2>2. UNCHANGED <<P, Chunk, OnDevice, Validated(call.dataset)>>
    BY <2>1, SameCall
  <2>3. UNCHANGED <<TypeOK, Succeeded>>
    BY <2>1, <2>2 DEF TypeOK, Succeeded
  <2>4. UNCHANGED <<OnCpu, Untouched, Wanted(raw, range), Collected>>
    BY <2>1, <2>2 DEF OnCpu, Untouched, Wanted, Collected
  <2>5. UNCHANGED Scanning
    BY <2>1, <2>2 DEF Scanning, Leads, Holds, Better
  <2>6. UNCHANGED <<Success, Failure>>
    <3>1. \A w, power : Ok(w, power)' = Ok(w, power)
      BY <2>2 DEF Ok
    <3> QED
      BY <2>1, <2>2, <2>4, <3>1 DEF Success, Failure
  <2> QED
    BY <2>1, <2>2, <2>3, <2>4, <2>5, <2>6 DEF KernelInv
<1> QED
  BY <1>1, <1>2, <1>3, <1>4, <1>5, <1>6 DEF Next, Finished

\* The invariant holds in every state of every execution of a chunk.
THEOREM KernelInvariant == Spec => []KernelInv
BY InitKernelInv, NextKernelInv, PTL DEF Spec

-----------------------------------------------------------------------------
(* What follows from it. *)

\* Only indices of the chunk are evaluated, scanned or chosen, only a complete vector
\* is scanned, and a result's index fits its type.
THEOREM KernelTypeCorrect == Spec => []TypeOK
<1>1. KernelInv => TypeOK
  BY DEF KernelInv
<1> QED
  BY <1>1, KernelInvariant, PTL

\* Validation of the two ends of the grid covers every frequency used: for a grid of
\* any length, whatever the largest finite number is.
THEOREM GridAlwaysUsable == Spec => []GridUsable
<1>1. KernelInv => GridUsable
  BY ValidChunk DEF KernelInv, TypeOK, GridUsable
<1> QED
  BY <1>1, KernelInvariant, PTL

\* What a successful execution knows of its result.
LEMMA SuccessFacts ==
  ASSUME KernelInv, Succeeded
  PROVE  /\ Validated(call.dataset) = "none" /\ P.count \in Nat \ {0}
         /\ Chunk \subseteq Nat /\ range \subseteq Chunk /\ raw \subseteq Chunk
         /\ OnCpu /\ Wanted(raw, range)
         /\ \A f \in cpu : \A i \in Chunk : f[i] \in PowerOutcomes
         /\ \E w \in Chunk : /\ best = {w} /\ P.first + w <= MaxIndex /\ cpu # {}
                             /\ \A f \in cpu : IsWinner(w, range, f) /\ result = {Ok(w, f[w])}
<1>1. phase = "done" /\ Success
  BY DEF KernelInv, TypeOK, Succeeded
<1>2. \A f, g \in cpu : f = g
  BY DEF KernelInv
<1>3. PICK g \in cpu, w \in Chunk :
        /\ best = {w} /\ IsWinner(w, range, g)
        /\ P.first + w <= MaxIndex
        /\ result = {Ok(w, g[w])}
  BY <1>1 DEF Success
<1>4. \A f \in cpu : IsWinner(w, range, f) /\ result = {Ok(w, f[w])}
  BY <1>2, <1>3
<1>5. \A f \in cpu : \A i \in Chunk : f[i] \in PowerOutcomes
  BY DEF KernelInv, TypeOK
<1>6. P.count \in Nat \ {0} /\ Chunk \subseteq Nat
  BY <1>1, ValidChunk DEF Success, Chunk, KernelInv, TypeOK
<1> QED
  BY <1>1, <1>3, <1>4, <1>5, <1>6 DEF Success, KernelInv, TypeOK

\* On the CPU an execution succeeds exactly if everything is usable and the winner's
\* index has room, and returns the winner, in whatever order the threads finish.
THEOREM CpuResultExact == Spec => []CpuExact
<1>1. ASSUME KernelInv, phase = "done", ~OnDevice
      PROVE  /\ Succeeded <=>
                  /\ Validated(call.dataset) = "none"
                  /\ \A i \in Chunk : IsPositive(Frequency(P, i))
                  /\ \E f \in cpu, w \in Chunk : IsWinner(w, Chunk, f) /\ P.first + w <= MaxIndex
             /\ Succeeded => \E f \in cpu, w \in Chunk : IsWinner(w, Chunk, f) /\ result = {Ok(w, f[w])}
  <2>1. CASE Succeeded
    <3>1. \A i \in Chunk : IsPositive(Frequency(P, i))
      BY <2>1, <1>1, SuccessFacts, ValidChunk DEF KernelInv, TypeOK
    <3>2. range = Chunk
      BY <2>1, <1>1, SuccessFacts DEF Wanted, KernelInv
    <3>3. PICK w \in Chunk : /\ P.first + w <= MaxIndex /\ cpu # {}
                             /\ \A f \in cpu : IsWinner(w, range, f) /\ result = {Ok(w, f[w])}
      BY <2>1, <1>1, SuccessFacts
    <3>4. PICK f \in cpu : IsWinner(w, Chunk, f) /\ result = {Ok(w, f[w])}
      BY <3>2, <3>3
    <3> QED
      BY <2>1, <1>1, <3>1, <3>3, <3>4, SuccessFacts
  <2>2. CASE ~Succeeded
    <3>1. SUFFICES ASSUME Validated(call.dataset) = "none",
                          \A i \in Chunk : IsPositive(Frequency(P, i)),
                          NEW f \in cpu, NEW w \in Chunk, IsWinner(w, Chunk, f),
                          P.first + w <= MaxIndex
                   PROVE  FALSE
      BY <2>2
    <3>2. Failure /\ \A g, h \in cpu : g = h
      BY <1>1, <2>2 DEF KernelInv
    <3>3. \A g \in cpu, i \in Chunk : g[i] # NonFinite
      BY <3>1, <3>2 DEF IsWinner
    <3>4. PICK g \in cpu, v \in Chunk : IsWinner(v, Chunk, g) /\ P.first + v > MaxIndex
      BY <1>1, <3>1, <3>2, <3>3 DEF Failure
    <3>5. g = f
      BY <3>2
    <3>6. Chunk \subseteq Nat /\ P.first \in Nat /\ MaxIndex \in Nat
      BY <1>1, PayloadTypes DEF KernelInv, TypeOK, Chunk
    <3>7. \A i \in Chunk : f[i] \in PowerOutcomes
      BY <1>1 DEF KernelInv, TypeOK
    <3>8. v = w
      BY <3>1, <3>4, <3>5, <3>6, <3>7, WinnerUnique
    <3> QED
      BY <3>1, <3>4, <3>6, <3>8
  <2> QED
    BY <2>1, <2>2
<1>2. KernelInv => CpuExact
  BY <1>1 DEF CpuExact
<1> QED
  BY <1>2, KernelInvariant, PTL

\* The range a Vulkan result was chosen from is the window around the device's winner.
LEMMA DeviceWindow ==
  ASSUME KernelInv, Succeeded, OnDevice
  PROVE  \E r \in raw : range = {j \in Chunk : r - Radius <= j /\ j <= r + Radius}
<1>1. PICK r \in raw : range = RefinementRange(P.count, r)
  BY SuccessFacts DEF OnCpu, Wanted
<1>2. P.count \in Nat \ {0} /\ r \in 0..(P.count - 1)
  BY SuccessFacts DEF Chunk
<1> QED
  BY <1>1, <1>2, WindowExtent DEF Chunk

\* A Vulkan result is the CPU's winner of the window around the device's winner, as
\* far as the chunk goes.
THEOREM DeviceResultRefined == Spec => []RefinedExact
<1>1. ASSUME KernelInv, Succeeded, OnDevice
      PROVE  \E f \in cpu, r \in raw, w \in Chunk :
               /\ IsWinner(w, {j \in Chunk : r - Radius <= j /\ j <= r + Radius}, f)
               /\ result = {Ok(w, f[w])}
  <2>1. PICK r \in raw : range = {j \in Chunk : r - Radius <= j /\ j <= r + Radius}
    BY <1>1, DeviceWindow
  <2>2. PICK w \in Chunk : /\ cpu # {}
                           /\ \A f \in cpu : IsWinner(w, range, f) /\ result = {Ok(w, f[w])}
    BY <1>1, SuccessFacts
  <2> QED
    BY <2>1, <2>2
<1>2. KernelInv => RefinedExact
  BY <1>1 DEF RefinedExact
<1> QED
  BY <1>2, KernelInvariant, PTL

\* Both backends return the same result as long as the device's winner is within
\* Radius of the CPU's.
THEOREM BackendsAgree == Spec => []AgreesWithCpu
<1>1. ASSUME KernelInv, Succeeded, OnDevice, NEW f \in cpu, NEW r \in raw, NEW w \in Chunk,
             IsWinner(w, Chunk, f), r - Radius <= w, w <= r + Radius
      PROVE  result = {Ok(w, f[w])}
  <2>1. range = {j \in Chunk : r - Radius <= j /\ j <= r + Radius}
    BY <1>1, DeviceWindow DEF KernelInv
  <2>2. IsWinner(w, range, f)
    BY <1>1, <2>1 DEF IsWinner
  <2>3. PICK v \in Chunk : \A g \in cpu : IsWinner(v, range, g) /\ result = {Ok(v, g[v])}
    BY <1>1, SuccessFacts
  <2>4. range \subseteq Nat /\ \A j \in range : f[j] \in PowerOutcomes
    BY <1>1, SuccessFacts
  <2>5. v = w
    BY <2>2, <2>3, <2>4, WinnerUnique
  <2> QED
    BY <2>3, <2>5
<1>2. KernelInv => AgreesWithCpu
  BY <1>1 DEF AgreesWithCpu
<1> QED
  BY <1>2, KernelInvariant, PTL

\* If the edge diagnostic is silent, no neighbour of the refined winner is better.
THEOREM CutOffReported == Spec => []EdgeReported
<1>1. ASSUME KernelInv, Succeeded, OnDevice, NEW f \in cpu, NEW w \in best, NEW j \in Chunk,
             ~OnRadiusEdge(P.count, Lowest(range), Highest(range), w),
             j \in {w - 1, w + 1}
      PROVE  f[j] <= f[w]
  <2>1. IsWinner(w, range, f)
    BY <1>1, SuccessFacts
  <2>2. PICK lo, hi \in Chunk : lo <= hi /\ range = lo..hi
    BY <1>1, SuccessFacts, WantedInterval DEF KernelInv, TypeOK
  <2>3. /\ lo \in Nat /\ hi \in Nat /\ j \in Nat /\ P.count \in Nat /\ j <= P.count - 1
        /\ w \in lo..hi
    BY <1>1, <2>1, <2>2, SuccessFacts DEF Chunk, IsWinner
  <2>4. (w = lo => lo = 0) /\ (w = hi => hi >= P.count - 1)
    BY <1>1, <2>2, <2>3, IntervalEnds DEF OnRadiusEdge
  <2>5. j \in range
    BY <1>1, <2>2, <2>3, <2>4
  <2> QED
    BY <2>1, <2>5 DEF IsWinner
<1>2. KernelInv => EdgeReported
  BY <1>1 DEF EdgeReported
<1> QED
  BY <1>2, KernelInvariant, PTL
=============================================================================
