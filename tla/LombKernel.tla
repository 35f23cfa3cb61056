------------------------------ MODULE LombKernel ------------------------------
(***************************************************************************)
(* One execution of a Lomb-Scargle chunk: kernel::execute on the CPU, or    *)
(* Context::execute of src/vulkan.rs from the powers the device returned to *)
(* the winner refined on the CPU.                                           *)
(*                                                                         *)
(* `power` is not computed: what it returns for each index of the grid, a   *)
(* pure function of dataset and payload, is drawn when first asked for.     *)
(* The device's powers are unrelated to it: its sin, cos and atan differ.   *)
(***************************************************************************)
EXTENDS Series

CONSTANTS
  Calls,      \* [backend, dataset, payload]
  Powers,     \* the finite powers, in the order of total_cmp
  Radius,     \* VULKAN_CPU_REFINE_RADIUS_BINS
  MaxIndex,   \* usize::MAX
  DeviceMax   \* u32::MAX

ASSUME KernelAssumption ==
  /\ \A c \in Calls : /\ c.backend \in {"cpu", "vulkan"}
                      /\ c.payload.count \in Nat /\ c.payload.first \in 0..MaxIndex
                      /\ c.payload.start \in Float /\ c.payload.step \in Float
  /\ Powers \subseteq Nat
  /\ Radius \in Nat \ {0} /\ MaxIndex \in Nat /\ DeviceMax \in Nat

VARIABLES
  call,      \* backend, dataset and payload
  phase,     \* validate, device, evaluate, scan, done
  cpu,       \* index -> what `power` returns, an Option until drawn
  range,     \* the indices whose powers are wanted
  powers,    \* index -> Option: the vector under collection
  next,      \* the scan's next index
  best,      \* the scan's winner so far, an Option
  raw,       \* the device's winner, an Option
  result     \* an Option

vars == <<call, phase, cpu, range, powers, next, best, raw, result>>

P == call.payload
Chunk == 0..(P.count - 1)
OnDevice == call.backend = "vulkan"
NoPowers == [i \in Chunk |-> {}]

Ok(w, power) ==
  [error |-> "none", index |-> P.first + w, frequency |-> Frequency(P, w), power |-> power]
Err(e) == [error |-> e, index |-> 0, frequency |-> 0, power |-> 0]

Succeeded == \E r \in result : r.error = "none"

Init ==
  /\ call \in Calls
  /\ phase = "validate"
  /\ cpu = {} /\ range = {} /\ raw = {} /\ best = {} /\ result = {}
  /\ powers = NoPowers
  /\ next = 0

Return(r) == phase' = "done" /\ result' = {r}

-----------------------------------------------------------------------------
\* value * value, summed
Normalization(d) ==
  LET add(sum, v) == Plus(sum, Times(v, v))
  IN  FoldLeft(add, 0, (CHOOSE xy \in Pairs(d) : TRUE)[2])

\* The early returns of `validate`, in their order.
Validated(d) ==
  IF ~IsSeries(d) THEN "InvalidSeries"
  ELSE IF ~AllFinite(d) THEN "NonFinite"
  ELSE IF P.count = 0 THEN "InvalidCount"
  ELSE IF ~GridStarts(P) THEN "InvalidFrequency"
  ELSE IF ~IsPositive(Normalization(d)) THEN "InvalidNormalization"
  ELSE IF ~GridEnds(P) THEN "InvalidFrequency"
  ELSE "none"

\* `power`: a finite number or InvalidResult, for a denominator that is not positive.
PowerOutcomes == Powers \cup {NonFinite}

\* main of the shader, which checks nothing.
ShaderOutcomes == Powers \cup {NonFinite}

\* The device's u32 push constants.
FitsDevice(d) == Cardinality(Samples(d)) <= DeviceMax /\ P.count <= DeviceMax

\* Powers of the indices in R are computed next, in parallel.
Evaluating(R) ==
  /\ phase' = "evaluate"
  /\ range' = R
  /\ powers' = NoPowers
  /\ best' = {}
  /\ cpu' \in IF cpu = {} THEN {{f} : f \in [Chunk -> PowerOutcomes]} ELSE {cpu}

Validate ==
  /\ phase = "validate"
  /\ LET error == Validated(call.dataset) IN
     \/ /\ error # "none"
        /\ Return(Err(error))
        /\ UNCHANGED <<cpu, range, powers, best>>
     \/ /\ error = "none" /\ OnDevice /\ ~FitsDevice(call.dataset)
        /\ Return(Err("InvalidCount"))
        /\ UNCHANGED <<cpu, range, powers, best>>
     \/ /\ error = "none" /\ OnDevice /\ FitsDevice(call.dataset)
        /\ phase' = "device"
        /\ UNCHANGED <<cpu, range, powers, best, result>>
     \/ /\ error = "none" /\ ~OnDevice
        /\ Evaluating(Chunk)
        /\ UNCHANGED result
  /\ UNCHANGED <<call, next, raw>>

\* The Vulkan part of execute: powers of the whole chunk, or a failed call.
Device ==
  /\ phase = "device"
  /\ \/ /\ \E f \in [Chunk -> ShaderOutcomes] : powers' = [i \in Chunk |-> {f[i]}]
        /\ range' = Chunk
        /\ phase' = "scan"
        /\ UNCHANGED result
     \/ Return(Err("Execution")) /\ UNCHANGED <<powers, range>>
  /\ UNCHANGED <<call, cpu, next, best, raw>>

\* Mutant: powers are collected in the order in which they are finished.
Collect_AsFinished(i, power) ==
  LET free == {j \in range : powers[j] = {}}
  IN  powers' = [powers EXCEPT ![CHOOSE j \in free : \A k \in free : j <= k] = {power}]

\* collect() keeps the order of the indices.
Collect(i, power) == powers' = [powers EXCEPT ![i] = {power}]

Lowest(S)  == CHOOSE i \in S : \A j \in S : i <= j
Highest(S) == CHOOSE i \in S : \A j \in S : j <= i

\* One index of into_par_iter().map(..): any thread, in any order.  The first error
\* ends the collection.  kernel::execute checks the frequency, refine_winner does not.
Evaluate(i) ==
  /\ phase = "evaluate"
  /\ i \in range /\ powers[i] = {}
  /\ \E f \in cpu :
       \/ /\ ~OnDevice /\ ~IsPositive(Frequency(P, i))
          /\ Return(Err("InvalidFrequency"))
          /\ UNCHANGED <<powers, next>>
       \/ /\ f[i] = NonFinite
          /\ Return(Err("InvalidResult"))
          /\ UNCHANGED <<powers, next>>
       \/ /\ f[i] # NonFinite
          /\ OnDevice \/ IsPositive(Frequency(P, i))
          /\ Collect(i, f[i])
          /\ phase' = IF \A j \in range : powers'[j] # {} THEN "scan" ELSE phase
          /\ next' = Lowest(range)
          /\ UNCHANGED result
  /\ UNCHANGED <<call, cpu, range, best, raw>>

\* Mutant: the last of equal powers wins.
Better_OrEqual(i, j) == \E a \in powers[i], b \in powers[j] : a >= b

\* candidate.total_cmp(current).is_gt()
Better(i, j) == \E a \in powers[i], b \in powers[j] : a > b

\* One step of the try_fold of select_winner and select_indexed_winner.
Scan ==
  /\ phase = "scan"
  /\ next \in range
  /\ \/ /\ powers[next] = {NonFinite}
        /\ Return(Err("InvalidResult"))
        /\ UNCHANGED <<next, best>>
     \/ /\ powers[next] # {NonFinite}
        /\ best' = IF \A j \in best : Better(next, j) THEN {next} ELSE best
        /\ next' = next + 1
        /\ UNCHANGED <<phase, result>>
  /\ UNCHANGED <<call, cpu, range, powers, raw>>

\* Mutant: the window is half open.
RefinementStart_HalfOpen(w) == IF w < Radius THEN 0 ELSE w - Radius + 1

\* saturating_sub
RefinementStart(w) == IF w < Radius THEN 0 ELSE w - Radius

\* Mutant: the end of the chunk is taken for an inclusive bound.
RefinementEnd_Count(count, w) == IF w + Radius < count THEN w + Radius ELSE count

\* min(frequency_count - 1)
RefinementEnd(count, w) == IF w + Radius < count - 1 THEN w + Radius ELSE count - 1

\* refinement_range
RefinementRange(count, w) == RefinementStart(w)..RefinementEnd(count, w)

\* The end of select_winner and select_indexed_winner.  The device's winner is only
\* where the refinement begins; its index has passed checked_add all the same.
Select ==
  /\ phase = "scan"
  /\ next \notin range
  /\ \E w \in best :
       \/ /\ P.first + w > MaxIndex
          /\ Return(Err("InvalidResult"))
          /\ UNCHANGED <<cpu, range, powers, best, raw>>
       \/ /\ P.first + w <= MaxIndex
          /\ OnDevice /\ raw = {}
          /\ raw' = {w}
          /\ Evaluating(RefinementRange(P.count, w))
          /\ UNCHANGED result
       \/ /\ P.first + w <= MaxIndex
          /\ ~OnDevice \/ raw # {}
          /\ \E power \in powers[w] : Return(Ok(w, power))
          /\ UNCHANGED <<cpu, range, powers, best, raw>>
  /\ UNCHANGED <<call, next>>

Finished == phase = "done" /\ UNCHANGED vars

Next ==
  \/ Validate \/ Device \/ (\E i \in range : Evaluate(i)) \/ Scan \/ Select
  \/ Finished

Spec == Init /\ [][Next]_vars

-----------------------------------------------------------------------------
\* The states have their types; only indices of the chunk are evaluated, scanned
\* or chosen, and only a vector that was collected completely is scanned.
TypeOK ==
  /\ call \in Calls
  /\ phase \in {"validate", "device", "evaluate", "scan", "done"}
  /\ cpu \in SUBSET [Chunk -> PowerOutcomes]
  /\ range \subseteq Chunk /\ next \in Nat /\ best \subseteq range /\ raw \subseteq Chunk
  /\ powers \in [Chunk -> {{}} \cup {{v} : v \in PowerOutcomes \cup ShaderOutcomes}]
  /\ phase = "scan" => \A i \in range : powers[i] # {}
  /\ Succeeded => \A r \in result : r.index <= MaxIndex
  /\ phase = "done" <=> result # {}

\* The lowest index among those with the greatest power in S, all of them finite.
IsWinner(w, S, f) ==
  /\ w \in S
  /\ \A j \in S : f[j] # NonFinite
  /\ \A j \in S : f[j] <= f[w] /\ (f[j] = f[w] => w <= j)

\* `execute` on the CPU succeeds exactly if the series and every frequency of the
\* grid are usable, all powers are finite and the index has room, and then it
\* returns the lowest index of the greatest power, in whatever order the threads
\* finished (test parallel_collection_preserves_order_and_deterministic_ties).
CpuExact ==
  phase = "done" /\ ~OnDevice =>
    /\ Succeeded <=>
         /\ Validated(call.dataset) = "none"
         /\ \A i \in Chunk : IsPositive(Frequency(P, i))
         /\ \E f \in cpu, w \in Chunk : IsWinner(w, Chunk, f) /\ P.first + w <= MaxIndex
    /\ Succeeded => \E f \in cpu, w \in Chunk : IsWinner(w, Chunk, f) /\ result = {Ok(w, f[w])}

\* A Vulkan result carries the power the CPU computes, and is the lowest index of
\* the greatest such power within Radius of the device's winner, as far as the
\* chunk goes in both directions.
RefinedExact ==
  Succeeded /\ OnDevice =>
    \E f \in cpu, r \in raw, w \in Chunk :
      /\ IsWinner(w, {j \in Chunk : r - Radius <= j /\ j <= r + Radius}, f)
      /\ result = {Ok(w, f[w])}

\* Hence a unit's result does not depend on the backend as long as the device's
\* winner is within Radius of the CPU's (tests cpu_refinement_recovers_...).
AgreesWithCpu ==
  Succeeded /\ OnDevice =>
    \A f \in cpu, r \in raw, w \in Chunk :
      /\ IsWinner(w, Chunk, f)
      /\ r - Radius <= w /\ w <= r + Radius
      => result = {Ok(w, f[w])}

\* Mutant: the upper edge is forgotten.
OnRadiusEdge_Start(count, first, last, w) == w = first /\ first > 0

\* winner_on_radius_edge of refinement_edge_diagnostics
OnRadiusEdge(count, first, last, w) ==
  \/ w = first /\ first > 0
  \/ w = last /\ last < count - 1

\* The diagnostic flags every winner the window may have cut off: if it is silent,
\* no neighbour of the refined winner has a greater power.
EdgeReported ==
  Succeeded /\ OnDevice =>
    \A f \in cpu, w \in best, j \in Chunk :
      /\ ~OnRadiusEdge(P.count, Lowest(range), Highest(range), w)
      /\ j \in {w - 1, w + 1}
      /\ f[j] # NonFinite
      => f[j] <= f[w]

\* Checking both ends of the grid is enough: no frequency that refine_winner and the
\* shader use unchecked is ever unusable.
GridUsable ==
  phase \in {"device", "evaluate", "scan"} => \A i \in Chunk : IsPositive(Frequency(P, i))
=============================================================================
