--------------------------- MODULE BoxPeriodSearch ---------------------------
(***************************************************************************)
(* src/box_period_search.rs: each frequency folds the samples into phase    *)
(* bins and slides a circular window over them for each duration; the best  *)
(* window of all frequencies wins.                                          *)
(*                                                                         *)
(* Frequencies share nothing but their inputs, so they are scored one at a  *)
(* time, in any order.  Where a sample falls for a frequency (coordinate *  *)
(* frequency, its floor and the rounding of both) is drawn.  Sums are exact *)
(* unless they overflow, and scores are compared exactly.                   *)
(***************************************************************************)
EXTENDS Series

CONSTANTS
  Calls,    \* [dataset, payload]
  Unit,     \* the 1.0 of phases and duration fractions
  Word,     \* 2^64
  Builds    \* the profiles the program is built with: "debug", "release"

ASSUME BoxAssumption ==
  /\ Unit \in Nat \ {0} /\ Word \in Nat \ {0}
  /\ Builds \subseteq {"debug", "release"}
  /\ \A c \in Calls :
       /\ \A xy, uv \in Pairs(c.dataset) : xy = uv
       /\ \A xy \in Pairs(c.dataset) : xy \in Seq(Float) \X Seq(Float)
       /\ c.payload.durations \in Seq(Int \cup {NonFinite})
       /\ c.payload.start \in Float /\ c.payload.step \in Float
       /\ c.payload.count \in Nat /\ c.payload.bins \in Nat
       /\ {c.payload.first, c.payload.minIn, c.payload.minOut} \subseteq 0..(Word - 1)

VARIABLES
  call,       \* dataset and payload
  build,      \* the profile
  phase,      \* validate, pick, window, slide, reduce, done
  bin,        \* sample -> its bin, for the frequency being scored
  freq,       \* that frequency's index
  duration,   \* the index of the duration being tried
  start,      \* the window's first bin
  count,      \* inside_count
  sum,        \* inside_sum
  best,       \* the best candidate of the frequency, an Option
  scored,     \* frequency index -> the best candidate of a frequency scored, an Option
  result      \* an Option

vars == <<call, build, phase, bin, freq, duration, start, count, sum, best, scored, result>>
window == <<duration, start, count, sum>>

P == call.payload
Bins == 0..(P.bins - 1)
Values == (CHOOSE xy \in Pairs(call.dataset) : TRUE)[2]
N == Cardinality(Samples(call.dataset))

Sum(S) == FoldFunctionOnSet(Plus, 0, Values, S)
Total == Sum(DOMAIN Values)

\* sums and counts
InBin(b) == {s \in DOMAIN bin : bin[s] = b}

\* usize addition: an Option, None for the panic of a debug build.
Add(a, b) ==
  IF a + b < Word THEN {a + b} ELSE IF build = "release" THEN {(a + b) % Word} ELSE {}

Init ==
  /\ call \in Calls /\ build \in Builds
  /\ phase = "validate"
  /\ bin = <<>> /\ freq = 0
  /\ duration = 0 /\ start = 0 /\ count = 0 /\ sum = 0
  /\ best = {} /\ scored = <<>> /\ result = {}

Return(r) == phase' = "done" /\ result' = {r}

Err(e) == [error |-> e]

-----------------------------------------------------------------------------
Durations(d) == \A k \in DOMAIN d : IsPositive(d[k]) /\ d[k] < Unit

\* The early returns of `validate`, in their order.
Validated(d) ==
  IF ~IsSeries(d) THEN "InvalidSeries"
  ELSE IF ~AllFinite(d) THEN "NonFinite"
  ELSE IF P.count = 0 \/ ~GridStarts(P) THEN "InvalidFrequencyGrid"
  ELSE IF ~GridEnds(P) THEN "InvalidFrequencyGrid"
  ELSE IF P.bins < 2 THEN "InvalidPhaseBinCount"
  ELSE IF P.durations = <<>> \/ ~Durations(P.durations) THEN "InvalidDurations"
  ELSE IF P.minIn = 0 \/ P.minOut = 0 THEN "InvalidSampleGates"
  ELSE IF Add(P.minIn, P.minOut) = {} THEN "panic"
  ELSE IF \E gates \in Add(P.minIn, P.minOut) : gates > N THEN "InvalidSampleGates"
  ELSE "none"

Validate ==
  /\ phase = "validate"
  /\ LET error == Validated(call.dataset) IN
     \/ error # "none" /\ Return(Err(error)) /\ UNCHANGED scored
     \/ /\ error = "none"
        /\ phase' = "pick"
        /\ scored' = [f \in 0..(P.count - 1) |-> {}]
        /\ UNCHANGED result
  /\ UNCHANGED <<call, build, bin, freq, window, best>>

\* Mutant: a phase that was rounded up to 1.0 falls behind the last bin.
BinOf_Unclamped(ph) == (ph * P.bins) \div Unit

\* The bin of a phase in 0.0..=1.0; a NaN is 0 as an integer.
BinOf(ph) == IF ph < Unit THEN (ph * P.bins) \div Unit ELSE P.bins - 1

\* score_frequency up to its loops.
Fold(f) ==
  /\ phase = "pick"
  /\ scored[f] = {}
  /\ \E ph \in [DOMAIN Values -> 0..Unit] : bin' = [s \in DOMAIN Values |-> BinOf(ph[s])]
  /\ freq' = f
  /\ duration' = 1
  /\ phase' = "window"
  /\ UNCHANGED <<call, build, start, count, sum, best, scored, result>>

\* (duration * phase_bin_count + 0.5).floor(), clamped
DurationBins(d) ==
  LET rounded == (2 * d * P.bins + Unit) \div (2 * Unit)
  IN  IF rounded < 1 THEN 1 ELSE IF rounded > P.bins - 1 THEN P.bins - 1 ELSE rounded

Width == DurationBins(P.durations[duration])

\* The window at phase bin 0.
Open ==
  /\ phase = "window" /\ duration <= Len(P.durations)
  /\ LET inside == UNION {InBin(b) : b \in 0..(Width - 1)} IN
     /\ count' = Cardinality(inside)
     /\ sum' = Sum(inside)
  /\ start' = 0
  /\ phase' = "slide"
  /\ UNCHANGED <<call, build, bin, freq, duration, best, scored, result>>

\* contrast * sqrt(inside * outside / total) is difference / sqrt(inside * outside *
\* total): `total` is the same for all, so the signed square of the rest orders them.
Candidate(s, n, f, d, b) ==
  LET difference == (Total - s) * n - s * (N - n)
  IN  [square |-> IF difference < 0 THEN -(difference * difference) ELSE difference * difference,
       over |-> n * (N - n), key |-> <<f, d, b>>, inside |-> n]

\* score.is_finite(): neither the sum outside, nor the contrast, nor its product with
\* the square root overflows.
HasScore(s, n) ==
  /\ IsFinite(Minus(Total, s))
  /\ LET difference == (Total - s) * n - s * (N - n)
         over == n * (N - n)
     IN  /\ difference \in (-MaxFinite * over)..(MaxFinite * over)
         /\ difference * difference <= MaxFinite * MaxFinite * over * N

Above(a, b) == a.square * b.over > b.square * a.over

\* Tuples are compared lexicographically.
Before(k, l) ==
  \E i \in DOMAIN k : k[i] < l[i] /\ \A j \in 1..(i - 1) : k[j] = l[j]

\* Mutant: of equal scores the later one is kept.
SelectBetter_Later(current, candidate) ==
  IF Above(current, candidate) THEN current ELSE candidate

\* select_better
SelectBetter(current, candidate) ==
  IF \/ Above(candidate, current)
     \/ ~Above(current, candidate) /\ Before(candidate.key, current.key)
  THEN candidate ELSE current

\* Mutant: only the samples inside are counted.
Gated_InsideOnly(n) == n >= P.minIn

Gated(n) == n >= P.minIn /\ N - n >= P.minOut

\* `best` after one more candidate.
Keep(current, candidate) ==
  IF current = {} THEN {candidate} ELSE {SelectBetter(c, candidate) : c \in current}

\* Mutant: the window stops at the last bin.
Entering_Last == IF start + Width < P.bins THEN start + Width ELSE P.bins - 1

Entering == (start + Width) % P.bins

\* One iteration over phase_bin: the window is judged, then moved by one bin.
Slide ==
  /\ phase = "slide"
  /\ best' = IF Gated(count) /\ HasScore(sum, count)
             THEN Keep(best, Candidate(sum, count, freq, duration, start)) ELSE best
  /\ count' = count + Cardinality(InBin(Entering)) - Cardinality(InBin(start))
  /\ sum' = Plus(sum, Minus(Sum(InBin(Entering)), Sum(InBin(start))))
  /\ start' = start + 1
  /\ IF start' < P.bins THEN UNCHANGED <<phase, duration>>
     ELSE phase' = "window" /\ duration' = duration + 1
  /\ UNCHANGED <<call, build, bin, freq, scored, result>>

\* score_frequency returns.
Scored ==
  /\ phase = "window" /\ duration > Len(P.durations)
  /\ scored' = [scored EXCEPT ![freq] = {best}]
  /\ best' = {}
  /\ bin' = <<>>
  /\ freq' = 0 /\ duration' = 0 /\ start' = 0 /\ count' = 0 /\ sum' = 0
  /\ phase' = IF \A f \in DOMAIN scored : scored'[f] # {} THEN "reduce" ELSE "pick"
  /\ UNCHANGED <<call, build, result>>

\* One step of reduce(select_better), in the order of the frequencies.
Reduce ==
  /\ phase = "reduce" /\ freq < P.count
  /\ best' = IF scored[freq] = {{}} THEN best
             ELSE CHOOSE b \in {Keep(best, c) : c \in UNION scored[freq]} : TRUE
  /\ freq' = freq + 1
  /\ UNCHANGED <<call, build, phase, bin, window, scored, result>>

\* The index is added without a check.
Finish ==
  /\ phase = "reduce" /\ freq = P.count
  /\ \/ best = {} /\ Return(Err("NoValidWindow"))
     \/ \E c \in best :
          \/ Add(P.first, c.key[1]) = {} /\ Return(Err("panic"))
          \/ \E index \in Add(P.first, c.key[1]) :
               Return([error |-> "none", index |-> index, candidate |-> c])
  /\ UNCHANGED <<call, build, bin, freq, window, best, scored>>

Finished == phase = "done" /\ UNCHANGED vars

Next ==
  \/ Validate \/ (\E f \in DOMAIN scored : Fold(f)) \/ Open \/ Slide \/ Scored
  \/ Reduce \/ Finish
  \/ Finished

Spec == Init /\ [][Next]_vars

-----------------------------------------------------------------------------
Succeeded == \E r \in result : r.error = "none"

\* The bins of the window of the given width that begins at b, and the samples in
\* them, counted directly.
Circle(b, width) == {c \in Bins : (c - b) % P.bins < width}
Inside(b, width) == {s \in DOMAIN bin : bin[s] \in Circle(b, width)}

\* The states have their types; every sample of the frequency at hand is in a bin and
\* every window leaves at least one bin outside.
TypeOK ==
  /\ call \in Calls /\ build \in Builds
  /\ phase \in {"validate", "pick", "window", "slide", "reduce", "done"}
  /\ phase \in {"window", "slide"} =>
       /\ bin \in [DOMAIN Values -> Bins]
       /\ freq \in DOMAIN scored
  /\ phase = "slide" => /\ duration \in DOMAIN P.durations /\ start \in Bins
                        /\ Width \in 1..(P.bins - 1)
                        /\ count \in 0..N /\ sum \in Float
  /\ phase = "done" <=> result # {}

\* While the window slides around the circle, across the end of the bins too, count
\* is the number of the samples inside it and sum, unless it overflowed, their sum.
WindowExact ==
  phase = "slide" =>
    /\ count = Cardinality(Inside(start, Width))
    /\ IsFinite(sum) => sum = SumFunctionOnSet(Values, Inside(start, Width))

\* Every window of the frequency at hand, judged by the samples that are inside.
Windows ==
  {LET inside == Inside(b, DurationBins(P.durations[d]))
   IN  Candidate(SumFunctionOnSet(Values, inside), Cardinality(inside), freq, d, b) :
     d \in DOMAIN P.durations, b \in Bins}

\* Those that satisfy the gates.
Admissible == {w \in Windows : w.inside >= P.minIn /\ N - w.inside >= P.minOut}

\* c is the best of C: the greatest score, and of equal ones the first.
IsBest(c, C) ==
  /\ c \in C
  /\ \A o \in C \ {c} : Above(c, o) \/ (~Above(o, c) /\ Before(c.key, o.key))

\* No sum of samples, in whatever order, overflows.
NoOverflow ==
  SumFunctionOnSet([s \in DOMAIN Values |-> IF Values[s] < 0 THEN -Values[s] ELSE Values[s]],
                   DOMAIN Values) <= MaxFinite

\* A frequency's candidate is the best of all its windows that satisfy the gates, and
\* there is one exactly if there is such a window.
FrequencyBest ==
  phase = "window" /\ duration > Len(P.durations) /\ NoOverflow =>
    /\ best = {} <=> Admissible = {}
    /\ \A c \in best : IsBest(c, Admissible)

\* The result is the best candidate of all frequencies, whatever the order in which
\* the threads scored them; it satisfies the gates, and its index is that of the
\* frequency whose candidate it is, unless the sum does not fit.
ResultBest ==
  LET candidates == UNION UNION {scored[f] : f \in DOMAIN scored} IN
  \A r \in result : r.error = "none" =>
    /\ IsBest(r.candidate, candidates)
    /\ r.candidate.inside >= P.minIn /\ N - r.candidate.inside >= P.minOut
    /\ r.candidate.inside > 0 /\ r.candidate.inside < N
    /\ P.first + P.count <= Word =>
         \E f \in DOMAIN scored : r.candidate \in UNION scored[f] /\ r.index = P.first + f
=============================================================================
