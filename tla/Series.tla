-------------------------------- MODULE Series --------------------------------
(***************************************************************************)
(* What the Lomb-Scargle kernel and the box period search have in common:   *)
(* Dataset::series of src/protocol.rs, Float32 as far as finiteness and     *)
(* sign go, and the frequency grid of a payload.                            *)
(*                                                                         *)
(* A Float32 is an integer of at most MaxFinite or NonFinite, which stands  *)
(* for NaN and the infinities.  Rounding is left out: the formulas that     *)
(* depend on it are not computed, their outcomes are drawn.                 *)
(***************************************************************************)
EXTENDS Integers, Sequences, FiniteSets, SequencesExt

CONSTANTS
  NonFinite,   \* NaN and the infinities
  MaxFinite    \* f32::MAX, scaled

ASSUME FloatAssumption == NonFinite \notin Int /\ MaxFinite \in Nat

Float == (-MaxFinite)..MaxFinite \cup {NonFinite}

Overflowing(v) == IF -MaxFinite <= v /\ v <= MaxFinite THEN v ELSE NonFinite

IsFinite(v) == v # NonFinite
IsPositive(v) == IsFinite(v) /\ v > 0

Plus(a, b)  == IF IsFinite(a) /\ IsFinite(b) THEN Overflowing(a + b) ELSE NonFinite
Minus(a, b) == IF IsFinite(a) /\ IsFinite(b) THEN Overflowing(a - b) ELSE NonFinite
Times(a, b) == IF IsFinite(a) /\ IsFinite(b) THEN Overflowing(a * b) ELSE NonFinite

\* Dataset::series.  Each of the four arrays is an Option, a set with at most one
\* element, and so is the pair of coordinates and values.
Pairs(d) ==
  IF d.coordinates \X d.values # {} THEN d.coordinates \X d.values
  ELSE d.times \X d.flux

IsSeries(d) == \E xy \in Pairs(d) : xy[1] # <<>> /\ Len(xy[1]) = Len(xy[2])

AllFinite(d) ==
  \A xy \in Pairs(d) : \A v \in Range(xy[1]) \cup Range(xy[2]) : IsFinite(v)

Samples(d) == UNION {DOMAIN xy[1] : xy \in Pairs(d)}

\* start_frequency + index as f32 * frequency_step
Frequency(p, i) == Plus(p.start, Times(i, p.step))

GridStarts(p) == IsPositive(p.start) /\ IsPositive(p.step)

\* Mutant: the last frequency is left to the backend.
GridEnds_Unchecked(p) == TRUE

\* "Validate the last frequency before a backend starts": the others lie before it.
GridEnds(p) == IsPositive(Frequency(p, p.count - 1))
=============================================================================
