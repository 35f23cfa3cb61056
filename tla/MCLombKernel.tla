----------------------------- MODULE MCLombKernel -----------------------------
(***************************************************************************)
(* A small instance of LombKernel for TLC: chunks of one and of five         *)
(* frequencies, at the end of the index type too, and one call for each way  *)
(* a dataset or a grid can be unusable.                                     *)
(***************************************************************************)
EXTENDS LombKernel

D(x, y, t, f) == [coordinates |-> x, values |-> y, times |-> t, flux |-> f]
G(a, s, n, i) == [start |-> a, step |-> s, count |-> n, first |-> i]

Modern == D({<<0, 1>>}, {<<2, -1>>}, {}, {})
Legacy == D({<<0>>}, {}, {<<1, 3>>}, {<<1, 1>>})
Grid   == G(1, 2, 5, 4)

OddDatasets ==
  { D({<<0, 1>>}, {}, {}, {<<1, 1>>}),            \* no pair
    D({<<>>}, {<<>>}, {<<1>>}, {<<1>>}),          \* empty, the legacy pair is not looked at
    D({<<0, 1>>}, {<<1>>}, {}, {}),               \* different lengths
    D({<<0, NonFinite>>}, {<<1, 1>>}, {}, {}),
    D({<<0, 1>>}, {<<0, 0>>}, {}, {}),            \* nothing to normalise by
    D({<<0, 1>>}, {<<3, 3>>}, {}, {}),            \* the sum of squares overflows
    D({[i \in 1..6 |-> i]}, {[i \in 1..6 |-> 1]}, {}, {}) }  \* more than DeviceMax

OddGrids ==
  { G(1, 2, 0, 0), G(0, 1, 2, 0), G(-3, 2, 5, 0), G(1, 0, 2, 0), G(1, -1, 2, 0),
    G(NonFinite, 1, 2, 0), G(1, NonFinite, 1, 0), G(1, 3, 5, 0), G(9, 1, 3, 0), G(1, 1, 6, 0) }

SmallCalls ==
  [backend: {"cpu", "vulkan"}, dataset: {Modern}, payload: {Grid, G(1, 2, 5, 8), G(1, 2, 1, 0)}]
    \cup [backend: {"cpu", "vulkan"}, dataset: {Legacy}, payload: {G(1, 2, 2, 0)}]
    \cup [backend: {"cpu", "vulkan"}, dataset: OddDatasets, payload: {G(2, 1, 2, 0)}]
    \cup [backend: {"vulkan"}, dataset: {Modern}, payload: OddGrids]
    \cup [backend: {"cpu"}, dataset: {Modern}, payload: OddGrids \ {G(1, 1, 6, 0)}]
=============================================================================
