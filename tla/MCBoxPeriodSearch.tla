-------------------------- MODULE MCBoxPeriodSearch --------------------------
(***************************************************************************)
(* A small instance of BoxPeriodSearch for TLC: three and four samples,  *)
(* four bins, two durations that differ or are rounded to the same window,   *)
(* two frequencies, and one call for each way the input can be unusable.    *)
(***************************************************************************)
EXTENDS BoxPeriodSearch

D(x, y) == [coordinates |-> {x}, values |-> {y}, times |-> {}, flux |-> {}]

G(a, s, n, i) == [start |-> a, step |-> s, count |-> n, first |-> i]
With(g, b, d, in, out) ==
  [start |-> g.start, step |-> g.step, count |-> g.count, first |-> g.first,
   bins |-> b, durations |-> d, minIn |-> in, minOut |-> out]

Grid == G(1, 1, 2, 3)
C(d, p) == [dataset |-> d, payload |-> p]

Dip == D(<<0, 1, 2, 3>>, <<-2, 1, 1, 0>>)

SmallCalls ==
  { C(Dip, With(Grid, 4, <<3, 6>>, 1, 1)),
    C(D(<<0, 1, 2>>, <<1, -1, 1>>), With(G(1, 1, 2, 15), 3, <<4, 5>>, 1, 1)),
    C(D(<<0, 1, 2>>, <<9, 9, -9>>), With(G(1, 1, 1, 0), 3, <<1, 11>>, 1, 2)),
    C(D(<<0, 1, 2>>, <<-9, 9, 9>>), With(G(1, 1, 1, 0), 3, <<5>>, 1, 1)) }

OddCalls ==
  { C(D(<<>>, <<>>), With(Grid, 4, <<3>>, 1, 1)),
    C(D(<<0, 1>>, <<1>>), With(Grid, 4, <<3>>, 1, 1)),
    C(D(<<0, NonFinite>>, <<1, 1>>), With(Grid, 4, <<3>>, 1, 1)) }
  \cup
  { C(Dip, p) : p \in
    { With(G(1, 1, 0, 0), 4, <<3>>, 1, 1), With(G(0, 1, 2, 0), 4, <<3>>, 1, 1),
      With(G(6, 6, 2, 0), 4, <<3>>, 1, 1), With(Grid, 1, <<3>>, 1, 1),
      With(Grid, 4, <<>>, 1, 1), With(Grid, 4, <<3, 12>>, 1, 1), With(Grid, 4, <<0>>, 1, 1),
      With(Grid, 4, <<NonFinite>>, 1, 1), With(Grid, 4, <<3>>, 0, 1), With(Grid, 4, <<3>>, 1, 0),
      With(Grid, 4, <<3>>, 3, 2), With(Grid, 4, <<3>>, 15, 2) } }

AllCalls == SmallCalls \cup OddCalls
=============================================================================
