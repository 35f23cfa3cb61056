------------------------- MODULE BoxPeriodSearchProofs -------------------------
(***************************************************************************)
(* Proofs about BoxPeriodSearch, for every call, every number of samples,   *)
(* bins, durations and frequencies, and every placement of the samples:     *)
(* that the sliding count and sum are those of the window (WindowExact),    *)
(* that a frequency's candidate is the best of its windows (FrequencyBest), *)
(* and that the result is the best of the frequencies (ResultBest).         *)
(*                                                                         *)
(* Sums are folds over sets.  That a fold is the recursion it is written as *)
(* is shown first, by the least-number principle.                           *)
(***************************************************************************)
EXTENDS BoxPeriodSearch, FiniteSetTheorems, WellFoundedInduction, TLAPS

\* What a validated call is known to be.
Checked ==
  /\ IsSeries(call.dataset) /\ AllFinite(call.dataset)
  /\ P.count >= 1 /\ P.bins >= 2 /\ Durations(P.durations)
  /\ P.minIn >= 1 /\ P.minOut >= 1

\* A candidate as it is made of a window that satisfies the gates.
Candidates == [square : Int, over : Nat \ {0}, key : Nat \X Nat \X Nat, inside : Nat]

Fair(c) == c \in Candidates /\ c.inside >= P.minIn /\ N - c.inside >= P.minOut

\* o is the best of S as an Option.
Choice(o, S) == IF S = {} THEN o = {} ELSE \E c \in S : IsBest(c, S) /\ o = {c}

\* The windows of the frequency at hand that the loops are through with.
Passed(c) ==
  \/ c.key[2] < duration
  \/ phase = "slide" /\ c.key[2] = duration /\ c.key[3] < start

\* The candidates of the frequencies below n.
Below(n) == UNION UNION {scored[f] : f \in 0..(n - 1)}

\* Once validated, the calls's data stays good and every frequency has its place.
CallInv ==
  /\ TypeOK
  /\ phase \in {"pick", "window", "slide", "reduce"} =>
       Checked /\ DOMAIN scored = 0..(P.count - 1)
  /\ phase \in {"window", "slide"} => duration \in 1..(Len(P.durations) + 1)

\* What was scored are Options of fair candidates, each of its own frequency.
ScoredInv ==
  /\ scored = [f \in DOMAIN scored |-> scored[f]]
  /\ \A f \in DOMAIN scored :
       /\ f \in 0..(P.count - 1)
       /\ \A o, q \in scored[f] : o = q
       /\ \A o \in scored[f] : \A c, e \in o : c = e
       /\ \A o \in scored[f] : \A c \in o : Fair(c) /\ c.key[1] = f
  /\ phase = "reduce" => \A f \in DOMAIN scored : scored[f] # {}

\* The window's count and sum are its own.
SlideInv == WindowExact /\ (phase = "slide" /\ NoOverflow => IsFinite(sum))

\* The best candidate so far is the best of the windows the loops are through with,
\* and in the end of the frequencies the reduction is through with.
BestInv ==
  /\ phase \in {"validate", "pick"} => best = {}
  /\ phase \in {"window", "slide"} =>
       /\ \A c, e \in best : c = e
       /\ \A c \in best : Fair(c) /\ c.key[1] = freq /\ Passed(c)
       /\ NoOverflow => Choice(best, {w \in Admissible : Passed(w)})
  /\ phase = "reduce" => freq \in 0..P.count /\ Choice(best, Below(freq))

\* The inductive invariant.
BoxInv == CallInv /\ ScoredInv /\ SlideInv /\ BestInv /\ ResultBest

-----------------------------------------------------------------------------
(* Folds over sets. *)

Pick(s) == CHOOSE x \in s : TRUE

\* Of a collection of subsets of a finite set, one has none of its proper subsets in it.
LEMMA SmallestCase ==
  ASSUME NEW X, IsFiniteSet(X), NEW Bad \in SUBSET SUBSET X, Bad # {}
  PROVE  \E T \in Bad : \A U \in SUBSET T : U # T => U \notin Bad
<1> DEFINE R == StrictSubsetOrdering(X)
           D == FiniteSubsetsOf(X)
<1>1. IsWellFoundedOn(R, D)
  BY FS_StrictSubsetOrderingWellFounded
<1>2. Bad \subseteq D
  BY FS_Subset DEF FiniteSubsetsOf
<1>3. PICK T \in Bad : \A U \in Bad : <<U, T>> \notin R
  <2> HIDE DEF R, D
  <2> QED
    BY <1>1, <1>2, WFMin
<1>4. \A U \in Bad : ~(U \subseteq T /\ U # T)
  BY <1>3 DEF StrictSubsetOrdering
<1> QED
  BY <1>4

\* Two functions that are computed alike from their values for a smaller set agree.
LEMMA SameRecursion ==
  ASSUME NEW X, IsFiniteSet(X), NEW g, NEW h, g[{}] = h[{}],
         \A s \in SUBSET X : s # {} /\ g[s \ {Pick(s)}] = h[s \ {Pick(s)}] => g[s] = h[s]
  PROVE  \A s \in SUBSET X : g[s] = h[s]
<1> DEFINE Bad == {s \in SUBSET X : g[s] # h[s]}
<1> SUFFICES ASSUME Bad # {} PROVE FALSE
  OBVIOUS
<1>1. PICK T \in Bad : \A U \in SUBSET T : U # T => U \notin Bad
  <2>1. Bad \in SUBSET SUBSET X
    OBVIOUS
  <2> HIDE DEF Bad
  <2> QED
    BY <2>1, SmallestCase
<1>2. T # {}
  OBVIOUS
<1>3. Pick(T) \in T
  BY <1>2 DEF Pick
<1>4. g[T \ {Pick(T)}] = h[T \ {Pick(T)}]
  BY <1>1, <1>3
<1> QED
  BY <1>2, <1>4

\* A sum is that of one element, whichever CHOOSE takes, and of the others.
LEMMA ExactRecursion ==
  ASSUME NEW f, NEW X, IsFiniteSet(X)
  PROVE  \A S \in SUBSET X :
           SumFunctionOnSet(f, S) =
             IF S = {} THEN 0 ELSE f[Pick(S)] + SumFunctionOnSet(f, S \ {Pick(S)})
<1> DEFINE E(S) == SumFunctionOnSet(f, S)
           Step(S, g) == IF S = {} THEN 0 ELSE f[Pick(S)] + g[S \ {Pick(S)}]
           Solves(S, g) == g = [s \in SUBSET S |-> Step(s, g)]
           Defined(S) == \E g : Solves(S, g) /\ \A T \in SUBSET S : g[T] = E(T)
           Bad == {S \in SUBSET X : ~Defined(S)}
<1>1. \A S : E(S) = (CHOOSE g : Solves(S, g))[S]
  BY DEF SumFunctionOnSet, FoldFunctionOnSet, MapThenFoldSet, Pick
<1>2. \A S : S # {} => Pick(S) \in S
  BY DEF Pick
<1> HIDE DEF E
<1>3. ASSUME NEW S \in SUBSET X, Defined(S)
      PROVE  E(S) = IF S = {} THEN 0 ELSE f[Pick(S)] + E(S \ {Pick(S)})
  <2>1. PICK g : Solves(S, g) /\ \A T \in SUBSET S : g[T] = E(T)
    BY <1>3
  <2>2. g[S] = Step(S, g)
    BY <2>1
  <2> QED
    BY <2>1, <2>2
<1>4. SUFFICES ASSUME Bad # {} PROVE FALSE
  <2>1. \A S \in SUBSET X : Defined(S)
    BY <1>4
  <2> HIDE DEF Defined
  <2> QED
    BY <1>3, <2>1 DEF E
<1>5. PICK S \in Bad : \A U \in SUBSET S : U # S => U \notin Bad
  <2>1. Bad \in SUBSET SUBSET X
    OBVIOUS
  <2> HIDE DEF Bad
  <2> QED
    BY <1>4, <2>1, SmallestCase
<1>6. S \in SUBSET X /\ ~Defined(S) /\ \A U \in SUBSET S : U # S => Defined(U)
  <2> HIDE DEF Defined
  <2> QED
    BY <1>5
<1> DEFINE g == [s \in SUBSET S |-> IF s = {} THEN 0 ELSE f[Pick(s)] + E(s \ {Pick(s)})]
<1>7. \A U \in SUBSET S : U # S => E(U) = g[U]
  <2> HIDE DEF Defined
  <2> QED
    BY <1>3, <1>6
<1>8. \A s \in SUBSET S : s # {} => s \ {Pick(s)} \in SUBSET S /\ s \ {Pick(s)} # S
  BY <1>2
<1>9. \A s \in SUBSET S : g[s] = Step(s, g)
  <2> SUFFICES ASSUME NEW s \in SUBSET S PROVE g[s] = Step(s, g)
    OBVIOUS
  <2>1. CASE s = {}
    BY <2>1
  <2>2. CASE s # {}
    <3>1. E(s \ {Pick(s)}) = g[s \ {Pick(s)}]
      BY <1>7, <1>8, <2>2
    <3> QED
      BY <2>2, <3>1
  <2> QED
    BY <2>1, <2>2
<1>10. Solves(S, g)
  BY <1>9
<1> DEFINE h == CHOOSE k : Solves(S, k)
<1>11. Solves(S, h) /\ E(S) = h[S]
  <2> HIDE DEF g, Solves
  <2> QED
    BY <1>1, <1>10
<1> HIDE DEF g, h
<1>12. \A s \in SUBSET S : g[s] = Step(s, g) /\ h[s] = Step(s, h)
  BY <1>9, <1>11
<1>13. \A s \in SUBSET S : g[s] = h[s]
  <2>1. g[{}] = h[{}]
    BY <1>12
  <2>2. \A s \in SUBSET S : s # {} /\ g[s \ {Pick(s)}] = h[s \ {Pick(s)}] => g[s] = h[s]
    BY <1>12
  <2>3. IsFiniteSet(S)
    BY <1>6, FS_Subset
  <2> QED
    BY <2>1, <2>2, <2>3, SameRecursion
<1>14. \A T \in SUBSET S : g[T] = E(T)
  BY <1>7, <1>11, <1>13
<1> QED
  BY <1>6, <1>10, <1>14

\* The same of a sum of Float32.
LEMMA SumRecursion ==
  ASSUME NEW X, IsFiniteSet(X)
  PROVE  \A S \in SUBSET X :
           Sum(S) = IF S = {} THEN 0 ELSE Plus(Values[Pick(S)], Sum(S \ {Pick(S)}))
<1> DEFINE E(S) == Sum(S)
           Step(S, g) == IF S = {} THEN 0 ELSE Plus(Values[Pick(S)], g[S \ {Pick(S)}])
           Solves(S, g) == g = [s \in SUBSET S |-> Step(s, g)]
           Defined(S) == \E g : Solves(S, g) /\ \A T \in SUBSET S : g[T] = E(T)
           Bad == {S \in SUBSET X : ~Defined(S)}
<1>1. \A S : E(S) = (CHOOSE g : Solves(S, g))[S]
  BY DEF Sum, FoldFunctionOnSet, MapThenFoldSet, Pick
<1>2. \A S : S # {} => Pick(S) \in S
  BY DEF Pick
<1> HIDE DEF E
<1>3. ASSUME NEW S \in SUBSET X, Defined(S)
      PROVE  E(S) = IF S = {} THEN 0 ELSE Plus(Values[Pick(S)], E(S \ {Pick(S)}))
  <2>1. PICK g : Solves(S, g) /\ \A T \in SUBSET S : g[T] = E(T)
    BY <1>3
  <2>2. g[S] = Step(S, g)
    BY <2>1
  <2> QED
    BY <2>1, <2>2
<1>4. SUFFICES ASSUME Bad # {} PROVE FALSE
  <2>1. \A S \in SUBSET X : Defined(S)
    BY <1>4
  <2> HIDE DEF Defined
  <2> QED
    BY <1>3, <2>1 DEF E
<1>5. PICK S \in Bad : \A U \in SUBSET S : U # S => U \notin Bad
  <2>1. Bad \in SUBSET SUBSET X
    OBVIOUS
  <2> HIDE DEF Bad
  <2> QED
    BY <1>4, <2>1, SmallestCase
<1>6. S \in SUBSET X /\ ~Defined(S) /\ \A U \in SUBSET S : U # S => Defined(U)
  <2> HIDE DEF Defined
  <2> QED
    BY <1>5
<1> DEFINE g == [s \in SUBSET S |-> IF s = {} THEN 0 ELSE Plus(Values[Pick(s)], E(s \ {Pick(s)}))]
<1>7. \A U \in SUBSET S : U # S => E(U) = g[U]
  <2> HIDE DEF Defined
  <2> QED
    BY <1>3, <1>6
<1>8. \A s \in SUBSET S : s # {} => s \ {Pick(s)} \in SUBSET S /\ s \ {Pick(s)} # S
  BY <1>2
<1>9. \A s \in SUBSET S : g[s] = Step(s, g)
  <2> SUFFICES ASSUME NEW s \in SUBSET S PROVE g[s] = Step(s, g)
    OBVIOUS
  <2>1. CASE s = {}
    BY <2>1
  <2>2. CASE s # {}
    <3>1. E(s \ {Pick(s)}) = g[s \ {Pick(s)}]
      BY <1>7, <1>8, <2>2
    <3> QED
      BY <2>2, <3>1
  <2> QED
    BY <2>1, <2>2
<1>10. Solves(S, g)
  BY <1>9
<1> DEFINE h == CHOOSE k : Solves(S, k)
<1>11. Solves(S, h) /\ E(S) = h[S]
  <2> HIDE DEF g, Solves
  <2> QED
    BY <1>1, <1>10
<1> HIDE DEF g, h
<1>12. \A s \in SUBSET S : g[s] = Step(s, g) /\ h[s] = Step(s, h)
  BY <1>9, <1>11
<1>13. \A s \in SUBSET S : g[s] = h[s]
  <2>1. g[{}] = h[{}]
    BY <1>12
  <2>2. \A s \in SUBSET S : s # {} /\ g[s \ {Pick(s)}] = h[s \ {Pick(s)}] => g[s] = h[s]
    BY <1>12
  <2>3. IsFiniteSet(S)
    BY <1>6, FS_Subset
  <2> QED
    BY <2>1, <2>2, <2>3, SameRecursion
<1>14. \A T \in SUBSET S : g[T] = E(T)
  BY <1>7, <1>11, <1>13
<1> QED
  BY <1>6, <1>10, <1>14

\* Sums of integers are integers.
LEMMA ExactType ==
  ASSUME NEW X, IsFiniteSet(X), NEW f \in [X -> Int]
  PROVE  \A S \in SUBSET X : SumFunctionOnSet(f, S) \in Int
<1> DEFINE E(S) == SumFunctionOnSet(f, S)
           Bad == {S \in SUBSET X : E(S) \notin Int}
<1> SUFFICES ASSUME Bad # {} PROVE FALSE
  OBVIOUS
<1>1. \A S \in SUBSET X : E(S) = IF S = {} THEN 0 ELSE f[Pick(S)] + E(S \ {Pick(S)})
  BY ExactRecursion
<1>2. \A S : S # {} => Pick(S) \in S
  BY DEF Pick
<1> HIDE DEF E
<1>3. PICK S \in Bad : \A U \in SUBSET S : U # S => U \notin Bad
  <2>1. Bad \in SUBSET SUBSET X
    OBVIOUS
  <2> HIDE DEF Bad
  <2> QED
    BY <2>1, SmallestCase
<1>4. S # {} /\ Pick(S) \in X
  BY <1>1, <1>2, <1>3
<1>5. E(S \ {Pick(S)}) \in Int
  BY <1>2, <1>3, <1>4
<1>6. E(S) = f[Pick(S)] + E(S \ {Pick(S)})
  BY <1>1, <1>4
<1> QED
  BY <1>3, <1>4, <1>5, <1>6

\* It does not matter which element is added last.
LEMMA ExactAdd ==
  ASSUME NEW X, IsFiniteSet(X), NEW f \in [X -> Int]
  PROVE  \A S \in SUBSET X : \A x \in X \ S :
           SumFunctionOnSet(f, S \cup {x}) = f[x] + SumFunctionOnSet(f, S)
<1> DEFINE E(S) == SumFunctionOnSet(f, S)
           Fits(S) == \A x \in X \ S : E(S \cup {x}) = f[x] + E(S)
           Bad == {S \in SUBSET X : ~Fits(S)}
<1> SUFFICES ASSUME Bad # {} PROVE FALSE
  OBVIOUS
<1>1. \A S \in SUBSET X : E(S) = IF S = {} THEN 0 ELSE f[Pick(S)] + E(S \ {Pick(S)})
  BY ExactRecursion
<1>2. \A S \in SUBSET X : E(S) \in Int
  BY ExactType
<1>3. \A S : S # {} => Pick(S) \in S
  BY DEF Pick
<1> HIDE DEF E
<1>4. PICK S \in Bad : \A U \in SUBSET S : U # S => U \notin Bad
  <2>1. Bad \in SUBSET SUBSET X
    OBVIOUS
  <2> HIDE DEF Bad
  <2> QED
    BY <2>1, SmallestCase
<1>5. S \in SUBSET X /\ \A U \in SUBSET S : U # S => Fits(U)
  BY <1>4
<1>6. PICK x \in X \ S : E(S \cup {x}) # f[x] + E(S)
  BY <1>4
<1> DEFINE c == Pick(S \cup {x})
<1>7. c \in S \cup {x} /\ E(S \cup {x}) = f[c] + E((S \cup {x}) \ {c})
  BY <1>1, <1>3, <1>5
<1>8. c # x /\ c \in S
  <2>1. c = x => (S \cup {x}) \ {c} = S
    OBVIOUS
  <2> QED
    BY <1>6, <1>7, <2>1
<1> DEFINE U == S \ {c}
<1>9. U \in SUBSET S /\ U # S /\ x \in X \ U /\ c \in X \ U /\ U \cup {c} = S
      /\ (S \cup {x}) \ {c} = U \cup {x}
  BY <1>5, <1>8
<1> HIDE DEF c, U, Fits
<1>10. Fits(U)
  BY <1>5, <1>9
<1>11. E(U \cup {x}) = f[x] + E(U) /\ E(S) = f[c] + E(U)
  BY <1>9, <1>10 DEF Fits
<1>12. f[x] \in Int /\ f[c] \in Int /\ E(U) \in Int
  BY <1>2, <1>5, <1>9
<1>13. E((S \cup {x}) \ {c}) = f[x] + E(U)
  BY <1>9, <1>11
<1>14. E(S \cup {x}) = f[c] + (f[x] + E(U)) /\ f[x] + E(S) = f[x] + (f[c] + E(U))
  BY <1>7, <1>11, <1>13
<1>15. E(S \cup {x}) = f[x] + E(S)
  BY <1>12, <1>14
<1> QED
  BY <1>6, <1>15

\* The sum of a union of two disjoint sets is the sum of their sums.
LEMMA ExactUnion ==
  ASSUME NEW X, IsFiniteSet(X), NEW f \in [X -> Int], NEW S \in SUBSET X
  PROVE  \A T \in SUBSET (X \ S) :
           SumFunctionOnSet(f, S \cup T) = SumFunctionOnSet(f, S) + SumFunctionOnSet(f, T)
<1> DEFINE E(T) == SumFunctionOnSet(f, T)
           Bad == {T \in SUBSET (X \ S) : E(S \cup T) # E(S) + E(T)}
<1> SUFFICES ASSUME Bad # {} PROVE FALSE
  OBVIOUS
<1>1. \A T \in SUBSET X : E(T) \in Int
  BY ExactType
<1>2. E({}) = 0
  BY ExactRecursion
<1>3. \A T \in SUBSET X : \A x \in X \ T : E(T \cup {x}) = f[x] + E(T)
  BY ExactAdd
<1> HIDE DEF E
<1>4. PICK T \in Bad : \A U \in SUBSET T : U # T => U \notin Bad
  <2>1. Bad \in SUBSET SUBSET X
    OBVIOUS
  <2> HIDE DEF Bad
  <2> QED
    BY <2>1, SmallestCase
<1>5. T # {}
  <2>1. S \cup {} = S /\ E(S) \in Int
    BY <1>1
  <2>2. E(S \cup {}) = E(S) + E({})
    BY <1>2, <2>1
  <2> QED
    BY <1>4, <2>2
<1>6. PICK x : x \in T
  BY <1>5
<1> DEFINE U == T \ {x}
<1>7. /\ U \in SUBSET (X \ S) /\ U \in SUBSET X /\ S \cup U \in SUBSET X
      /\ x \in X \ U /\ x \in X \ (S \cup U)
      /\ T = U \cup {x} /\ S \cup T = (S \cup U) \cup {x} /\ U \in SUBSET T /\ U # T
  BY <1>4, <1>6
<1>8. E(S \cup U) = E(S) + E(U)
  BY <1>4, <1>7
<1> HIDE DEF U
<1>9. E(T) = f[x] + E(U) /\ E(S \cup T) = f[x] + E(S \cup U)
  BY <1>3, <1>7
<1>10. f[x] \in Int /\ E(U) \in Int /\ E(S) \in Int
  BY <1>1, <1>7
<1> QED
  BY <1>4, <1>8, <1>9, <1>10

Magnitudes(f) == [s \in DOMAIN f |-> IF f[s] < 0 THEN -f[s] ELSE f[s]]

\* A sum lies between the sum of the magnitudes and its negative.
LEMMA ExactMagnitude ==
  ASSUME NEW X, IsFiniteSet(X), NEW f \in [X -> Int]
  PROVE  /\ Magnitudes(f) \in [X -> Nat]
         /\ \A S \in SUBSET X :
              /\ SumFunctionOnSet(Magnitudes(f), S) \in Nat
              /\ -SumFunctionOnSet(Magnitudes(f), S) <= SumFunctionOnSet(f, S)
              /\ SumFunctionOnSet(f, S) <= SumFunctionOnSet(Magnitudes(f), S)
<1> DEFINE m == Magnitudes(f)
           E(S) == SumFunctionOnSet(f, S)
           M(S) == SumFunctionOnSet(m, S)
           Bad == {S \in SUBSET X : ~(M(S) \in Nat /\ -M(S) <= E(S) /\ E(S) <= M(S))}
<1>1. m \in [X -> Nat] /\ \A x \in X : -m[x] <= f[x] /\ f[x] <= m[x]
  BY DEF Magnitudes
<1>2. SUFFICES ASSUME Bad # {} PROVE FALSE
  <2>1. \A S \in SUBSET X : M(S) \in Nat /\ -M(S) <= E(S) /\ E(S) <= M(S)
    BY <1>2
  <2> QED
    BY <1>1, <2>1
<1> HIDE DEF m
<1>3. \A S \in SUBSET X : E(S) = IF S = {} THEN 0 ELSE f[Pick(S)] + E(S \ {Pick(S)})
  BY ExactRecursion
<1>4. \A S \in SUBSET X : M(S) = IF S = {} THEN 0 ELSE m[Pick(S)] + M(S \ {Pick(S)})
  BY ExactRecursion
<1>5. \A S : S # {} => Pick(S) \in S
  BY DEF Pick
<1>6. \A S \in SUBSET X : E(S) \in Int
  BY ExactType
<1> HIDE DEF E, M
<1>7. PICK S \in Bad : \A U \in SUBSET S : U # S => U \notin Bad
  <2>1. Bad \in SUBSET SUBSET X
    OBVIOUS
  <2> HIDE DEF Bad
  <2> QED
    BY <1>2, <2>1, SmallestCase
<1>8. S # {}
  <2>1. E({}) = 0 /\ M({}) = 0
    BY <1>3, <1>4
  <2>2. {} \notin Bad
    BY <2>1
  <2> QED
    BY <1>7, <2>2
<1> DEFINE c == Pick(S)
           U == S \ {c}
<1>9. c \in X /\ U \in SUBSET S /\ U # S /\ U \in SUBSET X
  BY <1>5, <1>7, <1>8
<1>10. M(U) \in Nat /\ -M(U) <= E(U) /\ E(U) <= M(U) /\ E(U) \in Int
  BY <1>6, <1>7, <1>9
<1>11. E(S) = f[c] + E(U) /\ M(S) = m[c] + M(U)
  BY <1>3, <1>4, <1>7, <1>8
<1>12. f[c] \in Int /\ m[c] \in Nat /\ -m[c] <= f[c] /\ f[c] <= m[c]
  BY <1>1, <1>9
<1> HIDE DEF c, U
<1>13. M(S) \in Nat /\ -M(S) <= E(S) /\ E(S) <= M(S)
  BY <1>10, <1>11, <1>12
<1> QED
  BY <1>7, <1>13

\* So do the sums of two disjoint sets together.
LEMMA ExactBound ==
  ASSUME NEW X, IsFiniteSet(X), NEW f \in [X -> Int],
         NEW S \in SUBSET X, NEW T \in SUBSET (X \ S), NEW a, NEW b,
         a = SumFunctionOnSet(f, S), b = SumFunctionOnSet(f, T)
  PROVE  LET m == SumFunctionOnSet(Magnitudes(f), X) IN
         a \in Int /\ b \in Int /\ m \in Nat /\ \E i, j \in Nat :
            /\ -i <= a /\ a <= i /\ -j <= b /\ b <= j /\ i + j <= m
<1> DEFINE M(U) == SumFunctionOnSet(Magnitudes(f), U)
           R == X \ (S \cup T)
<1>1. Magnitudes(f) \in [X -> Int]
  BY ExactMagnitude
<1>2. S \cup T \in SUBSET X /\ R \in SUBSET X /\ R \in SUBSET (X \ (S \cup T))
      /\ (S \cup T) \cup R = X /\ T \in SUBSET X
  OBVIOUS
<1>3. M(S) \in Nat /\ M(T) \in Nat /\ M(R) \in Nat
      /\ -M(S) <= a /\ a <= M(S) /\ -M(T) <= b /\ b <= M(T)
  BY <1>2, ExactMagnitude
<1>4. M(S \cup T) = M(S) + M(T)
  BY <1>1, ExactUnion
<1>5. M(X) = M(S \cup T) + M(R)
  <2>1. M((S \cup T) \cup R) = M(S \cup T) + M(R)
    BY <1>1, <1>2, ExactUnion
  <2> QED
    BY <1>2, <2>1
<1>6. a \in Int /\ b \in Int
  BY <1>2, ExactType
<1>7. M(X) \in Nat /\ M(S) + M(T) <= M(X)
  <2> HIDE DEF M
  <2> QED
    BY <1>3, <1>4, <1>5
<1> HIDE DEF M
<1>8. \E i, j \in Nat : /\ -i <= a /\ a <= i /\ -j <= b /\ b <= j
                       /\ i + j <= M(X)
  BY <1>3, <1>7
<1> QED
  BY <1>6, <1>7, <1>8 DEF M

-----------------------------------------------------------------------------
(* The data of a validated call. *)

LEMMA PayloadTypes ==
  ASSUME call \in Calls
  PROVE  /\ P.count \in Nat /\ P.bins \in Nat /\ P.durations \in Seq(Int \cup {NonFinite})
         /\ P.first \in Nat /\ P.minIn \in Nat /\ P.minOut \in Nat
         /\ P.first < Word /\ Unit \in Nat \ {0} /\ Word \in Nat \ {0}
BY BoxAssumption DEF P

LEMMA ValidSeries ==
  ASSUME call \in Calls, Checked
  PROVE  /\ N \in Nat \ {0} /\ Values \in [1..N -> Int]
         /\ \A s \in 1..N : -MaxFinite <= Values[s] /\ Values[s] <= MaxFinite
         /\ IsFiniteSet(1..N) /\ Cardinality(1..N) = N
<1> DEFINE D == Pairs(call.dataset)
<1>1. PICK xy \in D : xy[1] # <<>> /\ Len(xy[1]) = Len(xy[2])
  BY DEF Checked, IsSeries
<1>2. /\ \A uv \in D : uv = xy
      /\ xy \in Seq(Float) \X Seq(Float)
  BY BoxAssumption
<1>3. \A v \in Range(xy[2]) : IsFinite(v)
  BY DEF Checked, AllFinite
<1> HIDE DEF D
<1>4. xy[1] \in Seq(Float) /\ xy[2] \in Seq(Float)
  BY <1>2
<1>5. Len(xy[1]) \in Nat \ {0} /\ DOMAIN xy[1] = 1..Len(xy[1])
  BY <1>1, <1>4
<1>6. Samples(call.dataset) = 1..Len(xy[1])
  BY <1>2, <1>5 DEF Samples, D
<1>7. N = Len(xy[1]) /\ IsFiniteSet(1..N) /\ Cardinality(1..N) = N
  BY <1>5, <1>6, FS_Interval DEF N
<1>8. Values = xy[2]
  BY <1>2 DEF Values, D
<1>9. Values \in [1..N -> Float]
  BY <1>1, <1>4, <1>7, <1>8
<1>10. \A s \in 1..N : Values[s] \in Float /\ Values[s] # NonFinite
  BY <1>3, <1>8, <1>9 DEF Range, IsFinite
<1>11. \A s \in 1..N : Values[s] \in Int /\ -MaxFinite <= Values[s] /\ Values[s] <= MaxFinite
  BY <1>10, FloatAssumption DEF Float
<1> QED
  BY <1>5, <1>7, <1>9, <1>11

\* Float32 additions are exact as long as the result is finite.
LEMMA PlusExact ==
  ASSUME NEW a \in Float, NEW b \in Float
  PROVE  /\ Plus(a, b) \in Float /\ Minus(a, b) \in Float
         /\ IsFinite(Plus(a, b)) => a \in Int /\ b \in Int /\ Plus(a, b) = a + b
         /\ IsFinite(Minus(a, b)) => a \in Int /\ b \in Int /\ Minus(a, b) = a - b
<1>1. \A v \in Float : IsFinite(v) => v \in Int
  BY FloatAssumption DEF Float, IsFinite
<1>2. \A v \in Int : /\ Overflowing(v) \in Float
                     /\ IsFinite(Overflowing(v)) => Overflowing(v) = v
  BY FloatAssumption DEF Float, IsFinite, Overflowing
<1>3. CASE IsFinite(a) /\ IsFinite(b)
  <2>1. a \in Int /\ b \in Int /\ a + b \in Int /\ a - b \in Int
    BY <1>1, <1>3
  <2> QED
    BY <1>2, <1>3, <2>1 DEF Plus, Minus
<1>4. CASE ~(IsFinite(a) /\ IsFinite(b))
  BY <1>4 DEF Plus, Minus, IsFinite, Float
<1> QED
  BY <1>3, <1>4

LEMMA PlusFinite ==
  ASSUME NEW a \in Int, NEW b \in Int
  PROVE  /\ -MaxFinite <= a + b /\ a + b <= MaxFinite => Plus(a, b) = a + b
         /\ -MaxFinite <= a - b /\ a - b <= MaxFinite => Minus(a, b) = a - b
         /\ IsFinite(a)
<1>1. IsFinite(a) /\ IsFinite(b)
  BY FloatAssumption DEF IsFinite
<1> QED
  BY <1>1 DEF Plus, Minus, Overflowing

\* A Float32 sum is a Float32, the exact sum if it is finite, and finite if no sum overflows.
LEMMA SumExact ==
  ASSUME call \in Calls, Checked
  PROVE  \A S \in SUBSET (1..N) :
           /\ Sum(S) \in Float
           /\ IsFinite(Sum(S)) => Sum(S) = SumFunctionOnSet(Values, S)
           /\ NoOverflow => IsFinite(Sum(S))
<1> DEFINE E(S) == SumFunctionOnSet(Values, S)
           Good(S) == /\ Sum(S) \in Float
                      /\ IsFinite(Sum(S)) => Sum(S) = E(S)
                      /\ NoOverflow => IsFinite(Sum(S))
           Bad == {S \in SUBSET (1..N) : ~Good(S)}
<1> SUFFICES ASSUME Bad # {} PROVE FALSE
  OBVIOUS
<1>1. /\ IsFiniteSet(1..N) /\ Values \in [1..N -> Int]
      /\ \A s \in 1..N : -MaxFinite <= Values[s] /\ Values[s] <= MaxFinite
  BY ValidSeries
<1>2. \A S \in SUBSET (1..N) :
        /\ Sum(S) = IF S = {} THEN 0 ELSE Plus(Values[Pick(S)], Sum(S \ {Pick(S)}))
        /\ E(S) = IF S = {} THEN 0 ELSE Values[Pick(S)] + E(S \ {Pick(S)})
        /\ E(S) \in Int
  BY <1>1, SumRecursion, ExactRecursion, ExactType
<1>3. \A S : S # {} => Pick(S) \in S
  BY DEF Pick
<1>4. NoOverflow => \A S \in SUBSET (1..N) : -MaxFinite <= E(S) /\ E(S) <= MaxFinite
  <2> SUFFICES ASSUME NoOverflow, NEW S \in SUBSET (1..N)
               PROVE  -MaxFinite <= E(S) /\ E(S) <= MaxFinite
    OBVIOUS
  <2>1. SumFunctionOnSet(Magnitudes(Values), 1..N) <= MaxFinite
    BY <1>1 DEF NoOverflow, Magnitudes
  <2> DEFINE m == SumFunctionOnSet(Magnitudes(Values), 1..N)
  <2>2. {} \in SUBSET ((1..N) \ S)
    OBVIOUS
  <2>3. m \in Nat /\ \E i, j \in Nat : -i <= E(S) /\ E(S) <= i /\ i + j <= m
    BY <1>1, <2>2, ExactBound
  <2>4. PICK i \in Nat, j \in Nat : -i <= E(S) /\ E(S) <= i /\ i + j <= m
    BY <2>3
  <2>5. E(S) \in Int /\ m <= MaxFinite /\ MaxFinite \in Nat /\ m \in Nat
    BY <1>2, <2>1, <2>3, FloatAssumption
  <2> HIDE DEF m, E
  <2> QED
    BY <2>4, <2>5
<1> HIDE DEF E
<1>5. PICK S \in Bad : \A U \in SUBSET S : U # S => U \notin Bad
  <2>1. Bad \in SUBSET SUBSET (1..N)
    OBVIOUS
  <2> HIDE DEF Bad
  <2> QED
    BY <1>1, <2>1, SmallestCase
<1>6. S \in SUBSET (1..N) /\ ~Good(S) /\ \A U \in SUBSET S : U # S => Good(U)
  BY <1>5
<1>7. S # {}
  <2>1. Sum({}) = 0 /\ E({}) = 0
    BY <1>2
  <2>2. 0 \in Float /\ IsFinite(0)
    BY FloatAssumption DEF Float, IsFinite
  <2>3. Good({})
    BY <2>1, <2>2
  <2> QED
    BY <1>6, <2>3
<1> DEFINE c == Pick(S)
           U == S \ {c}
<1>8. c \in 1..N /\ U \in SUBSET S /\ U # S /\ U \in SUBSET (1..N)
  BY <1>3, <1>6, <1>7
<1>9. Good(U)
  BY <1>6, <1>8
<1>10. Sum(S) = Plus(Values[c], Sum(U)) /\ E(S) = Values[c] + E(U) /\ E(U) \in Int
  BY <1>2, <1>6, <1>7, <1>8
<1>11. Values[c] \in Int /\ Values[c] \in Float
  BY <1>1, <1>8 DEF Float
<1> HIDE DEF c, U
<1>12. Sum(S) \in Float /\ (IsFinite(Sum(S)) => Sum(S) = Values[c] + Sum(U) /\ Sum(U) \in Int)
  BY <1>9, <1>10, <1>11, PlusExact
<1>13. IsFinite(Sum(S)) => Sum(S) = E(S)
  <2>1. \A v \in Int : IsFinite(v)
    BY FloatAssumption DEF IsFinite
  <2> QED
    BY <1>9, <1>10, <1>12, <2>1
<1>14. ASSUME NoOverflow PROVE IsFinite(Sum(S))
  <2>1. Sum(U) = E(U)
    BY <1>9, <1>14
  <2>2. Plus(Values[c], E(U)) = Values[c] + E(U)
    BY <1>4, <1>6, <1>10, <1>11, <1>14, PlusFinite
  <2>3. Values[c] + E(U) \in Int
    BY <1>10, <1>11
  <2> QED
    BY <1>10, <2>1, <2>2, <2>3, PlusFinite
<1> QED
  BY <1>6, <1>12, <1>13, <1>14

-----------------------------------------------------------------------------
(* Bins and windows. *)

LEMMA Quotient ==
  ASSUME NEW a \in Nat, NEW b \in Nat \ {0}
  PROVE  a \div b \in Nat /\ b * (a \div b) <= a
OBVIOUS

LEMMA ProductMonotone ==
  ASSUME NEW i \in Nat, NEW n \in Nat, NEW s \in Nat, i <= n
  PROVE  i * s \in Nat /\ n * s \in Nat /\ i * s <= n * s
<1>1. PICK k \in Nat : n = i + k
  <2>1. n - i \in Nat /\ n = i + (n - i)
    OBVIOUS
  <2> QED
    BY <2>1
<1>2. n * s = i * s + k * s
  BY <1>1
<1>3. k * s \in Nat /\ i * s \in Nat
  OBVIOUS
<1> QED
  BY <1>2, <1>3

\* A sample falls into a bin.
LEMMA BinRange ==
  ASSUME call \in Calls, Checked, NEW ph \in 0..Unit
  PROVE  BinOf(ph) \in Bins
<1>1. P.bins \in Nat /\ P.bins >= 2 /\ Unit \in Nat \ {0}
  BY PayloadTypes DEF Checked
<1>2. CASE ph < Unit
  <2> DEFINE q == (ph * P.bins) \div Unit
  <2>1. ph * P.bins \in Nat /\ (ph + 1) * P.bins <= Unit * P.bins
    BY <1>1, <1>2, ProductMonotone
  <2>2. (ph + 1) * P.bins = ph * P.bins + P.bins
    BY <1>1
  <2>3. q \in Nat /\ Unit * q <= ph * P.bins
    BY <1>1, <2>1, Quotient
  <2>4. ph * P.bins < Unit * P.bins
    BY <1>1, <2>1, <2>2
  <2> HIDE DEF q
  <2>5. ASSUME q >= P.bins PROVE FALSE
    <3>1. P.bins * Unit <= q * Unit
      BY <1>1, <2>3, <2>5, ProductMonotone
    <3>2. P.bins * Unit = Unit * P.bins /\ q * Unit = Unit * q
      BY <1>1, <2>3
    <3>3. P.bins * Unit \in Nat /\ q * Unit \in Nat
      BY <1>1, <2>3
    <3> QED
      BY <2>1, <2>3, <2>4, <3>1, <3>2, <3>3
  <2>6. q \in 0..(P.bins - 1)
    BY <1>1, <2>3, <2>5
  <2> QED
    BY <1>2, <2>6 DEF BinOf, Bins, q
<1>3. CASE ~(ph < Unit)
  BY <1>1, <1>3 DEF BinOf, Bins
<1> QED
  BY <1>2, <1>3

\* Every window leaves at least one bin outside.
LEMMA WidthRange ==
  ASSUME call \in Calls, Checked, NEW d \in DOMAIN P.durations
  PROVE  DurationBins(P.durations[d]) \in 1..(P.bins - 1)
<1>1. P.bins \in Nat /\ P.bins >= 2 /\ Unit \in Nat \ {0}
  BY PayloadTypes DEF Checked
<1>2. P.durations[d] \in Nat
  <2>1. P.durations[d] \in Int \cup {NonFinite}
    BY PayloadTypes
  <2>2. IsPositive(P.durations[d])
    BY DEF Checked, Durations
  <2> QED
    BY <2>1, <2>2 DEF IsPositive, IsFinite
<1> DEFINE q == (2 * P.durations[d] * P.bins + Unit) \div (2 * Unit)
<1>3. q \in Int
  <2>1. 2 * P.durations[d] * P.bins + Unit \in Nat /\ 2 * Unit \in Nat \ {0}
    BY <1>1, <1>2
  <2> QED
    BY <2>1, Quotient
<1> HIDE DEF q
<1>4. DurationBins(P.durations[d]) = IF q < 1 THEN 1 ELSE IF q > P.bins - 1 THEN P.bins - 1 ELSE q
  BY DEF DurationBins, q
<1> QED
  BY <1>1, <1>3, <1>4

\* Remainders of numbers close to the range they fall in.
LEMMA Remainder ==
  ASSUME NEW n \in Nat \ {0}, NEW x \in Int
  PROVE  /\ 0 <= x /\ x < n => x % n = x
         /\ -n <= x /\ x < 0 => x % n = x + n
         /\ n <= x /\ x < 2 * n => x % n = x - n
OBVIOUS

\* How far clockwise bin c is from bin b.
LEMMA Distance ==
  ASSUME NEW n \in Nat \ {0}, NEW b \in 0..(n - 1), NEW c \in 0..(n - 1)
  PROVE  (c - b) % n = IF c >= b THEN c - b ELSE c - b + n
<1>1. CASE c >= b
  BY <1>1, Remainder
<1>2. CASE ~(c >= b)
  <2>1. c - b \in Int /\ -n <= c - b /\ c - b < 0
    BY <1>2
  <2>2. (c - b) % n = c - b + n
    BY <2>1, Remainder
  <2> QED
    BY <1>2, <2>2
<1> QED
  BY <1>1, <1>2

\* Moving a window by one bin, one bin leaves it and another one enters it.
LEMMA CircleStep ==
  ASSUME call \in Calls, Checked, NEW b \in Bins, NEW w \in 1..(P.bins - 1), NEW e,
         e = (b + w) % P.bins
  PROVE  /\ e \in Bins /\ e # b /\ b \in Circle(b, w) /\ e \notin Circle(b, w)
         /\ b + 1 < P.bins => Circle(b + 1, w) = (Circle(b, w) \ {b}) \cup {e}
<1>1. PICK n \in Nat \ {0} : n = P.bins
  BY PayloadTypes DEF Checked
<1>2. n >= 2 /\ Bins = 0..(n - 1) /\ b \in 0..(n - 1) /\ w \in 1..(n - 1)
  BY <1>1 DEF Checked, Bins
<1>3. e = IF b + w < n THEN b + w ELSE b + w - n
  <2>1. PICK x \in Int : x = b + w /\ 0 <= x /\ x < 2 * n
    BY <1>2
  <2>2. x < n => x % n = x
    BY <2>1, Remainder
  <2>3. n <= x => x % n = x - n
    BY <2>1, Remainder
  <2>4. e = x % n
    BY <1>1, <2>1
  <2>5. e = IF x < n THEN x ELSE x - n
    BY <2>1, <2>2, <2>3, <2>4
  <2> QED
    BY <1>2, <2>1, <2>5
<1> DEFINE far(a, c) == IF c >= a THEN c - a ELSE c - a + n
<1>4. \A a, c \in 0..(n - 1) : (c - a) % P.bins = far(a, c)
  BY <1>1, Distance
<1>5. \A a \in 0..(n - 1) : Circle(a, w) = {c \in 0..(n - 1) : far(a, c) < w}
  <2> HIDE DEF far
  <2> QED
    BY <1>2, <1>4 DEF Circle
<1>6. e \in 0..(n - 1) /\ e # b /\ far(b, b) < w /\ ~(far(b, e) < w)
  BY <1>2, <1>3
<1>7. ASSUME b + 1 < n PROVE Circle(b + 1, w) = (Circle(b, w) \ {b}) \cup {e}
  <2>1. b + 1 \in 0..(n - 1)
    BY <1>2, <1>7
  <2>2. ASSUME NEW c \in 0..(n - 1)
        PROVE  far(b + 1, c) < w <=> (far(b, c) < w /\ c # b) \/ c = e
    <3>1. CASE b + w < n
      BY <1>2, <1>3, <1>7, <3>1
    <3>2. CASE ~(b + w < n)
      BY <1>2, <1>3, <1>7, <3>2
    <3> QED
      BY <3>1, <3>2
  <2> HIDE DEF far
  <2> QED
    BY <1>2, <1>5, <1>6, <2>1, <2>2
<1> HIDE DEF far
<1>8. e \in Bins /\ b \in Circle(b, w) /\ e \notin Circle(b, w)
  BY <1>2, <1>5, <1>6
<1> QED
  BY <1>1, <1>6, <1>7, <1>8

LEMMA CircleFirst ==
  ASSUME call \in Calls, Checked, NEW w \in 1..(P.bins - 1)
  PROVE  Circle(0, w) = 0..(w - 1)
<1>1. PICK n \in Nat \ {0} : n = P.bins
  BY PayloadTypes DEF Checked
<1>2. n >= 2 /\ Bins = 0..(n - 1) /\ w \in 1..(n - 1)
  BY <1>1 DEF Checked, Bins
<1>3. \A c \in 0..(n - 1) : (c - 0) % P.bins = c
  <2> SUFFICES ASSUME NEW c \in 0..(n - 1) PROVE (c - 0) % P.bins = c
    OBVIOUS
  <2>1. c - 0 = c /\ c \in Int /\ 0 <= c /\ c < n
    BY <1>2
  <2>2. c % n = c
    BY <2>1, Remainder
  <2> QED
    BY <1>1, <2>1, <2>2
<1>4. Circle(0, w) = {c \in 0..(n - 1) : c < w}
  BY <1>2, <1>3 DEF Circle
<1>5. \A c : c \in 0..(n - 1) /\ c < w <=> c \in 0..(w - 1)
  BY <1>2
<1> QED
  BY <1>4, <1>5

\* How the samples inside change when the window moves, and their number and sum.
LEMMA WindowStep ==
  ASSUME call \in Calls, Checked, bin \in [1..N -> Bins],
         NEW b \in Bins, NEW w \in 1..(P.bins - 1), NEW e, e = (b + w) % P.bins
  PROVE  /\ InBin(b) \in SUBSET (1..N) /\ InBin(e) \in SUBSET ((1..N) \ InBin(b))
         /\ Inside(b, w) \in SUBSET (1..N)
         /\ b + 1 < P.bins =>
              /\ Cardinality(Inside(b + 1, w)) =
                   Cardinality(Inside(b, w)) + Cardinality(InBin(e)) - Cardinality(InBin(b))
              /\ SumFunctionOnSet(Values, Inside(b + 1, w)) =
                   SumFunctionOnSet(Values, Inside(b, w))
                     + SumFunctionOnSet(Values, InBin(e)) - SumFunctionOnSet(Values, InBin(b))
<1>1. /\ e \in Bins /\ e # b /\ b \in Circle(b, w) /\ e \notin Circle(b, w)
      /\ b + 1 < P.bins => Circle(b + 1, w) = (Circle(b, w) \ {b}) \cup {e}
  BY CircleStep
<1> DEFINE X == 1..N
           I == Inside(b, w)
           L == InBin(b)
           A == InBin(e)
           K == I \ L
           E(S) == SumFunctionOnSet(Values, S)
<1>2. DOMAIN bin = X
  OBVIOUS
<1>3. L \in SUBSET X /\ A \in SUBSET (X \ L) /\ I \in SUBSET X /\ L \subseteq I /\ A \cap I = {}
  BY <1>1, <1>2 DEF InBin, Inside
<1>4. b + 1 < P.bins => Inside(b + 1, w) = K \cup A
  BY <1>1, <1>2 DEF InBin, Inside
<1>5. IsFiniteSet(X) /\ Values \in [X -> Int]
  BY ValidSeries
<1> HIDE DEF X, I, L, A
<1>6. /\ K \in SUBSET X /\ L \in SUBSET (X \ K) /\ A \in SUBSET (X \ K) /\ A \in SUBSET X
      /\ K \cup L = I /\ K \cap L = {} /\ K \cap A = {}
  BY <1>3
<1> HIDE DEF K
<1>7. Cardinality(I) = Cardinality(K) + Cardinality(L)
  <2>1. IsFiniteSet(K) /\ IsFiniteSet(L) /\ Cardinality(K) \in Nat /\ Cardinality(L) \in Nat
    BY <1>3, <1>5, <1>6, FS_Subset, FS_CardinalityType
  <2>2. Cardinality(K \cup L) = Cardinality(K) + Cardinality(L) - Cardinality(K \cap L)
    BY <2>1, FS_Union
  <2>3. Cardinality(K \cap L) = 0
    BY <1>6, FS_EmptySet
  <2>4. Cardinality(K) + Cardinality(L) - 0 = Cardinality(K) + Cardinality(L)
    BY <2>1
  <2> QED
    BY <1>6, <2>2, <2>3, <2>4
<1>8. Cardinality(K \cup A) = Cardinality(K) + Cardinality(A)
  <2>1. IsFiniteSet(K) /\ IsFiniteSet(A) /\ Cardinality(K) \in Nat /\ Cardinality(A) \in Nat
    BY <1>3, <1>5, <1>6, FS_Subset, FS_CardinalityType
  <2>2. Cardinality(K \cup A) = Cardinality(K) + Cardinality(A) - Cardinality(K \cap A)
    BY <2>1, FS_Union
  <2>3. Cardinality(K \cap A) = 0
    BY <1>6, FS_EmptySet
  <2>4. Cardinality(K) + Cardinality(A) - 0 = Cardinality(K) + Cardinality(A)
    BY <2>1
  <2> QED
    BY <2>2, <2>3, <2>4
<1>9. \A S \in {K, L, A} : Cardinality(S) \in Nat /\ E(S) \in Int
  BY <1>3, <1>5, <1>6, FS_Subset, FS_CardinalityType, ExactType
<1>10. E(K \cup L) = E(K) + E(L) /\ E(K \cup A) = E(K) + E(A)
  BY <1>5, <1>6, ExactUnion
<1> HIDE DEF E
<1>11. Cardinality(K \cup A) = Cardinality(I) + Cardinality(A) - Cardinality(L)
  BY <1>7, <1>8, <1>9
<1>12. E(K \cup A) = E(I) + E(A) - E(L)
  <2>1. E(I) = E(K) + E(L)
    BY <1>6, <1>10
  <2> QED
    BY <1>9, <1>10, <2>1
<1> QED
  BY <1>3, <1>4, <1>11, <1>12 DEF E, I, A, L, X

-----------------------------------------------------------------------------
(* The order of candidates. *)

\* What IsBest asks of the best and any other candidate.
Beats(c, o) == Above(c, o) \/ (~Above(o, c) /\ Before(c.key, o.key))

\* Multiplying by a positive number keeps the order.
LEMMA Scale ==
  ASSUME NEW a \in Int, NEW b \in Int, NEW k \in Nat \ {0}
  PROVE  /\ a * k \in Int /\ b * k \in Int
         /\ a < b <=> a * k < b * k
<1>1. ASSUME NEW x \in Int, NEW y \in Int, x <= y
      PROVE  x * k <= y * k /\ (x < y => x * k < y * k)
  <2>1. PICK d \in Nat : y = x + d
    <3>1. y - x \in Nat /\ y = x + (y - x)
      BY <1>1
    <3> QED
      BY <3>1
  <2>2. y * k = x * k + d * k /\ x * k \in Int /\ d * k \in Nat
    BY <2>1
  <2>3. d # 0 => d * k # 0
    BY <2>1
  <2> QED
    BY <2>1, <2>2, <2>3
<1>2. a * k \in Int /\ b * k \in Int
  OBVIOUS
<1>3. CASE a < b
  BY <1>1, <1>3
<1>4. CASE b <= a
  BY <1>1, <1>2, <1>4
<1> QED
  BY <1>2, <1>3, <1>4

\* Fractions x/o, y/p and z/q are compared transitively.
LEMMA Fractions ==
  ASSUME NEW x \in Int, NEW y \in Int, NEW z \in Int,
         NEW o \in Nat \ {0}, NEW p \in Nat \ {0}, NEW q \in Nat \ {0}
  PROVE  /\ x * p > y * o /\ y * q >= z * p => x * q > z * o
         /\ x * p >= y * o /\ y * q > z * p => x * q > z * o
         /\ x * p >= y * o /\ y * q >= z * p => x * q >= z * o
<1> DEFINE xp == x * p  xq == x * q  yo == y * o  yq == y * q  zo == z * o  zp == z * p
<1>1. xp \in Int /\ xq \in Int /\ yo \in Int /\ yq \in Int /\ zo \in Int /\ zp \in Int
  OBVIOUS
<1>2. xp * q = xq * p /\ yo * q = yq * o /\ zp * o = zo * p
  OBVIOUS
<1> HIDE DEF xp, xq, yo, yq, zo, zp
<1>3. yo < xp <=> yo * q < xp * q
  BY <1>1, Scale
<1>4. zp < yq <=> zp * o < yq * o
  BY <1>1, Scale
<1>5. zo < xq <=> zo * p < xq * p
  BY <1>1, Scale
<1>6. xp < yo <=> xp * q < yo * q
  BY <1>1, Scale
<1>7. yq < zp <=> yq * o < zp * o
  BY <1>1, Scale
<1>8. xq < zo <=> xq * p < zo * p
  BY <1>1, Scale
<1> DEFINE s == xp * q  t == yo * q  u == zp * o
<1>9. s \in Int /\ t \in Int /\ u \in Int
  BY <1>1
<1>10. /\ yo < xp <=> t < s
       /\ zp < yq <=> u < t
       /\ zo < xq <=> u < s
       /\ xp < yo <=> s < t
       /\ yq < zp <=> t < u
       /\ xq < zo <=> s < u
  BY <1>2, <1>3, <1>4, <1>5, <1>6, <1>7, <1>8
<1> HIDE DEF s, t, u
<1>11. /\ xp > yo /\ yq >= zp => xq > zo
       /\ xp >= yo /\ yq > zp => xq > zo
       /\ xp >= yo /\ yq >= zp => xq >= zo
  BY <1>1, <1>9, <1>10
<1> QED
  BY <1>11 DEF xp, xq, yo, yq, zo, zp

\* Scores are ordered like fractions.
LEMMA AboveOrder ==
  ASSUME NEW a \in Candidates, NEW b \in Candidates, NEW c \in Candidates
  PROVE  /\ Above(a, b) => ~Above(b, a)
         /\ Above(a, b) /\ ~Above(c, b) => Above(a, c)
         /\ ~Above(b, a) /\ Above(b, c) => Above(a, c)
         /\ ~Above(b, a) /\ ~Above(c, b) => ~Above(c, a)
<1>1. /\ a.square \in Int /\ b.square \in Int /\ c.square \in Int
      /\ a.over \in Nat \ {0} /\ b.over \in Nat \ {0} /\ c.over \in Nat \ {0}
  BY DEF Candidates
<1> DEFINE ab == a.square * b.over  ba == b.square * a.over
           bc == b.square * c.over  cb == c.square * b.over
           ac == a.square * c.over  ca == c.square * a.over
<1>2. ab \in Int /\ ba \in Int /\ bc \in Int /\ cb \in Int /\ ac \in Int /\ ca \in Int
  BY <1>1
<1>3. /\ ab > ba /\ bc >= cb => ac > ca
      /\ ab >= ba /\ bc > cb => ac > ca
      /\ ab >= ba /\ bc >= cb => ac >= ca
  BY <1>1, Fractions
<1>4. /\ Above(a, b) <=> ab > ba
      /\ Above(b, a) <=> ba > ab
      /\ Above(b, c) <=> bc > cb
      /\ Above(c, b) <=> cb > bc
      /\ Above(a, c) <=> ac > ca
      /\ Above(c, a) <=> ca > ac
  BY DEF Above
<1> HIDE DEF ab, ba, bc, cb, ac, ca
<1> QED
  BY <1>2, <1>3, <1>4

\* Keys are compared lexicographically.
LEMMA Lexicographic ==
  ASSUME NEW k \in Nat \X Nat \X Nat, NEW l \in Nat \X Nat \X Nat
  PROVE  Before(k, l) <=>
           \/ k[1] < l[1]
           \/ k[1] = l[1] /\ k[2] < l[2]
           \/ k[1] = l[1] /\ k[2] = l[2] /\ k[3] < l[3]
<1>1. DOMAIN k = {1, 2, 3}
  <2>1. k = <<k[1], k[2], k[3]>>
    OBVIOUS
  <2>2. DOMAIN <<k[1], k[2], k[3]>> = 1..3
    OBVIOUS
  <2> QED
    BY <2>1, <2>2
<1>2. 1..(1 - 1) = {} /\ 1..(2 - 1) = {1} /\ 1..(3 - 1) = {1, 2}
  OBVIOUS
<1>3. Before(k, l) <=> \E i \in {1, 2, 3} : k[i] < l[i] /\ \A j \in 1..(i - 1) : k[j] = l[j]
  BY <1>1 DEF Before
<1> QED
  BY <1>2, <1>3

LEMMA KeyOrder ==
  ASSUME NEW k \in Nat \X Nat \X Nat, NEW l \in Nat \X Nat \X Nat, NEW m \in Nat \X Nat \X Nat
  PROVE  /\ Before(k, l) /\ Before(l, m) => Before(k, m)
         /\ k = l \/ Before(k, l) \/ Before(l, k)
<1>1. /\ k[1] \in Nat /\ k[2] \in Nat /\ k[3] \in Nat
      /\ l[1] \in Nat /\ l[2] \in Nat /\ l[3] \in Nat
      /\ m[1] \in Nat /\ m[2] \in Nat /\ m[3] \in Nat
  OBVIOUS
<1>2. k = <<k[1], k[2], k[3]>> /\ l = <<l[1], l[2], l[3]>>
  OBVIOUS
<1>3. k[1] = l[1] /\ k[2] = l[2] /\ k[3] = l[3] => k = l
  BY <1>2
<1>4. Before(k, l) /\ Before(l, m) => Before(k, m)
  <2>1. /\ Before(k, l) <=> \/ k[1] < l[1]
                            \/ k[1] = l[1] /\ k[2] < l[2]
                            \/ k[1] = l[1] /\ k[2] = l[2] /\ k[3] < l[3]
        /\ Before(l, m) <=> \/ l[1] < m[1]
                            \/ l[1] = m[1] /\ l[2] < m[2]
                            \/ l[1] = m[1] /\ l[2] = m[2] /\ l[3] < m[3]
        /\ Before(k, m) <=> \/ k[1] < m[1]
                            \/ k[1] = m[1] /\ k[2] < m[2]
                            \/ k[1] = m[1] /\ k[2] = m[2] /\ k[3] < m[3]
    BY Lexicographic
  <2> QED
    BY <1>1, <2>1
<1>5. k = l \/ Before(k, l) \/ Before(l, k)
  <2>1. /\ Before(k, l) <=> \/ k[1] < l[1]
                            \/ k[1] = l[1] /\ k[2] < l[2]
                            \/ k[1] = l[1] /\ k[2] = l[2] /\ k[3] < l[3]
        /\ Before(l, k) <=> \/ l[1] < k[1]
                            \/ l[1] = k[1] /\ l[2] < k[2]
                            \/ l[1] = k[1] /\ l[2] = k[2] /\ l[3] < k[3]
    BY Lexicographic
  <2> QED
    BY <1>1, <1>3, <2>1
<1> QED
  BY <1>4, <1>5

\* Candidates of different keys are in a strict order.
LEMMA BeatsOrder ==
  ASSUME NEW a \in Candidates, NEW b \in Candidates, NEW c \in Candidates
  PROVE  /\ Beats(a, b) /\ Beats(b, c) => Beats(a, c)
         /\ a.key # b.key => Beats(a, b) \/ Beats(b, a)
<1>1. /\ a.key \in Nat \X Nat \X Nat /\ b.key \in Nat \X Nat \X Nat
      /\ c.key \in Nat \X Nat \X Nat
  BY DEF Candidates
<1>2. ASSUME Beats(a, b), Beats(b, c) PROVE Beats(a, c)
  <2>1. CASE Above(a, b)
    BY <1>2, <2>1, AboveOrder DEF Beats
  <2>2. CASE Above(b, c)
    BY <1>2, <2>2, AboveOrder DEF Beats
  <2>3. CASE ~Above(a, b) /\ ~Above(b, c)
    <3>1. ~Above(b, a) /\ ~Above(c, b) /\ Before(a.key, b.key) /\ Before(b.key, c.key)
      BY <1>2, <2>3 DEF Beats
    <3>2. Before(a.key, c.key)
      BY <1>1, <3>1, KeyOrder
    <3>3. ~Above(c, a)
      BY <3>1, AboveOrder
    <3> QED
      BY <3>2, <3>3 DEF Beats
  <2> QED
    BY <2>1, <2>2, <2>3
<1>3. ASSUME a.key # b.key PROVE Beats(a, b) \/ Beats(b, a)
  BY <1>1, <1>3, KeyOrder DEF Beats
<1> QED
  BY <1>2, <1>3

\* The best of some candidates, or one more if it beats it, is the best of them all.
LEMMA KeepBest ==
  ASSUME NEW S \in SUBSET Candidates, NEW o, Choice(o, S), NEW x \in Candidates,
         \A c \in S : c.key # x.key
  PROVE  Choice(Keep(o, x), S \cup {x})
<1>1. \A c, T : IsBest(c, T) <=> c \in T /\ \A e \in T \ {c} : Beats(c, e)
  BY DEF IsBest, Beats
<1>2. CASE S = {}
  <2>1. Keep(o, x) = {x} /\ S \cup {x} = {x}
    BY <1>2 DEF Choice, Keep
  <2>2. IsBest(x, {x})
    BY <1>1
  <2> QED
    BY <2>1, <2>2 DEF Choice
<1>3. CASE S # {}
  <2>1. PICK b \in S : IsBest(b, S) /\ o = {b}
    BY <1>3 DEF Choice
  <2>2. Keep(o, x) = {IF Beats(x, b) THEN x ELSE b}
    BY <2>1 DEF Keep, SelectBetter, Beats
  <2>3. b \in S /\ \A e \in S \ {b} : Beats(b, e)
    BY <1>1, <2>1
  <2>4. CASE Beats(x, b)
    <3>1. \A e \in S : Beats(x, e)
      BY <2>3, <2>4, BeatsOrder
    <3>2. IsBest(x, S \cup {x})
      BY <1>1, <3>1
    <3> QED
      BY <2>2, <2>4, <3>2 DEF Choice
  <2>5. CASE ~Beats(x, b)
    <3>1. Beats(b, x)
      BY <2>3, <2>5, BeatsOrder
    <3>2. IsBest(b, S \cup {x})
      BY <1>1, <2>3, <3>1
    <3> QED
      BY <2>2, <2>3, <2>5, <3>2 DEF Choice
  <2> QED
    BY <2>4, <2>5
<1> QED
  BY <1>2, <1>3

-----------------------------------------------------------------------------
(* Scores of windows. *)

\* A number between -e and e, times a natural number, and its square.
LEMMA Between ==
  ASSUME NEW a \in Int, NEW e \in Nat, NEW k \in Nat, -e <= a, a <= e
  PROVE  /\ a * k \in Int /\ e * k \in Nat /\ -(e * k) <= a * k /\ a * k <= e * k
         /\ a * a \in Nat /\ a * a <= e * e /\ e * e \in Nat
<1>1. CASE a >= 0
  <2>1. a \in Nat
    BY <1>1
  <2>2. a * k <= e * k /\ a * k \in Nat /\ e * k \in Nat
    BY <2>1, ProductMonotone
  <2>3. a * a <= e * a /\ a * e <= e * e /\ a * e = e * a
        /\ a * a \in Nat /\ e * a \in Nat /\ e * e \in Nat
    BY <2>1, ProductMonotone
  <2> QED
    BY <2>2, <2>3
<1>2. CASE a < 0
  <2>1. PICK c \in Nat : c = -a /\ a = -c /\ c <= e
    BY <1>2
  <2>2. c * k <= e * k /\ c * k \in Nat /\ e * k \in Nat /\ a * k = -(c * k)
    BY <2>1, ProductMonotone
  <2>3. c * c <= e * c /\ c * e <= e * e /\ c * e = e * c /\ a * a = c * c
        /\ c * c \in Nat /\ e * c \in Nat /\ e * e \in Nat
    BY <2>1, ProductMonotone
  <2> QED
    BY <2>2, <2>3
<1> QED
  BY <1>1, <1>2

\* The bounds of HasScore hold if the magnitudes inside and outside are at most m.
LEMMA ScoreBounds ==
  ASSUME NEW a \in Int, NEW b \in Int, NEW i \in Nat, NEW j \in Nat, NEW m \in Nat,
         NEW n \in Nat \ {0}, NEW k \in Nat \ {0},
         -i <= a, a <= i, -j <= b, b <= j, i + j <= m
  PROVE  LET d == b * n - a * k
             o == n * k
         IN  /\ d \in Int /\ o \in Nat \ {0}
             /\ -(m * o) <= d /\ d <= m * o
             /\ d * d <= ((m * m) * o) * (n + k)
<1> DEFINE d == b * n - a * k
           o == n * k
<1>1. PICK g \in Nat : g = (IF n < k THEN k ELSE n) /\ n <= g /\ k <= g /\ g <= n + k
  OBVIOUS
<1>2. d \in Int /\ o \in Nat \ {0}
  <2>1. n * k # 0
    OBVIOUS
  <2> QED
    BY <2>1
<1>3. g <= o
  <2>1. 1 * k <= n * k /\ 1 * n <= k * n /\ k * n = n * k
    BY ProductMonotone
  <2> QED
    BY <1>1, <2>1
<1>4. -(j * n) <= b * n /\ b * n <= j * n /\ b * n \in Int /\ j * n \in Nat
  BY Between
<1>5. -(i * k) <= a * k /\ a * k <= i * k /\ a * k \in Int /\ i * k \in Nat
  BY Between
<1>6. n * j <= g * j /\ n * j = j * n /\ g * j = j * g /\ g * j \in Nat
  BY <1>1, ProductMonotone
<1>7. k * i <= g * i /\ k * i = i * k /\ g * i = i * g /\ g * i \in Nat
  BY <1>1, ProductMonotone
<1>8. (i + j) * g <= m * g /\ (i + j) * g = i * g + j * g /\ m * g \in Nat
  <2>1. i + j \in Nat
    OBVIOUS
  <2>2. (i + j) * g <= m * g /\ m * g \in Nat
    BY <2>1, ProductMonotone
  <2>3. (i + j) * g = i * g + j * g
    BY <1>1
  <2> QED
    BY <2>2, <2>3
<1>9. -(m * g) <= d /\ d <= m * g
  BY <1>4, <1>5, <1>6, <1>7, <1>8
<1>10. g * m <= o * m /\ g * m = m * g /\ o * m = m * o /\ o * m \in Nat
  BY <1>1, <1>2, <1>3, ProductMonotone
<1>11. d * d <= (m * g) * (m * g) /\ d * d \in Nat
  <2> HIDE DEF d
  <2> QED
    BY <1>2, <1>8, <1>9, Between
<1>12. (m * g) * (m * g) <= ((m * m) * o) * (n + k)
  <2> HIDE DEF o
  <2>1. m * m \in Nat /\ g * g \in Nat /\ o * (n + k) \in Nat /\ n + k \in Nat
    BY <1>2
  <2>2. g * g <= o * (n + k)
    <3>1. g * g <= o * g
      BY <1>1, <1>2, <1>3, ProductMonotone
    <3>2. g * o <= (n + k) * o
      BY <1>1, <1>2, <2>1, ProductMonotone
    <3>3. g * o = o * g /\ (n + k) * o = o * (n + k) /\ g * o \in Nat
      BY <1>1, <1>2
    <3> QED
      BY <2>1, <3>1, <3>2, <3>3
  <2>3. (g * g) * (m * m) <= (o * (n + k)) * (m * m)
    BY <2>1, <2>2, ProductMonotone
  <2>4. (m * g) * (m * g) = (g * g) * (m * m)
    OBVIOUS
  <2>5. ((m * m) * o) * (n + k) = (o * (n + k)) * (m * m)
    BY <1>2
  <2> QED
    BY <2>3, <2>4, <2>5
<1>13. (m * g) * (m * g) \in Nat /\ ((m * m) * o) * (n + k) \in Nat
  <2> HIDE DEF o
  <2>1. m * m \in Nat
    OBVIOUS
  <2>2. (m * m) * o \in Nat /\ n + k \in Nat
    BY <1>2, <2>1
  <2> QED
    BY <1>8, <2>2
<1> HIDE DEF d, o
<1>14. -(m * o) <= d /\ d <= m * o
  BY <1>2, <1>8, <1>9, <1>10
<1>15. d * d <= ((m * m) * o) * (n + k)
  BY <1>11, <1>12, <1>13
<1> QED
  BY <1>2, <1>14, <1>15 DEF d, o

\* A window that satisfies the gates makes a fair candidate.
LEMMA CandidateFair ==
  ASSUME call \in Calls, Checked, Total \in Int, NEW s \in Int, NEW n \in 0..N,
         n >= P.minIn, N - n >= P.minOut, NEW f \in Nat, NEW d \in Nat, NEW b \in Nat
  PROVE  LET c == Candidate(s, n, f, d, b)
         IN  Fair(c) /\ c.key = <<f, d, b>> /\ c.inside = n
<1>1. P.minIn \in Nat \ {0} /\ P.minOut \in Nat \ {0} /\ N \in Nat
  BY PayloadTypes, ValidSeries DEF Checked
<1> DEFINE c == Candidate(s, n, f, d, b)
           difference == (Total - s) * n - s * (N - n)
           over == n * (N - n)
           square == IF difference < 0 THEN -(difference * difference) ELSE difference * difference
<1>2. n \in Nat \ {0} /\ N - n \in Nat \ {0}
  BY <1>1
<1>3. difference \in Int
  <2>1. Total - s \in Int /\ n \in Int /\ N - n \in Int
    BY <1>2
  <2> QED
    BY <2>1
<1>4. square \in Int
  <2> HIDE DEF difference
  <2> QED
    BY <1>3
<1>5. over \in Nat \ {0}
  <2>1. PICK k \in Nat \ {0} : k = N - n
    BY <1>2
  <2>2. n * k # 0
    BY <1>2, <2>1
  <2> QED
    BY <1>2, <2>1, <2>2
<1>6. c = [square |-> square, over |-> over, key |-> <<f, d, b>>, inside |-> n]
  BY DEF Candidate
<1> HIDE DEF square, over
<1>7. c \in Candidates /\ c.key = <<f, d, b>> /\ c.inside = n
  BY <1>2, <1>4, <1>5, <1>6 DEF Candidates
<1> QED
  BY <1>7 DEF Fair

\* Only numbers have a score.
LEMMA ScoredNumbers ==
  ASSUME call \in Calls, Checked, NEW s \in Float, NEW n, HasScore(s, n)
  PROVE  Total \in Int /\ s \in Int
<1>1. Total \in Float
  <2>1. DOMAIN Values \in SUBSET (1..N)
    BY ValidSeries
  <2> QED
    BY <2>1, SumExact DEF Total
<1>2. IsFinite(Minus(Total, s))
  BY DEF HasScore
<1> QED
  BY <1>1, <1>2, PlusExact

\* If no sum overflows, every window that satisfies the gates has a score.
LEMMA ScoreExists ==
  ASSUME call \in Calls, Checked, NoOverflow, NEW I \in SUBSET (1..N),
         NEW n \in Nat, n = Cardinality(I), n >= P.minIn, N - n >= P.minOut
  PROVE  /\ Total \in Int /\ n \in 0..N
         /\ SumFunctionOnSet(Values, I) \in Int
         /\ HasScore(SumFunctionOnSet(Values, I), n)
<1> DEFINE a == SumFunctionOnSet(Values, I)
           O == (1..N) \ I
           b == SumFunctionOnSet(Values, O)
           m == SumFunctionOnSet(Magnitudes(Values), 1..N)
<1>1. /\ IsFiniteSet(1..N) /\ Values \in [1..N -> Int] /\ N \in Nat /\ MaxFinite \in Nat
      /\ DOMAIN Values = 1..N /\ O \in SUBSET ((1..N) \ I) /\ I \cup O = 1..N
  BY ValidSeries, FloatAssumption
<1>2. m <= MaxFinite
  BY <1>1 DEF NoOverflow, Magnitudes
<1>3. /\ a \in Int /\ b \in Int /\ m \in Nat
      /\ \E i, j \in Nat : /\ -i <= a /\ a <= i /\ -j <= b /\ b <= j
                           /\ i + j <= m
  BY <1>1, ExactBound
<1>4. PICK i \in Nat, j \in Nat : -i <= a /\ a <= i /\ -j <= b /\ b <= j /\ i + j <= m
  BY <1>3
<1>5. Total = a + b
  <2>1. Total = SumFunctionOnSet(Values, 1..N)
    BY <1>1, SumExact DEF Total
  <2>2. SumFunctionOnSet(Values, I \cup O) = a + b
    BY <1>1, ExactUnion
  <2> QED
    BY <1>1, <2>1, <2>2
<1> HIDE DEF a, b, m, O
<1>6. i + j <= MaxFinite
  BY <1>1, <1>2, <1>3, <1>4
<1>7. Total \in Int /\ Total - a = b
  BY <1>3, <1>5
<1>8. IsFinite(Minus(Total, a))
  <2>1. -MaxFinite <= Total - a /\ Total - a <= MaxFinite
    BY <1>1, <1>3, <1>4, <1>6, <1>7
  <2>2. Minus(Total, a) = b
    BY <1>3, <1>7, <2>1, PlusFinite
  <2> QED
    BY <1>3, <2>2, PlusFinite
<1>9. PICK k \in Nat \ {0} : k = N - n /\ N = n + k
  <2>1. P.minOut \in Nat \ {0}
    BY PayloadTypes DEF Checked
  <2> QED
    BY <1>1, <2>1
<1>10. n \in Nat \ {0}
  BY PayloadTypes DEF Checked
<1> DEFINE d == b * n - a * k
           o == n * k
<1>11. /\ d \in Int /\ o \in Nat \ {0}
       /\ -(MaxFinite * o) <= d /\ d <= MaxFinite * o
       /\ d * d <= ((MaxFinite * MaxFinite) * o) * (n + k)
  <2>1. /\ a \in Int /\ b \in Int /\ i \in Nat /\ j \in Nat /\ MaxFinite \in Nat
        /\ n \in Nat \ {0} /\ k \in Nat \ {0}
        /\ -i <= a /\ a <= i /\ -j <= b /\ b <= j /\ i + j <= MaxFinite
    BY <1>1, <1>3, <1>4, <1>6, <1>9, <1>10
  <2> QED
    BY ONLY <2>1, ScoreBounds
<1>12. d = (Total - a) * n - a * (N - n) /\ o = n * (N - n)
  BY <1>7, <1>9
<1> HIDE DEF d, o
<1>13. d \in (-MaxFinite * o)..(MaxFinite * o)
  <2>1. -MaxFinite * o = -(MaxFinite * o) /\ MaxFinite * o \in Int
    BY <1>1, <1>11
  <2> QED
    BY <1>11, <2>1
<1>14. d * d <= MaxFinite * MaxFinite * o * N
  BY <1>9, <1>11
<1>15. HasScore(a, n)
  BY <1>8, <1>12, <1>13, <1>14 DEF HasScore
<1> QED
  BY <1>1, <1>3, <1>7, <1>9, <1>15 DEF a

-----------------------------------------------------------------------------
(* The steps. *)

\* What depends on the call alone stays with it.
LEMMA SameCall ==
  ASSUME call' = call
  PROVE  /\ P' = P /\ Values' = Values /\ N' = N /\ Bins' = Bins /\ Total' = Total
         /\ NoOverflow' = NoOverflow /\ Checked' = Checked
         /\ \A c : Fair(c)' = Fair(c)
<1>1. P' = P /\ Values' = Values /\ N' = N
  BY DEF P, Values, N
<1>2. Bins' = Bins /\ Checked' = Checked /\ \A c : Fair(c)' = Fair(c)
  BY <1>1 DEF Bins, Checked, Fair, Durations
<1>3. Total' = Total
  BY <1>1 DEF Total, Sum
<1>4. NoOverflow' = NoOverflow
  BY <1>1 DEF NoOverflow
<1> QED
  BY <1>1, <1>2, <1>3, <1>4

\* The windows of a frequency stay the same while it is scored.
LEMMA SameWindows ==
  ASSUME call' = call, bin' = bin, freq' = freq
  PROVE  /\ \A b, w : Inside(b, w)' = Inside(b, w)
         /\ Admissible' = Admissible
<1>1. P' = P /\ Values' = Values /\ N' = N /\ Bins' = Bins /\ Total' = Total
  BY SameCall
<1>2. \A b, w : Inside(b, w)' = Inside(b, w)
  BY <1>1 DEF Inside, Circle
<1>3. \A s, n, f, d, b : Candidate(s, n, f, d, b)' = Candidate(s, n, f, d, b)
  BY <1>1 DEF Candidate
<1>4. \A d : DurationBins(d)' = DurationBins(d)
  BY <1>1 DEF DurationBins
<1>5. Windows' = Windows
  BY <1>1, <1>2, <1>3, <1>4 DEF Windows
<1>6. Admissible' = Admissible
  BY <1>1, <1>5 DEF Admissible
<1> QED
  BY <1>2, <1>6

\* A window is known by its duration and its first bin.
WindowAt(d, b) ==
  LET inside == Inside(b, DurationBins(P.durations[d]))
  IN  Candidate(SumFunctionOnSet(Values, inside), Cardinality(inside), freq, d, b)

LEMMA WindowKeys ==
  /\ \A w : w \in Windows <=> \E d \in DOMAIN P.durations, b \in Bins : w = WindowAt(d, b)
  /\ \A d, b : /\ WindowAt(d, b).key = <<freq, d, b>>
               /\ WindowAt(d, b).inside = Cardinality(Inside(b, DurationBins(P.durations[d])))
BY DEF Windows, WindowAt, Candidate

\* Without overflow, the windows that satisfy the gates are fair candidates.
LEMMA AdmissibleFair ==
  ASSUME call \in Calls, Checked, bin \in [1..N -> Bins], freq \in Nat, NoOverflow,
         NEW w \in Admissible
  PROVE  /\ Fair(w) /\ w.key[1] = freq
         /\ w.key[2] \in DOMAIN P.durations /\ w.key[3] \in Bins
         /\ w.key[2] \in Nat \ {0} /\ w.key[3] \in 0..(P.bins - 1)
<1>1. PICK d \in DOMAIN P.durations, b \in Bins : w = WindowAt(d, b)
  BY WindowKeys DEF Admissible
<1>2. d \in Nat \ {0} /\ b \in 0..(P.bins - 1) /\ b \in Nat /\ d \in Nat
  BY PayloadTypes DEF Bins
<1> DEFINE I == Inside(b, DurationBins(P.durations[d]))
           n == Cardinality(I)
           s == SumFunctionOnSet(Values, I)
<1>3. I \in SUBSET (1..N) /\ n \in Nat
  <2>1. I \in SUBSET (1..N)
    BY DEF Inside
  <2> QED
    BY <2>1, ValidSeries, FS_Subset, FS_CardinalityType
<1>4. n >= P.minIn /\ N - n >= P.minOut
  BY <1>1, WindowKeys DEF Admissible
<1>5. w = Candidate(s, n, freq, d, b)
  BY <1>1 DEF WindowAt
<1> HIDE DEF I, n, s
<1>6. Total \in Int /\ n \in 0..N /\ s \in Int
  BY <1>3, <1>4, ScoreExists DEF n, s
<1>7. Fair(w) /\ w.key = <<freq, d, b>>
  <2>1. ASSUME NEW t \in Int, NEW k \in 0..N, k >= P.minIn, N - k >= P.minOut
        PROVE  Fair(Candidate(t, k, freq, d, b))
    <3>1. d \in Nat /\ b \in Nat /\ Total \in Int
      BY <1>2, <1>6
    <3> QED
      BY <2>1, <3>1, CandidateFair
  <2>2. w.key = <<freq, d, b>>
    BY <1>5 DEF Candidate
  <2> QED
    BY <1>4, <1>5, <1>6, <2>1, <2>2
<1> QED
  BY <1>2, <1>7

\* The initial states.
LEMMA InitBoxInv == Init => BoxInv
<1> SUFFICES ASSUME Init PROVE BoxInv
  OBVIOUS
<1>1. CallInv
  BY DEF Init, CallInv, TypeOK
<1>2. ScoredInv
  BY DEF Init, ScoredInv
<1>3. SlideInv /\ BestInv /\ ResultBest
  BY DEF Init, SlideInv, WindowExact, BestInv, ResultBest
<1> QED
  BY <1>1, <1>2, <1>3 DEF BoxInv

\* What was scored stays good as long as the frequencies to be reduced are all scored.
LEMMA KeepScored ==
  ASSUME ScoredInv, UNCHANGED <<call, scored>>,
         phase' = "reduce" => \A f \in DOMAIN scored : scored[f] # {}
  PROVE  ScoredInv'
BY SameCall DEF ScoredInv

\* The call is validated, or refused.
LEMMA ValidateKeeps == BoxInv /\ Validate => BoxInv'
<1> SUFFICES ASSUME BoxInv, Validate PROVE BoxInv'
  OBVIOUS
<1> DEFINE error == Validated(call.dataset)
<1>1. /\ phase = "validate" /\ call \in Calls /\ build \in Builds /\ best = {} /\ result = {}
      /\ UNCHANGED <<call, build, bin, freq, window, best>>
  BY DEF BoxInv, CallInv, TypeOK, BestInv, Validate
<1>2. CASE error # "none" /\ Return(Err(error)) /\ UNCHANGED scored
  <2>1. phase' = "done" /\ result' = {[error |-> error]}
    BY <1>2 DEF Return, Err
  <2>2. CallInv'
    BY <1>1, <2>1 DEF CallInv, TypeOK
  <2>3. ScoredInv'
    BY <1>1, <1>2, <2>1, KeepScored DEF BoxInv
  <2>4. SlideInv' /\ BestInv'
    BY <2>1 DEF SlideInv, WindowExact, BestInv
  <2>5. ResultBest'
    <3>1. \A r \in result' : r.error # "none"
      BY <1>2, <2>1
    <3> QED
      BY <3>1 DEF ResultBest
  <2> QED
    BY <2>2, <2>3, <2>4, <2>5 DEF BoxInv
<1>3. CASE /\ error = "none"
           /\ phase' = "pick"
           /\ scored' = [f \in 0..(P.count - 1) |-> {}]
           /\ UNCHANGED result
  <2>1. Checked
    <3>1. /\ IsSeries(call.dataset) /\ AllFinite(call.dataset)
          /\ P.count # 0 /\ ~(P.bins < 2) /\ Durations(P.durations)
          /\ P.minIn # 0 /\ P.minOut # 0
      BY <1>3 DEF Validated
    <3> QED
      BY <1>1, <3>1, PayloadTypes DEF Checked
  <2>2. Checked' /\ P' = P
    BY <1>1, <2>1, SameCall
  <2>3. CallInv'
    BY <1>1, <1>3, <2>2 DEF CallInv, TypeOK
  <2>4. ScoredInv'
    BY <1>1, <1>3, <2>2 DEF ScoredInv
  <2>5. SlideInv' /\ BestInv' /\ ResultBest'
    BY <1>1, <1>3 DEF SlideInv, WindowExact, BestInv, ResultBest
  <2> QED
    BY <2>3, <2>4, <2>5 DEF BoxInv
<1> QED
  BY <1>2, <1>3 DEF Validate

\* A frequency is taken and its samples fall into bins.
LEMMA FoldKeeps == ASSUME BoxInv, NEW f \in DOMAIN scored, Fold(f) PROVE BoxInv'
<1>1. /\ phase = "pick" /\ call \in Calls /\ build \in Builds /\ best = {} /\ result = {}
      /\ Checked /\ DOMAIN scored = 0..(P.count - 1) /\ f \in 0..(P.count - 1)
      /\ freq' = f /\ duration' = 1 /\ phase' = "window"
      /\ UNCHANGED <<call, build, start, count, sum, best, scored, result>>
  BY DEF BoxInv, CallInv, TypeOK, BestInv, Fold
<1>2. Checked' /\ P' = P /\ Values' = Values /\ Bins' = Bins
  BY <1>1, SameCall
<1>3. bin' \in [DOMAIN Values -> Bins]
  <2>1. PICK ph \in [DOMAIN Values -> 0..Unit] :
          bin' = [s \in DOMAIN Values |-> BinOf(ph[s])]
    BY DEF Fold
  <2> QED
    BY <1>1, <2>1, BinRange
<1>4. 1 \in 1..(Len(P.durations) + 1)
  BY <1>1, PayloadTypes
<1>5. CallInv'
  BY <1>1, <1>2, <1>3, <1>4 DEF CallInv, TypeOK
<1>6. ScoredInv'
  BY <1>1, KeepScored DEF BoxInv
<1>7. BestInv'
  <2>1. \A w \in Admissible' : w.key[2] \in DOMAIN P.durations
    BY <1>2 DEF Admissible, Windows, Candidate
  <2>2. \A d \in DOMAIN P.durations : ~(d < 1)
    BY <1>1, PayloadTypes
  <2>3. \A w : Passed(w)' <=> w.key[2] < 1
    BY <1>1 DEF Passed
  <2>4. {w \in Admissible : Passed(w)}' = {}
    BY <2>1, <2>2, <2>3
  <2> QED
    BY <1>1, <2>4 DEF BestInv, Choice
<1>8. SlideInv' /\ ResultBest'
  BY <1>1 DEF SlideInv, WindowExact, ResultBest
<1> QED
  BY <1>5, <1>6, <1>7, <1>8 DEF BoxInv

\* A window is opened at the first bin.
LEMMA OpenKeeps == BoxInv /\ Open => BoxInv'
<1> SUFFICES ASSUME BoxInv, Open PROVE BoxInv'
  OBVIOUS
<1>1. /\ phase = "window" /\ duration <= Len(P.durations) /\ phase' = "slide" /\ start' = 0
      /\ call \in Calls /\ build \in Builds /\ result = {} /\ Checked
      /\ DOMAIN scored = 0..(P.count - 1)
      /\ bin \in [DOMAIN Values -> Bins] /\ freq \in DOMAIN scored
      /\ duration \in 1..(Len(P.durations) + 1)
      /\ UNCHANGED <<call, build, bin, freq, duration, best, scored, result>>
  BY DEF BoxInv, CallInv, TypeOK, Open
<1>2. /\ Checked' /\ P' = P /\ Values' = Values /\ N' = N /\ Bins' = Bins
      /\ NoOverflow' = NoOverflow /\ Admissible' = Admissible
      /\ \A b, w : Inside(b, w)' = Inside(b, w)
      /\ \A c : Fair(c)' = Fair(c)
  BY <1>1, SameCall, SameWindows
<1>3. duration \in DOMAIN P.durations
  BY <1>1, PayloadTypes
<1>4. Width \in 1..(P.bins - 1) /\ Width' = Width
  BY <1>1, <1>2, <1>3, WidthRange DEF Width, DurationBins
<1> DEFINE I == Inside(0, Width)
<1>5. DOMAIN bin = 1..N /\ IsFiniteSet(1..N) /\ Cardinality(1..N) = N /\ N \in Nat
  BY <1>1, ValidSeries
<1>6. I = UNION {InBin(b) : b \in 0..(Width - 1)}
  BY <1>1, <1>4, CircleFirst DEF Inside, InBin
<1>7. I \in SUBSET (1..N)
  BY <1>5 DEF Inside
<1>8. count' = Cardinality(I) /\ sum' = Sum(I)
  BY <1>6 DEF Open
<1>9. Cardinality(I) \in 0..N
  <2>1. Cardinality(I) \in Nat /\ Cardinality(I) <= N
    BY <1>5, <1>7, FS_Subset, FS_CardinalityType
  <2> QED
    BY <1>5, <2>1
<1>10. 0 \in Bins
  BY <1>1, PayloadTypes DEF Bins, Checked
<1> HIDE DEF I
<1>11. CallInv'
  <2>1. sum' \in Float
    BY <1>1, <1>7, <1>8, SumExact
  <2> QED
    BY <1>1, <1>2, <1>3, <1>4, <1>8, <1>9, <1>10, <2>1 DEF CallInv, TypeOK
<1>12. ScoredInv'
  BY <1>1, KeepScored DEF BoxInv
<1>13. SlideInv'
  <2>1. Inside(start, Width)' = I
    BY <1>1, <1>2, <1>4 DEF Inside, Circle, I
  <2>2. /\ IsFinite(Sum(I)) => Sum(I) = SumFunctionOnSet(Values, I)
        /\ NoOverflow => IsFinite(Sum(I))
    BY <1>1, <1>7, SumExact
  <2> QED
    BY <1>2, <1>8, <2>1, <2>2 DEF SlideInv, WindowExact
<1>14. BestInv'
  <2>1. \A c : c.key[3] \in Nat => (Passed(c)' <=> Passed(c))
    BY <1>1 DEF Passed
  <2>2. /\ \A c, e \in best : c = e
        /\ \A c \in best : Fair(c) /\ c.key[1] = freq /\ Passed(c)
        /\ NoOverflow => Choice(best, {w \in Admissible : Passed(w)})
    BY <1>1 DEF BoxInv, BestInv
  <2>3. \A c : Fair(c) => c.key[3] \in Nat
    BY DEF Fair, Candidates
  <2>4. NoOverflow => {w \in Admissible : Passed(w)}' = {w \in Admissible : Passed(w)}
    <3> SUFFICES ASSUME NoOverflow
                 PROVE  {w \in Admissible : Passed(w)}' = {w \in Admissible : Passed(w)}
      OBVIOUS
    <3>1. freq \in Nat
      BY <1>1, PayloadTypes
    <3>2. \A w \in Admissible : Fair(w)
      BY <1>1, <1>5, <3>1, AdmissibleFair
    <3> QED
      BY <1>2, <2>1, <2>3, <3>2
  <2>5. \A c \in best' : Fair(c)' /\ c.key[1] = freq' /\ Passed(c)'
    BY <1>1, <1>2, <2>1, <2>2, <2>3
  <2>6. NoOverflow' => Choice(best, {w \in Admissible : Passed(w)})'
    BY <1>1, <1>2, <2>2, <2>4 DEF Choice, IsBest, Above, Before
  <2> QED
    BY <1>1, <2>2, <2>5, <2>6 DEF BestInv
<1>15. ResultBest'
  BY <1>1 DEF ResultBest
<1> QED
  BY <1>11, <1>12, <1>13, <1>14, <1>15 DEF BoxInv

\* A scored frequency gives its place and its best candidate to the reduction.
LEMMA ScoredKeeps == BoxInv /\ Scored => BoxInv'
<1> SUFFICES ASSUME BoxInv, Scored PROVE BoxInv'
  OBVIOUS
<1>1. /\ phase = "window" /\ call \in Calls /\ build \in Builds /\ result = {} /\ Checked
      /\ DOMAIN scored = 0..(P.count - 1) /\ freq \in DOMAIN scored
      /\ scored' = [scored EXCEPT ![freq] = {best}]
      /\ best' = {} /\ freq' = 0 /\ phase' \in {"reduce", "pick"}
      /\ phase' = "reduce" => \A f \in DOMAIN scored : scored'[f] # {}
      /\ UNCHANGED <<call, build, result>>
  BY DEF BoxInv, CallInv, TypeOK, Scored
<1>2. Checked' /\ P' = P /\ \A c : Fair(c)' = Fair(c)
  BY <1>1, SameCall
<1>3. /\ scored = [f \in DOMAIN scored |-> scored[f]]
      /\ \A c, e \in best : c = e
      /\ \A c \in best : Fair(c) /\ c.key[1] = freq
  BY <1>1 DEF BoxInv, ScoredInv, BestInv
<1>4. /\ DOMAIN scored' = DOMAIN scored
      /\ scored' = [f \in DOMAIN scored |-> IF f = freq THEN {best} ELSE scored[f]]
  BY <1>1, <1>3
<1>5. CallInv'
  BY <1>1, <1>2, <1>4 DEF CallInv, TypeOK
<1>6. ScoredInv'
  <2>1. scored' = [f \in DOMAIN scored' |-> scored'[f]]
    BY <1>4
  <2>2. ASSUME NEW f \in DOMAIN scored'
        PROVE  /\ f \in 0..(P'.count - 1)
               /\ \A o, q \in scored'[f] : o = q
               /\ \A o \in scored'[f] : \A c, e \in o : c = e
               /\ \A o \in scored'[f] : \A c \in o : Fair(c)' /\ c.key[1] = f
    <3>1. CASE f = freq
      BY <1>1, <1>2, <1>3, <1>4, <3>1
    <3>2. CASE f # freq
      <4>1. scored'[f] = scored[f] /\ f \in DOMAIN scored
        BY <1>4, <3>2
      <4> QED
        BY <1>1, <1>2, <4>1 DEF BoxInv, ScoredInv
    <3> QED
      BY <3>1, <3>2
  <2> QED
    BY <1>1, <1>4, <2>1, <2>2 DEF ScoredInv
<1>7. SlideInv' /\ ResultBest'
  BY <1>1 DEF SlideInv, WindowExact, ResultBest
<1>8. BestInv'
  <2>1. Below(0)' = {}
    <3>1. 0..(0 - 1) = {}
      OBVIOUS
    <3> QED
      BY <3>1 DEF Below
  <2>2. 0 \in 0..P'.count
    BY <1>1, <1>2, PayloadTypes
  <2> QED
    BY <1>1, <2>1, <2>2 DEF BestInv, Choice
<1> QED
  BY <1>5, <1>6, <1>7, <1>8 DEF BoxInv

\* While a window slides: what the invariants say of it.
LEMMA Sliding ==
  ASSUME BoxInv, phase = "slide"
  PROVE  /\ call \in Calls /\ build \in Builds /\ result = {} /\ Checked
         /\ DOMAIN scored = 0..(P.count - 1) /\ freq \in DOMAIN scored /\ freq \in Nat
         /\ bin \in [1..N -> Bins] /\ DOMAIN Values = 1..N
         /\ duration \in DOMAIN P.durations /\ duration \in 1..Len(P.durations)
         /\ Len(P.durations) \in Nat
         /\ P.bins \in Nat /\ P.bins >= 2 /\ start \in Bins /\ start \in 0..(P.bins - 1)
         /\ Width \in 1..(P.bins - 1) /\ Width = DurationBins(P.durations[duration])
         /\ count \in 0..N /\ N \in Nat /\ count = Cardinality(Inside(start, Width))
         /\ sum \in Float
         /\ IsFinite(sum) => sum = SumFunctionOnSet(Values, Inside(start, Width))
         /\ NoOverflow => IsFinite(sum)
         /\ Inside(start, Width) \in SUBSET (1..N)
<1>1. /\ call \in Calls /\ build \in Builds /\ result = {} /\ Checked
      /\ DOMAIN scored = 0..(P.count - 1) /\ freq \in DOMAIN scored
      /\ bin \in [DOMAIN Values -> Bins]
      /\ duration \in DOMAIN P.durations /\ start \in Bins
      /\ Width \in 1..(P.bins - 1) /\ count \in 0..N /\ sum \in Float
  BY DEF BoxInv, CallInv, TypeOK
<1>2. /\ count = Cardinality(Inside(start, Width))
      /\ IsFinite(sum) => sum = SumFunctionOnSet(Values, Inside(start, Width))
      /\ NoOverflow => IsFinite(sum)
  BY DEF BoxInv, SlideInv, WindowExact
<1>3. /\ DOMAIN Values = 1..N /\ N \in Nat /\ P.bins \in Nat /\ P.bins >= 2
      /\ DOMAIN P.durations = 1..Len(P.durations) /\ Len(P.durations) \in Nat
      /\ freq \in Nat
  BY <1>1, ValidSeries, PayloadTypes DEF Checked
<1>4. Inside(start, Width) \in SUBSET (1..N)
  BY <1>1, <1>3 DEF Inside
<1>5. start \in 0..(P.bins - 1) /\ Width = DurationBins(P.durations[duration])
  BY <1>1 DEF Bins, Width
<1> QED
  BY <1>1, <1>2, <1>3, <1>4, <1>5

\* The next window's count and sum are its own.
LEMMA SlideWindow ==
  ASSUME BoxInv, Slide, start + 1 < P.bins
  PROVE  /\ count' = Cardinality(Inside(start + 1, Width)) /\ count' \in 0..N
         /\ sum' \in Float
         /\ IsFinite(sum') => sum' = SumFunctionOnSet(Values, Inside(start + 1, Width))
         /\ NoOverflow => IsFinite(sum')
<1> DEFINE E(S) == SumFunctionOnSet(Values, S)
           e == Entering
           A == InBin(e)
           L == InBin(start)
           I == Inside(start, Width)
           J == Inside(start + 1, Width)
<1>1. /\ phase = "slide"
      /\ count' = count + Cardinality(A) - Cardinality(L)
      /\ sum' = Plus(sum, Minus(Sum(A), Sum(L)))
  BY DEF Slide
<1>2. /\ call \in Calls /\ Checked /\ bin \in [1..N -> Bins] /\ start \in Bins
      /\ Width \in 1..(P.bins - 1) /\ N \in Nat /\ count = Cardinality(I) /\ sum \in Float
      /\ IsFinite(sum) => sum = E(I)
      /\ NoOverflow => IsFinite(sum)
  BY <1>1, Sliding
<1>3. e = (start + Width) % P.bins
  BY DEF Entering
<1> HIDE DEF e
<1>4. /\ L \in SUBSET (1..N) /\ A \in SUBSET ((1..N) \ L)
      /\ Cardinality(J) = Cardinality(I) + Cardinality(A) - Cardinality(L)
      /\ E(J) = E(I) + E(A) - E(L)
  BY <1>2, <1>3, WindowStep
<1>5. J \in SUBSET (1..N)
  BY <1>2 DEF Inside
<1>6. /\ IsFiniteSet(1..N) /\ Cardinality(1..N) = N /\ Values \in [1..N -> Int]
      /\ DOMAIN Values = 1..N /\ MaxFinite \in Nat
  BY <1>2, ValidSeries, FloatAssumption
<1>7. A \in SUBSET (1..N) /\ I \in SUBSET (1..N)
  BY <1>2, <1>4 DEF Inside
<1> HIDE DEF A, L, I, J
<1>8. count' = Cardinality(J) /\ count' \in 0..N
  <2>1. IsFiniteSet(J) /\ Cardinality(J) <= Cardinality(1..N)
    BY <1>5, <1>6, FS_Subset
  <2>2. Cardinality(J) \in Nat
    BY <2>1, FS_CardinalityType
  <2>3. Cardinality(J) \in 0..N
    BY <1>2, <1>6, <2>1, <2>2
  <2>4. count' = Cardinality(J)
    BY <1>1, <1>2, <1>4
  <2> QED
    BY <2>3, <2>4
<1>9. E(A) \in Int /\ E(L) \in Int /\ E(I) \in Int /\ E(J) \in Int
  BY <1>4, <1>5, <1>6, <1>7, ExactType
<1>10. /\ Sum(A) \in Float /\ Sum(L) \in Float
       /\ IsFinite(Sum(A)) => Sum(A) = E(A)
       /\ IsFinite(Sum(L)) => Sum(L) = E(L)
       /\ NoOverflow => IsFinite(Sum(A)) /\ IsFinite(Sum(L))
  BY <1>2, <1>4, <1>7, SumExact
<1> DEFINE m == Minus(Sum(A), Sum(L))
<1>11. m \in Float /\ (IsFinite(m) => Sum(A) \in Int /\ Sum(L) \in Int /\ m = Sum(A) - Sum(L))
  BY <1>10, PlusExact
<1>12. \A v \in Int : IsFinite(v)
  BY FloatAssumption DEF IsFinite
<1>13. IsFinite(m) => m = E(A) - E(L)
  BY <1>10, <1>11, <1>12
<1>14. sum' = Plus(sum, m)
  BY <1>1
<1> HIDE DEF E, m
<1>15. sum' \in Float /\ (IsFinite(sum') => sum \in Int /\ m \in Int /\ sum' = sum + m)
  BY <1>2, <1>11, <1>14, PlusExact
<1>16. IsFinite(sum') => sum' = E(J)
  <2> SUFFICES ASSUME IsFinite(sum') PROVE sum' = E(J)
    OBVIOUS
  <2>1. sum = E(I) /\ m = E(A) - E(L) /\ sum' = sum + m
    BY <1>2, <1>12, <1>13, <1>15
  <2> QED
    BY <1>4, <1>9, <2>1
<1>17. ASSUME NoOverflow PROVE IsFinite(sum')
  <2>1. sum = E(I) /\ Sum(A) = E(A) /\ Sum(L) = E(L)
    BY <1>2, <1>10, <1>17
  <2> DEFINE M == SumFunctionOnSet(Magnitudes(Values), 1..N)
  <2>2. M <= MaxFinite
    BY <1>6, <1>17 DEF NoOverflow, Magnitudes
  <2>3. PICK i \in Nat, j \in Nat : /\ -i <= E(L) /\ E(L) <= i /\ -j <= E(A) /\ E(A) <= j
                                    /\ i + j <= M /\ M \in Nat
    <3>1. M \in Nat /\ \E i, j \in Nat : /\ -i <= E(L) /\ E(L) <= i /\ -j <= E(A) /\ E(A) <= j
                                         /\ i + j <= M
      BY <1>4, <1>6, ExactBound DEF E
    <3> QED
      BY <3>1
  <2>4. PICK h \in Nat : -h <= E(J) /\ E(J) <= h /\ h <= M
    <3>1. \E x, y \in Nat : -x <= E(J) /\ E(J) <= x /\ x + y <= M
      <4>1. {} \in SUBSET ((1..N) \ J)
        OBVIOUS
      <4> QED
        BY <1>5, <1>6, <4>1, ExactBound DEF E
    <3> QED
      BY <2>3, <3>1
  <2> HIDE DEF M
  <2>5. m = E(A) - E(L)
    <3>1. -MaxFinite <= E(A) - E(L) /\ E(A) - E(L) <= MaxFinite
      BY <1>6, <1>9, <2>2, <2>3
    <3> QED
      BY <1>9, <2>1, <3>1, PlusFinite DEF m
  <2>6. E(I) + (E(A) - E(L)) = E(J) /\ E(A) - E(L) \in Int
    BY <1>4, <1>9
  <2>7. -MaxFinite <= E(J) /\ E(J) <= MaxFinite
    BY <1>6, <1>9, <2>2, <2>3, <2>4
  <2>8. sum' = Plus(E(I), E(A) - E(L))
    BY <1>14, <2>1, <2>5
  <2>9. sum' = E(J)
    BY <1>9, <2>6, <2>7, <2>8, PlusFinite
  <2> QED
    BY <1>9, <1>12, <2>9
<1> QED
  BY <1>8, <1>15, <1>16, <1>17 DEF E, J

\* What the loops are through with grows by the window at hand.
LEMMA SlidePassed ==
  ASSUME BoxInv, Slide
  PROVE  /\ \A c \in Candidates : Passed(c) => Passed(c)'
         /\ \A c : c.key[2] = duration /\ c.key[3] = start => Passed(c)'
         /\ \A c : c.key[2] \in Nat /\ c.key[3] \in 0..(P.bins - 1) /\ Passed(c)' =>
              Passed(c) \/ (c.key[2] = duration /\ c.key[3] = start)
<1>1. /\ phase = "slide" /\ start' = start + 1
      /\ IF start' < P.bins THEN phase' = phase /\ duration' = duration
         ELSE phase' = "window" /\ duration' = duration + 1
  BY DEF Slide
<1>2. duration \in Nat /\ start \in 0..(P.bins - 1) /\ P.bins \in Nat
  BY <1>1, Sliding
<1>3. \A c \in Candidates : c.key[2] \in Nat /\ c.key[3] \in Nat
  BY DEF Candidates
<1>4. CASE start + 1 < P.bins
  <2>1. /\ \A c : Passed(c)' <=> c.key[2] < duration \/ (c.key[2] = duration /\ c.key[3] < start + 1)
        /\ \A c : Passed(c) <=> c.key[2] < duration \/ (c.key[2] = duration /\ c.key[3] < start)
    BY <1>1, <1>4 DEF Passed
  <2> QED
    BY <1>2, <1>3, <2>1
<1>5. CASE ~(start + 1 < P.bins)
  <2>1. /\ \A c : Passed(c)' <=> c.key[2] < duration + 1
        /\ \A c : Passed(c) <=> c.key[2] < duration \/ (c.key[2] = duration /\ c.key[3] < start)
    BY <1>1, <1>5 DEF Passed
  <2>2. start + 1 = P.bins
    BY <1>2, <1>5
  <2> QED
    BY <1>2, <1>3, <2>1, <2>2
<1> QED
  BY <1>4, <1>5

\* Without overflow, the best so far becomes the best of one more window.
LEMMA SlideChoice ==
  ASSUME BoxInv, Slide, NoOverflow
  PROVE  Choice(best', {w \in Admissible : Passed(w)'})
<1> DEFINE I == Inside(start, Width)
           x == Candidate(sum, count, freq, duration, start)
           S == {w \in Admissible : Passed(w)}
           T == {w \in Admissible : Passed(w)'}
<1>1. /\ phase = "slide"
      /\ best' = IF Gated(count) /\ HasScore(sum, count) THEN Keep(best, x) ELSE best
  BY DEF Slide
<1>2. /\ call \in Calls /\ Checked /\ bin \in [1..N -> Bins] /\ freq \in Nat
      /\ duration \in DOMAIN P.durations /\ start \in Bins /\ start \in 0..(P.bins - 1)
      /\ Width = DurationBins(P.durations[duration])
      /\ count \in 0..N /\ N \in Nat /\ count = Cardinality(I)
      /\ sum = SumFunctionOnSet(Values, I) /\ I \in SUBSET (1..N)
      /\ duration \in Nat /\ start \in Nat /\ count \in Nat
  BY <1>1, Sliding
<1>3. \A w \in Admissible :
        /\ Fair(w) /\ w.key[1] = freq
        /\ w.key[2] \in Nat /\ w.key[3] \in 0..(P.bins - 1)
  BY <1>2, AdmissibleFair
<1>4. Choice(best, S)
  BY <1>1 DEF BoxInv, BestInv
<1>5. x = WindowAt(duration, start) /\ x \in Windows
  <2>1. x = WindowAt(duration, start)
    BY <1>2 DEF WindowAt
  <2> QED
    BY <1>2, <2>1, WindowKeys
<1>6. x.key = <<freq, duration, start>> /\ x.inside = count
  BY DEF Candidate
<1> HIDE DEF x
<1>7. x \in Admissible <=> Gated(count)
  BY <1>5, <1>6 DEF Admissible, Gated
<1>8. \A w \in Admissible : w.key[2] = duration /\ w.key[3] = start => w = x
  <2> SUFFICES ASSUME NEW w \in Admissible, w.key[2] = duration, w.key[3] = start
               PROVE  w = x
    OBVIOUS
  <2>1. PICK d \in DOMAIN P.durations, b \in Bins : w = WindowAt(d, b)
    BY WindowKeys DEF Admissible
  <2>2. w.key = <<freq, d, b>>
    BY <2>1, WindowKeys
  <2>3. d = duration /\ b = start
    BY <2>2
  <2> QED
    BY <1>5, <2>1, <2>3
<1>9. x.key[2] = duration /\ x.key[3] = start
  BY <1>6
<1>10. ~Passed(x)
  <2>1. ~(duration < duration) /\ ~(start < start)
    BY <1>2
  <2> QED
    BY <1>9, <2>1 DEF Passed
<1>11. T = IF x \in Admissible THEN S \cup {x} ELSE S
  <2>1. ASSUME NEW w \in Admissible PROVE Passed(w)' <=> Passed(w) \/ w = x
    <3>1. w \in Candidates
      BY <1>3 DEF Fair
    <3>2. Passed(w)' => Passed(w) \/ (w.key[2] = duration /\ w.key[3] = start)
      BY <1>3, SlidePassed
    <3>3. Passed(w) => Passed(w)'
      BY <3>1, SlidePassed
    <3>4. w = x => Passed(w)'
      BY <1>9, SlidePassed
    <3> QED
      BY <1>8, <3>2, <3>3, <3>4
  <2> QED
    BY <2>1
<1>12. CASE Gated(count)
  <2>1. HasScore(sum, count)
    BY <1>2, <1>12, ScoreExists DEF Gated
  <2>2. best' = Keep(best, x)
    BY <1>1, <1>12, <2>1
  <2>3. x \in Candidates /\ S \in SUBSET Candidates
    BY <1>3, <1>7, <1>12 DEF Fair
  <2>4. \A c \in S : c.key # x.key
    <3>1. \A c \in S : Passed(c) /\ c # x
      BY <1>10
    <3>2. \A c \in S : ~(c.key[2] = duration /\ c.key[3] = start)
      BY <1>8, <3>1
    <3> QED
      BY <1>9, <3>2
  <2> HIDE DEF S
  <2>5. Choice(Keep(best, x), S \cup {x})
    BY <1>4, <2>3, <2>4, KeepBest
  <2> QED
    BY <1>7, <1>11, <1>12, <2>2, <2>5
<1>13. CASE ~Gated(count)
  BY <1>1, <1>4, <1>7, <1>11, <1>13
<1> QED
  BY <1>12, <1>13

\* The best so far stays the fair candidate of one window.
LEMMA SlideFair ==
  ASSUME BoxInv, Slide
  PROVE  /\ \A c, e \in best' : c = e
         /\ \A c \in best' : Fair(c) /\ c.key[1] = freq /\ Passed(c)'
<1> DEFINE x == Candidate(sum, count, freq, duration, start)
<1>1. /\ phase = "slide"
      /\ best' = IF Gated(count) /\ HasScore(sum, count) THEN Keep(best, x) ELSE best
  BY DEF Slide
<1>2. /\ \A c, e \in best : c = e
      /\ \A c \in best : Fair(c) /\ c.key[1] = freq /\ Passed(c)
  BY <1>1 DEF BoxInv, BestInv
<1>3. \A c \in best : Passed(c)'
  BY <1>2, SlidePassed DEF Fair
<1>4. CASE Gated(count) /\ HasScore(sum, count)
  <2>1. /\ call \in Calls /\ Checked /\ sum \in Float /\ count \in 0..N /\ freq \in Nat
        /\ duration \in Nat /\ start \in Nat /\ count >= P.minIn /\ N - count >= P.minOut
    BY <1>1, <1>4, Sliding DEF Gated
  <2>2. Total \in Int /\ sum \in Int
    BY <1>4, <2>1, ScoredNumbers
  <2>3. Fair(x)
    BY <2>1, <2>2, CandidateFair
  <2>4. x.key = <<freq, duration, start>>
    BY DEF Candidate
  <2> HIDE DEF x
  <2>5. \A c : c = x => c.key[1] = freq /\ Passed(c)'
    <3>1. x.key[1] = freq /\ x.key[2] = duration /\ x.key[3] = start
      BY <2>4
    <3> QED
      BY <3>1, SlidePassed
  <2>6. best' = IF best = {} THEN {x} ELSE {SelectBetter(c, x) : c \in best}
    BY <1>1, <1>4 DEF Keep
  <2>7. \A c : SelectBetter(c, x) \in {c, x}
    BY DEF SelectBetter
  <2>8. CASE best = {}
    BY <2>3, <2>5, <2>6, <2>8
  <2>9. CASE best # {}
    <3>1. PICK c \in best : best = {c}
      BY <1>2, <2>9
    <3>2. best' = {SelectBetter(c, x)}
      BY <2>6, <3>1
    <3> QED
      BY <1>2, <1>3, <2>3, <2>5, <2>7, <3>1, <3>2
  <2> QED
    BY <2>8, <2>9
<1>5. CASE ~(Gated(count) /\ HasScore(sum, count))
  BY <1>1, <1>2, <1>3, <1>5
<1> QED
  BY <1>4, <1>5

\* A window is judged and moved.
LEMMA SlideKeeps == BoxInv /\ Slide => BoxInv'
<1> SUFFICES ASSUME BoxInv, Slide PROVE BoxInv'
  OBVIOUS
<1>1. /\ phase = "slide" /\ start' = start + 1
      /\ IF start' < P.bins THEN phase' = phase /\ duration' = duration
         ELSE phase' = "window" /\ duration' = duration + 1
      /\ UNCHANGED <<call, build, bin, freq, scored, result>>
  BY DEF Slide
<1>2. /\ call \in Calls /\ build \in Builds /\ result = {} /\ Checked
      /\ DOMAIN scored = 0..(P.count - 1) /\ freq \in DOMAIN scored
      /\ bin \in [DOMAIN Values -> Bins]
      /\ duration \in DOMAIN P.durations /\ duration \in 1..Len(P.durations)
      /\ Len(P.durations) \in Nat
      /\ P.bins \in Nat /\ start \in 0..(P.bins - 1) /\ Width \in 1..(P.bins - 1)
  BY <1>1, Sliding
<1>3. /\ Checked' /\ P' = P /\ Values' = Values /\ N' = N /\ Bins' = Bins
      /\ NoOverflow' = NoOverflow /\ Admissible' = Admissible
      /\ \A b, w : Inside(b, w)' = Inside(b, w)
      /\ \A c : Fair(c)' = Fair(c)
  BY <1>1, <1>2, SameCall, SameWindows
<1>4. phase' \in {"window", "slide"}
  BY <1>1
<1>5. phase' = "slide" => start + 1 < P.bins /\ duration' = duration /\ Width' = Width
  BY <1>1, <1>3 DEF Width, DurationBins
<1>6. CallInv'
  <2>1. duration' \in 1..(Len(P.durations) + 1)
    BY <1>1, <1>2
  <2>2. phase' = "slide" =>
          /\ duration' \in DOMAIN P.durations /\ start' \in Bins /\ Width' \in 1..(P.bins - 1)
          /\ count' \in 0..N /\ sum' \in Float
    <3>1. start + 1 < P.bins => start' \in Bins
      BY <1>1, <1>2 DEF Bins
    <3> QED
      BY <1>2, <1>5, <3>1, SlideWindow
  <2>3. TypeOK'
    BY <1>1, <1>2, <1>3, <1>4, <2>2 DEF TypeOK
  <2> QED
    BY <1>1, <1>2, <1>3, <1>4, <2>1, <2>3 DEF CallInv
<1>7. ScoredInv'
  BY <1>1, <1>4, KeepScored DEF BoxInv
<1>8. SlideInv'
  <2> SUFFICES ASSUME phase' = "slide"
               PROVE  /\ count' = Cardinality(Inside(start, Width)')
                      /\ IsFinite(sum') =>
                           sum' = SumFunctionOnSet(Values', Inside(start, Width)')
                      /\ NoOverflow' => IsFinite(sum')
    BY DEF SlideInv, WindowExact
  <2>1. Inside(start, Width)' = Inside(start + 1, Width)
    BY <1>1, <1>3, <1>5 DEF Inside, Circle
  <2> QED
    BY <1>3, <1>5, <2>1, SlideWindow
<1>9. BestInv'
  <2>1. /\ \A c, e \in best' : c = e
        /\ \A c \in best' : Fair(c) /\ c.key[1] = freq /\ Passed(c)'
    BY SlideFair
  <2>2. NoOverflow => Choice(best', {w \in Admissible : Passed(w)'})
    BY SlideChoice
  <2>3. NoOverflow' => Choice(best, {w \in Admissible : Passed(w)})'
    BY <1>3, <2>2 DEF Choice, IsBest, Above, Before
  <2> QED
    BY <1>1, <1>3, <1>4, <2>1, <2>3 DEF BestInv
<1>10. ResultBest'
  BY <1>1, <1>2 DEF ResultBest
<1> QED
  BY <1>6, <1>7, <1>8, <1>9, <1>10 DEF BoxInv

\* The candidates of one frequency more.
LEMMA BelowNext ==
  ASSUME NEW n \in Nat
  PROVE  Below(n + 1) = Below(n) \cup UNION scored[n]
<1>1. 0..((n + 1) - 1) = 0..(n - 1) \cup {n}
  OBVIOUS
<1>2. \A c, m : c \in Below(m) <=> \E f \in 0..(m - 1) : \E o \in scored[f] : c \in o
  BY DEF Below
<1>3. \A c : c \in Below(n + 1) <=> c \in Below(n) \cup UNION scored[n]
  BY <1>1, <1>2
<1> QED
  BY <1>3

\* One more frequency is reduced.
LEMMA ReduceKeeps == BoxInv /\ Reduce => BoxInv'
<1> SUFFICES ASSUME BoxInv, Reduce PROVE BoxInv'
  OBVIOUS
<1>1. /\ phase = "reduce" /\ freq < P.count /\ freq' = freq + 1
      /\ best' = IF scored[freq] = {{}} THEN best
                 ELSE CHOOSE b \in {Keep(best, c) : c \in UNION scored[freq]} : TRUE
      /\ UNCHANGED <<call, build, phase, bin, window, scored, result>>
  BY DEF Reduce
<1>2. /\ call \in Calls /\ build \in Builds /\ result = {} /\ Checked
      /\ DOMAIN scored = 0..(P.count - 1)
      /\ freq \in 0..P.count /\ Choice(best, Below(freq))
  BY <1>1 DEF BoxInv, CallInv, TypeOK, BestInv
<1>3. P' = P /\ Checked' /\ P.count \in Nat
  BY <1>1, <1>2, SameCall, PayloadTypes
<1>4. freq \in DOMAIN scored /\ freq \in Nat /\ freq + 1 \in 0..P.count
  BY <1>1, <1>2, <1>3
<1>5. /\ \A o, q \in scored[freq] : o = q
      /\ \A o \in scored[freq] : \A c, e \in o : c = e
      /\ \A o \in scored[freq] : \A c \in o : Fair(c) /\ c.key[1] = freq
      /\ scored[freq] # {}
  BY <1>1, <1>4 DEF BoxInv, ScoredInv
<1>6. PICK o \in scored[freq] : scored[freq] = {o}
  BY <1>5
<1>7. Below(freq + 1) = Below(freq) \cup o
  BY <1>4, <1>6, BelowNext
<1>8. \A c \in Below(freq) : c \in Candidates /\ c.key[1] \in 0..(freq - 1)
  <2> SUFFICES ASSUME NEW c \in Below(freq)
               PROVE  c \in Candidates /\ c.key[1] \in 0..(freq - 1)
    OBVIOUS
  <2>1. PICK f \in 0..(freq - 1) : \E q \in scored[f] : c \in q
    BY DEF Below
  <2>2. f \in DOMAIN scored
    BY <1>2, <1>3, <1>4
  <2> QED
    BY <2>1, <2>2 DEF BoxInv, ScoredInv, Fair
<1>9. Choice(best', Below(freq + 1))
  <2>1. CASE o = {}
    BY <1>1, <1>2, <1>6, <1>7, <2>1
  <2>2. CASE o # {}
    <3>1. PICK c \in o : o = {c}
      BY <1>5, <1>6, <2>2
    <3>2. scored[freq] # {{}} /\ UNION scored[freq] = {c}
      BY <1>6, <3>1
    <3>3. best' = Keep(best, c)
      BY <1>1, <3>2
    <3>4. c \in Candidates /\ c.key[1] = freq
      BY <1>5, <1>6, <3>1 DEF Fair
    <3>5. Below(freq) \in SUBSET Candidates /\ \A e \in Below(freq) : e.key # c.key
      BY <1>4, <1>8, <3>4
    <3> QED
      BY <1>2, <1>7, <3>1, <3>3, <3>4, <3>5, KeepBest
  <2> QED
    BY <2>1, <2>2
<1>10. CallInv'
  BY <1>1, <1>2, <1>3 DEF CallInv, TypeOK
<1>11. ScoredInv'
  BY <1>1, KeepScored DEF BoxInv, ScoredInv
<1>12. BestInv'
  <2>1. Choice(best, Below(freq))'
    BY <1>1, <1>9 DEF Choice, Below, IsBest, Above, Before
  <2> QED
    BY <1>1, <1>3, <1>4, <2>1 DEF BestInv
<1>13. SlideInv' /\ ResultBest'
  BY <1>1, <1>2 DEF SlideInv, WindowExact, ResultBest
<1> QED
  BY <1>10, <1>11, <1>12, <1>13 DEF BoxInv

\* The best of all frequencies becomes the result.
LEMMA FinishKeeps == BoxInv /\ Finish => BoxInv'
<1> SUFFICES ASSUME BoxInv, Finish PROVE BoxInv'
  OBVIOUS
<1>1. /\ phase = "reduce" /\ freq = P.count
      /\ UNCHANGED <<call, build, freq, window, best, scored>>
  BY DEF Finish
<1>2. /\ call \in Calls /\ build \in Builds
      /\ Checked /\ DOMAIN scored = 0..(P.count - 1) /\ Choice(best, Below(P.count))
  BY <1>1 DEF BoxInv, CallInv, TypeOK, BestInv
<1>3. P' = P /\ N' = N /\ P.count \in Nat /\ P.first \in Nat /\ Word \in Nat
  BY <1>1, <1>2, SameCall, PayloadTypes
<1>4. phase' = "done" /\ result' # {}
  BY DEF Finish, Return
<1>5. CallInv'
  BY <1>1, <1>2, <1>4 DEF CallInv, TypeOK
<1>6. ScoredInv'
  BY <1>1, <1>4, KeepScored DEF BoxInv
<1>7. SlideInv' /\ BestInv'
  BY <1>4 DEF SlideInv, WindowExact, BestInv
<1> DEFINE candidates == UNION UNION {scored[f] : f \in DOMAIN scored}
           Right(r) ==
             r.error = "none" =>
               /\ IsBest(r.candidate, candidates)
               /\ r.candidate.inside >= P.minIn /\ N - r.candidate.inside >= P.minOut
               /\ r.candidate.inside > 0 /\ r.candidate.inside < N
               /\ P.first + P.count <= Word =>
                    \E f \in DOMAIN scored : r.candidate \in UNION scored[f] /\ r.index = P.first + f
<1>8. candidates = Below(P.count)
  BY <1>2 DEF Below
<1>9. ASSUME NEW c \in best
      PROVE  /\ IsBest(c, candidates)
             /\ c.key[1] \in 0..(P.count - 1) /\ c \in UNION scored[c.key[1]]
             /\ c.inside >= P.minIn /\ N - c.inside >= P.minOut
             /\ c.inside > 0 /\ c.inside < N
  <2>1. c \in Below(P.count) /\ IsBest(c, Below(P.count))
    BY <1>2 DEF Choice
  <2>2. PICK f \in 0..(P.count - 1) : \E o \in scored[f] : c \in o
    BY <2>1 DEF Below
  <2>3. Fair(c) /\ c.key[1] = f
    BY <1>2, <2>2 DEF BoxInv, ScoredInv
  <2>4. /\ c.inside \in Nat /\ N \in Nat
        /\ P.minIn \in Nat /\ P.minOut \in Nat /\ P.minIn >= 1 /\ P.minOut >= 1
    BY <1>2, <2>3, PayloadTypes, ValidSeries DEF Fair, Candidates, Checked
  <2>5. c.inside >= P.minIn /\ N - c.inside >= P.minOut
    BY <2>3 DEF Fair
  <2>6. c.inside > 0 /\ c.inside < N
    BY <2>4, <2>5
  <2>7. IsBest(c, candidates)
    BY <1>8, <2>1
  <2> QED
    BY <2>2, <2>3, <2>5, <2>6, <2>7
<1> HIDE DEF candidates
<1>10. ASSUME NEW r \in result' PROVE Right(r)
  <2>1. CASE best = {} /\ Return(Err("NoValidWindow"))
    BY <1>10, <2>1 DEF Return, Err
  <2>2. ASSUME NEW c \in best, Add(P.first, c.key[1]) = {} /\ Return(Err("panic"))
        PROVE  Right(r)
    BY <1>10, <2>2 DEF Return, Err
  <2>3. ASSUME NEW c \in best, NEW index \in Add(P.first, c.key[1]),
               Return([error |-> "none", index |-> index, candidate |-> c])
        PROVE  Right(r)
    <3>1. r.index = index /\ r.candidate = c
      BY <1>10, <2>3 DEF Return
    <3>2. P.first + P.count <= Word =>
            \E f \in DOMAIN scored : c \in UNION scored[f] /\ index = P.first + f
      <4> SUFFICES ASSUME P.first + P.count <= Word
                   PROVE  \E f \in DOMAIN scored : c \in UNION scored[f] /\ index = P.first + f
        OBVIOUS
      <4>1. PICK k \in 0..(P.count - 1) : k = c.key[1] /\ c \in UNION scored[k]
        BY <1>9
      <4>2. P.first + k < Word
        BY <1>3, <4>1
      <4>3. index = P.first + k
        BY <2>3, <4>1, <4>2 DEF Add
      <4> QED
        BY <1>2, <4>1, <4>3
    <3> QED
      BY <1>9, <3>1, <3>2
  <2> QED
    BY <2>1, <2>2, <2>3 DEF Finish
<1>11. ResultBest'
  <2>1. \A r \in result' : Right(r)
    BY <1>10
  <2> QED
    BY <1>1, <1>3, <2>1 DEF ResultBest, IsBest, Above, Before, candidates
<1> QED
  BY <1>5, <1>6, <1>7, <1>11 DEF BoxInv

\* Nothing else changes what the invariant is about.
LEMMA StutterKeeps == BoxInv /\ UNCHANGED vars => BoxInv'
<1> SUFFICES ASSUME BoxInv, UNCHANGED vars PROVE BoxInv'
  OBVIOUS
<1>1. UNCHANGED <<call, build, phase, bin, freq, duration, start, count, sum, best, scored, result>>
  BY DEF vars
<1>2. /\ Checked' = Checked /\ P' = P /\ Values' = Values /\ N' = N /\ Bins' = Bins
      /\ NoOverflow' = NoOverflow /\ Admissible' = Admissible
      /\ \A b, w : Inside(b, w)' = Inside(b, w)
      /\ \A c : Fair(c)' = Fair(c)
  BY <1>1, SameCall, SameWindows
<1>3. Width' = Width /\ \A c : Passed(c)' = Passed(c)
  BY <1>1, <1>2 DEF Width, DurationBins, Passed
<1>4. CallInv'
  BY <1>1, <1>2, <1>3 DEF BoxInv, CallInv, TypeOK
<1>5. ScoredInv'
  BY <1>1, KeepScored DEF BoxInv, ScoredInv
<1>6. SlideInv'
  <2>1. Inside(start, Width)' = Inside(start, Width)
    BY <1>1, <1>2, <1>3 DEF Inside, Circle
  <2> QED
    BY <1>1, <1>2, <2>1 DEF BoxInv, SlideInv, WindowExact
<1>7. BestInv'
  <2>1. Choice(best, {w \in Admissible : Passed(w)})' = Choice(best, {w \in Admissible : Passed(w)})
    BY <1>1, <1>2, <1>3 DEF Choice, IsBest, Above, Before
  <2>2. Choice(best, Below(freq))' = Choice(best, Below(freq))
    BY <1>1 DEF Choice, Below, IsBest, Above, Before
  <2> QED
    BY <1>1, <1>2, <1>3, <2>1, <2>2 DEF BoxInv, BestInv
<1>8. ResultBest'
  BY <1>1, <1>2 DEF BoxInv, ResultBest, IsBest, Above, Before
<1> QED
  BY <1>4, <1>5, <1>6, <1>7, <1>8 DEF BoxInv

LEMMA NextKeeps == BoxInv /\ [Next]_vars => BoxInv'
<1> SUFFICES ASSUME BoxInv, [Next]_vars PROVE BoxInv'
  OBVIOUS
<1>1. CASE Validate
  BY <1>1, ValidateKeeps
<1>2. CASE \E f \in DOMAIN scored : Fold(f)
  BY <1>2, FoldKeeps
<1>3. CASE Open
  BY <1>3, OpenKeeps
<1>4. CASE Slide
  BY <1>4, SlideKeeps
<1>5. CASE Scored
  BY <1>5, ScoredKeeps
<1>6. CASE Reduce
  BY <1>6, ReduceKeeps
<1>7. CASE Finish
  BY <1>7, FinishKeeps
<1>8. CASE Finished \/ UNCHANGED vars
  BY <1>8, StutterKeeps DEF Finished
<1> QED
  BY <1>1, <1>2, <1>3, <1>4, <1>5, <1>6, <1>7, <1>8 DEF Next

-----------------------------------------------------------------------------
(* The theorems. *)

\* The strengthening of the invariants holds in every state.
THEOREM BoxInvariant == Spec => []BoxInv
<1> QED
  BY InitBoxInv, NextKeeps, PTL DEF Spec

\* Type correctness: every sample is in a bin, every window leaves a bin outside.
THEOREM BoxTypeCorrect == Spec => []TypeOK
<1>1. BoxInv => TypeOK
  BY DEF BoxInv, CallInv
<1> QED
  BY <1>1, BoxInvariant, PTL

\* However often the window was moved, across the end of the bins too, its count and
\* its sum are those of the samples that are inside it.
THEOREM WindowsExact == Spec => []WindowExact
<1>1. BoxInv => WindowExact
  BY DEF BoxInv, SlideInv
<1> QED
  BY <1>1, BoxInvariant, PTL

\* The candidate that score_frequency returns is the best of all the frequency's windows
\* that satisfy the gates.
THEOREM FrequencyBestKept == Spec => []FrequencyBest
<1>1. BoxInv => FrequencyBest
  <2> SUFFICES ASSUME BoxInv, phase = "window", duration > Len(P.durations), NoOverflow
               PROVE  /\ best = {} <=> Admissible = {}
                      /\ \A c \in best : IsBest(c, Admissible)
    BY DEF FrequencyBest
  <2>1. /\ call \in Calls /\ Checked /\ bin \in [DOMAIN Values -> Bins]
        /\ freq \in DOMAIN scored /\ DOMAIN scored = 0..(P.count - 1)
        /\ duration \in 1..(Len(P.durations) + 1)
        /\ Choice(best, {w \in Admissible : Passed(w)})
    BY DEF BoxInv, CallInv, TypeOK, BestInv
  <2>2. freq \in Nat /\ DOMAIN Values = 1..N /\ DOMAIN P.durations = 1..Len(P.durations)
        /\ Len(P.durations) \in Nat
    BY <2>1, PayloadTypes, ValidSeries
  <2>3. \A w \in Admissible : w.key[2] \in DOMAIN P.durations
    BY <2>1, <2>2, AdmissibleFair
  <2>4. \A w \in Admissible : Passed(w)
    BY <2>1, <2>2, <2>3 DEF Passed
  <2>5. {w \in Admissible : Passed(w)} = Admissible
    BY <2>4
  <2>6. Choice(best, Admissible)
    BY <2>1, <2>5
  <2> QED
    BY <2>6 DEF Choice
<1> QED
  BY <1>1, BoxInvariant, PTL

\* The result is the best candidate of all frequencies, in whatever order the threads
\* scored them; it satisfies the gates, and its index is one of the payload's.
THEOREM BestResult == Spec => []ResultBest
<1>1. BoxInv => ResultBest
  BY DEF BoxInv
<1> QED
  BY <1>1, BoxInvariant, PTL
=============================================================================
