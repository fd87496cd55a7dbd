----------------------------- MODULE SlsLemmas -----------------------------
(***************************************************************************)
(* Facts about the operators the models are built from, which the proofs   *)
(* of several components need: sums, sequences and the strings of an       *)
(* endpoint.                                                               *)
(*                                                                         *)
(* The folds SumFunction and FoldLeft are both MapThenFoldSet: a function  *)
(* on the subsets of a domain, defined by what is left when one element is *)
(* taken out. That such a function exists, and each fact about it, is      *)
(* shown by induction over a set, of numbers or of subsets: a rule with a  *)
(* predicate as parameter could not be used.                               *)
(***************************************************************************)
EXTENDS SlsEndpoint, FiniteSetTheorems, SequenceTheorems, NaturalsInduction, TLAPS

-----------------------------------------------------------------------------
(* Induction.                                                              *)

\* A set of natural numbers has a least element. Statements about every natural
\* number are proved from it.
LEMMA Least ==
  ASSUME NEW T \in SUBSET Nat, T # {}
  PROVE  \E n \in T : \A m \in T : n <= m
<1>1. PICK n \in T : \A m \in T : <<m, n>> \notin OpToRel(<, Nat)
  BY WFMin, NatLessThanWellFounded, Zenon
<1>2. \A m \in T : ~(m < n)
  BY <1>1, Zenon DEF OpToRel
<1>3. T \subseteq Nat
  OBVIOUS
<1> QED
  BY <1>2, <1>3

\* A set of numbers that holds 0 and each successor holds every number.
LEMMA NatSetInduction ==
  ASSUME NEW G \in SUBSET Nat, 0 \in G, \A n \in G : n + 1 \in G
  PROVE  G = Nat
<1> SUFFICES ASSUME Nat \ G # {} PROVE FALSE
  OBVIOUS
<1>1. PICK n \in Nat \ G : \A m \in Nat \ G : n <= m
  BY Least
<1>2. n - 1 \in Nat /\ n - 1 \in G /\ (n - 1) + 1 = n
  BY <1>1
<1> QED
  BY <1>1, <1>2

-----------------------------------------------------------------------------
(* Functions defined step by step.                                         *)

\* f starts with start, and each value is made of the one before it.
BySteps(f, top, start, step) ==
  f[0] = start /\ \A n \in 1 .. top : f[n] = step[<<n, f[n - 1]>>]

\* There is such a function.
LEMMA StepRecursion ==
  ASSUME NEW X, NEW top \in Nat, NEW start \in X, NEW step \in [(1 .. top) \X X -> X]
  PROVE  \E f \in [0 .. top -> X] : BySteps(f, top, start, step)
<1> DEFINE Solved(t) == \E f \in [0 .. t -> X] : BySteps(f, t, start, step)
           G == {t \in Nat : t <= top => Solved(t)}
<1>1. 0 \in G
  <2> DEFINE f == [n \in 0 .. 0 |-> start]
  <2>1. f \in [0 .. 0 -> X] /\ BySteps(f, 0, start, step)
    BY DEF BySteps
  <2> QED
    BY <2>1
<1>2. ASSUME NEW t \in G PROVE t + 1 \in G
  <2> SUFFICES ASSUME t + 1 <= top PROVE Solved(t + 1)
    <3> HIDE DEF Solved
    <3> QED
      OBVIOUS
  <2>1. t \in Nat /\ t <= top /\ t + 1 \in 1 .. top
    OBVIOUS
  <2>2. PICK f \in [0 .. t -> X] : BySteps(f, t, start, step)
    BY <2>1
  <2> DEFINE last == step[<<t + 1, f[t]>>]
             more == [n \in 0 .. t + 1 |-> IF n = t + 1 THEN last ELSE f[n]]
  <2>3. f[t] \in X /\ last \in X
    BY <2>1
  <2> HIDE DEF last
  <2>4. more \in [0 .. t + 1 -> X]
    BY <2>1, <2>3
  <2>5. (\A n \in 0 .. t : more[n] = f[n]) /\ more[t + 1] = last
    BY <2>1
  <2> HIDE DEF more
  <2>6. more[0] = start
    BY <2>1, <2>2, <2>5 DEF BySteps
  <2>7. ASSUME NEW n \in 1 .. t + 1 PROVE more[n] = step[<<n, more[n - 1]>>]
    <3>1. CASE n = t + 1
      <4>1. n - 1 = t /\ more[n - 1] = f[t]
        BY <2>1, <2>5, <3>1
      <4> QED
        BY <2>5, <3>1, <4>1 DEF last
    <3>2. CASE n # t + 1
      <4>1. n \in 1 .. t /\ more[n] = f[n] /\ more[n - 1] = f[n - 1]
        BY <2>1, <2>5, <3>2
      <4> QED
        BY <2>2, <4>1 DEF BySteps
    <3> QED
      BY <3>1, <3>2
  <2>8. BySteps(more, t + 1, start, step)
    BY <2>6, <2>7 DEF BySteps
  <2> QED
    BY <2>4, <2>8
<1>3. G = Nat
  <2> HIDE DEF Solved
  <2>1. G \in SUBSET Nat
    OBVIOUS
  <2> HIDE DEF G
  <2> QED
    BY <1>1, <1>2, <2>1, NatSetInduction
<1> QED
  BY <1>3

\* There is only one.
LEMMA StepsUnique ==
  ASSUME NEW X, NEW top \in Nat, NEW start, NEW step, NEW f, NEW g,
         f \in [0 .. top -> X], BySteps(f, top, start, step),
         g[0] = f[0], \A n \in 1 .. top : g[n - 1] \in X => g[n] = step[<<n, g[n - 1]>>]
  PROVE  \A n \in 0 .. top : g[n] = f[n] /\ g[n] \in X
<1> DEFINE G == {n \in Nat : n <= top => g[n] = f[n]}
<1>1. 0 \in G
  BY DEF BySteps
<1>2. ASSUME NEW n \in G PROVE n + 1 \in G
  <2> SUFFICES ASSUME n + 1 <= top PROVE g[n + 1] = f[n + 1]
    OBVIOUS
  <2>1. n \in 0 .. top /\ n + 1 \in 1 .. top /\ (n + 1) - 1 = n
    OBVIOUS
  <2>2. g[n] = f[n] /\ f[n] \in X
    BY <2>1
  <2> QED
    BY <2>1, <2>2 DEF BySteps
<1>3. G = Nat
  <2>1. G \in SUBSET Nat
    OBVIOUS
  <2> HIDE DEF G
  <2> QED
    BY <1>1, <1>2, <2>1, NatSetInduction
<1> QED
  BY <1>3

-----------------------------------------------------------------------------
(* The equation of a sum.                                                  *)

\* iter computes, over the subsets of S, the sum of g, which pick takes apart. (The
\* folds add in either order, which is the same once the values are known to be
\* integers.)
IsSum(iter, S, g, pick) ==
  \A s \in SUBSET S :
    IF s = {} THEN iter[s] = 0
    ELSE iter[s \ {pick[s]}] \in Int => iter[s] = g[pick[s]] + iter[s \ {pick[s]}]

\* pick takes an element of each subset that has one.
Picks(pick, S) == \A s \in SUBSET S : s # {} => pick[s] \in s

\* What is left of a set is smaller.
LEMMA SmallerRest ==
  ASSUME NEW S, IsFiniteSet(S), NEW s \in SUBSET S, NEW x \in s
  PROVE  /\ IsFiniteSet(s) /\ Cardinality(s) \in Nat
         /\ s \ {x} \in SUBSET S
         /\ Cardinality(s \ {x}) \in Nat /\ Cardinality(s \ {x}) < Cardinality(s)
<1>1. IsFiniteSet(s)
  BY FS_Subset
<1>2. Cardinality(s) \in Nat
  BY <1>1, FS_CardinalityType
<1>3. IsFiniteSet(s \ {x}) /\ Cardinality(s \ {x}) = Cardinality(s) - 1
  BY <1>1, FS_RemoveElement
<1>4. Cardinality(s \ {x}) \in Nat
  BY <1>3, FS_CardinalityType
<1> QED
  BY <1>1, <1>2, <1>3, <1>4

\* A set of subsets that holds each one when it holds the smaller ones holds all.
LEMMA SubsetInduction ==
  ASSUME NEW S, IsFiniteSet(S), NEW G \in SUBSET (SUBSET S),
         \A s \in SUBSET S :
           (\A r \in SUBSET S : Cardinality(r) < Cardinality(s) => r \in G) => s \in G
  PROVE  G = SUBSET S
<1> DEFINE Bad == {n \in Nat : \E s \in SUBSET S : Cardinality(s) = n /\ s \notin G}
<1>1. \A s \in SUBSET S : Cardinality(s) \in Nat
  BY FS_Subset, FS_CardinalityType
<1>2. Bad = {}
  <2> SUFFICES ASSUME Bad # {} PROVE FALSE
    OBVIOUS
  <2>1. PICK n \in Bad : \A m \in Bad : n <= m
    BY Least
  <2>2. PICK s \in SUBSET S : Cardinality(s) = n /\ s \notin G
    BY <2>1
  <2>3. \A r \in SUBSET S : Cardinality(r) < n => r \in G
    BY <1>1, <2>1
  <2> QED
    BY <2>2, <2>3
<1> QED
  BY <1>1, <1>2

\* The equation of a fold that adds up g.
Adds(iter, S, g, pick) ==
  \A s \in SUBSET S : iter[s] = IF s = {} THEN 0 ELSE g[pick[s]] + iter[s \ {pick[s]}]

\* There is a function that satisfies it.
LEMMA SumExists ==
  ASSUME NEW S, IsFiniteSet(S), NEW g \in [S -> Int], NEW pick, Picks(pick, S)
  PROVE  \E iter \in [SUBSET S -> Int] : Adds(iter, S, g, pick)
<1> DEFINE Small(n) == {s \in SUBSET S : Cardinality(s) <= n}
           Value(h, s) == IF s = {} THEN 0 ELSE g[pick[s]] + h[s \ {pick[s]}]
           Solves(h, n) == h \in [Small(n) -> Int] /\ \A s \in Small(n) : h[s] = Value(h, s)
           Good == {n \in Nat : \E h : Solves(h, n)}
<1>1. \A s \in SUBSET S : IsFiniteSet(s) /\ Cardinality(s) \in Nat /\ Cardinality(s) <= Cardinality(S)
  BY FS_Subset, FS_CardinalityType
<1>2. \A s \in SUBSET S : s # {} =>
        /\ pick[s] \in s /\ g[pick[s]] \in Int
        /\ s \ {pick[s]} \in SUBSET S
        /\ Cardinality(s \ {pick[s]}) \in Nat /\ Cardinality(s \ {pick[s]}) < Cardinality(s)
  BY SmallerRest DEF Picks
<1>3. \E h : Solves(h, 0)
  <2>1. \A s \in Small(0) : s = {}
    BY <1>1, FS_EmptySet
  <2>2. Solves([s \in Small(0) |-> 0], 0)
    BY <2>1
  <2> QED
    BY <2>2
<1>4. ASSUME NEW n \in Nat, NEW h, Solves(h, n)
      PROVE  \E k : Solves(k, n + 1)
  <2> DEFINE k == [s \in Small(n + 1) |-> Value(h, s)]
  <2>1. \A s \in Small(n + 1) : s # {} => s \ {pick[s]} \in Small(n)
    BY <1>1, <1>2
  <2>2. \A s \in Small(n + 1) : Value(h, s) \in Int
    BY <1>2, <1>4, <2>1
  <2>3. \A s \in Small(n) : s \in Small(n + 1) /\ k[s] = h[s]
    BY <1>1, <1>4
  <2>4. \A s \in Small(n + 1) : k[s] = Value(k, s)
    BY <2>1, <2>3
  <2>5. Solves(k, n + 1)
    BY <2>2, <2>4
  <2> QED
    BY <2>5
<1>5. Good = Nat
  <2> HIDE DEF Solves
  <2>1. 0 \in Good
    BY <1>3
  <2>2. \A n \in Good : n + 1 \in Good
    BY <1>4
  <2> QED
    BY <2>1, <2>2, NatSetInduction
<1>6. Cardinality(S) \in Nat /\ Small(Cardinality(S)) = SUBSET S
  BY <1>1, FS_CardinalityType
<1>7. PICK h : Solves(h, Cardinality(S))
  BY <1>5, <1>6
<1> QED
  BY <1>6, <1>7 DEF Adds

\* Its values are integers, and it moves with g: when two functions differ at most
\* at c, their sums differ by that, over the sets c is in.
LEMMA SumMoves ==
  ASSUME NEW S, IsFiniteSet(S), NEW pick, Picks(pick, S),
         NEW f \in [S -> Int], NEW g \in [S -> Int], NEW c \in S,
         \A x \in S : x # c => g[x] = f[x],
         NEW h, IsSum(h, S, f, pick), NEW k, IsSum(k, S, g, pick)
  PROVE  \A s \in SUBSET S :
           /\ h[s] \in Int /\ k[s] \in Int
           /\ k[s] = h[s] + (IF c \in s THEN g[c] - f[c] ELSE 0)
<1> DEFINE Differ(s) == IF c \in s THEN g[c] - f[c] ELSE 0
           Right(s)  == h[s] \in Int /\ k[s] \in Int /\ k[s] = h[s] + Differ(s)
           Good      == {s \in SUBSET S : Right(s)}
<1>1. ASSUME NEW s \in SUBSET S,
             \A r \in SUBSET S : Cardinality(r) < Cardinality(s) => r \in Good
      PROVE  Right(s)
  <2>1. CASE s = {}
    <3>1. h[s] = 0 /\ k[s] = 0
      BY <2>1 DEF IsSum
    <3>2. Differ(s) = 0
      BY <2>1
    <3> QED
      BY <3>1, <3>2
  <2>2. CASE s # {}
    <3> DEFINE x == pick[s]
               r == s \ {x}
    <3>1. x \in s /\ r \in SUBSET S /\ Cardinality(r) < Cardinality(s)
      BY <2>2, SmallerRest DEF Picks
    <3>2. h[r] \in Int /\ k[r] \in Int /\ k[r] = h[r] + Differ(r)
      BY <1>1, <3>1
    <3>3. h[s] = f[x] + h[r] /\ k[s] = g[x] + k[r]
      BY <2>2, <3>2 DEF IsSum
    <3>4. f[x] \in Int /\ g[x] \in Int /\ f[c] \in Int /\ g[c] \in Int
      BY <3>1
    <3> HIDE DEF x
    <3>5. CASE x = c
      BY <3>1, <3>2, <3>3, <3>4, <3>5
    <3>6. CASE x # c
      BY <3>1, <3>2, <3>3, <3>4, <3>6
    <3> QED
      BY <3>5, <3>6
  <2> QED
    BY <2>1, <2>2
<1>2. Good = SUBSET S
  <2> HIDE DEF Right
  <2>1. \A s \in SUBSET S :
          (\A r \in SUBSET S : Cardinality(r) < Cardinality(s) => r \in Good) => s \in Good
    BY <1>1
  <2>2. Good \in SUBSET (SUBSET S)
    OBVIOUS
  <2> HIDE DEF Good
  <2> QED
    BY <2>1, <2>2, SubsetInduction
<1> QED
  BY <1>2

\* A sum of natural numbers is one.
LEMMA SumOfNats ==
  ASSUME NEW S, IsFiniteSet(S), NEW pick, Picks(pick, S), NEW f, \A x \in S : f[x] \in Nat,
         NEW h, IsSum(h, S, f, pick)
  PROVE  \A s \in SUBSET S : h[s] \in Nat
<1> DEFINE Good == {s \in SUBSET S : h[s] \in Nat}
<1>1. ASSUME NEW s \in SUBSET S,
             \A r \in SUBSET S : Cardinality(r) < Cardinality(s) => r \in Good
      PROVE  s \in Good
  <2>1. CASE s = {}
    <3>1. h[s] = 0
      BY <2>1 DEF IsSum
    <3> QED
      BY <3>1
  <2>2. CASE s # {}
    <3>1. pick[s] \in s /\ s \ {pick[s]} \in Good
      BY <1>1, <2>2, SmallerRest DEF Picks
    <3>2. h[s] = f[pick[s]] + h[s \ {pick[s]}]
      BY <2>2, <3>1 DEF IsSum
    <3> QED
      BY <3>1, <3>2
  <2> QED
    BY <2>1, <2>2
<1>2. Good \in SUBSET (SUBSET S)
  OBVIOUS
<1>3. Good = SUBSET S
  <2> HIDE DEF Good
  <2> QED
    BY <1>1, <1>2, SubsetInduction
<1> QED
  BY <1>3

\* A sum of zeros is zero.
LEMMA SumOfZeros ==
  ASSUME NEW S, IsFiniteSet(S), NEW pick, Picks(pick, S), NEW f, \A x \in S : f[x] = 0,
         NEW h, IsSum(h, S, f, pick)
  PROVE  \A s \in SUBSET S : h[s] = 0
<1> DEFINE Good == {s \in SUBSET S : h[s] = 0}
<1>1. ASSUME NEW s \in SUBSET S,
             \A r \in SUBSET S : Cardinality(r) < Cardinality(s) => r \in Good
      PROVE  s \in Good
  <2>1. CASE s = {}
    BY <2>1 DEF IsSum
  <2>2. CASE s # {}
    <3>1. pick[s] \in s /\ s \ {pick[s]} \in Good
      BY <1>1, <2>2, SmallerRest DEF Picks
    <3>2. h[s] = f[pick[s]] + h[s \ {pick[s]}]
      BY <2>2, <3>1 DEF IsSum
    <3> QED
      BY <3>1, <3>2
  <2> QED
    BY <2>1, <2>2
<1>2. Good \in SUBSET (SUBSET S)
  OBVIOUS
<1>3. Good = SUBSET S
  <2> HIDE DEF Good
  <2> QED
    BY <1>1, <1>2, SubsetInduction
<1> QED
  BY <1>3

-----------------------------------------------------------------------------
(* SumFunction.                                                            *)

\* The choice SumFunction makes.
Chosen(S) == [s \in SUBSET S |-> CHOOSE x \in s : TRUE]

LEMMA ChosenPicks == ASSUME NEW S PROVE Picks(Chosen(S), S)
BY DEF Picks, Chosen

\* SumFunction is a solution of the equation, taken at the whole domain.
LEMMA SumFunctionSolves ==
  ASSUME NEW S, IsFiniteSet(S), NEW f \in [S -> Int]
  PROVE  \E h : IsSum(h, S, f, Chosen(S)) /\ SumFunction(f) = h[S]
<1> DEFINE Eq(h) == h = [s \in SUBSET S |->
                           IF s = {} THEN 0
                           ELSE f[CHOOSE x \in s : TRUE] + h[s \ {CHOOSE x \in s : TRUE}]]
<1>1. SumFunction(f) = (CHOOSE h : Eq(h))[S]
  <2>1. DOMAIN f = S
    OBVIOUS
  <2> QED
    BY <2>1 DEF SumFunction, SumFunctionOnSet, FoldFunctionOnSet, MapThenFoldSet
<1>2. PICK iter \in [SUBSET S -> Int] : Adds(iter, S, f, Chosen(S))
  BY SumExists, ChosenPicks
<1>3. Eq(iter)
  BY <1>2 DEF Adds, Chosen
<1>4. Eq(CHOOSE h : Eq(h))
  BY <1>3
<1>5. \A h : Eq(h) => IsSum(h, S, f, Chosen(S))
  BY DEF IsSum, Chosen
<1> QED
  BY <1>1, <1>4, <1>5

\* Changing one summand changes the sum by as much.
LEMMA SumUpdate ==
  ASSUME NEW S, IsFiniteSet(S), NEW f \in [S -> Int], NEW g \in [S -> Int], NEW c \in S,
         \A x \in S : x # c => g[x] = f[x]
  PROVE  /\ SumFunction(f) \in Int /\ SumFunction(g) \in Int
         /\ SumFunction(g) = SumFunction(f) + (g[c] - f[c])
<1>1. PICK h : IsSum(h, S, f, Chosen(S)) /\ SumFunction(f) = h[S]
  BY SumFunctionSolves
<1>2. PICK k : IsSum(k, S, g, Chosen(S)) /\ SumFunction(g) = k[S]
  BY SumFunctionSolves
<1>3. h[S] \in Int /\ k[S] \in Int /\ k[S] = h[S] + (g[c] - f[c])
  BY <1>1, <1>2, ChosenPicks, SumMoves
<1> QED
  BY <1>1, <1>2, <1>3

LEMMA SumZero ==
  ASSUME NEW S, IsFiniteSet(S), NEW f \in [S -> Int], \A x \in S : f[x] = 0
  PROVE  SumFunction(f) = 0
<1>1. PICK h : IsSum(h, S, f, Chosen(S)) /\ SumFunction(f) = h[S]
  BY SumFunctionSolves
<1> QED
  BY <1>1, ChosenPicks, SumOfZeros

-----------------------------------------------------------------------------
(* Folds from the left over a sequence.                                    *)

\* The choice FoldLeft makes.
Latest(S) == [s \in SUBSET S |-> Max(s)]

LEMMA LatestIs ==
  ASSUME NEW n \in Nat, NEW s \in SUBSET (1 .. n), s # {}
  PROVE  Max(s) \in s /\ \A x \in s : Max(s) >= x
<1>1. \E x \in s : \A y \in s : x >= y
  <2> DEFINE T == {m \in Nat : \A y \in s : m >= y}
  <2>1. n \in T
    OBVIOUS
  <2>2. PICK m \in T : \A k \in T : m <= k
    <3> HIDE DEF T
    <3>1. T \in SUBSET Nat
      BY DEF T
    <3> QED
      BY <2>1, <3>1, Least
  <2>3. m \in s
    <3> SUFFICES ASSUME m \notin s PROVE FALSE
      OBVIOUS
    <3>1. PICK y \in s : TRUE
      OBVIOUS
    <3>2. m >= 1 /\ m - 1 \in Nat
      BY <2>2, <3>1
    <3>3. m - 1 \in T
      BY <2>2, <3>2
    <3> QED
      BY <2>2, <3>2, <3>3
  <2> QED
    BY <2>2, <2>3
<1> QED
  BY <1>1 DEF Max

LEMMA LatestPicks == ASSUME NEW n \in Nat PROVE Picks(Latest(1 .. n), 1 .. n)
BY LatestIs DEF Picks, Latest

\* The latest of an interval is its end.
LEMMA LatestOfInterval ==
  ASSUME NEW n \in Nat, NEW m \in 1 .. n
  PROVE  /\ 1 .. m \in SUBSET (1 .. n) /\ 1 .. m # {}
         /\ Latest(1 .. n)[1 .. m] = m /\ (1 .. m) \ {m} = 1 .. m - 1
<1>1. 1 .. m \in SUBSET (1 .. n) /\ m \in 1 .. m
  OBVIOUS
<1>2. Max(1 .. m) \in 1 .. m /\ Max(1 .. m) >= m
  BY <1>1, LatestIs
<1> QED
  BY <1>1, <1>2 DEF Latest

\* The sum up to a position is the one up to the position before and one more.
LEMMA SumStep ==
  ASSUME NEW n \in Nat, NEW f, NEW h, IsSum(h, 1 .. n, f, Latest(1 .. n)),
         NEW i \in 1 .. n, h[1 .. i - 1] \in Int
  PROVE  h[1 .. i] = f[i] + h[1 .. i - 1]
<1> DEFINE s == 1 .. i
           p == Latest(1 .. n)
<1>1. s \in SUBSET (1 .. n) /\ s # {} /\ p[s] = i /\ s \ {i} = 1 .. i - 1
  BY LatestOfInterval
<1>2. h[s \ {p[s]}] \in Int => h[s] = f[p[s]] + h[s \ {p[s]}]
  <2> HIDE DEF s, p
  <2> QED
    BY <1>1 DEF IsSum, p
<1> HIDE DEF s, p
<1>3. h[s] = f[i] + h[1 .. i - 1]
  BY <1>1, <1>2
<1> QED
  BY <1>3 DEF s

\* The sums of two sequences that agree as far as the first goes are the same.
LEMMA SumOfPrefix ==
  ASSUME NEW n \in Nat, NEW f \in [1 .. n -> Int], NEW m \in Nat, n <= m,
         NEW g \in [1 .. m -> Int], \A i \in 1 .. n : g[i] = f[i],
         NEW h, IsSum(h, 1 .. n, f, Latest(1 .. n)),
         NEW k, IsSum(k, 1 .. m, g, Latest(1 .. m))
  PROVE  \A i \in 0 .. n : h[1 .. i] \in Int /\ k[1 .. i] = h[1 .. i]
<1> DEFINE Good == {i \in Nat : i <= n => h[1 .. i] \in Int /\ k[1 .. i] = h[1 .. i]}
<1>1. 0 \in Good
  <2>1. 1 .. 0 = {} /\ {} \in SUBSET (1 .. n) /\ {} \in SUBSET (1 .. m)
    OBVIOUS
  <2>2. h[{}] = 0 /\ k[{}] = 0
    BY <2>1 DEF IsSum
  <2> QED
    BY <2>1, <2>2
<1>2. ASSUME NEW j \in Good PROVE j + 1 \in Good
  <2> SUFFICES ASSUME j + 1 <= n
               PROVE  h[1 .. j + 1] \in Int /\ k[1 .. j + 1] = h[1 .. j + 1]
    OBVIOUS
  <2> DEFINE i == j + 1
  <2>1. j \in Nat /\ i \in 1 .. n /\ i \in 1 .. m /\ i - 1 = j
    OBVIOUS
  <2>2. h[1 .. j] \in Int /\ k[1 .. j] = h[1 .. j]
    BY <2>1
  <2> HIDE DEF i
  <2>3. h[1 .. i] = f[i] + h[1 .. j]
    <3>1. h[1 .. i - 1] \in Int /\ i \in 1 .. n
      BY <2>1, <2>2
    <3>2. h[1 .. i] = f[i] + h[1 .. i - 1]
      BY <3>1, SumStep, SMTT(30)
    <3> QED
      BY <2>1, <3>2
  <2>4. k[1 .. i] = g[i] + k[1 .. j]
    <3>1. k[1 .. i - 1] \in Int /\ i \in 1 .. m
      BY <2>1, <2>2
    <3>2. k[1 .. i] = g[i] + k[1 .. i - 1]
      BY <3>1, SumStep, SMTT(30)
    <3> QED
      BY <2>1, <3>2
  <2>5. f[i] \in Int /\ g[i] = f[i]
    BY <2>1
  <2> QED
    BY <2>2, <2>3, <2>4, <2>5 DEF i
<1>3. Good = Nat
  <2>1. Good \in SUBSET Nat
    OBVIOUS
  <2> HIDE DEF Good
  <2> QED
    BY <1>1, <1>2, <2>1, NatSetInduction
<1> QED
  BY <1>3, SMTT(30)

\* One more number at the end is added to the sum.
LEMMA SumOneMore ==
  ASSUME NEW n \in Nat, NEW f \in [1 .. n -> Int], NEW g \in [1 .. n + 1 -> Int],
         \A i \in 1 .. n : g[i] = f[i],
         NEW h, IsSum(h, 1 .. n, f, Latest(1 .. n)),
         NEW k, IsSum(k, 1 .. n + 1, g, Latest(1 .. n + 1))
  PROVE  /\ h[1 .. n] \in Int
         /\ k[1 .. n + 1] = h[1 .. n] + g[n + 1]
<1>1. h[1 .. n] \in Int /\ k[1 .. n] = h[1 .. n]
  <2>1. \A i \in 0 .. n : h[1 .. i] \in Int /\ k[1 .. i] = h[1 .. i]
    <3> DEFINE m == n + 1
    <3>1. m \in Nat /\ n <= m
      OBVIOUS
    <3>2. g \in [1 .. m -> Int] /\ IsSum(k, 1 .. m, g, Latest(1 .. m))
      OBVIOUS
    <3> HIDE DEF m
    <3> QED
      BY <3>1, <3>2, SumOfPrefix, SMTT(150)
  <2> QED
    BY <2>1
<1>2. k[1 .. n + 1] = g[n + 1] + k[1 .. n]
  <2> DEFINE m == n + 1
  <2>1. m \in Nat /\ m \in 1 .. m /\ m - 1 = n /\ IsSum(k, 1 .. m, g, Latest(1 .. m))
    OBVIOUS
  <2> HIDE DEF m
  <2>2. k[1 .. m - 1] \in Int
    BY <1>1, <2>1
  <2>3. k[1 .. m] = g[m] + k[1 .. m - 1]
    BY <2>1, <2>2, SumStep, SMTT(30)
  <2> QED
    BY <2>1, <2>3 DEF m
<1>3. g[n + 1] \in Int
  OBVIOUS
<1> QED
  BY <1>1, <1>2, <1>3

-----------------------------------------------------------------------------
(* Positions in a sequence.                                                *)

\* The first position of w in s, or 0.
LEMMA FirstOccurrence ==
  ASSUME NEW X, NEW s \in Seq(X), NEW w
  PROVE  LET i == SelectInSeq(s, LAMBDA x : x = w)
         IN  \/ i = 0 /\ \A j \in 1 .. Len(s) : s[j] # w
             \/ i \in 1 .. Len(s) /\ s[i] = w /\ \A j \in 1 .. i - 1 : s[j] # w
<1> DEFINE I == {i \in 1 .. Len(s) : s[i] = w}
           i == SelectInSeq(s, LAMBDA x : x = w)
<1>1. i = IF I # {} THEN Min(I) ELSE 0
  BY DEF SelectInSeq
<1>2. ASSUME I # {} PROVE Min(I) \in I /\ \A j \in I : Min(I) <= j
  <2>1. I \in SUBSET Nat
    OBVIOUS
  <2> HIDE DEF I
  <2>2. \E m \in I : \A j \in I : m <= j
    BY <1>2, <2>1, Least
  <2> QED
    BY <2>2 DEF Min
<1> HIDE DEF i
<1>3. \/ i = 0 /\ I = {}
      \/ i \in I /\ \A j \in I : i <= j
  BY <1>1, <1>2
<1>4. \/ i = 0 /\ \A j \in 1 .. Len(s) : s[j] # w
      \/ i \in 1 .. Len(s) /\ s[i] = w /\ \A j \in 1 .. i - 1 : s[j] # w
  <2>1. CASE i = 0 /\ I = {}
    BY <2>1
  <2>2. CASE i \in I /\ \A j \in I : i <= j
    <3>1. i \in 1 .. Len(s) /\ s[i] = w
      BY <2>2
    <3>2. \A j \in 1 .. i - 1 : j \notin I /\ j \in 1 .. Len(s)
      BY <2>2, <3>1
    <3> QED
      BY <3>1, <3>2
  <2> QED
    BY <1>3, <2>1, <2>2
<1> QED
  BY <1>4 DEF i

\* The last position whose element is not w, or 0.
LEMMA LastOther ==
  ASSUME NEW X, NEW s \in Seq(X), NEW w
  PROVE  LET i == SelectLastInSeq(s, LAMBDA x : x # w)
         IN  /\ i \in 0 .. Len(s) /\ (i > 0 => s[i] # w)
             /\ \A j \in i + 1 .. Len(s) : s[j] = w
<1> DEFINE I == {i \in 1 .. Len(s) : s[i] # w}
           i == SelectLastInSeq(s, LAMBDA x : x # w)
<1>1. i = IF I # {} THEN Max(I) ELSE 0
  BY DEF SelectLastInSeq
<1>2. ASSUME I # {} PROVE Max(I) \in I /\ \A j \in I : Max(I) >= j
  <2>1. I \in SUBSET (1 .. Len(s)) /\ Len(s) \in Nat
    OBVIOUS
  <2> HIDE DEF I
  <2> QED
    BY <1>2, <2>1, LatestIs
<1> HIDE DEF i
<1>3. \/ i = 0 /\ I = {}
      \/ i \in I /\ \A j \in I : i >= j
  BY <1>1, <1>2
<1>4. /\ i \in 0 .. Len(s) /\ (i > 0 => s[i] # w)
      /\ \A j \in i + 1 .. Len(s) : s[j] = w
  <2>1. CASE i = 0 /\ I = {}
    BY <2>1
  <2>2. CASE i \in I /\ \A j \in I : i >= j
    <3>1. i \in 1 .. Len(s) /\ s[i] # w
      BY <2>2
    <3>2. \A j \in i + 1 .. Len(s) : j \notin I /\ j \in 1 .. Len(s)
      BY <2>2, <3>1
    <3> QED
      BY <3>1, <3>2
  <2> QED
    BY <1>3, <2>1, <2>2
<1> QED
  BY <1>4 DEF i

-----------------------------------------------------------------------------
(* The strings of an endpoint.                                             *)

\* UpTo cuts at the first w: any position that looks like it is it.
LEMMA UpToIs ==
  ASSUME NEW X, NEW s \in Seq(X), NEW w, NEW n \in 0 .. Len(s),
         \A j \in 1 .. n : s[j] # w, n = Len(s) \/ s[n + 1] = w
  PROVE  UpTo(s, w) = SubSeq(s, 1, n)
<1> DEFINE i == SelectInSeq(s, LAMBDA x : x = w)
<1>1. \/ i = 0 /\ \A j \in 1 .. Len(s) : s[j] # w
      \/ i \in 1 .. Len(s) /\ s[i] = w /\ \A j \in 1 .. i - 1 : s[j] # w
  BY FirstOccurrence
<1>2. UpTo(s, w) = IF i = 0 THEN s ELSE SubSeq(s, 1, i - 1)
  BY DEF UpTo
<1> HIDE DEF i
<1>3. CASE i = 0
  <2>1. n = Len(s)
    BY <1>1, <1>3
  <2> QED
    BY <1>2, <1>3, <2>1
<1>4. CASE i # 0
  <2>1. i - 1 = n
    BY <1>1, <1>4
  <2> QED
    BY <1>2, <1>4, <2>1
<1> QED
  BY <1>3, <1>4

\* There is such a position.
LEMMA UpToExists ==
  ASSUME NEW X, NEW s \in Seq(X), NEW w
  PROVE  \E n \in 0 .. Len(s) :
           /\ UpTo(s, w) = SubSeq(s, 1, n)
           /\ \A j \in 1 .. n : s[j] # w
           /\ n = Len(s) \/ s[n + 1] = w
<1> DEFINE i == SelectInSeq(s, LAMBDA x : x = w)
<1>1. \/ i = 0 /\ \A j \in 1 .. Len(s) : s[j] # w
      \/ i \in 1 .. Len(s) /\ s[i] = w /\ \A j \in 1 .. i - 1 : s[j] # w
  BY FirstOccurrence
<1> HIDE DEF i
<1>2. PICK n \in 0 .. Len(s) : (\A j \in 1 .. n : s[j] # w) /\ (n = Len(s) \/ s[n + 1] = w)
  <2>1. CASE i = 0
    BY <1>1, <2>1
  <2>2. CASE i # 0
    <3>1. i - 1 \in 0 .. Len(s) /\ (i - 1) + 1 = i
      BY <1>1, <2>2
    <3> QED
      BY <1>1, <2>2, <3>1
  <2> QED
    BY <2>1, <2>2
<1> QED
  BY <1>2, UpToIs

\* The host in front of a port or a path, which UpTo takes in two steps.
LEMMA HostIs ==
  ASSUME NEW X, NEW s \in Seq(X), NEW n \in 0 .. Len(s),
         \A j \in 1 .. n : s[j] \notin {"/", ":"}, n = Len(s) \/ s[n + 1] \in {"/", ":"}
  PROVE  UpTo(UpTo(s, "/"), ":") = SubSeq(s, 1, n)
<1>1. PICK a \in 0 .. Len(s) :
        /\ UpTo(s, "/") = SubSeq(s, 1, a)
        /\ \A j \in 1 .. a : s[j] # "/"
        /\ a = Len(s) \/ s[a + 1] = "/"
  BY UpToExists
<1>2. n <= a
  BY <1>1
<1> DEFINE h == SubSeq(s, 1, a)
<1>3. h \in Seq(X) /\ Len(h) = a /\ \A j \in 1 .. a : h[j] = s[j]
  BY <1>1
<1>4. n = a \/ h[n + 1] = ":"
  BY <1>1, <1>2, <1>3
<1>5. UpTo(h, ":") = SubSeq(h, 1, n)
  <2>1. n \in 0 .. Len(h) /\ (n = Len(h) \/ h[n + 1] = ":") /\ \A j \in 1 .. n : h[j] # ":"
    BY <1>2, <1>3, <1>4
  <2> HIDE DEF h
  <2> QED
    BY <1>3, <2>1, UpToIs
<1>6. SubSeq(h, 1, n) = SubSeq(s, 1, n)
  BY <1>2
<1> QED
  BY <1>1, <1>5, <1>6

\* There is a place where it ends.
LEMMA HostExists ==
  ASSUME NEW X, NEW s \in Seq(X)
  PROVE  \E n \in 0 .. Len(s) :
           /\ UpTo(UpTo(s, "/"), ":") = SubSeq(s, 1, n)
           /\ \A j \in 1 .. n : s[j] \notin {"/", ":"}
           /\ n = Len(s) \/ s[n + 1] \in {"/", ":"}
<1>1. PICK a \in 0 .. Len(s) :
        /\ \A j \in 1 .. a : s[j] # "/"
        /\ a = Len(s) \/ s[a + 1] = "/"
  BY UpToExists
<1> DEFINE h == SubSeq(s, 1, a)
<1>2. h \in Seq(X) /\ Len(h) = a /\ \A j \in 1 .. a : h[j] = s[j]
  BY <1>1
<1> HIDE DEF h
<1>3. PICK n \in 0 .. Len(h) :
        /\ \A j \in 1 .. n : h[j] # ":"
        /\ n = Len(h) \/ h[n + 1] = ":"
  BY <1>2, UpToExists
<1>4. n \in 0 .. Len(s) /\ n <= a
  BY <1>2, <1>3
<1>5. \A j \in 1 .. n : s[j] \notin {"/", ":"}
  BY <1>1, <1>2, <1>3, <1>4
<1>6. n = Len(s) \/ s[n + 1] \in {"/", ":"}
  BY <1>1, <1>2, <1>3, <1>4
<1> QED
  BY <1>4, <1>5, <1>6, HostIs

\* The words of a string. (The provers do not know that a literal is in STRING.)
Word == STRING \cup {"https", "http", ":", "/", ".", "logstores"}

LEMMA PrefixIs ==
  ASSUME NEW X, NEW s \in Seq(X), NEW t \in Seq(X)
  PROVE  IsPrefix(s, t) <=> Len(s) <= Len(t) /\ \A i \in 1 .. Len(s) : t[i] = s[i]
<1>1. CASE Len(s) <= Len(t)
  <2> DEFINE u == SubSeq(t, 1, Len(s))
  <2>1. u \in Seq(X) /\ Len(u) = Len(s) /\ \A i \in 1 .. Len(s) : u[i] = t[i]
    BY <1>1
  <2>2. SubSeq(s, 1, Len(s)) = s
    OBVIOUS
  <2>3. IsPrefix(s, t) <=> s = u
    BY <1>1, <2>2 DEF IsPrefix
  <2> HIDE DEF u
  <2>4. s = u <=> \A i \in 1 .. Len(s) : t[i] = s[i]
    BY <2>1
  <2> QED
    BY <1>1, <2>3, <2>4
<1>2. CASE ~(Len(s) <= Len(t))
  BY <1>2 DEF IsPrefix
<1> QED
  BY <1>1, <1>2

HasScheme(name, s) ==
  Len(s) >= 4 /\ s[1] = name /\ s[2] = ":" /\ s[3] = "/" /\ s[4] = "/"

LEMMA SchemeIs ==
  ASSUME NEW s \in Seq(Word), NEW name \in Word
  PROVE  IsPrefix(Scheme(name), s) <=> HasScheme(name, s)
<1> DEFINE q == Scheme(name)
<1>1. q \in Seq(Word) /\ Len(q) = 4 /\ q[1] = name /\ q[2] = ":" /\ q[3] = "/" /\ q[4] = "/"
  BY DEF Scheme, Word
<1> HIDE DEF q
<1>2. IsPrefix(q, s) <=> 4 <= Len(s) /\ \A i \in 1 .. 4 : s[i] = q[i]
  <2>1. IsPrefix(q, s) <=> Len(q) <= Len(s) /\ \A i \in 1 .. Len(q) : s[i] = q[i]
    BY <1>1, PrefixIs, Zenon
  <2> QED
    BY <1>1, <2>1
<1>3. IsPrefix(q, s) <=> HasScheme(name, s)
  BY <1>1, <1>2 DEF HasScheme
<1> QED
  BY <1>3 DEF q

LEMMA StripSchemeIs ==
  ASSUME NEW s \in Seq(Word), NEW k \in {0, 4},
         k = 4 <=> HasScheme("https", s) \/ HasScheme("http", s)
  PROVE  StripScheme(s) = SubSeq(s, k + 1, Len(s)) /\ k <= Len(s)
<1>1. "https" \in Word /\ "http" \in Word
  BY DEF Word
<1>2. StripScheme(s) = IF k = 4 THEN SubSeq(s, 5, Len(s)) ELSE s
  BY <1>1, SchemeIs DEF StripScheme, Drop
<1>3. SubSeq(s, 1, Len(s)) = s
  OBVIOUS
<1> QED
  BY <1>2, <1>3 DEF HasScheme

\* What was put behind a scheme is what is left when it is taken off.
LEMMA SchemeComesOff ==
  ASSUME NEW name \in {"https", "http"}, NEW s \in Seq(Word)
  PROVE  LET url == Scheme(name) \o s
         IN  /\ url \in Seq(Word) /\ StripScheme(url) = s /\ SchemeOf(url) = name
             /\ IsPrefix(Scheme("https"), url) <=> name = "https"
<1> DEFINE q == Scheme(name)
           url == q \o s
<1>1. q \in Seq(Word) /\ Len(q) = 4 /\ q[1] = name /\ q[2] = ":" /\ q[3] = "/" /\ q[4] = "/"
  BY DEF Scheme, Word
<1> HIDE DEF q
<1>2. /\ url \in Seq(Word) /\ Len(url) = Len(s) + 4
      /\ \A i \in 1 .. 4 : url[i] = q[i]
      /\ \A i \in 1 .. Len(s) : url[i + 4] = s[i]
  <2>0. /\ url \in Seq(Word) /\ Len(url) = Len(q) + Len(s)
        /\ \A i \in 1 .. Len(q) + Len(s) : url[i] = IF i <= Len(q) THEN q[i] ELSE s[i - Len(q)]
    BY <1>1, ConcatProperties, Zenon
  <2> HIDE DEF url
  <2>1. Len(url) = Len(s) + 4
    BY <1>1, <2>0
  <2>2. \A i \in 1 .. 4 : url[i] = q[i]
    BY <1>1, <2>0
  <2>3. \A i \in 1 .. Len(s) : url[i + 4] = s[i]
    BY <1>1, <2>0
  <2> QED
    BY <2>0, <2>1, <2>2, <2>3
<1> HIDE DEF url
<1>3. HasScheme(name, url) /\ \A other \in Word : HasScheme(other, url) => other = name
  BY <1>1, <1>2 DEF HasScheme
<1>4. "https" \in Word /\ "http" \in Word
  BY DEF Word
<1>5. StripScheme(url) = SubSeq(url, 5, Len(url))
  BY <1>2, <1>3, StripSchemeIs
<1>6. SubSeq(url, 5, Len(url)) = s
  <2> DEFINE u == SubSeq(url, 5, Len(url))
  <2>1. u \in Seq(Word) /\ Len(u) = Len(s) /\ \A i \in 1 .. Len(s) : u[i] = url[i + 4]
    BY <1>2
  <2> HIDE DEF u
  <2>2. \A i \in 1 .. Len(s) : u[i] = s[i]
    BY <1>2, <2>1
  <2>3. u = s
    BY <2>1, <2>2
  <2> QED
    BY <2>3 DEF u
<1>7. IsPrefix(Scheme("https"), url) <=> name = "https"
  BY <1>2, <1>3, <1>4, SchemeIs
<1> QED
  BY <1>2, <1>5, <1>6, <1>7 DEF SchemeOf, url, q

\* Trimming the slashes leaves a host in front of them alone, and its scheme.
LEMMA ConnectHostIs ==
  ASSUME NEW e \in Seq(Word), PluginHost(e) # <<>>
  PROVE  LET c == ConnectHost(e)
         IN  /\ c \in Seq(Word) /\ Range(c) \subseteq Range(StripScheme(e))
             /\ \E b \in 1 .. Len(c) :
                  /\ PluginHost(e) = SubSeq(c, 1, b)
                  /\ \A j \in 1 .. b : c[j] \notin {"/", ":"}
                  /\ b = Len(c) \/ c[b + 1] \in {"/", ":"}
<1> DEFINE s == StripScheme(e)
           t == TrimTrailingSlash(e)
           c == ConnectHost(e)
<1>1. PICK k \in {0, 4} : k = 4 <=> HasScheme("https", e) \/ HasScheme("http", e)
  BY DEF HasScheme
<1>2. s = SubSeq(e, k + 1, Len(e)) /\ k <= Len(e)
  BY <1>1, StripSchemeIs
<1> HIDE DEF s
<1>3. s \in Seq(Word) /\ Len(s) = Len(e) - k /\ \A i \in 1 .. Len(s) : s[i] = e[i + k]
  BY <1>1, <1>2
<1>4. PICK b \in 0 .. Len(s) :
        /\ UpTo(UpTo(s, "/"), ":") = SubSeq(s, 1, b)
        /\ \A j \in 1 .. b : s[j] \notin {"/", ":"}
        /\ b = Len(s) \/ s[b + 1] \in {"/", ":"}
  BY <1>3, HostExists
<1>5. PluginHost(e) = SubSeq(s, 1, b) /\ b >= 1
  BY <1>3, <1>4 DEF PluginHost, s
<1>6. PICK n \in 0 .. Len(e) :
        /\ t = SubSeq(e, 1, n)
        /\ \A j \in n + 1 .. Len(e) : e[j] = "/"
  BY LastOther DEF TrimTrailingSlash
<1> HIDE DEF t
<1>7. n >= k + b
  <2>1. e[b + k] # "/" /\ b + k \in 1 .. Len(e)
    BY <1>1, <1>3, <1>4, <1>5
  <2> QED
    BY <1>6, <2>1
<1>8. t \in Seq(Word) /\ Len(t) = n /\ \A i \in 1 .. n : t[i] = e[i]
  BY <1>6
<1>9. k = 4 <=> HasScheme("https", t) \/ HasScheme("http", t)
  BY <1>1, <1>5, <1>6, <1>7, <1>8 DEF HasScheme
<1>10. c = SubSeq(t, k + 1, n)
  BY <1>8, <1>9, StripSchemeIs DEF ConnectHost, t
<1> HIDE DEF c
<1>11. c \in Seq(Word) /\ Len(c) = n - k /\ \A i \in 1 .. Len(c) : c[i] = s[i] /\ i \in 1 .. Len(s)
  BY <1>1, <1>3, <1>6, <1>7, <1>8, <1>10
<1>12. Range(c) \subseteq Range(s)
  BY <1>3, <1>11 DEF Range
<1>13. b \in 1 .. Len(c)
  BY <1>1, <1>5, <1>6, <1>7, <1>11
<1>14. SubSeq(c, 1, b) = SubSeq(s, 1, b)
  BY <1>3, <1>11, <1>13
<1>15. b = Len(c) \/ c[b + 1] \in {"/", ":"}
  BY <1>3, <1>4, <1>11, <1>13, SMTT(30)
<1>16. \A j \in 1 .. b : c[j] \notin {"/", ":"}
  BY <1>4, <1>11, <1>13
<1> QED
  BY <1>5, <1>11, <1>12, <1>13, <1>14, <1>15, <1>16 DEF c, s

LEMMA ConnectHostType ==
  ASSUME NEW e \in Seq(Word)
  PROVE  ConnectHost(e) \in Seq(Word)
<1> DEFINE t == TrimTrailingSlash(e)
<1>1. PICK n \in 0 .. Len(e) :
        t = SubSeq(e, 1, n) /\ \A j \in n + 1 .. Len(e) : e[j] = "/"
  BY LastOther DEF TrimTrailingSlash
<1>2. t \in Seq(Word)
  BY <1>1
<1> HIDE DEF t
<1>3. PICK k \in {0, 4} : k = 4 <=> HasScheme("https", t) \/ HasScheme("http", t)
  BY DEF HasScheme
<1>4. StripScheme(t) = SubSeq(t, k + 1, Len(t))
  BY <1>2, <1>3, StripSchemeIs
<1> QED
  BY <1>2, <1>4 DEF ConnectHost, t

\* A URL without its scheme.
LEMMA UrlIs ==
  ASSUME NEW e \in Seq(Word), NEW project \in Word, NEW path \in Seq(Word)
  PROVE  LET url == Url(e, project, path)
         IN  /\ ProjectHost(e, project) \in Seq(Word)
             /\ StripScheme(url) = ProjectHost(e, project) \o path
             /\ SchemeOf(url) = SchemeOf(e)
             /\ IsPrefix(Scheme("https"), url) <=> SchemeOf(e) = "https"
<1> DEFINE v == ProjectHost(e, project)
           name == SchemeOf(e)
           q == Scheme(name)
<1>1. v \in Seq(Word)
  <2>1. <<project, ".">> \in Seq(Word)
    BY DEF Word
  <2> QED
    BY <2>1, ConnectHostType, ConcatProperties DEF ProjectHost
<1>2. name \in {"https", "http"}
  BY DEF SchemeOf
<1>3. q \in Seq(Word)
  BY <1>2 DEF Scheme, Word
<1>4. Url(e, project, path) = (q \o v) \o path
  BY DEF Url
<1> HIDE DEF q, v, name
<1>5. (q \o v) \o path = q \o (v \o path) /\ v \o path \in Seq(Word)
  BY <1>1, <1>3, ConcatAssociative, ConcatProperties, SMTT(30)
<1>6. LET url == Scheme(name) \o (v \o path)
      IN  /\ StripScheme(url) = v \o path /\ SchemeOf(url) = name
          /\ IsPrefix(Scheme("https"), url) <=> name = "https"
  BY <1>2, <1>5, SchemeComesOff, Zenon
<1> QED
  BY <1>1, <1>4, <1>5, <1>6 DEF q, v, name

\* A path behind a text does not change what is in front of the first slash.
LEMMA PathAside ==
  ASSUME NEW s \in Seq(Word), NEW path \in Seq(Word), path # <<>>, path[1] = "/"
  PROVE  UpTo(s \o path, "/") = UpTo(s, "/")
<1> DEFINE t == s \o path
<1>1. PICK n \in 0 .. Len(s) :
        /\ UpTo(s, "/") = SubSeq(s, 1, n)
        /\ \A j \in 1 .. n : s[j] # "/"
        /\ n = Len(s) \/ s[n + 1] = "/"
  BY UpToExists
<1>2. /\ t \in Seq(Word) /\ Len(t) = Len(s) + Len(path)
      /\ \A i \in 1 .. Len(s) + Len(path) : t[i] = IF i <= Len(s) THEN s[i] ELSE path[i - Len(s)]
  BY ConcatProperties, Zenon
<1> HIDE DEF t
<1>3. n \in 0 .. Len(t) /\ (\A j \in 1 .. n : t[j] # "/") /\ t[n + 1] = "/"
  <2>1. Len(path) \in Nat /\ Len(path) >= 1 /\ Len(s) \in Nat
    OBVIOUS
  <2>2. n \in 0 .. Len(t) /\ \A j \in 1 .. n : t[j] # "/"
    <3>1. n \in 0 .. Len(t)
      BY <1>2, <2>1
    <3>2. ASSUME NEW j \in 1 .. n PROVE t[j] # "/"
      <4>1. j \in 1 .. Len(s) + Len(path) /\ j <= Len(s)
        BY <2>1
      <4> QED
        BY <1>1, <1>2, <4>1
    <3> QED
      BY <3>1, <3>2
  <2>3. CASE n = Len(s)
    <3>1. n + 1 \in 1 .. Len(s) + Len(path) /\ n + 1 > Len(s) /\ (n + 1) - Len(s) = 1
      BY <2>1, <2>3
    <3> QED
      BY <1>2, <2>2, <3>1
  <2>4. CASE n # Len(s)
    <3>1. n + 1 \in 1 .. Len(s) + Len(path) /\ n + 1 <= Len(s)
      BY <1>1, <2>1, <2>4
    <3> QED
      BY <1>1, <1>2, <2>2, <2>4, <3>1
  <2> QED
    BY <2>3, <2>4
<1>4. UpTo(t, "/") = SubSeq(t, 1, n)
  BY <1>2, <1>3, UpToIs
<1>5. SubSeq(t, 1, n) = SubSeq(s, 1, n)
  <2> DEFINE l == SubSeq(t, 1, n)
             r == SubSeq(s, 1, n)
  <2>1. l \in Seq(Word) /\ Len(l) = n /\ \A i \in 1 .. n : l[i] = t[i]
    BY <1>2, <1>3
  <2>2. r \in Seq(Word) /\ Len(r) = n /\ \A i \in 1 .. n : r[i] = s[i]
    BY <1>1
  <2> HIDE DEF l, r
  <2>3. l = r
    BY <1>1, <1>2, <2>1, <2>2, SeqEqual
  <2> QED
    BY <2>3 DEF l, r
<1> QED
  BY <1>1, <1>4, <1>5 DEF t

\* Two strings joined: what the library says of them, without the rest of a proof.
LEMMA JoinIs ==
  ASSUME NEW a \in Seq(Word), NEW b \in Seq(Word)
  PROVE  /\ a \o b \in Seq(Word) /\ Len(a \o b) = Len(a) + Len(b)
         /\ \A i \in 1 .. Len(a) + Len(b) :
              (a \o b)[i] = IF i <= Len(a) THEN a[i] ELSE b[i - Len(a)]
BY ConcatProperties, Zenon

LEMMA JoinAssociative ==
  ASSUME NEW a \in Seq(Word), NEW b \in Seq(Word), NEW d \in Seq(Word)
  PROVE  a \o (b \o d) = (a \o b) \o d
BY ConcatAssociative, SMT

\* The client's host is the plugin's, behind the project, with what the endpoint has
\* behind it.
LEMMA HeaderIs ==
  ASSUME NEW e \in Seq(Word), PluginHost(e) # <<>>, NEW project \in Word \ {":", "/"}
  PROVE  LET p == WithProject(project, PluginHost(e))
         IN  /\ ProjectHost(e, project) = p \o Rest(e)
             /\ p \in Seq(Word) /\ Rest(e) \in Seq(Word)
             /\ \A j \in 1 .. Len(p) : p[j] \notin {"/", ":"}
             /\ Rest(e) = <<>> \/ Rest(e)[1] \in {"/", ":"}
<1> DEFINE c == ConnectHost(e)
           h == PluginHost(e)
           q == <<project, ".">>
           r == Rest(e)
           p == WithProject(project, h)
           v == ProjectHost(e, project)
<1>1. c \in Seq(Word)
  BY ConnectHostIs
<1>2. PICK b \in 1 .. Len(c) :
        /\ h = SubSeq(c, 1, b)
        /\ \A j \in 1 .. b : c[j] \notin {"/", ":"}
        /\ b = Len(c) \/ c[b + 1] \in {"/", ":"}
  BY ConnectHostIs, Zenon
<1>3. q \in Seq(Word) /\ Len(q) = 2 /\ q[1] = project /\ q[2] = "."
  BY DEF Word
<1>4. v = IF IsPrefix(q, c) THEN c ELSE q \o c
  BY DEF ProjectHost
<1>5. p = IF IsPrefix(q, h) THEN h ELSE q \o h
  BY DEF WithProject
<1>6. r = SubSeq(c, Len(h) + 1, Len(c))
  BY DEF Rest, Drop
<1> HIDE DEF c, h, q, r, p, v
<1>7. h \in Seq(Word) /\ Len(h) = b /\ \A i \in 1 .. b : h[i] = c[i]
  BY <1>1, <1>2
<1>8. /\ r \in Seq(Word) /\ Len(r) = Len(c) - b
      /\ \A i \in 1 .. Len(r) : r[i] = c[b + i]
  BY <1>1, <1>2, <1>6, <1>7
<1>9. c = h \o r
  <2> DEFINE t == h \o r
  <2>1. /\ t \in Seq(Word) /\ Len(t) = Len(h) + Len(r)
        /\ \A i \in 1 .. Len(h) + Len(r) : t[i] = IF i <= Len(h) THEN h[i] ELSE r[i - Len(h)]
    BY <1>7, <1>8, ConcatProperties, Zenon
  <2> HIDE DEF t
  <2>2. Len(c) = Len(t) /\ Len(c) \in Nat
    BY <1>1, <1>2, <1>7, <1>8, <2>1
  <2>3. ASSUME NEW i \in 1 .. Len(c) PROVE c[i] = t[i]
    <3>1. CASE i <= b
      BY <1>2, <1>7, <2>1, <2>2, <3>1
    <3>2. CASE i > b
      <4>1. i - b \in 1 .. Len(r) /\ b + (i - b) = i
        BY <1>1, <1>2, <1>8, <3>2
      <4> QED
        BY <1>7, <1>8, <2>1, <2>2, <3>2, <4>1
    <3> QED
      BY <1>2, <3>1, <3>2
  <2>4. c = t
    BY <1>1, <2>1, <2>2, <2>3, SeqEqual
  <2> QED
    BY <2>4 DEF t
<1>10. IsPrefix(q, h) <=> IsPrefix(q, c)
  <2>0. q \in Seq(Word) /\ h \in Seq(Word)
    BY <1>3, <1>7
  <2>1. IsPrefix(q, h) <=> Len(q) <= Len(h) /\ \A i \in 1 .. Len(q) : h[i] = q[i]
    <3> HIDE <1>1, <1>2, <1>3, <1>4, <1>5, <1>6, <1>7, <1>8, <1>9
    <3> QED
      BY <2>0, PrefixIs, SMT
  <2>2. IsPrefix(q, c) <=> Len(q) <= Len(c) /\ \A i \in 1 .. Len(q) : c[i] = q[i]
    BY <1>1, <1>3, PrefixIs, ZenonT(30)
  <2>3. b >= 2 \/ Len(c) < 2 \/ c[2] \in {"/", ":"}
    BY <1>1, <1>2
  <2> QED
    BY <1>1, <1>2, <1>3, <1>7, <2>1, <2>2, <2>3
<1>11. /\ q \o h \in Seq(Word) /\ Len(q \o h) = Len(q) + Len(h)
       /\ \A i \in 1 .. Len(q) + Len(h) : (q \o h)[i] = IF i <= Len(q) THEN q[i] ELSE h[i - Len(q)]
  BY <1>3, <1>7, ConcatProperties, Zenon
<1>12. v = p \o r
  <2>1. q \o (h \o r) = (q \o h) \o r
    <3>1. q \in Seq(Word) /\ h \in Seq(Word) /\ r \in Seq(Word)
      BY <1>3, <1>7, <1>8
    <3> QED
      BY <3>1, JoinAssociative, Zenon
  <2> QED
    BY <1>4, <1>5, <1>9, <1>10, <2>1, Zenon
<1>13. p \in Seq(Word)
  BY <1>5, <1>7, <1>11
<1>14. ASSUME NEW j \in 1 .. Len(p) PROVE p[j] \notin {"/", ":"}
  <2>1. CASE p = h
    BY <1>2, <1>7, <2>1
  <2>2. CASE p = q \o h
    <3> DEFINE t == q \o h
    <3>1. p = t /\ j \in 1 .. 2 + b /\ t[j] = IF j <= 2 THEN q[j] ELSE h[j - 2]
      BY <1>3, <1>7, <1>11, <2>2
    <3> HIDE DEF t
    <3>2. CASE j <= 2
      BY <1>3, <3>1, <3>2
    <3>3. CASE j > 2
      <4>1. j - 2 \in 1 .. b
        BY <1>2, <3>1, <3>3
      <4> QED
        BY <1>2, <1>7, <3>1, <3>3, <4>1
    <3> QED
      BY <1>2, <3>1, <3>2, <3>3
  <2> QED
    BY <1>5, <2>1, <2>2
<1>15. r = <<>> \/ r[1] \in {"/", ":"}
  BY <1>1, <1>2, <1>8
<1> QED
  BY <1>8, <1>12, <1>13, <1>14, <1>15 DEF h, r, p, v

\* What curl takes host and port from: the client's host up to a slash.
LEMMA AuthorityIs ==
  ASSUME NEW e \in Seq(Word), NEW project \in Word, NEW path \in Seq(Word), path # <<>>,
         path[1] = "/"
  PROVE  LET url == Url(e, project, path)
         IN  Authority(url) = UpTo(ProjectHost(e, project), "/") /\ SchemeOf(url) = SchemeOf(e)
<1> DEFINE v == ProjectHost(e, project)
           url == Url(e, project, path)
<1>1. v \in Seq(Word) /\ StripScheme(url) = v \o path /\ SchemeOf(url) = SchemeOf(e)
  BY UrlIs, Zenon
<1> HIDE DEF v, url
<1>2. Authority(url) = UpTo(v, "/")
  BY <1>1, PathAside DEF Authority
<1> QED
  BY <1>1, <1>2 DEF v, url

\* The host of the client's URL is the endpoint's host as the plugin reads it, behind
\* the project.
LEMMA HostRead ==
  ASSUME NEW e \in Seq(Word), PluginHost(e) # <<>>, NEW project \in Word \ {":", "/"},
         NEW path \in Seq(Word), path # <<>>, path[1] = "/"
  PROVE  HostFromUrl(Url(e, project, path)) = WithProject(project, PluginHost(e))
<1> DEFINE p == WithProject(project, PluginHost(e))
           r == Rest(e)
           v == p \o r
<1>1. /\ ProjectHost(e, project) = v /\ p \in Seq(Word) /\ r \in Seq(Word)
      /\ \A j \in 1 .. Len(p) : p[j] \notin {"/", ":"}
      /\ r = <<>> \/ r[1] \in {"/", ":"}
  BY HeaderIs, Zenon
<1>2. HostFromUrl(Url(e, project, path)) = UpTo(UpTo(v, "/"), ":")
  BY <1>1, AuthorityIs DEF HostFromUrl
<1> HIDE DEF p, r
<1>3. /\ v \in Seq(Word) /\ Len(v) = Len(p) + Len(r)
      /\ \A i \in 1 .. Len(p) + Len(r) : v[i] = IF i <= Len(p) THEN p[i] ELSE r[i - Len(p)]
  <2>1. p \in Seq(Word) /\ r \in Seq(Word)
    BY <1>1
  <2> QED
    BY <2>1, JoinIs, Zenon
<1> HIDE DEF v
<1> DEFINE n == Len(p)
<1>4. n \in 0 .. Len(v) /\ (n = Len(v) \/ v[n + 1] \in {"/", ":"})
      /\ \A j \in 1 .. n : v[j] \notin {"/", ":"} /\ v[j] = p[j]
  <2>1. n \in Nat /\ Len(r) \in Nat /\ n <= Len(v)
    BY <1>1, <1>3
  <2>2. \A j \in 1 .. n : v[j] = p[j]
    BY <1>3, <2>1
  <2>3. CASE r = <<>>
    BY <1>1, <1>3, <2>1, <2>2, <2>3
  <2>4. CASE r # <<>>
    <3>1. n + 1 \in 1 .. n + Len(r) /\ n + 1 > n /\ (n + 1) - n = 1
      BY <1>1, <2>1, <2>4
    <3>2. v[n + 1] = r[1]
      BY <1>3, <3>1
    <3> QED
      BY <1>1, <2>1, <2>2, <2>4, <3>2
  <2> QED
    BY <2>3, <2>4
<1> HIDE DEF n
<1>5. UpTo(UpTo(v, "/"), ":") = SubSeq(v, 1, n)
  BY <1>3, <1>4, HostIs
<1>6. SubSeq(v, 1, n) = p
  <2> DEFINE l == SubSeq(v, 1, n)
  <2>1. l \in Seq(Word) /\ Len(l) = n /\ \A j \in 1 .. n : l[j] = p[j]
    BY <1>3, <1>4
  <2> HIDE DEF l
  <2>2. l = p
    BY <1>1, <2>1, SeqEqual DEF n
  <2> QED
    BY <2>2 DEF l
<1> QED
  BY <1>2, <1>5, <1>6 DEF p

\* Where curl finds the project's host if the endpoint is a bare host.
LEMMA AuthorityRead ==
  ASSUME NEW e \in Seq(Word), NEW project \in Word \ {":", "/"},
         Range(ConnectHost(e)) \cap {":", "/"} = {},
         NEW path \in Seq(Word), path = <<>> \/ path[1] = "/"
  PROVE  LET url == Url(e, project, path)
         IN  /\ Authority(url) = ProjectHost(e, project)
             /\ HostFromUrl(url) = ProjectHost(e, project)
             /\ PortFromUrl(url) = IF SchemeOf(e) = "https" THEN <<"443">> ELSE <<"80">>
<1> DEFINE c == ConnectHost(e)
           q == <<project, ".">>
           v == ProjectHost(e, project)
           url == Url(e, project, path)
           s == v \o path
<1>1. c \in Seq(Word) /\ Range(c) \cap {":", "/"} = {}
  BY ConnectHostType
<1>2. q \in Seq(Word) /\ Len(q) = 2 /\ q[1] = project /\ q[2] = "."
  BY DEF Word
<1>3. v = IF IsPrefix(q, c) THEN c ELSE q \o c
  BY DEF ProjectHost
<1>4. v \in Seq(Word) /\ StripScheme(url) = s /\ SchemeOf(url) = SchemeOf(e)
  BY UrlIs, Zenon
<1> HIDE DEF c, q, v, url
<1>5. \A j \in 1 .. Len(v) : v[j] \notin {":", "/"}
  <2>1. \A j \in 1 .. Len(c) : c[j] \notin {":", "/"}
    BY <1>1, SMTT(30) DEF Range
  <2>2. CASE v = c
    BY <2>1, <2>2
  <2>3. CASE v = q \o c
    <3>1. /\ Len(v) = Len(q) + Len(c)
          /\ \A i \in 1 .. Len(q) + Len(c) : v[i] = IF i <= Len(q) THEN q[i] ELSE c[i - Len(q)]
      <4>1. c \in Seq(Word) /\ q \in Seq(Word)
        BY <1>1, <1>2
      <4> HIDE <1>1, <1>2
      <4> QED
        BY <2>3, <4>1, ConcatProperties, SMTT(30)
    <3>2. ASSUME NEW j \in 1 .. Len(v) PROVE v[j] \notin {":", "/"}
      <4>1. CASE j <= 2
        BY <1>1, <1>2, <3>1, <4>1
      <4>2. CASE j > 2
        <5>1. j - 2 \in 1 .. Len(c) /\ v[j] = c[j - 2]
          BY <1>1, <1>2, <3>1, <4>2
        <5> QED
          BY <2>1, <5>1
      <4> QED
        BY <4>1, <4>2
    <3> QED
      BY <3>2
  <2> QED
    BY <1>3, <2>2, <2>3
<1>6. /\ s \in Seq(Word) /\ Len(s) = Len(v) + Len(path)
      /\ \A i \in 1 .. Len(v) + Len(path) : s[i] = IF i <= Len(v) THEN v[i] ELSE path[i - Len(v)]
  BY <1>4, ConcatProperties, ZenonT(30)
<1> HIDE DEF s
<1> DEFINE n == Len(v)
<1>7. n \in 0 .. Len(s) /\ (n = Len(s) \/ s[n + 1] = "/")
  BY <1>4, <1>6
<1>8. \A j \in 1 .. n : s[j] = v[j]
  BY <1>4, <1>6
<1> HIDE DEF n
<1>9. SubSeq(s, 1, n) = v
  <2> DEFINE l == SubSeq(s, 1, n)
  <2>1. l \in Seq(Word) /\ Len(l) = n /\ \A j \in 1 .. n : l[j] = v[j]
    BY <1>6, <1>7, <1>8
  <2> HIDE DEF l
  <2>2. l = v
    BY <1>4, <2>1, SeqEqual DEF n
  <2> QED
    BY <2>2 DEF l
<1>10. Authority(url) = v
  <2>1. \A j \in 1 .. n : s[j] # "/"
    BY <1>5, <1>8 DEF n
  <2>2. UpTo(s, "/") = SubSeq(s, 1, n)
    BY <1>6, <1>7, <2>1, UpToIs
  <2> QED
    BY <1>4, <1>9, <2>2 DEF Authority
<1>11. HostFromUrl(url) = v
  <2>1. UpTo(v, ":") = SubSeq(v, 1, Len(v))
    <3>1. n \in 0 .. Len(v) /\ n = Len(v) /\ \A j \in 1 .. n : v[j] # ":"
      BY <1>4, <1>5 DEF n
    <3>2. UpTo(v, ":") = SubSeq(v, 1, n)
      BY <1>4, <3>1, UpToIs
    <3> QED
      BY <3>2 DEF n
  <2> QED
    BY <1>4, <1>10, <2>1 DEF HostFromUrl
<1>12. ":" \notin Range(Authority(url))
  BY <1>4, <1>5, <1>10 DEF Range
<1>13. PortFromUrl(url) = IF SchemeOf(e) = "https" THEN <<"443">> ELSE <<"80">>
  BY <1>4, <1>12 DEF PortFromUrl
<1> QED
  BY <1>10, <1>11, <1>13 DEF v, url

\* The port of the client's URL is the one the endpoint names, or its scheme's.
LEMMA PortRead ==
  ASSUME NEW e \in Seq(Word), PluginHost(e) # <<>>, NEW project \in Word \ {":", "/"},
         NEW path \in Seq(Word), path # <<>>, path[1] = "/"
  PROVE  PortFromUrl(Url(e, project, path)) = EndpointPort(e)
<1> DEFINE p == WithProject(project, PluginHost(e))
           r == Rest(e)
           v == p \o r
           n == Len(p)
           url == Url(e, project, path)
           a == Authority(url)
<1>1. /\ ProjectHost(e, project) = v /\ p \in Seq(Word) /\ r \in Seq(Word)
      /\ \A j \in 1 .. n : p[j] \notin {"/", ":"}
      /\ r = <<>> \/ r[1] \in {"/", ":"}
  BY HeaderIs, Zenon
<1>2. a = UpTo(v, "/") /\ SchemeOf(url) = SchemeOf(e)
  BY <1>1, AuthorityIs, Zenon
<1>3. HostFromUrl(url) = p
  BY HostRead
<1>4. NamesPort(e) <=> r # <<>> /\ r[1] = ":"
  BY <1>1 DEF NamesPort
<1> HIDE DEF p, r, url, a
<1>5. /\ v \in Seq(Word) /\ Len(v) = n + Len(r)
      /\ \A i \in 1 .. n + Len(r) : v[i] = IF i <= n THEN p[i] ELSE r[i - n]
  <2>1. p \in Seq(Word) /\ r \in Seq(Word)
    BY <1>1
  <2> QED
    BY <2>1, JoinIs, Zenon
<1> HIDE DEF v
<1>6. n \in Nat /\ n <= Len(v) /\ \A j \in 1 .. n : v[j] = p[j]
  BY <1>1, <1>5
<1> HIDE DEF n
<1>7. ASSUME ~NamesPort(e) PROVE PortFromUrl(url) = EndpointPort(e)
  <2>1. n = Len(v) \/ v[n + 1] = "/"
    BY <1>1, <1>4, <1>5, <1>6, <1>7
  <2>2. n \in 0 .. Len(v) /\ \A j \in 1 .. n : v[j] # "/"
    <3>1. \A j \in 1 .. n : v[j] = p[j] /\ p[j] # "/"
      BY <1>1, <1>6, Zenon
    <3>2. Len(v) \in Nat
      BY <1>5
    <3> QED
      BY <1>6, <3>1, <3>2
  <2>3. a = SubSeq(v, 1, n)
    BY <1>2, <1>5, <2>1, <2>2, UpToIs
  <2>4. a \in Seq(Word) /\ Len(a) = n /\ \A j \in 1 .. n : a[j] = p[j]
    BY <1>5, <1>6, <2>2, <2>3
  <2>5. ":" \notin Range(a)
    <3>1. DOMAIN a = 1 .. n
      BY <2>4
    <3>2. \A j \in 1 .. n : a[j] # ":"
      BY <1>1, <2>4, Zenon
    <3> QED
      BY <3>1, <3>2, Zenon DEF Range
  <2> QED
    BY <1>2, <1>7, <2>5 DEF PortFromUrl, EndpointPort, a
<1>8. ASSUME NamesPort(e) PROVE PortFromUrl(url) = EndpointPort(e)
  <2> DEFINE t == Tail(r)
  <2>1. /\ t \in Seq(Word) /\ Len(r) = Len(t) + 1 /\ r[1] = ":"
        /\ \A i \in 1 .. Len(t) : t[i] = r[i + 1]
    BY <1>1, <1>4, <1>8
  <2> HIDE DEF t
  <2>2. PICK k \in 0 .. Len(t) :
          /\ UpTo(t, "/") = SubSeq(t, 1, k)
          /\ \A j \in 1 .. k : t[j] # "/"
          /\ k = Len(t) \/ t[k + 1] = "/"
    BY <2>1, UpToExists
  <2>3. \A i \in 1 .. Len(t) : v[n + 1 + i] = t[i]
    <3> TAKE i \in 1 .. Len(t)
    <3>1. n + 1 + i \in 1 .. n + Len(r) /\ ~(n + 1 + i <= n) /\ (n + 1 + i) - n = i + 1
      BY <1>6, <2>1
    <3>2. v[n + 1 + i] = r[(n + 1 + i) - n]
      BY <1>5, <3>1
    <3> QED
      BY <2>1, <3>1, <3>2
  <2>4. v[n + 1] = ":" /\ Len(v) = n + 1 + Len(t)
    BY <1>1, <1>5, <1>6, <2>1
  <2> DEFINE w == n + 1 + k
  <2>5. w \in 0 .. Len(v) /\ (w = Len(v) \/ v[w + 1] = "/")
    <3>1. k = Len(t) \/ (k + 1 \in 1 .. Len(t) /\ w + 1 = n + 1 + (k + 1))
      BY <1>6, <2>1, <2>2
    <3> QED
      BY <1>6, <2>1, <2>2, <2>3, <2>4, <3>1
  <2>6. ASSUME NEW j \in 1 .. w PROVE v[j] # "/"
    <3>1. CASE j <= n
      <4>1. j \in 1 .. n
        BY <1>6, <2>2, <3>1
      <4> QED
        BY <1>1, <1>6, <4>1, Zenon
    <3>2. CASE j = n + 1
      BY <2>4, <3>2
    <3>3. CASE j > n + 1
      <4>1. j - (n + 1) \in 1 .. k /\ j - (n + 1) \in 1 .. Len(t) /\ n + 1 + (j - (n + 1)) = j
        BY <1>6, <2>1, <2>2, <3>3
      <4>2. v[n + 1 + (j - (n + 1))] = t[j - (n + 1)] /\ t[j - (n + 1)] # "/"
        BY <2>2, <2>3, <4>1, Zenon
      <4> QED
        BY <4>1, <4>2
    <3> QED
      BY <1>6, <2>2, <3>1, <3>2, <3>3
  <2> HIDE DEF w
  <2>7. a = SubSeq(v, 1, w)
    BY <1>2, <1>5, <2>5, <2>6, UpToIs
  <2>8. a \in Seq(Word) /\ Len(a) = w /\ \A j \in 1 .. w : a[j] = v[j]
    BY <1>5, <2>5, <2>7
  <2>9. ":" \in Range(a)
    <3>1. n + 1 \in 1 .. w
      BY <1>6, <2>2 DEF w
    <3> QED
      BY <2>4, <2>8, <3>1 DEF Range
  <2>10. Drop(a, n + 1) = UpTo(t, "/")
    <3> DEFINE d == SubSeq(a, n + 2, w)
               s == SubSeq(t, 1, k)
    <3>1. d \in Seq(Word) /\ Len(d) = k /\ \A i \in 1 .. k : d[i] = a[n + 1 + i]
      BY <1>6, <2>2, <2>8 DEF w
    <3>2. s \in Seq(Word) /\ Len(s) = k /\ \A i \in 1 .. k : s[i] = t[i]
      BY <2>1, <2>2
    <3> HIDE DEF d, s
    <3>3. \A i \in 1 .. k : d[i] = s[i]
      <4> TAKE i \in 1 .. k
      <4>1. n + 1 + i \in 1 .. w /\ i \in 1 .. Len(t)
        BY <1>6, <2>1, <2>2 DEF w
      <4> QED
        BY <2>3, <2>8, <3>1, <3>2, <4>1
    <3>4. d = s
      BY <3>1, <3>2, <3>3, SeqEqual
    <3>5. Drop(a, n + 1) = d
      <4>1. (n + 1) + 1 = n + 2
        BY <1>6
      <4> QED
        BY <2>8, <4>1 DEF Drop, d
    <3> QED
      BY <2>2, <3>4, <3>5 DEF s
  <2>11. PortFromUrl(url) = Drop(a, n + 1)
    BY <1>3, <2>9 DEF PortFromUrl, a, n
  <2> QED
    BY <1>8, <2>10, <2>11 DEF EndpointPort, r, t
<1> QED
  BY <1>7, <1>8 DEF url

=============================================================================
