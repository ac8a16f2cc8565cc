--------------------------- MODULE ComponentProofs --------------------------
(***************************************************************************)
(* Components that share no state with others, proved one after another:   *)
(* first what inductions over finite sets and sums over them come to, then *)
(* escalations and budgets (Oversight), graphs of subagents (Subagents),   *)
(* the rollback of a working tree (GitRollback), what the verification     *)
(* engine, the judges of its evidence and its cache say (Verification),    *)
(* what the context store keeps (ContextStore), and where the records of   *)
(* the telemetry exporter are (TelemetryExport).                           *)
(***************************************************************************)
EXTENDS Oversight, Subagents, GitRollback, Verification, ContextStore,
        TelemetryExport, FiniteSetTheorems, WellFoundedInduction, TLAPS
-----------------------------------------------------------------------------
\* Induction and sums

\* Induction on the naturals for a property that is a set: the least number
\* outside of the set would have a predecessor in it.
LEMMA Naturals ==
  ASSUME NEW X, 0 \in X, \A n \in Nat : n \in X => n + 1 \in X
  PROVE  Nat \subseteq X
<1> DEFINE R == OpToRel(<, Nat)
<1>1. IsWellFoundedOn(R, Nat)
  BY NatLessThanWellFounded
<1>2. \A x, y \in Nat : x < y => <<x, y>> \in R
  BY DEF OpToRel
<1> HIDE DEF R
<1>3. SUFFICES ASSUME Nat \ X # {}
               PROVE  FALSE
  OBVIOUS
<1>4. PICK x \in Nat \ X : \A y \in Nat \ X : ~(<<y, x>> \in R)
  BY <1>1, <1>3, WFMin
<1>5. \A y \in Nat \ X : ~(y < x)
  BY <1>2, <1>4, Zenon
<1>6. x # 0 /\ x - 1 \in Nat /\ x - 1 \notin X
  BY <1>4
<1> QED
  BY <1>5, <1>6

\* The element a sum over a set takes first.
Some(s) == CHOOSE x \in s : TRUE
LEMMA SomeIsOne == \A s : s # {} => Some(s) \in s
BY DEF Some

\* Without it a finite set has one element less.
LEMMA OneLess ==
  ASSUME NEW s, IsFiniteSet(s), s # {}
  PROVE  LET r == s \ {Some(s)}
         IN  /\ IsFiniteSet(r) /\ r \subseteq s
             /\ Cardinality(s) \in Nat /\ Cardinality(r) \in Nat
             /\ Cardinality(s) = Cardinality(r) + 1
<1> DEFINE r == s \ {Some(s)}
<1>1. Some(s) \in s
  BY SomeIsOne
<1>2. IsFiniteSet(r) /\ Cardinality(r) = Cardinality(s) - 1
  BY <1>1, FS_RemoveElement
<1>3. Cardinality(s) \in Nat /\ Cardinality(r) \in Nat
  BY <1>2, FS_CardinalityType
<1> QED
  BY <1>2, <1>3

\* Induction over the subsets of a finite set, taking away the element a sum
\* takes first.
LEMMA Subsets ==
  ASSUME NEW S, IsFiniteSet(S), NEW X, {} \in X,
         \A s \in SUBSET S : s # {} /\ s \ {Some(s)} \in X => s \in X
  PROVE  SUBSET S \subseteq X
<1> DEFINE N == {n \in Nat : \A s \in SUBSET S : Cardinality(s) = n => s \in X}
<1>0. \A s \in SUBSET S : IsFiniteSet(s) /\ Cardinality(s) \in Nat
  BY FS_Subset, FS_CardinalityType
<1>1. 0 \in N
  <2>1. \A s \in SUBSET S : Cardinality(s) = 0 => s = {}
    BY FS_Subset, FS_EmptySet
  <2> QED
    BY <2>1
<1>2. ASSUME NEW n \in Nat, n \in N
      PROVE  n + 1 \in N
  <2>1. ASSUME NEW s \in SUBSET S, Cardinality(s) = n + 1
        PROVE  s \in X
    <3>1. IsFiniteSet(s)
      BY <1>0
    <3>2. s # {}
      BY <2>1, FS_EmptySet
    <3>3. Cardinality(s \ {Some(s)}) = n
      BY <1>0, <2>1, <3>1, <3>2, OneLess
    <3> QED
      BY <1>2, <3>2, <3>3
  <2> QED
    BY <2>1
<1> HIDE DEF N
<1>3. Nat \subseteq N
  BY <1>1, <1>2, Naturals
<1>4. ASSUME NEW s \in SUBSET S
      PROVE  s \in X
  <2>1. Cardinality(s) \in Nat
    BY <1>0
  <2>2. Cardinality(s) \in N
    BY <1>3, <2>1
  <2> QED
    BY <2>2 DEF N
<1> QED
  BY <1>4

\* The sum of a function over a set, by the function on all of its subsets
\* that MapThenSumSet computes it with.
Sum(f, S) == MapThenSumSet(LAMBDA x : f[x], S)
SumStep(f, g, s) == IF s = {} THEN 0 ELSE f[Some(s)] + g[s \ {Some(s)}]
Partial(f, S) == CHOOSE g : g = [s \in SUBSET S |-> SumStep(f, g, s)]

LEMMA SumIsPartial == \A f, S : Sum(f, S) = Partial(f, S)[S]
BY DEF Sum, Partial, SumStep, Some, MapThenSumSet, MapThenFoldSet

\* That function exists: on the subsets of up to n elements for every n.
LEMMA PartialExists ==
  ASSUME NEW S, IsFiniteSet(S), NEW f
  PROVE  Partial(f, S) = [s \in SUBSET S |-> SumStep(f, Partial(f, S), s)]
<1> DEFINE D(n) == {s \in SUBSET S : Cardinality(s) <= n}
           Fits(g, n) == g = [s \in D(n) |-> SumStep(f, g, s)]
           N == {n \in Nat : \E g : Fits(g, n)}
<1>0. \A s \in SUBSET S : IsFiniteSet(s) /\ Cardinality(s) \in Nat
  BY FS_Subset, FS_CardinalityType
<1>1. 0 \in N
  <2>1. D(0) = {{}}
    <3>1. \A s \in SUBSET S : Cardinality(s) <= 0 <=> s = {}
      BY <1>0, FS_EmptySet
    <3> QED
      BY <3>1
  <2> DEFINE g == [s \in D(0) |-> 0]
  <2>2. [s \in D(0) |-> SumStep(f, g, s)] = g
    BY <2>1 DEF SumStep
  <2>3. Fits(g, 0)
    BY <2>2
  <2> QED
    BY <2>3
<1>2. ASSUME NEW n \in Nat, n \in N
      PROVE  n + 1 \in N
  <2>1. PICK g : Fits(g, n)
    BY <1>2
  <2> DEFINE h == [s \in D(n + 1) |-> SumStep(f, g, s)]
  <2>2. ASSUME NEW s \in D(n + 1)
        PROVE  h[s] = SumStep(f, h, s)
    <3>1. CASE s = {}
      BY <3>1 DEF SumStep
    <3>2. CASE s # {}
      <4>1. s \ {Some(s)} \in D(n)
        <5>1. Cardinality(s) = Cardinality(s \ {Some(s)}) + 1
          BY <1>0, <3>2, OneLess
        <5>2. Cardinality(s \ {Some(s)}) \in Nat /\ Cardinality(s) <= n + 1
          BY <1>0, <2>2
        <5> QED
          BY <5>1, <5>2
      <4>2. D(n) \subseteq D(n + 1)
        BY <1>0
      <4>3. g[s \ {Some(s)}] = SumStep(f, g, s \ {Some(s)})
        <5> HIDE DEF D
        <5> QED
          BY <2>1, <4>1
      <4>4. h[s \ {Some(s)}] = g[s \ {Some(s)}]
        <5> HIDE DEF D
        <5> QED
          BY <4>1, <4>2, <4>3
      <4>5. h[s] = f[Some(s)] + g[s \ {Some(s)}]
        BY <2>2, <3>2 DEF SumStep
      <4> QED
        BY <3>2, <4>4, <4>5 DEF SumStep
    <3> QED
      BY <3>1, <3>2
  <2>3. Fits(h, n + 1)
    <3> DEFINE k == [s \in D(n + 1) |-> SumStep(f, h, s)]
    <3>1. \A s \in D(n + 1) : h[s] = k[s]
      BY <2>2
    <3> QED
      BY <3>1
  <2> HIDE DEF h, Fits
  <2> QED
    BY <2>3
<1> HIDE DEF N
<1>3. Nat \subseteq N
  BY <1>1, <1>2, Naturals
<1>4. D(Cardinality(S)) = SUBSET S
  BY <1>0, FS_Subset
<1>5. Cardinality(S) \in N
  BY <1>3, FS_CardinalityType
<1>6. \E g : g = [s \in SUBSET S |-> SumStep(f, g, s)]
  BY <1>4, <1>5 DEF N
<1> QED
  BY <1>6 DEF Partial

\* One term after the other, down to nothing.
LEMMA PartialStep ==
  ASSUME NEW S, IsFiniteSet(S), NEW f
  PROVE  /\ Partial(f, S)[{}] = 0
         /\ \A s \in SUBSET S : s # {} =>
              /\ Some(s) \in s /\ s \ {Some(s)} \in SUBSET S
              /\ Partial(f, S)[s] = f[Some(s)] + Partial(f, S)[s \ {Some(s)}]
<1> DEFINE p == Partial(f, S)
<1>1. p = [s \in SUBSET S |-> SumStep(f, p, s)]
  BY PartialExists
<1> HIDE DEF p
<1>2. \A s \in SUBSET S : p[s] = SumStep(f, p, s)
  BY <1>1
<1> QED
  BY <1>2, SomeIsOne DEF SumStep, p

\* A sum of naturals is one.
LEMMA SumNatural ==
  ASSUME NEW S, IsFiniteSet(S), NEW f \in [S -> Nat]
  PROVE  Sum(f, S) \in Nat
<1> DEFINE X == {s \in SUBSET S : Partial(f, S)[s] \in Nat}
<1>1. {} \in X
  BY PartialStep
<1>2. ASSUME NEW s \in SUBSET S, s # {}, s \ {Some(s)} \in X
      PROVE  s \in X
  <2>1. /\ Some(s) \in s
        /\ Partial(f, S)[s] = f[Some(s)] + Partial(f, S)[s \ {Some(s)}]
    BY <1>2, PartialStep
  <2> QED
    BY <1>2, <2>1
<1> HIDE DEF X
<1>3. SUBSET S \subseteq X
  BY <1>1, <1>2, Subsets
<1> QED
  BY <1>3, SumIsPartial DEF X

\* A sum of zeros is zero.
LEMMA SumOfNone ==
  ASSUME NEW S, IsFiniteSet(S), NEW f, \A x \in S : f[x] = 0
  PROVE  Sum(f, S) = 0
<1> DEFINE X == {s \in SUBSET S : Partial(f, S)[s] = 0}
<1>1. {} \in X
  BY PartialStep
<1>2. \A s \in SUBSET S : s # {} /\ s \ {Some(s)} \in X => s \in X
  BY PartialStep
<1> HIDE DEF X
<1>3. SUBSET S \subseteq X
  BY <1>1, <1>2, Subsets
<1> QED
  BY <1>3, SumIsPartial DEF X

\* A sum moves with each of its terms.
LEMMA SumMoves ==
  ASSUME NEW S, IsFiniteSet(S), NEW f \in [S -> Int], NEW g \in [S -> Int],
         NEW a \in S, \A x \in S \ {a} : g[x] = f[x]
  PROVE  Sum(g, S) = Sum(f, S) + g[a] - f[a]
<1> DEFINE F == Partial(f, S)
           G == Partial(g, S)
           Moved(s) == IF a \in s THEN g[a] - f[a] ELSE 0
           X == {s \in SUBSET S : F[s] \in Int /\ G[s] = F[s] + Moved(s)}
<1>1. {} \in X
  BY PartialStep
<1>2. ASSUME NEW s \in SUBSET S, s # {}, s \ {Some(s)} \in X
      PROVE  s \in X
  <2> DEFINE r == s \ {Some(s)}
  <2>0. Some(s) \in s /\ F[s] = f[Some(s)] + F[r]
    BY <1>2, PartialStep
  <2>1. Some(s) \in S /\ F[s] = f[Some(s)] + F[r] /\ G[s] = g[Some(s)] + G[r]
    <3>1. G[s] = g[Some(s)] + G[r]
      BY <1>2, PartialStep
    <3> QED
      BY <2>0, <3>1
  <2>2. F[r] \in Int /\ G[r] = F[r] + Moved(r)
    BY <1>2
  <2> HIDE DEF F, G
  <2>3. CASE Some(s) = a
    <3>1. Moved(r) = 0 /\ Moved(s) = g[a] - f[a]
      BY <1>2, <2>3, SomeIsOne
    <3> QED
      BY <2>1, <2>2, <2>3, <3>1
  <2>4. CASE Some(s) # a
    <3>1. Moved(r) = Moved(s) /\ g[Some(s)] = f[Some(s)]
      BY <2>1, <2>4
    <3>2. Moved(s) \in Int
      OBVIOUS
    <3> HIDE DEF Moved
    <3> QED
      BY <2>1, <2>2, <3>1, <3>2
  <2> QED
    BY <2>3, <2>4
<1> HIDE DEF X
<1>3. SUBSET S \subseteq X
  BY <1>1, <1>2, Subsets
<1>4. S \in X
  BY <1>3
<1> QED
  BY <1>4, SumIsPartial DEF X

\* A sum with a term of zero is at most the largest term for each of the others.
LEMMA SumBelow ==
  ASSUME NEW S, IsFiniteSet(S), NEW f \in [S -> Nat], NEW a \in S, f[a] = 0,
         NEW M \in Nat, \A x \in S : f[x] <= M
  PROVE  Sum(f, S) <= (Cardinality(S) - 1) * M
<1> DEFINE F == Partial(f, S)
           N(s) == Cardinality(s \ {a})
           X == {s \in SUBSET S : F[s] \in Int /\ F[s] <= N(s) * M}
<1>0. \A s \in SUBSET S : IsFiniteSet(s) /\ Cardinality(s) \in Nat
  BY FS_Subset, FS_CardinalityType
<1>1. {} \in X
  <2>1. N({}) = 0
    BY FS_EmptySet
  <2>2. F[{}] = 0
    BY PartialStep
  <2> QED
    BY <2>1, <2>2
<1>2. ASSUME NEW s \in SUBSET S, s # {}, s \ {Some(s)} \in X
      PROVE  s \in X
  <2> DEFINE r == s \ {Some(s)}
  <2>1. Some(s) \in s /\ F[s] = f[Some(s)] + F[r]
    BY <1>2, PartialStep
  <2>2. F[r] \in Int /\ F[r] <= N(r) * M
    BY <1>2
  <2>3. N(r) \in Nat /\ N(s) \in Nat
    BY <1>0
  <2> HIDE DEF F
  <2>4. CASE Some(s) = a
    <3>1. r \ {a} = s \ {a}
      BY <2>4
    <3> QED
      BY <2>1, <2>2, <2>4, <3>1
  <2>5. CASE Some(s) # a
    <3>1. r \ {a} = (s \ {a}) \ {Some(s)} /\ Some(s) \in s \ {a}
      BY <2>1, <2>5
    <3>2. IsFiniteSet(s \ {a})
      BY <1>0
    <3> DEFINE q == s \ {a}
    <3>3. N(r) = N(s) - 1
      <4>1. Cardinality(q \ {Some(s)}) = Cardinality(q) - 1
        BY <3>1, <3>2, FS_RemoveElement
      <4> QED
        BY <3>1, <4>1
    <3>4. f[Some(s)] \in Nat /\ f[Some(s)] <= M
      BY <2>1
    <3> HIDE DEF N
    <3>5. N(s) * M = N(r) * M + M
      BY <2>3, <3>3
    <3>6. N(r) * M \in Int
      BY <2>3
    <3> QED
      BY <2>1, <2>2, <3>4, <3>5, <3>6
  <2> QED
    BY <2>4, <2>5
<1> HIDE DEF X
<1>3. SUBSET S \subseteq X
  BY <1>1, <1>2, Subsets
<1>4. S \in X
  BY <1>3
<1>5. N(S) = Cardinality(S) - 1
  BY FS_RemoveElement
<1> QED
  BY <1>4, <1>5, SumIsPartial DEF X

\* A finite set of naturals has a largest element.
LEMMA Largest ==
  ASSUME NEW S, IsFiniteSet(S), S \subseteq Nat, S # {}
  PROVE  Max(S) \in S /\ \A x \in S : x <= Max(S)
<1> DEFINE X == {s \in SUBSET S : s # {} => \E m \in s : \A x \in s : x <= m}
<1>1. {} \in X
  OBVIOUS
<1>2. ASSUME NEW s \in SUBSET S, s # {}, s \ {Some(s)} \in X
      PROVE  s \in X
  <2>1. Some(s) \in s
    BY <1>2, SomeIsOne
  <2>2. CASE s \ {Some(s)} = {}
    <3>1. \A x \in s : x = Some(s) /\ x \in Nat
      BY <2>2
    <3>2. \A x \in s : x <= Some(s)
      BY <3>1
    <3> QED
      BY <2>1, <3>2
  <2>3. CASE s \ {Some(s)} # {}
    <3>1. PICK m \in s \ {Some(s)} : \A x \in s \ {Some(s)} : x <= m
      BY <1>2, <2>3
    <3>2. CASE Some(s) <= m
      <4>1. \A x \in s : x <= m
        BY <3>1, <3>2
      <4> QED
        BY <3>1, <4>1
    <3>3. CASE ~(Some(s) <= m)
      <4>0. Some(s) \in Nat /\ m \in Nat /\ \A x \in s : x \in Nat
        BY <2>1
      <4>1. \A x \in s : x <= Some(s)
        BY <3>1, <3>3, <4>0
      <4> QED
        BY <2>1, <4>1
    <3> QED
      BY <3>2, <3>3
  <2> QED
    BY <2>2, <2>3
<1> HIDE DEF X
<1>3. SUBSET S \subseteq X
  BY <1>1, <1>2, Subsets
<1>4. \E m \in S : \A x \in S : m >= x
  BY <1>3 DEF X
<1>5. Max(S) \in S /\ \A x \in S : Max(S) >= x
  BY <1>4 DEF Max
<1> QED
  BY <1>5

\* A sum of terms that are all at least m.
LEMMA SumAbove ==
  ASSUME NEW S, IsFiniteSet(S), NEW f \in [S -> Nat], NEW m \in Nat, \A x \in S : f[x] >= m
  PROVE  Sum(f, S) >= m * Cardinality(S)
<1> DEFINE F == Partial(f, S)
           X == {s \in SUBSET S : F[s] \in Int /\ F[s] >= m * Cardinality(s)}
<1>0. \A s \in SUBSET S : IsFiniteSet(s) /\ Cardinality(s) \in Nat
  BY FS_Subset, FS_CardinalityType
<1>1. {} \in X
  <2>1. F[{}] = 0 /\ Cardinality({}) = 0
    BY PartialStep, FS_EmptySet
  <2> QED
    BY <2>1
<1>2. ASSUME NEW s \in SUBSET S, s # {}, s \ {Some(s)} \in X
      PROVE  s \in X
  <2> DEFINE r == s \ {Some(s)}
  <2>1. Some(s) \in s /\ F[s] = f[Some(s)] + F[r]
    BY <1>2, PartialStep
  <2>2. F[r] \in Int /\ F[r] >= m * Cardinality(r)
    BY <1>2
  <2>3. Cardinality(r) \in Nat /\ Cardinality(s) = Cardinality(r) + 1
    BY <1>0, <1>2, OneLess
  <2>4. f[Some(s)] \in Nat /\ f[Some(s)] >= m
    BY <2>1
  <2> HIDE DEF F, r
  <2>5. m * Cardinality(s) = m * Cardinality(r) + m /\ m * Cardinality(r) \in Int
    BY <2>3
  <2>6. F[s] \in Int /\ F[s] >= m * Cardinality(s)
    BY <2>1, <2>2, <2>4, <2>5
  <2> QED
    BY <2>6
<1> HIDE DEF X
<1>3. SUBSET S \subseteq X
  BY <1>1, <1>2, Subsets
<1> QED
  BY <1>3, SumIsPartial DEF X

\* The sum of a field is that of the function that gives it.
LEMMA SumOfField ==
  ASSUME NEW S, IsFiniteSet(S)
  PROVE  MapThenSumSet(LAMBDA e : e.confidence, S) = Sum([e \in S |-> e.confidence], S)
<1> DEFINE f == [e \in S |-> e.confidence]
           Field(g, s) == IF s = {} THEN 0 ELSE Some(s).confidence + g[s \ {Some(s)}]
           q == CHOOSE g : g = [s \in SUBSET S |-> Field(g, s)]
           p == Partial(f, S)
<1>1. MapThenSumSet(LAMBDA e : e.confidence, S) = q[S]
  BY DEF Some, MapThenSumSet, MapThenFoldSet
<1>2. p = [s \in SUBSET S |-> SumStep(f, p, s)]
  BY PartialExists
<1>3. \A s \in SUBSET S : SumStep(f, p, s) = Field(p, s)
  BY SomeIsOne DEF SumStep
<1>4. p = [s \in SUBSET S |-> Field(p, s)]
  <2> HIDE DEF p, Field
  <2> QED
    BY <1>2, <1>3
<1>5. q = [s \in SUBSET S |-> Field(q, s)]
  <2> HIDE DEF p, Field
  <2> QED
    BY <1>4
<1>6. /\ \A s \in SUBSET S : p[s] = Field(p, s)
      /\ \A s \in SUBSET S : q[s] = Field(q, s)
  <2> HIDE DEF p, q, Field
  <2>1. \A s \in SUBSET S : p[s] = Field(p, s)
    BY <1>4
  <2>2. \A s \in SUBSET S : q[s] = Field(q, s)
    BY <1>5
  <2> QED
    BY <2>1, <2>2
<1> HIDE DEF p, q
<1> DEFINE X == {s \in SUBSET S : p[s] = q[s]}
<1>7. {} \in X
  BY <1>6
<1>8. ASSUME NEW s \in SUBSET S, s # {}, s \ {Some(s)} \in X
      PROVE  s \in X
  BY <1>6, <1>8
<1> HIDE DEF X
<1>9. SUBSET S \subseteq X
  BY <1>7, <1>8, Subsets
<1> QED
  BY <1>1, <1>9, SumIsPartial DEF X, p
\* A sum only looks at the terms it adds up.
LEMMA PartialAgrees ==
  ASSUME NEW S, IsFiniteSet(S), NEW T, IsFiniteSet(T), NEW R \in SUBSET (S \cap T), NEW f, NEW g,
         \A x \in R : f[x] = g[x]
  PROVE  Partial(f, S)[R] = Partial(g, T)[R]
<1> DEFINE X == {s \in SUBSET R : Partial(f, S)[s] = Partial(g, T)[s]}
<1>0. IsFiniteSet(R)
  BY FS_Subset
<1>1. {} \in X
  BY PartialStep
<1>2. ASSUME NEW s \in SUBSET R, s # {}, s \ {Some(s)} \in X
      PROVE  s \in X
  <2>0. s \in SUBSET S /\ s \in SUBSET T /\ Some(s) \in R
    BY <1>2, SomeIsOne
  <2>1. Partial(f, S)[s] = f[Some(s)] + Partial(f, S)[s \ {Some(s)}]
    BY <1>2, <2>0, PartialStep
  <2>2. Partial(g, T)[s] = g[Some(s)] + Partial(g, T)[s \ {Some(s)}]
    <3>1. \A t \in SUBSET T : t # {} =>
             Partial(g, T)[t] = g[Some(t)] + Partial(g, T)[t \ {Some(t)}]
      BY PartialStep
    <3> QED
      BY <1>2, <2>0, <3>1
  <2> QED
    BY <1>2, <2>0, <2>1, <2>2
<1> HIDE DEF X
<1>3. SUBSET R \subseteq X
  BY <1>0, <1>1, <1>2, Subsets
<1> QED
  BY <1>3 DEF X

LEMMA SumAgrees ==
  ASSUME NEW S, IsFiniteSet(S), NEW f, NEW g, \A x \in S : f[x] = g[x]
  PROVE  Sum(f, S) = Sum(g, S)
<1>1. S \in SUBSET (S \cap S)
  OBVIOUS
<1>2. Partial(f, S)[S] = Partial(g, S)[S]
  BY <1>1, PartialAgrees
<1> QED
  BY <1>2, SumIsPartial

\* A sum of integers is one.
LEMMA PartialIsInt ==
  ASSUME NEW S, IsFiniteSet(S), NEW f, \A x \in S : f[x] \in Int, NEW R \in SUBSET S
  PROVE  Partial(f, S)[R] \in Int
<1> DEFINE X == {s \in SUBSET S : Partial(f, S)[s] \in Int}
<1>1. {} \in X
  BY PartialStep
<1>2. ASSUME NEW s \in SUBSET S, s # {}, s \ {Some(s)} \in X
      PROVE  s \in X
  <2>1. /\ Some(s) \in s
        /\ Partial(f, S)[s] = f[Some(s)] + Partial(f, S)[s \ {Some(s)}]
    BY <1>2, PartialStep
  <2> QED
    BY <1>2, <2>1
<1> HIDE DEF X
<1>3. SUBSET S \subseteq X
  BY <1>1, <1>2, Subsets
<1> QED
  BY <1>3 DEF X

\* Any of the terms may be taken out first.
LEMMA SumSplits ==
  ASSUME NEW S, IsFiniteSet(S), NEW f, \A x \in S : f[x] \in Int, NEW a \in S
  PROVE  /\ Sum(f, S \ {a}) \in Int
         /\ Sum(f, S) = f[a] + Sum(f, S \ {a})
<1> DEFINE F == Partial(f, S)
           N == {n \in Nat : \A s \in SUBSET S : Cardinality(s) = n =>
                   /\ F[s] \in Int
                   /\ \A x \in s : F[s] = f[x] + F[s \ {x}]}
<1>0. \A s \in SUBSET S : IsFiniteSet(s) /\ Cardinality(s) \in Nat
  BY FS_Subset, FS_CardinalityType
<1>1. 0 \in N
  <2>1. \A s \in SUBSET S : Cardinality(s) = 0 => s = {}
    BY FS_Subset, FS_EmptySet
  <2>2. F[{}] = 0
    BY PartialStep
  <2> HIDE DEF F
  <2> QED
    BY <2>1, <2>2
<1>2. ASSUME NEW n \in Nat, n \in N
      PROVE  n + 1 \in N
  <2> SUFFICES ASSUME NEW s \in SUBSET S, Cardinality(s) = n + 1
               PROVE  /\ F[s] \in Int
                      /\ \A x \in s : F[s] = f[x] + F[s \ {x}]
    OBVIOUS
  <2> DEFINE y == Some(s)
  <2>1. \A x \in s : /\ s \ {x} \in SUBSET S /\ Cardinality(s \ {x}) = n
                     /\ f[x] \in Int
    BY <1>0, FS_RemoveElement
  <2>2. s # {}
    BY FS_EmptySet
  <2>3. y \in s /\ F[s] = f[y] + F[s \ {y}]
    BY <2>2, PartialStep
  <2>4. \A x \in s : /\ F[s \ {x}] \in Int
                     /\ \A z \in s \ {x} : F[s \ {x}] = f[z] + F[(s \ {x}) \ {z}]
    BY <1>2, <2>1
  <2> HIDE DEF y, F
  <2>5. F[s] \in Int
    BY PartialIsInt DEF F
  <2>6. ASSUME NEW x \in s
        PROVE  F[s] = f[x] + F[s \ {x}]
    <3>1. CASE x = y
      BY <2>3, <3>1
    <3>2. CASE x # y
      <4>1. F[s \ {y}] = f[x] + F[(s \ {y}) \ {x}]
        BY <2>3, <2>4, <3>2
      <4>2. F[s \ {x}] = f[y] + F[(s \ {x}) \ {y}]
        BY <2>3, <2>4, <3>2
      <4>3. (s \ {y}) \ {x} = (s \ {x}) \ {y}
        OBVIOUS
      <4> DEFINE rest == F[(s \ {x}) \ {y}]
      <4>4. F[s] = f[y] + (f[x] + rest) /\ F[s \ {x}] = f[y] + rest
        BY <2>3, <4>1, <4>2, <4>3
      <4>5. rest \in Int
        BY PartialIsInt DEF F
      <4> HIDE DEF rest
      <4> QED
        BY <2>1, <2>3, <4>4, <4>5
    <3> QED
      BY <3>1, <3>2
  <2> QED
    BY <2>5, <2>6
<1> HIDE DEF N
<1>3. Nat \subseteq N
  BY <1>1, <1>2, Naturals
<1>4. F[S] = f[a] + F[S \ {a}] /\ F[S \ {a}] \in Int
  BY <1>0, <1>3 DEF N
<1>5. F[S] = Sum(f, S) /\ F[S \ {a}] = Sum(f, S \ {a})
  <2>1. S \ {a} \in SUBSET (S \cap (S \ {a})) /\ IsFiniteSet(S \ {a})
    BY <1>0
  <2>2. Partial(f, S)[S \ {a}] = Partial(f, S \ {a})[S \ {a}]
    BY <2>1, PartialAgrees
  <2> QED
    BY <2>2, SumIsPartial DEF F
<1> QED
  BY <1>4, <1>5

LEMMA SumGrows ==
  ASSUME NEW S, IsFiniteSet(S), NEW f, NEW g, NEW a, a \notin S,
         \A x \in S : f[x] = g[x] /\ g[x] \in Int, g[a] \in Int
  PROVE  Sum(g, S \cup {a}) = Sum(f, S) + g[a] /\ Sum(f, S) \in Int
<1>1. IsFiniteSet(S \cup {a}) /\ (S \cup {a}) \ {a} = S
  BY FS_AddElement
<1>2. Sum(g, S) \in Int /\ Sum(g, S \cup {a}) = g[a] + Sum(g, S)
  BY <1>1, SumSplits
<1>3. Sum(f, S) = Sum(g, S)
  BY SumAgrees
<1> QED
  BY <1>2, <1>3

-----------------------------------------------------------------------------
\* Oversight: escalations

\* Who is still deciding about a request that is pending began in time.
BegunInTime ==
  \A c \in deciding : requests[c.id].status = "PENDING" => c.since < requests[c.id].expires
EscalationInv == OversightTypeOK /\ BegunInTime /\ DecisionsAreTimely

Statuses == {"PENDING", "EXPIRED", "RESOLVED"}
EscalationRequests == [status: Statuses, expires: Nat]
Decided(id) == {i \in DOMAIN trail : trail[i].id = id}
Heard(id) ==
  \A i \in Decided(id) :
    /\ \E j \in Decided(id) : trail[j].since < requests[id].expires /\ j <= i
    /\ [id |-> id, outcome |-> Outcome(trail[i].decision)] \in feedback

\* DecisionsAreTimely, request by request.
LEMMA TimelyById ==
  DecisionsAreTimely <=>
    \A id \in DOMAIN requests :
      (requests[id].status = "RESOLVED" <=> Decided(id) # {}) /\ Heard(id)
BY DEF DecisionsAreTimely, Decided, Heard

\* What the types say of a request, a decision and a call.
LEMMA EscalationTypes ==
  ASSUME OversightTypeOK
  PROVE  /\ now \in Nat /\ requests \in Seq(EscalationRequests)
         /\ \A id \in DOMAIN requests : requests[id] \in EscalationRequests
         /\ \A i \in DOMAIN trail : trail[i].id \in DOMAIN requests
         /\ \A c \in deciding : c.id \in DOMAIN requests /\ c.since \in Nat
<1> DEFINE D == [id: DOMAIN requests, decision: Decisions, since: Nat]
<1>1. trail \in Seq(D) /\ deciding \subseteq D /\ requests \in Seq(EscalationRequests) /\ now \in Nat
  BY DEF OversightTypeOK, EscalationRequests, Statuses
<1>2. \A i \in DOMAIN trail : trail[i] \in D
  <2> HIDE DEF D
  <2> QED
    BY <1>1
<1>3. \A id \in DOMAIN requests : requests[id] \in EscalationRequests
  BY <1>1
<1> QED
  BY <1>1, <1>2, <1>3

\* A look at a request may only make it expire.
LEMMA CheckedKeeps ==
  ASSUME NEW r \in EscalationRequests, now \in Nat
  PROVE  /\ Checked(r) \in EscalationRequests /\ Checked(r).expires = r.expires
         /\ Checked(r).status = "RESOLVED" <=> r.status = "RESOLVED"
         /\ Checked(r).status = "PENDING" => r.status = "PENDING" /\ now < r.expires
BY DEF Checked, HasExpired, EscalationRequests, Statuses

\* Steps that only look at requests, add one, or begin to decide.
LEMMA LookKeeps ==
  ASSUME EscalationInv,
         requests' \in Seq(EscalationRequests), DOMAIN requests \subseteq DOMAIN requests',
         \A id \in DOMAIN requests :
           /\ requests'[id].expires = requests[id].expires
           /\ requests'[id].status = "RESOLVED" <=> requests[id].status = "RESOLVED"
           /\ requests'[id].status = "PENDING" => requests[id].status = "PENDING",
         \A id \in DOMAIN requests' \ DOMAIN requests : requests'[id].status = "PENDING",
         trail' = trail, feedback' = feedback
  PROVE  DecisionsAreTimely'
<1>1. \A id \in DOMAIN requests' \ DOMAIN requests : Decided(id) = {}
  BY EscalationTypes DEF EscalationInv, Decided
<1>2. \A id : Decided(id)' = Decided(id)
  BY DEF Decided
<1>3. \A id \in DOMAIN requests : Heard(id) /\ (requests[id].status = "RESOLVED" <=> Decided(id) # {})
  BY TimelyById DEF EscalationInv
<1>4. ASSUME NEW id \in DOMAIN requests'
      PROVE  (requests'[id].status = "RESOLVED" <=> Decided(id) # {}) /\ Heard(id)'
  <2>1. CASE id \in DOMAIN requests
    BY <1>2, <1>3, <2>1 DEF Heard
  <2>2. CASE id \notin DOMAIN requests
    BY <1>1, <1>2, <2>2 DEF Heard
  <2> QED
    BY <2>1, <2>2
<1> QED
  BY <1>2, <1>4 DEF DecisionsAreTimely, Decided, Heard

ToDecide == [id: DOMAIN requests, decision: Decisions, since: Nat]

\* More requests have room for the decisions there are.
LEMMA TypeMoves ==
  ASSUME OversightTypeOK, UNCHANGED moneyVars, now' \in Nat,
         requests' \in Seq(EscalationRequests), DOMAIN requests \subseteq DOMAIN requests',
         \/ trail' = trail
         \/ DOMAIN requests' = DOMAIN requests /\ trail' \in Seq(ToDecide),
         deciding' \subseteq ToDecide'
  PROVE  OversightTypeOK'
<1>1. trail' \in Seq(ToDecide')
  <2>1. ToDecide \subseteq ToDecide'
    BY DEF ToDecide
  <2>2. trail \in Seq(ToDecide)
    BY DEF OversightTypeOK, ToDecide
  <2>3. CASE trail' = trail
    <3>1. DOMAIN trail = 1..Len(trail) /\ Len(trail) \in Nat /\ \A i \in 1..Len(trail) : trail[i] \in ToDecide
      BY <2>2
    <3>2. trail \in [1..Len(trail) -> ToDecide']
      BY <2>1, <2>2, <3>1
    <3> QED
      BY <2>3, <3>1, <3>2
  <2>4. CASE DOMAIN requests' = DOMAIN requests /\ trail' \in Seq(ToDecide)
    BY <2>4 DEF ToDecide
  <2> QED
    BY <2>3, <2>4
<1> QED
  BY <1>1 DEF OversightTypeOK, ToDecide, EscalationRequests, Statuses, moneyVars

\* A new request has no decision yet.
LEMMA RequestKeeps ==
  ASSUME EscalationInv, RequestEscalation
  PROVE  EscalationInv'
<1> DEFINE r == [status |-> "PENDING", expires |-> now + Ttl]
<1>0. OversightTypeOK /\ BegunInTime
  BY DEF EscalationInv
<1>1. r \in EscalationRequests
  BY <1>0, EscalationTypes, OversightConstants DEF EscalationRequests, Statuses
<1>2. requests \in Seq(EscalationRequests) /\ requests' = Append(requests, r)
  BY <1>0, EscalationTypes DEF RequestEscalation
<1> HIDE DEF r
<1>3. /\ requests' \in Seq(EscalationRequests)
      /\ DOMAIN requests \subseteq DOMAIN requests'
      /\ \A id \in DOMAIN requests : requests'[id] = requests[id]
      /\ \A id \in DOMAIN requests' \ DOMAIN requests : requests'[id] = r
  BY <1>1, <1>2
<1>4. UNCHANGED <<now, deciding, trail, feedback, moneyVars>>
  BY DEF RequestEscalation
<1>5. OversightTypeOK'
  <2>1. deciding \subseteq ToDecide'
    BY <1>0, <1>3 DEF OversightTypeOK, ToDecide
  <2>2. now' \in Nat
    BY <1>0, <1>4 DEF OversightTypeOK
  <2> QED
    BY <1>0, <1>3, <1>4, <2>1, <2>2, TypeMoves
<1>6. BegunInTime'
  BY <1>0, <1>3, <1>4, EscalationTypes DEF BegunInTime
<1>7. DecisionsAreTimely'
  BY <1>3, <1>4, LookKeeps DEF r
<1> QED
  BY <1>5, <1>6, <1>7 DEF EscalationInv

\* Time passes.
LEMMA TickKeeps ==
  ASSUME EscalationInv, Tick
  PROVE  EscalationInv'
<1>0. OversightTypeOK /\ BegunInTime
  BY DEF EscalationInv
<1>1. now' \in Nat /\ UNCHANGED <<requests, deciding, trail, feedback, moneyVars>>
  BY <1>0 DEF Tick, OversightTypeOK
<1>2. OversightTypeOK'
  <2>1. requests' \in Seq(EscalationRequests) /\ deciding' \subseteq ToDecide'
    BY <1>0, <1>1 DEF OversightTypeOK, ToDecide, EscalationRequests, Statuses
  <2> QED
    BY <1>0, <1>1, <2>1, TypeMoves
<1>3. BegunInTime'
  BY <1>0, <1>1 DEF BegunInTime
<1>4. DecisionsAreTimely'
  BY <1>1 DEF EscalationInv, DecisionsAreTimely
<1> QED
  BY <1>2, <1>3, <1>4 DEF EscalationInv

\* A check, and with it the beginning of a decision.
LEMMA LookAtKeeps ==
  ASSUME EscalationInv, NEW id \in DOMAIN requests,
         requests' = [requests EXCEPT ![id] = Checked(@)],
         UNCHANGED <<now, trail, feedback, moneyVars>>,
         \/ deciding' = deciding
         \/ \E d \in Decisions :
              deciding' = deciding \cup {[id |-> id, decision |-> d, since |-> now]}
  PROVE  EscalationInv'
<1>0. OversightTypeOK /\ BegunInTime
  BY DEF EscalationInv
<1>1. requests \in Seq(EscalationRequests) /\ requests[id] \in EscalationRequests /\ now \in Nat
  BY <1>0, EscalationTypes
<1>2. /\ Checked(requests[id]) \in EscalationRequests
      /\ Checked(requests[id]).expires = requests[id].expires
      /\ Checked(requests[id]).status = "RESOLVED" <=> requests[id].status = "RESOLVED"
      /\ Checked(requests[id]).status = "PENDING" =>
           requests[id].status = "PENDING" /\ now < requests[id].expires
  BY <1>1, CheckedKeeps
<1>3. /\ requests' \in Seq(EscalationRequests) /\ DOMAIN requests' = DOMAIN requests
      /\ requests'[id] = Checked(requests[id])
      /\ \A x \in DOMAIN requests \ {id} : requests'[x] = requests[x]
  <2> DEFINE c == Checked(requests[id])
  <2>1. c \in EscalationRequests /\ requests' = [requests EXCEPT ![id] = c]
    BY <1>2
  <2> HIDE DEF c
  <2> QED
    BY <1>1, <2>1
<1>4. \A x \in DOMAIN requests :
        /\ requests'[x].expires = requests[x].expires
        /\ requests'[x].status = "RESOLVED" <=> requests[x].status = "RESOLVED"
        /\ requests'[x].status = "PENDING" => requests[x].status = "PENDING"
  BY <1>2, <1>3
<1>5. DecisionsAreTimely'
  BY <1>3, <1>4, LookKeeps
<1>6. OversightTypeOK'
  <2>1. deciding' \subseteq ToDecide'
    BY <1>0, <1>1, <1>3 DEF OversightTypeOK, ToDecide
  <2> QED
    BY <1>0, <1>1, <1>3, <2>1, TypeMoves
<1>7. BegunInTime'
  <2>1. ASSUME NEW c \in deciding' \ deciding
        PROVE  c.id = id /\ c.since = now
    <3>1. PICK d \in Decisions :
            deciding' = deciding \cup {[id |-> id, decision |-> d, since |-> now]}
      BY <2>1
    <3>2. c = [id |-> id, decision |-> d, since |-> now]
      BY <2>1, <3>1
    <3> QED
      BY <3>2
  <2>2. \A c \in deciding : c.id \in DOMAIN requests
    BY <1>0, EscalationTypes
  <2> QED
    BY <1>0, <1>2, <1>3, <1>4, <2>1, <2>2 DEF BegunInTime
<1> QED
  BY <1>5, <1>6, <1>7 DEF EscalationInv

\* A decision that is heard is the first about its request, and was begun in
\* time, or comes after one that was.
LEMMA FinishKeeps ==
  ASSUME EscalationInv, NEW call \in deciding, FinishResolve(call)
  PROVE  EscalationInv'
<1>0. OversightTypeOK /\ BegunInTime /\ DecisionsAreTimely
  BY DEF EscalationInv
<1>1. /\ deciding' = deciding \ {call} /\ UNCHANGED <<now, moneyVars>>
      /\ call.id \in DOMAIN requests /\ call.since \in Nat /\ call \in ToDecide
  BY <1>0, EscalationTypes DEF FinishResolve, OversightTypeOK, ToDecide
<1>2. CASE ~Decidable(call.id)
  <2>1. UNCHANGED <<requests, trail, feedback>>
    BY <1>2 DEF FinishResolve
  <2>2. OversightTypeOK' /\ BegunInTime'
    BY <1>0, <1>1, <2>1 DEF OversightTypeOK, BegunInTime, moneyVars
  <2>3. DecisionsAreTimely'
    BY <1>0, <2>1 DEF DecisionsAreTimely
  <2> QED
    BY <2>2, <2>3 DEF EscalationInv
<1>3. CASE Decidable(call.id)
  <2> DEFINE said == [id |-> call.id, outcome |-> Outcome(call.decision)]
  <2>1. /\ requests' = [requests EXCEPT ![call.id].status = "RESOLVED"]
        /\ trail' = Append(trail, call)
        /\ feedback' = feedback \cup {said}
    BY <1>3 DEF FinishResolve
  <2>2. /\ requests \in Seq(EscalationRequests) /\ requests[call.id] \in EscalationRequests
        /\ trail \in Seq(ToDecide) /\ now \in Nat
    BY <1>0, <1>1, EscalationTypes DEF OversightTypeOK, ToDecide
  <2>3. /\ requests' \in Seq(EscalationRequests) /\ DOMAIN requests' = DOMAIN requests
        /\ \A x \in DOMAIN requests \ {call.id} : requests'[x] = requests[x]
        /\ requests'[call.id].status = "RESOLVED"
        /\ requests'[call.id].expires = requests[call.id].expires
    <3> DEFINE r == [requests[call.id] EXCEPT !.status = "RESOLVED"]
    <3>1. r \in EscalationRequests /\ r.status = "RESOLVED" /\ r.expires = requests[call.id].expires
      BY <2>2 DEF EscalationRequests, Statuses
    <3>2. requests' = [requests EXCEPT ![call.id] = r]
      BY <2>1
    <3> HIDE DEF r
    <3> QED
      BY <1>1, <2>2, <3>1, <3>2
  <2>4. /\ trail' \in Seq(ToDecide)
        /\ Len(trail) \in Nat /\ DOMAIN trail = 1..Len(trail)
        /\ DOMAIN trail' = DOMAIN trail \cup {Len(trail) + 1}
        /\ trail'[Len(trail) + 1] = call
        /\ \A i \in DOMAIN trail : trail'[i] = trail[i]
    BY <1>1, <2>1, <2>2
  <2>5. OversightTypeOK'
    <3>1. deciding' \subseteq ToDecide'
      BY <1>0, <1>1, <2>3 DEF OversightTypeOK, ToDecide
    <3>2. now' \in Nat /\ UNCHANGED moneyVars
      BY <1>1, <2>2
    <3> QED
      BY <1>0, <2>3, <2>4, <3>1, <3>2, TypeMoves
  <2>6. BegunInTime'
    <3>1. \A c \in deciding : c.id \in DOMAIN requests
      BY <1>0, EscalationTypes
    <3> QED
      BY <1>0, <1>1, <2>3, <3>1 DEF BegunInTime
  <2>7. \A x \in DOMAIN requests :
          (requests[x].status = "RESOLVED" <=> Decided(x) # {}) /\ Heard(x)
    BY <1>0, TimelyById
  <2>8. \A x : Decided(x)' = IF x = call.id THEN Decided(x) \cup {Len(trail) + 1} ELSE Decided(x)
    BY <2>4 DEF Decided
  <2>9. \E j \in Decided(call.id)' :
          trail'[j].since < requests[call.id].expires /\ j <= Len(trail) + 1
    <3>1. CASE requests[call.id].status = "RESOLVED"
      <4>1. PICK i \in Decided(call.id) : TRUE
        BY <1>1, <2>7, <3>1
      <4>2. PICK j \in Decided(call.id) : trail[j].since < requests[call.id].expires /\ j <= i
        BY <1>1, <2>7, <4>1 DEF Heard
      <4>3. j \in DOMAIN trail
        BY DEF Decided
      <4> QED
        BY <2>4, <2>8, <4>2, <4>3
    <3>2. CASE requests[call.id].status # "RESOLVED"
      <4>1. requests[call.id].status = "PENDING"
        BY <1>3, <2>2, <3>2 DEF Decidable, EscalationRequests, Statuses
      <4>2. call.since < requests[call.id].expires
        BY <1>0, <4>1 DEF BegunInTime
      <4> QED
        BY <2>4, <2>8, <4>2
    <3> QED
      BY <3>1, <3>2
  <2>10. ASSUME NEW x \in DOMAIN requests
         PROVE  (requests'[x].status = "RESOLVED" <=> Decided(x)' # {}) /\ Heard(x)'
    <3>1. CASE x # call.id
      <4>1. Decided(x)' = Decided(x) /\ requests'[x] = requests[x]
        BY <2>3, <2>8, <3>1
      <4>2. \A i \in Decided(x) : trail'[i] = trail[i]
        BY <2>4 DEF Decided
      <4> QED
        BY <2>1, <2>7, <4>1, <4>2 DEF Heard
    <3>2. CASE x = call.id
      <4>1. \A i \in Decided(x) : trail'[i] = trail[i] /\ i \in Nat /\ i # Len(trail) + 1
        BY <2>4 DEF Decided
      <4>2. \A i \in Decided(x) :
              /\ \E j \in Decided(x)' : trail'[j].since < requests'[x].expires /\ j <= i
              /\ [id |-> x, outcome |-> Outcome(trail'[i].decision)] \in feedback'
        BY <2>1, <2>3, <2>7, <2>8, <3>2, <4>1 DEF Heard
      <4>3. /\ \E j \in Decided(x)' : trail'[j].since < requests'[x].expires /\ j <= Len(trail) + 1
            /\ [id |-> x, outcome |-> Outcome(trail'[Len(trail) + 1].decision)] \in feedback'
        BY <2>1, <2>3, <2>4, <2>9, <3>2
      <4>4. Heard(x)'
        BY <2>8, <3>2, <4>2, <4>3 DEF Heard
      <4> QED
        BY <2>3, <2>8, <3>2, <4>4
    <3> QED
      BY <3>1, <3>2
  <2>11. DecisionsAreTimely'
    BY <2>3, <2>10 DEF DecisionsAreTimely, Decided, Heard
  <2> QED
    BY <2>5, <2>6, <2>11 DEF EscalationInv
<1> QED
  BY <1>2, <1>3

\* Together: every step of an escalation.
LEMMA EscalationKeeps ==
  ASSUME EscalationInv, EscalationNext
  PROVE  EscalationInv'
<1>1. CASE RequestEscalation
  BY <1>1, RequestKeeps
<1>2. CASE Tick
  BY <1>2, TickKeeps
<1>3. ASSUME NEW id \in DOMAIN requests, CheckExpiration(id)
      PROVE  EscalationInv'
  BY <1>3, LookAtKeeps DEF CheckExpiration
<1>4. ASSUME NEW id \in DOMAIN requests, NEW d \in Decisions, BeginResolve(id, d)
      PROVE  EscalationInv'
  BY <1>4, LookAtKeeps DEF BeginResolve
<1>5. ASSUME NEW call \in deciding, FinishResolve(call)
      PROVE  EscalationInv'
  BY <1>5, FinishKeeps
<1> QED
  BY <1>1, <1>2, <1>3, <1>4, <1>5 DEF EscalationNext

-----------------------------------------------------------------------------
\* Oversight: budgets

\* What the calls under way will still cost on a model.
Due(m) == [t \in Tasks |-> IF calls[t].model = m THEN calls[t].cost ELSE 0]
Slack == (Cardinality(Tasks) - 1) * Max(Prices)

WithinTaskBudgets == \A t \in Tasks : Affordable(taskCosts[t] + calls[t].cost, TaskBudget[t])
\* A model's budget holds for what it was charged and what is still due, but
\* for what was under way when a call was checked.
WithinModelBudgets ==
  ~masked => \A m \in Models : ModelBudget[m] # NoLimit =>
    modelCosts[m] + Sum(Due(m), Tasks) <= ModelBudget[m] + Slack
AllCharged == total = Sum(taskCosts, Tasks) /\ total = Sum(modelCosts, Models)
BudgetInv == OversightTypeOK /\ WithinTaskBudgets /\ WithinModelBudgets /\ AllCharged

\* A task whose call is over has nothing due, and no call costs more than the
\* highest price.
LEMMA MoneyTypes ==
  ASSUME OversightTypeOK
  PROVE  /\ taskCosts \in [Tasks -> Nat] /\ modelCosts \in [Models -> Nat] /\ total \in Nat
         /\ Max(Prices) \in Nat /\ Slack \in Int
         /\ \A t \in Tasks : /\ calls[t].cost \in Nat /\ calls[t].cost <= Max(Prices)
                             /\ calls[t] # NoCall => calls[t].model \in Models
         /\ \A m \in Models : Due(m) \in [Tasks -> Nat] /\ Sum(Due(m), Tasks) \in Nat
<1> DEFINE M == Max(Prices)
<1>1. M \in Prices /\ M \in Nat /\ Prices \subseteq Nat /\ \A p \in Prices : p <= M
  <2>1. M \in Prices /\ \A p \in Prices : p <= M
    BY Largest, OversightConstants
  <2> HIDE DEF M
  <2> QED
    BY <2>1, OversightConstants
<1> HIDE DEF M
<1>2. \A t \in Tasks : calls[t] \in [model: Models, cost: Prices] \/ calls[t] = NoCall
  BY DEF OversightTypeOK
<1>3. \A t \in Tasks : calls[t].cost \in Nat /\ calls[t].cost <= M
  <2>1. 0 <= M
    BY <1>1
  <2>2. \A t \in Tasks : calls[t].cost \in Prices \/ calls[t].cost = 0
    BY <1>2 DEF NoCall
  <2>3. \A c \in Prices \cup {0} : c \in Nat /\ c <= M
    BY <1>1, <2>1
  <2> QED
    BY <2>2, <2>3
<1>4. \A t \in Tasks : calls[t] # NoCall => calls[t].model \in Models
  BY <1>2
<1>5. \A m : Due(m) \in [Tasks -> Nat]
  BY <1>3 DEF Due
<1>6. \A m : Sum(Due(m), Tasks) \in Nat
  BY <1>5, SumNatural, OversightConstants
<1>7. Slack \in Int
  <2>1. Cardinality(Tasks) \in Nat
    BY FS_CardinalityType, OversightConstants
  <2>2. Cardinality(Tasks) - 1 \in Int /\ M \in Int
    BY <1>1, <2>1
  <2>3. \A a, b \in Int : a * b \in Int
    OBVIOUS
  <2> QED
    BY <2>2, <2>3 DEF Slack, M
<1> QED
  BY <1>1, <1>3, <1>4, <1>5, <1>6, <1>7 DEF OversightTypeOK, M

\* A call that passes the check adds what it will cost to what is due on its
\* model; the others on it are at most one for each other task.
LEMMA CallKeeps ==
  ASSUME BudgetInv, NEW task \in Tasks, NEW model \in Models, NEW cost \in Prices,
         Call(task, model, cost)
  PROVE  BudgetInv'
<1>0. OversightTypeOK /\ cost \in Nat /\ calls[task] = NoCall
  BY OversightConstants DEF BudgetInv, Call
<1>1. /\ calls' = [calls EXCEPT ![task] = [model |-> model, cost |-> cost]]
      /\ UNCHANGED <<now, requests, deciding, trail, feedback, taskCosts, modelCosts, total>>
  BY DEF Call
<1>2. OversightTypeOK'
  <2>1. [model |-> model, cost |-> cost] \in [model: Models, cost: Prices]
    OBVIOUS
  <2>2. calls' \in [Tasks -> [model: Models, cost: Prices] \cup {NoCall}]
    BY <1>0, <1>1, <2>1 DEF OversightTypeOK
  <2>3. masked' \in BOOLEAN
    BY <1>0 DEF Call, OversightTypeOK
  <2> QED
    BY <1>0, <1>1, <2>2, <2>3 DEF OversightTypeOK
<1>3. \A t \in Tasks : calls'[t] = IF t = task THEN [model |-> model, cost |-> cost] ELSE calls[t]
  BY <1>0, <1>1 DEF OversightTypeOK
<1>4. WithinTaskBudgets'
  <2>1. Affordable(taskCosts[task] + cost, TaskBudget[task])
    <3>1. CheckBudget(task, model, cost) # "refused"
      BY DEF Call
    <3> HIDE DEF Affordable
    <3> QED
      BY <3>1 DEF CheckBudget
  <2> QED
    BY <1>1, <1>3, <2>1 DEF BudgetInv, WithinTaskBudgets
<1>5. WithinModelBudgets'
  <2>1. SUFFICES ASSUME ~masked', NEW m \in Models, ModelBudget[m] # NoLimit
                 PROVE  modelCosts[m] + Sum(Due(m)', Tasks) <= ModelBudget[m] + Slack
    BY <1>1 DEF WithinModelBudgets, Slack
  <2>2. ~masked /\ Affordable(modelCosts[model] + cost, ModelBudget[model])
    BY <2>1 DEF Call
  <2>3. /\ Due(m) \in [Tasks -> Nat] /\ Due(m)' \in [Tasks -> Nat]
        /\ Sum(Due(m), Tasks) \in Nat /\ Sum(Due(m)', Tasks) \in Nat
        /\ modelCosts[m] \in Nat /\ ModelBudget[m] \in Nat /\ Slack \in Int
    <3>1. Due(m)' \in [Tasks -> Nat]
      BY <1>0, <1>3, MoneyTypes DEF Due
    <3>2. ModelBudget[m] \in Nat
      BY <2>1, OversightConstants
    <3> QED
      BY <1>0, <3>1, <3>2, SumNatural, MoneyTypes, OversightConstants
  <2>4. \A t \in Tasks \ {task} : Due(m)'[t] = Due(m)[t]
    BY <1>3 DEF Due
  <2>5. Due(m)[task] = 0 /\ Due(m)'[task] = IF model = m THEN cost ELSE 0
    BY <1>0, <1>3 DEF Due, NoCall
  <2>6. Sum(Due(m)', Tasks) = Sum(Due(m), Tasks) + (IF model = m THEN cost ELSE 0)
    <3> DEFINE f == Due(m)
               g == Due(m)'
    <3>1. f \in [Tasks -> Int] /\ g \in [Tasks -> Int]
      BY <2>3
    <3>2. Sum(g, Tasks) = Sum(f, Tasks) + g[task] - f[task]
      <4> HIDE DEF f, g
      <4>1. \A t \in Tasks \ {task} : g[t] = f[t]
        BY <2>4 DEF f, g
      <4> QED
        BY <3>1, <4>1, SumMoves, OversightConstants
    <3> QED
      BY <1>0, <2>3, <2>5, <3>2
  <2>7. CASE model = m
    <3>1. \A t \in Tasks : Due(m)[t] <= Max(Prices)
      BY <1>0, MoneyTypes DEF Due
    <3>2. Sum(Due(m), Tasks) <= Slack
      BY <1>0, <2>3, <2>5, <3>1, SumBelow, MoneyTypes, OversightConstants DEF Slack
    <3>3. modelCosts[m] + cost <= ModelBudget[m]
      BY <2>1, <2>2, <2>7 DEF Affordable
    <3> QED
      BY <1>0, <2>3, <2>6, <2>7, <3>2, <3>3
  <2>8. CASE model # m
    <3>1. modelCosts[m] + Sum(Due(m), Tasks) <= ModelBudget[m] + Slack
      BY <2>1, <2>2 DEF BudgetInv, WithinModelBudgets
    <3> QED
      BY <2>3, <2>6, <2>8, <3>1
  <2> QED
    BY <2>7, <2>8
<1>6. AllCharged'
  BY <1>1 DEF BudgetInv, AllCharged
<1> QED
  BY <1>2, <1>4, <1>5, <1>6 DEF BudgetInv

\* A charge moves what was due to what was charged.
LEMMA ChargeKeeps ==
  ASSUME BudgetInv, NEW task \in Tasks, Charge(task)
  PROVE  BudgetInv'
<1> DEFINE model == calls[task].model
           cost == calls[task].cost
<1>0. OversightTypeOK /\ cost \in Nat /\ model \in Models
  BY MoneyTypes DEF BudgetInv, Charge
<1>1. /\ taskCosts' = [taskCosts EXCEPT ![task] = @ + cost]
      /\ modelCosts' = [modelCosts EXCEPT ![model] = @ + cost]
      /\ total' = total + cost
      /\ calls' = [calls EXCEPT ![task] = NoCall]
      /\ UNCHANGED <<now, requests, deciding, trail, feedback, masked>>
  BY DEF Charge, Charged
<1> HIDE DEF model, cost
<1>2. /\ taskCosts' \in [Tasks -> Nat] /\ modelCosts' \in [Models -> Nat] /\ total' \in Nat
      /\ \A t \in Tasks : taskCosts'[t] = IF t = task THEN taskCosts[t] + cost ELSE taskCosts[t]
      /\ \A m \in Models : modelCosts'[m] = IF m = model THEN modelCosts[m] + cost ELSE modelCosts[m]
  BY <1>0, <1>1, MoneyTypes
<1>3. \A t \in Tasks : calls'[t] = IF t = task THEN NoCall ELSE calls[t]
  BY <1>0, <1>1 DEF OversightTypeOK
<1>4. OversightTypeOK'
  BY <1>0, <1>1, <1>2 DEF OversightTypeOK
<1>5. WithinTaskBudgets'
  <2>1. \A t \in Tasks : taskCosts'[t] + calls'[t].cost = taskCosts[t] + calls[t].cost
    BY <1>0, <1>2, <1>3, MoneyTypes DEF NoCall, cost
  <2> QED
    BY <2>1 DEF BudgetInv, WithinTaskBudgets
<1>6. WithinModelBudgets'
  <2>1. SUFFICES ASSUME ~masked, NEW m \in Models, ModelBudget[m] # NoLimit
                 PROVE  modelCosts'[m] + Sum(Due(m)', Tasks) <= ModelBudget[m] + Slack
    BY <1>1 DEF WithinModelBudgets, Slack
  <2>2. \A t \in Tasks : calls'[t].cost \in Nat
    BY <1>0, <1>3, MoneyTypes DEF NoCall
  <2>3. /\ Due(m) \in [Tasks -> Int] /\ Due(m)' \in [Tasks -> Int]
        /\ Sum(Due(m), Tasks) \in Nat
        /\ modelCosts[m] \in Nat /\ ModelBudget[m] \in Nat /\ Slack \in Int
    <3>1. Due(m)' \in [Tasks -> Int]
      BY <2>2 DEF Due
    <3>2. ModelBudget[m] \in Nat
      BY <2>1, OversightConstants
    <3>3. Due(m) \in [Tasks -> Nat]
      BY <1>0, MoneyTypes
    <3> QED
      BY <1>0, <3>1, <3>2, <3>3, MoneyTypes
  <2>4. \A t \in Tasks \ {task} : Due(m)'[t] = Due(m)[t]
    BY <1>3 DEF Due
  <2>5. Due(m)'[task] = 0 /\ Due(m)[task] = IF model = m THEN cost ELSE 0
    BY <1>3 DEF Due, NoCall, model, cost
  <2>6. Sum(Due(m)', Tasks) = Sum(Due(m), Tasks) + Due(m)'[task] - Due(m)[task]
    <3> DEFINE f == Due(m)
               g == Due(m)'
    <3>1. f \in [Tasks -> Int] /\ g \in [Tasks -> Int] /\ \A t \in Tasks \ {task} : g[t] = f[t]
      BY <2>3, <2>4
    <3> HIDE DEF f, g
    <3>2. Sum(g, Tasks) = Sum(f, Tasks) + g[task] - f[task]
      BY <3>1, SumMoves, OversightConstants
    <3> QED
      BY <3>2 DEF f, g
  <2>7. modelCosts[m] + Sum(Due(m), Tasks) <= ModelBudget[m] + Slack
    BY <2>1 DEF BudgetInv, WithinModelBudgets
  <2> QED
    BY <1>0, <1>2, <2>3, <2>5, <2>6, <2>7
<1>7. AllCharged'
  <2>1. Sum(taskCosts', Tasks) = Sum(taskCosts, Tasks) + taskCosts'[task] - taskCosts[task]
    <3>1. taskCosts \in [Tasks -> Int] /\ taskCosts' \in [Tasks -> Int]
      BY <1>0, <1>2, MoneyTypes
    <3>2. \A t \in Tasks \ {task} : taskCosts'[t] = taskCosts[t]
      BY <1>2
    <3> QED
      BY <3>1, <3>2, SumMoves, OversightConstants
  <2>2. Sum(modelCosts', Models) = Sum(modelCosts, Models) + modelCosts'[model] - modelCosts[model]
    <3>1. modelCosts \in [Models -> Int] /\ modelCosts' \in [Models -> Int]
      BY <1>0, <1>2, MoneyTypes
    <3>2. \A m \in Models \ {model} : modelCosts'[m] = modelCosts[m]
      BY <1>2
    <3> QED
      BY <1>0, <3>1, <3>2, SumMoves, OversightConstants
  <2>3. total = Sum(taskCosts, Tasks) /\ total = Sum(modelCosts, Models) /\ total \in Nat
    BY <1>0, MoneyTypes DEF BudgetInv, AllCharged
  <2>4. /\ taskCosts[task] \in Nat /\ modelCosts[model] \in Nat
        /\ taskCosts'[task] = taskCosts[task] + cost
        /\ modelCosts'[model] = modelCosts[model] + cost
    BY <1>0, <1>2, MoneyTypes
  <2>5. total' = Sum(taskCosts', Tasks) /\ total' = Sum(modelCosts', Models)
    BY <1>0, <1>1, <2>1, <2>2, <2>3, <2>4
  <2> QED
    BY <2>5 DEF AllCharged
<1> QED
  BY <1>4, <1>5, <1>6, <1>7 DEF BudgetInv

\* The calls of the budgets.
LEMMA BudgetKeeps ==
  ASSUME BudgetInv, BudgetNext
  PROVE  BudgetInv'
BY CallKeeps, ChargeKeeps DEF BudgetNext
-----------------------------------------------------------------------------
\* Oversight: the theorems

OversightInv == EscalationInv /\ BudgetInv

LEMMA OversightStarts == OversightInit => OversightInv
<1> SUFFICES ASSUME OversightInit
             PROVE  OversightInv
  OBVIOUS
<1>1. /\ now = 0 /\ requests = <<>> /\ deciding = {} /\ trail = <<>> /\ feedback = {}
      /\ taskCosts = [t \in Tasks |-> 0] /\ modelCosts = [m \in Models |-> 0]
      /\ total = 0 /\ calls = [t \in Tasks |-> NoCall] /\ masked = FALSE
  BY DEF OversightInit
<1>2. OversightTypeOK
  <2>1. requests \in Seq(EscalationRequests) /\ trail \in Seq(ToDecide)
    BY <1>1
  <2>2. taskCosts \in [Tasks -> Nat] /\ modelCosts \in [Models -> Nat]
    BY <1>1
  <2> QED
    BY <1>1, <2>1, <2>2 DEF OversightTypeOK, EscalationRequests, Statuses, ToDecide
<1>3. BegunInTime /\ DecisionsAreTimely
  BY <1>1 DEF BegunInTime, DecisionsAreTimely
<1>4. WithinTaskBudgets
  <2>1. \A t \in Tasks : taskCosts[t] + calls[t].cost = 0
    BY <1>1 DEF NoCall
  <2> QED
    BY <2>1, OversightConstants DEF WithinTaskBudgets, Affordable
<1>5. AllCharged
  BY <1>1, SumOfNone, OversightConstants DEF AllCharged
<1>6. WithinModelBudgets
  <2>1. SUFFICES ASSUME NEW m \in Models, ModelBudget[m] # NoLimit
                 PROVE  modelCosts[m] + Sum(Due(m), Tasks) <= ModelBudget[m] + Slack
    BY DEF WithinModelBudgets
  <2>2. modelCosts[m] = 0 /\ ModelBudget[m] \in Nat
    BY <1>1, <2>1, OversightConstants
  <2>3. \A t \in Tasks : Due(m)[t] = 0
    BY <1>1 DEF Due, NoCall
  <2>4. Sum(Due(m), Tasks) = 0
    BY <2>3, SumOfNone, OversightConstants
  <2>5. PICK t \in Tasks : TRUE
    BY OversightConstants
  <2>6. 0 <= Slack
    <3>1. Due(m) \in [Tasks -> Nat] /\ \A x \in Tasks : Due(m)[x] <= Max(Prices)
      BY <1>2, <2>3, MoneyTypes
    <3> QED
      BY <1>2, <2>3, <2>4, <2>5, <3>1, SumBelow, MoneyTypes, OversightConstants DEF Slack
  <2> QED
    BY <1>2, <2>2, <2>4, <2>6, MoneyTypes
<1> QED
  BY <1>2, <1>3, <1>4, <1>5, <1>6 DEF OversightInv, EscalationInv, BudgetInv

\* The two halves share no variable.
LEMMA OversightStays == OversightInv /\ [EscalationNext \/ BudgetNext]_oversightVars => OversightInv'
<1> SUFFICES ASSUME OversightInv, [EscalationNext \/ BudgetNext]_oversightVars
             PROVE  OversightInv'
  OBVIOUS
<1>1. ASSUME EscalationInv, UNCHANGED <<now, requests, deciding, trail, feedback>>, OversightTypeOK'
      PROVE  EscalationInv'
  BY <1>1 DEF EscalationInv, BegunInTime, DecisionsAreTimely
<1>2. ASSUME BudgetInv, UNCHANGED moneyVars, OversightTypeOK'
      PROVE  BudgetInv'
  <2>1. \A m : Due(m)' = Due(m)
    BY <1>2 DEF moneyVars, Due
  <2> QED
    BY <1>2, <2>1 DEF BudgetInv, WithinTaskBudgets, WithinModelBudgets, AllCharged, moneyVars
<1>3. CASE EscalationNext
  <2>1. UNCHANGED moneyVars
    BY <1>3 DEF EscalationNext, RequestEscalation, Tick, CheckExpiration, BeginResolve, FinishResolve
  <2>2. EscalationInv'
    BY <1>3, EscalationKeeps DEF OversightInv
  <2> QED
    BY <1>2, <2>1, <2>2 DEF OversightInv, EscalationInv
<1>4. CASE BudgetNext
  <2>1. UNCHANGED <<now, requests, deciding, trail, feedback>>
    BY <1>4 DEF BudgetNext, Charge, Call
  <2>2. BudgetInv'
    BY <1>4, BudgetKeeps DEF OversightInv
  <2> QED
    BY <1>1, <2>1, <2>2 DEF OversightInv, BudgetInv
<1>5. CASE UNCHANGED oversightVars
  <2>1. OversightTypeOK'
    BY <1>5 DEF OversightInv, BudgetInv, OversightTypeOK, oversightVars
  <2> QED
    BY <1>1, <1>2, <1>5, <2>1 DEF OversightInv, oversightVars, moneyVars
<1> QED
  BY <1>3, <1>4, <1>5

LEMMA OversightInvariance == OversightSpec => []OversightInv
BY OversightStarts, OversightStays, PTL DEF OversightSpec

\* Requests, decisions and costs keep their types (Oversight).
THEOREM OversightTypes == OversightSpec => []OversightTypeOK
<1>1. OversightInv => OversightTypeOK
  BY DEF OversightInv, BudgetInv
<1> QED
  BY <1>1, OversightInvariance, PTL

\* Whoever decides and whenever requests expire, decisions are timely; and
\* whatever calls overlap, spending is bounded (DefaultEscalationManager,
\* DefaultBudgetTracker).
THEOREM OversightCorrect == OversightSpec => []OversightHolds
<1>1. ASSUME OversightInv
      PROVE  OversightHolds
  <2>0. OversightTypeOK /\ BudgetInv /\ DecisionsAreTimely
    BY <1>1 DEF OversightInv, BudgetInv, EscalationInv
  <2>1. \A t \in Tasks : Affordable(taskCosts[t] + calls[t].cost, TaskBudget[t])
    BY <2>0 DEF BudgetInv, WithinTaskBudgets
  <2>2. ASSUME ~masked, NEW m \in Models, ModelBudget[m] # NoLimit
        PROVE  modelCosts[m] <= ModelBudget[m] + (Cardinality(Tasks) - 1) * Max(Prices)
    <3>1. modelCosts[m] + Sum(Due(m), Tasks) <= ModelBudget[m] + Slack
      BY <2>0, <2>2 DEF BudgetInv, WithinModelBudgets
    <3>2. /\ modelCosts[m] \in Nat /\ Sum(Due(m), Tasks) \in Nat
          /\ ModelBudget[m] \in Nat /\ Slack \in Int
      BY <2>0, <2>2, MoneyTypes, OversightConstants
    <3>3. modelCosts[m] <= ModelBudget[m] + Slack
      BY <3>1, <3>2
    <3> QED
      BY <3>3 DEF Slack
  <2>3. /\ total = MapThenSumSet(LAMBDA t : taskCosts[t], Tasks)
        /\ total = MapThenSumSet(LAMBDA m : modelCosts[m], Models)
    BY <2>0 DEF BudgetInv, AllCharged, Sum
  <2> QED
    BY <2>0, <2>1, <2>2, <2>3 DEF OversightHolds, SpendingIsBounded
<1> QED
  BY <1>1, OversightInvariance, PTL

-----------------------------------------------------------------------------
\* Subagents

\* What is spawned was pending and leaves it with its batch; what is pending
\* no more has a settled spec of its key; and a graph ends with nothing to run.
BatchesInv ==
  /\ settled \cap pending = {} /\ Batch \subseteq pending
  /\ \A i \in settled : Reported(i)
  /\ \A i \in DOMAIN specs \ pending : \E j \in settled : Key(j) = Key(i)
  /\ graphEnded => Batch = {} /\ (cancelled \/ Ready = {})
\* Agents have their dependencies settled, and their ids are within reach.
AgentsInv ==
  \A i \in DOMAIN agents : AllSettled(specs[i].deps) /\ (Id(i) # NoId => Id(i) \in Closure)
\* What an agent says won its race, a tester's success was recorded before,
\* and a controller belongs to an agent that has said nothing yet.
ResultsInv ==
  /\ \A i \in DOMAIN agents :
       /\ agents[i].says = "success" => agents[i].race = "success"
       /\ agents[i].race = "success" /\ specs[i].role = "TESTER" => i \in recorded
  /\ \A i \in active : ~Reported(i)
GraphInv == AgentTypeOK /\ BatchesInv /\ AgentsInv /\ ResultsInv

\* The least of the closed sets has what depends only on it.
LEMMA ClosureGrows ==
  ASSUME NEW i \in DOMAIN specs, Id(i) # NoId,
         \A id \in specs[i].deps : id \in Closure
  PROVE  Id(i) \in Closure
<1>1. Id(i) \in Ids
  BY DEF Ids
<1>2. ASSUME NEW ids \in SUBSET Ids, Closed(ids)
      PROVE  Id(i) \in ids
  <2>1. specs[i].deps \subseteq ids
    BY <1>2 DEF Closure
  <2> QED
    BY <1>2, <2>1 DEF Closed
<1> QED
  BY <1>1, <1>2 DEF Closure

\* A batch has agents of its own.
LEMMA StartKeeps ==
  ASSUME GraphInv, StartBatch
  PROVE  GraphInv'
<1>0. AgentTypeOK /\ BatchesInv /\ AgentsInv /\ ResultsInv
  BY DEF GraphInv
<1>1. /\ Batch = {} /\ ~graphEnded
      /\ UNCHANGED <<specs, pending, settled, recorded, cancelled>>
  BY DEF StartBatch
<1>2. settled = DOMAIN agents
  BY <1>0, <1>1 DEF Batch, AgentTypeOK
<1>3. Ready' = Ready /\ Ready \subseteq pending
  BY <1>1 DEF Key, Id, Ready, IsReady, AllSettled
<1>4. CASE cancelled \/ Ready = {}
  <2>1. graphEnded' = TRUE /\ UNCHANGED <<agents, active>>
    BY <1>4 DEF StartBatch
  <2>2. AgentTypeOK' /\ AgentsInv' /\ ResultsInv'
    BY <1>0, <1>1, <2>1
    DEF AgentTypeOK, AgentsInv, ResultsInv, AllSettled, Id, Closure, Closed, Ids, Reported
  <2>3. BatchesInv'
    BY <1>0, <1>1, <1>3, <1>4, <2>1 DEF BatchesInv, Batch, Reported, Key, Id
  <2> QED
    BY <2>2, <2>3 DEF GraphInv
<1>5. CASE ~cancelled /\ Ready # {}
  <2>1. /\ agents' = [i \in DOMAIN agents \cup Ready |->
                        IF i \in Ready THEN Spawned(i) ELSE agents[i]]
        /\ active' = active \cup {i \in Ready : Spawned(i) = NewAgent}
        /\ graphEnded' = graphEnded
    BY <1>5 DEF StartBatch
  <2>2. Ready \cap DOMAIN agents = {} /\ Ready \subseteq DOMAIN specs
    BY <1>0, <1>2, <1>3 DEF BatchesInv, AgentTypeOK
  <2>3. \A i : Spawned(i) \in AgentStates /\ Spawned(i).race = "open" /\ Spawned(i).says # "success"
    BY DEF Spawned, NewAgent, AgentStates, Verdicts
  <2>4. /\ DOMAIN agents' = DOMAIN agents \cup Ready
        /\ \A i \in DOMAIN agents : agents'[i] = agents[i]
        /\ \A i \in Ready : agents'[i] = Spawned(i)
    BY <2>1, <2>2
  <2>5. AgentTypeOK'
    <3>1. agents' \in [DOMAIN agents' -> AgentStates]
      BY <1>0, <2>1, <2>3 DEF AgentTypeOK
    <3> QED
      BY <1>0, <1>1, <2>1, <2>2, <2>4, <3>1 DEF AgentTypeOK
  <2>6. BatchesInv'
    <3>1. Batch' = Ready
      BY <1>1, <1>2, <2>2, <2>4 DEF Batch
    <3>2. \A i \in settled : Reported(i)'
      BY <1>0, <1>2, <2>4 DEF BatchesInv, Reported
    <3>3. \A i \in DOMAIN specs \ pending : \E j \in settled : Key(j)' = Key(i)'
      BY <1>0, <1>1 DEF BatchesInv, Key, Id
    <3> QED
      BY <1>0, <1>1, <1>3, <2>1, <3>1, <3>2, <3>3 DEF BatchesInv
  <2>7. AgentsInv'
    <3>1. ASSUME NEW i \in Ready
          PROVE  AllSettled(specs[i].deps) /\ (Id(i) # NoId => Id(i) \in Closure)
      <4>1. AllSettled(specs[i].deps)
        BY <3>1 DEF Ready, IsReady
      <4>2. ASSUME NEW id \in specs[i].deps
            PROVE  id \in Closure
        <5>1. PICK j \in settled : id = Id(j)
          BY <4>1, <4>2 DEF AllSettled
        <5>2. id # NoId
          BY <1>0, <2>2, <4>2, IdsAreNoRoles DEF AgentTypeOK
        <5> QED
          BY <1>0, <1>2, <5>1, <5>2 DEF AgentsInv
      <4> QED
        BY <2>2, <4>1, <4>2, ClosureGrows
    <3>2. \A i \in DOMAIN agents' : AllSettled(specs[i].deps) /\ (Id(i) # NoId => Id(i) \in Closure)
      BY <1>0, <2>4, <3>1 DEF AgentsInv
    <3> QED
      BY <1>1, <3>2 DEF AgentsInv, AllSettled, Id, Closure, Closed, Ids
  <2>8. ResultsInv'
    <3>1. \A i \in DOMAIN agents' :
            /\ agents'[i].says = "success" => agents'[i].race = "success"
            /\ agents'[i].race = "success" /\ specs[i].role = "TESTER" => i \in recorded
      BY <1>0, <2>3, <2>4 DEF ResultsInv
    <3>2. ASSUME NEW i \in active'
          PROVE  ~Reported(i)'
      <4>1. CASE i \in active
        BY <1>0, <2>4, <4>1 DEF ResultsInv, Reported, AgentTypeOK
      <4>2. CASE i \notin active
        <5>1. i \in Ready /\ Spawned(i) = NewAgent
          BY <2>1, <4>2
        <5> QED
          BY <2>4, <5>1 DEF Reported, NewAgent
      <4> QED
        BY <4>1, <4>2
    <3> QED
      BY <1>1, <3>1, <3>2 DEF ResultsInv
  <2> QED
    BY <2>5, <2>6, <2>7, <2>8 DEF GraphInv
<1> QED
  BY <1>4, <1>5

\* A batch that has reported is settled; what shares a key with it goes too.
LEMMA EndKeeps ==
  ASSUME GraphInv, EndBatch
  PROVE  GraphInv'
<1>0. AgentTypeOK /\ BatchesInv /\ AgentsInv /\ ResultsInv
  BY DEF GraphInv
<1>1. /\ Batch # {} /\ \A i \in Batch : Reported(i)
      /\ settled' = settled \cup Batch
      /\ pending' = {i \in pending : Key(i) \notin {Key(j) : j \in Batch}}
      /\ UNCHANGED <<specs, agents, active, recorded, cancelled, graphEnded>>
  BY DEF EndBatch
<1>2. settled' = DOMAIN agents /\ Batch' = {}
  BY <1>0, <1>1 DEF Batch, AgentTypeOK
<1>3. AgentTypeOK'
  BY <1>0, <1>1, <1>2 DEF AgentTypeOK
<1>4. BatchesInv'
  <2>1. ~graphEnded'
    BY <1>0, <1>1 DEF BatchesInv
  <2>2. settled' \cap pending' = {}
    BY <1>0, <1>1 DEF BatchesInv
  <2>3. \A i \in settled' : Reported(i)'
    BY <1>0, <1>1 DEF BatchesInv, Reported
  <2>4. \A i \in DOMAIN specs \ pending' : \E j \in settled' : Key(j) = Key(i)
    BY <1>0, <1>1 DEF BatchesInv
  <2>5. \A i : Key(i)' = Key(i)
    BY <1>1 DEF Key, Id
  <2> QED
    BY <1>1, <1>2, <2>1, <2>2, <2>3, <2>4, <2>5 DEF BatchesInv
<1>5. AgentsInv'
  BY <1>0, <1>1 DEF AgentsInv, AllSettled, Id, Closure, Closed, Ids
<1>6. ResultsInv'
  BY <1>0, <1>1 DEF ResultsInv, Reported
<1> QED
  BY <1>3, <1>4, <1>5, <1>6 DEF GraphInv

\* What happens to an agent between the two leaves the graph alone, unless the
\* caller cancels it.
LEMMA AgentKeeps ==
  ASSUME GraphInv, UNCHANGED <<specs, pending, settled, graphEnded>>,
         cancelled' \in BOOLEAN, cancelled => cancelled',
         DOMAIN agents' = DOMAIN agents, agents' \in [DOMAIN agents -> AgentStates],
         \A i \in DOMAIN agents : Reported(i) => Reported(i)',
         active' \subseteq DOMAIN agents, recorded' \subseteq DOMAIN agents,
         ResultsInv'
  PROVE  GraphInv'
<1>0. AgentTypeOK /\ BatchesInv /\ AgentsInv
  BY DEF GraphInv
<1>1. AgentTypeOK'
  BY <1>0 DEF AgentTypeOK
<1>2. BatchesInv'
  <2>1. Batch' = Batch /\ Ready' = Ready
    BY DEF Batch, Ready, IsReady, AllSettled, Id
  <2>2. \A i \in settled : Reported(i)'
    BY <1>0 DEF BatchesInv, AgentTypeOK
  <2>3. \A i : Key(i)' = Key(i)
    BY DEF Key, Id
  <2> QED
    BY <1>0, <2>1, <2>2, <2>3 DEF BatchesInv
<1>3. AgentsInv'
  BY <1>0 DEF AgentsInv, AllSettled, Id, Closure, Closed, Ids
<1> QED
  BY <1>1, <1>2, <1>3 DEF GraphInv


\* The steps of one agent: another state of it, and what it recorded.
LEMMA OneAgentKeeps ==
  ASSUME GraphInv, NEW i \in DOMAIN agents, NEW state \in AgentStates,
         agents' = [agents EXCEPT ![i] = state],
         UNCHANGED <<specs, pending, settled, cancelled, graphEnded>>,
         active' \subseteq active, recorded \subseteq recorded', recorded' \subseteq recorded \cup {i},
         state.says = agents[i].says \/ ~Reported(i),
         state.says = "success" => state.race = "success",
         state.race = "success" /\ specs[i].role = "TESTER" => i \in recorded',
         i \in active' => state.says = "nothing"
  PROVE  GraphInv'
<1>0. AgentTypeOK /\ ResultsInv
  BY DEF GraphInv
<1>1. /\ DOMAIN agents' = DOMAIN agents /\ agents' \in [DOMAIN agents -> AgentStates]
      /\ agents'[i] = state
      /\ \A j \in DOMAIN agents \ {i} : agents'[j] = agents[j]
  BY <1>0 DEF AgentTypeOK
<1>2. \A j \in DOMAIN agents : Reported(j) => Reported(j)'
  BY <1>1 DEF Reported
<1>3. ResultsInv'
  <2>1. ASSUME NEW j \in DOMAIN agents
        PROVE  /\ agents'[j].says = "success" => agents'[j].race = "success"
               /\ agents'[j].race = "success" /\ specs[j].role = "TESTER" => j \in recorded'
               /\ j \in active' => ~Reported(j)'
    <3>1. CASE j = i
      BY <1>1, <3>1 DEF Reported
    <3>2. CASE j # i
      BY <1>0, <1>1, <3>2 DEF ResultsInv, Reported
    <3> QED
      BY <3>1, <3>2
  <2>2. active' \subseteq DOMAIN agents
    BY <1>0 DEF AgentTypeOK
  <2> QED
    BY <1>1, <2>1, <2>2 DEF ResultsInv
<1>4. active' \subseteq DOMAIN agents /\ recorded' \subseteq DOMAIN agents /\ cancelled' \in BOOLEAN
  BY <1>0 DEF AgentTypeOK
<1> QED
  BY <1>1, <1>2, <1>3, <1>4, AgentKeeps

\* The race keeps its first outcome.
LEMMA RacedOnce ==
  ASSUME NEW i \in DOMAIN agents, agents[i] \in AgentStates, NEW outcome \in {"success", "failure"}
  PROVE  /\ Raced(i, outcome) \in AgentStates
         /\ Raced(i, outcome).says = agents[i].says /\ Raced(i, outcome).core = agents[i].core
         /\ Raced(i, outcome).race = IF agents[i].race = "open" THEN outcome ELSE agents[i].race
BY DEF Raced, AgentStates

LEMMA CoreKeeps ==
  ASSUME GraphInv, NEW i \in DOMAIN specs,
         CoreRuns(i) \/ CoreRecords(i) \/ AgentTimesOut(i) \/ Return(i)
  PROVE  GraphInv'
<1>0. AgentTypeOK /\ ResultsInv /\ i \in DOMAIN agents /\ agents[i] \in AgentStates
  BY DEF GraphInv, AgentTypeOK, CoreRuns, CoreRecords, AgentTimesOut, Return
<1>1. /\ agents[i].says = "success" => agents[i].race = "success"
      /\ agents[i].race = "success" /\ specs[i].role = "TESTER" => i \in recorded
      /\ i \in active => agents[i].says = "nothing"
  BY <1>0 DEF ResultsInv, Reported
<1> DEFINE Done(s) == [s EXCEPT !.core = "done"]
<1>2. ASSUME NEW outcome \in {"success", "failure"}
      PROVE  /\ Raced(i, outcome) \in AgentStates /\ Done(Raced(i, outcome)) \in AgentStates
             /\ Raced(i, outcome).says = agents[i].says
             /\ Done(Raced(i, outcome)).says = agents[i].says
             /\ Done(Raced(i, outcome)).race = Raced(i, outcome).race
             /\ Raced(i, outcome).race = IF agents[i].race = "open" THEN outcome ELSE agents[i].race
  <2> DEFINE r == Raced(i, outcome)
  <2>1. /\ r \in AgentStates /\ r.says = agents[i].says
        /\ r.race = IF agents[i].race = "open" THEN outcome ELSE agents[i].race
    BY <1>0, RacedOnce
  <2> HIDE DEF r
  <2>2. Done(r) \in AgentStates /\ Done(r).says = r.says /\ Done(r).race = r.race
    BY <2>1 DEF AgentStates
  <2> QED
    BY <2>1, <2>2 DEF r
<1>3. CASE CoreRuns(i)
  <2>1. UNCHANGED <<specs, pending, settled, active, recorded, cancelled, graphEnded>>
    BY <1>3 DEF CoreRuns
  <2>2. CASE ~Scoped(i)
    <3>1. agents' = [agents EXCEPT ![i] = Done(Raced(i, "failure"))]
      BY <1>3, <2>2 DEF CoreRuns
    <3> HIDE DEF Done
    <3> QED
      BY <1>0, <1>1, <1>2, <2>1, <3>1, OneAgentKeeps
  <2>3. CASE Scoped(i) /\ specs[i].role = "TESTER"
    <3> DEFINE s == [agents[i] EXCEPT !.core = "recording"]
    <3>1. agents' = [agents EXCEPT ![i] = s]
      BY <1>3, <2>3 DEF CoreRuns
    <3>2. s \in AgentStates /\ s.says = agents[i].says /\ s.race = agents[i].race
      BY <1>0 DEF AgentStates
    <3> HIDE DEF s
    <3> QED
      BY <1>0, <1>1, <2>1, <3>1, <3>2, OneAgentKeeps
  <2>4. CASE Scoped(i) /\ specs[i].role # "TESTER"
    <3>1. agents' = [agents EXCEPT ![i] = Done(Raced(i, "success"))]
      BY <1>3, <2>4 DEF CoreRuns
    <3> HIDE DEF Done
    <3> QED
      BY <1>0, <1>1, <1>2, <2>1, <2>4, <3>1, OneAgentKeeps
  <2> QED
    BY <2>2, <2>3, <2>4
<1>4. CASE CoreRecords(i)
  <2>1. /\ recorded' = recorded \cup {i}
        /\ agents' = [agents EXCEPT ![i] = Done(Raced(i, "success"))]
        /\ UNCHANGED <<specs, pending, settled, active, cancelled, graphEnded>>
    BY <1>4 DEF CoreRecords
  <2> HIDE DEF Done
  <2> QED
    BY <1>0, <1>1, <1>2, <2>1, OneAgentKeeps
<1>5. CASE AgentTimesOut(i)
  <2>1. /\ agents' = [agents EXCEPT ![i] = Raced(i, "failure")]
        /\ agents[i].race = "open"
        /\ UNCHANGED <<specs, pending, settled, active, recorded, cancelled, graphEnded>>
    BY <1>5 DEF AgentTimesOut
  <2> QED
    BY <1>0, <1>1, <1>2, <2>1, OneAgentKeeps
<1>6. CASE Return(i)
  <2> DEFINE s == [agents[i] EXCEPT !.says = agents[i].race]
  <2>1. /\ agents' = [agents EXCEPT ![i] = s] /\ active' = active \ {i}
        /\ agents[i].race # "open" /\ ~Reported(i)
        /\ UNCHANGED <<specs, pending, settled, recorded, cancelled, graphEnded>>
    BY <1>6 DEF Return
  <2>2. s \in AgentStates /\ s.says = agents[i].race /\ s.race = agents[i].race
    BY <1>0, <2>1 DEF AgentStates, Verdicts
  <2> HIDE DEF s
  <2> QED
    BY <1>0, <1>1, <2>1, <2>2, OneAgentKeeps
<1> QED
  BY <1>3, <1>4, <1>5, <1>6

\* The caller's signal fails the races that are open, and aborting the
\* controllers forgets them.
LEMMA CancelKeeps ==
  ASSUME GraphInv, Cancel \/ CancelAll
  PROVE  GraphInv'
<1>0. AgentTypeOK /\ ResultsInv
  BY DEF GraphInv
<1>1. CASE Cancel
  <2>1. /\ cancelled' = TRUE
        /\ agents' = [i \in DOMAIN agents |->
                        IF agents[i].core = "none" THEN agents[i] ELSE Raced(i, "failure")]
        /\ UNCHANGED <<specs, pending, settled, active, recorded, graphEnded>>
    BY <1>1 DEF Cancel
  <2>2. ASSUME NEW i \in DOMAIN agents
        PROVE  /\ agents'[i] \in AgentStates /\ agents'[i].says = agents[i].says
               /\ agents'[i].race \in {agents[i].race, "failure"}
               /\ agents[i].race # "open" => agents'[i].race = agents[i].race
    <3>1. agents[i] \in AgentStates
      BY <1>0 DEF AgentTypeOK
    <3>2. CASE agents[i].core = "none"
      BY <2>1, <3>1, <3>2
    <3>3. CASE agents[i].core # "none"
      <4>1. agents'[i] = Raced(i, "failure")
        BY <2>1, <3>3
      <4> QED
        BY <3>1, <4>1, RacedOnce
    <3> QED
      BY <3>2, <3>3
  <2>3. DOMAIN agents' = DOMAIN agents /\ agents' \in [DOMAIN agents -> AgentStates]
    <3>1. agents' = [i \in DOMAIN agents |-> agents'[i]]
      BY <2>1
    <3> QED
      BY <2>2, <3>1
  <2>4. \A i \in DOMAIN agents : Reported(i)' <=> Reported(i)
    BY <2>2, <2>3 DEF Reported
  <2>5. ResultsInv'
    <3>1. ASSUME NEW i \in DOMAIN agents
          PROVE  /\ agents'[i].says = "success" => agents'[i].race = "success"
                 /\ agents'[i].race = "success" /\ specs[i].role = "TESTER" => i \in recorded
      BY <1>0, <2>2 DEF ResultsInv
    <3>2. \A i \in active : ~Reported(i)'
      BY <1>0, <2>4 DEF ResultsInv, AgentTypeOK
    <3> QED
      BY <2>1, <2>3, <3>1, <3>2 DEF ResultsInv
  <2> QED
    BY <1>0, <2>1, <2>3, <2>4, <2>5, AgentKeeps DEF AgentTypeOK
<1>2. CASE CancelAll
  <2>1. active' = {} /\ UNCHANGED <<specs, pending, settled, agents, recorded, cancelled, graphEnded>>
    BY <1>2 DEF CancelAll
  <2>2. ResultsInv'
    BY <1>0, <2>1 DEF ResultsInv, Reported
  <2>3. \A i \in DOMAIN agents : Reported(i) => Reported(i)'
    BY <2>1 DEF Reported
  <2> QED
    BY <1>0, <2>1, <2>2, <2>3, AgentKeeps DEF AgentTypeOK
<1> QED
  BY <1>1, <1>2

LEMMA GraphStarts == AgentInit => GraphInv
<1> SUFFICES ASSUME AgentInit
             PROVE  GraphInv
  OBVIOUS
<1>1. DOMAIN agents = {} /\ agents \in [{} -> AgentStates]
  <2>1. agents = <<>>
    BY DEF AgentInit
  <2> QED
    BY <2>1
<1>2. /\ specs \in Graphs /\ pending = DOMAIN specs
      /\ settled = {} /\ active = {} /\ recorded = {} /\ cancelled = FALSE /\ graphEnded = FALSE
  BY DEF AgentInit
<1> QED
  BY <1>1, <1>2 DEF GraphInv, AgentTypeOK, BatchesInv, AgentsInv, ResultsInv, Batch

LEMMA GraphStays == GraphInv /\ [AgentNext]_agentVars => GraphInv'
<1> SUFFICES ASSUME GraphInv, [AgentNext]_agentVars
             PROVE  GraphInv'
  OBVIOUS
<1>1. CASE UNCHANGED agentVars
  BY <1>1
  DEF agentVars, GraphInv, AgentTypeOK, BatchesInv, AgentsInv, ResultsInv, Batch, Ready, IsReady,
      AllSettled, Reported, Key, Id, Closure, Closed, Ids
<1>2. CASE AgentNext
  BY <1>2, StartKeeps, EndKeeps, CoreKeeps, CancelKeeps DEF AgentNext, AgentMoves
<1> QED
  BY <1>1, <1>2

LEMMA GraphInvariance == AgentSpec => []GraphInv
BY GraphStarts, GraphStays, PTL DEF AgentSpec

\* Only specs have agents, and only agents have results (Subagents).
THEOREM SubagentTypes == AgentSpec => []AgentTypeOK
<1>1. GraphInv => AgentTypeOK
  BY DEF GraphInv
<1> QED
  BY <1>1, GraphInvariance, PTL

\* What can be run has run when the graph ends: the ids settled by then are a
\* closed set.
LEMMA AllReached ==
  ASSUME GraphInv, graphEnded, ~cancelled
  PROVE  {Id(i) : i \in settled} \ {NoId} = Closure
<1> DEFINE ids == {Id(i) : i \in settled} \ {NoId}
<1>0. /\ specs \in Graphs /\ settled \subseteq DOMAIN specs /\ settled \subseteq DOMAIN agents
      /\ Ready = {}
  BY DEF GraphInv, AgentTypeOK, BatchesInv
<1>1. ids \subseteq Closure
  BY <1>0 DEF GraphInv, AgentsInv
<1>2. ids \in SUBSET Ids
  BY <1>0 DEF Ids
<1>3. ASSUME NEW i \in DOMAIN specs, specs[i].deps \subseteq ids, Id(i) # NoId
      PROVE  Id(i) \in ids
  <2>1. i \notin pending
    BY <1>0, <1>3 DEF Ready, IsReady, AllSettled
  <2>2. PICK j \in settled : Key(j) = Key(i)
    BY <2>1 DEF GraphInv, BatchesInv
  <2>3. Id(j) # NoId
    BY <1>0, <1>3, <2>2, IdsAreNoRoles DEF Key, Id
  <2> QED
    BY <1>3, <2>2, <2>3 DEF Key
<1>4. Closed(ids)
  BY <1>3 DEF Closed
<1>5. Closure \subseteq ids
  <2> HIDE DEF ids
  <2> QED
    BY <1>2, <1>4 DEF Closure
<1> QED
  BY <1>1, <1>5

\* Whatever times out, is cancelled or shares a role, a graph runs in the order
\* of its dependencies and to the end of what they let it reach
\* (DefaultSubagentManager.executeDependentGraph).
THEOREM GraphsCorrect == AgentSpec => []GraphRunsInOrder
<1>1. ASSUME GraphInv
      PROVE  GraphRunsInOrder
  <2>0. AgentTypeOK /\ BatchesInv /\ AgentsInv /\ ResultsInv
    BY <1>1 DEF GraphInv
  <2>1. ASSUME NEW i \in DOMAIN agents, NEW id \in specs[i].deps
        PROVE  \E j \in DOMAIN specs : Id(j) = id /\ Reported(j)
    <3>1. PICK j \in settled : Id(j) = id
      BY <2>0, <2>1 DEF AgentsInv, AllSettled
    <3> QED
      BY <2>0, <3>1 DEF AgentTypeOK, BatchesInv
  <2>2. graphEnded /\ ~cancelled => {Id(i) : i \in settled} \ {NoId} = Closure
    BY <1>1, AllReached
  <2>3. \A i \in DOMAIN agents :
          agents[i].says = "success" /\ specs[i].role = "TESTER" => i \in recorded
    BY <2>0 DEF ResultsInv
  <2> QED
    BY <2>0, <2>1, <2>2, <2>3 DEF GraphRunsInOrder, ResultsInv
<1> QED
  BY <1>1, GraphInvariance, PTL

-----------------------------------------------------------------------------
\* GitRollback

Covered(f, names) == \E name \in names : f \in PathsOf(name)

\* A file that the index does not have is in no commit that is checked out, so
\* that a status names a directory or files of it, never both; and so does a
\* checkpoint.
OneNaming(names) == FolderName \in names => Folder \cap names = {}
NamingInv ==
  /\ \A f \in Paths : staged[f] = 0 => commits[head][f] = 0
  /\ \A point \in points : OneNaming(point.own \cup point.user)

\* The user's change is shielded when no other name of the agent's covers it.
\* It stays, and as long as it differs from what git has, git keeps it.
Shielded(f, name) ==
  /\ f \in PathsOf(name) \ rollback.fresh /\ rollback.before[f] # 0
  /\ \A other \in rollback.own : f \in PathsOf(other) => other = name
Dirty(f) == staged[f] = 0 \/ staged[f] # commits[head][f] \/ tree[f] # staged[f]
SurvivesInv ==
  /\ \A name \in rollback.user : \A f \in Paths : Shielded(f, name) =>
       tree[f] = rollback.before[f] /\ (Running => Dirty(f))
  /\ rollback.at = "none" => rollback.user = {}
  /\ Running => rollback.todo \subseteq rollback.own \ rollback.user

\* A file is settled when the rest of the rollback will leave it as wanted:
\* when it is, when nothing has changed it, or when git knows nothing of it.
Settled(f) ==
  \/ tree[f] = WantedTree[f]
  \/ tree[f] = staged[f] /\ staged[f] = commits[head][f]
  \/ tree[f] = 0 /\ staged[f] = 0
\* So is each file that a restored name covers, or it has one to come of those
\* that the status named; a directory among these is untracked as a whole.
Open(f) == f \notin rollback.fresh /\ ~Covered(f, rollback.user)
First == rollback.todo \cap rollback.now
RevertInv ==
  /\ Running =>
       /\ OneNaming(rollback.now)
       /\ FolderName \in First => FolderName \in UntrackedFiles
       /\ \A f \in Paths :
            Open(f) /\ Covered(f, rollback.todo \cup rollback.done) =>
              Settled(f) \/ Covered(f, First)
  /\ RollbackReverts

GitInv == GitTypeOK /\ NamingInv /\ SurvivesInv /\ RevertInv


\* The fields of a rollback, and the tree it wants.
LEMMA RollbackTypes ==
  ASSUME GitTypeOK
  PROVE  /\ rollback.own \subseteq PathNames /\ rollback.user \subseteq PathNames
         /\ rollback.now \subseteq PathNames /\ rollback.todo \subseteq PathNames
         /\ rollback.done \subseteq PathNames /\ rollback.fresh \subseteq Paths
         /\ rollback.before \in Trees /\ rollback.ref \in 0..Len(commits)
         /\ Len(commits) \in Nat /\ DOMAIN commits = 1..Len(commits)
         /\ commits[head] \in Trees /\ WantedTree \in Trees
<1>1. commits \in Seq(Trees) /\ head \in DOMAIN commits /\ rollback \in Rollbacks
      /\ rollback.ref \in 0..Len(commits)
  BY DEF GitTypeOK
<1>2. Len(commits) \in Nat /\ DOMAIN commits = 1..Len(commits) /\ commits[head] \in Trees
  BY <1>1
<1>3. WantedTree \in Trees
  <2>1. CASE rollback.ref = 0
    BY <1>2, <2>1 DEF WantedTree
  <2>2. CASE rollback.ref # 0
    <3>1. rollback.ref \in DOMAIN commits
      BY <1>1, <1>2, <2>2
    <3> QED
      BY <1>1, <2>2, <3>1 DEF WantedTree
  <2> QED
    BY <2>1, <2>2
<1> QED
  BY <1>1, <1>2, <1>3 DEF Rollbacks

\* A name stands for the files it covers, of which the reported one is one.
LEMMA PathsOfNames ==
  /\ \A name \in PathNames : PathsOf(name) \subseteq Paths
  /\ \A name \in PathNames \ {FolderName} : PathsOf(name) = {name} /\ name \in Paths
  /\ PathsOf(FolderName) = Folder /\ FolderName \notin Paths
BY GitConstants DEF PathsOf, PathNames

LEMMA NameOfFile ==
  ASSUME NEW f \in Paths
  PROVE  /\ NameOf(f) \in PathNames /\ f \in PathsOf(NameOf(f))
         /\ NameOf(f) # FolderName => NameOf(f) = f
         /\ NameOf(f) = FolderName =>
              f \in Folder /\ Untracked(f) /\ \A g \in Folder : staged[g] = 0
BY GitConstants DEF NameOf, PathNames, PathsOf

LEMMA StatusTypes ==
  /\ AllChanged \subseteq PathNames /\ AgentOwned \subseteq AllChanged
  /\ UserOwned \subseteq AllChanged /\ AgentOwned \cup UserOwned = AllChanged
BY NameOfFile DEF AllChanged, AgentOwned, UserOwned

\* What is called untracked is not in the index.
LEMMA UntrackedMeans ==
  ASSUME NEW name \in UntrackedFiles, NEW f \in PathsOf(name)
  PROVE  staged[f] = 0
<1>1. PICK g \in Paths : Untracked(g) /\ name = NameOf(g)
  BY DEF UntrackedFiles
<1>2. CASE name = FolderName
  BY <1>1, <1>2, NameOfFile, PathsOfNames
<1>3. CASE name # FolderName
  <2>1. name = g /\ f = g
    BY <1>1, <1>3, NameOfFile, PathsOfNames
  <2> QED
    BY <1>1, <2>1 DEF Untracked
<1> QED
  BY <1>2, <1>3

\* A status names a directory, or files of it.
LEMMA StatusNames ==
  ASSUME NamingInv
  PROVE  /\ OneNaming(AllChanged)
         /\ FolderName \in AllChanged => FolderName \in UntrackedFiles
<1> SUFFICES ASSUME FolderName \in AllChanged
             PROVE  Folder \cap AllChanged = {} /\ FolderName \in UntrackedFiles
  BY DEF OneNaming
<1>1. PICK f \in Paths : Changed(f) /\ NameOf(f) = FolderName
  BY DEF AllChanged
<1>2. Untracked(f) /\ \A g \in Folder : staged[g] = 0
  BY <1>1, NameOfFile
<1>3. ASSUME NEW g \in Paths, Changed(g), NameOf(g) \in Folder
      PROVE  FALSE
  <2>1. NameOf(g) = g /\ g \in Folder
    BY <1>3, NameOfFile, GitConstants
  <2>2. staged[g] = 0 /\ commits[head][g] = 0
    BY <1>2, <1>3, <2>1 DEF NamingInv
  <2>3. Untracked(g)
    BY <1>3, <2>2 DEF Changed, Untracked
  <2> QED
    BY <1>2, <2>1, <2>3, GitConstants DEF NameOf
<1> QED
  BY <1>1, <1>2, <1>3 DEF AllChanged, UntrackedFiles

\* Types: a commit of everything,
LEMMA CommitTypes ==
  ASSUME GitTypeOK, CommitAll
  PROVE  /\ commits' \in Seq(Trees) /\ Len(commits') = Len(commits) + 1
         /\ head' \in DOMAIN commits' /\ head' = Len(commits) + 1 /\ commits'[head'] = tree
         /\ \A i \in DOMAIN commits : commits'[i] = commits[i]
         /\ staged' = tree /\ 0..Len(commits) \subseteq 0..Len(commits')
<1>1. commits \in Seq(Trees) /\ tree \in Trees
  BY DEF GitTypeOK
<1>2. commits' = Append(commits, tree) /\ head' = Len(commits) + 1 /\ staged' = tree
  BY DEF CommitAll
<1> QED
  BY <1>1, <1>2

\* and what a rollback may check out and restore.
LEMMA RestoreTypes ==
  ASSUME GitTypeOK
  PROVE  /\ CheckedOut(tree, WantedTree) \in Trees /\ CheckedOut(staged, WantedTree) \in Trees
         /\ \A name : Restored(name, WantedTree) \in Trees
<1>1. tree \in Trees /\ staged \in Trees /\ WantedTree \in Trees
  BY RollbackTypes DEF GitTypeOK
<1> QED
  BY <1>1 DEF CheckedOut, Restored, Trees


\* Steps between rollbacks: the trees of git stay, or everything is committed.
LEMMA QuietKeeps ==
  ASSUME GitInv, UNCHANGED <<tree, rollback>>,
         UNCHANGED <<staged, commits, head>> \/ (~Running /\ CommitAll)
  PROVE  SurvivesInv' /\ RevertInv' /\ \A f \in Paths : staged'[f] = 0 => commits'[head'][f] = 0
<1>0. GitTypeOK /\ NamingInv /\ SurvivesInv /\ RevertInv
  BY DEF GitInv
<1>1. CASE UNCHANGED <<staged, commits, head>>
  <2>1. SurvivesInv'
    BY <1>0, <1>1 DEF SurvivesInv, Shielded, Dirty, Running
  <2>2. RevertInv'
    BY <1>0, <1>1
    DEF RevertInv, Running, OneNaming, First, UntrackedFiles, Untracked, NameOf, Open, Covered,
        Settled, WantedTree, RollbackReverts
  <2> QED
    BY <1>0, <1>1, <2>1, <2>2 DEF NamingInv
<1>2. CASE ~Running /\ CommitAll
  <2>1. commits'[head'] = tree /\ staged' = tree /\ ~Running'
    BY <1>0, <1>2, CommitTypes DEF Running
  <2>2. SurvivesInv'
    BY <1>0, <2>1 DEF SurvivesInv, Shielded, Running
  <2>3. RevertInv'
    BY <2>1 DEF RevertInv, Running, RollbackReverts
  <2> QED
    BY <2>1, <2>2, <2>3
<1> QED
  BY <1>1, <1>2

LEMMA BaselineKeeps ==
  ASSUME GitInv, NEW preserve \in BOOLEAN, CaptureBaseline(preserve)
  PROVE  GitInv'
<1>0. GitTypeOK /\ NamingInv
  BY DEF GitInv
<1>1. /\ ~Running /\ captured' = TRUE /\ UNCHANGED <<tree, owners, points, rollback, writes>>
      /\ UNCHANGED <<staged, commits, head>> \/ CommitAll
      /\ baseline' \subseteq baseline \cup AllChanged
  BY DEF CaptureBaseline
<1>2. SurvivesInv' /\ RevertInv' /\ \A f \in Paths : staged'[f] = 0 => commits'[head'][f] = 0
  BY <1>1, QuietKeeps
<1>3. NamingInv'
  BY <1>0, <1>1, <1>2 DEF NamingInv, OneNaming
<1>4. GitTypeOK'
  <2>1. /\ staged' \in Trees /\ commits' \in Seq(Trees) /\ head' \in DOMAIN commits'
        /\ 0..Len(commits) \subseteq 0..Len(commits')
    BY <1>0, <1>1, CommitTypes DEF GitTypeOK
  <2>2. points' \subseteq [ref: 0..Len(commits'), own: SUBSET PathNames, user: SUBSET PathNames]
    BY <1>0, <1>1, <2>1 DEF GitTypeOK
  <2>3. rollback'.ref \in 0..Len(commits')
    BY <1>0, <1>1, <2>1 DEF GitTypeOK
  <2>4. baseline' \subseteq PathNames
    BY <1>0, <1>1, StatusTypes DEF GitTypeOK
  <2> QED
    BY <1>0, <1>1, <2>1, <2>2, <2>3, <2>4 DEF GitTypeOK
<1> QED
  BY <1>2, <1>3, <1>4 DEF GitInv

LEMMA CheckpointKeeps ==
  ASSUME GitInv, NEW commit \in BOOLEAN, CreateCheckpoint(commit)
  PROVE  GitInv'
<1> DEFINE point == [ref  |-> IF commit THEN Len(commits) + 1 ELSE 0,
                     own  |-> AgentOwned, user |-> UserOwned]
<1>0. GitTypeOK /\ NamingInv
  BY DEF GitInv
<1>1. /\ ~Running /\ UNCHANGED <<tree, owners, baseline, captured, rollback, writes>>
      /\ points' = points \cup {point}
      /\ IF commit THEN CommitAll ELSE UNCHANGED <<staged, commits, head>>
  BY DEF CreateCheckpoint
<1>2. SurvivesInv' /\ RevertInv' /\ \A f \in Paths : staged'[f] = 0 => commits'[head'][f] = 0
  BY <1>1, QuietKeeps
<1>3. point.own = AgentOwned /\ point.user = UserOwned
  OBVIOUS
<1>4. NamingInv'
  <2>1. OneNaming(point.own \cup point.user)
    BY <1>0, <1>3, StatusNames, StatusTypes
  <2> HIDE DEF point
  <2>2. \A p \in points' : OneNaming(p.own \cup p.user)
    BY <1>0, <1>1, <2>1 DEF NamingInv
  <2> QED
    BY <1>2, <2>2 DEF NamingInv, OneNaming
<1>5. GitTypeOK'
  <2>1. /\ staged' \in Trees /\ commits' \in Seq(Trees) /\ head' \in DOMAIN commits'
        /\ 0..Len(commits) \subseteq 0..Len(commits')
        /\ (IF commit THEN Len(commits) + 1 ELSE 0) \in 0..Len(commits')
    <3>1. CASE commit
      <4>1. Len(commits') = Len(commits) + 1 /\ Len(commits) \in Nat
        BY <1>0, <1>1, <3>1, CommitTypes, RollbackTypes
      <4> QED
        BY <1>0, <1>1, <3>1, <4>1, CommitTypes
    <3>2. CASE ~commit
      BY <1>0, <1>1, <3>2, RollbackTypes DEF GitTypeOK
    <3> QED
      BY <3>1, <3>2
  <2> DEFINE Points(n) == [ref: 0..n, own: SUBSET PathNames, user: SUBSET PathNames]
  <2>2. point \in Points(Len(commits'))
    BY <2>1, StatusTypes
  <2>3. points \subseteq Points(Len(commits'))
    BY <1>0, <2>1 DEF GitTypeOK
  <2>4. points' \subseteq Points(Len(commits'))
    <3> HIDE DEF point, Points
    <3> QED
      BY <1>1, <2>2, <2>3
  <2>5. rollback'.ref \in 0..Len(commits')
    BY <1>0, <1>1, <2>1 DEF GitTypeOK
  <2> QED
    BY <1>0, <1>1, <2>1, <2>4, <2>5 DEF GitTypeOK
<1> QED
  BY <1>2, <1>4, <1>5 DEF GitInv

LEMMA DeletionKeeps ==
  ASSUME GitInv, NEW point \in points, DeleteCheckpoint(point)
  PROVE  GitInv'
<1>0. GitTypeOK /\ NamingInv
  BY DEF GitInv
<1>1. /\ points' = points \ {point}
      /\ UNCHANGED <<tree, staged, commits, head, owners, baseline, captured, rollback, writes>>
  BY DEF DeleteCheckpoint
<1>2. SurvivesInv' /\ RevertInv'
  BY <1>1, QuietKeeps
<1>3. NamingInv'
  BY <1>0, <1>1 DEF NamingInv, OneNaming
<1>4. GitTypeOK'
  BY <1>0, <1>1 DEF GitTypeOK
<1> QED
  BY <1>2, <1>3, <1>4 DEF GitInv

\* A write is fresh in the rollback that goes on around it, or has ended.
LEMMA WriteKeeps ==
  ASSUME GitInv, NEW f \in Paths, NEW who \in {"user", "agent"}, NEW marked \in BOOLEAN,
         Write(f, who, marked)
  PROVE  GitInv'
<1>0. GitTypeOK /\ NamingInv /\ SurvivesInv /\ RevertInv
  BY DEF GitInv
<1> DEFINE content == writes + 2
<1>1. /\ content \in Nat /\ content # 0 /\ writes' \in Nat
      /\ tree' = [tree EXCEPT ![f] = content]
      /\ owners' = IF marked THEN [owners EXCEPT ![f] = who] ELSE owners
      /\ rollback' = IF rollback.at = "none" THEN rollback
                     ELSE [rollback EXCEPT !.before[f] = content, !.fresh = @ \cup {f}]
      /\ UNCHANGED <<staged, commits, head, baseline, captured, points>>
  BY <1>0 DEF Write, GitTypeOK
<1> HIDE DEF content
<1>2. /\ tree' \in Trees /\ tree'[f] # 0
      /\ \A g \in Paths \ {f} : tree'[g] = tree[g]
  BY <1>0, <1>1 DEF GitTypeOK, Trees
<1>3. rollback' \in Rollbacks /\ rollback'.ref \in 0..Len(commits)
  <2>1. CASE rollback.at = "none"
    BY <1>0, <1>1, <2>1 DEF GitTypeOK
  <2>2. CASE rollback.at # "none"
    <3> DEFINE b == [rollback.before EXCEPT ![f] = content]
               fr == rollback.fresh \cup {f}
    <3>1. rollback' = [rollback EXCEPT !.before = b, !.fresh = fr]
      BY <1>1, <2>2
    <3>2. b \in Trees /\ fr \in SUBSET Paths
      BY <1>0, <1>1, RollbackTypes DEF Trees
    <3>3. rollback \in Rollbacks /\ rollback.ref \in 0..Len(commits)
      BY <1>0 DEF GitTypeOK
    <3> HIDE DEF b, fr
    <3> QED
      BY <3>1, <3>2, <3>3 DEF Rollbacks
  <2> QED
    BY <2>1, <2>2
<1>4. GitTypeOK'
  <2>1. owners' \in [PathNames -> {"none", "user", "agent"}]
    BY <1>0, <1>1 DEF GitTypeOK, PathNames
  <2> QED
    BY <1>0, <1>1, <1>2, <1>3, <2>1 DEF GitTypeOK
<1>5. NamingInv'
  BY <1>0, <1>1 DEF NamingInv, OneNaming
<1>6. CASE rollback.at = "none"
  <2>1. rollback' = rollback /\ rollback.user = {} /\ ~Running
    BY <1>0, <1>1, <1>6 DEF SurvivesInv, Running
  <2>2. SurvivesInv' /\ RevertInv'
    BY <1>6, <2>1 DEF SurvivesInv, RevertInv, Running, RollbackReverts
  <2> QED
    BY <1>4, <1>5, <2>2 DEF GitInv
<1>7. CASE rollback.at # "none"
  <2>1. /\ rollback'.at = rollback.at /\ rollback'.ref = rollback.ref
        /\ rollback'.now = rollback.now /\ rollback'.own = rollback.own
        /\ rollback'.user = rollback.user /\ rollback'.todo = rollback.todo
        /\ rollback'.done = rollback.done /\ rollback'.fresh = rollback.fresh \cup {f}
        /\ \A g \in Paths \ {f} : rollback'.before[g] = rollback.before[g]
    BY <1>0, <1>1, <1>7 DEF GitTypeOK, Rollbacks, Trees
  <2>2. SurvivesInv'
    <3>1. ASSUME NEW name \in rollback.user, NEW g \in Paths, Shielded(g, name)'
          PROVE  tree'[g] = rollback'.before[g] /\ (Running' => Dirty(g)')
      <4>1. g # f /\ Shielded(g, name)
        BY <2>1, <3>1 DEF Shielded, PathsOf
      <4>2. tree[g] = rollback.before[g] /\ (Running => Dirty(g))
        BY <1>0, <3>1, <4>1 DEF SurvivesInv
      <4> QED
        BY <1>1, <1>2, <2>1, <4>1, <4>2 DEF Running, Dirty
    <3> QED
      BY <1>0, <2>1, <3>1 DEF SurvivesInv, Running
  <2>3. RevertInv'
    <3>1. ASSUME Running
          PROVE  /\ OneNaming(rollback.now)
                 /\ FolderName \in First => FolderName \in UntrackedFiles'
                 /\ \A g \in Paths :
                      Open(g)' /\ Covered(g, rollback.todo \cup rollback.done) =>
                        Settled(g)' \/ Covered(g, First)
      <4>1. ASSUME FolderName \in UntrackedFiles
            PROVE  FolderName \in UntrackedFiles'
        <5>1. PICK g \in Paths : NameOf(g) = FolderName /\ Untracked(g)
          BY <4>1 DEF UntrackedFiles
        <5>2. g \in Folder /\ \A h \in Folder : staged[h] = 0
          BY <5>1, NameOfFile
        <5>3. Untracked(g)' /\ NameOf(g)' = FolderName
          BY <1>1, <1>2, <5>1, <5>2 DEF Untracked, NameOf
        <5> QED
          BY <5>3 DEF UntrackedFiles
      <4>2. ASSUME NEW g \in Paths, Open(g)'
            PROVE  Open(g) /\ (Settled(g) => Settled(g)')
        <5>1. g # f /\ Open(g)
          BY <2>1, <4>2 DEF Open, Covered, PathsOf
        <5>2. WantedTree' = WantedTree
          BY <1>1, <2>1 DEF WantedTree
        <5> QED
          BY <1>1, <1>2, <5>1, <5>2 DEF Settled
      <4> QED
        BY <1>0, <3>1, <4>1, <4>2 DEF RevertInv
    <3>2. RollbackReverts'
      <4>1. ASSUME rollback.at = "done", NEW name \in rollback.done,
                   NEW g \in PathsOf(name) \ rollback'.fresh,
                   \A other \in rollback.user : g \notin PathsOf(other)
            PROVE  tree'[g] = commits[head][g]
        <5>1. g \in Paths
          BY <1>0, <4>1, RollbackTypes, PathsOfNames
        <5>2. g # f /\ g \notin rollback.fresh
          BY <2>1, <4>1
        <5> QED
          BY <1>0, <1>2, <4>1, <5>1, <5>2 DEF RevertInv, RollbackReverts
      <4> QED
        BY <1>1, <2>1, <4>1 DEF RollbackReverts, PathsOf
    <3>3. Running' = Running /\ First' = First
      BY <2>1 DEF Running, First
    <3>4. \A g, names : Covered(g, names)' = Covered(g, names)
      BY DEF Covered, PathsOf
    <3> QED
      BY <2>1, <3>1, <3>2, <3>3, <3>4 DEF RevertInv, OneNaming, Covered, PathsOf
  <2> QED
    BY <1>4, <1>5, <2>2, <2>3 DEF GitInv
<1> QED
  BY <1>6, <1>7


\* A rollback begins with what the status and the checkpoint name: each changed
\* file that is not the user's is the agent's by a name of the status, and that
\* name is among those to restore when any name that covers the file is.
LEMMA FirstCovers ==
  ASSUME NamingInv, NEW own, NEW user, own \subseteq PathNames, user \subseteq PathNames,
         OneNaming(own \cup user),
         NEW f \in Paths, Changed(f), ~Covered(f, UserOwned),
         NEW name \in (AgentOwned \cup own) \ (UserOwned \cup user), f \in PathsOf(name)
  PROVE  NameOf(f) \in AgentOwned \ (UserOwned \cup user)
<1> DEFINE n == NameOf(f)
<1>1. n \in AllChanged /\ f \in PathsOf(n) /\ n \in PathNames
  BY NameOfFile DEF AllChanged
<1>2. n \in AgentOwned /\ n \notin UserOwned
  BY <1>1 DEF Covered, UserOwned
<1>3. SUFFICES ASSUME n \in user
               PROVE  FALSE
  BY <1>2
<1>4. n # name /\ OneNaming(AllChanged) /\ name \in PathNames
  BY <1>3, StatusNames, StatusTypes
<1>5. n = FolderName \/ name = FolderName
  BY <1>1, <1>4, PathsOfNames
<1>6. n \in Folder \/ name \in Folder
  BY <1>1, <1>4, <1>5, PathsOfNames
<1>7. CASE name \in AgentOwned
  <2>1. name \in AllChanged
    BY <1>7, StatusTypes
  <2> HIDE DEF n
  <2> QED
    BY <1>1, <1>4, <1>5, <1>6, <2>1, PathsOfNames, GitConstants DEF OneNaming
<1>8. CASE name \in own
  <2> HIDE DEF n
  <2> QED
    BY <1>3, <1>4, <1>5, <1>6, <1>8, PathsOfNames, GitConstants DEF OneNaming
<1> QED
  BY <1>7, <1>8

LEMMA BeginKeeps ==
  ASSUME GitInv, NEW point \in points \cup BareRefs, BeginRollback(point)
  PROVE  GitInv'
<1>0. GitTypeOK /\ NamingInv /\ SurvivesInv /\ RevertInv
  BY DEF GitInv
<1>1. /\ point.ref \in 0..Len(commits) /\ point.own \subseteq PathNames /\ point.user \subseteq PathNames
      /\ OneNaming(point.own \cup point.user)
  BY <1>0 DEF GitTypeOK, BareRefs, NamingInv, OneNaming
<1> DEFINE own == AgentOwned \cup point.own
           user == UserOwned \cup point.user
<1>2. /\ rollback' = [at |-> "running", ref |-> point.ref, now |-> AgentOwned, own |-> own,
                      user |-> UserOwned, todo |-> own \ user, done |-> {},
                      before |-> tree, fresh |-> {}]
      /\ UNCHANGED <<tree, staged, commits, head, owners, baseline, captured, points, writes>>
  BY DEF BeginRollback, AgentFilesToRevert, UserFilesToPreserve
<1>3. own \subseteq PathNames /\ AgentOwned \subseteq PathNames /\ UserOwned \subseteq PathNames
  BY <1>1, StatusTypes
<1>4. /\ rollback'.at = "running" /\ rollback'.now = AgentOwned /\ rollback'.own = own
      /\ rollback'.user = UserOwned /\ rollback'.todo = own \ user /\ rollback'.done = {}
      /\ rollback'.before = tree /\ rollback'.fresh = {} /\ rollback'.ref = point.ref
  BY <1>2
<1>5. GitTypeOK'
  <2>1. rollback' \in Rollbacks
    <3>1. tree \in Trees /\ point.ref \in Nat
      BY <1>0, <1>1, RollbackTypes DEF GitTypeOK
    <3> HIDE DEF own, user
    <3> QED
      BY <1>2, <1>3, <3>1 DEF Rollbacks
  <2> HIDE DEF own, user
  <2> QED
    BY <1>0, <1>1, <1>2, <1>4, <2>1 DEF GitTypeOK
<1>6. NamingInv'
  BY <1>0, <1>2 DEF NamingInv, OneNaming
<1>7. SurvivesInv'
  <2>1. ASSUME NEW name \in UserOwned, NEW f \in PathsOf(name)
        PROVE  Dirty(f)
    <3>1. PICK g \in Paths : Changed(g) /\ name = NameOf(g)
      BY DEF UserOwned, AllChanged
    <3>2. CASE name = FolderName
      BY <2>1, <3>1, <3>2, NameOfFile, PathsOfNames DEF Dirty
    <3>3. CASE name # FolderName
      <4>1. name = g /\ f = g
        BY <2>1, <3>1, <3>3, NameOfFile, PathsOfNames
      <4> QED
        BY <3>1, <4>1 DEF Changed, Untracked, Dirty
    <3> QED
      BY <3>2, <3>3
  <2>2. \A f : Dirty(f)' = Dirty(f)
    BY <1>2 DEF Dirty
  <2>3. \A name \in UserOwned : \A f \in Paths : Shielded(f, name)' => tree'[f] = rollback'.before[f] /\ Dirty(f)'
    BY <1>2, <1>4, <2>1, <2>2 DEF Shielded, PathsOf
  <2> QED
    BY <1>4, <2>3 DEF SurvivesInv, Running
<1>8. RevertInv'
  <2>1. OneNaming(AgentOwned)
    BY <1>0, StatusNames, StatusTypes DEF OneNaming
  <2>2. FolderName \in AgentOwned => FolderName \in UntrackedFiles
    BY <1>0, StatusNames, StatusTypes
  <2>3. ASSUME NEW f \in Paths, ~Covered(f, UserOwned), Covered(f, own \ user)
        PROVE  \/ tree[f] = staged[f] /\ staged[f] = commits[head][f]
               \/ Covered(f, (own \ user) \cap AgentOwned)
    <3>1. CASE Changed(f)
      <4>1. PICK name \in own \ user : f \in PathsOf(name)
        BY <2>3 DEF Covered
      <4>2. NameOf(f) \in AgentOwned \ user
        BY <1>0, <1>1, <2>3, <3>1, <4>1, FirstCovers
      <4> QED
        BY <4>2, NameOfFile DEF Covered
    <3>2. CASE ~Changed(f)
      BY <3>2 DEF Changed, Untracked
    <3> QED
      BY <3>1, <3>2
  <2>4. UntrackedFiles' = UntrackedFiles
    BY <1>2 DEF UntrackedFiles, Untracked, NameOf
  <2>5. \A f, names : Covered(f, names)' = Covered(f, names)
    BY DEF Covered, PathsOf
  <2>6. First' = (own \ user) \cap AgentOwned
    BY <1>4 DEF First
  <2> HIDE DEF own, user
  <2>7. \A f \in Paths :
          (Open(f) /\ Covered(f, rollback.todo \cup rollback.done) =>
            Settled(f) \/ Covered(f, First))'
    <3> SUFFICES ASSUME NEW f \in Paths, Open(f)', Covered(f, rollback.todo \cup rollback.done)'
                 PROVE  Settled(f)' \/ Covered(f, First)'
      OBVIOUS
    <3>0. Covered(f, First)' <=> Covered(f, First')
      BY DEF Covered, PathsOf
    <3>1. ~Covered(f, UserOwned) /\ Covered(f, own \ user)
      BY <1>4 DEF Open, Covered, PathsOf
    <3>2. \/ tree[f] = staged[f] /\ staged[f] = commits[head][f]
          \/ Covered(f, First')
      BY <2>3, <2>6, <3>1
    <3> QED
      BY <1>2, <3>0, <3>2 DEF Settled
  <2> QED
    BY <1>4, <2>1, <2>2, <2>4, <2>6, <2>7 DEF RevertInv, RollbackReverts, OneNaming
<1> QED
  BY <1>5, <1>6, <1>7, <1>8 DEF GitInv

LEMMA FailureKeeps ==
  ASSUME GitInv, RestoreFails
  PROVE  GitInv'
<1>0. GitTypeOK /\ NamingInv /\ SurvivesInv /\ RevertInv
  BY DEF GitInv
<1>1. /\ rollback' = [rollback EXCEPT !.at = "failed"]
      /\ UNCHANGED <<tree, staged, commits, head, owners, baseline, captured, points, writes>>
  BY DEF RestoreFails
<1>2. /\ rollback'.at = "failed" /\ rollback'.own = rollback.own /\ rollback'.user = rollback.user
      /\ rollback'.before = rollback.before /\ rollback'.fresh = rollback.fresh
      /\ rollback'.ref = rollback.ref /\ rollback' \in Rollbacks
  BY <1>0, <1>1 DEF GitTypeOK, Rollbacks
<1>3. GitTypeOK'
  BY <1>0, <1>1, <1>2 DEF GitTypeOK
<1>4. NamingInv'
  BY <1>0, <1>1 DEF NamingInv, OneNaming
<1>5. SurvivesInv'
  BY <1>0, <1>1, <1>2 DEF SurvivesInv, Shielded, PathsOf, Running
<1>6. RevertInv'
  BY <1>2 DEF RevertInv, Running, RollbackReverts
<1> QED
  BY <1>3, <1>4, <1>5, <1>6 DEF GitInv


\* What a restored path does to each file it covers: the file is as wanted, or
\* gone and unknown to git, or, in a directory that git restores, left as it is.
LEMMA RestoredFile ==
  ASSUME GitInv, NEW name \in PathNames, RestorePath(name)
  PROVE  /\ tree' \in Trees /\ staged' \in Trees
         /\ \A f \in Paths \ PathsOf(name) : tree'[f] = tree[f] /\ staged'[f] = staged[f]
         /\ \A f \in PathsOf(name) :
              \/ tree'[f] = WantedTree[f]
              \/ tree'[f] = 0 /\ staged'[f] = 0
              \/ /\ name = FolderName /\ name \notin UntrackedFiles
                 /\ tree'[f] = tree[f] /\ staged'[f] = staged[f]
         /\ \A f \in Paths : staged'[f] = 0 => staged[f] = 0
<1>0. GitTypeOK
  BY DEF GitInv
<1>1. PathsOf(name) \subseteq Paths /\ (name # FolderName => PathsOf(name) = {name})
  BY PathsOfNames
<1> DEFINE T == WantedTree
           known == {f \in PathsOf(name) : T[f] # 0}
<1>2. /\ tree' = Restored(name, T)
      /\ staged' = [f \in Paths |->
           IF f \in PathsOf(name) /\ name \notin UntrackedFiles /\ T[f] # 0 THEN T[f] ELSE staged[f]]
  BY DEF RestorePath
<1>3. T \in Trees /\ staged \in Trees /\ tree \in Trees
  BY <1>0, RollbackTypes DEF GitTypeOK
<1> HIDE DEF T
<1>4. tree' \in Trees /\ staged' \in Trees
  <2>1. staged' \in Trees
    BY <1>2, <1>3 DEF Trees
  <2>2. tree' \in Trees
    BY <1>2, <1>3 DEF Trees, Restored
  <2> QED
    BY <2>1, <2>2
<1>5. \A f \in Paths :
        /\ staged'[f] = IF f \in PathsOf(name) /\ name \notin UntrackedFiles /\ T[f] # 0
                        THEN T[f] ELSE staged[f]
        /\ f \notin PathsOf(name) => tree'[f] = tree[f]
        /\ f \in PathsOf(name) /\ name \notin UntrackedFiles /\ known # {} =>
             tree'[f] = IF f \in known THEN T[f] ELSE tree[f]
        /\ f \in PathsOf(name) /\ (name \in UntrackedFiles \/ known = {}) => tree'[f] = 0
  BY <1>2 DEF Restored
<1>6. ASSUME NEW f \in PathsOf(name)
      PROVE  \/ tree'[f] = T[f]
             \/ tree'[f] = 0 /\ staged'[f] = 0
             \/ /\ name = FolderName /\ name \notin UntrackedFiles
                /\ tree'[f] = tree[f] /\ staged'[f] = staged[f]
  <2>0. f \in Paths
    BY <1>1
  <2>1. CASE name \in UntrackedFiles
    BY <1>5, <2>0, <2>1, UntrackedMeans
  <2>2. CASE name \notin UntrackedFiles /\ known = {}
    BY <1>5, <2>0, <2>2
  <2>3. CASE name \notin UntrackedFiles /\ known # {}
    <3>1. CASE f \in known
      BY <1>5, <2>0, <2>3, <3>1
    <3>2. CASE f \notin known
      <4>1. name = FolderName
        BY <1>1, <2>3, <3>2
      <4> QED
        BY <1>5, <2>0, <2>3, <3>2, <4>1
    <3> QED
      BY <3>1, <3>2
  <2> QED
    BY <2>1, <2>2, <2>3
<1> QED
  BY <1>1, <1>4, <1>5, <1>6 DEF T

\* A user's change is of no name to restore, and what comes first is settled by
\* its restoration; what is settled stays so.
LEMMA RestoreKeeps ==
  ASSUME GitInv, NEW name \in rollback.todo, RestorePath(name)
  PROVE  GitInv'
<1>0. GitTypeOK /\ NamingInv /\ SurvivesInv /\ RevertInv
  BY DEF GitInv
<1>1. /\ Running /\ ComesNext(name) /\ name \in PathNames
      /\ owners' = [owners EXCEPT ![name] = "none"]
      /\ rollback' = [rollback EXCEPT !.todo = @ \ {name}, !.done = @ \cup {name}]
      /\ UNCHANGED <<commits, head, baseline, captured, points, writes>>
  BY <1>0, RollbackTypes DEF RestorePath
<1>2. /\ rollback' \in Rollbacks
      /\ rollback'.at = "running" /\ rollback'.ref = rollback.ref
      /\ rollback'.now = rollback.now /\ rollback'.own = rollback.own
      /\ rollback'.user = rollback.user /\ rollback'.todo = rollback.todo \ {name}
      /\ rollback'.done = rollback.done \cup {name} /\ rollback'.fresh = rollback.fresh
      /\ rollback'.before = rollback.before
  <2> DEFINE left == rollback.todo \ {name}
             rebuilt == rollback.done \cup {name}
  <2>1. rollback' = [rollback EXCEPT !.todo = left, !.done = rebuilt]
    BY <1>1
  <2>2. left \in SUBSET PathNames /\ rebuilt \in SUBSET PathNames
    BY <1>0, <1>1, RollbackTypes
  <2>3. rollback \in Rollbacks /\ rollback.at = "running"
    BY <1>0, <1>1 DEF GitTypeOK, Running
  <2> HIDE DEF left, rebuilt
  <2>4. /\ rollback' \in Rollbacks
        /\ rollback'.at = "running" /\ rollback'.ref = rollback.ref
        /\ rollback'.now = rollback.now /\ rollback'.own = rollback.own
        /\ rollback'.user = rollback.user /\ rollback'.todo = left
        /\ rollback'.done = rebuilt /\ rollback'.fresh = rollback.fresh
        /\ rollback'.before = rollback.before
    BY <2>1, <2>2, <2>3 DEF Rollbacks
  <2> QED
    BY <2>4 DEF left, rebuilt
<1>3. /\ tree' \in Trees /\ staged' \in Trees
      /\ \A f \in Paths \ PathsOf(name) : tree'[f] = tree[f] /\ staged'[f] = staged[f]
      /\ \A f \in PathsOf(name) :
           \/ tree'[f] = WantedTree[f]
           \/ tree'[f] = 0 /\ staged'[f] = 0
           \/ /\ name = FolderName /\ name \notin UntrackedFiles
              /\ tree'[f] = tree[f] /\ staged'[f] = staged[f]
      /\ \A f \in Paths : staged'[f] = 0 => staged[f] = 0
  BY <1>1, RestoredFile
<1>4. GitTypeOK'
  <2>1. owners' \in [PathNames -> {"none", "user", "agent"}]
    BY <1>0, <1>1 DEF GitTypeOK
  <2>2. rollback'.ref \in 0..Len(commits)
    BY <1>0, <1>2 DEF GitTypeOK
  <2> QED
    BY <1>0, <1>1, <1>2, <1>3, <2>1, <2>2 DEF GitTypeOK
<1>5. NamingInv'
  BY <1>0, <1>1, <1>3 DEF NamingInv, OneNaming
<1>6. SurvivesInv'
  <2>1. name \in rollback.own /\ name \notin rollback.user
    BY <1>0, <1>1 DEF SurvivesInv
  <2>2. ASSUME NEW n \in rollback.user, NEW f \in Paths, Shielded(f, n)'
        PROVE  tree'[f] = rollback'.before[f] /\ Dirty(f)'
    <3>1. Shielded(f, n)
      BY <1>2, <2>2 DEF Shielded, PathsOf
    <3>2. f \notin PathsOf(name)
      BY <2>1, <2>2, <3>1 DEF Shielded
    <3>3. tree[f] = rollback.before[f] /\ Dirty(f)
      BY <1>0, <1>1, <2>2, <3>1 DEF SurvivesInv
    <3> QED
      BY <1>1, <1>2, <1>3, <3>2, <3>3 DEF Dirty
  <2> QED
    BY <1>0, <1>1, <1>2, <2>2 DEF SurvivesInv
<1>7. RevertInv'
  <2>0. /\ OneNaming(rollback.now)
        /\ FolderName \in First => FolderName \in UntrackedFiles
        /\ \A f \in Paths :
             Open(f) /\ Covered(f, rollback.todo \cup rollback.done) =>
               Settled(f) \/ Covered(f, First)
    BY <1>0, <1>1 DEF RevertInv
  <2>1. First' = First \ {name}
    BY <1>2 DEF First
  <2>2. ASSUME FolderName \in First'
        PROVE  FolderName \in UntrackedFiles'
    <3>1. FolderName \in First /\ name # FolderName
      BY <2>1, <2>2
    <3>2. name \in rollback.now
      BY <1>1, <3>1 DEF ComesNext, First
    <3>3. name \notin Folder
      BY <2>0, <3>1, <3>2 DEF OneNaming, First
    <3>4. \A f \in Folder : f \in Paths \ PathsOf(name)
      BY <1>1, <3>1, <3>3, PathsOfNames, GitConstants
    <3>5. PICK f \in Paths : NameOf(f) = FolderName /\ Untracked(f)
      BY <2>0, <3>1 DEF UntrackedFiles
    <3>6. f \in Folder /\ \A g \in Folder : staged[g] = 0
      BY <3>5, NameOfFile
    <3>7. Untracked(f)' /\ NameOf(f)' = FolderName
      BY <1>3, <3>4, <3>5, <3>6 DEF Untracked, NameOf
    <3> QED
      BY <3>7 DEF UntrackedFiles
  <2>3. WantedTree' = WantedTree
    BY <1>1, <1>2 DEF WantedTree
  <2>4. ASSUME NEW f \in Paths, f \in PathsOf(name),
               Settled(f) \/ name # FolderName \/ name \in UntrackedFiles
        PROVE  Settled(f)'
    BY <1>1, <1>3, <2>3, <2>4 DEF Settled
  <2>5. ASSUME NEW f \in Paths, f \notin PathsOf(name), Settled(f)
        PROVE  Settled(f)'
    BY <1>1, <1>3, <2>3, <2>5 DEF Settled
  <2>6. ASSUME NEW f \in Paths, Open(f), Covered(f, rollback.todo \cup rollback.done)
        PROVE  Settled(f)' \/ Covered(f, First \ {name})
    <3>1. CASE Settled(f)
      BY <2>4, <2>5, <3>1
    <3>2. CASE ~Settled(f)
      <4>1. PICK n \in First : f \in PathsOf(n)
        BY <2>0, <2>6, <3>2 DEF Covered
      <4>2. CASE n = name
        <5>1. name # FolderName \/ name \in UntrackedFiles
          BY <2>0, <4>2
        <5> QED
          BY <2>4, <4>1, <4>2, <5>1
      <4>3. CASE n # name
        BY <4>1, <4>3 DEF Covered
      <4> QED
        BY <4>2, <4>3
    <3> QED
      BY <3>1, <3>2
  <2>7. \A f \in Paths :
          (Open(f) /\ Covered(f, rollback.todo \cup rollback.done) =>
            Settled(f) \/ Covered(f, First))'
    <3> SUFFICES ASSUME NEW f \in Paths, Open(f)', Covered(f, rollback.todo \cup rollback.done)'
                 PROVE  Settled(f)' \/ Covered(f, First)'
      OBVIOUS
    <3>1. Open(f) /\ Covered(f, rollback.todo \cup rollback.done)
      <4>1. rollback'.todo \cup rollback'.done = rollback.todo \cup rollback.done
        BY <1>2
      <4> QED
        BY <1>2, <4>1 DEF Open, Covered, PathsOf
    <3>2. Covered(f, First)' <=> Covered(f, First \ {name})
      BY <2>1 DEF Covered, PathsOf
    <3> QED
      BY <2>6, <3>1, <3>2
  <2>8. RollbackReverts'
    BY <1>2 DEF RollbackReverts
  <2> QED
    BY <1>2, <2>0, <2>2, <2>7, <2>8 DEF RevertInv, OneNaming
<1> QED
  BY <1>4, <1>5, <1>6, <1>7 DEF GitInv


\* At the end of the loop every file that was restored is settled, and settled
\* means as wanted once the commit is checked out.
LEMMA AllSettledNow ==
  ASSUME GitInv, Running, rollback.todo = {}, NEW f \in Paths, Open(f), Covered(f, rollback.done)
  PROVE  Settled(f)
<1>1. First = {} /\ Covered(f, rollback.todo \cup rollback.done)
  BY DEF First, Covered
<1>2. ~Covered(f, First)
  BY <1>1 DEF Covered
<1> QED
  BY <1>1, <1>2 DEF GitInv, RevertInv

LEMMA CheckoutReverts ==
  ASSUME GitInv, NEW f \in Paths, Settled(f)
  PROVE  CheckedOut(tree, WantedTree)[f] = WantedTree[f]
<1>1. staged[f] = 0 => commits[head][f] = 0
  BY DEF GitInv, NamingInv
<1>2. CASE Keeps(f, WantedTree)
  BY <1>1, <1>2 DEF Settled, CheckedOut, Keeps
<1>3. CASE ~Keeps(f, WantedTree)
  BY <1>3 DEF CheckedOut
<1> QED
  BY <1>2, <1>3

\* A change git would lose makes it refuse the checkout, or is kept.
LEMMA CheckoutSpares ==
  ASSUME NEW f \in Paths, Dirty(f), tree[f] # 0, MayCheckout(f, WantedTree)
  PROVE  CheckedOut(tree, WantedTree)[f] = tree[f]
<1>1. Keeps(f, WantedTree)
  <2>1. CASE staged[f] = 0
    BY <2>1 DEF MayCheckout, Keeps
  <2>2. CASE staged[f] # 0 /\ staged[f] = commits[head][f]
    BY <2>2 DEF MayCheckout, Keeps, Dirty, Clean
  <2>3. CASE staged[f] # 0 /\ staged[f] # commits[head][f]
    BY <2>3 DEF MayCheckout, Keeps
  <2> QED
    BY <2>1, <2>2, <2>3
<1> QED
  BY <1>1 DEF CheckedOut

LEMMA FinishRollbackKeeps ==
  ASSUME GitInv, FinishRollback
  PROVE  GitInv'
<1>0. GitTypeOK /\ NamingInv /\ SurvivesInv /\ RevertInv
  BY DEF GitInv
<1>1. /\ Running /\ rollback.todo = {}
      /\ UNCHANGED <<commits, owners, baseline, captured, points, writes>>
      /\ \E at \in {"done", "failed"} : rollback' = [rollback EXCEPT !.at = at]
  BY DEF FinishRollback
<1>2. /\ rollback'.at \in {"done", "failed"} /\ rollback' \in Rollbacks
      /\ rollback'.own = rollback.own /\ rollback'.user = rollback.user
      /\ rollback'.before = rollback.before /\ rollback'.fresh = rollback.fresh
      /\ rollback'.ref = rollback.ref /\ rollback'.done = rollback.done
  <2>1. PICK at \in {"done", "failed"} : rollback' = [rollback EXCEPT !.at = at]
    BY <1>1
  <2> QED
    BY <1>0, <2>1 DEF GitTypeOK, Rollbacks
<1>3. ~Running' /\ (RevertInv' <=> RollbackReverts')
  BY <1>2 DEF Running, RevertInv
<1>4. ASSUME UNCHANGED <<tree, staged, head>>, RollbackReverts'
      PROVE  GitInv'
  <2>1. GitTypeOK'
    BY <1>0, <1>1, <1>2, <1>4 DEF GitTypeOK
  <2>2. NamingInv'
    BY <1>0, <1>1, <1>4 DEF NamingInv, OneNaming
  <2>3. SurvivesInv'
    BY <1>0, <1>2, <1>3, <1>4 DEF SurvivesInv, Shielded, PathsOf
  <2> QED
    BY <1>3, <1>4, <2>1, <2>2, <2>3 DEF GitInv
<1>5. ASSUME NEW name \in rollback.done, NEW f \in PathsOf(name) \ rollback.fresh,
             \A other \in rollback.user : f \notin PathsOf(other)
      PROVE  f \in Paths /\ Settled(f)
  <2>1. f \in Paths
    BY <1>0, <1>5, RollbackTypes, PathsOfNames
  <2>2. Open(f) /\ Covered(f, rollback.done)
    BY <1>5 DEF Open, Covered
  <2> QED
    BY <1>1, <2>1, <2>2, AllSettledNow
<1>6. CASE rollback.ref = 0
  <2>1. UNCHANGED <<tree, staged, head>>
    BY <1>6 DEF FinishRollback
  <2>2. \A f \in Paths : Settled(f) => tree[f] = commits[head][f]
    BY <1>0, <1>6 DEF Settled, WantedTree, NamingInv
  <2>3. RollbackReverts'
    BY <1>1, <1>2, <1>5, <2>1, <2>2 DEF RollbackReverts, PathsOf
  <2> QED
    BY <1>4, <2>1, <2>3
<1>7. CASE rollback.ref # 0 /\ ~(\A f \in Paths : MayCheckout(f, WantedTree))
  <2>1. UNCHANGED <<tree, staged, head>> /\ rollback' = [rollback EXCEPT !.at = "failed"]
    BY <1>7, Zenon DEF FinishRollback
  <2>2. rollback'.at = "failed"
    BY <1>0, <2>1 DEF GitTypeOK, Rollbacks
  <2> QED
    BY <1>4, <2>1, <2>2 DEF RollbackReverts
<1>8. CASE rollback.ref # 0 /\ \A f \in Paths : MayCheckout(f, WantedTree)
  <2>1. /\ head' = rollback.ref
        /\ tree' = CheckedOut(tree, WantedTree) /\ staged' = CheckedOut(staged, WantedTree)
    BY <1>8 DEF FinishRollback
  <2>2. head' \in DOMAIN commits /\ commits'[head'] = WantedTree
    <3>1. rollback.ref \in 1..Len(commits) /\ DOMAIN commits = 1..Len(commits)
      BY <1>0, <1>8, RollbackTypes
    <3> QED
      BY <1>1, <1>8, <2>1, <3>1 DEF WantedTree
  <2>3. GitTypeOK'
    <3>1. tree' \in Trees /\ staged' \in Trees
      BY <1>0, <2>1, RestoreTypes
    <3> QED
      BY <1>0, <1>1, <1>2, <2>2, <3>1 DEF GitTypeOK
  <2>4. NamingInv'
    <3>1. ASSUME NEW f \in Paths, staged'[f] = 0
          PROVE  WantedTree[f] = 0
      BY <1>0, <2>1, <3>1 DEF NamingInv, CheckedOut, Keeps
    <3> QED
      BY <1>0, <1>1, <2>2, <3>1 DEF NamingInv, OneNaming
  <2>5. SurvivesInv'
    <3>1. ASSUME NEW name \in rollback.user, NEW f \in Paths, Shielded(f, name)
          PROVE  tree'[f] = rollback.before[f]
      <4>1. tree[f] = rollback.before[f] /\ Dirty(f) /\ tree[f] # 0
        BY <1>0, <1>1, <3>1 DEF SurvivesInv, Shielded
      <4> QED
        BY <1>8, <2>1, <4>1, CheckoutSpares
    <3> QED
      BY <1>2, <1>3, <3>1 DEF SurvivesInv, Shielded, PathsOf
  <2>6. RollbackReverts'
    <3>1. \A f \in Paths : Settled(f) => tree'[f] = WantedTree[f]
      BY <2>1, CheckoutReverts
    <3> QED
      BY <1>2, <1>5, <2>2, <3>1 DEF RollbackReverts, PathsOf
  <2> QED
    BY <1>3, <2>3, <2>4, <2>5, <2>6 DEF GitInv
<1> QED
  BY <1>6, <1>7, <1>8

LEMMA GitStarts == GitInit => GitInv
<1> SUFFICES ASSUME GitInit
             PROVE  GitInv
  OBVIOUS
<1> DEFINE first == [f \in Paths |-> IF f \in Committed THEN 1 ELSE 0]
<1>1. /\ tree = first /\ staged = first /\ commits = <<first>> /\ head = 1
      /\ owners = [n \in PathNames |-> "none"] /\ baseline = {} /\ captured = FALSE
      /\ points = {} /\ rollback = NoRollback /\ writes = 0
  BY DEF GitInit
<1>2. first \in Trees
  BY DEF Trees
<1> HIDE DEF first
<1>3. /\ rollback \in Rollbacks /\ rollback.at = "none" /\ rollback.ref = 0
      /\ rollback.user = {}
  <2>1. [f \in Paths |-> 0] \in Trees
    BY DEF Trees
  <2> QED
    BY <1>1, <2>1 DEF NoRollback, Rollbacks
<1>4. commits \in Seq(Trees) /\ Len(commits) = 1 /\ head \in DOMAIN commits /\ commits[head] = first
  BY <1>1, <1>2
<1>5. GitTypeOK
  <2>1. owners \in [PathNames -> {"none", "user", "agent"}]
    BY <1>1
  <2>2. rollback.ref \in 0..Len(commits)
    BY <1>3, <1>4
  <2>3. tree \in Trees /\ staged \in Trees /\ baseline \subseteq PathNames /\ captured \in BOOLEAN
        /\ points = {} /\ writes \in Nat
    BY <1>1, <1>2
  <2> QED
    BY <1>3, <1>4, <2>1, <2>2, <2>3 DEF GitTypeOK
<1>6. NamingInv
  BY <1>1, <1>4 DEF NamingInv
<1>7. SurvivesInv /\ RevertInv
  BY <1>3 DEF SurvivesInv, RevertInv, Running, RollbackReverts
<1> QED
  BY <1>5, <1>6, <1>7 DEF GitInv

LEMMA GitStays == GitInv /\ [GitNext]_gitVars => GitInv'
<1> SUFFICES ASSUME GitInv, [GitNext]_gitVars
             PROVE  GitInv'
  OBVIOUS
<1>1. CASE UNCHANGED gitVars
  <2>1. GitTypeOK' /\ NamingInv'
    BY <1>1 DEF gitVars, GitInv, GitTypeOK, NamingInv, OneNaming
  <2>2. SurvivesInv' /\ RevertInv'
    BY <1>1, QuietKeeps DEF gitVars
  <2> QED
    BY <2>1, <2>2 DEF GitInv
<1>2. CASE GitNext
  <2>1. ASSUME NEW name \in rollback.todo, RestorePath(name)
        PROVE  GitInv'
    BY <2>1, RestoreKeeps
  <2>2. ASSUME NEW point \in points \cup BareRefs, BeginRollback(point)
        PROVE  GitInv'
    BY <2>2, BeginKeeps
  <2> QED
    BY <1>2, <2>1, <2>2, WriteKeeps, BaselineKeeps, CheckpointKeeps, DeletionKeeps, FailureKeeps,
       FinishRollbackKeeps
    DEF GitNext
<1> QED
  BY <1>1, <1>2

LEMMA GitInvariance == GitSpec => []GitInv
BY GitStarts, GitStays, PTL DEF GitSpec

\* Trees, checkpoints and rollbacks keep their types (GitRollback).
THEOREM GitTypes == GitSpec => []GitTypeOK
<1>1. GitInv => GitTypeOK
  BY DEF GitInv
<1> QED
  BY <1>1, GitInvariance, PTL

\* Whatever the user writes, and wherever a rollback ends, what it reported as
\* the user's is as the user left it; and when it succeeds the agent's changes
\* are back at the commit (DefaultRollbackManager.safeRollback).
THEOREM RollbackCorrect == GitSpec => []RollbackHolds
<1>1. ASSUME GitInv
      PROVE  RollbackHolds
  <2>1. GitTypeOK /\ SurvivesInv /\ RollbackReverts
    BY <1>1 DEF GitInv, RevertInv
  <2>2. ASSUME NEW name \in rollback.user, NEW f \in PathsOf(name) \ rollback.fresh,
               rollback.before[f] # 0,
               \A other \in rollback.own : f \in PathsOf(other) => other = name
        PROVE  tree[f] = rollback.before[f]
    <3>1. f \in Paths
      BY <2>1, <2>2, RollbackTypes, PathsOfNames
    <3>2. Shielded(f, name)
      BY <2>2 DEF Shielded
    <3> QED
      BY <2>1, <3>1, <3>2 DEF SurvivesInv
  <2> QED
    BY <2>1, <2>2 DEF RollbackHolds, UncommittedSurvives
<1> QED
  BY <1>1, GitInvariance, PTL
-----------------------------------------------------------------------------
\* Verification: what is recorded

RunStatuses == {"PASSED", "FAILED", "INCONCLUSIVE", "WARNING", "PASS", "FAIL"}
Outcomes == {"PASS", "FAIL", "INCONCLUSIVE", "WARNING"}
Runs == [kind: {"verify", "suite", "direct", "human"}, checks: Seq(CheckIds),
         next: Nat \ {0}, status: RunStatuses, quiet: BOOLEAN]
Evidence == [run: Nat, check: CheckIds \cup {TargetCheck, "none"},
             type: {"TEST_RESULT", "VERIFICATION", "HUMAN_FEEDBACK"},
             outcome: Outcomes, pass: BOOLEAN, confidence: Nat]
VerificationTypeOK ==
  /\ runs \in Seq(Runs)
  /\ evidence \subseteq Evidence /\ IsFiniteSet(evidence)
  /\ \A e \in evidence : e.run \in DOMAIN runs

\* Only a target that speaks of one, or a human, gives a warning; the former is
\* below what the aggregator accepts.
Plain(e) ==
  /\ e.pass <=> e.outcome = "PASS"
  /\ e.outcome = "WARNING" =>
       \/ e.confidence = 75
       \/ e.check = "none" /\ e.type = "HUMAN_FEEDBACK"

\* What one run has recorded so far, and what that says of the code when
\* nobody touched it.
Checking(r) == runs[r].kind \in {"verify", "suite"}
RunTold(r) ==
  IF Checking(r)
  THEN /\ runs[r].status \in {"PASSED", "FAILED", "INCONCLUSIVE"}
       /\ \A e \in Of(r) : e.outcome # "WARNING"
       /\ runs[r].status = "PASSED" <=> \A e \in Of(r) : e.pass
       /\ runs[r].status = "FAILED" <=> \E e \in Of(r) : e.outcome = "FAIL"
       /\ runs[r].quiet /\ runs[r].status = "PASSED" =>
            \A i \in DOMAIN runs[r].checks :
               i < runs[r].next => Succeeds(runs[r].kind, runs[r].checks[i])
  ELSE \E e \in Of(r) : e.outcome = IF runs[r].status = "FAILED" THEN "FAIL" ELSE runs[r].status

\* What is cached was found with the files it names.
Found == {"PASSED", "FAILED", "INCONCLUSIVE"}
Cached(c) ==
  \/ cache[c] = NotCached
  \/ /\ DOMAIN cache[c].hashes \subseteq Depends[c] /\ cache[c].found \in Found
     /\ cache[c].found = "FAILED" => \E f \in DOMAIN cache[c].hashes : cache[c].hashes[f] = "bad"
     /\ cache[c].found = "PASSED" =>
          \/ \A f \in DOMAIN cache[c].hashes : cache[c].hashes[f] # "bad"
          \/ \E kind \in {"verify", "suite"} : Stubbed(kind, c)

VerificationInv ==
  /\ VerificationTypeOK
  /\ \A e \in evidence : Plain(e)
  /\ \A r \in DOMAIN runs : RunTold(r)
  /\ DOMAIN cache = CheckIds /\ \A c \in CheckIds : Cached(c)

\* A record on its way into the evidence.
NewRecord(r, check, type, outcome, confidence) ==
  [run |-> r, check |-> check, type |-> type, outcome |-> outcome,
   pass |-> outcome = "PASS", confidence |-> confidence]

\* One more run, and what it records at once.
LEMMA RunBegins ==
  ASSUME VerificationInv, NEW run \in Runs, runs' = Append(runs, run),
         UNCHANGED <<code, cache, testEnvironment>>,
         NEW new, new \subseteq Evidence, IsFiniteSet(new), evidence' = evidence \cup new,
         \A e \in new : e.run = Len(runs) + 1 /\ Plain(e),
         IF run.kind \in {"verify", "suite"}
         THEN new = {} /\ run.status = "PASSED" /\ run.next = 1
         ELSE \E e \in new : e.outcome = IF run.status = "FAILED" THEN "FAIL" ELSE run.status
  PROVE  VerificationInv'
<1>0. PICK n \in Nat : n = Len(runs) + 1
  BY DEF VerificationInv, VerificationTypeOK
<1>1. /\ runs' \in Seq(Runs) /\ DOMAIN runs' = DOMAIN runs \cup {n} /\ n \notin DOMAIN runs
      /\ \A r \in DOMAIN runs : runs'[r] = runs[r]
      /\ runs'[n] = run
  BY <1>0 DEF VerificationInv, VerificationTypeOK
<1>2. \A e \in evidence : e.run # n
  BY <1>1 DEF VerificationInv, VerificationTypeOK
<1>3. VerificationTypeOK'
  <2>1. IsFiniteSet(evidence \cup new)
    BY FS_Union DEF VerificationInv, VerificationTypeOK
  <2> QED
    BY <1>0, <1>1, <2>1 DEF VerificationInv, VerificationTypeOK
<1>4. \A e \in evidence' : Plain(e)
  BY DEF VerificationInv
<1>5. ASSUME NEW r \in DOMAIN runs
      PROVE  RunTold(r)'
  <2>1. Of(r)' = Of(r) /\ runs'[r] = runs[r]
    BY <1>0, <1>1, <1>5 DEF Of
  <2> QED
    BY <1>5, <2>1 DEF VerificationInv, RunTold, Checking, Succeeds, Stubbed, Passes
<1>6. RunTold(n)'
  <2>1. Of(n)' = new
    BY <1>0, <1>2 DEF Of
  <2>2. CASE run.kind \in {"verify", "suite"}
    <3>1. \A i \in DOMAIN run.checks : ~(i < run.next)
      BY <2>2 DEF Runs
    <3> QED
      BY <1>1, <2>1, <2>2, <3>1 DEF RunTold, Checking
  <2>3. CASE run.kind \notin {"verify", "suite"}
    BY <1>1, <2>1, <2>3 DEF RunTold, Checking
  <2> QED
    BY <2>2, <2>3
<1>7. \A r \in DOMAIN runs' : RunTold(r)'
  BY <1>1, <1>5, <1>6
<1>8. DOMAIN cache' = CheckIds /\ \A c \in CheckIds : Cached(c)'
  BY DEF VerificationInv, Cached, Stubbed
<1>9. (\A e \in evidence : Plain(e))'
  BY <1>4 DEF Plain
<1> QED
  BY <1>3, <1>7, <1>8, <1>9 DEF VerificationInv

LEMMA StartKeepsRuns ==
  ASSUME VerificationInv, NEW kind \in {"verify", "suite"}, NEW checks \in Seq(CheckIds),
         Start(kind, checks)
  PROVE  VerificationInv'
<1> DEFINE run == [kind |-> kind, checks |-> checks, next |-> 1, status |-> "PASSED", quiet |-> TRUE]
<1>1. /\ run \in Runs /\ run.kind = kind /\ run.status = "PASSED" /\ run.next = 1
      /\ runs' = Append(runs, run) /\ UNCHANGED <<code, cache, evidence, testEnvironment>>
  BY DEF Start, Runs, RunStatuses
<1>2. IsFiniteSet({}) /\ evidence' = evidence \cup {}
  BY <1>1, FS_EmptySet
<1> HIDE DEF run
<1> QED
  BY <1>1, <1>2, RunBegins

\* A verdict of its own, with the record that says it.
LEMMA VerdictKeeps ==
  ASSUME VerificationInv, NEW kind \in {"direct", "human"},
         NEW status \in RunStatuses, NEW e \in Evidence, Plain(e), e.run = Len(runs) + 1,
         e.outcome = IF status = "FAILED" THEN "FAIL" ELSE status,
         runs' = Append(runs, [kind |-> kind, checks |-> <<>>, next |-> 1,
                               status |-> status, quiet |-> TRUE]),
         evidence' = evidence \cup {e}, UNCHANGED <<code, cache, testEnvironment>>
  PROVE  VerificationInv'
<1> DEFINE run == [kind |-> kind, checks |-> <<>>, next |-> 1, status |-> status, quiet |-> TRUE]
<1>1. run \in Runs /\ run.kind = kind /\ run.status = status /\ runs' = Append(runs, run)
  BY DEF Runs
<1>2. IsFiniteSet({e})
  BY FS_Singleton
<1> HIDE DEF run
<1> QED
  BY <1>1, <1>2, RunBegins

LEMMA DirectKeeps ==
  ASSUME VerificationInv, NEW status \in {"FAILED", "INCONCLUSIVE", "WARNING"},
         DirectResult(status)
  PROVE  VerificationInv'
<1> DEFINE outcome == IF status = "FAILED" THEN "FAIL" ELSE status
           e == NewRecord(Len(runs) + 1, TargetCheck, "VERIFICATION", outcome, DirectConfidence(status))
<1>1. Len(runs) + 1 \in Nat
  BY DEF VerificationInv, VerificationTypeOK
<1>2. DirectConfidence(status) \in Nat /\ (status = "WARNING" => DirectConfidence(status) = 75)
  BY DEF DirectConfidence
<1>3. outcome \in Outcomes /\ (outcome = "WARNING" <=> status = "WARNING")
  BY DEF Outcomes
<1> HIDE DEF outcome
<1>4. e \in Evidence /\ Plain(e) /\ e.run = Len(runs) + 1 /\ e.outcome = outcome
  BY <1>1, <1>2, <1>3 DEF NewRecord, Evidence, Plain
<1>5. status \in RunStatuses
  BY DEF RunStatuses
<1>6. /\ evidence' = evidence \cup {e} /\ UNCHANGED <<code, cache, testEnvironment>>
      /\ runs' = Append(runs, [kind |-> "direct", checks |-> <<>>, next |-> 1,
                               status |-> status, quiet |-> TRUE])
  BY DEF DirectResult, Record, NewRecord, outcome
<1> HIDE DEF e
<1> QED
  BY <1>4, <1>5, <1>6, VerdictKeeps DEF outcome

LEMMA FeedbackKeeps ==
  ASSUME VerificationInv, NEW outcome \in {"PASS", "FAIL", "WARNING"}, HumanFeedback(outcome)
  PROVE  VerificationInv'
<1> DEFINE e == NewRecord(Len(runs) + 1, "none", "HUMAN_FEEDBACK", outcome, 100)
<1>1. Len(runs) + 1 \in Nat
  BY DEF VerificationInv, VerificationTypeOK
<1>2. e \in Evidence /\ Plain(e) /\ e.run = Len(runs) + 1 /\ e.outcome = outcome
  BY <1>1 DEF NewRecord, Evidence, Outcomes, Plain
<1>3. outcome \in RunStatuses
  BY DEF RunStatuses
<1>4. /\ evidence' = evidence \cup {e} /\ UNCHANGED <<code, cache, testEnvironment>>
      /\ runs' = Append(runs, [kind |-> "human", checks |-> <<>>, next |-> 1,
                               status |-> outcome, quiet |-> TRUE])
  BY DEF HumanFeedback, Record, NewRecord
<1> HIDE DEF e
<1> QED
  BY <1>2, <1>3, <1>4, VerdictKeeps

\* A change of the code takes back only that it is quiet.
LEMMA EditKeeps ==
  ASSUME VerificationInv, NEW f, NEW to, EditFile(f, to)
  PROVE  VerificationInv'
<1>0. runs \in Seq(Runs)
  BY DEF VerificationInv, VerificationTypeOK
<1>1. /\ runs' = [r \in DOMAIN runs |-> [runs[r] EXCEPT !.quiet = FALSE]]
      /\ UNCHANGED <<evidence, cache, testEnvironment>>
  BY DEF EditFile
<1>2. ASSUME NEW r \in DOMAIN runs
      PROVE  /\ runs[r] \in Runs /\ runs'[r] \in Runs
             /\ runs'[r].kind = runs[r].kind /\ runs'[r].status = runs[r].status
             /\ runs'[r].quiet = FALSE
  <2>1. runs[r] \in Runs /\ runs'[r] = [runs[r] EXCEPT !.quiet = FALSE]
    BY <1>0, <1>1, <1>2
  <2> QED
    BY <2>1 DEF Runs
<1>3. /\ DOMAIN runs' = DOMAIN runs /\ runs' \in [DOMAIN runs -> Runs]
      /\ DOMAIN runs = 1..Len(runs) /\ Len(runs) \in Nat
  <2>1. DOMAIN runs' = DOMAIN runs /\ DOMAIN runs = 1..Len(runs) /\ Len(runs) \in Nat
    BY <1>0, <1>1
  <2>2. runs' = [r \in DOMAIN runs |-> runs'[r]]
    BY <1>1
  <2> QED
    BY <1>2, <2>1, <2>2
<1>4. runs' \in Seq(Runs)
  BY <1>3
<1>5. VerificationTypeOK'
  BY <1>1, <1>3, <1>4 DEF VerificationInv, VerificationTypeOK
<1>6. ASSUME NEW r \in DOMAIN runs
      PROVE  RunTold(r)'
  <2>1. Of(r)' = Of(r)
    BY <1>1 DEF Of
  <2> QED
    BY <1>2, <2>1 DEF VerificationInv, RunTold, Checking
<1> QED
  BY <1>1, <1>3, <1>5, <1>6 DEF VerificationInv, Plain, Cached, Stubbed

\* A run records what a check found, and its status goes along; the cache
\* keeps it with the files as they are.
LEMMA CheckFinds ==
  ASSUME NEW run \in Runs, run.kind \in {"verify", "suite"}, NEW check, NEW found \in Executed(run.kind, check)
  PROVE  /\ found \in Found /\ OutcomeOf(run, found) \in Outcomes \ {"WARNING"}
         /\ ConfidenceOf(run, found) \in Nat /\ Merged(run, found) \in RunStatuses
         /\ run.status \in Found => Merged(run, found) \in Found
         /\ Merged(run, found) = "PASSED" <=>
              run.status = "PASSED" /\ OutcomeOf(run, found) = "PASS"
         /\ Merged(run, found) = "FAILED" <=>
              run.status = "FAILED" \/ OutcomeOf(run, found) = "FAIL"
         /\ OutcomeOf(run, found) = "PASS" <=> found = "PASSED"
         /\ found = "PASSED" => Succeeds(run.kind, check)
         /\ found = "FAILED" => ~Passes(check)
<1>1. /\ found \in Found
      /\ found = "PASSED" => Succeeds(run.kind, check)
      /\ found = "FAILED" => ~Passes(check)
  BY DEF Executed, Found, Succeeds
<1>2. run.status \in RunStatuses /\ ConfidenceOf(run, found) \in Nat
  BY DEF Runs, ConfidenceOf
<1>3. CASE found = "PASSED"
  BY <1>1, <1>2, <1>3 DEF Merged, OutcomeOf, Outcomes, Found, RunStatuses
<1>4. CASE found # "PASSED" /\ (run.kind = "suite" \/ found = "FAILED")
  <2>1. Merged(run, found) = "FAILED" /\ OutcomeOf(run, found) = "FAIL"
    BY <1>1, <1>4 DEF Merged, OutcomeOf, Found
  <2> QED
    BY <1>1, <1>2, <1>4, <2>1 DEF Outcomes, Found, RunStatuses
<1>5. CASE found = "INCONCLUSIVE" /\ run.kind = "verify"
  <2>1. /\ Merged(run, found) = IF run.status = "FAILED" THEN "FAILED" ELSE "INCONCLUSIVE"
        /\ OutcomeOf(run, found) = "INCONCLUSIVE"
    BY <1>5 DEF Merged, OutcomeOf
  <2> QED
    BY <1>1, <1>2, <1>5, <2>1 DEF Outcomes, Found, RunStatuses
<1> QED
  BY <1>1, <1>3, <1>4, <1>5 DEF Found

LEMMA CheckKeeps ==
  ASSUME VerificationInv, NEW r \in DOMAIN runs, ExecuteCheck(r)
  PROVE  VerificationInv'
<1> DEFINE run == runs[r]
           check == run.checks[run.next]
<1>0. /\ runs \in Seq(Runs) /\ run \in Runs /\ RunTold(r) /\ run.kind \in {"verify", "suite"}
      /\ run.next \in DOMAIN run.checks /\ check \in CheckIds
  <2>1. runs \in Seq(Runs) /\ run \in Runs /\ RunTold(r)
    BY DEF VerificationInv, VerificationTypeOK
  <2>2. run.kind \in {"verify", "suite"} /\ run.next <= Len(run.checks)
    BY DEF ExecuteCheck
  <2>3. run.checks \in Seq(CheckIds) /\ run.next \in Nat \ {0}
    BY <2>1 DEF Runs
  <2> QED
    BY <2>1, <2>2, <2>3
<1>1. PICK found \in Executed(run.kind, check) :
        /\ runs' = [runs EXCEPT ![r].next = @ + 1, ![r].status = Merged(run, found)]
        /\ Record(r, check, TypeOf(check), OutcomeOf(run, found), ConfidenceOf(run, found))
        /\ cache' = [cache EXCEPT ![check] = [found |-> found, hashes |-> Hashes(check)]]
  BY DEF ExecuteCheck
<1>2. PICK status : status = Merged(run, found)
  OBVIOUS
<1>3. PICK outcome : outcome = OutcomeOf(run, found)
  OBVIOUS
<1>4. PICK c : c = check
  OBVIOUS
<1>5. PICK e : e = NewRecord(r, c, TypeOf(c), outcome, ConfidenceOf(run, found))
  OBVIOUS
<1>6. PICK old : old = run
  OBVIOUS
<1>7. /\ found \in Found /\ outcome \in Outcomes \ {"WARNING"} /\ ConfidenceOf(run, found) \in Nat
      /\ status \in RunStatuses /\ (old.status \in Found => status \in Found)
      /\ (status = "PASSED" <=> old.status = "PASSED" /\ outcome = "PASS")
      /\ (status = "FAILED" <=> old.status = "FAILED" \/ outcome = "FAIL")
      /\ (outcome = "PASS" <=> found = "PASSED")
      /\ (found = "PASSED" => Succeeds(old.kind, c))
      /\ (found = "FAILED" => ~Passes(c))
  <2> HIDE DEF run, check
  <2> QED
    BY <1>0, <1>2, <1>3, <1>4, <1>6, CheckFinds
<1>8. /\ e \in Evidence /\ e.run = r /\ e.outcome = outcome /\ (e.pass <=> outcome = "PASS")
      /\ evidence' = evidence \cup {e} /\ Plain(e)
  <2>1. r \in Nat /\ TypeOf(c) \in {"TEST_RESULT", "VERIFICATION"} /\ c \in CheckIds
    BY <1>0, <1>4 DEF TypeOf
  <2> HIDE DEF run, check
  <2>2. e \in Evidence /\ e.run = r /\ e.outcome = outcome /\ (e.pass <=> outcome = "PASS")
    BY <1>5, <1>7, <2>1 DEF NewRecord, Evidence
  <2>3. evidence' = evidence \cup {e}
    BY <1>1, <1>3, <1>4, <1>5 DEF Record, NewRecord
  <2> QED
    BY <1>7, <2>2, <2>3 DEF Plain
<1>9. UNCHANGED <<code, testEnvironment>>
  BY DEF ExecuteCheck
<1>10. /\ runs' \in Seq(Runs) /\ DOMAIN runs' = DOMAIN runs
       /\ \A s \in DOMAIN runs \ {r} : runs'[s] = runs[s]
       /\ runs'[r] = [old EXCEPT !.next = @ + 1, !.status = status]
  <2> DEFINE new == [old EXCEPT !.next = @ + 1, !.status = status]
  <2>1. runs' = [runs EXCEPT ![r] = new]
    BY <1>1, <1>2, <1>6
  <2>2. new \in Runs
    <3>1. old \in Runs /\ status \in RunStatuses
      BY <1>0, <1>6, <1>7
    <3>2. old.next + 1 \in Nat \ {0}
      BY <3>1 DEF Runs
    <3> QED
      BY <3>1, <3>2 DEF Runs
  <2> HIDE DEF new, run, check
  <2>3. runs' \in Seq(Runs) /\ DOMAIN runs' = DOMAIN runs
    BY <1>0, <2>1, <2>2
  <2>4. runs'[r] = new /\ \A s \in DOMAIN runs \ {r} : runs'[s] = runs[s]
    BY <2>1
  <2> QED
    BY <2>3, <2>4 DEF new
<1>11. VerificationTypeOK'
  <2>1. IsFiniteSet(evidence \cup {e})
    BY FS_AddElement DEF VerificationInv, VerificationTypeOK
  <2> QED
    BY <1>8, <1>10, <2>1 DEF VerificationInv, VerificationTypeOK
<1>12. ASSUME NEW s \in DOMAIN runs, s # r
       PROVE  RunTold(s)'
  <2>1. Of(s)' = Of(s) /\ runs'[s] = runs[s]
    BY <1>8, <1>10, <1>12 DEF Of
  <2> QED
    BY <1>9, <1>12, <2>1 DEF VerificationInv, RunTold, Checking, Succeeds, Stubbed, Passes
<1>13. RunTold(r)'
  <2> DEFINE new == runs'[r]
  <2>1. /\ new.kind = old.kind /\ new.checks = old.checks /\ new.next = old.next + 1
        /\ new.status = status /\ new.quiet = old.quiet
    BY <1>0, <1>6, <1>10 DEF Runs
  <2>2. Of(r)' = Of(r) \cup {e}
    BY <1>8 DEF Of
  <2>3. /\ old.status \in Found
        /\ \A x \in Of(r) : x.outcome # "WARNING"
        /\ old.status = "PASSED" <=> \A x \in Of(r) : x.pass
        /\ old.status = "FAILED" <=> \E x \in Of(r) : x.outcome = "FAIL"
        /\ old.quiet /\ old.status = "PASSED" =>
             \A i \in DOMAIN old.checks : i < old.next => Succeeds(old.kind, old.checks[i])
    BY <1>0, <1>6 DEF RunTold, Checking, Found
  <2>4. old.next \in Nat /\ c = old.checks[old.next] /\ DOMAIN old.checks \subseteq Nat
    BY <1>0, <1>4, <1>6 DEF Runs
  <2>5. old.quiet /\ status = "PASSED" =>
          \A i \in DOMAIN old.checks : i < old.next + 1 => Succeeds(old.kind, old.checks[i])
    BY <1>7, <2>3, <2>4
  <2>6. old.quiet /\ status = "PASSED" =>
          \A i \in DOMAIN old.checks : i < old.next + 1 => Succeeds(old.kind, old.checks[i])'
    BY <1>9, <2>5 DEF Succeeds, Stubbed, Passes
  <2>7. /\ status \in Found
        /\ \A x \in Of(r)' : x.outcome # "WARNING"
        /\ status = "PASSED" <=> \A x \in Of(r)' : x.pass
        /\ status = "FAILED" <=> \E x \in Of(r)' : x.outcome = "FAIL"
    BY <1>7, <1>8, <2>2, <2>3
  <2>8. Checking(r)'
    BY <1>0, <1>6, <2>1 DEF Checking
  <2> HIDE DEF run, check
  <2> QED
    BY <2>1, <2>6, <2>7, <2>8 DEF RunTold, Found
<1>14. DOMAIN cache' = CheckIds /\ \A x \in CheckIds : Cached(x)'
  <2> HIDE DEF run, check
  <2>1. /\ DOMAIN cache' = DOMAIN cache /\ cache'[c] = [found |-> found, hashes |-> Hashes(c)]
        /\ \A x \in CheckIds \ {c} : cache'[x] = cache[x]
    BY <1>0, <1>1, <1>4 DEF VerificationInv
  <2>2. \A x \in CheckIds \ {c} : Cached(x)'
    BY <1>9, <2>1 DEF VerificationInv, Cached, Stubbed
  <2>3. DOMAIN Hashes(c) \subseteq Depends[c]
    BY DEF Hashes
  <2>4. Passes(c) <=> \A f \in DOMAIN Hashes(c) : Hashes(c)[f] # "bad"
    BY DEF Hashes, Passes
  <2>5. found = "PASSED" => Passes(c) \/ \E kind \in {"verify", "suite"} : Stubbed(kind, c)'
    BY <1>0, <1>6, <1>7, <1>9 DEF Succeeds, Stubbed
  <2>6. Cached(c)'
    BY <1>7, <2>1, <2>3, <2>4, <2>5 DEF Cached, Found
  <2> QED
    BY <2>1, <2>2, <2>6 DEF VerificationInv
<1> QED
  BY <1>8, <1>10, <1>11, <1>12, <1>13, <1>14 DEF VerificationInv, Plain
-----------------------------------------------------------------------------
\* Verification: the judges

LEMMA VerificationStarts == VerificationInit => VerificationInv
<1> SUFFICES ASSUME VerificationInit
             PROVE  VerificationInv
  OBVIOUS
<1>1. runs = <<>> /\ evidence = {} /\ DOMAIN runs = {}
  BY DEF VerificationInit
<1>2. VerificationTypeOK
  BY <1>1, FS_EmptySet DEF VerificationTypeOK
<1>3. DOMAIN cache = CheckIds /\ \A c \in CheckIds : Cached(c)
  BY DEF VerificationInit, Cached
<1> QED
  BY <1>1, <1>2, <1>3 DEF VerificationInv

LEMMA VerificationStays == VerificationInv /\ [VerificationNext]_verificationVars => VerificationInv'
<1> SUFFICES ASSUME VerificationInv, [VerificationNext]_verificationVars
             PROVE  VerificationInv'
  OBVIOUS
<1>1. CASE UNCHANGED verificationVars
  <2>1. UNCHANGED <<code, evidence, runs, cache, testEnvironment>>
    BY <1>1 DEF verificationVars
  <2>2. VerificationTypeOK' /\ (\A e \in evidence : Plain(e))'
    BY <2>1 DEF VerificationInv, VerificationTypeOK, Plain
  <2>3. \A r \in DOMAIN runs : RunTold(r)'
    BY <2>1 DEF VerificationInv, RunTold, Checking, Of, Succeeds, Stubbed, Passes
  <2> QED
    BY <2>1, <2>2, <2>3 DEF VerificationInv, Cached, Stubbed
<1>2. CASE \E target \in Targets : Verify(target)
  BY <1>2, VerificationConstants, StartKeepsRuns DEF Verify
<1>3. CASE \E suite \in Suites : RunSuite(suite)
  BY <1>3, VerificationConstants, StartKeepsRuns DEF RunSuite
<1>4. CASE \E r \in DOMAIN runs : ExecuteCheck(r)
  BY <1>4, CheckKeeps
<1>5. CASE \E status \in {"FAILED", "INCONCLUSIVE", "WARNING"} : DirectResult(status)
  BY <1>5, DirectKeeps
<1>6. CASE \E outcome \in {"PASS", "FAIL", "WARNING"} : HumanFeedback(outcome)
  BY <1>6, FeedbackKeeps
<1>7. CASE \E f \in SourceFiles, to \in {"good", "bad", "gone"} : EditFile(f, to)
  BY <1>7, EditKeeps
<1> QED
  BY <1>1, <1>2, <1>3, <1>4, <1>5, <1>6, <1>7 DEF VerificationNext

LEMMA VerificationInvariance == VerificationSpec => []VerificationInv
BY VerificationStarts, VerificationStays, PTL DEF VerificationSpec

\* What the aggregator accepts.
LEMMA AcceptedIsGood ==
  ASSUME VerificationInv, NEW required, EvaluateAcceptance(evidence, required)
  PROVE  /\ \A e \in evidence :
              /\ e \in Evidence /\ e.outcome \in {"PASS", "WARNING"} /\ e.confidence >= 80
              /\ e.outcome = "WARNING" => e.check = "none" /\ e.type = "HUMAN_FEEDBACK"
              /\ e.pass <=> e.outcome = "PASS"
         /\ required \subseteq PassedChecks(evidence)
<1>1. \A e \in evidence : e \in Evidence /\ Plain(e)
  BY DEF VerificationInv, VerificationTypeOK
<1>2. \A e \in evidence : e.outcome \in {"PASS", "WARNING"} /\ e.confidence >= 80
  BY DEF EvaluateAcceptance
<1>3. ~(75 >= 80)
  OBVIOUS
<1>4. \A e \in evidence : e.outcome = "WARNING" => e.check = "none" /\ e.type = "HUMAN_FEEDBACK"
  BY <1>1, <1>2, <1>3 DEF Plain
<1> QED
  BY <1>1, <1>2, <1>4 DEF Plain, EvaluateAcceptance

LEMMA AcceptedAgree ==
  ASSUME VerificationInv
  PROVE  AcceptanceAgrees
<1> SUFFICES ASSUME NEW required \in SUBSET CheckIds, EvaluateAcceptance(evidence, required)
             PROVE  /\ \A r \in DOMAIN runs : runs[r].status \in {"PASSED", "PASS", "WARNING"}
                    /\ ~Contradictory(evidence)
                    /\ (\E e \in evidence : e.pass) =>
                         Evaluate(evidence, RegressionsByPass(evidence, evidence), required)
  BY DEF AcceptanceAgrees
<1>1. ASSUME NEW r \in DOMAIN runs
      PROVE  runs[r].status \in {"PASSED", "PASS", "WARNING"}
  <2>1. RunTold(r) /\ Of(r) \subseteq evidence
    BY <1>1 DEF VerificationInv, Of
  <2>2. \A e \in Of(r) : e.outcome \in {"PASS", "WARNING"} /\ (e.pass <=> e.outcome = "PASS")
    BY <2>1, AcceptedIsGood
  <2>3. CASE Checking(r)
    BY <2>1, <2>2, <2>3 DEF RunTold
  <2>4. CASE ~Checking(r)
    BY <2>1, <2>2, <2>4 DEF RunTold
  <2> QED
    BY <2>3, <2>4
<1>2. ~Contradictory(evidence)
  <2>1. \A e \in evidence : ~e.pass => e.type # "VERIFICATION"
    BY AcceptedIsGood
  <2>2. \A e \in evidence : e.outcome # "FAIL"
    BY AcceptedIsGood
  <2> QED
    BY <2>1, <2>2 DEF Contradictory
<1>3. ASSUME \E e \in evidence : e.pass
      PROVE  Evaluate(evidence, RegressionsByPass(evidence, evidence), required)
  <2> DEFINE passing == {e \in evidence : e.pass}
             f == [e \in passing |-> e.confidence]
  <2>1. required \subseteq {e.check : e \in passing}
    BY AcceptedIsGood DEF PassedChecks
  <2>2. RegressionsByPass(evidence, evidence) = {}
    BY AcceptedIsGood DEF RegressionsByPass
  <2>3. IsFiniteSet(passing) /\ passing # {}
    BY <1>3, FS_Subset DEF VerificationInv, VerificationTypeOK
  <2>4. f \in [passing -> Nat] /\ \A e \in passing : f[e] >= 80
    BY AcceptedIsGood DEF Evidence
  <2> HIDE DEF passing, f
  <2>5. Sum(f, passing) >= 80 * Cardinality(passing)
    BY <2>3, <2>4, SumAbove
  <2>6. MapThenSumSet(LAMBDA e : e.confidence, passing) >= 80 * Cardinality(passing)
    BY <2>3, <2>5, SumOfField DEF f
  <2> QED
    BY <2>1, <2>2, <2>3, <2>6 DEF Evaluate, passing
<1> QED
  BY <1>1, <1>2, <1>3

\* What is recorded has the type it has.
THEOREM VerificationTypes == VerificationSpec => []VerificationTypeOK
<1>1. VerificationInv => VerificationTypeOK
  BY DEF VerificationInv
<1> QED
  BY <1>1, VerificationInvariance, PTL

\* The verdicts of the engine, the two judges, the two ways to see a
\* regression and the cache (DefaultVerificationEngine, EvidenceAggregator,
\* AcceptanceEvaluator, EvidenceCache): for every number of checks, files, runs
\* and changes of the code.
THEOREM VerificationCorrect == VerificationSpec => []VerificationHolds
<1>1. ASSUME VerificationInv
      PROVE  VerdictsTellEvidence
  <2> SUFFICES ASSUME NEW r \in DOMAIN runs, Checking(r)
               PROVE  /\ runs[r].status = "PASSED" <=> \A e \in Of(r) : e.pass
                      /\ runs[r].status = "FAILED" <=> \E e \in Of(r) : e.outcome = "FAIL"
                      /\ Over(r) /\ runs[r].quiet /\ runs[r].status = "PASSED" =>
                           \A i \in DOMAIN runs[r].checks :
                              Passes(runs[r].checks[i]) \/ Stubbed(runs[r].kind, runs[r].checks[i])
    BY DEF VerdictsTellEvidence, Checking
  <2>1. runs[r] \in Runs /\ RunTold(r)
    BY <1>1 DEF VerificationInv, VerificationTypeOK
  <2>2. Over(r) => \A i \in DOMAIN runs[r].checks : i < runs[r].next
    BY <2>1 DEF Over, Runs
  <2> QED
    BY <2>1, <2>2 DEF RunTold, Succeeds
<1>2. ASSUME VerificationInv
      PROVE  RegressionsAgree
  <2>1. \A e \in evidence : e.outcome \in Outcomes /\ (e.pass <=> e.outcome = "PASS")
    BY <1>2 DEF VerificationInv, VerificationTypeOK, Evidence, Plain
  <2> QED
    BY <2>1 DEF RegressionsAgree, RegressionsByPass, RegressionsByOutcome, Of, Outcomes
<1>3. ASSUME VerificationInv
      PROVE  CacheTellsNow
  <2> SUFFICES ASSUME NEW c \in CheckIds, CacheHit(c), cache[c].found # "INCONCLUSIVE",
                      DOMAIN cache[c].hashes = DOMAIN Hashes(c)
               PROVE  /\ cache[c].found = "FAILED" => ~Passes(c)
                      /\ cache[c].found = "PASSED" =>
                           Passes(c) \/ \E kind \in {"verify", "suite"} : Stubbed(kind, c)
    BY DEF CacheTellsNow
  <2>1. /\ cache[c].found = "FAILED" => \E f \in DOMAIN cache[c].hashes : cache[c].hashes[f] = "bad"
        /\ cache[c].found = "PASSED" =>
             \/ \A f \in DOMAIN cache[c].hashes : cache[c].hashes[f] # "bad"
             \/ \E kind \in {"verify", "suite"} : Stubbed(kind, c)
    BY <1>3 DEF VerificationInv, Cached, CacheHit, Found
  <2>2. \A f \in DOMAIN Hashes(c) : cache[c].hashes[f] = Hashes(c)[f]
    BY DEF CacheHit
  <2>3. Passes(c) <=> \A f \in DOMAIN Hashes(c) : Hashes(c)[f] # "bad"
    BY DEF Hashes, Passes
  <2> QED
    BY <2>1, <2>2, <2>3
<1>4. VerificationInv => VerificationHolds
  BY <1>1, <1>2, <1>3, AcceptedAgree DEF VerificationHolds
<1> QED
  BY <1>4, VerificationInvariance, PTL
-----------------------------------------------------------------------------
\* Context: the relation graph

Versions == [active: BOOLEAN, at: Nat]
Relations == [id: Nat, source: Objects, target: Objects, kind: Kinds \cup {"DEPENDS_ON"}]
ContextGraphs == [nodes: UNION {[os -> Versions] : os \in SUBSET Objects},
                  relations: SUBSET Relations,
                  outbound: [Objects -> SUBSET Relations],
                  inbound: [Objects -> SUBSET Relations]]
ContextTypeOK ==
  /\ time \in 0..LastTime /\ made \in Nat
  /\ versions \in [Objects -> Seq(Versions)]
  /\ graph \in ContextGraphs
  /\ rewritten \subseteq Objects
  /\ past \in [0..LastTime -> SUBSET (Objects \X Nat)]

\* Both indexes are those of the relations, each of which has an id of its own
\* that was given out.
Indexed(g, last) ==
  /\ g \in ContextGraphs
  /\ \A o \in Objects : /\ g.outbound[o] = {r \in g.relations : r.source = o}
                        /\ g.inbound[o] = {r \in g.relations : r.target = o}
  /\ \A r, q \in g.relations : r.id = q.id => r = q
  /\ \A r \in g.relations : r.id <= last

LEMMA RemovalKeeps ==
  ASSUME NEW g, NEW last, Indexed(g, last), NEW rs \in SUBSET g.relations
  PROVE  LET h == RemoveRelations(g, rs)
         IN  Indexed(h, last) /\ h.nodes = g.nodes /\ h.relations = g.relations \ rs
<1> DEFINE h == RemoveRelations(g, rs)
           out == [o \in Objects |-> g.outbound[o] \ {r \in rs : r.source = o}]
           in == [o \in Objects |-> g.inbound[o] \ {r \in rs : r.target = o}]
<1>1. g \in ContextGraphs
  BY DEF Indexed
<1>2. /\ h.nodes = g.nodes /\ h.relations = g.relations \ rs
      /\ h.outbound = out /\ h.inbound = in
      /\ h = [nodes |-> g.nodes, relations |-> g.relations \ rs, outbound |-> out, inbound |-> in]
  <2>1. h = [g EXCEPT !.relations = g.relations \ rs, !.outbound = out, !.inbound = in]
    BY DEF RemoveRelations
  <2> HIDE DEF h, out, in
  <2> QED
    BY <1>1, <2>1 DEF ContextGraphs
<1>3. \A o \in Objects : /\ out[o] = {r \in g.relations \ rs : r.source = o}
                         /\ in[o] = {r \in g.relations \ rs : r.target = o}
  BY DEF Indexed
<1>4. g.nodes \in UNION {[os -> Versions] : os \in SUBSET Objects} /\ g.relations \subseteq Relations
  BY <1>1 DEF ContextGraphs
<1>5. out \in [Objects -> SUBSET Relations] /\ in \in [Objects -> SUBSET Relations]
  BY <1>3, <1>4
<1> HIDE DEF h, out, in
<1>6. h \in ContextGraphs
  BY <1>2, <1>4, <1>5 DEF ContextGraphs
<1>7. Indexed(h, last)
  BY <1>2, <1>3, <1>6 DEF Indexed
<1> QED
  BY <1>2, <1>7 DEF h

LEMMA AdditionKeeps ==
  ASSUME NEW g, NEW last \in Nat, Indexed(g, last), NEW rs \in SUBSET Relations,
         NEW next \in Nat, last <= next,
         \A r \in rs : r.id <= next,
         \A r, q \in rs : r.id = q.id => r = q,
         \A r \in rs, q \in g.relations : r.id # q.id
  PROVE  LET h == AddRelations(g, rs)
         IN  Indexed(h, next) /\ h.nodes = g.nodes /\ h.relations = g.relations \cup rs
<1> DEFINE h == AddRelations(g, rs)
           out == [o \in Objects |-> g.outbound[o] \cup {r \in rs : r.source = o}]
           in == [o \in Objects |-> g.inbound[o] \cup {r \in rs : r.target = o}]
<1>1. g \in ContextGraphs
  BY DEF Indexed
<1>2. /\ h.nodes = g.nodes /\ h.relations = g.relations \cup rs
      /\ h.outbound = out /\ h.inbound = in
      /\ h = [nodes |-> g.nodes, relations |-> g.relations \cup rs, outbound |-> out, inbound |-> in]
  <2>1. h = [g EXCEPT !.relations = g.relations \cup rs, !.outbound = out, !.inbound = in]
    BY DEF AddRelations
  <2> HIDE DEF h, out, in
  <2> QED
    BY <1>1, <2>1 DEF ContextGraphs
<1>3. \A o \in Objects : /\ out[o] = {r \in g.relations \cup rs : r.source = o}
                         /\ in[o] = {r \in g.relations \cup rs : r.target = o}
  BY DEF Indexed
<1>4. g.nodes \in UNION {[os -> Versions] : os \in SUBSET Objects} /\ g.relations \subseteq Relations
  BY <1>1 DEF ContextGraphs
<1>5. out \in [Objects -> SUBSET Relations] /\ in \in [Objects -> SUBSET Relations]
  BY <1>3, <1>4
<1> HIDE DEF h, out, in
<1>6. h \in ContextGraphs
  BY <1>2, <1>4, <1>5 DEF ContextGraphs
<1>7. \A r \in h.relations : r.id <= next
  <2>1. \A r \in g.relations : r.id \in Nat /\ r.id <= last
    BY <1>4 DEF Indexed, Relations
  <2>2. \A r \in g.relations : r.id <= next
    BY <2>1
  <2> QED
    BY <1>2, <2>2
<1>8. \A r, q \in h.relations : r.id = q.id => r = q
  BY <1>2 DEF Indexed
<1>9. Indexed(h, next)
  BY <1>2, <1>3, <1>6, <1>7, <1>8 DEF Indexed
<1> QED
  BY <1>2, <1>9 DEF h

\* Relations that are replaced by others of their ids.
Replacing(g, old, to, new) ==
  /\ old \subseteq g.relations /\ new = {to[r] : r \in old}
  /\ \A r \in old : to[r] \in Relations /\ to[r].id = r.id

LEMMA RelinkKeeps ==
  ASSUME NEW g, NEW last \in Nat, Indexed(g, last), NEW old, NEW to, NEW new,
         Replacing(g, old, to, new),
         NEW h, h = Relinked(g, old, new)
  PROVE  Indexed(h, last) /\ h.nodes = g.nodes /\ h.relations = (g.relations \ old) \cup new
<1> DEFINE k == RemoveRelations(g, old)
<1>1. Indexed(k, last) /\ k.nodes = g.nodes /\ k.relations = g.relations \ old
  BY RemovalKeeps DEF Replacing
<1> HIDE DEF k
<1>2. new \subseteq Relations /\ (\A r \in new : r.id <= last)
  BY DEF Indexed, Replacing
<1>3. \A r, q \in new : r.id = q.id => r = q
  BY DEF Indexed, Replacing
<1>4. \A r \in new, q \in k.relations : r.id # q.id
  BY <1>1 DEF Indexed, Replacing
<1>5. h = AddRelations(k, new)
  BY DEF Relinked, k
<1>6. Indexed(h, last) /\ h.nodes = k.nodes /\ h.relations = k.relations \cup new
  <2>1. LET i == AddRelations(k, new)
        IN  Indexed(i, last) /\ i.nodes = k.nodes /\ i.relations = k.relations \cup new
    BY <1>1, <1>2, <1>3, <1>4, AdditionKeeps
  <2> QED
    BY <1>5, <2>1
<1> QED
  BY <1>1, <1>6

LEMMA SubsumptionKeeps ==
  ASSUME NEW g, NEW last \in Nat, Indexed(g, last),
         NEW primary \in Objects, NEW secondary \in Objects, primary # secondary
  PROVE  LET h == Subsumed(g, primary, secondary)
         IN  /\ Indexed(h, last)
             /\ h.nodes = [o \in DOMAIN g.nodes \ {secondary} |-> g.nodes[o]]
<1> DEFINE leaving == g.outbound[secondary]
           from == [r \in leaving |-> [r EXCEPT !.source = primary]]
           left == Relinked(g, leaving, {[r EXCEPT !.source = primary] : r \in leaving})
           reaching == left.inbound[secondary]
           onto == [r \in reaching |-> [r EXCEPT !.target = primary]]
           reached == Relinked(left, reaching, {[r EXCEPT !.target = primary] : r \in reaching})
           nodes == [o \in DOMAIN g.nodes \ {secondary} |-> g.nodes[o]]
           h == Subsumed(g, primary, secondary)
<1>0. g \in ContextGraphs /\ g.relations \subseteq Relations
  BY DEF Indexed, ContextGraphs
<1>1. /\ leaving = {r \in g.relations : r.source = secondary} /\ leaving \subseteq g.relations
      /\ leaving \subseteq Relations
  BY <1>0 DEF Indexed
<1> HIDE DEF leaving
<1>2. /\ {[r EXCEPT !.source = primary] : r \in leaving} = {from[r] : r \in leaving}
      /\ \A r \in leaving : /\ from[r] \in Relations /\ from[r].id = r.id
                            /\ from[r].source = primary
  BY <1>1 DEF Relations
<1> HIDE DEF from
<1>4. /\ Indexed(left, last) /\ left.nodes = g.nodes
      /\ left.relations = (g.relations \ leaving) \cup {from[r] : r \in leaving}
  <2>1. PICK new : new = {from[r] : r \in leaving}
    OBVIOUS
  <2>0. Replacing(g, leaving, from, new)
    BY <1>1, <1>2, <2>1 DEF Replacing
  <2>2. left = Relinked(g, leaving, new)
    BY <1>2, <2>1
  <2> HIDE DEF left
  <2>3. Indexed(left, last) /\ left.nodes = g.nodes /\ left.relations = (g.relations \ leaving) \cup new
    BY <2>0, <2>2, RelinkKeeps
  <2> QED
    BY <2>1, <2>3
<1> HIDE DEF left
<1>5. /\ reaching = {r \in left.relations : r.target = secondary} /\ reaching \subseteq left.relations
      /\ left \in ContextGraphs /\ left.relations \subseteq Relations
      /\ \A r \in left.relations : r.source # secondary
  <2>1. \A r \in left.relations : r.source # secondary
    BY <1>1, <1>2, <1>4
  <2>2. left \in ContextGraphs /\ left.relations \subseteq Relations
    BY <1>4 DEF Indexed, ContextGraphs
  <2> QED
    BY <1>4, <2>1, <2>2 DEF Indexed
<1> HIDE DEF reaching
<1>6. /\ {[r EXCEPT !.target = primary] : r \in reaching} = {onto[r] : r \in reaching}
      /\ \A r \in reaching : /\ onto[r] \in Relations /\ onto[r].id = r.id
                             /\ onto[r].target = primary /\ onto[r].source = r.source
  BY <1>5 DEF Relations
<1> HIDE DEF onto
<1>8. /\ Indexed(reached, last) /\ reached.nodes = left.nodes
      /\ reached.relations = (left.relations \ reaching) \cup {onto[r] : r \in reaching}
  <2>1. PICK new : new = {onto[r] : r \in reaching}
    OBVIOUS
  <2>0. Replacing(left, reaching, onto, new)
    BY <1>5, <1>6, <2>1 DEF Replacing
  <2>2. reached = Relinked(left, reaching, new)
    BY <1>6, <2>1
  <2> HIDE DEF reached
  <2>3. /\ Indexed(reached, last) /\ reached.nodes = left.nodes
        /\ reached.relations = (left.relations \ reaching) \cup new
    BY <1>4, <2>0, <2>2, RelinkKeeps
  <2> QED
    BY <2>1, <2>3
<1>9. h = [reached EXCEPT !.nodes = Restrict(@, DOMAIN @ \ {secondary}),
                          !.outbound[secondary] = {}, !.inbound[secondary] = {}]
  BY DEF Subsumed, reached, left, reaching, leaving
<1> HIDE DEF reached, h
<1>10. \A r \in reached.relations : r.source # secondary /\ r.target # secondary
  BY <1>5, <1>6, <1>8
<1>11. reached \in ContextGraphs /\ reached.outbound[secondary] = {} /\ reached.inbound[secondary] = {}
  BY <1>8, <1>10 DEF Indexed
<1>12. h = [nodes |-> nodes, relations |-> reached.relations,
            outbound |-> reached.outbound, inbound |-> reached.inbound]
  <2>1. Restrict(reached.nodes, DOMAIN reached.nodes \ {secondary}) = nodes
    BY <1>4, <1>8 DEF Restrict
  <2>2. /\ [reached.outbound EXCEPT ![secondary] = {}] = reached.outbound
        /\ [reached.inbound EXCEPT ![secondary] = {}] = reached.inbound
    BY <1>11 DEF ContextGraphs
  <2> HIDE DEF nodes
  <2> QED
    BY <1>9, <1>11, <2>1, <2>2 DEF ContextGraphs
<1>13. nodes \in UNION {[os -> Versions] : os \in SUBSET Objects}
  <2>1. PICK os \in SUBSET Objects : g.nodes \in [os -> Versions]
    BY <1>0 DEF ContextGraphs
  <2>2. nodes \in [os \ {secondary} -> Versions]
    BY <2>1
  <2> QED
    BY <2>2
<1> HIDE DEF nodes
<1>14. h \in ContextGraphs
  BY <1>11, <1>12, <1>13 DEF ContextGraphs
<1>15. Indexed(h, last)
  BY <1>8, <1>12, <1>14 DEF Indexed
<1> QED
  BY <1>12, <1>15 DEF h, nodes
\* What reaches an object backwards is what it is reached from: what is left
\* out of a set that is closed forwards is closed backwards.
LEMMA BothWays ==
  ASSUME NEW next \in [Objects -> SUBSET Objects], NEW back \in [Objects -> SUBSET Objects],
         \A x, y \in Objects : y \in next[x] <=> x \in back[y],
         NEW o \in Objects, NEW p \in Objects, o \in Reached(p, back)
  PROVE  p \in Reached(o, next)
<1> SUFFICES ASSUME NEW visited \in SUBSET Objects, o \in visited,
                    \A x \in visited : next[x] \subseteq visited,
                    p \notin visited
             PROVE  FALSE
  BY DEF Reached
<1> DEFINE others == Objects \ visited
<1>1. p \in others /\ others \in SUBSET Objects
  OBVIOUS
<1>2. ASSUME NEW y \in others
      PROVE  back[y] \subseteq others
  BY <1>2
<1>3. o \in others
  BY <1>1, <1>2 DEF Reached
<1> QED
  BY <1>3

\* Contradictions and dependencies are seen from both of their ends.
LEMMA SeenFromBothEnds ==
  ASSUME NEW g, NEW last, Indexed(g, last), NEW o \in Objects, NEW p \in Objects
  PROVE  /\ o \in Contradictions(g, p) /\ HasNode(g, p) => p \in Contradictions(g, o)
         /\ p \in Ancestors(g, o, "DEPENDS_ON") <=> o \in Descendants(g, p, "DEPENDS_ON")
<1>0. g.relations \subseteq Relations
  BY DEF Indexed, ContextGraphs
<1>1. ASSUME o \in Contradictions(g, p), HasNode(g, p)
      PROVE  p \in Contradictions(g, o)
  <2>1. PICK r \in g.relations :
          /\ r.kind \in {"CONTRADICTS", "INVALIDATES"}
          /\ (r.source = p /\ r.target = o) \/ (r.target = p /\ r.source = o)
    <3>1. PICK r : /\ r.kind \in {"CONTRADICTS", "INVALIDATES"}
                   /\ (r \in g.outbound[p] /\ r.target = o) \/ (r \in g.inbound[p] /\ r.source = o)
      BY <1>1 DEF Contradictions
    <3>2. /\ r \in g.outbound[p] => r \in g.relations /\ r.source = p
          /\ r \in g.inbound[p] => r \in g.relations /\ r.target = p
      BY DEF Indexed
    <3> QED
      BY <3>1, <3>2
  <2>2. /\ r.source = p => r \in g.outbound[p]
        /\ r.target = p => r \in g.inbound[p]
        /\ r.source = o => r \in g.outbound[o]
        /\ r.target = o => r \in g.inbound[o]
    BY DEF Indexed
  <2> QED
    BY <1>1, <2>1, <2>2 DEF Contradictions
<1>2. p \in Ancestors(g, o, "DEPENDS_ON") <=> o \in Descendants(g, p, "DEPENDS_ON")
  <2> DEFINE next == [x \in Objects |-> {r.target : r \in {q \in g.outbound[x] : q.kind = "DEPENDS_ON"}}]
             back == [x \in Objects |-> {r.source : r \in {q \in g.inbound[x] : q.kind = "DEPENDS_ON"}}]
  <2>1. \A x \in Objects :
          /\ next[x] = {r.target : r \in {q \in g.relations : q.source = x /\ q.kind = "DEPENDS_ON"}}
          /\ back[x] = {r.source : r \in {q \in g.relations : q.target = x /\ q.kind = "DEPENDS_ON"}}
    BY DEF Indexed
  <2>2. \A r \in g.relations : r.source \in Objects /\ r.target \in Objects
    BY <1>0 DEF Relations
  <2>3. \A x, y \in Objects : y \in next[x] <=> x \in back[y]
    BY <2>1
  <2>4. next \in [Objects -> SUBSET Objects] /\ back \in [Objects -> SUBSET Objects]
    <3>1. \A x \in Objects : next[x] \subseteq Objects /\ back[x] \subseteq Objects
      BY <2>1, <2>2
    <3> QED
      BY <3>1
  <2>5. Ancestors(g, o, "DEPENDS_ON") = Reached(o, next)
        /\ Descendants(g, p, "DEPENDS_ON") = Reached(p, back)
    BY DEF Ancestors, Descendants
  <2> HIDE DEF next, back
  <2>6. o \in Reached(p, back) => p \in Reached(o, next)
    BY <2>3, <2>4, BothWays
  <2>7. p \in Reached(o, next) => o \in Reached(p, back)
    BY <2>3, <2>4, BothWays
  <2> QED
    BY <2>5, <2>6, <2>7
<1> QED
  BY <1>1, <1>2
-----------------------------------------------------------------------------
\* Context: versions and the past

ContextInv ==
  /\ ContextTypeOK
  /\ Indexed(graph, made)
  /\ \A o \in Objects : \A v \in DOMAIN versions[o] : versions[o][v].at <= time
  /\ PastIsKept
  /\ GraphShowsLatest

\* A sequence of the elements of a finite set.
LEMMA Listed ==
  ASSUME NEW S, IsFiniteSet(S)
  PROVE  SetToSeq(S) \in Seq(S)
<1>1. Cardinality(S) \in Nat /\ ExistsBijection(1..Cardinality(S), S)
  BY FS_CardinalityType
<1>2. PICK f \in [1..Cardinality(S) -> S] : IsInjective(f)
  BY <1>1 DEF ExistsBijection, Bijection, Injection, IsInjective
<1>3. SetToSeq(S) \in [1..Cardinality(S) -> S]
  BY <1>2 DEF SetToSeq
<1> QED
  BY <1>1, <1>3

\* What is reconstructed of one object: nothing, or the last version by then.
UpTo(vs, t) == {v \in DOMAIN vs : vs[v].at <= t}
ActiveAt(vs, t) == UpTo(vs, t) # {} /\ vs[Max(UpTo(vs, t))].active
SeenAt(o, vs, t) == IF ActiveAt(vs, t) THEN {<<o, Max(UpTo(vs, t))>>} ELSE {}
PastOf(f, t) == {<<o, Max(UpTo(f[o], t))>> : o \in {x \in Objects : ActiveAt(f[x], t)}}

LEMMA SeenOfOne ==
  ASSUME NEW f, NEW t, NEW o \in Objects
  PROVE  {x \in PastOf(f, t) : x[1] = o} = SeenAt(o, f[o], t)
<1>1. \A x : x \in PastOf(f, t) <=>
        \E y \in Objects : ActiveAt(f[y], t) /\ x = <<y, Max(UpTo(f[y], t))>>
  BY DEF PastOf
<1>2. \A y, m : <<y, m>>[1] = y
  OBVIOUS
<1>3. \A x : x \in PastOf(f, t) /\ x[1] = o <=> ActiveAt(f[o], t) /\ x = <<o, Max(UpTo(f[o], t))>>
  BY <1>1, <1>2
<1> QED
  BY <1>3 DEF SeenAt

\* What is written now leaves the past of an object as it was.
LEMMA PastStays ==
  ASSUME ContextInv, UNCHANGED <<time, past>>, NEW o \in Objects \ rewritten,
         NEW e, e.at = time, versions'[o] \in {versions[o], Append(versions[o], e)},
         NEW t \in 0..(time - 1)
  PROVE  {x \in ReconstructHistoryAt(t)' : x[1] = o} = {x \in past'[t] : x[1] = o}
<1> DEFINE old == versions[o]
           new == versions'[o]
<1>1. {x \in ReconstructHistoryAt(t) : x[1] = o} = SeenAt(o, old, t)
  <2>1. ReconstructHistoryAt(t) = PastOf(versions, t)
    BY DEF ReconstructHistoryAt, PastOf, ActiveAt, UpTo
  <2> QED
    BY <2>1, SeenOfOne
<1>2. {x \in ReconstructHistoryAt(t)' : x[1] = o} = SeenAt(o, new, t)
  <2>1. ReconstructHistoryAt(t)' = PastOf(versions', t)
    BY DEF ReconstructHistoryAt, PastOf, ActiveAt, UpTo
  <2> QED
    BY <2>1, SeenOfOne
<1>3. old \in Seq(Versions) /\ time \in Nat /\ ~(time <= t)
  BY DEF ContextInv, ContextTypeOK
<1>4. UpTo(new, t) = UpTo(old, t) /\ \A v \in UpTo(old, t) : new[v] = old[v]
  <2>1. CASE new = old
    BY <2>1
  <2>2. CASE new = Append(old, e)
    <3>1. /\ DOMAIN new = DOMAIN old \cup {Len(old) + 1}
          /\ \A v \in DOMAIN old : new[v] = old[v]
          /\ new[Len(old) + 1] = e
      BY <1>3, <2>2
    <3> HIDE DEF old, new
    <3> QED
      BY <1>3, <3>1 DEF UpTo
  <2> QED
    BY <2>1, <2>2
<1>5. UpTo(old, t) # {} => Max(UpTo(old, t)) \in UpTo(old, t)
  <2>1. UpTo(old, t) \subseteq 1..Len(old) /\ Len(old) \in Nat /\ UpTo(old, t) \subseteq Nat
    BY <1>3 DEF UpTo
  <2>2. IsFiniteSet(UpTo(old, t))
    <3>1. IsFiniteSet(1..Len(old))
      BY <2>1, FS_Interval
    <3> HIDE DEF old
    <3> QED
      BY <2>1, <3>1, FS_Subset
  <2> QED
    BY <2>1, <2>2, Largest
<1> HIDE DEF old, new
<1>6. SeenAt(o, new, t) = SeenAt(o, old, t)
  BY <1>4, <1>5 DEF SeenAt, ActiveAt
<1>7. {x \in ReconstructHistoryAt(t) : x[1] = o} = {x \in past[t] : x[1] = o}
  BY DEF ContextInv, PastIsKept
<1> QED
  BY <1>1, <1>2, <1>6, <1>7 DEF old, new

\* Operations that keep the time: an id that is not written over keeps its
\* versions or gets one more.
LEMMA WritesKeep ==
  ASSUME ContextInv, ContextTypeOK', Indexed(graph, made)', GraphShowsLatest',
         UNCHANGED <<time, past>>, rewritten \subseteq rewritten',
         NEW e, e.at = time,
         \A o \in Objects : \A v \in DOMAIN versions'[o] :
           versions'[o][v] = e \/ (v \in DOMAIN versions[o] /\ versions'[o][v] = versions[o][v]),
         \A o \in Objects \ rewritten' : versions'[o] \in {versions[o], Append(versions[o], e)}
  PROVE  ContextInv'
<1>1. ASSUME NEW o \in Objects, NEW v \in DOMAIN versions'[o]
      PROVE  versions'[o][v].at <= time'
  <2>1. time \in Nat /\ time' = time
    BY DEF ContextInv, ContextTypeOK
  <2>2. CASE versions'[o][v] = e
    BY <2>1, <2>2
  <2>3. CASE v \in DOMAIN versions[o] /\ versions'[o][v] = versions[o][v]
    BY <2>1, <2>3 DEF ContextInv
  <2> QED
    BY <1>1, <2>2, <2>3
<1>2. \A t \in 0..(time - 1), o \in Objects \ rewritten' :
        {x \in ReconstructHistoryAt(t)' : x[1] = o} = {x \in past'[t] : x[1] = o}
  BY PastStays
<1>3. PastIsKept'
  BY <1>2 DEF PastIsKept
<1> QED
  BY <1>1, <1>3 DEF ContextInv

\* One node is set to an object.
LEMMA NodeKeeps ==
  ASSUME NEW g, NEW last, Indexed(g, last), NEW o \in Objects, NEW object \in Versions
  PROVE  LET h == AddNode(g, o, object)
         IN  /\ Indexed(h, last) /\ h.relations = g.relations
             /\ DOMAIN h.nodes = DOMAIN g.nodes \cup {o} /\ h.nodes[o] = object
             /\ \A x \in DOMAIN g.nodes \ {o} : h.nodes[x] = g.nodes[x]
<1> DEFINE nodes == [x \in DOMAIN g.nodes \cup {o} |-> IF x = o THEN object ELSE g.nodes[x]]
           h == AddNode(g, o, object)
<1>1. g \in ContextGraphs
  BY DEF Indexed
<1>2. h = [nodes |-> nodes, relations |-> g.relations, outbound |-> g.outbound, inbound |-> g.inbound]
  <2>1. h = [g EXCEPT !.nodes = nodes]
    BY DEF AddNode
  <2> HIDE DEF h, nodes
  <2> QED
    BY <1>1, <2>1 DEF ContextGraphs
<1>3. nodes \in UNION {[os -> Versions] : os \in SUBSET Objects}
  <2>1. PICK os \in SUBSET Objects : g.nodes \in [os -> Versions]
    BY <1>1 DEF ContextGraphs
  <2>2. nodes \in [os \cup {o} -> Versions]
    BY <2>1
  <2>3. os \cup {o} \in SUBSET Objects
    BY <2>1
  <2> QED
    BY <2>2, <2>3
<1>4. /\ DOMAIN nodes = DOMAIN g.nodes \cup {o} /\ nodes[o] = object
      /\ \A x \in DOMAIN g.nodes \ {o} : nodes[x] = g.nodes[x]
  OBVIOUS
<1> HIDE DEF h, nodes
<1>5. h \in ContextGraphs
  BY <1>1, <1>2, <1>3 DEF ContextGraphs
<1>6. Indexed(h, last)
  BY <1>2, <1>5 DEF Indexed
<1> QED
  BY <1>2, <1>4, <1>6 DEF h
LEMMA AddKeeps ==
  ASSUME ContextInv, NEW o \in Objects, NEW deps \in SUBSET Objects, AddObject(o, deps)
  PROVE  ContextInv'
<1> DEFINE object == [active |-> TRUE, at |-> time]
           withNode == AddNode(graph, o, object)
<1>0. ContextTypeOK /\ time \in Nat /\ made \in Nat /\ object \in Versions
      /\ versions \in [Objects -> Seq(Versions)]
  BY DEF ContextInv, ContextTypeOK, Versions
<1>1. PICK known : known = SetToSeq({d \in deps : HasNode(withNode, d)})
  OBVIOUS
<1>2. known \in Seq(Objects)
  <2>1. IsFiniteSet({d \in deps : HasNode(withNode, d)})
    BY ContextConstants, FS_Subset
  <2>2. known \in Seq({d \in deps : HasNode(withNode, d)})
    BY <1>1, <2>1, Listed
  <2> QED
    BY <2>2
<1> DEFINE relation(i) == [id |-> made + i, source |-> o, target |-> known[i], kind |-> "DEPENDS_ON"]
           rs == {relation(i) : i \in DOMAIN known}
<1>3. /\ versions' = [versions EXCEPT ![o] = IF @ = <<>> THEN <<object>> ELSE [@ EXCEPT ![1] = object]]
      /\ graph' = AddRelations(withNode, rs)
      /\ made' = made + Len(known)
      /\ rewritten' = IF versions[o] = <<>> THEN rewritten ELSE rewritten \cup {o}
      /\ UNCHANGED <<time, past>>
  BY <1>1 DEF AddObject
<1>4. /\ Indexed(withNode, made) /\ withNode.relations = graph.relations
      /\ DOMAIN withNode.nodes = DOMAIN graph.nodes \cup {o} /\ withNode.nodes[o] = object
      /\ \A x \in DOMAIN graph.nodes \ {o} : withNode.nodes[x] = graph.nodes[x]
  <2> HIDE DEF object
  <2> QED
    BY <1>0, NodeKeeps DEF ContextInv
<1> HIDE DEF withNode, object
<1>5. /\ \A i \in DOMAIN known : i \in Nat /\ 1 <= i /\ i <= Len(known) /\ known[i] \in Objects
      /\ made + Len(known) \in Nat /\ made <= made + Len(known)
  BY <1>0, <1>2
<1>6. /\ rs \subseteq Relations
      /\ \A r \in rs : made < r.id /\ r.id <= made + Len(known)
      /\ \A r, q \in rs : r.id = q.id => r = q
  <2>1. \A i \in DOMAIN known : relation(i) \in Relations /\ relation(i).id = made + i
    BY <1>0, <1>5 DEF Relations
  <2>2. \A i, j \in DOMAIN known : made + i = made + j => i = j
    BY <1>0, <1>5
  <2>3. \A i \in DOMAIN known : made < made + i /\ made + i <= made + Len(known)
    BY <1>0, <1>5, <1>2
  <2> HIDE DEF relation
  <2> QED
    BY <2>1, <2>2, <2>3
<1>7. \A r \in rs, q \in withNode.relations : r.id # q.id
  <2>1. \A q \in withNode.relations : q.id \in Nat /\ q.id <= made
    BY <1>4 DEF Indexed, ContextGraphs, Relations
  <2> HIDE DEF rs
  <2> QED
    BY <1>0, <1>6, <2>1
<1> HIDE DEF rs
<1>8. Indexed(graph', made') /\ graph'.nodes = withNode.nodes
  <2>1. LET h == AddRelations(withNode, rs)
        IN  Indexed(h, made + Len(known)) /\ h.nodes = withNode.nodes
            /\ h.relations = withNode.relations \cup rs
    BY <1>0, <1>4, <1>5, <1>6, <1>7, AdditionKeeps
  <2> QED
    BY <1>3, <2>1
<1>9. /\ \A x \in Objects \ {o} : versions'[x] = versions[x]
      /\ versions[o] = <<>> => versions'[o] = Append(versions[o], object)
      /\ versions[o] # <<>> => versions'[o] = [versions[o] EXCEPT ![1] = object]
      /\ versions' \in [Objects -> Seq(Versions)]
  <2>1. PICK old : old = versions[o]
    OBVIOUS
  <2>2. PICK new : new = IF old = <<>> THEN <<object>> ELSE [old EXCEPT ![1] = object]
    OBVIOUS
  <2>3. versions' = [versions EXCEPT ![o] = new]
    BY <1>3, <2>1, <2>2
  <2>4. old \in Seq(Versions) /\ object \in Versions
    BY <1>0, <2>1
  <2>5. old = <<>> => new = Append(old, object)
    BY <2>2
  <2>6. new \in Seq(Versions)
    <3>1. CASE old = <<>>
      BY <2>2, <2>4, <3>1
    <3>2. CASE old # <<>>
      BY <2>2, <2>4, <3>2
    <3> QED
      BY <3>1, <3>2
  <2> QED
    BY <1>0, <2>1, <2>2, <2>3, <2>5, <2>6
<1>10. ContextTypeOK'
  BY <1>0, <1>3, <1>5, <1>8, <1>9 DEF ContextTypeOK, Indexed
<1>11. GraphShowsLatest'
  <2> SUFFICES ASSUME NEW x \in Objects \ rewritten', x \in DOMAIN graph'.nodes
               PROVE  graph'.nodes[x] = versions'[x][Len(versions'[x])]
    BY DEF GraphShowsLatest, HasNode, LatestVersion
  <2>1. CASE x = o
    <3>1. versions[o] = <<>> /\ versions'[o] = <<object>>
      BY <1>3, <1>9, <2>1
    <3> QED
      BY <1>4, <1>8, <2>1, <3>1
  <2>2. CASE x # o
    BY <1>3, <1>4, <1>8, <1>9, <2>2 DEF ContextInv, GraphShowsLatest, HasNode, LatestVersion
  <2> QED
    BY <2>1, <2>2
<1>12. /\ object.at = time
       /\ \A x \in Objects \ rewritten' : versions'[x] \in {versions[x], Append(versions[x], object)}
       /\ rewritten \subseteq rewritten'
  BY <1>3, <1>9 DEF object
<1>13. ASSUME NEW x \in Objects, NEW v \in DOMAIN versions'[x]
       PROVE  versions'[x][v] = object \/ (v \in DOMAIN versions[x] /\ versions'[x][v] = versions[x][v])
  <2>1. CASE x # o
    BY <1>9, <1>13, <2>1
  <2>2. CASE x = o /\ versions[o] = <<>>
    BY <1>9, <1>13, <2>2
  <2>3. CASE x = o /\ versions[o] # <<>>
    BY <1>0, <1>9, <1>13, <2>3
  <2> QED
    BY <2>1, <2>2, <2>3
<1>14. Indexed(graph, made)'
  BY <1>8
<1> QED
  BY <1>3, <1>10, <1>11, <1>12, <1>13, <1>14, WritesKeep

LEMMA UpdateKeeps ==
  ASSUME ContextInv, NEW o \in Objects, NEW on \in BOOLEAN, UpdateObject(o, on)
  PROVE  ContextInv'
<1> DEFINE object == NextVersion(LatestVersion(o), on)
<1>0. ContextTypeOK /\ time \in Nat /\ versions \in [Objects -> Seq(Versions)] /\ versions[o] # <<>>
  BY DEF ContextInv, ContextTypeOK, UpdateObject
<1>1. object \in Versions /\ object.at = time
  <2>1. LatestVersion(o) \in Versions
    BY <1>0 DEF LatestVersion
  <2> QED
    BY <1>0, <2>1 DEF NextVersion, Versions
<1>2. /\ versions' = [versions EXCEPT ![o] = Append(@, object)]
      /\ graph' = AddNode(graph, o, object) /\ UNCHANGED <<time, made, rewritten, past>>
  BY DEF UpdateObject
<1> HIDE DEF object
<1>3. PICK e : e = object
  OBVIOUS
<1>4. /\ Indexed(graph', made)
      /\ DOMAIN graph'.nodes = DOMAIN graph.nodes \cup {o} /\ graph'.nodes[o] = e
      /\ \A x \in DOMAIN graph.nodes \ {o} : graph'.nodes[x] = graph.nodes[x]
  BY <1>1, <1>2, <1>3, NodeKeeps DEF ContextInv
<1>5. /\ \A x \in Objects \ {o} : versions'[x] = versions[x]
      /\ versions'[o] = Append(versions[o], e)
      /\ versions' \in [Objects -> Seq(Versions)]
  BY <1>0, <1>1, <1>2, <1>3
<1>6. /\ Len(versions[o]) \in Nat /\ Len(versions'[o]) = Len(versions[o]) + 1
      /\ DOMAIN versions'[o] = DOMAIN versions[o] \cup {Len(versions[o]) + 1}
      /\ versions'[o][Len(versions[o]) + 1] = e
      /\ \A v \in DOMAIN versions[o] : versions'[o][v] = versions[o][v]
  BY <1>0, <1>5
<1>7. ContextTypeOK'
  BY <1>0, <1>2, <1>4, <1>5 DEF ContextTypeOK, Indexed
<1>8. GraphShowsLatest'
  <2> SUFFICES ASSUME NEW x \in Objects \ rewritten, x \in DOMAIN graph'.nodes
               PROVE  graph'.nodes[x] = versions'[x][Len(versions'[x])]
    BY <1>2 DEF GraphShowsLatest, HasNode, LatestVersion
  <2>1. CASE x = o
    BY <1>4, <1>6, <2>1
  <2>2. CASE x # o
    BY <1>4, <1>5, <2>2 DEF ContextInv, GraphShowsLatest, HasNode, LatestVersion
  <2> QED
    BY <2>1, <2>2
<1>9. Indexed(graph, made)'
  BY <1>2, <1>4
<1>10. \A x \in Objects : \A v \in DOMAIN versions'[x] :
         versions'[x][v] = e \/ (v \in DOMAIN versions[x] /\ versions'[x][v] = versions[x][v])
  BY <1>5, <1>6
<1>11. \A x \in Objects \ rewritten' : versions'[x] \in {versions[x], Append(versions[x], e)}
  BY <1>5
<1> QED
  BY <1>1, <1>2, <1>3, <1>7, <1>8, <1>9, <1>10, <1>11, WritesKeep

\* What changes the graph only.
LEMMA GraphKeeps ==
  ASSUME ContextInv, UNCHANGED <<time, versions, rewritten, past>>,
         made' \in Nat, Indexed(graph, made)',
         DOMAIN graph'.nodes \subseteq DOMAIN graph.nodes,
         \A x \in DOMAIN graph'.nodes : graph'.nodes[x] = graph.nodes[x]
  PROVE  ContextInv'
<1>1. ContextTypeOK'
  BY DEF ContextInv, ContextTypeOK, Indexed
<1>2. GraphShowsLatest'
  BY DEF ContextInv, GraphShowsLatest, HasNode, LatestVersion
<1>3. PICK e : e = [active |-> TRUE, at |-> time]
  OBVIOUS
<1>4. e.at = time
  BY <1>3
<1> QED
  BY <1>1, <1>2, <1>4, WritesKeep

LEMMA RelateKeeps ==
  ASSUME ContextInv, NEW source \in Objects, NEW target \in Objects, NEW kind \in Kinds,
         Relate(source, target, kind)
  PROVE  ContextInv'
<1> DEFINE r == [id |-> made + 1, source |-> source, target |-> target, kind |-> kind]
<1>0. made \in Nat /\ made + 1 \in Nat /\ made <= made + 1 /\ Indexed(graph, made)
  BY DEF ContextInv, ContextTypeOK
<1>1. /\ graph' = AddRelations(graph, {r}) /\ made' = made + 1
      /\ UNCHANGED <<time, versions, rewritten, past>>
  BY DEF Relate
<1>2. r \in Relations /\ r.id = made + 1
  BY <1>0 DEF Relations
<1> HIDE DEF r
<1>3. \A q \in graph.relations : q.id \in Nat /\ q.id <= made
  BY <1>0 DEF Indexed, ContextGraphs, Relations
<1>4. \A q \in graph.relations : r.id # q.id
  BY <1>0, <1>2, <1>3
<1>5. LET h == AddRelations(graph, {r})
      IN  Indexed(h, made + 1) /\ h.nodes = graph.nodes /\ h.relations = graph.relations \cup {r}
  <2> DEFINE rs == {r}
  <2>1. /\ rs \in SUBSET Relations /\ (\A q \in rs : q.id <= made + 1)
        /\ (\A q, s \in rs : q.id = s.id => q = s)
        /\ (\A q \in rs, s \in graph.relations : q.id # s.id)
    BY <1>0, <1>2, <1>4
  <2> HIDE DEF rs
  <2>2. LET h == AddRelations(graph, rs)
        IN  Indexed(h, made + 1) /\ h.nodes = graph.nodes /\ h.relations = graph.relations \cup rs
    BY <1>0, <2>1, AdditionKeeps
  <2> QED
    BY <2>2 DEF rs
<1> QED
  BY <1>0, <1>1, <1>5, GraphKeeps

LEMMA UnrelateKeeps ==
  ASSUME ContextInv, NEW r \in graph.relations, Unrelate(r)
  PROVE  ContextInv'
<1>0. made \in Nat /\ Indexed(graph, made) /\ {r} \in SUBSET graph.relations
  BY DEF ContextInv, ContextTypeOK
<1>1. graph' = RemoveRelations(graph, {r}) /\ UNCHANGED <<time, versions, made, rewritten, past>>
  BY DEF Unrelate
<1>2. LET h == RemoveRelations(graph, {r})
      IN  Indexed(h, made) /\ h.nodes = graph.nodes /\ h.relations = graph.relations \ {r}
  BY <1>0, RemovalKeeps
<1> QED
  BY <1>0, <1>1, <1>2, GraphKeeps

LEMMA SubsumeKeeps ==
  ASSUME ContextInv, NEW primary \in Objects, NEW secondary \in Objects, Subsume(primary, secondary)
  PROVE  ContextInv'
<1>0. made \in Nat /\ Indexed(graph, made)
  BY DEF ContextInv, ContextTypeOK
<1>1. /\ graph' = Subsumed(graph, primary, secondary) /\ primary # secondary
      /\ UNCHANGED <<time, versions, made, rewritten, past>>
  BY DEF Subsume
<1>2. LET h == Subsumed(graph, primary, secondary)
      IN  /\ Indexed(h, made)
          /\ h.nodes = [o \in DOMAIN graph.nodes \ {secondary} |-> graph.nodes[o]]
  BY <1>0, <1>1, SubsumptionKeeps
<1>3. Indexed(graph, made)' /\ DOMAIN graph'.nodes \subseteq DOMAIN graph.nodes
      /\ \A x \in DOMAIN graph'.nodes : graph'.nodes[x] = graph.nodes[x]
  BY <1>1, <1>2
<1> QED
  BY <1>0, <1>1, <1>3, GraphKeeps
\* The end of a tick is noted as what a query finds then, and every version
\* there is was written by then.
LEMMA TickIsNoted ==
  ASSUME ContextInv, NEW o \in Objects
  PROVE  {x \in Queried : x[1] = o} = SeenAt(o, versions[o], time)
<1>1. versions[o] \in Seq(Versions)
  BY DEF ContextInv, ContextTypeOK
<1>2. UpTo(versions[o], time) = 1..Len(versions[o]) /\ Len(versions[o]) \in Nat
  BY <1>1 DEF UpTo, ContextInv
<1>6. versions[o] # <<>> <=> Len(versions[o]) \in 1..Len(versions[o])
  BY <1>1
<1>3. versions[o] # <<>> => Max(UpTo(versions[o], time)) = Len(versions[o])
  <2> SUFFICES ASSUME versions[o] # <<>>
               PROVE  Max(UpTo(versions[o], time)) = Len(versions[o])
    OBVIOUS
  <2> DEFINE S == UpTo(versions[o], time)
  <2>1. IsFiniteSet(1..Len(versions[o]))
    BY <1>2, FS_Interval
  <2>2. Len(versions[o]) \in S /\ S \subseteq Nat /\ IsFiniteSet(S) /\ S # {}
    <3>1. S = 1..Len(versions[o])
      BY <1>2
    <3> HIDE DEF S
    <3> QED
      BY <1>2, <1>6, <2>1, <3>1
  <2>3. \A x \in S : x <= Len(versions[o])
    BY <1>2
  <2> HIDE DEF S
  <2>4. Max(S) \in S /\ Len(versions[o]) <= Max(S)
    BY <2>2, Largest
  <2>5. Max(S) \in Nat /\ Max(S) <= Len(versions[o])
    BY <2>2, <2>3, <2>4
  <2> QED
    BY <1>2, <2>4, <2>5 DEF S
<1>4. versions[o] # <<>> <=> UpTo(versions[o], time) # {}
  <2>1. Len(versions[o]) \in 1..Len(versions[o]) <=> 1..Len(versions[o]) # {}
    BY <1>2
  <2> QED
    BY <1>2, <1>6, <2>1
<1>5. \A x : x \in Queried /\ x[1] = o <=>
        versions[o] # <<>> /\ LatestVersion(o).active /\ x = <<o, Len(versions[o])>>
  <2>1. \A x : x \in Queried <=>
          \E y \in Objects : versions[y] # <<>> /\ LatestVersion(y).active /\ x = <<y, Len(versions[y])>>
    BY DEF Queried
  <2>2. \A y, m : <<y, m>>[1] = y
    OBVIOUS
  <2> QED
    BY <2>1, <2>2
<1> QED
  BY <1>3, <1>4, <1>5 DEF SeenAt, ActiveAt, LatestVersion

LEMMA ClockKeeps ==
  ASSUME ContextInv, ClockTick
  PROVE  ContextInv'
<1>0. /\ ContextTypeOK /\ time \in Nat /\ time < LastTime /\ time' = time + 1
      /\ past' = [past EXCEPT ![time] = Queried]
      /\ UNCHANGED <<versions, graph, made, rewritten>>
      /\ time \in 0..LastTime
  BY ContextConstants DEF ContextInv, ContextTypeOK, ClockTick
<1>1. Queried \subseteq Objects \X Nat
  <2>1. \A o \in Objects : Len(versions[o]) \in Nat
    BY <1>0 DEF ContextTypeOK
  <2> QED
    BY <2>1 DEF Queried
<1>2. ContextTypeOK'
  <2>1. past' \in [0..LastTime -> SUBSET (Objects \X Nat)]
    BY <1>0, <1>1 DEF ContextTypeOK
  <2>2. time' \in 0..LastTime
    BY <1>0, ContextConstants
  <2> QED
    BY <1>0, <2>1, <2>2 DEF ContextTypeOK
<1>3. \A o \in Objects : \A v \in DOMAIN versions'[o] : versions'[o][v].at <= time'
  <2>1. \A o \in Objects : \A v \in DOMAIN versions[o] : versions[o][v].at \in Nat
    <3>1. ASSUME NEW o \in Objects, NEW v \in DOMAIN versions[o]
          PROVE  versions[o][v] \in Versions
      <4>1. versions[o] \in Seq(Versions)
        BY <1>0 DEF ContextTypeOK
      <4> QED
        BY <3>1, <4>1
    <3> QED
      BY <3>1 DEF Versions
  <2>2. \A o \in Objects : \A v \in DOMAIN versions[o] : versions[o][v].at <= time
    BY DEF ContextInv
  <2> QED
    BY <1>0, <2>1, <2>2
<1>4. Indexed(graph, made)' /\ GraphShowsLatest'
  BY <1>0 DEF ContextInv, GraphShowsLatest, HasNode, LatestVersion
<1>5. ASSUME NEW t \in 0..(time' - 1), NEW o \in Objects \ rewritten'
      PROVE  {x \in ReconstructHistoryAt(t)' : x[1] = o} = {x \in past'[t] : x[1] = o}
  <2>1. ReconstructHistoryAt(t)' = ReconstructHistoryAt(t)
    BY <1>0 DEF ReconstructHistoryAt
  <2>2. CASE t = time
    <3>1. past'[t] = Queried
      BY <1>0, <2>2 DEF ContextTypeOK
    <3>2. ReconstructHistoryAt(t) = PastOf(versions, t)
      BY DEF ReconstructHistoryAt, PastOf, ActiveAt, UpTo
    <3>3. {x \in ReconstructHistoryAt(t) : x[1] = o} = SeenAt(o, versions[o], t)
      BY <3>2, SeenOfOne
    <3> QED
      BY <2>1, <2>2, <3>1, <3>3, TickIsNoted
  <2>3. CASE t # time
    <3>1. t \in 0..(time - 1) /\ o \in Objects \ rewritten
      BY <1>0, <1>5, <2>3
    <3>2. past'[t] = past[t]
      BY <1>0, <2>3, <3>1 DEF ContextTypeOK
    <3> QED
      BY <2>1, <3>1, <3>2 DEF ContextInv, PastIsKept
  <2> QED
    BY <2>2, <2>3
<1>6. PastIsKept'
  BY <1>5 DEF PastIsKept
<1> QED
  BY <1>2, <1>3, <1>4, <1>6 DEF ContextInv

LEMMA NoGraph ==
  ASSUME NEW last
  PROVE  Indexed(EmptyGraph, last) /\ DOMAIN EmptyGraph.nodes = {}
<1>1. /\ EmptyGraph.relations = {} /\ EmptyGraph.nodes = <<>>
      /\ \A o \in Objects : EmptyGraph.outbound[o] = {} /\ EmptyGraph.inbound[o] = {}
  BY DEF EmptyGraph
<1>2. DOMAIN EmptyGraph.nodes = {} /\ EmptyGraph.nodes \in [{} -> Versions]
  BY <1>1
<1>3. EmptyGraph \in ContextGraphs
  <2>1. EmptyGraph.nodes \in UNION {[os -> Versions] : os \in SUBSET Objects}
    BY <1>2
  <2>2. <<>> \in UNION {[os -> Versions] : os \in SUBSET Objects}
    BY <1>1, <2>1
  <2> QED
    BY <2>2 DEF EmptyGraph, ContextGraphs
<1> QED
  BY <1>1, <1>2, <1>3 DEF Indexed

\* Without versions there is no past.
LEMMA NothingKept ==
  ASSUME NEW f, f = [o \in Objects |-> <<>>], NEW t
  PROVE  PastOf(f, t) = {}
<1>1. \A o \in Objects : UpTo(f[o], t) = {}
  BY DEF UpTo
<1> QED
  BY <1>1 DEF PastOf, ActiveAt

LEMMA ContextStarts == ContextInit => ContextInv
<1> SUFFICES ASSUME ContextInit
             PROVE  ContextInv
  OBVIOUS
<1>1. /\ time = 0 /\ made = 0 /\ versions = [o \in Objects |-> <<>>] /\ graph = EmptyGraph
      /\ rewritten = {} /\ past = [t \in 0..LastTime |-> {}]
  BY DEF ContextInit
<1>2. Indexed(graph, made) /\ DOMAIN graph.nodes = {}
  BY <1>1, NoGraph
<1>3. ContextTypeOK
  BY <1>1, <1>2, ContextConstants DEF ContextTypeOK, Indexed
<1>4. PastIsKept
  BY <1>1 DEF PastIsKept
<1>5. GraphShowsLatest
  BY <1>2 DEF GraphShowsLatest, HasNode
<1>6. \A o \in Objects : DOMAIN versions[o] = {}
  BY <1>1
<1> QED
  BY <1>2, <1>3, <1>4, <1>5, <1>6 DEF ContextInv

LEMMA ClearKeeps ==
  ASSUME ContextInv, ClearStore
  PROVE  ContextInv'
<1>1. /\ versions' = [o \in Objects |-> <<>>] /\ graph' = EmptyGraph
      /\ rewritten' = {} /\ past' = [t \in 0..LastTime |-> {}] /\ UNCHANGED <<time, made>>
      /\ time \in 0..LastTime /\ made \in Nat
  BY DEF ClearStore, ContextInv, ContextTypeOK
<1>2. Indexed(graph, made)' /\ DOMAIN graph'.nodes = {}
  BY <1>1, NoGraph
<1>3. ContextTypeOK'
  BY <1>1, <1>2 DEF ContextTypeOK, Indexed
<1>4. PastIsKept'
  <2> SUFFICES ASSUME NEW t \in 0..(time' - 1), NEW o \in Objects
               PROVE  {x \in ReconstructHistoryAt(t)' : x[1] = o} = {x \in past'[t] : x[1] = o}
    BY DEF PastIsKept
  <2>1. ReconstructHistoryAt(t)' = PastOf(versions', t)
    BY DEF ReconstructHistoryAt, PastOf, ActiveAt, UpTo
  <2>2. ReconstructHistoryAt(t)' = {}
    BY <1>1, <2>1, NothingKept
  <2>3. past'[t] = {}
    <3>1. t \in 0..LastTime
      BY <1>1, ContextConstants
    <3> QED
      BY <1>1, <3>1
  <2> QED
    BY <2>2, <2>3
<1>5. GraphShowsLatest'
  BY <1>2 DEF GraphShowsLatest, HasNode
<1>6. \A o \in Objects : DOMAIN versions'[o] = {}
  BY <1>1
<1> QED
  BY <1>2, <1>3, <1>4, <1>5, <1>6 DEF ContextInv

LEMMA ContextStays == ContextInv /\ [ContextNext]_contextVars => ContextInv'
<1> SUFFICES ASSUME ContextInv, [ContextNext]_contextVars
             PROVE  ContextInv'
  OBVIOUS
<1>1. CASE UNCHANGED contextVars
  <2>1. UNCHANGED <<time, versions, graph, made, rewritten, past>>
    BY <1>1 DEF contextVars
  <2>2. made' \in Nat /\ Indexed(graph, made)'
    BY <2>1 DEF ContextInv, ContextTypeOK
  <2> QED
    BY <2>1, <2>2, GraphKeeps
<1>2. ASSUME NEW o \in Objects, NEW deps \in SUBSET Objects, AddObject(o, deps)
      PROVE  ContextInv'
  BY <1>2, AddKeeps
<1>3. ASSUME NEW o \in Objects, NEW on \in BOOLEAN, UpdateObject(o, on)
      PROVE  ContextInv'
  BY <1>3, UpdateKeeps
<1>4. ASSUME NEW o \in Objects, Deactivate(o)
      PROVE  ContextInv'
  BY <1>4, UpdateKeeps DEF Deactivate
<1>5. ASSUME NEW o \in Objects, NEW p \in Objects, Subsume(o, p)
      PROVE  ContextInv'
  BY <1>5, SubsumeKeeps
<1>6. ASSUME NEW o \in Objects, NEW p \in Objects, NEW kind \in Kinds, Relate(o, p, kind)
      PROVE  ContextInv'
  BY <1>6, RelateKeeps
<1>7. ASSUME NEW r \in graph.relations, Unrelate(r)
      PROVE  ContextInv'
  BY <1>7, UnrelateKeeps
<1> QED
  BY <1>1, <1>2, <1>3, <1>4, <1>5, <1>6, <1>7, ClockKeeps, ClearKeeps DEF ContextNext

LEMMA ContextInvariance == ContextSpec => []ContextInv
BY ContextStarts, ContextStays, PTL DEF ContextSpec

\* Objects, their versions, the graph and what was noted keep their types.
THEOREM ContextTypes == ContextSpec => []ContextTypeOK
<1>1. ContextInv => ContextTypeOK
  BY DEF ContextInv
<1> QED
  BY <1>1, ContextInvariance, PTL

\* Both indexes of the graph, the past that is reconstructed and the latest
\* versions (ContextGraph, InMemoryContextStore): for every number of objects,
\* versions and relations, and any order of calls.
THEOREM ContextCorrect == ContextSpec => []ContextHolds
<1>1. ASSUME ContextInv
      PROVE  IndexesAgree
  <2>1. /\ \A o, p \in Objects :
             o \in Contradictions(graph, p) /\ HasNode(graph, p) => p \in Contradictions(graph, o)
        /\ \A o, p \in Objects :
             p \in Ancestors(graph, o, "DEPENDS_ON") <=> o \in Descendants(graph, p, "DEPENDS_ON")
    BY <1>1, SeenFromBothEnds DEF ContextInv
  <2> QED
    BY <1>1, <2>1 DEF ContextInv, Indexed, IndexesAgree
<1>2. ContextInv => ContextHolds
  BY <1>1 DEF ContextInv, ContextHolds
<1> QED
  BY <1>2, ContextInvariance, PTL
-----------------------------------------------------------------------------
\* The export of telemetry

Bundles == [signal : Signals, items : Seq(Nat), closing : BOOLEAN]
Exports ==
  [sizes : [batch : Nat \ {0}, queue : Nat \ {0}], timer : BOOLEAN,
   queue : [Signals -> Seq(Nat)], count : [Signals -> Nat],
   dropped : [Signals -> SUBSET Nat], requests : SUBSET Bundles,
   ended : [Signals -> SUBSET Nat], closing : {"no", "flushing", "done"},
   before : [Signals -> Nat]]

\* The records that are no longer waiting are the first so many.
Gone(e, s) == e.count[s] - Len(e.queue[s])
Sent(e, s) == {x \in Nat : \E r \in e.requests : r.signal = s /\ x \in Items(r.items)}
Waiting(e, s) ==
  /\ Len(e.queue[s]) <= e.count[s]
  /\ \A k \in 1..Len(e.queue[s]) : e.queue[s][k] = Gone(e, s) + k
Placed(e, s) ==
  /\ \A x \in Nat : x \in 1..Gone(e, s) <=> x \in Sent(e, s) \/ x \in e.ended[s] \/ x \in e.dropped[s]
  /\ Sent(e, s) \cap e.ended[s] = {} /\ Sent(e, s) \cap e.dropped[s] = {}
  /\ e.ended[s] \cap e.dropped[s] = {}
Apart(e, s) ==
  \A r, q \in e.requests : r.signal = s /\ q.signal = s /\ r # q => Items(r.items) \cap Items(q.items) = {}
Batched(e, s) == \A r \in e.requests : r.signal = s => Len(r.items) \in 1..e.sizes.batch
Parted(e, s) == e.closing # "no" => e.before[s] <= Gone(e, s)
Good(e) ==
  /\ e \in Exports
  /\ \A s \in Signals : Waiting(e, s) /\ Placed(e, s) /\ Apart(e, s) /\ Batched(e, s) /\ Parted(e, s)

\* What holds between two calls as well: a queue is not over its limits.
Bounded(e, s) ==
  IF e.sizes.queue >= e.sizes.batch THEN Len(e.queue[s]) < e.sizes.batch /\ e.dropped[s] = {}
  ELSE Len(e.queue[s]) <= e.sizes.queue

\* A call for one signal leaves what is known of the other.
Same(e, f, s) ==
  /\ f.count[s] = e.count[s] /\ f.queue[s] = e.queue[s] /\ f.ended[s] = e.ended[s]
  /\ f.dropped[s] = e.dropped[s] /\ f.before[s] = e.before[s]
  /\ f.sizes = e.sizes /\ f.closing = e.closing
  /\ \A r : r.signal = s => (r \in f.requests <=> r \in e.requests)
LEMMA SameKeeps ==
  ASSUME NEW e, NEW f, NEW s, Same(e, f, s),
         Waiting(e, s), Placed(e, s), Apart(e, s), Batched(e, s), Parted(e, s)
  PROVE  Waiting(f, s) /\ Placed(f, s) /\ Apart(f, s) /\ Batched(f, s) /\ Parted(f, s)
<1>1. Gone(f, s) = Gone(e, s) /\ Sent(f, s) = Sent(e, s)
  BY DEF Same, Gone, Sent
<1> QED
  BY <1>1 DEF Same, Waiting, Placed, Apart, Batched, Parted

\* A sequence is cut in two.
LEMMA CutInTwo ==
  ASSUME NEW q \in Seq(Nat), NEW n \in 1..Len(q)
  PROVE  /\ SubSeq(q, 1, n) \in Seq(Nat) /\ Len(SubSeq(q, 1, n)) = n
         /\ \A k \in 1..n : SubSeq(q, 1, n)[k] = q[k]
         /\ SubSeq(q, n + 1, Len(q)) \in Seq(Nat) /\ Len(SubSeq(q, n + 1, Len(q))) = Len(q) - n
         /\ \A k \in 1..(Len(q) - n) : SubSeq(q, n + 1, Len(q))[k] = q[n + k]
<1>1. Len(q) \in Nat /\ n \in Nat /\ n >= 1 /\ n <= Len(q) /\ Len(q) - n \in Nat
  OBVIOUS
<1>2. SubSeq(q, 1, n) = [k \in 1..n |-> q[k]]
  <2>1. SubSeq(q, 1, n) = [k \in 1..(n - 1 + 1) |-> q[k + 1 - 1]]
    BY <1>1
  <2> QED
    BY <1>1, <2>1
<1>3. SubSeq(q, n + 1, Len(q)) = [k \in 1..(Len(q) - n) |-> q[n + k]]
  <2>1. SubSeq(q, n + 1, Len(q)) = [k \in 1..(Len(q) - (n + 1) + 1) |-> q[k + (n + 1) - 1]]
    BY <1>1
  <2> QED
    BY <1>1, <2>1
<1>4. \A k \in 1..n : q[k] \in Nat
  BY <1>1
<1>5. \A k \in 1..(Len(q) - n) : n + k \in 1..Len(q) /\ q[n + k] \in Nat
  BY <1>1
<1> QED
  BY <1>1, <1>2, <1>3, <1>4, <1>5

\* A batch takes the oldest of what waits, which nobody else has.
LEMMA TakingIsGood ==
  ASSUME NEW e, Good(e), NEW s \in Signals, NEW last \in BOOLEAN
  PROVE  LET f == Taken(e, s, last)
             n == IF Len(e.queue[s]) < e.sizes.batch THEN Len(e.queue[s]) ELSE e.sizes.batch
         IN  /\ Good(f) /\ f.sizes = e.sizes /\ f.timer = e.timer /\ f.count = e.count
             /\ f.dropped = e.dropped /\ f.closing = e.closing /\ f.before = e.before
             /\ Len(f.queue[s]) = Len(e.queue[s]) - n
             /\ \A t \in Signals \ {s} : f.queue[t] = e.queue[t]
<1> DEFINE f == Taken(e, s, last)
           q == e.queue[s]
           n == IF Len(q) < e.sizes.batch THEN Len(q) ELSE e.sizes.batch
<1>0. e \in Exports /\ q \in Seq(Nat) /\ e.sizes.batch \in Nat \ {0} /\ e.count[s] \in Nat
  BY DEF Good, Exports
<1>1. CASE q = <<>>
  <2>1. f = e /\ Len(q) = 0 /\ n = 0
    BY <1>0, <1>1 DEF Taken
  <2> QED
    BY <2>1
<1>2. CASE q # <<>>
  <2>0. n \in 1..Len(q) /\ n <= e.sizes.batch /\ Len(q) \in Nat
    BY <1>0, <1>2
  <2> DEFINE batch == SubSeq(q, 1, n)
             rest == SubSeq(q, n + 1, Len(q))
             request == Request(s, batch, last)
  <2>1. f = [e EXCEPT !.requests = @ \cup {request}, !.queue[s] = rest]
    BY <1>2 DEF Taken
  <2> HIDE DEF n, f
  <2>2. /\ batch \in Seq(Nat) /\ Len(batch) = n /\ \A k \in 1..n : batch[k] = q[k]
        /\ rest \in Seq(Nat) /\ Len(rest) = Len(q) - n
        /\ \A k \in 1..(Len(q) - n) : rest[k] = q[n + k]
    BY <1>0, <2>0, CutInTwo
  <2>3. request \in Bundles /\ request.signal = s /\ request.items = batch
    BY <2>2 DEF Bundles, Request
  <2> DEFINE queues == [e.queue EXCEPT ![s] = rest]
             underway == e.requests \cup {request}
  <2>4. f = [e EXCEPT !.requests = underway, !.queue = queues]
    BY <1>0, <2>1 DEF Exports
  <2> HIDE DEF batch, rest, request, q
  <2>5. /\ queues \in [Signals -> Seq(Nat)] /\ queues[s] = rest
        /\ \A t \in Signals \ {s} : queues[t] = e.queue[t]
        /\ underway \in SUBSET Bundles
    BY <1>0, <2>2, <2>3 DEF Exports
  <2>6. \A r : r \in underway <=> r \in e.requests \/ r = request
    OBVIOUS
  <2> HIDE DEF queues, underway
  <2>7. /\ f \in Exports /\ f.queue = queues /\ f.requests = underway
        /\ f.sizes = e.sizes /\ f.timer = e.timer /\ f.count = e.count
        /\ f.dropped = e.dropped /\ f.closing = e.closing /\ f.before = e.before
        /\ f.ended = e.ended
    BY <1>0, <2>4, <2>5 DEF Exports
  <2>8. ASSUME NEW t \in Signals \ {s}
        PROVE  Waiting(f, t) /\ Placed(f, t) /\ Apart(f, t) /\ Batched(f, t) /\ Parted(f, t)
    <3>1. Same(e, f, t)
      BY <2>3, <2>5, <2>6, <2>7 DEF Same
    <3> QED
      BY <3>1, SameKeeps DEF Good
  <2> DEFINE g == Gone(e, s)
  <2>9. g = e.count[s] - Len(q) /\ g \in Nat /\ g + n \in Nat /\ Gone(f, s) = g + n
    <3>1. Len(q) <= e.count[s]
      BY DEF Good, Waiting, q
    <3>2. g = e.count[s] - Len(q)
      BY DEF Gone, q
    <3>3. Gone(f, s) = e.count[s] - (Len(q) - n)
      BY <2>2, <2>5, <2>7 DEF Gone
    <3> HIDE DEF g
    <3> QED
      BY <1>0, <2>0, <3>1, <3>2, <3>3
  <2>10. Waiting(f, s)
    <3>1. \A k \in 1..(Len(q) - n) : rest[k] = g + n + k
      <4> SUFFICES ASSUME NEW k \in 1..(Len(q) - n) PROVE rest[k] = g + n + k
        OBVIOUS
      <4>1. n + k \in 1..Len(q)
        BY <2>0
      <4>2. rest[k] = g + (n + k)
        BY <2>2, <4>1 DEF Good, Waiting, q
      <4> QED
        BY <2>0, <2>9, <4>2
    <3>2. Len(rest) <= e.count[s]
      <4>1. Len(q) <= e.count[s]
        BY DEF Good, Waiting, q
      <4> QED
        BY <1>0, <2>0, <2>2, <4>1
    <3> QED
      BY <2>2, <2>5, <2>7, <2>9, <3>1, <3>2 DEF Waiting
  <2>11. \A x : x \in Items(batch) <=> x \in (g + 1)..(g + n)
    <3>1. \A k \in 1..n : batch[k] = g + k
      BY <2>0, <2>2 DEF Good, Waiting, q
    <3>2. Items(batch) = {batch[k] : k \in 1..n}
      <4>1. DOMAIN batch = 1..n
        BY <2>0, <2>2
      <4> QED
        BY <4>1 DEF Items
    <3>3. \A x \in (g + 1)..(g + n) : x - g \in 1..n /\ x = g + (x - g)
      BY <2>0, <2>9
    <3>4. \A k \in 1..n : g + k \in (g + 1)..(g + n)
      BY <2>0, <2>9
    <3> QED
      BY <3>1, <3>2, <3>3, <3>4
  <2>12. \A x : x \in Sent(f, s) <=> x \in Sent(e, s) \/ x \in (g + 1)..(g + n)
    <3>1. \A x \in (g + 1)..(g + n) : x \in Nat
      BY <2>9
    <3> QED
      BY <2>3, <2>6, <2>7, <2>11, <3>1 DEF Sent
  <2>13. /\ \A x \in Nat : x \in 1..g <=> x \in Sent(e, s) \/ x \in e.ended[s] \/ x \in e.dropped[s]
         /\ Sent(e, s) \cap e.ended[s] = {} /\ Sent(e, s) \cap e.dropped[s] = {}
         /\ e.ended[s] \cap e.dropped[s] = {}
         /\ e.ended[s] \subseteq Nat /\ e.dropped[s] \subseteq Nat /\ Sent(e, s) \subseteq Nat
    BY <1>0 DEF Good, Placed, Exports, Sent
  <2> HIDE DEF g
  <2>14. Placed(f, s)
    <3>1. \A x \in Nat : x \in 1..(g + n) <=> x \in 1..g \/ x \in (g + 1)..(g + n)
      BY <2>0, <2>9
    <3>2. \A x : x \in (g + 1)..(g + n) => x \notin 1..g /\ x \in Nat
      BY <2>0, <2>9
    <3> QED
      BY <2>7, <2>9, <2>12, <2>13, <3>1, <3>2 DEF Placed
  <2>15. \A r \in e.requests : r.signal = s => Items(r.items) \cap Items(batch) = {}
    <3> SUFFICES ASSUME NEW r \in e.requests, r.signal = s, NEW x, x \in Items(r.items), x \in Items(batch)
                 PROVE  FALSE
      OBVIOUS
    <3>1. x \in (g + 1)..(g + n)
      BY <2>11
    <3>2. x \in Nat /\ x \notin 1..g
      BY <2>0, <2>9, <3>1
    <3>3. x \in Sent(e, s)
      BY <3>2 DEF Sent
    <3> QED
      BY <2>13, <3>2, <3>3
  <2>16. Apart(f, s)
    BY <2>3, <2>6, <2>7, <2>15 DEF Apart, Good
  <2>17. Batched(f, s)
    BY <2>0, <2>2, <2>3, <2>6, <2>7 DEF Batched, Good
  <2>18. Parted(f, s)
    <3>1. e.before[s] \in Nat
      BY <1>0 DEF Exports
    <3> QED
      BY <2>0, <2>7, <2>9, <3>1 DEF Parted, Good, g
  <2>19. Good(f)
    BY <2>7, <2>8, <2>10, <2>14, <2>16, <2>17, <2>18 DEF Good
  <2>20. Len(f.queue[s]) = Len(q) - n /\ \A t \in Signals \ {s} : f.queue[t] = e.queue[t]
    BY <2>2, <2>5, <2>7
  <2> QED
    BY <2>7, <2>19, <2>20 DEF f, n, q
<1> QED
  BY <1>1, <1>2

\* A record more waits; where a queue is full its oldest makes room.
LEMMA ExportedIsGood ==
  ASSUME NEW e, Good(e), NEW s \in Signals, \A t \in Signals : Bounded(e, t)
  PROVE  LET f == Exported(e, s)
         IN  /\ Good(f) /\ \A t \in Signals : Bounded(f, t)
             /\ f.closing = e.closing /\ f.sizes = e.sizes
<1> DEFINE q == e.queue[s]
           full == Len(q) >= e.sizes.queue
           kept == IF full /\ q # <<>> THEN Tail(q) ELSE q
           item == e.count[s] + 1
           lost == IF full /\ q # <<>> THEN e.dropped[s] \cup {Head(q)} ELSE e.dropped[s]
           longer == Append(kept, item)
           a == [e EXCEPT !.queue[s] = longer, !.count[s] = item, !.dropped[s] = lost]
<1>0. /\ e \in Exports /\ q \in Seq(Nat) /\ e.count[s] \in Nat /\ item \in Nat
      /\ e.sizes \in [batch : Nat \ {0}, queue : Nat \ {0}] /\ e.dropped[s] \subseteq Nat
  BY DEF Good, Exports
<1>1. Exported(e, s) = IF Len(a.queue[s]) >= a.sizes.batch THEN Taken(a, s, FALSE) ELSE a
  BY DEF Exported
<1>2. /\ Len(q) \in Nat /\ e.sizes.queue \in Nat \ {0} /\ e.sizes.batch \in Nat \ {0}
      /\ full => q # <<>>
  BY <1>0
<1> DEFINE g == Gone(e, s)
           d == IF full THEN 1 ELSE 0
<1>3. /\ g = e.count[s] - Len(q) /\ Len(q) <= e.count[s] /\ \A k \in 1..Len(q) : q[k] = g + k
      /\ g \in Nat /\ d \in {0, 1}
  <2>1. Len(q) <= e.count[s] /\ g = e.count[s] - Len(q)
    BY DEF Good, Waiting, Gone
  <2> HIDE DEF g, q
  <2>2. \A k \in 1..Len(q) : q[k] = g + k
    BY DEF Good, Waiting, g, q
  <2> QED
    BY <1>0, <1>2, <2>1, <2>2
<1>4. /\ longer \in Seq(Nat) /\ Len(longer) = Len(q) + 1 - d
      /\ \A k \in 1..(Len(q) + 1 - d) : longer[k] = g + d + k
      /\ lost = IF full THEN e.dropped[s] \cup {g + 1} ELSE e.dropped[s]
  <2> HIDE DEF q, item, g
  <2>0. g \in Nat /\ Len(q) \in Nat
    BY <1>2, <1>3
  <2>1. item = e.count[s] + 1 /\ item = g + Len(q) + 1
    BY <1>0, <1>2, <1>3 DEF item
  <2>2. CASE full
    <3>1. kept = Tail(q) /\ d = 1 /\ lost = e.dropped[s] \cup {Head(q)} /\ Len(q) >= 1
      BY <1>0, <1>2, <2>2
    <3> HIDE DEF kept, lost, d, full
    <3>2. kept \in Seq(Nat) /\ Len(kept) = Len(q) - 1 /\ \A k \in 1..(Len(q) - 1) : kept[k] = q[k + 1]
      BY <1>0, <3>1
    <3>3. Head(q) = g + 1
      BY <1>0, <1>3, <3>1
    <3>4. \A k \in 1..(Len(q) - 1) : kept[k] = g + 1 + k
      <4> SUFFICES ASSUME NEW k \in 1..(Len(q) - 1) PROVE kept[k] = g + 1 + k
        OBVIOUS
      <4>1. k + 1 \in 1..Len(q) /\ g + (k + 1) = g + 1 + k
        BY <2>0
      <4> QED
        BY <1>3, <3>2, <4>1
    <3>5. longer \in Seq(Nat) /\ Len(longer) = Len(q) /\ longer[Len(q)] = item
          /\ \A k \in 1..(Len(q) - 1) : longer[k] = kept[k]
      BY <1>0, <1>2, <3>1, <3>2
    <3> HIDE DEF longer
    <3>6. \A k \in 1..Len(q) : longer[k] = g + 1 + k
      <4>1. ASSUME NEW k \in 1..Len(q), k # Len(q)
            PROVE  longer[k] = g + 1 + k
        <5>1. k \in 1..(Len(q) - 1)
          BY <2>0, <4>1
        <5> QED
          BY <3>4, <3>5, <5>1
      <4>2. longer[Len(q)] = g + 1 + Len(q)
        BY <2>0, <2>1, <3>5
      <4> QED
        BY <4>1, <4>2
    <3> QED
      BY <1>2, <2>2, <3>1, <3>3, <3>5, <3>6
  <2>3. CASE ~full
    <3>1. kept = q /\ d = 0 /\ lost = e.dropped[s]
      BY <2>3
    <3> HIDE DEF kept, lost, d, full
    <3>2. longer \in Seq(Nat) /\ Len(longer) = Len(q) + 1 /\ longer[Len(q) + 1] = item
          /\ \A k \in 1..Len(q) : longer[k] = q[k]
      BY <1>0, <3>1
    <3> HIDE DEF longer
    <3>3. \A k \in 1..(Len(q) + 1) : longer[k] = g + 0 + k
      <4>1. ASSUME NEW k \in 1..(Len(q) + 1), k # Len(q) + 1
            PROVE  longer[k] = g + 0 + k
        <5>1. k \in 1..Len(q)
          BY <2>0, <4>1
        <5> QED
          BY <1>3, <2>0, <3>2, <5>1
      <4>2. longer[Len(q) + 1] = g + 0 + (Len(q) + 1)
        BY <2>0, <2>1, <3>2
      <4> QED
        BY <4>1, <4>2
    <3> QED
      BY <1>2, <2>3, <3>1, <3>2, <3>3
  <2> QED
    BY <2>2, <2>3
<1> DEFINE queues == [e.queue EXCEPT ![s] = longer]
           counts == [e.count EXCEPT ![s] = item]
           drops == [e.dropped EXCEPT ![s] = lost]
<1>5. a = [e EXCEPT !.queue = queues, !.count = counts, !.dropped = drops]
  BY <1>0 DEF Exports
<1> HIDE DEF a, longer, lost, item, kept, g, d
<1>6. lost \subseteq Nat
  BY <1>0, <1>3, <1>4
<1>7. /\ queues \in [Signals -> Seq(Nat)] /\ queues[s] = longer
      /\ counts \in [Signals -> Nat] /\ counts[s] = item
      /\ drops \in [Signals -> SUBSET Nat] /\ drops[s] = lost
      /\ \A t \in Signals \ {s} :
           queues[t] = e.queue[t] /\ counts[t] = e.count[t] /\ drops[t] = e.dropped[t]
  BY <1>0, <1>4, <1>6 DEF Exports
<1> HIDE DEF queues, counts, drops
<1>8. /\ a \in Exports /\ a.queue = queues /\ a.count = counts /\ a.dropped = drops
      /\ a.sizes = e.sizes /\ a.timer = e.timer /\ a.requests = e.requests
      /\ a.ended = e.ended /\ a.closing = e.closing /\ a.before = e.before
  BY <1>0, <1>5, <1>7 DEF Exports
<1>9. ASSUME NEW t \in Signals \ {s}
      PROVE  /\ Waiting(a, t) /\ Placed(a, t) /\ Apart(a, t) /\ Batched(a, t) /\ Parted(a, t)
             /\ Bounded(a, t)
  <2>1. Same(e, a, t)
    BY <1>7, <1>8 DEF Same
  <2>2. Bounded(a, t)
    BY <1>7, <1>8 DEF Bounded
  <2> QED
    BY <2>1, <2>2, SameKeeps DEF Good
<1>10. Gone(a, s) = g + d /\ Len(longer) <= counts[s]
  <2>1. Gone(a, s) = item - (Len(q) + 1 - d)
    BY <1>4, <1>7, <1>8 DEF Gone
  <2>2. item = e.count[s] + 1
    BY DEF item
  <2> HIDE DEF q
  <2>3. g = e.count[s] - Len(q) /\ Len(q) <= e.count[s] /\ d \in {0, 1}
    BY <1>3
  <2>4. Len(longer) = Len(q) + 1 - d /\ counts[s] = item
    BY <1>4, <1>7
  <2> QED
    <3>1. e.count[s] \in Nat /\ Len(q) \in Nat /\ d \in Nat
      BY <1>0, <1>2, <2>3
    <3>2. Gone(a, s) = (e.count[s] + 1) - (Len(q) + 1 - d)
      BY <2>1, <2>2
    <3>3. Gone(a, s) = (e.count[s] - Len(q)) + d
      BY <3>1, <3>2
    <3>4. Len(longer) <= e.count[s] + 1
      BY <2>3, <2>4, <3>1
    <3> QED
      BY <2>2, <2>3, <2>4, <3>3, <3>4
<1>11. Waiting(a, s)
  BY <1>4, <1>7, <1>8, <1>10 DEF Waiting
<1>12. Placed(a, s)
  <2>1. Sent(a, s) = Sent(e, s)
    BY <1>8 DEF Sent
  <2>2. /\ \A x \in Nat : x \in 1..g <=> x \in Sent(e, s) \/ x \in e.ended[s] \/ x \in e.dropped[s]
        /\ Sent(e, s) \cap e.ended[s] = {} /\ Sent(e, s) \cap e.dropped[s] = {}
        /\ e.ended[s] \cap e.dropped[s] = {}
        /\ e.ended[s] \subseteq Nat /\ Sent(e, s) \subseteq Nat
    BY <1>0 DEF Good, Placed, Exports, Sent, g
  <2>3. CASE full
    <3>1. d = 1 /\ lost = e.dropped[s] \cup {g + 1}
      BY <1>4, <2>3 DEF d
    <3>2. g + 1 \in Nat /\ g + 1 \notin 1..g /\ \A x \in Nat : x \in 1..(g + 1) <=> x \in 1..g \/ x = g + 1
      BY <1>3
    <3> HIDE DEF full
    <3> QED
      BY <1>7, <1>8, <1>10, <2>1, <2>2, <3>1, <3>2 DEF Placed
  <2>4. CASE ~full
    <3>1. d = 0 /\ lost = e.dropped[s] /\ g + 0 = g
      BY <1>3, <1>4, <2>4 DEF d
    <3> HIDE DEF full
    <3> QED
      BY <1>7, <1>8, <1>10, <2>1, <2>2, <3>1 DEF Placed
  <2> QED
    BY <2>3, <2>4
<1>13. Apart(a, s) /\ Batched(a, s)
  BY <1>8 DEF Good, Apart, Batched
<1>14. Parted(a, s)
  <2>1. e.before[s] \in Nat /\ (e.closing # "no" => e.before[s] <= g)
    BY <1>0 DEF Exports, Good, Parted, g
  <2> QED
    BY <1>3, <1>8, <1>10, <2>1 DEF Parted
<1>15. Good(a)
  BY <1>8, <1>9, <1>11, <1>12, <1>13, <1>14 DEF Good
<1>16. a.queue[s] = longer /\ a.dropped[s] = lost /\ a.sizes = e.sizes
  BY <1>7, <1>8
<1>17. Bounded(e, s)
  OBVIOUS
<1>18. CASE Len(longer) >= e.sizes.batch
  <2> DEFINE f == Taken(a, s, FALSE)
             n == IF Len(longer) < e.sizes.batch THEN Len(longer) ELSE e.sizes.batch
  <2>1. Exported(e, s) = f
    BY <1>1, <1>16, <1>18
  <2>2. /\ Good(f) /\ f.sizes = a.sizes /\ f.dropped = a.dropped /\ f.closing = a.closing
        /\ Len(f.queue[s]) = Len(longer) - n
        /\ \A t \in Signals \ {s} : f.queue[t] = a.queue[t]
    <3> DEFINE m == IF Len(a.queue[s]) < a.sizes.batch THEN Len(a.queue[s]) ELSE a.sizes.batch
    <3>1. /\ Good(f) /\ f.sizes = a.sizes /\ f.dropped = a.dropped /\ f.closing = a.closing
          /\ Len(f.queue[s]) = Len(a.queue[s]) - m
          /\ \A t \in Signals \ {s} : f.queue[t] = a.queue[t]
      BY <1>15, TakingIsGood
    <3>2. Len(a.queue[s]) - m = Len(longer) - n
      BY <1>16
    <3> HIDE DEF f, m, n
    <3> QED
      BY <1>16, <3>1, <3>2
  <2>3. Bounded(f, s)
    <3> HIDE DEF f, q
    <3>1. Len(longer) = Len(q) + 1 - d /\ Len(longer) \in Nat
      BY <1>4
    <3>2. CASE e.sizes.queue >= e.sizes.batch
      <4>1. Len(q) < e.sizes.batch /\ e.dropped[s] = {}
        BY <1>17, <3>2 DEF Bounded, q
      <4>2. ~full /\ d = 0
        BY <1>2, <3>2, <4>1 DEF d
      <4>3. lost = {}
        BY <1>4, <4>1, <4>2
      <4>4. Len(longer) - n = 0
        BY <1>2, <1>18, <3>1, <4>1, <4>2
      <4> QED
        BY <1>2, <1>16, <2>2, <3>2, <4>3, <4>4 DEF Bounded
    <3>3. CASE ~(e.sizes.queue >= e.sizes.batch)
      <4>1. Len(q) <= e.sizes.queue
        BY <1>17, <3>3 DEF Bounded, q
      <4>2. Len(longer) <= e.sizes.queue
        BY <1>2, <3>1, <4>1 DEF d
      <4> QED
        BY <1>2, <1>18, <3>1, <3>3, <4>2
    <3> QED
      BY <3>2, <3>3
  <2>4. ASSUME NEW t \in Signals \ {s} PROVE Bounded(f, t)
    BY <1>9, <2>2, <2>4 DEF Bounded
  <2> HIDE DEF f
  <2> QED
    BY <1>8, <2>1, <2>2, <2>3, <2>4
<1>19. CASE ~(Len(longer) >= e.sizes.batch)
  <2>1. Exported(e, s) = a
    BY <1>1, <1>16, <1>19
  <2>2. Bounded(a, s)
    <3> HIDE DEF q
    <3>1. Len(longer) = Len(q) + 1 - d /\ Len(longer) \in Nat
      BY <1>4
    <3>2. CASE e.sizes.queue >= e.sizes.batch
      <4>1. Len(q) < e.sizes.batch /\ e.dropped[s] = {}
        BY <1>17, <3>2 DEF Bounded, q
      <4>2. ~full
        BY <1>2, <3>2, <4>1
      <4>3. lost = {}
        BY <1>4, <4>1, <4>2
      <4> QED
        BY <1>2, <1>16, <1>19, <3>1, <3>2, <4>3 DEF Bounded
    <3>3. CASE ~(e.sizes.queue >= e.sizes.batch)
      <4>1. Len(q) <= e.sizes.queue
        BY <1>17, <3>3 DEF Bounded, q
      <4>2. Len(longer) <= e.sizes.queue
        BY <1>2, <3>1, <4>1 DEF d
      <4> QED
        BY <1>16, <3>3, <4>2 DEF Bounded
    <3> QED
      BY <3>2, <3>3
  <2> QED
    BY <1>8, <1>9, <1>15, <2>1, <2>2
<1> QED
  BY <1>18, <1>19

ExportInv == Good(export) /\ \A s \in Signals : Bounded(export, s)

\* The metric points of one call are recorded one after the other.
AfterStep(e, g, k) == IF k = 0 THEN e ELSE Exported(g[k - 1], "metric")
Afters(e, n) == CHOOSE g : g = [k \in 0..n |-> AfterStep(e, g, k)]

LEMMA AftersExist ==
  ASSUME NEW e, NEW n \in Nat
  PROVE  Afters(e, n) = [k \in 0..n |-> AfterStep(e, Afters(e, n), k)]
<1> DEFINE Fits(g, m) == g = [k \in 0..m |-> AfterStep(e, g, k)]
           N == {m \in Nat : \E g : Fits(g, m)}
<1>1. 0 \in N
  <2> DEFINE g == [k \in 0..0 |-> e]
  <2>1. \A k \in 0..0 : AfterStep(e, g, k) = e
    BY DEF AfterStep
  <2>2. Fits(g, 0)
    BY <2>1
  <2> QED
    BY <2>2
<1>2. ASSUME NEW m \in Nat, m \in N
      PROVE  m + 1 \in N
  <2>1. PICK g : Fits(g, m)
    BY <1>2
  <2> DEFINE h == [k \in 0..(m + 1) |-> AfterStep(e, g, k)]
  <2>2. ASSUME NEW k \in 0..(m + 1)
        PROVE  h[k] = AfterStep(e, h, k)
    <3>1. CASE k = 0
      BY <3>1 DEF AfterStep
    <3>2. CASE k # 0
      <4>1. k - 1 \in 0..m /\ k - 1 \in 0..(m + 1)
        BY <3>2
      <4>2. h[k - 1] = AfterStep(e, g, k - 1) /\ h[k] = AfterStep(e, g, k)
        BY <4>1
      <4>3. g[k - 1] = AfterStep(e, g, k - 1)
        BY <2>1, <4>1
      <4> HIDE DEF h
      <4> QED
        BY <3>2, <4>2, <4>3 DEF AfterStep
    <3> QED
      BY <3>1, <3>2
  <2>3. Fits(h, m + 1)
    <3> DEFINE f == [k \in 0..(m + 1) |-> AfterStep(e, h, k)]
    <3>1. \A k \in 0..(m + 1) : h[k] = f[k]
      BY <2>2
    <3> QED
      BY <3>1
  <2> HIDE DEF h, Fits
  <2> QED
    BY <2>3
<1> HIDE DEF N
<1>3. Nat \subseteq N
  BY <1>1, <1>2, Naturals
<1>4. \E g : Fits(g, n)
  BY <1>3 DEF N
<1> QED
  BY <1>4 DEF Afters

LEMMA MetricsKeep ==
  ASSUME ExportInv, NEW n \in Nat, RecordMetrics(n)
  PROVE  Good(export') /\ \A s \in Signals : Bounded(export', s)
<1> DEFINE A == Afters(export, n)
           N == {k \in Nat : k <= n => Good(A[k]) /\ \A s \in Signals : Bounded(A[k], s)}
<1>1. export' = A[n]
  BY DEF RecordMetrics, Afters, AfterStep
<1>2. A = [k \in 0..n |-> AfterStep(export, A, k)]
  BY AftersExist
<1> HIDE DEF A
<1>3. 0 \in N
  <2>1. A[0] = export
    BY <1>2 DEF AfterStep
  <2> QED
    BY <2>1 DEF ExportInv
<1>4. ASSUME NEW k \in Nat, k \in N
      PROVE  k + 1 \in N
  <2>1. SUFFICES ASSUME k + 1 <= n
                 PROVE  Good(A[k + 1]) /\ \A s \in Signals : Bounded(A[k + 1], s)
    OBVIOUS
  <2>2. k + 1 \in 0..n /\ k + 1 # 0 /\ (k + 1) - 1 = k /\ k <= n
    BY <2>1
  <2>3. A[k + 1] = Exported(A[k], "metric")
    BY <1>2, <2>2 DEF AfterStep
  <2>4. Good(A[k]) /\ \A s \in Signals : Bounded(A[k], s)
    BY <1>4, <2>2
  <2> QED
    BY <2>3, <2>4, ExportedIsGood DEF Signals
<1> HIDE DEF N
<1>5. n \in N
  BY <1>3, <1>4, Naturals
<1> QED
  BY <1>1, <1>5 DEF N

\* Both queues are emptied when no batch is left behind by the other.
LEMMA FlushedIsGood ==
  ASSUME NEW e, Good(e), \A s \in Signals : Bounded(e, s), NEW last \in BOOLEAN
  PROVE  LET f == Flushed(e, last)
         IN  /\ Good(f) /\ \A s \in Signals : Bounded(f, s)
             /\ f.count = e.count /\ \A s \in Signals : Len(f.queue[s]) = 0
<1> DEFINE d == Taken(e, "span", last)
           f == Taken(d, "metric", last)
           n(g, s) == IF Len(g.queue[s]) < g.sizes.batch THEN Len(g.queue[s]) ELSE g.sizes.batch
<1>1. /\ Good(d) /\ d.sizes = e.sizes /\ d.count = e.count /\ d.dropped = e.dropped
      /\ Len(d.queue["span"]) = Len(e.queue["span"]) - n(e, "span")
      /\ d.queue["metric"] = e.queue["metric"]
  BY TakingIsGood DEF Signals
<1> HIDE DEF d
<1>2. /\ Good(f) /\ f.sizes = d.sizes /\ f.count = d.count /\ f.dropped = d.dropped
      /\ Len(f.queue["metric"]) = Len(d.queue["metric"]) - n(d, "metric")
      /\ f.queue["span"] = d.queue["span"]
  BY <1>1, TakingIsGood DEF Signals
<1>3. ASSUME NEW s \in Signals
      PROVE  /\ Len(e.queue[s]) \in Nat /\ Len(e.queue[s]) <= e.sizes.batch
             /\ e.sizes.batch \in Nat /\ e.sizes.batch > 0
             /\ e.sizes.queue \in Nat /\ e.sizes.queue > 0
  <2>1. e.queue[s] \in Seq(Nat) /\ e.sizes \in [batch : Nat \ {0}, queue : Nat \ {0}]
    BY DEF Good, Exports
  <2>2. Len(e.queue[s]) \in Nat /\ e.sizes.batch \in Nat /\ e.sizes.batch > 0
        /\ e.sizes.queue \in Nat /\ e.sizes.queue > 0
    BY <2>1
  <2> QED
    BY <2>2 DEF Bounded
<1> HIDE DEF f
<1>4. Len(f.queue["span"]) = 0
  BY <1>1, <1>2, <1>3 DEF Signals
<1>5. Len(f.queue["metric"]) = 0
  BY <1>1, <1>2, <1>3 DEF Signals
<1>6. \A s \in Signals : Len(f.queue[s]) = 0
  BY <1>4, <1>5 DEF Signals
<1>7. \A s \in Signals : Bounded(f, s)
  BY <1>1, <1>2, <1>3, <1>6 DEF Bounded
<1>8. Flushed(e, last) = f
  BY DEF Flushed, d, f
<1> QED
  BY <1>1, <1>2, <1>6, <1>7, <1>8

LEMMA ExportStarts == ExportInit => ExportInv
<1> SUFFICES ASSUME ExportInit PROVE ExportInv
  OBVIOUS
<1>1. PICK sizes \in ExporterSizes, timer \in BOOLEAN :
        export = [sizes |-> sizes, timer |-> timer,
                  queue |-> [s \in Signals |-> <<>>], count |-> [s \in Signals |-> 0],
                  dropped |-> [s \in Signals |-> {}], requests |-> {}, ended |-> [s \in Signals |-> {}],
                  closing |-> "no", before |-> [s \in Signals |-> 0]]
  BY DEF ExportInit
<1>2. sizes \in [batch : Nat \ {0}, queue : Nat \ {0}]
  BY ExportConstants
<1>3. export \in Exports
  BY <1>1, <1>2 DEF Exports
<1>4. /\ export.requests = {} /\ export.closing = "no" /\ export.sizes = sizes
      /\ \A s \in Signals : /\ export.queue[s] = <<>> /\ export.count[s] = 0
                            /\ export.ended[s] = {} /\ export.dropped[s] = {}
  BY <1>1
<1>5. \A s \in Signals : Gone(export, s) = 0 /\ Sent(export, s) = {}
  BY <1>4 DEF Gone, Sent
<1>6. ASSUME NEW s \in Signals
      PROVE  /\ Waiting(export, s) /\ Placed(export, s) /\ Apart(export, s)
             /\ Batched(export, s) /\ Parted(export, s) /\ Bounded(export, s)
  BY <1>2, <1>4, <1>5 DEF Waiting, Placed, Apart, Batched, Parted, Bounded
<1> QED
  BY <1>3, <1>6 DEF ExportInv, Good

LEMMA ExportSteps == ExportInv /\ [ExportNext]_export => ExportInv'
<1> SUFFICES ASSUME ExportInv, [ExportNext]_export PROVE ExportInv'
  OBVIOUS
<1>0. Good(export) /\ export \in Exports /\ \A s \in Signals : Bounded(export, s)
  BY DEF ExportInv, Good
<1>1. CASE ExportSpan
  <2>1. export' = Exported(export, "span")
    BY <1>1 DEF ExportSpan
  <2> QED
    BY <1>0, <2>1, ExportedIsGood DEF ExportInv, Signals
<1>2. ASSUME NEW n \in PerCall, RecordMetrics(n)
      PROVE  ExportInv'
  BY <1>2, MetricsKeep, ExportConstants DEF ExportInv
<1>3. CASE FlushTimer
  <2>1. export' = Flushed(export, FALSE)
    BY <1>3 DEF FlushTimer
  <2> QED
    BY <1>0, <2>1, FlushedIsGood DEF ExportInv
<1>4. CASE Shutdown
  <2> DEFINE f == Flushed(export, TRUE)
  <2>1. /\ Good(f) /\ \A s \in Signals : Bounded(f, s)
        /\ f.count = export.count /\ \A s \in Signals : Len(f.queue[s]) = 0
    BY <1>0, FlushedIsGood
  <2>2. export' = [f EXCEPT !.timer = FALSE, !.closing = "flushing", !.before = export.count]
    BY <1>4 DEF Shutdown
  <2> HIDE DEF f
  <2>3. f \in Exports
    BY <2>1 DEF Good
  <2>4. /\ export' \in Exports /\ export'.queue = f.queue /\ export'.count = f.count
        /\ export'.dropped = f.dropped /\ export'.ended = f.ended /\ export'.requests = f.requests
        /\ export'.sizes = f.sizes /\ export'.before = export.count
    BY <1>0, <2>2, <2>3 DEF Exports
  <2>5. ASSUME NEW s \in Signals
        PROVE  /\ Waiting(export', s) /\ Placed(export', s) /\ Apart(export', s)
               /\ Batched(export', s) /\ Parted(export', s) /\ Bounded(export', s)
    <3>1. Gone(export', s) = Gone(f, s) /\ Sent(export', s) = Sent(f, s)
      BY <2>4 DEF Gone, Sent
    <3>2. Gone(f, s) = export.count[s] /\ export.count[s] \in Nat
      BY <1>0, <2>1 DEF Gone, Exports
    <3>3. Waiting(export', s) /\ Placed(export', s) /\ Apart(export', s) /\ Batched(export', s)
          /\ Bounded(export', s)
      <4>1. Waiting(f, s) /\ Placed(f, s) /\ Apart(f, s) /\ Batched(f, s)
        BY <2>1 DEF Good
      <4>2. Waiting(export', s) /\ Placed(export', s)
        BY <2>4, <3>1, <4>1 DEF Waiting, Placed
      <4>3. Apart(export', s) /\ Batched(export', s) /\ Bounded(export', s)
        BY <2>1, <2>4, <4>1 DEF Apart, Batched, Bounded
      <4> QED
        BY <4>2, <4>3
    <3>4. Parted(export', s)
      BY <2>4, <3>1, <3>2 DEF Parted
    <3> QED
      BY <3>3, <3>4
  <2> QED
    BY <2>4, <2>5 DEF ExportInv, Good
<1>5. CASE ShutdownReturns
  <2>1. export' = [export EXCEPT !.closing = "done"] /\ export.closing = "flushing"
    BY <1>5 DEF ShutdownReturns
  <2>2. /\ export' \in Exports /\ export'.queue = export.queue /\ export'.count = export.count
        /\ export'.dropped = export.dropped /\ export'.ended = export.ended
        /\ export'.requests = export.requests
        /\ export'.sizes = export.sizes /\ export'.before = export.before
    BY <1>0, <2>1 DEF Exports
  <2>3. ASSUME NEW s \in Signals
        PROVE  /\ Waiting(export', s) /\ Placed(export', s) /\ Apart(export', s)
               /\ Batched(export', s) /\ Parted(export', s) /\ Bounded(export', s)
    <3>1. Gone(export', s) = Gone(export, s) /\ Sent(export', s) = Sent(export, s)
      BY <2>2 DEF Gone, Sent
    <3> QED
      BY <1>0, <2>1, <2>2, <3>1 DEF Waiting, Placed, Apart, Batched, Parted, Bounded, Good
  <2> QED
    BY <2>2, <2>3 DEF ExportInv, Good
<1>6. ASSUME NEW r \in export.requests, RequestEnds(r)
      PROVE  ExportInv'
  <2> DEFINE t == r.signal
             ends == [export.ended EXCEPT ![t] = @ \cup Items(r.items)]
             others == export.requests \ {r}
  <2>1. r \in Bundles /\ t \in Signals /\ Items(r.items) \subseteq Nat
    BY <1>0 DEF Exports, Bundles, Items
  <2>2. export' = [export EXCEPT !.requests = others, !.ended = ends]
    BY <1>0, <1>6, <2>1 DEF RequestEnds, Exports, Items
  <2>3. /\ ends \in [Signals -> SUBSET Nat] /\ ends[t] = export.ended[t] \cup Items(r.items)
        /\ \A s \in Signals \ {t} : ends[s] = export.ended[s]
        /\ others \in SUBSET Bundles
    BY <1>0, <2>1 DEF Exports
  <2>4. \A q : q \in others <=> q \in export.requests /\ q # r
    OBVIOUS
  <2> HIDE DEF ends, others
  <2>5. /\ export' \in Exports /\ export'.queue = export.queue /\ export'.count = export.count
        /\ export'.dropped = export.dropped /\ export'.ended = ends
        /\ export'.requests = others /\ export'.closing = export.closing
        /\ export'.sizes = export.sizes /\ export'.before = export.before
    BY <1>0, <2>2, <2>3 DEF Exports
  <2>6. \A s \in Signals : Bounded(export', s)
    BY <1>0, <2>5 DEF Bounded
  <2>7. ASSUME NEW s \in Signals \ {t}
        PROVE  /\ Waiting(export', s) /\ Placed(export', s) /\ Apart(export', s)
               /\ Batched(export', s) /\ Parted(export', s)
    <3>1. Same(export, export', s)
      BY <2>3, <2>4, <2>5 DEF Same
    <3> QED
      BY <1>0, <3>1, SameKeeps DEF Good
  <2>8. Gone(export', t) = Gone(export, t)
    BY <2>5 DEF Gone
  <2>9. Waiting(export', t) /\ Parted(export', t)
    BY <1>0, <2>1, <2>5, <2>8 DEF Waiting, Parted, Good
  <2>10. Apart(export', t) /\ Batched(export', t)
    BY <1>0, <2>1, <2>4, <2>5 DEF Apart, Batched, Good
  <2>11. Placed(export', t)
    <3>1. Placed(export, t) /\ Apart(export, t)
      BY <1>0, <2>1 DEF Good
    <3>2. \A x : x \in Sent(export, t) <=> x \in Sent(export', t) \/ x \in Items(r.items)
      BY <2>1, <2>4, <2>5 DEF Sent
    <3>3. Sent(export', t) \cap Items(r.items) = {}
      BY <2>4, <2>5, <3>1 DEF Sent, Apart
    <3> QED
      BY <2>3, <2>5, <2>8, <3>1, <3>2, <3>3 DEF Placed
  <2> QED
    BY <2>5, <2>6, <2>7, <2>9, <2>10, <2>11 DEF ExportInv, Good
<1>7. CASE UNCHANGED export
  BY <1>7 DEF ExportInv
<1> QED
  BY <1>1, <1>2, <1>3, <1>4, <1>5, <1>6, <1>7 DEF ExportNext

LEMMA ExportIs == ExportInv => ExportHolds
<1> SUFFICES ASSUME ExportInv PROVE ExportHolds
  OBVIOUS
<1>0. Good(export) /\ export \in Exports /\ \A s \in Signals : Bounded(export, s)
  BY DEF ExportInv, Good
<1>1. EachOnce
  <2> SUFFICES ASSUME NEW s \in Signals
               PROVE  LET waits == export.queue[s]
                          places == <<Items(waits), UNION {Items(r.items) : r \in Carried(s)},
                                      export.ended[s], export.dropped[s]>>
                      IN  /\ 1..export.count[s] = UNION Items(places)
                          /\ \A i, j \in 1..4 : i # j => places[i] \cap places[j] = {}
                          /\ \A r, q \in Carried(s) : r # q => Items(r.items) \cap Items(q.items) = {}
                          /\ \A k \in DOMAIN waits : waits[k] = export.count[s] - Len(waits) + k
    BY DEF EachOnce
  <2> DEFINE q == export.queue[s]
             W == Items(q)
             U == UNION {Items(r.items) : r \in Carried(s)}
             places == <<W, U, export.ended[s], export.dropped[s]>>
             g == Gone(export, s)
  <2>1. q \in Seq(Nat) /\ export.count[s] \in Nat /\ Len(q) \in Nat /\ DOMAIN q = 1..Len(q)
        /\ export.ended[s] \subseteq Nat /\ export.dropped[s] \subseteq Nat
    BY <1>0 DEF Exports
  <2>2. U = Sent(export, s)
    <3>1. \A r \in export.requests : Items(r.items) \subseteq Nat
      BY <1>0 DEF Exports, Bundles, Items
    <3> QED
      BY <3>1 DEF Sent, Carried
  <2>3. /\ g = export.count[s] - Len(q) /\ Len(q) <= export.count[s]
        /\ \A k \in 1..Len(q) : q[k] = g + k
    BY <1>0 DEF Good, Waiting, Gone
  <2>4. g \in Nat /\ g + Len(q) = export.count[s]
    <3> HIDE DEF g, q
    <3> QED
      BY <2>1, <2>3
  <2>5. \A x : x \in W <=> x \in (g + 1)..export.count[s]
    <3>1. W = {q[k] : k \in 1..Len(q)}
      BY <2>1 DEF Items
    <3> HIDE DEF g, q, W
    <3>2. \A k \in 1..Len(q) : g + k \in (g + 1)..export.count[s]
      BY <2>1, <2>4
    <3>3. \A x \in (g + 1)..export.count[s] : x - g \in 1..Len(q) /\ x = g + (x - g)
      BY <2>1, <2>4
    <3> QED
      <4>1. ASSUME NEW x \in W PROVE x \in (g + 1)..export.count[s]
        <5>1. PICK k \in 1..Len(q) : x = q[k]
          BY <3>1
        <5> QED
          BY <2>3, <3>2, <5>1
      <4>2. ASSUME NEW x \in (g + 1)..export.count[s] PROVE x \in W
        <5>1. x - g \in 1..Len(q) /\ x = q[x - g]
          BY <2>3, <3>3
        <5> QED
          BY <3>1, <5>1
      <4> QED
        BY <4>1, <4>2
  <2>6. /\ \A x \in Nat : x \in 1..g <=> x \in U \/ x \in export.ended[s] \/ x \in export.dropped[s]
        /\ U \cap export.ended[s] = {} /\ U \cap export.dropped[s] = {}
        /\ export.ended[s] \cap export.dropped[s] = {} /\ U \subseteq Nat
    <3> HIDE DEF U, g
    <3> QED
      BY <1>0, <2>2 DEF Good, Placed, Sent, g
  <2> HIDE DEF W, U, g, q
  <2>7. \A x : x \in 1..export.count[s] <=> x \in W \/ x \in U \/ x \in export.ended[s] \/ x \in export.dropped[s]
    <3>1. \A x \in Nat : x \in 1..export.count[s] <=> x \in 1..g \/ x \in (g + 1)..export.count[s]
      BY <2>1, <2>4
    <3>2. \A x : x \in 1..export.count[s] \/ x \in (g + 1)..export.count[s] => x \in Nat
      BY <2>4
    <3> QED
      BY <2>1, <2>5, <2>6, <3>1, <3>2
  <2>8. W \cap U = {} /\ W \cap export.ended[s] = {} /\ W \cap export.dropped[s] = {}
    <3>1. \A x : x \in (g + 1)..export.count[s] => x \in Nat /\ x \notin 1..g
      BY <2>4
    <3> QED
      BY <2>5, <2>6, <3>1
  <2>9. 1..export.count[s] = UNION Items(places)
    <3>1. Items(places) = {W, U, export.ended[s], export.dropped[s]}
      BY DEF Items
    <3> HIDE DEF places
    <3> QED
      BY <2>7, <3>1
  <2>10. \A i, j \in 1..4 : i # j => places[i] \cap places[j] = {}
    <3>1. places[1] = W /\ places[2] = U /\ places[3] = export.ended[s] /\ places[4] = export.dropped[s]
      OBVIOUS
    <3> HIDE DEF places
    <3>2. \A i \in 1..4 : i \in {1, 2, 3, 4}
      OBVIOUS
    <3> QED
      BY <2>6, <2>8, <3>1, <3>2
  <2>11. \A r, p \in Carried(s) : r # p => Items(r.items) \cap Items(p.items) = {}
    BY <1>0 DEF Good, Apart, Carried
  <2>12. \A k \in DOMAIN q : q[k] = export.count[s] - Len(q) + k
    BY <2>1, <2>3
  <2> QED
    BY <2>9, <2>10, <2>11, <2>12 DEF W, U, q
<1>2. BoundedExport
  <2>1. \A r \in export.requests : Len(r.items) \in 1..export.sizes.batch
    <3>1. \A r \in export.requests : r.signal \in Signals
      BY <1>0 DEF Exports, Bundles
    <3> QED
      BY <1>0, <3>1 DEF Good, Batched
  <2> QED
    BY <1>0, <2>1 DEF BoundedExport, Bounded
<1>3. NothingLeftBehind
  <2> SUFFICES ASSUME export.closing # "no", NEW s \in Signals, NEW k \in DOMAIN export.queue[s],
                      export.queue[s][k] \in 1..export.before[s]
               PROVE  FALSE
    BY DEF NothingLeftBehind, Items
  <2>1. export.queue[s] \in Seq(Nat) /\ export.count[s] \in Nat /\ export.before[s] \in Nat
    BY <1>0 DEF Exports
  <2>2. k \in 1..Len(export.queue[s]) /\ Len(export.queue[s]) \in Nat
    BY <2>1
  <2> DEFINE g == Gone(export, s)
             x == export.queue[s][k]
  <2>3. x = g + k /\ export.before[s] <= g
    BY <1>0, <2>2 DEF Good, Waiting, Parted
  <2>4. g \in Int
    BY <2>1, <2>2 DEF Gone
  <2>5. x \in 1..export.before[s]
    OBVIOUS
  <2> HIDE DEF g, x
  <2> QED
    BY <2>1, <2>2, <2>3, <2>4, <2>5
<1> QED
  BY <1>1, <1>2, <1>3 DEF ExportHolds

\* For any sizes of batches and queues and any number of records: each is in
\* one place, and waits in order; a queue with room for a batch drops nothing
\* and never holds one; and shutdown leaves nothing behind.
THEOREM ExportCorrect == ExportSpec => []ExportHolds
BY ExportStarts, ExportSteps, ExportIs, PTL DEF ExportSpec
=============================================================================
