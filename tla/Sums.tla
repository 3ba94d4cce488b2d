-------------------------------- MODULE Sums --------------------------------
(***************************************************************************)
(* Facts about sums over finite sets, for the proofs about money: totals   *)
(* of refills, of journal entries, of rows.  The models write a sum with   *)
(* MapThenSumSet of the community modules, which takes an operator; here   *)
(* what is added up is a function, so that the facts can be used.          *)
(*                                                                         *)
(* The sums rest on two induction principles over sets, without an operator    *)
(* parameter: the set of what is to be shown takes its place.  Both follow *)
(* from the well-foundedness of the strict subset relation.                *)
(*                                                                         *)
(* The last section is about lists: what is in one that grows or shrinks.  *)
(***************************************************************************)
EXTENDS Integers, Sequences, FiniteSetTheorems, FiniteSetsExt, TLAPS

\* The element that a fold takes first.
First(s) == CHOOSE x \in s : TRUE

\* g adds up f over the subsets of S, one element after the other.
AddsUp(g, f, S) ==
    g = [s \in SUBSET S |-> IF s = {} THEN 0 ELSE f[First(s)] + g[s \ {First(s)}]]

\* The same, where the sums exist.
SumOf(g, f, S) == IsFiniteSet(S) /\ (\A x \in S : f[x] \in Int) /\ AddsUp(g, f, S)

\* The sum over T is f at x and the sum over the rest.
Takes(g, f, T, x) == g[T] = f[x] + g[T \ {x}]

\* e differs from f at most at x.
DiffersAt(f, e, S, x) ==
    /\ x \in S /\ e[x] \in Int
    /\ \A y \in S : f[y] \in Int
    /\ \A y \in S \ {x} : e[y] = f[y]

\* The sum of f over S.
Total(f, S) == MapThenSumSet(LAMBDA x : f[x], S)

-----------------------------------------------------------------------------
(* Induction *)

\* Induction over a finite set: what holds of {} and is kept by one element more
\* holds of the set.
LEMMA SetInduction ==
    ASSUME NEW S, IsFiniteSet(S), NEW F, {} \in F,
           \A T \in SUBSET S : \A x \in S \ T : T \in F => T \cup {x} \in F
    PROVE  S \in F
<1>. DEFINE Bad == {T \in SUBSET S : T \notin F}
            Smaller == StrictSubsetOrdering(S)
<1>1. SUFFICES ASSUME Bad # {} PROVE FALSE
  OBVIOUS
<1>2. IsWellFoundedOn(Smaller, SUBSET S)
  BY FS_StrictSubsetOrderingWellFounded, FS_FiniteSubsetsOfFinite
<1>3. \A T, U \in SUBSET S : <<T, U>> \in Smaller <=> T \subseteq U /\ T # U
  BY DEF StrictSubsetOrdering
<1>4. PICK T \in Bad : \A U \in Bad : ~(<<U, T>> \in Smaller)
  <2>. HIDE DEF Smaller
  <2>1. Bad \subseteq SUBSET S
    OBVIOUS
  <2>. HIDE DEF Bad
  <2>. QED  BY <1>1, <1>2, <2>1, WFMin
<1>5. PICK x \in T : TRUE
  OBVIOUS
<1>6. T \ {x} \in F
  <2>1. T \ {x} \in SUBSET S /\ T \ {x} # T /\ T \ {x} \subseteq T
    BY <1>5
  <2>2. T \ {x} \notin Bad
    <3>1. T \in SUBSET S
      OBVIOUS
    <3>. HIDE DEF Smaller, Bad
    <3>. QED  BY <1>3, <1>4, <2>1, <3>1
  <2>. QED  BY <2>1, <2>2
<1>7. (T \ {x}) \cup {x} = T
  BY <1>5
<1>. QED  BY <1>5, <1>6, <1>7

\* The positions of a list are finitely many.
LEMMA PositionsFinite == ASSUME NEW n \in Nat PROVE IsFiniteSet(1..n)
BY FS_Interval

\* Induction over the natural numbers.
LEMMA NatInduct ==
    ASSUME NEW F, 0 \in F, \A n \in Nat : n \in F => n + 1 \in F
    PROVE  Nat \subseteq F
<1>. SUFFICES ASSUME NEW n \in Nat PROVE n \in F
  OBVIOUS
<1>. DEFINE G == {T \in SUBSET (1..n) : Cardinality(T) \in F}
<1>1. IsFiniteSet(1..n) /\ Cardinality(1..n) = n
  BY FS_Interval
<1>2. {} \in G
  BY FS_EmptySet
<1>3. ASSUME NEW T \in SUBSET (1..n), NEW x \in (1..n) \ T, T \in G
      PROVE  T \cup {x} \in G
  <2>1. IsFiniteSet(T)
    BY <1>1, FS_Subset
  <2>2. Cardinality(T \cup {x}) = Cardinality(T) + 1 /\ Cardinality(T) \in Nat
    BY <2>1, FS_AddElement, FS_CardinalityType
  <2>. QED  BY <1>3, <2>2
<1>4. 1..n \in G
  <2>. HIDE DEF G
  <2>. QED  BY <1>1, <1>2, <1>3, SetInduction
<1>. QED  BY <1>1, <1>4

-----------------------------------------------------------------------------
(* Sums *)

\* The first element is one of the set.
LEMMA FirstIsIn ==
    ASSUME NEW s, s # {}
    PROVE  First(s) \in s
BY DEF First

\* The recursive sums over the subsets of a finite set exist.
LEMMA SumExists ==
    ASSUME NEW S, IsFiniteSet(S), NEW f
    PROVE  \E g : AddsUp(g, f, S)
<1>. DEFINE D(n) == {s \in SUBSET S : Cardinality(s) <= n}
            Eq(g, s) == g[s] = IF s = {} THEN 0 ELSE f[First(s)] + g[s \ {First(s)}]
            F == {n \in Nat : \E g : \A s \in D(n) : Eq(g, s)}
<1>0. \A s \in SUBSET S : IsFiniteSet(s) /\ Cardinality(s) \in Nat
                          /\ Cardinality(s) <= Cardinality(S)
  BY FS_Subset, FS_CardinalityType
<1>1. 0 \in F
  <2>. DEFINE g == [s \in SUBSET S |-> 0]
  <2>1. \A s \in D(0) : s = {}
    BY <1>0, FS_EmptySet
  <2>2. \A s \in D(0) : Eq(g, s)
    BY <2>1
  <2>. QED  BY <2>2
<1>2. ASSUME NEW n \in Nat, n \in F PROVE n + 1 \in F
  <2>1. PICK g : \A s \in D(n) : Eq(g, s)
    BY <1>2
  <2>. DEFINE h == [s \in SUBSET S |-> IF s = {} THEN 0 ELSE f[First(s)] + g[s \ {First(s)}]]
  <2>2. \A s \in D(n) : h[s] = g[s]
    BY <2>1
  <2>3. ASSUME NEW s \in D(n + 1) PROVE Eq(h, s)
    <3>1. CASE s = {}
      BY <3>1
    <3>2. CASE s # {}
      <4>1. First(s) \in s
        BY <3>2, FirstIsIn
      <4>2. s \ {First(s)} \in SUBSET S /\ Cardinality(s \ {First(s)}) <= n
        BY <1>0, <2>3, <4>1, FS_RemoveElement
      <4>3. h[s \ {First(s)}] = g[s \ {First(s)}]
        BY <2>2, <4>2
      <4>. QED  BY <3>2, <4>3
    <3>. QED  BY <3>1, <3>2
  <2>4. \E k : \A s \in D(n + 1) : Eq(k, s)
    <3>. HIDE DEF h
    <3>. QED  BY <2>3
  <2>. HIDE DEF Eq, D
  <2>. QED  BY <2>4
<1>3. Cardinality(S) \in F
  <2>. HIDE DEF F
  <2>. QED  BY <1>0, <1>1, <1>2, NatInduct
<1>4. PICK g : \A s \in D(Cardinality(S)) : Eq(g, s)
  BY <1>3
<1>5. \A s \in SUBSET S : Eq(g, s)
  BY <1>0, <1>4
<1>. DEFINE h == [s \in SUBSET S |-> g[s]]
<1>6. ASSUME NEW s \in SUBSET S
      PROVE  h[s] = IF s = {} THEN 0 ELSE f[First(s)] + h[s \ {First(s)}]
  <2>1. s \ {First(s)} \in SUBSET S
    OBVIOUS
  <2>. QED  BY <1>5, <2>1
<1>7. AddsUp(h, f, S)
  <2>1. h = [s \in SUBSET S |-> h[s]]
    OBVIOUS
  <2>. HIDE DEF h
  <2>. QED  BY <1>6, <2>1 DEF AddsUp
<1>. QED  BY <1>7

\* What the recursion says: the empty sum, and one element taken.
LEMMA AddsUpStep ==
    ASSUME NEW S, NEW f, NEW g, AddsUp(g, f, S)
    PROVE  /\ g[{}] = 0
           /\ \A s \in SUBSET S : s # {} => \E z \in s : g[s] = f[z] + g[s \ {z}]
<1>1. \A s \in SUBSET S : g[s] = IF s = {} THEN 0 ELSE f[First(s)] + g[s \ {First(s)}]
  BY DEF AddsUp
<1>. QED  BY <1>1, FirstIsIn

\* A sum of integers is an integer.
LEMMA SumType ==
    ASSUME NEW S, NEW f, NEW g, SumOf(g, f, S),
           NEW T \in SUBSET S
    PROVE  g[T] \in Int
<1>. DEFINE F == {n \in Nat : \A s \in SUBSET S : Cardinality(s) <= n => g[s] \in Int}
<1>0. \A s \in SUBSET S : IsFiniteSet(s) /\ Cardinality(s) \in Nat
  BY FS_Subset, FS_CardinalityType DEF SumOf
<1>1. g[{}] = 0 /\ \A s \in SUBSET S : s # {} => \E z \in s : g[s] = f[z] + g[s \ {z}]
  BY AddsUpStep DEF SumOf
<1>2. 0 \in F
  <2>1. \A s \in SUBSET S : Cardinality(s) <= 0 => s = {}
    BY <1>0, FS_EmptySet
  <2>2. \A s \in SUBSET S : Cardinality(s) <= 0 => g[s] = 0
    BY <1>1, <2>1
  <2>. QED  BY <2>2
<1>3. ASSUME NEW n \in Nat, n \in F PROVE n + 1 \in F
  <2>1. ASSUME NEW s \in SUBSET S, Cardinality(s) <= n + 1 PROVE g[s] \in Int
    <3>1. CASE s = {}
      BY <1>1, <3>1
    <3>2. CASE s # {}
      <4>1. PICK z \in s : g[s] = f[z] + g[s \ {z}]
        BY <1>1, <3>2
      <4>2. s \ {z} \in SUBSET S /\ Cardinality(s \ {z}) <= n
        BY <1>0, <2>1, FS_RemoveElement
      <4>3. g[s \ {z}] \in Int /\ f[z] \in Int
        BY <1>3, <4>2 DEF SumOf
      <4>. QED  BY <4>1, <4>3
    <3>. QED  BY <3>1, <3>2
  <2>. QED  BY <2>1
<1>4. Cardinality(T) \in F
  <2>. HIDE DEF F
  <2>. QED  BY <1>0, <1>2, <1>3, NatInduct
<1>. QED  BY <1>0, <1>4

\* The order in which the elements are taken does not matter.
LEMMA SumStep ==
    ASSUME NEW S, NEW f, NEW g, SumOf(g, f, S)
    PROVE  \A T \in SUBSET S : \A x \in T : Takes(g, f, T, x)
<1>. SUFFICES ASSUME NEW T \in SUBSET S, NEW x \in T
              PROVE  g[T] = f[x] + g[T \ {x}]
  BY DEF Takes
<1>. DEFINE F == {n \in Nat : \A s \in SUBSET S : Cardinality(s) <= n =>
                                \A y \in s : g[s] = f[y] + g[s \ {y}]}
<1>0. \A s \in SUBSET S : IsFiniteSet(s) /\ Cardinality(s) \in Nat
  BY FS_Subset, FS_CardinalityType DEF SumOf
<1>1. g[{}] = 0 /\ \A s \in SUBSET S : s # {} => \E z \in s : g[s] = f[z] + g[s \ {z}]
  BY AddsUpStep DEF SumOf
<1>2. 0 \in F
  BY <1>0, FS_EmptySet
<1>3. ASSUME NEW n \in Nat, n \in F PROVE n + 1 \in F
  <2>1. ASSUME NEW s \in SUBSET S, Cardinality(s) <= n + 1, NEW y \in s
        PROVE  g[s] = f[y] + g[s \ {y}]
    <3>0. PICK z \in s : g[s] = f[z] + g[s \ {z}]
      BY <1>1
    <3>1. CASE y = z
      BY <3>0, <3>1
    <3>2. CASE y # z
      <4>1. \A x1 \in s : s \ {x1} \in SUBSET S /\ Cardinality(s \ {x1}) <= n
        BY <1>0, <2>1, FS_RemoveElement
      <4>2. g[s \ {z}] = f[y] + g[(s \ {z}) \ {y}]
        BY <1>3, <3>2, <4>1
      <4>3. g[s \ {y}] = f[z] + g[(s \ {y}) \ {z}]
        BY <1>3, <3>0, <3>2, <4>1
      <4>4. (s \ {z}) \ {y} = (s \ {y}) \ {z} /\ (s \ {y}) \ {z} \in SUBSET S
        OBVIOUS
      <4>5. f[y] \in Int /\ f[z] \in Int /\ g[(s \ {y}) \ {z}] \in Int
        <5>1. g[(s \ {y}) \ {z}] \in Int
          BY <4>4, SumType
        <5>. QED  BY <5>1 DEF SumOf
      <4>6. g[s] = f[z] + (f[y] + g[(s \ {y}) \ {z}])
        BY <3>0, <4>2, <4>4
      <4>7. \A a, b, c \in Int : a + (b + c) = b + (a + c)
        OBVIOUS
      <4>8. g[s] = f[y] + (f[z] + g[(s \ {y}) \ {z}])
        BY <4>5, <4>6, <4>7
      <4>. QED  BY <4>3, <4>8
    <3>. QED  BY <3>1, <3>2
  <2>. QED  BY <2>1
<1>4. Cardinality(T) \in F
  <2>. HIDE DEF F
  <2>. QED  BY <1>0, <1>2, <1>3, NatInduct
<1>. QED  BY <1>0, <1>4

\* Two sums over a set agree where what they add up agrees.
LEMMA SumAgrees ==
    ASSUME NEW S, NEW f, NEW g, SumOf(g, f, S),
           NEW R, NEW e, NEW h, SumOf(h, e, R),
           NEW T, T \subseteq S, T \subseteq R, \A x \in T : f[x] = e[x]
    PROVE  g[T] = h[T]
<1>4. \A U \in SUBSET S : \A y \in U : Takes(g, f, U, y)
  BY SumStep
<1>5. \A U \in SUBSET R : \A y \in U : Takes(h, e, U, y)
  BY SumStep
<1>. DEFINE F == {s \in SUBSET T : g[s] = h[s]}
<1>0. IsFiniteSet(T)
  BY FS_Subset DEF SumOf
<1>1. {} \in F
  BY AddsUpStep DEF SumOf
<1>2. ASSUME NEW s \in SUBSET T, NEW x \in T \ s, s \in F PROVE s \cup {x} \in F
  <2>1. (s \cup {x}) \ {x} = s
    OBVIOUS
  <2>2. g[s \cup {x}] = f[x] + g[s]
    BY <1>4, <2>1 DEF Takes
  <2>3. h[s \cup {x}] = e[x] + h[s]
    BY <1>5, <2>1 DEF Takes
  <2>. QED  BY <1>2, <2>2, <2>3
<1>3. T \in F
  <2>. HIDE DEF F
  <2>. QED  BY <1>0, <1>1, <1>2, SetInduction
<1>. QED  BY <1>3

\* MapThenSumSet is the recursive sum.
LEMMA TotalAddsUp ==
    ASSUME NEW S, IsFiniteSet(S), NEW f
    PROVE  \E g : AddsUp(g, f, S) /\ Total(f, S) = g[S]
<1>. DEFINE P(g) == g = [s \in SUBSET S |->
                          IF s = {} THEN 0
                          ELSE f[CHOOSE x \in s : TRUE] + g[s \ {CHOOSE x \in s : TRUE}]]
            c == CHOOSE g : P(g)
<1>1. \E g : P(g)
  <2>1. PICK g : AddsUp(g, f, S)
    BY SumExists
  <2>2. P(g)
    BY <2>1 DEF AddsUp, First
  <2>. HIDE DEF P
  <2>. QED  BY <2>2
<1>2. P(c)
  <2>. HIDE DEF P
  <2>. QED  BY <1>1
<1>3. Total(f, S) = c[S]
  BY DEF Total, MapThenSumSet, MapThenFoldSet
<1>. HIDE DEF c
<1>4. AddsUp(c, f, S)
  BY <1>2 DEF AddsUp, First
<1>. QED  BY <1>3, <1>4

\* The same for integers.
LEMMA TotalIsSum ==
    ASSUME NEW S, IsFiniteSet(S), NEW f, \A x \in S : f[x] \in Int
    PROVE  \E g : SumOf(g, f, S) /\ Total(f, S) = g[S]
BY TotalAddsUp DEF SumOf

\* A total of integers is an integer.
LEMMA TotalType ==
    ASSUME NEW S, IsFiniteSet(S), NEW f, \A x \in S : f[x] \in Int
    PROVE  Total(f, S) \in Int
BY TotalIsSum, SumType

\* The total over no element is 0.
LEMMA TotalEmpty ==
    ASSUME NEW f
    PROVE  Total(f, {}) = 0
BY TotalIsSum, AddsUpStep, FS_EmptySet DEF SumOf

\* What is added up, not how.
LEMMA TotalAgrees ==
    ASSUME NEW S, IsFiniteSet(S), NEW f, NEW e, \A x \in S : f[x] \in Int /\ e[x] = f[x]
    PROVE  Total(e, S) = Total(f, S)
<1>1. PICK g : SumOf(g, f, S) /\ Total(f, S) = g[S]
  BY TotalIsSum
<1>2. PICK h : SumOf(h, e, S) /\ Total(e, S) = h[S]
  BY TotalIsSum
<1>3. g[S] = h[S]
  BY <1>1, <1>2, SumAgrees
<1>. QED  BY <1>1, <1>2, <1>3

\* One element more.
LEMMA TotalAdd ==
    ASSUME NEW S, IsFiniteSet(S), NEW x, x \notin S, NEW f, f[x] \in Int,
           \A y \in S : f[y] \in Int
    PROVE  Total(f, S \cup {x}) = Total(f, S) + f[x]
<1>. DEFINE T == S \cup {x}
<1>1. IsFiniteSet(T) /\ \A y \in T : f[y] \in Int
  BY FS_AddElement
<1>2. T \ {x} = S /\ x \in T
  OBVIOUS
<1>. HIDE DEF T
<1>3. PICK g : SumOf(g, f, T) /\ Total(f, T) = g[T]
  BY <1>1, TotalIsSum
<1>4. PICK h : SumOf(h, f, S) /\ Total(f, S) = h[S]
  BY TotalIsSum
<1>5. g[S] = h[S]
  BY <1>2, <1>3, <1>4, SumAgrees
<1>6. Takes(g, f, T, x)
  BY <1>2, <1>3, SumStep
<1>7. g[T] = f[x] + h[S] /\ h[S] \in Int
  BY <1>2, <1>4, <1>5, <1>6, SumType DEF Takes
<1>. QED  BY <1>3, <1>4, <1>7 DEF T

\* A total of natural numbers is one.
LEMMA TotalNat ==
    ASSUME NEW S, IsFiniteSet(S), NEW f, \A x \in S : f[x] \in Nat
    PROVE  Total(f, S) \in Nat
<1>. DEFINE F == {T \in SUBSET S : Total(f, T) \in Nat}
<1>1. {} \in F
  BY TotalEmpty
<1>2. ASSUME NEW T \in SUBSET S, NEW x \in S \ T, T \in F PROVE T \cup {x} \in F
  <2>1. IsFiniteSet(T) /\ x \notin T /\ f[x] \in Int /\ \A y \in T : f[y] \in Int
    BY FS_Subset
  <2>2. Total(f, T \cup {x}) = Total(f, T) + f[x]
    BY <2>1, TotalAdd
  <2>. QED  BY <1>2, <2>2
<1>3. S \in F
  <2>. HIDE DEF F
  <2>. QED  BY <1>1, <1>2, SetInduction
<1>. QED  BY <1>3

\* Nothing adds up to nothing.
LEMMA TotalZero ==
    ASSUME NEW S, IsFiniteSet(S), NEW f, \A x \in S : f[x] = 0
    PROVE  Total(f, S) = 0
<1>. DEFINE F == {T \in SUBSET S : Total(f, T) = 0}
<1>1. {} \in F
  BY TotalEmpty
<1>2. ASSUME NEW T \in SUBSET S, NEW x \in S \ T, T \in F PROVE T \cup {x} \in F
  <2>1. /\ IsFiniteSet(T) /\ x \notin T /\ f[x] = 0 /\ f[x] \in Int
        /\ \A y \in T : f[y] \in Int
    BY FS_Subset
  <2>2. Total(f, T \cup {x}) = Total(f, T) + f[x]
    BY <2>1, TotalAdd
  <2>. QED  BY <1>2, <2>1, <2>2
<1>3. S \in F
  <2>. HIDE DEF F
  <2>. QED  BY <1>1, <1>2, SetInduction
<1>. QED  BY <1>3

\* A sum over a part of the set is no more, if nothing is negative.
LEMMA TotalPart ==
    ASSUME NEW S, IsFiniteSet(S), NEW f, \A x \in S : f[x] \in Nat, NEW R \in SUBSET S
    PROVE  Total(f, R) <= Total(f, S)
<1>. DEFINE F == {T \in SUBSET S : Total(f, T \cap R) <= Total(f, T)}
<1>1. {} \in F
  <2>1. {} \cap R = {}
    OBVIOUS
  <2>. QED  BY <2>1, TotalEmpty
<1>2. ASSUME NEW T \in SUBSET S, NEW x \in S \ T, T \in F PROVE T \cup {x} \in F
  <2>1. /\ IsFiniteSet(T) /\ IsFiniteSet(T \cap R)
        /\ x \notin T /\ f[x] \in Int /\ \A y \in T : f[y] \in Int
    BY FS_Subset
  <2>2. Total(f, T \cup {x}) = Total(f, T) + f[x]
    BY <2>1, TotalAdd
  <2>3. Total(f, T) \in Nat /\ Total(f, T \cap R) \in Nat /\ f[x] \in Nat
    BY <2>1, TotalNat
  <2>4. CASE x \in R
    <3>1. (T \cup {x}) \cap R = (T \cap R) \cup {x} /\ x \notin T \cap R
      BY <2>4
    <3>2. Total(f, (T \cap R) \cup {x}) = Total(f, T \cap R) + f[x]
      BY <2>1, <3>1, TotalAdd
    <3>. QED  BY <1>2, <2>2, <2>3, <3>1, <3>2
  <2>5. CASE x \notin R
    <3>1. (T \cup {x}) \cap R = T \cap R
      BY <2>5
    <3>2. Total(f, T \cap R) <= Total(f, T)
      BY <1>2
    <3>3. \A a, b, c \in Nat : a <= b => a <= b + c
      OBVIOUS
    <3>4. Total(f, T \cap R) <= Total(f, T) + f[x]
      BY <2>3, <3>2, <3>3
    <3>5. Total(f, (T \cup {x}) \cap R) <= Total(f, T \cup {x})
      BY <2>2, <3>1, <3>4
    <3>. QED  BY <3>5
  <2>. QED  BY <2>4, <2>5
<1>3. S \in F
  <2>. HIDE DEF F
  <2>. QED  BY <1>1, <1>2, SetInduction
<1>4. S \cap R = R
  OBVIOUS
<1>. QED  BY <1>3, <1>4

\* One summand changes.
LEMMA TotalChange ==
    ASSUME NEW S, IsFiniteSet(S), NEW x, NEW f, NEW e, DiffersAt(f, e, S, x)
    PROVE  Total(e, S) = Total(f, S) - f[x] + e[x]
<1>. DEFINE R == S \ {x}
<1>. /\ x \in S /\ e[x] \in Int
     /\ \A y \in S : f[y] \in Int
     /\ \A y \in S \ {x} : e[y] = f[y]
  BY DEF DiffersAt
<1>1. IsFiniteSet(R) /\ x \notin R /\ S = R \cup {x}
  BY FS_RemoveElement
<1>2. Total(f, S) = Total(f, R) + f[x]
  BY <1>1, TotalAdd
<1>3. Total(e, S) = Total(e, R) + e[x]
  BY <1>1, TotalAdd
<1>4. Total(e, R) = Total(f, R)
  BY <1>1, TotalAgrees
<1>5. Total(f, R) \in Int /\ f[x] \in Int
  BY <1>1, TotalType
<1>. QED  BY <1>2, <1>3, <1>4, <1>5

-----------------------------------------------------------------------------
(* Lists *)

\* A list with one element more has what it had and that element.
LEMMA LongerRange ==
    ASSUME NEW P, NEW s \in Seq(P), NEW x \in P
    PROVE  /\ Append(s, x) \in Seq(P)
           /\ Range(Append(s, x)) = Range(s) \cup {x}
           /\ Range(s) \subseteq P
<1>. DEFINE t == Append(s, x)
<1>1. /\ t \in Seq(P) /\ DOMAIN t = 1..(Len(s) + 1) /\ DOMAIN s = 1..Len(s) /\ Len(s) \in Nat
      /\ t[Len(s) + 1] = x /\ \A i \in 1..Len(s) : t[i] = s[i] /\ s[i] \in P
  OBVIOUS
<1>2. 1..(Len(s) + 1) = (1..Len(s)) \cup {Len(s) + 1}
  BY <1>1
<1>. HIDE DEF t
<1>. QED  BY <1>1, <1>2 DEF Range, t

\* A list without its first element has nothing else.
LEMMA ShorterRange ==
    ASSUME NEW P, NEW s \in Seq(P), s # << >>
    PROVE  Tail(s) \in Seq(P) /\ Range(Tail(s)) \subseteq Range(s)
<1>. DEFINE t == Tail(s)
<1>1. /\ t \in Seq(P) /\ DOMAIN t = 1..Len(t) /\ DOMAIN s = 1..Len(s) /\ Len(s) \in Nat
      /\ Len(t) = Len(s) - 1 /\ \A i \in 1..Len(t) : t[i] = s[i + 1]
  OBVIOUS
<1>2. \A i \in 1..Len(t) : i + 1 \in 1..Len(s)
  BY <1>1
<1>. HIDE DEF t
<1>. QED  BY <1>1, <1>2 DEF Range, t

\* Two lists, one after the other.
LEMMA JoinedRange ==
    ASSUME NEW P, NEW s \in Seq(P), NEW t \in Seq(P)
    PROVE  s \o t \in Seq(P) /\ Range(s \o t) = Range(s) \cup Range(t)
<1>. DEFINE u == s \o t
<1>1. /\ u \in Seq(P) /\ DOMAIN u = 1..(Len(s) + Len(t)) /\ DOMAIN s = 1..Len(s)
      /\ DOMAIN t = 1..Len(t) /\ Len(s) \in Nat /\ Len(t) \in Nat
      /\ \A i \in 1..(Len(s) + Len(t)) :
            u[i] = IF i <= Len(s) THEN s[i] ELSE t[i - Len(s)]
  OBVIOUS
<1>. HIDE DEF u
<1>2. \A i \in DOMAIN s : i \in DOMAIN u /\ u[i] = s[i]
  BY <1>1
<1>3. \A i \in DOMAIN t : i + Len(s) \in DOMAIN u /\ u[i + Len(s)] = t[i]
  BY <1>1
<1>4. \A i \in DOMAIN u : \/ i \in DOMAIN s /\ u[i] = s[i]
                          \/ i - Len(s) \in DOMAIN t /\ u[i] = t[i - Len(s)]
  BY <1>1
<1>5. Range(u) \subseteq Range(s) \cup Range(t)
  BY <1>4 DEF Range
<1>6. Range(s) \subseteq Range(u)
  BY <1>2 DEF Range
<1>7. Range(t) \subseteq Range(u)
  BY <1>3 DEF Range
<1>. QED  BY <1>1, <1>5, <1>6, <1>7 DEF u

\* A list of different elements goes on with a new one.
LEMMA DistinctAppend ==
    ASSUME NEW P, NEW s \in Seq(P), NEW x \in P, IsInjective(s), x \notin Range(s)
    PROVE  IsInjective(Append(s, x))
<1>. DEFINE t == Append(s, x)
<1>1. /\ DOMAIN t = 1..(Len(s) + 1) /\ DOMAIN s = 1..Len(s) /\ Len(s) \in Nat
      /\ t[Len(s) + 1] = x /\ \A i \in 1..Len(s) : t[i] = s[i]
  OBVIOUS
<1>2. 1..(Len(s) + 1) = (1..Len(s)) \cup {Len(s) + 1}
  BY <1>1
<1>3. \A i \in 1..Len(s) : t[i] # x
  BY <1>1 DEF Range
<1>. HIDE DEF t
<1>. QED  BY <1>1, <1>2, <1>3 DEF IsInjective, t

\* A list of different elements without its first one.
LEMMA DistinctTail ==
    ASSUME NEW P, NEW s \in Seq(P), s # << >>, IsInjective(s)
    PROVE  /\ Head(s) \in P /\ Head(s) \in Range(s) /\ Head(s) \notin Range(Tail(s))
           /\ Tail(s) \in Seq(P) /\ IsInjective(Tail(s))
<1>. DEFINE t == Tail(s)
<1>1. /\ t \in Seq(P) /\ DOMAIN t = 1..Len(t) /\ DOMAIN s = 1..Len(s) /\ Len(s) \in Nat \ {0}
      /\ Len(t) = Len(s) - 1 /\ \A i \in 1..Len(t) : t[i] = s[i + 1]
      /\ Head(s) = s[1] /\ s[1] \in P
  OBVIOUS
<1>2. /\ 1 \in 1..Len(s)
      /\ \A i \in 1..Len(t) : i + 1 \in 1..Len(s) /\ i + 1 # 1
      /\ \A i, j \in 1..Len(t) : i + 1 = j + 1 => i = j
  BY <1>1
<1>. HIDE DEF t
<1>3. Head(s) \in Range(s)
  BY <1>1, <1>2 DEF Range
<1>4. \A i \in 1..Len(t) : t[i] # Head(s)
  BY <1>1, <1>2 DEF IsInjective
<1>5. \A i, j \in 1..Len(t) : t[i] = t[j] => i = j
  BY <1>1, <1>2 DEF IsInjective
<1>. QED  BY <1>1, <1>3, <1>4, <1>5 DEF t, Range, IsInjective
=============================================================================
