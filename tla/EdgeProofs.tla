----------------------------- MODULE EdgeProofs -----------------------------
(***************************************************************************)
(* What holds of the parts around the ledger for every value of the        *)
(* constants: the Merkle roots, the rate limiter, the other rails, the     *)
(* contracts, the scripts, the webhooks, the metering, the paged lists,    *)
(* the voice and the assistant, each by an inductive invariant of its own  *)
(* scene.                                                                  *)
(***************************************************************************)
EXTENDS Edge, Sums, SequenceTheorems

-----------------------------------------------------------------------------
(* Scenes *)

\* Each component moves by its own steps only.
LEMMA EachByItself ==
    ASSUME [EdgeNext]_edgeVars
    PROVE  /\ UNCHANGED merkle
           /\ [LimiterNext]_limiterVars
           /\ [RailsNext]_railVars
           /\ [RegistryNext]_registryVars
           /\ [ManagerNext]_managerVars
           /\ [LpNext]_lpVars
           /\ [DbSetupNext]_dbVars
           /\ [WebhooksNext]_webhooksVars
           /\ [MeteringNext]_meteringVars
           /\ [OperatorNext]_operatorVars
           /\ [VoiceNext]_voiceVars
           /\ [AssistantNext]_assistantVars
BY DEF EdgeNext, edgeVars, merkle, Delivering, Limiting, MeteringUsage, Shopping, Verifying,
       Registering, Managing, Trading, Paging, SettingUp, Speaking, Chatting

-----------------------------------------------------------------------------
(* Merkle roots *)

\* The hash of a receipt is none of two nodes, and a hash tells what was hashed.
LEMMA HashesDiffer ==
    /\ \A x, l, r : Leaf(x) # Node(l, r)
    /\ \A x, y : Leaf(x) = Leaf(y) => x = y
    /\ \A l, r, k, q : Node(l, r) = Node(k, q) => l = k /\ r = q
<1>1. ASSUME NEW x, NEW l, NEW r PROVE Leaf(x) # Node(l, r)
  <2>1. DOMAIN Leaf(x) = {1}
    BY DEF Leaf
  <2>2. DOMAIN Node(l, r) = {1, 2}
    BY DEF Node
  <2>. QED  BY <2>1, <2>2
<1>2. ASSUME NEW x, NEW y, Leaf(x) = Leaf(y) PROVE x = y
  <2>1. Leaf(x)[1] = x /\ Leaf(y)[1] = y
    BY DEF Leaf
  <2>. QED  BY <1>2, <2>1
<1>3. ASSUME NEW l, NEW r, NEW k, NEW q, Node(l, r) = Node(k, q) PROVE l = k /\ r = q
  <2>1. Node(l, r)[1] = l /\ Node(l, r)[2] = r /\ Node(k, q)[1] = k /\ Node(k, q)[2] = q
    BY DEF Node
  <2>. QED  BY <1>3, <2>1
<1>. QED  BY <1>1, <1>2, <1>3

\* Going to the left from t, there is a leaf after d nodes.
LeafAt(t, d) ==
    \E p : /\ p[0] = t
           /\ \A i \in 0..(d - 1) : \E r : p[i] = Node(p[i + 1], r)
           /\ \E x : p[d] = Leaf(x)

\* A leaf is at the left end at once.
LEMMA DeepLeaf == ASSUME NEW x PROVE LeafAt(Leaf(x), 0)
<1>. DEFINE p == [i \in {0} |-> Leaf(x)]
<1>1. p[0] = Leaf(x)
  OBVIOUS
<1>. HIDE DEF p
<1>. QED  BY <1>1 DEF LeafAt

\* A node is one deeper than its left side.
LEMMA DeepNode ==
    ASSUME NEW l, NEW r, NEW d \in Nat, LeafAt(l, d)
    PROVE  LeafAt(Node(l, r), d + 1)
<1>1. PICK q : /\ q[0] = l
               /\ \A i \in 0..(d - 1) : \E y : q[i] = Node(q[i + 1], y)
               /\ \E x : q[d] = Leaf(x)
  BY DEF LeafAt
<1>. DEFINE p == [i \in 0..(d + 1) |-> IF i = 0 THEN Node(l, r) ELSE q[i - 1]]
<1>2. p[0] = Node(l, r) /\ \A i \in 0..d : p[i + 1] = q[i]
  OBVIOUS
<1>. HIDE DEF p
<1>3. ASSUME NEW i \in 0..d PROVE \E y : p[i] = Node(p[i + 1], y)
  <2>1. CASE i = 0
    BY <1>1, <1>2, <2>1
  <2>2. CASE i # 0
    <3>1. i - 1 \in 0..(d - 1) /\ i - 1 \in 0..d /\ (i - 1) + 1 = i
      BY <2>2
    <3>2. p[i] = q[i - 1] /\ p[i + 1] = q[i]
      BY <1>2, <3>1
    <3>. QED  BY <1>1, <3>1, <3>2
  <2>. QED  BY <2>1, <2>2
<1>4. \E x : p[d + 1] = Leaf(x)
  BY <1>1, <1>2
<1>5. (d + 1) - 1 = d
  OBVIOUS
<1>. QED  BY <1>2, <1>3, <1>4, <1>5 DEF LeafAt

\* No hash has two depths.
LEMMA DeepOnce ==
    ASSUME NEW t, NEW d \in Nat, NEW e \in Nat, LeafAt(t, d), LeafAt(t, e)
    PROVE  d = e
<1>1. PICK p : /\ p[0] = t
               /\ \A i \in 0..(d - 1) : \E y : p[i] = Node(p[i + 1], y)
               /\ \E x : p[d] = Leaf(x)
  BY DEF LeafAt
<1>2. PICK q : /\ q[0] = t
               /\ \A i \in 0..(e - 1) : \E y : q[i] = Node(q[i + 1], y)
               /\ \E x : q[e] = Leaf(x)
  BY DEF LeafAt
<1>. DEFINE F == {i \in Nat : i <= d /\ i <= e => p[i] = q[i]}
<1>3. 0 \in F
  BY <1>1, <1>2
<1>4. ASSUME NEW i \in Nat, i \in F PROVE i + 1 \in F
  <2>. SUFFICES ASSUME i + 1 <= d, i + 1 <= e PROVE p[i + 1] = q[i + 1]
    OBVIOUS
  <2>1. i \in 0..(d - 1) /\ i \in 0..(e - 1) /\ p[i] = q[i]
    BY <1>4
  <2>2. PICK y : p[i] = Node(p[i + 1], y)
    BY <1>1, <2>1
  <2>3. PICK z : q[i] = Node(q[i + 1], z)
    BY <1>2, <2>1
  <2>4. Node(p[i + 1], y) = Node(q[i + 1], z)
    BY <2>1, <2>2, <2>3
  <2>. QED  BY <2>4, HashesDiffer
<1>5. \A i \in Nat : i <= d /\ i <= e => p[i] = q[i]
  <2>1. Nat \subseteq F
    <3>. HIDE DEF F
    <3>. QED  BY <1>3, <1>4, NatInduct
  <2>. QED  BY <2>1
<1>6. ~(d < e)
  <2>. SUFFICES ASSUME d < e PROVE FALSE
    OBVIOUS
  <2>1. d \in 0..(e - 1) /\ p[d] = q[d]
    BY <1>5
  <2>2. PICK x : p[d] = Leaf(x)
    BY <1>1
  <2>3. PICK y : q[d] = Node(q[d + 1], y)
    BY <1>2, <2>1
  <2>4. Leaf(x) = Node(q[d + 1], y)
    BY <2>1, <2>2, <2>3
  <2>. QED  BY <2>4, HashesDiffer
<1>7. ~(e < d)
  <2>. SUFFICES ASSUME e < d PROVE FALSE
    OBVIOUS
  <2>1. e \in 0..(d - 1) /\ p[e] = q[e]
    BY <1>5
  <2>2. PICK x : q[e] = Leaf(x)
    BY <1>2
  <2>3. PICK y : p[e] = Node(p[e + 1], y)
    BY <1>1, <2>1
  <2>4. Leaf(x) = Node(p[e + 1], y)
    BY <2>1, <2>2, <2>3
  <2>. QED  BY <2>4, HashesDiffer
<1>. QED  BY <1>6, <1>7

\* A level after d turns: a list of hashes, which are d deep, but for the last one,
\* which may have been promoted.
Grown(level, d) ==
    /\ Len(level) \in Nat \ {0}
    /\ level = [i \in 1..Len(level) |-> level[i]]
    /\ \A i \in 1..(Len(level) - 1) : LeafAt(level[i], d)
    /\ \E e \in 0..d : LeafAt(level[Len(level)], e)

\* A turn on a list of n hashes; on one hash it does nothing.
LEMMA TurnTaken ==
    ASSUME NEW level, NEW n \in Nat \ {0}, Len(level) = n,
           level = [i \in 1..n |-> level[i]]
    PROVE  Turn(level) = [i \in 1..((n + 1) \div 2) |->
                            IF 2 * i <= n THEN Node(level[2 * i - 1], level[2 * i])
                            ELSE level[n]]
<1>1. CASE n > 1
  BY <1>1 DEF Turn, NextLevel
<1>2. CASE n = 1
  <2>. DEFINE next == [i \in 1..((n + 1) \div 2) |->
                            IF 2 * i <= n THEN Node(level[2 * i - 1], level[2 * i])
                            ELSE level[n]]
  <2>1. (n + 1) \div 2 = 1
    BY <1>2
  <2>2. next = [i \in 1..1 |-> level[i]]
    BY <1>2, <2>1
  <2>. HIDE DEF next
  <2>3. Turn(level) = next
    BY <1>2, <2>2 DEF Turn
  <2>. QED  BY <2>3 DEF next
<1>. QED  BY <1>1, <1>2

\* Half of a number, rounded up.
LEMMA Halves ==
    ASSUME NEW n \in Nat \ {0}, NEW m, m = (n + 1) \div 2
    PROVE  m \in Nat \ {0} /\ (n = 2 * m \/ n = 2 * m - 1)
OBVIOUS

\* A turn makes the hashes one deeper and halves their number.
LEMMA TurnGrows ==
    ASSUME NEW level, NEW d \in Nat, Grown(level, d)
    PROVE  /\ Grown(Turn(level), d + 1)
           /\ Len(Turn(level)) = (Len(level) + 1) \div 2
<1>. DEFINE n == Len(level)
            m == (n + 1) \div 2
            next == Turn(level)
<1>1. n \in Nat \ {0} /\ level = [i \in 1..n |-> level[i]]
  BY DEF Grown
<1>2. m \in Nat \ {0} /\ (n = 2 * m \/ n = 2 * m - 1)
  BY <1>1, Halves
<1>3. next = [i \in 1..m |-> IF 2 * i <= n THEN Node(level[2 * i - 1], level[2 * i])
                             ELSE level[n]]
  BY <1>1, TurnTaken
<1>. HIDE DEF next, m
<1>4. Len(next) = m /\ next = [i \in 1..m |-> next[i]]
  BY <1>2, <1>3
<1>5. ASSUME NEW i \in 1..m, 2 * i <= n PROVE LeafAt(next[i], d + 1)
  <2>1. next[i] = Node(level[2 * i - 1], level[2 * i])
    BY <1>3, <1>5
  <2>2. 2 * i - 1 \in 1..(n - 1)
    BY <1>1, <1>5
  <2>3. LeafAt(level[2 * i - 1], d)
    BY <2>2 DEF Grown
  <2>. QED  BY <2>1, <2>3, DeepNode
<1>6. \A i \in 1..(m - 1) : LeafAt(next[i], d + 1)
  <2>1. \A i \in 1..(m - 1) : i \in 1..m /\ 2 * i <= n
    BY <1>1, <1>2
  <2>. QED  BY <1>5, <2>1
<1>7. \E e \in 0..(d + 1) : LeafAt(next[m], e)
  <2>1. CASE 2 * m <= n
    BY <1>2, <1>5, <2>1
  <2>2. CASE ~(2 * m <= n)
    <3>1. next[m] = level[n]
      BY <1>2, <1>3, <2>2
    <3>2. PICK e \in 0..d : LeafAt(level[n], e)
      BY DEF Grown
    <3>. QED  BY <3>1, <3>2
  <2>. QED  BY <2>1, <2>2
<1>8. Grown(next, d + 1)
  BY <1>2, <1>4, <1>6, <1>7 DEF Grown
<1>. QED  BY <1>4, <1>8 DEF next, m

\* A turn tells the level that it was taken on: were the one level a node longer than
\* the other, a node of the one, d + 1 deep, would be a promoted hash of the other.
LEMMA TurnTells ==
    ASSUME NEW a, NEW b, NEW d \in Nat, Grown(a, d), Grown(b, d), Turn(a) = Turn(b)
    PROVE  a = b
<1>. DEFINE n == Len(a)
            k == Len(b)
            m == (n + 1) \div 2
<1>1. /\ n \in Nat \ {0} /\ a = [i \in 1..n |-> a[i]]
      /\ k \in Nat \ {0} /\ b = [i \in 1..k |-> b[i]]
  BY DEF Grown
<1>2. /\ m = (k + 1) \div 2 /\ m \in Nat \ {0}
      /\ n = 2 * m \/ n = 2 * m - 1
      /\ k = 2 * m \/ k = 2 * m - 1
  <2>1. m = (k + 1) \div 2
    BY TurnGrows
  <2>2. m \in Nat \ {0} /\ (n = 2 * m \/ n = 2 * m - 1)
    BY <1>1, Halves
  <2>3. k = 2 * m \/ k = 2 * m - 1
    BY <1>1, <2>1, Halves
  <2>. QED  BY <2>1, <2>2, <2>3
<1>3. /\ Turn(a) = [i \in 1..m |-> IF 2 * i <= n THEN Node(a[2 * i - 1], a[2 * i]) ELSE a[n]]
      /\ Turn(b) = [i \in 1..m |-> IF 2 * i <= k THEN Node(b[2 * i - 1], b[2 * i]) ELSE b[k]]
  BY <1>1, <1>2, TurnTaken
<1>. HIDE DEF m, n, k
<1>4. ASSUME NEW s, Grown(s, d), Len(s) = 2 * m,
             NEW t, Grown(t, d), Len(t) = 2 * m - 1,
             Node(s[2 * m - 1], s[2 * m]) = t[2 * m - 1]
      PROVE  FALSE
  <2>1. LeafAt(s[2 * m - 1], d)
    <3>1. 2 * m - 1 \in 1..(2 * m - 1)
      BY <1>2
    <3>. QED  BY <1>4, <3>1 DEF Grown
  <2>2. LeafAt(t[2 * m - 1], d + 1)
    BY <1>4, <2>1, DeepNode
  <2>3. PICK e \in 0..d : LeafAt(t[2 * m - 1], e)
    BY <1>4 DEF Grown
  <2>. QED  BY <2>2, <2>3, DeepOnce
<1>5. n = k
  <2>1. Turn(a)[m] = Turn(b)[m] /\ m \in 1..m
    BY <1>2
  <2>2. ~(n = 2 * m /\ k = 2 * m - 1)
    <3>. SUFFICES ASSUME n = 2 * m, k = 2 * m - 1 PROVE FALSE
      OBVIOUS
    <3>1. 2 * m <= n /\ ~(2 * m <= k)
      BY <1>1
    <3>2. Turn(a)[m] = Node(a[2 * m - 1], a[2 * m])
      BY <1>3, <2>1, <3>1
    <3>3. Turn(b)[m] = b[2 * m - 1]
      BY <1>3, <2>1, <3>1
    <3>. QED  BY <1>1, <1>4, <2>1, <3>2, <3>3 DEF n, k
  <2>3. ~(n = 2 * m - 1 /\ k = 2 * m)
    <3>. SUFFICES ASSUME n = 2 * m - 1, k = 2 * m PROVE FALSE
      OBVIOUS
    <3>1. 2 * m <= k /\ ~(2 * m <= n)
      BY <1>1
    <3>2. Turn(b)[m] = Node(b[2 * m - 1], b[2 * m])
      BY <1>3, <2>1, <3>1
    <3>3. Turn(a)[m] = a[2 * m - 1]
      BY <1>3, <2>1, <3>1
    <3>. QED  BY <1>1, <1>4, <2>1, <3>2, <3>3 DEF n, k
  <2>. QED  BY <1>1, <1>2, <2>2, <2>3
<1>6. ASSUME NEW i \in 1..n PROVE a[i] = b[i]
  <2>. DEFINE j == (i + 1) \div 2
  <2>0. j \in Nat \ {0} /\ (i = 2 * j \/ i = 2 * j - 1)
    BY <1>1, Halves
  <2>1. j \in 1..m
    <3>. HIDE DEF j
    <3>1. i \in Nat /\ i <= n
      BY <1>1
    <3>. QED  BY <1>2, <2>0, <3>1
  <2>2. Turn(a)[j] = Turn(b)[j]
    OBVIOUS
  <2>. HIDE DEF j
  <2>3. CASE 2 * j <= n
    <3>1. Node(a[2 * j - 1], a[2 * j]) = Node(b[2 * j - 1], b[2 * j])
      BY <1>3, <1>5, <2>1, <2>2, <2>3
    <3>. QED  BY <2>0, <3>1, HashesDiffer
  <2>4. CASE ~(2 * j <= n)
    <3>1. i = n
      BY <1>1, <2>0, <2>4
    <3>. QED  BY <1>3, <1>5, <2>1, <2>2, <2>4, <3>1
  <2>. QED  BY <2>3, <2>4
<1>. QED
  <2>. HIDE DEF n, k
  <2>. QED  BY <1>1, <1>5, <1>6

\* The levels after any number of turns.
LEMMA LevelsStep ==
    ASSUME NEW s
    PROVE  /\ Levels(s)[0] = Leaves(s)
           /\ \A n \in Nat : Levels(s)[n + 1] = Turn(Levels(s)[n])
<1>. DEFINE P(g) == g = [t \in Nat |-> IF t = 0 THEN Leaves(s) ELSE Turn(g[t - 1])]
            Upto(g, n) == g[0] = Leaves(s) /\ \A t \in Nat : t < n => g[t + 1] = Turn(g[t])
            F == {n \in Nat : \E g : Upto(g, n)}
<1>1. 0 \in F
  <2>. DEFINE g == [t \in Nat |-> Leaves(s)]
  <2>1. Upto(g, 0)
    OBVIOUS
  <2>. HIDE DEF g, Upto
  <2>. QED  BY <2>1
<1>2. ASSUME NEW n \in Nat, n \in F PROVE n + 1 \in F
  <2>1. PICK g : Upto(g, n)
    BY <1>2
  <2>. DEFINE h == [t \in Nat |-> IF t = n + 1 THEN Turn(g[n]) ELSE g[t]]
  <2>2. Upto(h, n + 1)
    BY <2>1
  <2>. HIDE DEF h, Upto
  <2>. QED  BY <2>2
<1>3. \A n \in Nat : \E g : Upto(g, n)
  <2>1. Nat \subseteq F
    <3>. HIDE DEF F
    <3>. QED  BY <1>1, <1>2, NatInduct
  <2>. QED  BY <2>1
\* Two of them agree as far as both go.
<1>4. ASSUME NEW f, NEW g, NEW n \in Nat, Upto(f, n), NEW k \in Nat, Upto(g, k)
      PROVE  \A t \in Nat : t <= n /\ t <= k => f[t] = g[t]
  <2>. DEFINE G == {t \in Nat : t <= n /\ t <= k => f[t] = g[t]}
  <2>1. 0 \in G
    BY <1>4
  <2>2. ASSUME NEW t \in Nat, t \in G PROVE t + 1 \in G
    BY <1>4, <2>2
  <2>3. Nat \subseteq G
    <3>. HIDE DEF G
    <3>. QED  BY <2>1, <2>2, NatInduct
  <2>. QED  BY <2>3
<1>. DEFINE best(n) == CHOOSE g : Upto(g, n)
            all == [n \in Nat |-> best(n)[n]]
<1>5. \A n \in Nat : Upto(best(n), n)
  <2>. HIDE DEF Upto
  <2>. QED  BY <1>3
<1>6. all[0] = Leaves(s) /\ \A n \in Nat : all[n + 1] = Turn(all[n])
  <2>. HIDE DEF best
  <2>1. all[0] = Leaves(s)
    BY <1>5
  <2>2. ASSUME NEW n \in Nat PROVE all[n + 1] = Turn(all[n])
    <3>1. best(n + 1)[n + 1] = Turn(best(n + 1)[n])
      BY <1>5
    <3>2. best(n + 1)[n] = best(n)[n]
      <4>1. n + 1 \in Nat /\ n <= n /\ n <= n + 1
        OBVIOUS
      <4>. HIDE DEF Upto
      <4>. QED  BY <1>4, <1>5, <4>1
    <3>. QED  BY <3>1, <3>2
  <2>. QED  BY <2>1, <2>2
<1>7. P(all)
  <2>. HIDE DEF best
  <2>1. ASSUME NEW t \in Nat PROVE all[t] = IF t = 0 THEN Leaves(s) ELSE Turn(all[t - 1])
    <3>1. CASE t = 0
      BY <1>6, <3>1
    <3>2. CASE t # 0
      <4>1. t - 1 \in Nat /\ (t - 1) + 1 = t
        BY <3>2
      <4>2. all[(t - 1) + 1] = Turn(all[t - 1])
        BY <1>6, <4>1
      <4>. QED  BY <3>2, <4>1, <4>2
    <3>. QED  BY <3>1, <3>2
  <2>2. all = [t \in Nat |-> all[t]]
    OBVIOUS
  <2>. HIDE DEF all
  <2>. QED  BY <2>1, <2>2
<1>8. P(Levels(s))
  <2>. DEFINE c == CHOOSE g : P(g)
  <2>1. P(c)
    <3>. HIDE DEF P, all
    <3>. QED  BY <1>7
  <2>2. Levels(s) = c
    BY DEF Levels
  <2>. HIDE DEF c
  <2>. QED  BY <2>1, <2>2
<1>. HIDE DEF best, all
<1>9. \A n \in Nat : n + 1 \in Nat /\ n + 1 # 0 /\ (n + 1) - 1 = n
  OBVIOUS
<1>10. \A n \in Nat : Levels(s)[n] = IF n = 0 THEN Leaves(s) ELSE Turn(Levels(s)[n - 1])
  BY <1>8
<1>. QED  BY <1>9, <1>10

\* After n turns the hashes are n deep, and there are no more than n fewer of them, or
\* one.
LEMMA LevelsGrow ==
    ASSUME NEW s, Len(s) \in Nat \ {0}
    PROVE  \A n \in Nat : /\ Grown(Levels(s)[n], n)
                          /\ Len(Levels(s)[n]) = 1 \/ Len(Levels(s)[n]) <= Len(s) - n
<1>. DEFINE F == {n \in Nat : /\ Grown(Levels(s)[n], n)
                              /\ Len(Levels(s)[n]) = 1 \/ Len(Levels(s)[n]) <= Len(s) - n}
<1>1. 0 \in F
  <2>. DEFINE l == Levels(s)[0]
              k == Len(s)
  <2>1. l = [i \in 1..k |-> Leaf(s[i])] /\ k \in Nat \ {0}
    BY LevelsStep DEF Leaves
  <2>. HIDE DEF l, k
  <2>2. Len(l) = k /\ l = [i \in 1..k |-> l[i]]
    BY <2>1
  <2>3. \A i \in 1..k : LeafAt(l[i], 0)
    BY <2>1, DeepLeaf
  <2>4. Grown(l, 0)
    <3>1. \A i \in 1..(k - 1) : i \in 1..k
      BY <2>1
    <3>2. k \in 1..k /\ 0 \in 0..0
      BY <2>1
    <3>. QED  BY <2>1, <2>2, <2>3, <3>1, <3>2 DEF Grown
  <2>5. k <= k - 0
    BY <2>1
  <2>. QED  BY <2>2, <2>4, <2>5 DEF l, k
<1>2. ASSUME NEW n \in Nat, n \in F PROVE n + 1 \in F
  <2>. DEFINE l == Levels(s)[n]
              next == Levels(s)[n + 1]
              k == Len(l)
  <2>1. next = Turn(l)
    BY LevelsStep
  <2>2. Grown(next, n + 1) /\ Len(next) = (k + 1) \div 2
    BY <1>2, <2>1, TurnGrows
  <2>3. k \in Nat \ {0}
    BY <1>2 DEF Grown
  <2>4. Len(next) \in Nat \ {0} /\ (k = 2 * Len(next) \/ k = 2 * Len(next) - 1)
    BY <2>2, <2>3, Halves
  <2>5. k = 1 \/ k <= Len(s) - n
    BY <1>2
  <2>. DEFINE m == Len(next)
              size == Len(s)
  <2>6. m = 1 \/ m <= size - (n + 1)
    <3>1. size \in Nat /\ m \in Nat \ {0} /\ (k = 2 * m \/ k = 2 * m - 1)
      BY <2>4
    <3>2. k = 1 \/ k <= size - n
      BY <2>5
    <3>. HIDE DEF m, k, size
    <3>. QED  BY <2>3, <3>1, <3>2
  <2>7. n + 1 \in Nat
    OBVIOUS
  <2>. QED  BY <2>2, <2>6, <2>7
<1>3. Nat \subseteq F
  <2>. HIDE DEF F
  <2>. QED  BY <1>1, <1>2, NatInduct
<1>. QED  BY <1>3

\* So the turns that MerkleRoot takes leave one hash, and more would change nothing.
LEMMA RootReached ==
    ASSUME NEW s, Len(s) \in Nat \ {0}, NEW n \in Nat, n >= Len(s)
    PROVE  Levels(s)[n] = [i \in 1..1 |-> MerkleRoot(s)]
<1>. DEFINE k == Len(s)
            F == {n1 \in Nat : Levels(s)[k + n1] = Levels(s)[k]}
<1>1. Grown(Levels(s)[k], k) /\ Len(Levels(s)[k]) = 1
  <2>1. Grown(Levels(s)[k], k) /\ (Len(Levels(s)[k]) = 1 \/ Len(Levels(s)[k]) <= k - k)
    BY LevelsGrow
  <2>2. Len(Levels(s)[k]) \in Nat \ {0}
    BY <2>1 DEF Grown
  <2>. QED  BY <2>1, <2>2
<1>2. 0 \in F
  OBVIOUS
<1>3. ASSUME NEW m \in Nat, m \in F PROVE m + 1 \in F
  <2>1. k + m \in Nat /\ (k + m) + 1 = k + (m + 1)
    OBVIOUS
  <2>2. Levels(s)[(k + m) + 1] = Turn(Levels(s)[k])
    BY <1>3, <2>1, LevelsStep
  <2>3. Turn(Levels(s)[k]) = Levels(s)[k]
    BY <1>1 DEF Turn
  <2>. QED  BY <2>1, <2>2, <2>3
<1>4. n - k \in F
  <2>1. n - k \in Nat
    OBVIOUS
  <2>2. Nat \subseteq F
    <3>. HIDE DEF F
    <3>. QED  BY <1>2, <1>3, NatInduct
  <2>. QED  BY <2>1, <2>2
<1>5. Levels(s)[n] = Levels(s)[k]
  <2>1. k + (n - k) = n
    OBVIOUS
  <2>. QED  BY <1>4, <2>1
<1>6. Levels(s)[k] = [i \in 1..1 |-> Levels(s)[k][i]]
  BY <1>1 DEF Grown
<1>7. [i \in 1..1 |-> Levels(s)[k][i]] = [i \in 1..1 |-> Levels(s)[k][1]]
  OBVIOUS
<1>. QED  BY <1>5, <1>6, <1>7 DEF MerkleRoot

\* Turn by turn backwards, the root tells the leaves.
LEMMA RootTells ==
    ASSUME NEW s, Len(s) \in Nat \ {0}, s = [i \in 1..Len(s) |-> s[i]],
           NEW t, Len(t) \in Nat \ {0}, t = [i \in 1..Len(t) |-> t[i]],
           MerkleRoot(s) = MerkleRoot(t)
    PROVE  s = t
<1>. DEFINE N == Len(s) + Len(t)
            F == {n \in Nat : n <= N => Levels(s)[N - n] = Levels(t)[N - n]}
<1>1. 0 \in F
  <2>1. N \in Nat /\ N >= Len(s) /\ N >= Len(t) /\ N - 0 = N
    OBVIOUS
  <2>. HIDE DEF N
  <2>2. Levels(s)[N] = [i \in 1..1 |-> MerkleRoot(s)]
    BY <2>1, RootReached
  <2>3. Levels(t)[N] = [i \in 1..1 |-> MerkleRoot(t)]
    BY <2>1, RootReached
  <2>. QED  BY <2>1, <2>2, <2>3
<1>2. ASSUME NEW n \in Nat, n \in F PROVE n + 1 \in F
  <2>. SUFFICES ASSUME n + 1 <= N PROVE Levels(s)[N - (n + 1)] = Levels(t)[N - (n + 1)]
    OBVIOUS
  <2>. DEFINE m == N - (n + 1)
  <2>1. m \in Nat /\ m + 1 = N - n /\ n <= N
    OBVIOUS
  <2>2. Levels(s)[m + 1] = Levels(t)[m + 1]
    BY <1>2, <2>1
  <2>. HIDE DEF m, N
  <2>3. Turn(Levels(s)[m]) = Turn(Levels(t)[m])
    BY <2>1, <2>2, LevelsStep
  <2>4. Grown(Levels(s)[m], m) /\ Grown(Levels(t)[m], m)
    BY <2>1, LevelsGrow
  <2>5. Levels(s)[m] = Levels(t)[m]
    BY <2>1, <2>3, <2>4, TurnTells
  <2>. QED  BY <2>5 DEF m
<1>3. Leaves(s) = Leaves(t)
  <2>1. Nat \subseteq F
    <3>. HIDE DEF F
    <3>. QED  BY <1>1, <1>2, NatInduct
  <2>2. N \in Nat /\ N - N = 0 /\ N <= N
    OBVIOUS
  <2>3. Levels(s)[0] = Levels(t)[0]
    BY <2>1, <2>2
  <2>. QED  BY <2>3, LevelsStep
<1>. DEFINE k == Len(s)
            l == Len(t)
<1>4. [i \in 1..k |-> Leaf(s[i])] = [i \in 1..l |-> Leaf(t[i])]
  BY <1>3 DEF Leaves
<1>5. k = l
  <2>1. Len([i \in 1..k |-> Leaf(s[i])]) = k /\ Len([i \in 1..l |-> Leaf(t[i])]) = l
    OBVIOUS
  <2>. QED  BY <1>4, <2>1
<1>6. \A i \in 1..k : s[i] = t[i]
  <2>1. ASSUME NEW i \in 1..k PROVE Leaf(s[i]) = Leaf(t[i])
    BY <1>4, <1>5, <2>1
  <2>. QED  BY <2>1, HashesDiffer
<1>. QED
  <2>1. s = [i \in 1..k |-> s[i]] /\ t = [i \in 1..l |-> t[i]]
    OBVIOUS
  <2>. HIDE DEF k, l
  <2>. QED  BY <1>5, <1>6, <2>1

\* A batch is a list, and is not empty.
IsBatch(s) == Len(s) \in Nat \ {0} /\ s = [i \in 1..Len(s) |-> s[i]]
\* Both batches are what flushBatch makes of a queue.
BatchesFit == IsBatch(batch1) /\ IsBatch(batch2)

\* The batches that are compared are such lists.
LEMMA BatchesInit == EdgeInit => BatchesFit
<1>. SUFFICES ASSUME EdgeInit PROVE BatchesFit
  OBVIOUS
<1>1. ASSUME NEW n \in Nat \ {0}, NEW s, s = [i \in 1..n |-> s[i]]
      PROVE  IsBatch(s)
  <2>1. Len([i \in 1..n |-> s[i]]) = n
    OBVIOUS
  <2>. QED  BY <1>1, <2>1 DEF IsBatch
<1>2. CASE MerkleInit
  <2>1. \A n \in 1..MaxLeaves : n \in Nat \ {0}
    BY MaxLeavesIsNat
  <2>2. PICK n \in 1..MaxLeaves : batch1 = [i \in 1..n |-> i]
    BY <1>2 DEF MerkleInit
  <2>3. batch1 = [i \in 1..n |-> batch1[i]]
    BY <2>2
  <2>4. PICK k \in 1..MaxLeaves : batch2 \in [1..k -> ReceiptIds]
    BY <1>2 DEF MerkleInit, BatchesOf
  <2>5. batch2 = [i \in 1..k |-> batch2[i]]
    BY <2>4
  <2>. QED  BY <1>1, <2>1, <2>3, <2>5 DEF BatchesFit
<1>3. CASE batch1 = <<1>> /\ batch2 = <<1>>
  <2>. DEFINE one == <<1>>
  <2>1. one = [i \in 1..1 |-> one[i]]
    OBVIOUS
  <2>2. Len(one) = 1
    OBVIOUS
  <2>. HIDE DEF one
  <2>3. IsBatch(one)
    BY <2>1, <2>2 DEF IsBatch
  <2>4. batch1 = one /\ batch2 = one
    BY <1>3 DEF one
  <2>. QED  BY <2>3, <2>4 DEF BatchesFit
<1>4. MerkleInit \/ (batch1 = <<1>> /\ batch2 = <<1>>)
  <2>1. IF scene = "merkle" THEN MerkleInit ELSE batch1 = <<1>> /\ batch2 = <<1>>
    BY DEF EdgeInit
  <2>. QED  BY <2>1
<1>. QED  BY <1>2, <1>3, <1>4

\* The anchored root commits to the batch, however long the batches are: the shape
\* that computeMerkleRoot builds by promoting an odd node cannot be mistaken for
\* another one.
THEOREM RootsBindBatches == EdgeSpec => []RootBindsBatch
<1>1. BatchesFit => RootBindsBatch
  BY RootTells DEF BatchesFit, IsBatch, RootBindsBatch
<1>2. BatchesFit /\ [EdgeNext]_edgeVars => BatchesFit'
  <2>. SUFFICES ASSUME BatchesFit, [EdgeNext]_edgeVars PROVE BatchesFit'
    OBVIOUS
  <2>1. UNCHANGED merkle
    BY EachByItself
  <2>. QED  BY <2>1 DEF BatchesFit, IsBatch, merkle
<1>. QED  BY <1>1, <1>2, BatchesInit, PTL DEF EdgeSpec

-----------------------------------------------------------------------------
(* The rate limiter *)

\* Type correctness of the limiter: rows by age, a record for each check.
LimiterTypeOK ==
    /\ logged \in [Ages -> Nat]
    /\ check \in [Checks -> [at : {"idle", "count", "insert"}, age : Nat]]

\* The inductive invariant of the limiter: the bound itself counts the checks that are
\* about to insert, and needs no more than types beside it.
LimiterInv == LimiterTypeOK /\ WindowBounded

\* The ages of the rows that a window holds.
Recent == 0..(Window - 1)

\* Rows is a sum.
LEMMA RowsAreTotal == ASSUME NEW S PROVE Rows(S) = Total(logged, S)
BY DEF Rows, FoldFunctionOnSet, MapThenFoldSet, Total, MapThenSumSet

\* Ages, and finite parts of them.
LEMMA AgesFinite ==
    /\ IsFiniteSet(Ages)
    /\ Recent \subseteq Ages
    /\ IsFiniteSet(Recent)
<1>1. Window + Delay \in Int /\ Window - 1 \in Int /\ Delay >= 0 /\ Window > 0
  BY RateLimiterConstants
<1>2. IsFiniteSet(0..(Window + Delay))
  BY <1>1, FS_Interval
<1>3. Recent \subseteq Ages
  BY RateLimiterConstants DEF Recent, Ages
<1>. QED  BY <1>2, <1>3, FS_Subset DEF Ages

\* A tick moves every row one age up, so that no window holds more.
LEMMA AgedRows ==
    ASSUME NEW f \in [Ages -> Nat], NEW g,
           \A a \in Ages : g[a] = IF a = 0 THEN 0 ELSE f[a - 1]
    PROVE  Total(g, Recent) <= Total(f, Recent)
<1>. DEFINE F == {n \in Nat : n < Window => Total(g, 0..n) = Total(f, 0..(n - 1))}
<1>0. /\ Window \in Nat \ {0} /\ Recent \subseteq Ages
      /\ \A n \in Int : IsFiniteSet(0..n)
      /\ \A a \in Ages : f[a] \in Int /\ g[a] \in Int
  <2>1. \A a \in Ages : a # 0 => a - 1 \in Ages
    BY RateLimiterConstants DEF Ages
  <2>2. \A a \in Ages : f[a] \in Int /\ g[a] \in Int
    BY <2>1
  <2>. QED  BY <2>2, RateLimiterConstants, AgesFinite, FS_Interval
<1>1. 0 \in F
  <2>1. 0..0 = {} \cup {0} /\ 0..(0 - 1) = {} /\ 0 \in Ages
    BY RateLimiterConstants DEF Ages
  <2>2. g[0] = 0
    BY <2>1
  <2>3. Total(g, {} \cup {0}) = Total(g, {}) + g[0]
    BY <2>2, TotalAdd, FS_EmptySet
  <2>. QED  BY <2>1, <2>2, <2>3, TotalEmpty
<1>2. ASSUME NEW n \in Nat, n \in F PROVE n + 1 \in F
  <2>. SUFFICES ASSUME n + 1 < Window PROVE Total(g, 0..(n + 1)) = Total(f, 0..((n + 1) - 1))
    OBVIOUS
  <2>1. /\ 0..(n + 1) = (0..n) \cup {n + 1} /\ n + 1 \notin 0..n
        /\ 0..((n + 1) - 1) = (0..(n - 1)) \cup {n} /\ n \notin 0..(n - 1)
        /\ n < Window /\ n + 1 \in Recent /\ n \in Recent
        /\ 0..n \subseteq Recent /\ 0..(n - 1) \subseteq Recent
    BY <1>0 DEF Recent
  <2>2. Total(g, (0..n) \cup {n + 1}) = Total(g, 0..n) + g[n + 1]
    <3>. DEFINE m == n + 1
    <3>1. IsFiniteSet(0..n) /\ m \notin 0..n /\ g[m] \in Int /\ \A a \in 0..n : g[a] \in Int
      BY <1>0, <2>1
    <3>. HIDE DEF m
    <3>2. Total(g, (0..n) \cup {m}) = Total(g, 0..n) + g[m]
      BY <3>1, TotalAdd
    <3>. QED  BY <3>2 DEF m
  <2>3. Total(f, (0..(n - 1)) \cup {n}) = Total(f, 0..(n - 1)) + f[n]
    <3>1. IsFiniteSet(0..(n - 1)) /\ f[n] \in Int /\ \A a \in 0..(n - 1) : f[a] \in Int
      BY <1>0, <2>1
    <3>. QED  BY <2>1, <3>1, TotalAdd
  <2>4. g[n + 1] = f[n]
    BY <1>0, <2>1
  <2>. QED  BY <1>2, <2>1, <2>2, <2>3, <2>4
<1>3. Total(g, Recent) = Total(f, 0..(Window - 2))
  <2>1. Nat \subseteq F
    <3>. HIDE DEF F
    <3>. QED  BY <1>1, <1>2, NatInduct
  <2>2. Window - 1 \in Nat /\ Window - 1 < Window /\ (Window - 1) - 1 = Window - 2
    BY <1>0
  <2>. QED  BY <2>1, <2>2 DEF Recent
<1>4. 0..(Window - 2) \in SUBSET Recent /\ \A a \in Recent : f[a] \in Nat
  BY <1>0 DEF Recent
<1>5. Total(f, 0..(Window - 2)) <= Total(f, Recent)
  BY <1>4, AgesFinite, TotalPart
<1>. QED  BY <1>3, <1>5

\* The checks under way are finitely many, and so are those that will insert.
LEMMA InsertingFinite ==
    /\ IsFiniteSet(Inserting)
    /\ Cardinality(Inserting) \in Nat
    /\ Cardinality(Inserting) <= Cardinality(Checks)
    /\ Cardinality(Checks) \in Nat
<1>1. IsFiniteSet(Checks)
  BY RateLimiterConstants
<1>2. Inserting \in SUBSET Checks
  BY DEF Inserting
<1>. QED  BY <1>1, <1>2, FS_Subset, FS_CardinalityType

\* The limiter begins with no rows and no checks.
LEMMA LimiterInitInv == LimiterInit => LimiterInv
<1>. SUFFICES ASSUME LimiterInit PROVE LimiterInv
  OBVIOUS
<1>1. LimiterTypeOK
  BY DEF LimiterInit, LimiterTypeOK, NoCheck
<1>2. Rows(Recent) = 0
  <2>1. \A a \in Recent : logged[a] = 0
    BY AgesFinite DEF LimiterInit
  <2>. QED  BY <2>1, AgesFinite, TotalZero, RowsAreTotal
<1>3. Cardinality(Inserting) = 0
  <2>1. Inserting = {}
    BY DEF Inserting, LimiterInit, NoCheck
  <2>. QED  BY <2>1, FS_EmptySet
<1>4. Rows(0..(Window - 1)) = 0
  BY <1>2 DEF Recent
<1>5. WindowBounded
  BY <1>3, <1>4, InsertingFinite, RateLimiterConstants DEF WindowBounded
<1>. QED  BY <1>1, <1>5 DEF LimiterInv

\* No step lets a window exceed its bound: an admitted check saw at least the rows of
\* the window and found less than the limit; an insert turns a check into a row.
LEMMA LimiterNextInv == LimiterInv /\ [LimiterNext]_limiterVars => LimiterInv'
<1>. SUFFICES ASSUME LimiterInv, [LimiterNext]_limiterVars PROVE LimiterInv'
  OBVIOUS
<1>. DEFINE R == Total(logged, Recent)
            K == Cardinality(Inserting)
            C == Cardinality(Checks)
            Bounded == Total(logged', Recent) + Cardinality(Inserting') <= Limit + C - 1
<1>0. /\ LimiterTypeOK
      /\ R + K <= Limit + C - 1
      /\ R \in Int /\ K \in Nat /\ C \in Nat /\ Limit \in Nat /\ Limit > 0 /\ K <= C
      /\ IsFiniteSet(Inserting)
      /\ \A a \in Recent : a \in Ages /\ logged[a] \in Nat
  <2>1. LimiterTypeOK /\ R + K <= Limit + C - 1
    BY RowsAreTotal DEF LimiterInv, WindowBounded, Recent
  <2>2. \A a \in Recent : a \in Ages /\ logged[a] \in Nat /\ logged[a] \in Int
    BY <2>1, AgesFinite DEF LimiterTypeOK
  <2>3. R \in Int
    BY <2>2, AgesFinite, TotalType
  <2>. QED  BY <2>1, <2>2, <2>3, InsertingFinite, RateLimiterConstants
<1>1. SUFFICES LimiterTypeOK' /\ Bounded
  <2>1. Rows(0..(Window - 1))' = Total(logged', Recent)
    BY DEF Rows, FoldFunctionOnSet, MapThenFoldSet, Total, MapThenSumSet, Recent
  <2>. QED  BY <2>1 DEF LimiterInv, WindowBounded
<1>. HIDE DEF R, K, C
<1>2. ASSUME NEW c \in Checks, StartCheck(c) PROVE LimiterTypeOK' /\ Bounded
  <2>1. Inserting' = Inserting
    BY <1>0, <1>2 DEF StartCheck, Inserting, LimiterTypeOK
  <2>2. LimiterTypeOK' /\ logged' = logged
    BY <1>0, <1>2 DEF StartCheck, LimiterTypeOK
  <2>. QED  BY <1>0, <2>1, <2>2 DEF R, K
<1>3. ASSUME NEW c \in Checks, Admitted(c) PROVE LimiterTypeOK' /\ Bounded
  <2>1. LimiterTypeOK' /\ logged' = logged
    BY <1>0, <1>3 DEF Admitted, LimiterTypeOK
  <2>2. R < Limit
    <3>. DEFINE S == SinceCutoff(c)
    <3>1. Recent \in SUBSET S
      BY <1>0, RateLimiterConstants DEF SinceCutoff, Recent, LimiterTypeOK
    <3>2. IsFiniteSet(S) /\ \A a \in S : logged[a] \in Nat
      BY <1>0, AgesFinite, FS_Subset DEF SinceCutoff, LimiterTypeOK
    <3>3. Total(logged, S) < Limit
      BY <1>3, RowsAreTotal DEF Admitted, UnderLimit
    <3>. HIDE DEF S
    <3>4. R <= Total(logged, S) /\ Total(logged, S) \in Nat
      BY <3>1, <3>2, TotalPart, TotalNat DEF R
    <3>. QED  BY <1>0, <3>3, <3>4
  <2>3. Cardinality(Inserting') \in Nat /\ Cardinality(Inserting') <= C
    <3>1. Inserting' \in SUBSET Checks /\ IsFiniteSet(Checks)
      BY RateLimiterConstants DEF Inserting
    <3>. QED  BY <3>1, FS_Subset, FS_CardinalityType DEF C
  <2>. QED  BY <1>0, <2>1, <2>2, <2>3 DEF R
<1>4. ASSUME NEW c \in Checks, Refused(c) \/ CheckThrows(c) PROVE LimiterTypeOK' /\ Bounded
  <2>1. LimiterTypeOK' /\ logged' = logged
    BY <1>0, <1>4 DEF Refused, CheckThrows, LimiterTypeOK, NoCheck
  <2>2. Inserting' \in SUBSET Inserting
    BY <1>0, <1>4 DEF Refused, CheckThrows, LimiterTypeOK, NoCheck, Inserting
  <2>3. Cardinality(Inserting') \in Nat /\ Cardinality(Inserting') <= K
    BY <1>0, <2>2, FS_Subset, FS_CardinalityType DEF K
  <2>. QED  BY <1>0, <2>1, <2>3 DEF R
<1>5. ASSUME NEW c \in Checks, InsertLogged(c) PROVE LimiterTypeOK' /\ Bounded
  <2>0. 0 \in Ages /\ 0 \in Recent
    BY RateLimiterConstants DEF Ages, Recent
  <2>1. /\ LimiterTypeOK'
        /\ logged'[0] = logged[0] + 1
        /\ \A a \in Ages \ {0} : logged'[a] = logged[a]
    BY <1>0, <1>5, <2>0 DEF InsertLogged, LimiterTypeOK, NoCheck
  <2>2. DiffersAt(logged, logged', Recent, 0)
    BY <1>0, <2>0, <2>1 DEF DiffersAt
  <2>3. Total(logged', Recent) = R + 1
    <3>1. Total(logged', Recent) = R - logged[0] + logged'[0]
      BY <2>2, AgesFinite, TotalChange DEF R
    <3>2. logged[0] \in Nat
      BY <1>0, <2>0
    <3>. QED  BY <1>0, <2>1, <3>1, <3>2
  <2>4. c \in Inserting /\ Inserting' = Inserting \ {c}
    BY <1>0, <1>5 DEF InsertLogged, LimiterTypeOK, NoCheck, Inserting
  <2>5. Cardinality(Inserting') = K - 1
    BY <1>0, <2>4, FS_RemoveElement DEF K
  <2>. QED  BY <1>0, <2>1, <2>3, <2>5
<1>6. CASE Tick
  <2>1. \A a \in Ages : logged'[a] = IF a = 0 THEN 0 ELSE logged[a - 1]
    BY <1>6 DEF Tick
  <2>2. Total(logged', Recent) <= R
    BY <1>0, <2>1, AgedRows DEF R, LimiterTypeOK
  <2>3. LimiterTypeOK'
    <3>1. logged' \in [Ages -> Nat]
      <4>1. \A a \in Ages : a # 0 => a - 1 \in Ages
        BY RateLimiterConstants DEF Ages
      <4>. QED  BY <1>0, <1>6, <4>1 DEF Tick, LimiterTypeOK
    <3>2. check' \in [Checks -> [at : {"idle", "count", "insert"}, age : Nat]]
      BY <1>0, <1>6 DEF Tick, LimiterTypeOK, NoCheck
    <3>. QED  BY <3>1, <3>2 DEF LimiterTypeOK
  <2>4. Inserting' = Inserting
    BY <1>0, <1>6 DEF Tick, Inserting, LimiterTypeOK, NoCheck
  <2>5. Total(logged', Recent) \in Int
    <3>1. \A a \in Recent : logged'[a] \in Int
      BY <2>3, AgesFinite DEF LimiterTypeOK
    <3>. QED  BY <3>1, AgesFinite, TotalType
  <2>. QED  BY <1>0, <2>2, <2>3, <2>4, <2>5 DEF K
<1>7. CASE CleanupRateLimitLog
  <2>1. LimiterTypeOK' /\ Inserting' = Inserting
    BY <1>0, <1>7 DEF CleanupRateLimitLog, LimiterTypeOK, Inserting
  <2>2. \A a \in Recent : logged[a] \in Int /\ logged'[a] = logged[a]
    BY <1>0, <1>7, RateLimiterConstants DEF CleanupRateLimitLog, Recent
  <2>3. Total(logged', Recent) = R
    BY <2>2, AgesFinite, TotalAgrees DEF R
  <2>. QED  BY <1>0, <2>1, <2>3 DEF K
<1>8. CASE UNCHANGED limiterVars
  <2>1. LimiterTypeOK' /\ Inserting' = Inserting /\ logged' = logged
    BY <1>0, <1>8 DEF limiterVars, LimiterTypeOK, Inserting
  <2>. QED  BY <1>0, <2>1 DEF R, K
<1>. QED  BY <1>2, <1>3, <1>4, <1>5, <1>6, <1>7, <1>8 DEF LimiterNext, CheckStep

\* However the checks of requests interleave, a window never holds more than its limit
\* and the other checks that were under way.
THEOREM WindowStaysBounded == EdgeSpec => []WindowBounded
<1>1. EdgeInit => LimiterInv
  BY LimiterInitInv DEF EdgeInit
<1>2. LimiterInv /\ [EdgeNext]_edgeVars => LimiterInv'
  BY LimiterNextInv, EachByItself
<1>3. LimiterInv => WindowBounded
  BY DEF LimiterInv
<1>. QED  BY <1>1, <1>2, <1>3, PTL DEF EdgeSpec

-----------------------------------------------------------------------------
(* The other rails *)

\* What the chain has said stays true: a block number is that of the block in which the
\* transaction is, a height was reached.
Holds(l, a) ==
    \/ a = Open \/ a = Null
    \/ l = "head" /\ a.known = "height" /\ a.block \in Nat /\ a.block <= height
    \/ l = "status" /\ a = [known |-> "pending", block |-> 0]
    \/ l \in {"status", "receipt"} /\ InBlock /\ a = Seen(transfer.state)
    \/ l = "tx" /\ a = [known |-> "found", block |-> 0]

\* What a rail has been told is what it accepts.
AcceptedBy(e) ==
    IF e.rail = "unykorn-l1" THEN AcceptedByUnykorn(e.answer)
    ELSE AcceptedByReceipt(e.rail, e.answer)

\* The answers of a verification hold, and its verdict rests on them.
Founded(e) ==
    /\ e.answer = [l \in Lookups |-> e.answer[l]]
    /\ e = [rail |-> e.rail, answer |-> e.answer, verdict |-> e.verdict]
    /\ \A l \in Lookups : Holds(l, e.answer[l])
    /\ e.rail \in RailNames \cup {"none"}
    /\ e.verdict = "verified" => AcceptedBy(e) /\ e.rail # "none"

\* The chain and its one transfer: a transfer has a block when it is in one, no block
\* is above the height.
ChainOK ==
    /\ transfer \in [state : {"unknown", "pending", "committed", "failed"}, block : Nat]
    /\ height \in Nat
    /\ InBlock => transfer.block <= height
    /\ ~InBlock => transfer.block = 0
\* The inductive invariant of the rails: the chain, and a ground for each record.
RailsInv ==
    /\ ChainOK
    /\ evidence = [p \in Proofs |-> evidence[p]]
    /\ \A p \in Proofs : Founded(evidence[p])

\* A proof that nobody has looked up needs no ground.
LEMMA NothingFounded == Founded(NoProof)
BY DEF Founded, NoProof, Holds, Lookups

\* The invariant of the rails holds at the start.
LEMMA RailsInitInv == RailsInit => RailsInv
BY NothingFounded DEF RailsInit, RailsInv, ChainOK, InBlock

\* What was accepted is paid.
LEMMA AcceptedIsPaid == RailsInv => VerifiedIsPaid
<1>. SUFFICES ASSUME RailsInv, NEW p \in Proofs,
                     evidence[p].verdict = "verified", KnowsBlocks(p)
              PROVE  /\ InBlock
                     /\ evidence[p].rail # "xrpl" => transfer.state = "committed"
                     /\ evidence[p].rail = "unykorn-l1" =>
                           height + 1 >= transfer.block + Confirmations
  BY DEF VerifiedIsPaid
<1>. DEFINE a == evidence[p].answer
<1>1. \A l \in Lookups : Holds(l, a[l])
  BY DEF RailsInv, Founded
<1>2. CASE evidence[p].rail = "unykorn-l1"
  <2>1. AcceptedByUnykorn(a) /\ a["head"].block # 0 /\ BlockOf(a) # 0
    BY <1>2 DEF RailsInv, Founded, AcceptedBy, KnowsBlocks
  <2>2. a["head"].block \in Nat /\ a["head"].block <= height
    BY <1>1, <2>1 DEF Holds, Lookups, Open, Null
  <2>3. InBlock /\ BlockOf(a) = transfer.block /\ transfer.state = "committed"
    BY <1>1, <2>1 DEF Holds, Lookups, Open, Null, BlockOf, Seen, InBlock, AcceptedByUnykorn
  <2>4. Deep(a["head"].block, transfer.block)
    <3>1. Deep(a["head"].block, BlockOf(a))
      BY <2>1 DEF AcceptedByUnykorn
    <3>. QED  BY <2>3, <3>1
  <2>5. transfer.block \in Nat /\ height \in Nat
    BY DEF RailsInv, ChainOK
  <2>. QED  BY <1>2, <2>2, <2>3, <2>4, <2>5, RailsBounds DEF Deep
<1>3. CASE evidence[p].rail # "unykorn-l1"
  <2>1. AcceptedByReceipt(evidence[p].rail, a) /\ evidence[p].rail \in RailNames
    BY <1>3 DEF RailsInv, Founded, AcceptedBy
  <2>2. Holds("receipt", a["receipt"])
    BY <1>1 DEF Lookups
  <2>. QED
    BY <1>3, <2>1, <2>2 DEF AcceptedByReceipt, Holds, Open, Null, Seen, InBlock, RailNames
<1>. QED  BY <1>2, <1>3

\* While the chain stands still, a verification may move to what is founded.
LEMMA OneProofMoves ==
    ASSUME RailsInv, UNCHANGED <<transfer, height>>, NEW p \in Proofs, NEW e,
           Founded(e), evidence' = [evidence EXCEPT ![p] = e]
    PROVE  RailsInv'
<1>1. ChainOK'
  BY DEF RailsInv, ChainOK, InBlock
<1>2. evidence' = [q \in Proofs |-> evidence'[q]]
  BY DEF RailsInv
<1>3. ASSUME NEW q \in Proofs PROVE Founded(evidence[q])'
  <2>1. Founded(evidence'[q])
    BY DEF RailsInv
  <2>. QED
    BY <2>1 DEF Founded, Holds, InBlock, Seen, AcceptedBy, AcceptedByUnykorn, AcceptedByReceipt,
       BlockOf, Deep
<1>. QED  BY <1>1, <1>2, <1>3 DEF RailsInv

\* While the verifications stand still, the chain may grow and take the transaction.
LEMMA ChainMoves ==
    ASSUME RailsInv, UNCHANGED evidence, ChainOK', height' >= height,
           InBlock => UNCHANGED transfer
    PROVE  RailsInv'
<1>1. height \in Nat /\ height' \in Nat
  BY DEF RailsInv, ChainOK
<1>2. ASSUME NEW l, NEW a, Holds(l, a) PROVE Holds(l, a)'
  BY <1>1, <1>2 DEF Holds, InBlock, Seen
<1>3. ASSUME NEW e, Founded(e) PROVE Founded(e)'
  <2>1. \A l \in Lookups : Holds(l, e.answer[l])'
    BY <1>2, <1>3 DEF Founded
  <2>. QED
    BY <1>3, <2>1 DEF Founded, AcceptedBy, AcceptedByUnykorn, AcceptedByReceipt, BlockOf, Deep
<1>4. evidence' = [p \in Proofs |-> evidence'[p]]
  BY DEF RailsInv
<1>5. ASSUME NEW p \in Proofs PROVE Founded(evidence[p])'
  <2>. DEFINE e == evidence[p]
  <2>1. PICK d : d = evidence[p]
    OBVIOUS
  <2>2. Founded(d)'
    BY <1>3, <2>1 DEF RailsInv
  <2>3. evidence'[p] = d
    BY <2>1
  <2>. QED  BY <2>2, <2>3 DEF Founded, AcceptedBy, Holds, AcceptedByUnykorn, AcceptedByReceipt, BlockOf, Deep
<1>. QED  BY <1>4, <1>5 DEF RailsInv

\* The steps of the chain and of the adapters keep it so.
LEMMA RailsNextInv == RailsInv /\ [RailsNext]_railVars => RailsInv'
<1>. SUFFICES ASSUME RailsInv, [RailsNext]_railVars PROVE RailsInv'
  OBVIOUS
<1>1. CASE SendTransfer
  BY <1>1, ChainMoves DEF SendTransfer, RailsInv, ChainOK, InBlock
<1>2. CASE NewBlock
  <2>1. ChainOK' /\ height' >= height
    BY <1>2 DEF NewBlock, RailsInv, ChainOK, InBlock
  <2>. QED  BY <1>2, <2>1, ChainMoves DEF NewBlock, InBlock
<1>. DEFINE Moves(p, e) == evidence' = [evidence EXCEPT ![p] = e]
<1>3. ASSUME NEW p \in Proofs, NEW rail \in RailNames, StartProof(p, rail) PROVE RailsInv'
  <2>. DEFINE r == IF rail = "xrpl" /\ circuit = "open" THEN Null ELSE Open
              e == [rail |-> rail, answer |-> [NoProof.answer EXCEPT !["receipt"] = r],
                    verdict |-> "open"]
  <2>1. r \in {Open, Null}
    OBVIOUS
  <2>2. evidence' = [evidence EXCEPT ![p] = e]
    BY <1>3 DEF StartProof
  <2>. HIDE DEF r
  <2>3. Founded(e)
    BY <2>1 DEF Founded, NoProof, Holds, Lookups
  <2>. QED  BY <1>3, <2>2, <2>3, OneProofMoves DEF StartProof
<1>4. ASSUME NEW p \in Proofs, NEW l \in Lookups, NEW r,
             Asked(p, l), Holds(l, r), UNCHANGED <<transfer, height>>,
             evidence' = [evidence EXCEPT ![p].answer[l] = r]
      PROVE  RailsInv'
  <2>. DEFINE v == evidence[p]
              answer == [v.answer EXCEPT ![l] = r]
              e == [rail |-> v.rail, answer |-> answer, verdict |-> v.verdict]
  <2>0. Founded(v) /\ v.verdict = "open" /\ evidence = [q \in Proofs |-> evidence[q]]
    BY <1>4 DEF RailsInv, Asked
  <2>1. evidence' = [evidence EXCEPT ![p] = e]
    <3>1. [v EXCEPT !.answer = answer] = e
      BY <2>0 DEF Founded
    <3>2. evidence' = [evidence EXCEPT ![p] = [v EXCEPT !.answer = answer]]
      BY <1>4
    <3>. QED  BY <3>1, <3>2
  <2>2. Founded(e)
    <3>1. answer = [k \in Lookups |-> IF k = l THEN r ELSE v.answer[k]]
      BY <2>0 DEF Founded
    <3>2. \A k \in Lookups : Holds(k, answer[k])
      BY <1>4, <2>0, <3>1 DEF Founded
    <3>. HIDE DEF answer
    <3>3. answer = [k \in Lookups |-> answer[k]]
      BY <3>1
    <3>. QED  BY <2>0, <3>2, <3>3 DEF Founded
  <2>. QED  BY <1>4, <2>1, <2>2, OneProofMoves
<1>5. ASSUME NEW p \in Proofs, NEW l \in Lookups, LookupAnswered(p, l) PROVE RailsInv'
  <2>1. Holds(l, Answer(l))
    BY DEF Holds, Answer, RailsInv, ChainOK, InBlock, Seen, Lookups
  <2>. QED  BY <1>4, <1>5, <2>1 DEF LookupAnswered
<1>6. ASSUME NEW p \in Proofs, NEW l \in Lookups, LookupFails(p, l) PROVE RailsInv'
  <2>1. Holds(l, Null)
    BY DEF Holds
  <2>. QED  BY <1>4, <1>6, <2>1 DEF LookupFails
<1>7. ASSUME NEW p \in Proofs, Judge(p) PROVE RailsInv'
  <2>. DEFINE v == evidence[p]
              verdict == IF AcceptedBy(v) THEN "verified" ELSE "refused"
              e == [rail |-> v.rail, answer |-> v.answer, verdict |-> verdict]
  <2>0. Founded(v) /\ v.rail # "none" /\ evidence = [q \in Proofs |-> evidence[q]]
    BY <1>7 DEF RailsInv, Judge
  <2>1. evidence' = [evidence EXCEPT ![p] = e]
    <3>1. [v EXCEPT !.verdict = verdict] = e
      BY <2>0 DEF Founded
    <3>2. evidence' = [evidence EXCEPT ![p] = [v EXCEPT !.verdict = verdict]]
      BY <1>7 DEF Judge, AcceptedBy
    <3>. QED  BY <3>1, <3>2
  <2>2. Founded(e)
    <3>1. AcceptedBy(v) <=> AcceptedBy(e)
      BY DEF AcceptedBy
    <3>. QED  BY <2>0, <3>1 DEF Founded
  <2>. QED  BY <1>7, <2>1, <2>2, OneProofMoves DEF Judge
<1>8. ASSUME NEW p \in Proofs, ProofRefused(p) PROVE RailsInv'
  BY <1>8, NothingFounded, OneProofMoves DEF ProofRefused
<1>9. CASE BreakerResets \/ UNCHANGED railVars
  <2>1. UNCHANGED <<transfer, height, evidence>>
    BY <1>9 DEF BreakerResets, railVars
  <2>2. ChainOK' /\ height' >= height
    BY <2>1 DEF RailsInv, ChainOK, InBlock
  <2>. QED  BY <2>1, <2>2, ChainMoves
<1>. QED  BY <1>1, <1>2, <1>3, <1>5, <1>6, <1>7, <1>8, <1>9 DEF RailsNext, ProofStep

\* Lookups that are answered at different times do not add up to a payment that is
\* not there, whatever the chain did between them.
THEOREM VerdictsArePaid == EdgeSpec => []VerifiedIsPaid
<1>1. EdgeInit => RailsInv
  BY RailsInitInv DEF EdgeInit
<1>2. RailsInv /\ [EdgeNext]_edgeVars => RailsInv'
  BY RailsNextInv, EachByItself
<1>. QED  BY <1>1, <1>2, AcceptedIsPaid, PTL DEF EdgeSpec

-----------------------------------------------------------------------------
(* The registry *)

\* The array has the labels of the entries, each once.
RegistryInv ==
    /\ entries = [l \in Labels |-> entries[l]]
    /\ \A l \in Labels : entries[l] =
          [added |-> entries[l].added, verified |-> entries[l].verified, uri |-> entries[l].uri]
    /\ labels \in Seq(Labels)
    /\ \A i, j \in 1..Len(labels) : labels[i] = labels[j] => i = j
    /\ \A l \in Labels : entries[l].added <=> \E i \in 1..Len(labels) : labels[i] = l

\* The invariant of the registry holds at the start.
LEMMA RegistryInitInv == RegistryInit => RegistryInv
BY DEF RegistryInit, RegistryInv, Blank

\* Read page by page, such a registry gives every entry once.
LEMMA RegistryReads == RegistryInv => RegistryInStep
<1>. SUFFICES ASSUME RegistryInv PROVE RegistryInStep
  OBVIOUS
<1>0. Len(labels) \in Nat
  BY DEF RegistryInv
<1>1. ASSUME NEW i \in 0..Len(labels), i < Len(labels)
      PROVE  GetEntries(i, i + 1)[1].added
  <2>1. i + 1 \in 1..Len(labels) /\ ~(i + 1 > Len(labels)) /\ ~(i >= i + 1) /\ i + 1 - i = 1
    BY <1>0, <1>1
  <2>2. GetEntries(i, i + 1) = [k \in 1..1 |-> entries[labels[i + k]]]
    BY <2>1 DEF GetEntries
  <2>3. GetEntries(i, i + 1)[1] = entries[labels[i + 1]]
    BY <2>2
  <2>4. labels[i + 1] \in Labels
    BY <2>1 DEF RegistryInv
  <2>. QED  BY <2>1, <2>3, <2>4 DEF RegistryInv
<1>2. ASSUME NEW l \in Labels, entries[l].added
      PROVE  Cardinality({i \in 1..Len(labels) : labels[i] = l}) = 1
  <2>1. PICK i \in 1..Len(labels) : labels[i] = l
    BY <1>2 DEF RegistryInv
  <2>2. {j \in 1..Len(labels) : labels[j] = l} = {i}
    BY <2>1 DEF RegistryInv
  <2>. QED  BY <2>2, FS_Singleton
<1>. DEFINE pages == UNION {{<<i, GetEntries(i, i + 1)>>} : i \in 0..Len(labels)}
<1>3. ASSUME NEW p \in pages, p[1] < Len(labels) PROVE p[2][1].added
  <2>1. PICK i \in 0..Len(labels) : p = <<i, GetEntries(i, i + 1)>>
    OBVIOUS
  <2>. QED  BY <1>1, <1>3, <2>1
<1>. QED  BY <1>2, <1>3 DEF RegistryInStep

\* The array without the label, its places taken up to the last but one.
LEMMA SplicedTaken ==
    ASSUME RegistryInv, NEW l \in Labels, entries[l].added
    PROVE  \E k \in 1..Len(labels) :
              /\ labels[k] = l
              /\ Spliced(l) = [j \in 1..(Len(labels) - 1) |->
                                 IF j = k THEN labels[Len(labels)] ELSE labels[j]]
<1>. DEFINE n == Len(labels)
<1>1. n \in Nat /\ labels \in [1..n -> Labels]
  BY DEF RegistryInv
<1>2. PICK k \in 1..n : labels[k] = l
  BY DEF RegistryInv
<1>3. {i \in 1..n : labels[i] = l} = {k}
  BY <1>2 DEF RegistryInv
<1>4. SelectInSeq(labels, LAMBDA x : x = l) = k
  <2>1. {i \in 1..n : labels[i] = l} # {}
    BY <1>3
  <2>2. Min({k}) = k
    BY <1>2 DEF Min
  <2>. QED  BY <1>3, <2>1, <2>2 DEF SelectInSeq
<1>5. Spliced(l) = SubSeq([labels EXCEPT ![k] = labels[n]], 1, n - 1)
  <2>. DEFINE filled == [labels EXCEPT ![k] = labels[n]]
  <2>1. filled \in [1..n -> Labels] /\ Len(filled) = n
    BY <1>1
  <2>2. Spliced(l) = Front(filled)
    BY <1>2, <1>4 DEF Spliced, Last
  <2>. QED  BY <2>1, <2>2 DEF Front
<1>6. SubSeq([labels EXCEPT ![k] = labels[n]], 1, n - 1) =
          [j \in 1..(n - 1) |-> IF j = k THEN labels[n] ELSE labels[j]]
  <2>. DEFINE filled == [labels EXCEPT ![k] = labels[n]]
  <2>1. filled \in Seq(Labels) /\ Len(filled) = n
    BY <1>1
  <2>2. SubSeq(filled, 1, n - 1) = [j \in 1..(n - 1) |-> filled[j]]
    BY <1>1, <2>1
  <2>3. \A j \in 1..(n - 1) : filled[j] = IF j = k THEN labels[n] ELSE labels[j]
    BY <1>1
  <2>. HIDE DEF filled
  <2>. QED  BY <2>2, <2>3
<1>. QED  BY <1>2, <1>5, <1>6

\* Every transaction keeps the two in step.
LEMMA RegistryNextInv == RegistryInv /\ [RegistryNext]_registryVars => RegistryInv'
<1>. SUFFICES ASSUME RegistryInv, [RegistryNext]_registryVars PROVE RegistryInv'
  OBVIOUS
<1>1. ASSUME NEW l \in Labels, NEW uri \in Uris, AddEntry(l, uri) PROVE RegistryInv'
  <2>1. /\ Len(labels') = Len(labels) + 1
        /\ \A i \in 1..Len(labels') :
              labels'[i] = IF i = Len(labels) + 1 THEN l ELSE labels[i]
    BY <1>1 DEF AddEntry, RegistryInv
  <2>2. labels' \in Seq(Labels)
    BY <1>1 DEF AddEntry, RegistryInv
  <2>3. \A i, j \in 1..Len(labels') : labels'[i] = labels'[j] => i = j
    BY <1>1, <2>1 DEF AddEntry, RegistryInv
  <2>4. \A k \in Labels : entries'[k] =
            IF k = l THEN [added |-> TRUE, verified |-> FALSE, uri |-> {uri}] ELSE entries[k]
    BY <1>1 DEF AddEntry, RegistryInv
  <2>5. \A k \in Labels : entries[k].added' <=> \E i \in 1..Len(labels') : labels'[i] = k
    BY <2>1, <2>4 DEF RegistryInv
  <2>6. \A k \in Labels : entries'[k] =
            [added |-> entries'[k].added, verified |-> entries'[k].verified,
             uri |-> entries'[k].uri]
    BY <2>4 DEF RegistryInv
  <2>7. entries' = [k \in Labels |-> entries'[k]]
    BY <1>1 DEF AddEntry, RegistryInv
  <2>. QED  BY <2>2, <2>3, <2>5, <2>6, <2>7 DEF RegistryInv
<1>2. ASSUME NEW l \in Labels, NEW new, new.added = entries[l].added,
             new = [added |-> new.added, verified |-> new.verified, uri |-> new.uri],
             entries' = [entries EXCEPT ![l] = new], UNCHANGED labels
      PROVE  RegistryInv'
  BY <1>2 DEF RegistryInv
<1>5. ASSUME NEW l \in Labels, VerifyEntry(l) PROVE RegistryInv'
  <2>. DEFINE new == [added |-> entries[l].added, verified |-> TRUE, uri |-> entries[l].uri]
  <2>1. entries' = [entries EXCEPT ![l] = new]
    <3>0. entries[l] = [added |-> entries[l].added, verified |-> entries[l].verified,
                        uri |-> entries[l].uri]
      BY DEF RegistryInv
    <3>1. [entries[l] EXCEPT !.verified = TRUE] = new
      <4>1. \A x : [entries[l] EXCEPT !.verified = x] =
                [added |-> entries[l].added, verified |-> x, uri |-> entries[l].uri]
        BY <3>0
      <4>. QED  BY <4>1
    <3>2. entries' = [entries EXCEPT ![l] = [entries[l] EXCEPT !.verified = TRUE]]
      BY <1>5 DEF VerifyEntry
    <3>. QED  BY <3>1, <3>2
  <2>2. new.added = entries[l].added /\
        new = [added |-> new.added, verified |-> new.verified, uri |-> new.uri]
    OBVIOUS
  <2>. HIDE DEF new
  <2>. QED  BY <1>2, <1>5, <2>1, <2>2 DEF VerifyEntry
<1>6. ASSUME NEW l \in Labels, NEW uri \in Uris, UpdateMetadata(l, uri) PROVE RegistryInv'
  <2>. DEFINE new == [added |-> entries[l].added, verified |-> entries[l].verified,
                      uri |-> {uri}]
  <2>1. entries' = [entries EXCEPT ![l] = new]
    <3>0. entries[l] = [added |-> entries[l].added, verified |-> entries[l].verified,
                        uri |-> entries[l].uri]
      BY DEF RegistryInv
    <3>1. [entries[l] EXCEPT !.uri = {uri}] = new
      BY <3>0
    <3>2. entries' = [entries EXCEPT ![l] = [entries[l] EXCEPT !.uri = {uri}]]
      BY <1>6 DEF UpdateMetadata
    <3>. QED  BY <3>1, <3>2
  <2>2. new.added = entries[l].added /\
        new = [added |-> new.added, verified |-> new.verified, uri |-> new.uri]
    OBVIOUS
  <2>. HIDE DEF new
  <2>. QED  BY <1>2, <1>6, <2>1, <2>2 DEF UpdateMetadata
<1>3. ASSUME NEW l \in Labels, RemoveEntry(l) PROVE RegistryInv'
  <2>1. PICK k \in 1..Len(labels) :
            /\ labels[k] = l
            /\ labels' = [j \in 1..(Len(labels) - 1) |->
                            IF j = k THEN labels[Len(labels)] ELSE labels[j]]
    BY <1>3, SplicedTaken DEF RemoveEntry
  <2>2. Len(labels') = Len(labels) - 1 /\ labels' \in Seq(Labels)
    BY <2>1 DEF RegistryInv
  <2>3. \A i, j \in 1..Len(labels') : labels'[i] = labels'[j] => i = j
    BY <2>1, <2>2 DEF RegistryInv
  <2>4. \A m \in Labels : entries'[m] = IF m = l THEN Blank ELSE entries[m]
    BY <1>3 DEF RemoveEntry, RegistryInv
  <2>5. \A m \in Labels : (\E i \in 1..Len(labels') : labels'[i] = m) <=>
            m # l /\ \E i \in 1..Len(labels) : labels[i] = m
    <3>1. ASSUME NEW m \in Labels, NEW i \in 1..Len(labels'), labels'[i] = m
          PROVE  m # l /\ \E j \in 1..Len(labels) : labels[j] = m
      BY <2>1, <2>2, <3>1 DEF RegistryInv
    <3>2. ASSUME NEW m \in Labels, m # l, NEW j \in 1..Len(labels), labels[j] = m
          PROVE  \E i \in 1..Len(labels') : labels'[i] = m
      <4>1. CASE j = Len(labels)
        <5>1. k \in 1..Len(labels') /\ labels'[k] = labels[Len(labels)]
          BY <2>1, <2>2, <3>2, <4>1 DEF RegistryInv
        <5>. QED  BY <3>2, <4>1, <5>1
      <4>2. CASE j # Len(labels)
        <5>1. j \in 1..(Len(labels) - 1) /\ j # k
          BY <2>1, <3>2, <4>2 DEF RegistryInv
        <5>2. labels'[j] = labels[j]
          BY <2>1, <5>1
        <5>. QED  BY <2>2, <3>2, <5>1, <5>2
      <4>. QED  BY <4>1, <4>2
    <3>. QED  BY <3>1, <3>2
  <2>6. \A m \in Labels : entries[m].added' <=> \E i \in 1..Len(labels') : labels'[i] = m
    BY <2>4, <2>5 DEF RegistryInv, Blank
  <2>7. \A m \in Labels : entries'[m] =
            [added |-> entries'[m].added, verified |-> entries'[m].verified,
             uri |-> entries'[m].uri]
    BY <2>4 DEF RegistryInv, Blank
  <2>8. entries' = [m \in Labels |-> entries'[m]]
    BY <1>3 DEF RemoveEntry, RegistryInv
  <2>. QED  BY <2>2, <2>3, <2>6, <2>7, <2>8 DEF RegistryInv
<1>4. CASE UNCHANGED registryVars
  BY <1>4 DEF registryVars, RegistryInv
<1>. QED  BY <1>1, <1>3, <1>4, <1>5, <1>6 DEF RegistryNext

-----------------------------------------------------------------------------
(* The LP manager *)

\* What the positions put into a bin is a sum.
LEMMA PutIsTotal ==
    ASSUME NEW S, IsFiniteSet(S), NEW puts, NEW b, NEW f,
           \A p \in S : f[p] = puts[p][b] /\ f[p] \in Int
    PROVE  PutInto(b, puts, S) = Total(f, S)
<1>. DEFINE P(g) == g = [s \in SUBSET S |->
                          IF s = {} THEN 0
                          ELSE puts[CHOOSE x \in s : TRUE][b]
                                 + g[s \ {CHOOSE x \in s : TRUE}]]
            k == CHOOSE g : P(g)
<1>1. ASSUME NEW g PROVE P(g) <=> AddsUp(g, f, S)
  <2>1. \A s \in SUBSET S : s # {} => f[First(s)] = puts[First(s)][b]
    BY FirstIsIn
  <2>2. [s \in SUBSET S |-> IF s = {} THEN 0 ELSE puts[First(s)][b] + g[s \ {First(s)}]]
        = [s \in SUBSET S |-> IF s = {} THEN 0 ELSE f[First(s)] + g[s \ {First(s)}]]
    BY <2>1
  <2>. QED  BY <2>2 DEF AddsUp, First
<1>2. P(k)
  <2>1. PICK g : AddsUp(g, f, S)
    BY SumExists
  <2>. HIDE DEF P
  <2>. QED  BY <1>1, <2>1
<1>3. PutInto(b, puts, S) = k[S]
  BY DEF PutInto, MapThenSumSet, MapThenFoldSet
<1>. HIDE DEF P, k
<1>4. SumOf(k, f, S)
  BY <1>1, <1>2 DEF SumOf
<1>5. PICK h : SumOf(h, f, S) /\ Total(f, S) = h[S]
  BY TotalIsSum
<1>6. k[S] = h[S]
  BY <1>4, <1>5, SumAgrees
<1>. QED  BY <1>3, <1>5, <1>6

\* What one position more, or one less, makes of it.
LEMMA PutChanges ==
    ASSUME NEW S, IsFiniteSet(S), NEW puts, NEW b, \A p \in S : puts[p][b] \in Int
    PROVE  /\ PutInto(b, puts, S) \in Int
           /\ \A q \in S : PutInto(b, puts, S) = PutInto(b, puts, S \ {q}) + puts[q][b]
           /\ \A more : (\A p \in S : more[p] = puts[p]) =>
                 PutInto(b, more, S) = PutInto(b, puts, S)
<1>. DEFINE f == [p \in S |-> puts[p][b]]
<1>1. \A p \in S : f[p] = puts[p][b] /\ f[p] \in Int
  OBVIOUS
<1>. HIDE DEF f
<1>2. PutInto(b, puts, S) = Total(f, S) /\ Total(f, S) \in Int
  BY <1>1, PutIsTotal, TotalType
<1>3. ASSUME NEW q \in S
      PROVE  PutInto(b, puts, S) = PutInto(b, puts, S \ {q}) + puts[q][b]
  <2>. DEFINE T == S \ {q}
  <2>1. IsFiniteSet(T) /\ q \notin T /\ S = T \cup {q} /\ f[q] \in Int
        /\ \A p \in T : f[p] = puts[p][b] /\ f[p] \in Int
    BY <1>1, FS_RemoveElement
  <2>. HIDE DEF T
  <2>2. PutInto(b, puts, T) = Total(f, T)
    BY <2>1, PutIsTotal
  <2>3. Total(f, T \cup {q}) = Total(f, T) + f[q]
    BY <2>1, TotalAdd
  <2>4. PutInto(b, puts, S) = PutInto(b, puts, T) + puts[q][b]
    BY <1>1, <1>2, <2>1, <2>2, <2>3
  <2>. QED  BY <2>4 DEF T
<1>4. ASSUME NEW more, \A p \in S : more[p] = puts[p]
      PROVE  PutInto(b, more, S) = PutInto(b, puts, S)
  <2>1. \A p \in S : f[p] = more[p][b] /\ f[p] \in Int
    BY <1>1, <1>4
  <2>. QED  BY <1>2, <2>1, PutIsTotal
<1>. QED  BY <1>2, <1>3, <1>4

\* Type correctness of the LP manager.
ManagerTypeOK ==
    /\ positions \in Seq([bins : SUBSET Bins, active : BOOLEAN])
    /\ put \in Seq([Bins -> Nat])
    /\ Len(put) = Len(positions)
    /\ lpTokens \in [Bins -> Nat]
    /\ leftover \subseteq Bins
\* The inductive invariant of the LP manager.
ManagerInv == ManagerTypeOK /\ PositionsInStep

\* The active positions of a bin are finitely many, with what they put in.
LEMMA ActiveFinite ==
    ASSUME ManagerTypeOK, NEW b \in Bins
    PROVE  IsFiniteSet(ActiveIn(b)) /\ \A p \in ActiveIn(b) : put[p][b] \in Int
<1>1. Len(positions) \in Nat /\ ActiveIn(b) \subseteq 1..Len(positions)
  BY DEF ActiveIn, ManagerTypeOK
<1>2. IsFiniteSet(1..Len(positions))
  BY <1>1, PositionsFinite
<1>3. \A p \in 1..Len(positions) : put[p] \in [Bins -> Nat]
  BY DEF ManagerTypeOK
<1>. QED  BY <1>1, <1>2, <1>3, FS_Subset

\* The invariant of the LP manager holds at the start.
LEMMA ManagerInitInv == ManagerInit => ManagerInv
<1>. SUFFICES ASSUME ManagerInit PROVE ManagerInv
  OBVIOUS
<1>1. ManagerTypeOK
  BY DEF ManagerInit, ManagerTypeOK
<1>2. ASSUME NEW b \in Bins PROVE lpTokens[b] <= PutInto(b, put, ActiveIn(b))
  <2>1. ActiveIn(b) = {}
    BY DEF ManagerInit, ActiveIn
  <2>. DEFINE f == [p \in {} |-> 0]
  <2>2. PutInto(b, put, {}) = Total(f, {})
    BY FS_EmptySet, PutIsTotal
  <2>3. Total(f, {}) = 0
    BY TotalEmpty
  <2>. QED  BY <2>1, <2>2, <2>3 DEF ManagerInit
<1>. QED  BY <1>1, <1>2 DEF ManagerInv, PositionsInStep

\* The lists are functions of the same places.
LEMMA PositionsPut ==
    ASSUME ManagerInv
    PROVE  /\ ManagerTypeOK /\ Len(positions) \in Nat
           /\ positions \in [1..Len(positions) -> [bins : SUBSET Bins, active : BOOLEAN]]
           /\ put \in [1..Len(positions) -> [Bins -> Nat]]
<1>1. ManagerTypeOK
  BY DEF ManagerInv
<1>2. positions \in Seq([bins : SUBSET Bins, active : BOOLEAN])
  BY <1>1 DEF ManagerTypeOK
<1>3. put \in Seq([Bins -> Nat]) /\ Len(put) = Len(positions)
  BY <1>1 DEF ManagerTypeOK
<1>4. \A T, q : q \in Seq(T) => Len(q) \in Nat /\ q \in [1..Len(q) -> T]
  OBVIOUS
<1>5. Len(positions) \in Nat
      /\ positions \in [1..Len(positions) -> [bins : SUBSET Bins, active : BOOLEAN]]
  BY <1>2, <1>4
<1>6. put \in [1..Len(put) -> [Bins -> Nat]]
  BY <1>3, <1>4
<1>. QED  BY <1>1, <1>3, <1>5, <1>6

\* A deposit puts into a bin what its position puts in.
LEMMA DepositKeepsInv ==
    ASSUME ManagerInv, NEW asked, NEW ids \in SUBSET Bins, Deposit(asked, ids)
    PROVE  ManagerInv'
<1>. DEFINE n == Len(positions)
            new == [b \in Bins |-> IF b \in ids THEN 1 ELSE 0]
<1>0. ManagerTypeOK /\ n \in Nat /\ positions \in [1..n -> [bins : SUBSET Bins, active : BOOLEAN]]
      /\ put \in [1..n -> [Bins -> Nat]]
  BY PositionsPut
<1>1. /\ positions' = Append(positions, [bins |-> ids, active |-> TRUE])
      /\ put' = Append(put, new) /\ new \in [Bins -> Nat]
      /\ lpTokens' = [b \in Bins |-> lpTokens[b] + new[b]]
      /\ leftover' = leftover
  BY DEF Deposit, DepositBins
<1>. HIDE DEF new
<1>2. ManagerTypeOK'
  <2>1. positions' \in Seq([bins : SUBSET Bins, active : BOOLEAN]) /\ Len(positions') = n + 1
    BY <1>0, <1>1 DEF ManagerTypeOK
  <2>2. put' \in Seq([Bins -> Nat]) /\ Len(put') = n + 1
    BY <1>0, <1>1 DEF ManagerTypeOK
  <2>3. lpTokens' \in [Bins -> Nat]
    BY <1>0, <1>1 DEF ManagerTypeOK
  <2>. QED  BY <1>0, <1>1, <2>1, <2>2, <2>3 DEF ManagerTypeOK
<1>3. ASSUME NEW b \in Bins, b \notin leftover
      PROVE  lpTokens'[b] <= PutInto(b, put', ActiveIn(b)')
  <2>. DEFINE A == ActiveIn(b)
  <2>1. /\ IsFiniteSet(A) /\ \A p \in A : put[p][b] \in Int
        /\ A \subseteq 1..n
        /\ lpTokens[b] <= PutInto(b, put, A) /\ lpTokens[b] \in Nat
    BY <1>0, <1>3, ActiveFinite DEF ManagerInv, ManagerTypeOK, PositionsInStep, ActiveIn
  <2>2. \A p \in A : put'[p] = put[p]
    BY <1>0, <1>1, <2>1
  <2>3. PutInto(b, put', A) = PutInto(b, put, A) /\ PutInto(b, put, A) \in Int
    BY <2>1, <2>2, PutChanges
  <2>4. put'[n + 1] = new
    BY <1>0, <1>1
  <2>5. \A p \in 1..n : positions'[p] = positions[p]
    BY <1>0, <1>1
  <2>6. positions'[n + 1] = [bins |-> ids, active |-> TRUE]
    BY <1>0, <1>1
  <2>7. DOMAIN positions' = 1..(n + 1) /\ DOMAIN positions = 1..n
    BY <1>0, <1>1
  <2>8. ActiveIn(b)' = IF b \in ids THEN A \cup {n + 1} ELSE A
    BY <1>0, <2>5, <2>6, <2>7 DEF ActiveIn
  <2>9. CASE b \in ids
    <3>. DEFINE S == A \cup {n + 1}
    <3>1. IsFiniteSet(S) /\ \A p \in S : put'[p][b] \in Int
      <4>1. put'[n + 1][b] \in Int
        BY <1>1, <2>4
      <4>2. IsFiniteSet(S)
        BY <2>1, FS_AddElement, FS_Subset
      <4>. QED  BY <2>1, <2>2, <4>1, <4>2
    <3>2. n + 1 \in S /\ S \ {n + 1} = A
      BY <1>0, <2>1
    <3>. HIDE DEF S
    <3>3. PutInto(b, put', S) = PutInto(b, put', S \ {n + 1}) + put'[n + 1][b]
      BY <3>1, <3>2, PutChanges
    <3>4. new[b] = 1
      BY <2>9 DEF new
    <3>5. ActiveIn(b)' = S
      BY <2>8, <2>9 DEF S
    <3>6. lpTokens'[b] = lpTokens[b] + 1
      BY <1>1, <3>4
    <3>7. lpTokens'[b] <= PutInto(b, put', S)
      <4>. HIDE DEF A
      <4>1. PutInto(b, put', S) = PutInto(b, put', A) + 1
        BY <2>4, <3>2, <3>3, <3>4
      <4>. QED  BY <2>1, <2>3, <3>6, <4>1
    <3>. QED  BY <3>5, <3>7
  <2>10. CASE b \notin ids
    <3>1. new[b] = 0 /\ ActiveIn(b)' = A
      BY <2>8, <2>10 DEF new
    <3>2. lpTokens'[b] = lpTokens[b] + new[b]
      BY <1>1
    <3>3. lpTokens'[b] <= PutInto(b, put', A)
      <4>. HIDE DEF A
      <4>. QED  BY <2>1, <2>3, <3>1, <3>2
    <3>. QED  BY <3>1, <3>3
  <2>. QED  BY <2>9, <2>10
<1>. QED  BY <1>1, <1>2, <1>3 DEF ManagerInv, PositionsInStep

\* A removal takes at least what its position put in, or is remembered.
LEMMA RemovalKeepsInv ==
    ASSUME ManagerInv, NEW p \in DOMAIN positions, NEW amounts, NEW paid,
           amounts \in [positions[p].bins -> 0..MaxPositions],
           RemoveLiquidity(p, amounts, paid)
    PROVE  ManagerInv'
<1>. DEFINE n == Len(positions)
            bins == positions[p].bins
<1>0. /\ ManagerTypeOK /\ n \in Nat
      /\ positions \in [1..n -> [bins : SUBSET Bins, active : BOOLEAN]]
      /\ put \in [1..n -> [Bins -> Nat]]
      /\ p \in 1..n /\ positions[p].active /\ bins \subseteq Bins
  BY PositionsPut DEF RemoveLiquidity, Live
<1>1. /\ \A b \in bins : amounts[b] \in Nat /\ amounts[b] <= lpTokens[b]
      /\ lpTokens' = [b \in Bins |-> IF b \in bins THEN lpTokens[b] - amounts[b] ELSE lpTokens[b]]
      /\ positions' = [positions EXCEPT ![p].active = FALSE]
      /\ leftover' = leftover \cup {b \in bins : amounts[b] < put[p][b]}
      /\ put' = put
  BY LPManagerBounds DEF RemoveLiquidity
<1>2. ManagerTypeOK'
  <2>1. positions' \in Seq([bins : SUBSET Bins, active : BOOLEAN]) /\ Len(positions') = n
    <3>1. positions' \in [1..n -> [bins : SUBSET Bins, active : BOOLEAN]]
      BY <1>0, <1>1
    <3>. DEFINE P == [bins : SUBSET Bins, active : BOOLEAN]
    <3>2. positions' \in [1..n -> P]
      BY <3>1
    <3>. HIDE DEF P, n
    <3>3. positions' \in Seq(P) /\ Len(positions') = n
      BY <1>0, <3>2
    <3>. QED  BY <3>3 DEF P
  <2>2. lpTokens' \in [Bins -> Nat]
    BY <1>0, <1>1 DEF ManagerTypeOK
  <2>. QED  BY <1>0, <1>1, <2>1, <2>2 DEF ManagerTypeOK
<1>3. ASSUME NEW b \in Bins, b \notin leftover'
      PROVE  lpTokens'[b] <= PutInto(b, put, ActiveIn(b)')
  <2>. DEFINE A == ActiveIn(b)
  <2>1. /\ IsFiniteSet(A) /\ \A q \in A : put[q][b] \in Int
        /\ lpTokens[b] <= PutInto(b, put, A) /\ lpTokens[b] \in Nat
    BY <1>0, <1>1, <1>3, ActiveFinite DEF ManagerInv, ManagerTypeOK, PositionsInStep
  <2>2. /\ PutInto(b, put, A) \in Int
        /\ \A q \in A : PutInto(b, put, A) = PutInto(b, put, A \ {q}) + put[q][b]
    BY <2>1, PutChanges
  <2>3. ActiveIn(b)' = A \ {p}
    BY <1>0, <1>1 DEF ActiveIn
  <2>4. CASE b \in bins
    <3>1. p \in A /\ put[p][b] \in Nat /\ amounts[b] >= put[p][b]
      BY <1>0, <1>1, <1>3, <2>4 DEF ActiveIn
    <3>2. lpTokens'[b] = lpTokens[b] - amounts[b]
      BY <1>1, <2>4
    <3>3. IsFiniteSet(A \ {p}) /\ \A q \in A \ {p} : put[q][b] \in Int
      BY <2>1, FS_RemoveElement
    <3>4. PutInto(b, put, A \ {p}) \in Int
      BY <3>3, PutChanges
    <3>. HIDE DEF A
    <3>. QED  BY <1>1, <2>1, <2>2, <2>3, <2>4, <3>1, <3>2, <3>4
  <2>5. CASE b \notin bins
    <3>1. A \ {p} = A /\ lpTokens'[b] = lpTokens[b]
      BY <1>1, <2>5 DEF ActiveIn
    <3>. QED  BY <2>1, <2>3, <3>1
  <2>. QED  BY <2>4, <2>5
<1>4. put' = put
  BY <1>1
<1>. QED  BY <1>2, <1>3, <1>4 DEF ManagerInv, PositionsInStep

\* Every transaction keeps the tokens of a bin within its active positions.
LEMMA ManagerNextInv == ManagerInv /\ [ManagerNext]_managerVars => ManagerInv'
<1>. SUFFICES ASSUME ManagerInv, [ManagerNext]_managerVars PROVE ManagerInv'
  OBVIOUS
<1>1. ASSUME NEW asked \in BinSets, NEW ids \in BinSets, NEW k,
             AddLiquidity(asked, ids, k) \/ \E refund \in 0..1 :
                AddLiquidityNATIVE(asked, ids, k, refund)
      PROVE  ManagerInv'
  <2>1. Deposit(asked, ids) /\ ids \in SUBSET Bins
    BY <1>1 DEF AddLiquidity, AddLiquidityNATIVE, BinSets
  <2>. QED  BY <2>1, DepositKeepsInv
<1>2. ASSUME NEW p \in DOMAIN positions,
             NEW amounts \in [positions[p].bins -> 0..MaxPositions], NEW paid \in 0..1,
             RemoveLiquidity(p, amounts, paid)
      PROVE  ManagerInv'
  BY <1>2, RemovalKeepsInv
<1>3. ASSUME UNCHANGED <<positions, lpTokens, put, leftover>> PROVE ManagerInv'
  BY <1>3 DEF ManagerInv, ManagerTypeOK, PositionsInStep, ActiveIn
<1>. QED
  BY <1>1, <1>2, <1>3 DEF ManagerNext, CollectFees, RecoverTokens, RecoverNative, managerVars

\* However entries are added and removed, and however positions share bins: reading the
\* registry gives every entry once, and nothing lies in a bin that no position can burn.
THEOREM ContractsStayInStep == EdgeSpec => []ContractsInStep
<1>1. EdgeInit => RegistryInv /\ ManagerInv
  BY RegistryInitInv, ManagerInitInv DEF EdgeInit
<1>2. RegistryInv /\ ManagerInv /\ [EdgeNext]_edgeVars => RegistryInv' /\ ManagerInv'
  BY RegistryNextInv, ManagerNextInv, EachByItself
<1>3. RegistryInv /\ ManagerInv => ContractsInStep
  BY RegistryReads DEF ManagerInv, ContractsInStep
<1>. QED  BY <1>1, <1>2, <1>3, PTL DEF EdgeSpec

-----------------------------------------------------------------------------
(* The migrations *)

\* The records of runs of the set-up script.
SetupRuns == [at : {"idle", "look", "create", "table", "next", "apply", "record", "done", "failed"},
              file : 0..Migrations, applied : SUBSET Files, alone : BOOLEAN]
\* A run that is under way.
Running(e) == e.at \notin {"idle", "done", "failed"}

\* How far a run has come, with the tables and records there are: the files before its
\* own are recorded.  One that is alone knows the database and the records.
RunOK(e, db, mig, rec) ==
    /\ e \in SetupRuns
    /\ e.applied \subseteq rec
    /\ e.at \in {"look", "create", "table"} => e.file = 0
    /\ e.at = "next" => 1..e.file \subseteq rec
    /\ e.at \in {"apply", "record"} => e.file > 0 /\ 1..(e.file - 1) \subseteq rec
    /\ e.at = "record" => e.file \in mig
    /\ e.at = "done" => rec = Files
    /\ e.at = "failed" => ~e.alone
    /\ e.alone /\ e.at = "create" => ~db
    /\ e.alone /\ e.at = "next" => \A f \in rec \ e.applied : f <= e.file
    /\ e.alone /\ e.at \in {"apply", "record"} => \A f \in rec \ e.applied : f < e.file
    /\ e.alone /\ e.at \in {"apply", "record"} => e.file \notin e.applied

\* What is recorded was applied, and the files were applied in their order.
TablesOK(mig, rec) ==
    /\ mig \subseteq Files
    /\ rec \subseteq mig
    /\ \A f \in mig : 1..f \subseteq mig

\* The inductive invariant of the set-up script.
SetupInv ==
    /\ TablesOK(migrated, recorded)
    /\ database \in BOOLEAN
    /\ setup = [s \in Setups |-> setup[s]]
    /\ \A s \in Setups : RunOK(setup[s], database, migrated, recorded)
    /\ \A s, t \in Setups : s # t /\ setup[s].alone /\ Running(setup[s]) => ~Running(setup[t])

\* A run that has not begun, or has died, knows nothing.
LEMMA NothingRuns ==
    ASSUME NEW db, NEW mig, NEW rec
    PROVE  RunOK(NoSetup, db, mig, rec) /\ ~Running(NoSetup)
BY DbSetupConstants DEF RunOK, SetupRuns, NoSetup, Running

\* The invariant of the set-up script holds at the start.
LEMMA SetupInitInv == DbSetupInit => SetupInv
<1>. SUFFICES ASSUME DbSetupInit PROVE SetupInv
  OBVIOUS
<1>1. TablesOK(migrated, recorded) /\ database \in BOOLEAN
  BY DEF DbSetupInit, TablesOK
<1>2. \A s \in Setups : setup[s] = NoSetup
  BY DEF DbSetupInit
<1>3. setup = [s \in Setups |-> setup[s]]
  BY DEF DbSetupInit
<1>. QED  BY <1>1, <1>2, <1>3, NothingRuns DEF SetupInv

\* The invariant of the set-up script implies the property.
LEMMA SetupSafe == SetupInv => SetupIsRepeatable
BY DEF SetupInv, TablesOK, RunOK, SetupIsRepeatable

\* While a run does not move, others may add tables and records, unless it is alone.
LEMMA RunStays ==
    ASSUME NEW e, NEW db, NEW mig, NEW rec, RunOK(e, db, mig, rec),
           NEW db2, NEW mig2, NEW rec2, mig \subseteq mig2, rec \subseteq rec2,
           rec2 \subseteq Files,
           e.alone /\ Running(e) => db2 = db /\ rec2 = rec
    PROVE  RunOK(e, db2, mig2, rec2)
BY DEF RunOK, Running

\* One run moves, from one place where it runs.
LEMMA OneRunMoves ==
    ASSUME SetupInv, NEW s \in Setups, NEW e, Running(setup[s]),
           setup' = [setup EXCEPT ![s] = e],
           e.alone = setup[s].alone,
           RunOK(e, database', migrated', recorded'),
           migrated \subseteq migrated', recorded \subseteq recorded',
           TablesOK(migrated', recorded'), database' \in BOOLEAN
    PROVE  SetupInv'
<1>1. setup' = [t \in Setups |-> setup'[t]] /\ setup'[s] = e
      /\ \A t \in Setups \ {s} : setup'[t] = setup[t]
  BY DEF SetupInv
<1>2. recorded' \subseteq Files
  BY DEF TablesOK
<1>3. ASSUME NEW t \in Setups \ {s} PROVE RunOK(setup[t], database', migrated', recorded')
  <2>1. ~(setup[t].alone /\ Running(setup[t]))
    BY DEF SetupInv
  <2>2. RunOK(setup[t], database, migrated, recorded)
    BY DEF SetupInv
  <2>. QED  BY <1>2, <2>1, <2>2, RunStays
<1>4. \A t \in Setups : RunOK(setup'[t], database', migrated', recorded')
  BY <1>1, <1>3
<1>5. \A t, u \in Setups : t # u /\ setup'[t].alone /\ Running(setup'[t]) => ~Running(setup'[u])
  <2>1. ASSUME NEW t \in Setups \ {s} PROVE ~(setup[t].alone /\ Running(setup[t]))
    BY DEF SetupInv
  <2>2. ASSUME NEW t \in Setups \ {s}, setup[s].alone PROVE ~Running(setup[t])
    BY <2>2 DEF SetupInv
  <2>. QED  BY <1>1, <2>1, <2>2
<1>6. TablesOK(migrated, recorded)'
  BY DEF TablesOK, Files
<1>7. \A t \in Setups : RunOK(setup[t], database, migrated, recorded)'
  BY <1>4 DEF RunOK, SetupRuns, Files
<1>. QED  BY <1>1, <1>5, <1>6, <1>7 DEF SetupInv, Running

\* A run that starts beside others is not alone, and neither are they.
LEMMA SetupStarts ==
    ASSUME SetupInv, NEW s \in Setups, StartSetup(s)
    PROVE  SetupInv'
<1>. DEFINE others == {t \in Setups \ {s} : Busy(t)}
            first == [NoSetup EXCEPT !.at = "look", !.alone = others = {}]
<1>1. /\ ~Busy(s)
      /\ setup' = [t \in Setups |-> CASE t = s -> first
                                      [] t \in others -> [setup[t] EXCEPT !.alone = FALSE]
                                      [] OTHER -> setup[t]]
      /\ UNCHANGED <<database, migrated, recorded>>
  BY DEF StartSetup
<1>2. /\ setup'[s] = first
      /\ \A t \in others : setup'[t] = [setup[t] EXCEPT !.alone = FALSE]
      /\ \A t \in Setups \ {s} : t \notin others => setup'[t] = setup[t]
  BY <1>1
<1>3. first = [at |-> "look", file |-> 0, applied |-> {}, alone |-> others = {}]
  <2>1. ASSUME NEW x, NEW q, q = [NoSetup EXCEPT !.at = "look", !.alone = x]
        PROVE  q = [at |-> "look", file |-> 0, applied |-> {}, alone |-> x]
    <3>1. NoSetup \in SetupRuns
      BY NothingRuns DEF RunOK
    <3>2. NoSetup.file = 0 /\ NoSetup.applied = {}
      BY DEF NoSetup
    <3>. QED  BY <2>1, <3>1, <3>2 DEF SetupRuns
  <2>. HIDE DEF others
  <2>. QED  BY <2>1
<1>4. RunOK(first, database, migrated, recorded)
  <2>1. first \in SetupRuns
    <3>1. \A x \in BOOLEAN :
              [at |-> "look", file |-> 0, applied |-> {}, alone |-> x] \in SetupRuns
      BY DbSetupConstants DEF SetupRuns
    <3>2. (others = {}) \in BOOLEAN
      OBVIOUS
    <3>. HIDE DEF first, others
    <3>. QED  BY <1>3, <3>1, <3>2
  <2>2. first.at = "look" /\ first.file = 0 /\ first.applied = {}
    BY <1>3
  <2>. HIDE DEF first
  <2>. QED  BY <2>1, <2>2 DEF RunOK
<1>5. ASSUME NEW t \in others
      PROVE  /\ RunOK(setup'[t], database, migrated, recorded)
             /\ ~setup'[t].alone
  <2>1. RunOK(setup[t], database, migrated, recorded)
    BY DEF SetupInv
  <2>2. setup'[t] = [at |-> setup[t].at, file |-> setup[t].file, applied |-> setup[t].applied,
                     alone |-> FALSE]
    BY <1>2, <2>1 DEF RunOK, SetupRuns
  <2>. QED  BY <2>1, <2>2 DEF RunOK, SetupRuns
<1>6. \A t \in Setups : RunOK(setup'[t], database, migrated, recorded)
  BY <1>2, <1>4, <1>5 DEF SetupInv
<1>7. ASSUME NEW t \in Setups, NEW u \in Setups, t # u, setup'[t].alone, Running(setup'[t])
      PROVE  ~Running(setup'[u])
  <2>1. t \notin others
    BY <1>5, <1>7
  <2>2. t = s
    BY <1>2, <1>7, <2>1 DEF Busy, Running
  <2>3. others = {}
    BY <1>2, <1>3, <1>7, <2>2
  <2>4. setup'[u] = setup[u] /\ ~Busy(u)
    BY <1>2, <1>7, <2>2, <2>3
  <2>. QED  BY <2>4 DEF Busy, Running
<1>8. setup' = [t \in Setups |-> setup'[t]]
  BY <1>1
<1>9. \A t \in Setups : RunOK(setup[t], database, migrated, recorded)'
  <2>1. ASSUME NEW e, RunOK(e, database, migrated, recorded)
        PROVE  RunOK(e, database, migrated, recorded)'
    BY <1>1, <2>1 DEF RunOK, SetupRuns, Files
  <2>2. ASSUME NEW t \in Setups PROVE RunOK(setup'[t], database', migrated', recorded')
    BY <1>1, <1>6
  <2>. QED  BY <2>2 DEF RunOK, SetupRuns, Files
<1>10. TablesOK(migrated, recorded)'
  BY <1>1 DEF SetupInv, TablesOK, Files
<1>. QED  BY <1>1, <1>7, <1>8, <1>9, <1>10 DEF SetupInv, Running

\* Every query keeps the tables in step with their records.
LEMMA SetupNextInv == SetupInv /\ [DbSetupNext]_dbVars => SetupInv'
<1>. SUFFICES ASSUME SetupInv, [DbSetupNext]_dbVars PROVE SetupInv'
  OBVIOUS
<1>0. /\ TablesOK(migrated, recorded)
      /\ \A s \in Setups : RunOK(setup[s], database, migrated, recorded)
      /\ database \in BOOLEAN
  BY DEF SetupInv
<1>1. ASSUME NEW s \in Setups, LookForDatabase(s) PROVE SetupInv'
  <2>. DEFINE e == [setup[s] EXCEPT !.at = IF database THEN "table" ELSE "create"]
  <2>1. setup' = [setup EXCEPT ![s] = e] /\ Running(setup[s])
    BY <1>1 DEF LookForDatabase, MoveSetup, Running
  <2>2. e.alone = setup[s].alone /\ RunOK(e, database', migrated', recorded')
    BY <1>0, <1>1 DEF LookForDatabase, RunOK, SetupRuns, Files
  <2>. HIDE DEF e
  <2>. QED  BY <1>0, <1>1, <2>1, <2>2, OneRunMoves DEF LookForDatabase
<1>2. ASSUME NEW s \in Setups, CreateDatabase(s) PROVE SetupInv'
  <2>. DEFINE e == [setup[s] EXCEPT !.at = IF database THEN "failed" ELSE "table"]
  <2>1. setup' = [setup EXCEPT ![s] = e] /\ Running(setup[s])
    BY <1>2 DEF CreateDatabase, MoveSetup, Running
  <2>2. e.alone = setup[s].alone /\ RunOK(e, database', migrated', recorded')
    BY <1>0, <1>2 DEF CreateDatabase, RunOK, SetupRuns, Files
  <2>. HIDE DEF e
  <2>. QED  BY <1>0, <1>2, <2>1, <2>2, OneRunMoves DEF CreateDatabase
<1>3. ASSUME NEW s \in Setups, CreateCollides(s) PROVE SetupInv'
  <2>. DEFINE e == [setup[s] EXCEPT !.at = "failed"]
  <2>1. setup' = [setup EXCEPT ![s] = e] /\ Running(setup[s])
    BY <1>3 DEF CreateCollides, MoveSetup, Running
  <2>2. ~setup[s].alone
    <3>1. PICK t \in Setups \ {s} : setup[t].at = setup[s].at
      BY <1>3 DEF CreateCollides
    <3>. QED  BY <2>1, <3>1 DEF SetupInv, Running
  <2>3. e.alone = setup[s].alone /\ RunOK(e, database', migrated', recorded')
    BY <1>0, <1>3, <2>2 DEF CreateCollides, RunOK, SetupRuns, Files
  <2>. HIDE DEF e
  <2>. QED  BY <1>0, <1>3, <2>1, <2>3, OneRunMoves DEF CreateCollides
<1>4. ASSUME NEW s \in Setups, ReadRecords(s) PROVE SetupInv'
  <2>0. PICK e : e = [setup[s] EXCEPT !.at = "next", !.applied = recorded]
    OBVIOUS
  <2>1. setup' = [setup EXCEPT ![s] = e] /\ Running(setup[s])
    BY <1>4, <2>0 DEF ReadRecords, Running
  <2>2. e = [at |-> "next", file |-> setup[s].file, applied |-> recorded,
             alone |-> setup[s].alone]
    <3>1. setup[s] \in SetupRuns
      BY <1>0 DEF RunOK
    <3>. QED  BY <2>0, <3>1 DEF SetupRuns
  <2>3. e.alone = setup[s].alone /\ RunOK(e, database', migrated', recorded')
    BY <1>0, <1>4, <2>2 DEF ReadRecords, RunOK, SetupRuns, TablesOK
  <2>. QED  BY <1>0, <1>4, <2>1, <2>3, OneRunMoves DEF ReadRecords
<1>5. ASSUME NEW s \in Setups, NextFile(s) PROVE SetupInv'
  <2>. DEFINE v == setup[s]
  <2>0. /\ RunOK(v, database, migrated, recorded) /\ v.at = "next" /\ v.file \in 0..Migrations
        /\ v \in SetupRuns /\ Running(v)
    BY <1>0, <1>5 DEF NextFile, RunOK, SetupRuns, Running
  <2>1. CASE v.file = Migrations
    <3>. DEFINE e == [v EXCEPT !.at = "done"]
    <3>1. setup' = [setup EXCEPT ![s] = e]
      BY <1>5, <2>1 DEF NextFile, MoveSetup
    <3>2. recorded = Files
      BY <1>0, <2>0, <2>1 DEF RunOK, TablesOK, Files
    <3>3. e.alone = v.alone /\ RunOK(e, database', migrated', recorded')
      BY <1>5, <2>0, <3>2 DEF NextFile, RunOK, SetupRuns, Files
    <3>. HIDE DEF e
    <3>. QED  BY <1>0, <1>5, <2>0, <3>1, <3>3, OneRunMoves DEF NextFile
  <2>2. CASE v.file # Migrations
    <3>. DEFINE at == IF v.file + 1 \in v.applied THEN "next" ELSE "apply"
    <3>0. PICK e : e = [v EXCEPT !.file = @ + 1, !.at = at]
      OBVIOUS
    <3>1. setup' = [setup EXCEPT ![s] = e]
      BY <1>5, <2>2, <3>0 DEF NextFile
    <3>2. e = [at |-> at, file |-> v.file + 1, applied |-> v.applied, alone |-> v.alone]
      <4>. HIDE DEF at, v
      <4>. QED  BY <2>0, <3>0 DEF SetupRuns
    <3>3. v.file + 1 \in 1..Migrations /\ v.file + 1 - 1 = v.file
      BY <2>0, <2>2, DbSetupConstants
    <3>4. e.alone = v.alone /\ RunOK(e, database, migrated, recorded)
      <4>. DEFINE n == v.file + 1
      <4>0. /\ e \in SetupRuns /\ e.file = n /\ e.applied = v.applied /\ e.alone = v.alone
            /\ e.at = IF n \in v.applied THEN "next" ELSE "apply"
            /\ n \in Nat /\ n > 0 /\ n - 1 = v.file
        BY <2>0, <3>2, <3>3, DbSetupConstants DEF SetupRuns
      <4>1. \A f \in recorded : f \in Int
        BY <1>0 DEF TablesOK, Files
      <4>2. 1..n = 1..(n - 1) \cup {n} /\ n - 1 < n /\ \A f \in Int : f <= n - 1 <=> f < n
        BY <4>0
      <4>3. /\ v.applied \subseteq recorded /\ 1..(n - 1) \subseteq recorded
            /\ v.alone => \A f \in recorded \ v.applied : f <= n - 1
        BY <2>0, <4>0 DEF RunOK
      <4>. HIDE DEF n, v
      <4>4. CASE n \in v.applied
        BY <4>0, <4>1, <4>2, <4>3, <4>4 DEF RunOK
      <4>5. CASE n \notin v.applied
        BY <4>0, <4>1, <4>2, <4>3, <4>5 DEF RunOK
      <4>. QED  BY <4>4, <4>5
    <3>. QED  BY <1>0, <1>5, <2>0, <3>1, <3>4, OneRunMoves DEF NextFile
  <2>. QED  BY <2>1, <2>2
<1>6. ASSUME NEW s \in Setups, ApplyFile(s) PROVE SetupInv'
  <2>. DEFINE e == [setup[s] EXCEPT !.at = "record"]
  <2>1. setup' = [setup EXCEPT ![s] = e] /\ Running(setup[s])
    BY <1>6 DEF ApplyFile, MoveSetup, Running
  <2>2. e.alone = setup[s].alone /\ RunOK(e, database', migrated', recorded')
    BY <1>0, <1>6 DEF ApplyFile, RunOK, SetupRuns, Files
  <2>3. TablesOK(migrated', recorded')
    <3>1. /\ setup[s].file \in 1..Migrations
          /\ 1..(setup[s].file - 1) \subseteq recorded
      BY <1>0, <1>6, DbSetupConstants DEF ApplyFile, RunOK, SetupRuns
    <3>2. migrated' = migrated \cup {setup[s].file} /\ recorded' = recorded
      BY <1>6 DEF ApplyFile
    <3>3. 1..setup[s].file \subseteq migrated'
      BY <1>0, <3>1, <3>2 DEF TablesOK
    <3>. QED  BY <1>0, <3>1, <3>2, <3>3 DEF TablesOK, Files
  <2>. HIDE DEF e
  <2>. QED  BY <1>0, <1>6, <2>1, <2>2, <2>3, OneRunMoves DEF ApplyFile
<1>7. ASSUME NEW s \in Setups, RecordFile(s) PROVE SetupInv'
  <2>. DEFINE v == setup[s]
              at == IF v.file \in recorded THEN "failed" ELSE "next"
              e == [v EXCEPT !.at = at]
  <2>0. /\ RunOK(v, database, migrated, recorded) /\ v.at = "record" /\ v.file \in 1..Migrations
        /\ v \in SetupRuns /\ Running(v)
    BY <1>0, <1>7, DbSetupConstants DEF RecordFile, RunOK, SetupRuns, Running
  <2>1. /\ setup' = [setup EXCEPT ![s] = e]
        /\ recorded' = recorded \cup {v.file} /\ migrated' = migrated /\ database' = database
    BY <1>7 DEF RecordFile, MoveSetup
  <2>2. e = [at |-> at, file |-> v.file, applied |-> v.applied, alone |-> v.alone]
    <3>. HIDE DEF at, v
    <3>. QED  BY <2>0 DEF SetupRuns
  <2>3. v.file \in recorded => ~v.alone
    BY <2>0 DEF RunOK
  <2>4. 1..v.file \subseteq recorded'
    BY <2>0, <2>1 DEF RunOK
  <2>5. RunOK(e, database', migrated', recorded')
    <3>1. /\ e \in SetupRuns /\ e.file = v.file /\ e.applied = v.applied /\ e.alone = v.alone
          /\ e.at = IF v.file \in recorded THEN "failed" ELSE "next"
          /\ v.file \in Int
      BY <2>0, <2>2 DEF SetupRuns
    <3>2. /\ v.applied \subseteq recorded'
          /\ v.alone => \A f \in recorded' \ v.applied : f <= v.file
      <4>1. \A f \in recorded : f \in Int
        BY <1>0 DEF TablesOK, Files
      <4>2. v.alone => \A f \in recorded \ v.applied : f < v.file
        BY <2>0 DEF RunOK
      <4>3. v.applied \subseteq recorded
        BY <2>0 DEF RunOK
      <4>. QED  BY <2>1, <3>1, <4>1, <4>2, <4>3
    <3>. HIDE DEF e, v, at
    <3>. QED  BY <2>3, <2>4, <3>1, <3>2 DEF RunOK
  <2>6. TablesOK(migrated', recorded')
    BY <1>0, <2>0, <2>1 DEF TablesOK, RunOK
  <2>7. e.alone = setup[s].alone
    BY <2>2
  <2>. HIDE DEF e
  <2>. QED  BY <1>0, <2>0, <2>1, <2>5, <2>6, <2>7, OneRunMoves
<1>8. ASSUME NEW s \in Setups, SetupDies(s) PROVE SetupInv'
  <2>1. /\ setup' = [t \in Setups |-> IF t = s THEN NoSetup ELSE setup[t]]
        /\ UNCHANGED <<database, migrated, recorded>>
    BY <1>8 DEF SetupDies, SetupInv
  <2>2. ASSUME NEW t \in Setups PROVE RunOK(setup'[t], database', migrated', recorded')
    BY <1>0, <2>1, NothingRuns
  <2>3. \A t \in Setups : RunOK(setup[t], database, migrated, recorded)'
    BY <2>2 DEF RunOK, SetupRuns, Files
  <2>4. \A t, u \in Setups :
            t # u /\ setup'[t].alone /\ Running(setup'[t]) => ~Running(setup'[u])
    BY <2>1, NothingRuns DEF SetupInv
  <2>5. setup' = [t \in Setups |-> setup'[t]]
    BY <2>1
  <2>6. TablesOK(migrated, recorded)'
    BY <1>0, <2>1 DEF TablesOK, Files
  <2>. QED  BY <1>0, <2>1, <2>3, <2>4, <2>5, <2>6 DEF SetupInv, Running
<1>9. CASE UNCHANGED dbVars
  BY <1>0, <1>9 DEF dbVars, SetupInv, RunOK, TablesOK, Running, SetupRuns, Files
<1>. QED
  BY <1>1, <1>2, <1>3, <1>4, <1>5, <1>6, <1>7, <1>8, <1>9, SetupStarts DEF DbSetupNext

-----------------------------------------------------------------------------
(* The liquidity scripts *)

\* The records of runs of the liquidity scripts.
LpRuns == [at : {"idle", "pools", "thresholds", "marking", "guards", "approve", "send", "over"},
           target : Targets \cup {<<"none", "none">>}, live : BOOLEAN, left : Int,
           passed : BOOLEAN, checked : BOOLEAN, sent : BOOLEAN, since : Nat]

\* A guarded run sends nothing before its guards, and after them it is a live run that
\* was let through, whose preview is not older than the hour and the time since.
JobOK(r, ages) ==
    /\ r \in LpRuns
    /\ r.since <= MaxRun
    /\ r.at = "guards" => r.live
    /\ r.target[1] \in Guarded =>
          /\ r.at \in {"idle", "thresholds", "marking", "guards", "pools"} => ~r.sent
          /\ r.at # "pools"
          /\ r.at \in {"approve", "send", "over"} \/ r.sent =>
                /\ r.live /\ r.passed /\ r.checked
                /\ ages[r.target] <= Hour + r.since

\* The inductive invariant of the liquidity scripts.
LpInv ==
    /\ marker \in [Targets -> 0..Never]
    /\ job = [j \in Jobs |-> job[j]]
    /\ \A j \in Jobs : JobOK(job[j], marker)

\* No script has begun.
LEMMA NothingStarted == ASSUME NEW ages PROVE JobOK(NoJob, ages)
BY LpScriptsBounds DEF JobOK, LpRuns, NoJob, Guarded

\* The invariant of the liquidity scripts holds at the start.
LEMMA LpInitInv == LpInit => LpInv
<1>. SUFFICES ASSUME LpInit PROVE LpInv
  OBVIOUS
<1>1. Never \in 0..Never
  BY LpScriptsBounds DEF Never
<1>. QED  BY <1>1, NothingStarted DEF LpInit, LpInv

\* The invariant of the liquidity scripts implies the property.
LEMMA LpSafe == LpInv => LiveRunsArePreviewed
BY DEF LpInv, JobOK, LiveRunsArePreviewed

\* A guarded target has a marker.
LEMMA GuardedMarked ==
    ASSUME NEW r \in LpRuns, r.target[1] \in Guarded
    PROVE  r.target \in Targets
BY DEF LpRuns, Guarded

\* One run moves; markers only become younger.
LEMMA OneJobMoves ==
    ASSUME LpInv, NEW j \in Jobs, NEW r, job' = [job EXCEPT ![j] = r],
           marker' \in [Targets -> 0..Never],
           \A t \in Targets : marker'[t] <= marker[t],
           JobOK(r, marker')
    PROVE  LpInv'
<1>1. job' = [k \in Jobs |-> job'[k]]
  BY DEF LpInv
<1>2. ASSUME NEW q, JobOK(q, marker) PROVE JobOK(q, marker')
  <2>1. q \in LpRuns
    BY <1>2 DEF JobOK
  <2>2. CASE q.target[1] \in Guarded
    <3>1. q.target \in Targets
      BY <2>1, <2>2, GuardedMarked
    <3>2. /\ marker[q.target] \in Int /\ marker'[q.target] \in Int
          /\ marker'[q.target] <= marker[q.target] /\ Hour + q.since \in Int
      BY <2>1, <3>1, LpScriptsBounds DEF LpInv, LpRuns
    <3>. QED  BY <1>2, <3>2 DEF JobOK
  <2>3. CASE q.target[1] \notin Guarded
    BY <1>2, <2>3 DEF JobOK
  <2>. QED  BY <2>2, <2>3
<1>3. ASSUME NEW k \in Jobs PROVE JobOK(job'[k], marker')
  <2>1. CASE k = j
    BY <2>1 DEF LpInv
  <2>2. CASE k # j
    BY <1>2, <2>2 DEF LpInv
  <2>. QED  BY <2>1, <2>2
<1>4. \A k \in Jobs : JobOK(job[k], marker)'
  BY <1>3 DEF JobOK, LpRuns, Guarded
<1>5. (marker \in [Targets -> 0..Never])'
  BY DEF Never
<1>. QED  BY <1>1, <1>4, <1>5 DEF LpInv

\* A tick makes the markers of the runs that were let through no older than it makes
\* the runs.
LEMMA TickKeepsInv == LpInv /\ LpTick => LpInv'
<1>. SUFFICES ASSUME LpInv, LpTick PROVE LpInv'
  OBVIOUS
<1>1. marker' \in [Targets -> 0..Never]
  BY LpScriptsBounds DEF LpTick, LpInv, Never
<1>2. ASSUME NEW j \in Jobs PROVE JobOK(job'[j], marker')
  <2>. DEFINE v == job[j]
  <2>0. v \in LpRuns /\ JobOK(v, marker) /\ v.since < MaxRun
    BY DEF LpInv, JobOK, LpTick
  <2>1. CASE v.target[1] \in Guarded
    <3>1. v.target \in Targets
      BY <2>0, <2>1, GuardedMarked
    <3>2. marker[v.target] \in 0..Never
      BY <3>1 DEF LpInv
    <3>. DEFINE m == marker[v.target]
    <3>3. marker'[v.target] = IF m = Never THEN Never ELSE m + 1
      BY <3>1 DEF LpTick
    <3>4. m \in Int /\ Hour \in Nat /\ MaxRun \in Nat /\ Never = Hour + MaxRun + 1
          /\ v.since \in Nat
      BY <2>0, <3>2, LpScriptsBounds DEF Never, LpRuns
    <3>. HIDE DEF m, v
    <3>5. CASE v.checked
      <4>1. job'[j] = [v EXCEPT !.since = @ + 1]
        BY <3>5 DEF LpTick, v
      <4>2. JobOK(job'[j], marker')
        <5>1. job'[j].since = v.since + 1 /\ job'[j] \in LpRuns
          BY <2>0, <4>1 DEF LpRuns
        <5>2. /\ job'[j].at = v.at /\ job'[j].target = v.target /\ job'[j].live = v.live
              /\ job'[j].passed = v.passed /\ job'[j].checked = v.checked
              /\ job'[j].sent = v.sent
          BY <2>0, <4>1 DEF LpRuns
        <5>3. v.since + 1 <= MaxRun
          BY <2>0, <3>4
        <5>4. m <= Hour + v.since => marker'[v.target] <= Hour + (v.since + 1)
          BY <2>0, <3>3, <3>4
        <5>5. v.at \in {"approve", "send", "over"} \/ v.sent => m <= Hour + v.since
          BY <2>0, <2>1 DEF JobOK, m
        <5>. QED  BY <2>0, <2>1, <5>1, <5>2, <5>3, <5>4, <5>5 DEF JobOK
      <4>. QED  BY <4>2
    <3>6. CASE ~v.checked
      <4>1. job'[j] = v
        BY <3>6 DEF LpTick, v
      <4>. QED  BY <2>0, <2>1, <3>6, <4>1 DEF JobOK
    <3>. QED  BY <3>5, <3>6
  <2>2. CASE v.target[1] \notin Guarded
    <3>1. job'[j] = IF v.checked THEN [v EXCEPT !.since = @ + 1] ELSE v
      BY DEF LpTick
    <3>. HIDE DEF v
    <3>. QED  BY <2>0, <2>2, <3>1, LpScriptsBounds DEF JobOK, LpRuns
  <2>. QED  BY <2>1, <2>2
<1>3. job' = [k \in Jobs |-> job'[k]]
  BY DEF LpTick
<1>4. \A k \in Jobs : JobOK(job[k], marker)'
  BY <1>2 DEF JobOK, LpRuns, Guarded
<1>. QED  BY <1>1, <1>3, <1>4 DEF LpInv, Never

\* No step of a script sends what was not previewed.
LEMMA ScriptKeepsInv ==
    ASSUME LpInv, NEW j \in Jobs, ScriptStep(j)
    PROVE  LpInv'
<1>. DEFINE v == job[j]
            Same == marker' = marker
<1>0. /\ marker \in [Targets -> 0..Never] /\ job = [k \in Jobs |-> job[k]]
      /\ v \in LpRuns /\ JobOK(v, marker)
  BY DEF LpInv, JobOK
<1>1. ASSUME NEW r, JobOK(r, marker), job' = [job EXCEPT ![j] = r], Same PROVE LpInv'
  <2>1. \A t \in Targets : marker'[t] <= marker[t]
    BY <1>0, <1>1, LpScriptsBounds DEF Never
  <2>. QED  BY <1>0, <1>1, <2>1, OneJobMoves
<1>2. ASSUME NEW t \in Targets, NEW live \in BOOLEAN, StartScript(j, t, live) PROVE LpInv'
  <2>1. NoJob \in LpRuns
    BY NothingStarted DEF JobOK
  <2>2. CASE t[1] = "deepenPools"
    <3>1. PICK r : r = [NoJob EXCEPT !.at = "pools", !.target = t, !.live = live, !.left = 2]
      OBVIOUS
    <3>2. r = [at |-> "pools", target |-> t, live |-> live, left |-> 2, passed |-> FALSE,
               checked |-> FALSE, sent |-> FALSE, since |-> 0]
      BY <2>1, <3>1 DEF LpRuns, NoJob
    <3>3. JobOK(r, marker)
      BY <2>2, <3>2, LpScriptsBounds DEF JobOK, LpRuns, Guarded
    <3>4. job' = [job EXCEPT ![j] = r]
      BY <1>2, <2>2, <3>1 DEF StartScript
    <3>. QED  BY <1>1, <1>2, <3>3, <3>4 DEF StartScript
  <2>3. CASE t[1] # "deepenPools"
    <3>1. PICK r : r = [NoJob EXCEPT !.at = "thresholds", !.target = t, !.live = live]
      OBVIOUS
    <3>2. r = [at |-> "thresholds", target |-> t, live |-> live, left |-> 0, passed |-> FALSE,
               checked |-> FALSE, sent |-> FALSE, since |-> 0]
      BY <2>1, <3>1 DEF LpRuns, NoJob
    <3>3. JobOK(r, marker)
      BY <3>2, LpScriptsBounds DEF JobOK, LpRuns, Guarded
    <3>4. job' = [job EXCEPT ![j] = r]
      BY <1>2, <2>3, <3>1 DEF StartScript
    <3>. QED  BY <1>1, <1>2, <3>3, <3>4 DEF StartScript
  <2>. QED  BY <2>2, <2>3
<1>3. CASE EnforceThresholds(j)
  <2>1. CASE v.live
    <3>1. PICK pass \in BOOLEAN : job' = [job EXCEPT ![j].at = "guards", ![j].passed = pass]
      BY <1>3, <2>1 DEF EnforceThresholds
    <3>2. PICK r : r = [v EXCEPT !.at = "guards", !.passed = pass]
      OBVIOUS
    <3>3. job' = [job EXCEPT ![j] = r]
      BY <3>1, <3>2
    <3>4. r = [at |-> "guards", target |-> v.target, live |-> v.live, left |-> v.left,
               passed |-> pass, checked |-> v.checked, sent |-> v.sent, since |-> v.since]
        <4>. HIDE DEF v
        <4>. QED  BY <1>0, <3>2 DEF LpRuns
    <3>5. JobOK(r, marker)
      BY <1>0, <1>3, <2>1, <3>4 DEF JobOK, LpRuns, EnforceThresholds
    <3>. QED  BY <1>1, <1>3, <3>3, <3>5 DEF EnforceThresholds
  <2>2. CASE ~v.live
    <3>. DEFINE r == [v EXCEPT !.at = "marking"]
    <3>1. job' = [job EXCEPT ![j] = r]
      BY <1>3, <2>2 DEF EnforceThresholds
    <3>2. JobOK(r, marker)
      BY <1>0, <1>3 DEF JobOK, LpRuns, EnforceThresholds
    <3>. HIDE DEF r
    <3>. QED  BY <1>1, <1>3, <3>1, <3>2 DEF EnforceThresholds
  <2>. QED  BY <2>1, <2>2
<1>4. CASE MarkDryRun(j)
  <2>1. job' = [job EXCEPT ![j] = NoJob] /\ marker' = [marker EXCEPT ![v.target] = 0]
    BY <1>4 DEF MarkDryRun
  <2>2. marker' \in [Targets -> 0..Never] /\ \A t \in Targets : marker'[t] <= marker[t]
    <3>1. Never \in Nat /\ 0 \in 0..Never
      BY LpScriptsBounds DEF Never
    <3>2. \A t \in Targets : marker'[t] = IF t = v.target THEN 0 ELSE marker[t]
      BY <1>0, <2>1
    <3>3. marker' = [t \in Targets |-> marker'[t]]
      BY <1>0, <2>1
    <3>4. \A t \in Targets : marker[t] \in 0..Never
      BY <1>0
    <3>. QED  BY <3>1, <3>2, <3>3, <3>4
  <2>. QED  BY <2>1, <2>2, NothingStarted, OneJobMoves
<1>5. CASE Guards(j)
  <2>1. CASE v.passed /\ Fresh(v.target) /\ v.target[1] \in Guarded
    <3>1. PICK n \in IF v.target[1] = "swapTokens" THEN 1..MaxSwaps ELSE {1} :
              job' = [job EXCEPT ![j].at = "approve", ![j].checked = TRUE, ![j].left = n]
      BY <1>5, <2>1 DEF Guards
    <3>2. PICK r : r = [v EXCEPT !.at = "approve", !.checked = TRUE, !.left = n]
      OBVIOUS
    <3>3. job' = [job EXCEPT ![j] = r]
      BY <3>1, <3>2
    <3>4. r = [at |-> "approve", target |-> v.target, live |-> v.live, left |-> n,
               passed |-> v.passed, checked |-> TRUE, sent |-> v.sent, since |-> v.since]
        <4>. HIDE DEF v
        <4>. QED  BY <1>0, <3>2 DEF LpRuns
    <3>5. n \in Int
      BY LpScriptsBounds
    <3>6. v.at = "guards" /\ v.live /\ v.since \in Nat
      BY <1>0, <1>5 DEF Guards, JobOK, LpRuns
    <3>7. marker[v.target] <= Hour + v.since
      <4>1. v.target \in Targets
        BY <1>0, <2>1, GuardedMarked
      <4>2. marker[v.target] \in Int /\ marker[v.target] <= Hour
        BY <1>0, <2>1, <4>1 DEF Fresh
      <4>. QED  BY <3>6, <4>2, LpScriptsBounds
    <3>8. JobOK(r, marker)
      BY <1>0, <2>1, <3>4, <3>5, <3>6, <3>7 DEF JobOK, LpRuns
    <3>. QED  BY <1>1, <1>5, <3>3, <3>8 DEF Guards
  <2>2. CASE ~(v.passed /\ Fresh(v.target) /\ v.target[1] \in Guarded)
    <3>1. job' = [job EXCEPT ![j] = NoJob] /\ Same
      BY <1>5, <2>2 DEF Guards
    <3>. QED  BY <1>1, <3>1, NothingStarted
  <2>. QED  BY <2>1, <2>2
<1>6. CASE Approve(j)
  <2>. DEFINE r == [v EXCEPT !.at = "send"]
  <2>1. job' = [job EXCEPT ![j] = r] /\ Same /\ v.at = "approve"
    BY <1>6 DEF Approve
  <2>2. JobOK(r, marker)
    BY <1>0, <2>1 DEF JobOK, LpRuns
  <2>. HIDE DEF r
  <2>. QED  BY <1>1, <2>1, <2>2
<1>7. CASE SendTransaction(j) \/ SkipSwap(j)
  <2>1. PICK n : n = Next1(v)
    OBVIOUS
  <2>2. n = [at |-> IF v.left = 1 THEN "over" ELSE "approve", target |-> v.target,
             live |-> v.live, left |-> v.left - 1, passed |-> v.passed,
             checked |-> v.checked, sent |-> v.sent, since |-> v.since]
    <3>. HIDE DEF v
    <3>1. n = [v EXCEPT !.left = v.left - 1, !.at = IF v.left = 1 THEN "over" ELSE "approve"]
      BY <2>1 DEF Next1
    <3>. QED  BY <1>0, <3>1 DEF LpRuns
  <2>3. v.at \in {"approve", "send"} /\ Same
    BY <1>7 DEF SendTransaction, SkipSwap
  <2>4. JobOK(n, marker) /\ n \in LpRuns
    BY <1>0, <2>2, <2>3 DEF JobOK, LpRuns
  <2>5. CASE SendTransaction(j)
    <3>1. PICK r : r = [n EXCEPT !.sent = TRUE]
      OBVIOUS
    <3>2. r = [at |-> n.at, target |-> n.target, live |-> n.live, left |-> n.left,
               passed |-> n.passed, checked |-> n.checked, sent |-> TRUE, since |-> n.since]
      <4>1. \A x : r = [n EXCEPT !.sent = x] => r =
                [at |-> n.at, target |-> n.target, live |-> n.live, left |-> n.left,
                 passed |-> n.passed, checked |-> n.checked, sent |-> x, since |-> n.since]
        BY <2>4 DEF LpRuns
      <4>. QED  BY <3>1, <4>1
    <3>3. n.at \in {"approve", "over"}
      BY <2>2
    <3>4. JobOK(r, marker)
      BY <2>4, <3>2, <3>3 DEF JobOK, LpRuns
    <3>5. job' = [job EXCEPT ![j] = r]
      BY <2>1, <2>5, <3>1 DEF SendTransaction
    <3>. QED  BY <1>1, <2>3, <3>4, <3>5
  <2>6. CASE SkipSwap(j)
    <3>1. job' = [job EXCEPT ![j] = n]
      BY <2>1, <2>6 DEF SkipSwap
    <3>. QED  BY <1>1, <2>3, <2>4, <3>1
  <2>. QED  BY <1>7, <2>5, <2>6
<1>8. CASE AddToPool(j)
  <2>. DEFINE at == IF v.left = 1 THEN "thresholds" ELSE "pools"
  <2>1. PICK sends \in {FALSE, v.live} :
            job' = [job EXCEPT ![j].sent = @ \/ sends, ![j].left = @ - 1, ![j].at = at]
    BY <1>8 DEF AddToPool
  <2>2. PICK x : x = (v.sent \/ sends)
    OBVIOUS
  <2>3. PICK r : r = [v EXCEPT !.sent = x, !.left = v.left - 1, !.at = at]
    OBVIOUS
  <2>4. job' = [job EXCEPT ![j] = r]
    BY <2>1, <2>2, <2>3
  <2>5. r = [at |-> at, target |-> v.target, live |-> v.live, left |-> v.left - 1,
             passed |-> v.passed, checked |-> v.checked, sent |-> x, since |-> v.since]
    <3>. HIDE DEF v, at
    <3>. QED  BY <1>0, <2>3 DEF LpRuns
  <2>6. x \in BOOLEAN
    BY <1>0, <2>2 DEF LpRuns
  <2>7. v.at = "pools" /\ v.target[1] \notin Guarded /\ Same
    BY <1>0, <1>8 DEF AddToPool, JobOK
  <2>8. JobOK(r, marker)
    BY <1>0, <2>5, <2>6, <2>7 DEF JobOK, LpRuns
  <2>. QED  BY <1>1, <2>4, <2>7, <2>8
<1>9. CASE ScriptEnds(j)
  BY <1>1, <1>9, NothingStarted DEF ScriptEnds
<1>. QED
  BY <1>2, <1>3, <1>4, <1>5, <1>6, <1>7, <1>8, <1>9 DEF ScriptStep

\* However runs of the scripts and of the migrations overlap and die: what is sent was
\* previewed, what is recorded is applied, and only a run that overlapped another fails.
THEOREM ScriptsStaySafe == EdgeSpec => []ScriptsAreSafe
<1>1. EdgeInit => LpInv /\ SetupInv
  BY LpInitInv, SetupInitInv DEF EdgeInit
<1>2. LpInv /\ SetupInv /\ [EdgeNext]_edgeVars => LpInv' /\ SetupInv'
  <2>. SUFFICES ASSUME LpInv, SetupInv, [EdgeNext]_edgeVars PROVE LpInv' /\ SetupInv'
    OBVIOUS
  <2>1. SetupInv'
    BY SetupNextInv, EachByItself
  <2>2. LpNext => LpInv'
    BY TickKeepsInv, ScriptKeepsInv DEF LpNext
  <2>3. UNCHANGED lpVars => LpInv'
    BY DEF lpVars, LpInv, JobOK, LpRuns, Never, Guarded
  <2>. QED  BY <2>1, <2>2, <2>3, EachByItself
<1>3. LpInv /\ SetupInv => ScriptsAreSafe
  BY LpSafe, SetupSafe DEF ScriptsAreSafe
<1>. QED  BY <1>1, <1>2, <1>3, PTL DEF EdgeSpec

-----------------------------------------------------------------------------
(* The webhooks *)

\* Whatever a run works on.
RunsLike(v) ==
    [at : {"idle", "post", "record"}, delivery : {v.delivery}, attempt : 1..maxAttempts,
     result : {None, "ok", "refused", "threw"}, service : {v.service}]

\* An attempt that is made counts, and an answer of 2xx is one that was given.
RunFits(v, counts, done) ==
    /\ v \in RunsLike(v)
    /\ v.delivery \in Delivery =>
          /\ v.at = "post" => counts[v.delivery] >= v.attempt - 1
          /\ v.at = "record" => counts[v.delivery] >= v.attempt
          /\ v.at = "record" /\ v.result = "ok" => v.delivery \in done

\* What a row says of a delivery that was tried count times and accepted or not.
RowFits(row, count, ok) ==
    /\ row \in Row
    /\ row.status = "delivered" => ok
    /\ row.status = "failed" => count >= maxAttempts

\* The inductive invariant of the deliveries: types, honest rows, and runs whose next
\* UPDATE is honest.
WebhooksInv ==
    /\ runs = [r \in Runs |-> runs[r]]
    /\ \A r \in Runs : RunFits(runs[r], tries, accepted)
    /\ tries \in [Delivery -> 0..MaxTries]
    /\ deliveries = [d \in Delivery |-> deliveries[d]]
    /\ \A d \in Delivery : RowFits(deliveries[d], tries[d], d \in accepted)

\* A run that is idle promises nothing.
LEMMA IdleFits == ASSUME NEW counts, NEW done PROVE RunFits(NoRun, counts, done)
BY DEF RunFits, RunsLike, NoRun, Services, maxAttempts

\* A row that is not there says nothing.
LEMMA NoRowFits == ASSUME NEW n, NEW ok PROVE RowFits(NoRow, n, ok)
BY DEF RowFits, Row, NoRow, maxAttempts

\* The invariant of the deliveries holds at the start.
LEMMA WebhooksInitInv == WebhooksInit => WebhooksInv
<1>. SUFFICES ASSUME WebhooksInit PROVE WebhooksInv
  OBVIOUS
<1>1. tries \in [Delivery -> 0..MaxTries]
  BY TriesReachAttempts DEF WebhooksInit
<1>. QED  BY <1>1, IdleFits, NoRowFits DEF WebhooksInit, WebhooksInv

\* The invariant of the deliveries implies the property.
LEMMA WebhooksSafe == WebhooksInv => StatusIsHonest
BY DEF WebhooksInv, RowFits, StatusIsHonest

\* Runs and rows change, to fitting ones, while nothing is attempted.
LEMMA RunsChange ==
    ASSUME WebhooksInv, UNCHANGED <<tries, accepted>>,
           deliveries' = [d \in Delivery |-> deliveries'[d]],
           \A d \in Delivery : RowFits(deliveries'[d], tries[d], d \in accepted),
           runs' = [r \in Runs |-> runs'[r]],
           \A r \in Runs : RunFits(runs'[r], tries, accepted)
    PROVE  WebhooksInv'
BY DEF WebhooksInv, RunFits, RunsLike, RowFits, Row, Delivery, Services

\* A run that starts fits, whatever its delivery is.
LEMMA StartedFits ==
    ASSUME WebhooksInv, NEW d, NEW service, StartRun(d, service)
    PROVE  /\ runs' = [r \in Runs |-> runs'[r]]
           /\ \A r \in Runs : RunFits(runs'[r], tries, accepted)
<1>1. PICK r \in Runs :
          runs' = [runs EXCEPT ![r] = [NoRun EXCEPT !.at = "post", !.delivery = d,
                                                     !.service = service]]
  BY DEF StartRun
<1>2. PICK v : v = [NoRun EXCEPT !.at = "post", !.delivery = d, !.service = service]
  OBVIOUS
<1>3. v = [at |-> "post", delivery |-> d, attempt |-> 1, result |-> None, service |-> service]
  <2>1. ASSUME NEW w \in RunsLike(NoRun), NEW q,
               q = [w EXCEPT !.at = "post", !.delivery = d, !.service = service]
        PROVE  q = [at |-> "post", delivery |-> d, attempt |-> w.attempt, result |-> w.result,
                    service |-> service]
    BY <2>1 DEF RunsLike
  <2>2. NoRun \in RunsLike(NoRun)
    BY IdleFits DEF RunFits
  <2>3. NoRun.attempt = 1 /\ NoRun.result = None
    BY DEF NoRun
  <2>. QED  BY <1>2, <2>1, <2>2, <2>3
<1>4. RunFits(v, tries, accepted)
  <2>1. v \in RunsLike(v)
    BY <1>3 DEF RunsLike, maxAttempts
  <2>2. v.at = "post" /\ v.attempt = 1 /\ v.delivery = d
    BY <1>3
  <2>3. d \in Delivery => tries[d] \in 0..MaxTries
    BY DEF WebhooksInv
  <2>. QED  BY <2>1, <2>2, <2>3, TriesReachAttempts DEF RunFits
<1>. QED  BY <1>1, <1>2, <1>4 DEF WebhooksInv

\* An attempt is counted, and its answer remembered.
LEMMA PostKeepsInv ==
    ASSUME WebhooksInv, NEW r \in Runs, NEW result \in {"ok", "refused", "threw"},
           Post(r, result)
    PROVE  WebhooksInv'
<1>. DEFINE v == runs[r]
            d == v.delivery
<1>0. /\ v \in RunsLike(v) /\ v.at = "post" /\ RunFits(v, tries, accepted)
      /\ tries \in [Delivery -> 0..MaxTries] /\ MaxTries \in Nat /\ MaxTries >= 3
  BY TriesReachAttempts DEF WebhooksInv, RunFits, Post
<1>1. PICK q : q = [v EXCEPT !.at = "record", !.result = result]
  OBVIOUS
<1>2. q = [at |-> "record", delivery |-> d, attempt |-> v.attempt, result |-> result,
           service |-> v.service]
  <2>. HIDE DEF v
  <2>. QED  BY <1>0, <1>1 DEF RunsLike
<1>3. /\ runs' = [runs EXCEPT ![r] = q]
      /\ tries' = [tries EXCEPT ![d] = IF @ < MaxTries THEN @ + 1 ELSE @]
      /\ accepted' = IF result = "ok" THEN accepted \cup {d} ELSE accepted
      /\ deliveries' = deliveries
  BY <1>1 DEF Post
<1>4. /\ tries' \in [Delivery -> 0..MaxTries]
      /\ \A c \in Delivery : tries'[c] >= tries[c]
      /\ d \in Delivery => tries'[d] >= v.attempt
  <2>1. v.attempt \in 1..3
    BY <1>0 DEF RunsLike, maxAttempts
  <2>2. d \in Delivery => tries[d] >= v.attempt - 1
    BY <1>0 DEF RunFits
  <2>3. \A c \in Delivery : tries[c] \in 0..MaxTries
    BY <1>0
  <2>4. \A c \in Delivery :
            tries'[c] = IF c = d THEN IF tries[c] < MaxTries THEN tries[c] + 1 ELSE tries[c]
                        ELSE tries[c]
    BY <1>0, <1>3
  <2>5. tries' = [c \in Delivery |-> tries'[c]]
    BY <1>0, <1>3
  <2>. HIDE DEF d, v
  <2>6. \A c \in Delivery : tries'[c] \in 0..MaxTries /\ tries'[c] >= tries[c]
    BY <1>0, <2>3, <2>4
  <2>7. d \in Delivery => tries'[d] >= v.attempt
    BY <1>0, <2>1, <2>2, <2>3, <2>4
  <2>. QED  BY <2>5, <2>6, <2>7
<1>5. RunFits(q, tries', accepted')
  <2>1. q \in RunsLike(q)
    BY <1>0, <1>2 DEF RunsLike
  <2>2. q.at = "record" /\ q.delivery = d /\ q.attempt = v.attempt /\ q.result = result
    BY <1>2
  <2>3. result = "ok" => d \in accepted'
    BY <1>3
  <2>. HIDE DEF d, v
  <2>. QED  BY <1>4, <2>1, <2>2, <2>3 DEF RunFits
<1>6. ASSUME NEW u, RunFits(u, tries, accepted) PROVE RunFits(u, tries', accepted')
  <2>1. u.attempt \in Int
    BY <1>6 DEF RunFits, RunsLike
  <2>2. accepted \subseteq accepted'
    BY <1>3
  <2>3. \A c \in Delivery : tries[c] \in Int /\ tries'[c] \in Int /\ tries'[c] >= tries[c]
    BY <1>0, <1>4
  <2>. QED  BY <1>6, <2>1, <2>2, <2>3 DEF RunFits
<1>7. \A p \in Runs : RunFits(runs'[p], tries', accepted')
  BY <1>3, <1>5, <1>6 DEF WebhooksInv
<1>8. \A c \in Delivery : RowFits(deliveries[c], tries'[c], c \in accepted')
  <2>1. \A c \in Delivery : tries[c] \in Int /\ tries'[c] \in Int /\ tries'[c] >= tries[c]
    BY <1>0, <1>4
  <2>2. accepted \subseteq accepted'
    BY <1>3
  <2>. QED  BY <2>1, <2>2 DEF WebhooksInv, RowFits, maxAttempts
<1>9. runs' = [p \in Runs |-> runs'[p]]
  BY <1>3 DEF WebhooksInv
<1>. QED
  BY <1>3, <1>4, <1>7, <1>8, <1>9 DEF WebhooksInv, RunFits, RunsLike, RowFits, Row, Delivery

\* What is recorded is what the attempts amount to.
LEMMA RecordedFits ==
    ASSUME WebhooksInv, NEW r \in Runs, runs[r].at = "record"
    PROVE  /\ Recorded(r) = [d \in Delivery |-> Recorded(r)[d]]
           /\ \A d \in Delivery : RowFits(Recorded(r)[d], tries[d], d \in accepted)
<1>. DEFINE v == runs[r]
            c == v.delivery
<1>0. /\ v \in RunsLike(v) /\ v.at = "record" /\ RunFits(v, tries, accepted)
      /\ deliveries = [d \in Delivery |-> deliveries[d]]
      /\ \A d \in Delivery : RowFits(deliveries[d], tries[d], d \in accepted)
  BY DEF WebhooksInv, RunFits
<1>1. CASE Recorded(r) = deliveries
  BY <1>0, <1>1
<1>2. CASE Recorded(r) =
              [deliveries EXCEPT ![c].status = Outcome(r), ![c].attempts = v.attempt]
  <2>1. PICK row : row = [deliveries[c] EXCEPT !.status = Outcome(r), !.attempts = v.attempt]
    OBVIOUS
  <2>2. Recorded(r) = [deliveries EXCEPT ![c] = row]
    BY <1>2, <2>1
  <2>3. ASSUME c \in Delivery PROVE RowFits(row, tries[c], c \in accepted)
    <3>1. deliveries[c] \in Row
      BY <1>0, <2>3 DEF RowFits
    <3>2. PICK o : o = Outcome(r)
      OBVIOUS
    <3>3. PICK old : old = deliveries[c]
      OBVIOUS
    <3>4. row = [status |-> o, attempts |-> v.attempt, old |-> old.old]
      <4>. HIDE DEF v, c
      <4>. QED  BY <2>1, <3>1, <3>2, <3>3 DEF Row
    <3>5. /\ o \in {"delivered", "failed", "pending"}
          /\ o = "delivered" => v.result = "ok"
          /\ o = "failed" => v.attempt >= maxAttempts
      BY <3>2 DEF Outcome
    <3>6. v.attempt \in 1..maxAttempts
      BY <1>0 DEF RunsLike
    <3>7. row \in Row
      BY <3>1, <3>3, <3>4, <3>5, <3>6 DEF Row, maxAttempts
    <3>8. tries[c] >= v.attempt /\ tries[c] \in Int
      BY <1>0, <2>3 DEF RunFits, WebhooksInv
    <3>9. v.result = "ok" => c \in accepted
      BY <1>0, <2>3 DEF RunFits
    <3>10. row.status = o
      BY <3>4
    <3>. HIDE DEF v, c
    <3>. QED  BY <3>5, <3>6, <3>7, <3>8, <3>9, <3>10 DEF RowFits, maxAttempts
  <2>. QED  BY <1>0, <2>2, <2>3
<1>. QED  BY <1>1, <1>2 DEF Recorded

\* Every step of the dispatch, of the runs and of the timers keeps it so.
LEMMA WebhooksNextInv == WebhooksInv /\ [WebhooksNext]_webhooksVars => WebhooksInv'
<1>. SUFFICES ASSUME WebhooksInv, [WebhooksNext]_webhooksVars PROVE WebhooksInv'
  OBVIOUS
<1>0. /\ deliveries = [d \in Delivery |-> deliveries[d]]
      /\ \A d \in Delivery : RowFits(deliveries[d], tries[d], d \in accepted)
      /\ runs = [r \in Runs |-> runs[r]]
      /\ \A r \in Runs : RunFits(runs[r], tries, accepted)
  BY DEF WebhooksInv
<1>1. ASSUME UNCHANGED <<deliveries, runs, tries, accepted>> PROVE WebhooksInv'
  BY <1>0, <1>1, RunsChange
<1>2. ASSUME NEW s \in Subs, DeleteSubscription(s) PROVE WebhooksInv'
  <2>1. deliveries' = [d \in Delivery |-> IF d[2] = s THEN NoRow ELSE deliveries[d]]
        /\ UNCHANGED <<runs, tries, accepted>>
    BY <1>2 DEF DeleteSubscription, history
  <2>2. \A d \in Delivery : RowFits(deliveries'[d], tries[d], d \in accepted)
    BY <1>0, <2>1, NoRowFits
  <2>3. deliveries' = [d \in Delivery |-> deliveries'[d]]
    BY <2>1
  <2>. QED  BY <1>0, <2>1, <2>2, <2>3, RunsChange
<1>3. ASSUME NEW e \in Events, QueueDelivery(e) PROVE WebhooksInv'
  <2>. DEFINE c == <<e, Head(dispatching[e])>>
  <2>1. /\ deliveries' = [deliveries EXCEPT ![c].status = "pending"]
        /\ StartRun(c, matched[e].by) /\ UNCHANGED <<tries, accepted>>
    BY <1>3 DEF QueueDelivery, history
  <2>. HIDE DEF c
  <2>2. \A row \in Row : [row EXCEPT !.status = "pending"] =
            [status |-> "pending", attempts |-> row.attempts, old |-> row.old]
    BY DEF Row
  <2>3. \A d \in Delivery : RowFits(deliveries'[d], tries[d], d \in accepted)
    <3>1. \A d \in Delivery : deliveries[d] \in Row
      BY <1>0 DEF RowFits
    <3>2. ASSUME NEW d \in Delivery, d = c
          PROVE  RowFits(deliveries'[d], tries[d], d \in accepted)
      <4>1. deliveries'[d] = [deliveries[d] EXCEPT !.status = "pending"]
        BY <1>0, <2>1, <3>2
      <4>2. deliveries'[d].status = "pending" /\ deliveries'[d] \in Row
        BY <2>2, <3>1, <4>1 DEF Row
      <4>. QED  BY <4>2 DEF RowFits
    <3>. QED  BY <1>0, <2>1, <3>2
  <2>4. deliveries' = [d \in Delivery |-> deliveries'[d]]
    BY <1>0, <2>1
  <2>. QED  BY <2>1, <2>3, <2>4, StartedFits, RunsChange
<1>4. ASSUME NEW r \in Runs, Posting(r) PROVE WebhooksInv'
  BY <1>4, PostKeepsInv DEF Posting
<1>5. ASSUME NEW r \in Runs, Record(r) PROVE WebhooksInv'
  <2>. DEFINE v == runs[r]
              q == IF v.result = "ok" \/ v.attempt = maxAttempts THEN NoRun
                   ELSE NextAttempt(v)
  <2>1. /\ v.at = "record" /\ deliveries' = Recorded(r) /\ UNCHANGED <<tries, accepted>>
        /\ runs' = [runs EXCEPT ![r] = q]
    <3>1. v.at = "record" /\ deliveries' = Recorded(r) /\ UNCHANGED <<tries, accepted>>
      BY <1>5 DEF Record, history
    <3>2. runs' = [runs EXCEPT ![r] = q]
      BY <1>5 DEF Record
    <3>. QED  BY <3>1, <3>2
  <2>2. RunFits(q, tries, accepted)
    <3>1. CASE v.result = "ok" \/ v.attempt = maxAttempts
      BY <3>1, IdleFits
    <3>2. CASE ~(v.result = "ok" \/ v.attempt = maxAttempts)
      <4>1. PICK w : w = NextAttempt(v)
        OBVIOUS
      <4>2. v \in RunsLike(v) /\ RunFits(v, tries, accepted)
        BY <1>0 DEF RunFits
      <4>3. w = [at |-> "post", delivery |-> v.delivery, attempt |-> v.attempt + 1,
                 result |-> None, service |-> v.service]
        <5>. HIDE DEF v
        <5>. QED  BY <4>1, <4>2 DEF RunsLike, NextAttempt
      <4>4. v.attempt \in 1..2 /\ v.attempt + 1 - 1 = v.attempt
        BY <3>2, <4>2 DEF RunsLike, maxAttempts
      <4>5. w \in RunsLike(w)
        BY <4>2, <4>3, <4>4 DEF RunsLike, maxAttempts
      <4>6. w.at = "post" /\ w.delivery = v.delivery /\ w.attempt = v.attempt + 1
        BY <4>3
      <4>7. RunFits(w, tries, accepted)
        <5>1. v.delivery \in Delivery => tries[v.delivery] >= v.attempt
          BY <2>1, <4>2 DEF RunFits
        <5>. HIDE DEF v
        <5>. QED  BY <4>4, <4>5, <4>6, <5>1 DEF RunFits
      <4>8. q = w
        BY <3>2, <4>1
      <4>. QED  BY <4>7, <4>8
    <3>. QED  BY <3>1, <3>2
  <2>. HIDE DEF q
  <2>3. /\ runs' = [p \in Runs |-> runs'[p]]
        /\ \A p \in Runs : RunFits(runs'[p], tries, accepted)
    BY <1>0, <2>1, <2>2
  <2>. QED  BY <2>1, <2>3, RecordedFits, RunsChange
<1>6. ASSUME NEW r \in Runs, RecordThrows(r) PROVE WebhooksInv'
  <2>. DEFINE v == runs[r]
              q == IF v.result = "threw" THEN NoRun ELSE [v EXCEPT !.result = "threw"]
  <2>1. /\ v.at = "record" /\ deliveries' \in {deliveries, Recorded(r)}
        /\ UNCHANGED <<tries, accepted>> /\ runs' = [runs EXCEPT ![r] = q]
    BY <1>6 DEF RecordThrows
  <2>2. RunFits(q, tries, accepted)
    <3>1. v \in RunsLike(v) /\ RunFits(v, tries, accepted)
      BY <1>0 DEF RunFits
    <3>2. PICK w : w = [v EXCEPT !.result = "threw"]
      OBVIOUS
    <3>3. w = [at |-> v.at, delivery |-> v.delivery, attempt |-> v.attempt,
               result |-> "threw", service |-> v.service]
      <4>. HIDE DEF v
      <4>. QED  BY <3>1, <3>2 DEF RunsLike
    <3>4. w \in RunsLike(w) /\ w.at = "record" /\ w.delivery = v.delivery
          /\ w.attempt = v.attempt /\ w.result = "threw"
      BY <2>1, <3>1, <3>3 DEF RunsLike
    <3>5. RunFits(w, tries, accepted)
      BY <2>1, <3>1, <3>4 DEF RunFits
    <3>. QED  BY <3>2, <3>5, IdleFits
  <2>. HIDE DEF q
  <2>3. /\ runs' = [p \in Runs |-> runs'[p]]
        /\ \A p \in Runs : RunFits(runs'[p], tries, accepted)
    BY <1>0, <2>1, <2>2
  <2>4. /\ deliveries' = [d \in Delivery |-> deliveries'[d]]
        /\ \A d \in Delivery : RowFits(deliveries'[d], tries[d], d \in accepted)
    BY <1>0, <2>1, RecordedFits
  <2>. QED  BY <2>1, <2>3, <2>4, RunsChange
<1>7. CASE RetryDelivery
  <2>1. UNCHANGED <<deliveries, tries, accepted>>
    BY <1>7 DEF RetryDelivery, history
  <2>2. UNCHANGED runs \/ StartRun(Head(sweep), "facilitator")
    BY <1>7 DEF RetryDelivery
  <2>. QED  BY <1>0, <1>1, <2>1, <2>2, StartedFits, RunsChange
<1>8. ASSUME NEW d \in Delivery, Age(d) PROVE WebhooksInv'
  <2>1. deliveries' = [deliveries EXCEPT ![d].old = TRUE] /\ UNCHANGED <<runs, tries, accepted>>
    BY <1>8 DEF Age, history
  <2>2. \A row \in Row : \A x : [row EXCEPT !.old = x] =
            [status |-> row.status, attempts |-> row.attempts, old |-> x]
    BY DEF Row
  <2>3. \A c \in Delivery : RowFits(deliveries'[c], tries[c], c \in accepted)
    <3>1. deliveries[d] \in Row /\ RowFits(deliveries[d], tries[d], d \in accepted)
      BY <1>0 DEF RowFits
    <3>2. PICK row : row = deliveries[d]
      OBVIOUS
    <3>3. deliveries'[d] = [status |-> row.status, attempts |-> row.attempts, old |-> TRUE]
      BY <1>0, <2>1, <2>2, <3>1, <3>2
    <3>4. deliveries'[d] \in Row /\ deliveries'[d].status = row.status
      BY <3>1, <3>2, <3>3 DEF Row
    <3>5. RowFits(deliveries'[d], tries[d], d \in accepted)
      BY <3>1, <3>2, <3>4 DEF RowFits
    <3>. QED  BY <1>0, <2>1, <3>5
  <2>4. deliveries' = [c \in Delivery |-> deliveries'[c]]
    BY <1>0, <2>1
  <2>. QED  BY <1>0, <2>1, <2>3, <2>4, RunsChange
<1>9. ASSUME NEW d \in Delivery, CleanupDeliveries(d) PROVE WebhooksInv'
  <2>1. deliveries' = [deliveries EXCEPT ![d] = NoRow] /\ UNCHANGED <<runs, tries, accepted>>
    BY <1>9 DEF CleanupDeliveries, history
  <2>2. \A c \in Delivery : RowFits(deliveries'[c], tries[c], c \in accepted)
    BY <1>0, <2>1, NoRowFits
  <2>3. deliveries' = [c \in Delivery |-> deliveries'[c]]
    BY <1>0, <2>1
  <2>. QED  BY <1>0, <2>1, <2>2, <2>3, RunsChange
<1>10. ASSUME NEW service \in Services, WebhooksRestart(service) PROVE WebhooksInv'
  <2>1. /\ runs' = [r \in Runs |-> IF runs[r].service = service THEN NoRun ELSE runs[r]]
        /\ UNCHANGED <<deliveries, tries, accepted>>
    BY <1>10 DEF WebhooksRestart
  <2>2. \A r \in Runs : RunFits(runs'[r], tries, accepted)
    BY <1>0, <2>1, IdleFits
  <2>3. runs' = [r \in Runs |-> runs'[r]]
    BY <2>1
  <2>. QED  BY <1>0, <2>1, <2>2, <2>3, RunsChange
<1>11. ASSUME \/ \E s \in Subs : CreateSubscription(s) \/ UpdateSubscription(s)
              \/ \E e \in Events : DispatchEvent(e) \/ DispatchTreasuryEvent(e) \/ QueueRefused(e)
              \/ StartRetries
              \/ UNCHANGED webhooksVars
       PROVE  WebhooksInv'
  <2>1. UNCHANGED <<deliveries, runs, tries, accepted>>
    BY <1>11 DEF CreateSubscription, UpdateSubscription, DispatchEvent, DispatchTreasuryEvent,
       SelectSubscriptions, QueueRefused, StartRetries, webhooksVars, history
  <2>. QED  BY <1>1, <2>1
<1>. QED
  BY <1>2, <1>3, <1>4, <1>5, <1>6, <1>7, <1>8, <1>9, <1>10, <1>11
  DEF WebhooksNext, SubscriptionStep, DispatchStep, DeliverWebhook, TreasuryDelivers, RetryTimer

\* What the history page of a subscription says is true, whatever runs overlap, whatever
\* fails and whichever service restarts.
THEOREM StatusStaysHonest == EdgeSpec => []StatusIsHonest
<1>1. EdgeInit => WebhooksInv
  BY WebhooksInitInv DEF EdgeInit
<1>2. WebhooksInv /\ [EdgeNext]_edgeVars => WebhooksInv'
  BY WebhooksNextInv, EachByItself
<1>. QED  BY <1>1, <1>2, WebhooksSafe, PTL DEF EdgeSpec

\* A delivery that was queued and is not shown as delivered.
Undelivered(d, rows, q) == d \in Range(q) /\ rows[d].status # "delivered"

\* No delivery has two runs, a delivery with a run is not delivered, and what the timer
\* is about to start has no run, is not delivered, and comes once.
OneRunEach(rs, sw, rows, q) ==
    /\ \A r \in Runs : rs[r].at # "idle" => Undelivered(rs[r].delivery, rows, q)
    /\ \A r, t \in Runs :
          rs[r].at # "idle" /\ rs[t].at # "idle" /\ rs[r].delivery = rs[t].delivery => r = t
    /\ \A d \in Range(sw) : /\ Undelivered(d, rows, q)
                            /\ \A r \in Runs : rs[r].at # "idle" => rs[r].delivery # d
    /\ IsInjective(sw)

\* A delivery is queued once, by the dispatch of its event.
QueuedOnce(q, disp, met, rows) ==
    /\ q \in Seq(Delivery) /\ IsInjective(q)
    /\ disp \in [Events -> Seq(Subs)]
    /\ \A e \in Events : IsInjective(disp[e])
    /\ \A e \in Events : disp[e] # << >> => e \in met
    /\ \A e \in Events : \A s \in Range(disp[e]) : <<e, s>> \notin Range(q)
    /\ \A d \in Range(q) : d[1] \in met
    /\ \A d \in Delivery \ Range(q) : rows[d].status = "none"

\* Beside WebhooksInv: without an overlap of the timer and without a lost answer of the
\* database, a delivery has one run at a time.
FinalInv ==
    /\ QueuedOnce(queued, dispatching, DOMAIN matched, deliveries)
    /\ sweep \in Seq(Delivery)
    /\ mishaps \subseteq {"crash"} => OneRunEach(runs, sweep, deliveries, queued)

\* The step that DeliveredIsFinal speaks of.
StaysDelivered ==
    \A d \in Delivery : deliveries[d].status = "delivered" /\ mishaps' \subseteq {"crash"} =>
        /\ deliveries'[d].status \in {"delivered", "none"}
        /\ tries'[d] = tries[d]

\* Nothing is queued at the start.
LEMMA FinalInitInv == WebhooksInit => FinalInv
<1>. SUFFICES ASSUME WebhooksInit PROVE FinalInv
  OBVIOUS
<1>1. /\ Range(<< >>) = {} /\ IsInjective(<< >>)
      /\ << >> \in Seq(Delivery) /\ << >> \in Seq(Subs)
  BY DEF Range, IsInjective
<1>2. \A d \in Delivery : deliveries[d].status = "none"
  BY DEF WebhooksInit, NoRow
<1>3. \A r \in Runs : runs[r].at = "idle"
  BY DEF WebhooksInit, NoRun
<1>4. QueuedOnce(queued, dispatching, DOMAIN matched, deliveries)
  BY <1>1, <1>2 DEF WebhooksInit, QueuedOnce
<1>. QED  BY <1>1, <1>3, <1>4 DEF WebhooksInit, FinalInv, OneRunEach

\* Rows change, but none that was queued to delivered, and none that was not queued.
LEMMA RowsMove ==
    ASSUME FinalInv, UNCHANGED <<dispatching, matched, queued, sweep>>, mishaps \subseteq mishaps',
           \A d \in Delivery \ Range(queued) : deliveries'[d].status = "none",
           \A d \in Delivery : deliveries[d].status = "delivered"
               => deliveries'[d].status \in {"delivered", "none"} /\ tries'[d] = tries[d],
           \A d \in Delivery : deliveries'[d].status = "delivered"
               => deliveries[d].status = "delivered",
           \A r \in Runs : runs'[r].at # "idle"
               => runs[r].at # "idle" /\ runs'[r].delivery = runs[r].delivery
    PROVE  FinalInv' /\ StaysDelivered
<1>1. QueuedOnce(queued, dispatching, DOMAIN matched, deliveries)'
  BY DEF FinalInv, QueuedOnce
<1>2. Range(queued) \subseteq Delivery
  <2>1. queued \in Seq(Delivery)
    BY DEF FinalInv, QueuedOnce
  <2>. HIDE DEF Delivery
  <2>. QED  BY <2>1 DEF Range
<1>3. \A d : Undelivered(d, deliveries, queued) => Undelivered(d, deliveries', queued)
  BY <1>2 DEF Undelivered
<1>4. OneRunEach(runs, sweep, deliveries, queued) => OneRunEach(runs', sweep, deliveries', queued)
  BY <1>3 DEF OneRunEach
<1>. QED  BY <1>1, <1>4 DEF FinalInv, StaysDelivered

\* A run starts for a delivery that is open and has none.
LEMMA RunStarts ==
    ASSUME WebhooksInv, NEW rows, NEW q, NEW sw, NEW d, NEW service, StartRun(d, service),
           OneRunEach(runs, sw, rows, q), Undelivered(d, rows, q), d \notin Range(sw),
           \A r \in Runs : runs[r].at # "idle" => runs[r].delivery # d
    PROVE  OneRunEach(runs', sw, rows, q)
<1>1. PICK r \in Runs :
          /\ runs[r].at = "idle"
          /\ runs' = [runs EXCEPT ![r] =
                 [NoRun EXCEPT !.at = "post", !.delivery = d, !.service = service]]
  BY DEF StartRun
<1>2. PICK v : /\ v = [NoRun EXCEPT !.at = "post", !.delivery = d, !.service = service]
               /\ runs' = [runs EXCEPT ![r] = v]
  BY <1>1
<1>3. v.delivery = d
  BY <1>2 DEF NoRun
<1>4. DOMAIN runs = Runs
  BY DEF WebhooksInv
<1>5. runs'[r] = v /\ \A t \in Runs \ {r} : runs'[t] = runs[t]
  BY <1>2, <1>4
<1>. QED  BY <1>1, <1>3, <1>5 DEF OneRunEach

\* The timer's query finds failed deliveries, each once.
LEMMA OldestAreOpen ==
    ASSUME FinalInv, StartRetries
    PROVE  /\ sweep' \in Seq(Delivery) /\ IsInjective(sweep')
           /\ \A d \in Range(sweep') : Undelivered(d, deliveries, queued)
<1>. DEFINE due == {i \in DOMAIN queued : Retriable(queued[i])}
<1>0. queued \in Seq(Delivery) /\ IsInjective(queued)
  BY DEF FinalInv, QueuedOnce
<1>1. /\ DOMAIN queued = 1..Len(queued) /\ Len(queued) \in Nat
      /\ \A i \in DOMAIN queued : queued[i] \in Delivery
  <2>. HIDE DEF Delivery
  <2>. QED  BY <1>0
<1>2. Cardinality(due) \in Nat
  <2>1. IsFiniteSet(1..Len(queued)) /\ due \in SUBSET (1..Len(queued))
    BY <1>1, PositionsFinite
  <2>. HIDE DEF due
  <2>. QED  BY <2>1, FS_Subset, FS_CardinalityType
<1>3. PICK rows \in SetToSeqs(due) :
          /\ \A i, j \in DOMAIN rows : i < j => rows[i] < rows[j]
          /\ sweep' = Oldest(rows)
  BY DEF StartRetries
<1>4. /\ rows \in [1..Cardinality(due) -> due]
      /\ \A i, j \in 1..Cardinality(due) : i # j => rows[i] # rows[j]
  BY <1>3 DEF SetToSeqs
<1>. DEFINE n == IF Len(rows) < RetryLimit THEN Len(rows) ELSE RetryLimit
<1>5. Len(rows) = Cardinality(due)
  <2>. HIDE DEF due
  <2>. QED  BY <1>2, <1>4
<1>6. n \in Nat /\ n <= Cardinality(due)
  <2>. HIDE DEF due
  <2>. QED  BY <1>2, <1>5, LimitIsPositive
<1>7. sweep' = [i \in 1..n |-> queued[rows[i]]]
  BY <1>3 DEF Oldest
<1>. HIDE DEF n
<1>8. \A i \in 1..n : /\ rows[i] \in DOMAIN queued /\ Retriable(queued[rows[i]])
                      /\ \A j \in 1..n : i # j => rows[i] # rows[j]
  <2>1. \A i \in 1..n : i \in 1..Cardinality(due)
    <3>. HIDE DEF due
    <3>. QED  BY <1>2, <1>6
  <2>2. \A i \in 1..n : rows[i] \in due /\ \A j \in 1..n : i # j => rows[i] # rows[j]
    <3>. HIDE DEF due
    <3>. QED  BY <1>4, <2>1
  <2>. QED  BY <2>2
<1>9. IsInjective(sweep')
  BY <1>0, <1>7, <1>8 DEF IsInjective
<1>10. \A i \in 1..n : sweep'[i] \in Delivery /\ sweep'[i] \in Range(queued)
                       /\ deliveries[sweep'[i]].status = "failed"
  BY <1>1, <1>7, <1>8 DEF Range, Retriable
<1>11. sweep' \in Seq(Delivery)
  <2>1. sweep' \in [1..n -> Delivery]
    BY <1>7, <1>10
  <2>. HIDE DEF Delivery
  <2>. QED  BY <1>6, <2>1
<1>12. \A d \in Range(sweep') : \E i \in 1..n : d = sweep'[i]
  BY <1>7 DEF Range
<1>. QED  BY <1>9, <1>10, <1>11, <1>12 DEF Undelivered

\* What an UPDATE makes of the rows.
LEMMA RecordedRow ==
    ASSUME WebhooksInv, NEW r \in Runs
    PROVE  /\ \A c \in Delivery \ {runs[r].delivery} : Recorded(r)[c] = deliveries[c]
           /\ \A c \in Delivery : /\ Recorded(r)[c].status \in {deliveries[c].status, Outcome(r)}
                                  /\ deliveries[c].status = "none" => Recorded(r)[c] = deliveries[c]
<1>. DEFINE d == runs[r].delivery
<1>1. CASE deliveries[d].status = "none"
  BY <1>1 DEF Recorded
<1>2. CASE deliveries[d].status # "none"
  <2>1. PICK row : /\ row = [deliveries[d] EXCEPT !.status = Outcome(r),
                                                  !.attempts = runs[r].attempt]
                   /\ Recorded(r) = [deliveries EXCEPT ![d] = row]
    BY <1>2 DEF Recorded
  <2>2. DOMAIN deliveries = Delivery
    BY DEF WebhooksInv
  <2>3. d \in Delivery => row.status = Outcome(r)
    <3>1. d \in Delivery => deliveries[d] \in Row
      BY DEF WebhooksInv, RowFits
    <3>. QED  BY <2>1, <3>1 DEF Row
  <2>. QED  BY <1>2, <2>1, <2>2, <2>3
<1>. QED  BY <1>1, <1>2

\* Every step of the webhooks.
LEMMA FinalNextInv ==
    ASSUME WebhooksInv, FinalInv, [WebhooksNext]_webhooksVars
    PROVE  FinalInv' /\ StaysDelivered
<1>0. /\ queued \in Seq(Delivery) /\ IsInjective(queued) /\ Range(queued) \subseteq Delivery
      /\ sweep \in Seq(Delivery) /\ dispatching \in [Events -> Seq(Subs)]
      /\ DOMAIN runs = Runs /\ DOMAIN deliveries = Delivery /\ DOMAIN tries = Delivery
      /\ \A d \in Delivery \ Range(queued) : deliveries[d].status = "none"
      /\ \A d \in Delivery : deliveries[d] \in Row
  <2>1. queued \in Seq(Delivery) /\ IsInjective(queued) /\ sweep \in Seq(Delivery)
    BY DEF FinalInv, QueuedOnce
  <2>2. Range(queued) \subseteq Delivery
    <3>. HIDE DEF Delivery
    <3>. QED  BY <2>1 DEF Range
  <2>3. DOMAIN runs = Runs /\ DOMAIN deliveries = Delivery /\ DOMAIN tries = Delivery
    BY DEF WebhooksInv
  <2>. QED  BY <2>1, <2>2, <2>3 DEF FinalInv, QueuedOnce, WebhooksInv, RowFits
<1>1. ASSUME NEW s \in Subs, CreateSubscription(s) \/ UpdateSubscription(s)
      PROVE  FinalInv' /\ StaysDelivered
  <2>1. UNCHANGED <<dispatching, matched, queued, deliveries, runs, sweep, history>>
    BY <1>1 DEF CreateSubscription, UpdateSubscription
  <2>. QED  BY <1>0, <2>1, RowsMove DEF history
<1>2. ASSUME NEW s \in Subs, DeleteSubscription(s) PROVE FinalInv' /\ StaysDelivered
  <2>1. /\ deliveries' = [d \in Delivery |-> IF d[2] = s THEN NoRow ELSE deliveries[d]]
        /\ UNCHANGED <<dispatching, matched, queued, runs, sweep, history>>
    BY <1>2 DEF DeleteSubscription
  <2>2. \A d \in Delivery : deliveries'[d] = deliveries[d] \/ deliveries'[d].status = "none"
    <3>. HIDE DEF Delivery
    <3>. QED  BY <2>1 DEF NoRow
  <2>. QED  BY <1>0, <2>1, <2>2, RowsMove DEF history
<1>3. ASSUME NEW e \in Events, NEW service, SelectSubscriptions(e, service)
      PROVE  FinalInv' /\ StaysDelivered
  <2>. DEFINE chosen == {s \in Subs : subs[s] = "active"}
  <2>1. /\ e \notin DOMAIN matched
        /\ matched' = [f \in DOMAIN matched \cup {e} |->
              IF f = e THEN [by |-> service, subs |-> chosen] ELSE matched[f]]
        /\ UNCHANGED <<subs, queued, deliveries, runs, sweep, history>>
    BY <1>3 DEF SelectSubscriptions
  <2>2. DOMAIN matched' = DOMAIN matched \cup {e} /\ matched'[e].subs = chosen
    BY <2>1
  <2>3. PICK order \in SetToSeqs(chosen) : dispatching' = [dispatching EXCEPT ![e] = order]
    BY <1>3, <2>2 DEF SelectSubscriptions
  <2>4. order \in Seq(Subs) /\ IsInjective(order)
    <3>1. Cardinality(chosen) \in Nat
      BY SubsAreFinite, FS_Subset, FS_CardinalityType
    <3>2. /\ order \in [1..Cardinality(chosen) -> Subs]
          /\ \A i, j \in 1..Cardinality(chosen) : i # j => order[i] # order[j]
      BY <2>3 DEF SetToSeqs
    <3>. HIDE DEF chosen
    <3>. QED  BY <3>1, <3>2 DEF IsInjective
  <2>5. Range(order) \subseteq Subs
    BY <2>4 DEF Range
  <2>6. dispatching'[e] = order /\ \A f \in Events \ {e} : dispatching'[f] = dispatching[f]
    BY <1>0, <2>3
  <2>7. dispatching' \in [Events -> Seq(Subs)]
    BY <1>0, <2>3, <2>4
  <2>8. \A s \in Range(order) : <<e, s>> \notin Range(queued)
    BY <2>1 DEF FinalInv, QueuedOnce
  <2>9. QueuedOnce(queued, dispatching', DOMAIN matched', deliveries)
    BY <2>2, <2>4, <2>6, <2>7, <2>8 DEF FinalInv, QueuedOnce
  <2>. QED  BY <2>1, <2>9 DEF FinalInv, StaysDelivered, history
<1>4. ASSUME NEW e \in Events, QueueDelivery(e) PROVE FinalInv' /\ StaysDelivered
  <2>. DEFINE list == dispatching[e]
              d == <<e, Head(list)>>
              q == Append(queued, d)
              rest == Tail(list)
  <2>1. /\ list # << >>
        /\ deliveries' = [deliveries EXCEPT ![d].status = "pending"]
        /\ queued' = q
        /\ StartRun(d, matched[e].by)
        /\ dispatching' = [dispatching EXCEPT ![e] = rest]
        /\ UNCHANGED <<subs, matched, sweep, history>>
    BY <1>4 DEF QueueDelivery
  <2>2. /\ list \in Seq(Subs) /\ IsInjective(list) /\ e \in DOMAIN matched
        /\ \A s \in Range(list) : <<e, s>> \notin Range(queued)
    BY <1>0, <2>1 DEF FinalInv, QueuedOnce
  <2>. HIDE DEF list
  <2>3. /\ Head(list) \in Subs /\ Head(list) \in Range(list) /\ Head(list) \notin Range(rest)
        /\ rest \in Seq(Subs) /\ IsInjective(rest) /\ Range(rest) \subseteq Range(list)
    BY <2>1, <2>2, DistinctTail, ShorterRange
  <2>. HIDE DEF rest
  <2>4. d \in Delivery /\ d \notin Range(queued) /\ d[1] = e
    BY <2>2, <2>3 DEF Delivery
  <2>5. \A s \in Range(rest) : <<e, s>> # d
    BY <2>3
  <2>6. \A f \in Events \ {e} : \A s : <<f, s>> # d
    OBVIOUS
  <2>. HIDE DEF d
  <2>7. q \in Seq(Delivery) /\ IsInjective(q) /\ Range(q) = Range(queued) \cup {d}
    <3>. HIDE DEF Delivery
    <3>. QED  BY <1>0, <2>4, LongerRange, DistinctAppend
  <2>. HIDE DEF q
  <2>8. PICK row : row = [deliveries[d] EXCEPT !.status = "pending"]
                   /\ deliveries' = [deliveries EXCEPT ![d] = row]
    BY <2>1
  <2>9. row.status = "pending"
    BY <1>0, <2>4, <2>8 DEF Row
  <2>10. deliveries'[d] = row /\ \A c \in Delivery \ {d} : deliveries'[c] = deliveries[c]
    BY <1>0, <2>4, <2>8
  <2>11. dispatching'[e] = rest /\ \A f \in Events \ {e} : dispatching'[f] = dispatching[f]
    BY <1>0, <2>1
  <2>12. dispatching' \in [Events -> Seq(Subs)]
    BY <1>0, <2>1, <2>3
  <2>13. QueuedOnce(q, dispatching', DOMAIN matched, deliveries')
    <3>1. \A f \in Events : /\ IsInjective(dispatching'[f])
                            /\ dispatching'[f] # << >> => f \in DOMAIN matched
      BY <2>2, <2>3, <2>11 DEF FinalInv, QueuedOnce
    <3>2. \A f \in Events : \A s \in Range(dispatching'[f]) : <<f, s>> \notin Range(q)
      <4>1. \A s \in Range(rest) : <<e, s>> \notin Range(q)
        BY <2>2, <2>3, <2>5, <2>7
      <4>2. \A f \in Events \ {e} : \A s \in Range(dispatching[f]) : <<f, s>> \notin Range(q)
        BY <2>6, <2>7 DEF FinalInv, QueuedOnce
      <4>. QED  BY <2>11, <4>1, <4>2
    <3>3. \A c \in Range(q) : c[1] \in DOMAIN matched
      BY <2>2, <2>4, <2>7 DEF FinalInv, QueuedOnce
    <3>4. \A c \in Delivery \ Range(q) : deliveries'[c].status = "none"
      BY <1>0, <2>7, <2>10
    <3>. QED  BY <2>7, <2>12, <3>1, <3>2, <3>3, <3>4 DEF QueuedOnce
  <2>14. ASSUME OneRunEach(runs, sweep, deliveries, queued)
         PROVE  OneRunEach(runs', sweep, deliveries', q)
    <3>1. \A c : Undelivered(c, deliveries, queued) => c # d /\ Undelivered(c, deliveries', q)
      BY <1>0, <2>4, <2>7, <2>10 DEF Undelivered
    <3>2. OneRunEach(runs, sweep, deliveries', q)
      BY <2>14, <3>1 DEF OneRunEach
    <3>3. Undelivered(d, deliveries', q)
      BY <2>7, <2>9, <2>10 DEF Undelivered
    <3>4. d \notin Range(sweep) /\ \A r \in Runs : runs[r].at # "idle" => runs[r].delivery # d
      BY <2>14, <3>1 DEF OneRunEach
    <3>. QED  BY <2>1, <3>2, <3>3, <3>4, RunStarts
  <2>15. StaysDelivered
    BY <1>0, <2>1, <2>4, <2>10 DEF StaysDelivered, history
  <2>. QED  BY <2>1, <2>13, <2>14, <2>15 DEF FinalInv, history
<1>5. ASSUME NEW e \in Events, QueueRefused(e) PROVE FinalInv' /\ StaysDelivered
  <2>1. /\ dispatching' = [dispatching EXCEPT ![e] = << >>]
        /\ UNCHANGED <<matched, queued, deliveries, runs, sweep, history>>
    BY <1>5 DEF QueueRefused
  <2>2. << >> \in Seq(Subs) /\ Range(<< >>) = {} /\ IsInjective(<< >>)
    BY DEF Range, IsInjective
  <2>3. dispatching'[e] = << >> /\ \A f \in Events \ {e} : dispatching'[f] = dispatching[f]
    BY <1>0, <2>1
  <2>4. dispatching' \in [Events -> Seq(Subs)]
    BY <1>0, <2>1, <2>2
  <2>5. QueuedOnce(queued, dispatching', DOMAIN matched, deliveries)
    BY <2>2, <2>3, <2>4 DEF FinalInv, QueuedOnce
  <2>. QED  BY <2>1, <2>5 DEF FinalInv, StaysDelivered, history
<1>6. ASSUME NEW r \in Runs, NEW result, Post(r, result) PROVE FinalInv' /\ StaysDelivered
  <2>. DEFINE d == runs[r].delivery
  <2>1. /\ runs[r].at = "post"
        /\ runs' = [runs EXCEPT ![r].at = "record", ![r].result = result]
        /\ tries' = [tries EXCEPT ![d] = IF @ < MaxTries THEN @ + 1 ELSE @]
        /\ UNCHANGED <<subs, dispatching, matched, queued, deliveries, sweep, mishaps>>
    BY <1>6 DEF Post
  <2>2. PICK v : /\ v = [runs[r] EXCEPT !.at = "record", !.result = result]
                 /\ runs' = [runs EXCEPT ![r] = v]
    BY <2>1
  <2>3. v.delivery = d
    BY <2>2 DEF WebhooksInv, RunFits, RunsLike
  <2>4. runs'[r] = v /\ \A t \in Runs \ {r} : runs'[t] = runs[t]
    BY <1>0, <2>2
  <2>5. \A c \in Delivery \ {d} : tries'[c] = tries[c]
    BY <1>0, <2>1
  <2>6. OneRunEach(runs, sweep, deliveries, queued)
        => OneRunEach(runs', sweep, deliveries, queued) /\ deliveries[d].status # "delivered"
    <3>. SUFFICES ASSUME OneRunEach(runs, sweep, deliveries, queued)
                  PROVE  /\ OneRunEach(runs', sweep, deliveries, queued)
                         /\ deliveries[d].status # "delivered"
      OBVIOUS
    <3>1. \A t \in Runs : /\ runs'[t].delivery = runs[t].delivery
                          /\ runs'[t].at # "idle" => runs[t].at # "idle"
      BY <2>1, <2>3, <2>4
    <3>2. Undelivered(d, deliveries, queued)
      BY <2>1 DEF OneRunEach
    <3>. QED  BY <3>1, <3>2 DEF OneRunEach, Undelivered
  <2>. QED  BY <2>1, <2>5, <2>6 DEF FinalInv, StaysDelivered
<1>7. ASSUME NEW r \in Runs, Record(r) PROVE FinalInv' /\ StaysDelivered
  <2>. DEFINE d == runs[r].delivery
  <2>1. /\ runs[r].at = "record" /\ deliveries' = Recorded(r)
        /\ UNCHANGED <<subs, dispatching, matched, queued, sweep, history>>
    BY <1>7 DEF Record
  <2>2. PICK v : /\ v = IF runs[r].result = "ok" \/ runs[r].attempt = maxAttempts THEN NoRun
                        ELSE NextAttempt(runs[r])
                 /\ runs' = [runs EXCEPT ![r] = v]
    BY <1>7 DEF Record
  <2>3. v.at # "idle" => v.delivery = d /\ Outcome(r) # "delivered"
    <3>1. runs[r] \in RunsLike(runs[r])
      BY DEF WebhooksInv, RunFits
    <3>2. NextAttempt(runs[r]).delivery = d
      BY <3>1 DEF NextAttempt, RunsLike
    <3>. QED  BY <2>2, <3>2 DEF NoRun, Outcome
  <2>4. runs'[r] = v /\ \A t \in Runs \ {r} : runs'[t] = runs[t]
    BY <1>0, <2>2
  <2>5. /\ \A c \in Delivery \ {d} : deliveries'[c] = deliveries[c]
        /\ d \in Delivery => deliveries'[d].status \in {deliveries[d].status, Outcome(r)}
        /\ d \in Delivery /\ deliveries[d].status = "none" => deliveries'[d] = deliveries[d]
    BY <1>0, <2>1, RecordedRow
  <2>6. QueuedOnce(queued, dispatching, DOMAIN matched, deliveries')
    BY <1>0, <2>5 DEF FinalInv, QueuedOnce
  <2>7. ASSUME OneRunEach(runs, sweep, deliveries, queued)
        PROVE  /\ OneRunEach(runs', sweep, deliveries', queued)
               /\ deliveries[d].status # "delivered" /\ d \in Delivery
    <3>1. d \in Range(queued) /\ deliveries[d].status # "delivered" /\ d \in Delivery
      BY <1>0, <2>1, <2>7 DEF OneRunEach, Undelivered
    <3>2. \A c : c # d /\ Undelivered(c, deliveries, queued) => Undelivered(c, deliveries', queued)
      BY <1>0, <2>5 DEF Undelivered
    <3>3. v.at # "idle" => Undelivered(d, deliveries', queued)
      BY <2>3, <2>5, <3>1 DEF Undelivered
    <3>4. \A t \in Runs \ {r} : runs[t].at # "idle" => runs[t].delivery # d
      BY <2>1, <2>7 DEF OneRunEach
    <3>5. d \notin Range(sweep)
      BY <2>1, <2>7 DEF OneRunEach
    <3>. QED  BY <2>1, <2>3, <2>4, <2>7, <3>1, <3>2, <3>3, <3>4, <3>5 DEF OneRunEach
  <2>8. StaysDelivered
    <3>. SUFFICES ASSUME mishaps' \subseteq {"crash"},
                         NEW c \in Delivery, deliveries[c].status = "delivered"
                  PROVE  deliveries'[c].status = "delivered" /\ tries'[c] = tries[c]
      BY DEF StaysDelivered
    <3>1. c # d
      BY <2>1, <2>7 DEF FinalInv, history
    <3>. QED  BY <2>1, <2>5, <3>1 DEF history
  <2>. QED  BY <2>1, <2>6, <2>7, <2>8 DEF FinalInv, history
<1>8. ASSUME NEW r \in Runs, RecordThrows(r) PROVE FinalInv' /\ StaysDelivered
  <2>1. /\ deliveries' \in {deliveries, Recorded(r)}
        /\ mishaps' = mishaps \cup {"dbError"}
        /\ UNCHANGED <<subs, dispatching, matched, queued, sweep, tries, accepted>>
    BY <1>8 DEF RecordThrows
  <2>2. \A c \in Delivery : deliveries[c].status = "none" => deliveries'[c] = deliveries[c]
    BY <1>0, <2>1, RecordedRow
  <2>3. QueuedOnce(queued, dispatching, DOMAIN matched, deliveries')
    BY <1>0, <2>2 DEF FinalInv, QueuedOnce
  <2>4. ~(mishaps' \subseteq {"crash"})
    BY <2>1
  <2>. QED  BY <2>1, <2>3, <2>4 DEF FinalInv, StaysDelivered
<1>9. CASE StartRetries
  <2>1. /\ UNCHANGED <<dispatching, matched, queued, deliveries, runs, tries>>
        /\ mishaps' \subseteq {"crash"} =>
              mishaps \subseteq {"crash"} /\ \A r \in Runs : runs[r].at = "idle"
    BY <1>9 DEF StartRetries
  <2>2. /\ sweep' \in Seq(Delivery) /\ IsInjective(sweep')
        /\ \A d \in Range(sweep') : Undelivered(d, deliveries, queued)
    BY <1>9, OldestAreOpen
  <2>. QED  BY <2>1, <2>2 DEF FinalInv, StaysDelivered, OneRunEach
<1>10. CASE RetryDelivery
  <2>1. /\ sweep # << >> /\ sweep' = Tail(sweep)
        /\ UNCHANGED <<dispatching, matched, queued, deliveries, history>>
        /\ UNCHANGED runs \/ StartRun(Head(sweep), "facilitator")
    BY <1>10 DEF RetryDelivery
  <2>. DEFINE rest == Tail(sweep)
  <2>2. rest \in Seq(Delivery) /\ Range(rest) \subseteq Range(sweep)
    <3>. HIDE DEF Delivery
    <3>. QED  BY <1>0, <2>1, ShorterRange
  <2>3. ASSUME OneRunEach(runs, sweep, deliveries, queued)
        PROVE  OneRunEach(runs', rest, deliveries, queued)
    <3>1. /\ Head(sweep) \in Range(sweep) /\ Head(sweep) \notin Range(rest)
          /\ IsInjective(rest)
      <4>. HIDE DEF Delivery
      <4>. QED  BY <1>0, <2>1, <2>3, DistinctTail DEF OneRunEach
    <3>. HIDE DEF rest
    <3>2. OneRunEach(runs, rest, deliveries, queued)
      BY <2>2, <2>3, <3>1 DEF OneRunEach
    <3>3. /\ Undelivered(Head(sweep), deliveries, queued)
          /\ \A r \in Runs : runs[r].at # "idle" => runs[r].delivery # Head(sweep)
      BY <2>3, <3>1 DEF OneRunEach
    <3>. QED  BY <2>1, <3>1, <3>2, <3>3, RunStarts
  <2>. HIDE DEF rest
  <2>4. sweep' = rest
    BY <2>1 DEF rest
  <2>. QED  BY <2>1, <2>2, <2>3, <2>4 DEF FinalInv, StaysDelivered, history
<1>11. ASSUME NEW d \in Delivery, Age(d) PROVE FinalInv' /\ StaysDelivered
  <2>1. PICK row : row = [deliveries[d] EXCEPT !.old = TRUE]
                   /\ deliveries' = [deliveries EXCEPT ![d] = row]
    BY <1>11 DEF Age
  <2>2. row.status = deliveries[d].status
    BY <1>0, <2>1 DEF Row
  <2>3. \A c \in Delivery : deliveries'[c].status = deliveries[c].status
    BY <1>0, <2>1, <2>2
  <2>4. UNCHANGED <<dispatching, matched, queued, runs, sweep, history>>
    BY <1>11 DEF Age
  <2>. QED  BY <1>0, <2>3, <2>4, RowsMove DEF history
<1>12. ASSUME NEW d \in Delivery, CleanupDeliveries(d) PROVE FinalInv' /\ StaysDelivered
  <2>1. /\ deliveries' = [deliveries EXCEPT ![d] = NoRow]
        /\ UNCHANGED <<dispatching, matched, queued, runs, sweep, history>>
    BY <1>12 DEF CleanupDeliveries
  <2>2. \A c \in Delivery : deliveries'[c] = deliveries[c] \/ deliveries'[c].status = "none"
    BY <1>0, <2>1 DEF NoRow
  <2>. QED  BY <1>0, <2>1, <2>2, RowsMove DEF history
<1>13. ASSUME NEW service \in Services, WebhooksRestart(service)
       PROVE  FinalInv' /\ StaysDelivered
  <2>1. /\ runs' = [r \in Runs |-> IF runs[r].service = service THEN NoRun ELSE runs[r]]
        /\ dispatching' = [e \in Events |->
              IF e \in DOMAIN matched /\ matched[e].by = service THEN << >> ELSE dispatching[e]]
        /\ sweep' \in {sweep, << >>}
        /\ mishaps \subseteq mishaps'
        /\ UNCHANGED <<subs, matched, queued, deliveries, tries, accepted>>
    BY <1>13 DEF WebhooksRestart
  <2>2. /\ << >> \in Seq(Subs) /\ << >> \in Seq(Delivery)
        /\ Range(<< >>) = {} /\ IsInjective(<< >>)
    BY DEF Range, IsInjective
  <2>3. \A e \in Events : dispatching'[e] \in {dispatching[e], << >>}
    BY <2>1
  <2>4. dispatching' \in [Events -> Seq(Subs)]
    BY <1>0, <2>1, <2>2
  <2>5. QueuedOnce(queued, dispatching', DOMAIN matched, deliveries)
    BY <2>2, <2>3, <2>4 DEF FinalInv, QueuedOnce
  <2>6. \A r \in Runs : runs'[r].at # "idle" => runs'[r] = runs[r]
    BY <2>1 DEF NoRun
  <2>7. OneRunEach(runs, sweep, deliveries, queued)
        => OneRunEach(runs', sweep', deliveries, queued)
    BY <2>1, <2>2, <2>6 DEF OneRunEach
  <2>. QED  BY <1>0, <2>1, <2>2, <2>5, <2>7 DEF FinalInv, StaysDelivered
<1>14. CASE UNCHANGED webhooksVars
  BY <1>14 DEF webhooksVars, FinalInv, StaysDelivered
<1>. QED
  BY <1>1, <1>2, <1>3, <1>4, <1>5, <1>6, <1>7, <1>8, <1>9, <1>10, <1>11, <1>12, <1>13, <1>14
  DEF WebhooksNext, SubscriptionStep, DispatchEvent, DispatchTreasuryEvent, DispatchStep,
      DeliverWebhook, TreasuryDelivers, Posting, RetryTimer

\* What was delivered stays delivered and is not sent again, for any subscriptions, events
\* and runs, as long as no tick of the timer finds a run under way and no answer of the
\* database is lost - also across restarts of either service.
THEOREM DeliveredStaysFinal == EdgeSpec => DeliveredIsFinal
<1>1. EdgeInit => WebhooksInv /\ FinalInv
  BY WebhooksInitInv, FinalInitInv DEF EdgeInit
<1>2. WebhooksInv /\ FinalInv /\ [EdgeNext]_edgeVars
      => WebhooksInv' /\ FinalInv' /\ [StaysDelivered]_webhooksVars
  BY WebhooksNextInv, FinalNextInv, EachByItself
<1>. QED  BY <1>1, <1>2, PTL DEF EdgeSpec, DeliveredIsFinal, StaysDelivered

-----------------------------------------------------------------------------
(* Metering keeps the promise of AtLeastOnce *)

\* What the refinement needs: without a batch under way the flag is down.
MeteringInv ==
    /\ pending \in Seq(Usage) /\ sending \in Seq(Usage)
    /\ ~flushing => sending = << >>
    /\ isolates \in Nat

\* Every step of the client or of OpenMeter is a step of the outbox, or none.
LEMMA MeteringRefines ==
    ASSUME MeteringInv, [MeteringNext]_meteringVars
    PROVE  MeteringInv' /\ [Meter!OutboxNext]_(Meter!outbox)
<1>. DEFINE waits == Range(pending) \cup Range(sending)
            Rests == waits' = waits /\ metered' = metered /\ isolates' = isolates
<1>0. /\ pending \in Seq(Usage) /\ sending \in Seq(Usage) /\ isolates \in Nat
      /\ ~flushing => sending = << >>
      /\ << >> \in Seq(Usage) /\ Range(<< >>) = {}
  BY DEF MeteringInv, Range
<1>1. \A e \in Usage : waits' = waits \cup {e} /\ e \notin waits \cup metered
                       /\ metered' = metered /\ isolates' = isolates => Meter!OutboxNext
  BY DEF Meter!OutboxNext, Meter!Accept
<1>2. \A S \in SUBSET Usage : S # {} /\ S \subseteq waits /\ metered' = metered \cup S
                              /\ waits' = waits /\ isolates' = isolates => Meter!OutboxNext
  BY DEF Meter!OutboxNext, Meter!Store
<1>3. \A S \in SUBSET Usage : S # {} /\ S \subseteq waits \cap metered /\ waits' = waits \ S
                              /\ metered' = metered /\ isolates' = isolates
                              => Meter!OutboxNext
  BY DEF Meter!OutboxNext, Meter!Settle
<1>4. Rests => [Meter!OutboxNext]_(Meter!outbox)
  BY DEF Meter!outbox
<1>5. Range(sending) \in SUBSET Usage
  BY <1>0 DEF Range
\* What is flushed, or is not yet, waits.
<1>6. ASSUME NEW es \in Seq(Usage), Take(es), UNCHANGED isolates
      PROVE  MeteringInv' /\ waits' = Range(es) \cup Range(sending)
  BY <1>0, <1>6 DEF Take, MeteringInv
<1>7. ASSUME NEW e \in Usage, Emit(e) PROVE MeteringInv' /\ Meter!OutboxNext
  <2>1. Append(pending, e) \in Seq(Usage) /\ Range(Append(pending, e)) = Range(pending) \cup {e}
    BY <1>0, LongerRange
  <2>2. MeteringInv' /\ waits' = waits \cup {e}
    <3>1. CASE Take(Append(pending, e))
      BY <1>6, <1>7, <2>1, <3>1 DEF Emit
    <3>2. CASE pending' = Append(pending, e) /\ UNCHANGED <<sending, flushing>>
      BY <1>0, <1>7, <2>1, <3>2 DEF Emit, MeteringInv
    <3>. QED  BY <1>7, <3>1, <3>2 DEF Emit
  <2>. QED  BY <1>1, <1>7, <2>2 DEF Emit
<1>8. AutoFlush => MeteringInv' /\ Rests
  BY <1>0, <1>6 DEF AutoFlush
<1>9. Ingested => MeteringInv' /\ [Meter!OutboxNext]_(Meter!outbox)
  <2>. SUFFICES ASSUME Ingested PROVE MeteringInv' /\ [Meter!OutboxNext]_(Meter!outbox)
    OBVIOUS
  <2>. DEFINE S == Range(sending)
  <2>1. metered' = metered \cup S /\ UNCHANGED <<pending, sending, flushing, isolates>>
    BY DEF Ingested
  <2>2. waits' = waits /\ S \subseteq waits
    BY <2>1
  <2>3. MeteringInv'
    BY <1>0, <2>1 DEF MeteringInv
  <2>4. S \in SUBSET Usage
    BY <1>5
  <2>. HIDE DEF S, waits
  <2>. QED  BY <1>2, <1>4, <2>1, <2>2, <2>3, <2>4
<1>10. Flushed => MeteringInv' /\ [Meter!OutboxNext]_(Meter!outbox)
  <2>. SUFFICES ASSUME Flushed PROVE MeteringInv' /\ [Meter!OutboxNext]_(Meter!outbox)
    OBVIOUS
  <2>. DEFINE S == waits \ waits'
  <2>1. /\ sending' = << >> /\ ~flushing' /\ UNCHANGED <<pending, metered, isolates>>
        /\ Range(sending) \subseteq metered
    BY DEF Flushed
  <2>2. MeteringInv'
    BY <1>0, <2>1 DEF MeteringInv
  <2>3. waits' = Range(pending)
    BY <1>0, <2>1
  <2>4. S \subseteq Range(sending) /\ S \subseteq waits /\ waits' = waits \ S
    BY <2>3
  <2>5. S \in SUBSET Usage /\ S \subseteq waits \cap metered
    BY <1>5, <2>1, <2>4
  <2>. HIDE DEF S, waits
  <2>6. S = {} => waits' = waits
    BY <2>4
  <2>. QED  BY <1>3, <1>4, <2>1, <2>2, <2>4, <2>5, <2>6
<1>11. FlushFailed => MeteringInv' /\ Rests
  <2>. SUFFICES ASSUME FlushFailed PROVE MeteringInv' /\ Rests
    OBVIOUS
  <2>1. /\ pending' = sending \o pending /\ sending' = << >> /\ ~flushing'
        /\ UNCHANGED <<metered, isolates>>
    BY DEF FlushFailed
  <2>2. pending' \in Seq(Usage) /\ Range(pending') = Range(sending) \cup Range(pending)
    BY <1>0, <2>1, JoinedRange
  <2>. QED  BY <1>0, <2>1, <2>2 DEF MeteringInv
<1>12. IsolateEnds => MeteringInv' /\ Meter!OutboxNext
  <2>. SUFFICES ASSUME IsolateEnds PROVE MeteringInv' /\ Meter!OutboxNext
    OBVIOUS
  <2>1. /\ pending' = << >> /\ sending' = << >> /\ ~flushing'
        /\ isolates' = isolates + 1 /\ UNCHANGED metered
    BY DEF IsolateEnds
  <2>2. waits' = {} /\ isolates' # isolates
    BY <1>0, <2>1
  <2>3. Meter!ProcessEnds
    BY <2>1, <2>2 DEF Meter!ProcessEnds
  <2>. QED  BY <1>0, <2>1, <2>3 DEF Meter!OutboxNext, MeteringInv
<1>13. UNCHANGED meteringVars => MeteringInv' /\ Rests
  BY <1>0 DEF meteringVars, MeteringInv
<1>. HIDE DEF waits
<1>. QED
  BY <1>4, <1>7, <1>8, <1>9, <1>10, <1>11, <1>12, <1>13 DEF MeteringNext

\* Usage metering keeps the safety half of AtLeastOnce, for any events and any size of the
\* buffer: an event waits until OpenMeter has it, nothing else is metered, and only the
\* end of the isolate loses it.
THEOREM MeteringRefinesOutbox == EdgeSpec => MeteringDeliversSafely
<1>1. EdgeInit => MeteringInv /\ Range(pending) \cup Range(sending) = {} /\ metered = {}
  BY DEF EdgeInit, MeteringInit, MeteringInv, Range
<1>2. MeteringInv /\ [EdgeNext]_edgeVars => MeteringInv' /\ [Meter!OutboxNext]_(Meter!outbox)
  BY EachByItself, MeteringRefines
<1>. QED
  BY <1>1, <1>2, PTL DEF EdgeSpec, MeteringDeliversSafely, Meter!OutboxSafe

-----------------------------------------------------------------------------
(* Paged lists *)

\* Rank, of any set of rows: how many are newer.
RankIn(S, r) == Cardinality({s \in S : s > r})

\* The rows of a set whose rank is at least a and at most b.
Ranked(S, a, b) == {r \in S : RankIn(S, r) \in a..b}

\* The ranks of a finite set are 0, 1, 2, up to the number of its rows, each once.
LEMMA RanksFill ==
    ASSUME NEW S \in SUBSET Nat, IsFiniteSet(S)
    PROVE  /\ \A r \in S : RankIn(S, r) \in 0..(Cardinality(S) - 1)
           /\ \A r, t \in S : RankIn(S, r) = RankIn(S, t) => r = t
           /\ \A k \in 0..(Cardinality(S) - 1) : \E r \in S : RankIn(S, r) = k
<1>. DEFINE n == Cardinality(S)
            Above(r) == {s \in S : s > r}
            f == [r \in S |-> RankIn(S, r)]
<1>1. n \in Nat /\ \A r \in S : IsFiniteSet(Above(r)) /\ Cardinality(Above(r)) \in Nat
  BY FS_Subset, FS_CardinalityType
<1>2. \A r \in S : RankIn(S, r) \in 0..(n - 1)
  <2>. SUFFICES ASSUME NEW r \in S PROVE RankIn(S, r) \in 0..(n - 1)
    OBVIOUS
  <2>1. Above(r) \in SUBSET S /\ Above(r) # S
    OBVIOUS
  <2>2. Cardinality(Above(r)) <= n /\ Cardinality(Above(r)) # n
    <3>. HIDE DEF Above
    <3>. QED  BY <2>1, FS_Subset
  <2>3. RankIn(S, r) = Cardinality(Above(r))
    BY DEF RankIn
  <2>4. \A k \in Nat : k <= n /\ k # n => k \in 0..(n - 1)
    BY <1>1
  <2>. QED  BY <1>1, <2>2, <2>3, <2>4
<1>3. ASSUME NEW r \in S, NEW t \in S, r < t PROVE RankIn(S, t) < RankIn(S, r)
  <2>1. Above(t) \in SUBSET Above(r) /\ t \in Above(r) /\ t \notin Above(t)
    <3>1. \A s \in S : s > t => s > r
      BY <1>3
    <3>2. t > r /\ ~(t > t)
      BY <1>3
    <3>. QED  BY <3>1, <3>2
  <2>2. Cardinality(Above(t)) <= Cardinality(Above(r))
        /\ Cardinality(Above(t)) # Cardinality(Above(r))
    <3>1. IsFiniteSet(Above(r))
      BY <1>1
    <3>. HIDE DEF Above
    <3>. QED  BY <2>1, <3>1, FS_Subset
  <2>3. RankIn(S, r) = Cardinality(Above(r)) /\ RankIn(S, t) = Cardinality(Above(t))
    BY DEF RankIn
  <2>. QED  BY <1>1, <2>2, <2>3
<1>4. \A r, t \in S : RankIn(S, r) = RankIn(S, t) => r = t
  <2>. SUFFICES ASSUME NEW r \in S, NEW t \in S, RankIn(S, r) = RankIn(S, t), r # t
                PROVE  FALSE
    OBVIOUS
  <2>1. r < t \/ t < r
    OBVIOUS
  <2>2. RankIn(S, r) \in Int /\ RankIn(S, t) \in Int
    BY <1>2
  <2>. QED  BY <1>3, <2>1, <2>2
<1>5. f \in Injection(S, 0..(n - 1))
  BY <1>2, <1>4 DEF Injection, IsInjective
<1>6. IsFiniteSet(0..(n - 1)) /\ Cardinality(0..(n - 1)) = n
  <2>1. n - 1 \in Int /\ (0 > n - 1 => n = 0) /\ (n - 1) - 0 + 1 = n
    BY <1>1
  <2>. HIDE DEF n
  <2>. QED  BY <2>1, FS_Interval
<1>7. f \in Surjection(S, 0..(n - 1))
  <2>. HIDE DEF f
  <2>. QED  BY <1>5, <1>6, FS_Injection
<1>8. \A k \in 0..(n - 1) : \E r \in S : f[r] = k
  <2>. HIDE DEF f, n
  <2>. QED  BY <1>7 DEF Surjection
<1>. QED  BY <1>2, <1>4, <1>8

\* So a page is full, or holds all rows from its offset on.
LEMMA PageFills ==
    ASSUME NEW S \in SUBSET Nat, IsFiniteSet(S), NEW a \in Nat, NEW n \in Nat \ {0}
    PROVE  LET page == Ranked(S, a, a + n - 1)
               k == Cardinality(page)
               rows == Cardinality(S)
           IN  /\ IsFiniteSet(page) /\ k \in Nat /\ rows \in Nat
               /\ k <= n
               /\ k < n => k = 0 \/ a + k = rows
               /\ k < n => a + k >= rows
               /\ page # {} => a + k <= rows
               /\ k < n => \A r \in S : RankIn(S, r) < a + n
<1>. DEFINE rows == Cardinality(S)
            b == a + n - 1
            page == Ranked(S, a, b)
            top == IF b <= rows - 1 THEN b ELSE rows - 1
            f == [r \in page |-> RankIn(S, r)]
<1>0. rows \in Nat
  BY FS_CardinalityType
<1>1. IsFiniteSet(page) /\ Cardinality(page) \in Nat
  <2>1. page \in SUBSET S
    BY DEF Ranked
  <2>. QED  BY <2>1, FS_Subset, FS_CardinalityType
<1>2. \A r \in S : RankIn(S, r) \in 0..(rows - 1)
  BY RanksFill
<1>3. f \in Bijection(page, a..top)
  <2>1. \A r \in page : RankIn(S, r) \in a..top
    BY <1>0, <1>2 DEF Ranked
  <2>2. \A r, t \in page : RankIn(S, r) = RankIn(S, t) => r = t
    BY RanksFill DEF Ranked
  <2>3. \A k \in a..top : \E r \in page : RankIn(S, r) = k
    <3>1. \A k \in a..top : k \in 0..(rows - 1) /\ k \in a..b
      BY <1>0
    <3>2. \A k \in 0..(rows - 1) : \E r \in S : RankIn(S, r) = k
      BY RanksFill
    <3>. HIDE DEF top, b
    <3>. QED  BY <3>1, <3>2 DEF Ranked
  <2>4. f \in [page -> a..top]
    BY <2>1
  <2>5. \A r \in page : f[r] = RankIn(S, r)
    OBVIOUS
  <2>6. f \in Injection(page, a..top)
    <3>. HIDE DEF f, page, top
    <3>. QED  BY <2>2, <2>4, <2>5 DEF Injection, IsInjective
  <2>7. f \in Surjection(page, a..top)
    <3>. HIDE DEF f, page, top
    <3>. QED  BY <2>3, <2>4, <2>5 DEF Surjection
  <2>. QED  BY <2>6, <2>7 DEF Bijection
<1>4. Cardinality(page) = IF a > top THEN 0 ELSE top - a + 1
  <2>1. ExistsBijection(page, a..top)
    <3>. HIDE DEF f, page, top
    <3>. QED  BY <1>3 DEF ExistsBijection
  <2>2. Cardinality(a..top) = Cardinality(page)
    BY <1>1, <2>1, FS_Bijection
  <2>3. top \in Int
    BY <1>0
  <2>. HIDE DEF top, page
  <2>. QED  BY <2>2, <2>3, FS_Interval
<1>5. page # {} => Cardinality(page) # 0
  BY <1>1, FS_EmptySet
<1>6. ASSUME Cardinality(page) < n, NEW r \in S PROVE RankIn(S, r) < a + n
  <2>. DEFINE k == Cardinality(page)
              rank == RankIn(S, r)
  <2>1. rank \in 0..(rows - 1)
    BY <1>2
  <2>2. k = (IF a > top THEN 0 ELSE top - a + 1) /\ k \in Nat /\ k < n
    BY <1>1, <1>4, <1>6
  <2>. HIDE DEF page, k, rank, rows
  <2>3. rank < a + n
    BY <1>0, <2>1, <2>2
  <2>. QED  BY <2>3 DEF rank
<1>7. LET k == Cardinality(page)
      IN  /\ k <= n
          /\ k < n => k = 0 \/ a + k = rows
          /\ k < n => a + k >= rows
          /\ page # {} => a + k <= rows
  <2>. DEFINE k == Cardinality(page)
  <2>1. k = (IF a > top THEN 0 ELSE top - a + 1) /\ k \in Nat /\ (page # {} => k # 0)
    BY <1>1, <1>4, <1>5
  <2>. HIDE DEF page, k, rows
  <2>2. /\ k <= n
        /\ k < n => k = 0 \/ a + k = rows
        /\ k < n => a + k >= rows
        /\ page # {} => a + k <= rows
    BY <1>0, <2>1
  <2>. QED  BY <2>2 DEF k
<1>. QED  BY <1>0, <1>1, <1>6, <1>7

-----------------------------------------------------------------------------
\* What a client holds while it walks.
Walks == [at : {"query", "done"}, list : Lists, rule : Rules, asked : Nat \ {0},
          offset : Nat, asking : SUBSET BothQueries, total : Nat, page : SUBSET Nat,
          seen : SUBSET Nat, start : SUBSET Nat]

\* The rows that a walk still owes to the client, all of them and those past the page.
Owed(w) == (w.start \cap shown) \ w.seen
Missed(w) == Owed(w) \ w.page

\* The page that was asked for holds rows from its offset on, and unless it is full,
\* all that the walk owes.
PageOK(w) ==
    LET k == Cardinality(w.page)
        size == PageSize(w.asked)
    IN  IF "rows" \in w.asking THEN \A r \in Owed(w) : Rank(r) >= w.offset
        ELSE /\ k \in Nat
             /\ \A r \in Missed(w) : Rank(r) >= w.offset + size
             /\ k < size => Missed(w) = {}
             /\ (w.list.first = "rows" /\ "count" \notin w.asking
                    /\ w.offset + size >= w.total) => Missed(w) = {}

\* The total counts the rows before the page, or after it.
TotalOK(w) ==
    LET k == Cardinality(w.page)
        size == PageSize(w.asked)
        rows == Cardinality(shown)
    IN  /\ w.list.first = "count" =>
               /\ "count" \notin w.asking /\ "rows" \in w.asking => w.total <= rows
               /\ w.asking = {} /\ k < size => w.offset + k >= w.total
        /\ w.list.first = "rows" =>
               /\ "rows" \notin w.asking /\ w.page # {} => w.offset + k <= rows
               /\ w.asking = {} /\ w.page # {} => w.offset + k <= w.total

\* The statements come in their order.
OrderOK(w) ==
    /\ w.list.first = "count" /\ "rows" \notin w.asking => "count" \notin w.asking
    /\ w.list.first = "rows" /\ "rows" \in w.asking => "count" \in w.asking

\* A walk that goes on or has ended.
WalkOK(w) ==
    /\ w \in Walks
    /\ w.start \subseteq 1..last /\ w.start \cap open = {}
    /\ w.at = "query" => OrderOK(w) /\ PageOK(w) /\ (~w.list.cleaned => TotalOK(w))
    /\ w.at = "done" /\ (w.rule = "short" \/ w.list.first = "rows")
           => w.start \cap shown \subseteq w.seen

\* A row has begun before it shows, and shows when it has committed.
RowsOK ==
    /\ last \in Nat
    /\ open \subseteq 1..last /\ shown \subseteq 1..last /\ open \cap shown = {}

\* The inductive invariant of the lists.
OperatorInv == RowsOK /\ (walk = NoWalk \/ WalkOK(walk))

\* A limit is at least one row.
LEMMA SizeFits == ASSUME NEW n \in Nat \ {0} PROVE PageSize(n) \in Nat \ {0}
BY OperatorConstants DEF PageSize

\* The rows of a table are finitely many.
LEMMA RowsFinite ==
    ASSUME NEW n \in Nat, NEW S \in SUBSET (1..n)
    PROVE  /\ IsFiniteSet(S) /\ S \in SUBSET Nat
           /\ Cardinality(S) \in Nat
           /\ \A r : RankIn(S, r) \in Nat
<1>1. IsFiniteSet(S) /\ S \in SUBSET Nat
  <2>1. IsFiniteSet(1..n)
    BY PositionsFinite
  <2>2. IsFiniteSet(S)
    BY <2>1, FS_Subset
  <2>. QED  BY <2>2
<1>2. \A r : {s \in S : s > r} \in SUBSET S
  OBVIOUS
<1>. QED  BY <1>1, <1>2, FS_Subset, FS_CardinalityType DEF RankIn

\* Rank is about the rows that are shown.
LEMMA RankNow == \A r : Rank(r) = RankIn(shown, r)
BY DEF Rank, RankIn

\* A walk goes on while rows are written: what it owes gets no newer, as a row that
\* commits was not there at the start, and only moves back in the list.
LEMMA WalkStays ==
    ASSUME RowsOK, RowsOK', WalkOK(walk), walk' = walk,
           walk.start \cap shown' \subseteq shown,
           \A r \in shown' \cap shown : RankIn(shown', r) >= RankIn(shown, r),
           Cardinality(shown') >= Cardinality(shown) \/ walk.list.cleaned \/ walk.at = "done",
           walk.start \subseteq 1..last', walk.start \cap open' = {}
    PROVE  WalkOK(walk)'
<1>. DEFINE w == walk
            old == Cardinality(shown)
            new == Cardinality(shown')
            k == Cardinality(w.page)
            size == PageSize(w.asked)
<1>1. /\ old \in Nat /\ new \in Nat
      /\ \A r : Rank(r) = RankIn(shown, r) /\ Rank(r) \in Nat
      /\ \A r : Rank(r)' = RankIn(shown', r) /\ Rank(r)' \in Nat
  <2>1. /\ last \in Nat /\ shown \in SUBSET (1..last)
        /\ last' \in Nat /\ shown' \in SUBSET (1..last')
    BY DEF RowsOK
  <2>2. old \in Nat /\ \A r : RankIn(shown, r) \in Nat
    BY <2>1, RowsFinite
  <2>3. new \in Nat /\ \A r : RankIn(shown', r) \in Nat
    BY <2>1, RowsFinite
  <2>4. \A r : Rank(r)' = RankIn(shown', r)
    BY DEF Rank, RankIn
  <2>. QED  BY <2>2, <2>3, <2>4, RankNow
<1>2. w \in Walks /\ w.asked \in Nat \ {0} /\ w.offset \in Nat /\ w.total \in Nat
  BY DEF WalkOK, Walks
<1>3. size \in Nat \ {0}
  BY <1>2, SizeFits
<1>4. Owed(w)' \subseteq Owed(w) /\ Missed(w)' \subseteq Missed(w)
  BY DEF Owed, Missed
<1>5. \A r \in Owed(w)' : Rank(r)' >= Rank(r)
  BY <1>1, <1>4 DEF Owed
<1>6. Missed(w)' \subseteq Owed(w)'
  BY DEF Missed
<1>7. ASSUME w.at = "query" PROVE PageOK(w)'
  <2>1. PageOK(w)
    BY <1>7 DEF WalkOK
  <2>2. CASE "rows" \in w.asking
    <3>1. \A r \in Owed(w)' : Rank(r)' >= w.offset
      <4>1. \A r \in Owed(w)' : Rank(r) >= w.offset
        BY <1>4, <2>1, <2>2 DEF PageOK
      <4>. HIDE DEF w
      <4>. QED  BY <1>1, <1>2, <1>5, <4>1
    <3>. QED  BY <2>2, <3>1 DEF PageOK
  <2>3. CASE "rows" \notin w.asking
    <3>1. \A r \in Missed(w)' : Rank(r)' >= w.offset + size
      <4>1. \A r \in Missed(w)' : Rank(r) >= w.offset + size
        BY <1>4, <2>1, <2>3 DEF PageOK
      <4>. HIDE DEF w, size
      <4>. QED  BY <1>1, <1>2, <1>3, <1>5, <1>6, <4>1
    <3>2. Missed(w) = {} => Missed(w)' = {}
      BY <1>4
    <3>. QED  BY <2>1, <2>3, <3>1, <3>2 DEF PageOK
  <2>. QED  BY <2>2, <2>3
<1>8. ASSUME w.at = "query", ~w.list.cleaned PROVE TotalOK(w)'
  <2>1. TotalOK(w) /\ new >= old
    BY <1>8 DEF WalkOK
  <2>2. "rows" \notin w.asking => k \in Nat
    BY <1>8 DEF WalkOK, PageOK
  <2>3. w.total <= old => w.total <= new
    <3>. HIDE DEF w, old, new
    <3>. QED  BY <1>1, <1>2, <2>1
  <2>4. k \in Nat => (w.offset + k <= old => w.offset + k <= new)
    <3>. HIDE DEF w, old, new, k
    <3>. QED  BY <1>1, <1>2, <2>1
  <2>. QED  BY <2>1, <2>2, <2>3, <2>4 DEF TotalOK
<1>9. (w.at = "done" /\ (w.rule = "short" \/ w.list.first = "rows"))
         => w.start \cap shown' \subseteq w.seen
  BY DEF WalkOK
<1>. QED  BY <1>2, <1>7, <1>8, <1>9 DEF WalkOK, OrderOK

\* The writers.
LEMMA WritersKeepWalks ==
    ASSUME OperatorInv, RowBegins \/ (\E r \in open : RowCommits(r))
                                  \/ (\E r \in shown : RowDeleted(r))
    PROVE  OperatorInv'
<1>0. /\ RowsOK
      /\ IsFiniteSet(shown) /\ shown \in SUBSET Nat /\ Cardinality(shown) \in Nat
      /\ \A r : RankIn(shown, r) \in Nat
  BY RowsFinite DEF OperatorInv, RowsOK
<1>. SUFFICES /\ RowsOK' /\ walk' = walk
              /\ WalkOK(walk) => WalkOK(walk)'
  BY DEF OperatorInv, NoWalk
<1>1. CASE RowBegins
  <2>1. RowsOK' /\ walk' = walk /\ shown' = shown /\ last' = last + 1
    BY <1>0, <1>1 DEF RowBegins, RowsOK
  <2>. SUFFICES ASSUME WalkOK(walk) PROVE WalkOK(walk)'
    BY <2>1
  <2>2. walk.start \subseteq 1..last /\ walk.start \cap open = {}
    BY DEF WalkOK
  <2>3. walk.start \subseteq 1..last' /\ walk.start \cap open' = {}
    <3>1. last \in Nat /\ last + 1 \notin 1..last /\ 1..last \subseteq 1..(last + 1)
      BY <1>0 DEF RowsOK
    <3>. QED  BY <1>1, <2>2, <3>1 DEF RowBegins
  <2>4. Cardinality(shown') >= Cardinality(shown)
    BY <1>0, <2>1
  <2>5. \A r : RankIn(shown', r) >= RankIn(shown, r)
    BY <1>0, <2>1
  <2>. QED  BY <1>0, <2>1, <2>3, <2>4, <2>5, WalkStays
<1>2. ASSUME NEW r \in open, RowCommits(r) PROVE RowsOK' /\ walk' = walk
                                                 /\ (WalkOK(walk) => WalkOK(walk)')
  <2>1. RowsOK' /\ walk' = walk /\ last' = last
    BY <1>0, <1>2 DEF RowCommits, RowsOK
  <2>. SUFFICES ASSUME WalkOK(walk) PROVE WalkOK(walk)'
    BY <2>1
  <2>2. shown' = shown \cup {r} /\ open' = open \ {r} /\ r \notin walk.start
    BY <1>2 DEF RowCommits, WalkOK
  <2>3. /\ IsFiniteSet(shown') /\ Cardinality(shown') \in Nat
        /\ \A t : RankIn(shown', t) \in Nat
    <3>1. last' \in Nat /\ shown' \in SUBSET (1..last')
      BY <2>1 DEF RowsOK
    <3>. QED  BY <3>1, RowsFinite
  <2>4. Cardinality(shown) <= Cardinality(shown')
    BY <2>2, <2>3, FS_Subset
  <2>5. \A t : RankIn(shown, t) <= RankIn(shown', t)
    <3>1. \A t : {s \in shown : s > t} \in SUBSET {s \in shown' : s > t}
      BY <2>2
    <3>2. \A t : IsFiniteSet({s \in shown' : s > t})
      BY <2>3, FS_Subset
    <3>. QED  BY <3>1, <3>2, FS_Subset DEF RankIn
  <2>6. \A t : RankIn(shown', t) >= RankIn(shown, t)
    BY <1>0, <2>3, <2>5
  <2>7. Cardinality(shown') >= Cardinality(shown)
    BY <1>0, <2>3, <2>4
  <2>8. walk.start \subseteq 1..last' /\ walk.start \cap open' = {}
        /\ walk.start \cap shown' \subseteq shown
    BY <2>1, <2>2 DEF WalkOK
  <2>. QED  BY <1>0, <2>1, <2>6, <2>7, <2>8, WalkStays
<1>3. ASSUME NEW q \in shown, RowDeleted(q) PROVE RowsOK' /\ walk' = walk
                                                  /\ (WalkOK(walk) => WalkOK(walk)')
  <2>1. RowsOK' /\ walk' = walk /\ last' = last /\ open' = open /\ shown' = shown \ {q}
    BY <1>0, <1>3 DEF RowDeleted, RowsOK
  <2>. SUFFICES ASSUME WalkOK(walk) PROVE WalkOK(walk)'
    BY <2>1
  <2>2. \A t \in shown' : {s \in shown' : s > t} = {s \in shown : s > t}
    <3>1. \A t \in shown' : ~(q > t)
      BY <1>0, <1>3, <2>1 DEF RowDeleted
    <3>. QED  BY <2>1, <3>1
  <2>3. \A t \in shown' : RankIn(shown', t) = RankIn(shown, t)
    BY <2>2 DEF RankIn
  <2>4. \A t \in shown' : RankIn(shown', t) >= RankIn(shown, t)
    BY <1>0, <2>3
  <2>5. walk.list.cleaned
    BY <1>3 DEF RowDeleted
  <2>6. walk.start \subseteq 1..last' /\ walk.start \cap open' = {}
        /\ walk.start \cap shown' \subseteq shown
    BY <2>1 DEF WalkOK
  <2>. QED  BY <1>0, <2>1, <2>4, <2>5, <2>6, WalkStays
<1>. QED  BY <1>1, <1>2, <1>3

\* The count: the rows that are there, as many as before the page or more than after it.
LEMMA CountKeepsInv == ASSUME OperatorInv, Query, CountRows PROVE OperatorInv'
<1>. DEFINE w == walk
            q == walk'
            rows == Cardinality(shown)
            k == Cardinality(w.page)
            size == PageSize(w.asked)
<1>1. WalkOK(w) /\ RowsOK /\ w.at = "query"
  BY DEF OperatorInv, Query, NoWalk
<1>2. w \in Walks /\ rows \in Nat /\ size \in Nat \ {0}
  BY <1>1, RowsFinite, SizeFits DEF WalkOK, Walks, RowsOK
<1>3. q = [w EXCEPT !.total = rows, !.asking = @ \ {"count"}]
  BY DEF CountRows
<1>4. /\ q \in Walks
      /\ q.at = w.at /\ q.list = w.list /\ q.rule = w.rule /\ q.asked = w.asked
      /\ q.offset = w.offset /\ q.page = w.page /\ q.seen = w.seen /\ q.start = w.start
      /\ q.total = rows /\ q.asking = w.asking \ {"count"}
  <2>. HIDE DEF q, w, rows
  <2>. QED  BY <1>2, <1>3 DEF Walks
<1>5. UNCHANGED <<last, open, shown>>
  BY DEF Query
<1>6. /\ Owed(walk)' = Owed(w) /\ Missed(walk)' = Missed(w)
      /\ ("rows" \in q.asking <=> "rows" \in w.asking) /\ "count" \notin q.asking
      /\ \A r : Rank(r)' = Rank(r)
  BY <1>4, <1>5 DEF Owed, Missed, Rank
<1>7. PageOK(w) /\ OrderOK(w) /\ (~w.list.cleaned => TotalOK(w))
  BY <1>1 DEF WalkOK
\* What is owed past the page is in the count.
<1>8. ASSUME "rows" \notin w.asking, w.offset + size >= rows PROVE Missed(w) = {}
  <2>. SUFFICES ASSUME NEW r \in Missed(w) PROVE FALSE
    OBVIOUS
  <2>1. r \in shown /\ Rank(r) >= w.offset + size
    BY <1>7, <1>8 DEF PageOK, Missed, Owed
  <2>2. RankIn(shown, r) \in 0..(rows - 1)
    <3>1. IsFiniteSet(shown) /\ shown \in SUBSET Nat
      BY <1>1, RowsFinite DEF RowsOK
    <3>. QED  BY <2>1, <3>1, RanksFill
  <2>3. w.offset \in Nat
    BY <1>2 DEF Walks
  <2>. HIDE DEF w, rows, size
  <2>. QED  BY <1>2, <1>8, <2>1, <2>2, <2>3, RankNow
<1>9. PageOK(walk)'
  <2>1. CASE "rows" \in w.asking
    BY <1>4, <1>6, <1>7, <2>1 DEF PageOK
  <2>2. CASE "rows" \notin w.asking
    BY <1>4, <1>6, <1>7, <1>8, <2>2 DEF PageOK
  <2>. QED  BY <2>1, <2>2
<1>10. ASSUME ~w.list.cleaned PROVE TotalOK(walk)'
  <2>1. TotalOK(w)
    BY <1>7, <1>10
  <2>2. "count" \in w.asking /\ (w.list.first # "rows" \/ w.asking = {"count"})
    BY DEF CountRows
  <2>3. rows' = rows /\ rows <= rows
    BY <1>2, <1>5
  <2>4. q.list.first = "count" => "rows" \in q.asking
    BY <1>4, <1>6, <1>7, <2>2 DEF OrderOK
  <2>5. q.list.first = "rows" => "rows" \notin w.asking
    BY <1>4, <2>2
  <2>6. q.list.first = "rows" /\ w.page # {} => w.offset + k <= rows
    BY <1>4, <2>1, <2>5 DEF TotalOK
  <2>7. q.total <= Cardinality(shown') /\ Cardinality(shown') = rows
    BY <1>4, <2>3
  <2>8. q.list.first = "rows" /\ q.page # {} =>
           q.offset + Cardinality(q.page) <= rows /\ q.offset + Cardinality(q.page) <= q.total
    BY <1>4, <2>6
  <2>9. q.list.first = "count" => q.asking # {}
    BY <2>4
  <2>. HIDE DEF k, size, rows, w
  <2>. QED  BY <2>4, <2>7, <2>8, <2>9 DEF TotalOK
<1>11. WalkOK(walk)'
  <2>1. q.start \subseteq 1..last' /\ q.start \cap open' = {}
    BY <1>1, <1>4, <1>5 DEF WalkOK
  <2>2. OrderOK(walk)'
    <3>1. "count" \in w.asking /\ (w.list.first # "rows" \/ w.asking = {"count"})
      BY DEF CountRows
    <3>. QED  BY <1>4, <1>7, <3>1 DEF OrderOK
  <2>. QED  BY <1>1, <1>4, <1>9, <1>10, <2>1, <2>2 DEF WalkOK
<1>. QED  BY <1>1, <1>5, <1>11 DEF OperatorInv, RowsOK

\* The page: what the walk owes is at or behind its offset, so it is on the page or
\* behind it, where nothing is if the page is not full.
LEMMA PageKeepsInv == ASSUME OperatorInv, Query, SelectPage PROVE OperatorInv'
<1>. DEFINE w == walk
            q == walk'
            rows == Cardinality(shown)
            size == PageSize(w.asked)
            page == Ranked(shown, w.offset, w.offset + size - 1)
            k == Cardinality(page)
<1>1. WalkOK(w) /\ RowsOK /\ w.at = "query"
  BY DEF OperatorInv, Query, NoWalk
<1>2. w \in Walks /\ w.offset \in Nat /\ size \in Nat \ {0}
  BY <1>1, SizeFits DEF WalkOK, Walks
<1>3. /\ IsFiniteSet(shown) /\ shown \in SUBSET Nat /\ rows \in Nat
      /\ \A r : RankIn(shown, r) \in Nat
  BY <1>1, RowsFinite DEF RowsOK
<1>4. /\ k \in Nat
      /\ k < size => w.offset + k >= rows
      /\ page # {} => w.offset + k <= rows
      /\ k < size => \A r \in shown : RankIn(shown, r) < w.offset + size
  <2>. HIDE DEF w, size
  <2>. QED  BY <1>2, <1>3, PageFills
<1>5. q = [w EXCEPT !.page = page, !.asking = @ \ {"rows"}]
  BY RankNow DEF SelectPage, Ranked
<1>6. /\ q \in Walks
      /\ q.at = w.at /\ q.list = w.list /\ q.rule = w.rule /\ q.asked = w.asked
      /\ q.offset = w.offset /\ q.total = w.total /\ q.seen = w.seen /\ q.start = w.start
      /\ q.page = page /\ q.asking = w.asking \ {"rows"}
  <2>1. page \in SUBSET Nat
    BY <1>3 DEF Ranked
  <2>. HIDE DEF q, w, page
  <2>. QED  BY <1>2, <1>5, <2>1 DEF Walks
<1>7. UNCHANGED <<last, open, shown>>
  BY DEF Query
<1>8. /\ Owed(walk)' = Owed(w) /\ Missed(walk)' = Owed(w) \ page
      /\ "rows" \notin q.asking /\ ("count" \in q.asking <=> "count" \in w.asking)
      /\ \A r : Rank(r)' = Rank(r)
  BY <1>6, <1>7 DEF Owed, Missed, Rank
<1>9. "rows" \in w.asking /\ (w.list.first # "count" \/ w.asking = {"rows"})
  BY DEF SelectPage
<1>10. \A r \in Owed(w) : Rank(r) >= w.offset
  BY <1>1, <1>9 DEF WalkOK, PageOK
<1>11. \A r \in Owed(w) \ page : Rank(r) >= w.offset + size
  <2>. SUFFICES ASSUME NEW r \in Owed(w), r \notin page PROVE Rank(r) >= w.offset + size
    OBVIOUS
  <2>1. r \in shown /\ RankIn(shown, r) \notin w.offset..(w.offset + size - 1)
    BY DEF Owed, Ranked
  <2>2. RankIn(shown, r) >= w.offset
    BY <1>10, RankNow
  <2>. HIDE DEF w, size
  <2>3. RankIn(shown, r) >= w.offset + size
    BY <1>2, <1>3, <2>1, <2>2
  <2>. QED  BY <2>3, RankNow
<1>12. k < size => Owed(w) \ page = {}
  <2>. SUFFICES ASSUME k < size, NEW r \in Owed(w) \ page PROVE FALSE
    OBVIOUS
  <2>1. r \in shown
    BY DEF Owed
  <2>2. RankIn(shown, r) < w.offset + size /\ RankIn(shown, r) >= w.offset + size
    BY <1>4, <1>11, <2>1, RankNow
  <2>. HIDE DEF w, size
  <2>. QED  BY <1>2, <1>3, <2>2
<1>13. w.list.first = "rows" => "count" \in w.asking
  BY <1>1, <1>9 DEF WalkOK, OrderOK
<1>14. PageOK(walk)'
  <2>. HIDE DEF page
  <2>. QED  BY <1>4, <1>6, <1>8, <1>11, <1>12, <1>13 DEF PageOK
<1>15. ASSUME ~w.list.cleaned PROVE TotalOK(walk)'
  <2>1. TotalOK(w)
    BY <1>1, <1>15 DEF WalkOK
  <2>2. w.list.first = "count" => w.asking = {"rows"} /\ w.total <= rows
    BY <1>9, <2>1 DEF TotalOK
  <2>3. w.list.first = "count" /\ k < size => w.offset + k >= w.total
    <3>1. w.total \in Nat
      BY <1>2 DEF Walks
    <3>. HIDE DEF w, size, rows, page
    <3>. QED  BY <1>2, <1>3, <1>4, <2>2, <3>1
  <2>4. rows' = rows
    BY <1>7
  <2>. HIDE DEF page
  <2>. QED  BY <1>4, <1>6, <1>8, <1>13, <2>2, <2>3, <2>4 DEF TotalOK
<1>16. OrderOK(walk)'
  BY <1>6, <1>8, <1>9, <1>13 DEF OrderOK
<1>17. WalkOK(walk)'
  <2>1. q.start \subseteq 1..last' /\ q.start \cap open' = {}
    BY <1>1, <1>6, <1>7 DEF WalkOK
  <2>. QED  BY <1>1, <1>6, <1>14, <1>15, <1>16, <2>1 DEF WalkOK
<1>. QED  BY <1>1, <1>7, <1>17 DEF OperatorInv, RowsOK

\* The next page, the end of the walk, a walk given up, and a new one.
LEMMA ClientKeepsInv ==
    ASSUME OperatorInv,
           NextPage \/ QueryFails
             \/ \E list \in Lists, asked \in Limits, rule \in Rules : StartWalk(list, asked, rule)
    PROVE  OperatorInv'
<1>0. RowsOK /\ (walk = NoWalk \/ WalkOK(walk))
  BY DEF OperatorInv
<1>1. CASE QueryFails
  BY <1>0, <1>1 DEF QueryFails, OperatorInv, RowsOK
<1>2. ASSUME NEW list \in Lists, NEW asked \in Limits, NEW rule \in Rules,
             StartWalk(list, asked, rule)
      PROVE  OperatorInv'
  <2>1. UNCHANGED <<last, open, shown>> /\ RowsOK'
    BY <1>0, <1>2 DEF StartWalk, RowsOK
  <2>2. walk' = [at |-> "query", list |-> list, rule |-> rule, asked |-> asked, offset |-> 0,
                 asking |-> BothQueries, total |-> 0, page |-> {}, seen |-> {}, start |-> shown]
    BY <1>2 DEF StartWalk
  <2>3. /\ IsFiniteSet(shown) /\ shown \in SUBSET Nat
        /\ \A r : RankIn(shown, r) \in Nat
    BY <1>0, RowsFinite DEF RowsOK
  <2>4. walk' \in Walks
    <3>1. asked \in Nat \ {0} /\ {} \in SUBSET Nat /\ BothQueries \in SUBSET BothQueries
      BY OperatorConstants
    <3>. HIDE DEF Lists, Rules, BothQueries
    <3>. QED  BY <2>2, <2>3, <3>1 DEF Walks
  <2>5. "count" \in walk'.asking /\ "rows" \in walk'.asking /\ walk'.at = "query"
        /\ walk'.offset = 0 /\ walk'.page = {} /\ walk'.start = shown
    BY <2>2 DEF BothQueries
  <2>6. PageOK(walk)' /\ TotalOK(walk)' /\ OrderOK(walk)'
    <3>1. \A r : Rank(r)' \in Nat
      BY <2>1, <2>3 DEF Rank, RankIn
    <3>2. PageOK(walk)'
      BY <2>5, <3>1 DEF PageOK
    <3>. QED  BY <2>5, <3>2 DEF TotalOK, OrderOK
  <2>7. walk'.start \subseteq 1..last' /\ walk'.start \cap open' = {}
    BY <1>0, <2>1, <2>5 DEF RowsOK
  <2>8. WalkOK(walk)'
    BY <2>4, <2>5, <2>6, <2>7 DEF WalkOK
  <2>. QED  BY <2>1, <2>8 DEF OperatorInv
<1>3. CASE NextPage
  <2>. DEFINE w == walk
              q == walk'
              size == PageSize(w.asked)
              end == LastPage
  <2>1. WalkOK(w) /\ w.at = "query" /\ w.asking = {}
    BY <1>0, <1>3 DEF NextPage, Replied, NoWalk
  <2>2. UNCHANGED <<last, open, shown>> /\ RowsOK'
    BY <1>0, <1>3 DEF NextPage, RowsOK
  <2>3. w \in Walks /\ w.offset \in Nat /\ size \in Nat \ {0} /\ w.offset + size \in Nat
    BY <2>1, SizeFits DEF WalkOK, Walks
  <2>4. q = [w EXCEPT !.at = IF end THEN "done" ELSE "query",
                      !.offset = IF end THEN @ ELSE @ + size,
                      !.asking = IF end THEN {} ELSE BothQueries,
                      !.seen = @ \cup w.page]
    BY <1>3 DEF NextPage, Size
  <2>5. /\ q \in Walks
        /\ q.list = w.list /\ q.rule = w.rule /\ q.asked = w.asked
        /\ q.total = w.total /\ q.page = w.page /\ q.start = w.start
        /\ q.seen = w.seen \cup w.page
        /\ q.at = IF end THEN "done" ELSE "query"
        /\ q.offset = IF end THEN w.offset ELSE w.offset + size
        /\ q.asking = IF end THEN {} ELSE BothQueries
    <3>1. {} \in SUBSET BothQueries /\ BothQueries \in SUBSET BothQueries
      OBVIOUS
    <3>. HIDE DEF q, w, end, size, BothQueries
    <3>. QED  BY <2>3, <2>4, <3>1 DEF Walks
  <2>6. PageOK(w)
    BY <2>1 DEF WalkOK
  <2>7. /\ Owed(walk)' = Missed(w)
        /\ \A r : Rank(r)' = Rank(r)
    BY <2>2, <2>5 DEF Owed, Missed, Rank
  <2>8. \A r \in Missed(w) : Rank(r) >= w.offset + size
    BY <2>1, <2>6 DEF PageOK
  <2>9. q.start \subseteq 1..last' /\ q.start \cap open' = {}
    BY <2>1, <2>2, <2>5 DEF WalkOK
  <2>10. CASE end
    <3>1. q.at = "done"
      BY <2>5, <2>10
    <3>2. ASSUME w.rule = "short" \/ w.list.first = "rows" PROVE Missed(w) = {}
      <4>1. CASE w.rule = "short"
        <5>1. Cardinality(w.page) < size
          BY <2>10, <4>1 DEF LastPage, Size
        <5>. QED  BY <2>1, <2>6, <5>1 DEF PageOK
      <4>2. CASE w.rule # "short"
        <5>1. w.list.first = "rows" /\ w.offset + size >= w.total
          BY <2>10, <3>2, <4>2 DEF LastPage, Size
        <5>. QED  BY <2>1, <2>6, <5>1 DEF PageOK
      <4>. QED  BY <4>1, <4>2
    <3>3. (q.rule = "short" \/ q.list.first = "rows") => q.start \cap shown' \subseteq q.seen
      BY <2>5, <2>7, <3>2 DEF Owed
    <3>4. WalkOK(walk)'
      BY <2>5, <2>9, <3>1, <3>3 DEF WalkOK
    <3>. QED  BY <2>2, <3>4 DEF OperatorInv
  <2>11. CASE ~end
    <3>1. q.at = "query" /\ q.offset = w.offset + size
          /\ "count" \in q.asking /\ "rows" \in q.asking /\ q.asking # {}
      BY <2>5, <2>11 DEF BothQueries
    <3>2. PageOK(walk)' /\ TotalOK(walk)' /\ OrderOK(walk)'
      <4>1. PageOK(walk)'
        BY <2>7, <2>8, <3>1 DEF PageOK
      <4>. QED  BY <3>1, <4>1 DEF TotalOK, OrderOK
    <3>3. WalkOK(walk)'
      BY <2>5, <2>9, <3>1, <3>2 DEF WalkOK
    <3>. QED  BY <2>2, <3>3 DEF OperatorInv
  <2>. QED  BY <2>10, <2>11
<1>. QED  BY <1>1, <1>2, <1>3

\* The lists begin empty, with no walk.
LEMMA OperatorInitInv == OperatorInit => OperatorInv
BY DEF OperatorInit, OperatorInv, RowsOK

\* No step of a writer, of a handler or of a client makes a walk lose a row.
LEMMA OperatorNextInv == OperatorInv /\ [OperatorNext]_operatorVars => OperatorInv'
<1>1. ASSUME OperatorInv, OperatorNext PROVE OperatorInv'
  <2>1. CASE Query
    BY <1>1, <2>1, CountKeepsInv, PageKeepsInv DEF Query
  <2>2. CASE ~Query
    BY <1>1, <2>2, WritersKeepWalks, ClientKeepsInv DEF OperatorNext
  <2>. QED  BY <2>1, <2>2
<1>2. ASSUME OperatorInv, UNCHANGED operatorVars PROVE OperatorInv'
  BY <1>2 DEF operatorVars, OperatorInv, RowsOK, WalkOK, OrderOK, PageOK, TotalOK, Owed,
              Missed, Rank
<1>. QED  BY <1>1, <1>2

\* The invariant says what the client may rely on.
LEMMA OperatorSafe == OperatorInv => PagesAgree
<1>. SUFFICES ASSUME OperatorInv PROVE PagesAgree
  OBVIOUS
<1>1. CASE walk = NoWalk
  BY <1>1 DEF NoWalk, PagesAgree, WalkMissesNothing, RepliesAgree
<1>2. CASE WalkOK(walk)
  <2>1. WalkMissesNothing
    BY <1>2 DEF WalkOK, WalkMissesNothing
  <2>2. RepliesAgree
    <3>. SUFFICES ASSUME walk.at = "query", Replied, ~walk.list.cleaned
                  PROVE  LET n == walk.offset + Cardinality(walk.page)
                         IN  /\ (walk.list.first = "count" /\ Cardinality(walk.page) < Size)
                                   => n >= walk.total
                             /\ (walk.list.first = "rows" /\ walk.page # {}) => n <= walk.total
      BY DEF RepliesAgree
    <3>. QED  BY <1>2 DEF WalkOK, TotalOK, Replied, Size
  <2>. QED  BY <2>1, <2>2 DEF PagesAgree
<1>. QED  BY <1>1, <1>2 DEF OperatorInv

-----------------------------------------------------------------------------
(* The voice *)

\* Types of the script, and of what a text and its reading are.
Passages == Seq(SentenceRecords)
Queues == Seq(Passages)
Indices == Nat \ {0}
Engines == {"browser", "elevenlabs"}
AudioRecords == [at : {"none", "playing", "paused", "ended"}, chunk : Passages]
VoiceRecords ==
    [engine : Engines, queue : Queues, index : Indices, paused : BOOLEAN,
     speaking : BOOLEAN, audio : AudioRecords, lost : Queues,
     fetches : Queues, synth : Queues, held : BOOLEAN, errors : Nat]
ReadingRecords == [text : Passages, heard : Passages, alone : BOOLEAN, failed : BOOLEAN]

\* What is left of a queue.
Left(q, i) == FlattenSeq(SubSeq(q, i, Len(q)))
Rest(v) == Left(v.queue, v.index)

\* All of a text that is read: with what follows its last full stop, or without.
Whole(text, s) == s = text \/ s = Sentences(text)

\* What ElevenLabs gets in one piece.
Fits(c) == ChunkSize(c) <= TtsMax
AllFit(q) == \A i \in DOMAIN q : Fits(q[i])

Silent(audio) == audio = NoAudio \/ audio.at = "ended"

\* The chunk at the index is with the synthesis of the browser,
ByBrowser(v) ==
    /\ v.engine = "browser" /\ v.synth = <<v.queue[v.index]>> /\ v.fetches = <<>>
    /\ Silent(v.audio)

\* or with ElevenLabs, asked for or playing,
ByEleven(v) ==
    /\ v.engine = "elevenlabs" /\ v.synth = <<>>
    /\ AllFit(v.queue)
    /\ \/ v.fetches = <<v.queue[v.index]>> /\ Silent(v.audio)
       \/ /\ v.fetches = <<>> /\ v.audio.at \in {"playing", "paused"}
          /\ v.audio.chunk = v.queue[v.index]

\* or nothing goes on.
Hushed(v) == v.synth = <<>> /\ v.fetches = <<>> /\ Silent(v.audio)

\* A reading that was left alone: what was heard and what is left is the text, and one
\* speaker has the chunk at the index, or all is said, or failed.
Reads(v, r) ==
    /\ v.lost = <<>> /\ v.errors = 0
    /\ Whole(r.text, r.heard \o Rest(v))
    /\ \/ v.speaking /\ v.index <= Len(v.queue) /\ (ByBrowser(v) \/ ByEleven(v))
       \/ Hushed(v) /\ (r.failed \/ v.index > Len(v.queue))

\* The inductive invariant of the voice.
VoiceInv ==
    /\ voice \in VoiceRecords /\ reading \in ReadingRecords
    /\ reading.alone => reading.text \in Texts /\ Reads(voice, reading)

\* The values of a loop of m rounds.
Loop(g, V, b, m, step) ==
    /\ g \in [0..m -> V] /\ g[0] = b
    /\ \A n \in 1..m : g[n] = step[n][g[n - 1]]

\* A loop has a value after every round.
LEMMA Iterates ==
    ASSUME NEW V, NEW b \in V, NEW m \in Nat, NEW step \in [1..m -> [V -> V]]
    PROVE  \E g : Loop(g, V, b, m, step)
<1>. DEFINE Upto(g, k) == g[0] = b /\ \A n \in 1..k : g[n] = step[n][g[n - 1]]
            F == {k \in Nat : k <= m => \E g \in [0..k -> V] : Upto(g, k)}
<1>1. 0 \in F
  <2>. DEFINE g == [n \in 0..0 |-> b]
  <2>1. g \in [0..0 -> V] /\ Upto(g, 0)
    OBVIOUS
  <2>. HIDE DEF g, Upto
  <2>. QED  BY <2>1
<1>2. ASSUME NEW k \in Nat, k \in F PROVE k + 1 \in F
  <2>. SUFFICES ASSUME k + 1 <= m PROVE \E g \in [0..(k + 1) -> V] : Upto(g, k + 1)
    OBVIOUS
  <2>1. PICK g \in [0..k -> V] : Upto(g, k)
    BY <1>2
  <2>. DEFINE h == [n \in 0..(k + 1) |-> IF n = k + 1 THEN step[k + 1][g[k]] ELSE g[n]]
  <2>2. g[k] \in V /\ k + 1 \in 1..m
    OBVIOUS
  <2>3. step[k + 1][g[k]] \in V
    BY <2>2
  <2>4. \A n \in 0..(k + 1) : n # k + 1 => n \in 0..k
    OBVIOUS
  <2>5. h \in [0..(k + 1) -> V]
    BY <2>3, <2>4
  <2>6. Upto(h, k + 1)
    <3>1. h[0] = b
      BY <2>1
    <3>2. ASSUME NEW n \in 1..(k + 1) PROVE h[n] = step[n][h[n - 1]]
      <4>1. CASE n = k + 1
        BY <4>1
      <4>2. CASE n # k + 1
        <5>1. n \in 1..k /\ n - 1 \in 0..k /\ n - 1 # k + 1
          BY <4>2
        <5>. QED  BY <2>1, <4>2, <5>1
      <4>. QED  BY <4>1, <4>2
    <3>. QED  BY <3>1, <3>2
  <2>. HIDE DEF h, Upto
  <2>. QED  BY <2>5, <2>6
<1>3. Nat \subseteq F
  <2>. HIDE DEF F
  <2>. QED  BY <1>1, <1>2, NatInduct
<1>4. PICK g \in [0..m -> V] : Upto(g, m)
  BY <1>3
<1>. QED  BY <1>4 DEF Loop

\* What FlattenSeq goes through.
Flattens(g, q, n, S) ==
    /\ g \in [0..n -> Seq(S)] /\ g[0] = <<>> /\ g[n] = FlattenSeq(q)
    /\ \A i \in 1..n : g[i] = g[i - 1] \o q[i]

\* The chunks can be joined one by one.
LEMMA FlattenGoes ==
    ASSUME NEW S, NEW q \in Seq(Seq(S)), NEW n \in Nat, Len(q) = n
    PROVE  \E g : Flattens(g, q, n, S)
<1>. DEFINE P(f) == f = [i \in 1..n |-> IF i = 1 THEN q[i] ELSE f[i - 1] \o q[i]]
            c == CHOOSE f : P(f)
<1>1. /\ \A i \in 1..n : q[i] \in Seq(S) /\ i - 1 \in 0..n
      /\ \A k \in Nat : k + 1 \in 1..n => /\ (k + 1) - 1 = k
                                          /\ k # 0 => k \in 1..n /\ k + 1 # 1
  OBVIOUS
<1>2. CASE n = 0
  <2>. DEFINE g == [i \in 0..0 |-> <<>>]
  <2>1. g \in [0..n -> Seq(S)] /\ g[0] = <<>> /\ FlattenSeq(q) = <<>>
    BY <1>2 DEF FlattenSeq
  <2>. HIDE DEF g
  <2>2. \A i : i \notin 1..n
    BY <1>2
  <2>3. Flattens(g, q, n, S)
    BY <1>2, <2>1, <2>2 DEF Flattens
  <2>. QED  BY <2>3
<1>3. CASE n # 0
  <2>. DEFINE step == [i \in 1..n |-> [v \in Seq(S) |-> v \o q[i]]]
  <2>1. step \in [1..n -> [Seq(S) -> Seq(S)]]
    <3>1. \A i \in 1..n : \A v \in Seq(S) : v \o q[i] \in Seq(S)
      BY <1>1, ConcatProperties
    <3>2. \A i \in 1..n : [v \in Seq(S) |-> v \o q[i]] \in [Seq(S) -> Seq(S)]
      BY <3>1
    <3>. QED  BY <3>2
  <2>2. \A i \in 1..n, v \in Seq(S) : step[i][v] = v \o q[i]
    OBVIOUS
  <2>. HIDE DEF step
  <2>3. PICK g : Loop(g, Seq(S), <<>>, n, step)
    <3>1. <<>> \in Seq(S)
      OBVIOUS
    <3>. QED  BY <1>1, <2>1, <3>1, Iterates
  <2>3a. /\ g \in [0..n -> Seq(S)] /\ g[0] = <<>>
         /\ \A i \in 1..n : g[i] = step[i][g[i - 1]]
    BY <2>3 DEF Loop
  <2>4. \A i \in 1..n : i - 1 \in 0..n /\ g[i] = g[i - 1] \o q[i]
    BY <1>1, <2>2, <2>3a
  <2>5. \E f : P(f)
    <3>. DEFINE f == [i \in 1..n |-> g[i]]
    <3>1. ASSUME NEW i \in 1..n
          PROVE  f[i] = IF i = 1 THEN q[i] ELSE f[i - 1] \o q[i]
      <4>1. CASE i = 1
        <5>1. g[1] = g[1 - 1] \o q[1] /\ 1 - 1 = 0
          BY <2>4, <4>1
        <5>2. <<>> \o q[1] = q[1]
          BY <1>1, <4>1, ConcatEmptySeq
        <5>. QED  BY <2>3a, <4>1, <5>1, <5>2
      <4>2. CASE i # 1
        <5>1. i - 1 \in 1..n
          BY <1>1, <4>2
        <5>. QED  BY <2>4, <4>2, <5>1
      <4>. QED  BY <4>1, <4>2
    <3>2. f = [i \in 1..n |-> f[i]]
      OBVIOUS
    <3>. HIDE DEF f
    <3>3. P(f)
      BY <3>1, <3>2
    <3>. HIDE DEF P
    <3>. QED  BY <3>3
  <2>6. P(c)
    <3>. HIDE DEF P
    <3>. QED  BY <2>5
  <2>7. FlattenSeq(q) = c[n]
    BY <1>3 DEF FlattenSeq
  <2>8. \A i \in 1..n : c[i] = IF i = 1 THEN q[i] ELSE c[i - 1] \o q[i]
    <3>. HIDE DEF c
    <3>. QED  BY <2>6
  <2>. HIDE DEF c, P
  <2>. DEFINE F == {k \in Nat : k \in 1..n => c[k] = g[k]}
  <2>9. Nat \subseteq F
    <3>1. 0 \in F
      OBVIOUS
    <3>2. ASSUME NEW k \in Nat, k \in F PROVE k + 1 \in F
      <4>. SUFFICES ASSUME k + 1 \in 1..n PROVE c[k + 1] = g[k + 1]
        OBVIOUS
      <4>1. (k + 1) - 1 = k /\ g[k + 1] = g[k] \o q[k + 1]
        <5>1. (k + 1) - 1 = k
          BY <1>1
        <5>2. g[k + 1] = g[(k + 1) - 1] \o q[k + 1]
          BY <2>4
        <5>. QED  BY <5>1, <5>2
      <4>2. CASE k = 0
        <5>1. c[k + 1] = q[k + 1] /\ g[k] = <<>>
          BY <2>3a, <2>8, <4>2
        <5>. QED  BY <1>1, <4>1, <5>1, ConcatEmptySeq
      <4>3. CASE k # 0
        <5>1. k \in 1..n /\ k + 1 # 1
          BY <1>1, <4>3
        <5>2. c[k] = g[k]
          BY <3>2, <5>1
        <5>. QED  BY <2>8, <4>1, <5>1, <5>2
      <4>. QED  BY <4>2, <4>3
    <3>. HIDE DEF F
    <3>. QED  BY <3>1, <3>2, NatInduct
  <2>10. c[n] = g[n]
    BY <1>1, <1>3, <2>9
  <2>. QED  BY <2>3a, <2>4, <2>7, <2>10 DEF Flattens
<1>. QED  BY <1>2, <1>3

\* Nothing, and one passage more at the end, flattened.
LEMMA FlattenAppend ==
    ASSUME NEW S
    PROVE  /\ FlattenSeq(<<>>) = <<>>
           /\ \A q \in Seq(Seq(S)) : FlattenSeq(q) \in Seq(S)
           /\ \A q \in Seq(Seq(S)), x \in Seq(S) :
                 FlattenSeq(Append(q, x)) = FlattenSeq(q) \o x
<1>1. FlattenSeq(<<>>) = <<>>
  BY DEF FlattenSeq
<1>2. ASSUME NEW q \in Seq(Seq(S)) PROVE FlattenSeq(q) \in Seq(S)
  <2>. DEFINE n == Len(q)
  <2>1. n \in Nat /\ n \in 0..n
    OBVIOUS
  <2>2. PICK g : Flattens(g, q, n, S)
    BY <2>1, FlattenGoes
  <2>. HIDE DEF n
  <2>. QED  BY <2>1, <2>2 DEF Flattens
<1>3. ASSUME NEW q \in Seq(Seq(S)), NEW x \in Seq(S)
      PROVE  FlattenSeq(Append(q, x)) = FlattenSeq(q) \o x
  <2>. DEFINE n == Len(q)
              t == Append(q, x)
  <2>1. /\ n \in Nat /\ t \in Seq(Seq(S)) /\ Len(t) = n + 1 /\ t[n + 1] = x
        /\ (\A i \in 1..n : t[i] = q[i]) /\ n + 1 \in Nat /\ Len(q) = n
    OBVIOUS
  <2>. HIDE DEF t, n
  <2>2a. PICK g : Flattens(g, q, n, S)
    BY <2>1, FlattenGoes
  <2>2. /\ g[0] = <<>> /\ g[n] = FlattenSeq(q)
        /\ \A i \in 1..n : g[i] = g[i - 1] \o q[i]
    BY <2>2a DEF Flattens
  <2>3a. PICK h : Flattens(h, t, n + 1, S)
    BY <2>1, FlattenGoes
  <2>3. /\ h[0] = <<>> /\ h[n + 1] = FlattenSeq(t)
        /\ \A i \in 1..(n + 1) : h[i] = h[i - 1] \o t[i]
    BY <2>3a DEF Flattens
  <2>4a. \A k \in Nat : k + 1 <= n => /\ k + 1 \in 1..n /\ k + 1 \in 1..(n + 1)
                                     /\ (k + 1) - 1 = k /\ k <= n
    BY <2>1
  <2>. DEFINE F == {k \in Nat : k <= n => h[k] = g[k]}
  <2>4. Nat \subseteq F
    <3>1. 0 \in F
      BY <2>2, <2>3
    <3>2. ASSUME NEW k \in Nat, k \in F PROVE k + 1 \in F
      <4>. SUFFICES ASSUME k + 1 <= n PROVE h[k + 1] = g[k + 1]
        OBVIOUS
      <4>1. k + 1 \in 1..n /\ k + 1 \in 1..(n + 1) /\ (k + 1) - 1 = k
        BY <2>4a
      <4>2. h[k] = g[k]
        BY <2>4a, <3>2
      <4>. QED  BY <2>1, <2>2, <2>3, <4>1, <4>2
    <3>. HIDE DEF F
    <3>. QED  BY <3>1, <3>2, NatInduct
  <2>5. h[n] = g[n]
    BY <2>1, <2>4
  <2>6. n + 1 \in 1..(n + 1) /\ (n + 1) - 1 = n
    BY <2>1
  <2>7. h[n + 1] = h[n] \o x
    BY <2>1, <2>3, <2>6
  <2>. QED  BY <2>2, <2>3, <2>5, <2>7 DEF t, n
<1>. QED  BY <1>1, <1>2, <1>3

\* One passage more at the beginning.
LEMMA FlattenFirst ==
    ASSUME NEW S, NEW x \in Seq(S)
    PROVE  \A q \in Seq(Seq(S)) : FlattenSeq(<<x>> \o q) = x \o FlattenSeq(q)
<1>. DEFINE Good(q) == FlattenSeq(<<x>> \o q) = x \o FlattenSeq(q)
            F == {n \in Nat : \A q \in Seq(Seq(S)) : Len(q) = n => Good(q)}
<1>1. <<x>> \in Seq(Seq(S)) /\ <<>> \in Seq(Seq(S)) /\ <<>> \in Seq(S)
  OBVIOUS
<1>2. 0 \in F
  <2>. SUFFICES ASSUME NEW q \in Seq(Seq(S)), Len(q) = 0
                PROVE  FlattenSeq(<<x>> \o q) = x \o FlattenSeq(q)
    OBVIOUS
  <2>1. q = <<>>
    OBVIOUS
  <2>2. <<x>> \o <<>> = Append(<<>>, x) /\ <<>> \o x = x /\ x \o <<>> = x
    OBVIOUS
  <2>3. FlattenSeq(Append(<<>>, x)) = FlattenSeq(<<>>) \o x /\ FlattenSeq(<<>>) = <<>>
    BY <1>1, FlattenAppend
  <2>. QED  BY <2>1, <2>2, <2>3
<1>3. ASSUME NEW n \in Nat, n \in F PROVE n + 1 \in F
  <2>. SUFFICES ASSUME NEW q \in Seq(Seq(S)), Len(q) = n + 1
                PROVE  Good(q)
    <3>. HIDE DEF Good
    <3>. QED  OBVIOUS
  <2>. DEFINE p == SubSeq(q, 1, n)
              y == q[n + 1]
  <2>1. /\ p \in Seq(Seq(S)) /\ Len(p) = n /\ y \in Seq(S) /\ q = Append(p, y)
    <3>1. p \in Seq(Seq(S)) /\ Len(p) = n /\ y \in Seq(S) /\ \A i \in 1..n : p[i] = q[i]
      OBVIOUS
    <3>2. q = Append(p, y)
      <4>. HIDE DEF p, y
      <4>1. /\ Append(p, y) \in Seq(Seq(S)) /\ Len(Append(p, y)) = Len(q)
            /\ \A i \in 1..Len(q) : Append(p, y)[i] = q[i]
        BY <3>1 DEF y
      <4>. QED  BY <4>1, SeqEqual
    <3>. QED  BY <3>1, <3>2
  <2>. HIDE DEF p, y
  <2>2. <<x>> \o q = Append(<<x>> \o p, y) /\ <<x>> \o p \in Seq(Seq(S))
    <3>1. <<x>> \o (p \o <<y>>) = (<<x>> \o p) \o <<y>>
      <4>1. <<y>> \in Seq(Seq(S))
        BY <2>1
      <4>. QED  BY <1>1, <2>1, <4>1, ConcatAssociative
    <3>2. <<x>> \o p \in Seq(Seq(S))
      BY <1>1, <2>1, ConcatProperties
    <3>3. Append(p, y) = p \o <<y>> /\ Append(<<x>> \o p, y) = (<<x>> \o p) \o <<y>>
      BY <2>1, <3>2, AppendIsConcat
    <3>. QED  BY <2>1, <3>1, <3>2, <3>3
  <2>3. FlattenSeq(<<x>> \o p) = x \o FlattenSeq(p)
    BY <1>3, <2>1
  <2>4. FlattenSeq(<<x>> \o q) = (x \o FlattenSeq(p)) \o y
    BY <2>1, <2>2, <2>3, FlattenAppend
  <2>5. FlattenSeq(q) = FlattenSeq(p) \o y /\ FlattenSeq(p) \in Seq(S)
    BY <2>1, FlattenAppend
  <2>6. (x \o FlattenSeq(p)) \o y = x \o (FlattenSeq(p) \o y)
    BY <2>1, <2>5, ConcatAssociative
  <2>. QED  BY <2>4, <2>5, <2>6
<1>4. Nat \subseteq F
  <2>. HIDE DEF F
  <2>. QED  BY <1>2, <1>3, NatInduct
<1>. QED  BY <1>4

\* The size of a chunk is a number, and that of one sentence its own.
LEMMA SizeType ==
    /\ \A c \in Passages : ChunkSize(c) \in Int
    /\ \A x \in SentenceRecords : ChunkSize(<<x>>) = x.size
<1>. DEFINE f(c) == [i \in DOMAIN c |-> c[i].size]
<1>1. \A c : ChunkSize(c) = Total(f(c), DOMAIN c)
  BY DEF ChunkSize, Total, MapThenSumSet, MapThenFoldSet
<1>2. ASSUME NEW c \in Passages PROVE ChunkSize(c) \in Int
  <2>1. Len(c) \in Nat /\ DOMAIN c = 1..Len(c) /\ \A i \in DOMAIN c : c[i] \in SentenceRecords
    <3>. HIDE DEF SentenceRecords
    <3>. QED  BY DEF Passages
  <2>2. IsFiniteSet(DOMAIN c)
    BY <2>1, PositionsFinite
  <2>3. \A i \in DOMAIN c : f(c)[i] \in Int
    BY <2>1, VoiceConstants DEF SentenceRecords
  <2>. QED  BY <1>1, <2>2, <2>3, TotalType
<1>3. ASSUME NEW x \in SentenceRecords PROVE ChunkSize(<<x>>) = x.size
  <2>. DEFINE e == f(<<x>>)
  <2>1. DOMAIN <<x>> = {} \cup {1} /\ e[1] = x.size /\ 1 \notin {}
    OBVIOUS
  <2>2. x.size \in Int
    BY VoiceConstants DEF SentenceRecords
  <2>3. ChunkSize(<<x>>) = Total(e, DOMAIN <<x>>)
    BY <1>1
  <2>. HIDE DEF e
  <2>4. IsFiniteSet({}) /\ (\A y \in {} : e[y] \in Int) /\ e[1] \in Int
    BY <2>1, <2>2, FS_EmptySet
  <2>5. Total(e, {} \cup {1}) = Total(e, {}) + e[1]
    BY <2>1, <2>4, TotalAdd
  <2>6. Total(e, {}) = 0
    BY TotalEmpty
  <2>. QED  BY <2>1, <2>2, <2>3, <2>5, <2>6
<1>. QED  BY <1>2, <1>3

\* A chunk that is pushed is read after the others.
LEMMA PushKeeps ==
    ASSUME NEW q \in Seq(Passages), NEW c \in Passages
    PROVE  /\ Push(q, c) \in Seq(Passages)
           /\ FlattenSeq(Push(q, c)) = FlattenSeq(q) \o c
           /\ AllFit(q) /\ (c # <<>> => Fits(c)) => AllFit(Push(q, c))
<1>1. CASE c = <<>>
  <2>1. Push(q, c) = q
    BY <1>1 DEF Push
  <2>2. FlattenSeq(q) \in Passages
    BY FlattenAppend DEF Passages
  <2>3. FlattenSeq(q) \o c = FlattenSeq(q)
    BY <1>1, <2>2, ConcatEmptySeq DEF Passages
  <2>. QED  BY <2>1, <2>3
<1>2. CASE c # <<>>
  <2>1. Push(q, c) = Append(q, c)
    BY <1>2 DEF Push
  <2>2. FlattenSeq(Append(q, c)) = FlattenSeq(q) \o c
    BY FlattenAppend DEF Passages
  <2>3. /\ Append(q, c) \in Seq(Passages)
        /\ \A i \in DOMAIN Append(q, c) : Append(q, c)[i] = c \/ (i \in DOMAIN q /\ Append(q, c)[i] = q[i])
    <3>. HIDE DEF Passages
    <3>. QED  OBVIOUS
  <2>. QED  BY <1>2, <2>1, <2>2, <2>3 DEF AllFit
<1>. QED  BY <1>1, <1>2

\* The chunks so far, and the one that grows.
Packs == [chunks : Seq(Passages), chunk : Passages]
Packed(acc) == FlattenSeq(acc.chunks) \o acc.chunk
PackFits(acc) == AllFit(acc.chunks) /\ (acc.chunk # <<>> => Fits(acc.chunk))

\* The loop over the sentences loses none, and repeats none.
LEMMA AddKeeps ==
    ASSUME NEW acc \in Packs, NEW x \in SentenceRecords, NEW max \in Nat
    PROVE  LET new == AddSentence(acc, x, max)
           IN  /\ new \in Packs /\ Packed(new) = Packed(acc) \o <<x>>
               /\ max <= TtsMax /\ PackFits(acc) => PackFits(new)
<1>. DEFINE new == AddSentence(acc, x, max)
            long == Append(acc.chunk, x)
            before == FlattenSeq(acc.chunks)
<1>1. /\ acc.chunks \in Seq(Passages) /\ acc.chunk \in Passages
      /\ long \in Passages /\ <<x>> \in Passages /\ long = acc.chunk \o <<x>>
  <2>1. acc.chunks \in Seq(Passages) /\ acc.chunk \in Passages
    BY DEF Packs
  <2>. HIDE DEF SentenceRecords
  <2>2. long = acc.chunk \o <<x>>
    BY <2>1, AppendIsConcat DEF Passages
  <2>3. long \in Passages
    BY <2>1, AppendProperties DEF Passages
  <2>4. <<x>> \in Passages
    BY DEF Passages
  <2>. QED  BY <2>1, <2>2, <2>3, <2>4
<1>2. before \in Passages
  BY <1>1, FlattenAppend DEF Passages
<1>. HIDE DEF long
<1>3. CASE ChunkSize(long) > max
  <2>1. new = [chunks |-> Push(acc.chunks, acc.chunk), chunk |-> <<x>>]
    BY <1>3 DEF AddSentence, long
  <2>2. /\ Push(acc.chunks, acc.chunk) \in Seq(Passages)
        /\ FlattenSeq(Push(acc.chunks, acc.chunk)) = before \o acc.chunk
        /\ PackFits(acc) => AllFit(Push(acc.chunks, acc.chunk))
    BY <1>1, PushKeeps DEF PackFits
  <2>. HIDE DEF new
  <2>3. new \in Packs /\ Packed(new) = Packed(acc) \o <<x>>
    BY <1>1, <2>1, <2>2 DEF Packs, Packed
  <2>4. Fits(<<x>>)
    BY SizeType, VoiceConstants DEF Fits, SentenceRecords
  <2>5. PackFits(acc) => PackFits(new)
    BY <2>1, <2>2, <2>4 DEF PackFits
  <2>. QED  BY <2>3, <2>5 DEF new
<1>4. CASE ~(ChunkSize(long) > max)
  <2>1. new = [acc EXCEPT !.chunk = long]
    BY <1>4 DEF AddSentence, long
  <2>. HIDE DEF new
  <2>2. new \in Packs /\ new.chunks = acc.chunks /\ new.chunk = long
    BY <1>1, <2>1 DEF Packs
  <2>3. Packed(new) = Packed(acc) \o <<x>>
    <3>1. before \o (acc.chunk \o <<x>>) = (before \o acc.chunk) \o <<x>>
      <4>. DEFINE c == acc.chunk
                  y == <<x>>
      <4>1. c \in Passages /\ y \in Passages
        BY <1>1
      <4>. HIDE DEF before, c, y
      <4>2. (before \o c) \o y = before \o (c \o y)
        BY <1>2, <4>1, ConcatAssociative DEF Passages
      <4>. QED  BY <4>2 DEF c, y
    <3>. QED  BY <1>1, <2>2, <3>1 DEF Packed
  <2>4. max <= TtsMax => Fits(long)
    <3>1. ChunkSize(long) \in Int
      BY <1>1, SizeType
    <3>. QED  BY <1>4, <3>1, VoiceConstants DEF Fits
  <2>. QED  BY <2>2, <2>3, <2>4 DEF PackFits, new
<1>. QED  BY <1>3, <1>4

\* The sentences are the text, or all of it but the last.
LEMMA SentencesType ==
    ASSUME NEW text \in Passages
    PROVE  Sentences(text) \in Passages /\ Front(text) \in Passages
<1>1. Front(text) \in Passages
  <2>. HIDE DEF SentenceRecords
  <2>. QED  BY DEF Front, Passages
<1>. QED  BY <1>1 DEF Sentences

\* The chunks of a text make up its sentences.
LEMMA ChunksKeep ==
    ASSUME NEW text \in Passages, NEW max \in Nat
    PROVE  /\ Chunks(text, max) \in Seq(Passages)
           /\ FlattenSeq(Chunks(text, max)) = Sentences(text)
           /\ max <= TtsMax => AllFit(Chunks(text, max))
<1>. DEFINE s == Sentences(text)
            m == Len(s)
            none == [chunks |-> <<>>, chunk |-> <<>>]
            P(f) == f = [n \in 0..m |-> IF n = 0 THEN none ELSE AddSentence(f[n - 1], s[n], max)]
            c == CHOOSE f : P(f)
<1>1. /\ s \in Passages /\ m \in Nat /\ \A n \in 1..m : s[n] \in SentenceRecords
      /\ m \in 0..m /\ SubSeq(s, 1, 0) = <<>> /\ SubSeq(s, 1, m) = s
  <2>1. s \in Passages
    BY SentencesType
  <2>. HIDE DEF s, SentenceRecords
  <2>2. m \in Nat /\ \A n \in 1..m : s[n] \in SentenceRecords
    BY <2>1 DEF Passages
  <2>3. SubSeq(s, 1, 0) = <<>> /\ SubSeq(s, 1, m) = s
    BY <2>1, SubSeqFull, SubSeqEmpty DEF Passages
  <2>. QED  BY <2>1, <2>2, <2>3
<1>2. none \in Packs /\ Packed(none) = <<>> /\ PackFits(none)
  <2>1. none \in Packs /\ none.chunks = <<>> /\ none.chunk = <<>>
    <3>. HIDE DEF SentenceRecords
    <3>. QED  BY DEF Packs, Passages
  <2>2. FlattenSeq(<<>>) = <<>> /\ <<>> \o <<>> = <<>>
    BY FlattenAppend
  <2>. HIDE DEF none
  <2>3. AllFit(<<>>)
    BY DEF AllFit
  <2>. QED  BY <2>1, <2>2, <2>3 DEF Packed, PackFits
<1>3. Chunked(text, max) = c[m]
  BY DEF Chunked
<1>. HIDE DEF s, m, none
<1>4. /\ \A n \in 1..m : n - 1 \in 0..m /\ n \in 0..m /\ n # 0
      /\ 0 \in 0..m /\ \A n \in 0..m : n = 0 \/ n \in 1..m
      /\ \A n \in Nat : n + 1 <= m => n + 1 \in 1..m /\ (n + 1) - 1 = n /\ n <= m
  BY <1>1
<1>5. \E f : P(f)
  <2>. DEFINE step == [n \in 1..m |-> [a \in Packs |-> AddSentence(a, s[n], max)]]
  <2>1. step \in [1..m -> [Packs -> Packs]]
    <3>1. \A n \in 1..m : \A a \in Packs : AddSentence(a, s[n], max) \in Packs
      BY <1>1, AddKeeps
    <3>2. \A n \in 1..m : [a \in Packs |-> AddSentence(a, s[n], max)] \in [Packs -> Packs]
      BY <3>1
    <3>. QED  BY <3>2
  <2>2. \A n \in 1..m, a \in Packs : step[n][a] = AddSentence(a, s[n], max)
    OBVIOUS
  <2>. HIDE DEF step
  <2>3. PICK g : Loop(g, Packs, none, m, step)
    BY <1>1, <1>2, <2>1, Iterates
  <2>4. /\ g \in [0..m -> Packs] /\ g[0] = none
        /\ \A n \in 1..m : g[n] = step[n][g[n - 1]]
    BY <2>3 DEF Loop
  <2>5. \A n \in 1..m : g[n] = AddSentence(g[n - 1], s[n], max)
    BY <1>4, <2>2, <2>4
  <2>6. [n \in 0..m |-> IF n = 0 THEN none ELSE AddSentence(g[n - 1], s[n], max)]
        = [n \in 0..m |-> g[n]]
    BY <1>4, <2>4, <2>5
  <2>7. P(g)
    BY <2>4, <2>6
  <2>. HIDE DEF P
  <2>. QED  BY <2>7
<1>6. P(c)
  <2>. HIDE DEF P
  <2>. QED  BY <1>5
<1>7. c[0] = none /\ \A n \in 1..m : c[n] = AddSentence(c[n - 1], s[n], max)
  <2>. HIDE DEF c
  <2>. QED  BY <1>4, <1>6
<1>. HIDE DEF c, P
<1>. DEFINE Good(n) == /\ c[n] \in Packs /\ Packed(c[n]) = SubSeq(s, 1, n)
                       /\ max <= TtsMax => PackFits(c[n])
            F == {n \in Nat : n <= m => Good(n)}
<1>8. 0 \in F
  BY <1>1, <1>2, <1>7
<1>9. ASSUME NEW n \in Nat, n \in F PROVE n + 1 \in F
  <2>. SUFFICES ASSUME n + 1 <= m PROVE Good(n + 1)
    OBVIOUS
  <2>1. /\ Good(n) /\ n + 1 \in 1..m /\ c[n + 1] = AddSentence(c[n], s[n + 1], max)
        /\ s[n + 1] \in SentenceRecords
    BY <1>1, <1>4, <1>7, <1>9
  <2>2. SubSeq(s, 1, n + 1) = SubSeq(s, 1, n) \o <<s[n + 1]>>
    <3>1. Len(s) = m /\ n + 1 \in 1..Len(s) /\ 1 \in 1..Len(s) /\ n + 1 \in 1..(n + 1)
      BY <1>1, <2>1 DEF m
    <3>2. SubSeq(s, 1, n + 1) = SubSeq(s, 1, (n + 1) - 1) \o <<s[n + 1]>>
      <4>. HIDE DEF SentenceRecords
      <4>. QED  BY <1>1, <3>1, SubSeqRecursiveSecond DEF Passages
    <3>3. (n + 1) - 1 = n
      BY <1>4
    <3>. QED  BY <3>2, <3>3
  <2>3. /\ c[n + 1] \in Packs /\ Packed(c[n + 1]) = Packed(c[n]) \o <<s[n + 1]>>
        /\ max <= TtsMax /\ PackFits(c[n]) => PackFits(c[n + 1])
    BY <2>1, AddKeeps
  <2>. QED  BY <2>1, <2>2, <2>3
<1>10. Good(m)
  <2>1. Nat \subseteq F
    <3>. HIDE DEF F
    <3>. QED  BY <1>8, <1>9, NatInduct
  <2>. QED  BY <1>1, <2>1
<1>11. Chunks(text, max) = Push(c[m].chunks, c[m].chunk)
  BY <1>3 DEF Chunks
<1>12. c[m].chunks \in Seq(Passages) /\ c[m].chunk \in Passages
  BY <1>10 DEF Packs
<1>13. Packed(c[m]) = Sentences(text)
  BY <1>1, <1>10 DEF s
<1>. QED  BY <1>10, <1>11, <1>12, <1>13, PushKeeps DEF Packed, PackFits

\* What is left begins with the chunk at the index.
LEMMA LeftStep ==
    ASSUME NEW q \in Seq(Passages), NEW i \in Nat \ {0}
    PROVE  /\ Left(q, i) \in Passages /\ SubSeq(q, i, Len(q)) \in Seq(Passages)
           /\ Left(q, 1) = FlattenSeq(q)
           /\ i <= Len(q) => q[i] \in Passages /\ Left(q, i) = q[i] \o Left(q, i + 1)
           /\ i > Len(q) => Left(q, i) = <<>>
<1>. DEFINE n == Len(q)
            rest(k) == SubSeq(q, k, n)
<1>1. n \in Nat /\ i \in Int /\ i + 1 \in Int /\ \A k \in 1..n : q[k] \in Passages
  <2>. HIDE DEF Passages
  <2>. QED  OBVIOUS
<1>2. \A k \in Int : k > 0 => rest(k) \in Seq(Passages)
  <2>. SUFFICES ASSUME NEW k \in Int, k > 0 PROVE rest(k) \in Seq(Passages)
    OBVIOUS
  <2>1. \A j \in k..n : q[j] \in Passages
    BY <1>1
  <2>. HIDE DEF Passages, n
  <2>. QED  BY <1>1, <2>1, SubSeqProperties
<1>3. \A k \in Int : k > 0 => Left(q, k) \in Passages /\ Left(q, k) = FlattenSeq(rest(k))
  <2>. HIDE DEF rest
  <2>1. \A k : Left(q, k) = FlattenSeq(rest(k))
    BY DEF Left, rest
  <2>. QED  BY <1>2, <2>1, FlattenAppend DEF Passages
<1>4. rest(1) = q
  <2>. HIDE DEF Passages
  <2>. QED  BY SubSeqFull
<1>5. ASSUME i <= n PROVE q[i] \in Passages /\ Left(q, i) = q[i] \o Left(q, i + 1)
  <2>1. i \in 1..n /\ n \in i..n /\ i > 0 /\ i + 1 > 0
    BY <1>1, <1>5
  <2>2. rest(i) = <<q[i]>> \o rest(i + 1)
    <3>. HIDE DEF Passages
    <3>. QED  BY <2>1, SubSeqRecursiveFirst
  <2>3. q[i] \in Passages /\ rest(i + 1) \in Seq(Passages)
    BY <1>1, <1>2, <2>1
  <2>. HIDE DEF rest
  <2>4. FlattenSeq(<<q[i]>> \o rest(i + 1)) = q[i] \o FlattenSeq(rest(i + 1))
    BY <2>3, FlattenFirst DEF Passages
  <2>. QED  BY <1>1, <1>3, <2>1, <2>2, <2>3, <2>4
<1>6. ASSUME i > n PROVE Left(q, i) = <<>>
  <2>1. rest(i) = <<>> /\ i > 0
    BY <1>1, <1>6, SubSeqEmpty
  <2>2. FlattenSeq(<<>>) = <<>>
    BY FlattenAppend
  <2>. HIDE DEF rest
  <2>. QED  BY <1>1, <1>3, <2>1, <2>2
<1>7. 1 \in Int /\ 1 > 0 /\ i > 0
  BY <1>1
<1>. HIDE DEF rest
<1>8. rest(i) \in Seq(Passages)
  BY <1>1, <1>2, <1>7
<1>. QED  BY <1>1, <1>3, <1>4, <1>5, <1>6, <1>7, <1>8 DEF rest

\* What was heard with the sentences of what is left, if what was heard with what is
\* left was all of the text.
LEMMA WholeOfRest ==
    ASSUME NEW text \in Texts, NEW h \in Passages, NEW r \in Passages, Whole(text, h \o r)
    PROVE  Whole(text, h \o Sentences(r))
<1>. DEFINE all == h \o r
            n == Len(h)
            m == Len(r)
<1>1. text \in Passages /\ \A i \in 1..(Len(text) - 1) : text[i].ended
  BY VoiceConstants DEF Passages
<1>2. /\ n \in Nat /\ m \in Nat /\ Len(text) \in Nat /\ all \in Passages /\ Len(all) = n + m
      /\ \A i \in 1..n : all[i] = h[i]
      /\ \A i \in 1..m : all[n + i] = r[i]
  <2>. HIDE DEF SentenceRecords
  <2>1. n \in Nat /\ m \in Nat /\ Len(text) \in Nat
    BY <1>1 DEF Passages
  <2>2. all \in Passages /\ Len(all) = n + m
    BY ConcatProperties DEF Passages
  <2>3. \A i \in 1..n : all[i] = h[i]
    BY DEF Passages
  <2>4. \A i \in 1..m : all[n + i] = r[i]
    BY DEF Passages
  <2>. QED  BY <2>1, <2>2, <2>3, <2>4
<1>3. CASE Sentences(r) = r
  BY <1>3
<1>4. CASE Sentences(r) # r
  <2>1. m > 1 /\ ~r[m].ended /\ Sentences(r) = Front(r)
    BY <1>4 DEF Sentences, Last
  <2>2. ~all[n + m].ended /\ n + m > 1
    BY <1>2, <2>1
  <2>3. /\ Front(text) \in Passages
        /\ Len(text) > 1 => /\ Len(Front(text)) = Len(text) - 1
                            /\ \A i \in 1..(Len(text) - 1) : Front(text)[i] = text[i]
    <3>. HIDE DEF SentenceRecords
    <3>. QED  BY <1>1 DEF Front, Passages
  <2>4. all = text
    <3>. SUFFICES ASSUME all = Sentences(text), all # text PROVE FALSE
      BY DEF Whole
    <3>1. all = Front(text) /\ Len(text) > 1
      BY DEF Sentences
    <3>. HIDE DEF all, n, m
    <3>2. n + m = Len(text) - 1 /\ n + m \in 1..(Len(text) - 1)
      BY <1>2, <2>2, <2>3, <3>1
    <3>3. all[n + m].ended
      BY <1>1, <2>3, <3>1, <3>2
    <3>. QED  BY <2>2, <3>3
  <2>5. Len(text) = n + m /\ ~text[n + m].ended
    BY <1>2, <2>2, <2>4
  <2>6. Sentences(text) = Front(text)
    BY <2>2, <2>5 DEF Sentences, Last
  <2>7. /\ Front(r) \in Passages /\ Len(Front(r)) = m - 1
        /\ \A i \in 1..(m - 1) : Front(r)[i] = r[i]
    <3>. HIDE DEF SentenceRecords
    <3>. QED  BY <1>2, <2>1 DEF Front, Passages
  <2>8. h \o Front(r) = Front(text)
    <3>. DEFINE f == Front(r)
                g == Front(text)
                k == h \o f
    <3>. HIDE DEF f, g
    <3>1. f \in Passages /\ Len(f) = m - 1 /\ g \in Passages /\ Len(g) = n + m - 1
          /\ (\A i \in 1..(m - 1) : f[i] = r[i]) /\ \A i \in 1..(n + m - 1) : g[i] = text[i]
      BY <1>2, <2>2, <2>3, <2>5, <2>7 DEF f, g
    <3>2. /\ k \in Passages /\ Len(k) = n + (m - 1)
          /\ \A i \in 1..n : k[i] = h[i]
          /\ \A i \in 1..(m - 1) : k[n + i] = f[i]
      <4>. HIDE DEF SentenceRecords
      <4>1. k \in Passages /\ Len(k) = Len(h) + Len(f)
        BY <3>1, ConcatProperties DEF Passages
      <4>2. \A i \in 1..n : k[i] = h[i]
        BY <3>1 DEF Passages
      <4>3. \A i \in 1..Len(f) : k[n + i] = f[i]
        BY <3>1 DEF Passages
      <4>. QED  BY <3>1, <4>1, <4>2, <4>3
    <3>. HIDE DEF k
    <3>3. ASSUME NEW i \in 1..(n + m - 1) PROVE k[i] = g[i]
      <4>1. i \in 1..(n + m) /\ g[i] = all[i]
        BY <1>2, <2>4, <3>1
      <4>2. CASE i \in 1..n
        BY <1>2, <3>2, <4>1, <4>2
      <4>3. CASE i \notin 1..n
        <5>. DEFINE j == i - n
        <5>1. j \in 1..(m - 1) /\ j \in 1..m /\ n + j = i
          BY <1>2, <4>3
        <5>. HIDE DEF j
        <5>2. k[n + j] = f[j] /\ f[j] = r[j] /\ all[n + j] = r[j]
          BY <1>2, <3>1, <3>2, <5>1
        <5>. QED  BY <4>1, <5>1, <5>2
      <4>. QED  BY <4>2, <4>3
    <3>4. Len(k) = Len(g) /\ Len(k) = n + m - 1
      BY <1>2, <3>1, <3>2
    <3>5. k = g
      <4>. HIDE DEF SentenceRecords
      <4>. QED  BY <3>1, <3>2, <3>3, <3>4, SeqEqual DEF Passages
    <3>. QED  BY <3>5 DEF k, f, g
  <2>. QED  BY <2>1, <2>6, <2>8 DEF Whole
<1>. QED  BY <1>3, <1>4

\* What was heard is a beginning of the text; all of it, if nothing is left.
LEMMA WholePrefix ==
    ASSUME NEW text \in Texts, NEW h \in Passages, NEW r \in Passages, Whole(text, h \o r)
    PROVE  /\ IsPrefix(h, text)
           /\ r = <<>> => IsPrefix(Sentences(text), h)
<1>1. text \in Passages
  BY VoiceConstants DEF Passages
<1>2. /\ Len(text) \in Nat /\ Len(h) \in Nat /\ Len(h \o r) \in Nat
      /\ Len(h) <= Len(h \o r) /\ \A i \in 1..Len(h) : (h \o r)[i] = h[i]
  <2>. HIDE DEF SentenceRecords
  <2>. QED  BY <1>1 DEF Passages
<1>3. /\ Sentences(text) \in Passages /\ Len(Sentences(text)) <= Len(text)
      /\ Len(Sentences(text)) \in Nat
      /\ \A i \in 1..Len(Sentences(text)) : Sentences(text)[i] = text[i]
  <2>1. Sentences(text) \in Passages
    BY <1>1, SentencesType
  <2>2. CASE Sentences(text) = text
    BY <1>2, <2>1, <2>2
  <2>3. CASE Sentences(text) # text
    <3>1. Sentences(text) = Front(text) /\ Len(text) > 1
      BY <2>3 DEF Sentences
    <3>2. Len(Front(text)) = Len(text) - 1 /\ \A i \in 1..(Len(text) - 1) : Front(text)[i] = text[i]
      <4>. HIDE DEF SentenceRecords
      <4>. QED  BY <1>1, <3>1 DEF Front, Passages
    <3>. QED  BY <1>2, <2>1, <3>1, <3>2
  <2>. QED  BY <2>2, <2>3
<1>4. Len(h) <= Len(text) /\ \A i \in 1..Len(h) : h[i] = text[i]
  <2>1. CASE h \o r = text
    BY <1>2, <2>1
  <2>2. CASE h \o r = Sentences(text)
    BY <1>2, <1>3, <2>2
  <2>. QED  BY <2>1, <2>2 DEF Whole
<1>5. \A s \in Passages, t \in Passages :
         Len(s) <= Len(t) /\ (\A i \in 1..Len(s) : s[i] = t[i]) => IsPrefix(s, t)
  <2>. SUFFICES ASSUME NEW s \in Passages, NEW t \in Passages, Len(s) <= Len(t),
                       \A i \in 1..Len(s) : s[i] = t[i]
                PROVE  SubSeq(s, 1, Len(s)) = SubSeq(t, 1, Len(s))
    BY DEF IsPrefix
  <2>. HIDE DEF SentenceRecords
  <2>1. SubSeq(s, 1, Len(s)) = s
    BY SubSeqFull DEF Passages
  <2>. DEFINE p == SubSeq(t, 1, Len(s))
  <2>2. p \in Passages /\ Len(p) = Len(s) /\ \A i \in 1..Len(s) : p[i] = t[i]
    BY DEF Passages
  <2>. HIDE DEF p
  <2>3. p = s
    BY <2>2, SeqEqual DEF Passages
  <2>. QED  BY <2>1, <2>3 DEF p
<1>6. IsPrefix(h, text)
  BY <1>1, <1>4, <1>5
<1>7. ASSUME r = <<>> PROVE IsPrefix(Sentences(text), h)
  <2>1. h \o r = h
    BY <1>7, ConcatEmptySeq DEF Passages
  <2>2. h = text \/ h = Sentences(text)
    BY <2>1 DEF Whole
  <2>3. Len(Sentences(text)) <= Len(h) /\ \A i \in 1..Len(Sentences(text)) : Sentences(text)[i] = h[i]
    BY <1>3, <2>2
  <2>. QED  BY <1>3, <1>5, <2>3
<1>. QED  BY <1>6, <1>7

-----------------------------------------------------------------------------
(* The functions of the script keep the record of its variables. *)

\* Nothing but the sequences of the record needs a look.
LEMMA NextType ==
    ASSUME NEW v \in VoiceRecords
    PROVE  /\ Cancel(v) \in VoiceRecords /\ StopAudio(v) \in VoiceRecords
           /\ SpeakNextBrowser(v) \in VoiceRecords /\ SpeakNextElevenLabs(v) \in VoiceRecords
<1>1. /\ v.queue \in Seq(Passages) /\ v.synth \in Seq(Passages)
      /\ v.fetches \in Seq(Passages) /\ v.index \in Nat \ {0} /\ v.errors \in Nat
  BY DEF VoiceRecords, Queues, Indices
<1>2. Len(v.synth) \in Nat /\ Len(v.queue) \in Nat /\ <<>> \in Seq(Passages)
  <2>. HIDE DEF Passages
  <2>. QED  BY <1>1
<1>3. NoAudio \in AudioRecords
  <2>. HIDE DEF SentenceRecords
  <2>. QED  BY DEF NoAudio, AudioRecords, Passages
<1>4. v.index <= Len(v.queue) => /\ Append(v.synth, v.queue[v.index]) \in Seq(Passages)
                                 /\ Append(v.fetches, v.queue[v.index]) \in Seq(Passages)
  <2>1. v.index <= Len(v.queue) => v.queue[v.index] \in Passages
    BY <1>1, LeftStep
  <2>. HIDE DEF Passages
  <2>. QED  BY <1>1, <2>1
<1>. HIDE DEF Passages, AudioRecords, NoAudio
<1>5. Cancel(v) \in VoiceRecords
  <2>. DEFINE w == Cancel(v)
              e == v.errors + Len(v.synth)
  <2>1. w = [v EXCEPT !.synth = <<>>, !.errors = e] /\ e \in Nat /\ <<>> \in Queues
    BY <1>1, <1>2 DEF Cancel, Queues
  <2>. HIDE DEF w, e
  <2>2. w \in VoiceRecords
    BY <2>1 DEF VoiceRecords
  <2>. QED  BY <2>2 DEF w
<1>6. StopAudio(v) \in VoiceRecords
  <2>. DEFINE w == [v EXCEPT !.audio = NoAudio, !.errors = @ + 1]
              e == v.errors + 1
  <2>1. w = [v EXCEPT !.audio = NoAudio, !.errors = e] /\ e \in Nat
    BY <1>1
  <2>. HIDE DEF w, e
  <2>2. w \in VoiceRecords
    BY <1>3, <2>1 DEF VoiceRecords
  <2>. QED  BY <2>2 DEF StopAudio, w
<1>7. SpeakNextBrowser(v) \in VoiceRecords
  <2>. DEFINE s == Append(v.synth, v.queue[v.index])
  <2>1. v.index > Len(v.queue) => SpeakNextBrowser(v) \in VoiceRecords
    BY DEF SpeakNextBrowser, VoiceRecords
  <2>2. ASSUME v.index <= Len(v.queue) PROVE SpeakNextBrowser(v) \in VoiceRecords
    <3>1. SpeakNextBrowser(v) = [v EXCEPT !.synth = s] /\ s \in Queues
      BY <1>1, <1>2, <1>4, <2>2 DEF Queues, SpeakNextBrowser
    <3>. HIDE DEF s
    <3>. QED  BY <3>1 DEF VoiceRecords
  <2>. QED  BY <1>1, <1>2, <2>1, <2>2
<1>8. SpeakNextElevenLabs(v) \in VoiceRecords
  <2>. DEFINE s == Append(v.fetches, v.queue[v.index])
  <2>1. v.index > Len(v.queue) => SpeakNextElevenLabs(v) \in VoiceRecords
    BY DEF SpeakNextElevenLabs, VoiceRecords
  <2>2. ASSUME v.index <= Len(v.queue) PROVE SpeakNextElevenLabs(v) \in VoiceRecords
    <3>1. SpeakNextElevenLabs(v) = [v EXCEPT !.fetches = s] /\ s \in Queues
      BY <1>1, <1>2, <1>4, <2>2 DEF Queues, SpeakNextElevenLabs
    <3>. HIDE DEF s
    <3>. QED  BY <3>1 DEF VoiceRecords
  <2>. QED  BY <1>1, <1>2, <2>1, <2>2
<1>. QED  BY <1>5, <1>6, <1>7, <1>8

\* What ElevenLabs is asked for makes up the text, or its sentences.
LEMMA ElevenChunksKeep ==
    ASSUME NEW text \in Passages
    PROVE  /\ ElevenChunks(text) \in Seq(Passages) /\ AllFit(ElevenChunks(text))
           /\ Whole(text, FlattenSeq(ElevenChunks(text)))
<1>1. CASE ChunkSize(text) <= ElevenMax
  <2>1. ElevenChunks(text) = <<text>>
    BY <1>1 DEF ElevenChunks
  <2>2. <<text>> = Append(<<>>, text) /\ <<>> \in Seq(Passages) /\ <<text>> \in Seq(Passages)
    <3>. HIDE DEF Passages
    <3>. QED  OBVIOUS
  <2>3. FlattenSeq(<<text>>) = <<>> \o text
    BY <2>2, FlattenAppend DEF Passages
  <2>4. <<>> \o text = text
    BY ConcatEmptySeq DEF Passages
  <2>5. Fits(text)
    BY <1>1, SizeType, VoiceConstants DEF Fits
  <2>6. AllFit(<<text>>)
    <3>. HIDE DEF Passages
    <3>. QED  BY <2>5 DEF AllFit
  <2>. QED  BY <2>1, <2>2, <2>3, <2>4, <2>6 DEF Whole
<1>2. CASE ~(ChunkSize(text) <= ElevenMax)
  <2>1. ElevenChunks(text) = Chunks(text, ElevenMax)
    BY <1>2 DEF ElevenChunks
  <2>. QED  BY <2>1, ChunksKeep, VoiceConstants DEF Whole
<1>. QED  BY <1>1, <1>2

\* A reading that begins, and one that ends.
LEMMA SpeakType ==
    ASSUME NEW v \in VoiceRecords, NEW text \in Passages
    PROVE  /\ SpeakBrowser(v, text) \in VoiceRecords
           /\ SpeakElevenLabs(v, text) \in VoiceRecords
           /\ Stop(v) \in VoiceRecords /\ SpeakText(v, text) \in VoiceRecords
<1>1. ASSUME NEW w \in VoiceRecords PROVE SpeakBrowser(w, text) \in VoiceRecords
  <2>. DEFINE c == Cancel(w)
              q == Chunks(text, BrowserMax)
              u == [c EXCEPT !.queue = q, !.index = 1, !.speaking = TRUE, !.paused = FALSE]
  <2>1. c \in VoiceRecords /\ q \in Seq(Passages)
    BY NextType, ChunksKeep, VoiceConstants
  <2>2. u \in VoiceRecords
    <3>1. /\ u = [c EXCEPT !.queue = q, !.index = 1, !.speaking = TRUE, !.paused = FALSE]
          /\ q \in Queues /\ 1 \in Indices
      BY <2>1 DEF Queues, Indices
    <3>. HIDE DEF c, q, u
    <3>. QED  BY <2>1, <3>1 DEF VoiceRecords
  <2>3. SpeakBrowser(w, text) = SpeakNextBrowser(u)
    BY DEF SpeakBrowser
  <2>. HIDE DEF u
  <2>. QED  BY <2>2, <2>3, NextType
<1>2. ASSUME NEW w \in VoiceRecords PROVE SpeakElevenLabs(w, text) \in VoiceRecords
  <2>. DEFINE c == StopAudio(w)
              q == ElevenChunks(text)
              u == [c EXCEPT !.queue = q, !.index = 1, !.speaking = TRUE, !.paused = FALSE]
  <2>1. c \in VoiceRecords /\ q \in Seq(Passages)
    BY NextType, ElevenChunksKeep
  <2>2. u \in VoiceRecords
    <3>1. /\ u = [c EXCEPT !.queue = q, !.index = 1, !.speaking = TRUE, !.paused = FALSE]
          /\ q \in Queues /\ 1 \in Indices
      BY <2>1 DEF Queues, Indices
    <3>. HIDE DEF c, q, u
    <3>. QED  BY <2>1, <3>1 DEF VoiceRecords
  <2>3. SpeakElevenLabs(w, text) = SpeakNextElevenLabs(u)
    BY DEF SpeakElevenLabs
  <2>. HIDE DEF u
  <2>. QED  BY <2>2, <2>3, NextType
<1>3. Stop(v) \in VoiceRecords
  <2>. DEFINE c == StopAudio(Cancel(v))
  <2>1. c \in VoiceRecords
    BY NextType
  <2>2. Stop(v) = [c EXCEPT !.queue = <<>>, !.index = 1, !.paused = FALSE, !.speaking = FALSE]
    BY DEF Stop
  <2>3. <<>> \in Queues /\ 1 \in Indices
    BY DEF Queues, Indices
  <2>. DEFINE w == Stop(v)
  <2>4. w = [c EXCEPT !.queue = <<>>, !.index = 1, !.paused = FALSE, !.speaking = FALSE]
    BY <2>2
  <2>. HIDE DEF c, w
  <2>5. w \in VoiceRecords
    BY <2>1, <2>3, <2>4 DEF VoiceRecords
  <2>. QED  BY <2>5 DEF w
<1>. QED  BY <1>1, <1>2, <1>3 DEF SpeakText

-----------------------------------------------------------------------------
(* A reading that is left alone goes on. *)

\* What a reading goes on from: nothing is pending, and what is left is the rest.
Ready(v, r) ==
    /\ v.lost = <<>> /\ v.errors = 0 /\ v.synth = <<>> /\ v.fetches = <<>>
    /\ Silent(v.audio) /\ v.speaking /\ Whole(r.text, r.heard \o Rest(v))

\* A reader that is ready goes on with the next chunk, by either engine.
LEMMA GoesOn ==
    ASSUME NEW v \in VoiceRecords, NEW r, Ready(v, r)
    PROVE  /\ v.engine = "browser" => Reads(SpeakNextBrowser(v), r)
           /\ v.engine = "elevenlabs" /\ AllFit(v.queue) => Reads(SpeakNextElevenLabs(v), r)
<1>1. v.queue \in Seq(Passages) /\ v.index \in Nat \ {0}
  BY DEF VoiceRecords, Queues, Indices
<1>2. Len(v.queue) \in Nat
  <2>. HIDE DEF Passages
  <2>. QED  BY <1>1
<1>3. CASE v.index > Len(v.queue)
  <2>. DEFINE w == [v EXCEPT !.speaking = FALSE]
  <2>1. SpeakNextBrowser(v) = w /\ SpeakNextElevenLabs(v) = w
    BY <1>3 DEF SpeakNextBrowser, SpeakNextElevenLabs
  <2>2. /\ w.lost = v.lost /\ w.errors = v.errors /\ w.synth = v.synth /\ w.queue = v.queue
        /\ w.fetches = v.fetches /\ w.audio = v.audio /\ w.index = v.index
    BY DEF VoiceRecords
  <2>. HIDE DEF w
  <2>3. Reads(w, r)
    BY <1>3, <2>2 DEF Ready, Reads, Hushed, Rest
  <2>. QED  BY <2>1, <2>3
<1>4. CASE ~(v.index > Len(v.queue))
  <2>. DEFINE x == v.queue[v.index]
  <2>1. v.index <= Len(v.queue)
    BY <1>1, <1>2, <1>4
  <2>2. Append(<<>>, x) = <<x>>
    OBVIOUS
  <2>3. v.synth = <<>> /\ v.fetches = <<>>
    BY DEF Ready
  <2>4. ASSUME v.engine = "browser" PROVE Reads(SpeakNextBrowser(v), r)
    <3>. DEFINE w == [v EXCEPT !.synth = <<x>>]
    <3>1. SpeakNextBrowser(v) = w
      BY <1>4, <2>2, <2>3 DEF SpeakNextBrowser
    <3>2. /\ w.lost = v.lost /\ w.errors = v.errors /\ w.queue = v.queue /\ w.synth = <<x>>
          /\ w.fetches = v.fetches /\ w.audio = v.audio /\ w.index = v.index
          /\ w.engine = v.engine /\ w.speaking = v.speaking
      BY DEF VoiceRecords
    <3>. HIDE DEF w
    <3>. QED  BY <2>1, <2>4, <3>1, <3>2 DEF Ready, Reads, ByBrowser, Rest
  <2>5. ASSUME v.engine = "elevenlabs", AllFit(v.queue)
        PROVE  Reads(SpeakNextElevenLabs(v), r)
    <3>. DEFINE w == [v EXCEPT !.fetches = <<x>>]
    <3>1. SpeakNextElevenLabs(v) = w
      BY <1>4, <2>2, <2>3 DEF SpeakNextElevenLabs
    <3>2. /\ w.lost = v.lost /\ w.errors = v.errors /\ w.queue = v.queue /\ w.fetches = <<x>>
          /\ w.synth = v.synth /\ w.audio = v.audio /\ w.index = v.index
          /\ w.engine = v.engine /\ w.speaking = v.speaking
      BY DEF VoiceRecords
    <3>. HIDE DEF w
    <3>. QED  BY <2>1, <2>5, <3>1, <3>2 DEF Ready, Reads, ByEleven, Rest
  <2>. QED  BY <2>4, <2>5
<1>. QED  BY <1>3, <1>4

\* Either engine begins with the first chunk.
LEMMA Begins ==
    ASSUME NEW v \in VoiceRecords, NEW r, NEW text \in Passages,
           v.lost = <<>>, v.errors = 0, v.synth = <<>>, v.fetches = <<>>, Silent(v.audio)
    PROVE  /\ v.engine = "browser" /\ Whole(r.text, r.heard \o Sentences(text)) =>
                 Reads(SpeakBrowser(v, text), r)
           /\ v.engine = "elevenlabs" /\ v.audio = NoAudio
              /\ Whole(r.text, r.heard \o FlattenSeq(ElevenChunks(text))) =>
                 Reads(SpeakElevenLabs(v, text), r)
<1>1. 1 \in Indices /\ Len(<<>>) = 0 /\ 0 + 0 = 0
  BY DEF Indices
<1>2. ASSUME NEW q \in Seq(Passages), Whole(r.text, r.heard \o FlattenSeq(q)),
             NEW c \in VoiceRecords, c.lost = v.lost, c.errors = 0, c.synth = <<>>,
             c.fetches = v.fetches, c.audio = v.audio, c.engine = v.engine
      PROVE  LET u == [c EXCEPT !.queue = q, !.index = 1, !.speaking = TRUE, !.paused = FALSE]
             IN  u \in VoiceRecords /\ Ready(u, r) /\ u.engine = v.engine /\ u.queue = q
  <2>. DEFINE u == [c EXCEPT !.queue = q, !.index = 1, !.speaking = TRUE, !.paused = FALSE]
  <2>1. q \in Queues /\ u = [c EXCEPT !.queue = q, !.index = 1, !.speaking = TRUE, !.paused = FALSE]
    BY DEF Queues
  <2>. HIDE DEF u
  <2>2. u \in VoiceRecords
    BY <1>1, <2>1 DEF VoiceRecords
  <2>3. /\ u.queue = q /\ u.index = 1 /\ u.speaking = TRUE /\ u.lost = c.lost
        /\ u.errors = c.errors /\ u.synth = c.synth /\ u.fetches = c.fetches
        /\ u.audio = c.audio /\ u.engine = c.engine
    BY <2>1 DEF VoiceRecords
  <2>4. Rest(u) = FlattenSeq(q)
    <3>1. Left(q, 1) = FlattenSeq(q)
      BY <1>1, LeftStep DEF Indices
    <3>. QED  BY <2>3, <3>1 DEF Rest
  <2>5. Ready(u, r)
    BY <1>2, <2>3, <2>4 DEF Ready
  <2>. QED  BY <1>2, <2>2, <2>3, <2>5 DEF u
<1>3. ASSUME v.engine = "browser", Whole(r.text, r.heard \o Sentences(text))
      PROVE  Reads(SpeakBrowser(v, text), r)
  <2>. DEFINE c == Cancel(v)
              q == Chunks(text, BrowserMax)
              u == [c EXCEPT !.queue = q, !.index = 1, !.speaking = TRUE, !.paused = FALSE]
  <2>1. q \in Seq(Passages) /\ FlattenSeq(q) = Sentences(text)
    BY ChunksKeep, VoiceConstants
  <2>2. /\ c \in VoiceRecords /\ c.lost = v.lost /\ c.errors = 0 /\ c.synth = <<>>
        /\ c.fetches = v.fetches /\ c.audio = v.audio /\ c.engine = v.engine
    <3>1. c = [v EXCEPT !.synth = <<>>, !.errors = 0]
      BY <1>1 DEF Cancel
    <3>2. c \in VoiceRecords
      BY NextType
    <3>. HIDE DEF c
    <3>. QED  BY <3>1, <3>2 DEF VoiceRecords
  <2>3. SpeakBrowser(v, text) = SpeakNextBrowser(u)
    BY DEF SpeakBrowser
  <2>. HIDE DEF c, q
  <2>4. u \in VoiceRecords /\ Ready(u, r) /\ u.engine = "browser"
    BY <1>2, <1>3, <2>1, <2>2
  <2>. HIDE DEF u
  <2>. QED  BY <2>3, <2>4, GoesOn
<1>4. ASSUME v.engine = "elevenlabs", v.audio = NoAudio,
             Whole(r.text, r.heard \o FlattenSeq(ElevenChunks(text)))
      PROVE  Reads(SpeakElevenLabs(v, text), r)
  <2>. DEFINE q == ElevenChunks(text)
              u == [v EXCEPT !.queue = q, !.index = 1, !.speaking = TRUE, !.paused = FALSE]
  <2>1. q \in Seq(Passages) /\ AllFit(q)
    BY ElevenChunksKeep
  <2>2. SpeakElevenLabs(v, text) = SpeakNextElevenLabs(u)
    BY <1>4 DEF SpeakElevenLabs, StopAudio
  <2>3. Whole(r.text, r.heard \o FlattenSeq(q))
    BY <1>4
  <2>. HIDE DEF q
  <2>4. u \in VoiceRecords /\ Ready(u, r) /\ u.engine = "elevenlabs" /\ u.queue = q
    BY <1>2, <1>4, <2>1, <2>3
  <2>. HIDE DEF u
  <2>. QED  BY <2>1, <2>2, <2>4, GoesOn
<1>. QED  BY <1>3, <1>4

-----------------------------------------------------------------------------
(* The steps of the voice *)

\* A text that is spoken from silence is read.
LEMMA ClickSpeakKeepsInv ==
    ASSUME VoiceInv, NEW text \in Texts, ClickSpeak(text)
    PROVE  VoiceInv'
<1>. DEFINE r == [text |-> text, heard |-> <<>>, alone |-> Quiet(voice), failed |-> FALSE]
            w == Stop(voice)
<1>1. voice \in VoiceRecords /\ text \in Passages
  BY VoiceConstants DEF VoiceInv, Passages
<1>2. voice' = SpeakText(voice, text) /\ reading' = r
  BY DEF ClickSpeak
<1>3. voice' \in VoiceRecords
  BY <1>1, <1>2, SpeakType
<1>4. r \in ReadingRecords /\ r.text = text /\ r.heard = <<>> /\ r.alone = Quiet(voice)
  <2>1. <<>> \in Passages /\ Quiet(voice) \in BOOLEAN
    BY DEF Passages, Quiet
  <2>. QED  BY <1>1, <2>1 DEF ReadingRecords
<1>. HIDE DEF r
<1>5. ASSUME Quiet(voice) PROVE Reads(voice', r)
  <2>1. /\ w \in VoiceRecords /\ w.lost = <<>> /\ w.errors = 0 /\ w.synth = <<>>
        /\ w.fetches = <<>> /\ w.audio = NoAudio /\ w.engine = voice.engine
    <3>. DEFINE c == Cancel(voice)
    <3>1. c = [voice EXCEPT !.synth = <<>>, !.errors = 0]
      BY <1>5 DEF Quiet, Cancel
    <3>2. c \in VoiceRecords
      BY <1>1, NextType
    <3>3. w = [StopAudio(c) EXCEPT !.queue = <<>>, !.index = 1, !.paused = FALSE,
                                   !.speaking = FALSE]
      BY DEF Stop
    <3>4. w \in VoiceRecords
      BY <1>1, SpeakType
    <3>. HIDE DEF c, w
    <3>5. /\ c.lost = <<>> /\ c.errors = 0 /\ c.synth = <<>> /\ c.fetches = <<>>
          /\ c.audio = NoAudio /\ c.engine = voice.engine
      BY <1>1, <1>5, <3>1 DEF Quiet, VoiceRecords
    <3>6. StopAudio(c) = c
      BY <3>5 DEF StopAudio
    <3>. QED  BY <3>2, <3>3, <3>4, <3>5, <3>6 DEF VoiceRecords
  <2>2. Silent(w.audio)
    BY <2>1 DEF Silent
  <2>3. voice' = IF voice.engine = "elevenlabs" THEN SpeakElevenLabs(w, text)
                                                ELSE SpeakBrowser(w, text)
    BY <1>2 DEF SpeakText
  <2>. HIDE DEF w
  <2>4. /\ <<>> \o Sentences(text) = Sentences(text)
        /\ <<>> \o FlattenSeq(ElevenChunks(text)) = FlattenSeq(ElevenChunks(text))
    <3>1. Sentences(text) \in Passages /\ FlattenSeq(ElevenChunks(text)) \in Passages
      BY <1>1, SentencesType, ElevenChunksKeep, FlattenAppend DEF Passages
    <3>. QED  BY <3>1, ConcatEmptySeq DEF Passages
  <2>5. /\ Whole(r.text, r.heard \o Sentences(text))
        /\ Whole(r.text, r.heard \o FlattenSeq(ElevenChunks(text)))
    BY <1>1, <1>4, <2>4, ElevenChunksKeep DEF Whole
  <2>6. voice.engine \in {"browser", "elevenlabs"}
    BY <1>1 DEF VoiceRecords, Engines
  <2>. QED  BY <1>1, <2>1, <2>2, <2>3, <2>5, <2>6, Begins
<1>. QED  BY <1>2, <1>3, <1>4, <1>5 DEF VoiceInv

\* After a click that disturbs there is only the record to keep.
LEMMA DisturbKeepsInv ==
    ASSUME VoiceInv, Disturb, voice' \in VoiceRecords
    PROVE  VoiceInv'
<1>1. reading' \in ReadingRecords /\ ~reading'.alone
  BY DEF VoiceInv, Disturb, ReadingRecords
<1>. QED  BY <1>1 DEF VoiceInv

\* The clicks that end a reading keep the invariant: nothing is promised after them.
LEMMA ClicksKeepInv ==
    ASSUME VoiceInv, ClickStop \/ ClickEngine \/ ClickSkip
    PROVE  VoiceInv'
<1>1. voice \in VoiceRecords /\ Disturb
  BY DEF VoiceInv, ClickStop, ClickEngine, ClickSkip
<1>2. voice.index \in Nat \ {0} /\ Len(voice.queue) \in Nat
  <2>1. voice.index \in Nat \ {0} /\ voice.queue \in Seq(Passages)
    BY <1>1 DEF VoiceRecords, Indices, Queues
  <2>. HIDE DEF Passages
  <2>. QED  BY <2>1
<1>3. Stop(voice) \in VoiceRecords
  <2>1. <<>> \in Passages
    BY DEF Passages
  <2>. QED  BY <1>1, <2>1, SpeakType
<1>4. CASE ClickStop
  BY <1>1, <1>3, <1>4, DisturbKeepsInv DEF ClickStop
<1>5. CASE ClickEngine
  <2>1. PICK e \in Engines : voice' = [Stop(voice) EXCEPT !.engine = e]
    BY <1>5 DEF ClickEngine, Engines
  <2>2. voice' \in VoiceRecords
    BY <1>3, <2>1 DEF VoiceRecords
  <2>. QED  BY <1>1, <2>2, DisturbKeepsInv
<1>6. CASE ClickSkip
  <2>1. PICK i \in Nat \ {0} : voice' = SkipTo(voice, i)
    BY <1>2, <1>6 DEF ClickSkip
  <2>2. ASSUME NEW c \in VoiceRecords PROVE [c EXCEPT !.index = i] \in VoiceRecords
    BY DEF VoiceRecords, Indices
  <2>3. voice' \in VoiceRecords
    <3>1. Cancel(voice) \in VoiceRecords /\ StopAudio(voice) \in VoiceRecords
      BY <1>1, NextType
    <3>2. /\ [Cancel(voice) EXCEPT !.index = i] \in VoiceRecords
          /\ [StopAudio(voice) EXCEPT !.index = i] \in VoiceRecords
      BY <2>2, <3>1
    <3>. QED  BY <2>1, <3>2, NextType DEF SkipTo
  <2>. QED  BY <1>1, <2>3, DisturbKeepsInv
<1>. QED  BY <1>4, <1>5, <1>6

\* Pausing changes the flags, and an audio that plays; resuming changes it back.
LEMMA FlagsKeepReads ==
    ASSUME NEW v \in VoiceRecords, NEW w \in VoiceRecords, NEW r, Reads(v, r),
           w.engine = v.engine, w.queue = v.queue, w.index = v.index,
           w.speaking = v.speaking, w.lost = v.lost, w.fetches = v.fetches,
           w.synth = v.synth, w.errors = v.errors, w.audio.chunk = v.audio.chunk,
           \/ w.audio = v.audio
           \/ {v.audio.at, w.audio.at} \subseteq {"playing", "paused"}
    PROVE  Reads(w, r)
<1>1. Rest(w) = Rest(v)
  BY DEF Rest
<1>2. Silent(v.audio) => w.audio = v.audio
  BY DEF Silent, NoAudio
<1>. QED  BY <1>1, <1>2 DEF Reads, ByBrowser, ByEleven, Hushed

\* So does the pause, which holds what is playing.
LEMMA PauseKeepsInv ==
    ASSUME VoiceInv, ClickPause
    PROVE  VoiceInv'
<1>1. voice \in VoiceRecords /\ reading' = reading /\ voice' = Pause(voice)
      /\ voice.audio \in AudioRecords
  BY DEF VoiceInv, ClickPause, VoiceRecords
<1>. DEFINE at == IF voice.audio.at = "playing" THEN "paused" ELSE voice.audio.at
            audio == [voice.audio EXCEPT !.at = at]
<1>2. audio \in AudioRecords /\ audio.chunk = voice.audio.chunk /\ audio.at = at
      /\ (voice.audio.at # "playing" => audio = voice.audio)
  BY <1>1 DEF AudioRecords
<1>3. \/ voice' = [voice EXCEPT !.paused = TRUE, !.audio = audio]
      \/ voice' = [voice EXCEPT !.held = TRUE, !.paused = TRUE]
      \/ voice' = voice
  BY <1>1 DEF Pause
<1>4. {voice.audio.at, at} \subseteq {"playing", "paused"} \/ voice.audio.at # "playing"
  OBVIOUS
<1>. HIDE DEF audio, at
<1>5. CASE voice' = [voice EXCEPT !.paused = TRUE, !.audio = audio]
  <2>1. /\ voice' \in VoiceRecords /\ voice'.audio = audio
        /\ voice'.engine = voice.engine /\ voice'.queue = voice.queue
        /\ voice'.index = voice.index /\ voice'.speaking = voice.speaking
        /\ voice'.lost = voice.lost /\ voice'.fetches = voice.fetches
        /\ voice'.synth = voice.synth /\ voice'.errors = voice.errors
    BY <1>1, <1>2, <1>5 DEF VoiceRecords
  <2>2. \A r : Reads(voice, r) => Reads(voice', r)
    BY <1>1, <1>2, <1>4, <2>1, FlagsKeepReads
  <2>. QED  BY <1>1, <2>1, <2>2 DEF VoiceInv
<1>6. CASE voice' = [voice EXCEPT !.held = TRUE, !.paused = TRUE]
  <2>1. /\ voice' \in VoiceRecords /\ voice'.audio = voice.audio
        /\ voice'.engine = voice.engine /\ voice'.queue = voice.queue
        /\ voice'.index = voice.index /\ voice'.speaking = voice.speaking
        /\ voice'.lost = voice.lost /\ voice'.fetches = voice.fetches
        /\ voice'.synth = voice.synth /\ voice'.errors = voice.errors
    BY <1>1, <1>6 DEF VoiceRecords
  <2>2. \A r : Reads(voice, r) => Reads(voice', r)
    BY <1>1, <2>1, FlagsKeepReads
  <2>. QED  BY <1>1, <2>1, <2>2 DEF VoiceInv
<1>7. CASE voice' = voice
  BY <1>1, <1>7 DEF VoiceInv
<1>. QED  BY <1>3, <1>5, <1>6, <1>7

\* So does the end of the pause, which goes on where it was.
LEMMA ResumeKeepsInv ==
    ASSUME VoiceInv, ClickResume
    PROVE  VoiceInv'
<1>1. voice \in VoiceRecords /\ voice' = Resume(voice) /\ voice.audio \in AudioRecords
      /\ (voice.audio.at = "ended" => Disturb) /\ (voice.audio.at # "ended" => reading' = reading)
  BY DEF VoiceInv, ClickResume, VoiceRecords
<1>. DEFINE audio == [voice.audio EXCEPT !.at = "playing"]
<1>2. audio \in AudioRecords /\ audio.chunk = voice.audio.chunk /\ audio.at = "playing"
  BY <1>1 DEF AudioRecords
<1>3. \/ voice' = [voice EXCEPT !.paused = FALSE, !.audio = audio] /\ voice.audio # NoAudio
      \/ voice' = [voice EXCEPT !.held = FALSE, !.paused = FALSE]
      \/ voice' = voice
  BY <1>1 DEF Resume
<1>. HIDE DEF audio
<1>4. CASE voice' = [voice EXCEPT !.paused = FALSE, !.audio = audio] /\ voice.audio # NoAudio
  <2>1. /\ voice' \in VoiceRecords /\ voice'.audio = audio
        /\ voice'.engine = voice.engine /\ voice'.queue = voice.queue
        /\ voice'.index = voice.index /\ voice'.speaking = voice.speaking
        /\ voice'.lost = voice.lost /\ voice'.fetches = voice.fetches
        /\ voice'.synth = voice.synth /\ voice'.errors = voice.errors
    BY <1>1, <1>2, <1>4 DEF VoiceRecords
  <2>2. CASE voice.audio.at = "ended"
    BY <1>1, <2>1, <2>2, DisturbKeepsInv
  <2>3. CASE voice.audio.at \in {"playing", "paused"}
    <3>1. \A r : Reads(voice, r) => Reads(voice', r)
      BY <1>1, <1>2, <2>1, <2>3, FlagsKeepReads
    <3>. QED  BY <1>1, <2>1, <2>3, <3>1 DEF VoiceInv
  \* Not while a text is read: what is silent has ended, or is nothing.
  <2>4. CASE voice.audio.at = "none"
    <3>1. \A r : ~Reads(voice, r)
      BY <1>4, <2>4 DEF Reads, ByBrowser, ByEleven, Hushed, Silent
    <3>. QED  BY <1>1, <2>1, <2>4, <3>1 DEF VoiceInv
  <2>5. voice.audio.at \in {"none", "playing", "paused", "ended"}
    BY <1>1 DEF AudioRecords
  <2>. QED  BY <2>2, <2>3, <2>4, <2>5
<1>5. CASE voice' = [voice EXCEPT !.held = FALSE, !.paused = FALSE]
  <2>1. /\ voice' \in VoiceRecords /\ voice'.audio = voice.audio
        /\ voice'.engine = voice.engine /\ voice'.queue = voice.queue
        /\ voice'.index = voice.index /\ voice'.speaking = voice.speaking
        /\ voice'.lost = voice.lost /\ voice'.fetches = voice.fetches
        /\ voice'.synth = voice.synth /\ voice'.errors = voice.errors
    BY <1>1, <1>5 DEF VoiceRecords
  <2>2. \A r : Reads(voice, r) => Reads(voice', r)
    BY <1>1, <2>1, FlagsKeepReads
  <2>3. CASE Disturb
    BY <2>1, <2>3, DisturbKeepsInv
  <2>4. CASE reading' = reading
    BY <2>1, <2>2, <2>4 DEF VoiceInv
  <2>. QED  BY <1>1, <2>3, <2>4
<1>6. CASE voice' = voice
  <2>1. CASE Disturb
    BY <1>1, <1>6, <2>1, DisturbKeepsInv
  <2>2. CASE reading' = reading
    BY <1>6, <2>2 DEF VoiceInv
  <2>. QED  BY <1>1, <2>1, <2>2
<1>. QED  BY <1>3, <1>4, <1>5, <1>6

-----------------------------------------------------------------------------
(* What the engines report *)

\* The next chunk is heard, and the index moves on.
LEMMA HeardStep ==
    ASSUME VoiceInv, NEW chunk \in Passages, Heard(chunk)
    PROVE  /\ reading' \in ReadingRecords /\ reading'.text = reading.text
           /\ reading'.alone = reading.alone /\ reading'.failed = reading.failed
           /\ reading'.heard = reading.heard \o chunk
<1>1. reading \in ReadingRecords /\ reading' = [reading EXCEPT !.heard = @ \o chunk]
      /\ reading.heard \in Passages
  BY DEF VoiceInv, Heard, ReadingRecords
<1>2. reading.heard \o chunk \in Passages
  BY <1>1, ConcatProperties DEF Passages
<1>. DEFINE h == reading.heard \o chunk
<1>3. reading' = [reading EXCEPT !.heard = h]
  BY <1>1
<1>. HIDE DEF h
<1>4. h \in Passages
  BY <1>2 DEF h
<1>. QED  BY <1>1, <1>3, <1>4 DEF ReadingRecords, h

\* What was heard and what is left change by the chunk that is spoken.
LEMMA IndexMoves ==
    ASSUME NEW v \in VoiceRecords, NEW h \in Passages, v.index <= Len(v.queue)
    PROVE  /\ v.queue[v.index] \in Passages /\ v.index + 1 \in Indices
           /\ h \o Rest(v) = (h \o v.queue[v.index]) \o Left(v.queue, v.index + 1)
<1>1. v.queue \in Seq(Passages) /\ v.index \in Nat \ {0}
  BY DEF VoiceRecords, Queues, Indices
<1>2. v.index + 1 \in Nat \ {0}
  BY <1>1
<1>3. /\ v.queue[v.index] \in Passages /\ Left(v.queue, v.index + 1) \in Passages
      /\ Rest(v) = v.queue[v.index] \o Left(v.queue, v.index + 1)
  BY <1>1, <1>2, LeftStep DEF Rest
<1>. DEFINE x == v.queue[v.index]
            y == Left(v.queue, v.index + 1)
<1>4. (h \o x) \o y = h \o (x \o y)
  <2>. HIDE DEF x, y
  <2>1. x \in Passages /\ y \in Passages
    BY <1>3 DEF x, y
  <2>. QED  BY <2>1, ConcatAssociative DEF Passages
<1>. QED  BY <1>2, <1>3, <1>4 DEF Indices

\* A chunk that the browser has read.
LEMMA UtteranceEndsKeepsInv ==
    ASSUME VoiceInv, UtteranceEnds
    PROVE  VoiceInv'
<1>. DEFINE x == Head(voice.synth)
            i == voice.index + 1
            u == [voice EXCEPT !.synth = Tail(@), !.index = @ + 1]
            t == Tail(voice.synth)
<1>1. /\ voice \in VoiceRecords /\ reading \in ReadingRecords /\ voice.synth # <<>>
      /\ Heard(x) /\ voice' = SpeakNextBrowser(u)
      /\ reading.alone => reading.text \in Texts /\ Reads(voice, reading)
  BY DEF VoiceInv, UtteranceEnds
<1>2. x \in Passages /\ t \in Queues /\ i \in Indices
  <2>1. voice.synth \in Seq(Passages) /\ voice.index \in Nat \ {0}
    BY <1>1 DEF VoiceRecords, Queues, Indices
  <2>2. i \in Indices
    BY <2>1 DEF Indices
  <2>. HIDE DEF Passages
  <2>. QED  BY <1>1, <2>1, <2>2 DEF Queues
<1>3. u = [voice EXCEPT !.synth = t, !.index = i]
  OBVIOUS
<1>4. voice.synth = <<voice.queue[voice.index]>> => x = voice.queue[voice.index] /\ t = <<>>
  <2>. HIDE DEF Passages
  <2>. QED  OBVIOUS
<1>. HIDE DEF u, x, t
<1>5. /\ u \in VoiceRecords /\ u.synth = t /\ u.index = i /\ u.queue = voice.queue
      /\ u.engine = voice.engine /\ u.audio = voice.audio /\ u.lost = voice.lost
      /\ u.fetches = voice.fetches /\ u.errors = voice.errors /\ u.speaking = voice.speaking
  <2>. HIDE DEF i
  <2>. QED  BY <1>1, <1>2, <1>3 DEF VoiceRecords
<1>6. voice' \in VoiceRecords
  BY <1>1, <1>5, NextType
<1>7. /\ reading' \in ReadingRecords /\ reading'.text = reading.text
      /\ reading'.alone = reading.alone /\ reading'.heard = reading.heard \o x
  BY <1>1, <1>2, HeardStep
<1>8. ASSUME reading.alone PROVE Reads(voice', reading')
  <2>1. /\ voice.speaking /\ voice.index <= Len(voice.queue) /\ ByBrowser(voice)
        /\ Whole(reading.text, reading.heard \o Rest(voice))
        /\ voice.lost = <<>> /\ voice.errors = 0
    BY <1>1, <1>8 DEF Reads, ByEleven, Hushed
  <2>2. x = voice.queue[voice.index] /\ t = <<>> /\ voice.engine = "browser"
        /\ voice.fetches = <<>> /\ Silent(voice.audio)
    BY <1>4, <2>1 DEF ByBrowser
  <2>3. reading.heard \o Rest(voice) = (reading.heard \o x) \o Left(voice.queue, i)
    BY <1>1, <2>1, <2>2, IndexMoves DEF ReadingRecords
  <2>4. Rest(u) = Left(voice.queue, i)
    BY <1>5 DEF Rest
  <2>5. Ready(u, reading')
    BY <1>5, <1>7, <2>1, <2>2, <2>3, <2>4 DEF Ready
  <2>. QED  BY <1>1, <1>5, <2>2, <2>5, GoesOn
<1>. QED  BY <1>1, <1>6, <1>7, <1>8 DEF VoiceInv

\* A chunk that ElevenLabs has read.
LEMMA AudioEndsKeepsInv ==
    ASSUME VoiceInv, AudioEnds
    PROVE  VoiceInv'
<1>. DEFINE x == voice.audio.chunk
            i == voice.index + 1
            a == [voice.audio EXCEPT !.at = "ended"]
            u == [voice EXCEPT !.audio.at = "ended", !.index = @ + 1]
<1>1. /\ voice \in VoiceRecords /\ reading \in ReadingRecords /\ voice.audio.at = "playing"
      /\ Heard(x) /\ voice' = SpeakNextElevenLabs(u)
      /\ reading.alone => reading.text \in Texts /\ Reads(voice, reading)
  BY DEF VoiceInv, AudioEnds
<1>2. x \in Passages /\ i \in Indices /\ a \in AudioRecords /\ a.at = "ended"
  <2>1. voice.audio \in AudioRecords /\ voice.index \in Nat \ {0}
    BY <1>1 DEF VoiceRecords, Indices
  <2>2. i \in Indices
    BY <2>1 DEF Indices
  <2>3. x \in Passages /\ a \in AudioRecords /\ a.at = "ended"
    BY <2>1 DEF AudioRecords
  <2>. QED  BY <2>2, <2>3
<1>3. u = [voice EXCEPT !.audio = a, !.index = i]
  OBVIOUS
<1>. HIDE DEF u, a
<1>4. /\ u \in VoiceRecords /\ u.synth = voice.synth /\ u.index = i /\ u.queue = voice.queue
      /\ u.engine = voice.engine /\ u.audio = a /\ u.lost = voice.lost
      /\ u.fetches = voice.fetches /\ u.errors = voice.errors /\ u.speaking = voice.speaking
  <2>. HIDE DEF i
  <2>. QED  BY <1>1, <1>2, <1>3 DEF VoiceRecords
<1>5. voice' \in VoiceRecords
  BY <1>1, <1>4, NextType
<1>6. /\ reading' \in ReadingRecords /\ reading'.text = reading.text
      /\ reading'.alone = reading.alone /\ reading'.heard = reading.heard \o x
  BY <1>1, <1>2, HeardStep
<1>7. ASSUME reading.alone PROVE Reads(voice', reading')
  <2>1. ~Silent(voice.audio)
    BY <1>1 DEF Silent, NoAudio
  <2>2. /\ voice.speaking /\ voice.index <= Len(voice.queue) /\ ByEleven(voice)
        /\ Whole(reading.text, reading.heard \o Rest(voice))
        /\ voice.lost = <<>> /\ voice.errors = 0
    BY <1>1, <1>7, <2>1 DEF Reads, ByBrowser, Hushed
  <2>3. x = voice.queue[voice.index] /\ voice.engine = "elevenlabs" /\ voice.synth = <<>>
        /\ voice.fetches = <<>> /\ AllFit(voice.queue)
    BY <2>1, <2>2 DEF ByEleven
  <2>4. reading.heard \o Rest(voice) = (reading.heard \o x) \o Left(voice.queue, i)
    BY <1>1, <2>2, <2>3, IndexMoves DEF ReadingRecords
  <2>5. Rest(u) = Left(voice.queue, i)
    BY <1>4 DEF Rest
  <2>6. Ready(u, reading')
    BY <1>2, <1>4, <1>6, <2>2, <2>3, <2>4, <2>5 DEF Ready, Silent
  <2>. QED  BY <1>1, <1>4, <2>3, <2>6, GoesOn
<1>. QED  BY <1>1, <1>5, <1>6, <1>7 DEF VoiceInv

\* A chunk that failed: nothing goes on, and the page knows.
LEMMA FailuresKeepInv ==
    ASSUME VoiceInv, UtteranceFails \/ AudioFails
    PROVE  VoiceInv'
<1>. DEFINE t == Tail(voice.synth)
            a == [voice.audio EXCEPT !.at = "ended"]
<1>1. /\ voice \in VoiceRecords /\ voice.audio \in AudioRecords
      /\ reading \in ReadingRecords /\ reading' = [reading EXCEPT !.failed = TRUE]
      /\ reading.alone => reading.text \in Texts /\ Reads(voice, reading)
  BY DEF VoiceInv, UtteranceFails, AudioFails, Failed, VoiceRecords
<1>2. /\ reading' \in ReadingRecords /\ reading'.text = reading.text
      /\ reading'.alone = reading.alone /\ reading'.failed /\ reading'.heard = reading.heard
  BY <1>1 DEF ReadingRecords
<1>3. /\ voice.synth # <<>> => t \in Queues
      /\ voice.synth = <<voice.queue[voice.index]>> => t = <<>>
      /\ a \in AudioRecords /\ a.at = "ended"
  <2>1. voice.synth \in Seq(Passages)
    BY <1>1 DEF VoiceRecords, Queues
  <2>2. a \in AudioRecords /\ a.at = "ended"
    BY <1>1 DEF AudioRecords
  <2>. HIDE DEF Passages, a
  <2>3. voice.synth # <<>> => t \in Queues
    BY <2>1 DEF Queues
  <2>4. voice.synth = <<voice.queue[voice.index]>> => t = <<>>
    OBVIOUS
  <2>. QED  BY <2>2, <2>3, <2>4
<1>. HIDE DEF t, a
<1>4. CASE UtteranceFails
  <2>1. voice' = [voice EXCEPT !.synth = t, !.speaking = FALSE] /\ voice.synth # <<>>
    BY <1>4 DEF UtteranceFails, t
  <2>2. /\ voice' \in VoiceRecords /\ voice'.synth = t /\ voice'.queue = voice.queue
        /\ voice'.index = voice.index /\ voice'.audio = voice.audio
        /\ voice'.lost = voice.lost /\ voice'.fetches = voice.fetches
        /\ voice'.errors = voice.errors
    BY <1>1, <1>3, <2>1 DEF VoiceRecords
  <2>3. ASSUME reading.alone PROVE Reads(voice', reading')
    <3>1. Reads(voice, reading) /\ ByBrowser(voice)
      BY <1>1, <2>1, <2>3 DEF Reads, ByEleven, Hushed
    <3>. QED  BY <1>2, <1>3, <2>2, <3>1 DEF Reads, ByBrowser, Hushed, Rest
  <2>. QED  BY <1>1, <1>2, <2>2, <2>3 DEF VoiceInv
<1>5. CASE AudioFails
  <2>1. voice' = [voice EXCEPT !.audio = a, !.speaking = FALSE] /\ voice.audio.at = "playing"
    BY <1>5 DEF AudioFails, a
  <2>2. /\ voice' \in VoiceRecords /\ voice'.synth = voice.synth /\ voice'.queue = voice.queue
        /\ voice'.index = voice.index /\ voice'.audio = a
        /\ voice'.lost = voice.lost /\ voice'.fetches = voice.fetches
        /\ voice'.errors = voice.errors
    BY <1>1, <1>3, <2>1 DEF VoiceRecords
  <2>3. ASSUME reading.alone PROVE Reads(voice', reading')
    <3>1. ~Silent(voice.audio)
      BY <2>1 DEF Silent, NoAudio
    <3>2. Reads(voice, reading) /\ ByEleven(voice)
      BY <1>1, <2>3, <3>1 DEF Reads, ByBrowser, Hushed
    <3>3. Silent(a)
      BY <1>3 DEF Silent
    <3>. QED  BY <1>2, <2>2, <3>1, <3>2, <3>3 DEF Reads, ByEleven, Hushed, Rest
  <2>. QED  BY <1>1, <1>2, <2>2, <2>3 DEF VoiceInv
<1>. QED  BY <1>4, <1>5

\* Errors that are due, and elements without a name, are of readings that were disturbed.
LEMMA StraysKeepInv ==
    ASSUME VoiceInv, ErrorEvent \/ LostAudioEnds
    PROVE  VoiceInv'
<1>1. /\ voice \in VoiceRecords /\ reading \in ReadingRecords
      /\ reading.alone => voice.lost = <<>> /\ voice.errors = 0
  BY DEF VoiceInv, Reads
<1>2. CASE ErrorEvent
  <2>. DEFINE e == voice.errors - 1
  <2>1. /\ voice' = [voice EXCEPT !.errors = e, !.speaking = FALSE] /\ reading' = reading
        /\ e \in Nat /\ voice.errors # 0
    BY <1>1, <1>2 DEF ErrorEvent, VoiceRecords
  <2>. HIDE DEF e
  <2>2. voice' \in VoiceRecords
    BY <1>1, <2>1 DEF VoiceRecords
  <2>. QED  BY <1>1, <2>1, <2>2 DEF VoiceInv
<1>3. CASE LostAudioEnds
  <2>. DEFINE x == Head(voice.lost)
              t == Tail(voice.lost)
              i == voice.index + 1
              u == [voice EXCEPT !.lost = Tail(@), !.index = @ + 1]
  <2>1. voice.lost # <<>> /\ Heard(x) /\ voice' = SpeakNextElevenLabs(u)
    BY <1>3 DEF LostAudioEnds
  <2>2. x \in Passages /\ t \in Queues /\ i \in Indices
    <3>1. voice.lost \in Seq(Passages) /\ voice.index \in Nat \ {0}
      BY <1>1 DEF VoiceRecords, Queues, Indices
    <3>2. i \in Indices
      BY <3>1 DEF Indices
    <3>. HIDE DEF Passages
    <3>. QED  BY <2>1, <3>1, <3>2 DEF Queues
  <2>3. u = [voice EXCEPT !.lost = t, !.index = i]
    OBVIOUS
  <2>. HIDE DEF u, t, i, x
  <2>4. u \in VoiceRecords
    BY <1>1, <2>2, <2>3 DEF VoiceRecords
  <2>5. voice' \in VoiceRecords
    BY <2>1, <2>4, NextType
  <2>6. reading' \in ReadingRecords /\ reading'.alone = reading.alone
    BY <2>1, <2>2, HeardStep
  <2>. QED  BY <1>1, <2>1, <2>5, <2>6 DEF VoiceInv
<1>. QED  BY <1>2, <1>3

\* A chunk that the worker sent.
LEMMA TtsAnswersKeepsInv ==
    ASSUME VoiceInv, NEW i \in DOMAIN voice.fetches, TtsAnswers(i)
    PROVE  VoiceInv'
<1>. DEFINE x == voice.fetches[i]
            f == RemoveAt(voice.fetches, i)
            a == [at |-> "playing", chunk |-> Audio(x)]
            l == IF voice.audio.at = "playing" THEN Append(voice.lost, voice.audio.chunk)
                                               ELSE voice.lost
<1>1. /\ voice \in VoiceRecords /\ reading \in ReadingRecords /\ reading' = reading
      /\ voice' = [voice EXCEPT !.fetches = f, !.audio = a, !.lost = l]
      /\ reading.alone => reading.text \in Texts /\ Reads(voice, reading)
  BY DEF VoiceInv, TtsAnswers
<1>2. /\ voice.fetches \in Seq(Passages) /\ voice.lost \in Seq(Passages)
      /\ voice.audio.chunk \in Passages
  BY <1>1 DEF VoiceRecords, Queues, AudioRecords
<1>3. x \in Passages /\ f \in Queues /\ l \in Queues
  <2>. HIDE DEF Passages
  <2>1. x \in Passages /\ l \in Queues
    BY <1>2 DEF Queues
  <2>2. f \in Queues
    BY <1>2 DEF Queues, RemoveAt
  <2>. QED  BY <2>1, <2>2
<1>4. a \in AudioRecords /\ a.at = "playing" /\ (Fits(x) => a.chunk = x)
  <2>1. Audio(x) \in Passages /\ (Fits(x) => Audio(x) = x)
    BY <1>3 DEF Audio, Fits, Passages
  <2>. QED  BY <2>1 DEF AudioRecords
<1>5. ASSUME NEW y, voice.fetches = <<y>> PROVE x = y /\ f = <<>>
  <2>. HIDE DEF Passages
  <2>1. i = 1
    BY <1>5
  <2>. QED  BY <1>5, <2>1 DEF RemoveAt
<1>. HIDE DEF f, a, l, x
<1>6. /\ voice' \in VoiceRecords /\ voice'.fetches = f /\ voice'.audio = a /\ voice'.lost = l
      /\ voice'.queue = voice.queue /\ voice'.index = voice.index
      /\ voice'.engine = voice.engine /\ voice'.synth = voice.synth
      /\ voice'.errors = voice.errors /\ voice'.speaking = voice.speaking
  BY <1>1, <1>3, <1>4 DEF VoiceRecords
<1>7. ASSUME reading.alone PROVE Reads(voice', reading)
  <2>1. voice.fetches # <<>>
    <3>. HIDE DEF Passages
    <3>. QED  BY <1>2
  <2>2. Reads(voice, reading) /\ ByEleven(voice) /\ voice.index <= Len(voice.queue)
        /\ voice.speaking /\ voice.fetches = <<voice.queue[voice.index]>> /\ Silent(voice.audio)
    BY <1>1, <1>7, <2>1 DEF Reads, ByBrowser, ByEleven, Hushed
  <2>3. x = voice.queue[voice.index] /\ f = <<>>
    BY <1>5, <2>2
  <2>4. Fits(x)
    <3>1. voice.queue \in Seq(Passages) /\ voice.index \in Nat \ {0}
      BY <1>1 DEF VoiceRecords, Queues, Indices
    <3>2. voice.index \in DOMAIN voice.queue
      <4>. HIDE DEF Passages
      <4>. QED  BY <2>2, <3>1
    <3>. QED  BY <2>2, <2>3, <3>2 DEF ByEleven, AllFit
  <2>5. l = voice.lost
    BY <2>2 DEF l, Silent, NoAudio
  <2>6. Rest(voice') = Rest(voice)
    BY <1>6 DEF Rest
  <2>. QED  BY <1>4, <1>6, <2>2, <2>3, <2>4, <2>5, <2>6 DEF Reads, ByEleven
<1>. QED  BY <1>1, <1>6, <1>7 DEF VoiceInv

\* A chunk that the worker did not send: the browser reads what is left.
LEMMA TtsFailsKeepsInv ==
    ASSUME VoiceInv, NEW i \in DOMAIN voice.fetches, TtsFails(i)
    PROVE  VoiceInv'
<1>. DEFINE f == RemoveAt(voice.fetches, i)
            u == [voice EXCEPT !.fetches = f, !.engine = "browser"]
            rest == Rest(voice)
<1>1. /\ voice \in VoiceRecords /\ reading \in ReadingRecords /\ reading' = reading
      /\ voice' = SpeakBrowser(u, rest)
      /\ reading.alone => reading.text \in Texts /\ Reads(voice, reading)
  BY DEF VoiceInv, TtsFails, Rest, Left
<1>2. /\ voice.fetches \in Seq(Passages) /\ voice.queue \in Seq(Passages)
      /\ voice.index \in Nat \ {0} /\ reading.heard \in Passages
  BY <1>1 DEF VoiceRecords, Queues, Indices, ReadingRecords
<1>3. rest \in Passages
  BY <1>2, LeftStep DEF Rest
<1>4. f \in Queues
  <2>. HIDE DEF Passages
  <2>. QED  BY <1>2 DEF Queues, RemoveAt
<1>5. ASSUME NEW y, voice.fetches = <<y>> PROVE f = <<>>
  <2>. HIDE DEF Passages
  <2>1. i = 1
    BY <1>5
  <2>. QED  BY <1>5, <2>1 DEF RemoveAt
<1>6. u = [voice EXCEPT !.fetches = f, !.engine = "browser"] /\ "browser" \in Engines
  BY DEF Engines
<1>. HIDE DEF f, u
<1>7. /\ u \in VoiceRecords /\ u.fetches = f /\ u.engine = "browser"
      /\ u.lost = voice.lost /\ u.errors = voice.errors /\ u.synth = voice.synth
      /\ u.audio = voice.audio
  BY <1>1, <1>4, <1>6 DEF VoiceRecords
<1>. HIDE DEF rest
<1>8. voice' \in VoiceRecords
  BY <1>1, <1>3, <1>7, SpeakType
<1>9. ASSUME reading.alone PROVE Reads(voice', reading)
  <2>1. voice.fetches # <<>>
    <3>. HIDE DEF Passages
    <3>. QED  BY <1>2
  <2>2. Reads(voice, reading) /\ ByEleven(voice)
        /\ voice.fetches = <<voice.queue[voice.index]>> /\ Silent(voice.audio)
    BY <1>1, <1>9, <2>1 DEF Reads, ByBrowser, ByEleven, Hushed
  <2>3. f = <<>> /\ voice.synth = <<>> /\ voice.lost = <<>> /\ voice.errors = 0
    BY <1>5, <2>2 DEF Reads, ByEleven
  <2>4. Whole(reading.text, reading.heard \o rest)
    BY <2>2 DEF Reads, rest
  <2>5. Whole(reading.text, reading.heard \o Sentences(rest))
    BY <1>1, <1>2, <1>3, <1>9, <2>4, WholeOfRest
  <2>. QED  BY <1>1, <1>3, <1>7, <2>2, <2>3, <2>5, Begins
<1>. QED  BY <1>1, <1>8, <1>9 DEF VoiceInv

\* Every step of the script, of the synthesis and of the user keeps the invariant.
LEMMA VoiceNextInv == VoiceInv /\ [VoiceNext]_voiceVars => VoiceInv'
<1>. SUFFICES ASSUME VoiceInv, [VoiceNext]_voiceVars PROVE VoiceInv'
  OBVIOUS
<1>1. ASSUME NEW t \in Texts, ClickSpeak(t) PROVE VoiceInv'
  BY <1>1, ClickSpeakKeepsInv
<1>2. CASE ClickStop \/ ClickEngine \/ ClickSkip
  BY <1>2, ClicksKeepInv
<1>3. CASE ClickPause
  BY <1>3, PauseKeepsInv
<1>4. CASE ClickResume
  BY <1>4, ResumeKeepsInv
<1>5. CASE UtteranceEnds
  BY <1>5, UtteranceEndsKeepsInv
<1>6. CASE AudioEnds
  BY <1>6, AudioEndsKeepsInv
<1>7. CASE UtteranceFails \/ AudioFails
  BY <1>7, FailuresKeepInv
<1>8. CASE ErrorEvent \/ LostAudioEnds
  BY <1>8, StraysKeepInv
<1>9. ASSUME NEW i \in DOMAIN voice.fetches, TtsAnswers(i) PROVE VoiceInv'
  BY <1>9, TtsAnswersKeepsInv
<1>10. ASSUME NEW i \in DOMAIN voice.fetches, TtsFails(i) PROVE VoiceInv'
  BY <1>10, TtsFailsKeepsInv
<1>11. CASE UNCHANGED voiceVars
  BY <1>11 DEF VoiceInv, voiceVars
<1>. QED  BY <1>1, <1>2, <1>3, <1>4, <1>5, <1>6, <1>7, <1>8, <1>9, <1>10, <1>11 DEF VoiceNext

\* It holds when the page is opened.
LEMMA VoiceInitInv == VoiceInit => VoiceInv
<1>. SUFFICES ASSUME VoiceInit PROVE VoiceInv
  OBVIOUS
<1>1. <<>> \in Passages /\ <<>> \in Queues /\ 1 \in Indices /\ NoAudio \in AudioRecords
  BY DEF Passages, Queues, Indices, NoAudio, AudioRecords
<1>2. voice \in VoiceRecords
  <2>1. PICK e \in Engines :
            voice = [engine |-> e, queue |-> <<>>, index |-> 1, paused |-> FALSE,
                     speaking |-> FALSE, audio |-> NoAudio, lost |-> <<>>, fetches |-> <<>>,
                     synth |-> <<>>, held |-> FALSE, errors |-> 0]
    BY DEF VoiceInit, Engines
  <2>. QED  BY <1>1, <2>1 DEF VoiceRecords
<1>3. reading \in ReadingRecords /\ ~reading.alone
  BY <1>1 DEF VoiceInit, ReadingRecords
<1>. QED  BY <1>2, <1>3 DEF VoiceInv

\* It implies what is checked of the reading.
LEMMA VoiceSafe == VoiceInv => ReadingInOrder
<1>. SUFFICES ASSUME VoiceInv, reading.alone
              PROVE  /\ IsPrefix(reading.heard, reading.text)
                     /\ \/ voice.speaking \/ reading.failed
                        \/ IsPrefix(Sentences(reading.text), reading.heard)
  BY DEF ReadingInOrder
<1>1. /\ reading.text \in Texts /\ Reads(voice, reading) /\ reading.heard \in Passages
      /\ voice.queue \in Seq(Passages) /\ voice.index \in Nat \ {0}
  BY DEF VoiceInv, ReadingRecords, VoiceRecords, Queues, Indices
<1>2. Rest(voice) \in Passages /\ (voice.index > Len(voice.queue) => Rest(voice) = <<>>)
  BY <1>1, LeftStep DEF Rest
<1>3. Whole(reading.text, reading.heard \o Rest(voice))
  BY <1>1 DEF Reads
<1>4. voice.speaking \/ reading.failed \/ voice.index > Len(voice.queue)
  BY <1>1 DEF Reads
<1>. QED  BY <1>1, <1>2, <1>3, <1>4, WholePrefix

-----------------------------------------------------------------------------
(* The assistant *)

\* What a conversation and the panel hold.
Entries == [role : {"user", "assistant"}, question : Nat]

\* A conversation of whole turns.
Turns(s) == s \in Seq(Entries) /\ Paired(s) /\ Len(s) % 2 = 0

Badges == {"model", "knowledge base"}
UserMessages == [from : {"user"}, question : Nat]
BotMessages == [from : {"bot"}, question : Nat, source : Badges, badge : Badges]
PanelMessages == UserMessages \cup BotMessages \cup [from : {"welcome"}]

\* Types of the page and of a call under way.
Chats == [history : Seq(Entries), available : BOOLEAN, sending : BOOLEAN,
          shown : Seq(PanelMessages), due : SUBSET {"health", "welcome"}, questions : Nat]
AskRecords == [at : {"wait"}, question : Nat, panel : BOOLEAN, messages : Seq(Entries)]

\* The messages of a panel that are part of the talk, and those before one of them.
Talk(s) == {i \in DOMAIN s : s[i].from # "welcome"}
TalkBefore(s, i) == {j \in Talk(s) : j < i}

\* s has an answer for every question, each behind its question, but for a last one.
Answering(s) ==
    \A i \in Talk(s) :
        IF Cardinality(TalkBefore(s, i)) % 2 = 0 THEN s[i].from = "user"
        ELSE /\ s[i].from = "bot" /\ s[i].badge = s[i].source
             /\ \E j \in TalkBefore(s, i) : /\ \A k \in TalkBefore(s, i) : k <= j
                                            /\ s[j].question = s[i].question

\* The question that the panel waits with is its last one.
Waits(s, q) ==
    /\ Cardinality(Talk(s)) % 2 = 1
    /\ \E j \in Talk(s) : (\A k \in Talk(s) : k <= j) /\ s[j].question = q

\* A call asks with whole turns and a question; the panel has at most one.
AskOK(a) ==
    asking[a] # NoAsk => /\ asking[a] \in AskRecords /\ Paired(asking[a].messages)
                         /\ asking[a].panel => /\ chat.sending
                                               /\ Waits(chat.shown, asking[a].question)

\* A call that the panel waits for.
OnPanel(a) == asking[a] # NoAsk /\ asking[a].panel

\* The inductive invariant of the assistant.
AssistantInv ==
    /\ chat \in Chats /\ Turns(chat.history)
    /\ asking \in [Asks -> {NoAsk} \cup AskRecords]
    /\ \A a \in Asks : AskOK(a)
    /\ \A a, b \in Asks : OnPanel(a) /\ OnPanel(b) => a = b
    /\ Answering(chat.shown)
    /\ chat.sending <=> Cardinality(Talk(chat.shown)) % 2 = 1

\* Two more, or two less, change nothing about odd and even.
LEMMA Parity ==
    /\ \A n \in Nat : n % 2 \in {0, 1}
    /\ \A n \in Nat : n % 2 = 0 => (n + 1) % 2 = 1 /\ (n + 2) % 2 = 0
    /\ \A n \in Nat : n % 2 = 1 => (n + 1) % 2 = 0
    /\ \A n, d \in Nat : d % 2 = 0 => (n + d) % 2 = n % 2
    /\ \A n, d \in Nat : d <= n /\ d % 2 = 0 => (n - d) % 2 = n % 2
OBVIOUS

\* The newest entries of a conversation, an even number of them, are whole turns.
LEMMA NewestTurns ==
    ASSUME NEW s, Turns(s), NEW n \in Nat, n % 2 = 0
    PROVE  Turns(Newest(s, n))
<1>. DEFINE d == Len(s) - n
            t == SubSeq(s, d + 1, Len(s))
<1>1. s \in Seq(Entries) /\ Len(s) \in Nat /\ Len(s) % 2 = 0 /\ Paired(s)
  BY DEF Turns
<1>2. CASE Len(s) <= n
  BY <1>2 DEF Newest
<1>3. CASE ~(Len(s) <= n)
  <2>1. d \in Nat /\ d % 2 = 0 /\ d + n = Len(s) /\ d + 1 \in Int
    <3>1. n <= Len(s)
      BY <1>1, <1>3
    <3>. QED  BY <1>1, <3>1, Parity
  <2>2. \A i \in (d + 1)..Len(s) : s[i] \in Entries
    <3>1. \A i \in (d + 1)..Len(s) : i \in 1..Len(s)
      BY <1>1, <2>1
    <3>. HIDE DEF d, Entries
    <3>. QED  BY <1>1, <3>1
  <2>3. t \in Seq(Entries) /\ Len(t) = n /\ \A i \in 1..n : t[i] = s[d + i]
    <3>. HIDE DEF Entries
    <3>1. /\ t \in Seq(Entries)
          /\ Len(t) = IF d + 1 <= Len(s) THEN Len(s) - (d + 1) + 1 ELSE 0
          /\ \A i \in 1..(Len(s) - (d + 1) + 1) : t[i] = s[(d + 1) + i - 1]
      <4>. HIDE DEF d
      <4>. QED  BY <1>1, <2>1, <2>2, SubSeqProperties
    <3>2. Len(s) - (d + 1) + 1 = n /\ (d + 1 <= Len(s) <=> n # 0)
      BY <1>1, <2>1
    <3>3. \A i \in 1..n : (d + 1) + i - 1 = d + i
      BY <2>1
    <3>. HIDE DEF t, d
    <3>. QED  BY <3>1, <3>2, <3>3
  <2>4. Paired(t)
    <3>. HIDE DEF t, d
    <3>. SUFFICES ASSUME NEW i \in DOMAIN t
                  PROVE  IF i % 2 = 1 THEN t[i].role = "user"
                         ELSE t[i].role = "assistant" /\ t[i].question = t[i - 1].question
      BY DEF Paired
    <3>1. i \in 1..n /\ d + i \in DOMAIN s /\ t[i] = s[d + i] /\ (d + i) % 2 = i % 2
      <4>1. DOMAIN t = 1..Len(t) /\ DOMAIN s = 1..Len(s)
        <5>. HIDE DEF Entries
        <5>. QED  BY <1>1, <2>3
      <4>2. i \in 1..n /\ i \in Nat
        BY <2>3, <4>1
      <4>3. d + i \in 1..Len(s)
        BY <1>1, <2>1, <4>2
      <4>4. (i + d) % 2 = i % 2 /\ i + d = d + i
        BY <2>1, <4>2, Parity
      <4>. QED  BY <2>3, <4>1, <4>2, <4>3, <4>4
    <3>2. IF (d + i) % 2 = 1 THEN s[d + i].role = "user"
          ELSE s[d + i].role = "assistant" /\ s[d + i].question = s[(d + i) - 1].question
      BY <1>1, <3>1 DEF Paired
    <3>3. i % 2 # 1 => i - 1 \in 1..n /\ t[i - 1] = s[(d + i) - 1]
      <4>1. i % 2 # 1 => i # 1
        OBVIOUS
      <4>2. i % 2 # 1 => i - 1 \in 1..n /\ d + (i - 1) = (d + i) - 1
        BY <2>1, <3>1, <4>1
      <4>. QED  BY <2>3, <4>2
    <3>. QED  BY <3>1, <3>2, <3>3
  <2>. QED  BY <1>3, <2>1, <2>3, <2>4 DEF Newest, Turns
<1>. QED  BY <1>2, <1>3

\* An answer makes a turn of a question.
LEMMA TurnsGrow ==
    ASSUME NEW s, Turns(s), NEW q \in Nat
    PROVE  /\ Turns(s \o <<Entry("user", q), Entry("assistant", q)>>)
           /\ Append(s, Entry("user", q)) \in Seq(Entries)
           /\ Paired(Append(s, Entry("user", q)))
<1>. DEFINE u == Entry("user", q)
            v == Entry("assistant", q)
            n == Len(s)
            t == s \o <<u, v>>
            o == Append(s, u)
<1>1. s \in Seq(Entries) /\ n \in Nat /\ n % 2 = 0 /\ DOMAIN s = 1..n /\ Paired(s)
  <2>. HIDE DEF Entries
  <2>. QED  BY DEF Turns
<1>2. /\ u \in Entries /\ v \in Entries /\ u.role = "user" /\ v.role = "assistant"
      /\ v.question = u.question
  BY DEF Entry, Entries
<1>3. /\ t \in Seq(Entries) /\ Len(t) = n + 2 /\ DOMAIN t = 1..(n + 2)
      /\ t[n + 1] = u /\ t[n + 2] = v /\ \A i \in 1..n : t[i] = s[i]
  <2>. HIDE DEF Entries, u, v
  <2>. QED  BY <1>1, <1>2
<1>4. /\ o \in Seq(Entries) /\ DOMAIN o = 1..(n + 1)
      /\ o[n + 1] = u /\ \A i \in 1..n : o[i] = s[i]
  <2>. HIDE DEF Entries, u, v
  <2>. QED  BY <1>1, <1>2
<1>5. /\ \A i \in 1..(n + 1) : i \in 1..n \/ i = n + 1
      /\ \A i \in 1..(n + 2) : i \in 1..n \/ i = n + 1 \/ i = n + 2
      /\ (n + 1) % 2 = 1 /\ (n + 2) % 2 = 0 /\ (n + 2) - 1 = n + 1
  BY <1>1, Parity
<1>6. \A i \in 1..n : IF i % 2 = 1 THEN s[i].role = "user"
                      ELSE /\ s[i].role = "assistant" /\ s[i].question = s[i - 1].question
                           /\ i - 1 \in 1..n
  <2>1. \A i \in 1..n : i % 2 # 1 => i - 1 \in 1..n
    BY <1>1
  <2>. QED  BY <1>1, <2>1 DEF Paired
<1>. HIDE DEF t, o, u, v
<1>7. Paired(o)
  BY <1>1, <1>2, <1>4, <1>5, <1>6 DEF Paired
<1>8. Paired(t)
  <2>. SUFFICES ASSUME NEW i \in DOMAIN t
                PROVE  IF i % 2 = 1 THEN t[i].role = "user"
                       ELSE t[i].role = "assistant" /\ t[i].question = t[i - 1].question
    BY DEF Paired
  <2>1. CASE i \in 1..n
    BY <1>3, <1>6, <2>1
  <2>2. CASE i = n + 1
    BY <1>2, <1>3, <1>5, <2>2
  <2>3. CASE i = n + 2
    BY <1>2, <1>3, <1>5, <2>3
  <2>. QED  BY <1>3, <1>5, <2>1, <2>2, <2>3
<1>9. Len(t) % 2 = 0
  BY <1>3, <1>5
<1>. QED  BY <1>3, <1>4, <1>7, <1>8, <1>9 DEF Turns, t, o, u, v

\* What one more message does to the talk.
LEMMA PanelGrows ==
    ASSUME NEW s \in Seq(PanelMessages), NEW m \in PanelMessages
    PROVE  LET n == Len(s)
               t == Append(s, m)
           IN  /\ t \in Seq(PanelMessages) /\ n + 1 \notin Talk(s)
               /\ Cardinality(Talk(s)) \in Nat
               /\ m.from = "welcome" => Talk(t) = Talk(s)
               /\ m.from # "welcome" =>
                      /\ Talk(t) = Talk(s) \cup {n + 1}
                      /\ Cardinality(Talk(t)) = Cardinality(Talk(s)) + 1
               /\ t[n + 1] = m /\ TalkBefore(t, n + 1) = Talk(s)
               /\ \A i \in Talk(s) : /\ t[i] = s[i] /\ i < n + 1
                                     /\ TalkBefore(t, i) = TalkBefore(s, i)
               /\ \A i \in Talk(s) : Cardinality(TalkBefore(s, i)) \in Nat
<1>. DEFINE n == Len(s)
            t == Append(s, m)
<1>1. /\ n \in Nat /\ DOMAIN s = 1..n /\ t \in Seq(PanelMessages) /\ DOMAIN t = 1..(n + 1)
      /\ t[n + 1] = m /\ \A i \in 1..n : t[i] = s[i]
  <2>. HIDE DEF PanelMessages
  <2>. QED  OBVIOUS
<1>. HIDE DEF t, n
<1>2. \A i \in 1..(n + 1) : i \in 1..n \/ i = n + 1
  BY <1>1
<1>3. Talk(s) \subseteq 1..n /\ n + 1 \notin Talk(s) /\ \A i \in Talk(s) : i < n + 1
  BY <1>1 DEF Talk
<1>4. /\ m.from = "welcome" => Talk(t) = Talk(s)
      /\ m.from # "welcome" => Talk(t) = Talk(s) \cup {n + 1}
  <2>1. 1..n \subseteq 1..(n + 1) /\ n + 1 \in 1..(n + 1)
    BY <1>1
  <2>2. \A i : i \in Talk(t) <=> i \in Talk(s) \/ (i = n + 1 /\ m.from # "welcome")
    BY <1>1, <1>2, <1>3, <2>1 DEF Talk
  <2>. QED  BY <2>2
<1>5. IsFiniteSet(Talk(s)) /\ Cardinality(Talk(s)) \in Nat
  <2>1. IsFiniteSet(1..n)
    BY <1>1, PositionsFinite
  <2>. QED  BY <1>3, <2>1, FS_Subset, FS_CardinalityType
<1>6. m.from # "welcome" => Cardinality(Talk(t)) = Cardinality(Talk(s)) + 1
  BY <1>3, <1>4, <1>5, FS_AddElement
<1>7. TalkBefore(t, n + 1) = Talk(s)
  <2>1. \A i \in Talk(t) : i < n + 1 <=> i \in Talk(s)
    BY <1>1, <1>3, <1>4
  <2>2. Talk(s) \subseteq Talk(t)
    BY <1>4
  <2>. QED  BY <2>1, <2>2 DEF TalkBefore
<1>8. \A i \in Talk(s) : t[i] = s[i] /\ TalkBefore(t, i) = TalkBefore(s, i)
  <2>. SUFFICES ASSUME NEW i \in Talk(s)
                PROVE  t[i] = s[i] /\ TalkBefore(t, i) = TalkBefore(s, i)
    OBVIOUS
  <2>1. ~(n + 1 < i)
    BY <1>1, <1>3
  <2>. QED  BY <1>1, <1>3, <1>4, <2>1 DEF TalkBefore
<1>9. \A i \in Talk(s) : Cardinality(TalkBefore(s, i)) \in Nat
  <2>1. \A i : TalkBefore(s, i) \subseteq Talk(s)
    BY DEF TalkBefore
  <2>. QED  BY <1>5, <2>1, FS_Subset, FS_CardinalityType
<1>. QED  BY <1>1, <1>3, <1>4, <1>5, <1>6, <1>7, <1>8, <1>9 DEF t, n

\* A welcome is no part of the talk.
LEMMA WelcomeShown ==
    ASSUME NEW s \in Seq(PanelMessages), NEW m \in PanelMessages, m.from = "welcome"
    PROVE  /\ Cardinality(Talk(Append(s, m))) = Cardinality(Talk(s))
           /\ Answering(s) => Answering(Append(s, m))
           /\ \A q : Waits(s, q) => Waits(Append(s, m), q)
<1>. DEFINE t == Append(s, m)
<1>1. Talk(t) = Talk(s) /\ \A i \in Talk(s) : t[i] = s[i] /\ TalkBefore(t, i) = TalkBefore(s, i)
  <2>. HIDE DEF PanelMessages
  <2>. QED  BY PanelGrows
<1>. HIDE DEF t
<1>2. \A i \in Talk(s) : TalkBefore(s, i) \subseteq Talk(s)
  BY DEF TalkBefore
<1>3. Answering(s) => Answering(t)
  BY <1>1, <1>2 DEF Answering
<1>4. \A q : Waits(s, q) => Waits(t, q)
  BY <1>1 DEF Waits
<1>. QED  BY <1>1, <1>3, <1>4 DEF t

\* A question that nothing waits before is the one that waits.
LEMMA QuestionShown ==
    ASSUME NEW s \in Seq(PanelMessages), NEW m \in UserMessages,
           Answering(s), Cardinality(Talk(s)) % 2 = 0
    PROVE  /\ Append(s, m) \in Seq(PanelMessages)
           /\ Answering(Append(s, m)) /\ Waits(Append(s, m), m.question)
<1>. DEFINE t == Append(s, m)
            n == Len(s)
<1>1. m \in PanelMessages /\ m.from = "user"
  BY DEF PanelMessages, UserMessages
<1>2. /\ t \in Seq(PanelMessages) /\ Cardinality(Talk(s)) \in Nat
      /\ Talk(t) = Talk(s) \cup {n + 1}
      /\ Cardinality(Talk(t)) = Cardinality(Talk(s)) + 1
      /\ t[n + 1] = m /\ TalkBefore(t, n + 1) = Talk(s)
      /\ \A i \in Talk(s) : t[i] = s[i] /\ TalkBefore(t, i) = TalkBefore(s, i) /\ i < n + 1
  <2>1. m.from # "welcome"
    BY <1>1
  <2>. HIDE DEF PanelMessages, UserMessages
  <2>. QED  BY <1>1, <2>1, PanelGrows
<1>3. n \in Nat /\ Talk(s) \subseteq Nat
  <2>. HIDE DEF PanelMessages, UserMessages
  <2>. QED  BY DEF Talk
<1>. HIDE DEF t, n
<1>4. \A i \in Talk(s) : TalkBefore(s, i) \subseteq Talk(s)
  BY DEF TalkBefore
<1>5. Answering(t)
  <2>. SUFFICES ASSUME NEW i \in Talk(t)
                PROVE  IF Cardinality(TalkBefore(t, i)) % 2 = 0 THEN t[i].from = "user"
                       ELSE /\ t[i].from = "bot" /\ t[i].badge = t[i].source
                            /\ \E j \in TalkBefore(t, i) :
                                  /\ \A k \in TalkBefore(t, i) : k <= j
                                  /\ t[j].question = t[i].question
    BY DEF Answering
  <2>1. CASE i = n + 1
    BY <1>1, <1>2, <2>1
  <2>2. CASE i \in Talk(s)
    BY <1>2, <1>4, <2>2 DEF Answering
  <2>. QED  BY <1>2, <2>1, <2>2
<1>6. Waits(t, m.question)
  <2>1. Cardinality(Talk(t)) % 2 = 1
    BY <1>2, Parity
  <2>2. n + 1 \in Talk(t) /\ \A k \in Talk(t) : k <= n + 1
    BY <1>2, <1>3
  <2>. QED  BY <1>2, <2>1, <2>2 DEF Waits
<1>. QED  BY <1>2, <1>5, <1>6 DEF t

\* An answer to the question that waits.
LEMMA AnswerShown ==
    ASSUME NEW s \in Seq(PanelMessages), NEW m \in BotMessages,
           Answering(s), Waits(s, m.question), m.badge = m.source
    PROVE  /\ Append(s, m) \in Seq(PanelMessages)
           /\ Answering(Append(s, m)) /\ Cardinality(Talk(Append(s, m))) % 2 = 0
<1>. DEFINE t == Append(s, m)
            n == Len(s)
<1>1. m \in PanelMessages /\ m.from = "bot"
  BY DEF PanelMessages, BotMessages
<1>2. /\ t \in Seq(PanelMessages) /\ Cardinality(Talk(s)) \in Nat
      /\ Talk(t) = Talk(s) \cup {n + 1}
      /\ Cardinality(Talk(t)) = Cardinality(Talk(s)) + 1
      /\ t[n + 1] = m /\ TalkBefore(t, n + 1) = Talk(s)
      /\ \A i \in Talk(s) : t[i] = s[i] /\ TalkBefore(t, i) = TalkBefore(s, i)
  <2>1. m.from # "welcome"
    BY <1>1
  <2>. HIDE DEF PanelMessages, BotMessages
  <2>. QED  BY <1>1, <2>1, PanelGrows
<1>. HIDE DEF t, n
<1>3. \A i \in Talk(s) : TalkBefore(s, i) \subseteq Talk(s)
  BY DEF TalkBefore
<1>4. PICK j \in Talk(s) : (\A k \in Talk(s) : k <= j) /\ s[j].question = m.question
  BY DEF Waits
<1>5. Cardinality(Talk(s)) % 2 = 1
  BY DEF Waits
<1>6. Answering(t)
  <2>. SUFFICES ASSUME NEW i \in Talk(t)
                PROVE  IF Cardinality(TalkBefore(t, i)) % 2 = 0 THEN t[i].from = "user"
                       ELSE /\ t[i].from = "bot" /\ t[i].badge = t[i].source
                            /\ \E l \in TalkBefore(t, i) :
                                  /\ \A k \in TalkBefore(t, i) : k <= l
                                  /\ t[l].question = t[i].question
    BY DEF Answering
  <2>1. CASE i = n + 1
    <3>1. /\ t[i] = m /\ TalkBefore(t, i) = Talk(s) /\ j \in TalkBefore(t, i)
          /\ t[j].question = m.question /\ \A k \in TalkBefore(t, i) : k <= j
      BY <1>2, <1>4, <2>1
    <3>. QED  BY <1>1, <1>5, <3>1
  <2>2. CASE i \in Talk(s)
    <3>1. /\ t[i] = s[i] /\ TalkBefore(t, i) = TalkBefore(s, i)
          /\ \A l \in TalkBefore(t, i) : t[l] = s[l]
      BY <1>2, <1>3, <2>2
    <3>2. CASE Cardinality(TalkBefore(s, i)) % 2 = 0
      BY <2>2, <3>1, <3>2 DEF Answering
    <3>3. CASE Cardinality(TalkBefore(s, i)) % 2 # 0
      <4>1. PICK l \in TalkBefore(s, i) : /\ \A k \in TalkBefore(s, i) : k <= l
                                          /\ s[l].question = s[i].question
        BY <2>2, <3>3 DEF Answering
      <4>2. s[i].from = "bot" /\ s[i].badge = s[i].source
        BY <2>2, <3>3 DEF Answering
      <4>. QED  BY <3>1, <3>3, <4>1, <4>2
    <3>. QED  BY <3>2, <3>3
  <2>. QED  BY <1>2, <2>1, <2>2
<1>7. Cardinality(Talk(t)) % 2 = 0
  BY <1>2, <1>5, Parity
<1>. QED  BY <1>2, <1>6, <1>7 DEF t

\* What the worker passes on of whole turns, with a question at the end.
LEMMA MessagesPaired ==
    ASSUME NEW s, Turns(s), NEW q \in Nat
    PROVE  LET m == Messages(Newest(s, ClientTurns), q)
           IN  m \in Seq(Entries) /\ Paired(m)
<1>1. Turns(Newest(s, ClientTurns))
  BY AssistantConstants, NewestTurns
<1>2. Turns(Newest(Newest(s, ClientTurns), WorkerTurns))
  BY <1>1, AssistantConstants, NewestTurns
<1>. QED  BY <1>2, TurnsGrow DEF Messages

\* A call that begins.
LEMMA AskBegins ==
    ASSUME asking \in [Asks -> {NoAsk} \cup AskRecords], Turns(chat.history),
           NEW a \in Asks, NEW q \in Nat, NEW panel \in BOOLEAN, Ask(a, q, panel)
    PROVE  /\ asking' \in [Asks -> {NoAsk} \cup AskRecords]
           /\ asking'[a] \in AskRecords /\ Paired(asking'[a].messages)
           /\ asking'[a].panel = panel /\ asking'[a].question = q
           /\ \A b \in Asks : b # a => asking'[b] = asking[b]
<1>. DEFINE m == Messages(Newest(chat.history, ClientTurns), q)
            r == [at |-> "wait", question |-> q, panel |-> panel, messages |-> m]
<1>1. m \in Seq(Entries) /\ Paired(m)
  BY MessagesPaired
<1>2. asking' = [asking EXCEPT ![a] = r]
  BY DEF Ask
<1>. HIDE DEF m
<1>3. r \in AskRecords /\ r.messages = m /\ r.panel = panel /\ r.question = q
  <2>. HIDE DEF Entries
  <2>. QED  BY <1>1 DEF AskRecords
<1>. HIDE DEF r
<1>. QED  BY <1>1, <1>2, <1>3

\* A question that is asked keeps the invariant: it is shown last, and the panel waits.
LEMMA SendKeepsInv ==
    ASSUME AssistantInv, NEW a \in Asks, SendMessage(a)
    PROVE  AssistantInv'
<1>. DEFINE q == chat.questions + 1
            m == [from |-> "user", question |-> q]
<1>1. /\ chat \in Chats /\ Turns(chat.history)
      /\ asking \in [Asks -> {NoAsk} \cup AskRecords]
      /\ \A b \in Asks : AskOK(b)
      /\ Answering(chat.shown) /\ ~chat.sending /\ asking[a] = NoAsk
      /\ Cardinality(Talk(chat.shown)) % 2 # 1
  BY DEF AssistantInv, SendMessage
<1>2. /\ q \in Nat /\ m \in UserMessages /\ m.question = q /\ chat.shown \in Seq(PanelMessages)
  <2>. HIDE DEF PanelMessages, Entries
  <2>. QED  BY <1>1 DEF Chats, UserMessages
<1>3. Cardinality(Talk(chat.shown)) % 2 = 0
  <2>1. IsFiniteSet(Talk(chat.shown))
    <3>1. Len(chat.shown) \in Nat /\ DOMAIN chat.shown = 1..Len(chat.shown)
      <4>. HIDE DEF PanelMessages
      <4>. QED  BY <1>2
    <3>2. IsFiniteSet(1..Len(chat.shown))
      BY <3>1, PositionsFinite
    <3>3. Talk(chat.shown) \subseteq 1..Len(chat.shown)
      BY <3>1 DEF Talk
    <3>. QED  BY <3>2, <3>3, FS_Subset
  <2>. QED  BY <1>1, <2>1, FS_CardinalityType, Parity
<1>4. chat' = [chat EXCEPT !.questions = q, !.sending = TRUE, !.shown = Append(@, m)]
      /\ Ask(a, q, TRUE)
  BY DEF SendMessage
<1>. HIDE DEF q, m
<1>5. /\ Append(chat.shown, m) \in Seq(PanelMessages)
      /\ Answering(Append(chat.shown, m)) /\ Waits(Append(chat.shown, m), q)
  BY <1>1, <1>2, <1>3, QuestionShown
<1>6. /\ chat' \in Chats /\ chat'.history = chat.history /\ chat'.sending = TRUE
      /\ chat'.shown = Append(chat.shown, m)
  <2>. HIDE DEF PanelMessages, Entries
  <2>. QED  BY <1>1, <1>2, <1>4, <1>5 DEF Chats
<1>7. /\ asking' \in [Asks -> {NoAsk} \cup AskRecords]
      /\ asking'[a] \in AskRecords /\ Paired(asking'[a].messages)
      /\ asking'[a].panel = TRUE /\ asking'[a].question = q
      /\ \A b \in Asks : b # a => asking'[b] = asking[b]
  BY <1>1, <1>2, <1>4, AskBegins
<1>8. \A b \in Asks : ~OnPanel(b)
  BY <1>1 DEF AskOK, OnPanel
<1>9. \A b \in Asks : b # a => ~OnPanel(b)'
  BY <1>7, <1>8 DEF OnPanel
<1>10. \A b \in Asks : AskOK(b)'
  <2>. SUFFICES ASSUME NEW b \in Asks PROVE AskOK(b)'
    OBVIOUS
  <2>1. CASE b = a
    BY <1>5, <1>6, <1>7, <2>1 DEF AskOK
  <2>2. CASE b # a
    BY <1>1, <1>7, <1>9, <2>2 DEF AskOK, OnPanel
  <2>. QED  BY <2>1, <2>2
<1>11. (chat.sending <=> Cardinality(Talk(chat.shown)) % 2 = 1)'
  BY <1>5, <1>6 DEF Waits
<1>. QED  BY <1>1, <1>5, <1>6, <1>7, <1>9, <1>10, <1>11 DEF AssistantInv

\* So does the request that goes out with it, whose history is of whole turns.
LEMMA CallKeepsInv ==
    ASSUME AssistantInv, NEW a \in Asks, CallFindAnswer(a)
    PROVE  AssistantInv'
<1>. DEFINE q == chat.questions + 1
<1>1. /\ chat \in Chats /\ Turns(chat.history)
      /\ asking \in [Asks -> {NoAsk} \cup AskRecords]
      /\ \A b \in Asks : AskOK(b)
      /\ asking[a] = NoAsk
  BY DEF AssistantInv, CallFindAnswer
<1>2. q \in Nat
  <2>. HIDE DEF PanelMessages, Entries
  <2>. QED  BY <1>1 DEF Chats
<1>3. chat' = [chat EXCEPT !.questions = q] /\ Ask(a, q, FALSE)
  BY DEF CallFindAnswer
<1>. HIDE DEF q
<1>4. /\ chat' \in Chats /\ chat'.history = chat.history /\ chat'.sending = chat.sending
      /\ chat'.shown = chat.shown
  <2>. HIDE DEF PanelMessages, Entries
  <2>. QED  BY <1>1, <1>2, <1>3 DEF Chats
<1>5. /\ asking' \in [Asks -> {NoAsk} \cup AskRecords]
      /\ asking'[a] \in AskRecords /\ Paired(asking'[a].messages)
      /\ asking'[a].panel = FALSE
      /\ \A b \in Asks : b # a => asking'[b] = asking[b]
  BY <1>1, <1>2, <1>3, AskBegins
<1>6. \A b \in Asks : OnPanel(b)' => OnPanel(b)
  BY <1>5 DEF OnPanel
<1>7. \A b \in Asks : AskOK(b)'
  <2>. SUFFICES ASSUME NEW b \in Asks PROVE AskOK(b)'
    OBVIOUS
  <2>1. CASE b = a
    BY <1>5, <2>1 DEF AskOK
  <2>2. CASE b # a
    BY <1>1, <1>4, <1>5, <2>2 DEF AskOK
  <2>. QED  BY <2>1, <2>2
<1>. QED  BY <1>1, <1>4, <1>5, <1>6, <1>7 DEF AssistantInv

\* A call that ends: what it did to the conversation before does not matter.
LEMMA AnswerKeepsInv ==
    ASSUME AssistantInv, NEW a \in Asks, asking[a] # NoAsk,
           NEW c \in Chats, Turns(c.history), c.shown = chat.shown, c.sending = chat.sending,
           NEW source \in Badges, c.available <=> source = "model",
           chat' = Answered(c, asking[a], source), asking' = [asking EXCEPT ![a] = NoAsk]
    PROVE  AssistantInv'
<1>. DEFINE m == Bot(c, asking[a].question, source)
<1>1. /\ asking \in [Asks -> {NoAsk} \cup AskRecords]
      /\ \A b \in Asks : AskOK(b)
      /\ \A b \in Asks : OnPanel(a) /\ OnPanel(b) => a = b
      /\ \A b, d \in Asks : OnPanel(b) /\ OnPanel(d) => b = d
      /\ Answering(chat.shown)
      /\ chat.sending <=> Cardinality(Talk(chat.shown)) % 2 = 1
  BY DEF AssistantInv
<1>2. /\ asking' \in [Asks -> {NoAsk} \cup AskRecords] /\ asking'[a] = NoAsk
      /\ \A b \in Asks : b # a => asking'[b] = asking[b]
  BY <1>1
<1>3. asking[a] \in AskRecords
  BY <1>1 DEF AskOK
<1>4. m \in BotMessages /\ m.badge = m.source /\ m.question = asking[a].question
  BY <1>3 DEF BotMessages, Bot, Badges, AskRecords
<1>. HIDE DEF m
<1>5. \A b \in Asks : OnPanel(b)' => OnPanel(b) /\ b # a
  BY <1>2 DEF OnPanel
<1>6. CASE asking[a].panel
  <2>1. Waits(c.shown, m.question) /\ OnPanel(a) /\ Answering(c.shown)
    BY <1>1, <1>4, <1>6 DEF AskOK, OnPanel
  <2>2. c.shown \in Seq(PanelMessages)
    <3>. HIDE DEF PanelMessages, Entries
    <3>. QED  BY DEF Chats
  <2>3. /\ Append(c.shown, m) \in Seq(PanelMessages) /\ Answering(Append(c.shown, m))
        /\ Cardinality(Talk(Append(c.shown, m))) % 2 = 0
    BY <1>4, <2>1, <2>2, AnswerShown
  <2>4. chat' = [c EXCEPT !.shown = Append(@, m), !.sending = FALSE]
    BY <1>6 DEF Answered, m
  <2>5. /\ chat' \in Chats /\ chat'.history = c.history /\ chat'.sending = FALSE
        /\ chat'.shown = Append(c.shown, m)
    <3>. HIDE DEF PanelMessages, Entries
    <3>. QED  BY <2>3, <2>4 DEF Chats
  <2>6. \A b \in Asks : ~OnPanel(b)'
    BY <1>1, <1>5, <2>1
  <2>7. \A b \in Asks : AskOK(b)'
    BY <1>1, <1>2, <2>6 DEF AskOK, OnPanel
  <2>8. (chat.sending <=> Cardinality(Talk(chat.shown)) % 2 = 1)'
    BY <2>3, <2>5
  <2>. QED  BY <1>2, <2>3, <2>5, <2>6, <2>7, <2>8 DEF AssistantInv
<1>7. CASE ~asking[a].panel
  <2>1. chat' = c
    BY <1>7 DEF Answered
  <2>2. \A b \in Asks : AskOK(b)'
    BY <1>1, <1>2, <2>1 DEF AskOK
  <2>3. \A b, d \in Asks : OnPanel(b)' /\ OnPanel(d)' => b = d
    BY <1>1, <1>5
  <2>. QED  BY <1>1, <1>2, <2>1, <2>2, <2>3 DEF AssistantInv
<1>. QED  BY <1>6, <1>7

\* Every step of the assistant keeps the invariant.
LEMMA AssistantNextInv == AssistantInv /\ [AssistantNext]_assistantVars => AssistantInv'
<1>. SUFFICES ASSUME AssistantInv, [AssistantNext]_assistantVars PROVE AssistantInv'
  OBVIOUS
<1>1. /\ chat \in Chats /\ Turns(chat.history) /\ chat.shown \in Seq(PanelMessages)
      /\ asking \in [Asks -> {NoAsk} \cup AskRecords]
      /\ \A b \in Asks : AskOK(b)
      /\ \A b, d \in Asks : OnPanel(b) /\ OnPanel(d) => b = d
      /\ Answering(chat.shown)
      /\ chat.sending <=> Cardinality(Talk(chat.shown)) % 2 = 1
  <2>. HIDE DEF PanelMessages, Entries
  <2>. QED  BY DEF AssistantInv, Chats
<1>2. ASSUME NEW a \in Asks, SendMessage(a) PROVE AssistantInv'
  BY <1>2, SendKeepsInv
<1>3. ASSUME NEW a \in Asks, CallFindAnswer(a) PROVE AssistantInv'
  BY <1>3, CallKeepsInv
<1>4. ASSUME NEW a \in Asks, AskSucceeds(a) PROVE AssistantInv'
  <2>. DEFINE there == [chat EXCEPT !.available = TRUE]
              q == asking[a].question
              all == Remember(there, q)
  <2>1. asking[a] # NoAsk /\ asking' = [asking EXCEPT ![a] = NoAsk] /\ q \in Nat
    BY <1>1, <1>4 DEF AskSucceeds, AskOK, AskRecords
  <2>2. /\ there \in Chats /\ there.history = chat.history /\ there.shown = chat.shown
        /\ there.sending = chat.sending /\ there.available = TRUE
    <3>. HIDE DEF PanelMessages, Entries
    <3>. QED  BY <1>1 DEF Chats
  <2>. HIDE DEF there, q
  <2>3. Turns(there.history \o <<Entry("user", q), Entry("assistant", q)>>)
    BY <1>1, <2>1, <2>2, TurnsGrow
  <2>4. /\ all \in Chats /\ Turns(all.history) /\ all.shown = chat.shown
        /\ all.sending = chat.sending /\ all.available = TRUE
    <3>. DEFINE h == there.history \o <<Entry("user", q), Entry("assistant", q)>>
    <3>1. h \in Seq(Entries)
      BY <2>3 DEF Turns
    <3>2. all = [there EXCEPT !.history = h]
      BY DEF Remember
    <3>. HIDE DEF h, all
    <3>3. all \in Chats /\ all.history = h /\ all.shown = there.shown
          /\ all.sending = there.sending /\ all.available = there.available
      <4>. HIDE DEF PanelMessages, Entries
      <4>. QED  BY <2>2, <3>1, <3>2 DEF Chats
    <3>. QED  BY <2>2, <2>3, <3>3 DEF h
\* A reply is never empty: the worker says so in words.
  <2>5. chat' = Answered(all, asking[a], "model")
    BY <1>4 DEF AskSucceeds, Reply, there, q
  <2>6. "model" \in Badges
    BY DEF Badges
  <2>. HIDE DEF all
  <2>. QED  BY <2>1, <2>4, <2>5, <2>6, AnswerKeepsInv
<1>5. ASSUME NEW a \in Asks, AskFails(a) PROVE AssistantInv'
  <2>. DEFINE c == [chat EXCEPT !.available = FALSE]
  <2>1. /\ asking[a] # NoAsk /\ asking' = [asking EXCEPT ![a] = NoAsk]
        /\ chat' = Answered(c, asking[a], "knowledge base")
    BY <1>5 DEF AskFails
  <2>2. /\ c \in Chats /\ c.history = chat.history /\ c.shown = chat.shown
        /\ c.sending = chat.sending /\ c.available = FALSE
    <3>. HIDE DEF PanelMessages, Entries
    <3>. QED  BY <1>1 DEF Chats
  <2>3. "knowledge base" \in Badges /\ "knowledge base" # "model"
    BY DEF Badges
  <2>. HIDE DEF c
  <2>. QED  BY <1>1, <2>1, <2>2, <2>3, AnswerKeepsInv
\* Only the conversation, the flag and what is due change, or nothing.
<1>6. ASSUME chat' \in Chats, Turns(chat'.history), chat'.shown = chat.shown,
             chat'.sending = chat.sending, asking' = asking
      PROVE  AssistantInv'
  BY <1>1, <1>6 DEF AssistantInv, AskOK, OnPanel
<1>7. ASSUME HealthAnswers PROVE AssistantInv'
  <2>1. PICK there \in BOOLEAN :
            chat' = [chat EXCEPT !.available = there, !.due = @ \ {"health"}]
    BY <1>7 DEF HealthAnswers
  <2>2. /\ chat' \in Chats /\ chat'.history = chat.history /\ chat'.shown = chat.shown
        /\ chat'.sending = chat.sending
    <3>. HIDE DEF PanelMessages, Entries
    <3>. QED  BY <1>1, <2>1 DEF Chats
  <2>. QED  BY <1>1, <1>6, <1>7, <2>2 DEF HealthAnswers
<1>8. ASSUME Welcome PROVE AssistantInv'
  <2>. DEFINE m == [from |-> "welcome"]
              t == Append(chat.shown, m)
  <2>1. m \in PanelMessages /\ m.from = "welcome"
    BY DEF PanelMessages
  <2>2. chat' = [chat EXCEPT !.shown = Append(@, m), !.due = @ \ {"welcome"}]
        /\ asking' = asking
    BY <1>8 DEF Welcome
  <2>. HIDE DEF m
  <2>3. /\ Cardinality(Talk(t)) = Cardinality(Talk(chat.shown)) /\ Answering(t)
        /\ \A q : Waits(chat.shown, q) => Waits(t, q)
    BY <1>1, <2>1, WelcomeShown
  <2>4. t \in Seq(PanelMessages)
    <3>. HIDE DEF PanelMessages
    <3>. QED  BY <1>1, <2>1
  <2>5. /\ chat' \in Chats /\ chat'.history = chat.history /\ chat'.shown = t
        /\ chat'.sending = chat.sending
    <3>. HIDE DEF PanelMessages, Entries, t
    <3>1. chat' = [chat EXCEPT !.shown = t, !.due = @ \ {"welcome"}]
      BY <2>2 DEF t
    <3>. QED  BY <1>1, <2>4, <3>1 DEF Chats
  <2>. HIDE DEF t
  <2>6. \A b \in Asks : AskOK(b)'
    BY <1>1, <2>2, <2>3, <2>5 DEF AskOK
  <2>. QED  BY <1>1, <2>2, <2>3, <2>5, <2>6 DEF AssistantInv, OnPanel
<1>9. ASSUME ClearHistory PROVE AssistantInv'
  <2>1. /\ chat' \in Chats /\ chat'.history = <<>> /\ chat'.shown = chat.shown
        /\ chat'.sending = chat.sending
    <3>1. chat' = [chat EXCEPT !.history = <<>>]
      BY <1>9 DEF ClearHistory
    <3>2. <<>> \in Seq(Entries)
      OBVIOUS
    <3>. HIDE DEF PanelMessages, Entries
    <3>. QED  BY <1>1, <3>1, <3>2 DEF Chats
  <2>2. Turns(<<>>)
    BY DEF Turns, Paired
  <2>. QED  BY <1>1, <1>6, <1>9, <2>1, <2>2 DEF ClearHistory
<1>10. ASSUME UNCHANGED assistantVars PROVE AssistantInv'
  BY <1>1, <1>6, <1>10 DEF assistantVars
<1>. QED  BY <1>2, <1>3, <1>4, <1>5, <1>7, <1>8, <1>9, <1>10 DEF AssistantNext

\* It holds before the first question.
LEMMA AssistantInitInv == AssistantInit => AssistantInv
<1>. SUFFICES ASSUME AssistantInit PROVE AssistantInv
  OBVIOUS
<1>1. chat = [history |-> <<>>, available |-> FALSE, sending |-> FALSE, shown |-> <<>>,
              due |-> {"health", "welcome"}, questions |-> 0]
      /\ asking = [a \in Asks |-> NoAsk]
  BY DEF AssistantInit
<1>2. chat \in Chats /\ chat.history = <<>> /\ chat.shown = <<>> /\ ~chat.sending
  <2>. HIDE DEF PanelMessages, Entries
  <2>. QED  BY <1>1 DEF Chats
<1>3. Turns(<<>>)
  BY DEF Turns, Paired
<1>4. Talk(<<>>) = {} /\ Answering(<<>>)
  BY DEF Talk, Answering
<1>5. Cardinality({}) = 0 /\ 0 % 2 # 1
  BY FS_EmptySet
<1>6. asking \in [Asks -> {NoAsk} \cup AskRecords] /\ \A a \in Asks : asking[a] = NoAsk
  BY <1>1
<1>. QED  BY <1>2, <1>3, <1>4, <1>5, <1>6 DEF AssistantInv, AskOK, OnPanel

\* It implies what is checked of the assistant.
LEMMA AssistantSafe == AssistantInv => ConversationIsPaired /\ PanelIsHonest
<1>. SUFFICES ASSUME AssistantInv PROVE ConversationIsPaired /\ PanelIsHonest
  OBVIOUS
<1>1. ConversationIsPaired
  BY DEF AssistantInv, AskOK, ConversationIsPaired
<1>2. PanelIsHonest
  BY DEF AssistantInv, Answering, Talk, TalkBefore, PanelIsHonest
<1>. QED  BY <1>1, <1>2

\* What the screens show is true, whatever is inserted or deleted behind them.  A walk over
\* a paged list misses no row that was there and stays, unless it ends at a total that was
\* counted before the page.  A text that is left alone is read from its start, without a
\* gap, and up to its last full stop.  Conversations alternate, and the panel answers each
\* question before it takes the next, with the source that the answer has
\* (operator.ts:108-551, x407-voice.js:136-331, x407-assistant.js:84-277).
THEOREM ScreensStayHonest == EdgeSpec => []ScreensAreHonest
<1>1. EdgeInit => OperatorInv /\ VoiceInv /\ AssistantInv
  BY OperatorInitInv, VoiceInitInv, AssistantInitInv DEF EdgeInit
<1>2. OperatorInv /\ VoiceInv /\ AssistantInv /\ [EdgeNext]_edgeVars
      => OperatorInv' /\ VoiceInv' /\ AssistantInv'
  BY OperatorNextInv, VoiceNextInv, AssistantNextInv, EachByItself
<1>3. OperatorInv /\ VoiceInv /\ AssistantInv => ScreensAreHonest
  BY OperatorSafe, VoiceSafe, AssistantSafe DEF ScreensAreHonest
<1>. QED  BY <1>1, <1>2, <1>3, PTL DEF EdgeSpec
=============================================================================
