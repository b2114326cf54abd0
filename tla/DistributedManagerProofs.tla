---------------------- MODULE DistributedManagerProofs ----------------------
(***************************************************************************)
(* For any communicators, any numbers and any word size, a careful caller  *)
(* leaves the manager with groups that fit the communicator, a root that   *)
(* is a master, somebody to do the work, and the groups asked for.         *)
(***************************************************************************)
EXTENDS DistributedManager, FiniteSetTheorems, TLAPS

Disciplined == Liberties = {}

-----------------------------------------------------------------------------
(***************************************************************************)
(* distributed_build_groups.                                               *)
(***************************************************************************)

\* Arithmetic of %, stated once for the solver.
LEMMA ModFacts ==
  ASSUME NEW x \in Nat, NEW w \in Nat \ {0}
  PROVE  x % w \in 0..(w - 1) /\ (x < w => x % w = x)
  OBVIOUS

\* A list in which the first m ranks are masters and the next w fill a group each.
Filled(g, size, w, m) ==
  /\ g \in [Ranks(size) -> 0..w]
  /\ \A i \in Ranks(size) : g[i] = 0 <=> i < m
  /\ \A k \in 1..w : m + k - 1 \in Ranks(size) /\ g[m + k - 1] = k

\* The masters come first, and every group is filled by the ranks that follow.
LEMMA AssignedGroups ==
  ASSUME NEW size \in Nat \ {0}, NEW w \in Nat \ {0}, NEW m \in Nat \ {0}, w + m <= size
  PROVE  Filled(Assigned(size, w, m), size, w, m)
<1> DEFINE A == Assigned(size, w, m)
<1>1. A = [i \in Ranks(size) |-> IF i < m THEN 0 ELSE ((i - m) % w) + 1]
  BY DEF Assigned, Masters, WorkerGroups, LastWorker, Ranks
<1>2. ASSUME NEW i \in Ranks(size), i >= m
      PROVE  A[i] \in 1..w /\ A[i] = ((i - m) % w) + 1
  <2>1. i - m \in Nat
    BY <1>2 DEF Ranks
  <2>2. (i - m) % w \in 0..(w - 1)
    BY <2>1, ModFacts
  <2>3. A[i] = ((i - m) % w) + 1
    BY <1>1, <1>2 DEF Ranks
  <2> QED BY <2>2, <2>3
<1>3. \A i \in Ranks(size) : i < m => A[i] = 0
  BY <1>1
<1>4. ASSUME NEW k \in 1..w
      PROVE  m + k - 1 \in Ranks(size) /\ A[m + k - 1] = k
  <2>1. m + k - 1 \in Ranks(size) /\ m + k - 1 >= m /\ m + k - 1 - m = k - 1
    BY DEF Ranks
  <2>2. (k - 1) % w = k - 1
    <3>1. k - 1 \in Nat /\ k - 1 < w
      OBVIOUS
    <3> QED BY <3>1, ModFacts
  <2>3. A[m + k - 1] = ((k - 1) % w) + 1
    BY <2>1, <1>2
  <2> QED BY <2>1, <2>2, <2>3
<1>5. \A i \in Ranks(size) : A[i] \in 0..w /\ (A[i] = 0 <=> i < m)
  BY <1>2, <1>3 DEF Ranks
<1>6. A \in [Ranks(size) -> 0..w]
  BY <1>1, <1>5
<1> QED BY <1>4, <1>5, <1>6 DEF Filled

\* Trading places keeps the groups there are.
LEMMA SwapKeeps ==
  ASSUME NEW size \in Nat \ {0}, NEW w \in Nat, NEW g \in [Ranks(size) -> 0..w],
         NEW r \in Ranks(size), g[0] = 0
  PROVE  /\ SwapRoot(g, r) \in [Ranks(size) -> 0..w]
         /\ SwapRoot(g, r)[r] = 0
         /\ GroupIds(SwapRoot(g, r)) = GroupIds(g)
         /\ InGroup(SwapRoot(g, r), 0) =
              IF g[r] = 0 THEN InGroup(g, 0) ELSE (InGroup(g, 0) \ {0}) \cup {r}
<1> DEFINE h == SwapRoot(g, r)
<1>0. 0 \in Ranks(size)
  BY DEF Ranks
<1>1. /\ h \in [Ranks(size) -> 0..w]
      /\ h[r] = 0
      /\ h[0] = g[r]
      /\ \A i \in Ranks(size) \ {0, r} : h[i] = g[i]
  BY <1>0 DEF SwapRoot
<1>2. GroupIds(h) = GroupIds(g)
  <2>1. DOMAIN h = Ranks(size) /\ DOMAIN g = Ranks(size)
    BY <1>1
  <2>2. ASSUME NEW i \in Ranks(size), h[i] # 0 PROVE \E j \in Ranks(size) : g[j] = h[i]
    BY <1>1, <2>2
  <2>3. ASSUME NEW i \in Ranks(size), g[i] # 0 PROVE \E j \in Ranks(size) : h[j] = g[i]
    BY <1>0, <1>1, <2>3
  <2> HIDE DEF h
  <2>4. ASSUME NEW k \in GroupIds(h) PROVE k \in GroupIds(g)
    <3>1. PICK i \in Ranks(size) : h[i] = k /\ k # 0
      BY <2>1 DEF GroupIds
    <3>2. PICK j \in Ranks(size) : g[j] = k
      BY <2>2, <3>1
    <3> QED BY <2>1, <3>1, <3>2 DEF GroupIds
  <2>5. ASSUME NEW k \in GroupIds(g) PROVE k \in GroupIds(h)
    <3>1. PICK i \in Ranks(size) : g[i] = k /\ k # 0
      BY <2>1 DEF GroupIds
    <3>2. PICK j \in Ranks(size) : h[j] = k
      BY <2>3, <3>1
    <3> QED BY <2>1, <3>1, <3>2 DEF GroupIds
  <2> QED BY <2>4, <2>5
<1>3. InGroup(h, 0) = IF g[r] = 0 THEN InGroup(g, 0) ELSE (InGroup(g, 0) \ {0}) \cup {r}
  <2>1. DOMAIN h = Ranks(size) /\ DOMAIN g = Ranks(size)
    BY <1>1
  <2> HIDE DEF h
  <2>2. CASE g[r] = 0
    BY <1>0, <1>1, <2>1, <2>2 DEF InGroup
  <2>3. CASE g[r] # 0
    BY <1>0, <1>1, <2>1, <2>3 DEF InGroup
  <2> QED BY <2>2, <2>3
<1> QED BY <1>1, <1>2, <1>3

\* The next ranks of a round are dealt to the next groups.
LEMMA RoundFact ==
  ASSUME NEW x \in Nat, NEW w \in Nat \ {0}, NEW d \in Int, (x % w) + d \in 0..(w - 1), x + d \in Nat
  PROVE  (x + d) % w = (x % w) + d
OBVIOUS

\* A round later the same group is dealt to.
LEMMA RoundLater == ASSUME NEW x \in Nat, NEW w \in Nat \ {0}, x - w \in Nat PROVE (x - w) % w = x % w
<1>1. x = w * (x \div w) + (x % w) /\ x \div w \in Int /\ x % w \in 0..(w - 1)
  OBVIOUS
<1>2. PICK q \in Int, r \in 0..(w - 1) : x = w * q + r /\ x % w = r
  BY <1>1
<1>3. x - w = w * (q - 1) + r
  BY <1>2
<1>4. PICK p \in Int : p = q - 1
  OBVIOUS
<1>5. (w * p + r) % w = r
  OBVIOUS
<1> QED BY <1>2, <1>3, <1>4, <1>5

\* A rank of group j but its first has one of group k dealt just before it, or after.
Before(w, j, k) == IF k > j THEN k - j - w ELSE k - j
LEMMA RankBefore ==
  ASSUME NEW x \in Nat, NEW w \in Nat \ {0}, NEW j \in Nat \ {0}, NEW k \in Nat \ {0}, j <= w, k <= w,
         x % w = j - 1, x # j - 1
  PROVE  x + Before(w, j, k) \in Nat /\ (x + Before(w, j, k)) % w = k - 1
<1>1. CASE k > j
  <2>1. x >= w
    <3> SUFFICES ASSUME x < w PROVE FALSE
      OBVIOUS
    <3>1. x % w = x
      BY ModFacts
    <3> QED BY <3>1
  <2>2. PICK y \in Nat : y = x - w
    BY <2>1
  <2>3. y % w = j - 1
    <3>1. x - w \in Nat
      BY <2>1
    <3> QED BY <2>2, <3>1, RoundLater
  <2>4. PICK e \in Nat : e = k - j
    BY <1>1
  <2>5. (y % w) + e \in 0..(w - 1) /\ y + e \in Nat
    BY <2>3, <2>4
  <2>6. (y + e) % w = (y % w) + e
    BY <2>5
  <2>7. x + Before(w, j, k) = y + e
    BY <1>1, <2>2, <2>4 DEF Before
  <2> QED BY <2>3, <2>4, <2>5, <2>6, <2>7
<1>2. CASE ~(k > j)
  <2>1. x >= j - 1
    OBVIOUS
  <2>2. (x % w) + (k - j) \in 0..(w - 1) /\ k - j \in Int /\ x + (k - j) \in Nat
    BY <1>2, <2>1
  <2>3. (x + (k - j)) % w = (x % w) + (k - j)
    BY <2>2, RoundFact
  <2> QED BY <1>2, <2>2, <2>3 DEF Before
<1> QED BY <1>1, <1>2

\* The groups differ in size by one at most.
Even(g) == \A j, k \in GroupIds(g) : Cardinality(InGroup(g, j)) <= Cardinality(InGroup(g, k)) + 1

\* A group's ranks but for its first can be matched with ranks of any other group: with
\* those that were dealt just before them.
LEMMA AssignedEven ==
  ASSUME NEW size \in Nat \ {0}, NEW w \in Nat \ {0}, NEW m \in Nat \ {0}, w + m <= size,
         NEW j \in 1..w, NEW k \in 1..w
  PROVE  Cardinality(InGroup(Assigned(size, w, m), j)) <= Cardinality(InGroup(Assigned(size, w, m), k)) + 1
<1> DEFINE A == Assigned(size, w, m)
           G(n) == InGroup(A, n)
           S == G(j) \ {m + j - 1}
           d == Before(w, j, k)
           f == [i \in S |-> i + d]
<1>1. A = [i \in Ranks(size) |-> IF i < m THEN 0 ELSE ((i - m) % w) + 1]
  BY DEF Assigned, Masters, WorkerGroups, LastWorker, Ranks
<1>2. ASSUME NEW n \in 1..w, NEW i
      PROVE  i \in G(n) <=> i \in Ranks(size) /\ i >= m /\ (i - m) % w = n - 1
  <2>1. i \in G(n) <=> i \in Ranks(size) /\ A[i] = n
    BY <1>1 DEF InGroup
  <2>2. CASE i \in Ranks(size) /\ i >= m
    <3>1. i - m \in Nat /\ A[i] = ((i - m) % w) + 1
      BY <1>1, <2>2 DEF Ranks
    <3>2. (i - m) % w \in 0..(w - 1)
      BY <3>1, ModFacts
    <3> HIDE DEF A
    <3> QED BY <2>1, <2>2, <3>1, <3>2
  <2>3. CASE i \in Ranks(size) /\ ~(i >= m)
    <3>1. A[i] = 0
      BY <1>1, <2>3 DEF Ranks
    <3> QED BY <2>1, <2>3, <3>1
  <2> QED BY <2>1, <2>2, <2>3
<1> HIDE DEF A, G
<1>3. ASSUME NEW i \in S PROVE i \in Int /\ i + d \in G(k)
  <2>1. i \in Ranks(size) /\ i >= m /\ (i - m) % w = j - 1 /\ i # m + j - 1
    BY <1>2
  <2>2. PICK x \in Nat : x = i - m
    BY <2>1 DEF Ranks
  <2>3. x % w = j - 1 /\ x # j - 1 /\ i \in Nat
    BY <2>1, <2>2 DEF Ranks
  <2>4. x + d \in Nat /\ (x + d) % w = k - 1
    <3>1. j \in Nat \ {0} /\ k \in Nat \ {0} /\ j <= w /\ k <= w
      OBVIOUS
    <3> QED BY <2>3, <3>1, RankBefore
  <2>5. d \in Int /\ d <= 0
    BY DEF Before
  <2> HIDE DEF d
  <2>6. i + d \in Ranks(size) /\ i + d >= m /\ (i + d) - m = x + d
    <3>1. i \in 0..(size - 1) /\ i = x + m
      BY <2>1, <2>2, <2>3 DEF Ranks
    <3> QED BY <2>4, <2>5, <3>1 DEF Ranks
  <2>7. ((i + d) - m) % w = k - 1
    BY <2>4, <2>6
  <2> QED BY <1>2, <2>3, <2>6, <2>7
<1>4. f \in Injection(S, G(k))
  <2>1. d \in Int
    BY DEF Before
  <2> HIDE DEF S, d
  <2>2. f \in [S -> G(k)]
    BY <1>3
  <2>3. ASSUME NEW x \in S, NEW y \in S, f[x] = f[y] PROVE x = y
    <3>1. x \in Int /\ y \in Int
      BY <1>3
    <3>2. x + d = y + d
      BY <2>3
    <3> QED BY <2>1, <3>1, <3>2
  <2> HIDE DEF f
  <2> QED BY <2>2, <2>3 DEF Injection, IsInjective
<1>5. \A n \in 1..w : IsFiniteSet(G(n))
  <2>1. IsFiniteSet(Ranks(size))
    <3>1. 0 \in Int /\ size - 1 \in Int
      OBVIOUS
    <3> QED BY <3>1, FS_Interval DEF Ranks
  <2>2. \A n \in 1..w : G(n) \in SUBSET Ranks(size)
    BY <1>2
  <2> QED BY <2>1, <2>2, FS_Subset
<1>6. Cardinality(S) <= Cardinality(G(k)) /\ Cardinality(G(k)) \in Nat /\ Cardinality(S) \in Nat
  <2> HIDE DEF S, f
  <2>1. IsFiniteSet(S) /\ Cardinality(S) <= Cardinality(G(k))
    BY <1>4, <1>5, FS_Injection
  <2> QED BY <1>5, <2>1, FS_CardinalityType
<1>7. Cardinality(G(j)) <= Cardinality(S) + 1
  <2>1. /\ Cardinality(G(j)) \in Nat
        /\ Cardinality(S) = IF m + j - 1 \in G(j) THEN Cardinality(G(j)) - 1 ELSE Cardinality(G(j))
    BY <1>5, FS_RemoveElement, FS_CardinalityType
  <2> HIDE DEF S
  <2> QED BY <2>1
<1>8. Cardinality(G(j)) \in Nat
  BY <1>5, FS_CardinalityType
<1> HIDE DEF S
<1>9. Cardinality(G(j)) <= Cardinality(G(k)) + 1
  BY <1>6, <1>7, <1>8
<1> QED BY <1>9 DEF A, G

\* Trading places keeps the sizes of the groups.
LEMMA SwapSizes ==
  ASSUME NEW size \in Nat \ {0}, NEW g, DOMAIN g = Ranks(size),
         NEW r \in Ranks(size), g[0] = 0, NEW j, j # 0
  PROVE  Cardinality(InGroup(SwapRoot(g, r), j)) = Cardinality(InGroup(g, j))
<1> DEFINE h == SwapRoot(g, r)
           S == InGroup(g, j)
<1>0. 0 \in Ranks(size) /\ IsFiniteSet(Ranks(size))
  <2>1. 0 \in Int /\ size - 1 \in Int
    OBVIOUS
  <2> QED BY <2>1, FS_Interval DEF Ranks
<1>1. /\ DOMAIN h = Ranks(size) /\ h[r] = 0 /\ h[0] = g[r]
      /\ \A i \in Ranks(size) \ {0, r} : h[i] = g[i]
  BY <1>0 DEF SwapRoot
<1>2. IsFiniteSet(S)
  <2>1. S \in SUBSET Ranks(size)
    BY DEF InGroup
  <2> QED BY <1>0, <2>1, FS_Subset
<1> HIDE DEF h
<1>3. CASE g[r] = j
  <2>1. InGroup(h, j) = (S \ {r}) \cup {0} /\ r \in S /\ 0 \notin S \ {r}
    BY <1>0, <1>1, <1>3 DEF InGroup
  <2>2. IsFiniteSet(S \ {r}) /\ Cardinality(S \ {r}) = Cardinality(S) - 1 /\ Cardinality(S) \in Nat
    BY <1>2, <2>1, FS_RemoveElement, FS_CardinalityType
  <2> HIDE DEF S
  <2> DEFINE T == S \ {r}
  <2>3. Cardinality(T \cup {0}) = Cardinality(T) + 1
    <3>1. IsFiniteSet(T) /\ 0 \notin T
      BY <2>1, <2>2
    <3> HIDE DEF T
    <3> QED BY <3>1, FS_AddElement
  <2>4. Cardinality(T) + 1 = Cardinality(S)
    BY <2>2
  <2> QED BY <2>1, <2>3, <2>4 DEF h, S
<1>4. CASE g[r] # j
  <2>1. InGroup(h, j) = S
    BY <1>0, <1>1, <1>4 DEF InGroup
  <2> QED BY <2>1 DEF h
<1> QED BY <1>3, <1>4

\* With as many ranks as asked for, the groups are those asked for, m ranks are
\* masters and the root is one of them.
LEMMA BuildNumbers ==
  ASSUME NEW size \in 2..(Word - 1), NEW w \in Nat \ {0}, NEW m \in Nat \ {0}, w + m <= size,
         NEW r \in Ranks(size)
  PROVE  /\ Build(size, w, m, r) \in [Ranks(size) -> Nat]
         /\ Build(size, w, m, r)[r] = 0
         /\ Numbered(Build(size, w, m, r), w)
         /\ Cardinality(InGroup(Build(size, w, m, r), 0)) = m
         /\ Even(Build(size, w, m, r))
<1> DEFINE A == Assigned(size, w, m)
           h == SwapRoot(A, r)
<1>0. Word \in Nat /\ size \in Nat \ {0} /\ size > 1 /\ w + m < Word
  BY WordAssumption
<1>1. (w + m) % Word = w + m
  <2>1. w + m \in Nat /\ Word \in Nat \ {0}
    BY WordAssumption
  <2> QED BY <1>0, <2>1, ModFacts
<1>2. ~Refused(size, w, m, r)
  BY <1>0, <1>1 DEF Refused, Ranks
<1>3. Build(size, w, m, r) = h
  BY <1>0, <1>2 DEF Build
<1>4. /\ A \in [Ranks(size) -> 0..w]
      /\ \A i \in Ranks(size) : A[i] = 0 <=> i < m
      /\ \A k \in 1..w : m + k - 1 \in Ranks(size) /\ A[m + k - 1] = k
  <2>1. Filled(A, size, w, m)
    BY <1>0, AssignedGroups
  <2> HIDE DEF A
  <2> QED BY <2>1 DEF Filled
<1>14. \A j, k \in 1..w : Cardinality(InGroup(A, j)) <= Cardinality(InGroup(A, k)) + 1
  BY <1>0, AssignedEven
<1> HIDE DEF A
<1>5. A[0] = 0
  BY <1>0, <1>4 DEF Ranks
<1>6. /\ h \in [Ranks(size) -> 0..w]
      /\ h[r] = 0
      /\ GroupIds(h) = GroupIds(A)
      /\ InGroup(h, 0) = IF A[r] = 0 THEN InGroup(A, 0) ELSE (InGroup(A, 0) \ {0}) \cup {r}
  BY <1>0, <1>4, <1>5, SwapKeeps
<1>7. GroupIds(A) = 1..w
  <2>1. DOMAIN A = Ranks(size)
    BY <1>4
  <2>2. ASSUME NEW k \in GroupIds(A) PROVE k \in 1..w
    BY <1>4, <2>1 DEF GroupIds
  <2>3. ASSUME NEW k \in 1..w PROVE k \in GroupIds(A)
    <3>1. m + k - 1 \in DOMAIN A /\ A[m + k - 1] = k /\ k # 0
      BY <1>4, <2>1
    <3> QED BY <3>1 DEF GroupIds
  <2> QED BY <2>2, <2>3
<1>8. InGroup(A, 0) = 0..(m - 1)
  <2>1. DOMAIN A = Ranks(size)
    BY <1>4
  <2> QED BY <1>4, <2>1 DEF InGroup, Ranks
<1>9. Cardinality(InGroup(h, 0)) = m
  <2>1. IsFiniteSet(0..(m - 1)) /\ Cardinality(0..(m - 1)) = m
    <3>1. 0 \in Int /\ m - 1 \in Int /\ ~(0 > m - 1)
      OBVIOUS
    <3> QED BY <3>1, FS_Interval
  <2>2. CASE A[r] = 0
    BY <1>6, <1>8, <2>1, <2>2
  <2>3. CASE A[r] # 0
    <3>1. IsFiniteSet(1..(m - 1)) /\ Cardinality(1..(m - 1)) = m - 1
      <4>1. 1 \in Int /\ m - 1 \in Int /\ (1 > m - 1 <=> m = 1)
        OBVIOUS
      <4> QED BY <4>1, FS_Interval
    <3>2. InGroup(h, 0) = (1..(m - 1)) \cup {r} /\ r \notin 1..(m - 1)
      BY <1>4, <1>6, <1>8, <2>3
    <3>3. Cardinality((1..(m - 1)) \cup {r}) = m - 1 + 1
      BY <3>1, <3>2, FS_AddElement
    <3>4. InGroup(h, 0) = (1..(m - 1)) \cup {r}
      BY <3>2
    <3>5. m - 1 + 1 = m
      OBVIOUS
    <3> HIDE DEF h
    <3> QED BY <3>3, <3>4, <3>5, Zenon
  <2> QED BY <2>2, <2>3
<1>12. \A j \in 1..w : Cardinality(InGroup(h, j)) = Cardinality(InGroup(A, j))
  <2>1. DOMAIN A = Ranks(size) /\ \A j \in 1..w : j # 0
    BY <1>4
  <2> QED BY <1>0, <1>5, <2>1, SwapSizes
<1> HIDE DEF h
<1>13. Even(h)
  BY <1>6, <1>7, <1>12, <1>14 DEF Even
<1>10. Numbered(h, w)
  BY <1>6, <1>7 DEF Numbered
<1>11. h \in [Ranks(size) -> Nat]
  BY <1>6
<1> QED BY <1>3, <1>6, <1>9, <1>10, <1>11, <1>13

\* Groups a work_queue over size ranks with root r can use.
Usable(g, size, r) ==
  /\ g \in [Ranks(size) -> Nat]
  /\ g[r] = 0
  /\ size > 1 => GroupIds(g) # {}

\* Groups distributed_build_groups makes: usable ones, dealt out evenly.
Dealt(g, size, r) == Usable(g, size, r) /\ Even(g)

\* With no number of groups, each rank that is left is a group of its own.
LEMMA BuildAlone ==
  ASSUME NEW size \in 2..(Word - 1), NEW m \in {0, 1}, NEW r \in Ranks(size)
  PROVE  Dealt(Build(size, 0, m, r), size, r)
<1>0. Word \in Nat \ {0} /\ size \in Nat \ {0} /\ size > 1 /\ size - 1 \in Nat \ {0}
  BY WordAssumption
<1>1. Assigned(size, 0, m) = Assigned(size, size - 1, 1)
  BY <1>0 DEF Assigned, Masters, WorkerGroups, LastWorker
<1>2. ~Refused(size, 0, m, r)
  <2>1. 0 + m \in Nat /\ 0 + m < Word /\ 0 + m < size
    BY <1>0
  <2>2. (0 + m) % Word = 0 + m
    BY <1>0, <2>1, ModFacts
  <2> QED BY <1>0, <2>1, <2>2 DEF Refused, Ranks
<1>3. ~Refused(size, size - 1, 1, r)
  <2>1. size - 1 + 1 \in Nat /\ size - 1 + 1 < Word /\ size - 1 + 1 = size
    BY <1>0
  <2>2. (size - 1 + 1) % Word = size - 1 + 1
    BY <1>0, <2>1, ModFacts
  <2> QED BY <1>0, <2>1, <2>2 DEF Refused, Ranks
<1>4. Build(size, 0, m, r) = Build(size, size - 1, 1, r)
  BY <1>0, <1>1, <1>2, <1>3 DEF Build
<1>5. /\ Build(size, size - 1, 1, r) \in [Ranks(size) -> Nat]
      /\ Build(size, size - 1, 1, r)[r] = 0
      /\ Numbered(Build(size, size - 1, 1, r), size - 1)
      /\ Even(Build(size, size - 1, 1, r))
  <2>1. size - 1 + 1 <= size /\ 1 \in Nat \ {0}
    BY <1>0
  <2> QED BY <1>0, <2>1, BuildNumbers
<1>6. 1 \in 1..(size - 1)
  BY <1>0
<1> QED BY <1>4, <1>5, <1>6 DEF Dealt, Usable, Numbered

\* One rank is the master.
LEMMA BuildOne ==
  ASSUME NEW w, NEW m, NEW r \in Ranks(1)
  PROVE  Dealt(Build(1, w, m, r), 1, r)
<1> DEFINE b == Build(1, w, m, r)
<1>1. b = [i \in {0} |-> 0] /\ r = 0 /\ Ranks(1) = {0}
  BY DEF Build, Ranks
<1>2. GroupIds(b) = {}
  BY <1>1 DEF GroupIds
<1>3. b \in [Ranks(1) -> Nat] /\ b[r] = 0
  BY <1>1
<1> HIDE DEF b
<1>4. Dealt(b, 1, r)
  BY <1>2, <1>3 DEF Dealt, Usable, Even
<1> QED BY <1>4 DEF b

\* What distributed_build_groups makes for numbers that fit.
LEMMA BuildUsable ==
  ASSUME NEW size \in 2..(Word - 1), NEW w \in Nat \ {0}, NEW m \in Nat \ {0}, w + m <= size,
         NEW r \in Ranks(size)
  PROVE  Dealt(Build(size, w, m, r), size, r)
<1>1. 1 \in 1..w
  OBVIOUS
<1>2. /\ Build(size, w, m, r) \in [Ranks(size) -> Nat]
      /\ Build(size, w, m, r)[r] = 0
      /\ Numbered(Build(size, w, m, r), w)
      /\ Even(Build(size, w, m, r))
  BY BuildNumbers
<1> QED BY <1>1, <1>2 DEF Dealt, Usable, Numbered

-----------------------------------------------------------------------------
(***************************************************************************)
(* The manager.                                                            *)
(***************************************************************************)

\* The inductive invariant. GroupsFit and RootIsMaster need each other: a root
\* beyond the communicator would have the next numbers refused.
IInv == TypeOK /\ GroupsFit /\ RootIsMaster /\ CanWork /\ AsAsked /\ Balanced

\* Usable groups are what the invariant asks of them.
LEMMA UsableGood ==
  ASSUME comm \in Sizes, root \in Nat, Usable(groups, comm, root), root \in Ranks(comm)
  PROVE  /\ \E n \in Sizes \cup {1} : groups \in [Ranks(n) -> Nat]
         /\ GroupsFit /\ RootIsMaster /\ CanWork
BY DEF Usable, GroupsFit, RootIsMaster, CanWork

\* A rebuilt manager has the new groups when they were not refused.
LEMMA RebuiltUsable ==
  ASSUME NEW size \in Sizes, NEW w, NEW m, NEW r, Dealt(Build(size, w, m, r), size, r)
  PROVE  Rebuilt(size, w, m, r) = Build(size, w, m, r)
BY NulloptNotGroups DEF Rebuilt, Or, Given, Dealt, Usable

\* Groups dealt out evenly are balanced, whatever number was asked for.
LEMMA DealtBalanced == ASSUME Even(groups) PROVE Balanced
BY DEF Even, Balanced

LEMMA InitInv == ASSUME Disciplined, Init PROVE IInv
<1>1. comm \in Sizes /\ root = 0 /\ groups = Build(comm, 0, 0, 0) /\ asked = NothingAsked
  BY DEF Init, Disciplined
<1>2. 0 \in Ranks(comm) /\ comm \in 1..(Word - 1)
  BY <1>1, SizesAssumption, WordAssumption DEF Ranks
<1>3. Dealt(groups, comm, root)
  <2>1. CASE comm = 1
    BY <1>1, <1>2, <2>1, BuildOne
  <2>2. CASE comm # 1
    <3>1. comm \in 2..(Word - 1)
      BY <1>2, <2>2, WordAssumption
    <3> QED BY <1>1, <1>2, <3>1, BuildAlone
  <2> QED BY <2>1, <2>2
<1>4. /\ \E n \in Sizes \cup {1} : groups \in [Ranks(n) -> Nat]
      /\ GroupsFit /\ RootIsMaster /\ CanWork
  BY <1>1, <1>2, <1>3, UsableGood DEF Dealt
<1>5. AsAsked
  BY <1>1 DEF AsAsked, NothingAsked
<1>6. TypeOK
  BY <1>1, <1>4 DEF Init, TypeOK, Optional, NothingAsked
<1>7. Balanced
  BY <1>3, DealtBalanced DEF Dealt
<1> QED BY <1>4, <1>5, <1>6, <1>7 DEF IInv

LEMMA RankFacts ==
  ASSUME NEW s \in 1..(Word - 1), NEW x \in Nat, x < s
  PROVE  x \in Ranks(s)
BY WordAssumption DEF Ranks

\* The unsigned subtraction of set_options does not wrap when there is a rank left.
LEMMA WorkersLeft ==
  ASSUME NEW s \in 1..(Word - 1), NEW x \in Nat \ {0}, 1 + x <= s
  PROVE  /\ s - x \in Nat \ {0} /\ s - x + x <= s /\ s \in 2..(Word - 1)
         /\ (s + Word - x) % Word = s - x
<1>1. Word \in Nat \ {0} /\ s \in Nat /\ s < Word
  BY WordAssumption
<1>2. s - x \in Nat \ {0} /\ s - x < Word /\ s - x + x <= s /\ s \in 2..(Word - 1)
  BY <1>1
<1>3. (s - x) % Word = s - x
  BY <1>1, <1>2, ModFacts
<1>4. s + Word - x = (s - x) + Word
  BY <1>1
<1>5. ((s - x) + Word) % Word = (s - x) % Word
  BY <1>1, <1>2
<1> QED BY <1>2, <1>3, <1>4, <1>5

\* What holds before any branch of set_options: the arguments it computes with.
LEMMA SetOptionsArgs ==
  ASSUME Disciplined, IInv, NEW o \in Options, SetOptions(o)
  PROVE  /\ comm' \in Sizes /\ root' \in Nat /\ root' \in Ranks(comm')
         /\ comm' \in 1..(Word - 1)
         /\ \A l : ~May(l)
<1>1. Careful(o) /\ root' = Or(o.root, root) /\ comm' = Or(o.comm, comm)
  BY DEF SetOptions
<1>2. comm \in Sizes /\ root \in Nat /\ root \in DOMAIN groups /\ DOMAIN groups = Ranks(comm)
  BY DEF IInv, TypeOK, GroupsFit, RootIsMaster
<1>3. o.root = Nullopt \/ o.root \in UNION {Ranks(s) : s \in Sizes}
  BY DEF Options, Optional
<1>4. o.comm = Nullopt \/ o.comm \in Sizes
  BY DEF Options, Optional
<1>5. \A x \in UNION {Ranks(s) : s \in Sizes} : x \in Nat
  BY SizesAssumption, WordAssumption DEF Ranks
<1>6. comm' \in Sizes /\ root' \in Nat
  BY <1>1, <1>2, <1>3, <1>4, <1>5 DEF Or, Given
<1>7. comm' \in 1..(Word - 1)
  BY <1>6, SizesAssumption
<1>8. root' \in Ranks(comm')
  <2>1. CASE Given(o.root) \/ Given(o.comm)
    <3>1. root' < comm'
      BY <1>1, <2>1 DEF Careful
    <3> QED BY <1>6, <1>7, <3>1, RankFacts
  <2>2. CASE ~(Given(o.root) \/ Given(o.comm))
    BY <1>1, <1>2, <2>2 DEF Or
  <2> QED BY <2>1, <2>2
<1>9. \A l : ~May(l)
  BY DEF Disciplined, May
<1> QED BY <1>6, <1>7, <1>8, <1>9

\* Usable groups re-establish the parts of the invariant that are about groups.
LEMMA UsableAfter ==
  ASSUME comm' \in Sizes, root' \in Nat, root' \in Ranks(comm'),
         Usable(groups', comm', root')
  PROVE  /\ \E n \in Sizes \cup {1} : groups' \in [Ranks(n) -> Nat]
         /\ GroupsFit' /\ RootIsMaster' /\ CanWork'
BY DEF Usable, GroupsFit, RootIsMaster, CanWork

LEMMA SetGroupsInv ==
  ASSUME Disciplined, IInv, NEW o \in Options, SetOptions(o), SetGroups(o)
  PROVE  IInv'
<1>1. /\ comm' \in Sizes /\ root' \in Nat /\ root' \in Ranks(comm')
      /\ comm' \in 1..(Word - 1)
  BY SetOptionsArgs
<1>2. /\ Given(o.groups) /\ groups' = o.groups
      /\ nWorkers' = Nullopt /\ nMasters' = Nullopt
      /\ asked' = NothingAsked
  BY DEF SetGroups, SetOptions
<1>3. root' = Or(o.root, root) /\ comm' = Or(o.comm, comm)
  BY DEF SetOptions
<1>4. /\ DOMAIN groups' = Ranks(comm')
      /\ groups'[root'] = 0
      /\ comm' > 1 => GroupIds(groups') # {}
  BY <1>2, <1>3 DEF SetOptions, Careful
<1>5. o.groups \in Lists
  BY <1>2 DEF Options, Optional, Given
<1>6. groups' \in [Ranks(comm') -> Nat]
  <2>1. PICK s \in Sizes : o.groups \in [Ranks(s) -> Nat]
    BY <1>5, ListsAssumption
  <2> QED BY <1>2, <1>4, <2>1
<1>7. Usable(groups', comm', root')
  BY <1>4, <1>6 DEF Usable
<1>8. /\ \E n \in Sizes \cup {1} : groups' \in [Ranks(n) -> Nat]
      /\ GroupsFit' /\ RootIsMaster' /\ CanWork'
  BY <1>1, <1>7, UsableAfter
<1>9. AsAsked'
  BY <1>2 DEF AsAsked, NothingAsked
<1>10. TypeOK'
  BY <1>1, <1>2, <1>8 DEF TypeOK, Optional, NothingAsked
<1>11. Balanced'
  BY <1>2 DEF Balanced, Given
<1> QED BY <1>8, <1>9, <1>10, <1>11 DEF IInv

\* What the two branches that rebuild have in common.
LEMMA RebuildInv ==
  ASSUME comm' \in Sizes, root' \in Nat, root' \in Ranks(comm'),
         Dealt(groups', comm', root'),
         nWorkers' \in Nat, nMasters' \in Nat,
         asked' \in [workers : Optional(Counts), masters : Optional(Counts)],
         AsAsked'
  PROVE  IInv'
<1>1. /\ \E n \in Sizes \cup {1} : groups' \in [Ranks(n) -> Nat]
      /\ GroupsFit' /\ RootIsMaster' /\ CanWork'
  BY UsableAfter DEF Dealt
<1>2. TypeOK'
  BY <1>1 DEF TypeOK, Optional
<1>3. Balanced'
  BY DEF Dealt, Even, Balanced
<1> QED BY <1>1, <1>2, <1>3 DEF IInv

LEMMA SetWorkersInv ==
  ASSUME Disciplined, IInv, NEW o \in Options, SetOptions(o), SetWorkers(o, comm', root')
  PROVE  IInv'
<1>1. /\ comm' \in Sizes /\ root' \in Nat /\ root' \in Ranks(comm')
      /\ comm' \in 1..(Word - 1)
      /\ \A l : ~May(l)
  BY SetOptionsArgs
<1> DEFINE w == o.workers
           b == Build(comm', w, 1, root')
<1>2. /\ Given(w) /\ ~Given(o.masters) /\ ~Given(o.groups)
      /\ nWorkers' = w /\ nMasters' = 1
      /\ groups' = Rebuilt(comm', w, 1, root')
      /\ asked' = [workers |-> w, masters |-> o.masters]
  BY DEF SetWorkers, SetOptions
<1>3. w \in Counts /\ w \in Nat /\ o.masters = Nullopt
  BY <1>2, SizesAssumption, WordAssumption DEF Options, Optional, Given
<1>4. w + 1 <= comm'
  <2>1. comm' = Or(o.comm, comm) /\ Careful(o)
    BY DEF SetOptions
  <2>2. Fits(comm', w, o.masters)
    BY <1>1, <1>2, <2>1 DEF Careful
  <2> QED BY <1>2, <1>3, <2>2 DEF Fits, Or, Given
<1> HIDE DEF w
<1>5. /\ Dealt(b, comm', root')
      /\ w # 0 => Numbered(b, w)
  <2>1. CASE comm' = 1
    <3>1. w = 0
      BY <1>3, <1>4, <2>1
    <3> QED BY <1>1, <2>1, <3>1, BuildOne
  <2>2. CASE comm' # 1 /\ w = 0
    <3>1. comm' \in 2..(Word - 1)
      BY <1>1, <2>2, WordAssumption
    <3> QED BY <1>1, <2>2, <3>1, BuildAlone
  <2>3. CASE comm' # 1 /\ w # 0
    <3>1. comm' \in 2..(Word - 1) /\ w \in Nat \ {0} /\ 1 \in Nat \ {0}
      BY <1>1, <1>3, <2>3, WordAssumption
    <3>2. Numbered(b, w)
      BY <1>1, <1>4, <3>1, BuildNumbers
    <3>3. Dealt(b, comm', root')
      BY <1>1, <1>4, <3>1, BuildUsable
    <3> QED BY <3>2, <3>3
  <2> QED BY <2>1, <2>2, <2>3
<1>6. groups' = b
  BY <1>1, <1>2, <1>5, RebuiltUsable
<1>7. AsAsked'
  <2>1. asked'.workers = w /\ asked'.masters = Nullopt
    BY <1>2, <1>3
  <2> HIDE DEF b
  <2> QED BY <1>5, <1>6, <2>1 DEF AsAsked
<1>8. asked' \in [workers : Optional(Counts), masters : Optional(Counts)]
  BY <1>2, <1>3 DEF Optional
<1> QED BY <1>1, <1>2, <1>3, <1>5, <1>6, <1>7, <1>8, RebuildInv

LEMMA SetMastersInv ==
  ASSUME Disciplined, IInv, NEW o \in Options, SetOptions(o), SetMasters(o, comm', root')
  PROVE  IInv'
<1>1. /\ comm' \in Sizes /\ root' \in Nat /\ root' \in Ranks(comm')
      /\ comm' \in 1..(Word - 1)
      /\ \A l : ~May(l)
  BY SetOptionsArgs
<1> DEFINE m == o.masters
           n == comm' - m
           b == Build(comm', n, m, root')
<1>2. /\ Given(m) /\ ~Given(o.workers) /\ ~Given(o.groups)
      /\ nMasters' = m /\ nWorkers' = (comm' + Word - m) % Word
      /\ groups' = Rebuilt(comm', nWorkers', m, root')
      /\ asked' = [workers |-> o.workers, masters |-> m]
  BY DEF SetMasters, SetOptions
<1>3. m \in Counts /\ m \in Nat /\ o.workers = Nullopt
  BY <1>2, SizesAssumption, WordAssumption DEF Options, Optional, Given
<1>4. m # 0 /\ 1 + m <= comm'
  <2>1. comm' = Or(o.comm, comm) /\ Careful(o)
    BY DEF SetOptions
  <2>2. Fits(comm', o.workers, m)
    BY <1>1, <1>2, <2>1 DEF Careful
  <2> QED BY <1>2, <1>3, <2>2 DEF Fits, Or, Given
<1> HIDE DEF m
<1>5. /\ n \in Nat \ {0} /\ n + m <= comm' /\ m \in Nat \ {0}
      /\ comm' \in 2..(Word - 1)
      /\ (comm' + Word - m) % Word = n
  <2>1. m \in Nat \ {0}
    BY <1>3, <1>4
  <2> QED BY <1>1, <1>4, <2>1, WorkersLeft
<1>6. nWorkers' = n
  BY <1>2, <1>5
<1> HIDE DEF n
<1>7. Dealt(b, comm', root') /\ Cardinality(InGroup(b, 0)) = m
  <2>1. Dealt(b, comm', root')
    BY <1>1, <1>5, BuildUsable
  <2>2. Cardinality(InGroup(b, 0)) = m
    BY <1>1, <1>5, BuildNumbers
  <2> QED BY <2>1, <2>2
<1>8. groups' = b
  BY <1>1, <1>2, <1>6, <1>7, RebuiltUsable
<1>9. AsAsked'
  <2>1. asked'.masters = m /\ asked'.workers = Nullopt
    BY <1>2, <1>3
  <2> HIDE DEF b
  <2> QED BY <1>7, <1>8, <2>1 DEF AsAsked
<1>10. asked' \in [workers : Optional(Counts), masters : Optional(Counts)]
  BY <1>2, <1>3 DEF Optional
<1> QED BY <1>1, <1>2, <1>3, <1>5, <1>6, <1>7, <1>8, <1>9, <1>10, RebuildInv

LEMMA CountsAreNats == \A c \in Counts : c \in Nat
  BY SizesAssumption, WordAssumption

LEMMA TwoRanks == ASSUME NEW s \in Nat, s - 1 \in Nat \ {0} PROVE 1 + 1 <= s /\ 1 \in Nat \ {0}
  OBVIOUS

LEMMA SetBothInv ==
  ASSUME Disciplined, IInv, NEW o \in Options, SetOptions(o), SetBoth(o, comm', root')
  PROVE  IInv'
<1>1. /\ comm' \in Sizes /\ root' \in Nat /\ root' \in Ranks(comm')
      /\ comm' \in 1..(Word - 1)
      /\ \A l : ~May(l)
  BY SetOptionsArgs
<1> DEFINE n == comm' - 1
           b == Build(comm', n, 1, root')
<1>2. /\ Given(o.workers) /\ Given(o.masters) /\ ~Given(o.groups)
      /\ nMasters' = 1 /\ nWorkers' = (comm' + Word - 1) % Word
      /\ groups' = Rebuilt(comm', nWorkers', 1, root')
      /\ asked' = [workers |-> o.workers, masters |-> o.masters]
  BY DEF SetBoth, SetOptions
<1>3. o.workers \in Counts /\ o.workers \in Nat /\ o.masters \in Counts
  <2>1. o.workers \in Counts /\ o.masters \in Counts
    BY <1>2 DEF Options, Optional, Given
  <2>2. o.workers \in Nat
    BY <2>1, CountsAreNats
  <2> QED BY <2>1, <2>2
<1>4. o.masters = 1 /\ o.workers = n /\ o.workers + 1 <= comm'
  <2>1. comm' = Or(o.comm, comm) /\ Careful(o)
    BY DEF SetOptions
  <2>2. o.masters = 1 /\ o.workers = n
    BY <1>1, <1>2, <2>1 DEF Careful
  <2>3. Fits(comm', o.workers, o.masters)
    BY <1>1, <1>2, <2>1 DEF Careful
  <2> QED BY <1>2, <1>3, <2>2, <2>3 DEF Fits, Or, Given
<1> HIDE DEF n
<1>5. n \in Nat /\ comm' \in Nat
  BY <1>1, <1>3, <1>4, WordAssumption
<1>6. CASE n = 0
  <2>1. comm' = 1
    BY <1>1, <1>5, <1>6 DEF n
  <2>2. Dealt(Build(comm', nWorkers', 1, root'), comm', root')
    BY <1>1, <2>1, BuildOne
  <2>3. Dealt(groups', comm', root')
    BY <1>1, <1>2, <2>2, RebuiltUsable
  <2>4. Cardinality(InGroup(groups', 0)) = 1
    <3>1. groups' = [i \in {0} |-> 0]
      BY <1>1, <1>2, <2>1, <2>2, RebuiltUsable DEF Build
    <3>2. InGroup(groups', 0) = {0}
      BY <3>1 DEF InGroup
    <3> QED BY <3>2, FS_Singleton
  <2>5. AsAsked'
    BY <1>2, <1>4, <1>6, <2>4 DEF AsAsked
  <2>6. nWorkers' \in Nat
    <3>1. (1 + Word - 1) % Word \in Nat
      <4>1. 1 + Word - 1 \in Nat
        BY WordAssumption
      <4> QED BY <4>1, ModFacts, WordAssumption
    <3> QED BY <1>2, <2>1, <3>1
  <2>7. asked' \in [workers : Optional(Counts), masters : Optional(Counts)]
    BY <1>2, <1>3 DEF Optional
  <2> QED BY <1>1, <1>2, <2>3, <2>5, <2>6, <2>7, RebuildInv
<1>7. CASE n # 0
  <2>1. 1 + 1 <= comm' /\ 1 \in Nat \ {0}
    <3>1. comm' - 1 \in Nat \ {0}
      BY <1>5, <1>7 DEF n
    <3> QED BY <1>5, <3>1, TwoRanks
  <2>2. /\ n \in Nat \ {0} /\ n + 1 <= comm' /\ comm' \in 2..(Word - 1)
        /\ (comm' + Word - 1) % Word = n
    BY <1>1, <2>1, WorkersLeft DEF n
  <2>3. Dealt(b, comm', root')
    BY <1>1, <2>1, <2>2, BuildUsable
  <2>4. Numbered(b, n) /\ Cardinality(InGroup(b, 0)) = 1
    BY <1>1, <2>1, <2>2, BuildNumbers
  <2>5. groups' = b
    BY <1>1, <1>2, <2>2, <2>3, RebuiltUsable
  <2>6. AsAsked'
    <3> HIDE DEF b
    <3> QED BY <1>2, <1>4, <2>4, <2>5 DEF AsAsked
  <2>7. asked' \in [workers : Optional(Counts), masters : Optional(Counts)]
    BY <1>2, <1>3 DEF Optional
  <2> QED BY <1>1, <1>2, <2>2, <2>3, <2>5, <2>6, <2>7, RebuildInv
<1> QED BY <1>6, <1>7

\* Nothing a careful caller leaves unset changes the groups.
LEMMA SetNeitherInv ==
  ASSUME Disciplined, IInv, NEW o \in Options, SetOptions(o), SetNeither(o)
  PROVE  IInv'
<1>1. \A l : ~May(l)
  BY SetOptionsArgs
<1>2. ~Given(o.root) /\ ~Given(o.comm)
  BY <1>1 DEF SetOptions, SetNeither, Careful
<1>3. UNCHANGED vars
  BY <1>2 DEF SetOptions, SetNeither, Or, vars
<1> QED BY <1>3 DEF IInv, TypeOK, GroupsFit, RootIsMaster, CanWork, AsAsked, Balanced, vars

THEOREM ManagerInductive == ASSUME Disciplined PROVE Spec => []IInv
<1>1. Init => IInv
  BY InitInv
<1>2. IInv /\ [Next]_vars => IInv'
  <2> SUFFICES ASSUME IInv, [Next]_vars PROVE IInv'
    OBVIOUS
  <2>1. ASSUME NEW o \in Options, SetOptions(o) PROVE IInv'
    <3>1. CASE SetBoth(o, comm', root')
      BY <2>1, <3>1, SetBothInv
    <3>2. CASE SetGroups(o)
      BY <2>1, <3>2, SetGroupsInv
    <3>3. CASE SetWorkers(o, comm', root')
      BY <2>1, <3>3, SetWorkersInv
    <3>4. CASE SetMasters(o, comm', root')
      BY <2>1, <3>4, SetMastersInv
    <3>5. CASE SetNeither(o)
      BY <2>1, <3>5, SetNeitherInv DEF SetNeither
    <3> QED BY <2>1, <3>1, <3>2, <3>3, <3>4, <3>5 DEF SetOptions
  <2>2. CASE UNCHANGED vars
    BY <2>2 DEF IInv, TypeOK, GroupsFit, RootIsMaster, CanWork, AsAsked, Balanced, vars
  <2> QED BY <2>1, <2>2 DEF Next
<1> QED BY <1>1, <1>2, PTL DEF Spec

\* Groups a careful caller leaves behind have an entry for each rank of the
\* communicator, the root is a master, and there is somebody to do the work, for any
\* communicators and any root.
THEOREM RootServed == ASSUME Disciplined PROVE Spec => []CanServe
<1>1. IInv => CanServe
  BY DEF IInv, CanServe
<1> QED BY <1>1, ManagerInductive, PTL

\* The groups and the masters are as many as asked for.
THEOREM NumbersServed == ASSUME Disciplined PROVE Spec => []AsAsked
<1>1. IInv => AsAsked
  BY DEF IInv
<1> QED BY <1>1, ManagerInductive, PTL

\* However many groups were asked for, and wherever the root is, no group has two
\* ranks more than another: distributed_build_groups deals the ranks out in turn.
THEOREM EvenlyDealt == ASSUME Disciplined PROVE Spec => []Balanced
<1>1. IInv => Balanced
  BY DEF IInv
<1> QED BY <1>1, ManagerInductive, PTL

\* Every field has its type.
THEOREM ManagerTyped == ASSUME Disciplined PROVE Spec => []TypeOK
<1>1. IInv => TypeOK
  BY DEF IInv
<1> QED BY <1>1, ManagerInductive, PTL
=============================================================================
