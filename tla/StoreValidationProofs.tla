----------------------- MODULE StoreValidationProofs -----------------------
(* Theorems about StoreValidation.                                         *)
EXTENDS StoreValidation, WaitQueuesProofs, FiniteSetTheorems

----------------------------------------------------------------------------
(* Positions of a queue, counted.                                          *)

\* How many members of a set of positions are not after k.
Rank(S, k) == Cardinality({j \in S : j <= k})

\* A set of positions is finite, and no larger than the queue.
LEMMA PositionsFinite ==
    ASSUME NEW n \in Nat, NEW S \in SUBSET (1..n)
    PROVE  /\ IsFiniteSet(S) /\ Cardinality(S) \in Nat /\ Cardinality(S) <= n
           /\ \A k : Rank(S, k) \in Nat /\ Rank(S, k) <= Cardinality(S)
<1>1. IsFiniteSet(1..n) /\ Cardinality(1..n) = n
  BY FS_Interval
<1>2. IsFiniteSet(S) /\ Cardinality(S) <= n
  BY <1>1, FS_Subset, Zenon
<1>3. ASSUME NEW k
      PROVE  Rank(S, k) \in Nat /\ Rank(S, k) <= Cardinality(S)
  <2> DEFINE B == {j \in S : j <= k}
  <2>1. B \in SUBSET S
    BY Zenon
  <2> HIDE DEF B
  <2>2. IsFiniteSet(B) /\ Cardinality(B) <= Cardinality(S)
    BY <1>2, <2>1, FS_Subset, Zenon
  <2>3. Cardinality(B) \in Nat
    BY <2>2, FS_CardinalityType, Zenon
  <2> QED BY <2>2, <2>3, Zenon DEF B, Rank
<1> QED BY <1>2, <1>3, FS_CardinalityType, Zenon

\* The count grows with every member.
LEMMA RankGrows ==
    ASSUME NEW n \in Nat, NEW S \in SUBSET (1..n), NEW a \in Nat, NEW b \in S, a < b
    PROVE  Rank(S, a) < Rank(S, b)
<1> DEFINE A == {j \in S : j <= a}
           B == {j \in S : j <= b}
<1>0. b \in Nat /\ \A j \in S : j \in Nat
  OBVIOUS
<1>1. A \in SUBSET S /\ B \in SUBSET S /\ A \in SUBSET B /\ b \in B /\ b \notin A
  <2>1. \A j \in S : j <= a => j <= b
    BY <1>0
  <2>2. b <= b /\ ~(b <= a)
    BY <1>0
  <2> QED BY <2>1, <2>2, Zenon
<1> HIDE DEF A, B
<1>2. IsFiniteSet(S)
  BY PositionsFinite, Zenon
<1>3. IsFiniteSet(B)
  BY <1>1, <1>2, FS_Subset, Zenon
<1>4. Cardinality(A) <= Cardinality(B) /\ Cardinality(A) # Cardinality(B)
  BY <1>1, <1>3, FS_Subset, Zenon
<1>5. Cardinality(A) \in Nat /\ Cardinality(B) \in Nat
  BY <1>1, <1>2, FS_Subset, FS_CardinalityType, Zenon
<1> QED BY <1>4, <1>5 DEF A, B, Rank

\* A member counts itself.
LEMMA RankBounds ==
    ASSUME NEW n \in Nat, NEW S \in SUBSET (1..n), NEW k \in S
    PROVE  Rank(S, k) \in 1..Cardinality(S)
<1>1. k \in Nat /\ 0 < k
  OBVIOUS
<1>2. Rank(S, 0) < Rank(S, k)
  BY <1>1, RankGrows, Zenon
<1>3. Rank(S, 0) \in Nat /\ Rank(S, k) \in Nat /\ Rank(S, k) <= Cardinality(S)
      /\ Cardinality(S) \in Nat
  BY PositionsFinite, Zenon
<1> QED BY <1>2, <1>3

\* Every number up to the size of the set is the count of one of its members.
LEMMA RankReached ==
    ASSUME NEW n \in Nat, NEW S \in SUBSET (1..n), NEW i \in 1..Cardinality(S)
    PROVE  \E k \in S : Rank(S, k) = i
<1> DEFINE T == 1..Cardinality(S)
           f == [k \in S |-> Rank(S, k)]
<1>1. IsFiniteSet(S) /\ Cardinality(S) \in Nat
  BY PositionsFinite, Zenon
<1>2. IsFiniteSet(T) /\ Cardinality(T) = Cardinality(S)
  BY <1>1, FS_Interval
<1>3. f \in [S -> T]
  BY RankBounds, Zenon
<1>4. ASSUME NEW a \in S, NEW b \in S, f[a] = f[b]
      PROVE  a = b
  <2>1. a \in Nat /\ b \in Nat /\ Rank(S, a) = Rank(S, b)
    BY <1>4
  <2>2. Rank(S, a) \in Nat
    BY PositionsFinite, Zenon
  <2>3. ~(a < b)
    <3> SUFFICES ASSUME a < b PROVE FALSE BY Zenon
    <3>1. Rank(S, a) < Rank(S, b)
      BY <2>1, RankGrows, Zenon
    <3> QED BY <2>1, <2>2, <3>1
  <2>4. ~(b < a)
    <3> SUFFICES ASSUME b < a PROVE FALSE BY Zenon
    <3>1. Rank(S, b) < Rank(S, a)
      BY <2>1, RankGrows, Zenon
    <3> QED BY <2>1, <2>2, <3>1
  <2> QED BY <2>1, <2>3, <2>4
<1> HIDE DEF f, T
<1>5. f \in Injection(S, T)
  BY <1>3, <1>4, Zenon DEF Injection, IsInjective
<1>6. f \in Surjection(S, T)
  BY <1>1, <1>2, <1>5, FS_Injection, Zenon
<1>7. \A t \in T : \E k \in S : f[k] = t
  BY <1>6, Zenon DEF Surjection
<1> QED BY <1>7, Zenon DEF f, T

\* Taking positions out of 1..n moves the ones that stay forward, each by the
\* number of those taken before it.
LEMMA RankOfRest ==
    ASSUME NEW n \in Nat, NEW S \in SUBSET (1..n), NEW k \in 1..n
    PROVE  /\ Rank(1..n \ S, k) = k - Rank(S, k)
           /\ Cardinality(1..n \ S) = n - Cardinality(S)
<1> DEFINE A == {j \in S : j <= k}
<1>1. k \in Int /\ 1 \in Int /\ n \in Int
  OBVIOUS
<1>2. IsFiniteSet(1..k) /\ Cardinality(1..k) = k
  BY <1>1, FS_Interval
<1>3. IsFiniteSet(1..n) /\ Cardinality(1..n) = n
  BY <1>1, FS_Interval
<1>4. (1..k) \cap A = A /\ (1..n) \cap S = S
  <2>1. \A j \in A : j \in 1..k
    OBVIOUS
  <2> QED BY <2>1, Zenon
<1>5. (1..k) \ A = {j \in 1..n \ S : j <= k}
  <2>1. \A j : j \in 1..k <=> j \in 1..n /\ j <= k
    OBVIOUS
  <2> QED BY <2>1, Zenon
<1> HIDE DEF A
<1>6. Cardinality((1..k) \ A) = Cardinality(1..k) - Cardinality((1..k) \cap A)
  BY <1>2, FS_Difference, Zenon
<1>7. Cardinality((1..n) \ S) = Cardinality(1..n) - Cardinality((1..n) \cap S)
  BY <1>3, FS_Difference, Zenon
<1>8. Rank(S, k) = Cardinality(A) /\ Rank(1..n \ S, k) = Cardinality((1..k) \ A)
  BY <1>5, Zenon DEF Rank, A
<1> QED BY <1>2, <1>3, <1>4, <1>6, <1>7, <1>8, Zenon

\* A task that may be asked about and is not has a whole page of such tasks
\* before it that are (nextStoreValidationBatch).
LEMMA FirstPageBefore ==
    ASSUME NEW n \in Nat, NEW S \in SUBSET (1..n), NEW k \in S, k \notin FirstPage(S)
    PROVE  PageSize <= Rank(FirstPage(S), k)
<1> DEFINE E == {j \in S : j < k}
           F == {j \in FirstPage(S) : j <= k}
           first == [i \in 1..PageSize |-> CHOOSE x \in E : Rank(E, x) = i]
<1>1. PageSize \in Nat /\ k \in Nat
  BY StoreAssumption
<1>2. E \in SUBSET (1..n) /\ F \in SUBSET (1..n)
  BY Zenon DEF FirstPage
<1>3. IsFiniteSet(E) /\ Cardinality(E) \in Nat /\ IsFiniteSet(F)
  BY <1>2, PositionsFinite, Zenon
<1>4. PageSize <= Cardinality(E)
  BY <1>1, <1>3 DEF FirstPage
<1>5. ASSUME NEW i \in 1..PageSize
      PROVE  first[i] \in E /\ Rank(E, first[i]) = i
  <2>1. i \in 1..Cardinality(E)
    BY <1>1, <1>3, <1>4
  <2> HIDE DEF E
  <2>2. \E x \in E : Rank(E, x) = i
    BY <1>2, <2>1, RankReached, Zenon
  <2> QED BY <2>2, Zenon
<1>6. ASSUME NEW i \in 1..PageSize
      PROVE  first[i] \in F
  <2> DEFINE x == first[i]
  <2>1. x \in E /\ Rank(E, x) = i
    BY <1>5, Zenon
  <2> HIDE DEF first, x
  <2>2. x \in S /\ x \in Nat /\ x < k
    BY <2>1
  <2>3. {j \in S : j < x} = {j \in E : j < x}
    <3>1. \A j \in S : j < x => j < k
      BY <1>1, <2>2
    <3> QED BY <3>1, Zenon
  <2>4. Cardinality({j \in E : j < x}) < Rank(E, x)
    <3> DEFINE A == {j \in E : j < x}
               B == {j \in E : j <= x}
    <3>1. A \in SUBSET B /\ x \in B /\ x \notin A /\ B \in SUBSET E
      <4>1. \A j \in E : j \in Nat
        BY <1>2
      <4>2. \A j \in E : j < x => j <= x
        BY <2>2, <4>1
      <4>3. x <= x /\ ~(x < x)
        BY <2>2
      <4> QED BY <2>1, <4>2, <4>3, Zenon
    <3> HIDE DEF A, B, E
    <3>2. IsFiniteSet(B)
      BY <1>3, <3>1, FS_Subset, Zenon
    <3>3. IsFiniteSet(A) /\ Cardinality(A) <= Cardinality(B)
          /\ Cardinality(A) # Cardinality(B)
      BY <3>1, <3>2, FS_Subset, Zenon
    <3>4. Cardinality(A) \in Nat /\ Cardinality(B) \in Nat
      BY <3>2, <3>3, FS_CardinalityType, Zenon
    <3>5. Cardinality(A) < Cardinality(B)
      BY <3>3, <3>4
    <3> QED BY <3>5, Zenon DEF A, B, Rank
  <2>5. Cardinality({j \in E : j < x}) < PageSize
    <3> DEFINE A == {j \in E : j < x}
    <3>1. A \in SUBSET (1..n)
      BY <1>2, Zenon
    <3> HIDE DEF A
    <3>2. Cardinality(A) \in Nat
      BY <3>1, PositionsFinite, Zenon
    <3>3. Cardinality(A) < i
      BY <2>1, <2>4, Zenon DEF A
    <3>4. Cardinality(A) < PageSize
      BY <1>1, <3>2, <3>3
    <3> QED BY <3>4, Zenon DEF A
  <2>6. x \in FirstPage(S)
    BY <2>2, <2>3, <2>5, Zenon DEF FirstPage
  <2>7. x <= k
    BY <1>1, <2>2
  <2> QED BY <2>6, <2>7, Zenon DEF x
<1>7. \A i, j \in 1..PageSize : first[i] = first[j] => i = j
  <2> SUFFICES ASSUME NEW i \in 1..PageSize, NEW j \in 1..PageSize, first[i] = first[j]
               PROVE  i = j
    BY Zenon
  <2>1. Rank(E, first[i]) = i /\ Rank(E, first[j]) = j
    BY <1>5, Zenon
  <2> HIDE DEF first, E
  <2> QED BY <2>1, Zenon
<1>8. first \in [1..PageSize -> F]
  <2>1. first = [i \in 1..PageSize |-> first[i]]
    OBVIOUS
  <2> HIDE DEF first, F
  <2> QED BY <1>6, <2>1, Zenon
<1> HIDE DEF first, F
<1>9. first \in Injection(1..PageSize, F)
  BY <1>7, <1>8, Zenon DEF Injection, IsInjective
<1>10. Cardinality(1..PageSize) <= Cardinality(F)
  BY <1>3, <1>9, FS_Injection, Zenon
<1>11. Cardinality(1..PageSize) = PageSize
  BY <1>1, FS_Interval
<1> QED BY <1>10, <1>11, Zenon DEF F, Rank

\* The tasks that are not asked about keep their order and move forward, each by
\* the number of tasks asked about before it.
LEMMA RestTasks ==
    ASSUME order \in Seq(Requests), NEW S \in SUBSET (1..Len(order)),
           NEW i \in 1..(Len(order) - Cardinality(S))
    PROVE  \E k \in 1..Len(order) \ S :
              Rest(S)[i] = order[k] /\ i = k - Rank(S, k)
<1> DEFINE n == Len(order)
           D == 1..n \ S
           k == CHOOSE x \in D : Cardinality({j \in D : j <= x}) = i
<1>1. n \in Nat /\ DOMAIN order = 1..n
  OBVIOUS
<1>2. Rest(S)[i] = order[k]
  BY <1>1, Zenon DEF Rest
<1> HIDE DEF n
<1>3. Cardinality(D) = n - Cardinality(S)
  <2>1. IsFiniteSet(1..n) /\ Cardinality(1..n) = n
    BY <1>1, FS_Interval
  <2>2. (1..n) \cap S = S
    BY Zenon DEF n
  <2>3. Cardinality((1..n) \ S) = Cardinality(1..n) - Cardinality((1..n) \cap S)
    BY <2>1, FS_Difference, Zenon
  <2> QED BY <2>1, <2>2, <2>3, Zenon
<1>4. D \in SUBSET (1..n) /\ i \in 1..Cardinality(D)
  BY <1>3, Zenon DEF n
<1> HIDE DEF D
<1>5. \E x \in D : Rank(D, x) = i
  BY <1>1, <1>4, RankReached, Zenon
<1>6. k \in D /\ Rank(D, k) = i
  BY <1>5, Zenon DEF Rank
<1> HIDE DEF k
<1>7. k \in 1..n
  BY <1>4, <1>6, Zenon
<1>8. S \in SUBSET (1..n)
  BY Zenon DEF n
<1>9. Rank(D, k) = k - Rank(S, k)
  BY <1>1, <1>7, <1>8, RankOfRest, Zenon DEF D
<1> QED BY <1>2, <1>6, <1>9, Zenon DEF D, n

\* g tells where each task of a new order was in the old one: the tasks at S are
\* the ones asked about, and the others moved forward.
Reordered(new, S, tasks, g) ==
    /\ \A p \in 1..Len(order) :
         /\ new[p] = order[g[p]]
         /\ g[p] \in S => InSeq(order[g[p]], tasks)
         /\ g[p] \notin S => p = g[p] - Rank(S, g[p])
    /\ \A p, q \in 1..Len(order) : g[p] = g[q] => p = q

\* The new order holds the tasks of the old one, each once: those asked about at
\* the end, the others where RestTasks puts them (storeValidationKey after
\* checkMsgsInStore has set it).
LEMMA AskReorders ==
    ASSUME order \in Seq(Requests), NEW S \in SUBSET (1..Len(order)),
           NEW f \in Orders(S), NEW tasks, tasks = [i \in DOMAIN f |-> order[f[i]]]
    PROVE  /\ tasks \in Seq(Requests) /\ Len(tasks) = Cardinality(S)
           /\ Rest(S) \o tasks \in Seq(Requests)
           /\ Len(Rest(S) \o tasks) = Len(order)
           /\ \A i \in DOMAIN tasks : InSeq(tasks[i], Rest(S) \o tasks)
           /\ \E g \in [1..Len(order) -> 1..Len(order)] :
                Reordered(Rest(S) \o tasks, S, tasks, g)
<1> DEFINE n == Len(order)
           c == Cardinality(S)
           m == n - c
           rest == Rest(S)
<1>1. n \in Nat /\ DOMAIN order = 1..n /\ \A k \in 1..n : order[k] \in Requests
  OBVIOUS
<1>2. c \in Nat /\ c <= n
  BY <1>1, PositionsFinite, Zenon
<1>3. m \in Nat /\ m \in Int /\ n = m + c
  BY <1>1, <1>2
<1>4. /\ f \in [1..c -> S] /\ DOMAIN f = 1..c
      /\ \A i, j \in 1..c : f[i] = f[j] => i = j
  BY Zenon DEF Orders
<1>5. \A i \in 1..c : f[i] \in S /\ f[i] \in 1..n
  BY <1>4, Zenon
<1>6. \A i \in 1..m : \E k \in 1..n \ S : rest[i] = order[k] /\ i = k - Rank(S, k)
  BY RestTasks, Zenon
<1>7. rest = [i \in 1..m |-> rest[i]]
  BY DEF Rest
<1> HIDE DEF n, c, rest
<1>8. rest \in Seq(Requests) /\ Len(rest) = m
  <2>1. \A i \in 1..m : rest[i] \in Requests
    BY <1>1, <1>6, Zenon
  <2>2. rest \in [1..m -> Requests]
    BY <1>7, <2>1, Zenon
  <2> HIDE DEF m
  <2> QED BY <1>3, <2>2
<1>9. tasks \in Seq(Requests) /\ Len(tasks) = c
  <2>1. \A i \in 1..c : order[f[i]] \in Requests
    BY <1>1, <1>5, Zenon
  <2>2. tasks \in [1..c -> Requests]
    BY <1>4, <2>1, Zenon
  <2> QED BY <1>2, <2>2
<1>10. \A i \in 1..c : tasks[i] = order[f[i]]
  BY <1>4, Zenon
<1> DEFINE new == rest \o tasks
           kept == [i \in 1..m |-> CHOOSE k \in 1..n \ S :
                                      rest[i] = order[k] /\ i = k - Rank(S, k)]
           g == [p \in 1..n |-> IF p <= m THEN kept[p] ELSE f[p - m]]
<1>11. \A i \in 1..m : /\ kept[i] \in 1..n \ S /\ rest[i] = order[kept[i]]
                       /\ i = kept[i] - Rank(S, kept[i])
  BY <1>6, Zenon
<1> HIDE DEF m, kept
<1>12. /\ new \in Seq(Requests) /\ Len(new) = n
       /\ \A p \in 1..n : new[p] = IF p <= m THEN rest[p] ELSE tasks[p - m]
  BY <1>3, <1>8, <1>9
<1>13. ASSUME NEW p \in 1..n
       PROVE  /\ g[p] \in 1..n /\ new[p] = order[g[p]]
              /\ g[p] \in S => InSeq(order[g[p]], tasks)
              /\ g[p] \notin S => p = g[p] - Rank(S, g[p])
              /\ p <= m => p \in 1..m /\ g[p] = kept[p] /\ g[p] \notin S
              /\ ~(p <= m) => p - m \in 1..c /\ g[p] = f[p - m] /\ g[p] \in S
  <2>1. CASE p <= m
    <3>1. p \in 1..m /\ g[p] = kept[p]
      BY <1>3, <2>1
    <3> HIDE DEF g, new
    <3>2. new[p] = rest[p]
      BY <1>12, <2>1, Zenon
    <3> QED BY <1>11, <2>1, <3>1, <3>2, Zenon
  <2>2. CASE ~(p <= m)
    <3>1. p - m \in 1..c /\ g[p] = f[p - m]
      BY <1>2, <1>3, <2>2
    <3> HIDE DEF g, new
    <3>2. new[p] = tasks[p - m]
      BY <1>12, <2>2, Zenon
    <3>3. f[p - m] \in S /\ f[p - m] \in 1..n /\ tasks[p - m] = order[f[p - m]]
      BY <1>5, <1>10, <3>1, Zenon
    <3>4. DOMAIN tasks = 1..c
      BY <1>9
    <3>5. InSeq(order[f[p - m]], tasks)
      BY <3>1, <3>3, <3>4, Zenon DEF InSeq
    <3> QED BY <2>2, <3>1, <3>2, <3>3, <3>5
  <2> QED BY <2>1, <2>2, Zenon
<1>14. g \in [1..n -> 1..n]
  <2>1. g = [p \in 1..n |-> g[p]]
    BY Zenon
  <2> HIDE DEF g
  <2> QED BY <1>13, <2>1, Zenon
<1> HIDE DEF g, new
<1>15. ASSUME NEW p \in 1..n, NEW q \in 1..n, g[p] = g[q]
       PROVE  p = q
  <2>1. CASE g[p] \in S
    <3>1. ~(p <= m) /\ ~(q <= m)
      BY <1>13, <1>15, <2>1, Zenon
    <3>2. p - m \in 1..c /\ q - m \in 1..c /\ f[p - m] = f[q - m]
      BY <1>13, <1>15, <3>1, Zenon
    <3>3. p - m = q - m
      BY <1>4, <3>2, Zenon
    <3> QED BY <1>1, <1>3, <3>3
  <2>2. CASE g[p] \notin S
    <3>1. p = g[p] - Rank(S, g[p]) /\ q = g[q] - Rank(S, g[q])
      BY <1>13, <1>15, <2>2, Zenon
    <3> QED BY <1>15, <3>1, Zenon
  <2> QED BY <2>1, <2>2, Zenon
<1>16. Reordered(new, S, tasks, g)
  BY <1>13, <1>15, Zenon DEF Reordered, n
<1>17. \E h \in [1..n -> 1..n] : Reordered(new, S, tasks, h)
  BY <1>14, <1>16, Zenon
<1>18. \A i \in DOMAIN tasks : InSeq(tasks[i], new)
  <2>1. \A i \in DOMAIN tasks : InSeq(tasks[i], tasks)
    BY Zenon DEF InSeq
  <2> QED BY <1>8, <1>9, <2>1, ConcatMembers, Zenon DEF new
<1> QED BY <1>8, <1>9, <1>12, <1>17, <1>18, Zenon DEF n, c, new, rest

----------------------------------------------------------------------------
(* The tasks of the queue.                                                 *)

\* The messages are finitely many.
LEMMA HashesFinite ==
    /\ IsFiniteSet(Hashes) /\ Cardinality(Hashes) \in Nat
    /\ Requests # {} => Cardinality(Hashes) >= 1
<1> DEFINE f == [r \in Requests |-> HashOf[r]]
<1>1. f \in [Requests -> Hashes] /\ \A h \in Hashes : \E r \in Requests : f[r] = h
  BY Zenon DEF Hashes
<1>2. f \in Surjection(Requests, Hashes)
  <2> HIDE DEF f
  <2> QED BY <1>1, Zenon DEF Surjection
<1>3. IsFiniteSet(Hashes)
  <2> HIDE DEF f
  <2> QED BY <1>2, StoreAssumption, FS_Surjection, Zenon
<1>4. Cardinality(Hashes) \in Nat
  BY <1>3, FS_CardinalityType, Zenon
<1>5. Requests # {} => Hashes # {}
  BY Zenon DEF Hashes
<1>6. Hashes # {} => Cardinality(Hashes) # 0
  BY <1>3, FS_EmptySet, Zenon
<1> QED BY <1>3, <1>4, <1>5, <1>6

\* A queue that has no message twice is no longer than there are messages.
LEMMA QueueFits ==
    ASSUME NEW q \in Seq(Requests), OncePerHash(q)
    PROVE  Len(q) <= Cardinality(Hashes)
<1> DEFINE n == Len(q)
           f == [i \in 1..n |-> HashOf[q[i]]]
<1>1. n \in Nat /\ DOMAIN q = 1..n /\ \A i \in 1..n : q[i] \in Requests
  OBVIOUS
<1>2. f \in [1..n -> Hashes]
  BY <1>1, Zenon DEF Hashes
<1>3. \A i, j \in 1..n : f[i] = f[j] => i = j
  BY <1>1, Zenon DEF OncePerHash
<1> HIDE DEF f, n
<1>4. f \in Injection(1..n, Hashes)
  BY <1>2, <1>3, Zenon DEF Injection, IsInjective
<1>5. Cardinality(1..n) <= Cardinality(Hashes)
  BY <1>4, HashesFinite, FS_Injection, Zenon
<1>6. Cardinality(1..n) = n
  BY <1>1, FS_Interval
<1> QED BY <1>5, <1>6, Zenon DEF n

\* Who leaves a queue moves no one back.
LEMMA WithoutPlaces ==
    ASSUME NEW S, NEW q \in Seq(S), NEW x
    PROVE  /\ Len(Without(q, x)) = IF InSeq(x, q) THEN Len(q) - 1 ELSE Len(q)
           /\ \A i \in 1..Len(Without(q, x)) :
                \E j \in 1..Len(q) : Without(q, x)[i] = q[j] /\ i <= j
<1>1. CASE InSeq(x, q)
  <2> DEFINE k == CHOOSE i \in DOMAIN q : q[i] = x
             r == [i \in 1..(Len(q) - 1) |-> IF i < k THEN q[i] ELSE q[i + 1]]
  <2>1. Without(q, x) = r
    BY <1>1, Zenon DEF Without
  <2>2. Len(q) \in Nat \ {0} /\ DOMAIN q = 1..Len(q)
    BY <1>1 DEF InSeq
  <2>3. k \in 1..Len(q)
    BY <1>1, <2>2, Zenon DEF InSeq
  <2> HIDE DEF k
  <2>4. ASSUME NEW i \in 1..(Len(q) - 1)
        PROVE  \E j \in 1..Len(q) : r[i] = q[j] /\ i <= j
    <3>1. i \in 1..Len(q) /\ i + 1 \in 1..Len(q) /\ i <= i /\ i <= i + 1
      BY <2>2
    <3>2. r[i] = q[i] \/ r[i] = q[i + 1]
      BY Zenon
    <3> HIDE DEF r
    <3> QED BY <3>1, <3>2, Zenon
  <2>5. r \in Seq(S)
    BY <2>1, WithoutType, Zenon
  <2>6. Len(r) = Len(q) - 1
    BY <2>2, <2>5
  <2> HIDE DEF r
  <2> QED BY <1>1, <2>1, <2>4, <2>6, Zenon
<1>2. CASE ~InSeq(x, q)
  <2>1. Without(q, x) = q /\ Len(q) \in Nat
    BY <1>2 DEF Without
  <2>2. \A i \in 1..Len(q) : q[i] = q[i] /\ i <= i
    BY <2>1
  <2> QED BY <1>2, <2>1, <2>2, Zenon
<1> QED BY <1>1, <1>2, Zenon

\* A queue has a task once if it has its message once.
LEMMA OncePerTask ==
    ASSUME NEW q \in Seq(Requests), OncePerHash(q)
    PROVE  Distinct(q)
BY Zenon DEF OncePerHash, Distinct

\* In a queue whose tasks have their turn no task is passed over for long.
LEMMA TurnsBound ==
    ASSUME SVTypeOK, TurnComes
    PROVE  NoStarvation
<1> SUFFICES ASSUME NEW r \in Requests
             PROVE  passedOver[r] * PageSize <= Cardinality(Hashes) - 1
  BY Zenon DEF NoStarvation
<1>1. passedOver[r] \in Nat /\ PageSize \in Nat
  BY StoreAssumption, Zenon DEF SVTypeOK
<1>2. passedOver[r] * PageSize \in Nat
  BY <1>1
<1>3. Cardinality(Hashes) \in Nat /\ Cardinality(Hashes) >= 1
  BY HashesFinite, Zenon
<1>4. CASE InSeq(r, order)
  <2>1. PICK p \in DOMAIN order : order[p] = r
    BY <1>4, Zenon DEF InSeq
  <2>2. p \in Nat /\ p >= 1
    <3>1. order \in Seq(Requests)
      BY Zenon DEF SVTypeOK
    <3> QED BY <3>1
  <2>3. passedOver[r] * PageSize + p <= Cardinality(Hashes)
    BY <2>1, Zenon DEF TurnComes
  <2> QED BY <1>2, <1>3, <2>2, <2>3
<1>5. CASE ~InSeq(r, order)
  <2>1. passedOver[r] = 0
    BY <1>5, Zenon DEF TurnComes
  <2>2. 0 * PageSize = 0
    BY <1>1
  <2> QED BY <1>3, <2>1, <2>2
<1> QED BY <1>4, <1>5, Zenon

----------------------------------------------------------------------------
(* The steps.                                                              *)

\* A step that leaves the queue and its turns alone, and asks about no new batch,
\* keeps every message once in the queue and in the batch, and keeps the turns.
LEMMA SameQueue ==
    ASSUME StoreInv, order' = order, passedOver' = passedOver,
           batch' = batch \/ batch' = <<>>
    PROVE  OncePerHash(order') /\ OncePerHash(batch') /\ TurnComes'
<1>1. OncePerHash(order')
  BY Zenon DEF StoreInv, RoundsInv
<1>2. OncePerHash(batch')
  <2>1. CASE batch' = batch
    BY <2>1, Zenon DEF StoreInv, RoundsInv
  <2>2. CASE batch' = <<>>
    BY <2>2 DEF OncePerHash
  <2> QED BY <2>1, <2>2, Zenon
<1>3. TurnComes'
  BY Zenon DEF StoreInv, RoundsInv, TurnComes, Hashes
<1> QED BY <1>1, <1>2, <1>3, Zenon

\* A task joins the queue: its message is not there, and it was never passed over
\* since it left (waitForStoreValidation).
LEMMA PropagatesKeeps ==
    ASSUME StoreInv, NEW r \in Requests, Propagates(r)
    PROVE  RoundsInv'
<1> USE DEF Propagates
<1>1. /\ order \in Seq(Requests) /\ Len(order) \in Nat /\ DOMAIN order = 1..Len(order)
      /\ ripe \in 0..Len(order) /\ ~InSeq(r, order)
      /\ \A i \in 1..Len(order) : order[i] \in Requests
  <2>1. order \in Seq(Requests) /\ ripe \in 0..Len(order) /\ ~InSeq(r, order)
    BY Zenon DEF StoreInv, RoundsInv, SVInv, SVTypeOK
  <2> QED BY <2>1
<1>2. /\ order' \in Seq(Requests) /\ Len(order') = Len(order) + 1
      /\ DOMAIN order' = 1..(Len(order) + 1)
      /\ \A i \in 1..Len(order) : order'[i] = order[i]
      /\ order'[Len(order) + 1] = r
      /\ \A y : InSeq(y, order') <=> InSeq(y, order) \/ y = r
  BY <1>1, AppendMembers
<1>3. SVTypeOK'
  <2>1. ripe' \in 0..Len(order')
    BY <1>1, <1>2
  <2>2. waits' \in [Requests -> {"none", "pending", "complete", "cancelled", "over"}]
    BY Zenon DEF StoreInv, RoundsInv, SVInv, SVTypeOK
  <2> QED BY <1>2, <2>1, <2>2, Zenon DEF StoreInv, RoundsInv, SVInv, SVTypeOK
<1>4. SVInv'
  BY <1>3, Zenon DEF StoreInv, RoundsInv, SVInv
<1>5. OncePerHash(order')
  <2> SUFFICES ASSUME NEW i \in 1..(Len(order) + 1), NEW j \in 1..(Len(order) + 1),
                      HashOf[order'[i]] = HashOf[order'[j]]
               PROVE  i = j
    BY <1>2 DEF OncePerHash
  <2>1. CASE i \in 1..Len(order) /\ j \in 1..Len(order)
    BY <1>1, <1>2, <2>1 DEF StoreInv, RoundsInv, OncePerHash
  <2>2. CASE i \notin 1..Len(order) /\ j \notin 1..Len(order)
    BY <1>1, <2>2
  <2>3. CASE i \in 1..Len(order) /\ j \notin 1..Len(order)
    <3>1. j = Len(order) + 1
      BY <1>1, <2>3
    <3> QED BY <1>1, <1>2, <2>3, <3>1, Zenon
  <2>4. CASE i \notin 1..Len(order) /\ j \in 1..Len(order)
    <3>1. i = Len(order) + 1
      BY <1>1, <2>4
    <3> QED BY <1>1, <1>2, <2>4, <3>1, Zenon
  <2> QED BY <2>1, <2>2, <2>3, <2>4, Zenon
<1>6. TurnComes'
  <2>1. passedOver[r] = 0 /\ PageSize \in Nat /\ 0 * PageSize = 0
    BY <1>1, StoreAssumption DEF StoreInv, RoundsInv, TurnComes
  <2>2. Len(order') <= Cardinality(Hashes)
    BY <1>2, <1>5, QueueFits, Zenon
  <2>3. ASSUME NEW p \in 1..(Len(order) + 1)
        PROVE  passedOver[order'[p]] * PageSize + p <= Cardinality(Hashes)
    <3>1. CASE p \in 1..Len(order)
      BY <1>1, <1>2, <3>1, Zenon DEF StoreInv, RoundsInv, TurnComes
    <3>2. CASE p \notin 1..Len(order)
      <4>1. p = Len(order) + 1
        BY <1>1, <3>2
      <4>2. passedOver[order'[p]] * PageSize = 0
        BY <1>2, <2>1, <4>1
      <4> QED BY <1>1, <1>2, <2>2, <4>1, <4>2
    <3> QED BY <3>1, <3>2, Zenon
  <2>4. ASSUME NEW q \in Requests, ~InSeq(q, order')
        PROVE  passedOver[q] = 0
    BY <1>2, <2>4, Zenon DEF StoreInv, RoundsInv, TurnComes
  <2> QED BY <1>2, <2>3, <2>4, Zenon DEF TurnComes, Hashes
<1>7. OncePerHash(batch')
  BY Zenon DEF StoreInv, RoundsInv, OncePerHash
<1> QED BY <1>4, <1>5, <1>6, <1>7, Zenon DEF StoreInv, RoundsInv

\* A task leaves the queue, and everyone behind it moves forward (finish).
LEMMA LeavesKeeps ==
    ASSUME StoreInv, NEW r \in Requests, Leaves(r)
    PROVE  RoundsInv'
<1> USE DEF Leaves
<1>1. /\ order \in Seq(Requests) /\ Len(order) \in Nat /\ DOMAIN order = 1..Len(order)
      /\ ripe \in 0..Len(order) /\ Distinct(order)
  BY OncePerTask DEF StoreInv, RoundsInv, SVInv, SVTypeOK
<1>2. /\ order' \in Seq(Requests) /\ DOMAIN order' = 1..Len(order')
      /\ Len(order') \in Nat /\ Distinct(order')
      /\ \A y : InSeq(y, order') <=> InSeq(y, order) /\ y # r
  <2>1. order' \in Seq(Requests)
    BY <1>1, WithoutType, Zenon
  <2> QED BY <1>1, <2>1, WithoutMembers
<1>3. /\ Len(order') = IF InSeq(r, order) THEN Len(order) - 1 ELSE Len(order)
      /\ \A i \in 1..Len(order') :
           \E j \in 1..Len(order) : order'[i] = order[j] /\ i <= j
  BY <1>1, WithoutPlaces, Zenon
<1>4. ripe' \in 0..Len(order')
  <2>1. CASE \E i \in 1..ripe : order[i] = r
    <3>1. PICK i \in 1..ripe : order[i] = r
      BY <2>1, Zenon
    <3>2. ripe' = ripe - 1 /\ i \in DOMAIN order /\ ripe >= 1
      BY <1>1, <2>1
    <3>3. InSeq(r, order)
      BY <3>1, <3>2, Zenon DEF InSeq
    <3> QED BY <1>1, <1>3, <3>2, <3>3
  <2>2. CASE ~\E i \in 1..ripe : order[i] = r
    <3>1. ripe' = ripe
      BY <2>2, Zenon
    <3>2. CASE InSeq(r, order)
      <4>1. PICK i \in 1..Len(order) : order[i] = r
        BY <1>1, <3>2, Zenon DEF InSeq
      <4>2. ~(i <= ripe)
        BY <1>1, <2>2, <4>1
      <4> QED BY <1>1, <1>3, <3>1, <3>2, <4>2
    <3>3. CASE ~InSeq(r, order)
      BY <1>1, <1>3, <3>1, <3>3, Zenon
    <3> QED BY <3>2, <3>3, Zenon
  <2> QED BY <2>1, <2>2, Zenon
<1>5. SVTypeOK'
  <2>1. waits' \in [Requests -> {"none", "pending", "complete", "cancelled", "over"}]
    BY Zenon DEF StoreInv, RoundsInv, SVInv, SVTypeOK
  <2>2. passedOver' \in [Requests -> Nat]
    BY Zenon DEF StoreInv, RoundsInv, SVInv, SVTypeOK
  <2> QED BY <1>2, <1>4, <2>1, <2>2, Zenon DEF StoreInv, RoundsInv, SVInv, SVTypeOK
<1>6. SVInv'
  BY <1>5, Zenon DEF StoreInv, RoundsInv, SVInv
<1>7. OncePerHash(order')
  <2> SUFFICES ASSUME NEW a \in 1..Len(order'), NEW b \in 1..Len(order'),
                      HashOf[order'[a]] = HashOf[order'[b]]
               PROVE  a = b
    BY <1>2, Zenon DEF OncePerHash
  <2>1. PICK i \in 1..Len(order) : order'[a] = order[i]
    BY <1>3, Zenon
  <2>2. PICK j \in 1..Len(order) : order'[b] = order[j]
    BY <1>3, Zenon
  <2>3. i = j
    BY <1>1, <2>1, <2>2 DEF StoreInv, RoundsInv, OncePerHash
  <2>4. a \in DOMAIN order' /\ b \in DOMAIN order' /\ order'[a] = order'[b]
    BY <1>2, <2>1, <2>2, <2>3, Zenon
  <2> HIDE DEF Leaves
  <2> QED BY <1>2, <2>4, Zenon DEF Distinct
<1>8. TurnComes'
  <2>1. /\ \A q \in Requests : passedOver[q] \in Nat
        /\ \A q \in Requests : passedOver'[q] = IF q = r THEN 0 ELSE passedOver[q]
    BY Zenon DEF StoreInv, RoundsInv, SVInv, SVTypeOK
  <2>2. ASSUME NEW p \in 1..Len(order')
        PROVE  passedOver'[order'[p]] * PageSize + p <= Cardinality(Hashes)
    <3>1. PICK j \in 1..Len(order) : order'[p] = order[j] /\ p <= j
      BY <1>3, Zenon
    <3>2. InSeq(order'[p], order')
      BY <1>2, Zenon DEF InSeq
    <3>3. order'[p] # r /\ order'[p] \in Requests
      BY <1>2, <3>2
    <3>4. passedOver'[order'[p]] = passedOver[order[j]] /\ passedOver[order[j]] \in Nat
      BY <2>1, <3>1, <3>3, Zenon
    <3>5. passedOver[order[j]] * PageSize + j <= Cardinality(Hashes)
      BY <1>1, Zenon DEF StoreInv, RoundsInv, TurnComes
    <3>6. passedOver[order[j]] * PageSize \in Nat
      BY <3>4, StoreAssumption
    <3> HIDE DEF Leaves
    <3> QED BY <1>1, <1>2, <3>1, <3>4, <3>5, <3>6, HashesFinite
  <2>3. ASSUME NEW q \in Requests, ~InSeq(q, order')
        PROVE  passedOver'[q] = 0
    BY <1>2, <2>1, <2>3, Zenon DEF StoreInv, RoundsInv, TurnComes
  <2> QED BY <1>2, <2>2, <2>3, Zenon DEF TurnComes, Hashes
<1>9. OncePerHash(batch')
  BY Zenon DEF StoreInv, RoundsInv, OncePerHash
<1> QED BY <1>6, <1>7, <1>8, <1>9, Zenon DEF StoreInv, RoundsInv

\* A query asks about the first page of the tasks that may be asked about, and
\* gives them the newest keys (checkMsgsInStore up to its query).
LEMMA AskKeeps ==
    ASSUME StoreInv, Ask
    PROVE  RoundsInv' /\ \A i \in DOMAIN batch' : InSeq(batch'[i], order')
<1> DEFINE n == Len(order)
<1>0. PICK S : S = NextStoreValidationBatch
  BY Zenon
<1>1. PICK f \in Orders(S) :
         LET tasks == [i \in DOMAIN f |-> order[f[i]]] IN
         /\ batch' = tasks
         /\ order' = Rest(S) \o tasks
         /\ ripe' = ripe - Cardinality(S)
         /\ passedOver' = [r \in Requests |->
              IF InSeq(r, tasks) THEN 0
              ELSE IF \E i \in Eligible : order[i] = r THEN passedOver[r] + 1
              ELSE passedOver[r]]
  BY <1>0, Zenon DEF Ask
<1>2. batch' = [i \in DOMAIN f |-> order[f[i]]] /\ order' = Rest(S) \o batch'
  BY <1>1, Zenon
<1>3. /\ order \in Seq(Requests) /\ n \in Nat /\ DOMAIN order = 1..n
      /\ ripe \in 0..n /\ Distinct(order)
      /\ \A i \in 1..n : order[i] \in Requests
  BY OncePerTask DEF StoreInv, RoundsInv, SVInv, SVTypeOK
<1>4. /\ Eligible \in SUBSET (1..ripe) /\ S \in SUBSET (1..ripe)
      /\ Eligible \in SUBSET (1..n) /\ S \in SUBSET (1..n)
  BY <1>0, <1>3 DEF Eligible, NextStoreValidationBatch, FirstPage
<1>5. Cardinality(S) \in Nat /\ Cardinality(S) <= ripe
  BY <1>3, <1>4, PositionsFinite
<1>6. /\ batch' \in Seq(Requests) /\ Len(batch') = Cardinality(S)
      /\ order' \in Seq(Requests) /\ Len(order') = n
      /\ \A i \in DOMAIN batch' : InSeq(batch'[i], order')
      /\ \E g \in [1..n -> 1..n] : Reordered(order', S, batch', g)
  <2>0. PICK tasks : tasks = batch'
    BY Zenon
  <2>1. tasks = [i \in DOMAIN f |-> order[f[i]]] /\ order' = Rest(S) \o tasks
    BY <1>2, <2>0, Zenon
  <2>2. /\ tasks \in Seq(Requests) /\ Len(tasks) = Cardinality(S)
        /\ Rest(S) \o tasks \in Seq(Requests)
        /\ Len(Rest(S) \o tasks) = Len(order)
        /\ \A i \in DOMAIN tasks : InSeq(tasks[i], Rest(S) \o tasks)
        /\ \E g \in [1..Len(order) -> 1..Len(order)] :
             Reordered(Rest(S) \o tasks, S, tasks, g)
    BY <1>3, <1>4, <2>1, AskReorders, Zenon
  <2> QED BY <2>0, <2>1, <2>2, Zenon
<1>7. PICK g \in [1..n -> 1..n] :
           /\ \A p \in 1..n :
                /\ order'[p] = order[g[p]]
                /\ g[p] \in S => InSeq(order[g[p]], batch')
                /\ g[p] \notin S => p = g[p] - Rank(S, g[p])
           /\ \A p, q \in 1..n : g[p] = g[q] => p = q
  BY <1>6, Zenon DEF Reordered
<1> HIDE DEF n
<1>8. /\ DOMAIN order' = 1..n
      /\ DOMAIN batch' = 1..Cardinality(S)
  BY <1>6
<1>9. /\ f \in [1..Cardinality(S) -> S] /\ DOMAIN f = 1..Cardinality(S)
      /\ \A i, j \in 1..Cardinality(S) : f[i] = f[j] => i = j
  BY Zenon DEF Orders
<1>10. \A i \in 1..Cardinality(S) : batch'[i] = order[f[i]] /\ f[i] \in S /\ f[i] \in 1..n
  BY <1>2, <1>4, <1>9, Zenon
<1>11. \A r \in Requests : passedOver'[r] =
              IF InSeq(r, batch') THEN 0
              ELSE IF \E i \in Eligible : order[i] = r THEN passedOver[r] + 1
              ELSE passedOver[r]
  BY <1>1, <1>2, Zenon
<1>12. \A r \in Requests : passedOver[r] \in Nat /\ passedOver'[r] \in Nat
  <2>1. \A r \in Requests : passedOver[r] \in Nat
    BY Zenon DEF StoreInv, RoundsInv, SVInv, SVTypeOK
  <2> QED BY <1>11, <2>1
<1>13. SVTypeOK'
  <2>1. ripe' \in 0..Len(order')
    BY <1>1, <1>3, <1>5, <1>6
  <2>2. passedOver' = [r \in Requests |-> passedOver'[r]]
    BY <1>1, Zenon
  <2>3. passedOver' \in [Requests -> Nat]
    BY <1>12, <2>2, Zenon
  <2>4. loop' \in {"off", "sleep", "query"}
    BY Zenon DEF Ask
  <2> QED BY <1>6, <2>1, <2>3, <2>4, Zenon DEF Ask, StoreInv, RoundsInv, SVInv, SVTypeOK
<1>14. SVInv'
  BY <1>13, Zenon DEF Ask, StoreInv, RoundsInv, SVInv
<1>15. OncePerHash(order')
  <2> SUFFICES ASSUME NEW p \in 1..n, NEW q \in 1..n,
                      HashOf[order'[p]] = HashOf[order'[q]]
               PROVE  p = q
    BY <1>8, Zenon DEF OncePerHash
  <2>1. g[p] \in 1..n /\ g[q] \in 1..n
        /\ HashOf[order[g[p]]] = HashOf[order[g[q]]]
    BY <1>7, Zenon
  <2>2. g[p] = g[q]
    BY <1>3, <2>1, Zenon DEF StoreInv, RoundsInv, OncePerHash
  <2> QED BY <1>7, <2>2, Zenon
<1>16. OncePerHash(batch')
  <2> SUFFICES ASSUME NEW p \in 1..Cardinality(S), NEW q \in 1..Cardinality(S),
                      HashOf[batch'[p]] = HashOf[batch'[q]]
               PROVE  p = q
    BY <1>8, Zenon DEF OncePerHash
  <2>1. f[p] \in 1..n /\ f[q] \in 1..n
        /\ HashOf[order[f[p]]] = HashOf[order[f[q]]]
    BY <1>10, Zenon
  <2>2. f[p] = f[q]
    BY <1>3, <2>1, Zenon DEF StoreInv, RoundsInv, OncePerHash
  <2> QED BY <1>9, <2>2, Zenon
<1>17. ASSUME NEW p \in 1..n
       PROVE  passedOver'[order'[p]] * PageSize + p <= Cardinality(Hashes)
  <2> DEFINE k == g[p]
             r == order[k]
             c == Cardinality(Hashes)
  <2>1. k \in 1..n /\ r \in Requests /\ order'[p] = r
    BY <1>3, <1>7, Zenon
  <2>2. /\ k \in S => InSeq(r, batch')
        /\ k \notin S => p = k - Rank(S, k)
    BY <1>7, Zenon
  <2>3. PageSize \in Nat /\ passedOver[r] \in Nat /\ passedOver[r] * PageSize \in Nat
    BY <1>12, <2>1, StoreAssumption
  <2>4. c \in Nat /\ n <= c
    BY <1>6, <1>15, QueueFits, HashesFinite, Zenon
  <2>5. passedOver[r] * PageSize + k <= c
    BY <1>3, <2>1, Zenon DEF StoreInv, RoundsInv, TurnComes
  <2>6. Rank(S, k) \in Nat
    BY <1>3, <1>4, PositionsFinite, Zenon
  <2> HIDE DEF k, r, c
  <2>7. CASE k \in S
    <3>1. passedOver'[r] = 0
      BY <1>11, <2>1, <2>2, <2>7, Zenon
    <3>2. passedOver'[r] * PageSize = 0
      BY <2>3, <3>1
    <3> QED BY <1>3, <2>1, <2>4, <3>2 DEF c
  <2>8. CASE k \notin S
    <3>1. ~InSeq(r, batch')
      <4> SUFFICES ASSUME InSeq(r, batch') PROVE FALSE BY Zenon
      <4>1. PICK i \in 1..Cardinality(S) : batch'[i] = r
        BY <1>8, Zenon DEF InSeq
      <4>2. order[f[i]] = order[k] /\ f[i] \in S /\ f[i] \in 1..n
        BY <1>10, <4>1, Zenon DEF r
      <4>3. f[i] = k
        BY <1>3, <2>1, <4>2, Zenon DEF Distinct
      <4> QED BY <2>8, <4>2, <4>3, Zenon
    <3>2. p = k - Rank(S, k)
      BY <2>2, <2>8, Zenon
    <3>3. CASE \E i \in Eligible : order[i] = r
      <4>1. k \in Eligible
        <5>1. PICK i \in Eligible : order[i] = r
          BY <3>3, Zenon
        <5>2. i = k
          BY <1>3, <1>4, <2>1, <5>1, Zenon DEF Distinct, r
        <5> QED BY <5>1, <5>2, Zenon
      <4>2. PageSize <= Rank(S, k)
        <5>1. k \notin FirstPage(Eligible)
          BY <1>0, <2>8, Zenon DEF NextStoreValidationBatch
        <5>2. PageSize <= Rank(FirstPage(Eligible), k)
          BY <1>3, <1>4, <4>1, <5>1, FirstPageBefore, Zenon
        <5> QED BY <1>0, <5>2, Zenon DEF NextStoreValidationBatch
      <4>3. passedOver'[r] = passedOver[r] + 1
        BY <1>11, <2>1, <3>1, <3>3, Zenon
      <4>4. passedOver'[r] * PageSize = passedOver[r] * PageSize + PageSize
        BY <2>3, <4>3
      <4>5. k \in Nat
        BY <1>3, <2>1
      <4> DEFINE w == passedOver[r] * PageSize
      <4>6. w \in Nat /\ w + k <= c
        BY <2>3, <2>5, Zenon
      <4> HIDE DEF w
      <4>7. w + PageSize + p <= c
        BY <2>3, <2>4, <2>6, <3>2, <4>2, <4>5, <4>6
      <4> QED BY <2>1, <4>4, <4>7, Zenon DEF c, w
    <3>4. CASE ~\E i \in Eligible : order[i] = r
      <4>1. passedOver'[r] = passedOver[r]
        BY <1>11, <2>1, <3>1, <3>4, Zenon
      <4>2. k \in Nat
        BY <1>3, <2>1
      <4> DEFINE w == passedOver[r] * PageSize
      <4>3. w \in Nat /\ w + k <= c
        BY <2>3, <2>5, Zenon
      <4> HIDE DEF w
      <4>4. w + p <= c
        BY <2>4, <2>6, <3>2, <4>2, <4>3
      <4> QED BY <2>1, <4>1, <4>4, Zenon DEF c, w
    <3> QED BY <3>3, <3>4, Zenon
  <2> QED BY <2>7, <2>8, Zenon
<1>18. ASSUME NEW r \in Requests, ~InSeq(r, order')
       PROVE  passedOver'[r] = 0
  <2>1. \A k \in 1..n : \E p \in 1..n : g[p] = k
    <3> DEFINE D == 1..n
    <3>1. IsFiniteSet(D)
      BY <1>3, FS_Interval
    <3>2. g \in [D -> D] /\ \A p, q \in D : g[p] = g[q] => p = q
      BY <1>7, Zenon
    <3> HIDE DEF D
    <3>3. g \in Injection(D, D)
      BY <3>2, Zenon DEF Injection, IsInjective
    <3>4. g \in Surjection(D, D)
      BY <3>1, <3>3, FS_Injection, Zenon
    <3>5. \A k \in D : \E p \in D : g[p] = k
      BY <3>4, Zenon DEF Surjection
    <3> QED BY <3>5, Zenon DEF D
  <2>2. ASSUME NEW k \in 1..n PROVE order[k] # r
    <3>1. PICK p \in 1..n : g[p] = k
      BY <2>1, Zenon
    <3>2. order'[p] = order[k]
      BY <1>7, <3>1, Zenon
    <3> QED BY <1>8, <1>18, <3>2, Zenon DEF InSeq
  <2>3. ~InSeq(r, order) /\ ~\E i \in Eligible : order[i] = r
    BY <1>3, <1>4, <2>2, Zenon DEF InSeq
  <2>4. passedOver[r] = 0
    BY <2>3, Zenon DEF StoreInv, RoundsInv, TurnComes
  <2> QED BY <1>11, <2>3, <2>4, Zenon
<1>19. TurnComes'
  BY <1>8, <1>17, <1>18, Zenon DEF TurnComes, Hashes
<1>20. loop' = "query"
  BY Zenon DEF Ask
<1> QED BY <1>6, <1>14, <1>15, <1>16, <1>19, <1>20, Zenon DEF RoundsInv

\* An answer starts at most one resend of a message, and none while one runs
\* (checkMsgsInStore from the answer on, startResend).
LEMMA AnswerKeeps ==
    ASSUME StoreInv, Answer
    PROVE  RoundsInv'
<1>1. PICK reported \in SUBSET Hashes, partial \in BOOLEAN, peers \in BOOLEAN :
         /\ waits' = [r \in Requests |->
              IF HashOf[r] \in reported /\ StoreAnswerPending(r) THEN "complete"
                                                                ELSE waits[r]]
         /\ LET resent == IF partial \/ ~peers THEN {}
                          ELSE {r \in Missed(reported) : MayResend(r)}
                started(count) == [r \in Requests |-> IF r \in resent THEN count[r] + 1
                                                                      ELSE count[r]]
            IN  /\ resendCount' = started(resendCount)
                /\ publishing' = started(publishing)
  BY Zenon DEF Answer
<1> DEFINE resent == IF partial \/ ~peers THEN {}
                     ELSE {r \in Missed(reported) : MayResend(r)}
<1>2. /\ resendCount' = [r \in Requests |-> IF r \in resent THEN resendCount[r] + 1
                                                           ELSE resendCount[r]]
      /\ publishing' = [r \in Requests |-> IF r \in resent THEN publishing[r] + 1
                                                         ELSE publishing[r]]
  BY <1>1, Zenon
<1>s. ASSUME NEW r \in resent PROVE client = "started" /\ handles = {}
  <2>1. InSeq(r, batch) /\ waits[r] = "pending"
    BY Zenon DEF Missed, StoreAnswerPending
  <2>2. PICK i \in DOMAIN batch : batch[i] = r
    BY <2>1, Zenon DEF InSeq
  <2>3. client = "started"
    BY <2>1, <2>2, Zenon DEF StoreInv, StopTakesAll
  <2> QED BY <2>3, Zenon DEF StoreInv, StopTakesAll
<1>3. \A r \in resent :
         /\ InSeq(r, batch) /\ resendCount[r] < MaxStoreMissResends
         /\ \A q \in Requests : HashOf[q] = HashOf[r] => publishing[q] = 0
  BY <1>s, Zenon DEF Missed, MayResend
<1> HIDE DEF resent
<1>4. /\ loop' \in {"off", "sleep"} /\ batch' = <<>>
      /\ UNCHANGED <<client, order, ripe, passedOver, stops, handles>>
  BY Zenon DEF Answer, RoundEnds
<1>5. /\ \A r \in Requests : resendCount[r] \in Nat /\ publishing[r] \in Nat
      /\ \A r \in Requests : resendCount[r] <= MaxStoreMissResends
      /\ MaxStoreMissResends \in Nat
  BY StoreAssumption, Zenon DEF StoreInv, RoundsInv, SVInv, SVTypeOK
<1>6. SVTypeOK'
  <2>1. resendCount' \in [Requests -> Nat]
    BY <1>2, <1>5
  <2>2. publishing' \in [Requests -> Nat]
    BY <1>2, <1>5
  <2>3. waits' \in [Requests -> {"none", "pending", "complete", "cancelled", "over"}]
    BY <1>1, Zenon DEF StoreInv, RoundsInv, SVInv, SVTypeOK
  <2>4. batch' \in Seq(Requests) /\ loop' \in {"off", "sleep", "query"}
    BY <1>4
  <2> QED BY <1>4, <2>1, <2>2, <2>3, <2>4, Zenon DEF StoreInv, RoundsInv, SVInv, SVTypeOK
<1>7. ASSUME NEW r \in Requests PROVE resendCount'[r] <= MaxStoreMissResends
  BY <1>2, <1>3, <1>5
<1>8. ASSUME NEW r \in Requests PROVE publishing'[r] <= 1
  <2>1. CASE r \in resent
    <3>1. publishing[r] = 0
      BY <1>3, <2>1, Zenon
    <3> QED BY <1>2, <2>1, <3>1
  <2>2. CASE r \notin resent
    BY <1>2, <2>2, Zenon DEF StoreInv, RoundsInv, SVInv
  <2> QED BY <2>1, <2>2, Zenon
<1>9. ASSUME NEW r \in Requests, NEW q \in Requests, r \in resent,
             publishing'[q] > 0, HashOf[r] = HashOf[q]
      PROVE  r = q
  <2>1. publishing[q] = 0
    BY <1>3, <1>9, Zenon
  <2>2. q \in resent
    BY <1>2, <1>9, <2>1
  <2>3. PICK i \in DOMAIN batch : batch[i] = r
    BY <1>3, <1>9, Zenon DEF InSeq
  <2>4. PICK j \in DOMAIN batch : batch[j] = q
    BY <1>3, <2>2, Zenon DEF InSeq
  <2>5. i = j
    BY <1>9, <2>3, <2>4, Zenon DEF StoreInv, RoundsInv, OncePerHash
  <2> QED BY <2>3, <2>4, <2>5, Zenon
<1>10. ASSUME NEW r \in Requests, NEW q \in Requests,
              publishing'[r] > 0, publishing'[q] > 0, HashOf[r] = HashOf[q]
       PROVE  r = q
  <2>1. CASE r \in resent
    BY <1>9, <1>10, <2>1, Zenon
  <2>2. CASE q \in resent
    BY <1>9, <1>10, <2>2, Zenon
  <2>3. CASE r \notin resent /\ q \notin resent
    <3>1. publishing[r] > 0 /\ publishing[q] > 0
      BY <1>2, <1>10, <2>3, Zenon
    <3> QED BY <1>10, <3>1, Zenon DEF StoreInv, RoundsInv, SVInv
  <2> QED BY <2>1, <2>2, <2>3, Zenon
<1>11. SVInv'
  BY <1>6, <1>7, <1>8, <1>10, Zenon DEF SVInv
<1>12. OncePerHash(order') /\ OncePerHash(batch') /\ TurnComes'
  BY <1>4, SameQueue, Zenon
<1> QED BY <1>4, <1>11, <1>12, Zenon DEF RoundsInv

\* The other steps change the waits, the resends that run, the loop or the
\* client, and neither the queue's order nor its turns.
LEMMA OthersKeep ==
    ASSUME StoreInv,
           \/ \E r \in Requests : WaitsAgain(r) \/ CancelWait(r) \/ ResendEnds(r)
           \/ Ripens \/ QueryFails \/ Stop \/ CancelRound \/ StopEnds \/ Start
           \/ UNCHANGED svVars
    PROVE  RoundsInv'
<1>1. ASSUME NEW r \in Requests, WaitsAgain(r) PROVE RoundsInv'
  <2>1. waits' \in [Requests -> {"none", "pending", "complete", "cancelled", "over"}]
    BY <1>1, Zenon DEF WaitsAgain, StoreInv, RoundsInv, SVInv, SVTypeOK
  <2>2. SVInv'
    BY <1>1, <2>1, Zenon DEF WaitsAgain, StoreInv, RoundsInv, SVInv, SVTypeOK
  <2>3. OncePerHash(order') /\ OncePerHash(batch') /\ TurnComes'
    BY <1>1, SameQueue, Zenon DEF WaitsAgain
  <2> QED BY <1>1, <2>2, <2>3, Zenon DEF WaitsAgain, StoreInv, RoundsInv
<1>2. ASSUME NEW r \in Requests, CancelWait(r) PROVE RoundsInv'
  <2>1. waits' \in [Requests -> {"none", "pending", "complete", "cancelled", "over"}]
    BY <1>2, Zenon DEF CancelWait, StoreInv, RoundsInv, SVInv, SVTypeOK
  <2>2. /\ passedOver' \in [Requests -> Nat] /\ \A q \in Requests : passedOver[q] \in Nat
        /\ \A q \in Requests : passedOver'[q] = IF q = r THEN 0 ELSE passedOver[q]
    BY <1>2, Zenon DEF CancelWait, StoreInv, RoundsInv, SVInv, SVTypeOK
  <2>3. SVInv'
    BY <1>2, <2>1, <2>2, Zenon DEF CancelWait, StoreInv, RoundsInv, SVInv, SVTypeOK
  <2>4. OncePerHash(order') /\ OncePerHash(batch')
    BY <1>2, Zenon DEF CancelWait, StoreInv, RoundsInv
  <2>5. ASSUME NEW p \in DOMAIN order
        PROVE  passedOver'[order[p]] * PageSize + p <= Cardinality(Hashes)
    <3>0. order \in Seq(Requests)
      BY Zenon DEF StoreInv, RoundsInv, SVInv, SVTypeOK
    <3>1. order \in Seq(Requests) /\ p \in 1..Len(order) /\ Len(order) \in Nat
          /\ order[p] \in Requests
      BY <3>0
    <3>2. passedOver[order[p]] * PageSize + p <= Cardinality(Hashes)
      BY Zenon DEF StoreInv, RoundsInv, TurnComes
    <3>3. CASE order[p] = r
      <4>1. passedOver'[order[p]] * PageSize = 0
        BY <2>2, <3>1, <3>3, StoreAssumption
      <4>2. Len(order) <= Cardinality(Hashes)
        BY <3>1, QueueFits, Zenon DEF StoreInv, RoundsInv
      <4> QED BY <3>1, <4>1, <4>2, HashesFinite
    <3>4. CASE order[p] # r
      <4>1. passedOver'[order[p]] = passedOver[order[p]]
        BY <2>2, <3>1, <3>4, Zenon
      <4> QED BY <3>2, <4>1, Zenon
    <3> QED BY <3>3, <3>4, Zenon
  <2>6. ASSUME NEW q \in Requests, ~InSeq(q, order) PROVE passedOver'[q] = 0
    BY <2>2, <2>6, Zenon DEF StoreInv, RoundsInv, TurnComes
  <2>7. TurnComes'
    BY <1>2, <2>5, <2>6, Zenon DEF CancelWait, TurnComes, Hashes
  <2> QED BY <1>2, <2>3, <2>4, <2>7, Zenon DEF CancelWait, StoreInv, RoundsInv
<1>3. ASSUME NEW r \in Requests, ResendEnds(r) PROVE RoundsInv'
  <2>1. \A q \in Requests : publishing[q] \in Nat /\ publishing[q] <= 1
    BY Zenon DEF StoreInv, RoundsInv, SVInv, SVTypeOK
  <2>2. \A q \in Requests : publishing'[q] = IF q = r THEN publishing[q] - 1
                                                    ELSE publishing[q]
    BY <1>3, Zenon DEF ResendEnds, StoreInv, RoundsInv, SVInv, SVTypeOK
  <2>3. publishing[r] > 0 /\ publishing' = [publishing EXCEPT ![r] = @ - 1]
    BY <1>3, Zenon DEF ResendEnds
  <2>4. \A q \in Requests : publishing'[q] \in Nat /\ publishing'[q] <= publishing[q]
    BY <2>1, <2>2, <2>3
  <2>5. publishing' \in [Requests -> Nat]
    BY <2>3, <2>4, Zenon DEF StoreInv, RoundsInv, SVInv, SVTypeOK
  <2>h. handles' \subseteq Requests
    BY <1>3, Zenon DEF ResendEnds, StoreInv, RoundsInv, SVInv, SVTypeOK
  <2>6. SVTypeOK'
    BY <1>3, <2>5, <2>h, Zenon DEF ResendEnds, StoreInv, RoundsInv, SVInv, SVTypeOK
  <2>7. \A q \in Requests : publishing'[q] <= 1 /\ (publishing'[q] > 0 => publishing[q] > 0)
    BY <2>1, <2>4
  <2>8. SVInv'
    BY <1>3, <2>6, <2>7, Zenon DEF ResendEnds, StoreInv, RoundsInv, SVInv
  <2>9. OncePerHash(order') /\ OncePerHash(batch') /\ TurnComes'
    BY <1>3, SameQueue, Zenon DEF ResendEnds
  <2> QED BY <1>3, <2>8, <2>9, Zenon DEF ResendEnds, StoreInv, RoundsInv
<1>4. CASE Ripens
  <2>1. ripe \in 0..Len(order) /\ Len(order) \in Nat
    BY DEF StoreInv, RoundsInv, SVInv, SVTypeOK
  <2>2. ripe' \in 0..Len(order')
    BY <1>4, <2>1 DEF Ripens
  <2>3. SVInv'
    BY <1>4, <2>2, Zenon DEF Ripens, StoreInv, RoundsInv, SVInv, SVTypeOK
  <2>4. OncePerHash(order') /\ OncePerHash(batch') /\ TurnComes'
    BY <1>4, SameQueue, Zenon DEF Ripens
  <2> QED BY <1>4, <2>3, <2>4, Zenon DEF Ripens, StoreInv, RoundsInv
<1>5. CASE QueryFails \/ CancelRound
  <2>1. /\ batch' = <<>> /\ loop' \in {"off", "sleep"}
        /\ UNCHANGED <<client, waits, order, ripe, resendCount, publishing,
                       passedOver, stops, handles>>
    BY <1>5, Zenon DEF QueryFails, CancelRound, RoundEnds
  <2>2. batch' \in Seq(Requests) /\ loop' \in {"off", "sleep", "query"}
    BY <2>1
  <2>3. SVInv'
    BY <2>1, <2>2, Zenon DEF StoreInv, RoundsInv, SVInv, SVTypeOK
  <2>4. OncePerHash(order') /\ OncePerHash(batch') /\ TurnComes'
    BY <2>1, SameQueue, Zenon
  <2> QED BY <2>1, <2>3, <2>4, Zenon DEF RoundsInv
<1>6. CASE Stop
  <2>1. /\ UNCHANGED <<order, ripe, batch, resendCount, publishing, passedOver>>
        /\ client' = "stopping" /\ loop' \in {"off", "sleep", "query"}
        /\ loop' # "query" => loop # "query"
    BY <1>6, Zenon DEF Stop, StoreInv, RoundsInv, SVInv, SVTypeOK
  <2>2. stops' \in Nat
    <3>1. stops \in Nat
      BY Zenon DEF StoreInv, RoundsInv, SVInv, SVTypeOK
    <3> QED BY <1>6, <3>1 DEF Stop
  <2>3. /\ waits' \in [Requests -> {"none", "pending", "complete", "cancelled", "over"}]
        /\ handles' \subseteq Requests
    BY <1>6, Zenon DEF Stop, StoreInv, RoundsInv, SVInv, SVTypeOK
  <2>4. SVInv'
    BY <2>1, <2>2, <2>3, Zenon DEF StoreInv, RoundsInv, SVInv, SVTypeOK
  <2>5. OncePerHash(order') /\ OncePerHash(batch') /\ TurnComes'
    BY <2>1, SameQueue, Zenon
  <2> QED BY <2>1, <2>4, <2>5, Zenon DEF StoreInv, RoundsInv
<1>7. CASE StopEnds
  <2>1. SVInv'
    BY <1>7, Zenon DEF StopEnds, StoreInv, RoundsInv, SVInv, SVTypeOK
  <2>2. OncePerHash(order') /\ OncePerHash(batch') /\ TurnComes'
    BY <1>7, SameQueue, Zenon DEF StopEnds
  <2> QED BY <1>7, <2>1, <2>2, Zenon DEF StopEnds, StoreInv, RoundsInv
<1>8. CASE Start
  <2>1. SVInv'
    BY <1>8, Zenon DEF Start, StoreInv, RoundsInv, SVInv, SVTypeOK
  <2>2. batch = <<>>
    BY <1>8, Zenon DEF Start, StoreInv, RoundsInv, StopTakesAll
  <2>3. OncePerHash(order') /\ OncePerHash(batch') /\ TurnComes'
    BY <1>8, SameQueue, Zenon DEF Start
  <2> QED BY <1>8, <2>1, <2>2, <2>3, Zenon DEF Start, RoundsInv
<1>9. CASE UNCHANGED svVars
  <2>1. SVInv'
    BY <1>9, Zenon DEF svVars, StoreInv, RoundsInv, SVInv, SVTypeOK
  <2>2. OncePerHash(order') /\ OncePerHash(batch') /\ TurnComes'
    BY <1>9, SameQueue, Zenon DEF svVars
  <2> QED BY <1>9, <2>1, <2>2, Zenon DEF svVars, StoreInv, RoundsInv
<1> QED BY <1>1, <1>2, <1>3, <1>4, <1>5, <1>6, <1>7, <1>8, <1>9, Zenon

\* What a stop takes from the rounds stays taken until the client starts again
\* (stopSendService, startSendService): the tasks of a query that goes on neither
\* wait nor come to wait, and so its answer starts no resend.
LEMMA StopKeeps ==
    ASSUME StoreInv, [SVNext]_svVars
    PROVE  StopTakesAll'
<1> USE DEF StoreInv
<1>0. /\ order \in Seq(Requests) /\ batch \in Seq(Requests) /\ Distinct(order)
      /\ waits \in [Requests -> {"none", "pending", "complete", "cancelled", "over"}]
      /\ publishing \in [Requests -> Nat]
  BY OncePerTask, Zenon DEF RoundsInv, SVInv, SVTypeOK
<1>b. \A i \in DOMAIN batch : batch[i] \in Requests
  BY <1>0
<1>1. ASSUME NEW r \in Requests, Propagates(r) PROVE StopTakesAll'
  <2>1. /\ waits[r] = "none" /\ ~InSeq(r, order)
        /\ waits' = [waits EXCEPT ![r] = "pending"] /\ order' = Append(order, r)
        /\ UNCHANGED <<client, loop, batch, publishing, handles>>
    BY <1>1, Zenon DEF Propagates
  <2>2. \A y : InSeq(y, order) => InSeq(y, order')
    BY <1>0, <2>1, AppendMembers, Zenon
  <2>3. \A i \in DOMAIN batch : batch[i] # r
    BY <2>1, Zenon DEF StopTakesAll
  <2>4. \A i \in DOMAIN batch : waits'[batch[i]] = waits[batch[i]]
    BY <1>0, <1>b, <2>1, <2>3, Zenon
  <2> QED BY <2>1, <2>2, <2>4, Zenon DEF StopTakesAll
<1>2. ASSUME NEW r \in Requests, Leaves(r) PROVE StopTakesAll'
  <2>1. /\ waits' = [waits EXCEPT ![r] = "over"] /\ order' = Without(order, r)
        /\ UNCHANGED <<client, loop, batch, publishing, handles>>
    BY <1>2, Zenon DEF Leaves
  <2>2. \A y : InSeq(y, order) /\ y # r => InSeq(y, order')
    BY <1>0, <2>1, WithoutMembers, Zenon
  <2>3. \A i \in DOMAIN batch :
           waits'[batch[i]] = IF batch[i] = r THEN "over" ELSE waits[batch[i]]
    BY <1>0, <1>b, <2>1, Zenon
  <2>4. \A i \in DOMAIN batch :
           /\ InSeq(batch[i], order') \/ waits'[batch[i]] = "over"
           /\ client # "started" => waits'[batch[i]] # "pending"
    BY <2>2, <2>3, Zenon DEF StopTakesAll
  <2> QED BY <2>1, <2>4, Zenon DEF StopTakesAll
<1>3. ASSUME NEW r \in Requests, WaitsAgain(r) \/ CancelWait(r) PROVE StopTakesAll'
  <2>1. /\ UNCHANGED <<client, order, loop, batch, publishing, handles>>
        /\ waits[r] # "over"
        /\ client = "started" \/ waits'[r] # "pending"
        /\ \A q \in Requests : q # r => waits'[q] = waits[q]
    BY <1>0, <1>3, Zenon DEF WaitsAgain, CancelWait
  <2>2. \A i \in DOMAIN batch :
           /\ InSeq(batch[i], order) \/ waits'[batch[i]] = "over"
           /\ client # "started" => waits'[batch[i]] # "pending"
    BY <1>b, <2>1, Zenon DEF StopTakesAll
  <2> QED BY <2>1, <2>2, Zenon DEF StopTakesAll
<1>4. ASSUME NEW r \in Requests, ResendEnds(r) PROVE StopTakesAll'
  <2>1. /\ UNCHANGED <<client, waits, order, loop, batch>>
        /\ handles' = handles \ {r}
        /\ publishing' = [publishing EXCEPT ![r] = publishing[r] - 1]
        /\ publishing[r] > 0
    BY <1>4, Zenon DEF ResendEnds
  <2>2. publishing[r] <= 1 /\ publishing[r] \in Nat
    BY <1>0, Zenon DEF RoundsInv, SVInv
  <2>3. ~(publishing'[r] > 0)
    BY <1>0, <2>1, <2>2
  <2>4. \A q \in Requests : q # r => publishing'[q] = publishing[q]
    BY <1>0, <2>1, Zenon
  <2> QED BY <2>1, <2>3, <2>4, Zenon DEF StopTakesAll
<1>5. CASE Ripens \/ UNCHANGED svVars
  BY <1>5, Zenon DEF Ripens, svVars, StopTakesAll
<1>6. CASE Ask
  <2>1. /\ loop = "sleep" /\ loop' = "query"
        /\ UNCHANGED <<client, publishing, handles>>
    BY <1>6, Zenon DEF Ask
  <2>2. client = "started"
    BY <2>1, Zenon DEF StopTakesAll, RoundsInv, SVInv, SVTypeOK
  <2> QED BY <1>6, <2>1, <2>2, AskKeeps, Zenon DEF StopTakesAll
<1>7. CASE QueryFails \/ CancelRound
  <2>1. /\ batch' = <<>> /\ loop' = IF client = "started" THEN "sleep" ELSE "off"
        /\ loop = "query"
        /\ UNCHANGED <<client, waits, order, publishing, handles>>
    BY <1>7, Zenon DEF QueryFails, CancelRound, RoundEnds
  <2>2. DOMAIN batch' = {}
    BY <2>1
  <2> QED BY <2>1, <2>2, Zenon DEF StopTakesAll, RoundsInv, SVInv, SVTypeOK
<1>8. CASE Answer
  <2>1. /\ batch' = <<>> /\ loop' = IF client = "started" THEN "sleep" ELSE "off"
        /\ loop = "query"
        /\ UNCHANGED <<client, order, handles>>
    BY <1>8, Zenon DEF Answer, RoundEnds
  <2>2. DOMAIN batch' = {}
    BY <2>1
  <2>3. ASSUME client # "started", NEW r \in Requests
        PROVE  publishing'[r] = publishing[r]
    <3>1. ~StoreAnswerPending(r) \/ ~InSeq(r, batch)
      BY <2>3, Zenon DEF StopTakesAll, StoreAnswerPending, InSeq
    <3> QED BY <1>0, <1>8, <3>1, Zenon DEF Answer, Missed
  <2> QED BY <2>1, <2>2, <2>3, Zenon DEF StopTakesAll, RoundsInv, SVInv, SVTypeOK
<1>9. CASE Stop
  <2>1. /\ client' = "stopping" /\ handles' = {r \in Requests : publishing[r] > 0}
        /\ waits' = [r \in Requests |-> IF StoreAnswerPending(r) THEN "cancelled"
                                                                ELSE waits[r]]
        /\ loop' = IF loop = "sleep" THEN "off" ELSE loop
        /\ UNCHANGED <<order, batch, publishing>>
    BY <1>9, Zenon DEF Stop
  <2>2. \A i \in DOMAIN batch :
           /\ waits'[batch[i]] # "pending"
           /\ waits[batch[i]] = "over" => waits'[batch[i]] = "over"
    BY <1>b, <2>1, Zenon DEF StoreAnswerPending
  <2>3. \A r \in Requests : publishing'[r] > 0 => r \in handles'
    BY <2>1, Zenon
  <2> QED BY <2>1, <2>2, <2>3, Zenon DEF StopTakesAll
<1>10. CASE StopEnds
  BY <1>10, Zenon DEF StopEnds, StopTakesAll
<1>11. CASE Start
  <2>1. DOMAIN batch' = {}
    <3>1. loop # "query"
      BY <1>11, Zenon DEF Start, StopTakesAll
    <3> QED BY <1>11, <3>1 DEF Start, RoundsInv
  <2> QED BY <1>11, <2>1, Zenon DEF Start, StopTakesAll
<1> QED BY <1>1, <1>2, <1>3, <1>4, <1>5, <1>6, <1>7, <1>8, <1>9, <1>10, <1>11, Zenon
        DEF SVNext, Confirmed, TimesOut
\* The client starts with nothing queued, asked about or sent again.
LEMMA StoreInvInit ==
    SVInit => StoreInv
<1> SUFFICES ASSUME SVInit PROVE StoreInv
  BY Zenon
<1> USE DEF SVInit
<1>1. SVTypeOK
  BY DEF SVTypeOK
<1>2. SVInv
  BY <1>1, StoreAssumption DEF SVInv
<1>3. DOMAIN order = {} /\ DOMAIN batch = {}
  OBVIOUS
<1>4. OncePerHash(order) /\ OncePerHash(batch) /\ TurnComes
  BY <1>3, Zenon DEF OncePerHash, TurnComes
<1>5. StopTakesAll
  BY <1>3, Zenon DEF StopTakesAll
<1> QED BY <1>2, <1>4, <1>5, Zenon DEF StoreInv, RoundsInv

\* Every step keeps the invariant.
LEMMA StoreInvStep ==
    StoreInv /\ [SVNext]_svVars => StoreInv'
<1> SUFFICES ASSUME StoreInv, [SVNext]_svVars PROVE StoreInv'
  BY Zenon
<1>1. ASSUME NEW r \in Requests, Propagates(r) PROVE RoundsInv'
  BY <1>1, PropagatesKeeps, Zenon
<1>2. ASSUME NEW r \in Requests, Confirmed(r) \/ TimesOut(r) PROVE RoundsInv'
  BY <1>2, LeavesKeeps, Zenon DEF Confirmed, TimesOut
<1>3. CASE Ask
  BY <1>3, AskKeeps, StopKeeps, Zenon DEF SVNext, StoreInv
<1>4. CASE Answer
  BY <1>4, AnswerKeeps, StopKeeps, Zenon DEF SVNext, StoreInv
<1> QED BY <1>1, <1>2, <1>3, <1>4, OthersKeep, StopKeeps, Zenon DEF SVNext, StoreInv

\* In every state of the Store validation: at most one resend of a message runs,
\* no message is queued or asked about twice, and the turns are kept.
THEOREM StoreInvariant ==
    SVSpec => []StoreInv
BY StoreInvInit, StoreInvStep, PTL DEF SVSpec

\* No page size, order of keys or stop lets newer tasks pass an older one again
\* and again: while it is ripe and waits, a task is passed over at most as often
\* as the other messages fill pages (nextStoreValidationBatch, storeValidationKey).
THEOREM NoTaskStarves ==
    SVSpec => []NoStarvation
<1>1. StoreInv => NoStarvation
  BY TurnsBound, Zenon DEF StoreInv, RoundsInv, SVInv
<1> QED BY <1>1, StoreInvariant, PTL

\* No resend outlives a stop, for any number of resends and rounds: a round that
\* goes on after stopSendService has cleared the table starts none, because the
\* stop has ended every wait that the round would resend for.
THEOREM NoResendOutlivesStop ==
    SVSpec => []NoResendAfterStop
<1>1. StoreInv => NoResendAfterStop
  <2> SUFFICES ASSUME StoreInv, client = "stopped", NEW r \in Requests
               PROVE  publishing[r] = 0
    BY Zenon DEF NoResendAfterStop
  <2>1. publishing[r] \in Nat /\ ~(publishing[r] > 0)
    BY Zenon DEF StoreInv, RoundsInv, SVInv, SVTypeOK, StopTakesAll
  <2> QED BY <2>1
<1> QED BY <1>1, StoreInvariant, PTL

\* A resend starts only for a task that the query asked about and that waits, and
\* it still waits after the answer (checkMsgsInStore).
THEOREM ResendsOnlyForWaiting ==
    SVSpec => ResentOnlyWhileWaiting
<1> DEFINE P == \A r \in Requests :
                   resendCount'[r] # resendCount[r] =>
                      InSeq(r, batch) /\ waits[r] = "pending" /\ waits'[r] = "pending"
<1>1. ASSUME [SVNext]_svVars PROVE [P]_svVars
  <2> SUFFICES ASSUME NEW r \in Requests, resendCount'[r] # resendCount[r]
               PROVE  InSeq(r, batch) /\ waits[r] = "pending" /\ waits'[r] = "pending"
    BY Zenon
  <2>1. Answer
    <3>1. ~UNCHANGED svVars
      BY Zenon DEF svVars
    <3>2. ~Ripens /\ ~Ask /\ ~QueryFails
      BY Zenon DEF Ripens, Ask, QueryFails
    <3>3. ~Stop /\ ~CancelRound /\ ~StopEnds /\ ~Start
      BY Zenon DEF Stop, CancelRound, StopEnds, Start
    <3>4. ASSUME NEW q \in Requests
          PROVE  ~Propagates(q) /\ ~WaitsAgain(q) /\ ~CancelWait(q) /\ ~ResendEnds(q)
      BY Zenon DEF Propagates, WaitsAgain, CancelWait, ResendEnds
    <3>5. ASSUME NEW q \in Requests PROVE ~Confirmed(q) /\ ~TimesOut(q)
      BY Zenon DEF Confirmed, TimesOut, Leaves
    <3> QED
      BY <1>1, <3>1, <3>2, <3>3, <3>4, <3>5, Zenon DEF SVNext
  <2>2. PICK reported \in SUBSET Hashes, partial \in BOOLEAN, peers \in BOOLEAN :
         /\ waits' = [q \in Requests |->
              IF HashOf[q] \in reported /\ StoreAnswerPending(q) THEN "complete"
                                                                ELSE waits[q]]
         /\ LET resent == IF partial \/ ~peers THEN {}
                          ELSE {q \in Missed(reported) : MayResend(q)}
                started(count) == [q \in Requests |-> IF q \in resent THEN count[q] + 1
                                                                      ELSE count[q]]
            IN  resendCount' = started(resendCount)
    BY <2>1, Zenon DEF Answer
  <2>3. r \in Missed(reported)
    BY <2>2, Zenon
  <2> QED BY <2>2, <2>3, Zenon DEF Missed, StoreAnswerPending
<1>2. SVSpec => [][P]_svVars
  BY <1>1, PTL DEF SVSpec
<1> QED BY <1>2, Zenon DEF ResentOnlyWhileWaiting

============================================================================
