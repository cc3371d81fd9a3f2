-------------------------- MODULE WaitQueuesProofs --------------------------
(* What joining and leaving a first-come-first-served queue does to its    *)
(* members, their order and its head.                                      *)
EXTENDS WaitQueues, TLAPS

\* Leaving a wait queue yields a queue of the same kind.
LEMMA WithoutType ==
    ASSUME NEW S, NEW q \in Seq(S), NEW x
    PROVE  Without(q, x) \in Seq(S)
<1>1. CASE InSeq(x, q)
  <2> DEFINE k == CHOOSE i \in DOMAIN q : q[i] = x
             r == [i \in 1..(Len(q) - 1) |-> IF i < k THEN q[i] ELSE q[i + 1]]
  <2>1. Without(q, x) = r
    BY <1>1 DEF Without, InSeq
  <2>2. Len(q) \in Nat \ {0} /\ DOMAIN q = 1..Len(q)
    BY <1>1 DEF InSeq
  <2>3. k \in 1..Len(q)
    BY <1>1, <2>2 DEF InSeq
  <2>4. \A i \in 1..(Len(q) - 1) : r[i] \in S
    BY <2>2, <2>3
  <2>5. Len(q) - 1 \in Nat /\ r \in [1..(Len(q) - 1) -> S]
    BY <2>2, <2>4
  <2> QED
    BY <2>1, <2>5
<1>2. CASE ~InSeq(x, q)
  BY <1>2 DEF Without, InSeq
<1> QED
  BY <1>1, <1>2

\* A waiter that leaves does not change who holds the lock.
LEMMA WithoutHead ==
    ASSUME NEW S, NEW q \in Seq(S), NEW x, q # <<>>, Head(q) # x
    PROVE  Without(q, x) # <<>> /\ Head(Without(q, x)) = Head(q)
<1>1. CASE InSeq(x, q)
  <2> DEFINE k == CHOOSE i \in DOMAIN q : q[i] = x
             r == [i \in 1..(Len(q) - 1) |-> IF i < k THEN q[i] ELSE q[i + 1]]
  <2>1. Without(q, x) = r
    BY <1>1 DEF Without, InSeq
  <2>2. Len(q) \in Nat \ {0} /\ DOMAIN q = 1..Len(q) /\ Head(q) = q[1]
    BY <1>1 DEF InSeq
  <2>3. k \in 1..Len(q) /\ q[k] = x
    BY <1>1, <2>2 DEF InSeq
  <2>4. k # 1 /\ Len(q) > 1
    BY <2>2, <2>3
  <2>5. 1 \in 1..(Len(q) - 1) /\ r[1] = q[1]
    BY <2>2, <2>3, <2>4
  <2>6. r \in Seq(S)
    BY <2>1, WithoutType
  <2>7. Len(r) = Len(q) - 1
    BY <2>2, <2>6
  <2> HIDE DEF r
  <2>8. r # <<>> /\ Head(r) = r[1]
    BY <2>2, <2>4, <2>6, <2>7
  <2> QED
    BY <2>1, <2>2, <2>5, <2>8
<1>2. CASE ~InSeq(x, q)
  BY <1>2 DEF Without, InSeq
<1> QED
  BY <1>1, <1>2

\* Who leaves a queue is out of it, and everyone else stays, once each.
LEMMA WithoutMembers ==
    ASSUME NEW S, NEW q \in Seq(S), NEW x, Distinct(q)
    PROVE  /\ Distinct(Without(q, x))
           /\ \A y : InSeq(y, Without(q, x)) <=> InSeq(y, q) /\ y # x
<1>1. CASE InSeq(x, q)
  <2> DEFINE k == CHOOSE i \in DOMAIN q : q[i] = x
             r == [i \in 1..(Len(q) - 1) |-> IF i < k THEN q[i] ELSE q[i + 1]]
  <2>1. Without(q, x) = r
    BY <1>1 DEF Without
  <2>2. Len(q) \in Nat \ {0} /\ DOMAIN q = 1..Len(q)
    BY <1>1 DEF InSeq
  <2>3. k \in 1..Len(q) /\ q[k] = x
    BY <1>1, <2>2 DEF InSeq
  <2> HIDE DEF k
  <2>4. /\ DOMAIN r = 1..(Len(q) - 1)
        /\ \A i \in 1..(Len(q) - 1) : r[i] = IF i < k THEN q[i] ELSE q[i + 1]
    OBVIOUS
  <2> HIDE DEF r
  <2>5. \A i \in 1..(Len(q) - 1) :
          \E j \in 1..Len(q) : /\ j # k /\ r[i] = q[j]
                               /\ j = IF i < k THEN i ELSE i + 1
    <3> SUFFICES ASSUME NEW i \in 1..(Len(q) - 1)
                 PROVE  \E j \in 1..Len(q) :
                          /\ j # k /\ r[i] = q[j]
                          /\ j = IF i < k THEN i ELSE i + 1
      OBVIOUS
    <3>1. CASE i < k
      BY <2>2, <2>3, <2>4, <3>1
    <3>2. CASE ~(i < k)
      <4>1. i + 1 \in 1..Len(q) /\ i + 1 # k /\ r[i] = q[i + 1]
        BY <2>2, <2>3, <2>4, <3>2
      <4> QED BY <4>1, <3>2
    <3> QED BY <3>1, <3>2
  <2>6. \A j \in 1..Len(q) : j # k =>
          \E i \in 1..(Len(q) - 1) : r[i] = q[j]
    <3> SUFFICES ASSUME NEW j \in 1..Len(q), j # k
                 PROVE  \E i \in 1..(Len(q) - 1) : r[i] = q[j]
      OBVIOUS
    <3>1. CASE j < k
      BY <3>1, <2>2, <2>3, <2>4
    <3>2. CASE j > k
      <4>1. j - 1 \in 1..(Len(q) - 1) /\ r[j - 1] = q[j]
        BY <3>2, <2>2, <2>3, <2>4
      <4> QED BY <4>1
    <3> QED BY <3>1, <3>2, <2>2, <2>3
  <2>7. Distinct(r)
    <3> SUFFICES ASSUME NEW a \in 1..(Len(q) - 1), NEW b \in 1..(Len(q) - 1),
                        r[a] = r[b]
                 PROVE  a = b
      BY <2>4 DEF Distinct
    <3>1. PICK i \in 1..Len(q) : /\ i # k /\ r[a] = q[i]
                                 /\ i = IF a < k THEN a ELSE a + 1
      BY <2>5
    <3>2. PICK j \in 1..Len(q) : /\ j # k /\ r[b] = q[j]
                                 /\ j = IF b < k THEN b ELSE b + 1
      BY <2>5
    <3>3. i = j
      BY <2>2, <3>1, <3>2, Zenon DEF Distinct
    <3> QED BY <2>3, <3>1, <3>2, <3>3
  <2>8. \A y : InSeq(y, r) <=> InSeq(y, q) /\ y # x
    <3> SUFFICES ASSUME NEW y PROVE InSeq(y, r) <=> InSeq(y, q) /\ y # x
      OBVIOUS
    <3>1. ASSUME InSeq(y, r) PROVE InSeq(y, q) /\ y # x
      <4>1. PICK i \in 1..(Len(q) - 1) : r[i] = y
        BY <2>4, <3>1 DEF InSeq
      <4>2. PICK j \in 1..Len(q) : j # k /\ r[i] = q[j]
        BY <2>5
      <4> QED BY <2>2, <2>3, <4>1, <4>2 DEF InSeq, Distinct
    <3>2. ASSUME InSeq(y, q), y # x PROVE InSeq(y, r)
      <4>1. PICK j \in 1..Len(q) : q[j] = y
        BY <2>2, <3>2 DEF InSeq
      <4>2. PICK i \in 1..(Len(q) - 1) : r[i] = q[j]
        BY <2>3, <2>6, <3>2, <4>1
      <4> QED BY <2>4, <4>1, <4>2 DEF InSeq
    <3> QED BY <3>1, <3>2
  <2> QED BY <2>1, <2>7, <2>8
<1>2. CASE ~InSeq(x, q)
  BY <1>2 DEF Without
<1> QED BY <1>1, <1>2

\* Who joins at the end is in the queue with the others.
LEMMA AppendMembers ==
    ASSUME NEW S, NEW q \in Seq(S), NEW x \in S
    PROVE  /\ Append(q, x) \in Seq(S)
           /\ \A y : InSeq(y, Append(q, x)) <=> InSeq(y, q) \/ y = x
           /\ Distinct(q) /\ ~InSeq(x, q) => Distinct(Append(q, x))
<1>1. /\ Len(q) \in Nat /\ DOMAIN q = 1..Len(q)
      /\ DOMAIN Append(q, x) = 1..(Len(q) + 1)
      /\ \A i \in 1..Len(q) : Append(q, x)[i] = q[i]
      /\ Append(q, x)[Len(q) + 1] = x
  OBVIOUS
<1>2. Append(q, x) \in Seq(S)
  OBVIOUS
<1>3. ASSUME NEW y PROVE InSeq(y, Append(q, x)) <=> InSeq(y, q) \/ y = x
  <2>1. ASSUME InSeq(y, Append(q, x)) PROVE InSeq(y, q) \/ y = x
    BY <1>1, <2>1 DEF InSeq
  <2>2. ASSUME InSeq(y, q) PROVE InSeq(y, Append(q, x))
    BY <1>1, <2>2 DEF InSeq
  <2>3. ASSUME y = x PROVE InSeq(y, Append(q, x))
    BY <1>1, <2>3 DEF InSeq
  <2> QED BY <2>1, <2>2, <2>3
<1>4. Distinct(q) /\ ~InSeq(x, q) => Distinct(Append(q, x))
  BY <1>1 DEF Distinct, InSeq
<1> QED BY <1>2, <1>3, <1>4

\* Nobody moves back when someone else leaves.
LEMMA WithoutPlace ==
    ASSUME NEW S, NEW q \in Seq(S), NEW x, NEW i \in DOMAIN q, q[i] # x
    PROVE  \E j \in DOMAIN Without(q, x) : j <= i /\ Without(q, x)[j] = q[i]
<1>1. CASE InSeq(x, q)
  <2> DEFINE k == CHOOSE j \in DOMAIN q : q[j] = x
             r == [j \in 1..(Len(q) - 1) |-> IF j < k THEN q[j] ELSE q[j + 1]]
  <2>1. Without(q, x) = r
    BY <1>1 DEF Without
  <2>2. Len(q) \in Nat \ {0} /\ DOMAIN q = 1..Len(q)
    BY <1>1 DEF InSeq
  <2>3. k \in 1..Len(q) /\ q[k] = x
    BY <1>1, <2>2 DEF InSeq
  <2> HIDE DEF k
  <2>4. /\ DOMAIN r = 1..(Len(q) - 1)
        /\ \A j \in 1..(Len(q) - 1) : r[j] = IF j < k THEN q[j] ELSE q[j + 1]
    OBVIOUS
  <2> HIDE DEF r
  <2>5. CASE i < k
    <3>1. i \in 1..(Len(q) - 1) /\ r[i] = q[i] /\ i <= i
      BY <2>2, <2>3, <2>4, <2>5
    <3> QED BY <2>1, <2>4, <3>1, Zenon
  <2>6. CASE i > k
    <3>1. i - 1 \in 1..(Len(q) - 1) /\ r[i - 1] = q[i] /\ i - 1 <= i
      BY <2>2, <2>3, <2>4, <2>6
    <3> QED BY <2>1, <2>4, <3>1, Zenon
  <2> QED BY <2>2, <2>3, <2>5, <2>6
<1>2. CASE ~InSeq(x, q)
  <2>1. Without(q, x) = q /\ i <= i
    BY <1>2 DEF Without
  <2> QED BY <2>1, Zenon
<1> QED BY <1>1, <1>2

\* Who joins at the end moves nobody.
LEMMA AppendPlaces ==
    ASSUME NEW S, NEW q \in Seq(S), NEW x \in S
    PROVE  /\ \A i \in DOMAIN q : i \in DOMAIN Append(q, x) /\ Append(q, x)[i] = q[i]
           /\ q # <<>> => Append(q, x) # <<>> /\ Head(Append(q, x)) = Head(q)
  OBVIOUS

\* Who joins together is in the queue with the others.
LEMMA ConcatMembers ==
    ASSUME NEW S, NEW q \in Seq(S), NEW s \in Seq(S)
    PROVE  \A y : InSeq(y, q \o s) <=> InSeq(y, q) \/ InSeq(y, s)
<1>1. /\ Len(q) \in Nat /\ DOMAIN q = 1..Len(q) /\ Len(s) \in Nat /\ DOMAIN s = 1..Len(s)
      /\ DOMAIN (q \o s) = 1..(Len(q) + Len(s))
      /\ \A i \in 1..Len(q) : (q \o s)[i] = q[i]
      /\ \A i \in 1..Len(s) : (q \o s)[Len(q) + i] = s[i]
  OBVIOUS
<1>2. ASSUME NEW y, InSeq(y, q \o s) PROVE InSeq(y, q) \/ InSeq(y, s)
  <2>1. PICK i \in 1..(Len(q) + Len(s)) : (q \o s)[i] = y
    BY <1>1, <1>2, Zenon DEF InSeq
  <2>2. CASE i <= Len(q)
    <3>1. i \in DOMAIN q /\ q[i] = y
      BY <1>1, <2>1, <2>2
    <3> QED BY <3>1, Zenon DEF InSeq
  <2>3. CASE i > Len(q)
    <3>1. i - Len(q) \in DOMAIN s /\ i = Len(q) + (i - Len(q))
      BY <1>1, <2>3
    <3>2. s[i - Len(q)] = y
      BY <1>1, <2>1, <3>1, Zenon
    <3> QED BY <3>1, <3>2, Zenon DEF InSeq
  <2> QED BY <1>1, <2>2, <2>3
<1>3. ASSUME NEW y, InSeq(y, q) PROVE InSeq(y, q \o s)
  <2>1. PICK i \in DOMAIN q : q[i] = y
    BY <1>3, Zenon DEF InSeq
  <2>2. i \in DOMAIN (q \o s) /\ (q \o s)[i] = y
    BY <1>1, <2>1
  <2> QED BY <2>2, Zenon DEF InSeq
<1>4. ASSUME NEW y, InSeq(y, s) PROVE InSeq(y, q \o s)
  <2>1. PICK i \in DOMAIN s : s[i] = y
    BY <1>4, Zenon DEF InSeq
  <2>2. Len(q) + i \in DOMAIN (q \o s) /\ (q \o s)[Len(q) + i] = y
    BY <1>1, <2>1
  <2> QED BY <2>2, Zenon DEF InSeq
<1> QED BY <1>2, <1>3, <1>4, Zenon

\* The head leaves and everyone else moves up.
LEMMA TailMembers ==
    ASSUME NEW S, NEW q \in Seq(S), q # <<>>
    PROVE  /\ Tail(q) \in Seq(S)
           /\ \A y : InSeq(y, q) <=> InSeq(y, Tail(q)) \/ y = Head(q)
<1>1. /\ Len(q) \in Nat \ {0} /\ DOMAIN q = 1..Len(q)
      /\ DOMAIN Tail(q) = 1..(Len(q) - 1)
      /\ \A i \in 1..(Len(q) - 1) : Tail(q)[i] = q[i + 1]
      /\ Head(q) = q[1] /\ Tail(q) \in Seq(S)
  OBVIOUS
<1>2. ASSUME NEW y, InSeq(y, q) PROVE InSeq(y, Tail(q)) \/ y = Head(q)
  <2>1. PICK i \in 1..Len(q) : q[i] = y
    BY <1>1, <1>2 DEF InSeq
  <2>2. CASE i = 1
    BY <1>1, <2>1, <2>2
  <2>3. CASE i # 1
    <3>1. i - 1 \in 1..(Len(q) - 1) /\ Tail(q)[i - 1] = y
      BY <1>1, <2>1, <2>3
    <3> QED BY <1>1, <3>1, Zenon DEF InSeq
  <2> QED BY <2>2, <2>3
<1>3. ASSUME NEW y, InSeq(y, Tail(q)) PROVE InSeq(y, q)
  <2>1. PICK i \in 1..(Len(q) - 1) : Tail(q)[i] = y
    BY <1>1, <1>3 DEF InSeq
  <2>2. i + 1 \in 1..Len(q) /\ q[i + 1] = y
    BY <1>1, <2>1
  <2> QED BY <1>1, <2>2 DEF InSeq
<1>4. InSeq(Head(q), q)
  BY <1>1 DEF InSeq
<1> QED BY <1>1, <1>2, <1>3, <1>4

============================================================================
