---------------------------- MODULE QueuesProofs ----------------------------
(***************************************************************************)
(* What is left of a queue keeps its order, and what appending, taking the *)
(* first and joining leave where.                                          *)
(***************************************************************************)
EXTENDS Queues, FiniteSetTheorems, TLAPS

-----------------------------------------------------------------------------
(* The elements of S in s are counted from the first to the last.            *)
LEMMA PlacesCounted ==
  ASSUME NEW T, NEW s \in Seq(T), NEW S
  PROVE  /\ IsFiniteSet(Places(s, S)) /\ Cardinality(Places(s, S)) \in Nat
         /\ \A k \in 1..Cardinality(Places(s, S)) :
              /\ Place(Places(s, S), k) \in Places(s, S)
              /\ Cardinality({j \in Places(s, S) : j <= Place(Places(s, S), k)}) = k
         /\ \A i \in Places(s, S) : \E k \in 1..Cardinality(Places(s, S)) : Place(Places(s, S), k) = i
         /\ \A k, l \in 1..Cardinality(Places(s, S)) : k < l => Place(Places(s, S), k) < Place(Places(s, S), l)
<1>. DEFINE P == Places(s, S)
            Upto(i) == {j \in P : j <= i}
            n == Cardinality(P)
            rank == [i \in P |-> Cardinality(Upto(i))]
<1>1. P \subseteq 1..Len(s) /\ Len(s) \in Nat
  BY DEF Places
<1>2. IsFiniteSet(P) /\ n \in Nat
  <2>1. IsFiniteSet(1..Len(s))
    BY <1>1, FS_Interval
  <2>2. IsFiniteSet(P)
    BY <2>1, <1>1, FS_Subset
  <2>. QED BY <2>2, FS_CardinalityType
<1>. HIDE DEF P
<1>3. \A i \in P : Upto(i) \in SUBSET P /\ i \in Upto(i)
  BY <1>1
<1>4. \A i \in P : IsFiniteSet(Upto(i)) /\ Cardinality(Upto(i)) \in 1..n
  <2>. TAKE i \in P
  <2>1. IsFiniteSet(Upto(i)) /\ Cardinality(Upto(i)) <= n /\ Cardinality(Upto(i)) \in Nat
    BY <1>2, <1>3, FS_Subset, FS_CardinalityType
  <2>2. Cardinality(Upto(i)) # 0
    BY <2>1, <1>3, FS_EmptySet
  <2>. QED BY <2>1, <2>2, <1>2
<1>5. \A i, j \in P : i < j => Cardinality(Upto(i)) < Cardinality(Upto(j))
  <2>. SUFFICES ASSUME NEW i \in P, NEW j \in P, i < j
       PROVE  Cardinality(Upto(i)) < Cardinality(Upto(j))
    OBVIOUS
  <2>1. Upto(i) \in SUBSET Upto(j) /\ j \in Upto(j) /\ j \notin Upto(i)
    <3>1. i \in Int /\ j \in Int /\ \A k \in P : k \in Int
      BY <1>1
    <3>2. j \in Upto(j) /\ j \notin Upto(i)
      BY <3>1
    <3>3. Upto(i) \in SUBSET Upto(j)
      <4>. SUFFICES ASSUME NEW k \in P, k <= i PROVE k <= j
        OBVIOUS
      <4>. QED BY <3>1
    <3>. QED BY <3>2, <3>3
  <2>2. Upto(i) # Upto(j)
    BY <2>1
  <2>3. Cardinality(Upto(i)) <= Cardinality(Upto(j)) /\ Cardinality(Upto(i)) # Cardinality(Upto(j))
    BY <2>1, <2>2, <1>4, FS_Subset
  <2>4. Cardinality(Upto(i)) \in Int /\ Cardinality(Upto(j)) \in Int
    <3>. HIDE DEF Upto, n, rank
    <3>. QED BY <1>4, <1>2
  <2>. HIDE DEF Upto
  <2>. QED BY <2>3, <2>4
<1>. HIDE DEF Upto
<1>6. rank \in Injection(P, 1..n)
  <2>1. rank \in [P -> 1..n]
    BY <1>4
  <2>2. \A i, j \in P : rank[i] = rank[j] => i = j
    <3>. SUFFICES ASSUME NEW i \in P, NEW j \in P, rank[i] = rank[j], i # j PROVE FALSE
      OBVIOUS
    <3>1. i < j \/ j < i
      BY <1>1
    <3>2. rank[i] = Cardinality(Upto(i)) /\ rank[j] = Cardinality(Upto(j))
      OBVIOUS
    <3>. QED BY <3>1, <3>2, <1>5, <1>4, <1>2
  <2>. QED BY <2>1, <2>2, Zenon DEF Injection, IsInjective
<1>7. IsFiniteSet(1..n) /\ Cardinality(1..n) = n
  BY <1>2, FS_Interval
<1>8. rank \in Surjection(P, 1..n)
  BY <1>6, <1>7, FS_Injection
<1>9. \A k \in 1..n : \E i \in P : Cardinality(Upto(i)) = k
  BY <1>8 DEF Surjection
<1>10. \A k \in 1..n : Place(Places(s, S), k) \in P /\ Cardinality(Upto(Place(Places(s, S), k))) = k
  BY <1>9 DEF Place, P, Upto
<1>11. \A i \in P : \E k \in 1..n : Place(Places(s, S), k) = i
  <2>. TAKE i \in P
  <2>1. Cardinality(Upto(i)) \in 1..n
    BY <1>4
  <2>. WITNESS Cardinality(Upto(i)) \in 1..n
  <2>2. Place(Places(s, S), Cardinality(Upto(i))) \in P
        /\ Cardinality(Upto(Place(Places(s, S), Cardinality(Upto(i))))) = Cardinality(Upto(i))
    BY <1>10, <2>1
  <2>. QED
    <3>. DEFINE p == Place(Places(s, S), Cardinality(Upto(i)))
    <3>1. p \in P /\ Cardinality(Upto(p)) = Cardinality(Upto(i))
      BY <2>2
    <3>. HIDE DEF p
    <3>2. p < i \/ i < p \/ p = i
      BY <1>1, <3>1
    <3>3. Cardinality(Upto(p)) \in Int /\ Cardinality(Upto(i)) \in Int
      BY <3>1, <1>4, <1>2
    <3>4. p = i
      BY <3>1, <3>2, <3>3, <1>5
    <3>. QED BY <3>4 DEF p
<1>12. \A k, l \in 1..n : k < l => Place(Places(s, S), k) < Place(Places(s, S), l)
  <2>. SUFFICES ASSUME NEW k \in 1..n, NEW l \in 1..n, k < l, ~(Place(Places(s, S), k) < Place(Places(s, S), l))
       PROVE  FALSE
    OBVIOUS
  <2>. DEFINE a == Place(Places(s, S), k)
              b == Place(Places(s, S), l)
  <2>1. a \in P /\ b \in P /\ Cardinality(Upto(a)) = k /\ Cardinality(Upto(b)) = l /\ ~(a < b)
    BY <1>10
  <2>. HIDE DEF a, b
  <2>2. b < a \/ a = b
    BY <2>1, <1>1
  <2>. QED BY <2>1, <2>2, <1>5, <1>2
<1>. QED BY <1>2, <1>10, <1>11, <1>12 DEF P, Upto

LEMMA OnlyTakes ==
  ASSUME NEW s, NEW S
  PROVE  Only(s, S) = [k \in 1..Cardinality(Places(s, S)) |-> s[Place(Places(s, S), k)]]
<1>1. UNION {{AtPlaces(t, ps) : ps \in {Places(t, S)}} : t \in {s}} = {AtPlaces(s, Places(s, S))}
  OBVIOUS
<1>2. Only(s, S) = AtPlaces(s, Places(s, S))
  BY <1>1 DEF Only
<1>. QED BY <1>2 DEF AtPlaces

(* What stays of a queue is of its frames, each in its place among the others. *)
LEMMA OnlyIs ==
  ASSUME NEW T, NEW s \in Seq(T), NEW S
  PROVE  /\ Only(s, S) \in Seq(T)
         /\ \E p \in [DOMAIN Only(s, S) -> DOMAIN s] :
              /\ \A k \in DOMAIN Only(s, S) : Only(s, S)[k] = s[p[k]] /\ s[p[k]] \in S
              /\ \A k, l \in DOMAIN Only(s, S) : k < l => p[k] < p[l]
              /\ \A i \in DOMAIN s : s[i] \in S => \E k \in DOMAIN Only(s, S) : p[k] = i
<1>. DEFINE n == Cardinality(Places(s, S))
            p == [k \in 1..n |-> Place(Places(s, S), k)]
<1>1. n \in Nat /\ DOMAIN Only(s, S) = 1..n /\ \A k \in 1..n : Only(s, S)[k] = s[Place(Places(s, S), k)]
  BY PlacesCounted, OnlyTakes
<1>2. \A k \in 1..n : Place(Places(s, S), k) \in DOMAIN s /\ s[Place(Places(s, S), k)] \in S
  BY PlacesCounted DEF Places
<1>3. \A i \in DOMAIN s : s[i] \in S => \E k \in 1..n : Place(Places(s, S), k) = i
  <2>1. \A i \in DOMAIN s : s[i] \in S => i \in Places(s, S)
    BY DEF Places
  <2>. QED BY <2>1, PlacesCounted
<1>4. \A k, l \in 1..n : k < l => Place(Places(s, S), k) < Place(Places(s, S), l)
  BY PlacesCounted
<1>5. Only(s, S) = [k \in 1..n |-> s[Place(Places(s, S), k)]]
  BY OnlyTakes
<1>. HIDE DEF n
<1>6. Only(s, S) \in Seq(T)
  <2>1. \A k \in 1..n : s[Place(Places(s, S), k)] \in T
    BY <1>2
  <2>2. [k \in 1..n |-> s[Place(Places(s, S), k)]] \in [1..n -> T]
    BY <2>1
  <2>. QED BY <2>2, <1>5, <1>1
<1>7. p \in [DOMAIN Only(s, S) -> DOMAIN s]
  BY <1>1, <1>2
<1>8. \A k \in 1..n : p[k] = Place(Places(s, S), k)
  OBVIOUS
<1>. HIDE DEF p
<1>9. \A k \in DOMAIN Only(s, S) : Only(s, S)[k] = s[p[k]] /\ s[p[k]] \in S
  BY <1>1, <1>2, <1>8
<1>10. \A k, l \in DOMAIN Only(s, S) : k < l => p[k] < p[l]
  BY <1>1, <1>4, <1>8
<1>11. \A i \in DOMAIN s : s[i] \in S => \E k \in DOMAIN Only(s, S) : p[k] = i
  BY <1>1, <1>3, <1>8
<1>. QED BY <1>6, <1>7, <1>9, <1>10, <1>11, Zenon

-----------------------------------------------------------------------------
LEMMA AppendIs ==
  ASSUME NEW T, NEW s \in Seq(T), NEW f \in T
  PROVE  /\ Append(s, f) \in Seq(T) /\ Len(Append(s, f)) = Len(s) + 1
         /\ DOMAIN Append(s, f) = DOMAIN s \cup {Len(s) + 1}
         /\ Append(s, f)[Len(s) + 1] = f
         /\ \A i \in DOMAIN s : Append(s, f)[i] = s[i] /\ i <= Len(s) /\ i \in Nat
OBVIOUS

LEMMA TailIs ==
  ASSUME NEW T, NEW s \in Seq(T), s # <<>>
  PROVE  /\ Head(s) = s[1] /\ Head(s) \in T /\ 1 \in DOMAIN s /\ Tail(s) \in Seq(T)
         /\ \A i \in DOMAIN Tail(s) : i \in Nat /\ i + 1 \in DOMAIN s /\ Tail(s)[i] = s[i + 1]
         /\ \A i \in DOMAIN s : i # 1 => i - 1 \in DOMAIN Tail(s) /\ Tail(s)[i - 1] = s[i]
OBVIOUS

LEMMA CatIs ==
  ASSUME NEW T, NEW s \in Seq(T), NEW r \in Seq(T)
  PROVE  /\ s \o r \in Seq(T) /\ Len(s \o r) = Len(s) + Len(r)
         /\ \A i \in DOMAIN s : i \in DOMAIN (s \o r) /\ (s \o r)[i] = s[i]
         /\ \A i \in DOMAIN r : Len(s) + i \in DOMAIN (s \o r) /\ (s \o r)[Len(s) + i] = r[i]
         /\ \A i \in DOMAIN (s \o r) : i \in DOMAIN s \/ (i - Len(s) \in DOMAIN r /\ (s \o r)[i] = r[i - Len(s)])
<1>1. s \o r \in Seq(T) /\ Len(s \o r) = Len(s) + Len(r)
  OBVIOUS
<1>2. \A i \in DOMAIN s : i \in DOMAIN (s \o r) /\ (s \o r)[i] = s[i]
  OBVIOUS
<1>3. \A i \in DOMAIN r : Len(s) + i \in DOMAIN (s \o r) /\ (s \o r)[Len(s) + i] = r[i]
  OBVIOUS
<1>4. \A i \in DOMAIN (s \o r) : i \in DOMAIN s \/ (i - Len(s) \in DOMAIN r /\ (s \o r)[i] = r[i - Len(s)])
  OBVIOUS
<1>. QED BY <1>1, <1>2, <1>3, <1>4
============================================================================
