--------------------------- MODULE SelectingProofs ---------------------------
(***************************************************************************)
(* What sorting and selecting return, for every finite set and sequence.   *)
(***************************************************************************)
EXTENDS Selecting, FiniteSetTheorems, SequenceTheorems, TLAPS

(* Sorting is a bijection onto the set and puts smaller keys first: the    *)
(* number of smaller members is an injection of S into 0..n-1, hence onto. *)
LEMMA InOrderSorts ==
  ASSUME NEW S, IsFiniteSet(S), NEW key \in [S -> Nat],
         \A x, y \in S : key[x] = key[y] => x = y
  PROVE  /\ Cardinality(S) \in Nat
         /\ InOrder(S, key) \in [1 .. Cardinality(S) -> S]
         /\ \A x \in S : \E k \in 1 .. Cardinality(S) : InOrder(S, key)[k] = x
         /\ \A i, j \in 1 .. Cardinality(S) :
              i < j => key[InOrder(S, key)[i]] < key[InOrder(S, key)[j]]
<1> DEFINE n == Cardinality(S)
           Below(x) == {y \in S : key[y] < key[x]}
           rank == [x \in S |-> Cardinality(Below(x))]
           ranks == {rank[x] : x \in S}
<1>1. n \in Nat
  BY FS_CardinalityType
<1>2. \A x \in S : key[x] \in Nat
  OBVIOUS
<1>3. \A x \in S : rank[x] \in 0 .. n - 1
  <2> SUFFICES ASSUME NEW x \in S PROVE Cardinality(Below(x)) \in 0 .. n - 1
    OBVIOUS
  <2>1. Below(x) \subseteq S \ {x}
    BY <1>2
  <2>2. IsFiniteSet(S \ {x}) /\ Cardinality(S \ {x}) = n - 1
    BY FS_RemoveElement
  <2>3. /\ IsFiniteSet(Below(x))
        /\ Cardinality(Below(x)) <= Cardinality(S \ {x})
    BY <2>1, <2>2, FS_Subset
  <2>4. Cardinality(Below(x)) \in Nat
    BY <2>3, FS_CardinalityType
  <2> QED BY <1>1, <2>2, <2>3, <2>4
<1>4. \A x, y \in S : key[x] < key[y] => rank[x] < rank[y]
  <2> SUFFICES ASSUME NEW x \in S, NEW y \in S, key[x] < key[y]
               PROVE  Cardinality(Below(x)) < Cardinality(Below(y))
    OBVIOUS
  <2>1. Below(x) \subseteq Below(y) \ {x} /\ x \in Below(y)
    BY <1>2
  <2>2. IsFiniteSet(Below(y))
    BY FS_Subset
  <2>3. /\ IsFiniteSet(Below(y) \ {x})
        /\ Cardinality(Below(y) \ {x}) = Cardinality(Below(y)) - 1
    BY <2>1, <2>2, FS_RemoveElement
  <2>4. Cardinality(Below(x)) <= Cardinality(Below(y) \ {x})
    BY <2>1, <2>3, FS_Subset
  <2>5. IsFiniteSet(Below(x))
    BY FS_Subset
  <2>6. Cardinality(Below(x)) \in Nat /\ Cardinality(Below(y)) \in Nat
    BY <2>2, <2>5, FS_CardinalityType
  <2> QED BY <2>3, <2>4, <2>6
<1>5. \A x, y \in S : rank[x] = rank[y] => x = y
  <2> SUFFICES ASSUME NEW x \in S, NEW y \in S, rank[x] = rank[y], key[x] # key[y]
               PROVE  FALSE
    OBVIOUS
  <2>1. key[x] < key[y] \/ key[y] < key[x]
    BY <1>2
  <2>2. rank[x] \in Nat /\ rank[y] \in Nat
    BY <1>1, <1>3
  <2> HIDE DEF rank
  <2> QED BY <1>4, <2>1, <2>2
<1>6. ranks = 0 .. n - 1
  <2>1. ExistsBijection(S, ranks)
    <3> HIDE DEF Below
    <3>1. rank \in Bijection(S, ranks)
      BY <1>5 DEF Bijection, Injection, Surjection, IsInjective
    <3> QED BY <3>1 DEF ExistsBijection
  <2>2. IsFiniteSet(ranks) /\ Cardinality(ranks) = n
    BY <2>1, FS_Bijection
  <2>3. ranks \subseteq 0 .. n - 1
    BY <1>3
  <2>4. IsFiniteSet(0 .. n - 1) /\ Cardinality(0 .. n - 1) = n
    <3>1. 0 \in Int /\ n - 1 \in Int
      BY <1>1
    <3>2. IsFiniteSet(0 .. n - 1)
          /\ Cardinality(0 .. n - 1) = IF 0 > n - 1 THEN 0 ELSE n - 1 - 0 + 1
      BY <3>1, FS_Interval
    <3> QED BY <1>1, <3>2
  <2> HIDE DEF ranks, n
  <2> QED BY <2>2, <2>3, <2>4, FS_Subset
<1> DEFINE q == InOrder(S, key)
<1>7. q = [k \in 1 .. n |-> CHOOSE x \in S : rank[x] = k - 1]
  BY DEF InOrder
<1> HIDE DEF Below, rank, q, n
<1>8. \A k \in 1 .. n : q[k] \in S /\ rank[q[k]] = k - 1
  <2> SUFFICES ASSUME NEW k \in 1 .. n PROVE q[k] \in S /\ rank[q[k]] = k - 1
    OBVIOUS
  <2>1. k - 1 \in 0 .. n - 1
    BY <1>1
  <2>2. PICK x \in S : rank[x] = k - 1
    BY <1>6, <2>1
  <2> QED BY <1>7, <2>2
<1>9. q \in [1 .. n -> S]
  BY <1>7, <1>8
<1>10. \A x \in S : \E k \in 1 .. n : q[k] = x
  <2> SUFFICES ASSUME NEW x \in S PROVE \E k \in 1 .. n : q[k] = x
    OBVIOUS
  <2> DEFINE k == rank[x] + 1
  <2>1. k \in 1 .. n /\ k - 1 = rank[x]
    BY <1>1, <1>3
  <2> HIDE DEF k
  <2> QED BY <1>5, <1>8, <2>1
<1>11. \A i, j \in 1 .. n : i < j => key[q[i]] < key[q[j]]
  <2> SUFFICES ASSUME NEW i \in 1 .. n, NEW j \in 1 .. n, i < j
               PROVE  key[q[i]] < key[q[j]]
    OBVIOUS
  <2>1. rank[q[i]] < rank[q[j]] /\ q[i] \in S /\ q[j] \in S
    BY <1>1, <1>8
  <2>2. rank[q[i]] \in Nat /\ rank[q[j]] \in Nat
    BY <1>1, <1>3, <2>1
  <2>3. key[q[i]] \in Nat /\ key[q[j]] \in Nat
    BY <1>2, <2>1
  <2>4. CASE key[q[j]] < key[q[i]]
    BY <1>4, <2>1, <2>2, <2>4
  <2>5. CASE key[q[j]] = key[q[i]]
    BY <2>1, <2>2, <2>5
  <2> QED BY <2>3, <2>4, <2>5
<1> QED BY <1>1, <1>9, <1>10, <1>11 DEF q, n

LEMMA AscendingSorts ==
  ASSUME NEW S \in SUBSET Nat, IsFiniteSet(S)
  PROVE  /\ Cardinality(S) \in Nat
         /\ Ascending(S) \in [1 .. Cardinality(S) -> S]
         /\ \A x \in S : \E k \in 1 .. Cardinality(S) : Ascending(S)[k] = x
         /\ \A i, j \in 1 .. Cardinality(S) : i < j => Ascending(S)[i] < Ascending(S)[j]
<1> DEFINE key == [n \in S |-> n]
<1>1. key \in [S -> Nat] /\ \A x, y \in S : key[x] = key[y] => x = y
  OBVIOUS
<1>2. \A x \in S : key[x] = x
  OBVIOUS
<1>3. Ascending(S) = InOrder(S, key)
  BY DEF Ascending
<1> HIDE DEF key
<1>4. /\ Cardinality(S) \in Nat
      /\ InOrder(S, key) \in [1 .. Cardinality(S) -> S]
      /\ \A x \in S : \E k \in 1 .. Cardinality(S) : InOrder(S, key)[k] = x
      /\ \A i, j \in 1 .. Cardinality(S) :
           i < j => key[InOrder(S, key)[i]] < key[InOrder(S, key)[j]]
  BY <1>1, InOrderSorts
<1>5. \A i \in 1 .. Cardinality(S) :
        InOrder(S, key)[i] \in S /\ key[InOrder(S, key)[i]] = InOrder(S, key)[i]
  BY <1>2, <1>4
<1>6. \A i, j \in 1 .. Cardinality(S) :
        i < j => InOrder(S, key)[i] < InOrder(S, key)[j]
  BY <1>4, <1>5
<1> QED BY <1>3, <1>4, <1>6

(* Selecting keeps the order: at is strictly increasing and enumerates the *)
(* positions of what is kept.                                              *)
LEMMA KeptSelects ==
  ASSUME NEW T, NEW seq \in Seq(T), NEW keep
  PROVE  LET q == Kept(seq, keep)
             where == {i \in DOMAIN seq : seq[i] \in keep}
         IN  /\ q \in Seq(T) /\ q \in Seq(keep) /\ Len(q) = Cardinality(where)
             /\ \E at \in [DOMAIN q -> where] :
                  /\ \A k \in DOMAIN q : q[k] = seq[at[k]]
                  /\ \A i \in where : \E k \in DOMAIN q : at[k] = i
                  /\ \A i, j \in DOMAIN q : i < j => at[i] < at[j]
<1> DEFINE q == Kept(seq, keep)
           where == {i \in DOMAIN seq : seq[i] \in keep}
           at == Ascending(where)
           n == Cardinality(where)
<1>1. DOMAIN seq = 1 .. Len(seq) /\ Len(seq) \in Nat /\ \A i \in DOMAIN seq : seq[i] \in T
  OBVIOUS
<1>2. IsFiniteSet(where) /\ where \in SUBSET Nat
  <2>1. IsFiniteSet(1 .. Len(seq))
    BY <1>1, FS_Interval
  <2>2. where \in SUBSET (1 .. Len(seq))
    BY <1>1
  <2> QED BY <1>1, <2>1, <2>2, FS_Subset
<1>3. q = [k \in DOMAIN at |-> seq[at[k]]]
  BY DEF Kept
<1>4. \A i \in where : i \in DOMAIN seq /\ seq[i] \in keep /\ seq[i] \in T
  BY <1>1
<1> HIDE DEF q, where
<1>5. /\ n \in Nat /\ at \in [1 .. n -> where]
      /\ \A i \in where : \E k \in 1 .. n : at[k] = i
      /\ \A i, j \in 1 .. n : i < j => at[i] < at[j]
  BY <1>2, AscendingSorts
<1> HIDE DEF at, n
<1>6. DOMAIN q = 1 .. n /\ \A k \in 1 .. n : q[k] = seq[at[k]] /\ at[k] \in where
  BY <1>3, <1>5
<1>7. \A k \in 1 .. n : q[k] \in T /\ q[k] \in keep
  BY <1>4, <1>6
<1>8. q = [k \in 1 .. n |-> seq[at[k]]]
  BY <1>3, <1>6
<1>9. q \in [1 .. n -> T] /\ q \in [1 .. n -> keep]
  BY <1>6, <1>7, <1>8
<1>10. q \in Seq(T) /\ q \in Seq(keep) /\ Len(q) = n
  BY <1>5, <1>6, <1>9
<1> QED BY <1>5, <1>6, <1>10 DEF q, where, n

(* What is kept is what the sequence and the set have in common.           *)
LEMMA KeptRange ==
  ASSUME NEW T, NEW seq \in Seq(T), NEW keep
  PROVE  /\ \A k \in DOMAIN Kept(seq, keep) :
              \E i \in DOMAIN seq : seq[i] = Kept(seq, keep)[k] /\ seq[i] \in keep
         /\ \A i \in DOMAIN seq :
              seq[i] \in keep => \E k \in DOMAIN Kept(seq, keep) : Kept(seq, keep)[k] = seq[i]
<1> DEFINE q == Kept(seq, keep)
           where == {i \in DOMAIN seq : seq[i] \in keep}
<1>1. PICK at \in [DOMAIN q -> where] :
         /\ \A k \in DOMAIN q : q[k] = seq[at[k]]
         /\ \A i \in where : \E k \in DOMAIN q : at[k] = i
  <2> HIDE DEF q, where
  <2>1. /\ q \in Seq(T)
        /\ \E at \in [DOMAIN q -> where] :
             /\ \A k \in DOMAIN q : q[k] = seq[at[k]]
             /\ \A i \in where : \E k \in DOMAIN q : at[k] = i
             /\ \A i, j \in DOMAIN q : i < j => at[i] < at[j]
    BY KeptSelects DEF q, where
  <2> QED BY <2>1
<1> HIDE DEF q
<1>2. \A k \in DOMAIN q : at[k] \in where
  BY <1>1
<1> QED BY <1>1, <1>2 DEF q

LEMMA LeastMember ==
  ASSUME NEW S \in SUBSET Nat, IsFiniteSet(S), NEW x \in S
  PROVE  \E m \in S : \A y \in S : m <= y
<1> DEFINE n == Cardinality(S)
           a == Ascending(S)
<1>1. /\ n \in Nat /\ a \in [1 .. n -> S]
      /\ \A y \in S : \E k \in 1 .. n : a[k] = y
      /\ \A i, j \in 1 .. n : i < j => a[i] < a[j]
  BY AscendingSorts
<1> HIDE DEF n, a
<1>2. 1 \in 1 .. n
  BY <1>1
<1>3. a[1] \in S
  BY <1>1, <1>2
<1>4. ASSUME NEW y \in S PROVE a[1] <= y
  <2>1. PICK k \in 1 .. n : a[k] = y
    BY <1>1
  <2>2. CASE k = 1
    BY <1>3, <2>1, <2>2
  <2>3. CASE 1 < k
    <3>1. a[1] < a[k]
      BY <1>1, <1>2, <2>3
    <3>2. a[1] \in Nat /\ y \in Nat
      BY <1>3
    <3> QED BY <2>1, <3>1, <3>2
  <2> QED BY <1>1, <2>2, <2>3
<1> QED BY <1>3, <1>4
=============================================================================
