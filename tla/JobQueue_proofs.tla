--------------------------- MODULE JobQueue_proofs ---------------------------
(* Lemmas about the list of jobs and about counting, for the proofs of both  *)
(* servers.                                                                  *)
EXTENDS JobQueue, FiniteSetTheorems, SequenceTheorems, WellFoundedInduction,
        TLAPS

(* A set of positive numbers has a least element.                            *)
LEMMA LeastNumber ==
    ASSUME NEW T, T \subseteq Nat \ {0}, T # {}
    PROVE  \E m \in T : \A k \in T : m <= k
<1> DEFINE F == {1 .. i : i \in T}
<1>1. F \subseteq FiniteSubsetsOf(Nat) /\ F # {}
  <2>1. \A i \in T : 1 .. i \in SUBSET Nat /\ IsFiniteSet(1 .. i)
    BY FS_Interval
  <2> QED
    BY <2>1 DEF FiniteSubsetsOf
<1>2. PICK X \in F : \A Y \in F : <<Y, X>> \notin StrictSubsetOrdering(Nat)
  BY <1>1, WFMin, FS_StrictSubsetOrderingWellFounded
<1>3. PICK m \in T : X = 1 .. m
  BY <1>2
<1>4. ASSUME NEW k \in T, k < m
      PROVE  FALSE
  <2>1. 1 .. k \in F /\ 1 .. k \subseteq 1 .. m /\ m \in 1 .. m /\ m \notin 1 .. k
    BY <1>4
  <2>2. 1 .. k \in SUBSET Nat /\ 1 .. m \in SUBSET Nat
    OBVIOUS
  <2> QED
    BY <1>2, <1>3, <2>1, <2>2 DEF StrictSubsetOrdering
<1> QED
  BY <1>4

(* queue_position returns a position of the queue, or -1.                    *)
LEMMA PositionInQueue ==
    ASSUME NEW S, NEW q \in Seq(S), NEW id, QueuePosition(q, id) # -1
    PROVE  QueuePosition(q, id) \in 1 .. Len(q)
<1> DEFINE T == {i \in 1 .. Len(q) : q[i].id = id}
<1>1. DOMAIN q = 1 .. Len(q) /\ T \subseteq Nat \ {0}
  BY LenProperties
<1>2. Holds(q, id) /\ T # {}
  BY <1>1 DEF QueuePosition, Holds
<1>3. PICK m \in T : \A k \in T : m <= k
  BY <1>1, <1>2, LeastNumber
<1>4. \A j \in 1 .. (m - 1) : q[j].id # id
  <2> SUFFICES ASSUME NEW j \in 1 .. (m - 1), q[j].id = id
               PROVE  FALSE
    OBVIOUS
  <2>1. j \in T /\ j < m
    BY <1>1
  <2> QED
    BY <2>1, <1>3, <1>1
<1>5. \E i \in DOMAIN q : q[i].id = id /\ \A j \in 1 .. (i - 1) : q[j].id # id
  BY <1>1, <1>3, <1>4
<1> QED
  BY <1>1, <1>2, <1>5 DEF QueuePosition

(* erase keeps the jobs a sequence of jobs, one shorter.                     *)
LEMMA EraseShortens ==
    ASSUME NEW S, NEW q \in Seq(S), NEW i \in 1 .. Len(q)
    PROVE  Erase(q, i) \in Seq(S) /\ Len(Erase(q, i)) = Len(q) - 1
<1>1. Len(q) \in Nat /\ \A j \in 1 .. Len(q) : q[j] \in S
  BY LenProperties
<1>2. /\ SubSeq(q, 1, i - 1) \in Seq(S) /\ Len(SubSeq(q, 1, i - 1)) = i - 1
      /\ SubSeq(q, i + 1, Len(q)) \in Seq(S)
      /\ Len(SubSeq(q, i + 1, Len(q))) = Len(q) - i
  BY <1>1, SubSeqProperties
<1> DEFINE a == SubSeq(q, 1, i - 1)
           b == SubSeq(q, i + 1, Len(q))
<1>3. Erase(q, i) = a \o b
  BY DEF Erase, RemoveAt
<1>4. a \in Seq(S) /\ b \in Seq(S) /\ Len(a) + Len(b) = Len(q) - 1
  <2> HIDE DEF a, b
  <2>1. a \in Seq(S) /\ b \in Seq(S) /\ Len(a) = i - 1 /\ Len(b) = Len(q) - i
    BY <1>2 DEF a, b
  <2> QED
    BY <1>1, <2>1
<1> HIDE DEF a, b
<1>5. a \o b \in Seq(S) /\ Len(a \o b) = Len(a) + Len(b)
  BY <1>4, ConcatProperties
<1> QED
  BY <1>3, <1>4, <1>5

(* The entries behind the erased one move up, the others stay.               *)
LEMMA EraseEntries ==
    ASSUME NEW S, NEW q \in Seq(S), NEW i \in 1 .. Len(q)
    PROVE  \A k \in 1 .. (Len(q) - 1) :
                Erase(q, i)[k] = IF k < i THEN q[k] ELSE q[k + 1]
<1>1. Len(q) \in Nat
  BY LenProperties
<1> DEFINE a == SubSeq(q, 1, i - 1)
           b == SubSeq(q, i + 1, Len(q))
<1>2. /\ a \in Seq(S) /\ Len(a) = i - 1 /\ \A k \in 1 .. (i - 1) : a[k] = q[k]
      /\ b \in Seq(S) /\ Len(b) = Len(q) - i
      /\ \A k \in 1 .. (Len(q) - i) : b[k] = q[i + k]
  BY <1>1, SubSeqProperties
<1>3. Erase(q, i) = a \o b
  BY DEF Erase, RemoveAt
<1> HIDE DEF a, b
<1> SUFFICES ASSUME NEW k \in 1 .. (Len(q) - 1)
             PROVE  (a \o b)[k] = IF k < i THEN q[k] ELSE q[k + 1]
  BY <1>3
<1>4. (a \o b)[k] = IF k <= Len(a) THEN a[k] ELSE b[k - Len(a)]
  BY <1>1, <1>2, ConcatProperties
<1>5. CASE k < i
  BY <1>1, <1>2, <1>4, <1>5
<1>6. CASE ~(k < i)
  <2>1. k - (i - 1) \in 1 .. (Len(q) - i) /\ i + (k - (i - 1)) = k + 1
    BY <1>1, <1>6
  <2> QED
    BY <1>1, <1>2, <1>4, <1>6, <2>1
<1> QED
  BY <1>5, <1>6

(* What is left of a sequence was there before, each entry at a place of its *)
(* own.                                                                      *)
Inherits(after, before) ==
    \E g \in [DOMAIN after -> DOMAIN before] :
        /\ \A k \in DOMAIN g : after[k] = before[g[k]]
        /\ \A k, m \in DOMAIN g : g[k] = g[m] => k = m

LEMMA EraseKeeps ==
    ASSUME NEW S, NEW q \in Seq(S), NEW i \in 1 .. Len(q)
    PROVE  /\ Inherits(Erase(q, i), q)
           /\ \A k \in DOMAIN Erase(q, i) :
                \E m \in DOMAIN q : m # i /\ Erase(q, i)[k] = q[m]
<1> DEFINE g == [k \in 1 .. (Len(q) - 1) |-> IF k < i THEN k ELSE k + 1]
<1>1. Len(q) \in Nat
  BY LenProperties
<1>2. g \in [1 .. (Len(q) - 1) -> (1 .. Len(q)) \ {i}]
  BY <1>1
<1>3. \A k \in 1 .. (Len(q) - 1) : Erase(q, i)[k] = q[g[k]]
  BY EraseEntries
<1>4. \A k, m \in 1 .. (Len(q) - 1) : g[k] = g[m] => k = m
  BY <1>1
<1>5. DOMAIN q = 1 .. Len(q) /\ DOMAIN Erase(q, i) = 1 .. (Len(q) - 1)
  BY EraseShortens, LenProperties
<1> HIDE DEF g
<1>6. DOMAIN g = DOMAIN Erase(q, i) /\ g \in [DOMAIN Erase(q, i) -> DOMAIN q]
  BY <1>2, <1>5
<1>7. Inherits(Erase(q, i), q)
  BY <1>3, <1>4, <1>5, <1>6 DEF Inherits
<1> QED
  BY <1>2, <1>3, <1>5, <1>7

-----------------------------------------------------------------------------
(* Moving one element in or out of a set changes its size by one.            *)

LEMMA CountMoves ==
    ASSUME NEW S, IsFiniteSet(S), NEW T, NEW x,
           T = S \cup {x} \/ T = S \ {x}
    PROVE  /\ IsFiniteSet(T)
           /\ Cardinality(S) \in Nat /\ Cardinality(T) \in Nat
           /\ Cardinality(T) = Cardinality(S) + (IF x \in T THEN 1 ELSE 0)
                                              - (IF x \in S THEN 1 ELSE 0)
<1>1. CASE T = S \cup {x}
  BY <1>1, FS_AddElement, FS_CardinalityType
<1>2. CASE T = S \ {x}
  <2>1. /\ IsFiniteSet(S \ {x})
        /\ Cardinality(S \ {x}) = IF x \in S THEN Cardinality(S) - 1
                                             ELSE Cardinality(S)
    BY FS_RemoveElement
  <2>2. Cardinality(S) \in Nat /\ Cardinality(T) \in Nat /\ x \notin T
    BY <1>2, <2>1, FS_CardinalityType
  <2> QED
    BY <1>2, <2>1, <2>2
<1> QED
  BY <1>1, <1>2

(* A finite set of positive numbers has a k-th member.                       *)
LEMMA KthMember ==
    ASSUME NEW n \in Nat, NEW K, K \subseteq 1 .. n,
           NEW k \in 1 .. Cardinality(K)
    PROVE  \E i \in K : Cardinality({m \in K : m <= i}) = k
<1> DEFINE Upto(i) == {m \in K : m <= i}
           size(i) == Cardinality(Upto(i))
           T == {i \in 1 .. n : size(i) >= k}
<1>0. \A m \in K : m \in Int /\ 1 <= m /\ m <= n
  OBVIOUS
<1>1. IsFiniteSet(K) /\ Cardinality(K) \in Nat
  <2>1. IsFiniteSet(1 .. n)
    BY FS_Interval
  <2>2. IsFiniteSet(K)
    BY <2>1, FS_Subset
  <2> QED
    BY <2>2, FS_CardinalityType
<1>2. \A i \in 0 .. n : IsFiniteSet(Upto(i)) /\ size(i) \in Nat
  <2> TAKE i \in 0 .. n
  <2>1. Upto(i) \subseteq K
    OBVIOUS
  <2>2. IsFiniteSet(Upto(i))
    BY <1>1, <2>1, FS_Subset
  <2> QED
    BY <2>2, FS_CardinalityType
<1>3. size(n) = Cardinality(K) /\ size(0) = 0
  <2>1. Upto(n) = K
    BY <1>0
  <2>2. Upto(0) = {}
    <3>1. \A m \in K : ~(m <= 0)
      BY <1>0
    <3> QED
      BY <3>1
  <2> QED
    BY <2>1, <2>2, FS_EmptySet
<1>4. \A i \in 1 .. n : IF i \in K THEN size(i) = size(i - 1) + 1
                                   ELSE size(i) = size(i - 1)
  <2> TAKE i \in 1 .. n
  <2>1. i - 1 \in 0 .. n /\ i \notin Upto(i - 1)
    OBVIOUS
  <2>2. CASE i \in K
    <3>1. Upto(i) = Upto(i - 1) \cup {i}
      <4>1. \A m \in K : m <= i <=> m <= i - 1 \/ m = i
        BY <1>0
      <4> QED
        BY <2>2, <4>1
    <3>2. Cardinality(Upto(i - 1) \cup {i}) = size(i - 1) + 1
      BY <1>2, <2>1, FS_AddElement
    <3> QED
      BY <2>2, <3>1, <3>2
  <2>3. CASE i \notin K
    <3>1. Upto(i) = Upto(i - 1)
      <4>1. \A m \in K : m <= i <=> m <= i - 1
        BY <1>0, <2>3
      <4> QED
        BY <4>1
    <3> QED
      BY <2>3, <3>1
  <2> QED
    BY <2>2, <2>3
<1> SUFFICES \E i \in K : size(i) = k
  OBVIOUS
<1> HIDE DEF Upto, size
<1>5. n \in T /\ T \subseteq Nat \ {0}
  BY <1>1, <1>3
<1>6. PICK i \in T : \A m \in T : i <= m
  <2> HIDE DEF T
  <2> QED
    BY <1>5, LeastNumber
<1>7. size(i - 1) < k
  <2>1. CASE i = 1
    BY <2>1, <1>3
  <2>2. CASE i # 1
    <3>1. i - 1 \in 1 .. n /\ i - 1 \notin T
      BY <2>2, <1>6
    <3> QED
      BY <3>1, <1>2
  <2> QED
    BY <2>1, <2>2
<1>8. i \in 1 .. n /\ size(i) \in Nat /\ size(i - 1) \in Nat /\ size(i) >= k
  BY <1>2
<1> QED
  BY <1>1, <1>4, <1>7, <1>8
=============================================================================
