--------------------------- MODULE SelectionProofs ---------------------------
(* What Kept keeps of a sequence: the elements of the set, each at its turn. *)
EXTENDS Selection, FiniteSetTheorems, SequenceTheorems, WellFoundedInduction, TLAPS

\* A set of natural numbers that is not empty has a least element.
LEMMA LeastExists ==
    ASSUME NEW Q \in SUBSET Nat, Q # {}
    PROVE  \E n \in Q : \A m \in Q : n <= m
<1> DEFINE Belows == {0 .. n : n \in Q}
<1>1. \A n \in Q : 0 .. n \in FiniteSubsetsOf(Nat)
  <2>1. \A n \in Q : 0 .. n \in SUBSET Nat /\ IsFiniteSet(0 .. n)
    BY FS_Interval
  <2> QED BY <2>1 DEF FiniteSubsetsOf
<1>2. Belows \subseteq FiniteSubsetsOf(Nat) /\ Belows # {}
  BY <1>1
<1>3. PICK A \in Belows : \A B \in Belows : <<B, A>> \notin StrictSubsetOrdering(Nat)
  BY <1>2, FS_StrictSubsetOrderingWellFounded, WFMin
<1>4. PICK n \in Q : A = 0 .. n
  BY <1>3
<1>5. ASSUME NEW m \in Q, m < n
      PROVE  FALSE
  <2>1. 0 .. m \in SUBSET (0 .. n) /\ n \in 0 .. n /\ n \notin 0 .. m
    BY <1>5
  <2>2. <<0 .. m, 0 .. n>> \in StrictSubsetOrdering(Nat)
    BY <2>1 DEF StrictSubsetOrdering
  <2> QED BY <1>3, <1>4, <2>2
<1> QED BY <1>5

\* The places kept are finitely many, none of them before the first, ...
LEMMA KeptPlacesFinite ==
    ASSUME NEW S, NEW s \in Seq(S), NEW T, NEW i \in Nat
    PROVE  /\ IsFiniteSet(KeptPlaces(s, T)) /\ IsFiniteSet(KeptUpTo(s, T, i))
           /\ Cardinality(KeptPlaces(s, T)) \in Nat
           /\ Cardinality(KeptUpTo(s, T, i)) \in Nat
           /\ Cardinality(KeptUpTo(s, T, i)) <= Cardinality(KeptPlaces(s, T))
           /\ Cardinality(KeptUpTo(s, T, 0)) = 0
           /\ KeptUpTo(s, T, Len(s)) = KeptPlaces(s, T)
<1>1. KeptPlaces(s, T) \in SUBSET (1 .. Len(s)) /\ IsFiniteSet(1 .. Len(s))
  BY FS_Interval DEF KeptPlaces
<1>2. IsFiniteSet(KeptPlaces(s, T))
  BY <1>1, FS_Subset
<1>3. KeptUpTo(s, T, i) \in SUBSET KeptPlaces(s, T)
  BY DEF KeptUpTo
<1>4. /\ IsFiniteSet(KeptUpTo(s, T, i))
      /\ Cardinality(KeptUpTo(s, T, i)) <= Cardinality(KeptPlaces(s, T))
  BY <1>2, <1>3, FS_Subset
<1>5. KeptUpTo(s, T, 0) = {} /\ KeptUpTo(s, T, Len(s)) = KeptPlaces(s, T)
  BY <1>1 DEF KeptUpTo
<1> QED BY <1>2, <1>4, <1>5, FS_CardinalityType, FS_EmptySet

\* ... and one place more is at most one more of them.
LEMMA KeptStep ==
    ASSUME NEW S, NEW s \in Seq(S), NEW T, NEW i \in 1 .. Len(s)
    PROVE  Cardinality(KeptUpTo(s, T, i)) =
             IF s[i] \in T THEN Cardinality(KeptUpTo(s, T, i - 1)) + 1
                           ELSE Cardinality(KeptUpTo(s, T, i - 1))
<1>1. i - 1 \in Nat /\ i \notin KeptUpTo(s, T, i - 1)
  BY DEF KeptUpTo
<1>0. IsFiniteSet(KeptUpTo(s, T, i - 1))
  BY <1>1, KeptPlacesFinite
<1>2. CASE s[i] \in T
  <2>1. KeptUpTo(s, T, i) = KeptUpTo(s, T, i - 1) \cup {i}
    BY <1>2 DEF KeptUpTo, KeptPlaces
  <2> QED BY <1>0, <1>1, <1>2, <2>1, FS_AddElement
<1>3. CASE s[i] \notin T
  <2>1. KeptUpTo(s, T, i) = KeptUpTo(s, T, i - 1)
    BY <1>3 DEF KeptUpTo, KeptPlaces
  <2> QED BY <1>3, <2>1
<1> QED BY <1>2, <1>3

\* Of two places kept the later one has more of them up to it.
LEMMA KeptGrows ==
    ASSUME NEW S, NEW s \in Seq(S), NEW T,
           NEW h \in KeptPlaces(s, T), NEW i \in KeptPlaces(s, T), h < i
    PROVE  Cardinality(KeptUpTo(s, T, h)) < Cardinality(KeptUpTo(s, T, i))
<1>1. h \in Nat /\ i \in Nat
  BY DEF KeptPlaces
<1>2. /\ IsFiniteSet(KeptUpTo(s, T, i)) /\ IsFiniteSet(KeptUpTo(s, T, h))
      /\ Cardinality(KeptUpTo(s, T, h)) \in Nat
      /\ Cardinality(KeptUpTo(s, T, i)) \in Nat
  BY <1>1, KeptPlacesFinite
<1>3. KeptUpTo(s, T, h) \in SUBSET KeptUpTo(s, T, i)
  BY <1>1, KeptPlacesFinite DEF KeptUpTo, KeptPlaces
<1>4. i \in KeptUpTo(s, T, i) /\ i \notin KeptUpTo(s, T, h)
  BY <1>1 DEF KeptUpTo
<1> QED BY <1>2, <1>3, <1>4, FS_Subset

\* For every number up to that of the places there is a place of this turn.
LEMMA KeptTurn ==
    ASSUME NEW S, NEW s \in Seq(S), NEW T,
           NEW j \in 1 .. Cardinality(KeptPlaces(s, T))
    PROVE  /\ KeptPlace(s, T, j) \in KeptPlaces(s, T)
           /\ Cardinality(KeptUpTo(s, T, KeptPlace(s, T, j))) = j
<1> DEFINE Q == {i \in 0 .. Len(s) : Cardinality(KeptUpTo(s, T, i)) >= j}
<1>1. Len(s) \in Nat /\ Cardinality(KeptPlaces(s, T)) \in Nat
  BY KeptPlacesFinite
<1>2. Len(s) \in Q /\ Q \in SUBSET Nat
  BY <1>1, KeptPlacesFinite
<1>3. PICK i \in Q : \A m \in Q : i <= m
  BY <1>2, LeastExists
<1>4. i # 0
  BY <1>1, <1>3, KeptPlacesFinite
<1>5. i \in 1 .. Len(s) /\ i - 1 \in 0 .. Len(s) /\ i - 1 \notin Q
  BY <1>1, <1>3, <1>4
<1>6. /\ Cardinality(KeptUpTo(s, T, i)) \in Nat
      /\ Cardinality(KeptUpTo(s, T, i - 1)) \in Nat
  BY <1>5, KeptPlacesFinite
<1>7. s[i] \in T /\ Cardinality(KeptUpTo(s, T, i)) = j
  BY <1>3, <1>5, <1>6, KeptStep
<1>8. i \in KeptPlaces(s, T)
  BY <1>5, <1>7 DEF KeptPlaces
<1> QED BY <1>7, <1>8 DEF KeptPlace

\* Kept is the sequence of what is at places that go up and leave out none.
THEOREM KeptInOrder ==
    ASSUME NEW S, NEW s \in Seq(S), NEW T
    PROVE  /\ Kept(s, T) \in Seq(S)
           /\ \A j \in 1 .. Len(Kept(s, T)) :
                 /\ KeptPlace(s, T, j) \in 1 .. Len(s)
                 /\ Kept(s, T)[j] = s[KeptPlace(s, T, j)]
                 /\ Kept(s, T)[j] \in T
           /\ \A j, k \in 1 .. Len(Kept(s, T)) :
                 j < k => KeptPlace(s, T, j) < KeptPlace(s, T, k)
           /\ \A i \in 1 .. Len(s) : s[i] \in T =>
                 \E j \in 1 .. Len(Kept(s, T)) : KeptPlace(s, T, j) = i
<1> DEFINE n == Cardinality(KeptPlaces(s, T))
<1>1. n \in Nat
  BY KeptPlacesFinite
<1>2. \A j \in 1 .. n : KeptPlace(s, T, j) \in KeptPlaces(s, T)
  BY KeptTurn
<1>3. \A j \in 1 .. n : /\ KeptPlace(s, T, j) \in 1 .. Len(s)
                        /\ s[KeptPlace(s, T, j)] \in T
  BY <1>2 DEF KeptPlaces
<1>4. /\ Kept(s, T) \in Seq(S) /\ Len(Kept(s, T)) = n
      /\ \A j \in 1 .. n : Kept(s, T)[j] = s[KeptPlace(s, T, j)]
  <2>1. \A j \in 1 .. n : s[KeptPlace(s, T, j)] \in S
    BY <1>3, ElementOfSeq
  <2>2. Kept(s, T) \in [1 .. n -> S]
    BY <2>1 DEF Kept
  <2>3. Kept(s, T) \in Seq(S) /\ DOMAIN Kept(s, T) = 1 .. n
    BY <1>1, <2>2
  <2>4. Len(Kept(s, T)) = n
    BY <1>1, <2>3
  <2> QED BY <2>3, <2>4 DEF Kept
<1>5. ASSUME NEW j \in 1 .. n, NEW k \in 1 .. n, j < k
      PROVE  KeptPlace(s, T, j) < KeptPlace(s, T, k)
  <2>1. /\ Cardinality(KeptUpTo(s, T, KeptPlace(s, T, j))) = j
        /\ Cardinality(KeptUpTo(s, T, KeptPlace(s, T, k))) = k
    BY KeptTurn
  <2>2. ~(KeptPlace(s, T, k) < KeptPlace(s, T, j))
    <3>1. SUFFICES ASSUME KeptPlace(s, T, k) < KeptPlace(s, T, j)
                   PROVE  k < j
      BY <1>1, <1>5
    <3> QED BY <1>2, <2>1, <3>1, KeptGrows
  <2>3. KeptPlace(s, T, k) # KeptPlace(s, T, j)
    BY <1>1, <1>5, <2>1
  <2> QED BY <1>3, <2>2, <2>3
<1>6. ASSUME NEW i \in 1 .. Len(s), s[i] \in T
      PROVE  \E j \in 1 .. n : KeptPlace(s, T, j) = i
  <2>1. i \in KeptPlaces(s, T) /\ i \in Nat
    BY <1>6 DEF KeptPlaces
  <2> DEFINE c == Cardinality(KeptUpTo(s, T, i))
  <2>2. PICK j \in Nat : j = c
    BY <2>1, KeptPlacesFinite
  <2>3. j \in 1 .. n
    <3>1. j <= n
      BY <2>1, <2>2, KeptPlacesFinite
    <3>2. i \in KeptUpTo(s, T, i)
      BY <2>1 DEF KeptUpTo
    <3>3. IsFiniteSet(KeptUpTo(s, T, i))
      BY <2>1, KeptPlacesFinite
    <3>4. j # 0
      BY <2>2, <3>2, <3>3, FS_EmptySet
    <3> QED BY <1>1, <2>2, <3>1, <3>4
  <2>4. PICK h \in KeptPlaces(s, T) : h = KeptPlace(s, T, j)
    BY <1>2, <2>3
  <2>5. Cardinality(KeptUpTo(s, T, h)) = j
    BY <2>3, <2>4, KeptTurn
  <2>6. h \in Nat
    BY DEF KeptPlaces
  <2>7. ~(h < i)
    BY <2>1, <2>2, <2>5, KeptGrows
  <2>8. ~(i < h)
    BY <2>1, <2>2, <2>5, KeptGrows
  <2> QED BY <2>1, <2>3, <2>4, <2>6, <2>7, <2>8
<1> QED BY <1>1, <1>3, <1>4, <1>5, <1>6

-----------------------------------------------------------------------------
\* The elements kept are those of the sequence in the set, ...
THEOREM KeptRange ==
    ASSUME NEW S, NEW s \in Seq(S), NEW T
    PROVE  Range(Kept(s, T)) = Range(s) \cap T
<1>1. Kept(s, T) \in Seq(S)
  BY KeptInOrder
<1>2. /\ DOMAIN s = 1 .. Len(s)
      /\ DOMAIN Kept(s, T) = 1 .. Len(Kept(s, T))
  BY <1>1
<1>3. ASSUME NEW j \in 1 .. Len(Kept(s, T))
      PROVE  Kept(s, T)[j] \in Range(s) \cap T
  BY <1>2, KeptInOrder DEF Range
<1>4. ASSUME NEW i \in 1 .. Len(s), s[i] \in T
      PROVE  s[i] \in Range(Kept(s, T))
  <2>1. PICK j \in 1 .. Len(Kept(s, T)) : KeptPlace(s, T, j) = i
    BY <1>4, KeptInOrder
  <2>2. Kept(s, T)[j] = s[i]
    BY <2>1, KeptInOrder
  <2> QED BY <1>2, <2>2 DEF Range
<1> QED BY <1>2, <1>3, <1>4 DEF Range

\* ... two of them that are alike come from two places of the sequence, ...
THEOREM KeptOnce ==
    ASSUME NEW S, NEW s \in Seq(S), NEW T
    PROVE  \A j, k \in 1 .. Len(Kept(s, T)) : j # k =>
             \E h, i \in 1 .. Len(s) :
                h # i /\ s[h] = Kept(s, T)[j] /\ s[i] = Kept(s, T)[k]
<1> SUFFICES ASSUME NEW j \in 1 .. Len(Kept(s, T)),
                    NEW k \in 1 .. Len(Kept(s, T)), j # k
             PROVE  \E h, i \in 1 .. Len(s) :
                       h # i /\ s[h] = Kept(s, T)[j] /\ s[i] = Kept(s, T)[k]
  OBVIOUS
<1>1. /\ KeptPlace(s, T, j) \in 1 .. Len(s) /\ KeptPlace(s, T, k) \in 1 .. Len(s)
      /\ Kept(s, T)[j] = s[KeptPlace(s, T, j)]
      /\ Kept(s, T)[k] = s[KeptPlace(s, T, k)]
  BY KeptInOrder
<1>2. KeptPlace(s, T, j) # KeptPlace(s, T, k)
  <2>1. j < k \/ k < j
    OBVIOUS
  <2> QED BY <1>1, <2>1, KeptInOrder
<1> QED BY <1>1, <1>2

\* ... and where all that follows an element of the set is in it, too, they are
\* the end of the sequence.
THEOREM KeptSuffix ==
    ASSUME NEW S, NEW s \in Seq(S), NEW T,
           \A h, i \in 1 .. Len(s) : h < i /\ s[h] \in T => s[i] \in T
    PROVE  /\ Kept(s, T) \in Seq(S)
           /\ \E c \in 0 .. Len(s) :
                 /\ Len(Kept(s, T)) = Len(s) - c
                 /\ \A i \in 1 .. c : s[i] \notin T
                 /\ \A j \in 1 .. Len(s) - c :
                       Kept(s, T)[j] = s[c + j] /\ s[c + j] \in T
<1> DEFINE Q == {i \in 0 .. Len(s) : \A h \in 1 .. Len(s) : h > i => s[h] \in T}
<1>1. Len(s) \in Q /\ Q \in SUBSET Nat
  OBVIOUS
<1>2. PICK c \in Q : \A m \in Q : c <= m
  BY <1>1, LeastExists
<1>3. \A i \in 1 .. c : s[i] \notin T
  <2> SUFFICES ASSUME NEW i \in 1 .. c, s[i] \in T PROVE FALSE
    OBVIOUS
  <2>1. c - 1 \in 0 .. Len(s) /\ c \in 1 .. Len(s) /\ i \in 1 .. Len(s)
    BY <1>2
  <2>2. s[c] \in T
    BY <2>1
  <2>3. c - 1 \in Q
    BY <1>2, <2>1, <2>2
  <2>4. c <= c - 1
    BY <1>2, <2>3
  <2> QED BY <2>1, <2>4
<1>4. c \in 0 .. Len(s) /\ \A i \in 1 .. Len(s) : s[i] \in T <=> i > c
  BY <1>2, <1>3
<1>5. KeptPlaces(s, T) = (c + 1) .. Len(s)
  BY <1>4 DEF KeptPlaces
<1>6. Len(Kept(s, T)) = Len(s) - c /\ Kept(s, T) \in Seq(S)
  <2>0. Cardinality((c + 1) .. Len(s)) =
          IF c + 1 > Len(s) THEN 0 ELSE Len(s) - (c + 1) + 1
    <3>1. c + 1 \in Int /\ Len(s) \in Int
      BY <1>4
    <3> QED BY <3>1, FS_Interval
  <2>1. Cardinality(KeptPlaces(s, T)) = Len(s) - c
    BY <1>4, <1>5, <2>0
  <2>2. DOMAIN Kept(s, T) = 1 .. Len(s) - c
    BY <2>1 DEF Kept
  <2>3. Kept(s, T) \in Seq(S)
    BY KeptInOrder
  <2> QED BY <1>4, <2>2, <2>3
<1>7. ASSUME NEW j \in 1 .. Len(s) - c
      PROVE  Kept(s, T)[j] = s[c + j]
  <2>0. c + 1 \in Int /\ Len(s) \in Int
    BY <1>4
  <2>1. j \in 1 .. Cardinality(KeptPlaces(s, T))
    BY <1>4, <1>5, <2>0, FS_Interval
  <2>2. PICK i \in KeptPlaces(s, T) : i = KeptPlace(s, T, j)
    BY <2>1, KeptTurn
  <2>3. Cardinality(KeptUpTo(s, T, i)) = j
    BY <2>1, <2>2, KeptTurn
  <2>4. KeptUpTo(s, T, i) = (c + 1) .. i /\ i \in (c + 1) .. Len(s)
    BY <1>4, <1>5, <2>2 DEF KeptUpTo
  <2>5. Cardinality((c + 1) .. i) = i - c
    BY <1>4, <2>4, FS_Interval
  <2>6. i = c + j
    BY <1>4, <2>3, <2>4, <2>5
  <2>7. Kept(s, T)[j] = s[KeptPlace(s, T, j)]
    BY <1>6, KeptInOrder
  <2> QED BY <2>2, <2>6, <2>7
<1> QED BY <1>3, <1>4, <1>6, <1>7

=============================================================================
