----------------------------- MODULE AnswerProofs -----------------------------
(***************************************************************************)
(* What becomes of the answers of an analyzer.  For whatever GitHub gives  *)
(* and a language model answers: what passes the gates, what the prompt    *)
(* takes, and why the tables refuse a result.  For every repository,       *)
(* vocabulary and analyzer, and whatever people write into the file of     *)
(* labels: what is scored against is a labeling of the protocol, no case   *)
(* was merged when it was fetched, and the counts of a report are those of *)
(* its cases.                                                              *)
(***************************************************************************)
EXTENDS Verification, Evaluation, FiniteSetTheorems, FunctionTheorems, SequenceTheorems,
        WellFoundedInduction, TLAPS

-----------------------------------------------------------------------------
(* Natural numbers *)

\* Induction, over a set: a set of numbers with 0 and every successor has them all.
LEMMA Induction ==
  ASSUME NEW T, 0 \in T, \A n \in Nat : n \in T => n + 1 \in T
  PROVE  Nat \subseteq T
<1> DEFINE U == Nat \ T
<1>1. SUFFICES ASSUME U # {} PROVE FALSE
  OBVIOUS
<1>2. PICK m \in U : \A k \in U : <<k, m>> \notin OpToRel(<, Nat)
  <2>1. IsWellFoundedOn(OpToRel(<, Nat), Nat)
    BY NatLessThanWellFounded
  <2>2. U \subseteq Nat
    OBVIOUS
  <2> HIDE DEF U
  <2> QED
    BY <1>1, <2>1, <2>2, WFMin
<1>3. m \in Nat /\ m # 0
  OBVIOUS
<1>4. m - 1 \in Nat /\ m - 1 < m
  BY <1>3
<1>5. m - 1 \notin U
  BY <1>2, <1>3, <1>4 DEF OpToRel
<1>6. m - 1 + 1 \in T
  BY <1>4, <1>5
<1> QED
  BY <1>3, <1>6

-----------------------------------------------------------------------------
(* Order *)

\* Whether j comes before k, or is k.
UpTo(ks, key, k) == {j \in ks : \/ key[j] < key[k]
                                \/ key[j] = key[k] /\ j <= k}

LEMMA UpToFinite ==
  ASSUME NEW ks \in SUBSET Nat, IsFiniteSet(ks), NEW key, NEW k \in ks
  PROVE  /\ Cardinality(ks) \in Nat
         /\ IsFiniteSet(UpTo(ks, key, k))
         /\ Place(ks, key, k) = Cardinality(UpTo(ks, key, k))
         /\ Place(ks, key, k) \in Nat
         /\ Place(ks, key, k) <= Cardinality(ks)
<1>2. UpTo(ks, key, k) \in SUBSET ks
  BY DEF UpTo
<1>3. Place(ks, key, k) = Cardinality(UpTo(ks, key, k))
  BY DEF Place, UpTo
<1>4. Cardinality(ks) \in Nat /\ IsFiniteSet(UpTo(ks, key, k))
      /\ Cardinality(UpTo(ks, key, k)) \in Nat
      /\ Cardinality(UpTo(ks, key, k)) <= Cardinality(ks)
  BY <1>2, FS_Subset, FS_CardinalityType
<1> QED
  BY <1>3, <1>4

LEMMA PlaceIsPosition ==
  ASSUME NEW ks \in SUBSET Nat, IsFiniteSet(ks), NEW key \in [ks -> Int], NEW k \in ks
  PROVE  Place(ks, key, k) \in 1..Cardinality(ks)
<1>1. k \in UpTo(ks, key, k)
  BY DEF UpTo
<1>2. Cardinality(UpTo(ks, key, k)) # 0
  BY <1>1, UpToFinite, FS_EmptySet
<1> QED
  BY <1>2, UpToFinite

\* The places follow the keys, and the positions where the keys are the same.
LEMMA PlacesInOrder ==
  ASSUME NEW ks \in SUBSET Nat, IsFiniteSet(ks), NEW key \in [ks -> Int],
         NEW j \in ks, NEW k \in ks, j # k,
         key[j] < key[k] \/ (key[j] = key[k] /\ j < k)
  PROVE  Place(ks, key, j) < Place(ks, key, k)
<1>1. ASSUME NEW i \in UpTo(ks, key, j)
      PROVE  i \in UpTo(ks, key, k)
  <2>1. i \in Nat /\ j \in Nat /\ k \in Nat /\ key[i] \in Int /\ key[j] \in Int /\ key[k] \in Int
    BY DEF UpTo
  <2>2. key[i] < key[j] \/ (key[i] = key[j] /\ i <= j)
    BY DEF UpTo
  <2>3. key[i] < key[k] \/ (key[i] = key[k] /\ i <= k)
    BY <2>1, <2>2
  <2> QED
    BY <2>3 DEF UpTo
<1>2. k \in UpTo(ks, key, k) /\ k \notin UpTo(ks, key, j)
  BY DEF UpTo
<1>3. Cardinality(UpTo(ks, key, j)) <= Cardinality(UpTo(ks, key, k))
      /\ Cardinality(UpTo(ks, key, j)) # Cardinality(UpTo(ks, key, k))
  BY <1>1, <1>2, UpToFinite, FS_Subset
<1> QED
  BY <1>3, UpToFinite

LEMMA PlacesDiffer ==
  ASSUME NEW ks \in SUBSET Nat, IsFiniteSet(ks), NEW key \in [ks -> Int],
         NEW j \in ks, NEW k \in ks, Place(ks, key, j) = Place(ks, key, k)
  PROVE  j = k
<1>1. SUFFICES ASSUME j # k PROVE FALSE
  OBVIOUS
<1>2. key[j] \in Int /\ key[k] \in Int /\ j \in Nat /\ k \in Nat
  OBVIOUS
<1>3. CASE key[j] < key[k] \/ (key[j] = key[k] /\ j < k)
  <2>1. Place(ks, key, j) < Place(ks, key, k)
    BY <1>1, <1>3, PlacesInOrder
  <2> QED
    BY <2>1, UpToFinite
<1>4. CASE key[k] < key[j] \/ (key[k] = key[j] /\ k < j)
  <2>1. Place(ks, key, k) < Place(ks, key, j)
    BY <1>1, <1>4, PlacesInOrder
  <2> QED
    BY <2>1, UpToFinite
<1> QED
  BY <1>1, <1>2, <1>3, <1>4

\* Every place is taken.
LEMMA PlacesTaken ==
  ASSUME NEW ks \in SUBSET Nat, IsFiniteSet(ks), NEW key \in [ks -> Int],
         NEW p \in 1..Cardinality(ks)
  PROVE  \E k \in ks : Place(ks, key, k) = p
<1> DEFINE N == Cardinality(ks)
           F == [k \in ks |-> Place(ks, key, k)]
<1>1. N \in Nat
  BY FS_CardinalityType
<1>2. IsFiniteSet(1..N) /\ Cardinality(1..N) = N
  BY <1>1, FS_Interval
<1>3. F \in Injection(ks, 1..N)
  BY PlaceIsPosition, PlacesDiffer DEF Injection, IsInjective
<1>4. F \in Surjection(ks, 1..N)
  BY <1>1, <1>2, <1>3, FS_Injection
<1> QED
  BY <1>4 DEF Surjection

\* The position that has place p.
At(ks, key, p) == CHOOSE k \in ks : Place(ks, key, k) = p

LEMMA AtPlace ==
  ASSUME NEW ks \in SUBSET Nat, IsFiniteSet(ks), NEW key \in [ks -> Int]
  PROVE  /\ \A p \in 1..Cardinality(ks) : /\ At(ks, key, p) \in ks
                                          /\ Place(ks, key, At(ks, key, p)) = p
         /\ \A k \in ks : At(ks, key, Place(ks, key, k)) = k
<1>1. ASSUME NEW p \in 1..Cardinality(ks)
      PROVE  At(ks, key, p) \in ks /\ Place(ks, key, At(ks, key, p)) = p
  BY PlacesTaken DEF At
<1>2. ASSUME NEW k \in ks
      PROVE  At(ks, key, Place(ks, key, k)) = k
  <2>1. Place(ks, key, k) \in 1..Cardinality(ks)
    BY PlaceIsPosition
  <2>2. At(ks, key, Place(ks, key, k)) \in ks
        /\ Place(ks, key, At(ks, key, Place(ks, key, k))) = Place(ks, key, k)
    BY <1>1, <2>1
  <2> QED
    BY <2>2, PlacesDiffer
<1> QED
  BY <1>1, <1>2

\* The positions of a sequence.
LEMMA PositionsFinite ==
  ASSUME NEW S, NEW seq \in Seq(S), NEW ks \in SUBSET DOMAIN seq
  PROVE  ks \in SUBSET Nat /\ IsFiniteSet(ks)
<1>1. PICK n \in Nat : n = Len(seq) /\ DOMAIN seq = 1..n
  OBVIOUS
<1>2. IsFiniteSet(1..n)
  BY FS_Interval
<1>3. ks \in SUBSET (1..n)
  BY <1>1
<1> QED
  BY <1>2, <1>3, FS_Subset

\* What Ordered gives: a sequence of the chosen elements, each at its place.
LEMMA OrderedElements ==
  ASSUME NEW S, NEW seq \in Seq(S), NEW ks \in SUBSET DOMAIN seq, NEW key \in [ks -> Int]
  PROVE  /\ Ordered(seq, ks, key) \in Seq(S)
         /\ Len(Ordered(seq, ks, key)) = Cardinality(ks)
         /\ \A p \in 1..Cardinality(ks) : Ordered(seq, ks, key)[p] = seq[At(ks, key, p)]
<1> DEFINE N == Cardinality(ks)
<1>1. ks \in SUBSET Nat /\ IsFiniteSet(ks)
  BY PositionsFinite
<1>2. N \in Nat
  BY <1>1, FS_CardinalityType
<1>3. Ordered(seq, ks, key) = [p \in 1..N |-> seq[At(ks, key, p)]]
  BY DEF Ordered, At
<1>4. ASSUME NEW p \in 1..N PROVE seq[At(ks, key, p)] \in S
  <2>1. At(ks, key, p) \in ks
    BY <1>1, AtPlace
  <2> QED
    BY <2>1
<1>5. PICK r : r = Ordered(seq, ks, key)
  OBVIOUS
<1>6. r \in Seq(S) /\ Len(r) = N /\ \A p \in 1..N : r[p] = seq[At(ks, key, p)]
  BY ONLY SMTT(60), <1>2, <1>3, <1>4, <1>5
<1> QED
  BY <1>5, <1>6

LEMMA OrderedAtPlace ==
  ASSUME NEW S, NEW seq \in Seq(S), NEW ks \in SUBSET DOMAIN seq, NEW key \in [ks -> Int],
         NEW k \in ks
  PROVE  /\ Place(ks, key, k) \in 1..Cardinality(ks)
         /\ Ordered(seq, ks, key)[Place(ks, key, k)] = seq[k]
<1>1. ks \in SUBSET Nat /\ IsFiniteSet(ks)
  BY PositionsFinite
<1>2. Place(ks, key, k) \in 1..Cardinality(ks) /\ At(ks, key, Place(ks, key, k)) = k
  BY <1>1, PlaceIsPosition, AtPlace
<1>3. \A p \in 1..Cardinality(ks) : Ordered(seq, ks, key)[p] = seq[At(ks, key, p)]
  BY OrderedElements
<1>4. Ordered(seq, ks, key)[Place(ks, key, k)] = seq[At(ks, key, Place(ks, key, k))]
  BY <1>2, <1>3, Zenon
<1> QED
  BY <1>2, <1>4, Zenon

\* What is in order stays as it is.
LEMMA OrderedStays ==
  ASSUME NEW S, NEW seq \in Seq(S), NEW key \in [DOMAIN seq -> Int],
         \A j, k \in DOMAIN seq : j <= k => key[j] <= key[k]
  PROVE  Ordered(seq, DOMAIN seq, key) = seq
<1>1. PICK n \in Nat : n = Len(seq) /\ DOMAIN seq = 1..n
  OBVIOUS
<1>2. DOMAIN seq \in SUBSET Nat /\ IsFiniteSet(DOMAIN seq) /\ Cardinality(DOMAIN seq) = n
  <2>1. IsFiniteSet(1..n) /\ Cardinality(1..n) = n
    BY FS_Interval
  <2> QED
    BY <1>1, <2>1
<1>3. ASSUME NEW k \in DOMAIN seq PROVE Place(DOMAIN seq, key, k) = k
  <2>1. ASSUME NEW j \in DOMAIN seq
        PROVE  j \in UpTo(DOMAIN seq, key, k) <=> j <= k
    <3>1. j \in Nat /\ k \in Nat /\ key[j] \in Int /\ key[k] \in Int
      BY <1>2
    <3>2. (j <= k => key[j] <= key[k]) /\ (k <= j => key[k] <= key[j])
      OBVIOUS
    <3> QED
      BY <3>1, <3>2 DEF UpTo
  <2>2. k \in 1..n
    BY <1>1
  <2>3. UpTo(DOMAIN seq, key, k) = 1..k
    <3>1. UpTo(DOMAIN seq, key, k) \subseteq 1..n
      BY <1>1 DEF UpTo
    <3>2. \A j \in 1..n : j \in UpTo(DOMAIN seq, key, k) <=> j <= k
      BY <1>1, <2>1
    <3>3. \A j : j \in UpTo(DOMAIN seq, key, k) <=> j \in 1..n /\ j <= k
      BY <3>1, <3>2
    <3>4. \A j : j \in 1..k <=> j \in 1..n /\ j <= k
      BY ONLY <2>2, n \in Nat
    <3> QED
      BY <3>3, <3>4
  <2>4. Cardinality(1..k) = k
    BY <2>2, FS_Interval
  <2> QED
    BY <1>2, <2>3, <2>4, UpToFinite
<1>4. ASSUME NEW p \in 1..n PROVE Ordered(seq, DOMAIN seq, key)[p] = seq[p]
  <2>1. p \in DOMAIN seq /\ Place(DOMAIN seq, key, p) = p
    BY <1>1, <1>3
  <2>2. Ordered(seq, DOMAIN seq, key)[Place(DOMAIN seq, key, p)] = seq[p]
    BY ZenonT(60), <2>1, OrderedAtPlace
  <2> QED
    BY <2>1, <2>2
<1>5. Ordered(seq, DOMAIN seq, key) \in Seq(S) /\ Len(Ordered(seq, DOMAIN seq, key)) = n
  BY <1>2, OrderedElements
<1> QED
  BY <1>1, <1>4, <1>5, SeqEqual

-----------------------------------------------------------------------------
(* Sequences in parts *)

\* Where k comes among the positions ks.
Count(ks, k) == Cardinality({j \in ks : j <= k})

LEMMA KeptPlace ==
  ASSUME NEW ks, NEW k \in ks
  PROVE  Place(ks, [j \in ks |-> 0], k) = Count(ks, k)
<1> DEFINE zero == [j \in ks |-> 0]
<1>1. UpTo(ks, zero, k) = {j \in ks : j <= k}
  BY DEF UpTo
<1>2. Place(ks, zero, k) = Cardinality(UpTo(ks, zero, k))
  BY DEF Place, UpTo
<1> QED
  BY <1>1, <1>2 DEF Count

LEMMA KeptElements ==
  ASSUME NEW S, NEW seq \in Seq(S), NEW ks \in SUBSET DOMAIN seq
  PROVE  /\ Kept(seq, ks) \in Seq(S)
         /\ Len(Kept(seq, ks)) = Cardinality(ks)
         /\ \A k \in ks : /\ Count(ks, k) \in 1..Cardinality(ks)
                          /\ Kept(seq, ks)[Count(ks, k)] = seq[k]
         /\ \A p \in 1..Cardinality(ks) : \E k \in ks : p = Count(ks, k) /\ Kept(seq, ks)[p] = seq[k]
<1> DEFINE zero == [k \in ks |-> 0]
<1>1. zero \in [ks -> Int]
  OBVIOUS
<1>2. Kept(seq, ks) = Ordered(seq, ks, zero)
  BY DEF Kept
<1>3. ks \in SUBSET Nat /\ IsFiniteSet(ks)
  BY PositionsFinite
<1> HIDE DEF zero
<1>4. Kept(seq, ks) \in Seq(S) /\ Len(Kept(seq, ks)) = Cardinality(ks)
  BY <1>1, <1>2, OrderedElements
<1>5. ASSUME NEW k \in ks
      PROVE  Count(ks, k) \in 1..Cardinality(ks) /\ Kept(seq, ks)[Count(ks, k)] = seq[k]
  <2>1. Place(ks, zero, k) = Count(ks, k)
    BY KeptPlace DEF zero
  <2> QED
    BY <1>1, <1>2, <2>1, OrderedAtPlace
<1>6. ASSUME NEW p \in 1..Cardinality(ks)
      PROVE  \E k \in ks : p = Count(ks, k) /\ Kept(seq, ks)[p] = seq[k]
  <2>1. PICK k \in ks : Place(ks, zero, k) = p
    BY <1>1, <1>3, PlacesTaken
  <2>2. p = Count(ks, k)
    BY <2>1, KeptPlace DEF zero
  <2> QED
    BY <1>5, <2>2
<1> QED
  BY <1>4, <1>5, <1>6

LEMMA KeptAll ==
  ASSUME NEW S, NEW seq \in Seq(S)
  PROVE  Kept(seq, DOMAIN seq) = seq
<1> DEFINE zero == [k \in DOMAIN seq |-> 0]
<1>1. zero \in [DOMAIN seq -> Int] /\ \A j, k \in DOMAIN seq : j <= k => zero[j] <= zero[k]
  OBVIOUS
<1>2. Kept(seq, DOMAIN seq) = Ordered(seq, DOMAIN seq, zero)
  BY DEF Kept
<1> HIDE DEF zero
<1> QED
  BY <1>1, <1>2, OrderedStays

\* The values of what is kept.
LEMMA KeptValues ==
  ASSUME NEW S, NEW seq \in Seq(S), NEW ks \in SUBSET DOMAIN seq
  PROVE  ToSet(Kept(seq, ks)) = {seq[k] : k \in ks}
<1>1. PICK r \in Seq(S) : r = Kept(seq, ks)
  BY KeptElements
<1>2. ToSet(r) = {r[p] : p \in 1..Len(r)}
  BY ONLY r \in Seq(S) DEF ToSet
<1>3. Len(r) = Cardinality(ks)
  BY <1>1, KeptElements
<1>4. ASSUME NEW k \in ks PROVE seq[k] \in ToSet(r)
  BY <1>1, <1>2, <1>3, KeptElements
<1>5. ASSUME NEW p \in 1..Len(r) PROVE \E k \in ks : r[p] = seq[k]
  BY SMTT(60), <1>1, <1>3, KeptElements
<1> QED
  BY <1>1, <1>2, <1>4, <1>5

LEMMA LeastNumber ==
  ASSUME NEW T \in SUBSET Nat, T # {}
  PROVE  \E m \in T : \A k \in T : m <= k
<1>1. IsWellFoundedOn(OpToRel(<, Nat), Nat)
  BY NatLessThanWellFounded
<1>2. PICK m \in T : \A k \in T : <<k, m>> \notin OpToRel(<, Nat)
  BY <1>1, WFMin
<1>3. ASSUME NEW k \in T PROVE m <= k
  <2>1. ~(k < m)
    BY <1>2 DEF OpToRel
  <2> QED
    BY <2>1
<1> QED
  BY <1>3

-----------------------------------------------------------------------------
(* Sequences without repetition *)

OneByOne(seq) == \A p, q \in DOMAIN seq : seq[p] = seq[q] => p = q

LEMMA OneByOneDistinct ==
  ASSUME NEW S, NEW seq \in Seq(S), OneByOne(seq)
  PROVE  Distinct(seq) /\ IsFiniteSet(ToSet(seq)) /\ Cardinality(ToSet(seq)) = Len(seq)
<1>1. PICK n \in Nat : n = Len(seq) /\ DOMAIN seq = 1..n
  OBVIOUS
<1>2. ToSet(seq) = {seq[p] : p \in 1..n}
  BY <1>1 DEF ToSet
<1>3. seq \in [1..n -> ToSet(seq)]
  BY <1>1, <1>2
<1>4. seq \in Injection(1..n, ToSet(seq))
  BY <1>1, <1>3 DEF Injection, IsInjective, OneByOne
<1>5. seq \in Surjection(1..n, ToSet(seq))
  BY <1>2, <1>3 DEF Surjection
<1>6. ExistsBijection(1..n, ToSet(seq))
  BY <1>4, <1>5 DEF ExistsBijection, Bijection
<1>7. Cardinality(ToSet(seq)) = n
  BY <1>6, FS_CountingElements
<1>8. IsFiniteSet(ToSet(seq))
  BY <1>6, FS_NatBijection
<1> QED
  BY <1>1, <1>7, <1>8 DEF Distinct

\* With a value at two positions there are fewer values than positions.
LEMMA DistinctOneByOne ==
  ASSUME NEW S, NEW seq \in Seq(S), Distinct(seq)
  PROVE  OneByOne(seq)
<1>1. PICK n \in Nat : n = Len(seq) /\ DOMAIN seq = 1..n
  OBVIOUS
<1>2. SUFFICES ASSUME NEW j \in 1..n, NEW k \in 1..n, seq[j] = seq[k], j # k
               PROVE  FALSE
  BY <1>1 DEF OneByOne
<1>3. PICK others : others = (1..n) \ {j}
  OBVIOUS
<1>4. ToSet(seq) = {seq[p] : p \in others}
  BY <1>1, <1>2, <1>3 DEF ToSet
<1>5. [p \in others |-> seq[p]] \in Surjection(others, ToSet(seq))
  BY <1>4 DEF Surjection
<1>6. IsFiniteSet(1..n) /\ Cardinality(1..n) = n
  BY FS_Interval
<1>7. IsFiniteSet(others) /\ Cardinality(others) = n - 1
  BY <1>3, <1>6, FS_RemoveElement
<1>8. Cardinality(ToSet(seq)) <= n - 1
  BY <1>5, <1>7, FS_Surjection DEF ExistsSurjection
<1> QED
  BY <1>1, <1>8 DEF Distinct

\* What Firsts gives.
LEMMA FirstsElements ==
  ASSUME NEW S, NEW seq \in Seq(S), NEW allowed
  PROVE  /\ Firsts(seq, allowed) \in Seq(S)
         /\ OneByOne(Firsts(seq, allowed))
         /\ ToSet(Firsts(seq, allowed)) = ToSet(seq) \cap allowed
<1> DEFINE ks == {k \in DOMAIN seq : seq[k] \in allowed /\ \A j \in 1..(k - 1) : seq[j] # seq[k]}
<1>1. PICK n \in Nat : n = Len(seq) /\ DOMAIN seq = 1..n
  OBVIOUS
<1>2. ks \in SUBSET DOMAIN seq
  OBVIOUS
<1>3. PICK r : r = Firsts(seq, allowed)
  OBVIOUS
<1>4. r = Kept(seq, ks)
  BY <1>3 DEF Firsts
<1>5. ASSUME NEW j \in ks, NEW k \in ks, seq[j] = seq[k] PROVE j = k
  <2>1. j \in 1..n /\ k \in 1..n
    BY <1>1
  <2>2. j \notin 1..(k - 1) /\ k \notin 1..(j - 1)
    BY <1>5
  <2> QED
    BY <2>1, <2>2
<1>6. \A v : v \in {seq[k] : k \in ks} <=> v \in ToSet(seq) /\ v \in allowed
  <2>1. ASSUME NEW i \in DOMAIN seq, seq[i] \in allowed PROVE \E k \in ks : seq[k] = seq[i]
    <3> DEFINE T == {k \in DOMAIN seq : seq[k] = seq[i]}
    <3>1. T \in SUBSET Nat /\ T # {}
      BY <1>1
    <3> HIDE DEF T
    <3>2. PICK k \in T : \A j \in T : k <= j
      BY <3>1, LeastNumber
    <3>3. k \in 1..n /\ seq[k] = seq[i]
      BY <1>1 DEF T
    <3>4. ASSUME NEW j \in 1..(k - 1) PROVE seq[j] # seq[k]
      <4>1. j \in 1..n /\ ~(k <= j)
        BY <3>3
      <4>2. j \notin T
        BY <3>2, <4>1
      <4> QED
        BY <1>1, <3>3, <4>1, <4>2 DEF T
    <3> QED
      BY <1>1, <2>1, <3>3, <3>4
  <2>2. ToSet(seq) = {seq[k] : k \in DOMAIN seq}
    BY DEF ToSet
  <2> QED
    BY SMTT(60), <2>1, <2>2
<1> HIDE DEF ks
<1>7. r \in Seq(S) /\ Len(r) = Cardinality(ks)
  BY <1>2, <1>4, KeptElements
<1>8. ToSet(r) = {seq[k] : k \in ks}
  BY <1>2, <1>4, KeptValues
<1>9. OneByOne(r)
  <2>1. \A p \in 1..Cardinality(ks) : \E k \in ks : p = Count(ks, k) /\ r[p] = seq[k]
    BY <1>2, <1>4, KeptElements
  <2>2. DOMAIN r = 1..Cardinality(ks)
    BY <1>7
  <2>3. ASSUME NEW p \in DOMAIN r, NEW q \in DOMAIN r, r[p] = r[q] PROVE p = q
    <3>1. PICK j \in ks : p = Count(ks, j) /\ r[p] = seq[j]
      BY <2>1, <2>2
    <3>2. PICK k \in ks : q = Count(ks, k) /\ r[q] = seq[k]
      BY <2>1, <2>2
    <3>3. j = k
      BY <1>5, <2>3, <3>1, <3>2
    <3> QED
      BY <3>1, <3>2, <3>3
  <2> QED
    BY <2>3 DEF OneByOne
<1>10. ToSet(r) = ToSet(seq) \cap allowed
  BY <1>6, <1>8
<1> QED
  BY <1>3, <1>7, <1>9, <1>10

\* A sequence of things that are there once: the first ones of it.
LEMMA UptoElements ==
  ASSUME NEW S, NEW seq \in Seq(S), NEW n \in Nat
  PROVE  /\ Upto(seq, n) \in Seq(S)
         /\ Len(Upto(seq, n)) = IF Len(seq) < n THEN Len(seq) ELSE n
         /\ \A k \in 1..Len(Upto(seq, n)) : k \in DOMAIN seq /\ Upto(seq, n)[k] = seq[k]
<1>1. PICK m \in Nat : m = IF Len(seq) < n THEN Len(seq) ELSE n
  OBVIOUS
<1>2. m <= Len(seq) /\ Len(seq) \in Nat /\ DOMAIN seq = 1..Len(seq)
  BY <1>1
<1>3. \A k \in 1..m : seq[k] \in S
  BY <1>2
<1>4. PICK r : r = SubSeq(seq, 1, m)
  OBVIOUS
<1>5. r \in Seq(S) /\ Len(r) = (IF 1 <= m THEN m - 1 + 1 ELSE 0)
      /\ \A k \in 1..(m - 1 + 1) : r[k] = seq[1 + k - 1]
  BY <1>3, <1>4, SubSeqProperties
<1>6. Len(r) = m /\ \A k \in 1..m : k \in DOMAIN seq /\ r[k] = seq[k]
  BY <1>2, <1>5
<1>7. r = Upto(seq, n)
  BY <1>1, <1>4 DEF Upto
<1> QED
  BY <1>1, <1>5, <1>6, <1>7

-----------------------------------------------------------------------------
(* Sums *)

\* The sums of the first numbers, one after another.
Sums(numbers, sums) ==
  /\ sums \in [0..Len(numbers) -> Int]
  /\ sums[0] = 0
  /\ \A k \in 1..Len(numbers) : sums[k] = sums[k - 1] + numbers[k]

\* There are sums of the first n of them.
Summed(numbers, n) ==
  \E s \in [0..n -> Int] : s[0] = 0 /\ \A k \in 1..n : s[k] = s[k - 1] + numbers[k]

LEMMA SumsExist ==
  ASSUME NEW numbers \in Seq(Int)
  PROVE  \E sums : Sums(numbers, sums)
<1>1. PICK N \in Nat : N = Len(numbers)
  OBVIOUS
<1> DEFINE T == {n \in Nat : n <= N => Summed(numbers, n)}
<1>2. \A k \in 1..N : numbers[k] \in Int
  BY <1>1
<1>3. Summed(numbers, 0)
  <2> DEFINE s == [k \in 0..0 |-> 0]
  <2>1. s \in [0..0 -> Int] /\ s[0] = 0 /\ \A k \in 1..0 : s[k] = s[k - 1] + numbers[k]
    OBVIOUS
  <2> HIDE DEF s
  <2> QED
    BY <2>1 DEF Summed
<1>4. ASSUME NEW n \in Nat, n + 1 <= N, Summed(numbers, n) PROVE Summed(numbers, n + 1)
  <2>1. PICK s \in [0..n -> Int] : s[0] = 0 /\ \A k \in 1..n : s[k] = s[k - 1] + numbers[k]
    BY <1>4 DEF Summed
  <2> DEFINE t == [k \in 0..(n + 1) |-> IF k = n + 1 THEN s[n] + numbers[n + 1] ELSE s[k]]
  <2>2. numbers[n + 1] \in Int
    BY <1>2, <1>4
  <2>3. t \in [0..(n + 1) -> Int]
    BY <2>2
  <2>4. t[0] = 0
    BY <2>1
  <2>5. ASSUME NEW k \in 1..(n + 1) PROVE t[k] = t[k - 1] + numbers[k]
    BY <2>1
  <2> HIDE DEF t
  <2> QED
    BY <2>3, <2>4, <2>5 DEF Summed
<1>5. \A n \in Nat : n \in T => n + 1 \in T
  BY <1>4
<1>6. 0 \in T
  BY <1>3
<1> HIDE DEF T
<1>7. N \in T
  BY <1>5, <1>6, Induction
<1> QED
  BY <1>1, <1>7 DEF T, Sums, Summed

\* SumOf gives the last of them.
LEMMA SumOfIs ==
  ASSUME NEW numbers \in Seq(Int), NEW sums, Sums(numbers, sums)
  PROVE  SumOf(numbers) = sums[Len(numbers)]
<1>1. PICK N \in Nat : N = Len(numbers)
  OBVIOUS
<1> DEFINE upto == CHOOSE f : f = [k \in 0..N |-> IF k = 0 THEN 0 ELSE f[k - 1] + numbers[k]]
           T    == {n \in Nat : n <= N => upto[n] = sums[n]}
<1>2. sums = [k \in 0..N |-> IF k = 0 THEN 0 ELSE sums[k - 1] + numbers[k]]
  <2>1. sums = [k \in 0..N |-> sums[k]]
    BY <1>1 DEF Sums
  <2>2. ASSUME NEW k \in 0..N PROVE sums[k] = IF k = 0 THEN 0 ELSE sums[k - 1] + numbers[k]
    BY <1>1 DEF Sums
  <2> QED
    BY <2>1, <2>2
<1>3. upto = [k \in 0..N |-> IF k = 0 THEN 0 ELSE upto[k - 1] + numbers[k]]
  BY <1>2
<1>4. SumOf(numbers) = upto[N]
  BY <1>1 DEF SumOf
<1> HIDE DEF upto
<1>5. upto[0] = 0
  BY <1>3
<1>6. ASSUME NEW n \in Nat, n + 1 <= N, upto[n] = sums[n] PROVE upto[n + 1] = sums[n + 1]
  <2>1. n + 1 \in 0..N /\ n + 1 \in 1..N /\ n + 1 # 0 /\ n + 1 - 1 = n
    BY <1>6
  <2>2. upto[n + 1] = upto[n + 1 - 1] + numbers[n + 1]
    BY <1>3, <2>1
  <2>3. sums[n + 1] = sums[n + 1 - 1] + numbers[n + 1]
    BY <1>1, <2>1 DEF Sums
  <2> QED
    BY <1>6, <2>1, <2>2, <2>3
<1>7. \A n \in Nat : n \in T => n + 1 \in T
  BY <1>6
<1>8. 0 \in T
  BY <1>5 DEF Sums
<1> HIDE DEF T
<1>9. N \in T
  BY <1>7, <1>8, Induction
<1> QED
  BY <1>1, <1>4, <1>9 DEF T

LEMMA SumOfIntegers ==
  ASSUME NEW numbers \in Seq(Int)
  PROVE  SumOf(numbers) \in Int
<1>1. PICK sums : Sums(numbers, sums)
  BY SumsExist
<1>2. SumOf(numbers) = sums[Len(numbers)]
  BY <1>1, SumOfIs
<1>3. Len(numbers) \in 0..Len(numbers)
  OBVIOUS
<1> QED
  BY <1>1, <1>2, <1>3 DEF Sums

\* The sum of n numbers from 0 to 100.
LEMMA SumOfHundredths ==
  ASSUME NEW numbers \in Seq(Int), \A k \in DOMAIN numbers : numbers[k] \in 0..100
  PROVE  SumOf(numbers) \in 0..(100 * Len(numbers))
<1>1. PICK N \in Nat : N = Len(numbers) /\ DOMAIN numbers = 1..N
  OBVIOUS
<1>2. \A k \in 1..N : numbers[k] \in 0..100
  BY <1>1
<1>3. PICK sums : Sums(numbers, sums)
  BY SumsExist
<1> DEFINE T == {n \in Nat : n <= N => 0 <= sums[n] /\ sums[n] <= 100 * n}
<1>4. 0 \in T
  BY <1>3 DEF Sums
<1>5. ASSUME NEW n \in Nat, n + 1 <= N, 0 <= sums[n], sums[n] <= 100 * n
      PROVE  0 <= sums[n + 1] /\ sums[n + 1] <= 100 * (n + 1)
  <2>1. n \in 0..N /\ n + 1 \in 1..N /\ n + 1 - 1 = n
    BY <1>5
  <2>2. sums[n + 1] = sums[n + 1 - 1] + numbers[n + 1] /\ sums[n] \in Int
    BY SMTT(60), <1>1, <1>3, <2>1 DEF Sums
  <2>3. PICK s \in Int, c \in 0..100 : s = sums[n] /\ c = numbers[n + 1]
    BY <1>2, <2>1, <2>2
  <2>4. sums[n + 1] = s + c
    BY <2>1, <2>2, <2>3
  <2>5. 0 <= s /\ s <= 100 * n
    BY <1>5, <2>3
  <2> QED
    BY ONLY <2>4, <2>5, n \in Nat, s \in Int, c \in 0..100
<1>6. \A n \in Nat : n \in T => n + 1 \in T
  BY <1>5
<1> HIDE DEF T
<1>7. N \in T
  BY <1>4, <1>6, Induction
<1>8. SumOf(numbers) = sums[N] /\ sums[N] \in Int
  BY <1>1, <1>3, SumOfIs DEF Sums
<1> QED
  BY <1>1, <1>7, <1>8 DEF T

-----------------------------------------------------------------------------
(* The gate *)

LEMMA WeightIsInteger == ASSUME NEW item PROVE Weight(item) \in Int
  BY DEF Weight, Points

LEMMA ScoreInRange ==
  ASSUME NEW S, NEW ids \in Seq(S), NEW items
  PROVE  Score(items, ids) \in 0..100
<1> DEFINE weights == [k \in DOMAIN ids |-> Weight(ItemOf(items, ids[k]))]
<1>1. PICK n \in Nat : n = Len(ids) /\ DOMAIN ids = 1..n
  OBVIOUS
<1>2. weights \in Seq(Int)
  <2>1. \A k \in 1..n : Weight(ItemOf(items, ids[k])) \in Int
    BY WeightIsInteger
  <2>2. weights \in [1..n -> Int]
    BY <1>1, <2>1
  <2> QED
    BY <2>2
<1>3. SumOf(weights) \in Int
  BY <1>2, SumOfIntegers
<1> HIDE DEF weights
<1>4. PICK a \in Int, b \in Int, c \in Int : Score(items, ids) = Clamped(SumOf(weights) + a - b - c)
  <2> DEFINE cited == {ItemOf(items, id) : id \in ToSet(ids)}
             a == Points(Len(ids) > 1, 15)
             b == Points(~\E item \in cited : IsStrong(item), 20)
             c == Points(~\E item \in cited : item.maintainer, 10)
  <2>1. a \in Int /\ b \in Int /\ c \in Int
    BY DEF Points
  <2>2. Score(items, ids) = Clamped(SumOf(weights) + a - b - c)
    BY DEF Score, weights
  <2> HIDE DEF a, b, c
  <2> QED
    BY <2>1, <2>2
<1>5. PICK sum \in Int : Score(items, ids) = Clamped(sum)
  BY <1>3, <1>4
<1> QED
  BY <1>5 DEF Clamped

\* The identifiers of a claim that are known.
KnownIds(claim, items) == ToSet(claim.ids) \cap Known(items)

LEMMA CheckedClaim ==
  ASSUME NEW claim \in ClaimRecord, NEW items
  PROVE  /\ Checked(claim, items) \in ClaimRecord
         /\ Checked(claim, items).text = claim.text
         /\ ToSet(Checked(claim, items).ids) = KnownIds(claim, items)
         /\ (Checked(claim, items).ids = <<>>) <=> (KnownIds(claim, items) = {})
         /\ Checked(claim, items).ids # <<>> => Checked(claim, items).confidence \in 0..100
<1> DEFINE ks == {k \in DOMAIN claim.ids : claim.ids[k] \in Known(items)}
<1>1. PICK ids : ids = Kept(claim.ids, ks)
  OBVIOUS
<1>2. claim.ids \in Seq(String) /\ claim.text \in Texts /\ claim.confidence \in Int
  BY DEF ClaimRecord
<1>3. ks \in SUBSET DOMAIN claim.ids
  OBVIOUS
<1>4. ids \in Seq(String)
  BY <1>1, <1>2, <1>3, KeptElements
<1>5. ToSet(ids) = {claim.ids[k] : k \in ks}
  BY <1>1, <1>2, <1>3, KeptValues
<1>6. {claim.ids[k] : k \in ks} = KnownIds(claim, items)
  <2>1. ToSet(claim.ids) = {claim.ids[k] : k \in DOMAIN claim.ids}
    BY DEF ToSet
  <2> QED
    BY <2>1 DEF KnownIds
<1>7. ids = <<>> <=> ToSet(ids) = {}
  <2>1. ToSet(ids) = {ids[k] : k \in 1..Len(ids)} /\ Len(ids) \in Nat
    BY ONLY <1>4 DEF ToSet
  <2>2. ids # <<>> => 1 \in 1..Len(ids)
    BY <1>4
  <2>3. ids = <<>> => Len(ids) = 0
    OBVIOUS
  <2> QED
    BY <2>1, <2>2, <2>3
<1>8. Score(items, ids) \in 0..100
  BY <1>4, ScoreInRange
<1>9. PICK conf \in Int : /\ conf = IF ids = <<>> THEN claim.confidence ELSE Score(items, ids)
                          /\ ids # <<>> => conf \in 0..100
  BY <1>2, <1>8
<1>10. Checked(claim, items) = [claim EXCEPT !.ids = ids, !.confidence = conf]
  BY <1>1, <1>9 DEF Checked
<1>11. claim = [text |-> claim.text, ids |-> claim.ids, confidence |-> claim.confidence]
  BY DEF ClaimRecord
<1>12. Checked(claim, items) = [text |-> claim.text, ids |-> ids, confidence |-> conf]
  BY <1>10, <1>11
<1>13. Checked(claim, items) \in ClaimRecord
  BY <1>2, <1>4, <1>12 DEF ClaimRecord
<1>14. /\ Checked(claim, items).text = claim.text
       /\ Checked(claim, items).ids = ids
       /\ Checked(claim, items).confidence = conf
  BY ONLY <1>12
<1>15. ToSet(ids) = KnownIds(claim, items) /\ (ids = <<>> <=> KnownIds(claim, items) = {})
  BY ONLY <1>5, <1>6, <1>7
<1> QED
  BY ONLY <1>9, <1>13, <1>14, <1>15

\* To check a claim twice drops nothing more.
LEMMA CheckedTwice ==
  ASSUME NEW claim \in ClaimRecord, NEW items, ToSet(claim.ids) \subseteq Known(items)
  PROVE  Checked(claim, items).ids = claim.ids
<1>1. claim.ids \in Seq(String)
  BY DEF ClaimRecord
<1>2. {k \in DOMAIN claim.ids : claim.ids[k] \in Known(items)} = DOMAIN claim.ids
  BY DEF ToSet
<1>3. Kept(claim.ids, DOMAIN claim.ids) = claim.ids
  BY <1>1, KeptAll
<1>4. PICK conf : Checked(claim, items) = [claim EXCEPT !.ids = claim.ids, !.confidence = conf]
  BY <1>2, <1>3 DEF Checked
<1>5. claim = [text |-> claim.text, ids |-> claim.ids, confidence |-> claim.confidence]
  BY DEF ClaimRecord
<1> QED
  BY <1>4, <1>5

\* The claims that say something and cite some item.
Founded(claims, items, unsaid) ==
  {k \in DOMAIN claims : KnownIds(claims[k], items) # {} /\ claims[k].text \notin unsaid}

\* The founded claims are kept, in their order, as they are when checked.
Gated(claims, kept, founded, items) ==
  /\ kept \in Seq(ClaimRecord)
  /\ Len(kept) = Cardinality(founded)
  /\ \A k \in founded : /\ Count(founded, k) \in 1..Cardinality(founded)
                        /\ kept[Count(founded, k)] = Checked(claims[k], items)
  /\ \A p \in 1..Cardinality(founded) :
       \E k \in founded : p = Count(founded, k) /\ kept[p] = Checked(claims[k], items)

LEMMA FilteredClaims ==
  ASSUME NEW claims \in Seq(ClaimRecord), NEW items, NEW unsaid
  PROVE  Gated(claims, Filtered(claims, items, unsaid), Founded(claims, items, unsaid), items)
<1> DEFINE checked == [k \in DOMAIN claims |-> Checked(claims[k], items)]
           founded == Founded(claims, items, unsaid)
           ks      == {k \in DOMAIN claims : checked[k].ids # <<>> /\ checked[k].text \notin unsaid}
<1>1. PICK n \in Nat : n = Len(claims) /\ DOMAIN claims = 1..n /\ \A k \in 1..n : claims[k] \in ClaimRecord
  OBVIOUS
<1>2. \A k \in 1..n : checked[k] = Checked(claims[k], items) /\ checked[k] \in ClaimRecord
  BY <1>1, CheckedClaim
<1>3. ks = founded
  BY <1>1, CheckedClaim DEF Founded
<1>4. Filtered(claims, items, unsaid) = Kept(checked, founded)
  BY <1>3 DEF Filtered
<1>5. checked \in Seq(ClaimRecord) /\ DOMAIN checked = 1..n
  <2>1. DOMAIN checked = 1..n
    BY <1>1
  <2>2. checked \in [1..n -> ClaimRecord]
    BY <1>1, <1>2
  <2> QED
    BY <2>1, <2>2
<1>6. founded \in SUBSET DOMAIN checked /\ founded \in SUBSET (1..n)
  BY <1>1, <1>5 DEF Founded
<1> HIDE DEF checked, founded, ks
<1>7. PICK kept : kept = Kept(checked, founded)
  OBVIOUS
<1>8. /\ kept \in Seq(ClaimRecord)
      /\ Len(kept) = Cardinality(founded)
      /\ \A k \in founded : /\ Count(founded, k) \in 1..Cardinality(founded)
                            /\ kept[Count(founded, k)] = checked[k]
      /\ \A p \in 1..Cardinality(founded) : \E k \in founded : p = Count(founded, k) /\ kept[p] = checked[k]
  BY <1>5, <1>6, <1>7, KeptElements, Zenon
<1>9. \A k \in founded : checked[k] = Checked(claims[k], items)
  BY <1>2, <1>6
<1>10. Gated(claims, kept, founded, items)
  BY <1>8, <1>9 DEF Gated
<1> QED
  BY <1>4, <1>7, <1>10 DEF founded

\* The claims cite known items only, each at least one, and their confidence is a share.
Linked(claims, items) ==
  \A k \in DOMAIN claims : /\ ToSet(claims[k].ids) \subseteq Known(items)
                           /\ KnownIds(claims[k], items) # {}
                           /\ claims[k].confidence \in 0..100

LEMMA FilteredLinked ==
  ASSUME NEW claims \in Seq(ClaimRecord), NEW items, NEW unsaid
  PROVE  /\ Linked(Filtered(claims, items, unsaid), items)
         /\ \A p \in DOMAIN Filtered(claims, items, unsaid) :
              Filtered(claims, items, unsaid)[p].text \notin unsaid
<1>1. PICK kept, founded : kept = Filtered(claims, items, unsaid)
                           /\ founded = Founded(claims, items, unsaid)
  OBVIOUS
<1>2. Gated(claims, kept, founded, items)
  BY <1>1, FilteredClaims
<1>3. ASSUME NEW p \in DOMAIN kept
      PROVE  /\ ToSet(kept[p].ids) \subseteq Known(items)
             /\ KnownIds(kept[p], items) # {}
             /\ kept[p].confidence \in 0..100
             /\ kept[p].text \notin unsaid
  <2>1. p \in 1..Cardinality(founded)
    BY <1>2 DEF Gated
  <2>2. PICK k \in founded : kept[p] = Checked(claims[k], items)
    BY <1>2, <2>1 DEF Gated
  <2>3. k \in DOMAIN claims /\ KnownIds(claims[k], items) # {} /\ claims[k].text \notin unsaid
    BY <1>1 DEF Founded
  <2>4. claims[k] \in ClaimRecord
    BY <2>3
  <2>5. /\ kept[p].text = claims[k].text
        /\ ToSet(kept[p].ids) = KnownIds(claims[k], items)
        /\ kept[p].ids # <<>>
        /\ kept[p].confidence \in 0..100
    BY ZenonT(60), <2>2, <2>3, <2>4, CheckedClaim
  <2>6. KnownIds(kept[p], items) = KnownIds(claims[k], items)
    BY <2>5 DEF KnownIds
  <2>7. KnownIds(claims[k], items) \subseteq Known(items)
    BY DEF KnownIds
  <2> QED
    BY <2>3, <2>5, <2>6, <2>7
<1>4. Linked(kept, items) /\ \A p \in DOMAIN kept : kept[p].text \notin unsaid
  BY <1>3 DEF Linked
<1> QED
  BY <1>1, <1>4

\* What FoundedClaimsOnly says of the claims of one category.
Sifts(said, kept, items) ==
  LET founded == Founded(said, items, {"empty", "blank"}) IN
  /\ Len(kept) = Cardinality(founded)
  /\ \A k \in founded : /\ Count(founded, k) \in 1..Cardinality(founded)
                        /\ kept[Count(founded, k)].text = said[k].text
                        /\ ToSet(kept[Count(founded, k)].ids) = KnownIds(said[k], items)
  /\ \A p \in 1..Cardinality(founded) : \E k \in founded : p = Count(founded, k)

LEMMA FilteredSifts ==
  ASSUME NEW said \in Seq(ClaimRecord), NEW items, NEW unsaid,
         Founded(said, items, unsaid) = Founded(said, items, {"empty", "blank"})
  PROVE  Sifts(said, Filtered(said, items, unsaid), items)
<1>1. PICK kept, founded : kept = Filtered(said, items, unsaid)
                           /\ founded = Founded(said, items, unsaid)
  OBVIOUS
<1>2. Gated(said, kept, founded, items)
  BY <1>1, FilteredClaims
<1>3. ASSUME NEW k \in founded
      PROVE  /\ kept[Count(founded, k)].text = said[k].text
             /\ ToSet(kept[Count(founded, k)].ids) = KnownIds(said[k], items)
  <2>1. said[k] \in ClaimRecord
    BY <1>1 DEF Founded
  <2>2. kept[Count(founded, k)] = Checked(said[k], items)
    BY <1>2 DEF Gated
  <2> QED
    BY <2>1, <2>2, CheckedClaim
<1>4. founded = Founded(said, items, {"empty", "blank"})
  BY <1>1
<1> QED
  BY <1>1, <1>2, <1>3, <1>4 DEF Sifts, Gated

\* What passed the analyzer's own gate passes the other whole.
LEMMA FilteredTwice ==
  ASSUME NEW said \in Seq(ClaimRecord), NEW items
  PROVE  Sifts(said, Filtered(Filtered(said, items, {"empty", "blank"}), items, {"empty"}), items)
<1>1. PICK first, founded : first = Filtered(said, items, {"empty", "blank"})
                            /\ founded = Founded(said, items, {"empty", "blank"})
  OBVIOUS
<1>2. PICK second : second = Filtered(first, items, {"empty"})
  OBVIOUS
<1>3. Gated(said, first, founded, items)
  BY <1>1, FilteredClaims
<1>4. Linked(first, items) /\ \A p \in DOMAIN first : first[p].text \notin {"empty", "blank"}
  BY <1>1, FilteredLinked, Zenon
<1>5. PICK n \in Nat : n = Len(first) /\ DOMAIN first = 1..n /\ Cardinality(founded) = n
                       /\ \A p \in 1..n : first[p] \in ClaimRecord
  BY <1>3 DEF Gated
<1>6. Founded(first, items, {"empty"}) = 1..n
  BY <1>4, <1>5 DEF Founded, Linked
<1>7. Cardinality(1..n) = n
  BY FS_Interval
<1>8. ASSUME NEW p \in 1..n PROVE Count(1..n, p) = p
  <2>1. {j \in 1..n : j <= p} = 1..p
    OBVIOUS
  <2>2. Cardinality(1..p) = p
    BY FS_Interval
  <2> QED
    BY <2>1, <2>2 DEF Count
<1>9. Gated(first, second, 1..n, items)
  <2>1. first \in Seq(ClaimRecord)
    BY <1>3 DEF Gated
  <2> QED
    BY <1>2, <1>6, <2>1, FilteredClaims
<1>10. ASSUME NEW p \in 1..n PROVE second[p].ids = first[p].ids /\ second[p].text = first[p].text
  <2>1. second[p] = Checked(first[p], items)
    BY <1>8, <1>9 DEF Gated
  <2>2. first[p] \in ClaimRecord /\ ToSet(first[p].ids) \subseteq Known(items)
    BY <1>4, <1>5 DEF Linked
  <2> QED
    BY <2>1, <2>2, CheckedTwice, CheckedClaim
<1>11. ASSUME NEW k \in founded
       PROVE  /\ second[Count(founded, k)].text = said[k].text
              /\ ToSet(second[Count(founded, k)].ids) = KnownIds(said[k], items)
  <2>1. said[k] \in ClaimRecord
    BY <1>1 DEF Founded
  <2>2. PICK p \in 1..n : p = Count(founded, k) /\ first[p] = Checked(said[k], items)
    BY <1>3, <1>5 DEF Gated
  <2>3. first[p].text = said[k].text /\ ToSet(first[p].ids) = KnownIds(said[k], items)
    BY <2>1, <2>2, CheckedClaim
  <2> QED
    BY <1>10, <2>2, <2>3
<1>12. /\ Len(second) = Cardinality(founded)
       /\ \A k \in founded : Count(founded, k) \in 1..Cardinality(founded)
       /\ \A p \in 1..Cardinality(founded) : \E k \in founded : p = Count(founded, k)
  BY <1>3, <1>5, <1>7, <1>9 DEF Gated
<1>13. Sifts(said, second, items)
  BY <1>1, <1>11, <1>12 DEF Sifts
<1> QED
  BY <1>1, <1>2, <1>13

-----------------------------------------------------------------------------
(* Outcomes, areas, confidence *)

LEMMA EmptyValues ==
  ASSUME NEW S, NEW seq \in Seq(S)
  PROVE  (seq = <<>>) <=> (ToSet(seq) = {})
<1>1. ToSet(seq) = {seq[k] : k \in 1..Len(seq)} /\ Len(seq) \in Nat
  BY DEF ToSet
<1>2. seq # <<>> => 1 \in 1..Len(seq)
  OBVIOUS
<1>3. seq = <<>> => Len(seq) = 0
  OBVIOUS
<1> QED
  BY <1>1, <1>2, <1>3

LEMMA SingleValue ==
  ASSUME NEW v
  PROVE  Distinct(<<v>>) /\ ToSet(<<v>>) = {v}
<1>1. ToSet(<<v>>) = {v}
  BY DEF ToSet
<1>2. Cardinality({v}) = 1
  BY FS_Singleton
<1> QED
  BY <1>1, <1>2 DEF Distinct

\* The outcomes that OutcomesOfTheVocabulary asks for.
AllowedOf(values) ==
  IF ToSet(values) \cap Allowed = {} THEN {"unknown"} ELSE ToSet(values) \cap Allowed

LEMMA OutcomesVerified ==
  ASSUME NEW S, NEW values \in Seq(S)
  PROVE  Distinct(VerifiedOutcomes(values)) /\ ToSet(VerifiedOutcomes(values)) = AllowedOf(values)
<1>1. PICK out : out = Firsts(values, Allowed)
  OBVIOUS
<1>2. out \in Seq(S) /\ OneByOne(out) /\ ToSet(out) = ToSet(values) \cap Allowed
  BY <1>1, FirstsElements
<1>3. VerifiedOutcomes(values) = IF out = <<>> THEN <<"unknown">> ELSE out
  BY <1>1 DEF VerifiedOutcomes
<1>4. CASE out = <<>>
  <2>1. ToSet(values) \cap Allowed = {}
    BY <1>2, <1>4, EmptyValues
  <2> QED
    BY <1>3, <1>4, <2>1, SingleValue DEF AllowedOf
<1>5. CASE out # <<>>
  <2>1. ToSet(values) \cap Allowed # {}
    BY <1>2, <1>5, EmptyValues
  <2>2. Distinct(out)
    BY <1>2, OneByOneDistinct
  <2> QED
    BY <1>2, <1>3, <1>5, <2>1, <2>2 DEF AllowedOf
<1> QED
  BY <1>4, <1>5

\* What AreasAreFiles says of areas.
FilesOnly(areas, values, names) ==
  LET named == ToSet(values) \cap ToSet(names)
      pool  == IF named = {} THEN ToSet(names) ELSE named IN
  /\ Distinct(areas) /\ ToSet(areas) \subseteq pool
  /\ Len(areas) = IF Cardinality(pool) < MaxAreas THEN Cardinality(pool) ELSE MaxAreas

LEMMA AreasVerified ==
  ASSUME NEW S, NEW values \in Seq(S), NEW names \in Seq(S)
  PROVE  /\ FilesOnly(verifiedAreas(values, names), values, names)
         /\ ToSet(verifiedAreas(values, names)) \subseteq ToSet(names)
<1> DEFINE named == ToSet(values) \cap ToSet(names)
           pool  == IF named = {} THEN ToSet(names) ELSE named
<1>1. PICK out, all : out = Firsts(values, ToSet(names)) /\ all = Firsts(names, ToSet(names))
  OBVIOUS
<1>2. /\ out \in Seq(S) /\ OneByOne(out) /\ ToSet(out) = named
      /\ all \in Seq(S) /\ OneByOne(all) /\ ToSet(all) = ToSet(names)
  <2>1. PICK known : known = ToSet(names)
    OBVIOUS
  <2>2. out \in Seq(S) /\ OneByOne(out) /\ ToSet(out) = ToSet(values) \cap known
    BY ONLY <1>1, <2>1, values \in Seq(S), FirstsElements
  <2>3. all \in Seq(S) /\ OneByOne(all) /\ ToSet(all) = ToSet(names) \cap known
    BY ONLY <1>1, <2>1, names \in Seq(S), FirstsElements
  <2> QED
    BY <2>1, <2>2, <2>3
<1>3. PICK base : base = IF out = <<>> THEN all ELSE out
  OBVIOUS
<1>4. base \in Seq(S) /\ OneByOne(base) /\ ToSet(base) = pool
  <2>1. out = <<>> <=> named = {}
    BY <1>2, EmptyValues
  <2> QED
    BY <1>2, <1>3, <2>1
<1>5. PICK areas : areas = Upto(base, MaxAreas)
  OBVIOUS
<1>6. areas = verifiedAreas(values, names)
  BY <1>1, <1>3, <1>5 DEF verifiedAreas
<1>7. MaxAreas \in Nat
  BY LimitAssumption
<1>8. /\ areas \in Seq(S)
      /\ Len(areas) = IF Len(base) < MaxAreas THEN Len(base) ELSE MaxAreas
      /\ \A k \in 1..Len(areas) : k \in DOMAIN base /\ areas[k] = base[k]
  BY <1>4, <1>5, <1>7, UptoElements
<1>9. Len(base) = Cardinality(pool)
  BY <1>4, OneByOneDistinct
<1>10. DOMAIN areas = 1..Len(areas)
  BY <1>8
<1>11. OneByOne(areas)
  BY <1>4, <1>8, <1>10 DEF OneByOne
<1>12. ToSet(areas) \subseteq pool
  BY <1>4, <1>8, <1>10 DEF ToSet
<1>13. Distinct(areas)
  BY <1>8, <1>11, OneByOneDistinct
<1>14. pool \subseteq ToSet(names)
  OBVIOUS
<1> HIDE DEF pool
<1>15. FilesOnly(areas, values, names)
  BY <1>8, <1>9, <1>12, <1>13 DEF FilesOnly, pool
<1> QED
  BY <1>6, <1>12, <1>14, <1>15

Confident == {claim \in ClaimRecord : claim.confidence \in 0..100}

LEMMA ConfidenceInRange ==
  ASSUME NEW claims, \A c \in Categories : claims[c] \in Seq(Confident)
  PROVE  aggregateConfidence(claims) \in 0..100
<1>1. PICK all : all = claims["attempted_approach"] \o claims["valuable_findings"]
                       \o claims["rejected_or_questioned_approaches"]
                       \o claims["unresolved_questions"] \o claims["suggested_future_direction"]
  OBVIOUS
<1>2. all \in Seq(Confident)
  BY <1>1, ConcatProperties DEF Categories
<1>3. PICK n \in Nat : n = Len(all) /\ DOMAIN all = 1..n
  BY <1>2
<1>4. \A k \in 1..n : all[k].confidence \in 0..100
  BY <1>2, <1>3 DEF Confident
<1>5. PICK numbers : numbers = [k \in DOMAIN all |-> all[k].confidence]
  OBVIOUS
<1>11. numbers \in [1..n -> Int] /\ \A k \in 1..n : numbers[k] \in 0..100
  <2>0. \A x \in 0..100 : x \in Int
    OBVIOUS
  <2>1. \A k \in 1..n : all[k].confidence \in Int
    BY <1>4, <2>0, Zenon
  <2>2. numbers = [k \in 1..n |-> all[k].confidence]
    BY <1>3, <1>5
  <2> QED
    BY ONLY <1>4, <2>1, <2>2
<1>12. numbers \in Seq(Int) /\ Len(numbers) = n /\ DOMAIN numbers = 1..n
  BY ONLY <1>11, n \in Nat
<1>6. SumOf(numbers) \in 0..(100 * n)
  BY <1>11, <1>12, SumOfHundredths
<1>7. aggregateConfidence(claims) = IF all = <<>> THEN 0 ELSE SumOf(numbers) \div Len(all)
  BY <1>1, <1>5 DEF aggregateConfidence
<1>8. all # <<>> => n > 0
  BY <1>2, <1>3
<1>9. PICK sum \in Int : sum = SumOf(numbers) /\ 0 <= sum /\ sum <= 100 * n
  BY <1>6
<1>10. n > 0 => sum \div n \in 0..100
  BY ONLY <1>9, n \in Nat, sum \in Int
<1> QED
  BY <1>3, <1>7, <1>8, <1>9, <1>10

\* What is cited is cited once, as the primary key of claim_evidence has it.
LEMMA CitedOnce ==
  ASSUME NEW claim \in ClaimRecord
  PROVE  Distinct(Cited(claim)) /\ ToSet(Cited(claim)) = ToSet(claim.ids)
<1>1. PICK cited : cited = Firsts(claim.ids, ToSet(claim.ids))
  OBVIOUS
<1>2. claim.ids \in Seq(String)
  BY DEF ClaimRecord
<1>3. cited \in Seq(String) /\ OneByOne(cited) /\ ToSet(cited) = ToSet(claim.ids) \cap ToSet(claim.ids)
  BY <1>1, <1>2, FirstsElements
<1>4. Distinct(cited)
  BY <1>3, OneByOneDistinct
<1> QED
  BY <1>1, <1>3, <1>4 DEF Cited

-----------------------------------------------------------------------------
(* The evidence *)

\* The fields of an item, and the record of them.
LEMMA ItemFields ==
  ASSUME NEW item \in EvidenceItem
  PROVE  /\ item.id \in String /\ item.kind \in DOMAIN Preference
         /\ item.maintainer \in BOOLEAN /\ item.recent \in BOOLEAN
         /\ item.phrases \in SUBSET String /\ item.length \in Nat
         /\ item.width \in Nat /\ item.width > 0 /\ item.whole \in BOOLEAN
         /\ item.whole => item.length % item.width = 0
         /\ item = [id |-> item.id, kind |-> item.kind, maintainer |-> item.maintainer,
                    recent |-> item.recent, phrases |-> item.phrases, length |-> item.length,
                    width |-> item.width, whole |-> item.whole]
<1>1. item \in [id : String, kind : DOMAIN Preference, maintainer : BOOLEAN, recent : BOOLEAN,
                phrases : SUBSET String, length : Nat, width : Nat \ {0}, whole : BOOLEAN]
      /\ (item.whole => item.length % item.width = 0)
  BY DEF EvidenceItem
<1> QED
  BY ONLY <1>1

LEMMA MakesItem ==
  ASSUME NEW id \in String, NEW kind \in DOMAIN Preference, NEW maintainer \in BOOLEAN,
         NEW recent \in BOOLEAN, NEW phrases \in SUBSET String, NEW length \in Nat,
         NEW width \in Nat, width > 0, NEW whole \in BOOLEAN, whole => length % width = 0
  PROVE  [id |-> id, kind |-> kind, maintainer |-> maintainer, recent |-> recent,
          phrases |-> phrases, length |-> length, width |-> width, whole |-> whole]
         \in EvidenceItem
  BY DEF EvidenceItem

LEMMA ClippedItem ==
  ASSUME NEW item \in EvidenceItem, NEW limit \in Nat
  PROVE  Clipped(item, limit) \in EvidenceItem
<1>1. PICK whole \in BOOLEAN : whole = (item.whole /\ limit % item.width = 0)
  OBVIOUS
<1>2. CASE item.length <= limit
  BY <1>2 DEF Clipped
<1>3. CASE ~(item.length <= limit)
  <2>1. Clipped(item, limit) = [id |-> item.id, kind |-> item.kind, maintainer |-> item.maintainer,
                                recent |-> item.recent, phrases |-> item.phrases, length |-> limit,
                                width |-> item.width, whole |-> whole]
    <3>1. Clipped(item, limit) = [item EXCEPT !.length = limit,
                                              !.whole = item.whole /\ limit % item.width = 0]
      BY <1>3 DEF Clipped
    <3>2. Clipped(item, limit) = [item EXCEPT !.length = limit, !.whole = whole]
      BY ONLY <1>1, <3>1, Zenon
    <3>3. item = [id |-> item.id, kind |-> item.kind, maintainer |-> item.maintainer,
                  recent |-> item.recent, phrases |-> item.phrases, length |-> item.length,
                  width |-> item.width, whole |-> item.whole]
      BY ItemFields
    <3> QED
      BY ONLY <3>2, <3>3
  <2>2. whole => limit % item.width = 0
    BY <1>1
  <2> QED
    BY <2>1, <2>2, ItemFields, MakesItem
<1> QED
  BY <1>2, <1>3

LEMMA NamesOfFiles ==
  ASSUME NEW lists \in Lists
  PROVE  Names(lists.files) \in Seq(String)
<1>1. PICK files \in Seq([name : String, patch : EvidenceItem]) : files = lists.files
  BY DEF Lists
<1>2. PICK n \in Nat : n = Len(files) /\ DOMAIN files = 1..n
  OBVIOUS
<1>3. \A k \in 1..n : files[k].name \in String
  <2>1. \A file \in [name : String, patch : EvidenceItem] : file.name \in String
    OBVIOUS
  <2>2. PICK F : F = [name : String, patch : EvidenceItem]
    OBVIOUS
  <2>3. files \in Seq(F)
    BY <2>2
  <2>4. \A k \in 1..n : files[k] \in F
    BY ONLY <1>2, <2>3
  <2> QED
    BY ONLY <2>1, <2>2, <2>4, Zenon
<1>4. PICK names : names = Names(files)
  OBVIOUS
<1>5. names = [k \in 1..n |-> files[k].name]
  BY <1>2, <1>4 DEF Names
<1>6. names \in Seq(String)
  BY ONLY <1>3, <1>5, n \in Nat
<1> QED
  BY <1>1, <1>4, <1>6

LEMMA PatchesOfFiles ==
  ASSUME NEW lists \in Lists
  PROVE  Patches(lists.files) \in Seq(EvidenceItem)
<1>1. PICK files \in Seq([name : String, patch : EvidenceItem]) : files = lists.files
  BY DEF Lists
<1>2. PICK n \in Nat : n = Len(files) /\ DOMAIN files = 1..n
  OBVIOUS
<1>3. \A k \in 1..n : files[k].patch \in EvidenceItem
  <2>1. \A file \in [name : String, patch : EvidenceItem] : file.patch \in EvidenceItem
    OBVIOUS
  <2>2. PICK F : F = [name : String, patch : EvidenceItem]
    OBVIOUS
  <2>3. files \in Seq(F)
    BY <2>2
  <2>4. \A k \in 1..n : files[k] \in F
    BY ONLY <1>2, <2>3
  <2> QED
    BY ONLY <2>1, <2>2, <2>4, Zenon
<1>4. PICK patches : patches = Patches(files)
  OBVIOUS
<1>5. patches = [k \in 1..n |-> files[k].patch]
  BY <1>2, <1>4 DEF Patches
<1>6. patches \in Seq(EvidenceItem)
  BY ONLY <1>3, <1>5, n \in Nat
<1> QED
  BY <1>1, <1>4, <1>6

LEMMA SpokenItems ==
  ASSUME NEW items \in Seq(EvidenceItem)
  PROVE  Spoken(items) \in Seq(EvidenceItem)
<1>1. {k \in DOMAIN items : items[k].length > 0} \in SUBSET DOMAIN items
  OBVIOUS
<1> QED
  BY <1>1, KeptElements DEF Spoken

LEMMA EvidenceTyped ==
  ASSUME NEW lists \in Lists
  PROVE  EvidenceOf(lists) \in Seq(EvidenceItem)
<1>1. /\ lists.commits \in Seq(EvidenceItem) /\ lists.reviews \in Seq(EvidenceItem)
      /\ lists.reviewComments \in Seq(EvidenceItem) /\ lists.issueComments \in Seq(EvidenceItem)
      /\ lists.timeline \in Seq(EvidenceItem) /\ lists.context \in Seq(EvidenceItem)
      /\ lists.body \in EvidenceItem
  BY DEF Lists
<1>2. PICK commits, reviews, patches :
        commits = Spoken(lists.commits) /\ reviews = Spoken(lists.reviews)
        /\ patches = Spoken(Patches(lists.files))
  OBVIOUS
<1>3. commits \in Seq(EvidenceItem) /\ reviews \in Seq(EvidenceItem)
  BY <1>1, <1>2, SpokenItems
<1>4. patches \in Seq(EvidenceItem)
  BY <1>2, PatchesOfFiles, SpokenItems
<1>5. PICK clipped : clipped = [k \in DOMAIN lists.context |-> Clipped(lists.context[k], MaxContext)]
  OBVIOUS
<1>6. clipped \in Seq(EvidenceItem)
  <2>1. PICK n \in Nat : n = Len(lists.context) /\ DOMAIN lists.context = 1..n
    BY <1>1
  <2>2. \A k \in 1..n : lists.context[k] \in EvidenceItem
    BY <1>1, <2>1
  <2>3. MaxContext \in Nat
    BY LimitAssumption
  <2>4. \A k \in 1..n : Clipped(lists.context[k], MaxContext) \in EvidenceItem
    BY <2>2, <2>3, ClippedItem
  <2>5. clipped = [k \in 1..n |-> Clipped(lists.context[k], MaxContext)]
    BY <1>5, <2>1
  <2> QED
    BY ONLY <2>4, <2>5, n \in Nat
<1>7. PICK body : body = <<lists.body>>
  OBVIOUS
<1>8. body \in Seq(EvidenceItem)
  BY <1>1, <1>7
<1>9. EvidenceOf(lists) = commits \o body \o reviews \o lists.reviewComments \o lists.issueComments
                          \o lists.timeline \o patches \o clipped
  BY <1>2, <1>5, <1>7 DEF EvidenceOf
<1> QED
  BY ONLY <1>1, <1>3, <1>4, <1>6, <1>8, <1>9, ConcatProperties

LEMMA RankScoreIsInteger ==
  ASSUME NEW item \in EvidenceItem
  PROVE  RankScore(item) \in Int
<1>1. item.kind \in DOMAIN Preference
  BY ItemFields
<1>2. Preference[item.kind] \in Int
  BY <1>1 DEF Preference
<1> QED
  BY <1>2 DEF RankScore, Points

\* What ranks higher comes first.
Sorted(items) ==
  /\ items \in Seq(EvidenceItem)
  /\ \A j, k \in DOMAIN items : j <= k => RankScore(items[k]) <= RankScore(items[j])

LEMMA RankSorts ==
  ASSUME NEW items \in Seq(EvidenceItem)
  PROVE  Sorted(Rank(items))
<1>1. PICK n \in Nat : n = Len(items) /\ DOMAIN items = 1..n
  OBVIOUS
<1>2. PICK key : key = [k \in DOMAIN items |-> -RankScore(items[k])]
  OBVIOUS
<1>3. \A k \in 1..n : RankScore(items[k]) \in Int /\ key[k] = -RankScore(items[k])
  BY <1>1, <1>2, RankScoreIsInteger
<1>4. PICK ks : ks = DOMAIN items
  OBVIOUS
<1>5. key \in [ks -> Int] /\ ks \in SUBSET DOMAIN items
  <2>1. \A k \in 1..n : -RankScore(items[k]) \in Int
    BY <1>3
  <2> QED
    BY <1>1, <1>2, <1>4, <2>1
<1>6. PICK ranked : ranked = Ordered(items, ks, key)
  OBVIOUS
<1>7. ranked = Rank(items)
  BY <1>2, <1>4, <1>6 DEF Rank
<1>8. ks \in SUBSET Nat /\ IsFiniteSet(ks) /\ Cardinality(ks) = n
  <2>1. IsFiniteSet(1..n) /\ Cardinality(1..n) = n
    BY FS_Interval
  <2> QED
    BY <1>1, <1>4, <2>1
<1>9. ranked \in Seq(EvidenceItem) /\ Len(ranked) = n
      /\ \A p \in 1..n : ranked[p] = items[At(ks, key, p)]
  BY <1>5, <1>6, <1>8, OrderedElements
<1>10. \A p \in 1..n : At(ks, key, p) \in ks /\ Place(ks, key, At(ks, key, p)) = p
  BY <1>5, <1>8, AtPlace
<1>11. ASSUME NEW p \in 1..n, NEW q \in 1..n, p <= q
       PROVE  RankScore(ranked[q]) <= RankScore(ranked[p])
  <2>1. PICK j \in ks, k \in ks : j = At(ks, key, p) /\ k = At(ks, key, q)
                                  /\ Place(ks, key, j) = p /\ Place(ks, key, k) = q
    BY <1>10
  <2>2. key[k] < key[j] /\ j # k => q < p
    BY <1>5, <1>8, <2>1, PlacesInOrder
  <2>3. key[j] \in Int /\ key[k] \in Int
    BY <1>5
  <2>4. key[j] <= key[k]
    BY <1>11, <2>2, <2>3
  <2>5. ranked[p] = items[j] /\ ranked[q] = items[k]
    BY <1>9, <2>1
  <2>6. j \in 1..n /\ k \in 1..n
    BY <1>1, <1>4
  <2> QED
    BY <1>3, <2>4, <2>5, <2>6
<1>12. DOMAIN ranked = 1..n
  BY <1>9
<1> QED
  BY <1>7, <1>9, <1>11, <1>12 DEF Sorted

\* The prompt is ranked again, to no effect.
LEMMA RankStays ==
  ASSUME NEW items, Sorted(items)
  PROVE  Rank(items) = items
<1>1. PICK n \in Nat : n = Len(items) /\ DOMAIN items = 1..n /\ items \in Seq(EvidenceItem)
                       /\ \A k \in 1..n : items[k] \in EvidenceItem
  BY DEF Sorted
<1>2. PICK key : key = [k \in DOMAIN items |-> -RankScore(items[k])]
  OBVIOUS
<1>3. \A k \in 1..n : RankScore(items[k]) \in Int /\ key[k] = -RankScore(items[k])
  BY <1>1, <1>2, RankScoreIsInteger
<1>4. key \in [DOMAIN items -> Int]
  <2>1. \A k \in 1..n : -RankScore(items[k]) \in Int
    BY <1>3
  <2> QED
    BY <1>1, <1>2, <2>1
<1>5. \A j, k \in 1..n : j <= k => key[j] <= key[k]
  <2>1. ASSUME NEW j \in 1..n, NEW k \in 1..n, j <= k PROVE key[j] <= key[k]
    <3>1. RankScore(items[k]) <= RankScore(items[j])
      BY <1>1, <2>1 DEF Sorted
    <3> QED
      BY <1>3, <3>1
  <2> QED
    BY <2>1
<1>6. Ordered(items, DOMAIN items, key) = items
  BY <1>1, <1>4, <1>5, OrderedStays
<1> QED
  BY <1>2, <1>6 DEF Rank

-----------------------------------------------------------------------------
(* The prompt *)

LEMMA CutBounds ==
  ASSUME NEW length \in Nat, NEW limit \in Nat, NEW width \in Nat, width > 0
  PROVE  /\ Cut(length, limit, width) \in Nat
         /\ Cut(length, limit, width) <= length /\ Cut(length, limit, width) <= limit
         /\ length % width = 0 => Cut(length, limit, width) % width = 0
<1>1. PICK q \in Nat, r \in Nat : r = limit % width /\ q = limit \div width /\ limit = width * q + r
                                  /\ r <= limit
  <2>1. limit % width \in Nat /\ limit % width <= limit
    OBVIOUS
  <2>2. limit \div width \in Nat
    OBVIOUS
  <2>3. limit = width * (limit \div width) + (limit % width)
    OBVIOUS
  <2> QED
    BY <2>1, <2>2, <2>3
<1>2. limit - r = width * q
  BY <1>1
<1>3. (width * q) % width = 0
  OBVIOUS
<1>4. Cut(length, limit, width) = IF length > limit THEN limit - r ELSE length
  BY <1>1 DEF Cut
<1>5. PICK c : c = Cut(length, limit, width)
  OBVIOUS
<1>6. CASE length > limit
  <2>1. c = limit - r /\ c \in Nat /\ c <= limit /\ c <= length
    BY <1>1, <1>4, <1>5, <1>6
  <2>2. c % width = 0
    BY <1>2, <1>3, <2>1
  <2> QED
    BY <1>5, <2>1, <2>2
<1>7. CASE ~(length > limit)
  BY <1>4, <1>7
<1> QED
  BY <1>6, <1>7

LEMMA BodyBounds ==
  ASSUME NEW item \in EvidenceItem, NEW used \in 0..MaxBytes
  PROVE  /\ Body(item, used) \in Nat
         /\ Body(item, used) <= MaxBody /\ Body(item, used) <= MaxBytes - used
         /\ item.whole => Body(item, used) % item.width = 0
<1>1. MaxBody \in Nat /\ MaxBytes \in Nat /\ used \in Nat /\ MaxBytes - used \in Nat
  BY LimitAssumption
<1>2. item.length \in Nat /\ item.width \in Nat /\ item.width > 0
      /\ (item.whole => item.length % item.width = 0)
  BY ItemFields
<1>3. PICK first : first = Cut(item.length, MaxBody, item.width)
  OBVIOUS
<1>4. first \in Nat /\ first <= MaxBody
      /\ (item.length % item.width = 0 => first % item.width = 0)
  BY <1>1, <1>2, <1>3, CutBounds
<1>5. PICK body : body = Cut(first, MaxBytes - used, item.width)
  OBVIOUS
<1>6. body \in Nat /\ body <= first /\ body <= MaxBytes - used
      /\ (first % item.width = 0 => body % item.width = 0)
  BY <1>1, <1>2, <1>4, <1>5, CutBounds
<1>7. body = Body(item, used)
  BY <1>3, <1>5 DEF Body
<1> QED
  BY <1>1, <1>2, <1>4, <1>6, <1>7

\* The bytes that are used before and after each of the first n items.
Uses(items, n, used) ==
  /\ used \in [0..n -> 0..MaxBytes]
  /\ used[0] = 0
  /\ \A k \in 1..n : used[k] = used[k - 1] + Body(items[k], used[k - 1])

LEMMA UsesExist ==
  ASSUME NEW items \in Seq(EvidenceItem)
  PROVE  \E used : Uses(items, Len(items), used)
<1>1. PICK N \in Nat : N = Len(items) /\ \A k \in 1..N : items[k] \in EvidenceItem
  OBVIOUS
<1> DEFINE T == {n \in Nat : n <= N => \E used : Uses(items, n, used)}
<1>2. MaxBytes \in Nat
  BY LimitAssumption
<1>3. \E used : Uses(items, 0, used)
  <2> DEFINE s == [k \in 0..0 |-> 0]
  <2>1. s \in [0..0 -> 0..MaxBytes] /\ s[0] = 0
    BY <1>2
  <2>2. 1..0 = {}
    OBVIOUS
  <2> HIDE DEF s
  <2>3. Uses(items, 0, s)
    BY <2>1, <2>2 DEF Uses
  <2> QED
    BY <2>3
<1>4. ASSUME NEW n \in Nat, n + 1 <= N, NEW s, Uses(items, n, s)
      PROVE  \E used : Uses(items, n + 1, used)
  <2>1. s \in [0..n -> 0..MaxBytes] /\ s[0] = 0
        /\ \A k \in 1..n : s[k] = s[k - 1] + Body(items[k], s[k - 1])
    BY <1>4 DEF Uses
  <2>2. items[n + 1] \in EvidenceItem /\ s[n] \in 0..MaxBytes
    BY <1>1, <1>4, <2>1
  <2>3. PICK before \in 0..MaxBytes, body \in Nat :
          before = s[n] /\ body = Body(items[n + 1], s[n]) /\ body <= MaxBytes - before
    BY <2>2, BodyBounds
  <2>4. before + body \in 0..MaxBytes
    BY <1>2, <2>3
  <2> DEFINE t == [k \in 0..(n + 1) |-> IF k = n + 1 THEN before + body ELSE s[k]]
  <2>5. t \in [0..(n + 1) -> 0..MaxBytes]
    <3>1. \A k \in 0..(n + 1) : k # n + 1 => k \in 0..n
      OBVIOUS
    <3> QED
      BY <2>1, <2>4, <3>1
  <2>6. t[0] = 0
    BY <2>1
  <2>7. ASSUME NEW k \in 1..(n + 1) PROVE t[k] = t[k - 1] + Body(items[k], t[k - 1])
    <3>1. k - 1 \in 0..n /\ k - 1 # n + 1 /\ k \in 0..(n + 1) /\ k - 1 \in 0..(n + 1)
      OBVIOUS
    <3>2. t[k - 1] = s[k - 1]
      BY <3>1
    <3>3. CASE k = n + 1
      <4>1. k - 1 = n /\ t[k] = before + body
        BY <3>1, <3>3
      <4> QED
        BY <2>3, <3>2, <3>3, <4>1
    <3>4. CASE k # n + 1
      <4>1. k \in 1..n /\ t[k] = s[k]
        BY <3>1, <3>4
      <4> QED
        BY <2>1, <3>2, <4>1
    <3> QED
      BY <3>3, <3>4
  <2> HIDE DEF t
  <2>8. Uses(items, n + 1, t)
    BY <2>5, <2>6, <2>7 DEF Uses
  <2> QED
    BY <2>8
<1>5. \A n \in Nat : n \in T => n + 1 \in T
  BY <1>4
<1>6. 0 \in T
  BY <1>3
<1> HIDE DEF T
<1>7. N \in T
  BY <1>5, <1>6, Induction
<1> QED
  BY <1>1, <1>7 DEF T

\* Once the budget is used up it stays so.
LEMMA UsedUp ==
  ASSUME NEW items \in Seq(EvidenceItem), NEW used, Uses(items, Len(items), used),
         NEW m \in 0..Len(items), used[m] = MaxBytes, NEW k \in m..Len(items)
  PROVE  used[k] = MaxBytes
<1>1. PICK N \in Nat : N = Len(items) /\ \A j \in 1..N : items[j] \in EvidenceItem
  OBVIOUS
<1>2. m \in Nat /\ m <= N /\ k \in Nat /\ m <= k /\ k <= N /\ MaxBytes \in Nat
  BY <1>1, LimitAssumption
<1> DEFINE T == {n \in Nat : m + n <= N => used[m + n] = MaxBytes}
<1>3. ASSUME NEW n \in Nat, m + n + 1 <= N, used[m + n] = MaxBytes
      PROVE  used[m + n + 1] = MaxBytes
  <2>1. PICK i \in 1..N : i = m + n + 1 /\ i - 1 = m + n
    BY <1>2, <1>3
  <2>2. used[i] = used[i - 1] + Body(items[i], used[i - 1])
    BY <1>1, <2>1 DEF Uses
  <2>3. MaxBytes \in 0..MaxBytes /\ items[i] \in EvidenceItem
    BY <1>1, <1>2, <2>1
  <2>4. Body(items[i], MaxBytes) \in Nat /\ Body(items[i], MaxBytes) <= MaxBytes - MaxBytes
    BY <2>3, BodyBounds
  <2>5. Body(items[i], MaxBytes) = 0
    BY <1>2, <2>4
  <2> QED
    BY <1>2, <1>3, <2>1, <2>2, <2>5
<1>4. \A n \in Nat : n \in T => n + 1 \in T
  <2>1. ASSUME NEW n \in Nat, n \in T PROVE n + 1 \in T
    <3>1. m + (n + 1) = m + n + 1 /\ (m + n + 1 <= N => m + n <= N)
      BY <1>2
    <3> QED
      BY <1>3, <2>1, <3>1
  <2> QED
    BY <2>1
<1>5. 0 \in T
  BY <1>2
<1> HIDE DEF T
<1>6. k - m \in T
  BY <1>2, <1>4, <1>5, Induction
<1>7. m + (k - m) = k
  BY <1>2
<1> QED
  BY <1>2, <1>6, <1>7 DEF T

\* The prompt is the first m items, each cut to what is left of the budget.
PromptOf(items, prompt, m, used) ==
  /\ m \in Nat /\ m <= Len(items) /\ m <= MaxItems
  /\ Uses(items, Len(items), used)
  /\ prompt = [k \in 1..m |-> Shortened(items[k], used[k - 1])]
  /\ m < Len(items) => m = MaxItems \/ used[m] = MaxBytes

LEMMA PromptElements ==
  ASSUME NEW items, Sorted(items)
  PROVE  \E m, used : PromptOf(items, ForAnalysis(items), m, used)
<1>1. items \in Seq(EvidenceItem) /\ Rank(items) = items
  BY RankStays DEF Sorted
<1>2. PICK N \in Nat : N = Len(items) /\ DOMAIN items = 1..N
                       /\ \A k \in 1..N : items[k] \in EvidenceItem
  BY <1>1
<1>3. MaxBytes \in Nat /\ MaxItems \in Nat
  BY LimitAssumption
<1> DEFINE uses == CHOOSE f : f = [k \in 0..N |-> IF k = 0 THEN 0
                                                  ELSE f[k - 1] + Body(items[k], f[k - 1])]
<1>4. PICK exists : Uses(items, N, exists)
  BY <1>1, <1>2, UsesExist
<1>5. exists = [k \in 0..N |-> IF k = 0 THEN 0 ELSE exists[k - 1] + Body(items[k], exists[k - 1])]
  <2>1. exists = [k \in 0..N |-> exists[k]]
    BY <1>4 DEF Uses
  <2>2. ASSUME NEW k \in 0..N
        PROVE  exists[k] = IF k = 0 THEN 0 ELSE exists[k - 1] + Body(items[k], exists[k - 1])
    BY <1>4 DEF Uses
  <2> QED
    BY <2>1, <2>2
<1>6. uses = [k \in 0..N |-> IF k = 0 THEN 0 ELSE uses[k - 1] + Body(items[k], uses[k - 1])]
  BY <1>5
<1>7. PICK used : used = uses
  OBVIOUS
<1>8. ForAnalysis(items) =
        [k \in {k \in 1..N : k <= MaxItems /\ used[k - 1] < MaxBytes} |->
           Shortened(items[k], used[k - 1])]
  BY <1>1, <1>2, <1>7 DEF ForAnalysis
<1> HIDE DEF uses
<1>9. used = [k \in 0..N |-> IF k = 0 THEN 0 ELSE used[k - 1] + Body(items[k], used[k - 1])]
  BY <1>6, <1>7
<1>10. Uses(items, N, used)
  <2> DEFINE T == {n \in Nat : n <= N => used[n] \in 0..MaxBytes}
  <2>1. 0 \in T
    BY <1>3, <1>9
  <2>2. ASSUME NEW k \in 1..N PROVE used[k] = used[k - 1] + Body(items[k], used[k - 1])
    BY <1>9
  <2>3. ASSUME NEW n \in Nat, n + 1 <= N, used[n] \in 0..MaxBytes
        PROVE  used[n + 1] \in 0..MaxBytes
    <3>1. n + 1 \in 1..N /\ n + 1 - 1 = n
      BY <2>3
    <3>2. items[n + 1] \in EvidenceItem
      BY <1>2, <3>1
    <3>3. PICK before \in 0..MaxBytes, body \in Nat :
            before = used[n] /\ body = Body(items[n + 1], used[n]) /\ body <= MaxBytes - before
      BY <2>3, <3>2, BodyBounds
    <3>4. used[n + 1] = before + body
      BY <2>2, <3>1, <3>3
    <3> QED
      BY <1>3, <3>3, <3>4
  <2>4. \A n \in Nat : n \in T => n + 1 \in T
    BY <2>3
  <2> HIDE DEF T
  <2>5. \A n \in Nat : n \in T
    BY <2>1, <2>4, Induction
  <2>6. \A n \in 0..N : used[n] \in 0..MaxBytes
    BY <2>5 DEF T
  <2>7. used \in [0..N -> 0..MaxBytes] /\ used[0] = 0
    <3>1. DOMAIN used = 0..N /\ used = [k \in DOMAIN used |-> used[k]]
      BY <1>9
    <3> QED
      BY <1>9, <2>6, <3>1
  <2> QED
    BY <2>2, <2>7 DEF Uses
<1> DEFINE T == {k \in 0..N : k = N \/ k = MaxItems \/ used[k] = MaxBytes}
<1>11. PICK m \in T : \A k \in T : m <= k
  <2>1. T \in SUBSET Nat /\ N \in T
    OBVIOUS
  <2> HIDE DEF T
  <2> QED
    BY <2>1, LeastNumber
<1>12. m \in Nat /\ m <= N /\ m <= MaxItems /\ (m < N => m = MaxItems \/ used[m] = MaxBytes)
  BY <1>3, <1>11
<1>13. ASSUME NEW k \in 1..N PROVE k <= MaxItems /\ used[k - 1] < MaxBytes <=> k \in 1..m
  <2>1. used[k - 1] \in 0..MaxBytes /\ k - 1 \in 0..N
    BY <1>10 DEF Uses
  <2>2. CASE k <= m
    <3>1. k - 1 \notin T
      BY <1>11, <1>12, <2>2
    <3> QED
      BY <1>3, <1>12, <2>1, <2>2, <3>1
  <2>3. CASE ~(k <= m)
    <3>1. m < N /\ k - 1 \in m..N
      BY <1>12, <2>3
    <3>2. used[m] = MaxBytes => used[k - 1] = MaxBytes
      BY <1>1, <1>2, <1>10, <1>12, <3>1, UsedUp
    <3> QED
      BY <1>3, <1>12, <2>1, <2>3, <3>1, <3>2
  <2> QED
    BY <2>2, <2>3
<1> HIDE DEF T
<1>14. {k \in 1..N : k <= MaxItems /\ used[k - 1] < MaxBytes} = 1..m
  <2>1. \A k \in 1..m : k \in 1..N
    BY <1>12
  <2> QED
    BY <1>13, <2>1
<1>15. ForAnalysis(items) = [k \in 1..m |-> Shortened(items[k], used[k - 1])]
  BY <1>8, <1>14
<1>16. PromptOf(items, ForAnalysis(items), m, used)
  BY <1>2, <1>10, <1>12, <1>15 DEF PromptOf
<1> QED
  BY <1>16


LEMMA ShortenedItem ==
  ASSUME NEW item \in EvidenceItem, NEW used \in 0..MaxBytes
  PROVE  /\ Shortened(item, used) \in EvidenceItem
         /\ Shortened(item, used).id = item.id
         /\ Shortened(item, used).length = Body(item, used)
         /\ Shortened(item, used).width = item.width
<1>1. PICK n \in Nat : n = Body(item, used) /\ (item.whole => n % item.width = 0)
  BY BodyBounds
<1>2. PICK phrases \in SUBSET String : phrases = IF n = 0 THEN {} ELSE item.phrases
  <2>1. item.phrases \in SUBSET String
    BY ItemFields
  <2> QED
    BY <2>1
<1>3. Shortened(item, used) = [item EXCEPT !.length = n, !.phrases = phrases]
  BY <1>1, <1>2 DEF Shortened
<1>4. item = [id |-> item.id, kind |-> item.kind, maintainer |-> item.maintainer,
              recent |-> item.recent, phrases |-> item.phrases, length |-> item.length,
              width |-> item.width, whole |-> item.whole]
  BY ItemFields
<1>5. Shortened(item, used) = [id |-> item.id, kind |-> item.kind, maintainer |-> item.maintainer,
                               recent |-> item.recent, phrases |-> phrases, length |-> n,
                               width |-> item.width, whole |-> item.whole]
  BY ONLY <1>3, <1>4
<1>6. Shortened(item, used) \in EvidenceItem
  BY <1>1, <1>5, ItemFields, MakesItem
<1>7. /\ Shortened(item, used).id = item.id
      /\ Shortened(item, used).length = n
      /\ Shortened(item, used).width = item.width
  BY ONLY <1>5
<1> QED
  BY <1>1, <1>6, <1>7

\* The items of a prompt.
LEMMA PromptItems ==
  ASSUME NEW items \in Seq(EvidenceItem), NEW prompt, NEW m, NEW used,
         PromptOf(items, prompt, m, used)
  PROVE  /\ prompt \in Seq(EvidenceItem) /\ Len(prompt) = m
         /\ \A k \in 1..m : /\ k \in 1..Len(items) /\ used[k - 1] \in 0..MaxBytes
                            /\ prompt[k].id = items[k].id
                            /\ prompt[k].length = Body(items[k], used[k - 1])
                            /\ prompt[k].width = items[k].width
<1>1. PICK N \in Nat : N = Len(items) /\ \A k \in 1..N : items[k] \in EvidenceItem
  OBVIOUS
<1>2. m \in Nat /\ m <= N
  BY <1>1 DEF PromptOf
<1>3. ASSUME NEW k \in 1..m
      PROVE  k \in 1..N /\ used[k - 1] \in 0..MaxBytes /\ items[k] \in EvidenceItem
  <2>1. k \in 1..N /\ k - 1 \in 0..N
    BY <1>2
  <2>2. used \in [0..N -> 0..MaxBytes]
    BY <1>1 DEF PromptOf, Uses
  <2> QED
    BY <1>1, <2>1, <2>2
<1>4. prompt = [k \in 1..m |-> Shortened(items[k], used[k - 1])]
  BY DEF PromptOf
<1>5. \A k \in 1..m : Shortened(items[k], used[k - 1]) \in EvidenceItem
  BY <1>3, ShortenedItem
<1>6. prompt \in Seq(EvidenceItem) /\ Len(prompt) = m
  BY ONLY <1>2, <1>4, <1>5
<1>7. \A k \in 1..m : prompt[k] = Shortened(items[k], used[k - 1])
  BY <1>4
<1>8. \A k \in 1..m : /\ prompt[k].id = items[k].id
                      /\ prompt[k].length = Body(items[k], used[k - 1])
                      /\ prompt[k].width = items[k].width
  BY <1>3, <1>7, ShortenedItem
<1> QED
  BY <1>1, <1>3, <1>6, <1>8

\* The lengths of a prompt add up to what is used of the budget.
LEMMA PromptBytes ==
  ASSUME NEW items \in Seq(EvidenceItem), NEW prompt, NEW m, NEW used,
         PromptOf(items, prompt, m, used)
  PROVE  /\ SumOf([k \in DOMAIN prompt |-> prompt[k].length]) = used[m]
         /\ used[m] \in Nat /\ used[m] <= MaxBytes
<1>1. PICK N \in Nat : N = Len(items) /\ \A k \in 1..N : items[k] \in EvidenceItem
  OBVIOUS
<1>2. m \in Nat /\ m <= N /\ used \in [0..N -> 0..MaxBytes] /\ used[0] = 0
      /\ \A k \in 1..N : used[k] = used[k - 1] + Body(items[k], used[k - 1])
  BY <1>1 DEF PromptOf, Uses
<1>3. DOMAIN prompt = 1..m
  BY PromptItems
<1>4. \A k \in 1..m : k \in 1..N /\ items[k] \in EvidenceItem /\ used[k - 1] \in 0..MaxBytes
                      /\ prompt[k].length = Body(items[k], used[k - 1])
  BY <1>1, PromptItems
<1>5. \A k \in 1..m : prompt[k].length \in Nat
  BY <1>4, BodyBounds
<1>6. PICK numbers : numbers = [k \in DOMAIN prompt |-> prompt[k].length]
  OBVIOUS
<1>7. numbers = [k \in 1..m |-> prompt[k].length]
  BY <1>3, <1>6
<1>8. \A k \in 1..m : numbers[k] = Body(items[k], used[k - 1])
  BY <1>4, <1>7
<1>9. \A k \in 1..m : prompt[k].length \in Int
  BY <1>5
<1>10. numbers \in Seq(Int) /\ Len(numbers) = m
  <2>1. numbers \in [1..m -> Int]
    BY ONLY <1>7, <1>9, Zenon
  <2> QED
    BY ONLY <1>2, <2>1
<1> DEFINE sums == [k \in 0..m |-> used[k]]
<1>11. \A k \in 0..m : used[k] \in Int /\ used[k] \in 0..MaxBytes
  BY <1>2
<1>12. Sums(numbers, sums)
  <2>1. sums \in [0..m -> Int] /\ sums[0] = 0
    BY <1>2, <1>11
  <2>2. ASSUME NEW k \in 1..m PROVE sums[k] = sums[k - 1] + numbers[k]
    <3>1. k \in 0..m /\ k - 1 \in 0..m /\ k \in 1..N
      BY <1>2
    <3>2. sums[k] = used[k] /\ sums[k - 1] = used[k - 1]
      BY <3>1
    <3> QED
      BY <1>2, <1>8, <3>1, <3>2
  <2> HIDE DEF sums
  <2> QED
    BY <1>10, <2>1, <2>2 DEF Sums
<1>13. SumOf(numbers) = sums[m]
  BY <1>10, <1>12, SumOfIs
<1>14. sums[m] = used[m] /\ used[m] \in 0..MaxBytes
  BY <1>2, <1>11
<1>15. MaxBytes \in Nat
  BY LimitAssumption
<1> QED
  BY <1>6, <1>13, <1>14, <1>15

\* What PromptWithinBudget says of the evidence.
Budgeted(items) ==
  LET prompt == ForAnalysis(items)
      bytes  == SumOf([k \in DOMAIN prompt |-> prompt[k].length]) IN
  /\ Len(prompt) <= MaxItems /\ bytes <= MaxBytes
  /\ \A k \in DOMAIN prompt :
       /\ prompt[k].id = items[k].id /\ prompt[k].length <= MaxBody
       /\ items[k].whole => prompt[k].length % prompt[k].width = 0
       /\ \A j \in (Len(prompt) + 1)..Len(items) : RankScore(items[j]) <= RankScore(items[k])
  /\ Len(prompt) < Len(items) => Len(prompt) = MaxItems \/ bytes = MaxBytes

LEMMA PromptBudgeted ==
  ASSUME NEW items, Sorted(items)
  PROVE  Budgeted(items)
<1>1. PICK m, used : PromptOf(items, ForAnalysis(items), m, used)
  BY PromptElements
<1>2. PICK prompt : prompt = ForAnalysis(items)
  OBVIOUS
<1>3. items \in Seq(EvidenceItem) /\ PromptOf(items, prompt, m, used)
  BY <1>1, <1>2 DEF Sorted
<1>4. PICK N \in Nat : N = Len(items) /\ DOMAIN items = 1..N
                       /\ \A k \in 1..N : items[k] \in EvidenceItem
  BY <1>3
<1>5. m \in Nat /\ m <= N /\ m <= MaxItems /\ (m < N => m = MaxItems \/ used[m] = MaxBytes)
  BY <1>3, <1>4 DEF PromptOf
<1>6. Len(prompt) = m /\ DOMAIN prompt = 1..m
  BY <1>3, PromptItems
<1>7. \A k \in 1..m : k \in 1..N /\ used[k - 1] \in 0..MaxBytes
                      /\ prompt[k].id = items[k].id
                      /\ prompt[k].length = Body(items[k], used[k - 1])
                      /\ prompt[k].width = items[k].width
  BY <1>3, <1>4, PromptItems
<1>8. PICK bytes : bytes = SumOf([k \in DOMAIN prompt |-> prompt[k].length])
  OBVIOUS
<1>9. bytes = used[m] /\ bytes <= MaxBytes
  BY <1>3, <1>8, PromptBytes
<1>10. ASSUME NEW k \in 1..m
       PROVE  /\ prompt[k].id = items[k].id /\ prompt[k].length <= MaxBody
              /\ items[k].whole => prompt[k].length % prompt[k].width = 0
              /\ \A j \in (m + 1)..N : RankScore(items[j]) <= RankScore(items[k])
  <2>1. items[k] \in EvidenceItem /\ used[k - 1] \in 0..MaxBytes
    BY <1>4, <1>7
  <2>2. prompt[k].length <= MaxBody
        /\ (items[k].whole => prompt[k].length % prompt[k].width = 0)
    BY <1>7, <2>1, BodyBounds
  <2>3. ASSUME NEW j \in (m + 1)..N PROVE RankScore(items[j]) <= RankScore(items[k])
    <3>1. j \in DOMAIN items /\ k \in DOMAIN items /\ k <= j
      BY <1>4, <1>5
    <3> QED
      BY <3>1 DEF Sorted
  <2> QED
    BY <1>7, <2>2, <2>3
<1>11. \A k \in DOMAIN prompt :
         /\ prompt[k].id = items[k].id /\ prompt[k].length <= MaxBody
         /\ items[k].whole => prompt[k].length % prompt[k].width = 0
         /\ \A j \in (Len(prompt) + 1)..Len(items) : RankScore(items[j]) <= RankScore(items[k])
  BY ONLY <1>4, <1>6, <1>10, Zenon
<1>12. Len(prompt) <= MaxItems /\ bytes <= MaxBytes
       /\ (Len(prompt) < Len(items) => Len(prompt) = MaxItems \/ bytes = MaxBytes)
  BY ONLY <1>4, <1>5, <1>6, <1>9
<1> QED
  BY ONLY <1>2, <1>8, <1>11, <1>12, Zenon DEF Budgeted


-----------------------------------------------------------------------------
(* The rules *)

\* Claims that say something.
Telling == {claim \in Confident : claim.text \notin {"empty", "blank"}}

LEMMA TellingClaim ==
  ASSUME NEW text \in {"words", "broken"}, NEW ids \in Seq(String)
  PROVE  Claim(text, ids) \in Telling
<1>1. Claim(text, ids) = [text |-> text, ids |-> ids, confidence |-> 0]
  BY DEF Claim
<1>2. text \in Texts /\ text \notin {"empty", "blank"}
  BY DEF Texts
<1>3. Claim(text, ids) \in ClaimRecord
  BY <1>1, <1>2 DEF ClaimRecord
<1>4. Claim(text, ids).text = text /\ Claim(text, ids).confidence = 0
  BY ONLY <1>1
<1>5. 0 \in 0..100
  OBVIOUS
<1>6. Claim(text, ids) \in Confident
  BY ONLY <1>3, <1>4, <1>5 DEF Confident
<1> QED
  BY <1>2, <1>4, <1>6 DEF Telling

LEMMA SpottedTyped ==
  ASSUME NEW prompt \in Seq(EvidenceItem)
  PROVE  Spotted(prompt) \in Seq(String)
<1> DEFINE by(t) == {k \in DOMAIN prompt : Tests[t] \in OutcomesOf(prompt[k])}
<1>1. PICK spotted : spotted = {t \in DOMAIN Tests : by(t) # {}}
  OBVIOUS
<1>2. PICK key : key = [t \in spotted |-> Min(by(t))]
  OBVIOUS
<1>3. Spotted(prompt) = Ordered(Tests, spotted, key)
  BY <1>1, <1>2 DEF Spotted
<1>4. Tests \in Seq(String) /\ spotted \in SUBSET DOMAIN Tests
  <2>1. {"superseded", "duplicate", "performance_concern", "regression_risk", "missing_tests"}
          \subseteq String
    BY Zenon DEF String, Allowed
  <2> QED
    BY <1>1, <2>1 DEF Tests
<1>5. key \in [spotted -> Int]
  <2>1. ASSUME NEW t \in spotted PROVE Min(by(t)) \in Int
    <3>1. by(t) # {} /\ by(t) \in SUBSET Nat
      BY <1>1
    <3> HIDE DEF by
    <3>2. \E m \in by(t) : \A k \in by(t) : m <= k
      BY <3>1, LeastNumber
    <3>3. Min(by(t)) \in by(t)
      BY <3>2 DEF Min
    <3> QED
      BY <3>1, <3>3
  <2> HIDE DEF by
  <2> QED
    BY <1>2, <2>1
<1> QED
  BY <1>3, <1>4, <1>5, OrderedElements

\* One claim of each item of a list.
LEMMA ClaimsOfItems ==
  ASSUME NEW items \in Seq(EvidenceItem)
  PROVE  /\ [k \in DOMAIN items |-> Words(<<items[k].id>>)] \in Seq(Telling)
         /\ [k \in DOMAIN items |-> Finding(items[k])] \in Seq(Telling)
         /\ [k \in DOMAIN items |-> items[k].id] \in Seq(String)
<1>1. PICK n \in Nat : n = Len(items) /\ DOMAIN items = 1..n
                       /\ \A k \in 1..n : items[k] \in EvidenceItem
  OBVIOUS
<1>2. \A k \in 1..n : items[k].id \in String
  BY <1>1, ItemFields
<1>3. \A k \in 1..n : <<items[k].id>> \in Seq(String)
  BY <1>2
<1>4. \A k \in 1..n : Words(<<items[k].id>>) \in Telling
  BY <1>3, TellingClaim DEF Words
<1>5. \A k \in 1..n : Finding(items[k]) \in Telling
  <2>1. ASSUME NEW k \in 1..n PROVE Finding(items[k]) \in Telling
    <3>1. PICK text \in {"words", "broken"} :
            text = IF Clipped(items[k], MaxFinding).whole THEN "words" ELSE "broken"
      OBVIOUS
    <3>2. Claim(text, <<items[k].id>>) \in Telling
      BY <1>3, TellingClaim
    <3> QED
      BY <3>1, <3>2 DEF Finding
  <2> QED
    BY <2>1
<1>6. PICK words, findings, ids :
        /\ words    = [k \in 1..n |-> Words(<<items[k].id>>)]
        /\ findings = [k \in 1..n |-> Finding(items[k])]
        /\ ids      = [k \in 1..n |-> items[k].id]
  OBVIOUS
<1>7. words \in [1..n -> Telling] /\ findings \in [1..n -> Telling] /\ ids \in [1..n -> String]
  BY ONLY <1>2, <1>4, <1>5, <1>6, Zenon
<1>8. words \in Seq(Telling) /\ findings \in Seq(Telling) /\ ids \in Seq(String)
  BY ONLY <1>7, n \in Nat
<1> QED
  BY <1>1, <1>6, <1>8

LEMMA RulesAnswer ==
  ASSUME NEW items, Sorted(items), NEW names \in Seq(String)
  PROVE  /\ LocalAnalyzer(items, names) \in AnalysisResult
         /\ LocalAnalyzer(items, names).claims \in [Categories -> Seq(Telling)]
         /\ LocalAnalyzer(items, names).outcomes # <<>>
<1>1. PICK m, used : PromptOf(items, ForAnalysis(items), m, used)
  BY PromptElements
<1>2. PICK prompt : prompt = ForAnalysis(items)
  OBVIOUS
<1>3. prompt \in Seq(EvidenceItem)
  BY <1>1, <1>2, PromptItems DEF Sorted
<1>4. PICK approach : approach = IF PRBody \notin Known(prompt) /\ prompt # <<>>
                                 THEN prompt[1].id ELSE PRBody
  OBVIOUS
<1>5. approach \in String
  <2>1. PRBody \in String
    BY DEF String
  <2>2. prompt # <<>> => prompt[1] \in EvidenceItem
    BY <1>3
  <2> QED
    BY <1>4, <2>1, <2>2, ItemFields
<1>6. PICK reasons : reasons = Kept(prompt, {k \in DOMAIN prompt : isDecisionEvidence(prompt[k])
                                                                    /\ matchedReason(prompt[k])})
  OBVIOUS
<1>7. reasons \in Seq(EvidenceItem)
  <2>1. {k \in DOMAIN prompt : isDecisionEvidence(prompt[k]) /\ matchedReason(prompt[k])}
          \in SUBSET DOMAIN prompt
    OBVIOUS
  <2> QED
    BY <1>3, <1>6, <2>1, KeptElements
<1>8. PICK first : first = Upto(prompt, 3)
  OBVIOUS
<1>9. first \in Seq(EvidenceItem)
  BY <1>3, <1>8, UptoElements
<1>10. PICK concerns, findings, ids :
         /\ concerns = [k \in DOMAIN reasons |-> Words(<<reasons[k].id>>)]
         /\ findings = [k \in DOMAIN reasons |-> Finding(reasons[k])]
         /\ ids      = [k \in DOMAIN first |-> first[k].id]
  OBVIOUS
<1>11. concerns \in Seq(Telling) /\ findings \in Seq(Telling) /\ ids \in Seq(String)
  BY <1>7, <1>9, <1>10, ClaimsOfItems
<1>12. PICK attempted, unresolved :
         /\ attempted  = <<Words(<<approach>>)>>
         /\ unresolved = IF concerns = <<>> THEN <<Words(ids)>> ELSE <<>>
  OBVIOUS
<1>13. attempted \in Seq(Telling) /\ unresolved \in Seq(Telling)
  <2>1. <<approach>> \in Seq(String) /\ ids \in Seq(String)
    BY <1>5, <1>11
  <2>2. \A cited \in Seq(String) : Words(cited) \in Telling
    BY TellingClaim DEF Words
  <2>3. PICK told \in Telling, asked \in Telling : told = Words(<<approach>>) /\ asked = Words(ids)
    BY <2>1, <2>2
  <2> QED
    BY <1>12, <2>3
<1>14. PICK outcomes : outcomes = IF Spotted(prompt) = <<>> THEN <<"unknown">> ELSE Spotted(prompt)
  OBVIOUS
<1>15. outcomes \in Seq(String)
  <2>1. "unknown" \in String
    BY Zenon DEF String, Allowed
  <2>2. <<"unknown">> \in Seq(String) /\ Spotted(prompt) \in Seq(String)
    BY <1>3, <2>1, SpottedTyped
  <2> QED
    BY <1>14, <2>2
<1>16. PICK areas : areas = Upto(names, MaxAreas)
  OBVIOUS
<1>17. areas \in Seq(String)
  <2>1. MaxAreas \in Nat
    BY LimitAssumption
  <2> QED
    BY <1>16, <2>1, UptoElements
<1>18. PICK claims : claims = [NoClaims EXCEPT !["attempted_approach"] = attempted,
                                               !["valuable_findings"]  = findings,
                                               !["rejected_or_questioned_approaches"] = concerns,
                                               !["unresolved_questions"] = unresolved]
  OBVIOUS
<1>19. LocalAnalyzer(items, names) = [summary  |-> "words",  claims |-> claims,
                                      outcomes |-> outcomes, areas  |-> areas]
  BY <1>2, <1>4, <1>6, <1>8, <1>10, <1>12, <1>14, <1>16, <1>18 DEF LocalAnalyzer
<1>20. claims \in [Categories -> Seq(Telling)]
  <2>1. NoClaims \in [Categories -> Seq(Telling)]
    BY DEF NoClaims
  <2> QED
    BY ONLY <1>11, <1>13, <1>18, <2>1 DEF Categories
<1>21. claims \in [Categories -> Seq(ClaimRecord)]
  <2>1. Telling \subseteq ClaimRecord
    BY DEF Telling, Confident
  <2>2. \A seq \in Seq(Telling) : seq \in Seq(ClaimRecord)
    BY ONLY <2>1
  <2> QED
    BY ONLY <1>20, <2>2
<1>22. LocalAnalyzer(items, names) \in AnalysisResult
  BY <1>15, <1>17, <1>19, <1>21 DEF AnalysisResult, Texts
<1>23. LocalAnalyzer(items, names).claims = claims /\ LocalAnalyzer(items, names).outcomes = outcomes
  BY ONLY <1>19
<1>24. outcomes # <<>>
  BY <1>14
<1> QED
  BY <1>20, <1>22, <1>23, <1>24


-----------------------------------------------------------------------------
(* The invariant *)

\* What the analyzer hands over, of what it said: the rules as it is, a
\* language model sifted once.
Handed(said, handed, items) ==
  /\ said \in AnalysisResult
  /\ handed.summary = said.summary
  /\ handed.areas = said.areas
  /\ handed.outcomes = IF said.outcomes = <<>> THEN <<"unknown">> ELSE said.outcomes
  /\ \A c \in Categories : handed.claims[c] \in Seq(Confident)
  /\ \/ handed.claims = said.claims /\ \A c \in Categories : said.claims[c] \in Seq(Telling)
     \/ handed.claims = verifyClaims(said.claims, items)

\* What is left of it after the gate.
Gate(said, kept, items, names) ==
  /\ said \in AnalysisResult
  /\ kept.summary = said.summary
  /\ \A c \in Categories : /\ kept.claims[c] \in Seq(Confident)
                           /\ Linked(kept.claims[c], items)
                           /\ Sifts(said.claims[c], kept.claims[c], items)
  /\ Distinct(kept.outcomes) /\ ToSet(kept.outcomes) = AllowedOf(said.outcomes)
  /\ FilesOnly(kept.areas, said.areas, names) /\ ToSet(kept.areas) \subseteq ToSet(names)

VInv ==
  /\ snapshot \in Inputs
  /\ phase \in {"fetched", "ranked", "analyzed", "verified", "saved", "failed"}
  /\ evidence = IF phase = "fetched" THEN <<>> ELSE Rank(EvidenceOf(snapshot))
  /\ overall \in 0..100
  /\ saved.evidence \in {{}, Known(evidence)}
  /\ phase \in {"fetched", "ranked"} => answer = NoResult /\ result = NoResult
  /\ phase \in {"fetched", "ranked", "analyzed", "verified"} => saved = NoRows
  /\ phase = "analyzed" => Handed(answer, result, evidence)
  /\ IsVerified => Gate(answer, result, evidence, Names(snapshot.files))
  /\ phase \in {"saved", "failed"} => (phase = "failed" <=> ~TablesTake)

\* A share, and what the gate knows of a sequence of claims.
LEMMA LinkedConfident ==
  ASSUME NEW claims \in Seq(ClaimRecord), NEW items, Linked(claims, items)
  PROVE  claims \in Seq(Confident)
<1>1. PICK n \in Nat : n = Len(claims) /\ DOMAIN claims = 1..n /\ \A k \in 1..n : claims[k] \in ClaimRecord
  OBVIOUS
<1>2. \A k \in 1..n : claims[k] \in Confident
  BY <1>1 DEF Linked, Confident
<1>3. claims = [k \in 1..n |-> claims[k]]
  BY <1>1
<1>4. claims \in [1..n -> Confident]
  BY ONLY <1>2, <1>3
<1> QED
  BY ONLY <1>4, n \in Nat

LEMMA ConfidentClaims ==
  ASSUME NEW claims \in Seq(Confident)
  PROVE  claims \in Seq(ClaimRecord) /\ \A k \in DOMAIN claims : claims[k].confidence \in 0..100
<1>1. Confident \subseteq ClaimRecord
  BY DEF Confident
<1>2. claims \in Seq(ClaimRecord)
  BY ONLY <1>1, claims \in Seq(Confident)
<1>3. \A k \in DOMAIN claims : claims[k] \in Confident
  OBVIOUS
<1> QED
  BY <1>2, <1>3 DEF Confident

LEMMA FilteredTyped ==
  ASSUME NEW claims \in Seq(ClaimRecord), NEW items, NEW unsaid
  PROVE  Filtered(claims, items, unsaid) \in Seq(Confident)
<1>1. Filtered(claims, items, unsaid) \in Seq(ClaimRecord)
  BY FilteredClaims DEF Gated
<1>2. Linked(Filtered(claims, items, unsaid), items)
  BY FilteredLinked
<1> QED
  BY <1>1, <1>2, LinkedConfident

\* An answer of the rules is handed over as it is.
LEMMA RulesHanded ==
  ASSUME NEW items, Sorted(items), NEW names \in Seq(String)
  PROVE  Handed(LocalAnalyzer(items, names), LocalAnalyzer(items, names), items)
<1>1. PICK said : said = LocalAnalyzer(items, names)
  OBVIOUS
<1>2. said \in AnalysisResult /\ said.claims \in [Categories -> Seq(Telling)] /\ said.outcomes # <<>>
  BY <1>1, RulesAnswer
<1>3. \A c \in Categories : said.claims[c] \in Seq(Telling)
  BY <1>2
<1>4. \A seq \in Seq(Telling) : seq \in Seq(Confident)
  <2>1. Telling \subseteq Confident
    BY DEF Telling
  <2> QED
    BY ONLY <2>1
<1> QED
  BY <1>1, <1>2, <1>3, <1>4 DEF Handed

\* An answer of a language model is sifted.
LEMMA ModelHanded ==
  ASSUME NEW said \in AnalysisResult, NEW items
  PROVE  Handed(said, [said EXCEPT !.claims   = verifyClaims(@, items),
                                   !.outcomes = IF @ = <<>> THEN <<"unknown">> ELSE @], items)
<1>1. said = [summary  |-> said.summary,  claims |-> said.claims,
              outcomes |-> said.outcomes, areas  |-> said.areas]
      /\ said.claims \in [Categories -> Seq(ClaimRecord)]
  BY DEF AnalysisResult
<1>2. PICK claims, outcomes :
        claims = verifyClaims(said.claims, items)
        /\ outcomes = IF said.outcomes = <<>> THEN <<"unknown">> ELSE said.outcomes
  OBVIOUS
<1>3. PICK handed : handed = [said EXCEPT !.claims   = verifyClaims(@, items),
                                          !.outcomes = IF @ = <<>> THEN <<"unknown">> ELSE @]
  OBVIOUS
<1>4. handed = [said EXCEPT !.claims = claims, !.outcomes = outcomes]
  BY <1>2, <1>3
<1>5. handed = [summary |-> said.summary, claims |-> claims, outcomes |-> outcomes, areas |-> said.areas]
  BY ONLY <1>1, <1>4
<1>6. handed.summary = said.summary /\ handed.claims = claims /\ handed.outcomes = outcomes /\ handed.areas = said.areas
  BY ONLY <1>5
<1>7. ASSUME NEW c \in Categories PROVE claims[c] \in Seq(Confident)
  <2>1. said.claims[c] \in Seq(ClaimRecord)
    BY <1>1
  <2>2. claims[c] = Filtered(said.claims[c], items, {"empty", "blank"})
    BY <1>2 DEF verifyClaims
  <2> QED
    BY <2>1, <2>2, FilteredTyped
<1>8. Handed(said, handed, items)
  BY <1>2, <1>6, <1>7 DEF Handed
<1> QED
  BY <1>3, <1>8

\* The gate of VerifyResult, on the claims of one category.
LEMMA GatedCategory ==
  ASSUME NEW said \in Seq(ClaimRecord), NEW handed \in Seq(Confident), NEW items,
         \/ handed = said /\ said \in Seq(Telling)
         \/ handed = Filtered(said, items, {"empty", "blank"})
  PROVE  /\ Filtered(handed, items, {"empty"}) \in Seq(Confident)
         /\ Linked(Filtered(handed, items, {"empty"}), items)
         /\ Sifts(said, Filtered(handed, items, {"empty"}), items)
<1>1. handed \in Seq(ClaimRecord)
  BY ConfidentClaims
<1>2. Filtered(handed, items, {"empty"}) \in Seq(Confident)
      /\ Linked(Filtered(handed, items, {"empty"}), items)
  BY <1>1, FilteredTyped, FilteredLinked
<1>3. CASE handed = said /\ said \in Seq(Telling)
  <2>1. \A k \in DOMAIN said : said[k].text \notin {"empty", "blank"}
    <3>1. \A k \in DOMAIN said : said[k] \in Telling
      BY <1>3
    <3> QED
      BY <3>1 DEF Telling
  <2>2. Founded(said, items, {"empty"}) = Founded(said, items, {"empty", "blank"})
    BY <2>1 DEF Founded
  <2>3. Sifts(said, Filtered(said, items, {"empty"}), items)
    BY <2>2, FilteredSifts
  <2> QED
    BY <1>2, <1>3, <2>3
<1>4. CASE handed = Filtered(said, items, {"empty", "blank"})
  <2>1. Sifts(said, Filtered(handed, items, {"empty"}), items)
    BY <1>4, FilteredTwice
  <2> QED
    BY <1>2, <2>1
<1> QED
  BY <1>3, <1>4

\* What is verified of what was handed over.
VerifiedOf(handed, items, names) ==
  [summary  |-> handed.summary,
   claims   |-> VerifyResult(handed.claims, items),
   outcomes |-> VerifiedOutcomes(handed.outcomes),
   areas    |-> verifiedAreas(handed.areas, names)]

LEMMA GateHolds ==
  ASSUME NEW said, NEW handed, NEW items, NEW names \in Seq(String), Handed(said, handed, items)
  PROVE  /\ Gate(said, VerifiedOf(handed, items, names), items, names)
         /\ aggregateConfidence(VerifyResult(handed.claims, items)) \in 0..100
<1>1. said \in AnalysisResult
  BY DEF Handed
<1>2. /\ \A c \in Categories : said.claims[c] \in Seq(ClaimRecord)
      /\ said.outcomes \in Seq(String) /\ said.areas \in Seq(String)
  BY <1>1 DEF AnalysisResult
<1>3. PICK kept : kept = VerifiedOf(handed, items, names)
  OBVIOUS
<1>4. /\ kept.summary = handed.summary
      /\ kept.claims = VerifyResult(handed.claims, items)
      /\ kept.outcomes = VerifiedOutcomes(handed.outcomes)
      /\ kept.areas = verifiedAreas(handed.areas, names)
  BY <1>3 DEF VerifiedOf
<1>5. ASSUME NEW c \in Categories
      PROVE  /\ kept.claims[c] \in Seq(Confident)
             /\ Linked(kept.claims[c], items)
             /\ Sifts(said.claims[c], kept.claims[c], items)
  <2>1. said.claims[c] \in Seq(ClaimRecord) /\ handed.claims[c] \in Seq(Confident)
    BY <1>2 DEF Handed
  <2>2. \/ handed.claims[c] = said.claims[c] /\ said.claims[c] \in Seq(Telling)
        \/ handed.claims[c] = Filtered(said.claims[c], items, {"empty", "blank"})
    BY DEF Handed, verifyClaims
  <2>3. kept.claims[c] = Filtered(handed.claims[c], items, {"empty"})
    BY <1>4 DEF VerifyResult
  <2> QED
    BY <2>1, <2>2, <2>3, GatedCategory
<1>6. Distinct(kept.outcomes) /\ ToSet(kept.outcomes) = AllowedOf(said.outcomes)
  <2>1. handed.outcomes = IF said.outcomes = <<>> THEN <<"unknown">> ELSE said.outcomes
    BY DEF Handed
  <2>2. CASE said.outcomes # <<>>
    BY <1>2, <1>4, <2>1, <2>2, OutcomesVerified
  <2>3. CASE said.outcomes = <<>>
    <3>1. handed.outcomes \in Seq({"unknown"}) /\ handed.outcomes = <<"unknown">>
      BY <2>1, <2>3
    <3>2. Distinct(kept.outcomes) /\ ToSet(kept.outcomes) = AllowedOf(<<"unknown">>)
      BY <1>4, <3>1, OutcomesVerified
    <3>3. ToSet(<<"unknown">>) = {"unknown"}
      BY SingleValue
    <3>4. AllowedOf(<<"unknown">>) = {"unknown"}
      BY <3>3 DEF AllowedOf, Allowed
    <3>5. AllowedOf(said.outcomes) = {"unknown"}
      BY <1>2, <2>3, EmptyValues DEF AllowedOf
    <3> QED
      BY <3>2, <3>4, <3>5
  <2> QED
    BY <2>2, <2>3
<1>7. FilesOnly(kept.areas, said.areas, names) /\ ToSet(kept.areas) \subseteq ToSet(names)
  <2>1. handed.areas = said.areas
    BY DEF Handed
  <2> QED
    BY <1>2, <1>4, <2>1, AreasVerified
<1>8. aggregateConfidence(kept.claims) \in 0..100
  BY <1>5, ConfidenceInRange
<1>9. kept.summary = said.summary
  BY <1>4 DEF Handed
<1>10. Gate(said, kept, items, names)
  BY <1>1, <1>5, <1>6, <1>7, <1>9 DEF Gate
<1> QED
  BY <1>3, <1>4, <1>8, <1>10

LEMMA InvInitially == VInit => VInv
<1> SUFFICES ASSUME VInit PROVE VInv
  OBVIOUS
<1>1. snapshot \in Inputs /\ phase = "fetched" /\ evidence = <<>> /\ overall = 0
      /\ answer = NoResult /\ result = NoResult /\ saved = NoRows
  BY DEF VInit
<1>2. saved.evidence = {} /\ 0 \in 0..100
  BY <1>1 DEF NoRows
<1> QED
  BY <1>1, <1>2 DEF VInv, IsVerified

\* What the invariant says of the evidence.
LEMMA EvidenceRanked ==
  ASSUME VInv
  PROVE  /\ Sorted(evidence) /\ snapshot \in Lists
         /\ Names(snapshot.files) \in Seq(String)
<1>1. snapshot \in Lists
  BY InputAssumption DEF VInv
<1>2. Sorted(Rank(EvidenceOf(snapshot)))
  BY <1>1, EvidenceTyped, RankSorts
<1>3. Sorted(<<>>)
  BY DEF Sorted
<1> QED
  BY <1>1, <1>2, <1>3, NamesOfFiles DEF VInv

LEMMA RankEvidenceStep == ASSUME VInv, RankEvidence PROVE VInv'
<1>1. /\ phase = "fetched" /\ phase' = "ranked" /\ evidence' = Rank(EvidenceOf(snapshot))
      /\ snapshot' = snapshot /\ answer' = answer /\ result' = result
      /\ overall' = overall /\ saved' = saved
  BY DEF RankEvidence
<1>2. snapshot \in Inputs /\ overall \in 0..100 /\ saved = NoRows
      /\ answer = NoResult /\ result = NoResult
  BY <1>1 DEF VInv
<1>3. saved'.evidence = {}
  BY <1>1, <1>2 DEF NoRows
<1> QED
  BY <1>1, <1>2, <1>3 DEF VInv, IsVerified

LEMMA AnalyzeByRulesStep == ASSUME VInv, AnalyzeByRules PROVE VInv'
<1>1. /\ phase = "ranked" /\ phase' = "analyzed"
      /\ answer' = LocalAnalyzer(evidence, Names(snapshot.files)) /\ result' = answer'
      /\ snapshot' = snapshot /\ evidence' = evidence /\ overall' = overall /\ saved' = saved
  BY DEF AnalyzeByRules
<1>2. snapshot \in Inputs /\ overall \in 0..100 /\ saved = NoRows
      /\ evidence = Rank(EvidenceOf(snapshot))
  BY <1>1 DEF VInv
<1>3. saved'.evidence = {}
  BY <1>1, <1>2 DEF NoRows
<1>4. Handed(answer', result', evidence')
  <2>1. Sorted(evidence) /\ Names(snapshot.files) \in Seq(String)
    BY EvidenceRanked
  <2>2. PICK said : said = LocalAnalyzer(evidence, Names(snapshot.files))
    OBVIOUS
  <2>3. Handed(said, said, evidence)
    BY <2>1, <2>2, RulesHanded
  <2> QED
    BY <1>1, <2>2, <2>3
<1> QED
  BY <1>1, <1>2, <1>3, <1>4 DEF VInv, IsVerified

LEMMA AnalyzeByModelStep ==
  ASSUME VInv, NEW a \in ModelAnswers(evidence), AnalyzeByModel(a)
  PROVE  VInv'
<1>1. /\ phase = "ranked" /\ phase' = "analyzed" /\ answer' = a
      /\ result' = [a EXCEPT !.claims   = verifyClaims(@, evidence),
                             !.outcomes = IF @ = <<>> THEN <<"unknown">> ELSE @]
      /\ snapshot' = snapshot /\ evidence' = evidence /\ overall' = overall /\ saved' = saved
  BY DEF AnalyzeByModel
<1>2. snapshot \in Inputs /\ overall \in 0..100 /\ saved = NoRows
      /\ evidence = Rank(EvidenceOf(snapshot))
  BY <1>1 DEF VInv
<1>3. saved'.evidence = {}
  BY <1>1, <1>2 DEF NoRows
<1>4. Handed(answer', result', evidence')
  <2>1. ModelAnswers(Rank(EvidenceOf(snapshot))) \subseteq AnalysisResult
    BY <1>2, AnswerAssumption
  <2>2. a \in AnalysisResult
    BY <1>2, <2>1
  <2>3. PICK handed : handed = [a EXCEPT !.claims   = verifyClaims(@, evidence),
                                         !.outcomes = IF @ = <<>> THEN <<"unknown">> ELSE @]
    OBVIOUS
  <2>4. Handed(a, handed, evidence)
    BY <2>2, <2>3, ModelHanded
  <2>5. result' = handed
    BY <1>1, <2>3
  <2> QED
    BY <1>1, <2>4, <2>5
<1> QED
  BY <1>1, <1>2, <1>3, <1>4 DEF VInv, IsVerified

LEMMA VerifyStep == ASSUME VInv, Verify PROVE VInv'
<1>1. /\ phase = "analyzed" /\ phase' = "verified"
      /\ result' = VerifiedOf(result, evidence, Names(snapshot.files))
      /\ overall' = aggregateConfidence(result'.claims)
      /\ snapshot' = snapshot /\ evidence' = evidence /\ answer' = answer /\ saved' = saved
  BY DEF Verify, VerifiedOf
<1>2. snapshot \in Inputs /\ saved = NoRows /\ evidence = Rank(EvidenceOf(snapshot))
      /\ Handed(answer, result, evidence)
  BY <1>1 DEF VInv
<1>3. saved'.evidence = {}
  BY <1>1, <1>2 DEF NoRows
<1>4. Names(snapshot.files) \in Seq(String)
  BY EvidenceRanked
<1>5. PICK kept : kept = VerifiedOf(result, evidence, Names(snapshot.files))
  OBVIOUS
<1>6. /\ Gate(answer, kept, evidence, Names(snapshot.files))
      /\ aggregateConfidence(VerifyResult(result.claims, evidence)) \in 0..100
  BY <1>2, <1>4, <1>5, GateHolds
<1>7. kept.claims = VerifyResult(result.claims, evidence)
  BY <1>5 DEF VerifiedOf
<1>8. result' = kept
  BY <1>1, <1>5
<1>9. Gate(answer', result', evidence', Names(snapshot'.files)) /\ overall' \in 0..100
  BY <1>1, <1>6, <1>7, <1>8
<1> QED
  BY <1>1, <1>2, <1>3, <1>9 DEF VInv, IsVerified

LEMMA SaveAnalysisStep == ASSUME VInv, SaveAnalysis PROVE VInv'
<1>1. /\ phase = "verified" /\ snapshot' = snapshot /\ evidence' = evidence
      /\ answer' = answer /\ result' = result /\ overall' = overall
  BY DEF SaveAnalysis
<1>2. /\ snapshot \in Inputs /\ overall \in 0..100 /\ saved = NoRows
      /\ evidence = Rank(EvidenceOf(snapshot))
      /\ Gate(answer, result, evidence, Names(snapshot.files))
  BY <1>1 DEF VInv, IsVerified
<1>3. Gate(answer', result', evidence', Names(snapshot'.files))
  BY <1>1, <1>2
<1>4. TablesTake' <=> TablesTake
  BY <1>1 DEF TablesTake, NoTwins, CitationsHold, TextsWhole, EvidenceWhole
<1>5. CASE TablesTake
  <2>1. phase' = "saved" /\ saved'.evidence = Known(evidence)
    BY <1>5 DEF SaveAnalysis
  <2> QED
    BY <1>1, <1>2, <1>3, <1>5, <1>4, <2>1 DEF VInv, IsVerified
<1>6. CASE ~TablesTake
  <2>1. phase' = "failed" /\ saved' = saved
    BY <1>6 DEF SaveAnalysis
  <2>2. saved'.evidence = {}
    BY <1>2, <2>1 DEF NoRows
  <2> QED
    BY <1>1, <1>2, <1>3, <1>6, <1>4, <2>1, <2>2 DEF VInv, IsVerified
<1> QED
  BY <1>5, <1>6

LEMMA InvStays == VInv /\ [VNext]_vvars => VInv'
<1> SUFFICES ASSUME VInv, [VNext]_vvars PROVE VInv'
  OBVIOUS
<1>1. CASE RankEvidence
  BY <1>1, RankEvidenceStep
<1>2. CASE AnalyzeByRules
  BY <1>2, AnalyzeByRulesStep
<1>3. ASSUME NEW a \in ModelAnswers(evidence), AnalyzeByModel(a) PROVE VInv'
  BY <1>3, AnalyzeByModelStep
<1>4. CASE Verify
  BY <1>4, VerifyStep
<1>5. CASE SaveAnalysis
  BY <1>5, SaveAnalysisStep
<1>6. CASE UNCHANGED vvars
  <2>1. /\ phase' = phase /\ snapshot' = snapshot /\ evidence' = evidence /\ answer' = answer
        /\ result' = result /\ overall' = overall /\ saved' = saved
    BY <1>6 DEF vvars
  <2> QED
    BY <2>1 DEF VInv, IsVerified, TablesTake, NoTwins, CitationsHold, TextsWhole, EvidenceWhole
<1> QED
  BY <1>1, <1>2, <1>3, <1>4, <1>5, <1>6 DEF VNext

\* The invariant VInv holds in every state of Process: what an analyzer handed
\* over comes of its answer, and what is verified comes of that by the gates.
THEOREM VerificationInvariance == VSpec => []VInv
<1> QED
  BY InvInitially, InvStays, PTL DEF VSpec

-----------------------------------------------------------------------------
(* The properties *)

\* In every state the confidence of each claim and that of the result is a
\* share, what is saved as evidence is what was ranked, the outcomes are those
\* of the vocabulary, and the areas are changed files, each once and no more
\* than the bound: VerifyResult, VerifiedOutcomes, verifiedAreas and Score,
\* for every answer of a model.
THEOREM WellFormed == VSpec => []ResultIsWellFormed
<1>1. ASSUME VInv PROVE VTypeOK
  <2>1. ASSUME NEW c \in Categories, NEW k \in DOMAIN result.claims[c]
        PROVE  result.claims[c][k].confidence \in 0..100
    <3>1. CASE phase \in {"fetched", "ranked"}
      <4>1. result.claims[c] = <<>>
        BY <1>1, <3>1 DEF VInv, NoResult, NoClaims
      <4> QED
        BY <4>1
    <3>2. CASE phase = "analyzed"
      <4>1. result.claims[c] \in Seq(Confident)
        BY <1>1, <3>2 DEF VInv, Handed
      <4> QED
        BY <4>1, ConfidentClaims
    <3>3. CASE IsVerified
      <4>1. result.claims[c] \in Seq(Confident)
        BY <1>1, <3>3 DEF VInv, Gate
      <4> QED
        BY <4>1, ConfidentClaims
    <3> QED
      BY <1>1, <3>1, <3>2, <3>3 DEF VInv, IsVerified
  <2>2. ToSet(result.areas) \subseteq ToSet(answer.areas) \cup ToSet(Names(snapshot.files))
    <3>1. CASE phase \in {"fetched", "ranked"}
      BY <1>1, <3>1 DEF VInv
    <3>2. CASE phase = "analyzed"
      BY <1>1, <3>2 DEF VInv, Handed
    <3>3. CASE IsVerified
      BY <1>1, <3>3 DEF VInv, Gate
    <3> QED
      BY <1>1, <3>1, <3>2, <3>3 DEF VInv, IsVerified
  <2> QED
    BY <1>1, <2>1, <2>2 DEF VInv, VTypeOK
<1>2. ASSUME VInv PROVE OutcomesOfTheVocabulary
  BY <1>2 DEF VInv, Gate, AllowedOf, OutcomesOfTheVocabulary
<1>3. ASSUME VInv PROVE AreasAreFiles
  BY <1>3 DEF VInv, Gate, FilesOnly, AreasAreFiles
<1>4. VInv => ResultIsWellFormed
  BY <1>1, <1>2, <1>3 DEF ResultIsWellFormed
<1> QED
  BY <1>4, VerificationInvariance, PTL

\* Whatever a model answers, the claims of a result are those of the answer
\* that say something and cite some item of the evidence, in their order, each
\* with its text and the items among its citations: verifyClaims and
\* VerifyResult in a row.
THEOREM Founds == VSpec => []FoundedClaimsOnly
<1>1. ASSUME VInv, IsVerified, NEW c \in Categories
      PROVE  Sifts(answer.claims[c], result.claims[c], evidence)
  BY <1>1 DEF VInv, Gate
<1>2. ASSUME NEW said
      PROVE  {k \in DOMAIN said : IsFounded(said[k])} = Founded(said, evidence, {"empty", "blank"})
  BY DEF Founded, IsFounded, KnownIds
<1>3. ASSUME VInv, IsVerified, NEW c \in Categories
      PROVE  LET said     == answer.claims[c]
                 founded  == {k \in DOMAIN said : IsFounded(said[k])}
                 kept     == result.claims[c]
                 place(k) == Cardinality({j \in founded : j <= k}) IN
             /\ Len(kept) = Cardinality(founded)
             /\ \A k \in founded :
                  /\ kept[place(k)].text = said[k].text
                  /\ ToSet(kept[place(k)].ids) = ToSet(said[k].ids) \cap Known(evidence)
  <2>1. PICK said, kept, founded : /\ said = answer.claims[c] /\ kept = result.claims[c]
                                   /\ founded = {k \in DOMAIN said : IsFounded(said[k])}
    OBVIOUS
  <2>2. Sifts(said, kept, evidence) /\ founded = Founded(said, evidence, {"empty", "blank"})
    BY <1>1, <1>2, <1>3, <2>1
  <2>3. /\ Len(kept) = Cardinality(founded)
        /\ \A k \in founded : /\ kept[Count(founded, k)].text = said[k].text
                              /\ ToSet(kept[Count(founded, k)].ids) = KnownIds(said[k], evidence)
    BY ONLY <2>2 DEF Sifts
  <2> QED
    BY <2>1, <2>3 DEF Count, KnownIds
<1>4. VInv => FoundedClaimsOnly
  BY <1>3, Zenon DEF FoundedClaimsOnly
<1> QED
  BY <1>4, VerificationInvariance, PTL

\* What is verified of a category is broken where a founded claim of the answer is.
LEMMA SiftsBroken ==
  ASSUME NEW said, NEW kept \in Seq(Confident), Sifts(said, kept, evidence)
  PROVE  (\E p \in DOMAIN kept : kept[p].text = "broken")
           <=> \E k \in DOMAIN said : said[k].text = "broken" /\ IsFounded(said[k])
<1> DEFINE founded == Founded(said, evidence, {"empty", "blank"})
<1>1. DOMAIN kept = 1..Cardinality(founded)
  BY DEF Sifts
<1>2. \A k \in founded : Count(founded, k) \in DOMAIN kept /\ kept[Count(founded, k)].text = said[k].text
  BY <1>1 DEF Sifts
<1>3. \A p \in DOMAIN kept : \E k \in founded : p = Count(founded, k)
  BY <1>1 DEF Sifts
<1>4. \A k : k \in founded <=> k \in DOMAIN said /\ IsFounded(said[k])
  BY DEF Founded, IsFounded, KnownIds
<1> HIDE DEF founded
<1> QED
  BY <1>2, <1>3, <1>4

\* The keys of the evidence are distinct unless two items have one key.
LEMMA TwinsOfEvidence ==
  ASSUME NEW items \in Seq(EvidenceItem)
  PROVE  Distinct([k \in DOMAIN items |-> items[k].id])
           <=> ~\E j, k \in DOMAIN items : j # k /\ items[j].id = items[k].id
<1>1. PICK ids : ids = [k \in DOMAIN items |-> items[k].id]
  OBVIOUS
<1>2. ids \in Seq(String)
  BY <1>1, ClaimsOfItems
<1>3. Distinct(ids) <=> OneByOne(ids)
  BY <1>2, OneByOneDistinct, DistinctOneByOne
<1>4. OneByOne(ids) <=> ~\E j, k \in DOMAIN items : j # k /\ items[j].id = items[k].id
  BY <1>1 DEF OneByOne
<1> QED
  BY <1>1, <1>3, <1>4

\* Whatever GitHub gives and a model answers, the transaction of SaveAnalysis
\* fails exactly when a list repeats a key, two events have no number, or a text
\* that is stored, of the evidence, of the summary or of a founded claim, is not
\* whole: the keys of claim_evidence hold, and what the gates drop does no harm.
THEOREM RefusalExplained == VSpec => []RefusedForCause
<1>1. ASSUME VInv, IsVerified PROVE CitationsHold
  <2>1. Gate(answer, result, evidence, Names(snapshot.files))
    BY <1>1 DEF VInv
  <2>2. ASSUME NEW c \in Categories, NEW k \in DOMAIN result.claims[c]
        PROVE  /\ Distinct(Cited(result.claims[c][k]))
               /\ ToSet(Cited(result.claims[c][k])) \subseteq Known(evidence)
    <3>1. result.claims[c] \in Seq(Confident) /\ Linked(result.claims[c], evidence)
      BY <2>1 DEF Gate
    <3>2. result.claims[c][k] \in ClaimRecord
      BY <3>1 DEF Confident
    <3>3. ToSet(result.claims[c][k].ids) \subseteq Known(evidence)
      BY <3>1 DEF Linked
    <3> QED
      BY <3>2, <3>3, CitedOnce
  <2> QED
    BY <2>2 DEF CitationsHold
<1>2. ASSUME VInv PROVE ~NoTwins <=> ListsRepeat \/ EventsCollide
  <2>1. evidence \in Seq(EvidenceItem)
    BY <1>2, EvidenceRanked DEF Sorted
  <2>2. Distinct([k \in DOMAIN evidence |-> evidence[k].id])
          <=> ~\E j, k \in DOMAIN evidence : j # k /\ evidence[j].id = evidence[k].id
    BY <2>1, TwinsOfEvidence
  <2> QED
    BY <2>2 DEF NoTwins, ListsRepeat, EventsCollide
<1>3. ASSUME VInv, IsVerified
      PROVE  ~TextsWhole <=> \/ answer.summary = "broken"
                             \/ \E c \in Categories : \E k \in DOMAIN answer.claims[c] :
                                  answer.claims[c][k].text = "broken" /\ IsFounded(answer.claims[c][k])
  <2>1. Gate(answer, result, evidence, Names(snapshot.files))
    BY <1>3 DEF VInv
  <2>2. result.summary = answer.summary
    BY <2>1 DEF Gate
  <2>3. ASSUME NEW c \in Categories
        PROVE  (\E p \in DOMAIN result.claims[c] : result.claims[c][p].text = "broken")
                 <=> \E k \in DOMAIN answer.claims[c] :
                       answer.claims[c][k].text = "broken" /\ IsFounded(answer.claims[c][k])
    <3>1. result.claims[c] \in Seq(Confident) /\ Sifts(answer.claims[c], result.claims[c], evidence)
      BY <2>1 DEF Gate
    <3> QED
      BY <3>1, SiftsBroken
  <2> QED
    BY <2>2, <2>3, Zenon DEF TextsWhole
<1>4. VInv => RefusedForCause
  <2>1. SUFFICES ASSUME VInv, phase \in {"saved", "failed"} PROVE RefusedForCause
    BY DEF RefusedForCause
  <2>2. IsVerified /\ (phase = "failed" <=> ~TablesTake)
    BY <2>1 DEF VInv, IsVerified
  <2> QED
    BY <1>1, <1>2, <1>3, <2>1, <2>2 DEF RefusedForCause, TablesTake
<1> QED
  BY <1>4, VerificationInvariance, PTL

\* Whatever the evidence and the limits, the prompt of ForAnalysis is the first
\* of the ranked items, within its items and its bytes, cut between runes, and
\* stops short only when one of them is used up.
THEOREM WithinBudget == VSpec => []PromptWithinBudget
<1>1. VInv => PromptWithinBudget
  <2>1. ASSUME VInv PROVE Budgeted(evidence)
    BY <2>1, EvidenceRanked, PromptBudgeted
  <2> QED
    BY <2>1 DEF Budgeted, PromptWithinBudget
<1> QED
  BY <1>1, VerificationInvariance, PTL

-----------------------------------------------------------------------------
(* Evaluation *)

Outcomes == Writings \cup {<<>>}
Lines    == Seq([case : Numbers \cup {NoCase}, outcomes : Outcomes])

\* An order of a finite set is an order of its elements.
LEMMA SetToSeqElements ==
  ASSUME NEW S, IsFiniteSet(S)
  PROVE  SetToSeq(S) \in [1..Cardinality(S) -> S]
<1>1. PICK f \in Bijection(1..Cardinality(S), S) : TRUE
  BY FS_CardinalityType DEF ExistsBijection
<1>2. f \in [1..Cardinality(S) -> S] /\ IsInjective(f)
  BY DEF Bijection, Injection
<1> QED BY <1>2 DEF SetToSeq

LEMMA CasesAreNumbers == IsFiniteSet(Cases) /\ Cases \in SUBSET Numbers
BY SetAssumption, FS_Subset DEF Cases

LEMMA InitIInv == Init => IInv
<1> SUFFICES ASSUME Init PROVE IInv
  OBVIOUS
<1>1. labels \in Lines
  BY DEF Init, Missing, Lines, Outcomes
<1>2. CollectedIsUnmerged /\ GoldIsLabeling
  BY BoundAssumption DEF Init, CollectedIsUnmerged, GoldIsLabeling, NoStats, NoCase
<1>3. Zero \in Counters
  BY DEF Zero, Counters
<1>4. PredictedOnce
  BY <1>3 DEF Init, PredictedOnce
<1> QED BY <1>1, <1>2, <1>4 DEF Init, IInv, Lines, Outcomes

\* What passes validation states reasons, or the lack of any.
LEMMA ValidIsLabeling ==
  ASSUME NEW w, w \in Seq(Range(w)), Valid(w)
  PROVE  Range(w) \in Labelings
<1>1. DOMAIN w = 1..Len(w) /\ Len(w) \in Nat /\ Len(w) # 0
  BY DEF Valid
<1>2. w[1] \in Range(w)
  BY <1>1 DEF Range
<1>3. CASE Unknown \in Range(w)
  <2>1. Len(w) = 1
    BY <1>3 DEF Valid
  <2>2. Range(w) = {w[1]}
    BY <1>1, <2>1 DEF Range
  <2> QED BY <1>3, <2>2 DEF Labelings
<1>4. CASE Unknown \notin Range(w)
  BY <1>2, <1>4 DEF Valid, Labelings, Vocabulary
<1> QED BY <1>3, <1>4

LEMMA LineOfFile ==
  ASSUME labels \in Lines, NEW k \in DOMAIN labels
  PROVE  labels[k].outcomes \in Seq(Range(labels[k].outcomes))
<1> DEFINE Row == [case : Numbers \cup {NoCase}, outcomes : Outcomes]
<1>1. labels[k] \in Row
  <2>1. labels \in Seq(Row)
    BY DEF Lines
  <2> HIDE DEF Row
  <2> QED BY <2>1
<1>2. labels[k].outcomes \in Writings \/ labels[k].outcomes = <<>>
  BY <1>1 DEF Outcomes
<1>3. <<>> \in Seq(Range(<<>>))
  OBVIOUS
<1> QED BY <1>2, <1>3, LineAssumption

LEMMA LoadedIsLabeling == ASSUME labels \in Lines, Loads PROVE Loaded \in [DOMAIN Loaded -> Labelings]
<1> DEFINE last == {k \in DOMAIN labels : LastLine(k)}
           line(n) == CHOOSE k \in last : labels[k].case = n
<1>1. Loaded = [n \in {labels[k].case : k \in last} |-> Range(labels[line(n)].outcomes)]
  BY DEF Loaded
<1>2. ASSUME NEW n \in DOMAIN Loaded PROVE Loaded[n] \in Labelings
  <2>1. line(n) \in DOMAIN labels
    BY <1>1, <1>2
  <2>2. Valid(labels[line(n)].outcomes)
    BY <2>1 DEF Loads
  <2> HIDE DEF line, last
  <2>3. Range(labels[line(n)].outcomes) \in Labelings
    BY <2>1, <2>2, LineOfFile, ValidIsLabeling
  <2> QED BY <1>1, <1>2, <2>3
<1> HIDE DEF line, last
<1> QED BY <1>1, <1>2

\* Edits leave a file of lines, and so does the scaffold.
LEMMA ScaffoldStep == ASSUME IInv, ScaffoldLabels PROVE labels' \in Lines
<1> DEFINE order == SetToSeq(Cases)
           count == Cardinality(Cases)
<1>1. count \in Nat /\ order \in [1..count -> Cases]
  BY CasesAreNumbers, SetToSeqElements, FS_CardinalityType
<1>2. labels' = [k \in 1..count |-> [case |-> order[k], outcomes |-> <<>>]]
  BY DEF ScaffoldLabels
<1> HIDE DEF order, count
<1>3. \A k \in 1..count : order[k] \in Numbers
  BY <1>1, CasesAreNumbers
<1> DEFINE Row == [case : Numbers \cup {NoCase}, outcomes : Outcomes]
<1>4. \A k \in 1..count : [case |-> order[k], outcomes |-> <<>>] \in Row
  BY <1>3 DEF Outcomes
<1> HIDE DEF Row
<1>5. labels' \in Seq(Row)
  BY <1>1, <1>2, <1>4
<1> QED BY <1>5 DEF Lines, Row

LEMMA EditSteps ==
  ASSUME IInv,
         \/ \E w \in Writings, n \in Numbers : AddLine(n, w)
         \/ \E w \in Writings, k \in DOMAIN labels : Annotate(k, w)
         \/ \E k \in DOMAIN labels : RemoveLine(k)
  PROVE  labels' \in Lines
<1> DEFINE Row == [case : Numbers \cup {NoCase}, outcomes : Outcomes]
<1>1. labels \in Seq(Row)
  BY DEF IInv, Outcomes
<1>2. CASE \E w \in Writings, n \in Numbers : AddLine(n, w)
  <2>1. PICK w \in Writings, n \in Numbers : labels' = Append(labels, [case |-> n, outcomes |-> w])
    BY <1>2 DEF AddLine, Edit
  <2>2. [case |-> n, outcomes |-> w] \in Row
    BY DEF Outcomes
  <2> HIDE DEF Row
  <2>3. labels' \in Seq(Row)
    BY <1>1, <2>1, <2>2
  <2> QED BY <2>3 DEF Lines, Row
<1>3. CASE \E w \in Writings, k \in DOMAIN labels : Annotate(k, w)
  <2>1. PICK w \in Writings, k \in DOMAIN labels : labels' = [labels EXCEPT ![k].outcomes = w]
    BY <1>3 DEF Annotate, Edit
  <2>2. labels[k] \in Row
    <3> HIDE DEF Row
    <3> QED BY <1>1
  <2>3. [labels[k] EXCEPT !.outcomes = w] \in Row
    BY <2>2 DEF Outcomes
  <2>4. labels' = [labels EXCEPT ![k] = [labels[k] EXCEPT !.outcomes = w]]
    BY <2>1
  <2> HIDE DEF Row
  <2>5. labels' \in Seq(Row)
    BY <1>1, <2>3, <2>4
  <2> QED BY <2>5 DEF Lines, Row
<1>4. CASE \E k \in DOMAIN labels : RemoveLine(k)
  <2>1. PICK k \in DOMAIN labels : labels' = RemoveAt(labels, k)
    BY <1>4 DEF RemoveLine, Edit
  <2> HIDE DEF Row
  <2>2. SubSeq(labels, 1, k - 1) \in Seq(Row) /\ SubSeq(labels, k + 1, Len(labels)) \in Seq(Row)
    BY <1>1
  <2>3. labels' \in Seq(Row)
    BY <2>1, <2>2 DEF RemoveAt
  <2> QED BY <2>3 DEF Lines, Row
<1> QED BY <1>2, <1>3, <1>4

\* Every outcome of a fetch is counted, and what it saves was not merged.
LEMMA FetchStep ==
  ASSUME IInv, NEW n \in Numbers, Fetch(n)
  PROVE  CollectedIsUnmerged'
<1>1. /\ stats \in [fetched : Nat, saved : Nat, skippedMerged : Nat, failed : Nat]
      /\ stats.fetched = stats.saved + stats.skippedMerged + stats.failed
      /\ stats.saved < Limit /\ Limit \in Nat
  BY BoundAssumption DEF Fetch, IInv, CollectedIsUnmerged, NoStats
<1>2. \/ /\ cases' = cases
         /\ \/ stats' = [stats EXCEPT !.fetched = @ + 1, !.failed = @ + 1]
            \/ stats' = [stats EXCEPT !.fetched = @ + 1, !.skippedMerged = @ + 1]
      \/ /\ github.state[n] # "merged" /\ cases' = [cases EXCEPT ![n] = github.state[n]]
         /\ stats' = [stats EXCEPT !.fetched = @ + 1, !.saved = @ + 1]
  BY DEF Fetch, Counts
<1>3. /\ stats' \in [fetched : Nat, saved : Nat, skippedMerged : Nat, failed : Nat]
      /\ stats'.fetched = stats'.saved + stats'.skippedMerged + stats'.failed
      /\ stats'.saved <= Limit
  <2>1. CASE stats' = [stats EXCEPT !.fetched = @ + 1, !.failed = @ + 1]
    <3>1. stats' = [fetched |-> stats.fetched + 1, saved |-> stats.saved,
                     skippedMerged |-> stats.skippedMerged, failed |-> stats.failed + 1]
      BY <1>1, <2>1
    <3> QED BY <1>1, <3>1
  <2>2. CASE stats' = [stats EXCEPT !.fetched = @ + 1, !.skippedMerged = @ + 1]
    <3>1. stats' = [fetched |-> stats.fetched + 1, saved |-> stats.saved,
                     skippedMerged |-> stats.skippedMerged + 1, failed |-> stats.failed]
      BY <1>1, <2>2
    <3> QED BY <1>1, <3>1
  <2>3. CASE stats' = [stats EXCEPT !.fetched = @ + 1, !.saved = @ + 1]
    <3>1. stats' = [fetched |-> stats.fetched + 1, saved |-> stats.saved + 1,
                     skippedMerged |-> stats.skippedMerged, failed |-> stats.failed]
      BY <1>1, <2>3
    <3> QED BY <1>1, <3>1
  <2> QED BY <1>2, <2>1, <2>2, <2>3
<1>4. cases' \in [Numbers -> {NoCase, "closed", "open"}]
  BY <1>2 DEF IInv, CollectedIsUnmerged
<1> QED BY <1>3, <1>4 DEF CollectedIsUnmerged, NoStats

-----------------------------------------------------------------------------
(* Counting *)

LEMMA OneShape == \A b \in BOOLEAN : One(b) \in {0, 1} /\ (b <=> One(b) = 1)
BY DEF One

\* A set of cases gets one more, or not.
LEMMA CountStep ==
  ASSUME NEW X, IsFiniteSet(X), NEW n, n \notin X, NEW b \in BOOLEAN,
         NEW Y, Y = IF b THEN X \cup {n} ELSE X
  PROVE  Cardinality(Y) = Cardinality(X) + One(b)
<1>1. Cardinality(X) \in Nat
  BY FS_CardinalityType
<1>2. CASE b
  BY <1>1, <1>2, FS_AddElement DEF One
<1>3. CASE ~b
  BY <1>1, <1>3 DEF One
<1> QED BY <1>2, <1>3

LEMMA SingleFinite == \A x : IsFiniteSet({x}) /\ Cardinality({x}) = 1
BY FS_Singleton

LEMMA FirstFinite == \A d \in Nat : IsFiniteSet(1..d) /\ Cardinality(1..d) = d
<1> TAKE d \in Nat
<1>1. IsFiniteSet(1..d) /\ Cardinality(1..d) = IF 1 > d THEN 0 ELSE d - 1 + 1
  BY FS_Interval
<1> QED BY <1>1

LEMMA DisjointUnion ==
  ASSUME NEW X, NEW Y, IsFiniteSet(X), IsFiniteSet(Y), X \cap Y = {}
  PROVE  Cardinality(X \cup Y) = Cardinality(X) + Cardinality(Y)
<1>1. Cardinality(X) \in Nat /\ Cardinality(Y) \in Nat
  BY FS_CardinalityType
<1>2. Cardinality(X \cup Y) = Cardinality(X) + Cardinality(Y) - Cardinality(X \cap Y)
  BY FS_Union
<1>3. Cardinality(X \cap Y) = 0
  BY FS_EmptySet
<1> QED BY <1>1, <1>2, <1>3

\* The units a sum counts.
Units(f) == UNION {{x} \X (1..f[x]) : x \in DOMAIN f}

LEMMA UnitsShape ==
  ASSUME NEW S, NEW f \in [S -> Nat]
  PROVE  \A u : u \in Units(f) <=> \E x \in S : \E k \in 1..f[x] : u = <<x, k>>
BY DEF Units

LEMMA UnitsFinite ==
  ASSUME NEW S, IsFiniteSet(S), NEW f \in [S -> Nat]
  PROVE  IsFiniteSet(Units(f)) /\ Total(f) = Cardinality(Units(f)) /\ Total(f) \in Nat
<1> DEFINE F == {{x} \X (1..f[x]) : x \in S}
           part == [x \in S |-> {x} \X (1..f[x])]
<1>1. part \in Surjection(S, F)
  BY DEF Surjection
<1>2. IsFiniteSet(F)
  BY <1>1, FS_Surjection
<1>3. ASSUME NEW T \in F PROVE IsFiniteSet(T)
  <2>1. PICK x \in S : T = {x} \X (1..f[x])
    OBVIOUS
  <2>2. IsFiniteSet({x}) /\ IsFiniteSet(1..f[x])
    BY SingleFinite, FirstFinite
  <2> QED BY <2>1, <2>2, FS_Product
<1>4. Units(f) = UNION F
  BY DEF Units
<1> HIDE DEF F
<1>5. IsFiniteSet(Units(f))
  BY <1>2, <1>3, <1>4, FS_UNION
<1> QED BY <1>5, FS_CardinalityType DEF Total, Units

\* A value is added to a sum.
LEMMA TotalAdd ==
  ASSUME NEW S, IsFiniteSet(S), NEW f \in [S -> Nat], NEW n, n \notin S, NEW d \in Nat,
         NEW g, g = [x \in S \cup {n} |-> IF x = n THEN d ELSE f[x]]
  PROVE  Total(g) = Total(f) + d
<1> DEFINE R == S \cup {n}
           N == {n} \X (1..d)
<1>1. IsFiniteSet(R) /\ g \in [R -> Nat]
  BY FS_AddElement
<1>2. IsFiniteSet(N) /\ Cardinality(N) = d
  <2>1. IsFiniteSet({n}) /\ Cardinality({n}) = 1 /\ IsFiniteSet(1..d) /\ Cardinality(1..d) = d
    BY SingleFinite, FirstFinite
  <2> PICK A, B : A = {n} /\ B = 1..d
    OBVIOUS
  <2>2. IsFiniteSet(A) /\ Cardinality(A) = 1 /\ IsFiniteSet(B) /\ Cardinality(B) = d
    BY <2>1
  <2>3. IsFiniteSet(A \X B) /\ Cardinality(A \X B) = Cardinality(A) * Cardinality(B)
    BY ONLY <2>2, FS_Product
  <2>4. A \X B = N
    OBVIOUS
  <2>5. 1 * d = d
    OBVIOUS
  <2> HIDE DEF N
  <2>6. IsFiniteSet(N)
    BY <2>3, <2>4
  <2>7. Cardinality(N) = d
    BY <2>2, <2>3, <2>4, <2>5
  <2> QED BY <2>6, <2>7
<1>3. Units(g) = Units(f) \cup N /\ Units(f) \cap N = {}
  <2>1. \A u : u \in Units(g) <=> \E x \in R : \E k \in 1..g[x] : u = <<x, k>>
    <3> HIDE DEF R
    <3> QED BY <1>1, UnitsShape
  <2>2. \A u : u \in Units(f) <=> \E x \in S : \E k \in 1..f[x] : u = <<x, k>>
    BY UnitsShape
  <2>3. \A u : u \in N <=> \E k \in 1..d : u = <<n, k>>
    OBVIOUS
  <2>4. \A u \in Units(g) : u \in Units(f) \/ u \in N
    <3> TAKE u \in Units(g)
    <3>1. PICK x \in R : \E k \in 1..g[x] : u = <<x, k>>
      BY <2>1
    <3>2. PICK k \in 1..g[x] : u = <<x, k>>
      BY <3>1
    <3>3. CASE x = n
      BY <2>3, <3>2, <3>3
    <3>4. CASE x # n
      BY <2>2, <3>2, <3>4
    <3> QED BY <3>3, <3>4
  <2>5. \A u \in Units(f) : u \in Units(g) /\ u \notin N
    <3> TAKE u \in Units(f)
    <3>1. PICK x \in S : \E k \in 1..f[x] : u = <<x, k>>
      BY <2>2
    <3>2. PICK k \in 1..f[x] : u = <<x, k>>
      BY <3>1
    <3>3. x \in R /\ x # n /\ g[x] = f[x]
      OBVIOUS
    <3> QED BY <2>1, <2>3, <3>2, <3>3
  <2>6. \A u \in N : u \in Units(g)
    BY <2>1, <2>3
  <2> HIDE DEF N
  <2> QED BY <2>4, <2>5, <2>6
<1>4. IsFiniteSet(Units(f)) /\ Total(f) = Cardinality(Units(f)) /\ Total(f) \in Nat
  BY UnitsFinite
<1>5. Total(g) = Cardinality(Units(g))
  BY DEF Total, Units
<1> HIDE DEF N
<1>6. Cardinality(Units(g)) = Cardinality(Units(f)) + Cardinality(N)
  BY <1>2, <1>3, <1>4, DisjointUnion
<1> QED BY <1>2, <1>4, <1>5, <1>6

\* Some of the values of a sum grow by one.
LEMMA TotalGrow ==
  ASSUME NEW S, IsFiniteSet(S), NEW f \in [S -> Nat], NEW g \in [S -> Nat], NEW T \in SUBSET S,
         \A x \in S : g[x] = IF x \in T THEN f[x] + 1 ELSE f[x]
  PROVE  Total(g) = Total(f) + Cardinality(T)
<1> DEFINE N == {<<x, f[x] + 1>> : x \in T}
           b == [x \in T |-> <<x, f[x] + 1>>]
<1>1. b \in Bijection(T, N)
  BY DEF Bijection, Injection, Surjection, IsInjective
<1>2. IsFiniteSet(T) /\ Cardinality(T) \in Nat
  BY FS_Subset, FS_CardinalityType
<1>3. IsFiniteSet(N) /\ Cardinality(N) = Cardinality(T)
  <2>1. ExistsBijection(T, N)
    BY <1>1 DEF ExistsBijection
  <2> HIDE DEF N, b
  <2> QED BY <1>2, <2>1, FS_Bijection
<1>4. Units(g) = Units(f) \cup N /\ Units(f) \cap N = {}
  <2>1. \A u : u \in Units(g) <=> \E x \in S : \E k \in 1..g[x] : u = <<x, k>>
    BY UnitsShape
  <2>2. \A u : u \in Units(f) <=> \E x \in S : \E k \in 1..f[x] : u = <<x, k>>
    BY UnitsShape
  <2>3. \A u : u \in N <=> \E x \in T : u = <<x, f[x] + 1>>
    OBVIOUS
  <2>4. \A u \in Units(g) : u \in Units(f) \/ u \in N
    <3> TAKE u \in Units(g)
    <3>1. PICK x \in S : \E k \in 1..g[x] : u = <<x, k>>
      BY <2>1
    <3>2. PICK k \in 1..g[x] : u = <<x, k>>
      BY <3>1
    <3>3. CASE k \in 1..f[x]
      BY <2>2, <3>2, <3>3
    <3>4. CASE k \notin 1..f[x]
      <4>1. x \in T /\ k = f[x] + 1
        BY <3>4
      <4> QED BY <2>3, <3>2, <4>1
    <3> QED BY <3>3, <3>4
  <2>5. \A u \in Units(f) : u \in Units(g) /\ u \notin N
    <3> TAKE u \in Units(f)
    <3>1. PICK x \in S : \E k \in 1..f[x] : u = <<x, k>>
      BY <2>2
    <3>2. PICK k \in 1..f[x] : u = <<x, k>>
      BY <3>1
    <3>3. k \in 1..g[x] /\ k # f[x] + 1
      OBVIOUS
    <3> QED BY <2>1, <2>3, <3>2, <3>3
  <2>6. \A u \in N : u \in Units(g)
    <3> TAKE u \in N
    <3>1. PICK x \in T : u = <<x, f[x] + 1>>
      BY <2>3
    <3>2. x \in S /\ f[x] + 1 \in 1..g[x]
      OBVIOUS
    <3> QED BY <2>1, <3>1, <3>2
  <2> HIDE DEF N
  <2> QED BY <2>4, <2>5, <2>6
<1>5. IsFiniteSet(Units(f)) /\ Total(f) = Cardinality(Units(f)) /\ Total(f) \in Nat
  BY UnitsFinite
<1>6. Total(g) = Cardinality(Units(g))
  BY DEF Total, Units
<1> HIDE DEF N
<1>7. Cardinality(Units(g)) = Cardinality(Units(f)) + Cardinality(N)
  BY <1>3, <1>4, <1>5, DisjointUnion
<1> QED BY <1>3, <1>5, <1>6, <1>7

-----------------------------------------------------------------------------
(* A prediction and its score *)

LEMMA ZeroShape == Zero \in Counters
BY DEF Zero, Counters

LEMMA VocabularyFinite == IsFiniteSet(Vocabulary)
BY SetAssumption, FS_AddElement DEF Vocabulary

LEMMA LabelingShape ==
  ASSUME NEW g \in Labelings
  PROVE  g \subseteq Vocabulary /\ IsFiniteSet(g) /\ (Unknown \in g <=> g = {Unknown})
<1>1. g \subseteq Vocabulary /\ (Unknown \in g <=> g = {Unknown})
  BY OutcomeAssumption DEF Labelings, Vocabulary
<1> QED BY <1>1, VocabularyFinite, FS_Subset

LEMMA PredictionShape ==
  ASSUME NEW p \in Predictions
  PROVE  /\ p.outcomes \subseteq Vocabulary /\ IsFiniteSet(p.outcomes)
         /\ p.decision \in Nat /\ p.grounded \in Nat /\ p.grounded <= p.decision
         /\ p.failed \in BOOLEAN
<1>1. CASE p = [outcomes |-> {Unknown}, decision |-> 0, grounded |-> 0, failed |-> TRUE]
  <2>1. p.outcomes = {Unknown} /\ p.decision = 0 /\ p.grounded = 0 /\ p.failed = TRUE
    BY <1>1
  <2>2. IsFiniteSet(p.outcomes)
    BY <2>1, SingleFinite
  <2>3. p.outcomes \subseteq Vocabulary /\ p.failed \in BOOLEAN
    BY <2>1 DEF Vocabulary
  <2>4. p.decision \in Nat /\ p.grounded \in Nat /\ p.grounded <= p.decision
    BY <2>1
  <2> QED BY <2>2, <2>3, <2>4
<1>2. ASSUME NEW a \in Answers, NEW c \in Claims,
             p = [outcomes |-> Verified(a), decision |-> Len(c), failed |-> FALSE,
                  grounded |-> Cardinality({k \in DOMAIN c : "discussion" \in c[k]})]
      PROVE  /\ p.outcomes \subseteq Vocabulary /\ IsFiniteSet(p.outcomes)
             /\ p.decision \in Nat /\ p.grounded \in Nat /\ p.grounded <= p.decision
             /\ p.failed \in BOOLEAN
  <2>1. Verified(a) \subseteq Vocabulary
    BY DEF Verified, Vocabulary
  <2>2. IsFiniteSet(Verified(a))
    BY <2>1, VocabularyFinite, FS_Subset
  <2>3. PICK m \in 0..MaxClaims : c \in [1..m -> (SUBSET Kinds) \ {{}}]
    BY DEF Claims
  <2>4. m \in Nat /\ Len(c) = m /\ DOMAIN c = 1..m
    BY <2>3, BoundAssumption
  <2> DEFINE G == {k \in DOMAIN c : "discussion" \in c[k]}
  <2>5. IsFiniteSet(1..m) /\ Cardinality(1..m) = m /\ G \in SUBSET (1..m)
    BY <2>4, FirstFinite
  <2>6. p.grounded = Cardinality(G)
    BY <1>2
  <2> HIDE DEF G
  <2>7. Cardinality(G) \in Nat /\ Cardinality(G) <= m
    BY <2>5, FS_Subset, FS_CardinalityType
  <2> QED BY <1>2, <2>1, <2>2, <2>4, <2>6, <2>7
<1>3. \/ p = [outcomes |-> {Unknown}, decision |-> 0, grounded |-> 0, failed |-> TRUE]
      \/ \E a \in Answers, c \in Claims :
           p = [outcomes |-> Verified(a), decision |-> Len(c), failed |-> FALSE,
                grounded |-> Cardinality({k \in DOMAIN c : "discussion" \in c[k]})]
  BY DEF Predictions
<1> QED BY <1>1, <1>2, <1>3

\* The counters after a prediction that counts.
LEMMA ScoredShape ==
  ASSUME NEW s \in Counters, NEW g \in Labelings, NEW p \in Predictions
  PROVE  Scored(s, g, p) \in Counters
<1>1. g \subseteq Vocabulary /\ IsFiniteSet(g) /\ p.outcomes \subseteq Vocabulary /\ IsFiniteSet(p.outcomes)
      /\ p.decision \in Nat /\ p.grounded \in Nat
  BY LabelingShape, PredictionShape
<1>2. Cardinality(g \cap p.outcomes) \in Nat /\ Cardinality(p.outcomes \ g) \in Nat /\ Cardinality(g \ p.outcomes) \in Nat
  BY <1>1, FS_Intersection, FS_Difference, FS_CardinalityType
<1> DEFINE c == [v \in Vocabulary |->
                  [gold |-> s.class[v].gold + One(v \in g),
                   pred |-> s.class[v].pred + One(v \in p.outcomes),
                   tp   |-> s.class[v].tp + One(v \in g /\ v \in p.outcomes),
                   fp   |-> s.class[v].fp + One(v \notin g /\ v \in p.outcomes)]]
<1>4. c \in [Vocabulary -> [gold : Nat, pred : Nat, tp : Nat, fp : Nat]]
  <2>1. ASSUME NEW v \in Vocabulary PROVE c[v] \in [gold : Nat, pred : Nat, tp : Nat, fp : Nat]
    <3>1. s.class[v] \in [gold : Nat, pred : Nat, tp : Nat, fp : Nat]
      BY DEF Counters
    <3>2. /\ One(v \in g) \in Nat /\ One(v \in p.outcomes) \in Nat
          /\ One(v \in g /\ v \in p.outcomes) \in Nat /\ One(v \notin g /\ v \in p.outcomes) \in Nat
      BY DEF One
    <3> QED BY <3>1, <3>2
  <2> QED BY <2>1
<1>5. \A q : One(q) \in Nat
  BY DEF One
<1> DEFINE
  s1 == [s EXCEPT !.labeled = s.labeled + 1]
  s2 == [s1 EXCEPT !.exact = s.exact + One(g = p.outcomes)]
  s3 == [s2 EXCEPT !.goldUnknown = s.goldUnknown + One(g = {Unknown})]
  s4 == [s3 EXCEPT !.predUnknown = s.predUnknown + One(p.outcomes = {Unknown})]
  s5 == [s4 EXCEPT !.unknownAgree = s.unknownAgree + One(g = {Unknown} /\ p.outcomes = {Unknown})]
  s6 == [s5 EXCEPT !.class = c]
  s7 == [s6 EXCEPT !.tp = s.tp + Cardinality(g \cap p.outcomes)]
  s8 == [s7 EXCEPT !.fp = s.fp + Cardinality(p.outcomes \ g)]
  s9 == [s8 EXCEPT !.fn = s.fn + Cardinality(g \ p.outcomes)]
  s10 == [s9 EXCEPT !.realGold = s.realGold + One(g # {Unknown})]
  s11 == [s10 EXCEPT !.covered = s.covered + One(g # {Unknown} /\ p.decision > 0)]
  s12 == [s11 EXCEPT !.decision = s.decision + p.decision]
  s13 == [s12 EXCEPT !.grounded = s.grounded + p.grounded]
<1>6. Scored(s, g, p) = s13
  BY Zenon DEF Scored
<1> HIDE DEF c
<1>7. s1 \in Counters
  BY DEF Counters
<1> HIDE DEF s1
<1>8. s2 \in Counters
  BY <1>7, <1>5 DEF Counters
<1> HIDE DEF s2
<1>9. s3 \in Counters
  BY <1>8, <1>5 DEF Counters
<1> HIDE DEF s3
<1>10. s4 \in Counters
  BY <1>9, <1>5 DEF Counters
<1> HIDE DEF s4
<1>11. s5 \in Counters
  BY <1>10, <1>5 DEF Counters
<1> HIDE DEF s5
<1>12. s6 \in Counters
  BY <1>11, <1>4 DEF Counters
<1> HIDE DEF s6
<1>13. s7 \in Counters
  BY <1>12, <1>2 DEF Counters
<1> HIDE DEF s7
<1>14. s8 \in Counters
  BY <1>13, <1>2 DEF Counters
<1> HIDE DEF s8
<1>15. s9 \in Counters
  <2> PICK k \in Nat : k = Cardinality(g \ p.outcomes)
    BY <1>2
  <2>1. s9 = [s8 EXCEPT !.fn = s.fn + k]
    OBVIOUS
  <2> HIDE DEF s9
  <2>2. [s8 EXCEPT !.fn = s.fn + k] \in Counters
    BY <1>14 DEF Counters
  <2> QED BY <2>1, <2>2
<1> HIDE DEF s9
<1>16. s10 \in Counters
  BY <1>15, <1>5 DEF Counters
<1> HIDE DEF s10
<1>17. s11 \in Counters
  BY <1>16, <1>5 DEF Counters
<1> HIDE DEF s11
<1>18. s12 \in Counters
  BY <1>17, <1>1 DEF Counters
<1> HIDE DEF s12
<1>19. s13 \in Counters
  BY <1>18, <1>1 DEF Counters
<1> HIDE DEF s13
<1> QED BY <1>6, <1>19

LEMMA UncountedShape == ASSUME NEW s \in Counters, NEW n PROVE Uncounted(s, n) \in Counters
<1> DEFINE s1 == [s EXCEPT !.labeled = @ + 1]
           s2 == [s1 EXCEPT !.skipped = @ + 1]
<1>1. [s EXCEPT !.labeled = @ + 1, !.skipped = @ + 1] = s2
  BY Zenon
<1>2. s1 \in Counters
  BY DEF Counters
<1> HIDE DEF s1
<1>3. s2 \in Counters
  BY <1>2 DEF Counters
<1> HIDE DEF s2
<1>4. [s EXCEPT !.unlabeled = @ + 1] \in Counters
  BY DEF Counters
<1> QED BY <1>1, <1>3, <1>4 DEF Uncounted

\* A prediction is made once, and scored.
LEMMA PredictShape ==
  ASSUME IInv, NEW n \in Numbers, NEW p \in Predictions, Predict(n, p)
  PROVE  /\ n \notin DOMAIN preds /\ DOMAIN preds' = DOMAIN preds \cup {n}
         /\ preds'[n] = p /\ \A m \in DOMAIN preds : preds'[m] = preds[m]
         /\ gold' = gold /\ stage = "running" /\ stage' = stage
         /\ score \in Counters /\ score' \in Counters
         /\ \E s \in Counters :
              /\ s = [score EXCEPT !.cases = @ + 1]
              /\ Counted(n, p) => score' = Scored(s, gold[n], p)
              /\ ~Counted(n, p) => score' = Uncounted(s, n)
<1>1. score \in Counters /\ DOMAIN preds \subseteq Numbers \ todo /\ n \in todo
  BY DEF IInv, PredictedOnce, Predict
<1>2. /\ preds' = [m \in DOMAIN preds \cup {n} |-> IF m = n THEN p ELSE preds[m]]
      /\ gold' = gold /\ stage = "running" /\ stage' = stage
  BY DEF Predict
<1> PICK s : s = [score EXCEPT !.cases = @ + 1]
  OBVIOUS
<1>3. s \in Counters
  BY <1>1 DEF Counters
<1>4. score' = IF Counted(n, p) THEN Scored(s, gold[n], p) ELSE Uncounted(s, n)
  BY DEF Predict
<1>5. Counted(n, p) => gold[n] \in Labelings
  BY DEF Counted, IInv, GoldIsLabeling
<1>6. Counted(n, p) => Scored(s, gold[n], p) \in Counters
  BY <1>3, <1>5, ScoredShape
<1>7. Uncounted(s, n) \in Counters
  BY <1>3, UncountedShape
<1>8. score' \in Counters
  BY <1>4, <1>6, <1>7
<1>9. (Counted(n, p) => score' = Scored(s, gold[n], p)) /\ (~Counted(n, p) => score' = Uncounted(s, n))
  BY <1>4
<1> QED BY <1>1, <1>2, <1>3, <1>8, <1>9

LEMMA PredictStep ==
  ASSUME IInv, NEW n \in Numbers, NEW p \in Predictions, Predict(n, p)
  PROVE  PredictedOnce'
<1>1. /\ DOMAIN preds' = DOMAIN preds \cup {n} /\ preds'[n] = p
      /\ \A m \in DOMAIN preds : preds'[m] = preds[m]
      /\ stage' = "running" /\ score' \in Counters
  BY PredictShape
<1>2. preds' = [m \in DOMAIN preds' |-> preds'[m]] /\ todo' = todo \ {n}
  BY DEF Predict
<1>3. preds \in [DOMAIN preds -> Predictions] /\ DOMAIN preds \subseteq Numbers \ todo
  BY DEF IInv, PredictedOnce
<1>4. \A m \in DOMAIN preds' : preds'[m] \in Predictions
  BY <1>1, <1>3
<1>5. preds' \in [DOMAIN preds' -> Predictions]
  BY <1>2, <1>4
<1> QED BY <1>1, <1>2, <1>3, <1>5 DEF PredictedOnce

\* Nothing is predicted.
LEMMA PredictedQuiet ==
  ASSUME PredictedOnce, preds' = preds, score' = score,
         todo' = todo \/ stage # "running", stage' = "running" \/ stage # "running"
  PROVE  PredictedOnce'
BY DEF PredictedOnce

LEMMA NextIInv == IInv /\ [Next]_vars => IInv'
<1> SUFFICES ASSUME IInv, [Next]_vars PROVE IInv'
  OBVIOUS
<1> USE DEF IInv, dataset, running
<1>1. ASSUME NEW n \in Numbers, Change(n) PROVE IInv'
  <2>1. PredictedOnce'
    BY <1>1, PredictedQuiet DEF Change
  <2> QED BY <1>1, <2>1 DEF Change, CollectedIsUnmerged, GoldIsLabeling
<1>2. ASSUME BeginCollect \/ EndCollect PROVE IInv'
  <2>1. stats' = NoStats /\ UNCHANGED <<github, dataset, running>>
    BY <1>2 DEF BeginCollect, EndCollect
  <2>2. stage = "idle" \/ stage = "collecting"
    BY <1>2 DEF BeginCollect, EndCollect
  <2>3. stage' \in {"idle", "collecting"} /\ listed' \in SUBSET Numbers
    BY <1>2 DEF BeginCollect, EndCollect
  <2>4. CollectedIsUnmerged'
    BY <2>1, BoundAssumption DEF CollectedIsUnmerged, NoStats
  <2>5. PredictedOnce'
    BY <2>1, <2>2, PredictedQuiet
  <2> QED BY <2>1, <2>2, <2>3, <2>4, <2>5 DEF GoldIsLabeling
<1>3. ASSUME NEW n \in Numbers, Fetch(n) PROVE IInv'
  <2>1. PredictedOnce'
    BY <1>3, PredictedQuiet DEF Fetch
  <2> QED BY <1>3, <2>1, FetchStep DEF Fetch, GoldIsLabeling
<1>4. CASE ScaffoldLabels
  <2>1. PredictedOnce'
    BY <1>4, PredictedQuiet DEF ScaffoldLabels
  <2> QED BY <1>4, <2>1, ScaffoldStep DEF ScaffoldLabels, Lines, Outcomes, CollectedIsUnmerged, GoldIsLabeling
<1>5. ASSUME \/ \E w \in Writings, n \in Numbers : AddLine(n, w)
             \/ \E w \in Writings, k \in DOMAIN labels : Annotate(k, w)
             \/ \E k \in DOMAIN labels : RemoveLine(k)
      PROVE  IInv'
  <2>1. UNCHANGED <<github, stage, listed, stats, cases, running>> /\ stage = "idle"
    BY <1>5 DEF AddLine, Annotate, RemoveLine, Edit
  <2>2. PredictedOnce'
    BY <2>1, PredictedQuiet
  <2> QED BY <1>5, <2>1, <2>2, EditSteps DEF Lines, Outcomes, CollectedIsUnmerged, GoldIsLabeling
<1>6. CASE BeginRun
  <2>1. GoldIsLabeling'
    BY <1>6, LoadedIsLabeling DEF BeginRun, Lines, Outcomes, GoldIsLabeling
  <2>2. PredictedOnce'
    BY <1>6, PredictedQuiet DEF BeginRun
  <2> QED BY <1>6, <2>1, <2>2, CasesAreNumbers DEF BeginRun, CollectedIsUnmerged
<1>7. ASSUME NEW n \in Numbers, NEW p \in Predictions, Predict(n, p) PROVE IInv'
  <2>1. PredictedOnce'
    BY <1>7, PredictStep
  <2> QED BY <1>7, <2>1 DEF Predict, CollectedIsUnmerged, GoldIsLabeling
<1>8. CASE EndRun
  <2>1. PredictedOnce'
    BY <1>8, ZeroShape DEF EndRun, PredictedOnce
  <2> QED BY <1>8, <2>1 DEF EndRun, CollectedIsUnmerged, GoldIsLabeling
<1>9. CASE UNCHANGED vars
  <2>1. PredictedOnce'
    BY <1>9 DEF vars, PredictedOnce
  <2> QED BY <1>9, <2>1 DEF vars, CollectedIsUnmerged, GoldIsLabeling
<1> QED BY <1>1, <1>2, <1>3, <1>4, <1>5, <1>6, <1>7, <1>8, <1>9 DEF Next

\* Every report of every run scores against what the protocol allows, over
\* cases that were not merged when they were fetched.
THEOREM EvaluationInvariance == Spec => []IInv
<1>1. Init => IInv
  BY InitIInv
<1>2. IInv /\ [Next]_vars => IInv'
  BY NextIInv
<1> QED BY <1>1, <1>2, PTL DEF Spec

-----------------------------------------------------------------------------
(* What a step does to the counters *)

\* The counters a failure, or a case without a label, leaves as they are.
Rates == {"exact", "goldUnknown", "predUnknown", "unknownAgree", "class", "tp", "fp", "fn",
          "realGold", "covered", "decision", "grounded"}

LEMMA UncountedCounts ==
  ASSUME NEW s \in Counters, NEW n, NEW t, t = Uncounted(s, n)
  PROVE  /\ \A r \in Rates : t[r] = s[r]
         /\ t.cases = s.cases
         /\ t.unlabeled = s.unlabeled + One(n \notin DOMAIN gold)
         /\ t.labeled = s.labeled + One(n \in DOMAIN gold)
         /\ t.skipped = s.skipped + One(n \in DOMAIN gold)
<1>1. CASE n \in DOMAIN gold
  <2>1. t = [s EXCEPT !.labeled = @ + 1, !.skipped = @ + 1]
    BY <1>1 DEF Uncounted
  <2>2. \A r \in Rates : t[r] = s[r]
    BY <2>1 DEF Counters, Rates
  <2>3. t.cases = s.cases /\ t.unlabeled = s.unlabeled /\ s.unlabeled \in Nat
    BY <2>1 DEF Counters
  <2>4. t.labeled = s.labeled + 1 /\ t.skipped = s.skipped + 1
    BY <2>1 DEF Counters
  <2>5. One(n \in DOMAIN gold) = 1 /\ One(n \notin DOMAIN gold) = 0
    BY <1>1 DEF One
  <2> QED BY <2>2, <2>3, <2>4, <2>5
<1>2. CASE n \notin DOMAIN gold
  <2>1. t = [s EXCEPT !.unlabeled = @ + 1]
    BY <1>2 DEF Uncounted
  <2>2. \A r \in Rates : t[r] = s[r]
    BY <2>1 DEF Counters, Rates
  <2>3. t.cases = s.cases /\ t.unlabeled = s.unlabeled + 1
    BY <2>1 DEF Counters
  <2>4. t.labeled = s.labeled /\ t.skipped = s.skipped /\ s.labeled \in Nat /\ s.skipped \in Nat
    BY <2>1 DEF Counters
  <2>5. One(n \in DOMAIN gold) = 0 /\ One(n \notin DOMAIN gold) = 1
    BY <1>2 DEF One
  <2> QED BY <2>2, <2>3, <2>4, <2>5
<1> QED BY <1>1, <1>2

\* What a prediction p that counts does to the numbers, with the label g of its case.
Tallied(g, p) ==
  /\ g \in Labelings
  /\ score'.cases = score.cases + 1
  /\ score'.unlabeled = score.unlabeled /\ score'.skipped = score.skipped
  /\ score'.labeled = score.labeled + 1
  /\ score'.exact = score.exact + (IF g = p.outcomes THEN 1 ELSE 0)
  /\ score'.goldUnknown = score.goldUnknown + (IF g = {Unknown} THEN 1 ELSE 0)
  /\ score'.predUnknown = score.predUnknown + (IF p.outcomes = {Unknown} THEN 1 ELSE 0)
  /\ score'.unknownAgree = score.unknownAgree + (IF g = {Unknown} /\ p.outcomes = {Unknown} THEN 1 ELSE 0)
  /\ score'.tp = score.tp + Cardinality(g \cap p.outcomes)
  /\ score'.fp = score.fp + Cardinality(p.outcomes \ g)
  /\ score'.fn = score.fn + Cardinality(g \ p.outcomes)
  /\ score'.realGold = score.realGold + (IF g = {Unknown} THEN 0 ELSE 1)
  /\ score'.covered = score.covered + (IF g # {Unknown} /\ p.decision > 0 THEN 1 ELSE 0)
  /\ score'.decision = score.decision + p.decision
  /\ score'.grounded = score.grounded + p.grounded

LEMMA CountedStep ==
  ASSUME IInv, NEW n \in Numbers, NEW p \in Predictions, Predict(n, p), Counted(n, p),
         NEW g, g = gold[n]
  PROVE  Tallied(g, p)
<1>1. PICK s \in Counters : s = [score EXCEPT !.cases = @ + 1] /\ score' = Scored(s, g, p)
  BY PredictShape
<1>2. g \in Labelings
  BY DEF Counted, IInv, GoldIsLabeling
<1>3. score \in Counters
  BY PredictShape
<1>4. /\ s.cases = score.cases + 1
      /\ s.unlabeled = score.unlabeled /\ s.skipped = score.skipped /\ s.labeled = score.labeled
      /\ s.exact = score.exact /\ s.goldUnknown = score.goldUnknown
      /\ s.predUnknown = score.predUnknown /\ s.unknownAgree = score.unknownAgree
  BY <1>1, <1>3 DEF Counters
<1>5. /\ s.tp = score.tp /\ s.fp = score.fp /\ s.fn = score.fn
      /\ s.realGold = score.realGold /\ s.covered = score.covered
      /\ s.decision = score.decision /\ s.grounded = score.grounded
  BY <1>1, <1>3 DEF Counters
<1> PICK t : t = score'
  OBVIOUS
<1>6. t = Scored(s, g, p)
  BY <1>1
<1>7. t.cases = s.cases /\ t.unlabeled = s.unlabeled /\ t.skipped = s.skipped
  BY ONLY <1>6, s \in Counters DEF Scored, Counters, One
<1>8. t.labeled = s.labeled + 1 /\ t.exact = s.exact + (IF g = p.outcomes THEN 1 ELSE 0)
  BY ONLY <1>6, s \in Counters DEF Scored, Counters, One
<1>9. t.goldUnknown = s.goldUnknown + (IF g = {Unknown} THEN 1 ELSE 0)
  BY ONLY <1>6, s \in Counters DEF Scored, Counters, One
<1>10. t.predUnknown = s.predUnknown + (IF p.outcomes = {Unknown} THEN 1 ELSE 0)
  BY ONLY <1>6, s \in Counters DEF Scored, Counters, One
<1>11. t.unknownAgree = s.unknownAgree + (IF g = {Unknown} /\ p.outcomes = {Unknown} THEN 1 ELSE 0)
  BY ONLY <1>6, s \in Counters DEF Scored, Counters, One
<1>12. t.tp = s.tp + Cardinality(g \cap p.outcomes)
  BY ONLY <1>6, s \in Counters DEF Scored, Counters, One
<1>13. t.fp = s.fp + Cardinality(p.outcomes \ g)
  BY ONLY <1>6, s \in Counters DEF Scored, Counters, One
<1>14. t.fn = s.fn + Cardinality(g \ p.outcomes)
  BY ONLY <1>6, s \in Counters DEF Scored, Counters, One
<1>15. t.realGold = s.realGold + (IF g = {Unknown} THEN 0 ELSE 1)
  BY ONLY <1>6, s \in Counters DEF Scored, Counters, One
<1>16. t.covered = s.covered + (IF g # {Unknown} /\ p.decision > 0 THEN 1 ELSE 0)
  BY ONLY <1>6, s \in Counters DEF Scored, Counters, One
<1>17. t.decision = s.decision + p.decision /\ t.grounded = s.grounded + p.grounded
  BY ONLY <1>6, s \in Counters DEF Scored, Counters, One
<1> QED BY ONLY <1>2, <1>4, <1>5, <1>7, <1>8, <1>9, <1>10, <1>11, <1>12, <1>13, <1>14, <1>15,
                <1>16, <1>17, t = score' DEF Tallied

LEMMA CountedClass ==
  ASSUME IInv, NEW n \in Numbers, NEW p \in Predictions, Predict(n, p), Counted(n, p),
         NEW g, g = gold[n], NEW v \in Vocabulary
  PROVE  /\ score'.class[v].gold = score.class[v].gold + (IF v \in g THEN 1 ELSE 0)
         /\ score'.class[v].pred = score.class[v].pred + (IF v \in p.outcomes THEN 1 ELSE 0)
         /\ score'.class[v].tp = score.class[v].tp + (IF v \in g /\ v \in p.outcomes THEN 1 ELSE 0)
         /\ score'.class[v].fp = score.class[v].fp + (IF v \notin g /\ v \in p.outcomes THEN 1 ELSE 0)
<1>1. PICK s \in Counters : s = [score EXCEPT !.cases = @ + 1] /\ score' = Scored(s, g, p)
  BY PredictShape
<1>2. s.class = score.class
  BY <1>1, PredictShape DEF Counters
<1> PICK t : t = score'
  OBVIOUS
<1>3. t = Scored(s, g, p)
  BY <1>1
<1>4. t.class = [w \in Vocabulary |->
                  [gold |-> s.class[w].gold + (IF w \in g THEN 1 ELSE 0),
                   pred |-> s.class[w].pred + (IF w \in p.outcomes THEN 1 ELSE 0),
                   tp   |-> s.class[w].tp + (IF w \in g /\ w \in p.outcomes THEN 1 ELSE 0),
                   fp   |-> s.class[w].fp + (IF w \notin g /\ w \in p.outcomes THEN 1 ELSE 0)]]
  BY ONLY <1>3, s \in Counters DEF Scored, Counters, One
<1>5. t.class[v] = [gold |-> s.class[v].gold + (IF v \in g THEN 1 ELSE 0),
                    pred |-> s.class[v].pred + (IF v \in p.outcomes THEN 1 ELSE 0),
                    tp   |-> s.class[v].tp + (IF v \in g /\ v \in p.outcomes THEN 1 ELSE 0),
                    fp   |-> s.class[v].fp + (IF v \notin g /\ v \in p.outcomes THEN 1 ELSE 0)]
  BY ONLY <1>4, v \in Vocabulary
<1> QED BY ONLY <1>2, <1>5, t = score'

\* One that does not count is counted as that.
LEMMA UncountedStep ==
  ASSUME IInv, NEW n \in Numbers, NEW p \in Predictions, Predict(n, p), ~Counted(n, p)
  PROVE  /\ \A r \in Rates : score'[r] = score[r]
         /\ score'.cases = score.cases + 1
         /\ score'.unlabeled = score.unlabeled + One(n \notin DOMAIN gold)
         /\ score'.labeled = score.labeled + One(n \in DOMAIN gold)
         /\ score'.skipped = score.skipped + One(n \in DOMAIN gold)
<1>1. PICK s \in Counters : s = [score EXCEPT !.cases = @ + 1] /\ score' = Uncounted(s, n)
  BY PredictShape
<1>2. score \in Counters
  BY PredictShape
<1>3. /\ s.cases = score.cases + 1
      /\ s.unlabeled = score.unlabeled /\ s.skipped = score.skipped /\ s.labeled = score.labeled
      /\ \A r \in Rates : s[r] = score[r]
  BY <1>1, <1>2 DEF Counters, Rates
<1> PICK t : t = score'
  OBVIOUS
<1>4. t = Uncounted(s, n)
  BY <1>1
<1>5. /\ \A r \in Rates : t[r] = s[r]
      /\ t.cases = s.cases
      /\ t.unlabeled = s.unlabeled + One(n \notin DOMAIN gold)
      /\ t.labeled = s.labeled + One(n \in DOMAIN gold)
      /\ t.skipped = s.skipped + One(n \in DOMAIN gold)
  BY <1>4, UncountedCounts
<1> QED BY ONLY <1>3, <1>5, t = score'

\* Only a prediction changes a score that is not started afresh.
LEMMA StepKinds ==
  ASSUME IInv, [Next]_vars
  PROVE  \/ UNCHANGED <<gold, preds, score>>
         \/ DOMAIN preds' = {} /\ score' = Zero
         \/ \E n \in Numbers, p \in Predictions : Predict(n, p)
<1>1. CASE BeginRun
  BY <1>1 DEF BeginRun, IInv, PredictedOnce
<1>2. CASE EndRun
  BY <1>2 DEF EndRun
<1>3. CASE BeginCollect \/ EndCollect \/ ScaffoldLabels \/ UNCHANGED vars
  BY <1>3 DEF BeginCollect, EndCollect, ScaffoldLabels, vars, running
<1>4. ASSUME NEW n \in Numbers, Change(n) \/ Fetch(n) PROVE UNCHANGED <<gold, preds, score>>
  BY <1>4 DEF Change, Fetch, running
<1>5. ASSUME \/ \E w \in Writings, n \in Numbers : AddLine(n, w)
             \/ \E w \in Writings, k \in DOMAIN labels : Annotate(k, w)
             \/ \E k \in DOMAIN labels : RemoveLine(k)
      PROVE  UNCHANGED <<gold, preds, score>>
  BY <1>5 DEF AddLine, Annotate, RemoveLine, Edit, running
<1> QED BY <1>1, <1>2, <1>3, <1>4, <1>5 DEF Next

-----------------------------------------------------------------------------
(* Unknown *)

LEMMA UnknownFresh == ASSUME score' = Zero PROVE UnknownStandsAlone'
BY DEF UnknownStandsAlone, Zero, Vocabulary

LEMMA UnknownPredict ==
  ASSUME IInv, UnknownStandsAlone, NEW n \in Numbers, NEW p \in Predictions, Predict(n, p)
  PROVE  UnknownStandsAlone'
<1>1. score \in Counters /\ score' \in Counters
  BY PredictShape
<1>2. CASE Counted(n, p)
  <2> PICK g : g = gold[n]
    OBVIOUS
  <2>0. Tallied(g, p)
    BY <1>2, CountedStep
  <2>1. g \in Labelings /\ score'.skipped = score.skipped /\ score'.labeled = score.labeled + 1
    BY <2>0 DEF Tallied
  <2>2. /\ score'.goldUnknown = score.goldUnknown + (IF g = {Unknown} THEN 1 ELSE 0)
        /\ score'.realGold = score.realGold + (IF g = {Unknown} THEN 0 ELSE 1)
    BY <2>0 DEF Tallied
  <2>3. score'.unknownAgree = score.unknownAgree + (IF g = {Unknown} /\ p.outcomes = {Unknown} THEN 1 ELSE 0)
    BY <2>0 DEF Tallied
  <2>4. score'.covered = score.covered + (IF g # {Unknown} /\ p.decision > 0 THEN 1 ELSE 0)
    BY <2>0 DEF Tallied
  <2>5. /\ score'.class[Unknown].gold = score.class[Unknown].gold + (IF Unknown \in g THEN 1 ELSE 0)
        /\ score'.class[Unknown].tp = score.class[Unknown].tp
                                        + (IF Unknown \in g /\ Unknown \in p.outcomes THEN 1 ELSE 0)
    BY <1>2, CountedClass DEF Vocabulary
  <2>6. Unknown \in g <=> g = {Unknown}
    BY <2>1, LabelingShape
  <2>7. /\ score.skipped \in Nat /\ score.labeled \in Nat /\ score.goldUnknown \in Nat
        /\ score.unknownAgree \in Nat /\ score.realGold \in Nat /\ score.covered \in Nat
        /\ score.class[Unknown].gold \in Nat /\ score.class[Unknown].tp \in Nat
    BY <1>1 DEF Counters, Vocabulary
  <2>8. /\ score.realGold + score.goldUnknown = score.labeled - score.skipped
        /\ score.class[Unknown].gold = score.goldUnknown
        /\ score.class[Unknown].tp >= score.unknownAgree
        /\ score.covered <= score.realGold
    BY DEF UnknownStandsAlone
  <2>9. score'.realGold + score'.goldUnknown = score'.labeled - score'.skipped
    BY ONLY <2>1, <2>2, <2>7, <2>8
  <2>10. score'.class[Unknown].gold = score'.goldUnknown
    BY ONLY <2>2, <2>5, <2>6, <2>7, <2>8
  <2>11. score'.class[Unknown].tp >= score'.unknownAgree
    <3>1. g = {Unknown} /\ p.outcomes = {Unknown} => Unknown \in g /\ Unknown \in p.outcomes
      OBVIOUS
    <3> QED BY ONLY <2>3, <2>5, <2>7, <2>8, <3>1
  <2>12. score'.covered <= score'.realGold
    BY ONLY <2>2, <2>4, <2>7, <2>8
  <2> QED BY <2>9, <2>10, <2>11, <2>12 DEF UnknownStandsAlone
<1>3. CASE ~Counted(n, p)
  <2>1. /\ \A r \in Rates : score'[r] = score[r]
        /\ score'.labeled = score.labeled + One(n \in DOMAIN gold)
        /\ score'.skipped = score.skipped + One(n \in DOMAIN gold)
    BY <1>3, UncountedStep
  <2>2. score.labeled \in Nat /\ score.skipped \in Nat /\ One(n \in DOMAIN gold) \in Nat
    BY <1>1 DEF Counters, One
  <2>3. score'.labeled - score'.skipped = score.labeled - score.skipped
    BY <2>1, <2>2
  <2>4. /\ score'.goldUnknown = score.goldUnknown /\ score'.unknownAgree = score.unknownAgree
        /\ score'.realGold = score.realGold /\ score'.covered = score.covered
        /\ score'.class = score.class
    BY <2>1 DEF Rates
  <2> QED BY <2>3, <2>4 DEF UnknownStandsAlone
<1> QED BY <1>2, <1>3

\* In every report of every run "unknown" stands alone: the cases scored divide
\* into those coverage is about and those that count for the agreement.
THEOREM UnknownSeparate == Spec => []UnknownStandsAlone
<1>1. Init => UnknownStandsAlone
  BY DEF Init, UnknownStandsAlone, Zero, Vocabulary
<1>2. IInv /\ UnknownStandsAlone /\ [Next]_vars => UnknownStandsAlone'
  <2> SUFFICES ASSUME IInv, UnknownStandsAlone, [Next]_vars PROVE UnknownStandsAlone'
    OBVIOUS
  <2>1. CASE UNCHANGED <<gold, preds, score>>
    BY <2>1 DEF UnknownStandsAlone
  <2> QED BY <2>1, StepKinds, UnknownFresh, UnknownPredict
<1> QED BY <1>1, <1>2, EvaluationInvariance, PTL DEF Spec

-----------------------------------------------------------------------------
(* What a report is about *)

Exact          == {n \in Scorable : gold[n] = preds[n].outcomes}
GoldUnknowns   == {n \in Scorable : gold[n] = {Unknown}}
PredUnknowns   == {n \in Scorable : preds[n].outcomes = {Unknown}}
BothUnknown    == {n \in Scorable : gold[n] = {Unknown} /\ preds[n].outcomes = {Unknown}}
Covered        == {n \in Scorable : gold[n] # {Unknown} /\ preds[n].decision > 0}
LabeledAs(v)   == {n \in Scorable : v \in gold[n]}
PredictedAs(v) == {n \in Scorable : v \in preds[n].outcomes}
Hits(v)        == {n \in Scorable : v \in gold[n] \cap preds[n].outcomes}
FalseHits(v)   == {n \in Scorable : v \in preds[n].outcomes \ gold[n]}
Decisions      == [n \in Scorable |-> preds[n].decision]
Grounds        == [n \in Scorable |-> preds[n].grounded]

NumbersReported ==
  /\ score.cases = Cardinality(DOMAIN preds)
  /\ score.unlabeled = Cardinality(DOMAIN preds \ DOMAIN gold)
  /\ score.labeled - score.skipped = Cardinality(Scorable)
  /\ score.exact = Cardinality(Exact)
  /\ score.goldUnknown = Cardinality(GoldUnknowns)
  /\ score.predUnknown = Cardinality(PredUnknowns)
  /\ score.unknownAgree = Cardinality(BothUnknown)
  /\ score.covered = Cardinality(Covered)

ClassesReported ==
  \A v \in Vocabulary :
    /\ score.class[v].gold = Cardinality(LabeledAs(v))
    /\ score.class[v].pred = Cardinality(PredictedAs(v))
    /\ score.class[v].tp = Cardinality(Hits(v))
    /\ score.class[v].fp = Cardinality(FalseHits(v))

SumsReported ==
  /\ score.decision = Total(Decisions)
  /\ score.grounded = Total(Grounds)

Reported == NumbersReported /\ ClassesReported /\ SumsReported

LEMMA ReportedIsReport == IInv /\ Reported => ReportsScorableOnly
<1> SUFFICES ASSUME IInv, Reported PROVE ReportsScorableOnly
  OBVIOUS
<1>1. score.class = [v \in Vocabulary |->
        [gold |-> Cardinality(LabeledAs(v)), pred |-> Cardinality(PredictedAs(v)),
         tp |-> Cardinality(Hits(v)), fp |-> Cardinality(FalseHits(v))]]
  BY DEF IInv, PredictedOnce, Counters, Reported, ClassesReported
<1>2. score.class = [v \in Vocabulary |->
          [gold |-> Number(LAMBDA n : v \in gold[n]),
           pred |-> Number(LAMBDA n : v \in preds[n].outcomes),
           tp   |-> Number(LAMBDA n : v \in gold[n] \cap preds[n].outcomes),
           fp   |-> Number(LAMBDA n : v \in preds[n].outcomes \ gold[n])]]
  BY <1>1, Zenon DEF Number, LabeledAs, PredictedAs, Hits, FalseHits
<1>3. /\ score.exact = Number(LAMBDA n : gold[n] = preds[n].outcomes)
      /\ score.goldUnknown = Number(LAMBDA n : gold[n] = {Unknown})
      /\ score.predUnknown = Number(LAMBDA n : preds[n].outcomes = {Unknown})
  BY Zenon DEF Reported, NumbersReported, Number, Exact, GoldUnknowns, PredUnknowns
<1>4. /\ score.unknownAgree = Number(LAMBDA n : gold[n] = {Unknown} /\ preds[n].outcomes = {Unknown})
      /\ score.covered = Number(LAMBDA n : gold[n] # {Unknown} /\ preds[n].decision > 0)
  BY Zenon DEF Reported, NumbersReported, Number, BothUnknown, Covered
<1>5. /\ score.cases = Cardinality(DOMAIN preds)
      /\ score.unlabeled = Cardinality(DOMAIN preds \ DOMAIN gold)
      /\ score.labeled - score.skipped = Cardinality(Scorable)
  BY DEF Reported, NumbersReported
<1>6. /\ score.decision = Total([n \in Scorable |-> preds[n].decision])
      /\ score.grounded = Total([n \in Scorable |-> preds[n].grounded])
  BY Zenon DEF Reported, SumsReported, Decisions, Grounds
<1> QED BY <1>2, <1>3, <1>4, <1>5, <1>6, Zenon DEF ReportsScorableOnly

LEMMA EmptyTotal == ASSUME NEW f, DOMAIN f = {} PROVE Total(f) = 0
<1>1. UNION {{x} \X (1..f[x]) : x \in DOMAIN f} = {}
  OBVIOUS
<1> QED BY <1>1, FS_EmptySet DEF Total

LEMMA ReportFresh == ASSUME DOMAIN preds' = {}, score' = Zero PROVE Reported'
<1>1. Scorable' = {}
  BY DEF Scorable
<1>2. Cardinality({}) = 0
  BY FS_EmptySet
<1>3. NumbersReported'
  BY <1>1, <1>2 DEF NumbersReported, Zero, Exact, GoldUnknowns, PredUnknowns, BothUnknown, Covered
<1>4. ClassesReported'
  BY <1>1, <1>2 DEF ClassesReported, Zero, LabeledAs, PredictedAs, Hits, FalseHits
<1>5. DOMAIN Decisions' = {} /\ DOMAIN Grounds' = {}
  BY <1>1 DEF Decisions, Grounds
<1>6. Total(Decisions') = 0 /\ Total(Grounds') = 0
  BY <1>5, EmptyTotal
<1>7. SumsReported'
  BY <1>6 DEF SumsReported, Zero
<1> QED BY <1>3, <1>4, <1>7 DEF Reported

\* Of one more thing, one more is picked, or not.
LEMMA Sift ==
  ASSUME NEW S, IsFiniteSet(S), NEW n, n \notin S, NEW X \in SUBSET S, NEW Y \in SUBSET (S \cup {n}),
         \A m \in S : m \in X <=> m \in Y
  PROVE  /\ Cardinality(X) \in Nat
         /\ Cardinality(Y) = Cardinality(X) + (IF n \in Y THEN 1 ELSE 0)
<1>1. IsFiniteSet(X) /\ Cardinality(X) \in Nat
  BY FS_Subset, FS_CardinalityType
<1>2. CASE n \in Y
  <2>1. Y = X \cup {n} /\ n \notin X
    BY <1>2
  <2> QED BY <1>1, <1>2, <2>1, FS_AddElement
<1>3. CASE n \notin Y
  <2>1. Y = X
    BY <1>3
  <2> QED BY <1>1, <1>3, <2>1
<1> QED BY <1>2, <1>3

LEMMA ScorableStep ==
  ASSUME IInv, NEW n \in Numbers, NEW p \in Predictions, Predict(n, p)
  PROVE  /\ IsFiniteSet(DOMAIN preds) /\ n \notin DOMAIN preds /\ DOMAIN preds' = DOMAIN preds \cup {n}
         /\ Scorable \subseteq DOMAIN preds /\ IsFiniteSet(Scorable)
         /\ Scorable' = IF Counted(n, p) THEN Scorable \cup {n} ELSE Scorable
         /\ preds'[n] = p /\ \A m \in DOMAIN preds : preds'[m] = preds[m]
         /\ gold' = gold
<1>1. /\ n \notin DOMAIN preds /\ DOMAIN preds' = DOMAIN preds \cup {n} /\ gold' = gold
      /\ preds'[n] = p /\ \A m \in DOMAIN preds : preds'[m] = preds[m]
  BY PredictShape
<1>2. DOMAIN preds \subseteq Numbers
  BY DEF IInv, PredictedOnce
<1>3. IsFiniteSet(DOMAIN preds)
  BY <1>2, SetAssumption, FS_Subset
<1>4. Scorable \subseteq DOMAIN preds
  BY DEF Scorable
<1>5. IsFiniteSet(Scorable)
  BY <1>3, <1>4, FS_Subset
<1>6. Scorable' = IF Counted(n, p) THEN Scorable \cup {n} ELSE Scorable
  BY <1>1 DEF Scorable, Counted
<1> QED BY <1>1, <1>3, <1>4, <1>5, <1>6

\* A prediction that counts is one more thing reported, in each count it belongs to.
LEMMA NumbersCounted ==
  ASSUME IInv, NumbersReported, NEW n \in Numbers, NEW p \in Predictions, Predict(n, p), Counted(n, p)
  PROVE  NumbersReported'
<1> PICK g : g = gold[n]
  OBVIOUS
<1>1. /\ n \notin DOMAIN preds /\ DOMAIN preds' = DOMAIN preds \cup {n} /\ IsFiniteSet(DOMAIN preds)
      /\ preds'[n] = p /\ (\A m \in Scorable : preds'[m] = preds[m]) /\ gold' = gold /\ g = gold'[n]
  BY ScorableStep
<1>2. Scorable' = Scorable \cup {n} /\ n \notin Scorable /\ IsFiniteSet(Scorable)
  BY ScorableStep
<1>3. Tallied(g, p)
  BY CountedStep
<1>4. score'.cases = Cardinality(DOMAIN preds')
  <2>1. Cardinality(DOMAIN preds') = Cardinality(DOMAIN preds) + 1
    BY <1>1, FS_AddElement
  <2> QED BY <1>3, <2>1 DEF Tallied, NumbersReported
<1>5. /\ score'.unlabeled = Cardinality(DOMAIN preds' \ DOMAIN gold')
      /\ score'.labeled - score'.skipped = Cardinality(Scorable')
  <2>1. DOMAIN preds' \ DOMAIN gold' = DOMAIN preds \ DOMAIN gold
    BY <1>1 DEF Counted
  <2>2. Cardinality(Scorable') = Cardinality(Scorable) + 1
    BY <1>2, FS_AddElement
  <2>3. score.labeled \in Nat /\ score.skipped \in Nat
    BY DEF IInv, PredictedOnce, Counters
  <2>4. /\ score'.unlabeled = score.unlabeled
        /\ score'.labeled = score.labeled + 1 /\ score'.skipped = score.skipped
    BY <1>3 DEF Tallied
  <2>5. /\ score.unlabeled = Cardinality(DOMAIN preds \ DOMAIN gold)
        /\ score.labeled - score.skipped = Cardinality(Scorable)
    BY DEF NumbersReported
  <2>6. score'.labeled - score'.skipped = Cardinality(Scorable')
    BY ONLY <2>2, <2>3, <2>4, <2>5
  <2> QED BY <2>1, <2>4, <2>5, <2>6
<1>6. score'.exact = Cardinality(Exact')
  <2>1. Exact \in SUBSET Scorable /\ Exact' \in SUBSET (Scorable \cup {n})
    BY <1>2 DEF Exact
  <2>2. (\A m \in Scorable : m \in Exact <=> m \in Exact') /\ (n \in Exact' <=> g = p.outcomes)
    BY <1>1, <1>2 DEF Exact
  <2>3. /\ Cardinality(Exact) \in Nat
        /\ Cardinality(Exact') = Cardinality(Exact) + (IF n \in Exact' THEN 1 ELSE 0)
    BY <1>2, <2>1, <2>2, Sift
  <2>4. score'.exact = score.exact + (IF g = p.outcomes THEN 1 ELSE 0) /\ score.exact = Cardinality(Exact)
    BY <1>3 DEF Tallied, NumbersReported
  <2> QED BY ONLY <2>2, <2>3, <2>4
<1>7. score'.goldUnknown = Cardinality(GoldUnknowns')
  <2>1. GoldUnknowns \in SUBSET Scorable /\ GoldUnknowns' \in SUBSET (Scorable \cup {n})
    BY <1>2 DEF GoldUnknowns
  <2>2. (\A m \in Scorable : m \in GoldUnknowns <=> m \in GoldUnknowns') /\ (n \in GoldUnknowns' <=> g = {Unknown})
    BY <1>1, <1>2 DEF GoldUnknowns
  <2>3. /\ Cardinality(GoldUnknowns) \in Nat
        /\ Cardinality(GoldUnknowns') = Cardinality(GoldUnknowns) + (IF n \in GoldUnknowns' THEN 1 ELSE 0)
    BY <1>2, <2>1, <2>2, Sift
  <2>4. score'.goldUnknown = score.goldUnknown + (IF g = {Unknown} THEN 1 ELSE 0) /\ score.goldUnknown = Cardinality(GoldUnknowns)
    BY <1>3 DEF Tallied, NumbersReported
  <2> QED BY ONLY <2>2, <2>3, <2>4
<1>8. score'.predUnknown = Cardinality(PredUnknowns')
  <2>1. PredUnknowns \in SUBSET Scorable /\ PredUnknowns' \in SUBSET (Scorable \cup {n})
    BY <1>2 DEF PredUnknowns
  <2>2. (\A m \in Scorable : m \in PredUnknowns <=> m \in PredUnknowns') /\ (n \in PredUnknowns' <=> p.outcomes = {Unknown})
    BY <1>1, <1>2 DEF PredUnknowns
  <2>3. /\ Cardinality(PredUnknowns) \in Nat
        /\ Cardinality(PredUnknowns') = Cardinality(PredUnknowns) + (IF n \in PredUnknowns' THEN 1 ELSE 0)
    BY <1>2, <2>1, <2>2, Sift
  <2>4. score'.predUnknown = score.predUnknown + (IF p.outcomes = {Unknown} THEN 1 ELSE 0) /\ score.predUnknown = Cardinality(PredUnknowns)
    BY <1>3 DEF Tallied, NumbersReported
  <2> QED BY ONLY <2>2, <2>3, <2>4
<1>9. score'.unknownAgree = Cardinality(BothUnknown')
  <2>1. BothUnknown \in SUBSET Scorable /\ BothUnknown' \in SUBSET (Scorable \cup {n})
    BY <1>2 DEF BothUnknown
  <2>2. (\A m \in Scorable : m \in BothUnknown <=> m \in BothUnknown') /\ (n \in BothUnknown' <=> g = {Unknown} /\ p.outcomes = {Unknown})
    BY <1>1, <1>2 DEF BothUnknown
  <2>3. /\ Cardinality(BothUnknown) \in Nat
        /\ Cardinality(BothUnknown') = Cardinality(BothUnknown) + (IF n \in BothUnknown' THEN 1 ELSE 0)
    BY <1>2, <2>1, <2>2, Sift
  <2>4. score'.unknownAgree = score.unknownAgree + (IF g = {Unknown} /\ p.outcomes = {Unknown} THEN 1 ELSE 0) /\ score.unknownAgree = Cardinality(BothUnknown)
    BY <1>3 DEF Tallied, NumbersReported
  <2> QED BY ONLY <2>2, <2>3, <2>4
<1>10. score'.covered = Cardinality(Covered')
  <2>1. Covered \in SUBSET Scorable /\ Covered' \in SUBSET (Scorable \cup {n})
    BY <1>2 DEF Covered
  <2>2. (\A m \in Scorable : m \in Covered <=> m \in Covered') /\ (n \in Covered' <=> g # {Unknown} /\ p.decision > 0)
    BY <1>1, <1>2 DEF Covered
  <2>3. /\ Cardinality(Covered) \in Nat
        /\ Cardinality(Covered') = Cardinality(Covered) + (IF n \in Covered' THEN 1 ELSE 0)
    BY <1>2, <2>1, <2>2, Sift
  <2>4. score'.covered = score.covered + (IF g # {Unknown} /\ p.decision > 0 THEN 1 ELSE 0) /\ score.covered = Cardinality(Covered)
    BY <1>3 DEF Tallied, NumbersReported
  <2> QED BY ONLY <2>2, <2>3, <2>4
<1> QED BY <1>4, <1>5, <1>6, <1>7, <1>8, <1>9, <1>10 DEF NumbersReported

LEMMA ClassesCounted ==
  ASSUME IInv, ClassesReported, NEW n \in Numbers, NEW p \in Predictions, Predict(n, p), Counted(n, p)
  PROVE  ClassesReported'
<1> SUFFICES ASSUME NEW v \in Vocabulary
             PROVE  /\ score'.class[v].gold = Cardinality(LabeledAs(v)')
                    /\ score'.class[v].pred = Cardinality(PredictedAs(v)')
                    /\ score'.class[v].tp = Cardinality(Hits(v)')
                    /\ score'.class[v].fp = Cardinality(FalseHits(v)')
  BY DEF ClassesReported
<1> PICK g : g = gold[n]
  OBVIOUS
<1>1. preds'[n] = p /\ (\A m \in Scorable : preds'[m] = preds[m]) /\ gold' = gold /\ g = gold'[n]
  BY ScorableStep
<1>2. Scorable' = Scorable \cup {n} /\ n \notin Scorable /\ IsFiniteSet(Scorable)
  BY ScorableStep
<1>3. /\ score'.class[v].gold = score.class[v].gold + (IF v \in g THEN 1 ELSE 0)
      /\ score'.class[v].pred = score.class[v].pred + (IF v \in p.outcomes THEN 1 ELSE 0)
      /\ score'.class[v].tp = score.class[v].tp + (IF v \in g /\ v \in p.outcomes THEN 1 ELSE 0)
      /\ score'.class[v].fp = score.class[v].fp + (IF v \notin g /\ v \in p.outcomes THEN 1 ELSE 0)
  BY CountedClass DEF One
<1>5. score'.class[v].gold = Cardinality(LabeledAs(v)')
  <2> PICK X, Y : X = LabeledAs(v) /\ Y = LabeledAs(v)'
    OBVIOUS
  <2>1. X \in SUBSET Scorable /\ Y \in SUBSET (Scorable \cup {n})
    BY <1>2 DEF LabeledAs
  <2>2. (\A m \in Scorable : m \in X <=> m \in Y) /\ (n \in Y <=> v \in g)
    BY <1>1, <1>2 DEF LabeledAs
  <2>3. Cardinality(X) \in Nat /\ Cardinality(Y) = Cardinality(X) + (IF n \in Y THEN 1 ELSE 0)
    BY <1>2, <2>1, <2>2, Sift
  <2>4. score'.class[v].gold = score.class[v].gold + (IF v \in g THEN 1 ELSE 0) /\ score.class[v].gold = Cardinality(X)
    BY <1>3 DEF ClassesReported
  <2> QED BY <2>2, <2>3, <2>4
<1>6. score'.class[v].pred = Cardinality(PredictedAs(v)')
  <2> PICK X, Y : X = PredictedAs(v) /\ Y = PredictedAs(v)'
    OBVIOUS
  <2>1. X \in SUBSET Scorable /\ Y \in SUBSET (Scorable \cup {n})
    BY <1>2 DEF PredictedAs
  <2>2. (\A m \in Scorable : m \in X <=> m \in Y) /\ (n \in Y <=> v \in p.outcomes)
    BY <1>1, <1>2 DEF PredictedAs
  <2>3. Cardinality(X) \in Nat /\ Cardinality(Y) = Cardinality(X) + (IF n \in Y THEN 1 ELSE 0)
    BY <1>2, <2>1, <2>2, Sift
  <2>4. score'.class[v].pred = score.class[v].pred + (IF v \in p.outcomes THEN 1 ELSE 0) /\ score.class[v].pred = Cardinality(X)
    BY <1>3 DEF ClassesReported
  <2> QED BY <2>2, <2>3, <2>4
<1>7. score'.class[v].tp = Cardinality(Hits(v)')
  <2> PICK X, Y : X = Hits(v) /\ Y = Hits(v)'
    OBVIOUS
  <2>1. X \in SUBSET Scorable /\ Y \in SUBSET (Scorable \cup {n})
    BY <1>2 DEF Hits
  <2>2. (\A m \in Scorable : m \in X <=> m \in Y) /\ (n \in Y <=> v \in g /\ v \in p.outcomes)
    BY <1>1, <1>2 DEF Hits
  <2>3. Cardinality(X) \in Nat /\ Cardinality(Y) = Cardinality(X) + (IF n \in Y THEN 1 ELSE 0)
    BY <1>2, <2>1, <2>2, Sift
  <2>4. score'.class[v].tp = score.class[v].tp + (IF v \in g /\ v \in p.outcomes THEN 1 ELSE 0) /\ score.class[v].tp = Cardinality(X)
    BY <1>3 DEF ClassesReported
  <2> QED BY <2>2, <2>3, <2>4
<1>8. score'.class[v].fp = Cardinality(FalseHits(v)')
  <2> PICK X, Y : X = FalseHits(v) /\ Y = FalseHits(v)'
    OBVIOUS
  <2>1. X \in SUBSET Scorable /\ Y \in SUBSET (Scorable \cup {n})
    BY <1>2 DEF FalseHits
  <2>2. (\A m \in Scorable : m \in X <=> m \in Y) /\ (n \in Y <=> v \notin g /\ v \in p.outcomes)
    BY <1>1, <1>2 DEF FalseHits
  <2>3. Cardinality(X) \in Nat /\ Cardinality(Y) = Cardinality(X) + (IF n \in Y THEN 1 ELSE 0)
    BY <1>2, <2>1, <2>2, Sift
  <2>4. score'.class[v].fp = score.class[v].fp + (IF v \notin g /\ v \in p.outcomes THEN 1 ELSE 0) /\ score.class[v].fp = Cardinality(X)
    BY <1>3 DEF ClassesReported
  <2> QED BY <2>2, <2>3, <2>4
<1> QED BY <1>5, <1>6, <1>7, <1>8

LEMMA SumsCounted ==
  ASSUME IInv, SumsReported, NEW n \in Numbers, NEW p \in Predictions, Predict(n, p), Counted(n, p)
  PROVE  SumsReported'
<1>1. preds'[n] = p /\ (\A m \in Scorable : preds'[m] = preds[m]) /\ gold' = gold
  BY ScorableStep
<1>2. Scorable' = Scorable \cup {n} /\ n \notin Scorable /\ IsFiniteSet(Scorable)
  BY ScorableStep
<1>3. Tallied(gold[n], p)
  BY CountedStep
<1>4. p.decision \in Nat /\ p.grounded \in Nat
  BY PredictionShape
<1>5. \A m \in Scorable : preds[m].decision \in Nat /\ preds[m].grounded \in Nat
  BY PredictionShape DEF IInv, PredictedOnce, Scorable
<1>6. Decisions \in [Scorable -> Nat] /\ Grounds \in [Scorable -> Nat]
  BY <1>5 DEF Decisions, Grounds
<1>7. Decisions' = [x \in Scorable \cup {n} |-> IF x = n THEN p.decision ELSE Decisions[x]]
  BY <1>1, <1>2 DEF Decisions
<1>8. Grounds' = [x \in Scorable \cup {n} |-> IF x = n THEN p.grounded ELSE Grounds[x]]
  BY <1>1, <1>2 DEF Grounds
<1>9. Total(Decisions') = Total(Decisions) + p.decision
  <2> PICK S, f, h, d : S = Scorable /\ f = Decisions /\ h = Decisions' /\ d = p.decision
    OBVIOUS
  <2>1. /\ IsFiniteSet(S) /\ f \in [S -> Nat] /\ n \notin S /\ d \in Nat
        /\ h = [x \in S \cup {n} |-> IF x = n THEN d ELSE f[x]]
    BY <1>2, <1>4, <1>6, <1>7
  <2>2. Total(h) = Total(f) + d
    BY ONLY <2>1, TotalAdd, SMTT(60)
  <2> QED BY <2>2
<1>10. Total(Grounds') = Total(Grounds) + p.grounded
  <2> PICK S, f, h, d : S = Scorable /\ f = Grounds /\ h = Grounds' /\ d = p.grounded
    OBVIOUS
  <2>1. /\ IsFiniteSet(S) /\ f \in [S -> Nat] /\ n \notin S /\ d \in Nat
        /\ h = [x \in S \cup {n} |-> IF x = n THEN d ELSE f[x]]
    BY <1>2, <1>4, <1>6, <1>8
  <2>2. Total(h) = Total(f) + d
    BY ONLY <2>1, TotalAdd, SMTT(60)
  <2> QED BY <2>2
<1> QED BY <1>3, <1>9, <1>10 DEF SumsReported, Tallied

\* A failure, and a case without a label, change no rate.
LEMMA ReportUncounted ==
  ASSUME IInv, Reported, NEW n \in Numbers, NEW p \in Predictions, Predict(n, p), ~Counted(n, p)
  PROVE  Reported'
<1>1. /\ n \notin DOMAIN preds /\ DOMAIN preds' = DOMAIN preds \cup {n} /\ IsFiniteSet(DOMAIN preds)
      /\ (\A m \in Scorable : preds'[m] = preds[m]) /\ gold' = gold
  BY ScorableStep
<1>2. Scorable' = Scorable
  BY ScorableStep
<1>3. /\ \A r \in Rates : score'[r] = score[r]
      /\ score'.cases = score.cases + 1
      /\ score'.unlabeled = score.unlabeled + One(n \notin DOMAIN gold)
      /\ score'.labeled = score.labeled + One(n \in DOMAIN gold)
      /\ score'.skipped = score.skipped + One(n \in DOMAIN gold)
  BY UncountedStep
<1>4. score'.cases = Cardinality(DOMAIN preds')
  <2>1. Cardinality(DOMAIN preds') = Cardinality(DOMAIN preds) + 1
    BY <1>1, FS_AddElement
  <2> QED BY <1>3, <2>1 DEF Reported, NumbersReported
<1>5. score'.unlabeled = Cardinality(DOMAIN preds' \ DOMAIN gold')
  <2> PICK X, Y : X = DOMAIN preds \ DOMAIN gold /\ Y = DOMAIN preds' \ DOMAIN gold'
    OBVIOUS
  <2>0. IsFiniteSet(X)
    BY ONLY <1>1, FS_Difference, X = DOMAIN preds \ DOMAIN gold
  <2>1. n \notin X /\ Y = IF n \notin DOMAIN gold THEN X \cup {n} ELSE X
    <3> PICK D, G : D = DOMAIN preds /\ G = DOMAIN gold
      OBVIOUS
    <3>1. n \notin D /\ DOMAIN preds' = D \cup {n} /\ DOMAIN gold' = G
      BY <1>1
    <3>2. X = D \ G /\ Y = (D \cup {n}) \ G
      BY <3>1
    <3>3. CASE n \in DOMAIN gold
      BY ONLY <3>1, <3>2, <3>3, G = DOMAIN gold
    <3>4. CASE n \notin DOMAIN gold
      BY ONLY <3>1, <3>2, <3>4, G = DOMAIN gold
    <3> QED BY ONLY <3>3, <3>4
  <2>2. Cardinality(Y) = Cardinality(X) + One(n \notin DOMAIN gold)
    BY ONLY <2>0, <2>1, CountStep
  <2> QED BY <1>3, <2>2 DEF Reported, NumbersReported
<1>6. score'.labeled - score'.skipped = Cardinality(Scorable')
  <2>1. score.labeled \in Nat /\ score.skipped \in Nat /\ One(n \in DOMAIN gold) \in Nat
    BY DEF IInv, PredictedOnce, Counters, One
  <2> QED BY <1>2, <1>3, <2>1 DEF Reported, NumbersReported
<1>7. /\ Exact' = Exact /\ GoldUnknowns' = GoldUnknowns /\ PredUnknowns' = PredUnknowns
      /\ BothUnknown' = BothUnknown /\ Covered' = Covered
  BY <1>1, <1>2 DEF Exact, GoldUnknowns, PredUnknowns, BothUnknown, Covered
<1>8. NumbersReported'
  <2>1. /\ score'.exact = score.exact /\ score'.goldUnknown = score.goldUnknown
        /\ score'.predUnknown = score.predUnknown /\ score'.unknownAgree = score.unknownAgree
        /\ score'.covered = score.covered
    BY <1>3 DEF Rates
  <2> QED BY <1>4, <1>5, <1>6, <1>7, <2>1 DEF Reported, NumbersReported
<1>9. ClassesReported'
  <2>1. score'.class = score.class
    BY <1>3 DEF Rates
  <2>2. \A v : /\ LabeledAs(v)' = LabeledAs(v) /\ PredictedAs(v)' = PredictedAs(v)
              /\ Hits(v)' = Hits(v) /\ FalseHits(v)' = FalseHits(v)
    BY <1>1, <1>2 DEF LabeledAs, PredictedAs, Hits, FalseHits
  <2> QED BY <2>1, <2>2 DEF Reported, ClassesReported
<1>10. SumsReported'
  <2>1. score'.decision = score.decision /\ score'.grounded = score.grounded
    BY <1>3 DEF Rates
  <2>2. Decisions' = Decisions /\ Grounds' = Grounds
    BY <1>1, <1>2 DEF Decisions, Grounds
  <2> QED BY <2>1, <2>2 DEF Reported, SumsReported
<1> QED BY <1>8, <1>9, <1>10 DEF Reported

LEMMA ReportStep == IInv /\ Reported /\ [Next]_vars => Reported'
<1> SUFFICES ASSUME IInv, Reported, [Next]_vars PROVE Reported'
  OBVIOUS
<1>1. CASE UNCHANGED <<gold, preds, score>>
  <2>1. Scorable' = Scorable
    BY <1>1 DEF Scorable
  <2>2. NumbersReported'
    BY <1>1, <2>1 DEF Reported, NumbersReported, Exact, GoldUnknowns, PredUnknowns, BothUnknown, Covered
  <2>3. ClassesReported'
    BY <1>1, <2>1, ZenonT(60) DEF Reported, ClassesReported, LabeledAs, PredictedAs, Hits, FalseHits
  <2>4. SumsReported'
    BY <1>1, <2>1 DEF Reported, SumsReported, Decisions, Grounds
  <2> QED BY <2>2, <2>3, <2>4 DEF Reported
<1>2. ASSUME NEW n \in Numbers, NEW p \in Predictions, Predict(n, p) PROVE Reported'
  <2>1. CASE Counted(n, p)
    BY <1>2, <2>1, NumbersCounted, ClassesCounted, SumsCounted DEF Reported
  <2> QED BY <1>2, <2>1, ReportUncounted
<1> QED BY <1>1, <1>2, StepKinds, ReportFresh

LEMMA InitReported == Init => Reported
<1> SUFFICES ASSUME Init PROVE Reported
  OBVIOUS
<1>1. Scorable = {} /\ DOMAIN preds = {} /\ score = Zero
  BY DEF Init, Scorable
<1>2. Cardinality({}) = 0
  BY FS_EmptySet
<1>3. NumbersReported
  BY <1>1, <1>2 DEF NumbersReported, Zero, Exact, GoldUnknowns, PredUnknowns, BothUnknown, Covered
<1>4. ClassesReported
  BY <1>1, <1>2 DEF ClassesReported, Zero, LabeledAs, PredictedAs, Hits, FalseHits
<1>5. DOMAIN Decisions = {} /\ DOMAIN Grounds = {}
  BY <1>1 DEF Decisions, Grounds
<1>6. Total(Decisions) = 0 /\ Total(Grounds) = 0
  BY <1>5, EmptyTotal
<1>7. SumsReported
  BY <1>1, <1>6 DEF SumsReported, Zero
<1> QED BY <1>3, <1>4, <1>7 DEF Reported

\* Every report of every run is about the cases with a label that the analyzer
\* did not fail on: each of its counts is that of a set of them.
THEOREM ReportCounts == Spec => []ReportsScorableOnly
BY InitReported, ReportStep, ReportedIsReport, EvaluationInvariance, PTL DEF Spec

-----------------------------------------------------------------------------
(* The averages *)

Column(field) == [v \in Vocabulary |-> score.class[v][field]]
Pool(field)   == Total(Column(field))

Averaged ==
  /\ score.tp = Pool("tp") /\ score.fp = Pool("fp")
  /\ score.tp + score.fn = Pool("gold")
  /\ score.fp + score.fn = 0 <=> score.exact = score.labeled - score.skipped
  /\ score.grounded <= score.decision

LEMMA AveragedIsAgreement == Averaged => AveragesAgree
BY Zenon DEF Averaged, AveragesAgree, Pool, Column

LEMMA ZeroPool == ASSUME NEW f, f = [v \in Vocabulary |-> 0] PROVE Total(f) = 0
<1>1. UNION {{x} \X (1..f[x]) : x \in DOMAIN f} = {}
  OBVIOUS
<1> QED BY <1>1, FS_EmptySet DEF Total

LEMMA AverageFresh == ASSUME score' = Zero PROVE Averaged'
<1>1. /\ Column("tp")' = [v \in Vocabulary |-> 0] /\ Column("fp")' = [v \in Vocabulary |-> 0]
      /\ Column("gold")' = [v \in Vocabulary |-> 0]
  BY DEF Column, Zero
<1>2. Pool("tp")' = 0 /\ Pool("fp")' = 0 /\ Pool("gold")' = 0
  BY <1>1, ZeroPool DEF Pool
<1> QED BY <1>2 DEF Averaged, Zero

LEMMA InitAveraged == Init => Averaged
<1> SUFFICES ASSUME score = Zero PROVE Averaged
  BY DEF Init
<1>1. /\ Column("tp") = [v \in Vocabulary |-> 0] /\ Column("fp") = [v \in Vocabulary |-> 0]
      /\ Column("gold") = [v \in Vocabulary |-> 0]
  BY DEF Column, Zero
<1>2. Pool("tp") = 0 /\ Pool("fp") = 0 /\ Pool("gold") = 0
  BY <1>1, ZeroPool DEF Pool
<1> QED BY <1>2 DEF Averaged, Zero

\* A label and a prediction differ by what one of them has and the other has not.
LEMMA Difference ==
  ASSUME NEW g, NEW o, IsFiniteSet(g), IsFiniteSet(o)
  PROVE  /\ Cardinality(g \cap o) \in Nat /\ Cardinality(g \ o) \in Nat /\ Cardinality(o \ g) \in Nat
         /\ Cardinality(g) = Cardinality(g \cap o) + Cardinality(g \ o)
         /\ g = o <=> Cardinality(g \ o) + Cardinality(o \ g) = 0
<1> PICK i, a, b : i = g \cap o /\ a = g \ o /\ b = o \ g
  OBVIOUS
<1>1. IsFiniteSet(i) /\ IsFiniteSet(a) /\ IsFiniteSet(b)
  BY FS_Intersection, FS_Difference
<1>2. Cardinality(i) \in Nat /\ Cardinality(a) \in Nat /\ Cardinality(b) \in Nat
  BY <1>1, FS_CardinalityType
<1>3. g = i \cup a /\ i \cap a = {}
  OBVIOUS
<1>4. Cardinality(g) = Cardinality(i) + Cardinality(a)
  BY <1>1, <1>3, DisjointUnion
<1>5. (Cardinality(a) = 0 <=> a = {}) /\ (Cardinality(b) = 0 <=> b = {})
  BY <1>1, FS_EmptySet
<1>6. g = o <=> a = {} /\ b = {}
  OBVIOUS
<1> QED BY <1>2, <1>4, <1>5, <1>6

LEMMA AverageCounted ==
  ASSUME IInv, Reported, Averaged, NEW n \in Numbers, NEW p \in Predictions, Predict(n, p), Counted(n, p)
  PROVE  Averaged'
<1> PICK g : g = gold[n]
  OBVIOUS
<1> PICK o : o = p.outcomes
  OBVIOUS
<1>1. score \in Counters /\ score' \in Counters
  BY PredictShape
<1>2. g \subseteq Vocabulary /\ o \subseteq Vocabulary /\ IsFiniteSet(g) /\ IsFiniteSet(o)
  <2>1. g \in Labelings
    BY CountedStep DEF Tallied
  <2> QED BY <2>1, LabelingShape, PredictionShape
<1>3. /\ score'.tp = score.tp + Cardinality(g \cap o)
      /\ score'.fp = score.fp + Cardinality(o \ g)
      /\ score'.fn = score.fn + Cardinality(g \ o)
  <2>1. Tallied(g, p)
    BY CountedStep
  <2> QED BY <2>1 DEF Tallied
<1>4. Pool("tp")' = Pool("tp") + Cardinality(g \cap o)
  <2> PICK f, h, T : f = Column("tp") /\ h = Column("tp")' /\ T = g \cap o
    OBVIOUS
  <2>1. f \in [Vocabulary -> Nat] /\ h \in [Vocabulary -> Nat] /\ T \in SUBSET Vocabulary
    BY <1>1, <1>2 DEF Column, Counters
  <2>2. ASSUME NEW v \in Vocabulary PROVE h[v] = IF v \in T THEN f[v] + 1 ELSE f[v]
    <3>1. score'.class[v].tp = score.class[v].tp + (IF v \in g /\ v \in o THEN 1 ELSE 0)
      BY CountedClass DEF One
    <3>2. f[v] = score.class[v].tp /\ h[v] = score'.class[v].tp /\ f[v] \in Nat
      BY <2>1 DEF Column
    <3>3. v \in T <=> v \in g /\ v \in o
      OBVIOUS
    <3> QED BY ONLY <3>1, <3>2, <3>3
  <2>3. Total(h) = Total(f) + Cardinality(T)
    BY ONLY <2>1, <2>2, VocabularyFinite, TotalGrow
  <2> QED BY <2>3 DEF Pool
<1>5. Pool("fp")' = Pool("fp") + Cardinality(o \ g)
  <2> PICK f, h, T : f = Column("fp") /\ h = Column("fp")' /\ T = o \ g
    OBVIOUS
  <2>1. f \in [Vocabulary -> Nat] /\ h \in [Vocabulary -> Nat] /\ T \in SUBSET Vocabulary
    BY <1>1, <1>2 DEF Column, Counters
  <2>2. ASSUME NEW v \in Vocabulary PROVE h[v] = IF v \in T THEN f[v] + 1 ELSE f[v]
    <3>1. score'.class[v].fp = score.class[v].fp + (IF v \notin g /\ v \in o THEN 1 ELSE 0)
      BY CountedClass DEF One
    <3>2. f[v] = score.class[v].fp /\ h[v] = score'.class[v].fp /\ f[v] \in Nat
      BY <2>1 DEF Column
    <3>3. v \in T <=> v \notin g /\ v \in o
      OBVIOUS
    <3> QED BY ONLY <3>1, <3>2, <3>3
  <2>3. Total(h) = Total(f) + Cardinality(T)
    BY ONLY <2>1, <2>2, VocabularyFinite, TotalGrow
  <2> QED BY <2>3 DEF Pool
<1>6. Pool("gold")' = Pool("gold") + Cardinality(g)
  <2> PICK f, h, T : f = Column("gold") /\ h = Column("gold")' /\ T = g
    OBVIOUS
  <2>1. f \in [Vocabulary -> Nat] /\ h \in [Vocabulary -> Nat] /\ T \in SUBSET Vocabulary
    BY <1>1, <1>2 DEF Column, Counters
  <2>2. ASSUME NEW v \in Vocabulary PROVE h[v] = IF v \in T THEN f[v] + 1 ELSE f[v]
    <3>1. score'.class[v].gold = score.class[v].gold + (IF v \in g THEN 1 ELSE 0)
      BY CountedClass DEF One
    <3>2. f[v] = score.class[v].gold /\ h[v] = score'.class[v].gold /\ f[v] \in Nat
      BY <2>1 DEF Column
    <3>3. v \in T <=> v \in g
      OBVIOUS
    <3> QED BY ONLY <3>1, <3>2, <3>3
  <2>3. Total(h) = Total(f) + Cardinality(T)
    BY ONLY <2>1, <2>2, VocabularyFinite, TotalGrow
  <2> QED BY <2>3 DEF Pool
<1>7. /\ Cardinality(g \cap o) \in Nat /\ Cardinality(g \ o) \in Nat /\ Cardinality(o \ g) \in Nat
      /\ Cardinality(g) = Cardinality(g \cap o) + Cardinality(g \ o)
      /\ g = o <=> Cardinality(g \ o) + Cardinality(o \ g) = 0
  BY ONLY <1>2, Difference, Zenon
<1> PICK i, a, b : i = Cardinality(g \cap o) /\ a = Cardinality(g \ o) /\ b = Cardinality(o \ g)
  OBVIOUS
<1>8. /\ i \in Nat /\ a \in Nat /\ b \in Nat /\ (g = o <=> a + b = 0)
      /\ score'.tp = score.tp + i /\ score'.fp = score.fp + b /\ score'.fn = score.fn + a
      /\ Pool("tp")' = Pool("tp") + i /\ Pool("fp")' = Pool("fp") + b /\ Pool("gold")' = Pool("gold") + (i + a)
  BY <1>3, <1>4, <1>5, <1>6, <1>7
<1>9. /\ score.tp \in Nat /\ score.fp \in Nat /\ score.fn \in Nat /\ score.exact \in Nat
      /\ score.labeled \in Nat /\ score.skipped \in Nat
      /\ score.decision \in Nat /\ score.grounded \in Nat
  BY <1>1 DEF Counters
<1>10. score'.tp = Pool("tp")' /\ score'.fp = Pool("fp")'
  BY <1>8 DEF Averaged
<1>11. score'.tp + score'.fn = Pool("gold")'
  BY <1>8, <1>9 DEF Averaged
<1>12. score'.fp + score'.fn = 0 <=> score'.exact = score'.labeled - score'.skipped
  <2>1. score.exact <= score.labeled - score.skipped
    <3>1. IsFiniteSet(Scorable)
      BY ScorableStep
    <3>2. Cardinality(Exact) <= Cardinality(Scorable)
      BY <3>1, FS_Subset DEF Exact
    <3> QED BY <3>2 DEF Reported, NumbersReported
  <2>2. /\ score'.exact = score.exact + (IF g = o THEN 1 ELSE 0)
        /\ score'.labeled = score.labeled + 1 /\ score'.skipped = score.skipped
    <3>1. Tallied(g, p)
      BY CountedStep
    <3> QED BY <3>1 DEF Tallied
  <2>3. score.fp + score.fn = 0 <=> score.exact = score.labeled - score.skipped
    BY DEF Averaged
  <2>4. CASE g = o
    <3>1. a = 0 /\ b = 0
      BY ONLY <1>8, <2>4
    <3>2. score'.fp = score.fp /\ score'.fn = score.fn /\ score'.exact = score.exact + 1
      BY ONLY <1>8, <1>9, <2>2, <2>4, <3>1
    <3> QED BY ONLY <1>9, <2>2, <2>3, <3>2
  <2>5. CASE g # o
    <3>1. a + b > 0
      BY ONLY <1>8, <2>5
    <3>2. score'.exact = score.exact
      BY ONLY <1>9, <2>2, <2>5
    <3> QED BY ONLY <1>8, <1>9, <2>1, <2>2, <3>1, <3>2
  <2> QED BY <2>4, <2>5
<1>13. score'.grounded <= score'.decision
  <2>1. Tallied(g, p)
    BY CountedStep
  <2>2. p.decision \in Nat /\ p.grounded \in Nat /\ p.grounded <= p.decision
    BY PredictionShape
  <2>3. score'.decision = score.decision + p.decision /\ score'.grounded = score.grounded + p.grounded
    BY <2>1 DEF Tallied
  <2>4. score.grounded <= score.decision
    BY DEF Averaged
  <2> QED BY ONLY <1>9, <2>2, <2>3, <2>4
<1> QED BY <1>10, <1>11, <1>12, <1>13 DEF Averaged

LEMMA AverageUncounted ==
  ASSUME IInv, Averaged, NEW n \in Numbers, NEW p \in Predictions, Predict(n, p), ~Counted(n, p)
  PROVE  Averaged'
<1>1. /\ \A r \in Rates : score'[r] = score[r]
      /\ score'.labeled = score.labeled + One(n \in DOMAIN gold)
      /\ score'.skipped = score.skipped + One(n \in DOMAIN gold)
  BY UncountedStep
<1>2. score.labeled \in Nat /\ score.skipped \in Nat /\ One(n \in DOMAIN gold) \in Nat
  BY DEF IInv, PredictedOnce, Counters, One
<1>3. score'.labeled - score'.skipped = score.labeled - score.skipped
  BY <1>1, <1>2
<1>4. /\ score'.tp = score.tp /\ score'.fp = score.fp /\ score'.fn = score.fn /\ score'.exact = score.exact
      /\ score'.decision = score.decision /\ score'.grounded = score.grounded /\ score'.class = score.class
  BY <1>1 DEF Rates
<1>5. \A f : Pool(f)' = Pool(f)
  BY <1>4 DEF Pool, Column
<1> QED BY <1>3, <1>4, <1>5 DEF Averaged

\* In every report of every run the micro average pools the classes, and it is
\* perfect when every case matches, and only then.
THEOREM AveragePools == Spec => []AveragesAgree
<1>1. IInv /\ Reported /\ Averaged /\ [Next]_vars => Averaged'
  <2> SUFFICES ASSUME IInv, Reported, Averaged, [Next]_vars PROVE Averaged'
    OBVIOUS
  <2>1. CASE UNCHANGED <<gold, preds, score>>
    BY <2>1 DEF Averaged, Pool, Column
  <2>2. ASSUME NEW n \in Numbers, NEW p \in Predictions, Predict(n, p) PROVE Averaged'
    BY <2>2, AverageCounted, AverageUncounted
  <2> QED BY <2>1, <2>2, StepKinds, AverageFresh
<1> QED BY <1>1, InitAveraged, InitReported, ReportStep, AveragedIsAgreement, EvaluationInvariance, PTL DEF Spec

-----------------------------------------------------------------------------
(* The two together *)

\* Predict, of what the analyzer hands over; DecisionEvidenceKinds.
Discusses(items, id)  == ItemOf(items, id).kind \in {"review", "review_comment", "issue_comment"}
DecisionClaims(handed, items) == VerifyResult(handed.claims, items)["rejected_or_questioned_approaches"]
GroundedOf(claims, items) == {k \in DOMAIN claims : \E id \in ToSet(claims[k].ids) : Discusses(items, id)}
PredictionOf(handed, items) ==
  [outcomes |-> ToSet(VerifiedOutcomes(handed.outcomes)),
   decision |-> Len(DecisionClaims(handed, items)),
   grounded |-> Cardinality(GroundedOf(DecisionClaims(handed, items), items)),
   failed   |-> FALSE]

\* The kinds of what a claim cites, as Evaluation tells them apart.
KindsOf(claim, items) ==
  {IF Discusses(items, id) THEN "discussion" ELSE "other" : id \in ToSet(claim.ids)}

\* With the vocabulary of VerifiedOutcomes, whatever an analyzer hands over of
\* any evidence is predicted as Evaluation has it: a set of outcomes that is
\* verified, and decision claims each of which cites something.
THEOREM PredictionsAgree ==
  ASSUME Vocabulary = Allowed, Unknown = "unknown",
         NEW said, NEW handed, NEW items, Handed(said, handed, items),
         ToSet(handed.outcomes) \in Answers, Len(DecisionClaims(handed, items)) <= MaxClaims
  PROVE  PredictionOf(handed, items) \in Predictions
<1>1. PICK values : values = handed.outcomes
  OBVIOUS
<1>2. PICK outcomes : outcomes = ToSet(values)
  OBVIOUS
<1>3. ToSet(VerifiedOutcomes(values)) = Verified(outcomes)
  <2>1. said.outcomes \in Seq(String)
    BY DEF Handed, AnalysisResult
  <2>2. "unknown" \in String
    BY Zenon DEF String, Allowed
  <2>3. <<"unknown">> \in Seq(String)
    BY <2>2
  <2>4. values \in Seq(String)
    BY <1>1, <2>1, <2>3 DEF Handed
  <2>5. ToSet(VerifiedOutcomes(values)) = AllowedOf(values)
    BY <2>4, OutcomesVerified
  <2> QED
    BY <1>2, <2>5 DEF AllowedOf, Verified
<1>4. PICK claims : claims = DecisionClaims(handed, items)
  OBVIOUS
<1>5. claims \in Seq(ClaimRecord) /\ Linked(claims, items)
  <2>1. handed.claims["rejected_or_questioned_approaches"] \in Seq(Confident)
    BY DEF Handed, Categories
  <2>2. PICK mine \in Seq(ClaimRecord) : mine = handed.claims["rejected_or_questioned_approaches"]
    BY <2>1, ConfidentClaims
  <2>3. claims = Filtered(mine, items, {"empty"})
    BY <1>4, <2>2 DEF DecisionClaims, VerifyResult, Categories
  <2>4. claims \in Seq(ClaimRecord)
    BY <2>2, <2>3, FilteredClaims DEF Gated
  <2> QED
    BY <2>2, <2>3, <2>4, FilteredLinked
<1>6. PICK n \in Nat : n = Len(claims) /\ DOMAIN claims = 1..n /\ n <= MaxClaims
  BY <1>4, <1>5
<1>7. PICK c : c = [k \in 1..n |-> KindsOf(claims[k], items)]
  OBVIOUS
<1>8. ASSUME NEW k \in 1..n
      PROVE  /\ KindsOf(claims[k], items) \in (SUBSET Kinds) \ {{}}
             /\ "discussion" \in c[k] <=> \E id \in ToSet(claims[k].ids) : Discusses(items, id)
  <2>1. ToSet(claims[k].ids) # {}
    BY <1>5, <1>6 DEF Linked, KnownIds
  <2>2. KindsOf(claims[k], items) \subseteq Kinds
    BY DEF KindsOf, Kinds
  <2>3. KindsOf(claims[k], items) # {}
    BY <2>1 DEF KindsOf
  <2>4. c[k] = KindsOf(claims[k], items)
    BY <1>7
  <2>5. "discussion" \in KindsOf(claims[k], items)
          <=> \E id \in ToSet(claims[k].ids) : Discusses(items, id)
    BY DEF KindsOf
  <2> QED
    BY <2>2, <2>3, <2>4, <2>5
<1>9. c \in [1..n -> (SUBSET Kinds) \ {{}}] /\ DOMAIN c = 1..n
  BY <1>7, <1>8
<1>10. Len(c) = n
  BY <1>6, <1>9
<1>11. c \in Claims
  <2>1. n \in 0..MaxClaims
    BY <1>6, BoundAssumption
  <2> QED
    BY <1>9, <2>1 DEF Claims
<1>12. GroundedOf(claims, items) = {k \in DOMAIN c : "discussion" \in c[k]}
  BY <1>6, <1>8, <1>9 DEF GroundedOf
<1>13. PredictionOf(handed, items) =
         [outcomes |-> Verified(outcomes), decision |-> Len(c), failed |-> FALSE,
          grounded |-> Cardinality({k \in DOMAIN c : "discussion" \in c[k]})]
  BY <1>1, <1>3, <1>4, <1>6, <1>10, <1>12 DEF PredictionOf
<1>14. outcomes \in Answers
  BY <1>1, <1>2
<1> DEFINE Answered ==
             {[outcomes |-> Verified(a), decision |-> Len(d), failed |-> FALSE,
               grounded |-> Cardinality({k \in DOMAIN d : "discussion" \in d[k]})] :
                a \in Answers, d \in Claims}
<1>15. \A p : p \in Answered => p \in Predictions
  BY SMT DEF Predictions
<1>16. \A p : p \in Answered <=>
         \E a \in Answers, d \in Claims :
           p = [outcomes |-> Verified(a), decision |-> Len(d), failed |-> FALSE,
                grounded |-> Cardinality({k \in DOMAIN d : "discussion" \in d[k]})]
  BY SMT
<1> HIDE DEF Answered
<1>17. \E a \in Answers, d \in Claims :
         PredictionOf(handed, items)
           = [outcomes |-> Verified(a), decision |-> Len(d), failed |-> FALSE,
              grounded |-> Cardinality({k \in DOMAIN d : "discussion" \in d[k]})]
  BY ONLY <1>11, <1>13, <1>14, Zenon
<1> QED
  BY ONLY <1>15, <1>16, <1>17, Zenon
=============================================================================
