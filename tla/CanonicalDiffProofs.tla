-------------------------- MODULE CanonicalDiffProofs --------------------------
(***************************************************************************)
(* Proofs about CanonicalDiff, for any documents, limits and spellings.    *)
(* A sorted array is a permutation of the array it is sorted from; an      *)
(* array that is in order already is left as it is, and an array whose     *)
(* natural keys differ is in one order only.  What a stored document says, *)
(* and what the rows between two of them say, follows.                     *)
(***************************************************************************)
EXTENDS CanonicalDiff, Integers, FiniteSetTheorems, WellFoundedInduction, TLAPS

-----------------------------------------------------------------------------
(* The greatest of a finite set of numbers.                                 *)

LEMMA Lowest ==
    ASSUME NEW S \in SUBSET Nat, S # {}
    PROVE  \E n \in S : \A m \in S : n <= m
<1>1. PICK n \in S : \A m \in S : ~(<<m, n>> \in OpToRel(<, Nat))
  BY NatLessThanWellFounded, WFMin, Zenon
<1>2. ASSUME NEW m \in S, m < n PROVE FALSE
  <2> DEFINE pair == <<m, n>>
  <2>1. pair \in Nat \X Nat /\ pair[1] < pair[2]
    BY <1>2
  <2> HIDE DEF pair
  <2>2. pair \in OpToRel(<, Nat)
    BY <2>1, Zenon DEF OpToRel
  <2>3. QED
    BY <1>1, <2>2 DEF pair
<1>3. \A m \in S : n <= m
  BY <1>2, SMT
<1>4. QED
  BY <1>3

LEMMA MaxIsGreatest ==
    ASSUME NEW S \in SUBSET Nat, IsFiniteSet(S), S # {}
    PROVE  Max(S) \in S /\ \A v \in S : v <= Max(S)
<1> DEFINE upto(v) == {u \in S : u <= v}
           left == {n \in Nat : \E v \in S : n = Cardinality(S) - Cardinality(upto(v))}
<1>1. Cardinality(S) \in Nat
  BY FS_CardinalityType
<1>2. ASSUME NEW v \in S
      PROVE  /\ IsFiniteSet(upto(v)) /\ Cardinality(upto(v)) \in Nat
             /\ Cardinality(upto(v)) <= Cardinality(S)
  <2>1. upto(v) \in SUBSET S
    OBVIOUS
  <2>2. IsFiniteSet(upto(v)) /\ Cardinality(upto(v)) <= Cardinality(S)
    BY <2>1, FS_Subset
  <2>3. QED
    BY <2>2, FS_CardinalityType
<1>3. left # {}
  <2>1. PICK v \in S : TRUE
    OBVIOUS
  <2>2. Cardinality(S) - Cardinality(upto(v)) \in Nat
    BY <1>1, <1>2
  <2>3. QED
    BY <2>2
<1>4. PICK n \in left : \A m \in left : n <= m
  BY <1>3, Lowest
<1>5. PICK top \in S : n = Cardinality(S) - Cardinality(upto(top))
  OBVIOUS
<1>6. /\ n \in Nat /\ \A v \in S : Cardinality(S) - Cardinality(upto(v)) \in Nat
      /\ \A v \in S : n <= Cardinality(S) - Cardinality(upto(v))
  <2>1. ASSUME NEW v \in S PROVE Cardinality(S) - Cardinality(upto(v)) \in Nat
    BY <1>1, <1>2
  <2>2. ASSUME NEW v \in S PROVE Cardinality(S) - Cardinality(upto(v)) \in left
    BY <2>1
  <2>3. QED
    BY <1>4, <2>1, <2>2
<1>7. ASSUME NEW v \in S PROVE v <= top
  <2>1. CASE top < v
    <3>1. upto(top) \in SUBSET upto(v) /\ upto(top) # upto(v)
      <4>1. ASSUME NEW u \in upto(top) PROVE u \in upto(v)
        <5>1. u \in S /\ u <= top /\ u \in Nat /\ top \in Nat /\ v \in Nat
          OBVIOUS
        <5>2. u <= v
          BY <2>1, <5>1
        <5>3. QED
          BY <5>1, <5>2
      <4>2. v \in upto(v) /\ v \notin upto(top)
        BY <2>1
      <4>3. QED
        BY <4>1, <4>2
    <3>2. Cardinality(upto(top)) < Cardinality(upto(v))
      BY <1>2, <3>1, FS_Subset
    <3>3. n <= Cardinality(S) - Cardinality(upto(v))
      BY <1>6
    <3>4. QED
      BY <1>1, <1>2, <1>5, <3>2, <3>3
  <2>2. QED
    BY <2>1, SMT
<1>8. \A v \in S : top >= v
  BY <1>7, SMT
<1>9. Max(S) \in S /\ \A v \in S : Max(S) >= v
  BY <1>8 DEF Max
<1>10. QED
  BY <1>9, SMT
-----------------------------------------------------------------------------
(* Sorting.                                                                 *)

\* The rank of an entry follows its natural key first.
LEMMA RankByKey ==
    ASSUME NEW f, NEW d \in Entry, NEW e \in Entry
    PROVE  /\ Rank(f, d) \in Nat
           /\ d.key < e.key => Rank(f, d) < Rank(f, e)
<1>1. /\ d.key \in Nat /\ d.value \in Nat /\ e.key \in Nat /\ e.value \in Nat
      /\ d.value \in Spellings
  BY DocumentsAssumption DEF Entry
<1>2. Base \in Nat /\ d.value < Base
  <2>1. Spellings \in SUBSET Nat /\ IsFiniteSet(Spellings) /\ Spellings # {}
    BY <1>1, DocumentsAssumption
  <2>2. Max(Spellings) \in Spellings /\ \A v \in Spellings : v <= Max(Spellings)
    BY <2>1, MaxIsGreatest
  <2>3. Max(Spellings) \in Nat /\ d.value <= Max(Spellings)
    BY <1>1, <2>1, <2>2
  <2>4. QED
    BY <1>1, <2>3 DEF Base
<1>3. d.key * Base \in Nat /\ e.key * Base \in Nat
  BY <1>1, <1>2
<1>4. d.key < e.key => (d.key + 1) * Base <= e.key * Base
  BY <1>1, <1>2
<1>5. (d.key + 1) * Base = d.key * Base + Base
  BY <1>1, <1>2
<1>6. QED
  BY <1>1, <1>2, <1>3, <1>4, <1>5 DEF Rank

\* The places that a sort puts up to and including i.
Before(f, seq, i) ==
    {j \in DOMAIN seq : \/ Rank(f, seq[j]) < Rank(f, seq[i])
                        \/ (Rank(f, seq[j]) = Rank(f, seq[i]) /\ j <= i)}

\* Where a sort puts the entry at each place.
Place(f, seq) == [i \in DOMAIN seq |-> Cardinality(Before(f, seq, i))]

LEMMA BeforeFinite ==
    ASSUME NEW f, NEW seq \in Seq(Entry), NEW i \in DOMAIN seq
    PROVE  /\ IsFiniteSet(Before(f, seq, i))
           /\ Cardinality(Before(f, seq, i)) \in DOMAIN seq
<1>1. /\ DOMAIN seq = 1 .. Len(seq) /\ Len(seq) \in Nat
      /\ IsFiniteSet(DOMAIN seq) /\ Cardinality(DOMAIN seq) = Len(seq)
  BY FS_Interval
<1>2. Before(f, seq, i) \in SUBSET DOMAIN seq /\ i \in Before(f, seq, i)
  <2>1. i <= i
    BY <1>1
  <2>2. QED
    BY <2>1 DEF Before
<1>3. /\ IsFiniteSet(Before(f, seq, i))
      /\ Cardinality(Before(f, seq, i)) <= Len(seq)
  BY <1>1, <1>2, FS_Subset
<1>4. Cardinality(Before(f, seq, i)) \in Nat
  BY <1>3, FS_CardinalityType
<1>5. Cardinality(Before(f, seq, i)) # 0
  BY <1>2, <1>3, FS_EmptySet
<1>6. QED
  BY <1>1, <1>3, <1>4, <1>5

LEMMA PlacesInOrder ==
    ASSUME NEW f, NEW seq \in Seq(Entry), NEW i \in DOMAIN seq, NEW j \in DOMAIN seq, i # j,
           \/ Rank(f, seq[i]) < Rank(f, seq[j])
           \/ Rank(f, seq[i]) = Rank(f, seq[j]) /\ i <= j
    PROVE  Place(f, seq)[i] < Place(f, seq)[j]
<1>1. \A k \in DOMAIN seq : k \in Nat /\ Rank(f, seq[k]) \in Nat
  BY RankByKey
<1>2. Before(f, seq, i) \in SUBSET Before(f, seq, j)
  <2>1. ASSUME NEW k \in Before(f, seq, i) PROVE k \in Before(f, seq, j)
    <3>1. /\ k \in DOMAIN seq
          /\ \/ Rank(f, seq[k]) < Rank(f, seq[i])
             \/ Rank(f, seq[k]) = Rank(f, seq[i]) /\ k <= i
      BY DEF Before
    <3>2. \/ Rank(f, seq[k]) < Rank(f, seq[j])
          \/ Rank(f, seq[k]) = Rank(f, seq[j]) /\ k <= j
      BY <1>1, <3>1
    <3>3. QED
      BY <3>1, <3>2 DEF Before
  <2>2. QED
    BY <2>1
<1>3. j \in Before(f, seq, j) /\ j \notin Before(f, seq, i)
  BY <1>1 DEF Before
<1>4. /\ IsFiniteSet(Before(f, seq, j)) /\ Cardinality(Before(f, seq, i)) \in Nat
      /\ Cardinality(Before(f, seq, j)) \in Nat
  <2>1. DOMAIN seq \subseteq Nat
    OBVIOUS
  <2>2. QED
    BY <2>1, BeforeFinite
<1>5. Cardinality(Before(f, seq, i)) < Cardinality(Before(f, seq, j))
  BY <1>2, <1>3, <1>4, FS_Subset
<1>6. QED
  BY <1>5 DEF Place

\* Each place of a sorted array holds the entry of one place before the sort.
LEMMA SortPermutes ==
    ASSUME NEW f, NEW seq \in Seq(Entry)
    PROVE  /\ Place(f, seq) \in Bijection(DOMAIN seq, DOMAIN seq)
           /\ Sorted(f, seq) \in Seq(Entry) /\ DOMAIN Sorted(f, seq) = DOMAIN seq
           /\ \A i \in DOMAIN seq : Sorted(f, seq)[Place(f, seq)[i]] = seq[i]
<1> DEFINE D == DOMAIN seq
           place == Place(f, seq)
<1>1. D = 1 .. Len(seq) /\ Len(seq) \in Nat /\ IsFiniteSet(D)
  BY FS_Interval
<1>2. place \in [D -> D]
  BY BeforeFinite DEF Place
<1>3. \A i, j \in D : place[i] = place[j] => i = j
  <2>1. ASSUME NEW i \in D, NEW j \in D, i # j PROVE place[i] # place[j]
    <3>1. Rank(f, seq[i]) \in Nat /\ Rank(f, seq[j]) \in Nat /\ i \in Nat /\ j \in Nat
      BY RankByKey
    <3>2. place[i] < place[j] \/ place[j] < place[i]
      BY <2>1, <3>1, PlacesInOrder
    <3>3. place[i] \in Nat /\ place[j] \in Nat
      BY <1>1, <1>2
    <3>4. QED
      BY <3>2, <3>3
  <2>2. QED
    BY <2>1
<1>4. place \in Injection(D, D)
  BY <1>2, <1>3 DEF Injection, IsInjective
<1>5. place \in Surjection(D, D)
  BY <1>1, <1>4, FS_Injection
<1>6. place \in Bijection(D, D)
  BY <1>4, <1>5 DEF Bijection
<1>7. DOMAIN Sorted(f, seq) = D
  BY DEF Sorted
<1>8. ASSUME NEW i \in D PROVE Sorted(f, seq)[place[i]] = seq[i]
  <2>1. \A k \in D : place[k] = Cardinality(Before(f, seq, k))
    BY DEF Place
  <2>2. (CHOOSE k \in D : Cardinality(Before(f, seq, k)) = place[i]) = i
    <3> HIDE DEF place
    <3>1. \A k \in D : Cardinality(Before(f, seq, k)) = place[i] => k = i
      BY <1>3, <2>1
    <3>2. QED
      BY <2>1, <3>1
  <2>3. Sorted(f, seq) = [n \in D |-> seq[CHOOSE k \in D : Cardinality(Before(f, seq, k)) = n]]
    BY DEF Sorted, Before
  <2>4. place[i] \in D
    BY <1>2
  <2> HIDE DEF place
  <2>5. Sorted(f, seq)[place[i]] = seq[CHOOSE k \in D : Cardinality(Before(f, seq, k)) = place[i]]
    BY <2>3, <2>4
  <2>6. QED
    BY <2>2, <2>5
<1> HIDE DEF place
<1>9. \A i \in D : Sorted(f, seq)[place[i]] = seq[i]
  BY <1>8
<1>10. \A n \in D : Sorted(f, seq)[n] \in Entry
  <2>1. ASSUME NEW n \in D PROVE Sorted(f, seq)[n] \in Entry
    <3>1. PICK i \in D : place[i] = n
      BY <1>5 DEF Surjection
    <3>2. QED
      BY <1>9, <3>1
  <2>2. QED
    BY <2>1
<1>11. Sorted(f, seq) \in Seq(Entry)
  <2>1. Sorted(f, seq) = [n \in 1 .. Len(seq) |-> Sorted(f, seq)[n]]
    <3> DEFINE from(n) == CHOOSE k \in D : Cardinality(Before(f, seq, k)) = n
    <3>1. Sorted(f, seq) = [n \in D |-> seq[from(n)]]
      BY DEF Sorted, Before
    <3> HIDE DEF from
    <3>2. QED
      BY <1>1, <3>1
  <2>2. QED
    BY <1>1, <1>10, <2>1
<1>12. QED
  BY <1>6, <1>7, <1>9, <1>11 DEF place

Ordered(f, seq) ==
    \A m, n \in DOMAIN seq : m < n => Rank(f, seq[m]) <= Rank(f, seq[n])

LEMMA SortOrders ==
    ASSUME NEW f, NEW seq \in Seq(Entry)
    PROVE  Ordered(f, Sorted(f, seq))
<1> DEFINE D == DOMAIN seq
           place == Place(f, seq)
<1>1. /\ place \in Surjection(D, D) /\ place \in [D -> D]
      /\ DOMAIN Sorted(f, seq) = D /\ D \subseteq Nat
      /\ \A i \in D : Sorted(f, seq)[place[i]] = seq[i]
  BY SortPermutes DEF Bijection, Surjection
<1>2. ASSUME NEW m \in D, NEW n \in D, m < n
      PROVE  Rank(f, Sorted(f, seq)[m]) <= Rank(f, Sorted(f, seq)[n])
  <2>1. PICK i \in D : place[i] = m
    BY <1>1 DEF Surjection
  <2>2. PICK j \in D : place[j] = n
    BY <1>1 DEF Surjection
  <2>3. Rank(f, seq[i]) \in Nat /\ Rank(f, seq[j]) \in Nat
    BY RankByKey
  <2>4. ASSUME Rank(f, seq[j]) < Rank(f, seq[i]) PROVE FALSE
    <3>1. i # j
      BY <2>3, <2>4
    <3>2. place[j] < place[i]
      BY <2>4, <3>1, PlacesInOrder
    <3>3. QED
      BY <1>1, <1>2, <2>1, <2>2, <3>2
  <2>5. Rank(f, seq[i]) <= Rank(f, seq[j])
    BY <2>3, <2>4
  <2>6. QED
    BY <1>1, <2>1, <2>2, <2>5
<1>3. QED
  BY <1>1, <1>2 DEF Ordered

\* Sorting leaves alone what is in order: the sort is stable.
LEMMA SortKeeps ==
    ASSUME NEW f, NEW seq \in Seq(Entry), Ordered(f, seq)
    PROVE  Sorted(f, seq) = seq
<1> DEFINE D == DOMAIN seq
<1>1. D = 1 .. Len(seq) /\ Len(seq) \in Nat
  OBVIOUS
<1>2. ASSUME NEW i \in D PROVE Place(f, seq)[i] = i
  <2>1. Before(f, seq, i) = 1 .. i
    <3>1. ASSUME NEW j \in D PROVE j \in Before(f, seq, i) <=> j <= i
      <4>1. Rank(f, seq[i]) \in Nat /\ Rank(f, seq[j]) \in Nat
        BY RankByKey
      <4>2. /\ j < i => Rank(f, seq[j]) <= Rank(f, seq[i])
            /\ i < j => Rank(f, seq[i]) <= Rank(f, seq[j])
        BY DEF Ordered
      <4>3. QED
        BY <1>1, <4>1, <4>2 DEF Before
    <3>2. Before(f, seq, i) \subseteq D
      BY DEF Before
    <3>3. QED
      <4>1. i \in Nat /\ i <= Len(seq) /\ \A j \in 1 .. i : j \in D
        BY <1>1
      <4>2. \A j : j \in Before(f, seq, i) <=> j \in 1 .. i
        BY <1>1, <3>1, <3>2, <4>1
      <4>3. QED
        BY <4>2
  <2>2. Cardinality(1 .. i) = i
    BY <1>1, FS_Interval
  <2>3. QED
    BY <2>1, <2>2 DEF Place
<1>3. DOMAIN Sorted(f, seq) = D /\ \A i \in D : Sorted(f, seq)[i] = seq[i]
  BY <1>2, SortPermutes
<1>4. Sorted(f, seq) \in Seq(Entry)
  BY SortPermutes
<1>5. QED
  BY <1>1, <1>3, <1>4
-----------------------------------------------------------------------------
(* Canonical documents.                                                     *)

Plain(seq) == \A i \in DOMAIN seq : Fold[seq[i].value] = seq[i].value

IsCanonical(doc) ==
    /\ doc \in Documents
    /\ \A f \in Arrays : Ordered(f, doc.arrays[f]) /\ Plain(doc.arrays[f])
    /\ doc.info # "hollow"

\* Every array is within the bound on the entries of a payload.
Fits(doc) == \A f \in Arrays : Len(doc.arrays[f]) <= MaxEntries

\* The entries of a document are what its type says.
LEMMA DocumentShape ==
    ASSUME NEW p \in Documents
    PROVE  /\ p.info \in InfoKinds /\ p.arrays \in [Arrays -> Seq(Entry)]
           /\ p = [arrays |-> p.arrays, info |-> p.info]
BY DEF Documents

\* Documents with the same parts are the same.
LEMMA SameDocument ==
    ASSUME NEW p \in Documents, NEW q \in Documents,
           p.info = q.info, \A f \in Arrays : p.arrays[f] = q.arrays[f]
    PROVE  p = q
<1>1. p.arrays = q.arrays
  BY DocumentShape
<1>2. QED
  BY <1>1, DocumentShape

LEMMA FoldShape ==
    ASSUME NEW seq \in Seq(Entry)
    PROVE  /\ Folded(seq) \in Seq(Entry) /\ DOMAIN Folded(seq) = DOMAIN seq
           /\ \A i \in DOMAIN seq : /\ Folded(seq)[i].key = seq[i].key
                                    /\ Folded(seq)[i].value = Fold[seq[i].value]
           /\ Plain(Folded(seq))
<1>1. \A v \in Spellings : Fold[v] \in Spellings /\ Fold[Fold[v]] = Fold[v]
  BY DocumentsAssumption
<1>2. ASSUME NEW i \in DOMAIN seq
      PROVE  /\ seq[i] \in Entry /\ seq[i].value \in Spellings
             /\ [seq[i] EXCEPT !.value = Fold[@]] \in Entry
             /\ [seq[i] EXCEPT !.value = Fold[@]].key = seq[i].key
             /\ [seq[i] EXCEPT !.value = Fold[@]].value = Fold[seq[i].value]
  <2>1. seq[i] \in Entry
    OBVIOUS
  <2>2. QED
    BY <1>1, <2>1 DEF Entry
<1>3. Folded(seq) = [i \in 1 .. Len(seq) |-> [seq[i] EXCEPT !.value = Fold[@]]]
  BY DEF Folded
<1>4. DOMAIN Folded(seq) = DOMAIN seq /\ Len(seq) \in Nat
  BY <1>3
<1>5. \A i \in DOMAIN seq : Folded(seq)[i] = [seq[i] EXCEPT !.value = Fold[@]]
  BY <1>3
<1>6. Folded(seq) \in Seq(Entry)
  <2>1. \A i \in 1 .. Len(seq) : [seq[i] EXCEPT !.value = Fold[@]] \in Entry
    BY <1>2
  <2>2. QED
    BY <1>3, <1>4, <2>1
<1>7. Plain(Folded(seq))
  <2>1. ASSUME NEW i \in DOMAIN seq PROVE Fold[Folded(seq)[i].value] = Folded(seq)[i].value
    <3>1. Folded(seq)[i].value = Fold[seq[i].value] /\ seq[i].value \in Spellings
      BY <1>2, <1>5
    <3>2. QED
      BY <1>1, <3>1
  <2>2. QED
    BY <1>4, <2>1 DEF Plain
<1>8. QED
  BY <1>2, <1>4, <1>5, <1>6, <1>7

LEMMA FoldKeeps ==
    ASSUME NEW seq \in Seq(Entry), Plain(seq)
    PROVE  Folded(seq) = seq
<1>1. ASSUME NEW i \in DOMAIN seq PROVE Folded(seq)[i] = seq[i]
  <2>1. seq[i] \in Entry /\ Folded(seq)[i] \in Entry
    BY FoldShape
  <2>2. Folded(seq)[i].key = seq[i].key /\ Folded(seq)[i].value = seq[i].value
    BY FoldShape DEF Plain
  <2>3. QED
    BY <2>1, <2>2 DEF Entry
<1>2. QED
  BY <1>1, FoldShape

\* Sorting does not respell.
LEMMA SortedPlain ==
    ASSUME NEW f, NEW seq \in Seq(Entry), Plain(seq)
    PROVE  Plain(Sorted(f, seq))
<1>1. ASSUME NEW n \in DOMAIN seq
      PROVE  Fold[Sorted(f, seq)[n].value] = Sorted(f, seq)[n].value
  <2>1. PICK i \in DOMAIN seq : Place(f, seq)[i] = n
    BY SortPermutes DEF Bijection, Surjection
  <2>2. Sorted(f, seq)[n] = seq[i]
    BY <2>1, SortPermutes
  <2>3. QED
    BY <2>2 DEF Plain
<1>2. QED
  BY <1>1, SortPermutes DEF Plain

LEMMA CanonicalShape ==
    ASSUME NEW p \in Documents
    PROVE  /\ IsCanonical(Canonical(p))
           /\ Canonical(p).info = Trimmed(p.info)
           /\ \A f \in Arrays :
                /\ p.arrays[f] \in Seq(Entry)
                /\ Canonical(p).arrays[f] = Sorted(f, Folded(p.arrays[f]))
                /\ Len(Canonical(p).arrays[f]) = Len(p.arrays[f])
<1>1. /\ Canonical(p).info = Trimmed(p.info)
      /\ Canonical(p).arrays = [f \in Arrays |-> Sorted(f, Folded(p.arrays[f]))]
      /\ Canonical(p) = [arrays |-> Canonical(p).arrays, info |-> Canonical(p).info]
  BY DEF Canonical
<1>2. Canonical(p).info \in InfoKinds /\ Canonical(p).info # "hollow"
  BY <1>1, DocumentShape DEF InfoKinds, Trimmed
<1>3. ASSUME NEW f \in Arrays
      PROVE  /\ p.arrays[f] \in Seq(Entry)
             /\ Canonical(p).arrays[f] = Sorted(f, Folded(p.arrays[f]))
             /\ Sorted(f, Folded(p.arrays[f])) \in Seq(Entry)
             /\ Len(Canonical(p).arrays[f]) = Len(p.arrays[f])
             /\ Ordered(f, Canonical(p).arrays[f]) /\ Plain(Canonical(p).arrays[f])
  <2>1. p.arrays[f] \in Seq(Entry)
    BY DocumentShape
  <2>2. Canonical(p).arrays[f] = Sorted(f, Folded(p.arrays[f]))
    BY <1>1
  <2>3. /\ Folded(p.arrays[f]) \in Seq(Entry) /\ Plain(Folded(p.arrays[f]))
        /\ DOMAIN Folded(p.arrays[f]) = DOMAIN p.arrays[f]
    BY <2>1, FoldShape
  <2>4. /\ Sorted(f, Folded(p.arrays[f])) \in Seq(Entry)
        /\ DOMAIN Sorted(f, Folded(p.arrays[f])) = DOMAIN p.arrays[f]
        /\ Ordered(f, Sorted(f, Folded(p.arrays[f]))) /\ Plain(Sorted(f, Folded(p.arrays[f])))
    BY <2>3, SortPermutes, SortOrders, SortedPlain
  <2>5. Len(Sorted(f, Folded(p.arrays[f]))) = Len(p.arrays[f])
    BY <2>1, <2>4
  <2>6. QED
    BY <2>1, <2>2, <2>4, <2>5
<1>4. Canonical(p).arrays \in [Arrays -> Seq(Entry)]
  BY <1>1, <1>3
<1>5. Canonical(p) \in Documents
  BY <1>1, <1>2, <1>4 DEF Documents
<1>6. QED
  BY <1>1, <1>2, <1>3, <1>5 DEF IsCanonical

LEMMA CanonicalKept ==
    ASSUME NEW doc, IsCanonical(doc)
    PROVE  /\ Canonical(doc).arrays = doc.arrays
           /\ doc.info # "empty" => Canonical(doc) = doc
<1>1. doc \in Documents /\ Canonical(doc) \in Documents
  BY CanonicalShape DEF IsCanonical
<1>2. ASSUME NEW f \in Arrays PROVE Canonical(doc).arrays[f] = doc.arrays[f]
  <2>1. doc.arrays[f] \in Seq(Entry) /\ Ordered(f, doc.arrays[f]) /\ Plain(doc.arrays[f])
    BY <1>1, DocumentShape DEF IsCanonical
  <2>2. Folded(doc.arrays[f]) = doc.arrays[f]
    BY <2>1, FoldKeeps
  <2>3. Sorted(f, doc.arrays[f]) = doc.arrays[f]
    BY <2>1, SortKeeps
  <2>4. QED
    BY <1>1, <2>2, <2>3, CanonicalShape
<1>3. Canonical(doc).arrays = doc.arrays
  <2>1. doc.arrays \in [Arrays -> Seq(Entry)] /\ Canonical(doc).arrays \in [Arrays -> Seq(Entry)]
    BY <1>1, DocumentShape
  <2>2. QED
    BY <1>2, <2>1
<1>4. doc.info # "empty" => Canonical(doc).info = doc.info
  BY <1>1, CanonicalShape, DocumentShape DEF IsCanonical, InfoKinds, Trimmed
<1>5. QED
  BY <1>1, <1>2, <1>3, <1>4, SameDocument

\* Where an array has the entry e, respelled.
Shows(seq, e) == {i \in DOMAIN seq : seq[i].key = e.key /\ Fold[seq[i].value] = e.value}

\* Canonicalising keeps how often each entry is there, and so what is said.
LEMMA MeaningKept ==
    ASSUME NEW p \in Documents
    PROVE  Meaning(Canonical(p)) = Meaning(p)
<1>1. ASSUME NEW f \in Arrays, NEW e \in Entry
      PROVE  Cardinality(Shows(Canonical(p).arrays[f], e)) = Cardinality(Shows(p.arrays[f], e))
  <2> DEFINE seq == p.arrays[f]
             flat == Folded(seq)
             out == Sorted(f, flat)
             S == Shows(seq, e)
             T == Shows(out, e)
             g == [i \in S |-> Place(f, flat)[i]]
  <2>1. seq \in Seq(Entry) /\ Canonical(p).arrays[f] = out
    BY CanonicalShape
  <2>2. /\ flat \in Seq(Entry) /\ DOMAIN flat = DOMAIN seq
        /\ \A i \in DOMAIN seq : flat[i].key = seq[i].key /\ flat[i].value = Fold[seq[i].value]
        /\ \A i \in DOMAIN seq : Fold[flat[i].value] = Fold[seq[i].value]
    <3>1. /\ flat \in Seq(Entry) /\ DOMAIN flat = DOMAIN seq /\ Plain(flat)
          /\ \A i \in DOMAIN seq : flat[i].key = seq[i].key /\ flat[i].value = Fold[seq[i].value]
      BY <2>1, FoldShape
    <3>2. QED
      BY <3>1 DEF Plain
  <2>3. /\ Place(f, flat) \in Bijection(DOMAIN seq, DOMAIN seq) /\ DOMAIN out = DOMAIN seq
        /\ \A i \in DOMAIN seq : out[Place(f, flat)[i]] = flat[i]
    BY <2>2, SortPermutes
  <2> HIDE DEF flat, out
  <2>4. /\ Place(f, flat) \in [DOMAIN seq -> DOMAIN seq]
        /\ \A i, j \in DOMAIN seq : Place(f, flat)[i] = Place(f, flat)[j] => i = j
        /\ \A n \in DOMAIN seq : \E i \in DOMAIN seq : Place(f, flat)[i] = n
    BY <2>3 DEF Bijection, Injection, Surjection, IsInjective
  <2>5. \A i \in DOMAIN seq : i \in S <=> Place(f, flat)[i] \in T
    BY <2>2, <2>3, <2>4 DEF Shows
  <2>6. S \subseteq DOMAIN seq /\ T \subseteq DOMAIN seq
    BY <2>3 DEF Shows
  <2> HIDE DEF S, T
  <2>7. g \in [S -> T] /\ \A i, j \in S : g[i] = g[j] => i = j
    BY <2>4, <2>5, <2>6
  <2>8. ASSUME NEW n \in T PROVE \E i \in S : g[i] = n
    <3>1. PICK i \in DOMAIN seq : Place(f, flat)[i] = n
      BY <2>4, <2>6
    <3>2. i \in S
      BY <2>5, <3>1
    <3>3. QED
      BY <3>1, <3>2
  <2> HIDE DEF g
  <2>9. g \in Bijection(S, T)
    BY <2>7, <2>8 DEF Bijection, Injection, Surjection, IsInjective
  <2>10. IsFiniteSet(S)
    <3>1. IsFiniteSet(DOMAIN seq)
      <4>1. DOMAIN seq = 1 .. Len(seq) /\ Len(seq) \in Nat
        BY <2>1
      <4>2. QED
        BY <4>1, FS_Interval
    <3>2. QED
      BY <2>6, <3>1, FS_Subset
  <2>11. Cardinality(T) = Cardinality(S)
    BY <2>9, <2>10, FS_Bijection DEF ExistsBijection
  <2>12. QED
    BY <2>1, <2>11 DEF S, T
<1>2. \A q : Meaning(q) =
        [arrays |-> [f \in Arrays |-> [e \in Entry |-> Cardinality(Shows(q.arrays[f], e))]],
         info |-> IF q.info = "text" THEN "text" ELSE "none"]
  BY DEF Meaning, Shows
<1>3. [f \in Arrays |-> [e \in Entry |-> Cardinality(Shows(Canonical(p).arrays[f], e))]]
        = [f \in Arrays |-> [e \in Entry |-> Cardinality(Shows(p.arrays[f], e))]]
  BY <1>1
<1>4. (IF Canonical(p).info = "text" THEN "text" ELSE "none")
        = (IF p.info = "text" THEN "text" ELSE "none")
  BY CanonicalShape, DocumentShape DEF InfoKinds, Trimmed
<1>5. QED
  BY <1>2, <1>3, <1>4
-----------------------------------------------------------------------------
(* What the collector comes by, and what it has stored.                     *)

DocInv ==
    /\ raw \in Documents /\ Fits(raw)
    /\ stored = Unknown \/ (IsCanonical(stored) /\ Fits(stored))
    /\ edits \in 0 .. MaxEdits

\* Another array in the place of one.
LEMMA Rewritten ==
    ASSUME NEW p \in Documents, NEW f \in Arrays, NEW seq \in Seq(Entry)
    PROVE  /\ [p EXCEPT !.arrays[f] = seq] \in Documents
           /\ Fits(p) /\ Len(seq) <= MaxEntries => Fits([p EXCEPT !.arrays[f] = seq])
<1> DEFINE q == [p EXCEPT !.arrays[f] = seq]
<1>1. p.arrays \in [Arrays -> Seq(Entry)] /\ p.info \in InfoKinds
  BY DocumentShape
<1>2. q = [arrays |-> [p.arrays EXCEPT ![f] = seq], info |-> p.info]
  <2>1. p = [arrays |-> p.arrays, info |-> p.info]
    BY DocumentShape
  <2>2. QED
    BY <2>1
<1>3. [p.arrays EXCEPT ![f] = seq] \in [Arrays -> Seq(Entry)]
  BY <1>1
<1>4. q \in Documents
  BY <1>1, <1>2, <1>3 DEF Documents
<1>5. \A g \in Arrays : q.arrays[g] = IF g = f THEN seq ELSE p.arrays[g]
  BY <1>1, <1>2
<1> HIDE DEF q
<1>6. Fits(p) /\ Len(seq) <= MaxEntries => Fits(q)
  BY <1>5 DEF Fits
<1>7. QED
  BY <1>4, <1>6 DEF q

\* No array is longer than the payload has entries.
LEMMA SizeBounds ==
    ASSUME NEW p \in Documents, NEW f \in Arrays
    PROVE  /\ Len(p.arrays[f]) <= Size(p)
           /\ Size(p) \in Nat /\ Len(p.arrays[f]) \in Nat
<1> DEFINE places(g) == {g} \X DOMAIN p.arrays[g]
           all == {places(g) : g \in Arrays}
           mine == [i \in DOMAIN p.arrays[f] |-> <<f, i>>]
<1>1. ASSUME NEW g \in Arrays PROVE IsFiniteSet(places(g))
  <2>1. p.arrays[g] \in Seq(Entry)
    BY DocumentShape
  <2>2. DOMAIN p.arrays[g] = 1 .. Len(p.arrays[g]) /\ Len(p.arrays[g]) \in Nat
    BY <2>1
  <2>3. IsFiniteSet(DOMAIN p.arrays[g]) /\ IsFiniteSet({g})
    <3>1. IsFiniteSet(1 .. Len(p.arrays[g]))
      BY <2>2, FS_Interval
    <3>2. QED
      BY <2>2, <3>1, FS_Singleton
  <2>4. QED
    BY <2>3, FS_Product
<1>2. IsFiniteSet(Arrays)
  <2>1. Arrays \in SUBSET {"depositRates", "lendingRates", "fees"}
    BY DocumentsAssumption DEF TypeOf
  <2>2. IsFiniteSet({"depositRates", "lendingRates", "fees"})
    <3>1. IsFiniteSet({"depositRates"} \cup {"lendingRates"} \cup {"fees"})
      BY FS_Singleton, FS_Union
    <3>2. {"depositRates"} \cup {"lendingRates"} \cup {"fees"}
            = {"depositRates", "lendingRates", "fees"}
      OBVIOUS
    <3>3. QED
      BY <3>1, <3>2
  <2>3. QED
    BY <2>1, <2>2, FS_Subset
<1>3. IsFiniteSet(all)
  <2> DEFINE h == [g \in Arrays |-> places(g)]
  <2>1. h \in Surjection(Arrays, all)
    BY DEF Surjection
  <2>2. QED
    BY <1>2, <2>1, FS_Surjection
<1>4. IsFiniteSet(UNION all)
  BY <1>1, <1>3, FS_UNION
<1>5. mine \in Injection(DOMAIN p.arrays[f], UNION all)
  <2>1. mine \in [DOMAIN p.arrays[f] -> UNION all]
    OBVIOUS
  <2>2. \A i, j \in DOMAIN p.arrays[f] : mine[i] = mine[j] => i = j
    OBVIOUS
  <2>3. QED
    BY <2>1, <2>2 DEF Injection, IsInjective
<1> HIDE DEF mine, all
<1>6. Cardinality(DOMAIN p.arrays[f]) <= Cardinality(UNION all)
  BY <1>4, <1>5, FS_Injection
<1>7. Cardinality(DOMAIN p.arrays[f]) = Len(p.arrays[f]) /\ Len(p.arrays[f]) \in Nat
  <2>1. p.arrays[f] \in Seq(Entry)
    BY DocumentShape
  <2>2. DOMAIN p.arrays[f] = 1 .. Len(p.arrays[f]) /\ Len(p.arrays[f]) \in Nat
    BY <2>1
  <2>3. QED
    BY <2>2, FS_Interval
<1>8. Cardinality(UNION all) \in Nat
  BY <1>4, FS_CardinalityType
<1>9. Size(p) = Cardinality(UNION all)
  BY DEF Size, all
<1>10. QED
  BY <1>6, <1>7, <1>8, <1>9

\* Whatever the bank edits, it publishes a document.
LEMMA EditOK ==
    ASSUME DocInv, Reprice \/ AddEntry \/ DropEntry \/ Reorder \/ Reinform
    PROVE  DocInv'
<1>1. raw \in Documents /\ Fits(raw) /\ MaxEntries \in Nat /\ edits \in Nat /\ MaxEdits \in Nat
  BY DocumentsAssumption DEF DocInv
<1>2. ASSUME NEW new, new \in Documents, Fits(new), Publish(new) PROVE DocInv'
  <2>1. raw' = new /\ stored' = stored /\ edits' = edits + 1 /\ edits < MaxEdits
    BY <1>2 DEF Publish
  <2>2. edits' \in 0 .. MaxEdits
    BY <1>1, <2>1
  <2>3. raw' \in Documents /\ Fits(raw)'
    BY <1>2, <2>1 DEF Fits
  <2>4. (stored = Unknown \/ (IsCanonical(stored) /\ Fits(stored)))'
    BY <2>1 DEF DocInv, IsCanonical, Fits, Ordered, Plain
  <2>5. QED
    BY <2>2, <2>3, <2>4 DEF DocInv
<1>3. ASSUME NEW f \in Arrays, NEW seq \in Seq(Entry), Len(seq) <= MaxEntries,
             Publish([raw EXCEPT !.arrays[f] = seq])
      PROVE  DocInv'
  BY <1>1, <1>2, <1>3, Rewritten
<1>4. ASSUME NEW f \in Arrays
      PROVE  /\ raw.arrays[f] \in Seq(Entry) /\ Len(raw.arrays[f]) \in Nat
             /\ Len(raw.arrays[f]) <= MaxEntries
  BY <1>1, DocumentShape DEF Fits
<1>5. CASE Reprice
  <2>0. PICK f \in Arrays : \E i \in DOMAIN raw.arrays[f], v \in Spellings :
           Publish([raw EXCEPT !.arrays[f][i].value = v])
    BY <1>5 DEF Reprice
  <2>1. PICK i \in DOMAIN raw.arrays[f], v \in Spellings :
           Publish([raw EXCEPT !.arrays[f][i].value = v])
    BY <2>0
  <2> DEFINE seq == [raw.arrays[f] EXCEPT ![i].value = v]
  <2>2. [raw EXCEPT !.arrays[f][i].value = v] = [raw EXCEPT !.arrays[f] = seq]
    BY <1>1, <1>4 DEF Documents
  <2>3. seq \in Seq(Entry) /\ Len(seq) = Len(raw.arrays[f])
    <3>1. raw.arrays[f][i] \in Entry
      BY <1>4
    <3>2. [raw.arrays[f][i] EXCEPT !.value = v] \in Entry
      BY <3>1 DEF Entry
    <3>3. QED
      BY <1>4, <3>2
  <2> HIDE DEF seq
  <2>4. QED
    BY <1>3, <1>4, <2>1, <2>2, <2>3
<1>6. CASE AddEntry
  <2>1. PICK f \in Arrays, e \in Entry :
           /\ Size(raw) < MaxEntries
           /\ Publish([raw EXCEPT !.arrays[f] = Append(@, e)])
    BY <1>6 DEF AddEntry
  <2>2. [raw EXCEPT !.arrays[f] = Append(@, e)]
          = [raw EXCEPT !.arrays[f] = Append(raw.arrays[f], e)]
    BY <1>1 DEF Documents
  <2>3. Append(raw.arrays[f], e) \in Seq(Entry) /\ Len(Append(raw.arrays[f], e)) <= MaxEntries
    <3>1. /\ Len(raw.arrays[f]) <= Size(raw) /\ Size(raw) \in Nat
          /\ Len(raw.arrays[f]) \in Nat
      BY <1>1, SizeBounds
    <3>2. /\ Append(raw.arrays[f], e) \in Seq(Entry)
          /\ Len(Append(raw.arrays[f], e)) = Len(raw.arrays[f]) + 1
      BY <1>4
    <3>3. QED
      BY <1>1, <2>1, <3>1, <3>2
  <2>4. QED
    BY <1>3, <2>1, <2>2, <2>3
<1>7. CASE DropEntry
  <2>0. PICK f \in Arrays : \E i \in DOMAIN raw.arrays[f] :
           Publish([raw EXCEPT !.arrays[f] = RemoveAt(@, i)])
    BY <1>7 DEF DropEntry
  <2>1. PICK i \in DOMAIN raw.arrays[f] : Publish([raw EXCEPT !.arrays[f] = RemoveAt(@, i)])
    BY <2>0
  <2>2. [raw EXCEPT !.arrays[f] = RemoveAt(@, i)]
          = [raw EXCEPT !.arrays[f] = RemoveAt(raw.arrays[f], i)]
    BY <1>1 DEF Documents
  <2>3. /\ RemoveAt(raw.arrays[f], i) \in Seq(Entry)
        /\ Len(RemoveAt(raw.arrays[f], i)) <= MaxEntries
    <3> DEFINE seq == raw.arrays[f]
    <3>1. seq \in Seq(Entry) /\ i \in 1 .. Len(seq) /\ Len(seq) \in Nat /\ Len(seq) <= MaxEntries
      BY <1>4
    <3> HIDE DEF seq
    <3>2. /\ SubSeq(seq, 1, i - 1) \in Seq(Entry) /\ Len(SubSeq(seq, 1, i - 1)) = i - 1
          /\ SubSeq(seq, i + 1, Len(seq)) \in Seq(Entry)
          /\ Len(SubSeq(seq, i + 1, Len(seq))) = Len(seq) - i
      BY <3>1, SMT
    <3>3. /\ RemoveAt(seq, i) \in Seq(Entry)
          /\ Len(RemoveAt(seq, i)) = (i - 1) + (Len(seq) - i)
      BY <3>2 DEF RemoveAt
    <3>4. QED
      BY <1>1, <3>1, <3>3 DEF seq
  <2>4. QED
    BY <1>3, <2>1, <2>2, <2>3
<1>8. CASE Reorder
  <2>1. PICK f \in Arrays : Publish([raw EXCEPT !.arrays[f] = Reverse(@)])
    BY <1>8 DEF Reorder
  <2>2. [raw EXCEPT !.arrays[f] = Reverse(@)] = [raw EXCEPT !.arrays[f] = Reverse(raw.arrays[f])]
    BY <1>1 DEF Documents
  <2>3. /\ Reverse(raw.arrays[f]) \in Seq(Entry)
        /\ Len(Reverse(raw.arrays[f])) = Len(raw.arrays[f])
    <3> DEFINE seq == raw.arrays[f]
    <3>1. seq \in Seq(Entry) /\ Len(seq) \in Nat
      BY <1>4
    <3> HIDE DEF seq
    <3>2. \A i \in 1 .. Len(seq) : seq[(Len(seq) - i) + 1] \in Entry
      BY <3>1
    <3>3. Reverse(seq) \in Seq(Entry) /\ Len(Reverse(seq)) = Len(seq)
      BY <3>1, <3>2 DEF Reverse
    <3>4. QED
      BY <3>3 DEF seq
  <2>4. QED
    BY <1>3, <1>4, <2>1, <2>2, <2>3
<1>9. CASE Reinform
  <2>1. PICK info \in Infos : Publish([raw EXCEPT !.info = info])
    BY <1>9 DEF Reinform
  <2>2. [raw EXCEPT !.info = info] = [arrays |-> raw.arrays, info |-> info]
    BY <1>1 DEF Documents
  <2>3. [raw EXCEPT !.info = info] \in Documents
    BY <1>1, <2>2, DocumentsAssumption DEF Documents
  <2>4. Fits([raw EXCEPT !.info = info])
    BY <1>1, <2>2 DEF Fits
  <2>5. QED
    BY <1>2, <2>1, <2>3, <2>4
<1>10. QED
  BY <1>5, <1>6, <1>7, <1>8, <1>9

\* What is stored is canonical.
LEMMA DocAlways == Spec => []DocInv
<1>1. Init => DocInv
  <2> SUFFICES ASSUME Init PROVE DocInv
    OBVIOUS
  <2>1. MaxEntries \in Nat /\ MaxEdits \in Nat
    BY DocumentsAssumption
  <2>2. [f \in Arrays |-> << >>] \in [Arrays -> Seq(Entry)]
    OBVIOUS
  <2>3. raw \in Documents
    BY <2>2 DEF Init, Documents, InfoKinds
  <2>4. Fits(raw)
    BY <2>1 DEF Init, Fits
  <2>5. QED
    BY <2>1, <2>3, <2>4 DEF Init, DocInv
<1>2. DocInv /\ [Next]_vars => DocInv'
  <2> SUFFICES ASSUME DocInv, [Next]_vars PROVE DocInv'
    OBVIOUS
  <2>1. CASE Collect
    <3>1. stored' = Canonical(raw) /\ edits' = 0 /\ raw' = raw
      BY <2>1 DEF Collect
    <3>2. IsCanonical(stored')
      BY <3>1, CanonicalShape DEF DocInv
    <3>3. Fits(Canonical(raw))
      BY CanonicalShape DEF DocInv, Fits
    <3>4. IsCanonical(stored)' /\ Fits(stored)' /\ Fits(raw)'
      BY <3>1, <3>2, <3>3 DEF DocInv, IsCanonical, Fits, Ordered, Plain
    <3>5. edits' \in 0 .. MaxEdits
      BY <3>1, DocumentsAssumption
    <3>6. QED
      BY <3>1, <3>4, <3>5 DEF DocInv
  <2>2. CASE UNCHANGED vars
    BY <2>2 DEF vars, DocInv, IsCanonical, Fits, Ordered, Plain
  <2>3. QED
    BY <2>1, <2>2, EditOK DEF Next
<1>3. QED
  BY <1>1, <1>2, PTL DEF Spec

\* Payload and snapshot are documents (TypeOK).
THEOREM TypeCorrect == Spec => []TypeOK
<1>1. DocInv => TypeOK
  BY DEF DocInv, TypeOK, IsCanonical
<1>2. QED
  BY <1>1, DocAlways, PTL

\* Normalising keeps what a payload says; normalising a stored document again
\* leaves its arrays, and all of it unless it holds a {} (CanonicalStable).
THEOREM CanonicalAlwaysStable == Spec => []CanonicalStable
<1>1. DocInv => CanonicalStable
  BY CanonicalKept, MeaningKept DEF DocInv, CanonicalStable
<1>2. QED
  BY <1>1, DocAlways, PTL
-----------------------------------------------------------------------------
(* The rows between two documents.                                          *)

Maybe == Entry \cup {None}

LEMMA EntryShape ==
    /\ None \notin Entry
    /\ \A e \in Maybe : DOMAIN e = {"key", "value"} /\ e = [key |-> e.key, value |-> e.value]
<1>1. 0 \notin Keys
  BY DocumentsAssumption
<1>2. QED
  BY <1>1 DEF Entry, None, Maybe

LEMMA AtShape ==
    ASSUME NEW seq \in Seq(Entry), NEW i
    PROVE  /\ At(seq, i) \in Maybe
           /\ i \in DOMAIN seq <=> At(seq, i) # None
           /\ i \in DOMAIN seq => At(seq, i) = seq[i]
BY EntryShape DEF At, Maybe

\* The path of a part of an entry.
LEMMA PathAppend ==
    ASSUME NEW f, NEW i, NEW part
    PROVE  Append(<<f, i>>, part) = <<f, i, part>>
<1> DEFINE S == {f, i, part}
<1>1. <<f, i>> \in Seq(S) /\ Len(<<f, i>>) = 2 /\ <<f, i>>[1] = f /\ <<f, i>>[2] = i
  OBVIOUS
<1>2. <<f, i, part>> \in Seq(S) /\ Len(<<f, i, part>>) = 3
  OBVIOUS
<1>3. Append(<<f, i>>, part) \in Seq(S) /\ Len(Append(<<f, i>>, part)) = 3
  BY <1>1
<1>4. \A n \in 1 .. 3 : Append(<<f, i>>, part)[n] = <<f, i, part>>[n]
  BY <1>1, SMT
<1> DEFINE long == Append(<<f, i>>, part)
           flat == <<f, i, part>>
<1>5. long \in Seq(S) /\ Len(long) = 3 /\ flat \in Seq(S) /\ Len(flat) = 3
  BY <1>2, <1>3
<1>6. \A n \in 1 .. 3 : long[n] = flat[n]
  BY <1>4
<1> HIDE DEF long, flat, S
<1>7. long = [n \in 1 .. 3 |-> long[n]] /\ flat = [n \in 1 .. 3 |-> flat[n]]
  BY <1>5
<1>8. long = flat
  BY <1>6, <1>7
<1>9. QED
  BY <1>8 DEF long, flat

\* Two entries give rows where they differ, and only then.
LEMMA EntryRowsComplete ==
    ASSUME NEW path, NEW old \in Maybe, NEW new \in Maybe
    PROVE  EntryRows(path, old, new) = {} <=> old = new
<1>1. CASE None \in {old, new}
  BY <1>1 DEF EntryRows, Row
<1>2. CASE None \notin {old, new}
  <2>1. EntryRows(path, old, new)
          = UNION {Row(Append(path, part), old[part], new[part]) : part \in DOMAIN old}
    BY <1>2 DEF EntryRows
  <2>2. DOMAIN old = {"key", "value"}
    BY EntryShape
  <2>3. EntryRows(path, old, new) = Row(Append(path, "key"), old.key, new.key)
                                    \cup Row(Append(path, "value"), old.value, new.value)
    BY <2>1, <2>2
  <2>4. EntryRows(path, old, new) = {} <=> old.key = new.key /\ old.value = new.value
    BY <2>3 DEF Row
  <2>5. old.key = new.key /\ old.value = new.value => old = new
    BY EntryShape
  <2>6. QED
    BY <2>4, <2>5
<1>3. QED
  BY <1>1, <1>2

\* Two arrays give rows if they differ, and only then.
LEMMA ArrayRowsComplete ==
    ASSUME NEW f, NEW old \in Seq(Entry), NEW new \in Seq(Entry)
    PROVE  ArrayRows(f, old, new) = {} <=> old = new
<1>1. CASE << >> \in {old, new}
  BY <1>1 DEF ArrayRows, Row
<1>2. CASE << >> \notin {old, new}
  <2> DEFINE rows(i) == EntryRows(<<f, i>>, At(old, i), At(new, i))
  <2>1. ArrayRows(f, old, new) = UNION {rows(i) : i \in DOMAIN old \cup DOMAIN new}
    BY <1>2 DEF ArrayRows
  <2>2. \A i : rows(i) = {} <=> At(old, i) = At(new, i)
    BY AtShape, EntryRowsComplete
  <2> HIDE DEF rows
  <2>3. ArrayRows(f, old, new) = {} <=>
            \A i \in DOMAIN old \cup DOMAIN new : At(old, i) = At(new, i)
    BY <2>1, <2>2
  <2>4. ASSUME \A i \in DOMAIN old \cup DOMAIN new : At(old, i) = At(new, i)
        PROVE  old = new
    <3>1. \A i : i \in DOMAIN old <=> i \in DOMAIN new
      BY <2>4, AtShape
    <3>2. \A i \in DOMAIN old : old[i] = new[i]
      BY <2>4, <3>1, AtShape
    <3>3. DOMAIN old = DOMAIN new
      BY <3>1
    <3>4. old = [i \in DOMAIN old |-> old[i]] /\ new = [i \in DOMAIN new |-> new[i]]
      OBVIOUS
    <3>5. QED
      BY <3>2, <3>3, <3>4
  <2>5. QED
    BY <2>3, <2>4
<1>3. QED
  BY <1>1, <1>2

\* Two documents give rows if they differ, and only then.
LEMMA WalkComplete ==
    ASSUME NEW old \in Documents, NEW new \in Documents
    PROVE  Walk(old, new) = {} <=> old = new
<1>1. \A f \in Arrays : old.arrays[f] \in Seq(Entry) /\ new.arrays[f] \in Seq(Entry)
  BY DocumentShape
<1>2. Walk(old, new) = {} =>
        old.info = new.info /\ \A f \in Arrays : ArrayRows(f, old.arrays[f], new.arrays[f]) = {}
  BY DEF Walk, Row
<1>3. Walk(old, new) = {} => old = new
  <2> SUFFICES ASSUME Walk(old, new) = {} PROVE old = new
    OBVIOUS
  <2>1. ASSUME NEW f \in Arrays PROVE old.arrays[f] = new.arrays[f]
    <3>1. /\ old.arrays[f] \in Seq(Entry) /\ new.arrays[f] \in Seq(Entry)
          /\ ArrayRows(f, old.arrays[f], new.arrays[f]) = {}
      BY <1>1, <1>2
    <3>2. QED
      BY <3>1, ArrayRowsComplete
  <2>2. old.info = new.info
    BY <1>2
  <2>3. QED
    BY <2>1, <2>2, SameDocument
<1>4. old = new => Walk(old, new) = {}
  <2> SUFFICES ASSUME old = new PROVE Walk(old, new) = {}
    OBVIOUS
  <2>1. \A f \in Arrays : ArrayRows(f, old.arrays[f], new.arrays[f]) = {}
    BY <1>1, ArrayRowsComplete
  <2>2. Row(<<"additionalInformation">>, old.info, new.info) = {}
    BY DEF Row
  <2>3. QED
    BY <2>1, <2>2 DEF Walk
<1>5. QED
  BY <1>3, <1>4

\* ... and with the limit.
LEMMA DiffComplete ==
    ASSUME NEW old \in Documents, NEW new \in Documents
    PROVE  /\ Diff(old, new) = {} <=> old = new
           /\ Diff(old, new) \in {Walk(old, new), Truncated}
<1>1. old # Unknown /\ MaxChanges \in Nat \ {0}
  BY DocumentsAssumption
<1>2. Diff(old, new)
          = IF Cardinality(Walk(old, new)) >= MaxChanges THEN Truncated ELSE Walk(old, new)
  BY <1>1 DEF Diff
<1>3. Truncated # {}
  BY DEF Truncated
<1>4. Walk(old, new) = {} => ~(Cardinality(Walk(old, new)) >= MaxChanges)
  BY <1>1, FS_EmptySet
<1>5. QED
  BY <1>2, <1>3, <1>4, WalkComplete

\* A step from a stored document.
LEMMA Collection ==
    ASSUME DocInv, DocInv', [Next]_vars, stored # Unknown, stored' # stored \/ Collected
    PROVE  /\ Collect /\ stored \in Documents /\ stored' \in Documents
           /\ raw \in Documents /\ stored' = Canonical(raw)
           /\ IsCanonical(stored) /\ IsCanonical(stored')
           /\ Rows = Diff(stored, stored')
<1>1. Collect
  <2>1. edits \in Nat
    BY DEF DocInv
  <2>2. ~UNCHANGED vars
    BY DEF Collected, vars
  <2>3. Next
    BY <2>2
  <2>4. \A new : ~Publish(new)
    BY <2>1 DEF Publish, Collected
  <2>5. QED
    BY <2>3, <2>4 DEF Next, Reprice, AddEntry, DropEntry, Reorder, Reinform
<1>2. stored' = Canonical(raw) /\ raw \in Documents /\ IsCanonical(stored)
  BY <1>1 DEF Collect, DocInv
<1>3. IsCanonical(stored')
  BY <1>2, CanonicalShape
<1>4. stored \in Documents /\ stored' \in Documents
  BY <1>2, <1>3 DEF IsCanonical
<1>5. QED
  BY <1>1, <1>2, <1>3, <1>4 DEF Rows

\* A payload that says something else than the one before gives a row, also
\* beyond the limit (MeaningReported).
THEOREM MeaningAlwaysReported == Spec => MeaningReported
<1> DEFINE Told == Collected /\ Meaning(raw) # Meaning(stored) => Rows # {}
<1>1. DocInv /\ DocInv' /\ [Next]_vars => [Told]_vars
  <2> SUFFICES ASSUME DocInv, DocInv', [Next]_vars, Collected, Meaning(raw) # Meaning(stored)
               PROVE  Rows # {}
    OBVIOUS
  <2>1. /\ stored \in Documents /\ stored' \in Documents /\ raw \in Documents
        /\ stored' = Canonical(raw) /\ Rows = Diff(stored, stored')
    BY Collection DEF Collected
  <2>2. Meaning(Canonical(raw)) # Meaning(stored)
    BY <2>1, MeaningKept
  <2>3. stored' # stored
    BY <2>1, <2>2
  <2>4. QED
    BY <2>1, <2>3, DiffComplete
<1> HIDE DEF Told
<1>2. Spec => [][Told]_vars
  BY <1>1, DocAlways, PTL DEF Spec
<1>3. QED
  BY <1>2 DEF Told, MeaningReported

\* The rows of an array say which one.
LEMMA RowsNameArray ==
    ASSUME NEW f, NEW old \in Seq(Entry), NEW new \in Seq(Entry),
           NEW row \in ArrayRows(f, old, new)
    PROVE  row[1] # << >> /\ row[1][1] = f
<1>1. CASE << >> \in {old, new}
  BY <1>1 DEF ArrayRows, Row
<1>2. CASE << >> \notin {old, new}
  <2>1. PICK i \in DOMAIN old \cup DOMAIN new : row \in EntryRows(<<f, i>>, At(old, i), At(new, i))
    BY <1>2 DEF ArrayRows
  <2>2. CASE None \in {At(old, i), At(new, i)}
    BY <2>1, <2>2 DEF EntryRows, Row
  <2>3. CASE None \notin {At(old, i), At(new, i)}
    <3>1. PICK part \in DOMAIN At(old, i) :
             row \in Row(Append(<<f, i>>, part), At(old, i)[part], At(new, i)[part])
      BY <2>1, <2>3 DEF EntryRows
    <3>2. row[1] = Append(<<f, i>>, part)
      BY <3>1 DEF Row
    <3>3. QED
      BY <3>2, PathAppend
  <2>4. QED
    BY <2>2, <2>3
<1>3. QED
  BY <1>1, <1>2

\* The headline rate that product_current shows does not move behind the back
\* of the feed: a row of the collection is a rate change, or the rows were cut
\* off (HeadlineExplained).
THEOREM HeadlineAlwaysExplained == Spec => HeadlineExplained
<1> DEFINE Explained == Headline(stored') # Headline(stored) =>
            \E row \in Rows : \/ Classify(row[1]) \in {"RATE_CHANGED", "PRODUCT_ADDED"}
                               \/ Rows = Truncated
<1>1. DocInv /\ DocInv' /\ [Next]_vars => [Explained]_vars
  <2> SUFFICES ASSUME DocInv, DocInv', [Next]_vars, Headline(stored') # Headline(stored)
               PROVE  \E row \in Rows : \/ Classify(row[1]) \in {"RATE_CHANGED", "PRODUCT_ADDED"}
                                         \/ Rows = Truncated
    OBVIOUS
  <2>1. CASE stored = Unknown
    <3> DEFINE row == << << >>, stored, stored'>>
    <3>1. row \in Rows /\ row[1] = << >>
      BY <2>1 DEF Rows, Diff
    <3>2. Classify(row[1]) = "PRODUCT_ADDED"
      BY <3>1 DEF Classify
    <3> HIDE DEF row
    <3>3. QED
      BY <3>1, <3>2
  <2>2. CASE stored # Unknown
    <3>1. /\ stored \in Documents /\ stored' \in Documents
          /\ stored' # Unknown /\ Rows = Diff(stored, stored')
      BY <2>2, Collection, DocumentsAssumption
    <3>2. PICK f \in Arrays : /\ f \in {"depositRates", "lendingRates"}
                              /\ stored'.arrays[f] # stored.arrays[f]
      <4>1. \E f \in {"depositRates", "lendingRates"} : Values(stored', f) # Values(stored, f)
        BY <2>2, <3>1 DEF Headline
      <4>2. QED
        BY <4>1 DEF Values
    <3>3. ArrayRows(f, stored.arrays[f], stored'.arrays[f]) # {}
      <4>1. stored.arrays[f] \in Seq(Entry) /\ stored'.arrays[f] \in Seq(Entry)
        BY <3>1, DocumentShape
      <4>2. QED
        BY <3>2, <4>1, ArrayRowsComplete
    <3>4. PICK row \in ArrayRows(f, stored.arrays[f], stored'.arrays[f]) : TRUE
      BY <3>3
    <3>5. row \in Walk(stored, stored')
      BY <3>4 DEF Walk
    <3>6. row[1] # << >> /\ row[1][1] = f
      BY <3>1, <3>4, RowsNameArray, DocumentShape
    <3>7. Classify(row[1]) = "RATE_CHANGED"
      BY <3>2, <3>6 DEF Classify, TypeOf
    <3>8. CASE Rows = Walk(stored, stored')
      BY <3>5, <3>7, <3>8
    <3>9. CASE Rows = Truncated
      BY <3>9 DEF Truncated
    <3>10. QED
      BY <3>1, <3>8, <3>9, DiffComplete
  <2>3. QED
    BY <2>1, <2>2
<1> HIDE DEF Explained
<1>2. Spec => [][Explained]_vars
  BY <1>1, DocAlways, PTL DEF Spec
<1>3. QED
  BY <1>2 DEF Explained, HeadlineExplained
-----------------------------------------------------------------------------
(* Arrays whose entries have keys of their own.                             *)

Distinct(seq) == \A i, j \in DOMAIN seq : seq[i].key = seq[j].key => i = j
KeySet(seq) == {seq[i].key : i \in DOMAIN seq}

LEMMA KeysIncrease ==
    ASSUME NEW f, NEW seq \in Seq(Entry), Ordered(f, seq), Distinct(seq)
    PROVE  \A m, n \in DOMAIN seq : m < n => seq[m].key < seq[n].key
<1> SUFFICES ASSUME NEW m \in DOMAIN seq, NEW n \in DOMAIN seq, m < n
             PROVE  seq[m].key < seq[n].key
  OBVIOUS
<1>1. seq[m] \in Entry /\ seq[n] \in Entry /\ m # n
  OBVIOUS
<1>2. seq[m].key \in Nat /\ seq[n].key \in Nat
  BY <1>1, DocumentsAssumption DEF Entry
<1>3. seq[m].key # seq[n].key
  BY <1>1 DEF Distinct
<1>4. /\ Rank(f, seq[m]) \in Nat /\ Rank(f, seq[n]) \in Nat
      /\ seq[n].key < seq[m].key => Rank(f, seq[n]) < Rank(f, seq[m])
  BY <1>1, RankByKey
<1>5. Rank(f, seq[m]) <= Rank(f, seq[n])
  BY DEF Ordered
<1>6. QED
  BY <1>2, <1>3, <1>4, <1>5

\* Where such an entry stands follows from the keys.
LEMMA KeyPosition ==
    ASSUME NEW f, NEW seq \in Seq(Entry), Ordered(f, seq), Distinct(seq), NEW n \in DOMAIN seq
    PROVE  n = Cardinality({k \in KeySet(seq) : k <= seq[n].key})
<1> DEFINE S == {k \in KeySet(seq) : k <= seq[n].key}
           g == [i \in 1 .. n |-> seq[i].key]
<1>1. \A i \in DOMAIN seq : seq[i].key \in Nat
  <2>1. \A i \in DOMAIN seq : seq[i] \in Entry
    OBVIOUS
  <2>2. QED
    BY <2>1, DocumentsAssumption DEF Entry
<1>2. n \in Nat /\ \A i \in 1 .. n : i \in DOMAIN seq
  OBVIOUS
<1>3. \A i, j \in DOMAIN seq : i < j => seq[i].key < seq[j].key
  BY KeysIncrease
<1>4. \A i \in DOMAIN seq : i <= n <=> seq[i].key <= seq[n].key
  <2>1. ASSUME NEW i \in DOMAIN seq PROVE i <= n <=> seq[i].key <= seq[n].key
    <3>1. i \in Nat /\ seq[i].key \in Nat /\ seq[n].key \in Nat
      BY <1>1
    <3>2. i < n \/ i = n \/ n < i
      BY <1>2, <3>1
    <3>3. QED
      BY <1>2, <1>3, <3>1, <3>2
  <2>2. QED
    BY <2>1
<1>5. g \in [1 .. n -> S]
  BY <1>2, <1>4 DEF KeySet
<1>6. \A i, j \in 1 .. n : g[i] = g[j] => i = j
  BY <1>2 DEF Distinct
<1>7. ASSUME NEW k \in S PROVE \E i \in 1 .. n : g[i] = k
  <2>1. PICK i \in DOMAIN seq : seq[i].key = k
    BY DEF KeySet
  <2>2. i \in 1 .. n
    BY <1>2, <1>4, <2>1
  <2>3. QED
    BY <2>1, <2>2
<1> HIDE DEF g, S
<1>8. g \in Bijection(1 .. n, S)
  BY <1>5, <1>6, <1>7 DEF Bijection, Injection, Surjection, IsInjective
<1>9. IsFiniteSet(1 .. n) /\ Cardinality(1 .. n) = n
  BY <1>2, FS_Interval
<1>10. Cardinality(S) = n
  BY <1>8, <1>9, FS_Bijection DEF ExistsBijection
<1>11. QED
  BY <1>10 DEF S

\* The same keys stand in the same places.
LEMMA SameKeysSamePlaces ==
    ASSUME NEW f, NEW s \in Seq(Entry), Ordered(f, s), Distinct(s),
           NEW t \in Seq(Entry), Ordered(f, t), Distinct(t), KeySet(s) = KeySet(t)
    PROVE  /\ DOMAIN s = DOMAIN t
           /\ \A m \in DOMAIN s, n \in DOMAIN t : s[m].key = t[n].key <=> m = n
<1>1. ASSUME NEW m \in DOMAIN s, NEW n \in DOMAIN t, s[m].key = t[n].key PROVE m = n
  <2>1. m = Cardinality({k \in KeySet(s) : k <= s[m].key})
    BY KeyPosition
  <2>2. n = Cardinality({k \in KeySet(t) : k <= t[n].key})
    BY KeyPosition
  <2>3. QED
    BY <1>1, <2>1, <2>2
<1>2. ASSUME NEW m \in DOMAIN s PROVE m \in DOMAIN t /\ s[m].key = t[m].key
  <2>1. s[m].key \in KeySet(t)
    BY DEF KeySet
  <2>2. PICK n \in DOMAIN t : t[n].key = s[m].key
    BY <2>1 DEF KeySet
  <2>3. QED
    BY <1>1, <2>2
<1>3. ASSUME NEW n \in DOMAIN t PROVE n \in DOMAIN s
  <2>1. t[n].key \in KeySet(s)
    BY DEF KeySet
  <2>2. PICK m \in DOMAIN s : s[m].key = t[n].key
    BY <2>1 DEF KeySet
  <2>3. QED
    BY <1>1, <2>2
<1>4. DOMAIN s = DOMAIN t
  BY <1>2, <1>3
<1>5. QED
  BY <1>1, <1>2, <1>4

\* Canonicalising keeps the keys of an array.
LEMMA KeysKept ==
    ASSUME NEW p \in Documents, NEW f \in Arrays
    PROVE  /\ KeySet(Canonical(p).arrays[f]) = KeySet(p.arrays[f])
           /\ Distinct(p.arrays[f]) => Distinct(Canonical(p).arrays[f])
<1> DEFINE seq == p.arrays[f]
           flat == Folded(seq)
           out == Sorted(f, flat)
           place == Place(f, flat)
<1>1. seq \in Seq(Entry) /\ Canonical(p).arrays[f] = out
  BY CanonicalShape
<1>2. /\ flat \in Seq(Entry) /\ DOMAIN flat = DOMAIN seq
      /\ \A i \in DOMAIN seq : flat[i].key = seq[i].key
  BY <1>1, FoldShape
<1>3. /\ place \in Bijection(DOMAIN seq, DOMAIN seq) /\ DOMAIN out = DOMAIN seq
      /\ \A i \in DOMAIN seq : out[place[i]] = flat[i]
  BY <1>2, SortPermutes
<1> HIDE DEF flat, out, place
<1>4. /\ place \in [DOMAIN seq -> DOMAIN seq]
      /\ \A n \in DOMAIN seq : \E i \in DOMAIN seq : place[i] = n
  BY <1>3 DEF Bijection, Surjection
<1>5. \A i \in DOMAIN seq : out[place[i]].key = seq[i].key /\ place[i] \in DOMAIN seq
  BY <1>2, <1>3, <1>4
<1> HIDE DEF seq
<1>6. KeySet(out) = KeySet(seq)
  <2>1. ASSUME NEW k \in KeySet(out) PROVE k \in KeySet(seq)
    <3>1. PICK n \in DOMAIN seq : out[n].key = k
      BY <1>3, <2>1 DEF KeySet
    <3>2. PICK i \in DOMAIN seq : place[i] = n
      BY <1>4
    <3>3. QED
      BY <1>5, <3>1, <3>2 DEF KeySet
  <2>2. ASSUME NEW k \in KeySet(seq) PROVE k \in KeySet(out)
    <3>1. PICK i \in DOMAIN seq : seq[i].key = k
      BY DEF KeySet
    <3>2. QED
      BY <1>3, <1>5, <3>1 DEF KeySet
  <2>3. QED
    BY <2>1, <2>2
<1>7. ASSUME Distinct(seq), NEW m \in DOMAIN out, NEW n \in DOMAIN out, out[m].key = out[n].key
      PROVE  m = n
  <2>1. PICK i \in DOMAIN seq : place[i] = m
    BY <1>3, <1>4
  <2>2. PICK j \in DOMAIN seq : place[j] = n
    BY <1>3, <1>4
  <2>3. i = j
    BY <1>5, <1>7, <2>1, <2>2 DEF Distinct
  <2>4. QED
    BY <2>1, <2>2, <2>3
<1>8. QED
  BY <1>1, <1>6, <1>7 DEF Distinct, seq

\* While the keys of its arrays stay the same and distinct, an entry is compared
\* with itself only (LikeWithLike).
THEOREM LikeAlwaysWithLike == Spec => LikeWithLike
<1> DEFINE Alike ==
        Collected /\ Unambiguous(raw) /\ Unambiguous(stored)
            /\ (\A f \in Arrays : KeysOf(raw, f) = KeysOf(stored, f)) =>
            \A row \in Rows : Len(row[1]) = 3 => row[1][3] = "value"
<1>1. DocInv /\ DocInv' /\ [Next]_vars => [Alike]_vars
  <2> SUFFICES ASSUME DocInv, DocInv', [Next]_vars, Collected,
                      Unambiguous(raw), Unambiguous(stored),
                      \A f \in Arrays : KeysOf(raw, f) = KeysOf(stored, f),
                      NEW row \in Rows, Len(row[1]) = 3
               PROVE  row[1][3] = "value"
    OBVIOUS
  <2>1. /\ raw \in Documents /\ stored' = Canonical(raw)
        /\ IsCanonical(stored) /\ IsCanonical(stored')
        /\ stored \in Documents /\ stored' \in Documents /\ Rows = Diff(stored, stored')
    BY Collection DEF Collected
  <2>2. ASSUME NEW f \in Arrays, NEW i \in DOMAIN stored.arrays[f],
               i \in DOMAIN stored'.arrays[f]
        PROVE  stored.arrays[f][i].key = stored'.arrays[f][i].key
    <3> DEFINE s == stored.arrays[f]
               t == stored'.arrays[f]
    <3>1. s \in Seq(Entry) /\ t \in Seq(Entry) /\ Ordered(f, s) /\ Ordered(f, t)
      BY <2>1, DocumentShape DEF IsCanonical
    <3>2. Distinct(s) /\ Distinct(raw.arrays[f])
      BY DEF Unambiguous, Distinct
    <3>3. KeySet(raw.arrays[f]) = KeySet(s)
      BY DEF KeysOf, KeySet
    <3>4. Distinct(t) /\ KeySet(t) = KeySet(s)
      BY <2>1, <3>2, <3>3, KeysKept
    <3>5. i \in DOMAIN s /\ i \in DOMAIN t
      BY <2>2
    <3> HIDE DEF s, t
    <3>6. s[i].key = t[i].key
      BY <3>1, <3>2, <3>4, <3>5, SameKeysSamePlaces
    <3>7. QED
      BY <3>6 DEF s, t
  <2>3. row \notin Truncated
    BY DEF Truncated
  <2>4. row \in Walk(stored, stored')
    BY <2>1, <2>3, DiffComplete
  <2>5. row \notin Row(<<"additionalInformation">>, stored.info, stored'.info)
    BY DEF Row
  <2>6. PICK f \in Arrays : row \in ArrayRows(f, stored.arrays[f], stored'.arrays[f])
    BY <2>4, <2>5 DEF Walk
  <2> DEFINE old == stored.arrays[f]
             new == stored'.arrays[f]
  <2>7. old \in Seq(Entry) /\ new \in Seq(Entry)
    BY <2>1, DocumentShape
  <2>8. << >> \notin {old, new}
    BY <2>6 DEF ArrayRows, Row
  <2>9. PICK i \in DOMAIN old \cup DOMAIN new :
           row \in EntryRows(<<f, i>>, At(old, i), At(new, i))
    BY <2>6, <2>8 DEF ArrayRows
  <2>10. None \notin {At(old, i), At(new, i)}
    BY <2>9 DEF EntryRows, Row
  <2>11. PICK part \in DOMAIN At(old, i) :
            row \in Row(Append(<<f, i>>, part), At(old, i)[part], At(new, i)[part])
    BY <2>9, <2>10 DEF EntryRows
  <2>12. /\ i \in DOMAIN old /\ i \in DOMAIN new
         /\ At(old, i) = old[i] /\ At(new, i) = new[i] /\ At(old, i) \in Maybe
    BY <2>7, <2>10, AtShape
  <2>13. part \in {"key", "value"}
    BY <2>12, EntryShape
  <2>14. row[1] = <<f, i, part>> /\ At(old, i)[part] # At(new, i)[part]
    BY <2>11, PathAppend DEF Row
  <2>15. part # "key"
    BY <2>2, <2>12, <2>14
  <2>16. QED
    BY <2>13, <2>14, <2>15
<1> HIDE DEF Alike
<1>2. Spec => [][Alike]_vars
  BY <1>1, DocAlways, PTL DEF Spec
<1>3. QED
  BY <1>2 DEF Alike, LikeWithLike
-----------------------------------------------------------------------------
(* Noise.                                                                   *)

\* One order only: arrays in order that have the same entries equally often are
\* the same, if the entries have keys of their own.
LEMMA SameEntries ==
    ASSUME NEW f, NEW s \in Seq(Entry), Ordered(f, s), Plain(s),
           NEW t \in Seq(Entry), Ordered(f, t), Plain(t), Distinct(t),
           \A e \in Entry : Cardinality(Shows(s, e)) = Cardinality(Shows(t, e))
    PROVE  s = t
<1>1. ASSUME NEW seq \in Seq(Entry), Plain(seq), NEW e \in Entry
      PROVE  /\ IsFiniteSet(Shows(seq, e))
             /\ \A i : i \in Shows(seq, e) <=> i \in DOMAIN seq /\ seq[i] = e
  <2>1. ASSUME NEW i \in DOMAIN seq PROVE i \in Shows(seq, e) <=> seq[i] = e
    <3>1. seq[i] \in Entry /\ Fold[seq[i].value] = seq[i].value
      BY <1>1 DEF Plain
    <3>2. seq[i] = e <=> seq[i].key = e.key /\ seq[i].value = e.value
      BY <3>1 DEF Entry
    <3>3. QED
      BY <3>1, <3>2 DEF Shows
  <2>2. Shows(seq, e) \in SUBSET DOMAIN seq
    BY DEF Shows
  <2>3. IsFiniteSet(DOMAIN seq)
    <3>1. DOMAIN seq = 1 .. Len(seq) /\ Len(seq) \in Nat
      OBVIOUS
    <3>2. QED
      BY <3>1, FS_Interval
  <2>4. IsFiniteSet(Shows(seq, e))
    BY <2>2, <2>3, FS_Subset
  <2>5. QED
    BY <2>1, <2>2, <2>4
<1>2. ASSUME NEW i \in DOMAIN s PROVE \E n \in DOMAIN t : t[n] = s[i]
  <2>1. s[i] \in Entry
    OBVIOUS
  <2>2. i \in Shows(s, s[i]) /\ IsFiniteSet(Shows(s, s[i])) /\ IsFiniteSet(Shows(t, s[i]))
    BY <1>1, <2>1
  <2>3. Shows(t, s[i]) # {}
    BY <2>1, <2>2, FS_EmptySet
  <2>4. QED
    BY <1>1, <2>1, <2>3
<1>3. ASSUME NEW n \in DOMAIN t PROVE \E i \in DOMAIN s : s[i] = t[n]
  <2>1. t[n] \in Entry
    OBVIOUS
  <2>2. n \in Shows(t, t[n]) /\ IsFiniteSet(Shows(t, t[n])) /\ IsFiniteSet(Shows(s, t[n]))
    BY <1>1, <2>1
  <2>3. Shows(s, t[n]) # {}
    BY <2>1, <2>2, FS_EmptySet
  <2>4. QED
    BY <1>1, <2>1, <2>3
<1>4. ASSUME NEW i \in DOMAIN s, NEW j \in DOMAIN s, s[i].key = s[j].key PROVE i = j
  <2>1. PICK m \in DOMAIN t : t[m] = s[i]
    BY <1>2
  <2>2. PICK n \in DOMAIN t : t[n] = s[j]
    BY <1>2
  <2>3. m = n
    BY <1>4, <2>1, <2>2 DEF Distinct
  <2> DEFINE e == s[i]
  <2>4. e \in Entry /\ s[j] = e
    BY <2>1, <2>2, <2>3
  <2>5. Shows(t, e) = {m}
    <3>1. \A k \in DOMAIN t : t[k] = e <=> k = m
      BY <2>1 DEF Distinct
    <3>2. \A k : k \in Shows(t, e) <=> k = m
      BY <1>1, <2>4, <3>1
    <3>3. QED
      BY <3>2
  <2>6. i \in Shows(s, e) /\ j \in Shows(s, e) /\ IsFiniteSet(Shows(s, e))
    BY <1>1, <2>4
  <2>7. Cardinality(Shows(s, e)) = 1
    BY <2>4, <2>5, FS_Singleton
  <2>8. QED
    BY <2>6, <2>7, FS_Singleton
<1>5. Distinct(s)
  BY <1>4 DEF Distinct
<1>6. KeySet(s) = KeySet(t)
  <2>1. ASSUME NEW k \in KeySet(s) PROVE k \in KeySet(t)
    BY <1>2 DEF KeySet
  <2>2. ASSUME NEW k \in KeySet(t) PROVE k \in KeySet(s)
    BY <1>3 DEF KeySet
  <2>3. QED
    BY <2>1, <2>2
<1>7. /\ DOMAIN s = DOMAIN t
      /\ \A m \in DOMAIN s, n \in DOMAIN t : s[m].key = t[n].key <=> m = n
  BY <1>5, <1>6, SameKeysSamePlaces
<1>8. ASSUME NEW m \in DOMAIN s PROVE s[m] = t[m]
  <2>1. PICK n \in DOMAIN t : t[n] = s[m]
    BY <1>2
  <2>2. n = m
    BY <1>7, <2>1
  <2>3. QED
    BY <2>1, <2>2
<1>9. s = [m \in DOMAIN s |-> s[m]] /\ t = [m \in DOMAIN t |-> t[m]]
  OBVIOUS
<1>10. QED
  BY <1>7, <1>8, <1>9

\* A payload that says what the last one said, reordered or respelled, gives the
\* same document and no row, if its entries have keys of their own and an object
\* that comes out empty does not come or go, which the walk reports (NoiseUnreported).
THEOREM NoiseNeverReported == Spec => NoiseUnreported
<1> DEFINE Quiet == Collected /\ Meaning(raw) = Meaning(stored) /\ Unambiguous(raw)
                        /\ (raw.info = "hollow" <=> stored.info = "empty") =>
                        Rows = {} /\ stored' = stored
<1>1. DocInv /\ DocInv' /\ [Next]_vars => [Quiet]_vars
  <2> SUFFICES ASSUME DocInv, DocInv', [Next]_vars, Collected,
                      Meaning(raw) = Meaning(stored), Unambiguous(raw),
                      raw.info = "hollow" <=> stored.info = "empty"
               PROVE  Rows = {} /\ stored' = stored
    OBVIOUS
  <2>1. /\ raw \in Documents /\ stored' = Canonical(raw) /\ stored # Unknown
        /\ IsCanonical(stored) /\ IsCanonical(stored')
        /\ stored \in Documents /\ stored' \in Documents /\ Rows = Diff(stored, stored')
    BY Collection DEF Collected
  <2> DEFINE doc == Canonical(raw)
  <2>2. doc \in Documents /\ IsCanonical(doc) /\ Meaning(doc) = Meaning(stored)
    BY <2>1, MeaningKept
  <2>3. doc.info = stored.info
    <3>1. /\ doc.info \in {"none", "empty", "text"} /\ stored.info \in {"none", "empty", "text"}
          /\ doc.info = "empty" <=> stored.info = "empty"
      <4>1. raw.info \in InfoKinds /\ stored.info \in InfoKinds /\ stored.info # "hollow"
        BY <2>1, DocumentShape DEF IsCanonical
      <4>2. doc.info = Trimmed(raw.info)
        BY <2>1, CanonicalShape
      <4>3. QED
        BY <4>1, <4>2 DEF InfoKinds, Trimmed
    <3>2. (IF doc.info = "text" THEN "text" ELSE "none")
            = (IF stored.info = "text" THEN "text" ELSE "none")
      BY <2>2 DEF Meaning
    <3>3. QED
      BY <3>1, <3>2
  <2>4. ASSUME NEW f \in Arrays PROVE stored.arrays[f] = doc.arrays[f]
    <3> DEFINE s == stored.arrays[f]
               t == doc.arrays[f]
    <3>1. /\ s \in Seq(Entry) /\ t \in Seq(Entry) /\ Ordered(f, s) /\ Ordered(f, t)
          /\ Plain(s) /\ Plain(t)
      BY <2>1, <2>2, DocumentShape DEF IsCanonical
    <3>2. Distinct(raw.arrays[f])
      BY DEF Unambiguous, Distinct
    <3>3. Distinct(t)
      BY <2>1, <3>2, KeysKept
    <3>4. ASSUME NEW e \in Entry PROVE Cardinality(Shows(s, e)) = Cardinality(Shows(t, e))
      <4>1. \A q : Meaning(q).arrays[f][e] = Cardinality(Shows(q.arrays[f], e))
        BY DEF Meaning, Shows
      <4>2. QED
        BY <2>2, <4>1
    <3> HIDE DEF s, t
    <3>5. s = t
      BY <3>1, <3>3, <3>4, SameEntries
    <3>6. QED
      BY <3>5 DEF s, t
  <2>5. stored' = stored
    BY <2>1, <2>2, <2>3, <2>4, SameDocument
  <2>6. QED
    BY <2>1, <2>5, DiffComplete
<1> HIDE DEF Quiet
<1>2. Spec => [][Quiet]_vars
  BY <1>1, DocAlways, PTL DEF Spec
<1>3. QED
  BY <1>2 DEF Quiet, NoiseUnreported
-----------------------------------------------------------------------------
(* Putting rows into a document.                                            *)

\* Of a path is said what a row says, or what was said before if none does.
LEMMA NewAtSays ==
    ASSUME NEW changes, NEW path, NEW old
    PROVE  \/ \E row \in changes : row[1] = path /\ NewAt(changes, path, old) = row[3]
           \/ (\A row \in changes : row[1] # path) /\ NewAt(changes, path, old) = old
<1>1. CASE \E row \in changes : row[1] = path
  <2> DEFINE chosen == CHOOSE row \in changes : row[1] = path
  <2>1. chosen \in changes /\ chosen[1] = path
    BY <1>1
  <2>2. NewAt(changes, path, old) = chosen[3]
    BY <1>1 DEF NewAt
  <2> HIDE DEF chosen
  <2>3. QED
    BY <2>1, <2>2
<1>2. CASE ~\E row \in changes : row[1] = path
  BY <1>2 DEF NewAt
<1>3. QED
  BY <1>1, <1>2

LEMMA PathsDiffer ==
    ASSUME NEW f, NEW i, NEW j, NEW part, NEW other
    PROVE  /\ <<f>> # <<f, i>> /\ <<f>> # <<f, i, part>> /\ <<f, j>> # <<f, i, part>>
           /\ <<f, i>> = <<f, j>> => i = j
           /\ <<f, i, part>> = <<f, j, other>> => i = j /\ part = other
OBVIOUS

\* The rows of an array are of the whole array, of whole entries, or of parts.
WholeRow(row, f, new) == row[1] = <<f>> /\ row[3] = new
EntryRow(row, f, i, old, new) ==
    /\ None \in {At(old, i), At(new, i)}
    /\ row[1] = <<f, i>> /\ row[3] = At(new, i)
PartRow(row, f, i, part, old, new) ==
    /\ None \notin {At(old, i), At(new, i)}
    /\ row[1] = <<f, i, part>> /\ row[3] = At(new, i)[part]

LEMMA RowsOfArray ==
    ASSUME NEW f, NEW old \in Seq(Entry), NEW new \in Seq(Entry),
           NEW row \in ArrayRows(f, old, new)
    PROVE  \/ << >> \in {old, new} /\ WholeRow(row, f, new)
           \/ \E i : EntryRow(row, f, i, old, new)
           \/ \E i, part : PartRow(row, f, i, part, old, new)
<1>1. CASE << >> \in {old, new}
  BY <1>1 DEF ArrayRows, Row, WholeRow
<1>2. CASE << >> \notin {old, new}
  <2>1. PICK i \in DOMAIN old \cup DOMAIN new : row \in EntryRows(<<f, i>>, At(old, i), At(new, i))
    BY <1>2 DEF ArrayRows
  <2>2. CASE None \in {At(old, i), At(new, i)}
    <3>1. row[1] = <<f, i>> /\ row[3] = At(new, i)
      BY <2>1, <2>2 DEF EntryRows, Row
    <3>2. EntryRow(row, f, i, old, new)
      BY <2>2, <3>1 DEF EntryRow
    <3>3. QED
      BY <3>2
  <2>3. CASE None \notin {At(old, i), At(new, i)}
    <3>1. PICK part \in DOMAIN At(old, i) :
             row \in Row(Append(<<f, i>>, part), At(old, i)[part], At(new, i)[part])
      BY <2>1, <2>3 DEF EntryRows
    <3>2. row[1] = <<f, i, part>> /\ row[3] = At(new, i)[part]
      BY <3>1, PathAppend DEF Row
    <3>3. PartRow(row, f, i, part, old, new)
      BY <2>3, <3>2 DEF PartRow
    <3>4. QED
      BY <3>3
  <2>4. QED
    BY <2>2, <2>3
<1>3. QED
  BY <1>1, <1>2

\* Rows say which array they are of, so those of others do not matter to it.
OfArray(changes, f, old, new) ==
    /\ ArrayRows(f, old, new) \subseteq changes
    /\ \A row \in changes : row[1][1] = f => row \in ArrayRows(f, old, new)

\* Each place of an array that stays comes out as the new array has it.
LEMMA EntryPatched ==
    ASSUME NEW changes, NEW f, NEW old \in Seq(Entry), NEW new \in Seq(Entry),
           OfArray(changes, f, old, new), << >> \notin {old, new}, NEW i
    PROVE  PatchedEntry(changes, <<f, i>>, At(old, i)) = At(new, i)
<1> DEFINE a == At(old, i)
           b == At(new, i)
           parts == [part \in DOMAIN a |-> NewAt(changes, Append(<<f, i>>, part), a[part])]
<1>1. a \in Maybe /\ b \in Maybe /\ DOMAIN a = {"key", "value"} /\ DOMAIN b = {"key", "value"}
  BY AtShape, EntryShape
<1>2. /\ i \in DOMAIN old <=> a # None
      /\ i \in DOMAIN new <=> b # None
  BY AtShape
<1>3. ASSUME NEW row \in changes, row[1] = <<f, i>>
      PROVE  None \in {a, b} /\ row[3] = b
  <2>1. row \in ArrayRows(f, old, new)
    BY <1>3 DEF OfArray
  <2>2. ~WholeRow(row, f, new) /\ \A j, part : ~PartRow(row, f, j, part, old, new)
    BY <1>3, PathsDiffer DEF WholeRow, PartRow
  <2>3. PICK j : EntryRow(row, f, j, old, new)
    BY <2>1, <2>2, RowsOfArray
  <2>4. i = j
    BY <1>3, <2>3, PathsDiffer DEF EntryRow
  <2>5. QED
    BY <2>3, <2>4 DEF EntryRow
<1>4. ASSUME NEW row \in changes, NEW part, row[1] = <<f, i, part>>
      PROVE  None \notin {a, b} /\ row[3] = b[part]
  <2>1. row \in ArrayRows(f, old, new)
    BY <1>4 DEF OfArray
  <2>2. ~WholeRow(row, f, new) /\ \A j : ~EntryRow(row, f, j, old, new)
    BY <1>4, PathsDiffer DEF WholeRow, EntryRow
  <2>3. PICK j, other : PartRow(row, f, j, other, old, new)
    BY <2>1, <2>2, RowsOfArray
  <2>4. i = j /\ part = other
    BY <1>4, <2>3, PathsDiffer DEF PartRow
  <2>5. QED
    BY <2>3, <2>4 DEF PartRow
<1>5. i \in DOMAIN old \cup DOMAIN new => EntryRows(<<f, i>>, a, b) \subseteq changes
  BY DEF ArrayRows, OfArray
<1>6. PatchedEntry(changes, <<f, i>>, a) = NewAt(changes, <<f, i>>, parts)
  BY DEF PatchedEntry
<1> HIDE DEF a, b
<1>7. CASE None \in {a, b} /\ a # b
  <2>1. << <<f, i>>, a, b >> \in changes
    BY <1>2, <1>5, <1>7 DEF EntryRows, Row
  <2>2. \E row \in changes : row[1] = <<f, i>>
    BY <2>1
  <2>3. \A row \in changes : row[1] = <<f, i>> => row[3] = b
    BY <1>3
  <2> HIDE DEF parts
  <2>4. NewAt(changes, <<f, i>>, parts) = b
    BY <2>2, <2>3, NewAtSays
  <2>5. QED
    BY <1>6, <2>4 DEF a, b
<1>8. CASE ~(None \in {a, b} /\ a # b)
  <2>1. ASSUME NEW part \in DOMAIN a PROVE NewAt(changes, Append(<<f, i>>, part), a[part]) = b[part]
    <3>1. \A row \in changes : row[1] = <<f, i, part>> => row[3] = b[part]
      BY <1>4
    <3>2. a[part] # b[part] => \E row \in changes : row[1] = <<f, i, part>>
      <4>1. SUFFICES ASSUME a[part] # b[part]
                   PROVE  << <<f, i, part>>, a[part], b[part] >> \in changes
        BY <4>1
      <4>2. None \notin {a, b} /\ i \in DOMAIN old \cup DOMAIN new
        BY <1>2, <1>8, <4>1
      <4>3. Row(Append(<<f, i>>, part), a[part], b[part]) \subseteq EntryRows(<<f, i>>, a, b)
        BY <2>1, <4>2 DEF EntryRows
      <4>4. << <<f, i, part>>, a[part], b[part] >> \in Row(Append(<<f, i>>, part), a[part], b[part])
        BY <4>1, PathAppend DEF Row
      <4>5. QED
        BY <1>5, <4>2, <4>3, <4>4
    <3>3. (\E row \in changes : row[1] = <<f, i, part>>) \/ a[part] = b[part]
      BY <3>2
    <3>4. NewAt(changes, <<f, i, part>>, a[part]) = b[part]
      <4> DEFINE path == <<f, i, part>>
                 before == a[part]
                 after == b[part]
      <4>1. /\ \A row \in changes : row[1] = path => row[3] = after
            /\ (\E row \in changes : row[1] = path) \/ before = after
        BY <3>1, <3>3
      <4> HIDE DEF path, before, after
      <4>2. NewAt(changes, path, before) = after
        BY <4>1, NewAtSays
      <4>3. QED
        BY <4>2 DEF path, before, after
    <3>5. QED
      BY <3>4, PathAppend
  <2>2. parts = [part \in {"key", "value"} |-> b[part]]
    BY <1>1, <2>1
  <2>3. [part \in {"key", "value"} |-> b[part]] = b
    BY <1>1, EntryShape
  <2>4. parts = b
    BY <2>2, <2>3
  <2>5. \A row \in changes : row[1] = <<f, i>> => row[3] = b
    BY <1>3
  <2> HIDE DEF parts
  <2>6. NewAt(changes, <<f, i>>, parts) = b
    BY <2>4, <2>5, NewAtSays
  <2>7. QED
    BY <1>6, <2>6 DEF a, b
<1>9. QED
  BY <1>7, <1>8

LEMMA ArrayPatched ==
    ASSUME NEW changes, NEW f, NEW old \in Seq(Entry), NEW new \in Seq(Entry),
           OfArray(changes, f, old, new), Len(new) <= MaxEntries
    PROVE  PatchedArray(changes, f, old) = new
<1> DEFINE at(i) == PatchedEntry(changes, <<f, i>>, At(old, i))
           kept == {i \in 1 .. MaxEntries : at(i) # None}
           seq == [i \in 1 .. Cardinality(kept) |-> at(i)]
<1>1. PatchedArray(changes, f, old) = NewAt(changes, <<f>>, seq)
  BY DEF PatchedArray
<1>2. ASSUME NEW row \in changes, row[1] = <<f>> PROVE << >> \in {old, new} /\ row[3] = new
  <2>1. row \in ArrayRows(f, old, new)
    BY <1>2 DEF OfArray
  <2>2. \A i, part : ~EntryRow(row, f, i, old, new) /\ ~PartRow(row, f, i, part, old, new)
    BY <1>2, PathsDiffer DEF EntryRow, PartRow
  <2>3. << >> \in {old, new} /\ WholeRow(row, f, new)
    BY <2>1, <2>2, RowsOfArray
  <2>4. QED
    BY <2>3 DEF WholeRow
<1>3. CASE << >> \in {old, new} /\ old # new
  <2>1. << <<f>>, old, new >> \in changes
    BY <1>3 DEF OfArray, ArrayRows, Row
  <2>2. \E row \in changes : row[1] = <<f>>
    BY <2>1
  <2>3. \A row \in changes : row[1] = <<f>> => row[3] = new
    BY <1>2
  <2> HIDE DEF seq
  <2>4. NewAt(changes, <<f>>, seq) = new
    BY <2>2, <2>3, NewAtSays
  <2>5. QED
    BY <1>1, <2>4
<1>4. CASE ~(<< >> \in {old, new} /\ old # new)
  <2>1. ASSUME NEW i PROVE at(i) = At(new, i)
    <3>1. CASE << >> \notin {old, new}
      BY <3>1, EntryPatched
    <3>2. CASE old = << >> /\ new = << >>
      <4>1. At(old, i) = None /\ At(new, i) = None
        BY <3>2 DEF At
      <4>2. ArrayRows(f, old, new) = {}
        BY <3>2 DEF ArrayRows, Row
      <4>3. \A row \in changes : row[1][1] # f
        BY <4>2 DEF OfArray
      <4>4. \A part : NewAt(changes, Append(<<f, i>>, part), None[part]) = None[part]
        <5>1. ASSUME NEW part PROVE NewAt(changes, Append(<<f, i>>, part), None[part]) = None[part]
          <6>1. Append(<<f, i>>, part)[1] = f
            BY PathAppend
          <6>2. \A row \in changes : row[1] # Append(<<f, i>>, part)
            BY <4>3, <6>1
          <6>3. QED
            BY <6>2 DEF NewAt
        <5>2. QED
          BY <5>1
      <4>5. \A row \in changes : row[1] # <<f, i>>
        BY <4>3
      <4>6. [part \in DOMAIN None |-> NewAt(changes, Append(<<f, i>>, part), None[part])] = None
        BY <4>4 DEF None
      <4>7. NewAt(changes, <<f, i>>, None) = None
        BY <4>5 DEF NewAt
      <4>8. PatchedEntry(changes, <<f, i>>, None) = None
        BY <4>6, <4>7 DEF PatchedEntry
      <4>9. QED
        BY <4>1, <4>8
    <3>3. QED
      BY <1>4, <3>1, <3>2
  <2> HIDE DEF at
  <2>2. MaxEntries \in Nat /\ Len(new) \in Nat /\ DOMAIN new = 1 .. Len(new)
    BY DocumentsAssumption
  <2>3. kept = 1 .. Len(new)
    <3>1. \A i : i \in kept <=> i \in 1 .. MaxEntries /\ i \in DOMAIN new
      BY <2>1, AtShape
    <3> HIDE DEF kept
    <3>2. \A i : i \in 1 .. Len(new) => i \in 1 .. MaxEntries
      BY <2>2
    <3>3. \A i : i \in kept <=> i \in 1 .. Len(new)
      BY <2>2, <3>1, <3>2
    <3>4. QED
      BY <3>3
  <2>4. Cardinality(kept) = Len(new)
    <3> HIDE DEF kept
    <3>1. \A n \in Nat : Cardinality(1 .. n) = n
      BY FS_Interval
    <3>2. QED
      BY <2>2, <2>3, <3>1
  <2> HIDE DEF kept
  <2>5. seq = [i \in 1 .. Len(new) |-> new[i]]
    <3>1. \A i \in 1 .. Len(new) : at(i) = new[i]
      BY <2>1, <2>2, AtShape
    <3>2. QED
      BY <2>4, <3>1
  <2> HIDE DEF seq
  <2>6. seq = new
    <3>1. new = [i \in 1 .. Len(new) |-> new[i]]
      OBVIOUS
    <3>2. QED
      BY <2>5, <3>1
  <2>7. \A row \in changes : row[1] = <<f>> => row[3] = new
    BY <1>2
  <2>8. NewAt(changes, <<f>>, seq) = new
    BY <2>6, <2>7, NewAtSays
  <2>9. QED
    BY <1>1, <2>8
<1>5. QED
  BY <1>3, <1>4

\* The rows of a walk are the whole difference of two documents.
LEMMA WalkRebuilds ==
    ASSUME NEW old \in Documents, NEW new \in Documents, Fits(new)
    PROVE  Patched(old, Walk(old, new)) = new
<1> DEFINE W == Walk(old, new)
<1>1. ASSUME NEW f \in Arrays PROVE old.arrays[f] \in Seq(Entry) /\ new.arrays[f] \in Seq(Entry)
  BY DocumentShape
<1>2. "additionalInformation" \notin Arrays
  BY DocumentsAssumption
<1>3. \A row \in W :
         \/ /\ row[1] = <<"additionalInformation">>
            /\ row[3] = new.info
         \/ \E f \in Arrays : row \in ArrayRows(f, old.arrays[f], new.arrays[f])
  BY DEF Walk, Row
<1>4. ASSUME NEW f \in Arrays PROVE OfArray(W, f, old.arrays[f], new.arrays[f])
  <2>1. ArrayRows(f, old.arrays[f], new.arrays[f]) \subseteq W
    BY DEF Walk
  <2>2. ASSUME NEW row \in W, row[1][1] = f
        PROVE  row \in ArrayRows(f, old.arrays[f], new.arrays[f])
    <3>1. row[1] # <<"additionalInformation">>
      BY <1>2, <2>2
    <3>2. PICK g \in Arrays : row \in ArrayRows(g, old.arrays[g], new.arrays[g])
      BY <1>3, <3>1
    <3>3. row[1][1] = g
      BY <1>1, <3>2, RowsNameArray
    <3>4. QED
      BY <2>2, <3>2, <3>3
  <2>3. QED
    BY <2>1, <2>2 DEF OfArray
<1>5. ASSUME NEW f \in Arrays PROVE PatchedArray(W, f, old.arrays[f]) = new.arrays[f]
  <2>1. Len(new.arrays[f]) <= MaxEntries
    BY DEF Fits
  <2> HIDE DEF W
  <2>2. QED
    BY <1>1, <1>4, <2>1, ArrayPatched
<1>6. NewAt(W, <<"additionalInformation">>, old.info) = new.info
  <2>1. ASSUME NEW row \in W, row[1] = <<"additionalInformation">> PROVE row[3] = new.info
    <3>1. ASSUME NEW f \in Arrays, row \in ArrayRows(f, old.arrays[f], new.arrays[f]) PROVE FALSE
      <4>1. row[1][1] = f
        BY <1>1, <3>1, RowsNameArray
      <4>2. QED
        BY <1>2, <2>1, <4>1
    <3>2. QED
      BY <1>3, <3>1
  <2>2. (\E row \in W : row[1] = <<"additionalInformation">>) \/ old.info = new.info
    <3>1. SUFFICES ASSUME old.info # new.info
                   PROVE  << <<"additionalInformation">>, old.info, new.info >> \in W
      BY <3>1
    <3>2. QED
      BY <3>1 DEF Walk, Row
  <2>3. \A row \in W : row[1] = <<"additionalInformation">> => row[3] = new.info
    BY <2>1
  <2> HIDE DEF W
  <2>4. QED
    BY <2>2, <2>3, NewAtSays
<1> HIDE DEF W
<1>7. [f \in Arrays |-> PatchedArray(W, f, old.arrays[f])] = new.arrays
  <2>1. new.arrays = [f \in Arrays |-> new.arrays[f]]
    BY DocumentShape
  <2>2. QED
    BY <1>5, <2>1
<1>8. Patched(old, W) = [arrays |-> new.arrays, info |-> new.info]
  BY <1>6, <1>7 DEF Patched
<1>9. QED
  BY <1>8, DocumentShape DEF W

\* The rows of a collection rebuild the new document from the old one, wherever
\* entries were added, dropped or moved, unless they were cut off (RowsRebuild).
THEOREM RowsAlwaysRebuild == Spec => RowsRebuild
<1> DEFINE Rebuilt == Collected /\ Rows # Truncated => Patched(stored, Rows) = stored'
<1>1. DocInv /\ DocInv' /\ [Next]_vars => [Rebuilt]_vars
  <2> SUFFICES ASSUME DocInv, DocInv', [Next]_vars, Collected, Rows # Truncated
               PROVE  Patched(stored, Rows) = stored'
    OBVIOUS
  <2>1. /\ stored \in Documents /\ stored' \in Documents /\ Rows = Diff(stored, stored')
        /\ raw \in Documents /\ stored' = Canonical(raw)
    BY Collection DEF Collected
  <2>2. Rows = Walk(stored, stored')
    BY <2>1, DiffComplete
  <2>3. Fits(stored')
    BY <2>1, CanonicalShape DEF DocInv, Fits
  <2>4. QED
    BY <2>1, <2>2, <2>3, WalkRebuilds
<1> HIDE DEF Rebuilt
<1>2. Spec => [][Rebuilt]_vars
  BY <1>1, DocAlways, PTL DEF Spec
<1>3. QED
  BY <1>2 DEF Rebuilt, RowsRebuild
=============================================================================
