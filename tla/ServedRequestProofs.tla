---- MODULE ServedRequestProofs ----
(***************************************************************************)
(* Theorems about RouteTables and ServedRequest, for any settings, paths   *)
(* and map iteration orders.  First what a stable sort does and what a     *)
(* search of a sorted table finds; from it that what is decided is what    *)
(* the mapping that speaks for a path says; and from that and the theorems *)
(* about ResponseStack what reaches the wire.                              *)
(***************************************************************************)
EXTENDS ServedRequest, ResponseStackProofs, FiniteSetTheorems, SequenceTheorems, TLAPS

-----------------------------------------------------------------------------
(* Numbers and sorting *)

\* Of some numbers one is the least, ...
LEMMA Least ==
  ASSUME NEW S \in SUBSET Nat, S # {}
  PROVE  Min(S) \in S /\ \A k \in S : Min(S) <= k
<1>1. IsWellFoundedOn(OpToRel(<, Nat), Nat)
  BY NatLessThanWellFounded
<1>2. PICK m \in S : \A k \in S : ~(<<k, m>> \in OpToRel(<, Nat))
  BY <1>1, WFMin
<1>3. ASSUME NEW k \in S PROVE m <= k
  <2>1. ~(k < m)
    BY <1>2 DEF OpToRel
  <2> QED
    BY <2>1
<1> QED
  BY <1>3 DEF Min

\* ... and of some numbers up to a bound one is the greatest.
LEMMA Greatest ==
  ASSUME NEW n \in Nat, NEW S \in SUBSET (1..n), S # {}
  PROVE  Max(S) \in S /\ \A k \in S : k <= Max(S)
<1> DEFINE T == {n - k : k \in S}
<1>1. T \in SUBSET Nat /\ T # {}
  <2>1. \A k \in S : n - k \in Nat
    OBVIOUS
  <2> QED
    BY <2>1
<1>2. PICK m \in S : Min(T) = n - m
  BY <1>1, Least
<1>3. ASSUME NEW k \in S PROVE k <= m
  <2>1. n - k \in T
    OBVIOUS
  <2>2. n - m <= n - k
    BY <1>1, <1>2, <2>1, Least
  <2> QED
    BY <2>2
<1> QED
  BY <1>3 DEF Max

\* An element of T that is not one of S makes T the larger of the two.
LEMMA FewerElements ==
  ASSUME NEW T, IsFiniteSet(T), NEW S \in SUBSET T, NEW x \in T, x \notin S
  PROVE  Cardinality(S) < Cardinality(T)
<1>1. Cardinality(S) <= Cardinality(T) /\ IsFiniteSet(S) /\ Cardinality(S) # Cardinality(T)
  BY FS_Subset
<1>2. Cardinality(S) \in Nat /\ Cardinality(T) \in Nat
  BY <1>1, FS_CardinalityType
<1> QED
  BY <1>1, <1>2

\* A function of 1..n into itself that takes no value twice takes every one.
LEMMA EveryPlaceTaken ==
  ASSUME NEW n \in Nat, NEW f \in [1..n -> 1..n],
         \A i, j \in 1..n : i # j => f[i] # f[j]
  PROVE  \A k \in 1..n : \E i \in 1..n : f[i] = k
<1>1. f \in Injection(1..n, 1..n)
  BY DEF Injection, IsInjective
<1>2. f \in Surjection(1..n, 1..n)
  BY <1>1, FS_Injection, FS_Interval
<1> QED
  BY <1>2 DEF Surjection

\* "before" compares the keys of the indices up to n.
Compares(before, key, n) == \A i, j \in 1..n : <<i, j>> \in before <=> key[i] < key[j]

\* The table lists the entries at the indices pos gives, which are all of them, in the order of
\* their keys and, where those are equal, of the indices.
Positions(table, entries, pos, key, n) ==
    /\ table = [k \in 1..n |-> entries[pos[k]]]
    /\ \A i \in 1..n : \E k \in 1..n : pos[k] = i
    /\ \A k, m \in 1..n : k < m =>
          \/ key[pos[k]] < key[pos[m]]
          \/ key[pos[k]] = key[pos[m]] /\ pos[k] < pos[m]

\* Sorted sorts, and is stable.
LEMMA SortedFacts ==
  ASSUME NEW n \in Nat, NEW entries, DOMAIN entries = 1..n,
         NEW key \in [1..n -> Int], NEW before, Compares(before, key, n)
  PROVE  \E pos \in [1..n -> 1..n] : Positions(Sorted(entries, before), entries, pos, key, n)
<1> DEFINE Ahead(j, i) == key[j] < key[i] \/ (key[j] = key[i] /\ j < i)
           Before(i)   == {j \in 1..n : Ahead(j, i)}
           place       == [i \in 1..n |-> 1 + Cardinality(Before(i))]
           pos         == [k \in 1..n |-> CHOOSE i \in 1..n : place[i] = k]
<1>1. ASSUME NEW i \in 1..n
      PROVE  Before(i) \in SUBSET (1..n) /\ i \notin Before(i) /\ IsFiniteSet(Before(i))
             /\ Cardinality(Before(i)) \in Nat
  <2>1. Before(i) \in SUBSET (1..n) /\ i \notin Before(i)
    OBVIOUS
  <2>2. IsFiniteSet(Before(i))
    BY <2>1, FS_Interval, FS_Subset
  <2> QED
    BY <2>1, <2>2, FS_CardinalityType
<1>2. ASSUME NEW i \in 1..n, NEW j \in 1..n, Ahead(j, i)
      PROVE  Before(j) \in SUBSET Before(i) /\ j \in Before(i)
  BY <1>2
<1>3. \A i, j \in 1..n : i # j => Ahead(i, j) \/ Ahead(j, i)
  OBVIOUS
<1>4. \A i \in 1..n : place[i] = 1 + Cardinality({j \in DOMAIN entries :
            <<j, i>> \in before \/ (<<i, j>> \notin before /\ j < i)})
  <2>1. ASSUME NEW i \in 1..n
        PROVE  {j \in DOMAIN entries : <<j, i>> \in before \/ (<<i, j>> \notin before /\ j < i)}
                  = Before(i)
    BY DEF Compares
  <2> QED
    BY <2>1
<1>5. \A i \in 1..n : place[i] = 1 + Cardinality(Before(i))
  OBVIOUS
<1>6. place = [i \in 1..n |-> place[i]]
  OBVIOUS
<1> HIDE DEF Before, place, Ahead
<1>7. ASSUME NEW i \in 1..n PROVE place[i] \in 1..n
  <2>1. IsFiniteSet(1..n) /\ Cardinality(1..n) = n
    BY FS_Interval
  <2>2. Cardinality(Before(i)) < n
    BY <1>1, <2>1, FewerElements
  <2> QED
    BY <1>1, <1>5, <2>2
<1>8. ASSUME NEW i \in 1..n, NEW j \in 1..n, Ahead(j, i) PROVE place[j] < place[i]
  <2>1. Before(j) \in SUBSET Before(i) /\ j \in Before(i) /\ j \notin Before(j)
    BY <1>2, <1>1, <1>8
  <2>2. Cardinality(Before(j)) < Cardinality(Before(i))
    BY <1>1, <2>1, FewerElements
  <2> QED
    BY <1>1, <1>5, <2>2
<1>9. \A i, j \in 1..n : i # j => place[i] # place[j]
  BY <1>7, <1>8, <1>3
<1>10. place \in [1..n -> 1..n]
  BY <1>7, <1>6
<1>11. \A k \in 1..n : \E i \in 1..n : place[i] = k
  BY <1>9, <1>10, EveryPlaceTaken
<1>12. \A k \in 1..n : pos[k] \in 1..n /\ place[pos[k]] = k
  BY <1>11
<1>13. pos \in [1..n -> 1..n]
  BY <1>12
<1> HIDE DEF pos
<1>14. \A i \in 1..n : pos[place[i]] = i
  BY <1>9, <1>10, <1>12
<1>15. ASSUME NEW k \in 1..n, NEW m \in 1..n, k < m PROVE Ahead(pos[k], pos[m])
  <2>1. pos[k] # pos[m]
    BY <1>12, <1>15
  <2>2. ~Ahead(pos[m], pos[k])
    BY <1>8, <1>12, <1>15
  <2> QED
    BY <1>3, <1>12, <2>1, <2>2
<1>16. Sorted(entries, before) = [k \in 1..n |-> entries[pos[k]]]
  <2> DEFINE Place(i)  == 1 + Cardinality({j \in DOMAIN entries :
                              <<j, i>> \in before \/ (<<i, j>> \notin before /\ j < i)})
             chosen(k) == CHOOSE i \in DOMAIN entries : Place(i) = k
  <2>1. \A i \in 1..n : place[i] = Place(i)
    BY <1>4
  <2>2. Sorted(entries, before) = [k \in DOMAIN entries |-> entries[chosen(k)]]
    BY DEF Sorted
  <2> HIDE DEF Place
  <2>3. ASSUME NEW k \in 1..n PROVE chosen(k) \in 1..n /\ Place(chosen(k)) = k
    <3>1. PICK i \in 1..n : place[i] = k
      BY <1>11
    <3>2. i \in DOMAIN entries /\ Place(i) = k
      BY <2>1, <3>1
    <3> QED
      BY <3>2
  <2> HIDE DEF chosen
  <2>4. ASSUME NEW k \in 1..n PROVE chosen(k) = pos[k]
    <3>1. chosen(k) \in 1..n /\ Place(chosen(k)) = k
      BY <2>3
    <3>2. place[chosen(k)] = k
      BY <2>1, <3>1
    <3>3. pos[k] \in 1..n /\ place[pos[k]] = k
      BY <1>12
    <3> QED
      BY <1>9, <3>1, <3>2, <3>3
  <2> QED
    BY <2>2, <2>4
<1>17. \A i \in 1..n : \E k \in 1..n : pos[k] = i
  BY <1>10, <1>14
<1> QED
  BY <1>15, <1>16, <1>13, <1>17 DEF Ahead, Positions

-----------------------------------------------------------------------------
(* Mappings, prefixes and sorted tables *)

\* A list of mappings is a sequence, and the prefixes in it have a length.
LEMMA MappingsFacts ==
  ASSUME NEW mappings, IsMappings(mappings)
  PROVE  /\ Len(mappings) \in Nat /\ DOMAIN mappings = 1..Len(mappings)
         /\ \A i \in 1..Len(mappings) :
               mappings[i].prefix \in Seq(Segments) /\ Len(mappings[i].prefix) \in Nat
<1>1. mappings \in Seq(ToSet(mappings))
  BY DEF IsMappings
<1>2. Len(mappings) \in Nat /\ DOMAIN mappings = 1..Len(mappings)
  BY <1>1, LenProperties
<1>3. ASSUME NEW i \in 1..Len(mappings)
      PROVE  mappings[i].prefix \in Seq(Segments)
  <2>1. mappings[i] \in ToSet(mappings)
    BY <1>2 DEF ToSet
  <2> QED
    BY <2>1 DEF IsMappings
<1>4. \A p \in Seq(Segments) : Len(p) \in Nat
  BY LenProperties
<1> QED
  BY <1>2, <1>3, <1>4

\* Two prefixes of a path that are equally long are the same.
LEMMA SamePrefix ==
  ASSUME NEW p \in Seq(Segments), NEW q \in Seq(Segments), NEW path,
         IsPrefix(p, path), IsPrefix(q, path), Len(p) = Len(q)
  PROVE  p = q
<1>1. SubSeq(p, 1, Len(p)) = SubSeq(q, 1, Len(q))
  BY DEF IsPrefix
<1>2. SubSeq(p, 1, Len(p)) = p /\ SubSeq(q, 1, Len(q)) = q
  BY SubSeqFull
<1> QED
  BY <1>1, <1>2

\* A table is a rearrangement of the entries: nothing is lost, added or repeated.
Rearranged(table, entries) ==
    /\ DOMAIN table = DOMAIN entries
    /\ \A k \in DOMAIN table : \E i \in DOMAIN entries : table[k] = entries[i]
    /\ \A i \in DOMAIN entries : \E k \in DOMAIN table : table[k] = entries[i]
    /\ (\A i, j \in DOMAIN entries : entries[i].prefix = entries[j].prefix => i = j) =>
          \A k, m \in DOMAIN table : table[k].prefix = table[m].prefix => k = m

\* An entry further on in the table has no smaller key.
InKeyOrder(table, entries, key, n) ==
    \A k, m \in 1..n : k < m =>
        \E i, j \in 1..n : table[k] = entries[i] /\ table[m] = entries[j] /\ key[i] <= key[j]

\* What sorting by a key gives.
LEMMA RearrangedFacts ==
  ASSUME NEW n \in Nat, NEW entries, DOMAIN entries = 1..n,
         NEW key \in [1..n -> Int], NEW before, Compares(before, key, n)
  PROVE  /\ Rearranged(Sorted(entries, before), entries)
         /\ InKeyOrder(Sorted(entries, before), entries, key, n)
<1>1. PICK pos \in [1..n -> 1..n] : Positions(Sorted(entries, before), entries, pos, key, n)
  BY SortedFacts
<1> DEFINE table == Sorted(entries, before)
<1>2. DOMAIN table = 1..n /\ \A k \in 1..n : table[k] = entries[pos[k]]
  BY <1>1 DEF Positions
<1>3. \A i \in 1..n : \E k \in 1..n : pos[k] = i
  BY <1>1 DEF Positions
<1>4. \A k, m \in 1..n : k < m =>
          \/ key[pos[k]] < key[pos[m]]
          \/ key[pos[k]] = key[pos[m]] /\ pos[k] < pos[m]
  BY <1>1 DEF Positions
<1>5. \A k \in 1..n : pos[k] \in 1..n
  OBVIOUS
<1>6. \A i \in 1..n : key[i] \in Int
  OBVIOUS
<1> HIDE DEF table
<1>7. \A k, m \in 1..n : pos[k] = pos[m] => k = m
  <2>1. ASSUME NEW k \in 1..n, NEW m \in 1..n, k < m PROVE pos[k] # pos[m]
    <3>1. pos[k] \in 1..n /\ key[pos[k]] \in Int
      BY <1>5, <1>6 DEF InKeyOrder
    <3>2. \/ key[pos[k]] < key[pos[m]]
          \/ key[pos[k]] = key[pos[m]] /\ pos[k] < pos[m]
      BY <1>4, <2>1
    <3> QED
      BY <3>1, <3>2
  <2> QED
    BY <2>1
<1>8. \A i \in 1..n : \E k \in 1..n : table[k] = entries[i]
  BY <1>2, <1>3
<1>9. ASSUME \A i, j \in 1..n : entries[i].prefix = entries[j].prefix => i = j,
             NEW k \in 1..n, NEW m \in 1..n, table[k].prefix = table[m].prefix
      PROVE  k = m
  <2>1. pos[k] \in 1..n /\ pos[m] \in 1..n
    BY <1>5
  <2>2. entries[pos[k]].prefix = entries[pos[m]].prefix
    BY <1>2, <1>9
  <2>3. pos[k] = pos[m]
    BY <1>9, <2>1, <2>2
  <2> QED
    BY <1>7, <2>3
<1>10. Rearranged(table, entries)
  BY <1>2, <1>8, <1>9 DEF Rearranged
<1>11. ASSUME NEW k \in 1..n, NEW m \in 1..n, k < m
      PROVE  \E i, j \in 1..n : /\ table[k] = entries[i] /\ table[m] = entries[j]
                                /\ key[i] <= key[j]
  <2>1. pos[k] \in 1..n /\ pos[m] \in 1..n
    BY <1>5
  <2>2. key[pos[k]] \in Int /\ key[pos[m]] \in Int
    BY <1>6, <2>1
  <2>3. key[pos[k]] < key[pos[m]] \/ key[pos[k]] = key[pos[m]]
    BY <1>4, <1>11
  <2>4. key[pos[k]] <= key[pos[m]]
    BY <2>2, <2>3
  <2> QED
    BY <1>2, <2>1, <2>4
<1> QED
  BY <1>10, <1>11 DEF table, InKeyOrder

\* LongestFirst puts no longer prefix behind a shorter one, ...
LEMMA LongestFirstFacts ==
  ASSUME NEW n \in Nat, NEW entries, DOMAIN entries = 1..n,
         \A i \in 1..n : Len(entries[i].prefix) \in Nat
  PROVE  LET table == LongestFirst(entries)
         IN  /\ Rearranged(table, entries)
             /\ \A k, m \in 1..n : k < m => Len(table[m].prefix) <= Len(table[k].prefix)
<1> DEFINE key    == [i \in 1..n |-> 0 - Len(entries[i].prefix)]
           before == {p \in Pairs(entries) : Longer(entries[p[1]], entries[p[2]])}
<1>1. key \in [1..n -> Int]
  OBVIOUS
<1>2. Compares(before, key, n)
  <2>1. ASSUME NEW i \in 1..n, NEW j \in 1..n PROVE <<i, j>> \in before <=> key[i] < key[j]
    <3>1. <<i, j>> \in Pairs(entries)
      BY DEF Pairs
    <3> QED
      BY <3>1 DEF Longer
  <2> QED
    BY <2>1 DEF Compares
<1>3. \A i \in 1..n : key[i] = 0 - Len(entries[i].prefix)
  OBVIOUS
<1>4. LongestFirst(entries) = Sorted(entries, before)
  BY DEF LongestFirst
<1> HIDE DEF key, before
<1>5. /\ Rearranged(LongestFirst(entries), entries)
      /\ InKeyOrder(LongestFirst(entries), entries, key, n)
  BY <1>1, <1>2, <1>4, RearrangedFacts
<1>6. ASSUME NEW k \in 1..n, NEW m \in 1..n, k < m
      PROVE  Len(LongestFirst(entries)[m].prefix) <= Len(LongestFirst(entries)[k].prefix)
  <2>1. PICK i, j \in 1..n : /\ LongestFirst(entries)[k] = entries[i]
                            /\ LongestFirst(entries)[m] = entries[j]
                            /\ key[i] <= key[j]
    <3>1. InKeyOrder(LongestFirst(entries), entries, key, n)
      BY <1>5
    <3> QED
      BY <1>6, <3>1 DEF InKeyOrder
  <2> QED
    BY <1>3, <2>1
<1> QED
  BY <1>5, <1>6

\* ... and ShortestFirst no shorter one behind a longer.
LEMMA ShortestFirstFacts ==
  ASSUME NEW n \in Nat, NEW entries, DOMAIN entries = 1..n,
         \A i \in 1..n : Len(entries[i].prefix) \in Nat
  PROVE  LET table == ShortestFirst(entries)
         IN  /\ Rearranged(table, entries)
             /\ \A k, m \in 1..n : k < m => Len(table[k].prefix) <= Len(table[m].prefix)
<1> DEFINE key    == [i \in 1..n |-> Len(entries[i].prefix)]
           before == {p \in Pairs(entries) : Longer(entries[p[2]], entries[p[1]])}
<1>1. key \in [1..n -> Int]
  OBVIOUS
<1>2. Compares(before, key, n)
  <2>1. ASSUME NEW i \in 1..n, NEW j \in 1..n PROVE <<i, j>> \in before <=> key[i] < key[j]
    <3>1. <<i, j>> \in Pairs(entries)
      BY DEF Pairs
    <3> QED
      BY <3>1 DEF Longer
  <2> QED
    BY <2>1 DEF Compares
<1>3. \A i \in 1..n : key[i] = Len(entries[i].prefix)
  OBVIOUS
<1>4. ShortestFirst(entries) = Sorted(entries, before)
  BY DEF ShortestFirst
<1> HIDE DEF key, before
<1>5. /\ Rearranged(ShortestFirst(entries), entries)
      /\ InKeyOrder(ShortestFirst(entries), entries, key, n)
  BY <1>1, <1>2, <1>4, RearrangedFacts
<1>6. ASSUME NEW k \in 1..n, NEW m \in 1..n, k < m
      PROVE  Len(ShortestFirst(entries)[k].prefix) <= Len(ShortestFirst(entries)[m].prefix)
  <2>1. PICK i, j \in 1..n : /\ ShortestFirst(entries)[k] = entries[i]
                            /\ ShortestFirst(entries)[m] = entries[j]
                            /\ key[i] <= key[j]
    <3>1. InKeyOrder(ShortestFirst(entries), entries, key, n)
      BY <1>5
    <3> QED
      BY <1>6, <3>1 DEF InKeyOrder
  <2> QED
    BY <1>3, <2>1
<1> QED
  BY <1>5, <1>6

\* The orders of a finite set are lists of all its elements, none of them twice.
LEMMA OrderFacts ==
  ASSUME NEW S, IsFiniteSet(S), NEW order \in SetToSeqs(S)
  PROVE  /\ Cardinality(S) \in Nat /\ order \in [1..Cardinality(S) -> S]
         /\ \A i, j \in 1..Cardinality(S) : order[i] = order[j] => i = j
         /\ \A x \in S : \E i \in 1..Cardinality(S) : order[i] = x
<1> DEFINE D == 1..Cardinality(S)
<1>1. Cardinality(S) \in Nat
  BY FS_CardinalityType
<1>2. order \in [D -> S] /\ \A i, j \in D : order[i] = order[j] => i = j
  BY DEF SetToSeqs
<1>3. order \in Injection(D, S)
  BY <1>2 DEF Injection, IsInjective
<1>4. Cardinality(D) = Cardinality(S)
  BY <1>1, FS_Interval
<1>5. order \in Surjection(D, S)
  BY <1>3, <1>4, FS_Injection
<1>6. \A x \in S : \E i \in D : order[i] = x
  BY <1>5 DEF Surjection
<1> QED
  BY <1>1, <1>2, <1>6

\* What indices up to n are mapped to is finite.
LEMMA FiniteImage ==
  ASSUME NEW n \in Nat, NEW f, NEW S, S = {f[i] : i \in 1..n}
  PROVE  IsFiniteSet(S)
<1> DEFINE g == [i \in 1..n |-> f[i]]
<1>1. g \in Surjection(1..n, S)
  BY DEF Surjection
<1> QED
  BY <1>1, FS_Interval, FS_Surjection

-----------------------------------------------------------------------------
(* What a search of a sorted table finds *)

\* An entry that matches the path, with no longer one that does.
Nearest(entries, path, i) ==
    /\ i \in Matching(entries, path)
    /\ \A j \in Matching(entries, path) : Len(entries[j].prefix) <= Len(entries[i].prefix)

\* The first match in a table sorted by LongestFirst is the nearest of the entries, and there is
\* one if any entry matches.
LEMMA FirstMatch ==
  ASSUME NEW n \in Nat, NEW entries, DOMAIN entries = 1..n,
         \A i \in 1..n : Len(entries[i].prefix) \in Nat,
         NEW path
  PROVE  LET found == Matching(LongestFirst(entries), path)
         IN  /\ found = {} <=> Matching(entries, path) = {}
             /\ found # {} => \E i \in DOMAIN entries :
                   /\ LongestFirst(entries)[Min(found)] = entries[i]
                   /\ Nearest(entries, path, i)
<1> DEFINE table == LongestFirst(entries)
           found == Matching(table, path)
<1>1. /\ Rearranged(table, entries)
      /\ \A k, m \in 1..n : k < m => Len(table[m].prefix) <= Len(table[k].prefix)
  BY LongestFirstFacts
<1> HIDE DEF table
<1>2. /\ DOMAIN table = 1..n
      /\ \A k \in 1..n : \E i \in 1..n : table[k] = entries[i]
      /\ \A i \in 1..n : \E k \in 1..n : table[k] = entries[i]
  BY <1>1 DEF Rearranged
<1>3. \A i \in Matching(entries, path) : \E k \in found : table[k] = entries[i]
  BY <1>2 DEF Matching
<1>4. \A k \in found : k \in 1..n /\ \E i \in Matching(entries, path) : table[k] = entries[i]
  BY <1>2 DEF Matching
<1> HIDE DEF found
<1>5. found = {} <=> Matching(entries, path) = {}
  BY <1>3, <1>4
<1>6. ASSUME found # {}
      PROVE  \E i \in DOMAIN entries : table[Min(found)] = entries[i] /\ Nearest(entries, path, i)
  <2>1. Min(found) \in found /\ \A k \in found : Min(found) <= k
    BY <1>4, <1>6, Least
  <2>2. PICK i \in Matching(entries, path) : table[Min(found)] = entries[i]
    BY <1>4, <2>1
  <2>3. ASSUME NEW j \in Matching(entries, path)
        PROVE  Len(entries[j].prefix) <= Len(entries[i].prefix)
    <3>1. PICK k \in found : table[k] = entries[j]
      BY <1>3
    <3>2. k \in 1..n /\ Min(found) \in 1..n /\ Min(found) <= k
      BY <1>4, <2>1
    <3>3. j \in 1..n /\ Len(entries[j].prefix) \in Nat
      BY DEF Matching
    <3>4. CASE k = Min(found)
      BY <2>2, <3>1, <3>3, <3>4
    <3>5. CASE Min(found) < k
      BY <1>1, <2>2, <3>1, <3>2, <3>5
    <3> QED
      BY <3>2, <3>4, <3>5
  <2>4. i \in DOMAIN entries
    BY DEF Matching
  <2> QED
    BY <2>2, <2>3, <2>4 DEF Nearest
<1> QED
  BY <1>5, <1>6 DEF found, table

\* The last of some entries of a table sorted by ShortestFirst has the longest prefix.
LEMMA LastEntry ==
  ASSUME NEW n \in Nat, NEW entries, DOMAIN entries = 1..n,
         \A i \in 1..n : Len(entries[i].prefix) \in Nat,
         NEW some \in SUBSET (1..n), some # {}
  PROVE  LET table == ShortestFirst(entries)
         IN  /\ Max(some) \in some
             /\ \A k \in some : Len(table[k].prefix) <= Len(table[Max(some)].prefix)
<1> DEFINE table == ShortestFirst(entries)
<1>1. /\ Rearranged(table, entries)
      /\ \A k, m \in 1..n : k < m => Len(table[k].prefix) <= Len(table[m].prefix)
  BY ShortestFirstFacts
<1> HIDE DEF table
<1>2. PICK m \in some : m = Max(some) /\ \A k \in some : k <= m
  BY Greatest
<1>3. \A k \in 1..n : Len(table[k].prefix) \in Nat
  BY <1>1 DEF Rearranged
<1>4. ASSUME NEW k \in some PROVE Len(table[k].prefix) <= Len(table[m].prefix)
  <2>1. k \in 1..n /\ m \in 1..n /\ k <= m
    BY <1>2
  <2>2. CASE k = m
    BY <1>3, <2>1, <2>2
  <2>3. CASE k < m
    BY <1>1, <2>1, <2>3
  <2> QED
    BY <2>1, <2>2, <2>3
<1> QED
  BY <1>2, <1>4 DEF table

-----------------------------------------------------------------------------
(* The routes *)

\* Of mappings without duplicates the first match in the sorted table speaks for the path.
LEMMA RouteSpeaks ==
  ASSUME NEW mappings, IsMappings(mappings), ~HasDuplicates(mappings), NEW path,
         Matching(mappings, path) # {}
  PROVE  LET table == LongestFirst(mappings)
         IN  \E i \in DOMAIN mappings :
                /\ table[Min(Matching(table, path))] = mappings[i]
                /\ Speaks(mappings, DOMAIN mappings, path, i)
<1> DEFINE n     == Len(mappings)
           found == Matching(LongestFirst(mappings), path)
<1>1. /\ n \in Nat /\ DOMAIN mappings = 1..n
      /\ \A i \in 1..n : mappings[i].prefix \in Seq(Segments) /\ Len(mappings[i].prefix) \in Nat
  BY MappingsFacts
<1> HIDE DEF n, found
<1>2. PICK i \in DOMAIN mappings : /\ LongestFirst(mappings)[Min(found)] = mappings[i]
                                   /\ Nearest(mappings, path, i)
  BY <1>1, FirstMatch DEF found
<1>3. i \in 1..n /\ IsPrefix(mappings[i].prefix, path)
  BY <1>1, <1>2 DEF Nearest, Matching
<1>4. ASSUME NEW j \in DOMAIN mappings, IsPrefix(mappings[j].prefix, path)
      PROVE  \/ Longer(mappings[i], mappings[j])
             \/ ~Longer(mappings[j], mappings[i]) /\ j <= i
  <2>1. j \in 1..n /\ Len(mappings[j].prefix) <= Len(mappings[i].prefix)
    BY <1>1, <1>2, <1>4 DEF Nearest, Matching
  <2>2. CASE Len(mappings[j].prefix) < Len(mappings[i].prefix)
    BY <1>1, <1>3, <2>1, <2>2 DEF Longer
  <2>3. CASE Len(mappings[j].prefix) = Len(mappings[i].prefix)
    <3>1. mappings[j].prefix = mappings[i].prefix
      BY <1>1, <1>3, <1>4, <2>1, <2>3, SamePrefix
    <3>2. ~(i < j) /\ ~(j < i)
      BY <1>1, <1>3, <2>1, <3>1 DEF HasDuplicates
    <3> QED
      BY <1>1, <1>3, <2>1, <2>3, <3>2 DEF Longer
  <2> QED
    BY <1>1, <1>3, <2>1, <2>2, <2>3
<1>5. Speaks(mappings, DOMAIN mappings, path, i)
  BY <1>2, <1>3, <1>4 DEF Speaks
<1> QED
  BY <1>2, <1>5 DEF found

-----------------------------------------------------------------------------
(* The streaming policies *)

\* At most one of some mappings speaks for a path.
LEMMA SpeaksOnce ==
  ASSUME NEW mappings, IsMappings(mappings), NEW among \in SUBSET DOMAIN mappings, NEW path,
         NEW i, NEW j, Speaks(mappings, among, path, i), Speaks(mappings, among, path, j)
  PROVE  i = j
<1>1. i \in 1..Len(mappings) /\ j \in 1..Len(mappings) /\ Len(mappings) \in Nat
  BY MappingsFacts DEF Speaks
<1>2. Len(mappings[i].prefix) \in Nat /\ Len(mappings[j].prefix) \in Nat
  BY <1>1, MappingsFacts
<1>3. j <= i
  BY <1>1, <1>2 DEF Speaks, Longer
<1>4. i <= j
  BY <1>1, <1>2 DEF Speaks, Longer
<1> QED
  BY <1>1, <1>3, <1>4

\* no later mapping has the prefix of mapping i
LastOfPrefix(mappings, i) ==
    \A j \in DOMAIN mappings : j > i => mappings[j].prefix # mappings[i].prefix

\* Of every prefix that is mapped, the last mapping and no other.
OfMappings(policies, mappings) ==
    /\ IsFiniteSet(policies)
    /\ \A e \in policies : \E i \in DOMAIN mappings : e = mappings[i] /\ LastOfPrefix(mappings, i)
    /\ \A i \in DOMAIN mappings : \E e \in policies : e.prefix = mappings[i].prefix
    /\ \A e, f \in policies : e.prefix = f.prefix => e = f

\* That is what the map NewProxyStreamingPolicies fills holds.
LEMMA LastMappings ==
  ASSUME NEW mappings, IsMappings(mappings)
  PROVE  OfMappings(PolicyByPathPrefix(mappings), mappings)
<1> DEFINE n        == Len(mappings)
           policies == PolicyByPathPrefix(mappings)
<1>1. n \in Nat /\ DOMAIN mappings = 1..n
  BY MappingsFacts
<1> HIDE DEF n
<1>2. IsFiniteSet(policies)
  <2> DEFINE all == {mappings[i] : i \in 1..n}
  <2>1. IsFiniteSet(all)
    BY <1>1, FiniteImage
  <2>2. policies \in SUBSET all
    BY <1>1 DEF PolicyByPathPrefix
  <2> QED
    BY <2>1, <2>2, FS_Subset
<1>3. \A e \in policies : \E i \in DOMAIN mappings : e = mappings[i] /\ LastOfPrefix(mappings, i)
  BY DEF PolicyByPathPrefix, LastOfPrefix
<1>4. \A i \in DOMAIN mappings : LastOfPrefix(mappings, i) => mappings[i] \in policies
  BY DEF PolicyByPathPrefix, LastOfPrefix
<1> HIDE DEF policies
<1>5. ASSUME NEW i \in DOMAIN mappings PROVE \E e \in policies : e.prefix = mappings[i].prefix
  <2> DEFINE same == {j \in 1..n : mappings[j].prefix = mappings[i].prefix}
  <2>1. same \in SUBSET (1..n) /\ i \in same
    BY <1>1
  <2>2. PICK l \in same : \A j \in same : j <= l
    BY <1>1, <2>1, Greatest
  <2>3. l \in DOMAIN mappings /\ LastOfPrefix(mappings, l)
    BY <1>1, <2>2 DEF LastOfPrefix
  <2> QED
    BY <1>4, <2>2, <2>3
<1>6. ASSUME NEW e \in policies, NEW f \in policies, e.prefix = f.prefix PROVE e = f
  <2>1. PICK i \in DOMAIN mappings : e = mappings[i] /\ LastOfPrefix(mappings, i)
    BY <1>3
  <2>2. PICK j \in DOMAIN mappings : f = mappings[j] /\ LastOfPrefix(mappings, j)
    BY <1>3
  <2>3. ~(i < j) /\ ~(j < i)
    BY <1>1, <1>6, <2>1, <2>2 DEF LastOfPrefix
  <2> QED
    BY <1>1, <2>1, <2>2, <2>3
<1> QED
  BY <1>2, <1>3, <1>5, <1>6 DEF policies, OfMappings

\* In whatever order the map is read, its table has each prefix once, ...
LEMMA StreamingTable ==
  ASSUME NEW mappings, IsMappings(mappings), NEW order \in SetToSeqs(PolicyByPathPrefix(mappings))
  PROVE  LET n == Cardinality(PolicyByPathPrefix(mappings))
         IN  /\ n \in Nat /\ DOMAIN order = 1..n
             /\ \A k \in 1..n : \E i \in DOMAIN mappings :
                   order[k] = mappings[i] /\ LastOfPrefix(mappings, i)
             /\ \A i \in DOMAIN mappings : \E k \in 1..n : order[k].prefix = mappings[i].prefix
             /\ \A k, l \in 1..n : order[k].prefix = order[l].prefix => k = l
             /\ \A k \in 1..n : Len(order[k].prefix) \in Nat
<1> DEFINE policies == PolicyByPathPrefix(mappings)
           n        == Cardinality(policies)
<1>1. OfMappings(policies, mappings)
  BY LastMappings
<1> HIDE DEF policies
<1>2. /\ n \in Nat /\ order \in [1..n -> policies]
      /\ \A i, j \in 1..n : order[i] = order[j] => i = j
      /\ \A x \in policies : \E i \in 1..n : order[i] = x
  BY <1>1, OrderFacts DEF policies, OfMappings
<1>3. \A k \in 1..n : order[k] \in policies
  BY <1>2
<1> HIDE DEF n
<1>4. \A k \in 1..n : \E i \in DOMAIN mappings :
          order[k] = mappings[i] /\ LastOfPrefix(mappings, i)
  BY <1>1, <1>3 DEF OfMappings
<1>5. \A i \in DOMAIN mappings : \E k \in 1..n : order[k].prefix = mappings[i].prefix
  BY <1>1, <1>2 DEF OfMappings
<1>6. \A k, l \in 1..n : order[k].prefix = order[l].prefix => k = l
  BY <1>1, <1>2, <1>3 DEF OfMappings
<1>7. \A k \in 1..n : Len(order[k].prefix) \in Nat
  BY <1>4, MappingsFacts
<1>8. n \in Nat /\ DOMAIN order = 1..n
  BY <1>2
<1> QED
  BY <1>4, <1>5, <1>6, <1>7, <1>8 DEF n, policies

\* ... and the first match in it speaks for the path.
LEMMA StreamingSpeaks ==
  ASSUME NEW mappings, IsMappings(mappings), NEW order \in SetToSeqs(PolicyByPathPrefix(mappings)),
         NEW path
  PROVE  LET found == Matching(LongestFirst(order), path)
         IN  /\ found = {} <=> Matching(mappings, path) = {}
             /\ found # {} => \E i \in DOMAIN mappings :
                   /\ LongestFirst(order)[Min(found)] = mappings[i]
                   /\ Speaks(mappings, DOMAIN mappings, path, i)
<1> DEFINE n     == Cardinality(PolicyByPathPrefix(mappings))
           found == Matching(LongestFirst(order), path)
<1>1. /\ n \in Nat /\ DOMAIN order = 1..n
      /\ \A k \in 1..n : \E i \in DOMAIN mappings :
            order[k] = mappings[i] /\ LastOfPrefix(mappings, i)
      /\ \A i \in DOMAIN mappings : \E k \in 1..n : order[k].prefix = mappings[i].prefix
      /\ \A k \in 1..n : Len(order[k].prefix) \in Nat
  BY StreamingTable
<1>2. /\ \A i \in DOMAIN mappings : mappings[i].prefix \in Seq(Segments)
      /\ \A i \in DOMAIN mappings : i \in Nat
  BY MappingsFacts
<1> HIDE DEF n, found
<1>3. Matching(order, path) = {} <=> Matching(mappings, path) = {}
  <2>1. ASSUME NEW k \in Matching(order, path) PROVE Matching(mappings, path) # {}
    BY <1>1 DEF Matching
  <2>2. ASSUME NEW i \in Matching(mappings, path) PROVE Matching(order, path) # {}
    BY <1>1 DEF Matching
  <2> QED
    BY <2>1, <2>2
<1>4. found = {} <=> Matching(mappings, path) = {}
  BY <1>1, <1>3, FirstMatch DEF found
<1>5. ASSUME found # {}
      PROVE  \E i \in DOMAIN mappings : /\ LongestFirst(order)[Min(found)] = mappings[i]
                                        /\ Speaks(mappings, DOMAIN mappings, path, i)
  <2>1. PICK k \in DOMAIN order : /\ LongestFirst(order)[Min(found)] = order[k]
                                  /\ Nearest(order, path, k)
    BY <1>1, <1>5, FirstMatch DEF found
  <2>2. PICK i \in DOMAIN mappings : order[k] = mappings[i] /\ LastOfPrefix(mappings, i)
    BY <1>1
  <2>3. IsPrefix(mappings[i].prefix, path)
    BY <2>1, <2>2 DEF Nearest, Matching
  <2>4. ASSUME NEW j \in DOMAIN mappings, IsPrefix(mappings[j].prefix, path)
        PROVE  \/ Longer(mappings[i], mappings[j])
               \/ ~Longer(mappings[j], mappings[i]) /\ j <= i
    <3>1. PICK m \in 1..n : order[m].prefix = mappings[j].prefix
      BY <1>1
    <3>2. m \in Matching(order, path)
      BY <1>1, <2>4, <3>1 DEF Matching
    <3>3. Len(mappings[j].prefix) <= Len(mappings[i].prefix)
      BY <2>1, <2>2, <3>1, <3>2 DEF Nearest
    <3>4. Len(mappings[j].prefix) \in Nat /\ Len(mappings[i].prefix) \in Nat
      BY MappingsFacts
    <3>5. CASE Len(mappings[j].prefix) = Len(mappings[i].prefix)
      <4>1. mappings[j].prefix = mappings[i].prefix
        BY <1>2, <2>3, <2>4, <3>5, SamePrefix
      <4>2. ~(j > i)
        BY <2>2, <4>1 DEF LastOfPrefix
      <4> QED
        BY <1>2, <3>4, <3>5, <4>2 DEF Longer
    <3> QED
      BY <3>3, <3>4, <3>5 DEF Longer
  <2>5. Speaks(mappings, DOMAIN mappings, path, i)
    BY <2>3, <2>4 DEF Speaks
  <2> QED
    BY <2>1, <2>2, <2>5
<1> QED
  BY <1>4, <1>5 DEF found

-----------------------------------------------------------------------------
(* The response policies *)

\* no later mapping gives the same name the same prefix
LastNaming(mappings, i) == \A j \in DOMAIN mappings :
    mappings[j].prefix = mappings[i].prefix /\ mappings[j].name = mappings[i].name => j <= i

\* entry e has the value that mapping i gives name n
Gives(e, n, mappings, i) ==
    /\ mappings[i].prefix = e.prefix /\ mappings[i].name = n /\ mappings[i].value = e.headers[n]
    /\ LastNaming(mappings, i)

\* Of every prefix that is mapped one entry, with the last value of every name.
HeadersOfMappings(policies, mappings) ==
    /\ IsFiniteSet(policies)
    /\ \A e \in policies : \E i \in DOMAIN mappings : e.prefix = mappings[i].prefix
    /\ \A e \in policies : \A n \in DOMAIN e.headers : \E i \in DOMAIN mappings : Gives(e, n, mappings, i)
    /\ \A i \in DOMAIN mappings : \E e \in policies :
          e.prefix = mappings[i].prefix /\ mappings[i].name \in DOMAIN e.headers
    /\ \A e, f \in policies : e.prefix = f.prefix => e = f

\* That is what the map of maps NewRouteResponsePolicies fills holds.
LEMMA HeaderMaps ==
  ASSUME NEW mappings, IsMappings(mappings)
  PROVE  HeadersOfMappings(HeadersByPathPrefix(mappings), mappings)
<1> DEFINE n        == Len(mappings)
           policies == HeadersByPathPrefix(mappings)
           Of(p)       == {i \in DOMAIN mappings : mappings[i].prefix = p}
           Named(p, x) == {i \in Of(p) : mappings[i].name = x}
           Entry(p) == [prefix  |-> p,
                        headers |-> [x \in {mappings[i].name : i \in Of(p)} |->
                                        mappings[Max(Named(p, x))].value]]
           prefixes == {mappings[i].prefix : i \in DOMAIN mappings}
<1>1. n \in Nat /\ DOMAIN mappings = 1..n
  BY MappingsFacts
<1>2. policies = {Entry(p) : p \in prefixes}
  BY DEF HeadersByPathPrefix
<1> HIDE DEF n, policies
<1>4. \A p : /\ Entry(p).prefix = p
             /\ DOMAIN Entry(p).headers = {mappings[i].name : i \in Of(p)}
             /\ \A x \in {mappings[i].name : i \in Of(p)} :
                   Entry(p).headers[x] = mappings[Max(Named(p, x))].value
  OBVIOUS
<1> HIDE DEF Entry
<1>3. IsFiniteSet(policies)
  <2> DEFINE f == [i \in 1..n |-> Entry(mappings[i].prefix)]
  <2>1. \A i \in 1..n : f[i] = Entry(mappings[i].prefix)
    OBVIOUS
  <2> HIDE DEF f
  <2>2. policies = {f[i] : i \in 1..n}
    BY <1>1, <1>2, <2>1
  <2> QED
    BY <1>1, <2>2, FiniteImage
<1>5. \A e \in policies : \E i \in DOMAIN mappings : e.prefix = mappings[i].prefix
  BY <1>2, <1>4
<1>6. ASSUME NEW e \in policies, NEW x \in DOMAIN e.headers
      PROVE  \E i \in DOMAIN mappings : Gives(e, x, mappings, i)
  <2>1. PICK p \in prefixes : e = Entry(p)
    BY <1>2
  <2>2. PICK i \in Of(p) : mappings[i].name = x
    BY <1>4, <2>1
  <2>3. Named(p, x) \in SUBSET (1..n) /\ i \in Named(p, x)
    BY <1>1, <2>2
  <2>4. PICK l \in Named(p, x) : l = Max(Named(p, x)) /\ \A j \in Named(p, x) : j <= l
    BY <1>1, <2>3, Greatest
  <2>5. e.headers[x] = mappings[l].value /\ e.prefix = p
    <3>1. x \in {mappings[j].name : j \in Of(p)}
      BY <2>2
    <3>2. Entry(p).headers[x] = mappings[Max(Named(p, x))].value /\ Entry(p).prefix = p
      BY <1>4, <3>1
    <3> HIDE DEF Named
    <3> QED
      BY <2>1, <2>4, <3>2
  <2>6. l \in DOMAIN mappings /\ mappings[l].prefix = p /\ mappings[l].name = x
    OBVIOUS
  <2>7. LastNaming(mappings, l)
    BY <2>4, <2>6 DEF LastNaming
  <2> QED
    BY <2>5, <2>6, <2>7 DEF Gives
<1>7. ASSUME NEW i \in DOMAIN mappings
      PROVE  \E e \in policies : e.prefix = mappings[i].prefix /\ mappings[i].name \in DOMAIN e.headers
  <2>1. Entry(mappings[i].prefix) \in policies
    BY <1>2
  <2>2. i \in Of(mappings[i].prefix)
    OBVIOUS
  <2> QED
    BY <1>4, <2>1, <2>2
<1>8. \A e, f \in policies : e.prefix = f.prefix => e = f
  BY <1>2, <1>4
<1> QED
  BY <1>3, <1>5, <1>6, <1>7, <1>8 DEF policies, HeadersOfMappings

\* The table holds those entries.
HeaderTable(table, mappings, n) ==
    /\ n \in Nat /\ DOMAIN table = 1..n
    /\ \A k \in 1..n : Len(table[k].prefix) \in Nat
    /\ \A k \in 1..n : \E i \in DOMAIN mappings : table[k].prefix = mappings[i].prefix
    /\ \A k \in 1..n : \A x \in DOMAIN table[k].headers :
          \E i \in DOMAIN mappings : Gives(table[k], x, mappings, i)
    /\ \A i \in DOMAIN mappings : \E k \in 1..n :
          table[k].prefix = mappings[i].prefix /\ mappings[i].name \in DOMAIN table[k].headers
    /\ \A k, l \in 1..n : table[k].prefix = table[l].prefix => k = l

\* In whatever order the map is read its table has each prefix once.
LEMMA HeaderOrder ==
  ASSUME NEW mappings, IsMappings(mappings), NEW order \in SetToSeqs(HeadersByPathPrefix(mappings))
  PROVE  HeaderTable(order, mappings, Cardinality(HeadersByPathPrefix(mappings)))
<1> DEFINE policies == HeadersByPathPrefix(mappings)
           n        == Cardinality(policies)
<1>1. HeadersOfMappings(policies, mappings)
  BY HeaderMaps
<1> HIDE DEF policies
<1>2. /\ n \in Nat /\ order \in [1..n -> policies]
      /\ \A i, j \in 1..n : order[i] = order[j] => i = j
      /\ \A x \in policies : \E i \in 1..n : order[i] = x
  BY <1>1, OrderFacts DEF policies, HeadersOfMappings
<1>3. \A k \in 1..n : order[k] \in policies
  BY <1>2
<1> HIDE DEF n
<1>4. \A k \in 1..n : \E i \in DOMAIN mappings : order[k].prefix = mappings[i].prefix
  BY <1>1, <1>3 DEF HeadersOfMappings
<1>5. \A k \in 1..n : \A x \in DOMAIN order[k].headers :
          \E i \in DOMAIN mappings : Gives(order[k], x, mappings, i)
  BY <1>1, <1>3 DEF HeadersOfMappings
<1>6. \A i \in DOMAIN mappings : \E k \in 1..n :
          order[k].prefix = mappings[i].prefix /\ mappings[i].name \in DOMAIN order[k].headers
  BY <1>1, <1>2 DEF HeadersOfMappings
<1>7. \A k, l \in 1..n : order[k].prefix = order[l].prefix => k = l
  BY <1>1, <1>2, <1>3 DEF HeadersOfMappings
<1>8. \A k \in 1..n : Len(order[k].prefix) \in Nat
  BY <1>4, MappingsFacts
<1>9. n \in Nat /\ DOMAIN order = 1..n
  BY <1>2
<1> QED
  BY <1>4, <1>5, <1>6, <1>7, <1>8, <1>9 DEF n, policies, HeaderTable

\* Sorting keeps it so.
LEMMA HeaderTableSorted ==
  ASSUME NEW mappings, NEW n, NEW entries, HeaderTable(entries, mappings, n)
  PROVE  HeaderTable(ShortestFirst(entries), mappings, n)
<1> DEFINE table == ShortestFirst(entries)
<1>1. Rearranged(table, entries)
  BY ShortestFirstFacts DEF HeaderTable
<1> HIDE DEF table
<1>2. \A k \in 1..n : \E i \in 1..n : table[k] = entries[i]
  BY <1>1 DEF Rearranged, HeaderTable
<1>3. \A i \in 1..n : \E k \in 1..n : table[k] = entries[i]
  BY <1>1 DEF Rearranged, HeaderTable
<1>4. \A k, l \in 1..n : table[k].prefix = table[l].prefix => k = l
  BY <1>1 DEF Rearranged, HeaderTable
<1>5. n \in Nat /\ DOMAIN table = 1..n
  BY <1>1 DEF Rearranged, HeaderTable
<1>6. \A k \in 1..n : Len(table[k].prefix) \in Nat
  BY <1>2 DEF HeaderTable
<1>7. ASSUME NEW k \in 1..n PROVE \E i \in DOMAIN mappings : table[k].prefix = mappings[i].prefix
  <2>1. PICK j \in 1..n : table[k] = entries[j]
    BY <1>2
  <2>2. PICK i \in DOMAIN mappings : entries[j].prefix = mappings[i].prefix
    BY DEF HeaderTable
  <2> QED
    BY <2>1, <2>2
<1>8. ASSUME NEW k \in 1..n, NEW x \in DOMAIN table[k].headers
      PROVE  \E i \in DOMAIN mappings : Gives(table[k], x, mappings, i)
  BY <1>2 DEF HeaderTable
<1>9. ASSUME NEW i \in DOMAIN mappings
      PROVE  \E k \in 1..n : table[k].prefix = mappings[i].prefix /\ mappings[i].name \in DOMAIN table[k].headers
  <2>1. PICK j \in 1..n : entries[j].prefix = mappings[i].prefix /\ mappings[i].name \in DOMAIN entries[j].headers
    BY DEF HeaderTable
  <2>2. PICK k \in 1..n : table[k] = entries[j]
    BY <1>3
  <2> QED
    BY <2>1, <2>2
<1> QED
  BY <1>4, <1>5, <1>6, <1>7, <1>8, <1>9 DEF table, HeaderTable

\* the mappings that name header x
NamedBy(mappings, x) == {i \in DOMAIN mappings : mappings[i].name = x}

\* Of every header a mapping of the path names, the value of the mapping that speaks for the path.
Resolved(resolved, mappings, path) ==
    /\ IsFiniteSet(DOMAIN resolved)
    /\ \A x \in DOMAIN resolved : \E i \in DOMAIN mappings :
          Speaks(mappings, NamedBy(mappings, x), path, i) /\ resolved[x] = mappings[i].value
    /\ \A i \in Matching(mappings, path) : mappings[i].name \in DOMAIN resolved

\* That is what going through the sorted table gives.
LEMMA HeadersResolved ==
  ASSUME NEW mappings, IsMappings(mappings), NEW n, NEW entries, HeaderTable(entries, mappings, n),
         responsePolicies = ShortestFirst(entries), NEW path
  PROVE  Resolved(HeadersForPath(path), mappings, path)
<1> DEFINE table     == ShortestFirst(entries)
           matching  == Matching(table, path)
           Naming(x) == {k \in matching : x \in DOMAIN table[k].headers}
           resolved  == HeadersForPath(path)
<1>1. HeaderTable(table, mappings, n)
  BY HeaderTableSorted
<1>2. /\ DOMAIN resolved = UNION {DOMAIN table[k].headers : k \in matching}
      /\ \A x \in DOMAIN resolved : resolved[x] = table[Max(Naming(x))].headers[x]
  BY DEF HeadersForPath
<1>3. ASSUME NEW some \in SUBSET (1..n), some # {}
      PROVE  /\ Max(some) \in some
             /\ \A k \in some : Len(table[k].prefix) <= Len(table[Max(some)].prefix)
  <2>1. n \in Nat /\ DOMAIN entries = 1..n /\ \A k \in 1..n : Len(entries[k].prefix) \in Nat
    BY DEF HeaderTable
  <2> QED
    BY <1>3, <2>1, LastEntry
<1> HIDE DEF resolved, table
<1>4. n \in Nat /\ DOMAIN table = 1..n
  BY <1>1 DEF HeaderTable
<1>5. \A k \in matching : k \in 1..n /\ IsPrefix(table[k].prefix, path)
  BY <1>4 DEF Matching
<1>6. /\ \A i \in DOMAIN mappings : mappings[i].prefix \in Seq(Segments) /\ Len(mappings[i].prefix) \in Nat
      /\ \A i \in DOMAIN mappings : i \in Nat
  BY MappingsFacts
<1>7. ASSUME NEW j \in DOMAIN mappings, IsPrefix(mappings[j].prefix, path)
      PROVE  \E k \in Naming(mappings[j].name) : table[k].prefix = mappings[j].prefix
  <2>1. PICK k \in 1..n : table[k].prefix = mappings[j].prefix /\ mappings[j].name \in DOMAIN table[k].headers
    BY <1>1 DEF HeaderTable
  <2>2. k \in matching
    BY <1>4, <1>7, <2>1 DEF Matching
  <2> QED
    BY <2>1, <2>2
<1>8. ASSUME NEW x \in DOMAIN resolved
      PROVE  \E i \in DOMAIN mappings : /\ Speaks(mappings, NamedBy(mappings, x), path, i)
                                        /\ resolved[x] = mappings[i].value
  <2>1. Naming(x) \in SUBSET (1..n) /\ Naming(x) # {}
    BY <1>2, <1>5
  <2>2. PICK m \in Naming(x) : /\ m = Max(Naming(x))
                               /\ \A k \in Naming(x) : Len(table[k].prefix) <= Len(table[m].prefix)
    BY <1>3, <2>1
  <2>3. m \in 1..n /\ IsPrefix(table[m].prefix, path) /\ x \in DOMAIN table[m].headers
    BY <1>5
  <2>4. PICK i \in DOMAIN mappings : Gives(table[m], x, mappings, i)
    BY <1>1, <2>3 DEF HeaderTable
  <2>5. mappings[i].prefix = table[m].prefix /\ i \in NamedBy(mappings, x)
    BY <2>4 DEF Gives, NamedBy
  <2>6. ASSUME NEW j \in NamedBy(mappings, x), IsPrefix(mappings[j].prefix, path)
        PROVE  \/ Longer(mappings[i], mappings[j])
               \/ ~Longer(mappings[j], mappings[i]) /\ j <= i
    <3>1. j \in DOMAIN mappings /\ mappings[j].name = x
      BY DEF NamedBy
    <3>2. PICK k \in Naming(x) : table[k].prefix = mappings[j].prefix
      BY <1>7, <2>6, <3>1
    <3>3. Len(mappings[j].prefix) <= Len(mappings[i].prefix)
      BY <2>2, <2>5, <3>2
    <3>4. Len(mappings[j].prefix) \in Nat /\ Len(mappings[i].prefix) \in Nat /\ i \in Nat /\ j \in Nat
      BY <1>6, <3>1
    <3>5. CASE Len(mappings[j].prefix) = Len(mappings[i].prefix)
      <4>1. mappings[j].prefix = mappings[i].prefix
        BY <1>6, <2>3, <2>5, <2>6, <3>1, <3>5, SamePrefix
      <4>2. j <= i
        BY <2>4, <2>5, <3>1, <4>1 DEF LastNaming, Gives
      <4> QED
        BY <3>4, <3>5, <4>2 DEF Longer
    <3> QED
      BY <3>3, <3>4, <3>5 DEF Longer
  <2>7. Speaks(mappings, NamedBy(mappings, x), path, i)
    BY <2>3, <2>5, <2>6 DEF Speaks
  <2>8. resolved[x] = mappings[i].value
    BY <1>2, <2>2, <2>4 DEF Gives
  <2> QED
    BY <2>7, <2>8
<1>9. IsFiniteSet(DOMAIN resolved)
  <2>1. Len(mappings) \in Nat /\ DOMAIN mappings = 1..Len(mappings)
    BY MappingsFacts
  <2> DEFINE names == {mappings[i].name : i \in 1..Len(mappings)}
             f     == [i \in 1..Len(mappings) |-> mappings[i].name]
  <2>2. names = {f[i] : i \in 1..Len(mappings)}
    OBVIOUS
  <2>3. IsFiniteSet(names)
    BY <2>1, <2>2, FiniteImage
  <2>4. DOMAIN resolved \in SUBSET names
    BY <1>8, <2>1 DEF Speaks, NamedBy
  <2> QED
    BY <2>3, <2>4, FS_Subset
<1>10. ASSUME NEW i \in Matching(mappings, path) PROVE mappings[i].name \in DOMAIN resolved
  BY <1>2, <1>7 DEF Matching
<1> QED
  BY <1>8, <1>9, <1>10 DEF resolved, Resolved

\* The headers a response is given follow the mappings: no other value or name is there, none
\* that is mapped is missing, and the mapping that speaks for the path has given each.
HeadersFollow(headers, mappings, path) ==
    /\ headers \in [DOMAIN headers -> {mappings[i].value : i \in DOMAIN mappings}]
    /\ \A c \in DOMAIN headers : \E i \in DOMAIN mappings : c = Canonical(mappings[i].name)
    /\ \A i \in Matching(mappings, path) : Canonical(mappings[i].name) \in DOMAIN headers
    /\ \A c \in DOMAIN headers : \E i \in Spelling(mappings, c) :
          Speaks(mappings, Alike(mappings, i), path, i) /\ headers[c] = mappings[i].value

\* That is what applyHeaders makes of the resolved headers, in whatever order it takes them.
LEMMA HeadersApplied ==
  ASSUME NEW mappings, NEW path, NEW resolved, Resolved(resolved, mappings, path),
         NEW order \in SetToSeqs(DOMAIN resolved)
  PROVE  HeadersFollow(Applied(resolved, order), mappings, path)
<1> DEFINE n           == Cardinality(DOMAIN resolved)
           Variants(c) == {k \in DOMAIN order : Canonical(order[k]) = c}
           headers     == Applied(resolved, order)
           names       == {Canonical(x) : x \in DOMAIN resolved}
<1>1. /\ n \in Nat /\ order \in [1..n -> DOMAIN resolved]
      /\ \A x \in DOMAIN resolved : \E k \in 1..n : order[k] = x
  BY OrderFacts DEF Resolved
<1>2. headers = [c \in names |-> resolved[order[Max(Variants(c))]]]
  BY DEF Applied
<1> HIDE DEF n, headers
<1>3. ASSUME NEW c \in names
      PROVE  \E x \in DOMAIN resolved : headers[c] = resolved[x] /\ Canonical(x) = c
  <2>1. PICK k \in 1..n : Canonical(order[k]) = c
    BY <1>1
  <2>2. Variants(c) \in SUBSET (1..n) /\ k \in Variants(c)
    BY <1>1, <2>1
  <2>3. Max(Variants(c)) \in Variants(c)
    BY <1>1, <2>2, Greatest
  <2> QED
    BY <1>1, <1>2, <2>3
<1>4. ASSUME NEW c \in names
      PROVE  \E i \in DOMAIN mappings :
                /\ headers[c] = mappings[i].value /\ c = Canonical(mappings[i].name)
                /\ Speaks(mappings, NamedBy(mappings, mappings[i].name), path, i)
  <2>1. PICK x \in DOMAIN resolved : headers[c] = resolved[x] /\ Canonical(x) = c
    BY <1>3
  <2>2. PICK i \in DOMAIN mappings : /\ Speaks(mappings, NamedBy(mappings, x), path, i)
                                     /\ resolved[x] = mappings[i].value
    BY DEF Resolved
  <2>3. mappings[i].name = x
    BY <2>2 DEF Speaks, NamedBy
  <2> QED
    BY <2>1, <2>2, <2>3
<1>5. DOMAIN headers = names
  BY <1>2
<1>6. headers \in [DOMAIN headers -> {mappings[i].value : i \in DOMAIN mappings}]
  <2>1. headers = [c \in names |-> headers[c]]
    BY <1>2
  <2>2. \A c \in names : headers[c] \in {mappings[i].value : i \in DOMAIN mappings}
    BY <1>4
  <2> HIDE DEF names
  <2> QED
    BY <1>5, <2>1, <2>2
<1>7. \A c \in DOMAIN headers : \E i \in DOMAIN mappings : c = Canonical(mappings[i].name)
  BY <1>4, <1>5
<1>8. \A i \in Matching(mappings, path) : Canonical(mappings[i].name) \in DOMAIN headers
  BY <1>5 DEF Resolved
<1>9. ASSUME NEW c \in DOMAIN headers
      PROVE  \E i \in Spelling(mappings, c) :
                Speaks(mappings, Alike(mappings, i), path, i) /\ headers[c] = mappings[i].value
  BY <1>4, <1>5 DEF NamedBy, Spelling, Alike
<1> QED
  BY <1>6, <1>7, <1>8, <1>9 DEF headers, HeadersFollow

-----------------------------------------------------------------------------
(* The tables by themselves *)

\* the routes that are mapped, in the list or by the legacy pair
RouteMappings == IF settings.proxies # << >> THEN settings.proxies
                 ELSE IF HasLegacy THEN <<settings.legacy>> ELSE << >>

\* A serving process has accepted its settings and built its tables from them.
Built ==
    /\ ProxiesAccepted
    /\ proxyRoutes = NewProxyRoutes
    /\ \E order \in SetToSeqs(PolicyByPathPrefix(settings.streaming)) :
          streamingPolicies = LongestFirst(order)
    /\ \E order \in SetToSeqs(HeadersByPathPrefix(settings.headers)) :
          responsePolicies = ShortestFirst(order)

\* What was decided follows the mappings.
DecisionFollows == Decided =>
    /\ decision.path \in Paths
    /\ RoutedToLongestPrefix
    /\ StreamedAsMapped
    /\ HeadersFollow(decision.headers, settings.headers, decision.path)

TablesInv ==
    /\ TablesTypeOK
    /\ phase = "serving" => Built
    /\ phase # "serving" => ~Decided
    /\ DecisionFollows

\* A path finds the backend of the mapping that speaks for it.
LEMMA RouteFound ==
  ASSUME settings \in Settings, ProxiesAccepted, proxyRoutes = NewProxyRoutes, NEW path
  PROVE  IF Matching(RouteMappings, path) = {} THEN MatchRoute(path) = NoBackend
         ELSE \E i \in DOMAIN RouteMappings :
                 /\ Speaks(RouteMappings, DOMAIN RouteMappings, path, i)
                 /\ MatchRoute(path) = RouteMappings[i].backend
<1> DEFINE found == Matching(proxyRoutes, path)
<1>1. MatchRoute(path) = IF found = {} THEN NoBackend ELSE proxyRoutes[Min(found)].backend
  BY DEF MatchRoute
<1>2. CASE settings.proxies # << >>
  <2> DEFINE mappings == settings.proxies
  <2>1. IsMappings(mappings) /\ ~HasDuplicates(mappings)
    BY <1>2, SettingsAssumption DEF ProxiesAccepted
  <2>2. proxyRoutes = LongestFirst(mappings) /\ RouteMappings = mappings
    BY <1>2 DEF NewProxyRoutes, RouteMappings
  <2> HIDE DEF mappings
  <2>3. Matching(mappings, path) # {} => \E i \in DOMAIN mappings :
            /\ proxyRoutes[Min(found)] = mappings[i]
            /\ Speaks(mappings, DOMAIN mappings, path, i)
    BY <2>1, <2>2, RouteSpeaks
  <2>4. found = {} <=> Matching(mappings, path) = {}
    BY <2>1, <2>2, MappingsFacts, FirstMatch
  <2> QED
    BY <1>1, <2>2, <2>3, <2>4
<1>3. CASE settings.proxies = << >> /\ HasLegacy
  <2>1. proxyRoutes = <<settings.legacy>> /\ RouteMappings = <<settings.legacy>>
    BY <1>3 DEF NewProxyRoutes, RouteMappings
  <2>2. Len(settings.legacy.prefix) \in Nat
    BY SettingsAssumption
  <2>3. DOMAIN RouteMappings = {1} /\ RouteMappings[1] = settings.legacy
    BY <2>1
  <2>4. CASE IsPrefix(settings.legacy.prefix, path)
    <3>1. found = {1} /\ Matching(RouteMappings, path) = {1}
      BY <2>1, <2>3, <2>4 DEF Matching
    <3>2. Min(found) = 1
      BY <3>1, Least
    <3>3. Speaks(RouteMappings, DOMAIN RouteMappings, path, 1)
      BY <2>2, <2>3, <2>4 DEF Speaks, Longer
    <3> QED
      BY <1>1, <2>1, <2>3, <3>1, <3>2, <3>3
  <2>5. CASE ~IsPrefix(settings.legacy.prefix, path)
    <3>1. found = {} /\ Matching(RouteMappings, path) = {}
      BY <2>1, <2>3, <2>5 DEF Matching
    <3> QED
      BY <1>1, <3>1
  <2> QED
    BY <2>4, <2>5
<1>4. CASE settings.proxies = << >> /\ ~HasLegacy
  <2>1. proxyRoutes = << >> /\ RouteMappings = << >>
    BY <1>4 DEF NewProxyRoutes, RouteMappings
  <2>2. found = {} /\ Matching(RouteMappings, path) = {}
    BY <2>1 DEF Matching
  <2> QED
    BY <1>1, <2>2
<1> QED
  BY <1>2, <1>3, <1>4

\* A path is flushed at once exactly when the mapping that speaks for it says so.
LEMMA StreamingFound ==
  ASSUME settings \in Settings, NEW order \in SetToSeqs(PolicyByPathPrefix(settings.streaming)),
         streamingPolicies = LongestFirst(order), NEW path
  PROVE  /\ IsUnbuffered(path) \in BOOLEAN
         /\ IsUnbuffered(path) <=> \E i \in DOMAIN settings.streaming :
                /\ Speaks(settings.streaming, DOMAIN settings.streaming, path, i)
                /\ settings.streaming[i].unbuffered
<1> DEFINE mappings == settings.streaming
           found    == Matching(LongestFirst(order), path)
<1>1. IsMappings(mappings)
  BY SettingsAssumption
<1>2. IsUnbuffered(path) <=> found # {} /\ LongestFirst(order)[Min(found)].unbuffered
  BY DEF IsUnbuffered
<1>3. IsUnbuffered(path) \in BOOLEAN
  BY DEF IsUnbuffered
<1> HIDE DEF mappings
<1>4. /\ found = {} <=> Matching(mappings, path) = {}
      /\ found # {} => \E i \in DOMAIN mappings :
            /\ LongestFirst(order)[Min(found)] = mappings[i]
            /\ Speaks(mappings, DOMAIN mappings, path, i)
  BY <1>1, StreamingSpeaks DEF mappings
<1> HIDE DEF found
<1>5. ASSUME NEW i \in DOMAIN mappings, Speaks(mappings, DOMAIN mappings, path, i)
      PROVE  IsUnbuffered(path) <=> mappings[i].unbuffered
  <2>1. found # {}
    BY <1>4, <1>5 DEF Speaks, Matching
  <2>2. PICK j \in DOMAIN mappings : /\ LongestFirst(order)[Min(found)] = mappings[j]
                                     /\ Speaks(mappings, DOMAIN mappings, path, j)
    BY <1>4, <2>1
  <2>3. j = i
    BY <1>1, <1>5, <2>2, SpeaksOnce
  <2> QED
    BY <1>2, <2>1, <2>2, <2>3
<1>6. IsUnbuffered(path) => \E i \in DOMAIN mappings : Speaks(mappings, DOMAIN mappings, path, i)
  BY <1>2, <1>4
<1>7. IsUnbuffered(path) <=> \E i \in DOMAIN mappings :
          Speaks(mappings, DOMAIN mappings, path, i) /\ mappings[i].unbuffered
  BY <1>5, <1>6
<1> QED
  BY <1>3, <1>7 DEF mappings

\* A rearranged table holds the entries and nothing else.
LEMMA SameEntries ==
  ASSUME NEW table, NEW entries, Rearranged(table, entries)
  PROVE  ToSet(table) \subseteq ToSet(entries)
BY DEF Rearranged, ToSet

\* Nothing is built or decided at first.
LEMMA TablesInitial == TablesInit => TablesInv
<1> SUFFICES ASSUME TablesInit PROVE TablesInv
  OBVIOUS
<1>1. ToSet(<< >>) = {}
  BY DEF ToSet
<1>2. ~Decided /\ phase = "starting"
  BY DEF TablesInit, Decided
<1>3. TablesTypeOK
  BY <1>1 DEF TablesInit, TablesTypeOK
<1> QED
  BY <1>2, <1>3 DEF TablesInv, DecisionFollows

\* Configuring builds the tables.
LEMMA ConfigureBuilds ==
  ASSUME TablesInv, Configure
  PROVE  TablesInv'
<1> USE DEF TablesInv
<1>1. settings \in Settings /\ settings' = settings /\ decision' = decision /\ phase' = "serving"
  BY DEF Configure, TablesTypeOK
<1>2. ~Decided'
  BY <1>1 DEF Configure, Decided
<1>3. /\ IsMappings(settings.proxies) /\ IsMappings(settings.streaming)
      /\ settings.legacy.prefix \in Seq(Segments)
  BY <1>1, SettingsAssumption
<1>4. Built'
  BY <1>1 DEF Configure, Built, NewProxyRoutes, ProxiesAccepted, HasLegacy
<1>5. ToSet(proxyRoutes') \subseteq ToSet(settings.proxies) \cup {settings.legacy}
  <2>1. CASE settings.proxies # << >>
    <3>1. proxyRoutes' = LongestFirst(settings.proxies)
      BY <2>1 DEF Configure, NewProxyRoutes
    <3>2. Rearranged(LongestFirst(settings.proxies), settings.proxies)
      BY <1>3, MappingsFacts, LongestFirstFacts
    <3> QED
      BY <3>1, <3>2, SameEntries
  <2>2. CASE settings.proxies = << >>
    <3>1. proxyRoutes' = <<settings.legacy>> \/ proxyRoutes' = << >>
      BY <2>2 DEF Configure, NewProxyRoutes
    <3> QED
      BY <3>1 DEF ToSet
  <2> QED
    BY <2>1, <2>2
<1>6. PICK order \in SetToSeqs(PolicyByPathPrefix(settings.streaming)) :
          streamingPolicies' = LongestFirst(order)
  BY DEF Configure
<1> DEFINE mappings == settings.streaming
           n        == Cardinality(PolicyByPathPrefix(mappings))
<1>7. /\ n \in Nat /\ DOMAIN order = 1..n
      /\ \A k \in 1..n : \E i \in DOMAIN mappings : order[k] = mappings[i]
      /\ \A k, l \in 1..n : order[k].prefix = order[l].prefix => k = l
      /\ \A k \in 1..n : Len(order[k].prefix) \in Nat
  BY <1>3, StreamingTable
<1> HIDE DEF mappings, n
<1>8. Rearranged(streamingPolicies', order)
  BY <1>6, <1>7, LongestFirstFacts
<1>9. ToSet(streamingPolicies') \subseteq ToSet(mappings)
  <2>1. ToSet(order) \subseteq ToSet(mappings)
    BY <1>7 DEF ToSet
  <2> QED
    BY <1>8, <2>1, SameEntries
<1>10. \A i, j \in DOMAIN streamingPolicies' :
          streamingPolicies'[i].prefix = streamingPolicies'[j].prefix => i = j
  BY <1>7, <1>8 DEF Rearranged
<1>11. TablesTypeOK'
  BY <1>1, <1>5, <1>9, <1>10 DEF TablesTypeOK, mappings
<1> QED
  BY <1>1, <1>2, <1>4, <1>11 DEF DecisionFollows

\* What is decided about a request follows the mappings.
LEMMA RequestFollows ==
  ASSUME TablesInv, NEW path \in Paths, Request(path)
  PROVE  TablesInv'
<1> USE DEF TablesInv
<1>1. /\ settings \in Settings /\ phase = "serving" /\ Built
      /\ UNCHANGED <<settings, phase, proxyRoutes, streamingPolicies, responsePolicies>>
  BY DEF Request, TablesTypeOK
<1>2. /\ decision'.path = path
      /\ decision'.backend = MatchRoute(path)
      /\ decision'.unbuffered = IsUnbuffered(path)
      /\ \E order \in SetToSeqs(DOMAIN HeadersForPath(path)) :
            decision'.headers = Applied(HeadersForPath(path), order)
  BY DEF Request
<1>3. PICK streamed \in SetToSeqs(PolicyByPathPrefix(settings.streaming)) :
          streamingPolicies = LongestFirst(streamed)
  BY <1>1 DEF Built
<1>4. PICK named \in SetToSeqs(HeadersByPathPrefix(settings.headers)) :
          responsePolicies = ShortestFirst(named)
  BY <1>1 DEF Built
<1>5. RoutedToLongestPrefix'
  <2>1. IF Matching(RouteMappings, path) = {} THEN decision'.backend = NoBackend
        ELSE \E i \in DOMAIN RouteMappings :
                /\ Speaks(RouteMappings, DOMAIN RouteMappings, path, i)
                /\ decision'.backend = RouteMappings[i].backend
    BY <1>1, <1>2, RouteFound DEF Built
  <2>2. RouteMappings' = RouteMappings
    BY <1>1 DEF RouteMappings, HasLegacy
  <2>3. RoutedToLongestPrefix' <=> (Decided' =>
            IF Matching(RouteMappings', decision'.path) = {} THEN decision'.backend = NoBackend
            ELSE \E i \in DOMAIN RouteMappings' :
                    /\ Speaks(RouteMappings', DOMAIN RouteMappings', decision'.path, i)
                    /\ decision'.backend = RouteMappings'[i].backend)
    BY DEF RoutedToLongestPrefix, RouteMappings, HasLegacy
  <2> QED
    BY <1>2, <2>1, <2>2, <2>3
<1>6. decision'.unbuffered \in BOOLEAN /\ StreamedAsMapped'
  <2>1. /\ IsUnbuffered(path) \in BOOLEAN
        /\ IsUnbuffered(path) <=> \E i \in DOMAIN settings.streaming :
                /\ Speaks(settings.streaming, DOMAIN settings.streaming, path, i)
                /\ settings.streaming[i].unbuffered
    BY <1>1, <1>3, StreamingFound
  <2>2. settings' = settings
    BY <1>1
  <2> QED
    BY <1>2, <2>1, <2>2 DEF StreamedAsMapped
<1>7. HeadersFollow(decision'.headers, settings'.headers, decision'.path)
  <2>1. IsMappings(settings.headers)
    BY <1>1, SettingsAssumption
  <2>2. Resolved(HeadersForPath(path), settings.headers, path)
    BY <1>4, <2>1, HeaderOrder, HeadersResolved
  <2>3. PICK order \in SetToSeqs(DOMAIN HeadersForPath(path)) :
            decision'.headers = Applied(HeadersForPath(path), order)
    BY <1>2
  <2>4. HeadersFollow(decision'.headers, settings.headers, path)
    BY <2>2, <2>3, HeadersApplied
  <2> QED
    BY <1>1, <1>2, <2>4
<1>8. DecisionFollows'
  BY <1>2, <1>5, <1>6, <1>7 DEF DecisionFollows
<1>9. TablesTypeOK'
  BY <1>1, <1>2, <1>6 DEF TablesTypeOK
<1>10. Built'
  BY <1>1 DEF Built, NewProxyRoutes, ProxiesAccepted, HasLegacy
<1> QED
  BY <1>1, <1>8, <1>9, <1>10

\* Rejecting, configuring and deciding keep the invariant of the tables.
LEMMA TablesStep == TablesInv /\ [TablesNext]_tableVars => TablesInv'
<1> SUFFICES ASSUME TablesInv, [TablesNext]_tableVars PROVE TablesInv'
  OBVIOUS
<1>1. CASE Reject
  <2>1. /\ phase = "starting" /\ phase' = "rejected"
        /\ UNCHANGED <<settings, proxyRoutes, streamingPolicies, responsePolicies, decision>>
    BY <1>1 DEF Reject
  <2>2. ~Decided' /\ TablesTypeOK'
    BY <2>1 DEF TablesInv, TablesTypeOK, Decided
  <2> QED
    BY <2>1, <2>2 DEF TablesInv, DecisionFollows
<1>2. CASE Configure
  BY <1>2, ConfigureBuilds
<1>3. ASSUME NEW path \in Paths, Request(path) PROVE TablesInv'
  BY <1>3, RequestFollows
<1>4. CASE UNCHANGED tableVars
  <2>1. UNCHANGED <<settings, phase, proxyRoutes, streamingPolicies, responsePolicies, decision>>
    BY <1>4 DEF tableVars
  <2>2. TablesTypeOK' /\ (Built' <=> Built) /\ (Decided' <=> Decided)
    BY <2>1 DEF TablesInv, TablesTypeOK, Built, NewProxyRoutes, ProxiesAccepted, HasLegacy, Decided
  <2>3. RoutedToLongestPrefix' <=> RoutedToLongestPrefix
    BY <2>1 DEF RoutedToLongestPrefix, HasLegacy, Decided
  <2>4. StreamedAsMapped' <=> StreamedAsMapped
    BY <2>1 DEF StreamedAsMapped, Decided
  <2> QED
    BY <2>1, <2>2, <2>3, <2>4 DEF TablesInv, DecisionFollows
<1> QED
  BY <1>1, <1>2, <1>3, <1>4 DEF TablesNext

\* Whatever is decided follows the mappings the server was started with, in every run of the tables.
THEOREM TablesInvariant == TablesSpec => []TablesInv
<1> QED
  BY TablesInitial, TablesStep, PTL DEF TablesSpec

\* Every table is one the settings can give.
THEOREM TablesTypeCorrect == TablesSpec => []TablesTypeOK
<1>1. TablesInv => TablesTypeOK
  BY DEF TablesInv
<1> QED
  BY <1>1, TablesInvariant, PTL

\* A request goes where the longest mapped prefix of its path says, whatever the mappings' order.
THEOREM RoutedRight == TablesSpec => []RoutedToLongestPrefix
<1>1. TablesInv => RoutedToLongestPrefix
  BY DEF TablesInv, DecisionFollows, RoutedToLongestPrefix
<1> QED
  BY <1>1, TablesInvariant, PTL

\* A response is flushed at once exactly when the mapping that speaks for its path says so.
THEOREM StreamedRight == TablesSpec => []StreamedAsMapped
<1>1. TablesInv => StreamedAsMapped
  BY DEF TablesInv, DecisionFollows, StreamedAsMapped
<1> QED
  BY <1>1, TablesInvariant, PTL

\* A header is set by the mapping that speaks for the path among those that spell it alike.
THEOREM HeadersRight == TablesSpec => []MostSpecificHeader
<1>1. TablesInv => MostSpecificHeader
  BY DEF TablesInv, DecisionFollows, MostSpecificHeader, HeadersFollow
<1> QED
  BY <1>1, TablesInvariant, PTL

-----------------------------------------------------------------------------
(* What no policy names *)

\* A header map in which the headers that policy p does not name have no value of a policy.
OwnOnly(h, p) == \A n \in Names : n \notin DOMAIN p => h[n] \in Seq(OwnValues)

\* That is so of what the handlers write to and of what net/http sent first.
Unnamed == OwnOnly(header, policy) /\ (sent # << >> => OwnOnly(sent[1].header, policy))

\* What a backend or a handler sets keeps it so, and the policy writer does.
LEMMA OwnMaps ==
  ASSUME NEW p
  PROVE  /\ OwnOnly(Empty, p)
         /\ \A b \in BackendHeaders : OwnOnly(b, p)
         /\ \A h \in Headers, n \in Names, v \in OwnValues : OwnOnly(h, p) => OwnOnly(Put(h, n, v), p)
         /\ \A h \in Headers, b \in BackendHeaders : OwnOnly(h, p) => OwnOnly(Added(h, b), p)
<1>1. OwnOnly(Empty, p)
  BY DEF OwnOnly, Empty
<1>2. ASSUME NEW b \in BackendHeaders PROVE OwnOnly(b, p)
  <2>1. "backend" \in OwnValues
    BY DEF OwnValues
  <2>2. << >> \in Seq(OwnValues) /\ <<"backend">> \in Seq(OwnValues)
    BY <2>1
  <2>3. PICK s \in {<< >>, <<"backend">>}, t \in {<< >>, <<"backend">>} :
            b = [Empty EXCEPT !["Server"] = s, !["Content-Type"] = t]
    BY DEF BackendHeaders
  <2>4. s \in Seq(OwnValues) /\ t \in Seq(OwnValues)
    BY <2>2
  <2> QED
    BY <2>2, <2>3, <2>4 DEF OwnOnly, Empty, Names
<1>3. ASSUME NEW h \in Headers, NEW n \in Names, NEW v \in OwnValues, OwnOnly(h, p)
      PROVE  OwnOnly(Put(h, n, v), p)
  <2>1. <<v>> \in Seq(OwnValues)
    OBVIOUS
  <2> QED
    BY <1>3, <2>1 DEF OwnOnly, Put, Headers
<1>4. ASSUME NEW h \in Headers, NEW b \in BackendHeaders, OwnOnly(h, p)
      PROVE  OwnOnly(Added(h, b), p)
  <2>1. ASSUME NEW n \in Names, n \notin DOMAIN p PROVE Added(h, b)[n] \in Seq(OwnValues)
    <3>1. h[n] \in Seq(OwnValues) /\ b[n] \in Seq(OwnValues)
      BY <1>2, <1>4, <2>1 DEF OwnOnly
    <3>2. Added(h, b)[n] = h[n] \o b[n]
      BY DEF Added
    <3> QED
      BY <3>1, <3>2, ConcatProperties
  <2> QED
    BY <2>1 DEF OwnOnly
<1> QED
  BY <1>1, <1>2, <1>3, <1>4

\* The policy writer sets only what the policy names.
LEMMA OwnWritten ==
  ASSUME NEW h, OwnOnly(h, policy)
  PROVE  OwnOnly(WithPolicy(h), policy)
BY DEF OwnOnly, WithPolicy

\* One more response, and the map the handler goes on with.
LEMMA UnnamedSent ==
  ASSUME IInv, Unnamed, policy' = policy, OwnOnly(header', policy),
         NEW r \in [status : Statuses, header : Headers], OwnOnly(r.header, policy), sent' = Append(sent, r)
  PROVE  Unnamed'
<1>1. /\ sent = << >> => sent'[1] = r
      /\ sent # << >> => sent'[1] = sent[1]
  BY OneMore DEF IInv
<1>2. OwnOnly(sent'[1].header, policy)
  BY <1>1 DEF Unnamed
<1> QED
  BY <1>2 DEF Unnamed, OwnOnly

\* A handler that writes from such a map leaves such a map.
LEMMA UnnamedWritten ==
  ASSUME IInv, Unnamed, policy' = policy, NEW status \in Statuses, NEW h \in Headers, OwnOnly(h, policy),
         sent' = Append(sent, [status |-> status, header |-> WithPolicy(h)]),
         header' = WithPolicy(h) \/ header' = Empty
  PROVE  Unnamed'
<1>1. WithPolicy(h) \in Headers
  BY PolicyWriter DEF IInv, TypeOK
<1>2. OwnOnly(WithPolicy(h), policy) /\ OwnOnly(Empty, policy)
  BY OwnWritten, OwnMaps
<1> QED
  BY <1>1, <1>2, UnnamedSent

\* No handler gives a header that no policy names the value of a policy, nor does the next request.
LEMMA UnnamedStep ==
  ASSUME IInv, Unnamed, Next
  PROVE  Unnamed'
<1>1. /\ header \in Headers /\ OwnOnly(header, policy)
      /\ {"ghttpd", "close", "local", "backend"} \subseteq OwnValues
      /\ {200, 404, 500, 502, Hint, Switching} \subseteq Statuses
      /\ {"Server", "Connection", "Content-Type"} \subseteq Names
      /\ OwnValues \subseteq Values
  BY DEF IInv, TypeOK, Headers, Values, Unnamed, OwnValues, Statuses, Finals, Names
<1> DEFINE local == Put(header, "Content-Type", "local")
<1>2. local \in Headers /\ OwnOnly(local, policy)
  BY <1>1, MapTypes, OwnMaps
<1>3. \A b \in BackendHeaders : Added(header, b) \in Headers /\ OwnOnly(Added(header, b), policy)
  BY <1>1, MapTypes, BackendTypes, OwnMaps
<1>4. CASE WrapWithHeaders
  <2> DEFINE named == Put(header, "Server", "ghttpd")
  <2>1. named \in Headers /\ OwnOnly(named, policy)
    BY <1>1, MapTypes, OwnMaps
  <2>2. OwnOnly(Put(named, "Connection", "close"), policy)
    BY <1>1, <2>1, OwnMaps
  <2> HIDE DEF named
  <2>3. OwnOnly(header', policy) /\ policy' = policy /\ sent' = sent
    BY <1>4, <2>1, <2>2 DEF WrapWithHeaders, request, named
  <2> QED
    BY <2>3 DEF Unnamed, OwnOnly
<1>5. CASE AnswerFromFiles
  <2>1. PICK status \in {200, 404} : /\ header' = WithPolicy(local) /\ policy' = policy
                                     /\ sent' = Append(sent, [status |-> status, header |-> WithPolicy(local)])
    BY <1>5 DEF AnswerFromFiles, WriteHeader, WriteOnly, request
  <2> QED
    BY <1>1, <1>2, <2>1, UnnamedWritten
<1>6. CASE ForwardHint
  <2>1. PICK more \in BackendHeaders :
            /\ header' = Empty /\ policy' = policy
            /\ sent' = Append(sent, [status |-> Hint, header |-> WithPolicy(Added(header, more))])
    BY <1>6 DEF ForwardHint, WriteHeader, request
  <2> QED
    BY <1>1, <1>3, <2>1, UnnamedWritten
<1>7. CASE ForwardAnswer
  <2>1. PICK status \in {200, 404}, more \in BackendHeaders :
            /\ header' = WithPolicy(Added(header, more)) /\ policy' = policy
            /\ sent' = Append(sent, [status |-> status, header |-> WithPolicy(Added(header, more))])
    BY <1>7 DEF ForwardAnswer, WriteHeader, request
  <2> QED
    BY <1>1, <1>3, <2>1, UnnamedWritten
<1>8. CASE BackendFails \/ UpgradeFails
  <2>1. PICK status \in {500, 502} : /\ header' = WithPolicy(local) /\ policy' = policy
                                     /\ sent' = Append(sent, [status |-> status, header |-> WithPolicy(local)])
    BY <1>8 DEF BackendFails, UpgradeFails, Error, WriteHeader, request
  <2> QED
    BY <1>1, <1>2, <2>1, UnnamedWritten
<1>9. CASE Relay
  <2>1. policy' = policy /\ header' = header
    BY <1>9 DEF Relay, request
  <2>2. CASE \E status \in {Switching, 404}, h \in BackendHeaders :
                sent' = Append(sent, [status |-> status, header |-> h])
    <3>1. PICK status \in {Switching, 404}, h \in BackendHeaders :
                sent' = Append(sent, [status |-> status, header |-> h])
      BY <2>2
    <3>2. h \in Headers /\ OwnOnly(h, policy) /\ status \in Statuses
      BY <1>1, BackendTypes, OwnMaps
    <3> QED
      BY <1>1, <2>1, <3>1, <3>2, UnnamedSent
  <2>3. CASE sent' = sent
    BY <2>1, <2>3 DEF Unnamed, OwnOnly
  <2> QED
    BY <1>9, <2>2, <2>3 DEF Relay
<1>10. CASE Hijack \/ FinishBody \/ AbortBody \/ LogCompleted
  BY <1>10 DEF Hijack, FinishBody, AbortBody, LogCompleted, Unnamed, OwnOnly, request
<1>11. CASE \E resolved \in Policies, answering \in Sources : Arrive(resolved, answering)
  <2>1. header' = Empty /\ sent' = << >>
    BY <1>11 DEF Arrive
  <2> QED
    BY <2>1, OwnMaps DEF Unnamed
<1> QED
  BY <1>4, <1>5, <1>6, <1>7, <1>8, <1>9, <1>10, <1>11 DEF Next, Answer

-----------------------------------------------------------------------------
(* What follows the first response *)

\* A header map without a value of any policy.
Bare(h) == \A n \in Names : h[n] \in Seq(OwnValues)

\* Every response after the first, and every one on a connection that was taken.
BareSent == \A k \in 1..Len(sent) : k > 1 \/ hijacked => Bare(sent[k].header)

\* That is so because the handlers go on with an empty map once something was sent.
BareAfterFirst == BareSent /\ (at = "handler" /\ sent # << >> => header = Empty)

\* What backends and handlers put into an empty map is bare.
LEMMA BareMaps ==
  /\ \A b \in BackendHeaders : Bare(b) /\ Bare(Added(Empty, b))
  /\ Bare(Put(Empty, "Content-Type", "local"))
<1>1. \A h : Bare(h) <=> OwnOnly(h, << >>)
  BY DEF Bare, OwnOnly
<1>2. OwnOnly(Empty, << >>) /\ Empty \in Headers /\ "Content-Type" \in Names /\ "local" \in OwnValues
  BY OwnMaps, MapTypes DEF Names, OwnValues
<1> QED
  BY <1>1, <1>2, OwnMaps

\* One more response is bare, or it is the first that net/http sends.
LEMMA OneMoreBare ==
  ASSUME IInv, BareSent, UNCHANGED hijacked,
         NEW r \in [status : Statuses, header : Headers], sent' = Append(sent, r),
         sent # << >> \/ hijacked => Bare(r.header)
  PROVE  BareSent'
<1>1. /\ Len(sent) \in Nat /\ (sent = << >> <=> Len(sent) = 0)
      /\ Len(sent') = Len(sent) + 1
      /\ \A k \in 1..Len(sent) : sent'[k] = sent[k]
      /\ sent'[Len(sent) + 1] = r
  BY AppendProperties, EmptySeq, LenProperties DEF IInv, SentType
<1>2. ASSUME NEW k \in 1..Len(sent'), k > 1 \/ hijacked' PROVE Bare(sent'[k].header)
  <2>1. CASE k \in 1..Len(sent)
    BY <1>1, <1>2, <2>1 DEF BareSent
  <2>2. CASE k = Len(sent) + 1
    BY <1>1, <1>2, <2>2
  <2> QED
    BY <1>1, <2>1, <2>2
<1> QED
  BY <1>2 DEF BareSent, Bare

\* A response through the policy writer, which has acted if something was sent.
LEMMA BareWritten ==
  ASSUME IInv, BareSent, ~hijacked, UNCHANGED hijacked, NEW status \in Statuses, NEW h \in Headers,
         sent # << >> => Bare(h),
         sent' = Append(sent, [status |-> status, header |-> WithPolicy(h)])
  PROVE  BareSent'
<1>1. WithPolicy(h) \in Headers
  BY PolicyWriter DEF IInv, TypeOK
<1>2. sent # << >> => WithPolicy(h) = h
  BY DEF IInv, AppliedOnFirst, WithPolicy
<1> QED
  BY <1>1, <1>2, OneMoreBare

\* No step sends a policy's value after the first response, or on a taken connection.
LEMMA BareStep ==
  ASSUME IInv, BareAfterFirst, Next
  PROVE  BareAfterFirst'
<1>1. /\ header \in Headers /\ BareSent
      /\ {200, 404, 500, 502, Hint, Switching} \subseteq Statuses
      /\ "Content-Type" \in Names /\ "local" \in Values
  BY DEF IInv, TypeOK, Headers, Values, Statuses, Finals, Names, BareAfterFirst
<1>2. at = "handler" => ~hijacked /\ (source # "proxy" => sent = << >>)
  BY DEF IInv, Early
<1> DEFINE local == Put(header, "Content-Type", "local")
<1>3. local \in Headers /\ (at = "handler" /\ sent # << >> => Bare(local))
  BY <1>1, MapTypes, BareMaps DEF BareAfterFirst
<1>4. ASSUME NEW b \in BackendHeaders
      PROVE  Added(header, b) \in Headers /\ (at = "handler" /\ sent # << >> => Bare(Added(header, b)))
  BY <1>1, MapTypes, BackendTypes, BareMaps DEF BareAfterFirst
<1>5. CASE AnswerFromFiles
  <2>1. PICK status \in {200, 404} : /\ at' = "body" /\ hijacked' = hijacked
                                     /\ sent' = Append(sent, [status |-> status, header |-> WithPolicy(local)])
    BY <1>5 DEF AnswerFromFiles, WriteHeader, WriteOnly
  <2>2. BareSent'
    BY <1>1, <1>2, <1>3, <1>5, <2>1, BareWritten DEF AnswerFromFiles
  <2> QED
    BY <2>1, <2>2 DEF BareAfterFirst
<1>6. CASE ForwardHint
  <2>1. PICK more \in BackendHeaders :
            /\ header' = Empty /\ hijacked' = hijacked
            /\ sent' = Append(sent, [status |-> Hint, header |-> WithPolicy(Added(header, more))])
    BY <1>6 DEF ForwardHint, WriteHeader
  <2>2. BareSent'
    BY <1>1, <1>2, <1>4, <1>6, <2>1, BareWritten DEF ForwardHint
  <2> QED
    BY <2>1, <2>2 DEF BareAfterFirst
<1>7. CASE ForwardAnswer
  <2>1. PICK status \in {200, 404}, more \in BackendHeaders :
            /\ at' = "body" /\ hijacked' = hijacked
            /\ sent' = Append(sent, [status |-> status, header |-> WithPolicy(Added(header, more))])
    BY <1>7 DEF ForwardAnswer, WriteHeader
  <2>2. BareSent'
    BY <1>1, <1>2, <1>4, <1>7, <2>1, BareWritten DEF ForwardAnswer
  <2> QED
    BY <2>1, <2>2 DEF BareAfterFirst
<1>8. CASE BackendFails \/ UpgradeFails
  <2>1. PICK status \in {500, 502} : /\ at' = "body" /\ hijacked' = hijacked
                                     /\ sent' = Append(sent, [status |-> status, header |-> WithPolicy(local)])
    BY <1>8 DEF BackendFails, UpgradeFails, Error, WriteHeader
  <2>2. BareSent'
    BY <1>1, <1>2, <1>3, <1>8, <2>1, BareWritten DEF BackendFails, UpgradeFails
  <2> QED
    BY <2>1, <2>2 DEF BareAfterFirst
<1>9. CASE Hijack
  BY <1>2, <1>9 DEF Hijack, BareAfterFirst, BareSent
<1>10. CASE Relay
  <2>1. at' = "return" /\ hijacked' = hijacked
    BY <1>10 DEF Relay
  <2>2. CASE \E status \in {Switching, 404}, h \in BackendHeaders :
                sent' = Append(sent, [status |-> status, header |-> h])
    <3>1. PICK status \in {Switching, 404}, h \in BackendHeaders :
                sent' = Append(sent, [status |-> status, header |-> h])
      BY <2>2
    <3>2. h \in Headers /\ Bare(h) /\ status \in Statuses
      BY <1>1, BackendTypes, BareMaps
    <3>3. BareSent'
      BY <1>1, <2>1, <3>1, <3>2, OneMoreBare
    <3> QED
      BY <2>1, <3>3 DEF BareAfterFirst
  <2>3. CASE sent' = sent
    BY <1>1, <2>1, <2>3 DEF BareAfterFirst, BareSent, Bare
  <2> QED
    BY <1>10, <2>2, <2>3 DEF Relay
<1>11. CASE WrapWithHeaders
  <2>1. sent = << >> /\ sent' = sent
    BY <1>11 DEF WrapWithHeaders, IInv, Early
  <2> QED
    BY <2>1 DEF BareAfterFirst, BareSent
<1>12. CASE FinishBody \/ AbortBody \/ LogCompleted
  BY <1>1, <1>12 DEF FinishBody, AbortBody, LogCompleted, BareAfterFirst, BareSent, Bare, request
<1>13. CASE \E resolved \in Policies, answering \in Sources : Arrive(resolved, answering)
  BY <1>13 DEF Arrive, BareAfterFirst, BareSent
<1> QED
  BY <1>5, <1>6, <1>7, <1>8, <1>9, <1>10, <1>11, <1>12, <1>13 DEF Next, Answer

-----------------------------------------------------------------------------
(* The tables and the writers together *)

\* An answered request has the policy that was decided for it.
Linked ==
    \/ at = "idle" /\ sent = << >>
    \/ settings \in Followed /\ Decided /\ policy = decision.headers

ServedInv == TablesInv /\ IInv /\ Unnamed /\ BareAfterFirst /\ Linked

\* Headers that follow the mappings of followed settings are a policy the writers may be given.
LEMMA FollowingPolicy ==
  ASSUME NEW s \in Followed, NEW path, NEW headers, HeadersFollow(headers, s.headers, path)
  PROVE  headers \in Policies
<1>1. \A i \in DOMAIN s.headers :
          Canonical(s.headers[i].name) \in Names /\ s.headers[i].value \in PolicyValues
  BY FollowedAssumption DEF ToSet
<1>2. DOMAIN headers \in SUBSET Names
  BY <1>1 DEF HeadersFollow
<1>3. {s.headers[i].value : i \in DOMAIN s.headers} \subseteq PolicyValues
  BY <1>1
<1>4. headers \in [DOMAIN headers -> PolicyValues]
  BY <1>3 DEF HeadersFollow
<1> QED
  BY <1>2, <1>4 DEF Policies

\* A request has a decision, about its path.
LEMMA RequestDecided ==
  ASSUME NEW path \in Paths, Request(path)
  PROVE  Decided' /\ settings' = settings
<1>1. decision' \in [path : Paths, backend : {MatchRoute(path)}, unbuffered : {IsUnbuffered(path)},
                     headers : {decision'.headers}]
  BY DEF Request
<1>2. "path" \in DOMAIN decision' /\ DOMAIN Undecided = {}
  BY <1>1 DEF Undecided
<1>3. decision' # Undecided
  BY <1>2
<1> QED
  BY <1>3 DEF Decided, Request

\* The composition starts as its parts do.
LEMMA ServedInitial == ServedInit => ServedInv /\ Init
<1> SUFFICES ASSUME ServedInit PROVE ServedInv /\ Init
  OBVIOUS
<1>1. TablesInv
  BY TablesInitial DEF ServedInit
<1>2. Init
  <2>1. << >> \in [{} -> PolicyValues]
    OBVIOUS
  <2>2. policy \in Policies
    BY <2>1 DEF ServedInit, Policies
  <2> QED
    BY <2>2 DEF ServedInit, Init
<1>3. IInv
  BY <1>2, InitInvariant
<1>4. Unnamed
  BY OwnMaps DEF Unnamed, ServedInit, Idle
<1>5. Linked
  BY DEF Linked, ServedInit, Idle
<1>6. BareAfterFirst
  BY DEF BareAfterFirst, BareSent, ServedInit, Idle
<1> QED
  BY <1>1, <1>2, <1>3, <1>4, <1>5, <1>6 DEF ServedInv

\* A step of the composition is a step of the writers, or leaves them alone.
LEMMA StepOfWriters ==
  ASSUME TablesInv', ServedNext
  PROVE  Next \/ UNCHANGED vars
<1>1. ASSUME NEW path \in Paths, ServeHTTP(path) PROVE Next \/ UNCHANGED vars
  <2>1. CASE settings \notin Followed
    BY <1>1, <2>1 DEF ServeHTTP
  <2>2. CASE settings \in Followed
    <3>1. PICK answering \in Answering(MatchRoute(path)) : Arrive(decision'.headers, answering)
      BY <1>1, <2>2 DEF ServeHTTP
    <3>2. answering \in Sources
      BY DEF Answering, Sources
    <3>3. settings' \in Followed /\ Decided'
      BY <1>1, <2>2, RequestDecided DEF ServeHTTP
    <3>4. HeadersFollow(decision'.headers, settings'.headers, decision'.path)
      BY <3>3 DEF TablesInv, DecisionFollows
    <3>5. decision'.headers \in Policies
      BY <3>3, <3>4, FollowingPolicy
    <3> QED
      BY <3>1, <3>2, <3>5 DEF Next
  <2> QED
    BY <2>1, <2>2
<1>2. CASE (Reject \/ Configure) /\ UNCHANGED vars
  BY <1>2
<1>3. CASE Answer /\ UNCHANGED tableVars
  BY <1>3 DEF Next
<1> QED
  BY <1>1, <1>2, <1>3 DEF ServedNext

\* A step of the composition is a step of the tables, or leaves them alone.
LEMMA StepOfTables ==
  ASSUME ServedNext
  PROVE  [TablesNext]_tableVars
BY DEF ServedNext, ServeHTTP, TablesNext

\* The writers keep their invariants, whatever the tables do.
LEMMA WritersStep ==
  ASSUME IInv, Unnamed, BareAfterFirst, [Next]_vars
  PROVE  IInv' /\ Unnamed' /\ BareAfterFirst'
<1>1. IInv'
  BY InvariantStep
<1>2. Unnamed'
  <2>1. CASE UNCHANGED vars
    BY <2>1 DEF vars, Unnamed, OwnOnly
  <2> QED
    BY <2>1, UnnamedStep
<1>3. BareAfterFirst'
  <2>1. CASE UNCHANGED vars
    BY <2>1 DEF vars, BareAfterFirst, BareSent, Bare
  <2> QED
    BY <2>1, BareStep
<1> QED
  BY <1>1, <1>2, <1>3

\* Every step of the composition keeps its invariant and is a step of the writers or none.
LEMMA ServedStep == ServedInv /\ [ServedNext]_servedVars => ServedInv' /\ [Next]_vars
<1> SUFFICES ASSUME ServedInv, [ServedNext]_servedVars PROVE ServedInv' /\ [Next]_vars
  OBVIOUS
<1> USE DEF ServedInv
<1>1. CASE UNCHANGED servedVars
  <2>1. UNCHANGED tableVars /\ UNCHANGED vars
    BY <1>1 DEF servedVars
  <2>2. TablesInv' /\ IInv' /\ Unnamed' /\ BareAfterFirst'
    BY <2>1, TablesStep, WritersStep
  <2>3. Linked'
    BY <2>1 DEF Linked, Decided, tableVars, vars
  <2>4. [Next]_vars
    BY <2>1
  <2> QED
    BY <2>2, <2>3, <2>4
<1>2. CASE ServedNext
  <2>1. TablesInv'
    BY <1>2, StepOfTables, TablesStep
  <2>2. [Next]_vars
    BY <1>2, <2>1, StepOfWriters
  <2>3. IInv' /\ Unnamed' /\ BareAfterFirst'
    BY <2>2, WritersStep
  <2>4. ASSUME NEW path \in Paths, ServeHTTP(path) PROVE Linked'
    <3>1. Decided' /\ settings' = settings
      BY <2>4, RequestDecided DEF ServeHTTP
    <3>2. CASE settings \in Followed
      <4>1. policy' = decision'.headers
        BY <2>4, <3>2 DEF ServeHTTP, Arrive
      <4> QED
        BY <3>1, <3>2, <4>1 DEF Linked
    <3>3. CASE settings \notin Followed
      <4>1. UNCHANGED vars
        BY <2>4, <3>3 DEF ServeHTTP
      <4> QED
        BY <3>3, <4>1 DEF Linked, vars
    <3> QED
      BY <3>2, <3>3
  <2>5. ASSUME Reject \/ Configure, UNCHANGED vars PROVE Linked'
    BY <2>5 DEF Reject, Configure, vars, Linked, Decided
  <2>6. ASSUME Answer, UNCHANGED tableVars PROVE Linked'
    <3>1. policy' = policy /\ at # "idle"
      BY <2>6 DEF Answer, WrapWithHeaders, AnswerFromFiles, ForwardHint, ForwardAnswer, BackendFails,
                  UpgradeFails, Hijack, Relay, FinishBody, AbortBody, LogCompleted, request
    <3> QED
      BY <2>6, <3>1 DEF Linked, Decided, tableVars
  <2>7. Linked'
    BY <1>2, <2>4, <2>5, <2>6 DEF ServedNext
  <2> QED
    BY <2>1, <2>2, <2>3, <2>7
<1> QED
  BY <1>1, <1>2

\* The writers behind the tables are those of ResponseStack: what is proved of these holds of
\* the composition.
THEOREM ServedAnswers == ServedSpec => Spec
<1> QED
  BY ServedInitial, ServedStep, PTL DEF ServedSpec, Spec

\* The inductive invariant of the composition.
THEOREM ServedInvariant == ServedSpec => []ServedInv
<1> QED
  BY ServedInitial, ServedStep, PTL DEF ServedSpec

\* The first response net/http sends has for every header the value of a mapping that speaks
\* for the path, and no policy's value where none does; what follows it, and what a backend
\* answers on a connection it took, has no policy's value at all: whatever order the tables
\* were filled and applied in, and whatever earlier requests of the connection resolved to.
THEOREM WireFollows == ServedSpec => []WireFollowsSettings
<1>1. ASSUME ServedInv PROVE WireFollowsSettings
  <2> DEFINE mappings  == settings.headers
             path      == decision.path
             naming(n) == Spelling(mappings, n) \cap Matching(mappings, path)
  <2>1. /\ Len(sent) \in Nat /\ (sent # << >> <=> Len(sent) # 0)
        /\ sent \in Seq([status : Statuses, header : Headers])
    BY <1>1, EmptySeq, LenProperties DEF ServedInv, IInv, SentType
  <2>2. sent # << >> => settings \in Followed /\ Decided /\ policy = decision.headers
    BY <1>1 DEF ServedInv, Linked
  <2>3. sent # << >> => HeadersFollow(policy, mappings, path)
    BY <1>1, <2>2 DEF ServedInv, TablesInv, DecisionFollows
  <2>4. ASSUME NEW h, NEW n, h[n] \in Seq(OwnValues)
        PROVE  \A v \in PolicyValues : ~\E i \in 1..Len(h[n]) : h[n][i] = v
    BY <2>4, ElementOfSeq, FollowedAssumption
  <2> HIDE DEF mappings, path
  <2>5. ASSUME NEW k \in 1..Len(sent), NEW n \in Names, k > 1 \/ hijacked
        PROVE  \A v \in PolicyValues : ~Carries(sent[k], n, v)
    BY <1>1, <2>4, <2>5 DEF ServedInv, BareAfterFirst, BareSent, Bare, Carries
  <2>6. ASSUME NEW n \in Names, sent # << >>, n \notin DOMAIN policy
        PROVE  naming(n) = {} /\ \A v \in PolicyValues : ~Carries(sent[1], n, v)
    <3>1. naming(n) = {}
      BY <2>3, <2>6 DEF HeadersFollow, Spelling, Matching
    <3>2. sent[1].header[n] \in Seq(OwnValues)
      BY <1>1, <2>6 DEF ServedInv, Unnamed, OwnOnly
    <3> QED
      BY <2>4, <3>1, <3>2 DEF Carries
  <2>7. ASSUME NEW n \in Names, sent # << >>, ~hijacked, n \in DOMAIN policy
        PROVE  /\ naming(n) # {}
               /\ \E i \in naming(n) : /\ Speaks(mappings, Alike(mappings, i), path, i)
                                        /\ sent[1].header[n] = <<mappings[i].value>>
    <3>1. PICK i \in Spelling(mappings, n) : /\ Speaks(mappings, Alike(mappings, i), path, i)
                                             /\ policy[n] = mappings[i].value
      BY <2>3, <2>7 DEF HeadersFollow
    <3>2. i \in naming(n)
      BY <3>1 DEF Speaks, Matching, Spelling
    <3>3. sent[1].header[n] = <<policy[n]>>
      BY <1>1, <2>7 DEF ServedInv, IInv, AppliedOnFirst, PolicyOnFirst
    <3> QED
      BY <3>1, <3>2, <3>3
  <2>8. ASSUME NEW k \in 1..Len(sent), NEW n \in Names
        PROVE  IF k = 1 /\ ~hijacked /\ naming(n) # {}
               THEN \E i \in naming(n) : /\ Speaks(mappings, Alike(mappings, i), path, i)
                                         /\ sent[1].header[n] = <<mappings[i].value>>
               ELSE \A v \in PolicyValues : ~Carries(sent[k], n, v)
    <3>1. sent # << >> /\ (k = 1 \/ k > 1)
      BY <2>1
    <3>2. CASE k > 1 \/ hijacked
      BY <2>5, <3>2, <2>1
    <3>3. CASE k = 1 /\ ~hijacked
      BY <2>6, <2>7, <3>1, <3>3
    <3> QED
      BY <3>1, <3>2, <3>3
  <2> QED
    BY <2>8 DEF WireFollowsSettings, mappings, path
<1> QED
  BY <1>1, ServedInvariant, PTL
====
