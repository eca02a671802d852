--------------------------- MODULE PipelineProofs ---------------------------
(***************************************************************************)
(* Proofs about the two pipelines that rank, retrieval and the assembly of *)
(* the context, for any rankings, items and budgets.                       *)
(***************************************************************************)
EXTENDS ContextAssembly, Retrieval,
        SequenceTheorems, FiniteSetTheorems, WellFoundedInduction, TLAPS

-----------------------------------------------------------------------------
(* Recursion over numbers.  The library's induction theorems take an       *)
(* operator; that every non-empty set of numbers has a least one serves    *)
(* instead.                                                                *)

(* Every non-empty set of numbers has a least one. *)
LEMMA Least ==
    ASSUME NEW T, T \subseteq Nat, T # {}
    PROVE  \E m \in T : \A k \in T : m <= k
<1>1. PICK m \in T : \A k \in T : ~ (<<k, m>> \in OpToRel(<, Nat))
  BY NatLessThanWellFounded, WFMin
<1>2. \A k \in T : m <= k
  <2> TAKE k \in T
  <2>1. ~ (k < m)
    BY <1>1 DEF OpToRel
  <2> QED
    BY <2>1
<1> QED
  BY <1>2

(* Induction up to a number, for the set of those that have a property. *)
LEMMA UpTo ==
    ASSUME NEW N \in Nat, NEW T, 0 \in T, \A n \in 1 .. N : n - 1 \in T => n \in T
    PROVE  \A n \in 0 .. N : n \in T
<1> DEFINE Bad == (0 .. N) \ T
<1>1. Bad \subseteq Nat
  OBVIOUS
<1>2. SUFFICES ASSUME Bad # {} PROVE FALSE
  OBVIOUS
<1>3. PICK m \in Bad : \A k \in Bad : m <= k
  BY <1>1, <1>2, Least
<1>4. m \in 1 .. N /\ m - 1 \in 0 .. N
  BY <1>3
<1>5. m - 1 \in T
  BY <1>3, <1>4
<1> QED
  BY <1>3, <1>4, <1>5

(* Some function of the numbers up to N is defined by a recursion. *)
Recursive(N, A, base, step) ==
    \E f \in [0 .. N -> A] : f[0] = base /\ \A n \in 1 .. N : f[n] = step[<<f[n - 1], n>>]

LEMMA Recursion ==
    ASSUME NEW N \in Nat, NEW A, NEW base \in A, NEW step \in [A \X (1 .. N) -> A]
    PROVE  Recursive(N, A, base, step)
<1> DEFINE Partial(m, g) == /\ g \in [0 .. m -> A]
                            /\ g[0] = base
                            /\ \A n \in 1 .. m : g[n] = step[<<g[n - 1], n>>]
           T == {m \in 0 .. N : \E g : Partial(m, g)}
<1>1. 0 \in T
  <2> DEFINE g == [n \in 0 .. 0 |-> base]
  <2>1. Partial(0, g)
    OBVIOUS
  <2> HIDE DEF Partial, g
  <2> QED
    BY <2>1
<1>2. ASSUME NEW m \in 1 .. N, m - 1 \in T PROVE m \in T
  <2>1. PICK g : Partial(m - 1, g)
    BY <1>2
  <2>2. m \in Nat /\ m - 1 \in 0 .. m - 1 /\ m - 1 \in Nat
    OBVIOUS
  <2>3. g[m - 1] \in A
    BY <2>1, <2>2
  <2> DEFINE next == step[<<g[m - 1], m>>]
             h == [n \in 0 .. m |-> IF n = m THEN next ELSE g[n]]
  <2>4. next \in A
    BY <2>3
  <2> HIDE DEF next
  <2>5. h \in [0 .. m -> A] /\ h[0] = base
    BY <2>1, <2>2, <2>4
  <2>6. ASSUME NEW n \in 1 .. m PROVE h[n] = step[<<h[n - 1], n>>]
    <3>1. CASE n = m
      <4>1. h[n] = next /\ h[n - 1] = g[m - 1]
        BY <2>2, <3>1
      <4> QED
        BY <3>1, <4>1 DEF next
    <3>2. CASE n # m
      <4>1. n \in 1 .. m - 1 /\ h[n] = g[n] /\ h[n - 1] = g[n - 1]
        BY <2>2, <3>2
      <4> HIDE DEF h
      <4> QED
        BY <2>1, <4>1
    <3> QED
      BY <3>1, <3>2
  <2> HIDE DEF h
  <2>7. Partial(m, h)
    BY <2>5, <2>6
  <2> HIDE DEF Partial
  <2> QED
    BY <2>7
<1> HIDE DEF T
<1>3. \A m \in 0 .. N : m \in T
  BY <1>1, <1>2, UpTo
<1>4. N \in T
  BY <1>3
<1>5. PICK f : Partial(N, f)
  BY <1>4 DEF T
<1> QED
  BY <1>5 DEF Recursive


-----------------------------------------------------------------------------
(* Sorting.                                                                *)

(* The positions before position i of a sequence of length n. *)
Before(n, key, i) == {j \in 1 .. n : key[j] > key[i] \/ (key[j] = key[i] /\ j < i)}

Rank(n, key, i) == Cardinality(Before(n, key, i)) + 1

(* Positions and ranks correspond one to one, in the order of the keys and *)
(* of the positions among equal ones.                                      *)
LEMMA Ranks ==
    ASSUME NEW n \in Nat, NEW key \in [1 .. n -> Int]
    PROVE  /\ \A i \in 1 .. n : Rank(n, key, i) \in 1 .. n
           /\ \A i, j \in 1 .. n :
                key[j] > key[i] \/ (key[j] = key[i] /\ j < i) =>
                   Rank(n, key, j) < Rank(n, key, i)
           /\ \A p \in 1 .. n : \E i \in 1 .. n : Rank(n, key, i) = p
           /\ \A i, j \in 1 .. n : Rank(n, key, i) = Rank(n, key, j) => i = j
<1> DEFINE rank == [i \in 1 .. n |-> Rank(n, key, i)]
<1>1. IsFiniteSet(1 .. n) /\ Cardinality(1 .. n) = n
  BY FS_Interval
<1>2. \A i \in 1 .. n : key[i] \in Int
  OBVIOUS
<1>3. ASSUME NEW i \in 1 .. n
      PROVE  /\ IsFiniteSet(Before(n, key, i)) /\ Cardinality(Before(n, key, i)) \in Nat
             /\ Cardinality(Before(n, key, i)) < n
  <2> DEFINE others == (1 .. n) \ {i}
  <2>1. Before(n, key, i) \subseteq others
    BY <1>2 DEF Before
  <2>2. IsFiniteSet(others) /\ Cardinality(others) = n - 1
    BY <1>1, FS_RemoveElement
  <2> HIDE DEF others
  <2>3. IsFiniteSet(Before(n, key, i)) /\ Cardinality(Before(n, key, i)) <= n - 1
    BY <2>1, <2>2, FS_Subset
  <2> QED
    BY <2>3, FS_CardinalityType
<1>4. \A i \in 1 .. n : Rank(n, key, i) \in 1 .. n
  BY <1>3 DEF Rank
<1>5. ASSUME NEW i \in 1 .. n, NEW j \in 1 .. n, key[j] > key[i] \/ (key[j] = key[i] /\ j < i)
      PROVE  Rank(n, key, j) < Rank(n, key, i)
  <2>1. Before(n, key, j) \subseteq Before(n, key, i)
    BY <1>2, <1>5 DEF Before
  <2>2. j \in Before(n, key, i) /\ j \notin Before(n, key, j)
    BY <1>2, <1>5 DEF Before
  <2>3. /\ Cardinality(Before(n, key, j)) <= Cardinality(Before(n, key, i))
        /\ Cardinality(Before(n, key, j)) # Cardinality(Before(n, key, i))
    BY <1>3, <2>1, <2>2, FS_Subset
  <2> QED
    BY <1>3, <2>3 DEF Rank
<1>6. ASSUME NEW i \in 1 .. n, NEW j \in 1 .. n, Rank(n, key, i) = Rank(n, key, j), i # j
      PROVE  FALSE
  <2>1. \/ key[j] > key[i] \/ (key[j] = key[i] /\ j < i)
        \/ key[i] > key[j] \/ (key[i] = key[j] /\ i < j)
    BY <1>2, <1>6
  <2>2. Rank(n, key, i) \in Int /\ ~(Rank(n, key, i) < Rank(n, key, j))
        /\ ~(Rank(n, key, j) < Rank(n, key, i))
    BY <1>4, <1>6
  <2> QED
    BY <1>5, <2>1, <2>2
<1>7. rank \in Injection(1 .. n, 1 .. n)
  <2>1. rank \in [1 .. n -> 1 .. n]
    BY <1>4
  <2>2. \A i, j \in 1 .. n : rank[i] = rank[j] => i = j
    BY <1>6
  <2> HIDE DEF rank
  <2> QED
    BY <2>1, <2>2 DEF Injection, IsInjective
<1>8. rank \in Surjection(1 .. n, 1 .. n)
  <2> HIDE DEF rank
  <2> QED
    BY <1>1, <1>7, FS_Injection
<1>9. \A p \in 1 .. n : \E i \in 1 .. n : rank[i] = p
  <2> HIDE DEF rank
  <2> QED
    BY <1>8 DEF Surjection
<1> QED
  BY <1>4, <1>5, <1>6, <1>9

(* Sorting moves every element to its rank. *)
LEMMA Sorted ==
    ASSUME NEW S, NEW s \in Seq(S), NEW key \in [1 .. Len(s) -> Int]
    PROVE  /\ HighestFirst(s, key) \in Seq(S)
           /\ Len(HighestFirst(s, key)) = Len(s)
           /\ \A i \in 1 .. Len(s) :
                /\ Rank(Len(s), key, i) \in 1 .. Len(s)
                /\ HighestFirst(s, key)[Rank(Len(s), key, i)] = s[i]
           /\ \A p \in 1 .. Len(s) : \E i \in 1 .. Len(s) :
                Rank(Len(s), key, i) = p /\ HighestFirst(s, key)[p] = s[i]
<1> DEFINE n == Len(s)
           at(p) == CHOOSE i \in 1 .. n : Rank(n, key, i) = p
           t == [p \in 1 .. n |-> s[at(p)]]
<1>1. n \in Nat /\ DOMAIN s = 1 .. n /\ \A i \in 1 .. n : s[i] \in S
  BY LenProperties, ElementOfSeq
<1>2. /\ \A i \in 1 .. n : Rank(n, key, i) \in 1 .. n
      /\ \A p \in 1 .. n : \E i \in 1 .. n : Rank(n, key, i) = p
      /\ \A i, j \in 1 .. n : Rank(n, key, i) = Rank(n, key, j) => i = j
  BY <1>1, Ranks
<1>3. \A p \in 1 .. n : at(p) \in 1 .. n /\ Rank(n, key, at(p)) = p
  BY <1>2
<1>4. HighestFirst(s, key) = t
  <2>1. ASSUME NEW p \in 1 .. n, NEW i \in 1 .. n
        PROVE  Rank(n, key, i) = p <=> Cardinality(Before(n, key, i)) = p - 1
    <3>1. IsFiniteSet(Before(n, key, i))
      <4>1. IsFiniteSet(1 .. n) /\ Before(n, key, i) \subseteq 1 .. n
        BY <1>1, FS_Interval DEF Before
      <4> QED
        BY <4>1, FS_Subset
    <3>2. Cardinality(Before(n, key, i)) \in Nat
      BY <3>1, FS_CardinalityType
    <3> QED
      BY <3>2 DEF Rank
  <2>2. \A p \in 1 .. n :
           at(p) = CHOOSE i \in 1 .. n : Cardinality(Before(n, key, i)) = p - 1
    BY <2>1
  <2>3. HighestFirst(s, key)
          = [p \in 1 .. n |-> s[CHOOSE i \in 1 .. n : Cardinality(Before(n, key, i)) = p - 1]]
    BY <1>1 DEF HighestFirst, Before
  <2> QED
    BY <2>2, <2>3
<1> HIDE DEF at
<1>5. t \in Seq(S) /\ Len(t) = n /\ \A p \in 1 .. n : t[p] = s[at(p)]
  BY <1>1, <1>3, IsASeq
<1>6. \A i \in 1 .. n : at(Rank(n, key, i)) = i
  BY <1>2, <1>3
<1> HIDE DEF t
<1> QED
  BY <1>2, <1>3, <1>4, <1>5, <1>6

-----------------------------------------------------------------------------
(* Rankings.                                                               *)

Unique(s) == \A i, j \in 1 .. Len(s) : s[i] = s[j] => i = j

LEMMA Positions ==
    ASSUME NEW S, NEW s \in Seq(S), Unique(s)
    PROVE  \A i \in 1 .. Len(s) : Position(s, s[i]) = i
<1>1. DOMAIN s = 1 .. Len(s)
  BY LenProperties
<1> QED
  BY <1>1 DEF Position, Unique

(* A sorted ranking has the same ids, once each; one that came before      *)
(* another and has no lower score still does.                              *)
Reorders(S, ids, score, sorted) ==
    /\ sorted \in Seq(S) /\ Unique(sorted) /\ Len(sorted) = Len(ids)
    /\ \A p \in 1 .. Len(ids) : \E i \in 1 .. Len(ids) : sorted[p] = ids[i]
    /\ \A i \in 1 .. Len(ids) : \E p \in 1 .. Len(ids) : sorted[p] = ids[i]
    /\ \A i, j, p, q \in 1 .. Len(ids) :
         /\ sorted[p] = ids[i] /\ sorted[q] = ids[j]
         /\ i < j /\ score[ids[i]] >= score[ids[j]]
         => p < q

LEMMA DescendingKeeps ==
    ASSUME NEW S, NEW ids \in Seq(S), Unique(ids), NEW score \in [ToSet(ids) -> Int]
    PROVE  Reorders(S, ids, score, Descending(ids, score))
<1> DEFINE n == Len(ids)
           key == [i \in 1 .. n |-> score[ids[i]]]
           sorted == Descending(ids, score)
           rank(i) == Rank(n, key, i)
<1>1. n \in Nat /\ DOMAIN ids = 1 .. n /\ \A i \in 1 .. n : ids[i] \in ToSet(ids)
  BY LenProperties DEF ToSet
<1>2. key \in [1 .. n -> Int]
  BY <1>1
<1>3. sorted = HighestFirst(ids, key)
  BY <1>1 DEF Descending
<1>4. \A i \in 1 .. n : key[i] = score[ids[i]] /\ key[i] \in Int
  BY <1>1
<1> HIDE DEF key, sorted
<1>5. /\ sorted \in Seq(S) /\ Len(sorted) = n
      /\ \A i \in 1 .. n : rank(i) \in 1 .. n /\ sorted[rank(i)] = ids[i]
      /\ \A p \in 1 .. n : \E i \in 1 .. n : rank(i) = p /\ sorted[p] = ids[i]
  BY <1>2, <1>3, Sorted
<1>6. \A i, j \in 1 .. n : key[j] > key[i] \/ (key[j] = key[i] /\ j < i) => rank(j) < rank(i)
  BY <1>1, <1>2, Ranks
<1> HIDE DEF rank, n
<1>7. \A p, i \in 1 .. n : sorted[p] = ids[i] => p = rank(i)
  <2> SUFFICES ASSUME NEW p \in 1 .. n, NEW i \in 1 .. n, sorted[p] = ids[i]
               PROVE  p = rank(i)
    OBVIOUS
  <2>1. PICK k \in 1 .. n : rank(k) = p /\ sorted[p] = ids[k]
    BY <1>5
  <2>2. k = i
    BY <2>1 DEF Unique, n
  <2> QED
    BY <2>1, <2>2
<1>8. Unique(sorted)
  <2> SUFFICES ASSUME NEW p \in 1 .. n, NEW q \in 1 .. n, sorted[p] = sorted[q]
               PROVE  p = q
    BY <1>5 DEF Unique
  <2>1. PICK i \in 1 .. n : rank(i) = p /\ sorted[p] = ids[i]
    BY <1>5
  <2> QED
    BY <1>7, <2>1
<1>9. ASSUME NEW i \in 1 .. n, NEW j \in 1 .. n, NEW p \in 1 .. n, NEW q \in 1 .. n,
             sorted[p] = ids[i], sorted[q] = ids[j], i < j, score[ids[i]] >= score[ids[j]]
      PROVE  p < q
  <2>1. key[i] > key[j] \/ (key[i] = key[j] /\ i < j)
    BY <1>4, <1>9
  <2>2. rank(i) < rank(j)
    BY <1>6, <2>1
  <2> QED
    BY <1>7, <1>9, <2>2
<1>10. Reorders(S, ids, score, sorted)
  BY <1>5, <1>8, <1>9 DEF Reorders, n
<1> QED
  BY <1>10 DEF sorted

(* What one hit does to the score table. *)
Inserted(table, id) == IF Contains(table, id) THEN table ELSE Append(table, id)

(* The table after n vector hits. *)
Table(S, keyword, vector, n, table) ==
    /\ table \in Seq(S) /\ Unique(table)
    /\ Len(keyword) <= Len(table)
    /\ \A i \in 1 .. Len(keyword) : table[i] = keyword[i]
    /\ \A j \in 1 .. Len(table) : Len(keyword) < j =>
         \E k \in 1 .. n : table[j] = vector[k]
    /\ \A i, j \in 1 .. Len(table), k, l \in 1 .. n :
         /\ Len(keyword) < i /\ i < j
         /\ table[i] = vector[k] /\ table[j] = vector[l]
         => k < l
    /\ \A k \in 1 .. n : \E j \in 1 .. Len(table) : table[j] = vector[k]

LEMMA TableGrows ==
    ASSUME NEW S, NEW keyword \in Seq(S), NEW vector \in Seq(S), Unique(vector),
           NEW n \in 1 .. Len(vector), NEW table,
           Table(S, keyword, vector, n - 1, table)
    PROVE  Table(S, keyword, vector, n, Inserted(table, vector[n]))
<1> DEFINE id == vector[n]
           m == Len(table)
<1>1. /\ Len(keyword) \in Nat /\ Len(vector) \in Nat /\ m \in Nat
      /\ table \in Seq(S) /\ \A k \in 1 .. Len(vector) : vector[k] \in S
  BY LenProperties, ElementOfSeq DEF Table
<1>2. n \in 1 .. n /\ \A k \in 1 .. n - 1 : k \in 1 .. n /\ k # n /\ k < n /\ vector[k] # id
  BY <1>1 DEF Unique
<1>3. \A k \in 1 .. n : k \in 1 .. n - 1 \/ k = n
  BY <1>1
<1>6. /\ Unique(table) /\ Len(keyword) <= m
      /\ \A i \in 1 .. Len(keyword) : table[i] = keyword[i]
      /\ \A j \in 1 .. m : Len(keyword) < j => \E k \in 1 .. n - 1 : table[j] = vector[k]
  BY DEF Table
<1>4. CASE Contains(table, id)
  <2>1. Inserted(table, id) = table
    BY <1>4 DEF Inserted
  <2>2. PICK at \in 1 .. m : table[at] = id
    BY <1>4 DEF Contains
  <2>3. ~(Len(keyword) < at)
    BY <1>2, <2>2 DEF Table
  <2>4. \A i \in 1 .. m : table[i] = id => i = at
    BY <2>2 DEF Table, Unique
  <2>5. \A i, j \in 1 .. m, k, l \in 1 .. n :
           /\ Len(keyword) < i /\ i < j
           /\ table[i] = vector[k] /\ table[j] = vector[l]
           => k < l
    <3> SUFFICES ASSUME NEW i \in 1 .. m, NEW j \in 1 .. m, NEW k \in 1 .. n, NEW l \in 1 .. n,
                        Len(keyword) < i, i < j, table[i] = vector[k], table[j] = vector[l]
                 PROVE  k < l
      OBVIOUS
    <3>1. i # at /\ j # at
      BY <1>1, <2>3
    <3>2. k # n /\ l # n
      BY <2>4, <3>1
    <3>3. k \in 1 .. n - 1 /\ l \in 1 .. n - 1
      BY <1>3, <3>2
    <3> QED
      BY <3>3 DEF Table
  <2>6. \A j \in 1 .. m : Len(keyword) < j => \E k \in 1 .. n : table[j] = vector[k]
    BY <1>2 DEF Table
  <2>7. \A k \in 1 .. n : \E j \in 1 .. m : table[j] = vector[k]
    BY <1>3, <2>2 DEF Table
  <2>8. Table(S, keyword, vector, n, table)
    BY <1>1, <1>6, <2>5, <2>6, <2>7 DEF Table
  <2> QED
    BY <2>1, <2>8
<1>5. CASE ~Contains(table, id)
  <2> DEFINE new == Append(table, id)
  <2>1. Inserted(table, id) = new
    BY <1>5 DEF Inserted
  <2>2. /\ new \in Seq(S) /\ Len(new) = m + 1
        /\ \A i \in 1 .. m : new[i] = table[i]
        /\ new[m + 1] = id
    BY <1>1, AppendProperties
  <2>3. \A i \in 1 .. m : table[i] # id
    BY <1>5 DEF Contains
  <2> HIDE DEF new
  <2>4. \A i \in 1 .. m + 1 : i \in 1 .. m \/ i = m + 1
    BY <1>1
  <2>5. Unique(new)
    BY <2>2, <2>3, <2>4 DEF Unique, Table
  <2>6. \A i, j \in 1 .. m + 1, k, l \in 1 .. n :
           /\ Len(keyword) < i /\ i < j
           /\ new[i] = vector[k] /\ new[j] = vector[l]
           => k < l
    <3> SUFFICES ASSUME NEW i \in 1 .. m + 1, NEW j \in 1 .. m + 1,
                        NEW k \in 1 .. n, NEW l \in 1 .. n,
                        Len(keyword) < i, i < j, new[i] = vector[k], new[j] = vector[l]
                 PROVE  k < l
      OBVIOUS
    <3>1. i \in 1 .. m
      BY <1>1
    <3>2. k # n
      BY <2>2, <2>3, <3>1
    <3>3. k \in 1 .. n - 1
      BY <1>3, <3>2
    <3>4. CASE j = m + 1
      <4>1. vector[l] = vector[n]
        BY <2>2, <3>4
      <4>2. l = n
        BY <1>2, <1>3, <4>1
      <4> QED
        BY <1>2, <3>3, <4>2
    <3>5. CASE j \in 1 .. m
      <4>1. l # n
        BY <2>2, <2>3, <3>5
      <4>2. l \in 1 .. n - 1
        BY <1>3, <4>1
      <4> QED
        BY <2>2, <3>1, <3>3, <3>5, <4>2 DEF Table
    <3> QED
      BY <2>4, <3>4, <3>5
  <2>7. \A j \in 1 .. m + 1 : Len(keyword) < j => \E k \in 1 .. n : new[j] = vector[k]
    <3>1. \A j \in 1 .. m : Len(keyword) < j => \E k \in 1 .. n : new[j] = vector[k]
      BY <1>2, <1>6, <2>2
    <3> QED
      BY <1>2, <2>2, <2>4, <3>1
  <2>8. \A k \in 1 .. n : \E j \in 1 .. m + 1 : new[j] = vector[k]
    <3>1. \A k \in 1 .. n - 1 : \E j \in 1 .. m + 1 : new[j] = vector[k]
      <4>1. \A j \in 1 .. m : j \in 1 .. m + 1
        BY <1>1
      <4> QED
        BY <2>2, <4>1 DEF Table
    <3>2. m + 1 \in 1 .. m + 1
      BY <1>1
    <3> QED
      BY <1>3, <2>2, <3>1, <3>2
  <2>9. /\ Len(keyword) <= m + 1
        /\ \A i \in 1 .. Len(keyword) : new[i] = keyword[i]
    BY <1>1, <2>2 DEF Table
  <2> QED
    BY <2>1, <2>2, <2>5, <2>6, <2>7, <2>8, <2>9 DEF Table
<1> QED
  BY <1>4, <1>5

(* The table of scores holds the keyword ranking, and after it, in their   *)
(* order, the other ids of the vector ranking.                             *)
LEMMA CandidatesTable ==
    ASSUME NEW S, NEW keyword \in Seq(S), NEW vector \in Seq(S),
           Unique(keyword), Unique(vector)
    PROVE  Table(S, keyword, vector, Len(vector), Candidates(keyword, vector))
<1> DEFINE N == Len(vector)
           step == [x \in Seq(S) \X (1 .. N) |-> Inserted(x[1], vector[x[2]])]
           inserted == CHOOSE g : g = [n \in 0 .. N |->
                         IF n = 0 THEN keyword ELSE Inserted(g[n - 1], vector[n])]
           T == {n \in 0 .. N : Table(S, keyword, vector, n, inserted[n])}
<1>1. N \in Nat /\ Len(keyword) \in Nat /\ \A k \in 1 .. N : vector[k] \in S
  BY LenProperties, ElementOfSeq
<1>2. step \in [Seq(S) \X (1 .. N) -> Seq(S)]
  <2>1. \A table \in Seq(S), k \in 1 .. N : Inserted(table, vector[k]) \in Seq(S)
    BY <1>1, AppendProperties DEF Inserted
  <2> QED
    BY <2>1
<1>3. \A table \in Seq(S), k \in 1 .. N : step[<<table, k>>] = Inserted(table, vector[k])
  OBVIOUS
<1> HIDE DEF step
<1>4. PICK f \in [0 .. N -> Seq(S)] :
        f[0] = keyword /\ \A n \in 1 .. N : f[n] = step[<<f[n - 1], n>>]
  <2> DEFINE A == Seq(S)
  <2>1. keyword \in A /\ step \in [A \X (1 .. N) -> A] /\ N \in Nat
    BY <1>1, <1>2
  <2> HIDE DEF N, A
  <2>2. Recursive(N, A, keyword, step)
    BY <2>1, Recursion
  <2> QED
    BY <2>2 DEF A, N, Recursive
<1>5. \A n \in 0 .. N : n # 0 => n \in 1 .. N /\ n - 1 \in 0 .. N
  BY <1>1
<1>6. f = [n \in 0 .. N |-> IF n = 0 THEN keyword ELSE Inserted(f[n - 1], vector[n])]
  <2>1. \A n \in 0 .. N :
          f[n] = IF n = 0 THEN keyword ELSE Inserted(f[n - 1], vector[n])
    BY <1>3, <1>4, <1>5
  <2> QED
    BY <1>4, <2>1
<1>7. inserted = [n \in 0 .. N |->
                    IF n = 0 THEN keyword ELSE Inserted(inserted[n - 1], vector[n])]
  BY <1>6
<1>8. Candidates(keyword, vector) = inserted[N]
  BY DEF Candidates, Inserted
<1> HIDE DEF inserted
<1>9. inserted[0] = keyword /\ \A n \in 1 .. N : inserted[n] = Inserted(inserted[n - 1], vector[n])
  BY <1>1, <1>5, <1>7
<1>10. 0 \in T
  <2>1. Table(S, keyword, vector, 0, keyword)
    BY <1>1 DEF Table
  <2> QED
    BY <1>1, <1>9, <2>1
<1>11. \A n \in 1 .. N : n - 1 \in T => n \in T
  <2> SUFFICES ASSUME NEW n \in 1 .. N, Table(S, keyword, vector, n - 1, inserted[n - 1])
               PROVE  Table(S, keyword, vector, n, inserted[n])
    BY <1>1
  <2> QED
    BY <1>9, TableGrows
<1>12. N \in T
  <2> HIDE DEF T, N
  <2>1. \A n \in 0 .. N : n \in T
    BY <1>1, <1>10, <1>11, UpTo
  <2> QED
    BY <1>1, <2>1
<1> QED
  BY <1>8, <1>12 DEF T

(* An id that both rankings place no lower than another has its score      *)
(* computed before it.                                                     *)
LEMMA CandidatesInOrder ==
    ASSUME NEW S, NEW keyword \in Seq(S), NEW vector \in Seq(S),
           Unique(keyword), Unique(vector), NEW id, NEW other, id # other,
           RankedNoLower(keyword, id, other), RankedNoLower(vector, id, other),
           NEW q \in 1 .. Len(Candidates(keyword, vector)),
           Candidates(keyword, vector)[q] = other
    PROVE  \E p \in 1 .. Len(Candidates(keyword, vector)) :
              Candidates(keyword, vector)[p] = id /\ p < q
<1> DEFINE c == Candidates(keyword, vector)
<1>1. Table(S, keyword, vector, Len(vector), c)
  BY CandidatesTable
<1> HIDE DEF c
<1>2. Len(keyword) \in Nat /\ Len(vector) \in Nat /\ Len(c) \in Nat
  BY <1>1, LenProperties DEF Table
<1>3. /\ Len(keyword) <= Len(c) /\ Unique(c)
      /\ \A i \in 1 .. Len(keyword) : i \in 1 .. Len(c) /\ c[i] = keyword[i]
  BY <1>1, <1>2 DEF Table
<1>4. \A i \in 1 .. Len(keyword) : Position(keyword, keyword[i]) = i
  BY Positions
<1>5. \A i \in 1 .. Len(vector) : Position(vector, vector[i]) = i
  BY Positions
<1>6. q \in 1 .. Len(c) /\ c[q] = other
  BY DEF c
<1>7. CASE q <= Len(keyword)
  <2>1. q \in 1 .. Len(keyword) /\ keyword[q] = other
    BY <1>2, <1>3, <1>6, <1>7
  <2>2. Contains(keyword, other) /\ Position(keyword, other) = q
    BY <1>4, <2>1 DEF Contains
  <2>3. PICK p \in 1 .. Len(keyword) : keyword[p] = id
    BY <2>2 DEF RankedNoLower, Contains
  <2>4. p <= q
    BY <1>4, <2>2, <2>3 DEF RankedNoLower
  <2>5. p # q
    BY <2>1, <2>3
  <2> QED
    BY <1>3, <2>3, <2>4, <2>5 DEF c
<1>8. CASE ~(q <= Len(keyword))
  <2> Len(keyword) < q
    BY <1>2, <1>6, <1>8
  <2>1. PICK l \in 1 .. Len(vector) : c[q] = vector[l]
    BY <1>1, <1>6 DEF Table
  <2>2. Contains(vector, other) /\ Position(vector, other) = l
    BY <1>5, <1>6, <2>1 DEF Contains
  <2>3. PICK k \in 1 .. Len(vector) : vector[k] = id
    BY <2>2 DEF RankedNoLower, Contains
  <2>4. k <= l
    BY <1>5, <2>2, <2>3 DEF RankedNoLower
  <2>5. PICK p \in 1 .. Len(c) : c[p] = id
    BY <1>1, <2>3 DEF Table
  <2>6. p < q
    <3> SUFFICES ASSUME q < p PROVE FALSE
      BY <1>2, <1>6, <2>5
    <3>1. l < k
      BY <1>1, <1>2, <1>6, <1>8, <2>1, <2>3, <2>5 DEF Table
    <3> QED
      BY <2>4, <3>1
  <2> QED
    BY <2>5, <2>6 DEF c
<1> QED
  BY <1>2, <1>6, <1>7, <1>8

-----------------------------------------------------------------------------
(* Scores.                                                                 *)

LEMMA Reciprocals ==
    ASSUME NEW low \in Nat, NEW high \in Nat, low <= high
    PROVE  Reciprocal(low) \in Nat /\ Reciprocal(high) \in Nat
           /\ Reciprocal(high) <= Reciprocal(low)
<1> DEFINE scale == 1000000000
           a == 60 + low
           b == 60 + high
           qa == scale \div a
           qb == scale \div b
<1>1. a \in Nat /\ b \in Nat /\ a > 0 /\ b > 0 /\ a <= b /\ scale \in Nat
  OBVIOUS
<1> HIDE DEF scale, a, b
<1>2. qa \in Nat /\ scale < a * qa + a
  BY <1>1
<1>3. qb \in Nat /\ b * qb <= scale
  BY <1>1
<1> HIDE DEF qa, qb
<1>4. qb <= qa
  <2> SUFFICES ASSUME qa + 1 <= qb PROVE FALSE
    BY <1>2, <1>3
  <2>1. a * (qa + 1) <= a * qb
    BY <1>1, <1>2, <1>3
  <2>2. a * qb <= b * qb
    BY <1>1, <1>3
  <2>3. a * (qa + 1) = a * qa + a
    BY <1>1, <1>2
  <2>4. a * qa \in Nat /\ a * qb \in Nat /\ b * qb \in Nat /\ a * (qa + 1) \in Nat
    BY <1>1, <1>2, <1>3
  <2> QED
    BY <1>1, <1>2, <1>3, <2>1, <2>2, <2>3, <2>4
<1> QED
  BY <1>2, <1>3, <1>4 DEF qa, qb, a, b, scale, Reciprocal

LEMMA RoundedKeepsOrder ==
    ASSUME NEW low \in Nat, NEW high \in Nat, low <= high
    PROVE  Rounded(low) \in Nat /\ Rounded(high) \in Nat /\ Rounded(low) <= Rounded(high)
BY DEF Rounded

LEMMA Contributions ==
    ASSUME NEW S, NEW ranking \in Seq(S), Unique(ranking), NEW id, NEW other,
           RankedNoLower(ranking, id, other)
    PROVE  /\ Contribution(ranking, id) \in Nat /\ Contribution(ranking, other) \in Nat
           /\ Contribution(ranking, other) <= Contribution(ranking, id)
<1>1. Len(ranking) \in Nat
  BY LenProperties
<1>2. ASSUME NEW any, Contains(ranking, any)
      PROVE  Position(ranking, any) \in Nat /\ Contribution(ranking, any) \in Nat
             /\ Contribution(ranking, any) = Reciprocal(Position(ranking, any))
  <2>1. Position(ranking, any) \in Nat
    BY <1>1, <1>2, Positions DEF Contains
  <2> QED
    BY <1>2, <2>1, Reciprocals DEF Contribution
<1>3. ASSUME NEW any, ~Contains(ranking, any)
      PROVE  Contribution(ranking, any) = 0
  BY <1>3 DEF Contribution
<1>4. CASE Contains(ranking, other)
  <2>1. Contains(ranking, id) /\ Position(ranking, id) <= Position(ranking, other)
    BY <1>4 DEF RankedNoLower
  <2> QED
    BY <1>2, <1>4, <2>1, Reciprocals
<1>5. CASE ~Contains(ranking, other)
  <2>1. Contribution(ranking, id) \in Nat
    BY <1>2, <1>3
  <2> QED
    BY <1>3, <1>5, <2>1
<1> QED
  BY <1>4, <1>5

LEMMA ScoresInOrder ==
    ASSUME NEW S, NEW keyword \in Seq(S), NEW vector \in Seq(S),
           Unique(keyword), Unique(vector), NEW id, NEW other,
           RankedNoLower(keyword, id, other), RankedNoLower(vector, id, other)
    PROVE  /\ Score(keyword, vector, id) \in Nat /\ Score(keyword, vector, other) \in Nat
           /\ Score(keyword, vector, other) <= Score(keyword, vector, id)
<1>1. /\ Contribution(keyword, id) \in Nat /\ Contribution(keyword, other) \in Nat
      /\ Contribution(keyword, other) <= Contribution(keyword, id)
  BY Contributions
<1>2. /\ Contribution(vector, id) \in Nat /\ Contribution(vector, other) \in Nat
      /\ Contribution(vector, other) <= Contribution(vector, id)
  BY Contributions
<1> QED
  BY <1>1, <1>2 DEF Score

(* No id of a ranking lacks one before it that both searches rank no lower *)
(* and that is boosted if it is.                                           *)
InOrder(keyword, vector, ranking) ==
    \A id, other : \A q \in 1 .. Len(ranking) :
      /\ id # other /\ ranking[q] = other
      /\ RankedNoLower(keyword, id, other) /\ RankedNoLower(vector, id, other)
      /\ other \in Boosted => id \in Boosted
      => \E p \in 1 .. Len(ranking) : ranking[p] = id /\ p < q

(* Fusion and reranking return the candidates, each once and in order. *)
LEMMA RerankedInOrder ==
    ASSUME NEW S, NEW keyword \in Seq(S), NEW vector \in Seq(S),
           Unique(keyword), Unique(vector)
    PROVE  LET reranked == Reranked(keyword, vector) IN
           reranked \in Seq(S) /\ Unique(reranked) /\ InOrder(keyword, vector, reranked)
<1> DEFINE c == Candidates(keyword, vector)
           f == Fused(keyword, vector)
           r == Reranked(keyword, vector)
           score == [id \in ToSet(c) |-> Score(keyword, vector, id)]
           boost(id) == IF id \in Boosted THEN Boost ELSE 0
           final == [id \in ToSet(f) |-> Rounded(Score(keyword, vector, id)) + boost(id)]
           n == Len(c)
<1>1. c \in Seq(S) /\ Unique(c) /\ n \in Nat
  BY CandidatesTable, LenProperties DEF Table
<1>2. \A id : Score(keyword, vector, id) \in Nat
  <2> TAKE id
  <2>1. RankedNoLower(keyword, id, id) /\ RankedNoLower(vector, id, id)
    <3>1. \A ranking \in {keyword, vector} :
             Contains(ranking, id) => Position(ranking, id) \in Int
      BY Positions, LenProperties DEF Contains
    <3> QED
      BY <3>1 DEF RankedNoLower
  <2> QED
    BY <2>1, ScoresInOrder
<1>3. score \in [ToSet(c) -> Int]
  BY <1>2
<1>4. final \in [ToSet(f) -> Int]
  <2>1. \A id : Rounded(Score(keyword, vector, id)) \in Nat
    BY <1>2, RoundedKeepsOrder
  <2>2. \A id : boost(id) \in Int
    BY DEF Boost
  <2> HIDE DEF f, boost
  <2> QED
    BY <2>1, <2>2
<1>5. f = Descending(c, score) /\ r = Descending(f, final)
  BY DEF Fused, Reranked
<1> HIDE DEF c, f, r, score, final, n
<1>6. /\ f \in Seq(S) /\ Unique(f) /\ Len(f) = n
      /\ \A p \in 1 .. n : \E i \in 1 .. n : f[p] = c[i]
      /\ \A i \in 1 .. n : \E p \in 1 .. n : f[p] = c[i]
      /\ \A i, j, p, q \in 1 .. n :
           f[p] = c[i] /\ f[q] = c[j] /\ i < j /\ score[c[i]] >= score[c[j]] => p < q
  <2>1. Reorders(S, c, score, f)
    BY <1>1, <1>3, <1>5, DescendingKeeps
  <2> QED
    BY <2>1 DEF Reorders, n
<1>7. /\ r \in Seq(S) /\ Unique(r) /\ Len(r) = n
      /\ \A p \in 1 .. n : \E i \in 1 .. n : r[p] = f[i]
      /\ \A i \in 1 .. n : \E p \in 1 .. n : r[p] = f[i]
      /\ \A i, j, p, q \in 1 .. n :
           r[p] = f[i] /\ r[q] = f[j] /\ i < j /\ final[f[i]] >= final[f[j]] => p < q
  <2>1. Reorders(S, f, final, r)
    BY <1>4, <1>5, <1>6, DescendingKeeps
  <2>2. Len(f) = n
    BY <1>6
  <2> QED
    BY <2>1, <2>2 DEF Reorders
<1>8. ASSUME NEW id, NEW other, id # other,
             RankedNoLower(keyword, id, other), RankedNoLower(vector, id, other),
             other \in Boosted => id \in Boosted,
             NEW q \in 1 .. Len(r), r[q] = other
      PROVE  \E p \in 1 .. Len(r) : r[p] = id /\ p < q
  <2>1. PICK j \in 1 .. n : f[j] = other
    BY <1>7, <1>8
  <2>2. PICK l \in 1 .. n : c[l] = other
    BY <1>6, <2>1
  <2>3. PICK k \in 1 .. n : c[k] = id /\ k < l
    BY <1>8, <2>2, CandidatesInOrder DEF c, n
  <2>4. /\ Score(keyword, vector, id) \in Nat /\ Score(keyword, vector, other) \in Nat
        /\ Score(keyword, vector, other) <= Score(keyword, vector, id)
    BY <1>8, ScoresInOrder
  <2>5. PICK i \in 1 .. n : f[i] = id
    BY <1>6, <2>3
  <2>6. i < j
    <3>1. id \in ToSet(c) /\ other \in ToSet(c)
      BY <1>1, <2>2, <2>3, LenProperties DEF ToSet, n
    <3>2. score[id] >= score[other]
      BY <2>4, <3>1 DEF score
    <3> QED
      BY <1>6, <2>1, <2>2, <2>3, <2>5, <3>2
  <2>7. PICK p \in 1 .. n : r[p] = id
    BY <1>7, <2>5
  <2>8. p < q
    <3>1. id \in ToSet(f) /\ other \in ToSet(f)
      <4>1. f \in Seq(S) /\ Len(f) = n
        BY <1>6
      <4>2. DOMAIN f = 1 .. n
        BY <4>1, LenProperties
      <4> QED
        BY <2>1, <2>5, <4>2 DEF ToSet
    <3>2. /\ Rounded(Score(keyword, vector, id)) \in Nat
          /\ Rounded(Score(keyword, vector, other)) \in Nat
          /\ Rounded(Score(keyword, vector, other)) <= Rounded(Score(keyword, vector, id))
      BY <2>4, RoundedKeepsOrder
    <3>3. boost(other) <= boost(id) /\ boost(other) \in Int /\ boost(id) \in Int
      BY <1>8 DEF Boost
    <3> HIDE DEF boost
    <3>4. final[id] >= final[other]
      BY <3>1, <3>2, <3>3 DEF final
    <3>5. q \in 1 .. n
      BY <1>7, <1>8
    <3>6. r[p] = f[i] /\ r[q] = f[j] /\ final[f[i]] >= final[f[j]]
      BY <1>8, <2>1, <2>5, <2>7, <3>4
    <3> QED
      BY <1>7, <2>6, <3>5, <3>6
  <2> QED
    BY <1>7, <2>7, <2>8
<1>9. InOrder(keyword, vector, r)
  BY <1>8 DEF InOrder
<1> QED
  BY <1>7, <1>9 DEF r

(* reranked[:top_k] *)
LEMMA CitedIsPrefix ==
    ASSUME NEW S, NEW keyword \in Seq(S), NEW vector \in Seq(S),
           Unique(keyword), Unique(vector)
    PROVE  LET cited == Cited(keyword, vector)
               reranked == Reranked(keyword, vector)
           IN /\ cited \in Seq(S)
              /\ Len(cited) <= Len(reranked)
              /\ \A i \in 1 .. Len(cited) : cited[i] = reranked[i]
<1> DEFINE r == Reranked(keyword, vector)
           last == IF Len(r) < TopK THEN Len(r) ELSE TopK
           cited == SubSeq(r, 1, last)
<1>1. r \in Seq(S) /\ Len(r) \in Nat
  BY RerankedInOrder, LenProperties
<1>2. cited = Cited(keyword, vector)
  BY DEF Cited
<1>3. last \in Nat /\ last <= Len(r)
  BY <1>1, TopKAssumption
<1> HIDE DEF r, last
<1>4. /\ cited \in Seq(S) /\ Len(cited) = last
      /\ \A i \in 1 .. last : cited[i] = r[i]
  <2>1. \A i \in 1 .. last : r[i] \in S
    BY <1>1, <1>3, ElementOfSeq
  <2>2. /\ cited \in Seq(S)
        /\ Len(cited) = IF 1 <= last THEN last - 1 + 1 ELSE 0
        /\ \A i \in 1 .. last - 1 + 1 : cited[i] = r[1 + i - 1]
    BY <1>3, <2>1, SubSeqProperties
  <2> QED
    BY <1>1, <1>3, <2>2
<1> HIDE DEF cited
<1> QED
  BY <1>2, <1>3, <1>4 DEF r

(* A cited chunk is not beaten, whatever the two searches returned. *)
LEMMA CitedInOrder ==
    ASSUME NEW S, NEW keyword \in Seq(S), NEW vector \in Seq(S),
           Unique(keyword), Unique(vector), NEW id, NEW other, id # other,
           RankedNoLower(keyword, id, other), RankedNoLower(vector, id, other),
           other \in Boosted => id \in Boosted,
           Contains(Cited(keyword, vector), other)
    PROVE  /\ Contains(Cited(keyword, vector), id)
           /\ Position(Cited(keyword, vector), id) < Position(Cited(keyword, vector), other)
<1> DEFINE r == Reranked(keyword, vector)
           cited == Cited(keyword, vector)
           last == Len(cited)
<1>1. r \in Seq(S) /\ Unique(r) /\ Len(r) \in Nat /\ InOrder(keyword, vector, r)
  BY RerankedInOrder, LenProperties
<1>2. /\ cited \in Seq(S) /\ last <= Len(r)
      /\ \A i \in 1 .. last : cited[i] = r[i]
  BY CitedIsPrefix
<1> HIDE DEF r, cited
<1>3. last \in Nat
  BY <1>2, LenProperties
<1>4. \A i \in 1 .. last : i \in 1 .. Len(r)
  BY <1>1, <1>2, <1>3
<1>5. Unique(cited)
  BY <1>1, <1>2, <1>4 DEF Unique
<1>6. \A i \in 1 .. last : Position(cited, cited[i]) = i
  BY <1>2, <1>5, Positions
<1>7. PICK q \in 1 .. last : cited[q] = other
  BY DEF Contains, cited
<1>8. PICK p \in 1 .. Len(r) : r[p] = id /\ p < q
  <2>1. q \in 1 .. Len(r) /\ r[q] = other
    BY <1>2, <1>4, <1>7
  <2> QED
    BY <1>1, <2>1 DEF InOrder
<1>9. p \in 1 .. last /\ cited[p] = id
  BY <1>1, <1>2, <1>3, <1>8
<1>10. Contains(cited, id) /\ Position(cited, id) < Position(cited, other)
  BY <1>6, <1>7, <1>8, <1>9 DEF Contains
<1> QED
  BY <1>10 DEF cited

(* A ranking is a sequence without repetition.                             *)
LEMMA RankingsAreUnique ==
    ASSUME NEW S, IsFiniteSet(S)
    PROVE  \A s \in Rankings(S) : s \in Seq(S) /\ Unique(s)
<1>1. ASSUME NEW T, T \subseteq S, NEW s \in SetToSeqs(T)
      PROVE  s \in Seq(S) /\ Unique(s)
  <2>1. Cardinality(T) \in Nat
    BY <1>1, FS_Subset, FS_CardinalityType
  <2>2. s \in [1 .. Cardinality(T) -> T]
        /\ \A i, j \in 1 .. Cardinality(T) : i # j => s[i] # s[j]
    BY <1>1 DEF SetToSeqs
  <2>3. s \in [1 .. Cardinality(T) -> S]
    BY <1>1, <2>2
  <2>4. s \in Seq(S) /\ Len(s) = Cardinality(T)
    BY <2>1, <2>3, IsASeq
  <2> QED
    BY <2>2, <2>4 DEF Unique
<1> QED
  BY <1>1 DEF Rankings, SetToAllKPermutations

-----------------------------------------------------------------------------
(* The assembly of the context, for items of any set S.                    *)

Distinct(items) == \A i, j \in 1 .. Len(items) : items[i].text = items[j].text => i = j

(* What deduplication does with one item. *)
Added(kept, item) ==
    IF \E i \in DOMAIN kept : kept[i].text = item.text THEN kept ELSE Append(kept, item)

(* What the first n items leave. *)
Kept(S, raw, n, kept) ==
    /\ kept \in Seq(S)
    /\ Distinct(kept)
    /\ \A k \in 1 .. n : \E i \in 1 .. Len(kept) : kept[i].text = raw[k].text

LEMMA AddedKeeps ==
    ASSUME NEW S, NEW raw \in Seq(S), NEW n \in 1 .. Len(raw), NEW kept,
           Kept(S, raw, n - 1, kept)
    PROVE  Kept(S, raw, n, Added(kept, raw[n]))
<1> DEFINE m == Len(kept)
           item == raw[n]
<1>1. /\ Len(raw) \in Nat /\ m \in Nat /\ DOMAIN kept = 1 .. m
      /\ kept \in Seq(S) /\ item \in S
  BY LenProperties, ElementOfSeq DEF Kept
<1>2. \A k \in 1 .. n : k \in 1 .. n - 1 \/ k = n
  BY <1>1
<1>3. /\ \A k \in 1 .. n - 1 : \E i \in 1 .. m : kept[i].text = raw[k].text
      /\ \A i, j \in 1 .. m : kept[i].text = kept[j].text => i = j
  BY DEF Kept, Distinct
<1>4. CASE \E i \in 1 .. m : kept[i].text = item.text
  <2>1. Added(kept, item) = kept
    BY <1>1, <1>4 DEF Added
  <2>2. \A k \in 1 .. n : \E i \in 1 .. m : kept[i].text = raw[k].text
    BY <1>2, <1>3, <1>4
  <2> QED
    BY <1>1, <1>3, <2>1, <2>2 DEF Kept, Distinct
<1>5. CASE ~ \E i \in 1 .. m : kept[i].text = item.text
  <2> DEFINE new == Append(kept, item)
  <2>1. Added(kept, item) = new
    BY <1>1, <1>5 DEF Added
  <2>2. /\ new \in Seq(S) /\ Len(new) = m + 1 /\ new[m + 1] = item
        /\ \A i \in 1 .. m : new[i] = kept[i]
    BY <1>1, AppendProperties
  <2> HIDE DEF new
  <2>3. \A i \in 1 .. m + 1 : i \in 1 .. m \/ i = m + 1
    BY <1>1
  <2>4. Distinct(new)
    BY <1>3, <1>5, <2>2, <2>3 DEF Distinct
  <2>5. \A k \in 1 .. n : \E i \in 1 .. m + 1 : new[i].text = raw[k].text
    <3>1. m + 1 \in 1 .. m + 1 /\ \A i \in 1 .. m : i \in 1 .. m + 1
      BY <1>1
    <3> QED
      BY <1>2, <1>3, <2>2, <3>1
  <2> QED
    BY <2>1, <2>2, <2>4, <2>5 DEF Kept
<1> QED
  BY <1>4, <1>5

(* The items left have different texts, and each text is left.             *)
LEMMA DeduplicatedKeeps ==
    ASSUME NEW S, NEW raw \in Seq(S)
    PROVE  Kept(S, raw, Len(raw), Deduplicated(raw))
<1> DEFINE N == Len(raw)
           A == Seq(S)
           step == [x \in A \X (1 .. N) |-> Added(x[1], raw[x[2]])]
           unique == CHOOSE g : g = [n \in 0 .. N |->
                       IF n = 0 THEN << >> ELSE Added(g[n - 1], raw[n])]
           T == {n \in 0 .. N : Kept(S, raw, n, unique[n])}
<1>1. N \in Nat /\ << >> \in A /\ \A k \in 1 .. N : raw[k] \in S
  BY LenProperties, ElementOfSeq
<1>2. step \in [A \X (1 .. N) -> A]
  <2>1. \A kept \in Seq(S), k \in 1 .. N : Added(kept, raw[k]) \in Seq(S)
    BY <1>1, AppendProperties DEF Added
  <2> QED
    BY <2>1
<1>3. \A kept \in A, k \in 1 .. N : step[<<kept, k>>] = Added(kept, raw[k])
  OBVIOUS
<1> HIDE DEF step, A, N
<1>4. PICK f \in [0 .. N -> A] :
        f[0] = << >> /\ \A n \in 1 .. N : f[n] = step[<<f[n - 1], n>>]
  <2>1. Recursive(N, A, << >>, step)
    BY <1>1, <1>2, Recursion
  <2> QED
    BY <2>1 DEF Recursive
<1>5. \A n \in 0 .. N : n # 0 => n \in 1 .. N /\ n - 1 \in 0 .. N
  BY <1>1
<1>6. f = [n \in 0 .. N |-> IF n = 0 THEN << >> ELSE Added(f[n - 1], raw[n])]
  <2>1. \A n \in 0 .. N : f[n] = IF n = 0 THEN << >> ELSE Added(f[n - 1], raw[n])
    BY <1>3, <1>4, <1>5
  <2> QED
    BY <1>4, <2>1
<1>7. unique = [n \in 0 .. N |-> IF n = 0 THEN << >> ELSE Added(unique[n - 1], raw[n])]
  BY <1>6
<1>8. Deduplicated(raw) = unique[N]
  BY DEF Deduplicated, Added, N
<1> HIDE DEF unique
<1>9. unique[0] = << >> /\ \A n \in 1 .. N : unique[n] = Added(unique[n - 1], raw[n])
  BY <1>1, <1>5, <1>7
<1>10. 0 \in T
  <2>1. Kept(S, raw, 0, << >>)
    BY DEF Kept, Distinct
  <2> QED
    BY <1>1, <1>9, <2>1
<1>11. \A n \in 1 .. N : n - 1 \in T => n \in T
  <2> SUFFICES ASSUME NEW n \in 1 .. N, Kept(S, raw, n - 1, unique[n - 1])
               PROVE  Kept(S, raw, n, unique[n])
    BY <1>1
  <2> QED
    BY <1>9, AddedKeeps DEF N
<1> HIDE DEF T
<1>12. N \in T
  <2>1. \A n \in 0 .. N : n \in T
    BY <1>1, <1>10, <1>11, UpTo
  <2> QED
    BY <1>1, <2>1
<1> QED
  BY <1>8, <1>12 DEF T, N

(* t holds the elements of s in another order. *)
Permutes(s, t) ==
    /\ Len(t) = Len(s)
    /\ \E move \in Bijection(1 .. Len(s), 1 .. Len(s)) :
          \A i \in 1 .. Len(s) : t[move[i]] = s[i]

(* No position of t holds an element of s with a key higher than one before. *)
FallingKeys(s, key, t) ==
    \A p, q \in 1 .. Len(s) : p < q =>
      \E i, j \in 1 .. Len(s) : t[p] = s[i] /\ t[q] = s[j] /\ key[i] >= key[j]

LEMMA SortedPermutes ==
    ASSUME NEW S, NEW s \in Seq(S), NEW key \in [1 .. Len(s) -> Int]
    PROVE  LET t == HighestFirst(s, key) IN
           t \in Seq(S) /\ Permutes(s, t) /\ FallingKeys(s, key, t)
<1> DEFINE n == Len(s)
           t == HighestFirst(s, key)
           move == [i \in 1 .. n |-> Rank(n, key, i)]
<1>1. n \in Nat
  BY LenProperties
<1>2. /\ t \in Seq(S) /\ Len(t) = n
      /\ \A i \in 1 .. n : Rank(n, key, i) \in 1 .. n /\ t[Rank(n, key, i)] = s[i]
      /\ \A p \in 1 .. n : \E i \in 1 .. n : Rank(n, key, i) = p /\ t[p] = s[i]
  BY Sorted
<1>3. /\ \A i, j \in 1 .. n :
           key[j] > key[i] \/ (key[j] = key[i] /\ j < i) => Rank(n, key, j) < Rank(n, key, i)
      /\ \A i, j \in 1 .. n : Rank(n, key, i) = Rank(n, key, j) => i = j
  BY <1>1, Ranks
<1> HIDE DEF t
<1>4. Permutes(s, t)
  <2>1. move \in [1 .. n -> 1 .. n]
    BY <1>2
  <2>2. /\ \A i, j \in 1 .. n : move[i] = move[j] => i = j
        /\ \A p \in 1 .. n : \E i \in 1 .. n : move[i] = p
        /\ \A i \in 1 .. n : t[move[i]] = s[i]
    BY <1>2, <1>3
  <2> HIDE DEF move
  <2>3. move \in Bijection(1 .. n, 1 .. n)
    BY <2>1, <2>2 DEF Bijection, Injection, Surjection, IsInjective
  <2> QED
    BY <1>2, <2>2, <2>3 DEF Permutes
<1>5. ASSUME NEW p \in 1 .. n, NEW q \in 1 .. n, p < q
      PROVE  \E i, j \in 1 .. n : t[p] = s[i] /\ t[q] = s[j] /\ key[i] >= key[j]
  <2>1. PICK i \in 1 .. n : Rank(n, key, i) = p /\ t[p] = s[i]
    BY <1>2
  <2>2. PICK j \in 1 .. n : Rank(n, key, j) = q /\ t[q] = s[j]
    BY <1>2
  <2>3. ~(key[j] > key[i])
    <3> SUFFICES ASSUME key[j] > key[i] PROVE FALSE
      OBVIOUS
    <3>1. Rank(n, key, j) < Rank(n, key, i)
      BY <1>3
    <3> QED
      BY <1>5, <2>1, <2>2, <3>1
  <2>4. key[i] >= key[j]
    BY <2>3
  <2> QED
    BY <2>1, <2>2, <2>4
<1>6. FallingKeys(s, key, t)
  BY <1>5 DEF FallingKeys
<1> QED
  BY <1>2, <1>4, <1>6 DEF t

(* A permutation of distinct items has the same ones, still distinct.      *)
LEMMA PermutedItems ==
    ASSUME NEW S, NEW s \in Seq(S), NEW t \in Seq(S), Permutes(s, t)
    PROVE  /\ Distinct(s) => Distinct(t)
           /\ \A i \in 1 .. Len(s) : \E p \in 1 .. Len(t) : t[p] = s[i]
           /\ \A p \in 1 .. Len(t) : \E i \in 1 .. Len(s) : t[p] = s[i]
           /\ ToSet(t) = ToSet(s)
<1>1. Len(t) = Len(s) /\ DOMAIN s = 1 .. Len(s) /\ DOMAIN t = 1 .. Len(s)
  BY LenProperties DEF Permutes
<1>2. PICK move \in Bijection(1 .. Len(s), 1 .. Len(s)) :
         \A i \in 1 .. Len(s) : t[move[i]] = s[i]
  BY DEF Permutes
<1>3. /\ \A i \in 1 .. Len(s) : move[i] \in 1 .. Len(s)
      /\ \A p \in 1 .. Len(s) : \E i \in 1 .. Len(s) : move[i] = p
  BY DEF Bijection, Injection, Surjection
<1>4. /\ \A i \in 1 .. Len(s) : \E p \in 1 .. Len(t) : t[p] = s[i]
      /\ \A p \in 1 .. Len(t) : \E i \in 1 .. Len(s) : move[i] = p /\ t[p] = s[i]
  BY <1>1, <1>2, <1>3
<1>5. Distinct(s) => Distinct(t)
  <2> SUFFICES ASSUME Distinct(s), NEW p \in 1 .. Len(t), NEW q \in 1 .. Len(t),
                      t[p].text = t[q].text
               PROVE  p = q
    BY DEF Distinct
  <2>1. PICK i \in 1 .. Len(s) : move[i] = p /\ t[p] = s[i]
    BY <1>4
  <2>2. PICK j \in 1 .. Len(s) : move[j] = q /\ t[q] = s[j]
    BY <1>4
  <2>3. i = j
    BY <2>1, <2>2 DEF Distinct
  <2> QED
    BY <2>1, <2>2, <2>3
<1>6. ToSet(t) = ToSet(s)
  <2>1. ToSet(t) = {t[p] : p \in 1 .. Len(t)} /\ ToSet(s) = {s[i] : i \in 1 .. Len(s)}
    BY <1>1 DEF ToSet
  <2>2. \A x : x \in ToSet(t) <=> \E p \in 1 .. Len(t) : x = t[p]
    BY <2>1
  <2>3. \A x : x \in ToSet(s) <=> \E i \in 1 .. Len(s) : x = s[i]
    BY <2>1
  <2>4. ASSUME NEW x \in ToSet(t) PROVE x \in ToSet(s)
    <3>1. PICK p \in 1 .. Len(t) : x = t[p]
      BY <2>2
    <3>2. PICK i \in 1 .. Len(s) : t[p] = s[i]
      BY <1>4
    <3> QED
      BY <2>3, <3>1, <3>2
  <2>5. ASSUME NEW x \in ToSet(s) PROVE x \in ToSet(t)
    <3>1. PICK i \in 1 .. Len(s) : x = s[i]
      BY <2>3
    <3>2. PICK p \in 1 .. Len(t) : t[p] = s[i]
      BY <1>4
    <3> QED
      BY <2>2, <3>1, <3>2
  <2> QED
    BY <2>4, <2>5
<1> QED
  BY <1>4, <1>5, <1>6

(* The tokens of the items counted, one by one. *)
Units(items, lowest) ==
    {u \in (1 .. Len(items)) \X Nat :
        items[u[1]].priority >= lowest /\ u[2] \in 1 .. items[u[1]].tokens}

LEMMA UnitsCounted ==
    ASSUME NEW S, \A item \in S : item.tokens \in Nat, NEW items \in Seq(S), NEW lowest
    PROVE  TokensOf(items, lowest) = Cardinality(Units(items, lowest))
<1>1. Len(items) \in Nat /\ DOMAIN items = 1 .. Len(items)
      /\ \A i \in 1 .. Len(items) : items[i] \in S /\ items[i].tokens \in Nat
  BY LenProperties, ElementOfSeq
<1> DEFINE counted == {j \in 1 .. Len(items) : items[j].priority >= lowest}
           all == UNION {{i} \X (1 .. items[i].tokens) : i \in counted}
<1>2. \A u : u \in all <=> \E i \in counted : u \in {i} \X (1 .. items[i].tokens)
  OBVIOUS
<1>3. \A u : u \in all <=> \E i \in counted : \E k \in 1 .. items[i].tokens : u = <<i, k>>
  <2> HIDE DEF all, counted
  <2> QED
    BY <1>2
<1>4. \A u : u \in Units(items, lowest)
               <=> \E i \in counted : \E k \in 1 .. items[i].tokens : u = <<i, k>>
  BY <1>1 DEF Units
<1>5. all = Units(items, lowest)
  BY <1>3, <1>4
<1> QED
  BY <1>1, <1>5 DEF TokensOf

LEMMA UnitsFinite ==
    ASSUME NEW S, \A item \in S : item.priority \in Nat /\ item.tokens \in Nat,
           NEW items \in Seq(S), NEW lowest
    PROVE  IsFiniteSet(Units(items, lowest)) /\ Cardinality(Units(items, lowest)) \in Nat
<1> DEFINE n == Len(items)
           counted == {j \in DOMAIN items : items[j].priority >= lowest}
           some(i) == {i} \X (1 .. items[i].tokens)
<1>1. n \in Nat /\ \A i \in 1 .. n : items[i] \in S /\ items[i].tokens \in Nat
  BY LenProperties, ElementOfSeq
<1> DEFINE T == {m \in 0 .. n : IsFiniteSet({u \in Units(items, lowest) : u[1] <= m})}
<1>2. 0 \in T
  <2> DEFINE none == {u \in Units(items, lowest) : u[1] <= 0}
  <2>1. none = {}
    BY <1>1 DEF Units
  <2> HIDE DEF none
  <2>2. IsFiniteSet(none)
    BY <2>1, FS_EmptySet
  <2> QED
    BY <1>1, <2>2 DEF none
<1>3. ASSUME NEW m \in 1 .. n, m - 1 \in T PROVE m \in T
  <2> DEFINE more == {u \in {m} \X (1 .. items[m].tokens) : items[m].priority >= lowest}
             below == {u \in Units(items, lowest) : u[1] <= m - 1}
             upTo == {u \in Units(items, lowest) : u[1] <= m}
  <2>1. IsFiniteSet(below)
    BY <1>3
  <2>2. IsFiniteSet({m} \X (1 .. items[m].tokens))
    <3>1. IsFiniteSet({m})
      BY FS_Singleton
    <3> DEFINE k == items[m].tokens
    <3>2. k \in Int
      BY <1>1
    <3> HIDE DEF k
    <3>3. IsFiniteSet(1 .. k)
      BY <3>2, FS_Interval
    <3> QED
      BY <3>1, <3>3, FS_Product DEF k
  <2>3. IsFiniteSet(more)
    BY <2>2, FS_Subset
  <2>4. upTo \subseteq below \cup more
    BY <1>1 DEF Units
  <2> HIDE DEF more, below, upTo
  <2>5. IsFiniteSet(upTo)
    BY <2>1, <2>3, <2>4, FS_Union, FS_Subset
  <2> QED
    BY <2>5 DEF upTo
<1> HIDE DEF T
<1>4. \A m \in 0 .. n : m \in T
  BY <1>1, <1>2, <1>3, UpTo
<1>5. IsFiniteSet({u \in Units(items, lowest) : u[1] <= n})
  BY <1>1, <1>4 DEF T
<1>6. {u \in Units(items, lowest) : u[1] <= n} = Units(items, lowest)
  BY <1>1 DEF Units
<1> QED
  BY <1>5, <1>6, FS_CardinalityType

(* The order of the items does not matter to their number of tokens.       *)
LEMMA PermutedTokens ==
    ASSUME NEW S, \A item \in S : item.priority \in Nat /\ item.tokens \in Nat,
           NEW s \in Seq(S), NEW t \in Seq(S), Permutes(s, t), NEW lowest
    PROVE  TokensOf(s, lowest) = TokensOf(t, lowest)
<1> DEFINE n == Len(s)
           us == Units(s, lowest)
           ut == Units(t, lowest)
<1>1. n \in Nat /\ Len(t) = n /\ \A i \in 1 .. n : s[i] \in S
  BY LenProperties, ElementOfSeq DEF Permutes
<1>2. PICK move \in Bijection(1 .. n, 1 .. n) : \A i \in 1 .. n : t[move[i]] = s[i]
  BY DEF Permutes
<1>3. /\ \A i \in 1 .. n : move[i] \in 1 .. n
      /\ \A i, j \in 1 .. n : move[i] = move[j] => i = j
      /\ \A p \in 1 .. n : \E i \in 1 .. n : move[i] = p
  BY DEF Bijection, Injection, Surjection, IsInjective
<1> DEFINE lift == [u \in us |-> <<move[u[1]], u[2]>>]
<1>4. \A u \in us : /\ u = <<u[1], u[2]>> /\ u[1] \in 1 .. n /\ u[2] \in Nat
                    /\ s[u[1]].priority >= lowest /\ u[2] \in 1 .. s[u[1]].tokens
  BY DEF Units
<1>5. \A u \in us : lift[u] = <<move[u[1]], u[2]>>
  OBVIOUS
<1>6. lift \in [us -> ut]
  <2>1. ASSUME NEW u \in us PROVE <<move[u[1]], u[2]>> \in ut
    <3>1. t[move[u[1]]] = s[u[1]] /\ move[u[1]] \in 1 .. n
      BY <1>2, <1>3, <1>4
    <3> QED
      BY <1>1, <1>4, <3>1 DEF Units
  <2> HIDE DEF us, ut
  <2> QED
    BY <2>1
<1>7. \A u, v \in us : lift[u] = lift[v] => u = v
  <2> SUFFICES ASSUME NEW u \in us, NEW v \in us, lift[u] = lift[v] PROVE u = v
    OBVIOUS
  <2>1. move[u[1]] = move[v[1]] /\ u[2] = v[2]
    BY <1>5
  <2>2. u[1] = v[1]
    BY <1>3, <1>4, <2>1
  <2> QED
    BY <1>4, <2>1, <2>2
<1>8. ASSUME NEW w \in ut PROVE \E u \in us : lift[u] = w
  <2>1. /\ w = <<w[1], w[2]>> /\ w[1] \in 1 .. n /\ w[2] \in Nat
        /\ t[w[1]].priority >= lowest /\ w[2] \in 1 .. t[w[1]].tokens
    BY <1>1 DEF Units
  <2>2. PICK i \in 1 .. n : move[i] = w[1]
    BY <1>3, <2>1
  <2>3. t[w[1]] = s[i]
    BY <1>2, <2>2
  <2>4. <<i, w[2]>> \in us
    BY <2>1, <2>3 DEF Units
  <2>5. lift[<<i, w[2]>>] = <<move[i], w[2]>>
    BY <1>5, <2>4
  <2> QED
    BY <2>1, <2>2, <2>4, <2>5
<1> HIDE DEF lift, us, ut
<1>9. lift \in Bijection(us, ut)
  BY <1>6, <1>7, <1>8 DEF Bijection, Injection, Surjection, IsInjective
<1>10. IsFiniteSet(us)
  BY UnitsFinite DEF us
<1>11. Cardinality(us) = Cardinality(ut)
  <2>1. ExistsBijection(us, ut)
    BY <1>9 DEF ExistsBijection
  <2> QED
    BY <1>10, <2>1, FS_Bijection
<1> QED
  BY <1>11, UnitsCounted DEF us, ut

LEMMA TokensAppended ==
    ASSUME NEW S, \A item \in S : item.priority \in Nat /\ item.tokens \in Nat,
           NEW items \in Seq(S), NEW item \in S, NEW lowest
    PROVE  /\ TokensOf(items, lowest) \in Nat
           /\ TokensOf(Append(items, item), lowest)
                = TokensOf(items, lowest) + IF item.priority >= lowest THEN item.tokens ELSE 0
<1> DEFINE n == Len(items)
           new == Append(items, item)
           k == IF item.priority >= lowest THEN item.tokens ELSE 0
           own == {n + 1} \X (1 .. k)
           before == Units(items, lowest)
           after == Units(new, lowest)
<1>1. n \in Nat /\ k \in Nat /\ item.tokens \in Nat
  BY LenProperties
<1>2. /\ new \in Seq(S) /\ Len(new) = n + 1 /\ new[n + 1] = item
      /\ \A i \in 1 .. n : new[i] = items[i]
  BY AppendProperties
<1>3. after = before \cup own
  <2> HIDE DEF new
  <2>1. \A i \in 1 .. n + 1 : i \in 1 .. n \/ i = n + 1
    BY <1>1
  <2>2. ASSUME NEW u \in after PROVE u \in before \cup own
    <3>1. u = <<u[1], u[2]>> /\ u[1] \in 1 .. n + 1 /\ u[2] \in Nat
          /\ new[u[1]].priority >= lowest /\ u[2] \in 1 .. new[u[1]].tokens
      BY <1>2 DEF Units
    <3>2. CASE u[1] \in 1 .. n
      BY <1>2, <3>1, <3>2 DEF Units
    <3>3. CASE u[1] = n + 1
      <4>1. item.priority >= lowest /\ u[2] \in 1 .. item.tokens
        BY <1>2, <3>1, <3>3
      <4>2. u[2] \in 1 .. k /\ u[1] \in {n + 1}
        BY <3>3, <4>1
      <4> HIDE DEF k, n
      <4>3. <<u[1], u[2]>> \in own
        BY <4>2
      <4> QED
        BY <3>1, <4>3
    <3> QED
      BY <2>1, <3>1, <3>2, <3>3
  <2>3. ASSUME NEW u \in before PROVE u \in after
    <3>1. u = <<u[1], u[2]>> /\ u[1] \in 1 .. n /\ u[2] \in Nat
          /\ items[u[1]].priority >= lowest /\ u[2] \in 1 .. items[u[1]].tokens
      BY DEF Units
    <3>2. u[1] \in 1 .. n + 1
      BY <1>1, <3>1
    <3>3. new[u[1]] = items[u[1]]
      BY <1>2, <3>1
    <3> QED
      BY <1>2, <3>1, <3>2, <3>3 DEF Units
  <2>4. ASSUME NEW u \in own PROVE u \in after
    <3>1. u = <<u[1], u[2]>> /\ u[1] = n + 1 /\ u[2] \in 1 .. k
      OBVIOUS
    <3>2. item.priority >= lowest /\ u[2] \in 1 .. item.tokens /\ u[2] \in Nat
      BY <1>1, <3>1
    <3>3. n + 1 \in 1 .. n + 1
      BY <1>1
    <3> QED
      BY <1>2, <3>1, <3>2, <3>3 DEF Units
  <2> HIDE DEF before, own, after
  <2> QED
    BY <2>2, <2>3, <2>4
<1>4. before \cap own = {}
  <2>1. n + 1 \notin 1 .. n
    BY <1>1
  <2>2. \A u \in before : u[1] \in 1 .. n
    BY DEF Units
  <2>3. \A u \in own : u[1] = n + 1
    OBVIOUS
  <2> HIDE DEF before, own
  <2> QED
    BY <2>1, <2>2, <2>3
<1>5. IsFiniteSet(before) /\ Cardinality(before) \in Nat
  BY UnitsFinite
<1>6. IsFiniteSet(own) /\ Cardinality(own) = k
  <2> HIDE DEF k, n
  <2>1. k \in Int /\ 1 \in Int /\ n + 1 \in Nat
    BY <1>1
  <2>5. /\ IsFiniteSet(1 .. k)
        /\ Cardinality(1 .. k) = IF 1 > k THEN 0 ELSE k - 1 + 1
    BY <2>1, FS_Interval
  <2>2. IsFiniteSet(1 .. k) /\ Cardinality(1 .. k) = k
    BY <1>1, <2>5
  <2>3. IsFiniteSet({n + 1}) /\ Cardinality({n + 1}) = 1
    BY FS_Singleton
  <2>4. IsFiniteSet(own) /\ Cardinality(own) = Cardinality({n + 1}) * Cardinality(1 .. k)
    BY <2>2, <2>3, FS_Product
  <2> HIDE DEF own
  <2> QED
    BY <1>1, <2>2, <2>3, <2>4
<1> HIDE DEF before, own, after, k
<1>7. Cardinality(after) = Cardinality(before) + k
  <2>1. Cardinality(before \cup own)
          = Cardinality(before) + Cardinality(own) - Cardinality(before \cap own)
    BY <1>5, <1>6, FS_Union
  <2>2. Cardinality({}) = 0
    BY FS_EmptySet
  <2>3. Cardinality(before \cap own) = 0
    BY <1>4, <2>2
  <2> QED
    BY <1>1, <1>3, <1>5, <1>6, <2>1, <2>3
<1>8. TokensOf(items, lowest) = Cardinality(before) /\ TokensOf(new, lowest) = Cardinality(after)
  BY <1>2, UnitsCounted DEF before, after
<1> QED
  BY <1>5, <1>7, <1>8 DEF k

LEMMA TokensOfAll ==
    ASSUME NEW S, \A item \in S : item.priority \in Nat /\ item.tokens \in Nat,
           NEW items \in Seq(S), NEW lowest \in Nat,
           \A i \in 1 .. Len(items) : items[i].priority >= lowest
    PROVE  TokensOf(items, lowest) = TokensOf(items, 0)
<1>1. \A i \in 1 .. Len(items) : items[i] \in S
  BY ElementOfSeq
<1>2. \A i \in 1 .. Len(items) : items[i].priority >= 0
  BY <1>1
<1>3. Units(items, lowest) = Units(items, 0)
  BY <1>2 DEF Units
<1> QED
  BY <1>3, UnitsCounted

(* What the truncation does with one item. *)
Taken(acc, item) ==
    IF acc.tokens + item.tokens > MaxTokens /\ ~IsSystem(item)
      THEN [acc EXCEPT !.dropped = Append(@, item)]
      ELSE [acc EXCEPT !.items = Append(@, item), !.tokens = @ + item.tokens]

(* Items that can be truncated: the core instruction, then others by       *)
(* falling priority.                                                       *)
Submittable(S, s) ==
    /\ s \in Seq(S)
    /\ \A item \in S : item.priority \in Nat /\ item.tokens \in Nat
    /\ \A k \in 1 .. Len(s) : IsSystem(s[k]) <=> k = 1
    /\ \A k, l \in 1 .. Len(s) : k < l => s[k].priority >= s[l].priority

(* What the first n items have become. *)
Fits(S, s, n, acc) ==
    /\ acc \in [items : Seq(S), dropped : Seq(S), tokens : Nat]
    /\ Len(acc.items) + Len(acc.dropped) = n
    /\ \A k \in 1 .. n :
         \/ \E i \in 1 .. Len(acc.items) : acc.items[i] = s[k]
         \/ \E i \in 1 .. Len(acc.dropped) : acc.dropped[i] = s[k]
    /\ \A i \in 1 .. Len(acc.items) : \E k \in 1 .. n : acc.items[i] = s[k]
    /\ \A i \in 1 .. Len(acc.dropped) : \E k \in 1 .. n : acc.dropped[i] = s[k]
    /\ n >= 1 => Len(acc.items) >= 1 /\ acc.items[1] = s[1]
    /\ acc.tokens = TokensOf(acc.items, 0)
    /\ acc.tokens <= MaxTokens \/ Len(acc.items) = 1
    /\ \A i \in 1 .. Len(acc.dropped) :
         TokensOf(acc.items, acc.dropped[i].priority) + acc.dropped[i].tokens > MaxTokens

LEMMA KeptFits ==
    ASSUME NEW S, NEW s, Submittable(S, s), NEW n \in 1 .. Len(s), NEW acc,
           Fits(S, s, n - 1, acc),
           ~(acc.tokens + s[n].tokens > MaxTokens /\ ~IsSystem(s[n]))
    PROVE  Fits(S, s, n, Taken(acc, s[n]))
<1> DEFINE item == s[n]
           new == Append(acc.items, item)
           m == Len(acc.items)
           after == [items |-> new, dropped |-> acc.dropped, tokens |-> acc.tokens + item.tokens]
<1>1. /\ acc \in [items : Seq(S), dropped : Seq(S), tokens : Nat]
      /\ s \in Seq(S) /\ Len(s) \in Nat /\ n \in Nat
      /\ \A any \in S : any.priority \in Nat /\ any.tokens \in Nat
  BY LenProperties DEF Fits, Submittable
<1>2. /\ item \in S /\ m \in Nat /\ Len(acc.dropped) \in Nat /\ acc.items \in Seq(S)
      /\ acc.tokens \in Nat /\ item.tokens \in Nat /\ item.priority \in Nat
      /\ MaxTokens \in Nat /\ acc.dropped \in Seq(S)
  BY <1>1, ElementOfSeq, LenProperties, BudgetAssumption
<1>3. Taken(acc, item) = after
  BY <1>1 DEF Taken
<1>4. /\ new \in Seq(S) /\ Len(new) = m + 1 /\ new[m + 1] = item
      /\ \A i \in 1 .. m : new[i] = acc.items[i]
  BY <1>2, AppendProperties
<1>5. \A lowest \in Nat :
        /\ TokensOf(acc.items, lowest) \in Nat /\ TokensOf(new, lowest) \in Nat
        /\ TokensOf(new, lowest) >= TokensOf(acc.items, lowest)
  <2> SUFFICES ASSUME NEW lowest \in Nat
               PROVE  /\ TokensOf(acc.items, lowest) \in Nat /\ TokensOf(new, lowest) \in Nat
                      /\ TokensOf(new, lowest) >= TokensOf(acc.items, lowest)
    OBVIOUS
  <2>1. /\ TokensOf(acc.items, lowest) \in Nat
        /\ TokensOf(new, lowest)
             = TokensOf(acc.items, lowest) + IF item.priority >= lowest THEN item.tokens ELSE 0
    BY <1>1, <1>2, TokensAppended
  <2> QED
    BY <1>2, <2>1
<1>6. TokensOf(new, 0) = TokensOf(acc.items, 0) + item.tokens
  <2>1. TokensOf(new, 0)
          = TokensOf(acc.items, 0) + IF item.priority >= 0 THEN item.tokens ELSE 0
    BY <1>1, <1>2, TokensAppended
  <2> QED
    BY <1>2, <2>1
<1> HIDE DEF new
<1>7. \A k \in 1 .. n : k \in 1 .. n - 1 \/ k = n
  BY <1>1
<1>8. /\ \A i \in 1 .. m + 1 : i \in 1 .. m \/ i = m + 1
      /\ m + 1 \in 1 .. m + 1 /\ \A i \in 1 .. m : i \in 1 .. m + 1
      /\ n \in 1 .. n /\ \A k \in 1 .. n - 1 : k \in 1 .. n
  BY <1>1, <1>2
<1>9. \A k \in 1 .. n :
         \/ \E i \in 1 .. m + 1 : new[i] = s[k]
         \/ \E i \in 1 .. Len(acc.dropped) : acc.dropped[i] = s[k]
  <2> SUFFICES ASSUME NEW k \in 1 .. n - 1
               PROVE  \/ \E i \in 1 .. m + 1 : new[i] = s[k]
                      \/ \E i \in 1 .. Len(acc.dropped) : acc.dropped[i] = s[k]
    BY <1>4, <1>7, <1>8
  <2>1. \/ \E i \in 1 .. m : acc.items[i] = s[k]
        \/ \E i \in 1 .. Len(acc.dropped) : acc.dropped[i] = s[k]
    BY DEF Fits
  <2> QED
    BY <1>4, <1>8, <2>1
<1>10. \A i \in 1 .. m + 1 : \E k \in 1 .. n : new[i] = s[k]
  <2>1. \A i \in 1 .. m : \E k \in 1 .. n - 1 : acc.items[i] = s[k]
    BY DEF Fits
  <2> QED
    BY <1>4, <1>8, <2>1
<1>11. \A i \in 1 .. Len(acc.dropped) : \E k \in 1 .. n : acc.dropped[i] = s[k]
  <2>1. \A i \in 1 .. Len(acc.dropped) : \E k \in 1 .. n - 1 : acc.dropped[i] = s[k]
    BY DEF Fits
  <2> QED
    BY <1>8, <2>1
<1>12. m + 1 >= 1 /\ new[1] = s[1]
  <2>1. CASE n = 1
    <3>1. m = 0
      BY <1>2, <2>1 DEF Fits
    <3> QED
      BY <1>4, <2>1, <3>1
  <2>2. CASE n # 1
    <3>1. n - 1 >= 1
      BY <1>1, <2>2
    <3>2. m >= 1 /\ acc.items[1] = s[1]
      BY <3>1 DEF Fits
    <3> QED
      BY <1>2, <1>4, <3>2
  <2> QED
    BY <2>1, <2>2
<1>13. acc.tokens + item.tokens <= MaxTokens \/ m + 1 = 1
  <2>1. CASE n = 1
    BY <1>2, <2>1 DEF Fits
  <2>2. CASE n # 1
    <3>1. ~IsSystem(item)
      BY <2>2 DEF Submittable
    <3> QED
      BY <1>2, <3>1
  <2> QED
    BY <2>1, <2>2
<1>14. \A i \in 1 .. Len(acc.dropped) :
         TokensOf(new, acc.dropped[i].priority) + acc.dropped[i].tokens > MaxTokens
  <2> SUFFICES ASSUME NEW i \in 1 .. Len(acc.dropped)
               PROVE  TokensOf(new, acc.dropped[i].priority) + acc.dropped[i].tokens > MaxTokens
    OBVIOUS
  <2>1. acc.dropped[i] \in S
    BY <1>2, ElementOfSeq
  <2>2. acc.dropped[i].priority \in Nat /\ acc.dropped[i].tokens \in Nat
    BY <1>1, <2>1
  <2>3. TokensOf(acc.items, acc.dropped[i].priority) + acc.dropped[i].tokens > MaxTokens
    BY DEF Fits
  <2> DEFINE lowest == acc.dropped[i].priority
  <2>4. /\ TokensOf(acc.items, lowest) \in Nat /\ TokensOf(new, lowest) \in Nat
        /\ TokensOf(new, lowest) >= TokensOf(acc.items, lowest)
    <3> HIDE DEF lowest
    <3> QED
      BY <1>5, <2>2 DEF lowest
  <2> QED
    BY <1>2, <2>2, <2>3, <2>4
<1>15. acc.tokens = TokensOf(acc.items, 0) /\ m + Len(acc.dropped) = n - 1
  BY DEF Fits
<1>16. /\ after \in [items : Seq(S), dropped : Seq(S), tokens : Nat]
       /\ after.items = new /\ after.dropped = acc.dropped
       /\ after.tokens = acc.tokens + item.tokens
  BY <1>2, <1>4
<1> HIDE DEF after, item
<1>17. /\ Len(after.items) + Len(after.dropped) = n
       /\ after.tokens = TokensOf(after.items, 0)
       /\ after.tokens <= MaxTokens \/ Len(after.items) = 1
  <2>1. Len(after.items) + Len(after.dropped) = n
    <3>1. Len(after.items) = m + 1 /\ Len(after.dropped) = Len(acc.dropped)
      BY <1>4, <1>16
    <3>2. m \in Nat /\ n \in Nat /\ Len(acc.dropped) \in Nat /\ m + Len(acc.dropped) = n - 1
      BY <1>1, <1>2, <1>15
    <3> DEFINE a == Len(after.items)
               b == Len(after.dropped)
               d == Len(acc.dropped)
    <3>3. a = m + 1 /\ b = d /\ m \in Nat /\ n \in Nat /\ d \in Nat /\ m + d = n - 1
      BY <3>1, <3>2
    <3> HIDE DEF a, b, d, m
    <3>4. a + b = n
      BY <3>3
    <3> QED
      BY <3>4 DEF a, b
  <2>2. after.tokens = TokensOf(after.items, 0)
    BY <1>6, <1>15, <1>16
  <2>3. after.tokens <= MaxTokens \/ Len(after.items) = 1
    BY <1>4, <1>13, <1>16
  <2> QED
    BY <2>1, <2>2, <2>3
<1>18. /\ n >= 1 => Len(after.items) >= 1 /\ after.items[1] = s[1]
       /\ Len(after.items) = m + 1 /\ after.items = new /\ after.dropped = acc.dropped
  BY <1>4, <1>12, <1>16
<1>19. Fits(S, s, n, after)
  BY <1>9, <1>10, <1>11, <1>14, <1>16, <1>17, <1>18 DEF Fits
<1> QED
  BY <1>3, <1>19 DEF item

LEMMA DroppedFits ==
    ASSUME NEW S, NEW s, Submittable(S, s), NEW n \in 1 .. Len(s), NEW acc,
           Fits(S, s, n - 1, acc),
           acc.tokens + s[n].tokens > MaxTokens /\ ~IsSystem(s[n])
    PROVE  Fits(S, s, n, Taken(acc, s[n]))
<1> DEFINE item == s[n]
           new == Append(acc.dropped, item)
           m == Len(acc.dropped)
           after == [items |-> acc.items, dropped |-> new, tokens |-> acc.tokens]
<1>1. /\ acc \in [items : Seq(S), dropped : Seq(S), tokens : Nat]
      /\ s \in Seq(S) /\ Len(s) \in Nat /\ n \in Nat
      /\ \A any \in S : any.priority \in Nat /\ any.tokens \in Nat
  BY LenProperties DEF Fits, Submittable
<1>2. /\ item \in S /\ m \in Nat /\ Len(acc.items) \in Nat /\ acc.items \in Seq(S)
      /\ acc.tokens \in Nat /\ item.tokens \in Nat /\ item.priority \in Nat
      /\ acc.dropped \in Seq(S)
  BY <1>1, ElementOfSeq, LenProperties
<1>3. Taken(acc, item) = after
  BY <1>1 DEF Taken
<1>4. /\ new \in Seq(S) /\ Len(new) = m + 1 /\ new[m + 1] = item
      /\ \A i \in 1 .. m : new[i] = acc.dropped[i]
  BY <1>2, AppendProperties
<1> HIDE DEF new
<1>5. n # 1
  BY DEF Submittable
<1>6. \A k \in 1 .. n : k \in 1 .. n - 1 \/ k = n
  BY <1>1
<1>7. /\ \A i \in 1 .. m + 1 : i \in 1 .. m \/ i = m + 1
      /\ m + 1 \in 1 .. m + 1 /\ \A i \in 1 .. m : i \in 1 .. m + 1
      /\ n \in 1 .. n /\ \A k \in 1 .. n - 1 : k \in 1 .. n
  <2> m \in Nat /\ n \in Nat
    BY <1>1, <1>2
  <2> HIDE DEF m
  <2> QED
    OBVIOUS
<1>8. \A k \in 1 .. n :
         \/ \E i \in 1 .. Len(acc.items) : acc.items[i] = s[k]
         \/ \E i \in 1 .. m + 1 : new[i] = s[k]
  <2> SUFFICES ASSUME NEW k \in 1 .. n - 1
               PROVE  \/ \E i \in 1 .. Len(acc.items) : acc.items[i] = s[k]
                      \/ \E i \in 1 .. m + 1 : new[i] = s[k]
    BY <1>4, <1>6, <1>7
  <2>1. \/ \E i \in 1 .. Len(acc.items) : acc.items[i] = s[k]
        \/ \E i \in 1 .. m : acc.dropped[i] = s[k]
    BY DEF Fits
  <2> QED
    BY <1>4, <1>7, <2>1
<1>9. \A i \in 1 .. m + 1 : \E k \in 1 .. n : new[i] = s[k]
  <2>1. \A i \in 1 .. m : \E k \in 1 .. n - 1 : acc.dropped[i] = s[k]
    BY DEF Fits
  <2> QED
    BY <1>4, <1>7, <2>1
<1>10. \A i \in 1 .. Len(acc.items) : \E k \in 1 .. n : acc.items[i] = s[k]
  <2>1. \A i \in 1 .. Len(acc.items) : \E k \in 1 .. n - 1 : acc.items[i] = s[k]
    BY DEF Fits
  <2> QED
    BY <1>7, <2>1
<1>11. Len(acc.items) >= 1 /\ acc.items[1] = s[1]
  <2>1. n - 1 >= 1
    BY <1>1, <1>5
  <2> QED
    BY <2>1 DEF Fits
<1>12. TokensOf(acc.items, item.priority) = TokensOf(acc.items, 0)
  <2>1. ASSUME NEW i \in 1 .. Len(acc.items)
        PROVE  acc.items[i].priority >= item.priority
    <3>1. PICK k \in 1 .. n - 1 : acc.items[i] = s[k]
      BY DEF Fits
    <3>2. k \in 1 .. Len(s) /\ k < n
      BY <1>1
    <3> QED
      BY <3>1, <3>2 DEF Submittable
  <2> QED
    BY <1>1, <1>2, <2>1, TokensOfAll
<1>13. acc.tokens = TokensOf(acc.items, 0) /\ Len(acc.items) + m = n - 1
       /\ (acc.tokens <= MaxTokens \/ Len(acc.items) = 1)
  BY DEF Fits
<1>14. \A i \in 1 .. m + 1 :
         TokensOf(acc.items, new[i].priority) + new[i].tokens > MaxTokens
  <2> SUFFICES ASSUME NEW i \in 1 .. m
               PROVE  TokensOf(acc.items, new[i].priority) + new[i].tokens > MaxTokens
    BY <1>4, <1>7, <1>12, <1>13
  <2>1. TokensOf(acc.items, acc.dropped[i].priority) + acc.dropped[i].tokens > MaxTokens
    BY DEF Fits
  <2> QED
    BY <1>4, <2>1
<1>15. /\ after \in [items : Seq(S), dropped : Seq(S), tokens : Nat]
       /\ after.items = acc.items /\ after.dropped = new /\ after.tokens = acc.tokens
  BY <1>2, <1>4
<1> HIDE DEF after, item
<1>16. Len(after.items) + Len(after.dropped) = n /\ Len(after.dropped) = m + 1
  BY <1>1, <1>2, <1>4, <1>13, <1>15
<1>17. Fits(S, s, n, after)
  BY <1>8, <1>9, <1>10, <1>11, <1>13, <1>14, <1>15, <1>16 DEF Fits
<1> QED
  BY <1>3, <1>17 DEF item

LEMMA NothingFits ==
    ASSUME NEW S, NEW s, Submittable(S, s)
    PROVE  Fits(S, s, 0, NothingFit)
<1>1. NothingFit \in [items : Seq(S), dropped : Seq(S), tokens : Nat]
  BY DEF NothingFit
<1>2. Units(<< >>, 0) = {}
  BY DEF Units
<1>3. TokensOf(<< >>, 0) = 0
  <2>2. << >> \in Seq(S) /\ \A item \in S : item.tokens \in Nat
    BY DEF Submittable
  <2>1. TokensOf(<< >>, 0) = Cardinality(Units(<< >>, 0))
    BY <2>2, UnitsCounted
  <2> QED
    BY <1>2, <2>1, FS_EmptySet
<1>4. 0 <= MaxTokens
  BY BudgetAssumption
<1>5. /\ NothingFit.items = << >> /\ NothingFit.dropped = << >> /\ NothingFit.tokens = 0
      /\ Len(<< >>) = 0
  BY DEF NothingFit
<1> HIDE DEF NothingFit
<1> QED
  BY <1>1, <1>3, <1>4, <1>5 DEF Fits

LEMMA WithinBudgetFits ==
    ASSUME NEW S, NEW s, Submittable(S, s)
    PROVE  Fits(S, s, Len(s), WithinBudget(s))
<1> DEFINE N == Len(s)
           A == [items : Seq(S), dropped : Seq(S), tokens : Nat]
           step == [x \in A \X (1 .. N) |-> Taken(x[1], s[x[2]])]
           fit == CHOOSE g : g = [n \in 0 .. N |->
                    IF n = 0 THEN NothingFit ELSE Taken(g[n - 1], s[n])]
           T == {n \in 0 .. N : Fits(S, s, n, fit[n])}
<1>1. N \in Nat /\ NothingFit \in A
      /\ \A k \in 1 .. N : s[k] \in S /\ s[k].tokens \in Nat
  BY LenProperties, ElementOfSeq DEF Submittable, NothingFit
<1>2. step \in [A \X (1 .. N) -> A]
  <2>1. ASSUME NEW acc \in A, NEW k \in 1 .. N PROVE Taken(acc, s[k]) \in A
    <3> DEFINE item == s[k]
    <3>1. item \in S /\ item.tokens \in Nat
      BY <1>1
    <3> HIDE DEF item
    <3>2. /\ Append(acc.items, item) \in Seq(S) /\ Append(acc.dropped, item) \in Seq(S)
          /\ acc.tokens + item.tokens \in Nat
      BY <3>1, AppendProperties
    <3>3. Taken(acc, item) \in A
      BY <3>2 DEF Taken
    <3> QED
      BY <3>3 DEF item
  <2> HIDE DEF A
  <2> QED
    BY <2>1
<1>3. \A acc \in A, k \in 1 .. N : step[<<acc, k>>] = Taken(acc, s[k])
  <2> HIDE DEF A
  <2> QED
    OBVIOUS
<1> HIDE DEF step, A, N
<1>4. PICK f \in [0 .. N -> A] :
        f[0] = NothingFit /\ \A n \in 1 .. N : f[n] = step[<<f[n - 1], n>>]
  <2>1. Recursive(N, A, NothingFit, step)
    BY <1>1, <1>2, Recursion
  <2> QED
    BY <2>1 DEF Recursive
<1>5. \A n \in 0 .. N : n # 0 => n \in 1 .. N /\ n - 1 \in 0 .. N
  BY <1>1
<1>6. f = [n \in 0 .. N |-> IF n = 0 THEN NothingFit ELSE Taken(f[n - 1], s[n])]
  <2>1. \A n \in 0 .. N : f[n] = IF n = 0 THEN NothingFit ELSE Taken(f[n - 1], s[n])
    BY <1>3, <1>4, <1>5
  <2> QED
    BY <1>4, <2>1
<1>7. fit = [n \in 0 .. N |-> IF n = 0 THEN NothingFit ELSE Taken(fit[n - 1], s[n])]
  BY <1>6
<1>8. WithinBudget(s) = fit[N]
  BY DEF WithinBudget, Taken, N
<1> HIDE DEF fit
<1>9. fit[0] = NothingFit /\ \A n \in 1 .. N : fit[n] = Taken(fit[n - 1], s[n])
  BY <1>1, <1>5, <1>7
<1>10. 0 \in T
  BY <1>1, <1>9, NothingFits
<1>11. \A n \in 1 .. N : n - 1 \in T => n \in T
  <2> SUFFICES ASSUME NEW n \in 1 .. N, Fits(S, s, n - 1, fit[n - 1])
               PROVE  Fits(S, s, n, fit[n])
    BY <1>1
  <2>1. Fits(S, s, n, Taken(fit[n - 1], s[n]))
    BY KeptFits, DroppedFits DEF N
  <2> QED
    BY <1>9, <2>1
<1> HIDE DEF T
<1>12. N \in T
  <2>1. \A n \in 0 .. N : n \in T
    BY <1>1, <1>10, <1>11, UpTo
  <2> QED
    BY <1>1, <2>1
<1> QED
  BY <1>8, <1>12 DEF T, N

(* Items as a run submits them: the core instruction alone has a system    *)
(* priority, and its text.                                                 *)
Items(S, core) ==
    /\ \A item \in S : item.priority \in Nat /\ item.tokens \in Nat
    /\ core \in S
    /\ IsSystem(core)
    /\ \A item \in S : IsSystem(item) \/ item.text = core.text => item = core

(* Some of them, with different texts and with the core instruction.       *)
Chosen(S, core, items) ==
    /\ items \in Seq(S)
    /\ Distinct(items)
    /\ \E i \in 1 .. Len(items) : items[i] = core

LEMMA ByPriorityKeeps ==
    ASSUME NEW S, NEW core, Items(S, core), NEW items, Chosen(S, core, items)
    PROVE  /\ Submittable(S, ByPriority(items)) /\ Chosen(S, core, ByPriority(items))
           /\ Len(ByPriority(items)) = Len(items) /\ ByPriority(items)[1] = core
<1> DEFINE n == Len(items)
           key == [i \in 1 .. n |-> items[i].priority]
           s == ByPriority(items)
<1>1. /\ n \in Nat /\ DOMAIN items = 1 .. n /\ items \in Seq(S)
      /\ \A i \in 1 .. n : items[i] \in S /\ items[i].priority \in Nat
      /\ \A item \in S : item.priority \in Nat /\ item.tokens \in Nat
  BY LenProperties, ElementOfSeq DEF Chosen, Items
<1>2. key \in [1 .. n -> Int] /\ \A i \in 1 .. n : key[i] = items[i].priority
  BY <1>1
<1>3. s = HighestFirst(items, key)
  BY <1>1 DEF ByPriority
<1> HIDE DEF key, s
<1>4. s \in Seq(S) /\ Permutes(items, s) /\ FallingKeys(items, key, s)
  BY <1>1, <1>2, <1>3, SortedPermutes
<1>5. Len(s) = n
  BY <1>4 DEF Permutes
<1>6. \A p, q \in 1 .. n : p < q => s[p].priority >= s[q].priority
  <2> SUFFICES ASSUME NEW p \in 1 .. n, NEW q \in 1 .. n, p < q
               PROVE  s[p].priority >= s[q].priority
    OBVIOUS
  <2>1. PICK i \in 1 .. n, j \in 1 .. n :
           s[p] = items[i] /\ s[q] = items[j] /\ key[i] >= key[j]
    BY <1>4 DEF FallingKeys
  <2> QED
    BY <1>2, <2>1
<1>7. /\ Distinct(s)
      /\ \A i \in 1 .. n : \E p \in 1 .. Len(s) : s[p] = items[i]
  <2>1. Distinct(items)
    BY DEF Chosen
  <2> QED
    BY <1>1, <1>4, <2>1, PermutedItems
<1>8. PICK at \in 1 .. n : s[at] = core
  BY <1>5, <1>7 DEF Chosen
<1>9. \A k \in 1 .. n : s[k] \in S /\ s[k].priority \in Nat
  BY <1>1, <1>4, <1>5, ElementOfSeq
<1>10. \A k \in 1 .. n : IsSystem(s[k]) => k = at
  <2> SUFFICES ASSUME NEW k \in 1 .. n, IsSystem(s[k]) PROVE k = at
    OBVIOUS
  <2>1. s[k] = core
    BY <1>9 DEF Items
  <2> QED
    BY <1>5, <1>7, <1>8, <2>1 DEF Distinct
<1>11. at = 1
  <2> SUFFICES ASSUME 1 < at PROVE FALSE
    BY <1>8
  <2>1. 1 \in 1 .. n
    BY <1>1
  <2>2. s[1].priority >= core.priority
    BY <1>6, <1>8, <2>1
  <2>3. core.priority \in Nat /\ core.priority >= 100
    BY DEF Items, IsSystem
  <2>4. IsSystem(s[1])
    BY <1>9, <2>1, <2>2, <2>3 DEF IsSystem
  <2> QED
    BY <1>10, <2>1, <2>4
<1>12. \A k \in 1 .. n : IsSystem(s[k]) <=> k = 1
  BY <1>8, <1>10, <1>11 DEF Items
<1>13. Submittable(S, s)
  BY <1>1, <1>4, <1>5, <1>6, <1>12 DEF Submittable
<1>14. Chosen(S, core, s)
  BY <1>4, <1>5, <1>7, <1>8 DEF Chosen
<1> QED
  BY <1>5, <1>8, <1>11, <1>13, <1>14 DEF s

LEMMA PrunedKeeps ==
    ASSUME NEW S, NEW core, Items(S, core), NEW items, Chosen(S, core, items)
    PROVE  Chosen(S, core, Pruned(items))
<1> DEFINE s == ByPriority(items)
           system == {i \in DOMAIN items : IsSystem(items[i])}
           cut == SubSeq(s, 1, MaxItems)
<1>1. /\ Chosen(S, core, s) /\ Len(s) = Len(items) /\ s[1] = core
  BY ByPriorityKeeps
<1>2. /\ Len(items) \in Nat /\ DOMAIN items = 1 .. Len(items) /\ MaxItems \in Nat
  BY LenProperties, BudgetAssumption DEF Chosen
<1>3. CASE Len(items) <= MaxItems
  BY <1>3 DEF Pruned
<1>4. CASE ~(Len(items) <= MaxItems) /\ ~(Cardinality(system) < MaxItems)
  BY <1>1, <1>4 DEF Pruned
<1>5. CASE ~(Len(items) <= MaxItems) /\ Cardinality(system) < MaxItems
  <2>1. MaxItems >= 1
    <3>1. IsFiniteSet(1 .. Len(items)) /\ system \subseteq 1 .. Len(items)
      BY <1>2, FS_Interval
    <3> HIDE DEF system
    <3>2. Cardinality(system) \in Nat
      BY <3>1, FS_Subset, FS_CardinalityType
    <3> QED
      BY <1>2, <1>5, <3>2
  <2>2. Pruned(items) = cut
    BY <1>5 DEF Pruned
  <2> HIDE DEF s
  <2>3. \A i \in 1 .. MaxItems : i \in 1 .. Len(s) /\ s[i] \in S
    BY <1>1, <1>2, <1>5, ElementOfSeq DEF Chosen
  <2>4. /\ cut \in Seq(S)
        /\ Len(cut) = IF 1 <= MaxItems THEN MaxItems - 1 + 1 ELSE 0
        /\ \A i \in 1 .. MaxItems - 1 + 1 : cut[i] = s[1 + i - 1]
    BY <1>2, <2>3, SubSeqProperties
  <2> HIDE DEF cut
  <2>5. Len(cut) = MaxItems /\ \A i \in 1 .. MaxItems : cut[i] = s[i]
    BY <1>2, <2>1, <2>4
  <2>6. Distinct(cut)
    BY <1>1, <2>3, <2>5 DEF Distinct, Chosen
  <2>7. 1 \in 1 .. Len(cut) /\ cut[1] = core
    BY <1>1, <1>2, <2>1, <2>5
  <2> QED
    BY <2>2, <2>4, <2>6, <2>7 DEF Chosen
<1> QED
  BY <1>3, <1>4, <1>5

LEMMA ReorderedKeeps ==
    ASSUME NEW S, NEW core, Items(S, core), NEW items \in Seq(S),
           NEW at \in 1 .. Len(items), items[at] = core
    PROVE  /\ Reordered(items) \in Seq(S) /\ Permutes(items, Reordered(items))
           /\ Reordered(items)[1] = core
<1> DEFINE n == Len(items)
           rest == {i \in DOMAIN items : ~IsSystem(items[i]) /\ ~IsUser(items[i])}
           passedOver(i) == Cardinality({j \in rest : j < i}) % 2 = 1
           key == [i \in 1 .. n |-> IF IsSystem(items[i]) THEN 3
                                    ELSE IF IsUser(items[i]) THEN 2
                                    ELSE IF passedOver(i) THEN 0 ELSE 1]
           t == Reordered(items)
<1>1. n \in Nat /\ DOMAIN items = 1 .. n /\ \A i \in 1 .. n : items[i] \in S
  BY LenProperties, ElementOfSeq
<1> HIDE DEF passedOver
<1>2. /\ key \in [1 .. n -> Int]
      /\ \A i \in 1 .. n : key[i] >= 3 => IsSystem(items[i])
      /\ \A i \in 1 .. n : IsSystem(items[i]) => key[i] = 3
  OBVIOUS
<1>3. t = HighestFirst(items, key)
  BY <1>1 DEF Reordered, passedOver
<1> HIDE DEF key, t
<1>4. t \in Seq(S) /\ Permutes(items, t) /\ FallingKeys(items, key, t)
  BY <1>2, <1>3, SortedPermutes
<1>5. PICK p \in 1 .. n : t[p] = core
  <2>1. PICK p \in 1 .. Len(t) : t[p] = core
    BY <1>4, PermutedItems
  <2>2. Len(t) = n
    BY <1>4 DEF Permutes
  <2> QED
    BY <2>1, <2>2
<1>6. CASE 1 < p
  <2>1. 1 \in 1 .. n
    BY <1>1
  <2>2. PICK i \in 1 .. n, j \in 1 .. n :
           t[1] = items[i] /\ t[p] = items[j] /\ key[i] >= key[j]
    BY <1>4, <1>6, <2>1 DEF FallingKeys
  <2>3. key[j] = 3
    BY <1>2, <1>5, <2>2 DEF Items
  <2>4. items[i] = core
    BY <1>1, <1>2, <2>2, <2>3 DEF Items
  <2> QED
    BY <1>4, <2>2, <2>4 DEF t
<1>7. CASE ~(1 < p)
  <2>1. p = 1
    BY <1>7
  <2> QED
    BY <1>4, <1>5, <2>1 DEF t
<1> QED
  BY <1>6, <1>7

(* A sequence of distinct items is split in two if both together hold them *)
(* all and have as many places.                                            *)
LEMMA SplitHasAll ==
    ASSUME NEW S, NEW s \in Seq(S), Distinct(s), NEW a \in Seq(S), NEW b \in Seq(S),
           \A k \in 1 .. Len(s) : \/ \E i \in 1 .. Len(a) : a[i] = s[k]
                                  \/ \E i \in 1 .. Len(b) : b[i] = s[k],
           \A i \in 1 .. Len(a) : \E k \in 1 .. Len(s) : a[i] = s[k],
           \A i \in 1 .. Len(b) : \E k \in 1 .. Len(s) : b[i] = s[k]
    PROVE  Cardinality(ToSet(a \o b)) = Len(s)
<1> DEFINE n == Len(s)
           c == a \o b
           all == ToSet(c)
           at == [k \in 1 .. n |-> s[k]]
<1>1. n \in Nat /\ Len(a) \in Nat /\ Len(b) \in Nat /\ DOMAIN s = 1 .. n
  BY LenProperties
<1>2. /\ c \in Seq(S) /\ Len(c) = Len(a) + Len(b)
      /\ \A i \in 1 .. Len(a) : c[i] = a[i]
      /\ \A i \in 1 .. Len(b) : c[Len(a) + i] = b[i]
  BY ConcatProperties
<1> HIDE DEF c
<1>3. DOMAIN c = 1 .. Len(a) + Len(b)
  BY <1>2, LenProperties
<1>4. \A x : x \in all <=> \E i \in 1 .. Len(a) + Len(b) : x = c[i]
  BY <1>3 DEF ToSet
<1> HIDE DEF all
<1>5. \A k \in 1 .. n : s[k] \in all
  <2> SUFFICES ASSUME NEW k \in 1 .. n PROVE s[k] \in all
    OBVIOUS
  <2>1. CASE \E i \in 1 .. Len(a) : a[i] = s[k]
    <3>1. PICK i \in 1 .. Len(a) : a[i] = s[k]
      BY <2>1
    <3>2. i \in 1 .. Len(a) + Len(b) /\ c[i] = s[k]
      BY <1>1, <1>2, <3>1
    <3> QED
      BY <1>4, <3>2
  <2>2. CASE \E i \in 1 .. Len(b) : b[i] = s[k]
    <3>1. PICK i \in 1 .. Len(b) : b[i] = s[k]
      BY <2>2
    <3>2. Len(a) + i \in 1 .. Len(a) + Len(b) /\ c[Len(a) + i] = s[k]
      BY <1>1, <1>2, <3>1
    <3> QED
      BY <1>4, <3>2
  <2> QED
    BY <2>1, <2>2
<1>6. ASSUME NEW x \in all PROVE \E k \in 1 .. n : s[k] = x
  <2>1. PICK i \in 1 .. Len(a) + Len(b) : x = c[i]
    BY <1>4
  <2>2. CASE i \in 1 .. Len(a)
    BY <1>2, <2>1, <2>2
  <2>3. CASE i \notin 1 .. Len(a)
    <3>1. i - Len(a) \in 1 .. Len(b) /\ Len(a) + (i - Len(a)) = i
      BY <1>1, <2>3
    <3>2. c[i] = b[i - Len(a)]
      BY <1>2, <3>1
    <3> QED
      BY <2>1, <3>1, <3>2
  <2> QED
    BY <2>2, <2>3
<1>7. \A k, l \in 1 .. n : at[k] = at[l] => k = l
  BY DEF Distinct
<1>8. at \in Bijection(1 .. n, all)
  <2>1. at \in [1 .. n -> all]
    BY <1>5
  <2>2. \A x \in all : \E k \in 1 .. n : at[k] = x
    BY <1>6
  <2> HIDE DEF at
  <2> QED
    BY <1>7, <2>1, <2>2 DEF Bijection, Injection, Surjection, IsInjective
<1>9. IsFiniteSet(1 .. n) /\ Cardinality(1 .. n) = n
  <2> HIDE DEF n
  <2> QED
    BY <1>1, FS_Interval
<1>10. ExistsBijection(1 .. n, all)
  BY <1>8 DEF ExistsBijection
<1>11. Cardinality(all) = n
  <2> HIDE DEF n
  <2> QED
    BY <1>9, <1>10, FS_Bijection
<1> QED
  BY <1>11 DEF all, c

(* The promise of the assembler for the items it is given. *)
Sound(core, raw, bundle) ==
    /\ bundle.items[1] = core
    /\ TokensOf(bundle.items, 0) <= MaxTokens \/ bundle.items = <<core>>
    /\ Cardinality(ToSet(bundle.items \o bundle.dropped))
         = Len(bundle.items) + Len(bundle.dropped)
    /\ Len(bundle.items) + Len(bundle.dropped) + bundle.pruned + bundle.duplicates = Len(raw)
    /\ \A i \in DOMAIN bundle.dropped :
         TokensOf(bundle.items, bundle.dropped[i].priority) + bundle.dropped[i].tokens
           > MaxTokens

LEMMA AssembledIsSound ==
    ASSUME NEW S, NEW core, Items(S, core), NEW raw \in Seq(S),
           \E k \in 1 .. Len(raw) : raw[k] = core
    PROVE  Sound(core, raw, Assembled(raw))
<1> DEFINE unique == Deduplicated(raw)
           pruned == Pruned(unique)
           s == ByPriority(pruned)
           fit == WithinBudget(s)
           items == IF Len(fit.items) > ReorderAbove THEN Reordered(fit.items) ELSE fit.items
           dropped == fit.dropped
           bundle == Assembled(raw)
<1>1. /\ bundle.items = items /\ bundle.dropped = dropped
      /\ bundle.pruned = Len(unique) - Len(pruned)
      /\ bundle.duplicates = Len(raw) - Len(unique)
  BY DEF Assembled
<1>2. Chosen(S, core, unique)
  <2>1. Kept(S, raw, Len(raw), unique)
    BY DeduplicatedKeeps
  <2> HIDE DEF unique
  <2>2. PICK k \in 1 .. Len(raw) : raw[k] = core
    OBVIOUS
  <2>3. PICK i \in 1 .. Len(unique) : unique[i].text = core.text
    BY <2>1, <2>2 DEF Kept
  <2>4. unique[i] \in S
    BY <2>1, ElementOfSeq DEF Kept
  <2>5. unique[i] = core
    BY <2>3, <2>4 DEF Items
  <2> QED
    BY <2>1, <2>5 DEF Kept, Chosen
<1> HIDE DEF unique, bundle
<1>3. Chosen(S, core, pruned)
  BY <1>2, PrunedKeeps
<1> HIDE DEF pruned
<1>4. Submittable(S, s) /\ Chosen(S, core, s) /\ Len(s) = Len(pruned) /\ s[1] = core
  BY <1>3, ByPriorityKeeps
<1> HIDE DEF s
<1>5. Fits(S, s, Len(s), fit)
  BY <1>4, WithinBudgetFits
<1> HIDE DEF fit
<1>6. /\ fit.items \in Seq(S) /\ dropped \in Seq(S)
      /\ Len(fit.items) \in Nat /\ Len(dropped) \in Nat
      /\ Len(fit.items) + Len(dropped) = Len(s)
  BY <1>5, LenProperties DEF Fits
<1>7. Len(s) \in Nat /\ Len(s) >= 1 /\ s \in Seq(S) /\ Distinct(s)
  BY <1>4, LenProperties DEF Chosen
<1>8. Len(fit.items) >= 1 /\ fit.items[1] = core
  BY <1>4, <1>5, <1>7 DEF Fits
<1>9. /\ items \in Seq(S) /\ Len(items) = Len(fit.items) /\ items[1] = core
      /\ \A lowest : TokensOf(items, lowest) = TokensOf(fit.items, lowest)
      /\ \A i \in 1 .. Len(fit.items) : \E p \in 1 .. Len(items) : items[p] = fit.items[i]
      /\ \A p \in 1 .. Len(items) : \E i \in 1 .. Len(fit.items) : items[p] = fit.items[i]
  <2>1. CASE Len(fit.items) > ReorderAbove
    <3> DEFINE t == Reordered(fit.items)
    <3>1. items = t
      BY <2>1
    <3>2. 1 \in 1 .. Len(fit.items)
      BY <1>6, <1>8
    <3>3. t \in Seq(S) /\ Permutes(fit.items, t) /\ t[1] = core
      BY <1>6, <1>8, <3>2, ReorderedKeeps
    <3> HIDE DEF t, items
    <3>4. Len(t) = Len(fit.items)
      BY <3>3 DEF Permutes
    <3>5. /\ \A i \in 1 .. Len(fit.items) : \E p \in 1 .. Len(t) : t[p] = fit.items[i]
          /\ \A p \in 1 .. Len(t) : \E i \in 1 .. Len(fit.items) : t[p] = fit.items[i]
      <4> DEFINE kept == fit.items
      <4>1. kept \in Seq(S) /\ t \in Seq(S) /\ Permutes(kept, t)
        BY <1>6, <3>3
      <4> HIDE DEF kept
      <4>2. /\ \A i \in 1 .. Len(kept) : \E p \in 1 .. Len(t) : t[p] = kept[i]
            /\ \A p \in 1 .. Len(t) : \E i \in 1 .. Len(kept) : t[p] = kept[i]
        BY <4>1, PermutedItems
      <4> QED
        BY <4>2 DEF kept
    <3>6. \A lowest : TokensOf(t, lowest) = TokensOf(fit.items, lowest)
      <4> TAKE lowest
      <4>1. \A item \in S : item.priority \in Nat /\ item.tokens \in Nat
        BY DEF Items
      <4> QED
        BY <1>6, <3>3, <4>1, PermutedTokens
    <3> QED
      BY <3>1, <3>3, <3>4, <3>5, <3>6
  <2>2. CASE ~(Len(fit.items) > ReorderAbove)
    <3>1. items = fit.items
      BY <2>2
    <3> HIDE DEF items
    <3> QED
      BY <1>6, <1>8, <3>1
  <2> QED
    BY <2>1, <2>2
<1> HIDE DEF items, dropped
<1>10. TokensOf(items, 0) <= MaxTokens \/ items = <<core>>
  <2>1. fit.tokens = TokensOf(fit.items, 0) /\ (fit.tokens <= MaxTokens \/ Len(fit.items) = 1)
    BY <1>5 DEF Fits
  <2>2. CASE fit.tokens <= MaxTokens
    BY <1>9, <2>1, <2>2
  <2>3. CASE Len(fit.items) = 1
    <3>1. Len(items) = 1 /\ items[1] = core /\ core \in S
      BY <1>9, <2>3 DEF Items
    <3>2. items = <<core>>
      BY <1>9, <3>1, SeqEqual
    <3> QED
      BY <3>2
  <2> QED
    BY <2>1, <2>2, <2>3
<1>11. Cardinality(ToSet(items \o dropped)) = Len(s)
  <2>1. \A k \in 1 .. Len(s) : \/ \E p \in 1 .. Len(items) : items[p] = s[k]
                               \/ \E i \in 1 .. Len(dropped) : dropped[i] = s[k]
    <3> SUFFICES ASSUME NEW k \in 1 .. Len(s)
                 PROVE  \/ \E p \in 1 .. Len(items) : items[p] = s[k]
                        \/ \E i \in 1 .. Len(dropped) : dropped[i] = s[k]
      OBVIOUS
    <3>1. \/ \E i \in 1 .. Len(fit.items) : fit.items[i] = s[k]
          \/ \E i \in 1 .. Len(dropped) : dropped[i] = s[k]
      BY <1>5 DEF Fits, dropped
    <3> QED
      BY <1>9, <3>1
  <2>2. \A p \in 1 .. Len(items) : \E k \in 1 .. Len(s) : items[p] = s[k]
    <3> TAKE p \in 1 .. Len(items)
    <3>1. PICK i \in 1 .. Len(fit.items) : items[p] = fit.items[i]
      BY <1>9
    <3>2. PICK k \in 1 .. Len(s) : fit.items[i] = s[k]
      BY <1>5 DEF Fits
    <3> QED
      BY <3>1, <3>2
  <2>3. \A i \in 1 .. Len(dropped) : \E k \in 1 .. Len(s) : dropped[i] = s[k]
    BY <1>5 DEF Fits, dropped
  <2>4. s \in Seq(S) /\ Distinct(s) /\ items \in Seq(S) /\ dropped \in Seq(S)
    BY <1>6, <1>7, <1>9
  <2> QED
    BY <2>1, <2>2, <2>3, <2>4, SplitHasAll
<1>12. Len(items) + Len(dropped) + (Len(unique) - Len(pruned)) + (Len(raw) - Len(unique))
         = Len(raw)
  <2> DEFINE i == Len(items)
             d == Len(dropped)
             u == Len(unique)
             p == Len(pruned)
             r == Len(raw)
  <2>1. i \in Nat /\ d \in Nat /\ u \in Nat /\ p \in Nat /\ r \in Nat /\ i + d = p
    BY <1>2, <1>3, <1>4, <1>6, <1>9, LenProperties DEF Chosen
  <2> HIDE DEF i, d, u, p, r
  <2>2. i + d + (u - p) + (r - u) = r
    BY <2>1
  <2> QED
    BY <2>2 DEF i, d, u, p, r
<1>13. \A i \in DOMAIN dropped :
         TokensOf(items, dropped[i].priority) + dropped[i].tokens > MaxTokens
  <2> SUFFICES ASSUME NEW i \in 1 .. Len(dropped)
               PROVE  TokensOf(items, dropped[i].priority) + dropped[i].tokens > MaxTokens
    BY <1>6, LenProperties
  <2>1. TokensOf(fit.items, dropped[i].priority) + dropped[i].tokens > MaxTokens
    BY <1>5 DEF Fits, dropped
  <2> QED
    BY <1>9, <2>1
<1>14. Len(items) + Len(dropped) = Len(s)
  BY <1>6, <1>9
<1>15. /\ bundle.items[1] = core
       /\ TokensOf(bundle.items, 0) <= MaxTokens \/ bundle.items = <<core>>
       /\ Cardinality(ToSet(bundle.items \o bundle.dropped))
            = Len(bundle.items) + Len(bundle.dropped)
  BY <1>1, <1>9, <1>10, <1>11, <1>14
<1>16. Len(bundle.items) + Len(bundle.dropped) + bundle.pruned + bundle.duplicates = Len(raw)
  BY <1>1, <1>12
<1>17. \A i \in DOMAIN bundle.dropped :
          TokensOf(bundle.items, bundle.dropped[i].priority) + bundle.dropped[i].tokens
            > MaxTokens
  BY <1>1, <1>13
<1> QED
  BY <1>15, <1>16, <1>17 DEF Sound, bundle

=============================================================================
