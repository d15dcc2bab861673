------------------------ MODULE BundleExtractProofs ------------------------
(***************************************************************************)
(* Proofs about BundleFormat and BundleExtract, for every bundle, output   *)
(* directory and file system and whatever other programs do there: the     *)
(* reader's checks accept only bundles whose files are sound, and          *)
(* extraction writes whole files of such a bundle and replaces nothing     *)
(* without --force.                                                        *)
(***************************************************************************)
EXTENDS BundleExtract, FiniteSetTheorems, WellFoundedInduction, SequenceTheorems, TLAPS

(* Every non-empty set of numbers has a least one. *)
LEMMA LeastNumber ==
  ASSUME NEW S \in SUBSET Nat, S # {}
  PROVE  \E n \in S : \A m \in S : n <= m
<1>1. IsWellFoundedOn(OpToRel(<, Nat), Nat)
  BY NatLessThanWellFounded
<1>2. PICK n \in S : \A m \in S : <<m, n>> \notin OpToRel(<, Nat)
  BY <1>1, WFMin
<1>3. \A m, x \in Nat : m < x => <<m, x>> \in OpToRel(<, Nat)
  BY DEF OpToRel
<1>4. ASSUME NEW m \in S PROVE n <= m
  <2>1. m \in Nat /\ n \in Nat
    OBVIOUS
  <2>2. ~(m < n)
    BY <1>2, <1>3, <2>1
  <2> QED
    BY <2>1, <2>2
<1> QED
  BY <1>4

(* What holds of 0, and with n of n + 1, holds of every number. *)
LEMMA NumberInduction ==
  ASSUME NEW T, 0 \in T, \A n \in Nat : n \in T => n + 1 \in T
  PROVE  Nat \subseteq T
<1> SUFFICES ASSUME Nat \ T # {} PROVE FALSE
  OBVIOUS
<1>1. PICK n \in Nat \ T : \A m \in Nat \ T : n <= m
  BY LeastNumber
<1>2. n # 0 /\ n - 1 \in Nat
  OBVIOUS
<1>3. n - 1 \in T
  BY <1>1, <1>2
<1> QED
  BY <1>1, <1>2, <1>3
-----------------------------------------------------------------------------
(* f begins with a, and each later value comes from the one before it.     *)
Unfolds(f, n, a, step) ==
  f = [i \in 0..n |-> IF i = 0 THEN a ELSE step[i][f[i - 1]]]

(* The same, and every value is in V. *)
UnfoldsIn(f, n, V, a, step) ==
  /\ f \in [0..n -> V] /\ f[0] = a
  /\ \A i \in 1..n : f[i] = step[i][f[i - 1]]

LEMMA NextUnfolded ==
  ASSUME NEW f, NEW n \in Nat, NEW a, NEW step, Unfolds(f, n, a, step)
  PROVE  \E g : Unfolds(g, n + 1, a, step)
<1> DEFINE last == step[n + 1][f[n]]
           g == [i \in 0..n + 1 |-> IF i = n + 1 THEN last ELSE f[i]]
<1>1. g[n + 1] = last /\ \A i \in 0..n : g[i] = f[i]
  OBVIOUS
<1>2. g = [i \in 0..n + 1 |-> g[i]]
  OBVIOUS
<1> HIDE DEF g
<1>3. ASSUME NEW i \in 0..n + 1
      PROVE  g[i] = IF i = 0 THEN a ELSE step[i][g[i - 1]]
  <2>1. CASE i = n + 1
    <3>1. i # 0 /\ i - 1 = n /\ n \in 0..n
      BY <2>1
    <3> QED
      BY <1>1, <2>1, <3>1
  <2>2. CASE i # n + 1
    <3>1. i \in 0..n /\ (i # 0 => i - 1 \in 0..n)
      BY <2>2
    <3>2. f[i] = IF i = 0 THEN a ELSE step[i][f[i - 1]]
      BY <3>1 DEF Unfolds
    <3> QED
      BY <1>1, <3>1, <3>2
  <2> QED
    BY <2>1, <2>2
<1>4. Unfolds(g, n + 1, a, step)
  BY <1>2, <1>3 DEF Unfolds
<1> QED
  BY <1>4

LEMMA UnfoldedExists ==
  ASSUME NEW n \in Nat, NEW a, NEW step
  PROVE  \E f : Unfolds(f, n, a, step)
<1> DEFINE T == {m \in Nat : \E f : Unfolds(f, m, a, step)}
<1>1. 0 \in T
  <2>1. Unfolds([i \in 0..0 |-> a], 0, a, step)
    BY DEF Unfolds
  <2> QED
    BY <2>1
<1>2. ASSUME NEW m \in Nat, m \in T PROVE m + 1 \in T
  BY <1>2, NextUnfolded
<1> HIDE DEF T
<1>3. n \in T
  BY <1>1, <1>2, NumberInduction
<1> QED
  BY <1>3 DEF T

LEMMA Unfolding ==
  ASSUME NEW n \in Nat, NEW V, NEW a \in V, NEW step \in [1..n -> [V -> V]]
  PROVE  \E f : UnfoldsIn(f, n, V, a, step)
<1>1. PICK f : Unfolds(f, n, a, step)
  BY UnfoldedExists
<1>2. \A i \in 0..n : f[i] = IF i = 0 THEN a ELSE step[i][f[i - 1]]
  BY <1>1 DEF Unfolds
<1>3. f[0] = a /\ \A i \in 1..n : f[i] = step[i][f[i - 1]]
  <2>1. 0 \in 0..n /\ \A i \in 1..n : i \in 0..n /\ i # 0
    OBVIOUS
  <2> QED
    BY <1>2, <2>1
<1> DEFINE T == {m \in Nat : m <= n => f[m] \in V}
<1>4. 0 \in T
  BY <1>3
<1>5. ASSUME NEW m \in Nat, m \in T PROVE m + 1 \in T
  <2> SUFFICES ASSUME m + 1 <= n PROVE f[m + 1] \in V
    OBVIOUS
  <2>1. m + 1 \in 1..n /\ (m + 1) - 1 = m /\ f[m] \in V
    BY <1>5
  <2> QED
    BY <1>3, <2>1
<1> HIDE DEF T
<1>6. Nat \subseteq T
  BY <1>4, <1>5, NumberInduction
<1>7. \A i \in 0..n : f[i] \in V
  BY <1>6 DEF T
<1>8. f \in [0..n -> V]
  BY <1>1, <1>7 DEF Unfolds
<1> QED
  BY <1>3, <1>8 DEF UnfoldsIn
-----------------------------------------------------------------------------
(* s has every member of S that occurs in the order. *)
Covers(s, order, S) ==
  \A j \in 1..Len(order) :
    order[j] \in S => \E i \in 1..Len(s) : s[i] = order[j]

(* Listed gives the members of S that occur in the order, and them alone.  *)
LEMMA ListedMembers ==
  ASSUME NEW X, NEW order \in Seq(X), NEW S
  PROVE  /\ Listed(order, S) \in Seq(S \cap X)
         /\ Covers(Listed(order, S), order, S)
<1> DEFINE n == Len(order)
           M == S \cap X
           V == Seq(M)
           step == [i \in 1..n |-> [v \in V |->
                      IF order[i] \in S THEN Append(v, order[i]) ELSE v]]
           upTo[i \in 0..Len(order)] ==
             IF i = 0 THEN <<>>
             ELSE IF order[i] \in S THEN Append(upTo[i - 1], order[i])
             ELSE upTo[i - 1]
<1>1. n \in Nat /\ \A i \in 1..n : order[i] \in X
  BY LenProperties, ElementOfSeq
<1>2. <<>> \in V
  BY EmptySeq
<1>3. \A i \in 1..n, v \in V :
        /\ step[i][v] = IF order[i] \in S THEN Append(v, order[i]) ELSE v
        /\ step[i][v] \in V
  <2> SUFFICES ASSUME NEW i \in 1..n, NEW v \in V
               PROVE  /\ step[i][v] = IF order[i] \in S THEN Append(v, order[i]) ELSE v
                      /\ step[i][v] \in V
    OBVIOUS
  <2>1. step[i][v] = IF order[i] \in S THEN Append(v, order[i]) ELSE v
    OBVIOUS
  <2>2. order[i] \in S => Append(v, order[i]) \in V
    BY <1>1, AppendProperties
  <2> QED
    BY <2>1, <2>2
<1>4. step \in [1..n -> [V -> V]]
  BY <1>3
<1>5. PICK f : UnfoldsIn(f, n, V, <<>>, step)
  <2> HIDE DEF step, V, n, upTo
  <2> QED
    BY <1>1, <1>2, <1>4, Unfolding
<1>6. \A i \in 1..n :
        f[i] = IF order[i] \in S THEN Append(f[i - 1], order[i]) ELSE f[i - 1]
  <2> HIDE DEF step, V, n, upTo
  <2>1. \A i \in 1..n : i - 1 \in 0..n
    BY <1>1
  <2>2. \A i \in 1..n : f[i - 1] \in V
    BY <1>5, <2>1 DEF UnfoldsIn
  <2> QED
    BY <1>3, <1>5, <2>2 DEF UnfoldsIn
<1> HIDE DEF step, V
<1>7. f = [i \in 0..Len(order) |->
             IF i = 0 THEN <<>>
             ELSE IF order[i] \in S THEN Append(f[i - 1], order[i])
             ELSE f[i - 1]]
  <2>1. \A i \in 0..n : i # 0 => i \in 1..n
    BY <1>1
  <2> QED
    BY <1>5, <1>6, <2>1 DEF UnfoldsIn
<1>8. upTo = [i \in 0..Len(order) |->
                IF i = 0 THEN <<>>
                ELSE IF order[i] \in S THEN Append(upTo[i - 1], order[i])
                ELSE upTo[i - 1]]
  BY <1>7
<1>9. Listed(order, S) = upTo[n]
  BY DEF Listed
<1> HIDE DEF upTo
<1> DEFINE Has(i, j) == \E x \in 1..Len(upTo[i]) : upTo[i][x] = order[j]
           T == {i \in Nat : i <= n =>
                  /\ upTo[i] \in V
                  /\ \A j \in 1..i : order[j] \in S => Has(i, j)}
<1>10. 0 \in T
  <2>1. 0 \in 0..n /\ 1..0 = {}
    BY <1>1
  <2>2. upTo[0] = <<>>
    BY <1>8, <2>1
  <2> QED
    BY <1>2, <2>1, <2>2
<1>11. ASSUME NEW i \in Nat, i \in T PROVE i + 1 \in T
  <2> SUFFICES ASSUME i + 1 <= n
               PROVE  /\ upTo[i + 1] \in V
                      /\ \A j \in 1..i + 1 : order[j] \in S => Has(i + 1, j)
    OBVIOUS
  <2>1. i + 1 \in 0..n /\ i + 1 # 0 /\ (i + 1) - 1 = i /\ i + 1 \in 1..n
    BY <1>1
  <2>2. /\ upTo[i] \in V
        /\ \A j \in 1..i : order[j] \in S => Has(i, j)
    BY <1>1, <1>11
  <2>3. upTo[i + 1] = IF order[i + 1] \in S THEN Append(upTo[i], order[i + 1])
                      ELSE upTo[i]
    BY <1>8, <2>1
  <2>4. \A j \in 1..i + 1 : j \in 1..i \/ j = i + 1
    OBVIOUS
  <2>5. CASE order[i + 1] \notin S
    BY <2>2, <2>3, <2>4, <2>5
  <2>6. CASE order[i + 1] \in S
    <3> DEFINE s == upTo[i]
               e == order[i + 1]
    <3>1. upTo[i + 1] = Append(s, e) /\ s \in Seq(M) /\ e \in M
      BY <1>1, <2>1, <2>2, <2>3, <2>6 DEF V
    <3> HIDE DEF s, e
    <3>2. /\ Append(s, e) \in Seq(M)
          /\ Len(Append(s, e)) = Len(s) + 1 /\ Len(s) \in Nat
          /\ \A x \in 1..Len(s) : Append(s, e)[x] = s[x]
          /\ Append(s, e)[Len(s) + 1] = e
      BY <3>1, AppendProperties, LenProperties
    <3>3. Has(i + 1, i + 1)
      <4>1. Len(s) + 1 \in 1..Len(upTo[i + 1])
        BY <3>1, <3>2
      <4> QED
        BY <3>1, <3>2, <4>1 DEF e
    <3>4. ASSUME NEW j \in 1..i, order[j] \in S PROVE Has(i + 1, j)
      <4>1. PICK x \in 1..Len(s) : s[x] = order[j]
        BY <2>2, <3>4 DEF s
      <4>2. x \in 1..Len(upTo[i + 1]) /\ upTo[i + 1][x] = order[j]
        BY <3>1, <3>2, <4>1
      <4> QED
        BY <4>2
    <3> QED
      BY <2>4, <3>1, <3>2, <3>3, <3>4 DEF V
  <2> QED
    BY <2>5, <2>6
<1> HIDE DEF T
<1>12. n \in T
  BY <1>1, <1>10, <1>11, NumberInduction
<1>13. /\ upTo[n] \in Seq(S \cap X)
       /\ \A j \in 1..n : order[j] \in S => Has(n, j)
  BY <1>1, <1>12 DEF T, V
<1>14. Covers(upTo[n], order, S)
  BY <1>13 DEF Covers
<1> QED
  BY <1>9, <1>13, <1>14

(* Where a path leads to has a length. *)
LEMMA ComponentLength ==
  ASSUME NEW p \in Seq(STRING)
  PROVE  Len(Components(p)) \in Nat
<1>1. Components(p) \in Seq(Names \cap STRING)
  BY ListedMembers DEF Components
<1> QED
  BY <1>1, LenProperties

(* An accepted path leads to a place below the output directory. *)
LEMMA ComponentFacts ==
  ASSUME NEW p, ValidPath(p)
  PROVE  /\ Components(p) \in Seq(Names) /\ Components(p) # <<>>
         /\ Len(Components(p)) \in Nat \ {0}
         /\ FoldedPlace(p) =
              [c \in 1..Len(Components(p)) |-> FoldName(Components(p)[c])]
<1> DEFINE X == Names \cup Skipped
           s == Components(p)
<1>1. p \in Seq(X) /\ p # <<>> /\ p[1] \in Names
  BY DEF ValidPath
<1>2. s \in Seq(Names \cap X) /\ Covers(s, p, Names)
  BY <1>1, ListedMembers DEF Components
<1>3. Names \cap X = Names
  OBVIOUS
<1> HIDE DEF X, s
<1>4. s \in Seq(Names) /\ Len(s) \in Nat /\ DOMAIN s = 1..Len(s)
  BY <1>2, <1>3, LenProperties
<1>5. 1 \in 1..Len(p)
  BY <1>1, EmptySeq, LenProperties
<1>6. \E i \in 1..Len(s) : s[i] = p[1]
  BY <1>1, <1>2, <1>5 DEF Covers
<1>7. Len(s) # 0 /\ s # <<>>
  BY <1>4, <1>6
<1> QED
  BY <1>4, <1>7 DEF s, FoldedPlace, FoldPath

-----------------------------------------------------------------------------
(* order lists the members of S by key. *)
Sorts(order, S, key) ==
  /\ order \in Bijection(1..Cardinality(S), S)
  /\ \A i, j \in 1..Cardinality(S) : i < j => key[order[i]] <= key[order[j]]

(* One member more, in front of the others. *)
LEMMA SortsMore ==
  ASSUME NEW S, IsFiniteSet(S), NEW key, \A x \in S : key[x] \in Nat,
         NEW x \in S, \A y \in S : key[x] <= key[y],
         NEW rest, Sorts(rest, S \ {x}, key)
  PROVE  \E order : Sorts(order, S, key)
<1> DEFINE n == Cardinality(S \ {x})
           order == [i \in 1..n + 1 |-> IF i = 1 THEN x ELSE rest[i - 1]]
<1>1. n \in Nat /\ Cardinality(S) = n + 1
  <2>1. Cardinality(S) \in Nat /\ n = Cardinality(S) - 1 /\ n \in Nat
    BY FS_CardinalityType, FS_RemoveElement
  <2> QED
    BY <2>1
<1>2. /\ rest \in [1..n -> S \ {x}]
      /\ \A i, j \in 1..n : rest[i] = rest[j] => i = j
      /\ \A y \in S \ {x} : \E i \in 1..n : rest[i] = y
      /\ \A i, j \in 1..n : i < j => key[rest[i]] <= key[rest[j]]
  BY DEF Sorts, Bijection, Injection, Surjection, IsInjective
<1> HIDE DEF n
<1>3. ASSUME NEW i \in 1..n + 1, i # 1 PROVE i - 1 \in 1..n /\ order[i] = rest[i - 1]
  BY <1>1, <1>3
<1>4. order[1] = x /\ 1 \in 1..n + 1
  BY <1>1
<1>5. \A i \in 1..n + 1 : order[i] \in S
  BY <1>2, <1>3, <1>4
<1>6. \A i, j \in 1..n + 1 : order[i] = order[j] => i = j
  BY <1>1, <1>2, <1>3, <1>4
<1>7. ASSUME NEW y \in S PROVE \E i \in 1..n + 1 : order[i] = y
  <2>1. CASE y = x
    BY <1>4, <2>1
  <2>2. CASE y # x
    <3>1. PICK i \in 1..n : rest[i] = y
      BY <1>2, <2>2
    <3>2. i + 1 \in 1..n + 1 /\ i + 1 # 1 /\ (i + 1) - 1 = i
      BY <1>1
    <3> QED
      BY <3>1, <3>2
  <2> QED
    BY <2>1, <2>2
<1>8. ASSUME NEW i \in 1..n + 1, NEW j \in 1..n + 1, i < j
      PROVE  key[order[i]] <= key[order[j]]
  <2>1. j # 1
    BY <1>1, <1>8
  <2>2. CASE i = 1
    BY <1>2, <1>3, <1>4, <1>5, <2>1, <2>2
  <2>3. CASE i # 1
    <3>1. i - 1 < j - 1
      BY <1>1, <1>8
    <3> QED
      BY <1>2, <1>3, <2>1, <2>3, <3>1
  <2> QED
    BY <2>2, <2>3
<1>9. order \in Bijection(1..n + 1, S)
  <2>1. order \in [1..n + 1 -> S]
    BY <1>5
  <2> HIDE DEF order
  <2> QED
    BY <1>6, <1>7, <2>1 DEF Bijection, Injection, Surjection, IsInjective
<1> HIDE DEF order
<1> QED
  BY <1>1, <1>8, <1>9 DEF Sorts

(* A finite set can be sorted. *)
LEMMA SortedExists ==
  ASSUME NEW S, IsFiniteSet(S), NEW key, \A x \in S : key[x] \in Nat
  PROVE  \E order : Sorts(order, S, key)
<1> DEFINE T == {n \in Nat : \A R \in SUBSET S :
                   Cardinality(R) = n => \E order : Sorts(order, R, key)}
<1>1. 0 \in T
  <2> SUFFICES ASSUME NEW R \in SUBSET S, Cardinality(R) = 0
               PROVE  \E order : Sorts(order, R, key)
    OBVIOUS
  <2>1. R = {}
    BY FS_EmptySet, FS_Subset
  <2>2. <<>> \in [1..0 -> R] /\ 1..0 = {}
    BY <2>1
  <2>3. Sorts(<<>>, R, key)
    BY <2>1, <2>2 DEF Sorts, Bijection, Injection, Surjection, IsInjective
  <2> QED
    BY <2>3
<1>2. ASSUME NEW n \in Nat, n \in T PROVE n + 1 \in T
  <2> SUFFICES ASSUME NEW R \in SUBSET S, Cardinality(R) = n + 1
               PROVE  \E order : Sorts(order, R, key)
    OBVIOUS
  <2>1. IsFiniteSet(R) /\ R # {}
    BY FS_Subset, FS_EmptySet
  <2>2. PICK x \in R : \A y \in R : key[x] <= key[y]
    <3>1. {key[y] : y \in R} \in SUBSET Nat /\ {key[y] : y \in R} # {}
      BY <2>1
    <3>2. PICK m \in {key[y] : y \in R} : \A o \in {key[y] : y \in R} : m <= o
      BY <3>1, LeastNumber
    <3> QED
      BY <3>2
  <2>3. R \ {x} \in SUBSET S /\ Cardinality(R \ {x}) = n
    <3>1. Cardinality(R \ {x}) = (n + 1) - 1
      BY <2>1, FS_RemoveElement
    <3> QED
      BY <3>1
  <2>4. PICK rest : Sorts(rest, R \ {x}, key)
    BY <1>2, <2>3
  <2> QED
    BY <2>1, <2>2, <2>4, SortsMore
<1>3. Cardinality(S) \in Nat
  BY FS_CardinalityType
<1> HIDE DEF T
<1>4. Cardinality(S) \in T
  BY <1>1, <1>2, <1>3, NumberInduction
<1> QED
  BY <1>4 DEF T
-----------------------------------------------------------------------------
(* One of two entries ends where the other begins, or before. *)
Apart(a, b) == End(a) <= b.offset \/ End(b) <= a.offset

Ranges(m) == {x \in DOMAIN m : NonEmpty(m[x])}

LEMMA EntryFacts ==
  ASSUME NEW m \in Seq(Entries)
  PROVE  /\ DOMAIN m = 1..Len(m) /\ Len(m) \in Nat
         /\ \A x \in DOMAIN m :
              /\ m[x] \in Entries /\ m[x].offset \in Nat /\ m[x].size \in Nat
              /\ End(m[x]) \in Nat /\ End(m[x]) = m[x].offset + m[x].size
<1>1. DOMAIN m = 1..Len(m) /\ Len(m) \in Nat
  BY LenProperties
<1>2. \A x \in 1..Len(m) : m[x] \in Entries
  BY ElementOfSeq
<1>3. \A x \in 1..Len(m) : m[x].offset \in Nat /\ m[x].size \in Nat
  BY <1>2 DEF Entries
<1> QED
  BY <1>1, <1>2, <1>3 DEF End

(* Comparing neighbours after the sort compares every two ranges. *)
LEMMA NoOverlapApart ==
  ASSUME NEW m \in Seq(Entries)
  PROVE  NoOverlap(m) <=> \A i, j \in Ranges(m) : i # j => Apart(m[i], m[j])
<1> DEFINE S == Ranges(m)
           n == Cardinality(S)
           key == [x \in S |-> m[x].offset]
           r == SortedRanges(m)
<1>1. /\ S \subseteq 1..Len(m) /\ Len(m) \in Nat
      /\ \A x \in S : /\ m[x].offset \in Nat /\ m[x].size \in Nat
                       /\ m[x].size > 0 /\ End(m[x]) = m[x].offset + m[x].size
  BY EntryFacts DEF Ranges, NonEmpty
<1>2. IsFiniteSet(S) /\ n \in Nat
  <2>1. IsFiniteSet(1..Len(m))
    BY <1>1, FS_Interval
  <2> HIDE DEF S
  <2>2. IsFiniteSet(S)
    BY <1>1, <2>1, FS_Subset
  <2> QED
    BY <2>2, FS_CardinalityType
<1>3. Sorts(r, S, key)
  <2>1. \A x \in S : key[x] \in Nat
    BY <1>1
  <2>2. PICK order : Sorts(order, S, key)
    <3> HIDE DEF S, key
    <3> QED
      BY <1>2, <2>1, SortedExists
  <2>3. \A o : Sorts(o, S, key) <=>
               /\ o \in Bijection(1..n, S)
               /\ \A i, j \in DOMAIN o :
                    i < j => m[o[i]].offset <= m[o[j]].offset
    BY DEF Sorts, Bijection, Injection
  <2>4. r = CHOOSE o \in Bijection(1..n, S) :
              \A i, j \in DOMAIN o : i < j => m[o[i]].offset <= m[o[j]].offset
    BY DEF SortedRanges, Ranges
  <2> HIDE DEF S, n, key, r
  <2> QED
    BY <2>2, <2>3, <2>4
<1>4. /\ r \in [1..n -> S]
      /\ \A i, j \in 1..n : r[i] = r[j] => i = j
      /\ \A y \in S : \E i \in 1..n : r[i] = y
      /\ \A i, j \in 1..n : i < j => key[r[i]] <= key[r[j]]
  BY <1>3 DEF Sorts, Bijection, Injection, Surjection, IsInjective
<1>5. Len(r) = n
  BY <1>2, <1>4
<1>6. \A i, j \in 1..n : i < j => m[r[i]].offset <= m[r[j]].offset
  BY <1>4
<1>7. NoOverlap(m) <=>
        \A i \in 1..n - 1 : End(m[r[i]]) <= m[r[i + 1]].offset
  BY <1>5 DEF NoOverlap
<1> HIDE DEF r, key, n, S
<1> DEFINE off(i) == m[r[i]].offset
           last(i) == End(m[r[i]])
<1>8. ASSUME NEW i \in 1..n
       PROVE  off(i) \in Nat /\ last(i) \in Nat /\ off(i) < last(i)
  <2>1. r[i] \in S
    BY <1>4
  <2> DEFINE x == r[i]
             b == m[x].offset
             c == m[x].size
             e == End(m[x])
  <2>2. b \in Nat /\ c \in Nat /\ c > 0 /\ e = b + c
    BY <1>1, <2>1
  <2> HIDE DEF b, c, e
  <2>3. b \in Nat /\ e \in Nat /\ b < e
    BY <2>2
  <2> QED
    BY <2>3 DEF b, e
<1>9. \A i \in 1..n - 1 : i \in 1..n /\ i + 1 \in 1..n /\ i < i + 1
  BY <1>2
<1>10. \A i, j \in 1..n : i < j => off(i) <= off(j)
  BY <1>6
<1>11. NoOverlap(m) <=> \A i \in 1..n - 1 : last(i) <= off(i + 1)
  BY <1>7
<1> HIDE DEF off, last
<1>12. ASSUME NoOverlap(m), NEW i \in 1..n, NEW j \in 1..n, i < j
      PROVE  last(i) <= off(j)
  <2>1. i \in 1..n - 1 /\ i + 1 \in 1..n /\ (j = i + 1 \/ i + 1 < j)
    BY <1>2, <1>12
  <2>2. last(i) <= off(i + 1)
    BY <1>12, <1>11, <2>1
  <2>3. off(i + 1) <= off(j)
    BY <1>8, <1>10, <2>1
  <2> QED
    BY <1>8, <2>1, <2>2, <2>3
<1>13. ASSUME NoOverlap(m), NEW x \in S, NEW y \in S, x # y
      PROVE  Apart(m[x], m[y])
  <2>1. PICK i \in 1..n, j \in 1..n : r[i] = x /\ r[j] = y
    BY <1>4
  <2>2. i < j \/ j < i
    BY <1>2, <1>13, <2>1
  <2>3. last(i) <= off(j) \/ last(j) <= off(i)
    BY <1>12, <1>13, <2>2
  <2> QED
    BY <2>1, <2>3 DEF Apart, last, off
<1>14. ASSUME \A x, y \in S : x # y => Apart(m[x], m[y]), NEW i \in 1..n - 1
       PROVE  last(i) <= off(i + 1)
  <2>1. /\ i \in 1..n /\ i + 1 \in 1..n /\ i < i + 1 /\ i # i + 1
    BY <1>2
  <2>2. r[i] \in S /\ r[i + 1] \in S /\ r[i] # r[i + 1]
    BY <1>4, <2>1
  <2>3. off(i) <= off(i + 1)
    BY <1>10, <2>1
  <2>4. last(i) <= off(i + 1) \/ last(i + 1) <= off(i)
    BY <1>14, <2>2 DEF Apart, last, off
  <2> QED
    BY <1>8, <2>1, <2>3, <2>4
<1> QED
  BY <1>13, <1>14, <1>11 DEF S

Bytes(e) == e.offset + 1..End(e)

LEMMA InsideData ==
  ASSUME NEW e \in Entries, NEW bytes \in Contents
  PROVE  End(e) <= Len(bytes) <=>
           Bytes(e) \subseteq DOMAIN bytes /\ (e.size = 0 => e.offset <= Len(bytes))
<1> DEFINE o == e.offset
           z == e.size
           n == Len(bytes)
<1>1. o \in Nat /\ z \in Nat /\ n \in Nat /\ DOMAIN bytes = 1..n
  BY LenProperties DEF Entries, Contents
<1>2. End(e) = o + z /\ Bytes(e) = o + 1..o + z
  BY DEF End, Bytes
<1> HIDE DEF o, z, n
<1>3. ASSUME o + z <= n
      PROVE  o + 1..o + z \subseteq 1..n /\ (z = 0 => o <= n)
  BY <1>1, <1>3
<1>4. ASSUME o + 1..o + z \subseteq 1..n, z = 0 => o <= n
      PROVE  o + z <= n
  <2>1. CASE z = 0
    BY <1>1, <1>4, <2>1
  <2>2. CASE z # 0
    <3>1. o + z \in o + 1..o + z
      BY <1>1, <2>2
    <3>2. o + z \in 1..n
      BY <1>4, <3>1
    <3> QED
      BY <1>1, <3>2
  <2> QED
    BY <2>1, <2>2
<1>5. o + z <= n <=> o + 1..o + z \subseteq 1..n /\ (z = 0 => o <= n)
  BY <1>3, <1>4
<1> QED
  BY <1>1, <1>2, <1>5 DEF o, z, n

LEMMA ApartDisjoint ==
  ASSUME NEW a \in Entries, NEW b \in Entries
  PROVE  Bytes(a) \cap Bytes(b) = {} <=>
           (NonEmpty(a) /\ NonEmpty(b) => Apart(a, b))
<1> DEFINE o == a.offset
           z == a.size
           p == b.offset
           y == b.size
<1>1. o \in Nat /\ z \in Nat /\ p \in Nat /\ y \in Nat
  BY DEF Entries
<1>2. /\ End(a) = o + z /\ End(b) = p + y
      /\ Bytes(a) = o + 1..o + z /\ Bytes(b) = p + 1..p + y
      /\ NonEmpty(a) <=> z > 0
      /\ NonEmpty(b) <=> y > 0
      /\ Apart(a, b) <=> o + z <= p \/ p + y <= o
  BY DEF End, Bytes, NonEmpty, Apart
<1> HIDE DEF o, z, p, y
<1>3. ASSUME (o + 1..o + z) \cap (p + 1..p + y) = {}, z > 0, y > 0
      PROVE  o + z <= p \/ p + y <= o
  <2>1. CASE o <= p
    <3>1. p + 1 \in p + 1..p + y
      BY <1>1, <1>3
    <3>2. p + 1 \notin o + 1..o + z
      BY <1>3, <3>1
    <3> QED
      BY <1>1, <2>1, <3>2
  <2>2. CASE p < o
    <3>1. o + 1 \in o + 1..o + z
      BY <1>1, <1>3
    <3>2. o + 1 \notin p + 1..p + y
      BY <1>3, <3>1
    <3> QED
      BY <1>1, <2>2, <3>2
  <2> QED
    BY <1>1, <2>1, <2>2
<1>4. ASSUME z > 0 /\ y > 0 => o + z <= p \/ p + y <= o, NEW i \in o + 1..o + z
      PROVE  i \notin p + 1..p + y
  BY <1>1, <1>4
<1> QED
  BY <1>2, <1>3, <1>4

(* The checks of the reader, with their sort and their comparison of       *)
(* neighbours, accept only bundles whose files are sound, and of those     *)
(* with normalized paths exactly the well-formed ones.                     *)
THEOREM AcceptsWellFormed ==
  ASSUME NEW payload \in Payloads
  PROVE  /\ Verifies(payload) => FilesSound(payload)
         /\ Verifies(payload) /\ Normalized(payload.manifest) <=>
              Decodes(payload) /\ WellFormed(payload)
<1> DEFINE m == payload.manifest
           bytes == payload.data
<1>1. m \in Seq(Entries) /\ bytes \in Contents
  BY ExtractAssumption
<1> HIDE DEF m, bytes
<1>2. \A x \in DOMAIN m : m[x] \in Entries
  BY <1>1, EntryFacts
<1>3. \A x \in DOMAIN m :
        End(m[x]) <= Len(bytes) <=>
          Bytes(m[x]) \subseteq DOMAIN bytes /\ (m[x].size = 0 => m[x].offset <= Len(bytes))
  BY <1>1, <1>2, InsideData
<1>4. \A i, j \in DOMAIN m :
        Bytes(m[i]) \cap Bytes(m[j]) = {} <=>
          (NonEmpty(m[i]) /\ NonEmpty(m[j]) => Apart(m[i], m[j]))
  BY <1>2, ApartDisjoint
<1>5. NoOverlap(m) <=>
        \A i, j \in DOMAIN m :
          i # j => Bytes(m[i]) \cap Bytes(m[j]) = {}
  <2>1. NoOverlap(m) <=> \A i, j \in Ranges(m) : i # j => Apart(m[i], m[j])
    BY <1>1, NoOverlapApart
  <2> QED
    BY <1>4, <2>1 DEF Ranges
<1>6. FilesSound(payload) <=>
        /\ \A x \in DOMAIN m :
             /\ ValidPath(m[x].path)
             /\ Bytes(m[x]) \subseteq DOMAIN bytes
             /\ m[x].size = 0 => m[x].offset <= Len(bytes)
             /\ Slice(bytes, m[x]) = m[x].hash
        /\ \A i, j \in DOMAIN m : i # j => Bytes(m[i]) \cap Bytes(m[j]) = {}
  BY DEF FilesSound, Bytes, m, bytes
<1>7. Verifies(payload) <=>
        /\ Decodes(payload)
        /\ \A x \in DOMAIN m : ValidPath(m[x].path) /\ End(m[x]) <= Len(bytes)
        /\ DistinctPaths(m)
        /\ NoOverlap(m)
        /\ \A x \in DOMAIN m : Slice(bytes, m[x]) = m[x].hash
  BY DEF Verifies, ValidLayout, EntryAuthentic, m, bytes
<1>8. Verifies(payload) <=>
        Decodes(payload) /\ FilesSound(payload) /\ DistinctPaths(m)
  BY <1>3, <1>5, <1>6, <1>7
<1>9. Normalized(m) => (DistinctPaths(m) <=> CollisionFree(m))
  BY DEF Normalized, DistinctPaths, CollisionFree, FoldedPlace
<1> QED
  BY <1>8, <1>9 DEF WellFormed, m
-----------------------------------------------------------------------------
Early    == {"start", "open", "verify", "outDir", "checkOutDir"}
Writing  == {"target", "temp", "persist", "replace", "noclobber", "syncDir"}
PerEntry == {"parent", "next"} \cup Writing

(* What a place may hold; a directory or a link has no content here. *)
Holdings ==
  {Absent, Dir, Symlink} \cup [kind : {"file", "linked"}, content : Contents]

(* Where the command is in the manifest and on the way to a target. *)
CountInv ==
  /\ TypeOK
  /\ setting \in Settings
  /\ tree \in [Nodes -> Holdings]
  /\ pc \in Early => depth = 0
  /\ pc \in Early \ {"verify"} => k = 1
  /\ pc \in PerEntry => k <= Len(manifest)
  /\ pc \in Writing => depth = Len(Target)
  /\ pc = "ok" /\ setting.mode = "extract" => k = Len(manifest) + 1

(* Nothing is written before every entry is verified. *)
BundleInv ==
  /\ pc \notin {"start", "open", "error", "crashed"} =>
       setting.unlocks /\ Decodes(setting.payload) /\ ValidLayout(manifest, data)
  /\ pc = "verify" =>
       \A e \in 1..Len(manifest) : e < k => EntryAuthentic(data, manifest[e])
  /\ pc \in {"outDir", "checkOutDir", "ok"} \cup PerEntry => Verifies(setting.payload)
  /\ pc \in {"outDir", "checkOutDir"} \cup PerEntry => setting.mode = "extract"
  /\ pc = "replace" => setting.force

(* The entry e has its file. *)
Placed(e) == pc \in Final \/ e < k \/ (e = k /\ pc \in {"syncDir", "next"})

(* What the command has made of the place n, which no other program changed. *)
NewDirectory(n) == IsParent(n) /\ Prior(n) = Absent /\ tree[n] = Dir

NewFile(n) ==
  /\ Prior(n) = Absent \/ (setting.force /\ Prior(n).kind = "file")
  /\ \E e \in 1..Len(manifest) :
       At(e) = n /\ tree[n] = File(manifest[e].hash) /\ Placed(e)

Missing(n) ==
  /\ setting.force /\ setting.platform = "windows"
  /\ IsTarget(n) /\ Prior(n).kind = "file" /\ tree[n] = Absent
  /\ pc \in Final \/ (pc = "replace" /\ n = Target)

Untouched(n) ==
  \/ tree[n] = Prior(n)
  \/ n = <<>> /\ Prior(n) = Absent /\ tree[n] = Dir
  \/ /\ pc \notin Early /\ setting.unlocks /\ FilesSound(setting.payload)
     /\ NewDirectory(n) \/ NewFile(n) \/ Missing(n)

TreeInv ==
  /\ \A n \in Nodes \ touched : Untouched(n)
  /\ pc = "replace" /\ Target \notin touched =>
       /\ Prior(Target) = Absent \/ Prior(Target).kind = "file"
       /\ tree[Target].kind = "file"
          \/ (tree[Target] = Absent /\ setting.platform = "windows")

(* The entries already dealt with have their files, unless --force let a   *)
(* later one replace it.                                                   *)
Done(e) == e < k \/ (e = k /\ pc \in {"syncDir", "next"})

HasFile(e) == At(e) \in touched \/ tree[At(e)] = File(manifest[e].hash)

Extracting == pc \in PerEntry \/ (pc = "ok" /\ setting.mode = "extract")

Followed(e) ==
  setting.force /\ \E f \in e + 1..Len(manifest) : f <= k /\ At(f) = At(e)

DoneInv ==
  Extracting => \A e \in 1..Len(manifest) : Done(e) => HasFile(e) \/ Followed(e)

(* As long as nobody interferes nothing is in the way. *)
Clear ==
  /\ pc = "checkOutDir" => tree[<<>>] \in {Dir, Symlink}
  /\ pc \in PerEntry =>
       tree[<<>>] = Dir /\ \A d \in 0..depth - 1 : tree[Parent(d)] = Dir
  /\ pc \in {"temp", "persist"} =>
       tree[Target] = Absent \/ (setting.force /\ Replaceable(tree[Target]))
  /\ pc = "noclobber" => tree[Target] = Absent

FreeInv == touched = {} => Clear /\ WellFormedAccepted
-----------------------------------------------------------------------------
(* What is fixed for a command. *)
LEMMA Fixed ==
  ASSUME [Next]_vars
  PROVE  /\ setting' = setting /\ manifest' = manifest /\ data' = data
         /\ \A e : At(e)' = At(e)
         /\ \A n : /\ Prior(n)' = Prior(n) /\ IsTarget(n)' = IsTarget(n)
                   /\ IsParent(n)' = IsParent(n)
         /\ Obstructed' = Obstructed
         /\ k' = k => Target' = Target /\ \A d : Parent(d)' = Parent(d)
<1>1. setting' = setting
  BY DEF Next, Progress, Fault, EditTree, vars
<1>2. manifest' = manifest /\ data' = data
  BY <1>1 DEF manifest, data
<1>3. \A e : At(e)' = At(e)
  BY <1>1, <1>2 DEF At, Resolve
<1>4. \A n : /\ Prior(n)' = Prior(n) /\ IsTarget(n)' = IsTarget(n)
             /\ IsParent(n)' = IsParent(n)
  BY <1>1, <1>2 DEF Prior, IsTarget, IsParent, Resolve
<1>5. Obstructed' = Obstructed
  BY <1>1, <1>4 DEF Obstructed
<1>6. k' = k => Target' = Target /\ \A d : Parent(d)' = Parent(d)
  BY <1>1, <1>2 DEF Target, Parent, Resolve
<1> QED
  BY <1>1, <1>2, <1>3, <1>4, <1>5, <1>6

LEMMA PayloadFacts ==
  ASSUME setting \in Settings
  PROVE  /\ setting.payload \in Payloads /\ setting.tree \in Trees
         /\ manifest \in Seq(Entries) /\ data \in Contents
         /\ DOMAIN manifest = 1..Len(manifest) /\ Len(manifest) \in Nat
         /\ \A e \in 1..Len(manifest) : manifest[e] \in Entries
<1>1. setting.payload \in Payloads /\ setting.tree \in Trees
  BY DEF Settings
<1>2. manifest \in Seq(Entries) /\ data \in Contents
  BY <1>1, ExtractAssumption DEF manifest, data
<1> QED
  BY <1>1, <1>2, EntryFacts

(* The places of the entries and the directories above them. *)
LEMMA PlaceFacts ==
  ASSUME setting \in Settings, ValidLayout(manifest, data),
         NEW e \in 1..Len(manifest)
  PROVE  /\ Len(At(e)) \in Nat \ {0} /\ Len(At(e)) = Len(Components(manifest[e].path))
         /\ At(e) \in Nodes /\ At(e) # <<>>
         /\ \A d \in 0..Len(At(e)) : SubSeq(At(e), 1, d) \in Nodes
         /\ \A d \in 0..Len(At(e)) - 1 :
              IsStrictPrefix(SubSeq(At(e), 1, d), At(e)) /\ SubSeq(At(e), 1, d) # At(e)
         /\ SubSeq(At(e), 1, 0) = <<>>
         /\ SubSeq(At(e), 1, Len(At(e))) = At(e)
         /\ \A d \in 1..Len(At(e)) - 1 :
              Front(SubSeq(At(e), 1, d)) = SubSeq(At(e), 1, d - 1)
         /\ Front(At(e)) = SubSeq(At(e), 1, Len(At(e)) - 1)
<1> DEFINE path == Components(manifest[e].path)
           S == Names \cup {FoldName(x) : x \in Names}
           at == At(e)
           n == Len(at)
<1>1. ValidPath(manifest[e].path)
  BY PayloadFacts DEF ValidLayout
<1>2. /\ path \in Seq(Names) /\ path # <<>> /\ Len(path) \in Nat \ {0}
      /\ DOMAIN path = 1..Len(path) /\ \A c \in 1..Len(path) : path[c] \in Names
  <2>1. path \in Seq(Names) /\ path # <<>> /\ Len(path) \in Nat \ {0}
    BY <1>1, ComponentFacts
  <2> HIDE DEF path
  <2> QED
    BY <2>1, LenProperties, ElementOfSeq
<1>3. at = path \/ at = FoldedPlace(manifest[e].path)
  BY DEF At, Resolve
<1>4. at \in Seq(S) /\ n = Len(path)
  <2>1. CASE at = path
    <3>1. path \in Seq(S)
      <4>1. path = [c \in 1..Len(path) |-> path[c]]
        BY <1>2
      <4>2. \A c \in 1..Len(path) : path[c] \in S
        BY <1>2
      <4>3. path \in [1..Len(path) -> S]
        BY <4>1, <4>2
      <4> QED
        BY <1>2, <4>3
    <3> QED
      BY <2>1, <3>1
  <2>2. CASE at = FoldedPlace(manifest[e].path)
    <3>1. at = [c \in 1..Len(path) |-> FoldName(path[c])]
      BY <1>1, <2>2, ComponentFacts
    <3>2. at \in [1..Len(path) -> S]
      BY <1>2, <3>1
    <3> QED
      BY <1>2, <3>1, <3>2
  <2> QED
    BY <1>3, <2>1, <2>2
<1>5. \A d \in 0..n : SubSeq(at, 1, d) \in Nodes
  <2>1. \A d \in 0..Len(path) :
          /\ SubSeq(path, 1, d) \in Nodes
          /\ SubSeq(FoldedPlace(manifest[e].path), 1, d) \in Nodes
    BY <1>1, PayloadFacts, ExtractAssumption DEF manifest
  <2> QED
    BY <1>3, <1>4, <2>1
<1> HIDE DEF path, at
<1>6. n \in Nat \ {0}
  BY <1>2, <1>4
<1> HIDE DEF S, n
<1>7. \A d \in 0..n : /\ SubSeq(at, 1, d) \in Seq(S) /\ Len(SubSeq(at, 1, d)) = d
                     /\ \A c \in 1..d : SubSeq(at, 1, d)[c] = at[c]
  <2> TAKE d \in 0..n
  <2>1. 1 \in 1..n + 1 /\ d \in 1 - 1..n
    BY <1>6
  <2> QED
    BY <1>4, <1>6, <2>1, SubSeqProperties DEF n
<1>8. SubSeq(at, 1, 0) = <<>>
  <2>1. SubSeq(at, 1, 0) \in Seq(S) /\ Len(SubSeq(at, 1, 0)) = 0
    BY <1>6, <1>7
  <2> DEFINE r == SubSeq(at, 1, 0)
  <2> HIDE DEF r
  <2>2. r = <<>>
    BY <2>1, EmptySeq DEF r
  <2> QED
    BY <2>2 DEF r
<1>9. SubSeq(at, 1, n) = at
  BY <1>4 DEF n
<1>10. \A d \in 0..n - 1 : IsStrictPrefix(SubSeq(at, 1, d), at) /\ SubSeq(at, 1, d) # at
  <2> TAKE d \in 0..n - 1
  <2>1. Len(SubSeq(at, 1, d)) = d /\ d <= n /\ d # n
    BY <1>6, <1>7
  <2>2. SubSeq(at, 1, d) # at
    BY <2>1 DEF n
  <2>3. SubSeq(SubSeq(at, 1, d), 1, d) = SubSeq(at, 1, d)
    BY <1>6, <1>7
  <2> QED
    BY <2>1, <2>2, <2>3 DEF IsStrictPrefix, IsPrefix, n
<1>11. at # <<>>
  BY <1>4, <1>6, EmptySeq DEF n
<1>12. at \in Nodes
  <2>1. n \in 0..n
    BY <1>6
  <2>2. SubSeq(at, 1, n) \in Nodes
    BY <1>5, <2>1
  <2> QED
    BY <1>9, <2>2
<1>13. Front(at) = SubSeq(at, 1, n - 1)
  BY DEF Front, n
<1>14. \A d \in 1..n - 1 : Front(SubSeq(at, 1, d)) = SubSeq(at, 1, d - 1)
  <2> TAKE d \in 1..n - 1
  <2>1. d \in 0..n /\ d - 1 \in 0..n /\ d \in Nat
    BY <1>6
  <2> DEFINE long == SubSeq(at, 1, d)
             short == SubSeq(at, 1, d - 1)
  <2>2. /\ long \in Seq(S) /\ Len(long) = d /\ \A c \in 1..d : long[c] = at[c]
        /\ short \in Seq(S) /\ Len(short) = d - 1 /\ \A c \in 1..d - 1 : short[c] = at[c]
    BY <1>7, <2>1
  <2>3. Front(long) = SubSeq(long, 1, d - 1)
    BY <2>2 DEF Front
  <2> HIDE DEF long, short
  <2>4. /\ SubSeq(long, 1, d - 1) \in Seq(S) /\ Len(SubSeq(long, 1, d - 1)) = d - 1
        /\ \A c \in 1..d - 1 : SubSeq(long, 1, d - 1)[c] = long[c]
    <3>1. 1 \in 1..d + 1 /\ d - 1 \in 1 - 1..d
      BY <2>1
    <3> QED
      BY <2>1, <2>2, <3>1, SubSeqProperties
  <2>5. SubSeq(long, 1, d - 1) = short
    <3> DEFINE r == SubSeq(long, 1, d - 1)
    <3>1. \A c \in 1..d - 1 : c \in 1..d
      BY <2>1
    <3>2. r \in Seq(S) /\ Len(r) = Len(short) /\ \A c \in 1..Len(short) : r[c] = short[c]
      BY <2>2, <2>4, <3>1
    <3> HIDE DEF r
    <3>3. r = short
      BY <2>2, <3>2, SeqEqual
    <3> QED
      BY <3>3 DEF r
  <2> QED
    BY <2>3, <2>5 DEF long, short
<1> QED
  BY <1>4, <1>5, <1>6, <1>8, <1>9, <1>10, <1>11, <1>12, <1>13, <1>14 DEF at, n, path

LEMMA HoldingTypes ==
  ASSUME NEW node \in Holdings
  PROVE  /\ node \in [kind : Kinds, content : Contents]
         /\ node.kind = "absent" <=> node = Absent
         /\ node.kind = "dir" <=> node = Dir
         /\ node.kind = "symlink" <=> node = Symlink
<1>1. <<>> \in Contents
  BY EmptySeq DEF Contents
<1> QED
  BY <1>1 DEF Holdings, Absent, Dir, Symlink, Node, Kinds

LEMMA FileHolding ==
  ASSUME NEW content \in Contents
  PROVE  File(content) \in Holdings /\ File(content).kind = "file"
BY DEF Holdings, File, Node

LEMMA CountInit == Init => CountInv
<1> SUFFICES ASSUME Init PROVE CountInv
  OBVIOUS
<1>1. setting \in Settings /\ tree = setting.tree
  BY DEF Init
<1>2. tree \in [Nodes -> Holdings]
  BY <1>1, PayloadFacts, ExtractAssumption DEF Holdings
<1>3. \A n \in Nodes : tree[n] \in [kind : Kinds, content : Contents]
  BY <1>2, HoldingTypes
<1>4. tree \in [Nodes -> [kind : Kinds, content : Contents]]
  BY <1>2, <1>3
<1>5. /\ Len(manifest) \in Nat
      /\ 1 <= Len(manifest) => Len(Components(manifest[1].path)) \in Nat
  <2>1. Len(manifest) \in Nat /\ \A e \in 1..Len(manifest) : manifest[e] \in Entries
    BY <1>1, PayloadFacts
  <2>2. 1 <= Len(manifest) => manifest[1].path \in Seq(STRING)
    BY <2>1 DEF Entries
  <2> QED
    BY <2>1, <2>2, ComponentLength
<1>6. TypeOK
  <2>1. 0 \in 0..MaxEdits
    BY ExtractAssumption
  <2>2. /\ k \in 1..Len(manifest) + 1
        /\ k <= Len(manifest) => depth \in 0..Len(Components(manifest[k].path))
    BY <1>5 DEF Init
  <2>3. /\ pc = "start" /\ temp = "none" /\ ioFailed = FALSE /\ edits = 0
        /\ touched = {}
    BY DEF Init
  <2> QED
    BY <1>4, <2>1, <2>2, <2>3 DEF TypeOK
<1> QED
  BY <1>1, <1>2, <1>6
  DEF Init, CountInv, Early, PerEntry, Writing, Holdings

(* A place gets another content. *)
LEMMA TreeType ==
  ASSUME tree \in [Nodes -> Holdings], NEW n, NEW node \in Holdings,
         tree' = [tree EXCEPT ![n] = node]
  PROVE  tree' \in [Nodes -> Holdings]
OBVIOUS

(* Every step leaves a directory tree. *)
LEMMA HoldingNext ==
  ASSUME CountInv, BundleInv, [Next]_vars
  PROVE  /\ tree' \in [Nodes -> Holdings]
         /\ tree' \in [Nodes -> [kind : Kinds, content : Contents]]
<1>1. tree \in [Nodes -> Holdings]
  BY DEF CountInv, Holdings
<1>2. /\ Absent \in Holdings /\ Dir \in Holdings /\ Symlink \in Holdings
      /\ File(Foreign) \in Holdings
  BY FileHolding, ExtractAssumption DEF Holdings
<1>3. pc \in PerEntry => File(Slice(data, manifest[k])) \in Holdings
  <2> SUFFICES ASSUME pc \in PerEntry PROVE Slice(data, manifest[k]) \in Contents
    BY FileHolding
  <2>1. k \in 1..Len(manifest)
    BY DEF CountInv, TypeOK
  <2>2. EntryAuthentic(data, manifest[k]) /\ manifest[k] \in Entries
    BY <2>1, PayloadFacts DEF CountInv, BundleInv, Verifies, manifest, data
  <2> QED
    BY <2>2 DEF EntryAuthentic, Entries
<1>4. \/ tree' = tree
      \/ \E n : \E node \in {Absent, Dir, Symlink, File(Foreign)} :
            tree' = [tree EXCEPT ![n] = node]
      \/ pc \in PerEntry /\ Place
  <2>1. CASE Progress
    BY <2>1 DEF Progress, Start, OpenBundle, VerifyEntry, PrepareOutDir, CheckOutDir,
                CreateOutDir, EnsureParent, ParentEnsured, CheckTarget, WriteTemp,
                ChooseRename, RemoveTarget, Replace, PlaceNew, SyncDirectory,
                NextEntry, Goto, Reject, PerEntry, Writing
  <2>2. CASE Fault \/ UNCHANGED vars
    BY <2>2 DEF Fault, IOError, Kill, vars
  <2>3. ASSUME NEW n \in Nodes, EditTree(n)
        PROVE  \E node \in {Absent, Dir, Symlink, File(Foreign)} :
                 tree' = [tree EXCEPT ![n] = node]
    BY <2>3 DEF EditTree
  <2> QED
    BY <2>1, <2>2, <2>3 DEF Next
<1>5. tree' \in [Nodes -> Holdings]
  <2>1. CASE pc \in PerEntry /\ Place
    BY <1>1, <1>3, <2>1, TreeType DEF Place
  <2> QED
    BY <1>1, <1>2, <1>4, <2>1, TreeType
<1>6. \A n \in Nodes : tree'[n] \in [kind : Kinds, content : Contents]
  BY <1>5, HoldingTypes
<1> QED
  BY <1>5, <1>6

(* The variables of CountInv other than the tree. *)
Counting ==
  /\ pc \in Early \cup PerEntry \cup Final
  /\ k \in 1..Len(manifest) + 1
  /\ k <= Len(manifest) => depth \in 0..Len(Components(manifest[k].path))
  /\ temp \in {"none", "open"}
  /\ temp = "open" => pc \in {"persist", "replace", "noclobber", "crashed"}
  /\ ioFailed \in BOOLEAN
  /\ pc \in Early => depth = 0
  /\ pc \in Early \ {"verify"} => k = 1
  /\ pc \in PerEntry => k <= Len(manifest)
  /\ pc \in Writing => depth = Len(Target)
  /\ pc = "ok" /\ setting.mode = "extract" => k = Len(manifest) + 1

LEMMA CountingDef ==
  CountInv <=>
    /\ Counting /\ setting \in Settings /\ tree \in [Nodes -> Holdings]
    /\ tree \in [Nodes -> [kind : Kinds, content : Contents]]
    /\ edits \in 0..MaxEdits /\ touched \subseteq Nodes
BY DEF CountInv, TypeOK, Counting, Early, PerEntry, Writing, Final

LEMMA CountNext == CountInv /\ BundleInv /\ [Next]_vars => CountInv'
<1> SUFFICES ASSUME CountInv, BundleInv, [Next]_vars PROVE CountInv'
  OBVIOUS
<1>1. /\ Counting /\ setting \in Settings /\ edits \in 0..MaxEdits
      /\ touched \subseteq Nodes
  BY CountingDef
<1>2. /\ setting' = setting /\ manifest' = manifest
      /\ k' = k => Target' = Target
  BY Fixed
<1>3. Len(manifest) \in Nat
  BY <1>1, PayloadFacts
<1>4. pc \in PerEntry =>
        /\ k \in 1..Len(manifest)
        /\ Len(Target) = Len(Components(manifest[k].path)) /\ Len(Target) \in Nat
  <2> SUFFICES ASSUME pc \in PerEntry
               PROVE  /\ k \in 1..Len(manifest)
                      /\ Len(Target) = Len(Components(manifest[k].path)) /\ Len(Target) \in Nat
    OBVIOUS
  <2>1. k \in 1..Len(manifest)
    BY <1>1, <1>3 DEF Counting
  <2>2. ValidLayout(manifest, data)
    BY DEF BundleInv, PerEntry, Writing
  <2> QED
    BY <1>1, <2>1, <2>2, PlaceFacts DEF At, Target
<1>5. k + 1 <= Len(manifest) => Len(Components(manifest[k + 1].path)) \in Nat
  <2> SUFFICES ASSUME k + 1 <= Len(manifest)
               PROVE  Len(Components(manifest[k + 1].path)) \in Nat
    OBVIOUS
  <2>1. k + 1 \in 1..Len(manifest)
    BY <1>1, <1>3 DEF Counting
  <2>2. manifest[k + 1].path \in Seq(STRING)
    BY <1>1, <2>1, PayloadFacts DEF Entries
  <2> QED
    BY <2>2, ComponentLength
<1>6. 1 <= Len(manifest) => Len(Components(manifest[1].path)) \in Nat
  <2> SUFFICES ASSUME 1 <= Len(manifest)
               PROVE  Len(Components(manifest[1].path)) \in Nat
    OBVIOUS
  <2>1. 1 \in 1..Len(manifest)
    BY <1>3
  <2>2. manifest[1].path \in Seq(STRING)
    BY <1>1, <2>1, PayloadFacts DEF Entries
  <2> QED
    BY <2>2, ComponentLength
<1>7. ASSUME Progress PROVE Counting'
  <2> USE DEF Counting, Early, PerEntry, Writing, Final
  <2>1. CASE \/ Start \/ OpenBundle \/ PrepareOutDir \/ CheckOutDir
             \/ CheckTarget \/ WriteTemp \/ ChooseRename
             \/ RemoveTarget \/ SyncDirectory
    <3>1. UNCHANGED <<k, depth, ioFailed>>
      BY <2>1 DEF Start, OpenBundle, PrepareOutDir, CheckOutDir, CreateOutDir,
           CheckTarget, WriteTemp, ChooseRename, RemoveTarget, SyncDirectory,
           Goto, Reject, control
    <3>2. \/ pc \in Early /\ pc' \in Early /\ pc \notin {"verify"} /\ temp' = temp
          \/ pc \in Early \ {"verify"} /\ pc' = "parent" /\ manifest # <<>> /\ temp' = temp
          \/ pc \in Early \ {"verify"} /\ pc' = "ok" /\ manifest = <<>> /\ temp' = temp
          \/ /\ pc \in Writing /\ pc' \in Writing \cup {"next"}
             /\ temp' = temp \/ temp' = "open"
             /\ temp' = "open" => pc' \in {"persist", "replace", "noclobber"}
          \/ pc' = "error" /\ temp' = "none"
      BY <1>1, <2>1 DEF Start, OpenBundle, PrepareOutDir, CheckOutDir, CreateOutDir,
           CheckTarget, WriteTemp, ChooseRename, RemoveTarget, SyncDirectory,
           Goto, Reject, control, FirstEntry
    <3>3. manifest # <<>> <=> Len(manifest) > 0
      BY <1>1, PayloadFacts, EmptySeq
    <3> QED
      BY <1>1, <1>2, <1>3, <3>1, <3>2, <3>3
  <2>2. CASE VerifyEntry
    BY <1>1, <1>2, <1>3, <1>5, <1>6, <2>2 DEF VerifyEntry, Reject
  <2>3. CASE EnsureParent
    <3>1. /\ pc = "parent" /\ depth < Len(Target) /\ UNCHANGED <<k, ioFailed>>
          /\ \/ depth' = depth + 1 /\ UNCHANGED <<pc, temp>>
             \/ depth' = depth /\ pc' = "error" /\ temp' = "none"
      BY <2>3 DEF EnsureParent, Reject
    <3> QED
      BY <1>1, <1>2, <1>3, <1>4, <3>1
  <2>4. CASE ParentEnsured
    BY <1>1, <1>2, <1>3, <1>4, <2>4 DEF ParentEnsured, Goto, Reject
  <2>5. CASE Replace \/ PlaceNew
    <3>1. /\ UNCHANGED <<k, depth, ioFailed>> /\ pc \in {"replace", "noclobber"}
          /\ pc' \in {"syncDir", "next", "error"} /\ temp' = "none"
      BY <2>5 DEF Replace, PlaceNew, Place, Reject
    <3> QED
      BY <1>1, <1>2, <1>3, <3>1
  <2>6. CASE NextEntry
    <3>1. /\ k' = k + 1 /\ depth' = 0 /\ UNCHANGED <<temp, ioFailed>> /\ pc = "next"
          /\ \/ k = Len(manifest) /\ pc' = "ok"
             \/ k # Len(manifest) /\ pc' = "parent"
      BY <2>6 DEF NextEntry
    <3>2. k \in 1..Len(manifest) /\ temp # "open" /\ temp \in {"none", "open"}
      BY <1>1, <1>4, <3>1
    <3> QED
      BY <1>1, <1>2, <1>3, <1>5, <3>1, <3>2
  <2> QED
    BY <1>7, <2>1, <2>2, <2>3, <2>4, <2>5, <2>6 DEF Progress
<1>8. ASSUME Fault \/ UNCHANGED vars \/ \E n \in Nodes : EditTree(n)
      PROVE  Counting'
  <2>1. /\ UNCHANGED <<k, depth>>
        /\ \/ pc' = pc /\ UNCHANGED <<temp, ioFailed>>
           \/ pc' = "error" /\ temp' = "none" /\ ioFailed' = TRUE
           \/ pc' = "crashed" /\ UNCHANGED <<temp, ioFailed>>
    BY <1>8 DEF Fault, IOError, Kill, EditTree, vars, control
  <2> QED
    BY <1>1, <1>2, <2>1 DEF Counting, Early, PerEntry, Writing, Final
<1>9. edits' \in 0..MaxEdits /\ touched' \subseteq Nodes
  <2>1. CASE UNCHANGED <<edits, touched>>
    BY <1>1, <2>1
  <2>2. ASSUME NEW n \in Nodes, EditTree(n)
        PROVE  edits' \in 0..MaxEdits /\ touched' \subseteq Nodes
    BY <1>1, <2>2, ExtractAssumption DEF EditTree
  <2> QED
    BY <2>1, <2>2 DEF Next, Progress, Fault, vars
<1>10. Counting'
  BY <1>7, <1>8 DEF Next
<1> QED
  BY <1>1, <1>2, <1>9, <1>10, HoldingNext
  DEF CountInv, TypeOK, Counting, Early, PerEntry, Writing, Final

LEMMA BundleNext == CountInv /\ BundleInv /\ [Next]_vars => BundleInv'
<1> SUFFICES ASSUME CountInv, BundleInv, [Next]_vars PROVE BundleInv'
  OBVIOUS
<1>1. /\ setting' = setting /\ manifest' = manifest /\ data' = data
      /\ Len(manifest) \in Nat /\ DOMAIN manifest = 1..Len(manifest)
      /\ setting \in Settings /\ k \in 1..Len(manifest) + 1
  BY Fixed, PayloadFacts DEF CountInv, TypeOK
<1> DEFINE Known == setting.unlocks /\ Decodes(setting.payload) /\ ValidLayout(manifest, data)
<1>2. Known' <=> Known
  BY <1>1
<1>3. Verifies(setting.payload)' <=> Verifies(setting.payload)
  BY <1>1
<1>4. CASE VerifyEntry
  <2>1. Known /\ pc = "verify"
    BY <1>4 DEF VerifyEntry, BundleInv
  <2>2. CASE k > Len(manifest)
    <3>1. \A e \in 1..Len(manifest) : EntryAuthentic(data, manifest[e])
      BY <1>1, <2>1, <2>2 DEF BundleInv
    <3>2. Verifies(setting.payload)
      BY <1>1, <2>1, <3>1 DEF Verifies, manifest, data
    <3>3. pc' = IF setting.mode = "extract" THEN "outDir" ELSE "ok"
      BY <1>1, <1>4, <2>2 DEF VerifyEntry
    <3> QED
      BY <1>1, <1>2, <1>3, <2>1, <3>2, <3>3 DEF BundleInv, PerEntry, Writing
  <2>3. CASE k <= Len(manifest) /\ EntryAuthentic(data, manifest[k])
    <3>1. pc' = "verify" /\ k' = k + 1
      BY <1>1, <1>4, <2>1, <2>3 DEF VerifyEntry
    <3>2. \A e \in 1..Len(manifest) : e < k + 1 => e < k \/ e = k
      BY <1>1
    <3>3. \A e \in 1..Len(manifest) : e < k + 1 => EntryAuthentic(data, manifest[e])
      BY <2>1, <2>3, <3>2 DEF BundleInv
    <3> QED
      BY <1>1, <1>2, <1>3, <2>1, <3>1, <3>3 DEF BundleInv, PerEntry, Writing
  <2>4. CASE k <= Len(manifest) /\ ~EntryAuthentic(data, manifest[k])
    <3>1. pc' = "error"
      BY <1>1, <1>4, <2>4 DEF VerifyEntry, Reject
    <3> QED
      BY <3>1 DEF BundleInv, PerEntry, Writing
  <2> QED
    BY <1>1, <2>2, <2>3, <2>4
<1>5. CASE OpenBundle
  <2>1. pc' = "error" \/ (pc' = "verify" /\ Known /\ k' = k /\ k = 1)
    BY <1>5 DEF OpenBundle, Goto, Reject, CountInv, Early
  <2>2. \A e \in 1..Len(manifest) : ~(e < 1)
    BY <1>1
  <2> QED
    BY <1>1, <1>2, <1>3, <2>1, <2>2 DEF BundleInv, PerEntry, Writing
<1>6. CASE \/ Start \/ PrepareOutDir \/ CheckOutDir
           \/ EnsureParent \/ ParentEnsured \/ CheckTarget \/ WriteTemp
           \/ ChooseRename \/ RemoveTarget \/ Replace \/ PlaceNew
           \/ SyncDirectory \/ NextEntry
  <2>1. \/ pc = "start" /\ pc' = "open"
        \/ pc = "outDir" /\ pc' = "checkOutDir"
        \/ pc \in {"checkOutDir"} \cup PerEntry /\ pc' \in {"ok"} \cup PerEntry
        \/ pc' = "error"
    BY <1>6 DEF Start, PrepareOutDir, CheckOutDir, CreateOutDir, EnsureParent,
         ParentEnsured, CheckTarget, WriteTemp, ChooseRename, RemoveTarget, Replace,
         PlaceNew, Place, SyncDirectory, NextEntry, Goto, Reject, control, FirstEntry,
         PerEntry, Writing
  <2>2. pc' = "replace" => setting.force
    <3>1. CASE ChooseRename
      BY <3>1 DEF ChooseRename, Goto, Reject
    <3>2. CASE RemoveTarget
      BY <3>2 DEF RemoveTarget, BundleInv
    <3>3. CASE ~ChooseRename /\ ~RemoveTarget
      BY <1>6, <3>3 DEF Start, PrepareOutDir, CheckOutDir, CreateOutDir, EnsureParent,
         ParentEnsured, CheckTarget, WriteTemp, Replace, BundleInv,
         PlaceNew, Place, SyncDirectory, NextEntry, Goto, Reject, control, FirstEntry
    <3> QED
      BY <3>1, <3>2, <3>3
  <2> QED
    BY <1>1, <1>2, <1>3, <2>1, <2>2 DEF BundleInv, PerEntry, Writing
<1>7. CASE Fault \/ UNCHANGED vars \/ \E n \in Nodes : EditTree(n)
  <2>1. pc' \in {"error", "crashed"} \/ UNCHANGED <<pc, k>>
    BY <1>7 DEF Fault, IOError, Kill, EditTree, vars, control
  <2> QED
    BY <1>1, <1>2, <1>3, <2>1 DEF BundleInv, PerEntry, Writing
<1> QED
  BY <1>4, <1>5, <1>6, <1>7 DEF Next, Progress
-----------------------------------------------------------------------------
(* On a file system of either kind every entry of a well-formed bundle has *)
(* a place of its own.                                                     *)
LEMMA OwnPlaces ==
  ASSUME setting \in Settings, WellFormed(setting.payload),
         NEW e \in 1..Len(manifest), NEW f \in 1..Len(manifest), At(e) = At(f)
  PROVE  e = f
<1>1. DOMAIN manifest = 1..Len(manifest)
  BY PayloadFacts
<1>2. FoldedPlace(manifest[e].path) = FoldedPlace(manifest[f].path)
  BY DEF At, Resolve, FoldedPlace
<1>3. CollisionFree(manifest)
  BY DEF WellFormed, manifest
<1> QED
  BY <1>1, <1>2, <1>3 DEF CollisionFree

(* The entry being written: its place and what it is given. *)
LEMMA TargetFacts ==
  ASSUME CountInv, BundleInv, pc \in PerEntry
  PROVE  /\ k \in 1..Len(manifest) /\ Len(manifest) \in Nat
         /\ Target = At(k) /\ Target \in Nodes /\ Target # <<>>
         /\ Len(Target) \in Nat \ {0} /\ depth \in 0..Len(Target)
         /\ IsTarget(Target)
         /\ \A d \in 0..Len(Target) - 1 :
              Parent(d) \in Nodes /\ Parent(d) # Target /\ IsParent(Parent(d))
         /\ Parent(0) = <<>>
         /\ Front(Target) = Parent(Len(Target) - 1)
         /\ \A d \in 1..Len(Target) - 1 : Front(Parent(d)) = Parent(d - 1)
         /\ setting.unlocks /\ FilesSound(setting.payload)
         /\ Slice(data, manifest[k]) = manifest[k].hash
<1>1. /\ setting \in Settings /\ Len(manifest) \in Nat
      /\ k \in 1..Len(manifest) /\ Target = At(k)
  <2>1. setting \in Settings /\ k \in 1..Len(manifest) + 1 /\ k <= Len(manifest)
    BY DEF CountInv, TypeOK
  <2>2. Len(manifest) \in Nat
    BY <2>1, PayloadFacts
  <2> QED
    BY <2>1, <2>2 DEF Target, At
<1>2. /\ setting.unlocks /\ Verifies(setting.payload) /\ ValidLayout(manifest, data)
  BY DEF BundleInv, PerEntry, Writing
<1>3. FilesSound(setting.payload)
  BY <1>1, <1>2, PayloadFacts, AcceptsWellFormed
<1>4. Slice(data, manifest[k]) = manifest[k].hash
  BY <1>1, <1>2, PayloadFacts DEF Verifies, EntryAuthentic, manifest, data
<1>5. /\ Target \in Nodes /\ Target # <<>> /\ Len(Target) \in Nat \ {0}
      /\ Len(Target) = Len(Components(manifest[k].path))
      /\ \A d \in 0..Len(Target) : Parent(d) \in Nodes
      /\ \A d \in 0..Len(Target) - 1 :
           IsStrictPrefix(Parent(d), Target) /\ Parent(d) # Target
      /\ Parent(0) = <<>> /\ Front(Target) = Parent(Len(Target) - 1)
      /\ \A d \in 1..Len(Target) - 1 : Front(Parent(d)) = Parent(d - 1)
  BY <1>1, <1>2, PlaceFacts DEF Parent
<1>6. \A d \in 0..Len(Target) - 1 : d \in 0..Len(Target)
  BY <1>5
<1>7. \A d \in 0..Len(Target) - 1 : IsParent(Parent(d))
  BY <1>1, <1>5 DEF IsParent, At
<1>8. IsTarget(Target)
  BY <1>1 DEF IsTarget, At
<1>9. depth \in 0..Len(Target)
  BY <1>1, <1>5 DEF CountInv, TypeOK
<1> QED
  BY <1>1, <1>2, <1>3, <1>4, <1>5, <1>6, <1>7, <1>8, <1>9

(* Nothing is unmade: the command only goes on or ends. *)
LEMMA PlacedNext ==
  ASSUME CountInv, [Next]_vars, pc \notin Early
  PROVE  /\ pc' \notin Early
         /\ \A e \in 1..Len(manifest) : Placed(e) => Placed(e)'
<1>1. k \in 1..Len(manifest) + 1 /\ Len(manifest) \in Nat
  BY PayloadFacts DEF CountInv, TypeOK
<1>2. \/ pc' \in Final
      \/ k' = k /\ pc' \notin Early /\ (pc \in {"syncDir", "next"} => pc' \in {"syncDir", "next"})
                /\ pc \notin Final
      \/ k' = k + 1 /\ pc' = "parent" /\ pc = "next"
      \/ UNCHANGED <<k, pc>>
  <2>1. CASE Progress
    BY <2>1 DEF Progress, Start, OpenBundle, VerifyEntry, PrepareOutDir, CheckOutDir,
         EnsureParent, ParentEnsured, CheckTarget, WriteTemp, ChooseRename, RemoveTarget,
         Replace, PlaceNew, Place, SyncDirectory, NextEntry, Goto, Reject, control,
         Early, Final
  <2>2. CASE Fault \/ UNCHANGED vars \/ \E n \in Nodes : EditTree(n)
    BY <2>2 DEF Fault, IOError, Kill, EditTree, vars, control, Final
  <2> QED
    BY <2>1, <2>2 DEF Next
<1> QED
  BY <1>1, <1>2 DEF Placed, Early, Final

(* A place the step leaves alone. *)
LEMMA Stays ==
  ASSUME CountInv, [Next]_vars, NEW n, Untouched(n), tree'[n] = tree[n],
         Missing(n) => pc' \in Final \/ (pc' = "replace" /\ k' = k)
  PROVE  Untouched(n)'
<1>1. /\ setting' = setting /\ manifest' = manifest /\ Prior(n)' = Prior(n)
      /\ IsTarget(n)' = IsTarget(n) /\ IsParent(n)' = IsParent(n)
      /\ \A e : At(e)' = At(e)
      /\ k' = k => Target' = Target
  BY Fixed
<1>2. CASE tree[n] = Prior(n) \/ (n = <<>> /\ Prior(n) = Absent /\ tree[n] = Dir)
  BY <1>1, <1>2 DEF Untouched
<1>3. CASE /\ pc \notin Early /\ setting.unlocks /\ FilesSound(setting.payload)
           /\ NewDirectory(n) \/ NewFile(n) \/ Missing(n)
  <2>1. pc' \notin Early /\ \A e \in 1..Len(manifest) : Placed(e) => Placed(e)'
    BY <1>3, PlacedNext
  <2>2. NewDirectory(n) => NewDirectory(n)'
    BY <1>1 DEF NewDirectory
  <2>3. NewFile(n) => NewFile(n)'
    BY <1>1, <2>1 DEF NewFile
  <2>4. Missing(n) => Missing(n)'
    <3> SUFFICES ASSUME Missing(n) PROVE Missing(n)'
      OBVIOUS
    <3>1. pc \in Final => pc' \in Final
      BY PlacedNext, <1>3 DEF Next, Progress, Start, OpenBundle, VerifyEntry, PrepareOutDir,
         CheckOutDir, EnsureParent, ParentEnsured, CheckTarget, WriteTemp, ChooseRename,
         RemoveTarget, Replace, PlaceNew, SyncDirectory, NextEntry, Fault, IOError, Kill,
         EditTree, vars, control, Final
    <3> QED
      BY <1>1, <3>1 DEF Missing
  <2> QED
    BY <1>1, <1>3, <2>1, <2>2, <2>3, <2>4 DEF Untouched
<1> QED
  BY <1>2, <1>3 DEF Untouched

LEMMA TreeInit == Init => TreeInv
BY DEF Init, TreeInv, Untouched, Prior

(* create_dir_all makes the output directory where there was nothing. *)
LEMMA CreateOutDirTree ==
  ASSUME CountInv, TreeInv, [Next]_vars, touched' = touched,
         pc \in Early, pc' # "replace",
         tree[<<>>].kind \in {"absent", "dir"}, tree' = [tree EXCEPT ![<<>>] = Dir]
  PROVE  TreeInv'
<1>1. /\ tree \in [Nodes -> Holdings] /\ <<>> \in Nodes /\ Prior(<<>>)' = Prior(<<>>)
  BY Fixed, ExtractAssumption DEF CountInv
<1>2. tree[<<>>] = Absent \/ tree[<<>>] = Dir
  BY <1>1, HoldingTypes
<1>3. ASSUME NEW n \in Nodes \ touched PROVE Untouched(n)'
  <2>1. CASE n = <<>>
    <3>1. tree'[<<>>] = Dir
      BY <1>1
    <3>2. tree[<<>>] = Prior(<<>>) \/ Prior(<<>>) = Absent
      BY <1>3, <2>1 DEF TreeInv, Untouched
    <3> QED
      BY <1>1, <1>2, <2>1, <3>1, <3>2 DEF Untouched
  <2>2. CASE n # <<>>
    <3>1. tree'[n] = tree[n] /\ Untouched(n) /\ ~Missing(n)
      BY <1>1, <1>3, <2>2 DEF TreeInv, Missing, Early, Final
    <3> QED
      BY <3>1, Stays
  <2> QED
    BY <2>1, <2>2
<1> QED
  BY <1>3 DEF TreeInv

LEMMA EnsureParentTree ==
  ASSUME CountInv, BundleInv, TreeInv, [Next]_vars, EnsureParent, touched' = touched
  PROVE  TreeInv'
<1>1. /\ pc = "parent" /\ pc' # "replace" /\ depth < Len(Target)
      /\ tree \in [Nodes -> Holdings]
  BY DEF EnsureParent, Reject, CountInv
<1> DEFINE m == Parent(depth)
<1>2. /\ IsParent(m) /\ m \in Nodes /\ setting.unlocks /\ FilesSound(setting.payload)
      /\ pc' \notin Early
  <2>1. depth \in 0..Len(Target) - 1
    BY <1>1, TargetFacts DEF PerEntry
  <2>2. pc' \notin Early
    BY <1>1, PlacedNext DEF Early
  <2> QED
    BY <1>1, <2>1, <2>2, TargetFacts DEF PerEntry
<1>3. /\ setting' = setting
      /\ \A n : Prior(n)' = Prior(n) /\ IsParent(n)' = IsParent(n)
  BY Fixed
<1>4. \/ tree' = tree
      \/ tree[m] \in {Dir, Absent} /\ tree' = [tree EXCEPT ![m] = Dir]
  BY DEF EnsureParent, Reject
<1> HIDE DEF m
<1>5. ASSUME NEW n \in Nodes \ touched PROVE Untouched(n)'
  <2>1. Untouched(n) /\ (Missing(n) => pc' \in Final \/ (pc' = "replace" /\ k' = k))
    BY <1>1, <1>5 DEF TreeInv, Missing, Final
  <2>2. CASE tree'[n] = tree[n]
    BY <2>1, <2>2, Stays
  <2>3. CASE tree'[n] # tree[n]
    <3>1. n = m /\ tree[n] = Absent /\ tree'[n] = Dir
      BY <1>1, <1>2, <1>4, <2>3
    <3>2. Prior(n) = Absent
      <4>1. pc = "parent" /\ tree[n] = Absent /\ Untouched(n)
        BY <1>1, <2>1, <3>1
      <4>2. tree[n] # Dir /\ \A content : tree[n] # File(content)
        BY <4>1 DEF Absent, Dir, File, Node
      <4>3. ~NewDirectory(n) /\ ~NewFile(n) /\ ~Missing(n)
        BY <4>1, <4>2 DEF NewDirectory, NewFile, Missing, Final
      <4> QED
        BY <4>1, <4>2, <4>3 DEF Untouched
    <3> QED
      BY <1>2, <1>3, <3>1, <3>2 DEF Untouched, NewDirectory
  <2> QED
    BY <2>2, <2>3
<1> QED
  BY <1>1, <1>5 DEF TreeInv

(* Windows only: the target is missing until the rename. *)
LEMMA RemoveTargetTree ==
  ASSUME CountInv, BundleInv, TreeInv, [Next]_vars, RemoveTarget, touched' = touched
  PROVE  TreeInv'
<1>1. /\ pc = "replace" /\ pc' = pc /\ k' = k /\ setting.force
      /\ setting.platform = "windows" /\ tree' = [tree EXCEPT ![Target] = Absent]
      /\ tree \in [Nodes -> Holdings]
  BY DEF RemoveTarget, control, BundleInv, CountInv
<1>2. /\ IsTarget(Target) /\ Target \in Nodes /\ setting.unlocks
      /\ FilesSound(setting.payload)
  BY <1>1, TargetFacts DEF PerEntry, Writing
<1>3. /\ Target' = Target /\ setting' = setting
      /\ \A n : Prior(n)' = Prior(n) /\ IsTarget(n)' = IsTarget(n)
  BY <1>1, Fixed
<1>4. ASSUME NEW n \in Nodes \ touched PROVE Untouched(n)'
  <2>1. CASE n # Target
    <3>1. tree'[n] = tree[n] /\ Untouched(n)
      BY <1>1, <1>4, <2>1 DEF TreeInv
    <3> QED
      BY <1>1, <3>1, Stays
  <2>2. CASE n = Target
    <3>1. tree'[n] = Absent /\ (Prior(n) = Absent \/ Prior(n).kind = "file")
      BY <1>1, <1>2, <1>4, <2>2 DEF TreeInv
    <3>2. CASE Prior(n) = Absent
      BY <1>3, <3>1, <3>2 DEF Untouched
    <3>3. CASE Prior(n).kind = "file"
      <4>1. Missing(n)'
        BY <1>1, <1>2, <1>3, <2>2, <3>1, <3>3 DEF Missing
      <4> QED
        BY <1>1, <1>2, <1>3, <4>1 DEF Untouched, Early
    <3> QED
      BY <3>1, <3>2, <3>3
  <2> QED
    BY <2>1, <2>2
<1>5. Target' \notin touched' =>
        /\ Prior(Target') = Absent \/ Prior(Target').kind = "file"
        /\ tree'[Target'] = Absent /\ setting'.platform = "windows"
  BY <1>1, <1>2, <1>3 DEF TreeInv
<1>6. \A n : Prior(n)' = Prior(n)
  BY <1>3
<1> QED
  BY <1>1, <1>3, <1>4, <1>5 DEF TreeInv, Prior

(* The rename gives the target its whole content. *)
LEMMA PlaceTree ==
  ASSUME CountInv, BundleInv, TreeInv, [Next]_vars, Replace \/ PlaceNew, Place,
         touched' = touched
  PROVE  TreeInv'
<1>1. /\ pc \in {"replace", "noclobber"} /\ pc' \in {"syncDir", "next"} /\ k' = k
      /\ tree' = [tree EXCEPT ![Target] = File(Slice(data, manifest[k]))]
      /\ tree \in [Nodes -> Holdings]
  BY DEF Replace, PlaceNew, Place, CountInv
<1>2. /\ Target \in Nodes /\ setting.unlocks /\ Target = At(k)
      /\ k \in 1..Len(manifest)
      /\ FilesSound(setting.payload) /\ Slice(data, manifest[k]) = manifest[k].hash
  BY <1>1, TargetFacts DEF PerEntry, Writing
<1>3. /\ Target' = Target /\ setting' = setting /\ manifest' = manifest
      /\ \A n : Prior(n)' = Prior(n)
      /\ \A e : At(e)' = At(e)
  BY <1>1, Fixed
<1>4. ASSUME NEW n \in Nodes \ touched PROVE Untouched(n)'
  <2>1. CASE n # Target
    <3>1. tree'[n] = tree[n] /\ Untouched(n) /\ ~Missing(n)
      BY <1>1, <1>4, <2>1 DEF TreeInv, Missing, Final
    <3> QED
      BY <3>1, Stays
  <2>2. CASE n = Target
    <3>1. Prior(n) = Absent \/ (setting.force /\ Prior(n).kind = "file")
      <4>1. CASE pc = "replace"
        BY <1>4, <2>2, <4>1 DEF TreeInv, BundleInv
      <4>2. CASE pc = "noclobber"
        <5>1. tree[n] = Absent /\ Untouched(n)
          BY <1>4, <2>2, <4>2, <1>1 DEF PlaceNew, Replace, Reject, TreeInv
        <5> QED
          BY <4>2, <5>1
          DEF Untouched, NewDirectory, NewFile, Missing, Final, Absent, Dir, File, Node
      <4> QED
        BY <1>1, <4>1, <4>2
    <3>2. tree'[n] = File(manifest[k].hash)
      BY <1>1, <1>2, <2>2
    <3>3. Placed(k)'
      BY <1>1 DEF Placed
    <3>4. NewFile(n)'
      <4>1. \E f \in 1..Len(manifest) :
              At(f)' = n /\ tree'[n] = File(manifest'[f].hash) /\ Placed(f)'
        <5>1. k \in 1..Len(manifest) /\ At(k) = n /\ tree'[n] = File(manifest'[k].hash)
          BY <1>2, <1>3, <2>2, <3>2
        <5>2. \A f : f = k => Placed(f)'
          BY <1>1 DEF Placed
        <5> QED
          BY <1>3, <5>1, <5>2
      <4> QED
        BY <1>3, <3>1, <4>1 DEF NewFile
    <3> QED
      BY <1>1, <1>2, <1>3, <3>4 DEF Untouched, Early
  <2> QED
    BY <2>1, <2>2
<1> QED
  BY <1>1, <1>4 DEF TreeInv

(* A target is to be replaced only where an ordinary file was before. *)
LEMMA ChooseRenameTree ==
  ASSUME CountInv, BundleInv, TreeInv, [Next]_vars, ChooseRename, pc' = "replace",
         touched' = touched
  PROVE  TreeInv'
<1>1. /\ pc = "persist" /\ k' = k /\ tree' = tree
      /\ Replaceable(tree[Target])
  BY DEF ChooseRename, Goto, Reject
<1>2. Target \in Nodes
  BY <1>1, TargetFacts DEF PerEntry, Writing
<1>3. Target' = Target /\ setting' = setting /\ \A n : Prior(n)' = Prior(n)
  BY <1>1, Fixed
<1>4. ASSUME NEW n \in Nodes \ touched PROVE Untouched(n)'
  <2>1. Untouched(n) /\ ~Missing(n) /\ tree'[n] = tree[n]
    BY <1>1, <1>4 DEF TreeInv, Missing, Final
  <2> QED
    BY <2>1, Stays
<1>5. ASSUME Target \notin touched
      PROVE  /\ Prior(Target) = Absent \/ Prior(Target).kind = "file"
             /\ tree[Target].kind = "file"
  <2>1. Untouched(Target)
    BY <1>2, <1>5 DEF TreeInv
  <2>2. tree[Target].kind = "file"
    BY <1>1 DEF Replaceable
  <2>3. tree[Target] # Dir /\ tree[Target] # Absent
    BY <2>2 DEF Dir, Absent, Node
  <2> QED
    BY <2>1, <2>2, <2>3 DEF Untouched, NewDirectory, NewFile, Missing
<1> QED
  BY <1>1, <1>3, <1>4, <1>5 DEF TreeInv, Prior

LEMMA TreeNext == CountInv /\ BundleInv /\ TreeInv /\ [Next]_vars => TreeInv'
<1> SUFFICES ASSUME CountInv, BundleInv, TreeInv, [Next]_vars PROVE TreeInv'
  OBVIOUS
<1>1. /\ setting' = setting /\ (k' = k => Target' = Target)
      /\ \A n : Prior(n)' = Prior(n)
  BY Fixed
<1>2. tree \in [Nodes -> Holdings]
  BY DEF CountInv
<1>3. CASE /\ Progress /\ tree' = tree /\ pc' # "replace"
           /\ pc = "replace" => pc' = "error"
  <2>1. touched' = touched
    BY <1>3 DEF Progress
  <2>2. pc \notin Final
    BY <1>3 DEF Progress, Start, OpenBundle, VerifyEntry, PrepareOutDir, CheckOutDir,
         EnsureParent, ParentEnsured, CheckTarget, WriteTemp, ChooseRename, RemoveTarget,
         Replace, PlaceNew, SyncDirectory, NextEntry, Final
  <2>3. ASSUME NEW n \in Nodes \ touched PROVE Untouched(n)'
    <3>1. Untouched(n) /\ (Missing(n) => pc' \in Final)
      BY <1>3, <2>1, <2>2, <2>3 DEF TreeInv, Missing, Final
    <3> QED
      BY <1>3, <3>1, Stays
  <2> QED
    BY <1>3, <2>1, <2>3 DEF TreeInv
<1>4. CASE /\ Progress
           /\ tree' = tree /\ pc' # "replace" => ~(pc = "replace" => pc' = "error")
  <2>1. touched' = touched
    BY <1>4 DEF Progress
  <2>2. CASE Start \/ PrepareOutDir
    <3>1. /\ pc \in Early /\ pc' # "replace" /\ tree[<<>>].kind \in {"absent", "dir"}
          /\ tree' = [tree EXCEPT ![<<>>] = Dir]
      BY <1>4, <2>2 DEF Start, PrepareOutDir, CreateOutDir, Goto, Reject, Early
    <3> QED
      BY <2>1, <3>1, CreateOutDirTree
  <2>3. CASE EnsureParent
    BY <2>1, <2>3, EnsureParentTree
  <2>4. CASE ChooseRename
    <3>1. pc' = "replace"
      BY <1>4, <2>4 DEF ChooseRename, Goto, Reject
    <3> QED
      BY <2>1, <2>4, <3>1, ChooseRenameTree
  <2>5. CASE RemoveTarget
    BY <2>1, <2>5, RemoveTargetTree
  <2>6. CASE Replace \/ PlaceNew
    <3>1. Place
      BY <1>4, <2>6 DEF Replace, PlaceNew, Reject
    <3> QED
      BY <2>1, <2>6, <3>1, PlaceTree
  <2>7. CASE \/ OpenBundle \/ VerifyEntry \/ CheckOutDir \/ ParentEnsured \/ CheckTarget
             \/ WriteTemp \/ SyncDirectory \/ NextEntry
    <3>1. tree' = tree /\ pc' # "replace" /\ pc # "replace"
      BY <2>7 DEF OpenBundle, VerifyEntry, CheckOutDir, ParentEnsured, CheckTarget,
           WriteTemp, SyncDirectory, NextEntry, Goto, Reject, FirstEntry
    <3> QED
      BY <1>4, <3>1
  <2> QED
    BY <1>4, <2>2, <2>3, <2>4, <2>5, <2>6, <2>7 DEF Progress
<1>5. CASE Fault \/ UNCHANGED vars
  <2>1. /\ UNCHANGED <<k, tree, touched>> /\ (pc' \in Final \/ pc' = pc)
        /\ pc \in Final => pc' \in Final
    BY <1>5 DEF Fault, IOError, Kill, vars, control, Final
  <2>2. ASSUME NEW n \in Nodes \ touched PROVE Untouched(n)'
    <3>1. /\ Untouched(n)
          /\ Missing(n) => pc' \in Final \/ (pc' = "replace" /\ k' = k)
      BY <2>1, <2>2 DEF TreeInv, Missing
    <3> QED
      BY <2>1, <3>1, Stays
  <2>3. pc' = "replace" => pc = "replace"
    BY <2>1 DEF Final
  <2> QED
    BY <1>1, <2>1, <2>2, <2>3 DEF TreeInv, Prior
<1>6. ASSUME NEW m \in Nodes, EditTree(m) PROVE TreeInv'
  <2>1. /\ UNCHANGED <<k, pc>> /\ touched' = touched \cup {m}
        /\ \A n \in Nodes \ {m} : tree'[n] = tree[n]
    BY <1>2, <1>6 DEF EditTree, control
  <2>2. ASSUME NEW n \in Nodes \ touched' PROVE Untouched(n)'
    <3>1. /\ Untouched(n) /\ tree'[n] = tree[n]
          /\ Missing(n) => pc' \in Final \/ (pc' = "replace" /\ k' = k)
      BY <2>1, <2>2 DEF TreeInv, Missing
    <3> QED
      BY <3>1, Stays
  <2>3. ASSUME pc' = "replace", Target \notin touched'
        PROVE  /\ Prior(Target) = Absent \/ Prior(Target).kind = "file"
               /\ tree'[Target] = tree[Target]
               /\ tree[Target].kind = "file"
                  \/ (tree[Target] = Absent /\ setting.platform = "windows")
    <3>1. pc = "replace" /\ Target \notin touched /\ Target # m
      BY <2>1, <2>3
    <3>2. Target \in Nodes
      BY <3>1, TargetFacts DEF PerEntry, Writing
    <3> QED
      BY <2>1, <3>1, <3>2 DEF TreeInv
  <2> QED
    BY <1>1, <2>1, <2>2, <2>3 DEF TreeInv, Prior
<1> QED
  BY <1>3, <1>4, <1>5, <1>6 DEF Next

LEMMA BundleInit == Init => BundleInv
BY DEF Init, BundleInv, PerEntry, Writing

LEMMA DoneInit == Init => DoneInv
BY DEF Init, DoneInv, Extracting, PerEntry, Writing

LEMMA DoneNext == CountInv /\ BundleInv /\ DoneInv /\ [Next]_vars => DoneInv'
<1> SUFFICES ASSUME CountInv, BundleInv, DoneInv, [Next]_vars PROVE DoneInv'
  OBVIOUS
<1> SUFFICES ASSUME Extracting', NEW e \in 1..Len(manifest), Done(e)'
             PROVE  \/ At(e) \in touched' \/ tree'[At(e)] = File(manifest[e].hash)
                    \/ Followed(e)'
  BY Fixed DEF DoneInv, HasFile
<1>1. /\ Len(manifest) \in Nat /\ k \in 1..Len(manifest) + 1
      /\ tree \in [Nodes -> Holdings] /\ setting' = setting
  BY Fixed, PayloadFacts DEF CountInv, TypeOK
<1>7. ASSUME Followed(e), k' = k \/ k' = k + 1 PROVE Followed(e)'
  <2>1. PICK f \in e + 1..Len(manifest) : f <= k /\ At(f) = At(e)
    BY <1>7 DEF Followed
  <2>2. f <= k'
    BY <1>1, <1>7, <2>1
  <2>3. setting'.force /\ manifest' = manifest /\ At(f)' = At(e)'
    BY <1>1, <1>7, <2>1, Fixed DEF Followed
  <2> QED
    BY <2>1, <2>2, <2>3 DEF Followed
<1>2. CASE UNCHANGED vars
  <2>1. Extracting /\ Done(e) /\ k' = k
    BY <1>2 DEF vars, control, Extracting, Done
  <2>2. HasFile(e) \/ Followed(e)
    BY <2>1 DEF DoneInv
  <2>3. HasFile(e) => At(e) \in touched' \/ tree'[At(e)] = File(manifest[e].hash)
    BY <1>2 DEF vars, HasFile
  <2> QED
    BY <1>7, <2>1, <2>2, <2>3
<1>3. CASE Next /\ pc \in Early
  <2>1. k' = k /\ k = 1 /\ pc' \notin {"syncDir", "next"}
    <3>1. CASE Progress
      BY <1>3, <3>1 DEF Progress, Start, OpenBundle, VerifyEntry, PrepareOutDir, CheckOutDir,
         CreateOutDir, EnsureParent, ParentEnsured, CheckTarget, WriteTemp, ChooseRename,
         RemoveTarget, Replace, PlaceNew, SyncDirectory, NextEntry, Goto, Reject, FirstEntry,
         Extracting, PerEntry, Writing, Early, CountInv
    <3>2. CASE Fault \/ \E n \in Nodes : EditTree(n)
      BY <1>3, <3>2 DEF Fault, IOError, Kill, EditTree, control, Extracting, PerEntry,
         Writing, Early
    <3> QED
      BY <1>3, <3>1, <3>2 DEF Next
  <2>2. k' = 1 => ~(e < k')
    OBVIOUS
  <2> QED
    BY <2>1, <2>2 DEF Done
<1>4. CASE Next /\ pc \in PerEntry
  <2>1. \A f \in 1..Len(manifest) : Done(f) => HasFile(f) \/ Followed(f)
    BY <1>4 DEF DoneInv, Extracting
  <2>2. /\ k \in 1..Len(manifest) /\ Target = At(k) /\ Target \in Nodes
        /\ Slice(data, manifest[k]) = manifest[k].hash
    BY <1>4, TargetFacts
  <2>3. At(e) \in Nodes
    BY <1>1, <1>4, PlaceFacts DEF BundleInv, CountInv, PerEntry, Writing
  <2>8. ASSUME setting.force, At(e) = Target, e < k PROVE Followed(e)
    <3>1. k \in e + 1..Len(manifest) /\ k <= k /\ At(k) = At(e)
      BY <1>1, <2>2, <2>8
    <3> QED
      BY <2>8, <3>1 DEF Followed
  <2>4. CASE Progress /\ (Replace \/ PlaceNew) /\ Place
    <3>1. /\ tree' = [tree EXCEPT ![Target] = File(manifest[k].hash)]
          /\ k' = k /\ touched' = touched /\ pc \notin {"syncDir", "next"}
      BY <2>2, <2>4 DEF Progress, Replace, PlaceNew, Place
    <3>2. CASE e = k
      BY <1>1, <2>2, <3>1, <3>2
    <3>3. CASE e # k
      <4>1. Done(e) /\ e < k
        BY <3>1, <3>3 DEF Done
      <4>2. CASE Followed(e)
        BY <1>7, <3>1, <4>2
      <4>3. CASE HasFile(e) /\ At(e) # Target
        BY <1>1, <2>3, <3>1, <4>3 DEF HasFile
      <4>4. CASE HasFile(e) /\ At(e) = Target /\ setting.force
        BY <1>7, <2>8, <3>1, <4>1, <4>4
      <4>5. CASE HasFile(e) /\ At(e) = Target /\ ~setting.force
        <5>1. tree[Target] = Absent
          BY <2>4, <4>5 DEF Replace, PlaceNew, Place, Reject, BundleInv
        <5>2. tree[Target] # File(manifest[e].hash)
          BY <5>1 DEF Absent, File, Node
        <5> QED
          BY <3>1, <4>5, <5>2 DEF HasFile
      <4> QED
        BY <2>1, <4>1, <4>2, <4>3, <4>4, <4>5
    <3> QED
      BY <3>2, <3>3
  <2>5. CASE Progress /\ ~((Replace \/ PlaceNew) /\ Place)
    <3>1. Done(e) /\ (k' = k \/ k' = k + 1)
      <4>1. CASE NextEntry
        <5>1. pc = "next" /\ k' = k + 1 /\ pc' \notin {"syncDir", "next"}
          BY <4>1 DEF NextEntry
        <5>2. e < k + 1 => e < k \/ e = k
          BY <1>1
        <5> QED
          BY <5>1, <5>2 DEF Done
      <4>2. CASE ~NextEntry
        <5>1. k' = k /\ (pc' \in {"syncDir", "next"} => pc \in {"syncDir", "next"})
          BY <1>4, <2>5, <4>2 DEF Progress, Start, OpenBundle, VerifyEntry, PrepareOutDir,
             CheckOutDir, CreateOutDir, EnsureParent, ParentEnsured, CheckTarget, WriteTemp,
             ChooseRename, RemoveTarget, Replace, PlaceNew, SyncDirectory, Goto, Reject,
             control, PerEntry, Writing
        <5> QED
          BY <5>1 DEF Done
      <4> QED
        BY <4>1, <4>2
    <3>7. CASE Followed(e)
      BY <1>7, <3>1, <3>7
    <3> SUFFICES ASSUME ~Followed(e)
                 PROVE  \/ At(e) \in touched'
                        \/ tree'[At(e)] = File(manifest[e].hash)
      BY <3>7
    <3>2. touched' = touched /\ HasFile(e)
      BY <2>1, <2>5, <3>1 DEF Progress
    <3>3. \/ tree' = tree
          \/ \E n : tree[n] \in {Absent, Dir} /\ tree' = [tree EXCEPT ![n] = Dir]
          \/ pc = "replace" /\ k' = k /\ pc' = pc
             /\ tree' = [tree EXCEPT ![Target] = Absent]
      BY <1>4, <2>5 DEF Progress, Start, OpenBundle, VerifyEntry, PrepareOutDir, CheckOutDir,
         CreateOutDir, EnsureParent, ParentEnsured, CheckTarget, WriteTemp, ChooseRename,
         RemoveTarget, Replace, PlaceNew, SyncDirectory, NextEntry, Goto, Reject, control,
         PerEntry, Writing
    <3>4. CASE tree' = tree
      BY <3>2, <3>4 DEF HasFile
    <3>5. ASSUME NEW n, tree[n] \in {Absent, Dir}, tree' = [tree EXCEPT ![n] = Dir]
          PROVE  At(e) \in touched' \/ tree'[At(e)] = File(manifest[e].hash)
      <4>1. File(manifest[e].hash) \notin {Absent, Dir}
        BY DEF File, Absent, Dir, Node
      <4> QED
        BY <1>1, <2>3, <3>2, <3>5, <4>1 DEF HasFile
    <3>6. CASE pc = "replace" /\ k' = k /\ pc' = pc
               /\ tree' = [tree EXCEPT ![Target] = Absent]
      <4>1. e < k /\ setting.force
        BY <3>1, <3>6 DEF Done, BundleInv
      <4>2. At(e) # Target
        BY <2>8, <4>1
      <4> QED
        BY <1>1, <2>2, <2>3, <3>2, <3>6, <4>2 DEF HasFile
    <3> QED
      BY <3>3, <3>4, <3>5, <3>6
  <2>6. CASE Fault
    BY <2>6 DEF Fault, IOError, Kill, Extracting, PerEntry, Writing
  <2>7. ASSUME NEW n \in Nodes, EditTree(n)
        PROVE  \/ At(e) \in touched' \/ tree'[At(e)] = File(manifest[e].hash)
               \/ Followed(e)'
    <3>1. /\ UNCHANGED <<k, pc>> /\ touched' = touched \cup {n}
          /\ \A m \in Nodes \ {n} : tree'[m] = tree[m]
      BY <1>1, <2>7 DEF EditTree, control
    <3>2. HasFile(e) \/ Followed(e)
      BY <2>1, <3>1 DEF Done
    <3>3. CASE HasFile(e)
      BY <2>3, <3>1, <3>3 DEF HasFile
    <3>4. CASE Followed(e)
      BY <1>7, <3>1, <3>4
    <3> QED
      BY <3>2, <3>3, <3>4
  <2> QED
    BY <1>4, <2>4, <2>5, <2>6, <2>7 DEF Next
<1>5. CASE Next /\ pc \in Final
  BY <1>5 DEF Next, Progress, Start, OpenBundle, VerifyEntry, PrepareOutDir, CheckOutDir,
     EnsureParent, ParentEnsured, CheckTarget, WriteTemp, ChooseRename, RemoveTarget,
     Replace, PlaceNew, SyncDirectory, NextEntry, Fault, IOError, Kill, EditTree, Final
<1>6. pc \in Early \cup PerEntry \cup Final
  BY CountingDef DEF Counting
<1> QED
  BY <1>2, <1>3, <1>4, <1>5, <1>6
-----------------------------------------------------------------------------
(* An ordinary file, or a link, in a place nobody touched. *)
LEMMA Found ==
  ASSUME TreeInv, touched = {}, NEW n \in Nodes, tree[n] \notin {Absent, Dir}
  PROVE  tree[n] = Prior(n) \/ (pc \notin Early /\ NewFile(n))
BY DEF TreeInv, Untouched, NewDirectory, Missing

(* The entries above the one being written are directories, so its         *)
(* directory is there when all of them were ensured.                       *)
LEMMA ParentThere ==
  ASSUME CountInv, BundleInv, Clear, pc \in PerEntry, depth = Len(Target)
  PROVE  InDirectory(Target)
<1>1. /\ Len(Target) \in Nat \ {0} /\ Front(Target) = Parent(Len(Target) - 1)
  BY TargetFacts
<1>2. Len(Target) - 1 \in 0..depth - 1
  BY <1>1
<1>3. tree[Parent(Len(Target) - 1)] = Dir
  BY <1>2 DEF Clear
<1> QED
  BY <1>1, <1>3 DEF InDirectory

(* The reasons of WellFormedAccepted. *)
Excused ==
  \/ ~setting.unlocks \/ ~Decodes(setting.payload)
  \/ ~WellFormed(setting.payload)
  \/ setting.mode = "extract" /\ Obstructed

(* A normalized path ends in a name. *)
LEMMA NamesFile ==
  ASSUME setting \in Settings, k \in 1..Len(manifest), Unnamed
  PROVE  ~WellFormed(setting.payload)
<1> SUFFICES ASSUME WellFormed(setting.payload) PROVE FALSE
  OBVIOUS
<1> DEFINE path == manifest[k].path
<1>1. ValidPath(path) /\ Components(path) = path
  BY PayloadFacts DEF WellFormed, FilesSound, Normalized, manifest
<1>2. Last(path) \in Skipped
  BY DEF Unnamed
<1> HIDE DEF path
<1>3. path \in Seq(Names) /\ Len(path) \in Nat \ {0}
  BY <1>1, ComponentFacts
<1>4. path[Len(path)] \in Names
  BY <1>3, ElementOfSeq
<1> QED
  BY <1>2, <1>4, BundleAssumption DEF Last

LEMMA OutDirObstructed ==
  ASSUME CountInv, TreeInv, touched = {}, pc \in Early,
         tree[<<>>].kind \notin {"absent", "dir"}
  PROVE  Obstructed
<1>1. <<>> \in Nodes /\ tree[<<>>] \notin {Absent, Dir}
  BY ExtractAssumption DEF Absent, Dir, Node
<1> QED
  BY <1>1, Found DEF Obstructed

LEMMA RejectExcused ==
  ASSUME CountInv, BundleInv, TreeInv, Clear, touched = {}, Progress, pc' = "error"
  PROVE  Excused
<1>1. setting \in Settings /\ tree \in [Nodes -> Holdings] /\ <<>> \in Nodes
  BY ExtractAssumption DEF CountInv
<1>2. Decodes(setting.payload) /\ WellFormed(setting.payload) => Verifies(setting.payload)
  BY <1>1, PayloadFacts, AcceptsWellFormed
<1>3. pc \in PerEntry => setting.mode = "extract"
  BY DEF BundleInv
<1>4. CASE Start \/ PrepareOutDir
  <2>1. /\ pc \in Early /\ setting.mode = "extract"
        /\ tree[<<>>].kind \notin {"absent", "dir"}
    BY <1>4 DEF Start, PrepareOutDir, CreateOutDir, Goto, Reject, Early, BundleInv
  <2> QED
    BY <2>1, OutDirObstructed DEF Excused
<1>5. CASE OpenBundle
  <2>1. \/ ~setting.unlocks \/ ~Decodes(setting.payload) \/ ~ValidLayout(manifest, data)
    BY <1>5 DEF OpenBundle, Goto
  <2> QED
    BY <1>2, <2>1 DEF Excused, Verifies, manifest, data
<1>6. CASE VerifyEntry
  <2>1. k <= Len(manifest) /\ ~EntryAuthentic(data, manifest[k])
    BY <1>6 DEF VerifyEntry
  <2>2. k \in DOMAIN manifest
    BY <1>1, <2>1, PayloadFacts DEF CountInv, TypeOK
  <2> QED
    BY <1>2, <2>1, <2>2 DEF Excused, Verifies, manifest, data
<1>7. CASE CheckOutDir
  <2>1. pc = "checkOutDir" /\ tree[<<>>] # Dir /\ setting.mode = "extract"
    BY <1>7 DEF CheckOutDir, Goto, FirstEntry, BundleInv
  <2>2. tree[<<>>] = Symlink
    BY <2>1 DEF Clear
  <2>3. tree[<<>>].kind \notin {"absent", "dir"} /\ pc \in Early
    BY <2>1, <2>2 DEF Symlink, Node, Early
  <2> QED
    BY <2>1, <2>3, OutDirObstructed DEF Excused
<1>8. CASE EnsureParent
  <2> DEFINE n == Parent(depth)
  <2>1. /\ pc = "parent" /\ depth < Len(Target) /\ pc \in PerEntry /\ pc \notin Early
        /\ tree[n] # Dir
        /\ tree[n] = Absent => n = <<>> \/ ~InDirectory(n)
    BY <1>8 DEF EnsureParent, PerEntry, Early
  <2>2. /\ depth \in 0..Len(Target) - 1 /\ depth \in Nat /\ Len(Target) \in Nat
        /\ n \in Nodes /\ IsParent(n) /\ Parent(0) = <<>>
        /\ depth # 0 => Front(n) = Parent(depth - 1)
    <3>1. Len(Target) \in Nat /\ depth \in 0..Len(Target)
      BY <2>1, TargetFacts
    <3>2. depth \in 0..Len(Target) - 1 /\ (depth # 0 => depth \in 1..Len(Target) - 1)
      BY <2>1, <3>1
    <3> QED
      BY <2>1, <3>1, <3>2, TargetFacts
  <2>3. n # <<>>
    <3>1. tree[<<>>] = Dir
      BY <2>1 DEF Clear
    <3> QED
      BY <2>1, <3>1
  <2>4. InDirectory(n)
    <3>1. depth # 0
      BY <2>2, <2>3
    <3>2. depth - 1 \in 0..depth - 1
      BY <2>2, <3>1
    <3>3. tree[Parent(depth - 1)] = Dir
      BY <2>1, <3>2 DEF Clear
    <3> QED
      BY <2>2, <3>1, <3>3 DEF InDirectory
  <2>5. tree[n] \notin {Absent, Dir}
    BY <2>1, <2>3, <2>4
  <2>6. tree[n] = Prior(n) \/ NewFile(n)
    BY <2>2, <2>5, Found
  <2>7. CASE tree[n] = Prior(n)
    <3>1. Prior(n).kind \notin {"absent", "dir"}
      BY <1>1, <2>2, <2>5, <2>7, HoldingTypes
    <3> QED
      BY <1>3, <2>1, <2>2, <3>1 DEF Excused, Obstructed
  <2>8. CASE NewFile(n)
    <3>1. IsTarget(n)
      BY <2>8 DEF NewFile, IsTarget, At
    <3> QED
      BY <1>3, <2>1, <2>2, <3>1 DEF Excused, Obstructed
  <2> QED
    BY <2>6, <2>7, <2>8
<1>9. CASE CheckTarget
  <2>1. /\ pc = "target" /\ pc \in PerEntry /\ tree[Target] # Absent
        /\ ~(setting.force /\ Replaceable(tree[Target]))
    BY <1>9 DEF CheckTarget, Goto, PerEntry, Writing
  <2>2. /\ Target \in Nodes /\ Target # <<>> /\ IsTarget(Target) /\ k \in Nat
        /\ k \in 1..Len(manifest) /\ Target = At(k)
    BY <2>1, TargetFacts
  <2>6. CASE ~WellFormed(setting.payload)
    BY <2>6 DEF Excused
  <2>3. CASE tree[Target] = Prior(Target)
    BY <1>3, <2>1, <2>2, <2>3 DEF Excused, Obstructed, Replaceable
  <2>4. CASE NewDirectory(Target)
    BY <1>3, <2>1, <2>2, <2>4 DEF Excused, Obstructed, NewDirectory
  <2>5. WellFormed(setting.payload) => ~NewFile(Target) /\ ~Missing(Target)
    <3> SUFFICES ASSUME WellFormed(setting.payload)
                 PROVE  ~NewFile(Target) /\ ~Missing(Target)
      OBVIOUS
    <3>1. \A e \in 1..Len(manifest) : At(e) = Target => e = k
      BY <1>1, <2>2, OwnPlaces
    <3> QED
      BY <2>1, <2>2, <3>1 DEF NewFile, Missing, Placed, Final
  <2> QED
    BY <2>2, <2>3, <2>4, <2>5, <2>6 DEF TreeInv, Untouched
<1>10. CASE ParentEnsured \/ WriteTemp \/ SyncDirectory
  <2>1. /\ pc \in PerEntry /\ depth = Len(Target) /\ ~InDirectory(Target)
    BY <1>10 DEF ParentEnsured, WriteTemp, SyncDirectory, Goto, PerEntry, Writing, CountInv
  <2> QED
    BY <2>1, ParentThere
<1>11. CASE ChooseRename
  <2>1. /\ pc = "persist" /\ setting.force /\ tree[Target].kind \notin {"absent", "symlink"}
        /\ ~Replaceable(tree[Target])
    BY <1>11 DEF ChooseRename, Goto
  <2> QED
    BY <2>1 DEF Clear, Absent, Node
<1>12. CASE Replace \/ PlaceNew
  <2>1. pc \in PerEntry /\ depth = Len(Target)
    BY <1>12 DEF Replace, PlaceNew, PerEntry, Writing, CountInv
  <2>2. InDirectory(Target) /\ Target \in Nodes
    BY <2>1, ParentThere, TargetFacts
  <2>3. \/ pc = "replace" /\ tree[Target] = Dir
        \/ pc = "noclobber" /\ tree[Target] # Absent
        \/ Unnamed
    BY <1>12, <2>2 DEF Replace, PlaceNew, Place
  <2>4. ~(pc = "replace" /\ tree[Target] = Dir)
    BY DEF TreeInv, Dir, Absent, Node
  <2>5. ~(pc = "noclobber" /\ tree[Target] # Absent)
    BY DEF Clear
  <2>6. k \in 1..Len(manifest)
    BY <2>1, TargetFacts
  <2> QED
    BY <1>1, <2>3, <2>4, <2>5, <2>6, NamesFile DEF Excused
<1>13. ~NextEntry /\ ~RemoveTarget
  BY DEF NextEntry, RemoveTarget, control
<1> QED
  BY <1>4, <1>5, <1>6, <1>7, <1>8, <1>9, <1>10, <1>11, <1>12, <1>13 DEF Progress

LEMMA ClearNext ==
  ASSUME CountInv, BundleInv, TreeInv, Clear, Progress, touched = {}
  PROVE  Clear'
<1>1. /\ setting' = setting /\ tree \in [Nodes -> Holdings] /\ <<>> \in Nodes
      /\ k' = k => Target' = Target /\ \A d : Parent(d)' = Parent(d)
  BY Fixed, ExtractAssumption DEF CountInv, Next
<1>2. CASE pc' \in Final
  BY <1>2 DEF Clear, PerEntry, Writing, Final
<1>3. CASE Start \/ OpenBundle \/ VerifyEntry
  BY <1>2, <1>3 DEF Start, OpenBundle, VerifyEntry, CreateOutDir, Goto, Reject, Clear,
     PerEntry, Writing, Final
<1>4. CASE PrepareOutDir /\ pc' \notin Final
  <2>1. /\ pc' = "checkOutDir"
        /\ tree' = [tree EXCEPT ![<<>>] = Dir] \/ (tree' = tree /\ tree[<<>>] = Symlink)
    BY <1>4 DEF PrepareOutDir, CreateOutDir, Goto, Reject, Final
  <2> QED
    BY <1>1, <2>1 DEF Clear, PerEntry, Writing
<1>5. CASE CheckOutDir /\ pc' \notin Final
  <2>1. /\ pc' = "parent" /\ tree' = tree /\ tree[<<>>] = Dir /\ depth' = 0
    BY <1>5 DEF CheckOutDir, Goto, Reject, FirstEntry, Final, CountInv, Early
  <2>2. \A d : ~(d \in 0..0 - 1)
    OBVIOUS
  <2> QED
    BY <2>1, <2>2 DEF Clear, PerEntry, Writing
<1>6. CASE EnsureParent /\ pc' \notin Final
  <2>1. /\ pc = "parent" /\ pc' = pc /\ k' = k /\ depth' = depth + 1
        /\ depth < Len(Target)
        /\ tree' = [tree EXCEPT ![Parent(depth)] = Dir]
    BY <1>6 DEF EnsureParent, Reject, Final
  <2>2. /\ depth \in Nat /\ Len(Target) \in Nat
        /\ \A d \in 0..Len(Target) - 1 : Parent(d) \in Nodes
    BY <2>1, TargetFacts DEF PerEntry
  <2>3. tree[<<>>] = Dir /\ \A d \in 0..depth - 1 : tree[Parent(d)] = Dir
    BY <2>1 DEF Clear, PerEntry
  <2>4. ASSUME NEW d \in 0..depth' - 1 PROVE tree'[Parent(d)] = Dir
    <3>1. d = depth \/ d \in 0..depth - 1
      BY <2>1, <2>2
    <3>2. d \in 0..Len(Target) - 1
      BY <2>1, <2>2, <3>1
    <3> QED
      BY <1>1, <2>1, <2>2, <2>3, <3>1, <3>2
  <2>5. tree'[<<>>] = Dir
    BY <1>1, <2>1, <2>3
  <2> QED
    BY <1>1, <2>1, <2>4, <2>5 DEF Clear
<1>7. CASE NextEntry /\ pc' \notin Final
  <2>1. /\ pc = "next" /\ pc' = "parent" /\ depth' = 0 /\ tree' = tree
    BY <1>7 DEF NextEntry, Final
  <2>2. \A d : ~(d \in 0..0 - 1)
    OBVIOUS
  <2> QED
    BY <2>1, <2>2 DEF Clear, PerEntry, Writing
<1>8. CASE /\ \/ ParentEnsured \/ CheckTarget \/ WriteTemp \/ ChooseRename
              \/ RemoveTarget \/ Replace \/ PlaceNew \/ SyncDirectory
           /\ pc' \notin Final
  <2>1. pc \in PerEntry /\ k' = k /\ depth' = depth /\ depth = Len(Target)
    BY <1>8 DEF ParentEnsured, CheckTarget, WriteTemp, ChooseRename, RemoveTarget, Replace,
       PlaceNew, Place, SyncDirectory, Goto, Reject, control, PerEntry, Writing, Final,
       CountInv
  <2>2. \/ tree' = tree
        \/ \E node : tree' = [tree EXCEPT ![Target] = node]
    BY <1>8 DEF ParentEnsured, CheckTarget, WriteTemp, ChooseRename, RemoveTarget, Replace,
       PlaceNew, Place, SyncDirectory, Goto, Reject, Final
  <2>3. /\ Target \in Nodes /\ Target # <<>>
        /\ \A d \in 0..depth - 1 : Parent(d) \in Nodes /\ Parent(d) # Target
    BY <2>1, TargetFacts
  <2>4. tree'[<<>>] = Dir /\ \A d \in 0..depth - 1 : tree'[Parent(d)] = Dir
    <3>1. tree[<<>>] = Dir /\ \A d \in 0..depth - 1 : tree[Parent(d)] = Dir
      BY <2>1 DEF Clear
    <3> QED
      BY <1>1, <2>2, <2>3, <3>1
  <2>5. pc' \in {"temp", "persist"} =>
          tree'[Target] = Absent \/ (setting.force /\ Replaceable(tree'[Target]))
    BY <1>8 DEF ParentEnsured, CheckTarget, WriteTemp, ChooseRename, RemoveTarget, Replace,
       PlaceNew, Place, SyncDirectory, Goto, Reject, control, Clear, Final
  <2>6. pc' = "noclobber" => tree'[Target] = Absent
    <3>1. CASE ChooseRename
      <4>1. /\ pc = "persist" /\ tree' = tree
            /\ pc' = "noclobber" =>
                 ~(setting.force /\ tree[Target].kind \notin {"absent", "symlink"})
        BY <3>1, <1>8 DEF ChooseRename, Goto, Reject, Final
      <4>2. tree[Target] = Absent \/ (setting.force /\ tree[Target].kind = "file")
        BY <4>1 DEF Clear, Replaceable
      <4> QED
        BY <4>1, <4>2
    <3>2. CASE ~ChooseRename
      BY <1>8, <3>2 DEF ParentEnsured, CheckTarget, WriteTemp, RemoveTarget, Replace,
         PlaceNew, Place, SyncDirectory, Goto, Reject, control, Final
    <3> QED
      BY <3>1, <3>2
  <2>7. pc' # "checkOutDir"
    BY <1>8 DEF ParentEnsured, CheckTarget, WriteTemp, ChooseRename, RemoveTarget, Replace,
       PlaceNew, Place, SyncDirectory, Goto, Reject, control
  <2> QED
    BY <1>1, <2>1, <2>4, <2>5, <2>6, <2>7 DEF Clear
<1> QED
  BY <1>2, <1>3, <1>4, <1>5, <1>6, <1>7, <1>8 DEF Progress

LEMMA FreeInit == Init => FreeInv
BY DEF Init, FreeInv, Clear, WellFormedAccepted, PerEntry, Writing

LEMMA FreeNext ==
  CountInv /\ BundleInv /\ TreeInv /\ FreeInv /\ [Next]_vars => FreeInv'
<1> SUFFICES ASSUME CountInv, BundleInv, TreeInv, FreeInv, [Next]_vars, touched' = {}
             PROVE  Clear' /\ WellFormedAccepted'
  BY DEF FreeInv
<1>1. touched = {} /\ ~\E n \in Nodes : EditTree(n)
  BY DEF Next, Progress, Fault, EditTree, vars
<1>2. Clear /\ WellFormedAccepted
  BY <1>1 DEF FreeInv
<1>3. /\ setting' = setting /\ manifest' = manifest /\ data' = data
      /\ Obstructed' = Obstructed
      /\ k' = k => Target' = Target /\ \A d : Parent(d)' = Parent(d)
  BY Fixed
<1>4. Excused' <=> Excused
  BY <1>3 DEF Excused
<1>5. CASE Progress
  <2>1. Clear'
    BY <1>1, <1>2, <1>5, ClearNext
  <2>2. WellFormedAccepted'
    <3>1. pc' = "error" => Excused'
      BY <1>1, <1>2, <1>4, <1>5, RejectExcused
    <3> QED
      BY <3>1 DEF WellFormedAccepted, Excused
  <2> QED
    BY <2>1, <2>2
<1>6. CASE Fault
  BY <1>6 DEF Fault, IOError, Kill, Clear, WellFormedAccepted, PerEntry, Writing
<1>7. CASE UNCHANGED vars
  <2>1. UNCHANGED <<pc, depth, ioFailed, tree, touched>> /\ k' = k
    BY <1>7 DEF vars, control
  <2>2. Clear'
    BY <1>2, <1>3, <2>1 DEF Clear
  <2>3. WellFormedAccepted'
    BY <1>2, <1>3, <2>1 DEF WellFormedAccepted
  <2> QED
    BY <2>2, <2>3
<1> QED
  BY <1>1, <1>5, <1>6, <1>7 DEF Next
-----------------------------------------------------------------------------
(* What holds in every state. *)
ExtractInv == CountInv /\ BundleInv /\ TreeInv /\ DoneInv /\ FreeInv

LEMMA Invariance == Spec => []ExtractInv
<1>1. Init => ExtractInv
  BY CountInit, BundleInit, TreeInit, DoneInit, FreeInit DEF ExtractInv
<1>2. ExtractInv /\ [Next]_vars => ExtractInv'
  BY CountNext, BundleNext, TreeNext, DoneNext, FreeNext DEF ExtractInv
<1> QED
  BY <1>1, <1>2, PTL DEF Spec

(* The command's variables keep their types, whatever the payload and the  *)
(* directory hold.                                                         *)
THEOREM TypeCorrect == Spec => []TypeOK
<1>1. ExtractInv => TypeOK
  BY DEF ExtractInv, CountInv
<1> QED
  BY <1>1, Invariance, PTL

(* Nothing is named before every entry is authenticated, and what is named *)
(* then is a whole file of a well-formed bundle, in a place that was free  *)
(* or, under --force, held an ordinary file.                               *)
THEOREM WritesWholeFiles == Spec => []OutputsWhole
<1>1. ExtractInv => OutputsWhole
  BY DEF ExtractInv, TreeInv, OutputsWhole, Untouched, NewDirectory, NewFile, Missing, At
<1> QED
  BY <1>1, Invariance, PTL

(* A reported success means sound files, of a well-formed bundle if its    *)
(* paths are normalized, and that all are there but those --force let a    *)
(* later path to the same place replace.                                   *)
THEOREM SuccessTrue == Spec => []SuccessComplete
<1>1. ASSUME ExtractInv, pc = "ok"
      PROVE  /\ setting.unlocks /\ FilesSound(setting.payload)
             /\ Normalized(manifest) => WellFormed(setting.payload)
             /\ setting.mode = "extract" =>
                  \A e \in 1..Len(manifest) :
                    \/ At(e) \in touched
                    \/ tree[At(e)] = File(manifest[e].hash)
                    \/ setting.force /\ \E f \in e + 1..Len(manifest) : At(f) = At(e)
  <2>1. setting \in Settings /\ setting.unlocks /\ Verifies(setting.payload)
    BY <1>1 DEF ExtractInv, CountInv, BundleInv
  <2>2. /\ FilesSound(setting.payload)
        /\ Normalized(manifest) => WellFormed(setting.payload)
    BY <2>1, PayloadFacts, AcceptsWellFormed DEF manifest
  <2>3. ASSUME setting.mode = "extract", NEW e \in 1..Len(manifest)
        PROVE  HasFile(e) \/ Followed(e)
    <3>1. k = Len(manifest) + 1 /\ Len(manifest) \in Nat
      BY <1>1, <2>1, <2>3, PayloadFacts DEF ExtractInv, CountInv
    <3>2. e < k
      BY <3>1
    <3> QED
      BY <1>1, <2>3, <3>2 DEF ExtractInv, DoneInv, Extracting, Done
  <2> QED
    BY <2>1, <2>2, <2>3 DEF HasFile, Followed
<1>2. ExtractInv => SuccessComplete
  BY <1>1 DEF SuccessComplete
<1> QED
  BY <1>2, Invariance, PTL

(* Nobody interfering and no call failing, a well-formed bundle is         *)
(* extracted unless something that may not be replaced is in the way.      *)
THEOREM AcceptsWellFormedBundles == Spec => []WellFormedAccepted
<1>1. ExtractInv => WellFormedAccepted
  BY DEF ExtractInv, FreeInv, WellFormedAccepted
<1> QED
  BY <1>1, Invariance, PTL

(* Without --force the command changes no place that holds anything, not   *)
(* even one another program filled since the target was looked at.         *)
THEOREM OverwritesNothing == Spec => NeverOverwrites
<1> DEFINE Kept == ~setting.force /\ edits' = edits =>
                     \A n \in Nodes : tree[n] # Absent => tree'[n] = tree[n]
<1>1. ASSUME ExtractInv, [Next]_vars, ~setting.force, edits' = edits,
             NEW n \in Nodes, tree[n] # Absent
      PROVE  tree'[n] = tree[n]
  <2>1. /\ tree \in [Nodes -> Holdings] /\ edits \in Nat
        /\ pc # "replace"
    BY <1>1 DEF ExtractInv, CountInv, BundleInv, TypeOK
  <2>2. ~\E m \in Nodes : EditTree(m)
    BY <1>1, <2>1 DEF EditTree
  <2>3. \/ tree' = tree
        \/ \E m : tree[m] \in {Absent, Dir} /\ tree' = [tree EXCEPT ![m] = Dir]
        \/ tree[<<>>].kind \in {"absent", "dir"} /\ tree' = [tree EXCEPT ![<<>>] = Dir]
        \/ /\ tree[Target] = Absent
           /\ tree' = [tree EXCEPT ![Target] = File(Slice(data, manifest[k]))]
    BY <1>1, <2>1, <2>2 DEF Next, Progress, Fault, IOError, Kill, vars, control, Start,
       OpenBundle, VerifyEntry, PrepareOutDir, CheckOutDir, CreateOutDir, EnsureParent,
       ParentEnsured, CheckTarget, WriteTemp, ChooseRename, RemoveTarget, Replace,
       PlaceNew, Place, SyncDirectory, NextEntry, Goto, Reject
  <2>4. tree[<<>>].kind \in {"absent", "dir"} => tree[<<>>] \in {Absent, Dir}
    BY <2>1, HoldingTypes, ExtractAssumption
  <2>5. CASE \E m : tree[m] \in {Absent, Dir} /\ tree' = [tree EXCEPT ![m] = Dir]
    BY <1>1, <2>1, <2>5
  <2> QED
    BY <1>1, <2>1, <2>3, <2>4, <2>5
<1>2. ExtractInv /\ [Next]_vars => [Kept]_vars
  BY <1>1
<1> QED
  BY <1>2, Invariance, PTL DEF Spec, NeverOverwrites
=============================================================================
