-------------------------- MODULE BundlePackProofs --------------------------
(***************************************************************************)
(* Proofs about BundlePack, for every directory and whatever other         *)
(* programs do in it while it is packed: what has been written is what the *)
(* reader verifies, an undisturbed directory is packed exactly, and a      *)
(* comparison with an earlier bundle is true.                              *)
(***************************************************************************)
EXTENDS BundlePack, SequenceTheorems, TLAPS

(* The lemmas about numbers and about what the reader's checks accept were *)
(* proved with extraction, of which nothing else is needed here: its       *)
(* parameters may be anything that satisfies its assumptions.              *)
Reader == INSTANCE BundleExtractProofs
  WITH Platforms <- {}, Payloads <- {}, Nodes <- {<<>>}, Trees <- {},
       Foreign <- <<>>, MaxEdits <- 0, pc <- "start", k <- 0, depth <- 0,
       tree <- <<>>, temp <- "none", ioFailed <- FALSE, edits <- 0,
       touched <- {}, setting <- <<>>

(* The reader speaks of the same contents. *)
LEMMA SameContents ==
  /\ Reader!Skipped = Skipped /\ Reader!Contents = Contents
  /\ <<>> \in Contents
BY EmptySeq DEF Skipped, Reader!Skipped, Contents, Reader!Contents

(* Every non-empty set of numbers has a least one. *)
LEMMA LeastNumber ==
  ASSUME NEW S \in SUBSET Nat, S # {}
  PROVE  \E n \in S : \A m \in S : n <= m
BY BundleAssumption, SameContents, Reader!LeastNumber

(* What holds of 0, and with n of n + 1, holds of every number. *)
LEMMA NumberInduction ==
  ASSUME NEW T, 0 \in T, \A n \in Nat : n \in T => n + 1 \in T
  PROVE  Nat \subseteq T
BY BundleAssumption, SameContents, Reader!NumberInduction

Entries == [path : Seq(STRING), size : Nat, hash : Contents, offset : Nat]

LEMMA EntryFacts ==
  ASSUME NEW m \in Seq(Entries)
  PROVE  /\ DOMAIN m = 1..Len(m) /\ Len(m) \in Nat
         /\ \A x \in DOMAIN m :
              /\ m[x] \in Entries /\ m[x].offset \in Nat /\ m[x].size \in Nat
              /\ End(m[x]) \in Nat /\ End(m[x]) = m[x].offset + m[x].size
<1>1. DOMAIN m = 1..Len(m) /\ Len(m) \in Nat
  BY LenProperties
<1>2. \A x \in 1..Len(m) : m[x] \in Entries
  BY ElementOfSeq
<1>3. \A x \in 1..Len(m) : m[x].offset \in Nat /\ m[x].size \in Nat
  BY <1>2 DEF Entries
<1> QED
  BY <1>1, <1>2, <1>3 DEF End

(* Entries that share no byte pass the test of the reader.                 *)
LEMMA ApartAccepted ==
  ASSUME NEW m \in Seq(Entries),
         \A i, j \in DOMAIN m :
           i # j => End(m[i]) <= m[j].offset \/ End(m[j]) <= m[i].offset
  PROVE  NoOverlap(m)
<1>1. m \in Seq(Reader!Entries)
  BY DEF Entries, Reader!Entries, Contents, Reader!Contents
<1>2. \A i, j \in Reader!Ranges(m) : i # j => Reader!Apart(m[i], m[j])
  BY DEF Reader!Ranges, Reader!Apart, Reader!End, End
<1>3. Reader!NoOverlap(m)
  BY <1>1, <1>2, BundleAssumption, SameContents, Reader!NoOverlapApart
<1>4. \A S : Reader!Cardinality(S) = Cardinality(S)
  BY DEF Cardinality, Reader!Cardinality
<1>5. \A S, T : Reader!Bijection(S, T) = Bijection(S, T)
  BY DEF Bijection, Reader!Bijection, Injection, Reader!Injection,
         Surjection, Reader!Surjection, IsInjective, Reader!IsInjective
<1>6. Reader!SortedRanges(m) = SortedRanges(m)
  BY <1>4, <1>5 DEF SortedRanges, Reader!SortedRanges, NonEmpty, Reader!NonEmpty
<1> QED
  BY <1>3, <1>6 DEF NoOverlap, Reader!NoOverlap, End, Reader!End
-----------------------------------------------------------------------------
(* f begins with a, each later value comes from the one before it, and     *)
(* every value is in V.                                                    *)
UnfoldsIn(f, n, V, a, step) ==
  /\ f \in [0..n -> V] /\ f[0] = a
  /\ \A i \in 1..n : f[i] = step[i][f[i - 1]]

(* A function given step by step exists. *)
LEMMA Unfolding ==
  ASSUME NEW n \in Nat, NEW V, NEW a \in V, NEW step \in [1..n -> [V -> V]]
  PROVE  \E f : UnfoldsIn(f, n, V, a, step)
<1>1. \A f : Reader!UnfoldsIn(f, n, V, a, step) <=> UnfoldsIn(f, n, V, a, step)
  BY DEF UnfoldsIn, Reader!UnfoldsIn
<1>2. \E f : Reader!UnfoldsIn(f, n, V, a, step)
  BY BundleAssumption, SameContents, Reader!Unfolding
<1> QED
  BY <1>1, <1>2

(* s has every member of S that occurs in the order. *)
Covers(s, order, S) ==
  \A j \in 1..Len(order) :
    order[j] \in S => \E i \in 1..Len(s) : s[i] = order[j]

(* Listed gives the members of S that occur in the order, and them alone.  *)
LEMMA ListedMembers ==
  ASSUME NEW X, NEW order \in Seq(X), NEW S
  PROVE  /\ Listed(order, S) \in Seq(S \cap X)
         /\ Covers(Listed(order, S), order, S)
<1>1. Reader!Listed(order, S) = Listed(order, S)
  BY DEF Listed, Reader!Listed
<1> QED
  BY <1>1, BundleAssumption, SameContents, Reader!ListedMembers DEF Covers, Reader!Covers
-----------------------------------------------------------------------------
Recorded == [path : Seq(STRING), size : Nat, hash : Contents]

Manifest(s) == BuildManifest(s)

LEMMA RecordedFacts ==
  ASSUME NEW s \in Seq(Recorded)
  PROVE  /\ Len(s) \in Nat /\ DOMAIN s = 1..Len(s)
         /\ \A i \in 1..Len(s) :
              /\ s[i] \in Recorded
              /\ s[i].path \in Seq(STRING) /\ s[i].size \in Nat
              /\ s[i].hash \in Contents
<1>1. Len(s) \in Nat /\ DOMAIN s = 1..Len(s)
  BY LenProperties
<1>2. \A i \in 1..Len(s) : s[i] \in Recorded
  BY ElementOfSeq
<1> QED
  BY <1>1, <1>2 DEF Recorded

(* Where the data of the first files end, as build_manifest counts it.     *)
LEMMA EndsExist ==
  ASSUME NEW s \in Seq(Recorded)
  PROVE  \E end \in [0..Len(s) -> Nat] :
           /\ end[0] = 0
           /\ \A i \in 1..Len(s) : end[i] = end[i - 1] + s[i].size
           /\ Manifest(s) =
                [i \in DOMAIN s |->
                   [path |-> s[i].path, size |-> s[i].size,
                    hash |-> s[i].hash, offset |-> end[i - 1]]]
<1> DEFINE n == Len(s)
           step == [i \in 1..n |-> [v \in Nat |-> v + s[i].size]]
           end[i \in 0..Len(s)] == IF i = 0 THEN 0 ELSE end[i - 1] + s[i].size
<1>1. n \in Nat /\ \A i \in 1..n : s[i].size \in Nat
  BY RecordedFacts
<1>2. \A i \in 1..n, v \in Nat :
        step[i][v] = v + s[i].size /\ step[i][v] \in Nat
  BY <1>1
<1>3. step \in [1..n -> [Nat -> Nat]]
  BY <1>1
<1>4. PICK f : UnfoldsIn(f, n, Nat, 0, step)
  <2> HIDE DEF step, n, end
  <2> QED
    BY <1>1, <1>3, Unfolding
<1> HIDE DEF step
<1>5. \A i \in 1..n : f[i] = f[i - 1] + s[i].size
  <2> HIDE DEF n, end
  <2>1. \A i \in 1..n : i - 1 \in 0..n
    BY <1>1
  <2>2. \A i \in 1..n : f[i - 1] \in Nat
    BY <1>4, <2>1 DEF UnfoldsIn
  <2> QED
    BY <1>2, <1>4, <2>2 DEF UnfoldsIn
<1>6. f = [i \in 0..Len(s) |-> IF i = 0 THEN 0 ELSE f[i - 1] + s[i].size]
  <2>1. \A i \in 0..n : i # 0 => i \in 1..n
    BY <1>1
  <2> QED
    BY <1>4, <1>5, <2>1 DEF UnfoldsIn
<1>7. end = [i \in 0..Len(s) |-> IF i = 0 THEN 0 ELSE end[i - 1] + s[i].size]
  BY <1>6
<1>8. Manifest(s) =
        [i \in DOMAIN s |->
           [path |-> s[i].path, size |-> s[i].size,
            hash |-> s[i].hash, offset |-> end[i - 1]]]
  BY DEF Manifest, BuildManifest
<1> HIDE DEF end
<1>9. 0 \in 0..n /\ \A i \in 1..n : i \in 0..n /\ i # 0
  BY <1>1
<1>10. /\ end[0] = 0
       /\ \A i \in 1..n : end[i] = end[i - 1] + s[i].size
  BY <1>7, <1>9
<1> DEFINE T == {i \in Nat : i <= n => end[i] \in Nat}
<1>11. 0 \in T
  BY <1>10
<1>12. ASSUME NEW i \in Nat, i \in T PROVE i + 1 \in T
  <2> SUFFICES ASSUME i + 1 <= n PROVE end[i + 1] \in Nat
    OBVIOUS
  <2>1. i + 1 \in 1..n /\ (i + 1) - 1 = i /\ end[i] \in Nat
    BY <1>1, <1>12
  <2>2. end[i + 1] = end[i] + s[i + 1].size
    BY <1>10, <2>1
  <2> QED
    BY <1>1, <2>1, <2>2
<1> HIDE DEF T
<1>13. Nat \subseteq T
  BY <1>11, <1>12, NumberInduction
<1>14. \A i \in 0..n : end[i] \in Nat
  BY <1>13 DEF T
<1>15. end \in [0..n -> Nat]
  BY <1>7, <1>14
<1> QED
  BY <1>8, <1>10, <1>15

LEMMA ManifestFacts ==
  ASSUME NEW s \in Seq(Recorded)
  PROVE  /\ Manifest(s) \in Seq(Entries) /\ Len(Manifest(s)) = Len(s)
         /\ DOMAIN Manifest(s) = 1..Len(s)
         /\ \A i \in 1..Len(s) :
              /\ Manifest(s)[i].path = s[i].path
              /\ Manifest(s)[i].size = s[i].size
              /\ Manifest(s)[i].hash = s[i].hash
              /\ Manifest(s)[i].offset \in Nat
         /\ Len(s) > 0 => Manifest(s)[1].offset = 0
         /\ \A i \in 1..Len(s) - 1 :
              Manifest(s)[i + 1].offset = Manifest(s)[i].offset + s[i].size
<1> DEFINE n == Len(s)
           m == Manifest(s)
<1>1. PICK end \in [0..n -> Nat] :
        /\ end[0] = 0
        /\ \A i \in 1..n : end[i] = end[i - 1] + s[i].size
        /\ m = [i \in DOMAIN s |->
                  [path |-> s[i].path, size |-> s[i].size,
                   hash |-> s[i].hash, offset |-> end[i - 1]]]
  BY EndsExist
<1>2. /\ n \in Nat /\ DOMAIN s = 1..n
      /\ \A i \in 1..n : /\ s[i].path \in Seq(STRING) /\ s[i].size \in Nat
                         /\ s[i].hash \in Contents
  BY RecordedFacts
<1> HIDE DEF m, n
<1>3. \A i \in 1..n : end[i - 1] \in Nat
  <2>1. \A i \in 1..n : i - 1 \in 0..n
    BY <1>2
  <2> QED
    BY <2>1
<1>4. \A i \in 1..n : m[i] = [path |-> s[i].path, size |-> s[i].size,
                               hash |-> s[i].hash, offset |-> end[i - 1]]
  BY <1>1, <1>2
<1>5. \A i \in 1..n : /\ m[i].path = s[i].path /\ m[i].size = s[i].size
                      /\ m[i].hash = s[i].hash /\ m[i].offset = end[i - 1]
                      /\ m[i] \in Entries
  <2> SUFFICES ASSUME NEW i \in 1..n
               PROVE  /\ m[i].path = s[i].path /\ m[i].size = s[i].size
                      /\ m[i].hash = s[i].hash /\ m[i].offset = end[i - 1]
                      /\ m[i] \in Entries
    OBVIOUS
  <2> DEFINE p == s[i].path
             z == s[i].size
             h == s[i].hash
             o == end[i - 1]
  <2>1. /\ p \in Seq(STRING) /\ z \in Nat /\ h \in Contents /\ o \in Nat
        /\ m[i] = [path |-> p, size |-> z, hash |-> h, offset |-> o]
    BY <1>2, <1>3, <1>4
  <2> HIDE DEF p, z, h, o
  <2>2. /\ m[i].path = p /\ m[i].size = z /\ m[i].hash = h /\ m[i].offset = o
        /\ m[i] \in Entries
    BY <2>1 DEF Entries
  <2> QED
    BY <2>2 DEF p, z, h, o
<1>6. \A i \in 1..n : m[i] \in Entries
  BY <1>5
<1>7. m \in [1..n -> Entries]
  BY <1>1, <1>2, <1>6
<1>8. m \in Seq(Entries) /\ Len(m) = n /\ DOMAIN m = 1..n
  <2>1. n \in Nat
    BY <1>2
  <2> QED
    BY <1>7, <2>1
<1>9. n > 0 => m[1].offset = 0
  BY <1>1, <1>2, <1>5
<1>10. \A i \in 1..n - 1 : m[i + 1].offset = m[i].offset + s[i].size
  <2> SUFFICES ASSUME NEW i \in 1..n - 1
               PROVE  m[i + 1].offset = m[i].offset + s[i].size
    OBVIOUS
  <2>1. i \in 1..n /\ i + 1 \in 1..n /\ (i + 1) - 1 = i
    BY <1>2
  <2>2. end[i] = end[i - 1] + s[i].size
    BY <1>1, <2>1
  <2>3. m[i + 1].offset = end[i] /\ m[i].offset = end[i - 1]
    BY <1>5, <2>1
  <2> QED
    BY <2>2, <2>3
<1> QED
  BY <1>3, <1>5, <1>8, <1>9, <1>10 DEF m, n

(* The files' data follow one another in the order of the entries.         *)
LEMMA ManifestOrdered ==
  ASSUME NEW s \in Seq(Recorded), NEW i \in 1..Len(s), NEW j \in 1..Len(s), i < j
  PROVE  End(Manifest(s)[i]) <= Manifest(s)[j].offset
<1> DEFINE n == Len(s)
           off(x) == Manifest(s)[x].offset
           last == End(Manifest(s)[i])
           T == {x \in Nat : i < x /\ x <= n => last <= off(x)}
<1>1. /\ n \in Nat /\ \A x \in 1..n : off(x) \in Nat /\ s[x].size \in Nat
      /\ \A x \in 1..n - 1 : off(x + 1) = off(x) + s[x].size
      /\ last = off(i) + s[i].size
  BY ManifestFacts, RecordedFacts DEF End
<1> HIDE DEF off, last
<1>2. 0 \in T
  OBVIOUS
<1>3. ASSUME NEW x \in Nat, x \in T PROVE x + 1 \in T
  <2> SUFFICES ASSUME i < x + 1, x + 1 <= n PROVE last <= off(x + 1)
    OBVIOUS
  <2>1. x \in 1..n - 1 /\ x \in 1..n /\ off(x + 1) = off(x) + s[x].size
    BY <1>1
  <2>2. CASE x = i
    BY <1>1, <2>1, <2>2
  <2>3. CASE i < x
    <3>1. last <= off(x)
      BY <1>1, <1>3, <2>1, <2>3
    <3>2. off(x) \in Nat /\ s[x].size \in Nat /\ last \in Nat
      BY <1>1, <2>1
    <3> QED
      BY <2>1, <3>1, <3>2
  <2> QED
    BY <2>2, <2>3
<1> HIDE DEF T
<1>4. j \in T
  <2>1. Nat \subseteq T
    BY <1>2, <1>3, NumberInduction
  <2> QED
    BY <1>1, <2>1
<1> QED
  BY <1>1, <1>4 DEF T, off, last
-----------------------------------------------------------------------------
(* There is a power of two from every positive number to its double.       *)
LEMMA PowerExists ==
  ASSUME NEW len \in Nat \ {0}, NEW power,
         power[0] = 1, \A i \in 1..len : power[i] = 2 * power[i - 1]
  PROVE  \E i \in 0..len : /\ power[i] \in Nat
                           /\ len <= power[i] /\ power[i] < 2 * len
<1> DEFINE Between(m) ==
             \E i \in 0..m : /\ power[i] \in Nat
                             /\ m <= power[i] /\ power[i] < 2 * m
           T == {m \in Nat : m # 0 /\ m <= len => Between(m)}
<1>1. 0 \in T
  OBVIOUS
<1>2. ASSUME NEW m \in Nat, m \in T PROVE m + 1 \in T
  <2> SUFFICES ASSUME m + 1 <= len PROVE Between(m + 1)
    OBVIOUS
  <2>1. CASE m = 0
    <3>1. 0 \in 0..m + 1 /\ power[0] \in Nat /\ m + 1 <= power[0] /\ power[0] < 2 * (m + 1)
      BY <2>1
    <3> QED
      BY <3>1
  <2>2. CASE m # 0
    <3>1. PICK i \in 0..m : /\ power[i] \in Nat
                            /\ m <= power[i] /\ power[i] < 2 * m
      BY <1>2, <2>2
    <3>2. i \in 0..m + 1 /\ i + 1 \in 0..m + 1 /\ i + 1 \in 1..len /\ (i + 1) - 1 = i
      OBVIOUS
    <3>3. CASE m + 1 <= power[i]
      <4>1. power[i] < 2 * (m + 1)
        BY <3>1
      <4> QED
        BY <3>1, <3>2, <3>3, <4>1
    <3>4. CASE ~(m + 1 <= power[i])
      <4>1. power[i + 1] = 2 * power[i]
        BY <3>2
      <4>2. power[i] = m
        BY <3>1, <3>4
      <4>3. /\ power[i + 1] \in Nat /\ m + 1 <= power[i + 1]
            /\ power[i + 1] < 2 * (m + 1)
        BY <2>2, <4>1, <4>2
      <4> QED
        BY <3>2, <4>3
    <3> QED
      BY <3>3, <3>4
  <2> QED
    BY <2>1, <2>2
<1> HIDE DEF T
<1>3. Nat \subseteq T
  BY <1>1, <1>2, NumberInduction
<1>4. len \in T
  BY <1>3
<1> QED
  BY <1>4 DEF T

(* Padding takes nothing away. *)
LEMMA PaddedIsLonger ==
  ASSUME NEW len \in Nat \ {0},
         setting.padding \in [kind : {"none", "bucket", "fixed"}, size : Nat]
  PROVE  PaddedLength(len) \in Nat /\ len <= PaddedLength(len)
<1> DEFINE power[i \in 0..len] == IF i = 0 THEN 1 ELSE 2 * power[i - 1]
           step == [i \in 1..len |-> [v \in Nat |-> 2 * v]]
           fits(p) == len <= p /\ p < 2 * len
           bucket == CHOOSE p \in {power[i] : i \in 0..len} : fits(p)
<1>1. step \in [1..len -> [Nat -> Nat]] /\ 1 \in Nat /\ len \in Nat
  OBVIOUS
<1>2. PICK f : UnfoldsIn(f, len, Nat, 1, step)
  <2> HIDE DEF step, power
  <2> QED
    BY <1>1, Unfolding
<1>3. \A i \in 1..len : i - 1 \in 0..len
  OBVIOUS
<1>4. \A i \in 1..len : f[i] = 2 * f[i - 1]
  <2>1. \A i \in 1..len : f[i - 1] \in Nat
    BY <1>2, <1>3 DEF UnfoldsIn
  <2> QED
    BY <1>2, <2>1 DEF UnfoldsIn
<1> HIDE DEF step
<1>5. f = [i \in 0..len |-> IF i = 0 THEN 1 ELSE 2 * f[i - 1]]
  <2>1. \A i \in 0..len : i # 0 => i \in 1..len
    OBVIOUS
  <2> QED
    BY <1>2, <1>4, <2>1 DEF UnfoldsIn
<1>6. power = [i \in 0..len |-> IF i = 0 THEN 1 ELSE 2 * power[i - 1]]
  BY <1>5
<1> HIDE DEF power
<1>7. power[0] = 1 /\ \A i \in 1..len : power[i] = 2 * power[i - 1]
  <2>1. 0 \in 0..len /\ \A i \in 1..len : i \in 0..len /\ i # 0
    OBVIOUS
  <2> QED
    BY <1>6, <2>1
<1>8. \E i \in 0..len : power[i] \in Nat /\ fits(power[i])
  BY <1>7, PowerExists
<1>9. bucket \in {power[i] : i \in 0..len} /\ fits(bucket)
  <2> HIDE DEF fits
  <2> QED
    BY <1>8
<1>10. \A i \in 0..len : power[i] \in Nat
  <2> DEFINE T == {i \in Nat : i <= len => power[i] \in Nat}
  <2>1. 0 \in T
    BY <1>7
  <2>2. ASSUME NEW i \in Nat, i \in T PROVE i + 1 \in T
    <3> SUFFICES ASSUME i + 1 <= len PROVE power[i + 1] \in Nat
      OBVIOUS
    <3>1. i + 1 \in 1..len /\ (i + 1) - 1 = i /\ power[i] \in Nat
      BY <2>2
    <3> QED
      BY <1>7, <3>1
  <2> HIDE DEF T
  <2>3. Nat \subseteq T
    BY <2>1, <2>2, NumberInduction
  <2> QED
    BY <2>3 DEF T
<1>11. bucket \in Nat /\ len <= bucket
  BY <1>9, <1>10
<1>12. setting.padding.kind = "bucket" => PaddedLength(len) = bucket
  BY DEF PaddedLength, bucket, power
<1> HIDE DEF bucket, fits
<1>13. setting.padding.kind \in {"none", "bucket", "fixed"} /\ setting.padding.size \in Nat
  OBVIOUS
<1>14. CASE setting.padding.kind = "none"
  BY <1>14 DEF PaddedLength
<1>15. CASE setting.padding.kind = "bucket"
  BY <1>11, <1>12, <1>15
<1>16. CASE setting.padding.kind = "fixed"
  BY <1>13, <1>16 DEF PaddedLength
<1> QED
  BY <1>13, <1>14, <1>15, <1>16
-----------------------------------------------------------------------------
LEMMA SubSeqFacts ==
  ASSUME NEW b, NEW o \in Nat, NEW z \in Nat, \A i \in o + 1..o + z : b[i] \in Byte
  PROVE  /\ SubSeq(b, o + 1, o + z) \in Seq(Byte)
         /\ Len(SubSeq(b, o + 1, o + z)) = z
         /\ \A i \in 1..z : SubSeq(b, o + 1, o + z)[i] = b[o + i]
<1> DEFINE from == o + 1
           upTo == o + z
<1>1. from \in Int /\ upTo \in Int /\ upTo - from + 1 = z
  OBVIOUS
<1>2. \A i \in 1..z : from + i - 1 = o + i
  OBVIOUS
<1>3. from <= upTo \/ z = 0
  OBVIOUS
<1>4. \A i \in from..upTo : b[i] \in Byte
  OBVIOUS
<1> HIDE DEF from, upTo
<1>5. /\ SubSeq(b, from, upTo) \in Seq(Byte)
      /\ Len(SubSeq(b, from, upTo)) = IF from <= upTo THEN upTo - from + 1 ELSE 0
      /\ \A i \in 1..upTo - from + 1 : SubSeq(b, from, upTo)[i] = b[from + i - 1]
  BY <1>1, <1>4, SubSeqProperties
<1> QED
  BY <1>1, <1>2, <1>3, <1>5 DEF from, upTo

(* What lies inside a sequence stays where it is when more is appended.    *)
LEMMA SliceStays ==
  ASSUME NEW bytes \in Contents, NEW more \in Contents, NEW e \in Entries,
         End(e) <= Len(bytes)
  PROVE  Slice(bytes \o more, e) = Slice(bytes, e)
<1> DEFINE o == e.offset
           z == e.size
           both == bytes \o more
<1>1. /\ o \in Nat /\ z \in Nat /\ End(e) = o + z
      /\ Len(bytes) \in Nat /\ Len(more) \in Nat
  BY LenProperties DEF Entries, End, Contents
<1>2. /\ both \in Contents /\ Len(both) = Len(bytes) + Len(more)
      /\ \A i \in 1..Len(bytes) : both[i] = bytes[i]
  <2>1. /\ both \in Seq(Byte) /\ Len(both) = Len(bytes) + Len(more)
        /\ \A i \in 1..Len(bytes) + Len(more) :
             both[i] = IF i <= Len(bytes) THEN bytes[i] ELSE more[i - Len(bytes)]
    BY ConcatProperties DEF Contents
  <2> QED
    BY <1>1, <2>1 DEF Contents
<1>3. /\ Slice(both, e) = SubSeq(both, o + 1, o + z)
      /\ Slice(bytes, e) = SubSeq(bytes, o + 1, o + z)
  BY DEF Slice
<1> HIDE DEF o, z, both
<1>4. \A i \in o + 1..o + z : both[i] = bytes[i] /\ bytes[i] \in Byte
  <2>1. \A i \in o + 1..o + z : i \in 1..Len(bytes)
    BY <1>1
  <2> QED
    BY <1>2, <2>1, ElementOfSeq DEF Contents
<1>5. /\ SubSeq(both, o + 1, o + z) \in Seq(Byte)
      /\ SubSeq(bytes, o + 1, o + z) \in Seq(Byte)
      /\ Len(SubSeq(both, o + 1, o + z)) = Len(SubSeq(bytes, o + 1, o + z))
      /\ Len(SubSeq(bytes, o + 1, o + z)) = z
      /\ \A i \in 1..z : /\ SubSeq(both, o + 1, o + z)[i] = both[o + i]
                         /\ SubSeq(bytes, o + 1, o + z)[i] = bytes[o + i]
  BY <1>1, <1>4, SubSeqFacts
<1>6. \A i \in 1..z : o + i \in o + 1..o + z
  BY <1>1
<1>7. SubSeq(both, o + 1, o + z) = SubSeq(bytes, o + 1, o + z)
  BY <1>4, <1>5, <1>6, SeqEqual
<1> QED
  BY <1>3, <1>7 DEF both

(* What is appended is found where the data ended before.                  *)
LEMMA SliceAppended ==
  ASSUME NEW bytes \in Contents, NEW more \in Contents, NEW e \in Entries,
         e.offset = Len(bytes), e.size = Len(more)
  PROVE  Slice(bytes \o more, e) = more
<1> DEFINE n == Len(bytes)
           z == Len(more)
           both == bytes \o more
<1>1. n \in Nat /\ z \in Nat
  BY LenProperties DEF Contents
<1>2. /\ \A i \in 1..n + z : both[i] = IF i <= n THEN bytes[i] ELSE more[i - n]
      /\ \A i \in 1..z : more[i] \in Byte
  BY ConcatProperties, ElementOfSeq DEF Contents
<1>3. Slice(both, e) = SubSeq(both, n + 1, n + z)
  BY DEF Slice
<1> HIDE DEF n, z, both
<1>4. ASSUME NEW i \in 1..z
      PROVE  n + i \in 1..n + z /\ both[n + i] = more[i]
  <2>1. n + i \in 1..n + z /\ ~(n + i <= n) /\ (n + i) - n = i
    BY <1>1
  <2> QED
    BY <1>2, <2>1
<1>5. \A i \in n + 1..n + z : both[i] \in Byte
  <2>1. \A i \in n + 1..n + z : i - n \in 1..z /\ n + (i - n) = i
    BY <1>1
  <2> QED
    BY <1>2, <1>4, <2>1
<1>6. /\ SubSeq(both, n + 1, n + z) \in Seq(Byte)
      /\ Len(SubSeq(both, n + 1, n + z)) = z
      /\ \A i \in 1..z : SubSeq(both, n + 1, n + z)[i] = both[n + i]
  BY <1>1, <1>5, SubSeqFacts
<1>8. SubSeq(both, n + 1, n + z) = more
  <2>1. more \in Seq(Byte) /\ Len(more) = z
    BY DEF Contents, z
  <2> QED
    BY <1>4, <1>6, <2>1, SeqEqual
<1> QED
  BY <1>3, <1>8 DEF both

(* A read returns a piece of the file that follows what was read before.   *)
LEMMA PieceFacts ==
  ASSUME NEW p, dir[p].content \in Contents, opened.got \in Contents,
         opened.size \in Nat, BUFFER_SIZE \in Nat
  PROVE  LET piece == NextPiece(p, opened.size)
             read == opened.got \o piece
         IN  /\ read \in Contents
             /\ Len(opened.got) <= opened.size => Len(read) <= opened.size
             /\ /\ Len(opened.got) <= Len(dir[p].content)
                /\ Len(opened.got) <= opened.size
                /\ opened.got = SubSeq(dir[p].content, 1, Len(opened.got))
                => read = SubSeq(dir[p].content, 1, Len(read))
<1> DEFINE c == dir[p].content
           got == opened.got
           from == Len(got)
           z == opened.size
           piece == NextPiece(p, opened.size)
           three == {from + BUFFER_SIZE, z, Len(c)}
           least == {n \in three : \A m \in three : n <= m}
           n == CHOOSE x \in least : TRUE
<1>1. /\ from \in Nat /\ z \in Nat /\ Len(c) \in Nat /\ from + BUFFER_SIZE \in Nat
      /\ c \in Seq(Byte) /\ got \in Seq(Byte)
  BY LenProperties DEF Contents
<1>2. piece = SubSeq(c, from + 1, n)
  BY DEF NextPiece
<1> HIDE DEF c, from, z, got, piece
<1>3. n \in Nat /\ n <= z /\ n <= Len(c) /\ n <= from + BUFFER_SIZE
  <2> HIDE DEF n
  <2>1. three \in SUBSET Nat /\ three # {}
    BY <1>1
  <2>2. PICK x \in three : \A m \in three : x <= m
    <3> HIDE DEF three
    <3> QED
      BY <2>1, LeastNumber
  <2>3. least # {}
    BY <2>2
  <2>4. n \in least
    <3> HIDE DEF least
    <3> QED
      BY <2>3 DEF n
  <2> QED
    BY <2>1, <2>4
<1> HIDE DEF n
<1>4. /\ piece \in Seq(Byte)
      /\ Len(piece) = IF from + 1 <= n THEN n - from ELSE 0
  <2>1. \A i \in from + 1..n : c[i] \in Byte
    <3>1. \A i \in from + 1..n : i \in 1..Len(c)
      BY <1>1, <1>3
    <3> QED
      BY <1>1, <3>1, ElementOfSeq
  <2>2. from + 1 \in Int /\ n \in Int /\ n - (from + 1) + 1 = n - from
    BY <1>1, <1>3
  <2> QED
    BY <1>2, <2>1, <2>2, SubSeqProperties
<1>5. got \o piece \in Seq(Byte) /\ Len(got \o piece) = from + Len(piece)
  BY <1>1, <1>4, ConcatProperties DEF from
<1>6. ASSUME from <= z PROVE Len(got \o piece) <= z
  BY <1>1, <1>3, <1>4, <1>5, <1>6
<1>7. ASSUME from <= Len(c), from <= z, got = SubSeq(c, 1, from)
      PROVE  got \o piece = SubSeq(c, 1, Len(got \o piece))
  <2>1. CASE from + 1 <= n
    <3>1. Len(got \o piece) = n
      BY <1>1, <1>3, <1>4, <1>5, <2>1
    <3>2. 1 \in 1..Len(c) + 1 /\ from \in 1 - 1..Len(c) /\ n \in from..Len(c)
      BY <1>1, <1>3, <1>7, <2>1
    <3>3. SubSeq(c, 1, from) \o SubSeq(c, from + 1, n) = SubSeq(c, 1, n)
      BY <1>1, <3>2, ConcatAdjacentSubSeq
    <3> QED
      BY <1>2, <1>7, <3>1, <3>3
  <2>2. CASE ~(from + 1 <= n)
    <3>1. piece = <<>> /\ Len(got \o piece) = from
      BY <1>1, <1>4, <1>5, <2>2
    <3>2. got \o piece = got
      BY <1>1, <3>1, ConcatEmptySeq
    <3> QED
      BY <1>7, <3>1, <3>2
  <2> QED
    BY <2>1, <2>2
<1> QED
  BY <1>5, <1>6, <1>7 DEF c, from, z, got, piece, Contents
-----------------------------------------------------------------------------
PackPcs == {"start", "walk", "hash", "hashing", "copy", "copying",
            "encrypt", "encrypted"} \cup Final

Directory == [AllPaths -> [kind : Kinds, content : Contents]]

PackTypes ==
  /\ pc \in PackPcs
  /\ setting \in Settings
  /\ dir \in Directory
  /\ found \subseteq walked /\ walked \subseteq AllPaths
  /\ \A p \in found : ValidPath(p)
  /\ sources \in Seq(Recorded)
  /\ opened \in [size : Nat, got : Contents]
  /\ Len(opened.got) <= opened.size
  /\ plain \in Contents
  /\ copied \in 0..Len(sources)
  /\ temp \in {"none", "open"}
  /\ temp = "open" => pc \in {"copy", "copying", "encrypt", "encrypted",
                              "crashed"}
  /\ ioFailed \in BOOLEAN
  /\ edits \in 0..MaxEdits

(* Every source is recorded under the path that is its turn, with as many  *)
(* bytes as its size says.                                                 *)
RecordInv ==
  /\ Len(sources) <= Len(Sorted)
  /\ \A i \in 1..Len(sources) :
       /\ sources[i].path = Sorted[i]
       /\ sources[i].size = Len(sources[i].hash)
  /\ pc \in {"start", "walk"} => sources = <<>>
  /\ pc = "hashing" => Len(sources) < Len(Sorted)
  /\ pc \in {"copy", "copying", "encrypt", "encrypted", "ok"} =>
       /\ Len(sources) = Len(Sorted)
       /\ 1 + Len(sources) <= MAX_MANIFEST_SIZE

Entered == Manifest(sources)

(* What has been appended lies where the manifest says, as it was hashed.  *)
CopyInv ==
  /\ pc \in {"start", "walk", "hash", "hashing"} => copied = 0 /\ plain = <<>>
  /\ pc = "copying" =>
       copied < Len(sources) /\ opened.size = sources[copied + 1].size
  /\ pc \in {"encrypt", "encrypted", "ok"} => copied = Len(sources)
  /\ pc \in {"copy", "copying"} =>
       Len(plain) = IF copied = 0 THEN 0 ELSE End(Entered[copied])
  /\ \A i \in 1..copied :
       /\ End(Entered[i]) <= Len(plain)
       /\ Slice(plain, Entered[i]) = sources[i].hash
  /\ Written => out = Payload

(* As long as nobody has changed the directory, found is what it holds,    *)
(* and what was read of its files is what they contain.                    *)
StableInv ==
  edits = 0 =>
    /\ found = {p \in walked : dir[p] # Absent}
    /\ pc \notin {"start", "walk", "error", "crashed"} => walked = AllPaths
    /\ \A i \in 1..Len(sources) : sources[i].hash = dir[sources[i].path].content
    /\ pc = "hashing" =>
         LET c == dir[Sorted[Len(sources) + 1]].content
         IN  opened.size = Len(c) /\ opened.got = SubSeq(c, 1, Len(opened.got))

PackInv == PackTypes /\ RecordInv /\ CopyInv /\ StableInv

LEMMA OrderFacts ==
         /\ PathOrder \in Seq(AllPaths) /\ AllPaths \subseteq Seq(STRING)
         /\ Directories \subseteq Directory
         /\ BUFFER_SIZE \in Nat \ {0} /\ MaxEdits \in Nat
         /\ Paddings \subseteq [kind : {"none", "bucket", "fixed"}, size : Nat]
<1>1. PathOrder \in Seq(Seq(STRING))
  BY PackAssumption
<1>2. /\ Len(PathOrder) \in Nat /\ PathOrder \in [1..Len(PathOrder) -> Seq(STRING)]
  BY <1>1, LenProperties
<1>3. AllPaths = {PathOrder[i] : i \in 1..Len(PathOrder)}
  BY DEF AllPaths, InOrder
<1>4. PathOrder \in [1..Len(PathOrder) -> AllPaths]
  BY <1>2, <1>3
<1>5. PathOrder \in Seq(AllPaths)
  BY <1>2, <1>4
<1>6. AllPaths \subseteq Seq(STRING)
  BY <1>2, <1>3
<1>7. Directories \subseteq Directory
  BY PackAssumption DEF Directory
<1> QED
  BY <1>5, <1>6, <1>7, PackAssumption

(* The paths in the order in which they are read. *)
LEMMA SortedFacts ==
  ASSUME found \subseteq AllPaths
  PROVE  /\ Sorted \in Seq(found) /\ Len(Sorted) \in Nat
         /\ \A i \in 1..Len(Sorted) :
              /\ Sorted[i] \in found /\ Sorted[i] \in AllPaths
              /\ Sorted[i] \in Seq(STRING)
<1>1. PathOrder \in Seq(AllPaths) /\ AllPaths \subseteq Seq(STRING)
  BY OrderFacts
<1>2. Sorted \in Seq(found \cap AllPaths)
  BY <1>1, ListedMembers DEF Sorted
<1>3. Sorted \in Seq(found)
  <2>1. found \cap AllPaths = found
    OBVIOUS
  <2> QED
    BY <1>2, <2>1
<1>4. Len(Sorted) \in Nat
  BY <1>3, LenProperties
<1>5. \A i \in 1..Len(Sorted) : Sorted[i] \in found
  BY <1>3, ElementOfSeq
<1> QED
  BY <1>1, <1>3, <1>4, <1>5
-----------------------------------------------------------------------------
LEMMA PackInit == ASSUME Init PROVE PackInv
<1>1. /\ setting \in Settings /\ pc = "start" /\ dir = setting.dir
      /\ walked = {} /\ found = {} /\ sources = <<>>
      /\ opened = [size |-> 0, got |-> <<>>] /\ plain = <<>> /\ copied = 0
      /\ temp = "none" /\ ioFailed = FALSE /\ edits = 0
  BY DEF Init, Closed
<1>2. setting.dir \in Directory
  BY <1>1, OrderFacts DEF Settings
<1>3. <<>> \in Contents /\ <<>> \in Seq(Recorded) /\ Len(<<>>) = 0
  BY EmptySeq DEF Contents
<1>4. PackTypes
  <2>1. MaxEdits \in Nat
    BY OrderFacts
  <2>2. /\ opened \in [size : Nat, got : Contents]
        /\ opened.got = <<>> /\ opened.size = 0
    BY <1>1, <1>3
  <2>3. /\ Len(opened.got) <= opened.size /\ copied \in 0..Len(sources)
        /\ edits \in 0..MaxEdits /\ sources \in Seq(Recorded) /\ plain \in Contents
    BY <1>1, <1>3, <2>1, <2>2
  <2>4. /\ found \subseteq walked /\ walked \subseteq AllPaths
        /\ \A p \in found : ValidPath(p)
    BY <1>1
  <2> QED
    BY <1>1, <1>2, <2>2, <2>3, <2>4 DEF PackTypes, PackPcs
<1>5. RecordInv
  <2>1. Len(Sorted) \in Nat
    BY <1>1, SortedFacts
  <2>2. 1..Len(sources) = {}
    BY <1>1, <1>3
  <2> QED
    BY <1>1, <1>3, <2>1, <2>2 DEF RecordInv
<1>6. CopyInv
  <2>1. 1..copied = {}
    BY <1>1
  <2> QED
    BY <1>1, <2>1 DEF CopyInv, Written
<1>7. StableInv
  <2>1. 1..Len(sources) = {}
    BY <1>1, <1>3
  <2> QED
    BY <1>1, <2>1 DEF StableInv
<1> QED
  BY <1>4, <1>5, <1>6, <1>7 DEF PackInv

LEMMA ListedLength ==
  ASSUME NEW S PROVE Len(Listed(PathOrder, S)) \in Nat
<1>1. Listed(PathOrder, S) \in Seq(S \cap AllPaths)
  BY OrderFacts, ListedMembers
<1> QED
  BY <1>1, LenProperties

(* The invariant, name by name, for the steps.                             *)
LEMMA TypeFacts ==
  ASSUME PackTypes
  PROVE  /\ Len(sources) \in Nat /\ copied \in Nat
         /\ opened.size \in Nat /\ opened.got \in Contents
         /\ Len(opened.got) \in Nat /\ Len(plain) \in Nat
         /\ \A p \in AllPaths :
              /\ dir[p].content \in Contents /\ dir[p].kind \in Kinds
              /\ Len(dir[p].content) \in Nat
<1>1. Len(sources) \in Nat
  BY LenProperties DEF PackTypes
<1>2. copied \in Nat
  BY <1>1 DEF PackTypes
<1>3. opened.size \in Nat /\ opened.got \in Contents
  BY DEF PackTypes
<1>4. Len(opened.got) \in Nat /\ Len(plain) \in Nat
  BY <1>3, LenProperties DEF PackTypes, Contents
<1>5. \A p \in AllPaths : dir[p] \in [kind : Kinds, content : Contents]
  BY DEF PackTypes, Directory
<1>6. \A p \in AllPaths :
        dir[p].content \in Contents /\ dir[p].kind \in Kinds
  BY <1>5
<1>7. \A p \in AllPaths : Len(dir[p].content) \in Nat
  BY <1>6, LenProperties DEF Contents
<1> QED
  BY <1>1, <1>2, <1>3, <1>4, <1>6, <1>7

(* Nothing is left to keep once the command has stopped early.             *)
LEMMA Stopped ==
  ASSUME PackInv, pc' \in {"error", "crashed"},
         UNCHANGED <<walked, found, sources, opened, plain, copied>>,
         UNCHANGED <<dir, edits, setting>>,
         temp' = "none" \/ (temp' = temp /\ pc' = "crashed"), ioFailed' \in BOOLEAN
  PROVE  PackInv'
<1>1. Sorted' = Sorted /\ Entered' = Entered
  BY DEF Sorted, Entered
<1>2. PackTypes'
  <2>1. PackTypes
    BY DEF PackInv
  <2>2. /\ pc' \in PackPcs /\ temp' \in {"none", "open"}
        /\ temp' = "open" => pc' = "crashed"
    BY <2>1 DEF PackTypes, PackPcs, Final
  <2> QED
    BY <2>1, <2>2 DEF PackTypes
<1>3. RecordInv'
  BY <1>1 DEF PackInv, RecordInv
<1>4. CopyInv'
  BY <1>1 DEF PackInv, CopyInv, Written
<1>5. StableInv'
  BY DEF PackInv, StableInv
<1> QED
  BY <1>2, <1>3, <1>4, <1>5 DEF PackInv

LEMMA RejectNext ==
  ASSUME PackInv, Reject, UNCHANGED world PROVE PackInv'
<1>1. /\ pc' = "error" /\ temp' = "none" /\ ioFailed' = ioFailed
      /\ UNCHANGED <<walked, found, sources, opened, plain, copied>>
      /\ UNCHANGED <<dir, edits, setting>>
  BY DEF Reject, work, world
<1>2. ioFailed \in BOOLEAN
  BY DEF PackInv, PackTypes
<1> QED
  BY <1>1, <1>2, Stopped

LEMMA StartNext ==
  ASSUME PackInv, Start, UNCHANGED world PROVE PackInv'
<1>1. CASE Reject
  BY <1>1, RejectNext
<1>2. CASE Goto("walk") /\ UNCHANGED work
  <2>1. /\ pc = "start" /\ pc' = "walk"
        /\ UNCHANGED <<temp, out, ioFailed, dir, edits, setting>>
        /\ UNCHANGED <<walked, found, sources, opened, plain, copied>>
    BY <1>2 DEF Start, Goto, work, world
  <2>2. Sorted' = Sorted /\ Entered' = Entered
    BY <2>1 DEF Sorted, Entered
  <2>3. PackTypes'
    BY <2>1 DEF PackInv, PackTypes, PackPcs
  <2>4. RecordInv'
    BY <2>1, <2>2 DEF PackInv, RecordInv
  <2>5. CopyInv'
    BY <2>1, <2>2 DEF PackInv, CopyInv, Written
  <2>6. StableInv'
    BY <2>1 DEF PackInv, StableInv
  <2> QED
    BY <2>3, <2>4, <2>5, <2>6 DEF PackInv
<1> QED
  BY <1>1, <1>2 DEF Start

LEMMA WalkPathNext ==
  ASSUME PackInv, NEW p \in AllPaths, WalkPath(p),
         UNCHANGED world
  PROVE  PackInv'
<1>1. CASE Reject
  BY <1>1, RejectNext
<1>2. CASE ~Reject
  <2>1. /\ pc = "walk" /\ pc' = "walk" /\ walked' = walked \cup {p}
        /\ dir[p] # Absent => ValidPath(p)
        /\ found' = IF dir[p] = Absent THEN found ELSE found \cup {p}
        /\ UNCHANGED <<temp, out, ioFailed, dir, edits, setting>>
        /\ UNCHANGED <<sources, opened, plain, copied>>
    BY <1>2 DEF WalkPath, Goto, world
  <2>2. PackTypes
    BY DEF PackInv
  <2>3. PackTypes'
    <3>1. /\ found' \subseteq walked' /\ walked' \subseteq AllPaths
          /\ \A q \in found' : ValidPath(q)
      BY <2>1, <2>2 DEF PackTypes
    <3> QED
      BY <2>1, <2>2, <3>1 DEF PackTypes
  <2>4. sources = <<>> /\ Len(sources) = 0 /\ 1..Len(sources) = {}
    BY <2>1 DEF PackInv, RecordInv
  <2>5. RecordInv'
    <3>1. Len(Sorted') \in Nat
      BY ListedLength DEF Sorted
    <3> QED
      BY <2>1, <2>4, <3>1 DEF RecordInv
  <2>6. CopyInv'
    <3>1. copied = 0 /\ plain = <<>> /\ 1..copied = {}
      BY <2>1 DEF PackInv, CopyInv
    <3> QED
      BY <2>1, <3>1 DEF CopyInv, Written
  <2>7. StableInv'
    <3> SUFFICES ASSUME edits = 0
                 PROVE  found' = {q \in walked' : dir[q] # Absent}
      BY <2>1, <2>4 DEF StableInv
    <3>1. found = {q \in walked : dir[q] # Absent}
      BY DEF PackInv, StableInv
    <3> QED
      BY <2>1, <3>1
  <2> QED
    BY <2>3, <2>5, <2>6, <2>7 DEF PackInv
<1> QED
  BY <1>1, <1>2

LEMMA WalkDoneNext ==
  ASSUME PackInv, WalkDone, UNCHANGED world PROVE PackInv'
<1>1. /\ pc = "walk" /\ pc' = "hash" /\ walked = AllPaths
      /\ UNCHANGED <<temp, out, ioFailed, dir, edits, setting>>
      /\ UNCHANGED <<walked, found, sources, opened, plain, copied>>
  BY DEF WalkDone, Goto, work, world
<1>2. Sorted' = Sorted /\ Entered' = Entered
  BY <1>1 DEF Sorted, Entered
<1>3. PackTypes'
  BY <1>1 DEF PackInv, PackTypes, PackPcs
<1>4. RecordInv'
  BY <1>1, <1>2 DEF PackInv, RecordInv
<1>5. CopyInv'
  BY <1>1, <1>2 DEF PackInv, CopyInv, Written
<1>6. StableInv'
  BY <1>1 DEF PackInv, StableInv
<1> QED
  BY <1>3, <1>4, <1>5, <1>6 DEF PackInv

(* The file whose turn it is.                                              *)
LEMMA TurnFacts ==
  ASSUME PackInv
  PROVE  /\ Len(Sorted) \in Nat
         /\ \A i \in 1..Len(Sorted) :
              /\ Sorted[i] \in found /\ Sorted[i] \in AllPaths
              /\ Sorted[i] \in Seq(STRING)
         /\ Len(sources) < Len(Sorted) =>
              /\ Sorted[Len(sources) + 1] \in AllPaths
              /\ Sorted[Len(sources) + 1] \in Seq(STRING)
         /\ copied < Len(sources) => sources[copied + 1].path \in AllPaths
<1>1. PackTypes /\ RecordInv
  BY DEF PackInv
<1>2. found \subseteq AllPaths
  BY <1>1 DEF PackTypes
<1>3. /\ Len(Sorted) \in Nat
      /\ \A i \in 1..Len(Sorted) :
           /\ Sorted[i] \in found /\ Sorted[i] \in AllPaths
           /\ Sorted[i] \in Seq(STRING)
  BY <1>2, SortedFacts
<1>4. Len(sources) \in Nat /\ copied \in Nat
  BY <1>1, TypeFacts
<1>5. Len(sources) < Len(Sorted) => Len(sources) + 1 \in 1..Len(Sorted)
  BY <1>3, <1>4
<1>6. ASSUME copied < Len(sources) PROVE sources[copied + 1].path \in AllPaths
  <2>1. copied + 1 \in 1..Len(sources) /\ copied + 1 \in 1..Len(Sorted)
    BY <1>1, <1>3, <1>4, <1>6 DEF RecordInv
  <2>2. sources[copied + 1].path = Sorted[copied + 1]
    BY <1>1, <2>1 DEF RecordInv
  <2> QED
    BY <1>3, <2>1, <2>2
<1> QED
  BY <1>3, <1>5, <1>6

LEMMA HashOpenNext ==
  ASSUME PackInv, HashOpen, UNCHANGED world
  PROVE  PackInv'
<1> DEFINE p == Sorted[Len(sources) + 1]
           c == dir[p].content
<1>1. CASE Reject
  BY <1>1, RejectNext
<1>2. CASE ~Reject
  <2>1. /\ pc = "hash" /\ pc' = "hashing" /\ Len(sources) < Len(Sorted)
        /\ opened' = [size |-> Len(c), got |-> <<>>]
        /\ UNCHANGED <<temp, out, ioFailed, dir, edits, setting>>
        /\ UNCHANGED <<walked, found, sources, plain, copied>>
    BY <1>2 DEF HashOpen, Goto, world
  <2>2. PackTypes /\ p \in AllPaths
    BY <2>1, TurnFacts DEF PackInv
  <2>3. c \in Contents /\ Len(c) \in Nat
    BY <2>2, TypeFacts
  <2>4. /\ opened' \in [size : Nat, got : Contents]
        /\ opened'.size = Len(c) /\ opened'.got = <<>> /\ Len(<<>>) = 0
    <3>1. <<>> \in Contents /\ Len(<<>>) = 0
      BY EmptySeq DEF Contents
    <3> QED
      BY <2>1, <2>3, <3>1
  <2>5. Sorted' = Sorted /\ Entered' = Entered
    BY <2>1 DEF Sorted, Entered
  <2>6. PackTypes'
    <3>1. pc' \in PackPcs /\ Len(opened'.got) <= opened'.size
      BY <2>1, <2>3, <2>4 DEF PackPcs
    <3> HIDE DEF p, c
    <3> QED
      BY <2>1, <2>2, <2>4, <3>1 DEF PackTypes
  <2>7. RecordInv'
    BY <2>1, <2>5 DEF PackInv, RecordInv
  <2>8. CopyInv'
    BY <2>1, <2>5 DEF PackInv, CopyInv, Written
  <2>9. StableInv'
    <3>1. SubSeq(c, 1, 0) = <<>>
      BY SubSeqEmpty
    <3> HIDE DEF c
    <3>2. opened'.got = SubSeq(c, 1, Len(opened'.got))
      BY <2>4, <3>1
    <3> QED
      BY <2>1, <2>4, <2>5, <3>2 DEF PackInv, StableInv, c, p
  <2> QED
    BY <2>6, <2>7, <2>8, <2>9 DEF PackInv
<1> QED
  BY <1>1, <1>2

(* What a read adds to the open file.                                      *)
LEMMA ReadPieceFacts ==
  ASSUME PackInv, NEW p \in AllPaths, ReadPiece(p),
         UNCHANGED world, ~Reject
  PROVE  /\ opened' \in [size : Nat, got : Contents]
         /\ opened'.size = opened.size /\ Len(opened'.got) <= opened'.size
         /\ UNCHANGED <<pc, temp, out, ioFailed, dir, edits, setting>>
         /\ UNCHANGED <<walked, found, sources, plain, copied>>
         /\ opened.size = Len(dir[p].content)
            /\ opened.got = SubSeq(dir[p].content, 1, Len(opened.got))
            => opened'.got = SubSeq(dir[p].content, 1, Len(opened'.got))
<1> DEFINE read == opened.got \o NextPiece(p, opened.size)
<1>1. PackTypes
  BY DEF PackInv
<1>2. /\ dir[p].content \in Contents /\ opened.got \in Contents
      /\ opened.size \in Nat /\ BUFFER_SIZE \in Nat /\ Len(opened.got) <= opened.size
  BY <1>1, TypeFacts, OrderFacts DEF PackTypes
<1>3. /\ read \in Contents /\ Len(read) <= opened.size
      /\ /\ opened.size = Len(dir[p].content)
         /\ opened.got = SubSeq(dir[p].content, 1, Len(opened.got))
         => read = SubSeq(dir[p].content, 1, Len(read))
  BY <1>2, PieceFacts
<1>4. /\ opened' = [opened EXCEPT !.got = read]
      /\ UNCHANGED <<pc, temp, out, ioFailed, dir, edits, setting>>
      /\ UNCHANGED <<walked, found, sources, plain, copied>>
  BY DEF ReadPiece, world
<1> HIDE DEF read
<1>5. /\ opened' \in [size : Nat, got : Contents]
      /\ opened'.size = opened.size /\ opened'.got = read
  <2>1. opened \in [size : Nat, got : Contents]
    BY <1>1 DEF PackTypes
  <2> QED
    BY <1>3, <1>4, <2>1
<1> QED
  BY <1>3, <1>4, <1>5

LEMMA HashReadNext ==
  ASSUME PackInv, HashRead, UNCHANGED world
  PROVE  PackInv'
<1> DEFINE p == Sorted[Len(sources) + 1]
<1>1. CASE Reject
  BY <1>1, RejectNext
<1>2. CASE ~Reject
  <2>1. pc = "hashing" /\ ReadPiece(p)
    BY DEF HashRead
  <2>2. p \in AllPaths
    BY <2>1, TurnFacts DEF PackInv, RecordInv
  <2>3. /\ opened' \in [size : Nat, got : Contents]
        /\ opened'.size = opened.size /\ Len(opened'.got) <= opened'.size
        /\ UNCHANGED <<pc, temp, out, ioFailed, dir, edits, setting>>
        /\ UNCHANGED <<walked, found, sources, plain, copied>>
        /\ opened.size = Len(dir[p].content)
           /\ opened.got = SubSeq(dir[p].content, 1, Len(opened.got))
           => opened'.got = SubSeq(dir[p].content, 1, Len(opened'.got))
    BY <1>2, <2>1, <2>2, ReadPieceFacts
  <2>4. Sorted' = Sorted /\ Entered' = Entered /\ p' = p
    BY <2>3 DEF Sorted, Entered
  <2> HIDE DEF p
  <2>5. PackTypes'
    BY <2>3 DEF PackInv, PackTypes
  <2>6. RecordInv'
    BY <2>3, <2>4 DEF PackInv, RecordInv
  <2>7. CopyInv'
    BY <2>1, <2>3, <2>4 DEF PackInv, CopyInv, Written
  <2>8. StableInv'
    BY <2>1, <2>3, <2>4 DEF PackInv, StableInv, p
  <2> QED
    BY <2>5, <2>6, <2>7, <2>8 DEF PackInv
<1> QED
  BY <1>1, <1>2

LEMMA HashEndNext ==
  ASSUME PackInv, HashEnd, UNCHANGED world
  PROVE  PackInv'
<1> DEFINE p == Sorted[Len(sources) + 1]
           c == dir[p].content
           n == Len(sources)
           s == [path |-> p, size |-> opened.size, hash |-> opened.got]
<1>1. CASE Reject
  BY <1>1, RejectNext
<1>2. CASE ~Reject
  <2>1. /\ pc = "hashing" /\ pc' = "hash" /\ Len(opened.got) = opened.size
        /\ Len(c) <= Len(opened.got)
        /\ sources' = Append(sources, s) /\ opened' = [size |-> 0, got |-> <<>>]
        /\ UNCHANGED <<temp, out, ioFailed, dir, edits, setting>>
        /\ UNCHANGED <<walked, found, plain, copied>>
    BY <1>2 DEF HashEnd, Goto, world, AtEnd, Closed
  <2>2. n < Len(Sorted) /\ Len(Sorted) \in Nat /\ n \in Nat
    BY <2>1, TurnFacts, TypeFacts DEF PackInv, RecordInv
  <2>3. p \in AllPaths /\ p \in Seq(STRING)
    BY <2>2, TurnFacts
  <2>4. /\ PackTypes /\ c \in Contents /\ Len(c) \in Nat
        /\ opened.size \in Nat /\ opened.got \in Contents /\ sources \in Seq(Recorded)
    BY <2>3, TypeFacts DEF PackInv, PackTypes
  <2>5. /\ s \in Recorded /\ s.path = p
        /\ s.size = opened.size /\ s.hash = opened.got
    BY <2>3, <2>4 DEF Recorded
  <2>6. Sorted' = Sorted
    BY <2>1 DEF Sorted
  <2> HIDE DEF s
  <2>7. /\ sources' \in Seq(Recorded) /\ Len(sources') = n + 1
        /\ \A i \in 1..n : sources'[i] = sources[i]
        /\ sources'[n + 1] = s
    BY <2>1, <2>4, <2>5, AppendProperties
  <2>8. \A i \in 1..n + 1 : i \in 1..n \/ i = n + 1
    BY <2>2
  <2> HIDE DEF c, n
  <2>9. PackTypes'
    <3>1. /\ opened' \in [size : Nat, got : Contents]
          /\ Len(opened'.got) <= opened'.size
      <4>1. <<>> \in Contents /\ Len(<<>>) = 0
        BY EmptySeq DEF Contents
      <4> QED
        BY <2>1, <4>1
    <3>2. copied' \in 0..Len(sources')
      BY <2>1, <2>2, <2>4, <2>7 DEF PackTypes, n
    <3>3. pc' \in PackPcs /\ temp = "none"
      BY <2>1, <2>4 DEF PackPcs, PackTypes
    <3> QED
      BY <2>1, <2>4, <2>7, <3>1, <3>2, <3>3 DEF PackTypes
  <2>10. RecordInv'
    <3>1. n + 1 <= Len(Sorted)
      BY <2>2
    <3>2. \A i \in 1..n : /\ sources[i].path = Sorted[i]
                          /\ sources[i].size = Len(sources[i].hash)
      BY DEF PackInv, RecordInv, n
    <3>3. s.path = Sorted[n + 1] /\ s.size = Len(s.hash)
      BY <2>1, <2>5 DEF p, n
    <3>4. \A i \in 1..Len(sources') :
            /\ sources'[i].path = Sorted'[i]
            /\ sources'[i].size = Len(sources'[i].hash)
      BY <2>6, <2>7, <2>8, <3>2, <3>3
    <3> QED
      BY <2>1, <2>6, <2>7, <3>1, <3>4 DEF RecordInv
  <2>11. CopyInv'
    <3>1. copied' = 0 /\ plain' = <<>>
      BY <2>1 DEF PackInv, CopyInv
    <3>2. 1..copied' = {}
      BY <3>1
    <3> QED
      BY <2>1, <3>1, <3>2 DEF CopyInv, Written
  <2>12. StableInv'
    <3> SUFFICES ASSUME edits = 0
                 PROVE  /\ found = {q \in walked : dir[q] # Absent}
                        /\ walked = AllPaths
                        /\ \A i \in 1..n + 1 :
                             sources'[i].hash = dir[sources'[i].path].content
      BY <2>1, <2>7 DEF StableInv
    <3>1. /\ found = {q \in walked : dir[q] # Absent}
          /\ walked = AllPaths
          /\ \A i \in 1..n : sources[i].hash = dir[sources[i].path].content
          /\ opened.size = Len(c) /\ opened.got = SubSeq(c, 1, Len(opened.got))
      BY <2>1 DEF PackInv, StableInv, c, p, n
    <3>2. opened.got = c
      BY <2>1, <2>4, <3>1, SubSeqFull DEF Contents
    <3>3. s.hash = dir[s.path].content
      BY <2>5, <3>2 DEF c
    <3> QED
      BY <2>7, <2>8, <3>1, <3>3
  <2> QED
    BY <2>9, <2>10, <2>11, <2>12 DEF PackInv
<1> QED
  BY <1>1, <1>2

LEMMA WriteManifestNext ==
  ASSUME PackInv, WriteManifest, UNCHANGED world
  PROVE  PackInv'
<1>1. CASE Reject
  BY <1>1, RejectNext
<1>2. CASE ~Reject
  <2>1. /\ pc = "hash" /\ Len(sources) = Len(Sorted)
        /\ ~(ManifestSize(Manifest(sources)) > MAX_MANIFEST_SIZE)
        /\ temp' = "open" /\ pc' = "copy"
        /\ UNCHANGED <<out, ioFailed, dir, edits, setting>>
        /\ UNCHANGED <<walked, found, sources, opened, plain, copied>>
    BY <1>2 DEF WriteManifest, work, world, Manifest
  <2>2. PackTypes /\ Len(sources) \in Nat /\ sources \in Seq(Recorded)
    BY TypeFacts DEF PackInv, PackTypes
  <2>3. 1 + Len(sources) <= MAX_MANIFEST_SIZE
    <3>1. ManifestSize(Manifest(sources)) = 1 + Len(sources)
      BY <2>2, ManifestFacts DEF ManifestSize
    <3> QED
      BY <2>1, <2>2, <3>1, BundleAssumption
  <2>4. Sorted' = Sorted /\ Entered' = Entered
    BY <2>1 DEF Sorted, Entered
  <2>5. PackTypes'
    BY <2>1, <2>2 DEF PackTypes, PackPcs
  <2>6. RecordInv'
    BY <2>1, <2>3, <2>4 DEF PackInv, RecordInv
  <2>7. CopyInv'
    <3>1. copied = 0 /\ plain = <<>> /\ 1..copied = {} /\ Len(plain) = 0
      BY <2>1, EmptySeq DEF PackInv, CopyInv
    <3> QED
      BY <2>1, <3>1 DEF CopyInv, Written
  <2>8. StableInv'
    BY <2>1 DEF PackInv, StableInv
  <2> QED
    BY <2>5, <2>6, <2>7, <2>8 DEF PackInv
<1> QED
  BY <1>1, <1>2

LEMMA CopyOpenNext ==
  ASSUME PackInv, CopyOpen, UNCHANGED world
  PROVE  PackInv'
<1> DEFINE s == sources[copied + 1]
<1>1. CASE Reject
  BY <1>1, RejectNext
<1>2. CASE ~Reject
  <2>1. /\ pc = "copy" /\ pc' = "copying" /\ copied < Len(sources)
        /\ opened' = [size |-> s.size, got |-> <<>>]
        /\ UNCHANGED <<temp, out, ioFailed, dir, edits, setting>>
        /\ UNCHANGED <<walked, found, sources, plain, copied>>
    BY <1>2 DEF CopyOpen, Goto, world
  <2>2. /\ PackTypes /\ Len(sources) \in Nat /\ copied \in Nat
        /\ sources \in Seq(Recorded)
    BY TypeFacts DEF PackInv, PackTypes
  <2>3. s.size \in Nat
    <3>1. copied + 1 \in 1..Len(sources)
      BY <2>1, <2>2
    <3> QED
      BY <2>2, <3>1, RecordedFacts
  <2>4. /\ opened' \in [size : Nat, got : Contents]
        /\ opened'.size = s.size /\ Len(opened'.got) <= opened'.size
    <3>1. <<>> \in Contents /\ Len(<<>>) = 0
      BY EmptySeq DEF Contents
    <3> QED
      BY <2>1, <2>3, <3>1
  <2>5. Sorted' = Sorted /\ Entered' = Entered /\ s' = s
    BY <2>1 DEF Sorted, Entered
  <2>6. PackTypes'
    BY <2>1, <2>2, <2>4 DEF PackTypes, PackPcs
  <2>7. RecordInv'
    BY <2>1, <2>5 DEF PackInv, RecordInv
  <2>8. CopyInv'
    BY <2>1, <2>4, <2>5 DEF PackInv, CopyInv, Written
  <2>9. StableInv'
    BY <2>1 DEF PackInv, StableInv
  <2> QED
    BY <2>6, <2>7, <2>8, <2>9 DEF PackInv
<1> QED
  BY <1>1, <1>2

LEMMA CopyReadNext ==
  ASSUME PackInv, CopyRead, UNCHANGED world
  PROVE  PackInv'
<1> DEFINE p == sources[copied + 1].path
<1>1. CASE Reject
  BY <1>1, RejectNext
<1>2. CASE ~Reject
  <2>1. pc = "copying" /\ ReadPiece(p)
    BY DEF CopyRead
  <2>2. p \in AllPaths
    BY <2>1, TurnFacts DEF PackInv, CopyInv
  <2>3. /\ opened' \in [size : Nat, got : Contents]
        /\ opened'.size = opened.size /\ Len(opened'.got) <= opened'.size
        /\ UNCHANGED <<pc, temp, out, ioFailed, dir, edits, setting>>
        /\ UNCHANGED <<walked, found, sources, plain, copied>>
    BY <1>2, <2>1, <2>2, ReadPieceFacts
  <2>4. Sorted' = Sorted /\ Entered' = Entered
    BY <2>3 DEF Sorted, Entered
  <2>5. PackTypes'
    BY <2>3 DEF PackInv, PackTypes
  <2>6. RecordInv'
    BY <2>3, <2>4 DEF PackInv, RecordInv
  <2>7. CopyInv'
    BY <2>1, <2>3, <2>4 DEF PackInv, CopyInv, Written
  <2>8. StableInv'
    BY <2>1, <2>3, <2>4 DEF PackInv, StableInv
  <2> QED
    BY <2>5, <2>6, <2>7, <2>8 DEF PackInv
<1> QED
  BY <1>1, <1>2

(* The entry that is copied next begins where the data ends.               *)
LEMMA NextEntryFacts ==
  ASSUME PackInv, pc \in {"copy", "copying"}, copied < Len(sources)
  PROVE  /\ copied + 1 \in 1..Len(sources)
         /\ Entered[copied + 1] \in Entries
         /\ Entered[copied + 1].offset = Len(plain)
         /\ Entered[copied + 1].size = sources[copied + 1].size
<1>1. /\ PackTypes /\ Len(sources) \in Nat /\ copied \in Nat
      /\ sources \in Seq(Recorded)
  BY TypeFacts DEF PackInv, PackTypes
<1>2. copied + 1 \in 1..Len(sources) /\ Len(sources) > 0
  BY <1>1
<1>3. /\ Entered \in Seq(Entries) /\ Len(Entered) = Len(sources)
      /\ \A i \in 1..Len(sources) : Entered[i].size = sources[i].size
      /\ Entered[1].offset = 0
      /\ \A i \in 1..Len(sources) - 1 :
           Entered[i + 1].offset = Entered[i].offset + sources[i].size
  BY <1>1, <1>2, ManifestFacts DEF Entered
<1>4. Entered[copied + 1] \in Entries
  BY <1>2, <1>3, ElementOfSeq
<1>5. Len(plain) = IF copied = 0 THEN 0 ELSE End(Entered[copied])
  BY DEF PackInv, CopyInv
<1>6. CASE copied = 0
  BY <1>2, <1>3, <1>4, <1>5, <1>6
<1>7. CASE copied # 0
  <2>1. copied \in 1..Len(sources) - 1 /\ copied \in 1..Len(sources)
    BY <1>1, <1>7
  <2>2. End(Entered[copied]) = Entered[copied].offset + sources[copied].size
    BY <1>3, <2>1 DEF End
  <2> QED
    BY <1>2, <1>3, <1>4, <1>5, <1>7, <2>1, <2>2
<1> QED
  BY <1>6, <1>7

LEMMA CopyEndNext ==
  ASSUME PackInv, CopyEnd, UNCHANGED world
  PROVE  PackInv'
<1> DEFINE s == sources[copied + 1]
           e == Entered[copied + 1]
           got == opened.got
<1>1. CASE Reject
  BY <1>1, RejectNext
<1>2. CASE ~Reject
  <2>1. /\ pc = "copying" /\ pc' = "copy" /\ Len(got) = opened.size /\ got = s.hash
        /\ plain' = plain \o got /\ copied' = copied + 1
        /\ opened' = [size |-> 0, got |-> <<>>]
        /\ UNCHANGED <<temp, out, ioFailed, dir, edits, setting>>
        /\ UNCHANGED <<walked, found, sources>>
    BY <1>2 DEF CopyEnd, Goto, world, Unchanged, Closed
  <2>2. /\ PackTypes /\ Len(sources) \in Nat /\ copied \in Nat
        /\ sources \in Seq(Recorded) /\ got \in Contents /\ Len(got) \in Nat
        /\ plain \in Contents /\ Len(plain) \in Nat
    BY TypeFacts DEF PackInv, PackTypes
  <2>3. copied < Len(sources) /\ opened.size = s.size
    BY <2>1 DEF PackInv, CopyInv
  <2>4. /\ copied + 1 \in 1..Len(sources) /\ e \in Entries
        /\ e.offset = Len(plain) /\ e.size = Len(got)
    BY <2>1, <2>3, NextEntryFacts
  <2>5. Sorted' = Sorted /\ Entered' = Entered
    BY <2>1 DEF Sorted, Entered
  <2>6. plain' \in Contents /\ Len(plain') = Len(plain) + Len(got)
    BY <2>1, <2>2, ConcatProperties DEF Contents
  <2>7. Slice(plain', e) = s.hash /\ End(e) = Len(plain')
    <3>1. Slice(plain \o got, e) = got
      BY <2>2, <2>4, SliceAppended
    <3> QED
      BY <2>1, <2>4, <2>6, <3>1 DEF End
  <2>8. \A i \in 1..copied : /\ End(Entered[i]) <= Len(plain)
                             /\ Slice(plain, Entered[i]) = sources[i].hash
    BY DEF PackInv, CopyInv
  <2>9. \A i \in 1..Len(sources) : Entered[i] \in Entries /\ End(Entered[i]) \in Nat
    <3>1. Entered \in Seq(Entries) /\ Len(Entered) = Len(sources)
      BY <2>2, ManifestFacts DEF Entered
    <3> QED
      BY <3>1, EntryFacts
  <2> HIDE DEF s, e, got
  <2>10. PackTypes'
    <3>1. <<>> \in Contents /\ Len(<<>>) = 0
      BY EmptySeq DEF Contents
    <3>2. /\ opened' \in [size : Nat, got : Contents]
          /\ Len(opened'.got) <= opened'.size
      BY <2>1, <3>1
    <3>3. copied' \in 0..Len(sources) /\ pc' \in PackPcs
      BY <2>1, <2>2, <2>4 DEF PackPcs
    <3> QED
      BY <2>1, <2>2, <2>6, <3>2, <3>3 DEF PackTypes
  <2>11. RecordInv'
    BY <2>1, <2>5 DEF PackInv, RecordInv
  <2>12. CopyInv'
    <3>1. ASSUME NEW i \in 1..copied
          PROVE  /\ End(Entered[i]) <= Len(plain')
                 /\ Slice(plain', Entered[i]) = sources[i].hash
      <4>1. /\ i \in 1..Len(sources) /\ Entered[i] \in Entries
            /\ End(Entered[i]) \in Nat /\ End(Entered[i]) <= Len(plain)
            /\ Slice(plain, Entered[i]) = sources[i].hash
        BY <2>2, <2>4, <2>8, <2>9
      <4>2. End(Entered[i]) <= Len(plain')
        BY <2>2, <2>6, <4>1
      <4>3. Slice(plain', Entered[i]) = Slice(plain, Entered[i])
        BY <2>1, <2>2, <4>1, SliceStays
      <4> QED
        BY <4>1, <4>2, <4>3
    <3>2. \A i \in 1..copied + 1 : i \in 1..copied \/ i = copied + 1
      BY <2>2
    <3>3. End(e) <= Len(plain')
      BY <2>2, <2>6, <2>7
    <3>4. \A i \in 1..copied' : /\ End(Entered'[i]) <= Len(plain')
                                /\ Slice(plain', Entered'[i]) = sources'[i].hash
      BY <2>1, <2>5, <2>7, <3>1, <3>2, <3>3 DEF e, s
    <3>5. copied' # 0 /\ Len(plain') = End(Entered'[copied'])
      BY <2>1, <2>2, <2>5, <2>7 DEF e
    <3> QED
      BY <2>1, <3>4, <3>5 DEF CopyInv, Written
  <2>13. StableInv'
    BY <2>1 DEF PackInv, StableInv
  <2> QED
    BY <2>10, <2>11, <2>12, <2>13 DEF PackInv
<1> QED
  BY <1>1, <1>2

LEMMA PadNext ==
  ASSUME PackInv, Pad, UNCHANGED world
  PROVE  PackInv'
<1> DEFINE len == DataStart(sources) + Len(plain)
           more == [i \in 1..PaddedLength(len) - len |-> Zero]
<1>1. /\ pc = "copy" /\ pc' = "encrypt" /\ copied = Len(sources)
      /\ plain' = plain \o more
      /\ UNCHANGED <<temp, out, ioFailed, dir, edits, setting>>
      /\ UNCHANGED <<walked, found, sources, opened, copied>>
  BY DEF Pad, Goto, world
<1>2. /\ PackTypes /\ Len(sources) \in Nat /\ copied \in Nat
      /\ sources \in Seq(Recorded) /\ plain \in Contents /\ Len(plain) \in Nat
  BY TypeFacts DEF PackInv, PackTypes
<1>3. more \in Contents
  <2>1. len \in Nat \ {0}
    BY <1>2 DEF DataStart, ManifestSize
  <2>2. setting.padding \in [kind : {"none", "bucket", "fixed"}, size : Nat]
    BY <1>2, OrderFacts DEF PackTypes, Settings
  <2> HIDE DEF len
  <2>3. PaddedLength(len) \in Nat /\ len <= PaddedLength(len)
    BY <2>1, <2>2, PaddedIsLonger
  <2>4. PaddedLength(len) - len \in Nat
    BY <2>1, <2>3
  <2>5. Zero \in Byte
    BY BundleAssumption
  <2> DEFINE n == PaddedLength(len) - len
  <2> HIDE DEF n
  <2>6. [i \in 1..n |-> Zero] \in Seq(Byte)
    BY <2>4, <2>5 DEF n
  <2> QED
    BY <2>6 DEF n, Contents
<1> HIDE DEF more
<1>4. plain' \in Contents /\ Len(plain') \in Nat /\ Len(plain) <= Len(plain')
  <2>1. Len(more) \in Nat
    BY <1>3, LenProperties DEF Contents
  <2>2. plain' \in Seq(Byte) /\ Len(plain') = Len(plain) + Len(more)
    BY <1>1, <1>2, <1>3, ConcatProperties DEF Contents
  <2> QED
    BY <1>2, <2>1, <2>2 DEF Contents
<1>5. Sorted' = Sorted /\ Entered' = Entered
  BY <1>1 DEF Sorted, Entered
<1>6. \A i \in 1..Len(sources) : Entered[i] \in Entries /\ End(Entered[i]) \in Nat
  <2>1. Entered \in Seq(Entries) /\ Len(Entered) = Len(sources)
    BY <1>2, ManifestFacts DEF Entered
  <2> QED
    BY <2>1, EntryFacts
<1>7. PackTypes'
  BY <1>1, <1>2, <1>4 DEF PackTypes, PackPcs
<1>8. RecordInv'
  BY <1>1, <1>5 DEF PackInv, RecordInv
<1>9. CopyInv'
  <2>1. ASSUME NEW i \in 1..copied
        PROVE  /\ End(Entered[i]) <= Len(plain')
               /\ Slice(plain', Entered[i]) = sources[i].hash
    <3>1. End(Entered[i]) <= Len(plain) /\ Slice(plain, Entered[i]) = sources[i].hash
      BY DEF PackInv, CopyInv
    <3>2. Entered[i] \in Entries /\ End(Entered[i]) \in Nat
      BY <1>1, <1>6
    <3>3. Slice(plain', Entered[i]) = Slice(plain, Entered[i])
      BY <1>1, <1>2, <1>3, <3>1, <3>2, SliceStays
    <3>4. End(Entered[i]) <= Len(plain')
      BY <1>2, <1>4, <3>1, <3>2
    <3> QED
      BY <3>1, <3>3, <3>4
  <2> QED
    BY <1>1, <1>5, <2>1 DEF CopyInv, Written
<1>10. StableInv'
  BY <1>1 DEF PackInv, StableInv
<1> QED
  BY <1>7, <1>8, <1>9, <1>10 DEF PackInv

LEMMA EncryptNext ==
  ASSUME PackInv, Encrypt \/ EncryptReturns, UNCHANGED world
  PROVE  PackInv'
<1>1. CASE Reject
  BY <1>1, RejectNext
<1>2. CASE ~Reject
  <2>1. /\ \/ pc = "encrypt" /\ pc' = "encrypted" /\ out' = Payload /\ temp' = temp
           \/ pc = "encrypted" /\ pc' = "ok" /\ out' = out /\ temp' = "none"
        /\ UNCHANGED <<ioFailed, dir, edits, setting>>
        /\ UNCHANGED <<walked, found, sources, opened, plain, copied>>
    BY <1>2 DEF Encrypt, EncryptReturns, work, world
  <2>2. /\ Sorted' = Sorted /\ Entered' = Entered
        /\ Payload' = Payload
    BY <2>1 DEF Sorted, Entered, Payload
  <2>3. PackTypes'
    <3>1. pc' \in PackPcs /\ temp' \in {"none", "open"}
          /\ (temp' = "open" => pc' = "encrypted")
      BY <2>1 DEF PackPcs, Final, PackInv, PackTypes
    <3> QED
      BY <2>1, <3>1 DEF PackInv, PackTypes
  <2>4. RecordInv'
    BY <2>1, <2>2 DEF PackInv, RecordInv
  <2>5. CopyInv'
    <3>1. out' = Payload'
      BY <2>1, <2>2 DEF PackInv, CopyInv, Written
    <3> QED
      BY <2>1, <2>2, <3>1 DEF PackInv, CopyInv
  <2>6. StableInv'
    BY <2>1 DEF PackInv, StableInv
  <2> QED
    BY <2>3, <2>4, <2>5, <2>6 DEF PackInv
<1> QED
  BY <1>1, <1>2

(* What another program may leave at a place.                              *)
LEMMA EditTypes ==
  ASSUME PackInv, NEW p \in AllPaths, EditDirectory(p)
  PROVE  dir' \in Directory
<1> DEFINE c == dir[p].content
<1>1. /\ dir \in Directory /\ c \in Contents /\ Len(c) \in Nat
      /\ dir[p] \in [kind : Kinds, content : Contents]
  BY TypeFacts DEF PackInv, PackTypes, Directory
<1>2. ASSUME NEW node \in [kind : Kinds, content : Contents],
             dir' = [dir EXCEPT ![p] = node]
      PROVE  dir' \in Directory
  BY <1>1, <1>2 DEF Directory
<1>3. ASSUME NEW content \in Contents, dir' = [dir EXCEPT ![p].content = content]
      PROVE  dir' \in Directory
  <2> DEFINE node == [dir[p] EXCEPT !.content = content]
  <2>1. node \in [kind : Kinds, content : Contents]
    BY <1>1
  <2>2. dir' = [dir EXCEPT ![p] = node]
    BY <1>3
  <2> QED
    BY <1>2, <2>1, <2>2
<1>4. /\ \A b \in Byte : Append(c, b) \in Contents
      /\ \A n \in 0..Len(c) - 1 : SubSeq(c, 1, n) \in Contents
      /\ \A i \in DOMAIN c, b \in Byte : [c EXCEPT ![i] = b] \in Contents
  <2>1. c \in Seq(Byte)
    BY <1>1 DEF Contents
  <2>2. \A b \in Byte : Append(c, b) \in Seq(Byte)
    BY <2>1, AppendProperties
  <2>3. ASSUME NEW n \in 0..Len(c) - 1 PROVE SubSeq(c, 1, n) \in Seq(Byte)
    <3>1. \A i \in 1..n : i \in 1..Len(c)
      BY <1>1
    <3>2. \A i \in 1..n : c[i] \in Byte
      BY <2>1, <3>1, ElementOfSeq
    <3>3. n \in Int /\ 1 \in Int
      OBVIOUS
    <3> HIDE DEF c
    <3> QED
      BY <3>2, <3>3, SubSeqProperties
  <2>4. \A i \in 1..Len(c), b \in Byte : [c EXCEPT ![i] = b] \in Seq(Byte)
    <3> HIDE DEF c
    <3> QED
      BY <2>1, ExceptSeq
  <2>5. DOMAIN c = 1..Len(c)
    BY <2>1, LenProperties
  <2> QED
    BY <2>2, <2>3, <2>4, <2>5 DEF Contents
<1>5. CASE \/ \E b \in Byte : dir' = [dir EXCEPT ![p].content = Append(c, b)]
           \/ \E n \in 0..Len(c) - 1 :
                dir' = [dir EXCEPT ![p].content = SubSeq(c, 1, n)]
  BY <1>3, <1>4, <1>5
<1>6. CASE \E i \in DOMAIN c, b \in Byte : dir' = [dir EXCEPT ![p].content[i] = b]
  <2>1. PICK i \in DOMAIN c, b \in Byte : dir' = [dir EXCEPT ![p].content[i] = b]
    BY <1>6
  <2>2. dir' = [dir EXCEPT ![p].content = [c EXCEPT ![i] = b]]
    BY <2>1
  <2> QED
    BY <1>3, <1>4, <2>2
<1>7. CASE \/ \E b \in Byte : dir' = [dir EXCEPT ![p] = File(<<b>>)]
           \/ dir' = [dir EXCEPT ![p] = Absent]
  <2>1. Absent \in [kind : Kinds, content : Contents]
    <3>1. <<>> \in Contents
      BY EmptySeq DEF Contents
    <3> QED
      BY <3>1 DEF Absent, Entry, Kinds
  <2>2. \A b \in Byte : File(<<b>>) \in [kind : Kinds, content : Contents]
    <3>1. \A b \in Byte : <<b>> \in Contents
      BY DEF Contents
    <3> QED
      BY <3>1 DEF File, Entry, Kinds
  <2> QED
    BY <1>2, <1>7, <2>1, <2>2
<1> QED
  BY <1>5, <1>6, <1>7 DEF EditDirectory

LEMMA EditNext ==
  ASSUME PackInv, NEW p \in AllPaths, EditDirectory(p)
  PROVE  PackInv'
<1>1. /\ pc \notin Final /\ edits < MaxEdits /\ edits' = edits + 1
      /\ UNCHANGED <<pc, temp, out, ioFailed, setting>>
      /\ UNCHANGED <<walked, found, sources, opened, plain, copied>>
  BY DEF EditDirectory, work
<1>2. dir' \in Directory
  BY EditTypes
<1>3. Sorted' = Sorted /\ Entered' = Entered
  BY <1>1 DEF Sorted, Entered
<1>4. edits' \in 0..MaxEdits /\ edits' # 0
  BY <1>1, OrderFacts DEF PackInv, PackTypes
<1>5. PackTypes'
  BY <1>1, <1>2, <1>4 DEF PackInv, PackTypes
<1>6. RecordInv'
  BY <1>1, <1>3 DEF PackInv, RecordInv
<1>7. CopyInv'
  <2>1. Payload' = Payload
    BY <1>1 DEF Payload
  <2> QED
    BY <1>1, <1>3, <2>1 DEF PackInv, CopyInv, Written
<1>8. StableInv'
  BY <1>4 DEF StableInv
<1> QED
  BY <1>5, <1>6, <1>7, <1>8 DEF PackInv

LEMMA FaultNext == ASSUME PackInv, Fault PROVE PackInv'
<1>1. /\ pc' \in {"error", "crashed"}
      /\ UNCHANGED <<walked, found, sources, opened, plain, copied>>
      /\ UNCHANGED <<dir, edits, setting>>
      /\ temp' = "none" \/ (temp' = temp /\ pc' = "crashed")
      /\ ioFailed' = TRUE \/ ioFailed' = ioFailed
  BY DEF Fault, IOError, Kill, work, world
<1>2. ioFailed \in BOOLEAN
  BY DEF PackInv, PackTypes
<1>3. ioFailed' \in BOOLEAN
  BY <1>1, <1>2
<1> QED
  BY <1>1, <1>3, Stopped

LEMMA PackStutter == ASSUME PackInv, UNCHANGED vars PROVE PackInv'
<1>1. /\ UNCHANGED <<pc, temp, out, ioFailed, dir, edits, setting>>
      /\ UNCHANGED <<walked, found, sources, opened, plain, copied>>
  BY DEF vars, world, work
<1>2. /\ Sorted' = Sorted /\ Entered' = Entered
      /\ Payload' = Payload
  BY <1>1 DEF Sorted, Entered, Payload
<1>3. PackTypes'
  BY <1>1 DEF PackInv, PackTypes
<1>4. RecordInv'
  BY <1>1, <1>2 DEF PackInv, RecordInv
<1>5. CopyInv'
  BY <1>1, <1>2 DEF PackInv, CopyInv, Written
<1>6. StableInv'
  BY <1>1, <1>2 DEF PackInv, StableInv
<1> QED
  BY <1>3, <1>4, <1>5, <1>6 DEF PackInv

LEMMA PackNext ==
  ASSUME PackInv, [Next]_vars PROVE PackInv'
<1>1. ASSUME Progress PROVE PackInv'
  <2>1. UNCHANGED world
    BY <1>1 DEF Progress
  <2>2. CASE Start
    BY <2>1, <2>2, StartNext
  <2>3. CASE \E p \in AllPaths : WalkPath(p)
    BY <2>1, <2>3, WalkPathNext
  <2>4. CASE WalkDone
    BY <2>1, <2>4, WalkDoneNext
  <2>5. CASE HashOpen
    BY <2>1, <2>5, HashOpenNext
  <2>6. CASE HashRead
    BY <2>1, <2>6, HashReadNext
  <2>7. CASE HashEnd
    BY <2>1, <2>7, HashEndNext
  <2>8. CASE WriteManifest
    BY <2>1, <2>8, WriteManifestNext
  <2>9. CASE CopyOpen
    BY <2>1, <2>9, CopyOpenNext
  <2>10. CASE CopyRead
    BY <2>1, <2>10, CopyReadNext
  <2>11. CASE CopyEnd
    BY <2>1, <2>11, CopyEndNext
  <2>12. CASE Pad
    BY <2>1, <2>12, PadNext
  <2>13. CASE Encrypt \/ EncryptReturns
    BY <2>1, <2>13, EncryptNext
  <2> QED
    BY <1>1, <2>2, <2>3, <2>4, <2>5, <2>6, <2>7, <2>8, <2>9, <2>10, <2>11,
       <2>12, <2>13 DEF Progress
<1>2. CASE Fault
  BY <1>2, FaultNext
<1>3. CASE \E p \in AllPaths : EditDirectory(p)
  BY <1>3, EditNext
<1>4. CASE UNCHANGED vars
  BY <1>4, PackStutter
<1> QED
  BY <1>1, <1>2, <1>3, <1>4 DEF Next

LEMMA PackInvariance == Spec => []PackInv
<1>1. Init => PackInv
  BY PackInit
<1>2. PackInv /\ [Next]_vars => PackInv'
  BY PackNext
<1> QED
  BY <1>1, <1>2, PTL DEF Spec
-----------------------------------------------------------------------------
(* What has been written when the command is done. *)
LEMMA WrittenFacts ==
  ASSUME PackInv, Written
  PROVE  /\ out = [readable |-> TRUE, manifest |-> Entered, data |-> plain]
         /\ out.readable /\ out.manifest = Entered /\ out.data = plain
         /\ Len(sources) \in Nat /\ Len(sources) = Len(Sorted)
         /\ 1 + Len(sources) <= MAX_MANIFEST_SIZE
         /\ Entered \in Seq(Entries) /\ Len(Entered) = Len(sources)
         /\ DOMAIN Entered = 1..Len(sources)
         /\ \A i \in 1..Len(sources) :
              /\ sources[i] \in Recorded
              /\ Entered[i].path = sources[i].path
              /\ Entered[i].path = Sorted[i]
              /\ Entered[i].path \in found
              /\ Entered[i].path \in AllPaths
              /\ ValidPath(Entered[i].path)
              /\ Entered[i].hash = sources[i].hash
              /\ Entered[i].size = Len(Entered[i].hash)
              /\ End(Entered[i]) <= Len(plain)
              /\ Slice(plain, Entered[i]) = Entered[i].hash
<1>1. PackTypes /\ RecordInv /\ CopyInv
  BY DEF PackInv
<1>2. out = [readable |-> TRUE, manifest |-> Entered, data |-> plain]
  BY <1>1 DEF CopyInv, Payload, Entered, Manifest
<1>3. out.readable /\ out.manifest = Entered /\ out.data = plain
  BY <1>2
<1>4. sources \in Seq(Recorded) /\ Len(sources) \in Nat
  BY <1>1, TypeFacts DEF PackTypes
<1>5. /\ Entered \in Seq(Entries) /\ Len(Entered) = Len(sources)
      /\ DOMAIN Entered = 1..Len(sources)
      /\ \A i \in 1..Len(sources) :
           /\ Entered[i].path = sources[i].path
           /\ Entered[i].size = sources[i].size
           /\ Entered[i].hash = sources[i].hash
  BY <1>4, ManifestFacts DEF Entered
<1>6. /\ Len(sources) = Len(Sorted) /\ 1 + Len(sources) <= MAX_MANIFEST_SIZE
      /\ \A i \in 1..Len(sources) : /\ sources[i].path = Sorted[i]
                                     /\ sources[i].size = Len(sources[i].hash)
  BY <1>1 DEF RecordInv, Written
<1>7. \A i \in 1..Len(sources) :
        Sorted[i] \in found /\ Sorted[i] \in AllPaths
  BY <1>6, TurnFacts
<1>8. \A q \in found : ValidPath(q)
  BY <1>1 DEF PackTypes
<1>9. \A i \in 1..Len(sources) :
        /\ End(Entered[i]) <= Len(plain)
        /\ Slice(plain, Entered[i]) = sources[i].hash
  BY <1>1 DEF CopyInv, Written
<1>10. \A i \in 1..Len(sources) : sources[i] \in Recorded
  BY <1>4, RecordedFacts
<1> QED
  BY <1>2, <1>3, <1>4, <1>5, <1>6, <1>7, <1>8, <1>9, <1>10

LEMMA PackedIsVerified ==
  ASSUME PackInv PROVE PackedVerifies
<1> SUFFICES ASSUME Written, DistinctPaths(out.manifest)
             PROVE  Verifies(out)
  BY DEF PackedVerifies
<1> DEFINE n == Len(sources)
<1>1. /\ out.readable /\ out.manifest = Entered /\ out.data = plain /\ n \in Nat
      /\ 1 + n <= MAX_MANIFEST_SIZE /\ Entered \in Seq(Entries) /\ Len(Entered) = n
      /\ DOMAIN Entered = 1..n
      /\ \A i \in 1..n : /\ ValidPath(Entered[i].path)
                         /\ End(Entered[i]) <= Len(plain)
                         /\ Slice(plain, Entered[i]) = Entered[i].hash
  BY WrittenFacts
<1>2. Decodes(out)
  BY <1>1 DEF Decodes, ManifestSize
<1>3. NoOverlap(Entered)
  <2>1. ASSUME NEW i \in 1..n, NEW j \in 1..n, i # j
        PROVE  \/ End(Entered[i]) <= Entered[j].offset
               \/ End(Entered[j]) <= Entered[i].offset
    <3>1. i < j \/ j < i
      BY <1>1, <2>1
    <3>2. sources \in Seq(Recorded)
      BY DEF PackInv, PackTypes
    <3>3. i < j => End(Entered[i]) <= Entered[j].offset
      BY <3>2, ManifestOrdered DEF Entered
    <3>4. j < i => End(Entered[j]) <= Entered[i].offset
      BY <3>2, ManifestOrdered DEF Entered
    <3> QED
      BY <3>1, <3>3, <3>4
  <2> QED
    BY <1>1, <2>1, ApartAccepted
<1>4. ValidLayout(Entered, plain)
  BY <1>1, <1>3 DEF ValidLayout
<1>5. \A i \in DOMAIN Entered : EntryAuthentic(plain, Entered[i])
  BY <1>1 DEF EntryAuthentic
<1> QED
  BY <1>1, <1>2, <1>4, <1>5 DEF Verifies

LEMMA StableIsExact ==
  ASSUME PackInv PROVE StableDirectory
<1> DEFINE n == Len(sources)
           present == Listed(PathOrder,
                        {p \in AllPaths : dir[p] # Absent})
<1> SUFFICES ASSUME Written, edits = 0
             PROVE  /\ [i \in DOMAIN out.manifest |-> out.manifest[i].path] = present
                    /\ \A i \in DOMAIN out.manifest :
                         Slice(out.data, out.manifest[i]) =
                           dir[out.manifest[i].path].content
  BY DEF StableDirectory
<1>1. /\ out.manifest = Entered /\ out.data = plain
      /\ n = Len(Sorted) /\ DOMAIN Entered = 1..n
      /\ \A i \in 1..n : /\ Entered[i].path = Sorted[i]
                         /\ Entered[i].path = sources[i].path
                         /\ Entered[i].hash = sources[i].hash
                         /\ Slice(plain, Entered[i]) = Entered[i].hash
  BY WrittenFacts
<1>2. /\ found = {p \in AllPaths : dir[p] # Absent}
      /\ \A i \in 1..n : sources[i].hash = dir[sources[i].path].content
  BY DEF PackInv, StableInv, Written
<1>3. Sorted = present
  BY <1>2 DEF Sorted
<1>4. Sorted = [i \in 1..n |-> Sorted[i]]
  <2>1. found \subseteq AllPaths
    BY DEF PackInv, PackTypes
  <2>2. Sorted \in Seq(found)
    BY <2>1, SortedFacts
  <2> QED
    BY <1>1, <2>2, LenProperties
<1> HIDE DEF present, n
<1>5. [i \in DOMAIN Entered |-> Entered[i].path] = [i \in 1..n |-> Sorted[i]]
  BY <1>1
<1>6. [i \in DOMAIN out.manifest |-> out.manifest[i].path] = present
  <2>1. [i \in DOMAIN Entered |-> Entered[i].path] = present
    BY <1>3, <1>4, <1>5
  <2> QED
    BY <1>1, <2>1
<1>7. ASSUME NEW i \in DOMAIN out.manifest
      PROVE  Slice(out.data, out.manifest[i]) = dir[out.manifest[i].path].content
  <2>1. i \in 1..n
    BY <1>1
  <2>2. Slice(plain, Entered[i]) = dir[Entered[i].path].content
    BY <1>1, <1>2, <2>1
  <2> QED
    BY <1>1, <2>2
<1> QED
  BY <1>6, <1>7

(* ListedMembers for the paths. *)
LEMMA ListedPaths ==
  ASSUME NEW S
  PROVE  /\ Listed(PathOrder, S) \in Seq(S \cap AllPaths)
         /\ \A j \in 1..Len(PathOrder) :
              PathOrder[j] \in S =>
                \E i \in 1..Len(Listed(PathOrder, S)) :
                  Listed(PathOrder, S)[i] = PathOrder[j]
<1>1. PathOrder \in Seq(AllPaths)
  BY OrderFacts
<1>2. Listed(PathOrder, S) \in Seq(S \cap AllPaths)
  BY <1>1, ListedMembers
<1>3. Covers(Listed(PathOrder, S), PathOrder, S)
  BY <1>1, ListedMembers
<1> QED
  BY <1>2, <1>3 DEF Covers

LEMMA DiffIsExact ==
  ASSUME PackInv PROVE DiffExact
<1> SUFFICES ASSUME Written PROVE DiffExact
  BY DEF DiffExact
<1> DEFINE new == out.manifest
           bytes == out.data
           Held(p) == IF setting.dir[p].kind \in {"file", "link"}
                      THEN {setting.dir[p].content} ELSE {}
           held == {p \in AllPaths : Held(p) # {} /\ ValidPath(p)}
           before == Listed(PathOrder, held)
           earlier == [i \in DOMAIN before |->
                         LET c == setting.dir[before[i]].content
                         IN  [path |-> before[i], size |-> Len(c), hash |-> c]]
           old == BuildManifest(earlier)
           Packed(p) == {Slice(bytes, new[x]) :
                           x \in {j \in DOMAIN new : new[j].path = p}}
           At1(m, p) == {m[x] : x \in {j \in DOMAIN m : m[j].path = p}}
           named == {old[x].path : x \in DOMAIN old}
                      \cup {new[x].path : x \in DOMAIN new}
           shown == {p \in AllPaths :
                       Packed(p) # {} \/ p \in {before[i] : i \in DOMAIN before}}
           paths == Listed(PathOrder, named)
           diff == DiffManifests(PathOrder, old, new)
           n == Len(sources)
<1>1. /\ DOMAIN new = 1..n
      /\ \A i \in 1..n : /\ new[i].path \in AllPaths
                         /\ ValidPath(new[i].path)
                         /\ new[i].size = Len(new[i].hash)
                         /\ Slice(bytes, new[i]) = new[i].hash
  BY WrittenFacts
<1>2. /\ before \in Seq(held \cap AllPaths)
      /\ \A j \in 1..Len(PathOrder) :
           PathOrder[j] \in held =>
             \E i \in 1..Len(before) : before[i] = PathOrder[j]
  <2> HIDE DEF held
  <2> QED
    BY ListedPaths
<1>3. /\ Len(before) \in Nat /\ DOMAIN before = 1..Len(before)
      /\ \A i \in 1..Len(before) : before[i] \in held
  <2> HIDE DEF held, before
  <2>1. \A i \in 1..Len(before) : before[i] \in held \cap AllPaths
    BY <1>2, ElementOfSeq
  <2> QED
    BY <1>2, <2>1, LenProperties
<1>4. \A p \in held : \E i \in 1..Len(before) : before[i] = p
  <2>1. \A p \in held : \E j \in 1..Len(PathOrder) : PathOrder[j] = p
    BY DEF AllPaths, InOrder
  <2> HIDE DEF held, before
  <2> QED
    BY <1>2, <2>1
<1>5. \A p \in AllPaths : /\ setting.dir[p].content \in Contents
                                /\ Len(setting.dir[p].content) \in Nat
  <2>1. setting.dir \in Directory
    BY OrderFacts DEF PackInv, PackTypes, Settings
  <2>2. \A p \in AllPaths : setting.dir[p] \in [kind : Kinds, content : Contents]
    BY <2>1 DEF Directory
  <2> QED
    BY <2>2, LenProperties DEF Contents
<1> HIDE DEF before
<1>6. /\ earlier \in Seq(Recorded) /\ Len(earlier) = Len(before)
      /\ \A i \in 1..Len(before) :
           /\ earlier[i].path = before[i]
           /\ earlier[i].hash = setting.dir[before[i]].content
  <2>1. ASSUME NEW i \in 1..Len(before)
        PROVE  /\ earlier[i] \in Recorded /\ earlier[i].path = before[i]
               /\ earlier[i].hash = setting.dir[before[i]].content
    <3> DEFINE q == before[i]
               c == setting.dir[q].content
               z == Len(c)
    <3>1. /\ q \in Seq(STRING) /\ c \in Contents /\ z \in Nat
          /\ earlier[i] = [path |-> q, size |-> z, hash |-> c]
      <4>1. q \in AllPaths
        BY <1>3, <2>1
      <4> QED
        BY <1>3, <1>5, <2>1, <4>1, OrderFacts
    <3> HIDE DEF q, c, z, earlier
    <3>2. earlier[i] \in Recorded /\ earlier[i].path = q /\ earlier[i].hash = c
      BY <3>1 DEF Recorded
    <3> QED
      BY <3>2 DEF q, c
  <2>2. earlier \in [1..Len(before) -> Recorded]
    <3>1. earlier = [i \in 1..Len(before) |-> earlier[i]]
      BY <1>3
    <3> HIDE DEF earlier
    <3> QED
      BY <2>1, <3>1
  <2> HIDE DEF earlier
  <2> QED
    BY <1>3, <2>1, <2>2
<1> HIDE DEF earlier
<1>7. /\ DOMAIN old = 1..Len(before)
      /\ \A i \in 1..Len(before) :
           /\ old[i].path = before[i]
           /\ old[i].hash = setting.dir[before[i]].content
  BY <1>6, ManifestFacts DEF Manifest
<1> HIDE DEF old
<1>8. \A p \in AllPaths :
        Packed(p) # {} <=> p \in {new[x].path : x \in DOMAIN new}
  OBVIOUS
<1>9. named = shown
  <2>1. {old[x].path : x \in DOMAIN old} = {before[i] : i \in DOMAIN before}
    BY <1>3, <1>7
  <2>2. {before[i] : i \in DOMAIN before} \subseteq AllPaths
    BY <1>3
  <2>3. {new[x].path : x \in DOMAIN new} \subseteq AllPaths
    BY <1>1
  <2> HIDE DEF Packed
  <2> QED
    BY <1>8, <2>1, <2>2, <2>3
<1>10. /\ DOMAIN paths = 1..Len(paths) /\ Len(paths) \in Nat
       /\ \A i \in DOMAIN paths : paths[i] \in named
       /\ paths = [i \in DOMAIN paths |-> paths[i]]
  <2> HIDE DEF named
  <2>1. paths \in Seq(named \cap AllPaths)
    BY OrderFacts, ListedMembers
  <2> HIDE DEF paths
  <2>2. \A i \in 1..Len(paths) : paths[i] \in named \cap AllPaths
    BY <2>1, ElementOfSeq
  <2> QED
    BY <2>1, <2>2, LenProperties
<1>11. diff = [i \in DOMAIN paths |->
                [path |-> paths[i],
                 status |-> DiffStatus(At1(old, paths[i]), At1(new, paths[i])),
                 old_size |-> {e.size : e \in At1(old, paths[i])},
                 new_size |-> {e.size : e \in At1(new, paths[i])}]]
  BY DEF DiffManifests
<1> HIDE DEF paths, diff
<1>12. /\ DOMAIN diff = DOMAIN paths
       /\ \A i \in DOMAIN paths :
            /\ diff[i].path = paths[i]
            /\ diff[i].status = DiffStatus(At1(old, paths[i]), At1(new, paths[i]))
            /\ diff[i].new_size = {e.size : e \in At1(new, paths[i])}
  <2> HIDE DEF At1
  <2> QED
    BY <1>11
<1>13. [i \in DOMAIN diff |-> diff[i].path] = Listed(PathOrder, shown)
  <2>1. [i \in DOMAIN diff |-> diff[i].path] = [i \in DOMAIN paths |-> paths[i]]
    BY <1>12
  <2> HIDE DEF named, shown
  <2>2. [i \in DOMAIN diff |-> diff[i].path] = paths
    BY <1>10, <2>1
  <2> QED
    BY <1>9, <2>2 DEF paths
<1>14. ASSUME NEW p \in named
       PROVE  /\ {e.hash : e \in At1(old, p)} = Held(p)
              /\ {e.hash : e \in At1(new, p)} = Packed(p)
              /\ {e.size : e \in At1(new, p)} = {Len(c) : c \in Packed(p)}
              /\ At1(old, p) = {} <=> Held(p) = {}
              /\ At1(new, p) = {} <=> Packed(p) = {}
              /\ Packed(p) # {} \/ Held(p) # {}
  <2>1. p \in AllPaths
    BY <1>9
  <2>2. /\ {e.hash : e \in At1(new, p)} = Packed(p)
        /\ {e.size : e \in At1(new, p)} = {Len(c) : c \in Packed(p)}
        /\ At1(new, p) = {} <=> Packed(p) = {}
    <3> DEFINE J == {j \in DOMAIN new : new[j].path = p}
    <3>1. \A x \in J : /\ Slice(bytes, new[x]) = new[x].hash
                        /\ new[x].size = Len(new[x].hash)
      BY <1>1
    <3>2. /\ At1(new, p) = {new[x] : x \in J}
          /\ Packed(p) = {Slice(bytes, new[x]) : x \in J}
      OBVIOUS
    <3> HIDE DEF At1, Packed, J, new, bytes
    <3>3. Packed(p) = {new[x].hash : x \in J}
      BY <3>1, <3>2
    <3>4. {e.hash : e \in At1(new, p)} = {new[x].hash : x \in J}
      BY <3>2
    <3>5. {e.size : e \in At1(new, p)} = {new[x].size : x \in J}
      BY <3>2
    <3>6. {Len(c) : c \in Packed(p)} = {Len(new[x].hash) : x \in J}
      BY <3>3
    <3>7. {new[x].size : x \in J} = {Len(new[x].hash) : x \in J}
      BY <3>1
    <3>8. {e.size : e \in At1(new, p)} = {Len(c) : c \in Packed(p)}
      BY <3>5, <3>6, <3>7
    <3>9. At1(new, p) = {} <=> Packed(p) = {}
      <4>1. At1(new, p) = {} <=> J = {}
        BY <3>2
      <4>2. Packed(p) = {} <=> J = {}
        BY <3>3
      <4> QED
        BY <4>1, <4>2
    <3> QED
      BY <3>3, <3>4, <3>8, <3>9
  <2>3. CASE \E i \in 1..Len(before) : before[i] = p
    <3>1. PICK i \in 1..Len(before) : before[i] = p
      BY <2>3
    <3>2. Held(p) # {} /\ Held(p) = {setting.dir[p].content}
      BY <1>3, <3>1
    <3>3. old[i] \in At1(old, p) /\ old[i].hash = setting.dir[p].content
      BY <1>7, <3>1
    <3>4. \A e \in At1(old, p) : e.hash = setting.dir[p].content
      BY <1>7
    <3> HIDE DEF At1, Held
    <3>5. {e.hash : e \in At1(old, p)} = Held(p) /\ At1(old, p) # {}
      BY <3>2, <3>3, <3>4
    <3> QED
      BY <2>2, <3>2, <3>5
  <2>4. CASE ~\E i \in 1..Len(before) : before[i] = p
    <3>1. At1(old, p) = {}
      BY <1>7, <2>4
    <3>2. \E x \in DOMAIN new : new[x].path = p
      BY <1>7, <2>4
    <3>3. Packed(p) # {} /\ ValidPath(p)
      BY <1>1, <3>2
    <3>4. Held(p) = {}
      BY <1>4, <2>1, <2>4, <3>3
    <3> HIDE DEF At1, Held, Packed
    <3> QED
      BY <2>2, <3>1, <3>3, <3>4
  <2> QED
    BY <2>3, <2>4
<1>15. ASSUME NEW i \in DOMAIN diff
       PROVE  /\ diff[i].status = "unchanged" <=> Packed(diff[i].path) = Held(diff[i].path)
              /\ diff[i].status = "added" <=> Held(diff[i].path) = {}
              /\ diff[i].status = "removed" <=> Packed(diff[i].path) = {}
              /\ diff[i].new_size = {Len(c) : c \in Packed(diff[i].path)}
  <2> DEFINE p == paths[i]
  <2>1. /\ p \in named /\ diff[i].path = p
        /\ diff[i].status = DiffStatus(At1(old, p), At1(new, p))
        /\ diff[i].new_size = {e.size : e \in At1(new, p)}
    BY <1>10, <1>12
  <2>2. /\ {e.hash : e \in At1(old, p)} = Held(p)
        /\ {e.hash : e \in At1(new, p)} = Packed(p)
        /\ {e.size : e \in At1(new, p)} = {Len(c) : c \in Packed(p)}
        /\ At1(old, p) = {} <=> Held(p) = {}
        /\ At1(new, p) = {} <=> Packed(p) = {}
        /\ Packed(p) # {} \/ Held(p) # {}
    BY <1>14, <2>1
  <2> HIDE DEF p, At1, Held, Packed, named
  <2>3. DiffStatus(At1(old, p), At1(new, p)) =
          IF Held(p) = {} THEN "added"
          ELSE IF Packed(p) = {} THEN "removed"
          ELSE IF Held(p) = Packed(p) THEN "unchanged" ELSE "modified"
    BY <2>2 DEF DiffStatus
  <2> QED
    BY <2>1, <2>2, <2>3
<1>16. \A i \in DOMAIN diff :
         LET p == diff[i].path
         IN  /\ diff[i].status = "unchanged" <=> Packed(p) = Held(p)
             /\ diff[i].status = "added" <=> Held(p) = {}
             /\ diff[i].status = "removed" <=> Packed(p) = {}
             /\ diff[i].new_size = {Len(c) : c \in Packed(p)}
  BY <1>15
<1> QED
  BY <1>13, <1>16 DEF DiffExact, diff, old, earlier, before
-----------------------------------------------------------------------------
(* No variable leaves its type, and the plaintext temporary file is there  *)
(* only while it is written or encrypted, or after the process was killed. *)
THEOREM TypeCorrect == Spec => []TypeOK
<1>1. PackInv => TypeOK
  <2> SUFFICES ASSUME PackInv PROVE TypeOK
    OBVIOUS
  <2>1. PackTypes /\ RecordInv
    BY DEF PackInv
  <2>3. sources \in Seq([path : found, size : Nat, hash : Contents])
    <3> DEFINE R == [path : found, size : Nat, hash : Contents]
    <3>1. sources \in Seq(Recorded) /\ Len(sources) \in Nat
      BY <2>1, TypeFacts DEF PackTypes
    <3>2. \A i \in 1..Len(sources) : sources[i] \in R
      <4> SUFFICES ASSUME NEW i \in 1..Len(sources) PROVE sources[i] \in R
        OBVIOUS
      <4>1. sources[i] \in Recorded
        BY <3>1, RecordedFacts
      <4>2. sources[i].path \in found
        <5>1. i \in 1..Len(Sorted) /\ sources[i].path = Sorted[i]
          BY <2>1, <3>1, TurnFacts DEF RecordInv
        <5> QED
          BY <5>1, TurnFacts
      <4> QED
        BY <4>1, <4>2 DEF Recorded
    <3>3. sources \in [1..Len(sources) -> Recorded]
      BY <3>1, LenProperties
    <3> HIDE DEF R
    <3>4. sources \in [1..Len(sources) -> R]
      BY <3>2, <3>3
    <3>5. sources \in Seq(R)
      BY <3>1, <3>4
    <3> QED
      BY <3>5 DEF R
  <2> QED
    BY <2>1, <2>3 DEF TypeOK, PackTypes, PackPcs, Directory, Final
<1>2. Spec => []PackInv
  BY PackInvariance
<1> QED
  BY <1>1, <1>2, PTL

(* Whatever other programs do to the directory, before, between and during *)
(* the two passes, the reader accepts the bundle that has been written, if *)
(* no two of its paths differ only in case.                                *)
THEOREM PacksWhatVerifies == Spec => []PackedVerifies
<1>1. PackInv => PackedVerifies
  BY PackedIsVerified
<1>2. Spec => []PackInv
  BY PackInvariance
<1> QED
  BY <1>1, <1>2, PTL

(* A directory nobody changes is packed exactly.                           *)
THEOREM PacksExactly == Spec => []StableDirectory
<1>1. PackInv => StableDirectory
  BY StableIsExact
<1>2. Spec => []PackInv
  BY PackInvariance
<1> QED
  BY <1>1, <1>2, PTL

(* `bundle diff` against the files of before tells the truth about each    *)
(* file of either bundle.                                                  *)
THEOREM DiffsExactly == Spec => []DiffExact
<1>1. PackInv => DiffExact
  BY DiffIsExact
<1>2. Spec => []PackInv
  BY PackInvariance
<1> QED
  BY <1>1, <1>2, PTL
=============================================================================
