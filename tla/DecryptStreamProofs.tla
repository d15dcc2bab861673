------------------------ MODULE DecryptStreamProofs ------------------------
(***************************************************************************)
(* Proofs about DecryptStream, for every chunk, batch and tag size, every  *)
(* set of stored capsules that satisfies StoredAssumption and every order  *)
(* in which the workers of a batch finish: what is written is the author's *)
(* plaintext, an intact capsule is accepted, and the output path is        *)
(* replaced as a whole or not at all.                                      *)
(***************************************************************************)
EXTENDS DecryptStream, SequenceTheorems, TLAPS

(* The lemmas about chunks and frames were proved with encryption, of      *)
(* which nothing else is needed here: its parameters may be anything that  *)
(* satisfies its assumptions.                                              *)
Writer == INSTANCE EncryptStreamProofs
  WITH Sources <- {}, MaxEdits <- 0, MaxSource <- 0, source <- <<>>,
       edits <- 0, editsAtStat <- 0, plaintext_len <- 0, bytesRead <- <<>>,
       sealed <- {}, payload <- <<>>

(* A chunk of a typed plaintext is a typed sequence that lies between two  *)
(* chunk boundaries.                                                       *)
LEMMA ChunkProperties ==
  ASSUME NEW plain \in Seq(Byte), NEW k \in Nat, IsFrameIndex(plain, k)
  PROVE  /\ Chunk(plain, k) \in Seq(Byte)
         /\ k * CHUNK_SIZE \in 0..Len(plain)
         /\ k * CHUNK_SIZE + Len(Chunk(plain, k))
              = Smaller((k + 1) * CHUNK_SIZE, Len(plain))
         /\ Smaller((k + 1) * CHUNK_SIZE, Len(plain))
              \in k * CHUNK_SIZE .. Len(plain)
BY FormatAssumption, Writer!ChunkProperties
DEF Chunk, Writer!Chunk, IsFrameIndex, Writer!IsFrameIndex, Smaller, Writer!Smaller

(* Induction over the natural numbers, stated for sets. *)
LEMMA NumberInduction ==
  ASSUME NEW T, 0 \in T, \A n \in Nat : n \in T => n + 1 \in T
  PROVE  Nat \subseteq T
BY FormatAssumption, Writer!NumberInduction

LEMMA Multiples ==
  ASSUME NEW a \in Nat, NEW b \in Nat, NEW c \in Nat, a <= b
  PROVE  a * c <= b * c
BY FormatAssumption, Writer!Multiples

(* A plaintext that fills n - 1 chunks and begins or fills the nth has n   *)
(* frames.                                                                 *)
LEMMA FrameCountIs ==
  ASSUME NEW version, NEW plain \in Seq(Byte), NEW n \in Nat, n > 0,
         (n - 1) * CHUNK_SIZE < Len(plain), Len(plain) <= n * CHUNK_SIZE
  PROVE  FrameCount(version, plain) = n
BY FormatAssumption, Writer!FrameCountIs
DEF FrameCount, Writer!FrameCount

(* f gives the first frames of a plaintext, up to n of them.               *)
FirstFrames(f, seal, plain, n) ==
  /\ f = [k \in 0..n |-> f[k]]
  /\ f[0] = <<>>
  /\ \A k \in 1..n :
       f[k] = f[k - 1] \o SealedFrame(seal, k - 1, Chunk(plain, k - 1))

(* The payload of a plaintext is its first FrameCount frames.              *)
LEMMA PayloadFrames ==
  ASSUME NEW seal, NEW plain,
         FrameCount(seal.commitment.version, plain) \in Nat
  PROVE  \E f : LET count == FrameCount(seal.commitment.version, plain)
                IN  /\ FirstFrames(f, seal, plain, count)
                    /\ PayloadOf(seal, plain) = f[count]
<1> DEFINE count == FrameCount(seal.commitment.version, plain)
<1>1. \A k : Writer!Chunk(plain, k) = Chunk(plain, k)
  BY DEF Chunk, Writer!Chunk, Smaller, Writer!Smaller
<1>2. \A k, c : Writer!SealedFrame(seal, k, c) = SealedFrame(seal, k, c)
  BY DEF SealedFrame, Writer!SealedFrame
<1>3. Writer!FrameCount(seal.commitment.version, plain) = count
  BY DEF FrameCount, Writer!FrameCount, CURRENT_VERSION, Writer!CURRENT_VERSION
<1>4. Writer!PayloadOf(seal, plain) = PayloadOf(seal, plain)
  BY DEF PayloadOf, Writer!PayloadOf, SealedFrame, Writer!SealedFrame,
         Chunk, Writer!Chunk, Smaller, Writer!Smaller, FrameCount,
         Writer!FrameCount, CURRENT_VERSION, Writer!CURRENT_VERSION
<1>5. PICK f : /\ Writer!FirstFrames(f, seal, plain, count)
               /\ PayloadOf(seal, plain) = f[count]
  <2> HIDE DEF count
  <2> QED
    BY <1>3, <1>4, FormatAssumption, Writer!PayloadFrames DEF count
<1>6. FirstFrames(f, seal, plain, count)
  BY <1>1, <1>2, <1>5 DEF FirstFrames, Writer!FirstFrames
<1> QED
  BY <1>5, <1>6

(* Putting chunk k behind the first k * CHUNK_SIZE bytes gives a longer    *)
(* beginning of the plaintext.                                             *)
LEMMA PrefixExtends ==
  ASSUME NEW plain \in Seq(Byte), NEW k \in Nat, IsFrameIndex(plain, k)
  PROVE  SubSeq(plain, 1, k * CHUNK_SIZE) \o Chunk(plain, k)
           = SubSeq(plain, 1, k * CHUNK_SIZE + Len(Chunk(plain, k)))
<1> DEFINE from == k * CHUNK_SIZE
           to   == Smaller((k + 1) * CHUNK_SIZE, Len(plain))
<1>1. Len(plain) \in Nat
  BY LenProperties
<1>2. from \in 0..Len(plain) /\ to \in from..Len(plain)
  BY ChunkProperties
<1>3. from + Len(Chunk(plain, k)) = to
  BY ChunkProperties
<1>4. Chunk(plain, k) = SubSeq(plain, from + 1, to)
  BY DEF Chunk
<1> HIDE DEF from, to
<1>5. 1 \in 1..Len(plain) + 1 /\ from \in 1 - 1 .. Len(plain)
  BY <1>1, <1>2
<1>6. SubSeq(plain, 1, from) \o SubSeq(plain, from + 1, to) = SubSeq(plain, 1, to)
  BY <1>2, <1>5, ConcatAdjacentSubSeq
<1> QED
  BY <1>3, <1>4, <1>6 DEF from

(* A non-empty interval from 1 determines its length. *)
LEMMA IntervalLength ==
  ASSUME NEW m \in Nat, NEW n \in Nat, m > 0, 1..m = 1..n
  PROVE  m = n
<1>1. m \in 1..n /\ n >= 1
  OBVIOUS
<1>2. n \in 1..m
  BY <1>1
<1> QED
  BY <1>1, <1>2

(* And every plaintext but the empty one is like that.                     *)
LEMMA FrameCountBounds ==
  ASSUME NEW version, NEW plain \in Seq(Byte), plain # <<>>
  PROVE  LET n == FrameCount(version, plain)
         IN  /\ n \in Nat /\ n > 0
             /\ (n - 1) * CHUNK_SIZE < Len(plain)
             /\ Len(plain) <= n * CHUNK_SIZE
<1>1. CHUNK_SIZE \in Nat /\ CHUNK_SIZE > 0
  BY FormatAssumption
<1>2. Len(plain) \in Nat /\ Len(plain) > 0
  BY LenProperties, EmptySeq
<1> DEFINE a == Len(plain) + CHUNK_SIZE - 1
           n == a \div CHUNK_SIZE
           r == a % CHUNK_SIZE
<1>3. a \in Nat
  BY <1>1, <1>2
<1>4. n \in Int /\ r \in 0..(CHUNK_SIZE - 1) /\ a = n * CHUNK_SIZE + r
  <2> HIDE DEF a
  <2> QED
    BY <1>1, <1>3
<1>5. FrameCount(version, plain) = n
  BY DEF FrameCount
<1> HIDE DEF n, r
<1>6. (n - 1) * CHUNK_SIZE = n * CHUNK_SIZE - CHUNK_SIZE /\ n * CHUNK_SIZE \in Int
  BY <1>1, <1>4
<1>7. Len(plain) <= n * CHUNK_SIZE /\ (n - 1) * CHUNK_SIZE < Len(plain)
  <2> DEFINE p == n * CHUNK_SIZE
  <2>1. p \in Int /\ a = p + r /\ (n - 1) * CHUNK_SIZE = p - CHUNK_SIZE
    BY <1>4, <1>6
  <2> HIDE DEF p
  <2>2. Len(plain) <= p /\ p - CHUNK_SIZE < Len(plain)
    BY <1>1, <1>2, <1>4, <2>1
  <2> QED
    BY <2>1, <2>2 DEF p
<1>8. n > 0
  <2>1. n * CHUNK_SIZE > 0
    BY <1>2, <1>6, <1>7
  <2>2. CASE n <= 0
    <3>1. n * CHUNK_SIZE <= 0
      BY <1>1, <1>4, <2>2
    <3> QED
      BY <2>1, <3>1, <1>6
  <2> QED
    BY <1>4, <2>2
<1> QED
  BY <1>4, <1>5, <1>7, <1>8

(* All frames together hold the whole plaintext. *)
LEMMA AllFramesCover ==
  ASSUME NEW version, NEW plain \in Seq(Byte)
  PROVE  Smaller(FrameCount(version, plain) * CHUNK_SIZE, Len(plain)) = Len(plain)
<1>1. CHUNK_SIZE \in Nat /\ Len(plain) \in Nat
  BY FormatAssumption, LenProperties
<1>2. CASE plain = <<>>
  <2> DEFINE n == FrameCount(version, plain)
  <2>1. n \in {0, 1} /\ Len(plain) = 0
    BY <1>2, EmptySeq DEF FrameCount
  <2>2. n * CHUNK_SIZE \in Nat
    <3> HIDE DEF n
    <3> QED
      BY <1>1, <2>1
  <2> HIDE DEF n
  <2>3. Smaller(n * CHUNK_SIZE, Len(plain)) = Len(plain)
    <3> DEFINE p == n * CHUNK_SIZE
    <3> HIDE DEF p
    <3>1. p \in Nat => Smaller(p, Len(plain)) = Len(plain)
      BY <2>1 DEF Smaller
    <3> QED
      BY <2>2, <3>1 DEF p
  <2> QED
    BY <2>3 DEF n
<1>3. CASE plain # <<>>
  <2> DEFINE n == FrameCount(version, plain)
             p == n * CHUNK_SIZE
  <2>1. n \in Nat /\ Len(plain) <= p
    BY <1>3, FrameCountBounds
  <2> HIDE DEF n
  <2>2. p \in Nat
    BY <1>1, <2>1
  <2> HIDE DEF p
  <2>3. Smaller(p, Len(plain)) = Len(plain)
    BY <1>1, <2>1, <2>2 DEF Smaller
  <2> QED
    BY <2>3 DEF n, p
<1> QED
  BY <1>2, <1>3

(* Where frame k of a plaintext begins in its payload (k frames from the   *)
(* beginning, if the plaintext has that many).                             *)
FrameStart(plain, k) == Smaller(k * CHUNK_SIZE, Len(plain)) + k * TAG_SIZE

LEMMA FrameStartType ==
  ASSUME NEW plain \in Seq(Byte), NEW k \in Nat
  PROVE  /\ FrameStart(plain, k) \in Nat
         /\ k * CHUNK_SIZE \in Nat /\ k * TAG_SIZE \in Nat
         /\ (k + 1) * CHUNK_SIZE = k * CHUNK_SIZE + CHUNK_SIZE
         /\ (k + 1) * TAG_SIZE = k * TAG_SIZE + TAG_SIZE
<1>1. /\ CHUNK_SIZE \in Nat /\ TAG_SIZE \in Nat /\ Len(plain) \in Nat
      /\ k * CHUNK_SIZE \in Nat /\ k * TAG_SIZE \in Nat
  BY FormatAssumption, LenProperties
<1>2. /\ (k + 1) * CHUNK_SIZE = k * CHUNK_SIZE + CHUNK_SIZE
      /\ (k + 1) * TAG_SIZE = k * TAG_SIZE + TAG_SIZE
  BY <1>1
<1>3. FrameStart(plain, k) \in Nat
  <2> DEFINE p == k * CHUNK_SIZE
             q == k * TAG_SIZE
  <2>1. FrameStart(plain, k) = Smaller(p, Len(plain)) + q /\ p \in Nat /\ q \in Nat
    BY <1>1 DEF FrameStart
  <2> HIDE DEF p, q
  <2> QED
    BY <1>1, <2>1 DEF Smaller
<1> QED
  BY <1>1, <1>2, <1>3

LEMMA FrameStartGrows ==
  ASSUME NEW plain \in Seq(Byte), NEW k \in Nat, NEW n \in Nat, k < n
  PROVE  /\ FrameStart(plain, k) < FrameStart(plain, k + 1)
         /\ FrameStart(plain, k + 1) <= FrameStart(plain, n)
<1>1. /\ CHUNK_SIZE \in Nat /\ TAG_SIZE \in Nat /\ TAG_SIZE > 0
      /\ Len(plain) \in Nat /\ k + 1 \in Nat /\ k + 1 <= n
  BY FormatAssumption, LenProperties
<1>2. /\ k * CHUNK_SIZE \in Nat /\ k * TAG_SIZE \in Nat
      /\ (k + 1) * CHUNK_SIZE = k * CHUNK_SIZE + CHUNK_SIZE
      /\ (k + 1) * TAG_SIZE = k * TAG_SIZE + TAG_SIZE
      /\ n * CHUNK_SIZE \in Nat /\ n * TAG_SIZE \in Nat
  BY FrameStartType
<1>3. /\ (k + 1) * CHUNK_SIZE <= n * CHUNK_SIZE
      /\ (k + 1) * TAG_SIZE <= n * TAG_SIZE
  BY <1>1, Multiples
<1> DEFINE p == k * CHUNK_SIZE
           q == k * TAG_SIZE
           pn == n * CHUNK_SIZE
           qn == n * TAG_SIZE
           pk == (k + 1) * CHUNK_SIZE
           qk == (k + 1) * TAG_SIZE
<1>4. /\ FrameStart(plain, k) = Smaller(p, Len(plain)) + q
      /\ FrameStart(plain, k + 1) = Smaller(pk, Len(plain)) + qk
      /\ FrameStart(plain, n) = Smaller(pn, Len(plain)) + qn
  BY DEF FrameStart
<1>5. /\ p \in Nat /\ q \in Nat /\ pn \in Nat /\ qn \in Nat
      /\ pk = p + CHUNK_SIZE /\ qk = q + TAG_SIZE /\ pk <= pn /\ qk <= qn
  BY <1>2, <1>3
<1> HIDE DEF p, q, pn, qn, pk, qk
<1>6. /\ Smaller(p, Len(plain)) \in Nat /\ Smaller(pk, Len(plain)) \in Nat
      /\ Smaller(pn, Len(plain)) \in Nat /\ pk \in Nat /\ qk \in Nat
  BY <1>1, <1>5 DEF Smaller
<1>7. /\ Smaller(p, Len(plain)) <= Smaller(pk, Len(plain))
      /\ Smaller(pk, Len(plain)) <= Smaller(pn, Len(plain))
  BY <1>1, <1>5 DEF Smaller
<1> DEFINE a == Smaller(p, Len(plain))
           b == Smaller(pk, Len(plain))
           c == Smaller(pn, Len(plain))
<1>8. a + q < b + qk /\ b + qk <= c + qn
  <2>1. a \in Nat /\ b \in Nat /\ c \in Nat /\ a <= b /\ b <= c
    BY <1>6, <1>7
  <2> HIDE DEF a, b, c
  <2> QED
    BY <1>1, <1>5, <2>1
<1> QED
  BY <1>4, <1>8

(* A frame is a sequence of ciphertext bytes, its chunk and a tag long.    *)
LEMMA SealedFrameType ==
  ASSUME NEW seal \in Seals, NEW k \in Nat, NEW chunk \in Seq(Byte)
  PROVE  /\ SealedFrame(seal, k, chunk) \in Seq(CipherBytes)
         /\ Len(SealedFrame(seal, k, chunk)) = Len(chunk) + TAG_SIZE
         /\ Authenticates(seal, k, SealedFrame(seal, k, chunk))
<1> DEFINE size == Len(chunk) + TAG_SIZE
           e(j) == [seal |-> seal, idx |-> k, chunk |-> chunk, at |-> j]
           frame == SealedFrame(seal, k, chunk)
<1>1. size \in Nat /\ size > 0
  BY FormatAssumption, LenProperties
<1>2. \A j \in 1..size : e(j) \in CipherBytes
  BY <1>1 DEF CipherBytes
<1>3. frame = [j \in 1..size |-> e(j)]
  BY DEF SealedFrame
<1> HIDE DEF size, e, frame
<1>4. frame \in [1..size -> CipherBytes] /\ DOMAIN frame = 1..size
  BY <1>2, <1>3
<1>5. frame \in Seq(CipherBytes) /\ Len(frame) = size
  <2>1. frame \in Seq(CipherBytes)
    BY <1>1, <1>4, SeqDef
  <2>2. Len(frame) \in Nat /\ DOMAIN frame = 1..Len(frame)
    BY <2>1, LenProperties
  <2> QED
    BY <1>1, <1>4, <2>1, <2>2, IntervalLength
<1>6. frame[1] = e(1)
  BY <1>1, <1>3
<1>7. frame[1].chunk = chunk
  BY <1>6 DEF e
<1>8. Authenticates(seal, k, frame)
  BY <1>1, <1>5, <1>7 DEF Authenticates, frame
<1> QED
  BY <1>5, <1>8 DEF size, frame

LEMMA FrameCountType ==
  ASSUME NEW version, NEW plain \in Seq(Byte)
  PROVE  /\ FrameCount(version, plain) \in Nat
         /\ \A k \in Nat : k < FrameCount(version, plain) => IsFrameIndex(plain, k)
<1>1. CASE plain = <<>>
  BY <1>1 DEF FrameCount, IsFrameIndex
<1>2. CASE plain # <<>>
  <2> DEFINE n == FrameCount(version, plain)
  <2>1. n \in Nat /\ n > 0 /\ (n - 1) * CHUNK_SIZE < Len(plain)
    BY <1>2, FrameCountBounds
  <2>2. CHUNK_SIZE \in Nat /\ Len(plain) \in Nat
    BY FormatAssumption, LenProperties
  <2> HIDE DEF n
  <2>3. ASSUME NEW k \in Nat, k < n PROVE IsFrameIndex(plain, k)
    <3>1. n - 1 \in Nat /\ k <= n - 1
      BY <2>1, <2>3
    <3>2. k * CHUNK_SIZE <= (n - 1) * CHUNK_SIZE
      BY <2>2, <3>1, Multiples
    <3>3. k * CHUNK_SIZE \in Nat /\ (n - 1) * CHUNK_SIZE \in Nat
      BY <2>2, <3>1
    <3> QED
      BY <2>1, <2>2, <3>2, <3>3 DEF IsFrameIndex
  <2> QED
    BY <2>1, <2>3 DEF n
<1> QED
  BY <1>1, <1>2

(* The payload of a plaintext: frame k lies between its FrameStart and the *)
(* next one's, and the last frame ends it.                                 *)
LEMMA PayloadLayout ==
  ASSUME NEW seal \in Seals, NEW plain \in Seq(Byte)
  PROVE  LET count == FrameCount(seal.commitment.version, plain)
             payload == PayloadOf(seal, plain)
         IN  /\ payload \in Seq(CipherBytes)
             /\ Len(payload) = FrameStart(plain, count)
             /\ \A k \in 0..(count - 1) :
                  SubSeq(payload, FrameStart(plain, k) + 1, FrameStart(plain, k + 1))
                    = SealedFrame(seal, k, Chunk(plain, k))
<1> DEFINE count == FrameCount(seal.commitment.version, plain)
           S(k) == FrameStart(plain, k)
           frame(k) == SealedFrame(seal, k, Chunk(plain, k))
<1>1. count \in Nat /\ \A k \in Nat : k < count => IsFrameIndex(plain, k)
  BY FrameCountType
<1>2. PICK f : FirstFrames(f, seal, plain, count) /\ PayloadOf(seal, plain) = f[count]
  BY <1>1, PayloadFrames
<1>3. \A k \in Nat : S(k) \in Nat
  BY FrameStartType
<1>4. \A k, n \in Nat : k < n => S(k) < S(k + 1) /\ S(k + 1) <= S(n)
  BY FrameStartGrows
<1>5. ASSUME NEW k \in Nat, k < count
      PROVE  frame(k) \in Seq(CipherBytes) /\ Len(frame(k)) = S(k + 1) - S(k)
  <2>1. IsFrameIndex(plain, k)
    BY <1>1, <1>5
  <2> DEFINE c == Chunk(plain, k)
  <2>2. /\ c \in Seq(Byte) /\ k * CHUNK_SIZE \in 0..Len(plain)
        /\ k * CHUNK_SIZE + Len(c) = Smaller((k + 1) * CHUNK_SIZE, Len(plain))
    BY <2>1, ChunkProperties
  <2>3. /\ SealedFrame(seal, k, c) \in Seq(CipherBytes)
        /\ Len(SealedFrame(seal, k, c)) = Len(c) + TAG_SIZE
    BY <2>2, SealedFrameType
  <2>4. Len(c) \in Nat /\ Len(plain) \in Nat /\ TAG_SIZE \in Nat
    BY <2>2, LenProperties, FormatAssumption
  <2> HIDE DEF c
  <2>5. /\ k * CHUNK_SIZE \in Nat /\ k * TAG_SIZE \in Nat
        /\ (k + 1) * TAG_SIZE = k * TAG_SIZE + TAG_SIZE
    BY FrameStartType
  <2>6. S(k) = k * CHUNK_SIZE + k * TAG_SIZE
    BY <2>2, <2>4, <2>5 DEF FrameStart, Smaller
  <2>7. S(k + 1) = (k * CHUNK_SIZE + Len(c)) + (k * TAG_SIZE + TAG_SIZE)
    BY <2>2, <2>5 DEF FrameStart
  <2> HIDE DEF S
  <2>8. Len(c) + TAG_SIZE = S(k + 1) - S(k)
    BY <2>4, <2>5, <2>6, <2>7
  <2> QED
    BY <2>3, <2>8 DEF c
<1>6. f[0] = <<>> /\ \A k \in Nat : k < count => f[k + 1] = f[k] \o frame(k)
  <2>1. ASSUME NEW k \in Nat, k < count PROVE f[k + 1] = f[k] \o frame(k)
    <3>1. k + 1 \in 1..count /\ (k + 1) - 1 = k
      BY <1>1, <2>1
    <3> QED
      BY <1>2, <3>1 DEF FirstFrames
  <2> QED
    BY <1>2, <2>1 DEF FirstFrames
<1>7. S(0) = 0
  <2>1. 0 * CHUNK_SIZE = 0 /\ 0 * TAG_SIZE = 0 /\ Len(plain) \in Nat
    BY FormatAssumption, LenProperties
  <2> QED
    BY <2>1 DEF FrameStart, Smaller
<1> HIDE DEF count, S, frame
<1> DEFINE T == {n \in Nat : n <= count =>
                   /\ f[n] \in Seq(CipherBytes) /\ Len(f[n]) = S(n)
                   /\ \A k \in 0..(n - 1) :
                        SubSeq(f[n], S(k) + 1, S(k + 1)) = frame(k)}
<1>8. 0 \in T
  <2>1. f[0] \in Seq(CipherBytes) /\ Len(f[0]) = S(0)
    BY <1>6, <1>7, EmptySeq
  <2>2. 0..(0 - 1) = {}
    OBVIOUS
  <2> QED
    BY <2>1, <2>2
<1>9. ASSUME NEW n \in Nat, n \in T PROVE n + 1 \in T
  <2> SUFFICES ASSUME n + 1 <= count
               PROVE  /\ f[n + 1] \in Seq(CipherBytes) /\ Len(f[n + 1]) = S(n + 1)
                      /\ \A k \in 0..((n + 1) - 1) :
                           SubSeq(f[n + 1], S(k) + 1, S(k + 1)) = frame(k)
    BY <1>1
  <2>1. /\ f[n] \in Seq(CipherBytes) /\ Len(f[n]) = S(n)
        /\ \A k \in 0..(n - 1) : SubSeq(f[n], S(k) + 1, S(k + 1)) = frame(k)
    BY <1>1, <1>9
  <2> DEFINE old == f[n]
             new == frame(n)
  <2>2. /\ new \in Seq(CipherBytes) /\ Len(new) = S(n + 1) - S(n)
        /\ f[n + 1] = old \o new
    <3>1. n < count
      BY <1>1
    <3>2. new \in Seq(CipherBytes) /\ Len(new) = S(n + 1) - S(n)
      BY <1>5, <3>1
    <3>3. f[n + 1] = old \o new
      BY <1>6, <3>1
    <3> QED
      BY <3>2, <3>3
  <2>3. S(n) \in Nat /\ S(n + 1) \in Nat /\ S(n) < S(n + 1)
    BY <1>3, <1>4
  <2> HIDE DEF old, new
  <2>4. /\ old \o new \in Seq(CipherBytes)
        /\ Len(old \o new) = S(n + 1)
    <3>1. old \o new \in Seq(CipherBytes) /\ Len(old \o new) = Len(old) + Len(new)
      BY <2>1, <2>2, ConcatProperties DEF old
    <3> QED
      BY <2>1, <2>2, <2>3, <3>1 DEF old
  <2>7. old \in Seq(CipherBytes) /\ Len(old) = S(n)
    BY <2>1 DEF old
  <2>5. ASSUME NEW k \in 0..n
        PROVE  SubSeq(old \o new, S(k) + 1, S(k + 1)) = frame(k)
    <3>1. CASE k < n
      <4>5. k \in Nat /\ k + 1 \in Nat
        OBVIOUS
      <4>6. S(k) \in Nat /\ S(k + 1) \in Nat
        BY <1>3, <4>5
      <4>1. S(k) \in Nat /\ S(k + 1) \in Nat /\ S(k) < S(k + 1) /\ S(k + 1) <= S(n)
        BY <1>4, <3>1, <4>5, <4>6
      <4> DEFINE a == S(k) + 1
                 b == S(k + 1)
      <4>2. a \in 1..Len(old) /\ b \in 1..Len(old)
        BY <2>1, <2>3, <4>1 DEF old
      <4> HIDE DEF a, b
      <4>3. SubSeq(old \o new, a, b) = SubSeq(old, a, b)
        BY <2>2, <2>7, <4>2, SubSeqOfConcat1
      <4>4. k \in 0..(n - 1)
        BY <3>1
      <4> QED
        BY <2>1, <4>3, <4>4 DEF old, a, b
    <3>2. CASE k = n
      <4> DEFINE a == S(n) + 1
                 b == S(n + 1)
      <4>1. /\ a \in Len(old) + 1 .. Len(old) + Len(new)
            /\ b \in Len(old) + 1 .. Len(old) + Len(new)
            /\ a - Len(old) = 1 /\ b - Len(old) = Len(new)
        BY <2>2, <2>3, <2>7
      <4>4. a \in Int /\ b \in Int /\ Len(old) \in Nat /\ Len(new) \in Nat
        BY <2>2, <2>3, <2>7
      <4>5. old \in Seq(CipherBytes) /\ new \in Seq(CipherBytes)
        BY <2>2, <2>7
      <4> HIDE DEF a, b
      <4>2. SubSeq(old \o new, a, b) = SubSeq(new, a - Len(old), b - Len(old))
        BY <4>1, <4>5, SubSeqOfConcat2
      <4>3. SubSeq(new, 1, Len(new)) = new
        BY <2>2, SubSeqFull
      <4> QED
        BY <3>2, <4>1, <4>2, <4>3 DEF a, b, new
    <3>3. k < n \/ k = n
      OBVIOUS
    <3> QED
      BY <3>1, <3>2, <3>3
  <2>6. (n + 1) - 1 = n
    OBVIOUS
  <2> QED
    BY <2>2, <2>4, <2>5, <2>6
<1> HIDE DEF T
<1>10. count \in T
  BY <1>1, <1>8, <1>9, NumberInduction
<1>11. /\ f[count] \in Seq(CipherBytes) /\ Len(f[count]) = S(count)
       /\ \A k \in 0..(count - 1) :
            SubSeq(f[count], S(k) + 1, S(k + 1)) = frame(k)
  BY <1>1, <1>10 DEF T
<1> QED
  BY <1>2, <1>11 DEF count, S, frame
-----------------------------------------------------------------------------

(* A frame in memory came out of the payload, so its first byte was made   *)
(* as FromWriter says.                                                     *)
Genuine == \A i \in 1..Len(batch) : FromWriter(stored, batch[i][1])

(* Beyond the envelope check the envelope is acceptable, what was written  *)
(* was opened under the writer's own seal, and an accepted payload has the *)
(* declared length.                                                        *)
SealChecked ==
  /\ pc \notin {"start", "error", "crashed"} => EnvelopeAccepted
  /\ total > 0 => stored.aad_hash = stored.seal.commitment
  /\ Accepted => total = stored.plaintext_len

(* The inductive invariant: AuthenticPrefix needs Aligned to know where in *)
(* the plaintext the next chunk belongs, and Genuine to know that a frame  *)
(* that authenticates holds the chunk the writer put there.                *)
IInv ==
  /\ TypeOK
  /\ stored \in Stored
  /\ Aligned
  /\ Genuine
  /\ AuthenticPrefix
  /\ SealChecked
-----------------------------------------------------------------------------
(* A frame out of the payload that authenticates under the reader's seal   *)
(* and index was made by the capsule's writer: the seals agree and the     *)
(* frame holds that chunk of the plaintext.                                *)
LEMMA AuthenticFrame ==
  ASSUME NEW s \in Stored, NEW seal, NEW k \in Nat,
         NEW bytes \in Seq(CipherBytes),
         seal.fek = s.seal.fek, FromWriter(s, bytes[1]),
         Authenticates(seal, k, bytes)
  PROVE  /\ seal = s.seal
         /\ IsFrameIndex(s.plain, k)
         /\ Opened(bytes) = Chunk(s.plain, k)
         /\ Len(bytes) = Len(Opened(bytes)) + TAG_SIZE
<1>1. s \in Capsules
  BY StoredAssumption
<1>2. Len(bytes) \in Nat /\ Len(bytes) > 0 /\ bytes[1] \in CipherBytes
  BY LenProperties, ElementOfSeq DEF Authenticates
<1>3. bytes = SealedFrame(seal, k, bytes[1].chunk)
  BY DEF Authenticates
<1>4. Len(bytes[1].chunk) \in Nat /\ TAG_SIZE \in Nat /\ TAG_SIZE > 0
  BY <1>2, LenProperties, FormatAssumption DEF CipherBytes
<1>5. bytes = [j \in 1..(Len(bytes[1].chunk) + TAG_SIZE) |->
                 [seal |-> seal, idx |-> k, chunk |-> bytes[1].chunk, at |-> j]]
  BY <1>3 DEF SealedFrame
<1>6. DOMAIN bytes = 1..Len(bytes)
  BY LenProperties
<1>7. Len(bytes) = Len(bytes[1].chunk) + TAG_SIZE
  <2>1. DOMAIN bytes = 1..(Len(bytes[1].chunk) + TAG_SIZE)
    BY <1>5
  <2>2. Len(bytes) \in Nat /\ Len(bytes) > 0
    BY <1>2
  <2>3. Len(bytes[1].chunk) + TAG_SIZE \in Nat
    BY <1>4
  <2>4. 1..Len(bytes) = 1..(Len(bytes[1].chunk) + TAG_SIZE)
    BY <2>1, <1>6
  <2> QED
    BY <2>2, <2>3, <2>4, IntervalLength
<1>8. bytes[1] = [seal |-> seal, idx |-> k, chunk |-> bytes[1].chunk, at |-> 1]
  <2>1. 1 \in 1..(Len(bytes[1].chunk) + TAG_SIZE)
    BY <1>4
  <2> QED
    BY <2>1, <1>5
<1>9. bytes[1].seal = seal /\ bytes[1].idx = k
  BY <1>8
<1> QED
  BY <1>7, <1>9 DEF FromWriter, Opened
-----------------------------------------------------------------------------
LEMMA InitInv == Init => IInv
<1> SUFFICES ASSUME Init PROVE IInv
  OBVIOUS
<1>1. /\ stored \in Stored /\ stored \in Capsules
      /\ mode \in Modes /\ setting \in Settings
      /\ pc = "start" /\ temp = "none" /\ flushed = FALSE /\ ioFailed = FALSE
      /\ pos = 0 /\ batch = <<>> /\ opened = {} /\ written = 0
      /\ total = 0 /\ idx = 0 /\ eof = FALSE /\ out = <<>>
  BY StoredAssumption DEF Init, OutputInit
<1>2. /\ Len(stored.payload) \in Nat
      /\ stored.plain \in Seq(Byte)
      /\ Len(stored.plain) \in Nat
      /\ CHUNK_SIZE \in Nat /\ BATCH_CHUNKS \in Nat \ {0}
  BY <1>1, LenProperties, FormatAssumption DEF Capsules
<1>3. out \in Seq(Byte) /\ batch \in Seq(Seq(CipherBytes)) /\ Len(batch) = 0
  BY <1>1, EmptySeq
<1>4. TypeOK
  <2>1. pos \in 0..Len(stored.payload) /\ total \in Nat /\ idx \in Nat
    BY <1>1, <1>2
  <2>2. opened \subseteq 1..Len(batch) /\ written \in 0..Len(batch)
    BY <1>1, <1>3
  <2>3. Len(batch) <= BATCH_CHUNKS
    BY <1>2, <1>3
  <2>4. {flushed, ioFailed} \subseteq BOOLEAN /\ eof \in BOOLEAN
    BY <1>1
  <2> QED
    BY <1>1, <1>3, <2>1, <2>2, <2>3, <2>4 DEF TypeOK
<1>5. Aligned /\ Genuine
  BY <1>1, <1>2, <1>3 DEF Aligned, Genuine
<1>6. AuthenticPrefix
  <2>1. SubSeq(stored.plain, 1, 0) = <<>>
    BY SubSeqEmpty
  <2> QED
    BY <1>1, <1>2, <2>1 DEF AuthenticPrefix
<1>7. SealChecked
  BY <1>1 DEF SealChecked, Accepted
<1> QED
  BY <1>1, <1>4, <1>5, <1>6, <1>7 DEF IInv

(* Once the payload is no longer being read, a step that leaves the stream *)
(* alone keeps the invariant.                                              *)
LEMMA QuietStep ==
  ASSUME IInv, UNCHANGED <<stored, mode, setting, streamVars>>,
         temp' \in {"none", "open"}, flushed' \in BOOLEAN, ioFailed' \in BOOLEAN,
         \/ pc' \in {"error", "crashed"}
         \/ /\ pc' \in {"sync", "replace", "syncParent", "ok"}
            /\ EnvelopeAccepted
            /\ total = stored.plaintext_len
  PROVE  IInv'
<1>1. TypeOK'
  BY DEF IInv, streamVars, TypeOK, Final
<1>2. Aligned'
  BY DEF Aligned
<1>3. Genuine' /\ AuthenticPrefix'
  BY DEF IInv, streamVars, Genuine, AuthenticPrefix
<1>4. SealChecked'
  BY DEF IInv, streamVars, SealChecked, Accepted, EnvelopeAccepted
<1> QED
  BY <1>1, <1>2, <1>3, <1>4 DEF IInv

(* The next frame is cut from the payload at its full size unless it is    *)
(* the last one.                                                           *)
LEMMA ReadFrameInv == IInv /\ ReadFrame => IInv'
<1> SUFFICES ASSUME IInv, ReadFrame PROVE IInv'
  OBVIOUS
<1> DEFINE frame == SubSeq(stored.payload, pos + 1, pos + ExpectedSize)
<1>1. /\ TypeOK /\ Aligned /\ Genuine /\ stored \in Stored
      /\ stored \in Capsules
      /\ stored.payload \in Seq(CipherBytes)
      /\ Len(stored.payload) \in Nat
      /\ stored.plaintext_len \in Nat
      /\ batch \in Seq(Seq(CipherBytes))
      /\ Len(batch) \in Nat
      /\ pos \in Nat /\ total \in Nat /\ idx \in Nat
  BY LenProperties DEF IInv, TypeOK, Capsules
<1>2. CHUNK_SIZE \in Nat \ {0} /\ TAG_SIZE \in Nat \ {0} /\ BATCH_CHUNKS \in Nat \ {0}
  BY FormatAssumption
<1>3. Remaining \in Nat
  BY <1>1, <1>2 DEF Remaining, SaturatingSub
<1>4. /\ ExpectedSize \in Nat /\ ExpectedSize > 0
      /\ ~LastFrame => ExpectedSize = CHUNK_SIZE + TAG_SIZE
  BY <1>2, <1>3 DEF ExpectedSize, LastFrame
<1>5. pos + ExpectedSize <= Len(stored.payload)
  BY <1>1, <1>4 DEF Available, ReadFrame
<1>6. /\ frame \in Seq(CipherBytes)
      /\ Len(frame) = ExpectedSize
      /\ frame[1] = stored.payload[pos + 1]
  <2> DEFINE to == pos + ExpectedSize
  <2>1. \A i \in pos + 1 .. to : stored.payload[i] \in CipherBytes
    BY <1>1, <1>4, <1>5, ElementOfSeq
  <2>2. to \in Nat /\ to - (pos + 1) + 1 = ExpectedSize /\ pos + 1 <= to
    BY <1>1, <1>4
  <2> HIDE DEF to
  <2>3. pos + 1 \in Int /\ to \in Int
    BY <1>1, <2>2
  <2>4. /\ SubSeq(stored.payload, pos + 1, to) \in Seq(CipherBytes)
        /\ Len(SubSeq(stored.payload, pos + 1, to)) = ExpectedSize
        /\ \A i \in 1 .. ExpectedSize :
             SubSeq(stored.payload, pos + 1, to)[i] = stored.payload[pos + 1 + i - 1]
    BY <2>1, <2>2, <2>3, SubSeqProperties
  <2>5. 1 \in 1 .. ExpectedSize /\ pos + 1 + 1 - 1 = pos + 1
    BY <1>1, <1>4
  <2> QED
    BY <2>4, <2>5 DEF to
<1>7. FromWriter(stored, frame[1])
  <2>1. pos + 1 \in 1..Len(stored.payload)
    BY <1>1, <1>4, <1>5
  <2> QED
    BY <1>1, <2>1, <1>6, StoredAssumption
<1>8. batch' = Append(batch, frame)
  BY DEF ReadFrame
<1> HIDE DEF frame
<1>9. /\ batch' \in Seq(Seq(CipherBytes))
      /\ Len(batch') = Len(batch) + 1
      /\ \A i \in 1..Len(batch) : batch'[i] = batch[i]
      /\ batch'[Len(batch) + 1] = frame
  BY <1>1, <1>6, <1>8, AppendProperties
<1>10. /\ pc = "read"
       /\ eof = FALSE /\ opened = {} /\ written = 0
       /\ Len(batch) < BATCH_CHUNKS
       /\ total = (idx + 0) * CHUNK_SIZE
       /\ \A i \in 1..Len(batch) : Len(batch[i]) > 0
       /\ \A i \in 1..Len(batch) : Len(batch[i]) = CHUNK_SIZE + TAG_SIZE
  <2>1. pc = "read"
    BY DEF ReadFrame
  <2>2. /\ eof = FALSE /\ opened = {} /\ written = 0
        /\ Len(batch) < BATCH_CHUNKS
    BY <1>1, <2>1 DEF Aligned, TypeOK
  <2> QED
    BY <1>1, <2>1, <2>2 DEF Aligned
<1>11. /\ pos' = pos + ExpectedSize /\ eof' = LastFrame
       /\ pc' = IF LastFrame \/ Len(batch) + 1 = BATCH_CHUNKS
                THEN "unseal" ELSE "read"
       /\ UNCHANGED <<temp, flushed, ioFailed, setting,
                      stored, mode, opened, written, total, idx, out>>
  BY DEF ReadFrame, Goto
<1>12. LastFrame \in BOOLEAN
  BY DEF LastFrame, IsV2EmptyFrame
<1>13. \A i \in 1..Len(batch') :
          \/ i \in 1..Len(batch) /\ batch'[i] = batch[i]
          \/ i = Len(batch') /\ batch'[i] = frame
  BY <1>1, <1>9
<1>14. TypeOK'
  <2>1. pos' \in 0..Len(stored'.payload)
    BY <1>1, <1>4, <1>5, <1>11
  <2>2. Len(batch') <= BATCH_CHUNKS
    BY <1>1, <1>2, <1>9, <1>10
  <2>3. opened' = {} /\ written' = 0 /\ Len(batch') \in Nat
    BY <1>1, <1>9, <1>10, <1>11
  <2>4. eof' \in BOOLEAN /\ pc' \in {"read", "unseal"}
    BY <1>11, <1>12
  <2>5. opened' \subseteq 1..Len(batch') /\ written' \in 0..Len(batch')
    BY <2>3
  <2> QED
    BY <1>1, <1>9, <1>11, <2>1, <2>2, <2>4, <2>5 DEF TypeOK
<1>15. Aligned'
  <2> DEFINE full == CHUNK_SIZE + TAG_SIZE
  <2>0. full > 0 /\ Len(frame) > 0 /\ (~eof' => Len(frame) = full)
    BY <1>2, <1>4, <1>6, <1>11
  <2> HIDE DEF full
  <2>1. \A i \in 1..Len(batch') : Len(batch'[i]) > 0
    <3> TAKE i \in 1..Len(batch')
    <3>1. CASE i \in 1..Len(batch) /\ batch'[i] = batch[i]
      BY <3>1, <1>10
    <3>2. CASE batch'[i] = frame
      BY <3>2, <2>0
    <3> QED
      BY <3>1, <3>2, <1>13
  <2>2. \A i \in 1..Len(batch') :
          i < Len(batch') \/ ~eof' => Len(batch'[i]) = full
    <3> TAKE i \in 1..Len(batch')
    <3>1. CASE i \in 1..Len(batch) /\ batch'[i] = batch[i]
      BY <3>1, <1>10 DEF full
    <3>2. CASE i = Len(batch') /\ batch'[i] = frame
      BY <3>2, <2>0, <1>1, <1>9
    <3> QED
      BY <3>1, <3>2, <1>13
  <2>3. total' = (idx' + written') * CHUNK_SIZE
    BY <1>10, <1>11
  <2>4. pc' = "read" => ~eof' /\ Len(batch') < BATCH_CHUNKS
    BY <1>1, <1>2, <1>9, <1>10, <1>11
  <2>5. pc' \in {"read", "unseal"} /\ opened' = {} /\ written' = 0
    BY <1>10, <1>11
  <2> QED
    BY <2>1, <2>2, <2>3, <2>4, <2>5 DEF Aligned, full
<1>16. Genuine'
  <2> SUFFICES ASSUME NEW i \in 1..Len(batch')
               PROVE  FromWriter(stored, batch'[i][1])
    BY <1>11 DEF Genuine
  <2>1. CASE i \in 1..Len(batch) /\ batch'[i] = batch[i]
    BY <2>1, <1>1 DEF Genuine
  <2>2. CASE batch'[i] = frame
    BY <2>2, <1>7
  <2> QED
    BY <2>1, <2>2, <1>13
<1>17. AuthenticPrefix' /\ SealChecked'
  BY <1>10, <1>11 DEF IInv, AuthenticPrefix, SealChecked, Accepted, EnvelopeAccepted
<1> QED
  BY <1>1, <1>11, <1>14, <1>15, <1>16, <1>17 DEF IInv

(* The reader has what it asked for, or the payload has ended: the batch   *)
(* goes to the workers and nothing else is read.                           *)
LEMMA EndReadingInv == IInv /\ (StopReading \/ EndOfPayload) => IInv'
<1> SUFFICES ASSUME IInv, StopReading \/ EndOfPayload PROVE IInv'
  OBVIOUS
<1>1. /\ pc = "read" /\ pc' = "unseal" /\ eof' = TRUE
      /\ UNCHANGED <<temp, flushed, ioFailed, setting, stored, mode,
                     pos, batch, opened, written, total, idx, out>>
  BY DEF StopReading, EndOfPayload, Goto
<1>2. TypeOK'
  BY <1>1 DEF IInv, TypeOK
<1>3. Aligned'
  BY <1>1 DEF IInv, Aligned, ReaderSeal
<1>4. Genuine' /\ AuthenticPrefix' /\ SealChecked'
  BY <1>1 DEF IInv, Genuine, AuthenticPrefix, SealChecked, Accepted, EnvelopeAccepted
<1> QED
  BY <1>1, <1>2, <1>3, <1>4 DEF IInv

LEMMA OpenCapsuleInv == IInv /\ OpenCapsule => IInv'
<1> SUFFICES ASSUME IInv, OpenCapsule PROVE IInv'
  OBVIOUS
<1>1. /\ pc = "start" /\ pc' = "read" /\ EnvelopeAccepted
      /\ temp' \in {temp, "open"}
      /\ UNCHANGED <<flushed, ioFailed, setting, stored, mode,
                     pos, batch, opened, written, total, idx, eof, out>>
  BY DEF OpenCapsule, CreateTemp, Goto, streamVars
<1>2. TypeOK'
  BY <1>1 DEF IInv, TypeOK
<1>3. Aligned'
  BY <1>1 DEF IInv, Aligned, ReaderSeal
<1>4. Genuine' /\ AuthenticPrefix' /\ SealChecked'
  BY <1>1 DEF IInv, Genuine, AuthenticPrefix, SealChecked, Accepted, EnvelopeAccepted
<1> QED
  BY <1>1, <1>2, <1>3, <1>4 DEF IInv

LEMMA OpenFrameInv ==
  ASSUME IInv, NEW i \in 1..BATCH_CHUNKS, OpenFrame(i)
  PROVE  IInv'
<1>1. /\ pc = "unseal" /\ pc' = pc
      /\ i \in DOMAIN batch
      /\ Authenticates(ReaderSeal, idx + i - 1, batch[i])
      /\ opened' = opened \cup {i}
      /\ UNCHANGED <<temp, flushed, ioFailed, setting, stored, mode,
                     pos, batch, written, total, idx, eof, out>>
  BY DEF OpenFrame, outputVars
<1>2. i \in 1..Len(batch)
  BY <1>1, LenProperties DEF IInv, TypeOK
<1>3. TypeOK'
  BY <1>1, <1>2 DEF IInv, TypeOK
<1>4. Aligned'
  BY <1>1 DEF IInv, Aligned, ReaderSeal
<1>5. Genuine' /\ AuthenticPrefix' /\ SealChecked'
  BY <1>1 DEF IInv, Genuine, AuthenticPrefix, SealChecked, Accepted, EnvelopeAccepted
<1> QED
  BY <1>1, <1>3, <1>4, <1>5 DEF IInv

LEMMA BatchOpenedInv == IInv /\ BatchOpened => IInv'
<1> SUFFICES ASSUME IInv, BatchOpened PROVE IInv'
  OBVIOUS
<1>1. /\ pc = "unseal" /\ pc' \in {"check", "write"}
      /\ opened = DOMAIN batch
      /\ UNCHANGED <<temp, flushed, ioFailed, setting, stored, mode,
                     pos, batch, opened, written, total, idx, eof, out>>
  BY DEF BatchOpened, Goto, streamVars
<1>2. opened = 1..Len(batch)
  BY <1>1, LenProperties DEF IInv, TypeOK
<1>3. TypeOK'
  BY <1>1 DEF IInv, TypeOK
<1>4. Aligned'
  BY <1>1, <1>2 DEF IInv, Aligned, ReaderSeal
<1>5. Genuine' /\ AuthenticPrefix' /\ SealChecked'
  BY <1>1 DEF IInv, Genuine, AuthenticPrefix, SealChecked, Accepted, EnvelopeAccepted
<1> QED
  BY <1>1, <1>3, <1>4, <1>5 DEF IInv

(* The next chunk of an opened batch is the next chunk of the plaintext.   *)
LEMMA WriteChunkInv == IInv /\ WriteChunk => IInv'
<1> SUFFICES ASSUME IInv, WriteChunk PROVE IInv'
  OBVIOUS
<1> DEFINE k     == idx + written
           frame == batch[written + 1]
           chunk == Opened(frame)
           from  == k * CHUNK_SIZE
<1>1. /\ TypeOK /\ Aligned /\ Genuine /\ AuthenticPrefix /\ SealChecked
      /\ stored \in Stored /\ stored \in Capsules
      /\ stored.plain \in Seq(Byte) /\ Len(stored.plain) \in Nat
      /\ batch \in Seq(Seq(CipherBytes)) /\ Len(batch) \in Nat
      /\ idx \in Nat /\ written \in Nat /\ total \in Nat
  BY LenProperties DEF IInv, TypeOK, Capsules
<1>2. CHUNK_SIZE \in Nat \ {0} /\ TAG_SIZE \in Nat \ {0}
  BY FormatAssumption
<1>3. /\ pc = "write" /\ pc' = "write"
      /\ written < Len(batch) /\ written' = written + 1
      /\ out' = out \o chunk /\ total' = total + Len(chunk)
      /\ UNCHANGED <<temp, flushed, ioFailed, setting, stored, mode,
                     pos, batch, opened, idx, eof>>
  BY DEF WriteChunk, outputVars
<1>4. written + 1 \in 1..Len(batch) /\ k \in Nat /\ idx + (written + 1) - 1 = k
  BY <1>1, <1>3
<1>5. /\ opened = 1..Len(batch)
      /\ total = from
      /\ written + 1 < Len(batch) \/ ~eof => Len(frame) = CHUNK_SIZE + TAG_SIZE
  BY <1>1, <1>3, <1>4 DEF Aligned
<1>6. frame \in Seq(CipherBytes)
  BY <1>1, <1>4, ElementOfSeq
<1>7. Authenticates(ReaderSeal, k, frame)
  <2>1. Authenticates(ReaderSeal, idx + (written + 1) - 1, batch[written + 1])
    BY <1>1, <1>3, <1>4, <1>5 DEF Aligned
  <2> QED
    BY <2>1, <1>4
<1>8. FromWriter(stored, frame[1])
  BY <1>1, <1>4 DEF Genuine
<1>9. ReaderSeal.fek = stored.seal.fek
  BY DEF ReaderSeal
<1> HIDE DEF k, frame, from
<1>10. /\ ReaderSeal = stored.seal
       /\ IsFrameIndex(stored.plain, k)
       /\ chunk = Chunk(stored.plain, k)
       /\ Len(frame) = Len(chunk) + TAG_SIZE
  BY <1>1, <1>4, <1>6, <1>7, <1>8, <1>9, AuthenticFrame
<1>11. /\ chunk \in Seq(Byte)
       /\ Len(chunk) \in Nat
       /\ k * CHUNK_SIZE \in 0..Len(stored.plain)
       /\ k * CHUNK_SIZE + Len(chunk)
            = Smaller((k + 1) * CHUNK_SIZE, Len(stored.plain))
       /\ Smaller((k + 1) * CHUNK_SIZE, Len(stored.plain))
            \in k * CHUNK_SIZE .. Len(stored.plain)
  <2>1. chunk \in Seq(Byte)
    BY <1>1, <1>4, <1>10, ChunkProperties
  <2>2. Len(chunk) \in Nat
    BY <2>1, LenProperties
  <2> QED
    BY <1>1, <1>4, <1>10, <2>1, <2>2, ChunkProperties
<1> HIDE DEF chunk
<1>12. from = k * CHUNK_SIZE /\ from \in Nat
  BY <1>1, <1>5 DEF from
<1>13. total' \in Nat /\ total' <= Len(stored.plain)
  BY <1>1, <1>3, <1>5, <1>11, <1>12
<1>14. out' \in Seq(Byte)
  BY <1>1, <1>3, <1>11, ConcatProperties DEF TypeOK
<1>15. TypeOK'
  <2>1. written' \in 0..Len(batch)
    BY <1>1, <1>3
  <2> QED
    BY <1>1, <1>3, <1>13, <1>14, <2>1 DEF TypeOK
<1>16. AuthenticPrefix'
  <2>1. out' = SubSeq(stored.plain, 1, k * CHUNK_SIZE) \o Chunk(stored.plain, k)
    BY <1>1, <1>3, <1>5, <1>10, <1>12 DEF AuthenticPrefix
  <2>2. out' = SubSeq(stored.plain, 1, k * CHUNK_SIZE + Len(Chunk(stored.plain, k)))
    BY <2>1, <1>1, <1>4, <1>10, PrefixExtends
  <2>3. total' = k * CHUNK_SIZE + Len(Chunk(stored.plain, k))
    BY <1>3, <1>5, <1>10, <1>12
  <2> QED
    BY <2>2, <2>3, <1>3, <1>13 DEF AuthenticPrefix
<1>17. Aligned'
  <2>1. ASSUME written' < Len(batch) \/ ~eof
        PROVE  total' = (idx + written') * CHUNK_SIZE
    <3>1. Len(chunk) = CHUNK_SIZE
      BY <2>1, <1>2, <1>3, <1>5, <1>10, <1>11
    <3>2. idx + written' = k + 1 /\ (k + 1) * CHUNK_SIZE = k * CHUNK_SIZE + CHUNK_SIZE
      BY <1>1, <1>2, <1>3, <1>4 DEF k
    <3> QED
      BY <3>1, <3>2, <1>3, <1>5, <1>12
  <2> QED
    BY <2>1, <1>1, <1>3, <1>5 DEF Aligned, ReaderSeal
<1>18. Genuine'
  BY <1>1, <1>3 DEF Genuine
<1>19. SealChecked'
  <2>1. stored.aad_hash = stored.seal.commitment
    BY <1>10 DEF ReaderSeal
  <2> QED
    BY <2>1, <1>1, <1>3 DEF SealChecked, Accepted, EnvelopeAccepted
<1> QED
  BY <1>1, <1>3, <1>15, <1>16, <1>17, <1>18, <1>19 DEF IInv

(* A batch that did not end the stream consists of full frames, so the     *)
(* next batch begins at a multiple of CHUNK_SIZE again.                    *)
LEMMA EndBatchInv == IInv /\ EndBatch => IInv'
<1> SUFFICES ASSUME IInv, EndBatch PROVE IInv'
  OBVIOUS
<1>1. /\ TypeOK /\ Aligned
      /\ Len(batch) \in Nat /\ idx \in Nat /\ total \in Nat
  BY LenProperties DEF IInv, TypeOK
<1>2. CHUNK_SIZE \in Nat \ {0} /\ BATCH_CHUNKS \in Nat \ {0}
  BY FormatAssumption
<1>3. /\ pc = "write" /\ pc' = IF eof THEN "check" ELSE "read"
      /\ written = Len(batch) /\ written' = 0
      /\ idx' = idx + Len(batch) /\ batch' = <<>> /\ opened' = {}
      /\ UNCHANGED <<temp, flushed, ioFailed, setting, stored, mode,
                     pos, total, eof, out>>
  BY DEF EndBatch, Goto
<1>4. batch' \in Seq(Seq(CipherBytes)) /\ Len(batch') = 0
  BY <1>3, EmptySeq
<1>5. TypeOK'
  <2>1. idx' \in Nat /\ Len(batch') <= BATCH_CHUNKS /\ written' \in 0..Len(batch')
    BY <1>1, <1>2, <1>3, <1>4
  <2>2. pc' \in {"check", "read"} /\ opened' \subseteq 1..Len(batch')
    BY <1>3
  <2> QED
    BY <1>1, <1>3, <1>4, <2>1, <2>2 DEF TypeOK
<1>6. Aligned'
  <2>1. ~eof => total = (idx + written) * CHUNK_SIZE
    BY <1>1, <1>3 DEF Aligned
  <2>2. ~eof => total' = (idx' + written') * CHUNK_SIZE
    BY <2>1, <1>1, <1>3
  <2> QED
    BY <2>2, <1>2, <1>3, <1>4 DEF Aligned
<1>7. Genuine'
  BY <1>4 DEF Genuine
<1>8. AuthenticPrefix' /\ SealChecked'
  BY <1>3 DEF IInv, AuthenticPrefix, SealChecked, Accepted, EnvelopeAccepted
<1> QED
  BY <1>3, <1>5, <1>6, <1>7, <1>8 DEF IInv
-----------------------------------------------------------------------------
LEMMA NextInv == IInv /\ [Next]_vars => IInv'
<1> SUFFICES ASSUME IInv, [Next]_vars PROVE IInv'
  OBVIOUS
<1>1. TypeOK /\ SealChecked
  BY DEF IInv
<1>2. temp \in {"none", "open"} /\ flushed \in BOOLEAN /\ ioFailed \in BOOLEAN
  BY <1>1 DEF TypeOK
<1>3. CASE OpenCapsule
  BY <1>3, OpenCapsuleInv
<1>4. CASE RejectCapsule
  BY <1>4, <1>2, QuietStep DEF RejectCapsule, Reject, ErrorReturn
<1>5. CASE StopReading \/ EndOfPayload
  BY <1>5, EndReadingInv
<1>6. CASE ReadFrame
  BY <1>6, ReadFrameInv
<1>7. CASE TruncatedFrame
  BY <1>7, <1>2, QuietStep DEF TruncatedFrame, Reject, ErrorReturn
<1>8. CASE \E i \in 1..BATCH_CHUNKS : OpenFrame(i)
  BY <1>8, OpenFrameInv
<1>9. CASE \E i \in 1..BATCH_CHUNKS : FrameRejected(i)
  BY <1>9, <1>2, QuietStep DEF FrameRejected, Reject, ErrorReturn
<1>10. CASE BatchOpened
  BY <1>10, BatchOpenedInv
<1>11. CASE WriteChunk
  BY <1>11, WriteChunkInv
<1>12. CASE EndBatch
  BY <1>12, EndBatchInv
<1>13. CASE AcceptPayload
  <2>1. EnvelopeAccepted /\ total = stored.plaintext_len
    BY <1>1, <1>13 DEF AcceptPayload, PayloadComplete, SealChecked
  <2> QED
    BY <2>1, <1>2, <1>13, QuietStep DEF AcceptPayload, Goto
<1>14. CASE RejectPayload
  BY <1>14, <1>2, QuietStep DEF RejectPayload, Reject, ErrorReturn
<1>15. CASE StreamIOError
  BY <1>15, <1>2, QuietStep DEF StreamIOError, IOError, ErrorReturn
<1>16. CASE Persist
  <2>1. /\ pc \in {"sync", "replace", "syncParent"}
        /\ pc' \in {"replace", "syncParent", "ok", "error"}
        /\ temp' \in {"none", "open"} /\ flushed' \in BOOLEAN /\ ioFailed' \in BOOLEAN
        /\ UNCHANGED <<stored, mode, setting, streamVars>>
    BY <1>2, <1>16 DEF Persist, SyncTemp, RemoveExisting, Rename, SyncParent,
                      ParentNotFound, Reject, ErrorReturn
  <2>2. EnvelopeAccepted /\ total = stored.plaintext_len
    BY <1>1, <2>1 DEF SealChecked, Accepted
  <2> QED
    BY <2>1, <2>2, QuietStep
<1>17. CASE Fault
  <2>1. /\ pc' \in {"error", "crashed"} \/ (pc = "ok" /\ pc' = "ok")
        /\ temp' \in {"none", "open"} /\ flushed' \in BOOLEAN /\ ioFailed' \in BOOLEAN
        /\ UNCHANGED <<stored, mode, setting, streamVars>>
    BY <1>2, <1>17 DEF Fault, OutputIOError, IOError, ErrorReturn, Kill, PowerLoss, Final
  <2>2. pc = "ok" => EnvelopeAccepted /\ total = stored.plaintext_len
    BY <1>1 DEF SealChecked, Accepted
  <2> QED
    BY <2>1, <2>2, QuietStep
<1>18. CASE UNCHANGED vars
  <2>1. UNCHANGED <<stored, mode, setting, streamVars, pc, temp, flushed, ioFailed>>
    BY <1>18 DEF vars, outputVars
  <2>2. TypeOK' /\ Aligned' /\ Genuine'
    BY <2>1 DEF IInv, TypeOK, Aligned, Genuine, ReaderSeal, streamVars
  <2>3. AuthenticPrefix' /\ SealChecked'
    BY <2>1 DEF IInv, AuthenticPrefix, SealChecked, Accepted, EnvelopeAccepted, streamVars
  <2> QED
    BY <2>1, <2>2, <2>3 DEF IInv
<1> QED
  BY <1>3, <1>4, <1>5, <1>6, <1>7, <1>8, <1>9, <1>10, <1>11, <1>12, <1>13,
     <1>14, <1>15, <1>16, <1>17, <1>18 DEF Next, Progress

LEMMA Invariance == Spec => []IInv
BY InitInv, NextInv, PTL DEF Spec

(* Every variable of a decryption keeps its type. *)
THEOREM TypeCorrect == Spec => []TypeOK
<1>1. IInv => TypeOK
  BY DEF IInv
<1> QED
  BY <1>1, Invariance, PTL

(* The byte and chunk counters stay aligned with the plaintext, and a      *)
(* batch is written only when each of its frames was opened at its index.  *)
THEOREM AlwaysAligned == Spec => []Aligned
<1>1. IInv => Aligned
  BY DEF IInv
<1> QED
  BY <1>1, Invariance, PTL

(* Whatever storage did to the capsule, only the beginning of the writer's *)
(* plaintext ever reaches the output.                                      *)
THEOREM OnlyAuthenticPlaintext == Spec => []AuthenticPrefix
<1>1. IInv => AuthenticPrefix
  BY DEF IInv
<1> QED
  BY <1>1, Invariance, PTL

(* The output of an accepted payload has the declared length, and for a    *)
(* format-v2 capsule that declares a non-empty plaintext it is the whole   *)
(* plaintext.                                                              *)
THEOREM AcceptedIsWhole == Spec => []WholeOnSuccess
<1>1. IInv => WholeOnSuccess
  <2> SUFFICES ASSUME IInv, Accepted PROVE
         /\ Len(out) = stored.plaintext_len
         /\ (stored.version = CURRENT_VERSION /\ stored.plaintext_len > 0)
              => out = stored.plain
    BY DEF WholeOnSuccess
  <2>1. /\ stored \in Stored /\ stored \in Capsules
        /\ stored.plain \in Seq(Byte) /\ Len(stored.plain) \in Nat
        /\ total \in Nat /\ total <= Len(stored.plain)
        /\ out = SubSeq(stored.plain, 1, total)
    BY LenProperties DEF IInv, TypeOK, Capsules, AuthenticPrefix
  <2>2. total = stored.plaintext_len /\ EnvelopeAccepted
    BY DEF IInv, SealChecked, Accepted
  <2>3. Len(out) = total
    <3>1. \A i \in 1..total : stored.plain[i] \in Byte
      BY <2>1, ElementOfSeq
    <3>2. Len(SubSeq(stored.plain, 1, total))
            = IF 1 <= total THEN total - 1 + 1 ELSE 0
      BY <2>1, <3>1, SubSeqProperties
    <3> QED
      BY <2>1, <3>2
  <2>4. ASSUME stored.version = CURRENT_VERSION, stored.plaintext_len > 0
        PROVE  out = stored.plain
    <3>1. stored.aad_hash = stored.seal.commitment
      BY <2>2, <2>4 DEF IInv, SealChecked
    <3>2. stored.aad_hash = [version |-> CURRENT_VERSION, len |-> stored.plaintext_len]
      BY <2>2, <2>4 DEF EnvelopeAccepted, Commitment
    <3>3. stored.seal.commitment
            = Commitment(stored.seal.commitment.version, Len(stored.plain))
      BY <2>1, StoredAssumption
    <3>4. stored.seal.commitment.version = CURRENT_VERSION
      BY <3>1, <3>2
    <3>5. stored.seal.commitment = [version |-> CURRENT_VERSION, len |-> Len(stored.plain)]
      BY <3>3, <3>4 DEF Commitment
    <3>6. stored.plaintext_len = Len(stored.plain)
      <4>1. stored.aad_hash.len = stored.plaintext_len
        BY <3>2
      <4>2. stored.seal.commitment.len = Len(stored.plain)
        BY <3>5
      <4> QED
        BY <3>1, <4>1, <4>2
    <3> QED
      BY <3>6, <2>1, <2>2, SubSeqFull
  <2> QED
    BY <2>2, <2>3, <2>4
<1> QED
  BY <1>1, Invariance, PTL
-----------------------------------------------------------------------------
(* The frames of the plaintext the writer sealed. *)
Frames == FrameCount(stored.version, stored.plain)

(* How far the reader of an intact capsule has come: the frames in memory  *)
(* are the next ones of the payload, and what has been read and written    *)
(* ends at the same chunk boundary.                                        *)
OnTrack ==
  /\ pc = "start" => pos = 0 /\ idx = 0 /\ batch = <<>> /\ total = 0
  /\ pc \in {"read", "unseal", "write"} =>
       /\ idx + Len(batch) <= Frames
       /\ pos = FrameStart(stored.plain, idx + Len(batch))
       /\ \A i \in 1..Len(batch) :
            batch[i] = SealedFrame(stored.seal, idx + i - 1,
                                   Chunk(stored.plain, idx + i - 1))
       /\ total = Smaller((idx + written) * CHUNK_SIZE, Len(stored.plain))
       /\ eof => idx + Len(batch) = Frames
  /\ pc = "unseal" => batch # <<>> \/ eof
  /\ pc = "check" => PayloadComplete
  /\ pc = "error" => ioFailed \/ setting.bare

LEMMA IntactFacts ==
  ASSUME IInv, Intact
  PROVE  /\ stored.plain \in Seq(Byte) /\ Len(stored.plain) \in Nat
         /\ stored.payload \in Seq(CipherBytes)
         /\ stored.plaintext_len = Len(stored.plain)
         /\ stored.version \in {LEGACY_VERSION, CURRENT_VERSION}
         /\ stored.seal \in Seals /\ ReaderSeal = stored.seal
         /\ Frames \in Nat
         /\ \A k \in Nat : k < Frames => IsFrameIndex(stored.plain, k)
         /\ Len(stored.payload) = FrameStart(stored.plain, Frames)
         /\ \A k \in 0..(Frames - 1) :
              SubSeq(stored.payload, FrameStart(stored.plain, k) + 1,
                     FrameStart(stored.plain, k + 1))
                = SealedFrame(stored.seal, k, Chunk(stored.plain, k))
<1>1. /\ stored \in Capsules
      /\ stored.plain \in Seq(Byte) /\ Len(stored.plain) \in Nat
      /\ stored.payload \in Seq(CipherBytes) /\ stored.seal \in Seals
  BY LenProperties DEF IInv, TypeOK, Capsules
<1>2. /\ stored.plaintext_len = Len(stored.plain)
      /\ stored.version \in {LEGACY_VERSION, CURRENT_VERSION}
      /\ stored.aad_hash = Commitment(stored.version, stored.plaintext_len)
      /\ stored.aad_hash = stored.seal.commitment
      /\ stored.payload = PayloadOf(stored.seal, stored.plain)
  BY DEF Intact, EnvelopeAccepted
<1>3. ReaderSeal = stored.seal
  BY <1>1, <1>2 DEF ReaderSeal, Seals
<1>4. stored.seal.commitment.version = stored.version
  <2>1. Commitment(stored.version, stored.plaintext_len).version = stored.version
    BY DEF Commitment
  <2> QED
    BY <1>2, <2>1
<1>5. Frames \in Nat /\ \A k \in Nat : k < Frames => IsFrameIndex(stored.plain, k)
  BY <1>1, FrameCountType DEF Frames
<1>6. /\ Len(stored.payload) = FrameStart(stored.plain, Frames)
      /\ \A k \in 0..(Frames - 1) :
           SubSeq(stored.payload, FrameStart(stored.plain, k) + 1,
                  FrameStart(stored.plain, k + 1))
             = SealedFrame(stored.seal, k, Chunk(stored.plain, k))
  BY <1>1, <1>2, <1>4, PayloadLayout DEF Frames
<1> QED
  BY <1>1, <1>2, <1>3, <1>5, <1>6

(* The reader asks for a frame exactly while there is one, for all of its  *)
(* bytes, and knows when it is the last.                                   *)
LEMMA AsksForNextFrame ==
  ASSUME IInv, Intact, OnTrack, pc = "read"
  PROVE  LET k == idx + Len(batch)
         IN  /\ Remaining > 0 \/ IsV2EmptyFrame =>
                  /\ k < Frames
                  /\ ExpectedSize = FrameStart(stored.plain, k + 1)
                                       - FrameStart(stored.plain, k)
                  /\ LastFrame => k + 1 = Frames
             /\ Remaining = 0 /\ ~IsV2EmptyFrame => k = Frames
<1> DEFINE k == idx + Len(batch)
           size == Len(stored.plain)
           p == k * CHUNK_SIZE
           q == k * TAG_SIZE
<1>1. /\ stored.plain \in Seq(Byte) /\ size \in Nat
      /\ stored.plaintext_len = size
      /\ stored.version \in {LEGACY_VERSION, CURRENT_VERSION}
      /\ Frames \in Nat
  BY IntactFacts
<1>2. /\ idx \in Nat /\ Len(batch) \in Nat /\ total \in Nat /\ k \in Nat
      /\ batch \in Seq(Seq(CipherBytes))
  BY LenProperties DEF IInv, TypeOK
<1>3. /\ CHUNK_SIZE \in Nat /\ CHUNK_SIZE > 0 /\ TAG_SIZE \in Nat
      /\ p \in Nat /\ q \in Nat
      /\ (k + 1) * CHUNK_SIZE = p + CHUNK_SIZE /\ (k + 1) * TAG_SIZE = q + TAG_SIZE
  BY <1>2, FormatAssumption
<1>4. /\ k <= Frames
      /\ total + Len(batch) * CHUNK_SIZE = p
  <2>1. total = idx * CHUNK_SIZE
    <3>1. ~eof /\ written = 0
      BY DEF IInv, Aligned
    <3>2. total = (idx + written) * CHUNK_SIZE
      BY <3>1 DEF IInv, Aligned
    <3> QED
      BY <1>2, <3>1, <3>2
  <2>2. (idx + Len(batch)) * CHUNK_SIZE = idx * CHUNK_SIZE + Len(batch) * CHUNK_SIZE
    BY <1>2, <1>3
  <2> QED
    BY <2>1, <2>2 DEF OnTrack
<1>5. Remaining = IF size <= p THEN 0 ELSE size - p
  BY <1>1, <1>4 DEF Remaining, SaturatingSub
<1>6. FrameStart(stored.plain, k) = Smaller(p, size) + q
      /\ FrameStart(stored.plain, k + 1) = Smaller(p + CHUNK_SIZE, size) + (q + TAG_SIZE)
  BY <1>3 DEF FrameStart
<1>7. IsV2EmptyFrame <=> stored.version = CURRENT_VERSION /\ size = 0 /\ k = 0
  <2>1. batch = <<>> <=> Len(batch) = 0
    BY <1>2, EmptySeq
  <2>2. stored.version >= CURRENT_VERSION <=> stored.version = CURRENT_VERSION
    BY <1>1 DEF LEGACY_VERSION, CURRENT_VERSION
  <2>3. k = 0 <=> idx = 0 /\ Len(batch) = 0
    BY <1>2
  <2> HIDE DEF k
  <2> QED
    BY <1>1, <2>1, <2>2, <2>3 DEF IsV2EmptyFrame
<1>8. CASE stored.plain = <<>>
  <2>1. size = 0
    BY <1>8, EmptySeq
  <2>2. Frames = IF stored.version = CURRENT_VERSION THEN 1 ELSE 0
    BY <1>8 DEF Frames, FrameCount
  <2>3. Remaining = 0
    BY <1>3, <1>5, <2>1
  <2>4. ASSUME IsV2EmptyFrame
        PROVE  /\ k < Frames /\ k + 1 = Frames
               /\ ExpectedSize = FrameStart(stored.plain, k + 1)
                                    - FrameStart(stored.plain, k)
    <3>1. k = 0 /\ Frames = 1
      BY <1>7, <2>2, <2>4
    <3>2. p = 0 /\ q = 0
      BY <1>3, <3>1
    <3>3. ExpectedSize = TAG_SIZE
      BY <2>4 DEF ExpectedSize
    <3> HIDE DEF p, q, k, size
    <3>4. /\ FrameStart(stored.plain, k) = 0
          /\ FrameStart(stored.plain, k + 1) = TAG_SIZE
      BY <1>3, <1>6, <2>1, <3>2 DEF Smaller
    <3> QED
      BY <1>3, <3>1, <3>3, <3>4
  <2>5. ASSUME ~IsV2EmptyFrame PROVE k = Frames
    <3> HIDE DEF k
    <3> QED
      BY <1>1, <1>2, <1>4, <1>7, <2>1, <2>2, <2>5
  <2> HIDE DEF k
  <2> QED
    BY <2>3, <2>4, <2>5 DEF k
<1>9. CASE stored.plain # <<>>
  <2>1. /\ Frames > 0
        /\ (Frames - 1) * CHUNK_SIZE < size
        /\ size <= Frames * CHUNK_SIZE
    BY <1>1, <1>9, FrameCountBounds DEF Frames
  <2>2. size > 0 /\ ~IsV2EmptyFrame
    <3>1. size # 0
      BY <1>1, <1>9, EmptySeq
    <3> HIDE DEF size
    <3> QED
      BY <1>1, <1>7, <3>1
  <2>3. ASSUME Remaining > 0
        PROVE  /\ k < Frames
               /\ ExpectedSize = FrameStart(stored.plain, k + 1)
                                    - FrameStart(stored.plain, k)
               /\ LastFrame => k + 1 = Frames
    <3>1. p < size /\ Remaining = size - p
      BY <1>1, <1>3, <1>5, <2>3
    <3>2. k < Frames
      <4> SUFFICES ASSUME Frames <= k PROVE FALSE
        BY <1>1, <1>2
      <4>1. Frames * CHUNK_SIZE <= p
        BY <1>1, <1>2, <1>3, Multiples
      <4>2. Frames * CHUNK_SIZE \in Nat
        BY <1>1, <1>3
      <4> HIDE DEF p
      <4> QED
        BY <1>1, <1>3, <2>1, <3>1, <4>1, <4>2
    <3>3. CASE Remaining < CHUNK_SIZE
      <4>1. ExpectedSize = Remaining + TAG_SIZE
        BY <2>2, <3>3 DEF ExpectedSize
      <4>2. Frames = k + 1
        <5>1. k + 1 \in Nat /\ k + 1 > 0 /\ (k + 1) - 1 = k
          BY <1>2
        <5>2. size <= (k + 1) * CHUNK_SIZE
          <6> HIDE DEF p
          <6> QED
            BY <1>1, <1>3, <3>1, <3>3
        <5>3. ((k + 1) - 1) * CHUNK_SIZE < size
          BY <3>1, <5>1
        <5> HIDE DEF k
        <5> QED
          BY <1>1, <5>1, <5>2, <5>3, FrameCountIs DEF Frames
      <4>3. ExpectedSize = FrameStart(stored.plain, k + 1) - FrameStart(stored.plain, k)
        <5> HIDE DEF p, q, k, size
        <5> QED
          BY <1>1, <1>3, <1>6, <3>1, <3>3, <4>1 DEF Smaller
      <4> QED
        BY <3>2, <4>2, <4>3
    <3>4. CASE ~(Remaining < CHUNK_SIZE)
      <4>1. ExpectedSize = CHUNK_SIZE + TAG_SIZE /\ ~LastFrame
        BY <2>2, <3>4 DEF ExpectedSize, LastFrame
      <4>2. ExpectedSize = FrameStart(stored.plain, k + 1) - FrameStart(stored.plain, k)
        <5> HIDE DEF p, q, k, size
        <5> QED
          BY <1>1, <1>3, <1>6, <3>1, <3>4, <4>1 DEF Smaller
      <4> QED
        BY <3>2, <4>1, <4>2
    <3> QED
      BY <3>3, <3>4
  <2>4. ASSUME Remaining = 0 PROVE k = Frames
    <3>1. size <= p
      <4> HIDE DEF p, size
      <4> QED
        BY <1>1, <1>3, <1>5, <2>4
    <3>2. ASSUME k < Frames PROVE FALSE
      <4> DEFINE n == Frames - 1
      <4>1. n \in Nat /\ k <= n
        BY <1>1, <1>2, <3>2
      <4> HIDE DEF n
      <4>2. p <= n * CHUNK_SIZE /\ n * CHUNK_SIZE \in Nat
        <5> HIDE DEF k
        <5> QED
          BY <1>2, <1>3, <4>1, Multiples
      <4>3. n * CHUNK_SIZE < size
        BY <2>1 DEF n
      <4> HIDE DEF p, size
      <4> QED
        BY <1>1, <1>3, <3>1, <4>2, <4>3
    <3>3. k \in Nat /\ Frames \in Nat /\ k <= Frames
      BY <1>1, <1>2, <1>4
    <3> HIDE DEF k
    <3> QED
      BY <3>2, <3>3
  <2> HIDE DEF k
  <2> QED
    BY <2>2, <2>3, <2>4 DEF k
<1> QED
  BY <1>8, <1>9

LEMMA StoredFixed ==
  ASSUME [Next]_vars
  PROVE  UNCHANGED <<stored, setting>>
BY DEF Next, Progress, vars, outputVars, streamVars, OpenCapsule, RejectCapsule,
       StopReading, ReadFrame, EndOfPayload, TruncatedFrame, OpenFrame,
       FrameRejected, BatchOpened, WriteChunk, EndBatch, AcceptPayload,
       RejectPayload, Persist, SyncTemp, RemoveExisting, Rename, SyncParent,
       ParentNotFound, StreamIOError, Fault, OutputIOError, Kill, PowerLoss,
       CreateTemp, Goto, Reject, IOError, ErrorReturn

(* The payload of an intact capsule never ends where a frame is asked for, *)
(* nor inside one.                                                         *)
LEMMA FrameAvailable ==
  ASSUME IInv, Intact, OnTrack, pc = "read", Remaining > 0 \/ IsV2EmptyFrame
  PROVE  /\ Available >= ExpectedSize /\ ExpectedSize > 0
         /\ pos + ExpectedSize = FrameStart(stored.plain, idx + Len(batch) + 1)
         /\ SubSeq(stored.payload, pos + 1, pos + ExpectedSize)
              = SealedFrame(stored.seal, idx + Len(batch),
                            Chunk(stored.plain, idx + Len(batch)))
<1> DEFINE k == idx + Len(batch)
           a == FrameStart(stored.plain, k)
           b == FrameStart(stored.plain, k + 1)
           e == FrameStart(stored.plain, Frames)
<1>1. /\ stored.plain \in Seq(Byte) /\ Frames \in Nat
      /\ Len(stored.payload) = e
      /\ \A j \in 0..(Frames - 1) :
           SubSeq(stored.payload, FrameStart(stored.plain, j) + 1,
                  FrameStart(stored.plain, j + 1))
             = SealedFrame(stored.seal, j, Chunk(stored.plain, j))
  BY IntactFacts
<1>2. k \in Nat /\ pos = a
  BY LenProperties DEF IInv, TypeOK, OnTrack
<1>3. k < Frames /\ ExpectedSize = b - a
  BY AsksForNextFrame
<1> HIDE DEF k
<1>4. a \in Nat /\ b \in Nat /\ e \in Nat
  BY <1>1, <1>2, FrameStartType
<1>5. a < b /\ b <= e
  BY <1>1, <1>2, <1>3, FrameStartGrows
<1>6. k \in 0..(Frames - 1)
  BY <1>1, <1>2, <1>3
<1>7. SubSeq(stored.payload, a + 1, b)
        = SealedFrame(stored.seal, k, Chunk(stored.plain, k))
  BY <1>1, <1>6
<1> HIDE DEF a, b, e
<1>8. /\ Available >= ExpectedSize /\ ExpectedSize > 0
      /\ pos + ExpectedSize = b
  BY <1>1, <1>2, <1>3, <1>4, <1>5 DEF Available
<1> QED
  BY <1>2, <1>7, <1>8 DEF k, a, b

LEMMA ReadFrameTrack ==
  ASSUME IInv, Intact, OnTrack, ReadFrame
  PROVE  OnTrack'
<1> DEFINE k == idx + Len(batch)
           frame == SealedFrame(stored.seal, k, Chunk(stored.plain, k))
           n == Len(batch)
<1>1. /\ pc = "read" /\ (Remaining > 0 \/ IsV2EmptyFrame)
      /\ batch' = Append(batch, SubSeq(stored.payload, pos + 1, pos + ExpectedSize))
      /\ pos' = pos + ExpectedSize
      /\ eof' = LastFrame /\ pc' \in {"read", "unseal"}
      /\ UNCHANGED <<stored, setting, ioFailed, written, total, idx>>
  BY DEF ReadFrame, Goto
<1>2. /\ idx \in Nat /\ n \in Nat /\ k \in Nat
      /\ batch \in Seq(Seq(CipherBytes)) /\ Frames \in Nat
  BY IntactFacts, LenProperties DEF IInv, TypeOK
<1>3. k < Frames /\ (LastFrame => k + 1 = Frames)
  BY <1>1, AsksForNextFrame
<1>4. batch' = Append(batch, frame) /\ pos' = FrameStart(stored.plain, k + 1)
  BY <1>1, FrameAvailable
<1>5. frame \in Seq(CipherBytes)
  <2>1. IsFrameIndex(stored.plain, k) /\ stored.plain \in Seq(Byte)
        /\ stored.seal \in Seals
    BY <1>2, <1>3, IntactFacts
  <2> HIDE DEF k
  <2>2. Chunk(stored.plain, k) \in Seq(Byte)
    BY <1>2, <2>1, ChunkProperties
  <2> QED
    BY <1>2, <2>1, <2>2, SealedFrameType
<1> HIDE DEF frame
<1>6. /\ Len(batch') = n + 1 /\ batch'[n + 1] = frame
      /\ \A i \in 1..n : batch'[i] = batch[i]
  BY <1>2, <1>4, <1>5, AppendProperties
<1>7. \A i \in 1..Len(batch') :
        batch'[i] = SealedFrame(stored.seal, idx + i - 1,
                                Chunk(stored.plain, idx + i - 1))
  <2> TAKE i \in 1..Len(batch')
  <2>1. CASE i = n + 1
    <3>1. idx + i - 1 = k
      BY <1>2, <2>1
    <3> QED
      BY <1>6, <2>1, <3>1 DEF frame
  <2>2. CASE i \in 1..n
    BY <1>1, <1>6, <2>2 DEF OnTrack
  <2>3. i = n + 1 \/ i \in 1..n
    BY <1>2, <1>6
  <2> QED
    BY <2>1, <2>2, <2>3
<1>8. idx + Len(batch') = k + 1 /\ k + 1 <= Frames
  BY <1>2, <1>3, <1>6
<1>9. batch' # <<>>
  BY <1>2, <1>6, EmptySeq
<1>10. Frames' = Frames
  BY <1>1 DEF Frames
<1>11. total' = Smaller((idx' + written') * CHUNK_SIZE, Len(stored'.plain))
  BY <1>1 DEF OnTrack
<1>12. /\ idx' + Len(batch') <= Frames'
       /\ pos' = FrameStart(stored'.plain, idx' + Len(batch'))
       /\ eof' => idx' + Len(batch') = Frames'
  BY <1>1, <1>3, <1>4, <1>8, <1>10
<1>13. \A i \in 1..Len(batch') :
         batch'[i] = SealedFrame(stored'.seal, idx' + i - 1,
                                 Chunk(stored'.plain, idx' + i - 1))
  BY <1>1, <1>7
<1> HIDE DEF k, n
<1> QED
  BY <1>1, <1>9, <1>11, <1>12, <1>13 DEF OnTrack

LEMMA WriteChunkTrack ==
  ASSUME IInv, Intact, OnTrack, WriteChunk
  PROVE  OnTrack'
<1> DEFINE k == idx + written
           chunk == Chunk(stored.plain, k)
           size == Len(stored.plain)
<1>1. /\ pc = "write" /\ pc' = "write"
      /\ written < Len(batch) /\ written' = written + 1
      /\ total' = total + Len(Opened(batch[written + 1]))
      /\ UNCHANGED <<stored, setting, ioFailed, pos, batch, idx, eof>>
  BY DEF WriteChunk, outputVars
<1>2. /\ idx \in Nat /\ written \in Nat /\ Len(batch) \in Nat /\ k \in Nat
      /\ stored.plain \in Seq(Byte) /\ stored.seal \in Seals
      /\ Frames \in Nat /\ size \in Nat
      /\ \A j \in Nat : j < Frames => IsFrameIndex(stored.plain, j)
  BY IntactFacts, LenProperties DEF IInv, TypeOK
<1>3. written + 1 \in 1..Len(batch) /\ idx + (written + 1) - 1 = k /\ k < Frames
  <2>1. idx + Len(batch) <= Frames
    BY <1>1 DEF OnTrack
  <2> QED
    BY <1>1, <1>2, <2>1
<1>4. batch[written + 1] = SealedFrame(stored.seal, k, chunk)
  BY <1>1, <1>3 DEF OnTrack
<1> HIDE DEF k
<1>5. /\ chunk \in Seq(Byte) /\ Len(chunk) \in Nat
      /\ k * CHUNK_SIZE \in 0..size
      /\ k * CHUNK_SIZE + Len(chunk) = Smaller((k + 1) * CHUNK_SIZE, size)
  <2>1. IsFrameIndex(stored.plain, k)
    BY <1>2, <1>3
  <2>2. chunk \in Seq(Byte) /\ k * CHUNK_SIZE \in 0..size
        /\ k * CHUNK_SIZE + Len(chunk) = Smaller((k + 1) * CHUNK_SIZE, size)
    BY <1>2, <2>1, ChunkProperties
  <2> QED
    BY <2>2, LenProperties
<1>6. Opened(batch[written + 1]) = chunk
  <2>1. 1 \in 1..(Len(chunk) + TAG_SIZE)
    BY <1>5, FormatAssumption
  <2>2. SealedFrame(stored.seal, k, chunk)[1].chunk = chunk
    BY <2>1 DEF SealedFrame
  <2> QED
    BY <1>4, <2>2 DEF Opened
<1>7. total = k * CHUNK_SIZE
  <2>1. total = Smaller(k * CHUNK_SIZE, size)
    BY <1>1 DEF OnTrack, k
  <2> QED
    BY <1>2, <1>5, <2>1 DEF Smaller
<1>8. total' = Smaller((idx' + written') * CHUNK_SIZE, Len(stored'.plain))
  <2>1. idx' + written' = k + 1
    BY <1>1, <1>2 DEF k
  <2>2. total' = k * CHUNK_SIZE + Len(chunk)
    BY <1>1, <1>6, <1>7
  <2> HIDE DEF chunk
  <2> QED
    BY <1>1, <1>5, <2>1, <2>2
<1>9. Frames' = Frames
  BY <1>1 DEF Frames
<1> HIDE DEF chunk, size
<1> QED
  BY <1>1, <1>8, <1>9 DEF OnTrack

LEMMA EndBatchTrack ==
  ASSUME IInv, Intact, OnTrack, EndBatch
  PROVE  OnTrack'
<1> DEFINE size == Len(stored.plain)
<1>1. /\ pc = "write" /\ pc' = (IF eof THEN "check" ELSE "read")
      /\ written = Len(batch) /\ written' = 0
      /\ idx' = idx + Len(batch) /\ batch' = <<>>
      /\ UNCHANGED <<stored, setting, ioFailed, pos, total, eof>>
  BY DEF EndBatch, Goto
<1>2. /\ idx \in Nat /\ Len(batch) \in Nat /\ Len(<<>>) = 0
      /\ stored.plain \in Seq(Byte) /\ Frames \in Nat /\ size \in Nat
      /\ stored.plaintext_len = size
      /\ Len(stored.payload) = FrameStart(stored.plain, Frames)
  BY IntactFacts, LenProperties, EmptySeq DEF IInv, TypeOK
<1>3. /\ idx + Len(batch) <= Frames
      /\ pos = FrameStart(stored.plain, idx + Len(batch))
      /\ total = Smaller((idx + Len(batch)) * CHUNK_SIZE, size)
      /\ eof => idx + Len(batch) = Frames
  BY <1>1 DEF OnTrack
<1>4. Frames' = Frames /\ idx' + Len(batch') = idx + Len(batch)
      /\ idx' + written' = idx + Len(batch)
  BY <1>1, <1>2 DEF Frames
<1>5. CASE eof
  <2>1. PayloadComplete'
    <3>1. pos = Len(stored.payload)
      BY <1>2, <1>3, <1>5
    <3>2. total = size
      <4>1. Smaller(Frames * CHUNK_SIZE, size) = size
        BY <1>2, AllFramesCover DEF Frames
      <4> QED
        BY <1>3, <1>5, <4>1
    <3>3. Available' = 0
      <4>1. Available' = Len(stored.payload) - Len(stored.payload)
        BY <1>1, <3>1 DEF Available
      <4>2. Len(stored.payload) \in Nat
        BY <1>2, FrameStartType
      <4> QED
        BY <4>1, <4>2
    <3> QED
      BY <1>1, <1>2, <3>2, <3>3 DEF PayloadComplete
  <2> QED
    BY <1>1, <1>5, <2>1 DEF OnTrack
<1>6. CASE ~eof
  <2>1. 1..Len(batch') = {}
    BY <1>1, <1>2
  <2>2. pc' = "read" /\ ~eof'
    BY <1>1, <1>6
  <2>3. total' = Smaller((idx' + written') * CHUNK_SIZE, Len(stored'.plain))
    BY <1>1, <1>3, <1>4
  <2>4. /\ idx' + Len(batch') <= Frames'
        /\ pos' = FrameStart(stored'.plain, idx' + Len(batch'))
    BY <1>1, <1>3, <1>4
  <2> QED
    BY <2>1, <2>2, <2>3, <2>4 DEF OnTrack
<1> QED
  BY <1>5, <1>6

LEMMA TrackInit == Init => OnTrack
BY DEF Init, OutputInit, OnTrack

(* No check of the reader refuses an intact capsule. *)
LEMMA NothingRefused ==
  ASSUME IInv, Intact, OnTrack
  PROVE  /\ ~RejectCapsule /\ ~EndOfPayload /\ ~TruncatedFrame /\ ~RejectPayload
         /\ \A i \in 1..BATCH_CHUNKS : ~FrameRejected(i)
<1>1. ~RejectCapsule
  BY DEF Intact, RejectCapsule
<1>2. ~EndOfPayload /\ ~TruncatedFrame
  <2> SUFFICES ASSUME EndOfPayload \/ TruncatedFrame PROVE FALSE
    OBVIOUS
  <2>1. /\ pc = "read" /\ (Remaining > 0 \/ IsV2EmptyFrame)
        /\ Available = 0 \/ Available < ExpectedSize
    BY DEF EndOfPayload, TruncatedFrame
  <2>2. Available >= ExpectedSize /\ ExpectedSize > 0
    BY <2>1, FrameAvailable
  <2>3. Available \in Int /\ ExpectedSize \in Int
    <3>1. Available \in Int
      BY LenProperties DEF Available, IInv, TypeOK, Capsules
    <3>2. Remaining \in Nat /\ CHUNK_SIZE \in Nat /\ TAG_SIZE \in Nat
      BY FormatAssumption, LenProperties
         DEF Remaining, SaturatingSub, IInv, TypeOK, Capsules
    <3> QED
      BY <3>1, <3>2 DEF ExpectedSize
  <2> QED
    BY <2>1, <2>2, <2>3
<1>3. ~RejectPayload
  BY DEF RejectPayload, OnTrack
<1>4. ASSUME NEW i \in 1..BATCH_CHUNKS PROVE ~FrameRejected(i)
  <2> SUFFICES ASSUME FrameRejected(i) PROVE FALSE
    OBVIOUS
  <2> DEFINE k == idx + i - 1
             chunk == Chunk(stored.plain, k)
  <2>1. pc = "unseal" /\ i \in DOMAIN batch /\ ~Authenticates(ReaderSeal, k, batch[i])
    BY DEF FrameRejected
  <2>2. /\ i \in 1..Len(batch) /\ Len(batch) \in Nat /\ idx \in Nat
        /\ stored.plain \in Seq(Byte) /\ stored.seal \in Seals
        /\ ReaderSeal = stored.seal /\ Frames \in Nat
        /\ \A j \in Nat : j < Frames => IsFrameIndex(stored.plain, j)
    BY <2>1, IntactFacts, LenProperties DEF IInv, TypeOK
  <2>3. /\ idx + Len(batch) <= Frames
        /\ batch[i] = SealedFrame(stored.seal, k, chunk)
    BY <2>1, <2>2 DEF OnTrack
  <2>4. k \in Nat /\ k < Frames
    BY <2>2, <2>3
  <2> HIDE DEF k
  <2>5. chunk \in Seq(Byte)
    BY <2>2, <2>4, ChunkProperties
  <2> HIDE DEF chunk
  <2>6. Authenticates(stored.seal, k, SealedFrame(stored.seal, k, chunk))
    BY <2>2, <2>4, <2>5, SealedFrameType
  <2> QED
    BY <2>1, <2>2, <2>3, <2>6
<1> QED
  BY <1>1, <1>2, <1>3, <1>4

LEMMA TrackNext == IInv /\ Intact /\ OnTrack /\ [Next]_vars => OnTrack'
<1> SUFFICES ASSUME IInv, Intact, OnTrack, [Next]_vars PROVE OnTrack'
  OBVIOUS
<1>1. UNCHANGED <<stored, setting, Frames>>
  BY StoredFixed DEF Frames
<1>2. /\ ~RejectCapsule /\ ~EndOfPayload /\ ~TruncatedFrame /\ ~RejectPayload
      /\ \A i \in 1..BATCH_CHUNKS : ~FrameRejected(i)
  BY NothingRefused
<1>3. CASE OpenCapsule
  <2>1. /\ pc = "start" /\ pc' = "read" /\ ~eof /\ written = 0
        /\ UNCHANGED <<pos, batch, written, total, idx, eof>>
    BY <1>3 DEF OpenCapsule, CreateTemp, Goto, streamVars, IInv, Aligned
  <2>2. /\ pos = 0 /\ idx = 0 /\ batch = <<>> /\ total = 0 /\ Len(<<>>) = 0
    BY <2>1, EmptySeq DEF OnTrack
  <2>3. /\ Frames \in Nat /\ stored.plain \in Seq(Byte) /\ Len(stored.plain) \in Nat
        /\ 0 * CHUNK_SIZE = 0 /\ 0 * TAG_SIZE = 0
    BY IntactFacts, FormatAssumption
  <2>4. FrameStart(stored.plain, 0) = 0 /\ Smaller(0 * CHUNK_SIZE, Len(stored.plain)) = 0
    BY <2>3 DEF FrameStart, Smaller
  <2>5. 1..Len(batch) = {} /\ idx + Len(batch) = 0 /\ idx + written = 0
    BY <2>1, <2>2
  <2> QED
    BY <1>1, <2>1, <2>2, <2>3, <2>4, <2>5 DEF OnTrack
<1>4. CASE StopReading
  <2>1. /\ pc = "read" /\ pc' = "unseal" /\ eof' = TRUE
        /\ Remaining = 0 /\ ~IsV2EmptyFrame
        /\ UNCHANGED <<pos, batch, written, total, idx>>
    BY <1>4 DEF StopReading, Goto
  <2>2. idx + Len(batch) = Frames
    BY <2>1, AsksForNextFrame
  <2> QED
    BY <1>1, <2>1, <2>2 DEF OnTrack
<1>5. CASE ReadFrame
  BY <1>5, ReadFrameTrack
<1>6. CASE \E i \in 1..BATCH_CHUNKS : OpenFrame(i)
  BY <1>1, <1>6 DEF OpenFrame, outputVars, OnTrack
<1>7. CASE BatchOpened
  <2>1. /\ pc = "unseal" /\ pc' = (IF batch = <<>> THEN "check" ELSE "write")
        /\ UNCHANGED <<pos, batch, written, total, idx, eof>>
    BY <1>7 DEF BatchOpened, Goto, streamVars
  <2>2. CASE batch # <<>>
    BY <1>1, <2>1, <2>2 DEF OnTrack
  <2>3. CASE batch = <<>>
    <3>1. /\ eof /\ written = 0 /\ idx + Len(batch) = Frames
          /\ pos = FrameStart(stored.plain, idx + Len(batch))
          /\ total = Smaller((idx + written) * CHUNK_SIZE, Len(stored.plain))
      BY <2>1, <2>3 DEF OnTrack, IInv, Aligned
    <3>2. /\ Len(batch) = 0 /\ idx \in Nat /\ stored.plain \in Seq(Byte)
          /\ Frames \in Nat /\ stored.plaintext_len = Len(stored.plain)
          /\ Len(stored.payload) = FrameStart(stored.plain, Frames)
      BY <2>3, IntactFacts, EmptySeq DEF IInv, TypeOK
    <3>3. idx + written = Frames
      BY <3>1, <3>2
    <3>4. total = Len(stored.plain)
      BY <3>1, <3>2, <3>3, AllFramesCover DEF Frames
    <3>5. Available = 0
      <4>1. Len(stored.payload) \in Nat /\ pos = Len(stored.payload)
        BY <3>1, <3>2, FrameStartType
      <4> QED
        BY <4>1 DEF Available
    <3>6. PayloadComplete'
      BY <1>1, <2>1, <3>2, <3>4, <3>5 DEF PayloadComplete, Available
    <3> QED
      BY <2>1, <2>3, <3>6 DEF OnTrack
  <2> QED
    BY <2>2, <2>3
<1>8. CASE WriteChunk
  BY <1>8, WriteChunkTrack
<1>9. CASE EndBatch
  BY <1>9, EndBatchTrack
<1>10. CASE AcceptPayload
  BY <1>10 DEF AcceptPayload, Goto, OnTrack
<1>11. CASE StreamIOError
  BY <1>11 DEF StreamIOError, IOError, ErrorReturn, OnTrack
<1>12. CASE Persist
  BY <1>1, <1>12 DEF Persist, SyncTemp, RemoveExisting, Rename, SyncParent,
                     ParentNotFound, Reject, ErrorReturn, OnTrack
<1>13. CASE Fault
  BY <1>1, <1>13 DEF Fault, OutputIOError, IOError, ErrorReturn, Kill, PowerLoss,
                     Final, OnTrack
<1>14. CASE UNCHANGED vars
  BY <1>1, <1>14 DEF vars, outputVars, streamVars, OnTrack, PayloadComplete, Available
<1> QED
  BY <1>2, <1>3, <1>4, <1>5, <1>6, <1>7, <1>8, <1>9, <1>10, <1>11, <1>12,
     <1>13, <1>14 DEF Next, Progress

(* Only a failing system call, or the missing parent of a bare output      *)
(* name, makes the decryption of an intact capsule return an error.        *)
THEOREM IntactNeverRefused == Spec => []IntactAccepted
<1> DEFINE Tracked == Intact => OnTrack
<1>1. Init => Tracked
  BY TrackInit
<1>2. IInv /\ Tracked /\ [Next]_vars => Tracked'
  <2> SUFFICES ASSUME IInv, Tracked, [Next]_vars, Intact' PROVE OnTrack'
    OBVIOUS
  <2>1. Intact
    BY StoredFixed DEF Intact, EnvelopeAccepted
  <2> QED
    BY <2>1, TrackNext
<1>3. Tracked => IntactAccepted
  BY DEF OnTrack, IntactAccepted
<1> HIDE DEF Tracked
<1> QED
  BY <1>1, <1>2, <1>3, Invariance, PTL DEF Spec
-----------------------------------------------------------------------------
(* The output path, through errors, kills and power losses at every step,  *)
(* and that a decryption implements AtomicOutput (its safety part).        *)

Streaming == {"start", "read", "unseal", "write", "check"}

MayBeMissing == setting.platform = "windows"

(* What the path and its durable entry hold at each stage of persisting.   *)
OutInv ==
  /\ pc \in Streaming \cup {"sync"} => path = setting.prior /\ disk = setting.prior
  /\ pc = "replace" =>
       /\ path = setting.prior \/ (MayBeMissing /\ path = Absent)
       /\ disk = setting.prior
  /\ pc \in {"replace", "syncParent"} => flushed
  /\ pc = "syncParent" =>
       setting.platform = "unix" /\ path = Completed /\ disk = setting.prior
  /\ pc \in {"sync", "replace", "syncParent"} => mode = "file"
  /\ pc = "ok" /\ mode = "file" => flushed
  /\ pc = "ok" /\ mode = "file" /\ setting.platform = "unix" =>
       path = Completed /\ disk = Completed
  /\ pc = "ok" /\ mode # "file" => path = setting.prior /\ disk = setting.prior
  /\ \A file \in {path, disk} :
       file = setting.prior \/ file = Completed \/ (MayBeMissing /\ file = Absent)
  /\ path = disk \/ path = Absent \/ flushed
  /\ disk \in {path, setting.prior}
  /\ pc \in {"syncParent", "ok", "error"} \/ mode # "file" => temp = "none"

(* After a power loss the entry is the new one, the durable one, or, where *)
(* they differ on Windows, missing.                                        *)
LEMMA LostEntry ==
  ASSUME OutInv, PowerLoss
  PROVE  path' \in {path, disk} \/ (MayBeMissing /\ path # disk /\ path' = Absent)
BY DEF OutInv, PowerLoss, MayBeMissing

LEMMA OutInit == Init => OutInv
BY DEF Init, OutputInit, OutInv, Streaming

(* What an accepted payload hands to the rename is the complete file.      *)
LEMMA AcceptedOutput == IInv /\ Accepted => out = Completed
<1> SUFFICES ASSUME IInv, Accepted PROVE out = Completed
  OBVIOUS
<1>1. /\ stored.plain \in Seq(Byte) /\ Len(stored.plain) \in Nat
      /\ total \in Nat /\ total <= Len(stored.plain)
      /\ out = SubSeq(stored.plain, 1, total)
  BY LenProperties DEF IInv, TypeOK, Capsules, AuthenticPrefix
<1>2. total = stored.plaintext_len
  BY DEF IInv, SealChecked, Accepted
<1> QED
  BY <1>1, <1>2 DEF Completed, Smaller

(* What is fixed for an operation, and with it the complete file.          *)
LEMMA Fixed ==
  ASSUME [Next]_vars
  PROVE  UNCHANGED <<stored, mode, setting, Completed>>
<1>1. UNCHANGED <<stored, mode, setting>>
  BY DEF Next, Progress, vars, outputVars, streamVars, OpenCapsule, RejectCapsule,
         StopReading, ReadFrame, EndOfPayload, TruncatedFrame, OpenFrame,
         FrameRejected, BatchOpened, WriteChunk, EndBatch, AcceptPayload,
         RejectPayload, Persist, SyncTemp, RemoveExisting, Rename, SyncParent,
         ParentNotFound, StreamIOError, Fault, OutputIOError, Kill, PowerLoss,
         CreateTemp, Goto, Reject, IOError, ErrorReturn
<1> QED
  BY <1>1 DEF Completed

(* Every step is one of these, as far as the output path is concerned.     *)
StreamStep ==
  /\ pc \in Streaming /\ pc' \in Streaming
  /\ temp' = temp \/ (temp' = "open" /\ mode = "file")
  /\ UNCHANGED <<path, disk>>

ErrorStep ==
  /\ pc \notin Final /\ pc' = "error" /\ temp' = "none"
  /\ UNCHANGED <<path, disk, flushed>>

LEMMA StepKinds ==
  ASSUME [Next]_vars
  PROVE  \/ StreamStep \/ ErrorStep \/ AcceptPayload
         \/ SyncTemp \/ RemoveExisting \/ Rename(out) \/ SyncParent
         \/ Kill \/ PowerLoss \/ UNCHANGED outputVars
<1>1. CASE OpenCapsule \/ StopReading \/ ReadFrame \/ EndOfPayload \/ BatchOpened \/ EndBatch
  <2>1. StreamStep
    BY <1>1 DEF OpenCapsule, StopReading, ReadFrame, EndOfPayload, BatchOpened,
                EndBatch, CreateTemp, Goto, StreamStep, Streaming
  <2> QED
    BY <2>1
<1>2. CASE \/ RejectCapsule \/ TruncatedFrame \/ RejectPayload
           \/ StreamIOError \/ OutputIOError \/ ParentNotFound
           \/ \E i \in 1..BATCH_CHUNKS : FrameRejected(i)
  <2>1. ErrorStep
    BY <1>2 DEF RejectCapsule, TruncatedFrame, RejectPayload, StreamIOError,
                OutputIOError, ParentNotFound, FrameRejected, Reject, IOError,
                ErrorReturn, ErrorStep, Final
  <2> QED
    BY <2>1
<1>3. CASE WriteChunk \/ (\E i \in 1..BATCH_CHUNKS : OpenFrame(i)) \/ UNCHANGED vars
  BY <1>3 DEF WriteChunk, OpenFrame, vars
<1> QED
  BY <1>1, <1>2, <1>3 DEF Next, Progress, Persist, Fault

LEMMA OutNext == IInv /\ OutInv /\ [Next]_vars => OutInv'
<1> SUFFICES ASSUME IInv, OutInv, [Next]_vars PROVE OutInv'
  OBVIOUS
<1>1. UNCHANGED <<stored, mode, setting, Completed>>
  BY Fixed
<1>2. CASE StreamStep
  BY <1>1, <1>2 DEF OutInv, MayBeMissing, StreamStep, Streaming
<1>3. CASE ErrorStep
  BY <1>1, <1>3 DEF OutInv, MayBeMissing, ErrorStep, Streaming
<1>4. CASE AcceptPayload
  BY <1>1, <1>4 DEF OutInv, MayBeMissing, AcceptPayload, Goto, Streaming
<1>5. CASE SyncTemp
  BY <1>1, <1>5 DEF OutInv, MayBeMissing, SyncTemp, Streaming
<1>6. CASE RemoveExisting
  BY <1>1, <1>6 DEF OutInv, MayBeMissing, RemoveExisting, Streaming
<1>7. CASE Rename(out)
  <2>1. out = Completed
    BY <1>7, AcceptedOutput DEF Rename, Accepted
  <2> QED
    BY <1>1, <1>7, <2>1 DEF OutInv, MayBeMissing, Rename, Streaming
<1>8. CASE SyncParent
  BY <1>1, <1>8 DEF OutInv, MayBeMissing, SyncParent, Streaming
<1>9. CASE Kill
  BY <1>1, <1>9 DEF OutInv, MayBeMissing, Kill, Streaming, Final
<1>10. CASE PowerLoss
  <2>1. path' \in {path, disk} \/ (MayBeMissing /\ path # disk /\ path' = Absent)
    BY <1>10, LostEntry
  <2>2. pc' = IF pc \in Final THEN pc ELSE "crashed"
    BY <1>10 DEF PowerLoss
  <2>3. UNCHANGED <<temp, flushed>> /\ disk' = path'
    BY <1>10 DEF PowerLoss
  <2> QED
    BY <1>1, <2>1, <2>2, <2>3 DEF OutInv, MayBeMissing, Streaming, Final
<1>11. CASE UNCHANGED outputVars
  BY <1>1, <1>11 DEF OutInv, MayBeMissing, outputVars, Streaming
<1> QED
  BY <1>2, <1>3, <1>4, <1>5, <1>6, <1>7, <1>8, <1>9, <1>10, <1>11, StepKinds

LEMMA OutInvariance == Spec => [](IInv /\ OutInv)
BY OutInit, OutNext, Invariance, PTL DEF Spec

(* The path holds the old or the complete file at every moment.            *)
THEOREM PathOldOrComplete == Spec => []OldOrComplete
<1>1. OutInv => OldOrComplete
  BY DEF OutInv, OldOrComplete, MayBeMissing
<1> QED
  BY <1>1, OutInvariance, PTL

(* A decryption that returns leaves no temporary file.                     *)
THEOREM NothingLeftBehind == Spec => []NoTempLeft
<1>1. OutInv => NoTempLeft
  BY DEF OutInv, NoTempLeft
<1> QED
  BY <1>1, OutInvariance, PTL

(* On Unix a reported success is durable. *)
THEOREM SuccessIsDurable == Spec => []DurableSuccess
<1>1. OutInv => DurableSuccess
  BY DEF OutInv, DurableSuccess
<1> QED
  BY <1>1, OutInvariance, PTL
-----------------------------------------------------------------------------
LEMMA AtomicInit == Init => Atomic!Init
BY DEF Init, OutputInit, Stage, Final, Atomic!Init

LEMMA AtomicStep == IInv /\ OutInv /\ [Next]_vars => [Atomic!Next]_(Atomic!vars)
<1> SUFFICES ASSUME IInv, OutInv, [Next]_vars PROVE [Atomic!Next]_(Atomic!vars)
  OBVIOUS
<1>1. UNCHANGED <<stored, mode, setting, Completed>>
  BY Fixed
<1>2. CASE StreamStep
  <2>1. Atomic!Work
    BY <1>1, <1>2 DEF StreamStep, Streaming, Stage, Final, Atomic!Work
  <2> QED
    BY <2>1 DEF Atomic!Next
<1>3. CASE ErrorStep
  <2>1. Atomic!Stop
    BY <1>1, <1>3 DEF OutInv, ErrorStep, Stage, Final, Atomic!Stop
  <2> QED
    BY <2>1 DEF Atomic!Next
<1>4. CASE AcceptPayload
  <2>1. UNCHANGED path /\ pc = "check"
    BY <1>4 DEF AcceptPayload, Goto
  <2>2. CASE mode = "file"
    <3>1. Atomic!Work
      BY <1>1, <1>4, <2>1, <2>2 DEF AcceptPayload, Goto, Stage, Final, Atomic!Work
    <3> QED
      BY <3>1 DEF Atomic!Next
  <2>3. CASE mode # "file"
    <3>1. Atomic!Stop
      BY <1>1, <1>4, <2>1, <2>3 DEF AcceptPayload, Goto, Stage, Final, Atomic!Stop
    <3> QED
      BY <3>1 DEF Atomic!Next
  <2> QED
    BY <2>2, <2>3
<1>5. CASE SyncTemp
  <2>1. Atomic!Work
    BY <1>1, <1>5 DEF SyncTemp, Stage, Final, Atomic!Work
  <2> QED
    BY <2>1 DEF Atomic!Next
<1>6. CASE RemoveExisting
  <2>1. Atomic!Remove
    BY <1>1, <1>6 DEF RemoveExisting, Stage, Final, Atomic!Remove
  <2> QED
    BY <2>1 DEF Atomic!Next
<1>7. CASE Rename(out)
  <2>1. path' = Completed /\ pc = "replace" /\ mode = "file"
    BY <1>7, AcceptedOutput DEF Rename, Accepted, OutInv
  <2>2. Atomic!Commit
    BY <1>1, <1>7, <2>1 DEF Rename, Stage, Final, Atomic!Commit
  <2> QED
    BY <2>2 DEF Atomic!Next
<1>8. CASE SyncParent
  <2>1. Atomic!Report
    BY <1>1, <1>8 DEF SyncParent, OutInv, Stage, Final, Atomic!Report
  <2> QED
    BY <2>1 DEF Atomic!Next
<1>9. CASE Kill
  <2>1. Atomic!Stop
    BY <1>1, <1>9 DEF Kill, Stage, Final, Atomic!Stop
  <2> QED
    BY <2>1 DEF Atomic!Next
<1>10. CASE PowerLoss
  <2>1. /\ path' \in {path, disk} \/ (MayBeMissing /\ path # disk /\ path' = Absent)
        /\ disk \in {path, setting.prior}
    BY <1>10, LostEntry DEF OutInv
  <2>2. pc' = IF pc \in Final THEN pc ELSE "crashed"
    BY <1>10 DEF PowerLoss
  <2>3. Stage' = IF Stage = "done" THEN "done" ELSE "stopped"
    BY <1>1, <2>2 DEF Stage, Final
  <2>4. CASE path' = path
    <3>1. Atomic!LosePower
      BY <1>1, <2>3, <2>4 DEF Atomic!LosePower
    <3> QED
      BY <3>1 DEF Atomic!Next
  <2>5. CASE path' = setting.prior /\ path' # path /\ setting.platform # "unix"
    <3>1. Atomic!LosePower
      BY <1>1, <2>3, <2>5 DEF Atomic!LosePower
    <3> QED
      BY <3>1 DEF Atomic!Next
  <2>6. CASE path' = setting.prior /\ path' # path /\ setting.platform = "unix"
    <3>1. Stage \in {"committed", "stopped"}
      BY <2>1, <2>6 DEF OutInv, MayBeMissing, Streaming, Stage, Final, IInv, TypeOK
    <3>2. Atomic!LosePower
      BY <1>1, <2>3, <2>6, <3>1 DEF Atomic!LosePower
    <3> QED
      BY <3>2 DEF Atomic!Next
  <2>7. CASE path' = Absent /\ MayBeMissing
    <3>1. Atomic!LosePower
      BY <1>1, <2>3, <2>7 DEF Atomic!LosePower, MayBeMissing
    <3> QED
      BY <3>1 DEF Atomic!Next
  <2> QED
    BY <2>1, <2>4, <2>5, <2>6, <2>7
<1>11. CASE UNCHANGED outputVars
  BY <1>1, <1>11 DEF outputVars, Stage, Final, Atomic!vars
<1> QED
  BY <1>2, <1>3, <1>4, <1>5, <1>6, <1>7, <1>8, <1>9, <1>10, <1>11, StepKinds

(* Every decryption is an allowed history of AtomicOutput: its beginning   *)
(* is, and so is every step.                                               *)
THEOREM RefinesAtomicOutput ==
  Spec => Atomic!Init /\ [][Atomic!Next]_(Atomic!vars)
BY AtomicInit, AtomicStep, OutInvariance, PTL DEF Spec
=============================================================================
