------------------------ MODULE EncryptStreamProofs ------------------------
(***************************************************************************)
(* What the chunks, frames and payloads of CapsuleFormat are, and proofs   *)
(* about EncryptStream, for every chunk, batch and tag size, every         *)
(* source and every change made to it while it is read: the payload is the *)
(* canonical one of the bytes that were read, a source nobody changes is   *)
(* encrypted as a whole, and the output path is replaced as AtomicOutput   *)
(* says (its safety part).                                                 *)
(***************************************************************************)
EXTENDS EncryptStream, SequenceTheorems, WellFoundedInduction, TLAPS

(* A chunk of a typed plaintext is a typed sequence that lies between two  *)
(* chunk boundaries.                                                       *)
LEMMA ChunkProperties ==
  ASSUME NEW plain \in Seq(Byte), NEW k \in Nat, IsFrameIndex(plain, k)
  PROVE  /\ Chunk(plain, k) \in Seq(Byte)
         /\ k * CHUNK_SIZE \in 0..Len(plain)
         /\ k * CHUNK_SIZE + Len(Chunk(plain, k))
              = Smaller((k + 1) * CHUNK_SIZE, Len(plain))
         /\ Smaller((k + 1) * CHUNK_SIZE, Len(plain))
              \in k * CHUNK_SIZE .. Len(plain)
<1> DEFINE from == k * CHUNK_SIZE
           to   == Smaller((k + 1) * CHUNK_SIZE, Len(plain))
<1>1. CHUNK_SIZE \in Nat /\ CHUNK_SIZE > 0
  BY FormatAssumption
<1>2. Len(plain) \in Nat
  BY LenProperties
<1>3. from \in Nat /\ (k + 1) * CHUNK_SIZE = from + CHUNK_SIZE
  BY <1>1
<1>4. from <= Len(plain)
  <2>1. CASE k = 0
    BY <2>1, <1>1, <1>2
  <2>2. CASE k * CHUNK_SIZE < Len(plain)
    BY <2>2, <1>2, <1>3
  <2> QED
    BY <2>1, <2>2 DEF IsFrameIndex
<1>5. to \in from .. Len(plain)
  BY <1>1, <1>2, <1>3, <1>4 DEF Smaller
<1>6. \A i \in from + 1 .. to : plain[i] \in Byte
  BY <1>2, <1>3, <1>5, ElementOfSeq
<1>7. /\ Chunk(plain, k) \in Seq(Byte)
      /\ Len(Chunk(plain, k)) = IF from + 1 <= to THEN to - (from + 1) + 1 ELSE 0
  <2>1. from + 1 \in Int /\ to \in Int
    BY <1>2, <1>3, <1>5
  <2> HIDE DEF from, to
  <2>2. /\ SubSeq(plain, from + 1, to) \in Seq(Byte)
        /\ Len(SubSeq(plain, from + 1, to))
             = IF from + 1 <= to THEN to - (from + 1) + 1 ELSE 0
    BY <2>1, <1>6, SubSeqProperties
  <2> QED
    BY <2>2 DEF Chunk, from, to
<1> HIDE DEF from, to
<1>8. from + Len(Chunk(plain, k)) = to
  BY <1>2, <1>3, <1>5, <1>7
<1> QED
  BY <1>2, <1>3, <1>4, <1>5, <1>7, <1>8 DEF from, to

(* Every non-empty set of numbers has a least one.                         *)
LEMMA LeastNumber ==
  ASSUME NEW T, T \subseteq Nat, T # {}
  PROVE  \E n \in T : \A m \in T : ~(m < n)
<1>1. IsWellFoundedOn(OpToRel(<, Nat), Nat)
  BY NatLessThanWellFounded
<1>2. PICK n \in T : \A m \in T : <<m, n>> \notin OpToRel(<, Nat)
  BY <1>1, WFMin
<1>3. \A m, k \in Nat : m < k => <<m, k>> \in OpToRel(<, Nat)
  BY DEF OpToRel
<1> QED
  BY <1>2, <1>3

(* Induction over the natural numbers, stated for sets. *)
LEMMA NumberInduction ==
  ASSUME NEW T, 0 \in T, \A n \in Nat : n \in T => n + 1 \in T
  PROVE  Nat \subseteq T
<1> SUFFICES ASSUME Nat \ T # {} PROVE FALSE
  OBVIOUS
<1>1. PICK n \in Nat \ T : \A m \in Nat \ T : ~(m < n)
  BY LeastNumber
<1>2. n # 0 /\ n - 1 \in Nat
  OBVIOUS
<1>3. n - 1 \in T
  BY <1>1, <1>2
<1> QED
  BY <1>1, <1>2, <1>3

(* f gives the first frames of a plaintext, up to n of them.               *)
FirstFrames(f, seal, plain, n) ==
  /\ f = [k \in 0..n |-> f[k]]
  /\ f[0] = <<>>
  /\ \A k \in 1..n :
       f[k] = f[k - 1] \o SealedFrame(seal, k - 1, Chunk(plain, k - 1))

(* One frame more. *)
LEMMA NextFrame ==
  ASSUME NEW f, NEW seal, NEW plain, NEW n \in Nat,
         FirstFrames(f, seal, plain, n)
  PROVE  \E g : /\ FirstFrames(g, seal, plain, n + 1)
                /\ g[n + 1] = f[n] \o SealedFrame(seal, n, Chunk(plain, n))
<1> DEFINE last == f[n] \o SealedFrame(seal, n, Chunk(plain, n))
           g == [k \in 0..(n + 1) |-> IF k = n + 1 THEN last ELSE f[k]]
<1>1. g[n + 1] = last /\ \A k \in 0..n : g[k] = f[k]
  OBVIOUS
<1>2. g = [k \in 0..(n + 1) |-> g[k]]
  OBVIOUS
<1> HIDE DEF g
<1>3. ASSUME NEW k \in 1..(n + 1)
      PROVE  g[k] = g[k - 1] \o SealedFrame(seal, k - 1, Chunk(plain, k - 1))
  <2>1. CASE k = n + 1
    <3>1. k - 1 = n /\ n \in 0..n
      BY <2>1
    <3>2. g[k] = f[n] \o SealedFrame(seal, n, Chunk(plain, n))
      BY <1>1, <2>1
    <3>3. g[k - 1] = f[n]
      BY <1>1, <3>1
    <3> QED
      BY <3>1, <3>2, <3>3
  <2>2. CASE k \in 1..n
    <3>1. k \in 0..n /\ k - 1 \in 0..n
      BY <2>2
    <3>2. g[k] = f[k] /\ g[k - 1] = f[k - 1]
      BY <1>1, <3>1
    <3>3. f[k] = f[k - 1] \o SealedFrame(seal, k - 1, Chunk(plain, k - 1))
      BY <2>2 DEF FirstFrames
    <3> QED
      BY <3>2, <3>3
  <2>3. k = n + 1 \/ k \in 1..n
    OBVIOUS
  <2> QED
    BY <2>1, <2>2, <2>3
<1>4. g[0] = <<>>
  BY <1>1 DEF FirstFrames
<1> QED
  BY <1>1, <1>2, <1>3, <1>4 DEF FirstFrames

(* The first frames depend on nothing but their own chunks.                *)
LEMMA SameFrames ==
  ASSUME NEW f, NEW g, NEW seal, NEW plain, NEW longer,
         NEW n \in Nat, NEW m \in Nat,
         FirstFrames(f, seal, plain, n), FirstFrames(g, seal, longer, m),
         n <= m,
         \A k \in 0..(n - 1) : Chunk(plain, k) = Chunk(longer, k)
  PROVE  \A k \in 0..n : f[k] = g[k]
<1> DEFINE T == {k \in Nat : k <= n => f[k] = g[k]}
<1>1. 0 \in T
  BY DEF FirstFrames
<1>2. ASSUME NEW k \in Nat, k \in T PROVE k + 1 \in T
  <2> SUFFICES ASSUME k + 1 <= n PROVE f[k + 1] = g[k + 1]
    OBVIOUS
  <2>1. /\ k + 1 \in 1..n /\ k + 1 \in 1..m /\ k \in 0..(n - 1)
        /\ (k + 1) - 1 = k /\ f[k] = g[k]
    BY <1>2
  <2>2. f[k + 1] = f[k] \o SealedFrame(seal, k, Chunk(plain, k))
    BY <2>1 DEF FirstFrames
  <2>3. g[k + 1] = g[k] \o SealedFrame(seal, k, Chunk(longer, k))
    BY <2>1 DEF FirstFrames
  <2> QED
    BY <2>1, <2>2, <2>3
<1> HIDE DEF T
<1>3. Nat \subseteq T
  BY <1>1, <1>2, NumberInduction
<1> QED
  BY <1>3 DEF T

(* The payload of a plaintext is its first FrameCount frames.              *)
LEMMA PayloadFrames ==
  ASSUME NEW seal, NEW plain,
         FrameCount(seal.commitment.version, plain) \in Nat
  PROVE  \E f : LET count == FrameCount(seal.commitment.version, plain)
                IN  /\ FirstFrames(f, seal, plain, count)
                    /\ PayloadOf(seal, plain) = f[count]
<1> DEFINE count == FrameCount(seal.commitment.version, plain)
           T == {n \in Nat : \E f : FirstFrames(f, seal, plain, n)}
           upTo[k \in 0..count] ==
             IF k = 0 THEN <<>>
             ELSE upTo[k - 1] \o SealedFrame(seal, k - 1, Chunk(plain, k - 1))
<1>1. 0 \in T
  <2>1. FirstFrames([k \in 0..0 |-> <<>>], seal, plain, 0)
    BY DEF FirstFrames
  <2> QED
    BY <2>1
<1>2. ASSUME NEW n \in Nat, n \in T PROVE n + 1 \in T
  BY <1>2, NextFrame
<1>3. Nat \subseteq T
  <2> HIDE DEF T
  <2> QED
    BY <1>1, <1>2, NumberInduction
<1>4. PICK f : FirstFrames(f, seal, plain, count)
  BY <1>3
<1> HIDE DEF count
<1>5. f = [k \in 0..count |->
             IF k = 0 THEN <<>>
             ELSE f[k - 1] \o SealedFrame(seal, k - 1, Chunk(plain, k - 1))]
  <2>1. \A k \in 0..count : k # 0 => k \in 1..count
    BY DEF count
  <2> QED
    BY <1>4, <2>1 DEF FirstFrames
<1>6. upTo = [k \in 0..count |->
                IF k = 0 THEN <<>>
                ELSE upTo[k - 1] \o SealedFrame(seal, k - 1, Chunk(plain, k - 1))]
  BY <1>5
<1>7. FirstFrames(upTo, seal, plain, count)
  <2> HIDE DEF upTo
  <2>1. 0 \in 0..count /\ \A k \in 1..count : k \in 0..count /\ k # 0
    BY DEF count
  <2> QED
    BY <1>6, <2>1 DEF FirstFrames
<1>8. PayloadOf(seal, plain) = upTo[count]
  BY DEF PayloadOf, count
<1> QED
  BY <1>7, <1>8 DEF count

LEMMA Multiples ==
  ASSUME NEW a \in Nat, NEW b \in Nat, NEW c \in Nat, a <= b
  PROVE  a * c <= b * c
<1>1. PICK d \in Nat : b = a + d
  <2>1. b - a \in Nat /\ b = a + (b - a)
    OBVIOUS
  <2> QED
    BY <2>1
<1>2. b * c = a * c + d * c /\ a * c \in Nat /\ d * c \in Nat
  BY <1>1
<1> QED
  BY <1>2

LEMMA Division ==
  ASSUME NEW a \in Nat, NEW b \in Nat, b > 0, NEW q \in Nat,
         q * b <= a, a < q * b + b
  PROVE  a \div b = q
<1> DEFINE d == a \div b
           r == a % b
<1>1. d \in Int /\ r \in 0..(b - 1) /\ a = d * b + r
  OBVIOUS
<1> HIDE DEF d, r
<1>2. CASE d > q
  <2>1. d * b >= (q + 1) * b
    BY <1>1, <1>2
  <2>2. (q + 1) * b = q * b + b
    OBVIOUS
  <2> QED
    BY <1>1, <2>1, <2>2
<1>3. CASE d < q
  <2>1. q * b >= (d + 1) * b
    BY <1>1, <1>3
  <2>2. (d + 1) * b = d * b + b
    BY <1>1
  <2> QED
    BY <1>1, <2>1, <2>2
<1> QED
  BY <1>1, <1>2, <1>3 DEF d

(* A plaintext that fills n - 1 chunks and begins or fills the nth has n   *)
(* frames.                                                                 *)
LEMMA FrameCountIs ==
  ASSUME NEW version, NEW plain \in Seq(Byte), NEW n \in Nat, n > 0,
         (n - 1) * CHUNK_SIZE < Len(plain), Len(plain) <= n * CHUNK_SIZE
  PROVE  FrameCount(version, plain) = n
<1>1. CHUNK_SIZE \in Nat /\ CHUNK_SIZE > 0
  BY FormatAssumption
<1>2. Len(plain) \in Nat
  BY LenProperties
<1>3. (n - 1) * CHUNK_SIZE = n * CHUNK_SIZE - CHUNK_SIZE
      /\ n * CHUNK_SIZE \in Nat /\ (n - 1) * CHUNK_SIZE \in Nat
  BY <1>1
<1>4. plain # <<>>
  <2>1. Len(plain) > 0
    BY <1>2, <1>3
  <2> QED
    BY <2>1
<1> DEFINE a == Len(plain) + CHUNK_SIZE - 1
<1>5. a \in Nat /\ n * CHUNK_SIZE <= a /\ a < n * CHUNK_SIZE + CHUNK_SIZE
  BY <1>1, <1>2, <1>3
<1>6. a \div CHUNK_SIZE = n
  <2> HIDE DEF a
  <2> QED
    BY <1>1, <1>5, Division
<1> QED
  BY <1>4, <1>6 DEF FrameCount

(* A full chunk stays the same when the plaintext grows.                   *)
LEMMA ChunkStays ==
  ASSUME NEW plain \in Seq(Byte), NEW more \in Seq(Byte), NEW k \in Nat,
         (k + 1) * CHUNK_SIZE <= Len(plain)
  PROVE  Chunk(plain \o more, k) = Chunk(plain, k)
<1> DEFINE from == k * CHUNK_SIZE + 1
           to == (k + 1) * CHUNK_SIZE
           longer == plain \o more
<1>1. /\ Len(plain) \in Nat /\ Len(more) \in Nat
      /\ longer \in Seq(Byte) /\ Len(longer) = Len(plain) + Len(more)
  BY LenProperties, ConcatProperties
<1>2. /\ CHUNK_SIZE \in Nat /\ CHUNK_SIZE > 0
      /\ k * CHUNK_SIZE \in Nat
      /\ (k + 1) * CHUNK_SIZE = k * CHUNK_SIZE + CHUNK_SIZE
  BY FormatAssumption
<1>3. to \in 1..Len(plain) /\ from \in 1..Len(plain)
  BY <1>1, <1>2
<1>4. Chunk(plain, k) = SubSeq(plain, from, to)
  BY <1>1, <1>3 DEF Chunk, Smaller
<1> HIDE DEF to, from
<1>5. Smaller(to, Len(longer)) = to
  BY <1>1, <1>3 DEF Smaller
<1>6. Chunk(longer, k) = SubSeq(longer, from, to)
  BY <1>5 DEF Chunk, to, from
<1>7. SubSeq(plain \o more, from, to) = SubSeq(plain, from, to)
  BY <1>3, SubSeqOfConcat1
<1> QED
  BY <1>4, <1>6, <1>7

(* What is put behind full chunks is a chunk itself.                       *)
LEMMA ChunkAtEnd ==
  ASSUME NEW plain \in Seq(Byte), NEW more \in Seq(Byte), NEW k \in Nat,
         k * CHUNK_SIZE = Len(plain), Len(more) <= CHUNK_SIZE
  PROVE  Chunk(plain \o more, k) = more
<1> DEFINE longer == plain \o more
<1>1. /\ Len(plain) \in Nat /\ Len(more) \in Nat
      /\ longer \in Seq(Byte) /\ Len(longer) = Len(plain) + Len(more)
  BY LenProperties, ConcatProperties
<1>2. /\ CHUNK_SIZE \in Nat
      /\ (k + 1) * CHUNK_SIZE = k * CHUNK_SIZE + CHUNK_SIZE
  BY FormatAssumption
<1>3. Smaller((k + 1) * CHUNK_SIZE, Len(longer)) = Len(longer)
  BY <1>1, <1>2 DEF Smaller
<1>4. Chunk(longer, k) = SubSeq(longer, Len(plain) + 1, Len(plain) + Len(more))
  BY <1>1, <1>3 DEF Chunk
<1>5. CASE Len(more) = 0
  <2>1. more = <<>>
    BY <1>5, EmptySeq
  <2>2. SubSeq(longer, Len(plain) + 1, Len(plain) + Len(more)) = <<>>
    <3>1. /\ Len(plain) + 1 \in Int /\ Len(plain) + Len(more) \in Int
          /\ Len(plain) + Len(more) < Len(plain) + 1
      BY <1>1, <1>5
    <3> HIDE DEF longer
    <3> QED
      BY <3>1, SubSeqEmpty
  <2> QED
    BY <1>4, <2>1, <2>2
<1>6. CASE Len(more) # 0
  <2> DEFINE m == Len(plain) + 1
             n == Len(plain) + Len(more)
  <2>1. /\ m \in Len(plain) + 1 .. Len(plain) + Len(more)
        /\ n \in Len(plain) + 1 .. Len(plain) + Len(more)
        /\ m - Len(plain) = 1 /\ n - Len(plain) = Len(more)
    BY <1>1, <1>6
  <2> HIDE DEF m, n
  <2>2. SubSeq(plain \o more, m, n)
          = SubSeq(more, m - Len(plain), n - Len(plain))
    BY <2>1, SubSeqOfConcat2
  <2>3. SubSeq(more, 1, Len(more)) = more
    BY SubSeqFull
  <2> QED
    BY <1>4, <2>1, <2>2, <2>3 DEF m, n
<1> QED
  BY <1>5, <1>6

LEMMA EmptyChunk == Chunk(<<>>, 0) = <<>>
<1>1. CHUNK_SIZE \in Nat /\ 0 * CHUNK_SIZE = 0 /\ (0 + 1) * CHUNK_SIZE = CHUNK_SIZE
  BY FormatAssumption
<1>2. Smaller((0 + 1) * CHUNK_SIZE, Len(<<>>)) = 0
  BY <1>1, EmptySeq DEF Smaller
<1>3. SubSeq(<<>>, 1, 0) = <<>>
  BY SubSeqEmpty
<1> QED
  BY <1>1, <1>2, <1>3 DEF Chunk
-----------------------------------------------------------------------------

Reading == {"read", "seal", "write"}

(* The chunks in memory are the next ones behind those already written,    *)
(* and all but the last chunk of the file are full.                        *)
Chunked ==
  /\ pc \in {"start", "stat", "envelope"} =>
       /\ bytesRead = <<>> /\ batch = <<>> /\ sealed = {}
       /\ idx = 0 /\ written = 0 /\ payload = <<>>
  /\ pc \in {"read", "seal"} => written = 0
  /\ pc = "read" =>
       /\ sealed = {} /\ Len(batch) < BATCH_CHUNKS
       /\ Len(bytesRead) = (idx + Len(batch)) * CHUNK_SIZE
  /\ pc \in {"seal", "write"} =>
       /\ batch # <<>>
       /\ \/ bytesRead = <<>> /\ idx + Len(batch) = 1
          \/ /\ (idx + Len(batch) - 1) * CHUNK_SIZE < Len(bytesRead)
             /\ Len(bytesRead) <= (idx + Len(batch)) * CHUNK_SIZE
  /\ pc \in Reading =>
       \A j \in 1..Len(batch) : batch[j] = Chunk(bytesRead, idx + j - 1)
  /\ Streamed =>
       written = 0 /\ idx = FrameCount(CURRENT_VERSION, bytesRead)

(* The temporary file holds the first frames of what was read.             *)
FramesWritten ==
  pc \in Reading \/ Streamed =>
    \E f : /\ FirstFrames(f, Seal, bytesRead, idx + written)
           /\ payload = f[idx + written]

(* While nobody changes the source, what was read is its beginning, and a  *)
(* short batch means that its end was reached.                             *)
SourceRead ==
  pc \notin {"start", "error", "crashed"} /\ edits = editsAtStat =>
    /\ plaintext_len = Len(source)
    /\ Len(bytesRead) <= Len(source)
    /\ bytesRead = SubSeq(source, 1, Len(bytesRead))
    /\ (pc \in {"seal", "write"} /\ ShortBatch) \/ Streamed =>
         Len(bytesRead) = Len(source)

EInv == TypeOK /\ Chunked /\ FramesWritten /\ SourceRead
-----------------------------------------------------------------------------
LEMMA InitInv == Init => EInv
<1> SUFFICES ASSUME Init PROVE EInv
  OBVIOUS
<1>1. TypeOK
  <2>1. /\ source \in Seq(Byte) /\ MaxEdits \in Nat /\ BATCH_CHUNKS \in Nat
    BY SourceAssumption, FormatAssumption DEF Init
  <2>2. <<>> \in Seq(Byte) /\ <<>> \in Seq(Seq(Byte)) /\ Len(<<>>) = 0
    BY EmptySeq
  <2>3. /\ bytesRead \in Seq(Byte) /\ batch \in Seq(Seq(Byte)) /\ Len(batch) = 0
        /\ edits \in 0..MaxEdits /\ editsAtStat \in 0..edits
    BY <2>1, <2>2 DEF Init
  <2>4. /\ Len(batch) <= BATCH_CHUNKS /\ sealed \subseteq 1..Len(batch)
        /\ written \in 0..Len(batch) /\ idx \in Nat /\ plaintext_len \in Nat
    BY <2>1, <2>3, FormatAssumption DEF Init
  <2> QED
    BY <2>1, <2>3, <2>4 DEF Init, OutputInit, TypeOK
<1>2. Chunked /\ FramesWritten /\ SourceRead
  BY DEF Init, OutputInit, Chunked, FramesWritten, SourceRead, Streamed, Reading
<1> QED
  BY <1>1, <1>2 DEF EInv

(* Steps that leave the stream alone: an end, or on towards one.           *)
LEMMA QuietStep ==
  ASSUME EInv, UNCHANGED <<sourceVars, envelopeVars, streamVars, setting>>,
         temp' \in {"none", "open"}, flushed' \in BOOLEAN, ioFailed' \in BOOLEAN,
         \/ pc' \in {"error", "crashed"}
         \/ pc' = pc
         \/ Streamed /\ pc' \in {"sync", "replace", "syncParent", "ok"}
         \/ pc = "stat" /\ pc' = "envelope"
         \/ pc = "seal" /\ pc' = "write"
  PROVE  EInv'
<1>1. UNCHANGED <<source, edits, editsAtStat, plaintext_len, bytesRead, batch,
                  sealed, written, idx, payload, setting>>
  BY DEF sourceVars, envelopeVars, streamVars
<1>2. /\ Seal' = Seal /\ ShortBatch' = ShortBatch
      /\ \A n : FrameCount(n, bytesRead)' = FrameCount(n, bytesRead)
  BY <1>1 DEF Seal, ShortBatch
<1>3. TypeOK'
  BY <1>1 DEF EInv, TypeOK, Final, Streamed
<1>4. Chunked'
  BY <1>1 DEF EInv, Chunked, Streamed, Reading
<1>5. FramesWritten'
  BY <1>1, <1>2 DEF EInv, FramesWritten, Streamed, Reading
<1>6. SourceRead'
  BY <1>1, <1>2 DEF EInv, SourceRead, Streamed
<1> QED
  BY <1>3, <1>4, <1>5, <1>6 DEF EInv

LEMMA StatInv == EInv /\ Stat => EInv'
<1> SUFFICES ASSUME EInv, Stat PROVE EInv'
  OBVIOUS
<1>1. /\ pc = "start" /\ pc' = "stat"
      /\ plaintext_len' = Len(source) /\ editsAtStat' = edits
      /\ UNCHANGED <<temp, flushed, ioFailed, setting, source, edits,
                     bytesRead, batch, sealed, written, idx, payload>>
  BY DEF Stat, Goto, sourceVars, streamVars
<1>2. Len(source) \in Nat /\ edits \in 0..edits
  BY LenProperties, SourceAssumption DEF EInv, TypeOK
<1>3. TypeOK'
  BY <1>1, <1>2 DEF EInv, TypeOK
<1>4. Chunked' /\ FramesWritten'
  BY <1>1 DEF EInv, Chunked, FramesWritten, Streamed, Reading
<1>5. SourceRead'
  <2>1. bytesRead = <<>> /\ Len(bytesRead) = 0
    BY <1>1, EmptySeq DEF EInv, Chunked
  <2>2. SubSeq(source, 1, 0) = <<>>
    BY SubSeqEmpty
  <2> QED
    BY <1>1, <1>2, <2>1, <2>2 DEF SourceRead, Streamed
<1> QED
  BY <1>3, <1>4, <1>5 DEF EInv

LEMMA WriteEnvelopeInv == EInv /\ WriteEnvelope => EInv'
<1> SUFFICES ASSUME EInv, WriteEnvelope PROVE EInv'
  OBVIOUS
<1>1. /\ pc = "envelope" /\ pc' = "read" /\ temp' = "open"
      /\ UNCHANGED <<flushed, ioFailed, setting, source, edits, editsAtStat,
                     plaintext_len, bytesRead, batch, sealed, written, idx,
                     payload>>
  BY DEF WriteEnvelope, CreateTemp, sourceVars, envelopeVars, streamVars
<1>2. /\ bytesRead = <<>> /\ batch = <<>> /\ sealed = {} /\ idx = 0
      /\ written = 0 /\ payload = <<>> /\ Len(<<>>) = 0
  BY <1>1, EmptySeq DEF EInv, Chunked
<1>3. TypeOK'
  BY <1>1 DEF EInv, TypeOK
<1>4. Chunked'
  BY <1>1, <1>2, FormatAssumption DEF Chunked, Streamed, Reading
<1>5. FramesWritten'
  <2> PICK f : f = [k \in 0..0 |-> <<>>]
    OBVIOUS
  <2>1. FirstFrames(f, Seal, bytesRead, 0) /\ f[0] = <<>>
    BY DEF FirstFrames
  <2>2. Seal' = Seal /\ idx + written = 0
    BY <1>1, <1>2 DEF Seal
  <2> QED
    BY <1>1, <1>2, <2>1, <2>2 DEF FramesWritten
<1>6. SourceRead'
  BY <1>1 DEF EInv, SourceRead, Streamed
<1> QED
  BY <1>3, <1>4, <1>5, <1>6 DEF EInv

LEMMA ReadChunkInv == EInv /\ ReadChunk => EInv'
<1> SUFFICES ASSUME EInv, ReadChunk PROVE EInv'
  OBVIOUS
<1> DEFINE from == Len(bytesRead)
           to == Smaller(from + CHUNK_SIZE, Len(source))
           more == NextChunk
           n == Len(batch)
<1>1. /\ pc = "read" /\ more # <<>>
      /\ batch' = Append(batch, more) /\ bytesRead' = bytesRead \o more
      /\ pc' = (IF Len(more) < CHUNK_SIZE \/ n + 1 = BATCH_CHUNKS
                THEN "seal" ELSE "read")
      /\ UNCHANGED <<path, disk, temp, flushed, ioFailed, setting, source, edits,
                     editsAtStat, plaintext_len, sealed, written, idx, payload>>
  BY DEF ReadChunk, Goto, sourceVars, envelopeVars
<1>2. /\ source \in Seq(Byte) /\ Len(source) \in Nat
      /\ bytesRead \in Seq(Byte) /\ from \in Nat
      /\ batch \in Seq(Seq(Byte)) /\ n \in Nat /\ idx \in Nat
      /\ CHUNK_SIZE \in Nat /\ CHUNK_SIZE > 0 /\ BATCH_CHUNKS \in Nat
  BY LenProperties, FormatAssumption DEF EInv, TypeOK
<1>3. /\ sealed = {} /\ written = 0 /\ n < BATCH_CHUNKS
      /\ from = (idx + n) * CHUNK_SIZE
      /\ \A j \in 1..n : batch[j] = Chunk(bytesRead, idx + j - 1)
  BY <1>1 DEF EInv, Chunked, Reading
<1>4. from < Len(source) /\ more = SubSeq(source, from + 1, to)
  <2>1. NextChunk = IF from >= Len(source) THEN <<>>
                    ELSE SubSeq(source, from + 1, to)
    BY DEF NextChunk
  <2> HIDE DEF from, to, more
  <2>2. ~(from >= Len(source)) /\ more = SubSeq(source, from + 1, to)
    BY <1>1, <2>1 DEF more
  <2> QED
    BY <1>2, <2>2
<1>5. to \in from + 1 .. Len(source) /\ to <= from + CHUNK_SIZE
  BY <1>2, <1>4 DEF Smaller
<1>6. more \in Seq(Byte) /\ Len(more) = to - from
  <2>1. from + 1 \in Int /\ to \in Int /\ from + 1 <= to
    BY <1>2, <1>5
  <2>2. \A i \in from + 1 .. to : source[i] \in Byte
    BY <1>2, <1>5, ElementOfSeq
  <2>3. SubSeq(source, from + 1, to) \in Seq(Byte)
        /\ Len(SubSeq(source, from + 1, to)) = to - (from + 1) + 1
    <3> HIDE DEF from, to
    <3> QED
      BY <2>1, <2>2, SubSeqProperties
  <2> QED
    BY <1>2, <1>4, <1>5, <2>3
<1>7. Len(more) \in 1..CHUNK_SIZE
  BY <1>2, <1>5, <1>6
<1>8. /\ bytesRead' \in Seq(Byte) /\ Len(bytesRead') = from + Len(more)
      /\ Len(bytesRead') = to
  <2>1. /\ bytesRead \o more \in Seq(Byte)
        /\ Len(bytesRead \o more) = from + Len(more)
    BY <1>2, <1>6, ConcatProperties
  <2> QED
    BY <1>1, <1>2, <1>5, <1>6, <2>1
<1>9. /\ batch' \in Seq(Seq(Byte)) /\ Len(batch') = n + 1
      /\ batch'[n + 1] = more /\ \A j \in 1..n : batch'[j] = batch[j]
  <2>1. /\ Append(batch, more) \in Seq(Seq(Byte)) /\ Len(Append(batch, more)) = n + 1
        /\ Append(batch, more)[n + 1] = more
        /\ \A j \in 1..n : Append(batch, more)[j] = batch[j]
    <3> HIDE DEF more
    <3> QED
      BY <1>2, <1>6, AppendProperties
  <2> QED
    BY <1>1, <2>1
<1> HIDE DEF more, to
<1>10. \A k \in 0..(idx + n - 1) : Chunk(bytesRead', k) = Chunk(bytesRead, k)
  <2> TAKE k \in 0..(idx + n - 1)
  <2>1. k \in Nat /\ k + 1 \in Nat /\ idx + n \in Nat /\ k + 1 <= idx + n
    BY <1>2
  <2>3. (k + 1) * CHUNK_SIZE <= from
    BY <1>2, <1>3, <2>1, Multiples
  <2>2. Chunk(bytesRead \o more, k) = Chunk(bytesRead, k)
    BY <1>2, <1>6, <2>1, <2>3, ChunkStays
  <2> QED
    BY <1>1, <2>2
<1>11. Chunk(bytesRead', idx + n) = more
  <2>1. idx + n \in Nat /\ Len(more) <= CHUNK_SIZE
    BY <1>2, <1>7
  <2>2. Chunk(bytesRead \o more, idx + n) = more
    BY <1>2, <1>3, <1>6, <2>1, ChunkAtEnd
  <2> QED
    BY <1>1, <2>2
<1>12. TypeOK'
  <2>1. pc' \in {"read", "seal"}
    BY <1>1
  <2>2. sealed' \subseteq 1..Len(batch') /\ written' \in 0..Len(batch')
        /\ Len(batch') <= BATCH_CHUNKS
    BY <1>1, <1>2, <1>3, <1>9
  <2> QED
    BY <1>1, <1>8, <1>9, <2>1, <2>2 DEF EInv, TypeOK
<1>13. Chunked'
  <2>1. pc' \in {"read", "seal"} /\ written' = 0 /\ sealed' = {}
    BY <1>1, <1>3
  <2>2. pc' = "read" =>
          /\ Len(batch') < BATCH_CHUNKS
          /\ Len(bytesRead') = (idx' + Len(batch')) * CHUNK_SIZE
    <3> SUFFICES ASSUME pc' = "read"
                 PROVE  /\ Len(batch') < BATCH_CHUNKS
                        /\ Len(bytesRead') = (idx' + Len(batch')) * CHUNK_SIZE
      OBVIOUS
    <3>1. ~(Len(more) < CHUNK_SIZE) /\ n + 1 # BATCH_CHUNKS
      BY <1>1
    <3>2. Len(more) = CHUNK_SIZE
      BY <1>2, <1>7, <3>1
    <3>3. (idx + (n + 1)) * CHUNK_SIZE = (idx + n) * CHUNK_SIZE + CHUNK_SIZE
      BY <1>2
    <3> QED
      BY <1>1, <1>2, <1>3, <1>8, <1>9, <3>1, <3>2, <3>3
  <2>3. /\ batch' # <<>>
        /\ (idx' + Len(batch') - 1) * CHUNK_SIZE < Len(bytesRead')
        /\ Len(bytesRead') <= (idx' + Len(batch')) * CHUNK_SIZE
    <3>1. (idx + (n + 1)) * CHUNK_SIZE = (idx + n) * CHUNK_SIZE + CHUNK_SIZE
          /\ idx + (n + 1) - 1 = idx + n
      BY <1>2
    <3>2. from < from + Len(more) /\ from + Len(more) <= from + CHUNK_SIZE
      BY <1>2, <1>7
    <3>3. batch' # <<>>
      BY <1>2, <1>9, EmptySeq
    <3> QED
      BY <1>1, <1>3, <1>8, <1>9, <3>1, <3>2, <3>3
  <2>4. \A j \in 1..Len(batch') : batch'[j] = Chunk(bytesRead', idx' + j - 1)
    <3> SUFFICES ASSUME NEW j \in 1..(n + 1)
                 PROVE  batch'[j] = Chunk(bytesRead', idx + j - 1)
      BY <1>1, <1>9
    <3>1. CASE j = n + 1
      <4>1. idx + j - 1 = idx + n
        BY <1>2, <3>1
      <4> QED
        BY <1>9, <1>11, <3>1, <4>1
    <3>2. CASE j \in 1..n
      <4>1. idx + j - 1 \in 0..(idx + n - 1)
        BY <1>2, <3>2
      <4>2. Chunk(bytesRead', idx + j - 1) = Chunk(bytesRead, idx + j - 1)
        BY <1>10, <4>1
      <4> QED
        BY <1>3, <1>9, <3>2, <4>2
    <3>3. j = n + 1 \/ j \in 1..n
      BY <1>2
    <3> QED
      BY <3>1, <3>2, <3>3
  <2> HIDE DEF n, from
  <2> QED
    BY <2>1, <2>2, <2>3, <2>4 DEF Chunked, Streamed, Reading
<1>14. FramesWritten'
  <2>1. PICK f : FirstFrames(f, Seal, bytesRead, idx + written)
                 /\ payload = f[idx + written]
    BY <1>1 DEF EInv, FramesWritten, Reading
  <2>2. FirstFrames(f, Seal, bytesRead', idx)
    <3>1. \A k \in 1..idx :
            f[k] = f[k - 1] \o SealedFrame(Seal, k - 1, Chunk(bytesRead', k - 1))
      <4> TAKE k \in 1..idx
      <4>1. k - 1 \in 0..(idx + n - 1) /\ k \in 1..(idx + written)
        BY <1>2, <1>3
      <4>2. Chunk(bytesRead', k - 1) = Chunk(bytesRead, k - 1)
        BY <1>10, <4>1
      <4> QED
        BY <2>1, <4>1, <4>2 DEF FirstFrames
    <3>2. idx + written = idx
      BY <1>2, <1>3
    <3> QED
      BY <2>1, <3>1, <3>2 DEF FirstFrames
  <2>3. Seal' = Seal /\ idx' + written' = idx /\ payload' = f[idx]
    BY <1>1, <1>2, <1>3, <2>1 DEF Seal
  <2> QED
    BY <2>2, <2>3 DEF FramesWritten
<1>15. SourceRead'
  <2> SUFFICES ASSUME edits = editsAtStat
               PROVE  /\ plaintext_len = Len(source)
                      /\ Len(bytesRead') <= Len(source)
                      /\ bytesRead' = SubSeq(source, 1, Len(bytesRead'))
                      /\ ShortBatch' /\ pc' = "seal" =>
                           Len(bytesRead') = Len(source)
    BY <1>1 DEF SourceRead, Streamed
  <2>1. plaintext_len = Len(source) /\ bytesRead = SubSeq(source, 1, from)
    BY <1>1 DEF EInv, SourceRead
  <2>2. bytesRead' = SubSeq(source, 1, to)
    <3>1. 1 \in 1..Len(source) + 1 /\ from \in 1 - 1 .. Len(source)
          /\ to \in from .. Len(source)
      BY <1>2, <1>4, <1>5
    <3> HIDE DEF from
    <3>2. SubSeq(source, 1, from) \o SubSeq(source, from + 1, to)
            = SubSeq(source, 1, to)
      BY <1>2, <3>1, ConcatAdjacentSubSeq
    <3> QED
      BY <1>1, <1>4, <2>1, <3>2
  <2>3. ASSUME ShortBatch', pc' = "seal" PROVE to = Len(source)
    <3>1. n + 1 < BATCH_CHUNKS \/ Len(more) < CHUNK_SIZE
      BY <1>9, <2>3 DEF ShortBatch
    <3>2. Len(more) < CHUNK_SIZE
      BY <1>1, <1>2, <2>3, <3>1
    <3> QED
      BY <1>2, <1>5, <1>6, <3>2 DEF to, Smaller
  <2> QED
    BY <1>5, <1>8, <2>1, <2>2, <2>3
<1> QED
  BY <1>12, <1>13, <1>14, <1>15 DEF EInv

LEMMA ReadEndInv == EInv /\ ReadEnd => EInv'
<1> SUFFICES ASSUME EInv, ReadEnd PROVE EInv'
  OBVIOUS
<1> DEFINE from == Len(bytesRead)
           n == Len(batch)
<1>1. /\ pc = "read" /\ NextChunk = <<>>
      /\ batch' = (IF batch = <<>> /\ idx = 0 THEN << <<>> >> ELSE batch)
      /\ pc' = (IF batch' = <<>> THEN "sync" ELSE "seal")
      /\ UNCHANGED <<path, disk, temp, flushed, ioFailed, setting, source, edits,
                     editsAtStat, plaintext_len, bytesRead, sealed, written, idx,
                     payload>>
  BY DEF ReadEnd, Goto, sourceVars, envelopeVars
<1>2. /\ source \in Seq(Byte) /\ Len(source) \in Nat
      /\ bytesRead \in Seq(Byte) /\ from \in Nat
      /\ batch \in Seq(Seq(Byte)) /\ n \in Nat /\ idx \in Nat
      /\ CHUNK_SIZE \in Nat /\ CHUNK_SIZE > 0
      /\ BATCH_CHUNKS \in Nat /\ BATCH_CHUNKS > 0
  BY LenProperties, FormatAssumption DEF EInv, TypeOK
<1>3. /\ sealed = {} /\ written = 0 /\ n < BATCH_CHUNKS
      /\ from = (idx + n) * CHUNK_SIZE
      /\ \A j \in 1..n : batch[j] = Chunk(bytesRead, idx + j - 1)
  BY <1>1 DEF EInv, Chunked, Reading
<1>4. from >= Len(source)
  <2> SUFFICES ASSUME from < Len(source) PROVE FALSE
    BY <1>2
  <2> DEFINE to == Smaller(from + CHUNK_SIZE, Len(source))
  <2>1. ~(from >= Len(source))
    BY <1>2
  <2>2. NextChunk = IF from >= Len(source) THEN <<>>
                    ELSE SubSeq(source, from + 1, to)
    BY DEF NextChunk
  <2>3. to \in from + 1 .. Len(source)
    BY <1>2, <2>1 DEF Smaller
  <2>4. from \in Int /\ from + 1 \in Int /\ to \in Int /\ from + 1 <= to
    BY <1>2, <2>3
  <2> HIDE DEF to, from
  <2>5. SubSeq(source, from + 1, to) = <<>>
    BY <1>1, <2>1, <2>2
  <2>6. \A i \in from + 1 .. to : source[i] \in Byte
    BY <1>2, <2>3, ElementOfSeq DEF from
  <2>7. Len(SubSeq(source, from + 1, to)) = to - (from + 1) + 1
    BY <2>4, <2>6, SubSeqProperties
  <2>8. Len(SubSeq(source, from + 1, to)) = 0
    BY <2>5, EmptySeq
  <2>9. to - (from + 1) + 1 > 0
    BY <2>4
  <2> QED
    BY <2>4, <2>7, <2>8, <2>9
<1>5. ASSUME edits = editsAtStat PROVE from = Len(source)
  <2>1. from <= Len(source)
    BY <1>1, <1>5 DEF EInv, SourceRead
  <2> QED
    BY <1>2, <1>4, <2>1
<1>6. Seal' = Seal /\ pc' \in {"seal", "sync"}
  BY <1>1 DEF Seal
<1>7. FramesWritten'
  BY <1>1, <1>6 DEF EInv, FramesWritten, Reading, Streamed
<1>8. SourceRead'
  BY <1>1, <1>5 DEF EInv, SourceRead, Streamed
<1>9. CASE batch = <<>> /\ idx = 0
  <2>1. batch' = << <<>> >> /\ pc' = "seal" /\ n = 0 /\ from = 0
    <3>1. << <<>> >> # <<>>
      OBVIOUS
    <3>2. n = 0
      BY <1>9, EmptySeq
    <3>3. (0 + 0) * CHUNK_SIZE = 0
      BY <1>2
    <3> QED
      BY <1>1, <1>3, <1>9, <3>1, <3>2, <3>3
  <2>2. bytesRead = <<>>
    BY <1>2, <2>1, EmptySeq
  <2>3. batch' \in Seq(Seq(Byte)) /\ Len(batch') = 1 /\ batch'[1] = <<>>
    <3>1. <<>> \in Seq(Byte)
      BY EmptySeq
    <3> QED
      BY <2>1, <3>1
  <2>4. TypeOK'
    <3>1. sealed' \subseteq 1..Len(batch') /\ written' \in 0..Len(batch')
          /\ Len(batch') <= BATCH_CHUNKS
      BY <1>1, <1>2, <1>3, <2>3
    <3> QED
      BY <1>1, <1>2, <2>1, <2>3, <3>1 DEF EInv, TypeOK
  <2>5. Chunked'
    <3>1. \A j \in 1..Len(batch') : batch'[j] = Chunk(bytesRead', idx' + j - 1)
      <4> SUFFICES ASSUME NEW j \in 1..1
                   PROVE  batch'[j] = Chunk(bytesRead', idx' + j - 1)
        BY <2>3
      <4>1. j = 1 /\ idx' + j - 1 = 0
        BY <1>1, <1>9
      <4> QED
        BY <1>1, <2>2, <2>3, <4>1, EmptyChunk
    <3>2. bytesRead' = <<>> /\ idx' + Len(batch') = 1 /\ batch' # <<>>
      BY <1>1, <1>9, <2>1, <2>2, <2>3
    <3>3. written' = 0
      BY <1>1, <1>3
    <3> QED
      BY <2>1, <3>1, <3>2, <3>3 DEF Chunked, Streamed, Reading
  <2> QED
    BY <1>7, <1>8, <2>4, <2>5 DEF EInv
<1>10. CASE batch = <<>> /\ idx # 0
  <2>1. batch' = batch /\ pc' = "sync" /\ n = 0
    BY <1>1, <1>10, EmptySeq
  <2>2. TypeOK'
    BY <1>1, <2>1 DEF EInv, TypeOK
  <2>3. FrameCount(CURRENT_VERSION, bytesRead) = idx
    <3>1. idx > 0 /\ idx - 1 \in Nat /\ from = idx * CHUNK_SIZE
      BY <1>2, <1>3, <1>10, <2>1
    <3>2. (idx - 1) * CHUNK_SIZE = idx * CHUNK_SIZE - CHUNK_SIZE
          /\ idx * CHUNK_SIZE \in Nat
      BY <1>2, <3>1
    <3>3. (idx - 1) * CHUNK_SIZE < from /\ from <= idx * CHUNK_SIZE
      BY <1>2, <3>1, <3>2
    <3> QED
      BY <1>2, <3>1, <3>3, FrameCountIs
  <2>4. Chunked'
    BY <1>1, <1>3, <2>1, <2>3 DEF Chunked, Streamed, Reading
  <2> QED
    BY <1>7, <1>8, <2>2, <2>4 DEF EInv
<1>11. CASE batch # <<>>
  <2>1. batch' = batch /\ pc' = "seal"
    BY <1>1, <1>11
  <2>2. TypeOK'
    BY <1>1, <2>1 DEF EInv, TypeOK
  <2>3. (idx + n - 1) * CHUNK_SIZE < from /\ from <= (idx + n) * CHUNK_SIZE
    <3>1. (idx + n - 1) * CHUNK_SIZE = (idx + n) * CHUNK_SIZE - CHUNK_SIZE
      BY <1>2
    <3> QED
      BY <1>2, <1>3, <3>1
  <2>4. Chunked'
    BY <1>1, <1>3, <1>11, <2>1, <2>3 DEF Chunked, Streamed, Reading
  <2> QED
    BY <1>7, <1>8, <2>2, <2>4 DEF EInv
<1> QED
  BY <1>9, <1>10, <1>11

LEMMA SealChunkInv == ASSUME NEW i, EInv, SealChunk(i) PROVE EInv'
<1>1. /\ pc = "seal" /\ i \in DOMAIN batch /\ sealed' = sealed \cup {i}
      /\ UNCHANGED <<pc, path, disk, temp, flushed, ioFailed, setting, source,
                     edits, editsAtStat, plaintext_len, bytesRead, batch, written,
                     idx, payload>>
  BY DEF SealChunk, outputVars, sourceVars, envelopeVars
<1>2. Seal' = Seal /\ ShortBatch' = ShortBatch
  BY <1>1 DEF Seal, ShortBatch
<1>3. i \in 1..Len(batch)
  BY <1>1, LenProperties DEF EInv, TypeOK
<1>4. TypeOK'
  BY <1>1, <1>3 DEF EInv, TypeOK
<1>5. Chunked'
  BY <1>1 DEF EInv, Chunked, Streamed, Reading
<1>6. FramesWritten'
  BY <1>1, <1>2 DEF EInv, FramesWritten, Streamed, Reading
<1>7. SourceRead'
  BY <1>1, <1>2 DEF EInv, SourceRead, Streamed
<1> QED
  BY <1>4, <1>5, <1>6, <1>7 DEF EInv

LEMMA WriteFrameInv == EInv /\ WriteFrame => EInv'
<1> SUFFICES ASSUME EInv, WriteFrame PROVE EInv'
  OBVIOUS
<1>1. /\ pc = "write" /\ written < Len(batch) /\ written' = written + 1
      /\ payload' = payload \o SealedFrame(Seal, idx + written, batch[written + 1])
      /\ UNCHANGED <<pc, path, disk, temp, flushed, ioFailed, setting, source,
                     edits, editsAtStat, plaintext_len, bytesRead, batch, sealed,
                     idx>>
  BY DEF WriteFrame, outputVars, sourceVars, envelopeVars
<1>2. /\ Seal' = Seal /\ ShortBatch' = ShortBatch
      /\ idx \in Nat /\ written \in Nat /\ Len(batch) \in Nat
  BY <1>1, LenProperties DEF EInv, TypeOK, Seal, ShortBatch
<1>3. TypeOK'
  <2>1. written' \in 0..Len(batch')
    BY <1>1, <1>2
  <2> QED
    BY <1>1, <2>1 DEF EInv, TypeOK
<1>4. Chunked'
  BY <1>1 DEF EInv, Chunked, Streamed, Reading
<1>5. FramesWritten'
  <2>1. PICK f : FirstFrames(f, Seal, bytesRead, idx + written)
                 /\ payload = f[idx + written]
    BY <1>1 DEF EInv, FramesWritten, Reading
  <2>2. batch[written + 1] = Chunk(bytesRead, idx + written)
    <3>1. written + 1 \in 1..Len(batch) /\ idx + (written + 1) - 1 = idx + written
      BY <1>1, <1>2
    <3> QED
      BY <1>1, <3>1 DEF EInv, Chunked, Reading
  <2>3. idx + written \in Nat /\ (idx + written) + 1 = idx + (written + 1)
    BY <1>2
  <2>4. \E g : /\ FirstFrames(g, Seal, bytesRead, (idx + written) + 1)
               /\ g[(idx + written) + 1] =
                    f[idx + written] \o SealedFrame(Seal, idx + written,
                                            Chunk(bytesRead, idx + written))
    BY <2>1, <2>3, NextFrame
  <2>5. \E g : /\ FirstFrames(g, Seal, bytesRead, idx + (written + 1))
               /\ payload' = g[idx + (written + 1)]
    BY <1>1, <2>1, <2>2, <2>3, <2>4
  <2> QED
    BY <1>1, <1>2, <2>5 DEF FramesWritten
<1>6. SourceRead'
  BY <1>1, <1>2 DEF EInv, SourceRead, Streamed
<1> QED
  BY <1>3, <1>4, <1>5, <1>6 DEF EInv

LEMMA EndBatchInv == EInv /\ EndBatch => EInv'
<1> SUFFICES ASSUME EInv, EndBatch PROVE EInv'
  OBVIOUS
<1> DEFINE size == Len(bytesRead)
           n == Len(batch)
           last == idx + n - 1
<1>1. /\ pc = "write" /\ written = n /\ idx' = idx + n
      /\ batch' = <<>> /\ sealed' = {} /\ written' = 0
      /\ pc' = (IF ShortBatch THEN "sync" ELSE "read")
      /\ UNCHANGED <<path, disk, temp, flushed, ioFailed, setting, source, edits,
                     editsAtStat, plaintext_len, bytesRead, payload>>
  BY DEF EndBatch, Goto, sourceVars, envelopeVars
<1>2. /\ bytesRead \in Seq(Byte) /\ size \in Nat
      /\ batch \in Seq(Seq(Byte)) /\ n \in Nat /\ idx \in Nat
      /\ CHUNK_SIZE \in Nat /\ CHUNK_SIZE > 0
      /\ BATCH_CHUNKS \in Nat /\ BATCH_CHUNKS > 0 /\ n <= BATCH_CHUNKS
  BY LenProperties, FormatAssumption DEF EInv, TypeOK
<1>3. /\ batch # <<>>
      /\ \A j \in 1..n : batch[j] = Chunk(bytesRead, idx + j - 1)
      /\ \/ bytesRead = <<>> /\ idx + n = 1
         \/ last * CHUNK_SIZE < size /\ size <= (idx + n) * CHUNK_SIZE
  BY <1>1 DEF EInv, Chunked, Reading
<1>4. n > 0 /\ last \in Nat /\ batch[n] = Chunk(bytesRead, last)
  <2>1. n > 0
    BY <1>2, <1>3, EmptySeq
  <2> QED
    BY <1>2, <1>3, <2>1
<1>5. FrameCount(CURRENT_VERSION, bytesRead) = idx + n
  <2>1. CASE bytesRead = <<>> /\ idx + n = 1
    BY <2>1 DEF FrameCount
  <2>2. CASE last * CHUNK_SIZE < size /\ size <= (idx + n) * CHUNK_SIZE
    <3>1. idx + n \in Nat /\ idx + n > 0 /\ (idx + n) - 1 = last
      BY <1>2, <1>4
    <3> HIDE DEF last, n
    <3>2. ((idx + n) - 1) * CHUNK_SIZE < size
      BY <2>2, <3>1
    <3> QED
      BY <1>2, <2>2, <3>1, <3>2, FrameCountIs
  <2> QED
    BY <1>3, <2>1, <2>2
<1>6. ASSUME ~ShortBatch PROVE size = (idx + n) * CHUNK_SIZE
  <2>1. ~(Len(batch[n]) < CHUNK_SIZE)
    BY <1>6 DEF ShortBatch
  <2>2. ~(Len(Chunk(bytesRead, last)) < CHUNK_SIZE)
    BY <1>4, <2>1
  <2>3. CASE bytesRead = <<>> /\ idx + n = 1
    <3>1. last = 0
      BY <1>2, <2>3
    <3>2. Chunk(bytesRead, last) = <<>>
      BY <2>3, <3>1, EmptyChunk
    <3> QED
      BY <1>2, <2>2, <3>2, EmptySeq
  <2>4. CASE last * CHUNK_SIZE < size /\ size <= (idx + n) * CHUNK_SIZE
    <3>8. last + 1 = idx + n
      BY <1>2, <1>4
    <3> HIDE DEF last
    <3>1. (last + 1) * CHUNK_SIZE = last * CHUNK_SIZE + CHUNK_SIZE
          /\ last * CHUNK_SIZE \in Nat /\ last + 1 = idx + n
      BY <1>2, <1>4, <3>8
    <3>2. IsFrameIndex(bytesRead, last)
      BY <1>4, <2>4 DEF IsFrameIndex
    <3>3. /\ Chunk(bytesRead, last) \in Seq(Byte)
          /\ last * CHUNK_SIZE + Len(Chunk(bytesRead, last))
               = Smaller((last + 1) * CHUNK_SIZE, size)
      BY <1>2, <1>4, <3>2, ChunkProperties
    <3>4. Smaller((last + 1) * CHUNK_SIZE, size) <= size
      BY <1>2, <3>1 DEF Smaller
    <3>5. Len(Chunk(bytesRead, last)) \in Nat
      BY <3>3, LenProperties
    <3>6. (last + 1) * CHUNK_SIZE <= size
      BY <1>2, <2>2, <3>1, <3>3, <3>4, <3>5
    <3>7. (idx + n) * CHUNK_SIZE = (last + 1) * CHUNK_SIZE
      BY <3>1
    <3> QED
      BY <1>2, <2>4, <3>1, <3>6, <3>7
  <2> QED
    BY <1>3, <2>3, <2>4
<1>7. Seal' = Seal /\ Len(<<>>) = 0 /\ pc' \in {"sync", "read"}
  BY <1>1, EmptySeq DEF Seal
<1>8. TypeOK'
  <2>1. batch' \in Seq(Seq(Byte)) /\ Len(batch') = 0 /\ idx' \in Nat
    BY <1>1, <1>2, <1>7, EmptySeq
  <2>2. /\ Len(batch') <= BATCH_CHUNKS /\ sealed' \subseteq 1..Len(batch')
        /\ written' \in 0..Len(batch')
    BY <1>1, <1>2, <2>1
  <2> QED
    BY <1>1, <1>7, <2>1, <2>2 DEF EInv, TypeOK
<1>9. Chunked'
  <2>1. CASE ShortBatch
    BY <1>1, <1>5, <2>1 DEF Chunked, Streamed, Reading
  <2>2. CASE ~ShortBatch
    <3>1. size = (idx' + Len(batch')) * CHUNK_SIZE
      <4>1. idx' + Len(batch') = idx + n
        BY <1>1, <1>2, <1>7
      <4> QED
        BY <1>6, <2>2, <4>1
    <3>2. Len(batch') = 0
      BY <1>1, <1>7
    <3>3. Len(batch') < BATCH_CHUNKS
          /\ \A j \in 1..Len(batch') :
               batch'[j] = Chunk(bytesRead', idx' + j - 1)
      BY <1>2, <3>2
    <3> HIDE DEF n
    <3> QED
      BY <1>1, <2>2, <3>1, <3>3 DEF Chunked, Streamed, Reading
  <2> QED
    BY <2>1, <2>2
<1>10. FramesWritten'
  <2>1. idx' + written' = idx + written
    BY <1>1, <1>2
  <2> QED
    BY <1>1, <1>7, <2>1 DEF EInv, FramesWritten, Reading
<1>11. SourceRead'
  BY <1>1 DEF EInv, SourceRead, Streamed
<1> QED
  BY <1>8, <1>9, <1>10, <1>11 DEF EInv

LEMMA EditSourceInv == EInv /\ EditSource => EInv'
<1> SUFFICES ASSUME EInv, EditSource PROVE EInv'
  OBVIOUS
<1>1. /\ edits < MaxEdits /\ edits' = edits + 1
      /\ UNCHANGED <<pc, path, disk, temp, flushed, ioFailed, setting,
                     editsAtStat, plaintext_len, bytesRead, batch, sealed,
                     written, idx, payload>>
  BY DEF EditSource, outputVars, envelopeVars, streamVars
<1>2. /\ source \in Seq(Byte) /\ Len(source) \in Nat
      /\ edits \in 0..MaxEdits /\ editsAtStat \in 0..edits /\ MaxEdits \in Nat
  BY LenProperties, SourceAssumption DEF EInv, TypeOK
<1>3. source' \in Seq(Byte)
  <2>1. CASE \E b \in Byte : source' = Append(source, b)
    BY <1>2, <2>1, AppendProperties
  <2>2. CASE \E n \in 0..Len(source) - 1 : source' = SubSeq(source, 1, n)
    <3>1. PICK n \in 0..Len(source) - 1 : source' = SubSeq(source, 1, n)
      BY <2>2
    <3>2. \A i \in 1..n : source[i] \in Byte
      BY <1>2, <3>1, ElementOfSeq
    <3> QED
      BY <1>2, <3>1, <3>2, SubSeqProperties
  <2>3. CASE \E i \in 1..Len(source), b \in Byte :
               source' = [source EXCEPT ![i] = b]
    BY <1>2, <2>3, ExceptSeq
  <2> QED
    BY <2>1, <2>2, <2>3 DEF EditSource
<1>4. edits' \in 0..MaxEdits /\ editsAtStat' \in 0..edits' /\ edits' # editsAtStat'
  BY <1>1, <1>2
<1>5. Seal' = Seal
  BY <1>1 DEF Seal
<1>6. TypeOK'
  BY <1>1, <1>3, <1>4 DEF EInv, TypeOK
<1>7. Chunked'
  BY <1>1 DEF EInv, Chunked, Streamed, Reading
<1>8. FramesWritten'
  BY <1>1, <1>5 DEF EInv, FramesWritten, Streamed, Reading
<1>9. SourceRead'
  BY <1>4 DEF SourceRead
<1> QED
  BY <1>6, <1>7, <1>8, <1>9 DEF EInv

(* Every other step is an end of the operation or one towards it.          *)
LEMMA OtherInv ==
  ASSUME EInv,
         BuildEnvelope \/ BatchSealed \/ Persist \/ StreamIOError \/ Fault
  PROVE  EInv'
<1>1. temp \in {"none", "open"} /\ flushed \in BOOLEAN /\ ioFailed \in BOOLEAN
  BY DEF EInv, TypeOK
<1>2. UNCHANGED <<sourceVars, envelopeVars, streamVars, setting>>
      /\ temp' \in {"none", "open"} /\ flushed' \in BOOLEAN /\ ioFailed' \in BOOLEAN
  BY <1>1 DEF BuildEnvelope, BatchSealed, Persist, StreamIOError, Fault, Goto,
              Reject, IOError, ErrorReturn, SyncTemp, RemoveExisting, Rename,
              SyncParent, ParentNotFound, OutputIOError, Kill, PowerLoss
<1>3. \/ pc' \in {"error", "crashed"}
      \/ pc' = pc
      \/ Streamed /\ pc' \in {"sync", "replace", "syncParent", "ok"}
      \/ pc = "stat" /\ pc' = "envelope"
      \/ pc = "seal" /\ pc' = "write"
  BY DEF BuildEnvelope, BatchSealed, Persist, StreamIOError, Fault, Goto,
         Reject, IOError, ErrorReturn, SyncTemp, RemoveExisting, Rename,
         SyncParent, ParentNotFound, OutputIOError, Kill, PowerLoss, Streamed,
         Final
<1> QED
  BY <1>2, <1>3, QuietStep

LEMMA NextInv == EInv /\ [Next]_vars => EInv'
<1> SUFFICES ASSUME EInv, [Next]_vars PROVE EInv'
  OBVIOUS
<1>1. CASE UNCHANGED vars
  <2>1. UNCHANGED <<sourceVars, envelopeVars, streamVars, pc, temp, flushed,
                    ioFailed, setting>>
    BY <1>1 DEF vars, outputVars
  <2>2. temp' \in {"none", "open"} /\ flushed' \in BOOLEAN /\ ioFailed' \in BOOLEAN
    BY <2>1 DEF EInv, TypeOK
  <2> QED
    BY <2>1, <2>2, QuietStep
<1>2. CASE \E i \in 1..BATCH_CHUNKS : SealChunk(i)
  BY <1>2, SealChunkInv
<1> QED
  BY <1>1, <1>2, StatInv, WriteEnvelopeInv, ReadChunkInv, ReadEndInv,
     WriteFrameInv, EndBatchInv, EditSourceInv, OtherInv DEF Next, Progress

LEMMA Invariance == Spec => []EInv
BY InitInv, NextInv, PTL DEF Spec
-----------------------------------------------------------------------------
(* Every variable keeps its type, whatever happens to the source.          *)
THEOREM TypeCorrect == Spec => []TypeOK
<1>1. EInv => TypeOK
  BY DEF EInv
<1> QED
  BY <1>1, Invariance, PTL

(* The payload written is the canonical one of the bytes that were read:   *)
(* every chunk at its own index, each full but the last, none twice.       *)
THEOREM WritesCanonical == Spec => []CanonicalPayload
<1>1. EInv => CanonicalPayload
  <2> SUFFICES ASSUME EInv, Streamed PROVE payload = PayloadOf(Seal, bytesRead)
    BY DEF CanonicalPayload
  <2> DEFINE count == FrameCount(CURRENT_VERSION, bytesRead)
  <2>1. written = 0 /\ idx = count /\ idx \in Nat
    BY DEF EInv, TypeOK, Chunked
  <2>2. Seal.commitment.version = CURRENT_VERSION
    BY DEF Seal, Commitment
  <2>3. PICK f : FirstFrames(f, Seal, bytesRead, idx + written)
                 /\ payload = f[idx + written]
    BY DEF EInv, FramesWritten
  <2>4. FirstFrames(f, Seal, bytesRead, count) /\ payload = f[count] /\ count \in Nat
    BY <2>1, <2>3
  <2> HIDE DEF count
  <2>5. PICK g : FirstFrames(g, Seal, bytesRead, count)
                 /\ PayloadOf(Seal, bytesRead) = g[count]
    BY <2>2, <2>4, PayloadFrames DEF count
  <2>6. \A k \in 0..count : f[k] = g[k]
    BY <2>4, <2>5, SameFrames
  <2> QED
    BY <2>4, <2>5, <2>6
<1> QED
  BY <1>1, Invariance, PTL

(* A source nobody changes is encrypted as a whole, under its own length.  *)
THEOREM EncryptsTheSource == Spec => []StableSource
<1>1. EInv => StableSource
  <2> SUFFICES ASSUME EInv, Streamed, edits = editsAtStat
               PROVE  plaintext_len = Len(bytesRead) /\ bytesRead = source
    BY DEF StableSource
  <2>1. /\ plaintext_len = Len(source) /\ Len(bytesRead) = Len(source)
        /\ bytesRead = SubSeq(source, 1, Len(bytesRead))
    BY DEF EInv, SourceRead, Streamed
  <2>2. SubSeq(source, 1, Len(source)) = source
    BY SubSeqFull DEF EInv, TypeOK
  <2> QED
    BY <2>1, <2>2
<1> QED
  BY <1>1, Invariance, PTL
-----------------------------------------------------------------------------
Streaming == {"start", "stat", "envelope", "read", "seal", "write"}

MayBeMissing == setting.platform = "windows"

(* What the path and its durable entry hold at each stage of persisting.   *)
OutInv ==
  /\ pc \in Streaming \cup {"sync"} => path = setting.prior /\ disk = setting.prior
  /\ pc = "replace" =>
       /\ path = setting.prior \/ (MayBeMissing /\ path = Absent)
       /\ disk = setting.prior
  /\ pc \in {"replace", "syncParent"} => flushed
  /\ pc = "syncParent" =>
       setting.platform = "unix" /\ path = Completed /\ disk = setting.prior
  /\ pc = "ok" => flushed
  /\ pc = "ok" /\ setting.platform = "unix" => path = Completed /\ disk = Completed
  /\ \A file \in {path, disk} :
       file = setting.prior \/ file = Completed \/ (MayBeMissing /\ file = Absent)
  /\ path = disk \/ path = Absent \/ flushed
  /\ disk \in {path, setting.prior}

(* After a power loss the entry is the new one, the durable one, or, where *)
(* they differ on Windows, missing.                                        *)
LEMMA LostEntry ==
  ASSUME OutInv, PowerLoss
  PROVE  path' \in {path, disk} \/ (MayBeMissing /\ path # disk /\ path' = Absent)
BY DEF OutInv, PowerLoss, MayBeMissing

LEMMA OutInit == Init => OutInv
BY DEF Init, OutputInit, OutInv, Streaming

LEMMA SettingFixed ==
  ASSUME [Next]_vars
  PROVE  UNCHANGED setting
BY DEF Next, Progress, vars, outputVars, Stat, BuildEnvelope, WriteEnvelope,
       ReadChunk, ReadEnd, SealChunk, BatchSealed, WriteFrame, EndBatch,
       Persist, SyncTemp, RemoveExisting, Rename, SyncParent,
       ParentNotFound, StreamIOError, Fault, OutputIOError, Kill, PowerLoss,
       EditSource, CreateTemp, Goto, Reject, IOError, ErrorReturn

(* Every step is one of these, as far as the output path is concerned;     *)
(* only the first kind changes what the capsule will be.                   *)
StreamStep ==
  /\ pc \in Streaming /\ pc' \in Streaming \cup {"sync"}
  /\ UNCHANGED <<path, disk>>

ErrorStep ==
  /\ pc \notin Final /\ pc' = "error"
  /\ UNCHANGED <<path, disk, flushed>>

OutputStep ==
  \/ ErrorStep \/ SyncTemp \/ RemoveExisting \/ Rename(Completed) \/ SyncParent
  \/ Kill \/ PowerLoss \/ UNCHANGED outputVars

LEMMA StepKinds ==
  ASSUME [Next]_vars
  PROVE  StreamStep \/ (OutputStep /\ UNCHANGED Completed)
<1>1. CASE Stat \/ WriteEnvelope \/ ReadChunk \/ ReadEnd \/ BatchSealed \/ EndBatch
  BY <1>1 DEF Stat, WriteEnvelope, ReadChunk, ReadEnd, BatchSealed, EndBatch,
              CreateTemp, Goto, StreamStep, Streaming
<1>2. CASE WriteFrame \/ \E i \in 1..BATCH_CHUNKS : SealChunk(i)
  BY <1>2 DEF WriteFrame, SealChunk, outputVars, StreamStep, Streaming
<1>3. CASE BuildEnvelope /\ pc' = "envelope"
  BY <1>3 DEF BuildEnvelope, Goto, Reject, ErrorReturn, StreamStep, Streaming
<1>4. CASE BuildEnvelope /\ pc' # "envelope"
  <2>1. ErrorStep
    BY <1>4 DEF BuildEnvelope, Goto, Reject, ErrorReturn, ErrorStep, Final
  <2>2. UNCHANGED Completed
    BY <1>4 DEF BuildEnvelope, envelopeVars, streamVars, Completed, CapsuleWith, Seal
  <2> QED
    BY <2>1, <2>2 DEF OutputStep
<1>5. CASE Persist
  <2>1. UNCHANGED Completed
    BY <1>5 DEF Persist, envelopeVars, streamVars, Completed, CapsuleWith, Seal
  <2>2. CASE ParentNotFound
    <3>1. ErrorStep
      BY <2>2 DEF ParentNotFound, Reject, ErrorReturn, ErrorStep, Final
    <3> QED
      BY <2>1, <3>1 DEF OutputStep
  <2>3. CASE SyncTemp \/ RemoveExisting \/ Rename(Completed) \/ SyncParent
    BY <2>1, <2>3 DEF OutputStep
  <2> QED
    BY <1>5, <2>2, <2>3 DEF Persist, Completed
<1>6. CASE StreamIOError \/ (Fault /\ OutputIOError)
  <2>1. ErrorStep
    BY <1>6 DEF StreamIOError, OutputIOError, IOError, ErrorReturn, ErrorStep, Final
  <2>2. UNCHANGED Completed
    BY <1>6 DEF StreamIOError, Fault, envelopeVars, streamVars, Completed,
                CapsuleWith, Seal
  <2> QED
    BY <2>1, <2>2 DEF OutputStep
<1>7. CASE Fault /\ (Kill \/ PowerLoss)
  <2>1. UNCHANGED Completed
    BY <1>7 DEF Fault, envelopeVars, streamVars, Completed, CapsuleWith, Seal
  <2> QED
    BY <1>7, <2>1 DEF OutputStep
<1>8. CASE EditSource \/ UNCHANGED vars
  <2>1. UNCHANGED Completed /\ UNCHANGED outputVars
    BY <1>8 DEF EditSource, vars, envelopeVars, streamVars, Completed, CapsuleWith, Seal
  <2> QED
    BY <2>1 DEF OutputStep
<1> QED
  BY <1>1, <1>2, <1>3, <1>4, <1>5, <1>6, <1>7, <1>8 DEF Next, Progress, Fault

LEMMA OutNext == OutInv /\ [Next]_vars => OutInv'
<1> SUFFICES ASSUME OutInv, [Next]_vars PROVE OutInv'
  OBVIOUS
<1>1. UNCHANGED setting
  BY SettingFixed
<1>2. CASE StreamStep
  BY <1>1, <1>2 DEF OutInv, MayBeMissing, StreamStep, Streaming
<1>3. ASSUME OutputStep, UNCHANGED Completed PROVE OutInv'
  <2>1. CASE ErrorStep
    BY <1>1, <1>3, <2>1 DEF OutInv, MayBeMissing, ErrorStep, Streaming
  <2>2. CASE SyncTemp
    BY <1>1, <1>3, <2>2 DEF OutInv, MayBeMissing, SyncTemp, Streaming
  <2>3. CASE RemoveExisting
    BY <1>1, <1>3, <2>3 DEF OutInv, MayBeMissing, RemoveExisting, Streaming
  <2>4. CASE Rename(Completed)
    BY <1>1, <1>3, <2>4 DEF OutInv, MayBeMissing, Rename, Streaming
  <2>5. CASE SyncParent
    BY <1>1, <1>3, <2>5 DEF OutInv, MayBeMissing, SyncParent, Streaming
  <2>6. CASE Kill
    BY <1>1, <1>3, <2>6 DEF OutInv, MayBeMissing, Kill, Streaming, Final
  <2>7. CASE PowerLoss
    <3>1. path' \in {path, disk} \/ (MayBeMissing /\ path # disk /\ path' = Absent)
      BY <2>7, LostEntry
    <3>2. pc' = (IF pc \in Final THEN pc ELSE "crashed") /\ UNCHANGED flushed
          /\ disk' = path'
      BY <2>7 DEF PowerLoss
    <3> QED
      BY <1>1, <1>3, <3>1, <3>2 DEF OutInv, MayBeMissing, Streaming, Final
  <2>8. CASE UNCHANGED outputVars
    BY <1>1, <1>3, <2>8 DEF OutInv, MayBeMissing, outputVars, Streaming
  <2> QED
    BY <1>3, <2>1, <2>2, <2>3, <2>4, <2>5, <2>6, <2>7, <2>8 DEF OutputStep
<1> QED
  BY <1>2, <1>3, StepKinds

LEMMA OutInvariance == Spec => [](EInv /\ OutInv)
BY OutInit, OutNext, Invariance, PTL DEF Spec

LEMMA AtomicInit == Init => Atomic!Init
BY DEF Init, OutputInit, Stage, Final, Atomic!Init

LEMMA AtomicStep == EInv /\ OutInv /\ [Next]_vars => [Atomic!Next]_(Atomic!vars)
<1> SUFFICES ASSUME EInv, OutInv, [Next]_vars PROVE [Atomic!Next]_(Atomic!vars)
  OBVIOUS
<1>1. UNCHANGED setting
  BY SettingFixed
<1>2. CASE StreamStep
  <2>1. Atomic!Work
    BY <1>1, <1>2 DEF StreamStep, Streaming, Stage, Final, Atomic!Work
  <2> QED
    BY <2>1 DEF Atomic!Next
<1>3. ASSUME OutputStep, UNCHANGED Completed PROVE [Atomic!Next]_(Atomic!vars)
  <2>1. CASE ErrorStep
    <3>1. Atomic!Stop
      BY <1>1, <1>3, <2>1 DEF ErrorStep, Stage, Final, Atomic!Stop
    <3> QED
      BY <3>1 DEF Atomic!Next
  <2>2. CASE SyncTemp
    <3>1. Atomic!Work
      BY <1>1, <1>3, <2>2 DEF SyncTemp, Stage, Final, Atomic!Work
    <3> QED
      BY <3>1 DEF Atomic!Next
  <2>3. CASE RemoveExisting
    <3>1. Atomic!Remove
      BY <1>1, <1>3, <2>3 DEF RemoveExisting, Stage, Final, Atomic!Remove
    <3> QED
      BY <3>1 DEF Atomic!Next
  <2>4. CASE Rename(Completed)
    <3>1. Atomic!Commit
      BY <1>1, <1>3, <2>4 DEF Rename, Stage, Final, Atomic!Commit
    <3> QED
      BY <3>1 DEF Atomic!Next
  <2>5. CASE SyncParent
    <3>1. Atomic!Report
      BY <1>1, <1>3, <2>5 DEF SyncParent, Stage, Final, Atomic!Report
    <3> QED
      BY <3>1 DEF Atomic!Next
  <2>6. CASE Kill
    <3>1. Atomic!Stop
      BY <1>1, <1>3, <2>6 DEF Kill, Stage, Final, Atomic!Stop
    <3> QED
      BY <3>1 DEF Atomic!Next
  <2>7. CASE PowerLoss
    <3>1. /\ path' \in {path, disk} \/ (MayBeMissing /\ path # disk /\ path' = Absent)
          /\ disk \in {path, setting.prior}
      BY <2>7, LostEntry DEF OutInv
    <3>2. pc' = IF pc \in Final THEN pc ELSE "crashed"
      BY <2>7 DEF PowerLoss
    <3>3. Stage' = IF Stage = "done" THEN "done" ELSE "stopped"
      BY <3>2 DEF Stage, Final
    <3>4. CASE path' = path
      <4>1. Atomic!LosePower
        BY <1>1, <1>3, <3>3, <3>4 DEF Atomic!LosePower
      <4> QED
        BY <4>1 DEF Atomic!Next
    <3>5. CASE path' = setting.prior /\ path' # path /\ setting.platform # "unix"
      <4>1. Atomic!LosePower
        BY <1>1, <1>3, <3>3, <3>5 DEF Atomic!LosePower
      <4> QED
        BY <4>1 DEF Atomic!Next
    <3>6. CASE path' = setting.prior /\ path' # path /\ setting.platform = "unix"
      <4>1. Stage \in {"committed", "stopped"}
        BY <3>1, <3>6 DEF OutInv, MayBeMissing, Streaming, Stage, Final, EInv, TypeOK
      <4>2. Atomic!LosePower
        BY <1>1, <1>3, <3>3, <3>6, <4>1 DEF Atomic!LosePower
      <4> QED
        BY <4>2 DEF Atomic!Next
    <3>7. CASE path' = Absent /\ MayBeMissing
      <4>1. Atomic!LosePower
        BY <1>1, <1>3, <3>3, <3>7 DEF Atomic!LosePower, MayBeMissing
      <4> QED
        BY <4>1 DEF Atomic!Next
    <3> QED
      BY <3>1, <3>4, <3>5, <3>6, <3>7
  <2>8. CASE UNCHANGED outputVars
    BY <1>1, <1>3, <2>8 DEF outputVars, Stage, Final, Atomic!vars
  <2> QED
    BY <1>3, <2>1, <2>2, <2>3, <2>4, <2>5, <2>6, <2>7, <2>8 DEF OutputStep
<1> QED
  BY <1>2, <1>3, StepKinds

(* Every encryption is an allowed history of AtomicOutput, whatever        *)
(* happens to its source: its beginning is, and so is every step.          *)
THEOREM RefinesAtomicOutput ==
  Spec => Atomic!Init /\ [][Atomic!Next]_(Atomic!vars)
BY AtomicInit, AtomicStep, OutInvariance, PTL DEF Spec
=============================================================================
