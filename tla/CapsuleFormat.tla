--------------------------- MODULE CapsuleFormat ---------------------------
(***************************************************************************)
(* The part of the .lvau format that the payload streams depend on: how a  *)
(* plaintext is divided into chunks, what an encrypted frame is bound to,  *)
(* and what the commitment of each format version covers.                  *)
(*                                                                         *)
(* The ciphers are idealised.  A frame is the sequence of its ciphertext   *)
(* bytes, each of which knows the seal (file key and commitment), the      *)
(* chunk index and the chunk it was made from and its position in the      *)
(* frame; a run of bytes authenticates exactly when it is one whole frame  *)
(* made under the seal and the index the reader asks for.  The cascades    *)
(* (AES-GCM then XChaCha20-Poly1305, with or without LCO) differ only in   *)
(* TAG_SIZE.                                                               *)
(***************************************************************************)
EXTENDS Naturals, Sequences

CONSTANTS
  CHUNK_SIZE,    \* plaintext bytes in a full chunk (1 MiB in the code)
  BATCH_CHUNKS,  \* chunks handled together (32 in the code)
  TAG_SIZE,      \* authentication bytes of a frame (16 or 32 in the code)
  Byte,          \* plaintext byte values
  FileKeys       \* file encryption keys

ASSUME FormatAssumption ==
  /\ CHUNK_SIZE \in Nat \ {0}
  /\ BATCH_CHUNKS \in Nat \ {0}
  /\ TAG_SIZE \in Nat \ {0}

LEGACY_VERSION  == 1
CURRENT_VERSION == 2

Smaller(a, b) == IF a <= b THEN a ELSE b

(* u64::saturating_sub. *)
SaturatingSub(a, b) == IF a <= b THEN 0 ELSE a - b

(***************************************************************************)
(* What compute_aad_hash covers of the fields modelled here: format v1     *)
(* hashes the header alone, format v2 the plaintext length as well.        *)
(***************************************************************************)
Commitment(version, plaintext_len) ==
  [version |-> version,
   len     |-> IF version = CURRENT_VERSION THEN plaintext_len ELSE 0]

Commitments == [version : Nat, len : Nat]

(* What binds the frames of one capsule together. *)
Seals == [fek : FileKeys, commitment : Commitments]

CipherBytes == [seal : Seals, idx : Nat, chunk : Seq(Byte), at : Nat]

(* Chunk k (from 0) of a plaintext. *)
Chunk(plain, k) ==
  SubSeq(plain, k * CHUNK_SIZE + 1,
         Smaller((k + 1) * CHUNK_SIZE, Len(plain)))

(* The indexes of the frames of a plaintext; an empty one has frame 0.     *)
IsFrameIndex(plain, k) ==
  k \in Nat /\ (k = 0 \/ k * CHUNK_SIZE < Len(plain))

(***************************************************************************)
(* The ciphertext of one chunk.  The nonce is the base nonce with the      *)
(* index folded in and the associated data the commitment followed by the  *)
(* index, so both are determined by seal and idx.                          *)
(***************************************************************************)
SealedFrame(seal, idx, chunk) ==
  [j \in 1..(Len(chunk) + TAG_SIZE) |->
     [seal |-> seal, idx |-> idx, chunk |-> chunk, at |-> j]]

(* Format v2 gives an empty plaintext one frame, format v1 none.           *)
FrameCount(version, plain) ==
  IF plain = <<>> THEN (IF version = CURRENT_VERSION THEN 1 ELSE 0)
  ELSE (Len(plain) + CHUNK_SIZE - 1) \div CHUNK_SIZE

(***************************************************************************)
(* The payload of a plaintext: its frames in order.  This is the reference *)
(* the batched, parallel streams are compared with.                        *)
(***************************************************************************)
PayloadOf(seal, plain) ==
  LET count == FrameCount(seal.commitment.version, plain)
      upTo[k \in 0..count] ==
        IF k = 0 THEN <<>>
        ELSE upTo[k - 1] \o SealedFrame(seal, k - 1, Chunk(plain, k - 1))
  IN  upTo[count]

(* Mutant: the index is not part of what a frame authenticates.            *)
AnyIndexMutant(seal, idx, bytes) ==
  Len(bytes) > 0 /\ bytes = SealedFrame(seal, bytes[1].idx, bytes[1].chunk)

(* Whether the bytes are one whole frame made under seal and idx.          *)
Authenticates(seal, idx, bytes) ==
  Len(bytes) > 0 /\ bytes = SealedFrame(seal, idx, bytes[1].chunk)

(* The chunk an authentic frame holds. *)
Opened(bytes) == bytes[1].chunk
=============================================================================
