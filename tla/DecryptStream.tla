--------------------------- MODULE DecryptStream ---------------------------
(***************************************************************************)
(* Decryption (and verification) of one stored capsule: the envelope is    *)
(* checked, the payload is read in batches of frames, the frames of a      *)
(* batch are opened by parallel workers, the plaintext is handed to the    *)
(* temporary output file, and the file replaces the output path once       *)
(* everything has been checked.                                            *)
(*                                                                         *)
(* The capsule may be anything storage made of it: Stored holds, with each *)
(* capsule, the plaintext and the seal of the encryption that wrote it.    *)
(* Frames are opened one worker step at a time, in any order.              *)
(***************************************************************************)
EXTENDS CapsuleFormat, TempOutput

CONSTANTS
  Stored,  \* capsules at rest (see StoredAssumption)
  Modes    \* subset of {"file", "sink"}: decrypt to a path, or only verify

(* A capsule and what its writer put into it. *)
Capsules ==
  [plain : Seq(Byte), seal : Seals, version : Nat, plaintext_len : Nat,
   aad_hash : Commitments, unwraps : BOOLEAN, payload : Seq(CipherBytes)]

(* The file key is random and used once, and ciphertext cannot be forged:  *)
(* a byte made with this capsule's key was made when the capsule was       *)
(* written.                                                                *)
FromWriter(s, c) ==
  c.seal.fek = s.seal.fek =>
    /\ c.seal = s.seal
    /\ IsFrameIndex(s.plain, c.idx)
    /\ c.chunk = Chunk(s.plain, c.idx)

(* The writer declared the true length. *)
ASSUME StoredAssumption ==
  \A s \in Stored :
    /\ s \in Capsules
    /\ s.seal.commitment = Commitment(s.seal.commitment.version, Len(s.plain))
    /\ \A i \in 1..Len(s.payload) : FromWriter(s, s.payload[i])

VARIABLES
  stored,  \* the capsule being read; never changes
  mode,    \* "file" or "sink"; never changes
  pos,     \* payload bytes consumed
  batch,   \* ciphertext of the frames of the current batch
  opened,  \* the frames of the batch whose worker has finished
  written, \* chunks of the batch handed to the writer
  total,   \* total_bytes_written
  idx,     \* global_chunk_idx
  eof,     \* eof_reached
  out      \* bytes handed to the writer so far

streamVars == <<pos, batch, opened, written, total, idx, eof, out>>
vars == <<outputVars, stored, mode, streamVars>>

Init ==
  /\ OutputInit
  /\ stored \in Stored
  /\ mode \in Modes
  /\ pos = 0
  /\ batch = <<>>
  /\ opened = {}
  /\ written = 0
  /\ total = 0
  /\ idx = 0
  /\ eof = FALSE
  /\ out = <<>>
-----------------------------------------------------------------------------
(* read_envelope and the unwrapping of the file key.                       *)
EnvelopeAccepted ==
  /\ stored.version \in {LEGACY_VERSION, CURRENT_VERSION}
  /\ stored.aad_hash = Commitment(stored.version, stored.plaintext_len)
  /\ stored.unwraps

OpenCapsule ==
  /\ pc = "start"
  /\ EnvelopeAccepted
  /\ IF mode = "file" THEN CreateTemp("read") ELSE Goto("read")
  /\ UNCHANGED <<stored, mode, streamVars>>

RejectCapsule ==
  /\ pc = "start"
  /\ ~EnvelopeAccepted
  /\ Reject
  /\ UNCHANGED <<stored, mode, streamVars>>
-----------------------------------------------------------------------------
(* The seal under which the reader opens frames. *)
ReaderSeal == [fek |-> stored.seal.fek, commitment |-> stored.aad_hash]

Available == Len(stored.payload) - pos

(* Mutant: the frames already in the batch are forgotten.                  *)
RemainingMutant == SaturatingSub(stored.plaintext_len, total)

Remaining ==
  SaturatingSub(stored.plaintext_len, total + Len(batch) * CHUNK_SIZE)

IsV2EmptyFrame ==
  /\ stored.version >= CURRENT_VERSION
  /\ stored.plaintext_len = 0
  /\ idx = 0
  /\ batch = <<>>

ExpectedSize ==
  CASE IsV2EmptyFrame         -> TAG_SIZE
    [] ~IsV2EmptyFrame /\ Remaining < CHUNK_SIZE -> Remaining + TAG_SIZE
    [] OTHER                  -> CHUNK_SIZE + TAG_SIZE

LastFrame == IsV2EmptyFrame \/ Remaining < CHUNK_SIZE

(* All the plaintext the envelope declares has been asked for.             *)
StopReading ==
  /\ pc = "read"
  /\ Remaining = 0
  /\ ~IsV2EmptyFrame
  /\ eof' = TRUE
  /\ Goto("unseal")
  /\ UNCHANGED <<stored, mode, pos, batch, opened, written, total, idx, out>>

ReadFrame ==
  /\ pc = "read"
  /\ Remaining > 0 \/ IsV2EmptyFrame
  /\ Available >= ExpectedSize
  /\ batch' = Append(batch,
                     SubSeq(stored.payload, pos + 1, pos + ExpectedSize))
  /\ pos' = pos + ExpectedSize
  /\ eof' = LastFrame
  /\ Goto(IF LastFrame \/ Len(batch) + 1 = BATCH_CHUNKS
          THEN "unseal" ELSE "read")
  /\ UNCHANGED <<stored, mode, opened, written, total, idx, out>>

(* Mutant: the end of file is not remembered.                              *)
EndOfPayloadMutant ==
  /\ pc = "read"
  /\ Remaining > 0 \/ IsV2EmptyFrame
  /\ Available = 0
  /\ UNCHANGED vars

(* The payload ends where a frame should begin; the rest of the batch loop *)
(* finds the same end of file.                                             *)
EndOfPayload ==
  /\ pc = "read"
  /\ Remaining > 0 \/ IsV2EmptyFrame
  /\ Available = 0
  /\ eof' = TRUE
  /\ Goto("unseal")
  /\ UNCHANGED <<stored, mode, pos, batch, opened, written, total, idx, out>>

TruncatedFrame ==
  /\ pc = "read"
  /\ Remaining > 0 \/ IsV2EmptyFrame
  /\ 0 < Available /\ Available < ExpectedSize
  /\ Reject
  /\ UNCHANGED <<stored, mode, streamVars>>
-----------------------------------------------------------------------------
(* One worker of the parallel iterator finishes frame i of the batch.      *)
OpenFrame(i) ==
  /\ pc = "unseal"
  /\ i \in DOMAIN batch \ opened
  /\ Authenticates(ReaderSeal, idx + i - 1, batch[i])
  /\ opened' = opened \cup {i}
  /\ UNCHANGED <<outputVars, stored, mode,
                 pos, batch, written, total, idx, eof, out>>

(* try_for_each returns a worker's error: nothing of the batch is written. *)
FrameRejected(i) ==
  /\ pc = "unseal"
  /\ i \in DOMAIN batch \ opened
  /\ ~Authenticates(ReaderSeal, idx + i - 1, batch[i])
  /\ Reject
  /\ UNCHANGED <<stored, mode, streamVars>>

(* Every worker has returned.  An empty batch leaves the loop.             *)
BatchOpened ==
  /\ pc = "unseal"
  /\ opened = DOMAIN batch
  /\ Goto(IF batch = <<>> THEN "check" ELSE "write")
  /\ UNCHANGED <<stored, mode, streamVars>>

WriteChunk ==
  /\ pc = "write"
  /\ written < Len(batch)
  /\ LET chunk == Opened(batch[written + 1])
     IN  /\ out' = out \o chunk
         /\ total' = total + Len(chunk)
  /\ written' = written + 1
  /\ UNCHANGED <<outputVars, stored, mode, pos, batch, opened, idx, eof>>

(* Mutant: the finished workers of the batch are not forgotten.            *)
KeepOpenedMutant ==
  /\ pc = "write"
  /\ written = Len(batch)
  /\ idx' = idx + Len(batch)
  /\ batch' = <<>>
  /\ written' = 0
  /\ Goto(IF eof THEN "check" ELSE "read")
  /\ UNCHANGED <<stored, mode, pos, opened, total, eof, out>>

(* Mutant: the last batch goes straight to the output path.                *)
NoLengthCheckMutant ==
  /\ pc = "write"
  /\ written = Len(batch)
  /\ idx' = idx + Len(batch)
  /\ batch' = <<>>
  /\ opened' = {}
  /\ written' = 0
  /\ Goto(IF eof THEN "sync" ELSE "read")
  /\ UNCHANGED <<stored, mode, pos, total, eof, out>>

EndBatch ==
  /\ pc = "write"
  /\ written = Len(batch)
  /\ idx' = idx + Len(batch)
  /\ batch' = <<>>
  /\ opened' = {}
  /\ written' = 0
  /\ Goto(IF eof THEN "check" ELSE "read")
  /\ UNCHANGED <<stored, mode, pos, total, eof, out>>
-----------------------------------------------------------------------------
(* Mutant: reaching the end of the payload is taken for success.           *)
PayloadEndedMutant == Available = 0

PayloadComplete == total = stored.plaintext_len /\ Available = 0

AcceptPayload ==
  /\ pc = "check"
  /\ PayloadComplete
  /\ Goto(IF mode = "file" THEN "sync" ELSE "ok")
  /\ UNCHANGED <<stored, mode, streamVars>>

RejectPayload ==
  /\ pc = "check"
  /\ ~PayloadComplete
  /\ Reject
  /\ UNCHANGED <<stored, mode, streamVars>>

(* A system call of the streaming phase fails. *)
StreamIOError ==
  /\ pc \in {"start", "read", "write", "check"}
  /\ IOError
  /\ UNCHANGED <<stored, mode, streamVars>>

Persist ==
  /\ SyncTemp \/ RemoveExisting \/ Rename(out)
       \/ SyncParent \/ ParentNotFound
  /\ UNCHANGED <<stored, mode, streamVars>>

Fault ==
  /\ OutputIOError \/ Kill \/ PowerLoss
  /\ UNCHANGED <<stored, mode, streamVars>>

Progress ==
  \/ OpenCapsule \/ RejectCapsule
  \/ StopReading \/ ReadFrame \/ EndOfPayload \/ TruncatedFrame
  \/ \E i \in 1..BATCH_CHUNKS : OpenFrame(i) \/ FrameRejected(i)
  \/ BatchOpened \/ WriteChunk \/ EndBatch
  \/ AcceptPayload \/ RejectPayload
  \/ Persist

Next == Progress \/ StreamIOError \/ Fault

(* The operating system runs the process and its workers and returns from  *)
(* every call; faults need not happen.                                     *)
Spec == Init /\ [][Next]_vars /\ WF_vars(Progress)
-----------------------------------------------------------------------------
TypeOK ==
  /\ pc \in {"start", "read", "unseal", "write", "check",
             "sync", "replace", "syncParent"} \cup Final
  /\ temp \in {"none", "open"}
  /\ {flushed, ioFailed} \subseteq BOOLEAN
  /\ setting \in Settings
  /\ stored \in Capsules
  /\ mode \in Modes
  /\ pos \in 0..Len(stored.payload)
  /\ batch \in Seq(Seq(CipherBytes)) /\ Len(batch) <= BATCH_CHUNKS
  /\ opened \subseteq 1..Len(batch)
  /\ written \in 0..Len(batch)
  /\ total \in Nat
  /\ idx \in Nat
  /\ eof \in BOOLEAN
  /\ out \in Seq(Byte)

(* The chunk counter, the byte counter and the frames in memory agree on   *)
(* the position in the plaintext: every frame but the one that ends the    *)
(* stream is full, so the next chunk to write begins at a multiple of      *)
(* CHUNK_SIZE, and a batch is only written when each of its frames was     *)
(* opened at its own index.                                                *)
Aligned ==
  /\ pc \in {"start", "read"} =>
       ~eof /\ opened = {} /\ Len(batch) < BATCH_CHUNKS
  /\ pc \in {"start", "read", "unseal"} => written = 0
  /\ pc = "write" => opened = 1..Len(batch)
  /\ pc \in {"start", "read", "unseal", "write"} =>
       /\ \A i \in 1..Len(batch) : Len(batch[i]) > 0
       /\ \A i \in 1..Len(batch) :
            i < Len(batch) \/ ~eof => Len(batch[i]) = CHUNK_SIZE + TAG_SIZE
       /\ \A i \in opened : Authenticates(ReaderSeal, idx + i - 1, batch[i])
       /\ written < Len(batch) \/ ~eof => total = (idx + written) * CHUNK_SIZE

(* Nothing but the plaintext's own bytes, from its beginning and in order, *)
(* is ever handed to the writer, whatever storage did to the capsule and   *)
(* in whatever order the workers of a batch finish: a batch with a bad     *)
(* frame contributes nothing.                                              *)
AuthenticPrefix ==
  /\ total <= Len(stored.plain)
  /\ out = SubSeq(stored.plain, 1, total)

(* The payload has been accepted. *)
Accepted == pc \in {"sync", "replace", "syncParent", "ok"}

(* An accepted format-v2 payload that declares a non-empty plaintext is    *)
(* the whole plaintext the writer sealed: no truncation at a chunk or      *)
(* batch boundary, no missing, repeated, exchanged or extra frame.  Format *)
(* v1 does not commit to the length and promises only a prefix of the      *)
(* declared length.                                                        *)
WholeOnSuccess ==
  Accepted =>
    /\ Len(out) = stored.plaintext_len
    /\ (stored.version = CURRENT_VERSION /\ stored.plaintext_len > 0)
         => out = stored.plain

(* The file a decryption of this capsule may leave at the path. *)
Completed ==
  SubSeq(stored.plain, 1, Smaller(stored.plaintext_len, Len(stored.plain)))

(* The output path holds its old content or the complete decrypted file at *)
(* every moment, through errors, kills and power losses.  On Windows it    *)
(* may also be missing, because the old file is removed before the rename. *)
OldOrComplete ==
  \/ path = setting.prior
  \/ path = Completed
  \/ setting.platform = "windows" /\ path = Absent

(* A decryption that returns, with success or with an error, leaves no     *)
(* temporary file with plaintext behind (CHANGELOG 0.4.0).                 *)
NoTempLeft == pc \in {"ok", "error"} => temp = "none"

(* On Unix a reported success survives a power loss: the file's bytes were *)
(* flushed before the rename and the directory after it.                   *)
DurableSuccess ==
  pc = "ok" /\ mode = "file" /\ setting.platform = "unix"
    => disk = Completed /\ flushed

(* The capsule is as its writer left it. *)
Intact ==
  /\ EnvelopeAccepted
  /\ stored.aad_hash = stored.seal.commitment
  /\ stored.plaintext_len = Len(stored.plain)
  /\ stored.payload = PayloadOf(stored.seal, stored.plain)

(* An intact capsule is never refused: whatever its length relative to the *)
(* chunk and batch sizes, only a failing system call (or the missing       *)
(* parent of a bare output name) makes its decryption return an error.     *)
IntactAccepted == pc = "error" /\ Intact => ioFailed \/ setting.bare

(* FORMAT.md: "a successful v2 decryption authenticates the committed      *)
(* public fields, frame position, and payload": some frame was opened      *)
(* under the commitment.                                                   *)
SuccessAuthenticates ==
  pc = "ok" /\ stored.version = CURRENT_VERSION => idx > 0

(* Every decryption ends. *)
Terminates == <>(pc \in Final)

-----------------------------------------------------------------------------
(* Decryption to a path implements the atomic replacement of the path.     *)
(* A successful verification has nothing to replace. *)
Stage ==
  CASE pc = "ok" /\ mode = "file" -> "done"
    [] ~(pc = "ok" /\ mode = "file") /\ pc \in Final -> "stopped"
    [] pc = "syncParent" -> "committed"
    [] OTHER -> "working"

Atomic == INSTANCE AtomicOutput
            WITH stage <- Stage, result <- Completed,
                 prior <- setting.prior, strict <- setting.platform = "unix"

(* Seen from the output path alone, a decryption replaces the old file by  *)
(* the complete one in a single step, reports success only after that, and *)
(* a reported success is never undone.                                     *)
ImplementsAtomicOutput == Atomic!Spec
=============================================================================
