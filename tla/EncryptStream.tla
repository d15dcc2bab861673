--------------------------- MODULE EncryptStream ---------------------------
(***************************************************************************)
(* Encryption of one file: the length of the source is taken from its      *)
(* metadata and committed to in the envelope, then the source is opened    *)
(* and read in batches of chunks, the chunks of a batch are sealed by      *)
(* parallel workers, and the frames are appended to the temporary output   *)
(* file, which replaces the output path at the end.                        *)
(*                                                                         *)
(* Other programs may change the source meanwhile: bytes appended, cut off *)
(* or overwritten in place, MaxEdits times at most.                        *)
(***************************************************************************)
EXTENDS CapsuleFormat, TempOutput

CONSTANTS
  Sources,  \* contents the source may have at first
  MaxEdits, \* bound on the changes made to it
  MaxSource \* bound on its length

ASSUME SourceAssumption ==
  /\ Sources \subseteq Seq(Byte)
  /\ MaxEdits \in Nat /\ MaxSource \in Nat

VARIABLES
  source,        \* the source file
  edits,         \* changes made to it so far
  editsAtStat,   \* the value of edits when the metadata was read
  plaintext_len, \* the length committed to in the envelope
  bytesRead,     \* everything read from the source so far
  batch,         \* plaintext chunks of the current batch
  sealed,        \* the chunks of the batch whose worker has finished
  written,       \* frames of the batch appended to the temporary file
  idx,           \* global_chunk_idx
  payload        \* the frames in the temporary file

streamVars == <<bytesRead, batch, sealed, written, idx, payload>>
sourceVars == <<source, edits>>
envelopeVars == <<editsAtStat, plaintext_len>>
vars == <<outputVars, sourceVars, envelopeVars, streamVars>>

Init ==
  /\ OutputInit
  /\ source \in Sources
  /\ edits = 0
  /\ editsAtStat = 0
  /\ plaintext_len = 0
  /\ bytesRead = <<>>
  /\ batch = <<>>
  /\ sealed = {}
  /\ written = 0
  /\ idx = 0
  /\ payload = <<>>
-----------------------------------------------------------------------------
(* fs::metadata(input)?.len(), before the source is opened. *)
Stat ==
  /\ pc = "start"
  /\ plaintext_len' = Len(source)
  /\ editsAtStat' = edits
  /\ Goto("stat")
  /\ UNCHANGED <<sourceVars, streamVars>>

(* File::open, key derivation, the envelope with its commitment, resource  *)
(* checks and the policy lint, which may refuse; nothing is created yet.   *)
BuildEnvelope ==
  /\ pc = "stat"
  /\ Goto("envelope") \/ Reject
  /\ UNCHANGED <<sourceVars, envelopeVars, streamVars>>

(* write_envelope_and_payload: the temporary file starts with the envelope. *)
WriteEnvelope ==
  /\ pc = "envelope"
  /\ CreateTemp("read")
  /\ UNCHANGED <<sourceVars, envelopeVars, streamVars>>

Seal ==
  [fek        |-> CHOOSE k \in FileKeys : TRUE,
   commitment |-> Commitment(CURRENT_VERSION, plaintext_len)]

(* The capsule the temporary file holds. *)
CapsuleWith(frames) ==
  [version       |-> CURRENT_VERSION,
   plaintext_len |-> plaintext_len,
   aad_hash      |-> Seal.commitment,
   payload       |-> frames]
-----------------------------------------------------------------------------
(* Mutant: a final partial chunk is taken for the end of the file.         *)
FullChunkMutant ==
  LET from == Len(bytesRead)
  IN  IF from + CHUNK_SIZE > Len(source) THEN <<>>
      ELSE SubSeq(source, from + 1, from + CHUNK_SIZE)

(* The next chunk the source would give; empty at the end of the file.     *)
NextChunk ==
  LET from == Len(bytesRead)
  IN  IF from >= Len(source) THEN <<>>
      ELSE SubSeq(source, from + 1, Smaller(from + CHUNK_SIZE, Len(source)))

(* A short chunk means the end of the file was reached behind it.          *)
ReadChunk ==
  /\ pc = "read"
  /\ NextChunk # <<>>
  /\ batch' = Append(batch, NextChunk)
  /\ bytesRead' = bytesRead \o NextChunk
  /\ Goto(IF Len(NextChunk) < CHUNK_SIZE \/ Len(batch) + 1 = BATCH_CHUNKS
          THEN "seal" ELSE "read")
  /\ UNCHANGED <<sourceVars, envelopeVars, sealed, written, idx, payload>>

(* An empty plaintext still gets one authenticated frame. *)
ReadEnd ==
  /\ pc = "read"
  /\ NextChunk = <<>>
  /\ batch' = IF batch = <<>> /\ idx = 0 THEN << <<>> >> ELSE batch
  /\ Goto(IF batch' = <<>> THEN "sync" ELSE "seal")
  /\ UNCHANGED <<sourceVars, envelopeVars,
                 bytesRead, sealed, written, idx, payload>>

(* One worker of the parallel iterator finishes chunk i. *)
SealChunk(i) ==
  /\ pc = "seal"
  /\ i \in DOMAIN batch \ sealed
  /\ sealed' = sealed \cup {i}
  /\ UNCHANGED <<outputVars, sourceVars, envelopeVars,
                 bytesRead, batch, written, idx, payload>>

BatchSealed ==
  /\ pc = "seal"
  /\ sealed = DOMAIN batch
  /\ Goto("write")
  /\ UNCHANGED <<sourceVars, envelopeVars, streamVars>>

WriteFrame ==
  /\ pc = "write"
  /\ written < Len(batch)
  /\ payload' = payload \o SealedFrame(Seal, idx + written, batch[written + 1])
  /\ written' = written + 1
  /\ UNCHANGED <<outputVars, sourceVars, envelopeVars,
                 bytesRead, batch, sealed, idx>>

(* Mutant: chunks are counted instead of bytes. *)
FewChunksMutant == Len(batch) < BATCH_CHUNKS

(* batch_bytes_read < BATCH_CHUNKS * CHUNK_SIZE *)
ShortBatch ==
  Len(batch) < BATCH_CHUNKS \/ Len(batch[Len(batch)]) < CHUNK_SIZE

(* Mutant: the count of written frames is not reset. *)
KeepWrittenMutant ==
  /\ pc = "write"
  /\ written = Len(batch)
  /\ idx' = idx + Len(batch)
  /\ batch' = <<>>
  /\ sealed' = {}
  /\ Goto(IF ShortBatch THEN "sync" ELSE "read")
  /\ UNCHANGED <<sourceVars, envelopeVars, bytesRead, written, payload>>

EndBatch ==
  /\ pc = "write"
  /\ written = Len(batch)
  /\ idx' = idx + Len(batch)
  /\ batch' = <<>>
  /\ sealed' = {}
  /\ written' = 0
  /\ Goto(IF ShortBatch THEN "sync" ELSE "read")
  /\ UNCHANGED <<sourceVars, envelopeVars, bytesRead, payload>>
-----------------------------------------------------------------------------
Persist ==
  /\ SyncTemp \/ RemoveExisting \/ Rename(CapsuleWith(payload))
       \/ SyncParent \/ ParentNotFound
  /\ UNCHANGED <<sourceVars, envelopeVars, streamVars>>

StreamIOError ==
  /\ pc \in {"start", "stat", "envelope", "read", "write"}
  /\ IOError
  /\ UNCHANGED <<sourceVars, envelopeVars, streamVars>>

Fault ==
  /\ OutputIOError \/ Kill \/ PowerLoss
  /\ UNCHANGED <<sourceVars, envelopeVars, streamVars>>

(* Another program appends to, truncates or overwrites the source.         *)
EditSource ==
  /\ pc \notin Final
  /\ edits < MaxEdits
  /\ edits' = edits + 1
  /\ \/ /\ Len(source) < MaxSource
        /\ \E b \in Byte : source' = Append(source, b)
     \/ \E n \in 0..Len(source) - 1 : source' = SubSeq(source, 1, n)
     \/ \E i \in 1..Len(source), b \in Byte : source' = [source EXCEPT ![i] = b]
  /\ UNCHANGED <<outputVars, envelopeVars, streamVars>>

Progress ==
  \/ Stat \/ BuildEnvelope \/ WriteEnvelope
  \/ ReadChunk \/ ReadEnd
  \/ \E i \in 1..BATCH_CHUNKS : SealChunk(i)
  \/ BatchSealed \/ WriteFrame \/ EndBatch
  \/ Persist

Next == Progress \/ StreamIOError \/ Fault \/ EditSource

(* The operating system runs the process and its workers; the source stops *)
(* changing after MaxEdits changes.                                        *)
Spec == Init /\ [][Next]_vars /\ WF_vars(Progress)
-----------------------------------------------------------------------------
TypeOK ==
  /\ pc \in {"start", "stat", "envelope", "read", "seal", "write",
             "sync", "replace", "syncParent"} \cup Final
  /\ temp \in {"none", "open"}
  /\ {flushed, ioFailed} \subseteq BOOLEAN
  /\ setting \in Settings
  /\ source \in Seq(Byte)
  /\ edits \in 0..MaxEdits
  /\ editsAtStat \in 0..edits
  /\ plaintext_len \in Nat
  /\ bytesRead \in Seq(Byte)
  /\ batch \in Seq(Seq(Byte)) /\ Len(batch) <= BATCH_CHUNKS
  /\ sealed \subseteq 1..Len(batch)
  /\ written \in 0..Len(batch)
  /\ idx \in Nat

(* The whole source has been read and written. *)
Streamed == pc \in {"sync", "replace", "syncParent", "ok"}

(* Whatever happens to the source while it is read, the frames written are *)
(* those of the bytes that were read: chunks at their own index, each full *)
(* but the last, no index twice, and one frame for an empty plaintext.     *)
CanonicalPayload == Streamed => payload = PayloadOf(Seal, bytesRead)

(* If nobody changes the source after its metadata was read, the envelope  *)
(* commits to the length that was encrypted and the capsule holds exactly  *)
(* the source.                                                             *)
StableSource ==
  Streamed /\ edits = editsAtStat =>
    /\ plaintext_len = Len(bytesRead)
    /\ bytesRead = source

Completed == CapsuleWith(payload)

(* CHANGELOG 0.4.0: a failed encryption leaves no output file behind.      *)
FailureLeavesPath == pc = "error" /\ ~ioFailed => path = setting.prior

Stage ==
  CASE pc = "ok" -> "done"
    [] ~(pc = "ok") /\ pc \in Final -> "stopped"
    [] pc = "syncParent" -> "committed"
    [] OTHER -> "working"

Atomic == INSTANCE AtomicOutput
            WITH stage <- Stage, result <- Completed,
                 prior <- setting.prior, strict <- setting.platform = "unix"

(* Seen from the output path, an encryption replaces the old file by a     *)
(* complete capsule in one step and acknowledges it only when it is        *)
(* durable; and it ends once the source stops changing.                    *)
ImplementsAtomicOutput == Atomic!Spec
=============================================================================
