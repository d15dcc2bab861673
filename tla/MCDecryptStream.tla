-------------------------- MODULE MCDecryptStream --------------------------
(***************************************************************************)
(* Small instance of DecryptStream: every plaintext length up to MaxLen    *)
(* (two full batches and one byte), both format versions, and the capsules *)
(* storage can make of what was written.                                   *)
(***************************************************************************)
EXTENDS DecryptStream

CONSTANTS
  MaxLen,    \* longest plaintext
  Old,       \* an existing output file
  DamageLens \* the plaintext lengths whose capsules are also damaged

Plain(n) == [p \in 1..n |-> p]

SealOf(version, n) ==
  [fek |-> "this", commitment |-> Commitment(version, n)]

Capsule(version, n) ==
  LET seal == SealOf(version, n)
  IN  [plain |-> Plain(n), seal |-> seal,
       version |-> version, plaintext_len |-> n,
       aad_hash |-> seal.commitment, unwraps |-> TRUE,
       payload |-> PayloadOf(seal, Plain(n))]

Junk(s) == [seal |-> [s.seal EXCEPT !.fek = "other"],
            idx |-> 0, chunk |-> <<>>, at |-> 0]

(* The capsules of an older encryption of the same file. *)
Older(s) == PayloadOf([s.seal EXCEPT !.fek = "other"], s.plain)

Without(q, i) == SubSeq(q, 1, i - 1) \o SubSeq(q, i + 1, Len(q))

(* What storage can make of the payload: an end cut off, a byte lost or    *)
(* changed, bytes or a whole frame appended, the payload repeated, a frame *)
(* in another's place, or a tail taken from an older file.                 *)
DamagedPayloads(s) ==
  LET q == s.payload
      frame(k) == SealedFrame(s.seal, k, Chunk(s.plain, k))
      full == CHUNK_SIZE + TAG_SIZE
      last == SaturatingSub(FrameCount(s.version, s.plain), 1)
  IN  {SubSeq(q, 1, i) : i \in 0..Len(q) - 1}
      \cup {Without(q, i) : i \in 1..Len(q)}
      \cup {[q EXCEPT ![i] = Junk(s)] : i \in 1..Len(q)}
      \cup {Append(q, Junk(s)), q \o frame(last), q \o q}
      \cup {SubSeq(q, 1, k * full) \o frame(j)
              \o SubSeq(q, (k + 1) * full + 1, Len(q)) :
              k \in 0..last - 1, j \in 0..last}
      \cup {SubSeq(q, 1, i) \o SubSeq(Older(s), i + 1, Len(q)) :
              i \in 0..Len(q) - 1}

(* What can happen to the envelope: its length field changes, with the     *)
(* hash it carries or with the hash recomputed, or the version does, or    *)
(* the credential does not unwrap the file key.                            *)
DamagedEnvelopes(s) ==
  LET relabel(v, n) == [s EXCEPT !.version = v, !.plaintext_len = n]
      rehash(t) == [t EXCEPT
                      !.aad_hash = Commitment(t.version, t.plaintext_len)]
  IN  {relabel(s.version, n) : n \in 0..Len(s.plain) + CHUNK_SIZE + 1}
      \cup {rehash(relabel(s.version, n)) :
              n \in 0..Len(s.plain) + CHUNK_SIZE + 1}
      \cup {rehash(relabel(v, s.plaintext_len)) : v \in 1..3}
      \cup {[s EXCEPT !.unwraps = FALSE]}

Versions == {LEGACY_VERSION, CURRENT_VERSION}

IntactCapsules == {Capsule(v, n) : v \in Versions, n \in 0..MaxLen}

(* A length change together with a cut at each place is included: the v1   *)
(* reader accepts some of these.                                           *)
MCStored ==
  LET wrote == {Capsule(v, n) : v \in Versions, n \in DamageLens}
      cut(t) == {[t EXCEPT !.payload = SubSeq(t.payload, 1, i)] :
                   i \in 0..Len(t.payload)}
  IN  IntactCapsules
      \cup UNION {{[s EXCEPT !.payload = q] : q \in DamagedPayloads(s)} :
                    s \in wrote}
      \cup UNION {UNION {cut(t) : t \in DamagedEnvelopes(s)} : s \in wrote}
=============================================================================
