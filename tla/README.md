# Lvau in TLA+

A verification development for Lvau, a local file-encryption tool written in
Rust (`src/crates`: `lvau-protocol`, `lvau-core`, `lvau-cli`, `lvau-gui`,
`lvau-stub`). It models the behaviour that decides whether a user's file
survives: how a file is turned into a capsule and back, in batches, in
parallel, over files that other programs change and on disks that lose power;
how directories become bundles and files again; what signatures, approvals,
policies and recovery shares still say after several commands have worked on
them; what a self-extractor gives back; how key pairs and recipient groups
survive several processes; and how the desktop application runs an operation on
a thread of its own.

Paths below are relative to `src/crates`; `M` is `lvau-core/src/crypto/mod.rs`,
`P` is `lvau-core/src/crypto/parallel.rs` and `B` is
`lvau-core/src/bundle_stream.rs`.

## 1. The system

| Component | State | Operations | Hard part | What makes it correct |
|---|---|---|---|---|
| Envelope and payload format (`lvau-protocol`, `M`, `crypto/framing.rs`) | none | commit, verify the commitment, frame | two format versions, an empty plaintext | a frame opens only under its own capsule's seal and its own index |
| Payload encryption (`P` 41-234, `M` 334-741) | batch, chunk index, temporary file | stat, build and write the envelope, read, seal, append, persist | the source changes meanwhile; partial last chunk and batch | what is written is the framing of what was read; an unchanged source is encrypted whole |
| Payload decryption (`P` 237-463, `M` 787-982) | batch, chunk index, bytes written, `eof_reached` | read frames, open in parallel, write, check the end, persist | lengths around chunk and batch, truncated, repeated, exchanged frames | only authentic plaintext in order; success means all of it; an intact capsule is never refused |
| Atomic output (`M` 316-332) | temporary file, output path, durable directory entry | write, fsync, rename, fsync the directory | crash or power loss between any two steps; Windows removes first | old or complete file at every moment; a reported success is durable |
| Bundles (`bundle_stream.rs`, `bundle.rs`) | source list with hashes, plaintext temporary file, output tree | collect, hash, copy, pad, pack; open, validate, verify all, extract, list | a file changes between the two passes; extraction stops half-way | the manifest describes the packed bytes; whatever was extracted is a whole authenticated entry; no two paths lead to one place |
| Signatures, approvals (`signing.rs`) | the envelope's signature and approval list, key files | sign, verify, approve, verify approvals | the capsule is read, changed and replaced; v1 and v2 cover different fields | a signature or seal is valid exactly for what its key signed; without `--force` none is replaced |
| Release and recovery metadata (`release.rs`, `recovery.rs`) | envelope fields, share files | attach, split, combine | order relative to signing; mixed shares | a threshold of one set's shares gives the secret, anything else an error |
| Policies and preflight (`policy.rs`, `preflight.rs`) | policy files, the override flag in the header | lint, predict | the lint runs once, before anything is annotated; the flag decides every later verdict | a rule kept when a capsule is made stays kept; the override is not lost |
| Bundle comparison (`diff.rs`) | none | compare two manifests | a file of the same size with another content | exactly the paths that were added, removed or changed |
| Reports (`report.rs`) | none | describe | none | formatting |
| Keys (`crypto/keys.rs`, `signing.rs`) | two files per pair | generate, save, load | another generation, a failure or a kill between the two files | no half of one pair beside a half of another |
| Recipient groups (`groups.rs`, `M`) | one TOML file of names and public keys | create, add, remove, encrypt to it | read, change and write in place by several processes | an edit lasts; an encryption opens for the members who are certainly in the group, and not for those who are certainly out |
| Command line (`lvau-cli`) | none of its own | check paths, run one command; `secret edit`; SFX creation | check long before use, read-modify-write with an editor in between | nothing is overwritten without `--force` |
| Desktop application (`lvau-gui`) | busy flag, channel, worker, shared log | start task, poll worker, clear | progress and result between two frames, a worker that panics | one result per task; busy always ends, unless a panic ends the application |
| Self-extractor (`lvau-stub`, `create_sfx`) | intermediate capsule, trailer, extracted payload | build, extract, decrypt, save without overwriting | the intermediate file is shared by outputs of one stem; lengths at the end of the executable | the payload is exactly what was appended; an extractor replaces nothing |

The command line, the desktop application and bundles call the encryption and
decryption functions of `lvau-core`; these call the two payload streams, whose
workers are a rayon parallel iterator, and the streams hand bytes to a
`NamedTempFile` that `persist_temp_file` renames. All lasting state is in
files; processes share nothing else.

## 2. Modules

| Module | Models | Role |
|---|---|---|
| `CapsuleFormat` | `compute_aad_hash`, chunking, frames | constant module: what the streams write and open |
| `TempOutput` | `NamedTempFile`, `sync_all`, `persist_temp_file`, kill, power loss | state and steps both streams share (EXTENDS) |
| `DecryptStream` | `decrypt_file_*`, `verify_file_*`, `stream_decrypt_payload`, `write_decrypted_payload_atomic` | core specification |
| `EncryptStream` | `encrypt_file_*`, `write_envelope_and_payload`, `stream_encrypt_payload` | core specification |
| `AtomicOutput` | what a command promises about its output path | abstract specification both streams implement |
| `EncryptStreamProofs` | | chunks, frames and payloads of every size; inductive invariants and theorems about encryption; refinement of `AtomicOutput` |
| `DecryptStreamProofs` | | the same for decryption, with the lemmas about frames taken from `EncryptStreamProofs` (INSTANCE) |
| `BundleFormat` | `build_manifest`, `validate_layout`, `decode_manifest`, `verify_entry`, `diff_manifests` | constant module: layout, verification and comparison, with `WellFormed` as the reference definition of a bundle |
| `BundlePack` | `pack_directory`, `collect_sources`, `hash_file`, `copy_source_checked`, padding | two passes over a directory in use |
| `BundleExtract` | `extract_bundle`, `verify_bundle`, `list_bundle`, `persist_output` and the target checks | extraction into a directory in use |
| `BundleExtractProofs` | | what the reader's checks accept; theorems about extraction |
| `BundlePackProofs` | | what a manifest and its data are; theorems about packing and comparison, with the lemmas about the reader taken from `BundleExtractProofs` (INSTANCE) |
| `CapsulePolicy` | `policy.rs`, `preflight.rs`, the header choices of `M` | constant module: which rules an envelope violates, the verdict of a preflight |
| `SelfExtractor` | `create_sfx`, `build_sfx_file`, `extract_payload_from_reader` | constant module: what is appended to the stub and what the stub finds |
| `CapsuleCommands` | the commands that make one file from another (`lvau-cli`), `signing.rs`, `release.rs`, the running extractor | concurrent commands over the same paths (EXTENDS the two above) |
| `CapsuleCommandsProofs` | | what holds of one file (extractors, policies, histories), the inductive invariant over all files and the theorems |
| `KeyFiles` | `keygen`, `sign-keygen`, key generation in `lvau-gui`, `groups.rs`, `encrypt_file_keypairs` | concurrent processes over key pairs and a group |
| `KeyFilesProofs` | | theorems about pairs and slots |
| `RecoveryShares` | `recovery.rs`, `recovery split` and `combine` | concurrent commands over one directory of shares |
| `RecoverySharesProofs` | | theorems about splitting and combining |
| `DesktopWorker` | `start_task`, `poll_worker`, `run_task`, `run_crypto`, `build_sfx_file` (`lvau-gui`) | user-interface thread, worker thread and channel |
| `DesktopWorkerProofs` | | theorems about outcomes and progress |
| `MC...` | | the instances TLC checks |

`BundlePack` and `BundleExtract` extend `BundleFormat`. What they, the commands
and the desktop application take from encryption and decryption is what the
stream modules establish: the output is put in place in one step, as
`AtomicOutput` says, or not at all.

### Correspondence

*Control.* `pc` follows the functions: `read` is the `for _ in 0..BATCH_CHUNKS`
loop, `unseal`/`seal` the parallel iterator, `write` the loop that appends the
batch, `check` the length and trailing-byte tests, `sync`, `replace` and
`syncParent` the end of `write_decrypted_payload_atomic` and
`persist_temp_file`. `idx` is `global_chunk_idx`, `total` is
`total_bytes_written`, `eof` is `eof_reached`. Each `return Err` and `?` is an
action that ends in `error`, where the `NamedTempFile` is dropped.

*Data.* A plaintext is a short sequence. A frame is the sequence of its
ciphertext bytes, each of which knows the seal (file key and commitment), the
index and the chunk it came from; it opens exactly when it is one whole frame
made under the seal and index the reader asks for. This is the usual ideal
AEAD, and the nonce and associated data of `framing.rs` are functions of seal
and index. The three cascades differ only in `TAG_SIZE`. The commitment keeps
the version and, in format v2, the plaintext length; the other committed fields
behave like the length and are left out. `stored.unwraps` stands for everything
that decides whether the credential gives the file key (KDF, recipients and
their validation).

*Bundles.* A file is a short sequence of bytes and a hash the content itself. A
path in a manifest is the sequence of what stands between its slashes, so that
`d/a`, `d/./a` and `d//a` are three paths. `ValidPath` is
`validate_relative_path` on it; `Components` is what `Path::components` makes of
it, which passes over empty parts and dots behind the first name, and thus the
place it leads to (`FoldedPlace` where the file system does not tell upper from
lower case). `DistinctPaths` compares what is written, as `validate_layout` does.
A path that ends in a separator or a dot is valid and leads to a place, but names
no file (`Unnamed`): the rename fails there on Unix and may go through on Windows. `BundlePack` follows `pack_directory`: `walk` takes the
entries of `WalkDir` in any order, `hash` is the pass that records size and
hash, `copy` the pass that reads again, compares and appends. Reads return at
most `BUFFER_SIZE` bytes and other programs write, create and remove files
between any two. `BundleExtract` decrypts, checks layout and every hash, and then
takes an entry through `ensure_safe_extraction_parent`,
`validate_existing_target`, the temporary file and the rename, with other
programs changing the output directory between any two steps. `SortedRanges`
stands for the sort of `validate_layout` (`B` 312-316): some order of the
non-empty entries by their offsets, since the sort is unstable. `Listed` stands
for the sort of the paths (`B` 109): those of a set in the order of `PathOrder`. Listing and
verifying are the same run without extraction (`setting.mode`). Two places that
the file system folds into one are one node. The command line creates the output
directory before anything is verified, and so does the model.

*Commands.* `CapsuleCommands` keeps of a capsule its version, what it was made
from, the choices its header shows, the override flag, signature, approvals and
attached metadata. A process has at most one
command; reading the input and writing the output are separate steps, so that
commands of two processes interleave. A signature is the key and the statement
signed, which `AuthorMessage` and `ApprovalMessage` take from
`author_signature_message` and `approval_signature_message` field by field.
`under` and `log` are history: the policy of the encryption, and what was
annotated when, which the properties compare with what the verifying commands
accept. An input is read in one step because every command opens it once; what
happens between reading and the rename is the work of the stream modules.

*Policies.* `Fails` is `lint_envelope` rule by rule; an optional rule is a set
with at most one element. Of the header the lint sees profile, kind of
credential and number of recipients; algorithm, KDF and its costs follow from
these as in `M`. An encryption is linted on the envelope as it is built, before
any annotation exists (`Refused`), so that a policy asking for a signature, an
approval, release metadata or recovery can only be met with the override.
`Verdict` is the last match of `run_preflight`, with the outcome of the signature
check as a parameter.

*Self-extractors.* An executable is the stub, the bytes of the file at the
intermediate path and a trailer of length and magic; bytes are a few cells, so
that a capsule inside an executable inside a capsule is a finite thing. Building
is `WriteIntermediate`, `BuildSfx`, `PlaceSfx`, `RemoveIntermediate`, each a step
others can come between; a stub that is missing and every error leave what the
code leaves. The extractor creates its output, fills it and, if that fails,
removes whatever has the name (`CreateOutput`, `FillOutput`, `FailOutput`).

*Keys and groups.* A pair is the number of the command that generated it, so
that two halves can be compared. `SavePrivate` and `SavePublic` are the two
writes; `MayReplace` tells the atomic rename without replacement of `sign-keygen`
from the plain write of `keygen`. `group` is `torn` between the truncation and
the write of `fs::write`; meanwhile, and after a kill, any whole number of members
may be there (`CutGroup`). Where two writes overlap, the end of a longer one stays
behind a shorter one, which leaves no group or one with members of both
(`Written`). `Without` is
the `retain` of `remove`, written as the increasing enumeration of the positions
that stay, which the provers can expand. `Member` is
the public key as it was when it was copied into the group; it may not be the one
on disk any more, and a user may have damaged it, so that it does not decode
(`sound` is false) or decodes as a key that is nobody's (`Nobody`): `from_format`
takes any 32 bytes for an X25519 key. `alone`, `kept` and `gone` are history:
the pairs of which an edit that no other overlapped put a key into the group, or
took the last one out. A capsule carries as history whom its user may count on
(`Promise`). Key wrapping is ideal.

*Shares.* A share names its set (`fingerprint`), and `line` stands for the
polynomial behind it: shares give their secret only if they are of one line,
undamaged and enough, and `Garbage` otherwise. Legacy sets of one secret have
the same fingerprint, a hash of the secret, but different lines.

*Desktop.* One pass of the loop in `poll_worker` is one step, as is each call
on the worker thread. A panic unwinds the thread and with it closes the channel in
a development build; the profiles `release` and `release-small` have
`panic = "abort"` (`Cargo.toml` 10-25), and there it ends the application
(`build`, `Aborts`, `alive`).

*Environment of decryption.* `Stored` holds capsules together with the
plaintext and seal of the encryption that wrote them. `StoredAssumption` says
that ciphertext bytes carrying that encryption's file key come from it
(unforgeability; the key is random and used once) and that it declared the true
length. Everything else about the capsule is arbitrary. The capsule file does
not change while it is read; `stored` is constant.

*Environment of encryption.* `EditSource` appends, truncates or overwrites the
source between any two steps. One chunk is read in one step: a read that mixes
two contents inside a chunk differs from the modelled ones only in bytes no
property distinguishes.

*Output.* `path` is what opening the output finds, `disk` what its durable
directory entry says, `flushed` whether the temporary file's bytes are durable.
A power loss leaves `path` at either, on Windows also without the file that was
removed before the rename, and a file whose bytes were not flushed is `Torn`. `setting.bare` says that the output path has no directory part, so that
its `parent()` is the empty path. The concrete reason why such a name fails is
that `File::open("")` cannot succeed.

## 3. Runs

| Run | Shows |
|---|---|
| `decrypt_stream` | `TypeOK`, `AuthenticPrefix`, `WholeOnSuccess`, `OldOrComplete`, `NoTempLeft`, `IntactAccepted`, `Terminates`, `ImplementsAtomicOutput` of decryption and verification |
| `encrypt_stream` | `TypeOK`, `CanonicalPayload`, `StableSource`, `ImplementsAtomicOutput` of encryption over a changing source |
| `bundle_pack` | `TypeOK`, `PackedVerifies`, `StableDirectory`, `DiffExact`, `Terminates` of packing, and of comparing what was packed with the directory before |
| `bundle_extract` | `TypeOK`, `OutputsWhole`, `SuccessComplete`, `WellFormedAccepted`, `NeverOverwrites` of verification and extraction |
| `capsule_commands` | `TypeOK`, `AlwaysReadable`, `AuthorExact`, `ApprovalExact`, `PolicyKept`, `ExtractorsWhole`, `NeverOverwrites` of concurrent commands |
| `key_files` | `TypeOK`, `PairMatches`, `MembersOpen` of concurrent key generations, and of concurrent group edits, a key generation and encryptions |
| `recovery_shares` | `TypeOK`, `RecoveredIsSecret`, `SplitRecoverable`, `NothingReplaced` of concurrent splits and a combination |
| `desktop_worker` | `TypeOK`, `OneOutcome`, `ProgressOfTask`, `ResultArrives` of the desktop application |
| `decrypt_empty_frame` | violation of `SuccessAuthenticates` (finding 1) |
| `encrypt_bare_name` | violation of `FailureLeavesPath` (finding 2) |
| `bundle_case_collision` | violation of `PackedOpens` (finding 3) |
| `secret_encrypt_overwrites` | violation of `ForceRequired` (finding 4) |

`AtomicOutput` is what remains of a stream when only its output path is looked
at; that both streams implement it contains that the path holds the old or the
complete file and that a reported success is durable, and, with fairness, that
they end. `Aligned` and `DurableSuccess` of `DecryptStream`, and `OldOrComplete`
and `Terminates` of `EncryptStream`, follow from it or from the properties above
and are not run by themselves.

`CanonicalPayload` says that an encryption writes `PayloadOf` of what it read,
and `IntactAccepted` with `WholeOnSuccess` that a decryption of `PayloadOf`
succeeds and returns the plaintext: together they are the round trip.

*Bounds.* `CHUNK_SIZE = 2`, `BATCH_CHUNKS = 2`, `TAG_SIZE = 1`: full and short
chunks differ, full and short batches differ, a tag is neither empty nor a
chunk. Decryption takes plaintexts of 0 to 9 bytes (two full batches and a
short chunk: every position of the end relative to chunk and batch) in both
versions, and damages those of 0, 2 and 5 bytes in every place: ends cut off,
bytes lost or changed, frames appended, repeated, exchanged or taken from an
older capsule, the length field changed with and without a matching hash, the
version changed, the credential wrong. Encryption takes sources of 0 to 5
bytes, at most 6 after at most `MaxEdits = 2` changes: one before and one after
any point, which a race needs. Bytes of a decrypted plaintext are all different,
so that exchanged chunks show; a source needs two values, its old and a new one.
Deadlock is not checked where an operation really ends in `ok`, `error` or
`crashed`, or where the bounded number of commands has been given.

Bundles are packed from directories of up to four paths and two bytes a file,
read one byte at a time, with up to two changes by others: a change between the
passes and one within either. Extraction takes nineteen payloads, well-formed and
with one defect each, two in which two paths lead to one place, and two with a
name like a drive, into eleven directories, free and obstructed, on both
platforms, with names that fold together, and one change by another program at
any moment. Commands: two capsules, a document, a self-extractor and its
intermediate file, two keys, three policies (none, one that depends on the
encryption alone, one that only annotations meet), headers of three kinds, three
commands of which two overlap; three suffice to encrypt or sign, annotate and
annotate again, to exceed an envelope of two approvals, and to build an extractor
of a capsule while another command uses the intermediate file and to run it. `MAX_ENVELOPE` counts
approvals because they are what repeated commands add. Shares: sets of two and
three with thresholds one and two and an impossible one, two splits, one
combination and one change, next to an empty directory, legacy shares of two
sets, or an older set of the current version of which one share is damaged; the two processes are interchangeable and the run uses that symmetry (it
checks safety only). Keys: one signing pair and two hybrid pairs, there or not, four commands by two
processes, so that two generate one pair at once, each with and without `--force`,
after another generation. In the same run, groups: two hybrid pairs that are there, one of them
replaced, one group, an envelope of two recipients, one damaged key, four commands
by two processes: create, add, add and encrypt, or an edit while another one and
an encryption are under way. Both with symmetry. Desktop: two operations of up to two reports, so that a
second follows a first that ended in any way.

*Fairness.* In `BundlePack` as in the streams, `WF_vars(Progress)`: a
running process and its pool threads are scheduled and system calls return. Faults (`StreamIOError`, `Fault`) and edits
of the source need not happen. Without the bound on edits a source growing
faster than it is encrypted could keep `stream_encrypt_payload` busy forever, so
the liveness in `ImplementsAtomicOutput` of `EncryptStream` is a statement about
sources that stop changing.
In `DesktopWorker`, `WF_vars(Poll)`: while it is busy the application asks for a
frame every 100 ms (`main.rs` 534-537), and each worker thread is scheduled; that
threads fail or panic is never assumed. `BundleExtract`, `CapsuleCommands`, `KeyFiles` and
`RecoveryShares` state safety only.

## 4. What the checks found

1. *An empty v2 capsule without its frame is accepted.* When the payload ends
   where the first frame should begin, the reader leaves the loop with an empty
   batch (`P` 308-311, 331-333) and finds 0 bytes written equal to the declared
   0. Nothing was authenticated, whereas `docs/FORMAT.md:88` says a successful
   v2 decryption authenticates the committed fields and the hardening design
   (line 24) that the authenticated empty frame makes this impossible.
   `WholeOnSuccess` therefore speaks of non-empty declared lengths.
2. *A plain output file name makes a completed command fail on Unix.*
   `parent()` of `secret.txt.lvau` is the empty path, whose `File::open` in
   `persist_temp_file` (`M` 326-329) fails after the rename. `CHANGELOG.md:65`
   says a failed command leaves no output file behind; `README.md:22` uses such
   a name.
3. *Pack accepts what no command opens.* A directory with `A.txt` and `a.txt`
   is packed and reported as a success; `validate_layout` (`B` 294) refuses paths
   equal after `to_lowercase`. `PackedVerifies` therefore speaks of directories
   without such names.
4. *`secret encrypt` replaces an existing capsule.* It derives the output name,
   does not look at it and has no `--force` (`lvau-cli/src/main.rs` 2059-2100),
   whereas `CHANGELOG.md:124` says output files are not replaced without it. The
   same property fails, with two processes, for every command that looks at its
   output once and renames over it at the end: encrypt, decrypt, bundle pack,
   release and recovery attach. Only sign, approve, extraction, recovery and
   self-extractors use a rename that does not replace.

## 5. Observations

Behaviour met while modelling that no document of the repository speaks about,
that is out of a run's reach, or that a property of a passing run already states:

- *A source that changes its length while it is encrypted.* `plaintext_len` comes
  from `fs::metadata` (`M` 465) and the number of bytes read is never compared
  with it: success is reported and the reader refuses the capsule.
  `StableSource` therefore speaks of sources that stay as they are.
- *The intermediate capsule of `encrypt --sfx`* has a name made from the stem of
  the output only (`lvau-cli/src/main.rs` 1095): two outputs of one stem share it, a
  file that has that name is replaced and then removed without `--force`, also when
  it is the input, and it stays behind when building fails, unless the stub was missing. Two commands at once
  may therefore each build an extractor of the other's capsule, which is why
  `ExtractorsWhole` asks for one whole file and not for one's own.
- *A failed write of the extractor* removes whatever has the output's name by then.
- *Key generation.* `keygen` looks at the paths before it generates the keys
  (`main.rs` 1043-1057) and then replaces what it finds; the desktop application
  does not look. Two such generations at once, or a forced one that is killed
  between the two files, can leave the halves of two pairs. `PairMatches` speaks
  of the cases where the code prevents it.
- *Groups.* Edits at the same time lose members, and a write that is cut off can
  leave a valid group with fewer members; one that writes over another may leave
  members of both. `group add` parses the JSON of a key but does not decode the key
  in it. One that does not decode makes every encryption to the group fail; one that
  was damaged and decodes all the same gets a slot, and its owner cannot open the
  capsule, which `MembersOpen` leaves out by the pair such a key counts for.
  `group remove` compares names, though
  its help (`main.rs` 676) says name or fingerprint.
- *Policies.* One that asks for a signature, approvals, release metadata or
  recovery refuses every encryption without the override, and so does one that
  asks for a metadata profile or padding, which the lint cannot see. A policy
  file is written in place; one read while it is cut off is a weaker policy.
- *Two paths of a bundle may lead to one file.* `validate_relative_path`
  (`lvau-core/src/bundle.rs` 71-83) looks at components, which leave out dots and
  empty parts, and `validate_layout` (`B` 294) compares the paths as they are
  written. A bundle with `d/a` and `d/./a` verifies, and `extract --force` writes
  both to one file and reports success; without `--force` the second one is an
  error after the first is in place. The hardening design
  (`docs/plans/2026-07-15-v0.4.0-hardening-design.md:57`) says that normalized,
  collision-free paths are validated before extraction, and `CHANGELOG.md:44` that
  canonical manifests are checked. The packer writes no such paths.
  `SuccessComplete` states exactly this: a later path of the bundle may lead to the
  same place under `--force`, and only bundles with normalized paths are sure to be
  `WellFormed`. A single path with a dot or an empty part inside is accepted too,
  as is one that ends in a separator, which cannot be extracted on Unix.
- *Panics in the desktop application.* "Background operation ended unexpectedly"
  (`lvau-gui/src/main.rs` 158-159) appears in builds that unwind only. What is
  released is built with the profile `release` (`release.yml:143`, `build.ps1:5`),
  where a panic of a worker ends the application without a word.
- *Preflight* with a verifying key reads the capsule a second time, so that the
  verdict may combine two capsules.
- *Documents and options.* `RECIPIENT_GROUPS.md` describes `bundle extract
  --priv-key`, which the command line does not have; `bundle pack` ignores
  `--public-label` (`main.rs` 1611).
- *Shares* of a secret of about 1 MiB are written without a limit but refused by
  `read_share_file`; and version-2 shares, unlike version-1 shares, carry nothing
  that would show that a share was damaged, so `RecoveredIsSecret` asks for
  undamaged ones there.
- *On Windows* the output is removed before the rename, so the path may be missing
  after a fault; the hardening design accepts this and `OldOrComplete` and
  `AtomicOutput` (variable `strict`) state it.

## 6. Proofs

Every theorem holds for all values of the constants that satisfy the named
assumptions, which TLC evaluates on the instances.

### Decryption

`DecryptStreamProofs` proves for every chunk, batch and tag size, every
plaintext, every admissible set of capsules and every order of the workers that
`TypeOK`, `Aligned`, `AuthenticPrefix`, `WholeOnSuccess`, `IntactAccepted`,
`OldOrComplete`, `NoTempLeft` and `DurableSuccess` always hold, and that every
step of a decryption is a step of `AtomicOutput` or a stutter. They rest on
`FormatAssumption` (the sizes are positive) and `StoredAssumption` (ideal AEAD,
honest writer).

*The argument.* `AuthenticPrefix` is not inductive: to know that a chunk written
next continues the output one must know that `total` is `idx + written` chunks,
which holds because every frame but the last of the stream is full (`Aligned`),
and that an opened frame really is that chunk, which holds because its first
byte came out of the payload (`Genuine`) and was made by the writer
(`StoredAssumption`, lemma `AuthenticFrame`). `SealChecked` adds that the
envelope was accepted, that a non-empty output was opened under the writer's own
seal, and that an accepted payload has the declared length; in format v2 the
seal fixes the length, so the output is the whole plaintext. `IInv` is the
conjunction; one lemma per action that touches the stream shows it is kept, and
`QuietStep` covers all the others. `OutInv` records what path, durable entry and
temporary file are at each stage of persisting; the refinement is by cases on
the kinds of step listed in `StepKinds`.

`IntactAccepted` speaks of all of a payload that a recursive function makes of a
plaintext. `PayloadFrames` says what that payload is, frame by frame, by an
induction on the number of chunks that is stated about a set of numbers, so that
no theorem with an operator parameter is needed. `OnTrack` then says where the
reader is in the payload when nothing has gone wrong: what it has read is whole
frames, and what is left begins with the next one. The lemmas about frames are
those of `EncryptStreamProofs`, instantiated with values that satisfy its
assumptions; `BundlePackProofs` takes its own from `BundleExtractProofs` likewise.

### Encryption

`EncryptStreamProofs` proves `TypeOK`, `CanonicalPayload`, `StableSource` and the
refinement of `AtomicOutput` for all sizes and for every source another program
may leave. A finished capsule is the reference payload of some plaintext,
although the source may change between any two reads: `Chunked` says that every
chunk read but the last is full, also across batches, and `FramesWritten` that
the temporary file holds exactly the frames of what was read. `SourceRead` adds,
as long as nobody changed the source, that what was read is its beginning.
With `IntactNeverRefused` and `AcceptedIsWhole` this is the round trip for
every size.

### Commands

`CapsuleCommandsProofs` proves, for any number of processes, paths, keys,
policies and commands, `TypeOK`, `AlwaysReadable`, `AuthorExact`,
`ApprovalExact`, `PolicyKept`, `ExtractorsWhole` and `NeverOverwrites`: all
properties of the run `capsule_commands`. They rest on `CommandAssumption` (what
the command line lets a user ask for) and `InitialAssumption` (at first there are
plaintexts and what an encryption made of them).

*The argument.* A file may hold files that hold files: `decrypt` takes one out of
a capsule, an extractor one out of an executable, and what comes out must satisfy
the properties again. An invariant about the files in their places is therefore
not inductive. `FileInv` says that there is a set `G` closed under taking out
(`Closed`) of which every file and every result under way is a member, each
`FileOK`; a step adds at most one member, and `ClosedAdd` shows that this keeps
`G` closed. That an extractor finds a member of `G` and nothing else is
`FramedExtracts`, about sequences, and `OpenedKnown`.

The lemmas about one capsule are collected in `CapsuleOK`. `PolicyKept` needs that the
capsule without annotations satisfies its policy (`Lawful`): annotations then
only satisfy further rules (`AnnotationsSatisfy`). `AuthorExact` needs to know of
what the last signature's statement consists (`Authored`, with the approvals the
capsule had then as a prefix of those it has now); `ApprovalExact` that seals and
approving entries of the history correspond to one another (`SealsOK`).
`EncryptionOK` and `AnnotationOK` show that whatever makes a capsule makes one of
this kind. `NeverOverwrites` is an action property: `OthersStay` shows that a
step of another process leaves the command alone, `OwnStepKeeps` goes through the
command's own steps.

### Keys and groups

`KeyFilesProofs` proves `TypeOK`, `PairMatches`, `EditsLast` and `MembersOpen` for
any number of processes, names and members. `PairMatches` is not inductive: that a public key
never comes without its private key (`OrderInv`) needs what a process between the
two files may rely on. Without `--force` the private key it wrote stays
(`HalfInv`), a hybrid pair alone on its name starts from free paths (`FreeInv`),
and two of them on one name make it one the property excludes (`AloneInv`).
`EditsLast`, that what an undisturbed edit of the group did lasts, and `MembersOpen`
rest on `RosterInv`; `EditsLast` is proved only, since `MembersOpen` shows on the
instance what it is for. An edit works on what it read, so what it is about to write must respect what has been certain since (`EditInv`),
although another edit may have become certain in between: the one that is `alone`
is the only edit under way (`SoleInv`). `GroupInv` says the same of the group,
also while it is written and of what an overlapping write leaves, and `SealInv`
that the slots of a capsule, written or not, keep what was promised when the group
was read.
`TypeOK` needs that the members a command is about to write are members of a group
too (`TypeInv`), whatever `remove` leaves of one (`WithoutType`).

### Bundles

`BundleExtractProofs` proves first that the checks of the reader mean what they
should: `AcceptsWellFormed` says of every manifest and every data that what is
accepted is `FilesSound`, and that of payloads with normalized paths exactly the
`WellFormed` ones are accepted. Both halves are needed: between them are the
bundles in which two paths lead to one file (section 5). The reader sorts the entries and compares neighbours; the
definition says of any two that they share no byte. `SortedExists` shows, by
induction on the number of entries, that there is an order, so that the `CHOOSE`
of `SortedRanges` names one, and `NoOverlapApart` that neighbours apart means all
apart, which takes entries that are not empty.

Then it proves all properties of the run `bundle_extract`: `TypeOK`,
`OutputsWhole`, `SuccessComplete`, `WellFormedAccepted` and `NeverOverwrites`, for
every set of payloads and of initial directories, on file systems that fold names
and those that do not, and for any number of changes by other programs. They rest
on `ExtractAssumption`: the places include the directories of accepted paths, and
a manifest that can be read has the fields of its type.

*The argument.* `CountInv` ties the control state to the entry and the depth that
was ensured, `BundleInv` says what has been verified at each point (everything,
before anything but the output directory is created) and that a replacement
happens under `--force` only. `OutputsWhole` alone is not inductive: a target may
be missing only while *its* entry is being replaced, and a file may be in a
place only if its entry has been written. `TreeInv` says so of every place no
other program changed, and that a target about to be replaced is still the
ordinary file that was there. Two entries may have one place, so that
the file there is that of some entry already written. `DoneInv` says that each
entry before the current one has its file or is `Followed`: under `--force` a later
one, up to the one at hand, has the same place. `OwnPlaces` (two entries never have one
place, also after folding) is left for well-formed bundles only, and that no
entry's directory is another entry's file for `WellFormedAccepted`.
`WellFormedAccepted` needs `Clear`, which holds as long as nobody interferes: the
directories ensured so far are directories, and the target stays as it was looked
at; `RejectExcused` then goes through every error return and finds the reason for
it in the bundle or in what was there before.

`BundlePackProofs` proves `TypeOK`, `PackedVerifies`, `StableDirectory` and
`DiffExact`, for every buffer size, set of paddings and of directories, and any
number of changes by other programs at any point. They rest on `PackAssumption`
(the paths are sequences of names, a directory gives each of them a kind and a
content, the buffer is not empty). `Listed`, the offsets of `BuildManifest` and the
bucket of `PaddedLength` are recursive functions on an initial part of the numbers:
`Unfolding` shows by induction that such a function exists and obeys its
equations, `ListedMembers`, `ManifestFacts` and `PaddedIsLonger` what the three
compute.

`PackedVerifies` is about the payload, which the two passes make of what the files
happened to hold when each was read. `RecordInv` says of the first pass that the
sources are the paths found, in their order, each with a hash of the size recorded;
`CopyInv` of the second that `plain` is, up to the entry being copied, the recorded
contents one after the other with nothing in between: `copy_source_checked` refuses
anything else. `SliceAppended` and `SliceStays` keep what was copied, padding
included; `ManifestOrdered` says that the entries follow one another, so that they
share no byte and pass the reader's sort (`ApartAccepted`, again by
`NoOverlapApart`). `StableInv` adds, as long as nobody
has changed the directory, that what was found and read is what it holds.
`DiffExact` follows from the same facts about the manifest of either bundle.

### Shares

`RecoverySharesProofs` proves all properties of the run `recovery_shares`:
`TypeOK`, `RecoveredIsSecret`, `SplitRecoverable` and `NothingReplaced`, for any
number of processes, slots and sets, from `InitialAssumption` (what was in the
directory before was made by earlier splits, damaged or not). A combination
accepts shares by the fingerprint they carry, the property speaks of the secret
they come from. `ShareInv` says that there is a function from the identifiers of
sets to a line and a secret (`dealer`) that every share of the current version
obeys, whether it is in a slot (`FileInv`), in the memory of a process (`TaskInv`)
or behind what was written (`OutputInv`), and that the sets to come have no
identifier in it yet (`FreshInv`), so that a new dealing extends it. For
`SplitRecoverable`, `WriterInv` says which of its shares a split has written so
far, and `ReportInv` what is so once it has reported.

### Desktop application

`DesktopWorkerProofs` proves `TypeOK`, `OneOutcome` and `ProgressOfTask` for any
number of operations and reports. Both are about messages in flight: `QueueOK` says
of the channel of an operation that its reports grow, that a result is last, that
there is one at most, and that it is the one its thread ended with. `DInv` adds
what a worker may still send (`WorkerInv`), that channels of earlier operations
are never read again (`OthersInv`) and how `busy` goes with them (`BusyInv`).

### Model-checked only

Every safety property of every passing run is proved. Liveness (`Terminates`,
`ResultArrives`) and the fairness part of the two refinements are out of the
prover's reach; the properties of the four runs that expect a violation are false.

## 7. Plan

Done: the streams and their output, bundles and their comparison, the commands
that make one file from another with policies and self-extractors, key pairs and
groups, recovery shares, the desktop application's worker, each with proofs of
all its safety properties. Left, in this order:

1. The round trips as theorems of their own: that `DecryptStream` gives back, of
   a capsule `EncryptStream` made, the source, and `BundleExtract` of a bundle
   `BundlePack` made the directory. The lemmas they need are there
   (`IntactNeverRefused`, `AcceptedIsWhole`, `WritesCanonical`; `PacksExactly`,
   `PacksWhatVerifies`, `SuccessTrue`).
2. Safety theorems about what the violation runs show on the instances: under
   which condition the property a document states does hold (`FailureLeavesPath`
   for outputs in a named directory, `ForceRequired` for the commands that rename
   without replacing, `PackedOpens` for directories without colliding names).

## 8. Not modelled

The ciphers, hashes, key derivation, key wrapping and encodings themselves; the
experimental suite v3, which no command reaches; argument parsing, printing,
reports, logging and layout of the user interfaces; memory hygiene (zeroizing).
Of policies, `policy create` and the second reading of a preflight; of the format,
the committed fields that behave like the plaintext length. In-memory decryption,
which the extractors call, has the checks and the stream of `DecryptStream` with a
vector as its writer, and `inspect` only reads. Key generation on Windows, which
removes the old file first, and a binary whose bytes change while it runs are left
out. The file systems are assumed to keep what was flushed. Power losses are
modelled where a document speaks of durability, for the output of encryption and
decryption, and left out of extraction, whose created directories the code does
not flush, and of keys and groups. A name that is
not UTF-8 becomes one with replacement characters when it is packed (`B` 103);
names that Windows alters (a trailing dot or blank, device names) and the Unicode
normalisation of some file systems are left out, as is a link that another program
puts in place of a directory extraction has already ensured, which the code
follows. `RecoveryShares` leaves out the limit of 1 MiB for a share file
(`recovery.rs` 18, 24) and the error for a share that does not parse
(`recovery.rs` 202-203), both of which only refuse. A panic of the user-interface
thread, which ends the application in every build, is not modelled. A directory
that is removed while it is being
walked, and networks of processes that share a directory under another name, are
left out.
