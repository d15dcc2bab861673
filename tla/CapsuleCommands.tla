-------------------------- MODULE CapsuleCommands --------------------------
(***************************************************************************)
(* Commands of lvau-cli that read one file and write another, run by       *)
(* several processes over the same paths: encrypt, with a policy and as a  *)
(* self-extractor, and decrypt, the secret commands, author signatures,    *)
(* approval seals, and release and recovery metadata; and the extractors   *)
(* that run (lvau-stub).                                                   *)
(*                                                                         *)
(* A command checks its paths, reads its input, computes the output and    *)
(* puts it in place by a rename, as AtomicOutput says of Unix; how the     *)
(* streams get from one to the other is in EncryptStream and               *)
(* DecryptStream.  Ed25519 is ideal: a signature is the key and the        *)
(* message.  A key stands for its fingerprint too.                         *)
(***************************************************************************)
EXTENDS Naturals, Sequences, FiniteSets, CapsulePolicy, SelfExtractor

CONSTANTS
  Processes,
  Paths,
  Keys,          \* signing keys
  Texts,         \* plaintexts
  Policies,      \* policy files there are
  Intermediate,  \* where encrypt --sfx first writes, for each output
  Commands,      \* what users may start
  InitialFiles,  \* what the paths may hold at first
  MAX_ENVELOPE,  \* approvals that fit in an envelope (512 KiB in the code)
  MaxCommands    \* bound on the commands started

Signers   == {"sign", "approve"}
Attachers == {"release", "recovery"}
Annotators == Signers \cup Attachers
Streams   == {"encrypt", "sfx", "decrypt"}
Secrets   == {"secretEncrypt", "secretDecrypt", "secretEdit"}

ASSUME CommandAssumption ==
  /\ Commands \subseteq
       [op : Annotators \cup Streams \cup Secrets \cup {"extract"},
        in : Paths, out : Paths, force : BOOLEAN, key : Keys \cup {NoKey},
        policy : Policies, override : BOOLEAN,
        header : [profile : Profiles, kind : {"password", "hybrid"},
                  count : Nat \ {0}]]
  /\ \A c \in Commands :
       /\ c.op \in Signers => c.key \in Keys
       /\ c.op = "secretEdit" => c.in = c.out
       /\ c.op \in Secrets =>
            ~c.override /\ c.header = PasswordHeader("Balanced")
       /\ c.op = "extract" => ~c.force
  /\ Intermediate \in [Paths -> Paths]
  /\ \A path \in Paths : Intermediate[path] # path
  /\ \A policy \in Policies : policy.require_approval_signatures_min \in Nat
  /\ MAX_ENVELOPE \in Nat /\ MaxCommands \in Nat

VARIABLES
  files,   \* what each path holds
  task,    \* the command of each process and how far it is
  started  \* commands started so far

vars == <<files, task, started>>

(***************************************************************************)
(* Files.  A capsule's core is what its payload commits to; the other      *)
(* fields are annotations.  Two are history: under, the policy of the      *)
(* encryption, and log, the annotating commands since then, each with the  *)
(* annotations it left.                                                    *)
(***************************************************************************)
Absent == [kind |-> "absent"]
Plain(text) == [kind |-> "plain", text |-> text]

Unsigned == [key |-> NoKey]

(* An extractor's output that is not all written yet. *)
Partial(p) == [kind |-> "partial", by |-> p]

(* The capsule an encryption makes; it never has a public label.  The      *)
(* option --allow-policy-override alone sets the flag.                     *)
Encrypted(version, file, id, cmd) ==
  [kind |-> "capsule", version |-> version,
   core |-> [file |-> file, id |-> id, header |-> cmd.header,
             overridden |-> cmd.override, label |-> 0],
   sig |-> Unsigned, approvals |-> <<>>, release |-> 0, recovery |-> 0,
   under |-> cmd.policy, log |-> <<>>]

IsCapsule(f) == f.kind = "capsule"

(* The parser refuses a longer envelope. *)
Fits(c) == Len(c.approvals) <= MAX_ENVELOPE

(* The policy is linted before anything is written. *)
Refused(c, cmd) == ~cmd.override /\ ~IsValid(c, cmd.policy)

(* At first there are plaintexts and what an encryption made of them.      *)
ASSUME InitialAssumption ==
  \A fs \in InitialFiles :
    /\ DOMAIN fs = Paths
    /\ \A path \in Paths :
         LET f == fs[path]
         IN  \/ f = Absent
             \/ f.kind = "plain"
             \/ /\ IsCapsule(f) /\ f.core.file.kind = "plain"
                /\ f.version \in {LEGACY_VERSION, CURRENT_VERSION}
                /\ \E cmd \in Commands :
                     /\ f = Encrypted(f.version, f.core.file, 0, cmd)
                     /\ ~Refused(f, cmd)

Idle == [state |-> "idle"]

Init ==
  /\ files \in InitialFiles
  /\ task = [p \in Processes |-> Idle]
  /\ started = 0
-----------------------------------------------------------------------------
(* Mutant: the approvals stay in the statement the author signs.           *)
ApprovalsSignedMutant(c) ==
  [kind |-> "author", core |-> c.core, release |-> c.release,
   recovery |-> c.recovery, key |-> c.sig.key, stamp |-> c.sig.stamp,
   approvals |-> c.approvals]

(* author_signature_message: in v2 the signature's metadata but not the    *)
(* approvals, in v1 the approvals but nothing of the signature.            *)
AuthorMessage(c) ==
  IF c.version >= CURRENT_VERSION
  THEN [kind |-> "author v2", core |-> c.core, release |-> c.release,
        recovery |-> c.recovery, key |-> c.sig.key, stamp |-> c.sig.stamp]
  ELSE [kind |-> "author v1", core |-> c.core, release |-> c.release,
        recovery |-> c.recovery, approvals |-> c.approvals]

(* Mutant: the author's signature is not part of what is approved.         *)
UnsignedArtifactMutant(c, key) ==
  IF c.version < CURRENT_VERSION
  THEN [kind |-> "approval", core |-> c.core]
  ELSE [kind |-> "approval", core |-> c.core, release |-> c.release,
        recovery |-> c.recovery, key |-> key]

(* approval_signature_message: in v1 the aad_hash alone, in v2 the         *)
(* envelope without approvals but with the author's signature.             *)
ApprovalMessage(c, key) ==
  IF c.version < CURRENT_VERSION
  THEN [kind |-> "approval", core |-> c.core]
  ELSE [kind |-> "approval", core |-> c.core, release |-> c.release,
        recovery |-> c.recovery, sig |-> c.sig, key |-> key]

(* sign_file replaces any signature by its own.  The clock gives one of    *)
(* two readings: two signatures may fall into the same second.             *)
Signed(c, key, stamp) ==
  LET blank == [c EXCEPT !.sig = [key |-> key, stamp |-> stamp]]
  IN  [blank EXCEPT !.sig = [key |-> key, stamp |-> stamp,
                             signer |-> key, message |-> AuthorMessage(blank)]]

(* add_approval_seal *)
Approved(c, key) ==
  [c EXCEPT !.approvals =
     Append(@, [key |-> key, signer |-> key,
                message |-> ApprovalMessage(c, key)])]

(* verify_signature with the verifying key of key. *)
AuthorValid(c, key) ==
  /\ c.sig # Unsigned
  /\ c.sig.key = key
  /\ c.sig.signer = key /\ c.sig.message = AuthorMessage(c)

(* verify_approvals *)
ApprovalValid(c, key) ==
  \E i \in DOMAIN c.approvals :
    LET seal == c.approvals[i]
    IN  /\ seal.key = key
        /\ seal.signer = key /\ seal.message = ApprovalMessage(c, key)

(* The annotations a command leaves, for the history. *)
Logged(c, cmd) ==
  [c EXCEPT !.log = Append(@, [op |-> cmd.op, key |-> cmd.key,
                               sig |-> c.sig, seals |-> Len(c.approvals),
                               release |-> c.release,
                               recovery |-> c.recovery])]
-----------------------------------------------------------------------------
Command(p) == task[p].command

Advance(p, t) == task' = [task EXCEPT ![p] = t]

(* The command goes on with one of the results. *)
Produce(p, results) ==
  \E r \in results :
    Advance(p, [state |-> "ready", command |-> Command(p), result |-> r])

(* Mutant: a command that has ended is not forgotten. *)
KeepTaskMutant(p) ==
  Advance(p, [state |-> "idle", command |-> Command(p)])

(* A command ends, by a success or by an error; a user may start the next. *)
End(p) == Advance(p, Idle)

(* Mutant: the size of the new envelope is not checked. *)
UncheckedMutant(p, results) == Produce(p, results)

(* encode_envelope_checked: a result that does not fit in an envelope is   *)
(* an error.                                                               *)
EncodeChecked(p, results) ==
  \E r \in results : IF Fits(r) THEN Produce(p, {r}) ELSE End(p)

Available(c) == c.force \/ files[c.out] = Absent

(* ensure_input_file, ensure_distinct_file_paths and                       *)
(* ensure_output_available; secret encrypt and edit and an extractor ask   *)
(* only for an input.                                                      *)
Begin(p, c) ==
  /\ task[p] = Idle
  /\ started < MaxCommands
  /\ started' = started + 1
  /\ IF /\ files[c.in] # Absent
        /\ c.op \in Streams => c.in # c.out
        /\ c.op \in {"secretEncrypt", "secretEdit", "extract"} \/ Available(c)
     THEN Advance(p, [state |-> "begun", command |-> c, id |-> started'])
     ELSE UNCHANGED task
  /\ UNCHANGED files

(* encrypt_file_*: any file is a plaintext to it, a capsule too.           *)
ReadPlaintext(p) ==
  /\ task[p].state = "begun"
  /\ Command(p).op \in {"encrypt", "sfx", "secretEncrypt"}
  /\ LET f == files[Command(p).in]
         c == Encrypted(CURRENT_VERSION, f, task[p].id, Command(p))
     IN  IF f = Absent \/ Refused(c, Command(p)) THEN End(p)
         ELSE Produce(p, {c})
  /\ UNCHANGED <<files, started>>

(* decrypt_file_* *)
ReadCapsule(p) ==
  /\ task[p].state = "begun"
  /\ Command(p).op \in {"decrypt", "secretDecrypt"}
  /\ LET f == files[Command(p).in]
     IN  IF IsCapsule(f) /\ Fits(f) THEN Produce(p, {f.core.file}) ELSE End(p)
  /\ UNCHANGED <<files, started>>

(* secret edit: decryption to a private copy, which an editor changes; the *)
(* copy is encrypted anew.                                                 *)
Edit(p) ==
  /\ task[p].state = "begun"
  /\ Command(p).op = "secretEdit"
  /\ LET f == files[Command(p).in]
         edited(t) ==
           Encrypted(CURRENT_VERSION, Plain(t), task[p].id, Command(p))
         results == {c \in {edited(t) : t \in Texts} : ~Refused(c, Command(p))}
     IN  IF IsCapsule(f) /\ Fits(f) /\ results # {}
         THEN Produce(p, results)
         ELSE End(p)
  /\ UNCHANGED <<files, started>>

(* Mutant: the release metadata goes into a new envelope, without the flag. *)
UnflaggedMutant(c) ==
  {[c EXCEPT !.release = m, !.core.overridden = FALSE] : m \in {1, 2}}

(* attach_release_metadata: with a project name or without (NamesProject). *)
Released(c) == {[c EXCEPT !.release = m] : m \in {1, 2}}

Annotated(c, cmd) ==
  CASE cmd.op = "sign"     -> {Signed(c, cmd.key, s) : s \in {1, 2}}
    [] cmd.op = "approve"  -> {Approved(c, cmd.key)}
    [] cmd.op = "release"  -> Released(c)
    [] cmd.op = "recovery" -> {[c EXCEPT !.recovery = 1]}

(* sign_file, add_approval_seal, attach_*_metadata up to the write; the    *)
(* first two look at the output path once more.                            *)
Annotate(p) ==
  /\ task[p].state = "begun"
  /\ Command(p).op \in Annotators
  /\ LET f == files[Command(p).in]
     IN  IF /\ IsCapsule(f) /\ Fits(f)
            /\ Command(p).op \in Signers => Available(Command(p))
         THEN EncodeChecked(p, {Logged(a, Command(p)) :
                                  a \in Annotated(f, Command(p))})
         ELSE End(p)
  /\ UNCHANGED <<files, started>>

Place(p) ==
  /\ files' = [files EXCEPT ![Command(p).out] = task[p].result]
  /\ End(p)
  /\ UNCHANGED started

(* Mutant: signing looks at the path once more and then replaces it.       *)
PersistMutant(p) ==
  /\ task[p].state = "ready"
  /\ Command(p).op \in Signers
  /\ Place(p)

(* signing.rs write_atomic: without --force the rename does not replace.   *)
WriteNew(p) ==
  /\ task[p].state = "ready"
  /\ Command(p).op \in Signers
  /\ IF Available(Command(p)) THEN Place(p)
     ELSE End(p) /\ UNCHANGED <<files, started>>

(* persist_temp_file, and release.rs write_atomic: the rename replaces.    *)
Write(p) ==
  /\ task[p].state = "ready"
  /\ Command(p).op \notin Signers \cup {"sfx", "extract"}
  /\ Place(p)

(* encrypt --sfx: the capsule first goes to a file beside the output,      *)
(* whatever is there; its name depends on the stem of the output only.     *)
WriteIntermediate(p) ==
  /\ task[p].state = "ready"
  /\ Command(p).op = "sfx"
  /\ files' = [files EXCEPT ![Intermediate[Command(p).out]] = task[p].result]
  /\ Advance(p, [state |-> "stored", command |-> Command(p)])
  /\ UNCHANGED started

(* create_sfx; what it copies is what is at the intermediate path now.     *)
BuildSfx(p) ==
  /\ task[p].state = "stored"
  /\ LET f == files[Intermediate[Command(p).out]]
     IN  IF f = Absent THEN End(p)
         ELSE Advance(p, [state |-> "built", command |-> Command(p),
                          result |-> Executable(f)])
  /\ UNCHANGED <<files, started>>

DropIntermediate(p) ==
  /\ files' = [files EXCEPT ![Intermediate[Command(p).out]] = Absent]
  /\ End(p)
  /\ UNCHANGED started

(* There is no stub beside the program. *)
NoStub(p) == task[p].state = "stored" /\ DropIntermediate(p)

(* Without --force the rename does not replace; the intermediate stays.    *)
PlaceSfx(p) ==
  /\ task[p].state = "built"
  /\ IF Available(Command(p))
     THEN /\ files' = [files EXCEPT ![Command(p).out] = task[p].result]
          /\ Advance(p, [state |-> "placed", command |-> Command(p)])
     ELSE End(p) /\ UNCHANGED files
  /\ UNCHANGED started

RemoveIntermediate(p) == task[p].state = "placed" /\ DropIntermediate(p)

(* An extractor opens the payload at its own end.                          *)
RunExtractor(p) ==
  /\ task[p].state = "begun"
  /\ Command(p).op = "extract"
  /\ LET f == files[Command(p).in]
         opened == {c \in {b[1].file : b \in ExtractPayload(Bytes(f))} :
                      /\ IsCapsule(c) /\ Fits(c)
                      /\ Bytes(c) \in ExtractPayload(Bytes(f))}
     IN  IF opened # {} THEN Produce(p, {c.core.file : c \in opened})
         ELSE End(p)
  /\ UNCHANGED <<files, started>>

(* write_plaintext_no_clobber: create_new, then the plaintext.             *)
CreateOutput(p) ==
  /\ task[p].state = "ready"
  /\ Command(p).op = "extract"
  /\ IF files[Command(p).out] = Absent
     THEN /\ files' = [files EXCEPT ![Command(p).out] = Partial(p)]
          /\ Advance(p, [state |-> "writing", command |-> Command(p),
                          result |-> task[p].result])
     ELSE End(p) /\ UNCHANGED files
  /\ UNCHANGED started

(* The plaintext goes to the file that was created, if that still has a    *)
(* name.                                                                   *)
FillOutput(p) ==
  /\ task[p].state = "writing"
  /\ files' = IF files[Command(p).out] = Partial(p)
              THEN [files EXCEPT ![Command(p).out] = task[p].result]
              ELSE files
  /\ End(p)
  /\ UNCHANGED started

(* An I/O error: whatever has the name by now is removed.                  *)
FailOutput(p) ==
  /\ task[p].state = "writing"
  /\ files' = [files EXCEPT ![Command(p).out] = Absent]
  /\ End(p)
  /\ UNCHANGED started

(* A wrong credential, an editor that fails, an I/O error or a kill:       *)
(* nothing more is written or removed.                                     *)
Abort(p) ==
  /\ task[p] # Idle
  /\ End(p)
  /\ UNCHANGED <<files, started>>

Step(p) ==
  \/ ReadPlaintext(p) \/ ReadCapsule(p) \/ Edit(p) \/ Annotate(p)
  \/ WriteNew(p) \/ Write(p)
  \/ WriteIntermediate(p) \/ BuildSfx(p) \/ NoStub(p) \/ PlaceSfx(p)
  \/ RemoveIntermediate(p)
  \/ RunExtractor(p) \/ CreateOutput(p) \/ FillOutput(p) \/ FailOutput(p)

Next ==
  \E p \in Processes :
    Step(p) \/ Abort(p) \/ \E c \in Commands : Begin(p, c)

Spec == Init /\ [][Next]_vars
-----------------------------------------------------------------------------
TypeOK ==
  /\ \A path \in Paths :
       LET f == files[path]
       IN  /\ f.kind \in {"absent", "plain", "capsule", "sfx", "partial"}
           /\ IsCapsule(f) =>
                /\ f.version \in {LEGACY_VERSION, CURRENT_VERSION}
                /\ f.core.file # Absent
                /\ f.core.id \in 0..started
                /\ f.release \in 0..2 /\ f.recovery \in 0..1
  /\ \A p \in Processes :
       \/ task[p] = Idle
       \/ /\ task[p].state \in {"begun", "ready", "stored", "built",
                                "placed", "writing"}
          /\ Command(p) \in Commands
  /\ started \in 0..MaxCommands

(* "preserving the parser's envelope-size invariant": no sequence of       *)
(* commands leaves a capsule that the parser refuses for its size.         *)
AlwaysReadable ==
  \A path \in Paths : IsCapsule(files[path]) => Fits(files[path])

SameAttachments(c, entry) ==
  c.release = entry.release /\ c.recovery = entry.recovery

(* FORMAT.md: approvals can be appended without invalidating an author     *)
(* signature.  Through any sequence of commands, verify-signature accepts  *)
(* a key exactly when the last signature is that key's and the release and *)
(* recovery metadata are what they were then; in format v1 the approvals   *)
(* must be the same as well.                                               *)
AuthorExact ==
  \A path \in Paths : IsCapsule(files[path]) =>
    LET c == files[path]
        last(i) == /\ c.log[i].op = "sign"
                   /\ \A j \in i + 1..Len(c.log) : c.log[j].op # "sign"
    IN  \A key \in Keys :
          AuthorValid(c, key) <=>
            \E i \in DOMAIN c.log :
              /\ last(i) /\ c.log[i].key = key
              /\ SameAttachments(c, c.log[i])
              /\ c.version = LEGACY_VERSION =>
                   c.log[i].seals = Len(c.approvals)

(* APPROVALS.md: a v2 seal commits to the public envelope without the      *)
(* approval list.  verify_approvals finds a seal of a key exactly when the *)
(* key approved the capsule with the author signature, release and         *)
(* recovery metadata it has now; in format v1 any seal counts.             *)
ApprovalExact ==
  \A path \in Paths : IsCapsule(files[path]) =>
    LET c == files[path]
    IN  \A key \in Keys :
          ApprovalValid(c, key) <=>
            \E i \in DOMAIN c.log :
              /\ c.log[i].op = "approve" /\ c.log[i].key = key
              /\ c.version = CURRENT_VERSION =>
                   c.log[i].sig = c.sig /\ SameAttachments(c, c.log[i])

(* CAPSULE_POLICY.md: a violation fails unless the override is used, and   *)
(* the flag is part of the payload commitment.  A capsule made under a     *)
(* policy without the override stays valid under it through any sequence   *)
(* of annotations; one made with the override is never failed for it by a  *)
(* preflight, whatever was attached, unless a signature does not verify.   *)
PolicyKept ==
  \A path \in Paths : IsCapsule(files[path]) =>
    LET c == files[path]
    IN  /\ ~c.core.overridden => IsValid(c, c.under)
        /\ c.version = CURRENT_VERSION =>
             \A signature \in {"none", "unchecked", "valid"} :
               Verdict(c, signature, c.under) # "Fail"

(* The stub takes from any executable that create_sfx built, through any   *)
(* interleaving of commands that share the intermediate file, exactly the  *)
(* bytes of one file that was there, a capsule made from another           *)
(* executable too.                                                         *)
ExtractorsWhole ==
  \A path \in Paths : files[path].kind = "sfx" =>
    ExtractPayload(files[path].cells) = {Bytes(files[path].of)}

KeepsExisting(p) ==
  /\ task[p].state \in {"ready", "built"} /\ task'[p] # task[p]
  /\ ~Command(p).force /\ files[Command(p).out] # Absent
  => files'[Command(p).out] = files[Command(p).out]

(* Without --force sign, approve and encrypt --sfx never replace a file,   *)
(* not even one that appeared after they looked, and an extractor never    *)
(* does: of two that write the same output, one fails and the other's      *)
(* result stays.                                                           *)
NeverOverwrites ==
  [][\A p \in Processes :
       /\ task[p] # Idle
       /\ Command(p).op \in Signers \cup {"sfx", "extract"}
       => KeepsExisting(p)]_vars

(* CHANGELOG.md: output files are not replaced unless --force is supplied. *)
(* secret edit, whose output is its input, is left out.                    *)
ForceRequired ==
  [][\A p \in Processes :
       task[p] # Idle /\ Command(p).op # "secretEdit" => KeepsExisting(p)]_vars
=============================================================================
