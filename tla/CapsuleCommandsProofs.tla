----------------------- MODULE CapsuleCommandsProofs -----------------------
(***************************************************************************)
(* Proofs about CapsuleCommands, for any number of processes, paths and    *)
(* commands: every capsule stays readable and keeps its policy, its        *)
(* signatures are what its history says, every self-extractor gives its    *)
(* capsule back, and commands without --force replace nothing.             *)
(***************************************************************************)
EXTENDS CapsuleCommands, FiniteSetTheorems, TLAPS

(***************************************************************************)
(* What holds of one file by itself: what the stub finds in an executable, *)
(* which rules of a policy annotations can break, and what a capsule's     *)
(* history says of its signature and its seals.                            *)
(***************************************************************************)
Fields == {"kind", "version", "core", "sig", "approvals", "release",
           "recovery", "under", "log"}

IsSeq(b) == \E S : b \in Seq(S)

(* What an executable consists of, around the bytes it carries. *)
Framed(b) == Bytes(StubProgram) \o b \o <<Length(Len(b)), Magic>>

LEMMA StubBytes ==
  Bytes(StubProgram) = <<Cell(StubProgram, 1), Cell(StubProgram, 2)>>
BY DEF Bytes, StubProgram

(* The stub finds in a framed sequence exactly what was framed. *)
LEMMA FramedExtracts ==
  ASSUME NEW b, IsSeq(b)
  PROVE  /\ IsSeq(Framed(b)) /\ Len(Framed(b)) = Len(b) + 4
         /\ ExtractPayload(Framed(b)) = {b}
<1> DEFINE stub == <<Cell(StubProgram, 1), Cell(StubProgram, 2)>>
           tail == <<Length(Len(b)), Magic>>
           f == Framed(b)
<1>1. PICK S : b \in Seq(S)
  BY DEF IsSeq
<1> DEFINE T == S \cup {Cell(StubProgram, 1), Cell(StubProgram, 2),
                        Length(Len(b)), Magic}
<1>2. b \in Seq(T) /\ stub \in Seq(T) /\ tail \in Seq(T)
  BY <1>1
<1>3. f = stub \o b \o tail
  BY StubBytes DEF Framed
<1> HIDE DEF T
<1>4. f \in Seq(T) /\ Len(f) = Len(b) + 4 /\ Len(b) \in Nat
  BY <1>2, <1>3
<1>5. /\ f[Len(f)] = Magic /\ f[Len(b) + 3] = Length(Len(b))
      /\ \A i \in 1..Len(b) : f[i + 2] = b[i]
  BY <1>2, <1>3, <1>4
<1>6. SubSeq(f, 3, Len(b) + 2) = b
  <2>1. SubSeq(f, 3, Len(b) + 2) \in Seq(T)
        /\ Len(SubSeq(f, 3, Len(b) + 2)) = Len(b)
    BY <1>4
  <2>2. \A i \in 1..Len(b) : SubSeq(f, 3, Len(b) + 2)[i] = b[i]
    BY <1>4, <1>5
  <2> QED
    BY <1>2, <2>1, <2>2
<1>7. Length(Len(b)).length = Len(b)
  BY DEF Length
<1>8. ExtractPayload(f) = {SubSeq(f, 3, Len(b) + 2)}
  <2> DEFINE trailer == Len(f) - SFX_TRAILER_SIZE
             length  == f[trailer + 1].length
  <2>1. trailer = Len(b) + 2
    BY <1>4 DEF SFX_TRAILER_SIZE
  <2>2. length = Len(b)
    BY <1>4, <1>5, <1>7, <2>1
  <2>3. trailer - length + 1 = 3 /\ ~(length > trailer)
    BY <1>4, <2>1, <2>2
  <2>4. ~(Len(f) < SFX_TRAILER_SIZE \/ f[Len(f)] # Magic)
    BY <1>4, <1>5 DEF SFX_TRAILER_SIZE
  <2>5. ExtractPayload(f) = {SubSeq(f, trailer - length + 1, trailer)}
    BY <2>3, <2>4 DEF ExtractPayload
  <2> QED
    BY <2>1, <2>3, <2>5
<1> QED
  BY <1>4, <1>6, <1>8 DEF IsSeq

LEMMA PairIsSeq == ASSUME NEW f, f.kind # "sfx" PROVE IsSeq(Bytes(f))
<1>1. Bytes(f) \in Seq({Cell(f, 1), Cell(f, 2)})
  BY DEF Bytes
<1> QED
  BY <1>1 DEF IsSeq

LEMMA ExecutableBytes ==
  ASSUME NEW f
  PROVE  /\ Executable(f).kind = "sfx" /\ Executable(f).of = f
         /\ Bytes(Executable(f)) = Framed(Bytes(f))
BY DEF Executable, Bytes, Framed
-----------------------------------------------------------------------------
(***************************************************************************)
(* Policies.  What an encryption settles cannot be undone by annotations,  *)
(* which only ever satisfy further rules.                                  *)
(***************************************************************************)

(* A capsule without its annotations. *)
Bare(c) ==
  [core |-> c.core, sig |-> Unsigned, approvals |-> <<>>,
   release |-> 0, recovery |-> 0]

Lawful(c) ==
  /\ IsSeq(c.approvals) /\ c.under \in Policies
  /\ ~c.core.overridden => IsValid(Bare(c), c.under)

LEMMA ApproversFinite ==
  ASSUME NEW c, IsSeq(c.approvals)
  PROVE  Cardinality(Approvers(c)) \in Nat
<1> DEFINE T == Approvers(c)
           f == [i \in 1..Len(c.approvals) |-> c.approvals[i].key]
<1>1. Len(c.approvals) \in Nat /\ DOMAIN c.approvals = 1..Len(c.approvals)
  BY DEF IsSeq
<1>2. f \in Surjection(1..Len(c.approvals), T)
  BY <1>1 DEF Surjection, Approvers
<1>3. IsFiniteSet(1..Len(c.approvals))
  BY <1>1, FS_Interval
<1>4. IsFiniteSet(T)
  <2> HIDE DEF f, T
  <2> QED
    BY <1>2, <1>3, FS_Surjection
<1> QED
  BY <1>4, FS_CardinalityType

(* A rule that the bare capsule keeps, the annotated one keeps: what it    *)
(* depends on is the same, or the policy does not ask for it.              *)
LEMMA AnnotationsSatisfy ==
  ASSUME NEW c, IsSeq(c.approvals), NEW policy \in Policies,
         IsValid(Bare(c), policy)
  PROVE  IsValid(c, policy)
<1> SUFFICES ASSUME NEW rule \in DOMAIN DefaultPolicy, Fails(rule, c, policy)
             PROVE  FALSE
  BY DEF IsValid, Violations
<1>1. ~Fails(rule, Bare(c), policy)
  BY DEF IsValid, Violations
<1>2. CASE rule = "require_approval_signatures_min"
  <2>1. Approvers(Bare(c)) = {}
    BY DEF Approvers, Bare
  <2>2. ~(0 < policy.require_approval_signatures_min)
    BY <1>1, <1>2, <2>1, FS_EmptySet DEF Fails
  <2>3. policy.require_approval_signatures_min = 0
    BY <2>2, CommandAssumption
  <2>4. Cardinality(Approvers(c)) < policy.require_approval_signatures_min
    BY <1>2 DEF Fails
  <2> QED
    BY <2>3, <2>4, ApproversFinite
<1>3. CASE rule # "require_approval_signatures_min"
  BY <1>1, <1>3 DEF Fails, Bare, Unsigned, NamesProject
<1> QED
  BY <1>2, <1>3
-----------------------------------------------------------------------------
(***************************************************************************)
(* Signatures.  The history of a capsule tells its signature and its       *)
(* seals, and they tell their entries of the history.                      *)
(***************************************************************************)

(* The capsule as a command left it, with the first approvals. *)
AsOf(c, entry, seals) ==
  [version |-> c.version, core |-> c.core, sig |-> entry.sig,
   approvals |-> seals, release |-> entry.release,
   recovery |-> entry.recovery]

LastSign(c, i) ==
  /\ c.log[i].op = "sign"
  /\ \A j \in i + 1..Len(c.log) : c.log[j].op # "sign"

(* The signature is the one that the command of the entry made. *)
Authored(c, entry) ==
  /\ c.sig # Unsigned /\ entry.sig = c.sig
  /\ c.sig.key = entry.key /\ c.sig.signer = entry.key
  /\ entry.seals \in 0..Len(c.approvals)
  /\ c.sig.message =
       AuthorMessage(AsOf(c, entry, SubSeq(c.approvals, 1, entry.seals)))

SignatureOK(c) ==
  \/ c.sig = Unsigned /\ \A i \in 1..Len(c.log) : c.log[i].op # "sign"
  \/ \E i \in 1..Len(c.log) : LastSign(c, i) /\ Authored(c, c.log[i])

(* The seal is the one that the command of the entry made. *)
Sealed(c, seal, entry) ==
  /\ entry.op = "approve"
  /\ seal.key = entry.key /\ seal.signer = entry.key
  /\ seal.message = ApprovalMessage(AsOf(c, entry, <<>>), entry.key)

SealsOK(c) ==
  /\ \A i \in 1..Len(c.approvals) :
       \E j \in 1..Len(c.log) : Sealed(c, c.approvals[i], c.log[j])
  /\ \A j \in 1..Len(c.log) : c.log[j].op = "approve" =>
       \E i \in 1..Len(c.approvals) : Sealed(c, c.approvals[i], c.log[j])

CapsuleOK(c) ==
  /\ DOMAIN c = Fields /\ c.version \in {LEGACY_VERSION, CURRENT_VERSION}
  /\ c.release \in 0..2 /\ c.recovery \in 0..1
  /\ Lawful(c) /\ IsSeq(c.log) /\ SignatureOK(c) /\ SealsOK(c)

LEMMA SeqFacts ==
  ASSUME NEW s, IsSeq(s)
  PROVE  /\ Len(s) \in Nat /\ DOMAIN s = 1..Len(s)
         /\ SubSeq(s, 1, Len(s)) = s
BY DEF IsSeq

LEMMA AppendFacts ==
  ASSUME NEW s, IsSeq(s), NEW e
  PROVE  /\ IsSeq(Append(s, e)) /\ Len(Append(s, e)) = Len(s) + 1
         /\ Append(s, e)[Len(s) + 1] = e
         /\ \A i \in 1..Len(s) : Append(s, e)[i] = s[i]
         /\ \A n \in 0..Len(s) : SubSeq(Append(s, e), 1, n) = SubSeq(s, 1, n)
<1>1. PICK S : s \in Seq(S)
  BY DEF IsSeq
<1>2. s \in Seq(S \cup {e}) /\ Append(s, e) \in Seq(S \cup {e})
  BY <1>1
<1>3. \A n \in 0..Len(s) : SubSeq(Append(s, e), 1, n) = SubSeq(s, 1, n)
  BY <1>2
<1> QED
  BY <1>2, <1>3 DEF IsSeq

(* What an author signs beside the core and the signature's metadata. *)
LEMMA AuthorStatement ==
  ASSUME NEW a, NEW b, a.version = b.version, a.core = b.core, a.sig = b.sig,
         a.version \in {LEGACY_VERSION, CURRENT_VERSION}
  PROVE  AuthorMessage(a) = AuthorMessage(b) <=>
           /\ a.release = b.release /\ a.recovery = b.recovery
           /\ a.version = LEGACY_VERSION => a.approvals = b.approvals
<1> DEFINE m2(x, y) ==
             [kind |-> "author v2", core |-> a.core, release |-> x,
              recovery |-> y, key |-> a.sig.key, stamp |-> a.sig.stamp]
           m1(x, y, z) ==
             [kind |-> "author v1", core |-> a.core, release |-> x,
              recovery |-> y, approvals |-> z]
<1>1. /\ \A x, y : m2(x, y).release = x /\ m2(x, y).recovery = y
      /\ \A x, y, z : /\ m1(x, y, z).release = x /\ m1(x, y, z).recovery = y
                      /\ m1(x, y, z).approvals = z
  OBVIOUS
<1>2. CASE a.version = CURRENT_VERSION
  <2>1. /\ AuthorMessage(a) = m2(a.release, a.recovery)
        /\ AuthorMessage(b) = m2(b.release, b.recovery)
        /\ a.version # LEGACY_VERSION
    BY <1>2 DEF AuthorMessage, CURRENT_VERSION, LEGACY_VERSION
  <2> HIDE DEF m2, m1
  <2> QED
    BY <1>1, <2>1
<1>3. CASE a.version = LEGACY_VERSION
  <2>1. /\ AuthorMessage(a) = m1(a.release, a.recovery, a.approvals)
        /\ AuthorMessage(b) = m1(b.release, b.recovery, b.approvals)
    BY <1>3 DEF AuthorMessage, CURRENT_VERSION, LEGACY_VERSION
  <2> HIDE DEF m2, m1
  <2> QED
    BY <1>1, <1>3, <2>1
<1> QED
  BY <1>2, <1>3

(* verify-signature accepts what the history says. *)
LEMMA AuthorOfHistory ==
  ASSUME NEW c, CapsuleOK(c), NEW key
  PROVE  AuthorValid(c, key) <=>
           \E i \in DOMAIN c.log :
             /\ LastSign(c, i) /\ c.log[i].key = key
             /\ SameAttachments(c, c.log[i])
             /\ c.version = LEGACY_VERSION =>
                  c.log[i].seals = Len(c.approvals)
<1>1. /\ IsSeq(c.approvals) /\ Len(c.approvals) \in Nat
      /\ SubSeq(c.approvals, 1, Len(c.approvals)) = c.approvals
      /\ Len(c.log) \in Nat /\ DOMAIN c.log = 1..Len(c.log)
  BY SeqFacts DEF CapsuleOK, Lawful
<1>2. CASE c.sig = Unsigned /\ \A i \in 1..Len(c.log) : c.log[i].op # "sign"
  BY <1>1, <1>2 DEF AuthorValid, LastSign
<1>3. ASSUME NEW i \in 1..Len(c.log), LastSign(c, i), Authored(c, c.log[i])
      PROVE  AuthorValid(c, key) <=>
               \E n \in DOMAIN c.log :
                 /\ LastSign(c, n) /\ c.log[n].key = key
                 /\ SameAttachments(c, c.log[n])
                 /\ c.version = LEGACY_VERSION =>
                      c.log[n].seals = Len(c.approvals)
  <2> DEFINE e == c.log[i]
             seals == SubSeq(c.approvals, 1, e.seals)
  <2>1. \A n \in 1..Len(c.log) : LastSign(c, n) => n = i
    BY <1>1, <1>3 DEF LastSign
  <2>2. e.seals \in 0..Len(c.approvals) /\ Len(seals) = e.seals
    BY <1>1, <1>3 DEF Authored, IsSeq
  <2>3. seals = c.approvals <=> e.seals = Len(c.approvals)
    BY <1>1, <2>2
  <2>4. c.sig.message = AuthorMessage(c) <=>
          /\ SameAttachments(c, e)
          /\ c.version = LEGACY_VERSION => seals = c.approvals
    <3> DEFINE a == AsOf(c, e, seals)
    <3>1. c.sig.message = AuthorMessage(a) /\ e.sig = c.sig
      BY <1>3 DEF Authored
    <3>2. /\ a.version = c.version /\ a.core = c.core /\ a.sig = c.sig
          /\ a.release = e.release /\ a.recovery = e.recovery
          /\ a.approvals = seals
      BY <3>1 DEF AsOf
    <3> HIDE DEF a
    <3> QED
      BY <3>1, <3>2, AuthorStatement DEF CapsuleOK, SameAttachments
  <2>5. AuthorValid(c, key) <=>
          e.key = key /\ c.sig.message = AuthorMessage(c)
    BY <1>3 DEF AuthorValid, Authored
  <2> QED
    BY <1>1, <1>3, <2>1, <2>3, <2>4, <2>5
<1> QED
  BY <1>2, <1>3 DEF CapsuleOK, SignatureOK

(* verify_approvals finds what the history says. *)
LEMMA ApproversOfHistory ==
  ASSUME NEW c, CapsuleOK(c), NEW key
  PROVE  ApprovalValid(c, key) <=>
           \E i \in DOMAIN c.log :
             /\ c.log[i].op = "approve" /\ c.log[i].key = key
             /\ c.version = CURRENT_VERSION =>
                  c.log[i].sig = c.sig /\ SameAttachments(c, c.log[i])
<1>1. DOMAIN c.approvals = 1..Len(c.approvals)
      /\ DOMAIN c.log = 1..Len(c.log)
  BY SeqFacts DEF CapsuleOK, Lawful
<1>2. ASSUME NEW seal, NEW e, Sealed(c, seal, e)
      PROVE  /\ seal.key = key /\ seal.signer = key
             /\ seal.message = ApprovalMessage(c, key)
             <=> /\ e.op = "approve" /\ e.key = key
                 /\ c.version = CURRENT_VERSION =>
                      e.sig = c.sig /\ SameAttachments(c, e)
  <2>1. CASE c.version = CURRENT_VERSION
    BY <1>2, <2>1 DEF Sealed, ApprovalMessage, AsOf, SameAttachments,
                      CURRENT_VERSION
  <2>2. CASE c.version = LEGACY_VERSION
    BY <1>2, <2>2 DEF Sealed, ApprovalMessage, AsOf, CURRENT_VERSION,
                      LEGACY_VERSION
  <2> QED
    BY <2>1, <2>2 DEF CapsuleOK
<1>3. ASSUME ApprovalValid(c, key)
      PROVE  \E j \in DOMAIN c.log :
               /\ c.log[j].op = "approve" /\ c.log[j].key = key
               /\ c.version = CURRENT_VERSION =>
                    c.log[j].sig = c.sig /\ SameAttachments(c, c.log[j])
  <2>1. PICK i \in 1..Len(c.approvals) :
          /\ c.approvals[i].key = key /\ c.approvals[i].signer = key
          /\ c.approvals[i].message = ApprovalMessage(c, key)
    BY <1>1, <1>3 DEF ApprovalValid
  <2>2. PICK j \in 1..Len(c.log) : Sealed(c, c.approvals[i], c.log[j])
    BY DEF CapsuleOK, SealsOK
  <2> QED
    BY <1>1, <1>2, <2>1, <2>2
<1>4. ASSUME NEW j \in DOMAIN c.log,
             c.log[j].op = "approve" /\ c.log[j].key = key,
             c.version = CURRENT_VERSION =>
               c.log[j].sig = c.sig /\ SameAttachments(c, c.log[j])
      PROVE  ApprovalValid(c, key)
  <2>1. PICK i \in 1..Len(c.approvals) : Sealed(c, c.approvals[i], c.log[j])
    BY <1>1, <1>4 DEF CapsuleOK, SealsOK
  <2> QED
    BY <1>1, <1>2, <1>4, <2>1 DEF ApprovalValid
<1> QED
  BY <1>3, <1>4
-----------------------------------------------------------------------------
(***************************************************************************)
(* What makes capsules: an encryption and the annotations.                 *)
(***************************************************************************)
LEMMA EncryptionOK ==
  ASSUME NEW version \in {LEGACY_VERSION, CURRENT_VERSION}, NEW f, NEW id,
         NEW cmd \in Commands, ~Refused(Encrypted(version, f, id, cmd), cmd)
  PROVE  LET c == Encrypted(version, f, id, cmd)
         IN  /\ IsCapsule(c) /\ c.core.file = f /\ c.core.id = id
             /\ Fits(c) /\ CapsuleOK(c)
<1> DEFINE c == Encrypted(version, f, id, cmd)
<1>1. /\ c.kind = "capsule" /\ c.core.file = f /\ c.core.id = id
      /\ c.approvals = <<>> /\ c.release = 0 /\ c.recovery = 0
      /\ DOMAIN c = Fields /\ c.under = cmd.policy /\ c.version = version
      /\ c.core.overridden = cmd.override /\ c.log = <<>> /\ c.sig = Unsigned
      /\ Bare(c) = [core |-> c.core, sig |-> c.sig, approvals |-> c.approvals,
                    release |-> c.release, recovery |-> c.recovery]
  BY DEF Encrypted, Fields, Bare
<1>2. Fits(c)
  BY <1>1, CommandAssumption DEF Fits
<1>3. Lawful(c)
  <2>1. IsSeq(c.approvals) /\ c.under \in Policies
    BY <1>1, CommandAssumption DEF IsSeq
  <2>2. ASSUME ~c.core.overridden, NEW rule \in DOMAIN DefaultPolicy,
               Fails(rule, Bare(c), c.under)
        PROVE  FALSE
    <3>1. ~Fails(rule, c, c.under)
      BY <1>1, <2>2 DEF Refused, IsValid, Violations
    <3> HIDE DEF c
    <3>2. Approvers(c) = Approvers(Bare(c))
      BY <1>1 DEF Approvers
    <3> QED
      BY <1>1, <2>2, <3>1, <3>2 DEF Fails
  <2> QED
    BY <2>1, <2>2 DEF Lawful, IsValid, Violations
<1> HIDE DEF c
<1>4. IsSeq(c.log) /\ SignatureOK(c) /\ SealsOK(c)
  BY <1>1 DEF IsSeq, SignatureOK, SealsOK
<1> QED
  BY <1>1, <1>2, <1>3, <1>4 DEF CapsuleOK, IsCapsule, c

(* What every annotation leaves alone. *)
Kept(c, r) ==
  /\ IsCapsule(r) /\ DOMAIN r = Fields
  /\ r.version = c.version /\ r.core = c.core /\ r.under = c.under

(* A command that is not sign: the signature and its entry stay the last.  *)
LEMMA SignatureStays ==
  ASSUME NEW c, CapsuleOK(c), NEW r, Kept(c, r), NEW entry,
         entry.op # "sign", r.log = Append(c.log, entry), r.sig = c.sig,
         \/ r.approvals = c.approvals
         \/ \E seal : r.approvals = Append(c.approvals, seal)
  PROVE  SignatureOK(r)
<1>1. /\ IsSeq(c.log) /\ IsSeq(c.approvals)
      /\ Len(c.log) \in Nat /\ Len(c.approvals) \in Nat
  BY SeqFacts DEF CapsuleOK, Lawful
<1>2. /\ Len(r.log) = Len(c.log) + 1 /\ r.log[Len(c.log) + 1] = entry
      /\ \A i \in 1..Len(c.log) : r.log[i] = c.log[i]
  BY <1>1, AppendFacts
<1>3. /\ Len(r.approvals) \in Nat /\ Len(c.approvals) <= Len(r.approvals)
      /\ \A n \in 0..Len(c.approvals) :
           SubSeq(r.approvals, 1, n) = SubSeq(c.approvals, 1, n)
  BY <1>1, AppendFacts
<1>4. CASE c.sig = Unsigned /\ \A i \in 1..Len(c.log) : c.log[i].op # "sign"
  BY <1>1, <1>2, <1>4 DEF SignatureOK
<1>5. ASSUME NEW i \in 1..Len(c.log), LastSign(c, i), Authored(c, c.log[i])
      PROVE  SignatureOK(r)
  <2>1. i \in 1..Len(r.log) /\ r.log[i] = c.log[i]
    BY <1>1, <1>2
  <2>2. LastSign(r, i)
    BY <1>1, <1>2, <1>5, <2>1 DEF LastSign
  <2>3. Authored(r, c.log[i])
    <3>1. \A n \in 0..Len(c.approvals) : n \in 0..Len(r.approvals)
      BY <1>1, <1>3
    <3>2. \A seals : AsOf(r, c.log[i], seals) = AsOf(c, c.log[i], seals)
      BY DEF AsOf, Kept
    <3> QED
      BY <1>3, <1>5, <3>1, <3>2 DEF Authored
  <2> QED
    BY <2>1, <2>2, <2>3 DEF SignatureOK
<1> QED
  BY <1>4, <1>5 DEF CapsuleOK, SignatureOK

(* A command that is not approve. *)
LEMMA SealsStay ==
  ASSUME NEW c, CapsuleOK(c), NEW r, Kept(c, r), NEW entry,
         entry.op # "approve", r.log = Append(c.log, entry),
         r.approvals = c.approvals
  PROVE  SealsOK(r)
<1>1. IsSeq(c.log) /\ Len(c.log) \in Nat
  BY SeqFacts DEF CapsuleOK
<1>2. /\ Len(r.log) = Len(c.log) + 1 /\ r.log[Len(c.log) + 1] = entry
      /\ \A i \in 1..Len(c.log) : r.log[i] = c.log[i]
  BY <1>1, AppendFacts
<1>3. \A seal, e : Sealed(c, seal, e) => Sealed(r, seal, e)
  BY DEF Sealed, AsOf, Kept
<1>4. ASSUME NEW i \in 1..Len(r.approvals)
      PROVE  \E j \in 1..Len(r.log) : Sealed(r, r.approvals[i], r.log[j])
  <2>1. PICK j \in 1..Len(c.log) : Sealed(c, c.approvals[i], c.log[j])
    BY <1>4 DEF CapsuleOK, SealsOK
  <2>2. j \in 1..Len(r.log) /\ r.log[j] = c.log[j]
    BY <1>1, <1>2
  <2> QED
    BY <1>3, <2>1, <2>2
<1>5. ASSUME NEW j \in 1..Len(r.log), r.log[j].op = "approve"
      PROVE  \E i \in 1..Len(r.approvals) : Sealed(r, r.approvals[i], r.log[j])
  <2>1. j \in 1..Len(c.log) /\ r.log[j] = c.log[j]
    BY <1>1, <1>2, <1>5
  <2>2. PICK i \in 1..Len(c.approvals) : Sealed(c, c.approvals[i], c.log[j])
    BY <1>5, <2>1 DEF CapsuleOK, SealsOK
  <2> QED
    BY <1>3, <2>1, <2>2
<1> QED
  BY <1>4, <1>5 DEF SealsOK

(* approve: one seal more, and its entry. *)
LEMMA SealAdded ==
  ASSUME NEW c, CapsuleOK(c), NEW r, Kept(c, r), NEW entry, NEW seal,
         r.log = Append(c.log, entry), r.approvals = Append(c.approvals, seal),
         Sealed(c, seal, entry)
  PROVE  SealsOK(r)
<1>1. /\ IsSeq(c.log) /\ IsSeq(c.approvals)
      /\ Len(c.log) \in Nat /\ Len(c.approvals) \in Nat
  BY SeqFacts DEF CapsuleOK, Lawful
<1>2. /\ Len(r.log) = Len(c.log) + 1 /\ r.log[Len(c.log) + 1] = entry
      /\ \A i \in 1..Len(c.log) : r.log[i] = c.log[i]
  BY <1>1, AppendFacts
<1>3. /\ Len(r.approvals) = Len(c.approvals) + 1
      /\ r.approvals[Len(c.approvals) + 1] = seal
      /\ \A i \in 1..Len(c.approvals) : r.approvals[i] = c.approvals[i]
  BY <1>1, AppendFacts
<1>4. \A s, e : Sealed(c, s, e) => Sealed(r, s, e)
  BY DEF Sealed, AsOf, Kept
<1>5. ASSUME NEW i \in 1..Len(r.approvals)
      PROVE  \E j \in 1..Len(r.log) : Sealed(r, r.approvals[i], r.log[j])
  <2>1. CASE i = Len(c.approvals) + 1
    <3>1. Len(c.log) + 1 \in 1..Len(r.log)
      BY <1>1, <1>2
    <3> QED
      BY <1>2, <1>3, <1>4, <2>1, <3>1
  <2>2. CASE i # Len(c.approvals) + 1
    <3>1. i \in 1..Len(c.approvals) /\ r.approvals[i] = c.approvals[i]
      BY <1>1, <1>3, <2>2
    <3>2. PICK j \in 1..Len(c.log) : Sealed(c, c.approvals[i], c.log[j])
      BY <3>1 DEF CapsuleOK, SealsOK
    <3>3. j \in 1..Len(r.log) /\ r.log[j] = c.log[j]
      BY <1>1, <1>2
    <3> QED
      BY <1>4, <3>1, <3>2, <3>3
  <2> QED
    BY <2>1, <2>2
<1>6. ASSUME NEW j \in 1..Len(r.log), r.log[j].op = "approve"
      PROVE  \E i \in 1..Len(r.approvals) : Sealed(r, r.approvals[i], r.log[j])
  <2>1. CASE j = Len(c.log) + 1
    <3>1. Len(c.approvals) + 1 \in 1..Len(r.approvals)
      BY <1>1, <1>3
    <3> QED
      BY <1>2, <1>3, <1>4, <2>1, <3>1
  <2>2. CASE j # Len(c.log) + 1
    <3>1. j \in 1..Len(c.log) /\ r.log[j] = c.log[j]
      BY <1>1, <1>2, <2>2
    <3>2. PICK i \in 1..Len(c.approvals) : Sealed(c, c.approvals[i], c.log[j])
      BY <1>6, <3>1 DEF CapsuleOK, SealsOK
    <3>3. i \in 1..Len(r.approvals) /\ r.approvals[i] = c.approvals[i]
      BY <1>1, <1>3
    <3> QED
      BY <1>4, <3>1, <3>2, <3>3
  <2> QED
    BY <2>1, <2>2
<1> QED
  BY <1>5, <1>6 DEF SealsOK

(* sign: the statement is about the capsule as the command leaves it. *)
LEMMA SignatureAdded ==
  ASSUME NEW c, CapsuleOK(c), NEW r, Kept(c, r), NEW entry, NEW blank,
         NEW key, NEW stamp,
         entry.op = "sign", entry.key = key, entry.sig = r.sig,
         entry.seals = Len(c.approvals),
         entry.release = c.release, entry.recovery = c.recovery,
         blank.version = c.version, blank.core = c.core,
         blank.release = c.release, blank.recovery = c.recovery,
         blank.approvals = c.approvals, blank.sig = [key |-> key, stamp |-> stamp],
         r.sig = [key |-> key, stamp |-> stamp, signer |-> key,
                  message |-> AuthorMessage(blank)],
         r.log = Append(c.log, entry), r.approvals = c.approvals
  PROVE  SignatureOK(r)
<1>1. /\ IsSeq(c.log) /\ IsSeq(c.approvals)
      /\ Len(c.log) \in Nat /\ Len(c.approvals) \in Nat
      /\ SubSeq(c.approvals, 1, Len(c.approvals)) = c.approvals
  BY SeqFacts DEF CapsuleOK, Lawful
<1>2. Len(r.log) = Len(c.log) + 1 /\ r.log[Len(c.log) + 1] = entry
  BY <1>1, AppendFacts
<1> DEFINE i == Len(c.log) + 1
<1>3. i \in 1..Len(r.log) /\ LastSign(r, i)
  BY <1>1, <1>2 DEF LastSign
<1>4. r.sig # Unsigned
  <2>1. "stamp" \in DOMAIN r.sig /\ "stamp" \notin DOMAIN Unsigned
    BY DEF Unsigned
  <2> QED
    BY <2>1
<1>5. r.sig.message = AuthorMessage(AsOf(r, entry, r.approvals))
  <2> DEFINE b == AsOf(r, entry, r.approvals)
  <2>1. /\ b.version = blank.version /\ b.core = blank.core
        /\ b.release = blank.release /\ b.recovery = blank.recovery
        /\ b.approvals = blank.approvals
        /\ b.sig.key = blank.sig.key /\ b.sig.stamp = blank.sig.stamp
    BY DEF AsOf, Kept
  <2> HIDE DEF b
  <2>2. AuthorMessage(b) = AuthorMessage(blank)
    BY <2>1 DEF AuthorMessage
  <2> QED
    BY <2>2 DEF b
<1>6. Authored(r, entry)
  <2>1. r.sig.key = key /\ r.sig.signer = key
    OBVIOUS
  <2>2. /\ entry.seals \in 0..Len(r.approvals)
        /\ SubSeq(r.approvals, 1, entry.seals) = r.approvals
    BY <1>1
  <2> QED
    BY <1>4, <1>5, <2>1, <2>2 DEF Authored
<1> QED
  BY <1>2, <1>3, <1>6 DEF SignatureOK

(* What sign, approve and the attaching commands make of a capsule. *)
LEMMA AnnotationOK ==
  ASSUME NEW c, IsCapsule(c), CapsuleOK(c),
         NEW cmd \in Commands, cmd.op \in Annotators,
         NEW a \in Annotated(c, cmd)
  PROVE  LET r == Logged(a, cmd)
         IN  IsCapsule(r) /\ r.core = c.core /\ CapsuleOK(r)
<1> DEFINE r == Logged(a, cmd)
           entry == [op |-> cmd.op, key |-> cmd.key, sig |-> a.sig,
                     seals |-> Len(a.approvals), release |-> a.release,
                     recovery |-> a.recovery]
<1>1. DOMAIN c = Fields /\ c.kind = "capsule"
      /\ c.version \in {LEGACY_VERSION, CURRENT_VERSION}
      /\ c.release \in 0..2 /\ c.recovery \in 0..1
      /\ IsSeq(c.log) /\ IsSeq(c.approvals)
  BY DEF CapsuleOK, Lawful, IsCapsule
<1>2. ASSUME DOMAIN a = Fields, a.kind = "capsule", a.log = c.log
      PROVE  /\ DOMAIN r = Fields /\ r.kind = "capsule"
             /\ r.version = a.version /\ r.core = a.core /\ r.sig = a.sig
             /\ r.approvals = a.approvals /\ r.release = a.release
             /\ r.recovery = a.recovery /\ r.under = a.under
             /\ r.log = Append(c.log, entry)
  BY <1>2 DEF Logged, Fields
<1>3. CASE cmd.op = "sign"
  <2>1. PICK s \in {1, 2} : a = Signed(c, cmd.key, s)
    BY <1>3 DEF Annotated
  <2> DEFINE blank == [c EXCEPT !.sig = [key |-> cmd.key, stamp |-> s]]
  <2>2. /\ DOMAIN a = Fields /\ a.kind = "capsule" /\ a.log = c.log
        /\ a.version = c.version /\ a.core = c.core /\ a.under = c.under
        /\ a.approvals = c.approvals
        /\ a.release = c.release /\ a.recovery = c.recovery
        /\ a.sig = [key |-> cmd.key, stamp |-> s, signer |-> cmd.key,
                    message |-> AuthorMessage(blank)]
    BY <1>1, <2>1 DEF Signed, Fields
  <2>3. /\ blank.version = c.version /\ blank.core = c.core
        /\ blank.release = c.release /\ blank.recovery = c.recovery
        /\ blank.approvals = c.approvals
        /\ blank.sig = [key |-> cmd.key, stamp |-> s]
    BY <1>1 DEF Fields
  <2>4. /\ entry.op = "sign" /\ entry.key = cmd.key /\ entry.sig = a.sig
        /\ entry.seals = Len(c.approvals)
        /\ entry.release = c.release /\ entry.recovery = c.recovery
    BY <1>3, <2>2
  <2> HIDE DEF r, entry, blank
  <2>5. /\ Kept(c, r) /\ r.approvals = c.approvals
        /\ r.release = c.release /\ r.recovery = c.recovery
        /\ r.log = Append(c.log, entry) /\ r.sig = a.sig
    BY <1>2, <2>2 DEF Kept, IsCapsule
  <2>6. SignatureOK(r)
    BY <2>2, <2>3, <2>4, <2>5, SignatureAdded
  <2>7. SealsOK(r)
    BY <2>4, <2>5, SealsStay
  <2> QED
    BY <1>1, <2>5, <2>6, <2>7, AppendFacts
       DEF r, CapsuleOK, Lawful, Kept, Bare
<1>4. CASE cmd.op = "approve"
  <2> DEFINE seal == [key |-> cmd.key, signer |-> cmd.key,
                      message |-> ApprovalMessage(c, cmd.key)]
  <2>1. /\ DOMAIN a = Fields /\ a.kind = "capsule" /\ a.log = c.log
        /\ a.version = c.version /\ a.core = c.core /\ a.under = c.under
        /\ a.approvals = Append(c.approvals, seal) /\ a.sig = c.sig
        /\ a.release = c.release /\ a.recovery = c.recovery
    BY <1>1, <1>4 DEF Annotated, Approved, Fields
  <2>2. Sealed(c, seal, entry)
    <3>1. ApprovalMessage(AsOf(c, entry, <<>>), cmd.key)
            = ApprovalMessage(c, cmd.key)
      BY <2>1 DEF AsOf, ApprovalMessage
    <3> QED
      BY <1>4, <3>1 DEF Sealed
  <2>3. entry.op # "sign"
    BY <1>4
  <2> HIDE DEF r, entry, seal
  <2>4. /\ Kept(c, r) /\ r.approvals = Append(c.approvals, seal)
        /\ r.release = c.release /\ r.recovery = c.recovery
        /\ r.log = Append(c.log, entry) /\ r.sig = c.sig
    BY <1>2, <2>1 DEF Kept, IsCapsule
  <2>5. SignatureOK(r) /\ SealsOK(r)
    BY <2>2, <2>3, <2>4, SignatureStays, SealAdded
  <2> QED
    BY <1>1, <2>4, <2>5, AppendFacts DEF r, CapsuleOK, Lawful, Kept, Bare
<1>5. CASE cmd.op \in Attachers
  <2>1. /\ DOMAIN a = Fields /\ a.kind = "capsule" /\ a.log = c.log
        /\ a.version = c.version /\ a.core = c.core /\ a.under = c.under
        /\ a.approvals = c.approvals /\ a.sig = c.sig
        /\ a.release \in 0..2 /\ a.recovery \in 0..1
    <3>1. CASE cmd.op = "release"
      BY <1>1, <3>1 DEF Annotated, Released, Fields
    <3>2. CASE cmd.op = "recovery"
      BY <1>1, <3>2 DEF Annotated, Fields
    <3> QED
      BY <1>5, <3>1, <3>2 DEF Attachers
  <2>2. entry.op # "sign" /\ entry.op # "approve"
    BY <1>5 DEF Attachers
  <2> HIDE DEF r, entry
  <2>3. /\ Kept(c, r) /\ r.approvals = c.approvals
        /\ r.release \in 0..2 /\ r.recovery \in 0..1
        /\ r.log = Append(c.log, entry) /\ r.sig = c.sig
    BY <1>2, <2>1 DEF Kept, IsCapsule
  <2>4. SignatureOK(r) /\ SealsOK(r)
    BY <2>2, <2>3, SignatureStays, SealsStay
  <2> QED
    BY <1>1, <2>3, <2>4, AppendFacts DEF r, CapsuleOK, Lawful, Kept, Bare
<1> QED
  BY <1>3, <1>4, <1>5 DEF Annotators, Signers
-----------------------------------------------------------------------------

(***************************************************************************)
(* The invariant.  A file may hold files that hold files; G is the set of  *)
(* all that occur.                                                         *)
(***************************************************************************)
FileOK(f, G) ==
  /\ f.kind \in {"absent", "plain", "capsule", "sfx", "partial"}
  /\ IsCapsule(f) =>
       /\ Fits(f) /\ CapsuleOK(f)
       /\ f.core.file \in G \ {Absent} /\ f.core.id \in 0..started
  /\ f.kind = "sfx" => f.of \in G /\ f = Executable(f.of)
  /\ IsSeq(Bytes(f))

Closed(G) == \A f \in G : FileOK(f, G)

Carrying == {"ready", "built", "writing"}

Holds(G) ==
  /\ Closed(G)
  /\ Absent \in G /\ \A q \in Processes : Partial(q) \in G
  /\ \A path \in Paths : files[path] \in G
  /\ \A q \in Processes : task[q].state \in Carrying => task[q].result \in G

TaskOK(t, count) ==
  /\ t.state \in {"begun", "ready", "stored", "built", "placed", "writing"}
  /\ t.state = "begun" => t.id \in 0..count

TaskInv ==
  /\ DOMAIN task = Processes /\ DOMAIN files = Paths
  /\ \A q \in Processes :
       \/ task[q] = Idle
       \/ TaskOK(task[q], started) /\ Command(q) \in Commands
  /\ started \in 0..MaxCommands

FileInv == TaskInv /\ \E G : Holds(G)

LEMMA ExecutableOK ==
  ASSUME NEW G, Closed(G), NEW f \in G
  PROVE  FileOK(Executable(f), G)
BY ExecutableBytes, FramedExtracts DEF FileOK, Closed, IsCapsule

LEMMA EncryptedOK ==
  ASSUME NEW G, NEW f \in G \ {Absent}, NEW id \in 0..started,
         NEW cmd \in Commands,
         NEW version \in {LEGACY_VERSION, CURRENT_VERSION},
         ~Refused(Encrypted(version, f, id, cmd), cmd)
  PROVE  FileOK(Encrypted(version, f, id, cmd), G)
BY EncryptionOK, PairIsSeq DEF FileOK, IsCapsule

LEMMA ClosedAdd ==
  ASSUME NEW G, Closed(G), NEW f, FileOK(f, G)
  PROVE  Closed(G \cup {f})
BY DEF Closed, FileOK

(* What an extractor opens is a file that was appended. *)
LEMMA OpenedKnown ==
  ASSUME NEW G, Closed(G), NEW f \in G, NEW c, IsCapsule(c),
         Bytes(c) \in ExtractPayload(Bytes(f))
  PROVE  c \in G
<1>1. Bytes(c) = <<Cell(c, 1), Cell(c, 2)>>
  BY DEF Bytes, IsCapsule
<1>2. CASE f.kind = "sfx"
  <2>1. f.of \in G /\ IsSeq(Bytes(f.of)) /\ Bytes(f) = Framed(Bytes(f.of))
    BY <1>2, ExecutableBytes DEF Closed, FileOK
  <2>2. Bytes(c) = Bytes(f.of)
    BY <2>1, FramedExtracts
  <2>3. f.of.kind # "sfx"
    <3> SUFFICES ASSUME f.of.kind = "sfx" PROVE FALSE
      OBVIOUS
    <3>1. /\ IsSeq(Bytes(f.of.of)) /\ Bytes(f.of) = Framed(Bytes(f.of.of))
      BY <2>1, ExecutableBytes DEF Closed, FileOK
    <3>2. PICK S : Bytes(f.of.of) \in Seq(S)
      BY <3>1 DEF IsSeq
    <3>3. Len(Bytes(f.of)) = Len(Bytes(f.of.of)) + 4
          /\ Len(Bytes(f.of.of)) \in Nat
      BY <3>1, <3>2, FramedExtracts
    <3>4. Len(Bytes(c)) = 2
      BY <1>1
    <3>5. Len(Bytes(f.of)) = 2
      BY <2>2, <3>4
    <3>6. \A n \in Nat : n + 4 # 2
      OBVIOUS
    <3> QED
      BY <3>3, <3>5, <3>6
  <2>4. Cell(c, 1) = Cell(f.of, 1)
    BY <1>1, <2>2, <2>3 DEF Bytes
  <2> QED
    BY <2>1, <2>4 DEF Cell
<1>3. CASE f.kind # "sfx"
  <2>1. Bytes(f) = <<Cell(f, 1), Cell(f, 2)>>
    BY <1>3 DEF Bytes
  <2>2. Cell(f, 2) # Magic
    <3>1. "file" \in DOMAIN Cell(f, 2) /\ "file" \notin DOMAIN Magic
      BY DEF Cell, Magic
    <3> QED
      BY <3>1
  <2> QED
    BY <2>1, <2>2 DEF ExtractPayload
<1> QED
  BY <1>2, <1>3
-----------------------------------------------------------------------------
LEMMA FileInit == Init => FileInv
<1> SUFFICES ASSUME Init PROVE FileInv
  OBVIOUS
<1> DEFINE Capsules == {path \in Paths : IsCapsule(files[path])}
           G == {files[path] : path \in Paths}
                \cup {files[path].core.file : path \in Capsules}
                \cup {Absent} \cup {Partial(q) : q \in Processes}
<1>1. TaskInv
  BY InitialAssumption, CommandAssumption DEF Init, TaskInv
<1>2. ASSUME NEW f \in G PROVE FileOK(f, G)
  <2>1. CASE f \in {files[path] : path \in Paths}
    <3>1. PICK path \in Paths : f = files[path]
      BY <2>1
    <3>2. CASE f = Absent \/ f.kind = "plain"
      BY <3>2, PairIsSeq DEF FileOK, IsCapsule, Absent
    <3>3. CASE IsCapsule(f)
      <4>1. PICK cmd \in Commands :
              /\ f = Encrypted(f.version, f.core.file, 0, cmd)
              /\ ~Refused(f, cmd)
              /\ f.version \in {LEGACY_VERSION, CURRENT_VERSION}
        BY <3>1, <3>3, InitialAssumption DEF Init, IsCapsule, Absent
      <4>2. f.core.file \in G \ {Absent} /\ 0 \in 0..started
        BY <3>1, <3>3, InitialAssumption DEF Init, IsCapsule, Absent
      <4> HIDE DEF G
      <4>3. ~Refused(Encrypted(f.version, f.core.file, 0, cmd), cmd)
        BY <4>1
      <4>4. FileOK(Encrypted(f.version, f.core.file, 0, cmd), G)
        BY <4>1, <4>2, <4>3, EncryptedOK
      <4> QED
        BY <4>1, <4>4
    <3> QED
      BY <3>1, <3>2, <3>3, InitialAssumption DEF Init
  <2>2. CASE f \in {files[path].core.file : path \in Capsules}
    <3>1. PICK path \in Capsules : f = files[path].core.file
      BY <2>2
    <3>2. f.kind = "plain"
      BY <3>1, InitialAssumption DEF Init, IsCapsule, Absent
    <3> QED
      BY <3>2, PairIsSeq DEF FileOK, IsCapsule
  <2>3. CASE f = Absent
    BY <2>3, PairIsSeq DEF FileOK, IsCapsule, Absent
  <2>4. CASE f \in {Partial(q) : q \in Processes}
    BY <2>4, PairIsSeq DEF FileOK, IsCapsule, Partial
  <2> QED
    BY <2>1, <2>2, <2>3, <2>4
<1>3. Holds(G)
  BY <1>2 DEF Holds, Closed, Init, Idle, Carrying
<1> QED
  BY <1>1, <1>3 DEF FileInv

Counts ==
  \/ UNCHANGED started
  \/ started < MaxCommands /\ started' = started + 1

(* A step of one process that writes at most one path. *)
LEMMA Proceeds ==
  ASSUME TaskInv, NEW G, Holds(G), NEW H, G \subseteq H, Closed(H),
         NEW p \in Processes, NEW t, Advance(p, t), Counts,
         t = Idle \/ (TaskOK(t, started') /\ t.command \in Commands),
         t.state \in Carrying => t.result \in H,
         \/ files' = files
         \/ \E path, f : f \in H /\ files' = [files EXCEPT ![path] = f]
  PROVE  FileInv'
<1>1. started' \in 0..MaxCommands /\ 0..started \subseteq 0..started'
  BY CommandAssumption DEF TaskInv, Counts
<1>2. TaskInv'
  <2>1. /\ DOMAIN task' = Processes /\ DOMAIN files' = Paths /\ task'[p] = t
        /\ \A q \in Processes \ {p} : task'[q] = task[q]
    BY DEF TaskInv, Advance
  <2>2. ASSUME NEW q \in Processes
        PROVE  \/ task'[q] = Idle
               \/ TaskOK(task'[q], started') /\ task'[q].command \in Commands
    <3>1. CASE q = p
      BY <2>1, <3>1 DEF TaskOK, Command
    <3>2. CASE q # p
      BY <1>1, <2>1, <3>2 DEF TaskInv, TaskOK, Command
    <3> QED
      BY <3>1, <3>2
  <2> QED
    BY <1>1, <2>1, <2>2 DEF TaskInv, Command
<1>3. \A path \in Paths : files'[path] \in H
  BY DEF TaskInv, Holds
<1>4. \A q \in Processes :
        task'[q].state \in Carrying => task'[q].result \in H
  BY DEF TaskInv, Advance, Holds
<1>5. Closed(H)'
  BY <1>1 DEF Closed, FileOK
<1>6. Holds(H)'
  BY <1>3, <1>4, <1>5 DEF Holds
<1> QED
  BY <1>2, <1>6 DEF FileInv

(* One of them that knows the files already. *)
LEMMA Keeps ==
  ASSUME TaskInv, NEW G, Holds(G),
         NEW p \in Processes, NEW t, Advance(p, t), Counts,
         t = Idle \/ (TaskOK(t, started') /\ t.command \in Commands),
         t.state \in Carrying => t.result \in G,
         \/ files' = files
         \/ \E path, f : f \in G /\ files' = [files EXCEPT ![path] = f]
  PROVE  FileInv'
BY Proceeds DEF Holds

LEMMA Ends ==
  ASSUME TaskInv, NEW G, Holds(G), NEW p \in Processes, End(p), Counts,
         \/ files' = files
         \/ \E path, f : f \in G /\ files' = [files EXCEPT ![path] = f]
  PROVE  FileInv'
<1>1. Advance(p, Idle) /\ Idle.state \notin Carrying
  BY DEF End, Idle, Carrying
<1> QED
  BY <1>1, Keeps

(* A command that is refused at once. *)
LEMMA Refuses ==
  ASSUME TaskInv, NEW G, Holds(G), UNCHANGED <<files, task>>, Counts
  PROVE  FileInv'
<1>1. started' \in 0..MaxCommands /\ 0..started \subseteq 0..started'
  BY CommandAssumption DEF TaskInv, Counts
<1>2. TaskInv'
  BY <1>1 DEF TaskInv, TaskOK, Command
<1>3. Closed(G)'
  BY <1>1 DEF Holds, Closed, FileOK
<1>4. Holds(G)'
  BY <1>3 DEF Holds
<1> QED
  BY <1>2, <1>4 DEF FileInv

(* A result made of what there is. *)
LEMMA Produces ==
  ASSUME TaskInv, NEW G, Holds(G), NEW H, G \subseteq H, Closed(H),
         NEW p \in Processes, task[p] # Idle,
         NEW r \in H, Produce(p, {r}), UNCHANGED files, Counts
  PROVE  FileInv'
<1>1. Advance(p, [state |-> "ready", command |-> Command(p), result |-> r])
  BY DEF Produce
<1>2. Command(p) \in Commands
  BY DEF TaskInv
<1> DEFINE t == [state |-> "ready", command |-> Command(p), result |-> r]
<1>3. t.state = "ready" /\ t.command = Command(p) /\ t.result = r
  OBVIOUS
<1> HIDE DEF t
<1>4. TaskOK(t, started')
  BY <1>3 DEF TaskOK
<1> QED
  BY <1>1, <1>2, <1>3, <1>4, Proceeds DEF t
-----------------------------------------------------------------------------
LEMMA FileStep == FileInv /\ [Next]_vars => FileInv'
<1> SUFFICES ASSUME FileInv, [Next]_vars PROVE FileInv'
  OBVIOUS
<1> USE DEF FileInv
<1>0. PICK G : Holds(G)
  OBVIOUS
<1>a. /\ \A path \in Paths : files[path] \in G
      /\ Absent \in G /\ \A q \in Processes : Partial(q) \in G
      /\ \A f \in G : FileOK(f, G)
      /\ \A q \in Processes :
           /\ \/ task[q] = Idle
              \/ TaskOK(task[q], started) /\ Command(q) \in Commands
           /\ task[q].state \in Carrying => task[q].result \in G
  BY <1>0 DEF Holds, Closed, TaskInv
<1>b. \A c \in Commands : c.in \in Paths /\ c.out \in Paths
  BY CommandAssumption
<1>c. Idle.state = "idle"
  BY DEF Idle
<1>1. ASSUME NEW p \in Processes, NEW c \in Commands, Begin(p, c)
      PROVE  FileInv'
  <2>0. Counts
    BY <1>1 DEF Begin, Counts
  <2>1. CASE UNCHANGED task
    BY <1>1, <2>0, <2>1, <1>0, Refuses DEF Begin
  <2>2. CASE Advance(p, [state |-> "begun", command |-> c, id |-> started'])
    <3> DEFINE t == [state |-> "begun", command |-> c, id |-> started']
    <3>1. t.state = "begun" /\ t.command = c /\ t.id = started'
      OBVIOUS
    <3>2. started' \in 0..started'
      BY <1>1, CommandAssumption DEF Begin, TaskInv
    <3> HIDE DEF t
    <3>3. TaskOK(t, started')
      BY <3>1, <3>2 DEF TaskOK
    <3> QED
      BY <1>1, <2>0, <2>2, <3>1, <3>3, <1>0, Keeps DEF Begin, Carrying, t
  <2> QED
    BY <1>1, <2>1, <2>2 DEF Begin
<1>2. ASSUME NEW p \in Processes, ReadPlaintext(p) PROVE FileInv'
  <2>0. Counts
    BY <1>2 DEF ReadPlaintext, Counts
  <2> DEFINE f == files[Command(p).in]
             c == Encrypted(CURRENT_VERSION, f, task[p].id, Command(p))
  <2>1. CASE End(p)
    BY <1>2, <2>1, <1>0, <2>0, Ends DEF ReadPlaintext
  <2>2. CASE f # Absent /\ ~Refused(c, Command(p)) /\ Produce(p, {c})
    <3>1. /\ task[p] # Idle /\ f \in G /\ Command(p) \in Commands
          /\ f # Absent /\ task[p].id \in 0..started
          /\ c = Encrypted(CURRENT_VERSION, f, task[p].id, Command(p))
      BY <1>2, <2>2, <1>a, <1>b, <1>c DEF ReadPlaintext, TaskOK
    <3>2. Closed(G \cup {c})
      BY <2>2, <3>1, <1>0, EncryptedOK, ClosedAdd DEF Holds
    <3> HIDE DEF c, f
    <3> QED
      BY <1>2, <2>2, <3>1, <3>2, <1>0, <2>0, Produces DEF ReadPlaintext
  <2> QED
    BY <1>2, <2>1, <2>2 DEF ReadPlaintext
<1>3. ASSUME NEW p \in Processes, ReadCapsule(p) PROVE FileInv'
  <2>0. Counts
    BY <1>3 DEF ReadCapsule, Counts
  <2> DEFINE f == files[Command(p).in]
  <2>1. CASE End(p)
    BY <1>3, <2>1, <1>0, <2>0, Ends DEF ReadCapsule
  <2>2. CASE IsCapsule(f) /\ Produce(p, {f.core.file})
    <3>1. task[p] # Idle /\ f.core.file \in G
      BY <1>3, <2>2, <1>a, <1>b, <1>c DEF ReadCapsule, FileOK
    <3> HIDE DEF f
    <3> QED
      BY <1>3, <2>2, <3>1, <1>0, <2>0, Produces DEF ReadCapsule, Holds
  <2> QED
    BY <1>3, <2>1, <2>2 DEF ReadCapsule
<1>4. ASSUME NEW p \in Processes, Edit(p) PROVE FileInv'
  <2>0. Counts
    BY <1>4 DEF Edit, Counts
  <2> DEFINE edited(t) ==
               Encrypted(CURRENT_VERSION, Plain(t), task[p].id, Command(p))
  <2>1. CASE End(p)
    BY <1>4, <2>1, <1>0, <2>0, Ends DEF Edit
  <2>2. CASE \E t \in Texts : /\ Produce(p, {edited(t)})
                              /\ ~Refused(edited(t), Command(p))
    <3>1. PICK t \in Texts : /\ Produce(p, {edited(t)})
                             /\ ~Refused(edited(t), Command(p))
      BY <2>2
    <3>2. /\ task[p] # Idle /\ Command(p) \in Commands
          /\ task[p].id \in 0..started /\ Plain(t) # Absent
      BY <1>4, <1>a, <1>c DEF Edit, TaskOK, Plain, Absent
    <3>3. Closed(G \cup {Plain(t)})
      BY <1>0, PairIsSeq, ClosedAdd DEF Holds, FileOK, Plain, IsCapsule
    <3>4. Closed(G \cup {Plain(t)} \cup {edited(t)})
      BY <3>1, <3>2, <3>3, EncryptedOK, ClosedAdd
    <3> HIDE DEF edited
    <3> QED
      BY <1>4, <3>1, <3>2, <3>4, <1>0, <2>0, Produces DEF Edit
  <2>3. \/ End(p)
        \/ \E t \in Texts : /\ Produce(p, {edited(t)})
                            /\ ~Refused(edited(t), Command(p))
    BY <1>4 DEF Edit, Produce
  <2> QED
    BY <2>1, <2>2, <2>3
<1>5. ASSUME NEW p \in Processes, Annotate(p) PROVE FileInv'
  <2>0. Counts
    BY <1>5 DEF Annotate, Counts
  <2> DEFINE f == files[Command(p).in]
             results == {Logged(a, Command(p)) : a \in Annotated(f, Command(p))}
  <2>1. CASE End(p)
    BY <1>5, <2>1, <1>0, <2>0, Ends DEF Annotate
  <2>2. CASE IsCapsule(f) /\ \E r \in results : Fits(r) /\ Produce(p, {r})
    <3>1. PICK r \in results : Fits(r) /\ Produce(p, {r})
      BY <2>2
    <3>2. PICK a \in Annotated(f, Command(p)) : r = Logged(a, Command(p))
      BY <3>1
    <3>3. task[p] # Idle /\ Command(p) \in Commands
          /\ Command(p).op \in Annotators
      BY <1>5, <1>a, <1>c DEF Annotate
    <3>4. /\ f \in G /\ CapsuleOK(f)
          /\ f.core.file \in G \ {Absent} /\ f.core.id \in 0..started
      BY <2>2, <3>3, <1>a, <1>b DEF FileOK
    <3>5. IsCapsule(r) /\ r.core = f.core /\ CapsuleOK(r)
      BY <2>2, <3>2, <3>3, <3>4, AnnotationOK
    <3>6. FileOK(r, G)
      BY <3>1, <3>4, <3>5, PairIsSeq DEF FileOK, IsCapsule
    <3>7. Closed(G \cup {r})
      BY <3>6, <1>0, ClosedAdd DEF Holds
    <3> QED
      BY <1>5, <3>1, <3>3, <3>7, <1>0, <2>0, Produces DEF Annotate
  <2>3. \/ End(p)
        \/ IsCapsule(f) /\ \E r \in results : Fits(r) /\ Produce(p, {r})
    BY <1>5 DEF Annotate, EncodeChecked
  <2> QED
    BY <2>1, <2>2, <2>3
<1>6. ASSUME NEW p \in Processes, WriteNew(p) \/ Write(p) \/ FillOutput(p)
      PROVE  FileInv'
  <2>1. task[p].result \in G
    BY <1>6, <1>a DEF WriteNew, Write, FillOutput, Carrying
  <2>2. /\ End(p)
        /\ \/ files' = files
           \/ files' = [files EXCEPT ![Command(p).out] = task[p].result]
        /\ Counts
    BY <1>6 DEF WriteNew, Write, FillOutput, Place, Counts
  <2> QED
    BY <2>1, <2>2, <1>0, Ends
<1>7. ASSUME NEW p \in Processes, WriteIntermediate(p) PROVE FileInv'
  <2>0. Counts
    BY <1>7 DEF WriteIntermediate, Counts
  <2>1. task[p].result \in G /\ Command(p) \in Commands
    BY <1>7, <1>a, <1>c DEF WriteIntermediate, Carrying
  <2> QED
    BY <1>7, <2>1, <1>0, <2>0, Keeps DEF WriteIntermediate, Carrying, TaskOK
<1>8. ASSUME NEW p \in Processes, BuildSfx(p) PROVE FileInv'
  <2>0. Counts
    BY <1>8 DEF BuildSfx, Counts
  <2> DEFINE f == files[Intermediate[Command(p).out]]
             t == [state |-> "built", command |-> Command(p),
                   result |-> Executable(f)]
  <2>1. CASE End(p)
    BY <1>8, <2>1, <1>0, <2>0, Ends DEF BuildSfx
  <2>2. CASE Advance(p, t)
    <3>1. Command(p) \in Commands
      BY <1>8, <1>a, <1>c DEF BuildSfx
    <3>2. f \in G
      BY <3>1, <1>a, <1>b, CommandAssumption
    <3>3. Closed(G \cup {Executable(f)})
      BY <3>2, <1>0, ExecutableOK, ClosedAdd DEF Holds
    <3>4. /\ t.command = Command(p) /\ t.result = Executable(f)
          /\ TaskOK(t, started')
      BY DEF TaskOK
    <3> HIDE DEF t, f
    <3> QED
      BY <1>8, <2>2, <3>1, <3>3, <3>4, <1>0, <2>0, Proceeds DEF BuildSfx
  <2> QED
    BY <1>8, <2>1, <2>2 DEF BuildSfx
<1>9. ASSUME NEW p \in Processes, NoStub(p) \/ RemoveIntermediate(p)
      PROVE  FileInv'
  BY <1>9, <1>a, <1>0, Ends
     DEF NoStub, RemoveIntermediate, DropIntermediate, Counts
<1>10. ASSUME NEW p \in Processes, PlaceSfx(p) PROVE FileInv'
  <2>0. Counts
    BY <1>10 DEF PlaceSfx, Counts
  <2>1. task[p].result \in G /\ Command(p) \in Commands
    BY <1>10, <1>a, <1>c DEF PlaceSfx, Carrying
  <2>2. CASE End(p) /\ UNCHANGED files
    BY <2>2, <1>0, <2>0, Ends
  <2>3. CASE /\ files' = [files EXCEPT ![Command(p).out] = task[p].result]
             /\ Advance(p, [state |-> "placed", command |-> Command(p)])
    BY <2>1, <2>3, <1>0, <2>0, Keeps DEF Carrying, TaskOK
  <2> QED
    BY <1>10, <2>2, <2>3 DEF PlaceSfx
<1>11. ASSUME NEW p \in Processes, RunExtractor(p) PROVE FileInv'
  <2>0. Counts
    BY <1>11 DEF RunExtractor, Counts
  <2> DEFINE f == files[Command(p).in]
             opened == {c \in {b[1].file : b \in ExtractPayload(Bytes(f))} :
                          /\ IsCapsule(c) /\ Fits(c)
                          /\ Bytes(c) \in ExtractPayload(Bytes(f))}
  <2>1. CASE End(p)
    BY <1>11, <2>1, <1>0, <2>0, Ends DEF RunExtractor
  <2>2. CASE \E c \in opened : Produce(p, {c.core.file})
    <3>1. PICK c \in opened : Produce(p, {c.core.file})
      BY <2>2
    <3>2. task[p] # Idle /\ f \in G
      BY <1>11, <1>a, <1>b, <1>c DEF RunExtractor
    <3>3. c \in G /\ IsCapsule(c)
      BY <3>1, <3>2, <1>0, OpenedKnown DEF Holds
    <3>4. c.core.file \in G
      BY <3>3, <1>a DEF FileOK
    <3> QED
      BY <1>11, <3>1, <3>2, <3>4, <1>0, <2>0, Produces DEF RunExtractor, Holds
  <2>3. End(p) \/ \E c \in opened : Produce(p, {c.core.file})
    BY <1>11 DEF RunExtractor, Produce
  <2> QED
    BY <2>1, <2>2, <2>3
<1>12. ASSUME NEW p \in Processes, CreateOutput(p) PROVE FileInv'
  <2>0. Counts
    BY <1>12 DEF CreateOutput, Counts
  <2>1. task[p].result \in G /\ Command(p) \in Commands
    BY <1>12, <1>a, <1>c DEF CreateOutput, Carrying
  <2>2. CASE End(p) /\ UNCHANGED files
    BY <2>2, <1>0, <2>0, Ends
  <2>3. CASE /\ files' = [files EXCEPT ![Command(p).out] = Partial(p)]
             /\ Advance(p, [state |-> "writing", command |-> Command(p),
                            result |-> task[p].result])
    BY <2>1, <2>3, <1>a, <1>0, <2>0, Keeps DEF TaskOK
  <2> QED
    BY <1>12, <2>2, <2>3 DEF CreateOutput
<1>13. ASSUME NEW p \in Processes, FailOutput(p) \/ Abort(p) PROVE FileInv'
  BY <1>13, <1>a, <1>0, Ends DEF FailOutput, Abort, Counts
<1>14. CASE UNCHANGED vars
  BY <1>14, <1>0, Refuses DEF vars, Counts
<1> QED
  BY <1>1, <1>2, <1>3, <1>4, <1>5, <1>6, <1>7, <1>8, <1>9, <1>10, <1>11,
     <1>12, <1>13, <1>14 DEF Next, Step

(* Every file is of a kind the code writes; a capsule is in a version it   *)
(* knows and was made by a command that began, from a file that was there; *)
(* and a process is idle or at one of the steps of its command.            *)
THEOREM TypeCorrect == Spec => []TypeOK
<1>1. FileInv => TypeOK
  <2> SUFFICES ASSUME FileInv PROVE TypeOK
    OBVIOUS
  <2>1. ASSUME NEW path \in Paths
        PROVE  LET f == files[path]
               IN  /\ f.kind \in {"absent", "plain", "capsule", "sfx",
                                  "partial"}
                   /\ IsCapsule(f) =>
                        /\ f.version \in {LEGACY_VERSION, CURRENT_VERSION}
                        /\ f.core.file # Absent
                        /\ f.core.id \in 0..started
                        /\ f.release \in 0..2 /\ f.recovery \in 0..1
    <3>1. PICK G : FileOK(files[path], G)
      BY DEF FileInv, Holds, Closed
    <3> QED
      BY <3>1 DEF FileOK, CapsuleOK
  <2>2. /\ started \in 0..MaxCommands
        /\ \A p \in Processes :
             \/ task[p] = Idle
             \/ /\ task[p].state \in {"begun", "ready", "stored", "built",
                                      "placed", "writing"}
                /\ Command(p) \in Commands
    BY DEF FileInv, TaskInv, TaskOK
  <2> QED
    BY <2>1, <2>2 DEF TypeOK
<1> QED
  BY FileInit, FileStep, <1>1, PTL DEF Spec

(* "preserving the parser's envelope-size invariant": no sequence of       *)
(* commands leaves a capsule that the parser refuses for its size.         *)
THEOREM StaysReadable == Spec => []AlwaysReadable
<1>1. FileInv => AlwaysReadable
  BY DEF FileInv, Holds, Closed, FileOK, AlwaysReadable
<1> QED
  BY FileInit, FileStep, <1>1, PTL DEF Spec

(* The stub takes the appended file, whole and alone, from any executable  *)
(* that is ever in place.                                                  *)
THEOREM StubFindsCapsule == Spec => []ExtractorsWhole
<1>1. FileInv => ExtractorsWhole
  <2> SUFFICES ASSUME FileInv, NEW path \in Paths, files[path].kind = "sfx"
               PROVE  ExtractPayload(files[path].cells)
                        = {Bytes(files[path].of)}
    BY DEF ExtractorsWhole
  <2>1. PICK G : Holds(G)
    BY DEF FileInv
  <2>2. /\ files[path] = Executable(files[path].of)
        /\ IsSeq(Bytes(files[path].of))
    BY <2>1 DEF Holds, Closed, FileOK
  <2>3. files[path].cells = Framed(Bytes(files[path].of))
    BY <2>2, ExecutableBytes DEF Bytes
  <2> QED
    BY <2>2, <2>3, FramedExtracts
<1> QED
  BY FileInit, FileStep, <1>1, PTL DEF Spec

(* CAPSULE_POLICY.md: a violation fails unless the override is used, and   *)
(* the flag is part of the payload commitment.  A capsule made under a     *)
(* policy without the override stays valid under it however it is          *)
(* annotated, and one made with it is never failed for the policy.         *)
THEOREM PolicyStands == Spec => []PolicyKept
<1>1. FileInv => PolicyKept
  <2> SUFFICES ASSUME FileInv, NEW path \in Paths, IsCapsule(files[path])
               PROVE  LET c == files[path]
                      IN  /\ ~c.core.overridden => IsValid(c, c.under)
                          /\ c.version = CURRENT_VERSION =>
                               \A signature \in {"none", "unchecked", "valid"} :
                                 Verdict(c, signature, c.under) # "Fail"
    BY DEF PolicyKept
  <2> DEFINE c == files[path]
  <2>1. Lawful(c)
    BY DEF FileInv, Holds, Closed, FileOK, CapsuleOK
  <2>2. ~c.core.overridden => IsValid(c, c.under)
    BY <2>1, AnnotationsSatisfy DEF Lawful
  <2>3. ASSUME c.version = CURRENT_VERSION,
               NEW signature \in {"none", "unchecked", "valid"}
        PROVE  Verdict(c, signature, c.under) # "Fail"
    <3>1. c.version # LEGACY_VERSION
      BY <2>3 DEF LEGACY_VERSION, CURRENT_VERSION
    <3> QED
      BY <2>2, <2>3, <3>1 DEF Verdict
  <2> QED
    BY <2>2, <2>3
<1> QED
  BY FileInit, FileStep, <1>1, PTL DEF Spec

(* FORMAT.md: approvals can be appended without invalidating an author     *)
(* signature.  verify-signature accepts a key exactly when the last        *)
(* signature is that key's and nothing it covers has changed since.        *)
THEOREM AuthorIsLastSigner == Spec => []AuthorExact
<1>1. FileInv => AuthorExact
  <2> SUFFICES ASSUME FileInv, NEW path \in Paths, IsCapsule(files[path]),
                      NEW key \in Keys
               PROVE  LET c == files[path]
                      IN  AuthorValid(c, key) <=>
                            \E i \in DOMAIN c.log :
                              /\ LastSign(c, i) /\ c.log[i].key = key
                              /\ SameAttachments(c, c.log[i])
                              /\ c.version = LEGACY_VERSION =>
                                   c.log[i].seals = Len(c.approvals)
    BY DEF AuthorExact, LastSign
  <2>1. CapsuleOK(files[path])
    BY DEF FileInv, Holds, Closed, FileOK
  <2> QED
    BY <2>1, AuthorOfHistory
<1> QED
  BY FileInit, FileStep, <1>1, PTL DEF Spec

(* APPROVALS.md: a v2 seal commits to the public envelope without the      *)
(* approval list.  verify_approvals finds a seal of a key exactly when the *)
(* key approved the capsule with the annotations it has now; in format v1  *)
(* any seal counts.                                                        *)
THEOREM ApproversAreSealers == Spec => []ApprovalExact
<1>1. FileInv => ApprovalExact
  <2> SUFFICES ASSUME FileInv, NEW path \in Paths, IsCapsule(files[path]),
                      NEW key \in Keys
               PROVE  LET c == files[path]
                      IN  ApprovalValid(c, key) <=>
                            \E i \in DOMAIN c.log :
                              /\ c.log[i].op = "approve" /\ c.log[i].key = key
                              /\ c.version = CURRENT_VERSION =>
                                   /\ c.log[i].sig = c.sig
                                   /\ SameAttachments(c, c.log[i])
    BY DEF ApprovalExact
  <2>1. CapsuleOK(files[path])
    BY DEF FileInv, Holds, Closed, FileOK
  <2> QED
    BY <2>1, ApproversOfHistory
<1> QED
  BY FileInit, FileStep, <1>1, PTL DEF Spec
-----------------------------------------------------------------------------
Cautious == Signers \cup {"sfx", "extract"}

(* A step of another process does not change the command. *)
LEMMA OthersStay ==
  ASSUME TaskInv, NEW p \in Processes, NEW q \in Processes, p # q,
         Step(q) \/ Abort(q) \/ (\E c \in Commands : Begin(q, c))
  PROVE  task'[p] = task[p]
<1>1. UNCHANGED task \/ \E t : Advance(q, t)
  <2>1. CASE ReadPlaintext(q)
    BY <2>1 DEF ReadPlaintext, End, Produce
  <2>2. CASE ReadCapsule(q)
    BY <2>2 DEF ReadCapsule, End, Produce
  <2>3. CASE Edit(q)
    BY <2>3 DEF Edit, End, Produce
  <2>4. CASE Annotate(q)
    BY <2>4 DEF Annotate, EncodeChecked, End, Produce
  <2>5. CASE WriteNew(q) \/ Write(q)
    BY <2>5 DEF WriteNew, Write, Place, End
  <2>6. CASE WriteIntermediate(q) \/ BuildSfx(q) \/ PlaceSfx(q)
    BY <2>6 DEF WriteIntermediate, BuildSfx, PlaceSfx, End
  <2>7. CASE NoStub(q) \/ RemoveIntermediate(q)
    BY <2>7 DEF NoStub, RemoveIntermediate, DropIntermediate, End
  <2>8. CASE RunExtractor(q)
    BY <2>8 DEF RunExtractor, End, Produce
  <2>9. CASE CreateOutput(q) \/ FillOutput(q) \/ FailOutput(q) \/ Abort(q)
    BY <2>9 DEF CreateOutput, FillOutput, FailOutput, Abort, End
  <2>10. CASE \E c \in Commands : Begin(q, c)
    BY <2>10 DEF Begin
  <2> QED
    BY <2>1, <2>2, <2>3, <2>4, <2>5, <2>6, <2>7, <2>8, <2>9, <2>10 DEF Step
<1> QED
  BY <1>1 DEF Advance, TaskInv

(* Its own step, with the result at hand. *)
LEMMA OwnStepKeeps ==
  ASSUME TaskInv, NEW p \in Processes, Command(p).op \in Cautious,
         task[p] # Idle,
         Step(p) \/ Abort(p) \/ (\E c \in Commands : Begin(p, c))
  PROVE  KeepsExisting(p)
<1> DEFINE cmd == Command(p)
<1> SUFFICES ASSUME task[p].state \in {"ready", "built"}, ~cmd.force,
                    files[cmd.out] # Absent
             PROVE  files'[cmd.out] = files[cmd.out]
  BY DEF KeepsExisting
<1>1. cmd \in Commands /\ cmd.out \in Paths /\ ~Available(cmd)
      /\ DOMAIN files = Paths
  BY CommandAssumption DEF TaskInv, Available
<1>2. CASE WriteNew(p)
  BY <1>1, <1>2 DEF WriteNew
<1>3. CASE WriteIntermediate(p)
  <2>1. Intermediate[cmd.out] # cmd.out
    BY <1>1, CommandAssumption
  <2> QED
    BY <1>1, <1>3, <2>1 DEF WriteIntermediate
<1>4. CASE PlaceSfx(p) \/ CreateOutput(p)
  BY <1>1, <1>4 DEF PlaceSfx, CreateOutput
<1>5. CASE BuildSfx(p) \/ Abort(p)
  BY <1>5 DEF BuildSfx, Abort
<1>6. ~Write(p)
  BY DEF Write, Cautious
<1>7. /\ ~ReadPlaintext(p) /\ ~ReadCapsule(p) /\ ~Edit(p) /\ ~Annotate(p)
      /\ ~RunExtractor(p) /\ ~NoStub(p) /\ ~RemoveIntermediate(p)
      /\ ~FillOutput(p) /\ ~FailOutput(p)
  BY DEF ReadPlaintext, ReadCapsule, Edit, Annotate, RunExtractor, NoStub,
         RemoveIntermediate, FillOutput, FailOutput
<1>8. \A c \in Commands : ~Begin(p, c)
  BY DEF Begin
<1> QED
  BY <1>2, <1>3, <1>4, <1>5, <1>6, <1>7, <1>8 DEF Step

(* Without --force sign, approve, encrypt --sfx and an extractor replace   *)
(* nothing, not even a file that appeared after they looked.               *)
THEOREM CautiousNeverOverwrite == Spec => NeverOverwrites
<1>1. FileInv /\ [Next]_vars
      => [\A p \in Processes :
            /\ task[p] # Idle
            /\ Command(p).op \in Signers \cup {"sfx", "extract"}
            => KeepsExisting(p)]_vars
  <2> SUFFICES ASSUME FileInv, Next, NEW p \in Processes,
                      task[p] # Idle, Command(p).op \in Cautious
               PROVE  KeepsExisting(p)
    BY DEF Cautious
  <2>1. PICK q \in Processes :
          Step(q) \/ Abort(q) \/ \E c \in Commands : Begin(q, c)
    BY DEF Next
  <2>2. CASE q = p
    BY <2>1, <2>2, OwnStepKeeps DEF FileInv
  <2>3. CASE q # p
    BY <2>1, <2>3, OthersStay DEF FileInv, KeepsExisting
  <2> QED
    BY <2>2, <2>3
<1> QED
  BY FileInit, FileStep, <1>1, PTL DEF Spec, NeverOverwrites
=============================================================================
