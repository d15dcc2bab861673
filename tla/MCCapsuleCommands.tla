------------------------- MODULE MCCapsuleCommands -------------------------
(***************************************************************************)
(* Small instance of CapsuleCommands: a document, two capsules, a self-    *)
(* extractor and its intermediate file, two processes, two signing keys,   *)
(* and a capsule of either format version there beforehand.                *)
(***************************************************************************)
EXTENDS CapsuleCommands

(* A policy that annotations can satisfy, but no encryption. *)
Reviewed ==
  [DefaultPolicy EXCEPT !.require_signature = TRUE,
                        !.require_approval_signatures_min = 1,
                        !.created_by_required = TRUE,
                        !.require_recovery = TRUE]

(* One that depends on the encryption alone. *)
Plainly ==
  [DefaultPolicy EXCEPT !.allow_experimental = FALSE,
                        !.min_kdf_profile = {"moderate"},
                        !.allowed_ciphers = {{"XChaCha20Poly1305"}},
                        !.allowed_kdfs = {{"Argon2id"}},
                        !.require_recipient_count_min = 1,
                        !.public_label_allowed = FALSE]

MCPolicies == {DefaultPolicy, Reviewed, Plainly}

Cmd(op, in, out, force, key) ==
  [op |-> op, in |-> in, out |-> out, force |-> force, key |-> key,
   policy |-> DefaultPolicy, override |-> FALSE,
   header |-> PasswordHeader("Balanced")]

Under(cmd, policy, override, header) ==
  [cmd EXCEPT !.policy = policy, !.override = override, !.header = header]

(* Annotating in place, or into the second capsule. *)
MCAnnotating ==
  {Cmd(op, "c1", "c2", FALSE, "ann") : op \in Signers}
  \cup {Cmd(op, "c1", "c1", TRUE, "ann") : op \in Signers}
  \cup {Cmd("sign", "c1", "c1", TRUE, "bob"),
        Cmd("approve", "c1", "c2", FALSE, "bob"),
        Cmd("approve", "c2", "c1", TRUE, "bob")}
  \cup {Cmd(op, "c1", "c1", TRUE, NoKey) : op \in Attachers}
  \cup {Cmd("release", "c1", "c2", FALSE, NoKey)}

MCStreams ==
  {Cmd("encrypt", "doc", "c1", FALSE, NoKey),
   Cmd("encrypt", "doc", "doc", TRUE, NoKey),
   Cmd("encrypt", "doc", "c2", TRUE, NoKey),
   Cmd("decrypt", "c1", "doc", FALSE, NoKey),
   Cmd("decrypt", "c2", "doc", TRUE, NoKey)}

MCPolicyStreams ==
  LET encrypt == Cmd("encrypt", "doc", "c1", TRUE, NoKey)
  IN  {Under(encrypt, Plainly, FALSE, PasswordHeader(profile)) :
         profile \in {"Balanced", "Archive"}}
      \cup {Under(encrypt, Plainly, TRUE, Header("Extreme", "hybrid", 2)),
            Under(encrypt, Reviewed, TRUE, PasswordHeader("Balanced"))}

(* The second one extracts what the first may have made. *)
MCExtractors ==
  {Cmd("sfx", "doc", "x", FALSE, NoKey), Cmd("sfx", "c1", "x", TRUE, NoKey),
   Cmd("extract", "x", "doc", FALSE, NoKey),
   Cmd("extract", "x", "c2", FALSE, NoKey)}

MCSecrets ==
  {Cmd("secretEncrypt", "doc", "c1", FALSE, NoKey),
   Cmd("secretDecrypt", "c1", "doc", FALSE, NoKey),
   Cmd("secretEdit", "c1", "c1", FALSE, NoKey)}

MCCommands ==
  MCAnnotating \cup MCStreams \cup MCPolicyStreams \cup MCExtractors
  \cup MCSecrets

Document == Plain("old")

Existing(version) ==
  Encrypted(version, Document, 0, Cmd("encrypt", "doc", "c1", FALSE, NoKey))

MCInitialFiles ==
  {[path \in Paths |-> CASE path = "doc" -> Document
                         [] path = "c1"  -> c1
                         [] OTHER        -> Absent] :
     c1 \in {Absent} \cup {Existing(v) :
                            v \in {LEGACY_VERSION, CURRENT_VERSION}}}

MCIntermediate == [path \in Paths |-> IF path = "tmp" THEN "x" ELSE "tmp"]
=============================================================================
