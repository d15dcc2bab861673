--------------------------- MODULE CapsulePolicy ---------------------------
(***************************************************************************)
(* Policies of lvau-core: what an encryption chooses for the public header *)
(* (crypto/mod.rs), the lint of an envelope against a policy (policy.rs)   *)
(* and the verdict of a preflight (preflight.rs).                          *)
(*                                                                         *)
(* An optional rule of a policy is a set with at most one element.  An     *)
(* envelope is a record with the fields version, core (what an encryption  *)
(* settles: header, overridden and label), sig, approvals, release and     *)
(* recovery.  Metadata that is not there is 0, a missing signature has     *)
(* NoKey.                                                                  *)
(***************************************************************************)
EXTENDS Naturals, FiniteSets

CONSTANT NoKey

LEGACY_VERSION  == 1
CURRENT_VERSION == 2

Profiles == {"Fast", "Balanced", "Archive", "Paranoid", "Extreme"}

(* What an encryption is asked for: a security profile, and a password or  *)
(* the hybrid keys of count recipients.                                    *)
Header(profile, kind, count) ==
  [profile |-> profile, kind |-> kind, count |-> count]

PasswordHeader(profile) == Header(profile, "password", 1)

Algorithm(header) ==
  CASE header.profile = "Extreme"  -> "TripleCascadeAesXChaChaLco"
    [] header.profile = "Paranoid" -> "CascadeAesGcmXChaCha"
    [] OTHER                       -> "XChaCha20Poly1305"

Kdf(header) == IF header.kind = "password" THEN "Argon2id" ELSE "None"

(* Argon2id's memory, passes and lanes. *)
Costs(profile) ==
  CASE profile = "Fast"     -> <<16384, 1, 1>>
    [] profile = "Balanced" -> <<65536, 2, 1>>
    [] profile = "Archive"  -> <<262144, 3, 2>>
    [] OTHER                -> <<1048576, 4, 4>>

(* What a minimum of the policy asks of them. *)
MinimumCosts(minimum) ==
  CASE minimum = "interactive" -> <<65536, 2, 1>>
    [] minimum = "moderate"    -> <<262144, 3, 2>>
    [] minimum = "strong"      -> <<1048576, 4, 4>>

(* A capsule without a password has no costs to check. *)
MeetsKdf(header, minimum) ==
  header.kind = "password" =>
    \A i \in 1..3 : Costs(header.profile)[i] >= MinimumCosts(minimum)[i]

IsExperimental(header) ==
  header.profile \in {"Extreme", "Paranoid"} \/ header.kind = "hybrid"

Approvers(envelope) ==
  {envelope.approvals[i].key : i \in DOMAIN envelope.approvals}

(* Release metadata names its project or, in the reading 2, does not. *)
NamesProject(release) == release = 1

(* CapsulePolicy::default requires nothing; without a policy nothing is    *)
(* linted, which comes to the same.                                        *)
DefaultPolicy ==
  [require_signature |-> FALSE, require_recovery |-> FALSE,
   min_kdf_profile |-> {}, allowed_ciphers |-> {}, allowed_kdfs |-> {},
   allow_lco |-> TRUE, allow_experimental |-> TRUE,
   require_metadata_profile |-> {}, require_padding |-> {},
   require_recipient_count_min |-> 0, require_approval_signatures_min |-> 0,
   public_label_allowed |-> TRUE, created_by_required |-> FALSE]

(* lint_envelope, rule by rule.  The metadata profile and the padding are  *)
(* inside the payload: a policy that asks for one is always violated.      *)
Fails(rule, envelope, policy) ==
  LET header == envelope.core.header
  IN  \/ /\ rule = "require_signature"
         /\ policy.require_signature /\ envelope.sig.key = NoKey
      \/ /\ rule = "require_recovery"
         /\ policy.require_recovery /\ envelope.recovery = 0
      \/ /\ rule = "min_kdf_profile"
         /\ \E minimum \in policy.min_kdf_profile : ~MeetsKdf(header, minimum)
      \/ /\ rule = "allowed_ciphers"
         /\ \E list \in policy.allowed_ciphers : Algorithm(header) \notin list
      \/ /\ rule = "allowed_kdfs"
         /\ \E list \in policy.allowed_kdfs : Kdf(header) \notin list
      \/ /\ rule = "allow_lco" /\ ~policy.allow_lco
         /\ Algorithm(header) = "TripleCascadeAesXChaChaLco"
      \/ /\ rule = "allow_experimental"
         /\ ~policy.allow_experimental /\ IsExperimental(header)
      \/ /\ rule = "require_metadata_profile"
         /\ policy.require_metadata_profile # {}
      \/ rule = "require_padding" /\ policy.require_padding # {}
      \/ /\ rule = "public_label_allowed"
         /\ ~policy.public_label_allowed /\ envelope.core.label # 0
      \/ /\ rule = "created_by_required"
         /\ policy.created_by_required /\ ~NamesProject(envelope.release)
      \/ /\ rule = "require_recipient_count_min"
         /\ header.count < policy.require_recipient_count_min
      \/ /\ rule = "require_approval_signatures_min"
         /\ Cardinality(Approvers(envelope))
              < policy.require_approval_signatures_min

(* The rules an envelope violates. *)
Violations(envelope, policy) ==
  {rule \in DOMAIN DefaultPolicy : Fails(rule, envelope, policy)}

IsValid(envelope, policy) == Violations(envelope, policy) = {}

(* The rules that a record alone satisfies, without proof of who made it.  *)
Warnings(envelope, policy) ==
  LET asked ==
        {rule \in {"require_signature", "require_recovery",
                   "created_by_required"} : policy[rule]}
        \cup {rule \in {"require_approval_signatures_min"} : policy[rule] > 0}
  IN  asked \ Violations(envelope, policy)

(* run_preflight's verdict on an envelope it parsed.  With a verifying key *)
(* it reads the file once more; signature is what it found out: "none",    *)
(* "unchecked", "valid" or "invalid".                                      *)
Verdict(envelope, signature, policy) ==
  LET legacy == envelope.version = LEGACY_VERSION
      valid  == IsValid(envelope, policy)
  IN  CASE \/ signature = "invalid"
           \/ ~valid /\ (legacy \/ ~envelope.core.overridden) -> "Fail"
        [] /\ ~legacy /\ valid /\ signature = "valid"
           /\ Warnings(envelope, policy) = {}
           /\ envelope.core.header.profile \notin {"Extreme", "Paranoid"} -> "Ok"
        [] OTHER -> "Warn"
=============================================================================
