------------------------------ MODULE KeyFiles ------------------------------
(***************************************************************************)
(* Keys on disk and recipient groups, for several processes: keygen of     *)
(* lvau-cli and lvau-gui and sign-keygen, which write the two files of a   *)
(* pair; recipients group create, add and remove, which rewrite one TOML   *)
(* file in place; and the encryption of a file to a public key, a group or *)
(* both (crypto/keys.rs, groups.rs, signing.rs, crypto/mod.rs).            *)
(*                                                                         *)
(* A pair of keys is the number of the command that generated it; 0 stands *)
(* for a file that is not there.  Key wrapping is ideal: a slot opens for  *)
(* the private key of its pair only.                                       *)
(***************************************************************************)
EXTENDS Naturals, Sequences, FiniteSets, Functions

CONSTANTS
  Processes,
  SigningBases,    \* --out-base of sign-keygen
  HybridBases,     \* --out-base of keygen; a key's name in a group
  InitialPairs,    \* the pairs there may be before, by base
  Commands,        \* what users may start
  MAX_RECIPIENTS,  \* slots in an envelope (64 in the code)
  MaxCommands,     \* bound on the commands started
  MaxDamaged       \* bound on the key files damaged at a time

Bases == SigningBases \cup HybridBases

Generators == {"keygen", "guiKeygen", "signKeygen"}
GroupEdits == {"create", "add", "remove"}

(* base: of a pair, of the key to add or to encrypt to, or the name to     *)
(* remove; toKey and toGroup: --pub-key and --recipient-group.             *)
ASSUME CommandAssumption ==
  /\ Commands \subseteq [op : Generators \cup GroupEdits \cup {"encrypt"},
                         base : Bases, force : BOOLEAN,
                         toKey : BOOLEAN, toGroup : BOOLEAN]
  /\ \A c \in Commands :
       /\ c.base \in SigningBases <=> c.op = "signKeygen"
       /\ c.op = "encrypt" => c.toKey \/ c.toGroup
  /\ InitialPairs \subseteq [Bases -> Nat \ 1..MaxCommands]
  /\ MAX_RECIPIENTS \in Nat /\ MaxCommands \in Nat /\ MaxDamaged \in Nat

VARIABLES
  private,  \* the pair of each private key file
  public,   \* the pair of each public key file
  damage,   \* what a user did to the keys in a public key file
  group,    \* the group file
  capsule,  \* the encrypted file: slots and, as history, its promises
  task,     \* the command of each process and how far it is
  started,  \* commands started so far
  unsafe,   \* history: bases with a forced or overlapping generation
  alone,    \* history: the last to edit the group, if no edit overlaps it
  kept,     \* history: pairs that edits have put into the group for certain
  gone      \* history: pairs that edits have taken out of it for certain

rosterVars == <<alone, kept, gone>>
keyVars == <<private, public, damage, unsafe>>
vars == <<keyVars, rosterVars, group, capsule, task, started>>

Absent == [state |-> "absent"]
Torn == [state |-> "torn"]
Whole(members) == [state |-> "whole", members |-> members]

(* A damaged key may not decode, or decode as a key that is nobody's: any  *)
(* 32 bytes are an X25519 key.                                             *)
Damages == {"none", "undecodable", "foreign"}
Nobody == 0

Member(base) ==
  [name  |-> base,
   pair  |-> IF damage[base] = "foreign" THEN Nobody ELSE public[base],
   sound |-> damage[base] # "undecodable"]

Idle == [state |-> "idle"]
Command(p) == task[p].command
Base(p) == Command(p).base
Advance(p, t) == task' = [task EXCEPT ![p] = t]
End(p) == Advance(p, Idle)

Init ==
  /\ private \in InitialPairs
  /\ public = private
  /\ damage = [b \in HybridBases |-> "none"]
  /\ group \in {Absent, Whole(<<>>)}
  /\ capsule = Absent
  /\ task = [p \in Processes |-> Idle]
  /\ started = 0
  /\ unsafe = {}
  /\ alone = {} /\ kept = {} /\ gone = {}
-----------------------------------------------------------------------------
(* Pairs of keys.                                                          *)

(* ensure_output_available for both files; the desktop application looks   *)
(* at neither.                                                             *)
Allowed(c) ==
  \/ c.op = "guiKeygen" \/ c.force
  \/ private[c.base] = 0 /\ public[c.base] = 0

Generating(b) ==
  \E p \in Processes :
    task[p] # Idle /\ Command(p).op \in Generators /\ Base(p) = b

Generate(p, c) ==
  /\ task[p] = Idle /\ started < MaxCommands
  /\ c.op \in Generators
  /\ started' = started + 1
  /\ IF Allowed(c)
     THEN Advance(p, [state |-> "generated", command |-> c, pair |-> started'])
     ELSE UNCHANGED task
  /\ unsafe' = IF \/ c.op = "guiKeygen" \/ c.force
                  \/ c.base \in HybridBases /\ Generating(c.base)
               THEN unsafe \cup {c.base} ELSE unsafe
  /\ UNCHANGED <<private, public, damage, rosterVars, group, capsule>>

(* Mutant: the file of a signing key is replaced like a hybrid key's. *)
AlwaysMutant(p, pair) == TRUE

(* write_key_file replaces whatever is there; without --force              *)
(* write_private_atomic and write_atomic do not.                           *)
MayReplace(p, pair) ==
  Command(p).op # "signKeygen" \/ Command(p).force \/ pair = 0

SavePrivate(p) ==
  /\ task[p].state = "generated"
  /\ IF MayReplace(p, private[Base(p)])
     THEN /\ private' = [private EXCEPT ![Base(p)] = task[p].pair]
          /\ Advance(p, [state |-> "half", command |-> Command(p),
                          pair |-> task[p].pair])
     ELSE End(p) /\ UNCHANGED private
  /\ UNCHANGED <<public, damage, rosterVars, group, capsule, started, unsafe>>

SavePublic(p) ==
  /\ task[p].state = "half"
  /\ IF MayReplace(p, public[Base(p)])
     THEN /\ public' = [public EXCEPT ![Base(p)] = task[p].pair]
          /\ damage' = [b \in HybridBases |->
                         IF b = Base(p) THEN "none" ELSE damage[b]]
     ELSE UNCHANGED <<public, damage>>
  /\ End(p)
  /\ UNCHANGED <<private, rosterVars, group, capsule, started, unsafe>>

(* A user damages a key inside a public key file; it remains JSON.         *)
Spoil(b) ==
  /\ public[b] # 0
  /\ Cardinality({d \in HybridBases : damage[d] # "none"}) < MaxDamaged
  /\ \E d \in Damages \ {"none"} : damage' = [damage EXCEPT ![b] = d]
  /\ UNCHANGED <<private, public, rosterVars, group, capsule, task, started,
                 unsafe>>
-----------------------------------------------------------------------------
(* Groups.                                                                 *)

Start(p, c) ==
  /\ task[p] = Idle /\ started < MaxCommands
  /\ c.op \notin Generators
  /\ started' = started + 1
  /\ Advance(p, [state |-> "begun", command |-> c])
  /\ UNCHANGED <<keyVars, rosterVars, group, capsule>>

Editing(p) == task[p].state \in {"saving", "writing"}
Writing == \E p \in Processes : task[p].state = "writing"

PairsOf(members) == {members[i].pair : i \in DOMAIN members}

(* Mutant: a name that is listed twice loses one of its keys only.         *)
RemoveOnceMutant(members, name) ==
  LET named == {i \in DOMAIN members : members[i].name = name}
  IN  {SubSeq(members, 1, i - 1) \o SubSeq(members, i + 1, Len(members)) :
         i \in {j \in named : \A k \in named : j <= k}}

(* Vec::retain: the members of other names, in their order.                *)
Without(members, name) ==
  LET rest == {i \in DOMAIN members : members[i].name # name}
      orders == {o \in Bijection(1..Cardinality(rest), rest) :
                   \A i, j \in DOMAIN o : i < j => o[i] < o[j]}
  IN  {[i \in DOMAIN o |-> members[o[i]]] : o \in orders}

(* What the file is to become, or nothing for an error or for a name that  *)
(* is not there.  add parses the JSON of the key but not the keys in it;   *)
(* remove compares names only.                                             *)
Edited(c) ==
  CASE c.op = "create" -> IF group = Absent THEN {<<>>} ELSE {}
    [] c.op = "add" /\ group.state = "whole" /\ public[c.base] # 0 ->
         {Append(group.members, Member(c.base))}
    [] c.op = "remove" /\ group.state = "whole" ->
         Without(group.members, c.base) \ {group.members}
    [] OTHER -> {}

(* History: the pairs an edit puts in, and those it leaves no key of.      *)
Change(c) ==
  [in  |-> IF c.op = "add" THEN {Member(c.base).pair} ELSE {},
   out |-> IF c.op # "remove" THEN {}
           ELSE LET members == group.members
                    stay == {i \in DOMAIN members : members[i].name # c.base}
                IN  PairsOf(members) \ {members[i].pair : i \in stay}]

(* An edit that reads the file while another one writes it may miss        *)
(* members, so from then on nothing is certain to be in.                   *)
LoadGroup(p) ==
  /\ task[p].state = "begun"
  /\ Command(p).op \in GroupEdits
  /\ IF Edited(Command(p)) = {} THEN End(p) /\ UNCHANGED rosterVars
     ELSE LET change == Change(Command(p))
          IN  /\ \E members \in Edited(Command(p)) :
                   Advance(p, [state |-> "saving", command |-> Command(p),
                               members |-> members, change |-> change])
              /\ alone' = IF \E q \in Processes : Editing(q) THEN {} ELSE {p}
              /\ kept' = IF Writing THEN {} ELSE kept \ change.out
              /\ gone' = gone \ change.in
  /\ UNCHANGED <<keyVars, group, capsule, started>>

(* fs::write: truncate, then write. *)
TruncateGroup(p) ==
  /\ task[p].state = "saving"
  /\ group' = Torn
  /\ Advance(p, [task[p] EXCEPT !.state = "writing"])
  /\ UNCHANGED <<keyVars, rosterVars, capsule, started>>

(* What the file is after writing members over it: where another process   *)
(* has written a longer one since it was truncated, the rest of that stays *)
(* behind, which is seldom a group.                                        *)
Written(members) ==
  {Whole(members)} \cup
    IF group.state = "whole" /\ Len(group.members) > Len(members)
    THEN {Torn, Whole(members \o SubSeq(group.members, Len(members) + 1,
                                        Len(group.members)))}
    ELSE {}

WriteGroup(p) ==
  /\ task[p].state = "writing"
  /\ group' \in Written(task[p].members)
  /\ kept' = IF p \in alone THEN kept \cup task[p].change.in ELSE kept
  /\ gone' = IF p \in alone THEN gone \cup task[p].change.out ELSE gone
  /\ End(p)
  /\ UNCHANGED <<keyVars, alone, capsule, started>>

(* Not all is written yet: a prefix that ends between two members is a     *)
(* group too, to a reader and after a kill.                                *)
CutGroup(p) ==
  /\ task[p].state = "writing"
  /\ \E n \in 1..Len(task[p].members) :
       group' = Whole(SubSeq(task[p].members, 1, n))
  /\ UNCHANGED <<keyVars, rosterVars, capsule, task, started>>
-----------------------------------------------------------------------------
(* Encryption to public keys.                                              *)

(* from_format, extract_public_keys: one key that does not decode is an    *)
(* error for all.                                                          *)
PublicKeys(members) ==
  IF \A i \in DOMAIN members : members[i].sound
  THEN {[i \in DOMAIN members |-> members[i].pair]} ELSE {}

(* The key file first, then the group; nothing if either is missing.       *)
Asked(c) ==
  LET key == IF ~c.toKey THEN {<<>>}
             ELSE IF public[c.base] = 0 THEN {} ELSE {<<Member(c.base)>>}
      all == IF ~c.toGroup THEN {<<>>}
             ELSE IF group.state # "whole" THEN {} ELSE {group.members}
  IN  {k \o a : k \in key, a \in all}

(* Mutant: the number of slots is not limited. *)
UnlimitedMutant(slots) == slots # <<>>

(* validate_envelope_resources *)
ValidRecipients(slots) == Len(slots) \in 1..MAX_RECIPIENTS

(* History: whom the user may count on to be able to open the capsule, and *)
(* whom not to.                                                            *)
Promise(c) ==
  LET key == IF c.toKey THEN {Member(c.base).pair} ELSE {}
  IN  [in  |-> key \cup (IF c.toGroup /\ ~Writing THEN kept ELSE {}),
       out |-> gone \ key]

(* encrypt_file_keypairs: one slot for each key, in their order.           *)
WrapKeys(p) ==
  /\ task[p].state = "begun"
  /\ Command(p).op = "encrypt"
  /\ LET keys  == UNION {PublicKeys(members) : members \in Asked(Command(p))}
         valid == {slots \in keys : ValidRecipients(slots)}
     IN  IF valid = {} THEN End(p)
         ELSE \E slots \in valid :
                Advance(p, [state |-> "wrapped", command |-> Command(p),
                            result |-> [state |-> "capsule", slots |-> slots,
                                        promise |-> Promise(Command(p))]])
  /\ UNCHANGED <<keyVars, rosterVars, group, capsule, started>>

WriteCapsule(p) ==
  /\ task[p].state = "wrapped"
  /\ capsule' = task[p].result
  /\ End(p)
  /\ UNCHANGED <<keyVars, rosterVars, group, started>>

(* unwrap_keypair_file_key: slots that do not open are passed over.        *)
Unwraps(slots, pair) == \E i \in DOMAIN slots : slots[i] = pair

(* An I/O error or a kill; in the middle of a write members may be lost.   *)
Abort(p) ==
  /\ task[p] # Idle
  /\ End(p)
  /\ kept' = IF task[p].state = "writing" THEN {} ELSE kept
  /\ UNCHANGED <<keyVars, alone, gone, group, capsule, started>>

Step(p) ==
  \/ SavePrivate(p) \/ SavePublic(p)
  \/ LoadGroup(p) \/ TruncateGroup(p) \/ WriteGroup(p) \/ CutGroup(p)
  \/ WrapKeys(p) \/ WriteCapsule(p)
  \/ Abort(p)

Next ==
  \/ \E p \in Processes :
       Step(p) \/ \E c \in Commands : Generate(p, c) \/ Start(p, c)
  \/ \E b \in HybridBases : Spoil(b)

Spec == Init /\ [][Next]_vars
-----------------------------------------------------------------------------
Pairs == 0..MaxCommands
         \cup {pairs[b] : pairs \in InitialPairs, b \in Bases}

TypeOK ==
  /\ private \in [Bases -> Pairs] /\ public \in [Bases -> Pairs]
  /\ damage \in [HybridBases -> Damages] /\ unsafe \subseteq Bases
  /\ alone \subseteq Processes /\ kept \subseteq Pairs /\ gone \subseteq Pairs
  /\ group.state \in {"absent", "torn", "whole"}
  /\ group.state = "whole" =>
       \A i \in DOMAIN group.members :
         group.members[i] \in
           [name : HybridBases, pair : Pairs, sound : BOOLEAN]
  /\ capsule # Absent => Len(capsule.slots) \in 1..MAX_RECIPIENTS
  /\ started \in 0..MaxCommands
  /\ \A p \in Processes : task[p] # Idle =>
       task[p].state \in {"begun", "generated", "half", "saving", "writing",
                          "wrapped"}

(* sign-keygen without --force, of any number of processes on one name and *)
(* killed anywhere, never leaves the private key of one generation beside  *)
(* the public key of another; keygen does not either, if no two run on one *)
(* name at once.                                                           *)
PairMatches ==
  \A b \in Bases \ unsafe :
    private[b] # 0 /\ public[b] # 0 => private[b] = public[b]

(* An edit of the group that no other edit overlapped lasts: the key it    *)
(* added stays until a remove takes it out, the keys it removed stay out   *)
(* until an add brings them back, whatever edits of other names follow,    *)
(* overlap and stop half way.  (Only that a write breaks off, or that an   *)
(* edit reads the file in the middle of one, can lose members.)            *)
EditsLast ==
  group.state = "whole" =>
    /\ PairsOf(group.members) \cap gone = {}
    /\ ~Writing => kept \subseteq PairsOf(group.members)

(* RECIPIENT_GROUPS.md: any member of the group can decrypt with their own *)
(* private key.  An encryption that goes through opens for the key given   *)
(* and for every member who was certain to be in the group when it was     *)
(* read, though other keys in it are damaged, and not for one who was      *)
(* certain to be out.  (A key that is damaged and yet decodes was added as *)
(* nobody's: it gets a slot that its owner cannot open.)                   *)
MembersOpen ==
  capsule # Absent =>
    /\ \A pair \in capsule.promise.in : Unwraps(capsule.slots, pair)
    /\ \A pair \in capsule.promise.out : ~Unwraps(capsule.slots, pair)
=============================================================================
