--------------------------- MODULE RecoveryShares ---------------------------
(***************************************************************************)
(* recovery split and recovery combine over one directory of share files,  *)
(* by several processes, while users remove, copy and damage shares.       *)
(*                                                                         *)
(* Secret sharing is ideal: shares of one polynomial give its secret when  *)
(* there are as many as the threshold asks for, and any other collection   *)
(* gives garbage.  Files are put in place by a rename, see AtomicOutput.   *)
(***************************************************************************)
EXTENDS Naturals, FiniteSets

CONSTANTS
  Processes,
  Secrets,
  Stems,          \* names that secrets are split under
  Outputs,        \* paths that recovered secrets are written to
  MaxIndex,       \* bound on the shares of a set (255 in the code)
  Splits,         \* [secret, stem, shares, threshold]: splits users start
  InitialShares,  \* what the directory may hold at first
  MaxSplits,      \* bound on the splits started
  MaxCombines,    \* bound on the combinations started
  MaxEdits,       \* bound on the users' changes
  Garbage         \* what shares that do not belong together give

LEGACY_SHARE_VERSION  == 1
CURRENT_SHARE_VERSION == 2

Slots == Stems \X (1..MaxIndex)

ASSUME RecoveryAssumption ==
  /\ Splits \subseteq [secret : Secrets, stem : Stems,
                       shares : 0..MaxIndex, threshold : Nat]
  /\ Garbage \notin Secrets
  /\ {MaxIndex, MaxSplits, MaxCombines, MaxEdits} \subseteq Nat

VARIABLES
  shares,    \* the share file at each slot <<stem, index>>
  outputs,   \* the file at each output path
  task,      \* the command of each process and how far it is
  sets,      \* sets dealt so far
  combines,  \* combinations started so far
  edits,     \* changes by users so far
  touched,   \* history: slots that users changed
  reported   \* history: the splits that ended with a success

vars == <<shares, outputs, task, sets, combines, edits, touched, reported>>

(***************************************************************************)
(* A share names its set in the fingerprint: in version 1 a hash of the    *)
(* secret, in version 2 a random identifier.  line is what the dealer drew *)
(* through the secret; with a threshold of one it is the secret itself.    *)
(***************************************************************************)
Absent == [kind |-> "absent"]
Other  == [kind |-> "other"]

Share(version, split, set, index) ==
  [kind |-> "share", version |-> version, index |-> index,
   threshold |-> split.threshold,
   fingerprint |-> IF version = LEGACY_SHARE_VERSION
                   THEN [hash |-> split.secret] ELSE [random |-> set],
   line |-> IF split.threshold = 1 THEN [constant |-> split.secret]
            ELSE [drawn |-> set],
   secret |-> split.secret, intact |-> TRUE]

(* split_secret *)
Deal(split, set) ==
  [i \in 1..split.shares |-> Share(CURRENT_SHARE_VERSION, split, set, i)]

(***************************************************************************)
(* The share files the directory may hold at first: split_secret of either *)
(* version made them, and those with one random identifier are of one set. *)
(* The identifiers drawn later are different ones.                         *)
(***************************************************************************)
ShareFields == {"kind", "version", "index", "threshold", "fingerprint",
                "line", "secret", "intact"}

WellMade(share) ==
  /\ DOMAIN share = ShareFields /\ share.kind = "share"
  /\ share.version \in {LEGACY_SHARE_VERSION, CURRENT_SHARE_VERSION}
  /\ share.index \in 1..MaxIndex /\ share.secret \in Secrets
  /\ share.version = LEGACY_SHARE_VERSION =>
       share.fingerprint = [hash |-> share.secret]

Current(share) == share # Absent /\ share.version = CURRENT_SHARE_VERSION

ASSUME InitialAssumption ==
  \A init \in InitialShares :
    /\ DOMAIN init = Slots
    /\ \A slot \in Slots : init[slot] = Absent \/ WellMade(init[slot])
    /\ \A slot, other \in Slots :
         /\ Current(init[slot]) /\ Current(init[other])
         /\ init[slot].fingerprint = init[other].fingerprint
         => /\ init[slot].line = init[other].line
            /\ init[slot].secret = init[other].secret
    /\ \A slot \in Slots, set \in 1..MaxSplits :
         Current(init[slot]) => init[slot].fingerprint # [random |-> set]

ValidSplit(split) ==
  split.threshold # 0 /\ split.shares # 0 /\ split.threshold <= split.shares

(* Sharks::recover of files <<slot, share>>. *)
Interpolate(files) ==
  IF /\ \A f, g \in files : f[2].line = g[2].line
     /\ \A f \in files : f[2].intact /\ Cardinality(files) >= f[2].threshold
  THEN (CHOOSE f \in files : TRUE)[2].secret
  ELSE Garbage

(* The files are of one set, of different indices, and enough. *)
Matching(files) ==
  /\ files # {}
  /\ \A f, g \in files :
       /\ f[2].version = g[2].version
       /\ f[2].threshold = g[2].threshold
       /\ f[2].fingerprint = g[2].fingerprint
       /\ f # g => f[2].index # g[2].index
  /\ \A f \in files : Cardinality(files) >= f[2].threshold

(* Mutant: the legacy fingerprint is not compared with the secret. *)
NoHashMutant(files) == Matching(files)

(* combine_shares succeeds: version 1 compares the hash of what came out.  *)
Combines(files) ==
  /\ Matching(files)
  /\ \A f \in files :
       f[2].version = LEGACY_SHARE_VERSION =>
         f[2].fingerprint = [hash |-> Interpolate(files)]

Idle == [state |-> "idle"]

Init ==
  /\ shares \in InitialShares
  /\ outputs = [o \in Outputs |-> Absent]
  /\ task = [p \in Processes |-> Idle]
  /\ sets = 0 /\ combines = 0 /\ edits = 0
  /\ touched = {} /\ reported = {}
-----------------------------------------------------------------------------
Advance(p, t) == task' = [task EXCEPT ![p] = t]

End(p) == Advance(p, Idle)

BeginSplit(p, split) ==
  /\ task[p] = Idle
  /\ sets < MaxSplits
  /\ IF ValidSplit(split)
     THEN /\ sets' = sets + 1
          /\ Advance(p, [state |-> "check", split |-> split,
                         dealt |-> Deal(split, sets'), next |-> 1])
     ELSE UNCHANGED <<sets, task>>
  /\ UNCHANGED <<shares, outputs, combines, edits, touched, reported>>

(* The path of the next share of p's set. *)
Slot(p) == <<task[p].split.stem, task[p].next>>

(* Mutant: one share more than there are. *)
PastLastMutant(p) == task[p].next > task[p].split.shares

IsLast(p) == task[p].next = task[p].split.shares

(* All paths are looked at before the first share is written. *)
CheckSlot(p) ==
  /\ task[p].state = "check"
  /\ IF shares[Slot(p)] # Absent THEN End(p)
     ELSE Advance(p, IF IsLast(p)
                     THEN [task[p] EXCEPT !.state = "write", !.next = 1]
                     ELSE [task[p] EXCEPT !.next = @ + 1])
  /\ UNCHANGED <<shares, outputs, sets, combines, edits, touched, reported>>

(* On to the next share; after the last one split reports a success. *)
NextShare(p) ==
  IF IsLast(p)
  THEN /\ reported' = reported \cup {[split |-> task[p].split,
                                      dealt |-> task[p].dealt]}
       /\ End(p)
  ELSE /\ Advance(p, [task[p] EXCEPT !.next = @ + 1])
       /\ UNCHANGED reported

PlaceShare(p) ==
  /\ shares' = [shares EXCEPT ![Slot(p)] = task[p].dealt[task[p].next]]
  /\ NextShare(p)

(* Mutant: the rename replaces, the paths having been looked at. *)
PersistMutant(p) ==
  /\ task[p].state = "write"
  /\ PlaceShare(p)
  /\ UNCHANGED <<outputs, sets, combines, edits, touched>>

(* Mutant: a share whose path is taken is passed over. *)
PassOverMutant(p) ==
  /\ task[p].state = "write"
  /\ IF shares[Slot(p)] = Absent THEN PlaceShare(p)
     ELSE NextShare(p) /\ UNCHANGED shares
  /\ UNCHANGED <<outputs, sets, combines, edits, touched>>

(* to_file_with_force(path, false): the rename does not replace.           *)
WriteShare(p) ==
  /\ task[p].state = "write"
  /\ IF shares[Slot(p)] = Absent THEN PlaceShare(p)
     ELSE End(p) /\ UNCHANGED <<shares, reported>>
  /\ UNCHANGED <<outputs, sets, combines, edits, touched>>

(* ensure_output_available; the directory is read file by file. *)
BeginCombine(p, out, force) ==
  /\ task[p] = Idle
  /\ combines < MaxCombines
  /\ combines' = combines + 1
  /\ IF outputs[out] = Absent \/ force
     THEN Advance(p, [state |-> "load", out |-> out, force |-> force,
                      unread |-> Slots, loaded |-> {}])
     ELSE UNCHANGED task
  /\ UNCHANGED <<shares, outputs, sets, edits, touched, reported>>

(* from_file: there is a share file in this slot. *)
Loads(slot) == shares[slot].kind = "share"

(* Files come in any order; one that appears or goes meanwhile may or may  *)
(* not be seen.                                                            *)
LoadShare(p) ==
  /\ task[p].state = "load"
  /\ \E slot \in task[p].unread :
       Advance(p, [task[p] EXCEPT
                     !.unread = @ \ {slot},
                     !.loaded = IF Loads(slot)
                                THEN @ \cup {<<slot, shares[slot]>>}
                                ELSE @])
  /\ UNCHANGED <<shares, outputs, sets, combines, edits, touched, reported>>

CombineLoaded(p) ==
  /\ task[p].state = "load" /\ task[p].unread = {}
  /\ IF Combines(task[p].loaded)
     THEN Advance(p, [state |-> "recovered", out |-> task[p].out,
                      force |-> task[p].force, loaded |-> task[p].loaded,
                      secret |-> Interpolate(task[p].loaded)])
     ELSE End(p)
  /\ UNCHANGED <<shares, outputs, sets, combines, edits, touched, reported>>

(* write_recovered_secret *)
WriteRecovered(p) ==
  /\ task[p].state = "recovered"
  /\ outputs' =
       IF task[p].force \/ outputs[task[p].out] = Absent
       THEN [outputs EXCEPT ![task[p].out] =
               [kind |-> "recovered", secret |-> task[p].secret,
                from |-> task[p].loaded]]
       ELSE outputs
  /\ End(p)
  /\ UNCHANGED <<shares, sets, combines, edits, touched, reported>>

(* An I/O error or a kill; what was written stays. *)
Abort(p) ==
  /\ task[p] # Idle
  /\ End(p)
  /\ UNCHANGED <<shares, outputs, sets, combines, edits, touched, reported>>

(* Users remove a share file, copy one to another slot, or a medium        *)
(* damages one in a way from_file does not notice.  (One that it notices   *)
(* is skipped, like a removed one.)                                        *)
EditShares ==
  /\ edits < MaxEdits
  /\ edits' = edits + 1
  /\ \E slot \in Slots :
       /\ \/ shares' = [shares EXCEPT ![slot] = Absent]
          \/ \E from \in Slots :
               /\ shares[from] # Absent
               /\ shares' = [shares EXCEPT ![slot] = shares[from]]
          \/ /\ shares[slot] # Absent
             /\ shares' = [shares EXCEPT ![slot].intact = FALSE]
       /\ touched' = touched \cup {slot}
  /\ shares' # shares
  /\ UNCHANGED <<outputs, task, sets, combines, reported>>

(* Another program writes to a path chosen for a recovered secret. *)
CreateOutput ==
  /\ edits < MaxEdits
  /\ edits' = edits + 1
  /\ \E o \in Outputs :
       /\ outputs[o] = Absent
       /\ outputs' = [outputs EXCEPT ![o] = Other]
  /\ UNCHANGED <<shares, task, sets, combines, touched, reported>>

Next ==
  \/ \E p \in Processes :
       \/ \E split \in Splits : BeginSplit(p, split)
       \/ CheckSlot(p) \/ WriteShare(p)
       \/ \E out \in Outputs, force \in BOOLEAN : BeginCombine(p, out, force)
       \/ LoadShare(p) \/ CombineLoaded(p) \/ WriteRecovered(p) \/ Abort(p)
  \/ EditShares \/ CreateOutput

Spec == Init /\ [][Next]_vars
-----------------------------------------------------------------------------
TypeOK ==
  /\ \A slot \in Slots :
       \/ shares[slot] = Absent
       \/ /\ shares[slot].kind = "share"
          /\ shares[slot].version \in {LEGACY_SHARE_VERSION,
                                       CURRENT_SHARE_VERSION}
          /\ shares[slot].index \in 1..MaxIndex
          /\ shares[slot].secret \in Secrets
  /\ \A o \in Outputs : outputs[o].kind \in {"absent", "other", "recovered"}
  /\ \A p \in Processes :
       \/ task[p] = Idle
       \/ task[p].state \in {"check", "write"}
            /\ task[p].next \in 1..task[p].split.shares
       \/ task[p].state \in {"load", "recovered"} /\ task[p].out \in Outputs
  /\ touched \subseteq Slots

(* Whatever combine writes is the secret that each of the files it took    *)
(* together was split from, however sets of one secret or of several were  *)
(* mixed in the directory.  Version 1 also notices damaged shares; version *)
(* 2, whose identifier is random, does not.                                *)
RecoveredIsSecret ==
  \A o \in Outputs : outputs[o].kind = "recovered" =>
    \A f \in outputs[o].from :
      (\/ f[2].version = LEGACY_SHARE_VERSION
       \/ \A g \in outputs[o].from : g[2].intact)
      => outputs[o].secret = f[2].secret

(* After split has reported a success, every share that no user has        *)
(* changed is in its file, and any of them, as many as the threshold,      *)
(* combine to the secret: no other split, before, after or at the same     *)
(* time, spoils the set.                                                   *)
SplitRecoverable ==
  \A r \in reported :
    LET mine == {<<r.split.stem, i>> : i \in 1..r.split.shares} \ touched
    IN  \A some \in SUBSET mine :
          Cardinality(some) >= r.split.threshold =>
            LET files == {<<slot, shares[slot]>> : slot \in some}
            IN  /\ \A slot \in some : shares[slot] # Absent
                /\ Combines(files)
                /\ Interpolate(files) = r.split.secret

(* recovery_share_explicit_no_clobber_preserves_existing_file: no command  *)
(* replaces a share file, not even one that appeared after the paths were  *)
(* looked at, and combine without --force replaces no other file.          *)
NothingReplaced ==
  [][/\ edits' = edits =>
          \A slot \in Slots : shares[slot] # Absent =>
            shares'[slot] = shares[slot]
     /\ \A o \in Outputs : outputs'[o] # outputs[o] =>
          \/ outputs[o] = Absent
          \/ \E p \in Processes :
               /\ task[p].state = "recovered" /\ task[p].force
               /\ task'[p] = Idle]_vars
=============================================================================
