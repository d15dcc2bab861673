------------------------ MODULE RecoverySharesProofs ------------------------
(***************************************************************************)
(* Proofs about RecoveryShares, for any number of processes, secrets,      *)
(* splits and share files: a recovered secret is the one that was split,   *)
(* a split that reported a success can be undone, and no command replaces  *)
(* a file it was not told to replace.                                      *)
(***************************************************************************)
EXTENDS RecoveryShares, FiniteSetTheorems, TLAPS

(***************************************************************************)
(* The shares of version 2 with one random identifier lie on one line,     *)
(* through one secret.  dealer, a witness of the proof, says which.        *)
(***************************************************************************)
Dealt(dealer, share) ==
  /\ WellMade(share)
  /\ share.version = CURRENT_SHARE_VERSION =>
       /\ share.fingerprint \in DOMAIN dealer
       /\ dealer[share.fingerprint] = <<share.line, share.secret>>

AllDealt(dealer, files) == \A f \in files : Dealt(dealer, f[2])

(* The identifiers of the sets to come are different ones.                 *)
FreshInv(dealer) ==
  \A set \in 1..MaxSplits : set > sets => [random |-> set] \notin DOMAIN dealer

FileInv(dealer) ==
  /\ DOMAIN shares = Slots
  /\ \A slot \in Slots : shares[slot] = Absent \/ Dealt(dealer, shares[slot])

SplitTask(dealer, t) ==
  /\ DOMAIN t = {"state", "split", "dealt", "next"}
  /\ t.state \in {"check", "write"}
  /\ t.split \in Splits /\ ValidSplit(t.split)
  /\ t.next \in 1..t.split.shares
  /\ \E set \in Nat : t.dealt = Deal(t.split, set)
  /\ \A i \in 1..t.split.shares : Dealt(dealer, t.dealt[i])

LoadTask(dealer, t) ==
  /\ DOMAIN t = {"state", "out", "force", "unread", "loaded"}
  /\ t.state = "load" /\ t.out \in Outputs
  /\ t.unread \subseteq Slots
  /\ AllDealt(dealer, t.loaded)

RecoveredTask(dealer, t) ==
  /\ t.state = "recovered" /\ t.out \in Outputs
  /\ AllDealt(dealer, t.loaded)
  /\ Combines(t.loaded) /\ t.secret = Interpolate(t.loaded)

TaskInv(dealer) ==
  /\ DOMAIN task = Processes
  /\ \A p \in Processes :
       \/ task[p] = Idle \/ SplitTask(dealer, task[p])
       \/ LoadTask(dealer, task[p]) \/ RecoveredTask(dealer, task[p])

OutputInv(dealer) ==
  /\ DOMAIN outputs = Outputs
  /\ \A o \in Outputs :
       \/ outputs[o] \in {Absent, Other}
       \/ /\ outputs[o].kind = "recovered"
          /\ AllDealt(dealer, outputs[o].from)
          /\ Combines(outputs[o].from)
          /\ outputs[o].secret = Interpolate(outputs[o].from)

DealerInv(dealer) ==
  /\ FreshInv(dealer) /\ FileInv(dealer) /\ TaskInv(dealer)
  /\ OutputInv(dealer)

ShareInv ==
  /\ sets \in Nat /\ touched \subseteq Slots
  /\ \E dealer : DealerInv(dealer)
-----------------------------------------------------------------------------
(* One dealer knows every set another one knows. *)
Knows(more, less) ==
  /\ DOMAIN less \subseteq DOMAIN more
  /\ \A x \in DOMAIN less : more[x] = less[x]

LEMMA DealtGrows ==
  ASSUME NEW d, NEW e, Knows(e, d), NEW share, Dealt(d, share)
  PROVE  Dealt(e, share)
BY DEF Knows, Dealt

LEMMA TaskGrows ==
  ASSUME NEW d, NEW e, Knows(e, d), NEW t
  PROVE  /\ SplitTask(d, t) => SplitTask(e, t)
         /\ LoadTask(d, t) => LoadTask(e, t)
         /\ RecoveredTask(d, t) => RecoveredTask(e, t)
BY DealtGrows DEF SplitTask, LoadTask, RecoveredTask, AllDealt

(* What split_secret makes is well made, under a dealer that knows the set. *)
LEMMA DealMade ==
  ASSUME NEW split \in Splits, ValidSplit(split), NEW set \in Nat, NEW d,
         NEW i \in 1..split.shares,
         [random |-> set] \in DOMAIN d,
         d[[random |-> set]] =
           << IF split.threshold = 1 THEN [constant |-> split.secret]
              ELSE [drawn |-> set], split.secret >>
  PROVE  /\ Deal(split, set)[i] = Share(CURRENT_SHARE_VERSION, split, set, i)
         /\ Dealt(d, Deal(split, set)[i])
<1>1. split \in [secret : Secrets, stem : Stems, shares : 0..MaxIndex,
                 threshold : Nat]
  BY RecoveryAssumption
<1>2. /\ split.secret \in Secrets /\ split.shares \in 0..MaxIndex
      /\ MaxIndex \in Nat
  BY <1>1, RecoveryAssumption
<1>3. i \in 1..MaxIndex
  BY <1>2
<1> DEFINE s == Share(CURRENT_SHARE_VERSION, split, set, i)
<1>4. /\ DOMAIN s = ShareFields /\ s.kind = "share" /\ s.version = 2
      /\ s.index = i /\ s.secret = split.secret
      /\ s.fingerprint = [random |-> set]
      /\ s.line = IF split.threshold = 1 THEN [constant |-> split.secret]
                  ELSE [drawn |-> set]
  BY DEF Share, ShareFields, CURRENT_SHARE_VERSION, LEGACY_SHARE_VERSION
<1>5. Deal(split, set)[i] = s
  BY DEF Deal
<1> HIDE DEF s
<1>6. Dealt(d, s)
  BY <1>2, <1>3, <1>4
     DEF Dealt, WellMade, CURRENT_SHARE_VERSION, LEGACY_SHARE_VERSION
<1> QED
  BY <1>5, <1>6 DEF s

(* A damaged share is of the set it was of.                                *)
LEMMA DamagedDealt ==
  ASSUME NEW d, NEW share, Dealt(d, share)
  PROVE  Dealt(d, [share EXCEPT !.intact = FALSE])
<1> DEFINE s == [share EXCEPT !.intact = FALSE]
<1>1. DOMAIN share = ShareFields
  BY DEF Dealt, WellMade
<1>2. /\ DOMAIN s = ShareFields /\ s.kind = share.kind
      /\ s.version = share.version /\ s.index = share.index
      /\ s.secret = share.secret /\ s.fingerprint = share.fingerprint
      /\ s.line = share.line
  BY <1>1 DEF ShareFields
<1> HIDE DEF s
<1>3. Dealt(d, s)
  BY <1>2 DEF Dealt, WellMade
<1> QED
  BY <1>3 DEF s

(***************************************************************************)
(* What combine_shares gives for well-made files: of version 1 the hash    *)
(* decides; of version 2 the files are of one set, so that undamaged ones  *)
(* lie on one line.                                                        *)
(***************************************************************************)
LEMMA CombinesSecret ==
  ASSUME NEW d, NEW files, AllDealt(d, files), Combines(files),
         NEW f \in files,
         f[2].version = LEGACY_SHARE_VERSION \/ \A g \in files : g[2].intact
  PROVE  Interpolate(files) = f[2].secret
<1>1. \A g \in files : Dealt(d, g[2]) /\ WellMade(g[2])
  BY DEF AllDealt, Dealt
<1>2. CASE f[2].version = LEGACY_SHARE_VERSION
  <2>1. [hash |-> f[2].secret] = [hash |-> Interpolate(files)]
    BY <1>1, <1>2 DEF Combines, WellMade
  <2> QED
    BY <2>1
<1>3. CASE f[2].version # LEGACY_SHARE_VERSION
  <2>1. \A g \in files : g[2].intact
    BY <1>3
  <2>2. /\ files # {}
        /\ \A g \in files : /\ g[2].version = f[2].version
                            /\ g[2].fingerprint = f[2].fingerprint
                            /\ Cardinality(files) >= g[2].threshold
    BY DEF Combines, Matching
  <2>3. \A g \in files : g[2].version = CURRENT_SHARE_VERSION
    BY <1>1, <1>3, <2>2 DEF WellMade
  <2>4. \A g \in files : <<g[2].line, g[2].secret>> = d[f[2].fingerprint]
    BY <1>1, <2>2, <2>3 DEF Dealt
  <2>5. \A g \in files : g[2].line = f[2].line /\ g[2].secret = f[2].secret
    BY <2>4
  <2>6. Interpolate(files) = (CHOOSE g \in files : TRUE)[2].secret
    BY <2>1, <2>2, <2>5 DEF Interpolate
  <2>7. (CHOOSE g \in files : TRUE) \in files
    BY <2>2
  <2> QED
    BY <2>5, <2>6, <2>7
<1> QED
  BY <1>2, <1>3
-----------------------------------------------------------------------------
LEMMA ShareInit == Init => ShareInv
<1> SUFFICES ASSUME Init PROVE ShareInv
  OBVIOUS
<1> DEFINE Held == {slot \in Slots : Current(shares[slot])}
           Prints == {shares[slot].fingerprint : slot \in Held}
           Named(x) == CHOOSE slot \in Held : shares[slot].fingerprint = x
           d == [x \in Prints |-> <<shares[Named(x)].line,
                                    shares[Named(x)].secret>>]
<1>1. /\ DOMAIN shares = Slots
      /\ \A slot \in Slots : shares[slot] = Absent \/ WellMade(shares[slot])
      /\ \A slot, other \in Held :
           shares[slot].fingerprint = shares[other].fingerprint
           => /\ shares[slot].line = shares[other].line
              /\ shares[slot].secret = shares[other].secret
      /\ \A slot \in Held, set \in 1..MaxSplits :
           shares[slot].fingerprint # [random |-> set]
  BY InitialAssumption DEF Init
<1>2. DOMAIN d = Prints
  OBVIOUS
<1>3. ASSUME NEW slot \in Held
      PROVE  /\ shares[slot].fingerprint \in DOMAIN d
             /\ d[shares[slot].fingerprint] =
                  <<shares[slot].line, shares[slot].secret>>
  <2> DEFINE x == shares[slot].fingerprint
  <2>1. x \in Prints
    OBVIOUS
  <2>2. Named(x) \in Held /\ shares[Named(x)].fingerprint = x
    OBVIOUS
  <2>3. /\ shares[Named(x)].line = shares[slot].line
        /\ shares[Named(x)].secret = shares[slot].secret
    BY <1>1, <2>2
  <2> QED
    BY <1>2, <2>1, <2>3
<1>4. FreshInv(d)
  BY <1>1, <1>2 DEF FreshInv
<1> HIDE DEF d, Prints
<1>5. FileInv(d)
  BY <1>1, <1>3 DEF FileInv, Dealt, Current
<1>6. TaskInv(d)
  BY DEF Init, TaskInv
<1>7. OutputInv(d)
  BY DEF Init, OutputInv
<1> QED
  BY <1>4, <1>5, <1>6, <1>7 DEF ShareInv, DealerInv, Init

(* A step that only advances one command.                                  *)
LEMMA AdvanceKeeps ==
  ASSUME ShareInv, NEW p \in Processes, NEW t,
         Advance(p, t),
         \A d : DealerInv(d) =>
           \/ t = Idle \/ SplitTask(d, t)
           \/ LoadTask(d, t) \/ RecoveredTask(d, t),
         UNCHANGED <<shares, outputs, sets, touched>>
  PROVE  ShareInv'
<1> PICK d : DealerInv(d)
  BY DEF ShareInv
<1>1. TaskInv(d)'
  <2>1. /\ task' = [task EXCEPT ![p] = t] /\ DOMAIN task = Processes
    BY DEF Advance, DealerInv, TaskInv
  <2>2. \A q \in Processes : task'[q] = IF q = p THEN t ELSE task[q]
    BY <2>1
  <2>3. ASSUME NEW q \in Processes
        PROVE  \/ task'[q] = Idle \/ SplitTask(d, task'[q])
               \/ LoadTask(d, task'[q]) \/ RecoveredTask(d, task'[q])
    BY <2>2 DEF DealerInv, TaskInv
  <2> QED
    BY <2>1, <2>3 DEF TaskInv
<1>2. FreshInv(d)' /\ FileInv(d)' /\ OutputInv(d)'
  BY DEF DealerInv, FreshInv, FileInv, OutputInv
<1> QED
  BY <1>1, <1>2 DEF DealerInv, ShareInv

LEMMA EndKeeps ==
  ASSUME ShareInv, NEW p \in Processes, End(p),
         UNCHANGED <<shares, outputs, sets, touched>>
  PROVE  ShareInv'
BY AdvanceKeeps DEF End

LEMMA BeginSplitKeeps ==
  ASSUME ShareInv, NEW p \in Processes, NEW split \in Splits,
         BeginSplit(p, split)
  PROVE  ShareInv'
<1>1. CASE ~ValidSplit(split)
  BY <1>1 DEF BeginSplit, ShareInv, DealerInv, FreshInv, FileInv, TaskInv,
              OutputInv
<1>2. CASE ValidSplit(split)
  <2> PICK d : DealerInv(d)
    BY DEF ShareInv
  <2> DEFINE new == [random |-> sets + 1]
             t == [state |-> "check", split |-> split,
                   dealt |-> Deal(split, sets + 1), next |-> 1]
  <2> PICK e : e = [x \in DOMAIN d \cup {new} |->
                      IF x = new
                      THEN << IF split.threshold = 1
                              THEN [constant |-> split.secret]
                              ELSE [drawn |-> sets + 1], split.secret >>
                      ELSE d[x]]
    OBVIOUS
  <2>1. /\ sets' = sets + 1 /\ sets < MaxSplits /\ Advance(p, t)
        /\ UNCHANGED <<shares, outputs, touched>>
        /\ sets \in Nat /\ MaxSplits \in Nat
    BY <1>2, RecoveryAssumption DEF BeginSplit, ShareInv
  <2>2. /\ new \notin DOMAIN d /\ sets + 1 \in 1..MaxSplits
    BY <2>1 DEF DealerInv, FreshInv
  <2>3. Knows(e, d)
    BY <2>2 DEF Knows
  <2>4. FreshInv(e)'
    <3> SUFFICES ASSUME NEW set \in 1..MaxSplits, set > sets + 1
                 PROVE  [random |-> set] \notin DOMAIN e
      BY <2>1 DEF FreshInv
    <3>1. [random |-> set] \notin DOMAIN d
      BY <2>1 DEF DealerInv, FreshInv
    <3>2. [random |-> set].random = set /\ new.random = sets + 1
      OBVIOUS
    <3>3. [random |-> set] # new
      BY <3>2, <2>1
    <3> QED
      BY <3>1, <3>3
  <2>5. /\ new \in DOMAIN e
        /\ e[new] = << IF split.threshold = 1
                       THEN [constant |-> split.secret]
                       ELSE [drawn |-> sets + 1], split.secret >>
    OBVIOUS
  <2>6. \A i \in 1..split.shares : Dealt(e, Deal(split, sets + 1)[i])
    BY <1>2, <2>1, <2>5, DealMade
  <2>7. FileInv(e)'
    BY <2>1, <2>3, DealtGrows DEF DealerInv, FileInv
  <2>8. OutputInv(e)'
    BY <2>1, <2>3, DealtGrows DEF DealerInv, OutputInv, AllDealt
  <2>9. SplitTask(e, t)
    <3>1. split.shares \in Nat /\ split.shares # 0
      BY <1>2, RecoveryAssumption DEF ValidSplit
    <3>2. 1 \in 1..split.shares /\ sets + 1 \in Nat
      BY <3>1, <2>1
    <3>3. /\ t.state = "check" /\ t.split = split /\ t.next = 1
          /\ t.dealt = Deal(split, sets + 1)
          /\ DOMAIN t = {"state", "split", "dealt", "next"}
      OBVIOUS
    <3> HIDE DEF t
    <3> QED
      BY <1>2, <2>6, <3>2, <3>3 DEF SplitTask
  <2>10. TaskInv(e)'
    <3> HIDE DEF t
    <3>1. task' = [task EXCEPT ![p] = t] /\ DOMAIN task = Processes
      BY <2>1 DEF Advance, DealerInv, TaskInv
    <3>2. \A q \in Processes : task'[q] = IF q = p THEN t ELSE task[q]
      BY <3>1
    <3>3. ASSUME NEW q \in Processes
          PROVE  \/ task'[q] = Idle \/ SplitTask(e, task'[q])
                 \/ LoadTask(e, task'[q]) \/ RecoveredTask(e, task'[q])
      BY <2>3, <2>9, <3>2, TaskGrows DEF DealerInv, TaskInv
    <3> QED
      BY <3>1, <3>3 DEF TaskInv
  <2> QED
    BY <2>1, <2>4, <2>7, <2>8, <2>10 DEF ShareInv, DealerInv
<1> QED
  BY <1>1, <1>2

LEMMA CheckSlotKeeps ==
  ASSUME ShareInv, NEW p \in Processes, CheckSlot(p)
  PROVE  ShareInv'
<1>1. CASE shares[Slot(p)] # Absent
  BY <1>1, EndKeeps DEF CheckSlot
<1>2. CASE shares[Slot(p)] = Absent
  <2> DEFINE t == IF IsLast(p)
                  THEN [task[p] EXCEPT !.state = "write", !.next = 1]
                  ELSE [task[p] EXCEPT !.next = @ + 1]
  <2>1. /\ Advance(p, t) /\ task[p].state = "check"
        /\ UNCHANGED <<shares, outputs, sets, touched>>
    BY <1>2 DEF CheckSlot
  <2>2. ASSUME NEW d, DealerInv(d) PROVE SplitTask(d, t)
    <3>1. SplitTask(d, task[p])
      BY <2>1, <2>2 DEF DealerInv, TaskInv, Idle, LoadTask, RecoveredTask
    <3>2. /\ task[p].split.shares \in Nat
          /\ task[p].next \in 1..task[p].split.shares
      BY <3>1, RecoveryAssumption DEF SplitTask
    <3>3. /\ DOMAIN t = DOMAIN task[p] /\ t.split = task[p].split
          /\ t.dealt = task[p].dealt
          /\ t.state \in {"check", "write"}
          /\ t.next = IF IsLast(p) THEN 1 ELSE task[p].next + 1
      BY <2>1, <3>1 DEF SplitTask
    <3>4. t.next \in 1..task[p].split.shares
      BY <3>2, <3>3 DEF IsLast
    <3> HIDE DEF t
    <3> QED
      BY <3>1, <3>3, <3>4 DEF SplitTask
  <2> HIDE DEF t
  <2> QED
    BY <2>1, <2>2, AdvanceKeeps
<1> QED
  BY <1>1, <1>2

(* A split at work, and where its next share goes.                         *)
LEMMA SplitAtWork ==
  ASSUME ShareInv, NEW p \in Processes, task[p].state \in {"check", "write"}
  PROVE  /\ \A d : DealerInv(d) => SplitTask(d, task[p])
         /\ Slot(p) \in Slots
<1>1. ASSUME NEW d, DealerInv(d) PROVE SplitTask(d, task[p])
  BY <1>1 DEF DealerInv, TaskInv, Idle, LoadTask, RecoveredTask
<1> PICK d : DealerInv(d)
  BY DEF ShareInv
<1>2. /\ task[p].split \in Splits /\ task[p].next \in 1..task[p].split.shares
  BY <1>1 DEF SplitTask
<1>3. /\ task[p].split.stem \in Stems
      /\ task[p].split.shares \in 0..MaxIndex /\ MaxIndex \in Nat
  BY <1>2, RecoveryAssumption
<1>4. task[p].next \in 1..MaxIndex
  BY <1>2, <1>3
<1> QED
  BY <1>1, <1>3, <1>4 DEF Slot, Slots

LEMMA WriteShareKeeps ==
  ASSUME ShareInv, NEW p \in Processes, WriteShare(p)
  PROVE  ShareInv'
<1>1. CASE shares[Slot(p)] # Absent
  BY <1>1, EndKeeps DEF WriteShare
<1>2. CASE shares[Slot(p)] = Absent
  <2> PICK d : DealerInv(d)
    BY DEF ShareInv
  <2> DEFINE share == task[p].dealt[task[p].next]
             slot == Slot(p)
  <2>1. /\ task[p].state = "write"
        /\ shares' = [shares EXCEPT ![slot] = share]
        /\ NextShare(p)
        /\ UNCHANGED <<outputs, sets, touched>>
    BY <1>2 DEF WriteShare, PlaceShare
  <2>2. SplitTask(d, task[p]) /\ slot \in Slots
    BY <2>1, SplitAtWork
  <2>3. Dealt(d, share)
    BY <2>2 DEF SplitTask
  <2>4. FileInv(d)'
    <3>1. DOMAIN shares = Slots
      BY DEF DealerInv, FileInv
    <3> HIDE DEF share, slot
    <3> QED
      BY <2>1, <2>2, <2>3, <3>1 DEF DealerInv, FileInv
  <2>5. TaskInv(d)'
    <3>1. PICK t : /\ Advance(p, t)
                   /\ \/ t = Idle
                      \/ ~IsLast(p) /\ t = [task[p] EXCEPT !.next = @ + 1]
      BY <2>1 DEF NextShare, End
    <3>2. t = Idle \/ SplitTask(d, t)
      <4> SUFFICES ASSUME ~IsLast(p), t = [task[p] EXCEPT !.next = @ + 1]
                   PROVE  SplitTask(d, t)
        BY <3>1
      <4>1. /\ DOMAIN t = DOMAIN task[p] /\ t.split = task[p].split
            /\ t.dealt = task[p].dealt /\ t.state = task[p].state
            /\ t.next = task[p].next + 1
        BY <2>2 DEF SplitTask
      <4>2. /\ task[p].split.shares \in Nat
            /\ task[p].next \in 1..task[p].split.shares
        BY <2>2, RecoveryAssumption DEF SplitTask
      <4>3. t.next \in 1..task[p].split.shares
        BY <4>1, <4>2 DEF IsLast
      <4> QED
        BY <2>2, <4>1, <4>3 DEF SplitTask
    <3>3. task' = [task EXCEPT ![p] = t] /\ DOMAIN task = Processes
      BY <3>1 DEF Advance, DealerInv, TaskInv
    <3>4. \A q \in Processes : task'[q] = IF q = p THEN t ELSE task[q]
      BY <3>3
    <3>5. ASSUME NEW q \in Processes
          PROVE  \/ task'[q] = Idle \/ SplitTask(d, task'[q])
                 \/ LoadTask(d, task'[q]) \/ RecoveredTask(d, task'[q])
      BY <3>2, <3>4 DEF DealerInv, TaskInv
    <3> QED
      BY <3>3, <3>5 DEF TaskInv
  <2>6. FreshInv(d)' /\ OutputInv(d)'
    BY <2>1 DEF DealerInv, FreshInv, OutputInv
  <2> QED
    BY <2>1, <2>4, <2>5, <2>6 DEF ShareInv, DealerInv
<1> QED
  BY <1>1, <1>2

LEMMA BeginCombineKeeps ==
  ASSUME ShareInv, NEW p \in Processes, NEW out \in Outputs,
         NEW force \in BOOLEAN, BeginCombine(p, out, force)
  PROVE  ShareInv'
<1> DEFINE t == [state |-> "load", out |-> out, force |-> force,
                 unread |-> Slots, loaded |-> {}]
<1>1. CASE outputs[out] = Absent \/ force
  <2>1. Advance(p, t) /\ UNCHANGED <<shares, outputs, sets, touched>>
    BY <1>1 DEF BeginCombine
  <2>2. \A d : LoadTask(d, t)
    BY DEF LoadTask, AllDealt
  <2> HIDE DEF t
  <2> QED
    BY <2>1, <2>2, AdvanceKeeps
<1>2. CASE ~(outputs[out] = Absent \/ force)
  BY <1>2 DEF BeginCombine, ShareInv, DealerInv, FreshInv, FileInv, TaskInv,
              OutputInv
<1> QED
  BY <1>1, <1>2

(* A combination that reads shares.                                        *)
LEMMA Loading ==
  ASSUME NEW p \in Processes, task[p].state = "load",
         NEW d, DealerInv(d)
  PROVE  LoadTask(d, task[p])
BY DEF DealerInv, TaskInv, Idle, SplitTask, RecoveredTask

LEMMA LoadShareKeeps ==
  ASSUME ShareInv, NEW p \in Processes, LoadShare(p)
  PROVE  ShareInv'
<1>1. PICK slot \in task[p].unread :
        Advance(p, [task[p] EXCEPT
                      !.unread = @ \ {slot},
                      !.loaded = IF Loads(slot)
                                 THEN @ \cup {<<slot, shares[slot]>>}
                                 ELSE @])
  BY DEF LoadShare
<1>2. task[p].state = "load" /\ UNCHANGED <<shares, outputs, sets, touched>>
  BY DEF LoadShare
<1> DEFINE t == [task[p] EXCEPT
                   !.unread = @ \ {slot},
                   !.loaded = IF Loads(slot)
                              THEN @ \cup {<<slot, shares[slot]>>}
                              ELSE @]
<1>3. ASSUME NEW d, DealerInv(d) PROVE LoadTask(d, t)
  <2>1. LoadTask(d, task[p])
    BY <1>2, <1>3, Loading
  <2>2. /\ DOMAIN t = DOMAIN task[p] /\ t.state = task[p].state
        /\ t.out = task[p].out
        /\ t.unread = task[p].unread \ {slot}
        /\ t.loaded = IF Loads(slot)
                      THEN task[p].loaded \cup {<<slot, shares[slot]>>}
                      ELSE task[p].loaded
    BY <2>1 DEF LoadTask
  <2>3. Loads(slot) => Dealt(d, shares[slot])
    BY <1>3, <2>1 DEF Loads, DealerInv, FileInv, LoadTask, Absent
  <2>4. AllDealt(d, t.loaded)
    <3> SUFFICES ASSUME NEW f \in t.loaded PROVE Dealt(d, f[2])
      BY DEF AllDealt
    <3>1. \/ f \in task[p].loaded
          \/ Loads(slot) /\ f = <<slot, shares[slot]>>
      BY <2>2
    <3> QED
      BY <2>1, <2>3, <3>1 DEF LoadTask, AllDealt
  <2> HIDE DEF t
  <2> QED
    BY <2>1, <2>2, <2>4 DEF LoadTask
<1> HIDE DEF t
<1>4. Advance(p, t)
  BY <1>1 DEF t
<1> QED
  BY <1>2, <1>3, <1>4, AdvanceKeeps

LEMMA CombineLoadedKeeps ==
  ASSUME ShareInv, NEW p \in Processes, CombineLoaded(p)
  PROVE  ShareInv'
<1>1. CASE ~Combines(task[p].loaded)
  BY <1>1, EndKeeps DEF CombineLoaded
<1>2. CASE Combines(task[p].loaded)
  <2> DEFINE t == [state |-> "recovered", out |-> task[p].out,
                   force |-> task[p].force, loaded |-> task[p].loaded,
                   secret |-> Interpolate(task[p].loaded)]
  <2>1. /\ task[p].state = "load" /\ Advance(p, t)
        /\ UNCHANGED <<shares, outputs, sets, touched>>
    BY <1>2 DEF CombineLoaded
  <2>2. ASSUME NEW d, DealerInv(d) PROVE RecoveredTask(d, t)
    <3>1. LoadTask(d, task[p])
      BY <2>1, <2>2, Loading
    <3>2. /\ t.state = "recovered" /\ t.out = task[p].out
          /\ t.loaded = task[p].loaded
          /\ t.secret = Interpolate(task[p].loaded)
      OBVIOUS
    <3> HIDE DEF t
    <3> QED
      BY <1>2, <3>1, <3>2 DEF LoadTask, RecoveredTask
  <2> HIDE DEF t
  <2> QED
    BY <2>1, <2>2, AdvanceKeeps
<1> QED
  BY <1>1, <1>2

LEMMA WriteRecoveredKeeps ==
  ASSUME ShareInv, NEW p \in Processes, WriteRecovered(p)
  PROVE  ShareInv'
<1> PICK d : DealerInv(d)
  BY DEF ShareInv
<1>1. /\ task[p].state = "recovered" /\ End(p)
      /\ UNCHANGED <<shares, sets, touched>>
  BY DEF WriteRecovered
<1>2. RecoveredTask(d, task[p])
  BY <1>1 DEF DealerInv, TaskInv, Idle, SplitTask, LoadTask
<1>3. TaskInv(d)'
  BY <1>1 DEF DealerInv, TaskInv, End, Advance
<1>4. OutputInv(d)'
  <2> DEFINE file == [kind |-> "recovered", secret |-> task[p].secret,
                      from |-> task[p].loaded]
  <2>1. \/ outputs' = outputs
        \/ outputs' = [outputs EXCEPT ![task[p].out] = file]
    BY DEF WriteRecovered
  <2>2. /\ file.kind = "recovered" /\ AllDealt(d, file.from)
        /\ Combines(file.from) /\ file.secret = Interpolate(file.from)
    BY <1>2 DEF RecoveredTask
  <2> HIDE DEF file
  <2>3. CASE outputs' = outputs
    BY <2>3 DEF DealerInv, OutputInv
  <2>4. CASE outputs' = [outputs EXCEPT ![task[p].out] = file]
    <3>1. DOMAIN outputs = Outputs
      BY DEF DealerInv, OutputInv
    <3>2. /\ DOMAIN outputs' = Outputs
          /\ \A o \in Outputs :
               outputs'[o] = IF o = task[p].out THEN file ELSE outputs[o]
      BY <2>4, <3>1
    <3> QED
      BY <2>2, <3>2 DEF DealerInv, OutputInv
  <2> QED
    BY <2>1, <2>3, <2>4
<1>5. FreshInv(d)' /\ FileInv(d)'
  BY <1>1 DEF DealerInv, FreshInv, FileInv
<1> QED
  BY <1>1, <1>3, <1>4, <1>5 DEF ShareInv, DealerInv

(* A user's change takes a share away, copies it or damages it.            *)
LEMMA EditSharesKeeps ==
  ASSUME ShareInv, EditShares
  PROVE  ShareInv'
<1> PICK d : DealerInv(d)
  BY DEF ShareInv
<1>1. PICK slot \in Slots :
        /\ \/ shares' = [shares EXCEPT ![slot] = Absent]
           \/ \E from \in Slots :
                /\ shares[from] # Absent
                /\ shares' = [shares EXCEPT ![slot] = shares[from]]
           \/ /\ shares[slot] # Absent
              /\ shares' = [shares EXCEPT ![slot].intact = FALSE]
        /\ touched' = touched \cup {slot}
  BY DEF EditShares
<1>2. UNCHANGED <<outputs, task, sets>>
  BY DEF EditShares
<1>3. PICK share : /\ share = Absent \/ Dealt(d, share)
                   /\ shares' = [shares EXCEPT ![slot] = share]
  <2>1. CASE shares' = [shares EXCEPT ![slot] = Absent]
    BY <2>1
  <2>2. CASE \E from \in Slots :
               /\ shares[from] # Absent
               /\ shares' = [shares EXCEPT ![slot] = shares[from]]
    BY <2>2 DEF DealerInv, FileInv
  <2>3. CASE /\ shares[slot] # Absent
             /\ shares' = [shares EXCEPT ![slot].intact = FALSE]
    <3>1. Dealt(d, [shares[slot] EXCEPT !.intact = FALSE])
      BY <2>3, DamagedDealt DEF DealerInv, FileInv
    <3>2. shares' =
            [shares EXCEPT ![slot] = [shares[slot] EXCEPT !.intact = FALSE]]
      BY <2>3
    <3> QED
      BY <3>1, <3>2
  <2> QED
    BY <1>1, <2>1, <2>2, <2>3
<1>4. FileInv(d)'
  BY <1>3 DEF DealerInv, FileInv
<1>5. FreshInv(d)' /\ TaskInv(d)' /\ OutputInv(d)'
  BY <1>2 DEF DealerInv, FreshInv, TaskInv, OutputInv
<1> QED
  BY <1>1, <1>2, <1>4, <1>5 DEF ShareInv, DealerInv

LEMMA CreateOutputKeeps ==
  ASSUME ShareInv, CreateOutput
  PROVE  ShareInv'
BY DEF CreateOutput, ShareInv, DealerInv, FreshInv, FileInv, TaskInv, OutputInv

(* The invariant is inductive.                                             *)
LEMMA ShareStep == ShareInv /\ [Next]_vars => ShareInv'
<1> SUFFICES ASSUME ShareInv, [Next]_vars PROVE ShareInv'
  OBVIOUS
<1>1. ASSUME NEW p \in Processes, Abort(p) PROVE ShareInv'
  BY <1>1, EndKeeps DEF Abort
<1>2. CASE UNCHANGED vars
  BY <1>2 DEF vars, ShareInv, DealerInv, FreshInv, FileInv, TaskInv, OutputInv
<1> QED
  BY <1>1, <1>2, BeginSplitKeeps, CheckSlotKeeps, WriteShareKeeps,
     BeginCombineKeeps, LoadShareKeeps, CombineLoadedKeeps,
     WriteRecoveredKeeps, EditSharesKeeps, CreateOutputKeeps DEF Next

LEMMA ShareInvariant == Spec => []ShareInv
BY ShareInit, ShareStep, PTL DEF Spec
-----------------------------------------------------------------------------
(* Share files, outputs and commands are what TypeOK says.                 *)
THEOREM TypeCorrect == Spec => []TypeOK
<1>1. ShareInv => TypeOK
  <2> SUFFICES ASSUME ShareInv PROVE TypeOK
    OBVIOUS
  <2> PICK d : DealerInv(d)
    BY DEF ShareInv
  <2>1. ASSUME NEW slot \in Slots
        PROVE  \/ shares[slot] = Absent
               \/ /\ shares[slot].kind = "share"
                  /\ shares[slot].version \in {LEGACY_SHARE_VERSION,
                                               CURRENT_SHARE_VERSION}
                  /\ shares[slot].index \in 1..MaxIndex
                  /\ shares[slot].secret \in Secrets
    BY DEF DealerInv, FileInv, Dealt, WellMade
  <2>2. ASSUME NEW o \in Outputs
        PROVE  outputs[o].kind \in {"absent", "other", "recovered"}
    BY DEF DealerInv, OutputInv, Absent, Other
  <2>3. ASSUME NEW p \in Processes
        PROVE  \/ task[p] = Idle
               \/ task[p].state \in {"check", "write"}
                    /\ task[p].next \in 1..task[p].split.shares
               \/ task[p].state \in {"load", "recovered"}
                    /\ task[p].out \in Outputs
    BY DEF DealerInv, TaskInv, SplitTask, LoadTask, RecoveredTask
  <2> QED
    BY <2>1, <2>2, <2>3 DEF ShareInv, TypeOK
<1> QED
  BY <1>1, ShareInvariant, PTL

(* A recovered file holds the secret that each of the shares it came from  *)
(* was split from, unless damaged shares of version 2 are among them.      *)
THEOREM RecoveredCorrect == Spec => []RecoveredIsSecret
<1>1. ShareInv => RecoveredIsSecret
  <2> SUFFICES ASSUME ShareInv, NEW o \in Outputs,
                      outputs[o].kind = "recovered",
                      NEW f \in outputs[o].from,
                      \/ f[2].version = LEGACY_SHARE_VERSION
                      \/ \A g \in outputs[o].from : g[2].intact
               PROVE  outputs[o].secret = f[2].secret
    BY DEF RecoveredIsSecret
  <2> PICK d : DealerInv(d)
    BY DEF ShareInv
  <2>1. /\ AllDealt(d, outputs[o].from) /\ Combines(outputs[o].from)
        /\ outputs[o].secret = Interpolate(outputs[o].from)
    BY DEF DealerInv, OutputInv, Absent, Other
  <2> QED
    BY <2>1, CombinesSecret
<1> QED
  BY <1>1, ShareInvariant, PTL
-----------------------------------------------------------------------------
(* Every step is of one of these kinds.                                    *)
LEMMA StepKinds ==
  ASSUME [Next]_vars
  PROVE  \/ \E p \in Processes : WriteShare(p)
         \/ \E p \in Processes : WriteRecovered(p)
         \/ EditShares \/ CreateOutput
         \/ UNCHANGED <<shares, outputs, edits, touched>>
BY DEF Next, vars, BeginSplit, CheckSlot, BeginCombine, LoadShare,
       CombineLoaded, Abort

LEMMA EditsCounted == Spec => [](edits \in Nat)
<1>1. Init => edits \in Nat
  BY DEF Init
<1>2. edits \in Nat /\ [Next]_vars => (edits \in Nat)'
  <2> SUFFICES ASSUME edits \in Nat, [Next]_vars PROVE edits' \in Nat
    OBVIOUS
  <2>1. ASSUME NEW p \in Processes, WriteShare(p) \/ WriteRecovered(p)
        PROVE  edits' = edits
    BY <2>1 DEF WriteShare, WriteRecovered
  <2>2. EditShares \/ CreateOutput => edits' = edits + 1
    BY DEF EditShares, CreateOutput
  <2> QED
    BY <2>1, <2>2, StepKinds
<1> QED
  BY <1>1, <1>2, PTL DEF Spec

(* A share file that is there changes only when a user changes it.         *)
LEMMA SharesStay ==
  ASSUME ShareInv, edits \in Nat, [Next]_vars
  PROVE  /\ touched \subseteq touched'
         /\ \A slot \in Slots :
              shares[slot] # Absent =>
                slot \in touched' \/ shares'[slot] = shares[slot]
         /\ edits' = edits =>
              \A slot \in Slots :
                shares[slot] # Absent => shares'[slot] = shares[slot]
<1>1. DOMAIN shares = Slots
  BY DEF ShareInv, DealerInv, FileInv
<1>2. ASSUME NEW p \in Processes, WriteShare(p)
      PROVE  /\ UNCHANGED <<touched, edits>>
             /\ \A slot \in Slots :
                  shares[slot] # Absent => shares'[slot] = shares[slot]
  BY <1>1, <1>2 DEF WriteShare, PlaceShare
<1>3. CASE EditShares
  <2>1. edits' # edits
    BY <1>3 DEF EditShares
  <2>2. PICK slot \in Slots :
          /\ \A other \in Slots \ {slot} : shares'[other] = shares[other]
          /\ touched' = touched \cup {slot}
    BY <1>1, <1>3 DEF EditShares
  <2> QED
    BY <2>1, <2>2
<1>4. CASE \E p \in Processes : WriteRecovered(p)
  BY <1>4 DEF WriteRecovered
<1>5. CASE CreateOutput
  BY <1>5 DEF CreateOutput
<1> QED
  BY <1>2, <1>3, <1>4, <1>5, StepKinds

(* No command replaces a share file, not even one that appeared after the  *)
(* paths were looked at, and none replaces an output without --force.      *)
THEOREM NeverReplaced == Spec => NothingReplaced
<1> DEFINE Replaces ==
      /\ edits' = edits =>
           \A slot \in Slots : shares[slot] # Absent =>
             shares'[slot] = shares[slot]
      /\ \A o \in Outputs : outputs'[o] # outputs[o] =>
           \/ outputs[o] = Absent
           \/ \E p \in Processes :
                /\ task[p].state = "recovered" /\ task[p].force
                /\ task'[p] = Idle
<1>1. ShareInv /\ edits \in Nat /\ [Next]_vars => [Replaces]_vars
  <2> SUFFICES ASSUME ShareInv, edits \in Nat, [Next]_vars,
                      NEW o \in Outputs, outputs'[o] # outputs[o],
                      outputs[o] # Absent
               PROVE  \E p \in Processes :
                        /\ task[p].state = "recovered" /\ task[p].force
                        /\ task'[p] = Idle
    BY SharesStay
  <2>1. DOMAIN outputs = Outputs /\ DOMAIN task = Processes
    BY DEF ShareInv, DealerInv, OutputInv, TaskInv
  <2>2. ~CreateOutput
    BY <2>1 DEF CreateOutput
  <2>3. PICK p \in Processes : WriteRecovered(p)
    BY <2>2, StepKinds DEF WriteShare, EditShares
  <2>4. /\ task[p].state = "recovered" /\ task' = [task EXCEPT ![p] = Idle]
    BY <2>3 DEF WriteRecovered, End, Advance
  <2>5. /\ task[p].force \/ outputs[task[p].out] = Absent
        /\ outputs' = [outputs EXCEPT ![task[p].out] =
                         [kind |-> "recovered", secret |-> task[p].secret,
                          from |-> task[p].loaded]]
    BY <2>3 DEF WriteRecovered
  <2>6. o = task[p].out
    BY <2>1, <2>5
  <2> QED
    BY <2>1, <2>4, <2>5, <2>6
<1>2. Spec => [][Next]_vars
  BY DEF Spec
<1> QED
  BY <1>1, <1>2, ShareInvariant, EditsCounted, PTL DEF NothingReplaced
-----------------------------------------------------------------------------
(***************************************************************************)
(* A share that split wrote stays where it is until a user changes it:     *)
(* every rename puts a file where there was none.                          *)
(***************************************************************************)
Stays(split, dealt, i) ==
  \/ <<split.stem, i>> \in touched
  \/ shares[<<split.stem, i>>] = dealt[i]

StaysAfter(split, dealt, i) ==
  \/ <<split.stem, i>> \in touched'
  \/ shares'[<<split.stem, i>>] = dealt[i]

WriterInv ==
  \A p \in Processes : task[p].state = "write" =>
    \A i \in 1..(task[p].next - 1) : Stays(task[p].split, task[p].dealt, i)

ReportInv ==
  \A r \in reported :
    /\ r.split \in Splits /\ ValidSplit(r.split)
    /\ \E set \in Nat : r.dealt = Deal(r.split, set)
    /\ \A i \in 1..r.split.shares : Stays(r.split, r.dealt, i)

LEMMA DealtPresent ==
  ASSUME NEW split \in Splits, NEW i \in 1..split.shares, NEW set
  PROVE  /\ <<split.stem, i>> \in Slots
         /\ Deal(split, set)[i] # Absent
<1>1. /\ split.stem \in Stems
      /\ split.shares \in 0..MaxIndex /\ MaxIndex \in Nat
  BY RecoveryAssumption
<1>2. Deal(split, set)[i].kind = "share"
  BY DEF Deal, Share
<1> QED
  BY <1>1, <1>2 DEF Slots, Absent

LEMMA StaysPut ==
  ASSUME ShareInv, edits \in Nat, [Next]_vars,
         NEW split \in Splits, NEW dealt,
         \E set \in Nat : dealt = Deal(split, set),
         NEW i \in 1..split.shares, Stays(split, dealt, i)
  PROVE  StaysAfter(split, dealt, i)
BY DealtPresent, SharesStay DEF Stays, StaysAfter

(* What a split at work is about. *)
LEMMA WriterTask ==
  ASSUME ShareInv, NEW p \in Processes, task[p].state \in {"check", "write"}
  PROVE  /\ task[p].split \in Splits /\ ValidSplit(task[p].split)
         /\ task[p].split.shares \in Nat
         /\ task[p].next \in 1..task[p].split.shares
         /\ \E set \in Nat : task[p].dealt = Deal(task[p].split, set)
         /\ DOMAIN task[p] = {"state", "split", "dealt", "next"}
<1> PICK d : DealerInv(d)
  BY DEF ShareInv
<1>1. SplitTask(d, task[p])
  BY SplitAtWork
<1>2. task[p].split.shares \in Nat
  BY <1>1, RecoveryAssumption DEF SplitTask
<1> QED
  BY <1>1, <1>2 DEF SplitTask

LEMMA WriterStep ==
  ASSUME ShareInv, edits \in Nat, WriterInv, ReportInv, [Next]_vars,
         NEW p \in Processes, WriteShare(p)
  PROVE  WriterInv' /\ ReportInv'
<1> DEFINE split == task[p].split
           dealt == task[p].dealt
           n == task[p].next
<1>1. /\ split \in Splits /\ ValidSplit(split) /\ split.shares \in Nat
      /\ n \in 1..split.shares
      /\ \E set \in Nat : dealt = Deal(split, set)
      /\ DOMAIN task[p] = {"state", "split", "dealt", "next"}
      /\ task[p].state = "write"
      /\ DOMAIN task = Processes /\ DOMAIN shares = Slots
  BY WriterTask DEF WriteShare, ShareInv, DealerInv, TaskInv, FileInv
<1>2. ASSUME NEW q \in Processes, q # p, task[q].state = "write"
      PROVE  \A i \in 1..(task[q].next - 1) :
               StaysAfter(task[q].split, task[q].dealt, i)
  <2> SUFFICES ASSUME NEW i \in 1..(task[q].next - 1)
               PROVE  StaysAfter(task[q].split, task[q].dealt, i)
    OBVIOUS
  <2>1. i \in 1..task[q].split.shares
    BY <1>2, WriterTask
  <2>2. Stays(task[q].split, task[q].dealt, i)
    BY <1>2 DEF WriterInv
  <2> QED
    BY <1>2, <2>1, <2>2, WriterTask, StaysPut
<1>3. \A r \in reported : \A i \in 1..r.split.shares :
        StaysAfter(r.split, r.dealt, i)
  BY StaysPut DEF ReportInv
<1>4. CASE shares[Slot(p)] # Absent
  <2>1. task' = [task EXCEPT ![p] = Idle] /\ reported' = reported
    BY <1>4 DEF WriteShare, End, Advance
  <2>2. WriterInv'
    BY <1>1, <1>2, <2>1 DEF WriterInv, Idle, Stays, StaysAfter
  <2>3. ReportInv'
    BY <1>3, <2>1 DEF ReportInv, Stays, StaysAfter
  <2> QED
    BY <2>2, <2>3
<1>5. CASE shares[Slot(p)] = Absent
  <2>1. /\ shares' = [shares EXCEPT ![<<split.stem, n>>] = dealt[n]]
        /\ NextShare(p)
    BY <1>5 DEF WriteShare, PlaceShare, Slot
  <2>2. <<split.stem, n>> \in Slots
    BY <1>1, SplitAtWork DEF Slot
  <2>3. shares'[<<split.stem, n>>] = dealt[n]
    BY <1>1, <2>1, <2>2
  <2>4. \A i \in 1..(n - 1) : StaysAfter(split, dealt, i)
    <3> SUFFICES ASSUME NEW i \in 1..(n - 1)
                 PROVE  StaysAfter(split, dealt, i)
      OBVIOUS
    <3>1. i \in 1..split.shares
      BY <1>1
    <3>2. Stays(split, dealt, i)
      BY <1>1 DEF WriterInv
    <3> QED
      BY <1>1, <3>1, <3>2, StaysPut
  <2> HIDE DEF split, dealt, n
  <2>5. \A i \in 1..n : StaysAfter(split, dealt, i)
    <3> SUFFICES ASSUME NEW i \in 1..n PROVE StaysAfter(split, dealt, i)
      OBVIOUS
    <3>1. i \in 1..(n - 1) \/ i = n
      BY <1>1
    <3> QED
      BY <2>3, <2>4, <3>1 DEF StaysAfter
  <2>6. CASE IsLast(p)
    <3>1. /\ task' = [task EXCEPT ![p] = Idle]
          /\ reported' = reported \cup {[split |-> split, dealt |-> dealt]}
          /\ n = split.shares
      BY <2>1, <2>6 DEF NextShare, End, Advance, IsLast, split, dealt, n
    <3>2. WriterInv'
      BY <1>1, <1>2, <3>1 DEF WriterInv, Idle, Stays, StaysAfter
    <3>3. ASSUME NEW r \in reported'
          PROVE  /\ r.split \in Splits /\ ValidSplit(r.split)
                 /\ \E set \in Nat : r.dealt = Deal(r.split, set)
                 /\ \A i \in 1..r.split.shares : StaysAfter(r.split, r.dealt, i)
      <4>1. CASE r \in reported
        BY <1>3, <4>1 DEF ReportInv
      <4>2. CASE r = [split |-> split, dealt |-> dealt]
        <5>1. r.split = split /\ r.dealt = dealt
          BY <4>2
        <5> QED
          BY <1>1, <2>5, <3>1, <5>1
      <4> QED
        BY <3>1, <4>1, <4>2
    <3>4. ReportInv'
      BY <3>3 DEF ReportInv, Stays, StaysAfter
    <3> QED
      BY <3>2, <3>4
  <2>7. CASE ~IsLast(p)
    <3>1. /\ task' = [task EXCEPT ![p] = [task[p] EXCEPT !.next = @ + 1]]
          /\ reported' = reported
      BY <2>1, <2>7 DEF NextShare, Advance
    <3>2. /\ task'[p].split = split /\ task'[p].dealt = dealt
          /\ task'[p].next = n + 1
          /\ \A q \in Processes : q # p => task'[q] = task[q]
      BY <1>1, <3>1 DEF split, dealt, n
    <3>3. (n + 1) - 1 = n
      BY <1>1
    <3>4. WriterInv'
      BY <1>2, <2>5, <3>2, <3>3 DEF WriterInv, Stays, StaysAfter
    <3>5. ReportInv'
      BY <1>3, <3>1 DEF ReportInv, Stays, StaysAfter
    <3> QED
      BY <3>4, <3>5
  <2> QED
    BY <2>6, <2>7
<1> QED
  BY <1>4, <1>5

(* Nobody begins to write but from the first share on.                     *)
NoneWritten ==
  /\ reported' = reported
  /\ \A q \in Processes :
       task'[q] = task[q] \/ task'[q].state # "write" \/ task'[q].next = 1

LEMMA OtherStep ==
  ASSUME ShareInv, [Next]_vars, ~(\E p \in Processes : WriteShare(p))
  PROVE  NoneWritten
<1>1. DOMAIN task = Processes
  BY DEF ShareInv, DealerInv, TaskInv
<1>2. ASSUME NEW p \in Processes, NEW t, Advance(p, t),
             t.state # "write" \/ t.next = 1, reported' = reported
      PROVE  NoneWritten
  BY <1>1, <1>2 DEF Advance, NoneWritten
<1>3. Idle.state # "write"
  BY DEF Idle
<1>4. ASSUME UNCHANGED <<task, reported>> PROVE NoneWritten
  BY <1>4 DEF NoneWritten
<1>5. ASSUME NEW p \in Processes, NEW split \in Splits, BeginSplit(p, split)
      PROVE  NoneWritten
  <2>1. CASE ValidSplit(split)
    <3> DEFINE t == [state |-> "check", split |-> split,
                     dealt |-> Deal(split, sets'), next |-> 1]
    <3>1. Advance(p, t) /\ reported' = reported
      BY <1>5, <2>1 DEF BeginSplit
    <3>2. t.state # "write"
      OBVIOUS
    <3> HIDE DEF t
    <3> QED
      BY <3>1, <3>2, <1>2
  <2>2. CASE ~ValidSplit(split)
    BY <1>4, <1>5, <2>2 DEF BeginSplit
  <2> QED
    BY <2>1, <2>2
<1>6. ASSUME NEW p \in Processes, CheckSlot(p) PROVE NoneWritten
  <2>1. CASE shares[Slot(p)] # Absent
    BY <1>2, <1>3, <1>6, <2>1 DEF CheckSlot, End
  <2>2. CASE shares[Slot(p)] = Absent
    <3>1. /\ task[p].state = "check" /\ reported' = reported
          /\ DOMAIN task[p] = {"state", "split", "dealt", "next"}
      BY <1>6, WriterTask DEF CheckSlot
    <3> DEFINE t == [task[p] EXCEPT !.state = "write", !.next = 1]
               u == [task[p] EXCEPT !.next = @ + 1]
    <3>2. Advance(p, t) \/ Advance(p, u)
      BY <1>6, <2>2 DEF CheckSlot
    <3>3. t.next = 1 /\ u.state # "write"
      BY <3>1
    <3> HIDE DEF t, u
    <3> QED
      BY <1>2, <3>1, <3>2, <3>3
  <2> QED
    BY <2>1, <2>2
<1>7. ASSUME NEW p \in Processes, NEW out \in Outputs, NEW force \in BOOLEAN,
             BeginCombine(p, out, force)
      PROVE  NoneWritten
  <2> DEFINE t == [state |-> "load", out |-> out, force |-> force,
                   unread |-> Slots, loaded |-> {}]
  <2>1. /\ reported' = reported
        /\ task' = task \/ Advance(p, t)
    BY <1>7 DEF BeginCombine
  <2>2. t.state # "write"
    OBVIOUS
  <2> HIDE DEF t
  <2> QED
    BY <1>2, <1>4, <2>1, <2>2
<1>8. ASSUME NEW p \in Processes, LoadShare(p) PROVE NoneWritten
  <2>1. task[p].state = "load" /\ reported' = reported
    BY <1>8 DEF LoadShare
  <2>2. DOMAIN task[p] = {"state", "out", "force", "unread", "loaded"}
    BY <2>1, Loading DEF ShareInv, LoadTask
  <2>3. PICK slot \in task[p].unread :
          Advance(p, [task[p] EXCEPT
                        !.unread = @ \ {slot},
                        !.loaded = IF Loads(slot)
                                   THEN @ \cup {<<slot, shares[slot]>>}
                                   ELSE @])
    BY <1>8 DEF LoadShare
  <2> DEFINE t == [task[p] EXCEPT
                     !.unread = @ \ {slot},
                     !.loaded = IF Loads(slot)
                                THEN @ \cup {<<slot, shares[slot]>>}
                                ELSE @]
  <2>4. t.state # "write"
    BY <2>1, <2>2
  <2>5. Advance(p, t)
    BY <2>3
  <2> HIDE DEF t
  <2> QED
    BY <1>2, <2>1, <2>4, <2>5
<1>9. ASSUME NEW p \in Processes, CombineLoaded(p) PROVE NoneWritten
  <2> DEFINE t == [state |-> "recovered", out |-> task[p].out,
                   force |-> task[p].force, loaded |-> task[p].loaded,
                   secret |-> Interpolate(task[p].loaded)]
  <2>1. /\ reported' = reported
        /\ Advance(p, t) \/ Advance(p, Idle)
    BY <1>9 DEF CombineLoaded, End
  <2>2. t.state # "write"
    OBVIOUS
  <2> HIDE DEF t
  <2> QED
    BY <1>2, <1>3, <2>1, <2>2
<1>10. ASSUME NEW p \in Processes, WriteRecovered(p) \/ Abort(p) PROVE NoneWritten
  BY <1>2, <1>3, <1>10 DEF WriteRecovered, Abort, End
<1>11. CASE EditShares \/ CreateOutput
  BY <1>4, <1>11 DEF EditShares, CreateOutput
<1>12. CASE UNCHANGED vars
  BY <1>4, <1>12 DEF vars
<1> QED
  <2>1. CASE Next
    <3>1. \/ \E p \in Processes : \E split \in Splits : BeginSplit(p, split)
          \/ \E p \in Processes : CheckSlot(p)
          \/ \E p \in Processes : \E out \in Outputs, force \in BOOLEAN :
               BeginCombine(p, out, force)
          \/ \E p \in Processes : LoadShare(p)
          \/ \E p \in Processes : CombineLoaded(p)
          \/ \E p \in Processes : WriteRecovered(p) \/ Abort(p)
          \/ EditShares \/ CreateOutput
      BY <2>1 DEF Next
    <3> QED
      BY <3>1, <1>5, <1>6, <1>7, <1>8, <1>9, <1>10, <1>11
  <2> QED
    BY <1>12, <2>1

SplitInv == ShareInv /\ edits \in Nat /\ WriterInv /\ ReportInv

LEMMA SplitStep == SplitInv /\ [Next]_vars => WriterInv' /\ ReportInv'
<1> SUFFICES ASSUME ShareInv, edits \in Nat, WriterInv, ReportInv, [Next]_vars
             PROVE  WriterInv' /\ ReportInv'
  BY DEF SplitInv
<1>1. CASE \E p \in Processes : WriteShare(p)
  BY <1>1, WriterStep
<1>2. CASE ~(\E p \in Processes : WriteShare(p))
  <2>1. ASSUME NEW q \in Processes, task'[q].state = "write",
               NEW i \in 1..(task'[q].next - 1)
        PROVE  Stays(task[q].split, task[q].dealt, i)'
    <3>1. task'[q] = task[q]
      BY <1>2, <2>1, OtherStep DEF NoneWritten
    <3>2. i \in 1..task[q].split.shares
      BY <2>1, <3>1, WriterTask
    <3>3. Stays(task[q].split, task[q].dealt, i)
      BY <2>1, <3>1 DEF WriterInv
    <3>4. StaysAfter(task[q].split, task[q].dealt, i)
      BY <2>1, <3>1, <3>2, <3>3, WriterTask, StaysPut
    <3> QED
      BY <3>1, <3>4 DEF Stays, StaysAfter
  <2>2. WriterInv'
    BY <2>1 DEF WriterInv
  <2>3. ReportInv'
    <3>1. reported' = reported
      BY <1>2, OtherStep DEF NoneWritten
    <3>2. \A r \in reported : \A i \in 1..r.split.shares :
            StaysAfter(r.split, r.dealt, i)
      BY StaysPut DEF ReportInv
    <3> QED
      BY <3>1, <3>2 DEF ReportInv, Stays, StaysAfter
  <2> QED
    BY <2>2, <2>3
<1> QED
  BY <1>1, <1>2

LEMMA SplitInvariant == Spec => []SplitInv
<1>1. Init => WriterInv /\ ReportInv
  BY DEF Init, WriterInv, ReportInv, Idle
<1>2. Spec => [](WriterInv /\ ReportInv)
  BY <1>1, SplitStep, ShareInvariant, EditsCounted, PTL DEF Spec, SplitInv
<1> QED
  BY <1>2, ShareInvariant, EditsCounted, PTL DEF SplitInv

(***************************************************************************)
(* As many files as the threshold asks for, of one set and undamaged,      *)
(* combine to the secret they were dealt for.                              *)
(***************************************************************************)
LEMMA SetCombines ==
  ASSUME NEW split \in Splits, ValidSplit(split), NEW set,
         NEW some \in SUBSET {<<split.stem, i>> : i \in 1..split.shares},
         Cardinality(some) >= split.threshold,
         \A i \in 1..split.shares : <<split.stem, i>> \in some =>
           shares[<<split.stem, i>>] = Deal(split, set)[i]
  PROVE  LET files == {<<slot, shares[slot]>> : slot \in some}
         IN  Combines(files) /\ Interpolate(files) = split.secret
<1> DEFINE files == {<<slot, shares[slot]>> : slot \in some}
           share(i) == Share(CURRENT_SHARE_VERSION, split, set, i)
<1>1. /\ split.shares \in Nat /\ split.threshold \in Nat
      /\ split.threshold # 0
  BY RecoveryAssumption DEF ValidSplit
<1>2. \A i \in 1..split.shares :
        /\ share(i).version = 2 /\ share(i).index = i
        /\ share(i).threshold = split.threshold
        /\ share(i).fingerprint = [random |-> set]
        /\ share(i).line = IF split.threshold = 1
                           THEN [constant |-> split.secret]
                           ELSE [drawn |-> set]
        /\ share(i).secret = split.secret /\ share(i).intact = TRUE
  BY DEF Share, CURRENT_SHARE_VERSION, LEGACY_SHARE_VERSION
<1>3. ASSUME NEW f \in files
      PROVE  \E i \in 1..split.shares :
               /\ f[1] = <<split.stem, i>> /\ f[1] \in some
               /\ f = <<f[1], f[2]>> /\ f[2] = share(i)
  <2>1. PICK slot \in some : f = <<slot, shares[slot]>>
    OBVIOUS
  <2>2. PICK i \in 1..split.shares : slot = <<split.stem, i>>
    OBVIOUS
  <2>3. shares[slot] = Deal(split, set)[i]
    BY <2>2
  <2>4. shares[slot] = share(i)
    BY <2>3 DEF Deal
  <2> QED
    BY <2>1, <2>2, <2>4
<1> HIDE DEF share
<1>4. IsFiniteSet(some)
  <2> DEFINE all == {<<split.stem, i>> : i \in 1..split.shares}
  <2>1. IsFiniteSet(1..split.shares)
    BY <1>1, FS_Interval
  <2>2. [i \in 1..split.shares |-> <<split.stem, i>>]
          \in Surjection(1..split.shares, all)
    BY DEF Surjection
  <2>3. IsFiniteSet(all)
    BY <2>1, <2>2, FS_Surjection
  <2> QED
    BY <2>3, FS_Subset
<1>5. Cardinality(files) = Cardinality(some) /\ IsFiniteSet(files)
  <2> DEFINE b == [slot \in some |-> <<slot, shares[slot]>>]
  <2>1. b \in [some -> files]
    OBVIOUS
  <2>2. \A slot, other \in some : b[slot] = b[other] => slot = other
    OBVIOUS
  <2>3. \A f \in files : \E slot \in some : b[slot] = f
    OBVIOUS
  <2> HIDE DEF b, files
  <2>4. b \in Injection(some, files)
    BY <2>1, <2>2 DEF Injection, IsInjective
  <2>5. b \in Surjection(some, files)
    BY <2>1, <2>3 DEF Surjection
  <2>6. ExistsBijection(some, files)
    BY <2>4, <2>5 DEF ExistsBijection, Bijection
  <2> QED
    BY <1>4, <2>6, FS_Bijection
<1>6. files # {}
  BY <1>1, <1>5, FS_EmptySet
<1> HIDE DEF files
<1>7. ASSUME NEW f \in files, NEW g \in files
      PROVE  /\ f[2].version = g[2].version
             /\ f[2].threshold = g[2].threshold
             /\ f[2].fingerprint = g[2].fingerprint
             /\ f[2].line = g[2].line
             /\ f # g => f[2].index # g[2].index
  <2>1. PICK i \in 1..split.shares :
          f[1] = <<split.stem, i>> /\ f = <<f[1], f[2]>> /\ f[2] = share(i)
    BY <1>3
  <2>2. PICK j \in 1..split.shares :
          g[1] = <<split.stem, j>> /\ g = <<g[1], g[2]>> /\ g[2] = share(j)
    BY <1>3
  <2>3. i = j => f = g
    BY <2>1, <2>2
  <2> QED
    BY <1>2, <2>1, <2>2, <2>3
<1>8. ASSUME NEW f \in files
      PROVE  /\ Cardinality(files) >= f[2].threshold
             /\ f[2].intact /\ f[2].secret = split.secret
             /\ f[2].version # LEGACY_SHARE_VERSION
  BY <1>2, <1>3, <1>5 DEF LEGACY_SHARE_VERSION
<1>9. Matching(files)
  BY <1>6, <1>7, <1>8 DEF Matching
<1>10. Combines(files)
  BY <1>8, <1>9 DEF Combines
<1>11. Interpolate(files) = split.secret
  <2>1. (CHOOSE f \in files : TRUE) \in files
    BY <1>6
  <2> QED
    BY <1>7, <1>8, <2>1 DEF Interpolate
<1> QED
  BY <1>10, <1>11 DEF files

(* After split has reported a success the shares that no user has changed  *)
(* are in their files, and as many of them as the threshold give back the  *)
(* secret, whatever else is or was split, written or combined.             *)
THEOREM SplitCorrect == Spec => []SplitRecoverable
<1>1. SplitInv => SplitRecoverable
  <2> SUFFICES ASSUME SplitInv, NEW r \in reported,
                      NEW some \in SUBSET ({<<r.split.stem, i>> :
                                              i \in 1..r.split.shares} \ touched),
                      Cardinality(some) >= r.split.threshold
               PROVE  LET files == {<<slot, shares[slot]>> : slot \in some}
                      IN  /\ \A slot \in some : shares[slot] # Absent
                          /\ Combines(files)
                          /\ Interpolate(files) = r.split.secret
    BY DEF SplitRecoverable
  <2>1. /\ r.split \in Splits /\ ValidSplit(r.split)
        /\ \E set \in Nat : r.dealt = Deal(r.split, set)
        /\ \A i \in 1..r.split.shares : Stays(r.split, r.dealt, i)
    BY DEF SplitInv, ReportInv
  <2> PICK set \in Nat : r.dealt = Deal(r.split, set)
    BY <2>1
  <2>2. \A i \in 1..r.split.shares : <<r.split.stem, i>> \in some =>
          shares[<<r.split.stem, i>>] = Deal(r.split, set)[i]
    BY <2>1 DEF Stays
  <2>3. \A slot \in some : shares[slot] # Absent
    BY <2>1, <2>2, DealtPresent
  <2>4. /\ some \in SUBSET {<<r.split.stem, i>> : i \in 1..r.split.shares}
        /\ Cardinality(some) >= r.split.threshold
    OBVIOUS
  <2> DEFINE files == {<<slot, shares[slot]>> : slot \in some}
  <2>5. Combines(files) /\ Interpolate(files) = r.split.secret
    BY <2>1, <2>2, <2>4, SetCombines
  <2> QED
    BY <2>3, <2>5
<1> QED
  BY <1>1, SplitInvariant, PTL
=============================================================================
