--------------------------- MODULE KeyFilesProofs ---------------------------
(***************************************************************************)
(* Proofs about KeyFiles, for any number of processes, bases, commands and *)
(* members: no half of a pair is ever left beside a half of another one,   *)
(* edits of a group that nothing overlapped last, and an encryption opens  *)
(* for those it was made for.                                              *)
(***************************************************************************)
EXTENDS KeyFiles, FiniteSetTheorems, SequenceTheorems, TLAPS

Making(p) == task[p].state \in {"generated", "half"}

(* The processes between the generation of a pair and its last file.       *)
MakerInv ==
  \A p \in Processes : Making(p) =>
    /\ Command(p) \in Commands /\ Command(p).op \in Generators
    /\ task[p].pair \in Nat \ {0}
    /\ Base(p) \notin unsafe =>
         ~Command(p).force /\ Command(p).op # "guiKeygen"

(* Without --force a private key is there to stay: whoever wrote it finds  *)
(* it when it writes the public one.                                       *)
HalfInv ==
  \A p \in Processes :
    task[p].state = "half" /\ Base(p) \notin unsafe =>
      private[Base(p)] = task[p].pair

(* A hybrid pair alone on its name starts from free paths.                 *)
FreeInv ==
  \A p \in Processes :
    Making(p) /\ Command(p).op = "keygen" /\ Base(p) \notin unsafe =>
      /\ public[Base(p)] = 0
      /\ task[p].state = "generated" => private[Base(p)] = 0

AloneInv ==
  \A p, q \in Processes :
    /\ Making(p) /\ Making(q) /\ p # q
    /\ Base(p) = Base(q) /\ Base(p) \in HybridBases
    => Base(p) \in unsafe

(* A public key never comes before its private key. *)
OrderInv ==
  \A b \in Bases \ unsafe : public[b] # 0 => private[b] = public[b]

PairInv ==
  /\ DOMAIN task = Processes /\ started \in Nat
  /\ private \in [Bases -> Nat] /\ public \in [Bases -> Nat]
  /\ MakerInv /\ HalfInv /\ FreeInv /\ AloneInv /\ OrderInv

LEMMA PairInit == Init => PairInv
BY CommandAssumption
   DEF Init, PairInv, MakerInv, HalfInv, FreeInv, AloneInv, OrderInv, Making, Idle

(* Steps that do not concern the pairs.                                    *)
QuietStep ==
  /\ UNCHANGED <<private, public, unsafe>>
  /\ started' \in Nat /\ DOMAIN task' = Processes
  /\ \A q \in Processes :
       task'[q] = task[q] \/ task'[q].state \notin {"generated", "half"}

LEMMA QuietKeeps == PairInv /\ QuietStep => PairInv'
<1> SUFFICES ASSUME PairInv, QuietStep PROVE PairInv'
  OBVIOUS
<1>1. \A q \in Processes : Making(q)' => Making(q) /\ task'[q] = task[q]
  BY DEF QuietStep, Making
<1>2. MakerInv' /\ HalfInv' /\ FreeInv'
  BY <1>1 DEF PairInv, QuietStep, MakerInv, HalfInv, FreeInv, Making, Base, Command
<1>3. AloneInv'
  BY <1>1 DEF PairInv, QuietStep, AloneInv, Base, Command
<1>4. OrderInv'
  BY DEF PairInv, QuietStep, OrderInv
<1> QED
  BY <1>2, <1>3, <1>4 DEF PairInv, QuietStep

(* A command that ends, or that goes on with a task of another kind.       *)
LEMMA EndsQuietly ==
  ASSUME PairInv, NEW p \in Processes, NEW t,
         t.state \notin {"generated", "half"}, Advance(p, t),
         UNCHANGED <<private, public, unsafe>>, started' \in Nat
  PROVE  QuietStep
BY DEF PairInv, QuietStep, Advance

(* The invariant is inductive. *)
LEMMA PairStep == PairInv /\ [Next]_vars => PairInv'
<1> SUFFICES ASSUME PairInv, [Next]_vars PROVE PairInv'
  OBVIOUS
<1> USE DEF PairInv
<1>1. ASSUME NEW p \in Processes, NEW c \in Commands, Generate(p, c)
      PROVE  PairInv'
  <2>1. started' \in Nat \ {0}
    BY <1>1, CommandAssumption DEF Generate
  <2>2. CASE ~Allowed(c)
    BY <1>1, <2>1, <2>2 DEF Generate, MakerInv, HalfInv, FreeInv, AloneInv,
                            OrderInv, Making, Command, Base
  <2>3. CASE Allowed(c)
    <3> DEFINE t == [state |-> "generated", command |-> c, pair |-> started']
    <3>1. /\ task' = [task EXCEPT ![p] = t] /\ task[p] = Idle
          /\ c.op \in Generators
          /\ UNCHANGED <<private, public>>
      BY <1>1, <2>3 DEF Generate, Advance
    <3>2. /\ unsafe \subseteq unsafe'
          /\ c.base \notin unsafe' =>
               /\ ~c.force /\ c.op # "guiKeygen"
               /\ c.base \in HybridBases => ~Generating(c.base)
      BY <1>1 DEF Generate
    <3>3. /\ task'[p] = t
          /\ \A q \in Processes : q # p => task'[q] = task[q]
          /\ DOMAIN task' = Processes
      BY <3>1
    <3>4. ~Making(p)
      BY <3>1 DEF Making, Idle
    <3>5. MakerInv'
      BY <1>1, <2>1, <3>1, <3>2, <3>3 DEF MakerInv, Making, Command, Base
    <3>6. HalfInv'
      BY <3>1, <3>2, <3>3 DEF HalfInv, Making, Command, Base
    <3>7. FreeInv'
      BY <2>3, <3>1, <3>2, <3>3 DEF FreeInv, Allowed, Making, Command, Base
    <3>8. AloneInv'
      <4> SUFFICES ASSUME NEW q \in Processes, NEW r \in Processes,
                          Making(q)', Making(r)', q # r,
                          Base(q)' = Base(r)', Base(q)' \in HybridBases,
                          Base(q)' \notin unsafe'
                   PROVE  FALSE
        BY DEF AloneInv
      <4>1. CASE q # p /\ r # p
        BY <3>2, <3>3, <4>1 DEF AloneInv, Making, Command, Base
      <4>2. ASSUME NEW s \in Processes, s # p, Making(s)', Base(s)' = c.base
            PROVE  Generating(c.base)
        <5>1. Making(s) /\ Base(s) = c.base
          BY <3>3, <4>2 DEF Making, Command, Base
        <5>2. task[s] # Idle /\ Command(s).op \in Generators
          BY <5>1 DEF MakerInv, Making, Idle
        <5> QED
          BY <5>1, <5>2 DEF Generating
      <4>3. Base(p)' = c.base
        BY <3>3 DEF Base, Command
      <4> QED
        BY <3>2, <4>1, <4>2, <4>3
    <3>9. OrderInv'
      BY <3>1, <3>2 DEF OrderInv
    <3> QED
      BY <2>1, <3>1, <3>3, <3>5, <3>6, <3>7, <3>8, <3>9
  <2> QED
    BY <2>2, <2>3
<1>2. ASSUME NEW p \in Processes, SavePrivate(p)
      PROVE  PairInv'
  <2>1. CASE ~MayReplace(p, private[Base(p)])
    <3>1. QuietStep
      BY <1>2, <2>1, EndsQuietly DEF SavePrivate, End, Idle
    <3> QED
      BY <3>1, QuietKeeps
  <2>2. CASE MayReplace(p, private[Base(p)])
    <3> DEFINE b == Base(p)
               t == [state |-> "half", command |-> Command(p),
                     pair |-> task[p].pair]
    <3>1. /\ task[p].state = "generated"
          /\ private' = [private EXCEPT ![b] = task[p].pair]
          /\ task' = [task EXCEPT ![p] = t]
          /\ UNCHANGED <<public, started, unsafe>>
      BY <1>2, <2>2 DEF SavePrivate, Advance
    <3>2. /\ task'[p] = t /\ DOMAIN task' = Processes
          /\ \A q \in Processes : q # p => task'[q] = task[q]
      BY <3>1
    <3>3. /\ b \in Bases /\ Command(p) \in Commands
          /\ Command(p).op \in Generators /\ task[p].pair \in Nat \ {0}
          /\ b \notin unsafe =>
               ~Command(p).force /\ Command(p).op # "guiKeygen"
      BY <3>1, CommandAssumption DEF MakerInv, Making, Base
    <3>4. private' \in [Bases -> Nat] /\ private'[b] = task[p].pair
          /\ \A d \in Bases : d # b => private'[d] = private[d]
      BY <3>1, <3>3
    <3>5. \A q \in Processes :
            Making(q)' => Making(q) /\ Base(q)' = Base(q)
                          /\ Command(q)' = Command(q)
                          /\ task'[q].pair = task[q].pair
      BY <3>1, <3>2 DEF Making, Base, Command
    <3>6. b \notin unsafe => public[b] = 0
      <4>1. CASE Command(p).op = "keygen"
        BY <3>1, <4>1 DEF FreeInv, Making
      <4>2. CASE Command(p).op = "signKeygen" /\ b \notin unsafe
        BY <2>2, <3>3, <4>2 DEF MayReplace, OrderInv
      <4> QED
        BY <3>3, <4>1, <4>2 DEF Generators
    <3>7. MakerInv'
      BY <3>1, <3>5 DEF MakerInv
    <3>8. HalfInv'
      <4> SUFFICES ASSUME NEW q \in Processes, task'[q].state = "half",
                          Base(q)' \notin unsafe'
                   PROVE  private'[Base(q)'] = task'[q].pair
        BY DEF HalfInv
      <4>1. CASE q = p
        BY <3>2, <3>4, <4>1 DEF Base, Command
      <4>2. CASE q # p
        <5>1. /\ task[q].state = "half" /\ Base(q) \notin unsafe
              /\ Making(q) /\ Making(p) /\ Base(q)' = Base(q)
              /\ private[Base(q)] = task[q].pair
              /\ task[q].pair \in Nat \ {0} /\ Base(q) \in Bases
          BY <3>1, <3>2, <4>2, CommandAssumption
             DEF HalfInv, MakerInv, Making, Base, Command
        <5>2. CASE Base(q) # b
          BY <3>1, <3>2, <3>4, <4>2, <5>1, <5>2
        <5>3. CASE Base(q) = b
          <6>1. b \notin HybridBases
            BY <4>2, <5>1, <5>3 DEF AloneInv
          <6>2. Command(p).op = "signKeygen"
            BY <3>3, <6>1, CommandAssumption DEF Base, Bases
          <6> QED
            BY <2>2, <3>3, <5>1, <5>3, <6>2 DEF MayReplace
        <5> QED
          BY <5>2, <5>3
      <4> QED
        BY <4>1, <4>2
    <3>9. FreeInv'
      <4> SUFFICES ASSUME NEW q \in Processes, Making(q)',
                          Command(q)'.op = "keygen", Base(q)' \notin unsafe'
                   PROVE  /\ public'[Base(q)'] = 0
                          /\ task'[q].state = "generated" =>
                               private'[Base(q)'] = 0
        BY DEF FreeInv
      <4>1. /\ Making(q) /\ Base(q)' = Base(q) /\ Command(q).op = "keygen"
            /\ Base(q) \notin unsafe /\ Base(q) \in Bases
            /\ Base(q) \in HybridBases
        BY <3>1, <3>5, CommandAssumption DEF MakerInv, Base, Bases
      <4>2. CASE q = p
        BY <3>1, <3>2, <4>1, <4>2 DEF FreeInv
      <4>3. CASE q # p
        <5>1. Base(q) # b
          BY <3>1, <4>1, <4>3 DEF AloneInv, Making
        <5> QED
          BY <3>1, <3>2, <3>4, <4>1, <4>3, <5>1 DEF FreeInv
      <4> QED
        BY <4>2, <4>3
    <3>10. AloneInv'
      BY <3>1, <3>5 DEF AloneInv
    <3>11. OrderInv'
      BY <3>1, <3>4, <3>6 DEF OrderInv
    <3> QED
      BY <3>1, <3>2, <3>4, <3>7, <3>8, <3>9, <3>10, <3>11
  <2> QED
    BY <2>1, <2>2
<1>3. ASSUME NEW p \in Processes, SavePublic(p)
      PROVE  PairInv'
  <2>1. CASE ~MayReplace(p, public[Base(p)])
    <3>1. QuietStep
      BY <1>3, <2>1, EndsQuietly DEF SavePublic, End, Idle
    <3> QED
      BY <3>1, QuietKeeps
  <2>2. CASE MayReplace(p, public[Base(p)])
    <3> DEFINE b == Base(p)
    <3>1. /\ task[p].state = "half"
          /\ public' = [public EXCEPT ![b] = task[p].pair]
          /\ task' = [task EXCEPT ![p] = Idle]
          /\ UNCHANGED <<private, started, unsafe>>
      BY <1>3, <2>2 DEF SavePublic, End, Advance
    <3>2. b \in Bases /\ task[p].pair \in Nat
      BY <3>1, CommandAssumption DEF MakerInv, Making, Base
    <3>3. /\ public' \in [Bases -> Nat] /\ public'[b] = task[p].pair
          /\ \A d \in Bases : d # b => public'[d] = public[d]
      BY <3>1, <3>2
    <3>4. \A q \in Processes :
            Making(q)' => q # p /\ Making(q) /\ task'[q] = task[q]
      BY <3>1 DEF Making, Idle
    <3>5. \A q \in Processes :
            Making(q)' => Base(q)' = Base(q) /\ Command(q)' = Command(q)
      BY <3>4 DEF Base, Command
    <3>6. MakerInv' /\ AloneInv'
      BY <3>1, <3>4, <3>5 DEF MakerInv, AloneInv
    <3>7. HalfInv'
      BY <3>1, <3>4, <3>5 DEF HalfInv, Making
    <3>8. FreeInv'
      <4> SUFFICES ASSUME NEW q \in Processes, Making(q)',
                          Command(q)'.op = "keygen", Base(q)' \notin unsafe'
                   PROVE  /\ public'[Base(q)'] = 0
                          /\ task'[q].state = "generated" =>
                               private'[Base(q)'] = 0
        BY DEF FreeInv
      <4>1. /\ q # p /\ Making(q) /\ Base(q)' = Base(q)
            /\ Command(q).op = "keygen" /\ Base(q) \notin unsafe
            /\ Base(q) \in Bases /\ Base(q) \in HybridBases
        BY <3>1, <3>4, <3>5, CommandAssumption DEF MakerInv, Base, Bases
      <4>2. Base(q) # b
        BY <3>1, <4>1 DEF AloneInv, Making
      <4> QED
        BY <3>1, <3>3, <3>4, <4>1, <4>2 DEF FreeInv
    <3>9. OrderInv'
      BY <3>1, <3>3 DEF OrderInv, HalfInv
    <3> QED
      BY <3>1, <3>3, <3>6, <3>7, <3>8, <3>9
  <2> QED
    BY <2>1, <2>2
<1>4. ASSUME NEW p \in Processes, NEW c \in Commands, Start(p, c)
      PROVE  PairInv'
  <2>1. QuietStep
    BY <1>4, EndsQuietly, CommandAssumption DEF Start, keyVars
  <2> QED
    BY <2>1, QuietKeeps
<1>5. ASSUME NEW p \in Processes,
             LoadGroup(p) \/ TruncateGroup(p) \/ WriteGroup(p) \/ CutGroup(p)
             \/ WrapKeys(p) \/ WriteCapsule(p) \/ Abort(p)
      PROVE  PairInv'
  <2>1. CASE LoadGroup(p)
    <3>1. UNCHANGED <<private, public, unsafe, started>>
      BY <2>1 DEF LoadGroup, keyVars
    <3>2. CASE End(p)
      BY <3>1, <3>2, EndsQuietly, QuietKeeps DEF End, Idle
    <3>3. ASSUME NEW members, NEW change,
                 Advance(p, [state |-> "saving", command |-> Command(p),
                             members |-> members, change |-> change])
          PROVE  PairInv'
      BY <3>1, <3>3, EndsQuietly, QuietKeeps
    <3> QED
      BY <2>1, <3>2, <3>3 DEF LoadGroup
  <2>2. CASE TruncateGroup(p)
    <3> DEFINE t == [task[p] EXCEPT !.state = "writing"]
    <3>1. Advance(p, t) /\ UNCHANGED <<private, public, unsafe, started>>
      BY <2>2 DEF TruncateGroup, keyVars
    <3>2. task[p].state = "saving" => t.state \notin {"generated", "half"}
      OBVIOUS
    <3>3. QuietStep
      BY <2>2, <3>1 DEF TruncateGroup, QuietStep, Advance
    <3> QED
      BY <3>3, QuietKeeps
  <2>3. CASE WriteGroup(p) \/ WriteCapsule(p) \/ Abort(p)
    BY <2>3, EndsQuietly, QuietKeeps
       DEF WriteGroup, WriteCapsule, Abort, keyVars, End, Idle
  <2>5. CASE CutGroup(p)
    <3>1. QuietStep
      BY <2>5 DEF CutGroup, keyVars, QuietStep
    <3> QED
      BY <3>1, QuietKeeps
  <2>4. CASE WrapKeys(p)
    BY <2>4, EndsQuietly, QuietKeeps DEF WrapKeys, keyVars, End, Idle
  <2> QED
    BY <1>5, <2>1, <2>2, <2>3, <2>4, <2>5
<1>6. ASSUME NEW b \in HybridBases, Spoil(b)
      PROVE  PairInv'
  <2>1. QuietStep
    BY <1>6 DEF Spoil, QuietStep
  <2> QED
    BY <2>1, QuietKeeps
<1>7. CASE UNCHANGED vars
  <2>1. QuietStep
    BY <1>7 DEF vars, keyVars, QuietStep
  <2> QED
    BY <2>1, QuietKeeps
<1> QED
  BY <1>1, <1>2, <1>3, <1>4, <1>5, <1>6, <1>7 DEF Next, Step

(* No half of a pair is left beside a half of another one.                 *)
THEOREM PairsMatch == Spec => []PairMatches
<1>1. PairInv => PairMatches
  BY DEF PairInv, OrderInv, PairMatches
<1> QED
  BY PairInit, PairStep, <1>1, PTL DEF Spec
-----------------------------------------------------------------------------
(* Type correctness.  A group has members with keys only, so do the        *)
(* members that a command is about to write.                               *)
GroupMember == [name : HybridBases, pair : Pairs, sound : BOOLEAN]
Members == Seq(GroupMember)

Sealable(c) == Len(c.slots) \in 1..MAX_RECIPIENTS

KeyTypes ==
  /\ private \in [Bases -> Pairs] /\ public \in [Bases -> Pairs]
  /\ damage \in [HybridBases -> Damages] /\ unsafe \subseteq Bases
  /\ started \in 0..MaxCommands

RosterTypes == alone \subseteq Processes /\ kept \subseteq Pairs /\ gone \subseteq Pairs

TaskTypes(t) ==
  t = Idle
  \/ /\ t.state \in {"begun", "generated", "half", "saving", "writing",
                     "wrapped"}
     /\ t.command \in Commands
     /\ t.state \in {"generated", "half"} => t.pair \in Pairs
     /\ t.state \in {"saving", "writing"} =>
          /\ t.members \in Members
          /\ t.change.in \subseteq Pairs /\ t.change.out \subseteq Pairs
     /\ t.state = "wrapped" => Sealable(t.result)

TypeInv ==
  /\ DOMAIN task = Processes
  /\ KeyTypes /\ RosterTypes
  /\ group.state \in {"absent", "torn", "whole"}
  /\ group.state = "whole" => group.members \in Members
  /\ capsule # Absent => Sealable(capsule)
  /\ \A p \in Processes : TaskTypes(task[p])

LEMMA TypeInit == Init => TypeInv
<1> SUFFICES ASSUME Init PROVE TypeInv
  OBVIOUS
<1>1. private \in [Bases -> Pairs]
  <2>1. private \in InitialPairs /\ private \in [Bases -> Nat \ 1..MaxCommands]
    BY CommandAssumption DEF Init
  <2>2. \A b \in Bases : private[b] \in Pairs
    BY <2>1 DEF Pairs
  <2> QED
    BY <2>1, <2>2
<1>2. KeyTypes
  BY <1>1, CommandAssumption DEF Init, KeyTypes, Damages
<1>3. group.state \in {"absent", "whole"}
      /\ (group.state = "whole" => group.members \in Members)
  <2>1. <<>> \in Members
    BY DEF Members
  <2>2. group = Absent \/ group = Whole(<<>>)
    BY DEF Init
  <2>3. Whole(<<>>).state = "whole" /\ Whole(<<>>).members = <<>>
    BY DEF Whole
  <2> QED
    BY <2>1, <2>2, <2>3 DEF Absent
<1>4. RosterTypes
  BY DEF Init, RosterTypes
<1> QED
  BY <1>2, <1>3, <1>4 DEF Init, TypeInv, TaskTypes

(* A step of one process. *)
LEMMA TypeKept ==
  ASSUME TypeInv, NEW p \in Processes, NEW t, Advance(p, t), TaskTypes(t),
         KeyTypes', RosterTypes',
         \/ group' = group
         \/ group'.state \in {"absent", "torn"}
         \/ group'.state = "whole" /\ group'.members \in Members,
         capsule' = capsule \/ Sealable(capsule')
  PROVE  TypeInv'
<1>1. DOMAIN task' = Processes /\ \A q \in Processes : TaskTypes(task'[q])
  BY DEF TypeInv, Advance
<1> QED
  BY <1>1 DEF TypeInv, TaskTypes, Sealable

LEMMA TypeEnds ==
  ASSUME TypeInv, NEW p \in Processes, End(p), KeyTypes', RosterTypes',
         UNCHANGED <<group, capsule>>
  PROVE  TypeInv'
BY TypeKept DEF End, TaskTypes

(* What add makes a member of. *)
LEMMA MemberType ==
  ASSUME KeyTypes, NEW b \in HybridBases
  PROVE  Member(b) \in GroupMember
BY CommandAssumption DEF Member, GroupMember, KeyTypes, Bases, Pairs, Nobody

(* What is left of a group is a group. *)
LEMMA WithoutType ==
  ASSUME NEW members \in Members, NEW name, NEW left \in Without(members, name)
  PROVE  left \in Members
<1> DEFINE rest == {i \in DOMAIN members : members[i].name # name}
           n == Cardinality(rest)
<1>1. rest \subseteq 1..Len(members)
  BY DEF Members
<1>2. n \in Nat
  <2>1. IsFiniteSet(1..Len(members))
    BY FS_Interval DEF Members
  <2> QED
    BY <1>1, <2>1, FS_Subset, FS_CardinalityType
<1>3. PICK o \in Bijection(1..n, rest) : left = [i \in DOMAIN o |-> members[o[i]]]
  BY DEF Without
<1>4. o \in [1..n -> rest]
  BY <1>3 DEF Bijection, Injection, Surjection
<1> HIDE DEF n
<1>5. \A i \in 1..n : members[o[i]] \in GroupMember
  BY <1>1, <1>4 DEF Members
<1> QED
  BY <1>2, <1>3, <1>4, <1>5 DEF Members

LEMMA EditedType ==
  ASSUME TypeInv, NEW c \in Commands, c.op \in GroupEdits,
         NEW members \in Edited(c)
  PROVE  members \in Members
<1>1. c.base \in HybridBases
  BY CommandAssumption DEF Bases, GroupEdits
<1>2. CASE c.op = "create"
  <2>1. members = <<>>
    BY <1>2 DEF Edited
  <2> QED
    BY <2>1 DEF Members
<1>3. CASE c.op = "add"
  <2>1. /\ group.state = "whole" /\ public[c.base] # 0
        /\ members = Append(group.members, Member(c.base))
    BY <1>3 DEF Edited
  <2> QED
    BY <1>1, <2>1, MemberType DEF TypeInv, Members
<1>4. CASE c.op = "remove"
  <2>1. group.state = "whole" /\ members \in Without(group.members, c.base)
    BY <1>4 DEF Edited
  <2> QED
    BY <2>1, WithoutType DEF TypeInv
<1> QED
  BY <1>2, <1>3, <1>4 DEF GroupEdits

LEMMA ChangeType ==
  ASSUME TypeInv, NEW c \in Commands, c.op \in GroupEdits,
         Edited(c) # {}
  PROVE  Change(c).in \subseteq Pairs /\ Change(c).out \subseteq Pairs
<1>1. c.base \in HybridBases
  BY CommandAssumption DEF Bases, GroupEdits
<1>2. c.op = "add" => Member(c.base).pair \in Pairs
  BY <1>1, MemberType DEF TypeInv, GroupMember
<1>3. c.op = "remove" => PairsOf(group.members) \subseteq Pairs
  <2> SUFFICES ASSUME c.op = "remove" PROVE PairsOf(group.members) \subseteq Pairs
    OBVIOUS
  <2>1. group.members \in Seq(GroupMember)
    BY DEF Edited, TypeInv, Members
  <2>2. \A i \in DOMAIN group.members : group.members[i] \in GroupMember
    BY <2>1
  <2> QED
    BY <2>2 DEF PairsOf, GroupMember
<1> QED
  BY <1>2, <1>3 DEF Change

LEMMA RosterTypeStep == TypeInv /\ [Next]_vars => RosterTypes'
<1> SUFFICES ASSUME TypeInv, [Next]_vars PROVE RosterTypes'
  OBVIOUS
<1>1. CASE UNCHANGED rosterVars
  BY <1>1 DEF rosterVars, TypeInv, RosterTypes
<1>2. ASSUME NEW p \in Processes, LoadGroup(p) PROVE RosterTypes'
  <2>1. CASE UNCHANGED rosterVars
    BY <1>1, <2>1
  <2>2. CASE ~UNCHANGED rosterVars
    <3>1. /\ alone' \subseteq Processes
          /\ kept' \subseteq kept /\ gone' \subseteq gone
      BY <1>2, <2>2 DEF LoadGroup
    <3> QED
      BY <3>1 DEF TypeInv, RosterTypes
  <2> QED
    BY <2>1, <2>2
<1>3. ASSUME NEW p \in Processes, WriteGroup(p) PROVE RosterTypes'
  <2>1. task[p].change.in \subseteq Pairs /\ task[p].change.out \subseteq Pairs
    BY <1>3 DEF WriteGroup, TypeInv, TaskTypes, Idle
  <2> QED
    BY <1>3, <2>1 DEF WriteGroup, TypeInv, RosterTypes
<1>4. ASSUME NEW p \in Processes, Abort(p) PROVE RosterTypes'
  BY <1>4 DEF Abort, TypeInv, RosterTypes
<1>5. ASSUME NEW p \in Processes,
             \/ SavePrivate(p) \/ SavePublic(p) \/ TruncateGroup(p)
             \/ CutGroup(p) \/ WrapKeys(p) \/ WriteCapsule(p)
             \/ \E c \in Commands : Generate(p, c) \/ Start(p, c)
      PROVE  UNCHANGED rosterVars
  BY <1>5 DEF SavePrivate, SavePublic, TruncateGroup, CutGroup, WrapKeys,
              WriteCapsule, Generate, Start
<1>6. ASSUME NEW b \in HybridBases, Spoil(b) PROVE UNCHANGED rosterVars
  BY <1>6 DEF Spoil
<1> QED
  BY <1>1, <1>2, <1>3, <1>4, <1>5, <1>6 DEF Next, Step, vars

(* WrapKeys makes a capsule of the slots of keys that were asked for.      *)
Wraps(p, slots) ==
  Advance(p, [state |-> "wrapped", command |-> Command(p),
              result |-> [state |-> "capsule", slots |-> slots,
                          promise |-> Promise(Command(p))]])

LEMMA WrapKeysResult ==
  ASSUME NEW p \in Processes, WrapKeys(p), ~End(p)
  PROVE  \E members \in Asked(Command(p)) : \E slots \in PublicKeys(members) :
           ValidRecipients(slots) /\ Wraps(p, slots)
<1> DEFINE keys == UNION {PublicKeys(members) : members \in Asked(Command(p))}
<1>1. PICK slots \in keys : ValidRecipients(slots) /\ Wraps(p, slots)
  BY DEF WrapKeys, Wraps
<1>2. PICK members \in Asked(Command(p)) : slots \in PublicKeys(members)
  OBVIOUS
<1> QED
  BY <1>1, <1>2

LEMMA WrittenType ==
  ASSUME TypeInv, NEW members \in Members, NEW file \in Written(members)
  PROVE  \/ file.state = "torn"
         \/ file.state = "whole" /\ file.members \in Members
<1>1. CASE file = Whole(members)
  BY <1>1 DEF Whole
<1>2. CASE file = Torn
  BY <1>2 DEF Torn
<1>3. CASE /\ group.state = "whole" /\ Len(group.members) > Len(members)
           /\ file = Whole(members \o SubSeq(group.members, Len(members) + 1,
                                             Len(group.members)))
  <2>1. group.members \in Seq(GroupMember) /\ members \in Seq(GroupMember)
    BY <1>3 DEF TypeInv, Members
  <2>2. SubSeq(group.members, Len(members) + 1, Len(group.members))
          \in Seq(GroupMember)
    BY <1>3, <2>1
  <2> QED
    BY <1>3, <2>1, <2>2 DEF Whole, Members
<1> QED
  BY <1>1, <1>2, <1>3 DEF Written

LEMMA TypeStep == TypeInv /\ [Next]_vars => TypeInv'
<1> SUFFICES ASSUME TypeInv, [Next]_vars PROVE TypeInv'
  OBVIOUS
<1>0. KeyTypes /\ \A q \in Processes : TaskTypes(task[q])
  BY DEF TypeInv
<1>r. RosterTypes'
  BY RosterTypeStep
<1>c. Idle.state = "idle"
  BY DEF Idle
<1>n. started' = started /\ UNCHANGED keyVars => KeyTypes'
  BY <1>0 DEF KeyTypes, keyVars
<1>1. ASSUME NEW p \in Processes, NEW c \in Commands, Generate(p, c)
      PROVE  TypeInv'
  <2>1. started' \in 0..MaxCommands /\ started' \in Pairs
    BY <1>0, <1>1, CommandAssumption DEF Generate, KeyTypes, Pairs
  <2>2. KeyTypes'
    <3>1. c.base \in Bases
      BY CommandAssumption
    <3> QED
      BY <1>0, <1>1, <2>1, <3>1 DEF Generate, KeyTypes
  <2>3. CASE UNCHANGED task
    BY <1>1, <1>r, <2>2, <2>3 DEF TypeInv, Generate, TaskTypes, Sealable
  <2>4. CASE Advance(p, [state |-> "generated", command |-> c,
                         pair |-> started'])
    <3> DEFINE t == [state |-> "generated", command |-> c, pair |-> started']
    <3>1. TaskTypes(t)
      BY <2>1 DEF TaskTypes
    <3> HIDE DEF t
    <3> QED
      BY <1>1, <2>2, <2>4, <3>1, <1>r, TypeKept DEF Generate, t
  <2> QED
    BY <1>1, <2>3, <2>4 DEF Generate
<1>2. ASSUME NEW p \in Processes, NEW c \in Commands, Start(p, c)
      PROVE  TypeInv'
  <2>1. KeyTypes'
    BY <1>0, <1>2, CommandAssumption DEF Start, keyVars, KeyTypes
  <2>2. TaskTypes([state |-> "begun", command |-> c])
    BY DEF TaskTypes
  <2> QED
    BY <1>2, <2>1, <2>2, <1>r, TypeKept DEF Start
<1>3. ASSUME NEW p \in Processes, SavePrivate(p) PROVE TypeInv'
  <2>1. /\ Command(p) \in Commands /\ task[p].pair \in Pairs
        /\ Base(p) \in Bases
    BY <1>0, <1>c, <1>3, CommandAssumption
       DEF SavePrivate, TaskTypes, Command, Base
  <2>2. KeyTypes'
    BY <1>0, <1>3, <2>1 DEF SavePrivate, KeyTypes
  <2>3. CASE End(p)
    BY <1>3, <2>2, <2>3, <1>r, TypeEnds DEF SavePrivate
  <2>4. CASE Advance(p, [state |-> "half", command |-> Command(p),
                         pair |-> task[p].pair])
    <3>1. TaskTypes([state |-> "half", command |-> Command(p),
                     pair |-> task[p].pair])
      BY <2>1 DEF TaskTypes
    <3> QED
      BY <1>3, <2>2, <2>4, <3>1, <1>r, TypeKept DEF SavePrivate
  <2> QED
    BY <1>3, <2>3, <2>4 DEF SavePrivate
<1>4. ASSUME NEW p \in Processes, SavePublic(p) PROVE TypeInv'
  <2>1. task[p].pair \in Pairs /\ Base(p) \in Bases
    BY <1>0, <1>c, <1>4, CommandAssumption
       DEF SavePublic, TaskTypes, Command, Base
  <2>2. KeyTypes'
    BY <1>0, <1>4, <2>1 DEF SavePublic, KeyTypes, Damages
  <2> QED
    BY <1>4, <2>2, <1>r, TypeEnds DEF SavePublic
<1>5. ASSUME NEW p \in Processes, LoadGroup(p) PROVE TypeInv'
  <2>1. KeyTypes'
    BY <1>5, <1>n DEF LoadGroup
  <2>2. CASE End(p)
    BY <1>5, <2>1, <2>2, <1>r, TypeEnds DEF LoadGroup
  <2>3. ASSUME NEW members \in Edited(Command(p)),
               Advance(p, [state |-> "saving", command |-> Command(p),
                           members |-> members,
                           change |-> Change(Command(p))])
        PROVE  TypeInv'
    <3>1. Command(p) \in Commands /\ Command(p).op \in GroupEdits
      BY <1>0, <1>c, <1>5 DEF LoadGroup, TaskTypes, Command
    <3>2. members \in Members
      BY <2>3, <3>1, EditedType
    <3> DEFINE change == Change(Command(p))
    <3>3. change.in \subseteq Pairs /\ change.out \subseteq Pairs
      BY <2>3, <3>1, ChangeType
    <3> HIDE DEF change
    <3>4. TaskTypes([state |-> "saving", command |-> Command(p),
                     members |-> members, change |-> change])
      BY <3>1, <3>2, <3>3 DEF TaskTypes
    <3> QED
      BY <1>5, <2>1, <2>3, <3>4, <1>r, TypeKept DEF LoadGroup, change
  <2> QED
    BY <1>5, <2>2, <2>3 DEF LoadGroup
<1>6. ASSUME NEW p \in Processes, TruncateGroup(p) PROVE TypeInv'
  <2>1. KeyTypes'
    BY <1>6, <1>n DEF TruncateGroup
  <2> DEFINE t == [task[p] EXCEPT !.state = "writing"]
  <2>2. /\ task[p].state = "saving" /\ task[p] # Idle /\ TaskTypes(task[p])
        /\ Advance(p, t)
    BY <1>0, <1>c, <1>6 DEF TruncateGroup
  <2>3. TaskTypes(t)
    BY <2>2 DEF TaskTypes
  <2> HIDE DEF t
  <2>4. group'.state = "torn" /\ capsule' = capsule
    BY <1>6 DEF TruncateGroup, Torn
  <2> QED
    BY <2>1, <2>2, <2>3, <2>4, <1>r, TypeKept
<1>7. ASSUME NEW p \in Processes, WriteGroup(p) PROVE TypeInv'
  <2>1. KeyTypes'
    BY <1>7, <1>n DEF WriteGroup
  <2>2. task[p].members \in Members
    BY <1>0, <1>c, <1>7 DEF WriteGroup, TaskTypes
  <2>3. group' \in Written(task[p].members)
    BY <1>7 DEF WriteGroup
  <2>4. group'.state = "torn" \/ (group'.state = "whole" /\ group'.members \in Members)
    BY <2>2, <2>3, WrittenType
  <2>5. Advance(p, Idle) /\ TaskTypes(Idle) /\ capsule' = capsule
    BY <1>7 DEF WriteGroup, End, TaskTypes
  <2> QED
    BY <2>1, <2>4, <2>5, <1>r, TypeKept
<1>13. ASSUME NEW p \in Processes, CutGroup(p) PROVE TypeInv'
  <2>1. KeyTypes'
    BY <1>13, <1>n DEF CutGroup
  <2>2. task[p].members \in Members
    BY <1>0, <1>c, <1>13 DEF CutGroup, TaskTypes
  <2>3. PICK n \in 1..Len(task[p].members) :
          group' = Whole(SubSeq(task[p].members, 1, n))
    BY <1>13 DEF CutGroup
  <2>4. group'.state = "whole" /\ group'.members \in Members
    BY <2>2, <2>3 DEF Whole, Members
  <2>5. UNCHANGED <<task, capsule>>
    BY <1>13 DEF CutGroup
  <2> QED
    BY <1>r, <2>1, <2>4, <2>5 DEF TypeInv, TaskTypes, Sealable
<1>8. ASSUME NEW p \in Processes, WrapKeys(p) PROVE TypeInv'
  <2>1. KeyTypes'
    BY <1>8, <1>n DEF WrapKeys
  <2>2. CASE End(p)
    BY <1>8, <2>1, <2>2, <1>r, TypeEnds DEF WrapKeys
  <2>3. ASSUME NEW slots, ValidRecipients(slots),
               Wraps(p, slots)
        PROVE  TypeInv'
    <3> DEFINE c == [state |-> "capsule", slots |-> slots,
                     promise |-> Promise(Command(p))]
    <3>0. Sealable(c)
      BY <2>3 DEF Sealable, ValidRecipients
    <3> HIDE DEF c
    <3>1. Command(p) \in Commands
      BY <1>0, <1>c, <1>8 DEF WrapKeys, TaskTypes, Command
    <3>2. TaskTypes([state |-> "wrapped", command |-> Command(p),
                     result |-> c])
      BY <3>0, <3>1 DEF TaskTypes
    <3>3. Advance(p, [state |-> "wrapped", command |-> Command(p),
                      result |-> c])
      BY <2>3 DEF Wraps, c
    <3> QED
      BY <1>8, <2>1, <3>2, <3>3, <1>r, TypeKept DEF WrapKeys
  <2> QED
    BY <1>8, <2>2, <2>3, WrapKeysResult
<1>9. ASSUME NEW p \in Processes, WriteCapsule(p) PROVE TypeInv'
  <2>1. KeyTypes'
    BY <1>9, <1>n DEF WriteCapsule
  <2>2. Sealable(capsule')
    BY <1>0, <1>c, <1>9 DEF WriteCapsule, TaskTypes
  <2>3. Advance(p, Idle) /\ TaskTypes(Idle) /\ group' = group
    BY <1>9 DEF WriteCapsule, End, TaskTypes
  <2> QED
    BY <2>1, <2>2, <2>3, <1>r, TypeKept
<1>10. ASSUME NEW p \in Processes, Abort(p) PROVE TypeInv'
  BY <1>10, <1>n, <1>r, TypeEnds DEF Abort
<1>11. ASSUME NEW b \in HybridBases, Spoil(b) PROVE TypeInv'
  BY <1>0, <1>r, <1>11 DEF Spoil, TypeInv, KeyTypes, TaskTypes, Sealable
<1>12. CASE UNCHANGED vars
  BY <1>r, <1>12 DEF vars, keyVars, TypeInv, KeyTypes, TaskTypes, Sealable
<1> QED
  BY <1>1, <1>2, <1>3, <1>4, <1>5, <1>6, <1>7, <1>8, <1>9, <1>10, <1>11,
     <1>12, <1>13 DEF Next, Step

(* Every key file holds a pair there was or one that a command generated,  *)
(* every member of a group has a key, and a capsule has slots, as many as  *)
(* an envelope takes.                                                      *)
THEOREM TypeCorrect == Spec => []TypeOK
<1>1. TypeInv => TypeOK
  <2> SUFFICES ASSUME TypeInv PROVE TypeOK
    OBVIOUS
  <2>1. group.state = "whole" =>
          \A i \in DOMAIN group.members :
            group.members[i] \in
              [name : HybridBases, pair : Pairs, sound : BOOLEAN]
    <3>1. group.state = "whole" =>
            \A i \in DOMAIN group.members : group.members[i] \in GroupMember
      BY DEF TypeInv, Members
    <3> QED
      BY <3>1 DEF GroupMember
  <2>2. \A p \in Processes : task[p] # Idle =>
          task[p].state \in {"begun", "generated", "half", "saving",
                             "writing", "wrapped"}
    BY DEF TypeInv, TaskTypes
  <2> QED
    BY <2>1, <2>2 DEF TypeInv, TypeOK, KeyTypes, RosterTypes, Sealable
<1> QED
  BY TypeInit, TypeStep, <1>1, PTL DEF Spec
-----------------------------------------------------------------------------
(* The group and its edits.  An edit in progress has read everybody who is *)
(* certain to be in and nobody who is certain to be out; what it changes   *)
(* becomes certain when it ends, if it is the only one.                    *)
EditOK(t) ==
  /\ kept \subseteq PairsOf(t.members) /\ PairsOf(t.members) \cap gone = {}
  /\ t.change.in \subseteq PairsOf(t.members)
  /\ PairsOf(t.members) \cap t.change.out = {}

EditInv == \A p \in Processes : Editing(p) => EditOK(task[p])

(* An edit that is alone finds no more in the file than it wrote itself.   *)
SoleInv ==
  \A p \in alone : Editing(p) =>
    /\ \A q \in Processes : Editing(q) => q = p
    /\ task[p].state = "writing" /\ group.state = "whole" =>
         Len(group.members) <= Len(task[p].members)

GroupInv ==
  /\ group = Absent => kept = {}
  /\ EditsLast

PromiseKept(c) ==
  /\ \A pair \in c.promise.in : Unwraps(c.slots, pair)
  /\ \A pair \in c.promise.out : ~Unwraps(c.slots, pair)

SealInv ==
  /\ capsule # Absent => PromiseKept(capsule)
  /\ \A p \in Processes :
       task[p].state = "wrapped" => PromiseKept(task[p].result)

RosterInv == EditInv /\ SoleInv /\ GroupInv /\ SealInv

LEMMA RosterInit == Init => RosterInv
BY DEF Init, RosterInv, EditInv, SoleInv, GroupInv, SealInv, Editing, Idle,
       EditsLast

LEMMA WithoutPairs ==
  ASSUME NEW members \in Members, NEW name, NEW left \in Without(members, name)
  PROVE  PairsOf(left) =
           {members[i].pair : i \in {j \in DOMAIN members : members[j].name # name}}
<1> DEFINE rest == {i \in DOMAIN members : members[i].name # name}
           n == Cardinality(rest)
<1>1. PICK o \in Bijection(1..n, rest) : left = [i \in DOMAIN o |-> members[o[i]]]
  BY DEF Without
<1>2. /\ o \in [1..n -> rest] /\ \A r \in rest : \E i \in 1..n : o[i] = r
  BY <1>1 DEF Bijection, Injection, Surjection
<1> HIDE DEF n, rest
<1>3. DOMAIN left = 1..n /\ \A i \in 1..n : left[i] = members[o[i]]
  BY <1>1, <1>2
<1>4. PairsOf(left) = {members[i].pair : i \in rest}
  BY <1>2, <1>3 DEF PairsOf
<1> QED
  BY <1>4 DEF rest

(* The keys in a part of a list and in two lists joined.                   *)
LEMMA SubSeqPairs ==
  ASSUME NEW members \in Members, NEW a \in Nat \ {0}, NEW n \in Nat,
         n <= Len(members), a <= n + 1
  PROVE  /\ SubSeq(members, a, n) \in Members
         /\ PairsOf(SubSeq(members, a, n)) \subseteq PairsOf(members)
         /\ Len(SubSeq(members, a, n)) <= Len(members)
<1> DEFINE part == SubSeq(members, a, n)
<1>1. members \in Seq(GroupMember) /\ Len(members) \in Nat
  BY DEF Members
<1>2. part \in Seq(GroupMember) /\ Len(part) = n - a + 1
  BY <1>1
<1>3. \A i \in 1..Len(part) : part[i] = members[a + i - 1]
                              /\ a + i - 1 \in 1..Len(members)
  BY <1>1, <1>2
<1>4. DOMAIN part = 1..Len(part) /\ DOMAIN members = 1..Len(members)
  BY <1>1, <1>2
<1> HIDE DEF part
<1>5. PairsOf(part) \subseteq PairsOf(members)
  BY <1>3, <1>4 DEF PairsOf
<1> QED
  BY <1>1, <1>2, <1>5 DEF Members, part

LEMMA ConcatPairsOf ==
  ASSUME NEW S, NEW r \in Seq(S), NEW q \in Seq(S)
  PROVE  PairsOf(r \o q) = PairsOf(r) \cup PairsOf(q)
<1>1. /\ r \o q \in Seq(S) /\ Len(r) \in Nat /\ Len(q) \in Nat
      /\ Len(r \o q) = Len(r) + Len(q)
      /\ DOMAIN (r \o q) = 1..(Len(r) + Len(q))
      /\ DOMAIN r = 1..Len(r) /\ DOMAIN q = 1..Len(q)
  OBVIOUS
<1>2. \A i \in 1..(Len(r) + Len(q)) :
        (r \o q)[i] = IF i <= Len(r) THEN r[i] ELSE q[i - Len(r)]
  BY <1>1, ConcatProperties
<1> DEFINE w == r \o q
           l == Len(r)
           n == Len(q)
<1>3. /\ DOMAIN w = 1..(l + n) /\ l \in Nat /\ n \in Nat
      /\ \A i \in 1..(l + n) : w[i] = IF i <= l THEN r[i] ELSE q[i - l]
  BY <1>1, <1>2
<1>4. DOMAIN r = 1..l /\ DOMAIN q = 1..n
  BY <1>1
<1> HIDE DEF w, l, n
<1>5. PairsOf(w) \subseteq PairsOf(r) \cup PairsOf(q)
  <2> SUFFICES ASSUME NEW i \in DOMAIN w
               PROVE  w[i].pair \in PairsOf(r) \cup PairsOf(q)
    BY DEF PairsOf
  <2>1. CASE i <= l
    <3>1. i \in DOMAIN r /\ w[i] = r[i]
      BY <1>3, <1>4, <2>1
    <3> QED
      BY <3>1 DEF PairsOf
  <2>2. CASE ~(i <= l)
    <3>1. i - l \in DOMAIN q /\ w[i] = q[i - l]
      BY <1>3, <1>4, <2>2
    <3> QED
      BY <3>1 DEF PairsOf
  <2> QED
    BY <2>1, <2>2
<1>6. PairsOf(r) \subseteq PairsOf(w)
  <2> SUFFICES ASSUME NEW i \in DOMAIN r PROVE r[i].pair \in PairsOf(w)
    BY DEF PairsOf
  <2>1. i \in DOMAIN w /\ w[i] = r[i]
    BY <1>3, <1>4
  <2> QED
    BY <2>1 DEF PairsOf
<1>7. PairsOf(q) \subseteq PairsOf(w)
  <2> SUFFICES ASSUME NEW i \in DOMAIN q PROVE q[i].pair \in PairsOf(w)
    BY DEF PairsOf
  <2>1. i + l \in DOMAIN w /\ ~(i + l <= l) /\ (i + l) - l = i
    BY <1>3, <1>4
  <2>2. w[i + l] = q[i]
    BY <1>3, <2>1
  <2> QED
    BY <2>1, <2>2 DEF PairsOf
<1> QED
  BY <1>5, <1>6, <1>7 DEF w

(* What an edit makes of the group it reads.                               *)
LEMMA EditedPairs ==
  ASSUME TypeInv, RosterInv, NEW c \in Commands, c.op \in GroupEdits,
         NEW members \in Edited(c)
  PROVE  /\ Change(c).in \subseteq PairsOf(members)
         /\ PairsOf(members) \cap Change(c).out = {}
         /\ PairsOf(members) \cap (gone \ Change(c).in) = {}
         /\ ~Writing => kept \ Change(c).out \subseteq PairsOf(members)
<1>1. CASE c.op = "create"
  <2>1. members = <<>> /\ group = Absent
    BY <1>1 DEF Edited
  <2>2. PairsOf(members) = {} /\ kept = {}
    BY <2>1 DEF PairsOf, RosterInv, GroupInv
  <2> QED
    BY <1>1, <2>2 DEF Change
<1>2. CASE c.op = "add"
  <2> DEFINE m == Member(c.base)
  <2>1. group.state = "whole" /\ members = Append(group.members, m)
    BY <1>2 DEF Edited
  <2>2. group.members \in Members
    BY <2>1 DEF TypeInv
  <2>3. Change(c).in = {m.pair} /\ Change(c).out = {}
    BY <1>2 DEF Change
  <2> HIDE DEF m
  <2>4. PairsOf(members) = PairsOf(group.members) \cup {m.pair}
    <3>1. /\ DOMAIN members = 1..(Len(group.members) + 1)
          /\ DOMAIN group.members = 1..Len(group.members)
          /\ Len(group.members) \in Nat
          /\ \A i \in 1..Len(group.members) : members[i] = group.members[i]
          /\ members[Len(group.members) + 1] = m
      BY <2>1, <2>2 DEF Members
    <3>2. DOMAIN members = DOMAIN group.members \cup {Len(group.members) + 1}
      BY <3>1
    <3> QED
      BY <3>1, <3>2 DEF PairsOf
  <2>5. /\ PairsOf(group.members) \cap gone = {}
        /\ ~Writing => kept \subseteq PairsOf(group.members)
    BY <2>1 DEF RosterInv, GroupInv, EditsLast
  <2> QED
    BY <2>3, <2>4, <2>5
<1>3. CASE c.op = "remove"
  <2> DEFINE rest == {j \in DOMAIN group.members : group.members[j].name # c.base}
             left == {group.members[i].pair : i \in rest}
  <2>1. group.state = "whole" /\ members \in Without(group.members, c.base)
    BY <1>3 DEF Edited
  <2>2. PairsOf(members) = left
    BY <2>1, WithoutPairs DEF TypeInv
  <2>3. Change(c).in = {} /\ Change(c).out = PairsOf(group.members) \ left
    BY <1>3 DEF Change
  <2>4. left \subseteq PairsOf(group.members)
    BY DEF PairsOf
  <2>5. /\ PairsOf(group.members) \cap gone = {}
        /\ ~Writing => kept \subseteq PairsOf(group.members)
    BY <2>1 DEF RosterInv, GroupInv, EditsLast
  <2> HIDE DEF left
  <2> QED
    BY <2>2, <2>3, <2>4, <2>5
<1> QED
  BY <1>1, <1>2, <1>3 DEF GroupEdits

(* Steps that no edit of the group takes. *)
LEMMA RosterQuiet ==
  ASSUME RosterInv, DOMAIN task = Processes, RosterTypes,
         UNCHANGED <<group, rosterVars>>, DOMAIN task' = Processes,
         \A q \in Processes :
           \/ task'[q] = task[q]
           \/ /\ task[q].state # "writing"
              /\ task'[q].state \notin {"saving", "writing"}
              /\ task'[q].state = "wrapped" => PromiseKept(task'[q].result),
         capsule' = capsule \/ PromiseKept(capsule')
  PROVE  RosterInv'
<1>1. \A q \in Processes : Editing(q)' => Editing(q) /\ task'[q] = task[q]
  BY DEF Editing
<1>2. Writing' <=> Writing
  BY DEF Writing
<1>3. EditInv'
  BY <1>1 DEF RosterInv, EditInv, EditOK, rosterVars
<1>6. SoleInv'
  BY <1>1 DEF RosterInv, SoleInv, rosterVars, RosterTypes
<1>4. GroupInv'
  BY <1>2 DEF RosterInv, GroupInv, EditsLast, rosterVars
<1>5. SealInv'
  BY DEF RosterInv, SealInv, PromiseKept
<1> QED
  BY <1>3, <1>4, <1>5, <1>6 DEF RosterInv

(* A step of a process that has no part in an edit.                        *)
LEMMA RosterTask ==
  ASSUME TypeInv, RosterInv, NEW p \in Processes, NEW t, Advance(p, t),
         task[p].state # "writing", t.state \notin {"saving", "writing"},
         t.state = "wrapped" => PromiseKept(t.result),
         UNCHANGED <<group, rosterVars>>,
         capsule' = capsule \/ PromiseKept(capsule')
  PROVE  RosterInv'
BY RosterQuiet DEF TypeInv, Advance

LEMMA LoadGroupStep ==
  ASSUME TypeInv, RosterInv, NEW p \in Processes, LoadGroup(p)
  PROVE  RosterInv'
<1>1. CASE End(p) /\ UNCHANGED rosterVars
  <2>1. task[p].state # "writing" /\ UNCHANGED <<group, capsule>>
    BY DEF LoadGroup
  <2> QED
    BY <1>1, <2>1, RosterTask DEF End, Idle
<1>2. ASSUME NEW members \in Edited(Command(p)), NEW change,
             change = Change(Command(p)),
             Advance(p, [state |-> "saving", command |-> Command(p),
                         members |-> members, change |-> change]),
             alone' = IF \E q \in Processes : Editing(q) THEN {} ELSE {p},
             kept' = IF Writing THEN {} ELSE kept \ change.out,
             gone' = gone \ change.in
      PROVE  RosterInv'
  <2> DEFINE t == [state |-> "saving", command |-> Command(p),
                   members |-> members, change |-> change]
  <2>1. /\ task[p].state = "begun" /\ Command(p).op \in GroupEdits
        /\ UNCHANGED <<group, capsule>>
    BY DEF LoadGroup
  <2>2. Command(p) \in Commands
    BY <2>1 DEF TypeInv, TaskTypes, Command, Idle
  <2>3. /\ change.in \subseteq PairsOf(members)
        /\ PairsOf(members) \cap change.out = {}
        /\ PairsOf(members) \cap gone' = {}
        /\ kept' \subseteq PairsOf(members)
    BY <1>2, <2>1, <2>2, EditedPairs
  <2>4. /\ task'[p] = t /\ \A q \in Processes \ {p} : task'[q] = task[q]
        /\ DOMAIN task' = Processes
    BY <1>2 DEF Advance, TypeInv
  <2>5. kept' \subseteq kept /\ gone' \subseteq gone
    BY <1>2
  <2>6. EditInv'
    <3> SUFFICES ASSUME NEW q \in Processes, Editing(q)' PROVE EditOK(task[q])'
      BY DEF EditInv
    <3>1. CASE q = p
      BY <2>3, <2>4, <3>1 DEF EditOK
    <3>2. CASE q # p
      <4>1. Editing(q) /\ task'[q] = task[q]
        BY <2>4, <3>2 DEF Editing
      <4>2. EditOK(task[q])
        BY <4>1 DEF RosterInv, EditInv
      <4> QED
        BY <2>5, <4>1, <4>2 DEF EditOK
    <3> QED
      BY <3>1, <3>2
  <2>7. SoleInv'
    BY <1>2, <2>4 DEF SoleInv, Editing
  <2>8. Writing' <=> Writing
    BY <2>1, <2>4 DEF Writing
  <2>9. GroupInv'
    BY <2>1, <2>5, <2>8 DEF RosterInv, GroupInv, EditsLast
  <2>10. SealInv'
    BY <2>1, <2>4 DEF RosterInv, SealInv, PromiseKept
  <2> QED
    BY <2>6, <2>7, <2>9, <2>10 DEF RosterInv
<1>3. CASE ~(End(p) /\ UNCHANGED rosterVars)
  <2> DEFINE change == Change(Command(p))
  <2>1. /\ \E members \in Edited(Command(p)) :
             Advance(p, [state |-> "saving", command |-> Command(p),
                         members |-> members, change |-> change])
        /\ alone' = IF \E q \in Processes : Editing(q) THEN {} ELSE {p}
        /\ kept' = IF Writing THEN {} ELSE kept \ change.out
        /\ gone' = gone \ change.in
    BY <1>3 DEF LoadGroup
  <2> HIDE DEF change
  <2> QED
    BY <1>2, <2>1 DEF change
<1> QED
  BY <1>1, <1>3

LEMMA TruncateGroupStep ==
  ASSUME TypeInv, RosterInv, NEW p \in Processes, TruncateGroup(p)
  PROVE  RosterInv'
<1> DEFINE t == [task[p] EXCEPT !.state = "writing"]
<1>1. /\ task[p].state = "saving" /\ task' = [task EXCEPT ![p] = t]
      /\ group' = Torn /\ UNCHANGED <<alone, kept, gone, capsule>>
  BY DEF TruncateGroup, Advance, rosterVars
<1>2. /\ task[p].members \in Members /\ task[p].command \in Commands
      /\ task[p] # Idle
  BY <1>1 DEF TypeInv, TaskTypes, Idle
<1>3. /\ task'[p] = t /\ \A q \in Processes \ {p} : task'[q] = task[q]
      /\ DOMAIN task' = Processes
  BY <1>1 DEF TypeInv
<1>4. t.members = task[p].members /\ t.change = task[p].change
      /\ t.state # "wrapped"
  <2>1. EditOK(task[p])
    BY <1>1 DEF RosterInv, EditInv, Editing
  <2> QED
    BY <1>1
<1> HIDE DEF t
<1>5. \A q \in Processes : Editing(q)' => Editing(q)
  BY <1>1, <1>3 DEF Editing
<1>6. EditInv'
  <2> SUFFICES ASSUME NEW q \in Processes, Editing(q)' PROVE EditOK(task[q])'
    BY DEF EditInv
  <2>1. EditOK(task[q])
    BY <1>5 DEF RosterInv, EditInv
  <2> QED
    BY <1>1, <1>3, <1>4, <2>1 DEF EditOK
<1>7. SoleInv'
  <2>1. alone \subseteq Processes
    BY DEF TypeInv, RosterTypes
  <2>2. group'.state # "whole"
    BY <1>1 DEF Torn
  <2> QED
    BY <1>1, <1>5, <2>1, <2>2 DEF RosterInv, SoleInv
<1>8. GroupInv'
  BY <1>1 DEF GroupInv, EditsLast, Torn, Absent
<1>9. SealInv'
  BY <1>1, <1>3, <1>4 DEF RosterInv, SealInv, PromiseKept
<1> QED
  BY <1>6, <1>7, <1>8, <1>9 DEF RosterInv

LEMMA WriteGroupStep ==
  ASSUME TypeInv, RosterInv, NEW p \in Processes, WriteGroup(p)
  PROVE  RosterInv'
<1> DEFINE m == task[p].members
           change == task[p].change
<1>1. /\ task[p].state = "writing" /\ group' \in Written(m)
      /\ kept' = IF p \in alone THEN kept \cup change.in ELSE kept
      /\ gone' = IF p \in alone THEN gone \cup change.out ELSE gone
      /\ task' = [task EXCEPT ![p] = Idle] /\ UNCHANGED <<alone, capsule>>
  BY DEF WriteGroup, End, Advance
<1>2. Editing(p) /\ EditOK(task[p]) /\ m \in Members
  BY <1>1 DEF RosterInv, EditInv, Editing, TypeInv, TaskTypes, Idle
<1>3. /\ task'[p] = Idle /\ \A q \in Processes \ {p} : task'[q] = task[q]
      /\ DOMAIN task' = Processes
  BY <1>1 DEF TypeInv
<1>4. \A q \in Processes : Editing(q)' => q # p /\ Editing(q)
  BY <1>3 DEF Editing, Idle
<1>5. p \in alone => /\ \A q \in Processes : ~Editing(q)'
                     /\ group.state = "whole" => Len(group.members) <= Len(m)
  BY <1>1, <1>2, <1>4 DEF RosterInv, SoleInv
<1>6. EditInv'
  <2> SUFFICES ASSUME NEW q \in Processes, Editing(q)' PROVE EditOK(task[q])'
    BY DEF EditInv
  <2>1. p \notin alone /\ Editing(q) /\ q # p
    BY <1>4, <1>5
  <2>2. EditOK(task[q]) /\ UNCHANGED <<kept, gone>> /\ task'[q] = task[q]
    BY <1>1, <1>3, <2>1 DEF RosterInv, EditInv
  <2> QED
    BY <2>2 DEF EditOK
<1>7. SoleInv'
  <2> SUFFICES ASSUME NEW r \in alone, Editing(r)' PROVE FALSE
    BY <1>1 DEF SoleInv
  <2>1. r \in Processes
    BY DEF TypeInv, RosterTypes
  <2>2. r # p /\ Editing(r)
    BY <1>4, <2>1
  <2> QED
    BY <1>2, <2>2 DEF RosterInv, SoleInv
<1>8. GroupInv'
  <2>1. /\ kept' \subseteq PairsOf(m) /\ PairsOf(m) \cap gone' = {}
    BY <1>1, <1>2 DEF EditOK
  <2>2. CASE group' = Whole(m)
    BY <2>1, <2>2 DEF GroupInv, EditsLast, Whole, Absent
  <2>3. CASE group' = Torn
    BY <2>3 DEF GroupInv, EditsLast, Torn, Absent
  <2>4. CASE /\ group.state = "whole" /\ Len(group.members) > Len(m)
             /\ group' = Whole(m \o SubSeq(group.members, Len(m) + 1,
                                           Len(group.members)))
    <3> DEFINE tail == SubSeq(group.members, Len(m) + 1, Len(group.members))
    <3>1. group.members \in Members
      BY <2>4 DEF TypeInv
    <3>2. Len(m) \in Nat /\ Len(group.members) \in Nat
      BY <1>2, <3>1 DEF Members
    <3>3. p \notin alone
      BY <1>5, <2>4, <3>2
    <3>4. PairsOf(group.members) \cap gone = {} /\ gone' = gone
      BY <1>1, <2>4, <3>3 DEF RosterInv, GroupInv, EditsLast
    <3>5. PairsOf(tail) \subseteq PairsOf(group.members) /\ tail \in Members
      BY <2>4, <3>1, <3>2, SubSeqPairs
    <3> HIDE DEF tail
    <3>6. PairsOf(m \o tail) = PairsOf(m) \cup PairsOf(tail)
      BY <1>2, <3>5, ConcatPairsOf DEF Members
    <3>7. group' = Whole(m \o tail)
      BY <2>4 DEF tail
    <3> QED
      BY <2>1, <3>4, <3>5, <3>6, <3>7 DEF GroupInv, EditsLast, Whole, Absent
  <2> QED
    BY <1>1, <2>2, <2>3, <2>4 DEF Written
<1>9. SealInv'
  BY <1>1, <1>3 DEF RosterInv, SealInv, PromiseKept, Idle
<1> QED
  BY <1>6, <1>7, <1>8, <1>9 DEF RosterInv

LEMMA CutGroupStep ==
  ASSUME TypeInv, RosterInv, NEW p \in Processes, CutGroup(p)
  PROVE  RosterInv'
<1> DEFINE m == task[p].members
<1>1. task[p].state = "writing" /\ UNCHANGED <<rosterVars, capsule, task>>
  BY DEF CutGroup
<1>2. Editing(p) /\ EditOK(task[p]) /\ m \in Members
  BY <1>1 DEF RosterInv, EditInv, Editing, TypeInv, TaskTypes, Idle
<1>3. PICK n \in 1..Len(m) : group' = Whole(SubSeq(m, 1, n))
  BY DEF CutGroup
<1> DEFINE part == SubSeq(m, 1, n)
<1>4. PairsOf(part) \subseteq PairsOf(m) /\ Len(part) <= Len(m)
  <2>1. Len(m) \in Nat
    BY <1>2 DEF Members
  <2> QED
    BY <1>2, <2>1, SubSeqPairs
<1> HIDE DEF part
<1>5. group'.state = "whole" /\ group'.members = part /\ group' # Absent
  BY <1>3 DEF Whole, Absent, part
<1>6. EditInv'
  BY <1>1 DEF RosterInv, EditInv, EditOK, Editing, rosterVars
<1>7. SoleInv'
  <2> SUFFICES ASSUME NEW r \in alone, Editing(r)
               PROVE  /\ \A q \in Processes : Editing(q) => q = r
                      /\ Len(part) <= Len(task[r].members)
    BY <1>1, <1>5 DEF SoleInv, rosterVars, Editing
  <2>1. \A q \in Processes : Editing(q) => q = r
    BY DEF RosterInv, SoleInv
  <2> QED
    BY <1>2, <1>4, <2>1
<1>8. GroupInv'
  <2>1. Writing'
    BY <1>1 DEF Writing
  <2>2. PairsOf(part) \cap gone' = {}
    BY <1>1, <1>2, <1>4 DEF EditOK, rosterVars
  <2> QED
    BY <1>5, <2>1, <2>2 DEF GroupInv, EditsLast
<1>9. SealInv'
  BY <1>1 DEF RosterInv, SealInv, PromiseKept
<1> QED
  BY <1>6, <1>7, <1>8, <1>9 DEF RosterInv

LEMMA AbortStep ==
  ASSUME TypeInv, RosterInv, NEW p \in Processes, Abort(p)
  PROVE  RosterInv'
<1>1. CASE task[p].state # "writing"
  <2>1. UNCHANGED <<group, rosterVars, capsule>>
    BY <1>1 DEF Abort, rosterVars
  <2> QED
    BY <1>1, <2>1, RosterTask DEF Abort, End, Idle
<1>2. CASE task[p].state = "writing"
  <2>1. /\ task' = [task EXCEPT ![p] = Idle] /\ kept' = {}
        /\ UNCHANGED <<alone, gone, group, capsule>>
    BY <1>2 DEF Abort, End, Advance
  <2>2. /\ task'[p] = Idle /\ \A q \in Processes \ {p} : task'[q] = task[q]
        /\ DOMAIN task' = Processes
    BY <2>1 DEF TypeInv
  <2>3. \A q \in Processes : Editing(q)' => Editing(q) /\ task'[q] = task[q]
    BY <2>2 DEF Editing, Idle
  <2>4. EditInv'
    BY <2>1, <2>3 DEF RosterInv, EditInv, EditOK
  <2>5. SoleInv'
    <3> SUFFICES ASSUME NEW r \in alone, Editing(r)'
                 PROVE  /\ \A q \in Processes : Editing(q)' => q = r
                        /\ task'[r].state = "writing" /\ group.state = "whole" =>
                             Len(group.members) <= Len(task'[r].members)
      BY <2>1 DEF SoleInv
    <3>1. r \in Processes
      BY DEF TypeInv, RosterTypes
    <3>2. Editing(r) /\ task'[r] = task[r]
      BY <2>3, <3>1
    <3> QED
      BY <2>3, <3>2 DEF RosterInv, SoleInv
  <2>6. GroupInv'
    BY <2>1 DEF RosterInv, GroupInv, EditsLast
  <2>7. SealInv'
    BY <2>1, <2>2 DEF RosterInv, SealInv, PromiseKept, Idle
  <2> QED
    BY <2>4, <2>5, <2>6, <2>7 DEF RosterInv
<1> QED
  BY <1>1, <1>2

(* Among the keys asked for are those promised and none that is certain to *)
(* be out, but the one given by its file.                                  *)
LEMMA AskedPairs ==
  ASSUME TypeInv, RosterInv, NEW c \in Commands, NEW members \in Asked(c)
  PROVE  /\ Promise(c).in \subseteq PairsOf(members)
         /\ PairsOf(members) \cap Promise(c).out = {}
<1> DEFINE key == IF ~c.toKey THEN {<<>>}
                  ELSE IF public[c.base] = 0 THEN {} ELSE {<<Member(c.base)>>}
           all == IF ~c.toGroup THEN {<<>>}
                  ELSE IF group.state # "whole" THEN {} ELSE {group.members}
           own == IF c.toKey THEN {Member(c.base).pair} ELSE {}
<1>1. PICK k \in key : \E a \in all : members = k \o a
  BY DEF Asked
<1>2. PICK a \in all : members = k \o a
  BY <1>1
<1>3. PairsOf(k) = own /\ (k = <<>> \/ k = <<Member(c.base)>>)
  <2>1. CASE c.toKey
    <3>1. k = <<Member(c.base)>>
      BY <1>1, <2>1
    <3> QED
      BY <2>1, <3>1 DEF PairsOf
  <2>2. CASE ~c.toKey
    <3>1. k = <<>>
      BY <1>1, <2>2
    <3> QED
      BY <2>2, <3>1 DEF PairsOf
  <2> QED
    BY <2>1, <2>2
<1>4. /\ a = <<>> \/ (group.state = "whole" /\ a = group.members)
      /\ c.toGroup => group.state = "whole" /\ a = group.members
  BY <1>2
<1>5. a \in Seq(GroupMember)
  <2>1. CASE a = <<>>
    BY <2>1
  <2>2. CASE group.state = "whole" /\ a = group.members
    BY <2>2 DEF TypeInv, Members
  <2> QED
    BY <1>4, <2>1, <2>2
<1>6. PairsOf(a) \cap gone = {}
  BY <1>4 DEF RosterInv, GroupInv, EditsLast, PairsOf
<1>7. c.toGroup /\ ~Writing => kept \subseteq PairsOf(a)
  BY <1>4 DEF RosterInv, GroupInv, EditsLast
<1>8. PairsOf(members) = PairsOf(k) \cup PairsOf(a)
  <2>1. CASE k = <<>>
    BY <1>2, <1>5, <2>1 DEF PairsOf
  <2>2. CASE k = <<Member(c.base)>>
    <3>1. k \in Seq({Member(c.base)} \cup GroupMember)
          /\ a \in Seq({Member(c.base)} \cup GroupMember)
      BY <1>5, <2>2
    <3> QED
      BY <1>2, <3>1, ConcatPairsOf
  <2> QED
    BY <1>3, <2>1, <2>2
<1>9. /\ Promise(c).in = own \cup (IF c.toGroup /\ ~Writing THEN kept ELSE {})
      /\ Promise(c).out = gone \ own
  BY DEF Promise
<1> QED
  BY <1>3, <1>6, <1>7, <1>8, <1>9

LEMMA WrapKeysStep ==
  ASSUME TypeInv, RosterInv, NEW p \in Processes, WrapKeys(p)
  PROVE  RosterInv'
<1>1. task[p].state = "begun" /\ UNCHANGED <<group, rosterVars, capsule>>
  BY DEF WrapKeys
<1>2. CASE End(p)
  BY <1>1, <1>2, RosterTask DEF End, Idle
<1>3. CASE ~End(p)
  <2>1. PICK members \in Asked(Command(p)) :
          \E slots \in PublicKeys(members) : Wraps(p, slots)
    BY <1>3, WrapKeysResult
  <2>2. PICK slots \in PublicKeys(members) : Wraps(p, slots)
    BY <2>1
  <2>3. slots = [i \in DOMAIN members |-> members[i].pair]
    BY <2>2 DEF PublicKeys
  <2>4. \A pair : Unwraps(slots, pair) <=> pair \in PairsOf(members)
    BY <2>3 DEF Unwraps, PairsOf
  <2>5. Command(p) \in Commands
    BY <1>1 DEF TypeInv, TaskTypes, Command, Idle
  <2> DEFINE c == [state |-> "capsule", slots |-> slots,
                   promise |-> Promise(Command(p))]
  <2>6. PromiseKept(c)
    <3>1. /\ Promise(Command(p)).in \subseteq PairsOf(members)
          /\ PairsOf(members) \cap Promise(Command(p)).out = {}
      BY <2>5, AskedPairs
    <3> QED
      BY <2>4, <3>1 DEF PromiseKept
  <2> HIDE DEF c
  <2>7. Advance(p, [state |-> "wrapped", command |-> Command(p), result |-> c])
    BY <2>2 DEF Wraps, c
  <2> QED
    BY <1>1, <2>6, <2>7, RosterTask
<1> QED
  BY <1>2, <1>3

LEMMA RosterStep == TypeInv /\ RosterInv /\ [Next]_vars => RosterInv'
<1> SUFFICES ASSUME TypeInv, RosterInv, [Next]_vars PROVE RosterInv'
  OBVIOUS
<1>1. ASSUME NEW p \in Processes, NEW c \in Commands,
             Generate(p, c) \/ Start(p, c)
      PROVE  RosterInv'
  <2>1. task[p] = Idle /\ UNCHANGED <<group, rosterVars, capsule>>
    BY <1>1 DEF Generate, Start
  <2>2. CASE UNCHANGED task
    BY <2>1, <2>2, RosterQuiet DEF TypeInv
  <2>3. CASE Advance(p, [state |-> "generated", command |-> c,
                         pair |-> started'])
    BY <2>1, <2>3, RosterTask DEF Idle
  <2>4. CASE Advance(p, [state |-> "begun", command |-> c])
    BY <2>1, <2>4, RosterTask DEF Idle
  <2> QED
    BY <1>1, <2>2, <2>3, <2>4 DEF Generate, Start
<1>2. ASSUME NEW p \in Processes, SavePrivate(p) PROVE RosterInv'
  <2>1. task[p].state = "generated" /\ UNCHANGED <<group, rosterVars, capsule>>
    BY <1>2 DEF SavePrivate
  <2>2. CASE End(p)
    BY <2>1, <2>2, RosterTask DEF End, Idle
  <2>3. CASE Advance(p, [state |-> "half", command |-> Command(p),
                         pair |-> task[p].pair])
    BY <2>1, <2>3, RosterTask
  <2> QED
    BY <1>2, <2>2, <2>3 DEF SavePrivate
<1>3. ASSUME NEW p \in Processes, SavePublic(p) PROVE RosterInv'
  <2>1. task[p].state = "half" /\ UNCHANGED <<group, rosterVars, capsule>> /\ End(p)
    BY <1>3 DEF SavePublic
  <2> QED
    BY <2>1, RosterTask DEF End, Idle
<1>4. ASSUME NEW p \in Processes, WriteCapsule(p) PROVE RosterInv'
  <2>1. /\ task[p].state = "wrapped" /\ UNCHANGED <<group, rosterVars>> /\ End(p)
        /\ capsule' = task[p].result
    BY <1>4 DEF WriteCapsule
  <2>2. PromiseKept(capsule')
    BY <2>1 DEF RosterInv, SealInv
  <2> QED
    BY <2>1, <2>2, RosterTask DEF End, Idle
<1>5. ASSUME NEW b \in HybridBases, Spoil(b) PROVE RosterInv'
  <2>1. UNCHANGED <<task, group, rosterVars, capsule>>
    BY <1>5 DEF Spoil
  <2> QED
    BY <2>1, RosterQuiet DEF TypeInv
<1>6. CASE UNCHANGED vars
  <2>1. UNCHANGED <<task, group, rosterVars, capsule>>
    BY <1>6 DEF vars
  <2> QED
    BY <2>1, RosterQuiet DEF TypeInv
<1> QED
  BY <1>1, <1>2, <1>3, <1>4, <1>5, <1>6, LoadGroupStep, TruncateGroupStep,
     WriteGroupStep, CutGroupStep, AbortStep, WrapKeysStep DEF Next, Step

LEMMA RosterInvariance == Spec => []RosterInv
BY TypeInit, TypeStep, RosterInit, RosterStep, PTL DEF Spec

(* An add or a remove that no other edit overlapped is not undone by edits *)
(* of other names, however they interleave, overlap and fail.              *)
THEOREM EditsAreLasting == Spec => []EditsLast
<1>1. RosterInv => EditsLast
  BY DEF RosterInv, GroupInv
<1> QED
  BY <1>1, RosterInvariance, PTL

(* A capsule opens for the members who were certain to be in the group     *)
(* when it was read, and for none who was certain to be out.               *)
THEOREM EncryptionOpensForMembers == Spec => []MembersOpen
<1>1. RosterInv => MembersOpen
  BY DEF RosterInv, SealInv, PromiseKept, MembersOpen
<1> QED
  BY <1>1, RosterInvariance, PTL
=============================================================================
