----------------------------- MODULE MCKeyFiles -----------------------------
(***************************************************************************)
(* Two small instances of KeyFiles in one run, two processes each: one     *)
(* signing pair and two hybrid pairs, which users do not damage; or one    *)
(* group and two hybrid pairs that are there, of which one is replaced.    *)
(***************************************************************************)
EXTENDS KeyFiles, TLC

Cmd(op, base, force) ==
  [op |-> op, base |-> base, force |-> force,
   toKey |-> FALSE, toGroup |-> FALSE]

To(base, key, all) ==
  [Cmd("encrypt", base, FALSE) EXCEPT !.toKey = key, !.toGroup = all]

KeyCommands ==
  {Cmd("signKeygen", "team", FALSE), Cmd("signKeygen", "team", TRUE),
   Cmd("keygen", "ann", FALSE), Cmd("keygen", "ann", TRUE),
   Cmd("keygen", "bob", FALSE), Cmd("guiKeygen", "bob", FALSE)}

GroupCommands ==
  {Cmd("keygen", "ann", TRUE), Cmd("create", "ann", FALSE),
   To("ann", TRUE, FALSE), To("ann", FALSE, TRUE), To("bob", TRUE, TRUE)}
  \cup {Cmd(op, b, FALSE) : op \in {"add", "remove"}, b \in {"ann", "bob"}}

NoPairs == [b \in Bases |-> 0]

OldPairs == [b \in Bases |-> CASE b = "ann" -> MaxCommands + 1
                               [] b = "bob" -> MaxCommands + 2
                               [] OTHER     -> 0]

EitherPairs == {NoPairs, OldPairs}

AllCommands == KeyCommands \cup GroupCommands

VARIABLE offered  \* what users start: the commands of one of the instances

MCInit ==
  /\ Init
  /\ \/ offered = KeyCommands /\ group = Absent
     \/ offered = GroupCommands /\ private = OldPairs

MCNext ==
  /\ \/ \E p \in Processes :
          Step(p) \/ \E c \in offered : Generate(p, c) \/ Start(p, c)
     \/ \E b \in HybridBases : offered = GroupCommands /\ Spoil(b)
  /\ UNCHANGED offered

MCSpec == MCInit /\ [][MCNext]_<<vars, offered>>

Symmetry == Permutations(Processes)
=============================================================================
