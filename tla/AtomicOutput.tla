---------------------------- MODULE AtomicOutput ----------------------------
(***************************************************************************)
(* What a command that writes one output file promises its caller.         *)
(*                                                                         *)
(* Where replacement is strict (Unix), the path changes from the old file  *)
(* to the complete result in one step, success is reported only            *)
(* afterwards, and once it is reported a power loss does not bring the old *)
(* file back.  Elsewhere (Windows) the old file may first go away and the  *)
(* change is not made durable: a power loss may bring the old file back,   *)
(* or leave no file.  A command that stops after the change without        *)
(* reporting it leaves the result in place.                                *)
(***************************************************************************)
CONSTANT Absent

VARIABLES
  path,   \* what the output path holds
  result, \* the complete result of the work so far
  prior,  \* what the path held beforehand; never changes
  strict, \* replacement is one step and durable; never changes
  stage   \* "working", "committed", "done" or "stopped"

vars == <<path, result, prior, strict, stage>>

Init == stage = "working" /\ path = prior

Work == stage = "working" /\ UNCHANGED <<path, prior, strict, stage>>

Remove ==
  /\ stage = "working"
  /\ ~strict
  /\ path' = Absent
  /\ UNCHANGED <<result, prior, strict, stage>>

Commit ==
  /\ stage = "working"
  /\ path' = result
  /\ stage' = IF strict THEN "committed" ELSE "done"
  /\ UNCHANGED <<result, prior, strict>>

Report ==
  /\ stage = "committed"
  /\ stage' = "done"
  /\ UNCHANGED <<path, result, prior, strict>>

Stop ==
  /\ stage \in {"working", "committed"}
  /\ stage' = "stopped"
  /\ UNCHANGED <<path, result, prior, strict>>

LosePower ==
  /\ stage' = IF stage = "done" THEN "done" ELSE "stopped"
  /\ path' \in {path} \cup (IF stage \in {"committed", "stopped"} \/ ~strict
                            THEN {prior} ELSE {})
                    \cup (IF strict THEN {} ELSE {Absent})
  /\ UNCHANGED <<result, prior, strict>>

Next == Work \/ Remove \/ Commit \/ Report \/ Stop \/ LosePower

Spec == Init /\ [][Next]_vars /\ WF_vars(Commit \/ Report \/ Stop)
=============================================================================
