-------------------------- MODULE MCRecoveryShares --------------------------
(***************************************************************************)
(* Small instance of RecoveryShares: two processes, two secrets, two       *)
(* stems, sets of two and three shares, and legacy and older sets in the   *)
(* directory.                                                              *)
(***************************************************************************)
EXTENDS RecoveryShares, TLC

MCSymmetry == Permutations(Processes)

MCSplits ==
  {[secret |-> "gold", stem |-> "a", shares |-> 3, threshold |-> 2],
   [secret |-> "gold", stem |-> "b", shares |-> 2, threshold |-> 2],
   [secret |-> "iron", stem |-> "a", shares |-> 2, threshold |-> 1],
   [secret |-> "iron", stem |-> "b", shares |-> 2, threshold |-> 3]}

Legacy(set, index) ==
  Share(LEGACY_SHARE_VERSION,
        [secret |-> "gold", threshold |-> 2], set, index)

(* A share of a set of version 2 that is older than the run. *)
Older(index) ==
  Share(CURRENT_SHARE_VERSION,
        [secret |-> "iron", threshold |-> 2], 0, index)

(* An empty directory; shares of two legacy sets of one secret, which have *)
(* the same fingerprint; and an older set, of which one share is damaged.  *)
MCInitialShares ==
  {[slot \in Slots |-> Absent],
   [slot \in Slots |->
      CASE slot = <<"a", 1>> -> Legacy("old", 1)
        [] slot = <<"a", 2>> -> Legacy("old", 2)
        [] slot = <<"b", 2>> -> Legacy("older", 2)
        [] OTHER -> Absent],
   [slot \in Slots |->
      CASE slot = <<"a", 1>> -> Older(1)
        [] slot = <<"a", 2>> -> [Older(2) EXCEPT !.intact = FALSE]
        [] slot = <<"b", 3>> -> Older(3)
        [] OTHER -> Absent]}
=============================================================================
