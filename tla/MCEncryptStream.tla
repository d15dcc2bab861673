-------------------------- MODULE MCEncryptStream --------------------------
(***************************************************************************)
(* Small instance of EncryptStream: every source length up to MaxLen (one  *)
(* full batch, one full chunk and one byte), changed up to MaxEdits times  *)
(* while it is read.                                                       *)
(***************************************************************************)
EXTENDS EncryptStream

CONSTANTS
  MaxLen, \* longest source at first
  Old     \* an existing output file

MCSources == {[p \in 1..n |-> 1] : n \in 0..MaxLen}
=============================================================================
