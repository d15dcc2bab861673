-------------------------- MODULE MCDesktopWorker --------------------------
(* Two operations one after the other, of up to two reports each, in both  *)
(* builds.                                                                 *)
EXTENDS DesktopWorker
=============================================================================
