----------------------------- MODULE MCStreamDest -----------------------------
(* The destination for TLC: every bound is given in the .cfg files. *)
EXTENDS StreamDest
=============================================================================
