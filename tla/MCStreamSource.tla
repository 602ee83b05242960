---------------------------- MODULE MCStreamSource ----------------------------
(* The source for TLC: bounds in the .cfg, the mutants of PROJECT.json here
   need nothing more. *)
EXTENDS StreamSource
=============================================================================
