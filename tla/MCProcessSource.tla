--------------------------- MODULE MCProcessSource ---------------------------
(* Processing of messages for TLC: bounds in the .cfg. *)
EXTENDS ProcessSource
=============================================================================
