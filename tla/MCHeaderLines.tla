---------------------------- MODULE MCHeaderLines ----------------------------
(* Texts of header lines, shorter and longer than the window and the buffer. *)
EXTENDS HeaderLines
=============================================================================
