-------------------------- MODULE MCEncryptedSource --------------------------
(* The decrypting source for TLC: bounds in the .cfg. *)
EXTENDS EncryptedSource
=============================================================================
