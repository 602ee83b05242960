---------------------------- MODULE MCKeyProtection ----------------------------
(* Two ordinary passwords and one that exceeds MAX_PASSWORD_LENGTH. *)
EXTENDS KeyProtection
=============================================================================
