----------------------------- MODULE KeyProtection -----------------------------
(***************************************************************************)
(* Locking and password protection of a secret key: pgp_key_lock,          *)
(* pgp_key_unlock, pgp_key_protect and pgp_key_unprotect (pgp-key.c), the  *)
(* raw packet they rewrite, and saving the key to and loading it from a    *)
(* key store file.                                                         *)
(*                                                                         *)
(* A key lives twice in memory: as numbers (key->key.seckey) that are gone *)
(* while it is locked, and as the serialised packet key->packets[0], which *)
(* is all that a locked key can be restored from and all that is saved.    *)
(***************************************************************************)
EXTENDS Naturals

CONSTANTS
    Passwords,      \* the passwords in use
    LongPasswords,  \* those that do not fit MAX_PASSWORD_LENGTH
    Clear           \* no password: an unencrypted packet

ASSUME ProtectionAssumption ==
    /\ LongPasswords \subseteq Passwords
    /\ Clear \notin Passwords

VARIABLES
    locked,        \* key->key.seckey.encrypted
    mpis,          \* the secret numbers: "secret", or "freed"
    usage,         \* key->key.seckey.protection.s2k.usage
    is_protected,  \* key->is_protected
    format,        \* key->format
    packet,        \* key->packets[0]
    store,         \* format of the key store the key belongs to
    disk,          \* the packet in the key store file
    owner,         \* history: what the owner was told protects the key
    diskOwner,     \* history: the same for the saved copy
    given          \* history: the password given to the last operation

memVars  == <<locked, mpis, usage, is_protected, format, packet>>
diskVars == <<store, disk, diskOwner>>
keyVars == <<memVars, diskVars, owner, given>>

KeyFormats == {"GPG", "KBX", "G10"}

\* write_key_to_rawpacket and pgp_decrypt_seckey know two serialisations.
Family(f) == IF f = "G10" THEN "sexp" ELSE "pgp"

\* PGP_S2KU_NONE, _ENCRYPTED and _ENCRYPTED_AND_HASHED
Usages == {"none", "sum", "hash"}

\* A serialised key: its serialisation, the password that encrypts it, and
\* the numbers that were written.
KeyPackets == [fam : {"pgp", "sexp"}, enc : Passwords \cup {Clear}, mat : {"secret", "freed"}]

\* What loading a key from packet p sets up (no password is available then).
LoadedFrom(p) ==
    /\ locked' = (p.enc # Clear)
    /\ mpis' = IF p.enc = Clear THEN p.mat ELSE "freed"
    /\ is_protected' = (p.enc # Clear)
    /\ usage' \in IF p.enc = Clear THEN {"none"} ELSE {"sum", "hash"}
    /\ format' = IF p.fam = "sexp" THEN "G10" ELSE "GPG"
    /\ packet' = p

-----------------------------------------------------------------------------
\* A key that was generated and saved: unprotected and unlocked.  It was read
\* back by the parser of its serialisation, which sets the format.
KeyInit ==
    /\ store \in KeyFormats
    /\ locked = FALSE /\ mpis = "secret" /\ usage = "none" /\ is_protected = FALSE
    /\ format = IF store = "G10" THEN "G10" ELSE "GPG"
    /\ packet = [fam |-> Family(store), enc |-> Clear, mat |-> "secret"]
    /\ disk = packet
    /\ owner = Clear /\ diskOwner = Clear /\ given = Clear

\* The password provider: rnp_password_provider_string refuses a password that
\* does not fit the buffer, others may have none to give.
pgp_request_password(pw) == pw \notin LongPasswords

\* pgp_decrypt_seckey succeeds with password pw: a protected key needs the
\* password and the provider's consent; the checksum or hash in the packet
\* tells a wrong one.
pgp_decrypt_seckey_unchecked(pw) == is_protected => pgp_request_password(pw)
pgp_decrypt_seckey(pw) ==
    /\ is_protected => pgp_request_password(pw)
    /\ packet.fam = Family(format)
    /\ packet.enc \in {Clear, pw}

pgp_key_unlock(pw) ==
    /\ given' = pw
    /\ UNCHANGED <<usage, is_protected, format, packet, owner, diskVars>>
    /\ \/ /\ locked /\ pgp_decrypt_seckey(pw)
          /\ mpis' = packet.mat
          /\ locked' = FALSE
       \/ /\ ~(locked /\ pgp_decrypt_seckey(pw))
          /\ UNCHANGED <<locked, mpis>>

FreeSecret == "freed"
pgp_key_lock ==
    /\ given' = Clear
    /\ UNCHANGED <<usage, is_protected, format, packet, owner, diskVars>>
    /\ \/ /\ ~locked
          /\ mpis' = FreeSecret
          /\ locked' = TRUE
       \/ /\ locked
          /\ UNCHANGED <<locked, mpis>>

-----------------------------------------------------------------------------
\* write_key_to_rawpacket of numbers m with s2k usage u: what is written, and
\* the old packet stays when writing fails.
PacketOf(m, u, f, pw) ==
    [fam |-> Family(f), enc |-> IF u = "none" THEN Clear ELSE pw, mat |-> m]

write_key_to_rawpacket(m, u, f, pw, ok) ==
    packet' = IF ok THEN PacketOf(m, u, f, pw) ELSE packet

\* "must be unlocked first"
MayProtectAlways == TRUE
MayProtect == ~locked

\* key->format follows the packet.
FormatAfterProtect(f) == f

\* is_protected is cleared once the packet has been written.
ProtectedAfterUnprotectAlways(ok) == FALSE
ProtectedAfterUnprotect(ok) == ~ok

\* pgp_key_protect_password; ok tells whether the packet could be written.
pgp_key_protect_password(f, pw, ok) ==
    \/ /\ MayProtect
       /\ usage' = "hash"
       /\ write_key_to_rawpacket(mpis, "hash", f, pw, ok)
       /\ format' = IF ok THEN FormatAfterProtect(f) ELSE format
       /\ is_protected' = (is_protected \/ ok)
       /\ owner' = IF ok THEN pw ELSE owner
       /\ given' = pw
       /\ UNCHANGED <<locked, mpis, diskVars>>
    \/ /\ ~MayProtect
       /\ given' = pw
       /\ UNCHANGED <<memVars, owner, diskVars>>

\* pgp_key_protect, which asks a provider for the password first.
pgp_key_protect(f, pw, ok) ==
    /\ pgp_request_password(pw)
    /\ pgp_key_protect_password(f, pw, ok)

\* pgp_key_unprotect: a locked key is decrypted into a copy, which is written
\* and dropped: the key stays locked, and its own usage stays as it was.
pgp_key_unprotect(pw, ok) ==
    /\ given' = pw
    /\ UNCHANGED <<locked, mpis, format, diskVars>>
    /\ \/ /\ is_protected /\ ~locked
          /\ usage' = "none"
          /\ write_key_to_rawpacket(mpis, "none", format, Clear, ok)
          /\ is_protected' = ProtectedAfterUnprotect(ok)
          /\ owner' = IF ok THEN Clear ELSE owner
       \/ /\ is_protected /\ locked /\ pgp_decrypt_seckey(pw)
          /\ write_key_to_rawpacket(packet.mat, "none", format, Clear, ok)
          /\ is_protected' = ProtectedAfterUnprotect(ok)
          /\ owner' = IF ok THEN Clear ELSE owner
          /\ UNCHANGED usage
       \/ /\ ~is_protected \/ (locked /\ ~pgp_decrypt_seckey(pw))
          /\ UNCHANGED <<usage, packet, is_protected, owner>>

-----------------------------------------------------------------------------
\* rnp_key_store_write_to_file: a store takes keys of its own format only (a
\* KBX store takes any); the file is replaced as a whole.
SaveAccepts == store = "KBX" \/ format = store
rnp_key_store_write_to_file ==
    /\ SaveAccepts
    /\ disk' = packet /\ diskOwner' = owner
    /\ given' = Clear
    /\ UNCHANGED <<memVars, store, owner>>

\* The program is started again, or the store is loaded anew: what was not
\* saved is gone.
rnp_key_store_load_from_file ==
    /\ LoadedFrom(disk)
    /\ owner' = diskOwner
    /\ given' = Clear
    /\ UNCHANGED diskVars

KeyNext ==
    \/ \E pw \in Passwords : pgp_key_unlock(pw)
    \/ pgp_key_lock
    \/ \E f \in {format, store}, pw \in Passwords, ok \in BOOLEAN :
          \/ pgp_key_protect_password(f, pw, ok)
          \/ pgp_key_protect(f, pw, ok)
    \/ \E pw \in Passwords, ok \in BOOLEAN : pgp_key_unprotect(pw, ok)
    \/ rnp_key_store_write_to_file
    \/ rnp_key_store_load_from_file

KeySpec == KeyInit /\ [][KeyNext]_keyVars

-----------------------------------------------------------------------------
KeyTypeOK ==
    /\ locked \in BOOLEAN /\ mpis \in {"secret", "freed"} /\ usage \in Usages
    /\ is_protected \in BOOLEAN /\ format \in KeyFormats /\ store \in KeyFormats
    /\ packet \in KeyPackets /\ disk \in KeyPackets
    /\ owner \in Passwords \cup {Clear} /\ diskOwner \in Passwords \cup {Clear}
    /\ given \in Passwords \cup {Clear}

\* The secret numbers are never lost: the packet holds them whatever operation
\* failed or was refused, an unlocked key has them at hand, and so has the file.
SecretKept ==
    /\ packet.mat = "secret" /\ disk.mat = "secret"
    /\ ~locked => mpis = "secret"

\* A locked key has no secret number in memory.
LockedForgets == locked => mpis = "freed"

\* is_protected and format describe the packet, on which the next unlock,
\* unprotect or load depends: also after failed and partly done operations.
FlagsMatchPacket ==
    /\ is_protected <=> (packet.enc # Clear)
    /\ packet.fam = Family(format)

\* The packet opens with the password of the last operation that reported
\* success, and with no other, across saving and loading.
OpensAsTold == packet.enc = owner /\ disk.enc = diskOwner

\* What the key says of itself, what it holds in memory and what its packets open
\* with agree after every sequence of operations, failed ones too.
KeyAsTold == LockedForgets /\ FlagsMatchPacket /\ OpensAsTold

\* A locked and encrypted key gives its secret numbers back, and loses its
\* protection, only to an operation that was given the password its packet is
\* encrypted with.
NeedsPassword ==
    [][(given' # Clear /\ locked /\ packet.enc # Clear /\ (~locked' \/ packet'.enc = Clear))
          => given' = packet.enc]_keyVars

\* pgp-key.h of pgp_key_lock, pgp_key_unlock and pgp_key_is_locked: "Key
\* locking does not apply to unprotected keys."
LockingNeedsProtection == locked => is_protected
=============================================================================
