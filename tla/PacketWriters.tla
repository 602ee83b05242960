---------------------------- MODULE PacketWriters ----------------------------
(***************************************************************************)
(* The functions that write packets (packet-create.c, writer.c,            *)
(* signature.c) as sequences of steps, which Outgoing performs one by one  *)
(* on a stack of writers.  Of the data only lengths matter.                *)
(***************************************************************************)
EXTENDS Integers, Sequences, SequencesExt

CONSTANTS
    MaxMpi,    \* bytes of the longest number that is written; 8191
    MaxName,   \* longest name of a file; 255
    MinPart,   \* shortest first part of a stream; 512
    MaxPart    \* MAX_PARTIAL_DATA_LENGTH; 2^30

\* A step.  A failure ends the operation (drop = -1), after pops writers are
\* popped, or skips the next drop steps: it is ignored.
Step(op, n, what) == [op |-> op, n |-> n, what |-> what, drop |-> -1, pops |-> 0]
One(op, n, what) == <<Step(op, n, what)>>
W(n) == One("write", n, "packet")
Try(what) == One("try", 0, what)
Fail == One("fail", 0, "unsupported")
Push(w) == One("push", 0, w)
Pop == One("pop", 0, "")
If(c, prog) == IF c THEN prog ELSE <<>>

\* A call whose result is ignored: its failure skips what is left of it.
Ignored(prog) == [i \in DOMAIN prog |-> IF prog[i].drop = -1 THEN [prog[i] EXCEPT !.drop = Len(prog) - i] ELSE prog[i]]
\* Steps, each of which is ignored when it fails.
Each(prog) == [i \in DOMAIN prog |-> [prog[i] EXCEPT !.drop = 0]]
\* Steps under n more writers, that are popped when a step fails.
Under(n, prog) == [i \in DOMAIN prog |-> [prog[i] EXCEPT !.pops = @ + n]]
\* The same steps count times.
Times(count, prog) == [i \in 1 .. count * Len(prog) |-> prog[((i - 1) % Len(prog)) + 1]]

-----------------------------------------------------------------------------
(* writer.c, packet-create.c: packets.                                     *)
\* A packet: its tag, the length that is announced, and what is written.
Packet(kind, length, body) == One("tag", 1, "") \o One("length", length, "") \o body \o One("packet", 0, kind)

pgp_write_mpi(bytes) == IF bytes > MaxMpi THEN Fail ELSE W(2) \o W(bytes)
Mpis(k, count) == Times(count, pgp_write_mpi(k.n))
mpi_length(k) == 2 + k.n

\* Keys: [alg, version, usage, spec, n |-> bytes of a number, curve |-> it is known].
Rsa == {"RSA", "RSA_ENCRYPT_ONLY", "RSA_SIGN_ONLY"}
Ecc == {"ECDSA", "EDDSA", "SM2"}
Oid == 8
BlockSize == 16
Checkhash == 20

EcLength(k) == IF k.curve THEN 1 + Oid + mpi_length(k) ELSE 0
pubkey_length(k) ==
    CASE k.alg = "DSA" -> 4 * mpi_length(k)
      [] k.alg = "RSA" -> 2 * mpi_length(k)
      [] k.alg = "ECDH" -> IF k.curve THEN EcLength(k) + 4 ELSE 0
      [] k.alg \in Ecc -> EcLength(k)
      [] OTHER -> 0
seckey_length(k) ==
    CASE k.alg \in Ecc \cup {"ECDH", "DSA"} -> mpi_length(k) + pubkey_length(k)
      [] k.alg = "RSA" -> 4 * mpi_length(k) + pubkey_length(k)
      [] OTHER -> 0

ec_serialize_pubkey(k) == IF k.curve THEN W(1) \o W(Oid) \o pgp_write_mpi(k.n) ELSE Fail
write_pubkey_body(k) ==
    W(1) \o W(4) \o (CASE k.version \in {2, 3} -> W(2) [] k.version = 4 -> <<>> [] OTHER -> Fail) \o W(1)
      \o CASE k.alg = "DSA" -> Mpis(k, 4)
           [] k.alg \in Ecc -> ec_serialize_pubkey(k)
           [] k.alg \in Rsa -> Mpis(k, 2)
           [] k.alg = "ECDH" -> ec_serialize_pubkey(k) \o W(1) \o W(1) \o W(1) \o W(1)
           [] k.alg = "ELGAMAL" -> Mpis(k, 3)
           [] OTHER -> Fail
pgp_write_struct_pubkey(k) == Packet("public key", 1 + 4 + 1 + pubkey_length(k), write_pubkey_body(k))

pgp_write_secret_mpis(k) ==
    CASE k.alg \in Rsa -> Mpis(k, 4)
      [] k.alg \in Ecc \cup {"DSA", "ECDH", "ELGAMAL"} -> Mpis(k, 1)
      [] OTHER -> Fail

pgp_push_enc_crypt == Push("crypt")
pgp_writer_push_hash == Push("hash")
pgp_writer_push_sum16 == Push("sum16")

\* The secret numbers pass a hash on their way to the cipher.  (Mutant: what was
\* pushed is not counted.)
UnderNone(n, prog) == prog
UnderWriters(n, prog) == Under(n, prog)
S2kKnown(k) == k.spec \in {"simple", "salted", "iterated"}
write_protected_seckey_body(k) ==
    IF k.usage # 254 \/ ~S2kKnown(k) THEN Fail
    ELSE W(1) \o W(1) \o W(1) \o If(k.spec # "simple", Try("rng") \o W(8)) \o If(k.spec = "iterated", W(1))
           \o Try("s2k") \o Try("rng") \o W(BlockSize) \o Try("cipher") \o pgp_push_enc_crypt
           \o UnderWriters(1, Try("hash") \o pgp_writer_push_hash) \o UnderWriters(2, pgp_write_secret_mpis(k)) \o Pop
           \o UnderWriters(1, W(Checkhash)) \o Pop
write_seckey_body(k) ==
    write_pubkey_body(k) \o W(1)
      \o CASE k.usage = 0 -> pgp_writer_push_sum16 \o Under(1, pgp_write_secret_mpis(k)) \o Pop \o W(2)
           [] k.usage = 254 -> write_protected_seckey_body(k)
           [] OTHER -> Fail

SeckeyLength(k) ==
    7 + seckey_length(k) + (IF k.usage = 254 THEN Checkhash ELSE 2)
      + (IF k.usage = 0 THEN 0
         ELSE 2 + (CASE k.spec = "simple" -> 1 [] k.spec = "salted" -> 9 [] OTHER -> 10) + BlockSize)
pgp_write_struct_seckey(k) ==
    IF k.version # 4 \/ k.usage \notin {0, 254, 255} \/ (k.usage # 0 /\ ~S2kKnown(k)) THEN Fail
    ELSE Packet("secret key", SeckeyLength(k), write_seckey_body(k))

pgp_write_struct_userid(len) == Packet("user id", len, W(len))
pgp_write_one_pass_sig == Packet("one pass", 13, W(1) \o W(1) \o W(1) \o W(1) \o W(8) \o W(1))
pgp_write_litdata(doc) ==
    IF doc.name > MaxName THEN Fail
    ELSE Packet("literal", 1 + 1 + doc.name + 4 + doc.len,
                W(1) \o W(1) \o If(doc.name > 0, W(doc.name)) \o W(4) \o W(doc.len))

\* A compressed packet with n bytes that deflate or bzip2 made.
pgp_writez(n) == Packet("compressed", 1 + n, W(1) \o W(n))

\* A session key.  After a failure SM2 and ECDH return one without its number, which
\* pgp_write_pk_sesskey refuses to write: the operation ends there as well.
pgp_create_pk_sesskey(k) ==
    IF k.alg \notin {"RSA", "ELGAMAL", "ECDH", "SM2"} THEN Fail
    ELSE Try("memory") \o Try("keyid") \o Try("rng") \o Try("checksum")
           \o If(k.alg = "ECDH", Try("fingerprint") \o Try("number")) \o Try("encrypt")
pgp_write_pk_sesskey(k) ==
    LET head == W(1) \o W(8) \o W(1)
    IN  CASE k.alg \in {"RSA", "SM2"} -> Packet("session key", 1 + 8 + 1 + mpi_length(k), head \o Mpis(k, 1))
          [] k.alg = "ELGAMAL" -> Packet("session key", 1 + 8 + 1 + 2 * mpi_length(k), head \o Mpis(k, 2))
          [] k.alg = "ECDH" -> Packet("session key", 1 + 8 + 1 + mpi_length(k) + 1 + 48, head \o Mpis(k, 1) \o W(1) \o W(48))
          [] OTHER -> Fail

Preamble == BlockSize + 2
Mdc == 1 + 1 + 20
pgp_write_se_ip_pktset(len) ==
    Packet("encrypted", 1 + Preamble + len + Mdc,
           W(1) \o Try("rng") \o Try("memory") \o Ignored(pgp_push_enc_crypt) \o W(Preamble) \o W(len) \o W(Mdc) \o Pop)

\* What the packet of a function announces, what it writes, and its bytes with the header.
Announced(prog) == FoldLeft(LAMBDA a, s : IF s.op = "length" THEN s.n ELSE a, 0, prog)
Written(prog) == FoldLeft(LAMBDA a, s : IF s.op = "write" THEN a + s.n ELSE a, 0, prog)
LengthBytes(n) == IF n < 192 THEN 1 ELSE IF n < 8384 THEN 2 ELSE 5
StepBytes(s) == CASE s.op = "tag" -> 1 [] s.op = "length" -> LengthBytes(s.n) [] s.op = "write" -> s.n [] OTHER -> 0
Bytes(prog) == FoldLeft(LAMBDA a, s : a + StepBytes(s), 0, prog)
\* What is in memory when one of its writes fails.
CutShort(prog) == {Bytes(SubSeq(prog, 1, i - 1)) : i \in {j \in DOMAIN prog : prog[j].op \in {"tag", "length", "write"}}}

-----------------------------------------------------------------------------
(* writer.c: writers that are pushed.                                      *)
Armor(n) == One("write", n, "armor header")
pgp_writer_push_armored(clear) ==
    Try("armor memory") \o (IF clear THEN Pop \o Armor(2) \o Armor(31) \o Armor(15) ELSE Each(Armor(29) \o Armor(2)))
      \o Push("linebreak") \o Try("armor memory") \o Push("base64")
pgp_writer_push_clearsigned == Try("memory") \o Armor(42) \o Armor(4) \o Armor(4) \o Try("memory") \o Push("dash")

\* (Mutant: a result that matters is ignored.)
SessionKeyUnchecked(k) == pgp_create_pk_sesskey(k) \o Ignored(pgp_write_pk_sesskey(k)) \o Try("memory") \o Try("cipher")
SessionKey(k) == pgp_create_pk_sesskey(k) \o pgp_write_pk_sesskey(k) \o Try("memory") \o Try("cipher")
pgp_push_stream_enc_se_ip(k) == Try("memory") \o SessionKey(k) \o Try("memory") \o Try("memory") \o Ignored(Push("stream"))
pgp_push_enc_se_ip(k, len) ==
    IF len >= MaxPart THEN pgp_push_stream_enc_se_ip(k) ELSE Try("memory") \o SessionKey(k) \o Push("se_ip")

\* Keys as they are kept, armored or not.
write_matching_packets(k) == One("write", k.n, "key") \o One("write", k.n, "key") \o One("packet", 0, "key")
pgp_write_xfer_key(k, armor) ==
    If(armor, Ignored(pgp_writer_push_armored(FALSE))) \o write_matching_packets(k)
      \o If(armor, Each(One("finalise", 0, "export")) \o Pop)

-----------------------------------------------------------------------------
(* signature.c: a signature is put together in memory.                     *)
Sig(n) == One("sig", n, "signature")
Hash(what) == One("hash", 0, what)
\* Without memory for it (or, in pgp_sig_start, for its output) nothing is put together:
\* nobody is told, and the next write to the signature uses a null pointer.  (The step stands
\* last: what is written in front of it is then in no signature.)
start_sig_in_mem ==
    Each(Sig(1) \o Sig(1) \o Sig(1) \o Sig(1)) \o One("hashoff", 0, "") \o Each(Sig(2)) \o Each(One("sigmem", 0, "null"))

\* What is hashed first, by the one who signs and by the one who checks.
hash_add_key(key) == <<"0x99", key>>
HashKey(key) == Try("memory") \o [i \in DOMAIN hash_add_key(key) |-> Step("hash", 0, hash_add_key(key)[i])]
SigNew(first) == One("signew", 0, "") \o first \o start_sig_in_mem
pgp_sig_start_key_sig == SigNew(Try("memory") \o HashKey("primary") \o Hash("0xb4") \o Hash("userid"))
\* (Mutant: the subkey is hashed first.)
StartSubkeyFirst == SigNew(Try("memory") \o HashKey("subkey") \o HashKey("primary"))
pgp_sig_start_subkey_sig == SigNew(Try("memory") \o HashKey("primary") \o HashKey("subkey"))
pgp_sig_start == SigNew(<<>>)
pgp_check_useridcert_sig == hash_add_key("primary") \o <<"0xb4", "userid">>
pgp_check_subkey_sig == hash_add_key("primary") \o hash_add_key("subkey")

Subpacket(n) == Sig(2) \o Sig(n)
pgp_sig_add_time == Subpacket(4)
pgp_sig_add_issuer_keyid == Subpacket(8)
pgp_sig_add_key_flags == Subpacket(1)
pgp_sig_add_primary_userid == Each(Subpacket(1))
pgp_sig_add_prefs(n) == If(n > 0, Subpacket(n))
pgp_sig_end_hashed_subpkts == One("hashlen", 0, "") \o Sig(2)

\* The signature of a hash of hash bytes.
SigMpis(k, count) == Times(count, Sig(2) \o Sig(k.n))
rsa_sign(k) == Each(Sig(2)) \o Try("sign") \o Each(SigMpis(k, 1))
dsa_sign(k, hash) == IF hash # 20 THEN Fail ELSE Each(Sig(2)) \o Each(SigMpis(k, 2))
ecdsa_sign(k, hash) == IF ~k.curve \/ 32 - 2 > hash THEN Fail ELSE Sig(2) \o Try("sign") \o SigMpis(k, 2)
eddsa_sign(k) == Each(Sig(2)) \o Try("sign") \o Each(SigMpis(k, 2))
Sign(k, hash) ==
    CASE k.alg \in Rsa -> rsa_sign(k)
      [] k.alg = "DSA" -> dsa_sign(k, hash)
      [] k.alg = "EDDSA" -> eddsa_sign(k)
      [] k.alg \in {"SM2", "ECDH", "ECDSA"} -> ecdsa_sign(k, hash)
      [] OTHER -> Fail
pgp_sig_write(k, hash) ==
    IF ~k.secret \/ k.alg = "ELGAMAL" THEN Fail
    ELSE One("unhashed", 0, "") \o Hash("fields") \o Hash("trailer") \o Sign(k, hash)
           \o One("tag", 1, "") \o One("siglength", 0, "") \o One("sigbody", 0, "") \o One("packet", 0, "signature")

pgp_write_selfsig_cert(k, hash) ==
    Try("rng") \o Try("keyid") \o Try("memory") \o pgp_sig_start_key_sig \o pgp_sig_add_time \o pgp_sig_add_time
      \o pgp_sig_add_key_flags \o pgp_sig_add_primary_userid \o pgp_sig_add_prefs(4) \o pgp_sig_add_prefs(5)
      \o pgp_sig_add_issuer_keyid \o pgp_sig_end_hashed_subpkts \o pgp_sig_write(k, hash)
pgp_write_selfsig_binding(k, hash) ==
    Try("rng") \o Try("keyid") \o Try("memory") \o pgp_sig_start_subkey_sig \o pgp_sig_add_time \o pgp_sig_add_time
      \o pgp_sig_add_key_flags \o pgp_sig_add_issuer_keyid \o pgp_sig_end_hashed_subpkts \o pgp_sig_write(k, hash)
=============================================================================
