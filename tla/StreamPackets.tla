---------------------------- MODULE StreamPackets ----------------------------
(***************************************************************************)
(* stream-packet.c: the lengths of packets, the packets that the streams   *)
(* write (session keys, one-pass signatures) and those they parse (the     *)
(* same, and signatures).  A packet is a record of what its bytes say: the *)
(* contents of strings are left out, their lengths are not.                *)
(***************************************************************************)
EXTENDS Integers, Sequences, SequencesExt

PGP_MPINT_BITS == 16384
PGP_MAX_KEY_SIZE == 32
ECDH_WRAPPED_KEY_SIZE == 48
PGP_SALT_SIZE == 8
PGP_KEY_ID_SIZE == 8

-----------------------------------------------------------------------------
(* Lengths, byte by byte.                                                  *)
Byte(n, i) == (n \div 256 ^ i) % 256
BigEndian(b) == FoldLeft(LAMBDA n, x : n * 256 + x, 0, b)

write_packet_len(len) ==
    IF len < 192 THEN <<len>>
    ELSE IF len < 8192 + 192 THEN <<(len - 192) \div 256 + 192, (len - 192) % 256>>
    ELSE <<255, Byte(len, 3), Byte(len, 2), Byte(len, 1), Byte(len, 0)>>

\* A tag is [new, lentype]: lentype counts the bytes of an old length, 0 is an indeterminate one.
\* The lengths that stream_read_pkt_len understands; -1: none.  read: how many bytes it takes
\* behind the tag, whether it succeeds or not.
NewLen(b) ==
    CASE b[1] < 192 -> [len |-> b[1], read |-> 1]
      [] b[1] \in 192 .. 223 -> IF Len(b) < 2 THEN [len |-> -1, read |-> 1]
                                ELSE [len |-> (b[1] - 192) * 256 + b[2] + 192, read |-> 2]
      [] b[1] \in 224 .. 254 -> [len |-> -1, read |-> 1]
      [] OTHER -> IF Len(b) < 5 THEN [len |-> -1, read |-> Len(b)]
                  ELSE [len |-> BigEndian(SubSeq(b, 2, 5)), read |-> 5]
OldLen(b, n) ==
    IF n = 0 THEN [len |-> -1, read |-> 1]
    ELSE IF Len(b) < n THEN [len |-> -1, read |-> Len(b)]
    ELSE [len |-> BigEndian(SubSeq(b, 1, n)), read |-> n]
stream_read_pkt_len(tag, b) ==
    IF b = <<>> THEN [len |-> -1, read |-> 0] ELSE IF tag.new THEN NewLen(b) ELSE OldLen(b, tag.lentype)

\* What stream_pkt_hdr_len says of the same bytes, the tag included.
stream_pkt_hdr_len(tag, b) ==
    CASE b = <<>> -> -1
      [] ~tag.new -> 1 + tag.lentype
      [] b[1] \in 192 .. 223 -> 3
      [] b[1] = 255 -> 6
      [] OTHER -> 2

-----------------------------------------------------------------------------
(* Packets that are written: the buffer grows by what is added.            *)
init_packet_body == [len |-> 0, allocated |-> 16]
add_packet_body(body, n) ==
    [len |-> body.len + n,
     allocated |-> IF body.len + n > body.allocated THEN (body.len + n) * 2 ELSE body.allocated]
add_packet_body_byte(body) ==
    IF body.len < body.allocated THEN [body EXCEPT !.len = @ + 1] ELSE add_packet_body(body, 1)
MpiBytes(m) == (m.bits + 7) \div 8
add_packet_body_mpi(body, m) == add_packet_body(add_packet_body(body, 2), MpiBytes(m))
add_bytes(body, n) == FoldLeft(LAMBDA b, i : add_packet_body_byte(b), body, [i \in 1 .. n |-> i])
add_mpis(body, ms) == FoldLeft(add_packet_body_mpi, body, ms)

SaltLen(spec) == CASE spec = "simple" -> 0 [] spec = "salted" -> PGP_SALT_SIZE [] OTHER -> PGP_SALT_SIZE + 1
stream_write_sk_sesskey(p) ==
    LET fixed == add_bytes(init_packet_body, 4)
        salt  == IF p.spec = "simple" THEN fixed ELSE add_packet_body(fixed, PGP_SALT_SIZE)
        iter  == IF p.spec = "iterated" THEN add_packet_body_byte(salt) ELSE salt
    IN  IF p.key > 0 THEN add_packet_body(iter, p.key) ELSE iter

\* The numbers of an encrypted session key, by algorithm.
PkMpis(alg) == IF alg \in {"ElGamal", "ElGamal-ES"} THEN 2 ELSE 1
Writable == {"RSA", "RSA-E", "SM2", "ECDH", "ElGamal", "ElGamal-ES"}
stream_write_pk_sesskey(p) ==
    LET fixed == add_packet_body_byte(add_packet_body(add_packet_body_byte(init_packet_body), PGP_KEY_ID_SIZE))
        mpis  == add_mpis(fixed, SubSeq(p.mpis, 1, PkMpis(p.alg)))
    IN  IF p.alg = "ECDH" THEN add_packet_body(add_packet_body_byte(mpis), p.wrapped) ELSE mpis

stream_write_one_pass ==
    add_packet_body_byte(add_packet_body(add_bytes(init_packet_body, 4), PGP_KEY_ID_SIZE))

-----------------------------------------------------------------------------
(* Packets that are parsed.  s: where the parser is, behind the header;    *)
(* end: where the packet ends; avail: where the data ends; res: "ok",      *)
(* "read" or "format"; over: a number began where the packet ended.        *)
Start(len, avail) == [pos |-> 0, end |-> len, avail |-> avail, res |-> "ok", over |-> FALSE]
Left(s) == s.end - s.pos
Check(s, holds) == IF s.res = "ok" /\ ~holds THEN [s EXCEPT !.res = "format"] ELSE s
Read(s, n) ==
    IF s.res # "ok" THEN s
    ELSE IF s.pos + n <= s.avail THEN [s EXCEPT !.pos = @ + n]
    ELSE [s EXCEPT !.pos = s.avail, !.res = "read"]
Field(s, n) == Read(Check(s, Left(s) >= n), n)

\* A limit of 0 means none, and so does one that has passed below 0.  Every failure is a
\* format error to the callers.
MpiBounded(s, m, limit) ==
    Check(Read(Check(Read(Check(s, limit <= 0 \/ limit >= 2), 2),
                     m.bits \in 1 .. PGP_MPINT_BITS /\ (limit <= 0 \/ MpiBytes(m) <= limit - 2)), MpiBytes(m)), m.exact)
AsFormat(s) == IF s.res = "read" THEN [s EXCEPT !.res = "format"] ELSE s
ReadMpiUnbounded(s, m) == IF s.res # "ok" THEN s ELSE AsFormat(MpiBounded(s, m, 0))
stream_read_mpi(s, m) ==
    IF s.res # "ok" THEN s ELSE [AsFormat(MpiBounded(s, m, Left(s))) EXCEPT !.over = s.over \/ Left(s) <= 0]
Mpis(s, ms) == FoldLeft(stream_read_mpi, s, ms)

stream_parse_sk_sesskey(p, s) ==
    LET fixed == Check(Field(s, 4), p.version = 4)
        known == Check(fixed, p.spec \in {"simple", "salted", "iterated"})
        salt  == IF p.spec = "simple" THEN known ELSE Field(known, PGP_SALT_SIZE)
        iter  == IF p.spec = "iterated" THEN Field(salt, 1) ELSE salt
    IN  IF Left(iter) > 0 THEN Read(Check(iter, Left(iter) <= PGP_MAX_KEY_SIZE + 1), Left(iter)) ELSE iter

Parsable == {"RSA", "ElGamal", "SM2", "ECDH"}
stream_parse_pk_sesskey(p, s) ==
    LET fixed == Check(Field(s, 10), p.version = 3)
        first == Check(stream_read_mpi(fixed, p.mpis[1]), p.alg \in Parsable)
        ecdh(t) == IF t.res # "ok" THEN t
                   ELSE IF Left(t) < 1 THEN [t EXCEPT !.res = "read"]
                   ELSE LET size == Read(t, 1)
                        IN  Read(Check(size, p.wrapped <= ECDH_WRAPPED_KEY_SIZE /\ Left(size) >= p.wrapped), p.wrapped)
        all   == CASE p.alg = "ECDH" -> ecdh(first)
                   [] p.alg = "ElGamal" -> stream_read_mpi(first, p.mpis[2])
                   [] OTHER -> first
    IN  Check(all, Left(all) <= 0)

stream_parse_one_pass(p, s) ==
    IF s.end # 13
    THEN [s EXCEPT !.pos = IF s.avail < s.end THEN s.avail ELSE s.end,
                   !.res = IF s.avail < s.end THEN "read" ELSE "format"]
    ELSE Check(Read(s, 13), p.version = 3)

-----------------------------------------------------------------------------
(* Signatures.  A subpacket is [type, critical, len, fits, value]; fits:   *)
(* the two lengths in a notation add up.                                   *)
KnownTypes ==
    {"creation", "expiration", "key expiry", "exportable", "trust", "regexp", "revocable", "preferred", "revocation key",
     "issuer", "notation", "keyserver prefs", "keyserver", "primary", "policy", "flags", "signer", "reason", "features",
     "target", "embedded", "fingerprint"}
oklen(sub) ==
    CASE sub.type \in {"creation", "expiration", "key expiry"} -> sub.len = 4
      [] sub.type \in {"exportable", "revocable", "primary"} -> sub.len = 1
      [] sub.type = "trust" -> sub.len = 2
      [] sub.type = "revocation key" -> sub.len = 22
      [] sub.type = "issuer" -> sub.len = 8
      [] sub.type = "notation" -> sub.len >= 8 /\ sub.fits
      [] sub.type \in {"keyserver prefs", "flags", "reason", "features"} -> sub.len >= 1
      [] sub.type = "target" -> sub.len >= 18
      [] sub.type = "fingerprint" -> sub.len >= 21
      [] OTHER -> TRUE
signature_parse_subpacket(sub, hashed) ==
    IF sub.type \notin KnownTypes THEN ~sub.critical
    ELSE oklen(sub) /\ (sub.type = "creation" => hashed)

SubLenBytes(splen) == IF splen < 192 THEN 1 ELSE IF splen < 63 * 256 + 192 THEN 2 ELSE 5
\* The area of len bytes; every subpacket up to the first one that does not fit is kept, but
\* one without a type (len = -1) is left out.
signature_parse_subpackets(subs, len, hashed) ==
    FoldLeft(LAMBDA a, sub :
        LET bytes == SubLenBytes(sub.len + 1)
        IN  IF ~a.ok \/ a.left = 0 THEN a
            ELSE IF a.left < 2 \/ a.left < bytes THEN [a EXCEPT !.ok = FALSE]
            ELSE IF sub.len + 1 = 0 THEN [a EXCEPT !.left = @ - bytes]
            ELSE IF a.left - bytes < sub.len + 1 THEN [a EXCEPT !.ok = FALSE]
            ELSE [ok |-> signature_parse_subpacket(sub, hashed), left |-> a.left - bytes - sub.len - 1,
                  kept |-> Append(a.kept, [type |-> sub.type, value |-> sub.value, hashed |-> hashed,
                                           parsed |-> sub.type \in KnownTypes])],
        [ok |-> TRUE, left |-> len, kept |-> <<>>], subs)
AreaLen(subs) == FoldLeft(LAMBDA n, sub : n + SubLenBytes(sub.len + 1) + sub.len + 1, 0, subs)

\* 16 bytes: the length 5, the type and the time that are hashed, the issuer, the algorithms.
signature_read_v3(p, s) == Check(Field(s, 16), p.fixed = 5)
signature_read_v4(p, s) ==
    LET fixed  == Field(s, 5)
        hashed == Read(Check(fixed, Left(fixed) >= p.hashedlen + 2), p.hashedlen)
        first  == Check(hashed, signature_parse_subpackets(p.hashed, p.hashedlen, TRUE).ok)
        size   == Read(first, 2)
        second == Read(Check(size, Left(size) >= p.unhashedlen), p.unhashedlen)
    IN  Check(second, signature_parse_subpackets(p.unhashed, p.unhashedlen, FALSE).ok)

SigMpis(alg) == CASE alg = "RSA" -> 1 [] alg \in {"DSA", "EdDSA", "ECDSA", "SM2", "ECDH", "ElGamal-ES"} -> 2 [] OTHER -> 0
Material(p, s) ==
    IF s.res # "ok" \/ Left(s) < 2 THEN s
    ELSE Check(Mpis(Read(s, 2), SubSeq(p.mpis, 1, SigMpis(p.alg))), SigMpis(p.alg) > 0)
\* A packet that is refused is skipped; behind its end the number of bytes to skip has wrapped
\* around, there is no memory for them, and nothing is skipped.
Skipped(s) ==
    IF s.res # "format" \/ s.pos > s.end THEN s
    ELSE [s EXCEPT !.pos = IF s.end <= s.avail THEN s.end ELSE s.avail]
stream_parse_signature(p, s) ==
    IF s.end < 1 THEN [s EXCEPT !.res = "format"]
    ELSE LET ver == Read(s, 1)
         IN  IF ver.res = "read" THEN ver
             ELSE Skipped(Material(p, IF p.version \in {2, 3} THEN signature_read_v3(p, ver)
                                      ELSE IF p.version = 4 THEN signature_read_v4(p, ver)
                                      ELSE Check(ver, FALSE)))

\* What is asked of a signature that was parsed.
Subpackets(p) == signature_parse_subpackets(p.hashed, p.hashedlen, TRUE).kept
                   \o signature_parse_subpackets(p.unhashed, p.unhashedlen, FALSE).kept
None == [type |-> "none", value |-> 0, hashed |-> FALSE, parsed |-> FALSE]
signature_get_subpkt(p, type) ==
    IF p.version < 4 THEN None
    ELSE LET found == SelectSeq(Subpackets(p), LAMBDA sub : sub.type = type)
         IN  IF found = <<>> \/ ~found[1].parsed THEN None ELSE found[1]
signature_get_creation(p) == IF p.version < 4 THEN p.time ELSE signature_get_subpkt(p, "creation").value
signature_get_expiration(p) == signature_get_subpkt(p, "expiration").value

-----------------------------------------------------------------------------
(* A packet of any kind.                                                   *)
Parse(p, s) ==
    CASE p.kind = "sk" -> stream_parse_sk_sesskey(p, s)
      [] p.kind = "pk" -> stream_parse_pk_sesskey(p, s)
      [] p.kind = "onepass" -> stream_parse_one_pass(p, s)
      [] OTHER -> stream_parse_signature(p, s)
Written(p) ==
    CASE p.kind = "sk" -> stream_write_sk_sesskey(p)
      [] p.kind = "pk" -> stream_write_pk_sesskey(p)
      [] OTHER -> stream_write_one_pass
=============================================================================
