--------------------------- MODULE EncryptedSource ---------------------------
(***************************************************************************)
(* The decrypting source of stream-parse.c under the sources that read     *)
(* from it: encrypted_src_read and encrypted_src_finish, called through    *)
(* src_read and src_peek of stream-common.c by a literal, a compressed or  *)
(* a signed source.                                                        *)
(*                                                                         *)
(* A message has n bytes of plaintext and, if it is integrity protected, a *)
(* modification detection code of MdcSize bytes behind them.  Byte j of    *)
(* the encrypted body is represented by j; decrypting it yields j if the   *)
(* cipher stream is at j and the byte is undamaged, and Garbage otherwise. *)
(* The packet's own source is taken to deliver what is asked for, up to    *)
(* the end of its data, or to fail (StreamSource shows that it does).      *)
(***************************************************************************)
EXTENDS Integers, Sequences

CONSTANTS
    CacheSize,  \* PGP_INPUT_CACHE_SIZE
    MdcSize,    \* MDC_V1_SIZE
    Header,     \* bytes of the inner packet's header, read before its body
    MaxPlain,   \* bound: the longest plaintext
    MaxExtra,   \* bound: bytes appended to a message
    MaxRetry    \* bound: reads of a signed source after one that failed

ASSUME EncryptedAssumption ==
    /\ {CacheSize, MdcSize, Header} \subseteq Nat \ {0}
    /\ {MaxPlain, MaxExtra, MaxRetry} \subseteq Nat
    /\ CacheSize % 2 = 0
    /\ 2 * Header < CacheSize /\ 2 * MdcSize < CacheSize

VARIABLES
    n,        \* length of the plaintext the message was made from
    total,    \* length of the encrypted body that is there to be read
    damaged,  \* offset of an altered byte, or NoByte
    known,    \* src->knownsize: neither partial nor indeterminate length
    has_mdc,  \* param->has_mdc
    consumer, \* the type of the source that reads from this one
    upos,     \* position in the body (param->pkt.readsrc)
    dpos,     \* bytes that went through the cipher
    ended,    \* pgp_cipher_finish and pgp_hash_finish were called
    hashed,   \* what was added to param->mdc
    mdc_validated,
    cache,    \* src->cache->buf from pos to len
    readb, eof,
    op,       \* "idle", or the function whose loop is running
    want,     \* its local len
    ra,       \* its local readahead
    out,      \* the bytes it has put into the caller's buffer
    ret,      \* what the last call returned
    got,      \* all bytes handed to the consumer
    phase,    \* "reading", "stopped" (the consumer reads no more), "finished"
    failed,   \* the consumer stopped because of an error
    retries,  \* reads after that
    iofail,   \* the body's source has failed once
    result    \* what encrypted_src_finish returned

msgVars  == <<n, total, damaged, known, has_mdc, consumer>>
decVars  == <<upos, dpos, ended, hashed, mdc_validated>>
srcVars  == <<cache, readb, eof>>
callVars == <<op, want, ra, out, ret>>
conVars  == <<got, phase, failed, retries, result>>
vars == <<msgVars, decVars, srcVars, callVars, conVars, iofail>>

NoByte  == -1
Garbage == -2

\* sizeof(param->in) of a compressed source
Chunk == CacheSize \div 2

\* The bytes from offset a up to and without offset b.
Bytes(a, b) == [i \in 1 .. b - a |-> a + i - 1]
Least(a, b) == IF a < b THEN a ELSE b

\* src->size: the length of the body as it was made, the code included
size == n + (IF has_mdc THEN MdcSize ELSE 0)

Intact == damaged = NoByte /\ total = size

-----------------------------------------------------------------------------
Init ==
    /\ n \in Header .. MaxPlain
    /\ has_mdc \in BOOLEAN /\ known \in BOOLEAN
    /\ consumer \in {"literal", "compressed", "signed"}
    /\ total \in 0 .. n + MdcSize + MaxExtra
    /\ damaged \in {NoByte} \cup 0 .. total - 1
    /\ damaged # NoByte => total = size   \* one thing that is wrong at a time
    /\ upos = 0 /\ dpos = 0 /\ ended = FALSE /\ hashed = <<>> /\ mdc_validated = FALSE
    /\ cache = <<>> /\ readb = 0 /\ eof = FALSE
    /\ op = "idle" /\ want = 0 /\ ra = TRUE /\ out = <<>> /\ ret = 0
    /\ got = <<>> /\ phase = "reading" /\ failed = FALSE /\ retries = 0 /\ result = "none"
    /\ iofail = FALSE

-----------------------------------------------------------------------------
\* pgp_cipher_cfb_decrypt at position p of the cipher stream
Decrypt(s, p) ==
    [i \in DOMAIN s |-> IF s[i] = p + i - 1 /\ s[i] # damaged THEN s[i] ELSE Garbage]

\* Fewer bytes than the code has are left behind the ones read.
CodeReached(peeked) == peeked < MdcSize

\* What was read and what is left cannot hold the code.
NoRoom(peeked, read) == peeked + read < MdcSize

\* How many of the bytes read belong to the code.
MdcSub(peeked) == MdcSize - peeked

\* The header of the code and the hash in it are right.
MdcHeaderMatches(code, h) == code = Bytes(n, n + MdcSize)
MdcMatches(code, h) == code = Bytes(n, n + MdcSize) /\ h = Bytes(0, n)

\* What encrypted_src_read(src, buf, len) can do: the value it returns, the
\* bytes it puts into buf and the state it leaves.  In the order of the code:
\* the body's source fails or is at its end; there is no detection code, or at
\* least MdcSize bytes are behind the ones read; the rest is too short to hold
\* the code; the code is complete, is decrypted behind the data and checked.
\* The bytes that were peeked at stay in the body's source.
encrypted_src_read(len) ==
    LET read   == Least(len, total - upos)
        after  == upos + read
        peeked == Least(MdcSize, total - after)
        sub    == MdcSub(peeked)
        all    == Decrypt(Bytes(upos, after), dpos)
        plain  == Decrypt(Bytes(upos, after - sub), dpos)
        code   == Decrypt(Bytes(after - sub, after + peeked), dpos + Len(plain))
        valid  == MdcMatches(code, hashed \o plain)
        fail   == [ret |-> -1, data |-> <<>>, upos |-> upos, dpos |-> dpos, ended |-> ended,
                   hashed |-> hashed, valid |-> mdc_validated, iofail |-> TRUE]
        lost   == [fail EXCEPT !.upos = after]
        answer ==
            IF read = 0 THEN [fail EXCEPT !.ret = 0, !.iofail = iofail]
            ELSE IF ~has_mdc \/ ~CodeReached(peeked)
            THEN [lost EXCEPT !.ret = read, !.data = all, !.dpos = dpos + read, !.iofail = iofail,
                              !.hashed = IF has_mdc THEN hashed \o all ELSE hashed]
            ELSE IF NoRoom(peeked, read) THEN [lost EXCEPT !.iofail = iofail]
            ELSE [ret    |-> IF valid THEN Len(plain) ELSE -1,
                  data   |-> IF valid THEN plain ELSE <<>>,
                  upos   |-> after, dpos |-> dpos + Len(plain) + MdcSize, ended |-> TRUE,
                  hashed |-> hashed \o plain, valid |-> mdc_validated \/ valid, iofail |-> iofail]
    IN  {fail, lost, answer}

\* src->read(src, ...) came back with x.
Took(x) ==
    /\ upos' = x.upos /\ dpos' = x.dpos /\ ended' = x.ended /\ hashed' = x.hashed
    /\ mdc_validated' = x.valid /\ iofail' = x.iofail

-----------------------------------------------------------------------------
\* src_read returns data: the bytes become the consumer's.
ReadReturns(data, cached, end) ==
    /\ op' = "idle" /\ out' = <<>> /\ ret' = Len(data)
    /\ got' = got \o data
    /\ cache' = cached
    /\ readb' = readb + Len(data)
    /\ eof' = (end \/ (known /\ readb + Len(data) = size))

\* A call returns -1; what it had put into the caller's buffer is lost.
Fails == op' = "idle" /\ out' = <<>> /\ ret' = -1 /\ UNCHANGED <<readb, eof, got>>

Clipped(len) == known /\ readb + len > size
ClippedRead(len) == IF Clipped(len) THEN size - readb ELSE len

\* Entry of src_read: clip the request, serve it from the cache if it has
\* enough, else start with what it has.
src_read(len) ==
    LET l == ClippedRead(len) IN
    /\ op = "idle"
    /\ want' = l /\ ra' = ~Clipped(len)
    /\ \/ eof /\ ReadReturns(<<>>, cache, TRUE)
       \/ /\ ~eof /\ Len(cache) >= l
          /\ ReadReturns(SubSeq(cache, 1, l), SubSeq(cache, l + 1, Len(cache)), FALSE)
       \/ /\ ~eof /\ Len(cache) < l
          /\ op' = "read" /\ out' = cache /\ cache' = <<>>
          /\ UNCHANGED <<ret, got, readb, eof>>
    /\ UNCHANGED <<msgVars, decVars, phase, failed, result, iofail>>

\* What src_read keeps in the cache of the data it has put there, after the
\* caller got the first left bytes.
RestOffByOne(data, left) == SubSeq(data, left + 2, Len(data))
Rest(data, left) == SubSeq(data, left + 1, Len(data))

\* src->read gave nothing: the source is at its end.
EndedNever(r) == FALSE
Ended(r) == r = 0

\* One iteration of the loop of src_read: into the caller's buffer if the
\* request was clipped or is larger than the cache, else through the cache.
src_read_loop ==
    LET left == want - Len(out) IN
    /\ op = "read"
    /\ \E x \in encrypted_src_read(IF left > CacheSize \/ ~ra THEN left ELSE CacheSize) :
        /\ Took(x)
        /\ \/ x.ret < 0 /\ Fails /\ UNCHANGED cache
           \/ Ended(x.ret) /\ ReadReturns(out, <<>>, TRUE)
           \/ /\ x.ret >= 0 /\ ~Ended(x.ret) /\ x.ret < left
              /\ out' = out \o x.data
              /\ UNCHANGED <<op, ret, got, srcVars>>
           \/ /\ x.ret >= left
              /\ ReadReturns(out \o SubSeq(x.data, 1, left), Rest(x.data, left), FALSE)
    /\ UNCHANGED <<msgVars, want, ra, phase, failed, retries, result>>

\* Entry of src_peek: the next len bytes are in the cache, or it is filled.
src_peek(len) ==
    LET l == ClippedRead(len) IN
    /\ op = "idle"
    /\ want' = l /\ ra' = ~Clipped(len)
    /\ \/ (eof \/ Len(cache) >= l) /\ ret' = (IF eof THEN 0 ELSE l) /\ UNCHANGED op
       \/ ~eof /\ Len(cache) < l /\ op' = "peek" /\ UNCHANGED ret
    /\ UNCHANGED <<msgVars, decVars, srcVars, out, conVars, iofail>>

\* One iteration of the loop of src_peek.
src_peek_loop ==
    /\ op = "peek"
    /\ \E x \in encrypted_src_read(IF ra THEN CacheSize - Len(cache) ELSE want - Len(cache)) :
        /\ Took(x)
        /\ cache' = cache \o x.data
        /\ \/ x.ret <= 0
              /\ op' = "idle" /\ ret' = (IF x.ret = 0 THEN Len(cache) ELSE -1)
           \/ x.ret > 0 /\ Len(cache') >= want /\ op' = "idle" /\ ret' = want
           \/ x.ret > 0 /\ Len(cache') < want /\ UNCHANGED <<op, ret>>
    /\ UNCHANGED <<msgVars, readb, eof, want, ra, out, conVars>>

-----------------------------------------------------------------------------
\* The bytes of the plaintext the consumer has not got.
Missing == n - Len(got)

\* The consumer is being set up: it reads the header of its packet.
InHeader == Len(got) < Header

\* What the consumer asks for next.  A literal source knows its length, or the
\* lengths of its parts, and asks for any part of it; a compressed source fills
\* its input buffer; a signed source fills its cache.
Requests ==
    IF InHeader THEN {Header - Len(got)}
    ELSE IF consumer = "literal" THEN 1 .. Least(CacheSize, Missing)
    ELSE IF consumer = "compressed" THEN {Chunk}
    ELSE {CacheSize}

\* A read failed, or the end of the data came before the packet's header was
\* complete or before inflate met the end of its stream, which is the last byte
\* of the plaintext.  A literal source takes the end of the data for its own.
Starved ==
    \/ ret < 0
    \/ eof /\ InHeader
    \/ eof /\ consumer = "compressed" /\ Missing > 0

\* A literal source has its length, a compressed one the end of its stream, a
\* signed one looks for the end of the data behind the last signature.
Satisfied == eof \/ (consumer # "signed" /\ Missing <= 0)

\* The tag and the header of the inner packet are looked at before it is read.
ConsumerPeeks ==
    /\ phase = "reading" /\ got = <<>> /\ ~Starved
    /\ \E k \in 1 .. Header + 1 : src_peek(k)

ConsumerReads ==
    /\ phase = "reading" /\ ~Starved /\ ~Satisfied
    /\ \E len \in Requests : src_read(len)

\* After a failed read signed_src_finish still looks for signatures.
SignedReadsOn ==
    /\ phase = "stopped" /\ failed /\ consumer = "signed" /\ ~InHeader
    /\ retries < MaxRetry /\ retries' = retries + 1
    /\ src_read(CacheSize)

ConsumerStops ==
    /\ op = "idle" /\ phase = "reading" /\ (Starved \/ Satisfied)
    /\ phase' = "stopped" /\ failed' = Starved
    /\ UNCHANGED <<msgVars, decVars, srcVars, callVars, got, retries, result, iofail>>

\* Called once the sources are set up, even if reading them failed.
encrypted_src_finish ==
    /\ op = "idle" /\ phase = "stopped" /\ ~InHeader
    /\ phase' = "finished"
    /\ result' = IF has_mdc /\ ~mdc_validated THEN "bad_state" ELSE "success"
    /\ UNCHANGED <<msgVars, decVars, srcVars, callVars, got, failed, retries, iofail>>

Next ==
    \/ ConsumerPeeks
    \/ ConsumerReads /\ UNCHANGED retries
    \/ src_read_loop
    \/ src_peek_loop
    \/ ConsumerStops
    \/ SignedReadsOn
    \/ encrypted_src_finish

\* A running call goes on; nothing forces the body's source to fail.
Fairness == WF_vars((src_read_loop \/ src_peek_loop) /\ UNCHANGED iofail)

Spec == Init /\ [][Next]_vars /\ Fairness

-----------------------------------------------------------------------------
TypeOK ==
    /\ n \in Header .. MaxPlain /\ total \in 0 .. n + MdcSize + MaxExtra
    /\ upos \in 0 .. total /\ dpos \in 0 .. total + MdcSize
    /\ {ended, mdc_validated, eof, ra, failed, iofail, known, has_mdc} \subseteq BOOLEAN
    /\ Len(cache) \in 0 .. CacheSize /\ Len(out) \in 0 .. CacheSize
    /\ readb = Len(got) /\ want \in 0 .. CacheSize /\ ret \in -1 .. CacheSize
    /\ op \in {"idle", "read", "peek"} /\ phase \in {"reading", "stopped", "finished"}
    /\ retries \in 0 .. MaxRetry /\ result \in {"none", "success", "bad_state"}

\* The reads of a call that failed are lost; up to there nothing is.
Running == ret >= 0 /\ ~failed

\* What was handed out, is in the caller's buffer or in the cache is what the
\* hash of the detection code was computed over, byte by byte, whatever the
\* sizes of the requests and the state of the cache: nothing reaches the next
\* source that the code does not cover (encrypted_src_read hashes exactly what
\* it returns).
ReleasedIsHashed == (has_mdc /\ Running) => hashed = got \o out \o cache

\* No byte of the detection code is handed out as data, unless something was
\* appended to the message; the data come in order.
OnlyPlaintext ==
    /\ Running => \A i \in 1 .. Len(got) : got[i] \in {i - 1, Garbage}
    /\ total <= n + MdcSize /\ has_mdc => Len(hashed) <= n

\* encrypted_src_finish reports success for an integrity protected message only
\* if it is complete, nothing was altered or appended, and every byte of it was
\* hashed; a consumer that did not fail was given nothing but plaintext.
FinishIsSound ==
    (result = "success" /\ has_mdc) =>
        /\ Intact
        /\ hashed = Bytes(0, n)
        /\ ~failed => got = Bytes(0, Len(got))

\* What is released is sound: it is what the detection code covers, it is
\* plaintext in its order, and success is told only of an unaltered message.
ReleaseIsSound == TypeOK /\ ReleasedIsHashed /\ OnlyPlaintext /\ FinishIsSound

\* An unaltered message is accepted with all of its plaintext unless the length
\* of its body, modulo the size of the cache, lies in the range below: then
\* the cache is filled just before or within the detection code.
Unlucky ==
    /\ has_mdc
    /\ IF consumer = "literal" THEN total % CacheSize = MdcSize
       ELSE total % CacheSize \in 1 .. MdcSize - 1
Accepted == result = "success" /\ ~failed /\ got = Bytes(0, n)
MostAccepted == (phase = "finished" /\ Intact /\ ~iofail /\ ~Unlucky) => Accepted

\* "make sure there are always 20 bytes left on input": an unaltered message is
\* accepted whatever its length.
IntactAccepted == (phase = "finished" /\ Intact /\ ~iofail) => Accepted

\* Every src_read and src_peek returns.
CallsReturn == (op # "idle") ~> (op = "idle")
-----------------------------------------------------------------------------
(***************************************************************************)
(* The inductive invariant behind ReleaseIsSound.                          *)
(***************************************************************************)
\* All bytes that left the cipher for the consumer.
Stream == got \o out \o cache

BytesOK ==
    /\ {cache, out, got, hashed} \subseteq Seq(Int)
    /\ damaged \in {NoByte} \cup 0 .. total - 1
    /\ consumer \in {"literal", "compressed", "signed"}

\* Where the bytes of a running call are, and that it stays within the size.
Calls ==
    /\ op # "read" => out = <<>>
    /\ op = "read" => cache = <<>> /\ Len(out) < want /\ (known => readb + want <= size)
    /\ op = "peek" => Len(cache) < want
    /\ known => readb <= size
    /\ known /\ readb = size => eof

\* After an error only a signed source goes on, and it is known to have failed.
Phases ==
    /\ phase = "reading" => ~failed
    /\ (ret < 0 /\ ~failed) => op = "idle" /\ phase = "reading"
    /\ phase # "reading" /\ ~failed => op = "idle"
    /\ phase = "finished" => op = "idle"
    /\ result = "success" => phase = "finished" /\ (has_mdc => mdc_validated)

\* The cipher and the hash: they are not ahead of the body, the code is checked
\* once, and only an unaltered message passes.
Decoder ==
    /\ ended => has_mdc /\ total - upos < MdcSize
    /\ ~ended => dpos <= upos /\ Len(hashed) <= upos
    /\ \A i \in DOMAIN hashed : hashed[i] # damaged
    /\ mdc_validated => ended /\ Intact /\ hashed = Bytes(0, n)

\* Up to an error nothing is lost and everything is in its place.
InPlace ==
    Running =>
        /\ ~ended => Len(Stream) = upos /\ dpos = upos
        /\ \A i \in DOMAIN Stream : Stream[i] \in {i - 1, Garbage}

IInv ==
    /\ TypeOK /\ BytesOK /\ Calls /\ Phases /\ Decoder /\ InPlace /\ ReleasedIsHashed
    /\ total <= n + MdcSize /\ has_mdc => Len(hashed) <= n
-----------------------------------------------------------------------------
(***************************************************************************)
(* The inductive invariant behind MostAccepted, together with IInv.        *)
(***************************************************************************)
\* An unaltered message whose body could be read so far, and of a length that
\* is not in the range of Unlucky.
Readable == Intact /\ ~iofail /\ ~Unlucky

InOrder == \A i \in DOMAIN Stream : Stream[i] = i - 1

\* Reads are for as much as the cache holds, or for all the rest of the body.
Aligned(u) == u = total \/ \E q \in 0 .. total : u = CacheSize * q

\* Until the code was checked all of it is still to come.  It passed when it
\* was, behind all of the plaintext; only for a literal source, which does not
\* read on, bytes of the code are left in the body.
CodeIsWhole ==
    /\ ~ended => Aligned(upos) /\ (has_mdc => upos + MdcSize <= total)
    /\ ended => /\ mdc_validated /\ Len(Stream) = n
                /\ upos = total \/ (consumer = "literal" /\ CacheSize <= upos)

\* What a running call was asked for: a literal source never asks for more than
\* there is, and a request that was clipped is for all the rest of the body.
Asked ==
    /\ op = "read" => /\ ~ra => readb + want = size
                      /\ consumer = "literal" => want <= Missing
    /\ op = "peek" => /\ got = <<>> /\ want <= Header + 1 /\ (~ra => want = size)
                      /\ cache = <<>> \/ upos = total

\* A compressed source reads the header and then chunks, and so does not stop
\* where a full cache ends.
InChunks ==
    (consumer = "compressed" /\ has_mdc /\ ~ended) =>
        /\ got = <<>> \/ \E i \in 0 .. n : Len(got) = Header + Chunk * i
        /\ (op = "read" /\ ra) => want = IF got = <<>> THEN Header ELSE Chunk

\* The consumer stops with all of the plaintext, and the code was checked.
Complete ==
    /\ (eof \/ phase # "reading") => Len(got) = n /\ (has_mdc => ended)
    /\ phase = "finished" => result = "success"

Undisturbed == Running /\ InOrder /\ CodeIsWhole /\ Asked /\ InChunks /\ Complete

Smooth == Readable => Undisturbed
=============================================================================
