----------------------------- MODULE StreamWrite -----------------------------
(***************************************************************************)
(* Encryption to a stream (stream-write.c), from the calls that name the   *)
(* recipients (rnp2.c, rnp.c) to the close of the output, and what a       *)
(* reader finds in it.  Destinations are stacked: each write goes through  *)
(* the cache of a destination into the one below it.  Bytes are tokens     *)
(* [k, v, key, z]: what they are, the key that hides them, whether they    *)
(* are compressed.                                                         *)
(***************************************************************************)
EXTENDS StreamPackets, FiniteSets

CONSTANTS
    Cache, Part, ZCache,  \* sizes: of a destination's cache, of a part, of the buffer for compressed data
    ReadBuf, MaxName,     \* what is read at once, what is kept of a file name
    Lengths, Rooms,       \* of the data; of the output
    Names,                \* lengths of file names
    Recipients,           \* [who, known, usable, alg]: found by the key provider; it or a subkey encrypts
    MaxNamed,             \* bound: recipients and passwords
    MaxFaults,            \* bound: failures of memory, random numbers, the input, the compressor
    Requests,             \* sizes of a reader's cache, which is what it asks for at a time
    Forms,                \* of lengths: -1: new, 1, 2, 4: bytes of an old one, 0: indeterminate
    Given, Announced      \* packets to parse, [.., natural, written]; lengths they announce besides those near the natural one

ASSUME StreamWriteAssumption ==
    /\ Cache \in Nat /\ ZCache \in Nat \ {0} /\ ReadBuf \in Nat \ {0} /\ MaxName \in Nat
    /\ \E i \in 0 .. 30 : Part = 2 ^ i /\ Part <= Cache

VARIABLES
    pc,        \* what comes next
    op,        \* rnp_op_encrypt_t: api, armor, cipher, zalg, zlevel, name, recips, passes, input, size
    named,     \* history: who was named with success, whose password was not set up
    lost,      \* history: the passwords whose packet was not written
    chain,     \* the destinations, from the output upwards
    src,       \* what is left of the data
    result,    \* of rnp_encrypt_src: "none", "ok" or "failed"
    kept,      \* whether the output was kept
    late,      \* history: the close of the output failed
    faults,
    parsed     \* a given packet, and what the parser made of it
vars == <<pc, op, named, lost, chain, src, result, kept, late, faults, parsed>>

-----------------------------------------------------------------------------
(* Destinations.                                                           *)
Tok(k, v) == [k |-> k, v |-> v, key |-> "none", z |-> FALSE]
Is(t, k, v) == t.k = k /\ t.v = v
Seal(toks, key) == [i \in DOMAIN toks |-> [toks[i] EXCEPT !.key = key]]
Zipped(toks) == [i \in DOMAIN toks |-> [toks[i] EXCEPT !.z = TRUE]]
Chop(toks, n) == [i \in 1 .. (Len(toks) + n - 1) \div n |-> SubSeq(toks, (i - 1) * n + 1, IF i * n < Len(toks) THEN i * n ELSE Len(toks))]

\* cache and no_cache, werr, finished, the result of finish; a part; the key and the hash; the
\* data inside the compressor, its buffer, whether it is eager and whether it fails; the output and its room.
Dest(kind) ==
    [kind |-> kind, cache |-> <<>>, no_cache |-> FALSE, werr |-> FALSE, fin |-> FALSE, res |-> "ok", late |-> FALSE,
     part |-> <<>>, key |-> "none", hash |-> <<>>, zin |-> <<>>, zout |-> <<>>, eager |-> FALSE, zfail |-> FALSE,
     sink |-> <<>>, room |-> 0]
Result(bad) == IF bad THEN "failed" ELSE "ok"

RECURSIVE WriteTo(_, _, _), WriteAll(_, _, _), Finish(_, _)

WriteAll(c, i, writes) == IF writes = <<>> THEN c ELSE WriteAll(WriteTo(c, i, Head(writes)), i, Tail(writes))

\* The results of the writes below are not looked at.
PartsForgotten(c, i, toks) ==
    LET n == Len(toks) \div Part
    IN  IF Len(toks) <= Part THEN [c EXCEPT ![i].part = toks]
        ELSE WriteAll([c EXCEPT ![i].part = <<>>], i - 1,
                      [j \in 1 .. 2 * n |-> IF j % 2 = 1 THEN <<Tok("part", Part)>>
                                            ELSE SubSeq(toks, (j \div 2 - 1) * Part + 1, (j \div 2) * Part)])
PartsOf(c, i, toks) ==
    LET n == Len(toks) \div Part
    IN  IF Len(toks) <= Part THEN [c EXCEPT ![i].part = toks]
        ELSE WriteAll([c EXCEPT ![i].part = SubSeq(toks, n * Part + 1, Len(toks))], i - 1,
                      [j \in 1 .. 2 * n |-> IF j % 2 = 1 THEN <<Tok("part", Part)>>
                                            ELSE SubSeq(toks, (j \div 2 - 1) * Part + 1, (j \div 2) * Part)])
partial_dst_write(c, i, toks) == PartsOf(c, i, c[i].part \o toks)

encrypted_dst_write(c, i, toks) ==
    WriteAll([c EXCEPT ![i].hash = @ \o toks], i - 1, Chop(Seal(toks, c[i].key), Cache))

\* Full buffers go down, the rest stays; a compressor may keep everything until it has to give it.
ZWrites(c, i, toks) ==
    LET n == Len(toks) \div ZCache
    IN  WriteAll([c EXCEPT ![i].zout = SubSeq(toks, n * ZCache + 1, Len(toks)), ![i].zin = <<>>], i - 1,
                 Chop(SubSeq(toks, 1, n * ZCache), ZCache))
compressed_dst_write(c, i, toks) ==
    IF c[i].zfail THEN [c EXCEPT ![i].werr = TRUE]
    ELSE IF c[i].eager THEN ZWrites(c, i, c[i].zout \o Zipped(c[i].zin \o toks))
    ELSE [c EXCEPT ![i].zin = @ \o toks]

literal_dst_write(c, i, toks) == WriteTo(c, i - 1, toks)
armored_dst_write(c, i, toks) == WriteTo(c, i - 1, toks)
output_write(c, i, toks) ==
    IF Len(c[i].sink) + Len(toks) > c[i].room THEN [c EXCEPT ![i].werr = TRUE] ELSE [c EXCEPT ![i].sink = @ \o toks]

Write(c, i, toks) ==
    CASE c[i].kind = "partial" -> partial_dst_write(c, i, toks)
      [] c[i].kind = "encrypted" -> encrypted_dst_write(c, i, toks)
      [] c[i].kind = "compressed" -> compressed_dst_write(c, i, toks)
      [] c[i].kind = "literal" -> literal_dst_write(c, i, toks)
      [] c[i].kind = "armored" -> armored_dst_write(c, i, toks)
      [] OTHER -> output_write(c, i, toks)

Store(c, i, toks) ==
    IF c[i].werr THEN c
    ELSE IF c[i].no_cache \/ Len(toks) > Cache THEN Write(c, i, toks)
    ELSE [c EXCEPT ![i].cache = @ \o toks]
\* dst_write
Filled(c, i, toks, n) ==
    Store(Write([c EXCEPT ![i].cache = <<>>], i, c[i].cache \o SubSeq(toks, 1, n)), i, SubSeq(toks, n + 1, Len(toks)))
Entered(c, i, toks) ==
    IF toks = <<>> \/ c[i].werr THEN c
    ELSE IF c[i].cache # <<>> /\ Len(c[i].cache) + Len(toks) > Cache THEN Filled(c, i, toks, Cache - Len(c[i].cache))
    ELSE Store(c, i, toks)
WriteTo(c, i, toks) == Entered(IF toks # <<>> /\ c[i].fin THEN [c EXCEPT ![i].late = TRUE] ELSE c, i, toks)

Flush(c, i) ==
    IF c[i].cache = <<>> \/ c[i].werr THEN c ELSE Write([c EXCEPT ![i].cache = <<>>], i, c[i].cache)

\* The finish of the part stream below is the finish of the packet.
finish_streamed_packet(c, i) == [c EXCEPT ![i].res = c[i - 1].res]
ResultBelow(c, i) == [c EXCEPT ![i].res = Result(c[i - 1].werr)]
FinishBlind(c, i) == WriteAll(c, i - 1, <<<<Tok("len", Len(c[i].part))>>, c[i].part>>)
partial_dst_finish(c, i) == ResultBelow(WriteAll(c, i - 1, <<<<Tok("len", Len(c[i].part))>>, c[i].part>>), i)
encrypted_dst_finish(c, i) ==
    finish_streamed_packet(Finish(WriteTo(c, i - 1, Seal(<<Tok("mdc", c[i].hash)>>, c[i].key)), i - 1), i)
compressed_dst_finish(c, i) ==
    IF c[i].zfail THEN [c EXCEPT ![i].res = "failed"]
    ELSE LET Rest(d) == WriteTo([d EXCEPT ![i].zout = <<>>], i - 1, d[i].zout)
             End(d) == IF d[i - 1].werr THEN [d EXCEPT ![i].res = "failed"] ELSE finish_streamed_packet(Finish(d, i - 1), i)
         IN  End(Rest(ZWrites(c, i, c[i].zout \o Zipped(c[i].zin \o <<Tok("zend", 0)>>))))
literal_dst_finish(c, i) == finish_streamed_packet(Finish(c, i - 1), i)
armored_dst_finish(c, i) == ResultBelow(WriteTo(c, i - 1, <<Tok("crc", 0)>>), i)

HandlerFinish(c, i) ==
    CASE c[i].kind = "partial" -> partial_dst_finish(c, i)
      [] c[i].kind = "encrypted" -> encrypted_dst_finish(c, i)
      [] c[i].kind = "compressed" -> compressed_dst_finish(c, i)
      [] c[i].kind = "literal" -> literal_dst_finish(c, i)
      [] c[i].kind = "armored" -> armored_dst_finish(c, i)
      [] OTHER -> c
\* dst_finish
Finished(c, i) == [c EXCEPT ![i].fin = TRUE]
Finish(c, i) == Finished(HandlerFinish(Flush(c, i), i), i)

\* dst_close of the destination on top, and of the stream of parts below it.
Streamed == {"encrypted", "compressed", "literal"}
FinishedIf(c, i, discard) == IF discard \/ c[i].fin THEN c ELSE Finish(c, i)
Below(c) == SubSeq(c, 1, Len(c) - 1)
dst_close(c, discard) == Below(FinishedIf(c, Len(c), discard))
close_streamed_packet(c, discard) == dst_close(c, discard)
CloseTop(c, discard) ==
    IF c[Len(c)].kind \in Streamed THEN close_streamed_packet(dst_close(c, discard), discard) ELSE dst_close(c, discard)

\* init_streamed_packet: the tag, then the stream of parts, then the destination that uses it.
init_streamed_packet(c, tag) == Append(WriteTo(c, Len(c), <<Tok("tag", tag)>>), Dest("partial"))
Atop(c, dest, toks) == Append(WriteTo(c, Len(c), toks), dest)

-----------------------------------------------------------------------------
(* The calls that prepare an encryption.                                   *)
Passwords == {"pw1", "pw2"}
NoParse == [kind |-> "none"]
Init ==
    /\ \/ pc = "setup" /\ parsed = NoParse
       \/ pc = "given" /\ parsed \in Given
    /\ op \in [api : IF pc = "setup" THEN {"ffi", "cli"} ELSE {"ffi"}, armor : {FALSE}, cipher : {TRUE}, zalg : {"none"}, zlevel : {0},
               name : {0}, recips : {<<>>}, passes : {<<>>}, input : {TRUE},
               size : IF pc = "setup" THEN Lengths ELSE {0}]
    /\ src = op.size
    /\ chain \in {<<[Dest("output") EXCEPT !.room = r]>> : r \in IF pc = "setup" THEN Rooms ELSE {0}}
    /\ named = [all |-> {}, unset |-> {}] /\ lost = {} /\ result = "none" /\ kept = FALSE /\ late = FALSE /\ faults = 0

Faulty == IF faults < MaxFaults THEN BOOLEAN ELSE {FALSE}
Fault(f) == faults' = IF f THEN faults + 1 ELSE faults
NamedNow == Len(op.recips) + Len(op.passes)
SetupUnchanged == UNCHANGED <<pc, lost, chain, src, result, kept, late, parsed>>

\* Keys can be given by their user id only.
rnp_op_encrypt_add_recipient ==
    /\ pc = "setup" /\ NamedNow < MaxNamed
    /\ \E r \in Recipients :
        /\ r.who \notin named.all
        /\ op' = [op EXCEPT !.recips = Append(@, r)] /\ named' = [named EXCEPT !.all = @ \cup {r.who}]
    /\ UNCHANGED faults /\ SetupUnchanged

\* rnp_encrypt_set_pass_info: no salt, or no key; what is not set is 0.
PassInfos(who) ==
    [ok |-> [who |-> who, key |-> who, cipher |-> TRUE],
     rng |-> [who |-> who, key |-> "zero", cipher |-> FALSE],
     derive |-> [who |-> who, key |-> "zero", cipher |-> TRUE]]
rnp_encrypt_set_pass_info(who) == IF faults < MaxFaults THEN {"ok", "rng", "derive"} ELSE {"ok"}

\* The FFI appends what it has and reports success.
rnp_op_encrypt_add_password ==
    /\ pc = "setup" /\ op.api = "ffi" /\ NamedNow < MaxNamed
    /\ \E who \in Passwords \ named.all : \E how \in rnp_encrypt_set_pass_info(who) :
        /\ op' = [op EXCEPT !.passes = Append(@, PassInfos(who)[how])]
        /\ named' = [all |-> named.all \cup {who}, unset |-> IF how = "ok" THEN named.unset ELSE named.unset \cup {who}]
        /\ Fault(how # "ok")
    /\ SetupUnchanged

rnp_encrypt_add_password ==
    /\ pc = "setup" /\ op.api = "cli" /\ NamedNow < MaxNamed
    /\ \E who \in Passwords \ named.all : \E how \in rnp_encrypt_set_pass_info(who) :
        /\ op' = IF how = "ok" THEN [op EXCEPT !.passes = Append(@, PassInfos(who)[how])] ELSE op
        /\ named' = IF how = "ok" THEN [named EXCEPT !.all = @ \cup {who}] ELSE named
        /\ Fault(how # "ok")
    /\ SetupUnchanged

rnp_op_encrypt_set_armor ==
    /\ pc = "setup" /\ ~op.armor /\ op' = [op EXCEPT !.armor = TRUE]
    /\ UNCHANGED <<named, faults>> /\ SetupUnchanged
rnp_op_encrypt_set_cipher ==
    /\ pc = "setup" /\ op.cipher /\ op' = [op EXCEPT !.cipher = FALSE]
    /\ UNCHANGED <<named, faults>> /\ SetupUnchanged
rnp_op_encrypt_set_compression ==
    /\ pc = "setup" /\ op.zlevel = 0
    /\ \E alg \in {"none", "lazy", "eager"} : op' = [op EXCEPT !.zalg = alg, !.zlevel = 6]
    /\ UNCHANGED <<named, faults>> /\ SetupUnchanged
SetFileName ==
    /\ pc = "setup" /\ op.api = "cli" /\ op.name = 0 /\ \E n \in Names : op' = [op EXCEPT !.name = n]
    /\ UNCHANGED <<named, faults>> /\ SetupUnchanged

\* An operation can be executed once: afterwards it has no input and no output.
rnp_op_encrypt_execute ==
    /\ pc \in {"setup", "done"} /\ parsed = NoParse
    /\ IF op.input THEN pc' = (IF op.armor THEN "armor" ELSE "encrypt") /\ op' = [op EXCEPT !.input = FALSE]
       ELSE UNCHANGED <<pc, op>>
    /\ UNCHANGED <<named, lost, chain, src, result, kept, late, faults, parsed>>
\* The output can be destroyed without.
rnp_output_destroy == 
    /\ pc = "setup" /\ pc' = "output" /\ op' = [op EXCEPT !.input = FALSE]
    /\ UNCHANGED <<named, lost, chain, src, result, kept, late, faults, parsed>>

-----------------------------------------------------------------------------
(* rnp_encrypt_src.                                                        *)
Fails == pc' = "close" /\ result' = "failed"

\* no_cache of an armored destination is never set.
init_armored_dst ==
    /\ pc = "armor"
    /\ \E f \in Faulty, no_cache \in BOOLEAN :
        /\ Fault(f)
        /\ IF f THEN Fails /\ UNCHANGED chain
           ELSE /\ pc' = "encrypt" /\ UNCHANGED result
                /\ chain' = Atop(chain, [Dest("armored") EXCEPT !.no_cache = no_cache], <<Tok("armor", 0)>>)
    /\ UNCHANGED <<op, named, lost, src, kept, late, parsed>>

SingleByRecipients(o) == o.recips = <<>>
singlepass(o) == o.recips = <<>> /\ Len(o.passes) <= 1
SessionKey(o) == IF ~singlepass(o) THEN "random" ELSE IF o.passes = <<>> THEN "zero" ELSE o.passes[Len(o.passes)].key

Encryptable(r) == r.known /\ r.usable /\ r.alg \in Writable
encrypted_add_recipient(o, r) == Tok("pk", [who |-> r.who, alg |-> r.alg, opens |-> SessionKey(o)])
\* opens: what the password gives a reader, who derives a key of its own.
encrypted_add_password(o, p) ==
    Tok("sk", [who |-> p.who, alg |-> "none", opens |-> IF p.key = "zero" THEN "other" ELSE IF singlepass(o) THEN p.key ELSE SessionKey(o)])
PasswordFails(o, p) == ~singlepass(o) /\ ~p.cipher
Reached(o) == {i \in DOMAIN o.recips : \A j \in 1 .. i : Encryptable(o.recips[j])}
KeyPackets(o, skip) ==
    [i \in 1 .. Cardinality(Reached(o)) |-> encrypted_add_recipient(o, o.recips[i])]
      \o (IF Cardinality(Reached(o)) < Len(o.recips) THEN <<>>
          ELSE LET written == SelectSeq(o.passes, LAMBDA p : p.who # skip /\ ~PasswordFails(o, p))
               IN  [i \in DOMAIN written |-> encrypted_add_password(o, written[i])])
\* The destination: the version is not encrypted, the prefix is hashed and encrypted.
Encrypting(c, key) ==
    Atop(WriteTo(c, Len(c), <<Tok("version", 1)>>),
         [Dest("encrypted") EXCEPT !.key = key, !.hash = <<Tok("prefix", 0)>>],
         Seal(<<Tok("prefix", 0)>>, key))

\* f: which step fails.  Only the stream of parts is dangerous: closing it is a crash.
init_encrypted_dst ==
    /\ pc = "encrypt"
    /\ \E f \in {"none", "password"} \cup (IF faults < MaxFaults THEN {"early", "packet", "start"} ELSE {}) :
       \E skip \in IF f = "password" THEN (IF faults < MaxFaults THEN {op.passes[i].who : i \in DOMAIN op.passes} ELSE {}) ELSE {"none"} :
        /\ Fault(f # "none")
        /\ LET sent == WriteAll(chain, Len(chain), Chop(KeyPackets(op, skip), 1))
               bad  == ~op.cipher \/ f = "early" \/ \E i \in DOMAIN op.recips : ~Encryptable(op.recips[i])
           IN  /\ pc' = (IF bad \/ f = "start" THEN "close" ELSE IF f = "packet" THEN "crashed"
                         ELSE IF op.zlevel > 0 THEN "compress" ELSE "literal")
               /\ result' = IF bad \/ f = "start" THEN "failed" ELSE result
               /\ chain' = CASE ~op.cipher \/ f = "early" -> chain
                             [] bad \/ f = "packet" -> sent
                             [] f = "start" -> Below(init_streamed_packet(sent, 18))
                             [] OTHER -> Encrypting(init_streamed_packet(sent, 18), SessionKey(op))
        /\ op' = IF ~op.cipher \/ f = "early" THEN op ELSE [op EXCEPT !.passes = <<>>]
        /\ lost' = {op.passes[i].who : i \in {j \in DOMAIN op.passes : op.passes[j].who = skip \/ PasswordFails(op, op.passes[j])}}
    /\ UNCHANGED <<named, src, kept, late, parsed>>

init_compressed_dst ==
    /\ pc = "compress"
    /\ \E f \in {"none"} \cup (IF faults < MaxFaults THEN {"early", "packet", "zlib"} ELSE {}) :
        /\ Fault(f # "none")
        /\ CASE f = "early" -> Fails /\ UNCHANGED chain
             [] f = "packet" -> pc' = "crashed" /\ UNCHANGED <<result, chain>>
             [] f = "zlib" \/ (f = "none" /\ op.zalg = "none") -> Fails /\ chain' = Below(init_streamed_packet(chain, 8))
             [] OTHER -> /\ pc' = "literal" /\ UNCHANGED result
                         /\ chain' = Atop(init_streamed_packet(chain, 8), [Dest("compressed") EXCEPT !.eager = op.zalg = "eager"],
                                          <<Tok("alg", 0)>>)
    /\ UNCHANGED <<op, named, lost, src, kept, late, parsed>>

NameLen == IF op.name > MaxName THEN MaxName ELSE op.name
init_literal_dst ==
    /\ pc = "literal"
    /\ \E f \in {"none"} \cup (IF faults < MaxFaults THEN {"early", "packet"} ELSE {}) :
        /\ Fault(f # "none")
        /\ CASE f = "early" -> Fails /\ UNCHANGED chain
             [] f = "packet" -> pc' = "crashed" /\ UNCHANGED <<result, chain>>
             [] OTHER -> /\ pc' = "copy" /\ UNCHANGED result
                         /\ chain' = LET c == init_streamed_packet(chain, 11)
                                     IN  Append(WriteAll(c, Len(c), <<<<Tok("format", 0), Tok("namelen", NameLen)>>,
                                                                      [i \in 1 .. NameLen |-> Tok("name", i)], <<Tok("time", 0)>>>>),
                                                Dest("literal"))
    /\ UNCHANGED <<op, named, lost, src, kept, late, parsed>>

\* The data is numbered downwards.
Data(n) == [i \in 1 .. n |-> Tok("byte", n - i + 1)]
ZFailing(c, f) == [i \in DOMAIN c |-> IF f /\ c[i].kind = "compressed" THEN [c[i] EXCEPT !.zfail = TRUE] ELSE c[i]]
Dests(c) == {i \in DOMAIN c : c[i].kind \notin {"partial", "output"}}
CopyBlock ==
    /\ pc = "copy" /\ src > 0
    /\ \E n \in {1, IF src < ReadBuf THEN src ELSE ReadBuf}, f \in Faulty :
        /\ Fault(f)
        /\ f => op.zlevel > 0
        /\ \E c \in {WriteTo(ZFailing(chain, f), Len(chain), SubSeq(Data(src), 1, n))} :
            /\ chain' = c
            /\ IF \E i \in Dests(c) : c[i].werr THEN Fails ELSE UNCHANGED <<pc, result>>
        /\ src' = src - n
    /\ UNCHANGED <<op, named, lost, kept, late, parsed>>
CopyFails ==
    /\ pc = "copy" /\ faults < MaxFaults /\ Fault(TRUE) /\ Fails
    /\ UNCHANGED <<op, named, lost, chain, src, kept, late, parsed>>
CopyEnds ==
    /\ pc = "copy" /\ src = 0 /\ pc' = "finish"
    /\ UNCHANGED <<op, named, lost, chain, src, result, kept, late, faults, parsed>>

\* From the top downwards.
LowestFirst(c) == LET open == {i \in Dests(c) : ~c[i].fin} IN IF open = {} THEN 0 ELSE CHOOSE i \in open : \A j \in open : i <= j
NextToFinish(c) == LET open == {i \in Dests(c) : ~c[i].fin} IN IF open = {} THEN 0 ELSE CHOOSE i \in open : \A j \in open : i >= j
FinishNext ==
    /\ pc = "finish" /\ NextToFinish(chain) > 0
    /\ \E c \in {Finish(chain, NextToFinish(chain))} :
        /\ chain' = c
        /\ IF c[NextToFinish(chain)].res = "ok" THEN UNCHANGED <<pc, result>> ELSE Fails
    /\ UNCHANGED <<op, named, lost, src, kept, late, faults, parsed>>
FinishEnds ==
    /\ pc = "finish" /\ NextToFinish(chain) = 0 /\ pc' = "close" /\ result' = "ok"
    /\ UNCHANGED <<op, named, lost, chain, src, kept, late, faults, parsed>>
CloseNext ==
    /\ pc = "close" /\ Len(chain) > 1 /\ chain' = CloseTop(chain, result # "ok")
    /\ UNCHANGED <<pc, op, named, lost, src, result, kept, late, faults, parsed>>
EncryptReturns ==
    /\ pc = "close" /\ Len(chain) = 1 /\ pc' = "output"
    /\ UNCHANGED <<op, named, lost, chain, src, result, kept, late, faults, parsed>>

\* rnp_encrypt_stream and rnp_output_destroy close the output, and keep it after a success only.
OutputClosed ==
    /\ pc = "output" /\ pc' = "done" /\ kept' = (result = "ok")
    /\ \E c \in {FinishedIf(chain, 1, result # "ok")} : chain' = c /\ late' = (~chain[1].werr /\ c[1].werr)
    /\ UNCHANGED <<op, named, lost, src, result, faults, parsed>>

\* A packet, from its tag to its end, with a length of one form or another, right or not, and data behind it or missing.
OldBytes(len, n) == [i \in 1 .. n |-> Byte(len, n - i)]
ParsePacket ==
    /\ pc = "given" /\ pc' = "parsed"
    /\ \E len \in {n \in Announced \cup {parsed.natural + d : d \in -4 .. 1} : n >= 0}, more \in {-1, 0, 400}, lentype \in Forms :
        /\ \E tag \in {[new |-> lentype = -1, lentype |-> lentype]},
              bytes \in {IF lentype = -1 THEN write_packet_len(len) ELSE IF lentype = 0 THEN <<0>> ELSE OldBytes(len, lentype)} :
           \E hdr \in {stream_read_pkt_len(tag, bytes)} :
            /\ lentype \in {1, 2} => len < 256 ^ lentype
            /\ parsed' = parsed @@ [tag |-> tag, bytes |-> bytes, len |-> len, avail |-> len + more, hdr |-> hdr,
                                    s |-> IF hdr.len < 0 THEN [Start(0, 0) EXCEPT !.res = "read"]
                                          ELSE Parse(parsed, Start(hdr.len, len + more))]
    /\ UNCHANGED <<op, named, lost, chain, src, result, kept, late, faults>>

Stops == pc \in {"done", "crashed", "parsed"} /\ UNCHANGED vars

Next ==
    \/ rnp_op_encrypt_add_recipient \/ rnp_op_encrypt_add_password \/ rnp_encrypt_add_password \/ rnp_op_encrypt_set_armor
    \/ rnp_op_encrypt_set_cipher \/ rnp_op_encrypt_set_compression \/ SetFileName \/ rnp_op_encrypt_execute \/ rnp_output_destroy
    \/ init_armored_dst \/ init_encrypted_dst \/ init_compressed_dst \/ init_literal_dst \/ CopyBlock \/ CopyFails \/ CopyEnds
    \/ FinishNext \/ FinishEnds \/ CloseNext \/ EncryptReturns \/ OutputClosed \/ ParsePacket \/ Stops
Spec == Init /\ [][Next]_vars

-----------------------------------------------------------------------------
(* A reader of the output, who asks for n bytes at a time.                 *)
RECURSIVE partial_pkt_src_read(_, _), ReadParts(_, _)
Drop(toks, n) == SubSeq(toks, n + 1, Len(toks))
Least(a, b) == IF a < b THEN a ELSE b

\* The source ends inside a part: what was read is returned.  It ends in front of one: an error.
NextPart(r, head) ==
    [r EXCEPT !.toks = Drop(r.toks, 1), !.pleft = head.v, !.last = head.k = "len", !.err = head.k \notin {"part", "len"}]
TakePart(r, n) == [r EXCEPT !.toks = Drop(r.toks, n), !.pleft = @ - n, !.got = @ \o SubSeq(r.toks, 1, n)]
partial_pkt_src_read(r, n) ==
    IF n = 0 \/ r.err \/ (r.pleft = 0 /\ r.last) \/ (r.pleft > 0 /\ r.toks = <<>>) THEN r
    ELSE IF r.pleft = 0 THEN IF r.toks = <<>> THEN [r EXCEPT !.err = TRUE] ELSE partial_pkt_src_read(NextPart(r, r.toks[1]), n)
    ELSE LET m == Least(Least(r.pleft, n), Len(r.toks)) IN partial_pkt_src_read(TakePart(r, m), n - m)
ReadOn(r, s, n) == IF s.err \/ Len(s.got) = Len(r.got) THEN s ELSE ReadParts(s, n)
ReadParts(r, n) == ReadOn(r, partial_pkt_src_read(r, n), n)

\* init_packet_params: parts, or one length that the source below bounds.
Refused == [ok |-> FALSE, data |-> <<>>]
Packet(toks, tag, n) ==
    IF Len(toks) < 2 \/ ~Is(toks[1], "tag", tag) THEN Refused
    ELSE IF toks[2].k = "part"
    THEN LET r == ReadParts([toks |-> Drop(toks, 2), pleft |-> toks[2].v, last |-> FALSE, got |-> <<>>, err |-> FALSE], n)
         IN  [ok |-> ~r.err, data |-> r.got]
    ELSE [ok |-> toks[2].k = "len", data |-> Drop(toks, 2)]
Inside(p, Unwrap(_)) == IF p.ok THEN Unwrap(p.data) ELSE Refused

LiteralData(d) ==
    IF Len(d) < 2 \/ Len(d) < 3 + d[2].v \/ d[1].k # "format" \/ d[3 + d[2].v].k # "time" THEN Refused
    ELSE [ok |-> TRUE, data |-> Drop(d, 3 + d[2].v)]
Unzipped(d) ==
    IF Len(d) < 2 \/ d[1].k # "alg" \/ d[Len(d)].k # "zend" \/ \E i \in 2 .. Len(d) : ~d[i].z THEN Refused
    ELSE [ok |-> TRUE, data |-> [i \in 1 .. Len(d) - 2 |-> [d[i + 1] EXCEPT !.z = FALSE]]]
\* A wrong key gives a wrong prefix.  Behind the prefix encrypted_src_read reads n tokens at a time
\* until the packet inside has its m tokens; the code behind them is checked by a read that has
\* reached it, and data whose code was not checked is refused by encrypted_src_finish.
CodeReached(m, n) == LET reads == (m + n - 1) \div n IN reads * n > m
Decrypted(d, key, n) ==
    IF Len(d) < 3 \/ \E i \in 2 .. Len(d) : d[i].key # key THEN Refused
    ELSE LET plain == Seal(Drop(d, 1), "none")
             body  == SubSeq(plain, 1, Len(plain) - 1)
         IN  IF CodeReached(Len(body) - 1, n) /\ Is(plain[Len(plain)], "mdc", body)
             THEN [ok |-> TRUE, data |-> Drop(body, 1)] ELSE Refused
Inner(d, n) ==
    IF d # <<>> /\ Is(d[1], "tag", 8)
    THEN Inside(Inside(Packet(d, 8, n), Unzipped), LAMBDA z : Inside(Packet(z, 11, n), LiteralData))
    ELSE Inside(Packet(d, 11, n), LiteralData)
Dearmored(toks) ==
    IF ~op.armor THEN [ok |-> TRUE, data |-> toks]
    ELSE IF Len(toks) >= 2 /\ toks[1].k = "armor" /\ toks[Len(toks)].k = "crc"
    THEN [ok |-> TRUE, data |-> SubSeq(toks, 2, Len(toks) - 1)] ELSE Refused

\* All the packets with keys are parsed, and one of them opens for who.
Keys(toks) == {i \in DOMAIN toks : toks[i].k \in {"pk", "sk"}}
Opening(toks, who, n) ==
    LET mine == {i \in Keys(toks) : toks[i].v.who = who}
    IN  IF mine = {} \/ \E i \in Keys(toks) : toks[i].k = "pk" /\ toks[i].v.alg \notin Parsable THEN Refused
        ELSE Inside(Inside(Packet(Drop(toks, Cardinality(Keys(toks))), 18, n),
                           LAMBDA d : Decrypted(d, toks[CHOOSE i \in mine : TRUE].v.opens, n)), LAMBDA d : Inner(d, n))
ReadAs(out, who, n) == Inside(Dearmored(out), LAMBDA toks : Opening(toks, who, n))

-----------------------------------------------------------------------------
(* What is shown.                                                          *)
Output == chain[1].sink
Good == pc = "done" /\ result = "ok" /\ ~late
OddKeys == {r \in {op.recips[i] : i \in DOMAIN op.recips} : r.alg \notin Parsable}

\* What is hidden between the prefix and the code fills a reader's cache a whole number of times.
Boundary(n) == (Cardinality({i \in DOMAIN Output : Output[i].key # "none"}) - 2) % n = 0

\* After an encryption that succeeded and whose output was closed without an error, everyone
\* who was named reads the data, with three exceptions: somebody's key has an algorithm that
\* stream_write_pk_sesskey writes and stream_parse_pk_sesskey refuses; the password's packet was
\* not written or its key not set up; what is encrypted has a length that ends where the reader's
\* cache does, which encrypted_src_read and encrypted_src_finish refuse.  Of an output that was
\* cut anywhere nobody reads anything but all of the data.  After a failure the output is not kept.
ReadBackOrRefused ==
    pc = "done" =>
        /\ kept = (result = "ok")
        /\ Good => \A who \in named.all \ (named.unset \cup lost), n \in Requests :
                     OddKeys = {} => ReadAs(Output, who, n) = IF Boundary(n) THEN Refused ELSE [ok |-> TRUE, data |-> Data(op.size)]
        /\ \A who \in named.all, n \in Requests, cut \in 0 .. Len(Output) :
             LET r == ReadAs(SubSeq(Output, 1, cut), who, n) IN r.ok => r.data = Data(op.size)

\* An error of any destination, the output included, up to the return of rnp_encrypt_src makes
\* it fail: the writes do not return errors, the finish of each destination collects them.
ErrorsSurface == result = "ok" /\ pc \in {"close", "output"} => \A i \in DOMAIN chain : ~chain[i].werr

\* No destination is written to after it was finished, since a destination writes down only
\* while it is open itself, and they are finished from the top.
NothingAfterFinish == \A i \in DOMAIN chain : ~chain[i].late

KeysIn(toks) == {toks[i].v.opens : i \in {j \in DOMAIN toks : toks[j].k \in {"pk", "sk"}}}
KeysGiven(c) == UNION {KeysIn(c[i].sink) \cup KeysIn(c[i].cache) : i \in DOMAIN c}

\* The data is encrypted with a key that every packet with a key gives, unless its password was
\* not set up; and that key is random or the password's own, never the zeros the buffer begins
\* with, unless nobody was named, or the only password was not set up.
KeyIsShared ==
    \A i \in DOMAIN chain : chain[i].kind = "encrypted" =>
        /\ chain[i].key = "zero" => named.all = {} \/ (named.unset # {} /\ Cardinality(named.all) = 1)
        /\ KeysGiven(chain) \subseteq {chain[i].key, "other"}
        /\ "other" \in KeysGiven(chain) => named.unset # {}

\* A packet that is parsed ends where its length says, or before that when it is a signature, or
\* behind it when a number begins exactly where it ends; a signature that is refused is skipped.
\* What is written is parsed again, but for two algorithms.  Lengths are read as they are written.
\* The creation time of a signature is always hashed, and its expiration is when one is hashed.
PacketsParsed ==
    pc = "parsed" =>
        /\ parsed.hdr.len >= 0 => parsed.hdr.len = parsed.len /\ stream_pkt_hdr_len(parsed.tag, parsed.bytes) = 1 + parsed.hdr.read
        /\ parsed.s.res = "ok" =>
             /\ parsed.s.pos = parsed.s.end \/ (parsed.kind = "sig" /\ parsed.s.pos < parsed.s.end) \/ parsed.s.over
             /\ parsed.s.pos <= parsed.avail
        /\ parsed.kind = "sig" /\ parsed.s.res = "format" /\ ~parsed.s.over /\ parsed.avail >= parsed.len => parsed.s.pos = parsed.s.end
        /\ parsed.written /\ parsed.hdr.len = parsed.natural /\ parsed.avail >= parsed.len =>
             /\ parsed.len = Written(parsed).len /\ Written(parsed).len <= Written(parsed).allocated
             /\ parsed.s.res = "ok" <=> (parsed.kind = "pk" => parsed.alg \in Parsable)
        /\ parsed.kind = "sig" /\ parsed.s.res = "ok" /\ parsed.version = 4 =>
             /\ signature_get_creation(parsed) # 0 => signature_get_subpkt(parsed, "creation").hashed
             /\ (\E i \in DOMAIN parsed.hashed : parsed.hashed[i].type = "expiration") =>
                  \E i \in DOMAIN parsed.hashed : parsed.hashed[i].value = signature_get_expiration(parsed)
=============================================================================
