---------------------------- MODULE PacketParser ----------------------------
(***************************************************************************)
(* The older packet parser: repgp_parse and parse_packet of packet-parse.c *)
(* with the regions that bound its reads, the parsers of the packet types, *)
(* and the readers of reader.c that it pushes while it runs.               *)
(*                                                                         *)
(* A parser is the sequence of the steps it takes on the body of its       *)
(* packet; where the code branches on a value it has read, one of several  *)
(* sequences is chosen.  Sizes are scaled: the fields of a fixed size that *)
(* follow each other are one byte long.  Positions are relative: togo is   *)
(* the distance to the end of the packet, so that a stream of packets has  *)
(* no bound.  The input is in memory or mapped: it ends somewhere, but     *)
(* reading it does not fail.                                               *)
(***************************************************************************)
EXTENDS Integers, Sequences

CONSTANTS
    SkipBuf,   \* RNP_BUFSIZ, the buffer of limskip
    Chunk,     \* the buffer of encrypted_data_reader
    Lengths,   \* bound: the lengths of packets
    MaxSub,    \* bound: length of a subpacket and of a set of them
    MaxNested, \* bound: length of a packet within a packet
    MaxMpi,    \* bound: length of a number
    MaxDepth   \* bound: packets within packets

ASSUME ParserAssumption ==
    /\ {SkipBuf, Chunk, MaxMpi} \subseteq Nat \ {0}
    /\ {MaxSub, MaxNested, MaxDepth} \cup Lengths \subseteq Nat

VARIABLES
    pc,       \* "packet", "body" (a parser runs), "end", "give up", "stopped",
              \*   "undefined", "lost" (the model does not go on)
    prog,     \* the steps left of the running parser
    regs,     \* its regions, the packet's first, each the parent of the next
    ret,      \* what the parser returned
    failed,   \* history: the step at which it returned false, or "none"
    togo,     \* bytes from the position in the input to the end of the packet
    eof,      \* the input has ended
    virt,     \* bytes left of stream->virtualpkt
    dec,      \* the reader pushed by parse_seckey, decrypt_se_data
    sesskey,  \* stream->decrypt has a session key
    errors,   \* stream->errors is not empty
    stack,    \* the callers of a nested repgp_parse
    gap,      \* history: bytes of the last subpacket that were not read, and whether
              \*   subpackets of its type are to be ignored
    short     \* history: whether the input ended within the "body" of a packet, or while its
              \*   "parts" were put together
vars == <<pc, prog, regs, ret, failed, togo, eof, virt, dec, sesskey, errors, stack, gap,
          short>>

Least(a, b) == IF a < b THEN a ELSE b
NoReader == [on |-> FALSE, exact |-> FALSE, buf |-> 0]
NoGap == [bytes |-> 0, ignored |-> FALSE]
Region(l, ind) == [length |-> l, readc |-> 0, indeterminate |-> ind]
Packet == regs[1]
Cur == regs[Len(regs)]
Depth == Len(stack)

Init ==
    /\ pc = "packet" /\ prog = <<>> /\ regs = <<>> /\ ret = 1 /\ failed = "none" /\ togo = 0
    /\ eof = FALSE /\ virt = 0 /\ dec = NoReader /\ sesskey = FALSE /\ errors = FALSE
    /\ stack = <<>> /\ gap = NoGap /\ short = "no"

-----------------------------------------------------------------------------
(* The steps of the parsers. *)

F       == <<"read", 1>>   \* limread and limread_scalar of fields of a fixed size
Check   == <<"check">>     \* a value is accepted, or the parser returns false
Mpi     == <<"mpi">>
Data    == <<"data">>      \* read_data, read_unsig_str, read_string: all that is left
Exact   == <<"exact">>     \* region->readc = region->length, or an error
Set     == <<"set">>       \* parse_sig_subpkts
One(of) == <<"one of", of>>  \* one of several sequences, see Alternatives

\* The OID and its length, the point, and the curve that is looked up.
parse_ec_pubkey_data == <<F, Check, Mpi, Check>>

\* Versions 2 and 3 have the days of validity.  The numbers are those of DSA, RSA
\* and ElGamal (two stand for several), of ECDSA and the like, or of ECDH.
parse_pubkey_data(version) ==
    <<F, Check>> \o (IF version = "v3" THEN <<F>> ELSE <<>>) \o <<One("public numbers")>>
PubkeyNumbers == {<<Mpi, Mpi>>, parse_ec_pubkey_data, parse_ec_pubkey_data \o <<F, Check>>}

parse_pubkey == {parse_pubkey_data(v) \o <<Exact>> : v \in {"v3", "v4"}}

parse_userattr == {<<Data>>}
parse_userid   == {<<Data>>}
parse_trust    == {<<Data>>}

parse_v3_sig == <<F, Check, F, One("v3 signature"), Exact>>

\* Both sets of subpackets are read; then the numbers, or the data of a private
\* algorithm.
parse_v4_sig == <<F, Set, Set, F, One("v4 signature"), Exact>>
SigNumbers == {<<Mpi>>, <<Mpi, Mpi>>, <<Data>>}

parse_sig == {<<F>> \o s : s \in {<<Check>>, parse_v3_sig, parse_v4_sig}}

parse_one_pass == {<<F, Check, F>>}

\* Header, file name and time; the data are read in one piece.
parse_litdata == {<<F, F, Data>>}

parse_mdc == {<<F>>}

\* What protects a secret key, up to the initialisation vector.
SeckeyProtection == {<<F, Check, F>>, <<F, Check, F, Check, F>>}

\* The numbers of a secret key with the value that checks them.  A version 4 key
\* has this value encrypted too: the reader is popped behind it; for an older key
\* it is popped before.  A failing number ends the parser only after that.
SeckeyNumbers(crypted, version) ==
    LET push == IF crypted THEN <<<<"push", version>>>> ELSE <<>>
        pop  == IF crypted THEN <<<<"pop", version>>>> ELSE <<>>
        check == <<F, Check>>
    IN  {push \o secret \o (IF version = "v3" THEN pop \o check ELSE check \o pop) \o <<Exact>>
         : secret \in {<<<<"secret">>>>, <<<<"secret">>, <<"secret">>>>}}

\* Without a password the rest of the packet is consumed.
parse_seckey == {parse_pubkey_data(v) \o <<F, One(v)>> : v \in {"v3", "v4"}}
SeckeyBody(version) ==
    SeckeyNumbers(FALSE, version)
    \cup UNION {{p \o n : n \in SeckeyNumbers(TRUE, version) \cup {<<Data>>}} : p \in SeckeyProtection}

\* The session key is decrypted if there is a secret key for it.
parse_pk_sesskey == {<<F, Check, F, One("encrypted session key")>>}
SessionKeyNumbers ==
    LET encrypted == {<<Mpi>>, <<Mpi, Mpi>>, <<Mpi, F, Check, F>>}
    IN  encrypted \cup {k \o <<Check, <<"sesskey">>>> : k \in encrypted}

\* With a session key the data are decrypted and parsed, else they are passed
\* on in pieces.
decrypt_se_data == IF sesskey THEN <<<<"push", "data">>, F, <<"preamble">>, <<"nest">>>> ELSE <<Data>>
decrypt_se_ip_data == IF sesskey THEN <<<<"nest">>>> ELSE <<Data>>
parse_se_data    == {decrypt_se_data}
parse_se_ip_data == {<<F, Check>> \o decrypt_se_ip_data}
parse_compressed == {<<F, <<"nest">>>>, <<F, Check>>}

\* The branches of the parsers.
Alternatives(of) ==
    CASE of = "public numbers" -> PubkeyNumbers
      [] of = "v3 signature" -> {<<Mpi>>, <<Mpi, Mpi>>}
      [] of = "v4 signature" -> SigNumbers
      [] of = "encrypted session key" -> SessionKeyNumbers
      [] of \in {"v3", "v4"} -> SeckeyBody(of)

\* The switch of parse_packet over the types of packets.
Parsers ==
    parse_sig \cup parse_pubkey \cup parse_trust \cup parse_userid \cup parse_compressed
    \cup parse_one_pass \cup parse_litdata \cup parse_userattr \cup parse_seckey
    \cup parse_pk_sesskey \cup parse_se_data \cup parse_se_ip_data \cup parse_mdc

-----------------------------------------------------------------------------
(* Reading. *)

\* Bytes of the input, or of the virtual packet, are consumed.  Only the
\* outermost reader looks for a virtual packet.
Advance(k) ==
    /\ togo' = IF Packet.indeterminate THEN togo ELSE togo - k
    /\ virt' = virt - Least(k, virt)

\* The running parser returns false, or goes on with the steps p.
Fails == prog' = <<>> /\ ret' = 0 /\ pc' = "end" /\ failed' = Head(prog)[1]
Goes(p) == prog' = p /\ UNCHANGED <<ret, pc, failed>>

\* pgp_limited_read adds what was read to the region and to its parents.
Chain(k) == [i \in DOMAIN regs |-> [regs[i] EXCEPT !.readc = @ + k]]

Fits(k) == Cur.indeterminate \/ Cur.readc + k <= Cur.length

\* A number of a secret key that cannot be read lets parse_seckey pop its reader.
ReaderAfterFailure == IF Head(prog)[1] \in {"secret", "secret number"} THEN NoReader ELSE dec

EndsWithin == IF Packet.indeterminate THEN short ELSE "body"

ShortReadQuiet(m, next) ==
    /\ eof' = TRUE /\ short' = EndsWithin
    /\ Advance(m)
    /\ Fails /\ UNCHANGED <<regs, errors, dec>>

\* full_read gets no more than m bytes.  In a packet of indeterminate length this
\* is its end.
ShortRead(m, next) ==
    /\ eof' = TRUE /\ short' = EndsWithin
    /\ Advance(m)
    /\ IF Cur.indeterminate THEN regs' = Chain(m) /\ Goes(next) /\ UNCHANGED <<errors, dec>>
       ELSE errors' = TRUE /\ Fails /\ dec' = ReaderAfterFailure /\ UNCHANGED regs

NotEnoughData ==
    /\ errors' = TRUE /\ Fails /\ dec' = ReaderAfterFailure
    /\ UNCHANGED <<regs, togo, virt, eof, short>>

\* Whether the reader has k bytes, and the numbers of bytes it may have instead.
Available(k) == ~eof \/ k <= virt
Shortages(k) == IF k <= virt THEN {} ELSE {m \in 0 .. k - 1 : ~eof \/ m = virt}

\* pgp_limited_read of k bytes without a pushed reader.
pgp_limited_read(k, next) ==
    \/ ~Fits(k) /\ NotEnoughData
    \/ /\ Fits(k) /\ Available(k)
       /\ Advance(k) /\ regs' = Chain(k) /\ Goes(next) /\ UNCHANGED <<errors, eof, short, dec>>
    \/ Fits(k) /\ \E m \in Shortages(k) : ShortRead(m, next)

\* How much encrypted_data_reader reads to have k bytes: whole buffers as long as
\* the packet has them, or exactly what is asked for.
Fetched(k) ==
    LET missing == IF k > dec.buf THEN k - dec.buf ELSE 0
        rest    == Packet.length - Packet.readc
    IN  IF dec.exact THEN missing
        ELSE Least(rest, ((missing + Chunk - 1) \div Chunk) * Chunk)

\* The same through the decrypting reader: the region of the numbers (the last
\* one, without a parent) and the region of the packet.
encrypted_data_reader(k, next) ==
    LET f == Fetched(k)
        enough == Fits(k) /\ Packet.readc + f <= Packet.length
    IN
    \/ ~enough /\ NotEnoughData
    \/ /\ enough /\ Available(f)
       /\ Advance(f)
       /\ regs' = [regs EXCEPT ![1].readc = @ + f, ![Len(regs)].readc = @ + k]
       /\ dec' = [dec EXCEPT !.buf = @ + f - k]
       /\ Goes(next) /\ UNCHANGED <<errors, eof, short>>
    \/ enough /\ \E m \in Shortages(f) : ShortRead(m, next)

Take(k, next) ==
    /\ IF dec.on THEN encrypted_data_reader(k, next) ELSE pgp_limited_read(k, next)
    /\ UNCHANGED <<sesskey, stack, gap>>

-----------------------------------------------------------------------------
Is(op) == pc = "body" /\ prog # <<>> /\ Head(prog)[1] = op
Arg == Head(prog)[2]
Rest == Tail(prog)
quiet == <<regs, togo, virt, eof, dec, stack, gap, short>>

Branch == Is("one of") /\ (\E p \in Alternatives(Arg) : Goes(p \o Rest)) /\ UNCHANGED <<sesskey, errors, quiet>>

limread == Is("read") /\ Take(Arg, Rest)

\* read_data and its kin fail if more was read than there is.
read_data ==
    /\ Is("data")
    /\ \/ Cur.indeterminate /\ Take(0, Rest)
       \/ ~Cur.indeterminate /\ Cur.readc > Cur.length /\ Fails /\ UNCHANGED <<sesskey, errors, quiet>>
       \/ ~Cur.indeterminate /\ Cur.readc <= Cur.length /\ Take(Cur.length - Cur.readc, Rest)

\* limread_mpi: the length, then the number, which must not be empty or have the
\* wrong number of bits.
limread_mpi ==
    \/ Is("mpi") /\ Take(1, <<<<"number">>>> \o Rest)
    \/ Is("secret") /\ Take(1, <<<<"secret number">>>> \o Rest)
limread_mpi_number ==
    /\ Is("number") \/ Is("secret number")
    /\ \/ \E k \in 1 .. MaxMpi : Take(k, Rest)
       \/ /\ Fails
          /\ dec' = ReaderAfterFailure
          /\ errors' \in {errors, TRUE}
          /\ UNCHANGED <<regs, togo, virt, eof, sesskey, stack, gap, short>>

\* A wrong value ends the parser, with or without an entry in errors.
CheckValue ==
    /\ Is("check")
    /\ \/ Goes(Rest) /\ UNCHANGED errors
       \/ Fails /\ errors' \in {errors, TRUE}
    /\ UNCHANGED <<sesskey, quiet>>

\* "XXX: this test should be done for all packets, surely?"
CheckConsumed == Cur.readc = Cur.length
ExactEnd ==
    /\ Is("exact")
    /\ IF CheckConsumed THEN Goes(Rest) /\ UNCHANGED errors ELSE Fails /\ errors' = TRUE
    /\ UNCHANGED <<sesskey, quiet>>

SessionKey ==
    /\ Is("sesskey") /\ Goes(Rest) /\ sesskey' = TRUE
    /\ UNCHANGED <<errors, quiet>>

\* The rest of the packet is a region of its own: for a version 3 key without the
\* check value, for encrypted data just the preamble.
pgp_reader_push_decrypt ==
    /\ Is("push") /\ Goes(Rest)
    /\ dec' = [on |-> TRUE, exact |-> Arg # "v4", buf |-> 0]
    /\ LET rest == Packet.length - Packet.readc
           l    == CASE Arg = "v4" -> rest
                     [] Arg = "v3" -> IF rest = 0 THEN 0 ELSE rest - 1
                     [] Arg = "data" -> 1
       IN  regs' = Append(regs, Region(l, FALSE))
    /\ UNCHANGED <<togo, virt, eof, sesskey, errors, stack, gap, short>>

\* What the reader has decrypted and not delivered is lost.
pgp_reader_pop_decrypt ==
    /\ Is("pop") /\ Goes(Rest)
    /\ dec' = NoReader
    /\ regs' = IF Arg = "v3" THEN SubSeq(regs, 1, 1) ELSE regs
    /\ UNCHANGED <<togo, virt, eof, sesskey, errors, stack, gap, short>>

\* The repeated bytes of the preamble differ: the reader is popped.
Preamble ==
    /\ Is("preamble")
    /\ \/ Goes(Rest) /\ UNCHANGED <<errors, dec, regs>>
       \/ Fails /\ errors' = TRUE /\ dec' = NoReader /\ regs' = SubSeq(regs, 1, 1)
    /\ UNCHANGED <<togo, virt, eof, sesskey, stack, gap, short>>

-----------------------------------------------------------------------------
(* Signature subpackets. *)

Leave == regs' = SubSeq(regs, 1, Len(regs) - 1)

\* parse_sig_subpkts: the length of the set and its region.
OpenSet == Is("set") /\ Take(1, <<<<"set length">>>> \o Rest)
SetLength ==
    /\ Is("set length")
    /\ \/ \E l \in 0 .. Least(Cur.length, MaxSub) : Goes(<<<<"subpackets">>>> \o Rest) /\ regs' = Append(regs, Region(l, FALSE))
       \/ Fails /\ UNCHANGED regs
    /\ UNCHANGED <<togo, virt, eof, dec, sesskey, errors, stack, gap, short>>

\* The loop of parse_sig_subpkts; limskip of what was read too much fails.
parse_sig_subpkts ==
    /\ Is("subpackets")
    /\ \/ /\ Cur.readc < Cur.length
          /\ Take(1, <<<<"subpacket length">>>> \o prog)
       \/ /\ Cur.readc = Cur.length
          /\ Goes(Rest) /\ Leave /\ gap' = NoGap
          /\ UNCHANGED <<togo, virt, eof, dec, sesskey, errors, stack, short>>
       \/ /\ Cur.readc > Cur.length
          /\ Fails /\ errors' = TRUE
          /\ UNCHANGED <<sesskey, quiet>>

\* A subpacket longer than the whole set is refused.  What looks like a partial
\* length takes its bytes from the input, behind the back of the regions: the
\* model does not follow the parser from there.
limited_read_new_length ==
    /\ Is("subpacket length")
    /\ \/ \E l \in 0 .. Least(Cur.length, MaxSub) :
            /\ Goes(<<F, <<"subpacket">>>> \o Rest)
            /\ regs' = Append(regs, Region(l, FALSE))
       \/ Fails /\ UNCHANGED regs
       \/ prog' = <<>> /\ pc' = "lost" /\ UNCHANGED <<ret, failed, regs>>
    /\ UNCHANGED <<togo, virt, eof, dec, sesskey, errors, stack, gap, short>>

\* The fields of the subpackets: one, two (trust, revocation reason and key) or
\* the notation, or all that is left.
SubpacketFields == {<<F>>, <<F, F>>, <<F, Check, F>>, <<F, Data>>, <<Data, Check>>}

\* parse_one_sig_subpacket behind the type.  Each type of subpackets is to be
\* given raw, parsed or ignored (repgp_parse_options).  One of an unknown type is
\* skipped if it is to be ignored and else only reported.
parse_one_sig_subpacket ==
    LET end(ignored) == <<<<"subpacket end", ignored>>>> \o Rest IN
    /\ Is("subpacket")
    /\ \/ Goes(<<<<"read", Cur.length - 1>>>> \o end(FALSE)) /\ UNCHANGED errors
       \/ (\E f \in SubpacketFields : Goes(f \o <<Exact>> \o end(FALSE))) /\ UNCHANGED errors
       \/ (\E f \in SubpacketFields : Goes(f \o end(TRUE))) /\ errors' \in {errors, TRUE}
       \/ Goes(end(FALSE)) /\ errors' = TRUE
       \/ Goes(<<<<"skip", Cur.length - 1>>>> \o end(TRUE)) /\ UNCHANGED errors
    /\ UNCHANGED <<sesskey, quiet>>

SubpacketEnd ==
    /\ Is("subpacket end") /\ Goes(Rest)
    /\ gap' = [bytes |-> Cur.length - Cur.readc, ignored |-> Arg]
    /\ Leave
    /\ UNCHANGED <<togo, virt, eof, dec, sesskey, errors, stack, short>>

\* One iteration of limskip: length modulo the size of the buffer.
SkipParts(k) == k \div SkipBuf
SkipPart(k) == k % SkipBuf
limskip ==
    /\ Is("skip")
    /\ IF Arg = 0 THEN Goes(Rest) /\ UNCHANGED <<sesskey, errors, quiet>>
       ELSE Take(SkipPart(Arg), <<<<"skip", Arg - SkipPart(Arg)>>>> \o Rest)

\* limskip takes no byte of a multiple of its buffer: it never ends.
Hung == Is("skip") /\ Arg > 0 /\ Arg % SkipBuf = 0

-----------------------------------------------------------------------------
(* Packets. *)

Starts(p, l, ind) ==
    /\ pc' = "body" /\ prog' = p /\ ret' = 1
    /\ regs' = <<Region(l, ind)>> /\ gap' = NoGap

\* The parts of a packet of l bytes are read into a virtual packet.  The input may end
\* within them, unnoticed: the packet is then as long as what was obtained.
coalesce_blocks(l, got) ==
    /\ virt' = got /\ togo' = got /\ eof' = (got < l)
    /\ short' = IF got < l THEN "parts" ELSE short

LengthsHere == IF Depth = 0 THEN Lengths ELSE {l \in Lengths : l <= MaxNested}

\* The tag and the length of a packet whose parser is p: a length, parts, or
\* no length.  Within an encrypted or compressed packet the parts are read, but
\* nobody looks for them (LostParts): the model does not follow the parser from there.
Header(p, l) ==
    \/ Starts(p, l, FALSE) /\ togo' = l /\ UNCHANGED <<virt, eof, short>>
    \/ Depth = 0 /\ \E got \in 0 .. l : Starts(p, got, FALSE) /\ coalesce_blocks(l, got)
    \/ l = 0 /\ Starts(p, 0, TRUE) /\ togo' = 0 /\ UNCHANGED <<virt, eof, short>>
PacketHeader ==
    /\ pc = "packet" /\ ~eof
    /\ \E p \in Parsers, l \in LengthsHere : Header(p, l)
    /\ failed' = "none"
    /\ UNCHANGED <<dec, sesskey, errors, stack>>
LostParts ==
    /\ pc = "packet" /\ ~eof /\ Depth > 0
    /\ pc' = "lost"
    /\ UNCHANGED <<prog, ret, failed, sesskey, errors, quiet>>

\* A type that is not known: parse_packet gives up after the packet.
UnknownTag ==
    /\ pc = "packet" /\ ~eof
    /\ \E l \in LengthsHere : Header(<<>>, l)
    /\ failed' = "unknown"
    /\ errors' = TRUE
    /\ UNCHANGED <<dec, sesskey, stack>>

\* A byte that is no tag is passed over; the input may end within a header.
BadHeader ==
    /\ pc = "packet" /\ ~eof
    /\ eof' \in BOOLEAN
    /\ UNCHANGED <<pc, prog, regs, ret, failed, togo, virt, dec, sesskey, errors, stack, gap, short>>

ParserReturns ==
    /\ pc = "body" /\ prog = <<>>
    /\ pc' = "end" /\ ret' = IF failed = "unknown" THEN -1 ELSE ret
    /\ UNCHANGED <<prog, failed, sesskey, errors, quiet>>

\* What is left of the packet.
Normal == Region(Packet.length - Packet.readc, Packet.indeterminate)

\* A nested repgp_parse starts; it reads through the reader that was pushed.
Nest ==
    /\ Is("nest") /\ Depth < MaxDepth
    /\ stack' = Append(stack, [region |-> Normal, togo |-> togo, eof |-> eof, virt |-> virt])
    /\ pc' = "packet" /\ prog' = <<>> /\ regs' = <<>> /\ togo' = 0 /\ eof' = FALSE /\ virt' = 0
    /\ dec' = NoReader
    /\ UNCHANGED <<ret, failed, sesskey, errors, gap, short>>
NestTooDeep == \* bound
    /\ Is("nest") /\ Depth = MaxDepth
    /\ Fails /\ dec' = NoReader
    /\ UNCHANGED <<sesskey, errors, regs, togo, virt, eof, stack, gap, short>>

\* repgp_parse ends.  A nested one has read some part of its caller's packet; the
\* reader is popped, and its result is that of the caller's parser.
Return ==
    \/ Depth = 0 /\ pc' = "stopped" /\ UNCHANGED <<prog, regs, ret, failed, togo, eof, virt, errors, stack, short>>
    \/ /\ Depth > 0
       /\ LET f    == stack[Depth]
              rest == f.region.length - f.region.readc
          IN  \E k \in (IF f.region.indeterminate THEN {0} ELSE 0 .. rest) :
                /\ togo' = f.togo - k /\ virt' = f.virt - Least(k, f.virt)
                /\ \/ /\ ~f.eof \/ k <= f.virt
                      /\ regs' = <<[f.region EXCEPT !.readc = @ + k]>> /\ eof' = f.eof
                      /\ UNCHANGED <<errors, short>>
                   \/ /\ k >= f.virt /\ k < rest
                      /\ regs' = <<f.region>> /\ eof' = TRUE /\ errors' = TRUE /\ short' = "body"
       /\ stack' = SubSeq(stack, 1, Depth - 1)
       /\ pc' = "body" /\ prog' = <<>>
       /\ ret' = (IF errors' THEN 0 ELSE 1) /\ failed' = "none"

repgp_parse ==
    /\ \/ pc = "packet" /\ eof
       \/ pc = "packet" /\ Depth > 0
       \/ pc = "give up"
    /\ Return
    /\ UNCHANGED <<dec, sesskey, gap>>

\* The rest of the packet is consumed, whatever the parser returned: parse_packet
\* goes on with the next packet, or gives up.
ConsumeNothing == FALSE
Consume == ~Packet.indeterminate /\ Packet.length # Packet.readc

PacketDone(r) == pc' = (IF r < 0 THEN "give up" ELSE "packet") /\ ret' = 1 /\ prog' = <<>> /\ failed' = "none"

consume_packet ==
    LET rest == Packet.length - Packet.readc IN
    /\ pc = "end" /\ ~dec.on
    /\ \/ /\ ~Consume
          /\ PacketDone(IF ret = 0 /\ Packet.indeterminate THEN -1 ELSE ret)
          /\ UNCHANGED <<togo, virt, eof, errors, short>>
       \/ /\ Consume /\ rest < 0
          /\ PacketDone(-1) /\ errors' = TRUE
          /\ UNCHANGED <<togo, virt, eof, short>>
       \/ /\ Consume /\ rest > 0 /\ Available(rest)
          /\ PacketDone(ret) /\ Advance(rest)
          /\ UNCHANGED <<eof, errors, short>>
       \/ /\ Consume /\ rest > 0
          /\ \E m \in Shortages(rest) : Advance(m)
          /\ PacketDone(-1) /\ errors' = TRUE /\ eof' = TRUE /\ short' = "body"
    /\ regs' = <<>>
    /\ UNCHANGED <<dec, sesskey, stack, gap>>

\* The parser returned with its decrypting reader on the stack: the next read
\* uses the region of a packet that is gone.
StrayReader ==
    /\ pc = "end" /\ dec.on
    /\ pc' = "undefined"
    /\ UNCHANGED <<prog, ret, failed, sesskey, errors, quiet>>

Over == pc \in {"stopped", "undefined", "lost"} /\ UNCHANGED vars

Next ==
    \/ Branch \/ limread \/ read_data \/ limread_mpi \/ limread_mpi_number \/ CheckValue \/ ExactEnd
    \/ SessionKey \/ pgp_reader_push_decrypt \/ pgp_reader_pop_decrypt \/ Preamble
    \/ OpenSet \/ SetLength \/ parse_sig_subpkts \/ limited_read_new_length
    \/ parse_one_sig_subpacket \/ SubpacketEnd \/ limskip
    \/ PacketHeader \/ LostParts \/ UnknownTag \/ BadHeader \/ ParserReturns
    \/ Nest \/ NestTooDeep \/ repgp_parse \/ consume_packet \/ StrayReader
    \/ Over

Spec == Init /\ [][Next]_vars /\ WF_vars(Next)

-----------------------------------------------------------------------------
Regions == [length : Int, readc : Int, indeterminate : BOOLEAN]
Readers == [on : BOOLEAN, exact : BOOLEAN, buf : Nat]
Shorts == {"no", "body", "parts"}
Frames == [region : Regions, togo : Int, eof : BOOLEAN, virt : Nat]

TypeOK ==
    /\ pc \in {"packet", "body", "end", "give up", "stopped", "undefined", "lost"}
    /\ ret \in -1 .. 1 /\ togo \in Int /\ virt \in Nat /\ dec \in Readers
    /\ regs \in Seq(Regions) /\ Len(regs) <= 3
    /\ stack \in Seq(Frames) /\ Len(stack) <= MaxDepth
    /\ gap \in [bytes : Int, ignored : BOOLEAN]
    /\ {eof, sesskey, errors} \subseteq BOOLEAN /\ short \in Shorts

\* Packets are read where they begin: whatever a parser has read of its packet,
\* too little, too much or nothing, whether it succeeded or failed and in how
\* many parts the packet came, the next tag is looked for behind the packet.
InStep == (pc = "packet" /\ ~eof) => togo = 0 /\ virt = 0

\* A subpacket that is given raw or parsed is read to its end, so that the next
\* one is read where it begins; otherwise an error is reported.
SubpacketsInStep == gap.bytes # 0 => gap.ignored \/ errors

\* A parser leaves its decrypting reader on the stack only if the check value
\* behind the numbers of a version 4 key is missing or wrong or the preamble of
\* the data is cut off: whatever is wrong with a number, the reader is popped.
ReadersBalanced == (pc = "end" /\ dec.on) => failed \in {"read", "check"}

\* After everything a parser may meet, the stream stands at the next packet or
\* subpacket and the readers are those that were there before.
ParserInStep == TypeOK /\ InStep /\ SubpacketsInStep /\ ReadersBalanced

\* A packet that is cut off is reported by repgp_parse, whichever parser met the end, at
\* whatever depth and whatever it had read; but for one that comes in parts: cut off among
\* them it passes for a whole packet of fewer bytes (packet-parse.c:711, :774).
TruncationReported == (pc = "stopped" /\ short # "no") => errors \/ short = "parts"

\* The parser of a packet returns, unless limskip is asked for a multiple of its
\* buffer.
ParserEnds == (pc = "body") ~> (pc # "body" \/ Hung)
=============================================================================
