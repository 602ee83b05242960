-------------------------------- MODULE Armor --------------------------------
(***************************************************************************)
(* Armored and cleartext signed data on their way from one of the two      *)
(* writers (writer.c, stream-armor.c) to one of the two readers (reader.c, *)
(* stream-armor.c with stream-parse.c), whole or damaged.                  *)
(***************************************************************************)
EXTENDS ArmorReaders

CONSTANTS
    Docs,      \* what is written: [kind |-> "armor" or "clear", type, data]
    Sig,       \* the bytes of a signature below a text
    Chunks,    \* lengths of the calls that write
    ReadLens,  \* lengths of the calls that read
    Block,     \* ARMORED_BLOCK_SIZE
    CtBuf,     \* CT_BUF_LEN
    BodySize,  \* size of the body that process_dash_escaped collects
    Fragile,   \* bound: the documents that damage may meet
    Garble     \* characters that damage puts into a text

\* Sources are read in pieces longer than what is left of a block, and a line of
\* dashes fits into the buffer of a text.
ASSUME ArmorAssumption ==
    /\ \A n \in ReadLens : n > (Block \div 4) * 3
    /\ CtBuf >= Len(Named(Begin("SIGNATURE")))
    /\ Chunks \subseteq Nat \ {0} /\ {Block, CtBuf, BodySize} \subseteq Nat \ {0}

VARIABLES
    doc,     \* what is written
    way,     \* <<the writer, the reader>>: "packets" (writer.c, reader.c) or "stream"
    pc,      \* "write", "sent", "open", "call", "loop", and at the end "done", "failed"
    left,    \* not yet written
    w,       \* the writer
    text,    \* what is on its way
    signed,  \* history: what the writer put into its hash
    damage,  \* history: "none", "cut", "drop", "change"
    r,       \* reader.c: the place of the next character
    d,       \* the rest of the reader's state
    want,    \* bytes the call still has to read
    got,     \* what was delivered
    hash,    \* what the reader put into its hash
    errors,  \* the reader recorded an error
    turns    \* history: turns of the reader's loops, up to one more than Enough
vars == <<doc, way, pc, left, w, text, signed, damage, r, d, want, got, hash, errors, turns>>

Ways == {"packets", "stream"}
Clear == doc.kind = "clear"
\* The two writers have different names for a secret key.
NameOf(type, writer) == IF type = "key" THEN (IF writer = "packets" THEN "PRIVATE KEY BLOCK" ELSE "SECRET KEY BLOCK") ELSE type
Type == NameOf(doc.type, way[1])

Init ==
    /\ doc \in Docs
    /\ way \in (IF doc.kind = "clear" THEN {"packets"} ELSE Ways) \X Ways
    /\ w = (CASE doc.kind = "clear" -> pgp_writer_push_clearsigned
              [] doc.kind = "armor" /\ way[1] = "packets" -> pgp_writer_push_armored(<<>>, NameOf(doc.type, way[1]), FALSE)
              [] OTHER -> init_armored_dst(NameOf(doc.type, way[1])))
    /\ pc = "write" /\ left = doc.data /\ text = <<>> /\ signed = <<>> /\ damage = "none"
    /\ r = 1
    /\ d = [state |-> "none"] /\ want = 0 /\ got = <<>> /\ hash = <<>> /\ errors = FALSE /\ turns = 0

Writer == <<doc, way>>
Reader == <<r, d, want, got, hash, errors>>

\* rnp_armor_source, and the callers of pgp_write: a call for a piece of the data.
Write ==
    /\ pc = "write" /\ left # <<>>
    /\ \E n \in Chunks :
        LET piece == SubSeq(left, 1, IF n > Len(left) THEN Len(left) ELSE n)
        IN  /\ w' = CASE Clear -> Fold(dash_esc_writer, w, piece)
                      [] ~Clear /\ way[1] = "packets" -> Fold(base64_writer, w, piece)
                      [] OTHER -> armored_dst_write(w, piece)
            /\ left' = SubSeq(left, Len(piece) + 1, Len(left))
    /\ UNCHANGED <<Writer, pc, text, signed, damage, Reader>>

\* The data end: finalisers run; below a text an armored signature is written.
Finish ==
    /\ pc = "write" /\ left = <<>>
    /\ text' = CASE Clear -> armored_message_finaliser(
                                Fold(base64_writer, pgp_writer_push_armored(w.out, "SIGNATURE", TRUE), Sig), "SIGNATURE").out
                 [] ~Clear /\ way[1] = "packets" -> armored_message_finaliser(w, Type).out
                 [] OTHER -> armored_dst_finish(w, Type)
    /\ signed' = IF Clear THEN w.hash ELSE <<>>
    /\ pc' = "sent" /\ w' = [out |-> <<>>]
    /\ UNCHANGED <<Writer, left, damage, Reader>>

Arrive(how, t) == damage' = how /\ text' = t
\* The text arrives: whole, cut off, without a character, or with another one.
Deliver ==
    /\ pc = "sent" /\ pc' = "open"
    /\ \/ Arrive("none", text)
       \/ doc \in Fragile /\ \E i \in 0 .. Len(text) - 1 : Arrive("cut", SubSeq(text, 1, i))
       \/ doc \in Fragile /\ ~Clear /\ \E i \in 1 .. Len(text) : Arrive("drop", RemoveAt(text, i))
       \/ doc \in Fragile /\ ~Clear /\ \E i \in 1 .. Len(text), c \in Garble : text[i] # c /\ Arrive("change", [text EXCEPT ![i] = c])
    /\ UNCHANGED <<Writer, left, w, signed, Reader>>

Sent == <<Writer, left, w, text, signed, damage>>

-----------------------------------------------------------------------------
(* reader.c                                                                *)
Packets == way[2] = "packets"

pgp_reader_push_dearmor ==
    /\ pc = "open" /\ Packets
    /\ d' = [state |-> "outside", buffer |-> <<>>, sum |-> <<>>, eof64 |-> FALSE, last |-> 0,
             body |-> <<>>, hadcr |-> FALSE, cut |-> FALSE]
    /\ pc' = "call"
    /\ UNCHANGED <<Sent, r, want, got, hash, errors>>

armored_data_reader ==
    /\ pc = "call" /\ Packets
    /\ IF d.eof64 /\ d.buffer = <<>> /\ d.state = "base64"
       THEN pc' = "done" /\ UNCHANGED want
       ELSE pc' = "loop" /\ want' \in ReadLens
    /\ UNCHANGED <<Sent, r, d, got, hash, errors>>

In(state) == pc = "loop" /\ Packets /\ d.state = state
Returns0 == pc' = "done" /\ UNCHANGED <<Sent, r, d, want, got, hash, errors>>
Returns1(err) == pc' = "failed" /\ errors' = (errors \/ err) /\ UNCHANGED <<Sent, r, d, want, got, hash>>
Goes(s, e, err) == r' = s /\ d' = e /\ errors' = (errors \/ err) /\ UNCHANGED <<Sent, pc, want, got, hash>>

\* base64: a new block of data.
Base64(e) == [e EXCEPT !.state = "base64", !.sum = <<>>, !.eof64 = FALSE, !.buffer = <<>>]

\* Text outside a block: the next line, and whether it is a header line.
OutsideBlock ==
    /\ In("outside")
    /\ \E l \in {IF seen_nl(text, r) THEN r ELSE LET e == FirstIn(text, r, {LF}) IN IF e = 0 THEN EOF ELSE e + 1} :
       \E a \in {ReadDashes(text, l, 5)} :
       LET e == FirstIn(text, a, {Dash})
           b == ReadDashes(text, IF e = 0 THEN EOF ELSE e + 1, 4)
           f == read_char(text, b, TRUE)
           h == parse_headers(text, f + 1)
           words == SubSeq(text, a, e - 1)
       IN  IF a = EOF THEN Returns0
           ELSE IF a < 0 THEN Goes(-a, d, FALSE)
           ELSE IF b = EOF THEN Returns0
           ELSE IF b < 0 THEN Goes(-b, d, FALSE)
           ELSE IF f = EOF THEN Returns0
           ELSE IF text[f] # LF THEN Goes(f + 1, d, FALSE)
           ELSE IF h = EOF \/ words \notin {<<k>> : k \in Known} THEN Returns1(TRUE)
           ELSE Goes(h, [(IF words[1] = Begin("SIGNED MESSAGE") THEN [d EXCEPT !.state = "dash"] ELSE Base64(d))
                          EXCEPT !.last = words[1]],
                     OutOfOrder(words[1], d.last))

\* Bytes go to the caller; the rest of a quantum stays in the buffer.  A short
\* result is returned when the data end in this call.
Base64Step ==
    /\ In("base64")
    /\ \E q \in {decode64(text, r, d.sum)} :
       LET bytes == IF d.buffer = <<>> THEN q.bytes ELSE d.buffer
           n == IF want > Len(bytes) THEN Len(bytes) ELSE want
           keep == SubSeq(bytes, n + 1, Len(bytes))
           eof == d.eof64 \/ (d.buffer = <<>> /\ q.res = "last")
       IN  \/ d.buffer = <<>> /\ q.res = "error" /\ pc' = "done" /\ errors' = TRUE /\ UNCHANGED <<Sent, r, d, want, got, hash>>
           \/ d.buffer = <<>> /\ q.res = "quiet" /\ Returns0
           \/ /\ d.buffer # <<>> \/ q.res \in {"data", "last"}
              /\ got' = got \o SubSeq(bytes, 1, n)
              /\ r' = IF d.buffer = <<>> THEN q.pos ELSE r
              /\ d' = [d EXCEPT !.buffer = keep, !.eof64 = eof,
                                !.sum = IF d.buffer = <<>> THEN @ \o q.bytes ELSE @,
                                !.state = IF eof /\ keep = <<>> THEN "trailer" ELSE @]
              /\ want' = want - n
              /\ pc' = IF want = n \/ (eof /\ keep = <<>> /\ n > 0) THEN "call" ELSE "loop"
              /\ UNCHANGED <<Sent, hash, errors>>

\* The words behind five dashes at the end of a block, or in front of the
\* signature below a text.
AtTrailerName ==
    /\ In("trailer")
    /\ LET e == FirstIn(text, r, {Dash})
           words == SubSeq(text, r, e - 1)
           four == Piece(text, e + 1, 4)
           f == read_char(text, e + 5, TRUE)
           h == parse_headers(text, f + 1)
           err == four # SubSeq(Dashes, 1, 4) \/ text[f] # LF \/ OutOfOrder(words[1], d.last)
       IN  IF e = 0 THEN Returns1(FALSE)
           ELSE IF words \notin {<<k>> : k \in Known} THEN Returns1(TRUE)
           ELSE IF Len(four) < 4 \/ f = EOF THEN Returns1(FALSE)
           ELSE IF \A t \in Types : words # <<Begin(t)>>
           THEN Goes(f + 1, [d EXCEPT !.last = words[1], !.state = "outside"], err)
           ELSE IF h = EOF THEN Returns1(TRUE) ELSE Goes(h, Base64([d EXCEPT !.last = words[1]]), err)

\* The dashes below a text, the second at place y: what was collected must be
\* one end of line.
EndOfText(y) ==
    LET four == Piece(text, y, 4)
    IN  IF Len(four) < 4 \/ d.body # Crlf THEN Returns1(FALSE)
        ELSE Goes(y + 4, [d EXCEPT !.state = "trailer"], four # SubSeq(Dashes, 1, 4))

\* A character of the text; whole lines go to the hash, without blanks at the
\* end and with the end of the line before.
BodyChar(i) ==
    LET c     == IF text[i] = CR THEN LF ELSE text[i]
        again == text[i] = LF /\ d.hadcr
        eol   == c = LF /\ d.body # <<>>
        body  == (IF eol THEN <<>> ELSE d.body) \o (IF c = LF THEN Crlf ELSE <<c>>)
        full  == Len(body) = BodySize - 1
    IN  /\ r' = i + 1
        /\ hash' = IF again THEN hash
                   ELSE hash \o (IF eol THEN Stripped(d.body) ELSE <<>>) \o (IF full THEN body ELSE <<>>)
        /\ d' = IF again THEN d
                ELSE [d EXCEPT !.hadcr = text[i] = CR, !.body = IF full THEN <<>> ELSE body,
                               !.cut = @ \/ (full /\ Last(body) \in Blank)]
        /\ UNCHANGED <<Sent, pc, want, got, errors>>

process_dash_escaped ==
    /\ In("dash")
    /\ \E x \in {read_char(text, r, TRUE)} :
        IF x = EOF THEN Returns1(FALSE)
        ELSE IF ~(prev_nl(text, x) /\ text[x] = Dash) THEN BodyChar(x)
        ELSE IF x = Len(text) THEN Returns1(FALSE)
        ELSE IF text[x + 1] # SP THEN EndOfText(x + 1)
        ELSE IF x + 1 = Len(text) THEN Returns1(FALSE)
        ELSE BodyChar(x + 2)

-----------------------------------------------------------------------------
(* stream-armor.c                                                          *)
Stream == way[2] = "stream"

init_armored_src ==
    /\ pc = "open" /\ Stream /\ ~Clear
    /\ LET p == armor_parse_headers(text, EolAt(text, armor_parse_header(text)))
       IN  /\ pc' = IF p = 0 THEN "failed" ELSE "call"
           /\ d' = [pos |-> p, rest |-> <<>>, restpos |-> 0, brest |-> <<>>, eof |-> FALSE,
                    sum |-> <<>>, dec |-> <<>>, buf |-> <<>>]
    /\ UNCHANGED <<Sent, r, want, got, hash, errors>>

\* A call is served from what was decoded before, as far as that goes.
armored_src_call ==
    /\ pc = "call" /\ Stream /\ ~Clear
    /\ \E len \in ReadLens :
        LET rest == SubSeq(d.rest, d.restpos + 1, Len(d.rest))
            n    == IF Len(rest) >= len THEN len ELSE Len(rest)
            take == SubSeq(rest, 1, n)
            all  == rest # <<>> /\ Len(rest) < len
        IN  IF n = len \/ d.eof
            THEN /\ got' = got \o take
                 /\ d' = [d EXCEPT !.restpos = IF all THEN 0 ELSE @ + n, !.rest = IF all THEN <<>> ELSE @,
                                   !.sum = IF d.eof THEN @ ELSE @ \o take]
                 /\ pc' = IF n = 0 THEN "done" ELSE "call"
                 /\ UNCHANGED want
            ELSE /\ d' = [d EXCEPT !.restpos = IF all THEN 0 ELSE @, !.rest = IF all THEN <<>> ELSE @,
                                   !.buf = take, !.dec = d.brest]
                 /\ want' = len - n /\ pc' = "loop"
                 /\ UNCHANGED got
    /\ UNCHANGED <<Sent, r, hash, errors>>

\* The end of a call: what is decoded and not wanted is kept, at the end of the
\* data the checksum is compared.
SumCompared(sum, crc) == Crc(sum) = crc
Return(e, buf, digits, wanted, eq, crc) ==
    \E tail \in {SubSeq(digits, (Len(digits) \div 4) * 4 + 1, Len(digits))}, sum \in {d.sum \o buf} :
    \E rest \in {Quanta(digits) \o (IF e.eof /\ eq > 0 /\ Len(tail) + eq = 4 THEN Decoded(tail) ELSE <<>>)} :
    \E now \in {Piece(rest, 1, wanted)} :
        IF e.eof /\ ((Len(tail) + eq) % 4 # 0 \/ ~SumCompared(sum \o rest, crc))
        THEN pc' = "failed" /\ UNCHANGED <<d, want, got>>
        ELSE /\ d' = [e EXCEPT !.rest = rest, !.restpos = @ + Len(now), !.brest = IF e.eof THEN @ ELSE tail,
                               !.sum = IF e.eof THEN sum ELSE sum \o now, !.dec = <<>>, !.buf = <<>>]
             /\ got' = got \o buf \o now
             /\ want' = 0
             /\ pc' = IF buf \o now = <<>> THEN "done" ELSE "call"

Fails == pc' = "failed" /\ UNCHANGED <<d, want, got>>
AtEquals(e, buf, rem, wanted, pad, crc) ==
    IF pad.n < 0 \/ crc.crc = <<>> \/ ~armor_read_trailer(text, crc.pos, Type) THEN Fails
    ELSE Return(e, buf, rem, wanted, pad.n, crc.crc)

\* A block is decoded together with the digits that were left; whole quanta go
\* to the caller as long as it wants three bytes.
armored_src_read ==
    /\ pc = "loop" /\ Stream /\ ~Clear
    /\ \E b \in {ReadBlock(Piece(text, d.pos, Block))} :
       \E dec \in {d.dec \o b.digits}, e \in {[d EXCEPT !.pos = @ + b.used, !.eof = b.eof]} :
       \E take \in {LET can == Len(dec) \div 4 IN IF can * 3 < want THEN can ELSE want \div 3} :
       \E buf \in {d.buf \o Quanta(SubSeq(dec, 1, take * 4))}, rem \in {SubSeq(dec, take * 4 + 1, Len(dec))} :
          IF b.bad THEN Fails
          ELSE IF b.eof
          THEN \E pad \in {armor_read_padding(text, e.pos)} :
                  AtEquals(e, buf, rem, want - take * 3, pad, armor_read_crc(text, pad.pos))
          ELSE IF want - take * 3 >= 3
          THEN d' = [e EXCEPT !.buf = buf, !.dec = rem] /\ want' = want - take * 3 /\ UNCHANGED <<pc, got>>
          ELSE Return(e, buf, rem, want - take * 3, 0, <<>>)
    /\ UNCHANGED <<Sent, r, hash, errors>>

-----------------------------------------------------------------------------
(* stream-parse.c                                                          *)
init_cleartext_signed_src ==
    /\ pc = "open" /\ Stream /\ Clear
    /\ LET p == IF Piece(text, 1, 11) = Dashes \o <<Begin("SIGNED MESSAGE")>> \o Dashes
                THEN armor_parse_headers(text, EolAt(text, 12)) ELSE 0
       IN  /\ pc' = IF p = 0 THEN "failed" ELSE "loop"
           /\ d' = [pos |-> p, fline |-> TRUE, mline |-> FALSE, eod |-> FALSE, used |-> 0, cut |-> FALSE, hash |-> <<>>]
    /\ UNCHANGED <<Sent, r, want, got, hash, errors>>

cleartext_src_read ==
    /\ pc = "loop" /\ Stream /\ Clear
    /\ \E block \in {Piece(text, d.pos, CtBuf)} :
        IF block = <<>> \/ d.eod THEN pc' = "done" /\ UNCHANGED <<d, hash>>
        ELSE \E e \in {ProcessBlock([d EXCEPT !.hash = hash], block)} :
                d' = [e EXCEPT !.pos = @ + e.used, !.used = 0, !.hash = <<>>] /\ hash' = e.hash /\ UNCHANGED pc
    /\ UNCHANGED <<Sent, r, want, got, errors>>

\* A reader that gets somewhere in every turn needs no more than this.
Enough == 2 * Len(text) + 8

Read ==
    /\ \/ pgp_reader_push_dearmor \/ armored_data_reader \/ OutsideBlock \/ Base64Step
       \/ AtTrailerName \/ process_dash_escaped
       \/ init_armored_src \/ armored_src_call \/ armored_src_read
       \/ init_cleartext_signed_src \/ cleartext_src_read
    /\ turns' = IF turns > Enough THEN turns ELSE turns + 1

Next ==
    \/ (Write \/ Finish \/ Deliver) /\ UNCHANGED turns
    \/ Read
    \/ pc \in {"done", "failed"} /\ UNCHANGED vars

Spec == Init /\ [][Next]_vars

-----------------------------------------------------------------------------
\* Whatever the lengths of the calls, data that arrive whole are delivered as
\* they were written, by each reader for each writer.  Secret keys are the
\* exception: stream-armor.c calls them SECRET, writer.c and reader.c PRIVATE
\* KEY BLOCK, and neither reader takes the other's.
OneName == doc.type = "key" => way[1] = way[2]
RoundTrip ==
    (pc \in {"done", "failed"} /\ damage = "none" /\ ~Clear) =>
        IF OneName THEN pc = "done" /\ got = doc.data /\ ~errors ELSE got = <<>>

\* Damage is noticed by both readers before the end of the data is reported as
\* a success: by the form of the lines or by the checksum.  reader.c has no
\* complaint when it never finds a header line, and ends quietly at a single
\* digit in front of an equals sign.
NeverFound == Packets /\ got = <<>>
SingleDigit == Packets /\ d.state = "base64" /\ decode64(text, r, d.sum).res = "quiet"
DamageReported ==
    (pc = "done" /\ ~Clear /\ ~errors) => (got = doc.data \/ NeverFound \/ SingleDigit)

\* A text that arrives whole is verified with the hash it was signed with:
\* escaping, ends of line and blanks at the end of lines are treated alike.  Not
\* by reader.c if the text ends in a carriage return, not by stream-parse.c if
\* blanks are in front of that, and by neither if blanks before an end of line
\* are where the reader's buffer is full.
EndsIn(chars) == Len(doc.data) >= Len(chars) /\ SubSeq(doc.data, Len(doc.data) - Len(chars) + 1, Len(doc.data)) = chars
SignedIsVerified ==
    (pc \in {"done", "failed"} /\ damage = "none" /\ Clear) =>
        \/ pc = "done" /\ hash = signed /\ ~errors
        \/ EndsIn(IF Packets THEN <<CR>> ELSE <<SP, CR>>)
        \/ d.cut

\* Reading comes to an end whatever arrives, in a number of turns the length of
\* the text bounds.  Not in two places: armored_src_read waits for ever for three
\* more bytes when the data end without an equals sign, cleartext_src_read for
\* what follows a carriage return at the end.
HangsAt(e) ==
    /\ pc = "loop" /\ Stream
    /\ IF Clear THEN e.pos = Len(text) /\ text[e.pos] = CR /\ e.mline
       ELSE e.pos > Len(text) /\ want >= 3 /\ ~e.eof
ReaderEnds == turns <= Enough \/ HangsAt(d)
=============================================================================
