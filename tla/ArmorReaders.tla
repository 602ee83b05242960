---------------------------- MODULE ArmorReaders ----------------------------
(***************************************************************************)
(* What the two readers of armored and cleartext signed data do with a     *)
(* text: the dearmoring reader (reader.c), and the armored and cleartext   *)
(* sources (stream-armor.c, stream-parse.c).  A place in a text is the     *)
(* index of the next character.                                            *)
(***************************************************************************)
EXTENDS ArmorWriters, FiniteSetsExt

\* The first place from p on whose character is in (not in) set; 0: none.
FirstIn(text, p, set) == SelectInSubSeq(text, p, Len(text), LAMBDA c : c \in set)
FirstNotIn(text, p, set) == SelectInSubSeq(text, p, Len(text), LAMBDA c : c \notin set)

\* At most n characters from p on.
Piece(text, p, n) == SubSeq(text, p, IF p + n - 1 > Len(text) THEN Len(text) ELSE p + n - 1)

-----------------------------------------------------------------------------
(* reader.c: a place is 0 when the data have ended.                        *)
EOF == 0
Char(text, i) == IF i = EOF THEN -1 ELSE text[i]

\* read_char: the place of the next character, carriage returns skipped or not.
read_char(text, p, skip) == IF p = EOF THEN EOF ELSE FirstNotIn(text, p, IF skip THEN {CR} ELSE {})

\* seen_nl in front of place p, and prev_nl for the character at i: the one that
\* was read before it ended a line.
seen_nl(text, p) == p = 1 \/ text[p - 1] = LF
prev_nl(text, i) ==
    LET j == SelectLastInSubSeq(text, 1, i - 1, LAMBDA c : c # CR) IN j = 0 \/ text[j] = LF

\* The first character that is not blank.
eat_whitespace(text, p) == IF p = EOF THEN EOF ELSE FirstNotIn(text, p, {SP, CR})

\* n dashes, read one by one: the place behind them, or minus the place behind
\* the first other character.
DashesFrom(text, p, n, other) ==
    IF p = EOF THEN EOF ELSE IF other > 0 THEN -(p + other) ELSE IF p + n - 1 > Len(text) THEN EOF ELSE p + n
ReadDashes(text, p, n) == DashesFrom(text, p, n, FirstNotIn(Piece(text, p, n), 1, {Dash}))

\* Header lines up to an empty one: the place behind it, or EOF when the data
\* end or a line is not "name: value".
RECURSIVE parse_headers(_, _)
HeadersFrom(text, e, line) ==
    IF e = 0 THEN EOF
    ELSE IF line = <<>> THEN e + 1
    ELSE IF line[1] = Header THEN parse_headers(text, e + 1)
    ELSE EOF
HeadersTo(text, p, e) == HeadersFrom(text, e, SelectSeq(SubSeq(text, p, e - 1), LAMBDA c : c # CR))
parse_headers(text, p) == IF p = EOF THEN EOF ELSE HeadersTo(text, p, FirstIn(text, p, {LF}))

\* Four base64 digits; other characters between them are ignored, a dash or an
\* equals sign ends them early.  Returned are their places and the last place
\* that was read.
FirstFour(places, stop) ==
    IF Len(places) >= 4 THEN [places |-> SubSeq(places, 1, 4), at |-> places[4]] ELSE [places |-> places, at |-> stop]
DigitsTo(text, p, last) == SelectSeq([i \in 1 .. last |-> i], LAMBDA i : i >= p /\ text[i] \in Digits)
Read4To(text, p, stop) == FirstFour(DigitsTo(text, p, IF stop = 0 THEN Len(text) ELSE stop - 1), stop)
read4(text, p) == IF p = EOF THEN [places |-> <<>>, at |-> EOF] ELSE Read4To(text, p, FirstIn(text, p, {Dash, Eq}))

\* The bytes of complete and incomplete quanta.
Decoded(d) ==
    SubSeq(<<d[1] * 4 + d[2] \div 16,
             IF Len(d) > 2 THEN (d[2] % 16) * 16 + d[3] \div 4 ELSE 0,
             IF Len(d) > 3 THEN (d[3] % 4) * 64 + d[4] ELSE 0>>, 1, Len(d) - 1)
DigitsAt(text, places) == [k \in 1 .. Len(places) |-> text[places[k]]]

\* The checksum line, from behind its equals sign, and the dashes that follow.
Checksum(text, q, n, dash) ==
    [crc |-> IF Len(q.places) = 4 /\ Char(text, n) = LF /\ dash > 0 THEN Decoded(DigitsAt(text, q.places)) ELSE <<>>,
     pos |-> dash]
ChecksumFrom(text, q, n) == Checksum(text, q, n, ReadDashes(text, n + 1, 5))
ReadChecksumFrom(text, q) == ChecksumFrom(text, q, read_char(text, q.at + 1, TRUE))
ReadChecksum(text, p) == ReadChecksumFrom(text, read4(text, p))

\* What decode64 returns: "data" (three bytes), "last", "error", or "quiet", a
\* failure of which only stderr hears.
Failed(how) == [res |-> how, bytes |-> <<>>, pos |-> EOF]
\* (Mutant: the checksum is read and not compared.)
ChecksumIgnored(sum, crc) == TRUE
ChecksumMatters(sum, crc) == Crc(sum) = crc
LastBytes(k, bytes, sum) ==
    IF k.crc # <<>> /\ ChecksumMatters(sum \o bytes, k.crc)
    THEN [res |-> "last", bytes |-> bytes, pos |-> k.pos] ELSE Failed("error")
AtEnd(text, p, bytes, sum) == LastBytes(ReadChecksum(text, p), bytes, sum)

\* Behind the first equals sign of an incomplete quantum of n digits: its second
\* one, an end of line and the equals sign of the checksum; EOF if not.
PaddingEnd(text, l) == IF Char(text, l) = LF /\ l < Len(text) /\ text[l + 1] = Eq THEN l + 2 ELSE EOF
ReadPadding(text, p, n) ==
    IF n = 2 /\ (p > Len(text) \/ text[p] # Eq) THEN EOF
    ELSE PaddingEnd(text, eat_whitespace(text, IF n = 2 THEN p + 1 ELSE p))

IncompleteQuantum(text, q, k, sum) ==
    IF text[q.at] = Eq /\ k # EOF THEN AtEnd(text, k, Decoded(DigitsAt(text, q.places)), sum) ELSE Failed("error")
DecodeQuantum(text, q, n, sum) ==
    CASE n = 4 -> [res |-> "data", bytes |-> Decoded(DigitsAt(text, q.places)), pos |-> q.at + 1]
      [] n < 4 /\ q.at = EOF -> Failed("error")
      [] n = 1 /\ q.at # EOF -> Failed("quiet")
      [] n \in {2, 3} /\ q.at # EOF -> IncompleteQuantum(text, q, ReadPadding(text, q.at + 1, n), sum)
      [] n = 0 /\ q.at # EOF -> IF text[q.at] = Eq /\ prev_nl(text, q.at) THEN AtEnd(text, q.at + 1, <<>>, sum)
                                ELSE Failed("error")
DecodeFrom(text, q, sum) == DecodeQuantum(text, q, Len(q.places), sum)
decode64(text, p, sum) == DecodeFrom(text, read4(text, p), sum)

\* set_lastseen_headerline: a line that is not known is an error that ends the
\* reading, an end without its beginning is only recorded.
Known == {Begin(t) : t \in Types \ {"SECRET KEY BLOCK"}} \cup {End(t) : t \in Types \ {"SECRET KEY BLOCK", "SIGNED MESSAGE"}}
OutOfOrder(word, prev) == \E t \in Types : word = End(t) /\ prev # Begin(t)

-----------------------------------------------------------------------------
(* stream-armor.c                                                          *)
\* src_skip_eol: the place behind an end of line; 0: there is none.
EolAt(text, p) ==
    IF p > 0 /\ p <= Len(text) /\ text[p] = LF THEN p + 1
    ELSE IF p > 0 /\ p < Len(text) /\ text[p] = CR /\ text[p + 1] = LF THEN p + 2
    ELSE 0

\* A line from p on without its end, as src_peek_line finds it; NoLine: none
\* that is shorter than len.
NoLine == <<-1>>
LineTo(text, p, e, len) ==
    IF e = 0 \/ e - p >= len THEN NoLine ELSE SubSeq(text, p, IF e > p /\ text[e - 1] = CR THEN e - 2 ELSE e - 1)
LineAt(text, p, len) == LineTo(text, p, FirstIn(text, p, {LF}), len)

\* find_armor_header and armor_str_to_data_type: the first five dashes, and the
\* words up to the next five.
StreamTypes == Types \ {"PRIVATE KEY BLOCK"}
FiveDashes(text, p) == SelectInSubSeq([i \in 1 .. Len(text) |-> Piece(text, i, 5) = Dashes], p, Len(text), LAMBDA x : x)
HeaderLine(text, s, e) ==
    IF s > 0 /\ e > 0 /\ SubSeq(text, s + 5, e - 1) \in {<<Begin(t)>> : t \in StreamTypes} THEN e + 5 ELSE 0
HeaderLineFrom(text, s) == HeaderLine(text, s, IF s = 0 THEN 0 ELSE FiveDashes(text, s + 5))
armor_parse_header(text) == HeaderLineFrom(text, FiveDashes(text, 1))

\* Header lines of any kind up to an empty one; 0: the data end before.
RECURSIVE armor_parse_headers(_, _)
ArmorHeadersFrom(text, p, line) ==
    IF line = NoLine THEN 0
    ELSE IF line = <<>> THEN EolAt(text, p)
    ELSE armor_parse_headers(text, EolAt(text, p + Len(line)))
armor_parse_headers(text, p) == IF p = 0 THEN 0 ELSE ArmorHeadersFrom(text, p, LineAt(text, p, 1024))

\* 0 to 2 equals signs in front of an end of line, or the line of the checksum.
PaddingLine(text, p, line) ==
         CASE line \in {<<Eq>>, <<Eq, Eq>>} -> [n |-> Len(line), pos |-> EolAt(text, p + Len(line))]
          [] Len(line) = 5 -> [n |-> 0, pos |-> p]
          [] OTHER -> [n |-> -1, pos |-> p]
armor_read_padding(text, p) == PaddingLine(text, p, LineAt(text, p, 12))

ChecksumLine(text, p, line) ==
    IF Len(line) = 5 /\ line[1] = Eq /\ \A i \in 2 .. 5 : line[i] \in Digits
    THEN [crc |-> Decoded(Tail(line)), pos |-> EolAt(text, p + 5)] ELSE [crc |-> <<>>, pos |-> p]
armor_read_crc(text, p) == ChecksumLine(text, p, LineAt(text, p, 8))

armor_read_trailer(text, p, type) ==
    Piece(text, p, 11) = Dashes \o <<End(type)>> \o Dashes

\* The base64 digits of a block, up to an equals sign; blanks and ends of line
\* are ignored, any other character is an error.
BlockDigits(s, eof) ==
    [eof |-> eof, used |-> Len(s), bad |-> \E i \in 1 .. Len(s) : s[i] \notin Digits \cup {SP, CR, LF},
     digits |-> SelectSeq(s, LAMBDA c : c \in Digits)]
BlockTo(block, e) == BlockDigits(IF e = 0 THEN block ELSE SubSeq(block, 1, e - 1), e > 0)
ReadBlock(block) == BlockTo(block, FirstIn(block, 1, {Eq}))

Quanta(d) == FlattenSeq([i \in 1 .. Len(d) \div 4 |-> Decoded(SubSeq(d, 4 * i - 3, 4 * i))])

-----------------------------------------------------------------------------
(* stream-parse.c: the lines of a text that is signed.                     *)
RECURSIVE Stripped(_)
Stripped(line) == IF line # <<>> /\ Last(line) \in Blank THEN Stripped(Front(line)) ELSE line

\* A line, or a piece of one: escaping is removed, the end of the line before
\* is hashed, blanks at the end are dropped.  A line of dashes ends the text.
HashLine(s, body, eol) ==
    [s EXCEPT !.hash = @ \o (IF ~s.fline /\ ~s.mline THEN Crlf ELSE <<>>) \o (IF eol THEN Stripped(body) ELSE body),
              !.cut = @ \/ (~eol /\ body # <<>> /\ Last(body) \in Blank)]
cleartext_process_line(s, line, eol) ==
    IF s.mline \/ line = <<>> \/ line[1] # Dash THEN HashLine(s, line, eol)
    ELSE IF Len(line) > 1 /\ line[2] \in Blank THEN HashLine(s, SubSeq(line, 3, Len(line)), eol)
    ELSE IF Len(line) > 5 /\ SubSeq(line, 1, 5) = Dashes THEN [s EXCEPT !.eod = TRUE]
    ELSE HashLine(s, line, eol)

\* Where the first end of line of the block begins; 0: there is none.  A carriage
\* return at the end of the block may be one, which is not known yet.
EolStart(block, i) == IF i > 1 /\ block[i - 1] = CR THEN i - 1 ELSE i
EolIn(block) == EolStart(block, FirstIn(block, 1, {LF}))

\* The lines of a block; used counts what was processed.
RECURSIVE ProcessLines(_, _)
LineDone(t, block, n) ==
    IF t.eod THEN t
    ELSE ProcessLines([t EXCEPT !.fline = FALSE, !.mline = FALSE, !.used = @ + n], SubSeq(block, n + 1, Len(block)))
ProcessLine(s, block, i) ==
    IF i = 0 THEN s
    ELSE LineDone(cleartext_process_line(s, SubSeq(block, 1, i - 1), TRUE), block, EolAt(block, i) - 1)
ProcessLines(s, block) == ProcessLine(s, block, EolIn(block))

\* A block without an end of line is taken as it is, but for a carriage return
\* at its end.
\* (Mutant: what was taken is not skipped.)
DumpKept(s, piece) == [cleartext_process_line(s, piece, FALSE) EXCEPT !.mline = TRUE]
DumpPiece(s, piece) == [cleartext_process_line(s, piece, FALSE) EXCEPT !.mline = TRUE, !.used = Len(piece)]
DumpBlock(s, block) == DumpPiece(s, IF Last(block) = CR THEN Front(block) ELSE block)

BlockDone(t, block) == IF t.used = 0 /\ ~t.eod THEN DumpBlock(t, block) ELSE t
ProcessBlock(s, block) == BlockDone(ProcessLines([s EXCEPT !.used = 0], block), block)
=============================================================================
