---------------------------- MODULE ArmorWriters ----------------------------
(***************************************************************************)
(* How armored and cleartext signed data are written: dash_esc_writer,     *)
(* base64_writer and linebreak_writer (writer.c), and the armored          *)
(* destination (stream-armor.c).  A character is a number: a base64 digit  *)
(* is its value, the others follow.  The text between the dashes of a      *)
(* header line is one character, and so is a header such as "Hash: SHA1".  *)
(***************************************************************************)
EXTENDS Integers, Sequences, SequencesExt

CONSTANT LineLen   \* characters of a base64 line: BREAKPOS, llen; 76

\* A line of base64 is longer than the last line of the armor.
ASSUME LineAssumption == LineLen \in Nat /\ LineLen > 11 /\ LineLen % 4 = 0

Digits == 0 .. 63
Eq == 64
Dash == 65
LF == 66
CR == 67
SP == 68
Header == 70     \* a header line without its end

\* The words of header lines, by the type of the data.
Types == {"MESSAGE", "PUBLIC KEY BLOCK", "PRIVATE KEY BLOCK", "SECRET KEY BLOCK", "SIGNATURE", "SIGNED MESSAGE"}
Number(type) == CASE type = "MESSAGE" -> 1 [] type = "PUBLIC KEY BLOCK" -> 2 [] type = "PRIVATE KEY BLOCK" -> 3
                  [] type = "SECRET KEY BLOCK" -> 4 [] type = "SIGNATURE" -> 5 [] OTHER -> 6
Begin(type) == 80 + Number(type)
End(type) == 90 + Number(type)
Dashes == <<Dash, Dash, Dash, Dash, Dash>>
Crlf == <<CR, LF>>
Named(word) == Dashes \o <<word>> \o Dashes \o Crlf

\* A left fold, for operators that use the accumulated value more than once: TLC
\* evaluates each value once.
Fold(op(_, _), base, seq) ==
    LET f[i \in 0 .. Len(seq)] ==
            IF i = 0 THEN base ELSE CHOOSE y \in {op(x, seq[i]) : x \in {f[i - 1]}} : TRUE
    IN  f[Len(seq)]

\* Stands for the CRC-24 of the data (pgp_crc24): three bytes that tell the
\* data of an instance and their damaged forms apart.
Crc(bytes) ==
    LET add(a, b) == <<(a[1] + b + 1) % 256, (a[2] + 3 * a[1] + b) % 256, (a[3] + 7 * a[2] + b) % 256>>
    IN  Fold(add, <<183, 4, 206>>, bytes)

-----------------------------------------------------------------------------
(* writer.c: a base64 writer in front of a line breaking writer.           *)
NoArmor == [out |-> <<>>, column |-> 0, pos |-> 0, t |-> 0, sum |-> <<>>]

\* A character passes linebreak_writer.
linebreak_writer(w, c) ==
    LET column == IF c \in {CR, LF} THEN 0 ELSE w.column
        break  == column = LineLen
    IN  [w EXCEPT !.out = @ \o (IF break THEN Crlf ELSE <<>>) \o <<c>>,
                  !.column = (IF break THEN 0 ELSE column) + 1]

Through(w, chars) == Fold(linebreak_writer, w, chars)

\* A byte passes base64_writer: pos and t keep what is left of the byte before.
base64_writer(w, b) ==
    LET s == [w EXCEPT !.sum = Append(@, b)]
    IN  CASE w.pos = 0 -> [Through(s, <<b \div 4>>) EXCEPT !.pos = 1, !.t = (b % 4) * 16]
          [] w.pos = 1 -> [Through(s, <<w.t + b \div 16>>) EXCEPT !.pos = 2, !.t = (b % 16) * 4]
          [] OTHER     -> [Through(s, <<w.t + b \div 64, b % 64>>) EXCEPT !.pos = 0]

\* The rest of a quantum, its padding, the checksum and the last line.
armored_message_finaliser(w, type) ==
    LET rest == CASE w.pos = 1 -> <<w.t, Eq, Eq>> [] w.pos = 2 -> <<w.t, Eq>> [] OTHER -> <<>>
        data == [Through(w, rest \o Crlf \o <<Eq>>) EXCEPT !.pos = 0]
    IN  Through(Fold(base64_writer, data, Crc(w.sum)), Crlf \o Named(End(type)))

\* Header lines: a version only in front of keys and cleartext signatures.  A
\* signature below a text pops dash_esc_writer and starts a line of its own.
pgp_writer_push_armored(out, type, clear) ==
    [NoArmor EXCEPT !.out = out
        \o (IF clear THEN Crlf ELSE <<>>) \o Named(Begin(type))
        \o (IF clear \/ type \in {"PUBLIC KEY BLOCK", "PRIVATE KEY BLOCK"}
            THEN <<Header>> \o Crlf \o Crlf ELSE Crlf)]

-----------------------------------------------------------------------------
(* writer.c: text that is signed and stays readable.                       *)
pgp_writer_push_clearsigned ==
    [out |-> Named(Begin("SIGNED MESSAGE")) \o <<Header>> \o Crlf \o Crlf,
     seen_nl |-> TRUE, seen_cr |-> FALSE, trailing |-> <<>>, hash |-> <<>>]

Blank == {SP}

\* A character passes dash_esc_writer: ends of line become CR LF, a dash at the
\* start of a line is escaped, and blanks are hashed when the line goes on.
\* (Mutant: trailing blanks are hashed.)
BlanksCount(d, c) == TRUE
BlanksCounted(d, c) == c \notin {LF, CR}
dash_esc_writer(d, c) ==
    LET nl     == c = LF
        cr     == IF nl /\ ~d.seen_cr THEN <<CR>> ELSE <<>>
        lf     == IF d.seen_cr /\ ~nl THEN <<LF>> ELSE <<>>
        escape == IF (d.seen_nl \/ d.seen_cr) /\ c = Dash THEN <<Dash, SP>> ELSE <<>>
    IN  [out      |-> d.out \o cr \o lf \o escape \o <<c>>,
         seen_nl  |-> nl,
         seen_cr  |-> c = CR,
         trailing |-> IF c \in Blank THEN Append(d.trailing, c) ELSE <<>>,
         hash     |-> d.hash \o cr \o lf
                      \o (IF c \in Blank THEN <<>>
                          ELSE (IF BlanksCounted(d, c) THEN d.trailing ELSE <<>>) \o <<c>>)]

-----------------------------------------------------------------------------
(* stream-armor.c: the armored destination.                                *)
init_armored_dst(type) ==
    [out |-> Named(Begin(type)) \o <<Header>> \o Crlf \o Crlf, lout |-> 0, tail |-> <<>>, sum |-> <<>>]

armored_encode3(b) ==
    <<b[1] \div 4, (b[1] % 4) * 16 + b[2] \div 16, (b[2] % 16) * 4 + b[3] \div 64, b[3] % 64>>
Encoded(bytes) == FlattenSeq([i \in 1 .. Len(bytes) \div 3 |->
                      armored_encode3(SubSeq(bytes, 3 * i - 2, 3 * i))])

\* Whole lines as long as there are bytes for them, then what is left of whole
\* quanta, then the tail.
RECURSIVE EncodeLines(_, _)
EncodeLines(w, bytes) ==
    IF Len(bytes) < 3 THEN [w EXCEPT !.tail = bytes]
    ELSE LET room  == ((LineLen - w.lout) \div 4) * 3
             short == room > Len(bytes)
             n     == IF short THEN (Len(bytes) \div 3) * 3 ELSE room
             lout  == IF short THEN w.lout + (n \div 3) * 4 ELSE 0
         IN  EncodeLines([w EXCEPT !.out = @ \o Encoded(SubSeq(bytes, 1, n)) \o (IF lout = 0 THEN Crlf ELSE <<>>),
                                   !.lout = lout],
                         SubSeq(bytes, n + 1, Len(bytes)))

\* The quantum that the tail of an earlier call begins.
TailQuantum(w, three) ==
    LET lout == w.lout + 4
    IN  [w EXCEPT !.out = @ \o armored_encode3(three) \o (IF lout = LineLen THEN Crlf ELSE <<>>),
                  !.lout = IF lout = LineLen THEN 0 ELSE lout, !.tail = <<>>]

\* (Mutant: a short write replaces the tail.)
armored_dst_write_over(w, chunk) ==
    EncodeLines([w EXCEPT !.sum = @ \o chunk], chunk)
armored_dst_write(w, chunk) ==
    LET s   == [w EXCEPT !.sum = @ \o chunk]
        all == w.tail \o chunk
        n   == 3 - Len(w.tail)
    IN  CASE Len(all) < 3 -> [s EXCEPT !.tail = all]
          [] Len(all) >= 3 /\ w.tail # <<>> ->
                EncodeLines(TailQuantum(s, SubSeq(all, 1, 3)), SubSeq(chunk, n + 1, Len(chunk)))
          [] OTHER -> EncodeLines(s, chunk)

\* The tail with its padding, the checksum and the last line.
armored_dst_finish(w, type) ==
    LET b    == w.tail
        last == CASE Len(b) = 1 -> <<b[1] \div 4, (b[1] % 4) * 16, Eq, Eq>>
                  [] Len(b) = 2 -> <<b[1] \div 4, (b[1] % 4) * 16 + b[2] \div 16, (b[2] % 16) * 4, Eq>>
                  [] OTHER -> <<>>
        eol  == IF Len(b) > 0 \/ w.lout > 0 THEN Crlf ELSE <<>>
    IN  w.out \o last \o eol \o <<Eq>> \o armored_encode3(Crc(w.sum)) \o Crlf \o Named(End(type))
=============================================================================
