------------------------------ MODULE HeaderLines ------------------------------
(***************************************************************************)
(* The header lines in front of armored and cleartext signed data:         *)
(* src_peek_line and src_skip_eol (stream-common.c) as they are used by    *)
(* armor_parse_headers (stream-armor.c) and cleartext_parse_headers        *)
(* (stream-parse.c).  A text is a sequence of line feeds "n", carriage     *)
(* returns "r" and other characters "x".                                   *)
(***************************************************************************)
EXTENDS Integers, Sequences, FiniteSets, SequencesExt

CONSTANTS
    Window,   \* the 64 bytes that src_peek_line peeks at a time
    BufLen,   \* size of the caller's buffer, 1024
    MaxText   \* bound: the longest text

ASSUME HeaderAssumption == Window \in Nat \ {0} /\ BufLen \in Nat \ {0} /\ MaxText \in Nat

Chars == {"x", "r", "n"}

VARIABLES
    text,   \* what the source has
    pos,    \* bytes consumed from it
    phase,  \* where the reader is; "done", "failed" and "ioerror" (a read or an
            \* allocation failed) are final
    clen,   \* local clen of src_peek_line
    buf,    \* the caller's buffer
    hdrlen, \* result of src_peek_line
    lines   \* the headers found so far

vars == <<text, pos, phase, clen, buf, hdrlen, lines>>

Texts == SeqOf(Chars, MaxText)

Init ==
    /\ text \in Texts
    /\ pos = 0 /\ phase = "peek" /\ clen = 0 /\ buf = <<>> /\ hdrlen = 0 /\ lines = <<>>

\* src_peek: the next n bytes, fewer at the end, and none of them consumed.
src_peek(n) == SubSeq(text, pos + 1, IF pos + n > Len(text) THEN Len(text) ELSE pos + n)

\* "we need some place for \0"
Limit == BufLen - 1

\* An iteration of src_peek_line: it peeks at the next Window bytes of the
\* source, which are the same in every iteration, and looks for a line feed.
PeekEndsAtError(chunk) == FALSE
PeekEnds(chunk) == chunk = <<>>

\* The loop over the bytes that were peeked: the index of the first line feed, or 0.
LineFeed(chunk) == SelectInSeq(chunk, LAMBDA c : c = "n")

\* The length of the line without its end, for a line feed at index n of buf.
LineLength(b, n) == IF n > 1 /\ b[n - 1] = "r" THEN n - 2 ELSE n - 1

src_peek_line ==
    /\ phase = "peek"
    /\ LET chunk == src_peek(IF clen + Window > Limit THEN Limit - clen ELSE Window)
           full  == buf \o chunk
           lf    == LineFeed(chunk)
       IN  \/ /\ PeekEnds(chunk)
              /\ phase' = "failed"
              /\ UNCHANGED <<clen, buf, hdrlen>>
           \/ /\ ~PeekEnds(chunk) /\ lf > 0
              /\ hdrlen' = LineLength(full, clen + lf)
              /\ phase' = "skip"
              /\ clen' = 0 /\ buf' = <<>>
           \/ /\ ~PeekEnds(chunk) /\ lf = 0
              /\ clen' = clen + Len(chunk)
              /\ buf' = full
              /\ phase' = IF clen + Len(chunk) < Limit THEN "peek" ELSE "failed"
              /\ UNCHANGED hdrlen
    /\ UNCHANGED <<text, pos, lines>>

\* A read error of the source.
PeekFails ==
    /\ phase = "peek"
    /\ phase' = "ioerror"
    /\ UNCHANGED <<text, pos, clen, buf, hdrlen, lines>>

\* How many bytes src_skip_eol skips at offset p; 0 when there is no end of line.
EolAtLF(p) == IF p < Len(text) /\ text[p + 1] = "n" THEN 1 ELSE 0
EolAt(p) ==
    IF p < Len(text) /\ text[p + 1] = "n" THEN 1
    ELSE IF p + 1 < Len(text) /\ text[p + 1] = "r" /\ text[p + 2] = "n" THEN 2
    ELSE 0

\* The header is taken, skipped with its end of line, and an empty line ends
\* the headers.
parse_headers ==
    /\ phase = "skip"
    /\ lines' = IF hdrlen > 0 THEN Append(lines, SubSeq(text, pos + 1, pos + hdrlen)) ELSE lines
    /\ pos' = pos + hdrlen + EolAt(pos + hdrlen)
    /\ phase' = CASE EolAt(pos + hdrlen) = 0 -> "failed"
                  [] EolAt(pos + hdrlen) > 0 /\ hdrlen = 0 -> "done"
                  [] OTHER -> "peek"
    /\ UNCHANGED <<text, clen, buf, hdrlen>>

\* No memory for the value of a header (armor_parse_headers).
HeaderAllocFails ==
    /\ phase = "skip" /\ hdrlen > 0
    /\ phase' = "ioerror"
    /\ UNCHANGED <<text, pos, clen, buf, hdrlen, lines>>

Ended == phase \in {"done", "failed", "ioerror"} /\ UNCHANGED vars

Next == src_peek_line \/ PeekFails \/ parse_headers \/ HeaderAllocFails \/ Ended

\* Peeking at a source returns, and the parser does not stop in between.
Spec == Init /\ [][Next]_vars /\ WF_vars(src_peek_line) /\ WF_vars(parse_headers)

-----------------------------------------------------------------------------
\* Types of the variables; clen never exceeds the caller's buffer.
TypeOK ==
    /\ text \in Texts /\ pos \in 0 .. Len(text)
    /\ phase \in {"peek", "skip", "done", "failed", "ioerror"}
    /\ clen \in 0 .. Limit /\ buf \in Seq(Chars) /\ Len(buf) = clen
    /\ hdrlen \in 0 .. Limit /\ lines \in Seq(Seq(Chars))

\* Reference: the offset behind each line feed, and the lines between them.
Ends == {i \in 1 .. Len(text) : text[i] = "n"}
Starts == {0} \cup Ends
EndOf(s) == CHOOSE e \in Ends : e > s /\ \A d \in Ends : d > s => e <= d
LineAt(s) ==
    LET e == EndOf(s)
    IN  SubSeq(text, s + 1, IF e - 1 > s /\ text[e - 1] = "r" THEN e - 2 ELSE e - 1)
HasEnd(s) == \E e \in Ends : e > s
Fits(s) == HasEnd(s) /\ EndOf(s) - s <= Limit

\* Where the headers end: the first empty line.
EmptyLines == {s \in Starts : HasEnd(s) /\ LineAt(s) = <<>>}
HeadersEnd == CHOOSE s \in EmptyLines : \A r \in EmptyLines : s <= r
WellFormed ==
    /\ EmptyLines # {}
    /\ \A s \in Starts : s <= HeadersEnd => Fits(s)

\* The lines in front of the one at s.
Before(s) == Cardinality({e \in Ends : e <= s})

\* The headers were read to the empty line, each of them as the text has it.
ReadExactly ==
    /\ WellFormed
    /\ pos = EndOf(HeadersEnd)
    /\ Len(lines) = Before(HeadersEnd)
    /\ \A s \in Starts : s < HeadersEnd => lines[Before(s) + 1] = LineAt(s)

\* A header line, the empty one included, whose line feed is not among the bytes of the window.
LongLine == \E s \in Starts : s <= HeadersEnd /\ EndOf(s) - s > Window

\* The headers are read to the empty line, exactly as the text has them, with both ends of line,
\* or parsing fails; and it fails only if there is no empty line or a line in front of it does
\* not fit the buffer, with one exception: a line that fits the buffer and not the window is
\* always refused, since src_peek_line peeks at the same bytes again.
HeadersExact ==
    /\ phase = "failed" => ~WellFormed \/ LongLine
    /\ phase = "done" => ReadExactly /\ ~LongLine

\* src_peek_line: "-1 is returned if there were eof, read error or eol was not found within the
\* len": parsing fails only if the headers do not end or a line does not fit the buffer.
FailsAsPromised == phase = "failed" => ~WellFormed

\* The parser comes to an end on every text, also on one that stops early.
HeadersEndReached == <>(phase \in {"done", "failed", "ioerror"})
=============================================================================
