-------------------------- MODULE HeaderLinesProofs --------------------------
(***************************************************************************)
(* What the readers of header lines return, for every window, buffer and   *)
(* text.  The invariant IInv says where the reader is in the text: at the  *)
(* start of a line, behind lines that fit and are not empty, with a header *)
(* kept for each of them.  While a line is looked for, no line feed is     *)
(* among the bytes that were peeked: every iteration sees the same ones.   *)
(***************************************************************************)
EXTENDS HeaderLines, FiniteSetTheorems, WellFoundedInduction, TLAPS

-----------------------------------------------------------------------------
(* Lines of a text. *)

\* The natural numbers are well ordered.
LEMMA Least ==
    ASSUME NEW T, T \subseteq Nat, T # {}
    PROVE  \E x \in T : \A y \in T : x <= y
<1>1. IsWellFoundedOn(OpToRel(<, Nat), Nat)
    BY NatLessThanWellFounded
<1>2. \E x \in T : \A y \in T : ~(<<y, x>> \in OpToRel(<, Nat))
    BY <1>1, WFMin, Zenon
<1>3. ASSUME NEW x \in Nat, NEW y \in Nat, ~(<<y, x>> \in OpToRel(<, Nat)) PROVE x <= y
    <2>1. <<y, x>> \in Nat \X Nat
        OBVIOUS
    <2>2. ~(y < x)
        BY <1>3, <2>1 DEF OpToRel
    <2> QED BY <2>2
<1> QED BY <1>2, <1>3

\* A text is a sequence of characters.
LEMMA TextFacts ==
    ASSUME NEW t \in Texts PROVE t \in Seq(Chars)
<1>1. t \in UNION {[1 .. m -> Chars] : m \in 0 .. MaxText}
    BY DEF Texts, SeqOf
<1>2. PICK m \in 0 .. MaxText : t \in [1 .. m -> Chars]
    BY <1>1, Zenon
<1>3. m \in Nat
    BY <1>2, HeaderAssumption
<1> QED BY <1>1, <1>2, <1>3

\* The lines begin at 0 and behind the line feeds.
LEMMA StartFacts ==
    ASSUME text \in Seq(Chars)
    PROVE  /\ Ends \subseteq 1 .. Len(text) /\ Starts \subseteq 0 .. Len(text)
           /\ Starts \subseteq Nat /\ 0 \in Starts /\ Ends \subseteq Starts
           /\ \A s \in Starts : s > 0 => s \in Ends
BY DEF Starts, Ends

\* The number of characters of the line at s, without its end.
LineLen(s) ==
    IF EndOf(s) - 1 > s /\ text[EndOf(s) - 1] = "r" THEN EndOf(s) - 2 - s ELSE EndOf(s) - 1 - s

\* A line ends with the first line feed behind its start.
LEMMA EndFacts ==
    ASSUME text \in Seq(Chars), NEW s \in Starts, HasEnd(s)
    PROVE  /\ EndOf(s) \in Ends /\ EndOf(s) > s /\ EndOf(s) \in Nat
           /\ \A d \in Ends : d > s => EndOf(s) <= d
<1> DEFINE T == {e \in Ends : e > s}
<1>1. T \subseteq Nat /\ T # {}
    BY StartFacts DEF HasEnd
<1>2. \E x \in T : \A y \in T : x <= y
    BY <1>1, Least
<1>3. \E e \in Ends : e > s /\ \A d \in Ends : d > s => e <= d
    BY <1>2
<1>4. EndOf(s) \in Ends /\ EndOf(s) > s /\ \A d \in Ends : d > s => EndOf(s) <= d
    BY <1>3, Zenon DEF EndOf
<1> QED BY <1>4, StartFacts

LEMMA LineFacts ==
    ASSUME text \in Seq(Chars), NEW s \in Starts, HasEnd(s)
    PROVE  /\ LineLen(s) \in Nat /\ s + LineLen(s) < EndOf(s)
           /\ LineAt(s) = SubSeq(text, s + 1, s + LineLen(s))
           /\ LineAt(s) \in Seq(Chars) /\ Len(LineAt(s)) = LineLen(s)
           /\ LineAt(s) = <<>> <=> LineLen(s) = 0
<1>1. PICK e \in Nat : e = EndOf(s)
    BY EndFacts
<1>2. e > s /\ e \in 1 .. Len(text) /\ s \in Nat
    BY <1>1, EndFacts, StartFacts
<1>3. PICK n \in Int : n = LineLen(s)
    BY <1>1, <1>2 DEF LineLen
<1>4. n = IF e - 1 > s /\ text[e - 1] = "r" THEN e - 2 - s ELSE e - 1 - s
    BY <1>1, <1>3 DEF LineLen
<1>5. n \in Nat /\ s + n < e
    BY <1>2, <1>4
<1>6. LineAt(s) = SubSeq(text, s + 1, s + n)
    BY <1>1, <1>2, <1>4 DEF LineAt
<1>7. s + 1 \in Nat /\ s + n <= Len(text) /\ s + n \in Nat
    BY <1>2, <1>5
<1>8. SubSeq(text, s + 1, s + n) \in Seq(Chars) /\ Len(SubSeq(text, s + 1, s + n)) = n
    BY <1>2, <1>5, <1>7
<1>9. LineAt(s) \in Seq(Chars) /\ Len(LineAt(s)) = n
    BY <1>6, <1>8
<1>10. LineAt(s) = <<>> <=> n = 0
    BY <1>9
<1> QED BY <1>1, <1>3, <1>5, <1>6, <1>9, <1>10

\* Before counts the lines: each one has one line more in front of it.
LEMMA BeforeFacts ==
    ASSUME text \in Seq(Chars)
    PROVE  /\ Before(0) = 0
           /\ \A s \in Starts : Before(s) \in Nat
           /\ \A s, r \in Starts : s < r => Before(s) < Before(r)
           /\ \A s \in Starts : HasEnd(s) => Before(EndOf(s)) = Before(s) + 1
<1> DEFINE B(b) == {x \in Ends : x <= b}
<1>1. \A s \in Nat : B(s) \subseteq Ends
    OBVIOUS
<1>2. IsFiniteSet(Ends)
    <2>1. IsFiniteSet(1 .. Len(text))
        BY FS_Interval
    <2> QED BY <2>1, StartFacts, FS_Subset
<1>3. \A s \in Nat : IsFiniteSet(B(s)) /\ Cardinality(B(s)) \in Nat
    BY <1>1, <1>2, FS_Subset, FS_CardinalityType
<1>4. \A s : Before(s) = Cardinality(B(s))
    BY DEF Before
<1>5. Before(0) = 0
    <2>1. B(0) = {}
        BY StartFacts
    <2> QED BY <1>4, <2>1, FS_EmptySet
<1>6. \A s \in Starts : Before(s) \in Nat
    BY <1>3, <1>4, StartFacts
<1>7. ASSUME NEW s \in Starts, NEW r \in Starts, s < r PROVE Before(s) < Before(r)
    <2>1. s \in Nat /\ r \in Nat /\ r \in Ends
        BY <1>7, StartFacts
    <2>2. B(s) \subseteq B(r) /\ r \in B(r) /\ r \notin B(s)
        <3>1. \A e \in Ends : e \in Nat
            BY StartFacts
        <3>2. \A x : (x \in B(s) <=> x \in Ends /\ x <= s) /\ (x \in B(r) <=> x \in Ends /\ x <= r)
            BY Zenon
        <3>3. \A x \in Ends : x <= s => x <= r
            BY <1>7, <2>1, <3>1
        <3>4. r <= r /\ ~(r <= s)
            BY <1>7, <2>1
        <3> QED BY <2>1, <3>2, <3>3, <3>4, Zenon
    <2>3. PICK p, q : p = Cardinality(B(s)) /\ q = Cardinality(B(r))
        OBVIOUS
    <2>4. p <= q /\ (q = p => B(r) = B(s))
        BY <1>3, <2>1, <2>2, <2>3, FS_Subset
    <2>5. p \in Nat /\ q \in Nat /\ q # p
        BY <1>3, <2>1, <2>2, <2>3, <2>4
    <2>6. p < q
        BY <2>4, <2>5
    <2> QED BY <1>4, <2>3, <2>6
<1>8. ASSUME NEW s \in Starts, HasEnd(s) PROVE Before(EndOf(s)) = Before(s) + 1
    <2>1. PICK e \in Nat : e = EndOf(s)
        BY <1>8, EndFacts
    <2>2. e \in Ends /\ e > s /\ s \in Nat /\ \A d \in Ends : d > s => e <= d
        BY <1>8, <2>1, EndFacts, StartFacts
    <2>3. B(e) = B(s) \cup {e} /\ e \notin B(s)
        <3>1. \A d \in Ends : d \in Nat
            BY StartFacts
        <3>2. \A d \in Ends : d <= e <=> d <= s \/ d = e
            BY <2>2, <3>1
        <3>3. \A x : (x \in B(s) <=> x \in Ends /\ x <= s) /\ (x \in B(e) <=> x \in Ends /\ x <= e)
            BY Zenon
        <3>4. ~(e <= s)
            BY <2>2
        <3> QED BY <2>2, <3>2, <3>3, <3>4, Zenon
    <2>4. Cardinality(B(s) \cup {e}) = Cardinality(B(s)) + 1
        BY <1>3, <2>2, <2>3, FS_AddElement
    <2> QED BY <1>4, <2>1, <2>3, <2>4
<1> QED BY <1>5, <1>6, <1>7, <1>8

-----------------------------------------------------------------------------
(* The invariant. *)

\* The bytes that an iteration can see.
First == IF Window > Limit THEN Limit ELSE Window

\* The reader is at the start of a line; the lines in front of it are headers.
AtLine ==
    /\ pos \in Starts
    /\ \A s \in Starts : s < pos => Fits(s) /\ LineAt(s) # <<>>
    /\ \A s \in Starts : s < pos => EndOf(s) - s <= Window
    /\ Len(lines) = Before(pos)
    /\ \A s \in Starts : s < pos => lines[Before(s) + 1] = LineAt(s)

\* None of the bytes that can be seen is a line feed.
NoFeed == \A i \in 1 .. First : pos + i <= Len(text) => text[pos + i] # "n"

\* The line was found.
Found == HasEnd(pos) /\ EndOf(pos) - pos <= First /\ hdrlen = LineLen(pos)

IInv ==
    /\ TypeOK
    /\ phase \in {"peek", "skip"} => AtLine
    /\ phase = "peek" => (clen = 0 \/ (clen < Limit /\ NoFeed))
    /\ phase = "skip" => Found
    /\ phase \in {"skip", "done"} => clen = 0
    /\ phase = "done" => ReadExactly /\ ~LongLine
    /\ phase = "failed" => ~WellFormed \/ LongLine

-----------------------------------------------------------------------------
(* Steps. *)

LEMMA Numbers ==
    /\ Window \in Nat /\ Window > 0 /\ Limit \in Nat /\ First \in Nat
    /\ First <= Window /\ First <= Limit /\ First \in {Window, Limit}
BY HeaderAssumption DEF Limit, First

\* The first of the empty lines.
LEMMA EndOfHeaders ==
    ASSUME text \in Seq(Chars), EmptyLines # {}
    PROVE  /\ HeadersEnd \in EmptyLines /\ HeadersEnd \in Starts /\ HeadersEnd \in Nat
           /\ \A r \in EmptyLines : HeadersEnd <= r
<1>1. EmptyLines \subseteq Starts
    BY DEF EmptyLines
<1>2. EmptyLines \subseteq Nat
    BY <1>1, StartFacts
<1>3. \E x \in EmptyLines : \A y \in EmptyLines : x <= y
    BY <1>2, Least
<1>4. HeadersEnd \in EmptyLines /\ \A r \in EmptyLines : HeadersEnd <= r
    BY <1>3, Zenon DEF HeadersEnd
<1> QED BY <1>1, <1>2, <1>4

\* A line that does not fit behind headers: the text is not well formed; and a line whose end
\* is behind the window is one of the headers.
LEMMA Misfit ==
    ASSUME text \in Seq(Chars), AtLine, ~Fits(pos) \/ EndOf(pos) - pos > Window
    PROVE  ~WellFormed \/ LongLine
<1>1. SUFFICES ASSUME WellFormed, ~LongLine PROVE FALSE
    OBVIOUS
<1>2. EmptyLines # {} /\ \A s \in Starts : s <= HeadersEnd => Fits(s)
    BY <1>1, Zenon DEF WellFormed
<1>3. HeadersEnd \in EmptyLines /\ HeadersEnd \in Starts /\ HeadersEnd \in Nat
    BY <1>2, EndOfHeaders
<1>4. LineAt(HeadersEnd) = <<>>
    BY <1>3 DEF EmptyLines
<1>5. pos \in Starts /\ pos \in Nat
    BY StartFacts DEF AtLine
<1>6. ~(HeadersEnd < pos)
    BY <1>3, <1>4, Zenon DEF AtLine
<1>7. pos <= HeadersEnd
    BY <1>3, <1>5, <1>6
<1> QED BY <1>1, <1>2, <1>5, <1>7, Zenon DEF LongLine

\* A line whose end cannot be seen does not fit the buffer, or the window.
LEMMA Unseen ==
    ASSUME TypeOK, AtLine, NoFeed PROVE ~Fits(pos) \/ EndOf(pos) - pos > Window
<1>1. SUFFICES ASSUME Fits(pos) PROVE EndOf(pos) - pos > Window
    OBVIOUS
<1>2. text \in Seq(Chars)
    BY TextFacts DEF TypeOK
<1>3. pos \in Starts /\ pos \in Nat
    BY <1>2, StartFacts DEF AtLine
<1>4. HasEnd(pos) /\ EndOf(pos) - pos <= Limit
    BY <1>1, Zenon DEF Fits
<1>5. PICK e \in Nat : e = EndOf(pos)
    BY <1>2, <1>3, <1>4, EndFacts
<1>6. e \in Ends /\ e > pos
    BY <1>2, <1>3, <1>4, <1>5, EndFacts
<1>7. e \in 1 .. Len(text) /\ text[e] = "n" /\ Len(text) \in Nat
    BY <1>2, <1>6 DEF Ends
<1>8. e - pos > First
    <2>1. SUFFICES ASSUME ~(e - pos > First) PROVE FALSE
        OBVIOUS
    <2>2. e - pos \in 1 .. First /\ pos + (e - pos) = e /\ e <= Len(text)
        BY <1>3, <1>5, <1>6, <1>7, <2>1, Numbers
    <2>3. text[pos + (e - pos)] # "n"
        BY <2>2 DEF NoFeed
    <2> QED BY <1>7, <2>2, <2>3
<1>9. First = Window
    BY <1>3, <1>4, <1>5, <1>8, Numbers
<1> QED BY <1>5, <1>8, <1>9

\* The bytes that are peeked at.
LEMMA PeekFacts ==
    ASSUME text \in Seq(Chars), pos \in 0 .. Len(text), NEW n \in Nat
    PROVE  /\ src_peek(n) \in Seq(Chars)
           /\ Len(src_peek(n)) = IF pos + n > Len(text) THEN Len(text) - pos ELSE n
           /\ \A i \in 1 .. Len(src_peek(n)) : src_peek(n)[i] = text[pos + i]
<1>1. PICK m \in Nat : m = IF pos + n > Len(text) THEN Len(text) ELSE pos + n
    OBVIOUS
<1>2. m >= pos /\ m <= Len(text) /\ pos \in Nat
    BY <1>1
<1>3. src_peek(n) = SubSeq(text, pos + 1, m)
    BY <1>1 DEF src_peek
<1>4. /\ SubSeq(text, pos + 1, m) \in Seq(Chars) /\ Len(SubSeq(text, pos + 1, m)) = m - pos
      /\ \A i \in 1 .. m - pos : SubSeq(text, pos + 1, m)[i] = text[pos + i]
    BY <1>2
<1>5. m - pos = IF pos + n > Len(text) THEN Len(text) - pos ELSE n
    BY <1>1, <1>2
<1> QED BY <1>3, <1>4, <1>5

\* The first line feed.
LEMMA FeedFacts ==
    ASSUME NEW c \in Seq(Chars)
    PROVE  /\ LineFeed(c) = 0 => \A i \in 1 .. Len(c) : c[i] # "n"
           /\ LineFeed(c) # 0 => /\ LineFeed(c) \in 1 .. Len(c) /\ c[LineFeed(c)] = "n"
                                 /\ \A i \in 1 .. Len(c) : c[i] = "n" => LineFeed(c) <= i
           /\ LineFeed(c) \in Nat
<1>1. PICK I : I = {i \in 1 .. Len(c) : c[i] = "n"}
    OBVIOUS
<1>2. PICK n : n = LineFeed(c)
    OBVIOUS
<1>3. n = IF I # {} THEN CHOOSE x \in I : \A y \in I : x <= y ELSE 0
    BY <1>1, <1>2 DEF LineFeed, SelectInSeq, Min
<1>4. CASE I = {}
    BY <1>1, <1>2, <1>3, <1>4
<1>5. CASE I # {}
    <2>1. I \subseteq Nat
        BY <1>1
    <2>2. \E x \in I : \A y \in I : x <= y
        BY <1>5, <2>1, Least
    <2>3. n \in I /\ \A y \in I : n <= y
        BY <1>3, <1>5, <2>2, Zenon
    <2> QED BY <1>1, <1>2, <2>3
<1> QED BY <1>4, <1>5

\* What depends on the text only stays when the text does.
LEMMA SameText ==
    ASSUME text' = text
    PROVE  /\ Starts' = Starts /\ (WellFormed' <=> WellFormed) /\ HeadersEnd' = HeadersEnd
           /\ (LongLine' <=> LongLine)
           /\ \A s : /\ LineAt(s)' = LineAt(s) /\ (Fits(s)' <=> Fits(s)) /\ Before(s)' = Before(s)
                     /\ (HasEnd(s)' <=> HasEnd(s)) /\ EndOf(s)' = EndOf(s) /\ LineLen(s)' = LineLen(s)
BY DEF Starts, Ends, WellFormed, LongLine, EmptyLines, HeadersEnd, LineAt, Fits, HasEnd, EndOf, Before, LineLen

\* Sequences of characters.
LEMMA Concat ==
    ASSUME NEW a \in Seq(Chars), NEW b \in Seq(Chars)
    PROVE  a \o b \in Seq(Chars) /\ Len(a \o b) = Len(a) + Len(b)
OBVIOUS

\* A step that stays on the line keeps what is known of it.
LEMMA LineKept ==
    ASSUME AtLine, UNCHANGED <<text, pos, lines>> PROVE AtLine'
<1>1. pos' = pos /\ lines' = lines /\ text' = text
    OBVIOUS
<1> QED BY <1>1, SameText, Zenon DEF AtLine

\* An iteration of src_peek_line.
LEMMA PeekStep ==
    ASSUME IInv, src_peek_line PROVE IInv'
<1>0. TypeOK /\ AtLine /\ phase = "peek" /\ (clen = 0 \/ (clen < Limit /\ NoFeed))
    BY Zenon DEF IInv, src_peek_line
<1>1. /\ text \in Texts /\ text \in Seq(Chars) /\ pos \in 0 .. Len(text) /\ clen \in 0 .. Limit
      /\ buf \in Seq(Chars) /\ Len(buf) = clen /\ hdrlen \in 0 .. Limit /\ lines \in Seq(Seq(Chars))
    BY <1>0, TextFacts DEF TypeOK
<1>2. text' = text /\ pos' = pos /\ lines' = lines
    BY DEF src_peek_line
<1>3. AtLine'
    BY <1>0, <1>2, LineKept
<1>4. PICK n \in Nat : n = IF clen + Window > Limit THEN Limit - clen ELSE Window
    <2>1. (IF clen + Window > Limit THEN Limit - clen ELSE Window) \in Nat
        BY <1>1, Numbers
    <2> QED BY <2>1, Zenon
<1>5. n <= First /\ clen + n <= Limit /\ (clen = 0 => n = First) /\ (clen < Limit => n > 0)
    BY <1>1, <1>4, Numbers DEF First
<1>6. PICK c \in Seq(Chars) : c = src_peek(n)
    BY <1>1, PeekFacts
<1>7. /\ Len(c) = IF pos + n > Len(text) THEN Len(text) - pos ELSE n
      /\ \A i \in 1 .. Len(c) : c[i] = text[pos + i]
    BY <1>1, <1>6, PeekFacts
<1>8. Len(c) \in Nat /\ Len(c) <= n /\ pos + Len(c) <= Len(text) /\ pos \in Nat /\ clen \in Nat
    BY <1>1, <1>7
<1>9. \/ c = <<>> /\ phase' = "failed" /\ UNCHANGED <<clen, buf, hdrlen>>
      \/ /\ c # <<>> /\ LineFeed(c) > 0 /\ hdrlen' = LineLength(buf \o c, clen + LineFeed(c))
         /\ phase' = "skip" /\ clen' = 0 /\ buf' = <<>>
      \/ /\ c # <<>> /\ LineFeed(c) = 0 /\ clen' = clen + Len(c) /\ buf' = buf \o c
         /\ phase' = (IF clen + Len(c) < Limit THEN "peek" ELSE "failed") /\ hdrlen' = hdrlen
    BY <1>4, <1>6, Zenon DEF src_peek_line, PeekEnds
<1>10. LineFeed(c) = 0 => NoFeed \/ clen > 0
    <2>1. SUFFICES ASSUME LineFeed(c) = 0, clen = 0, NEW i \in 1 .. First, pos + i <= Len(text)
                   PROVE  text[pos + i] # "n"
        BY <1>8, Numbers DEF NoFeed
    <2>2. i \in 1 .. Len(c)
        BY <1>5, <1>7, <1>8, <2>1, Numbers
    <2>3. c[i] # "n"
        BY <2>1, <2>2, FeedFacts
    <2> QED BY <1>7, <2>2, <2>3
<1>11. LineFeed(c) # 0 => clen = 0
    <2>1. SUFFICES ASSUME LineFeed(c) # 0, NoFeed PROVE FALSE
        BY <1>0
    <2>2. PICK i \in 1 .. Len(c) : c[i] = "n"
        BY <2>1, FeedFacts
    <2>3. i \in 1 .. First /\ pos + i <= Len(text)
        BY <1>5, <1>8, Numbers
    <2> QED BY <1>7, <2>1, <2>2, <2>3 DEF NoFeed
<1>12. NoFeed => ~WellFormed \/ LongLine
    BY <1>0, <1>1, Misfit, Unseen
<1>13. (WellFormed' <=> WellFormed) /\ (LongLine' <=> LongLine)
    BY <1>2, SameText
<1>14. NoFeed' <=> NoFeed
    BY <1>2 DEF NoFeed, First, Limit
<1>15. CASE c = <<>> /\ phase' = "failed" /\ UNCHANGED <<clen, buf, hdrlen>>
    <2>1. TypeOK'
        BY <1>1, <1>2, <1>15 DEF TypeOK, Limit
    <2>2. ~Fits(pos) \/ NoFeed
        <3>1. SUFFICES ASSUME ~NoFeed, Fits(pos) PROVE FALSE
            OBVIOUS
        <3>2. clen = 0 /\ Len(c) = 0
            BY <1>0, <1>15, <3>1
        <3>3. First = 0 \/ pos = Len(text)
            <4>1. n = First /\ Len(c) = 0
                BY <1>5, <3>2
            <4>2. PICK k \in Nat : k = Len(text)
                BY <1>1
            <4>3. 0 = (IF pos + n > k THEN k - pos ELSE n)
                BY <1>7, <4>1, <4>2
            <4> QED BY <1>8, <4>1, <4>2, <4>3
        <3>4. pos \in Starts /\ HasEnd(pos) /\ EndOf(pos) - pos <= Limit
            BY <1>0, <3>1, Zenon DEF AtLine, Fits
        <3>5. PICK e \in Nat : e = EndOf(pos)
            BY <1>1, <3>4, EndFacts
        <3>6. e > pos /\ e <= Len(text) /\ e - pos <= Limit
            BY <1>1, <3>4, <3>5, EndFacts, StartFacts
        <3> QED BY <1>8, <3>3, <3>6, Numbers
    <2>3. ~WellFormed \/ LongLine
        BY <1>0, <1>1, <1>12, <2>2, Misfit
    <2> QED BY <1>13, <1>15, <2>1, <2>3 DEF IInv
<1>16. CASE /\ c # <<>> /\ LineFeed(c) > 0 /\ hdrlen' = LineLength(buf \o c, clen + LineFeed(c))
            /\ phase' = "skip" /\ clen' = 0 /\ buf' = <<>>
    <2>1. PICK f \in 1 .. Len(c) : f = LineFeed(c)
        BY <1>16, FeedFacts
    <2>2. c[f] = "n" /\ \A i \in 1 .. Len(c) : c[i] = "n" => f <= i
        BY <1>16, <2>1, FeedFacts
    <2>3. clen = 0 /\ buf \o c = c
        <3>1. clen = 0
            BY <1>11, <1>16, <2>1
        <3>2. buf = <<>>
            BY <1>1, <3>1
        <3> QED BY <3>1, <3>2
    <2>4. hdrlen' = IF f > 1 /\ c[f - 1] = "r" THEN f - 2 ELSE f - 1
        BY <1>16, <2>1, <2>3 DEF LineLength
    <2>5. pos \in Starts
        BY <1>0 DEF AtLine
    <2>6. pos + f \in Ends /\ f <= First
        BY <1>5, <1>7, <1>8, <2>1, <2>2, Numbers DEF Ends
    <2>7. HasEnd(pos)
        BY <1>8, <2>6 DEF HasEnd
    <2>8. PICK e \in Nat : e = EndOf(pos)
        BY <1>1, <2>5, <2>7, EndFacts
    <2>9. e \in Ends /\ e > pos /\ e <= pos + f
        BY <1>1, <1>8, <2>5, <2>6, <2>7, <2>8, EndFacts
    <2>10. e = pos + f
        <3>1. e - pos \in 1 .. Len(c) /\ pos + (e - pos) = e
            BY <1>8, <2>1, <2>9
        <3>2. text[e] = "n"
            BY <2>9 DEF Ends
        <3>3. c[e - pos] = "n"
            BY <1>7, <3>1, <3>2
        <3>4. f <= e - pos
            BY <2>2, <3>1, <3>3
        <3> QED BY <1>8, <2>1, <2>9, <3>4
    <2>11. hdrlen' = LineLen(pos)
        <3>1. e - 1 > pos <=> f > 1
            BY <1>8, <2>1, <2>10
        <3>2. f > 1 => c[f - 1] = text[e - 1]
            <4>1. SUFFICES ASSUME f > 1 PROVE c[f - 1] = text[e - 1]
                OBVIOUS
            <4>2. f - 1 \in 1 .. Len(c) /\ pos + (f - 1) = e - 1
                BY <1>8, <2>1, <2>10, <4>1
            <4> QED BY <1>7, <4>2
        <3>3. e - 2 - pos = f - 2 /\ e - 1 - pos = f - 1
            BY <1>8, <2>1, <2>10
        <3> QED BY <2>4, <2>8, <3>1, <3>2, <3>3 DEF LineLen
    <2>12. Found'
        <3>1. HasEnd(pos)' /\ EndOf(pos)' = EndOf(pos) /\ LineLen(pos)' = LineLen(pos)
            BY <1>2, <2>7 DEF HasEnd, EndOf, LineLen, Ends
        <3>2. EndOf(pos) - pos <= First
            BY <1>8, <2>1, <2>6, <2>8, <2>10, Numbers
        <3>3. First' = First
            BY DEF First, Limit
        <3> QED BY <1>2, <2>11, <3>1, <3>2, <3>3 DEF Found
    <2>13. hdrlen' \in 0 .. Limit
        BY <1>5, <1>8, <2>1, <2>3, <2>4, Numbers
    <2>14. TypeOK'
        BY <1>1, <1>2, <1>16, <2>13, Numbers DEF TypeOK, Limit
    <2> QED BY <1>3, <1>16, <2>12, <2>14 DEF IInv
<1>17. CASE /\ c # <<>> /\ LineFeed(c) = 0 /\ clen' = clen + Len(c) /\ buf' = buf \o c
            /\ phase' = (IF clen + Len(c) < Limit THEN "peek" ELSE "failed") /\ hdrlen' = hdrlen
    <2>1. NoFeed
        BY <1>0, <1>1, <1>10, <1>17
    <2>2. TypeOK'
        <3>1. clen + Len(c) \in 0 .. Limit
            BY <1>5, <1>8, Numbers
        <3>2. buf \o c \in Seq(Chars) /\ Len(buf \o c) = clen + Len(c)
            BY <1>1, Concat
        <3> QED BY <1>1, <1>2, <1>17, <3>1, <3>2 DEF TypeOK, Limit
    <2>3. phase' \in {"peek", "failed"} /\ (phase' = "peek" => clen' < Limit)
        BY <1>17
    <2>4. Limit' = Limit
        BY DEF Limit
    <2> QED BY <1>3, <1>12, <1>13, <1>14, <2>1, <2>2, <2>3, <2>4 DEF IInv
<1> QED BY <1>9, <1>15, <1>16, <1>17, Zenon

\* The end of the line that was found is skipped.
LEMMA EolFacts ==
    ASSUME text \in Seq(Chars), pos \in Starts, HasEnd(pos)
    PROVE  /\ EolAt(pos + LineLen(pos)) > 0
           /\ pos + LineLen(pos) + EolAt(pos + LineLen(pos)) = EndOf(pos)
<1>1. PICK e \in Nat : e = EndOf(pos)
    BY EndFacts
<1>2. e \in 1 .. Len(text) /\ text[e] = "n" /\ e > pos /\ pos \in Nat
    BY <1>1, EndFacts, StartFacts DEF Ends
<1>3. CASE e - 1 > pos /\ text[e - 1] = "r"
    <2>1. LineLen(pos) = e - 2 - pos
        BY <1>1, <1>3 DEF LineLen
    <2>2. pos + LineLen(pos) = e - 2
        BY <1>2, <2>1
    <2>3. (e - 2) + 1 = e - 1 /\ (e - 2) + 2 = e /\ e - 2 < Len(text) /\ (e - 2) + 1 < Len(text)
        BY <1>2
    <2>4. EolAt(e - 2) = 2
        BY <1>2, <1>3, <2>3 DEF EolAt
    <2> QED BY <1>1, <2>2, <2>4
<1>4. CASE ~(e - 1 > pos /\ text[e - 1] = "r")
    <2>1. LineLen(pos) = e - 1 - pos
        BY <1>1, <1>4 DEF LineLen
    <2>2. pos + LineLen(pos) = e - 1
        BY <1>2, <2>1
    <2>3. (e - 1) + 1 = e /\ e - 1 < Len(text)
        BY <1>2
    <2>4. EolAt(e - 1) = 1
        BY <1>2, <2>3 DEF EolAt
    <2> QED BY <1>1, <2>2, <2>4
<1> QED BY <1>3, <1>4

\* The header lines are taken, up to the empty one.
LEMMA HeaderStep ==
    ASSUME IInv, parse_headers PROVE IInv'
<1>0. TypeOK /\ AtLine /\ Found /\ phase = "skip" /\ clen = 0
    BY Zenon DEF IInv, parse_headers
<1>1. /\ text \in Texts /\ text \in Seq(Chars) /\ pos \in 0 .. Len(text) /\ clen \in 0 .. Limit
      /\ buf \in Seq(Chars) /\ Len(buf) = clen /\ hdrlen \in 0 .. Limit /\ lines \in Seq(Seq(Chars))
    BY <1>0, TextFacts DEF TypeOK
<1>2. text' = text /\ clen' = clen /\ buf' = buf /\ hdrlen' = hdrlen
    BY DEF parse_headers
<1>3. pos \in Starts /\ HasEnd(pos) /\ EndOf(pos) - pos <= First /\ hdrlen = LineLen(pos) /\ pos \in Nat
    BY <1>0, <1>1, StartFacts DEF AtLine, Found
<1>4. PICK e \in Nat : e = EndOf(pos)
    BY <1>1, <1>3, EndFacts
<1>5. /\ e \in Ends /\ e \in Starts /\ e > pos /\ e \in 0 .. Len(text)
      /\ \A d \in Ends : d > pos => e <= d
    BY <1>1, <1>3, <1>4, EndFacts, StartFacts
<1>6. EolAt(pos + hdrlen) > 0 /\ pos + hdrlen + EolAt(pos + hdrlen) = e
    BY <1>1, <1>3, <1>4, EolFacts
<1>7. EolAt(pos + hdrlen) # 0
    BY <1>6
<1>8. pos' = e /\ phase' = IF hdrlen = 0 THEN "done" ELSE "peek"
    <2>1. pos' = pos + hdrlen + EolAt(pos + hdrlen)
        BY DEF parse_headers
    <2>2. phase' = CASE EolAt(pos + hdrlen) = 0 -> "failed"
                     [] EolAt(pos + hdrlen) > 0 /\ hdrlen = 0 -> "done"
                     [] OTHER -> "peek"
        BY DEF parse_headers
    <2> QED BY <1>6, <1>7, <2>1, <2>2
<1>9. /\ LineAt(pos) = SubSeq(text, pos + 1, pos + hdrlen) /\ LineAt(pos) \in Seq(Chars)
      /\ LineAt(pos) = <<>> <=> hdrlen = 0
    BY <1>1, <1>3, LineFacts
<1>10. lines' = IF hdrlen = 0 THEN lines ELSE Append(lines, LineAt(pos))
    <2>1. hdrlen > 0 <=> hdrlen # 0
        BY <1>1, Numbers
    <2>2. lines' = IF hdrlen > 0 THEN Append(lines, SubSeq(text, pos + 1, pos + hdrlen)) ELSE lines
        BY DEF parse_headers
    <2> QED BY <1>9, <2>1, <2>2
<1>11. Fits(pos) /\ EndOf(pos) - pos <= Window
    <2>1. EndOf(pos) - pos <= Limit /\ EndOf(pos) - pos <= Window
        BY <1>3, <1>4, Numbers
    <2> QED BY <1>3, <2>1 DEF Fits
<1>12. TypeOK'
    <2>1. lines' \in Seq(Seq(Chars))
        BY <1>1, <1>9, <1>10
    <2> QED BY <1>1, <1>2, <1>5, <1>8, <2>1 DEF TypeOK, Limit
<1>13. CASE hdrlen = 0
    <2>1. pos \in EmptyLines
        BY <1>3, <1>9, <1>13 DEF EmptyLines
    <2>2. /\ HeadersEnd \in EmptyLines /\ HeadersEnd \in Starts /\ HeadersEnd \in Nat
          /\ \A r \in EmptyLines : HeadersEnd <= r
        BY <1>1, <2>1, EndOfHeaders
    <2>3. HeadersEnd <= pos
        BY <2>1, <2>2
    <2>4. LineAt(HeadersEnd) = <<>>
        BY <2>2 DEF EmptyLines
    <2>5. ~(HeadersEnd < pos)
        BY <1>0, <2>2, <2>4, Zenon DEF AtLine
    <2>6. HeadersEnd = pos
        BY <1>3, <2>2, <2>3, <2>5
    <2>7. ASSUME NEW s \in Starts, s <= pos PROVE Fits(s) /\ EndOf(s) - s <= Window
        <3>1. s \in Nat
            BY <1>1, StartFacts
        <3>2. s < pos \/ s = pos
            BY <1>3, <2>7, <3>1
        <3> QED BY <1>0, <1>11, <3>2, Zenon DEF AtLine
    <2>8. WellFormed /\ ~LongLine
        <3>1. \A s \in Starts : s <= pos => ~(EndOf(s) - s > Window)
            <4>1. SUFFICES ASSUME NEW s \in Starts, s <= pos PROVE ~(EndOf(s) - s > Window)
                OBVIOUS
            <4>2. Fits(s) /\ EndOf(s) - s <= Window
                BY <2>7, <4>1
            <4>3. EndOf(s) \in Nat /\ s \in Nat
                BY <1>1, <4>2, EndFacts, StartFacts DEF Fits
            <4> QED BY <4>2, <4>3, Numbers
        <3> QED BY <2>1, <2>6, <2>7, <3>1 DEF WellFormed, LongLine
    <2>9. Len(lines) = Before(pos) /\ \A s \in Starts : s < pos => lines[Before(s) + 1] = LineAt(s)
        BY <1>0, Zenon DEF AtLine
    <2>10. lines' = lines
        BY <1>10, <1>13
    <2>11. ReadExactly'
        <3>1. /\ Starts' = Starts /\ WellFormed' /\ HeadersEnd' = pos
              /\ \A s : LineAt(s)' = LineAt(s) /\ Before(s)' = Before(s)
            BY <1>2, <2>6, <2>8, SameText, Zenon
        <3>2. EndOf(HeadersEnd)' = e
            <4>1. \A s : EndOf(s)' = EndOf(s)
                BY <1>2, SameText, Zenon
            <4> QED BY <1>4, <3>1, <4>1 DEF EndOf
        <3>3. Before(HeadersEnd)' = Before(pos)
            BY <3>1, <1>2 DEF Before, Ends
        <3> QED BY <1>8, <2>9, <2>10, <3>1, <3>2, <3>3 DEF ReadExactly
    <2>12. phase' = "done" /\ ~LongLine'
        BY <1>2, <1>8, <1>13, <2>8, SameText
    <2> QED BY <1>0, <1>2, <1>12, <2>11, <2>12 DEF IInv
<1>14. CASE hdrlen # 0
    <2>1. phase' = "peek" /\ lines' = Append(lines, LineAt(pos))
        BY <1>8, <1>10, <1>14
    <2>2. LineAt(pos) # <<>>
        BY <1>9, <1>14
    <2>3. ASSUME NEW s \in Starts, s < e PROVE s < pos \/ s = pos
        <3>1. s \in Nat /\ (s > 0 => s \in Ends)
            BY <1>1, StartFacts
        <3>2. ~(s > pos)
            BY <1>3, <1>5, <2>3, <3>1
        <3> QED BY <1>3, <3>1, <3>2
    <2>4. /\ Len(lines) = Before(pos) /\ \A s \in Starts : s < pos => lines[Before(s) + 1] = LineAt(s)
          /\ \A s \in Starts : s < pos => Fits(s) /\ LineAt(s) # <<>>
          /\ \A s \in Starts : s < pos => EndOf(s) - s <= Window
        BY <1>0, Zenon DEF AtLine
    <2>5. Before(e) = Before(pos) + 1 /\ Before(pos) \in Nat
        BY <1>1, <1>3, <1>4, BeforeFacts
    <2>6. \A s \in Starts : s < e => Fits(s) /\ LineAt(s) # <<>> /\ EndOf(s) - s <= Window
        BY <1>11, <2>2, <2>3, <2>4, Zenon
    <2>7. Len(lines') = Before(e)
        BY <1>1, <1>9, <2>1, <2>4, <2>5
    <2>8. ASSUME NEW s \in Starts, s < e PROVE lines'[Before(s) + 1] = LineAt(s)
        <3>1. CASE s = pos
            BY <1>1, <1>9, <2>1, <2>4, <2>5, <3>1
        <3>2. CASE s < pos
            <4>1. Before(s) \in Nat /\ Before(s) < Before(pos)
                BY <1>1, <1>3, <3>2, BeforeFacts
            <4>2. Before(s) + 1 \in 1 .. Len(lines)
                BY <1>1, <2>4, <2>5, <4>1
            <4>3. lines'[Before(s) + 1] = lines[Before(s) + 1]
                BY <1>1, <1>9, <2>1, <4>2
            <4> QED BY <2>4, <3>2, <4>3, Zenon
        <3> QED BY <2>3, <2>8, <3>1, <3>2
    <2>9. AtLine'
        <3>1. /\ Starts' = Starts
              /\ \A s : LineAt(s)' = LineAt(s) /\ Before(s)' = Before(s) /\ (Fits(s)' <=> Fits(s))
              /\ \A s : EndOf(s)' = EndOf(s)
            BY <1>2, SameText, Zenon
        <3>2. Before(pos)' = Before(e)
            BY <1>2, <1>8 DEF Before, Ends
        <3> QED BY <1>5, <1>8, <2>6, <2>7, <2>8, <3>1, <3>2 DEF AtLine
    <2> QED BY <1>0, <1>2, <1>12, <2>1, <2>9 DEF IInv
<1> QED BY <1>13, <1>14

\* Nothing is known of the text when a read or an allocation failed.
LEMMA ErrorStep ==
    ASSUME IInv, PeekFails \/ HeaderAllocFails PROVE IInv'
<1>1. UNCHANGED <<text, pos, clen, buf, hdrlen, lines>> /\ phase' = "ioerror"
    BY DEF PeekFails, HeaderAllocFails
<1>2. TypeOK'
    BY <1>1 DEF IInv, TypeOK, Limit
<1> QED BY <1>1, <1>2 DEF IInv

\* A step that changes nothing.
LEMMA StutterStep ==
    ASSUME IInv, UNCHANGED vars PROVE IInv'
<1>1. UNCHANGED <<text, pos, phase, clen, buf, hdrlen, lines>>
    BY DEF vars
<1>2. TypeOK'
    BY <1>1 DEF IInv, TypeOK, Limit
<1>3. AtLine' <=> AtLine
    BY <1>1 DEF AtLine, Starts, Ends, Fits, LineAt, Before, HasEnd, EndOf, Limit
<1>4. NoFeed' <=> NoFeed
    BY <1>1 DEF NoFeed, First, Limit
<1>5. Found' <=> Found
    BY <1>1 DEF Found, HasEnd, EndOf, Ends, LineLen, First, Limit
<1>6. (WellFormed' <=> WellFormed) /\ (LongLine' <=> LongLine)
    BY <1>1, SameText
<1>7. ReadExactly' <=> ReadExactly
    BY <1>1 DEF ReadExactly, WellFormed, EmptyLines, HeadersEnd, Starts, Ends, Fits, LineAt, Before, HasEnd, EndOf, Limit
<1> QED BY <1>1, <1>2, <1>3, <1>4, <1>5, <1>6, <1>7 DEF IInv, Limit

LEMMA InitStep == Init => IInv
<1>1. SUFFICES ASSUME Init PROVE IInv
    OBVIOUS
<1>2. text \in Texts /\ text \in Seq(Chars)
    BY <1>1, TextFacts DEF Init
<1>3. pos = 0 /\ phase = "peek" /\ clen = 0 /\ buf = <<>> /\ hdrlen = 0 /\ lines = <<>>
    BY <1>1 DEF Init
<1>4. TypeOK
    BY <1>2, <1>3, Numbers DEF TypeOK
<1>5. AtLine
    <2>1. 0 \in Starts /\ \A s \in Starts : ~(s < 0)
        BY <1>2, StartFacts
    <2>2. Before(0) = 0
        BY <1>2, BeforeFacts
    <2> QED BY <1>3, <2>1, <2>2 DEF AtLine
<1> QED BY <1>3, <1>4, <1>5 DEF IInv

LEMMA NextStep == IInv /\ [Next]_vars => IInv'
<1>1. SUFFICES ASSUME IInv, [Next]_vars PROVE IInv'
    OBVIOUS
<1>2. CASE src_peek_line
    BY <1>1, <1>2, PeekStep
<1>3. CASE PeekFails \/ HeaderAllocFails
    BY <1>1, <1>3, ErrorStep
<1>4. CASE parse_headers
    BY <1>1, <1>4, HeaderStep
<1>5. CASE UNCHANGED vars
    BY <1>1, <1>5, StutterStep
<1> QED BY <1>1, <1>2, <1>3, <1>4, <1>5, Zenon DEF Next, Ended

-----------------------------------------------------------------------------
(* The theorems. *)

\* The reader of header lines is where IInv says in every state.
THEOREM Invariant == Spec => []IInv
BY InitStep, NextStep, PTL DEF Spec

\* The position stays in the text, and what src_peek_line collects in the
\* caller's buffer with a place left for \0.
THEOREM TypeCorrect == Spec => []TypeOK
<1>1. IInv => TypeOK
    BY Zenon DEF IInv
<1> QED BY <1>1, Invariant, PTL

\* For every window, buffer and text, with lines of any length: when the header
\* parsers return success the headers are the lines of the text up to the first
\* empty one, each without its end of line, and that line is consumed.
THEOREM SuccessIsExact == Spec => [](phase = "done" => ReadExactly)
<1>1. IInv => (phase = "done" => ReadExactly)
    BY Zenon DEF IInv
<1> QED BY <1>1, Invariant, PTL

\* For every window, buffer and text, with lines of any length: the parsers fail only on a text
\* whose headers do not end or do not fit the buffer, or one of whose header lines has its end
\* behind the window; and a text with such a line they never accept.
THEOREM HeadersAreExact == Spec => []HeadersExact
<1>1. IInv => HeadersExact
    BY Zenon DEF IInv, HeadersExact
<1> QED BY <1>1, Invariant, PTL

=============================================================================
