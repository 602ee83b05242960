------------------------ MODULE PacketParserProofs ------------------------
(***************************************************************************)
(* Proofs about PacketParser, for every size of the buffers, every set of  *)
(* packet lengths and every depth: whatever a parser meets in its packet,  *)
(* the next tag is looked for behind the packet, subpackets that are not   *)
(* ignored are read to their end or reported, a number that cannot be read *)
(* never leaves the decrypting reader on the stack, and a packet that is   *)
(* cut off, but not among its parts, is reported.                          *)
(*                                                                         *)
(* The rest of a program decides what a parser will do with the regions    *)
(* and the reader it has: the invariant says for each of nine places in    *)
(* the parsers which programs are left there, with which regions.          *)
(***************************************************************************)
EXTENDS PacketParser, TLAPS

-----------------------------------------------------------------------------
(* Sequences. *)

\* The first element and the rest of a concatenation.
LEMMA ConcatHead ==
    ASSUME NEW S, NEW a \in Seq(S), NEW b \in Seq(S), a # <<>>
    PROVE  a \o b # <<>> /\ Head(a \o b) = Head(a) /\ Tail(a \o b) = Tail(a) \o b
<1>1. Len(a) \in Nat /\ Len(a) > 0 /\ Len(b) \in Nat
    OBVIOUS
<1>2. a \o b # <<>> /\ Head(a \o b) = Head(a)
    BY <1>1
<1>3. a \o b \in Seq(S) /\ Tail(a) \in Seq(S) /\ Tail(a \o b) \in Seq(S) /\ Tail(a) \o b \in Seq(S)
    BY <1>1, <1>2
<1>4. Len(Tail(a \o b)) = Len(Tail(a) \o b)
    BY <1>1, <1>2, <1>3
<1>5. ASSUME NEW i \in 1 .. Len(Tail(a) \o b) PROVE Tail(a \o b)[i] = (Tail(a) \o b)[i]
    BY <1>1, <1>2, <1>3, <1>4
<1> QED BY <1>2, <1>3, <1>4, <1>5

\* Concatenation is associative.
LEMMA ConcatAssoc ==
    ASSUME NEW S, NEW a \in Seq(S), NEW b \in Seq(S), NEW c \in Seq(S)
    PROVE  (a \o b) \o c = a \o (b \o c)
<1>1. Len(a) \in Nat /\ Len(b) \in Nat /\ Len(c) \in Nat
    OBVIOUS
<1>2. (a \o b) \o c \in Seq(S) /\ a \o (b \o c) \in Seq(S) /\ a \o b \in Seq(S) /\ b \o c \in Seq(S)
    OBVIOUS
<1>3. Len((a \o b) \o c) = Len(a \o (b \o c))
    BY <1>1, <1>2
<1>4. ASSUME NEW i \in 1 .. Len((a \o b) \o c) PROVE ((a \o b) \o c)[i] = (a \o (b \o c))[i]
    BY <1>1, <1>2, <1>3
<1> QED BY <1>2, <1>3, <1>4, SMTT(60)

\* Concatenation with the empty sequence.
LEMMA ConcatEmpty ==
    ASSUME NEW S, NEW a \in Seq(S)
    PROVE  <<>> \o a = a /\ a \o <<>> = a /\ <<>> \in Seq(S)
OBVIOUS

\* One element before a sequence.
LEMMA ConcatOne ==
    ASSUME NEW S, NEW x \in S, NEW a \in Seq(S)
    PROVE  <<x>> \o a \in Seq(S) /\ <<x>> \o a # <<>> /\ Head(<<x>> \o a) = x /\ Tail(<<x>> \o a) = a
<1>1. PICK y : y = <<x>>
    OBVIOUS
<1>2. y \in Seq(S) /\ y # <<>> /\ Head(y) = x /\ Tail(y) = <<>>
    BY <1>1
<1>3. y \o a # <<>> /\ Head(y \o a) = x /\ Tail(y \o a) = <<>> \o a
    BY <1>2, ConcatHead
<1>4. <<>> \o a = a /\ y \o a \in Seq(S)
    BY <1>2, ConcatEmpty
<1> QED BY <1>1, <1>3, <1>4

-----------------------------------------------------------------------------
(* Programs. *)

\* The steps of a parser that works on the region of its packet.
Plain ==
    {F, Check, Mpi, Data, Exact, Set, <<"number">>, <<"secret">>, <<"secret number">>, <<"set length">>,
     <<"sesskey">>, <<"nest">>, One("public numbers"), One("v3 signature"), One("v4 signature"),
     One("encrypted session key")}

\* The steps on the encrypted numbers of a key, and those behind them.
Versions == {"v3", "v4"}
Secrets == {F, Check, <<"secret">>, <<"secret number">>}
Behind  == {F, Check, Exact}

\* The steps on a subpacket.
Inner == {Check, Data, Exact} \cup {<<"read", k>> : k \in Nat} \cup {<<"skip", k>> : k \in Nat}

Steps ==
    Plain \cup Inner \cup {<<"push", v>> : v \in {"v3", "v4", "data"}} \cup {<<"pop", v>> : v \in Versions}
    \cup {One("v3"), One("v4"), <<"preamble">>, <<"subpackets">>, <<"subpacket length">>, <<"subpacket">>}
    \cup {<<"subpacket end", b>> : b \in BOOLEAN}

\* With the decrypting reader pushed: the numbers of a key up to the pop, or the
\* preamble of the data and what is in them.
KeyRun(p) == \E s \in Seq(Secrets), v \in Versions, t \in Seq(Behind) : p = s \o (<<<<"pop", v>>>> \o t)
DataRuns == {<<F, <<"preamble">>, <<"nest">>>>, <<<<"preamble">>, <<"nest">>>>, <<<<"nest">>>>}

\* Without it.  A secret key ends with its numbers, encrypted data with theirs.
Ending(b) ==
    \/ b = <<>> \/ b = <<One("v3")>> \/ b = <<One("v4")>> \/ b = <<<<"push", "data">>, F, <<"preamble">>, <<"nest">>>>
    \/ \E v \in Versions : \E k \in Seq(Steps) : KeyRun(k) /\ b = <<<<"push", v>>>> \o k
Outer(p) == \E a \in Seq(Plain) : \E b \in Seq(Steps) : Ending(b) /\ p = a \o b

\* The rest of parse_sig_subpkts, and of one subpacket with it.
InSet(p) == \E r \in Seq(Steps) : Outer(r) /\ p = <<<<"subpackets">>>> \o r

\* The steps of each kind are steps.
LEMMA StepTypes ==
    /\ Plain \subseteq Steps /\ Secrets \subseteq Plain /\ Behind \subseteq Plain /\ Inner \subseteq Steps
    /\ \A v \in Versions : <<"pop", v>> \in Steps /\ <<"push", v>> \in Steps /\ One(v) \in Steps
    /\ {<<"push", "data">>, <<"preamble">>, <<"subpackets">>, <<"subpacket length">>, <<"subpacket">>, F, <<"nest">>} \subseteq Steps
    /\ \A b \in BOOLEAN : <<"subpacket end", b>> \in Steps
<1>1. Secrets \subseteq Plain /\ Behind \subseteq Plain /\ F \in Plain /\ <<"nest">> \in Plain
    BY Zenon DEF Plain, Secrets, Behind
<1>2. Plain \subseteq Steps /\ Inner \subseteq Steps
    BY Zenon DEF Steps
<1>3. \A v \in Versions : <<"pop", v>> \in Steps /\ <<"push", v>> \in Steps /\ One(v) \in Steps
    BY Zenon DEF Steps, Versions
<1>4. {<<"push", "data">>, <<"preamble">>, <<"subpackets">>, <<"subpacket length">>, <<"subpacket">>} \subseteq Steps
    BY Zenon DEF Steps
<1>5. \A b \in BOOLEAN : <<"subpacket end", b>> \in Steps
    BY Zenon DEF Steps
<1> QED BY <1>1, <1>2, <1>3, <1>4, <1>5, Zenon

\* Sequences over a smaller set.
LEMMA SeqSubset ==
    ASSUME NEW S, NEW T, S \subseteq T
    PROVE  Seq(S) \subseteq Seq(T)
<1> SUFFICES ASSUME NEW s \in Seq(S) PROVE s \in Seq(T)
    OBVIOUS
<1>1. Len(s) \in Nat /\ s \in [1 .. Len(s) -> T]
    OBVIOUS
<1> QED BY <1>1

\* The numbers of a key as a program.
LEMMA KeyRunFacts ==
    ASSUME NEW p, KeyRun(p)
    PROVE  /\ p \in Seq(Steps) /\ p # <<>>
           /\ \/ Head(p) \in Secrets /\ KeyRun(Tail(p)) /\ \A x \in Secrets : KeyRun(<<x>> \o Tail(p))
              \/ \E v \in Versions : Head(p) = <<"pop", v>> /\ Tail(p) \in Seq(Behind)
<1>1. PICK s \in Seq(Secrets), v \in Versions, t \in Seq(Behind) : p = s \o (<<<<"pop", v>>>> \o t)
    BY Zenon DEF KeyRun
<1>2. s \in Seq(Steps) /\ t \in Seq(Steps) /\ <<"pop", v>> \in Steps
    <2>1. Secrets \subseteq Steps /\ Behind \subseteq Steps
        BY StepTypes, Zenon
    <2> QED BY <2>1, StepTypes, SeqSubset, Zenon
<1>3. PICK c \in Seq(Steps) : c = <<<<"pop", v>>>> \o t /\ c # <<>> /\ Head(c) = <<"pop", v>> /\ Tail(c) = t
    BY <1>2, ConcatOne
<1>4. p = s \o c /\ p \in Seq(Steps)
    BY <1>1, <1>2, <1>3
<1>5. CASE s = <<>>
    <2>1. p = c
        BY <1>4, <1>5, ConcatEmpty, Zenon
    <2> QED BY <1>3, <1>4, <2>1, Zenon
<1>6. CASE s # <<>>
    <2>1. p # <<>> /\ Head(p) = Head(s) /\ Tail(p) = Tail(s) \o c
        BY <1>2, <1>4, <1>6, ConcatHead, Zenon
    <2>2. Head(s) \in Secrets /\ Tail(s) \in Seq(Secrets)
        BY <1>6
    <2>3. \A q \in Seq(Secrets) : KeyRun(q \o c)
        BY <1>3, Zenon DEF KeyRun
    <2>4. ASSUME NEW x \in Secrets PROVE KeyRun(<<x>> \o Tail(p))
        <3>0. <<x>> \in Seq(Secrets)
            OBVIOUS
        <3>1. PICK y \in Seq(Secrets) : y = <<x>>
            BY <3>0, Zenon
        <3>2. PICK z \in Seq(Secrets) : z = Tail(s)
            BY <2>2
        <3>3. y \o z \in Seq(Secrets)
            OBVIOUS
        <3>4. y \in Seq(Steps) /\ z \in Seq(Steps)
            BY StepTypes, SeqSubset, Zenon
        <3>5. (y \o z) \o c = y \o (z \o c)
            BY <3>4, ConcatAssoc, SMTT(60)
        <3>6. KeyRun((y \o z) \o c)
            BY <2>3, <3>3, Zenon
        <3> QED BY <2>1, <3>1, <3>2, <3>5, <3>6
    <2> QED BY <1>4, <2>1, <2>2, <2>3, <2>4, Zenon
<1> QED BY <1>5, <1>6

\* The ends of programs.
LEMMA EndingFacts ==
    ASSUME NEW b, Ending(b)
    PROVE  /\ b \in Seq(Steps)
           /\ b # <<>> =>
                \/ \E v \in Versions : Head(b) = One(v) /\ Tail(b) = <<>>
                \/ Head(b) = <<"push", "data">> /\ Tail(b) = <<F, <<"preamble">>, <<"nest">>>>
                \/ \E v \in Versions : Head(b) = <<"push", v>> /\ KeyRun(Tail(b))
<1>1. CASE b = <<>>
    BY <1>1
<1>2. ASSUME NEW v \in Versions, b = <<One(v)>> PROVE b \in Seq(Steps) /\ Head(b) = One(v) /\ Tail(b) = <<>>
    <2>1. PICK o \in Steps : o = One(v)
        BY StepTypes
    <2> QED BY <1>2, <2>1
<1>3. ASSUME b = <<<<"push", "data">>, F, <<"preamble">>, <<"nest">>>>
      PROVE  b \in Seq(Steps) /\ Head(b) = <<"push", "data">> /\ Tail(b) = <<F, <<"preamble">>, <<"nest">>>>
    <2>1. PICK w \in Steps, x \in Steps, y \in Steps, z \in Steps :
             w = <<"push", "data">> /\ x = F /\ y = <<"preamble">> /\ z = <<"nest">>
        BY StepTypes, Zenon
    <2> QED BY <1>3, <2>1
<1>4. ASSUME NEW v \in Versions, NEW k, KeyRun(k), b = <<<<"push", v>>>> \o k
      PROVE  b \in Seq(Steps) /\ Head(b) = <<"push", v>> /\ KeyRun(Tail(b))
    <2>1. k \in Seq(Steps) /\ <<"push", v>> \in Steps
        BY <1>4, KeyRunFacts, StepTypes, Zenon
    <2> QED BY <1>4, <2>1, ConcatOne
<1>5. \/ b = <<>> \/ (\E v \in Versions : b = <<One(v)>>)
      \/ b = <<<<"push", "data">>, F, <<"preamble">>, <<"nest">>>>
      \/ \E v \in Versions : \E k : KeyRun(k) /\ b = <<<<"push", v>>>> \o k
    BY Zenon DEF Ending, Versions
<1> QED BY <1>1, <1>2, <1>3, <1>4, <1>5, Zenon

\* Programs without the reader.
LEMMA OuterFacts ==
    ASSUME NEW p, Outer(p)
    PROVE  /\ p \in Seq(Steps)
           /\ \A a \in Seq(Plain) : Outer(a \o p)
           /\ p # <<>> =>
                \/ Head(p) \in Plain /\ Outer(Tail(p))
                \/ \E v \in Versions : Head(p) = One(v) /\ Tail(p) = <<>>
                \/ Head(p) = <<"push", "data">> /\ Tail(p) = <<F, <<"preamble">>, <<"nest">>>>
                \/ \E v \in Versions : Head(p) = <<"push", v>> /\ KeyRun(Tail(p))
<1>1. PICK s \in Seq(Plain), b \in Seq(Steps) : Ending(b) /\ p = s \o b
    BY Zenon DEF Outer
<1>2. s \in Seq(Steps) /\ b \in Seq(Steps)
    BY StepTypes, SeqSubset, EndingFacts, Zenon
<1>3. p \in Seq(Steps)
    BY <1>1, <1>2
<1>4. ASSUME NEW a \in Seq(Plain) PROVE Outer(a \o p)
    <2>1. a \o s \in Seq(Plain)
        OBVIOUS
    <2>2. a \in Seq(Steps)
        BY StepTypes, SeqSubset, Zenon
    <2>3. a \o p = (a \o s) \o b
        BY <1>1, <1>2, <2>2, ConcatAssoc, SMTT(60)
    <2> QED BY <1>1, <2>1, <2>3, Zenon DEF Outer
<1>5. CASE s = <<>>
    <2>1. p = b
        BY <1>1, <1>2, <1>5, ConcatEmpty
    <2>2. Ending(p)
        BY <1>1, <2>1
    <2> QED BY <1>3, <1>4, <2>2, EndingFacts, Zenon
<1>6. CASE s # <<>>
    <2>1. Head(p) = Head(s) /\ Tail(p) = Tail(s) \o b
        BY <1>1, <1>2, <1>6, ConcatHead
    <2>2. Head(s) \in Plain /\ Tail(s) \in Seq(Plain)
        BY <1>6
    <2>3. Outer(Tail(p))
        BY <1>1, <2>1, <2>2, Zenon DEF Outer
    <2> QED BY <1>3, <1>4, <2>1, <2>2, <2>3, Zenon
<1> QED BY <1>5, <1>6

\* Programs that are all plain.
LEMMA PlainOuter ==
    ASSUME NEW a \in Seq(Plain)
    PROVE  Outer(a)
<1>0. <<>> \in Seq(Steps)
    OBVIOUS
<1>1. Ending(<<>>)
    BY Zenon DEF Ending
<1>2. Outer(a \o <<>>)
    BY <1>0, <1>1, Zenon DEF Outer
<1> QED BY <1>2, ConcatEmpty, Zenon

\* The steps as members of Plain.
LEMMA PlainSteps ==
    /\ F \in Plain /\ Check \in Plain /\ Mpi \in Plain /\ Data \in Plain /\ Exact \in Plain /\ Set \in Plain
    /\ <<"secret">> \in Plain /\ <<"sesskey">> \in Plain /\ <<"nest">> \in Plain
    /\ <<"number">> \in Plain /\ <<"secret number">> \in Plain /\ <<"set length">> \in Plain
    /\ One("public numbers") \in Plain /\ One("v3 signature") \in Plain /\ One("v4 signature") \in Plain
    /\ One("encrypted session key") \in Plain
BY Zenon DEF Plain

\* A sequence of one element.
LEMMA Seq1 == ASSUME NEW S, NEW a \in S PROVE <<a>> \in Seq(S)
OBVIOUS
\* The same for two elements.
LEMMA Seq2 == ASSUME NEW S, NEW a \in S, NEW b \in S PROVE <<a, b>> \in Seq(S)
OBVIOUS
\* The same for three elements.
LEMMA Seq3 == ASSUME NEW S, NEW a \in S, NEW b \in S, NEW c \in S PROVE <<a, b, c>> \in Seq(S)
OBVIOUS
\* The same for four elements.
LEMMA Seq4 ==
    ASSUME NEW S, NEW a \in S, NEW b \in S, NEW c \in S, NEW d \in S
    PROVE  <<a, b, c, d>> \in Seq(S)
OBVIOUS
\* The same for five elements.
LEMMA Seq5 ==
    ASSUME NEW S, NEW a \in S, NEW b \in S, NEW c \in S, NEW d \in S, NEW e \in S
    PROVE  <<a, b, c, d, e>> \in Seq(S)
OBVIOUS
\* The same for six elements.
LEMMA Seq6 ==
    ASSUME NEW S, NEW a \in S, NEW b \in S, NEW c \in S, NEW d \in S, NEW e \in S, NEW f \in S
    PROVE  <<a, b, c, d, e, f>> \in Seq(S)
OBVIOUS

\* The concatenation of sequences over a set is one.
LEMMA ConcatClosed ==
    ASSUME NEW S, NEW a \in Seq(S), NEW b \in Seq(S)
    PROVE  a \o b \in Seq(S)
OBVIOUS

\* The branches, but those of secret keys, are plain.
LEMMA PlainAlternatives ==
    ASSUME NEW of \in {"public numbers", "v3 signature", "v4 signature", "encrypted session key"},
           NEW p \in Alternatives(of)
    PROVE  p \in Seq(Plain)
<1>0. /\ F \in Plain /\ Check \in Plain /\ Mpi \in Plain /\ Data \in Plain
      /\ <<"sesskey">> \in Plain
    BY PlainSteps, Zenon
<1>1. parse_ec_pubkey_data \in Seq(Plain) /\ <<F, Check>> \in Seq(Plain) /\ <<Mpi, Mpi>> \in Seq(Plain)
      /\ <<Mpi>> \in Seq(Plain) /\ <<Data>> \in Seq(Plain) /\ <<Mpi, F, Check, F>> \in Seq(Plain)
      /\ <<>> \in Seq(Plain) /\ <<Check, <<"sesskey">>>> \in Seq(Plain)
    BY <1>0, Seq1, Seq2, Seq3, Seq4, Seq5, ConcatEmpty, Zenon DEF parse_ec_pubkey_data
<1>2. PubkeyNumbers \subseteq Seq(Plain)
    <2>1. parse_ec_pubkey_data \o <<F, Check>> \in Seq(Plain)
        BY <1>1, ConcatClosed, Zenon
    <2> QED BY <1>1, <2>1, Zenon DEF PubkeyNumbers
<1>3. SigNumbers \subseteq Seq(Plain)
    BY <1>1, Zenon DEF SigNumbers
<1>4. ASSUME NEW s \in SessionKeyNumbers PROVE s \in Seq(Plain)
    <2>1. \E k \in {<<Mpi>>, <<Mpi, Mpi>>, <<Mpi, F, Check, F>>} : s = k \/ s = k \o <<Check, <<"sesskey">>>>
        BY Zenon DEF SessionKeyNumbers
    <2> QED BY <1>1, <2>1, ConcatClosed, Zenon
<1>5. \/ of = "public numbers" /\ Alternatives(of) = PubkeyNumbers
      \/ of = "v3 signature" /\ Alternatives(of) = {<<Mpi>>, <<Mpi, Mpi>>}
      \/ of = "v4 signature" /\ Alternatives(of) = SigNumbers
      \/ of = "encrypted session key" /\ Alternatives(of) = SessionKeyNumbers
    BY DEF Alternatives
<1> QED BY <1>1, <1>2, <1>3, <1>4, <1>5, Zenon

\* The same for three sequences.
Associative(a, b, c) == (a \o b) \o c = a \o (b \o c)
\* Concatenation is associative, in this form.
LEMMA ConcatAssociative ==
    ASSUME NEW S, NEW a \in Seq(S), NEW b \in Seq(S), NEW c \in Seq(S)
    PROVE  Associative(a, b, c)
BY ConcatAssoc DEF Associative

\* Five sequences that are grouped in two ways.
Regroups(a, s, b, c, x) ==
    /\ ((a \o s) \o (b \o c)) \o x = a \o (s \o (b \o (c \o x)))
    /\ ((a \o s) \o (b \o c)) \o x = a \o ((s \o b) \o (c \o x))
\* They can be regrouped.
LEMMA ConcatFive ==
    ASSUME NEW S, NEW a \in Seq(S), NEW s \in Seq(S), NEW b \in Seq(S), NEW c \in Seq(S), NEW x \in Seq(S)
    PROVE  Regroups(a, s, b, c, x)
<1>1. PICK u : u = a \o s /\ u \in Seq(S)
    BY ConcatClosed, Zenon
<1>2. PICK w : w = b \o c /\ w \in Seq(S)
    BY ConcatClosed, Zenon
<1>3. PICK y : y = c \o x /\ y \in Seq(S)
    BY ConcatClosed, Zenon
<1>4. PICK z : z = b \o y /\ z \in Seq(S)
    BY <1>3, ConcatClosed, Zenon
<1>5. u \in Seq(S) /\ w \in Seq(S) /\ y \in Seq(S) /\ z \in Seq(S)
    BY <1>1, <1>2, <1>3, <1>4, Zenon
<1>6. Associative(u, w, x) /\ Associative(b, c, x)
    BY <1>5, ConcatAssociative, Zenon
<1>7. Associative(a, s, z)
    BY <1>5, ConcatAssociative, Zenon
<1>8. Associative(s, b, y)
    BY <1>5, ConcatAssociative, Zenon
<1>9. w \o x = z
    BY <1>2, <1>3, <1>4, <1>6 DEF Associative
<1>10. u \o z = a \o (s \o z) /\ (s \o b) \o y = s \o z
    BY <1>1, <1>4, <1>7, <1>8 DEF Associative
<1>11. ((a \o s) \o (b \o c)) \o x = u \o z
    BY <1>1, <1>2, <1>6, <1>9 DEF Associative
<1> QED BY <1>3, <1>4, <1>10, <1>11 DEF Regroups

\* Endings are programs.
LEMMA EndingOuter ==
    ASSUME NEW b, Ending(b)
    PROVE  Outer(b)
<1>1. b \in Seq(Steps)
    BY EndingFacts
<1>2. <<>> \in Seq(Plain)
    OBVIOUS
<1>3. b = <<>> \o b
    BY <1>1
<1> QED BY <1>1, <1>2, <1>3, Zenon DEF Outer

\* The numbers of a secret key: plain, or between push and pop.
LEMMA SeckeyOuter ==
    ASSUME NEW v \in Versions, NEW p \in SeckeyBody(v)
    PROVE  Outer(p)
<1>0. /\ F \in Plain /\ Check \in Plain /\ Data \in Plain /\ <<"secret">> \in Plain /\ Exact \in Plain
      /\ F \in Secrets /\ Check \in Secrets /\ <<"secret">> \in Secrets
      /\ F \in Behind /\ Check \in Behind /\ Exact \in Behind
      /\ <<"pop", v>> \in Steps /\ <<"push", v>> \in Steps /\ v \in {"v3", "v4"}
    BY PlainSteps, StepTypes, Zenon DEF Secrets, Behind, Versions
<1> DEFINE chk == <<F, Check>>
           pop == <<<<"pop", v>>>>
           push == <<<<"push", v>>>>
           all == {<<<<"secret">>>>, <<<<"secret">>, <<"secret">>>>}
<1>1. chk \in Seq(Plain) /\ chk \in Seq(Secrets) /\ chk \in Seq(Behind) /\ chk \in Seq(Steps)
    <2>1. F \in Steps /\ Check \in Steps
        BY <1>0, StepTypes, Zenon
    <2> QED BY <1>0, <2>1, Seq1, Seq2, Seq3, Seq4, Seq5, ConcatEmpty, Zenon
<1>2. all \subseteq Seq(Plain) /\ all \subseteq Seq(Secrets) /\ all \subseteq Seq(Steps)
    <2>1. <<"secret">> \in Steps
        BY <1>0, StepTypes, Zenon
    <2>2. ASSUME NEW S, <<"secret">> \in S PROVE all \subseteq Seq(S)
        <3>1. <<<<"secret">>>> \in Seq(S) /\ <<<<"secret">>, <<"secret">>>> \in Seq(S)
            BY <2>2, Seq1, Seq2, Zenon
        <3> QED BY <3>1, Zenon
    <2> QED BY <1>0, <2>1, <2>2, Zenon
<1>3. pop \in Seq(Steps) /\ push \in Seq(Steps)
    BY <1>0, Seq1, Seq2, Seq3, Seq4, Seq5, ConcatEmpty, Zenon
<1>4. PICK x : x = <<Exact>> /\ x \in Seq(Plain) /\ x \in Seq(Behind) /\ x \in Seq(Steps)
    <2>1. Exact \in Steps
        BY <1>0, StepTypes, Zenon
    <2> QED BY <1>0, <2>1, Seq1, Seq2, Seq3, Seq4, Seq5, ConcatEmpty, Zenon
<1> HIDE DEF chk, all
<1>5. ASSUME NEW n \in SeckeyNumbers(FALSE, v) PROVE n \in Seq(Plain)
    <2>1. PICK s \in all : n = <<>> \o s \o (IF v = "v3" THEN <<>> \o chk ELSE chk \o <<>>) \o x
        BY <1>4 DEF SeckeyNumbers, all, chk
    <2>2. s \in Seq(Plain)
        BY <1>2
    <2> QED BY <1>1, <1>4, <2>1, <2>2
<1>6. ASSUME NEW n \in SeckeyNumbers(TRUE, v) PROVE Outer(n)
    <2>1. PICK s \in all : n = push \o s \o (IF v = "v3" THEN pop \o chk ELSE chk \o pop) \o x
        BY <1>4 DEF SeckeyNumbers, all, chk
    <2>2. s \in Seq(Secrets) /\ s \in Seq(Steps)
        BY <1>2
    <2> HIDE DEF push, pop
    <2>3. CASE v = "v3"
        <3>1. n = ((push \o s) \o (pop \o chk)) \o x
            BY <2>1, <2>3
        <3>2. pop \o chk \in Seq(Steps) /\ push \o s \in Seq(Steps) /\ chk \o x \in Seq(Steps) /\ chk \o x \in Seq(Behind)
            BY <1>1, <1>3, <1>4, <2>2, ConcatClosed, Zenon
        <3>5. pop \o (chk \o x) \in Seq(Steps)
            BY <1>3, <3>2, ConcatClosed, Zenon
        <3>6. n = push \o (s \o (pop \o (chk \o x)))
            <4>1. Regroups(push, s, pop, chk, x)
                BY <1>1, <1>3, <1>4, <2>2, ConcatFive, Zenon
            <4> QED BY <3>1, <4>1 DEF Regroups
        <3>7. KeyRun(s \o (pop \o (chk \o x))) /\ s \o (pop \o (chk \o x)) \in Seq(Steps)
            BY <2>2, <3>2, <3>5, ConcatClosed, Zenon DEF KeyRun, pop
        <3>8. Ending(n) /\ n \in Seq(Steps)
            BY <1>3, <3>6, <3>7, ConcatClosed, Zenon DEF Ending, push
        <3> QED BY <3>8, EndingOuter
    <2>4. CASE v # "v3"
        <3>1. n = ((push \o s) \o (chk \o pop)) \o x
            BY <2>1, <2>4
        <3>2. pop \o x \in Seq(Steps) /\ push \o s \in Seq(Steps) /\ chk \o pop \in Seq(Steps)
              /\ s \o chk \in Seq(Steps) /\ s \o chk \in Seq(Secrets)
            BY <1>1, <1>3, <1>4, <2>2, ConcatClosed, Zenon
        <3>6. n = push \o ((s \o chk) \o (pop \o x))
            <4>1. Regroups(push, s, chk, pop, x)
                BY <1>1, <1>3, <1>4, <2>2, ConcatFive, Zenon
            <4> QED BY <3>1, <4>1 DEF Regroups
        <3>8. KeyRun((s \o chk) \o (pop \o x)) /\ (s \o chk) \o (pop \o x) \in Seq(Steps)
            BY <1>4, <3>2, ConcatClosed, Zenon DEF KeyRun, pop
        <3>9. Ending(n) /\ n \in Seq(Steps)
            BY <1>3, <3>6, <3>8, ConcatClosed, Zenon DEF Ending, push
        <3> QED BY <3>9, EndingOuter
    <2> QED BY <2>3, <2>4
<1>7. SeckeyProtection \subseteq Seq(Plain) /\ <<Data>> \in Seq(Plain)
    <2>1. <<F, Check, F>> \in Seq(Plain) /\ <<F, Check, F, Check, F>> \in Seq(Plain) /\ <<Data>> \in Seq(Plain)
        BY <1>0, Seq1, Seq3, Seq5, Zenon
    <2> QED BY <2>1, Zenon DEF SeckeyProtection
<1>8. \/ p \in SeckeyNumbers(FALSE, v)
      \/ \E q \in SeckeyProtection : \E n \in SeckeyNumbers(TRUE, v) \cup {<<Data>>} : p = q \o n
    BY Zenon DEF SeckeyBody
<1> QED BY <1>5, <1>6, <1>7, <1>8, PlainOuter, OuterFacts, Zenon

\* The parsers.
LEMMA ParsersOuter ==
    ASSUME NEW p \in Parsers
    PROVE  Outer(p)
<1>0. /\ F \in Plain /\ Check \in Plain /\ Mpi \in Plain /\ Data \in Plain /\ Exact \in Plain /\ Set \in Plain
      /\ <<"nest">> \in Plain /\ One("public numbers") \in Plain /\ One("v3 signature") \in Plain
      /\ One("v4 signature") \in Plain /\ One("encrypted session key") \in Plain
    BY PlainSteps, Zenon
<1>1. /\ <<F>> \in Seq(Plain) /\ <<Check>> \in Seq(Plain) /\ <<F, Check>> \in Seq(Plain) /\ <<Data>> \in Seq(Plain)
      /\ <<>> \in Seq(Plain) /\ <<Exact>> \in Seq(Plain) /\ <<One("public numbers")>> \in Seq(Plain)
      /\ <<<<"nest">>>> \in Seq(Plain) /\ <<F, <<"nest">>>> \in Seq(Plain) /\ <<F, Check, F>> \in Seq(Plain)
      /\ <<F, F, Data>> \in Seq(Plain) /\ <<F, Check, F, One("encrypted session key")>> \in Seq(Plain)
      /\ parse_v3_sig \in Seq(Plain)
    BY <1>0, Seq1, Seq2, Seq3, Seq4, Seq5, ConcatEmpty, Zenon DEF parse_v3_sig
<1>2. parse_v4_sig \in Seq(Plain)
    BY <1>0, Seq6, Zenon DEF parse_v4_sig
<1>3. ASSUME NEW v \in Versions PROVE parse_pubkey_data(v) \in Seq(Plain)
    BY <1>1, ConcatClosed DEF parse_pubkey_data
<1>4. ASSUME NEW q \in parse_sig PROVE q \in Seq(Plain)
    <2>1. PICK s \in {<<Check>>, parse_v3_sig, parse_v4_sig} : q = <<F>> \o s
        BY Zenon DEF parse_sig
    <2> QED BY <1>1, <1>2, <2>1, ConcatClosed, Zenon
<1>5. ASSUME NEW q \in parse_pubkey PROVE q \in Seq(Plain)
    <2>1. PICK v \in Versions : q = parse_pubkey_data(v) \o <<Exact>>
        BY Zenon DEF parse_pubkey, Versions
    <2> QED BY <1>1, <1>3, <2>1, ConcatClosed, Zenon
<1>6. ASSUME NEW q \in parse_seckey PROVE Outer(q)
    <2>1. PICK v \in Versions : q = parse_pubkey_data(v) \o <<F, One(v)>>
        BY Zenon DEF parse_seckey, Versions
    <2>2. Ending(<<One(v)>>)
        BY Zenon DEF Ending, Versions
    <2>3. One(v) \in Steps /\ F \in Steps
        BY StepTypes, Zenon
    <2>4. <<One(v)>> \in Seq(Steps)
        BY <2>3, Seq1, Seq2, Seq3, Seq4, Seq5, ConcatEmpty, Zenon
    <2>5. PICK d \in Seq(Plain) : d = parse_pubkey_data(v) /\ d \in Seq(Steps)
        BY <1>3, StepTypes, SeqSubset, Zenon
    <2>6. <<F, One(v)>> = <<F>> \o <<One(v)>>
        OBVIOUS
    <2>7. <<F>> \in Seq(Steps) /\ d \o <<F>> \in Seq(Plain)
        BY <1>1, <2>3, <2>5, ConcatClosed, Seq1, Seq2, Seq3, Seq4, Seq5, ConcatEmpty, Zenon
    <2>8. q = (d \o <<F>>) \o <<One(v)>>
        BY <2>1, <2>4, <2>5, <2>6, <2>7, ConcatAssoc
    <2> QED BY <2>2, <2>4, <2>7, <2>8, Zenon DEF Outer
<1>7. ASSUME NEW q \in parse_se_data PROVE Outer(q)
    <2>1. CASE q = <<Data>>
        BY <1>1, <2>1, PlainOuter, Zenon
    <2>2. CASE q = <<<<"push", "data">>, F, <<"preamble">>, <<"nest">>>>
        <3>1. Ending(q)
            BY <2>2, Zenon DEF Ending
        <3>2. q \in Seq(Steps)
            BY <3>1, EndingFacts
        <3> QED BY <3>1, EndingOuter
    <2>3. q = <<Data>> \/ q = <<<<"push", "data">>, F, <<"preamble">>, <<"nest">>>>
        BY Zenon DEF parse_se_data, decrypt_se_data
    <2> QED BY <2>1, <2>2, <2>3
<1>8. ASSUME NEW q \in parse_se_ip_data PROVE q \in Seq(Plain)
    <2>1. q = <<F, Check>> \o <<<<"nest">>>> \/ q = <<F, Check>> \o <<Data>>
        BY Zenon DEF parse_se_ip_data, decrypt_se_ip_data
    <2> QED BY <1>1, <2>1, ConcatClosed, Zenon
<1>9. /\ parse_trust \subseteq Seq(Plain) /\ parse_userid \subseteq Seq(Plain) /\ parse_compressed \subseteq Seq(Plain)
      /\ parse_one_pass \subseteq Seq(Plain) /\ parse_litdata \subseteq Seq(Plain) /\ parse_userattr \subseteq Seq(Plain)
      /\ parse_pk_sesskey \subseteq Seq(Plain) /\ parse_mdc \subseteq Seq(Plain)
    BY <1>1, Zenon DEF parse_trust, parse_userid, parse_compressed, parse_one_pass, parse_litdata, parse_userattr,
        parse_pk_sesskey, parse_mdc
<1> QED BY <1>4, <1>5, <1>6, <1>7, <1>8, <1>9, PlainOuter, Zenon DEF Parsers

-----------------------------------------------------------------------------
(* The invariant. *)

\* The position in the input and what is left of a virtual packet agree with what
\* was read of the packet.
Counted(r, t, v) ==
    IF r.indeterminate THEN t = 0 /\ v = 0
    ELSE t = r.length - r.readc /\ (v = 0 \/ v = t)
Positions ==
    /\ (pc \in {"body", "end"} /\ ~eof) => Counted(Packet, togo, virt)
    /\ \A i \in DOMAIN stack : ~stack[i].eof => Counted(stack[i].region, stack[i].togo, stack[i].virt)

\* Only the region of a packet may have no length; the decrypting reader is there
\* only while a parser runs.
Control ==
    /\ pc \in {"body", "end"} => regs # <<>>
    /\ pc \notin {"body", "end", "undefined"} => ~dec.on
    /\ \A i \in DOMAIN regs : i # 1 => ~regs[i].indeterminate

Reported == short = "body" => errors

\* What the decrypting reader has fetched of the packet, the numbers do not have yet.
Buffered ==
    /\ dec.buf + (Packet.length - Packet.readc) = Cur.length - Cur.readc
    /\ Packet.readc <= Packet.length \/ Cur.length < Cur.readc

\* Where the running parser is: on its packet, on encrypted numbers, on the
\* preamble of encrypted data, behind the numbers,
AtPacket  == ~dec.on /\ Len(regs) = 1 /\ Outer(prog)
AtKey     == dec.on /\ Len(regs) = 2 /\ KeyRun(prog) /\ (~dec.exact => Buffered)
AtData    == dec.on /\ dec.exact /\ Len(regs) = 2 /\ prog \in DataRuns
BehindKey == ~dec.on /\ Len(regs) = 2 /\ prog \in Seq(Behind)

\* on a set of subpackets, on the length, the type and the fields of one.
AtSet    == ~dec.on /\ Len(regs) = 2 /\ InSet(prog)
AtLength == ~dec.on /\ Len(regs) = 2 /\ \E r \in Seq(Steps) : InSet(r) /\ prog = <<<<"subpacket length">>>> \o r
AtType ==
    /\ ~dec.on /\ Len(regs) = 3 /\ Cur.readc = 0
    /\ \E r \in Seq(Steps) : InSet(r) /\ prog = <<F>> \o (<<<<"subpacket">>>> \o r)
AtSubpacket ==
    /\ ~dec.on /\ Len(regs) = 3 /\ Cur.readc = 1 /\ Cur.length >= 1
    /\ \E r \in Seq(Steps) : InSet(r) /\ prog = <<<<"subpacket">>>> \o r

\* A subpacket that is not to be ignored will be read to its end, or refused.
Finishes(x, ignored) ==
    \/ ignored \/ errors
    \/ x = <<>> /\ Cur.readc = Cur.length
    \/ x = <<<<"read", Cur.length - Cur.readc>>>>
    \/ \E y \in Seq(Inner) : x = y \o <<Exact>>
AtFields ==
    /\ ~dec.on /\ Len(regs) = 3
    /\ \E x \in Seq(Inner), r \in Seq(Steps), ignored \in BOOLEAN :
          InSet(r) /\ prog = x \o (<<<<"subpacket end", ignored>>>> \o r) /\ Finishes(x, ignored)

Place == AtPacket \/ AtKey \/ AtData \/ BehindKey \/ AtSet \/ AtLength \/ AtType \/ AtSubpacket \/ AtFields
Placed == pc = "body" => Place

IInv ==
    /\ TypeOK /\ Control /\ Positions /\ Reported /\ Placed
    /\ InStep /\ SubpacketsInStep /\ ReadersBalanced

-----------------------------------------------------------------------------
(* Reading. *)

\* What holds of the regions and the counts after a read.
Consistent ==
    /\ regs' \in Seq(Regions) /\ Len(regs') = Len(regs)
    /\ \A i \in DOMAIN regs : regs'[i].length = regs[i].length /\ regs'[i].indeterminate = regs[i].indeterminate
    /\ togo' \in Int /\ virt' \in Nat /\ {eof', errors'} \subseteq BOOLEAN /\ short' \in Shorts /\ dec' \in Readers
    /\ ~eof' => Counted(regs'[1], togo', virt')
    /\ (errors => errors') /\ (short' = "body" => errors')
    /\ UNCHANGED <<sesskey, stack, gap>>

\* A read of k bytes succeeds, with next to follow, or the parser fails.
Took(k, next) ==
    /\ Goes(next) /\ dec'.on = dec.on /\ dec'.exact = dec.exact /\ errors' = errors
    /\ Len(regs) # 1 => regs'[Len(regs)].readc = Cur.readc + k /\ Cur.readc + k <= Cur.length
    /\ ((dec.on /\ ~dec.exact /\ Buffered) => Buffered')
FailsReading == Fails /\ dec' = ReaderAfterFailure

\* Bytes are consumed.
LEMMA AdvanceFacts ==
    ASSUME TypeOK, NEW k \in Nat, Advance(k), NEW r \in Regions, NEW s \in Regions,
           r.indeterminate = Packet.indeterminate,
           s.length = r.length, s.indeterminate = r.indeterminate, s.readc = r.readc + k
    PROVE  /\ togo' \in Int /\ virt' \in Nat
           /\ Counted(r, togo, virt) => Counted(s, togo', virt')
<1>1. togo \in Int /\ virt \in Nat /\ r.readc \in Int /\ r.length \in Int /\ r.indeterminate \in BOOLEAN
    BY DEF TypeOK, Regions
<1>2. virt' = virt - (IF k < virt THEN k ELSE virt) /\ togo' = IF r.indeterminate THEN togo ELSE togo - k
    BY DEF Advance, Least
<1>3. togo' \in Int /\ virt' \in Nat
    BY <1>1, <1>2
<1>4. CASE r.indeterminate
    BY <1>1, <1>2, <1>4 DEF Counted
<1>5. CASE ~r.indeterminate
    BY <1>1, <1>2, <1>5 DEF Counted
<1> QED BY <1>3, <1>4, <1>5

\* The numbers of bytes that may be there instead of k.
LEMMA ShortageFacts ==
    ASSUME NEW k \in Int, NEW m \in Shortages(k)
    PROVE  m \in Nat /\ m < k
BY DEF Shortages

\* What pgp_limited_read adds.
LEMMA ChainFacts ==
    ASSUME regs \in Seq(Regions), NEW k \in Int
    PROVE  /\ Chain(k) \in Seq(Regions) /\ Len(Chain(k)) = Len(regs)
           /\ \A i \in DOMAIN regs : /\ Chain(k)[i].length = regs[i].length
                                     /\ Chain(k)[i].indeterminate = regs[i].indeterminate
                                     /\ Chain(k)[i].readc = regs[i].readc + k
<1>1. PICK s \in Seq(Regions) : s = regs
    OBVIOUS
<1>2. PICK c : c = [i \in DOMAIN s |-> [s[i] EXCEPT !.readc = @ + k]]
    OBVIOUS
<1>3. ASSUME NEW i \in DOMAIN s
      PROVE  /\ c[i] \in Regions /\ c[i].length = s[i].length /\ c[i].indeterminate = s[i].indeterminate
             /\ c[i].readc = s[i].readc + k
    <2>1. PICK r \in Regions : r = s[i]
        OBVIOUS
    <2>2. PICK w \in Int : w = r.readc + k
        BY DEF Regions
    <2>3. c[i] = [r EXCEPT !.readc = w]
        BY <1>2, <2>1, <2>2
    <2>4. c[i] \in Regions /\ c[i].length = r.length /\ c[i].indeterminate = r.indeterminate /\ c[i].readc = w
        BY <2>3 DEF Regions
    <2> QED BY <2>1, <2>2, <2>4
<1>4. c \in [1 .. Len(s) -> Regions]
    <2>1. c = [i \in 1 .. Len(s) |-> c[i]]
        BY <1>2
    <2>2. \A i \in 1 .. Len(s) : c[i] \in Regions
        BY <1>3
    <2> QED BY <2>1, <2>2, Zenon
<1>5. c \in Seq(Regions) /\ Len(c) = Len(s)
    BY <1>4
<1>6. Chain(k) = c
    BY <1>1, <1>2 DEF Chain
<1> QED BY <1>1, <1>3, <1>5, <1>6

\* pgp_limited_read on regions that are each the parent of the next.
LEMMA LimitedRead ==
    ASSUME IInv, pc = "body", prog # <<>>, ~dec.on, NEW k \in Nat, NEW next,
           pgp_limited_read(k, next), UNCHANGED <<sesskey, stack, gap>>
    PROVE  Consistent /\ (Took(k, next) \/ FailsReading)
<1>1. /\ TypeOK /\ regs \in Seq(Regions) /\ regs # <<>> /\ {eof, errors} \subseteq BOOLEAN /\ short \in Shorts /\ dec \in Readers
      /\ togo \in Int /\ virt \in Nat /\ (~eof => Counted(Packet, togo, virt)) /\ (short = "body" => errors)
      /\ \A i \in DOMAIN regs : i # 1 => ~regs[i].indeterminate
    BY DEF IInv, TypeOK, Control, Positions, Reported
<1>2. 1 \in DOMAIN regs /\ Len(regs) \in DOMAIN regs /\ Packet \in Regions
    BY <1>1 DEF Packet
<1>3. NoReader \in Readers /\ ReaderAfterFailure \in Readers
    <2>1. NoReader \in Readers
        BY DEF NoReader, Readers
    <2> QED BY <1>1, <2>1, Zenon DEF ReaderAfterFailure
<1>4. CASE NotEnoughData
    <2>1. UNCHANGED <<regs, togo, virt, eof, short>> /\ errors' = TRUE /\ FailsReading /\ dec' \in Readers
        BY <1>3, <1>4 DEF NotEnoughData, FailsReading
    <2> QED BY <1>1, <2>1 DEF Consistent, Packet
<1>5. CASE /\ Fits(k) /\ Advance(k) /\ regs' = Chain(k) /\ Goes(next) /\ UNCHANGED <<errors, eof, short, dec>>
    <2>1. /\ regs' \in Seq(Regions) /\ Len(regs') = Len(regs)
          /\ \A i \in DOMAIN regs : /\ regs'[i].length = regs[i].length
                                    /\ regs'[i].indeterminate = regs[i].indeterminate
                                    /\ regs'[i].readc = regs[i].readc + k
        BY <1>1, <1>5, ChainFacts
    <2>2. PICK r \in Regions : r = Packet
        BY <1>2
    <2>3. PICK s \in Regions : s = regs'[1]
        BY <1>2, <2>1
    <2>4. r.indeterminate = Packet.indeterminate /\ s.length = r.length /\ s.indeterminate = r.indeterminate /\ s.readc = r.readc + k
        BY <1>2, <2>1, <2>2, <2>3 DEF Packet
    <2>5. togo' \in Int /\ virt' \in Nat /\ (Counted(r, togo, virt) => Counted(s, togo', virt'))
        BY <1>1, <1>5, <2>4, AdvanceFacts
    <2>6. Consistent
        BY <1>1, <1>5, <2>1, <2>2, <2>3, <2>5 DEF Consistent
    <2>7. Took(k, next)
        <3>1. Len(regs) # 1 => regs'[Len(regs)].readc = Cur.readc + k /\ Cur.readc + k <= Cur.length
            BY <1>1, <1>2, <1>5, <2>1 DEF Cur, Fits
        <3> QED BY <1>5, <3>1 DEF Took
    <2> QED BY <2>6, <2>7
<1>6. CASE \E m \in Shortages(k) : ShortRead(m, next)
    <2>1. PICK m \in Shortages(k) : ShortRead(m, next)
        BY <1>6
    <2>2. m \in Nat
        BY ShortageFacts
    <2>3. PICK r \in Regions : r = Packet
        BY <1>2
    <2>4. PICK w \in Int : w = r.readc + m
        BY <2>2 DEF Regions
    <2>5. PICK s \in Regions : s.length = r.length /\ s.indeterminate = r.indeterminate /\ s.readc = w
        <3>1. [length |-> r.length, readc |-> w, indeterminate |-> r.indeterminate] \in Regions
            BY DEF Regions
        <3> QED BY <3>1
    <2>6. togo' \in Int /\ virt' \in Nat /\ eof' = TRUE /\ short' = (IF Packet.indeterminate THEN short ELSE "body")
        BY <1>1, <2>1, <2>2, <2>3, <2>4, <2>5, AdvanceFacts DEF ShortRead, EndsWithin
    <2>7. CASE Cur.indeterminate
        <3>1. Len(regs) = 1 /\ Cur = Packet
            BY <1>1, <1>2, <2>7 DEF Cur, Packet
        <3>2. regs' = Chain(m) /\ Goes(next) /\ UNCHANGED <<errors, dec>> /\ short' = short
            BY <2>1, <2>7, <3>1 DEF ShortRead, EndsWithin
        <3>3. Consistent
            BY <1>1, <2>2, <2>6, <3>2, ChainFacts DEF Consistent
        <3>4. Took(k, next)
            BY <1>1, <3>1, <3>2 DEF Took
        <3> QED BY <3>3, <3>4
    <2>8. CASE ~Cur.indeterminate
        <3>1. errors' = TRUE /\ FailsReading /\ regs' = regs
            BY <2>1, <2>8 DEF ShortRead, FailsReading
        <3>2. dec' \in Readers
            BY <1>3, <3>1 DEF FailsReading
        <3>3. short' \in Shorts
            BY <1>1, <2>6 DEF Shorts
        <3> QED BY <1>1, <2>6, <3>1, <3>2, <3>3 DEF Consistent
    <2> QED BY <2>7, <2>8
<1> QED BY <1>4, <1>5, <1>6, Zenon DEF pgp_limited_read

\* Whole buffers for m bytes are at least m bytes.
LEMMA WholeBuffers ==
    ASSUME NEW m \in Nat, NEW C \in Nat \ {0}
    PROVE  ((m + C - 1) \div C) * C \in Nat /\ m <= ((m + C - 1) \div C) * C
<1>1. PICK n \in Nat : n = m + C - 1
    OBVIOUS
<1>2. (n \div C) \in Nat /\ n < (n \div C) * C + C
    OBVIOUS
<1>3. PICK q \in Nat : q = n \div C
    BY <1>2
<1>4. PICK w \in Nat : w = q * C
    OBVIOUS
<1>5. n < w + C
    BY <1>2, <1>3, <1>4
<1>6. m <= w
    BY <1>1, <1>5
<1> QED BY <1>1, <1>3, <1>4, <1>6

\* The elements of a sequence.
LEMMA Elements ==
    ASSUME NEW S, NEW s \in Seq(S), NEW i \in 1 .. Len(s)
    PROVE  s[i] \in S
OBVIOUS

\* What the reader fetches is enough for k bytes, if the regions have them.
LEMMA FetchedFacts ==
    ASSUME TypeOK, dec.on, Len(regs) = 2, ~dec.exact => Buffered, NEW k \in Nat,
           Cur.readc + k <= Cur.length, Packet.readc + Fetched(k) <= Packet.length
    PROVE  Fetched(k) \in Nat /\ dec.buf + Fetched(k) - k \in Nat
<1>0. regs \in Seq(Regions) /\ dec \in Readers
    BY DEF TypeOK
<1>1. /\ regs[1] \in Regions /\ regs[2] \in Regions /\ dec.buf \in Nat /\ dec.exact \in BOOLEAN
    <2>0. 1 \in 1 .. Len(regs) /\ 2 \in 1 .. Len(regs)
        OBVIOUS
    <2>1. regs[1] \in Regions /\ regs[2] \in Regions
        BY <1>0, <2>0, Elements, Zenon
    <2>2. dec.buf \in Nat /\ dec.exact \in BOOLEAN
        BY <1>0 DEF Readers
    <2> QED BY <2>1, <2>2
<1>a. Packet = regs[1] /\ Cur = regs[2]
    BY DEF Packet, Cur
<1>b. Packet.length \in Int /\ Packet.readc \in Int /\ Cur.length \in Int /\ Cur.readc \in Int
    BY <1>1, <1>a DEF Regions
<1>2. PICK pl \in Int, pr \in Int, cl \in Int, cr \in Int, b \in Nat :
         pl = Packet.length /\ pr = Packet.readc /\ cl = Cur.length /\ cr = Cur.readc /\ b = dec.buf
    BY <1>1, <1>b, Zenon
<1>c. (IF k > b THEN k - b ELSE 0) \in Nat
    OBVIOUS
<1>3. PICK m \in Nat : m = IF k > b THEN k - b ELSE 0
    BY <1>c, Zenon
<1>4. PICK w \in Nat : w = ((m + Chunk - 1) \div Chunk) * Chunk /\ m <= w
    BY ParserAssumption, WholeBuffers
<1>5. PICK f : f = Fetched(k)
    OBVIOUS
<1>6. f = IF dec.exact THEN m ELSE IF pl - pr < w THEN pl - pr ELSE w
    BY <1>2, <1>3, <1>4, <1>5 DEF Fetched, Least
<1>7. CASE dec.exact
    BY <1>2, <1>3, <1>5, <1>6, <1>7
<1>8. CASE ~dec.exact
    <2>1. b + (pl - pr) = cl - cr /\ (pr <= pl \/ cl < cr) /\ cr + k <= cl
        BY <1>2, <1>8 DEF Buffered
    <2>2. f = IF pl - pr < w THEN pl - pr ELSE w
        BY <1>6, <1>8
    <2>3. f \in Nat /\ b + f - k \in Nat
        BY <1>3, <1>4, <2>1, <2>2
    <2> QED BY <1>2, <1>5, <2>3
<1> QED BY <1>7, <1>8

\* encrypted_data_reader.
LEMMA EncryptedRead ==
    ASSUME IInv, pc = "body", prog # <<>>, dec.on, Len(regs) = 2, ~dec.exact => Buffered, NEW k \in Nat, NEW next,
           encrypted_data_reader(k, next), UNCHANGED <<sesskey, stack, gap>>
    PROVE  Consistent /\ (Took(k, next) \/ FailsReading)
<1>1. /\ TypeOK /\ regs \in Seq(Regions) /\ {eof, errors} \subseteq BOOLEAN /\ short \in Shorts /\ dec \in Readers
      /\ togo \in Int /\ virt \in Nat /\ (~eof => Counted(Packet, togo, virt)) /\ (short = "body" => errors)
      /\ \A i \in DOMAIN regs : i # 1 => ~regs[i].indeterminate
    BY DEF IInv, TypeOK, Control, Positions, Reported
<1>2. DOMAIN regs = {1, 2} /\ Packet = regs[1] /\ Cur = regs[2] /\ regs[1] \in Regions /\ regs[2] \in Regions
      /\ ~Cur.indeterminate
    BY <1>1 DEF Packet, Cur
<1>3. NoReader \in Readers /\ ReaderAfterFailure \in Readers
    <2>1. NoReader \in Readers
        BY DEF NoReader, Readers
    <2> QED BY <1>1, <2>1, Zenon DEF ReaderAfterFailure
<1>4. CASE NotEnoughData
    <2>1. UNCHANGED <<regs, togo, virt, eof, short>> /\ errors' = TRUE /\ FailsReading /\ dec' \in Readers
        BY <1>3, <1>4 DEF NotEnoughData, FailsReading
    <2> QED BY <1>1, <2>1 DEF Consistent, Packet
<1>5. ASSUME Fits(k), Packet.readc + Fetched(k) <= Packet.length
      PROVE  Fetched(k) \in Nat /\ dec.buf + Fetched(k) - k \in Nat
    <2>1. Cur.readc + k <= Cur.length
        BY <1>2, <1>5 DEF Fits
    <2> QED BY <1>1, <1>5, <2>1, FetchedFacts
<1>6. CASE /\ Fits(k) /\ Packet.readc + Fetched(k) <= Packet.length /\ Advance(Fetched(k))
           /\ regs' = [regs EXCEPT ![1].readc = @ + Fetched(k), ![Len(regs)].readc = @ + k]
           /\ dec' = [dec EXCEPT !.buf = @ + Fetched(k) - k]
           /\ Goes(next) /\ UNCHANGED <<errors, eof, short>>
    <2>1. PICK f \in Nat, u \in Nat : f = Fetched(k) /\ u = dec.buf + f - k
        BY <1>5, <1>6
    <2>2. PICK r \in Regions, c \in Regions : r = regs[1] /\ c = regs[2]
        BY <1>2
    <2>3. PICK x \in Int, y \in Int : x = r.readc + f /\ y = c.readc + k
        BY DEF Regions
    <2>4. PICK s \in Regions, d \in Regions : s = [r EXCEPT !.readc = x] /\ d = [c EXCEPT !.readc = y]
        <3>1. [r EXCEPT !.readc = x] \in Regions /\ [c EXCEPT !.readc = y] \in Regions
            BY DEF Regions
        <3> QED BY <3>1
    <2>5. /\ s.length = r.length /\ s.indeterminate = r.indeterminate /\ s.readc = x
          /\ d.length = c.length /\ d.indeterminate = c.indeterminate /\ d.readc = y
        BY <2>4 DEF Regions
    <2>6. /\ regs' \in Seq(Regions) /\ Len(regs') = 2 /\ regs'[1] = s /\ regs'[2] = d
        <3>1. regs' = [regs EXCEPT ![1].readc = @ + f, ![2].readc = @ + k]
            BY <1>6, <2>1
        <3>2. regs' = [regs EXCEPT ![1] = s, ![2] = d]
            BY <1>2, <2>2, <2>3, <2>4, <3>1
        <3> QED BY <1>1, <1>2, <3>2
    <2>7. dec' \in Readers /\ dec'.on = dec.on /\ dec'.exact = dec.exact /\ dec'.buf = u
        <3>1. dec' = [dec EXCEPT !.buf = u]
            BY <1>6, <2>1
        <3> QED BY <1>1, <3>1 DEF Readers
    <2>8. togo' \in Int /\ virt' \in Nat /\ (Counted(r, togo, virt) => Counted(s, togo', virt'))
        <3>1. Advance(f) /\ r.indeterminate = Packet.indeterminate
            BY <1>2, <1>6, <2>1, <2>2
        <3> QED BY <1>1, <2>3, <2>5, <3>1, AdvanceFacts
    <2>9. Consistent
        BY <1>1, <1>2, <1>6, <2>2, <2>5, <2>6, <2>7, <2>8 DEF Consistent
    <2>10. ASSUME ~dec.exact, Buffered PROVE Buffered'
        <3>1. PICK b \in Nat : b = dec.buf
            BY <1>1 DEF Readers
        <3>2. PICK pl \in Int, pr \in Int, cl \in Int, cr \in Int :
                 pl = r.length /\ pr = r.readc /\ cl = c.length /\ cr = c.readc
            BY DEF Regions
        <3>3. b + (pl - pr) = cl - cr /\ pr + f <= pl /\ u = b + f - k /\ x = pr + f /\ y = cr + k
            BY <1>2, <1>6, <2>1, <2>2, <2>3, <2>10, <3>1, <3>2 DEF Buffered
        <3>4. u + (pl - x) = cl - y /\ x <= pl
            BY <3>3
        <3>5. Packet' = s /\ Cur' = d
            BY <2>6 DEF Packet, Cur
        <3> QED BY <2>5, <2>7, <3>2, <3>4, <3>5 DEF Buffered
    <2>11. Cur.readc + k <= Cur.length
        BY <1>2, <1>6 DEF Fits
    <2>12. Took(k, next)
        BY <1>2, <1>6, <2>2, <2>3, <2>5, <2>6, <2>7, <2>10, <2>11 DEF Took
    <2> QED BY <2>9, <2>12
<1>7. CASE /\ Fits(k) /\ Packet.readc + Fetched(k) <= Packet.length
           /\ \E m \in Shortages(Fetched(k)) : ShortRead(m, next)
    <2>1. PICK f \in Nat : f = Fetched(k)
        BY <1>5, <1>7
    <2>2. PICK m \in Shortages(f) : ShortRead(m, next)
        BY <1>7, <2>1
    <2>3. m \in Nat
        BY ShortageFacts
    <2>4. PICK r \in Regions : r = Packet
        BY <1>2
    <2>5. PICK w \in Int : w = r.readc + m
        BY <2>3 DEF Regions
    <2>6. PICK s \in Regions : s.length = r.length /\ s.indeterminate = r.indeterminate /\ s.readc = w
        <3>1. [length |-> r.length, readc |-> w, indeterminate |-> r.indeterminate] \in Regions
            BY DEF Regions
        <3> QED BY <3>1
    <2>7. togo' \in Int /\ virt' \in Nat /\ eof' = TRUE /\ short' = (IF Packet.indeterminate THEN short ELSE "body")
        BY <1>1, <2>2, <2>3, <2>4, <2>5, <2>6, AdvanceFacts DEF ShortRead, EndsWithin
    <2>8. errors' = TRUE /\ FailsReading /\ regs' = regs
        BY <1>2, <2>2 DEF ShortRead, FailsReading
    <2>9. dec' \in Readers /\ short' \in Shorts
        BY <1>1, <1>3, <2>7, <2>8 DEF FailsReading, Shorts
    <2> QED BY <1>1, <2>7, <2>8, <2>9 DEF Consistent
<1> QED BY <1>4, <1>6, <1>7, Zenon DEF encrypted_data_reader

\* Both ways to read.
LEMMA TakeFacts ==
    ASSUME IInv, pc = "body", prog # <<>>, dec.on => Len(regs) = 2 /\ (~dec.exact => Buffered), NEW k \in Nat, NEW next,
           Take(k, next)
    PROVE  Consistent /\ (Took(k, next) \/ FailsReading)
<1>1. CASE dec.on
    BY <1>1, EncryptedRead DEF Take
<1>2. CASE ~dec.on
    BY <1>2, LimitedRead DEF Take
<1> QED BY <1>1, <1>2

-----------------------------------------------------------------------------
(* Steps of the parsers. *)

\* What holds after every step on the body of a packet.
Settled ==
    /\ regs' \in Seq(Regions) /\ regs' # <<>> /\ Len(regs') <= 3
    /\ \A i \in DOMAIN regs' : i # 1 => ~regs'[i].indeterminate
    /\ togo' \in Int /\ virt' \in Nat /\ {eof', sesskey', errors'} \subseteq BOOLEAN /\ short' \in Shorts /\ dec' \in Readers
    /\ ~eof' => Counted(regs'[1], togo', virt')
    /\ short' = "body" => errors'
    /\ gap' \in [bytes : Int, ignored : BOOLEAN] /\ (gap'.bytes # 0 => gap'.ignored \/ errors')
    /\ stack' = stack

\* The invariant holds again when the parser is at one of the places,
LEMMA GoesOn ==
    ASSUME IInv, pc = "body", Settled, pc' = "body", ret' = ret, Place'
    PROVE  IInv'
<1>1. TypeOK'
    BY DEF IInv, TypeOK, Settled
<1>2. Control' /\ Reported' /\ Placed' /\ InStep' /\ ReadersBalanced' /\ SubpacketsInStep'
    BY DEF Control, Reported, Placed, InStep, ReadersBalanced, SubpacketsInStep, Settled
<1>3. Positions'
    BY DEF IInv, Positions, Packet, Settled
<1> QED BY <1>1, <1>2, <1>3 DEF IInv

\* or has failed where the reader may be left behind.
LEMMA GivesUp ==
    ASSUME IInv, pc = "body", Settled, Fails, dec'.on => Head(prog)[1] \in {"read", "check"}
    PROVE  IInv'
<1>0. pc' = "end" /\ ret' = 0 /\ failed' = Head(prog)[1]
    BY DEF Fails
<1>1. TypeOK'
    BY <1>0 DEF IInv, TypeOK, Settled
<1>2. Control' /\ Reported' /\ Placed' /\ InStep' /\ SubpacketsInStep'
    BY <1>0 DEF Control, Reported, Placed, InStep, SubpacketsInStep, Settled
<1>3. Positions'
    BY <1>0 DEF IInv, Positions, Packet, Settled
<1>4. ReadersBalanced'
    BY <1>0, Zenon DEF ReadersBalanced
<1> QED BY <1>1, <1>2, <1>3, <1>4 DEF IInv

\* A read leaves the parser so,
LEMMA ConsistentSettled ==
    ASSUME IInv, pc = "body", Consistent
    PROVE  Settled
<1>1. /\ regs \in Seq(Regions) /\ regs # <<>> /\ Len(regs) <= 3 /\ sesskey \in BOOLEAN
      /\ \A i \in DOMAIN regs : i # 1 => ~regs[i].indeterminate
      /\ gap \in [bytes : Int, ignored : BOOLEAN] /\ (gap.bytes # 0 => gap.ignored \/ errors)
    BY DEF IInv, TypeOK, Control, SubpacketsInStep
<1>2. DOMAIN regs' = DOMAIN regs /\ regs' # <<>> /\ Len(regs') <= 3
    BY <1>1 DEF Consistent
<1> QED BY <1>1, <1>2 DEF Consistent, Settled

\* and so does a step that reads nothing.
LEMMA QuietSettled ==
    ASSUME IInv, pc = "body", UNCHANGED quiet, errors' \in {errors, TRUE}, sesskey' \in BOOLEAN
    PROVE  Settled
<1>1. /\ regs \in Seq(Regions) /\ regs # <<>> /\ Len(regs) <= 3
      /\ \A i \in DOMAIN regs : i # 1 => ~regs[i].indeterminate
      /\ gap \in [bytes : Int, ignored : BOOLEAN] /\ (gap.bytes # 0 => gap.ignored \/ errors)
      /\ {eof, errors} \subseteq BOOLEAN /\ short \in Shorts /\ dec \in Readers
      /\ togo \in Int /\ virt \in Nat /\ (~eof => Counted(regs[1], togo, virt)) /\ (short = "body" => errors)
    BY DEF IInv, TypeOK, Control, SubpacketsInStep, Positions, Reported, Packet
<1>2. UNCHANGED <<regs, togo, virt, eof, dec, stack, gap, short>>
    BY DEF quiet
<1> QED BY <1>1, <1>2 DEF Settled

\* The action that takes a step.
LEMMA StepOf ==
    ASSUME Next, pc = "body", prog # <<>>, NEW op, Head(prog)[1] = op
    PROVE  /\ op = "one of" => Branch
           /\ op = "read" => limread
           /\ op = "data" => read_data
           /\ op \in {"mpi", "secret"} => limread_mpi
           /\ op \in {"number", "secret number"} => limread_mpi_number
           /\ op = "check" => CheckValue
           /\ op = "exact" => ExactEnd
           /\ op = "sesskey" => SessionKey
           /\ op = "push" => pgp_reader_push_decrypt
           /\ op = "pop" => pgp_reader_pop_decrypt
           /\ op = "preamble" => Preamble
           /\ op = "set" => OpenSet
           /\ op = "set length" => SetLength
           /\ op = "subpackets" => parse_sig_subpkts
           /\ op = "subpacket length" => limited_read_new_length
           /\ op = "subpacket" => parse_one_sig_subpacket
           /\ op = "subpacket end" => SubpacketEnd
           /\ op = "skip" => limskip
           /\ op = "nest" => (Nest \/ NestTooDeep)
<1>1. /\ Branch => op = "one of"
      /\ limread => op = "read"
      /\ read_data => op = "data"
      /\ limread_mpi => op \in {"mpi", "secret"}
      /\ limread_mpi_number => op \in {"number", "secret number"}
      /\ CheckValue => op = "check"
      /\ ExactEnd => op = "exact"
      /\ SessionKey => op = "sesskey"
      /\ pgp_reader_push_decrypt => op = "push"
      /\ pgp_reader_pop_decrypt => op = "pop"
      /\ Preamble => op = "preamble"
    BY Zenon DEF Is, Branch, limread, read_data, limread_mpi, limread_mpi_number, CheckValue, ExactEnd, SessionKey,
        pgp_reader_push_decrypt, pgp_reader_pop_decrypt, Preamble
<1>2. /\ OpenSet => op = "set"
      /\ SetLength => op = "set length"
      /\ parse_sig_subpkts => op = "subpackets"
      /\ limited_read_new_length => op = "subpacket length"
      /\ parse_one_sig_subpacket => op = "subpacket"
      /\ SubpacketEnd => op = "subpacket end"
      /\ limskip => op = "skip"
      /\ Nest => op = "nest"
      /\ NestTooDeep => op = "nest"
    BY Zenon DEF Is, OpenSet, SetLength, parse_sig_subpkts, limited_read_new_length, parse_one_sig_subpacket,
        SubpacketEnd, limskip, Nest, NestTooDeep
<1>3. ~PacketHeader /\ ~LostParts /\ ~UnknownTag /\ ~BadHeader /\ ~repgp_parse
    BY DEF PacketHeader, LostParts, UnknownTag, BadHeader, repgp_parse
<1>4. ~ParserReturns /\ ~consume_packet /\ ~StrayReader /\ ~Over
    BY DEF ParserReturns, consume_packet, StrayReader, Over
<1>5. \/ Branch \/ limread \/ read_data \/ limread_mpi \/ limread_mpi_number \/ CheckValue \/ ExactEnd
      \/ SessionKey \/ pgp_reader_push_decrypt \/ pgp_reader_pop_decrypt \/ Preamble
      \/ OpenSet \/ SetLength \/ parse_sig_subpkts \/ limited_read_new_length
      \/ parse_one_sig_subpacket \/ SubpacketEnd \/ limskip \/ Nest \/ NestTooDeep
    BY <1>3, <1>4, Zenon DEF Next
<1> QED BY <1>1, <1>2, <1>5

\* A step that leaves the regions and the reader where they are and goes on with
\* next, or fails.
Stays(next) ==
    /\ Goes(next) /\ Len(regs') = Len(regs) /\ dec'.on = dec.on /\ dec'.exact = dec.exact
    /\ (dec.on /\ ~dec.exact /\ Buffered) => Buffered'
    /\ errors => errors'
Plainly(next) ==
    \/ Stays(next)
    \/ /\ Fails
       /\ dec'.on => dec.on /\ Head(prog)[1] \notin {"secret", "secret number"}

\* A read.
LEMMA PlainRead ==
    ASSUME IInv, pc = "body", prog # <<>>, dec.on => Len(regs) = 2 /\ (~dec.exact => Buffered), NEW k \in Nat, NEW next,
           Take(k, next)
    PROVE  Settled /\ Plainly(next)
<1>1. Consistent /\ (Took(k, next) \/ FailsReading)
    BY TakeFacts
<1>2. Settled
    BY <1>1, ConsistentSettled
<1>3. CASE Took(k, next)
    <2>1. Len(regs') = Len(regs) /\ (errors => errors')
        BY <1>1, Zenon DEF Consistent
    <2>2. /\ Goes(next) /\ dec'.on = dec.on /\ dec'.exact = dec.exact
          /\ (dec.on /\ ~dec.exact /\ Buffered) => Buffered'
        BY <1>3, Zenon DEF Took
    <2> QED BY <1>2, <2>1, <2>2, Zenon DEF Plainly, Stays
<1>4. CASE FailsReading
    <2>1. Fails /\ dec' = IF Head(prog)[1] \in {"secret", "secret number"} THEN NoReader ELSE dec
        BY <1>4 DEF FailsReading, ReaderAfterFailure
    <2>2. ~NoReader.on
        BY DEF NoReader
    <2> QED BY <1>2, <2>1, <2>2 DEF Plainly, Stays
<1> QED BY <1>1, <1>2, <1>3, <1>4

\* Steps that do not read.
LEMMA PlainQuiet ==
    ASSUME IInv, pc = "body", NEW next, UNCHANGED quiet, errors' \in {errors, TRUE}, sesskey' \in BOOLEAN,
           Goes(next) \/ (Fails /\ ~dec.on) \/ (Fails /\ Head(prog)[1] \notin {"secret", "secret number"})
    PROVE  Settled /\ Plainly(next)
<1>1. Settled
    BY QuietSettled
<1>2. regs' = regs /\ dec' = dec
    BY DEF quiet
<1>3. Buffered => Buffered'
    BY <1>2 DEF Buffered, Packet, Cur
<1>4. Len(regs') = Len(regs) /\ dec'.on = dec.on /\ dec'.exact = dec.exact
    BY <1>2
<1>5. errors => errors'
    OBVIOUS
<1> QED BY <1>1, <1>3, <1>4, <1>5, Zenon DEF Plainly, Stays

\* The steps of both kinds.
LEMMA PlainStep ==
    ASSUME IInv, Next, pc = "body", prog # <<>>, dec.on => Len(regs) = 2 /\ (~dec.exact => Buffered),
           NEW op, Head(prog)[1] = op
    PROVE  /\ (op \in {"check", "data", "exact", "sesskey", "number", "secret number"} \/ (op = "read" /\ Arg \in Nat))
                => Settled /\ Plainly(Rest)
           /\ op = "mpi" => Settled /\ Plainly(<<<<"number">>>> \o Rest)
           /\ op = "secret" => Settled /\ Plainly(<<<<"secret number">>>> \o Rest)
           /\ op = "set" => Settled /\ Plainly(<<<<"set length">>>> \o Rest)
<1>0. {errors, sesskey} \subseteq BOOLEAN /\ regs \in Seq(Regions) /\ regs # <<>> /\ dec \in Readers
    BY DEF IInv, TypeOK, Control
<1>1. CASE op = "read" /\ Arg \in Nat
    <2>1. Take(Arg, Rest)
        BY <1>1, StepOf DEF limread
    <2> QED BY <1>1, <2>1, PlainRead
<1>2. CASE op = "check"
    <2>1. CheckValue
        BY <1>2, StepOf
    <2>2. UNCHANGED quiet /\ sesskey' \in BOOLEAN /\ errors' \in {errors, TRUE}
          /\ (Goes(Rest) \/ (Fails /\ Head(prog)[1] \notin {"secret", "secret number"}))
        BY <1>0, <1>2, <2>1 DEF CheckValue
    <2> QED BY <1>2, <2>2, PlainQuiet
<1>3. CASE op = "exact"
    <2>1. ExactEnd
        BY <1>3, StepOf
    <2>2. UNCHANGED quiet /\ sesskey' \in BOOLEAN /\ errors' \in {errors, TRUE}
          /\ (Goes(Rest) \/ (Fails /\ Head(prog)[1] \notin {"secret", "secret number"}))
        BY <1>0, <1>3, <2>1 DEF ExactEnd
    <2> QED BY <1>3, <2>2, PlainQuiet
<1>4. CASE op = "sesskey"
    <2>1. SessionKey
        BY <1>4, StepOf
    <2>2. UNCHANGED quiet /\ sesskey' \in BOOLEAN /\ errors' \in {errors, TRUE} /\ Goes(Rest)
        BY <1>0, <1>4, <2>1 DEF SessionKey
    <2> QED BY <1>4, <2>2, PlainQuiet
<1>5. CASE op = "data"
    <2>1. read_data
        BY <1>5, StepOf
    <2>2. CASE Take(0, Rest)
        BY <1>5, <2>2, PlainRead
    <2>3. CASE Fails /\ UNCHANGED <<sesskey, errors, quiet>>
        <3>1. UNCHANGED quiet /\ sesskey' \in BOOLEAN /\ errors' \in {errors, TRUE}
              /\ (Goes(Rest) \/ (Fails /\ Head(prog)[1] \notin {"secret", "secret number"}))
            BY <1>0, <1>5, <2>3
        <3> QED BY <1>5, <3>1, PlainQuiet
    <2>4. CASE Cur.readc <= Cur.length /\ Take(Cur.length - Cur.readc, Rest)
        <3>1. Cur \in Regions
            BY <1>0 DEF Cur
        <3>2. Cur.length - Cur.readc \in Nat
            BY <2>4, <3>1 DEF Regions
        <3> QED BY <1>5, <2>4, <3>2, PlainRead
    <2> QED BY <2>1, <2>2, <2>3, <2>4, Zenon DEF read_data
<1>6. CASE op \in {"mpi", "secret", "set"}
    <2>1. CASE op = "mpi"
        <3>1. Take(1, <<<<"number">>>> \o Rest)
            BY <2>1, StepOf DEF limread_mpi, Is
        <3> QED BY <2>1, <3>1, PlainRead
    <2>2. CASE op = "secret"
        <3>1. Take(1, <<<<"secret number">>>> \o Rest)
            BY <2>2, StepOf DEF limread_mpi, Is
        <3> QED BY <2>2, <3>1, PlainRead
    <2>3. CASE op = "set"
        <3>1. Take(1, <<<<"set length">>>> \o Rest)
            BY <2>3, StepOf DEF OpenSet, Is
        <3> QED BY <2>3, <3>1, PlainRead
    <2> QED BY <1>6, <2>1, <2>2, <2>3
<1>7. CASE op \in {"number", "secret number"}
    <2>1. limread_mpi_number
        BY <1>7, StepOf
    <2>2. CASE \E k \in 1 .. MaxMpi : Take(k, Rest)
        <3>1. PICK k \in Nat : Take(k, Rest)
            BY <2>2, ParserAssumption
        <3> QED BY <1>7, <3>1, PlainRead
    <2>3. CASE /\ Fails /\ dec' = ReaderAfterFailure /\ errors' \in {errors, TRUE}
               /\ UNCHANGED <<regs, togo, virt, eof, sesskey, stack, gap, short>>
        <3>1. dec' \in Readers /\ (dec'.on => dec.on /\ Head(prog)[1] \notin {"secret", "secret number"})
            <4>1. NoReader \in Readers /\ ~NoReader.on
                BY DEF NoReader, Readers
            <4> QED BY <1>0, <2>3, <4>1 DEF ReaderAfterFailure
        <3>2. /\ Len(regs) <= 3
              /\ \A i \in DOMAIN regs : i # 1 => ~regs[i].indeterminate
              /\ gap \in [bytes : Int, ignored : BOOLEAN] /\ (gap.bytes # 0 => gap.ignored \/ errors)
              /\ {eof} \subseteq BOOLEAN /\ short \in Shorts
              /\ togo \in Int /\ virt \in Nat /\ (~eof => Counted(regs[1], togo, virt)) /\ (short = "body" => errors)
            BY DEF IInv, TypeOK, Control, SubpacketsInStep, Positions, Reported, Packet
        <3>3. Settled
            BY <1>0, <2>3, <3>1, <3>2 DEF Settled
        <3>4. Plainly(Rest)
            BY <2>3, <3>1 DEF Plainly, Stays
        <3> QED BY <1>7, <3>3, <3>4
    <2> QED BY <2>1, <2>2, <2>3, Zenon DEF limread_mpi_number
<1> QED BY <1>1, <1>2, <1>3, <1>4, <1>5, <1>6, <1>7

\* The names and the arguments of the steps.
LEMMA PlainOps ==
    ASSUME NEW x \in Plain
    PROVE  /\ x[1] \in {"read", "check", "mpi", "data", "exact", "set", "number", "secret", "secret number", "set length",
                        "sesskey", "nest", "one of"}
           /\ x[1] = "read" => x[2] \in Nat
           /\ x[1] = "one of" => x[2] \in {"public numbers", "v3 signature", "v4 signature", "encrypted session key"}
<1>1. /\ F[1] = "read" /\ F[2] = 1 /\ Check[1] = "check" /\ Mpi[1] = "mpi" /\ Data[1] = "data" /\ Exact[1] = "exact"
      /\ Set[1] = "set"
    BY DEF F, Check, Mpi, Data, Exact, Set
<1>2. \A s : <<s>>[1] = s
    OBVIOUS
<1>3. \A of : One(of)[1] = "one of" /\ One(of)[2] = of
    BY DEF One
<1>4. CASE x \in {F, Check, Mpi, Data, Exact, Set}
    <2>1. x[1] \in {"check", "mpi", "data", "exact", "set"} \/ (x[1] = "read" /\ x[2] = 1)
        BY <1>1, <1>4, Zenon
    <2>2. 1 \in Nat /\ "one of" # "read" /\ \A s \in {"check", "mpi", "data", "exact", "set"} : s # "read" /\ s # "one of"
        OBVIOUS
    <2> QED BY <2>1, <2>2, Zenon
<1>5. CASE x \in {<<"number">>, <<"secret">>, <<"secret number">>, <<"set length">>, <<"sesskey">>, <<"nest">>}
    <2>1. x[1] \in {"number", "secret", "secret number", "set length", "sesskey", "nest"}
        BY <1>2, <1>5, Zenon
    <2> QED BY <2>1
<1>6. CASE x \in {One("public numbers"), One("v3 signature"), One("v4 signature"), One("encrypted session key")}
    BY <1>3, <1>6
<1> QED BY <1>4, <1>5, <1>6, Zenon DEF Plain

\* The steps on encrypted numbers,
LEMMA SecretOps ==
    ASSUME NEW x \in Secrets
    PROVE  /\ x[1] \in {"read", "check", "secret", "secret number"}
           /\ x[1] = "read" => x[2] \in Nat
<1>1. F[1] = "read" /\ F[2] = 1 /\ Check[1] = "check"
    BY DEF F, Check
<1>2. \A s : <<s>>[1] = s
    OBVIOUS
<1>4. CASE x \in {F, Check}
    <2>1. x[1] = "check" \/ (x[1] = "read" /\ x[2] = 1)
        BY <1>1, <1>4, Zenon
    <2>2. 1 \in Nat /\ "check" # "read"
        OBVIOUS
    <2> QED BY <2>1, <2>2, Zenon
<1>5. CASE x \in {<<"secret">>, <<"secret number">>}
    <2>1. x[1] \in {"secret", "secret number"}
        BY <1>2, <1>5, Zenon
    <2> QED BY <2>1
<1> QED BY <1>4, <1>5, Zenon DEF Secrets

\* and those behind them.
LEMMA BehindOps ==
    ASSUME NEW x \in Behind
    PROVE  x[1] \in {"read", "check", "exact"} /\ (x[1] = "read" => x[2] \in Nat)
BY DEF Behind, F, Check, Exact

\* A parser that stays at a place.
LEMMA PlainlyKept ==
    ASSUME IInv, pc = "body", Settled, NEW next, Plainly(next), Stays(next) => Place',
           dec.on => Head(prog)[1] \in {"read", "check", "secret", "secret number"}
    PROVE  IInv'
<1>1. CASE Stays(next)
    <2>1. pc' = "body" /\ ret' = ret
        BY <1>1 DEF Stays, Goes
    <2> QED BY <1>1, <2>1, GoesOn
<1>2. CASE Fails /\ (dec'.on => dec.on /\ Head(prog)[1] \notin {"secret", "secret number"})
    <2>1. dec'.on => Head(prog)[1] \in {"read", "check"}
        BY <1>2
    <2> QED BY <1>2, <2>1, GivesUp
<1> QED BY <1>1, <1>2 DEF Plainly

\* A plain step on the packet keeps the invariant.
LEMMA OnPacket ==
    ASSUME IInv, pc = "body", AtPacket, Settled, NEW next, Outer(next), Plainly(next)
    PROVE  IInv'
<1>1. ASSUME Stays(next) PROVE Place'
    <2>1. dec'.on = dec.on /\ Len(regs') = Len(regs) /\ prog' = next
        BY <1>1 DEF Stays, Goes
    <2>2. ~dec.on /\ Len(regs) = 1
        BY DEF AtPacket
    <2>3. ~dec'.on /\ Len(regs') = 1
        BY <2>1, <2>2
    <2>4. Outer(prog')
        BY <2>1
    <2>5. AtPacket'
        BY <2>3, <2>4 DEF AtPacket
    <2> QED BY <2>5 DEF Place
<1>2. ~dec.on
    BY DEF AtPacket
<1> QED BY <1>1, <1>2, PlainlyKept

\* A packet within the packet.
LEMMA NestKept ==
    ASSUME IInv, pc = "body", Nest \/ NestTooDeep
    PROVE  IInv'
<1>0. /\ TypeOK /\ regs \in Seq(Regions) /\ regs # <<>> /\ stack \in Seq(Frames) /\ Len(stack) <= MaxDepth
      /\ {eof, sesskey, errors} \subseteq BOOLEAN /\ short \in Shorts /\ togo \in Int /\ virt \in Nat /\ ret \in -1 .. 1
      /\ gap \in [bytes : Int, ignored : BOOLEAN] /\ (gap.bytes # 0 => gap.ignored \/ errors) /\ (short = "body" => errors)
      /\ (~eof => Counted(regs[1], togo, virt))
      /\ \A i \in DOMAIN stack : ~stack[i].eof => Counted(stack[i].region, stack[i].togo, stack[i].virt)
    BY DEF IInv, TypeOK, Control, SubpacketsInStep, Positions, Reported, Packet
<1>a. NoReader \in Readers /\ ~NoReader.on
    BY DEF NoReader, Readers
<1>b. MaxDepth \in Nat
    BY ParserAssumption
<1>1. CASE Nest
    <2>1. PICK r \in Regions : r = regs[1]
        BY <1>0
    <2>2. PICK n \in Regions : n = Normal /\ n.length = r.length - r.readc /\ n.readc = 0 /\ n.indeterminate = r.indeterminate
        <3>1. PICK l \in Int : l = r.length - r.readc
            BY DEF Regions
        <3>2. Normal = [length |-> l, readc |-> 0, indeterminate |-> r.indeterminate]
            BY <2>1, <3>1 DEF Normal, Region, Packet
        <3>3. Normal \in Regions
            BY <3>2 DEF Regions
        <3>4. PICK n : n = Normal
            OBVIOUS
        <3> QED BY <3>1, <3>2, <3>3, <3>4
    <2>3. Counted(r, togo, virt) => Counted(n, togo, virt)
        BY <1>0, <2>2 DEF Counted, Regions
    <2>4. PICK f \in Frames : f = [region |-> n, togo |-> togo, eof |-> eof, virt |-> virt]
        <3>1. [region |-> n, togo |-> togo, eof |-> eof, virt |-> virt] \in Frames
            BY <1>0 DEF Frames
        <3> QED BY <3>1, Zenon
    <2>5. f.region = n /\ f.togo = togo /\ f.eof = eof /\ f.virt = virt
        BY <2>4
    <2>6. /\ stack' = Append(stack, f) /\ pc' = "packet" /\ prog' = <<>> /\ regs' = <<>> /\ togo' = 0 /\ eof' = FALSE
          /\ virt' = 0 /\ dec' = NoReader /\ UNCHANGED <<ret, failed, sesskey, errors, gap, short>> /\ Len(stack) < MaxDepth
        BY <1>1, <2>2, <2>4 DEF Nest, Depth
    <2>7. stack' \in Seq(Frames) /\ Len(stack') = Len(stack) + 1 /\ Len(stack') <= MaxDepth
        BY <1>0, <1>b, <2>6
    <2>8. ASSUME NEW i \in DOMAIN stack', ~stack'[i].eof
          PROVE  Counted(stack'[i].region, stack'[i].togo, stack'[i].virt)
        <3>1. CASE i \in DOMAIN stack
            <4>1. stack'[i] = stack[i]
                BY <1>0, <2>6, <3>1
            <4> QED BY <1>0, <2>8, <3>1, <4>1
        <3>2. CASE i \notin DOMAIN stack
            <4>1. stack'[i] = f
                BY <1>0, <2>6, <2>7, <3>2
            <4>2. ~eof
                BY <2>5, <2>8, <4>1
            <4>3. Counted(n, togo, virt)
                BY <1>0, <2>1, <2>3, <4>2
            <4> QED BY <2>5, <4>1, <4>3
        <3> QED BY <3>1, <3>2
    <2>9. regs' \in Seq(Regions) /\ Len(regs') = 0
        BY <2>6
    <2>10. TypeOK'
        <3>1. {eof', sesskey', errors'} \subseteq BOOLEAN /\ short' \in Shorts /\ dec' \in Readers
            BY <1>0, <1>a, <2>6
        <3>2. togo' \in Int /\ virt' \in Nat /\ ret' \in -1 .. 1 /\ gap' \in [bytes : Int, ignored : BOOLEAN]
            BY <1>0, <2>6
        <3>3. Len(regs') <= 3 /\ pc' \in {"packet", "body", "end", "give up", "stopped", "undefined", "lost"}
            BY <2>6, <2>9
        <3> QED BY <2>7, <2>9, <3>1, <3>2, <3>3, Zenon DEF TypeOK
    <2>11. Control' /\ Reported' /\ Placed' /\ InStep' /\ ReadersBalanced' /\ SubpacketsInStep'
        BY <1>0, <1>a, <2>6, <2>9 DEF Control, Reported, Placed, InStep, ReadersBalanced, SubpacketsInStep
    <2>12. Positions'
        BY <2>6, <2>8 DEF Positions
    <2> QED BY <2>10, <2>11, <2>12 DEF IInv
<1>2. CASE NestTooDeep
    <2>1. Fails /\ dec' = NoReader /\ UNCHANGED <<sesskey, errors, regs, togo, virt, eof, stack, gap, short>>
        BY <1>2 DEF NestTooDeep
    <2>2. Len(regs) <= 3 /\ \A i \in DOMAIN regs : i # 1 => ~regs[i].indeterminate
        BY DEF IInv, TypeOK, Control
    <2>3. Settled
        BY <1>0, <1>a, <2>1, <2>2 DEF Settled
    <2>4. ~dec'.on
        BY <1>a, <2>1
    <2> QED BY <2>1, <2>3, <2>4, GivesUp
<1> QED BY <1>1, <1>2

\* One element more.
LEMMA AppendFacts ==
    ASSUME NEW S, NEW s \in Seq(S), s # <<>>, NEW r \in S, NEW t, t = Append(s, r)
    PROVE  /\ t \in Seq(S) /\ t # <<>> /\ Len(t) = Len(s) + 1 /\ t[1] = s[1] /\ t[Len(t)] = r
           /\ \A i \in DOMAIN t : (i \in DOMAIN s /\ t[i] = s[i]) \/ (i \notin DOMAIN s /\ t[i] = r)
<1>1. Len(s) \in Nat /\ Len(s) > 0 /\ t \in Seq(S) /\ Len(t) = Len(s) + 1
    OBVIOUS
<1>2. t # <<>> /\ t[1] = s[1] /\ t[Len(t)] = r
    BY <1>1
<1>3. ASSUME NEW i \in 1 .. Len(t) PROVE (i \in 1 .. Len(s) /\ t[i] = s[i]) \/ (i \notin 1 .. Len(s) /\ t[i] = r)
    BY <1>1
<1> QED BY <1>1, <1>2, <1>3

\* A region is added.
LEMMA Appended ==
    ASSUME IInv, pc = "body", Len(regs) <= 2, NEW l \in Int, regs' = Append(regs, Region(l, FALSE)), dec' \in Readers,
           UNCHANGED <<togo, virt, eof, sesskey, errors, stack, gap, short>>
    PROVE  /\ Settled /\ Len(regs') = Len(regs) + 1 /\ Packet' = Packet
           /\ Cur'.length = l /\ Cur'.readc = 0
<1>0. /\ regs \in Seq(Regions) /\ regs # <<>>
      /\ {eof, sesskey, errors} \subseteq BOOLEAN /\ short \in Shorts /\ togo \in Int /\ virt \in Nat
      /\ gap \in [bytes : Int, ignored : BOOLEAN] /\ (gap.bytes # 0 => gap.ignored \/ errors) /\ (short = "body" => errors)
      /\ (~eof => Counted(regs[1], togo, virt)) /\ \A i \in DOMAIN regs : i # 1 => ~regs[i].indeterminate
    BY DEF IInv, TypeOK, Control, SubpacketsInStep, Positions, Reported, Packet
<1>1. PICK r \in Regions : r = Region(l, FALSE) /\ r.length = l /\ r.readc = 0 /\ ~r.indeterminate
    <2>1. Region(l, FALSE) \in Regions
        BY DEF Region, Regions
    <2>2. PICK r : r = Region(l, FALSE)
        OBVIOUS
    <2>3. r.length = l /\ r.readc = 0 /\ ~r.indeterminate
        BY <2>2 DEF Region
    <2> QED BY <2>1, <2>2, <2>3
<1>2. PICK s \in Seq(Regions) : s = regs
    BY <1>0
<1>3. regs' = Append(s, r) /\ s # <<>> /\ Len(s) <= 2
    BY <1>0, <1>1, <1>2
<1>4. /\ regs' \in Seq(Regions) /\ Len(regs') = Len(s) + 1 /\ regs' # <<>> /\ regs'[1] = s[1]
      /\ regs'[Len(regs')] = r
      /\ \A i \in DOMAIN regs' : (i \in DOMAIN s /\ regs'[i] = s[i]) \/ (i \notin DOMAIN s /\ regs'[i] = r)
    <2>1. PICK t : t = regs'
        OBVIOUS
    <2>2. t = Append(s, r)
        BY <1>3, <2>1
    <2>3. /\ t \in Seq(Regions) /\ t # <<>> /\ Len(t) = Len(s) + 1 /\ t[1] = s[1] /\ t[Len(t)] = r
          /\ \A i \in DOMAIN t : (i \in DOMAIN s /\ t[i] = s[i]) \/ (i \notin DOMAIN s /\ t[i] = r)
        BY <1>3, <2>2, AppendFacts
    <2> QED BY <2>1, <2>3
<1>5. \A i \in DOMAIN regs' : i # 1 => ~regs'[i].indeterminate
    BY <1>0, <1>1, <1>2, <1>4
<1>6. Settled
    <2>1. Len(regs') <= 3
        BY <1>3, <1>4
    <2>2. {eof', sesskey', errors'} \subseteq BOOLEAN /\ short' \in Shorts /\ (~eof' => Counted(regs'[1], togo', virt'))
        BY <1>0, <1>2, <1>4
    <2>3. togo' \in Int /\ virt' \in Nat /\ gap' \in [bytes : Int, ignored : BOOLEAN]
        BY <1>0
    <2> QED BY <1>0, <1>4, <1>5, <2>1, <2>2, <2>3, Zenon DEF Settled
<1> QED BY <1>1, <1>2, <1>4, <1>6 DEF Packet, Cur

\* The decrypting reader is pushed.
LEMMA PushKept ==
    ASSUME IInv, pc = "body", prog # <<>>, Len(regs) = 1, pgp_reader_push_decrypt, Head(prog)[1] = "push",
           \/ Arg = "data" /\ Rest \in DataRuns
           \/ Arg \in Versions /\ KeyRun(Rest)
    PROVE  IInv'
<1>1. regs \in Seq(Regions) /\ Packet \in Regions
    <2>1. regs \in Seq(Regions)
        BY DEF IInv, TypeOK
    <2>2. 1 \in 1 .. Len(regs)
        OBVIOUS
    <2> QED BY <2>1, <2>2, Elements, Zenon DEF Packet
<1>2. PICK rest \in Int : rest = Packet.length - Packet.readc
    BY <1>1 DEF Regions
<1>3. PICK l \in Int : regs' = Append(regs, Region(l, FALSE)) /\ (Arg = "v4" => l = rest)
    <2>1. PICK a : a = Arg /\ a \in {"v3", "v4", "data"}
        BY DEF Versions
    <2>2. PICK l : l = CASE a = "v4" -> rest [] a = "v3" -> (IF rest = 0 THEN 0 ELSE rest - 1) [] a = "data" -> 1
        OBVIOUS
    <2>3. l \in Int /\ (a = "v4" => l = rest)
        BY <2>1, <2>2
    <2>4. regs' = Append(regs, Region(l, FALSE))
        BY <1>2, <2>1, <2>2, Zenon DEF pgp_reader_push_decrypt
    <2> QED BY <2>1, <2>3, <2>4, Zenon
<1>4. /\ dec' = [on |-> TRUE, exact |-> Arg # "v4", buf |-> 0] /\ prog' = Rest /\ pc' = "body" /\ ret' = ret
      /\ UNCHANGED <<togo, virt, eof, sesskey, errors, stack, gap, short>>
    BY DEF pgp_reader_push_decrypt, Goes
<1>5. dec' \in Readers /\ dec'.on /\ (dec'.exact <=> Arg # "v4") /\ dec'.buf = 0
    BY <1>4 DEF Readers
<1>6. Settled /\ Len(regs') = 2 /\ Packet' = Packet /\ Cur'.length = l /\ Cur'.readc = 0
    <2>1. Len(regs) <= 2 /\ 1 + 1 = 2
        OBVIOUS
    <2>2. regs' = Append(regs, Region(l, FALSE)) /\ dec' \in Readers
        BY <1>3, <1>5, Zenon
    <2>3. Settled /\ Len(regs') = Len(regs) + 1 /\ Packet' = Packet /\ Cur'.length = l /\ Cur'.readc = 0
        BY <1>4, <2>1, <2>2, Appended, Zenon
    <2> QED BY <2>3
<1>7. CASE Arg = "data" /\ Rest \in DataRuns
    <2>1. dec'.exact
        BY <1>5, <1>7
    <2>2. AtData'
        BY <1>4, <1>5, <1>6, <1>7, <2>1 DEF AtData, DataRuns
    <2> QED BY <1>4, <1>6, <2>2, GoesOn DEF Place
<1>8. CASE Arg \in Versions /\ KeyRun(Rest)
    <2>1. ASSUME ~dec'.exact PROVE Buffered'
        <3>1. l = rest
            BY <1>3, <1>5, <2>1
        <3>2. PICK pl \in Int, pr \in Int : pl = Packet.length /\ pr = Packet.readc
            BY <1>1 DEF Regions
        <3>3. 0 + (pl - pr) = l - 0 /\ (pr <= pl \/ l < 0)
            BY <1>2, <3>1, <3>2
        <3> QED BY <1>5, <1>6, <3>2, <3>3 DEF Buffered
    <2>2. KeyRun(prog')
        BY <1>4, <1>8
    <2>3. AtKey'
        BY <1>5, <1>6, <2>1, <2>2 DEF AtKey
    <2> QED BY <1>4, <1>6, <2>3, GoesOn DEF Place
<1> QED BY <1>7, <1>8

\* The length of a set of subpackets.
LEMMA SetLengthKept ==
    ASSUME IInv, pc = "body", AtPacket, SetLength, Outer(Rest)
    PROVE  IInv'
<1>1. /\ UNCHANGED <<togo, virt, eof, dec, sesskey, errors, stack, gap, short>> /\ ~dec.on /\ Len(regs) = 1
      /\ dec \in Readers /\ MaxSub \in Int /\ regs \in Seq(Regions) /\ Cur \in Regions
    <2>1. regs \in Seq(Regions) /\ Len(regs) = 1 /\ ~dec.on /\ dec \in Readers
        BY Zenon DEF IInv, TypeOK, AtPacket
    <2>2. Cur \in Regions
        BY <2>1 DEF Cur
    <2>3. MaxSub \in Int
        BY ParserAssumption
    <2> QED BY <2>1, <2>2, <2>3, Zenon DEF SetLength
<1>2. CASE \E l \in 0 .. Least(Cur.length, MaxSub) :
              Goes(<<<<"subpackets">>>> \o Rest) /\ regs' = Append(regs, Region(l, FALSE))
    <2>1. PICK l \in Int : Goes(<<<<"subpackets">>>> \o Rest) /\ regs' = Append(regs, Region(l, FALSE))
        <3>1. 0 .. Least(Cur.length, MaxSub) \subseteq Int
            OBVIOUS
        <3> QED BY <1>2, <3>1, Zenon
    <2>2. Settled /\ Len(regs') = 2
        <3>1. Len(regs) <= 2 /\ dec' \in Readers
            BY <1>1
        <3>2. Settled /\ Len(regs') = Len(regs) + 1
            BY <1>1, <2>1, <3>1, Appended, Zenon
        <3> QED BY <1>1, <3>2
    <2>3. InSet(prog')
        <3>1. Rest \in Seq(Steps) /\ prog' = <<<<"subpackets">>>> \o Rest
            BY <2>1, OuterFacts DEF Goes
        <3> QED BY <3>1, Zenon DEF InSet
    <2>4. AtSet'
        BY <1>1, <2>2, <2>3 DEF AtSet
    <2>5. pc' = "body" /\ ret' = ret
        BY <2>1 DEF Goes
    <2> QED BY <2>2, <2>4, <2>5, GoesOn DEF Place
<1>3. CASE Fails /\ UNCHANGED regs
    <2>1. Settled
        <3>1. UNCHANGED quiet /\ errors' \in {errors, TRUE} /\ sesskey' \in BOOLEAN
            BY <1>1, <1>3 DEF quiet, IInv, TypeOK
        <3> QED BY <3>1, QuietSettled
    <2>2. ~dec'.on
        BY <1>1
    <2> QED BY <1>3, <2>1, <2>2, GivesUp
<1> QED BY <1>2, <1>3, Zenon DEF SetLength

\* A branch.
LEMMA BranchKept ==
    ASSUME IInv, pc = "body", AtPacket, Branch, \A p \in Alternatives(Arg) : Outer(p \o Rest)
    PROVE  IInv'
<1>1. PICK p \in Alternatives(Arg) : Goes(p \o Rest)
    BY DEF Branch
<1>2. UNCHANGED quiet /\ errors' \in {errors, TRUE} /\ sesskey' \in BOOLEAN
    BY DEF Branch, IInv, TypeOK
<1>3. PICK n : n = p \o Rest /\ Goes(n) /\ Outer(n)
    BY <1>1
<1>4. Settled /\ Plainly(n)
    BY <1>2, <1>3, PlainQuiet
<1> QED BY <1>3, <1>4, OnPacket

\* A beginning of a sequence.
LEMMA Shortened ==
    ASSUME NEW S, NEW s \in Seq(S), NEW n \in 1 .. Len(s), NEW t, t = SubSeq(s, 1, n)
    PROVE  /\ t \in Seq(S) /\ Len(t) = n /\ t # <<>> /\ DOMAIN t = 1 .. n
           /\ \A i \in DOMAIN t : i \in DOMAIN s /\ t[i] = s[i]
           /\ t[1] = s[1]
<1>1. Len(s) \in Nat /\ n \in Nat /\ n >= 1 /\ n <= Len(s)
    OBVIOUS
<1>2. t \in Seq(S) /\ Len(t) = n
    BY <1>1
<1>3. t # <<>> /\ DOMAIN t = 1 .. n
    BY <1>1, <1>2
<1>4. ASSUME NEW i \in 1 .. n PROVE i \in DOMAIN s /\ t[i] = s[i]
    BY <1>1, <1>2
<1>5. 1 \in 1 .. n
    BY <1>1
<1> QED BY <1>2, <1>3, <1>4, <1>5, Zenon

\* Two elements.
LEMMA TwoElements ==
    ASSUME NEW S, NEW s \in Seq(S), Len(s) = 2
    PROVE  s # <<>> /\ Len(s) <= 3 /\ 1 \in 1 .. Len(s)
OBVIOUS

\* The parser is on its packet.
LEMMA PacketStep ==
    ASSUME IInv, Next, pc = "body", prog # <<>>, AtPacket
    PROVE  IInv'
<1>0. ~dec.on /\ Len(regs) = 1 /\ Outer(prog)
    BY DEF AtPacket
<1>1. \/ Head(prog) \in Plain /\ Outer(Rest)
      \/ \E v \in Versions : Head(prog) = One(v) /\ Rest = <<>>
      \/ Head(prog) = <<"push", "data">> /\ Rest = <<F, <<"preamble">>, <<"nest">>>>
      \/ \E v \in Versions : Head(prog) = <<"push", v>> /\ KeyRun(Rest)
    BY <1>0, OuterFacts, Zenon DEF Rest
<1>2. CASE Head(prog) \in Plain /\ Outer(Rest)
    <2>0. PICK op : op = Head(prog)[1]
        OBVIOUS
    <2>1. /\ op \in {"read", "check", "mpi", "data", "exact", "set", "number", "secret", "secret number", "set length",
                     "sesskey", "nest", "one of"}
          /\ op = "read" => Arg \in Nat
          /\ op = "one of" => Arg \in {"public numbers", "v3 signature", "v4 signature", "encrypted session key"}
        BY <1>2, <2>0, PlainOps, Zenon DEF Arg
    <2>2. ASSUME NEW x \in Plain PROVE Outer(<<x>> \o Rest)
        <3>1. <<x>> \in Seq(Plain)
            BY Seq1, Zenon
        <3> QED BY <1>2, <3>1, OuterFacts, Zenon
    <2>3. <<"number">> \in Plain /\ <<"secret number">> \in Plain /\ <<"set length">> \in Plain
        BY PlainSteps, Zenon
    <2>4. CASE op \in {"check", "data", "exact", "sesskey", "number", "secret number", "read"}
        <3>1. Settled /\ Plainly(Rest)
            BY <1>0, <2>0, <2>1, <2>4, PlainStep
        <3> QED BY <1>2, <3>1, OnPacket
    <2>5. CASE op = "mpi"
        <3>1. Settled /\ Plainly(<<<<"number">>>> \o Rest)
            BY <1>0, <2>0, <2>5, PlainStep
        <3> QED BY <2>2, <2>3, <3>1, OnPacket
    <2>6. CASE op = "secret"
        <3>1. Settled /\ Plainly(<<<<"secret number">>>> \o Rest)
            BY <1>0, <2>0, <2>6, PlainStep
        <3> QED BY <2>2, <2>3, <3>1, OnPacket
    <2>7. CASE op = "set"
        <3>1. Settled /\ Plainly(<<<<"set length">>>> \o Rest)
            BY <1>0, <2>0, <2>7, PlainStep
        <3> QED BY <2>2, <2>3, <3>1, OnPacket
    <2>8. CASE op = "set length"
        <3>1. SetLength
            BY <2>0, <2>8, StepOf
        <3> QED BY <1>2, <3>1, SetLengthKept
    <2>9. CASE op = "nest"
        <3>1. Nest \/ NestTooDeep
            BY <2>0, <2>9, StepOf
        <3> QED BY <3>1, NestKept
    <2>10. CASE op = "one of"
        <3>1. Branch
            BY <2>0, <2>10, StepOf
        <3>2. ASSUME NEW p \in Alternatives(Arg) PROVE Outer(p \o Rest)
            <4>1. p \in Seq(Plain)
                BY <2>1, <2>10, PlainAlternatives
            <4> QED BY <1>2, <4>1, OuterFacts, Zenon
        <3> QED BY <3>1, <3>2, BranchKept
    <2> QED BY <2>1, <2>4, <2>5, <2>6, <2>7, <2>8, <2>9, <2>10
<1>3. ASSUME NEW v \in Versions, Head(prog) = One(v), Rest = <<>> PROVE IInv'
    <2>1. Head(prog)[1] = "one of" /\ Arg = v
        <3>1. One(v)[1] = "one of" /\ One(v)[2] = v
            BY DEF One
        <3> QED BY <1>3, <3>1 DEF Arg
    <2>2. Branch
        BY <2>1, StepOf
    <2>3. Alternatives(Arg) = SeckeyBody(v)
        BY <2>1 DEF Alternatives, Versions
    <2>4. ASSUME NEW p \in Alternatives(Arg) PROVE Outer(p \o Rest)
        <3>1. Outer(p)
            BY <2>3, SeckeyOuter
        <3>2. p \in Seq(Steps)
            BY <3>1, OuterFacts
        <3>3. p \o Rest = p
            BY <1>3, <3>2
        <3> QED BY <3>1, <3>3
    <2> QED BY <2>2, <2>4, BranchKept
<1>4. CASE Head(prog) = <<"push", "data">> /\ Rest = <<F, <<"preamble">>, <<"nest">>>>
    <2>1. Head(prog)[1] = "push" /\ Arg = "data" /\ Rest \in DataRuns
        BY <1>4 DEF Arg, DataRuns
    <2>2. pgp_reader_push_decrypt
        BY <2>1, StepOf
    <2> QED BY <1>0, <2>1, <2>2, PushKept
<1>5. ASSUME NEW v \in Versions, Head(prog) = <<"push", v>>, KeyRun(Rest) PROVE IInv'
    <2>1. Head(prog)[1] = "push" /\ Arg = v
        BY <1>5 DEF Arg
    <2>2. pgp_reader_push_decrypt
        BY <2>1, StepOf
    <2> QED BY <1>0, <1>5, <2>1, <2>2, PushKept
<1> QED BY <1>1, <1>2, <1>3, <1>4, <1>5

\* The reader is popped.
LEMMA PopKept ==
    ASSUME IInv, pc = "body", Len(regs) = 2, pgp_reader_pop_decrypt, Arg \in Versions, Rest \in Seq(Behind)
    PROVE  IInv'
<1>0. /\ regs \in Seq(Regions)
      /\ {eof, sesskey, errors} \subseteq BOOLEAN /\ short \in Shorts /\ togo \in Int /\ virt \in Nat
      /\ gap \in [bytes : Int, ignored : BOOLEAN] /\ (gap.bytes # 0 => gap.ignored \/ errors) /\ (short = "body" => errors)
      /\ (~eof => Counted(regs[1], togo, virt)) /\ \A i \in DOMAIN regs : i # 1 => ~regs[i].indeterminate
    BY DEF IInv, TypeOK, Control, SubpacketsInStep, Positions, Reported, Packet
<1>a. PICK g \in Seq(Regions) : g = regs /\ Len(g) = 2
    BY <1>0, Zenon
<1>b. g # <<>> /\ Len(g) <= 3 /\ 1 \in 1 .. Len(g)
    BY <1>a, TwoElements, Zenon
<1>c. 1 <= 3 /\ \A i \in 1 .. 1 : i = 1
    OBVIOUS
<1>1. dec' = NoReader /\ prog' = Rest /\ pc' = "body" /\ ret' = ret
      /\ regs' = (IF Arg = "v3" THEN SubSeq(regs, 1, 1) ELSE regs)
      /\ UNCHANGED <<togo, virt, eof, sesskey, errors, stack, gap, short>>
    BY DEF pgp_reader_pop_decrypt, Goes
<1>2. dec' \in Readers /\ ~dec'.on
    BY <1>1 DEF NoReader, Readers
<1>4. CASE Arg = "v3"
    <2>0. PICK t : t = regs' /\ t = SubSeq(g, 1, 1)
        BY <1>1, <1>4, <1>a, Zenon
    <2>1. t \in Seq(Regions) /\ Len(t) = 1 /\ t[1] = g[1] /\ t # <<>> /\ DOMAIN t = 1 .. 1
        BY <1>b, <2>0, Shortened
    <2>2. /\ regs' \in Seq(Regions) /\ Len(regs') = 1 /\ regs'[1] = regs[1]
          /\ regs' # <<>> /\ Len(regs') <= 3 /\ \A i \in DOMAIN regs' : i = 1
        BY <1>a, <1>c, <2>0, <2>1, Zenon
    <2>3. Settled
        BY <1>0, <1>1, <1>2, <2>2 DEF Settled
    <2>4. Outer(prog')
        BY <1>1, StepTypes, SeqSubset, PlainOuter, Zenon
    <2>5. AtPacket'
        BY <1>2, <2>2, <2>4 DEF AtPacket
    <2> QED BY <1>1, <2>3, <2>5, GoesOn DEF Place
<1>5. CASE Arg # "v3"
    <2>1. regs' = regs /\ regs # <<>> /\ Len(regs) <= 3
        BY <1>1, <1>5, <1>a, <1>b, Zenon
    <2>2. Settled
        BY <1>0, <1>1, <1>2, <2>1 DEF Settled
    <2>3. BehindKey'
        BY <1>1, <1>2, <2>1 DEF BehindKey
    <2> QED BY <1>1, <2>2, <2>3, GoesOn DEF Place
<1> QED BY <1>4, <1>5

\* The parser is on encrypted numbers.
LEMMA KeyStep ==
    ASSUME IInv, Next, pc = "body", prog # <<>>, AtKey
    PROVE  IInv'
<1>0. dec.on /\ Len(regs) = 2 /\ KeyRun(prog) /\ (~dec.exact => Buffered)
    BY DEF AtKey
<1>1. ASSUME NEW next, KeyRun(next), Stays(next) PROVE Place'
    <2>1. dec'.on /\ Len(regs') = 2
        BY <1>0, <1>1 DEF Stays
    <2>2. KeyRun(prog')
        BY <1>1 DEF Stays, Goes
    <2>3. ~dec'.exact => Buffered'
        BY <1>0, <1>1, Zenon DEF Stays
    <2>4. AtKey'
        BY <2>1, <2>2, <2>3 DEF AtKey
    <2> QED BY <2>4 DEF Place
<1>2. CASE Head(prog) \in Secrets /\ KeyRun(Rest) /\ \A x \in Secrets : KeyRun(<<x>> \o Rest)
    <2>0. PICK op : op = Head(prog)[1]
        OBVIOUS
    <2>1. op \in {"read", "check", "secret", "secret number"} /\ (op = "read" => Arg \in Nat)
        BY <1>2, <2>0, SecretOps, Zenon DEF Arg
    <2>2. CASE op \in {"read", "check", "secret number"}
        <3>1. Settled /\ Plainly(Rest)
            BY <1>0, <2>0, <2>1, <2>2, PlainStep
        <3>2. Stays(Rest) => Place'
            BY <1>1, <1>2, Zenon
        <3> QED BY <2>0, <2>1, <3>1, <3>2, PlainlyKept
    <2>3. CASE op = "secret"
        <3>1. Settled /\ Plainly(<<<<"secret number">>>> \o Rest)
            BY <1>0, <2>0, <2>3, PlainStep
        <3>2. KeyRun(<<<<"secret number">>>> \o Rest)
            BY <1>2, Zenon DEF Secrets
        <3>3. Stays(<<<<"secret number">>>> \o Rest) => Place'
            BY <1>1, <3>2, Zenon
        <3> QED BY <2>0, <2>1, <3>1, <3>3, PlainlyKept
    <2> QED BY <2>1, <2>2, <2>3
<1>3. ASSUME NEW v \in Versions, Head(prog) = <<"pop", v>>, Rest \in Seq(Behind) PROVE IInv'
    <2>1. Head(prog)[1] = "pop" /\ Arg = v
        BY <1>3 DEF Arg
    <2>2. pgp_reader_pop_decrypt
        BY <2>1, StepOf
    <2> QED BY <1>0, <1>3, <2>1, <2>2, PopKept
<1> QED BY <1>0, <1>2, <1>3, KeyRunFacts, Zenon DEF Rest

\* The parser is on encrypted data.
LEMMA DataStep ==
    ASSUME IInv, Next, pc = "body", prog # <<>>, AtData
    PROVE  IInv'
<1>0. dec.on /\ dec.exact /\ Len(regs) = 2 /\ prog \in DataRuns
    BY DEF AtData
<1>1. CASE prog = <<F, <<"preamble">>, <<"nest">>>>
    <2>1. Head(prog)[1] = "read" /\ Arg = 1 /\ Rest = <<<<"preamble">>, <<"nest">>>>
        BY <1>1 DEF Arg, Rest, F
    <2>2. Settled /\ Plainly(Rest)
        BY <1>0, <2>1, PlainStep
    <2>3. ASSUME Stays(Rest) PROVE Place'
        <3>1. dec'.on /\ dec'.exact /\ Len(regs') = 2 /\ prog' = <<<<"preamble">>, <<"nest">>>>
            BY <1>0, <2>1, <2>3 DEF Stays, Goes
        <3>2. AtData'
            BY <3>1, Zenon DEF AtData, DataRuns
        <3> QED BY <3>2 DEF Place
    <2> QED BY <2>1, <2>2, <2>3, PlainlyKept
<1>2. CASE prog = <<<<"preamble">>, <<"nest">>>>
    <2>1. Head(prog)[1] = "preamble" /\ Rest = <<<<"nest">>>>
        BY <1>2 DEF Rest
    <2>2. Preamble
        BY <2>1, StepOf
    <2>3. /\ regs \in Seq(Regions) /\ sesskey \in BOOLEAN
          /\ {eof, sesskey, errors} \subseteq BOOLEAN /\ short \in Shorts /\ togo \in Int /\ virt \in Nat
          /\ gap \in [bytes : Int, ignored : BOOLEAN] /\ (gap.bytes # 0 => gap.ignored \/ errors) /\ (short = "body" => errors)
          /\ (~eof => Counted(regs[1], togo, virt))
        BY DEF IInv, TypeOK, Control, SubpacketsInStep, Positions, Reported, Packet
    <2>4. CASE Goes(Rest) /\ UNCHANGED <<errors, dec, regs>>
        <3>1. UNCHANGED quiet /\ sesskey' \in BOOLEAN /\ errors' \in {errors, TRUE}
            BY <2>2, <2>3, <2>4 DEF Preamble, quiet
        <3>2. Settled
            BY <3>1, QuietSettled
        <3>3. prog' = <<<<"nest">>>> /\ pc' = "body" /\ ret' = ret
            BY <2>1, <2>4 DEF Goes
        <3>4. AtData'
            BY <1>0, <2>4, <3>3, Zenon DEF AtData, DataRuns
        <3> QED BY <3>2, <3>3, <3>4, GoesOn DEF Place
    <2>5. CASE Fails /\ errors' = TRUE /\ dec' = NoReader /\ regs' = SubSeq(regs, 1, 1)
        <3>1. dec' \in Readers /\ ~dec'.on
            BY <2>5 DEF NoReader, Readers
        <3>2. regs' \in Seq(Regions) /\ Len(regs') = 1 /\ regs'[1] = regs[1]
            <4>1. 1 \in 1 .. Len(regs) /\ regs' = SubSeq(regs, 1, 1)
                BY <1>0, <2>5
            <4> QED BY <2>3, <4>1, Shortened
        <3>3. regs' # <<>> /\ Len(regs') <= 3 /\ DOMAIN regs' = {1}
            BY <3>2
        <3>4. UNCHANGED <<togo, virt, eof, sesskey, stack, gap, short>>
            BY <2>2 DEF Preamble
        <3>5. Settled
            BY <2>3, <2>5, <3>1, <3>2, <3>3, <3>4 DEF Settled
        <3> QED BY <2>5, <3>1, <3>5, GivesUp
    <2> QED BY <2>2, <2>4, <2>5, Zenon DEF Preamble
<1>3. CASE prog = <<<<"nest">>>>
    <2>1. Head(prog)[1] = "nest"
        BY <1>3
    <2>2. Nest \/ NestTooDeep
        BY <2>1, StepOf
    <2> QED BY <2>2, NestKept
<1> QED BY <1>0, <1>1, <1>2, <1>3, Zenon DEF DataRuns

\* The parser is behind the numbers of a version 4 key.
LEMMA BehindStep ==
    ASSUME IInv, Next, pc = "body", prog # <<>>, BehindKey
    PROVE  IInv'
<1>0. ~dec.on /\ Len(regs) = 2 /\ prog \in Seq(Behind)
    BY DEF BehindKey
<1>1. Head(prog) \in Behind /\ Rest \in Seq(Behind)
    BY <1>0 DEF Rest
<1>2. PICK op : op = Head(prog)[1]
    OBVIOUS
<1>3. op \in {"read", "check", "exact"} /\ (op = "read" => Arg \in Nat)
    BY <1>1, <1>2, BehindOps, Zenon DEF Arg
<1>4. Settled /\ Plainly(Rest)
    BY <1>0, <1>2, <1>3, PlainStep
<1>5. ASSUME Stays(Rest) PROVE Place'
    <2>1. ~dec'.on /\ Len(regs') = 2 /\ prog' = Rest
        BY <1>0, <1>5 DEF Stays, Goes
    <2>2. BehindKey'
        BY <1>1, <2>1 DEF BehindKey
    <2> QED BY <2>2 DEF Place
<1> QED BY <1>0, <1>4, <1>5, PlainlyKept

\* The last region is left.
LEMMA Left ==
    ASSUME IInv, pc = "body", Len(regs) \in {2, 3}, Leave, UNCHANGED <<togo, virt, eof, dec, sesskey, errors, stack, short>>,
           gap' \in [bytes : Int, ignored : BOOLEAN], gap'.bytes # 0 => gap'.ignored \/ errors'
    PROVE  Settled /\ Len(regs') = Len(regs) - 1
<1>0. /\ regs \in Seq(Regions) /\ dec \in Readers
      /\ {eof, sesskey, errors} \subseteq BOOLEAN /\ short \in Shorts /\ togo \in Int /\ virt \in Nat /\ (short = "body" => errors)
      /\ (~eof => Counted(regs[1], togo, virt)) /\ \A i \in DOMAIN regs : i # 1 => ~regs[i].indeterminate
    BY DEF IInv, TypeOK, Control, Positions, Reported, Packet
<1>1. PICK n \in Nat : n = Len(regs) - 1 /\ n \in 1 .. Len(regs) /\ n <= 3
    <2>1. PICK k \in {2, 3} : k = Len(regs)
        BY Zenon
    <2>2. k - 1 \in Nat /\ k - 1 \in 1 .. k /\ k - 1 <= 3
        OBVIOUS
    <2> QED BY <2>1, <2>2, Zenon
<1>2. PICK t : t = regs' /\ t = SubSeq(regs, 1, n)
    BY <1>1 DEF Leave
<1>3. /\ t \in Seq(Regions) /\ Len(t) = n /\ t # <<>>
      /\ \A i \in DOMAIN t : i \in DOMAIN regs /\ t[i] = regs[i]
      /\ t[1] = regs[1]
    BY <1>0, <1>1, <1>2, Shortened
<1>4. \A i \in DOMAIN t : i # 1 => ~t[i].indeterminate
    BY <1>0, <1>3, Zenon
<1>5. {eof', sesskey', errors'} \subseteq BOOLEAN /\ short' \in Shorts /\ (~eof' => Counted(t[1], togo', virt')) /\ dec' \in Readers
      /\ togo' \in Int /\ virt' \in Nat /\ (short' = "body" => errors')
    BY <1>0, <1>3
<1>6. Settled
    BY <1>1, <1>2, <1>3, <1>4, <1>5, Zenon DEF Settled
<1> QED BY <1>1, <1>2, <1>3, <1>6

\* The programs on subpackets.
LEMMA InSetFacts ==
    ASSUME NEW p, InSet(p)
    PROVE  p \in Seq(Steps) /\ p # <<>> /\ Head(p) = <<"subpackets">> /\ Outer(Tail(p))
<1>1. PICK r \in Seq(Steps) : Outer(r) /\ p = <<<<"subpackets">>>> \o r
    BY Zenon DEF InSet
<1>2. <<"subpackets">> \in Steps
    BY StepTypes, Zenon
<1>3. p \in Seq(Steps) /\ p # <<>> /\ Head(p) = <<"subpackets">> /\ Tail(p) = r
    BY <1>1, <1>2, ConcatOne
<1> QED BY <1>1, <1>3

\* A failure without the reader.
LEMMA QuietFailure ==
    ASSUME IInv, pc = "body", ~dec.on, Fails, UNCHANGED quiet, errors' \in {errors, TRUE}, sesskey' = sesskey
    PROVE  IInv'
<1>1. sesskey' \in BOOLEAN
    BY DEF IInv, TypeOK
<1>2. Settled
    BY <1>1, QuietSettled
<1>3. ~dec'.on
    BY DEF quiet
<1> QED BY <1>2, <1>3, GivesUp

\* The parser is on a set of subpackets.
LEMMA SetStep ==
    ASSUME IInv, Next, pc = "body", prog # <<>>, AtSet
    PROVE  IInv'
<1>0. ~dec.on /\ Len(regs) = 2 /\ InSet(prog)
    BY DEF AtSet
<1>1. prog \in Seq(Steps) /\ Head(prog) = <<"subpackets">> /\ Outer(Rest)
    BY <1>0, InSetFacts DEF Rest
<1>2. Head(prog)[1] = "subpackets"
    BY <1>1
<1>3. parse_sig_subpkts
    BY <1>2, StepOf
<1>4. CASE Take(1, <<<<"subpacket length">>>> \o prog)
    <2>1. PICK next : next = <<<<"subpacket length">>>> \o prog
        OBVIOUS
    <2>2. Settled /\ Plainly(next)
        BY <1>0, <1>4, <2>1, PlainRead
    <2>3. ASSUME Stays(next) PROVE Place'
        <3>1. ~dec'.on /\ Len(regs') = 2 /\ prog' = next
            BY <1>0, <2>3 DEF Stays, Goes
        <3>2. AtLength'
            BY <1>0, <1>1, <2>1, <3>1 DEF AtLength
        <3> QED BY <3>2 DEF Place
    <2> QED BY <1>0, <2>2, <2>3, PlainlyKept
<1>5. CASE Goes(Rest) /\ Leave /\ gap' = NoGap /\ UNCHANGED <<togo, virt, eof, dec, sesskey, errors, stack, short>>
    <2>1. gap' \in [bytes : Int, ignored : BOOLEAN] /\ gap'.bytes = 0
        BY <1>5 DEF NoGap
    <2>2. Settled /\ Len(regs') = Len(regs) - 1
        BY <1>0, <1>5, <2>1, Left
    <2>3. pc' = "body" /\ ret' = ret /\ prog' = Rest /\ ~dec'.on
        BY <1>0, <1>5 DEF Goes
    <2>4. Len(regs') = 1
        BY <1>0, <2>2
    <2>5. Outer(prog')
        BY <1>1, <2>3
    <2>6. AtPacket'
        BY <2>3, <2>4, <2>5 DEF AtPacket
    <2> QED BY <2>2, <2>3, <2>6, GoesOn DEF Place
<1>6. CASE Fails /\ errors' = TRUE /\ UNCHANGED <<sesskey, quiet>>
    BY <1>0, <1>6, QuietFailure
<1> QED BY <1>3, <1>4, <1>5, <1>6, Zenon DEF parse_sig_subpkts

\* The model does not follow the parser.
LEMMA LostKept ==
    ASSUME IInv, pc = "body", ~dec.on, prog' = <<>>, pc' = "lost", UNCHANGED <<ret, failed, sesskey, errors, quiet>>
    PROVE  IInv'
<1>1. UNCHANGED <<regs, togo, virt, eof, dec, stack, gap, short>>
    BY DEF quiet
<1>2. TypeOK'
    BY <1>1 DEF IInv, TypeOK
<1>3. Control' /\ Reported' /\ Placed' /\ InStep' /\ ReadersBalanced' /\ SubpacketsInStep'
    BY <1>1 DEF IInv, Control, Reported, Placed, InStep, ReadersBalanced, SubpacketsInStep
<1>4. Positions'
    BY <1>1 DEF IInv, Positions
<1> QED BY <1>2, <1>3, <1>4 DEF IInv

\* The parser is on the length of a subpacket.
LEMMA LengthStep ==
    ASSUME IInv, Next, pc = "body", prog # <<>>, AtLength
    PROVE  IInv'
<1>0. ~dec.on /\ Len(regs) = 2 /\ dec \in Readers
    BY DEF AtLength, IInv, TypeOK
<1>1. PICK r \in Seq(Steps) : InSet(r) /\ prog = <<<<"subpacket length">>>> \o r
    BY Zenon DEF AtLength
<1>2. <<"subpacket length">> \in Steps /\ F \in Steps /\ <<"subpacket">> \in Steps
    BY StepTypes, Zenon
<1>3. Head(prog) = <<"subpacket length">> /\ Rest = r
    BY <1>1, <1>2, ConcatOne DEF Rest
<1>4. Head(prog)[1] = "subpacket length"
    <2>1. \A s : <<s>>[1] = s
        OBVIOUS
    <2> QED BY <1>3, <2>1, Zenon
<1>5. limited_read_new_length
    BY <1>4, StepOf
<1>6. UNCHANGED <<togo, virt, eof, dec, sesskey, errors, stack, gap, short>>
    BY <1>5 DEF limited_read_new_length
<1>7. CASE \E l \in 0 .. Least(Cur.length, MaxSub) :
            Goes(<<F, <<"subpacket">>>> \o Rest) /\ regs' = Append(regs, Region(l, FALSE))
    <2>1. PICK l \in Int : Goes(<<F, <<"subpacket">>>> \o Rest) /\ regs' = Append(regs, Region(l, FALSE))
        <3>1. 0 .. Least(Cur.length, MaxSub) \subseteq Int
            OBVIOUS
        <3> QED BY <1>7, <3>1, Zenon
    <2>2. Settled /\ Len(regs') = Len(regs) + 1 /\ Cur'.readc = 0
        <3>1. Len(regs) <= 2 /\ dec' \in Readers
            BY <1>0, <1>6
        <3> QED BY <1>6, <2>1, <3>1, Appended, Zenon
    <2>3. Len(regs') = 3 /\ ~dec'.on
        BY <1>0, <1>6, <2>2
    <2>4. prog' = <<F, <<"subpacket">>>> \o r /\ pc' = "body" /\ ret' = ret
        BY <1>3, <2>1 DEF Goes
    <2>5. prog' = <<F>> \o (<<<<"subpacket">>>> \o r)
        <3>1. PICK x : x = F /\ x \in Steps
            BY <1>2
        <3>2. PICK y : y = <<"subpacket">> /\ y \in Steps
            BY <1>2
        <3>3. <<x, y>> = <<x>> \o <<y>> /\ <<x>> \in Seq(Steps) /\ <<y>> \in Seq(Steps)
            BY <3>1, <3>2
        <3>4. Associative(<<x>>, <<y>>, r)
            BY <3>3, ConcatAssociative, Zenon
        <3> QED BY <2>4, <3>1, <3>2, <3>3, <3>4 DEF Associative
    <2>6. AtType'
        BY <1>1, <2>2, <2>3, <2>5 DEF AtType
    <2> QED BY <2>2, <2>4, <2>6, GoesOn DEF Place
<1>8. CASE Fails /\ UNCHANGED regs
    <2>1. UNCHANGED quiet /\ errors' \in {errors, TRUE} /\ sesskey' = sesskey
        BY <1>6, <1>8 DEF quiet
    <2> QED BY <1>0, <1>8, <2>1, QuietFailure
<1>9. CASE prog' = <<>> /\ pc' = "lost" /\ UNCHANGED <<ret, failed, regs>>
    <2>1. UNCHANGED <<ret, failed, sesskey, errors, quiet>>
        BY <1>6, <1>9 DEF quiet
    <2> QED BY <1>0, <1>9, <2>1, LostKept
<1> QED BY <1>5, <1>7, <1>8, <1>9, Zenon DEF limited_read_new_length

\* The parser is on the type of a subpacket.
LEMMA TypeStep ==
    ASSUME IInv, Next, pc = "body", prog # <<>>, AtType
    PROVE  IInv'
<1>0. ~dec.on /\ Len(regs) = 3 /\ Cur.readc = 0 /\ regs \in Seq(Regions)
    BY DEF AtType, IInv, TypeOK
<1>1. PICK r \in Seq(Steps) : InSet(r) /\ prog = <<F>> \o (<<<<"subpacket">>>> \o r)
    BY Zenon DEF AtType
<1>2. F \in Steps /\ <<"subpacket">> \in Steps
    BY StepTypes, Zenon
<1>3. <<<<"subpacket">>>> \o r \in Seq(Steps)
    BY <1>2, ConcatOne
<1>4. Head(prog) = F /\ Rest = <<<<"subpacket">>>> \o r
    BY <1>1, <1>2, <1>3, ConcatOne DEF Rest
<1>5. Head(prog)[1] = "read" /\ Arg = 1
    BY <1>4 DEF F, Arg
<1>6. Take(1, Rest)
    BY <1>5, StepOf DEF limread
<1>7. Consistent /\ (Took(1, Rest) \/ FailsReading)
    BY <1>0, <1>6, TakeFacts
<1>8. Settled /\ Plainly(Rest)
    BY <1>0, <1>6, PlainRead
<1>9. CASE Took(1, Rest)
    <2>1. /\ prog' = Rest /\ pc' = "body" /\ ret' = ret /\ ~dec'.on /\ Len(regs') = 3
          /\ regs'[3].readc = 1 /\ Cur.length >= 1 /\ regs'[3].length = regs[3].length
        <3>1. prog' = Rest /\ pc' = "body" /\ ret' = ret /\ ~dec'.on
            BY <1>0, <1>9 DEF Took, Goes
        <3>2. 3 \in DOMAIN regs /\ Cur = regs[3] /\ regs[3] \in Regions
            <4>1. Len(regs) = 3 /\ regs \in Seq(Regions)
                BY <1>0
            <4>2. 3 \in 1 .. Len(regs) /\ 3 \in DOMAIN regs
                BY <4>1
            <4>3. regs[3] \in Regions
                BY <4>1, <4>2, Elements, Zenon
            <4>4. Cur = regs[3]
                BY <4>1 DEF Cur
            <4> QED BY <4>2, <4>3, <4>4, Zenon
        <3>3. regs'[3].readc = Cur.readc + 1 /\ Cur.readc + 1 <= Cur.length
            BY <1>0, <1>9 DEF Took
        <3>4. Len(regs') = 3 /\ regs'[3].length = regs[3].length
            BY <1>0, <1>7, <3>2 DEF Consistent
        <3>5. Cur.length \in Int
            BY <3>2 DEF Regions
        <3> QED BY <1>0, <3>1, <3>3, <3>4, <3>5
    <2>2. Cur' = regs'[3] /\ Cur = regs[3]
        BY <1>0, <2>1 DEF Cur
    <2>3. AtSubpacket'
        BY <1>1, <1>4, <2>1, <2>2 DEF AtSubpacket
    <2> QED BY <1>8, <2>1, <2>3, GoesOn DEF Place
<1>10. CASE FailsReading
    <2>1. Fails /\ ~dec'.on
        BY <1>0, <1>10 DEF FailsReading, ReaderAfterFailure, NoReader
    <2> QED BY <1>8, <2>1, GivesUp
<1> QED BY <1>7, <1>9, <1>10

\* The steps on a subpacket.
LEMMA InnerOps ==
    ASSUME NEW x \in Inner
    PROVE  x[1] \in {"check", "data", "exact", "read", "skip"} /\ (x[1] \in {"read", "skip"} => x[2] \in Nat)
<1>1. Check[1] = "check" /\ Data[1] = "data" /\ Exact[1] = "exact"
    BY DEF Check, Data, Exact
<1>2. x \in {Check, Data, Exact} \/ (\E k \in Nat : x = <<"read", k>>) \/ (\E k \in Nat : x = <<"skip", k>>)
    BY Zenon DEF Inner
<1>3. CASE x \in {Check, Data, Exact}
    <2>1. x[1] \in {"check", "data", "exact"}
        BY <1>1, <1>3, Zenon
    <2> QED BY <2>1
<1>4. ASSUME NEW k \in Nat, x = <<"read", k>> \/ x = <<"skip", k>>
      PROVE  x[1] \in {"read", "skip"} /\ x[2] \in Nat
    BY <1>4
<1> QED BY <1>2, <1>3, <1>4, Zenon

\* Fields and values are among them.
LEMMA InnerSteps == Check \in Inner /\ Data \in Inner /\ Exact \in Inner /\ F \in Inner
                    /\ \A k \in Nat : <<"read", k>> \in Inner /\ <<"skip", k>> \in Inner
<1>1. 1 \in Nat
    OBVIOUS
<1> QED BY <1>1, Zenon DEF Inner, F

\* On the fields of a subpacket.
LEMMA OnFields ==
    ASSUME ~dec'.on, Len(regs') = 3, NEW x \in Seq(Inner), NEW r \in Seq(Steps), NEW b \in BOOLEAN, InSet(r),
           prog' = x \o (<<<<"subpacket end", b>>>> \o r), Finishes(x, b)'
    PROVE  Place'
<1>1. AtFields'
    BY Zenon DEF AtFields
<1> QED BY <1>1 DEF Place

\* The parser is on a subpacket whose type was read.
LEMMA SubpacketStep ==
    ASSUME IInv, Next, pc = "body", prog # <<>>, AtSubpacket
    PROVE  IInv'
<1>0. ~dec.on /\ Len(regs) = 3 /\ Cur.readc = 1 /\ Cur.length >= 1 /\ regs \in Seq(Regions)
    BY DEF AtSubpacket, IInv, TypeOK
<1>1. PICK r \in Seq(Steps) : InSet(r) /\ prog = <<<<"subpacket">>>> \o r
    BY Zenon DEF AtSubpacket
<1>2. <<"subpacket">> \in Steps
    BY StepTypes, Zenon
<1>3. Head(prog) = <<"subpacket">> /\ Rest = r
    BY <1>1, <1>2, ConcatOne DEF Rest
<1>4. Head(prog)[1] = "subpacket"
    <2>1. \A s : <<s>>[1] = s
        OBVIOUS
    <2> QED BY <1>3, <2>1, Zenon
<1>5. parse_one_sig_subpacket
    BY <1>4, StepOf
<1>6. UNCHANGED <<sesskey, quiet>> /\ sesskey \in BOOLEAN
    BY <1>5 DEF parse_one_sig_subpacket, IInv, TypeOK
<1>7. /\ ~dec'.on /\ Len(regs') = 3 /\ Cur' = Cur
    BY <1>0, <1>6 DEF quiet, Cur
<1>8. PICK k \in Nat : k = Cur.length - 1
    <2>0. 3 \in 1 .. Len(regs)
        BY <1>0
    <2>1. Cur \in Regions
        BY <1>0, <2>0, Elements, Zenon DEF Cur
    <2>2. Cur.length - 1 \in Nat
        BY <1>0, <2>1 DEF Regions
    <2> QED BY <2>2, Zenon
<1>9. ASSUME NEW x \in Seq(Inner), NEW b \in BOOLEAN, Goes(x \o (<<<<"subpacket end", b>>>> \o Rest)),
             errors' \in {errors, TRUE}, Finishes(x, b)'
      PROVE  IInv'
    <2>1. prog' = x \o (<<<<"subpacket end", b>>>> \o r) /\ pc' = "body" /\ ret' = ret
        BY <1>3, <1>9 DEF Goes
    <2>2. Place'
        BY <1>1, <1>7, <1>9, <2>1, OnFields
    <2>3. Settled
        BY <1>6, <1>9, QuietSettled
    <2> QED BY <2>1, <2>2, <2>3, GoesOn
<1>10. SubpacketFields \subseteq Seq(Inner)
    <2>1. <<F>> \in Seq(Inner) /\ <<F, F>> \in Seq(Inner) /\ <<F, Check, F>> \in Seq(Inner) /\ <<F, Data>> \in Seq(Inner)
          /\ <<Data, Check>> \in Seq(Inner)
        BY InnerSteps, Seq1, Seq2, Seq3, Zenon
    <2> QED BY <2>1, Zenon DEF SubpacketFields
<1>11. CASE Goes(<<<<"read", Cur.length - 1>>>> \o (<<<<"subpacket end", FALSE>>>> \o Rest)) /\ UNCHANGED errors
    <2>1. <<"read", k>> \in Inner
        BY InnerSteps, Zenon
    <2>2. <<<<"read", k>>>> \in Seq(Inner)
        BY <2>1, Seq1, Zenon
    <2>3. Finishes(<<<<"read", k>>>>, FALSE)'
        BY <1>0, <1>7, <1>8 DEF Finishes
    <2>4. Goes(<<<<"read", k>>>> \o (<<<<"subpacket end", FALSE>>>> \o Rest)) /\ errors' \in {errors, TRUE}
        BY <1>8, <1>11
    <2> QED BY <1>9, <2>2, <2>3, <2>4, Zenon
<1>12. ASSUME NEW f \in SubpacketFields, Goes(f \o <<Exact>> \o (<<<<"subpacket end", FALSE>>>> \o Rest)), UNCHANGED errors
       PROVE  IInv'
    <2>1. f \in Seq(Inner) /\ <<Exact>> \in Seq(Inner)
        BY <1>10, InnerSteps, Seq1, Zenon
    <2>2. PICK x \in Seq(Inner) : x = f \o <<Exact>>
        BY <2>1, ConcatClosed, Zenon
    <2>3. Finishes(x, FALSE)'
        BY <2>1, <2>2, Zenon DEF Finishes
    <2>4. errors' \in {errors, TRUE}
        BY <1>12
    <2> QED BY <1>9, <1>12, <2>2, <2>3, <2>4
<1>13. ASSUME NEW f \in SubpacketFields, Goes(f \o (<<<<"subpacket end", TRUE>>>> \o Rest)), errors' \in {errors, TRUE}
       PROVE  IInv'
    <2>1. f \in Seq(Inner)
        BY <1>10
    <2>2. Finishes(f, TRUE)'
        BY Zenon DEF Finishes
    <2> QED BY <1>9, <1>13, <2>1, <2>2
<1>14. CASE Goes(<<<<"subpacket end", FALSE>>>> \o Rest) /\ errors' = TRUE
    <2>1. <<>> \in Seq(Inner)
        OBVIOUS
    <2>2. Finishes(<<>>, FALSE)'
        BY <1>14 DEF Finishes
    <2>3. Goes(<<>> \o (<<<<"subpacket end", FALSE>>>> \o Rest)) /\ errors' \in {errors, TRUE}
        <3>1. <<"subpacket end", FALSE>> \in Steps
            BY StepTypes, Zenon
        <3>2. <<<<"subpacket end", FALSE>>>> \o Rest \in Seq(Steps)
            BY <1>1, <1>3, <3>1, ConcatOne
        <3>3. <<>> \o (<<<<"subpacket end", FALSE>>>> \o Rest) = <<<<"subpacket end", FALSE>>>> \o Rest
            BY <3>2, ConcatEmpty, Zenon
        <3> QED BY <1>14, <3>3
    <2> QED BY <1>9, <2>1, <2>2, <2>3, Zenon
<1>15. CASE Goes(<<<<"skip", Cur.length - 1>>>> \o (<<<<"subpacket end", TRUE>>>> \o Rest)) /\ UNCHANGED errors
    <2>1. <<"skip", k>> \in Inner
        BY InnerSteps, Zenon
    <2>2. <<<<"skip", k>>>> \in Seq(Inner)
        BY <2>1, Seq1, Zenon
    <2>3. Finishes(<<<<"skip", k>>>>, TRUE)'
        BY Zenon DEF Finishes
    <2>4. Goes(<<<<"skip", k>>>> \o (<<<<"subpacket end", TRUE>>>> \o Rest)) /\ errors' \in {errors, TRUE}
        BY <1>8, <1>15
    <2> QED BY <1>9, <2>2, <2>3, <2>4, Zenon
<1> QED BY <1>5, <1>11, <1>12, <1>13, <1>14, <1>15, Zenon DEF parse_one_sig_subpacket

\* The rest of a sequence.
LEMMA TailType == ASSUME NEW S, NEW s \in Seq(S), s # <<>> PROVE Tail(s) \in Seq(S) /\ Head(s) \in S
OBVIOUS

\* What is left to do on a subpacket after its next step.
LEMMA FinishesTail ==
    ASSUME NEW x \in Seq(Inner), x # <<>>, NEW b \in BOOLEAN, Finishes(x, b)
    PROVE  \/ b \/ errors
           \/ x = <<<<"read", Cur.length - Cur.readc>>>>
           \/ x = <<Exact>>
           \/ /\ \E y \in Seq(Inner) : Tail(x) = y \o <<Exact>>
              /\ \A z \in Inner : \E w \in Seq(Inner) : <<z>> \o Tail(x) = w \o <<Exact>>
<1>1. ASSUME NEW y \in Seq(Inner), x = y \o <<Exact>>, y # <<>>
      PROVE  /\ \E u \in Seq(Inner) : Tail(x) = u \o <<Exact>>
             /\ \A z \in Inner : \E w \in Seq(Inner) : <<z>> \o Tail(x) = w \o <<Exact>>
    <2>1. PICK e \in Seq(Inner) : e = <<Exact>>
        BY InnerSteps, Seq1, Zenon
    <2>2. PICK t \in Seq(Inner) : t = Tail(y)
        <3>1. Tail(y) \in Seq(Inner)
            BY <1>1, TailType, Zenon
        <3> QED BY <3>1, Zenon
    <2>3. Tail(x) = t \o e
        BY <1>1, <2>1, <2>2, ConcatHead
    <2>4. ASSUME NEW z \in Inner PROVE \E w \in Seq(Inner) : <<z>> \o Tail(x) = w \o <<Exact>>
        <3>1. <<z>> \in Seq(Inner)
            BY Seq1, Zenon
        <3>2. Associative(<<z>>, t, e)
            BY <3>1, ConcatAssociative, Zenon
        <3>3. <<z>> \o t \in Seq(Inner)
            BY <3>1, ConcatClosed, Zenon
        <3>4. <<z>> \o Tail(x) = (<<z>> \o t) \o <<Exact>>
            BY <2>1, <2>3, <3>2 DEF Associative
        <3> QED BY <3>3, <3>4, Zenon
    <2> QED BY <2>1, <2>3, <2>4, Zenon
<1>2. ASSUME NEW y \in Seq(Inner), x = y \o <<Exact>>, y = <<>>
      PROVE  x = <<Exact>>
    <2>1. <<Exact>> \in Seq(Inner)
        BY InnerSteps, Seq1, Zenon
    <2> QED BY <1>2, <2>1, ConcatEmpty, Zenon
<1> QED BY <1>1, <1>2, Zenon DEF Finishes

\* What is left of a skip.
LEMMA SkipFacts ==
    ASSUME NEW k \in Nat
    PROVE  SkipPart(k) \in Nat /\ k - SkipPart(k) \in Nat
<1>1. SkipBuf \in Nat \ {0}
    BY ParserAssumption
<1>2. k % SkipBuf \in Nat /\ k % SkipBuf <= k
    BY <1>1
<1> QED BY <1>2 DEF SkipPart

\* The parser is on the fields of a subpacket.
LEMMA FieldsStep ==
    ASSUME IInv, Next, pc = "body", prog # <<>>, AtFields
    PROVE  IInv'
<1>0. ~dec.on /\ Len(regs) = 3 /\ regs \in Seq(Regions) /\ errors \in BOOLEAN /\ sesskey \in BOOLEAN
    BY DEF AtFields, IInv, TypeOK
<1>1. PICK x \in Seq(Inner), r \in Seq(Steps), b \in BOOLEAN :
         InSet(r) /\ prog = x \o (<<<<"subpacket end", b>>>> \o r) /\ Finishes(x, b)
    BY Zenon DEF AtFields
<1>2. <<"subpacket end", b>> \in Steps
    BY StepTypes, Zenon
<1>3. PICK e \in Seq(Steps) : e = <<<<"subpacket end", b>>>> \o r /\ Head(e) = <<"subpacket end", b>> /\ Tail(e) = r
    BY <1>2, ConcatOne
<1>4. x \in Seq(Steps) /\ prog = x \o e
    BY <1>1, <1>3, StepTypes, SeqSubset, Zenon
<1>5. PICK c \in Regions : c = Cur /\ c = regs[3]
    <2>1. 3 \in 1 .. Len(regs)
        BY <1>0
    <2>2. regs[3] \in Regions
        BY <1>0, <2>1, Elements, Zenon
    <2> QED BY <1>0, <2>2, Zenon DEF Cur
<1>6. CASE x = <<>>
    <2>1. prog = e
        BY <1>4, <1>6, ConcatEmpty, Zenon
    <2>2. Head(prog)[1] = "subpacket end" /\ Arg = b /\ Rest = r
        <3>1. \A s, t : <<s, t>>[1] = s /\ <<s, t>>[2] = t
            OBVIOUS
        <3>2. Head(prog) = <<"subpacket end", b>> /\ Tail(prog) = r
            BY <1>3, <2>1, Zenon
        <3>3. <<"subpacket end", b>>[1] = "subpacket end" /\ <<"subpacket end", b>>[2] = b
            BY <3>1, Zenon
        <3> QED BY <3>2, <3>3, Zenon DEF Arg, Rest
    <2>3. SubpacketEnd
        BY <2>2, StepOf
    <2>4. /\ prog' = r /\ pc' = "body" /\ ret' = ret /\ Leave
          /\ gap' = [bytes |-> Cur.length - Cur.readc, ignored |-> b]
          /\ UNCHANGED <<togo, virt, eof, dec, sesskey, errors, stack, short>>
        BY <2>2, <2>3 DEF SubpacketEnd, Goes
    <2>5. b \/ errors \/ Cur.readc = Cur.length
        <3>1. <<<<"read", Cur.length - Cur.readc>>>> # <<>>
            OBVIOUS
        <3>2. ASSUME NEW y \in Seq(Inner) PROVE y \o <<Exact>> # <<>>
            <4>1. <<Exact>> \in Seq(Inner)
                BY InnerSteps, Seq1, Zenon
            <4>2. PICK q \in Seq(Inner) : q = <<Exact>>
                BY <4>1, Zenon
            <4>3. q # <<>>
                BY <4>2
            <4>4. y \o q # <<>>
                BY <4>3
            <4> QED BY <4>2, <4>4
        <3> QED BY <1>1, <1>6, <3>1, <3>2, Zenon DEF Finishes
    <2>6. gap' \in [bytes : Int, ignored : BOOLEAN] /\ gap'.bytes = c.length - c.readc /\ gap'.ignored = b
        <3>1. c.length - c.readc \in Int
            BY DEF Regions
        <3> QED BY <1>5, <2>4, <3>1
    <2>7. gap'.bytes # 0 => gap'.ignored \/ errors'
        <3>1. c.readc = c.length => c.length - c.readc = 0
            BY DEF Regions
        <3>2. CASE b
            BY <2>6, <3>2
        <3>3. CASE errors
            BY <2>4, <3>3
        <3>4. CASE Cur.readc = Cur.length
            BY <1>5, <2>6, <3>1, <3>4
        <3> QED BY <2>5, <3>2, <3>3, <3>4
    <2>8. Settled /\ Len(regs') = Len(regs) - 1
        <3>1. Len(regs) \in {2, 3}
            BY <1>0
        <3> QED BY <2>4, <2>6, <2>7, <3>1, Left
    <2>9. Len(regs') = 2 /\ ~dec'.on
        BY <1>0, <2>4, <2>8
    <2>10. InSet(prog')
        BY <1>1, <2>4
    <2>11. AtSet'
        BY <2>9, <2>10 DEF AtSet
    <2> QED BY <2>4, <2>8, <2>11, GoesOn DEF Place
<1>7. CASE x # <<>>
    <2>1. Head(prog) = Head(x) /\ Rest = Tail(x) \o e
        BY <1>4, <1>7, ConcatHead DEF Rest
    <2>2. Head(x) \in Inner /\ Tail(x) \in Seq(Inner)
        BY <1>7, TailType, Zenon
    <2>3. PICK op : op = Head(prog)[1]
        OBVIOUS
    <2>4. op \in {"check", "data", "exact", "read", "skip"} /\ (op \in {"read", "skip"} => Arg \in Nat)
        BY <2>1, <2>2, <2>3, InnerOps, Zenon DEF Arg
    <2>5. ASSUME NEW n, n \in Seq(Inner), Stays(n \o e), Finishes(n, b)' PROVE Place'
        <3>1. ~dec'.on /\ Len(regs') = 3 /\ prog' = n \o (<<<<"subpacket end", b>>>> \o r)
            BY <1>0, <1>3, <2>5 DEF Stays, Goes
        <3> QED BY <1>1, <2>5, <3>1, OnFields
    <2>6. ASSUME NEW n, b \/ errors, Stays(n \o e) PROVE Finishes(n, b)'
        BY <2>6, Zenon DEF Finishes, Stays
    <2>7. ASSUME NEW n, NEW w \in Seq(Inner), n = w \o <<Exact>> PROVE Finishes(n, b)'
        BY <2>7, Zenon DEF Finishes
    <2>8. CASE op # "skip"
        <3>1. Settled /\ Plainly(Rest)
            BY <1>0, <2>3, <2>4, <2>8, PlainStep
        <3>2. ASSUME Stays(Rest), x = <<<<"read", Cur.length - Cur.readc>>>> PROVE Finishes(Tail(x), b)'
            <4>1. PICK k : k = Cur.length - Cur.readc
                OBVIOUS
            <4>2. Head(x) = <<"read", k>> /\ Tail(x) = <<>>
                BY <3>2, <4>1
            <4>3. Head(prog)[1] = "read" /\ Arg = k
                BY <2>1, <4>2 DEF Arg
            <4>4. k \in Nat /\ Take(k, Rest)
                BY <2>3, <2>4, <4>3, StepOf DEF limread
            <4>5. Consistent /\ (Took(k, Rest) \/ FailsReading)
                BY <1>0, <4>4, TakeFacts
            <4>6. Took(k, Rest)
                <5>1. pc' = "body"
                    BY <3>2 DEF Stays, Goes
                <5>2. ~FailsReading
                    BY <5>1 DEF FailsReading, Fails
                <5> QED BY <4>5, <5>2
            <4>7. regs'[3].readc = c.readc + k /\ regs'[3].length = c.length /\ Len(regs') = 3
                <5>1. regs'[3].readc = c.readc + k
                    BY <1>0, <1>5, <4>6 DEF Took
                <5>2. 3 \in DOMAIN regs
                    BY <1>0
                <5> QED BY <1>0, <1>5, <4>5, <5>1, <5>2 DEF Consistent
            <4>8. c.readc + k = c.length
                <5>1. k = c.length - c.readc
                    BY <1>5, <4>1
                <5>2. c.length \in Int /\ c.readc \in Int
                    BY DEF Regions
                <5> QED BY <5>1, <5>2
            <4>9. Cur'.readc = Cur'.length
                BY <4>7, <4>8 DEF Cur
            <4> QED BY <4>2, <4>9, Zenon DEF Finishes
        <3>3. ASSUME Stays(Rest), x = <<Exact>> PROVE Finishes(Tail(x), b)'
            <4>1. Head(x) = Exact /\ Tail(x) = <<>>
                BY <3>3
            <4>2. Head(prog)[1] = "exact"
                BY <2>1, <4>1 DEF Exact
            <4>3. ExactEnd
                BY <4>2, StepOf
            <4>4. pc' = "body"
                BY <3>3 DEF Stays, Goes
            <4>5. CheckConsumed /\ UNCHANGED quiet
                BY <4>3, <4>4 DEF ExactEnd, Fails
            <4>6. Cur.readc = Cur.length /\ regs' = regs
                BY <4>5 DEF CheckConsumed, quiet
            <4>7. Cur'.readc = Cur'.length
                BY <4>6 DEF Cur
            <4> QED BY <4>1, <4>7, Zenon DEF Finishes
        <3>4. Stays(Rest) => Place'
            <4> SUFFICES ASSUME Stays(Rest) PROVE Place'
                OBVIOUS
            <4>1. Finishes(Tail(x), b)'
                BY <1>1, <1>7, <2>1, <2>6, <2>7, <3>2, <3>3, FinishesTail
            <4> QED BY <2>1, <2>2, <2>5, <4>1
        <3> QED BY <1>0, <3>1, <3>4, PlainlyKept
    <2>9. CASE op = "skip"
        <3>1. limskip
            BY <2>3, <2>9, StepOf
        <3>2. PICK k \in Nat : k = Arg
            BY <2>4, <2>9
        <3>3. x # <<<<"read", Cur.length - Cur.readc>>>> /\ x # <<Exact>>
            <4>1. Head(x)[1] = "skip"
                BY <2>1, <2>3, <2>9
            <4>2. \A n : Head(<<<<"read", n>>>>)[1] = "read"
                OBVIOUS
            <4>3. Head(<<Exact>>)[1] = "exact"
                BY DEF Exact
            <4>4. "skip" # "read" /\ "skip" # "exact"
                OBVIOUS
            <4> QED BY <4>1, <4>2, <4>3, <4>4, Zenon
        <3>4. \/ b \/ errors
              \/ /\ \E y \in Seq(Inner) : Tail(x) = y \o <<Exact>>
                 /\ \A z \in Inner : \E w \in Seq(Inner) : <<z>> \o Tail(x) = w \o <<Exact>>
            BY <1>1, <1>7, <3>3, FinishesTail
        <3>5. CASE Goes(Rest) /\ UNCHANGED <<sesskey, errors, quiet>>
            <4>1. Settled /\ Plainly(Rest)
                BY <1>0, <3>5, PlainQuiet
            <4>2. Stays(Rest) => Place'
                <5> SUFFICES ASSUME Stays(Rest) PROVE Place'
                    OBVIOUS
                <5>1. Finishes(Tail(x), b)'
                    BY <2>1, <2>6, <2>7, <3>4
                <5> QED BY <2>1, <2>2, <2>5, <5>1
            <4> QED BY <1>0, <4>1, <4>2, PlainlyKept
        <3>6. CASE Take(SkipPart(Arg), <<<<"skip", Arg - SkipPart(Arg)>>>> \o Rest)
            <4>1. PICK n \in Nat, m \in Nat : n = SkipPart(k) /\ m = k - n
                BY SkipFacts
            <4>2. PICK z \in Inner : z = <<"skip", m>>
                BY InnerSteps, Zenon
            <4>3. Take(n, <<z>> \o Rest)
                BY <3>2, <3>6, <4>1, <4>2
            <4>4. PICK t \in Seq(Inner) : t = <<z>> \o Tail(x)
                <5>1. <<z>> \in Seq(Inner)
                    BY Seq1, Zenon
                <5> QED BY <2>2, <5>1, ConcatClosed, Zenon
            <4>5. <<z>> \o Rest = t \o e
                <5>1. z \in Steps /\ Tail(x) \in Seq(Steps)
                    BY <2>2, StepTypes, SeqSubset, Zenon
                <5>2. <<z>> \in Seq(Steps)
                    BY <5>1, Seq1, Zenon
                <5>3. Associative(<<z>>, Tail(x), e)
                    BY <5>1, <5>2, ConcatAssociative, Zenon
                <5> QED BY <2>1, <4>4, <5>3 DEF Associative
            <4>6. Settled /\ Plainly(t \o e)
                BY <1>0, <4>3, <4>5, PlainRead
            <4>7. Stays(t \o e) => Place'
                <5> SUFFICES ASSUME Stays(t \o e) PROVE Place'
                    OBVIOUS
                <5>1. Finishes(t, b)'
                    BY <2>6, <2>7, <3>4, <4>4
                <5> QED BY <2>5, <5>1
            <4> QED BY <1>0, <4>6, <4>7, PlainlyKept
        <3> QED BY <3>1, <3>5, <3>6, Zenon DEF limskip
    <2> QED BY <2>8, <2>9
<1> QED BY <1>6, <1>7

-----------------------------------------------------------------------------
(* Packets. *)

\* The facts the invariant gives between packets.
LEMMA Outside ==
    ASSUME IInv
    PROVE  /\ regs \in Seq(Regions) /\ Len(regs) <= 3 /\ stack \in Seq(Frames) /\ Len(stack) <= MaxDepth
           /\ {eof, sesskey, errors} \subseteq BOOLEAN /\ short \in Shorts /\ togo \in Int /\ virt \in Nat /\ ret \in -1 .. 1
           /\ dec \in Readers /\ gap \in [bytes : Int, ignored : BOOLEAN]
           /\ (gap.bytes # 0 => gap.ignored \/ errors) /\ (short = "body" => errors)
           /\ pc \notin {"body", "end", "undefined"} => ~dec.on
           /\ \A i \in DOMAIN regs : i # 1 => ~regs[i].indeterminate
           /\ \A i \in DOMAIN stack : ~stack[i].eof => Counted(stack[i].region, stack[i].togo, stack[i].virt)
BY DEF IInv, TypeOK, Control, SubpacketsInStep, Positions, Reported

\* Only the place in the code changes.
LEMMA PlaceOnly ==
    ASSUME IInv, UNCHANGED <<sesskey, errors, quiet>>, ret' \in -1 .. 1, pc' \in {"lost", "undefined", "stopped", "end"},
           pc' \in {"lost", "stopped"} => ~dec.on, pc' = "end" => pc = "body" /\ ~dec.on
    PROVE  IInv'
<1>1. UNCHANGED <<regs, togo, virt, eof, dec, stack, gap, short, sesskey, errors>>
    BY DEF quiet
<1>2. TypeOK'
    BY <1>1 DEF IInv, TypeOK
<1>3. Control' /\ Reported' /\ Placed' /\ InStep' /\ ReadersBalanced' /\ SubpacketsInStep'
    BY <1>1 DEF IInv, Control, Reported, Placed, InStep, ReadersBalanced, SubpacketsInStep
<1>4. Positions'
    BY <1>1 DEF IInv, Positions, Packet
<1> QED BY <1>2, <1>3, <1>4 DEF IInv

\* A parser that has no step left has no reader.
LEMMA NoStepLeft ==
    ASSUME IInv, pc = "body", prog = <<>>
    PROVE  ~dec.on
<1>1. Place
    BY DEF IInv, Placed
<1>2. ~AtKey
    BY KeyRunFacts, Zenon DEF AtKey
<1>3. ~AtData
    BY DEF AtData, DataRuns
<1> QED BY <1>1, <1>2, <1>3, Zenon DEF Place, AtPacket, BehindKey, AtSet, AtLength, AtType, AtSubpacket, AtFields

\* The counts at the start of a packet of length n.
Begun(n, ind) ==
    /\ togo' \in Int /\ virt' \in Nat /\ eof' \in BOOLEAN /\ short' \in {short, "parts"}
    /\ ~eof' => IF ind THEN togo' = 0 /\ virt' = 0 ELSE togo' = n /\ (virt' = 0 \/ virt' = togo')

\* The header of a packet.
LEMMA HeaderKept ==
    ASSUME IInv, pc = "packet", ~eof, NEW p, Outer(p), NEW l \in Lengths, Header(p, l),
           UNCHANGED <<dec, sesskey, stack>>, errors' \in {errors, TRUE}
    PROVE  IInv'
<1>0. /\ stack \in Seq(Frames) /\ Len(stack) <= MaxDepth /\ {eof, sesskey, errors} \subseteq BOOLEAN /\ short \in Shorts
      /\ dec \in Readers /\ (short = "body" => errors) /\ ~dec.on /\ togo = 0 /\ virt = 0
      /\ \A i \in DOMAIN stack : ~stack[i].eof => Counted(stack[i].region, stack[i].togo, stack[i].virt)
    <2>1. togo = 0 /\ virt = 0
        BY DEF IInv, InStep
    <2> QED BY <2>1, Outside
<1>1. l \in Nat /\ 0 \in Nat
    BY ParserAssumption
<1>2. PICK n \in Nat, ind \in BOOLEAN : Starts(p, n, ind) /\ Begun(n, ind)
    <2>1. CASE Starts(p, l, FALSE) /\ togo' = l /\ UNCHANGED <<virt, eof, short>>
        <3>1. togo' = l /\ virt' = 0 /\ eof' \in BOOLEAN /\ short' = short
            BY <1>0, <2>1
        <3>2. Begun(l, FALSE)
            BY <1>1, <3>1 DEF Begun
        <3> QED BY <1>1, <2>1, <3>2, Zenon
    <2>2. CASE \E got \in 0 .. l : Starts(p, got, FALSE) /\ coalesce_blocks(l, got)
        <3>1. PICK got \in 0 .. l : Starts(p, got, FALSE) /\ coalesce_blocks(l, got)
            BY <2>2
        <3>2. virt' = got /\ togo' = got /\ eof' \in BOOLEAN /\ short' \in {short, "parts"} /\ got \in Nat
            BY <1>1, <3>1 DEF coalesce_blocks
        <3>3. Begun(got, FALSE)
            BY <3>2 DEF Begun
        <3> QED BY <3>1, <3>2, <3>3, Zenon
    <2>3. CASE l = 0 /\ Starts(p, 0, TRUE) /\ togo' = 0 /\ UNCHANGED <<virt, eof, short>>
        <3>1. togo' = 0 /\ virt' = 0 /\ eof' \in BOOLEAN /\ short' = short
            BY <1>0, <2>3
        <3>2. Begun(0, TRUE)
            BY <3>1 DEF Begun
        <3> QED BY <1>1, <2>3, <3>2, Zenon
    <2> QED BY <2>1, <2>2, <2>3, Zenon DEF Header
<1>a. /\ togo' \in Int /\ virt' \in Nat /\ eof' \in BOOLEAN /\ short' \in {short, "parts"}
      /\ ~eof' => IF ind THEN togo' = 0 /\ virt' = 0 ELSE togo' = n /\ (virt' = 0 \/ virt' = togo')
    BY <1>2, Zenon DEF Begun
<1>3. pc' = "body" /\ prog' = p /\ ret' = 1 /\ regs' = <<Region(n, ind)>> /\ gap' = NoGap
    BY <1>2 DEF Starts
<1>4. PICK r \in Regions : r = Region(n, ind) /\ r.length = n /\ r.readc = 0 /\ r.indeterminate = ind
    <2>1. Region(n, ind) \in Regions
        BY DEF Region, Regions
    <2>2. PICK r \in Regions : r = Region(n, ind)
        BY <2>1, Zenon
    <2> QED BY <2>2 DEF Region
<1>5. regs' \in Seq(Regions) /\ regs' # <<>> /\ Len(regs') = 1 /\ regs'[1] = r /\ \A i \in DOMAIN regs' : i = 1
    BY <1>3, <1>4
<1>6. gap' \in [bytes : Int, ignored : BOOLEAN] /\ gap'.bytes = 0
    BY <1>3 DEF NoGap
<1>7. ~eof' => Counted(r, togo', virt')
    BY <1>4, <1>a DEF Counted
<1>8. TypeOK'
    <2>1. {eof', sesskey', errors'} \subseteq BOOLEAN /\ short' \in Shorts
        BY <1>0, <1>a DEF Shorts
    <2>2. ret' \in -1 .. 1 /\ Len(regs') <= 3 /\ pc' \in {"packet", "body", "end", "give up", "stopped", "undefined", "lost"}
        BY <1>3, <1>5
    <2>3. stack' \in Seq(Frames) /\ Len(stack') <= MaxDepth /\ dec' \in Readers
        BY <1>0
    <2> QED BY <1>5, <1>6, <1>a, <2>1, <2>2, <2>3, Zenon DEF TypeOK
<1>9. Place'
    <2>1. Outer(prog') /\ ~dec'.on
        BY <1>0, <1>3
    <2>2. AtPacket'
        BY <1>5, <2>1 DEF AtPacket
    <2> QED BY <2>2 DEF Place
<1>10. Control' /\ Reported' /\ Placed' /\ InStep' /\ ReadersBalanced' /\ SubpacketsInStep'
    BY <1>0, <1>3, <1>5, <1>6, <1>9, <1>a DEF Control, Reported, Placed, InStep, ReadersBalanced, SubpacketsInStep
<1>11. Positions'
    BY <1>0, <1>3, <1>5, <1>7 DEF Positions, Packet
<1> QED BY <1>8, <1>10, <1>11 DEF IInv

\* The rest of a packet.
LEMMA ConsumeKept ==
    ASSUME IInv, consume_packet
    PROVE  IInv'
<1>0. /\ stack \in Seq(Frames) /\ Len(stack) <= MaxDepth /\ {eof, sesskey, errors} \subseteq BOOLEAN /\ short \in Shorts
      /\ togo \in Int /\ virt \in Nat /\ gap \in [bytes : Int, ignored : BOOLEAN]
      /\ (gap.bytes # 0 => gap.ignored \/ errors) /\ dec \in Readers /\ (short = "body" => errors)
      /\ \A i \in DOMAIN stack : ~stack[i].eof => Counted(stack[i].region, stack[i].togo, stack[i].virt)
    BY Outside
<1>a. -1 < 0 /\ 1 \in -1 .. 1 /\ 0 <= 3
    OBVIOUS
<1>1. pc = "end" /\ ~dec.on /\ regs' = <<>> /\ UNCHANGED <<dec, sesskey, stack, gap>>
    BY DEF consume_packet
<1>2. PICK r \in Regions : r = Packet /\ (~eof => Counted(r, togo, virt))
    <2>1. regs \in Seq(Regions) /\ regs # <<>> /\ (~eof => Counted(Packet, togo, virt))
        BY <1>1 DEF IInv, TypeOK, Control, Positions
    <2>2. Packet \in Regions
        BY <2>1 DEF Packet
    <2> QED BY <2>1, <2>2
<1>3. r.length \in Int /\ r.readc \in Int /\ r.indeterminate \in BOOLEAN
    BY DEF Regions
<1>4. PICK rest \in Int : rest = r.length - r.readc
    BY <1>3
<1>5. /\ prog' = <<>> /\ ret' = 1 /\ pc' \in {"packet", "give up"} /\ togo' \in Int /\ virt' \in Nat
      /\ {eof', errors'} \subseteq BOOLEAN /\ short' \in Shorts /\ (errors => errors') /\ (short' = "body" => errors')
      /\ (pc' = "packet" /\ ~eof') => togo' = 0 /\ virt' = 0
    <2>1. ASSUME NEW q \in Int, PacketDone(q)
          PROVE  prog' = <<>> /\ ret' = 1 /\ pc' \in {"packet", "give up"} /\ (q < 0 => pc' = "give up")
        BY <2>1 DEF PacketDone
    <2>2. ASSUME NEW m \in Int, m >= 0, Advance(m)
          PROVE  /\ togo' = (IF r.indeterminate THEN togo ELSE togo - m) /\ togo' \in Int
                 /\ virt' = virt - (IF m < virt THEN m ELSE virt) /\ virt' \in Nat
        BY <1>0, <1>2, <2>2 DEF Advance, Least
    <2>3. CASE /\ ~Consume /\ PacketDone(IF ret = 0 /\ Packet.indeterminate THEN -1 ELSE ret)
               /\ UNCHANGED <<togo, virt, eof, errors, short>>
        <3>1. PICK q \in Int : PacketDone(q)
            <4>1. (IF ret = 0 /\ Packet.indeterminate THEN -1 ELSE ret) \in Int
                BY Outside
            <4> QED BY <2>3, <4>1, Zenon
        <3>2. r.indeterminate \/ r.length = r.readc
            BY <1>2, <2>3 DEF Consume
        <3>3. ~eof => togo = 0 /\ virt = 0
            BY <1>2, <1>3, <3>2 DEF Counted
        <3> QED BY <1>0, <2>1, <2>3, <3>1, <3>3
    <2>4. CASE PacketDone(-1) /\ errors' = TRUE /\ UNCHANGED <<togo, virt, eof, short>>
        <3>1. prog' = <<>> /\ ret' = 1 /\ pc' = "give up"
            BY <1>a, <2>4, Zenon DEF PacketDone
        <3>2. {eof', errors'} \subseteq BOOLEAN /\ short' \in Shorts /\ togo' \in Int /\ virt' \in Nat
            BY <1>0, <2>4
        <3> QED BY <2>4, <3>1, <3>2
    <2>5. CASE /\ Consume /\ rest > 0
               /\ PacketDone(ret) /\ Advance(rest) /\ UNCHANGED <<eof, errors, short>>
        <3>1. ret \in Int
            BY Outside
        <3>2. ~r.indeterminate
            BY <1>2, <2>5 DEF Consume
        <3>3. /\ togo' = togo - rest /\ virt' = virt - (IF rest < virt THEN rest ELSE virt)
              /\ togo' \in Int /\ virt' \in Nat
            BY <1>4, <2>2, <2>5, <3>2
        <3>4. ~eof => togo = rest /\ (virt = 0 \/ virt = togo)
            BY <1>2, <1>4, <3>2 DEF Counted
        <3>5. ~eof => togo' = 0 /\ virt' = 0
            BY <1>0, <2>5, <3>3, <3>4
        <3> QED BY <1>0, <2>1, <2>5, <3>1, <3>3, <3>5
    <2>6. CASE /\ (\E m \in Shortages(rest) : Advance(m))
               /\ PacketDone(-1) /\ errors' = TRUE /\ eof' = TRUE /\ short' = "body"
        <3>1. PICK m \in Shortages(rest) : Advance(m)
            BY <2>6
        <3>2. m \in Int /\ m >= 0
            BY ShortageFacts
        <3>3. prog' = <<>> /\ ret' = 1 /\ pc' = "give up"
            BY <1>a, <2>6, Zenon DEF PacketDone
        <3>4. togo' \in Int /\ virt' \in Nat
            BY <2>2, <3>1, <3>2, Zenon
        <3> QED BY <2>6, <3>3, <3>4 DEF Shorts
    <2> QED BY <1>2, <1>4, <2>3, <2>4, <2>5, <2>6 DEF consume_packet
<1>6. regs' \in Seq(Regions) /\ Len(regs') = 0 /\ DOMAIN regs' = {}
    BY <1>1
<1>7. TypeOK'
    <2>1. {eof', sesskey', errors'} \subseteq BOOLEAN /\ short' \in Shorts
        BY <1>0, <1>1, <1>5
    <2>2. ret' \in -1 .. 1 /\ Len(regs') <= 3
        BY <1>5, <1>6, <1>a, Zenon
    <2>4. pc' \in {"packet", "body", "end", "give up", "stopped", "undefined", "lost"}
        BY <1>5, Zenon
    <2>3. stack' \in Seq(Frames) /\ Len(stack') <= MaxDepth /\ dec' \in Readers /\ gap' \in [bytes : Int, ignored : BOOLEAN]
        BY <1>0, <1>1
    <2> QED BY <1>5, <1>6, <2>1, <2>2, <2>3, <2>4, Zenon DEF TypeOK
<1>8. Control' /\ Reported' /\ Placed' /\ InStep' /\ ReadersBalanced' /\ SubpacketsInStep'
    BY <1>0, <1>1, <1>5, <1>6 DEF Control, Reported, Placed, InStep, ReadersBalanced, SubpacketsInStep
<1>9. Positions'
    BY <1>0, <1>1, <1>5 DEF Positions
<1> QED BY <1>7, <1>8, <1>9 DEF IInv

\* A beginning of a sequence that may be empty.
LEMMA Beginning ==
    ASSUME NEW S, NEW s \in Seq(S), NEW n \in Nat, n <= Len(s), NEW t, t = SubSeq(s, 1, n)
    PROVE  /\ t \in Seq(S) /\ Len(t) = n
           /\ \A i \in DOMAIN t : i \in DOMAIN s /\ t[i] = s[i]
<1>1. Len(s) \in Nat
    OBVIOUS
<1>2. t \in Seq(S) /\ Len(t) = n
    BY <1>1
<1>3. ASSUME NEW i \in 1 .. n PROVE i \in DOMAIN s /\ t[i] = s[i]
    BY <1>1, <1>2
<1>4. DOMAIN t = 1 .. n
    BY <1>2
<1> QED BY <1>2, <1>3, <1>4, Zenon

\* A nested repgp_parse returns to the parser that called it.
LEMMA ReturnKept ==
    ASSUME IInv, ~dec.on, Return, UNCHANGED <<dec, sesskey, gap>>, Depth > 0
    PROVE  IInv'
<1>0. /\ stack \in Seq(Frames) /\ Len(stack) <= MaxDepth /\ {eof, sesskey, errors} \subseteq BOOLEAN /\ short \in Shorts
      /\ togo \in Int /\ virt \in Nat /\ gap \in [bytes : Int, ignored : BOOLEAN]
      /\ (gap.bytes # 0 => gap.ignored \/ errors) /\ dec \in Readers /\ (short = "body" => errors)
      /\ \A i \in DOMAIN stack : ~stack[i].eof => Counted(stack[i].region, stack[i].togo, stack[i].virt)
    BY Outside
<1>1. PICK d \in Nat : d = Len(stack) /\ d >= 1 /\ d \in DOMAIN stack /\ d = Depth
    <2>1. Len(stack) \in Nat /\ Len(stack) > 0
        BY <1>0 DEF Depth
    <2>2. Len(stack) >= 1 /\ Len(stack) \in DOMAIN stack
        BY <1>0, <2>1
    <2> QED BY <2>1, <2>2, Zenon DEF Depth
<1>2. PICK f \in Frames : f = stack[d] /\ (~f.eof => Counted(f.region, f.togo, f.virt))
    <2>1. stack[d] \in Frames
        BY <1>0, <1>1
    <2> QED BY <1>0, <1>1, <2>1, Zenon
<1>3. PICK g \in Regions, t \in Int, v \in Nat : g = f.region /\ t = f.togo /\ v = f.virt
    BY DEF Frames
<1>4. PICK rest \in Int : rest = g.length - g.readc
    BY DEF Regions
<1>5. /\ stack' = SubSeq(stack, 1, d - 1) /\ pc' = "body" /\ prog' = <<>>
      /\ ret' = (IF errors' THEN 0 ELSE 1)
      /\ \E k \in (IF g.indeterminate THEN {0} ELSE 0 .. rest) :
                /\ togo' = t - k /\ virt' = v - Least(k, v)
                /\ \/ /\ regs' = <<[g EXCEPT !.readc = @ + k]>> /\ eof' = f.eof
                      /\ UNCHANGED <<errors, short>>
                   \/ regs' = <<g>> /\ eof' = TRUE /\ errors' = TRUE /\ short' = "body"
    <2>1. Depth # 0
        BY <1>1
    <2> QED BY <1>1, <1>2, <1>3, <1>4, <2>1, Zenon DEF Return
<1>6. PICK k \in (IF g.indeterminate THEN {0} ELSE 0 .. rest) :
                /\ togo' = t - k /\ virt' = v - Least(k, v)
                /\ \/ /\ regs' = <<[g EXCEPT !.readc = @ + k]>> /\ eof' = f.eof
                      /\ UNCHANGED <<errors, short>>
                   \/ regs' = <<g>> /\ eof' = TRUE /\ errors' = TRUE /\ short' = "body"
    BY <1>5, Zenon
<1>7. k \in Nat /\ (g.indeterminate => k = 0) /\ (~g.indeterminate => k <= rest)
    BY <1>4
<1>8. togo' \in Int /\ virt' \in Nat /\ virt' = v - (IF k < v THEN k ELSE v)
    BY <1>3, <1>6, <1>7 DEF Least
<1>9. PICK h \in Regions : /\ regs' = <<h>> /\ (~eof' => Counted(h, togo', virt'))
    <2>1. CASE regs' = <<[g EXCEPT !.readc = @ + k]>> /\ eof' = f.eof
        <3>1. PICK w \in Int : w = g.readc + k
            BY <1>7 DEF Regions
        <3>2. PICK h \in Regions : h = [g EXCEPT !.readc = w]
            <4>1. [g EXCEPT !.readc = w] \in Regions
                BY DEF Regions
            <4> QED BY <4>1, Zenon
        <3>3. h.length = g.length /\ h.indeterminate = g.indeterminate /\ h.readc = w
            BY <3>2 DEF Regions
        <3>4. regs' = <<h>>
            BY <2>1, <3>1, <3>2
        <3>5. g.length \in Int /\ g.readc \in Int /\ g.indeterminate \in BOOLEAN
            BY DEF Regions
        <3>6. Counted(g, t, v) => Counted(h, togo', virt')
            <4>1. CASE g.indeterminate
                BY <1>3, <1>6, <1>7, <1>8, <3>3, <4>1 DEF Counted
            <4>2. CASE ~g.indeterminate
                <5>1. ~h.indeterminate /\ h.length - h.readc = rest - k
                    BY <1>4, <1>7, <3>1, <3>3, <3>5, <4>2
                <5>2. ASSUME t = rest, v = 0 \/ v = t PROVE togo' = rest - k /\ (virt' = 0 \/ virt' = togo')
                    BY <1>6, <1>7, <1>8, <4>2, <5>2
                <5> QED BY <1>4, <4>2, <5>1, <5>2 DEF Counted
            <4> QED BY <3>5, <4>1, <4>2
        <3>7. ~eof' => Counted(g, t, v)
            BY <1>2, <1>3, <2>1
        <3> QED BY <3>4, <3>6, <3>7
    <2>2. CASE regs' = <<g>> /\ eof' = TRUE
        BY <2>2
    <2> QED BY <1>6, <2>1, <2>2
<1>10. {eof', errors'} \subseteq BOOLEAN /\ short' \in Shorts /\ (errors => errors') /\ (short' = "body" => errors')
    <2>1. f.eof \in BOOLEAN
        BY DEF Frames
    <2>2. CASE eof' = f.eof /\ UNCHANGED <<errors, short>>
        BY <1>0, <2>1, <2>2
    <2>3. CASE eof' = TRUE /\ errors' = TRUE /\ short' = "body"
        BY <2>3 DEF Shorts
    <2> QED BY <1>6, <2>2, <2>3, Zenon
<1>11. regs' \in Seq(Regions) /\ regs' # <<>> /\ Len(regs') = 1 /\ regs'[1] = h /\ \A i \in DOMAIN regs' : i = 1
    BY <1>9
<1>12. /\ stack' \in Seq(Frames) /\ Len(stack') <= MaxDepth
       /\ \A i \in DOMAIN stack' : ~stack'[i].eof => Counted(stack'[i].region, stack'[i].togo, stack'[i].virt)
    <2>1. PICK n \in Nat : n = d - 1 /\ n <= Len(stack)
        BY <1>1
    <2>2. PICK u : u = stack' /\ u = SubSeq(stack, 1, n)
        BY <1>5, <2>1
    <2>3. u \in Seq(Frames) /\ Len(u) = n /\ \A i \in DOMAIN u : i \in DOMAIN stack /\ u[i] = stack[i]
        BY <1>0, <2>1, <2>2, Beginning
    <2>4. MaxDepth \in Nat
        BY ParserAssumption
    <2>5. Len(u) <= MaxDepth
        BY <1>0, <1>1, <2>1, <2>3, <2>4
    <2>6. ASSUME NEW i \in DOMAIN u, ~u[i].eof PROVE Counted(u[i].region, u[i].togo, u[i].virt)
        BY <1>0, <2>3, <2>6
    <2> QED BY <2>2, <2>3, <2>5, <2>6
<1>13. TypeOK'
    <2>1. {eof', sesskey', errors'} \subseteq BOOLEAN /\ short' \in Shorts
        BY <1>0, <1>10
    <2>2. ret' \in -1 .. 1 /\ Len(regs') <= 3
        BY <1>5, <1>11
    <2>3. dec' \in Readers /\ gap' \in [bytes : Int, ignored : BOOLEAN]
        BY <1>0
    <2>4. pc' \in {"packet", "body", "end", "give up", "stopped", "undefined", "lost"}
        BY <1>5, Zenon
    <2> QED BY <1>8, <1>11, <1>12, <2>1, <2>2, <2>3, <2>4, Zenon DEF TypeOK
<1>14. Place'
    <2>0. <<>> \in Seq(Plain)
        OBVIOUS
    <2>1. Outer(prog') /\ ~dec'.on
        BY <1>5, <2>0, PlainOuter
    <2>2. AtPacket'
        BY <1>11, <2>1 DEF AtPacket
    <2> QED BY <2>2 DEF Place
<1>15. Control' /\ Reported' /\ Placed' /\ InStep' /\ ReadersBalanced'
    BY <1>5, <1>10, <1>11, <1>14 DEF Control, Reported, Placed, InStep, ReadersBalanced
<1>16. SubpacketsInStep'
    BY <1>0, <1>10 DEF SubpacketsInStep
<1>17. Positions'
    BY <1>5, <1>9, <1>11, <1>12 DEF Positions, Packet
<1> QED BY <1>13, <1>15, <1>16, <1>17 DEF IInv

\* The steps between the parsers.
LEMMA PacketActions ==
    ASSUME IInv, Next, pc # "body" \/ prog = <<>>
    PROVE  IInv'
<1>0. /\ ret \in -1 .. 1 /\ (pc \notin {"body", "end", "undefined"} => ~dec.on)
      /\ {eof, sesskey, errors} \subseteq BOOLEAN /\ short \in Shorts
    BY Outside
<1>1. CASE PacketHeader
    <2>1. PICK p \in Parsers, l \in LengthsHere : Header(p, l)
        BY <1>1 DEF PacketHeader
    <2>2. l \in Lengths
        BY DEF LengthsHere
    <2>3. Outer(p)
        BY ParsersOuter
    <2>4. pc = "packet" /\ ~eof /\ UNCHANGED <<dec, sesskey, stack>> /\ errors' \in {errors, TRUE}
        BY <1>1 DEF PacketHeader
    <2> QED BY <2>1, <2>2, <2>3, <2>4, HeaderKept
<1>2. CASE UnknownTag
    <2>1. PICK l \in LengthsHere : Header(<<>>, l)
        BY <1>2 DEF UnknownTag
    <2>2. l \in Lengths
        BY DEF LengthsHere
    <2>3. Outer(<<>>)
        <3>1. <<>> \in Seq(Plain)
            OBVIOUS
        <3> QED BY <3>1, PlainOuter
    <2>4. pc = "packet" /\ ~eof /\ UNCHANGED <<dec, sesskey, stack>> /\ errors' \in {errors, TRUE}
        BY <1>2 DEF UnknownTag
    <2> QED BY <2>1, <2>2, <2>3, <2>4, HeaderKept
<1>3. CASE LostParts
    <2>1. UNCHANGED <<sesskey, errors, quiet>> /\ ret' \in -1 .. 1 /\ pc' = "lost" /\ ~dec.on
        BY <1>0, <1>3 DEF LostParts
    <2> QED BY <2>1, PlaceOnly
<1>4. CASE BadHeader
    <2>1. /\ UNCHANGED <<pc, prog, regs, ret, failed, togo, virt, dec, sesskey, errors, stack, gap, short>>
          /\ pc = "packet" /\ ~eof /\ eof' \in BOOLEAN
        BY <1>4 DEF BadHeader
    <2>2. TypeOK'
        BY <2>1 DEF IInv, TypeOK
    <2>3. Control' /\ Reported' /\ Placed' /\ InStep' /\ ReadersBalanced' /\ SubpacketsInStep'
        BY <2>1 DEF IInv, Control, Reported, Placed, InStep, ReadersBalanced, SubpacketsInStep
    <2>4. Positions'
        BY <2>1 DEF IInv, Positions
    <2> QED BY <2>2, <2>3, <2>4 DEF IInv
<1>5. CASE ParserReturns
    <2>1. UNCHANGED <<sesskey, errors, quiet>> /\ pc' = "end" /\ pc = "body" /\ prog = <<>>
          /\ ret' = IF failed = "unknown" THEN -1 ELSE ret
        BY <1>5 DEF ParserReturns
    <2>2. ret' \in -1 .. 1
        BY <1>0, <2>1
    <2>3. ~dec.on
        BY <2>1, NoStepLeft
    <2> QED BY <2>1, <2>2, <2>3, PlaceOnly
<1>6. CASE repgp_parse
    <2>1. ~dec.on /\ Return /\ UNCHANGED <<dec, sesskey, gap>>
        BY <1>0, <1>6 DEF repgp_parse
    <2>2. CASE Depth > 0
        BY <2>1, <2>2, ReturnKept
    <2>3. CASE Depth = 0 /\ pc' = "stopped" /\ UNCHANGED <<prog, regs, ret, failed, togo, eof, virt, errors, stack, short>>
        <3>1. UNCHANGED <<sesskey, errors, quiet>> /\ ret' \in -1 .. 1
            BY <1>0, <2>1, <2>3 DEF quiet
        <3> QED BY <2>1, <2>3, <3>1, PlaceOnly
    <2> QED BY <2>1, <2>2, <2>3, Zenon DEF Return
<1>7. CASE consume_packet
    BY <1>7, ConsumeKept
<1>8. CASE StrayReader
    <2>1. UNCHANGED <<sesskey, errors, quiet>> /\ ret' \in -1 .. 1 /\ pc' = "undefined"
        BY <1>0, <1>8 DEF StrayReader
    <2> QED BY <2>1, PlaceOnly
<1>9. CASE Over
    <2>1. UNCHANGED <<sesskey, errors, quiet, pc, ret>> /\ pc \in {"stopped", "undefined", "lost"}
        BY <1>9 DEF Over, vars, quiet
    <2>2. pc' \in {"lost", "undefined", "stopped", "end"} /\ ret' \in -1 .. 1 /\ pc' # "end"
        BY <1>0, <2>1
    <2>3. pc' \in {"lost", "stopped"} => ~dec.on
        BY <1>0, <2>1
    <2> QED BY <2>1, <2>2, <2>3, PlaceOnly
<1>10. \/ PacketHeader \/ LostParts \/ UnknownTag \/ BadHeader \/ ParserReturns \/ repgp_parse \/ consume_packet
       \/ StrayReader \/ Over
    <2>1. \A op : ~Is(op)
        BY Zenon DEF Is
    <2>2. ~(Branch \/ limread \/ read_data \/ limread_mpi \/ limread_mpi_number \/ CheckValue \/ ExactEnd
            \/ SessionKey \/ pgp_reader_push_decrypt \/ pgp_reader_pop_decrypt \/ Preamble)
        BY <2>1, Zenon DEF Branch, limread, read_data, limread_mpi, limread_mpi_number, CheckValue, ExactEnd, SessionKey,
            pgp_reader_push_decrypt, pgp_reader_pop_decrypt, Preamble
    <2>3. ~(OpenSet \/ SetLength \/ parse_sig_subpkts \/ limited_read_new_length
            \/ parse_one_sig_subpacket \/ SubpacketEnd \/ limskip \/ Nest \/ NestTooDeep)
        BY <2>1, Zenon DEF OpenSet, SetLength, parse_sig_subpkts, limited_read_new_length, parse_one_sig_subpacket,
            SubpacketEnd, limskip, Nest, NestTooDeep
    <2> QED BY <2>2, <2>3, Zenon DEF Next
<1> QED BY <1>1, <1>2, <1>3, <1>4, <1>5, <1>6, <1>7, <1>8, <1>9, <1>10

-----------------------------------------------------------------------------
(* The theorems. *)

\* The invariant holds when repgp_parse starts,
LEMMA InitInv == Init => IInv
<1> SUFFICES ASSUME Init PROVE IInv
    OBVIOUS
<1>1. /\ pc = "packet" /\ prog = <<>> /\ regs = <<>> /\ ret = 1 /\ togo = 0 /\ eof = FALSE /\ virt = 0
      /\ dec = NoReader /\ sesskey = FALSE /\ errors = FALSE /\ stack = <<>> /\ gap = NoGap /\ short = "no"
    BY DEF Init
<1>2. MaxDepth \in Nat
    BY ParserAssumption
<1>3. NoReader \in Readers /\ ~NoReader.on /\ NoGap \in [bytes : Int, ignored : BOOLEAN] /\ NoGap.bytes = 0
    BY DEF NoReader, Readers, NoGap
<1>4. regs \in Seq(Regions) /\ Len(regs) <= 3 /\ stack \in Seq(Frames) /\ Len(stack) <= MaxDepth
      /\ (\A i \in DOMAIN regs : FALSE) /\ (\A i \in DOMAIN stack : FALSE)
    BY <1>1, <1>2
<1>5. TypeOK
    <2>1. {eof, sesskey, errors} \subseteq BOOLEAN /\ short \in Shorts
        BY <1>1 DEF Shorts
    <2>2. ret \in -1 .. 1 /\ togo \in Int /\ virt \in Nat
        BY <1>1
    <2>3. pc \in {"packet", "body", "end", "give up", "stopped", "undefined", "lost"}
        BY <1>1, Zenon
    <2>4. dec \in Readers /\ gap \in [bytes : Int, ignored : BOOLEAN]
        BY <1>1, <1>3, Zenon
    <2> QED BY <1>4, <2>1, <2>2, <2>3, <2>4, Zenon DEF TypeOK
<1>6. Control /\ Reported /\ Placed /\ InStep /\ ReadersBalanced /\ SubpacketsInStep /\ Positions
    BY <1>1, <1>3, <1>4 DEF Control, Reported, Placed, InStep, ReadersBalanced, SubpacketsInStep, Positions
<1> QED BY <1>5, <1>6 DEF IInv

\* and after every step of a parser and between the parsers.
LEMMA NextInv == IInv /\ [Next]_vars => IInv'
<1> SUFFICES ASSUME IInv, [Next]_vars PROVE IInv'
    OBVIOUS
<1>1. CASE UNCHANGED vars
    <2>1. UNCHANGED <<pc, prog, regs, ret, failed, togo, eof, virt, dec, sesskey, errors, stack, gap, short>>
        BY <1>1 DEF vars
    <2>2. TypeOK'
        BY <2>1 DEF IInv, TypeOK
    <2>3. Control' /\ Reported' /\ InStep' /\ ReadersBalanced' /\ SubpacketsInStep' /\ Positions'
        BY <2>1 DEF IInv, Control, Reported, InStep, ReadersBalanced, SubpacketsInStep, Positions, Packet
    <2>4. Placed'
        BY <2>1 DEF IInv, Placed, Place, AtPacket, AtKey, AtData, BehindKey, AtSet, AtLength, AtType, AtSubpacket, AtFields,
            Finishes, Buffered, Packet, Cur
    <2> QED BY <2>2, <2>3, <2>4 DEF IInv
<1>2. CASE Next /\ pc = "body" /\ prog # <<>>
    <2>1. Place
        BY <1>2 DEF IInv, Placed
    <2> QED BY <1>2, <2>1, PacketStep, KeyStep, DataStep, BehindStep, SetStep, LengthStep, TypeStep, SubpacketStep, FieldsStep,
            Zenon DEF Place
<1>3. CASE Next /\ (pc # "body" \/ prog = <<>>)
    BY <1>3, PacketActions
<1> QED BY <1>1, <1>2, <1>3

\* The inductive invariant: the places of the parsers, the counts and the readers.
THEOREM Invariant == Spec => []IInv
BY InitInv, NextInv, PTL DEF Spec

\* Whatever the parsers of packet-parse.c read of their packets, parse_packet looks
\* for the next tag behind the packet, subpackets are read to their end, ignored
\* or reported, and a reader is left on the stack only by a missing check value or
\* preamble.
THEOREM StaysInStep == Spec => []ParserInStep
<1>1. IInv => ParserInStep
    BY Zenon DEF IInv, ParserInStep
<1> QED BY <1>1, Invariant, PTL

\* A packet that is cut off has an entry in errors when repgp_parse returns, unless it came
\* in parts and was cut off among them: then it passes for a shorter one.
THEOREM TruncationIsReported == Spec => []TruncationReported
<1>1. IInv => TruncationReported
    BY DEF IInv, TypeOK, Shorts, Reported, TruncationReported
<1> QED BY <1>1, Invariant, PTL

\* The variables have their types.
THEOREM TypeCorrect == Spec => []TypeOK
<1>1. IInv => TypeOK
    BY Zenon DEF IInv
<1> QED BY <1>1, Invariant, PTL
=============================================================================
