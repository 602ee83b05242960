------------------------- MODULE ProcessSourceProofs -------------------------
(***************************************************************************)
(* The properties of ProcessSource, for every number of blocks, sources    *)
(* and signatures.                                                         *)
(*                                                                         *)
(* What is said of a call that returned with success is not inductive: the *)
(* result depends on the sources that were finished one after the other.   *)
(* IInv adds what holds in between: as long as nothing failed the sources  *)
(* behind fi are in order and reported (FinishedSound, Reports), the       *)
(* output and the hashes have what was read (Flow), a detection code was   *)
(* validated by reading an unaltered message to its end (Validated), only  *)
(* signed sources have signatures and only others a code (Shapes).         *)
(*                                                                         *)
(* The steps are grouped by what they may do to the list of sources:       *)
(* Builds, Reads and Finishes say it.  There is a lemma for each group     *)
(* that its steps do no more, and one that this keeps the invariant.       *)
(***************************************************************************)
EXTENDS ProcessSource, FiniteSetTheorems, TLAPS

\* What a read does to a source: it may validate the detection code.
LEMMA ReachedSource ==
    ASSUME NEW s \in SourceType, NEW c \in BOOLEAN,
           NEW t, t = [s EXCEPT !.mdc_validated = @ \/ c]
    PROVE  /\ t \in SourceType
           /\ t.type = s.type /\ t.has_mdc = s.has_mdc
           /\ t.sigs = s.sigs /\ t.hashed = s.hashed
           /\ t.mdc_validated <=> s.mdc_validated \/ c
<1>1. t.type = s.type /\ t.has_mdc = s.has_mdc /\ t.sigs = s.sigs /\ t.hashed = s.hashed
    BY DEF SourceType
<1>2. t.mdc_validated = (s.mdc_validated \/ c)
    BY Zenon DEF SourceType
<1>3. t \in SourceType
    BY <1>2 DEF SourceType
<1> QED BY <1>1, <1>2, <1>3

\* What hashing a block does to a source.
LEMMA HashedSource ==
    ASSUME NEW s \in SourceType, NEW h \in Seq(0 .. Blocks), NEW t, t = [s EXCEPT !.hashed = h]
    PROVE  /\ t \in SourceType
           /\ t.type = s.type /\ t.has_mdc = s.has_mdc
           /\ t.sigs = s.sigs /\ t.mdc_validated = s.mdc_validated
           /\ t.hashed = h
    BY DEF SourceType

\* A function on 1 .. n is a sequence.
LEMMA FunIsSeq ==
    ASSUME NEW S, NEW n \in Nat, NEW t, t = [i \in 1 .. n |-> t[i]], \A i \in 1 .. n : t[i] \in S
    PROVE  t \in Seq(S) /\ Len(t) = n
    OBVIOUS

\* Two lists of sources of the same kinds: what a read keeps.
Alike(s, t) ==
    /\ t \in Seq(SourceType) /\ Len(t) = Len(s)
    /\ \A i \in 1 .. Len(s) : t[i].type = s[i].type /\ t[i].has_mdc = s[i].has_mdc

\* Codes are validated by reading an unaltered message to its end, for good.
CodesKept(s, t) ==
    \A i \in 1 .. Len(s) :
        /\ s[i].mdc_validated => t[i].mdc_validated
        /\ t[i].mdc_validated => s[i].mdc_validated \/ (whole /\ pos' = Blocks)

\* What a read that reaches detection codes does to the list of sources.
LEMMA ReachedFacts ==
    ASSUME NEW s \in Seq(SourceType), NEW t \in Reached(s)
    PROVE  /\ Alike(s, t) /\ CodesKept(s, t)
           /\ \A i \in 1 .. Len(s) : t[i].sigs = s[i].sigs /\ t[i].hashed = s[i].hashed
<1> DEFINE checked == {i \in DOMAIN s : whole /\ pos' = Blocks /\ s[i].has_mdc}
<1> DEFINE new(i, c) == [s[i] EXCEPT !.mdc_validated = @ \/ c]
<1>1. PICK v \in SUBSET checked : t = [i \in DOMAIN s |-> new(i, i \in v)]
    BY Zenon DEF Reached
<1>2. DOMAIN s = 1 .. Len(s) /\ Len(s) \in Nat /\ \A i \in 1 .. Len(s) : s[i] \in SourceType
    OBVIOUS
<1>3. \A i \in 1 .. Len(s) : t[i] = new(i, i \in v)
    BY <1>1, <1>2, Zenon
<1>4. ASSUME NEW i \in 1 .. Len(s)
      PROVE  /\ t[i] \in SourceType
             /\ t[i].type = s[i].type /\ t[i].has_mdc = s[i].has_mdc
             /\ t[i].sigs = s[i].sigs /\ t[i].hashed = s[i].hashed
             /\ t[i].mdc_validated <=> s[i].mdc_validated \/ i \in v
    <2>1. s[i] \in SourceType /\ (i \in v) \in BOOLEAN
        BY <1>2
    <2> QED BY <1>3, <2>1, ReachedSource, ZenonT(60)
<1>5. t = [i \in 1 .. Len(s) |-> t[i]]
    BY <1>1, <1>2, Zenon
<1>6. t \in Seq(SourceType) /\ Len(t) = Len(s)
    BY <1>2, <1>4, <1>5
<1>7. \A i \in v : whole /\ pos' = Blocks
    BY <1>1, Zenon
<1> QED BY <1>4, <1>6, <1>7, Zenon DEF Alike, CodesKept

\* What hashing a block does to the list of sources.
LEMMA HashFacts ==
    ASSUME sources \in Seq(SourceType), NEW b \in 0 .. Blocks
    PROVE  /\ Alike(sources, Hash(b))
           /\ \A i \in 1 .. Len(sources) :
                /\ Hash(b)[i].sigs = sources[i].sigs
                /\ Hash(b)[i].mdc_validated = sources[i].mdc_validated
                /\ Hash(b)[i].hashed = IF i \in HashedBy THEN Append(sources[i].hashed, b)
                                       ELSE sources[i].hashed
<1> DEFINE t == Hash(b)
<1> DEFINE new(i) == IF i \in HashedBy THEN [sources[i] EXCEPT !.hashed = Append(@, b)] ELSE sources[i]
<1>2. DOMAIN sources = 1 .. Len(sources) /\ Len(sources) \in Nat
      /\ \A i \in 1 .. Len(sources) : sources[i] \in SourceType
    OBVIOUS
<1>1. t = [i \in 1 .. Len(sources) |-> new(i)]
    BY <1>2, Zenon DEF Hash
<1>4. ASSUME NEW i \in 1 .. Len(sources)
      PROVE  /\ t[i] \in SourceType
             /\ t[i].type = sources[i].type /\ t[i].has_mdc = sources[i].has_mdc
             /\ t[i].sigs = sources[i].sigs /\ t[i].mdc_validated = sources[i].mdc_validated
             /\ t[i].hashed = IF i \in HashedBy THEN Append(sources[i].hashed, b)
                              ELSE sources[i].hashed
    <2>1. sources[i] \in SourceType /\ t[i] = new(i)
        BY <1>1, <1>2
    <2> HIDE DEF t
    <2>2. CASE i \in HashedBy
        <3>1. Append(sources[i].hashed, b) \in Seq(0 .. Blocks)
            BY <2>1 DEF SourceType
        <3>2. t[i] = [sources[i] EXCEPT !.hashed = Append(sources[i].hashed, b)]
            BY <2>1, <2>2, Zenon
        <3>3. sources[i] \in SourceType
            BY <2>1
        <3> HIDE DEF new
        <3>4. /\ t[i] \in SourceType
              /\ t[i].type = sources[i].type /\ t[i].has_mdc = sources[i].has_mdc
              /\ t[i].sigs = sources[i].sigs /\ t[i].mdc_validated = sources[i].mdc_validated
              /\ t[i].hashed = Append(sources[i].hashed, b)
            BY <3>1, <3>2, <3>3, HashedSource, Zenon
        <3> QED BY <2>2, <3>4, Zenon
    <2>3. CASE i \notin HashedBy
        BY <2>1, <2>3
    <2> QED BY <2>2, <2>3
<1> HIDE DEF t
<1>6. t \in Seq(SourceType) /\ Len(t) = Len(sources)
    <2>1. t = [i \in 1 .. Len(sources) |-> t[i]]
        BY <1>1, Zenon
    <2> QED BY <1>2, <1>4, <2>1, FunIsSeq
<1> QED BY <1>4, <1>6, Zenon DEF Alike, t

\* A list of sources in which one is replaced.
LEMMA ReplacedFacts ==
    ASSUME NEW s \in Seq(SourceType), NEW n \in 1 .. Len(s), NEW e \in SourceType
    PROVE  /\ [s EXCEPT ![n] = e] \in Seq(SourceType)
           /\ Len([s EXCEPT ![n] = e]) = Len(s)
           /\ \A i \in 1 .. Len(s) : [s EXCEPT ![n] = e][i] = IF i = n THEN e ELSE s[i]
    OBVIOUS

\* A signature is added to one source of a list.
LEMMA NestedExcept ==
    ASSUME NEW s, NEW n, NEW k
    PROVE  [s EXCEPT ![n].sigs = Append(@, k)]
             = [s EXCEPT ![n] = [s[n] EXCEPT !.sigs = Append(s[n].sigs, k)]]
    BY Zenon

\* What reading a signature does to the list of sources.
LEMMA SigFacts ==
    ASSUME NEW s \in Seq(SourceType), NEW n \in 1 .. Len(s), NEW k \in SigKinds
    PROVE  \E t :
           /\ t = [s EXCEPT ![n].sigs = Append(@, k)]
           /\ Alike(s, t)
           /\ \A i \in 1 .. Len(s) :
                /\ t[i].hashed = s[i].hashed
                /\ t[i].mdc_validated = s[i].mdc_validated
                /\ i # n => t[i].sigs = s[i].sigs
<1>1. s[n] \in SourceType
    OBVIOUS
<1>2. Append(s[n].sigs, k) \in Seq(SigKinds)
    <2>1. s[n].sigs \in Seq(SigKinds)
        BY <1>1, Zenon DEF SourceType
    <2> QED BY <2>1
<1>3. PICK new : new = [s[n] EXCEPT !.sigs = Append(s[n].sigs, k)]
    OBVIOUS
<1>4. /\ new \in SourceType
      /\ new.type = s[n].type /\ new.has_mdc = s[n].has_mdc
      /\ new.hashed = s[n].hashed /\ new.mdc_validated = s[n].mdc_validated
      /\ new.sigs = Append(s[n].sigs, k)
    <2>1. PICK old \in SourceType : old = s[n]
        BY <1>1
    <2>2. PICK g \in Seq(SigKinds) : g = Append(s[n].sigs, k)
        BY <1>2
    <2>3. new = [old EXCEPT !.sigs = g]
        BY <1>3, <2>1, <2>2, Zenon
    <2>4. /\ new \in SourceType
          /\ new.type = old.type /\ new.has_mdc = old.has_mdc
          /\ new.hashed = old.hashed /\ new.mdc_validated = old.mdc_validated
          /\ new.sigs = g
        BY <2>3 DEF SourceType
    <2> QED BY <2>1, <2>2, <2>4, Zenon
<1>5. PICK t : t = [s EXCEPT ![n] = new]
    OBVIOUS
<1>6. /\ t \in Seq(SourceType) /\ Len(t) = Len(s)
      /\ \A i \in 1 .. Len(s) : t[i] = IF i = n THEN new ELSE s[i]
    BY <1>4, <1>5
<1>7. t = [s EXCEPT ![n].sigs = Append(@, k)]
    BY <1>3, <1>5, NestedExcept, Zenon
<1>8. /\ Alike(s, t)
      /\ \A i \in 1 .. Len(s) :
                /\ t[i].hashed = s[i].hashed
                /\ t[i].mdc_validated = s[i].mdc_validated
                /\ i # n => t[i].sigs = s[i].sigs
    BY <1>4, <1>6, Zenon DEF Alike
<1> QED BY <1>7, <1>8, Zenon

-----------------------------------------------------------------------------
\* A source that was not read yet, with at most n one-pass packets.
NewSource(s, n) ==
    s \in SourceType /\ SourceShape(s) /\ s.hashed = <<>> /\ ~s.mdc_validated /\ s.onepasses <= n

\* A source that was just initialised is one.
LEMMA SourceIsNew ==
    ASSUME NEW n \in Nat, NEW mdc \in BOOLEAN,
           NEW type \in {"none", "armored", "encrypted", "compressed", "signed", "cleartext", "literal"},
           mdc => type = "encrypted"
    PROVE  NewSource(Source(type, mdc), n) /\ Source(type, mdc).type = type
<1> DEFINE s == Source(type, mdc)
<1>1. s \in SourceType
    BY ProcessAssumption DEF Source, SourceType
<1>2. s.type = type /\ s.sigs = <<>> /\ s.hashed = <<>> /\ s.onepasses = 0
    BY DEF Source
<1>3. s.has_mdc = mdc /\ s.mdc_validated = FALSE
    BY DEF Source
<1> HIDE DEF s
<1> QED BY <1>1, <1>2, <1>3 DEF NewSource, SourceShape, s

\* What a step that builds the list of sources may do: an error is returned,
\* or a source is changed or added that was not read yet.
Builds ==
    /\ Building
    /\ \/ Building' /\ res' = res
       \/ pc' = "returned" /\ res' \in Results \ {"success"}
    /\ \/ sources' = sources
       \/ \E s : NewSource(s, packets') /\ sources' = Append(sources, s)
    /\ signed_src' = signed_src \/ signed_src' = Len(sources')
    /\ NewSource(cur', packets') /\ (pc' = "signed" => cur'.type = "signed")
    /\ packets' \in 0 .. MaxSigs /\ syms' \in BOOLEAN /\ detached' \in BOOLEAN
    /\ UNCHANGED <<caller, whole, pos, out, handed, fi, left, infos, closes>>

\* The invariant says of cur that it was not read.
LEMMA CurIsNew ==
    ASSUME IInv, NEW n \in Nat, packets <= n
    PROVE  NewSource(cur, n) /\ NewSource(NoSource, n)
<1>1. NewSource(NoSource, n)
    BY SourceIsNew DEF NoSource
<1>2. cur \in SourceType /\ cur.onepasses \in Nat /\ cur.onepasses <= packets /\ packets \in Nat
    BY ProcessAssumption DEF IInv, TypeOK, Counted, SourceType
<1>3. SourceShape(cur) /\ cur.hashed = <<>> /\ ~cur.mdc_validated
    BY DEF IInv, Shapes
<1>4. cur.onepasses <= n
    BY <1>2
<1> QED BY <1>1, <1>2, <1>3, <1>4, Zenon DEF NewSource

\* The steps of Detect: what is read first, and how it can fail.
LEMMA DetectBuilds ==
    ASSUME IInv, Detect, UNCHANGED packets, UNCHANGED <<msgVars, dataVars>>
    PROVE  Builds
<1> USE DEF msgVars, dataVars, seqVars
<1>1. packets \in 0 .. MaxSigs /\ packets \in Nat /\ packets' = packets
    BY ProcessAssumption DEF IInv, Counted
<1>2. NewSource(cur, packets') /\ NewSource(NoSource, packets')
    BY <1>1, CurIsNew
<1>3. syms \in BOOLEAN /\ detached \in BOOLEAN
    BY Zenon DEF IInv, TypeOK
<1>4. UNCHANGED <<caller, whole, pos, out, handed, fi, left, infos, closes>>
    OBVIOUS
<1>5. CASE DetectBinary
    BY <1>1, <1>2, <1>3, <1>4, <1>5 DEF DetectBinary, Builds, Building
<1>6. ASSUME pc = "start", NEW r \in InitErrors \cup {"bad_parameters"}, Leave(r), UNCHANGED seqVars
      PROVE  Builds
    BY <1>1, <1>2, <1>3, <1>4, <1>6 DEF Builds, Building, Leave, Results, InitErrors
<1>7. ASSUME pc = "start", NEW type \in {"cleartext", "armored"}, AppendSource(Source(type, FALSE)),
             pc' \in {"open", "sequence"}, UNCHANGED <<res, syms, signed_src, detached>>
      PROVE  Builds
    <2>1. NewSource(Source(type, FALSE), packets')
        BY <1>1, SourceIsNew
    <2> QED BY <1>1, <1>2, <1>3, <1>4, <1>7, <2>1 DEF Builds, Building, AppendSource
<1>8. CASE DetectNothing
    BY <1>6, <1>8 DEF DetectNothing, InitErrors
<1>9. CASE DetectCleartext
    BY <1>6, <1>7, <1>9 DEF DetectCleartext
<1>10. CASE DetectArmored
    BY <1>6, <1>7, <1>10 DEF DetectArmored
<1> QED BY <1>5, <1>8, <1>9, <1>10 DEF Detect

\* The steps of init_packet_sequence, one packet after the other.
LEMMA SequenceBuilds ==
    ASSUME IInv, init_packet_sequence, UNCHANGED packets, UNCHANGED <<msgVars, dataVars>>
    PROVE  Builds
<1> USE DEF msgVars, dataVars, seqVars
<1>1. packets \in 0 .. MaxSigs /\ packets \in Nat /\ packets' = packets
    BY ProcessAssumption DEF IInv, Counted
<1>2. NewSource(cur, packets') /\ NewSource(NoSource, packets')
    BY <1>1, CurIsNew
<1>3. syms \in BOOLEAN /\ detached \in BOOLEAN
    BY Zenon DEF IInv, TypeOK
<1>4. UNCHANGED <<caller, whole, pos, out, handed, fi, left, infos, closes>>
    OBVIOUS
<1> DEFINE Busy == pc \in {"sequence", "keys", "password", "attempt"}
<1>6. ASSUME Busy, NEW r \in Results \ {"success"}, Leave(r),
             sources' = sources, cur' = cur, UNCHANGED <<signed_src, detached>>, syms' \in BOOLEAN
      PROVE  Builds
    BY <1>1, <1>2, <1>3, <1>4, <1>6 DEF Builds, Building, Leave
<1>7. ASSUME Busy, NEW s, NewSource(s, packets'), AppendSource(s),
             pc' \in {"open", "sequence"}, UNCHANGED <<res, syms, signed_src, detached>>
      PROVE  Builds
    BY <1>1, <1>2, <1>3, <1>4, <1>7 DEF Builds, Building, AppendSource
<1>8. CASE SequenceFails
    BY <1>6, <1>3, <1>8 DEF SequenceFails, InitErrors, Results
<1>9. CASE SequenceEncrypted
    <2>1. PICK pub \in BOOLEAN, sym \in BOOLEAN, mdc \in BOOLEAN :
             IF ~Has("password") \/ (pub /\ ~Has("key"))
             THEN Leave("bad_parameters") /\ UNCHANGED <<cur, syms>>
             ELSE /\ cur' = Source("encrypted", mdc) /\ syms' = sym
                  /\ pc' = (IF pub THEN "keys" ELSE "password")
                  /\ UNCHANGED res
        BY <1>9, Zenon DEF SequenceEncrypted
    <2>2. pc = "sequence" /\ UNCHANGED <<sources, signed_src, detached>>
        BY <1>9 DEF SequenceEncrypted
    <2>3. CASE ~Has("password") \/ (pub /\ ~Has("key"))
        BY <1>3, <1>6, <2>1, <2>2, <2>3 DEF Results
    <2>4. CASE ~(~Has("password") \/ (pub /\ ~Has("key")))
        <3>1. NewSource(cur', packets')
            BY <1>1, <2>1, <2>4, SourceIsNew
        <3>2. syms' \in BOOLEAN
            BY <2>1, <2>4, Zenon
        <3>3. pc' \in {"keys", "password"} /\ res' = res
            BY <2>1, <2>4
        <3> QED BY <1>1, <1>3, <1>4, <2>2, <3>1, <3>2, <3>3 DEF Builds, Building
    <2> QED BY <2>3, <2>4
<1>10. CASE SequenceCompressed
    <2>1. NewSource(Source("compressed", FALSE), packets')
        BY <1>1, SourceIsNew
    <2> QED BY <1>7, <1>10, <2>1 DEF SequenceCompressed
<1>11. CASE SequenceLiteral
    <2>1. NewSource(Source("literal", FALSE), packets')
        BY <1>1, SourceIsNew
    <2> QED BY <1>7, <1>11, <2>1 DEF SequenceLiteral
<1>12. CASE SequenceSigned
    <2>1. NewSource(Source("signed", FALSE), packets') /\ Source("signed", FALSE).type = "signed"
        BY <1>1, SourceIsNew
    <2>2. pc = "sequence" /\ UNCHANGED <<sources, syms, signed_src, detached>>
        BY <1>12 DEF SequenceSigned
    <2>3. CASE Leave("bad_parameters") /\ UNCHANGED cur
        BY <1>3, <1>6, <2>2, <2>3 DEF Results
    <2>4. CASE cur' = Source("signed", FALSE) /\ pc' = "signed" /\ UNCHANGED res
        BY <1>1, <1>3, <1>4, <2>1, <2>2, <2>4 DEF Builds, Building
    <2> QED BY <1>12, <2>3, <2>4 DEF SequenceSigned
<1>13. CASE TryKeys
    <2>1. pc = "keys" /\ UNCHANGED <<syms, signed_src, detached>>
        BY <1>13 DEF TryKeys
    <2>2. CASE HaveKey
        BY <1>2, <1>7, <1>1, <2>1, <2>2 DEF HaveKey
    <2>3. CASE pc' = "password" /\ UNCHANGED <<res, sources, cur>>
        BY <1>1, <1>2, <1>3, <1>4, <2>1, <2>3 DEF Builds, Building
    <2>4. CASE Leave("no_suitable_key") /\ UNCHANGED <<sources, cur>>
        BY <1>3, <1>6, <2>1, <2>4 DEF Results
    <2> QED BY <1>13, <2>2, <2>3, <2>4 DEF TryKeys
<1>14. CASE AskPassword
    <2>1. pc = "password" /\ UNCHANGED <<syms, signed_src, detached, sources, cur>>
        BY <1>14 DEF AskPassword
    <2>2. CASE Leave("bad_password")
        BY <1>3, <1>6, <2>1, <2>2 DEF Results
    <2>3. CASE pc' = "attempt" /\ UNCHANGED res
        BY <1>1, <1>2, <1>3, <1>4, <2>1, <2>3 DEF Builds, Building
    <2> QED BY <1>14, <2>2, <2>3 DEF AskPassword
<1>15. CASE TryPassword
    <2>1. pc = "attempt" /\ UNCHANGED <<syms, signed_src, detached>>
        BY <1>15 DEF TryPassword
    <2>2. CASE HaveKey
        BY <1>2, <1>7, <1>1, <2>1, <2>2 DEF HaveKey
    <2>3. CASE pc' = "password" /\ UNCHANGED <<res, sources, cur>>
        BY <1>1, <1>2, <1>3, <1>4, <2>1, <2>3 DEF Builds, Building
    <2>4. ASSUME NEW r \in {"bad_password", "not_supported"}, Leave(r), UNCHANGED <<sources, cur>>
          PROVE  Builds
        BY <1>3, <1>6, <2>1, <2>4 DEF Results
    <2> QED BY <1>15, <2>2, <2>3, <2>4 DEF TryPassword
<1> QED BY <1>8, <1>9, <1>10, <1>11, <1>12, <1>13, <1>14, <1>15 DEF init_packet_sequence

\* A signed source to which a packet was added is not read yet either.
LEMMA SignedPacketIsNew ==
    ASSUME IInv, pc = "signed", packets < MaxSigs,
           NEW s \in {[cur EXCEPT !.onepasses = @ + 1]}
                     \cup {[cur EXCEPT !.sigs = Append(@, k)] : k \in SigKinds}
    PROVE  NewSource(s, packets + 1) /\ s.type = "signed"
<1>1. packets \in Nat /\ MaxSigs \in Nat
    BY ProcessAssumption DEF IInv, Counted
<1>2. NewSource(cur, packets) /\ cur.type = "signed"
    BY <1>1, CurIsNew DEF IInv, Shapes
<1>3. cur \in SourceType /\ cur.onepasses \in Nat /\ cur.onepasses <= packets
    BY <1>2, ProcessAssumption DEF NewSource, SourceType
<1>4. CASE s = [cur EXCEPT !.onepasses = @ + 1]
    <2>1. cur.onepasses + 1 \in 0 .. MaxSigs
        BY <1>1, <1>3
    <2>2. /\ s.type = cur.type /\ s.has_mdc = cur.has_mdc /\ s.sigs = cur.sigs
          /\ s.hashed = cur.hashed /\ s.mdc_validated = cur.mdc_validated
          /\ s.onepasses = cur.onepasses + 1
        BY <1>3, <1>4 DEF SourceType
    <2>3. s \in SourceType
        BY <1>3, <1>4, <2>1 DEF SourceType
    <2>4. s.onepasses <= packets + 1
        BY <1>1, <1>3, <2>2
    <2> QED BY <1>2, <2>2, <2>3, <2>4, Zenon DEF NewSource, SourceShape
<1>5. ASSUME NEW k \in SigKinds, s = [cur EXCEPT !.sigs = Append(@, k)]
      PROVE  NewSource(s, packets + 1) /\ s.type = "signed"
    <2>1. Append(cur.sigs, k) \in Seq(SigKinds)
        BY <1>3 DEF SourceType
    <2>2. /\ s.type = cur.type /\ s.has_mdc = cur.has_mdc
          /\ s.hashed = cur.hashed /\ s.mdc_validated = cur.mdc_validated
          /\ s.onepasses = cur.onepasses
        BY <1>3, <1>5 DEF SourceType
    <2>3. s \in SourceType
        BY <1>3, <1>5, <2>1 DEF SourceType
    <2>4. s.onepasses <= packets + 1
        BY <1>1, <1>3, <2>2
    <2> QED BY <1>2, <2>2, <2>3, <2>4 DEF NewSource, SourceShape
<1> QED BY <1>4, <1>5, Zenon

\* The steps of init_signed_src.
LEMMA SignedBuilds ==
    ASSUME IInv, InitSignedPacket \/ InitSignedEnds, UNCHANGED <<msgVars, dataVars>>
    PROVE  Builds
<1> USE DEF msgVars, dataVars
<1>1. packets \in 0 .. MaxSigs /\ packets \in Nat /\ MaxSigs \in Nat
    BY ProcessAssumption DEF IInv, Counted
<1>2. pc = "signed" /\ packets' \in {packets, packets + 1} /\ packets' \in 0 .. MaxSigs
      /\ syms' = syms
    <2>1. CASE InitSignedPacket
        <3>1. pc = "signed" /\ packets < MaxSigs /\ packets' = packets + 1 /\ syms' = syms
            BY <2>1 DEF InitSignedPacket
        <3> QED BY <1>1, <3>1
    <2>2. CASE InitSignedEnds
        <3>1. pc = "signed" /\ packets' = packets /\ syms' = syms
            BY <2>2, Zenon DEF InitSignedEnds
        <3> QED BY <1>1, <3>1
    <2> QED BY <2>1, <2>2
<1>3. syms' \in BOOLEAN /\ detached \in BOOLEAN
    BY <1>2, Zenon DEF IInv, TypeOK
<1>4. UNCHANGED <<caller, whole, pos, out, handed, fi, left, infos, closes>>
    OBVIOUS
<1>5. NewSource(cur, packets') /\ NewSource(NoSource, packets')
    BY <1>1, <1>2, CurIsNew
<1>6. ASSUME NEW r \in {"read", "bad_parameters"}, Leave(r),
             UNCHANGED <<sources, cur, signed_src, detached>>
      PROVE  Builds
    BY <1>2, <1>3, <1>4, <1>5, <1>6 DEF Builds, Building, Leave, Results
<1>7. ASSUME NEW s, NewSource(s, packets'), NEW eof \in BOOLEAN, SignedReady(s, eof)
      PROVE  Builds
    <2>1. CASE Leave("bad_parameters") /\ UNCHANGED <<sources, cur, signed_src, detached>>
        BY <1>6, <2>1
    <2>2. CASE /\ AppendSource(s) /\ signed_src' = Len(sources) + 1 /\ detached' = eof
               /\ pc' = (IF eof THEN "open" ELSE "sequence") /\ UNCHANGED res
        <3>1. sources' = Append(sources, s) /\ cur' = NoSource
            BY <2>2 DEF AppendSource
        <3>2. signed_src' = Len(sources')
            BY <2>2, <3>1 DEF IInv, TypeOK
        <3>3. detached' \in BOOLEAN
            BY <2>2, Zenon
        <3>4. pc' \in {"open", "sequence"} /\ res' = res
            BY <2>2
        <3> QED BY <1>2, <1>3, <1>4, <1>5, <1>7, <3>1, <3>2, <3>3, <3>4 DEF Builds, Building
    <2> QED BY <1>7, <2>1, <2>2, Zenon DEF SignedReady
<1>8. CASE InitSignedEnds
    <2>1. CASE Leave("read") /\ UNCHANGED <<sources, cur, signed_src, detached>>
        BY <1>6, <2>1
    <2>2. CASE SignedReady(cur, FALSE)
        BY <1>5, <1>7, <2>2
    <2> QED BY <1>8, <2>1, <2>2 DEF InitSignedEnds
<1>9. CASE InitSignedPacket
    <2> DEFINE onepass == [cur EXCEPT !.onepasses = @ + 1]
    <2> DEFINE More == {onepass} \cup {[cur EXCEPT !.sigs = Append(@, k)] : k \in SigKinds}
    <2>1. packets < MaxSigs /\ packets' = packets + 1
        BY <1>9 DEF InitSignedPacket
    <2>2. \/ SignedReady(onepass, FALSE)
          \/ \E s \in More : SignedMore(s) \/ SignedReady(s, TRUE)
        BY <1>9, Zenon DEF InitSignedPacket
    <2>3. \A s \in More : NewSource(s, packets') /\ s.type = "signed"
        BY <1>2, <2>1, SignedPacketIsNew, Zenon
    <2> HIDE DEF onepass
    <2>4. onepass \in More
        BY Zenon
    <2> HIDE DEF More
    <2>5. CASE SignedReady(onepass, FALSE)
        BY <1>7, <2>3, <2>4, <2>5
    <2>6. ASSUME NEW s \in More, SignedReady(s, TRUE) PROVE Builds
        BY <1>7, <2>3, <2>6
    <2>7. ASSUME NEW s \in More, SignedMore(s) PROVE Builds
        <3>1. cur' = s /\ UNCHANGED <<pc, res, sources, signed_src, detached>>
            BY <2>7 DEF SignedMore
        <3>2. detached' \in BOOLEAN
            BY <1>3, <3>1, Zenon
        <3> QED BY <1>2, <1>3, <1>4, <2>3, <3>1, <3>2 DEF Builds, Building
    <2> QED BY <2>2, <2>5, <2>6, <2>7, Zenon
<1> QED BY <1>8, <1>9

\* All of them.
LEMMA BuildFacts ==
    ASSUME IInv, BuildSequence
    PROVE  Builds
    BY DetectBuilds, SequenceBuilds, SignedBuilds, Zenon DEF BuildSequence

\* Building the list of sources keeps the invariant.
LEMMA BuildIInv ==
    ASSUME IInv, Builds
    PROVE  IInv'
<1>1. sources \in Seq(SourceType) /\ signed_src \in 0 .. Len(sources) /\ fi \in 0 .. Len(sources)
    BY DEF IInv, TypeOK
<1>2. /\ Building /\ res # "success" /\ out = "none" /\ pos = 0 /\ handed = <<>> /\ infos = <<>>
      /\ \A i \in DOMAIN sources : sources[i].hashed = <<>> /\ ~sources[i].mdc_validated
      /\ \A i \in DOMAIN sources : SourceShape(sources[i])
    BY DEF IInv, Builds, Fresh, Shapes
<1>3. UNCHANGED <<caller, whole, pos, out, handed, fi, left, infos, closes>>
    BY DEF Builds
<1>4. /\ sources' \in Seq(SourceType) /\ Len(sources') >= Len(sources)
      /\ \A i \in DOMAIN sources' : /\ SourceShape(sources'[i]) /\ sources'[i].hashed = <<>>
                                    /\ ~sources'[i].mdc_validated
    <2>1. CASE sources' = sources
        BY <1>1, <1>2, <2>1
    <2>2. ASSUME NEW s, NewSource(s, packets'), sources' = Append(sources, s)
          PROVE  /\ sources' \in Seq(SourceType) /\ Len(sources') >= Len(sources)
                 /\ \A i \in DOMAIN sources' : /\ SourceShape(sources'[i]) /\ sources'[i].hashed = <<>>
                                               /\ ~sources'[i].mdc_validated
        <3>1. s \in SourceType /\ SourceShape(s) /\ s.hashed = <<>> /\ ~s.mdc_validated
            BY <2>2 DEF NewSource
        <3>2. /\ sources' \in Seq(SourceType) /\ Len(sources') = Len(sources) + 1
              /\ Len(sources) \in Nat
              /\ DOMAIN sources' = 1 .. Len(sources')
              /\ DOMAIN sources = 1 .. Len(sources)
              /\ \A i \in DOMAIN sources' : sources'[i] = IF i <= Len(sources) THEN sources[i] ELSE s
            BY <1>1, <2>2, <3>1
        <3>3. ASSUME NEW i \in DOMAIN sources'
              PROVE  SourceShape(sources'[i]) /\ sources'[i].hashed = <<>> /\ ~sources'[i].mdc_validated
            <4>1. CASE i <= Len(sources)
                <5>1. i \in DOMAIN sources /\ sources'[i] = sources[i]
                    BY <3>2, <4>1
                <5> QED BY <1>2, <5>1
            <4>2. CASE ~(i <= Len(sources))
                BY <3>1, <3>2, <4>2
            <4> QED BY <4>1, <4>2
        <3> QED BY <3>2, <3>3
    <2>3. sources' = sources \/ \E s : NewSource(s, packets') /\ sources' = Append(sources, s)
        BY DEF Builds
    <2> QED BY <2>1, <2>2, <2>3, Zenon
<1>5. /\ pc' \in {"start", "sequence", "keys", "password", "attempt", "signed", "open", "returned"}
      /\ res' \in Results /\ res' # "success" /\ res \in Results
    BY <1>2 DEF Builds, Building, IInv, TypeOK
<1>6. TypeOK'
    <2>1. caller' \in {"stream", "ffi", "bare"} /\ out' \in {"none", "open", "kept", "discarded"}
          /\ pc' \in {"start", "sequence", "keys", "password", "attempt", "signed", "open", "hashing", "reading",
                      "finishing", "signatures", "returned", "done", "crashed"}
        BY <1>3, <1>5 DEF IInv, TypeOK
    <2>2. whole' \in BOOLEAN /\ syms' \in BOOLEAN /\ detached' \in BOOLEAN
        BY <1>3, Zenon DEF IInv, TypeOK, Builds
    <2>3. cur' \in SourceType
        BY Zenon DEF Builds, NewSource
    <2>4. signed_src' \in 0 .. Len(sources') /\ fi' \in 0 .. Len(sources')
        BY <1>1, <1>3, <1>4 DEF Builds
    <2>5. /\ pos' \in 0 .. Blocks /\ handed' \in Seq(0 .. Blocks)
          /\ left' \in 0 .. MaxSigs /\ closes' \in 0 .. 2
        BY <1>3 DEF IInv, TypeOK
    <2> QED BY <1>4, <1>5, <2>1, <2>2, <2>3, <2>4, <2>5, Zenon DEF TypeOK
<1>7. Counted'
    <2>1. closes = 0
        BY <1>2 DEF IInv, Counted, Building
    <2>2. infos' \in Seq(Seq([valid : BOOLEAN, expired : BOOLEAN]))
        BY <1>3, Zenon DEF IInv, Counted
    <2>3. packets' \in 0 .. MaxSigs /\ cur'.onepasses <= packets'
        BY DEF Builds, NewSource
    <2> QED BY <1>3, <2>1, <2>2, <2>3 DEF Counted
<1>8. Shapes'
    BY <1>4 DEF Shapes, Builds, NewSource, SourceShape
<1>9. Fresh'
    BY <1>2, <1>3, <1>4, <1>5 DEF Fresh
<1>10. OutputState'
    BY <1>2, <1>3, <1>5 DEF OutputState, Finishing
<1>11. Flow' /\ Validated' /\ FinishedSound' /\ Reports'
    BY <1>4, <1>5 DEF Flow, Validated, FinishedSound, Reports, Finishing
<1> QED BY <1>6, <1>7, <1>8, <1>9, <1>10, <1>11 DEF IInv

-----------------------------------------------------------------------------
\* The shapes of sources carry over to a list of the same kinds in which at most
\* a signed source has got signatures.
LEMMA ShapesKept ==
    ASSUME NEW s \in Seq(SourceType), NEW t, Alike(s, t),
           \A i \in DOMAIN s : SourceShape(s[i]),
           \A i \in 1 .. Len(s) : t[i].sigs = s[i].sigs \/ s[i].type \in {"signed", "cleartext"}
    PROVE  \A i \in DOMAIN t : SourceShape(t[i])
<1>1. DOMAIN s = 1 .. Len(s) /\ DOMAIN t = 1 .. Len(s)
    BY DEF Alike
<1>2. \A i \in 1 .. Len(s) : t[i].type = s[i].type /\ t[i].has_mdc = s[i].has_mdc
    BY DEF Alike
<1> QED BY <1>1, <1>2, Zenon DEF SourceShape

\* A code that was validated stays so, unless there is more to read.
LEMMA ValidatedKept ==
    ASSUME sources \in Seq(SourceType), Validated, Alike(sources, sources'), CodesKept(sources, sources'),
           whole' = whole, pos' = pos \/ pos # Blocks
    PROVE  Validated'
<1>1. DOMAIN sources = 1 .. Len(sources) /\ DOMAIN sources' = 1 .. Len(sources)
    BY DEF Alike
<1>2. \A i \in 1 .. Len(sources) : sources[i].mdc_validated => whole /\ pos = Blocks
    BY <1>1, Zenon DEF Validated
<1>3. \A i \in 1 .. Len(sources) : sources'[i].mdc_validated => sources[i].mdc_validated \/ (whole /\ pos' = Blocks)
    BY Zenon DEF CodesKept
<1>4. \A i \in DOMAIN sources' : sources'[i].mdc_validated => whole' /\ pos' = Blocks
    BY <1>1, <1>2, <1>3
<1> QED BY <1>4, Zenon DEF Validated

\* Which sources are fed does not change once the list is built.
LEMMA HashedByKept ==
    ASSUME sources \in Seq(SourceType), Alike(sources, sources'), signed_src' = signed_src
    PROVE  HashedBy' = HashedBy
<1>1. DOMAIN sources = 1 .. Len(sources) /\ DOMAIN sources' = 1 .. Len(sources)
    BY DEF Alike
<1>2. \A i \in 1 .. Len(sources) : sources'[i].type = sources[i].type
    BY DEF Alike
<1>3. {i \in DOMAIN sources' : sources'[i].type = "cleartext"}
        = {i \in DOMAIN sources : sources[i].type = "cleartext"}
    BY <1>1, <1>2, Zenon
<1> QED BY <1>3, Zenon DEF HashedBy

\* What a step of the loops that read the data may do.
Reads ==
    /\ pc \in {"reading", "hashing"}
    /\ Alike(sources, sources') /\ CodesKept(sources, sources')
    /\ \A i \in 1 .. Len(sources) : sources'[i].sigs = sources[i].sigs
    /\ pos' = pos \/ pos # Blocks
    /\ pos' \in 0 .. Blocks /\ handed' \in Seq(0 .. Blocks)
    /\ \/ pc' = pc /\ res' = res /\ fi' = fi
       \/ pc' = "finishing" /\ fi' = Len(sources) /\ res' \in {res, "generic", "write"}
    /\ UNCHANGED <<caller, whole, out, cur, syms, packets, signed_src, detached, left, infos, closes>>

\* Such a step keeps the invariant, if the data flow as they should.
LEMMA ReadIInv ==
    ASSUME IInv, Reads, Flow'
    PROVE  IInv'
<1>1. sources \in Seq(SourceType) /\ signed_src \in 0 .. Len(sources) /\ fi \in 0 .. Len(sources)
    BY DEF IInv, TypeOK
<1>2. UNCHANGED <<caller, whole, out, cur, syms, packets, signed_src, detached, left, infos, closes>>
    BY DEF Reads
<1>3. /\ sources' \in Seq(SourceType) /\ Len(sources') = Len(sources)
      /\ DOMAIN sources' = 1 .. Len(sources) /\ Len(sources) \in Nat
    BY <1>1 DEF Reads, Alike
<1>4. /\ pc \in {"reading", "hashing"} /\ res = "success" /\ infos = <<>>
      /\ (pc = "reading" => ~detached) /\ (pc = "hashing" => detached)
      /\ out = (IF detached THEN "none" ELSE "open")
    BY DEF IInv, OutputState, Reads
<1>5. /\ pc' \in {"reading", "hashing", "finishing"} /\ res' \in {"success", "generic", "write"}
      /\ pc' \in {pc, "finishing"} /\ (pc' # "finishing" => res' = "success")
      /\ (pc' = "finishing" => fi' = Len(sources'))
      /\ fi' \in 0 .. Len(sources')
    BY <1>1, <1>3, <1>4 DEF Reads
<1>6. TypeOK'
    <2>1. caller' \in {"stream", "ffi", "bare"} /\ out' \in {"none", "open", "kept", "discarded"}
          /\ pc' \in {"start", "sequence", "keys", "password", "attempt", "signed", "open", "hashing", "reading",
                      "finishing", "signatures", "returned", "done", "crashed"}
        BY <1>2, <1>5 DEF IInv, TypeOK
    <2>2. whole' \in BOOLEAN /\ syms' \in BOOLEAN /\ detached' \in BOOLEAN
        BY <1>2, Zenon DEF IInv, TypeOK
    <2>3. cur' \in SourceType
        BY <1>2, Zenon DEF IInv, TypeOK
    <2>4. signed_src' \in 0 .. Len(sources')
        BY <1>1, <1>2, <1>3
    <2>5. /\ pos' \in 0 .. Blocks /\ handed' \in Seq(0 .. Blocks)
          /\ left' \in 0 .. MaxSigs /\ closes' \in 0 .. 2
        BY <1>2 DEF IInv, TypeOK, Reads
    <2>6. res' \in Results
        BY <1>5 DEF Results
    <2> QED BY <1>3, <1>5, <2>1, <2>2, <2>3, <2>4, <2>5, <2>6, Zenon DEF TypeOK
<1>7. Counted'
    <2>1. closes = 0
        BY <1>4 DEF IInv, Counted
    <2>2. infos' \in Seq(Seq([valid : BOOLEAN, expired : BOOLEAN]))
        BY <1>2, Zenon DEF IInv, Counted
    <2>3. packets' \in 0 .. MaxSigs /\ cur'.onepasses <= packets'
        BY <1>2 DEF IInv, Counted
    <2> QED BY <1>2, <2>1, <2>2, <2>3 DEF Counted
<1>8. Shapes'
    <2>1. \A i \in DOMAIN sources' : SourceShape(sources'[i])
        BY <1>1, ShapesKept DEF IInv, Shapes, Reads
    <2>2. SourceShape(cur') /\ cur'.hashed = <<>> /\ ~cur'.mdc_validated
        BY <1>2 DEF IInv, Shapes
    <2> QED BY <1>5, <2>1, <2>2 DEF Shapes, SourceShape
<1>9. Fresh'
    BY <1>5 DEF Fresh, Building
<1>10. OutputState'
    BY <1>2, <1>4, <1>5 DEF OutputState, Finishing
<1>11. Validated'
    BY <1>1, ValidatedKept DEF IInv, Reads
<1>12. FinishedSound'
    BY <1>3, <1>5 DEF FinishedSound, Finishing
<1>13. Reports'
    <2>1. ASSUME pc' = "finishing" PROVE SignedAfter(fi)' = {}
        BY <1>3, <1>5, <2>1 DEF SignedAfter
    <2>2. Cardinality({}) = 0
        BY FS_EmptySet
    <2>3. infos' = <<>> /\ Len(infos') = 0 /\ DOMAIN infos' = {}
        BY <1>2, <1>4
    <2>4. CASE pc' = "finishing"
        <3>1. SignedAfter(fi)' = {} /\ Cardinality(SignedAfter(fi)') = 0
            BY <2>1, <2>2, <2>4
        <3> QED BY <2>3, <3>1, Zenon DEF Reports
    <2>5. CASE pc' # "finishing"
        BY <1>5, <2>5 DEF Reports, Finishing
    <2> QED BY <2>4, <2>5
<1> QED BY <1>6, <1>7, <1>8, <1>9, <1>10, <1>11, <1>12, <1>13 DEF IInv

\* A list of sources is like itself.
LEMMA SameFacts ==
    ASSUME NEW s \in Seq(SourceType)
    PROVE  Alike(s, s) /\ CodesKept(s, s)
    BY Zenon DEF Alike, CodesKept

\* A block that is read is one of the message or garbage, and not behind its end.
LEMMA BlockFacts ==
    ASSUME IInv, NEW b \in Block
    PROVE  pos < Blocks /\ pos + 1 \in 0 .. Blocks /\ b \in 0 .. Blocks /\ (whole => b = pos + 1)
<1>1. pos \in 0 .. Blocks /\ Blocks \in Nat
    BY ProcessAssumption DEF IInv, TypeOK
<1>2. pos < Blocks
    BY <1>1 DEF Block
<1>3. b = pos + 1 \/ (b = 0 /\ ~whole)
    BY <1>1, <1>2 DEF Block, Garbage
<1> QED BY <1>1, <1>2, <1>3

\* The destination or the data of a detached signature is opened, or not.
LEMMA OpenIInv ==
    ASSUME IInv, OpenFails \/ OpenData,
           UNCHANGED <<msgVars, packets, cur, syms, signed_src, detached, left, infos, closes>>
    PROVE  IInv'
<1>1. UNCHANGED <<caller, whole, packets, cur, syms, signed_src, detached, left, infos, closes,
                  sources, pos, handed, fi>> /\ pc = "open"
    BY DEF msgVars, OpenFails, OpenData
<1>2. /\ out = "none" /\ pos = 0 /\ handed = <<>> /\ infos = <<>>
      /\ \A i \in DOMAIN sources : sources[i].hashed = <<>> /\ ~sources[i].mdc_validated
    BY <1>1 DEF IInv, Fresh, Building
<1>3. \/ pc' = "returned" /\ res' \in {"out_of_memory", "read", "write"} /\ out' = out
      \/ res' = "success" /\ pc' = "hashing" /\ out' = out /\ detached
      \/ res' = "success" /\ pc' = "reading" /\ out' = "open" /\ ~detached
    BY DEF OpenFails, OpenData, Leave
<1>4. TypeOK'
    <2>1. caller' \in {"stream", "ffi", "bare"} /\ out' \in {"none", "open", "kept", "discarded"}
          /\ pc' \in {"start", "sequence", "keys", "password", "attempt", "signed", "open", "hashing", "reading",
                      "finishing", "signatures", "returned", "done", "crashed"}
          /\ res' \in Results
        BY <1>1, <1>3 DEF IInv, TypeOK, Results
    <2>2. whole' \in BOOLEAN /\ syms' \in BOOLEAN /\ detached' \in BOOLEAN
          /\ cur' \in SourceType /\ sources' \in Seq(SourceType)
        BY <1>1, Zenon DEF IInv, TypeOK
    <2>3. /\ signed_src' \in 0 .. Len(sources') /\ fi' \in 0 .. Len(sources')
          /\ pos' \in 0 .. Blocks /\ handed' \in Seq(0 .. Blocks)
          /\ left' \in 0 .. MaxSigs /\ closes' \in 0 .. 2
        BY <1>1 DEF IInv, TypeOK
    <2> QED BY <2>1, <2>2, <2>3, Zenon DEF TypeOK
<1>5. Counted'
    BY <1>1 DEF IInv, Counted
<1>6. Shapes'
    BY <1>1, <1>3 DEF IInv, Shapes, SourceShape
<1>7. Fresh' /\ FinishedSound' /\ Reports'
    BY <1>3 DEF Fresh, FinishedSound, Reports, Building, Finishing
<1>8. OutputState'
    BY <1>1, <1>2, <1>3 DEF OutputState, Finishing
<1>9. Flow' /\ Validated'
    BY <1>1, <1>2 DEF Flow, Validated
<1> QED BY <1>4, <1>5, <1>6, <1>7, <1>8, <1>9 DEF IInv

\* One step of the loops that read the innermost source or the detached data.
LEMMA LoopIInv ==
    ASSUME IInv, ReadFails \/ ReadEnds \/ HashBlock \/ CopyBlock,
           UNCHANGED <<msgVars, packets, cur, syms, signed_src, detached, left, infos, closes>>
    PROVE  IInv'
<1> DEFINE Rest == UNCHANGED <<caller, whole, cur, syms, packets, signed_src, detached, left, infos, closes>>
<1>1. Rest
    BY DEF msgVars
<1>2. sources \in Seq(SourceType) /\ handed \in Seq(0 .. Blocks) /\ pos \in 0 .. Blocks /\ Blocks \in Nat
    BY ProcessAssumption DEF IInv, TypeOK
<1>3. DOMAIN sources = 1 .. Len(sources) /\ Len(sources) \in Nat
    BY <1>2
<1>4. Alike(sources, sources) /\ CodesKept(sources, sources)
    BY <1>2, SameFacts
<1>5. CASE ReadFails
    <2>1. Reads
        BY <1>1, <1>2, <1>4, <1>5 DEF ReadFails, StartFinish, Reads
    <2>2. Flow'
        BY <1>5 DEF ReadFails, Flow
    <2> QED BY <2>1, <2>2, ReadIInv
<1>6. CASE ReadEnds
    <2>1. /\ pc \in {"reading", "hashing"} /\ pc' = "finishing" /\ fi' = Len(sources)
          /\ UNCHANGED <<pos, res, out, handed>>
        BY <1>6 DEF ReadEnds, StartFinish
    <2>2. sources' \in Reached(sources) \/ sources' = sources
        BY <1>6, Zenon DEF ReadEnds
    <2>3. /\ Alike(sources, sources') /\ CodesKept(sources, sources')
          /\ \A i \in 1 .. Len(sources) : sources'[i].sigs = sources[i].sigs /\ sources'[i].hashed = sources[i].hashed
        BY <1>2, <1>4, <2>2, ReachedFacts, Zenon
    <2>4. Reads
        BY <1>1, <1>2, <2>1, <2>3 DEF Reads
    <2>5. Flow'
        <3>1. HashedBy' = HashedBy
            BY <1>1, <1>2, <2>3, HashedByKept
        <3>2. DOMAIN sources' = 1 .. Len(sources)
            BY <2>3 DEF Alike
        <3>3. ASSUME res' = "success", ~detached' PROVE
                /\ Len(handed') = pos' /\ (whole' => \A k \in 1 .. pos' : handed'[k] = k)
                /\ \A i \in DOMAIN sources : sources[i].hashed = IF i \in HashedBy THEN handed ELSE <<>>
            BY <1>1, <2>1, <3>3 DEF IInv, Flow
        <3>4. ASSUME res' = "success", ~detached' PROVE
                \A i \in DOMAIN sources' : sources'[i].hashed = IF i \in HashedBy' THEN handed' ELSE <<>>
            BY <1>3, <2>1, <2>3, <3>1, <3>2, <3>3, <3>4, Zenon
        <3> QED BY <3>3, <3>4, Zenon DEF Flow
    <2> QED BY <2>4, <2>5, ReadIInv
<1>7. CASE HashBlock
    <2>1. PICK b \in Block : sources' = Hash(b)
        BY <1>7 DEF HashBlock
    <2>2. /\ pc = "hashing" /\ pos' = pos + 1 /\ UNCHANGED <<pc, res, out, handed, fi>>
        BY <1>7 DEF HashBlock
    <2>3. pos < Blocks /\ pos + 1 \in 0 .. Blocks /\ b \in 0 .. Blocks
        BY BlockFacts
    <2>4. /\ Alike(sources, sources')
          /\ \A i \in 1 .. Len(sources) : /\ sources'[i].sigs = sources[i].sigs
                                          /\ sources'[i].mdc_validated = sources[i].mdc_validated
        BY <1>2, <2>1, <2>3, HashFacts
    <2>5. Reads
        BY <1>1, <1>2, <2>2, <2>3, <2>4 DEF Reads, CodesKept
    <2>6. Flow'
        BY <1>1, <2>2 DEF IInv, OutputState, Flow
    <2> QED BY <2>5, <2>6, ReadIInv
<1>8. CASE CopyBlock
    <2>1. PICK b \in Block :
             /\ sources' \in Reached(Hash(b))
             /\ \/ handed' = Append(handed, b) /\ UNCHANGED <<pc, res, fi>>
                \/ res' = "write" /\ StartFinish /\ UNCHANGED handed
        BY <1>8 DEF CopyBlock
    <2>2. pc = "reading" /\ pos' = pos + 1 /\ UNCHANGED out
        BY <1>8 DEF CopyBlock
    <2>3. pos < Blocks /\ pos + 1 \in 0 .. Blocks /\ b \in 0 .. Blocks /\ (whole => b = pos + 1)
        BY BlockFacts
    <2>4. PICK h : h = Hash(b)
        OBVIOUS
    <2>5. /\ Alike(sources, h)
          /\ \A i \in 1 .. Len(sources) :
                /\ h[i].sigs = sources[i].sigs
                /\ h[i].mdc_validated = sources[i].mdc_validated
                /\ h[i].hashed = IF i \in HashedBy THEN Append(sources[i].hashed, b)
                                 ELSE sources[i].hashed
        BY <1>2, <2>3, <2>4, HashFacts
    <2>6. h \in Seq(SourceType) /\ Len(h) = Len(sources)
        BY <2>5 DEF Alike
    <2>7. /\ Alike(h, sources') /\ CodesKept(h, sources')
          /\ \A i \in 1 .. Len(h) : sources'[i].sigs = h[i].sigs /\ sources'[i].hashed = h[i].hashed
        BY <2>1, <2>4, <2>6, ReachedFacts
    <2>8. /\ Alike(sources, sources') /\ CodesKept(sources, sources')
          /\ \A i \in 1 .. Len(sources) : sources'[i].sigs = sources[i].sigs
        <3>1. Alike(sources, sources')
            <4>1. \A i \in 1 .. Len(sources) : h[i].type = sources[i].type /\ h[i].has_mdc = sources[i].has_mdc
                BY <2>5 DEF Alike
            <4>2. \A i \in 1 .. Len(sources) : sources'[i].type = h[i].type /\ sources'[i].has_mdc = h[i].has_mdc
                BY <2>6, <2>7 DEF Alike
            <4>3. sources' \in Seq(SourceType) /\ Len(sources') = Len(sources)
                BY <2>6, <2>7 DEF Alike
            <4> QED BY <4>1, <4>2, <4>3, Zenon DEF Alike
        <3>2. CodesKept(sources, sources')
            BY <2>5, <2>6, <2>7, Zenon DEF CodesKept
        <3>3. \A i \in 1 .. Len(sources) : sources'[i].sigs = sources[i].sigs
            BY <2>5, <2>6, <2>7, Zenon
        <3> QED BY <3>1, <3>2, <3>3
    <2>9. Reads
        <3>1. handed' \in Seq(0 .. Blocks)
            BY <1>2, <2>1, <2>3
        <3>2. \/ pc' = pc /\ res' = res /\ fi' = fi
              \/ pc' = "finishing" /\ fi' = Len(sources) /\ res' = "write"
            BY <2>1 DEF StartFinish
        <3>3. pos # Blocks /\ pos' \in 0 .. Blocks
            BY <1>2, <2>2, <2>3
        <3> QED BY <1>1, <2>2, <2>8, <3>1, <3>2, <3>3 DEF Reads
    <2>10. Flow'
        <3>1. CASE res' = "success" /\ ~detached'
            <4>1. handed' = Append(handed, b) /\ res = "success" /\ ~detached
                BY <1>1, <2>1, <3>1
            <4>2. /\ Len(handed) = pos /\ (whole => \A k \in 1 .. pos : handed[k] = k)
                  /\ \A i \in DOMAIN sources : sources[i].hashed = IF i \in HashedBy THEN handed ELSE <<>>
                BY <4>1 DEF IInv, Flow
            <4>3. Len(handed') = pos' /\ (whole' => \A k \in 1 .. pos' : handed'[k] = k)
                BY <1>1, <1>2, <2>2, <2>3, <4>1, <4>2
            <4>4. HashedBy' = HashedBy
                BY <1>1, <1>2, <2>8, HashedByKept
            <4>5. DOMAIN sources' = 1 .. Len(sources)
                BY <2>8 DEF Alike
            <4>6. \A i \in DOMAIN sources' : sources'[i].hashed = IF i \in HashedBy' THEN handed' ELSE <<>>
                BY <1>3, <2>5, <2>6, <2>7, <4>1, <4>2, <4>4, <4>5, Zenon
            <4> QED BY <4>3, <4>6, Zenon DEF Flow
        <3>2. CASE ~(res' = "success" /\ ~detached')
            BY <3>2, Zenon DEF Flow
        <3> QED BY <3>1, <3>2
    <2> QED BY <2>9, <2>10, ReadIInv
<1> QED BY <1>5, <1>6, <1>7, <1>8

-----------------------------------------------------------------------------
\* The sources of the list s after the n-th that carry signatures.
Signed(s, n) == {i \in DOMAIN s : i > n /\ s[i].type \in {"signed", "cleartext"}}

\* They are finitely many.
LEMMA SignedFinite ==
    ASSUME NEW s \in Seq(SourceType), NEW n
    PROVE  IsFiniteSet(Signed(s, n)) /\ Cardinality(Signed(s, n)) \in Nat
<1>1. Len(s) \in Nat /\ DOMAIN s = 1 .. Len(s)
    OBVIOUS
<1>2. IsFiniteSet(1 .. Len(s))
    BY <1>1, FS_Interval
<1>3. Signed(s, n) \subseteq 1 .. Len(s)
    BY <1>1, Zenon DEF Signed
<1>4. IsFiniteSet(Signed(s, n))
    BY <1>2, <1>3, FS_Subset
<1> QED BY <1>4, FS_CardinalityType

\* One more of them, or not.
LEMMA SignedStep ==
    ASSUME NEW s \in Seq(SourceType), NEW n \in 1 .. Len(s)
    PROVE  /\ s[n].type \notin {"signed", "cleartext"} => Signed(s, n - 1) = Signed(s, n)
           /\ s[n].type \in {"signed", "cleartext"} =>
                /\ Signed(s, n - 1) = Signed(s, n) \cup {n}
                /\ Cardinality(Signed(s, n - 1)) = Cardinality(Signed(s, n)) + 1
<1>1. Len(s) \in Nat /\ DOMAIN s = 1 .. Len(s) /\ n \in DOMAIN s
    OBVIOUS
<1>2. \A i \in DOMAIN s : i > n - 1 <=> i > n \/ i = n
    BY <1>1
<1>3. CASE s[n].type \notin {"signed", "cleartext"}
    BY <1>1, <1>2, <1>3 DEF Signed
<1>4. CASE s[n].type \in {"signed", "cleartext"}
    <2>1. Signed(s, n - 1) = Signed(s, n) \cup {n}
        BY <1>1, <1>2, <1>4 DEF Signed
    <2>2. n \notin Signed(s, n)
        BY <1>1 DEF Signed
    <2>3. IsFiniteSet(Signed(s, n)) /\ Cardinality(Signed(s, n)) \in Nat
        BY SignedFinite
    <2> QED BY <1>4, <2>1, <2>2, <2>3, FS_AddElement
<1> QED BY <1>3, <1>4

\* At most the sources after a later one are counted: the reports of the sources
\* that are finished come before a new one.
LEMMA SignedFewer ==
    ASSUME NEW s \in Seq(SourceType), NEW n \in Int, NEW i \in Signed(s, n)
    PROVE  Cardinality(Signed(s, i - 1)) \in 1 .. Cardinality(Signed(s, n))
<1>1. Len(s) \in Nat /\ DOMAIN s = 1 .. Len(s) /\ i \in DOMAIN s /\ i > n
      /\ s[i].type \in {"signed", "cleartext"}
    BY DEF Signed
<1>2. Signed(s, i - 1) \subseteq Signed(s, n)
    BY <1>1 DEF Signed
<1>3. IsFiniteSet(Signed(s, n)) /\ Cardinality(Signed(s, n)) \in Nat
      /\ IsFiniteSet(Signed(s, i)) /\ Cardinality(Signed(s, i)) \in Nat
    BY SignedFinite
<1>4. Cardinality(Signed(s, i - 1)) <= Cardinality(Signed(s, n))
    BY <1>2, <1>3, FS_Subset
<1>5. Cardinality(Signed(s, i - 1)) = Cardinality(Signed(s, i)) + 1
    BY <1>1, SignedStep
<1> QED BY <1>3, <1>4, <1>5

\* The lists of sources that are alike have their signed sources in the same places.
LEMMA SignedAlike ==
    ASSUME NEW s \in Seq(SourceType), NEW t, Alike(s, t), NEW n
    PROVE  Signed(t, n) = Signed(s, n)
<1>1. DOMAIN s = 1 .. Len(s) /\ DOMAIN t = 1 .. Len(s)
    BY DEF Alike
<1>2. \A i \in 1 .. Len(s) : t[i].type = s[i].type
    BY DEF Alike
<1> QED BY <1>1, <1>2, Zenon DEF Signed

\* The reports rs are those of the signed sources of s after the n-th, and good.
ReportsOf(s, n, rs) ==
    /\ Len(rs) = Cardinality(Signed(s, n))
    /\ \A i \in Signed(s, n) : Len(rs[Cardinality(Signed(s, i - 1))]) = Len(s[i].sigs)
    /\ \A k \in DOMAIN rs : \A j \in DOMAIN rs[k] : rs[k][j].valid /\ ~rs[k][j].expired

\* So the invariant says it.
LEMMA ReportsAre ==
    Reports <=> ((res = "success" /\ (Finishing \/ pc \in {"returned", "done"})) => ReportsOf(sources, fi, infos))
    BY Zenon DEF Reports, ReportsOf, Signed, SignedAfter

SigInfos == Seq([valid : BOOLEAN, expired : BOOLEAN])

\* A list of good reports of a source that is added to the others.
LEMMA ReportsAdded ==
    ASSUME NEW s \in Seq(SourceType), NEW n \in 1 .. Len(s), s[n].type \in {"signed", "cleartext"},
           NEW rs \in Seq(SigInfos), ReportsOf(s, n, rs),
           NEW is \in SigInfos, Len(is) = Len(s[n].sigs),
           \A j \in DOMAIN is : is[j].valid /\ ~is[j].expired
    PROVE  ReportsOf(s, n - 1, Append(rs, is))
<1> DEFINE new == Append(rs, is)
<1> DEFINE c == Cardinality(Signed(s, n))
<1>1. /\ Signed(s, n - 1) = Signed(s, n) \cup {n}
      /\ Cardinality(Signed(s, n - 1)) = c + 1
    BY SignedStep
<1>2. c \in Nat /\ Len(rs) = c
    BY SignedFinite DEF ReportsOf
<1>3. new \in Seq(SigInfos) /\ Len(new) = c + 1 /\ new[c + 1] = is /\ \A k \in 1 .. c : new[k] = rs[k]
    BY <1>2
<1>4. DOMAIN new = 1 .. c + 1 /\ DOMAIN rs = 1 .. c
    BY <1>2, <1>3
<1> HIDE DEF new
<1>5. ASSUME NEW i \in Signed(s, n - 1)
      PROVE  Len(new[Cardinality(Signed(s, i - 1))]) = Len(s[i].sigs)
    <2>1. CASE i = n
        BY <1>1, <1>3, <2>1
    <2>2. CASE i # n
        <3>1. i \in Signed(s, n)
            BY <1>1, <2>2
        <3>2. Cardinality(Signed(s, i - 1)) \in 1 .. c
            BY <3>1, SignedFewer
        <3>3. Len(rs[Cardinality(Signed(s, i - 1))]) = Len(s[i].sigs)
            BY <3>1, Zenon DEF ReportsOf
        <3> QED BY <1>3, <3>2, <3>3
    <2> QED BY <2>1, <2>2
<1>6. ASSUME NEW k \in DOMAIN new PROVE \A j \in DOMAIN new[k] : new[k][j].valid /\ ~new[k][j].expired
    <2>1. CASE k = c + 1
        BY <1>3, <2>1
    <2>2. CASE k # c + 1
        <3>1. k \in DOMAIN rs /\ new[k] = rs[k]
            BY <1>2, <1>3, <1>4, <2>2
        <3> QED BY <3>1, Zenon DEF ReportsOf
    <2> QED BY <2>1, <2>2
<1>7. ReportsOf(s, n - 1, new)
    BY <1>1, <1>3, <1>5, <1>6, Zenon DEF ReportsOf
<1> QED BY <1>7 DEF new

\* The source fi is finished with success: it is in order, and if it is signed
\* its good signatures were reported.
GoodFinish ==
    /\ sources[fi].has_mdc => sources[fi].mdc_validated
    /\ \A j \in DOMAIN sources[fi].sigs : sources[fi].sigs[j] = "good" /\ sources[fi].hashed = Data
    /\ \/ sources[fi].type \notin {"signed", "cleartext"} /\ infos' = infos
       \/ /\ sources[fi].type \in {"signed", "cleartext"}
          /\ \E is \in SigInfos :
                /\ infos' = Append(infos, is) /\ Len(is) = Len(sources[fi].sigs)
                /\ \A j \in DOMAIN is : is[j].valid /\ ~is[j].expired

\* What a step that finishes sources may do.
Finishes ==
    /\ Finishing /\ fi \in 1 .. Len(sources)
    /\ Alike(sources, sources') /\ CodesKept(sources, sources')
    /\ \A i \in 1 .. Len(sources) : sources'[i].hashed = sources[i].hashed
    /\ \A i \in 1 .. Len(sources) : i # fi => sources'[i].sigs = sources[i].sigs
    /\ \/ /\ pc' \in {"signatures", "crashed"} /\ fi' = fi /\ res' = res /\ infos' = infos
          /\ sources[fi].type \in {"signed", "cleartext"}
       \/ /\ pc' = "finishing" /\ fi' = fi - 1
          /\ sources'[fi].sigs = sources[fi].sigs
          /\ res' \in Results
          /\ res' = "success" => res = "success" /\ GoodFinish
    /\ infos' \in Seq(SigInfos) /\ left' \in 0 .. MaxSigs
    /\ UNCHANGED <<caller, whole, packets, cur, syms, signed_src, detached, pos, out, handed, closes>>

\* Such a step keeps the invariant.
LEMMA FinishIInv ==
    ASSUME IInv, Finishes
    PROVE  IInv'
<1>1. sources \in Seq(SourceType) /\ signed_src \in 0 .. Len(sources) /\ fi \in 1 .. Len(sources)
      /\ infos \in Seq(SigInfos) /\ res \in Results
    BY DEF IInv, TypeOK, Finishes, Counted, SigInfos
<1>2. UNCHANGED <<caller, whole, packets, cur, syms, signed_src, detached, pos, out, handed, closes>>
    BY DEF Finishes
<1>3. /\ sources' \in Seq(SourceType) /\ Len(sources') = Len(sources)
      /\ DOMAIN sources' = 1 .. Len(sources) /\ Len(sources) \in Nat /\ DOMAIN sources = 1 .. Len(sources)
    BY <1>1 DEF Finishes, Alike
<1>4. Finishing /\ pc' \in {"finishing", "signatures", "crashed"} /\ res' \in Results
      /\ fi' \in 0 .. Len(sources') /\ (res' = "success" => res = "success")
    BY <1>1, <1>3 DEF Finishes
<1>5. /\ Alike(sources, sources') /\ CodesKept(sources, sources')
      /\ \A i \in 1 .. Len(sources) : sources'[i].hashed = sources[i].hashed
      /\ \A i \in 1 .. Len(sources) : i # fi => sources'[i].sigs = sources[i].sigs
    BY DEF Finishes
<1>6. TypeOK'
    <2>1. caller' \in {"stream", "ffi", "bare"} /\ out' \in {"none", "open", "kept", "discarded"}
          /\ pc' \in {"start", "sequence", "keys", "password", "attempt", "signed", "open", "hashing", "reading",
                      "finishing", "signatures", "returned", "done", "crashed"}
        BY <1>2, <1>4 DEF IInv, TypeOK
    <2>2. whole' \in BOOLEAN /\ syms' \in BOOLEAN /\ detached' \in BOOLEAN
        BY <1>2, Zenon DEF IInv, TypeOK
    <2>3. cur' \in SourceType
        BY <1>2, Zenon DEF IInv, TypeOK
    <2>4. signed_src' \in 0 .. Len(sources')
        BY <1>1, <1>2, <1>3
    <2>5. /\ pos' \in 0 .. Blocks /\ handed' \in Seq(0 .. Blocks)
          /\ left' \in 0 .. MaxSigs /\ closes' \in 0 .. 2
        BY <1>2 DEF IInv, TypeOK, Finishes
    <2> QED BY <1>3, <1>4, <2>1, <2>2, <2>3, <2>4, <2>5, Zenon DEF TypeOK
<1>7. Counted'
    <2>1. closes = 0
        BY <1>4 DEF IInv, Counted, Finishing
    <2>2. infos' \in Seq(Seq([valid : BOOLEAN, expired : BOOLEAN]))
        BY Zenon DEF Finishes, SigInfos
    <2>3. packets' \in 0 .. MaxSigs /\ cur'.onepasses <= packets'
        BY <1>2 DEF IInv, Counted
    <2> QED BY <1>2, <2>1, <2>2, <2>3 DEF Counted
<1>8. Shapes'
    <2>1. \A i \in 1 .. Len(sources) :
             sources'[i].sigs = sources[i].sigs \/ sources[i].type \in {"signed", "cleartext"}
        BY <1>5 DEF Finishes
    <2>2. \A i \in DOMAIN sources' : SourceShape(sources'[i])
        BY <1>1, <1>5, <2>1, ShapesKept DEF IInv, Shapes
    <2>3. SourceShape(cur') /\ cur'.hashed = <<>> /\ ~cur'.mdc_validated
        BY <1>2 DEF IInv, Shapes
    <2> QED BY <1>4, <2>2, <2>3 DEF Shapes, SourceShape
<1>9. Fresh'
    BY <1>4 DEF Fresh, Building
<1>10. OutputState'
    BY <1>2, <1>4 DEF IInv, OutputState, Finishing
<1>11. Validated'
    BY <1>1, <1>2, <1>5, ValidatedKept DEF IInv
<1>12. Flow'
    <2>1. HashedBy' = HashedBy
        BY <1>1, <1>2, <1>5, HashedByKept
    <2>2. CASE res' = "success" /\ ~detached'
        <3>1. /\ Len(handed) = pos /\ (whole => \A k \in 1 .. pos : handed[k] = k)
              /\ \A i \in DOMAIN sources : sources[i].hashed = IF i \in HashedBy THEN handed ELSE <<>>
            BY <1>2, <1>4, <2>2 DEF IInv, Flow
        <3>2. \A i \in DOMAIN sources' : sources'[i].hashed = IF i \in HashedBy' THEN handed' ELSE <<>>
            BY <1>2, <1>3, <1>5, <2>1, <3>1, Zenon
        <3> QED BY <1>2, <3>1, <3>2, Zenon DEF Flow
    <2>3. CASE ~(res' = "success" /\ ~detached')
        BY <2>3, Zenon DEF Flow
    <2> QED BY <2>2, <2>3
<1>13. FinishedSound'
    <2>1. pc' = "signatures" => fi' > 0 /\ sources'[fi'].type \in {"signed", "cleartext"}
        BY <1>1, <1>5 DEF Finishes, Alike
    <2>2. ASSUME res' = "success", NEW i \in DOMAIN sources', i > fi'
          PROVE  FinishedOK(i)'
        <3>1. i \in 1 .. Len(sources) /\ sources'[i].has_mdc = sources[i].has_mdc
              /\ sources'[i].hashed = sources[i].hashed
              /\ (sources[i].mdc_validated => sources'[i].mdc_validated)
            BY <1>3, <1>5 DEF Alike, CodesKept
        <3>2. sources'[i].sigs = sources[i].sigs /\ FinishedOK(i)
            <4>1. CASE i > fi
                BY <1>1, <1>3, <1>4, <1>5, <2>2, <3>1, <4>1 DEF IInv, FinishedSound
            <4>2. CASE ~(i > fi)
                <5>1. i = fi /\ sources'[fi].sigs = sources[fi].sigs /\ GoodFinish
                    BY <1>1, <2>2, <3>1, <4>2 DEF Finishes
                <5> QED BY <5>1, Zenon DEF GoodFinish, FinishedOK
            <4> QED BY <4>1, <4>2
        <3> QED BY <3>1, <3>2, Zenon DEF FinishedOK
    <2> QED BY <1>4, <2>1, <2>2 DEF FinishedSound, Finishing
<1>14. Reports'
    <2>1. CASE res' = "success"
        <3>1. ReportsOf(sources, fi, infos)
            BY <1>4, <2>1, ReportsAre DEF IInv
        <3>2. \A n : Signed(sources', n) = Signed(sources, n)
            BY <1>1, <1>5, SignedAlike
        <3>3. ReportsOf(sources, fi', infos')
            <4>1. CASE pc' \in {"signatures", "crashed"} /\ fi' = fi /\ infos' = infos
                BY <3>1, <4>1
            <4>2. CASE pc' = "finishing" /\ fi' = fi - 1 /\ GoodFinish
                <5>1. CASE sources[fi].type \notin {"signed", "cleartext"} /\ infos' = infos
                    <6>1. Signed(sources, fi - 1) = Signed(sources, fi)
                        BY <1>1, <5>1, SignedStep
                    <6> QED BY <3>1, <4>2, <5>1, <6>1, Zenon DEF ReportsOf
                <5>2. ASSUME sources[fi].type \in {"signed", "cleartext"}, NEW is \in SigInfos,
                             infos' = Append(infos, is), Len(is) = Len(sources[fi].sigs),
                             \A j \in DOMAIN is : is[j].valid /\ ~is[j].expired
                      PROVE  ReportsOf(sources, fi', infos')
                    BY <1>1, <3>1, <4>2, <5>2, ReportsAdded
                <5> QED BY <4>2, <5>1, <5>2, Zenon DEF GoodFinish
            <4> QED BY <2>1, <4>1, <4>2 DEF Finishes
        <3>4. \A i \in Signed(sources, fi') : sources'[i].sigs = sources[i].sigs
            <4> SUFFICES ASSUME NEW i \in Signed(sources, fi') PROVE sources'[i].sigs = sources[i].sigs
                OBVIOUS
            <4>1. i \in 1 .. Len(sources) /\ i > fi'
                BY <1>3 DEF Signed
            <4>2. CASE i # fi
                BY <1>5, <4>1, <4>2
            <4>3. CASE i = fi
                BY <1>1, <4>1, <4>3 DEF Finishes
            <4> QED BY <4>2, <4>3
        <3>5. ReportsOf(sources', fi', infos')
            BY <3>2, <3>3, <3>4, Zenon DEF ReportsOf
        <3> QED BY <3>5, Zenon DEF Reports, ReportsOf, Signed, SignedAfter
    <2>2. CASE res' # "success"
        BY <2>2 DEF Reports
    <2> QED BY <2>1, <2>2
<1> QED BY <1>6, <1>7, <1>8, <1>9, <1>10, <1>11, <1>12, <1>13, <1>14 DEF IInv

\* The parts of the state FinishAll leaves alone.
FinishRest == UNCHANGED <<caller, whole, packets, cur, syms, signed_src, detached, pos, out, handed, closes>>

\* Facts of the invariant the steps of finishing start from.
LEMMA FinishFrom ==
    ASSUME IInv, Finishing, fi > 0
    PROVE  /\ sources \in Seq(SourceType) /\ fi \in 1 .. Len(sources) /\ Len(sources) \in Nat
           /\ sources[fi] \in SourceType /\ SourceShape(sources[fi])
           /\ res \in Results /\ infos \in Seq(SigInfos) /\ left \in 0 .. MaxSigs
           /\ Alike(sources, sources) /\ CodesKept(sources, sources)
<1>1. sources \in Seq(SourceType) /\ fi \in 0 .. Len(sources) /\ res \in Results /\ left \in 0 .. MaxSigs
    BY DEF IInv, TypeOK
<1>2. infos \in Seq(SigInfos)
    BY Zenon DEF IInv, Counted, SigInfos
<1>3. Len(sources) \in Nat /\ fi \in 1 .. Len(sources) /\ fi \in DOMAIN sources
    BY <1>1
<1>4. sources[fi] \in SourceType /\ SourceShape(sources[fi])
    BY <1>1, <1>3 DEF IInv, Shapes
<1> QED BY <1>1, <1>2, <1>3, <1>4, SameFacts

\* src_finish fails: an error takes the place of what was read.
LEMMA FailedFinish ==
    ASSUME IInv, Finishing, fi > 0, FinishRest,
           NEW r \in Results \ {"success"}, Finished(r),
           Alike(sources, sources'), CodesKept(sources, sources'),
           \A i \in 1 .. Len(sources) : sources'[i].hashed = sources[i].hashed /\ sources'[i].sigs = sources[i].sigs,
           infos' = infos, left' = left
    PROVE  Finishes
<1>1. pc' = "finishing" /\ fi' = fi - 1 /\ res' = r
    BY DEF Finished, PrevSource, Combined
<1> QED BY <1>1, FinishFrom DEF Finishes, FinishRest

\* A source that has no signatures is finished.
LEMMA SourceFinishes ==
    ASSUME IInv, FinishSource, FinishRest
    PROVE  Finishes
<1>1. /\ Finishing /\ fi > 0 /\ sources[fi].type \notin {"signed", "cleartext"}
      /\ UNCHANGED <<sources, left, infos>>
    BY DEF FinishSource, Finishing
<1>2. Finished(IF MdcMissing(sources[fi]) THEN "bad_state" ELSE "success")
    BY DEF FinishSource
<1>3. CASE MdcMissing(sources[fi])
    BY <1>1, <1>2, <1>3, FinishFrom, FailedFinish DEF Results
<1>4. CASE ~MdcMissing(sources[fi])
    <2>1. pc' = "finishing" /\ fi' = fi - 1 /\ res' = res
        BY <1>2, <1>4 DEF Finished, PrevSource, Combined
    <2>2. sources[fi].has_mdc => sources[fi].mdc_validated
        BY <1>4, Zenon DEF MdcMissing
    <2>3. sources[fi].sigs = <<>>
        BY <1>1, FinishFrom DEF SourceShape
    <2>4. GoodFinish
        BY <1>1, <2>2, <2>3 DEF GoodFinish
    <2> QED BY <1>1, <2>1, <2>4, FinishFrom DEF Finishes, FinishRest
<1> QED BY <1>3, <1>4

\* The signatures behind the data are read, or announced and missing.
LEMMA ReadingFinishes ==
    ASSUME IInv, FinishSigned \/ SignatureMissing \/ ReadSignature, FinishRest
    PROVE  Finishes
<1>1. Finishing /\ fi > 0 /\ sources[fi].type \in {"signed", "cleartext"}
    BY DEF IInv, FinishedSound, FinishSigned, SignatureMissing, ReadSignature, Finishing
<1>2. CASE FinishSigned
    <2>1. UNCHANGED <<sources, infos>>
        BY <1>2 DEF FinishSigned
    <2>2. CASE /\ pc' = "signatures"
               /\ left' = IF sources[fi].type = "signed" THEN sources[fi].onepasses ELSE MaxSigs
               /\ UNCHANGED <<fi, res>>
        <3>1. sources[fi].onepasses \in 0 .. MaxSigs
            BY <1>1, FinishFrom DEF SourceType
        <3>2. left' \in 0 .. MaxSigs
            BY <2>2, <3>1, ProcessAssumption
        <3> QED BY <1>1, <2>1, <2>2, <3>2, FinishFrom DEF Finishes, FinishRest
    <2>3. CASE Finished("bad_format") /\ UNCHANGED left
        BY <1>1, <2>1, <2>3, FinishFrom, FailedFinish DEF Results
    <2> QED BY <1>2, <2>2, <2>3 DEF FinishSigned
<1>3. CASE SignatureMissing
    BY <1>1, <1>3, FinishFrom, FailedFinish DEF SignatureMissing, Results
<1>4. CASE ReadSignature
    <2>1. PICK k \in SigKinds :
             /\ pc' = (IF k = "unparsable" /\ sources[fi].type = "signed" THEN "crashed" ELSE pc)
             /\ sources' \in Reached([sources EXCEPT ![fi].sigs = Append(@, k)])
        BY <1>4, Zenon DEF ReadSignature
    <2>2. pc = "signatures" /\ left > 0 /\ left' = left - 1 /\ UNCHANGED <<fi, res, infos>>
        BY <1>4 DEF ReadSignature
    <2>3. PICK t :
             /\ t = [sources EXCEPT ![fi].sigs = Append(@, k)]
             /\ Alike(sources, t)
             /\ \A i \in 1 .. Len(sources) :
                  /\ t[i].hashed = sources[i].hashed
                  /\ t[i].mdc_validated = sources[i].mdc_validated
                  /\ i # fi => t[i].sigs = sources[i].sigs
        BY <1>1, FinishFrom, SigFacts
    <2>4. t \in Seq(SourceType) /\ Len(t) = Len(sources)
        BY <2>3, Zenon DEF Alike
    <2>5. sources' \in Reached(t)
        BY <2>1, <2>3, Zenon
    <2>6. /\ Alike(t, sources') /\ CodesKept(t, sources')
          /\ \A i \in 1 .. Len(t) : sources'[i].sigs = t[i].sigs /\ sources'[i].hashed = t[i].hashed
        BY <2>4, <2>5, ReachedFacts
    <2>7. Alike(sources, sources')
        <3>1. \A i \in 1 .. Len(sources) : t[i].type = sources[i].type /\ t[i].has_mdc = sources[i].has_mdc
            BY <2>3, Zenon DEF Alike
        <3>2. \A i \in 1 .. Len(sources) : sources'[i].type = t[i].type /\ sources'[i].has_mdc = t[i].has_mdc
            BY <2>4, <2>6, Zenon DEF Alike
        <3>3. sources' \in Seq(SourceType) /\ Len(sources') = Len(sources)
            BY <2>4, <2>6, Zenon DEF Alike
        <3> QED BY <3>1, <3>2, <3>3, Zenon DEF Alike
    <2>8. CodesKept(sources, sources')
        BY <2>3, <2>4, <2>6, Zenon DEF CodesKept
    <2>9. \A i \in 1 .. Len(sources) : /\ sources'[i].hashed = sources[i].hashed
                                       /\ i # fi => sources'[i].sigs = sources[i].sigs
        BY <2>3, <2>4, <2>6, Zenon
    <2>10. left' \in 0 .. MaxSigs /\ pc' \in {"signatures", "crashed"}
        BY <1>1, <2>1, <2>2, FinishFrom, ProcessAssumption
    <2>11. fi \in 1 .. Len(sources) /\ infos' \in Seq(SigInfos) /\ fi' = fi /\ res' = res /\ infos' = infos
        BY <1>1, <2>2, FinishFrom
    <2> QED BY <1>1, <2>7, <2>8, <2>9, <2>10, <2>11 DEF Finishes, FinishRest
<1> QED BY <1>2, <1>3, <1>4

\* All signatures are read: the results are found, combined and reported.
LEMMA ValidateFinishes ==
    ASSUME IInv, ValidateSignatures, FinishRest
    PROVE  Finishes
<1> DEFINE s == sources[fi]
<1> DEFINE is == [i \in DOMAIN s.sigs |-> Info(s, s.sigs[i])]
<1>1. /\ Finishing /\ fi > 0 /\ pc = "signatures" /\ left' = left /\ s.type \in {"signed", "cleartext"}
    BY DEF IInv, FinishedSound, ValidateSignatures, Finishing
<1>2. sources' \in Reached(sources)
    BY Zenon DEF ValidateSignatures
<1>3. /\ Alike(sources, sources') /\ CodesKept(sources, sources')
      /\ \A i \in 1 .. Len(sources) : sources'[i].sigs = sources[i].sigs /\ sources'[i].hashed = sources[i].hashed
    BY <1>1, <1>2, FinishFrom, ReachedFacts
<1>4. s.sigs \in Seq(SigKinds) /\ SourceShape(s)
    BY <1>1, FinishFrom DEF SourceType
<1>5. \/ infos' = Append(infos, is) /\ Finished(SignedResult(is))
      \/ Finished("out_of_memory") /\ UNCHANGED infos
    BY Zenon DEF ValidateSignatures, Reported
<1>6. is \in SigInfos /\ Len(is) = Len(s.sigs) /\ DOMAIN is = DOMAIN s.sigs
    <2>1. \A i \in DOMAIN s.sigs : Info(s, s.sigs[i]) \in [valid : BOOLEAN, expired : BOOLEAN]
        BY Zenon DEF Info
    <2>2. DOMAIN s.sigs = 1 .. Len(s.sigs) /\ Len(s.sigs) \in Nat
        BY <1>4
    <2> HIDE DEF s
    <2>3. PICK n \in Nat : n = Len(s.sigs)
        BY <2>2
    <2>6. is = [i \in 1 .. n |-> is[i]]
        BY <2>2, <2>3, Zenon
    <2>7. \A i \in 1 .. n : is[i] \in [valid : BOOLEAN, expired : BOOLEAN]
        BY <2>1, <2>2, <2>3, Zenon
    <2> HIDE DEF is
    <2>4. is \in Seq([valid : BOOLEAN, expired : BOOLEAN]) /\ Len(is) = Len(s.sigs)
        <3> DEFINE T == [valid : BOOLEAN, expired : BOOLEAN]
        <3>1. \A i \in 1 .. n : is[i] \in T
            BY <2>7
        <3> HIDE DEF T
        <3>2. is \in Seq(T) /\ Len(is) = n
            BY <2>6, <3>1, FunIsSeq
        <3> QED BY <2>3, <3>2 DEF T
    <2>5. DOMAIN is = DOMAIN s.sigs
        BY <2>2, <2>4
    <2> QED BY <2>4, <2>5, Zenon DEF SigInfos
<1>7. CASE Finished("out_of_memory") /\ UNCHANGED infos
    BY <1>1, <1>3, <1>7, FailedFinish DEF Results
<1>8. CASE infos' = Append(infos, is) /\ Finished(SignedResult(is))
    <2>1. pc' = "finishing" /\ fi' = fi - 1 /\ res' \in Results
        BY <1>1, <1>8, FinishFrom DEF Finished, PrevSource, Combined, SignedResult, Results
    <2>2. ASSUME res' = "success" PROVE res = "success" /\ GoodFinish
        <3>1. res = "success" /\ SignedResult(is) = "success"
            BY <1>8, <2>2 DEF Finished, Combined
        <3>2. \A j \in DOMAIN is : is[j].valid /\ ~is[j].expired
            BY <3>1 DEF SignedResult
        <3>3. ASSUME NEW j \in DOMAIN s.sigs PROVE s.sigs[j] = "good" /\ s.hashed = Data
            <4>1. is[j] = Info(s, s.sigs[j]) /\ is[j].valid /\ ~is[j].expired
                BY <1>6, <3>2, Zenon
            <4>2. s.sigs[j] \in {"good", "expired"} /\ s.hashed = Data /\ s.sigs[j] # "expired"
                BY <4>1, Zenon DEF Info
            <4> QED BY <4>2
        <3>4. ~s.has_mdc
            BY <1>1, <1>4 DEF SourceShape
        <3> HIDE DEF is
        <3> QED BY <1>1, <1>6, <1>8, <3>1, <3>2, <3>3, <3>4, Zenon DEF GoodFinish
    <2>3. infos' \in Seq(SigInfos)
        BY <1>1, <1>6, <1>8, FinishFrom
    <2> HIDE DEF is, s
    <2>4. fi \in 1 .. Len(sources) /\ left' \in 0 .. MaxSigs
        BY <1>1, FinishFrom
    <2> QED BY <1>1, <1>3, <2>1, <2>2, <2>3, <2>4 DEF Finishes, FinishRest
<1> QED BY <1>5, <1>7, <1>8

-----------------------------------------------------------------------------
\* The output is closed and the caller returns.
LEMMA CloseIInv ==
    ASSUME IInv, CloseAll
    PROVE  IInv'
<1>1. UNCHANGED <<caller, whole, packets, sources, cur, syms, signed_src, detached, pos, handed, fi,
                  left, infos, res>>
    BY DEF CloseAll, msgVars, seqVars, CloseOutput, CallerReturns
<1>2. \/ /\ pc = "finishing" /\ fi = 0 /\ pc' = "returned"
         /\ IF detached THEN UNCHANGED <<out, closes>>
            ELSE out' = (IF res # "success" THEN "discarded" ELSE "kept") /\ closes' = closes + 1
      \/ /\ pc = "returned" /\ pc' = "done"
         /\ \/ UNCHANGED <<out, closes>>
            \/ res # "success" /\ out' = "discarded" /\ closes' = closes + 1
    BY DEF CloseAll, CloseOutput, CallerReturns, Discard
<1>3. /\ pc = "finishing" => closes = 0
      /\ pc = "returned" => closes \in 0 .. 1
    BY DEF IInv, TypeOK, Counted
<1>4. TypeOK'
    <2>1. caller' \in {"stream", "ffi", "bare"} /\ res' \in Results
          /\ pc' \in {"start", "sequence", "keys", "password", "attempt", "signed", "open", "hashing", "reading",
                      "finishing", "signatures", "returned", "done", "crashed"}
        BY <1>1, <1>2 DEF IInv, TypeOK
    <2>2. whole' \in BOOLEAN /\ syms' \in BOOLEAN /\ detached' \in BOOLEAN
          /\ cur' \in SourceType /\ sources' \in Seq(SourceType)
        BY <1>1, Zenon DEF IInv, TypeOK
    <2>3. /\ signed_src' \in 0 .. Len(sources') /\ fi' \in 0 .. Len(sources')
          /\ pos' \in 0 .. Blocks /\ handed' \in Seq(0 .. Blocks) /\ left' \in 0 .. MaxSigs
        BY <1>1 DEF IInv, TypeOK
    <2>4. closes' \in 0 .. 2 /\ out' \in {"none", "open", "kept", "discarded"}
        BY <1>2, <1>3 DEF IInv, TypeOK
    <2> QED BY <2>1, <2>2, <2>3, <2>4, Zenon DEF TypeOK
<1>5. Counted'
    <2>1. infos' \in Seq(Seq([valid : BOOLEAN, expired : BOOLEAN]))
        BY <1>1, Zenon DEF IInv, Counted
    <2>2. packets' \in 0 .. MaxSigs /\ cur'.onepasses <= packets'
        BY <1>1 DEF IInv, Counted
    <2>3. pc' \in {"returned", "done"} /\ (pc' = "returned" => closes' <= 1)
        BY <1>2, <1>3
    <2> QED BY <2>1, <2>2, <2>3 DEF Counted
<1>6. Shapes'
    BY <1>1, <1>2 DEF IInv, Shapes, SourceShape
<1>7. Fresh'
    BY <1>2 DEF Fresh, Building
<1>8. OutputState'
    <2>1. pc' \in {"returned", "done"}
        BY <1>2
    <2>2. CASE pc = "finishing"
        <3>1. out = (IF detached THEN "none" ELSE "open") /\ detached' = detached /\ res' = res
            BY <1>1, <2>2 DEF IInv, OutputState, Finishing
        <3>2. IF res' = "success" THEN out' = (IF detached' THEN "none" ELSE "kept")
              ELSE out' \in {"none", "discarded"}
            BY <1>2, <2>2, <3>1
        <3> QED BY <2>1, <3>2 DEF OutputState, Finishing
    <2>3. CASE pc = "returned"
        <3>1. /\ IF res = "success" THEN out = (IF detached THEN "none" ELSE "kept")
                 ELSE out \in {"none", "discarded"}
              /\ detached' = detached /\ res' = res
            BY <1>1, <2>3 DEF IInv, OutputState
        <3>2. IF res' = "success" THEN out' = (IF detached' THEN "none" ELSE "kept")
              ELSE out' \in {"none", "discarded"}
            BY <1>2, <2>3, <3>1
        <3> QED BY <2>1, <3>2 DEF OutputState, Finishing
    <2> QED BY <1>2, <2>2, <2>3
<1>9. Flow' /\ Validated'
    BY <1>1 DEF IInv, Flow, Validated, HashedBy
<1>10. FinishedSound'
    <2>1. ASSUME res = "success" PROVE fi = 0 /\ \A i \in DOMAIN sources : FinishedOK(i)
        <3>1. CASE pc = "finishing" /\ fi = 0
            <4>1. \A i \in DOMAIN sources : i > fi => FinishedOK(i)
                BY <2>1, <3>1 DEF IInv, FinishedSound, Finishing
            <4>2. \A i \in DOMAIN sources : i > 0
                BY DEF IInv, TypeOK
            <4> QED BY <3>1, <4>1, <4>2
        <3>2. CASE pc = "returned"
            BY <2>1, <3>2 DEF IInv, FinishedSound
        <3> QED BY <1>2, <3>1, <3>2
    <2> QED BY <1>1, <1>2, <2>1 DEF FinishedSound, Finishing, FinishedOK
<1>11. Reports'
    BY <1>1, <1>2 DEF IInv, Reports, Finishing, SignedAfter
<1> QED BY <1>4, <1>5, <1>6, <1>7, <1>8, <1>9, <1>10, <1>11 DEF IInv

\* Nothing is read at the start.
LEMMA InitIInv == Init => IInv
<1> SUFFICES ASSUME Init PROVE IInv
    OBVIOUS
<1>1. NewSource(NoSource, 0)
    BY SourceIsNew DEF NoSource
<1>2. TypeOK
    <2>1. whole \in BOOLEAN /\ syms \in BOOLEAN /\ detached \in BOOLEAN /\ cur \in SourceType
        BY <1>1, Zenon DEF Init, NewSource
    <2>2. sources \in Seq(SourceType) /\ Len(sources) = 0
        BY DEF Init
    <2>3. caller \in {"stream", "ffi", "bare"}
        BY Zenon DEF Init
    <2> QED BY <2>1, <2>2, <2>3, ProcessAssumption DEF Init, TypeOK, Results
<1>3. Counted
    BY <1>1, ProcessAssumption DEF Init, Counted, NewSource
<1>4. Shapes
    BY <1>1 DEF Init, Shapes, NewSource
<1>5. Fresh /\ OutputState /\ Flow /\ Validated /\ FinishedSound /\ Reports
    BY DEF Init, Fresh, OutputState, Flow, Validated, FinishedSound, Reports, Finishing
<1> QED BY <1>2, <1>3, <1>4, <1>5 DEF IInv

\* A step that changes nothing.
LEMMA StutterIInv == IInv /\ UNCHANGED vars => IInv'
<1> SUFFICES ASSUME IInv, UNCHANGED vars PROVE IInv'
    OBVIOUS
<1> USE DEF vars
<1>1. TypeOK'
    BY Zenon DEF IInv, TypeOK
<1>4. Counted'
    BY Zenon DEF IInv, Counted
<1>5. Shapes'
    BY DEF IInv, Shapes, SourceShape
<1>2. Fresh' /\ OutputState' /\ Flow' /\ Validated'
    BY DEF IInv, Fresh, Building, OutputState, Finishing, Flow, HashedBy, Validated
<1>3. FinishedSound' /\ Reports'
    BY DEF IInv, FinishedSound, FinishedOK, Finishing, Reports, SignedAfter
<1> QED BY <1>1, <1>2, <1>3, <1>4, <1>5 DEF IInv

\* Every step keeps the invariant.
LEMMA NextIInv == IInv /\ [Next]_vars => IInv'
<1> SUFFICES ASSUME IInv, [Next]_vars PROVE IInv'
    OBVIOUS
<1>1. CASE BuildSequence
    BY <1>1, BuildFacts, BuildIInv
<1>2. CASE ProcessData
    BY <1>2, OpenIInv, LoopIInv, Zenon DEF ProcessData
<1>3. CASE FinishAll
    <2>1. FinishRest
        BY <1>3 DEF FinishAll, FinishRest, msgVars
    <2>2. Finishes
        BY <1>3, <2>1, SourceFinishes, ReadingFinishes, ValidateFinishes, Zenon DEF FinishAll
    <2> QED BY <2>2, FinishIInv
<1>4. CASE CloseAll
    BY <1>4, CloseIInv
<1>5. CASE UNCHANGED vars
    BY <1>5, StutterIInv
<1> QED BY <1>1, <1>2, <1>3, <1>4, <1>5, Zenon DEF Next, Over

\* The inductive invariant holds of every behaviour of process_pgp_source.
THEOREM Invariant == Spec => []IInv
    BY InitIInv, NextIInv, PTL DEF Spec

\* Every variable keeps its type: among others, the list of sources and the
\* index of the source that is finished next stay in step.
THEOREM TypeCorrect == Spec => []TypeOK
<1>1. IInv => TypeOK
    BY DEF IInv
<1> QED BY <1>1, Invariant, PTL

\* What the invariant says of a call that returned with success.
LEMMA SuccessFacts == IInv => SuccessIsSound
<1> SUFFICES ASSUME IInv, pc \in {"returned", "done"}, res = "success", NEW i \in DOMAIN sources
             PROVE  /\ sources[i].has_mdc => sources[i].mdc_validated /\ whole /\ (detached \/ handed = Data)
                    /\ \A j \in DOMAIN sources[i].sigs :
                        /\ sources[i].sigs[j] = "good" /\ sources[i].hashed = Data
                        /\ ~detached => handed = sources[i].hashed
    BY Zenon DEF SuccessIsSound
<1>1. FinishedOK(i)
    BY DEF IInv, FinishedSound
<1>2. sources[i].mdc_validated => whole /\ pos = Blocks
    BY DEF IInv, Validated
<1>3. ASSUME ~detached
      PROVE  /\ Len(handed) = pos /\ (whole => \A k \in 1 .. pos : handed[k] = k)
             /\ sources[i].hashed = handed \/ sources[i].hashed = <<>>
    BY <1>3 DEF IInv, Flow
<1>4. handed \in Seq(0 .. Blocks) /\ pos \in 0 .. Blocks /\ Blocks \in Nat
    BY ProcessAssumption DEF IInv, TypeOK
<1>5. Data \in Seq(Nat) /\ Len(Data) = Blocks /\ \A k \in 1 .. Blocks : Data[k] = k
    BY <1>4 DEF Data
<1>6. ASSUME ~detached, whole, pos = Blocks PROVE handed = Data
    BY <1>3, <1>4, <1>5, <1>6
<1>7. ASSUME ~detached, sources[i].hashed = Data PROVE handed = sources[i].hashed
    <2>1. CASE sources[i].hashed = <<>>
        <3>1. Blocks = 0
            BY <1>4, <1>5, <1>7, <2>1
        <3>2. Len(handed) = 0
            BY <1>3, <1>4, <1>7, <3>1
        <3> QED BY <1>4, <2>1, <3>2
    <2> QED BY <1>3, <1>7, <2>1
<1> QED BY <1>1, <1>2, <1>6, <1>7, Zenon DEF FinishedOK

\* Success is what it says: whatever the layers of a message are and whatever
\* was met on the way, the result of process_pgp_source is RNP_SUCCESS only if
\* every detection code was validated and every signature that was read is good
\* and over the data that were written out; and the output is kept if and only
\* if the result is success.
THEOREM ResultSound == Spec => []ResultIsSound
<1>1. IInv => OutputFollowsResult
    BY DEF IInv, OutputState, OutputFollowsResult
<1>2. IInv => ResultIsSound
    BY <1>1, SuccessFacts DEF ResultIsSound, IInv
<1> QED BY <1>2, Invariant, PTL

\* On success on_signatures was told of every signature of every signed layer,
\* the innermost one first, and of none that is not good.
THEOREM ReportsComplete == Spec => []ReportsMatch
<1>1. IInv => ReportsMatch
    <2> SUFFICES ASSUME IInv, pc \in {"returned", "done"}, res = "success" PROVE ReportsMatch
        BY Zenon DEF ReportsMatch
    <2>1. fi = 0
        BY DEF IInv, FinishedSound
    <2> QED BY <2>1, Zenon DEF IInv, Reports, ReportsMatch
<1> QED BY <1>1, Invariant, PTL

\* An error is never forgotten: once the reading of a message or the finishing of
\* a layer has failed, finishing the outer layers does not make it a success.
ErrorsStay == [][(pc \in {"finishing", "signatures", "returned"} /\ res # "success") => res' # "success"]_vars

THEOREM ErrorsAreKept == Spec => ErrorsStay
<1>1. [Next]_vars => [(pc \in {"finishing", "signatures", "returned"} /\ res # "success") => res' # "success"]_vars
    <2> SUFFICES ASSUME Next, pc \in {"finishing", "signatures", "returned"}, res # "success"
                 PROVE  res' # "success"
        OBVIOUS
    <2>1. ~BuildSequence /\ ~ProcessData
        BY DEF BuildSequence, Detect, DetectBinary, DetectNothing, DetectCleartext, DetectArmored,
               init_packet_sequence, SequenceFails, SequenceEncrypted, SequenceCompressed, SequenceLiteral,
               SequenceSigned, TryKeys, AskPassword, TryPassword, InitSignedPacket, InitSignedEnds,
               ProcessData, OpenFails, OpenData, ReadFails, ReadEnds, HashBlock, CopyBlock
    <2>2. ASSUME NEW r, Finished(r) PROVE res' # "success"
        BY <2>2 DEF Finished, Combined
    <2>3. CASE FinishAll
        BY <2>2, <2>3, Zenon DEF FinishAll, FinishSource, FinishSigned, SignatureMissing, ReadSignature, ValidateSignatures
    <2>4. CASE CloseAll \/ Over
        BY <2>4 DEF CloseAll, CloseOutput, CallerReturns, Over, vars
    <2> QED BY <2>1, <2>3, <2>4 DEF Next
<1> QED BY <1>1, PTL DEF Spec, ErrorsStay
=============================================================================
