---------------------------- MODULE ProcessSource ----------------------------
(***************************************************************************)
(* Processing of an OpenPGP message: process_pgp_source of stream-parse.c  *)
(* with the functions that build the stack of sources, the loop that reads *)
(* the innermost source, the finishing of the sources from the innermost   *)
(* to the outermost (detection code, signatures) and the fate of the       *)
(* output; and its callers rnp_process_stream (rnp.c) and rnp_decrypt      *)
(* (rnp2.c).                                                               *)
(*                                                                         *)
(* The data of a message are the blocks 1 .. Blocks.  What the input       *)
(* contains (packets, signatures, errors) is chosen when it is read.       *)
(* Cryptography is perfect: a signature is right for one sequence of       *)
(* blocks, and a detection code is validated only for an unaltered message *)
(* that was read completely (EncryptedSource, FinishIsSound).              *)
(***************************************************************************)
EXTENDS Integers, Sequences, FiniteSets

CONSTANTS
    Blocks,      \* bound: blocks of data in a message
    MaxSources,  \* bound: length of the list of sources
    MaxSigs      \* bound: one-pass and signature packets before the data, and
                 \* signatures of a cleartext message

ASSUME ProcessAssumption ==
    Blocks \in Nat /\ MaxSources \in Nat /\ MaxSigs \in Nat \ {0}

VARIABLES
    caller,     \* "stream", "ffi", or "bare": a handler without providers
    whole,      \* the input is complete and unaltered
    pc,         \* what runs: see the actions
    res,        \* res of process_pgp_source
    sources,    \* ctx.sources, outermost first
    cur,        \* psrc: the source being initialised
    syms,       \* it has password encrypted session keys
    packets,    \* one-pass and signature packets so far (for the bound)
    signed_src, \* ctx.signed_src as an index of sources, 0 if not set
    detached,   \* ctx.msg_type = PGP_MESSAGE_DETACHED
    pos,        \* blocks read from the innermost source, or from datasrc
    out,        \* outdest: "none", "open", "kept", "discarded"
    handed,     \* blocks written to it
    fi,         \* the source that is finished next, as an index
    left,       \* signatures signed_src_finish has still to read
    infos,      \* what on_signatures was told, source by source
    closes      \* how often the destination was closed
vars == <<caller, whole, pc, res, sources, cur, syms, packets, signed_src, detached, pos, out,
          handed, fi, left, infos, closes>>

Garbage == 0
Data == [i \in 1 .. Blocks |-> i]

\* "expired" also stands for a signature from the future; "invalid" for one that
\* names no key or an unknown one, is wrong, or has no hash context.
SigKinds == {"good", "expired", "invalid", "unparsable"}

\* A new source: init_src_common and the parameters of its type.
Source(type, mdc) ==
    [type |-> type, has_mdc |-> mdc, mdc_validated |-> FALSE,
     onepasses |-> 0, sigs |-> <<>>, hashed |-> <<>>]
NoSource == Source("none", FALSE)

Has(provider) ==
    \/ caller = "stream"
    \/ caller = "ffi" /\ provider # "source"

Init ==
    /\ caller \in {"stream", "ffi", "bare"} /\ whole \in BOOLEAN
    /\ pc = "start" /\ res = "bad_format"
    /\ sources = <<>> /\ cur = NoSource /\ syms = FALSE /\ packets = 0
    /\ signed_src = 0 /\ detached = FALSE /\ pos = 0
    /\ out = "none" /\ handed = <<>> /\ fi = 0 /\ left = 0 /\ infos = <<>> /\ closes = 0

dataVars == <<pos, out, handed, fi, left, infos, closes>>
seqVars  == <<sources, cur, syms, signed_src, detached>>

\* goto finish with an error: free_processing_ctx closes the sources.
Leave(r) == pc' = "returned" /\ res' = r

\* The source is appended to the list and is the next one to read from.
AppendSource(s) == sources' = Append(sources, s) /\ cur' = NoSource

\* How the initialisation of a source can fail.
InitErrors == {"read", "bad_format", "out_of_memory"}

LastType == IF sources = <<>> THEN "input" ELSE sources[Len(sources)].type
Room == Len(sources) < MaxSources

-----------------------------------------------------------------------------
\* The kind of the input is found out: binary, or nothing that is known.
DetectBinary == pc = "start" /\ pc' = "sequence" /\ UNCHANGED <<res, seqVars>>

DetectNothing == pc = "start" /\ Leave("bad_format") /\ UNCHANGED seqVars

\* init_cleartext_sequence, init_signed_src, init_cleartext_signed_src
DetectCleartext ==
    /\ pc = "start"
    /\ \/ ~Has("key") /\ Leave("bad_parameters") /\ UNCHANGED seqVars
       \/ Has("key") /\ \E r \in InitErrors : Leave(r) /\ UNCHANGED seqVars
       \/ /\ Has("key")
          /\ AppendSource(Source("cleartext", FALSE))
          /\ pc' = "open"
          /\ UNCHANGED <<res, syms, signed_src, detached>>

\* init_armored_sequence
DetectArmored ==
    /\ pc = "start"
    /\ \/ \E r \in InitErrors : Leave(r) /\ UNCHANGED seqVars
       \/ /\ AppendSource(Source("armored", FALSE))
          /\ pc' = "sequence"
          /\ UNCHANGED <<res, syms, signed_src, detached>>

-----------------------------------------------------------------------------
\* init_packet_sequence: the tag cannot be read, is wrong or unexpected, or the
\* packet behind it is malformed.
SequenceFails ==
    /\ pc = "sequence"
    /\ \E r \in InitErrors : Leave(r)
    /\ UNCHANGED seqVars

\* init_encrypted_src up to the search for a key
SequenceEncrypted ==
    /\ pc = "sequence" /\ Room
    /\ \E pub, sym, mdc \in BOOLEAN :
        /\ pub \/ sym
        /\ IF ~Has("password") \/ (pub /\ ~Has("key"))
           THEN Leave("bad_parameters") /\ UNCHANGED <<cur, syms>>
           ELSE /\ cur' = Source("encrypted", mdc) /\ syms' = sym
                /\ pc' = (IF pub THEN "keys" ELSE "password")
                /\ UNCHANGED res
    /\ UNCHANGED <<sources, signed_src, detached>>

HaveKey == AppendSource(cur) /\ pc' = "sequence" /\ UNCHANGED res

\* What the attempts to open the message with a secret key or with a password
\* can return: the session key is decrypted and checked, and the header of the
\* data is decrypted with it.
encrypted_try_key == BOOLEAN
encrypted_try_password == {-1, 0, 1}

\* The loop over the public key encrypted session keys found a key, or not.
TryKeys ==
    /\ pc = "keys"
    /\ \E have_key \in encrypted_try_key :
        \/ have_key /\ HaveKey
        \/ ~have_key /\ syms /\ pc' = "password" /\ UNCHANGED <<res, sources, cur>>
        \/ ~have_key /\ ~syms /\ Leave("no_suitable_key") /\ UNCHANGED <<sources, cur>>
    /\ UNCHANGED <<syms, signed_src, detached>>

\* The loop over passwords.  pgp_request_password: the provider has none, or gives one.
AskPassword ==
    /\ pc = "password"
    /\ \/ Leave("bad_password")
       \/ pc' = "attempt" /\ UNCHANGED res
    /\ UNCHANGED seqVars

\* The password opens the message; no algorithm is supported; it is wrong and empty; or it is
\* wrong and the provider is asked again, however often that was done before.
TryPassword ==
    /\ pc = "attempt"
    /\ \E r \in encrypted_try_password :
         \/ r > 0 /\ HaveKey
         \/ r < 0 /\ Leave("not_supported") /\ UNCHANGED <<sources, cur>>
         \/ r = 0 /\ Leave("bad_password") /\ UNCHANGED <<sources, cur>>
         \/ r = 0 /\ pc' = "password" /\ UNCHANGED <<res, sources, cur>>
    /\ UNCHANGED <<syms, signed_src, detached>>

SequenceCompressed ==
    /\ pc = "sequence" /\ Room
    /\ AppendSource(Source("compressed", FALSE))
    /\ UNCHANGED <<pc, res, syms, signed_src, detached>>

\* A literal packet has to be within another one.
SequenceLiteral ==
    /\ pc = "sequence" /\ Room
    /\ LastType \in {"encrypted", "signed", "compressed"}
    /\ AppendSource(Source("literal", FALSE))
    /\ pc' = "open"
    /\ UNCHANGED <<res, syms, signed_src, detached>>

SequenceSigned ==
    /\ pc = "sequence" /\ Room
    /\ \/ ~Has("key") /\ Leave("bad_parameters") /\ UNCHANGED cur
       \/ Has("key") /\ cur' = Source("signed", FALSE) /\ pc' = "signed" /\ UNCHANGED res
    /\ UNCHANGED <<sources, syms, signed_src, detached>>

\* init_signed_src is through with its packets; a detached signature has no
\* data behind it.
SignedReady(s, eof) ==
    IF s.onepasses = 0 /\ \A i \in DOMAIN s.sigs : s.sigs[i] = "unparsable"
    THEN Leave("bad_parameters") /\ UNCHANGED <<sources, cur, signed_src, detached>>
    ELSE /\ AppendSource(s)
         /\ signed_src' = Len(sources) + 1
         /\ detached' = eof
         /\ pc' = (IF eof THEN "open" ELSE "sequence")
         /\ UNCHANGED res

SignedMore(s) == cur' = s /\ UNCHANGED <<pc, res, sources, signed_src, detached>>

\* One iteration of the loop of init_signed_src: a one-pass packet, the last one
\* of which ends it, or a signature.
InitSignedPacket ==
    LET onepass == [cur EXCEPT !.onepasses = @ + 1]
        sig(k)  == [cur EXCEPT !.sigs = Append(@, k)]
    IN
    /\ pc = "signed"
    /\ packets < MaxSigs /\ packets' = packets + 1
    /\ \/ SignedReady(onepass, FALSE)
       \/ \E s \in {onepass} \cup {sig(k) : k \in SigKinds} : SignedMore(s) \/ SignedReady(s, TRUE)
    /\ UNCHANGED syms

\* The loop ends: reading failed, or there is a packet of another kind.
InitSignedEnds ==
    /\ pc = "signed"
    /\ \/ Leave("read") /\ UNCHANGED <<sources, cur, signed_src, detached>>
       \/ SignedReady(cur, FALSE)
    /\ UNCHANGED <<syms, packets>>

-----------------------------------------------------------------------------
\* The sources are ready: the data of a detached signature or the destination
\* is asked for.
OpenFails ==
    /\ pc = "open"
    /\ \/ Leave("out_of_memory")
       \/ detached /\ Leave("read")
       \/ ~detached /\ Leave("write")
    /\ UNCHANGED <<sources, pos, out, handed, fi>>

OpenData ==
    /\ pc = "open"
    /\ res' = "success"
    /\ \/ detached /\ Has("source") /\ pc' = "hashing" /\ UNCHANGED out
       \/ ~detached /\ Has("dest") /\ pc' = "reading" /\ out' = "open"
    /\ UNCHANGED <<sources, pos, handed, fi>>

\* The innermost source, or datasrc, is at its end; one that is damaged may end
\* anywhere and deliver anything.
AtEnd == pos = Blocks \/ ~whole
Block == IF pos >= Blocks THEN {} ELSE {pos + 1} \cup {g \in {Garbage} : ~whole}

\* A read has reached the detection codes of some encrypted sources of s.
Reached(s) ==
    LET checked == {i \in DOMAIN s : whole /\ pos' = Blocks /\ s[i].has_mdc}
    IN  {[i \in DOMAIN s |-> [s[i] EXCEPT !.mdc_validated = @ \/ i \in v]] : v \in SUBSET checked}

\* signed_src_update of the current signed source; a cleartext source does it
\* for itself while it is read.
HashedBy ==
    IF signed_src > 0 THEN {signed_src}
    ELSE {i \in DOMAIN sources : sources[i].type = "cleartext"}
Hash(b) == [i \in DOMAIN sources |->
                IF i \in HashedBy THEN [sources[i] EXCEPT !.hashed = Append(@, b)] ELSE sources[i]]

StartFinish == pc' = "finishing" /\ fi' = Len(sources)

ReadFails ==
    /\ pc \in {"reading", "hashing"}
    /\ res' = "generic" /\ StartFinish
    /\ UNCHANGED <<sources, pos, out, handed>>

ReadEnds ==
    /\ pc \in {"reading", "hashing"} /\ AtEnd
    /\ StartFinish
    /\ UNCHANGED pos
    /\ sources' \in (IF pc = "reading" THEN Reached(sources) ELSE {sources})
    /\ UNCHANGED <<res, out, handed>>

HashBlock ==
    /\ pc = "hashing"
    /\ pos' = pos + 1
    /\ \E b \in Block : sources' = Hash(b)
    /\ UNCHANGED <<pc, res, out, handed, fi>>

\* A block is hashed and written; writing may fail.
CopyBlock ==
    /\ pc = "reading"
    /\ pos' = pos + 1
    /\ \E b \in Block :
        /\ sources' \in Reached(Hash(b))
        /\ \/ handed' = Append(handed, b) /\ UNCHANGED <<pc, res, fi>>
           \/ res' = "write" /\ StartFinish /\ UNCHANGED handed
    /\ UNCHANGED out

-----------------------------------------------------------------------------
\* src_finish returned fres: an error takes the place of the result so far.
Combined(fres) == IF fres # "success" THEN fres ELSE res

PrevSource == fi - 1

Finished(fres) ==
    /\ pc' = "finishing"
    /\ fi' = PrevSource /\ res' = Combined(fres)

\* encrypted_src_finish
MdcMissingNever(s) == FALSE
MdcMissing(s) == s.has_mdc /\ ~s.mdc_validated

FinishSource ==
    LET s == sources[fi] IN
    /\ pc = "finishing" /\ fi > 0 /\ s.type \notin {"signed", "cleartext"}
    /\ Finished(IF MdcMissing(s) THEN "bad_state" ELSE "success")
    /\ UNCHANGED <<sources, left, infos>>

\* signed_src_finish: signatures are read behind the data, one for each one-pass
\* packet; those of a cleartext message from an armored block, up to its end.
FinishSigned ==
    /\ pc = "finishing" /\ fi > 0 /\ sources[fi].type \in {"signed", "cleartext"}
    /\ \/ /\ pc' = "signatures"
          /\ left' = IF sources[fi].type = "signed" THEN sources[fi].onepasses ELSE MaxSigs
          /\ UNCHANGED <<fi, res>>
       \/ /\ sources[fi].type = "cleartext"
          /\ Finished("bad_format") /\ UNCHANGED left
    /\ UNCHANGED <<sources, infos>>

\* signed_read_single_signature fails, or the signature is not the one that was
\* announced.
SignatureMissing ==
    /\ pc = "signatures" /\ left > 0
    /\ \E r \in {"read", "bad_format"} : Finished(r)
    /\ UNCHANGED <<sources, left, infos>>

\* A signature is read.  If it cannot be parsed there is none to be compared
\* with its one-pass packet: signature_matches_onepass is given NULL.
ReadSignature ==
    /\ pc = "signatures" /\ left > 0 /\ left' = left - 1
    /\ \E k \in SigKinds :
        /\ pc' = (IF k = "unparsable" /\ sources[fi].type = "signed" THEN "crashed" ELSE pc)
        /\ UNCHANGED pos
        /\ sources' \in Reached([sources EXCEPT ![fi].sigs = Append(@, k)])
    /\ UNCHANGED <<fi, res, infos>>

\* The entry of siginfos for a signature once it was validated.
Info(s, k) ==
    [valid   |-> k \in {"good", "expired"} /\ s.hashed = Data,
     expired |-> k = "expired"]

\* "checking the validation results"
SignedResult(is) ==
    IF \E i \in DOMAIN is : ~is[i].valid \/ is[i].expired THEN "signature_invalid" ELSE "success"

\* What on_signatures is given.
ReportedOffByOne(is) == SubSeq(is, 1, Len(is) - 1)
Reported(is) == is

\* All signatures are read: validate them and report the results.  Before, the
\* end of the data is looked for; calloc may fail.
ValidateSignatures ==
    LET s  == sources[fi]
        is == [i \in DOMAIN s.sigs |-> Info(s, s.sigs[i])]
    IN
    /\ pc = "signatures" /\ (left = 0 \/ s.type = "cleartext")
    /\ \/ infos' = Append(infos, Reported(is)) /\ Finished(SignedResult(is))
       \/ Finished("out_of_memory") /\ UNCHANGED infos
    /\ UNCHANGED pos
    /\ sources' \in Reached(sources)
    /\ UNCHANGED left

-----------------------------------------------------------------------------
\* dst_close(&outdest, res != RNP_SUCCESS)
Discard == res # "success"

CloseOutput ==
    /\ pc = "finishing" /\ fi = 0
    /\ pc' = "returned"
    /\ IF detached THEN UNCHANGED <<out, closes>>
       ELSE out' = (IF Discard THEN "discarded" ELSE "kept") /\ closes' = closes + 1
    /\ UNCHANGED res

\* The caller is done.  rnp_decrypt has given process_pgp_source a copy of the
\* destination of its output; it forgets the original only on success, and
\* rnp_output_destroy closes what it has not forgotten.
CallerReturns ==
    /\ pc = "returned" /\ pc' = "done"
    /\ \/ caller # "ffi" /\ UNCHANGED <<out, closes>>
       \/ caller = "ffi" /\ res = "success" /\ UNCHANGED <<out, closes>>
       \/ caller = "ffi" /\ res # "success" /\ out' = "discarded" /\ closes' = closes + 1
    /\ UNCHANGED res

Over == pc \in {"done", "crashed"} /\ UNCHANGED vars

msgVars == <<caller, whole>>

Detect == DetectBinary \/ DetectNothing \/ DetectCleartext \/ DetectArmored

init_packet_sequence ==
    \/ SequenceFails \/ SequenceEncrypted \/ SequenceCompressed \/ SequenceLiteral
    \/ SequenceSigned \/ TryKeys \/ AskPassword \/ TryPassword

BuildSequence ==
    /\ \/ (Detect \/ init_packet_sequence) /\ UNCHANGED packets
       \/ InitSignedPacket
       \/ InitSignedEnds
    /\ UNCHANGED <<msgVars, dataVars>>

ProcessData ==
    /\ \/ OpenFails \/ OpenData \/ ReadFails \/ ReadEnds \/ HashBlock \/ CopyBlock
    /\ UNCHANGED <<msgVars, packets, cur, syms, signed_src, detached, left, infos, closes>>

FinishAll ==
    /\ \/ FinishSource \/ FinishSigned \/ SignatureMissing \/ ReadSignature \/ ValidateSignatures
    /\ UNCHANGED <<msgVars, packets, cur, syms, signed_src, detached, pos, out, handed, closes>>

CloseAll ==
    /\ CloseOutput \/ CallerReturns
    /\ UNCHANGED <<msgVars, packets, seqVars, pos, handed, fi, left, infos>>

Next == BuildSequence \/ ProcessData \/ FinishAll \/ CloseAll \/ Over

\* One thread, which does not stop as long as there is a step to take; what the input holds and
\* what the provider answers is not fair: wrong passwords may be given for ever.
Spec == Init /\ [][Next]_vars /\ WF_vars(Next)

-----------------------------------------------------------------------------
Results == {"success", "bad_format", "bad_parameters", "read", "write", "generic", "bad_state",
            "out_of_memory", "no_suitable_key", "bad_password", "not_supported", "signature_invalid"}

SourceType ==
    [type : {"none", "armored", "encrypted", "compressed", "signed", "cleartext", "literal"},
     has_mdc : BOOLEAN, mdc_validated : BOOLEAN, onepasses : 0 .. MaxSigs,
     sigs : Seq(SigKinds), hashed : Seq(0 .. Blocks)]

TypeOK ==
    /\ caller \in {"stream", "ffi", "bare"} /\ whole \in BOOLEAN
    /\ pc \in {"start", "sequence", "keys", "password", "attempt", "signed", "open", "hashing",
               "reading", "finishing", "signatures", "returned", "done", "crashed"}
    /\ res \in Results /\ sources \in Seq(SourceType) /\ cur \in SourceType
    /\ syms \in BOOLEAN /\ detached \in BOOLEAN
    /\ signed_src \in 0 .. Len(sources) /\ pos \in 0 .. Blocks /\ fi \in 0 .. Len(sources)
    /\ out \in {"none", "open", "kept", "discarded"} /\ handed \in Seq(0 .. Blocks)
    /\ left \in 0 .. MaxSigs /\ closes \in 0 .. 2

\* Success is what it says, whatever the order of the layers and whatever was
\* met on the way: every detection code was validated, and every signature of
\* every layer that was read is good, not expired, and made over exactly the
\* data that were written out (or, detached, read).
SuccessIsSound ==
    (pc \in {"returned", "done"} /\ res = "success") =>
        \A i \in DOMAIN sources :
            LET s == sources[i] IN
            /\ s.has_mdc => s.mdc_validated /\ whole /\ (detached \/ handed = Data)
            /\ \A j \in DOMAIN s.sigs :
                /\ s.sigs[j] = "good" /\ s.hashed = Data
                /\ ~detached => handed = s.hashed

\* The output is kept if and only if the result is success.
OutputFollowsResult ==
    (pc = "done" /\ out # "none") => (out = "kept" <=> res = "success")

\* The result is what happened, and the output follows it.
ResultIsSound == TypeOK /\ SuccessIsSound /\ OutputFollowsResult

\* The sources after the n-th that carry signatures.
SignedAfter(n) ==
    {i \in DOMAIN sources : i > n /\ sources[i].type \in {"signed", "cleartext"}}

\* Signature infos that tell of a signature that is not good make the result an
\* error, and on success the callback was told of every signature of every
\* layer: the reports are those of the signed layers, the innermost one first.
ReportsMatch ==
    (pc \in {"returned", "done"} /\ res = "success") =>
        /\ Len(infos) = Cardinality(SignedAfter(0))
        /\ \A i \in SignedAfter(0) :
               Len(infos[Cardinality(SignedAfter(i - 1))]) = Len(sources[i].sigs)
        /\ \A k \in DOMAIN infos : \A j \in DOMAIN infos[k] :
               infos[k][j].valid /\ ~infos[k][j].expired

\* From some time on the provider gives no password that is to be tried.
ProviderGivesUp == <>[](pc # "attempt")


\* "process_pgp_source closes this on success": the destination of an output is
\* closed once, by process_pgp_source or by rnp_output_destroy.
ClosedOnce == closes <= 1
-----------------------------------------------------------------------------
(***************************************************************************)
(* The inductive invariant behind ResultIsSound and ReportsMatch.          *)
(***************************************************************************)
Building == pc \in {"start", "sequence", "keys", "password", "attempt", "signed", "open"}
Finishing == pc \in {"finishing", "signatures"}

\* What the bounds rest on, and the reports so far.
Counted ==
    /\ packets \in 0 .. MaxSigs /\ cur.onepasses <= packets
    /\ infos \in Seq(Seq([valid : BOOLEAN, expired : BOOLEAN]))
    /\ pc \notin {"returned", "done"} => closes = 0
    /\ pc = "returned" => closes <= 1

\* Which sources have a detection code, and which have signatures.
SourceShape(s) ==
    /\ s.type \in {"signed", "cleartext"} => ~s.has_mdc
    /\ s.type \notin {"signed", "cleartext"} => s.sigs = <<>>
Shapes ==
    /\ \A i \in DOMAIN sources : SourceShape(sources[i])
    /\ SourceShape(cur) /\ cur.hashed = <<>> /\ ~cur.mdc_validated
    /\ pc = "signed" => cur.type = "signed"

\* Nothing is read before the sources are ready, and success is only said then.
Fresh ==
    Building =>
        /\ res # "success" /\ out = "none" /\ pos = 0 /\ handed = <<>> /\ infos = <<>>
        /\ \A i \in DOMAIN sources : sources[i].hashed = <<>> /\ ~sources[i].mdc_validated

\* The fate of the output.
OutputState ==
    /\ (pc = "reading" => ~detached) /\ (pc = "hashing" => detached)
    /\ pc \in {"reading", "hashing"} => res = "success" /\ infos = <<>>
    /\ (pc \in {"reading", "hashing"} \/ Finishing) => out = (IF detached THEN "none" ELSE "open")
    /\ pc \in {"returned", "done"} =>
        IF res = "success" THEN out = (IF detached THEN "none" ELSE "kept")
        ELSE out \in {"none", "discarded"}

\* As long as nothing failed the output has what was read, and a signed source
\* that is fed has hashed the same; what was read of an unaltered message are
\* its data.
Flow ==
    (res = "success" /\ ~detached) =>
        /\ Len(handed) = pos
        /\ whole => \A k \in 1 .. pos : handed[k] = k
        /\ \A i \in DOMAIN sources :
               sources[i].hashed = IF i \in HashedBy THEN handed ELSE <<>>

\* A detection code was validated by reading an unaltered message to its end.
Validated == \A i \in DOMAIN sources : sources[i].mdc_validated => whole /\ pos = Blocks

\* The sources that are finished without an error are in order.
FinishedOK(i) ==
    /\ sources[i].has_mdc => sources[i].mdc_validated
    /\ \A j \in DOMAIN sources[i].sigs : sources[i].sigs[j] = "good" /\ sources[i].hashed = Data
FinishedSound ==
    /\ (Finishing /\ res = "success") => \A i \in DOMAIN sources : i > fi => FinishedOK(i)
    /\ (pc \in {"returned", "done"} /\ res = "success") => fi = 0 /\ \A i \in DOMAIN sources : FinishedOK(i)
    /\ pc = "signatures" => fi > 0 /\ sources[fi].type \in {"signed", "cleartext"}

\* The reports are those of the signed sources that are finished.
Reports ==
    (res = "success" /\ (Finishing \/ pc \in {"returned", "done"})) =>
        /\ Len(infos) = Cardinality(SignedAfter(fi))
        /\ \A i \in SignedAfter(fi) :
               Len(infos[Cardinality(SignedAfter(i - 1))]) = Len(sources[i].sigs)
        /\ \A k \in DOMAIN infos : \A j \in DOMAIN infos[k] :
               infos[k][j].valid /\ ~infos[k][j].expired

IInv ==
    /\ TypeOK /\ Counted /\ Shapes /\ Fresh /\ OutputState /\ Flow /\ Validated
    /\ FinishedSound /\ Reports
=============================================================================
