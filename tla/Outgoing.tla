------------------------------- MODULE Outgoing -------------------------------
(***************************************************************************)
(* The operations that produce packets: signing (signature.c), encryption  *)
(* (crypto.c), export (pgp-key.c, rnp2.c) and generation of keys           *)
(* (generate-key.c).  Each performs the steps of PacketWriters on a stack  *)
(* of writers (writer.c) above a file or memory; every step may fail.      *)
(***************************************************************************)
EXTENDS PacketWriters, FiniteSets

CONSTANTS
    Ops,        \* [name, key, doc, armor, clear, compress, hash]; doc = [len, name, pieces]
    MaxFaults   \* bound: failures of memory, random numbers, files

ASSUME OutgoingAssumption ==
    /\ MaxFaults \in Nat /\ MaxMpi \in Nat /\ MaxName \in Nat
    /\ MinPart \in Nat /\ MinPart <= MaxPart /\ MinPart > Preamble + 6 /\ \E i \in 0 .. 30 : MaxPart = 2 ^ i

\* What the callers hand over: only two operations can sign text in clear, and
\* generated keys are of version 4 and not protected (crypto.c:234).
OpNames ==
    {"sign_file", "sign_buf", "sign_detached", "sign_memory_detached", "encrypt_file", "encrypt_buf", "export_key",
     "export_public_key", "generate_primary", "generate_subkey", "key_to_rawpacket"}
ASSUME OpsAssumption ==
    \A o \in Ops :
        /\ o.name \in OpNames /\ o.armor \in BOOLEAN /\ o.clear \in BOOLEAN /\ o.compress \in BOOLEAN
        /\ o.key.n \in Nat /\ o.doc.pieces \in Seq(Nat)
        /\ o.clear => o.name \in {"sign_file", "sign_buf"}
        /\ o.name \in {"generate_primary", "generate_subkey"} => o.key.version = 4 /\ o.key.usage = 0

VARIABLES
    op, todo, result,   \* what is done, the steps that are left, "none", "ok", "failed" or "crashed"
    stack,              \* the writers, the last one is written to; fin: its finaliser is due
    mem, fd,            \* memory that is written to: "none", "live", "freed"; the file
    packet,             \* history: the packet that is written, and whether it is complete
    sig,                \* pgp_create_sig_t, and history: what was hashed, whether bytes are missing
    null,               \* its output or its memory is a null pointer
    stream,             \* str_enc_se_ip_t, and history: what was given and read, the parts that were written
    keys,               \* generated: "none", "public" (loaded and listed), "both", "freed"
    faults, lost,       \* failures; history: those that were ignored
    made,               \* history: the pieces that were written
    wrong               \* history: what must not happen
vars == <<op, todo, result, stack, mem, fd, packet, sig, null, stream, keys, faults, lost, made, wrong>>

-----------------------------------------------------------------------------
(* The operations.                                                         *)
Ok == One("ok", 0, "")
Close == One("close", 0, "close")
CloseFd == One("closefd", 0, "")
Free == One("free", 0, "")
pgp_setup_memory_write == One("memory", 0, "memory")
pgp_setup_file_write == One("open", 0, "open")
open_output_file == pgp_setup_file_write
ArmorIf(o) == If(o.armor, Ignored(pgp_writer_push_armored(FALSE)))

\* pgp_pick_hash_alg: DSA signs 20 bytes, the curve asks for at least 32.
pgp_pick_hash_alg(k, hash) == CASE k.alg = "DSA" -> 20 [] k.alg = "ECDSA" /\ hash < 32 -> 32 [] OTHER -> hash
SigTail(k, hash) ==
    pgp_sig_add_time \o pgp_sig_add_time \o Try("keyid") \o pgp_sig_add_issuer_keyid
      \o pgp_sig_end_hashed_subpkts \o pgp_sig_write(k, hash)
Signed(o) ==
    (IF o.clear
     THEN pgp_writer_push_clearsigned \o One("data", o.doc.len, "text") \o pgp_writer_push_armored(TRUE)
     ELSE ArmorIf(o) \o Hash("data") \o pgp_write_one_pass_sig \o pgp_write_litdata(o.doc))
      \o SigTail(o.key, pgp_pick_hash_alg(o.key, o.hash))

pgp_sign_file(o) ==
    Try("hash algorithm") \o Try("read") \o open_output_file \o Try("memory") \o pgp_sig_start \o Signed(o) \o Ok
pgp_sign_buf(o) == Try("hash algorithm") \o Try("memory") \o pgp_sig_start \o pgp_setup_memory_write \o Signed(o) \o Ok
pgp_sign_detached(o) ==
    Try("hash algorithm") \o open_output_file \o Try("memory") \o pgp_sig_start \o Try("read") \o ArmorIf(o)
      \o Hash("data") \o SigTail(o.key, pgp_pick_hash_alg(o.key, o.hash)) \o Ok
pgp_sign_memory_detached(o) ==
    Try("memory") \o pgp_setup_memory_write \o pgp_sig_start \o ArmorIf(o) \o Hash("data") \o SigTail(o.key, o.hash)
      \o Close \o Try("memory") \o Ok

\* Streams are written in pieces, everything else at once.
Data(doc) == [i \in DOMAIN doc.pieces |-> Step("data", doc.pieces[i], "data")]
pgp_encrypt_file(o) ==
    Try("read") \o pgp_setup_file_write \o ArmorIf(o) \o pgp_push_enc_se_ip(o.key, o.doc.len) \o Data(o.doc)
      \o Close \o CloseFd \o Ok
pgp_encrypt_buf(o) == pgp_setup_memory_write \o ArmorIf(o) \o pgp_push_enc_se_ip(o.key, o.doc.len) \o Data(o.doc) \o Close \o Ok

pgp_export_key(o) == pgp_setup_memory_write \o Ignored(pgp_write_xfer_key(o.key, TRUE)) \o Try("memory") \o Close \o Free \o Ok
rnp_export_public_key(o) == pgp_setup_memory_write \o Ignored(pgp_write_xfer_key(o.key, o.armor)) \o Try("memory") \o Ok

load_generated_key(what) == Try("memory") \o Close \o Free \o Try("load") \o One("loaded", 0, what)
pgp_generate_primary_key(o) ==
    Try("parameters") \o Try("generate")
      \o pgp_setup_memory_write \o pgp_write_struct_pubkey(o.key) \o pgp_write_struct_userid(9) \o pgp_write_selfsig_cert(o.key, o.hash)
      \o load_generated_key("public")
      \o pgp_setup_memory_write \o pgp_write_struct_seckey(o.key) \o pgp_write_struct_userid(9) \o pgp_write_selfsig_cert(o.key, o.hash)
      \o load_generated_key("both") \o Ok
pgp_generate_subkey(o) ==
    Try("parameters") \o Try("unlock") \o Try("generate")
      \o pgp_setup_memory_write \o pgp_write_struct_pubkey(o.key) \o pgp_write_selfsig_binding(o.key, o.hash) \o load_generated_key("public")
      \o pgp_setup_memory_write \o pgp_write_struct_seckey(o.key) \o pgp_write_selfsig_binding(o.key, o.hash) \o load_generated_key("both")
      \o Ok
write_key_to_rawpacket(o) == pgp_setup_memory_write \o pgp_write_struct_seckey(o.key) \o Ok

Program(o) ==
    CASE o.name = "sign_file" -> pgp_sign_file(o) [] o.name = "sign_buf" -> pgp_sign_buf(o)
      [] o.name = "sign_detached" -> pgp_sign_detached(o) [] o.name = "sign_memory_detached" -> pgp_sign_memory_detached(o)
      [] o.name = "encrypt_file" -> pgp_encrypt_file(o) [] o.name = "encrypt_buf" -> pgp_encrypt_buf(o)
      [] o.name = "export_key" -> pgp_export_key(o) [] o.name = "export_public_key" -> rnp_export_public_key(o)
      [] o.name = "generate_primary" -> pgp_generate_primary_key(o) [] o.name = "key_to_rawpacket" -> write_key_to_rawpacket(o)
      [] OTHER -> pgp_generate_subkey(o)

\* What an operation does at its end, after a success or a failure.
AtEnd(ok) ==
    LET FreeKeys == If(~ok, One("freekeys", 0, ""))
    IN  CASE op.name = "sign_file" -> If(fd = "open", Close \o CloseFd)
          [] op.name = "sign_buf" -> If(~ok, Free) \o Close
          [] op.name = "sign_detached" -> Close \o CloseFd
          [] op.name = "sign_memory_detached" -> Close \o Free
          [] op.name = "encrypt_buf" -> If(~ok, Close)
          [] op.name = "export_key" -> If(~ok, Close \o Free)
          [] op.name = "export_public_key" -> If(~ok, Close \o Free)
          [] op.name = "generate_primary" -> If(mem = "live", Close \o Free) \o FreeKeys
          [] op.name = "key_to_rawpacket" -> If(mem = "live", Close \o Free)
          [] op.name = "generate_subkey" -> FreeKeys
          [] OTHER -> <<>>

NoSig == [mem |-> 0, hashoff |-> 0, hashlen |-> -1, unhashoff |-> 0, hashed |-> <<>>, short |-> FALSE, done |-> FALSE]
NoStream == [open |-> FALSE, buffered |-> 0, first |-> 0, given |-> 0, read |-> 0, lit |-> <<>>, enc |-> <<>>, hashed |-> -1, done |-> FALSE]
Init ==
    /\ op \in Ops /\ todo = Program(op) /\ result = "none" /\ stack = <<>> /\ mem = "none" /\ fd = "none"
    /\ packet = [announced |-> 0, body |-> 0, done |-> FALSE] /\ sig = NoSig /\ null = FALSE
    /\ stream = NoStream /\ keys = "none" /\ faults = 0 /\ lost = {} /\ made = {} /\ wrong = {}

-----------------------------------------------------------------------------
(* Steps.                                                                  *)
At(names) == todo # <<>> /\ Head(todo).op \in names
Now == Head(todo)
Outcomes == IF faults < MaxFaults THEN BOOLEAN ELSE {TRUE}
Pops(n) == [i \in 1 .. n |-> Step("pop", 0, "")]

\* The piece of the result that is there when the step has succeeded.
Gives(s) ==
    CASE s.op \in {"packet", "data", "loaded"} -> {s.what}
      [] s.op = "push" /\ s.what \in {"se_ip", "stream"} -> {"cipher"}
      [] OTHER -> {}

\* What comes next when the step succeeds, fails and is ignored, or fails.
Proceed(ok, fault) ==
    /\ todo' = IF ok THEN Tail(todo)
               ELSE IF Now.drop >= 0 THEN SubSeq(todo, Now.drop + 2, Len(todo))
               ELSE Pops(Now.pops) \o AtEnd(FALSE)
    /\ result' = IF ok \/ Now.drop >= 0 \/ result # "none" THEN result ELSE "failed"
    /\ faults' = IF fault THEN faults + 1 ELSE faults
After(ok, fault) ==
    /\ Proceed(ok, fault)
    /\ lost' = IF ok \/ Now.drop < 0 THEN lost ELSE lost \cup {Now.what}
    /\ made' = IF ok THEN made \cup Gives(Now) ELSE made
Goes == After(TRUE, FALSE)

\* pgp_write: down the stack to the file or the memory.
Write ==
    /\ At({"write", "tag", "length", "siglength", "sigbody"})
    /\ \E ok \in Outcomes :
        /\ After(ok, ~ok)
        /\ packet' = IF ~ok THEN packet
                     ELSE CASE Now.op = "tag" -> [announced |-> 0, body |-> 0, done |-> FALSE]
                            [] Now.op = "length" -> [packet EXCEPT !.announced = Now.n]
                            [] Now.op = "siglength" -> [packet EXCEPT !.announced = sig.mem]
                            [] Now.op = "sigbody" -> [packet EXCEPT !.body = @ + sig.mem]
                            [] OTHER -> IF Now.what = "packet" THEN [packet EXCEPT !.body = @ + Now.n] ELSE packet
    /\ UNCHANGED <<op, stack, mem, fd, sig, null, stream, keys, wrong>>

PacketDone ==
    /\ At({"packet"}) /\ Goes /\ packet' = [packet EXCEPT !.done = TRUE]
    /\ UNCHANGED <<op, stack, mem, fd, sig, null, stream, keys, wrong>>

Attempt ==
    /\ At({"try"}) /\ \E ok \in Outcomes : After(ok, ~ok)
    /\ UNCHANGED <<op, stack, mem, fd, packet, sig, null, stream, keys, wrong>>
Unsupported ==
    /\ At({"fail"}) /\ After(FALSE, FALSE)
    /\ UNCHANGED <<op, stack, mem, fd, packet, sig, null, stream, keys, wrong>>

pgp_writer_push ==
    /\ At({"push"})
    /\ \E ok \in Outcomes :
        /\ After(ok, ~ok)
        /\ stack' = IF ok THEN Append(stack, [w |-> Now.what, fin |-> Now.what \in {"base64", "stream"}]) ELSE stack
    /\ UNCHANGED <<op, mem, fd, packet, sig, null, stream, keys, wrong>>

\* Refused while a finaliser is due, and for the last writer.
pgp_writer_pop ==
    /\ At({"pop"}) /\ Goes
    /\ stack' = IF Last(stack).fin \/ Len(stack) = 1 THEN stack ELSE Front(stack)
    /\ UNCHANGED <<op, mem, fd, packet, sig, null, stream, keys, wrong>>

\* pgp_setup_file_write and pgp_setup_memory_write.
Setup ==
    /\ At({"open", "memory"})
    /\ \E ok \in Outcomes :
        /\ After(ok, ~ok)
        /\ stack' = IF ok THEN <<[w |-> Now.op, fin |-> FALSE]>> ELSE stack
        /\ fd' = IF Now.op = "open" THEN (IF ok THEN "open" ELSE "failed") ELSE fd
        /\ mem' = IF ok /\ Now.op = "memory" THEN "live" ELSE mem
    /\ UNCHANGED <<op, packet, sig, null, stream, keys, wrong>>

Succeed ==
    /\ At({"ok"}) /\ result' = "ok" /\ todo' = AtEnd(TRUE)
    /\ UNCHANGED <<op, stack, mem, fd, packet, sig, null, stream, keys, faults, lost, made, wrong>>

-----------------------------------------------------------------------------
(* Signatures in memory.                                                   *)
\* Without memory the signature has nothing to write to, and nobody is told.
SigMemory ==
    /\ At({"sigmem"}) /\ \E ok \in Outcomes : After(ok, ~ok) /\ null' = ~ok
    /\ UNCHANGED <<op, stack, mem, fd, packet, sig, stream, keys, wrong>>
NullWrite ==
    /\ At({"sig"}) /\ null /\ result' = "crashed" /\ todo' = <<>>
    /\ UNCHANGED <<op, stack, mem, fd, packet, sig, null, stream, keys, faults, lost, made, wrong>>
SigWrite ==
    /\ At({"sig"}) /\ ~null
    /\ \E ok \in Outcomes :
        /\ After(ok, ~ok)
        /\ sig' = IF ok THEN [sig EXCEPT !.mem = @ + Now.n] ELSE [sig EXCEPT !.short = TRUE]
    /\ UNCHANGED <<op, stack, mem, fd, packet, null, stream, keys, wrong>>

\* pgp_sig_end_hashed_subpkts: the length of what was written since hashoff.
Hashlen == sig.mem - sig.hashoff - 2
HashedBytes == CASE Now.what = "fields" -> sig.unhashoff [] Now.what = "trailer" -> sig.hashlen + 6 [] OTHER -> 0
SigNote ==
    /\ At({"signew", "hashoff", "hashlen", "unhashed", "hash"})
    /\ After(~(Now.op = "unhashed" /\ sig.hashlen = -1), FALSE)
    /\ sig' = CASE Now.op = "signew" -> NoSig
                [] Now.op = "hashoff" -> [sig EXCEPT !.hashoff = sig.mem]
                [] Now.op = "hashlen" -> [sig EXCEPT !.hashlen = Hashlen, !.unhashoff = sig.mem]
                [] Now.op = "hash" -> [sig EXCEPT !.hashed = Append(@, <<Now.what, HashedBytes>>), !.done = Now.what = "trailer"]
                [] OTHER -> sig
    /\ UNCHANGED <<op, stack, mem, fd, packet, null, stream, keys, wrong>>

-----------------------------------------------------------------------------
(* A stream that is encrypted while it is written: a literal packet in     *)
(* parts, inside an encrypted packet in parts.                             *)
partial_data_len(n) == IF n = 0 THEN 0 ELSE IF n > MaxPart THEN MaxPart ELSE CHOOSE p \in {2 ^ i : i \in 0 .. 30} : p <= n /\ n < 2 * p
Part(say, has) == [say |-> say, has |-> has]
PartsOf[n \in Nat] ==
    IF n = 0 THEN <<>> ELSE LET p == partial_data_len(n) IN <<Part(p, p)>> \o (IF p < n THEN PartsOf[n - p] ELSE <<>>)
Sum(parts) == FoldLeft(LAMBDA a, p : a + p.has, 0, parts)

\* The parts of the literal packet that a write appends: the header's name is not taken off
\* the data of the first part, and the length of the rest is cut to an unsigned.
UintMod == 4 * MaxPart   \* 2^32
stream_write_litdata_first(name, len) ==
    LET sz == 1 + 1 + name + 4 + len
        pd == partial_data_len(sz)
    IN  IF name > MaxName \/ pd < MinPart THEN <<>> ELSE <<Part(pd, 6 + name + (pd - 6))>> \o PartsOf[(sz - pd) % UintMod]
LitWrite(len, name) == IF stream.open THEN PartsOf[len] ELSE stream_write_litdata_first(name, stream.buffered + len)
\* Its bytes: the tag before the first part, one byte of length before each.
LitBytes(parts) == (IF stream.open \/ parts = <<>> THEN 0 ELSE 1) + Len(parts) + Sum(parts)
LitRead(parts, name) == IF stream.open \/ parts = <<>> THEN Sum(parts) ELSE Sum(parts) - 6 - name

stream_write_se_ip_first(len) ==
    LET sz == Preamble + 1 + len
        pd == partial_data_len(sz)
    IN  IF pd < MinPart THEN <<>> ELSE <<Part(pd, pd)>> \o PartsOf[sz - pd]
\* pgp_hash_add; -1 is a hash that was never made.
HashAdd(n) == IF stream.hashed = -1 THEN -1 ELSE stream.hashed + n
\* (Mutant: the length of the detection code is not announced.)
LastPartShort(len) == Part(len, len + Mdc)
stream_write_se_ip_last(len) == Part(len + Mdc, len + Mdc)

\* A write of len bytes: kept until there are enough for a first part.  A failure of
\* the random numbers is not passed on: only the version was written, and no hash made.
str_enc_se_ip_writer(len, name, rng) ==
    IF ~stream.open /\ stream.buffered + len < MinPart
    THEN [stream EXCEPT !.buffered = @ + len, !.given = @ + len]
    ELSE LET lit == LitWrite(len, name)
             enc == IF stream.open THEN PartsOf[LitBytes(lit)] ELSE stream_write_se_ip_first(LitBytes(lit))
             dropped == ~rng /\ ~stream.open /\ enc # <<>>
         IN  [stream EXCEPT !.open = TRUE, !.first = IF stream.open THEN @ ELSE stream.buffered + len,
                            !.given = @ + len, !.read = @ + LitRead(lit, name), !.lit = @ \o lit,
                            !.enc = @ \o (IF dropped THEN <<Part(Head(enc).say, 1)>> ELSE enc),
                            !.hashed = IF stream.open THEN HashAdd(LitBytes(lit))
                                       ELSE IF dropped \/ enc = <<>> THEN -1 ELSE Preamble + LitBytes(lit)]
\* What is left at the end: short data in one packet, or the last parts.
str_enc_se_ip_finaliser(name) ==
    IF ~stream.open
    THEN LET lit == pgp_write_litdata([len |-> stream.buffered, name |-> name])
             prog == pgp_write_se_ip_pktset(Bytes(lit))
         IN  [stream EXCEPT !.enc = <<Part(Announced(prog), Written(prog))>>, !.done = TRUE,
                            !.read = IF lit = Fail THEN 0 ELSE stream.buffered]
    ELSE [stream EXCEPT !.lit = Append(@, Part(0, 0)), !.enc = Append(@, stream_write_se_ip_last(1)),
                        !.hashed = HashAdd(1 + 2), !.done = TRUE]

-----------------------------------------------------------------------------
(* Data, and the ends.                                                     *)
Faults(kinds) == IF faults < MaxFaults THEN kinds \cup {"none"} ELSE {"none"}
Top == Last(stack).w

\* What deflating n bytes may give.
Squeezed(n) == {1, n, n + 5}
\* encrypt_se_ip_writer: a literal packet, compressed or not, in an encrypted one, at once.  Whether the packets
\* are complete is judged by their lengths alone, so that short ones may be cut; pgp_push_enc_crypt is not checked:
\* without memory for the cipher's writer the data are not encrypted.
SeIpWritten(f, lit, z, local) ==
    LET se_ip == pgp_write_se_ip_pktset(z)
        ok == f # "memory" /\ lit > Now.n /\ local > z
        whole == ok /\ f \notin {"literal", "encrypted"}
    IN  /\ Proceed(ok, f # "none")
        /\ lost' = IF ok /\ f # "none" THEN lost \cup {f} ELSE lost
        /\ made' = IF whole THEN made \cup Gives(Now) ELSE made
        /\ packet' = IF whole THEN [announced |-> Announced(se_ip), body |-> Written(se_ip), done |-> TRUE] ELSE packet
        /\ wrong' = IF ok /\ f = "crypt" THEN wrong \cup {"in clear"} ELSE wrong
encrypt_se_ip_writer ==
    /\ At({"data"}) /\ Top = "se_ip"
    /\ \E f \in Faults({"memory", "crypt", "literal", "encrypted"}) :
       \E lit \in LET litdata == pgp_write_litdata([len |-> Now.n, name |-> op.doc.name])
                  IN  IF f = "literal" THEN CutShort(litdata) ELSE {Bytes(litdata)} :
       \E z \in IF op.compress THEN {Bytes(pgp_writez(n)) : n \in Squeezed(lit)} ELSE {lit} :
       \E local \in IF f = "encrypted" THEN CutShort(pgp_write_se_ip_pktset(z)) ELSE {Bytes(pgp_write_se_ip_pktset(z))} :
           SeIpWritten(f, lit, z, local)
    /\ UNCHANGED <<op, stack, mem, fd, sig, null, stream, keys>>

\* The failures of str_enc_se_ip_writer: only those of memory that holds the data are passed on.
NameTooLong == op.doc.name > MaxName
FirstParts == ~stream.open /\ stream.buffered + Now.n >= MinPart
StreamFaults ==
    IF FirstParts /\ ~NameTooLong THEN {"memory", "crypt", "stream write", "rng"}
    ELSE IF stream.open /\ Now.n > 0 THEN {"memory", "crypt", "stream write"} ELSE {"memory"}
Harm(f) == CASE f = "crypt" -> {"in clear"} [] f = "rng" -> {"no preamble"} [] f = "stream write" -> {"cut"} [] OTHER -> {}
StreamWrite ==
    /\ At({"data"}) /\ Top = "stream"
    /\ \E f \in Faults(StreamFaults) :
        LET ignored == (IF f \in {"none", "memory"} THEN {} ELSE {f}) \cup (IF FirstParts /\ NameTooLong THEN {"file name"} ELSE {})
        IN  /\ Proceed(f # "memory", f # "none")
            /\ stream' = IF f = "memory" THEN stream ELSE str_enc_se_ip_writer(Now.n, op.doc.name, f # "rng")
            /\ lost' = IF f = "memory" THEN lost ELSE lost \cup ignored
            /\ made' = IF f # "memory" /\ ignored \subseteq {"crypt"} THEN made \cup Gives(Now) ELSE made
            /\ wrong' = wrong \cup Harm(f)
    /\ UNCHANGED <<op, stack, mem, fd, packet, sig, null, keys>>

\* Text to be signed passes the hash; data behind a stream that was not pushed stay as they are.
PlainWrite ==
    /\ At({"data"}) /\ Top \notin {"se_ip", "stream"}
    /\ \E ok \in Outcomes :
        /\ After(ok, ~ok)
        /\ sig' = IF ok /\ Top = "dash" THEN [sig EXCEPT !.hashed = Append(@, <<"text", 0>>)] ELSE sig
    /\ wrong' = IF Top = "dash" THEN wrong ELSE wrong \cup {"in clear"}
    /\ UNCHANGED <<op, stack, mem, fd, packet, null, stream, keys>>

\* Every finaliser that is due runs, from the top down; a failure is nobody's result, and a stream's
\* finaliser does not look at all of its own.
Due == {i \in DOMAIN stack : stack[i].fin}
StreamDue == \E i \in Due : stack[i].w = "stream"
FinalFaults == {Now.op} \cup IF StreamDue THEN {"crypt", "stream write"} ELSE {}
Finalised ==
    /\ todo' = Tail(todo)
    /\ \E f \in IF Due = {} THEN {"none"} ELSE Faults(FinalFaults) :
        LET ignored == (IF f = "none" THEN {} ELSE {f})
                         \cup (IF StreamDue /\ ~stream.open /\ NameTooLong THEN {"file name"} ELSE {})
        IN  /\ faults' = IF f = "none" THEN faults ELSE faults + 1
            /\ lost' = lost \cup ignored
            /\ made' = IF f = Now.op THEN made
                       ELSE made \cup {stack[i].w : i \in {j \in Due : stack[j].w = "stream" => ignored \subseteq {"crypt"}}}
            /\ stream' = IF f # Now.op /\ StreamDue THEN str_enc_se_ip_finaliser(op.doc.name) ELSE stream
            /\ wrong' = wrong \cup Harm(f) \cup (IF Due # {} /\ mem = "freed" THEN {"freed memory"} ELSE {})
pgp_writer_info_finalise ==
    /\ At({"finalise"}) /\ Finalised /\ stack' = [i \in DOMAIN stack |-> [stack[i] EXCEPT !.fin = FALSE]]
    /\ UNCHANGED <<op, result, mem, fd, packet, sig, null, keys>>
pgp_writer_close ==
    /\ At({"close"}) /\ Finalised /\ stack' = <<>>
    /\ UNCHANGED <<op, result, mem, fd, packet, sig, null, keys>>

\* close(fd) of pgp_teardown_file_write: fd is 0 before a file was opened.
TeardownFile ==
    /\ At({"closefd"}) /\ Goes
    /\ fd' = IF fd = "open" THEN "closed" ELSE fd
    /\ wrong' = IF fd = "none" THEN wrong \cup {"closed stdin"} ELSE wrong
    /\ UNCHANGED <<op, stack, mem, packet, sig, null, stream, keys>>
pgp_memory_free ==
    /\ At({"free"}) /\ Goes /\ mem' = IF mem = "live" THEN "freed" ELSE mem
    /\ UNCHANGED <<op, stack, fd, packet, sig, null, stream, keys, wrong>>
Loaded ==
    /\ At({"loaded"}) /\ Goes /\ keys' = Now.what
    /\ UNCHANGED <<op, stack, mem, fd, packet, sig, null, stream, wrong>>
\* The public subkey is in the primary key's list from the moment it is loaded.
pgp_key_free_data ==
    /\ At({"freekeys"}) /\ Goes /\ keys' = IF keys = "none" THEN "none" ELSE "freed"
    /\ wrong' = IF op.name = "generate_subkey" /\ keys # "none" THEN wrong \cup {"freed subkey listed"} ELSE wrong
    /\ UNCHANGED <<op, stack, mem, fd, packet, sig, null, stream>>
Done == todo = <<>> /\ UNCHANGED vars

Next ==
    \/ Write \/ PacketDone \/ Attempt \/ Unsupported \/ pgp_writer_push \/ pgp_writer_pop \/ Setup \/ Succeed
    \/ SigMemory \/ NullWrite \/ SigWrite \/ SigNote \/ encrypt_se_ip_writer \/ StreamWrite \/ PlainWrite \/ pgp_writer_info_finalise
    \/ pgp_writer_close \/ TeardownFile \/ pgp_memory_free \/ Loaded \/ pgp_key_free_data \/ Done
Spec == Init /\ [][Next]_vars

-----------------------------------------------------------------------------
(* Properties.                                                             *)

\* A packet is exactly as long as its header says, whatever writers were pushed and popped
\* while its body was written.  Not so for keys that pubkey_length does not know (packet-create.c:162).
ExactLengths ==
    packet.done =>
        \/ packet.announced = packet.body
        \/ op.key.alg \in {"RSA_ENCRYPT_ONLY", "RSA_SIGN_ONLY", "ELGAMAL"}

\* What a signature was made over is what the functions that check it (signature.c:506, :576,
\* stream-parse.c) hash, byte for byte, up to the trailer with the length of the hashed part;
\* unless memory failed while it was put together, which pgp_sig_start does not notice.
SignedAsChecked ==
    sig.done /\ ~sig.short =>
        LET first == CASE op.name = "generate_primary" -> pgp_check_useridcert_sig
                       [] op.name = "generate_subkey" -> pgp_check_subkey_sig
                       [] op.clear -> <<"text">>
                       [] OTHER -> <<"data">>
        IN  sig.hashed = [i \in DOMAIN first |-> <<first[i], 0>>]
                           \o <<<<"fields", 6 + sig.hashlen>>, <<"trailer", 6 + sig.hashlen>>>>

\* The pieces an operation is asked for, and those that may be missing after a failure that the code never looks at:
\* a stream's writer that is not pushed (writer.c:1326), packets cut in memory (writer.c:993, 1018, 1427-1616),
\* a file's name that is too long (writer.c:1413), and the keys of an export (pgp-key.c, rnp2.c).
Asked(o) ==
    CASE o.name \in {"sign_file", "sign_buf"} -> {"signature"} \cup (IF o.clear THEN {"text"} ELSE {"one pass", "literal"})
      [] o.name \in {"sign_detached", "sign_memory_detached"} -> {"signature"}
      [] o.name \in {"encrypt_file", "encrypt_buf"} -> {"session key", "cipher"} \cup (IF o.doc.pieces = <<>> THEN {} ELSE {"data"})
      [] o.name \in {"export_key", "export_public_key"} -> {"key"}
      [] o.name = "key_to_rawpacket" -> {"secret key"}
      [] o.name = "generate_primary" -> {"public key", "secret key", "user id", "signature", "public", "both"}
      [] OTHER -> {"public key", "secret key", "signature", "public", "both"}
Excused(what) ==
    CASE what = "stream" -> {"cipher"}
      [] what = "key" -> {"key"}
      [] what \in {"literal", "encrypted", "stream write", "rng", "file name"} -> {"data"}
      [] OTHER -> {}

\* An operation that reports success has written every piece it was asked for, but for those whose own failure
\* the code passes over.
PiecesWritten == result = "ok" => Asked(op) \subseteq made \cup UNION {Excused(what) : what \in lost}

\* And what it has written is whole: bytes of a signature are missing, data are in clear or without their
\* preamble, the end of a stream or of the armor is missing only after the failure that the code does not look
\* at there.
PiecesWhole ==
    result = "ok" /\ todo = <<>> =>
        /\ sig.short => "signature" \in lost
        /\ "in clear" \in wrong => lost \cap {"crypt", "stream"} # {}
        /\ "no preamble" \in wrong => "rng" \in lost
        /\ "cut" \in wrong => "stream write" \in lost
        /\ op.armor \/ op.clear \/ op.name = "export_key" =>
               \/ "base64" \in made
               \/ lost \cap {"armor memory", "linebreak", "base64", "key", "finalise", "close"} # {}
        /\ Asked(op) \cap {"cipher"} # {} /\ op.doc.len >= MaxPart =>
               "stream" \in made \/ lost \cap {"stream", "close", "stream write", "file name"} # {}
SuccessIsWritten == PiecesWritten /\ PiecesWhole

\* However an operation fails, no cipher, hash or sum is left above the output it still closes, every
\* finaliser has run before the writers are gone and what was opened is closed again.  The code
\* breaks this where it says: pgp_encrypt_file returns at once (crypto.c:391), pgp_sign_buf frees the
\* memory first (signature.c:1294), pgp_sign_detached closes descriptor 0 (signature.c:1313), a failed
\* pgp_generate_subkey leaves its output and a subkey that is listed (generate-key.c:519),
\* rnp_export_public_key never closes, and a signature without memory ends the program (signature.c:631, :739).
WritersReleased ==
    /\ result \in {"ok", "failed"} /\ ~At({"pop"}) => \A i \in DOMAIN stack : stack[i].w \notin {"crypt", "hash", "sum16"}
    /\ todo = <<>> /\ op.name # "encrypt_file" => fd # "open" \/ result = "crashed"
    /\ todo = <<>> /\ stack # <<>> =>
        \/ result = "crashed"
        \/ op.name \in {"encrypt_file", "generate_subkey"} /\ result = "failed"
        \/ op.name = "export_public_key" /\ result = "ok"
    /\ "freed memory" \in wrong => op.name = "sign_buf" /\ result = "failed" /\ (op.armor \/ op.clear)
    /\ "closed stdin" \in wrong => op.name = "sign_detached" /\ fd = "none"
    /\ "freed subkey listed" \in wrong => result = "failed" /\ faults > 0

\* A stream of any length, given in any pieces, is cut into parts that carry what they announce, powers of
\* two but for the last and a first one that is not too short; all of it is in the literal packet, which is all in
\* the encrypted one, and the detection code covers it.  Three exceptions, to the byte: with a file name the
\* first part is longer than it says by the name and as many bytes behind the data are read (writer.c:1436);
\* of a first write of 2^32 bytes or more whole multiples of 2^32 are left out (writer.c:1441); and a name that is
\* too long leaves the first write out.  Data leave in clear only if memory for a writer failed.
EncryptedInParts ==
    /\ stream.done /\ ~NameTooLong /\ wrong = {} =>
        LET sz == 6 + op.doc.name + stream.first
            over == IF stream.open THEN op.doc.name ELSE 0
            cut == IF stream.open THEN UintMod * ((sz - partial_data_len(sz)) \div UintMod) ELSE 0
            Exact(parts, more) ==
                /\ \A i \in DOMAIN parts : parts[i].has = parts[i].say + (IF i = 1 THEN more ELSE 0)
                /\ Len(parts) > 1 => Head(parts).say >= MinPart
                /\ \A i \in 1 .. Len(parts) - 1 : \E e \in 0 .. 30 : parts[i].say = 2 ^ e
        IN  /\ Exact(stream.lit, over) /\ Exact(stream.enc, 0) /\ stream.read = stream.given + over - cut
            /\ stream.open => /\ Sum(stream.lit) = 6 + over + stream.read
                              /\ stream.hashed = Preamble + 1 + Len(stream.lit) + Sum(stream.lit) + 2
                              /\ Sum(stream.enc) = 1 + stream.hashed - 2 + Mdc
    /\ "in clear" \in wrong => faults > 0

\* Lengths are right whether they are announced before a packet or part by part.
LengthsHold == ExactLengths /\ EncryptedInParts
=============================================================================
