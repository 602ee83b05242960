------------------------------- MODULE G10Keys -------------------------------
(***************************************************************************)
(* Secret keys in G10 files: writing and reading a key (key_store_g10.c),  *)
(* protecting and opening it (pgp-key.c), and the directory of key files,  *)
(* one for each key, that is saved and loaded file by file                 *)
(* (rnp_key_store.c, misc.c) by programs that end, crash and start again.  *)
(*                                                                         *)
(* Encryption is perfect: data open with the key and the vector they were  *)
(* encrypted with and are noise otherwise; a check sum is what it was      *)
(* computed from.  Numbers are sequences of bytes without leading zeros.   *)
(***************************************************************************)
EXTENDS SExp, FiniteSets

CONSTANTS
    Keys,        \* records with id, alg, and the numbers pub and sec
    Directories, \* contents of the directory at first: file names to tokens
    Passwords,
    Iterations,  \* of the derivation of keys from passwords
    MaxWrites,   \* bound: keys generated, protected, unprotected
    MaxFaults,   \* bound: failures, and changes of files by others
    MaxStarts    \* bound: programs

ASSUME G10KeysAssumption == {MaxWrites, MaxFaults, MaxStarts, Iterations} \subseteq Nat

VARIABLES
    disk,      \* the directory: file names to [toks, state]; the state is history: "sound",
               \*   "altered" (changed by others), "unknown" (changed when it was not protected)
    ring,      \* the key store: records [id, alg, pub, sec, enc, prot, pkt, state]
    pc,        \* "off", "load", "ready", "temp", "rename", "undefined"
    todo,      \* the files left to load
    at,        \* the key that is saved
    clock,     \* random numbers and the time: every write has its own
    faults, starts,
    saved,     \* what the last save returned: "none", "ok", "failed"
    cut,       \* history: a save ended early and left a temporary file
    torn,      \* history: the keys of which a file was renamed that was not written to its end
    stored,    \* history: the keys some save has stored
    told       \* history: the passwords each key has had since it was stored
vars == <<disk, ring, pc, todo, at, clock, faults, starts, saved, cut, torn, stored, told>>

Ids == {k.id : k \in Keys}
KeyOf(id) == CHOOSE k \in Keys : k.id = id
NoPassword == "none"     \* a null pointer; and what an unprotected key opens with
NoNumbers == [none |-> <<>>]

PubNames == [rsa |-> <<"n", "e">>, dsa |-> <<"p", "q", "g", "y">>, elg |-> <<"p", "g", "y">>]
SecNames == [rsa |-> <<"d", "p", "q", "u">>, dsa |-> <<"x">>, elg |-> <<"x">>]
Letter == [n |-> 110, e |-> 101, d |-> 100, p |-> 112, q |-> 113, u |-> 117, g |-> 103,
           y |-> 121, x |-> 120]
Name(l) == Bytes(<<Letter[l]>>)
formats == [aes |-> "openpgp-s2k3-sha1-aes-cbc", aes256 |-> "openpgp-s2k3-sha1-aes256-cbc",
            ocb |-> "openpgp-s2k3-ocb-aes"]
parse_format(type) == IF \E f \in DOMAIN formats : formats[f] = type
                      THEN CHOOSE f \in DOMAIN formats : formats[f] = type ELSE "none"

\* The key of a file, by its grip, which for RSA is made of the modulus alone.
Grip(alg, pub) ==
    IF \E k \in Keys : k.alg = alg /\ \A l \in ToSet(PubNames[alg]) :
                            (alg # "rsa" \/ l = "n") => k.pub[l] = pub[l]
    THEN (CHOOSE k \in Keys : k.alg = alg /\ \A l \in ToSet(PubNames[alg]) :
                            (alg # "rsa" \/ l = "n") => k.pub[l] = pub[l]).id
    ELSE "stray"

-----------------------------------------------------------------------------
(* Writing.                                                                 *)

\* A number with the highest bit set gets a zero in front.
write_bignum(e, l, num) ==
    add_sub_sexp_to_sexp(e, Blocks(<<Name(l), Bytes(IF num[1] >= 128 THEN <<0>> \o num ELSE num)>>))
WriteNumbers(e, names, nums) ==
    FoldLeft(LAMBDA x, l : write_bignum(x, l, nums[l]), e, names)

\* The case of ElGamal keys runs into the error behind it.
Writable(alg) == alg \in {"rsa", "dsa"}
write_pubkey(k) == WriteNumbers(<<Block(Word(k.alg))>>, PubNames[k.alg], k.pub)
write_seckey(e, k) == WriteNumbers(e, SecNames[k.alg], k.sec)

g10_calculated_hash(alg, pub, sec, time) ==
    [kind |-> "digest", of |-> [alg |-> alg, pub |-> pub, sec |-> sec, time |-> time]]

\* Encrypted: the secret numbers and a check sum over everything; random numbers r.
write_protected_seckey(e, k, password, r) ==
    LET raw == <<List(write_seckey(<<>>, k)),
                 List(Blocks(<<Word("hash"), Word("sha1"),
                               g10_calculated_hash(k.alg, k.pub, k.sec, <<r>>)>>))>>
        salt == [kind |-> "salt", v |-> <<r>>]
        iv == [kind |-> "iv", v |-> <<r>>]
        data == [kind |-> "cipher", key |-> <<password, "aes">>, salt |-> salt.v,
                 iters |-> Iterations, iv |-> iv.v, plain |-> write_sexp(raw) \o <<Pad>>]
        s2k == Blocks(<<Word("sha1"), salt, [kind |-> "iter", v |-> <<Iterations>>]>>)
        params == add_block_to_sexp(<<List(s2k)>>, iv)
        section == Append(Append(Blocks(<<Word("protected"), Word(formats["aes"])>>),
                                 List(params)), Block(data))
    IN  e \o <<List(section),
               List(Blocks(<<Word("protected-at"), [kind |-> "time", v |-> <<r>>]>>))>>

\* Without a password the key is not protected.
g10_write_seckey(k, password, r) ==
    IF password = NoPassword
    THEN write_sexp(<<Block(Word("private-key")), List(write_seckey(write_pubkey(k), k))>>)
    ELSE write_sexp(<<Block(Word("protected-private-key")),
                      List(write_protected_seckey(write_pubkey(k), k, password, r))>>)

-----------------------------------------------------------------------------
(* Reading.  twice: numbers were released twice, as happens when one that   *)
(* is not the first of its kind is missing.                                 *)

Refused(twice) == [ok |-> FALSE, twice |-> twice, enc |-> FALSE, prot |-> FALSE, alg |-> "none",
                   pub |-> NoNumbers, sec |-> NoNumbers]
Strip(v) == IF v[1] = 0 THEN Tail(v) ELSE v
BigNum(var) == IF var = <<>> THEN <<>> ELSE IF ~var[2].blk THEN <<>> ELSE Strip(var[2].b.v)
read_bignum(e, l) == BigNum(lookup_variable(e, Name(l)))
ReadNumbers(e, names) == [l \in ToSet(names) |-> read_bignum(e, l)]
Complete(nums) == \A l \in DOMAIN nums : nums[l] # <<>>
FreedTwice(names, nums) == ~Complete(nums) /\ nums[names[1]] # <<>>

\* The digits are copied without an end: what follows in memory may be digits too.
Tails == {"clean", "digits"}
block_to_unsigned(b, tail) == IF tail = "digits" THEN b.v[1] * 10 ELSE b.v[1]

decrypt_protected_section(data, password, mode, salt, iters, iv) ==
    parse_sexp(IF /\ data.key = <<password, mode>> /\ data.salt = salt
                  /\ data.iters = iters /\ data.iv = iv
               THEN data.plain ELSE <<Pad>>)

\* Whether an element is a block of the kind, which stands for its length or its text.
Is(x, kind) == x.blk /\ x.b.kind = kind

\* The time of protection.  One of another length is refused; the uninitialised one of a file
\* without it matches no check sum.
WrongTime(var) == var # <<>> /\ var[2].blk /\ var[2].b.kind # "time"
ProtectedAt(var) == IF var = <<>> THEN <<>> ELSE IF var[2].blk THEN var[2].b.v ELSE <<>>
GoodHash(x, digest) ==
    /\ ~x.blk /\ Len(x.s) >= 3
    /\ Is(x.s[1], "hash") /\ Is(x.s[2], "sha1") /\ Is(x.s[3], "digest")
    /\ x.s[3].b = digest

\* Mutant: the check sum is not looked at.
OpenUnchecked(d, alg, pub, sec, time) ==
    IF ~Complete(sec) THEN Refused(FreedTwice(SecNames[alg], sec))
    ELSE [Refused(FALSE) EXCEPT !.ok = TRUE, !.prot = TRUE, !.alg = alg, !.pub = pub,
                                !.sec = sec]

\* What is decrypted: a list with the numbers, and the check sum if there is another one.
OpenSection(d, alg, pub, sec, time) ==
    IF ~Complete(sec) THEN Refused(FreedTwice(SecNames[alg], sec))
    ELSE IF Len(d) > 1 /\ ~GoodHash(d[2], g10_calculated_hash(alg, pub, sec, time))
    THEN Refused(FALSE)
    ELSE [Refused(FALSE) EXCEPT !.ok = TRUE, !.prot = TRUE, !.alg = alg, !.pub = pub,
                                !.sec = sec]
OpenParsed(d, e, alg, pub) ==
    IF ~d.ok THEN Refused(FALSE)
    ELSE IF d.e = <<>> THEN Refused(FALSE)
    ELSE IF d.e[1].blk \/ WrongTime(lookup_variable(e, Word("protected-at"))) THEN Refused(FALSE)
    ELSE OpenSection(d.e, alg, pub, ReadNumbers(d.e[1].s, SecNames[alg]),
                     ProtectedAt(lookup_variable(e, Word("protected-at"))))

GoodSection(s) ==
    /\ Len(s) = 4 /\ s[2].blk /\ ~s[3].blk /\ s[4].blk
    /\ s[4].b.kind = "cipher"
    /\ parse_format(s[2].b.kind) # "none"
    /\ Len(s[3].s) = 2 /\ ~s[3].s[1].blk /\ Is(s[3].s[2], "iv")
    /\ LET a == s[3].s[1].s
       IN  Len(a) = 3 /\ Is(a[1], "sha1") /\ Is(a[2], "salt") /\ Is(a[3], "iter")

parse_protected_seckey(s, e, alg, pub, password, tail) ==
    IF ~GoodSection(s) THEN Refused(FALSE)
    ELSE IF password = NoPassword
    THEN [Refused(FALSE) EXCEPT !.ok = TRUE, !.enc = TRUE, !.prot = TRUE, !.alg = alg,
                                !.pub = pub]
    ELSE OpenParsed(decrypt_protected_section(s[4].b, password, parse_format(s[2].b.kind),
                        s[3].s[1].s[2].b.v, block_to_unsigned(s[3].s[1].s[3].b, tail),
                        s[3].s[2].b.v),
                    e, alg, pub)

ParseSecret(protected, e, alg, pub, sec, password, tail) ==
    IF ~Complete(pub) THEN Refused(FreedTwice(PubNames[alg], pub))
    ELSE IF protected
    THEN parse_protected_seckey(lookup_variable(e, Word("protected")), e, alg, pub, password, tail)
    ELSE IF ~Complete(sec) THEN Refused(FreedTwice(SecNames[alg], sec))
    ELSE [Refused(FALSE) EXCEPT !.ok = TRUE, !.alg = alg, !.pub = pub, !.sec = sec]

KeyLevel(x) ==
    /\ x.ok /\ Len(x.e) = 2 /\ x.e[1].blk /\ ~x.e[2].blk
    /\ x.e[1].b.kind \in {"private-key", "protected-private-key"}
    /\ Len(x.e[2].s) >= 2 /\ x.e[2].s[1].blk /\ x.e[2].s[1].b.kind \in DOMAIN PubNames
ParseTop(x, password, tail) ==
    IF ~KeyLevel(x) THEN Refused(FALSE)
    ELSE LET e == x.e[2].s   alg == e[1].b.kind
         IN  ParseSecret(x.e[1].b.kind = "protected-private-key", e, alg,
                         ReadNumbers(e, PubNames[alg]), ReadNumbers(e, SecNames[alg]),
                         password, tail)

g10_parse_seckey(toks, password, tail) == ParseTop(parse_sexp(toks), password, tail)

-----------------------------------------------------------------------------
(* Keys in memory.                                                          *)

\* The password of a file that nobody changed.
PasswordOf(toks) ==
    LET c == {i \in DOMAIN toks : toks[i].t = "b" /\ toks[i].b.kind = "cipher"}
    IN  IF c = {} THEN NoPassword ELSE toks[Min(c)].b.key[1]

Entry(r, toks, state) ==
    [id |-> Grip(r.alg, r.pub), alg |-> r.alg, pub |-> r.pub, sec |-> r.sec, enc |-> r.enc,
     prot |-> r.enc, pkt |-> toks, state |-> state]
Tell(id, password) ==
    told' = IF id \in Ids THEN [told EXCEPT ![id] = @ \cup {password}] ELSE told

\* A refused file is left out, whoever asked for it; r is what the parser returned.
rnp_key_store_g10_from_mem(r, toks, state) ==
    IF r.twice THEN pc' = "undefined" /\ UNCHANGED <<ring, told>>
    ELSE IF ~r.ok THEN UNCHANGED <<ring, told, pc>>
    ELSE /\ ring' = Append(ring, Entry(r, toks, state))
         /\ Tell(Grip(r.alg, r.pub), PasswordOf(toks))
         /\ UNCHANGED pc

Init ==
    /\ \E d \in Directories : disk = [f \in DOMAIN d |-> [toks |-> d[f], state |-> "sound"]]
    /\ ring = <<>> /\ pc = "off" /\ todo = {} /\ at = 0
    /\ clock = 0 /\ faults = 0 /\ starts = 0
    /\ saved = "none" /\ cut = FALSE /\ torn = {} /\ stored = {}
    /\ told = [id \in Ids |-> {}]

Ready == pc = "ready" /\ clock < MaxWrites /\ clock' = clock + 1 /\ saved' = "none"
Fault == faults < MaxFaults /\ faults' = faults + 1
files == <<disk, todo, at, starts, cut, torn, stored>>

\* A generated key is written without protection and read back.
Generate(k) ==
    /\ Ready /\ \A i \in DOMAIN ring : ring[i].id # k.id
    /\ Writable(k.alg)
    /\ \E toks \in {g10_write_seckey(k, NoPassword, clock)} :
         \E r \in {g10_parse_seckey(toks, NoPassword, "clean")} :
            rnp_key_store_g10_from_mem(r, toks, "sound")
    /\ UNCHANGED <<files, faults>>

\* The packet is replaced only if the new one could be written.
Rewrite(i, k, password, prot) ==
    /\ IF Writable(k.alg)
       THEN /\ ring' = [ring EXCEPT ![i].pkt = g10_write_seckey(k, password, clock),
                                    ![i].prot = prot]
            /\ Tell(k.id, password)
       ELSE UNCHANGED <<ring, told>>
    /\ UNCHANGED pc

pgp_key_protect_password(i, password) ==
    /\ Ready /\ ~ring[i].enc
    /\ Rewrite(i, ring[i], password, TRUE)
    /\ UNCHANGED <<files, faults>>
\* No random numbers: nothing is changed.
ProtectFails(i) == Ready /\ Fault /\ ~ring[i].enc /\ UNCHANGED <<files, ring, told, pc>>

\* A locked key is decrypted for the new packet and stays locked.
pgp_key_unprotect(i, password, tail) ==
    /\ Ready /\ ring[i].prot
    /\ \E r \in {IF ring[i].enc THEN g10_parse_seckey(ring[i].pkt, password, tail)
                 ELSE [Refused(FALSE) EXCEPT !.ok = TRUE, !.sec = ring[i].sec]} :
         IF r.twice THEN pc' = "undefined" /\ UNCHANGED <<ring, told>>
         ELSE IF ~r.ok THEN UNCHANGED <<ring, told, pc>>
         ELSE Rewrite(i, [ring[i] EXCEPT !.sec = r.sec], NoPassword, FALSE)
    /\ UNCHANGED <<files, faults>>

pgp_key_unlock(i, password, tail) ==
    /\ pc = "ready" /\ ring[i].enc
    /\ \E r \in {g10_parse_seckey(ring[i].pkt, IF ring[i].prot THEN password ELSE "", tail)} :
         IF r.twice THEN pc' = "undefined" /\ UNCHANGED ring
         ELSE IF ~r.ok THEN UNCHANGED <<ring, pc>>
         ELSE ring' = [ring EXCEPT ![i].sec = r.sec, ![i].enc = FALSE] /\ UNCHANGED pc
    /\ UNCHANGED <<files, faults, clock, told, saved>>

pgp_key_lock(i) ==
    /\ pc = "ready" /\ ~ring[i].enc
    /\ ring' = [ring EXCEPT ![i].sec = NoNumbers, ![i].enc = TRUE]
    /\ UNCHANGED <<files, faults, clock, pc, told, saved>>

-----------------------------------------------------------------------------
(* The directory.                                                           *)

KeyFile(id) == <<id, 0>>
\* mkstemp: a name that is not taken.
TempFile(id) == <<id, Min({n \in 1 .. MaxFaults + 1 : <<id, n>> \notin DOMAIN disk})>>
Put(f, toks, state) ==
    disk' = [g \in DOMAIN disk \cup {f} |->
                 IF g = f THEN [toks |-> toks, state |-> state] ELSE disk[g]]
Rename(from, f) ==
    disk' = [g \in (DOMAIN disk \ {from}) \cup {f} |-> disk[IF g = f THEN from ELSE g]]
memory == <<ring, clock, starts, told, todo>>

rnp_key_store_write_to_file ==
    /\ pc = "ready" /\ saved = "none" /\ ring # <<>>
    /\ pc' = "temp" /\ at' = 1
    /\ UNCHANGED <<disk, memory, faults, saved, cut, torn, stored>>

SaveFails == pc' = "ready" /\ saved' = "failed" /\ at' = 0

\* The temporary file of key number at is written.
WriteTemp ==
    /\ pc = "temp" /\ pc' = "rename"
    /\ Put(TempFile(ring[at].id), ring[at].pkt, ring[at].state)
    /\ UNCHANGED <<memory, at, faults, saved, cut, torn, stored>>
\* Mutant: the key file itself is written.
WriteInPlaceFails ==
    /\ pc = "temp" /\ Fault /\ SaveFails
    /\ Put(KeyFile(ring[at].id), Front(ring[at].pkt), "sound") /\ UNCHANGED cut
    /\ UNCHANGED <<memory, torn, stored>>
\* It cannot be created; or a part is written, the error is seen, and the part stays there.
WriteTempFails ==
    /\ pc = "temp" /\ Fault /\ SaveFails
    /\ \/ UNCHANGED <<disk, cut>>
       \/ Put(TempFile(ring[at].id), Front(ring[at].pkt), "altered") /\ cut' = TRUE
    /\ UNCHANGED <<memory, torn, stored>>
\* The end is lost when fclose writes it, and the result of fclose is not looked at.
WriteTempTorn ==
    /\ pc = "temp" /\ Fault /\ pc' = "rename"
    /\ Put(TempFile(ring[at].id), Front(ring[at].pkt), "altered")
    /\ torn' = torn \cup {ring[at].id}
    /\ UNCHANGED <<memory, at, saved, cut, stored>>

\* The file written last: the highest number of this key.
Temp == <<ring[at].id, Max({f[2] : f \in {g \in DOMAIN disk : g[1] = ring[at].id}})>>
\* Mutant: the save ends with the first key.
SaveFirst(last) ==
    /\ pc' = "ready" /\ at' = 0 /\ saved' = "ok"
    /\ stored' = stored \cup {ring[i].id : i \in DOMAIN ring}
SaveNext(last) ==
    IF last THEN /\ pc' = "ready" /\ at' = 0 /\ saved' = "ok"
                 /\ stored' = stored \cup {ring[i].id : i \in DOMAIN ring}
            ELSE pc' = "temp" /\ at' = at + 1 /\ UNCHANGED <<saved, stored>>
RenameTemp ==
    /\ pc = "rename"
    /\ Rename(Temp, KeyFile(ring[at].id))
    /\ SaveNext(at = Len(ring))
    /\ UNCHANGED <<memory, faults, cut, torn>>
RenameFails ==
    /\ pc = "rename" /\ Fault /\ SaveFails /\ cut' = TRUE
    /\ UNCHANGED <<disk, memory, torn, stored>>

\* The program ends, in the middle of a save if it crashes.
Stops ==
    /\ pc \in {"ready", "temp", "rename"}
    /\ IF pc = "ready" THEN UNCHANGED faults ELSE Fault
    /\ pc' = "off" /\ ring' = <<>> /\ at' = 0 /\ saved' = "none"
    /\ cut' = (cut \/ pc = "rename")
    /\ UNCHANGED <<disk, clock, starts, told, todo, torn, stored>>

\* Every file of the directory is read, temporary ones too, in any order.
rnp_key_store_load_from_file ==
    /\ pc = "off" /\ starts < MaxStarts /\ starts' = starts + 1
    /\ pc' = "load" /\ todo' = DOMAIN disk
    /\ UNCHANGED <<disk, ring, at, clock, faults, saved, cut, torn, stored, told>>
LoadFile(f) ==
    /\ pc = "load" /\ todo' = todo \ {f}
    /\ \E r \in {g10_parse_seckey(disk[f].toks, NoPassword, "clean")} :
         rnp_key_store_g10_from_mem(r, disk[f].toks, disk[f].state)
    /\ UNCHANGED <<disk, at, clock, faults, starts, saved, cut, torn, stored>>
Loaded ==
    /\ pc = "load" /\ todo = {} /\ pc' = "ready"
    /\ UNCHANGED <<disk, ring, todo, at, clock, faults, starts, saved, cut, torn, stored, told>>

\* While no program runs a file loses its end, or a name, a number, the salt or the time in it
\* is changed, in clear or in what is decrypted.
Altered(toks) ==
    {[toks EXCEPT ![j].b.v = <<7>>] :
        j \in {i \in DOMAIN toks : toks[i].t = "b" /\ toks[i].b.kind \in {"bytes", "salt", "time"}}}
Damaged(toks) ==
    {Front(toks)} \cup Altered(toks)
    \cup UNION {{[toks EXCEPT ![j].b.plain = p] : p \in Altered(toks[j].b.plain)} :
                    j \in {i \in DOMAIN toks : toks[i].t = "b" /\ toks[i].b.kind = "cipher"}}
Damage(f) ==
    /\ pc = "off" /\ starts \in 1 .. MaxStarts - 1 /\ Fault /\ disk[f].toks # <<>>
    /\ \E toks \in Damaged(disk[f].toks) :
           Put(f, toks, IF PasswordOf(disk[f].toks) = NoPassword THEN "unknown" ELSE "altered")
    /\ UNCHANGED <<ring, pc, todo, at, clock, starts, saved, cut, torn, stored, told>>

Use(i) ==
    \/ \E p \in Passwords : pgp_key_protect_password(i, p)
    \/ ProtectFails(i)
    \/ \E p \in Passwords, tail \in Tails :
           pgp_key_unprotect(i, p, tail) \/ pgp_key_unlock(i, p, tail)
    \/ pgp_key_lock(i)

Next ==
    \/ \E k \in Keys : Generate(k)
    \/ \E i \in DOMAIN ring : Use(i)
    \/ rnp_key_store_write_to_file \/ WriteTemp \/ WriteTempFails \/ WriteTempTorn
    \/ RenameTemp \/ RenameFails \/ Stops
    \/ rnp_key_store_load_from_file \/ (\E f \in todo : LoadFile(f)) \/ Loaded
    \/ \E f \in DOMAIN disk : Damage(f)

Spec == Init /\ [][Next]_vars

-----------------------------------------------------------------------------
\* A key that was written and that nobody changed opens with its password and with no other, and
\* has its own numbers then, with one exception: a protected key may be refused with its own
\* password when digits follow the iterations in memory (block_to_unsigned).  And a protected
\* file that was changed, in the part in clear or in the encrypted one, is refused or shows the
\* numbers of the key, whatever follows in memory (write_protected_seckey,
\* parse_protected_seckey; without protection nothing detects a change).
OpensAsWritten ==
    /\ \A i \in {j \in DOMAIN ring : ring[j].state = "sound"} :
         LET x == parse_sexp(ring[i].pkt)
             pw == PasswordOf(ring[i].pkt)
         IN  \A p \in Passwords, tail \in Tails :
            LET r == ParseTop(x, p, tail)
            IN  /\ r.ok => /\ pw \in {NoPassword, p}
                           /\ r.pub = KeyOf(ring[i].id).pub
                           /\ r.sec = KeyOf(ring[i].id).sec
                /\ pw = NoPassword \/ (pw = p /\ tail = "clean") => r.ok
    /\ \A f \in {g \in DOMAIN disk : disk[g].state # "unknown"} :
         LET x == parse_sexp(disk[f].toks)
         IN  \A p \in Passwords, tail \in Tails :
            LET r == ParseTop(x, p, tail)
            IN  r.ok /\ r.prot => /\ r.pub = KeyOf(f[1]).pub
                                  /\ r.sec = KeyOf(f[1]).sec

\* What a successful save leaves in the file of a key is what the key in memory is, if the key
\* is there once; and it is there twice only when an earlier save was interrupted, whose
\* temporary file is loaded like a key file (rnp_key_store_write_to_file,
\* rnp_key_store_load_from_file).
SavedIsNewest ==
    /\ saved = "ok" =>
         \A i \in DOMAIN ring :
            (ring[i].id \notin torn /\ \A j \in DOMAIN ring : ring[j].id = ring[i].id => i = j)
                => /\ KeyFile(ring[i].id) \in DOMAIN disk
                   /\ disk[KeyFile(ring[i].id)].toks = ring[i].pkt
    /\ \A i, j \in DOMAIN ring : ring[i].id = ring[j].id /\ i # j
                                => cut \/ ring[i].state # "sound"

\* A key that some save has stored stays in its file whatever fails later, and opens with a
\* password it has had, unless the file system lost the end of the file or somebody changed it
\* (pgp_mem_writefile renames a complete file), or digits follow the iterations in memory when
\* it is read (block_to_unsigned): then it is refused and never shows other numbers.
KeyFilesSurvive ==
    \A id \in stored \cap Ids :
        /\ KeyFile(id) \in DOMAIN disk
        /\ id \notin torn /\ disk[KeyFile(id)].state = "sound" =>
             LET toks == disk[KeyFile(id)].toks
             IN  /\ PasswordOf(toks) \in told[id]
                 /\ LET x == parse_sexp(toks)
                    IN  \A tail \in Tails :
                       LET r == ParseTop(x, PasswordOf(toks), tail)
                       IN  IF r.ok THEN r.sec = KeyOf(id).sec
                                   ELSE tail = "digits" /\ PasswordOf(toks) # NoPassword
=============================================================================
