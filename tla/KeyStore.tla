------------------------------ MODULE KeyStore ------------------------------
(***************************************************************************)
(* Key rings: the arrays of rnp_key_store.c, loading them (key_store_pgp.c,*)
(* key_store_kbx.c), importing and generating keys (rnp.c), and saving the *)
(* rings (misc.c), by programs that end, crash and are started again.      *)
(*                                                                         *)
(* A ring file is a sequence of blobs, each a sequence of packets: a GPG   *)
(* file has one, a KBX file one for each primary key.  A pointer to a key  *)
(* is a place in an array; it is stale when realloc has moved the array.   *)
(***************************************************************************)
EXTENDS Integers, Sequences, FiniteSets, SequencesExt

CONSTANTS
    Subkeys,    \* the names of keys that are subkeys; other names are of primary keys
    Fresh,      \* the names of the generated primary key and subkey
    Files,      \* contents of the ring files at first
    Imports,    \* contents of the files that are imported
    Formats,    \* of the rings: "GPG", "KBX"
    Grow,       \* the constant of EXPAND_ARRAY
    MaxStarts,  \* bound: processes
    MaxOps      \* bound: imports and generated keys

VARIABLES
    fmt,      \* the format of the rings
    file,     \* the ring files
    rings,    \* "pub", "sec" and the temporary store of an import
    pc,       \* "off", "load", "ready", "import", "sub", "generate", "save",
              \*   "temp" (a temporary file is there), "clean", "undefined"
    op,       \* "load", "import", "generate"
    in,       \* the blobs left to load
    to,       \* the ring that is loaded or saved
    cb,       \* the loader: whether there is a key, and last_primary
    errors,   \* the parser has reported an error
    loaded,   \* history: the rings that were loaded completely by this process
    at,       \* the indices i and j of rnp_import_key
    ik,       \* importedkey of rnp_import_key
    grips,    \* imported_grips
    img,      \* the image that is saved
    result,   \* what the operation returned
    counts,   \* processes started and operations
    inp,      \* history: the file that is imported
    had,      \* history: the keys of each ring before the import
    torn,     \* history: an image was not written to its end and nobody noticed
    shared    \* history: data of a key in a ring was freed with the temporary store
vars == <<fmt, file, rings, pc, op, in, to, cb, errors, loaded, at, ik, grips, img, result,
          counts, inp, had, torn, shared>>

Rings == {"pub", "sec"}
NoPtr == [ring |-> "none", gen |-> 0, idx |-> 0]
Stack == [ring |-> "stack", gen |-> 0, idx |-> 0]
NoFile == [there |-> FALSE, blobs |-> <<>>]
NoKey == [key |-> FALSE, last |-> NoPtr]
EmptyRing == [keys |-> <<>>, vsize |-> 0, gen |-> 0, x509 |-> FALSE]

IsSub(name) == name \in Subkeys
IsKey(p) == p.k = "key"
KeyPacket(name, sec) == [k |-> "key", name |-> name, sec |-> sec]
Packet(k) == [k |-> k, name |-> k, sec |-> FALSE]
Names(blobs) == UNION {{b[n].name : n \in {m \in DOMAIN b : IsKey(b[m])}} : b \in Range(blobs)}
RingNames(r) == {rings[r].keys[n].name : n \in DOMAIN rings[r].keys}

\* A ring file for keys that are all secret or all public, in a format.
Contents(f, blobs, sec) ==
    LET own == [b \in DOMAIN blobs |-> [n \in DOMAIN blobs[b] |-> [blobs[b][n] EXCEPT !.sec = sec /\ IsKey(blobs[b][n])]]]
    IN  IF f = "KBX" THEN own ELSE <<SelectSeq(FlattenSeq(own), LAMBDA p : p.k # "x509")>>

\* What a packet is; one that is no key has its kind for a name.  The subkeys of a
\* blob come behind a primary key.
Kinds == {"key", "uid", "sig", "half", "x509", "odd", "stop"}
Labels == Kinds \cup STRING
Packets == [k : Kinds, name : Labels, sec : BOOLEAN]
Blobs == Seq(Seq(Packets))
Led(b) ==
    \A n \in DOMAIN b : (IsKey(b[n]) /\ IsSub(b[n].name)) =>
        \E m \in 1 .. n - 1 : IsKey(b[m]) /\ ~IsSub(b[m].name)

ASSUME KeyStoreAssumption ==
    /\ Grow \in Nat \ {0} /\ {MaxStarts, MaxOps} \subseteq Nat
    /\ Formats \subseteq {"GPG", "KBX"} /\ Fresh[2] \in Subkeys /\ Fresh[1] \notin Subkeys
    /\ {Fresh[1], Fresh[2]} \subseteq Labels /\ Imports \subseteq Blobs

ASSUME FilesAssumption ==
    \A f \in Formats, c \in Files, s \in BOOLEAN :
        /\ Contents(f, c, s) \in Blobs
        /\ f = "KBX" => \A b \in DOMAIN Contents(f, c, s) : Led(Contents(f, c, s)[b])

Init ==
    /\ fmt \in Formats
    /\ \E p, s \in Files :
        file = [r \in Rings |->
                  LET c == IF r = "pub" THEN p ELSE s
                  IN  IF c = <<>> THEN NoFile
                      ELSE [there |-> TRUE, blobs |-> Contents(fmt, c, r = "sec")]]
    /\ rings = [r \in Rings \cup {"tmp"} |-> EmptyRing]
    /\ pc = "off" /\ op = "load" /\ in = <<>> /\ to = "pub" /\ cb = NoKey /\ errors = FALSE
    /\ loaded = {} /\ at = <<0, 0>> /\ ik = NoPtr /\ grips = <<>> /\ img = <<>> /\ result = FALSE
    /\ counts = <<0, 0>> /\ inp = <<>> /\ had = [r \in Rings |-> {}] /\ torn = FALSE /\ shared = FALSE

-----------------------------------------------------------------------------
(* Arrays and pointers. *)

\* EXPAND_ARRAY: what the ring may be when there is room for one more key.
EXPAND_ARRAY(ring) ==
    IF Len(ring.keys) < ring.vsize THEN {ring}
    ELSE {[ring EXCEPT !.vsize = 2 * @ + Grow, !.gen = g] :
            g \in IF ring.keys = <<>> THEN {ring.gen} ELSE {ring.gen, ring.gen + 1}}

\* realloc fails: the array stays as it is, and the key is written behind it.
OutOfRoom(ring) == Len(ring.keys) = ring.vsize /\ ring.vsize > 0

rnp_key_store_add_key(ring, key) == {[g EXCEPT !.keys = Append(@, key)] : g \in EXPAND_ARRAY(ring)}

\* A pointer to element n of a ring.
Ref(r, ring, n) == [ring |-> r, gen |-> ring.gen, idx |-> n]
Live(p) ==
    \/ p.ring = "stack" /\ op = "generate"
    \/ p.ring \in DOMAIN rings /\ p.gen = rings[p.ring].gen /\ p.idx \in DOMAIN rings[p.ring].keys

\* A signature of a key: its user id, and whether its content was filled in.
Sig(uid, whole) == [uid |-> uid, whole |-> whole]

Generated(n, sec) ==
    [name |-> Fresh[n], sec |-> sec, own |-> 0, uids |-> 2 - n, sigs |-> <<Sig(2 - n, TRUE)>>,
     pkts |-> <<KeyPacket(Fresh[n], sec)>> \o (IF n = 1 THEN <<Packet("uid")>> ELSE <<>>) \o <<Packet("sig")>>,
     subs |-> IF n = 1 THEN <<Stack>> ELSE <<>>]
Deref(p) == IF p.ring = "stack" THEN Generated(2, to = "sec") ELSE rings[p.ring].keys[p.idx]

\* rnp_key_store_get_key_by_grip: the first one, or 0.
rnp_key_store_get_key_by_grip(ring, name) ==
    SelectInSeq(ring.keys, LAMBDA key : key.name = name)

rnp_key_store_remove_key(ring, n) == [ring EXCEPT !.keys = RemoveAt(@, n)]

Blob == IF in = <<>> THEN <<>> ELSE in[1]
Undefined == pc' = "undefined"

-----------------------------------------------------------------------------
(* Loading. *)

rnp_key_store_clear(ring) == [ring EXCEPT !.keys = <<>>, !.x509 = FALSE]

\* rnp_key_store_load_from_file starts with the ring r; a missing file is an error.
Open(r, blobs) ==
    /\ pc' = "load" /\ to' = r /\ in' = blobs /\ cb' = NoKey /\ errors' = FALSE

\* The ring was read, with the result ok.  rnp_key_store_load_keys goes on with
\* the secret ring if the public one has keys; rnp_import_key goes on with the
\* keys of the temporary store.
LoadOver(ok, ring) ==
    LET good == ok /\ ring.keys # <<>> IN
    /\ loaded' = IF good /\ to \in Rings THEN loaded \cup {to} ELSE loaded
    /\ IF to = "pub" /\ good /\ file["sec"].there
       THEN /\ Open("sec", file["sec"].blobs)
            /\ rings' = [rings EXCEPT !["pub"] = ring, !["sec"] = rnp_key_store_clear(@)]
            /\ UNCHANGED <<at, result>>
       ELSE /\ rings' = [rings EXCEPT ![to] = ring]
            /\ pc' = IF to # "tmp" THEN "ready" ELSE IF good THEN "import" ELSE "clean"
            /\ at' = <<1, 1>> /\ result' = FALSE
            /\ in' = <<>> /\ cb' = NoKey
            /\ UNCHANGED <<to, errors>>

quiet == <<fmt, file, ik, grips, img, inp, had, torn, shared>>

\* A process starts and calls rnp_key_store_load_keys.
Start ==
    /\ pc = "off" /\ counts[1] < MaxStarts
    /\ counts' = <<counts[1] + 1, counts[2]>>
    /\ op' = "load" /\ loaded' = {} /\ UNCHANGED <<at, result, quiet>>
    /\ IF file["pub"].there THEN Open("pub", file["pub"].blobs) /\ UNCHANGED rings
       ELSE pc' = "ready" /\ UNCHANGED <<to, in, cb, errors, rings>>

\* parse_key_attributes for a packet that is no key: nothing is kept once an
\* error was reported; without a key it is one.  Then PGP_PARSER_PACKET_END keeps
\* the packet.
parse_key_attributes(key, p) ==
    [key EXCEPT !.uids = IF p.k = "uid" THEN @ + 1 ELSE @,
                !.sigs = IF p.k = "sig" THEN Append(@, Sig(key.uids, TRUE)) ELSE @,
                !.pkts = Append(@, p)]

\* PGP_PTAG_CT_SIGNATURE_HEADER: the signature is there before the rest of it was
\* read.  If the parser fails at the rest, nothing is filled in and the packet has
\* no PGP_PARSER_PACKET_END.
SignatureHeader(key) == [key EXCEPT !.sigs = Append(@, Sig(key.uids, FALSE))]

Keeps == ~errors

\* cb_keyring_parse with a key packet: the key is added; a subkey is recorded with
\* the last primary key.
NewKey(p) ==
    [name |-> p.name, sec |-> p.sec, own |-> IF to = "tmp" THEN Len(rings[to].keys) + 1 ELSE 0,
     uids |-> 0, sigs |-> <<>>, pkts |-> IF errors THEN <<>> ELSE <<KeyPacket(p.name, p.sec)>>, subs |-> <<>>]

cb_keyring_parse ==
    LET p == Head(Blob) IN
    /\ pc = "load" /\ Blob # <<>> /\ IsKey(p)
    /\ \/ /\ OutOfRoom(rings[to]) /\ Undefined
          /\ UNCHANGED <<rings, in, cb>>
       \/ \E ring \in rnp_key_store_add_key(rings[to], NewKey(p)) :
            LET n == Len(ring.keys) IN
            \/ /\ ~IsSub(p.name) \/ cb.last = NoPtr
               /\ rings' = [rings EXCEPT ![to] = ring]
               /\ cb' = [key |-> TRUE, last |-> IF IsSub(p.name) THEN NoPtr ELSE Ref(to, ring, n)]
               /\ in' = [in EXCEPT ![1] = Tail(@)] /\ UNCHANGED pc
            \/ /\ IsSub(p.name) /\ cb.last # NoPtr /\ cb.last.gen = ring.gen
               /\ rings' = [rings EXCEPT ![to] = [ring EXCEPT !.keys[cb.last.idx].subs = Append(@, Ref(to, ring, n))]]
               /\ in' = [in EXCEPT ![1] = Tail(@)] /\ UNCHANGED <<cb, pc>>
            \/ /\ IsSub(p.name) /\ cb.last # NoPtr /\ cb.last.gen # ring.gen
               /\ Undefined /\ UNCHANGED <<rings, cb, in>>
    /\ UNCHANGED <<op, to, errors, loaded, at, result, counts, quiet>>

\* What becomes of the key that was added last at a packet.
Attributed(key, p) ==
    CASE p.k \in {"uid", "sig"} -> {parse_key_attributes(key, p)}
      [] p.k = "half" -> {SignatureHeader(key)}
      [] p.k = "stop" -> {key, SignatureHeader(key)}
      [] OTHER -> {key}

\* Other packets: attributes, a signature at which the parser fails behind its
\* header ("half"), an unexpected packet ("odd"), one at which the parser gives up
\* ("stop").  The failures that the parser reports are errors; it says nothing of a
\* number whose bits are wrong, and goes on with the next packet.
OtherPacket ==
    LET p == Head(Blob)
        n == Len(rings[to].keys)
        attribute == p.k \in {"uid", "sig", "half"}
    IN
    /\ pc = "load" /\ Blob # <<>> /\ ~IsKey(p)
    /\ in' = [in EXCEPT ![1] = IF p.k = "stop" THEN <<>> ELSE Tail(@)]
    /\ \E silent \in BOOLEAN :
          errors' = (errors \/ p.k \in {"odd", "stop"} \/ (p.k = "half" /\ ~silent) \/ (attribute /\ ~cb.key))
    /\ \/ p.k = "x509" /\ rings' = [rings EXCEPT ![to].x509 = TRUE]
       \/ /\ p.k # "x509" /\ cb.key /\ Keeps
          /\ \E key \in Attributed(rings[to].keys[n], p) : rings' = [rings EXCEPT ![to].keys[n] = key]
       \/ p.k # "x509" /\ ~(cb.key /\ Keeps) /\ UNCHANGED rings
    /\ UNCHANGED <<pc, op, to, cb, loaded, at, result, counts, quiet>>

\* rnp_key_store_kbx_from_mem takes the next blob, unless the last one had an error;
\* the end of rnp_key_store_pgp_read_from_mem.
EndOfBlob ==
    /\ pc = "load" /\ Blob = <<>>
    /\ IF in # <<>> /\ ~errors /\ Len(in) > 1
       THEN /\ in' = Tail(in) /\ cb' = NoKey
            /\ UNCHANGED <<pc, to, errors, loaded, at, result, rings>>
       ELSE LoadOver(~errors, rings[to])
    /\ UNCHANGED <<op, counts, quiet>>

-----------------------------------------------------------------------------
(* Importing. *)

Begins(o) ==
    /\ pc = "ready" /\ counts[2] < MaxOps
    /\ counts' = <<counts[1], counts[2] + 1>>
    /\ op' = o /\ result' = FALSE

rnp_import_key ==
    /\ Begins("import") /\ loaded = Rings
    /\ \E f \in Imports : inp' = f /\ Open("tmp", f)
    /\ had' = [r \in Rings |-> RingNames(r)] /\ torn' = FALSE
    /\ UNCHANGED <<fmt, file, rings, loaded, at, ik, grips, img, shared>>

Tmp == rings["tmp"]
Importing == Tmp.keys[at[1]]
DestPublic == "pub"
Dest == IF Importing.sec THEN "sec" ELSE "pub"
still == <<fmt, file, op, in, to, cb, errors, loaded, img, result, counts, inp, had, torn, shared>>

\* One key of the temporary store; it is passed over if the ring has it.
ImportKey ==
    /\ pc = "import" /\ at[1] <= Len(Tmp.keys)
    /\ \/ /\ rnp_key_store_get_key_by_grip(rings[Dest], Importing.name) # 0
          /\ at' = <<at[1] + 1, 1>> /\ UNCHANGED <<rings, pc, ik, grips>>
       \/ /\ rnp_key_store_get_key_by_grip(rings[Dest], Importing.name) = 0
          /\ \E ring \in rnp_key_store_add_key(rings[Dest], Importing) :
                /\ rings' = [rings EXCEPT ![Dest] = ring]
                /\ ik' = Ref(Dest, ring, Len(ring.keys))
          /\ grips' = Append(grips, Importing.name)
          /\ pc' = "sub" /\ UNCHANGED at
       \/ /\ OutOfRoom(rings[Dest]) /\ Undefined
          /\ UNCHANGED <<rings, at, ik, grips>>
    /\ UNCHANGED still

NotFixedUp(r, ring, name) == [rings EXCEPT ![r] = ring]

\* "fix up the subkeys dynarray pointers": the key in the ring and the one in the
\* temporary store share the array of pointers.
FixedUp(r, ring, name) ==
    LET p == Ref(r, ring, rnp_key_store_get_key_by_grip(ring, name)) IN
    [rings EXCEPT ![r] = [ring EXCEPT !.keys[ik.idx].subs[at[2]] = p], !["tmp"].keys[at[1]].subs[at[2]] = p]

\* One of its subkeys.  importedkey is stale if the ring was moved.
ImportSubkey ==
    LET p == Importing.subs[at[2]] IN
    /\ pc = "sub" /\ at[2] <= Len(Importing.subs)
    /\ \/ /\ ~Live(p) \/ OutOfRoom(rings[Dest])
          /\ Undefined /\ UNCHANGED <<rings, at, grips>>
       \/ /\ Live(p)
          /\ \E ring \in rnp_key_store_add_key(rings[Dest], Deref(p)) :
                IF ring.gen = ik.gen
                THEN /\ rings' = FixedUp(Dest, ring, Deref(p).name)
                     /\ at' = <<at[1], at[2] + 1>>
                     /\ grips' = Append(grips, Deref(p).name)
                     /\ UNCHANGED pc
                ELSE Undefined /\ UNCHANGED <<rings, at, grips>>
    /\ UNCHANGED <<ik, still>>
SubkeysDone ==
    /\ pc = "sub" /\ at[2] > Len(Importing.subs)
    /\ at' = <<at[1] + 1, 1>> /\ pc' = "import" /\ ik' = NoPtr
    /\ UNCHANGED <<rings, grips, still>>
ImportDone ==
    /\ pc = "import" /\ at[1] > Len(Tmp.keys)
    /\ pc' = "save" /\ to' = "sec"
    /\ UNCHANGED <<fmt, file, op, in, cb, errors, loaded, img, result, counts, inp, had, torn, shared, rings, ik, grips, at>>

\* "remove all the imported keys from the temporary store, since we're taking
\* ownership of their internal data".  The memmove takes one element more than
\* there is: it may read behind the array.
RemoveImported ==
    LET n == rnp_key_store_get_key_by_grip(Tmp, Head(grips)) IN
    /\ pc = "clean" /\ grips # <<>>
    /\ \/ /\ rings' = IF n = 0 THEN rings ELSE [rings EXCEPT !["tmp"] = rnp_key_store_remove_key(@, n)]
          /\ grips' = Tail(grips) /\ UNCHANGED pc
       \/ /\ n # 0 /\ Len(Tmp.keys) = Tmp.vsize
          /\ Undefined /\ UNCHANGED <<rings, grips>>
    /\ UNCHANGED <<at, ik, still>>

\* rnp_key_store_free of the temporary store.
rnp_key_store_free ==
    LET freed == {Tmp.keys[n].own : n \in DOMAIN Tmp.keys}
        dangling == \E r \in Rings : \E n \in DOMAIN rings[r].keys : rings[r].keys[n].own \in freed
    IN
    /\ pc = "clean" /\ grips = <<>>
    /\ shared' = dangling
    /\ IF dangling THEN pc' = "undefined" /\ UNCHANGED <<inp, had>>
       ELSE pc' = "ready" /\ inp' = <<>> /\ had' = [r \in Rings |-> {}]
    /\ rings' = [r \in DOMAIN rings |->
                   IF r = "tmp" THEN [EmptyRing EXCEPT !.gen = rings[r].gen + 1]
                   ELSE [rings[r] EXCEPT !.keys = [n \in DOMAIN rings[r].keys |-> [rings[r].keys[n] EXCEPT !.own = 0]]]]
    /\ op' = "load" /\ at' = <<0, 0>> /\ to' = "pub" /\ errors' = FALSE
    /\ UNCHANGED <<fmt, file, in, cb, loaded, img, result, counts, torn, ik, grips>>

-----------------------------------------------------------------------------
(* Generating: rnp_generate_key adds four keys; a primary key points to the
   subkey on the stack.  rnpkeys generates a key whether or not the rings
   could be loaded. *)

rnp_generate_key ==
    /\ Begins("generate")
    /\ \A r \in Rings : Fresh[1] \notin Names(file[r].blobs) \cup RingNames(r)
    /\ pc' = "generate" /\ at' = <<1, 1>> /\ torn' = FALSE
    /\ UNCHANGED <<fmt, file, rings, in, to, cb, errors, loaded, ik, grips, img, inp, had, shared>>

AddGenerated ==
    LET r == IF at[1] <= 2 THEN "sec" ELSE "pub" IN
    /\ pc = "generate" /\ at[1] <= 4
    /\ \/ /\ \E ring \in rnp_key_store_add_key(rings[r], Generated(2 - (at[1] % 2), r = "sec")) : rings' = [rings EXCEPT ![r] = ring]
          /\ at' = <<at[1] + 1, 1>>
          /\ IF at[1] = 4 THEN pc' = "save" /\ to' = "sec" ELSE UNCHANGED <<pc, to>>
       \/ /\ OutOfRoom(rings[r]) /\ Undefined
          /\ UNCHANGED <<rings, at, to>>
    /\ UNCHANGED <<fmt, file, op, in, cb, errors, loaded, ik, grips, img, result, counts, inp, had, torn, shared>>

-----------------------------------------------------------------------------
(* Saving. *)

\* pgp_key_write_packets fails for a key without packets.
Writable(keys) == \A n \in DOMAIN keys : keys[n].pkts # <<>>
pgp_key_write_packets(keys) == FlattenSeq([n \in DOMAIN keys |-> keys[n].pkts])

OnlyPrimary(key) == <<key>>

\* The keys that rnp_key_store_kbx_write_pgp writes for a primary key.
rnp_key_store_kbx_write_pgp(key) == <<key>> \o [n \in DOMAIN key.subs |-> Deref(key.subs[n])]
PrimaryKeys(ring) ==
    FlattenSeq([n \in DOMAIN ring.keys |-> IF IsSub(ring.keys[n].name) THEN <<>> ELSE <<ring.keys[n]>>])

\* The groups of keys that are written, one for each blob.
rnp_key_store_kbx_to_mem(ring) ==
    [n \in DOMAIN PrimaryKeys(ring) |-> rnp_key_store_kbx_write_pgp(PrimaryKeys(ring)[n])]
rnp_key_store_write_to_mem(ring) == IF fmt = "GPG" THEN <<ring.keys>> ELSE rnp_key_store_kbx_to_mem(ring)

\* The writer of a KBX file follows the pointers to subkeys, and to the images of
\* X509 blobs in a file that is not mapped any more.
Followable(ring) ==
    fmt = "KBX" =>
        /\ ~ring.x509
        /\ \A n \in DOMAIN ring.keys :
              IsSub(ring.keys[n].name) \/ \A m \in DOMAIN ring.keys[n].subs : Live(ring.keys[n].subs[m])

\* The operation ends; an import cleans up.
Ends(res) ==
    /\ result' = res
    /\ IF op = "import" THEN pc' = "clean" /\ UNCHANGED op ELSE pc' = "ready" /\ op' = "load"
    /\ img' = <<>>

\* mkstemp: the ring file is left alone while its image is written.
OpenInPlace == file' = [file EXCEPT ![to].blobs = <<>>]
OpenTemp == UNCHANGED file

Save ==
    LET ring == rings[to] IN
    /\ pc = "save"
    /\ \/ ~Followable(ring) /\ Undefined /\ UNCHANGED <<op, img, result, file>>
       \/ /\ Followable(ring) /\ \A b \in Range(rnp_key_store_write_to_mem(ring)) : Writable(b)
          /\ pc' = "temp"
          /\ img' = [n \in DOMAIN rnp_key_store_write_to_mem(ring) |->
                       pgp_key_write_packets(rnp_key_store_write_to_mem(ring)[n])]
          /\ OpenTemp /\ UNCHANGED <<op, result>>
       \/ /\ Followable(ring) /\ \E b \in Range(rnp_key_store_write_to_mem(ring)) : ~Writable(b)
          /\ Ends(FALSE) /\ UNCHANGED file
    /\ UNCHANGED <<fmt, rings, in, to, cb, errors, loaded, at, ik, grips, counts, inp, had, torn, shared>>

\* What is left of an image whose end was not written: a file that ends behind a
\* packet or a blob, or within one.
Cuts(f, image) ==
    LET cut(s, end) == UNION {{SubSeq(s, 1, n), Append(SubSeq(s, 1, n), end)} : n \in 0 .. Len(s) - 1}
    IN  IF f = "GPG" THEN {<<b>> : b \in cut(image[1], Packet("stop"))} ELSE cut(image, <<Packet("stop")>>)

\* pgp_mem_writefile: the temporary file replaces the ring file, possibly without
\* its end since the result of fclose is not looked at, or an error is returned.
Replace(image) == file' = [file EXCEPT ![to] = [there |-> TRUE, blobs |-> image]]

pgp_mem_writefile ==
    /\ pc = "temp"
    /\ \/ /\ \/ Replace(img) /\ UNCHANGED torn
             \/ (\E t \in Cuts(fmt, img) : Replace(t)) /\ torn' = TRUE
          /\ IF to = "sec" THEN pc' = "save" /\ to' = "pub" /\ img' = <<>> /\ UNCHANGED <<op, result>>
             ELSE Ends(TRUE) /\ UNCHANGED to
       \/ Ends(FALSE) /\ UNCHANGED <<file, torn, to>>
    /\ UNCHANGED <<fmt, rings, in, cb, errors, loaded, at, ik, grips, counts, inp, had, shared>>

-----------------------------------------------------------------------------
\* find_suitable_subkey, from the last subkey to the first.
find_suitable_subkey ==
    /\ pc = "ready"
    /\ \E n \in DOMAIN rings["pub"].keys :
        /\ \E m \in DOMAIN rings["pub"].keys[n].subs : ~Live(rings["pub"].keys[n].subs[m])
    /\ Undefined
    /\ UNCHANGED <<op, rings, in, to, cb, errors, loaded, at, result, counts, quiet>>

\* The process ends, or crashes.
Stops ==
    /\ pc' = "off" /\ op' = "load"
    /\ rings' = [r \in DOMAIN rings |-> EmptyRing]
    /\ in' = <<>> /\ to' = "pub" /\ cb' = NoKey /\ errors' = FALSE /\ loaded' = {} /\ at' = <<0, 0>>
    /\ ik' = NoPtr /\ grips' = <<>> /\ img' = <<>> /\ result' = FALSE /\ inp' = <<>>
    /\ had' = [r \in Rings |-> {}] /\ torn' = FALSE /\ shared' = FALSE
    /\ UNCHANGED <<fmt, file, counts>>
Exit == pc = "ready" /\ Stops
Crash == pc \in {"save", "temp"} /\ Stops

Over == (pc = "undefined" \/ (pc = "off" /\ counts[1] = MaxStarts)) /\ UNCHANGED vars

Next ==
    \/ Start \/ cb_keyring_parse \/ OtherPacket \/ EndOfBlob
    \/ rnp_import_key \/ ImportKey \/ ImportSubkey \/ SubkeysDone \/ ImportDone
    \/ RemoveImported \/ rnp_key_store_free
    \/ rnp_generate_key \/ AddGenerated \/ Save \/ pgp_mem_writefile
    \/ find_suitable_subkey \/ Exit \/ Crash \/ Over

Spec == Init /\ [][Next]_vars

-----------------------------------------------------------------------------
AllRings == Rings \cup {"tmp"}
Pointers == [ring : AllRings \cup {"none", "stack"}, gen : Nat, idx : Nat]
Sigs == [uid : Nat, whole : BOOLEAN]
Keys ==
    [name : Labels, sec : BOOLEAN, own : Nat, uids : Nat, sigs : Seq(Sigs), pkts : Seq(Packets),
     subs : Seq(Pointers)]
RingType == [keys : Seq(Keys), vsize : Nat, gen : Nat, x509 : BOOLEAN]

TypeOK ==
    /\ fmt \in Formats /\ file \in [Rings -> [there : BOOLEAN, blobs : Blobs]]
    /\ rings \in [AllRings -> RingType]
    /\ \A r \in AllRings : Len(rings[r].keys) <= rings[r].vsize
    /\ pc \in {"off", "load", "ready", "import", "sub", "generate", "save", "temp", "clean", "undefined"}
    /\ op \in {"load", "import", "generate"} /\ to \in AllRings /\ loaded \subseteq Rings
    /\ {in, img, inp} \subseteq Blobs /\ cb \in [key : BOOLEAN, last : Pointers] /\ ik \in Pointers
    /\ at \in Nat \X Nat /\ grips \in Seq(Labels)
    /\ {errors, result, torn, shared} \subseteq BOOLEAN

\* A save replaces the ring file in one step by the image of the ring, or leaves
\* it alone, whatever fails and wherever the process crashes.
Nothing == [ring |-> "none", image |-> <<>>, format |-> "none"]
TornImage(w) == Cuts(w.format, w.image)
AtomicFile ==
    INSTANCE RingFile WITH
        file <- [r \in Rings |-> file[r].blobs],
        want <- IF pc = "temp" THEN [ring |-> to, image |-> img, format |-> fmt] ELSE Nothing,
        Torn <- TornImage
SavesAreAtomic == AtomicFile!Spec

\* No save drops a key from a ring file, unless this process could not load the
\* ring, or the loss went unnoticed when the file was closed.
KeysSurvive ==
    [][\A r \in Rings :
         (file'[r] # file[r] /\ r \in loaded /\ ~torn') => Names(file[r].blobs) \subseteq Names(file'[r].blobs)]_vars

\* The primary key that the subkey in place n of a blob was recorded with.
PrimaryOf(b, m, n) ==
    /\ m < n /\ IsKey(b[m]) /\ ~IsSub(b[m].name)
    /\ \A l \in m + 1 .. n - 1 : IsKey(b[l]) => IsSub(b[l].name)
SameKey(key, other) == key.name = other.name /\ key.sec = other.sec
RingOf(key) == IF key.sec THEN "sec" ELSE "pub"

\* A key of the file is passed over if the ring has it, or if it came before: then
\* its subkeys are not recorded with the key in the ring.
CameBefore(b, n) ==
    \E c \in DOMAIN inp : \E m \in DOMAIN inp[c] :
        /\ c < b \/ (c = b /\ m < n)
        /\ IsKey(inp[c][m]) /\ SameKey(inp[c][m], inp[b][n])
PassedOver(b, n) == inp[b][n].name \in had[RingOf(inp[b][n])] \/ CameBefore(b, n)

\* An import that succeeds has saved every key of the file; in a KBX ring only the
\* subkeys that came with a new primary key of their kind.
ImportSaved ==
    (pc = "clean" /\ result /\ ~torn) =>
        \A b \in DOMAIN inp : \A n \in DOMAIN inp[b] : IsKey(inp[b][n]) =>
            \/ inp[b][n].name \in Names(file[RingOf(inp[b][n])].blobs)
            \/ /\ fmt = "KBX" /\ IsSub(inp[b][n].name)
               /\ \A m \in DOMAIN inp[b] : PrimaryOf(inp[b], m, n) =>
                     PassedOver(b, m) \/ inp[b][m].sec # inp[b][n].sec

\* A key is there twice, as with its secret part and without it: they have the
\* same grip.
Twice(blobs) ==
    \E b, c \in DOMAIN blobs : \E n \in DOMAIN blobs[b], m \in DOMAIN blobs[c] :
        /\ b # c \/ n # m
        /\ IsKey(blobs[b][n]) /\ IsKey(blobs[c][m]) /\ blobs[b][n].name = blobs[c][m].name

\* Data of keys that were imported are not freed with the temporary store, unless
\* the file has a key more than once: keys are removed from the store by grip.
OwnedOnce == shared => Twice(inp)

\* A stale pointer is followed, or memory behind an array is used, only if an
\* array was full, a key was generated by this process, or there are X509 blobs.
StaleOnlyAfterMove ==
    (pc = "undefined" /\ ~shared) =>
        \E r \in DOMAIN rings :
            \/ OutOfRoom(rings[r]) \/ rings[r].vsize > Grow \/ rings[r].x509
            \/ Fresh[1] \in RingNames(r)

\* What is known of a key agrees with its packets, also after a part of the ring
\* could not be read.  Only a signature at which the parser failed is known without
\* its packet, and has no content: its header has raised subsigc already.
PacketsOf(key, k) == {m \in DOMAIN key.pkts : key.pkts[m].k = k}
WholeSigs(key) == {m \in DOMAIN key.sigs : key.sigs[m].whole}
InStep(key) ==
    /\ key.uids = Cardinality(PacketsOf(key, "uid"))
    /\ Cardinality(WholeSigs(key)) = Cardinality(PacketsOf(key, "sig"))
    /\ key.pkts # <<>> => key.pkts[1] = KeyPacket(key.name, key.sec)
    /\ PacketsOf(key, "key") \subseteq {1}
AttributesInStep == \A r \in AllRings : \A n \in DOMAIN rings[r].keys : InStep(rings[r].keys[n])

\* The keys of a ring own their data, and pointers to them are good, but for the
\* cases named above.
RingsSound == TypeOK /\ OwnedOnce /\ StaleOnlyAfterMove /\ AttributesInStep
-----------------------------------------------------------------------------
(***************************************************************************)
(* The inductive invariants behind RingsSound (IInv), KeysSurvive (Kept    *)
(* with IInv) and ImportSaved (Sent with IInv).                            *)
(***************************************************************************)
\* Which operation is in which of its steps.
Control ==
    /\ pc \in {"off", "ready"} => op = "load"
    /\ pc = "load" => op \in {"load", "import"} /\ (to = "tmp" <=> op = "import")
    /\ pc \in {"import", "sub", "clean"} => op = "import"
    /\ pc = "generate" => at[1] \in 1 .. 4
    /\ pc \in {"save", "temp"} => to \in Rings
    /\ op # "import" => rings["tmp"].keys = <<>>
    /\ pc = "temp" /\ fmt = "GPG" => Len(img) = 1
    /\ shared => pc = "undefined"
    /\ pc = "load" => to \notin loaded /\ (to = "pub" => loaded = {})

\* The loader's pointers.
Loading ==
    pc = "load" =>
        /\ cb.key => /\ rings[to].keys # <<>>
                     /\ ~errors => rings[to].keys[Len(rings[to].keys)].pkts # <<>>
        /\ cb.last # NoPtr => /\ cb.last.ring = to /\ cb.last.gen = rings[to].gen
                              /\ cb.last.idx \in DOMAIN rings[to].keys
                              /\ ~IsSub(rings[to].keys[cb.last.idx].name)

\* The importer's pointer; it shares the array of subkeys with the temporary store.
Imported ==
    /\ pc = "import" => at[1] >= 1 /\ at[2] = 1
    /\ pc = "sub" => /\ at[1] \in DOMAIN Tmp.keys /\ at[2] >= 1
                     /\ ik.ring = Dest /\ ik.gen = rings[Dest].gen
                     /\ ik.idx \in DOMAIN rings[Dest].keys
                     /\ rings[Dest].keys[ik.idx].subs = Importing.subs

\* A pointer to a subkey of the ring, good unless the array was moved.
Within(r, ring, p) ==
    /\ p.ring = r /\ p.idx \in DOMAIN ring.keys /\ IsSub(ring.keys[p.idx].name)
    /\ p.gen = ring.gen \/ ring.vsize > Grow

\* The subkeys of the temporary store that are not imported yet.
Ahead(n, m) ==
    \/ pc = "load"
    \/ pc = "import" /\ n >= at[1]
    \/ pc = "sub" /\ (n > at[1] \/ (n = at[1] /\ m >= at[2]))

Bare(ring) == \A n \in DOMAIN ring.keys : IsSub(ring.keys[n].name) => ring.keys[n].subs = <<>>
RingsLinked ==
    pc # "undefined" =>
        \A r \in Rings : \A n \in DOMAIN rings[r].keys : \A m \in DOMAIN rings[r].keys[n].subs :
            \/ Within(r, rings[r], rings[r].keys[n].subs[m])
            \/ rings[r].keys[n].subs[m] = Stack /\ rings[r].keys[n].name = Fresh[1]
            \/ pc = "sub" /\ r = ik.ring /\ n = ik.idx /\ m >= at[2]
TmpLinked ==
    \A n \in DOMAIN Tmp.keys : \A m \in DOMAIN Tmp.keys[n].subs :
        Ahead(n, m) => Within("tmp", Tmp, Tmp.keys[n].subs[m])
Linked == (\A r \in AllRings : Bare(rings[r])) /\ RingsLinked /\ TmpLinked

\* A key of a ring shares its data with one of the temporary store only as long as
\* that one is going to be removed.
TmpOwns ==
    \A t \in DOMAIN Tmp.keys :
        Tmp.keys[t].own # 0 /\ (pc \in {"load", "import", "sub"} => Tmp.keys[t].own = t)
RingsOwn ==
    (op # "import" \/ pc = "load") =>
        \A r \in Rings : \A n \in DOMAIN rings[r].keys : rings[r].keys[n].own = 0
SharedRemoved ==
    (~Twice(inp) /\ pc # "undefined") =>
        \A r \in Rings : \A n \in DOMAIN rings[r].keys : \A t \in DOMAIN Tmp.keys :
            Tmp.keys[t].own = rings[r].keys[n].own => \E g \in DOMAIN grips : grips[g] = Tmp.keys[t].name
TmpNames == ~Twice(inp) => \A t, u \in DOMAIN Tmp.keys : t # u => Tmp.keys[t].name # Tmp.keys[u].name
InputNames ==
    (~Twice(inp) /\ pc = "load" /\ op = "import") =>
        ~Twice(in) /\ \A t \in DOMAIN Tmp.keys : Tmp.keys[t].name \notin Names(in)
Owners == TmpOwns /\ RingsOwn /\ SharedRemoved /\ TmpNames /\ InputNames

IInv ==
    /\ TypeOK /\ AttributesInStep /\ Control /\ Loading /\ Imported /\ Linked /\ Owners
    /\ OwnedOnce /\ StaleOnlyAfterMove

\* A save of the ring in the format f writes a key of that name: the key itself, or
\* in a KBX file a subkey that a primary key points to.
Reaches(f, r, ring, name) ==
    \E n \in DOMAIN ring.keys :
        \/ ring.keys[n].name = name /\ (f = "GPG" \/ ~IsSub(name))
        \/ /\ f = "KBX"
           /\ \E m \in DOMAIN ring.keys[n].subs :
                 LET p == ring.keys[n].subs[m] IN
                 \/ p.ring = r /\ p.idx \in DOMAIN ring.keys /\ ring.keys[p.idx].name = name
                 \/ p = Stack /\ name = Fresh[2]

\* The keys of a file that was loaded are in the ring, and the next save has them.
LoadedKept == \A r \in loaded : \A name \in Names(file[r].blobs) : Reaches(fmt, r, rings[r], name)
FilesLed == fmt = "KBX" => \A r \in Rings : \A b \in DOMAIN file[r].blobs : Led(file[r].blobs[b])
InputKept ==
    (pc = "load" /\ to \in Rings /\ ~errors) =>
        /\ \A name \in Names(file[to].blobs) : name \in Names(in) \/ Reaches(fmt, to, rings[to], name)
        /\ fmt = "KBX" => \A b \in DOMAIN in : b > 1 \/ cb.last = NoPtr => Led(in[b])
ImageKept ==
    pc = "temp" =>
        /\ \A name \in Names(img) : Reaches(fmt, to, rings[to], name)
        /\ to \in loaded => Names(file[to].blobs) \subseteq Names(img)
        /\ fmt = "KBX" => \A b \in DOMAIN img : Led(img[b])
Kept == pc # "undefined" => LoadedKept /\ FilesLed /\ InputKept /\ ImageKept

\* An import on its way from the file to the rings.  While it is read, in is what is
\* left of the file: Here is the blob, of which Past packets were read.
Underway ==
    op = "import" /\ pc \in {"load", "import", "sub", "save", "temp"} /\ (pc = "load" => ~errors)
Here == Len(inp) - Len(in) + 1
Past == Len(inp[Here]) - Len(in[1])
WasRead(b, n) == pc = "load" => b < Here \/ (b = Here /\ n <= Past)
InputLeft ==
    (Underway /\ pc = "load") =>
        /\ Len(in) <= Len(inp) /\ (in = <<>> => inp = <<>>)
        /\ in # <<>> => /\ Len(in[1]) <= Len(inp[Here])
                        /\ \A n \in DOMAIN in[1] : in[1][n] = inp[Here][Past + n]
        /\ \A b \in DOMAIN in : b > 1 => in[b] = inp[Here + b - 1]

\* A key of the temporary store was read, and the loader's last primary key is the
\* last one that was read.
FirstOf(n) == \A u \in DOMAIN Tmp.keys : u < n => ~SameKey(Tmp.keys[u], Tmp.keys[n])
TmpWasRead ==
    (Underway /\ pc = "load") =>
        \A t \in DOMAIN Tmp.keys : \E b \in DOMAIN inp : \E n \in DOMAIN inp[b] :
            WasRead(b, n) /\ IsKey(inp[b][n]) /\ SameKey(inp[b][n], Tmp.keys[t])
LastWasRead ==
    (Underway /\ pc = "load" /\ in # <<>>) =>
        \A m \in DOMAIN inp[Here] : PrimaryOf(inp[Here], m, Past + 1) =>
            /\ cb.last # NoPtr /\ SameKey(Tmp.keys[cb.last.idx], inp[Here][m])
            /\ CameBefore(Here, m) \/ FirstOf(cb.last.idx)

\* Every key that was read is in its ring or still to be imported; a subkey that is
\* to be saved in a KBX ring is reached there, or is a subkey of the temporary
\* store that is still to be imported with its primary key.
KeyAhead(t) == pc = "load" \/ (pc = "import" /\ t >= at[1]) \/ (pc = "sub" /\ t > at[1])
KeyBrought(p) ==
    \/ p.name \in RingNames(RingOf(p))
    \/ \E t \in DOMAIN Tmp.keys : KeyAhead(t) /\ SameKey(Tmp.keys[t], p)
SubkeyBrought(p, name) ==
    \/ Reaches("KBX", RingOf(p), rings[RingOf(p)], name)
    \/ \E t \in DOMAIN Tmp.keys :
          /\ SameKey(Tmp.keys[t], p) /\ FirstOf(t)
          /\ \E m \in DOMAIN Tmp.keys[t].subs :
                Ahead(t, m) /\ Tmp.keys[Tmp.keys[t].subs[m].idx].name = name
PacketBrought(b, n) ==
    /\ KeyBrought(inp[b][n])
    /\ (fmt = "KBX" /\ IsSub(inp[b][n].name)) =>
          \A m \in DOMAIN inp[b] : PrimaryOf(inp[b], m, n) =>
              \/ PassedOver(b, m) \/ inp[b][m].sec # inp[b][n].sec
              \/ SubkeyBrought(inp[b][m], inp[b][n].name)
Brought ==
    Underway =>
        \A b \in DOMAIN inp : \A n \in DOMAIN inp[b] : (IsKey(inp[b][n]) /\ WasRead(b, n)) => PacketBrought(b, n)

\* The primary keys of a ring were there before, or have been imported.
RingsHad ==
    (Underway /\ pc \in {"load", "import", "sub"}) =>
        \A r \in Rings : \A name \in RingNames(r) :
            \/ IsSub(name) \/ name \in had[r]
            \/ \E t \in DOMAIN Tmp.keys : ~KeyAhead(t) /\ Tmp.keys[t].name = name /\ RingOf(Tmp.keys[t]) = r

\* What a save reaches is in the image, and then in the file.
Written ==
    Underway =>
        /\ pc = "temp" => \A name \in Names(inp) : Reaches(fmt, to, rings[to], name) => name \in Names(img)
        /\ (pc \in {"save", "temp"} /\ to = "pub" /\ ~torn) =>
              \A name \in Names(inp) : Reaches(fmt, "sec", rings["sec"], name) => name \in Names(file["sec"].blobs)
Operates == pc = "generate" => op = "generate"
Sent == Operates /\ InputLeft /\ TmpWasRead /\ LastWasRead /\ Brought /\ RingsHad /\ Written /\ ImportSaved
=============================================================================
