--------------------------- MODULE KeyStoreProofs ---------------------------
(***************************************************************************)
(* The properties of KeyStore, for every set of names, every content of    *)
(* the ring files and of the imported ones, both formats, every size of    *)
(* the arrays, and any number of processes and operations.                 *)
(*                                                                         *)
(* AtomicSaves needs only Placed.  RingsAreSound rests on IInv: what is    *)
(* freed once follows from which keys of the rings still share data with   *)
(* the temporary store (Owners), and which pointers may be stale from      *)
(* where they lead (Linked, Imported, Loading).  NoKeyIsLost adds Kept:    *)
(* between the loading of a file and the next save each of its keys is in  *)
(* the input, in the ring where the writer reaches it, or in the image.    *)
(* ImportIsSaved adds Sent, which says the same of the keys of a file that *)
(* is imported, from their loading into the temporary store on.            *)
(*                                                                         *)
(* The last section is about a single secret key (KeyProtection).          *)
(*                                                                         *)
(* FlattenSeq is a recursive function; what it returns is shown by         *)
(* induction in the form of a set of numbers (SetInduction).               *)
(***************************************************************************)
EXTENDS KeyStore, KeyProtection, FiniteSetTheorems, WellFoundedInduction, TLAPS

-----------------------------------------------------------------------------
(* Induction, and what FlattenSeq returns. *)

\* The natural numbers are well ordered.
LEMMA LeastNumber ==
    ASSUME NEW T, T \subseteq Nat, T # {}
    PROVE  \E x \in T : \A y \in T : x <= y
<1>1. IsWellFoundedOn(OpToRel(<, Nat), Nat)
    BY NatLessThanWellFounded
<1>2. \E x \in T : \A y \in T : ~(<<y, x>> \in OpToRel(<, Nat))
    BY <1>1, WFMin, Zenon
<1>3. ASSUME NEW x \in Nat, NEW y \in Nat, ~(<<y, x>> \in OpToRel(<, Nat)) PROVE x <= y
    <2>1. <<y, x>> \in Nat \X Nat
        OBVIOUS
    <2>2. ~(y < x)
        BY <1>3, <2>1 DEF OpToRel
    <2> QED BY <2>2
<1> QED BY <1>2, <1>3

\* Induction: a set with 0 and the successors of its members has all numbers.
LEMMA SetInduction ==
    ASSUME NEW T, 0 \in T, \A n \in Nat : n \in T => n + 1 \in T
    PROVE  Nat \subseteq T
<1> DEFINE U == {n \in Nat : n \notin T}
<1>1. SUFFICES ASSUME U # {} PROVE FALSE
    OBVIOUS
<1>2. PICK x \in U : \A y \in U : x <= y
    BY <1>1, LeastNumber
<1>3. x # 0 /\ x \in Nat
    BY <1>2
<1>4. x - 1 \in Nat /\ (x - 1) + 1 = x /\ ~(x <= x - 1)
    BY <1>3
<1>5. x - 1 \in T
    BY <1>2, <1>4
<1> QED BY <1>2, <1>4, <1>5

\* The function that FlattenSeq defines exists.
LEMMA FlattenExists ==
    ASSUME NEW S, NEW s \in Seq(Seq(S)), Len(s) > 0
    PROVE  \E g \in [1 .. Len(s) -> Seq(S)] :
              g = [i \in 1 .. Len(s) |-> IF i = 1 THEN s[i] ELSE g[i - 1] \o s[i]]
<1> DEFINE Upto(k, g) == g[1] = s[1] /\ \A i \in 2 .. k : g[i] = g[i - 1] \o s[i]
           Has(k) == k <= Len(s) => \E g \in [1 .. k -> Seq(S)] : Upto(k, g)
           T == {k \in Nat : Has(k + 1)}
<1>1. Has(0 + 1)
    <2>1. s[1] \in Seq(S)
        OBVIOUS
    <2> DEFINE g == [i \in 1 .. 0 + 1 |-> s[1]]
    <2>2. g \in [1 .. 0 + 1 -> Seq(S)] /\ Upto(0 + 1, g)
        BY <2>1
    <2> HIDE DEF g, Upto
    <2> QED BY <2>2
<1>2. ASSUME NEW k \in Nat, Has(k + 1) PROVE Has((k + 1) + 1)
    <2> SUFFICES ASSUME (k + 1) + 1 <= Len(s) PROVE \E g \in [1 .. (k + 1) + 1 -> Seq(S)] : Upto((k + 1) + 1, g)
        BY Zenon
    <2>1. PICK g \in [1 .. k + 1 -> Seq(S)] : Upto(k + 1, g)
        <3>1. k + 1 <= Len(s)
            OBVIOUS
        <3> QED BY <1>2, <3>1, Zenon
    <2>2. PICK e : e = g[k + 1] \o s[k + 2]
        OBVIOUS
    <2>3. e \in Seq(S)
        <3>1. g[k + 1] \in Seq(S) /\ s[k + 2] \in Seq(S)
            BY <2>1
        <3> QED BY <2>2, <3>1
    <2>4. PICK h : h = [i \in 1 .. (k + 1) + 1 |-> IF i = k + 2 THEN e ELSE g[i]]
        OBVIOUS
    <2>5. h \in [1 .. (k + 1) + 1 -> Seq(S)]
        BY <2>1, <2>3, <2>4
    <2>6. h[1] = s[1]
        BY <2>1, <2>4
    <2>7. ASSUME NEW i \in 2 .. (k + 1) + 1 PROVE h[i] = h[i - 1] \o s[i]
        <3>1. CASE i = k + 2
            <4>1. h[i] = e /\ h[i - 1] = g[k + 1]
                BY <2>4, <3>1
            <4> QED BY <2>2, <3>1, <4>1
        <3>2. CASE i # k + 2
            <4>1. i \in 2 .. k + 1 /\ h[i] = g[i] /\ h[i - 1] = g[i - 1]
                BY <2>4, <3>2
            <4> QED BY <2>1, <4>1
        <3> QED BY <3>1, <3>2
    <2> QED BY <2>5, <2>6, <2>7, Zenon
<1> HIDE DEF Has
<1>3. Nat \subseteq T
    <2>1. 0 \in T
        BY <1>1
    <2>2. \A k \in Nat : k \in T => k + 1 \in T
        BY <1>2
    <2> HIDE DEF T
    <2> QED BY <2>1, <2>2, SetInduction
<1>4. Has(Len(s))
    <2>1. Len(s) - 1 \in Nat /\ (Len(s) - 1) + 1 = Len(s)
        OBVIOUS
    <2>2. Has((Len(s) - 1) + 1)
        BY <1>3, <2>1, Zenon
    <2> QED BY <2>1, <2>2, Zenon
<1>5. PICK g \in [1 .. Len(s) -> Seq(S)] : Upto(Len(s), g)
    <2>1. Len(s) <= Len(s)
        OBVIOUS
    <2> QED BY <1>4, <2>1, Zenon DEF Has
<1>6. \A i \in 1 .. Len(s) : g[i] = IF i = 1 THEN s[i] ELSE g[i - 1] \o s[i]
    <2>1. ASSUME NEW i \in 1 .. Len(s) PROVE i = 1 \/ i \in 2 .. Len(s)
        OBVIOUS
    <2> QED BY <1>5, <2>1, Zenon
<1>7. g = [i \in 1 .. Len(s) |-> IF i = 1 THEN s[i] ELSE g[i - 1] \o s[i]]
    BY <1>6, Zenon
<1> QED BY <1>7

\* What FlattenSeq returns: a sequence, with the elements of all sequences,
\* the first one first.
LEMMA FlattenFacts ==
    ASSUME NEW S, NEW s \in Seq(Seq(S))
    PROVE  /\ FlattenSeq(s) \in Seq(S)
           /\ \A i \in 1 .. Len(s) : \A j \in DOMAIN s[i] : \E n \in DOMAIN FlattenSeq(s) : FlattenSeq(s)[n] = s[i][j]
           /\ (Len(s) > 0 /\ s[1] # <<>>) => FlattenSeq(s) # <<>> /\ FlattenSeq(s)[1] = s[1][1]
<1>1. CASE Len(s) = 0
    <2>1. s = <<>> /\ FlattenSeq(s) = <<>> /\ 1 .. Len(s) = {} /\ ~(Len(s) > 0)
        BY <1>1 DEF FlattenSeq
    <2>2. <<>> \in Seq(S)
        OBVIOUS
    <2> QED BY <2>1, <2>2, Zenon
<1>2. CASE Len(s) > 0
    <2> DEFINE f == CHOOSE g : g = [i \in 1 .. Len(s) |-> IF i = 1 THEN s[i] ELSE g[i - 1] \o s[i]]
    <2>0. \E g : g = [i \in 1 .. Len(s) |-> IF i = 1 THEN s[i] ELSE g[i - 1] \o s[i]]
        <3>1. \E g \in [1 .. Len(s) -> Seq(S)] :
                 g = [i \in 1 .. Len(s) |-> IF i = 1 THEN s[i] ELSE g[i - 1] \o s[i]]
            BY <1>2, FlattenExists
        <3> QED BY <3>1, Zenon
    <2>1. f = [i \in 1 .. Len(s) |-> IF i = 1 THEN s[i] ELSE f[i - 1] \o s[i]]
        BY <2>0, Zenon
    <2>2. FlattenSeq(s) = f[Len(s)]
        BY <1>2 DEF FlattenSeq
    <2> HIDE DEF f
    <2>3. \A i \in 1 .. Len(s) : f[i] = IF i = 1 THEN s[i] ELSE f[i - 1] \o s[i]
        BY <2>1, Zenon
    <2> DEFINE In(k) == k <= Len(s) =>
                          /\ f[k] \in Seq(S)
                          /\ \A i \in 1 .. k : \A j \in DOMAIN s[i] : \E n \in DOMAIN f[k] : f[k][n] = s[i][j]
                          /\ s[1] # <<>> => f[k] # <<>> /\ f[k][1] = s[1][1]
               T == {k \in Nat : In(k + 1)}
    <2>4. In(0 + 1)
        <3>1. f[1] = s[1] /\ s[1] \in Seq(S)
            BY <1>2, <2>3
        <3>2. 0 + 1 = 1 /\ \A i \in 1 .. 1 : i = 1
            OBVIOUS
        <3> QED BY <3>1, <3>2, Zenon
    <2>5. ASSUME NEW k \in Nat, In(k + 1) PROVE In((k + 1) + 1)
        <3> SUFFICES ASSUME (k + 1) + 1 <= Len(s)
                     PROVE  /\ f[(k + 1) + 1] \in Seq(S)
                            /\ \A i \in 1 .. (k + 1) + 1 : \A j \in DOMAIN s[i] :
                                  \E n \in DOMAIN f[(k + 1) + 1] : f[(k + 1) + 1][n] = s[i][j]
                            /\ s[1] # <<>> => f[(k + 1) + 1] # <<>> /\ f[(k + 1) + 1][1] = s[1][1]
            BY Zenon
        <3>1. PICK a : a = f[k + 1]
            OBVIOUS
        <3>2. PICK b : b = s[(k + 1) + 1]
            OBVIOUS
        <3>3. k + 1 <= Len(s) /\ (k + 1) + 1 \in 1 .. Len(s) /\ ((k + 1) + 1) - 1 = k + 1 /\ (k + 1) + 1 # 1
            OBVIOUS
        <3>4. /\ a \in Seq(S)
              /\ \A i \in 1 .. k + 1 : \A j \in DOMAIN s[i] : \E n \in DOMAIN a : a[n] = s[i][j]
              /\ s[1] # <<>> => a # <<>> /\ a[1] = s[1][1]
            BY <2>5, <3>1, <3>3, Zenon
        <3>5. b \in Seq(S)
            BY <3>2, <3>3
        <3>6. f[(k + 1) + 1] = a \o b
            BY <2>3, <3>1, <3>2, <3>3, Zenon
        <3>7. PICK c : c = a \o b
            OBVIOUS
        <3>8. c \in Seq(S) /\ Len(c) = Len(a) + Len(b) /\ DOMAIN c = 1 .. Len(a) + Len(b)
            BY <3>4, <3>5, <3>7
        <3>9. ASSUME NEW n \in DOMAIN a PROVE n \in DOMAIN c /\ c[n] = a[n]
            BY <3>4, <3>5, <3>7, SMTT(60)
        <3>10. ASSUME NEW n \in DOMAIN b PROVE \E m \in DOMAIN c : c[m] = b[n]
            <4>1. a \in Seq(S)
                BY <3>4, Zenon
            <4>2. Len(a) + n \in DOMAIN c /\ c[Len(a) + n] = b[n]
                BY <3>5, <3>7, <4>1
            <4> QED BY <4>2
        <3>11. ASSUME NEW i \in 1 .. (k + 1) + 1, NEW j \in DOMAIN s[i]
               PROVE \E n \in DOMAIN c : c[n] = s[i][j]
            <4>1. CASE i = (k + 1) + 1
                BY <3>2, <3>10, <4>1, Zenon
            <4>2. CASE i # (k + 1) + 1
                <5>1. i \in 1 .. k + 1
                    BY <4>2
                <5>2. PICK n \in DOMAIN a : a[n] = s[i][j]
                    BY <3>4, <5>1, Zenon
                <5> QED BY <3>9, <5>2, Zenon
            <4> QED BY <4>1, <4>2
        <3>12. f[(k + 1) + 1] = c
            BY <3>6, <3>7, Zenon
        <3>13. c \in Seq(S) /\ \A i \in 1 .. (k + 1) + 1 : \A j \in DOMAIN s[i] : \E n \in DOMAIN c : c[n] = s[i][j]
            BY <3>8, <3>11, Zenon
        <3>14. a # <<>> => c # <<>> /\ c[1] = a[1]
            BY <3>4, <3>5, <3>7
        <3> QED BY <3>4, <3>12, <3>13, <3>14, Zenon
    <2> HIDE DEF In
    <2>6. Nat \subseteq T
        <3>1. 0 \in T
            BY <2>4
        <3>2. \A k \in Nat : k \in T => k + 1 \in T
            BY <2>5
        <3> HIDE DEF T
        <3> QED BY <3>1, <3>2, SetInduction
    <2>7. In(Len(s))
        <3>1. Len(s) - 1 \in Nat /\ (Len(s) - 1) + 1 = Len(s)
            BY <1>2
        <3>2. In((Len(s) - 1) + 1)
            BY <2>6, <3>1, Zenon
        <3> QED BY <3>1, <3>2, Zenon
    <2>8. Len(s) <= Len(s)
        OBVIOUS
    <2>9. PICK c : c = f[Len(s)]
        OBVIOUS
    <2>10. /\ c \in Seq(S)
           /\ \A i \in 1 .. Len(s) : \A j \in DOMAIN s[i] : \E n \in DOMAIN c : c[n] = s[i][j]
           /\ s[1] # <<>> => c # <<>> /\ c[1] = s[1][1]
        BY <2>7, <2>8, <2>9, Zenon DEF In
    <2>11. FlattenSeq(s) = c
        BY <2>2, <2>9, Zenon
    <2> QED BY <2>10, <2>11, Zenon
<1>3. Len(s) \in Nat
    OBVIOUS
<1> QED BY <1>1, <1>2, <1>3

-----------------------------------------------------------------------------
(* Arrays of keys. *)

\* The array g is ring with one more key.
Grown(ring, g, key) ==
    /\ g \in RingType /\ Len(g.keys) = Len(ring.keys) + 1 /\ Len(g.keys) <= g.vsize
    /\ DOMAIN g.keys = 1 .. Len(ring.keys) + 1
    /\ \A n \in 1 .. Len(ring.keys) : g.keys[n] = ring.keys[n]
    /\ g.keys[Len(ring.keys) + 1] = key
    /\ g.x509 = ring.x509 /\ ring.vsize <= g.vsize
    /\ g.gen = ring.gen \/ (OutOfRoom(ring) /\ g.vsize > Grow)

\* A key is added at the end; the array is moved only if it was full.
LEMMA AddFacts ==
    ASSUME NEW ring \in RingType, Len(ring.keys) <= ring.vsize, NEW key \in Keys,
           NEW g \in rnp_key_store_add_key(ring, key)
    PROVE  Grown(ring, g, key)
<1>1. PICK e \in EXPAND_ARRAY(ring) : g = [e EXCEPT !.keys = Append(@, key)]
    BY Zenon DEF rnp_key_store_add_key
<1>2. Grow \in Nat /\ Grow > 0
    BY KeyStoreAssumption
<1>3. PICK s \in Seq(Keys) : s = ring.keys
    BY DEF RingType
<1>4. PICK v \in Nat : v = ring.vsize
    BY DEF RingType
<1>5. PICK o \in Nat : o = ring.gen
    BY DEF RingType
<1>6. /\ e \in RingType /\ e.keys = ring.keys /\ e.x509 = ring.x509
      /\ e.vsize \in Nat /\ v <= e.vsize /\ Len(s) + 1 <= e.vsize
      /\ e.gen = ring.gen \/ (OutOfRoom(ring) /\ e.vsize > Grow)
    <2>1. CASE Len(ring.keys) < ring.vsize
        <3>1. e = ring
            BY <1>1, <2>1 DEF EXPAND_ARRAY
        <3>2. Len(s) + 1 <= v
            BY <1>3, <1>4, <2>1
        <3> QED BY <1>3, <1>4, <3>1, <3>2
    <2>2. CASE ~(Len(ring.keys) < ring.vsize)
        <3>1. PICK k \in (IF ring.keys = <<>> THEN {ring.gen} ELSE {ring.gen, ring.gen + 1}) :
                 e = [ring EXCEPT !.vsize = 2 * @ + Grow, !.gen = k]
            BY <1>1, <2>2 DEF EXPAND_ARRAY
        <3>2. k \in Nat
            BY <1>5, <3>1
        <3>3. /\ e \in RingType /\ e.keys = ring.keys /\ e.x509 = ring.x509
              /\ e.vsize = 2 * v + Grow /\ e.gen = k
            <4>1. PICK w \in Nat : w = 2 * v + Grow
                BY <1>2
            <4>2. e = [ring EXCEPT !.vsize = w, !.gen = k]
                BY <1>4, <3>1, <4>1, Zenon
            <4>3. e \in RingType /\ e.keys = ring.keys /\ e.x509 = ring.x509 /\ e.vsize = w /\ e.gen = k
                BY <3>2, <4>2 DEF RingType
            <4> QED BY <4>1, <4>3
        <3>4. Len(s) = v
            BY <1>3, <1>4, <2>2
        <3>5. e.vsize \in Nat /\ v <= e.vsize /\ Len(s) + 1 <= e.vsize
            BY <1>2, <3>3, <3>4
        <3>6. k = o \/ (v > 0 /\ k = o + 1)
            BY <1>3, <1>5, <3>1, <3>4
        <3>7. v > 0 => OutOfRoom(ring) /\ e.vsize > Grow
            BY <1>2, <1>3, <1>4, <3>3, <3>4 DEF OutOfRoom
        <3> QED BY <1>5, <3>3, <3>5, <3>6, <3>7
    <2> QED BY <2>1, <2>2
<1>7. PICK t : t = Append(s, key)
    OBVIOUS
<1>8. /\ t \in Seq(Keys) /\ Len(t) = Len(s) + 1 /\ DOMAIN t = 1 .. Len(s) + 1
      /\ \A n \in 1 .. Len(s) : t[n] = s[n]
      /\ t[Len(s) + 1] = key
    BY <1>7
<1>9. g \in RingType /\ g.keys = t /\ g.vsize = e.vsize /\ g.gen = e.gen /\ g.x509 = e.x509
    BY <1>1, <1>3, <1>6, <1>7, <1>8 DEF RingType
<1>10. Len(g.keys) <= g.vsize
    BY <1>6, <1>8, <1>9
<1> QED BY <1>3, <1>4, <1>6, <1>8, <1>9, <1>10, Zenon DEF Grown

-----------------------------------------------------------------------------
(* Saving is atomic. *)

\* A save under way has one of the two ring files as its goal.
Placed == file = [r \in Rings |-> file[r]] /\ (pc \in {"save", "temp"} => to \in Rings)

\* It holds at first.
LEMMA PlacedInit == Init => Placed
BY DEF Init, Placed

\* The steps that do not touch a ring file and begin or end no save.
LEMMA QuietSteps ==
    ASSUME Start \/ cb_keyring_parse \/ OtherPacket \/ EndOfBlob
             \/ rnp_import_key \/ ImportKey \/ ImportSubkey \/ SubkeysDone \/ ImportDone
             \/ RemoveImported \/ rnp_key_store_free
             \/ rnp_generate_key \/ AddGenerated \/ find_suitable_subkey \/ Exit
    PROVE  pc # "temp" /\ pc' # "temp" /\ file' = file /\ (pc' = "save" => to' = "sec")
<1>1. CASE Start
    BY <1>1, Zenon DEF Start, Open, quiet
<1>2. CASE cb_keyring_parse
    BY <1>2, Zenon DEF cb_keyring_parse, quiet, Undefined
<1>3. CASE OtherPacket
    BY <1>3, Zenon DEF OtherPacket, quiet
<1>4. CASE EndOfBlob
    <2>1. pc = "load" /\ file' = file
        BY <1>4, Zenon DEF EndOfBlob, quiet
    <2>2. pc' = pc \/ LoadOver(~errors, rings[to])
        BY <1>4, Zenon DEF EndOfBlob
    <2>3. pc' \in {"load", "ready", "import", "clean"}
        BY <2>1, <2>2 DEF LoadOver, Open
    <2> QED BY <2>1, <2>3
<1>5. CASE rnp_import_key
    BY <1>5, Zenon DEF rnp_import_key, Begins, Open
<1>6. CASE ImportKey
    BY <1>6, Zenon DEF ImportKey, still, Undefined
<1>7. CASE ImportSubkey
    BY <1>7, Zenon DEF ImportSubkey, still, Undefined
<1>8. CASE SubkeysDone
    BY <1>8, Zenon DEF SubkeysDone, still
<1>9. CASE ImportDone
    BY <1>9, Zenon DEF ImportDone
<1>10. CASE RemoveImported
    BY <1>10, Zenon DEF RemoveImported, still, Undefined
<1>11. CASE rnp_key_store_free
    BY <1>11, Zenon DEF rnp_key_store_free
<1>12. CASE rnp_generate_key
    BY <1>12, Zenon DEF rnp_generate_key, Begins
<1>13. CASE AddGenerated
    BY <1>13, Zenon DEF AddGenerated, Undefined
<1>14. CASE find_suitable_subkey
    BY <1>14, Zenon DEF find_suitable_subkey, Undefined, quiet
<1>15. CASE Exit
    BY <1>15, Zenon DEF Exit, Stops
<1> QED BY <1>1, <1>2, <1>3, <1>4, <1>5, <1>6, <1>7, <1>8, <1>9, <1>10, <1>11, <1>12, <1>13, <1>14, <1>15, Zenon

\* Every step keeps it.
LEMMA PlacedNext == Placed /\ [Next]_vars => Placed'
<1> SUFFICES ASSUME Placed, [Next]_vars PROVE Placed'
    OBVIOUS
<1>1. CASE pc' # "temp" /\ file' = file /\ (pc' = "save" => to' = "sec")
    BY <1>1 DEF Placed, Rings
<1>2. CASE Save
    BY <1>2, Zenon DEF Save, Placed, Undefined, Ends, OpenTemp
<1>3. CASE pgp_mem_writefile
    <2>1. file' = file \/ \E image : Replace(image)
        BY <1>3, Zenon DEF pgp_mem_writefile
    <2>2. file' = [r \in Rings |-> file'[r]]
        BY <2>1 DEF Replace, Placed
    <2>3. pc' = "save" => to' = "pub"
        BY <1>3 DEF pgp_mem_writefile, Ends
    <2>4. pc' # "temp"
        BY <1>3 DEF pgp_mem_writefile, Ends
    <2> QED BY <2>2, <2>3, <2>4 DEF Placed, Rings
<1>4. CASE Crash
    BY <1>4, Zenon DEF Crash, Stops, Placed
<1>5. CASE UNCHANGED vars
    BY <1>5, Zenon DEF vars, Placed
<1> QED BY <1>1, <1>2, <1>3, <1>4, <1>5, QuietSteps, Zenon DEF Next, Over

\* Every step is one of RingFile or leaves its variables alone.
LEMMA StepIsAtomic == Placed /\ [Next]_vars => [AtomicFile!Next]_(AtomicFile!vars)
<1> SUFFICES ASSUME Placed, [Next]_vars PROVE AtomicFile!Next \/ UNCHANGED AtomicFile!vars
    BY Zenon
<1> DEFINE Save1 == [ring |-> to, image |-> img, format |-> fmt]
<1>0. pc = "temp" => Save1 # Nothing
    BY DEF Placed, Rings, Nothing
<1>1. CASE pc # "temp" /\ pc' # "temp" /\ file' = file
    BY <1>1, Zenon DEF AtomicFile!vars
<1>2. CASE pc # "temp" /\ pc' = "temp" /\ to' \in Rings /\ file' = file
    BY <1>2 DEF AtomicFile!Next, AtomicFile!Begin, Rings, Nothing
<1>3. CASE pc = "temp" /\ pc' # "temp" /\ file' = file
    BY <1>0, <1>3, Zenon DEF AtomicFile!Next, AtomicFile!Abort
<1>4. ASSUME NEW image, pc = "temp", pc' # "temp", Replace(image), image = img \/ image \in Cuts(fmt, img)
      PROVE  AtomicFile!Next
    <2>1. PICK F : F = [r \in Rings |-> file[r].blobs]
        OBVIOUS
    <2>2. to \in Rings
        BY <1>4 DEF Placed
    <2>3. [r \in Rings |-> file'[r].blobs] = [F EXCEPT ![to] = image]
        BY <1>4, <2>1, <2>2 DEF Replace, Placed
    <2>4. AtomicFile!Commit(image)
        <3>1. Save1.ring = to
            OBVIOUS
        <3> QED BY <1>0, <1>4, <2>1, <2>3, <3>1, Zenon DEF AtomicFile!Commit
    <2>5. image \in {Save1.image} \cup TornImage(Save1)
        BY <1>4 DEF TornImage
    <2> QED BY <1>0, <1>4, <2>4, <2>5, Zenon DEF AtomicFile!Next
<1>5. CASE Save
    <2>1. pc = "save" /\ to' = to /\ file' = file
        BY <1>5, Zenon DEF Save, OpenTemp
    <2> QED BY <1>1, <1>2, <2>1 DEF Placed
<1>6. CASE pgp_mem_writefile
    <2>1. pc = "temp" /\ pc' # "temp"
        BY <1>6 DEF pgp_mem_writefile, Ends
    <2>2. \/ Replace(img)
          \/ \E t \in Cuts(fmt, img) : Replace(t)
          \/ file' = file
        BY <1>6, Zenon DEF pgp_mem_writefile
    <2> QED BY <1>3, <1>4, <2>1, <2>2, Zenon
<1>7. CASE Crash
    <2>1. pc' # "temp" /\ file' = file
        BY <1>7, Zenon DEF Crash, Stops
    <2> QED BY <1>1, <1>3, <2>1
<1>8. CASE UNCHANGED vars
    BY <1>8, Zenon DEF vars, AtomicFile!vars
<1> QED BY <1>1, <1>5, <1>6, <1>7, <1>8, QuietSteps, Zenon DEF Next, Over

\* A save replaces a ring file in one step by the image of the ring, or leaves it
\* alone: every behaviour of the key store is one of RingFile (mkstemp, rename and
\* unlink in pgp_mem_writefile, and a crash anywhere in between).
THEOREM AtomicSaves == Spec => SavesAreAtomic
<1>1. Init => AtomicFile!Init
    BY DEF Init, AtomicFile!Init
<1> QED BY <1>1, PlacedInit, PlacedNext, StepIsAtomic, PTL DEF Spec, SavesAreAtomic, AtomicFile!Spec

-----------------------------------------------------------------------------
(* Keys in arrays, and their packets. *)

\* The array g is ring with another key in the place n.
Put(ring, g, n, key) ==
    /\ g \in RingType /\ Len(g.keys) = Len(ring.keys) /\ DOMAIN g.keys = DOMAIN ring.keys
    /\ g.keys[n] = key
    /\ \A m \in DOMAIN ring.keys : m # n => g.keys[m] = ring.keys[m]
    /\ g.x509 = ring.x509 /\ g.vsize = ring.vsize /\ g.gen = ring.gen

\* A key of an array is replaced.
LEMMA PutFacts ==
    ASSUME NEW ring \in RingType, NEW n \in DOMAIN ring.keys, NEW key \in Keys
    PROVE  Put(ring, [ring EXCEPT !.keys[n] = key], n, key)
<1>1. PICK s \in Seq(Keys) : s = ring.keys
    BY DEF RingType
<1>2. PICK t : t = [s EXCEPT ![n] = key]
    OBVIOUS
<1>3. /\ t \in Seq(Keys) /\ Len(t) = Len(s) /\ DOMAIN t = DOMAIN s /\ t[n] = key
      /\ \A m \in DOMAIN s : m # n => t[m] = s[m]
    BY <1>1, <1>2
<1>4. PICK g : g = [ring EXCEPT !.keys[n] = key]
    OBVIOUS
<1>5. g = [ring EXCEPT !.keys = t]
    BY <1>1, <1>2, <1>4
<1>6. g \in RingType /\ g.keys = t /\ g.x509 = ring.x509 /\ g.vsize = ring.vsize /\ g.gen = ring.gen
    BY <1>3, <1>5 DEF RingType
<1>7. Put(ring, g, n, key)
    BY <1>1, <1>3, <1>6, Zenon DEF Put
<1> QED BY <1>4, <1>7

\* A key with other pointers to subkeys.
LEMMA SubsFacts ==
    ASSUME NEW key \in Keys, NEW s \in Seq(Pointers)
    PROVE  LET k == [key EXCEPT !.subs = s] IN
           /\ k \in Keys /\ k.subs = s
           /\ k.name = key.name /\ k.sec = key.sec /\ k.own = key.own
           /\ k.uids = key.uids /\ k.sigs = key.sigs /\ k.pkts = key.pkts
BY DEF Keys

\* A subkey is recorded with a key of an array: the key is replaced.
LEMMA NestedSubs ==
    ASSUME NEW ring \in RingType, NEW n \in DOMAIN ring.keys, NEW p
    PROVE  [ring EXCEPT !.keys[n].subs = Append(@, p)] =
              [ring EXCEPT !.keys[n] = [ring.keys[n] EXCEPT !.subs = Append(ring.keys[n].subs, p)]]
OBVIOUS

\* A pointer to a subkey is changed: the key is replaced.
LEMMA NestedSub ==
    ASSUME NEW ring \in RingType, NEW n \in DOMAIN ring.keys, NEW m, NEW p
    PROVE  [ring EXCEPT !.keys[n].subs[m] = p] =
              [ring EXCEPT !.keys[n] = [ring.keys[n] EXCEPT !.subs = [ring.keys[n].subs EXCEPT ![m] = p]]]
OBVIOUS

\* What is asked of every array of keys.
Good(ring) ==
    /\ ring \in RingType /\ Len(ring.keys) <= ring.vsize /\ Bare(ring)
    /\ \A n \in DOMAIN ring.keys : InStep(ring.keys[n])

\* The keys of ring are in g in their places.
Later(ring, g) ==
    /\ \A n \in DOMAIN ring.keys : n \in DOMAIN g.keys /\ g.keys[n].name = ring.keys[n].name
    /\ g.gen = ring.gen \/ g.vsize > Grow
    /\ ring.vsize <= g.vsize

\* A pointer into an array is one into a later state of it.
LEMMA WithinLater ==
    ASSUME NEW ring \in RingType, NEW g \in RingType, Later(ring, g), NEW r, NEW p, Within(r, ring, p)
    PROVE  Within(r, g, p)
<1>1. ring.vsize \in Nat /\ g.vsize \in Nat /\ Grow \in Nat /\ ring.vsize <= g.vsize
    BY KeyStoreAssumption DEF RingType, Later
<1>2. ring.vsize > Grow => g.vsize > Grow
    BY <1>1
<1> QED BY <1>2, Zenon DEF Within, Later

\* Replacing a key by one of the same name leaves all keys in their places.
LEMMA PutLater ==
    ASSUME NEW ring \in RingType, NEW g, NEW n \in DOMAIN ring.keys, NEW key, Put(ring, g, n, key),
           key.name = ring.keys[n].name
    PROVE  Later(ring, g)
<1>1. ring.vsize \in Nat
    BY DEF RingType
<1>2. ring.vsize <= g.vsize
    BY <1>1 DEF Put
<1> QED BY <1>2, Zenon DEF Put, Later

\* Sets of places in the packets of a key are finite.
LEMMA PacketsFinite ==
    ASSUME NEW key \in Keys, NEW k
    PROVE  IsFiniteSet(PacketsOf(key, k)) /\ PacketsOf(key, k) \subseteq 1 .. Len(key.pkts)
<1>1. PICK s \in Seq(Packets) : s = key.pkts
    BY DEF Keys
<1>2. PacketsOf(key, k) \subseteq 1 .. Len(key.pkts)
    BY <1>1 DEF PacketsOf
<1>3. IsFiniteSet(1 .. Len(s))
    <2>1. 1 \in Int /\ Len(s) \in Int
        OBVIOUS
    <2> QED BY <2>1, FS_Interval
<1> QED BY <1>1, <1>2, <1>3, FS_Subset

\* InStep looks at the packets of a key, its name and what was counted.
LEMMA InStepFrame ==
    ASSUME NEW key, NEW g, InStep(key), g.name = key.name, g.sec = key.sec, g.uids = key.uids,
           g.sigs = key.sigs, g.pkts = key.pkts
    PROVE  InStep(g)
BY Zenon DEF InStep, PacketsOf, WholeSigs

\* Without packets that are counted.
LEMMA InStepStart ==
    ASSUME NEW key \in Keys, key.uids = 0, key.sigs = <<>>,
           key.pkts = <<>> \/ key.pkts = <<KeyPacket(key.name, key.sec)>>
    PROVE  InStep(key)
<1>1. PacketsOf(key, "uid") = {} /\ PacketsOf(key, "sig") = {} /\ PacketsOf(key, "key") \subseteq {1}
    BY DEF PacketsOf, KeyPacket
<1>2. Cardinality({}) = 0
    BY FS_EmptySet
<1>3. WholeSigs(key) = {}
    BY DEF WholeSigs
<1>4. key.pkts # <<>> => key.pkts[1] = KeyPacket(key.name, key.sec)
    OBVIOUS
<1> QED BY <1>1, <1>2, <1>3, <1>4, Zenon DEF InStep

\* One more packet.
LEMMA MorePackets ==
    ASSUME NEW key \in Keys, NEW g \in Keys, NEW p, g.pkts = Append(key.pkts, p), NEW k
    PROVE  /\ p.k = k => Cardinality(PacketsOf(g, k)) = Cardinality(PacketsOf(key, k)) + 1
           /\ p.k # k => PacketsOf(g, k) = PacketsOf(key, k)
<1>1. PICK s \in Seq(Packets) : s = key.pkts
    BY DEF Keys
<1>2. PICK t : t = Append(s, p)
    OBVIOUS
<1>3. /\ Len(s) \in Nat /\ DOMAIN s = 1 .. Len(s)
      /\ Len(t) = Len(s) + 1 /\ DOMAIN t = 1 .. Len(s) + 1 /\ \A n \in 1 .. Len(s) : t[n] = s[n]
      /\ t[Len(s) + 1] = p
    BY <1>1, <1>2
<1>4. PICK A : A = {m \in DOMAIN s : s[m].k = k}
    OBVIOUS
<1>5. PICK B : B = {m \in DOMAIN t : t[m].k = k}
    OBVIOUS
<1>6. PacketsOf(key, k) = A /\ PacketsOf(g, k) = B
    BY <1>1, <1>2, <1>4, <1>5, Zenon DEF PacketsOf
<1>7. p.k = k => B = A \cup {Len(s) + 1}
    BY <1>3, <1>4, <1>5
<1>8. p.k # k => B = A
    BY <1>3, <1>4, <1>5
<1>9. Len(s) + 1 \notin A
    BY <1>3, <1>4
<1>10. IsFiniteSet(A)
    BY <1>6, PacketsFinite
<1>11. Cardinality(A \cup {Len(s) + 1}) = Cardinality(A) + 1
    BY <1>9, <1>10, FS_AddElement
<1> QED BY <1>6, <1>7, <1>8, <1>11, Zenon

\* One more signature.
LEMMA MoreSigs ==
    ASSUME NEW key \in Keys, NEW g \in Keys, NEW e \in Sigs, g.sigs = Append(key.sigs, e)
    PROVE  /\ e.whole => Cardinality(WholeSigs(g)) = Cardinality(WholeSigs(key)) + 1
           /\ ~e.whole => WholeSigs(g) = WholeSigs(key)
<1>1. PICK s \in Seq(Sigs) : s = key.sigs
    BY DEF Keys
<1>2. PICK t : t = Append(s, e)
    OBVIOUS
<1>3. /\ Len(s) \in Nat /\ DOMAIN s = 1 .. Len(s)
      /\ Len(t) = Len(s) + 1 /\ DOMAIN t = 1 .. Len(s) + 1 /\ \A n \in 1 .. Len(s) : t[n] = s[n]
      /\ t[Len(s) + 1] = e
    BY <1>1, <1>2
<1>4. PICK A : A = {m \in DOMAIN s : s[m].whole}
    OBVIOUS
<1>5. PICK B : B = {m \in DOMAIN t : t[m].whole}
    OBVIOUS
<1>6. WholeSigs(key) = A /\ WholeSigs(g) = B
    BY <1>1, <1>2, <1>4, <1>5, Zenon DEF WholeSigs
<1>7. e.whole => B = A \cup {Len(s) + 1}
    BY <1>3, <1>4, <1>5
<1>8. ~e.whole => B = A
    BY <1>3, <1>4, <1>5
<1>9. Len(s) + 1 \notin A
    BY <1>3, <1>4
<1>10. IsFiniteSet(A)
    <2>1. A \subseteq 1 .. Len(s)
        BY <1>3, <1>4
    <2>2. IsFiniteSet(1 .. Len(s))
        <3>1. 1 \in Int /\ Len(s) \in Int
            BY <1>3
        <3> QED BY <3>1, FS_Interval
    <2> QED BY <2>1, <2>2, FS_Subset
<1>11. Cardinality(A \cup {Len(s) + 1}) = Cardinality(A) + 1
    BY <1>9, <1>10, FS_AddElement
<1> QED BY <1>6, <1>7, <1>8, <1>11, Zenon

\* A signature whose header only was read adds neither a packet nor a signature with
\* content.
LEMMA HeaderFacts ==
    ASSUME NEW key \in Keys, InStep(key), key.pkts # <<>>
    PROVE  LET g == SignatureHeader(key) IN
           /\ g \in Keys /\ InStep(g) /\ g.pkts # <<>>
           /\ g.name = key.name /\ g.subs = key.subs /\ g.own = key.own /\ g.sec = key.sec
<1>1. PICK q \in Seq(Sigs) : q = key.sigs
    BY DEF Keys
<1>2. PICK e : e = Sig(key.uids, FALSE)
    OBVIOUS
<1>3. e \in Sigs /\ ~e.whole
    BY <1>2 DEF Sig, Sigs, Keys
<1>4. PICK z : z = Append(q, e)
    OBVIOUS
<1>5. z \in Seq(Sigs)
    BY <1>3, <1>4
<1>6. PICK g : g = SignatureHeader(key)
    OBVIOUS
<1>7. g = [key EXCEPT !.sigs = z]
    BY <1>1, <1>2, <1>4, <1>6, Zenon DEF SignatureHeader
<1>8. /\ g \in Keys /\ g.uids = key.uids /\ g.sigs = z /\ g.pkts = key.pkts
      /\ g.name = key.name /\ g.subs = key.subs /\ g.own = key.own /\ g.sec = key.sec
    BY <1>5, <1>7 DEF Keys
<1>9. WholeSigs(g) = WholeSigs(key)
    BY <1>1, <1>3, <1>4, <1>8, MoreSigs, Zenon
<1>10. InStep(g)
    BY <1>8, <1>9, Zenon DEF InStep, PacketsOf
<1> QED BY <1>6, <1>8, <1>10, Zenon

\* parse_key_attributes keeps the counts in step.
LEMMA AttributeFacts ==
    ASSUME NEW key \in Keys, InStep(key), key.pkts # <<>>, NEW p \in Packets, p.k \in {"uid", "sig"}
    PROVE  LET g == parse_key_attributes(key, p) IN
           /\ g \in Keys /\ InStep(g) /\ g.pkts # <<>>
           /\ g.name = key.name /\ g.subs = key.subs /\ g.own = key.own /\ g.sec = key.sec
<1>1. PICK s \in Seq(Packets) : s = key.pkts
    BY DEF Keys
<1>2. PICK q \in Seq(Sigs) : q = key.sigs
    BY DEF Keys
<1>3. PICK u \in Nat : u = key.uids
    BY DEF Keys
<1>4. PICK t : t = Append(s, p)
    OBVIOUS
<1>5. t \in Seq(Packets) /\ t # <<>> /\ (s # <<>> => t[1] = s[1])
    BY <1>4
<1>6. PICK v : v = IF p.k = "uid" THEN u + 1 ELSE u
    OBVIOUS
<1>61. PICK e : e = Sig(u, TRUE)
    OBVIOUS
<1>62. e \in Sigs /\ e.whole
    BY <1>61 DEF Sig, Sigs
<1>7. PICK z : z = IF p.k = "sig" THEN Append(q, e) ELSE q
    OBVIOUS
<1>8. v \in Nat /\ z \in Seq(Sigs)
    BY <1>6, <1>62, <1>7
<1>9. PICK g : g = parse_key_attributes(key, p)
    OBVIOUS
<1>10. g = [key EXCEPT !.uids = v, !.sigs = z, !.pkts = t]
    BY <1>1, <1>2, <1>3, <1>4, <1>6, <1>61, <1>7, <1>9, Zenon DEF parse_key_attributes
<1>11. /\ g \in Keys /\ g.uids = v /\ g.sigs = z /\ g.pkts = t
       /\ g.name = key.name /\ g.subs = key.subs /\ g.own = key.own /\ g.sec = key.sec
    BY <1>5, <1>8, <1>10 DEF Keys
<1>12. g.pkts = Append(key.pkts, p)
    BY <1>1, <1>4, <1>11
<1>13. g.uids = Cardinality(PacketsOf(g, "uid"))
    <2>1. u = Cardinality(PacketsOf(key, "uid"))
        BY <1>3, Zenon DEF InStep
    <2>2. /\ p.k = "uid" => Cardinality(PacketsOf(g, "uid")) = Cardinality(PacketsOf(key, "uid")) + 1
          /\ p.k # "uid" => PacketsOf(g, "uid") = PacketsOf(key, "uid")
        BY <1>11, <1>12, MorePackets, Zenon
    <2> QED BY <1>6, <1>11, <2>1, <2>2
<1>14. Cardinality(WholeSigs(g)) = Cardinality(PacketsOf(g, "sig"))
    <2>1. Cardinality(WholeSigs(key)) = Cardinality(PacketsOf(key, "sig"))
        BY <1>2, Zenon DEF InStep
    <2>2. /\ p.k = "sig" => Cardinality(PacketsOf(g, "sig")) = Cardinality(PacketsOf(key, "sig")) + 1
          /\ p.k # "sig" => PacketsOf(g, "sig") = PacketsOf(key, "sig")
        BY <1>11, <1>12, MorePackets, ZenonT(60)
    <2>3. p.k = "sig" => Cardinality(WholeSigs(g)) = Cardinality(WholeSigs(key)) + 1
        <3>1. p.k = "sig" => g.sigs = Append(key.sigs, e)
            BY <1>2, <1>7, <1>11
        <3> QED BY <1>11, <1>62, <3>1, MoreSigs, Zenon
    <2>4. p.k # "sig" => WholeSigs(g) = WholeSigs(key)
        BY <1>2, <1>7, <1>11 DEF WholeSigs
    <2> QED BY <2>1, <2>2, <2>3, <2>4, Zenon
<1>15. PacketsOf(g, "key") \subseteq {1}
    <2>1. p.k # "key"
        OBVIOUS
    <2>2. PacketsOf(key, "key") \subseteq {1}
        BY Zenon DEF InStep
    <2> QED BY <1>11, <1>12, <2>1, <2>2, MorePackets, Zenon
<1>16. g.pkts[1] = KeyPacket(g.name, g.sec)
    <2>1. s[1] = KeyPacket(key.name, key.sec) /\ s # <<>>
        BY <1>1, Zenon DEF InStep
    <2> QED BY <1>5, <1>11, <2>1, Zenon
<1>17. InStep(g)
    BY <1>13, <1>14, <1>15, <1>16, Zenon DEF InStep
<1> QED BY <1>5, <1>9, <1>11, <1>17, Zenon

\* The keys that are generated.
LEMMA GeneratedFacts ==
    ASSUME NEW n \in {1, 2}, NEW sec \in BOOLEAN
    PROVE  LET g == Generated(n, sec) IN
           /\ g \in Keys /\ InStep(g) /\ g.own = 0 /\ g.name = Fresh[n]
           /\ g.subs = IF n = 1 THEN <<Stack>> ELSE <<>>
           /\ g.pkts # <<>>
<1>1. PICK f \in Labels : f = Fresh[n]
    BY KeyStoreAssumption
<1>2. PICK s : s = <<KeyPacket(Fresh[n], sec)>> \o (IF n = 1 THEN <<Packet("uid")>> ELSE <<>>) \o <<Packet("sig")>>
    OBVIOUS
<1>3. s = IF n = 1 THEN <<KeyPacket(f, sec), Packet("uid"), Packet("sig")>> ELSE <<KeyPacket(f, sec), Packet("sig")>>
    BY <1>1, <1>2
<1>4. /\ KeyPacket(f, sec) \in Packets /\ Packet("uid") \in Packets /\ Packet("sig") \in Packets
      /\ KeyPacket(f, sec).k = "key" /\ Packet("uid").k = "uid" /\ Packet("sig").k = "sig"
    <2>1. {"key", "uid", "sig"} \subseteq Kinds /\ {"uid", "sig"} \subseteq Labels
        BY DEF Kinds, Labels
    <2>2. KeyPacket(f, sec) \in Packets /\ KeyPacket(f, sec).k = "key"
        BY <2>1 DEF KeyPacket, Packets
    <2>3. Packet("uid") \in Packets /\ Packet("uid").k = "uid"
        BY <2>1 DEF Packet, Packets
    <2>4. Packet("sig") \in Packets /\ Packet("sig").k = "sig"
        BY <2>1 DEF Packet, Packets
    <2> QED BY <2>2, <2>3, <2>4
<1>5. s \in Seq(Packets) /\ s # <<>> /\ s[1] = KeyPacket(f, sec)
    BY <1>3, <1>4
<1>6. PICK b : b = IF n = 1 THEN <<Stack>> ELSE <<>>
    OBVIOUS
<1>7. b \in Seq(Pointers)
    <2>1. Stack \in Pointers
        BY DEF Stack, Pointers
    <2> QED BY <1>6, <2>1
<1>8. PICK g : g = Generated(n, sec)
    OBVIOUS
<1>81. PICK z : z = <<Sig(2 - n, TRUE)>>
    OBVIOUS
<1>9. g = [name |-> f, sec |-> sec, own |-> 0, uids |-> 2 - n, sigs |-> z, pkts |-> s, subs |-> b]
    BY <1>1, <1>2, <1>6, <1>8, <1>81, Zenon DEF Generated
<1>10. 2 - n \in Nat /\ z \in Seq(Sigs) /\ DOMAIN z = {1} /\ z[1].whole
    <2>1. Sig(2 - n, TRUE) \in Sigs /\ Sig(2 - n, TRUE).whole
        BY DEF Sig, Sigs
    <2>2. PICK e \in Sigs : e = Sig(2 - n, TRUE) /\ e.whole
        BY <2>1
    <2>3. z = <<e>>
        BY <1>81, <2>2
    <2>4. z \in Seq(Sigs) /\ DOMAIN z = {1} /\ z[1] = e
        <3>1. Len(z) = 1 /\ z[1] = e /\ z \in Seq(Sigs)
            BY <2>3
        <3> QED BY <3>1
    <2>5. z[1].whole
        BY <2>2, <2>4, Zenon
    <2>6. 2 - n \in Nat
        OBVIOUS
    <2> QED BY <2>4, <2>5, <2>6, Zenon
<1>11. /\ g \in Keys /\ g.own = 0 /\ g.name = f /\ g.sec = sec /\ g.subs = b /\ g.pkts = s
       /\ g.uids = 2 - n /\ g.sigs = z
    BY <1>5, <1>7, <1>9, <1>10 DEF Keys
<1>12. PacketsOf(g, "key") = {1}
    BY <1>3, <1>4, <1>11 DEF PacketsOf
<1>13. PacketsOf(g, "sig") = {4 - n}
    BY <1>3, <1>4, <1>11 DEF PacketsOf
<1>14. PacketsOf(g, "uid") = IF n = 1 THEN {2} ELSE {}
    BY <1>3, <1>4, <1>11 DEF PacketsOf
<1>141. WholeSigs(g) = {1}
    BY <1>10, <1>11 DEF WholeSigs
<1>15. Cardinality({1}) = 1 /\ Cardinality({2}) = 1 /\ Cardinality({4 - n}) = 1 /\ Cardinality({}) = 0
    BY FS_Singleton, FS_EmptySet
<1>16. InStep(g)
    <2>1. g.uids = Cardinality(PacketsOf(g, "uid"))
        <3>1. CASE n = 1
            <4>1. PacketsOf(g, "uid") = {2} /\ g.uids = 1
                BY <1>11, <1>14, <3>1
            <4> QED BY <1>15, <4>1
        <3>2. CASE n = 2
            <4>1. PacketsOf(g, "uid") = {} /\ g.uids = 0
                BY <1>11, <1>14, <3>2
            <4> QED BY <1>15, <4>1
        <3> QED BY <3>1, <3>2
    <2>2. Cardinality(WholeSigs(g)) = Cardinality(PacketsOf(g, "sig"))
        BY <1>13, <1>141, <1>15
    <2>3. g.pkts[1] = KeyPacket(g.name, g.sec)
        BY <1>5, <1>11, Zenon
    <2> QED BY <1>12, <2>1, <2>2, <2>3, Zenon DEF InStep
<1> QED BY <1>1, <1>5, <1>6, <1>8, <1>11, <1>16, Zenon

\* rnp_key_store_get_key_by_grip finds the first key of the name, or returns 0.
LEMMA GripFacts ==
    ASSUME NEW ring \in RingType, NEW name
    PROVE  LET n == rnp_key_store_get_key_by_grip(ring, name) IN
           /\ n = 0 => \A m \in DOMAIN ring.keys : ring.keys[m].name # name
           /\ n # 0 => n \in DOMAIN ring.keys /\ ring.keys[n].name = name
<1>1. PICK s \in Seq(Keys) : s = ring.keys
    BY DEF RingType
<1>2. PICK I : I = {i \in 1 .. Len(s) : s[i].name = name}
    OBVIOUS
<1>3. PICK n : n = rnp_key_store_get_key_by_grip(ring, name)
    OBVIOUS
<1>4. n = IF I # {} THEN CHOOSE x \in I : \A y \in I : x <= y ELSE 0
    BY <1>1, <1>2, <1>3 DEF rnp_key_store_get_key_by_grip, SelectInSeq, Min
<1>5. CASE I = {}
    <2>1. n = 0
        BY <1>4, <1>5
    <2>2. \A m \in DOMAIN s : s[m].name # name
        BY <1>1, <1>2, <1>5
    <2> QED BY <1>1, <1>3, <2>1, <2>2, Zenon
<1>6. CASE I # {}
    <2>1. I \subseteq Nat
        BY <1>1, <1>2
    <2>2. \E x \in I : \A y \in I : x <= y
        BY <1>6, <2>1, LeastNumber
    <2>3. n \in I
        BY <1>4, <1>6, <2>2, Zenon
    <2>4. n \in DOMAIN s /\ s[n].name = name /\ n # 0
        BY <1>1, <1>2, <2>3
    <2> QED BY <1>1, <1>3, <2>4, Zenon
<1> QED BY <1>5, <1>6

\* Why a step may be undefined.
Cause ==
    \E r \in DOMAIN rings :
        \/ OutOfRoom(rings[r]) \/ rings[r].vsize > Grow \/ rings[r].x509
        \/ Fresh[1] \in RingNames(r)

others == <<fmt, file, rings, op, in, to, cb, errors, loaded, at, ik, grips, img, result,
            counts, inp, had, torn, shared>>

\* A step into undefined behaviour, for a reason that StaleOnlyAfterMove names.
LEMMA Fails == IInv /\ Undefined /\ UNCHANGED others /\ Cause => IInv'
<1> SUFFICES ASSUME IInv, Undefined, UNCHANGED others, Cause PROVE IInv'
    OBVIOUS
<1>0. /\ TypeOK /\ AttributesInStep /\ Control /\ Loading /\ Imported /\ Linked /\ Owners
      /\ OwnedOnce /\ StaleOnlyAfterMove /\ pc' = "undefined"
    BY Zenon DEF IInv, Undefined
<1>1. TypeOK'
    BY <1>0 DEF TypeOK, others
<1>2. AttributesInStep'
    BY <1>0, Zenon DEF AttributesInStep, others
<1>3. Control'
    BY <1>0 DEF Control, others
<1>4. Loading' /\ Imported'
    BY <1>0, Zenon DEF Loading, Imported
<1>5. Linked'
    BY <1>0, Zenon DEF Linked, RingsLinked, TmpLinked, Ahead, others
<1>6. Owners'
    <2>1. TmpOwns' /\ RingsOwn'
        BY <1>0 DEF Owners, TmpOwns, RingsOwn, others, Tmp
    <2>2. SharedRemoved' /\ InputNames'
        BY <1>0, Zenon DEF SharedRemoved, InputNames
    <2>3. TmpNames'
        BY <1>0, Zenon DEF Owners, TmpNames, others, Tmp
    <2> QED BY <2>1, <2>2, <2>3, Zenon DEF Owners
<1>7. OwnedOnce'
    BY <1>0, Zenon DEF OwnedOnce, others
<1>8. StaleOnlyAfterMove'
    BY Zenon DEF StaleOnlyAfterMove, Cause, others, RingNames
<1> QED BY <1>1, <1>2, <1>3, <1>4, <1>5, <1>6, <1>7, <1>8, Zenon DEF IInv

\* The parts of the invariant that look at the rings and the history of the import
\* hold on, as long as these are left alone and the step is not undefined.
LEMMA Frame == IInv /\ UNCHANGED <<rings, shared, inp, ik, grips>> /\ pc' # "undefined" /\ pc # "undefined"
                 => /\ AttributesInStep' /\ OwnedOnce' /\ StaleOnlyAfterMove' /\ TmpNames' /\ SharedRemoved'
                    /\ \A r \in AllRings : Bare(rings'[r])
<1> SUFFICES ASSUME IInv, UNCHANGED <<rings, shared, inp, ik, grips>>, pc' # "undefined", pc # "undefined"
             PROVE  /\ AttributesInStep' /\ OwnedOnce' /\ StaleOnlyAfterMove' /\ TmpNames' /\ SharedRemoved'
                    /\ \A r \in AllRings : Bare(rings'[r])
    OBVIOUS
<1>0. AttributesInStep /\ OwnedOnce /\ TmpNames /\ SharedRemoved /\ \A r \in AllRings : Bare(rings[r])
    BY Zenon DEF IInv, Linked, Owners
<1>1. AttributesInStep'
    BY <1>0, Zenon DEF AttributesInStep
<1>2. OwnedOnce' /\ StaleOnlyAfterMove'
    BY <1>0, Zenon DEF OwnedOnce, StaleOnlyAfterMove
<1>3. TmpNames'
    BY <1>0, Zenon DEF TmpNames, Tmp
<1>4. SharedRemoved'
    BY <1>0, Zenon DEF SharedRemoved, Tmp
<1> QED BY <1>0, <1>1, <1>2, <1>3, <1>4, Zenon

-----------------------------------------------------------------------------
(* The steps that leave the rings alone, and saving. *)

\* A process starts.
LEMMA StartStep == IInv /\ Start => IInv'
<1> SUFFICES ASSUME IInv, Start PROVE IInv'
    OBVIOUS
<1>0. /\ TypeOK /\ AttributesInStep /\ Control /\ Linked /\ Owners
      /\ pc = "off" /\ op = "load" /\ Tmp.keys = <<>> /\ op' = "load" /\ loaded' = {}
      /\ UNCHANGED <<rings, at, result, fmt, file, ik, grips, img, inp, had, torn, shared>>
    BY Zenon DEF IInv, Start, quiet, Open, Control, Tmp
<1>01. \/ pc' = "load" /\ to' = "pub" /\ in' = file["pub"].blobs /\ cb' = NoKey /\ errors' = FALSE
       \/ pc' = "ready" /\ UNCHANGED <<to, in, cb, errors>>
    BY Zenon DEF Start, Open
<1>02. pc # "undefined" /\ pc' # "undefined"
    BY <1>0, <1>01
<1>03. /\ AttributesInStep' /\ OwnedOnce' /\ StaleOnlyAfterMove' /\ TmpNames' /\ SharedRemoved'
       /\ \A r \in AllRings : Bare(rings'[r])
    BY <1>0, <1>02, Frame, Zenon
<1>1. TypeOK'
    <2>1. file["pub"].blobs \in Blobs
        BY <1>0 DEF TypeOK, Rings
    <2>2. NoKey \in [key : BOOLEAN, last : Pointers]
        BY DEF NoKey, NoPtr, Pointers
    <2>3. {in', img', inp'} \subseteq Blobs /\ cb' \in [key : BOOLEAN, last : Pointers] /\ errors' \in BOOLEAN
        BY <1>0, <1>01, <2>1, <2>2, Zenon DEF TypeOK
    <2>4. to' \in AllRings /\ loaded' \subseteq Rings /\ pc' \in {"off", "load", "ready"}
        BY <1>0, <1>01 DEF TypeOK, AllRings, Rings
    <2> QED BY <1>0, <2>3, <2>4 DEF TypeOK
<1>2. Control'
    BY <1>0, <1>01 DEF Control, Tmp
<1>3. Loading' /\ Imported'
    BY <1>0, <1>01 DEF Loading, Imported, NoKey
<1>4. Linked'
    <2>1. RingsLinked'
        BY <1>0, <1>02, Zenon DEF Linked, RingsLinked
    <2>2. TmpLinked'
        BY <1>0 DEF TmpLinked, Tmp
    <2> QED BY <1>03, <2>1, <2>2, Zenon DEF Linked
<1>5. Owners'
    <2>1. TmpOwns'
        BY <1>0 DEF TmpOwns, Tmp
    <2>2. RingsOwn'
        BY <1>0 DEF Owners, RingsOwn
    <2>3. InputNames'
        BY <1>0 DEF InputNames
    <2> QED BY <1>03, <2>1, <2>2, <2>3, Zenon DEF Owners
<1> QED BY <1>03, <1>1, <1>2, <1>3, <1>4, <1>5, Zenon DEF IInv

\* rnp_import_key starts.
LEMMA ImportStep == IInv /\ rnp_import_key => IInv'
<1> SUFFICES ASSUME IInv, rnp_import_key PROVE IInv'
    OBVIOUS
<1>0. /\ TypeOK /\ AttributesInStep /\ Control /\ Linked /\ Owners /\ OwnedOnce
      /\ pc = "ready" /\ op = "load" /\ Tmp.keys = <<>> /\ op' = "import" /\ result' = FALSE /\ torn' = FALSE
      /\ pc' = "load" /\ to' = "tmp" /\ in' = inp' /\ inp' \in Imports /\ cb' = NoKey /\ errors' = FALSE
      /\ UNCHANGED <<fmt, file, rings, loaded, at, ik, grips, img, shared>>
    BY Zenon DEF IInv, rnp_import_key, Begins, Open, Control, Tmp
<1>1. TypeOK'
    <2>1. inp' \in Blobs
        BY <1>0, KeyStoreAssumption
    <2>2. NoKey \in [key : BOOLEAN, last : Pointers]
        BY DEF NoKey, NoPtr, Pointers
    <2>3. to' \in AllRings /\ {in', img', inp'} \subseteq Blobs
        BY <1>0, <2>1 DEF TypeOK, AllRings, Rings
    <2> QED BY <1>0, <2>2, <2>3 DEF TypeOK
<1>2. AttributesInStep' /\ StaleOnlyAfterMove'
    BY <1>0 DEF AttributesInStep, StaleOnlyAfterMove
<1>3. Control'
    BY <1>0 DEF Control, Tmp, TypeOK, Rings
<1>4. Loading' /\ Imported'
    BY <1>0 DEF Loading, Imported, NoKey
<1>5. Linked'
    <2>1. RingsLinked'
        BY <1>0 DEF Linked, RingsLinked
    <2>2. TmpLinked'
        BY <1>0 DEF TmpLinked, Tmp
    <2>3. \A r \in AllRings : Bare(rings'[r])
        BY <1>0, Zenon DEF Linked
    <2> QED BY <2>1, <2>2, <2>3, Zenon DEF Linked
<1>6. Owners'
    <2>1. TmpOwns' /\ SharedRemoved' /\ TmpNames'
        BY <1>0 DEF TmpOwns, SharedRemoved, TmpNames, Tmp
    <2>2. RingsOwn'
        BY <1>0 DEF Owners, RingsOwn
    <2>3. InputNames'
        BY <1>0 DEF InputNames, Tmp
    <2> QED BY <2>1, <2>2, <2>3, Zenon DEF Owners
<1>7. OwnedOnce'
    <2>1. ~shared
        BY <1>0 DEF Control
    <2> QED BY <1>0, <2>1 DEF OwnedOnce
<1> QED BY <1>1, <1>2, <1>3, <1>4, <1>5, <1>6, <1>7, Zenon DEF IInv

\* The subkeys of a key were imported.
LEMMA SubkeysDoneStep == IInv /\ SubkeysDone => IInv'
<1> SUFFICES ASSUME IInv, SubkeysDone PROVE IInv'
    OBVIOUS
<1>0. /\ TypeOK /\ Control /\ Linked /\ Owners /\ Imported
      /\ pc = "sub" /\ at[2] > Len(Importing.subs) /\ at' = <<at[1] + 1, 1>> /\ pc' = "import" /\ ik' = NoPtr
      /\ AttributesInStep /\ OwnedOnce
      /\ UNCHANGED <<rings, grips, fmt, file, op, in, to, cb, errors, loaded, img, result, counts, inp, had, torn, shared>>
    BY Zenon DEF IInv, SubkeysDone, still
<1>1. TypeOK'
    <2>1. NoPtr \in Pointers
        BY DEF NoPtr, Pointers
    <2>2. at' \in Nat \X Nat
        BY <1>0 DEF TypeOK
    <2> QED BY <1>0, <2>1, <2>2 DEF TypeOK
<1>2. AttributesInStep' /\ StaleOnlyAfterMove' /\ OwnedOnce'
    BY <1>0 DEF AttributesInStep, StaleOnlyAfterMove, OwnedOnce
<1>3. Control'
    BY <1>0 DEF Control
<1>4. Loading' /\ Imported'
    <2>1. at[1] \in Nat
        BY <1>0 DEF TypeOK
    <2> QED BY <1>0, <2>1 DEF Loading, Imported
<1>5. Linked'
    <2>1. RingsLinked'
        <3> SUFFICES ASSUME NEW r \in Rings, NEW n \in DOMAIN rings[r].keys, NEW m \in DOMAIN rings[r].keys[n].subs
                     PROVE  \/ Within(r, rings[r], rings[r].keys[n].subs[m])
                            \/ rings[r].keys[n].subs[m] = Stack /\ rings[r].keys[n].name = Fresh[1]
            BY <1>0, Zenon DEF RingsLinked
        <3>1. ASSUME r = ik.ring, n = ik.idx, m >= at[2] PROVE FALSE
            <4>1. rings[r].keys[n].subs = Importing.subs
                BY <1>0, <3>1, Zenon DEF Imported
            <4>2. PICK k \in Keys : k = rings[r].keys[n]
                BY <1>0 DEF TypeOK, RingType, AllRings
            <4>3. PICK s \in Seq(Pointers) : s = k.subs
                BY DEF Keys
            <4>4. m \in DOMAIN s /\ at[2] > Len(s) /\ at[2] \in Nat
                BY <1>0, <4>1, <4>2, <4>3 DEF TypeOK
            <4> QED BY <3>1, <4>3, <4>4
        <3>2. pc # "undefined"
            BY <1>0
        <3> QED BY <1>0, <3>1, <3>2, Zenon DEF Linked, RingsLinked
    <2>2. TmpLinked'
        <3> SUFFICES ASSUME NEW n \in DOMAIN Tmp.keys, NEW m \in DOMAIN Tmp.keys[n].subs, n >= at[1] + 1
                     PROVE  Within("tmp", Tmp, Tmp.keys[n].subs[m])
            BY <1>0 DEF TmpLinked, Tmp, Ahead
        <3>1. PICK s \in Seq(Keys) : s = Tmp.keys
            BY <1>0 DEF TypeOK, RingType, AllRings, Tmp
        <3>2. n > at[1]
            BY <1>0, <3>1 DEF TypeOK
        <3> QED BY <1>0, <3>2 DEF Linked, TmpLinked, Ahead
    <2>3. \A r \in AllRings : Bare(rings'[r])
        BY <1>0, Zenon DEF Linked
    <2> QED BY <2>1, <2>2, <2>3, Zenon DEF Linked
<1>6. Owners'
    <2>1. TmpOwns' /\ SharedRemoved' /\ TmpNames'
        BY <1>0 DEF Owners, TmpOwns, SharedRemoved, TmpNames, Tmp
    <2>2. RingsOwn' /\ InputNames'
        BY <1>0 DEF Owners, RingsOwn, InputNames
    <2> QED BY <2>1, <2>2, Zenon DEF Owners
<1> QED BY <1>1, <1>2, <1>3, <1>4, <1>5, <1>6, Zenon DEF IInv

\* Steps behind which nothing is loaded or imported, with the rings left alone.
Settles ==
    /\ pc \in {"import", "ready", "save", "temp"} /\ pc' \in {"save", "temp", "generate", "clean", "ready"}
    /\ UNCHANGED <<rings, shared, inp, ik, grips>>
    /\ op = "import" <=> op' = "import"

\* They keep the invariant if they keep what is said of types and control.
LEMMA SettlesFrame == IInv /\ Settles /\ TypeOK' /\ Control' => IInv'
<1> SUFFICES ASSUME IInv, Settles, TypeOK', Control' PROVE IInv'
    OBVIOUS
<1>0. /\ Linked /\ Owners
      /\ pc # "undefined" /\ pc # "sub" /\ pc' \notin {"undefined", "load", "import", "sub"}
      /\ UNCHANGED <<rings, shared, inp, ik, grips>>
      /\ op = "import" <=> op' = "import"
    BY DEF IInv, Settles
<1>1. /\ AttributesInStep' /\ OwnedOnce' /\ StaleOnlyAfterMove' /\ TmpNames' /\ SharedRemoved'
      /\ \A r \in AllRings : Bare(rings'[r])
    BY <1>0, Frame
<1>2. Loading' /\ Imported'
    BY <1>0 DEF Loading, Imported
<1>3. Linked'
    BY <1>0, <1>1 DEF Linked, RingsLinked, TmpLinked, Ahead
<1>4. Owners'
    <2>1. TmpOwns' /\ InputNames'
        BY <1>0 DEF Owners, TmpOwns, Tmp, InputNames
    <2>2. RingsOwn'
        BY <1>0 DEF Owners, RingsOwn
    <2> QED BY <1>1, <2>1, <2>2, Zenon DEF Owners
<1> QED BY <1>1, <1>2, <1>3, <1>4, Zenon DEF IInv

\* All keys were imported: the rings are saved.
LEMMA ImportDoneStep == IInv /\ ImportDone => IInv'
<1> SUFFICES ASSUME IInv, ImportDone PROVE IInv'
    OBVIOUS
<1>0. /\ TypeOK /\ Control /\ pc = "import" /\ pc' = "save" /\ to' = "sec"
      /\ UNCHANGED <<fmt, file, op, in, cb, errors, loaded, img, result, counts, inp, had, torn, shared, rings, ik, grips, at>>
    BY Zenon DEF IInv, ImportDone
<1>1. TypeOK' /\ Control'
    BY <1>0 DEF TypeOK, Control, AllRings, Rings
<1>2. Settles
    BY <1>0 DEF Settles
<1> QED BY <1>1, <1>2, SettlesFrame

\* rnp_generate_key starts.
LEMMA GenerateStep == IInv /\ rnp_generate_key => IInv'
<1> SUFFICES ASSUME IInv, rnp_generate_key PROVE IInv'
    OBVIOUS
<1>0. /\ TypeOK /\ Control /\ pc = "ready" /\ pc' = "generate" /\ at' = <<1, 1>> /\ torn' = FALSE
      /\ op' = "generate" /\ result' = FALSE /\ op = "load"
      /\ UNCHANGED <<fmt, file, rings, in, to, cb, errors, loaded, ik, grips, img, inp, had, shared>>
    BY Zenon DEF IInv, rnp_generate_key, Begins, Control
<1>1. at' \in Nat \X Nat /\ at'[1] = 1
    BY <1>0
<1>2. TypeOK'
    BY <1>0, <1>1 DEF TypeOK
<1>3. Control'
    BY <1>0, <1>1 DEF Control
<1>4. Settles
    BY <1>0 DEF Settles
<1> QED BY <1>2, <1>3, <1>4, SettlesFrame

\* The beginning of a sequence, with one more element or without.
LEMMA CutTyped ==
    ASSUME NEW S, NEW s \in Seq(S), NEW end \in S, NEW n \in 0 .. Len(s) - 1
    PROVE  SubSeq(s, 1, n) \in Seq(S) /\ Append(SubSeq(s, 1, n), end) \in Seq(S)
<1>1. n \in Nat /\ n <= Len(s)
    OBVIOUS
<1>2. SubSeq(s, 1, n) \in Seq(S)
    BY <1>1
<1> QED BY <1>2

\* The images that may replace a ring file.
LEMMA CutsTyped ==
    ASSUME NEW f, NEW image \in Blobs, f = "GPG" => Len(image) = 1, NEW t \in Cuts(f, image)
    PROVE  t \in Blobs
<1>1. Packet("stop") \in Packets
    BY DEF Packet, Packets, Kinds, Labels
<1>0. image \in Seq(Seq(Packets))
    BY DEF Blobs
<1>2. CASE f = "GPG"
    <2>1. PICK s \in Seq(Packets) : s = image[1]
        <3>1. 1 \in 1 .. Len(image)
            BY <1>2
        <3> QED BY <1>0, <3>1
    <2>2. PICK b : \E n \in 0 .. Len(s) - 1 :
             t = <<b>> /\ (b = SubSeq(s, 1, n) \/ b = Append(SubSeq(s, 1, n), Packet("stop")))
        <3>1. \E b : \E n \in 0 .. Len(image[1]) - 1 :
                 t = <<b>> /\ (b = SubSeq(image[1], 1, n) \/ b = Append(SubSeq(image[1], 1, n), Packet("stop")))
            BY <1>2, Zenon DEF Cuts
        <3> QED BY <2>1, <3>1
    <2>3. b \in Seq(Packets)
        BY <1>1, <2>1, <2>2, CutTyped, Zenon
    <2> QED BY <2>2, <2>3 DEF Blobs
<1>3. CASE f # "GPG"
    <2>1. PICK n \in 0 .. Len(image) - 1 :
             t = SubSeq(image, 1, n) \/ t = Append(SubSeq(image, 1, n), <<Packet("stop")>>)
        BY <1>3, Zenon DEF Cuts
    <2>2. <<Packet("stop")>> \in Seq(Packets)
        BY <1>1
    <2>3. t \in Seq(Seq(Packets))
        BY <1>0, <2>1, <2>2, CutTyped, Zenon
    <2> QED BY <2>3 DEF Blobs
<1> QED BY <1>2, <1>3

\* A ring file is replaced, or the save fails.
LEMMA WriteStep == IInv /\ pgp_mem_writefile => IInv'
<1> SUFFICES ASSUME IInv, pgp_mem_writefile PROVE IInv'
    OBVIOUS
<1>0. /\ TypeOK /\ Control /\ pc = "temp" /\ to \in Rings /\ (fmt = "GPG" => Len(img) = 1)
      /\ UNCHANGED <<fmt, rings, in, cb, errors, loaded, at, ik, grips, counts, inp, had, shared>>
    BY DEF IInv, pgp_mem_writefile, Control
<1>1. \/ Replace(img) /\ torn' = torn
      \/ (\E t \in Cuts(fmt, img) : Replace(t)) /\ torn' = TRUE
      \/ file' = file /\ torn' = torn
    BY Zenon DEF pgp_mem_writefile
<1>2. \/ pc' = "save" /\ to' = "pub" /\ img' = <<>> /\ UNCHANGED <<op, result>>
      \/ Ends(TRUE) /\ to' = to
      \/ Ends(FALSE) /\ to' = to
    BY Zenon DEF pgp_mem_writefile
<1>3. /\ img' = <<>> /\ pc' \in {"save", "clean", "ready"} /\ to' \in Rings /\ result' \in BOOLEAN
      /\ op' \in {op, "load"} /\ (op = "import" <=> op' = "import")
      /\ pc' = "ready" => op' = "load"
      /\ pc' = "clean" => op' = "import"
    BY <1>0, <1>2 DEF Ends, Rings, TypeOK
<1>4. file' \in [Rings -> [there : BOOLEAN, blobs : Blobs]] /\ torn' \in BOOLEAN
    <2>1. ASSUME NEW t \in Blobs, Replace(t) PROVE file' \in [Rings -> [there : BOOLEAN, blobs : Blobs]]
        BY <1>0, <2>1 DEF Replace, TypeOK
    <2>2. img \in Blobs /\ \A t \in Cuts(fmt, img) : t \in Blobs
        BY <1>0, CutsTyped DEF TypeOK
    <2>3. torn' \in BOOLEAN
        BY <1>0, <1>1 DEF TypeOK
    <2>4. file \in [Rings -> [there : BOOLEAN, blobs : Blobs]]
        BY <1>0 DEF TypeOK
    <2> QED BY <1>1, <2>1, <2>2, <2>3, <2>4, Zenon
<1>5. <<>> \in Blobs
    BY DEF Blobs
<1>6. TypeOK'
    BY <1>0, <1>3, <1>4, <1>5 DEF TypeOK, AllRings
<1>7. Control'
    BY <1>0, <1>3 DEF Control, Tmp
<1>8. Settles
    BY <1>0, <1>3 DEF Settles
<1> QED BY <1>6, <1>7, <1>8, SettlesFrame

\* The process ends or crashes.
LEMMA StopStep == IInv /\ Stops => IInv'
<1> SUFFICES ASSUME IInv, Stops PROVE IInv'
    OBVIOUS
<1>0. /\ TypeOK /\ pc' = "off" /\ op' = "load" /\ rings' = [r \in DOMAIN rings |-> EmptyRing]
      /\ in' = <<>> /\ to' = "pub" /\ cb' = NoKey /\ errors' = FALSE /\ loaded' = {} /\ at' = <<0, 0>>
      /\ ik' = NoPtr /\ grips' = <<>> /\ img' = <<>> /\ result' = FALSE /\ inp' = <<>>
      /\ torn' = FALSE /\ shared' = FALSE /\ UNCHANGED <<fmt, file>>
    BY Zenon DEF IInv, Stops
<1>1. DOMAIN rings = AllRings
    BY <1>0 DEF TypeOK
<1>2. \A r \in AllRings : rings'[r] = EmptyRing
    BY <1>0, <1>1
<1>3. EmptyRing \in RingType /\ EmptyRing.keys = <<>> /\ Len(EmptyRing.keys) <= EmptyRing.vsize
    BY DEF EmptyRing, RingType
<1>4. rings' \in [AllRings -> RingType]
    BY <1>0, <1>1, <1>3
<1>5. \A r \in AllRings : DOMAIN rings'[r].keys = {} /\ rings'[r].keys = <<>>
    BY <1>2, <1>3
<1>6. NoPtr \in Pointers /\ NoKey \in [key : BOOLEAN, last : Pointers] /\ <<>> \in Blobs
    BY DEF NoPtr, Pointers, NoKey, Blobs
<1>7. TypeOK'
    <2>1. {in', img', inp'} \subseteq Blobs /\ {errors', result', torn', shared'} \subseteq BOOLEAN
        BY <1>0, <1>6
    <2>2. \A r \in AllRings : Len(rings'[r].keys) <= rings'[r].vsize
        BY <1>2, <1>3, Zenon
    <2>3. to' \in AllRings /\ loaded' \subseteq Rings /\ at' \in Nat \X Nat /\ grips' \in Seq(Labels)
        BY <1>0 DEF AllRings, Rings
    <2> QED BY <1>0, <1>4, <1>6, <2>1, <2>2, <2>3 DEF TypeOK
<1>8. "tmp" \in AllRings /\ Rings \subseteq AllRings
    BY DEF AllRings
<1>9. AttributesInStep' /\ Linked'
    <2>1. \A r \in AllRings : Bare(rings'[r])
        BY <1>5, Zenon DEF Bare
    <2>2. AttributesInStep' /\ RingsLinked' /\ TmpLinked'
        BY <1>5, <1>8, Zenon DEF AttributesInStep, RingsLinked, TmpLinked, Tmp
    <2> QED BY <2>1, <2>2, Zenon DEF Linked
<1>10. Control'
    BY <1>0, <1>5, <1>8 DEF Control, Tmp
<1>11. Loading' /\ Imported' /\ OwnedOnce' /\ StaleOnlyAfterMove'
    BY <1>0 DEF Loading, Imported, OwnedOnce, StaleOnlyAfterMove
<1>12. Owners'
    BY <1>0, <1>5, <1>8 DEF Owners, TmpOwns, RingsOwn, SharedRemoved, TmpNames, InputNames, Tmp
<1> QED BY <1>7, <1>9, <1>10, <1>11, <1>12, Zenon DEF IInv

\* A pointer that can be followed leads to a key.
LEMMA DerefTyped ==
    ASSUME TypeOK, NEW p, Live(p)
    PROVE  /\ Deref(p) \in Keys
           /\ p.ring # "stack" => /\ p.ring \in AllRings /\ p.idx \in DOMAIN rings[p.ring].keys
                                  /\ Deref(p) = rings[p.ring].keys[p.idx]
<1>1. CASE p.ring = "stack"
    <2>1. (to = "sec") \in BOOLEAN
        OBVIOUS
    <2>2. 2 \in {1, 2}
        OBVIOUS
    <2>3. Generated(2, to = "sec") \in Keys
        BY <2>1, <2>2, GeneratedFacts
    <2> QED BY <1>1, <2>3, Zenon DEF Deref
<1>2. CASE p.ring # "stack"
    <2>1. p.ring \in AllRings /\ p.idx \in DOMAIN rings[p.ring].keys
        BY <1>2 DEF Live, TypeOK
    <2>2. Deref(p) = rings[p.ring].keys[p.idx]
        BY <1>2, Zenon DEF Deref
    <2>3. rings[p.ring].keys[p.idx] \in Keys
        BY <2>1 DEF TypeOK, RingType
    <2> QED BY <2>1, <2>2, <2>3, Zenon
<1> QED BY <1>1, <1>2

\* The primary keys of a ring.
Primaries(ring) == {ring.keys[n] : n \in {m \in DOMAIN ring.keys : ~IsSub(ring.keys[m].name)}}
\* PrimaryKeys has them all, and no other key.
LEMMA PrimaryFacts ==
    ASSUME NEW ring \in RingType
    PROVE  /\ PrimaryKeys(ring) \in Seq(Primaries(ring))
           /\ \A n \in DOMAIN ring.keys : ~IsSub(ring.keys[n].name) =>
                 \E m \in DOMAIN PrimaryKeys(ring) : PrimaryKeys(ring)[m] = ring.keys[n]
<1>1. PICK k \in Seq(Keys) : k = ring.keys
    BY DEF RingType
<1>2. PICK s : s = [n \in DOMAIN k |-> IF IsSub(k[n].name) THEN <<>> ELSE <<k[n]>>]
    OBVIOUS
<1>3. PrimaryKeys(ring) = FlattenSeq(s)
    BY <1>1, <1>2, Zenon DEF PrimaryKeys
<1>4. PICK P : P = Primaries(ring)
    OBVIOUS
<1>5. \A n \in DOMAIN k : ~IsSub(k[n].name) => k[n] \in P
    BY <1>1, <1>4, Zenon DEF Primaries
<1>6. \A n \in DOMAIN k : s[n] \in Seq(P)
    BY <1>2, <1>5
<1>7. s \in Seq(Seq(P)) /\ Len(s) = Len(k) /\ DOMAIN s = DOMAIN k
    <2>1. DOMAIN k = 1 .. Len(k) /\ Len(k) \in Nat
        OBVIOUS
    <2>2. s \in [1 .. Len(k) -> Seq(P)]
        BY <1>2, <1>6, <2>1
    <2> HIDE <1>2, <1>6
    <2> QED BY <2>1, <2>2
<1>8. /\ FlattenSeq(s) \in Seq(P)
      /\ \A i \in 1 .. Len(s) : \A j \in DOMAIN s[i] : \E n \in DOMAIN FlattenSeq(s) : FlattenSeq(s)[n] = s[i][j]
    <2>1. s \in Seq(Seq(P))
        BY <1>7
    <2> QED BY <2>1, FlattenFacts
<1>9. ASSUME NEW n \in DOMAIN k, ~IsSub(k[n].name)
      PROVE  \E m \in DOMAIN FlattenSeq(s) : FlattenSeq(s)[m] = k[n]
    <2>1. s[n] = <<k[n]>> /\ 1 \in DOMAIN s[n] /\ s[n][1] = k[n] /\ n \in 1 .. Len(s)
        BY <1>1, <1>2, <1>7, <1>9
    <2> QED BY <1>8, <2>1, Zenon
<1> QED BY <1>1, <1>3, <1>4, <1>8, <1>9, Zenon

\* The keys that are written for a primary key.
LEMMA GroupFacts ==
    ASSUME TypeOK, NEW key \in Keys, \A m \in DOMAIN key.subs : Live(key.subs[m])
    PROVE  LET g == rnp_key_store_kbx_write_pgp(key) IN
           /\ g \in Seq(Keys) /\ Len(g) = Len(key.subs) + 1 /\ g[1] = key
           /\ \A m \in DOMAIN key.subs : g[m + 1] = Deref(key.subs[m])
<1>1. PICK s \in Seq(Pointers) : s = key.subs
    BY DEF Keys
<1>2. PICK d : d = [n \in DOMAIN s |-> Deref(s[n])]
    OBVIOUS
<1>3. \A n \in DOMAIN s : Deref(s[n]) \in Keys
    BY <1>1, DerefTyped, Zenon
<1>4. d \in Seq(Keys) /\ Len(d) = Len(s) /\ \A n \in DOMAIN s : d[n] = Deref(s[n])
    BY <1>1, <1>2, <1>3
<1>5. PICK g : g = <<key>> \o d
    OBVIOUS
<1>6. g = rnp_key_store_kbx_write_pgp(key)
    BY <1>1, <1>2, <1>5, Zenon DEF rnp_key_store_kbx_write_pgp
<1>7. g \in Seq(Keys) /\ Len(g) = Len(s) + 1 /\ g[1] = key
    BY <1>4, <1>5
<1>8. \A m \in DOMAIN s : g[m + 1] = d[m]
    BY <1>1, <1>4, <1>5
<1> QED BY <1>1, <1>4, <1>6, <1>7, <1>8, Zenon

\* The groups of keys that are written.
LEMMA GroupsTyped ==
    ASSUME TypeOK, NEW r \in Rings, Followable(rings[r])
    PROVE  /\ rnp_key_store_write_to_mem(rings[r]) \in Seq(Seq(Keys))
           /\ fmt = "GPG" => Len(rnp_key_store_write_to_mem(rings[r])) = 1
<1>1. PICK ring \in RingType : ring = rings[r]
    BY DEF TypeOK, AllRings
<1>2. CASE fmt = "GPG"
    <2>1. rnp_key_store_write_to_mem(ring) = <<ring.keys>>
        BY <1>2, Zenon DEF rnp_key_store_write_to_mem
    <2>2. ring.keys \in Seq(Keys)
        BY DEF RingType
    <2> QED BY <1>1, <2>1, <2>2
<1>3. CASE fmt # "GPG"
    <2>1. fmt = "KBX"
        BY <1>3, KeyStoreAssumption DEF TypeOK
    <2>2. PICK p : p = PrimaryKeys(ring)
        OBVIOUS
    <2>3. p \in Seq(Primaries(ring))
        BY <2>2, PrimaryFacts, Zenon
    <2>4. PICK w : w = [n \in DOMAIN p |-> rnp_key_store_kbx_write_pgp(p[n])]
        OBVIOUS
    <2>5. rnp_key_store_write_to_mem(ring) = w
        BY <1>3, <2>2, <2>4, Zenon DEF rnp_key_store_write_to_mem, rnp_key_store_kbx_to_mem
    <2>6. ASSUME NEW n \in DOMAIN p PROVE rnp_key_store_kbx_write_pgp(p[n]) \in Seq(Keys)
        <3>1. p[n] \in Primaries(ring)
            BY <2>3
        <3>2. PICK i \in DOMAIN ring.keys : p[n] = ring.keys[i] /\ ~IsSub(ring.keys[i].name)
            BY <3>1, Zenon DEF Primaries
        <3>3. p[n] \in Keys
            BY <3>2 DEF RingType
        <3>4. \A m \in DOMAIN p[n].subs : Live(p[n].subs[m])
            BY <1>1, <2>1, <3>2, Zenon DEF Followable
        <3> QED BY <3>3, <3>4, GroupFacts, Zenon
    <2>7. w \in Seq(Seq(Keys))
        BY <2>3, <2>4, <2>6
    <2> QED BY <1>1, <1>3, <2>5, <2>7, Zenon
<1> QED BY <1>2, <1>3

\* The packets of keys.
LEMMA PacketsTyped ==
    ASSUME NEW k \in Seq(Keys)
    PROVE  [n \in DOMAIN k |-> k[n].pkts] \in Seq(Seq(Packets)) /\ pgp_key_write_packets(k) \in Seq(Packets)
<1>1. PICK s : s = [n \in DOMAIN k |-> k[n].pkts]
    OBVIOUS
<1>2. ASSUME NEW n \in DOMAIN k PROVE k[n].pkts \in Seq(Packets)
    <2>1. k[n] \in Keys
        OBVIOUS
    <2> QED BY <2>1 DEF Keys
<1>3. s \in Seq(Seq(Packets))
    BY <1>1, <1>2
<1>4. FlattenSeq(s) \in Seq(Packets)
    BY <1>3, FlattenFacts, Zenon
<1> QED BY <1>1, <1>3, <1>4, Zenon DEF pgp_key_write_packets

\* A pointer of a ring that cannot be followed has a cause that is named.
LEMMA StaleCause ==
    ASSUME IInv, pc # "undefined", pc # "sub", NEW r \in Rings, NEW n \in DOMAIN rings[r].keys,
           NEW m \in DOMAIN rings[r].keys[n].subs, ~Live(rings[r].keys[n].subs[m])
    PROVE  Cause
<1>1. r \in DOMAIN rings
    BY DEF IInv, TypeOK, AllRings
<1>2. \/ Within(r, rings[r], rings[r].keys[n].subs[m])
      \/ rings[r].keys[n].name = Fresh[1]
    BY Zenon DEF IInv, Linked, RingsLinked
<1>3. CASE Within(r, rings[r], rings[r].keys[n].subs[m])
    <2>1. rings[r].vsize > Grow
        BY <1>1, <1>3, Zenon DEF Within, Live
    <2> QED BY <1>1, <2>1, Zenon DEF Cause
<1>4. CASE rings[r].keys[n].name = Fresh[1]
    BY <1>1, <1>4, Zenon DEF Cause, RingNames
<1> QED BY <1>2, <1>3, <1>4

\* A subkey is searched.
LEMMA FindStep == IInv /\ find_suitable_subkey => IInv'
<1> SUFFICES ASSUME IInv, find_suitable_subkey PROVE IInv'
    OBVIOUS
<1>1. pc = "ready" /\ Undefined /\ UNCHANGED others
    BY Zenon DEF find_suitable_subkey, others, quiet
<1>2. PICK n \in DOMAIN rings["pub"].keys : \E m \in DOMAIN rings["pub"].keys[n].subs : ~Live(rings["pub"].keys[n].subs[m])
    BY Zenon DEF find_suitable_subkey
<1>3. "pub" \in Rings /\ pc # "undefined" /\ pc # "sub"
    BY <1>1 DEF Rings
<1>4. Cause
    BY <1>2, <1>3, StaleCause, Zenon
<1> QED BY <1>1, <1>4, Fails

\* A ring is written to memory.
LEMMA SaveStep == IInv /\ Save => IInv'
<1> SUFFICES ASSUME IInv, Save PROVE IInv'
    OBVIOUS
<1>0. /\ TypeOK /\ Control /\ pc = "save" /\ to \in Rings
      /\ UNCHANGED <<fmt, rings, in, to, cb, errors, loaded, at, ik, grips, counts, inp, had, torn, shared>>
    BY DEF IInv, Save, Control
<1>1. CASE ~Followable(rings[to]) /\ Undefined /\ UNCHANGED <<op, img, result, file>>
    <2>1. fmt = "KBX"
        BY <1>1, Zenon DEF Followable
    <2>2. CASE rings[to].x509
        <3>1. to \in DOMAIN rings
            BY <1>0 DEF TypeOK, AllRings
        <3>2. Cause
            BY <2>2, <3>1, Zenon DEF Cause
        <3> QED BY <1>0, <1>1, <3>2, Fails DEF others
    <2>3. CASE ~rings[to].x509
        <3>1. PICK n \in DOMAIN rings[to].keys : \E m \in DOMAIN rings[to].keys[n].subs : ~Live(rings[to].keys[n].subs[m])
            BY <1>1, <2>3, Zenon DEF Followable
        <3>2. pc # "undefined" /\ pc # "sub"
            BY <1>0
        <3>3. Cause
            BY <1>0, <3>1, <3>2, StaleCause, Zenon
        <3> QED BY <1>0, <1>1, <3>3, Fails DEF others
    <2> QED BY <2>2, <2>3
<1>2. CASE /\ Followable(rings[to]) /\ pc' = "temp" /\ file' = file /\ UNCHANGED <<op, result>>
           /\ img' = [n \in DOMAIN rnp_key_store_write_to_mem(rings[to]) |->
                        pgp_key_write_packets(rnp_key_store_write_to_mem(rings[to])[n])]
    <2>1. PICK w \in Seq(Seq(Keys)) : w = rnp_key_store_write_to_mem(rings[to]) /\ (fmt = "GPG" => Len(w) = 1)
        BY <1>0, <1>2, GroupsTyped, Zenon
    <2>2. \A n \in DOMAIN w : pgp_key_write_packets(w[n]) \in Seq(Packets)
        <3>1. \A n \in DOMAIN w : w[n] \in Seq(Keys)
            OBVIOUS
        <3> QED BY <3>1, PacketsTyped, Zenon
    <2>3. img' = [n \in DOMAIN w |-> pgp_key_write_packets(w[n])]
        BY <1>2, <2>1, Zenon
    <2>4. img' \in Blobs /\ Len(img') = Len(w)
        BY <2>2, <2>3 DEF Blobs
    <2>5. TypeOK'
        <3>1. {in', img', inp'} \subseteq Blobs
            BY <1>0, <2>4 DEF TypeOK
        <3> QED BY <1>0, <1>2, <3>1 DEF TypeOK
    <2>6. Control'
        BY <1>0, <1>2, <2>1, <2>4 DEF Control
    <2>7. Settles
        BY <1>0, <1>2 DEF Settles
    <2> QED BY <2>5, <2>6, <2>7, SettlesFrame
<1>3. CASE Ends(FALSE) /\ file' = file
    <2>1. /\ img' = <<>> /\ pc' \in {"clean", "ready"} /\ result' = FALSE
          /\ op' \in {op, "load"} /\ (op = "import" <=> op' = "import")
          /\ pc' = "ready" => op' = "load"
          /\ pc' = "clean" => op' = "import"
        BY <1>0, <1>3 DEF Ends
    <2>2. <<>> \in Blobs
        BY DEF Blobs
    <2>3. TypeOK'
        BY <1>0, <1>3, <2>1, <2>2 DEF TypeOK
    <2>4. Control'
        BY <1>0, <2>1 DEF Control
    <2>5. Settles
        BY <1>0, <2>1 DEF Settles
    <2> QED BY <2>3, <2>4, <2>5, SettlesFrame
<1> QED BY <1>1, <1>2, <1>3, Zenon DEF Save, OpenTemp

\* Nothing changes.
LEMMA StutterStep == IInv /\ UNCHANGED vars => IInv'
<1> SUFFICES ASSUME IInv, UNCHANGED vars PROVE IInv'
    OBVIOUS
<1>0. TypeOK /\ AttributesInStep /\ Control /\ Loading /\ Imported /\ Linked /\ Owners /\ OwnedOnce /\ StaleOnlyAfterMove
    BY Zenon DEF IInv
<1>1. TypeOK'
    BY <1>0, Zenon DEF vars, TypeOK
<1>2. AttributesInStep' /\ OwnedOnce' /\ StaleOnlyAfterMove'
    BY <1>0, Zenon DEF vars, AttributesInStep, OwnedOnce, StaleOnlyAfterMove, RingNames
<1>3. Control' /\ Loading'
    BY <1>0, Zenon DEF vars, Control, Loading
<1>4. Imported'
    BY <1>0, Zenon DEF vars, Imported, Tmp, Importing, Dest
<1>5. Linked'
    BY <1>0, ZenonT(60) DEF vars, Linked, RingsLinked, TmpLinked, Tmp, Ahead
<1>6. Owners'
    BY <1>0, ZenonT(60) DEF vars, Owners, TmpOwns, RingsOwn, SharedRemoved, TmpNames, InputNames, Tmp
<1> QED BY <1>1, <1>2, <1>3, <1>4, <1>5, <1>6, Zenon DEF IInv

-----------------------------------------------------------------------------
(* The end of a blob; removing and freeing keys of the temporary store. *)

\* The names of the keys of a file.
LEMMA NamesFacts ==
    ASSUME NEW blobs, NEW name
    PROVE  name \in Names(blobs) <=>
              \E b \in DOMAIN blobs : \E n \in DOMAIN blobs[b] : IsKey(blobs[b][n]) /\ blobs[b][n].name = name
<1>1. name \in Names(blobs) <=>
         \E c \in Range(blobs) : name \in {c[n].name : n \in {m \in DOMAIN c : IsKey(c[m])}}
    BY Zenon DEF Names
<1>2. \A c : name \in {c[n].name : n \in {m \in DOMAIN c : IsKey(c[m])}} <=>
                 \E n \in DOMAIN c : IsKey(c[n]) /\ c[n].name = name
    BY Zenon
<1>3. \A c : c \in Range(blobs) <=> \E b \in DOMAIN blobs : c = blobs[b]
    BY Zenon DEF Range
<1>4. name \in Names(blobs) <=> \E c \in Range(blobs) : \E n \in DOMAIN c : IsKey(c[n]) /\ c[n].name = name
    BY <1>1, <1>2, Zenon
<1>5. ASSUME NEW b \in DOMAIN blobs, \E n \in DOMAIN blobs[b] : IsKey(blobs[b][n]) /\ blobs[b][n].name = name
      PROVE  name \in Names(blobs)
    BY <1>3, <1>4, <1>5, Zenon
<1>6. ASSUME name \in Names(blobs)
      PROVE  \E b \in DOMAIN blobs : \E n \in DOMAIN blobs[b] : IsKey(blobs[b][n]) /\ blobs[b][n].name = name
    <2>1. PICK c \in Range(blobs) : \E n \in DOMAIN c : IsKey(c[n]) /\ c[n].name = name
        BY <1>4, <1>6, Zenon
    <2>2. PICK b \in DOMAIN blobs : c = blobs[b]
        BY <1>3, <2>1, Zenon
    <2> QED BY <2>1, <2>2, Zenon
<1> QED BY <1>5, <1>6, Zenon

\* The rest of a file, behind its first blob.
LEMMA TailFacts ==
    ASSUME NEW blobs \in Blobs, blobs # <<>>
    PROVE  /\ Tail(blobs) \in Blobs /\ Len(Tail(blobs)) = Len(blobs) - 1
           /\ \A b \in DOMAIN Tail(blobs) : b + 1 \in DOMAIN blobs /\ Tail(blobs)[b] = blobs[b + 1]
           /\ Names(Tail(blobs)) \subseteq Names(blobs)
           /\ ~Twice(blobs) => ~Twice(Tail(blobs))
<1>1. PICK s \in Seq(Seq(Packets)) : s = blobs
    BY DEF Blobs
<1>2. PICK t : t = Tail(s)
    OBVIOUS
<1>3. t \in Seq(Seq(Packets)) /\ Len(t) = Len(s) - 1 /\ Len(s) \in Nat /\ Len(s) > 0
    BY <1>1, <1>2
<1>4. \A b \in DOMAIN t : b \in Nat /\ b + 1 \in DOMAIN s /\ t[b] = s[b + 1]
    BY <1>1, <1>2
<1>5. Names(t) \subseteq Names(s)
    <2>1. ASSUME NEW name \in Names(t) PROVE name \in Names(s)
        <3>1. PICK b \in DOMAIN t : \E n \in DOMAIN t[b] : IsKey(t[b][n]) /\ t[b][n].name = name
            BY <2>1, NamesFacts, Zenon
        <3>2. b + 1 \in DOMAIN s /\ t[b] = s[b + 1]
            BY <1>4, <3>1
        <3>3. \E n \in DOMAIN s[b + 1] : IsKey(s[b + 1][n]) /\ s[b + 1][n].name = name
            BY <3>1, <3>2, Zenon
        <3> QED BY <3>2, <3>3, NamesFacts, Zenon
    <2> QED BY <2>1
<1>6. ASSUME Twice(t) PROVE Twice(s)
    <2>1. PICK b \in DOMAIN t, c \in DOMAIN t : \E n \in DOMAIN t[b], m \in DOMAIN t[c] :
             /\ b # c \/ n # m
             /\ IsKey(t[b][n]) /\ IsKey(t[c][m]) /\ t[b][n].name = t[c][m].name
        BY <1>6, Zenon DEF Twice
    <2>2. /\ b + 1 \in DOMAIN s /\ t[b] = s[b + 1] /\ c + 1 \in DOMAIN s /\ t[c] = s[c + 1]
          /\ b # c => b + 1 # c + 1
        BY <1>4
    <2>3. \E n \in DOMAIN s[b + 1], m \in DOMAIN s[c + 1] :
             /\ b + 1 # c + 1 \/ n # m
             /\ IsKey(s[b + 1][n]) /\ IsKey(s[c + 1][m]) /\ s[b + 1][n].name = s[c + 1][m].name
        BY <2>1, <2>2, Zenon
    <2> QED BY <2>2, <2>3, Zenon DEF Twice
<1> QED BY <1>1, <1>2, <1>3, <1>4, <1>5, <1>6, Zenon DEF Blobs

\* A blob was read.
LEMMA EndOfBlobStep == IInv /\ EndOfBlob => IInv'
<1> SUFFICES ASSUME IInv, EndOfBlob PROVE IInv'
    OBVIOUS
<1>0. /\ TypeOK /\ Control /\ Linked /\ Owners /\ AttributesInStep /\ OwnedOnce
      /\ pc = "load" /\ UNCHANGED <<op, counts, fmt, file, ik, grips, img, inp, had, torn, shared>>
    BY Zenon DEF IInv, EndOfBlob, quiet
<1>01. NoKey \in [key : BOOLEAN, last : Pointers] /\ <<>> \in Blobs
    BY DEF NoKey, NoPtr, Pointers, Blobs
<1>02. pc # "undefined"
    BY <1>0
<1>1. CASE in # <<>> /\ in' = Tail(in) /\ cb' = NoKey /\ UNCHANGED <<pc, to, errors, loaded, at, result, rings>>
    <2>1. in \in Blobs
        BY <1>0 DEF TypeOK
    <2>2. in' \in Blobs /\ Names(in') \subseteq Names(in) /\ (~Twice(in) => ~Twice(in'))
        BY <1>1, <2>1, TailFacts, Zenon
    <2>3. /\ AttributesInStep' /\ OwnedOnce' /\ StaleOnlyAfterMove' /\ TmpNames' /\ SharedRemoved'
          /\ \A r \in AllRings : Bare(rings'[r])
        BY <1>0, <1>1, Frame
    <2>4. TypeOK'
        <3>1. {in', img', inp'} \subseteq Blobs
            BY <1>0, <2>2 DEF TypeOK
        <3> QED BY <1>0, <1>01, <1>1, <3>1 DEF TypeOK
    <2>5. Control'
        BY <1>0, <1>1 DEF Control
    <2>6. Loading' /\ Imported'
        BY <1>0, <1>1 DEF Loading, Imported, NoKey
    <2>7. Linked'
        BY <1>0, <1>1, <2>3 DEF Linked, RingsLinked, TmpLinked, Ahead, Tmp
    <2>8. Owners'
        <3>1. TmpOwns' /\ RingsOwn'
            BY <1>0, <1>1, Zenon DEF Owners, TmpOwns, RingsOwn, Tmp
        <3>2. InputNames'
            BY <1>0, <1>1, <2>2, Zenon DEF Owners, InputNames, Tmp
        <3> QED BY <2>3, <3>1, <3>2, Zenon DEF Owners
    <2> QED BY <2>3, <2>4, <2>5, <2>6, <2>7, <2>8, Zenon DEF IInv
<1>2. CASE /\ to = "pub" /\ loaded' \subseteq loaded \cup {to} /\ Open("sec", file["sec"].blobs) /\ UNCHANGED <<at, result>>
           /\ rings' = [rings EXCEPT !["pub"] = rings[to], !["sec"] = rnp_key_store_clear(@)]
    <2>0. /\ op # "import" /\ loaded = {} /\ Tmp.keys = <<>>
        BY <1>0, <1>2 DEF Control, Tmp
    <2>01. pc' = "load" /\ to' = "sec" /\ in' = file["sec"].blobs /\ cb' = NoKey /\ errors' = FALSE
        BY <1>2, Zenon DEF Open
    <2>1. PICK g : g = rnp_key_store_clear(rings["sec"])
        OBVIOUS
    <2>2. g \in RingType /\ g.keys = <<>> /\ Len(g.keys) <= g.vsize
        <3>1. rings["sec"] \in RingType
            BY <1>0 DEF TypeOK, AllRings, Rings
        <3>2. PICK q \in RingType : q = rings["sec"]
            BY <3>1
        <3>3. g = [q EXCEPT !.keys = <<>>, !.x509 = FALSE]
            BY <2>1, <3>2, Zenon DEF rnp_key_store_clear
        <3>4. <<>> \in Seq(Keys) /\ Len(<<>>) = 0
            OBVIOUS
        <3>5. g \in RingType /\ g.keys = <<>> /\ g.vsize = q.vsize /\ q.vsize \in Nat
            BY <3>3, <3>4 DEF RingType
        <3> QED BY <3>4, <3>5
    <2>3. rings' = [rings EXCEPT !["sec"] = g]
        BY <1>0, <1>2, <2>1 DEF TypeOK
    <2>4. /\ rings' \in [AllRings -> RingType] /\ rings'["pub"] = rings["pub"]
          /\ rings'["tmp"] = rings["tmp"] /\ rings'["sec"] = g
        BY <1>0, <2>2, <2>3 DEF TypeOK, AllRings, Rings
    <2>5. \A r \in AllRings : rings'[r] = rings[r] \/ (r = "sec" /\ rings'[r] = g)
        BY <1>0, <2>3, <2>4 DEF TypeOK
    <2>51. DOMAIN g.keys = {}
        BY <2>2
    <2>6. TypeOK'
        <3>1. in' \in Blobs
            BY <1>0, <2>01 DEF TypeOK, Rings
        <3>2. {in', img', inp'} \subseteq Blobs
            BY <1>0, <3>1 DEF TypeOK
        <3>3. \A r \in AllRings : Len(rings'[r].keys) <= rings'[r].vsize
            BY <1>0, <2>2, <2>5, Zenon DEF TypeOK
        <3>4. to' \in AllRings /\ loaded' \subseteq Rings
            BY <1>2, <2>0, <2>01 DEF AllRings, Rings
        <3> QED BY <1>0, <1>01, <1>2, <2>01, <2>4, <3>2, <3>3, <3>4 DEF TypeOK
    <2>7. AttributesInStep'
        BY <1>0, <2>5, <2>51, Zenon DEF AttributesInStep
    <2>8. Control'
        BY <1>0, <1>2, <2>0, <2>01, <2>4 DEF Control, Tmp
    <2>9. Loading' /\ Imported' /\ OwnedOnce' /\ StaleOnlyAfterMove'
        BY <1>0, <2>01 DEF Loading, Imported, OwnedOnce, StaleOnlyAfterMove, NoKey
    <2>10. Linked'
        <3>1. \A r \in AllRings : Bare(rings'[r])
            <4>1. Bare(g)
                BY <2>51, Zenon DEF Bare
            <4> QED BY <1>0, <2>5, <4>1, Zenon DEF Linked
        <3>2. RingsLinked'
            <4>1. Rings \subseteq AllRings /\ pc # "sub"
                BY <1>0 DEF AllRings
            <4> QED BY <1>0, <1>02, <2>01, <2>5, <2>51, <4>1, Zenon DEF Linked, RingsLinked
        <3>3. TmpLinked'
            BY <2>0, <2>4 DEF TmpLinked, Tmp
        <3> QED BY <3>1, <3>2, <3>3, Zenon DEF Linked
    <2>11. Owners'
        <3>1. TmpOwns' /\ SharedRemoved' /\ TmpNames'
            BY <2>0, <2>4 DEF TmpOwns, SharedRemoved, TmpNames, Tmp
        <3>2. RingsOwn'
            <4>1. Rings \subseteq AllRings
                BY DEF AllRings
            <4> QED BY <1>0, <2>5, <2>51, <4>1, Zenon DEF Owners, RingsOwn
        <3>3. InputNames'
            BY <1>0, <2>0 DEF InputNames
        <3> QED BY <3>1, <3>2, <3>3, Zenon DEF Owners
    <2> QED BY <2>6, <2>7, <2>8, <2>9, <2>10, <2>11, Zenon DEF IInv
<1>3. CASE /\ loaded' = loaded \/ (to \in Rings /\ loaded' = loaded \cup {to})
           /\ rings' = [rings EXCEPT ![to] = rings[to]]
           /\ at' = <<1, 1>> /\ result' = FALSE /\ in' = <<>> /\ cb' = NoKey /\ UNCHANGED <<to, errors>>
           /\ \/ pc' = "ready" /\ to # "tmp"
              \/ pc' \in {"import", "clean"} /\ to = "tmp"
    <2>1. rings' = rings
        BY <1>0, <1>3 DEF TypeOK
    <2>2. /\ AttributesInStep' /\ OwnedOnce' /\ StaleOnlyAfterMove' /\ TmpNames' /\ SharedRemoved'
          /\ \A r \in AllRings : Bare(rings'[r])
        BY <1>0, <1>3, <2>1, Frame
    <2>3. at' \in Nat \X Nat /\ at'[1] = 1 /\ at'[2] = 1
        BY <1>3
    <2>4. TypeOK'
        <3>1. {in', img', inp'} \subseteq Blobs /\ loaded' \subseteq Rings
            BY <1>0, <1>01, <1>3 DEF TypeOK
        <3> QED BY <1>0, <1>01, <1>3, <2>1, <2>3, <3>1 DEF TypeOK
    <2>5. Control'
        BY <1>0, <1>3, <2>1 DEF Control
    <2>6. Loading' /\ Imported'
        BY <1>0, <1>3, <2>3 DEF Loading, Imported
    <2>7. Linked'
        BY <1>0, <1>3, <2>1, <2>2 DEF Linked, RingsLinked, TmpLinked, Ahead, Tmp
    <2>8. Owners'
        <3>1. TmpOwns' /\ RingsOwn'
            BY <1>0, <2>1 DEF Owners, TmpOwns, RingsOwn, Tmp
        <3>2. InputNames'
            BY <1>0, <1>3 DEF InputNames
        <3> QED BY <2>2, <3>1, <3>2, Zenon DEF Owners
    <2> QED BY <2>2, <2>4, <2>5, <2>6, <2>7, <2>8, Zenon DEF IInv
<1>4. \/ in # <<>> /\ in' = Tail(in) /\ cb' = NoKey /\ UNCHANGED <<pc, to, errors, loaded, at, result, rings>>
      \/ LoadOver(~errors, rings[to])
    BY Zenon DEF EndOfBlob
<1>5. CASE LoadOver(~errors, rings[to])
    <2>1. loaded' = loaded \/ (to \in Rings /\ loaded' = loaded \cup {to})
        BY <1>5 DEF LoadOver
    <2>2. \/ /\ to = "pub" /\ Open("sec", file["sec"].blobs) /\ UNCHANGED <<at, result>>
             /\ rings' = [rings EXCEPT !["pub"] = rings[to], !["sec"] = rnp_key_store_clear(@)]
          \/ /\ rings' = [rings EXCEPT ![to] = rings[to]]
             /\ at' = <<1, 1>> /\ result' = FALSE /\ in' = <<>> /\ cb' = NoKey /\ UNCHANGED <<to, errors>>
             /\ \/ pc' = "ready" /\ to # "tmp"
                \/ pc' \in {"import", "clean"} /\ to = "tmp"
        BY <1>5 DEF LoadOver
    <2>3. loaded' \subseteq loaded \cup {to}
        BY <2>1
    <2> QED BY <1>2, <1>3, <2>1, <2>2, <2>3, Zenon
<1> QED BY <1>1, <1>4, <1>5

\* One array of keys is replaced by a good one.
LEMMA ArrayStep ==
    ASSUME TypeOK, AttributesInStep, Linked, NEW r \in AllRings, NEW g, Good(g), rings' = [rings EXCEPT ![r] = g]
    PROVE  /\ rings' \in [AllRings -> RingType] /\ rings'[r] = g
           /\ \A q \in AllRings : q # r => rings'[q] = rings[q]
           /\ \A q \in AllRings : Len(rings'[q].keys) <= rings'[q].vsize
           /\ AttributesInStep'
           /\ \A q \in AllRings : Bare(rings'[q])
<1>1. g \in RingType
    BY DEF Good
<1>2. /\ rings' \in [AllRings -> RingType] /\ rings'[r] = g
      /\ \A q \in AllRings : q # r => rings'[q] = rings[q]
    BY <1>1 DEF TypeOK
<1>3. \A q \in AllRings : Len(rings'[q].keys) <= rings'[q].vsize
    BY <1>2, Zenon DEF TypeOK, Good
<1>4. AttributesInStep'
    <2>1. \A q \in AllRings : \A n \in DOMAIN rings'[q].keys : InStep(rings'[q].keys[n])
        BY <1>2, Zenon DEF AttributesInStep, Good
    <2> QED BY <2>1, Zenon DEF AttributesInStep
<1>5. \A q \in AllRings : Bare(rings'[q])
    BY <1>2, Zenon DEF Linked, Good
<1> QED BY <1>2, <1>3, <1>4, <1>5, Zenon

\* The place in s of an element of RemoveAt(s, n).
Before(i, n) == IF i < n THEN i ELSE i + 1

\* RemoveAt leaves the other elements, each once.
LEMMA RemoveFacts ==
    ASSUME NEW S, NEW s \in Seq(S), NEW n \in DOMAIN s
    PROVE  /\ RemoveAt(s, n) \in Seq(S) /\ Len(RemoveAt(s, n)) = Len(s) - 1
           /\ \A i \in DOMAIN RemoveAt(s, n) :
                 /\ RemoveAt(s, n)[i] = s[Before(i, n)] /\ Before(i, n) \in DOMAIN s /\ Before(i, n) # n
           /\ \A i, j \in DOMAIN RemoveAt(s, n) : i # j => Before(i, n) # Before(j, n)
<1>1. PICK t : t = RemoveAt(s, n)
    OBVIOUS
<1>2. PICK a : a = SubSeq(s, 1, n - 1)
    OBVIOUS
<1>3. PICK b : b = SubSeq(s, n + 1, Len(s))
    OBVIOUS
<1>4. t = a \o b
    BY <1>1, <1>2, <1>3, Zenon DEF RemoveAt
<1>5. n \in 1 .. Len(s) /\ Len(s) \in Nat
    OBVIOUS
<1>6. a \in Seq(S) /\ Len(a) = n - 1 /\ \A i \in 1 .. n - 1 : a[i] = s[i]
    BY <1>2, <1>5
<1>7. b \in Seq(S) /\ Len(b) = Len(s) - n /\ \A i \in 1 .. Len(s) - n : b[i] = s[n + i]
    BY <1>3, <1>5
<1>8. t \in Seq(S) /\ Len(t) = Len(s) - 1
    BY <1>4, <1>5, <1>6, <1>7
<1>9. ASSUME NEW i \in DOMAIN t PROVE t[i] = s[Before(i, n)] /\ Before(i, n) \in DOMAIN s /\ Before(i, n) # n
    <2>1. i \in 1 .. Len(s) - 1
        BY <1>8
    <2>2. CASE i < n
        <3>1. t[i] = a[i] /\ Before(i, n) = i
            BY <1>4, <1>5, <1>6, <1>7, <2>1, <2>2 DEF Before
        <3> QED BY <1>5, <1>6, <2>1, <2>2, <3>1
    <2>3. CASE ~(i < n)
        <3>1. i - (n - 1) \in 1 .. Len(s) - n /\ n + (i - (n - 1)) = i + 1
            BY <1>5, <2>1, <2>3
        <3>2. t[i] = b[i - (n - 1)] /\ Before(i, n) = i + 1
            BY <1>4, <1>5, <1>6, <1>7, <2>1, <2>3 DEF Before
        <3>3. b[i - (n - 1)] = s[i + 1]
            BY <1>7, <3>1
        <3> QED BY <1>5, <2>1, <2>3, <3>2, <3>3
    <2> QED BY <2>2, <2>3
<1>10. ASSUME NEW i \in DOMAIN t, NEW j \in DOMAIN t, i # j PROVE Before(i, n) # Before(j, n)
    <2>1. i \in Nat /\ j \in Nat
        BY <1>8
    <2> QED BY <1>5, <1>10, <2>1 DEF Before
<1> QED BY <1>1, <1>8, <1>9, <1>10, Zenon

\* The elements behind the first one.
LEMMA TailHas ==
    ASSUME NEW S, NEW s \in Seq(S), NEW g \in DOMAIN s, s[g] # Head(s)
    PROVE  \E h \in DOMAIN Tail(s) : Tail(s)[h] = s[g]
<1>1. g # 1 /\ g \in Nat /\ g >= 1 /\ g <= Len(s)
    OBVIOUS
<1>2. g - 1 \in DOMAIN Tail(s) /\ Tail(s)[g - 1] = s[g]
    BY <1>1
<1> QED BY <1>2

\* An imported key is removed from the temporary store.
LEMMA RemoveStep == IInv /\ RemoveImported => IInv'
<1> SUFFICES ASSUME IInv, RemoveImported PROVE IInv'
    OBVIOUS
<1>0. /\ TypeOK /\ Control /\ Linked /\ Owners /\ AttributesInStep /\ OwnedOnce
      /\ pc = "clean" /\ grips # <<>> /\ op = "import"
      /\ UNCHANGED <<at, ik, fmt, file, op, in, to, cb, errors, loaded, img, result, counts, inp, had, torn, shared>>
    BY Zenon DEF IInv, RemoveImported, still, Control
<1>1. PICK h : h = Head(grips)
    OBVIOUS
<1>2. PICK ring \in RingType : ring = Tmp
    BY <1>0 DEF TypeOK, AllRings, Tmp
<1>3. PICK n : n = rnp_key_store_get_key_by_grip(ring, h)
    OBVIOUS
<1>4. /\ n = 0 => \A m \in DOMAIN ring.keys : ring.keys[m].name # h
      /\ n # 0 => n \in DOMAIN ring.keys /\ ring.keys[n].name = h
    BY <1>3, GripFacts, Zenon
<1>5. \/ /\ rings' = IF n = 0 THEN rings ELSE [rings EXCEPT !["tmp"] = rnp_key_store_remove_key(@, n)]
         /\ grips' = Tail(grips) /\ UNCHANGED pc
      \/ /\ n # 0 /\ Len(Tmp.keys) = Tmp.vsize /\ Undefined /\ UNCHANGED <<rings, grips>>
    BY <1>1, <1>2, <1>3, Zenon DEF RemoveImported
<1>6. CASE n # 0 /\ Len(Tmp.keys) = Tmp.vsize /\ Undefined /\ UNCHANGED <<rings, grips>>
    <2>1. ring.keys \in Seq(Keys) /\ ring.vsize \in Nat
        BY DEF RingType
    <2>2. OutOfRoom(ring)
        BY <1>2, <1>4, <1>6, <2>1 DEF OutOfRoom
    <2>3. "tmp" \in DOMAIN rings
        BY <1>0 DEF TypeOK, AllRings
    <2>4. Cause
        BY <1>2, <2>2, <2>3, Zenon DEF Cause, Tmp
    <2> QED BY <1>0, <1>6, <2>4, Fails DEF others
<1>7. ASSUME /\ grips' = Tail(grips) /\ UNCHANGED pc
             /\ rings' = IF n = 0 THEN rings ELSE [rings EXCEPT !["tmp"] = rnp_key_store_remove_key(@, n)]
      PROVE  IInv'
    <2>1. PICK g : g = IF n = 0 THEN ring ELSE rnp_key_store_remove_key(ring, n)
        OBVIOUS
    <2>2. PICK s \in Seq(Keys) : s = ring.keys
        BY DEF RingType
    <2>3. /\ g \in RingType /\ Len(g.keys) <= Len(s) /\ g.vsize = ring.vsize
          /\ \A i \in DOMAIN g.keys : \E j \in DOMAIN s : g.keys[i] = s[j] /\ j # n
          /\ \A i, j \in DOMAIN g.keys : i # j =>
                \E k, l \in DOMAIN s : k # l /\ g.keys[i] = s[k] /\ g.keys[j] = s[l]
        <3>1. CASE n = 0
            <4>1. g = ring /\ \A j \in DOMAIN s : j # n
                BY <2>1, <2>2, <3>1
            <4>2. Len(g.keys) <= Len(s)
                BY <2>2, <4>1
            <4> QED BY <2>2, <4>1, <4>2, Zenon
        <3>2. CASE n # 0
            <4>1. n \in DOMAIN s
                BY <1>4, <2>2, <3>2
            <4>2. PICK t : t = RemoveAt(s, n)
                OBVIOUS
            <4>3. /\ t \in Seq(Keys) /\ Len(t) = Len(s) - 1
                  /\ \A i \in DOMAIN t : t[i] = s[Before(i, n)] /\ Before(i, n) \in DOMAIN s /\ Before(i, n) # n
                  /\ \A i, j \in DOMAIN t : i # j => Before(i, n) # Before(j, n)
                <5>1. /\ RemoveAt(s, n) \in Seq(Keys) /\ Len(RemoveAt(s, n)) = Len(s) - 1
                      /\ \A i \in DOMAIN RemoveAt(s, n) :
                           /\ RemoveAt(s, n)[i] = s[Before(i, n)] /\ Before(i, n) \in DOMAIN s /\ Before(i, n) # n
                      /\ \A i, j \in DOMAIN RemoveAt(s, n) : i # j => Before(i, n) # Before(j, n)
                    BY <4>1, RemoveFacts
                <5> QED BY <4>2, <5>1, Zenon
            <4>4. g = [ring EXCEPT !.keys = t]
                BY <2>1, <2>2, <3>2, <4>2, Zenon DEF rnp_key_store_remove_key
            <4>5. g \in RingType /\ g.keys = t /\ g.vsize = ring.vsize
                <5>1. t \in Seq(Keys)
                    BY <4>3, Zenon
                <5> QED BY <4>4, <5>1 DEF RingType
            <4>6. Len(g.keys) <= Len(s)
                <5>1. t \in Seq(Keys) /\ Len(t) = Len(s) - 1
                    BY <4>3, Zenon
                <5> QED BY <4>5, <5>1
            <4>7. \A i \in DOMAIN g.keys : \E j \in DOMAIN s : g.keys[i] = s[j] /\ j # n
                BY <4>3, <4>5, Zenon
            <4>8. \A i, j \in DOMAIN g.keys : i # j =>
                     \E k, l \in DOMAIN s : k # l /\ g.keys[i] = s[k] /\ g.keys[j] = s[l]
                BY <4>3, <4>5, Zenon
            <4> QED BY <4>5, <4>6, <4>7, <4>8, Zenon
        <3> QED BY <3>1, <3>2
    <2>4. rings' = [rings EXCEPT !["tmp"] = g]
        <3>1. CASE n = 0
            BY <1>0, <1>2, <1>7, <2>1, <3>1 DEF TypeOK, Tmp
        <3>2. CASE n # 0
            BY <1>2, <1>7, <2>1, <3>2, Zenon DEF Tmp
        <3> QED BY <3>1, <3>2
    <2>5. Good(g)
        <3>1. Good(ring)
            BY <1>0, <1>2, Zenon DEF Good, TypeOK, AttributesInStep, Linked, Tmp, AllRings
        <3>2. Len(g.keys) <= g.vsize
            <4>1. Len(s) <= ring.vsize /\ ring.vsize \in Nat /\ g.keys \in Seq(Keys)
                BY <2>2, <2>3, <3>1 DEF Good, RingType
            <4>2. Len(g.keys) <= Len(s) /\ g.vsize = ring.vsize
                BY <2>3, Zenon
            <4> QED BY <4>1, <4>2
        <3>3. Bare(g)
            <4>1. ASSUME NEW i \in DOMAIN g.keys, IsSub(g.keys[i].name) PROVE g.keys[i].subs = <<>>
                <5>1. PICK j \in DOMAIN s : g.keys[i] = s[j]
                    BY <2>3, Zenon
                <5> QED BY <2>2, <3>1, <4>1, <5>1, Zenon DEF Good, Bare
            <4> QED BY <4>1, Zenon DEF Bare
        <3>4. \A i \in DOMAIN g.keys : InStep(g.keys[i])
            BY <2>2, <2>3, <3>1, Zenon DEF Good
        <3> QED BY <2>3, <3>2, <3>3, <3>4, Zenon DEF Good
    <2>6. "tmp" \in AllRings /\ \A r \in Rings : r \in AllRings /\ r # "tmp"
        BY DEF AllRings, Rings
    <2>7. /\ rings' \in [AllRings -> RingType] /\ rings'["tmp"] = g
          /\ \A q \in AllRings : q # "tmp" => rings'[q] = rings[q]
          /\ \A q \in AllRings : Len(rings'[q].keys) <= rings'[q].vsize
          /\ AttributesInStep'
          /\ \A q \in AllRings : Bare(rings'[q])
        BY <1>0, <2>4, <2>5, <2>6, ArrayStep
    <2>8. /\ \A r \in Rings : rings'[r] = rings[r]
          /\ Tmp' = g
        BY <2>6, <2>7, Zenon DEF Tmp
    <2>9. TypeOK'
        <3>1. grips' \in Seq(Labels)
            BY <1>0, <1>7 DEF TypeOK
        <3> QED BY <1>0, <1>7, <2>7, <3>1, Zenon DEF TypeOK
    <2>10. Control'
        BY <1>0, <1>7, Zenon DEF Control
    <2>11. Loading' /\ Imported' /\ OwnedOnce' /\ StaleOnlyAfterMove'
        BY <1>0, <1>7 DEF Loading, Imported, OwnedOnce, StaleOnlyAfterMove
    <2>12. Linked'
        <3>1. RingsLinked' 
            BY <1>0, <1>7, <2>8 DEF Linked, RingsLinked
        <3>2. TmpLinked'
            BY <1>0, <1>7 DEF TmpLinked, Ahead
        <3> QED BY <2>7, <3>1, <3>2, Zenon DEF Linked
    <2>13. TmpOwns' /\ RingsOwn' /\ InputNames'
        <3>1. TmpOwns'
            BY <1>0, <1>2, <1>7, <2>2, <2>3, <2>8 DEF Owners, TmpOwns
        <3>2. RingsOwn' /\ InputNames'
            BY <1>0, <1>7 DEF RingsOwn, InputNames
        <3> QED BY <3>1, <3>2
    <2>14. TmpNames'
        <3>1. ASSUME ~Twice(inp), NEW t \in DOMAIN g.keys, NEW u \in DOMAIN g.keys, t # u
              PROVE  g.keys[t].name # g.keys[u].name
            <4>1. PICK k \in DOMAIN s, l \in DOMAIN s : k # l /\ g.keys[t] = s[k] /\ g.keys[u] = s[l]
                BY <2>3, <3>1, Zenon
            <4>2. s[k].name # s[l].name
                BY <1>0, <1>2, <2>2, <3>1, <4>1, Zenon DEF Owners, TmpNames
            <4> QED BY <4>1, <4>2, Zenon
        <3>2. inp' = inp
            BY <1>0
        <3> QED BY <2>8, <3>1, <3>2, Zenon DEF TmpNames
    <2>15. SharedRemoved'
        <3> SUFFICES ASSUME ~Twice(inp), NEW r \in Rings, NEW m \in DOMAIN rings[r].keys, NEW t \in DOMAIN g.keys,
                            g.keys[t].own = rings[r].keys[m].own
                     PROVE  \E d \in DOMAIN grips' : grips'[d] = g.keys[t].name
            <4>1. inp' = inp
                BY <1>0
            <4>2. \A r \in Rings : DOMAIN rings'[r].keys = DOMAIN rings[r].keys
                BY <2>8
            <4> QED BY <2>8, <4>1, <4>2 DEF SharedRemoved
        <3>1. PICK j \in DOMAIN s : g.keys[t] = s[j] /\ j # n
            BY <2>3, Zenon
        <3>2. PICK d \in DOMAIN grips : grips[d] = s[j].name
            <4>1. pc # "undefined"
                BY <1>0
            <4> QED BY <1>0, <1>2, <2>2, <3>1, <4>1, Zenon DEF Owners, SharedRemoved
        <3>3. s[j].name # h
            <4>1. CASE n = 0
                BY <1>4, <2>2, <4>1, Zenon
            <4>2. CASE n # 0
                BY <1>0, <1>2, <1>4, <2>2, <3>1, <4>2, Zenon DEF Owners, TmpNames
            <4> QED BY <4>1, <4>2
        <3>4. PICK gs \in Seq(Labels) : gs = grips
            BY <1>0 DEF TypeOK
        <3>5. \E e \in DOMAIN Tail(gs) : Tail(gs)[e] = gs[d]
            BY <1>1, <3>2, <3>3, <3>4, TailHas, Zenon
        <3> QED BY <1>7, <3>1, <3>2, <3>4, <3>5, Zenon
    <2> QED BY <2>7, <2>9, <2>10, <2>11, <2>12, <2>13, <2>14, <2>15, Zenon DEF IInv, Owners
<1> QED BY <1>5, <1>6, <1>7, Zenon

\* The temporary store is freed.
LEMMA FreeStep == IInv /\ rnp_key_store_free => IInv'
<1> SUFFICES ASSUME IInv, rnp_key_store_free PROVE IInv'
    OBVIOUS
<1> DEFINE dangling == \E r \in Rings : \E n \in DOMAIN rings[r].keys :
                          rings[r].keys[n].own \in {Tmp.keys[t].own : t \in DOMAIN Tmp.keys}
<1>0. /\ TypeOK /\ Control /\ Linked /\ Owners /\ AttributesInStep
      /\ pc = "clean" /\ grips = <<>> /\ op = "import"
      /\ op' = "load" /\ at' = <<0, 0>> /\ to' = "pub" /\ errors' = FALSE
      /\ UNCHANGED <<fmt, file, in, cb, loaded, img, result, counts, torn, ik, grips>>
    BY Zenon DEF IInv, rnp_key_store_free, Control
<1>1. /\ shared' \in BOOLEAN /\ (shared' <=> dangling)
      /\ \/ dangling /\ pc' = "undefined" /\ inp' = inp
         \/ ~dangling /\ pc' = "ready" /\ inp' = <<>>
    BY DEF rnp_key_store_free
<1>2. rings' = [r \in AllRings |->
                  IF r = "tmp" THEN [EmptyRing EXCEPT !.gen = rings[r].gen + 1]
                  ELSE [rings[r] EXCEPT !.keys = [n \in DOMAIN rings[r].keys |-> [rings[r].keys[n] EXCEPT !.own = 0]]]]
    <2>1. DOMAIN rings = AllRings
        BY <1>0 DEF TypeOK
    <2> QED BY <2>1, Zenon DEF rnp_key_store_free
<1>3. /\ rings'["tmp"] \in RingType /\ rings'["tmp"].keys = <<>> /\ Len(rings'["tmp"].keys) <= rings'["tmp"].vsize
    <2>1. PICK v \in Nat : v = rings["tmp"].gen + 1
        BY <1>0 DEF TypeOK, RingType, AllRings
    <2>2. rings'["tmp"] = [EmptyRing EXCEPT !.gen = v]
        BY <1>2, <2>1 DEF AllRings
    <2>3. rings'["tmp"] = [keys |-> <<>>, vsize |-> 0, gen |-> v, x509 |-> FALSE]
        BY <2>2 DEF EmptyRing
    <2>4. <<>> \in Seq(Keys) /\ Len(<<>>) = 0
        OBVIOUS
    <2> QED BY <2>3, <2>4 DEF RingType
<1>4. ASSUME NEW r \in Rings
      PROVE  /\ rings'[r] \in RingType /\ Len(rings'[r].keys) = Len(rings[r].keys)
             /\ DOMAIN rings'[r].keys = DOMAIN rings[r].keys
             /\ rings'[r].vsize = rings[r].vsize /\ rings'[r].gen = rings[r].gen
             /\ \A n \in DOMAIN rings[r].keys :
                   LET a == rings'[r].keys[n] b == rings[r].keys[n]
                   IN  /\ a.own = 0 /\ a.name = b.name /\ a.sec = b.sec /\ a.uids = b.uids
                       /\ a.sigs = b.sigs /\ a.pkts = b.pkts /\ a.subs = b.subs
    <2>1. PICK ring \in RingType : ring = rings[r]
        BY <1>0 DEF TypeOK, AllRings
    <2>2. PICK s \in Seq(Keys) : s = ring.keys
        BY DEF RingType
    <2>3. PICK t : t = [n \in DOMAIN s |-> [s[n] EXCEPT !.own = 0]]
        OBVIOUS
    <2>4. rings'[r] = [ring EXCEPT !.keys = t]
        <3>1. r \in AllRings /\ r # "tmp"
            BY DEF AllRings, Rings
        <3> QED BY <1>2, <2>1, <2>2, <2>3, <3>1, Zenon
    <2>5. ASSUME NEW n \in DOMAIN s
          PROVE  LET a == t[n] b == s[n]
                 IN  /\ a \in Keys /\ a.own = 0 /\ a.name = b.name /\ a.sec = b.sec /\ a.uids = b.uids
                     /\ a.sigs = b.sigs /\ a.pkts = b.pkts /\ a.subs = b.subs
        <3>1. PICK k \in Keys : k = s[n]
            OBVIOUS
        <3>2. t[n] = [k EXCEPT !.own = 0]
            BY <2>3, <3>1
        <3>3. PICK q : q = [k EXCEPT !.own = 0]
            OBVIOUS
        <3>4. /\ q \in Keys /\ q.own = 0 /\ q.name = k.name /\ q.sec = k.sec /\ q.uids = k.uids
              /\ q.sigs = k.sigs /\ q.pkts = k.pkts /\ q.subs = k.subs
            BY <3>3 DEF Keys
        <3> QED BY <3>1, <3>2, <3>3, <3>4, Zenon
    <2>6. t \in Seq(Keys) /\ Len(t) = Len(s) /\ DOMAIN t = DOMAIN s
        <3>1. DOMAIN s = 1 .. Len(s) /\ Len(s) \in Nat
            OBVIOUS
        <3>2. \A n \in DOMAIN s : t[n] \in Keys
            BY <2>5, Zenon
        <3>3. t \in [1 .. Len(s) -> Keys]
            BY <2>3, <3>1, <3>2
        <3> HIDE <2>3
        <3> QED BY <3>1, <3>3
    <2>7. PICK g : g = rings'[r]
        OBVIOUS
    <2>8. g \in RingType /\ g.keys = t /\ g.vsize = ring.vsize /\ g.gen = ring.gen
        BY <2>4, <2>6, <2>7 DEF RingType
    <2> QED BY <2>1, <2>2, <2>5, <2>6, <2>7, <2>8, Zenon
<1>5. AllRings = Rings \cup {"tmp"} /\ DOMAIN rings'["tmp"].keys = {}
    BY <1>3 DEF AllRings
<1>6. rings' \in [AllRings -> RingType]
    <2>1. \A r \in AllRings : rings'[r] \in RingType
        BY <1>3, <1>4, <1>5
    <2>2. rings' = [r \in AllRings |-> rings'[r]]
        BY <1>2
    <2> QED BY <2>1, <2>2, Zenon
<1>7. \A r \in AllRings : Len(rings'[r].keys) <= rings'[r].vsize
    <2>1. \A r \in Rings : Len(rings'[r].keys) <= rings'[r].vsize
        BY <1>0, <1>4, <1>5, Zenon DEF TypeOK
    <2> QED BY <1>3, <1>5, <2>1
<1>8. TypeOK'
    <2>1. inp' \in Blobs
        <3>1. inp \in Blobs /\ <<>> \in Blobs
            BY <1>0 DEF TypeOK, Blobs
        <3>2. inp' = inp \/ inp' = <<>>
            BY <1>1, Zenon
        <3> QED BY <3>1, <3>2
    <2>2. {in', img', inp'} \subseteq Blobs
        BY <1>0, <2>1 DEF TypeOK
    <2>3. to' \in AllRings /\ at' \in Nat \X Nat /\ pc' \in {"undefined", "ready"} /\ {errors', result', torn', shared'} \subseteq BOOLEAN
        BY <1>0, <1>1 DEF AllRings, Rings, TypeOK
    <2> QED BY <1>0, <1>6, <1>7, <2>2, <2>3 DEF TypeOK
<1>9. AttributesInStep'
    <2>1. ASSUME NEW r \in Rings, NEW n \in DOMAIN rings'[r].keys PROVE InStep(rings'[r].keys[n])
        <3>1. InStep(rings[r].keys[n])
            BY <1>0, <1>4, <1>5, Zenon DEF AttributesInStep
        <3> QED BY <1>4, <3>1, InStepFrame, ZenonT(60)
    <2>2. \A r \in AllRings : \A n \in DOMAIN rings'[r].keys : InStep(rings'[r].keys[n])
        BY <1>5, <2>1
    <2> QED BY <2>2, Zenon DEF AttributesInStep
<1>10. Control'
    BY <1>0, <1>1, <1>3 DEF Control
<1>11. Loading' /\ Imported'
    BY <1>0, <1>1 DEF Loading, Imported
<1>12. Linked'
    <2>1. \A r \in AllRings : Bare(rings'[r])
        <3>1. \A r \in Rings : Bare(rings'[r])
            <4>1. ASSUME NEW r \in Rings, NEW n \in DOMAIN rings'[r].keys, IsSub(rings'[r].keys[n].name)
                  PROVE  rings'[r].keys[n].subs = <<>>
                <5>1. n \in DOMAIN rings[r].keys /\ rings'[r].keys[n].name = rings[r].keys[n].name
                      /\ rings'[r].keys[n].subs = rings[r].keys[n].subs
                    BY <1>4, <4>1, Zenon
                <5> QED BY <1>0, <1>5, <4>1, <5>1 DEF Linked, Bare
            <4> QED BY <4>1, Zenon DEF Bare
        <3>2. Bare(rings'["tmp"])
            BY <1>5, Zenon DEF Bare
        <3> QED BY <1>5, <3>1, <3>2
    <2>2. RingsLinked'
        <3> SUFFICES ASSUME NEW r \in Rings, NEW n \in DOMAIN rings[r].keys, NEW m \in DOMAIN rings[r].keys[n].subs
                     PROVE  \/ Within(r, rings'[r], rings[r].keys[n].subs[m])
                            \/ rings[r].keys[n].subs[m] = Stack /\ rings[r].keys[n].name = Fresh[1]
            <4>1. \A r \in Rings : /\ DOMAIN rings'[r].keys = DOMAIN rings[r].keys
                                   /\ \A n \in DOMAIN rings[r].keys :
                                         /\ rings'[r].keys[n].name = rings[r].keys[n].name
                                         /\ rings'[r].keys[n].subs = rings[r].keys[n].subs
                BY <1>4, Zenon
            <4> QED BY <4>1 DEF RingsLinked
        <3>1. \/ Within(r, rings[r], rings[r].keys[n].subs[m])
              \/ rings[r].keys[n].subs[m] = Stack /\ rings[r].keys[n].name = Fresh[1]
            BY <1>0 DEF Linked, RingsLinked
        <3> QED BY <1>4, <3>1, Zenon DEF Within
    <2>3. TmpLinked'
        BY <1>5, Zenon DEF TmpLinked, Tmp
    <2> QED BY <2>1, <2>2, <2>3, Zenon DEF Linked
<1>13. Owners'
    <2>1. TmpOwns' /\ SharedRemoved' /\ TmpNames'
        BY <1>5, Zenon DEF TmpOwns, SharedRemoved, TmpNames, Tmp
    <2>2. RingsOwn'
        BY <1>4, Zenon DEF RingsOwn
    <2>3. InputNames'
        BY <1>0 DEF InputNames
    <2> QED BY <2>1, <2>2, <2>3, Zenon DEF Owners
<1>14. dangling => Twice(inp)
    <2> SUFFICES ASSUME ~Twice(inp), dangling PROVE FALSE
        BY Zenon
    <2>0. PICK r \in Rings : \E n \in DOMAIN rings[r].keys : \E t \in DOMAIN Tmp.keys :
             Tmp.keys[t].own = rings[r].keys[n].own
        BY Zenon
    <2>1. PICK n \in DOMAIN rings[r].keys, t \in DOMAIN Tmp.keys : Tmp.keys[t].own = rings[r].keys[n].own
        BY <2>0
    <2>2. \E g \in DOMAIN grips : grips[g] = Tmp.keys[t].name
        <3>1. pc # "undefined"
            BY <1>0
        <3> QED BY <1>0, <2>1, <3>1, Zenon DEF Owners, SharedRemoved
    <2> QED BY <1>0, <2>2
<1>15. OwnedOnce' /\ StaleOnlyAfterMove'
    <2> HIDE DEF dangling
    <2> QED BY <1>1, <1>14 DEF OwnedOnce, StaleOnlyAfterMove
<1> QED BY <1>8, <1>9, <1>10, <1>11, <1>12, <1>13, <1>15, Zenon DEF IInv

\* The array g has the keys of ring, with pointers that are the same or good.
Carries(r, ring, g) ==
    /\ Good(g) /\ Later(ring, g)
    /\ \A n \in DOMAIN ring.keys :
          /\ g.keys[n].own = ring.keys[n].own
          /\ \A m \in DOMAIN g.keys[n].subs :
                \/ Within(r, g, g.keys[n].subs[m])
                \/ m \in DOMAIN ring.keys[n].subs /\ g.keys[n].subs[m] = ring.keys[n].subs[m]

\* What the loader may change, and what it may not.
loader == <<op, to, fmt, file, loaded, at, result, counts, ik, grips, img, inp, had, torn, shared>>

\* A packet is read: a key is added or its attributes change.
LEMMA LoadFrame ==
    ASSUME IInv, pc = "load", pc' = "load", UNCHANGED loader,
           NEW g, rings' = [rings EXCEPT ![to] = g], Carries(to, rings[to], g),
           in' \in Blobs, Names(in') \subseteq Names(in), ~Twice(in) => ~Twice(in'),
           cb' \in [key : BOOLEAN, last : Pointers], errors' \in BOOLEAN,
           \A n \in DOMAIN g.keys : n \notin DOMAIN rings[to].keys =>
              /\ g.keys[n].subs = <<>> /\ g.keys[n].own = (IF to = "tmp" THEN n ELSE 0)
              /\ g.keys[n].name \in Names(in) /\ (~Twice(in) => g.keys[n].name \notin Names(in'))
              /\ \A m \in DOMAIN g.keys : m \notin DOMAIN rings[to].keys => m = n
    PROVE  /\ TypeOK' /\ AttributesInStep' /\ Control' /\ Imported' /\ Linked' /\ Owners'
           /\ OwnedOnce' /\ StaleOnlyAfterMove'
<1>0. /\ TypeOK /\ AttributesInStep /\ Control /\ Linked /\ Owners /\ OwnedOnce
      /\ UNCHANGED <<op, to, fmt, file, loaded, at, result, counts, ik, grips, img, inp, had, torn, shared>>
    BY Zenon DEF IInv, loader
<1>1. PICK r \in AllRings : r = to
    BY <1>0 DEF TypeOK
<1>2. PICK ring \in RingType : ring = rings[r]
    BY <1>0 DEF TypeOK
<1>3. Carries(r, ring, g) /\ Good(g) /\ g \in RingType /\ Later(ring, g) /\ rings' = [rings EXCEPT ![r] = g]
    BY <1>1, <1>2, Zenon DEF Carries, Good
<1>4. /\ rings' \in [AllRings -> RingType] /\ rings'[r] = g
      /\ \A q \in AllRings : q # r => rings'[q] = rings[q]
      /\ \A q \in AllRings : Len(rings'[q].keys) <= rings'[q].vsize
      /\ AttributesInStep'
      /\ \A q \in AllRings : Bare(rings'[q])
    BY <1>0, <1>1, <1>3, ArrayStep
<1>5. \A n \in DOMAIN g.keys : n \notin DOMAIN ring.keys =>
         /\ g.keys[n].subs = <<>> /\ g.keys[n].own = (IF r = "tmp" THEN n ELSE 0)
         /\ g.keys[n].name \in Names(in) /\ (~Twice(in) => g.keys[n].name \notin Names(in'))
         /\ \A m \in DOMAIN g.keys : m \notin DOMAIN ring.keys => m = n
    BY <1>1, <1>2, Zenon
<1>6. /\ "tmp" \in AllRings /\ \A q \in Rings : q \in AllRings /\ q # "tmp"
      /\ r = "tmp" <=> op = "import"
      /\ r # "tmp" => r \in Rings /\ Tmp.keys = <<>> /\ Tmp' = Tmp
      /\ pc # "undefined" /\ pc # "sub"
    BY <1>0, <1>1, <1>4 DEF AllRings, Rings, Control, Tmp
<1>7. \A n \in DOMAIN ring.keys : /\ n \in DOMAIN g.keys /\ g.keys[n].name = ring.keys[n].name
                                  /\ g.keys[n].own = ring.keys[n].own
    BY <1>3, Zenon DEF Carries, Later
<1>8. TypeOK'
    <2>1. {in', img', inp'} \subseteq Blobs
        BY <1>0 DEF TypeOK
    <2> QED BY <1>0, <1>4, <2>1 DEF TypeOK
<1>9. Control'
    BY <1>0, <1>4, <1>6 DEF Control, Tmp
<1>10. Imported' /\ OwnedOnce' /\ StaleOnlyAfterMove'
    BY <1>0 DEF Imported, OwnedOnce, StaleOnlyAfterMove
<1>11. ASSUME NEW n \in DOMAIN ring.keys, NEW m \in DOMAIN g.keys[n].subs, ~Within(r, g, g.keys[n].subs[m])
       PROVE  /\ m \in DOMAIN ring.keys[n].subs /\ g.keys[n].subs[m] = ring.keys[n].subs[m]
              /\ ~Within(r, ring, ring.keys[n].subs[m])
    <2>1. m \in DOMAIN ring.keys[n].subs /\ g.keys[n].subs[m] = ring.keys[n].subs[m]
        BY <1>3, <1>11, Zenon DEF Carries
    <2>2. PICK p : p = ring.keys[n].subs[m]
        OBVIOUS
    <2>3. Within(r, ring, p) => Within(r, g, p)
        BY <1>3, WithinLater
    <2> QED BY <1>11, <2>1, <2>2, <2>3, Zenon
<1>12. RingsLinked'
    <2> SUFFICES ASSUME NEW q \in Rings, NEW n \in DOMAIN rings'[q].keys, NEW m \in DOMAIN rings'[q].keys[n].subs
                 PROVE  \/ Within(q, rings'[q], rings'[q].keys[n].subs[m])
                        \/ rings'[q].keys[n].subs[m] = Stack /\ rings'[q].keys[n].name = Fresh[1]
        BY Zenon DEF RingsLinked
    <2>1. CASE q # r
        <3>1. rings'[q] = rings[q]
            BY <1>4, <1>6, <2>1
        <3> QED BY <1>0, <1>6, <3>1 DEF Linked, RingsLinked
    <2>2. CASE q = r /\ n \notin DOMAIN ring.keys
        <3>1. g.keys[n].subs = <<>>
            BY <1>4, <1>5, <2>2
        <3> QED BY <1>4, <2>2, <3>1
    <2>3. CASE q = r /\ n \in DOMAIN ring.keys
        <3>0. rings'[q] = g
            BY <1>4, <2>3
        <3>1. SUFFICES ASSUME ~Within(r, g, g.keys[n].subs[m])
                       PROVE  g.keys[n].subs[m] = Stack /\ g.keys[n].name = Fresh[1]
            BY <2>3, <3>0, Zenon
        <3>2. m \in DOMAIN g.keys[n].subs
            BY <3>0, Zenon
        <3>3. /\ m \in DOMAIN ring.keys[n].subs /\ g.keys[n].subs[m] = ring.keys[n].subs[m]
              /\ ~Within(r, ring, ring.keys[n].subs[m])
            BY <1>11, <2>3, <3>1, <3>2, Zenon
        <3>4. ring.keys[n].subs[m] = Stack /\ ring.keys[n].name = Fresh[1]
            BY <1>0, <1>2, <1>6, <2>3, <3>3, Zenon DEF Linked, RingsLinked
        <3> QED BY <1>7, <2>3, <3>3, <3>4, Zenon
    <2> QED BY <2>1, <2>2, <2>3
<1>13. TmpLinked'
    <2>1. CASE r # "tmp"
        BY <1>6, <2>1 DEF TmpLinked
    <2>2. CASE r = "tmp"
        <3>1. Tmp' = g /\ Tmp = ring
            BY <1>2, <1>4, <2>2 DEF Tmp
        <3>2. ASSUME NEW n \in DOMAIN g.keys, NEW m \in DOMAIN g.keys[n].subs PROVE Within(r, g, g.keys[n].subs[m])
            <4>1. CASE n \notin DOMAIN ring.keys
                <5>1. g.keys[n].subs = <<>>
                    BY <1>5, <4>1, Zenon
                <5> QED BY <5>1
            <4>2. CASE n \in DOMAIN ring.keys
                <5>1. \A l \in DOMAIN ring.keys[n].subs : Within("tmp", ring, ring.keys[n].subs[l])
                    BY <1>0, <3>1, <4>2, Zenon DEF Linked, TmpLinked, Ahead
                <5> QED BY <1>11, <2>2, <4>2, <5>1, Zenon
            <4> QED BY <4>1, <4>2
        <3> QED BY <2>2, <3>1, <3>2, Zenon DEF TmpLinked
    <2> QED BY <2>1, <2>2
<1>14. TmpOwns'
    <2>1. CASE r # "tmp"
        BY <1>6, <2>1 DEF TmpOwns
    <2>2. CASE r = "tmp"
        <3>1. Tmp' = g /\ Tmp = ring
            BY <1>2, <1>4, <2>2 DEF Tmp
        <3>2. ASSUME NEW n \in DOMAIN g.keys PROVE g.keys[n].own # 0 /\ g.keys[n].own = n
            <4>1. CASE n \notin DOMAIN ring.keys
                <5>1. g.keys[n].own = n
                    BY <1>5, <2>2, <4>1, Zenon
                <5>2. g.keys \in Seq(Keys)
                    BY <1>3 DEF RingType
                <5> QED BY <5>1, <5>2
            <4>2. CASE n \in DOMAIN ring.keys
                BY <1>0, <1>7, <3>1, <4>2 DEF Owners, TmpOwns
            <4> QED BY <4>1, <4>2
        <3> QED BY <3>1, <3>2, Zenon DEF TmpOwns
    <2> QED BY <2>1, <2>2
<1>15. \A q \in Rings : \A n \in DOMAIN rings'[q].keys : rings'[q].keys[n].own = 0
    <2> SUFFICES ASSUME NEW q \in Rings, NEW n \in DOMAIN rings'[q].keys PROVE rings'[q].keys[n].own = 0
        BY Zenon
    <2>1. \A k \in DOMAIN rings[q].keys : rings[q].keys[k].own = 0
        BY <1>0, Zenon DEF Owners, RingsOwn
    <2>2. CASE q # r
        BY <1>4, <1>6, <2>1, <2>2
    <2>3. CASE q = r
        <3>1. CASE n \notin DOMAIN ring.keys
            BY <1>4, <1>5, <1>6, <2>3, <3>1
        <3>2. CASE n \in DOMAIN ring.keys
            BY <1>2, <1>4, <1>7, <2>1, <2>3, <3>2
        <3> QED BY <3>1, <3>2
    <2> QED BY <2>2, <2>3
<1>16. RingsOwn' /\ SharedRemoved'
    <2>1. RingsOwn'
        BY <1>15, Zenon DEF RingsOwn
    <2>2. \A t \in DOMAIN Tmp'.keys : Tmp'.keys[t].own # 0
        BY <1>14, Zenon DEF TmpOwns
    <2> QED BY <1>15, <2>1, <2>2 DEF SharedRemoved
<1>17. TmpNames' /\ InputNames'
    <2>1. CASE r # "tmp"
        BY <1>0, <1>6, <2>1 DEF TmpNames, InputNames
    <2>2. CASE r = "tmp"
        <3>1. Tmp' = g /\ Tmp = ring /\ inp' = inp /\ op = "import"
            BY <1>0, <1>2, <1>4, <1>6, <2>2 DEF Tmp
        <3>2. ASSUME ~Twice(inp)
              PROVE  /\ ~Twice(in) /\ \A t \in DOMAIN ring.keys : ring.keys[t].name \notin Names(in)
                     /\ \A t, u \in DOMAIN ring.keys : t # u => ring.keys[t].name # ring.keys[u].name
            BY <1>0, <3>1, <3>2, Zenon DEF Owners, TmpNames, InputNames
        <3>3. ASSUME ~Twice(inp), NEW t \in DOMAIN g.keys, NEW u \in DOMAIN g.keys, t # u
              PROVE  g.keys[t].name # g.keys[u].name
            <4>1. CASE t \in DOMAIN ring.keys /\ u \in DOMAIN ring.keys
                <5>1. g.keys[t].name = ring.keys[t].name /\ g.keys[u].name = ring.keys[u].name
                    BY <1>7, <4>1, Zenon
                <5>2. ring.keys[t].name # ring.keys[u].name
                    BY <3>2, <3>3, <4>1, Zenon
                <5> QED BY <5>1, <5>2
            <4>2. CASE t \in DOMAIN ring.keys /\ u \notin DOMAIN ring.keys
                <5>1. g.keys[t].name = ring.keys[t].name /\ ring.keys[t].name \notin Names(in)
                    BY <1>7, <3>2, <3>3, <4>2, Zenon
                <5>2. g.keys[u].name \in Names(in)
                    BY <1>5, <4>2, Zenon
                <5> QED BY <5>1, <5>2
            <4>3. CASE t \notin DOMAIN ring.keys /\ u \in DOMAIN ring.keys
                <5>1. g.keys[u].name = ring.keys[u].name /\ ring.keys[u].name \notin Names(in)
                    BY <1>7, <3>2, <3>3, <4>3, Zenon
                <5>2. g.keys[t].name \in Names(in)
                    BY <1>5, <4>3, Zenon
                <5> QED BY <5>1, <5>2
            <4>4. CASE t \notin DOMAIN ring.keys /\ u \notin DOMAIN ring.keys
                BY <1>5, <3>3, <4>4, Zenon
            <4> QED BY <4>1, <4>2, <4>3, <4>4
        <3>4. ASSUME ~Twice(inp), NEW t \in DOMAIN g.keys PROVE g.keys[t].name \notin Names(in')
            <4>1. CASE t \in DOMAIN ring.keys
                BY <1>7, <3>2, <3>4, <4>1
            <4>2. CASE t \notin DOMAIN ring.keys
                BY <1>5, <3>2, <3>4, <4>2, Zenon
            <4> QED BY <4>1, <4>2
        <3>5. TmpNames'
            BY <3>1, <3>3, Zenon DEF TmpNames
        <3>6. InputNames'
            BY <3>1, <3>2, <3>4, Zenon DEF InputNames
        <3> QED BY <3>5, <3>6
    <2> QED BY <2>1, <2>2
<1>18. Linked' /\ Owners'
    BY <1>4, <1>12, <1>13, <1>14, <1>16, <1>17, Zenon DEF Linked, Owners
<1> QED BY <1>4, <1>8, <1>9, <1>10, <1>18, Zenon

\* What is left of a file: of every blob a later part.
Shrinks(blobs, q) ==
    /\ DOMAIN q = DOMAIN blobs
    /\ \A b \in DOMAIN q : \E d \in Nat : \A n \in DOMAIN q[b] :
          n \in Nat /\ n + d \in DOMAIN blobs[b] /\ q[b][n] = blobs[b][n + d]

\* It has no key that the file has not, and none more often.
LEMMA ShrinksFacts ==
    ASSUME NEW blobs, NEW q, Shrinks(blobs, q)
    PROVE  Names(q) \subseteq Names(blobs) /\ (~Twice(blobs) => ~Twice(q))
<1>1. ASSUME NEW name \in Names(q) PROVE name \in Names(blobs)
    <2>1. PICK b \in DOMAIN q : \E n \in DOMAIN q[b] : IsKey(q[b][n]) /\ q[b][n].name = name
        BY NamesFacts, Zenon
    <2>2. PICK n \in DOMAIN q[b] : IsKey(q[b][n]) /\ q[b][n].name = name
        BY <2>1
    <2>3. PICK m \in DOMAIN blobs[b] : q[b][n] = blobs[b][m]
        BY Zenon DEF Shrinks
    <2>4. IsKey(blobs[b][m]) /\ blobs[b][m].name = name /\ b \in DOMAIN blobs
        BY <2>2, <2>3, Zenon DEF Shrinks
    <2> QED BY <2>4, NamesFacts, Zenon
<1>2. ASSUME Twice(q) PROVE Twice(blobs)
    <2>1. PICK b \in DOMAIN q, c \in DOMAIN q : \E n \in DOMAIN q[b], m \in DOMAIN q[c] :
             /\ b # c \/ n # m
             /\ IsKey(q[b][n]) /\ IsKey(q[c][m]) /\ q[b][n].name = q[c][m].name
        BY <1>2, Zenon DEF Twice
    <2>2. PICK n \in DOMAIN q[b], m \in DOMAIN q[c] :
             /\ b # c \/ n # m
             /\ IsKey(q[b][n]) /\ IsKey(q[c][m]) /\ q[b][n].name = q[c][m].name
        BY <2>1, Zenon
    <2>3. PICK d \in Nat : \A k \in DOMAIN q[b] : k \in Nat /\ k + d \in DOMAIN blobs[b] /\ q[b][k] = blobs[b][k + d]
        BY Zenon DEF Shrinks
    <2>4. PICK e \in Nat : \A k \in DOMAIN q[c] : k \in Nat /\ k + e \in DOMAIN blobs[c] /\ q[c][k] = blobs[c][k + e]
        BY Zenon DEF Shrinks
    <2>5. CASE b # c
        <3>1. n + d \in DOMAIN blobs[b] /\ m + e \in DOMAIN blobs[c] /\ b \in DOMAIN blobs /\ c \in DOMAIN blobs
              /\ IsKey(blobs[b][n + d]) /\ IsKey(blobs[c][m + e]) /\ blobs[b][n + d].name = blobs[c][m + e].name
            BY <2>2, <2>3, <2>4, Zenon DEF Shrinks
        <3> QED BY <2>5, <3>1, Zenon DEF Twice
    <2>6. CASE b = c
        <3>1. n + d \in DOMAIN blobs[b] /\ m + d \in DOMAIN blobs[b] /\ b \in DOMAIN blobs
              /\ IsKey(blobs[b][n + d]) /\ IsKey(blobs[b][m + d]) /\ blobs[b][n + d].name = blobs[b][m + d].name
            BY <2>2, <2>3, <2>6, Zenon DEF Shrinks
        <3>2. n # m /\ n \in Nat /\ m \in Nat
            BY <2>2, <2>3, <2>6, Zenon
        <3>3. n + d # m + d
            BY <3>2
        <3> QED BY <3>1, <3>3, Zenon DEF Twice
    <2> QED BY <2>5, <2>6
<1> QED BY <1>1, <1>2

\* The first packet of a file is taken.
LEMMA NextPacket ==
    ASSUME NEW blobs \in Blobs, blobs # <<>>, blobs[1] # <<>>
    PROVE  LET q == [blobs EXCEPT ![1] = Tail(@)]
               p == Head(blobs[1])
           IN  /\ q \in Blobs /\ Shrinks(blobs, q) /\ p \in Packets
               /\ IsKey(p) => p.name \in Names(blobs) /\ (~Twice(blobs) => p.name \notin Names(q))
               /\ \A name \in Names(blobs) : name \in Names(q) \/ (IsKey(p) /\ name = p.name)
<1>1. PICK s \in Seq(Seq(Packets)) : s = blobs
    BY DEF Blobs
<1>2. PICK q : q = [s EXCEPT ![1] = Tail(s[1])]
    OBVIOUS
<1>3. 1 \in DOMAIN s /\ s[1] \in Seq(Packets) /\ s[1] # <<>>
    BY <1>1
<1>4. PICK f \in Seq(Packets) : f = s[1] /\ f # <<>>
    BY <1>3
<1>5. PICK p : p = Head(f)
    OBVIOUS
<1>6. p \in Packets /\ f[1] = p /\ 1 \in DOMAIN f /\ Tail(f) \in Seq(Packets)
    BY <1>4, <1>5
<1>7. \A n \in DOMAIN Tail(f) : n \in Nat /\ n >= 1 /\ n + 1 \in DOMAIN f /\ Tail(f)[n] = f[n + 1]
    BY <1>4
<1>8. ASSUME NEW n \in DOMAIN f, n # 1 PROVE n - 1 \in DOMAIN Tail(f) /\ Tail(f)[n - 1] = f[n]
    <2>1. n \in Nat /\ n >= 2 /\ n <= Len(f) /\ Len(Tail(f)) = Len(f) - 1
        BY <1>4, <1>8
    <2>2. n - 1 \in DOMAIN Tail(f)
        BY <1>4, <2>1
    <2> QED BY <1>4, <2>1, <2>2, SMTT(60)
<1>9. /\ q \in Seq(Seq(Packets)) /\ DOMAIN q = DOMAIN s /\ q[1] = Tail(f)
      /\ \A b \in DOMAIN s : b # 1 => q[b] = s[b]
    BY <1>2, <1>3, <1>4, <1>6
<1>10. Shrinks(s, q)
    <2>1. ASSUME NEW b \in DOMAIN q
          PROVE  \E d \in Nat : \A n \in DOMAIN q[b] : n \in Nat /\ n + d \in DOMAIN s[b] /\ q[b][n] = s[b][n + d]
        <3>1. CASE b = 1
            <4>1. \A n \in DOMAIN q[b] : n \in Nat /\ n + 1 \in DOMAIN s[b] /\ q[b][n] = s[b][n + 1]
                BY <1>4, <1>7, <1>9, <3>1
            <4>2. 1 \in Nat
                OBVIOUS
            <4> QED BY <4>1, <4>2, Zenon
        <3>2. CASE b # 1
            <4>1. q[b] = s[b] /\ q[b] \in Seq(Packets)
                BY <1>9, <3>2
            <4>2. \A n \in DOMAIN q[b] : n \in Nat /\ n + 0 \in DOMAIN s[b] /\ q[b][n] = s[b][n + 0]
                BY <4>1
            <4>3. 0 \in Nat
                OBVIOUS
            <4> QED BY <4>2, <4>3, Zenon
        <3> QED BY <3>1, <3>2
    <2> QED BY <1>9, <2>1, Zenon DEF Shrinks
<1>11. IsKey(p) => p.name \in Names(s)
    BY <1>3, <1>4, <1>6, NamesFacts, Zenon
<1>12. ASSUME IsKey(p), p.name \in Names(q) PROVE Twice(s)
    <2>1. PICK b \in DOMAIN q : \E n \in DOMAIN q[b] : IsKey(q[b][n]) /\ q[b][n].name = p.name
        BY <1>12, NamesFacts
    <2>2. PICK n \in DOMAIN q[b] : IsKey(q[b][n]) /\ q[b][n].name = p.name
        BY <2>1
    <2>3. s[1][1] = p /\ 1 \in DOMAIN s[1]
        BY <1>4, <1>6
    <2>4. CASE b = 1
        <3>1. n + 1 \in DOMAIN s[1] /\ n + 1 # 1 /\ q[b][n] = s[1][n + 1]
            <4>1. n \in DOMAIN Tail(f) /\ q[b][n] = Tail(f)[n]
                BY <1>9, <2>4, Zenon
            <4>2. n \in Nat /\ n >= 1 /\ n + 1 \in DOMAIN f /\ Tail(f)[n] = f[n + 1]
                BY <1>7, <4>1, Zenon
            <4>3. n + 1 # 1
                BY <4>2
            <4> QED BY <1>4, <4>1, <4>2, <4>3, Zenon
        <3>2. IsKey(s[1][n + 1]) /\ s[1][n + 1].name = s[1][1].name /\ IsKey(s[1][1])
            BY <1>12, <2>2, <2>3, <3>1, Zenon
        <3> QED BY <1>3, <2>3, <3>1, <3>2, Zenon DEF Twice
    <2>5. CASE b # 1
        <3>1. n \in DOMAIN s[b] /\ IsKey(s[b][n]) /\ s[b][n].name = s[1][1].name /\ IsKey(s[1][1]) /\ b \in DOMAIN s
            BY <1>9, <1>12, <2>2, <2>3, <2>5, Zenon
        <3> QED BY <1>3, <2>3, <2>5, <3>1, Zenon DEF Twice
    <2> QED BY <2>4, <2>5
<1>13. ASSUME NEW name \in Names(s) PROVE name \in Names(q) \/ (IsKey(p) /\ name = p.name)
    <2>1. PICK b \in DOMAIN s : \E n \in DOMAIN s[b] : IsKey(s[b][n]) /\ s[b][n].name = name
        BY NamesFacts
    <2>2. PICK n \in DOMAIN s[b] : IsKey(s[b][n]) /\ s[b][n].name = name
        BY <2>1
    <2>3. CASE b # 1
        <3>1. n \in DOMAIN q[b] /\ IsKey(q[b][n]) /\ q[b][n].name = name /\ b \in DOMAIN q
            BY <1>9, <2>2, <2>3, Zenon
        <3> QED BY <3>1, NamesFacts, Zenon
    <2>4. CASE b = 1 /\ n = 1
        BY <1>4, <1>6, <2>2, <2>4
    <2>5. CASE b = 1 /\ n # 1
        <3>1. n - 1 \in DOMAIN q[1] /\ q[1][n - 1] = s[b][n] /\ 1 \in DOMAIN q
            BY <1>3, <1>4, <1>8, <1>9, <2>2, <2>5
        <3>2. IsKey(q[1][n - 1]) /\ q[1][n - 1].name = name
            BY <2>2, <3>1, Zenon
        <3> QED BY <3>1, <3>2, NamesFacts, Zenon
    <2> QED BY <2>3, <2>4, <2>5
<1>14. q = [blobs EXCEPT ![1] = Tail(@)] /\ p = Head(blobs[1]) /\ q \in Blobs
    BY <1>1, <1>2, <1>4, <1>5, <1>9 DEF Blobs
<1> QED BY <1>1, <1>6, <1>10, <1>11, <1>12, <1>13, <1>14, Zenon

\* The parser gives up: the rest of the blob is dropped.
LEMMA DropBlob ==
    ASSUME NEW blobs \in Blobs, blobs # <<>>
    PROVE  [blobs EXCEPT ![1] = <<>>] \in Blobs /\ Shrinks(blobs, [blobs EXCEPT ![1] = <<>>])
<1>1. PICK s \in Seq(Seq(Packets)) : s = blobs
    BY DEF Blobs
<1>2. PICK q : q = [s EXCEPT ![1] = <<>>]
    OBVIOUS
<1>3. 1 \in DOMAIN s /\ <<>> \in Seq(Packets) /\ DOMAIN <<>> = {}
    BY <1>1
<1>4. /\ q \in Seq(Seq(Packets)) /\ DOMAIN q = DOMAIN s /\ q[1] = <<>>
      /\ \A b \in DOMAIN s : b # 1 => q[b] = s[b]
    BY <1>2, <1>3
<1>5. ASSUME NEW b \in DOMAIN q
      PROVE  \E d \in Nat : \A n \in DOMAIN q[b] : n \in Nat /\ n + d \in DOMAIN s[b] /\ q[b][n] = s[b][n + d]
    <2>1. q[b] \in Seq(Packets) /\ (b = 1 \/ q[b] = s[b])
        BY <1>4
    <2>2. \A n \in DOMAIN q[b] : n \in Nat /\ n + 0 \in DOMAIN s[b] /\ q[b][n] = s[b][n + 0]
        <3>1. CASE b = 1
            BY <1>3, <1>4, <3>1, Zenon
        <3>2. CASE b # 1
            <4>1. PICK u \in Seq(Packets) : u = q[b] /\ u = s[b]
                BY <2>1, <3>2
            <4>2. \A n \in DOMAIN u : n \in Nat /\ n + 0 = n
                OBVIOUS
            <4> QED BY <4>1, <4>2, Zenon
        <3> QED BY <3>1, <3>2
    <2>3. 0 \in Nat
        OBVIOUS
    <2> QED BY <2>2, <2>3, Zenon
<1>6. Shrinks(s, q)
    BY <1>4, <1>5, Zenon DEF Shrinks
<1>7. q \in Blobs
    BY <1>4 DEF Blobs
<1>8. q = [blobs EXCEPT ![1] = <<>>]
    BY <1>1, <1>2, Zenon
<1> QED BY <1>1, <1>6, <1>7, <1>8, Zenon

-----------------------------------------------------------------------------
(* The steps that add keys. *)

\* Arrays that were changed are good.
LEMMA GrownGood ==
    ASSUME NEW ring, Good(ring), NEW key \in Keys, InStep(key), IsSub(key.name) => key.subs = <<>>,
           NEW g, Grown(ring, g, key)
    PROVE  Good(g) /\ Later(ring, g)
<1>1. ring \in RingType /\ ring.keys \in Seq(Keys)
    BY DEF Good, RingType
<1>2. /\ g \in RingType /\ Len(g.keys) <= g.vsize
      /\ \A n \in 1 .. Len(ring.keys) : g.keys[n] = ring.keys[n]
      /\ g.keys[Len(ring.keys) + 1] = key /\ DOMAIN g.keys = 1 .. Len(ring.keys) + 1
      /\ ring.vsize <= g.vsize
      /\ g.gen = ring.gen \/ g.vsize > Grow
    BY Zenon DEF Grown
<1>3. \A n \in DOMAIN g.keys : (n \in DOMAIN ring.keys /\ g.keys[n] = ring.keys[n]) \/ g.keys[n] = key
    BY <1>1, <1>2
<1>4. \A n \in DOMAIN ring.keys : n \in DOMAIN g.keys /\ g.keys[n] = ring.keys[n]
    BY <1>1, <1>2
<1>5. Bare(g)
    <2>1. ASSUME NEW n \in DOMAIN g.keys, IsSub(g.keys[n].name) PROVE g.keys[n].subs = <<>>
        BY <1>3, <2>1, Zenon DEF Good, Bare
    <2> QED BY <2>1, Zenon DEF Bare
<1>6. \A n \in DOMAIN g.keys : InStep(g.keys[n])
    BY <1>3, Zenon DEF Good
<1>7. Later(ring, g)
    BY <1>2, <1>4, Zenon DEF Later
<1> QED BY <1>2, <1>5, <1>6, <1>7, Zenon DEF Good

\* An array stays good if a key is replaced by a good one of the same name.
LEMMA PutGood ==
    ASSUME NEW ring, Good(ring), NEW n \in DOMAIN ring.keys, NEW key \in Keys, InStep(key),
           IsSub(key.name) => key.subs = <<>>, key.name = ring.keys[n].name, NEW g, Put(ring, g, n, key)
    PROVE  Good(g) /\ Later(ring, g)
<1>1. ring \in RingType
    BY DEF Good
<1>2. /\ g \in RingType /\ Len(g.keys) <= g.vsize /\ g.keys[n] = key
      /\ \A m \in DOMAIN g.keys : m # n => m \in DOMAIN ring.keys /\ g.keys[m] = ring.keys[m]
    BY Zenon DEF Put, Good
<1>3. Bare(g)
    <2>1. ASSUME NEW m \in DOMAIN g.keys, IsSub(g.keys[m].name) PROVE g.keys[m].subs = <<>>
        <3>1. CASE m = n
            BY <1>2, <2>1, <3>1
        <3>2. CASE m # n
            BY <1>2, <2>1, <3>2, Zenon DEF Good, Bare
        <3> QED BY <3>1, <3>2
    <2> QED BY <2>1, Zenon DEF Bare
<1>4. \A m \in DOMAIN g.keys : InStep(g.keys[m])
    BY <1>2, Zenon DEF Good
<1>5. Later(ring, g)
    BY <1>1, PutLater
<1> QED BY <1>2, <1>3, <1>4, <1>5, Zenon DEF Good

\* The input of the loader: a packet is there.
LEMMA BlobFacts ==
    ASSUME TypeOK, Blob # <<>>
    PROVE  in \in Blobs /\ in # <<>> /\ in[1] # <<>> /\ Blob = in[1]
BY DEF TypeOK, Blob

\* The keys of g are the keys of ring with more packets.
Alike(ring, g) ==
    /\ Good(g) /\ Len(g.keys) = Len(ring.keys) /\ DOMAIN g.keys = DOMAIN ring.keys
    /\ g.vsize = ring.vsize /\ g.gen = ring.gen
    /\ \A n \in DOMAIN ring.keys :
          /\ g.keys[n].name = ring.keys[n].name /\ g.keys[n].own = ring.keys[n].own
          /\ g.keys[n].subs = ring.keys[n].subs /\ g.keys[n].sec = ring.keys[n].sec
          /\ ring.keys[n].pkts # <<>> => g.keys[n].pkts # <<>>

\* Such an array carries the pointers.
LEMMA AlikeCarries ==
    ASSUME NEW ring, Good(ring), NEW g, Alike(ring, g), NEW r
    PROVE  Carries(r, ring, g)
<1>1. ring.vsize <= g.vsize
    <2>1. ring.vsize \in Nat /\ g.vsize = ring.vsize
        BY DEF Good, RingType, Alike
    <2> QED BY <2>1
<1> QED BY <1>1, Zenon DEF Alike, Carries, Later

\* The key behind an attribute or another packet.
LEMMA AttributedFacts ==
    ASSUME NEW key \in Keys, InStep(key), key.pkts # <<>>, NEW p \in Packets, NEW k \in Attributed(key, p)
    PROVE  /\ k \in Keys /\ InStep(k) /\ k.pkts # <<>>
           /\ k.name = key.name /\ k.subs = key.subs /\ k.own = key.own /\ k.sec = key.sec
<1>1. \/ p.k \in {"uid", "sig"} /\ k = parse_key_attributes(key, p)
      \/ k = SignatureHeader(key)
      \/ k = key
    BY DEF Attributed
<1>2. CASE p.k \in {"uid", "sig"} /\ k = parse_key_attributes(key, p)
    BY <1>2, AttributeFacts, Zenon
<1>3. CASE k = SignatureHeader(key)
    BY <1>3, HeaderFacts, Zenon
<1>4. CASE k = key
    BY <1>4, Zenon
<1> QED BY <1>1, <1>2, <1>3, <1>4

\* The ring behind an attribute or another packet.
LEMMA OtherRing ==
    ASSUME IInv, OtherPacket
    PROVE  \E g : rings' = [rings EXCEPT ![to] = g] /\ Alike(rings[to], g)
<1>1. PICK p : p = Head(Blob)
    OBVIOUS
<1>2. /\ TypeOK /\ Loading /\ AttributesInStep /\ Linked
      /\ pc = "load" /\ Blob # <<>>
      /\ \/ p.k = "x509" /\ rings' = [rings EXCEPT ![to].x509 = TRUE]
         \/ /\ cb.key /\ Keeps
            /\ \E key \in Attributed(rings[to].keys[Len(rings[to].keys)], p) :
                  rings' = [rings EXCEPT ![to].keys[Len(rings[to].keys)] = key]
         \/ UNCHANGED rings
    BY <1>1, Zenon DEF IInv, OtherPacket
<1>3. in \in Blobs /\ in # <<>> /\ in[1] # <<>> /\ Blob = in[1]
    BY <1>2, BlobFacts
<1>4. PICK bl : bl = in
    OBVIOUS
<1>5. p \in Packets
    <2>1. Head(bl[1]) \in Packets
        BY <1>3, <1>4, NextPacket, Zenon
    <2> QED BY <1>1, <1>3, <1>4, <2>1
<1>7. PICK r \in AllRings : r = to
    BY <1>2 DEF TypeOK
<1>8. PICK ring \in RingType : ring = rings[r]
    BY <1>2 DEF TypeOK
<1>9. Good(ring) /\ ring.keys \in Seq(Keys)
    <2>1. ring.keys \in Seq(Keys)
        BY DEF RingType
    <2> QED BY <1>2, <1>8, <2>1, Zenon DEF Good, TypeOK, AttributesInStep, Linked
<1>10. \E g : rings' = [rings EXCEPT ![r] = g] /\ Alike(ring, g)
    <2>1. CASE rings' = [rings EXCEPT ![to].x509 = TRUE]
        <3>1. PICK g : g = [ring EXCEPT !.x509 = TRUE]
            OBVIOUS
        <3>2. rings' = [rings EXCEPT ![r] = g]
            <4>1. rings' = [rings EXCEPT ![r].x509 = TRUE]
                BY <1>7, <2>1
            <4> QED BY <1>8, <3>1, <4>1
        <3>3. g \in RingType /\ g.keys = ring.keys /\ g.vsize = ring.vsize /\ g.gen = ring.gen
            BY <3>1 DEF RingType
        <3>4. Alike(ring, g)
            BY <1>9, <3>3, Zenon DEF Alike, Good, Bare
        <3> QED BY <3>2, <3>4, Zenon
    <2>2. CASE /\ cb.key /\ Keeps
               /\ \E key \in Attributed(rings[to].keys[Len(rings[to].keys)], p) :
                     rings' = [rings EXCEPT ![to].keys[Len(rings[to].keys)] = key]
        <3>1. PICK n : n = Len(ring.keys)
            OBVIOUS
        <3>2. ring.keys # <<>> /\ ring.keys[n].pkts # <<>>
            BY <1>2, <1>7, <1>8, <2>2, <3>1, Zenon DEF Loading, Keeps
        <3>3. n \in DOMAIN ring.keys
            BY <1>9, <3>1, <3>2
        <3>4. PICK key \in Keys : key = ring.keys[n]
            BY <1>9, <3>3
        <3>5. InStep(key)
            BY <1>9, <3>3, <3>4, Zenon DEF Good
        <3>6. PICK k \in Attributed(key, p) : rings' = [rings EXCEPT ![r].keys[n] = k]
            BY <1>7, <1>8, <2>2, <3>1, <3>4
        <3>7. /\ k \in Keys /\ InStep(k) /\ k.pkts # <<>>
              /\ k.name = key.name /\ k.subs = key.subs /\ k.own = key.own /\ k.sec = key.sec
            BY <1>5, <3>2, <3>4, <3>5, <3>6, AttributedFacts, Zenon
        <3>8. PICK g : g = [ring EXCEPT !.keys[n] = k]
            OBVIOUS
        <3>9. Put(ring, g, n, k)
            BY <3>3, <3>7, <3>8, PutFacts, Zenon
        <3>10. rings' = [rings EXCEPT ![r] = g]
            BY <1>8, <3>6, <3>8
        <3>11. Good(g)
            <4>1. IsSub(k.name) => k.subs = <<>>
                BY <1>9, <3>3, <3>4, <3>7, Zenon DEF Good, Bare
            <4> QED BY <1>9, <3>3, <3>4, <3>7, <3>9, <4>1, PutGood, Zenon
        <3>12. \A m \in DOMAIN ring.keys :
                 /\ g.keys[m].name = ring.keys[m].name /\ g.keys[m].own = ring.keys[m].own
                 /\ g.keys[m].subs = ring.keys[m].subs /\ g.keys[m].sec = ring.keys[m].sec
                 /\ ring.keys[m].pkts # <<>> => g.keys[m].pkts # <<>>
            <4>1. ASSUME NEW m \in DOMAIN ring.keys PROVE m = n \/ g.keys[m] = ring.keys[m]
                BY <3>9, Zenon DEF Put
            <4>2. g.keys[n] = k
                BY <3>9, Zenon DEF Put
            <4> QED BY <3>4, <3>7, <4>1, <4>2
        <3>13. Alike(ring, g)
            BY <3>9, <3>11, <3>12, Zenon DEF Alike, Put
        <3> QED BY <3>10, <3>13, Zenon
    <2>3. CASE UNCHANGED rings
        <3>2. rings' = [rings EXCEPT ![r] = ring]
            BY <1>2, <1>8, <2>3 DEF TypeOK
        <3>3. Alike(ring, ring)
            BY <1>9, Zenon DEF Alike
        <3> QED BY <3>2, <3>3, Zenon
    <2> QED BY <1>2, <2>1, <2>2, <2>3, Zenon
<1> QED BY <1>7, <1>8, <1>10, Zenon

\* Attributes and other packets.
LEMMA OtherStep == IInv /\ OtherPacket => IInv'
<1> SUFFICES ASSUME IInv, OtherPacket PROVE IInv'
    OBVIOUS
<1>1. PICK p : p = Head(Blob)
    OBVIOUS
<1>2. /\ TypeOK /\ Loading /\ AttributesInStep /\ Linked /\ Control
      /\ pc = "load" /\ Blob # <<>> /\ ~IsKey(p) /\ pc' = "load" /\ UNCHANGED loader /\ cb' = cb
      /\ in' = [in EXCEPT ![1] = IF p.k = "stop" THEN <<>> ELSE Tail(@)]
      /\ \E silent \in BOOLEAN :
            errors' = (errors \/ p.k \in {"odd", "stop"} \/ (p.k = "half" /\ ~silent) \/ (p.k \in {"uid", "sig", "half"} /\ ~cb.key))
    BY <1>1, Zenon DEF IInv, OtherPacket, loader, quiet
<1>3. in \in Blobs /\ in # <<>> /\ in[1] # <<>> /\ Blob = in[1]
    BY <1>2, BlobFacts
<1>4. PICK bl : bl = in
    OBVIOUS
<1>5. p \in Packets /\ in' \in Blobs /\ Shrinks(bl, in')
    <2>1. /\ [bl EXCEPT ![1] = Tail(@)] \in Blobs /\ Shrinks(bl, [bl EXCEPT ![1] = Tail(@)]) /\ Head(bl[1]) \in Packets
        BY <1>3, <1>4, NextPacket, Zenon
    <2>2. [bl EXCEPT ![1] = <<>>] \in Blobs /\ Shrinks(bl, [bl EXCEPT ![1] = <<>>])
        BY <1>3, <1>4, DropBlob, Zenon
    <2>3. in' = [bl EXCEPT ![1] = Tail(@)] \/ in' = [bl EXCEPT ![1] = <<>>]
        BY <1>2, <1>4
    <2>4. p = Head(bl[1])
        BY <1>1, <1>3, <1>4
    <2> QED BY <2>1, <2>2, <2>3, <2>4, Zenon
<1>6. Names(in') \subseteq Names(in) /\ (~Twice(in) => ~Twice(in'))
    <2>1. PICK q : q = in'
        OBVIOUS
    <2>2. Names(q) \subseteq Names(bl) /\ (~Twice(bl) => ~Twice(q))
        BY <1>5, <2>1, ShrinksFacts, Zenon
    <2> QED BY <1>4, <2>1, <2>2, Zenon
<1>7. PICK r \in AllRings : r = to
    BY <1>2 DEF TypeOK
<1>8. PICK ring \in RingType : ring = rings[r]
    BY <1>2 DEF TypeOK
<1>9. Good(ring) /\ ring.keys \in Seq(Keys)
    <2>1. ring.keys \in Seq(Keys)
        BY DEF RingType
    <2> QED BY <1>2, <1>8, <2>1, Zenon DEF Good, TypeOK, AttributesInStep, Linked
<1>10. \E g : rings' = [rings EXCEPT ![r] = g] /\ Alike(ring, g)
    BY <1>7, <1>8, OtherRing
<1>11. PICK g : rings' = [rings EXCEPT ![r] = g] /\ Alike(ring, g)
    BY <1>10
<1>12. DOMAIN g.keys = DOMAIN ring.keys /\ Good(g) /\ g \in RingType
    BY <1>11, Zenon DEF Alike, Good
<1>13. Carries(r, ring, g)
    BY <1>9, <1>11, AlikeCarries, Zenon
<1>14. errors' \in BOOLEAN /\ (~errors' => ~errors)
    BY <1>2
<1>15. /\ TypeOK' /\ AttributesInStep' /\ Control' /\ Imported' /\ Linked' /\ Owners'
       /\ OwnedOnce' /\ StaleOnlyAfterMove'
    <2>1. rings' = [rings EXCEPT ![to] = g] /\ Carries(to, rings[to], g)
        BY <1>7, <1>8, <1>11, <1>13, Zenon
    <2>2. \A n \in DOMAIN g.keys : n \in DOMAIN rings[to].keys
        BY <1>7, <1>8, <1>12, Zenon
    <2>3. cb' \in [key : BOOLEAN, last : Pointers]
        BY <1>2 DEF TypeOK
    <2>4. \A n \in DOMAIN g.keys : n \notin DOMAIN rings[to].keys =>
              /\ g.keys[n].subs = <<>> /\ g.keys[n].own = (IF to = "tmp" THEN n ELSE 0)
              /\ g.keys[n].name \in Names(in) /\ (~Twice(in) => g.keys[n].name \notin Names(in'))
              /\ \A m \in DOMAIN g.keys : m \notin DOMAIN rings[to].keys => m = n
        BY <2>2, Zenon
    <2> QED BY <1>2, <1>5, <1>6, <1>14, <2>1, <2>3, <2>4, LoadFrame, Zenon
<1>16. Loading'
    <2>1. rings'[to'] = g /\ to' = r
        BY <1>2, <1>7, <1>11 DEF TypeOK, loader
    <2>2. cb.key => /\ ring.keys # <<>>
                    /\ ~errors => ring.keys[Len(ring.keys)].pkts # <<>>
        BY <1>2, <1>7, <1>8, Zenon DEF Loading
    <2>3. cb.last # NoPtr => /\ cb.last.ring = r /\ cb.last.gen = ring.gen
                             /\ cb.last.idx \in DOMAIN ring.keys /\ ~IsSub(ring.keys[cb.last.idx].name)
        BY <1>2, <1>7, <1>8, Zenon DEF Loading
    <2>4. cb.key => /\ g.keys # <<>>
                    /\ ~errors' => g.keys[Len(g.keys)].pkts # <<>>
        <3>1. ring.keys # <<>> => g.keys # <<>> /\ Len(ring.keys) \in DOMAIN ring.keys
            BY <1>9, <1>12
        <3>2. Len(g.keys) = Len(ring.keys)
            BY <1>11, Zenon DEF Alike
        <3> QED BY <1>11, <1>14, <2>2, <3>1, <3>2, Zenon DEF Alike
    <2>5. cb.last # NoPtr => /\ cb.last.ring = r /\ cb.last.gen = g.gen
                             /\ cb.last.idx \in DOMAIN g.keys /\ ~IsSub(g.keys[cb.last.idx].name)
        BY <1>11, <2>3, Zenon DEF Alike
    <2> QED BY <1>2, <2>1, <2>4, <2>5, Zenon DEF Loading
<1> QED BY <1>15, <1>16, Zenon DEF IInv

\* The key that a key packet adds.
LEMMA NewKeyFacts ==
    ASSUME TypeOK, NEW p \in Packets
    PROVE  /\ NewKey(p) \in Keys /\ InStep(NewKey(p)) /\ NewKey(p).name = p.name /\ NewKey(p).subs = <<>>
           /\ NewKey(p).own = (IF to = "tmp" THEN Len(rings[to].keys) + 1 ELSE 0)
           /\ ~errors => NewKey(p).pkts # <<>>
<1>1. PICK o : o = IF to = "tmp" THEN Len(rings[to].keys) + 1 ELSE 0
    OBVIOUS
<1>2. PICK s : s = IF errors THEN <<>> ELSE <<KeyPacket(p.name, p.sec)>>
    OBVIOUS
<1>3. p.name \in Labels /\ p.sec \in BOOLEAN
    BY DEF Packets
<1>4. KeyPacket(p.name, p.sec) \in Packets
    BY <1>3 DEF KeyPacket, Packets, Kinds
<1>5. s \in Seq(Packets) /\ (~errors => s # <<>>)
    BY <1>2, <1>4
<1>6. o \in Nat
    <2>1. rings[to].keys \in Seq(Keys)
        BY DEF TypeOK, RingType
    <2> QED BY <1>1, <2>1
<1>7. PICK k : k = [name |-> p.name, sec |-> p.sec, own |-> o, uids |-> 0, sigs |-> <<>>, pkts |-> s, subs |-> <<>>]
    OBVIOUS
<1>8. k = NewKey(p)
    BY <1>1, <1>2, <1>7, Zenon DEF NewKey
<1>9. <<>> \in Seq(Nat) /\ <<>> \in Seq(Pointers)
    OBVIOUS
<1>10. /\ k \in Keys /\ k.name = p.name /\ k.sec = p.sec /\ k.own = o /\ k.uids = 0 /\ k.sigs = <<>>
       /\ k.pkts = s /\ k.subs = <<>>
    BY <1>3, <1>5, <1>6, <1>7, <1>9 DEF Keys
<1>11. k.pkts = <<>> \/ k.pkts = <<KeyPacket(k.name, k.sec)>>
    BY <1>2, <1>10
<1>12. InStep(k)
    BY <1>10, <1>11, InStepStart, Zenon
<1> QED BY <1>1, <1>5, <1>8, <1>10, <1>12, Zenon

\* A key packet.
LEMMA KeyStep == IInv /\ cb_keyring_parse => IInv'
<1> SUFFICES ASSUME IInv, cb_keyring_parse PROVE IInv'
    OBVIOUS
<1>1. PICK p : p = Head(Blob)
    OBVIOUS
<1>2. /\ TypeOK /\ Loading /\ AttributesInStep /\ Linked /\ Control
      /\ pc = "load" /\ Blob # <<>> /\ IsKey(p)
      /\ UNCHANGED <<op, to, errors, loaded, at, result, counts, fmt, file, ik, grips, img, inp, had, torn, shared>>
    BY <1>1, Zenon DEF IInv, cb_keyring_parse, quiet
<1>3. in \in Blobs /\ in # <<>> /\ in[1] # <<>> /\ Blob = in[1]
    BY <1>2, BlobFacts
<1>4. PICK bl : bl = in
    OBVIOUS
<1>5. PICK q : q = [bl EXCEPT ![1] = Tail(@)]
    OBVIOUS
<1>6. /\ q \in Blobs /\ Shrinks(bl, q) /\ p \in Packets
      /\ p.name \in Names(bl) /\ (~Twice(bl) => p.name \notin Names(q))
    <2>1. p = Head(bl[1])
        BY <1>1, <1>3, <1>4
    <2> QED BY <1>2, <1>3, <1>4, <1>5, <2>1, NextPacket, Zenon
<1>7. Names(q) \subseteq Names(bl) /\ (~Twice(bl) => ~Twice(q))
    BY <1>6, ShrinksFacts, Zenon
<1>8. PICK r \in AllRings : r = to
    BY <1>2 DEF TypeOK
<1>9. PICK ring \in RingType : ring = rings[r]
    BY <1>2 DEF TypeOK
<1>10. Good(ring) /\ ring.keys \in Seq(Keys) /\ Len(ring.keys) <= ring.vsize
    <2>1. ring.keys \in Seq(Keys)
        BY DEF RingType
    <2> QED BY <1>2, <1>9, <2>1, Zenon DEF Good, TypeOK, AttributesInStep, Linked
<1>11. PICK k : k = NewKey(p)
    OBVIOUS
<1>12. /\ k \in Keys /\ InStep(k) /\ k.name = p.name /\ k.subs = <<>>
       /\ k.own = (IF r = "tmp" THEN Len(ring.keys) + 1 ELSE 0)
       /\ ~errors => k.pkts # <<>>
    BY <1>2, <1>6, <1>8, <1>9, <1>11, NewKeyFacts, Zenon
<1>13. r \in DOMAIN rings
    BY <1>2 DEF TypeOK
<1>14. ASSUME OutOfRoom(ring), Undefined, UNCHANGED <<rings, in, cb>> PROVE IInv'
    <2>1. Cause
        BY <1>9, <1>13, <1>14, Zenon DEF Cause
    <2> QED BY <1>2, <1>14, <2>1, Fails DEF others
<1>15. /\ cb.last # NoPtr => /\ cb.last.gen = ring.gen /\ cb.last.idx \in DOMAIN ring.keys
                             /\ ~IsSub(ring.keys[cb.last.idx].name) /\ cb.last.ring = r
    BY <1>2, <1>8, <1>9, Zenon DEF Loading
<1>16. ASSUME NEW h \in rnp_key_store_add_key(ring, k), cb.last # NoPtr, cb.last.gen # h.gen,
              Undefined, UNCHANGED <<rings, in, cb>>
       PROVE  IInv'
    <2>1. Grown(ring, h, k)
        BY <1>10, <1>12, <1>16, AddFacts, Zenon
    <2>2. OutOfRoom(ring)
        BY <1>15, <1>16, <2>1, Zenon DEF Grown
    <2> QED BY <1>14, <1>16, <2>2
<1>17. ASSUME NEW g, Carries(r, ring, g), rings' = [rings EXCEPT ![r] = g], in' = q, pc' = pc,
              cb' \in [key : BOOLEAN, last : Pointers],
              DOMAIN g.keys = 1 .. Len(ring.keys) + 1, g.keys[Len(ring.keys) + 1] = k
       PROVE  /\ TypeOK' /\ AttributesInStep' /\ Control' /\ Imported' /\ Linked' /\ Owners'
              /\ OwnedOnce' /\ StaleOnlyAfterMove'
    <2>1. rings' = [rings EXCEPT ![to] = g] /\ Carries(to, rings[to], g)
        BY <1>8, <1>9, <1>17, Zenon
    <2>2. \A n \in DOMAIN g.keys : n \notin DOMAIN ring.keys => n = Len(ring.keys) + 1
        BY <1>10, <1>17
    <2>3. \A n \in DOMAIN g.keys : n \notin DOMAIN rings[to].keys =>
              /\ g.keys[n].subs = <<>> /\ g.keys[n].own = (IF to = "tmp" THEN n ELSE 0)
              /\ g.keys[n].name \in Names(in) /\ (~Twice(in) => g.keys[n].name \notin Names(in'))
              /\ \A m \in DOMAIN g.keys : m \notin DOMAIN rings[to].keys => m = n
        <3> SUFFICES ASSUME NEW n \in DOMAIN g.keys, n \notin DOMAIN rings[to].keys
                     PROVE  /\ g.keys[n].subs = <<>> /\ g.keys[n].own = (IF to = "tmp" THEN n ELSE 0)
                            /\ g.keys[n].name \in Names(in) /\ (~Twice(in) => g.keys[n].name \notin Names(in'))
                            /\ \A m \in DOMAIN g.keys : m \notin DOMAIN rings[to].keys => m = n
            BY Zenon
        <3>1. n = Len(ring.keys) + 1 /\ \A m \in DOMAIN g.keys : m \notin DOMAIN rings[to].keys => m = n
            BY <1>8, <1>9, <2>2
        <3>2. g.keys[n] = k
            BY <1>17, <3>1, Zenon
        <3>3. g.keys[n].subs = <<>> /\ g.keys[n].own = (IF to = "tmp" THEN n ELSE 0)
            BY <1>8, <1>12, <3>1, <3>2
        <3>4. g.keys[n].name \in Names(in) /\ (~Twice(in) => g.keys[n].name \notin Names(in'))
            BY <1>4, <1>6, <1>12, <1>17, <3>2
        <3> QED BY <3>1, <3>3, <3>4
    <2>4. in' \in Blobs /\ Names(in') \subseteq Names(in) /\ (~Twice(in) => ~Twice(in'))
        BY <1>4, <1>6, <1>7, <1>17, Zenon
    <2>5. errors' \in BOOLEAN /\ pc' = "load" /\ pc = "load" /\ UNCHANGED loader
        BY <1>2, <1>17 DEF TypeOK, loader
    <2> QED BY <1>17, <2>1, <2>3, <2>4, <2>5, LoadFrame, Zenon
<1>18. ASSUME NEW g \in rnp_key_store_add_key(ring, k), rings' = [rings EXCEPT ![r] = g], in' = q, pc' = pc,
              cb' = [key |-> TRUE, last |-> IF IsSub(p.name) THEN NoPtr ELSE Ref(r, g, Len(g.keys))]
       PROVE  IInv'
    <2>1. Grown(ring, g, k)
        BY <1>10, <1>12, <1>18, AddFacts, Zenon
    <2>2. Good(g) /\ Later(ring, g)
        BY <1>10, <1>12, <2>1, GrownGood, Zenon
    <2>3. /\ g \in RingType /\ DOMAIN g.keys = 1 .. Len(ring.keys) + 1 /\ Len(g.keys) = Len(ring.keys) + 1
          /\ \A n \in 1 .. Len(ring.keys) : g.keys[n] = ring.keys[n]
          /\ g.keys[Len(ring.keys) + 1] = k
        BY <2>1, Zenon DEF Grown
    <2>4. DOMAIN ring.keys = 1 .. Len(ring.keys) /\ Len(ring.keys) \in Nat
        BY <1>10
    <2>5. Carries(r, ring, g)
        BY <2>2, <2>3, <2>4, Zenon DEF Carries
    <2>6. PICK l : l = IF IsSub(p.name) THEN NoPtr ELSE Ref(r, g, Len(g.keys))
        OBVIOUS
    <2>7. l \in Pointers
        <3>1. NoPtr \in Pointers
            BY DEF NoPtr, Pointers
        <3>2. g.gen \in Nat /\ Len(g.keys) \in Nat
            BY <2>3, <2>4 DEF RingType
        <3>3. Ref(r, g, Len(g.keys)) \in Pointers
            BY <3>2 DEF Ref, Pointers
        <3> QED BY <2>6, <3>1, <3>3
    <2>8. cb' = [key |-> TRUE, last |-> l]
        BY <1>18, <2>6
    <2>9. cb' \in [key : BOOLEAN, last : Pointers] /\ cb'.key = TRUE /\ cb'.last = l
        BY <2>7, <2>8
    <2>10. /\ TypeOK' /\ AttributesInStep' /\ Control' /\ Imported' /\ Linked' /\ Owners'
           /\ OwnedOnce' /\ StaleOnlyAfterMove'
        BY <1>17, <1>18, <2>3, <2>5, <2>9, Zenon
    <2>11. Loading'
        <3>1. rings'[to'] = g /\ to' = r /\ errors' = errors
            BY <1>2, <1>8, <1>18 DEF TypeOK
        <3>2. g.keys # <<>> /\ g.keys[Len(g.keys)] = k /\ Len(g.keys) \in DOMAIN g.keys
            BY <2>3, <2>4
        <3>3. l # NoPtr => /\ l.ring = r /\ l.gen = g.gen /\ l.idx = Len(g.keys) /\ ~IsSub(k.name)
            BY <1>12, <2>6 DEF Ref
        <3> QED BY <1>12, <2>9, <3>1, <3>2, <3>3, Zenon DEF Loading
    <2> QED BY <2>10, <2>11, Zenon DEF IInv
<1>19. ASSUME NEW h \in rnp_key_store_add_key(ring, k), IsSub(p.name), cb.last # NoPtr, cb.last.gen = h.gen,
              rings' = [rings EXCEPT ![r] = [h EXCEPT !.keys[cb.last.idx].subs = Append(@, Ref(r, h, Len(h.keys)))]],
              in' = q, pc' = pc, cb' = cb
       PROVE  IInv'
    <2>1. Grown(ring, h, k)
        BY <1>10, <1>12, <1>19, AddFacts, Zenon
    <2>2. Good(h) /\ Later(ring, h)
        BY <1>10, <1>12, <2>1, GrownGood, Zenon
    <2>3. /\ h \in RingType /\ DOMAIN h.keys = 1 .. Len(ring.keys) + 1 /\ Len(h.keys) = Len(ring.keys) + 1
          /\ \A n \in 1 .. Len(ring.keys) : h.keys[n] = ring.keys[n]
          /\ h.keys[Len(ring.keys) + 1] = k
        BY <2>1, Zenon DEF Grown
    <2>4. DOMAIN ring.keys = 1 .. Len(ring.keys) /\ Len(ring.keys) \in Nat
        BY <1>10
    <2>5. PICK i \in DOMAIN ring.keys : i = cb.last.idx
        BY <1>15, <1>19
    <2>6. i \in DOMAIN h.keys /\ i # Len(ring.keys) + 1 /\ h.keys[i] = ring.keys[i] /\ ~IsSub(ring.keys[i].name)
        BY <1>15, <1>19, <2>3, <2>4, <2>5
    <2>7. PICK x : x = Ref(r, h, Len(h.keys))
        OBVIOUS
    <2>8. x \in Pointers /\ x.ring = r /\ x.gen = h.gen /\ x.idx = Len(ring.keys) + 1
        <3>1. h.gen \in Nat /\ Len(h.keys) \in Nat
            BY <2>3, <2>4 DEF RingType
        <3> QED BY <2>3, <2>7, <3>1 DEF Ref, Pointers
    <2>9. PICK b \in Keys : b = h.keys[i]
        BY <2>3, <2>6 DEF RingType
    <2>10. PICK s \in Seq(Pointers) : s = b.subs
        BY DEF Keys
    <2>11. PICK t \in Seq(Pointers) : t = Append(s, x)
        <3>1. x \in Pointers
            BY <2>8, Zenon
        <3>2. Append(s, x) \in Seq(Pointers)
            BY <3>1
        <3> QED BY <3>2
    <2>12. /\ \A m \in DOMAIN t : t[m] = x \/ (m \in DOMAIN s /\ t[m] = s[m])
        BY <2>8, <2>11
    <2>13. PICK k2 : k2 = [b EXCEPT !.subs = t]
        OBVIOUS
    <2>14. /\ k2 \in Keys /\ k2.subs = t
           /\ k2.name = b.name /\ k2.sec = b.sec /\ k2.own = b.own
           /\ k2.uids = b.uids /\ k2.sigs = b.sigs /\ k2.pkts = b.pkts
        BY <2>13, SubsFacts, Zenon
    <2>15. PICK g : g = [h EXCEPT !.keys[i] = k2]
        OBVIOUS
    <2>16. Put(h, g, i, k2)
        BY <2>3, <2>6, <2>14, <2>15, PutFacts, Zenon
    <2>17. rings' = [rings EXCEPT ![r] = g]
        <3>1. [h EXCEPT !.keys[i].subs = Append(@, x)] =
                 [h EXCEPT !.keys[i] = [h.keys[i] EXCEPT !.subs = Append(h.keys[i].subs, x)]]
            BY <2>3, <2>6, NestedSubs
        <3>2. [h EXCEPT !.keys[i].subs = Append(@, x)] = g
            BY <2>9, <2>10, <2>11, <2>13, <2>15, <3>1
        <3> QED BY <1>19, <2>5, <2>7, <3>2
    <2>18. Good(g) /\ Later(h, g)
        <3>1. InStep(b)
            BY <2>2, <2>6, <2>9, Zenon DEF Good
        <3>2. InStep(k2)
            BY <2>14, <3>1, InStepFrame, Zenon
        <3>3. IsSub(k2.name) => k2.subs = <<>>
            BY <2>6, <2>9, <2>14, Zenon
        <3> QED BY <2>2, <2>6, <2>9, <2>14, <2>16, <3>2, <3>3, PutGood, Zenon
    <2>19. /\ DOMAIN g.keys = 1 .. Len(ring.keys) + 1 /\ Len(g.keys) = Len(ring.keys) + 1
           /\ g.keys[Len(ring.keys) + 1] = k /\ g.keys[i] = k2 /\ g.gen = h.gen /\ g.vsize = h.vsize
           /\ \A n \in DOMAIN ring.keys : n = i \/ g.keys[n] = ring.keys[n]
        <3>1. /\ DOMAIN g.keys = DOMAIN h.keys /\ Len(g.keys) = Len(h.keys) /\ g.keys[i] = k2 /\ g.gen = h.gen
              /\ g.vsize = h.vsize
              /\ \A m \in DOMAIN h.keys : m # i => g.keys[m] = h.keys[m]
            BY <2>16, Zenon DEF Put
        <3>2. Len(ring.keys) + 1 \in DOMAIN h.keys /\ \A n \in DOMAIN ring.keys : n \in DOMAIN h.keys
            BY <2>3, <2>4
        <3>3. g.keys[Len(ring.keys) + 1] = k
            BY <2>3, <2>6, <3>1, <3>2, Zenon
        <3>4. \A n \in DOMAIN ring.keys : n = i \/ g.keys[n] = ring.keys[n]
            BY <2>3, <2>4, <3>1, <3>2, Zenon
        <3> QED BY <2>3, <3>1, <3>3, <3>4, Zenon
    <2>20. Within(r, g, x)
        <3>1. Len(ring.keys) + 1 \in DOMAIN g.keys
            BY <2>4, <2>19
        <3> QED BY <1>12, <1>19, <2>8, <2>19, <3>1, Zenon DEF Within
    <2>21. Later(ring, g)
        <3>1. \A n \in DOMAIN ring.keys : n \in DOMAIN g.keys /\ g.keys[n].name = ring.keys[n].name
            <4>1. \A n \in DOMAIN ring.keys : n \in DOMAIN g.keys
                BY <2>4, <2>19
            <4>2. \A n \in DOMAIN ring.keys : g.keys[n].name = ring.keys[n].name
                BY <2>6, <2>9, <2>14, <2>19, Zenon
            <4> QED BY <4>1, <4>2
        <3> QED BY <2>2, <2>19, <3>1, Zenon DEF Later
    <2>22. Carries(r, ring, g)
        <3>1. ASSUME NEW n \in DOMAIN ring.keys
              PROVE  /\ g.keys[n].own = ring.keys[n].own
                     /\ \A m \in DOMAIN g.keys[n].subs :
                          \/ Within(r, g, g.keys[n].subs[m])
                          \/ m \in DOMAIN ring.keys[n].subs /\ g.keys[n].subs[m] = ring.keys[n].subs[m]
            <4>1. CASE n = i
                BY <2>6, <2>9, <2>10, <2>12, <2>14, <2>19, <2>20, <4>1, Zenon
            <4>2. CASE n # i
                BY <2>19, <4>2, Zenon
            <4> QED BY <4>1, <4>2
        <3> QED BY <2>18, <2>21, <3>1, Zenon DEF Carries
    <2>23. cb' \in [key : BOOLEAN, last : Pointers]
        BY <1>2, <1>19 DEF TypeOK
    <2>24. /\ TypeOK' /\ AttributesInStep' /\ Control' /\ Imported' /\ Linked' /\ Owners'
           /\ OwnedOnce' /\ StaleOnlyAfterMove'
        BY <1>17, <1>19, <2>17, <2>19, <2>22, <2>23, Zenon
    <2>25. Loading'
        <3>1. rings'[to'] = g /\ to' = r /\ errors' = errors
            BY <1>2, <1>8, <2>17 DEF TypeOK
        <3>2. g.keys # <<>> /\ g.keys[Len(g.keys)] = k /\ Len(g.keys) \in DOMAIN g.keys
            BY <2>4, <2>19
        <3>3. /\ cb.last.ring = r /\ cb.last.gen = g.gen /\ cb.last.idx = i /\ i \in DOMAIN g.keys
              /\ ~IsSub(g.keys[i].name)
            BY <1>15, <1>19, <2>5, <2>6, <2>9, <2>14, <2>19, <2>21, Zenon DEF Later
        <3> QED BY <1>12, <1>19, <3>1, <3>2, <3>3, Zenon DEF Loading
    <2> QED BY <2>24, <2>25, Zenon DEF IInv
<1>20. \/ /\ OutOfRoom(rings[to]) /\ Undefined /\ UNCHANGED <<rings, in, cb>>
       \/ \E h \in rnp_key_store_add_key(rings[to], NewKey(p)) :
            \/ /\ rings' = [rings EXCEPT ![to] = h]
               /\ cb' = [key |-> TRUE, last |-> IF IsSub(p.name) THEN NoPtr ELSE Ref(to, h, Len(h.keys))]
               /\ in' = [in EXCEPT ![1] = Tail(@)] /\ UNCHANGED pc
            \/ /\ IsSub(p.name) /\ cb.last # NoPtr /\ cb.last.gen = h.gen
               /\ rings' = [rings EXCEPT ![to] = [h EXCEPT !.keys[cb.last.idx].subs = Append(@, Ref(to, h, Len(h.keys)))]]
               /\ in' = [in EXCEPT ![1] = Tail(@)] /\ UNCHANGED <<cb, pc>>
            \/ /\ cb.last # NoPtr /\ cb.last.gen # h.gen
               /\ Undefined /\ UNCHANGED <<rings, cb, in>>
    BY <1>1, Zenon DEF cb_keyring_parse
<1>21. \/ /\ OutOfRoom(ring) /\ Undefined /\ UNCHANGED <<rings, in, cb>>
       \/ \E h \in rnp_key_store_add_key(ring, k) :
            \/ /\ rings' = [rings EXCEPT ![r] = h]
               /\ cb' = [key |-> TRUE, last |-> IF IsSub(p.name) THEN NoPtr ELSE Ref(r, h, Len(h.keys))]
               /\ in' = q /\ pc' = pc
            \/ /\ IsSub(p.name) /\ cb.last # NoPtr /\ cb.last.gen = h.gen
               /\ rings' = [rings EXCEPT ![r] = [h EXCEPT !.keys[cb.last.idx].subs = Append(@, Ref(r, h, Len(h.keys)))]]
               /\ in' = q /\ cb' = cb /\ pc' = pc
            \/ /\ cb.last # NoPtr /\ cb.last.gen # h.gen
               /\ Undefined /\ UNCHANGED <<rings, in, cb>>
    BY <1>4, <1>5, <1>8, <1>9, <1>11, <1>20
<1> QED BY <1>14, <1>16, <1>18, <1>19, <1>21, Zenon

\* The key that is imported.
LEMMA ImportingFacts ==
    ASSUME IInv, pc \in {"import", "sub"}, at[1] <= Len(Tmp.keys)
    PROVE  /\ at[1] \in DOMAIN Tmp.keys /\ at[1] \in Nat /\ at[2] \in Nat /\ at[1] >= 1 /\ at[2] >= 1
           /\ Importing \in Keys /\ InStep(Importing) /\ (IsSub(Importing.name) => Importing.subs = <<>>)
           /\ Dest \in Rings /\ Tmp \in RingType /\ Tmp.keys \in Seq(Keys) /\ op = "import"
           /\ \A t \in DOMAIN Tmp.keys : Tmp.keys[t].own = t
<1>0. TypeOK /\ AttributesInStep /\ Linked /\ Control /\ Owners /\ Imported
    BY Zenon DEF IInv
<1>1. Tmp \in RingType /\ "tmp" \in AllRings
    BY <1>0 DEF TypeOK, AllRings, Tmp
<1>2. Tmp.keys \in Seq(Keys)
    BY <1>1 DEF RingType
<1>3. at[1] \in Nat /\ at[2] \in Nat /\ at[1] >= 1 /\ at[2] >= 1
    <2>1. at[1] \in Nat /\ at[2] \in Nat
        BY <1>0 DEF TypeOK
    <2>2. pc = "sub" => at[1] >= 1
        BY <1>0, <1>2 DEF Imported
    <2> QED BY <1>0, <2>1, <2>2 DEF Imported
<1>4. at[1] \in DOMAIN Tmp.keys
    BY <1>2, <1>3
<1>5. Importing \in Keys
    BY <1>2, <1>4 DEF Importing
<1>6. InStep(Importing) /\ (IsSub(Importing.name) => Importing.subs = <<>>)
    BY <1>0, <1>1, <1>4, Zenon DEF AttributesInStep, Linked, Bare, Importing, Tmp
<1>7. Dest \in Rings
    BY DEF Dest, Rings
<1>8. op = "import"
    BY <1>0 DEF Control
<1>9. \A t \in DOMAIN Tmp.keys : Tmp.keys[t].own = t
    BY <1>0 DEF Owners, TmpOwns
<1> QED BY <1>1, <1>2, <1>3, <1>4, <1>5, <1>6, <1>7, <1>8, <1>9, Zenon

\* A key of the temporary store is passed over, or added to its ring.
LEMMA ImportKeyStep == IInv /\ ImportKey => IInv'
<1> SUFFICES ASSUME IInv, ImportKey PROVE IInv'
    OBVIOUS
<1>0. /\ TypeOK /\ AttributesInStep /\ Control /\ Imported /\ Linked /\ Owners /\ OwnedOnce
      /\ pc = "import" /\ at[1] <= Len(Tmp.keys) /\ pc # "undefined" /\ pc # "sub" /\ pc # "load"
      /\ UNCHANGED <<fmt, file, op, in, to, cb, errors, loaded, img, result, counts, inp, had, torn, shared>>
    BY DEF IInv, ImportKey, still
<1>1. /\ at[1] \in DOMAIN Tmp.keys /\ at[1] \in Nat /\ at[2] \in Nat /\ at[1] >= 1 /\ at[2] >= 1
      /\ Importing \in Keys /\ InStep(Importing) /\ (IsSub(Importing.name) => Importing.subs = <<>>)
      /\ Dest \in Rings /\ Tmp \in RingType /\ Tmp.keys \in Seq(Keys) /\ op = "import"
      /\ \A t \in DOMAIN Tmp.keys : Tmp.keys[t].own = t
    BY <1>0, ImportingFacts
<1>2. PICK d \in Rings : d = Dest
    BY <1>1
<1>3. d \in AllRings /\ d # "tmp" /\ "tmp" \in AllRings /\ d \in DOMAIN rings
    BY <1>0 DEF Rings, AllRings, TypeOK
<1>4. PICK ring \in RingType : ring = rings[d]
    BY <1>0, <1>3 DEF TypeOK
<1>5. Good(ring)
    BY <1>0, <1>3, <1>4, Zenon DEF Good, TypeOK, AttributesInStep, Linked
<1>6. PICK k \in Keys : k = Importing
    BY <1>1
<1>7. ASSUME at' = <<at[1] + 1, 1>>, UNCHANGED <<rings, pc, ik, grips>> PROVE IInv'
    <2>1. /\ AttributesInStep' /\ OwnedOnce' /\ StaleOnlyAfterMove' /\ TmpNames' /\ SharedRemoved'
          /\ \A r \in AllRings : Bare(rings'[r])
        BY <1>0, <1>7, Frame
    <2>2. at' \in Nat \X Nat /\ at'[1] = at[1] + 1 /\ at'[2] = 1
        BY <1>1, <1>7
    <2>3. TypeOK'
        BY <1>0, <1>7, <2>2 DEF TypeOK
    <2>4. Control' /\ Loading' /\ Imported'
        BY <1>0, <1>1, <1>7, <2>2 DEF Control, Loading, Imported
    <2>5. RingsLinked'
        BY <1>0, <1>7 DEF Linked, RingsLinked
    <2>6. TmpLinked'
        <3> SUFFICES ASSUME NEW n \in DOMAIN Tmp.keys, NEW m \in DOMAIN Tmp.keys[n].subs, n >= at[1] + 1
                     PROVE  Within("tmp", Tmp, Tmp.keys[n].subs[m])
            BY <1>0, <1>7, <2>2 DEF TmpLinked, Tmp, Ahead
        <3>2. n >= at[1]
            BY <1>1
        <3> QED BY <1>0, <3>2 DEF Linked, TmpLinked, Ahead
    <2>7. TmpOwns' /\ RingsOwn' /\ InputNames'
        BY <1>0, <1>1, <1>7 DEF Owners, TmpOwns, RingsOwn, InputNames, Tmp
    <2> QED BY <2>1, <2>3, <2>4, <2>5, <2>6, <2>7, Zenon DEF IInv, Linked, Owners
<1>8. ASSUME OutOfRoom(rings[Dest]), Undefined, UNCHANGED <<rings, at, ik, grips>> PROVE IInv'
    <2>1. Cause
        BY <1>2, <1>3, <1>8, Zenon DEF Cause
    <2> QED BY <1>0, <1>8, <2>1, Fails DEF others
<1>9. ASSUME NEW g \in rnp_key_store_add_key(ring, k), rings' = [rings EXCEPT ![d] = g],
             ik' = Ref(d, g, Len(g.keys)), grips' = Append(grips, k.name), pc' = "sub", UNCHANGED at
      PROVE  IInv'
    <2>1. Grown(ring, g, k)
        BY <1>5, <1>9, AddFacts, Zenon DEF Good
    <2>2. Good(g) /\ Later(ring, g)
        BY <1>1, <1>5, <1>6, <2>1, GrownGood, Zenon
    <2>3. /\ rings' \in [AllRings -> RingType] /\ rings'[d] = g
          /\ \A q \in AllRings : q # d => rings'[q] = rings[q]
          /\ \A q \in AllRings : Len(rings'[q].keys) <= rings'[q].vsize
          /\ AttributesInStep'
          /\ \A q \in AllRings : Bare(rings'[q])
        BY <1>0, <1>3, <1>9, <2>2, ArrayStep
    <2>4. /\ g \in RingType /\ DOMAIN g.keys = 1 .. Len(ring.keys) + 1 /\ Len(g.keys) = Len(ring.keys) + 1
          /\ \A n \in 1 .. Len(ring.keys) : g.keys[n] = ring.keys[n]
          /\ g.keys[Len(ring.keys) + 1] = k
        BY <2>1, Zenon DEF Grown
    <2>5. DOMAIN ring.keys = 1 .. Len(ring.keys) /\ Len(ring.keys) \in Nat
        BY DEF RingType
    <2>6. Tmp' = Tmp /\ Importing' = Importing /\ Dest' = Dest
        BY <1>3, <1>9, <2>3 DEF Tmp, Importing, Dest
    <2>7. ik' \in Pointers /\ ik'.ring = d /\ ik'.gen = g.gen /\ ik'.idx = Len(ring.keys) + 1
        <3>1. g.gen \in Nat /\ Len(g.keys) \in Nat
            BY <2>4, <2>5 DEF RingType
        <3> QED BY <1>3, <1>9, <2>4, <3>1 DEF Ref, Pointers
    <2>8. grips \in Seq(Labels) /\ k.name \in Labels /\ grips' \in Seq(Labels)
        BY <1>0, <1>9 DEF TypeOK, Keys
    <2>9. TypeOK'
        BY <1>0, <1>9, <2>3, <2>7, <2>8 DEF TypeOK
    <2>10. Control'
        BY <1>0, <1>1, <1>9 DEF Control
    <2>11. Loading' /\ Imported'
        <3>1. Len(ring.keys) + 1 \in DOMAIN g.keys
            BY <2>4, <2>5
        <3>2. Imported'
            <4> SUFFICES /\ at[1] \in DOMAIN Tmp'.keys /\ at[2] >= 1
                         /\ ik'.ring = Dest' /\ ik'.gen = rings'[Dest'].gen
                         /\ ik'.idx \in DOMAIN rings'[Dest'].keys
                         /\ rings'[Dest'].keys[ik'.idx].subs = Importing'.subs
                BY <1>9 DEF Imported
            <4> QED BY <1>1, <1>2, <1>6, <2>3, <2>4, <2>6, <2>7, <3>1
        <3> QED BY <1>9, <3>2 DEF Loading
    <2>12. RingsLinked'
        <3> SUFFICES ASSUME NEW q \in Rings, NEW n \in DOMAIN rings'[q].keys, NEW m \in DOMAIN rings'[q].keys[n].subs
                     PROVE  \/ Within(q, rings'[q], rings'[q].keys[n].subs[m])
                            \/ rings'[q].keys[n].subs[m] = Stack /\ rings'[q].keys[n].name = Fresh[1]
                            \/ q = d /\ n = Len(ring.keys) + 1 /\ m >= at[2]
            BY <1>9, <2>7 DEF RingsLinked
        <3>1. CASE q # d
            <4>1. rings'[q] = rings[q]
                BY <2>3, <3>1 DEF AllRings
            <4> QED BY <1>0, <4>1, Zenon DEF Linked, RingsLinked
        <3>2. CASE q = d /\ n \in 1 .. Len(ring.keys)
            <4>1. rings'[q] = g /\ g.keys[n] = ring.keys[n] /\ n \in DOMAIN ring.keys
                BY <2>3, <2>4, <2>5, <3>2
            <4>2. \/ Within(q, ring, ring.keys[n].subs[m])
                  \/ ring.keys[n].subs[m] = Stack /\ ring.keys[n].name = Fresh[1]
                BY <1>0, <1>4, <3>2, <4>1, Zenon DEF Linked, RingsLinked
            <4>3. PICK p : p = ring.keys[n].subs[m]
                OBVIOUS
            <4>4. Within(q, ring, p) => Within(q, g, p)
                BY <2>2, <2>4, WithinLater
            <4> QED BY <4>1, <4>2, <4>3, <4>4
        <3>3. CASE q = d /\ n = Len(ring.keys) + 1
            <4>1. k.subs \in Seq(Pointers) /\ m \in DOMAIN k.subs
                BY <2>3, <2>4, <3>3 DEF Keys
            <4>2. at[2] = 1
                BY <1>0 DEF Imported
            <4> QED BY <3>3, <4>1, <4>2
        <3>4. q = d => n \in 1 .. Len(ring.keys) + 1
            BY <2>3, <2>4
        <3> QED BY <2>5, <3>1, <3>2, <3>3, <3>4
    <2>13. TmpLinked'
        <3> SUFFICES ASSUME NEW n \in DOMAIN Tmp.keys, NEW m \in DOMAIN Tmp.keys[n].subs, n >= at[1]
                     PROVE  Within("tmp", Tmp, Tmp.keys[n].subs[m])
            <4>1. ASSUME NEW n \in DOMAIN Tmp.keys, NEW m, Ahead(n, m)' PROVE n >= at[1]
                BY <1>1, <1>9, <4>1 DEF Ahead
            <4> QED BY <2>6, <4>1, Zenon DEF TmpLinked
        <3> QED BY <1>0 DEF Linked, TmpLinked, Ahead
    <2>14. TmpOwns' /\ TmpNames' /\ RingsOwn' /\ InputNames'
        <3>1. TmpOwns' /\ TmpNames'
            BY <1>0, <1>1, <2>6 DEF Owners, TmpOwns, TmpNames
        <3> QED BY <1>0, <1>1, <1>9, <3>1 DEF RingsOwn, InputNames
    <2>15. SharedRemoved'
        <3> SUFFICES ASSUME ~Twice(inp), NEW q \in Rings, NEW n \in DOMAIN rings'[q].keys, NEW t \in DOMAIN Tmp.keys,
                            Tmp.keys[t].own = rings'[q].keys[n].own
                     PROVE  \E h \in DOMAIN grips' : grips'[h] = Tmp.keys[t].name
            BY <1>0, <2>6, Zenon DEF SharedRemoved
        <3>1. \A h \in DOMAIN grips : h \in DOMAIN grips' /\ grips'[h] = grips[h]
            BY <1>9, <2>8
        <3>2. Len(grips) + 1 \in DOMAIN grips' /\ grips'[Len(grips) + 1] = k.name
            BY <1>9, <2>8
        <3>3. \A l \in DOMAIN rings[q].keys : Tmp.keys[t].own = rings[q].keys[l].own =>
                  \E h \in DOMAIN grips : grips[h] = Tmp.keys[t].name
            BY <1>0 DEF Owners, SharedRemoved
        <3>4. CASE q # d
            <4>1. rings'[q] = rings[q]
                BY <2>3, <3>4 DEF AllRings
            <4> QED BY <3>1, <3>3, <4>1, Zenon
        <3>5. CASE q = d /\ n \in 1 .. Len(ring.keys)
            <4>1. rings'[q] = g /\ g.keys[n] = ring.keys[n] /\ n \in DOMAIN ring.keys
                BY <2>3, <2>4, <2>5, <3>5
            <4> QED BY <1>4, <3>1, <3>3, <3>5, <4>1, Zenon
        <3>6. CASE q = d /\ n = Len(ring.keys) + 1
            <4>1. rings'[q].keys[n] = k /\ k.own = at[1]
                BY <1>1, <1>6, <2>3, <2>4, <3>6 DEF Importing
            <4>2. t = at[1]
                BY <1>1, <4>1
            <4> QED BY <1>6, <3>2, <4>2, Zenon DEF Importing
        <3>7. q = d => n \in 1 .. Len(ring.keys) + 1
            BY <2>3, <2>4
        <3> QED BY <2>5, <3>4, <3>5, <3>6, <3>7
    <2>16. OwnedOnce' /\ StaleOnlyAfterMove'
        BY <1>0, <1>9 DEF OwnedOnce, StaleOnlyAfterMove
    <2> QED BY <2>3, <2>9, <2>10, <2>11, <2>12, <2>13, <2>14, <2>15, <2>16, Zenon DEF IInv, Linked, Owners
<1>10. \/ at' = <<at[1] + 1, 1>> /\ UNCHANGED <<rings, pc, ik, grips>>
       \/ /\ \E g \in rnp_key_store_add_key(ring, k) :
                rings' = [rings EXCEPT ![d] = g] /\ ik' = Ref(d, g, Len(g.keys))
          /\ grips' = Append(grips, k.name) /\ pc' = "sub" /\ UNCHANGED at
       \/ OutOfRoom(rings[Dest]) /\ Undefined /\ UNCHANGED <<rings, at, ik, grips>>
    BY <1>2, <1>4, <1>6, Zenon DEF ImportKey
<1> QED BY <1>7, <1>8, <1>9, <1>10

\* A subkey is added to the ring of its primary key, and the pointer to it follows.
LEMMA ImportSubkeyStep == IInv /\ ImportSubkey => IInv'
<1> SUFFICES ASSUME IInv, ImportSubkey PROVE IInv'
    OBVIOUS
<1>0. /\ TypeOK /\ AttributesInStep /\ Control /\ Imported /\ Linked /\ Owners /\ OwnedOnce
      /\ pc = "sub" /\ at[2] <= Len(Importing.subs) /\ pc # "undefined" /\ pc # "load"
      /\ UNCHANGED <<ik, fmt, file, op, in, to, cb, errors, loaded, img, result, counts, inp, had, torn, shared>>
    BY DEF IInv, ImportSubkey, still
<1>1. /\ at[1] \in DOMAIN Tmp.keys /\ at[1] \in Nat /\ at[2] \in Nat /\ at[1] >= 1 /\ at[2] >= 1
      /\ Importing \in Keys /\ InStep(Importing) /\ (IsSub(Importing.name) => Importing.subs = <<>>)
      /\ Dest \in Rings /\ Tmp \in RingType /\ Tmp.keys \in Seq(Keys) /\ op = "import"
      /\ \A t \in DOMAIN Tmp.keys : Tmp.keys[t].own = t
    <2>1. Tmp.keys \in Seq(Keys) /\ at[1] \in DOMAIN Tmp.keys
        BY <1>0 DEF TypeOK, RingType, AllRings, Tmp, Imported
    <2>2. at[1] <= Len(Tmp.keys)
        BY <2>1
    <2> QED BY <1>0, <2>2, ImportingFacts
<1>2. PICK d \in Rings : d = Dest
    BY <1>1
<1>3. d \in AllRings /\ d # "tmp" /\ "tmp" \in AllRings /\ d \in DOMAIN rings /\ "tmp" \in DOMAIN rings
    BY <1>0 DEF Rings, AllRings, TypeOK
<1>4. PICK ring \in RingType : ring = rings[d]
    BY <1>0, <1>3 DEF TypeOK
<1>5. PICK tmp \in RingType : tmp = Tmp
    BY <1>1
<1>6. Good(ring) /\ Good(tmp)
    BY <1>0, <1>3, <1>4, <1>5, Zenon DEF Good, TypeOK, AttributesInStep, Linked, Tmp
<1>7. PICK c \in Keys : c = Importing
    BY <1>1
<1>8. PICK s \in Seq(Pointers) : s = c.subs
    BY DEF Keys
<1>9. PICK a \in Nat : a = at[2]
    BY <1>1
<1>10. PICK o \in DOMAIN tmp.keys : o = at[1]
    BY <1>1, <1>5
<1>11. a \in DOMAIN s /\ a >= 1 /\ s # <<>> /\ tmp.keys[o] = c
    BY <1>0, <1>1, <1>5, <1>7, <1>8, <1>9, <1>10 DEF Importing
<1>12. PICK p \in Pointers : p = s[a]
    BY <1>11
<1>13. p = Importing.subs[at[2]]
    BY <1>7, <1>8, <1>9, <1>12
<1>14. Within("tmp", tmp, p)
    <2>1. Ahead(o, a)
        BY <1>0, <1>9, <1>10 DEF Ahead
    <2>2. o \in DOMAIN Tmp.keys /\ a \in DOMAIN Tmp.keys[o].subs /\ Tmp.keys[o].subs[a] = p
        BY <1>5, <1>8, <1>11, <1>12
    <2> QED BY <1>0, <1>5, <2>1, <2>2, Zenon DEF Linked, TmpLinked
<1>15. /\ ik.ring = d /\ ik.gen = ring.gen /\ ik.idx \in DOMAIN ring.keys /\ ring.keys[ik.idx].subs = s
    BY <1>0, <1>2, <1>4, <1>7, <1>8 DEF Imported
<1>16. ASSUME Undefined, UNCHANGED <<rings, at, grips>>, Cause PROVE IInv'
    BY <1>0, <1>16, Fails DEF others
<1>17. ~Live(p) \/ OutOfRoom(ring) => Cause
    <2>1. ASSUME ~Live(p) PROVE tmp.vsize > Grow
        BY <1>3, <1>5, <1>14, <2>1 DEF Live, Within, Tmp
    <2> QED BY <1>3, <1>4, <1>5, <2>1, Zenon DEF Cause, Tmp
<1>18. ASSUME Live(p) PROVE /\ Deref(p) = tmp.keys[p.idx] /\ p.idx \in DOMAIN tmp.keys /\ IsSub(Deref(p).name)
                            /\ Deref(p) \in Keys /\ Deref(p).subs = <<>> /\ InStep(Deref(p)) /\ Deref(p).own = p.idx
    <2>1. p.ring = "tmp" /\ p.idx \in DOMAIN tmp.keys /\ IsSub(tmp.keys[p.idx].name)
        BY <1>14, Zenon DEF Within
    <2>2. Deref(p) = tmp.keys[p.idx]
        BY <1>5, <2>1 DEF Deref, Tmp
    <2>3. tmp.keys[p.idx] \in Keys /\ tmp.keys[p.idx].own = p.idx
        BY <1>1, <1>5, <2>1
    <2>4. tmp.keys[p.idx].subs = <<>> /\ InStep(tmp.keys[p.idx])
        BY <1>6, <2>1, Zenon DEF Good, Bare
    <2> QED BY <2>1, <2>2, <2>3, <2>4
<1>19. ASSUME Live(p), NEW g0 \in rnp_key_store_add_key(ring, Deref(p)), g0.gen = ik.gen,
              rings' = FixedUp(d, g0, Deref(p).name), at' = <<at[1], at[2] + 1>>,
              grips' = Append(grips, Deref(p).name), UNCHANGED pc
       PROVE  IInv'
    <2>1. PICK k \in Keys : k = Deref(p)
        BY <1>18, <1>19
    <2>2. /\ k = tmp.keys[p.idx] /\ p.idx \in DOMAIN tmp.keys /\ IsSub(k.name) /\ k.subs = <<>> /\ InStep(k) /\ k.own = p.idx
        BY <1>18, <1>19, <2>1
    <2>3. Grown(ring, g0, k)
        BY <1>6, <1>19, <2>1, AddFacts, Zenon DEF Good
    <2>4. Good(g0) /\ Later(ring, g0)
        BY <1>6, <2>2, <2>3, GrownGood, Zenon
    <2>5. /\ g0 \in RingType /\ DOMAIN g0.keys = 1 .. Len(ring.keys) + 1 /\ Len(g0.keys) = Len(ring.keys) + 1
          /\ \A n \in 1 .. Len(ring.keys) : g0.keys[n] = ring.keys[n]
          /\ g0.keys[Len(ring.keys) + 1] = k
        BY <2>3, Zenon DEF Grown
    <2>6. DOMAIN ring.keys = 1 .. Len(ring.keys) /\ Len(ring.keys) \in Nat
        BY DEF RingType
    <2>7. PICK j : j = rnp_key_store_get_key_by_grip(g0, k.name)
        OBVIOUS
    <2>8. j \in DOMAIN g0.keys /\ g0.keys[j].name = k.name
        <3>1. Len(ring.keys) + 1 \in DOMAIN g0.keys
            BY <2>5, <2>6
        <3>2. /\ j = 0 => \A m \in DOMAIN g0.keys : g0.keys[m].name # k.name
              /\ j # 0 => j \in DOMAIN g0.keys /\ g0.keys[j].name = k.name
            BY <2>5, <2>7, GripFacts
        <3> QED BY <2>5, <3>1, <3>2
    <2>9. PICK x : x = Ref(d, g0, j)
        OBVIOUS
    <2>10. x \in Pointers /\ x.ring = d /\ x.gen = g0.gen /\ x.idx = j
        <3>1. g0.gen \in Nat /\ j \in Nat
            BY <2>5, <2>6, <2>8 DEF RingType
        <3> QED BY <1>3, <2>9, <3>1 DEF Ref, Pointers
    <2>11. Within(d, g0, x)
        BY <2>2, <2>8, <2>10, Zenon DEF Within
    <2>12. PICK i \in DOMAIN ring.keys : i = ik.idx
        BY <1>15
    <2>13. PICK b \in Keys : b = ring.keys[i]
        BY DEF RingType
    <2>14. /\ i \in DOMAIN g0.keys /\ g0.keys[i] = b /\ b.subs = s /\ ~IsSub(b.name) /\ i # Len(ring.keys) + 1
           /\ InStep(b) /\ ~IsSub(c.name)
        <3>1. i \in DOMAIN g0.keys /\ g0.keys[i] = b /\ i # Len(ring.keys) + 1
            BY <2>5, <2>6, <2>13
        <3>2. b.subs = s
            BY <1>15, <2>12, <2>13, Zenon
        <3>3. ~IsSub(b.name) /\ ~IsSub(c.name)
            BY <1>1, <1>6, <1>7, <1>8, <1>11, <2>13, <3>2 DEF Good, Bare
        <3>4. InStep(b)
            BY <1>6, <2>13, Zenon DEF Good
        <3> QED BY <3>1, <3>2, <3>3, <3>4, Zenon
    <2>15. PICK s2 : s2 = [s EXCEPT ![a] = x]
        OBVIOUS
    <2>16. s2 \in Seq(Pointers) /\ DOMAIN s2 = DOMAIN s /\ s2[a] = x /\ \A m \in DOMAIN s : m # a => s2[m] = s[m]
        <3>1. x \in Pointers
            BY <2>10, Zenon
        <3> QED BY <1>11, <2>15, <3>1
    <2>17. PICK b2 : b2 = [b EXCEPT !.subs = s2]
        OBVIOUS
    <2>18. PICK c2 : c2 = [c EXCEPT !.subs = s2]
        OBVIOUS
    <2>19. s2 \in Seq(Pointers)
        BY <2>16, Zenon
    <2>20. /\ b2 \in Keys /\ b2.subs = s2
           /\ b2.name = b.name /\ b2.sec = b.sec /\ b2.own = b.own
           /\ b2.uids = b.uids /\ b2.sigs = b.sigs /\ b2.pkts = b.pkts
        BY <2>17, <2>19, SubsFacts, Zenon
    <2>21. /\ c2 \in Keys /\ c2.subs = s2
           /\ c2.name = c.name /\ c2.sec = c.sec /\ c2.own = c.own
           /\ c2.uids = c.uids /\ c2.sigs = c.sigs /\ c2.pkts = c.pkts
        BY <2>18, <2>19, SubsFacts, ZenonT(60)
    <2>22. PICK g : g = [g0 EXCEPT !.keys[i] = b2]
        OBVIOUS
    <2>23. PICK h : h = [tmp EXCEPT !.keys[o] = c2]
        OBVIOUS
    <2>24. Put(g0, g, i, b2) /\ Put(tmp, h, o, c2)
        BY <2>5, <2>14, <2>20, <2>21, <2>22, <2>23, PutFacts, Zenon
    <2>25. Good(g) /\ Later(g0, g)
        <3>1. InStep(b2)
            BY <2>14, <2>20, InStepFrame, Zenon
        <3> QED BY <2>4, <2>14, <2>20, <2>24, <3>1, PutGood, Zenon
    <2>26. Good(h) /\ Later(tmp, h)
        <3>1. InStep(c2)
            BY <1>1, <1>7, <2>21, InStepFrame, Zenon
        <3> QED BY <1>6, <1>11, <2>14, <2>21, <2>24, <3>1, PutGood, Zenon
    <2>27. rings' = [rings EXCEPT ![d] = g, !["tmp"] = h]
        <3>1. rings' = [rings EXCEPT ![d] = [g0 EXCEPT !.keys[i].subs[a] = x], !["tmp"].keys[o].subs[a] = x]
            BY <1>9, <1>10, <1>19, <2>1, <2>7, <2>9, <2>12 DEF FixedUp
        <3>2. [g0 EXCEPT !.keys[i].subs[a] = x] = g
            <4>1. [g0 EXCEPT !.keys[i].subs[a] = x] =
                    [g0 EXCEPT !.keys[i] = [g0.keys[i] EXCEPT !.subs = [g0.keys[i].subs EXCEPT ![a] = x]]]
                BY <2>5, <2>14, NestedSub
            <4> QED BY <2>14, <2>15, <2>17, <2>22, <4>1
        <3>3. [tmp EXCEPT !.keys[o].subs[a] = x] = h
            <4>1. [tmp EXCEPT !.keys[o].subs[a] = x] =
                    [tmp EXCEPT !.keys[o] = [tmp.keys[o] EXCEPT !.subs = [tmp.keys[o].subs EXCEPT ![a] = x]]]
                BY NestedSub
            <4> QED BY <1>8, <1>11, <2>15, <2>18, <2>23, <4>1
        <3>4. rings["tmp"] = tmp
            BY <1>5 DEF Tmp
        <3>5. rings' = [rings EXCEPT ![d] = [g0 EXCEPT !.keys[i].subs[a] = x],
                                     !["tmp"] = [tmp EXCEPT !.keys[o].subs[a] = x]]
            BY <1>3, <3>1, <3>4
        <3> QED BY <3>2, <3>3, <3>5
    <2>28. /\ rings' \in [AllRings -> RingType] /\ rings'[d] = g /\ rings'["tmp"] = h
           /\ \A q \in Rings : q # d => rings'[q] = rings[q]
        <3>1. g \in RingType /\ h \in RingType
            BY <2>25, <2>26 DEF Good
        <3> QED BY <1>0, <1>3, <2>27, <3>1 DEF TypeOK, Rings, AllRings
    <2>29. \A q \in AllRings : Good(rings'[q])
        <3>1. \A q \in AllRings : Good(rings[q])
            BY <1>0, Zenon DEF Good, TypeOK, AttributesInStep, Linked
        <3>2. \A q \in AllRings : q = "tmp" \/ q \in Rings
            BY DEF AllRings
        <3> QED BY <1>3, <2>25, <2>26, <2>28, <3>1, <3>2, Zenon
    <2>30. /\ \A q \in AllRings : Len(rings'[q].keys) <= rings'[q].vsize
           /\ AttributesInStep'
           /\ \A q \in AllRings : Bare(rings'[q])
        BY <2>29, Zenon DEF Good, AttributesInStep
    <2>31. /\ Tmp' = h /\ h.keys[o] = c2 /\ at'[1] = o /\ at'[2] = a + 1 /\ at' \in Nat \X Nat
        <3>1. h.keys[o] = c2
            BY <2>24, Zenon DEF Put
        <3> QED BY <1>1, <1>9, <1>10, <1>19, <2>28, <3>1 DEF Tmp
    <2>32. Importing' = c2 /\ Dest' = d
        BY <1>2, <1>7, <2>21, <2>31 DEF Importing, Dest
    <2>33. /\ grips \in Seq(Labels) /\ k.name \in Labels /\ grips' = Append(grips, k.name) /\ grips' \in Seq(Labels)
        BY <1>0, <1>19, <2>1 DEF TypeOK, Keys
    <2>34. TypeOK'
        BY <1>0, <1>19, <2>28, <2>30, <2>31, <2>33 DEF TypeOK
    <2>35. Control'
        BY <1>0, <1>1, <1>19 DEF Control
    <2>36. /\ DOMAIN g.keys = 1 .. Len(ring.keys) + 1
           /\ g.keys[Len(ring.keys) + 1] = k /\ g.keys[i] = b2 /\ g.gen = g0.gen
           /\ \A n \in DOMAIN ring.keys : n \in DOMAIN g.keys /\ (n = i \/ g.keys[n] = ring.keys[n])
        <3>1. /\ DOMAIN g.keys = DOMAIN g0.keys /\ g.keys[i] = b2 /\ g.gen = g0.gen
              /\ \A m \in DOMAIN g0.keys : m # i => g.keys[m] = g0.keys[m]
            BY <2>24, Zenon DEF Put
        <3>2. Len(ring.keys) + 1 \in DOMAIN g0.keys /\ \A n \in DOMAIN ring.keys : n \in DOMAIN g0.keys
            BY <2>5, <2>6
        <3>3. g.keys[Len(ring.keys) + 1] = k
            BY <2>5, <2>14, <3>1, <3>2, Zenon
        <3>4. \A n \in DOMAIN ring.keys : n = i \/ g.keys[n] = ring.keys[n]
            BY <2>5, <2>6, <3>1, <3>2, Zenon
        <3> QED BY <2>5, <3>1, <3>2, <3>3, <3>4, Zenon
    <2>37. /\ DOMAIN h.keys = DOMAIN tmp.keys /\ \A n \in DOMAIN tmp.keys : n # o => h.keys[n] = tmp.keys[n]
        BY <2>24, Zenon DEF Put
    <2>38. Loading' /\ Imported'
        <3>1. Loading'
            BY <1>0, <1>19 DEF Loading
        <3>2. /\ at'[1] \in DOMAIN h.keys /\ at'[2] >= 1
              /\ ik'.ring = d /\ ik'.gen = g.gen /\ ik'.idx \in DOMAIN g.keys /\ g.keys[ik'.idx].subs = c2.subs
            BY <1>0, <1>15, <1>19, <2>12, <2>20, <2>21, <2>31, <2>36, <2>37
        <3>3. Imported'
            BY <1>0, <1>19, <2>28, <2>31, <2>32, <3>2 DEF Imported
        <3> QED BY <3>1, <3>3
    <2>39. RingsLinked'
        <3>0. pc' = "sub" /\ ik'.ring = d /\ ik'.idx = i /\ at'[2] = a + 1
            BY <1>0, <1>15, <1>19, <2>12, <2>31
        <3> SUFFICES ASSUME NEW q \in Rings, NEW n \in DOMAIN rings'[q].keys, NEW m \in DOMAIN rings'[q].keys[n].subs
                     PROVE  \/ Within(q, rings'[q], rings'[q].keys[n].subs[m])
                            \/ rings'[q].keys[n].subs[m] = Stack /\ rings'[q].keys[n].name = Fresh[1]
                            \/ q = d /\ n = i /\ m >= a + 1
            BY <3>0, ZenonT(60) DEF RingsLinked
        <3>1. CASE q # d
            <4>1. rings'[q] = rings[q]
                BY <2>28, <3>1
            <4> QED BY <1>0, <1>15, <3>1, <4>1, Zenon DEF Linked, RingsLinked
        <3>2. rings'[d] = g
            BY <2>28
        <3>3. \A l \in DOMAIN ring.keys : \A f \in DOMAIN ring.keys[l].subs :
                  \/ Within(d, ring, ring.keys[l].subs[f])
                  \/ ring.keys[l].subs[f] = Stack /\ ring.keys[l].name = Fresh[1]
                  \/ l = i /\ f >= a
            BY <1>0, <1>4, <1>9, <2>12, Zenon DEF Linked, RingsLinked
        <3>4. ASSUME NEW y, Within(d, ring, y) PROVE Within(d, g, y)
            <4>1. Within(d, g0, y)
                BY <2>4, <2>5, <3>4, WithinLater
            <4>2. g \in RingType
                BY <2>25 DEF Good
            <4> QED BY <2>5, <2>25, <4>1, <4>2, WithinLater
        <3>5. CASE q = d /\ n \in DOMAIN ring.keys /\ n # i
            <4>1. g.keys[n] = ring.keys[n]
                BY <2>36, <3>5
            <4> QED BY <3>2, <3>3, <3>4, <3>5, <4>1, Zenon
        <3>6. CASE q = d /\ n = i
            <4>1. rings'[q].keys[n] = b2 /\ m \in DOMAIN s
                BY <2>16, <2>20, <2>36, <3>2, <3>6
            <4>2. CASE m = a
                <5>1. g \in RingType
                    BY <2>25 DEF Good
                <5>2. Within(d, g, x)
                    BY <2>5, <2>11, <2>25, <5>1, WithinLater
                <5> QED BY <2>16, <2>20, <3>2, <3>6, <4>1, <4>2, <5>2
            <4>3. CASE m # a
                <5>1. b2.subs[m] = ring.keys[i].subs[m] /\ m \in DOMAIN ring.keys[i].subs
                    BY <1>15, <2>12, <2>16, <2>20, <4>1, <4>3
                <5>2. m \in Nat
                    BY <4>1
                <5>3. m >= a => m >= a + 1
                    BY <4>3, <5>2
                <5>4. \/ Within(d, g, b2.subs[m])
                      \/ b2.subs[m] = Stack /\ ring.keys[i].name = Fresh[1]
                      \/ m >= a + 1
                    BY <3>3, <3>4, <5>1, <5>3, Zenon
                <5> QED BY <2>13, <2>20, <3>2, <3>6, <4>1, <5>4, Zenon
            <4> QED BY <4>2, <4>3
        <3>7. CASE q = d /\ n = Len(ring.keys) + 1
            <4>1. rings'[q].keys[n].subs = <<>>
                BY <2>2, <2>36, <3>2, <3>7
            <4> QED BY <4>1
        <3>8. q = d => n \in DOMAIN ring.keys \/ n = Len(ring.keys) + 1
            BY <2>6, <2>36, <3>2
        <3> QED BY <3>1, <3>5, <3>6, <3>7, <3>8
    <2>40. TmpLinked'
        <3> SUFFICES ASSUME NEW n \in DOMAIN h.keys, NEW m \in DOMAIN h.keys[n].subs, Ahead(n, m)'
                     PROVE  Within("tmp", h, h.keys[n].subs[m])
            BY <2>31, Zenon DEF TmpLinked
        <3>1. n \in DOMAIN tmp.keys /\ tmp.keys \in Seq(Keys) /\ h \in RingType /\ n \in Nat /\ o \in Nat
            BY <1>1, <1>5, <2>26, <2>37 DEF Good
        <3>2. n > o \/ (n = o /\ m >= a + 1)
            BY <1>0, <1>19, <2>31 DEF Ahead
        <3>3. ASSUME NEW f \in DOMAIN tmp.keys[n].subs, n > o \/ (n = o /\ f >= a)
              PROVE  Within("tmp", h, tmp.keys[n].subs[f])
            <4>1. Ahead(n, f)
                BY <1>0, <1>9, <1>10, <3>3 DEF Ahead
            <4>2. PICK y : y = tmp.keys[n].subs[f]
                OBVIOUS
            <4>3. Within("tmp", tmp, y)
                BY <1>0, <1>5, <3>1, <3>3, <4>1, <4>2, Zenon DEF Linked, TmpLinked
            <4>4. Within("tmp", h, y)
                BY <2>26, <3>1, <4>3, WithinLater
            <4> QED BY <4>2, <4>4
        <3>4. CASE n # o
            <4>1. h.keys[n] = tmp.keys[n]
                BY <2>37, <3>1, <3>4
            <4> QED BY <3>2, <3>3, <3>4, <4>1, Zenon
        <3>5. CASE n = o
            <4>1. m \in DOMAIN s /\ m >= a + 1 /\ tmp.keys[n].subs = s /\ h.keys[n].subs = s2
                BY <1>8, <1>11, <2>16, <2>21, <2>31, <3>1, <3>2, <3>5
            <4>2. s2[m] = s[m] /\ m >= a
                BY <2>16, <4>1
            <4> QED BY <3>3, <3>5, <4>1, <4>2
        <3> QED BY <3>4, <3>5
    <2>41. \A t \in DOMAIN h.keys : /\ t \in DOMAIN tmp.keys /\ h.keys[t].own = tmp.keys[t].own
                                    /\ h.keys[t].name = tmp.keys[t].name
        BY <1>11, <2>21, <2>31, <2>37, Zenon
    <2>42. TmpOwns' /\ TmpNames'
        <3>1. TmpOwns'
            <4>1. \A t \in DOMAIN h.keys : t \in DOMAIN tmp.keys /\ h.keys[t].own = t
                BY <1>1, <1>5, <2>41
            <4>2. \A t \in DOMAIN tmp.keys : t # 0
                BY <1>1, <1>5
            <4> QED BY <2>31, <4>1, <4>2, Zenon DEF TmpOwns
        <3>2. TmpNames'
            BY <1>0, <1>5, <2>31, <2>41 DEF Owners, TmpNames
        <3> QED BY <3>1, <3>2
    <2>43. RingsOwn' /\ InputNames'
        BY <1>0, <1>1, <1>19 DEF RingsOwn, InputNames
    <2>44. SharedRemoved'
        <3> SUFFICES ASSUME ~Twice(inp), NEW q \in Rings, NEW n \in DOMAIN rings'[q].keys, NEW t \in DOMAIN h.keys,
                            h.keys[t].own = rings'[q].keys[n].own
                     PROVE  \E f \in DOMAIN grips' : grips'[f] = h.keys[t].name
            BY <1>0, <2>31, Zenon DEF SharedRemoved
        <3>0. t \in DOMAIN tmp.keys /\ h.keys[t].own = tmp.keys[t].own /\ h.keys[t].name = tmp.keys[t].name
            BY <2>41
        <3>1. \A f \in DOMAIN grips : f \in DOMAIN grips' /\ grips'[f] = grips[f]
            BY <2>33
        <3>2. Len(grips) + 1 \in DOMAIN grips' /\ grips'[Len(grips) + 1] = k.name
            BY <2>33
        <3>3. \A l \in DOMAIN rings[q].keys : tmp.keys[t].own = rings[q].keys[l].own =>
                  \E f \in DOMAIN grips : grips[f] = tmp.keys[t].name
            BY <1>0, <1>5, <3>0 DEF Owners, SharedRemoved
        <3>4. CASE q # d
            <4>1. rings'[q] = rings[q]
                BY <2>28, <3>4
            <4> QED BY <3>0, <3>1, <3>3, <4>1, Zenon
        <3>5. CASE q = d /\ n \in DOMAIN ring.keys
            <4>1. rings'[q].keys[n].own = ring.keys[n].own
                BY <2>13, <2>20, <2>28, <2>36, <3>5
            <4> QED BY <1>4, <3>0, <3>1, <3>3, <3>5, <4>1, Zenon
        <3>6. CASE q = d /\ n = Len(ring.keys) + 1
            <4>1. rings'[q].keys[n] = k
                BY <2>28, <2>36, <3>6
            <4>2. t = p.idx
                BY <1>1, <1>5, <2>2, <3>0, <4>1
            <4> QED BY <2>2, <3>0, <3>2, <4>2, Zenon
        <3>7. q = d => n \in DOMAIN ring.keys \/ n = Len(ring.keys) + 1
            BY <2>6, <2>28, <2>36
        <3> QED BY <3>4, <3>5, <3>6, <3>7
    <2>45. OwnedOnce' /\ StaleOnlyAfterMove'
        BY <1>0, <1>19 DEF OwnedOnce, StaleOnlyAfterMove
    <2> QED BY <2>30, <2>34, <2>35, <2>38, <2>39, <2>40, <2>42, <2>43, <2>44, <2>45, Zenon DEF IInv, Linked, Owners
<1>20. ASSUME Live(p), NEW g0 \in rnp_key_store_add_key(ring, Deref(p)), g0.gen # ik.gen, Undefined,
              UNCHANGED <<rings, at, grips>>
       PROVE  IInv'
    <2>1. Deref(p) \in Keys
        BY <1>18, <1>20
    <2>2. Grown(ring, g0, Deref(p))
        BY <1>6, <1>20, <2>1, AddFacts, Zenon DEF Good
    <2>3. OutOfRoom(ring)
        BY <1>15, <1>20, <2>2, Zenon DEF Grown
    <2> QED BY <1>16, <1>17, <1>20, <2>3
<1>21. \/ (~Live(p) \/ OutOfRoom(ring)) /\ Undefined /\ UNCHANGED <<rings, at, grips>>
       \/ /\ Live(p)
          /\ \E g0 \in rnp_key_store_add_key(ring, Deref(p)) :
                \/ /\ g0.gen = ik.gen /\ rings' = FixedUp(d, g0, Deref(p).name) /\ at' = <<at[1], at[2] + 1>>
                   /\ grips' = Append(grips, Deref(p).name) /\ UNCHANGED pc
                \/ g0.gen # ik.gen /\ Undefined /\ UNCHANGED <<rings, at, grips>>
    BY <1>2, <1>4, <1>13, Zenon DEF ImportSubkey
<1> QED BY <1>16, <1>17, <1>19, <1>20, <1>21

\* One of the generated keys is added to its ring.
LEMMA AddGeneratedStep == IInv /\ AddGenerated => IInv'
<1> SUFFICES ASSUME IInv, AddGenerated PROVE IInv'
    OBVIOUS
<1>0. /\ TypeOK /\ AttributesInStep /\ Control /\ Linked /\ Owners /\ OwnedOnce
      /\ pc = "generate" /\ pc # "undefined" /\ pc # "sub" /\ pc # "load" /\ at[1] \in 1 .. 4
      /\ UNCHANGED <<fmt, file, op, in, cb, errors, loaded, ik, grips, img, result, counts, inp, had, torn, shared>>
    BY DEF IInv, AddGenerated, Control
<1>1. PICK d \in Rings : d = IF at[1] <= 2 THEN "sec" ELSE "pub"
    BY DEF Rings
<1>2. d \in AllRings /\ d # "tmp" /\ "tmp" \in AllRings /\ d \in DOMAIN rings
    BY <1>0 DEF Rings, AllRings, TypeOK
<1>3. PICK ring \in RingType : ring = rings[d]
    BY <1>0, <1>2 DEF TypeOK
<1>4. Good(ring)
    BY <1>0, <1>2, <1>3, Zenon DEF Good, TypeOK, AttributesInStep, Linked
<1>5. PICK o \in {1, 2} : o = 2 - (at[1] % 2)
    BY <1>0
<1>6. PICK sec \in BOOLEAN : sec = (d = "sec")
    OBVIOUS
<1>7. PICK k : k = Generated(o, sec)
    OBVIOUS
<1>8. /\ k \in Keys /\ InStep(k) /\ k.own = 0 /\ k.name = Fresh[o] /\ k.subs = IF o = 1 THEN <<Stack>> ELSE <<>>
    BY <1>7, GeneratedFacts, Zenon
<1>9. IsSub(k.name) => k.subs = <<>>
    BY <1>8, KeyStoreAssumption DEF IsSub
<1>10. ASSUME OutOfRoom(ring), Undefined, UNCHANGED <<rings, at, to>> PROVE IInv'
    <2>1. Cause
        BY <1>2, <1>3, <1>10, Zenon DEF Cause
    <2> QED BY <1>0, <1>10, <2>1, Fails DEF others
<1>11. ASSUME NEW g \in rnp_key_store_add_key(ring, k), rings' = [rings EXCEPT ![d] = g], at' = <<at[1] + 1, 1>>,
              IF at[1] = 4 THEN pc' = "save" /\ to' = "sec" ELSE UNCHANGED <<pc, to>>
       PROVE  IInv'
    <2>1. Grown(ring, g, k)
        BY <1>4, <1>8, <1>11, AddFacts, Zenon DEF Good
    <2>2. Good(g) /\ Later(ring, g)
        BY <1>4, <1>8, <1>9, <2>1, GrownGood, Zenon
    <2>3. /\ rings' \in [AllRings -> RingType] /\ rings'[d] = g
          /\ \A q \in AllRings : q # d => rings'[q] = rings[q]
          /\ \A q \in AllRings : Len(rings'[q].keys) <= rings'[q].vsize
          /\ AttributesInStep'
          /\ \A q \in AllRings : Bare(rings'[q])
        BY <1>0, <1>2, <1>11, <2>2, ArrayStep
    <2>4. /\ g \in RingType /\ DOMAIN g.keys = 1 .. Len(ring.keys) + 1
          /\ \A n \in 1 .. Len(ring.keys) : g.keys[n] = ring.keys[n]
          /\ g.keys[Len(ring.keys) + 1] = k
        BY <2>1, Zenon DEF Grown
    <2>5. DOMAIN ring.keys = 1 .. Len(ring.keys) /\ Len(ring.keys) \in Nat
        BY DEF RingType
    <2>6. Tmp' = Tmp
        BY <1>2, <2>3 DEF Tmp
    <2>7. \A n \in DOMAIN g.keys : (n \in DOMAIN ring.keys /\ g.keys[n] = ring.keys[n]) \/ g.keys[n] = k
        BY <2>4, <2>5
    <2>8. /\ pc' \in {"generate", "save"} /\ (pc' = "generate" => at'[1] \in 1 .. 4) /\ at' \in Nat \X Nat
          /\ to' \in AllRings /\ (pc' = "save" => to' = "sec")
        <3>1. at'[1] = at[1] + 1 /\ at' \in Nat \X Nat
            BY <1>0, <1>11
        <3>2. CASE at[1] = 4
            BY <1>11, <3>1, <3>2 DEF AllRings, Rings
        <3>3. CASE at[1] # 4
            BY <1>0, <1>11, <3>1, <3>3 DEF TypeOK
        <3> QED BY <3>2, <3>3
    <2>9. TypeOK'
        BY <1>0, <2>3, <2>8 DEF TypeOK
    <2>10. Control'
        BY <1>0, <1>2, <2>3, <2>8 DEF Control, Rings
    <2>11. Loading' /\ Imported' /\ TmpLinked'
        BY <2>8 DEF Loading, Imported, TmpLinked, Ahead
    <2>12. RingsLinked'
        <3> SUFFICES ASSUME NEW q \in Rings, NEW n \in DOMAIN rings'[q].keys, NEW m \in DOMAIN rings'[q].keys[n].subs
                     PROVE  \/ Within(q, rings'[q], rings'[q].keys[n].subs[m])
                            \/ rings'[q].keys[n].subs[m] = Stack /\ rings'[q].keys[n].name = Fresh[1]
            BY Zenon DEF RingsLinked
        <3>1. CASE q # d
            <4>1. rings'[q] = rings[q]
                BY <2>3, <3>1 DEF AllRings
            <4> QED BY <1>0, <4>1, Zenon DEF Linked, RingsLinked
        <3>2. CASE q = d /\ n \in DOMAIN ring.keys /\ g.keys[n] = ring.keys[n]
            <4>1. rings'[q] = g
                BY <2>3, <3>2
            <4>2. \/ Within(q, ring, ring.keys[n].subs[m])
                  \/ ring.keys[n].subs[m] = Stack /\ ring.keys[n].name = Fresh[1]
                BY <1>0, <1>3, <3>2, <4>1, Zenon DEF Linked, RingsLinked
            <4>3. PICK p : p = ring.keys[n].subs[m]
                OBVIOUS
            <4>4. Within(q, ring, p) => Within(q, g, p)
                BY <2>2, <2>4, WithinLater
            <4> QED BY <3>2, <4>1, <4>2, <4>3, <4>4
        <3>3. CASE q = d /\ g.keys[n] = k
            <4>1. rings'[q].keys[n] = k /\ m \in DOMAIN k.subs
                BY <2>3, <3>3
            <4>2. o = 1 /\ k.subs[m] = Stack /\ k.name = Fresh[1]
                BY <1>8, <4>1
            <4> QED BY <4>1, <4>2
        <3> QED BY <2>3, <2>7, <3>1, <3>2, <3>3
    <2>13. \A q \in Rings : \A n \in DOMAIN rings'[q].keys :
              \/ rings'[q].keys[n].own = 0
              \/ n \in DOMAIN rings[q].keys /\ rings'[q].keys[n] = rings[q].keys[n]
        <3> SUFFICES ASSUME NEW q \in Rings, NEW n \in DOMAIN rings'[q].keys
                     PROVE  \/ rings'[q].keys[n].own = 0
                            \/ n \in DOMAIN rings[q].keys /\ rings'[q].keys[n] = rings[q].keys[n]
            BY Zenon
        <3>1. CASE q # d
            <4>1. rings'[q] = rings[q]
                BY <2>3, <3>1 DEF AllRings
            <4> QED BY <4>1
        <3>2. CASE q = d
            BY <1>3, <1>8, <2>3, <2>7, <3>2, Zenon
        <3> QED BY <3>1, <3>2
    <2>14. TmpOwns'
        BY <1>0, <2>6, <2>8 DEF Owners, TmpOwns
    <2>15. TmpNames' /\ InputNames'
        BY <1>0, <2>6, <2>8 DEF Owners, TmpNames, InputNames
    <2>16. RingsOwn'
        BY <1>0, <2>8, <2>13 DEF Owners, RingsOwn
    <2>17. SharedRemoved'
        <3>1. \A t \in DOMAIN Tmp.keys : Tmp.keys[t].own # 0
            BY <1>0, Zenon DEF Owners, TmpOwns
        <3> SUFFICES ASSUME ~Twice(inp), NEW q \in Rings, NEW n \in DOMAIN rings'[q].keys, NEW t \in DOMAIN Tmp.keys,
                            Tmp.keys[t].own = rings'[q].keys[n].own
                     PROVE  \E h \in DOMAIN grips : grips[h] = Tmp.keys[t].name
            BY <1>0, <2>6, Zenon DEF SharedRemoved
        <3>2. n \in DOMAIN rings[q].keys /\ Tmp.keys[t].own = rings[q].keys[n].own
            BY <2>13, <3>1
        <3> QED BY <1>0, <3>2, Zenon DEF Owners, SharedRemoved
    <2>18. OwnedOnce' /\ StaleOnlyAfterMove'
        BY <1>0, <2>8 DEF OwnedOnce, StaleOnlyAfterMove
    <2> QED BY <2>3, <2>9, <2>10, <2>11, <2>12, <2>14, <2>15, <2>16, <2>17, <2>18, Zenon DEF IInv, Linked, Owners
<1>12. \/ /\ \E g \in rnp_key_store_add_key(ring, k) : rings' = [rings EXCEPT ![d] = g]
          /\ at' = <<at[1] + 1, 1>>
          /\ IF at[1] = 4 THEN pc' = "save" /\ to' = "sec" ELSE UNCHANGED <<pc, to>>
       \/ OutOfRoom(ring) /\ Undefined /\ UNCHANGED <<rings, at, to>>
    BY <1>1, <1>3, <1>5, <1>6, <1>7, Zenon DEF AddGenerated
<1> QED BY <1>10, <1>11, <1>12

-----------------------------------------------------------------------------
(* The invariant. *)

\* The ring files and the rings when the first process starts.
LEMMA InitStep == Init => IInv
<1> SUFFICES ASSUME Init PROVE IInv
    OBVIOUS
<1>0. /\ fmt \in Formats /\ rings = [r \in AllRings |-> EmptyRing]
      /\ pc = "off" /\ op = "load" /\ in = <<>> /\ to = "pub" /\ cb = NoKey /\ errors = FALSE
      /\ loaded = {} /\ at = <<0, 0>> /\ ik = NoPtr /\ grips = <<>> /\ img = <<>> /\ result = FALSE
      /\ inp = <<>> /\ torn = FALSE /\ shared = FALSE
    BY Zenon DEF Init, AllRings
<1>1. PICK p \in Files : \E s \in Files : file = [r \in Rings |->
                  LET c == IF r = "pub" THEN p ELSE s
                  IN  IF c = <<>> THEN NoFile
                      ELSE [there |-> TRUE, blobs |-> Contents(fmt, c, r = "sec")]]
    BY Zenon DEF Init
<1>2. PICK s \in Files : file = [r \in Rings |->
                  LET c == IF r = "pub" THEN p ELSE s
                  IN  IF c = <<>> THEN NoFile
                      ELSE [there |-> TRUE, blobs |-> Contents(fmt, c, r = "sec")]]
    BY <1>1, Zenon
<1>3. \A c \in Files, b \in BOOLEAN : Contents(fmt, c, b) \in Blobs
    BY <1>0, FilesAssumption, Zenon
<1>4. <<>> \in Blobs
    BY DEF Blobs
<1>5. file \in [Rings -> [there : BOOLEAN, blobs : Blobs]]
    <2>1. NoFile \in [there : BOOLEAN, blobs : Blobs]
        BY <1>4 DEF NoFile
    <2>2. ASSUME NEW c \in Files, NEW r \in Rings
          PROVE  [there |-> TRUE, blobs |-> Contents(fmt, c, r = "sec")] \in [there : BOOLEAN, blobs : Blobs]
        <3>1. (r = "sec") \in BOOLEAN
            OBVIOUS
        <3>2. Contents(fmt, c, r = "sec") \in Blobs
            BY <1>3, <3>1
        <3> QED BY <3>2
    <2> QED BY <1>2, <2>1, <2>2
<1>6. EmptyRing \in RingType /\ Len(EmptyRing.keys) <= EmptyRing.vsize /\ DOMAIN EmptyRing.keys = {} /\ EmptyRing.keys = <<>>
    BY DEF EmptyRing, RingType
<1>7. rings \in [AllRings -> RingType] /\ \A r \in AllRings : rings[r] = EmptyRing
    BY <1>0, <1>6
<1>8. TypeOK
    <2>1. NoPtr \in Pointers /\ cb \in [key : BOOLEAN, last : Pointers] /\ to \in AllRings
        BY <1>0 DEF NoPtr, Pointers, NoKey, AllRings, Rings
    <2>2. \A r \in AllRings : Len(rings[r].keys) <= rings[r].vsize
        BY <1>6, <1>7
    <2>3. {in, img, inp} \subseteq Blobs /\ at \in Nat \X Nat /\ grips \in Seq(Labels)
        BY <1>0, <1>4
    <2> QED BY <1>0, <1>5, <1>7, <2>1, <2>2, <2>3 DEF TypeOK
<1>9. Tmp = EmptyRing /\ \A r \in Rings : rings[r] = EmptyRing
    BY <1>7 DEF Tmp, AllRings
<1>10. AttributesInStep /\ Linked
    BY <1>6, <1>7, <1>9 DEF AttributesInStep, Linked, Bare, RingsLinked, TmpLinked
<1>11. Control /\ Loading /\ Imported /\ OwnedOnce /\ StaleOnlyAfterMove
    BY <1>0, <1>6, <1>9 DEF Control, Loading, Imported, OwnedOnce, StaleOnlyAfterMove, Tmp
<1>12. Owners
    BY <1>0, <1>6, <1>9 DEF Owners, TmpOwns, RingsOwn, SharedRemoved, TmpNames, InputNames
<1> QED BY <1>8, <1>10, <1>11, <1>12, Zenon DEF IInv

\* Every step keeps the invariant.
LEMMA NextStep == IInv /\ [Next]_vars => IInv'
<1> SUFFICES ASSUME IInv, [Next]_vars PROVE IInv'
    OBVIOUS
<1>1. CASE Start
    BY <1>1, StartStep
<1>2. CASE cb_keyring_parse
    BY <1>2, KeyStep
<1>3. CASE OtherPacket
    BY <1>3, OtherStep
<1>4. CASE EndOfBlob
    BY <1>4, EndOfBlobStep
<1>5. CASE rnp_import_key
    BY <1>5, ImportStep
<1>6. CASE ImportKey
    BY <1>6, ImportKeyStep
<1>7. CASE ImportSubkey
    BY <1>7, ImportSubkeyStep
<1>8. CASE SubkeysDone
    BY <1>8, SubkeysDoneStep
<1>9. CASE ImportDone
    BY <1>9, ImportDoneStep
<1>10. CASE RemoveImported
    BY <1>10, RemoveStep
<1>11. CASE rnp_key_store_free
    BY <1>11, FreeStep
<1>12. CASE rnp_generate_key
    BY <1>12, GenerateStep
<1>13. CASE AddGenerated
    BY <1>13, AddGeneratedStep
<1>14. CASE Save
    BY <1>14, SaveStep
<1>15. CASE pgp_mem_writefile
    BY <1>15, WriteStep
<1>16. CASE find_suitable_subkey
    BY <1>16, FindStep
<1>17. CASE Exit \/ Crash
    BY <1>17, StopStep DEF Exit, Crash
<1>18. CASE Over \/ UNCHANGED vars
    BY <1>18, StutterStep DEF Over
<1> QED BY <1>1, <1>2, <1>3, <1>4, <1>5, <1>6, <1>7, <1>8, <1>9, <1>10, <1>11, <1>12, <1>13, <1>14, <1>15,
           <1>16, <1>17, <1>18 DEF Next

\* IInv holds in every state, whatever the files hold, however often realloc moves
\* an array, and however many processes and operations there are.
THEOREM Invariant == Spec => []IInv
BY InitStep, NextStep, PTL DEF Spec

\* The state has its type: no array has more keys than it has room for, and no
\* index of rnp_import_key or of the loader leaves its range.
THEOREM TypeCorrect == Spec => []TypeOK
BY Invariant, PTL DEF IInv

\* Data of imported keys are freed once (rnp_import_key, rnp_key_store_free), a
\* stale pointer is followed only in the cases that StaleOnlyAfterMove names, and
\* the attributes of a key agree with its packets (cb_keyring_parse).
THEOREM RingsAreSound == Spec => []RingsSound
<1>1. IInv => RingsSound
    BY Zenon DEF IInv, RingsSound
<1> QED BY <1>1, Invariant, PTL

-----------------------------------------------------------------------------
(* No save loses a key. *)

\* The array g has the keys of ring, with their pointers, but for those into the
\* temporary store.
Preserves(ring, g) ==
    \A n \in DOMAIN ring.keys :
        /\ n \in DOMAIN g.keys /\ g.keys[n].name = ring.keys[n].name
        /\ \A m \in DOMAIN ring.keys[n].subs :
              \/ ring.keys[n].subs[m].ring = "tmp"
              \/ m \in DOMAIN g.keys[n].subs /\ g.keys[n].subs[m] = ring.keys[n].subs[m]

\* What a save writes of a ring it writes of a later one.
LEMMA PreservesFacts ==
    ASSUME NEW ring, NEW g, Preserves(ring, g), NEW r \in Rings, NEW f, NEW name, Reaches(f, r, ring, name)
    PROVE  Reaches(f, r, g, name)
<1>1. PICK n \in DOMAIN ring.keys :
        \/ ring.keys[n].name = name /\ (f = "GPG" \/ ~IsSub(name))
        \/ /\ f = "KBX"
           /\ \E m \in DOMAIN ring.keys[n].subs :
                 LET p == ring.keys[n].subs[m] IN
                 \/ p.ring = r /\ p.idx \in DOMAIN ring.keys /\ ring.keys[p.idx].name = name
                 \/ p = Stack /\ name = Fresh[2]
    BY Zenon DEF Reaches
<1>2. n \in DOMAIN g.keys /\ g.keys[n].name = ring.keys[n].name
    BY Zenon DEF Preserves
<1>3. CASE ring.keys[n].name = name /\ (f = "GPG" \/ ~IsSub(name))
    BY <1>2, <1>3, Zenon DEF Reaches
<1>4. CASE f = "KBX" /\ ~(ring.keys[n].name = name /\ (f = "GPG" \/ ~IsSub(name)))
    <2>1. PICK m \in DOMAIN ring.keys[n].subs :
             \/ /\ ring.keys[n].subs[m].ring = r /\ ring.keys[n].subs[m].idx \in DOMAIN ring.keys
                /\ ring.keys[ring.keys[n].subs[m].idx].name = name
             \/ ring.keys[n].subs[m] = Stack /\ name = Fresh[2]
        BY <1>1, <1>4, Zenon
    <2>2. PICK p : p = ring.keys[n].subs[m]
        OBVIOUS
    <2>3. \/ p.ring = r /\ p.idx \in DOMAIN ring.keys /\ ring.keys[p.idx].name = name
          \/ p = Stack /\ name = Fresh[2]
        BY <2>1, <2>2, Zenon
    <2>4. p.ring # "tmp"
        BY <2>3 DEF Rings, Stack
    <2>5. m \in DOMAIN g.keys[n].subs /\ g.keys[n].subs[m] = p
        BY <2>2, <2>4, Zenon DEF Preserves
    <2>6. \/ p.ring = r /\ p.idx \in DOMAIN g.keys /\ g.keys[p.idx].name = name
          \/ p = Stack /\ name = Fresh[2]
        BY <2>3, Zenon DEF Preserves
    <2> QED BY <1>2, <1>4, <2>5, <2>6, Zenon DEF Reaches
<1> QED BY <1>1, <1>3, <1>4

\* A key was added.
LEMMA GrownPreserves ==
    ASSUME NEW ring \in RingType, NEW g, NEW key, Grown(ring, g, key)
    PROVE  Preserves(ring, g)
<1>1. DOMAIN ring.keys = 1 .. Len(ring.keys)
    BY DEF RingType
<1>2. \A n \in DOMAIN ring.keys : g.keys[n] = ring.keys[n]
    BY <1>1, Zenon DEF Grown
<1>3. \A n \in DOMAIN ring.keys : n \in DOMAIN g.keys
    <2>1. DOMAIN g.keys = 1 .. Len(ring.keys) + 1
        BY Zenon DEF Grown
    <2>2. Len(ring.keys) \in Nat
        BY DEF RingType
    <2> QED BY <1>1, <2>1, <2>2
<1> QED BY <1>2, <1>3, Zenon DEF Preserves

\* The files are what they were, and the rings that were loaded have their keys.
LEMMA LoadedFrame ==
    ASSUME TypeOK, Kept, pc # "undefined", UNCHANGED <<fmt, file>>, loaded' \subseteq loaded,
           \A r \in Rings : Preserves(rings[r], rings'[r])
    PROVE  LoadedKept' /\ FilesLed'
<1>1. LoadedKept /\ FilesLed
    BY Zenon DEF Kept
<1>2. LoadedKept'
    <2> SUFFICES ASSUME NEW r \in loaded', NEW name \in Names(file[r].blobs)
                 PROVE  Reaches(fmt, r, rings'[r], name)
        <3>1. file' = file /\ fmt' = fmt
            OBVIOUS
        <3> QED BY <3>1 DEF LoadedKept
    <2>1. r \in loaded /\ r \in Rings
        BY DEF TypeOK
    <2>2. Preserves(rings[r], rings'[r]) /\ Reaches(fmt, r, rings[r], name)
        BY <1>1, <2>1 DEF LoadedKept
    <2>3. PICK ring : ring = rings[r]
        OBVIOUS
    <2>4. PICK g : g = rings'[r]
        OBVIOUS
    <2>5. PICK f : f = fmt
        OBVIOUS
    <2>6. Reaches(f, r, g, name)
        BY <2>1, <2>2, <2>3, <2>4, <2>5, PreservesFacts
    <2> QED BY <2>4, <2>5, <2>6
<1>3. FilesLed'
    BY <1>1, Zenon DEF FilesLed
<1> QED BY <1>2, <1>3

\* Steps that change no file, load no ring and write no image.
LEMMA KeptFrame ==
    ASSUME TypeOK, Kept, pc # "undefined", UNCHANGED <<fmt, file>>, loaded' \subseteq loaded,
           pc' # "temp", pc' = "load" => to' \notin Rings \/ errors',
           \A r \in Rings : Preserves(rings[r], rings'[r])
    PROVE  Kept'
<1>1. LoadedKept' /\ FilesLed'
    BY LoadedFrame
<1>2. InputKept' /\ ImageKept'
    BY DEF InputKept, ImageKept
<1> QED BY <1>1, <1>2, Zenon DEF Kept

\* Nothing was changed.
LEMMA SamePreserves == ASSUME UNCHANGED rings PROVE \A r \in Rings : Preserves(rings[r], rings'[r])
BY Zenon DEF Preserves

\* One ring was changed.
LEMMA OnePreserves ==
    ASSUME TypeOK, NEW d \in AllRings, NEW g, rings' = [rings EXCEPT ![d] = g], d = "tmp" \/ Preserves(rings[d], g)
    PROVE  \A r \in Rings : Preserves(rings[r], rings'[r])
<1> SUFFICES ASSUME NEW r \in Rings PROVE Preserves(rings[r], rings'[r])
    OBVIOUS
<1>1. CASE r = d
    <2>1. rings'[r] = g /\ d # "tmp"
        BY <1>1 DEF TypeOK, Rings
    <2> QED BY <1>1, <2>1
<1>2. CASE r # d
    <2>1. rings'[r] = rings[r]
        BY <1>2 DEF TypeOK, AllRings
    <2> QED BY <2>1, Zenon DEF Preserves
<1> QED BY <1>1, <1>2

\* Steps with the rings left alone.
LEMMA KeptQuiet ==
    ASSUME IInv, Kept, rnp_import_key \/ SubkeysDone \/ ImportDone \/ rnp_generate_key
    PROVE  Kept'
<1>1. /\ UNCHANGED <<rings, fmt, file, loaded>> /\ pc # "undefined" /\ pc' # "temp"
      /\ pc' = "load" => to' = "tmp"
    <2>1. CASE rnp_import_key
        BY <2>1, Zenon DEF rnp_import_key, Begins, Open
    <2>2. CASE SubkeysDone
        BY <2>2, Zenon DEF SubkeysDone, still
    <2>3. CASE ImportDone
        BY <2>3, Zenon DEF ImportDone
    <2>4. CASE rnp_generate_key
        BY <2>4, Zenon DEF rnp_generate_key, Begins
    <2> QED BY <2>1, <2>2, <2>3, <2>4
<1>2. TypeOK /\ \A r \in Rings : Preserves(rings[r], rings'[r])
    BY <1>1, SamePreserves, Zenon DEF IInv
<1>3. pc' = "load" => to' \notin Rings
    BY <1>1 DEF Rings
<1> QED BY <1>1, <1>2, <1>3, KeptFrame

\* A key is added to the ring, and no other is moved.
LEMMA KeptImportKey == ASSUME IInv, Kept, ImportKey PROVE Kept'
<1>0. /\ TypeOK /\ AttributesInStep /\ Linked
      /\ pc = "import" /\ at[1] <= Len(Tmp.keys) /\ UNCHANGED <<fmt, file, loaded>>
    BY Zenon DEF IInv, ImportKey, still
<1>1. PICK d \in Rings : d = Dest
    BY DEF Rings, Dest
<1>2. Importing \in Keys /\ d \in AllRings
    BY <1>0, <1>1, ImportingFacts DEF AllRings
<1>3. PICK k \in Keys : k = Importing
    BY <1>2
<1>4. PICK ring \in RingType : ring = rings[d] /\ Len(ring.keys) <= ring.vsize
    BY <1>0, <1>2 DEF TypeOK
<1>5. \/ rings' = rings /\ pc' = pc
      \/ pc' = "undefined"
      \/ pc' = "sub" /\ \E g \in rnp_key_store_add_key(ring, k) : rings' = [rings EXCEPT ![d] = g]
    BY <1>1, <1>3, <1>4, Zenon DEF ImportKey, Undefined
<1>6. CASE rings' = rings /\ pc' = pc
    BY <1>0, <1>6, SamePreserves, KeptFrame
<1>7. CASE pc' = "undefined"
    BY <1>7, Zenon DEF Kept
<1>8. CASE pc' = "sub" /\ \E g \in rnp_key_store_add_key(ring, k) : rings' = [rings EXCEPT ![d] = g]
    <2>1. PICK g \in rnp_key_store_add_key(ring, k) : rings' = [rings EXCEPT ![d] = g]
        BY <1>8
    <2>2. Grown(ring, g, k)
        BY <1>4, AddFacts, Zenon
    <2>3. Preserves(ring, g)
        BY <2>2, GrownPreserves
    <2>4. \A r \in Rings : Preserves(rings[r], rings'[r])
        BY <1>0, <1>2, <1>4, <2>1, <2>3, OnePreserves
    <2> QED BY <1>0, <1>8, <2>4, KeptFrame
<1> QED BY <1>5, <1>6, <1>7, <1>8

\* A subkey is added, and a pointer into the temporary store is replaced: the keys and
\* the pointers of the rings stay, the subkey is reached from its primary key, and of
\* the temporary store only that pointer changes.
LEMMA SubkeyFacts ==
    ASSUME IInv, ImportSubkey, pc' # "undefined"
    PROVE  /\ \A r \in Rings : Preserves(rings[r], rings'[r])
           /\ \E name : /\ IsSub(name) /\ Tmp.keys[Importing.subs[at[2]].idx].name = name
                        /\ Reaches("KBX", Dest, rings'[Dest], name)
                        /\ \A r \in Rings : \A n \in DOMAIN rings'[r].keys :
                              \/ rings'[r].keys[n].name = name
                              \/ \E l \in DOMAIN rings[r].keys : rings[r].keys[l].name = rings'[r].keys[n].name
           /\ DOMAIN Tmp'.keys = DOMAIN Tmp.keys
           /\ \A t \in DOMAIN Tmp.keys :
                 /\ SameKey(Tmp'.keys[t], Tmp.keys[t])
                 /\ DOMAIN Tmp'.keys[t].subs = DOMAIN Tmp.keys[t].subs
                 /\ \A m \in DOMAIN Tmp.keys[t].subs :
                       t # at[1] \/ m # at[2] => Tmp'.keys[t].subs[m] = Tmp.keys[t].subs[m]
<1>0. /\ TypeOK /\ AttributesInStep /\ Linked /\ Imported
      /\ pc = "sub" /\ at[2] <= Len(Importing.subs) /\ UNCHANGED <<fmt, file, loaded>>
    BY Zenon DEF IInv, ImportSubkey, still
<1>1. PICK d \in Rings : d = Dest
    BY DEF Rings, Dest
<1>2. /\ Importing \in Keys /\ Tmp \in RingType /\ at[1] \in DOMAIN Tmp.keys /\ at[2] \in Nat /\ at[2] >= 1
    <2>1. Tmp.keys \in Seq(Keys) /\ at[1] \in DOMAIN Tmp.keys
        BY <1>0 DEF TypeOK, RingType, AllRings, Tmp, Imported
    <2>2. at[1] <= Len(Tmp.keys)
        BY <2>1
    <2> QED BY <1>0, <2>2, ImportingFacts
<1>3. d \in AllRings /\ d # "tmp" /\ "tmp" \in AllRings
    BY DEF AllRings, Rings
<1>4. PICK ring \in RingType : ring = rings[d] /\ Len(ring.keys) <= ring.vsize
    BY <1>0, <1>3 DEF TypeOK
<1>5. PICK s \in Seq(Pointers) : s = Importing.subs
    BY <1>2 DEF Keys
<1>6. PICK a \in DOMAIN s : a = at[2]
    BY <1>0, <1>2, <1>5
<1>7. PICK p \in Pointers : p = s[a]
    OBVIOUS
<1>8. Within("tmp", Tmp, p)
    <2>1. Ahead(at[1], at[2])
        BY <1>0, <1>2 DEF Ahead, TypeOK
    <2> QED BY <1>0, <1>2, <1>5, <1>6, <1>7, <2>1, Zenon DEF Linked, TmpLinked, Importing
<1>9. p.ring = "tmp"
    BY <1>8, Zenon DEF Within
<1>10. PICK i \in DOMAIN ring.keys : i = ik.idx /\ ring.keys[i].subs = s
    BY <1>0, <1>1, <1>4, <1>5, Zenon DEF Imported
<1>11. \/ pc' = "undefined"
       \/ /\ pc' = pc /\ Live(p)
          /\ \E g0 \in rnp_key_store_add_key(ring, Deref(p)) : rings' = FixedUp(d, g0, Deref(p).name)
    BY <1>1, <1>4, <1>5, <1>6, <1>7, Zenon DEF ImportSubkey, Undefined
<1>13. CASE /\ pc' = pc /\ Live(p)
            /\ \E g0 \in rnp_key_store_add_key(ring, Deref(p)) : rings' = FixedUp(d, g0, Deref(p).name)
    <2>1. PICK g0 \in rnp_key_store_add_key(ring, Deref(p)) : rings' = FixedUp(d, g0, Deref(p).name)
        BY <1>13
    <2>2. Deref(p) \in Keys
        BY <1>0, <1>13, DerefTyped
    <2>3. Grown(ring, g0, Deref(p))
        BY <1>4, <2>2, AddFacts, Zenon
    <2>4. /\ g0 \in RingType /\ DOMAIN g0.keys = 1 .. Len(ring.keys) + 1
          /\ \A n \in 1 .. Len(ring.keys) : g0.keys[n] = ring.keys[n]
        BY <2>3, Zenon DEF Grown
    <2>5. \A n \in DOMAIN ring.keys : n \in DOMAIN g0.keys /\ g0.keys[n] = ring.keys[n]
        <3>1. DOMAIN ring.keys = 1 .. Len(ring.keys) /\ Len(ring.keys) \in Nat
            BY DEF RingType
        <3> QED BY <2>4, <3>1
    <2>6. PICK x : x = Ref(d, g0, rnp_key_store_get_key_by_grip(g0, Deref(p).name))
        OBVIOUS
    <2>7. PICK g : g = [g0 EXCEPT !.keys[i].subs[a] = x]
        OBVIOUS
    <2>8. rings'[d] = g /\ \A r \in Rings : r # d => rings'[r] = rings[r]
        <3>1. rings' = [rings EXCEPT ![d] = g, !["tmp"].keys[at[1]].subs[at[2]] = x]
            BY <1>6, <1>10, <2>1, <2>6, <2>7 DEF FixedUp
        <3>2. \A r \in Rings : r \in AllRings /\ r # "tmp"
            BY DEF AllRings, Rings
        <3> QED BY <1>0, <1>3, <3>1, <3>2 DEF TypeOK
    <2>9. PICK b \in Keys : b = g0.keys[i]
        BY <2>4, <2>5 DEF RingType
    <2>10. /\ g.keys[i].name = b.name /\ g.keys[i].subs = [b.subs EXCEPT ![a] = x] /\ DOMAIN g.keys = DOMAIN g0.keys
           /\ \A n \in DOMAIN g0.keys : n # i => g.keys[n] = g0.keys[n]
        <3>1. i \in DOMAIN g0.keys
            BY <2>5
        <3>2. g = [g0 EXCEPT !.keys[i] = [b EXCEPT !.subs = [b.subs EXCEPT ![a] = x]]]
            BY <2>4, <2>7, <2>9, <3>1, NestedSub
        <3>3. PICK k : k = [b EXCEPT !.subs = [b.subs EXCEPT ![a] = x]]
            OBVIOUS
        <3>4. k.name = b.name /\ k.subs = [b.subs EXCEPT ![a] = x]
            BY <3>3 DEF Keys
        <3>5. g.keys = [g0.keys EXCEPT ![i] = k]
            BY <2>4, <3>2, <3>3 DEF RingType
        <3> QED BY <3>1, <3>4, <3>5
    <2>11. Preserves(ring, g)
        <3> SUFFICES ASSUME NEW n \in DOMAIN ring.keys
                     PROVE  /\ n \in DOMAIN g.keys /\ g.keys[n].name = ring.keys[n].name
                            /\ \A m \in DOMAIN ring.keys[n].subs :
                                  \/ ring.keys[n].subs[m].ring = "tmp"
                                  \/ m \in DOMAIN g.keys[n].subs /\ g.keys[n].subs[m] = ring.keys[n].subs[m]
            BY Zenon DEF Preserves
        <3>1. CASE n # i
            BY <2>5, <2>10, <3>1, Zenon
        <3>2. CASE n = i
            <4>1. b = ring.keys[i] /\ b.subs = s
                BY <1>10, <2>5, <2>9
            <4>2. PICK t : t = [s EXCEPT ![a] = x]
                OBVIOUS
            <4>3. DOMAIN t = DOMAIN s /\ \A m \in DOMAIN s : m # a => t[m] = s[m]
                BY <4>2
            <4>4. g.keys[i].subs = t /\ g.keys[i].name = ring.keys[i].name /\ i \in DOMAIN g.keys
                BY <2>5, <2>10, <4>1, <4>2
            <4> QED BY <1>7, <1>9, <1>10, <3>2, <4>3, <4>4, Zenon
        <3> QED BY <3>1, <3>2
    <2>12. \A r \in Rings : Preserves(rings[r], rings'[r])
        <3> SUFFICES ASSUME NEW r \in Rings PROVE Preserves(rings[r], rings'[r])
            OBVIOUS
        <3>1. CASE r = d
            BY <1>4, <2>8, <2>11, <3>1
        <3>2. CASE r # d
            <4>1. rings'[r] = rings[r]
                BY <2>8, <3>2
            <4> QED BY <4>1, Zenon DEF Preserves
        <3> QED BY <3>1, <3>2
    <2>13. PICK k \in Keys : k = Deref(p)
        BY <2>2
    <2>14. IsSub(k.name) /\ Tmp.keys[p.idx] = k
        BY <1>8, <1>9, <2>13 DEF Within, Deref, Tmp
    <2>15. PICK j : j = rnp_key_store_get_key_by_grip(g0, k.name)
        OBVIOUS
    <2>16. j \in DOMAIN g0.keys /\ g0.keys[j].name = k.name
        <3>1. Len(ring.keys) + 1 \in DOMAIN g0.keys /\ g0.keys[Len(ring.keys) + 1] = k
            <4>1. Len(ring.keys) \in Nat
                BY DEF RingType
            <4>2. g0.keys[Len(ring.keys) + 1] = k
                BY <2>3, <2>13, Zenon DEF Grown
            <4> QED BY <2>4, <4>1, <4>2
        <3>2. /\ j = 0 => \A m \in DOMAIN g0.keys : g0.keys[m].name # k.name
              /\ j # 0 => j \in DOMAIN g0.keys /\ g0.keys[j].name = k.name
            BY <2>4, <2>15, GripFacts
        <3> QED BY <3>1, <3>2
    <2>17. x.ring = d /\ x.idx = j
        BY <2>6, <2>13, <2>15 DEF Ref
    <2>18. \A n \in DOMAIN g0.keys : n \in DOMAIN g.keys /\ g.keys[n].name = g0.keys[n].name
        BY <2>9, <2>10
    <2>19. Reaches("KBX", d, g, k.name)
        <3>1. i \in DOMAIN g.keys /\ a \in DOMAIN g.keys[i].subs /\ g.keys[i].subs[a] = x
            <4>1. b.subs = s /\ i \in DOMAIN g0.keys
                BY <1>10, <2>5, <2>9
            <4> QED BY <2>10, <4>1
        <3>2. j \in DOMAIN g.keys /\ g.keys[j].name = k.name
            BY <2>16, <2>18
        <3> QED BY <2>17, <3>1, <3>2, Zenon DEF Reaches
    <2>20. ASSUME NEW r \in Rings, NEW n \in DOMAIN rings'[r].keys
           PROVE  \/ rings'[r].keys[n].name = k.name
                  \/ \E l \in DOMAIN rings[r].keys : rings[r].keys[l].name = rings'[r].keys[n].name
        <3>1. CASE r # d
            BY <2>8, <2>20, <3>1
        <3>2. CASE r = d
            <4>1. n \in DOMAIN g0.keys /\ rings'[r].keys[n].name = g0.keys[n].name
                BY <2>8, <2>10, <2>18, <2>20, <3>2
            <4>2. g0.keys[n] = k \/ (n \in DOMAIN ring.keys /\ g0.keys[n] = ring.keys[n])
                <5>1. DOMAIN ring.keys = 1 .. Len(ring.keys) /\ Len(ring.keys) \in Nat
                    BY DEF RingType
                <5>2. g0.keys[Len(ring.keys) + 1] = k
                    BY <2>3, <2>13, Zenon DEF Grown
                <5> QED BY <2>4, <4>1, <5>1, <5>2
            <4> QED BY <1>4, <3>2, <4>1, <4>2
        <3> QED BY <3>1, <3>2
    <2>21. PICK o \in DOMAIN Tmp.keys : o = at[1]
        BY <1>2
    <2>22. PICK c \in Keys : c = Tmp.keys[o] /\ c.subs = s
        BY <1>2, <1>5, <2>21 DEF Importing
    <2>23. PICK c2 : c2 = [c EXCEPT !.subs = [s EXCEPT ![a] = x]]
        OBVIOUS
    <2>24. Tmp' = [Tmp EXCEPT !.keys[o] = c2]
        <3>1. Tmp' = [Tmp EXCEPT !.keys[o].subs[a] = x]
            BY <1>0, <1>3, <1>6, <1>10, <2>1, <2>6, <2>21 DEF FixedUp, TypeOK, Tmp
        <3>2. [Tmp EXCEPT !.keys[o].subs[a] = x] =
                 [Tmp EXCEPT !.keys[o] = [Tmp.keys[o] EXCEPT !.subs = [Tmp.keys[o].subs EXCEPT ![a] = x]]]
            BY <1>2, NestedSub
        <3> QED BY <2>22, <2>23, <3>1, <3>2
    <2>25. c2.name = c.name /\ c2.sec = c.sec /\ c2.subs = [s EXCEPT ![a] = x]
        BY <2>23 DEF Keys
    <2>26. Tmp'.keys = [Tmp.keys EXCEPT ![o] = c2]
        BY <1>2, <2>24 DEF RingType
    <2>27. DOMAIN Tmp'.keys = DOMAIN Tmp.keys
        BY <2>26
    <2>28. ASSUME NEW t \in DOMAIN Tmp.keys
           PROVE  /\ SameKey(Tmp'.keys[t], Tmp.keys[t])
                  /\ DOMAIN Tmp'.keys[t].subs = DOMAIN Tmp.keys[t].subs
                  /\ \A m \in DOMAIN Tmp.keys[t].subs :
                        t # at[1] \/ m # at[2] => Tmp'.keys[t].subs[m] = Tmp.keys[t].subs[m]
        <3>1. CASE t # o
            <4>1. Tmp'.keys[t] = Tmp.keys[t]
                BY <2>26, <3>1
            <4> QED BY <4>1 DEF SameKey
        <3>2. CASE t = o
            <4>1. Tmp'.keys[t] = c2 /\ Tmp.keys[t] = c
                BY <2>22, <2>26, <3>2
            <4>2. DOMAIN c2.subs = DOMAIN s /\ \A m \in DOMAIN s : m # a => c2.subs[m] = s[m]
                BY <2>25
            <4>3. c.subs = s
                BY <2>22
            <4> QED BY <1>6, <2>21, <2>25, <3>2, <4>1, <4>2, <4>3 DEF SameKey
        <3> QED BY <3>1, <3>2
    <2>29. p = Importing.subs[at[2]]
        BY <1>5, <1>6, <1>7
    <2>30. Tmp.keys[Importing.subs[at[2]].idx].name = k.name
        BY <2>14, <2>29
    <2>31. Reaches("KBX", Dest, rings'[Dest], k.name)
        BY <1>1, <2>8, <2>19
    <2> QED BY <2>12, <2>14, <2>20, <2>27, <2>28, <2>30, <2>31, Zenon
<1> QED BY <1>11, <1>13

\* A subkey is imported.
LEMMA KeptImportSubkey == ASSUME IInv, Kept, ImportSubkey PROVE Kept'
<1>1. TypeOK /\ pc = "sub" /\ UNCHANGED <<fmt, file, loaded>>
    BY Zenon DEF IInv, ImportSubkey, still
<1>2. pc' \in {"sub", "undefined"}
    BY <1>1, Zenon DEF ImportSubkey, Undefined
<1>3. CASE pc' = "undefined"
    BY <1>3, Zenon DEF Kept
<1>4. CASE pc' = "sub"
    <2>1. \A r \in Rings : Preserves(rings[r], rings'[r])
        BY <1>4, SubkeyFacts
    <2> QED BY <1>1, <1>4, <2>1, KeptFrame
<1> QED BY <1>2, <1>3, <1>4

\* Only the temporary store changes.
LEMMA KeptRemove == ASSUME IInv, Kept, RemoveImported PROVE Kept'
<1>0. TypeOK /\ pc = "clean" /\ UNCHANGED <<fmt, file, loaded>> /\ "tmp" \in AllRings
    BY Zenon DEF IInv, RemoveImported, still, AllRings
<1>1. \/ pc' = "undefined"
      \/ pc' = pc /\ (rings' = rings \/ \E g : rings' = [rings EXCEPT !["tmp"] = g])
    <2>1. \/ pc' = "undefined"
          \/ /\ pc' = pc
             /\ \E n : rings' = IF n = 0 THEN rings ELSE [rings EXCEPT !["tmp"] = rnp_key_store_remove_key(@, n)]
        BY Zenon DEF RemoveImported, Undefined
    <2>2. CASE /\ pc' = pc
               /\ \E n : rings' = IF n = 0 THEN rings ELSE [rings EXCEPT !["tmp"] = rnp_key_store_remove_key(@, n)]
        <3>1. PICK n : rings' = IF n = 0 THEN rings ELSE [rings EXCEPT !["tmp"] = rnp_key_store_remove_key(rings["tmp"], n)]
            BY <2>2
        <3> QED BY <2>2, <3>1
    <2> QED BY <2>1, <2>2
<1>2. CASE pc' = "undefined"
    BY <1>2, Zenon DEF Kept
<1>3. CASE pc' = pc /\ rings' = rings
    BY <1>0, <1>3, SamePreserves, KeptFrame
<1>4. CASE pc' = pc /\ \E g : rings' = [rings EXCEPT !["tmp"] = g]
    <2>1. PICK g : rings' = [rings EXCEPT !["tmp"] = g]
        BY <1>4
    <2>2. \A r \in Rings : Preserves(rings[r], rings'[r])
        BY <1>0, <2>1, OnePreserves
    <2> QED BY <1>0, <1>4, <2>2, KeptFrame
<1> QED BY <1>1, <1>2, <1>3, <1>4

\* The rings keep their keys when the temporary store is freed.
LEMMA KeptFree == ASSUME IInv, Kept, rnp_key_store_free PROVE Kept'
<1>0. /\ TypeOK /\ pc = "clean" /\ UNCHANGED <<fmt, file, loaded>> /\ pc' \in {"undefined", "ready"}
      /\ rings' = [r \in DOMAIN rings |->
                     IF r = "tmp" THEN [EmptyRing EXCEPT !.gen = rings[r].gen + 1]
                     ELSE [rings[r] EXCEPT !.keys = [n \in DOMAIN rings[r].keys |-> [rings[r].keys[n] EXCEPT !.own = 0]]]]
    BY DEF IInv, rnp_key_store_free
<1>1. ASSUME NEW r \in Rings PROVE Preserves(rings[r], rings'[r])
    <2>1. PICK ring \in RingType : ring = rings[r] /\ r \in DOMAIN rings /\ r # "tmp"
        BY <1>0 DEF TypeOK, AllRings, Rings
    <2>2. PICK g : g = [ring EXCEPT !.keys = [n \in DOMAIN ring.keys |-> [ring.keys[n] EXCEPT !.own = 0]]]
        OBVIOUS
    <2>3. rings'[r] = g
        BY <1>0, <2>1, <2>2
    <2>4. g.keys = [n \in DOMAIN ring.keys |-> [ring.keys[n] EXCEPT !.own = 0]]
        BY <2>2 DEF RingType
    <2>5. ASSUME NEW n \in DOMAIN ring.keys
          PROVE  n \in DOMAIN g.keys /\ g.keys[n].name = ring.keys[n].name /\ g.keys[n].subs = ring.keys[n].subs
        <3>1. PICK k \in Keys : k = ring.keys[n]
            BY DEF RingType
        <3>2. g.keys[n] = [k EXCEPT !.own = 0] /\ n \in DOMAIN g.keys
            BY <2>4, <3>1
        <3>3. [k EXCEPT !.own = 0].name = k.name /\ [k EXCEPT !.own = 0].subs = k.subs
            BY DEF Keys
        <3> QED BY <3>1, <3>2, <3>3
    <2>6. Preserves(ring, g)
        BY <2>5, Zenon DEF Preserves
    <2> QED BY <2>1, <2>3, <2>6
<1>2. pc' # "temp" /\ pc' # "load" /\ pc # "undefined"
    BY <1>0
<1> QED BY <1>0, <1>1, <1>2, KeptFrame

\* A generated key is added.
LEMMA KeptGenerated == ASSUME IInv, Kept, AddGenerated PROVE Kept'
<1>0. /\ TypeOK /\ pc = "generate" /\ UNCHANGED <<fmt, file, loaded>> /\ at[1] \in 1 .. 4
    BY DEF IInv, AddGenerated, Control
<1>1. PICK d \in Rings : d = IF at[1] <= 2 THEN "sec" ELSE "pub"
    BY DEF Rings
<1>2. d \in AllRings
    BY DEF AllRings
<1>3. PICK ring \in RingType : ring = rings[d] /\ Len(ring.keys) <= ring.vsize
    BY <1>0, <1>2 DEF TypeOK
<1>4. PICK o \in {1, 2} : o = 2 - (at[1] % 2)
    BY <1>0
<1>5. PICK sec \in BOOLEAN : sec = (d = "sec")
    OBVIOUS
<1>6. PICK k : k = Generated(o, sec)
    OBVIOUS
<1>7. k \in Keys
    BY <1>6, GeneratedFacts, Zenon
<1>8. \/ pc' = "undefined"
      \/ /\ \E g \in rnp_key_store_add_key(ring, k) : rings' = [rings EXCEPT ![d] = g]
         /\ pc' = "save" \/ pc' = pc
    BY <1>1, <1>3, <1>4, <1>5, <1>6, Zenon DEF AddGenerated, Undefined
<1>9. CASE pc' = "undefined"
    BY <1>9, Zenon DEF Kept
<1>10. CASE /\ \E g \in rnp_key_store_add_key(ring, k) : rings' = [rings EXCEPT ![d] = g]
            /\ pc' = "save" \/ pc' = pc
    <2>1. PICK g \in rnp_key_store_add_key(ring, k) : rings' = [rings EXCEPT ![d] = g]
        BY <1>10
    <2>2. Grown(ring, g, k)
        BY <1>3, <1>7, AddFacts, Zenon
    <2>3. Preserves(ring, g)
        BY <2>2, GrownPreserves
    <2>4. \A r \in Rings : Preserves(rings[r], rings'[r])
        BY <1>0, <1>2, <1>3, <2>1, <2>3, OnePreserves
    <2>5. pc' # "temp" /\ pc' # "load" /\ pc # "undefined"
        BY <1>0, <1>10
    <2> QED BY <1>0, <2>4, <2>5, KeptFrame
<1> QED BY <1>8, <1>9, <1>10

\* The process ends or crashes: the files are what they were.
LEMMA KeptStops == ASSUME Kept, pc # "undefined", Stops PROVE Kept'
<1>1. FilesLed /\ UNCHANGED <<fmt, file>> /\ pc' = "off" /\ loaded' = {}
    BY Zenon DEF Kept, Stops
<1>2. FilesLed'
    BY <1>1, Zenon DEF FilesLed
<1>3. LoadedKept' /\ InputKept' /\ ImageKept'
    BY <1>1 DEF LoadedKept, InputKept, ImageKept
<1> QED BY <1>2, <1>3, Zenon DEF Kept

\* A process starts: it loads the file of the public ring.
LEMMA KeptStart == ASSUME IInv, Kept, Start PROVE Kept'
<1>1. /\ TypeOK /\ pc = "off" /\ UNCHANGED <<fmt, file>> /\ loaded' = {}
      /\ \/ pc' = "load" /\ to' = "pub" /\ in' = file["pub"].blobs
         \/ pc' = "ready"
    BY Zenon DEF IInv, Start, Open, quiet
<1>2. FilesLed
    BY <1>1 DEF Kept
<1>3. FilesLed'
    BY <1>1, <1>2, Zenon DEF FilesLed
<1>4. LoadedKept' /\ ImageKept'
    BY <1>1 DEF LoadedKept, ImageKept
<1>5. InputKept'
    <2> SUFFICES ASSUME pc' = "load"
                 PROVE  /\ \A name \in Names(file'[to'].blobs) : name \in Names(in')
                        /\ fmt' = "KBX" => \A b \in DOMAIN in' : Led(in'[b])
        BY Zenon DEF InputKept
    <2>1. to' = "pub" /\ in' = file["pub"].blobs /\ "pub" \in Rings
        BY <1>1 DEF Rings
    <2>2. in' = file'[to'].blobs
        BY <1>1, <2>1
    <2>3. fmt' = "KBX" => \A b \in DOMAIN file["pub"].blobs : Led(file["pub"].blobs[b])
        BY <1>1, <1>2, <2>1 DEF FilesLed
    <2> QED BY <2>1, <2>2, <2>3
<1> QED BY <1>3, <1>4, <1>5, Zenon DEF Kept

\* A blob of which the first packet was read.
LEMMA LedFacts ==
    ASSUME NEW b \in Seq(Packets), b # <<>>, Led(b)
    PROVE  /\ IsKey(Head(b)) => ~IsSub(Head(b).name)
           /\ ~IsKey(Head(b)) => Led(Tail(b))
<1>1. Head(b) = b[1] /\ 1 \in DOMAIN b /\ 1 .. 1 - 1 = {}
    OBVIOUS
<1>2. IsKey(Head(b)) => ~IsSub(Head(b).name)
    BY <1>1, Zenon DEF Led
<1>3. ASSUME ~IsKey(Head(b)) PROVE Led(Tail(b))
    <2>1. PICK t : t = Tail(b)
        OBVIOUS
    <2>2. \A n \in DOMAIN t : n \in Nat /\ n >= 1 /\ n + 1 \in DOMAIN b /\ t[n] = b[n + 1]
        BY <2>1
    <2>3. ASSUME NEW n \in DOMAIN t, IsKey(t[n]), IsSub(t[n].name)
          PROVE  \E m \in 1 .. n - 1 : IsKey(t[m]) /\ ~IsSub(t[m].name)
        <3>1. n + 1 \in DOMAIN b /\ IsKey(b[n + 1]) /\ IsSub(b[n + 1].name) /\ n \in Nat
            BY <2>2, <2>3
        <3>2. PICK m \in 1 .. (n + 1) - 1 : IsKey(b[m]) /\ ~IsSub(b[m].name)
            BY <3>1, Zenon DEF Led
        <3>3. m # 1
            BY <1>1, <1>3, <3>2
        <3>4. m - 1 \in 1 .. n - 1
            BY <3>1, <3>2, <3>3
        <3>5. m - 1 \in DOMAIN t
            BY <2>1, <3>1, <3>2, <3>3, <3>4
        <3>6. t[m - 1] = b[m]
            BY <2>2, <3>4, <3>5
        <3> QED BY <3>2, <3>4, <3>6, Zenon
    <2> QED BY <2>1, <2>3, Zenon DEF Led
<1> QED BY <1>2, <1>3

\* A packet was read.
LEMMA KeptPacket ==
    ASSUME IInv, Kept, pc = "load", pc' = "load", UNCHANGED <<fmt, file, loaded, to>>, Blob # <<>>,
           NEW g, rings' = [rings EXCEPT ![to] = g], Preserves(rings[to], g),
           ~errors' => /\ ~errors /\ in' = [in EXCEPT ![1] = Tail(@)]
                       /\ (IsKey(Head(Blob)) /\ to \in Rings) => Reaches(fmt, to, g, Head(Blob).name)
                       /\ (fmt = "KBX" /\ cb'.last = NoPtr) => cb.last = NoPtr /\ ~IsKey(Head(Blob))
    PROVE  Kept'
<1>0. TypeOK /\ InputKept
    BY DEF IInv, Kept
<1>1. PICK r \in AllRings : r = to
    BY <1>0 DEF TypeOK
<1>2. rings' = [rings EXCEPT ![r] = g] /\ Preserves(rings[r], g)
    BY <1>1
<1>3. LoadedKept' /\ FilesLed'
    <2>1. \A q \in Rings : Preserves(rings[q], rings'[q])
        BY <1>0, <1>2, OnePreserves
    <2>2. pc # "undefined" /\ loaded' \subseteq loaded
        OBVIOUS
    <2> QED BY <1>0, <2>1, <2>2, LoadedFrame
<1>4. ImageKept'
    BY DEF ImageKept
<1>5. InputKept'
    <2> SUFFICES ASSUME to \in Rings, ~errors'
                 PROVE  /\ \A name \in Names(file[to].blobs) : name \in Names(in') \/ Reaches(fmt, to, rings'[to], name)
                        /\ fmt = "KBX" => \A b \in DOMAIN in' : b > 1 \/ cb'.last = NoPtr => Led(in'[b])
        <3>1. fmt' = fmt /\ file' = file /\ to' = to
            OBVIOUS
        <3> QED BY <3>1 DEF InputKept
    <2>1. PICK p : p = Head(Blob)
        OBVIOUS
    <2>2. PICK f : f = fmt
        OBVIOUS
    <2>3. PICK bl : bl = in
        OBVIOUS
    <2>4. PICK q : q = in'
        OBVIOUS
    <2>5. PICK ring : ring = rings[r]
        OBVIOUS
    <2>6. /\ ~errors /\ q = [bl EXCEPT ![1] = Tail(@)]
          /\ IsKey(p) => Reaches(f, r, g, p.name)
          /\ (f = "KBX" /\ cb'.last = NoPtr) => cb.last = NoPtr /\ ~IsKey(p)
        BY <1>1, <2>1, <2>2, <2>3, <2>4
    <2>7. bl \in Blobs /\ bl # <<>> /\ bl[1] # <<>> /\ p = Head(bl[1])
        BY <1>0, <2>1, <2>3, BlobFacts
    <2>8. /\ \A name \in Names(file[to].blobs) : name \in Names(bl) \/ Reaches(f, r, ring, name)
          /\ f = "KBX" => \A b \in DOMAIN bl : b > 1 \/ cb.last = NoPtr => Led(bl[b])
        BY <1>0, <1>1, <2>2, <2>3, <2>5, <2>6, Zenon DEF InputKept
    <2>9. \A name \in Names(bl) : name \in Names(q) \/ (IsKey(p) /\ name = p.name)
        BY <2>6, <2>7, NextPacket, Zenon
    <2>10. \A name : Reaches(f, r, ring, name) => Reaches(f, r, g, name)
        BY <1>1, <1>2, <2>5, PreservesFacts, Zenon
    <2>11. rings'[to] = g
        BY <1>0, <1>1, <1>2 DEF TypeOK
    <2>12. \A name \in Names(file[to].blobs) : name \in Names(q) \/ Reaches(f, r, g, name)
        BY <2>6, <2>8, <2>9, <2>10, Zenon
    <2>13. ASSUME f = "KBX", NEW b \in DOMAIN q, b > 1 \/ cb'.last = NoPtr PROVE Led(q[b])
        <3>1. PICK s \in Seq(Seq(Packets)) : s = bl
            BY <2>7 DEF Blobs
        <3>2. 1 \in DOMAIN s /\ s[1] \in Seq(Packets) /\ s[1] # <<>> /\ b \in DOMAIN s
            BY <2>6, <2>7, <2>13, <3>1
        <3>3. q[1] = Tail(s[1]) /\ (b # 1 => q[b] = s[b])
            BY <2>6, <3>1, <3>2
        <3>4. CASE b # 1
            <4>1. b > 1
                BY <3>2, <3>4
            <4> QED BY <2>8, <2>13, <3>1, <3>2, <3>3, <3>4, <4>1, Zenon
        <3>5. CASE b = 1
            <4>1. cb.last = NoPtr /\ ~IsKey(Head(s[1]))
                BY <2>6, <2>7, <2>13, <3>1, <3>5
            <4>2. Led(s[1])
                BY <2>8, <2>13, <3>1, <3>2, <4>1
            <4>3. Led(Tail(s[1]))
                BY <3>2, <4>1, <4>2, LedFacts, Zenon
            <4> QED BY <3>3, <3>5, <4>3
        <3> QED BY <3>4, <3>5
    <2> QED BY <1>1, <2>2, <2>4, <2>11, <2>12, <2>13
<1> QED BY <1>3, <1>4, <1>5, Zenon DEF Kept

\* A packet that is no key.
LEMMA KeptOther == ASSUME IInv, Kept, OtherPacket PROVE Kept'
<1>1. /\ TypeOK /\ pc = "load" /\ pc' = "load" /\ Blob # <<>> /\ ~IsKey(Head(Blob)) /\ cb' = cb
      /\ UNCHANGED <<fmt, file, loaded, to>>
    BY Zenon DEF IInv, OtherPacket, quiet
<1>2. ~errors' => ~errors /\ in' = [in EXCEPT ![1] = Tail(@)]
    BY DEF OtherPacket
<1>3. PICK g : rings' = [rings EXCEPT ![to] = g] /\ Alike(rings[to], g)
    BY OtherRing
<1>4. Preserves(rings[to], g)
    BY <1>3, Zenon DEF Alike, Preserves
<1>5. ~errors' => /\ ~errors /\ in' = [in EXCEPT ![1] = Tail(@)]
                  /\ (IsKey(Head(Blob)) /\ to \in Rings) => Reaches(fmt, to, g, Head(Blob).name)
                  /\ (fmt = "KBX" /\ cb'.last = NoPtr) => cb.last = NoPtr /\ ~IsKey(Head(Blob))
    BY <1>1, <1>2
<1> QED BY <1>1, <1>3, <1>4, <1>5, KeptPacket

\* A key packet: the key that leaves the input is in the ring, and a subkey is
\* recorded with its primary key.
LEMMA KeptKey == ASSUME IInv, Kept, cb_keyring_parse PROVE Kept'
<1>1. PICK p : p = Head(Blob)
    OBVIOUS
<1>2. /\ TypeOK /\ Loading /\ pc = "load" /\ Blob # <<>> /\ IsKey(p)
      /\ UNCHANGED <<fmt, file, loaded, to, errors>>
    BY <1>1, Zenon DEF IInv, cb_keyring_parse, quiet
<1>3. PICK r \in AllRings : r = to
    BY <1>2 DEF TypeOK
<1>4. PICK ring \in RingType : ring = rings[r] /\ Len(ring.keys) <= ring.vsize
    BY <1>2 DEF TypeOK
<1>5. PICK k : k = NewKey(p)
    OBVIOUS
<1>6. p \in Packets
    <2>1. PICK bl \in Blobs : bl = in /\ bl # <<>> /\ bl[1] # <<>> /\ p = Head(bl[1])
        BY <1>1, <1>2, BlobFacts
    <2> QED BY <2>1, NextPacket, Zenon
<1>7. k \in Keys /\ k.name = p.name /\ k.subs = <<>>
    BY <1>2, <1>5, <1>6, NewKeyFacts, Zenon
<1>8. \/ pc' = "undefined"
      \/ /\ pc' = pc /\ in' = [in EXCEPT ![1] = Tail(@)]
         /\ \E h \in rnp_key_store_add_key(ring, k) :
              \/ /\ ~IsSub(p.name) \/ cb.last = NoPtr
                 /\ rings' = [rings EXCEPT ![r] = h]
                 /\ cb' = [key |-> TRUE, last |-> IF IsSub(p.name) THEN NoPtr ELSE Ref(r, h, Len(h.keys))]
              \/ /\ IsSub(p.name) /\ cb.last # NoPtr /\ cb' = cb
                 /\ rings' = [rings EXCEPT ![r] = [h EXCEPT !.keys[cb.last.idx].subs = Append(@, Ref(r, h, Len(h.keys)))]]
    BY <1>1, <1>3, <1>4, <1>5, Zenon DEF cb_keyring_parse, Undefined
<1>9. CASE pc' = "undefined"
    BY <1>9, Zenon DEF Kept
<1>10. ASSUME pc' = pc, in' = [in EXCEPT ![1] = Tail(@)], NEW h \in rnp_key_store_add_key(ring, k)
       PROVE  /\ h \in RingType /\ Preserves(ring, h) /\ Len(h.keys) = Len(ring.keys) + 1
              /\ Len(h.keys) \in DOMAIN h.keys /\ h.keys[Len(h.keys)] = k
              /\ \A n \in DOMAIN ring.keys : n \in DOMAIN h.keys /\ n # Len(h.keys) /\ h.keys[n] = ring.keys[n]
    <2>1. Grown(ring, h, k)
        BY <1>4, <1>7, AddFacts, Zenon
    <2>2. Preserves(ring, h)
        BY <2>1, GrownPreserves
    <2>3. /\ h \in RingType /\ DOMAIN h.keys = 1 .. Len(ring.keys) + 1 /\ Len(h.keys) = Len(ring.keys) + 1
          /\ \A n \in 1 .. Len(ring.keys) : h.keys[n] = ring.keys[n]
          /\ h.keys[Len(ring.keys) + 1] = k
        BY <2>1, Zenon DEF Grown
    <2>4. DOMAIN ring.keys = 1 .. Len(ring.keys) /\ Len(ring.keys) \in Nat
        BY DEF RingType
    <2> QED BY <2>2, <2>3, <2>4
<1>11. fmt \in {"GPG", "KBX"}
    BY <1>2, KeyStoreAssumption DEF TypeOK
<1>12. ASSUME NEW g, rings' = [rings EXCEPT ![r] = g], Preserves(ring, g), pc' = pc, in' = [in EXCEPT ![1] = Tail(@)],
              \/ IsSub(p.name) /\ cb.last = NoPtr /\ cb'.last = NoPtr /\ \E n \in DOMAIN g.keys : g.keys[n].name = p.name
              \/ cb'.last # NoPtr /\ Reaches(fmt, r, g, p.name)
       PROVE  Kept'
    <2>1. CASE IsSub(p.name) /\ cb.last = NoPtr /\ cb'.last = NoPtr /\ \E n \in DOMAIN g.keys : g.keys[n].name = p.name
        <3>1. CASE fmt = "GPG" \/ errors \/ to \notin Rings
            <4>1. fmt = "GPG" => Reaches(fmt, r, g, p.name)
                BY <2>1, Zenon DEF Reaches
            <4>2. CASE fmt = "GPG" \/ errors
                BY <1>1, <1>2, <1>3, <1>4, <1>12, <3>1, <4>1, <4>2, KeptPacket
            <4>3. CASE to \notin Rings
                <5>1. \A q \in Rings : Preserves(rings[q], rings'[q])
                    BY <1>2, <1>4, <1>12, OnePreserves
                <5>2. pc # "undefined" /\ pc' # "temp" /\ to' \notin Rings /\ loaded' \subseteq loaded
                    BY <1>2, <1>12, <4>3
                <5> QED BY <1>2, <5>1, <5>2, KeptFrame
            <4> QED BY <3>1, <4>2, <4>3
        <3>2. CASE fmt = "KBX" /\ ~errors /\ to \in Rings
            <4>1. PICK bl \in Blobs : bl = in /\ bl # <<>> /\ bl[1] # <<>> /\ p = Head(bl[1])
                BY <1>1, <1>2, BlobFacts
            <4>2. 1 \in DOMAIN bl /\ bl[1] \in Seq(Packets)
                BY <4>1 DEF Blobs
            <4>3. InputKept
                BY <1>2 DEF Kept
            <4>4. Led(bl[1])
                BY <1>2, <2>1, <3>2, <4>1, <4>2, <4>3, Zenon DEF InputKept
            <4>5. ~IsSub(p.name)
                BY <1>2, <4>1, <4>2, <4>4, LedFacts, Zenon
            <4> QED BY <2>1, <4>5
        <3> QED BY <1>11, <3>1, <3>2
    <2>2. CASE cb'.last # NoPtr /\ Reaches(fmt, r, g, p.name)
        BY <1>1, <1>2, <1>3, <1>4, <1>12, <2>2, KeptPacket
    <2> QED BY <1>12, <2>1, <2>2
<1>13. ASSUME pc' = pc, in' = [in EXCEPT ![1] = Tail(@)], NEW h \in rnp_key_store_add_key(ring, k),
              ~IsSub(p.name) \/ cb.last = NoPtr, rings' = [rings EXCEPT ![r] = h],
              cb' = [key |-> TRUE, last |-> IF IsSub(p.name) THEN NoPtr ELSE Ref(r, h, Len(h.keys))]
       PROVE  Kept'
    <2>1. Preserves(ring, h) /\ Len(h.keys) \in DOMAIN h.keys /\ h.keys[Len(h.keys)].name = p.name
        BY <1>7, <1>10, <1>13
    <2>2. CASE IsSub(p.name)
        <3>1. cb'.last = NoPtr /\ cb.last = NoPtr
            BY <1>13, <2>2
        <3> QED BY <1>12, <1>13, <2>1, <2>2, <3>1, Zenon
    <2>3. CASE ~IsSub(p.name)
        <3>1. cb'.last # NoPtr
            <4>1. cb'.last = Ref(r, h, Len(h.keys)) /\ r # "none"
                BY <1>13, <2>3 DEF AllRings, Rings
            <4> QED BY <4>1 DEF Ref, NoPtr
        <3>2. Reaches(fmt, r, h, p.name)
            BY <2>1, <2>3, Zenon DEF Reaches
        <3> QED BY <1>12, <1>13, <2>1, <3>1, <3>2, Zenon
    <2> QED BY <2>2, <2>3
<1>14. ASSUME pc' = pc, in' = [in EXCEPT ![1] = Tail(@)], NEW h \in rnp_key_store_add_key(ring, k),
              IsSub(p.name), cb.last # NoPtr, cb' = cb,
              rings' = [rings EXCEPT ![r] = [h EXCEPT !.keys[cb.last.idx].subs = Append(@, Ref(r, h, Len(h.keys)))]]
       PROVE  Kept'
    <2>1. /\ h \in RingType /\ Preserves(ring, h)
          /\ Len(h.keys) \in DOMAIN h.keys /\ h.keys[Len(h.keys)] = k
          /\ \A n \in DOMAIN ring.keys : n \in DOMAIN h.keys /\ n # Len(h.keys) /\ h.keys[n] = ring.keys[n]
        BY <1>10, <1>14
    <2>2. PICK i \in DOMAIN ring.keys : i = cb.last.idx
        BY <1>2, <1>3, <1>4, <1>14, Zenon DEF Loading
    <2>3. PICK x : x = Ref(r, h, Len(h.keys))
        OBVIOUS
    <2>4. PICK b \in Keys : b = h.keys[i]
        BY <2>1 DEF RingType
    <2>5. PICK s \in Seq(Pointers) : s = b.subs
        BY DEF Keys
    <2>6. PICK t : t = Append(s, x)
        OBVIOUS
    <2>7. /\ \A m \in DOMAIN s : m \in DOMAIN t /\ t[m] = s[m]
          /\ Len(s) + 1 \in DOMAIN t /\ t[Len(s) + 1] = x
        BY <2>6
    <2>8. PICK g : g = [h EXCEPT !.keys[i].subs = Append(@, x)]
        OBVIOUS
    <2>9. /\ g.keys[i].name = b.name /\ g.keys[i].subs = t /\ DOMAIN g.keys = DOMAIN h.keys
          /\ \A n \in DOMAIN h.keys : n # i => g.keys[n] = h.keys[n]
        <3>1. i \in DOMAIN h.keys
            BY <2>1
        <3>2. g = [h EXCEPT !.keys[i] = [b EXCEPT !.subs = t]]
            BY <2>1, <2>4, <2>5, <2>6, <2>8, <3>1, NestedSubs
        <3>3. PICK k2 : k2 = [b EXCEPT !.subs = t]
            OBVIOUS
        <3>4. k2.name = b.name /\ k2.subs = t
            BY <3>3 DEF Keys
        <3>5. g.keys = [h.keys EXCEPT ![i] = k2]
            BY <2>1, <3>2, <3>3 DEF RingType
        <3> QED BY <3>1, <3>4, <3>5
    <2>10. Preserves(ring, g)
        <3> SUFFICES ASSUME NEW n \in DOMAIN ring.keys
                     PROVE  /\ n \in DOMAIN g.keys /\ g.keys[n].name = ring.keys[n].name
                            /\ \A m \in DOMAIN ring.keys[n].subs :
                                  m \in DOMAIN g.keys[n].subs /\ g.keys[n].subs[m] = ring.keys[n].subs[m]
            BY Zenon DEF Preserves
        <3>1. CASE n # i
            BY <2>1, <2>9, <3>1, Zenon
        <3>2. CASE n = i
            BY <2>1, <2>4, <2>5, <2>7, <2>9, <3>2, Zenon
        <3> QED BY <3>1, <3>2
    <2>11. Reaches(fmt, r, g, p.name)
        <3>1. i \in DOMAIN g.keys /\ Len(s) + 1 \in DOMAIN g.keys[i].subs /\ g.keys[i].subs[Len(s) + 1] = x
            BY <2>1, <2>7, <2>9, Zenon
        <3>2. x.ring = r /\ x.idx = Len(h.keys)
            BY <2>3 DEF Ref
        <3>3. x.idx \in DOMAIN g.keys /\ g.keys[x.idx].name = p.name
            BY <1>7, <2>1, <2>9, <3>2, Zenon
        <3> QED BY <1>11, <3>1, <3>2, <3>3 DEF Reaches
    <2>12. rings' = [rings EXCEPT ![r] = g] /\ cb'.last # NoPtr
        BY <1>14, <2>2, <2>3, <2>8
    <2> QED BY <1>12, <1>14, <2>10, <2>11, <2>12
<1> QED BY <1>8, <1>9, <1>13, <1>14

\* Behind the end of a blob there are the keys of the other blobs.
LEMMA EmptyBlob ==
    ASSUME NEW blobs \in Blobs, blobs # <<>>, blobs[1] = <<>>
    PROVE  /\ Names(blobs) \subseteq Names(Tail(blobs))
           /\ Len(blobs) <= 1 => Names(blobs) = {}
<1>1. PICK s \in Seq(Seq(Packets)) : s = blobs
    BY DEF Blobs
<1>2. PICK t : t = Tail(s)
    OBVIOUS
<1>3. ASSUME NEW name \in Names(s)
      PROVE  name \in Names(t) /\ Len(s) > 1
    <2>1. PICK b \in DOMAIN s : \E n \in DOMAIN s[b] : IsKey(s[b][n]) /\ s[b][n].name = name
        <3>1. name \in Names(s) <=> \E b \in DOMAIN s : \E n \in DOMAIN s[b] : IsKey(s[b][n]) /\ s[b][n].name = name
            BY NamesFacts
        <3> QED BY <1>3, <3>1, Zenon
    <2>2. b # 1
        <3>1. b = 1 => DOMAIN s[b] = {}
            BY <1>1
        <3> QED BY <2>1, <3>1, Zenon
    <2>3. b \in Nat /\ b <= Len(s) /\ b > 1 /\ b - 1 \in DOMAIN t /\ t[b - 1] = s[b] /\ Len(s) > 1
        BY <1>1, <1>2, <2>1, <2>2
    <2>4. PICK c \in DOMAIN t : t[c] = s[b]
        BY <2>3
    <2>5. \E n \in DOMAIN t[c] : IsKey(t[c][n]) /\ t[c][n].name = name
        BY <2>1, <2>4, Zenon
    <2>6. name \in Names(t)
        BY <2>5, NamesFacts, Zenon
    <2> QED BY <2>3, <2>6
<1>4. Len(s) <= 1 => Names(s) = {}
    <2>1. Len(s) \in Nat
        OBVIOUS
    <2>2. Len(s) <= 1 => ~(Len(s) > 1)
        BY <2>1
    <2> QED BY <1>3, <2>2, Zenon
<1> QED BY <1>1, <1>2, <1>3, <1>4, Zenon

\* A blob is finished, or the ring: all keys of the file are in it if no error
\* was reported.
LEMMA KeptEndOfBlob == ASSUME IInv, Kept, EndOfBlob PROVE Kept'
<1>0. /\ TypeOK /\ Control /\ InputKept /\ LoadedKept /\ FilesLed
      /\ pc = "load" /\ pc # "undefined" /\ Blob = <<>> /\ UNCHANGED <<fmt, file>> /\ in \in Blobs
    BY DEF IInv, EndOfBlob, quiet, Kept, TypeOK
<1>1. PICK bl \in Blobs : bl = in
    BY <1>0
<1>2. bl # <<>> => bl[1] = <<>>
    BY <1>0, <1>1 DEF Blob
<1>3. CASE in # <<>> /\ in' = Tail(in) /\ cb' = NoKey /\ UNCHANGED <<pc, to, errors, loaded, rings>>
    <2>1. LoadedKept' /\ FilesLed'
        BY <1>0, <1>3, SamePreserves, LoadedFrame
    <2>2. ImageKept'
        BY <1>0, <1>3 DEF ImageKept
    <2>3. InputKept'
        <3> SUFFICES ASSUME to \in Rings, ~errors
                     PROVE  /\ \A name \in Names(file[to].blobs) : name \in Names(in') \/ Reaches(fmt, to, rings[to], name)
                            /\ fmt = "KBX" => \A b \in DOMAIN in' : Led(in'[b])
            <4>1. fmt' = fmt /\ file' = file /\ to' = to /\ errors' = errors /\ rings' = rings
                BY <1>0, <1>3
            <4> QED BY <4>1 DEF InputKept
        <3>1. in' = Tail(bl) /\ bl # <<>>
            BY <1>1, <1>3
        <3>2. Names(bl) \subseteq Names(in') /\ \A b \in DOMAIN in' : b + 1 \in DOMAIN bl /\ in'[b] = bl[b + 1]
            BY <1>2, <3>1, EmptyBlob, TailFacts
        <3>3. \A b \in DOMAIN in' : b \in Nat /\ b >= 1
            BY <3>1 DEF Blobs
        <3>4. /\ \A name \in Names(file[to].blobs) : name \in Names(bl) \/ Reaches(fmt, to, rings[to], name)
              /\ fmt = "KBX" => \A b \in DOMAIN bl : b > 1 => Led(bl[b])
            BY <1>0, <1>1, Zenon DEF InputKept
        <3>5. ASSUME fmt = "KBX", NEW b \in DOMAIN in' PROVE Led(in'[b])
            <4>1. b + 1 > 1
                BY <3>3
            <4> QED BY <3>2, <3>4, <3>5, <4>1
        <3> QED BY <3>2, <3>4, <3>5, Zenon
    <2> QED BY <2>1, <2>2, <2>3, Zenon DEF Kept
<1>4. (Len(in) <= 1 \/ in = <<>>) => Names(in) = {}
    <2>1. Names(<<>>) = {}
        <3>1. DOMAIN <<>> = {}
            OBVIOUS
        <3>2. \A name : name \notin Names(<<>>)
            BY <3>1, NamesFacts, Zenon
        <3> QED BY <3>2
    <2>2. bl # <<>> /\ Len(bl) <= 1 => Names(bl) = {}
        BY <1>2, EmptyBlob, Zenon
    <2> QED BY <1>1, <2>1, <2>2, Zenon
<1>5. ASSUME NEW L, LoadOver(~errors, rings[to]), in = <<>> \/ errors \/ ~(Len(in) > 1),
             L = IF ~errors /\ rings[to].keys # <<>> /\ to \in Rings THEN loaded \cup {to} ELSE loaded
      PROVE  \A r \in L : \A name \in Names(file[r].blobs) : Reaches(fmt, r, rings[r], name)
    <2> SUFFICES ASSUME NEW r \in L, NEW name \in Names(file[r].blobs) PROVE Reaches(fmt, r, rings[r], name)
        OBVIOUS
    <2>1. CASE r \in loaded
        BY <1>0, <2>1 DEF LoadedKept
    <2>2. CASE r \notin loaded
        <3>1. r = to /\ to \in Rings /\ ~errors
            BY <1>5, <2>2
        <3>2. Names(in) = {}
            <4>1. Len(in) \in Nat
                BY <1>0 DEF Blobs
            <4> QED BY <1>4, <1>5, <3>1, <4>1
        <3> QED BY <1>0, <3>1, <3>2 DEF InputKept
    <2> QED BY <2>1, <2>2
<1>6. CASE LoadOver(~errors, rings[to]) /\ (in = <<>> \/ errors \/ ~(Len(in) > 1))
    <2>1. loaded' = IF ~errors /\ rings[to].keys # <<>> /\ to \in Rings THEN loaded \cup {to} ELSE loaded
        BY <1>6 DEF LoadOver
    <2>2. \A r \in loaded' : \A name \in Names(file[r].blobs) : Reaches(fmt, r, rings[r], name)
        BY <1>5, <1>6, <2>1
    <2>3. FilesLed'
        BY <1>0, Zenon DEF FilesLed
    <2>4. \/ /\ to = "pub" /\ Open("sec", file["sec"].blobs)
             /\ rings' = [rings EXCEPT !["pub"] = rings[to], !["sec"] = rnp_key_store_clear(@)]
          \/ /\ rings' = [rings EXCEPT ![to] = rings[to]] /\ pc' \in {"ready", "import", "clean"}
        BY <1>6 DEF LoadOver
    <2>5. CASE rings' = [rings EXCEPT ![to] = rings[to]] /\ pc' \in {"ready", "import", "clean"}
        <3>1. rings' = rings /\ fmt' = fmt /\ file' = file
            BY <1>0, <2>5 DEF TypeOK
        <3>2. LoadedKept'
            BY <2>2, <3>1 DEF LoadedKept
        <3>3. InputKept' /\ ImageKept'
            BY <2>5 DEF InputKept, ImageKept
        <3> QED BY <2>3, <3>2, <3>3, Zenon DEF Kept
    <2>6. CASE /\ to = "pub" /\ Open("sec", file["sec"].blobs)
               /\ rings' = [rings EXCEPT !["pub"] = rings[to], !["sec"] = rnp_key_store_clear(@)]
        <3>1. loaded' \subseteq {"pub"}
            BY <1>0, <2>1, <2>6 DEF Control
        <3>2. rings'["pub"] = rings["pub"] /\ fmt' = fmt /\ file' = file
            BY <1>0, <2>6 DEF TypeOK, AllRings, Rings
        <3>3. LoadedKept'
            <4>1. ASSUME NEW r \in loaded' PROVE rings'[r] = rings[r]
                BY <3>1, <3>2
            <4> QED BY <2>2, <3>2, <4>1 DEF LoadedKept
        <3>4. pc' = "load" /\ to' = "sec" /\ in' = file["sec"].blobs /\ "sec" \in Rings
            BY <2>6 DEF Open, Rings
        <3>5. ImageKept'
            BY <3>4 DEF ImageKept
        <3>6. InputKept'
            <4>1. in' = file'[to'].blobs
                BY <3>2, <3>4
            <4>2. fmt' = "KBX" => \A b \in DOMAIN file["sec"].blobs : Led(file["sec"].blobs[b])
                BY <1>0, <3>2, <3>4 DEF FilesLed
            <4>3. \A name \in Names(file'[to'].blobs) : name \in Names(in')
                BY <4>1
            <4>4. fmt' = "KBX" => \A b \in DOMAIN in' : Led(in'[b])
                BY <3>4, <4>2
            <4> QED BY <4>3, <4>4, Zenon DEF InputKept
        <3> QED BY <2>3, <3>3, <3>5, <3>6, Zenon DEF Kept
    <2> QED BY <2>4, <2>5, <2>6
<1>7. \/ in # <<>> /\ in' = Tail(in) /\ cb' = NoKey /\ UNCHANGED <<pc, to, errors, loaded, rings>>
      \/ LoadOver(~errors, rings[to]) /\ (in = <<>> \/ errors \/ ~(Len(in) > 1))
    BY Zenon DEF EndOfBlob
<1> QED BY <1>3, <1>6, <1>7

\* The key packets of the keys that are written.
LEMMA WrittenNames ==
    ASSUME NEW k \in Seq(Keys), \A n \in DOMAIN k : InStep(k[n]), Writable(k)
    PROVE  LET w == pgp_key_write_packets(k) IN
           /\ w \in Seq(Packets)
           /\ \A n \in DOMAIN w : IsKey(w[n]) => \E m \in DOMAIN k : w[n].name = k[m].name
           /\ \A m \in DOMAIN k : \E n \in DOMAIN w : IsKey(w[n]) /\ w[n].name = k[m].name
           /\ k # <<>> => w # <<>> /\ IsKey(w[1]) /\ w[1].name = k[1].name
<1>1. PICK s : s = [n \in DOMAIN k |-> k[n].pkts]
    OBVIOUS
<1>2. PICK S : S = {p \in Packets : IsKey(p) => \E m \in DOMAIN k : p.name = k[m].name}
    OBVIOUS
<1>3. ASSUME NEW n \in DOMAIN k
      PROVE  /\ k[n].pkts \in Seq(Packets) /\ k[n].pkts # <<>> /\ k[n].pkts[1] = KeyPacket(k[n].name, k[n].sec)
             /\ \A m \in DOMAIN k[n].pkts : IsKey(k[n].pkts[m]) => m = 1
             /\ IsKey(k[n].pkts[1]) /\ k[n].pkts[1].name = k[n].name
    <2>1. k[n] \in Keys /\ InStep(k[n]) /\ k[n].pkts # <<>>
        BY DEF Writable
    <2>2. k[n].pkts \in Seq(Packets)
        BY <2>1 DEF Keys
    <2>3. k[n].pkts[1] = KeyPacket(k[n].name, k[n].sec) /\ PacketsOf(k[n], "key") \subseteq {1}
        BY <2>1, Zenon DEF InStep
    <2>4. ASSUME NEW m \in DOMAIN k[n].pkts, IsKey(k[n].pkts[m]) PROVE m = 1
        <3>1. m \in PacketsOf(k[n], "key")
            BY <2>4, Zenon DEF PacketsOf, IsKey
        <3> QED BY <2>3, <3>1
    <2>5. IsKey(k[n].pkts[1]) /\ k[n].pkts[1].name = k[n].name
        BY <2>3 DEF KeyPacket, IsKey
    <2> QED BY <2>1, <2>2, <2>3, <2>4, <2>5
<1>4. ASSUME NEW n \in DOMAIN k PROVE k[n].pkts \in Seq(S)
    <2>1. PICK t \in Seq(Packets) : t = k[n].pkts
        BY <1>3
    <2>2. \A m \in DOMAIN t : t[m] \in Packets
        OBVIOUS
    <2>3. \A m \in DOMAIN t : t[m] \in S
        <3>1. \A m \in DOMAIN t : IsKey(t[m]) => t[m].name = k[n].name
            BY <1>3, <2>1, Zenon
        <3> QED BY <1>2, <2>2, <3>1, Zenon
    <2>4. t \in Seq(S)
        BY <2>3
    <2> QED BY <2>1, <2>4
<1>5. s \in Seq(Seq(S)) /\ Len(s) = Len(k) /\ \A n \in DOMAIN k : s[n] = k[n].pkts
    <2>1. DOMAIN k = 1 .. Len(k) /\ Len(k) \in Nat
        OBVIOUS
    <2>2. s \in [1 .. Len(k) -> Seq(S)] /\ \A n \in DOMAIN k : s[n] = k[n].pkts
        BY <1>1, <1>4, <2>1
    <2> HIDE <1>1, <1>4
    <2>3. s \in Seq(Seq(S)) /\ Len(s) = Len(k)
        BY <2>1, <2>2
    <2> QED BY <2>2, <2>3
<1>6. PICK w : w = FlattenSeq(s)
    OBVIOUS
<1>7. /\ w \in Seq(S)
      /\ \A i \in 1 .. Len(s) : \A j \in DOMAIN s[i] : \E n \in DOMAIN w : w[n] = s[i][j]
      /\ (Len(s) > 0 /\ s[1] # <<>>) => w # <<>> /\ w[1] = s[1][1]
    <2>1. s \in Seq(Seq(S))
        BY <1>5
    <2> QED BY <1>6, <2>1, FlattenFacts
<1>8. w = pgp_key_write_packets(k)
    BY <1>1, <1>6, Zenon DEF pgp_key_write_packets
<1>9. w \in Seq(Packets)
    <2>1. S \subseteq Packets
        BY <1>2
    <2>2. \A n \in DOMAIN w : w[n] \in Packets
        BY <1>7, <2>1
    <2> QED BY <1>7, <2>2
<1>10. ASSUME NEW n \in DOMAIN w, IsKey(w[n]) PROVE \E m \in DOMAIN k : w[n].name = k[m].name
    <2>1. w[n] \in S
        BY <1>7
    <2> QED BY <1>2, <1>10, <2>1, Zenon
<1>11. ASSUME NEW m \in DOMAIN k PROVE \E n \in DOMAIN w : IsKey(w[n]) /\ w[n].name = k[m].name
    <2>1. m \in 1 .. Len(s) /\ s[m] = k[m].pkts
        BY <1>5
    <2>2. 1 \in DOMAIN s[m]
        BY <1>3, <2>1
    <2>3. PICK n \in DOMAIN w : w[n] = s[m][1]
        BY <1>7, <2>1, <2>2, Zenon
    <2>4. IsKey(k[m].pkts[1]) /\ k[m].pkts[1].name = k[m].name
        BY <1>3
    <2>5. w[n] = k[m].pkts[1]
        BY <2>1, <2>3
    <2> QED BY <2>4, <2>5
<1>12. ASSUME k # <<>> PROVE w # <<>> /\ IsKey(w[1]) /\ w[1].name = k[1].name
    <2>1. 1 \in DOMAIN k /\ Len(s) > 0
        BY <1>5, <1>12
    <2>2. s[1] = k[1].pkts
        BY <1>5, <2>1, Zenon
    <2>3. w # <<>> /\ w[1] = s[1][1]
        BY <1>3, <1>7, <2>1, <2>2
    <2> QED BY <1>3, <2>1, <2>2, <2>3, ZenonT(60)
<1> QED BY <1>8, <1>9, <1>10, <1>11, <1>12, Zenon

\* A blob that begins with a primary key.
LEMMA LedStart ==
    ASSUME NEW b \in Seq(Packets), b # <<>>, IsKey(b[1]), ~IsSub(b[1].name)
    PROVE  Led(b)
<1> SUFFICES ASSUME NEW n \in DOMAIN b, IsKey(b[n]), IsSub(b[n].name)
             PROVE  \E m \in 1 .. n - 1 : IsKey(b[m]) /\ ~IsSub(b[m].name)
    BY Zenon DEF Led
<1>1. n # 1
    OBVIOUS
<1>2. 1 \in 1 .. n - 1
    BY <1>1
<1> QED BY <1>2, Zenon

\* A pointer of a ring leads to a key that the save reaches.
LEMMA DerefReaches ==
    ASSUME IInv, pc = "save", NEW r \in Rings, fmt = "KBX", NEW n \in DOMAIN rings[r].keys,
           NEW m \in DOMAIN rings[r].keys[n].subs
    PROVE  LET p == rings[r].keys[n].subs[m] IN
           /\ InStep(Deref(p)) /\ Reaches(fmt, r, rings[r], Deref(p).name)
           /\ p.ring = r => Deref(p) = rings[r].keys[p.idx]
           /\ p = Stack => Deref(p).name = Fresh[2]
<1>1. PICK p : p = rings[r].keys[n].subs[m]
    OBVIOUS
<1>2. Within(r, rings[r], p) \/ p = Stack
    BY <1>1 DEF IInv, Linked, RingsLinked
<1>3. r \in AllRings /\ r # "stack"
    BY DEF AllRings, Rings
<1>4. p.ring = r => Deref(p) = rings[r].keys[p.idx]
    BY <1>3, Zenon DEF Deref
<1>5. ASSUME p = Stack PROVE InStep(Deref(p)) /\ Deref(p).name = Fresh[2]
    <2>1. (to = "sec") \in BOOLEAN /\ 2 \in {1, 2}
        OBVIOUS
    <2>2. InStep(Generated(2, to = "sec")) /\ Generated(2, to = "sec").name = Fresh[2]
        BY <2>1, GeneratedFacts
    <2>3. p.ring = "stack"
        BY <1>5 DEF Stack
    <2> QED BY <2>2, <2>3, Zenon DEF Deref
<1>6. CASE p = Stack
    <2>1. Reaches(fmt, r, rings[r], Deref(p).name)
        BY <1>1, <1>5, <1>6, Zenon DEF Reaches
    <2> QED BY <1>1, <1>4, <1>5, <1>6, <2>1, Zenon
<1>7. CASE Within(r, rings[r], p)
    <2>1. p.ring = r /\ p.idx \in DOMAIN rings[r].keys
        BY <1>7, Zenon DEF Within
    <2>2. Deref(p) = rings[r].keys[p.idx]
        BY <1>4, <2>1
    <2>3. InStep(Deref(p))
        BY <1>3, <2>1, <2>2, Zenon DEF IInv, AttributesInStep
    <2>4. Reaches(fmt, r, rings[r], Deref(p).name)
        BY <1>1, <2>1, <2>2, Zenon DEF Reaches
    <2> QED BY <1>1, <1>4, <1>5, <2>3, <2>4, Zenon
<1> QED BY <1>2, <1>6, <1>7

\* The keys that a save writes are those it reaches, a primary key first in a blob.
LEMMA SavedKeys ==
    ASSUME IInv, pc = "save", NEW r \in Rings, Followable(rings[r])
    PROVE  LET w == rnp_key_store_write_to_mem(rings[r]) IN
           /\ \A b \in DOMAIN w : \A l \in DOMAIN w[b] : InStep(w[b][l]) /\ Reaches(fmt, r, rings[r], w[b][l].name)
           /\ \A name : Reaches(fmt, r, rings[r], name) =>
                 \E b \in DOMAIN w : \E l \in DOMAIN w[b] : w[b][l].name = name
           /\ fmt = "KBX" => \A b \in DOMAIN w : w[b] # <<>> /\ ~IsSub(w[b][1].name)
<1>0. TypeOK /\ AttributesInStep /\ Linked /\ r \in AllRings
    BY Zenon DEF IInv, AllRings
<1>1. PICK ring \in RingType : ring = rings[r]
    BY <1>0 DEF TypeOK
<1>2. PICK w : w = rnp_key_store_write_to_mem(rings[r])
    OBVIOUS
<1>3. Bare(ring) /\ \A n \in DOMAIN ring.keys : InStep(ring.keys[n])
    BY <1>0, <1>1, Zenon DEF AttributesInStep, Linked
<1>4. CASE fmt = "GPG"
    <2>1. w = <<ring.keys>>
        BY <1>1, <1>2, <1>4, Zenon DEF rnp_key_store_write_to_mem
    <2>2. DOMAIN w = {1} /\ w[1] = ring.keys /\ fmt # "KBX"
        BY <1>4, <2>1
    <2>3. \A n \in DOMAIN ring.keys : InStep(ring.keys[n]) /\ Reaches(fmt, r, ring, ring.keys[n].name)
        BY <1>3, <1>4, Zenon DEF Reaches
    <2>4. ASSUME NEW name, Reaches(fmt, r, ring, name) PROVE \E n \in DOMAIN ring.keys : ring.keys[n].name = name
        BY <2>2, <2>4, Zenon DEF Reaches
    <2> QED BY <1>1, <1>2, <2>2, <2>3, <2>4
<1>5. CASE fmt # "GPG"
    <2>0. fmt = "KBX"
        BY <1>0, <1>5, KeyStoreAssumption DEF TypeOK
    <2>1. PICK P : P = PrimaryKeys(ring)
        OBVIOUS
    <2>2. /\ P \in Seq(Primaries(ring))
          /\ \A n \in DOMAIN ring.keys : ~IsSub(ring.keys[n].name) => \E m \in DOMAIN P : P[m] = ring.keys[n]
        BY <2>1, PrimaryFacts
    <2>3. w = [b \in DOMAIN P |-> rnp_key_store_kbx_write_pgp(P[b])]
        BY <1>1, <1>2, <1>5, <2>1, Zenon DEF rnp_key_store_write_to_mem, rnp_key_store_kbx_to_mem
    <2>4. ASSUME NEW n \in DOMAIN ring.keys, ~IsSub(ring.keys[n].name)
          PROVE  LET g == rnp_key_store_kbx_write_pgp(ring.keys[n]) IN
                 /\ g \in Seq(Keys) /\ Len(g) = Len(ring.keys[n].subs) + 1 /\ g[1] = ring.keys[n]
                 /\ \A m \in DOMAIN ring.keys[n].subs : g[m + 1] = Deref(ring.keys[n].subs[m])
        <3>1. PICK key \in Keys : key = ring.keys[n]
            BY DEF RingType
        <3>2. \A m \in DOMAIN key.subs : Live(key.subs[m])
            BY <1>1, <2>0, <2>4, <3>1, Zenon DEF Followable
        <3>3. LET g == rnp_key_store_kbx_write_pgp(key) IN
              /\ g \in Seq(Keys) /\ Len(g) = Len(key.subs) + 1 /\ g[1] = key
              /\ \A m \in DOMAIN key.subs : g[m + 1] = Deref(key.subs[m])
            BY <1>0, <3>2, GroupFacts
        <3> QED BY <3>1, <3>3, Zenon
    <2>5. ASSUME NEW b \in DOMAIN P
          PROVE  \E n \in DOMAIN ring.keys : P[b] = ring.keys[n] /\ ~IsSub(ring.keys[n].name)
        <3>1. P[b] \in Primaries(ring)
            BY <2>2
        <3> QED BY <3>1, Zenon DEF Primaries
    <2>6. ASSUME NEW n \in DOMAIN ring.keys, NEW m \in DOMAIN ring.keys[n].subs
          PROVE  LET p == ring.keys[n].subs[m] IN
                 /\ InStep(Deref(p)) /\ Reaches(fmt, r, ring, Deref(p).name)
                 /\ p.ring = r => Deref(p) = ring.keys[p.idx]
                 /\ p = Stack => Deref(p).name = Fresh[2]
        BY <1>1, <2>0, DerefReaches
    <2>7. ASSUME NEW b \in DOMAIN w
          PROVE  /\ \A l \in DOMAIN w[b] : InStep(w[b][l]) /\ Reaches(fmt, r, ring, w[b][l].name)
                 /\ w[b] # <<>> /\ ~IsSub(w[b][1].name)
        <3>1. b \in DOMAIN P /\ w[b] = rnp_key_store_kbx_write_pgp(P[b])
            BY <2>3
        <3>2. PICK n \in DOMAIN ring.keys : P[b] = ring.keys[n] /\ ~IsSub(ring.keys[n].name)
            BY <2>5, <3>1
        <3>3. PICK g : g = rnp_key_store_kbx_write_pgp(ring.keys[n])
            OBVIOUS
        <3>4. /\ g \in Seq(Keys) /\ Len(g) = Len(ring.keys[n].subs) + 1 /\ g[1] = ring.keys[n]
              /\ \A m \in DOMAIN ring.keys[n].subs : g[m + 1] = Deref(ring.keys[n].subs[m])
            BY <2>4, <3>2, <3>3, Zenon
        <3>5. PICK s \in Seq(Pointers) : s = ring.keys[n].subs
            <4>1. ring.keys[n] \in Keys
                BY DEF RingType
            <4> QED BY <4>1 DEF Keys
        <3>6. ASSUME NEW l \in DOMAIN g PROVE InStep(g[l]) /\ Reaches(fmt, r, ring, g[l].name)
            <4>1. CASE l = 1
                BY <1>3, <3>2, <3>4, <4>1, Zenon DEF Reaches
            <4>2. CASE l # 1
                <5>1. PICK m \in DOMAIN s : l = m + 1
                    <6>1. Len(g) = Len(s) + 1 /\ l \in 1 .. Len(g) /\ Len(s) \in Nat
                        BY <3>4, <3>5, <3>6
                    <6>2. l - 1 \in DOMAIN s /\ l = (l - 1) + 1
                        BY <4>2, <6>1
                    <6> QED BY <6>2
                <5>2. m \in DOMAIN ring.keys[n].subs /\ g[l] = Deref(ring.keys[n].subs[m])
                    BY <3>4, <3>5, <5>1
                <5> QED BY <2>6, <5>2
            <4> QED BY <4>1, <4>2
        <3>7. w[b] = g
            BY <3>1, <3>2, <3>3
        <3>8. g # <<>>
            BY <3>4, <3>5
        <3> QED BY <3>2, <3>4, <3>6, <3>7, <3>8
    <2>8. ASSUME NEW n \in DOMAIN ring.keys, ~IsSub(ring.keys[n].name)
          PROVE  \E b \in DOMAIN w : /\ \E l \in DOMAIN w[b] : w[b][l].name = ring.keys[n].name
                                     /\ \A m \in DOMAIN ring.keys[n].subs :
                                           \E l \in DOMAIN w[b] : w[b][l] = Deref(ring.keys[n].subs[m])
        <3>1. PICK b \in DOMAIN P : P[b] = ring.keys[n]
            BY <2>2, <2>8
        <3>2. PICK g : g = rnp_key_store_kbx_write_pgp(ring.keys[n])
            OBVIOUS
        <3>3. /\ g \in Seq(Keys) /\ Len(g) = Len(ring.keys[n].subs) + 1 /\ g[1] = ring.keys[n]
              /\ \A m \in DOMAIN ring.keys[n].subs : g[m + 1] = Deref(ring.keys[n].subs[m])
            BY <2>4, <2>8, <3>2, Zenon
        <3>4. b \in DOMAIN w /\ w[b] = g
            BY <2>3, <3>1, <3>2
        <3>5. ring.keys[n].subs \in Seq(Pointers)
            <4>1. ring.keys[n] \in Keys
                BY DEF RingType
            <4> QED BY <4>1 DEF Keys
        <3>6. 1 \in DOMAIN g /\ \A m \in DOMAIN ring.keys[n].subs : m + 1 \in DOMAIN g
            BY <3>3, <3>5
        <3>7. \A m \in DOMAIN ring.keys[n].subs : \E l \in DOMAIN g : g[l] = Deref(ring.keys[n].subs[m])
            BY <3>3, <3>6, Zenon
        <3>8. \E l \in DOMAIN g : g[l].name = ring.keys[n].name
            BY <3>3, <3>6, Zenon
        <3> QED BY <3>4, <3>7, <3>8
    <2>9. ASSUME NEW name, Reaches(fmt, r, ring, name)
          PROVE  \E b \in DOMAIN w : \E l \in DOMAIN w[b] : w[b][l].name = name
        <3>1. PICK n \in DOMAIN ring.keys :
                \/ ring.keys[n].name = name /\ ~IsSub(name)
                \/ \E m \in DOMAIN ring.keys[n].subs :
                      LET p == ring.keys[n].subs[m] IN
                      \/ p.ring = r /\ p.idx \in DOMAIN ring.keys /\ ring.keys[p.idx].name = name
                      \/ p = Stack /\ name = Fresh[2]
            BY <1>5, <2>9, Zenon DEF Reaches
        <3>2. CASE ring.keys[n].name = name /\ ~IsSub(name)
            <4>1. ~IsSub(ring.keys[n].name)
                BY <3>2
            <4> QED BY <2>8, <3>2, <4>1
        <3>3. CASE \E m \in DOMAIN ring.keys[n].subs :
                      LET p == ring.keys[n].subs[m] IN
                      \/ p.ring = r /\ p.idx \in DOMAIN ring.keys /\ ring.keys[p.idx].name = name
                      \/ p = Stack /\ name = Fresh[2]
            <4>1. PICK m \in DOMAIN ring.keys[n].subs :
                      LET p == ring.keys[n].subs[m] IN
                      \/ p.ring = r /\ p.idx \in DOMAIN ring.keys /\ ring.keys[p.idx].name = name
                      \/ p = Stack /\ name = Fresh[2]
                BY <3>3
            <4>2. PICK p : p = ring.keys[n].subs[m]
                OBVIOUS
            <4>3. Deref(p).name = name
                <5>1. /\ p.ring = r => Deref(p) = ring.keys[p.idx]
                      /\ p = Stack => Deref(p).name = Fresh[2]
                    BY <2>6, <4>2, Zenon
                <5>2. \/ p.ring = r /\ ring.keys[p.idx].name = name
                      \/ p = Stack /\ name = Fresh[2]
                    BY <4>1, <4>2, Zenon
                <5> QED BY <5>1, <5>2
            <4>4. ~IsSub(ring.keys[n].name)
                <5>1. DOMAIN ring.keys[n].subs # {} /\ DOMAIN <<>> = {}
                    OBVIOUS
                <5>2. IsSub(ring.keys[n].name) => ring.keys[n].subs = <<>>
                    BY <1>3, Zenon DEF Bare
                <5> QED BY <5>1, <5>2
            <4>5. PICK b \in DOMAIN w : \A f \in DOMAIN ring.keys[n].subs :
                                           \E l \in DOMAIN w[b] : w[b][l] = Deref(ring.keys[n].subs[f])
                BY <2>8, <4>4
            <4>6. PICK l \in DOMAIN w[b] : w[b][l] = Deref(p)
                BY <4>2, <4>5
            <4> QED BY <4>3, <4>6
        <3> QED BY <3>1, <3>2, <3>3
    <2> QED BY <1>1, <1>2, <2>7, <2>9
<1> QED BY <1>4, <1>5

\* The image has the keys that a save of the ring reaches, and its blobs start with a
\* primary key.
LEMMA ImageFacts ==
    ASSUME IInv, Save, pc' = "temp"
    PROVE  /\ \A name : name \in Names(img') <=> Reaches(fmt, to, rings[to], name)
           /\ fmt = "KBX" => \A b \in DOMAIN img' : Led(img'[b])
<1>0. /\ IInv /\ TypeOK /\ to \in Rings /\ Followable(rings[to])
      /\ \A b \in Range(rnp_key_store_write_to_mem(rings[to])) : Writable(b)
      /\ img' = [n \in DOMAIN rnp_key_store_write_to_mem(rings[to]) |->
                   pgp_key_write_packets(rnp_key_store_write_to_mem(rings[to])[n])]
    <2>1. pc = "save" /\ TypeOK /\ Control
        BY Zenon DEF IInv, Save
    <2>2. ~Undefined /\ ~Ends(FALSE)
        BY Zenon DEF Undefined, Ends
    <2> QED BY <2>1, <2>2, Zenon DEF Save, Control
<1>1. PICK r \in Rings : r = to
    BY <1>0
<1>2. PICK w \in Seq(Seq(Keys)) : w = rnp_key_store_write_to_mem(rings[r])
    BY <1>0, <1>1, GroupsTyped, Zenon
<1>3. PICK ring : ring = rings[r]
    OBVIOUS
<1>4. PICK f : f = fmt
    OBVIOUS
<1>5. /\ \A b \in DOMAIN w : \A l \in DOMAIN w[b] : InStep(w[b][l]) /\ Reaches(f, r, ring, w[b][l].name)
      /\ \A name : Reaches(f, r, ring, name) =>
            \E b \in DOMAIN w : \E l \in DOMAIN w[b] : w[b][l].name = name
      /\ f = "KBX" => \A b \in DOMAIN w : w[b] # <<>> /\ ~IsSub(w[b][1].name)
    <2>1. Followable(rings[r]) /\ pc = "save"
        BY <1>0, <1>1 DEF Save
    <2> QED BY <1>2, <1>3, <1>4, <2>1, SavedKeys, ZenonT(60)
<1>6. PICK i : i = [n \in DOMAIN w |-> pgp_key_write_packets(w[n])]
    OBVIOUS
<1>7. img' = i /\ DOMAIN i = DOMAIN w
    BY <1>0, <1>1, <1>2, <1>6
<1>8. ASSUME NEW b \in DOMAIN w
      PROVE  /\ i[b] \in Seq(Packets)
             /\ \A n \in DOMAIN i[b] : IsKey(i[b][n]) => \E m \in DOMAIN w[b] : i[b][n].name = w[b][m].name
             /\ \A m \in DOMAIN w[b] : \E n \in DOMAIN i[b] : IsKey(i[b][n]) /\ i[b][n].name = w[b][m].name
             /\ w[b] # <<>> => i[b] # <<>> /\ IsKey(i[b][1]) /\ i[b][1].name = w[b][1].name
    <2>1. PICK k \in Seq(Keys) : k = w[b]
        OBVIOUS
    <2>2. Writable(k) /\ \A n \in DOMAIN k : InStep(k[n])
        <3>1. w[b] \in Range(w)
            BY Zenon DEF Range
        <3> QED BY <1>0, <1>1, <1>2, <1>5, <2>1, <3>1, Zenon
    <2>3. PICK v : v = pgp_key_write_packets(k)
        OBVIOUS
    <2>4. /\ v \in Seq(Packets)
          /\ \A n \in DOMAIN v : IsKey(v[n]) => \E m \in DOMAIN k : v[n].name = k[m].name
          /\ \A m \in DOMAIN k : \E n \in DOMAIN v : IsKey(v[n]) /\ v[n].name = k[m].name
          /\ k # <<>> => v # <<>> /\ IsKey(v[1]) /\ v[1].name = k[1].name
        BY <2>2, <2>3, WrittenNames
    <2>5. i[b] = v
        BY <1>6, <2>1, <2>3
    <2> QED BY <2>1, <2>4, <2>5
<1>9. \A name : name \in Names(i) <=> Reaches(f, r, ring, name)
    <2> SUFFICES ASSUME NEW name PROVE name \in Names(i) <=> Reaches(f, r, ring, name)
        OBVIOUS
    <2>1. ASSUME name \in Names(i) PROVE Reaches(f, r, ring, name)
        <3>1. PICK b \in DOMAIN i : \E n \in DOMAIN i[b] : IsKey(i[b][n]) /\ i[b][n].name = name
            BY <2>1, NamesFacts
        <3>2. PICK n \in DOMAIN i[b] : IsKey(i[b][n]) /\ i[b][n].name = name
            BY <3>1
        <3>3. b \in DOMAIN w
            BY <1>7
        <3>4. PICK m \in DOMAIN w[b] : name = w[b][m].name
            BY <1>8, <3>2, <3>3, Zenon
        <3> QED BY <1>5, <3>3, <3>4
    <2>2. ASSUME Reaches(f, r, ring, name) PROVE name \in Names(i)
        <3>1. PICK b \in DOMAIN w : \E l \in DOMAIN w[b] : w[b][l].name = name
            BY <1>5, <2>2
        <3>2. PICK l \in DOMAIN w[b] : w[b][l].name = name
            BY <3>1
        <3>3. \A m \in DOMAIN w[b] : \E n \in DOMAIN i[b] : IsKey(i[b][n]) /\ i[b][n].name = w[b][m].name
            BY <1>8
        <3>4. PICK n \in DOMAIN i[b] : IsKey(i[b][n]) /\ i[b][n].name = w[b][l].name
            BY <3>3
        <3>5. b \in DOMAIN i /\ i[b][n].name = name
            BY <1>7, <3>2, <3>4
        <3> QED BY <3>4, <3>5, NamesFacts
    <2> QED BY <2>1, <2>2
<1>10. ASSUME f = "KBX", NEW b \in DOMAIN i PROVE Led(i[b])
    <2>1. b \in DOMAIN w
        BY <1>7
    <2>2. i[b] \in Seq(Packets) /\ i[b] # <<>> /\ IsKey(i[b][1]) /\ ~IsSub(i[b][1].name)
        BY <1>5, <1>8, <1>10, <2>1
    <2>3. PICK c \in Seq(Packets) : c = i[b]
        BY <2>2
    <2>4. Led(c)
        BY <2>2, <2>3, LedStart
    <2> QED BY <2>3, <2>4
<1>11. img' = i /\ f = fmt /\ r = to /\ ring = rings[to]
    BY <1>1, <1>3, <1>4, <1>7
<1>12. \A name : Reaches(f, r, ring, name) <=> Reaches(fmt, to, rings[to], name)
    BY <1>11
<1> QED BY <1>9, <1>10, <1>11, <1>12

\* The image is kept.
LEMMA KeptSave == ASSUME IInv, Kept, Save PROVE Kept'
<1>0. /\ TypeOK /\ LoadedKept /\ pc = "save" /\ pc # "undefined" /\ UNCHANGED <<fmt, rings, to, loaded, file>>
    BY DEF IInv, Save, Kept, OpenTemp
<1>1. CASE Undefined
    BY <1>1, Zenon DEF Kept, Undefined
<1>2. CASE Ends(FALSE)
    <2>1. pc' # "temp" /\ pc' # "load" /\ loaded' \subseteq loaded
        BY <1>0, <1>2 DEF Ends
    <2> QED BY <1>0, <2>1, SamePreserves, KeptFrame
<1>3. CASE pc' = "temp"
    <2>1. LoadedKept' /\ FilesLed'
        BY <1>0, <1>3, SamePreserves, LoadedFrame
    <2>2. /\ \A name : name \in Names(img') <=> Reaches(fmt, to, rings[to], name)
          /\ fmt = "KBX" => \A b \in DOMAIN img' : Led(img'[b])
        BY <1>3, ImageFacts
    <2>3. to \in loaded => Names(file[to].blobs) \subseteq Names(img')
        BY <1>0, <2>2 DEF LoadedKept
    <2>4. ImageKept'
        BY <1>0, <2>2, <2>3 DEF ImageKept
    <2>5. InputKept'
        BY <1>3 DEF InputKept
    <2> QED BY <2>1, <2>4, <2>5, Zenon DEF Kept
<1> QED BY <1>1, <1>2, <1>3, Zenon DEF Save

\* The names in what is left of an image are in the image.
LEMMA CutFacts ==
    ASSUME NEW image \in Blobs, NEW f \in {"GPG", "KBX"}, f = "GPG" => Len(image) = 1, NEW t \in Cuts(f, image)
    PROVE  /\ Names(t) \subseteq Names(image)
           /\ (f = "KBX" /\ \A b \in DOMAIN image : Led(image[b])) => \A b \in DOMAIN t : Led(t[b])
<1>0. PICK stop : stop = Packet("stop")
    OBVIOUS
<1>1. ~IsKey(stop)
    BY <1>0 DEF Packet, IsKey
<1>2. CASE f = "GPG"
    <2>1. PICK s \in Seq(Packets) : s = image[1] /\ 1 \in DOMAIN image
        <3>1. 1 \in 1 .. Len(image)
            BY <1>2
        <3> QED BY <3>1 DEF Blobs
    <2>2. PICK b : \E n \in 0 .. Len(s) - 1 : t = <<b>> /\ (b = SubSeq(s, 1, n) \/ b = Append(SubSeq(s, 1, n), stop))
        <3>1. \E b : \E n \in 0 .. Len(image[1]) - 1 :
                 t = <<b>> /\ (b = SubSeq(image[1], 1, n) \/ b = Append(SubSeq(image[1], 1, n), stop))
            BY <1>0, <1>2, Zenon DEF Cuts
        <3> QED BY <2>1, <3>1, Zenon
    <2>3. PICK n \in 0 .. Len(s) - 1 : t = <<b>> /\ (b = SubSeq(s, 1, n) \/ b = Append(SubSeq(s, 1, n), stop))
        BY <2>2
    <2>4. \A l \in DOMAIN b : b[l] = stop \/ (l \in DOMAIN s /\ b[l] = s[l])
        <3>1. n \in Nat /\ n <= Len(s) /\ Len(s) \in Nat
            OBVIOUS
        <3>2a. SubSeq(s, 1, n) \in Seq(Packets)
            BY <3>1
        <3>2. PICK c \in Seq(Packets) : c = SubSeq(s, 1, n)
            BY <3>2a, Zenon
        <3>3. Len(c) = n /\ \A l \in DOMAIN c : l \in DOMAIN s /\ c[l] = s[l]
            BY <3>1, <3>2
        <3>4. \A l \in DOMAIN Append(c, stop) : Append(c, stop)[l] = stop \/ (l \in DOMAIN c /\ Append(c, stop)[l] = c[l])
            OBVIOUS
        <3> QED BY <2>3, <3>2, <3>3, <3>4
    <2>5. ASSUME NEW name \in Names(t) PROVE name \in Names(image)
        <3>1. PICK d \in DOMAIN t : \E l \in DOMAIN t[d] : IsKey(t[d][l]) /\ t[d][l].name = name
            BY NamesFacts
        <3>2. t[d] = b
            BY <2>3
        <3>3. PICK l \in DOMAIN b : IsKey(b[l]) /\ b[l].name = name
            BY <3>1, <3>2
        <3>4. l \in DOMAIN image[1] /\ b[l] = image[1][l]
            BY <1>1, <2>1, <2>4, <3>3
        <3>5. \E m \in DOMAIN image[1] : IsKey(image[1][m]) /\ image[1][m].name = name
            BY <3>3, <3>4
        <3> QED BY <2>1, <3>5, NamesFacts
    <2> QED BY <1>2, <2>5
<1>3. CASE f = "KBX"
    <2>1. PICK s \in Seq(Seq(Packets)) : s = image
        BY DEF Blobs
    <2>2. PICK n \in 0 .. Len(s) - 1 : t = SubSeq(s, 1, n) \/ t = Append(SubSeq(s, 1, n), <<stop>>)
        BY <1>0, <1>3, <2>1 DEF Cuts
    <2>3. \A b \in DOMAIN t : t[b] = <<stop>> \/ (b \in DOMAIN s /\ t[b] = s[b])
        <3>1. n \in Nat /\ n <= Len(s) /\ Len(s) \in Nat
            OBVIOUS
        <3>2a. SubSeq(s, 1, n) \in Seq(Seq(Packets))
            BY <3>1
        <3>2. PICK c \in Seq(Seq(Packets)) : c = SubSeq(s, 1, n)
            BY <3>2a, Zenon
        <3>3. Len(c) = n /\ \A l \in DOMAIN c : l \in DOMAIN s /\ c[l] = s[l]
            BY <3>1, <3>2
        <3>4. PICK z : z = <<stop>>
            OBVIOUS
        <3>5. \A l \in DOMAIN Append(c, z) : Append(c, z)[l] = z \/ (l \in DOMAIN c /\ Append(c, z)[l] = c[l])
            OBVIOUS
        <3> QED BY <2>2, <3>2, <3>3, <3>4, <3>5
    <2>4. \A l \in DOMAIN <<stop>> : ~IsKey(<<stop>>[l])
        BY <1>1
    <2>5. ASSUME NEW name \in Names(t) PROVE name \in Names(image)
        <3>1. PICK d \in DOMAIN t : \E l \in DOMAIN t[d] : IsKey(t[d][l]) /\ t[d][l].name = name
            BY NamesFacts
        <3>2. t[d] # <<stop>>
            BY <2>4, <3>1
        <3>3. d \in DOMAIN image /\ \E l \in DOMAIN image[d] : IsKey(image[d][l]) /\ image[d][l].name = name
            BY <2>1, <2>3, <3>1, <3>2
        <3> QED BY <3>3, NamesFacts
    <2>6. ASSUME \A b \in DOMAIN image : Led(image[b]), NEW b \in DOMAIN t PROVE Led(t[b])
        <3>1. Led(<<stop>>)
            BY <2>4 DEF Led
        <3> QED BY <2>1, <2>3, <2>6, <3>1
    <2> QED BY <2>5, <2>6
<1> QED BY <1>2, <1>3

\* The ring file is replaced by the image or by a part of it: its keys are those of
\* the ring.  No key of the file is lost if the image is complete.
LEMMA KeptWrite ==
    ASSUME IInv, Kept, pgp_mem_writefile
    PROVE  /\ Kept'
           /\ \A r \in Rings : (file'[r] # file[r] /\ r \in loaded /\ ~torn') => Names(file[r].blobs) \subseteq Names(file'[r].blobs)
<1>0. /\ TypeOK /\ Control /\ LoadedKept /\ FilesLed /\ ImageKept
      /\ pc = "temp" /\ to \in Rings /\ (fmt = "GPG" => Len(img) = 1)
      /\ UNCHANGED <<fmt, rings, loaded>>
    BY DEF IInv, pgp_mem_writefile, Control, Kept
<1>1. pc' \in {"save", "clean", "ready"}
    BY DEF pgp_mem_writefile, Ends
<1>2. PICK t : \/ t = img /\ Replace(t) /\ torn' = torn
               \/ t \in Cuts(fmt, img) /\ Replace(t) /\ torn' = TRUE
               \/ file' = file
    BY Zenon DEF pgp_mem_writefile
<1>3. InputKept' /\ ImageKept'
    BY <1>1 DEF InputKept, ImageKept
<1>4. CASE file' = file
    <2>1. pc # "undefined" /\ loaded' \subseteq loaded
        BY <1>0
    <2>2. LoadedKept' /\ FilesLed'
        BY <1>0, <1>4, <2>1, SamePreserves, LoadedFrame
    <2> QED BY <1>3, <1>4, <2>2, Zenon DEF Kept
<1>5. CASE file' # file
    <2>1. Replace(t) /\ (t = img \/ t \in Cuts(fmt, img)) /\ (t # img => torn')
        BY <1>2, <1>5
    <2>2. fmt \in {"GPG", "KBX"} /\ img \in Blobs
        BY <1>0, KeyStoreAssumption DEF TypeOK
    <2>3. PICK i \in Blobs : i = img
        BY <2>2
    <2>4. PICK f \in {"GPG", "KBX"} : f = fmt
        BY <2>2
    <2>5. /\ Names(t) \subseteq Names(i)
          /\ (f = "KBX" /\ \A b \in DOMAIN i : Led(i[b])) => \A b \in DOMAIN t : Led(t[b])
        <3>1. CASE t = img
            BY <2>3, <3>1
        <3>2. CASE t \in Cuts(fmt, img)
            <4>1. t \in Cuts(f, i) /\ (f = "GPG" => Len(i) = 1)
                BY <1>0, <2>3, <2>4, <3>2
            <4> QED BY <4>1, CutFacts
        <3> QED BY <2>1, <3>1, <3>2
    <2>6. /\ file'[to].blobs = t /\ \A r \in Rings : r # to => file'[r] = file[r]
        BY <1>0, <2>1 DEF Replace, TypeOK
    <2>7. /\ \A name \in Names(i) : Reaches(f, to, rings[to], name)
          /\ to \in loaded => Names(file[to].blobs) \subseteq Names(i)
          /\ f = "KBX" => \A b \in DOMAIN i : Led(i[b])
        BY <1>0, <2>3, <2>4 DEF ImageKept
    <2>8. LoadedKept'
        <3> SUFFICES ASSUME NEW r \in loaded, NEW name \in Names(file'[r].blobs) PROVE Reaches(f, r, rings[r], name)
            <4>1. fmt' = f /\ rings' = rings /\ loaded' = loaded
                BY <1>0, <2>4
            <4> QED BY <4>1 DEF LoadedKept
        <3>1. r \in Rings
            BY <1>0 DEF TypeOK
        <3>2. CASE r = to
            BY <2>5, <2>6, <2>7, <3>2
        <3>3. CASE r # to
            BY <1>0, <2>4, <2>6, <3>1, <3>3 DEF LoadedKept
        <3> QED BY <3>2, <3>3
    <2>9. FilesLed'
        <3> SUFFICES ASSUME f = "KBX", NEW r \in Rings, NEW b \in DOMAIN file'[r].blobs PROVE Led(file'[r].blobs[b])
            <4>1. fmt' = f
                BY <1>0, <2>4
            <4> QED BY <4>1 DEF FilesLed
        <3>1. CASE r = to
            BY <2>5, <2>6, <2>7, <3>1
        <3>2. CASE r # to
            BY <1>0, <2>4, <2>6, <3>2 DEF FilesLed
        <3> QED BY <3>1, <3>2
    <2>10. ASSUME NEW r \in Rings, file'[r] # file[r], r \in loaded, ~torn'
           PROVE  Names(file[r].blobs) \subseteq Names(file'[r].blobs)
        <3>1. r = to /\ t = i
            BY <2>1, <2>3, <2>6, <2>10
        <3> QED BY <2>6, <2>7, <2>10, <3>1
    <2> QED BY <1>3, <2>8, <2>9, <2>10, Zenon DEF Kept
<1> QED BY <1>4, <1>5

\* Nothing is loaded at first.
LEMMA KeptInit == Init => Kept
<1> SUFFICES ASSUME Init PROVE Kept
    OBVIOUS
<1>0. fmt \in Formats /\ pc = "off" /\ loaded = {}
    BY Zenon DEF Init
<1>1. PICK p \in Files : \E s \in Files : file = [r \in Rings |->
                  LET c == IF r = "pub" THEN p ELSE s
                  IN  IF c = <<>> THEN NoFile
                      ELSE [there |-> TRUE, blobs |-> Contents(fmt, c, r = "sec")]]
    BY Zenon DEF Init
<1>2. PICK s \in Files : file = [r \in Rings |->
                  LET c == IF r = "pub" THEN p ELSE s
                  IN  IF c = <<>> THEN NoFile
                      ELSE [there |-> TRUE, blobs |-> Contents(fmt, c, r = "sec")]]
    BY <1>1, Zenon
<1>3. ASSUME fmt = "KBX", NEW r \in Rings, NEW b \in DOMAIN file[r].blobs PROVE Led(file[r].blobs[b])
    <2>1. PICK c \in Files : file[r] = IF c = <<>> THEN NoFile
                                       ELSE [there |-> TRUE, blobs |-> Contents(fmt, c, r = "sec")]
        BY <1>2
    <2>2. CASE c = <<>>
        <3>1. file[r].blobs = <<>>
            BY <2>1, <2>2 DEF NoFile
        <3> QED BY <1>3, <3>1
    <2>3. CASE c # <<>>
        <3>1. file[r].blobs = Contents(fmt, c, r = "sec")
            BY <2>1, <2>3
        <3>2. (r = "sec") \in BOOLEAN
            OBVIOUS
        <3>3. \A d \in DOMAIN Contents(fmt, c, r = "sec") : Led(Contents(fmt, c, r = "sec")[d])
            BY <1>0, <1>3, <3>2, FilesAssumption
        <3> QED BY <1>3, <3>1, <3>3
    <2> QED BY <2>2, <2>3
<1>4. FilesLed
    BY <1>3, Zenon DEF FilesLed
<1>5. LoadedKept /\ InputKept /\ ImageKept
    BY <1>0 DEF LoadedKept, InputKept, ImageKept
<1> QED BY <1>4, <1>5, Zenon DEF Kept

\* Every step keeps the keys of the files that were loaded.
LEMMA KeptNext == IInv /\ Kept /\ [Next]_vars => Kept'
<1> SUFFICES ASSUME IInv, Kept, [Next]_vars PROVE Kept'
    OBVIOUS
<1>1. CASE Start \/ cb_keyring_parse \/ OtherPacket \/ EndOfBlob
    BY <1>1, KeptStart, KeptKey, KeptOther, KeptEndOfBlob
<1>2. CASE rnp_import_key \/ SubkeysDone \/ ImportDone \/ rnp_generate_key
    BY <1>2, KeptQuiet
<1>3. CASE ImportKey \/ ImportSubkey \/ RemoveImported \/ rnp_key_store_free \/ AddGenerated
    BY <1>3, KeptImportKey, KeptImportSubkey, KeptRemove, KeptFree, KeptGenerated
<1>4. CASE Save \/ pgp_mem_writefile
    BY <1>4, KeptSave, KeptWrite
<1>5. CASE find_suitable_subkey
    BY <1>5, Zenon DEF find_suitable_subkey, Undefined, Kept
<1>6. CASE Exit \/ Crash
    <2>1. pc # "undefined" /\ Stops
        BY <1>6 DEF Exit, Crash
    <2> QED BY <2>1, KeptStops
<1>7. CASE UNCHANGED vars
    <2>1. UNCHANGED <<fmt, file, rings, pc, in, to, cb, errors, loaded, img>>
        BY <1>7 DEF vars
    <2> QED BY <2>1, Zenon DEF Kept, LoadedKept, FilesLed, InputKept, ImageKept
<1> QED BY <1>1, <1>2, <1>3, <1>4, <1>5, <1>6, <1>7, Zenon DEF Next, Over

\* Only the end of a save changes a ring file, and it drops no key.
LEMMA SurviveStep ==
    ASSUME IInv, Kept, Next, NEW r \in Rings, file'[r] # file[r], r \in loaded, ~torn'
    PROVE  Names(file[r].blobs) \subseteq Names(file'[r].blobs)
<1>1. file' # file
    OBVIOUS
<1>2. ~(Save \/ Crash \/ Over)
    BY <1>1, Zenon DEF Save, OpenTemp, Ends, Crash, Stops, Over, vars
<1>3. pgp_mem_writefile
    BY <1>1, <1>2, QuietSteps, Zenon DEF Next
<1> QED BY <1>3, KeptWrite

\* KeysSurvive: a save (rnp_key_store_write_to_file, pgp_mem_writefile) of a ring
\* that this process has loaded drops no key from its file, for every content of
\* the files, in both formats, over any number of imports, generated keys and
\* restarts; the exceptions are those the property names.
THEOREM NoKeyIsLost == Spec => KeysSurvive
<1>1. Init => IInv /\ Kept
    BY InitStep, KeptInit
<1>2. IInv /\ Kept /\ [Next]_vars => (IInv /\ Kept)'
    BY NextStep, KeptNext
<1>3. IInv /\ Kept /\ [Next]_vars =>
        [\A r \in Rings : (file'[r] # file[r] /\ r \in loaded /\ ~torn') => Names(file[r].blobs) \subseteq Names(file'[r].blobs)]_vars
    BY SurviveStep
<1> QED BY <1>1, <1>2, <1>3, PTL DEF Spec, KeysSurvive
-----------------------------------------------------------------------------
(* An import that succeeds has saved the keys of the file. *)

\* Outside of an import the invariant is about the files alone.
LEMMA SentIdle ==
    ASSUME ~Underway', Operates', ImportSaved'
    PROVE  Sent'
BY Zenon DEF Sent, InputLeft, TmpWasRead, LastWasRead, Brought, RingsHad, Written

\* What is said of the file that is imported, and of the rings before it.
LEMMA SameInput ==
    ASSUME UNCHANGED <<inp, had>>, NEW b, NEW n
    PROVE  (CameBefore(b, n)' <=> CameBefore(b, n)) /\ (PassedOver(b, n)' <=> PassedOver(b, n))
<1>1. inp' = inp /\ had' = had
    OBVIOUS
<1>2. CameBefore(b, n)' <=> CameBefore(b, n)
    BY <1>1 DEF CameBefore
<1>3. (inp[b][n].name \in had[RingOf(inp[b][n])])' <=> inp[b][n].name \in had[RingOf(inp[b][n])]
    BY <1>1 DEF RingOf
<1> QED BY <1>2, <1>3, Zenon DEF PassedOver

\* What was brought stays so, and what was read in this step is brought.
LEMMA BroughtStep ==
    ASSUME Underway, Brought, Underway', UNCHANGED <<fmt, inp, had>>,
           \A p : KeyBrought(p) => KeyBrought(p)',
           \A p, name : (/\ fmt = "KBX" /\ ~IsSub(p.name) /\ p.name \notin had[RingOf(p)]
                         /\ SubkeyBrought(p, name)) => SubkeyBrought(p, name)',
           \A b \in DOMAIN inp : \A n \in DOMAIN inp[b] :
               (IsKey(inp[b][n]) /\ WasRead(b, n)') => WasRead(b, n) \/ PacketBrought(b, n)'
    PROVE  Brought'
<1>0. inp' = inp /\ had' = had /\ fmt' = fmt
    OBVIOUS
<1> SUFFICES ASSUME NEW b \in DOMAIN inp, NEW n \in DOMAIN inp[b], IsKey(inp[b][n]), WasRead(b, n)'
             PROVE  PacketBrought(b, n)'
    BY <1>0 DEF Brought
<1>1. CASE PacketBrought(b, n)'
    BY <1>1
<1>2. CASE WasRead(b, n)
    <2>1. PacketBrought(b, n)
        BY <1>2, Zenon DEF Brought
    <2>2. PICK p : p = inp[b][n]
        OBVIOUS
    <2>3. KeyBrought(p)'
        BY <2>1, <2>2, Zenon DEF PacketBrought
    <2>4. ASSUME fmt = "KBX", IsSub(p.name), NEW m \in DOMAIN inp[b], PrimaryOf(inp[b], m, n)
          PROVE  \/ PassedOver(b, m)' \/ inp[b][m].sec # p.sec
                 \/ SubkeyBrought(inp[b][m], p.name)'
        <3>1. \/ PassedOver(b, m) \/ inp[b][m].sec # p.sec
              \/ SubkeyBrought(inp[b][m], p.name)
            BY <2>1, <2>2, <2>4, Zenon DEF PacketBrought
        <3>2. PassedOver(b, m)' <=> PassedOver(b, m)
            BY SameInput
        <3>3. PICK q : q = inp[b][m]
            OBVIOUS
        <3>4. ~IsSub(q.name) /\ (q.name \in had[RingOf(q)] => PassedOver(b, m))
            BY <2>4, <3>3, Zenon DEF PrimaryOf, PassedOver
        <3>5. SubkeyBrought(q, p.name) /\ q.name \notin had[RingOf(q)] => SubkeyBrought(q, p.name)'
            BY <2>4, <3>4, Zenon
        <3>6. SubkeyBrought(q, p.name)' => SubkeyBrought(inp[b][m], p.name)'
            <4>1. q = inp[b][m] /\ inp'[b][m] = inp[b][m]
                BY <1>0, <3>3
            <4> QED BY <4>1
        <3> QED BY <3>1, <3>2, <3>3, <3>4, <3>5, <3>6
    <2> QED BY <1>0, <2>2, <2>3, <2>4 DEF PacketBrought
<1> QED BY <1>1, <1>2

\* A packet is read: the place behind it is the place of the next one.
LEMMA ReadFacts ==
    ASSUME TypeOK, InputLeft, Underway, pc = "load", pc' = "load", Blob # <<>>, inp' = inp,
           in' = [in EXCEPT ![1] = Tail(@)]
    PROVE  /\ in # <<>> /\ in' # <<>> /\ Here \in DOMAIN inp /\ Past \in Nat
           /\ Past + 1 \in DOMAIN inp[Here] /\ inp[Here][Past + 1] = Head(Blob)
           /\ Here' = Here /\ Past' = Past + 1 /\ InputLeft'
           /\ \A b \in DOMAIN inp : \A n \in DOMAIN inp[b] :
                 /\ WasRead(b, n) => b < Here \/ (b = Here /\ n < Past + 1)
                 /\ WasRead(b, n)' <=> WasRead(b, n) \/ (b = Here /\ n = Past + 1)
<1>1. PICK s \in Seq(Seq(Packets)) : s = in
    BY DEF TypeOK, Blobs
<1>2. PICK i \in Seq(Seq(Packets)) : i = inp
    BY DEF TypeOK, Blobs
<1>3. s # <<>> /\ s[1] \in Seq(Packets) /\ s[1] # <<>> /\ Head(Blob) = Head(s[1]) /\ 1 \in DOMAIN s
    <2>1. s # <<>> /\ s[1] # <<>> /\ Blob = s[1]
        BY <1>1, BlobFacts
    <2> QED BY <2>1
<1>4. PICK f \in Seq(Packets) : f = s[1]
    BY <1>3
<1>5. PICK q : q = [s EXCEPT ![1] = Tail(f)]
    OBVIOUS
<1>6. in' = q /\ Len(q) = Len(s) /\ q # <<>> /\ q[1] = Tail(f) /\ DOMAIN q = DOMAIN s
      /\ (\A b \in DOMAIN s : b # 1 => q[b] = s[b])
    BY <1>1, <1>3, <1>4, <1>5
<1>7. PICK h : h = Len(i) - Len(s) + 1
    OBVIOUS
<1>8. PICK t : t = Len(i[h]) - Len(f)
    OBVIOUS
<1>9. Here = h /\ Past = t
    BY <1>1, <1>2, <1>4, <1>7, <1>8 DEF Here, Past
<1>10. /\ Len(s) <= Len(i) /\ Len(f) <= Len(i[h])
       /\ \A n \in DOMAIN f : f[n] = i[h][t + n]
       /\ \A b \in DOMAIN s : b > 1 => s[b] = i[h + b - 1]
    BY <1>1, <1>2, <1>3, <1>4, <1>9 DEF InputLeft
<1>11. Len(s) \in Nat /\ Len(s) > 0 /\ Len(i) \in Nat
    BY <1>3
<1>12. h \in DOMAIN i /\ h \in Nat
    BY <1>7, <1>10, <1>11
<1>13. PICK c \in Seq(Packets) : c = i[h]
    BY <1>12
<1>14. Len(f) \in Nat /\ Len(f) > 0 /\ Len(c) \in Nat /\ t = Len(c) - Len(f) /\ t \in Nat
    BY <1>3, <1>4, <1>8, <1>10, <1>13
<1>15. t + 1 \in DOMAIN c /\ c[t + 1] = Head(f)
    <2>1. 1 \in DOMAIN f /\ Head(f) = f[1]
        BY <1>14
    <2> QED BY <1>10, <1>13, <1>14, <2>1
<1>16. Len(q[1]) = Len(f) - 1 /\ \A n \in DOMAIN q[1] : n \in Nat /\ n + 1 \in DOMAIN f /\ q[1][n] = f[n + 1]
    <2>1. PICK v : v = Tail(f)
        OBVIOUS
    <2>2. f # <<>>
        BY <1>14
    <2>3. Len(v) = Len(f) - 1 /\ \A n \in DOMAIN v : n \in Nat /\ n + 1 \in DOMAIN f /\ v[n] = f[n + 1]
        BY <2>1, <2>2
    <2> QED BY <1>6, <2>1, <2>3
<1>17. Here' = h /\ Past' = t + 1
    <2>1. Here' = h
        BY <1>2, <1>6, <1>7 DEF Here
    <2>2. Past' = Len(c) - Len(q[1])
        BY <1>2, <1>6, <1>13, <2>1 DEF Past
    <2> QED BY <1>14, <1>16, <2>1, <2>2
<1>18. InputLeft'
    <2>1. Len(in') <= Len(inp') /\ in' # <<>>
        BY <1>2, <1>6, <1>10
    <2>2. Len(in'[1]) <= Len(inp'[Here'])
        BY <1>2, <1>6, <1>10, <1>13, <1>14, <1>16, <1>17
    <2>3. \A n \in DOMAIN in'[1] : in'[1][n] = inp'[Here'][Past' + n]
        <3> SUFFICES ASSUME NEW n \in DOMAIN q[1] PROVE q[1][n] = c[t + 1 + n]
            BY <1>2, <1>6, <1>13, <1>17
        <3>1. n \in Nat /\ n + 1 \in DOMAIN f /\ q[1][n] = f[n + 1]
            BY <1>16
        <3>2. f[n + 1] = c[t + (n + 1)]
            BY <1>10, <1>13, <3>1
        <3>3. t + (n + 1) = t + 1 + n
            BY <1>14, <3>1
        <3> QED BY <3>1, <3>2, <3>3
    <2>4. \A b \in DOMAIN in' : b > 1 => in'[b] = inp'[Here' + b - 1]
        <3> SUFFICES ASSUME NEW b \in DOMAIN q, b > 1 PROVE q[b] = i[h + b - 1]
            BY <1>2, <1>6, <1>17
        <3>1. b \in DOMAIN s /\ b # 1
            BY <1>6
        <3> QED BY <1>6, <1>10, <3>1
    <2> QED BY <2>1, <2>2, <2>3, <2>4 DEF InputLeft
<1>19. ASSUME NEW b \in DOMAIN inp, NEW n \in DOMAIN inp[b]
       PROVE  /\ WasRead(b, n) => b < Here \/ (b = Here /\ n < Past + 1)
              /\ WasRead(b, n)' <=> WasRead(b, n) \/ (b = Here /\ n = Past + 1)
    <2>1. n \in Nat /\ b \in Nat
        BY <1>2, <1>19
    <2>2. WasRead(b, n) <=> b < h \/ (b = h /\ n <= t)
        BY <1>9 DEF WasRead
    <2>3. WasRead(b, n)' <=> b < h \/ (b = h /\ n <= t + 1)
        BY <1>17 DEF WasRead
    <2>4. \A x, y \in Nat : (x <= y => x < y + 1) /\ (x <= y + 1 <=> (x <= y \/ x = y + 1))
        OBVIOUS
    <2>5. (n <= t => n < t + 1) /\ (n <= t + 1 <=> (n <= t \/ n = t + 1))
        BY <1>14, <2>1, <2>4, Zenon
    <2> QED BY <1>9, <2>2, <2>3, <2>5, Zenon
<1> QED BY <1>1, <1>2, <1>3, <1>4, <1>6, <1>9, <1>12, <1>13, <1>14, <1>15, <1>17, <1>18, <1>19

\* The temporary store T has become g: its keys are in their places, with the
\* subkeys that were recorded with them.
Extended(T, g) ==
    /\ \A n \in DOMAIN T.keys :
          /\ n \in DOMAIN g.keys /\ SameKey(g.keys[n], T.keys[n])
          /\ \A m \in DOMAIN T.keys[n].subs :
                m \in DOMAIN g.keys[n].subs /\ g.keys[n].subs[m] = T.keys[n].subs[m]
    /\ \A n \in DOMAIN T.keys : \A u \in DOMAIN g.keys : u < n => u \in DOMAIN T.keys

\* What was said of a key of the temporary store is true of it later.
LEMMA ExtendedFacts ==
    ASSUME NEW g, Extended(Tmp, g), Tmp' = g, NEW n \in DOMAIN Tmp.keys
    PROVE  /\ n \in DOMAIN Tmp'.keys /\ (FirstOf(n) => FirstOf(n)')
           /\ \A p : SameKey(Tmp.keys[n], p) => SameKey(Tmp'.keys[n], p)
<1>1. n \in DOMAIN g.keys /\ \A u \in DOMAIN Tmp.keys : SameKey(g.keys[u], Tmp.keys[u])
    BY Zenon DEF Extended
<1>2. ASSUME NEW p, SameKey(Tmp.keys[n], p) PROVE SameKey(g.keys[n], p)
    BY <1>1, <1>2 DEF SameKey
<1>3. ASSUME FirstOf(n), NEW u \in DOMAIN g.keys, u < n PROVE ~SameKey(g.keys[u], g.keys[n])
    <2>1. u \in DOMAIN Tmp.keys
        BY <1>3, Zenon DEF Extended
    <2>2. ~SameKey(Tmp.keys[u], Tmp.keys[n])
        BY <1>3, <2>1, Zenon DEF FirstOf
    <2> QED BY <1>1, <2>1, <2>2 DEF SameKey
<1>4. FirstOf(n) => FirstOf(n)'
    BY <1>3 DEF FirstOf
<1> QED BY <1>1, <1>2, <1>4

\* The rings are left alone by an import that reads its file.
LEMMA OtherRings ==
    ASSUME TypeOK, NEW g, rings' = [rings EXCEPT !["tmp"] = g]
    PROVE  /\ Tmp' = g /\ \A r \in Rings : rings'[r] = rings[r] /\ RingNames(r)' = RingNames(r)
           /\ \A p : RingOf(p) \in Rings
<1>1. "tmp" \in AllRings /\ \A r \in Rings : r \in AllRings /\ r # "tmp"
    BY DEF AllRings, Rings
<1>2. rings'["tmp"] = g /\ \A r \in Rings : rings'[r] = rings[r]
    BY <1>1 DEF TypeOK
<1>3. \A r \in Rings : RingNames(r)' = RingNames(r)
    BY <1>2 DEF RingNames
<1>4. \A p : RingOf(p) \in Rings
    BY DEF RingOf, Rings
<1> QED BY <1>2, <1>3, <1>4 DEF Tmp

\* A packet of the file was read.
LEMMA SentRead ==
    ASSUME IInv, Sent, Underway, Underway', pc = "load", pc' = "load", Blob # <<>>,
           UNCHANGED <<fmt, inp, had>>, in' = [in EXCEPT ![1] = Tail(@)],
           NEW g, rings' = [rings EXCEPT !["tmp"] = g], Extended(Tmp, g),
           \A t \in DOMAIN g.keys : t \in DOMAIN Tmp.keys \/ (IsKey(Head(Blob)) /\ SameKey(Head(Blob), g.keys[t])),
           NEW h, NEW x, NEW c, h = Here, x = Past + 1, c = cb'.last.idx,
           IsKey(Head(Blob)) => PacketBrought(h, x)',
           \A m \in DOMAIN inp[h] : PrimaryOf(inp[h], m, x + 1) =>
               /\ cb'.last # NoPtr /\ SameKey(g.keys[c], inp[h][m])
               /\ CameBefore(h, m) \/ FirstOf(c)'
    PROVE  Sent'
<1>0. TypeOK /\ Linked /\ InputLeft /\ TmpWasRead /\ Brought /\ RingsHad
    BY Zenon DEF IInv, Sent
<1>1. /\ in # <<>> /\ in' # <<>> /\ h \in DOMAIN inp /\ x \in Nat
      /\ x \in DOMAIN inp[h] /\ inp[h][x] = Head(Blob)
      /\ Here' = h /\ Past' = x /\ InputLeft'
      /\ \A b \in DOMAIN inp : \A n \in DOMAIN inp[b] :
            /\ WasRead(b, n) => b < h \/ (b = h /\ n < x)
            /\ WasRead(b, n)' <=> WasRead(b, n) \/ (b = h /\ n = x)
    BY <1>0, ReadFacts
<1>2. /\ Tmp' = g /\ \A r \in Rings : rings'[r] = rings[r] /\ RingNames(r)' = RingNames(r)
      /\ \A p : RingOf(p) \in Rings
    BY <1>0, OtherRings
<1>3. /\ inp' = inp /\ fmt' = fmt /\ had' = had
    OBVIOUS
<1>4. TmpWasRead'
    <2> SUFFICES ASSUME NEW t \in DOMAIN g.keys
                 PROVE  \E b \in DOMAIN inp : \E n \in DOMAIN inp[b] :
                           WasRead(b, n)' /\ IsKey(inp[b][n]) /\ SameKey(inp[b][n], g.keys[t])
        BY <1>2, <1>3 DEF TmpWasRead
    <2>1. CASE t \in DOMAIN Tmp.keys
        <3>1. PICK b \in DOMAIN inp : \E n \in DOMAIN inp[b] :
                  WasRead(b, n) /\ IsKey(inp[b][n]) /\ SameKey(inp[b][n], Tmp.keys[t])
            BY <1>0, <2>1, Zenon DEF TmpWasRead
        <3>2. PICK n \in DOMAIN inp[b] : WasRead(b, n) /\ IsKey(inp[b][n]) /\ SameKey(inp[b][n], Tmp.keys[t])
            BY <3>1
        <3>3. SameKey(g.keys[t], Tmp.keys[t])
            BY <2>1, Zenon DEF Extended
        <3>4. SameKey(inp[b][n], g.keys[t])
            BY <3>2, <3>3 DEF SameKey
        <3>5. WasRead(b, n)'
            BY <1>1, <3>2, Zenon
        <3> QED BY <3>2, <3>4, <3>5, Zenon
    <2>2. CASE IsKey(Head(Blob)) /\ SameKey(Head(Blob), g.keys[t])
        <3>1. WasRead(h, x)'
            BY <1>1, Zenon
        <3>2. IsKey(inp[h][x]) /\ SameKey(inp[h][x], g.keys[t])
            BY <1>1, <2>2
        <3> QED BY <1>1, <3>1, <3>2, Zenon
    <2> QED BY <2>1, <2>2
<1>5. LastWasRead'
    <2>1. PICK z : z = x + 1
        OBVIOUS
    <2>2. \A m \in DOMAIN inp[h] : CameBefore(h, m)' <=> CameBefore(h, m)
        BY SameInput
    <2>3. \A m \in DOMAIN inp[h] : PrimaryOf(inp[h], m, z) =>
               /\ cb'.last # NoPtr /\ SameKey(g.keys[c], inp[h][m])
               /\ CameBefore(h, m)' \/ FirstOf(c)'
        BY <2>1, <2>2, Zenon
    <2>4. Past' + 1 = z /\ Here' = h /\ inp'[h] = inp[h] /\ cb'.last.idx = c
        BY <1>1, <1>3, <2>1
    <2> QED BY <1>2, <2>3, <2>4 DEF LastWasRead
<1>6. Brought'
    <2>1. ASSUME NEW p, KeyBrought(p) PROVE KeyBrought(p)'
        <3>1. CASE p.name \in RingNames(RingOf(p))
            BY <1>2, <3>1 DEF KeyBrought
        <3>2. CASE \E t \in DOMAIN Tmp.keys : SameKey(Tmp.keys[t], p)
            <4>1. PICK t \in DOMAIN Tmp.keys : SameKey(Tmp.keys[t], p)
                BY <3>2
            <4>2. t \in DOMAIN Tmp'.keys /\ SameKey(Tmp'.keys[t], p)
                BY <1>2, <4>1, ExtendedFacts
            <4> QED BY <4>2, Zenon DEF KeyBrought, KeyAhead
        <3> QED BY <2>1, <3>1, <3>2, Zenon DEF KeyBrought
    <2>2. ASSUME NEW p, NEW name, SubkeyBrought(p, name) PROVE SubkeyBrought(p, name)'
        <3>1. CASE Reaches("KBX", RingOf(p), rings[RingOf(p)], name)
            <4>1. rings'[RingOf(p)] = rings[RingOf(p)]
                BY <1>2
            <4> QED BY <3>1, <4>1 DEF SubkeyBrought
        <3>2. CASE \E t \in DOMAIN Tmp.keys :
                      /\ SameKey(Tmp.keys[t], p) /\ FirstOf(t)
                      /\ \E m \in DOMAIN Tmp.keys[t].subs : Tmp.keys[Tmp.keys[t].subs[m].idx].name = name
            <4>1. PICK t \in DOMAIN Tmp.keys :
                      /\ SameKey(Tmp.keys[t], p) /\ FirstOf(t)
                      /\ \E m \in DOMAIN Tmp.keys[t].subs : Tmp.keys[Tmp.keys[t].subs[m].idx].name = name
                BY <3>2
            <4>2. PICK m \in DOMAIN Tmp.keys[t].subs : Tmp.keys[Tmp.keys[t].subs[m].idx].name = name
                BY <4>1
            <4>3. t \in DOMAIN Tmp'.keys /\ SameKey(Tmp'.keys[t], p) /\ FirstOf(t)'
                BY <1>2, <4>1, ExtendedFacts
            <4>4. m \in DOMAIN Tmp'.keys[t].subs /\ Tmp'.keys[t].subs[m] = Tmp.keys[t].subs[m]
                BY <1>2, Zenon DEF Extended
            <4>5. PICK i : i = Tmp.keys[t].subs[m].idx
                OBVIOUS
            <4>6. i \in DOMAIN Tmp.keys
                <5>1. Within("tmp", Tmp, Tmp.keys[t].subs[m])
                    BY <1>0, Zenon DEF Linked, TmpLinked, Ahead
                <5> QED BY <4>5, <5>1, Zenon DEF Within
            <4>7. Tmp'.keys[i].name = Tmp.keys[i].name
                BY <1>2, <4>6, Zenon DEF Extended, SameKey
            <4>8. Tmp'.keys[Tmp'.keys[t].subs[m].idx].name = name
                BY <4>2, <4>4, <4>5, <4>7
            <4> QED BY <4>3, <4>4, <4>8, Zenon DEF SubkeyBrought, Ahead
        <3> QED BY <2>2, <3>1, <3>2, Zenon DEF SubkeyBrought
    <2>3. ASSUME NEW b \in DOMAIN inp, NEW n \in DOMAIN inp[b], IsKey(inp[b][n]), WasRead(b, n)'
          PROVE  WasRead(b, n) \/ PacketBrought(b, n)'
        <3>1. WasRead(b, n) \/ (b = h /\ n = x)
            BY <1>1, <2>3, Zenon
        <3>2. ASSUME b = h, n = x PROVE PacketBrought(b, n)'
            <4>1. IsKey(Head(Blob))
                BY <1>1, <2>3, <3>2
            <4>2. PacketBrought(h, x)'
                BY <4>1
            <4> QED BY <3>2, <4>2
        <3> QED BY <3>1, <3>2
    <2> QED BY <1>0, <2>1, <2>2, <2>3, BroughtStep
<1>7. RingsHad'
    <2> SUFFICES ASSUME NEW r \in Rings, NEW name \in RingNames(r) PROVE IsSub(name) \/ name \in had[r]
        BY <1>2, <1>3 DEF RingsHad
    <2> QED BY <1>0, Zenon DEF RingsHad, KeyAhead
<1>8. Written' /\ ImportSaved' /\ Operates'
    BY DEF Written, ImportSaved, Operates
<1> QED BY <1>1, <1>4, <1>5, <1>6, <1>7, <1>8, Zenon DEF Sent

\* A primary key of the packets up to the place x is one of those before it, or the
\* packet in that place.
LEMMA PrimaryStep ==
    ASSUME NEW f, NEW x \in Nat, NEW m \in Nat, PrimaryOf(f, m, x + 1)
    PROVE  \/ m < x /\ PrimaryOf(f, m, x) /\ (IsKey(f[x]) => IsSub(f[x].name))
           \/ m = x /\ IsKey(f[x]) /\ ~IsSub(f[x].name)
<1>1. /\ m < x + 1 /\ IsKey(f[m]) /\ ~IsSub(f[m].name)
      /\ \A l \in m + 1 .. (x + 1) - 1 : IsKey(f[l]) => IsSub(f[l].name)
    BY Zenon DEF PrimaryOf
<1>2. CASE m = x
    BY <1>1, <1>2
<1>3. CASE m # x
    <2>1. m < x /\ x \in m + 1 .. (x + 1) - 1 /\ \A l \in m + 1 .. x - 1 : l \in m + 1 .. (x + 1) - 1
        BY <1>1, <1>3
    <2>2. PrimaryOf(f, m, x) /\ (IsKey(f[x]) => IsSub(f[x].name))
        BY <1>1, <2>1, Zenon DEF PrimaryOf
    <2> QED BY <2>1, <2>2
<1> QED BY <1>2, <1>3

\* What the loader knows of the packets that were read.
LEMMA LastFacts ==
    ASSUME IInv, Sent, Underway, pc = "load", in # <<>>, NEW h, NEW x, h = Here, x = Past + 1,
           NEW m \in DOMAIN inp[h], PrimaryOf(inp[h], m, x)
    PROVE  /\ cb.last # NoPtr /\ cb.last.idx \in DOMAIN Tmp.keys
           /\ SameKey(Tmp.keys[cb.last.idx], inp[h][m])
           /\ CameBefore(h, m) \/ FirstOf(cb.last.idx)
<1>1. to = "tmp" /\ LastWasRead /\ Loading
    BY DEF IInv, Control, Underway, Sent
<1>2. /\ cb.last # NoPtr /\ SameKey(Tmp.keys[cb.last.idx], inp[h][m])
      /\ CameBefore(h, m) \/ FirstOf(cb.last.idx)
    BY <1>1, Zenon DEF LastWasRead
<1>3. cb.last.idx \in DOMAIN Tmp.keys
    BY <1>1, <1>2, Zenon DEF Loading, Tmp
<1> QED BY <1>2, <1>3

\* A packet that is no key.
LEMMA SentOther == ASSUME IInv, Sent, OtherPacket PROVE Sent'
<1>1. /\ TypeOK /\ Control /\ InputLeft /\ pc = "load" /\ pc' = "load" /\ Blob # <<>> /\ ~IsKey(Head(Blob)) /\ cb' = cb
      /\ UNCHANGED <<fmt, inp, had, to, op>>
    BY Zenon DEF IInv, Sent, OtherPacket, quiet
<1>2. Operates' /\ ImportSaved'
    BY <1>1 DEF Operates, ImportSaved
<1>3. CASE ~Underway'
    BY <1>2, <1>3, SentIdle
<1>4. CASE Underway'
    <2>1. op = "import" /\ ~errors'
        BY <1>1, <1>4 DEF Underway
    <2>2. ~errors /\ in' = [in EXCEPT ![1] = Tail(@)]
        BY <2>1 DEF OtherPacket
    <2>3. Underway /\ to = "tmp"
        BY <1>1, <2>1, <2>2 DEF Underway, Control
    <2>4. PICK g : rings' = [rings EXCEPT !["tmp"] = g] /\ Alike(Tmp, g)
        BY <2>3, OtherRing DEF Tmp
    <2>5. Extended(Tmp, g)
        BY <2>4, Zenon DEF Alike, Extended, SameKey
    <2>6. Tmp' = g
        BY <1>1, <2>4, OtherRings
    <2>7. PICK h : h = Here
        OBVIOUS
    <2>8. PICK x : x = Past + 1
        OBVIOUS
    <2>9. PICK c : c = cb.last.idx
        OBVIOUS
    <2>10. in # <<>> /\ x \in Nat /\ inp[h][x] = Head(Blob) /\ h \in DOMAIN inp
        <3>1. in # <<>> /\ Past \in Nat /\ inp[Here][Past + 1] = Head(Blob) /\ Here \in DOMAIN inp
            BY <1>1, <2>2, <2>3, ReadFacts
        <3> QED BY <2>7, <2>8, <3>1
    <2>11. ASSUME NEW m \in DOMAIN inp[h], PrimaryOf(inp[h], m, x + 1)
           PROVE  /\ cb'.last # NoPtr /\ SameKey(g.keys[c], inp[h][m])
                  /\ CameBefore(h, m) \/ FirstOf(c)'
        <3>1. m \in Nat
            BY <1>1, <2>10 DEF TypeOK, Blobs
        <3>2. PICK f : f = inp[h]
            OBVIOUS
        <3>3. ~IsKey(f[x])
            BY <1>1, <2>10, <3>2
        <3>4. PrimaryOf(f, m, x)
            BY <2>10, <2>11, <3>1, <3>2, <3>3, PrimaryStep
        <3>5. /\ cb.last # NoPtr /\ c \in DOMAIN Tmp.keys
              /\ SameKey(Tmp.keys[c], inp[h][m])
              /\ CameBefore(h, m) \/ FirstOf(c)
            BY <1>1, <2>3, <2>7, <2>8, <2>9, <2>10, <3>2, <3>4, LastFacts
        <3>6. (FirstOf(c) => FirstOf(c)') /\ SameKey(g.keys[c], inp[h][m])
            BY <2>5, <2>6, <3>5, ExtendedFacts
        <3> QED BY <1>1, <3>5, <3>6
    <2>12. \A t \in DOMAIN g.keys : t \in DOMAIN Tmp.keys
        BY <2>4, Zenon DEF Alike
    <2>13. c = cb'.last.idx /\ ~IsKey(Head(Blob))
        BY <1>1, <2>9
    <2> QED BY <1>1, <1>4, <2>2, <2>3, <2>4, <2>5, <2>7, <2>8, <2>11, <2>12, <2>13, SentRead
<1> QED BY <1>3, <1>4

\* A key that is read was not read before, unless the file has it twice.
LEMMA NewInTmp ==
    ASSUME IInv, Sent, Underway, pc = "load", pc' = "load", Blob # <<>>, inp' = inp,
           in' = [in EXCEPT ![1] = Tail(@)], NEW h, NEW x, h = Here, x = Past + 1,
           NEW u \in DOMAIN Tmp.keys, SameKey(Tmp.keys[u], inp[h][x])
    PROVE  CameBefore(h, x)
<1>1. TypeOK /\ InputLeft /\ TmpWasRead
    BY Zenon DEF IInv, Sent
<1>2. \A b \in DOMAIN inp : \A n \in DOMAIN inp[b] : WasRead(b, n) => b < h \/ (b = h /\ n < x)
    BY <1>1, ReadFacts
<1>3. PICK b \in DOMAIN inp : \E n \in DOMAIN inp[b] :
          WasRead(b, n) /\ IsKey(inp[b][n]) /\ SameKey(inp[b][n], Tmp.keys[u])
    BY <1>1, Zenon DEF TmpWasRead
<1>4. PICK n \in DOMAIN inp[b] : WasRead(b, n) /\ IsKey(inp[b][n]) /\ SameKey(inp[b][n], Tmp.keys[u])
    BY <1>3
<1>5. SameKey(inp[b][n], inp[h][x])
    BY <1>4 DEF SameKey
<1> QED BY <1>2, <1>4, <1>5, Zenon DEF CameBefore

\* A key packet: the key is added to the temporary store, and a subkey is recorded
\* with the primary key that came last.
LEMMA SentKey == ASSUME IInv, Sent, cb_keyring_parse PROVE Sent'
<1>1. PICK p : p = Head(Blob)
    OBVIOUS
<1>2. /\ TypeOK /\ Control /\ Loading /\ InputLeft /\ pc = "load" /\ Blob # <<>> /\ IsKey(p)
      /\ UNCHANGED <<fmt, inp, had, to, op, errors>>
    BY <1>1, Zenon DEF IInv, Sent, cb_keyring_parse, quiet
<1>3. pc' \in {"load", "undefined"}
    BY <1>2 DEF cb_keyring_parse, Undefined
<1>4. Operates' /\ ImportSaved'
    BY <1>3 DEF Operates, ImportSaved
<1>5. CASE ~Underway'
    BY <1>4, <1>5, SentIdle
<1>6. CASE Underway'
    <2>1. Underway /\ pc' = "load" /\ to = "tmp" /\ ~errors
        BY <1>2, <1>3, <1>6 DEF Underway, Control
    <2>2. PICK T \in RingType : T = Tmp /\ T = rings[to] /\ Len(T.keys) <= T.vsize
        BY <1>2, <2>1 DEF TypeOK, AllRings, Tmp
    <2>3. PICK k : k = NewKey(p)
        OBVIOUS
    <2>4. p \in Packets
        <3>1. PICK bl \in Blobs : bl = in /\ bl # <<>> /\ bl[1] # <<>> /\ p = Head(bl[1])
            BY <1>1, <1>2, BlobFacts
        <3> QED BY <3>1, NextPacket, Zenon
    <2>5. k \in Keys /\ k.name = p.name /\ k.subs = <<>>
        BY <1>2, <2>3, <2>4, NewKeyFacts, Zenon
    <2>6. SameKey(k, p) /\ SameKey(p, k)
        BY <2>3 DEF NewKey, SameKey
    <2>7. PICK q \in rnp_key_store_add_key(T, k) :
            /\ in' = [in EXCEPT ![1] = Tail(@)]
            /\ \/ /\ ~IsSub(p.name) \/ cb.last = NoPtr
                  /\ rings' = [rings EXCEPT !["tmp"] = q]
                  /\ cb' = [key |-> TRUE, last |-> IF IsSub(p.name) THEN NoPtr ELSE Ref("tmp", q, Len(q.keys))]
               \/ /\ IsSub(p.name) /\ cb.last # NoPtr /\ cb' = cb
                  /\ rings' = [rings EXCEPT !["tmp"] = [q EXCEPT !.keys[cb.last.idx].subs = Append(@, Ref("tmp", q, Len(q.keys)))]]
        <3>1. pc' # "undefined"
            BY <2>1
        <3> QED BY <1>1, <2>1, <2>2, <2>3, <3>1, Zenon DEF cb_keyring_parse, Undefined
    <2>8. PICK e \in Nat : e = Len(T.keys) + 1
        BY DEF RingType
    <2>9. /\ q \in RingType /\ Len(q.keys) = e /\ e \in DOMAIN q.keys /\ q.keys[e] = k
          /\ \A n \in DOMAIN T.keys : n \in DOMAIN q.keys /\ n \in Nat /\ n < e /\ q.keys[n] = T.keys[n]
          /\ \A n \in DOMAIN q.keys : n = e \/ n \in DOMAIN T.keys
        <3>1. Grown(T, q, k)
            BY <2>2, <2>5, AddFacts, Zenon
        <3>2. /\ q \in RingType /\ DOMAIN q.keys = 1 .. e /\ Len(q.keys) = e
              /\ \A n \in 1 .. Len(T.keys) : q.keys[n] = T.keys[n]
              /\ q.keys[e] = k
            BY <2>8, <3>1, Zenon DEF Grown
        <3>3. DOMAIN T.keys = 1 .. Len(T.keys) /\ Len(T.keys) \in Nat
            BY DEF RingType
        <3> QED BY <2>8, <3>2, <3>3
    <2>10. PICK h : h = Here
        OBVIOUS
    <2>11. PICK x : x = Past + 1
        OBVIOUS
    <2>12. in # <<>> /\ x \in Nat /\ inp[h][x] = p /\ h \in DOMAIN inp /\ x \in DOMAIN inp[h]
        <3>1. /\ in # <<>> /\ Past \in Nat /\ inp[Here][Past + 1] = Head(Blob) /\ Here \in DOMAIN inp
              /\ Past + 1 \in DOMAIN inp[Here]
            BY <1>2, <2>1, <2>7, ReadFacts
        <3> QED BY <1>1, <2>10, <2>11, <3>1
    <2>13. PICK f : f = inp[h]
        OBVIOUS
    <2>14. \A m \in DOMAIN f : m \in Nat
        BY <1>2, <2>12, <2>13 DEF TypeOK, Blobs
    <2>15. \A u \in DOMAIN T.keys : SameKey(T.keys[u], p) => CameBefore(h, x)
        BY <1>2, <2>1, <2>2, <2>7, <2>10, <2>11, <2>12, NewInTmp
    <2>16. ASSUME NEW m \in DOMAIN f, PrimaryOf(f, m, x)
           PROVE  /\ cb.last # NoPtr /\ cb.last.idx \in DOMAIN T.keys
                  /\ SameKey(T.keys[cb.last.idx], f[m])
                  /\ CameBefore(h, m) \/ FirstOf(cb.last.idx)
        BY <1>2, <2>1, <2>2, <2>10, <2>11, <2>12, <2>13, <2>16, LastFacts
    <2>17. ASSUME NEW g, rings' = [rings EXCEPT !["tmp"] = g], e \in DOMAIN g.keys, SameKey(g.keys[e], p)
           PROVE  Tmp' = g /\ KeyBrought(p)'
        <3>1. Tmp' = g
            BY <1>2, <2>17, OtherRings
        <3>2. KeyAhead(e)'
            BY <2>1, Zenon DEF KeyAhead
        <3> QED BY <2>17, <3>1, <3>2 DEF KeyBrought
    <2>18. CASE /\ ~IsSub(p.name) \/ cb.last = NoPtr
                /\ rings' = [rings EXCEPT !["tmp"] = q]
                /\ cb' = [key |-> TRUE, last |-> IF IsSub(p.name) THEN NoPtr ELSE Ref("tmp", q, Len(q.keys))]
        <3>1. Extended(T, q)
            <4>1. \A n \in DOMAIN T.keys : \A u \in DOMAIN q.keys : u < n => u \in DOMAIN T.keys
                BY <2>8, <2>9
            <4> QED BY <2>9, <4>1, Zenon DEF Extended, SameKey
        <3>2. Tmp' = q /\ KeyBrought(p)'
            BY <2>6, <2>9, <2>17, <2>18
        <3>3. PICK c : c = cb'.last.idx
            OBVIOUS
        <3>4. ASSUME ~IsSub(p.name)
              PROVE  /\ c = e /\ cb'.last # NoPtr /\ SameKey(q.keys[c], p)
                     /\ CameBefore(h, x) \/ FirstOf(c)'
            <4>1. cb'.last = Ref("tmp", q, e)
                BY <2>9, <2>18, <3>4
            <4>2. c = e /\ cb'.last # NoPtr
                BY <3>3, <4>1 DEF Ref, NoPtr
            <4>3. ASSUME ~CameBefore(h, x), NEW u \in DOMAIN q.keys, u < e PROVE ~SameKey(q.keys[u], q.keys[e])
                <5>1. u \in DOMAIN T.keys
                    BY <2>8, <2>9, <4>3
                <5>2. ~SameKey(T.keys[u], p)
                    BY <2>15, <4>3, <5>1
                <5> QED BY <2>6, <2>9, <5>1, <5>2 DEF SameKey
            <4>4. CameBefore(h, x) \/ FirstOf(e)'
                BY <3>2, <4>3 DEF FirstOf
            <4> QED BY <2>6, <2>9, <4>2, <4>4
        <3>5. ASSUME NEW m \in DOMAIN inp[h], PrimaryOf(inp[h], m, x + 1)
              PROVE  /\ cb'.last # NoPtr /\ SameKey(q.keys[c], inp[h][m])
                     /\ CameBefore(h, m) \/ FirstOf(c)'
            <4>1. PICK i : i = m /\ i \in DOMAIN f /\ PrimaryOf(f, i, x + 1) /\ i \in Nat
                BY <2>13, <2>14, <3>5
            <4>2. \/ PrimaryOf(f, i, x) /\ (IsKey(f[x]) => IsSub(f[x].name))
                  \/ i = x /\ ~IsSub(f[x].name)
                BY <2>12, <4>1, PrimaryStep
            <4>3. CASE PrimaryOf(f, i, x) /\ (IsKey(f[x]) => IsSub(f[x].name))
                <5>1. IsSub(p.name) /\ cb.last # NoPtr
                    BY <1>2, <2>12, <2>13, <2>16, <4>1, <4>3
                <5> QED BY <2>18, <5>1
            <4>4. CASE i = x /\ ~IsSub(f[x].name)
                <5>1. ~IsSub(p.name) /\ inp[h][m] = p /\ m = x
                    BY <2>12, <2>13, <4>1, <4>4
                <5> QED BY <3>4, <5>1
            <4> QED BY <4>2, <4>3, <4>4
        <3>6. PacketBrought(h, x)'
            <4>1. IsSub(p.name) => \A m \in DOMAIN f : ~PrimaryOf(f, m, x)
                BY <2>16, <2>18
            <4>2. inp'[h][x] = p /\ inp'[h] = f
                BY <1>2, <2>12, <2>13
            <4>3. KeyBrought(inp[h][x])'
                BY <3>2, <4>2
            <4> QED BY <4>1, <4>2, <4>3 DEF PacketBrought
        <3>7. \A t \in DOMAIN q.keys : t \in DOMAIN T.keys \/ SameKey(p, q.keys[t])
            BY <2>6, <2>9
        <3> QED BY <1>1, <1>2, <1>6, <2>1, <2>2, <2>7, <2>10, <2>11, <2>18, <3>1, <3>3, <3>5, <3>6, <3>7, SentRead
    <2>19. CASE /\ IsSub(p.name) /\ cb.last # NoPtr /\ cb' = cb
                /\ rings' = [rings EXCEPT !["tmp"] = [q EXCEPT !.keys[cb.last.idx].subs = Append(@, Ref("tmp", q, Len(q.keys)))]]
        <3>1. PICK c \in DOMAIN T.keys : c = cb.last.idx
            BY <1>2, <2>1, <2>2, <2>19, Zenon DEF Loading
        <3>2. PICK y : y = Ref("tmp", q, Len(q.keys))
            OBVIOUS
        <3>3. y.idx = e
            BY <2>9, <3>2 DEF Ref
        <3>4. PICK b \in Keys : b = q.keys[c]
            BY <2>9 DEF RingType
        <3>5. PICK s \in Seq(Pointers) : s = b.subs
            BY DEF Keys
        <3>6. PICK t : t = Append(s, y)
            OBVIOUS
        <3>7. /\ \A m \in DOMAIN s : m \in DOMAIN t /\ t[m] = s[m]
              /\ Len(s) + 1 \in DOMAIN t /\ t[Len(s) + 1] = y
            BY <3>6
        <3>8. PICK g : g = [q EXCEPT !.keys[c].subs = Append(@, y)]
            OBVIOUS
        <3>9. /\ g.keys[c].name = b.name /\ g.keys[c].sec = b.sec /\ g.keys[c].subs = t /\ DOMAIN g.keys = DOMAIN q.keys
              /\ \A n \in DOMAIN q.keys : n # c => g.keys[n] = q.keys[n]
            <4>1. c \in DOMAIN q.keys
                BY <2>9
            <4>2. g = [q EXCEPT !.keys[c] = [b EXCEPT !.subs = t]]
                BY <2>9, <3>4, <3>5, <3>6, <3>8, <4>1, NestedSubs
            <4>3. PICK k2 : k2 = [b EXCEPT !.subs = t]
                OBVIOUS
            <4>4. k2.name = b.name /\ k2.sec = b.sec /\ k2.subs = t
                BY <4>3 DEF Keys
            <4>5. g.keys = [q.keys EXCEPT ![c] = k2]
                BY <2>9, <4>2, <4>3 DEF RingType
            <4> QED BY <4>1, <4>4, <4>5
        <3>10. rings' = [rings EXCEPT !["tmp"] = g] /\ c = cb'.last.idx
            BY <2>19, <3>1, <3>2, <3>8
        <3>11. Extended(T, g)
            <4>1. \A n \in DOMAIN T.keys : \A u \in DOMAIN g.keys : u < n => u \in DOMAIN T.keys
                BY <2>8, <2>9, <3>9
            <4>2. ASSUME NEW n \in DOMAIN T.keys
                  PROVE  /\ n \in DOMAIN g.keys /\ SameKey(g.keys[n], T.keys[n])
                         /\ \A m \in DOMAIN T.keys[n].subs :
                               m \in DOMAIN g.keys[n].subs /\ g.keys[n].subs[m] = T.keys[n].subs[m]
                <5>1. CASE n # c
                    BY <2>9, <3>9, <5>1, Zenon DEF SameKey
                <5>2. CASE n = c
                    <6>1. b = T.keys[c]
                        BY <2>9, <3>4
                    <6> QED BY <2>9, <3>5, <3>7, <3>9, <5>2, <6>1, Zenon DEF SameKey
                <5> QED BY <5>1, <5>2
            <4> QED BY <4>1, <4>2, Zenon DEF Extended
        <3>12. e # c /\ e \in DOMAIN g.keys /\ g.keys[e] = k /\ c \in DOMAIN g.keys
            BY <2>9, <3>9
        <3>13. Tmp' = g /\ KeyBrought(p)'
            BY <2>6, <2>17, <3>10, <3>12
        <3>14. ASSUME NEW m \in DOMAIN f, PrimaryOf(f, m, x)
               PROVE  SameKey(g.keys[c], f[m]) /\ (CameBefore(h, m) \/ FirstOf(c)')
            <4>1. SameKey(T.keys[c], f[m]) /\ (CameBefore(h, m) \/ FirstOf(c))
                BY <2>16, <3>1, <3>14
            <4>2. SameKey(g.keys[c], f[m]) /\ (FirstOf(c) => FirstOf(c)')
                BY <2>2, <3>1, <3>11, <3>13, <4>1, ExtendedFacts
            <4> QED BY <4>1, <4>2
        <3>15. ASSUME NEW m \in DOMAIN inp[h], PrimaryOf(inp[h], m, x + 1)
               PROVE  /\ cb'.last # NoPtr /\ SameKey(g.keys[c], inp[h][m])
                      /\ CameBefore(h, m) \/ FirstOf(c)'
            <4>1. PICK i : i = m /\ i \in DOMAIN f /\ PrimaryOf(f, i, x + 1) /\ i \in Nat
                BY <2>13, <2>14, <3>15
            <4>2. PrimaryOf(f, i, x)
                <5>1. IsSub(f[x].name)
                    BY <2>12, <2>13, <2>19
                <5> QED BY <2>12, <4>1, <5>1, PrimaryStep
            <4> QED BY <2>13, <2>19, <3>14, <4>1, <4>2
        <3>16. PacketBrought(h, x)'
            <4>1. inp'[h][x] = p /\ inp'[h] = f
                BY <1>2, <2>12, <2>13
            <4>2. KeyBrought(inp[h][x])'
                BY <3>13, <4>1
            <4>3. ASSUME NEW m \in DOMAIN f, PrimaryOf(f, m, x)
                  PROVE  PassedOver(h, m)' \/ SubkeyBrought(f[m], p.name)'
                <5>1. SameKey(g.keys[c], f[m]) /\ (CameBefore(h, m) \/ FirstOf(c)')
                    BY <3>14, <4>3
                <5>2. CASE CameBefore(h, m)
                    <6>1. PassedOver(h, m)
                        BY <5>2, Zenon DEF PassedOver
                    <6> QED BY <1>2, <6>1, SameInput
                <5>3. CASE FirstOf(c)'
                    <6>1. PICK z : z = Len(s) + 1
                        OBVIOUS
                    <6>2. z \in DOMAIN g.keys[c].subs /\ g.keys[c].subs[z] = y
                        BY <3>7, <3>9, <6>1
                    <6>3. g.keys[g.keys[c].subs[z].idx].name = p.name
                        BY <2>5, <3>3, <3>12, <6>2
                    <6>4. Ahead(c, z)'
                        BY <2>1, Zenon DEF Ahead
                    <6> QED BY <3>12, <3>13, <5>1, <5>3, <6>2, <6>3, <6>4 DEF SubkeyBrought
                <5> QED BY <5>1, <5>2, <5>3
            <4>4. ASSUME NEW m \in DOMAIN f, PrimaryOf(f, m, x)
                  PROVE  PassedOver(h, m)' \/ SubkeyBrought(inp[h][m], p.name)'
                <5>1. inp'[h][m] = f[m]
                    BY <4>1
                <5> QED BY <4>3, <4>4, <5>1
            <4> QED BY <4>1, <4>2, <4>4 DEF PacketBrought
        <3>17. \A n \in DOMAIN g.keys : n \in DOMAIN T.keys \/ SameKey(p, g.keys[n])
            BY <2>6, <2>9, <3>9, <3>12
        <3> QED BY <1>1, <1>2, <1>6, <2>1, <2>2, <2>7, <2>10, <2>11, <3>10, <3>11, <3>15, <3>16, <3>17, SentRead
    <2> QED BY <2>7, <2>18, <2>19
<1> QED BY <1>5, <1>6

\* The rings are left alone, and what was ahead still is.
LEMMA BroughtQuiet ==
    ASSUME Underway, Brought, Underway', UNCHANGED <<fmt, inp, had, rings>>,
           \A t \in DOMAIN Tmp.keys : KeyAhead(t) => KeyAhead(t)',
           \A t \in DOMAIN Tmp.keys : \A m \in DOMAIN Tmp.keys[t].subs : Ahead(t, m) => Ahead(t, m)',
           \A b \in DOMAIN inp : \A n \in DOMAIN inp[b] : WasRead(b, n)' => WasRead(b, n)
    PROVE  Brought'
<1>0. Tmp' = Tmp /\ rings' = rings
    BY DEF Tmp
<1>1. ASSUME NEW p, KeyBrought(p) PROVE KeyBrought(p)'
    <2>1. p.name \in RingNames(RingOf(p)) => KeyBrought(p)'
        BY <1>0 DEF KeyBrought, RingNames
    <2>2. ASSUME NEW t \in DOMAIN Tmp.keys, KeyAhead(t), SameKey(Tmp.keys[t], p) PROVE KeyBrought(p)'
        BY <1>0, <2>2 DEF KeyBrought
    <2> QED BY <1>1, <2>1, <2>2, Zenon DEF KeyBrought
<1>2. ASSUME NEW p, NEW name, SubkeyBrought(p, name) PROVE SubkeyBrought(p, name)'
    <2>1. Reaches("KBX", RingOf(p), rings[RingOf(p)], name) => SubkeyBrought(p, name)'
        BY <1>0 DEF SubkeyBrought
    <2>2. ASSUME NEW t \in DOMAIN Tmp.keys, SameKey(Tmp.keys[t], p), FirstOf(t), NEW m \in DOMAIN Tmp.keys[t].subs,
                 Ahead(t, m), Tmp.keys[Tmp.keys[t].subs[m].idx].name = name
          PROVE  SubkeyBrought(p, name)'
        <3>1. Ahead(t, m)'
            BY <2>2
        <3>2. FirstOf(t)'
            BY <1>0, <2>2 DEF FirstOf
        <3> QED BY <1>0, <2>2, <3>1, <3>2 DEF SubkeyBrought
    <2> QED BY <1>2, <2>1, <2>2, Zenon DEF SubkeyBrought
<1> QED BY <1>1, <1>2, BroughtStep

\* An import begins: nothing of the file was read.
LEMMA SentImport == ASSUME IInv, Sent, rnp_import_key PROVE Sent'
<1>1. /\ TypeOK /\ Control /\ pc = "ready" /\ pc' = "load" /\ op' = "import" /\ inp' = in' /\ inp' \in Blobs
      /\ rings' = rings /\ had' = [r \in Rings |-> RingNames(r)]
    BY KeyStoreAssumption DEF IInv, rnp_import_key, Begins, Open
<1>2. Tmp'.keys = <<>>
    BY <1>1 DEF Control, Tmp
<1>3. PICK i \in Seq(Seq(Packets)) : i = inp'
    BY <1>1 DEF Blobs
<1>4. Here' = 1
    BY <1>1, <1>3 DEF Here
<1>5. i # <<>> => Past' = 0
    BY <1>1, <1>3, <1>4 DEF Past
<1>6. \A b \in DOMAIN i : \A n \in DOMAIN i[b] : ~WasRead(b, n)'
    <2> SUFFICES ASSUME NEW b \in DOMAIN i, NEW n \in DOMAIN i[b] PROVE ~WasRead(b, n)'
        OBVIOUS
    <2>1. b >= 1 /\ b \in Nat /\ n >= 1 /\ n \in Nat /\ i # <<>>
        OBVIOUS
    <2>2. ~(b < 1) /\ ~(n <= 0)
        BY <2>1
    <2> QED BY <1>1, <1>4, <1>5, <2>1, <2>2 DEF WasRead
<1>7. InputLeft'
    <2>1. \A n \in Nat : 0 + n = n /\ 1 + n - 1 = n
        OBVIOUS
    <2>2. i # <<>> => 1 \in DOMAIN i /\ \A n \in DOMAIN i[1] : i[1][n] = i[1][0 + n]
        OBVIOUS
    <2>3. \A b \in DOMAIN i : i[b] = i[1 + b - 1]
        OBVIOUS
    <2>4. Len(i) <= Len(i) /\ (i # <<>> => Len(i[1]) <= Len(i[1]))
        OBVIOUS
    <2> QED BY <1>1, <1>3, <1>4, <1>5, <2>2, <2>3, <2>4 DEF InputLeft
<1>8. TmpWasRead'
    BY <1>2 DEF TmpWasRead
<1>9. LastWasRead'
    <2>1. ASSUME NEW m \in DOMAIN i[1], i # <<>> PROVE ~PrimaryOf(i[1], m, 1)
        <3>1. ~(m < 1)
            BY <2>1
        <3> QED BY <3>1, Zenon DEF PrimaryOf
    <2>2. i # <<>> => Past' + 1 = 1
        BY <1>5
    <2> QED BY <1>1, <1>3, <1>4, <2>1, <2>2 DEF LastWasRead
<1>10. Brought'
    BY <1>3, <1>6 DEF Brought
<1>11. RingsHad'
    BY <1>1 DEF RingsHad, RingNames
<1>12. Written' /\ ImportSaved' /\ Operates'
    BY <1>1 DEF Written, ImportSaved, Operates
<1> QED BY <1>7, <1>8, <1>9, <1>10, <1>11, <1>12, Zenon DEF Sent

\* A blob is finished, or the file.
LEMMA SentEndOfBlob == ASSUME IInv, Sent, EndOfBlob PROVE Sent'
<1>1. /\ TypeOK /\ Control /\ Linked /\ InputLeft /\ TmpWasRead /\ Brought /\ RingsHad /\ pc = "load" /\ Blob = <<>>
      /\ UNCHANGED <<fmt, inp, had, op>>
    BY Zenon DEF IInv, Sent, EndOfBlob, quiet
<1>2. \/ /\ in # <<>> /\ ~errors /\ Len(in) > 1 /\ in' = Tail(in) /\ cb' = NoKey
         /\ UNCHANGED <<pc, to, errors, rings>>
      \/ LoadOver(~errors, rings[to]) /\ (in = <<>> \/ errors \/ ~(Len(in) > 1))
    BY Zenon DEF EndOfBlob
<1>3. Operates' /\ ImportSaved'
    <2>1. CASE UNCHANGED <<pc, to, errors, rings>>
        BY <1>1, <2>1 DEF Operates, ImportSaved
    <2>2. CASE LoadOver(~errors, rings[to])
        <3>1. pc' \in {"load", "ready", "import", "clean"} /\ (pc' = "clean" => result' = FALSE)
            BY <2>2 DEF LoadOver, Open
        <3> QED BY <3>1 DEF Operates, ImportSaved
    <2> QED BY <1>2, <2>1, <2>2
<1>4. CASE ~Underway'
    BY <1>3, <1>4, SentIdle
<1>5. CASE Underway'
    <2>1. op = "import" /\ to = "tmp"
        BY <1>1, <1>5 DEF Underway, Control
    <2>2. PICK s \in Seq(Seq(Packets)) : s = in /\ (s # <<>> => s[1] = <<>>)
        BY <1>1 DEF TypeOK, Blobs, Blob
    <2>3. PICK i \in Seq(Seq(Packets)) : i = inp
        BY <1>1 DEF TypeOK, Blobs
    <2>4. PICK h : h = Len(i) - Len(s) + 1
        OBVIOUS
    <2>5. Here = h /\ (s # <<>> => Past = Len(i[h]))
        <3>1. Here = h
            BY <2>2, <2>3, <2>4 DEF Here
        <3>2. ASSUME s # <<>> PROVE Past = Len(i[h])
            <4>1. Len(s[1]) = 0 /\ h \in DOMAIN i /\ Len(i[h]) \in Nat
                <5>1. Len(s[1]) = 0 /\ Len(s) \in Nat /\ Len(s) > 0 /\ Len(i) \in Nat
                    BY <2>2, <3>2
                <5>2. Len(s) <= Len(i)
                    <6>1. ~errors
                        BY <1>2, <1>5, <2>1 DEF LoadOver, Underway
                    <6> QED BY <1>1, <2>1, <2>2, <2>3, <6>1 DEF InputLeft, Underway
                <5>3. h \in DOMAIN i
                    BY <2>4, <5>1, <5>2
                <5> QED BY <5>1, <5>3
            <4>2. Past = Len(i[h]) - Len(s[1])
                BY <2>2, <2>3, <3>1 DEF Past
            <4> QED BY <4>1, <4>2
        <3> QED BY <3>1, <3>2
    <2>6. CASE /\ in # <<>> /\ ~errors /\ Len(in) > 1 /\ in' = Tail(in) /\ cb' = NoKey
               /\ UNCHANGED <<pc, to, errors, rings>>
        <3>1. Underway /\ pc' = "load" /\ rings' = rings
            BY <1>1, <2>1, <2>6 DEF Underway
        <3>2. PICK t : t = Tail(s)
            OBVIOUS
        <3>3. /\ in' = t /\ t \in Seq(Seq(Packets)) /\ Len(t) = Len(s) - 1 /\ t # <<>> /\ s # <<>>
              /\ Len(s) \in Nat /\ Len(s) > 1 /\ Len(i) \in Nat /\ 1 \in DOMAIN t
              /\ \A b \in DOMAIN t : b \in Nat /\ b >= 1 /\ b + 1 \in DOMAIN s /\ t[b] = s[b + 1]
            <4>1. in' = t /\ Len(s) \in Nat /\ Len(s) > 1 /\ Len(i) \in Nat
                <5>1. in' = t /\ Len(s) > 1
                    BY <2>2, <2>6, <3>2, Zenon
                <5>2. Len(s) \in Nat /\ Len(i) \in Nat
                    OBVIOUS
                <5> QED BY <5>1, <5>2
            <4>2. s # <<>>
                BY <4>1
            <4>3. t \in Seq(Seq(Packets)) /\ Len(t) = Len(s) - 1
                BY <3>2, <4>2
            <4>4. t # <<>> /\ 1 \in DOMAIN t
                BY <4>1, <4>3
            <4>5. \A b \in DOMAIN t : b \in Nat /\ b >= 1 /\ b + 1 \in DOMAIN s /\ t[b] = s[b + 1]
                BY <3>2, <4>2
            <4> QED BY <4>1, <4>2, <4>3, <4>4, <4>5
        <3>4. Len(s) <= Len(i) /\ \A b \in DOMAIN s : b > 1 => s[b] = i[h + b - 1]
            BY <1>1, <2>2, <2>3, <2>5, <3>1 DEF InputLeft
        <3>5. h \in Nat /\ h \in DOMAIN i /\ h + 1 \in DOMAIN i
            <4>1. DOMAIN i = 1 .. Len(i)
                OBVIOUS
            <4>2. \A a, l \in Nat : (l > 1 /\ l <= a) =>
                     a - l + 1 \in Nat /\ a - l + 1 \in 1 .. a /\ (a - l + 1) + 1 \in 1 .. a
                OBVIOUS
            <4>3. Len(s) \in Nat /\ Len(i) \in Nat /\ Len(s) > 1 /\ Len(s) <= Len(i)
                BY <3>3, <3>4
            <4>4. h \in Nat /\ h \in 1 .. Len(i) /\ h + 1 \in 1 .. Len(i)
                BY <2>4, <4>2, <4>3, Zenon
            <4> QED BY <4>1, <4>4
        <3>6. \A b \in DOMAIN t : t[b] = i[h + 1 + b - 1]
            <4> SUFFICES ASSUME NEW b \in DOMAIN t PROVE t[b] = i[h + 1 + b - 1]
                OBVIOUS
            <4>1. b \in Nat /\ b + 1 > 1 /\ b + 1 \in DOMAIN s /\ t[b] = s[b + 1]
                BY <3>3
            <4>2. s[b + 1] = i[h + (b + 1) - 1]
                BY <3>4, <4>1, Zenon
            <4>3. h + (b + 1) - 1 = h + 1 + b - 1
                BY <3>5, <4>1
            <4> QED BY <4>1, <4>2, <4>3
        <3>7. t[1] = i[h + 1]
            <4>1. h + 1 + 1 - 1 = h + 1
                BY <3>5
            <4> QED BY <3>3, <3>6, <4>1
        <3>8. Here' = h + 1 /\ Past' = 0
            <4>1. Here' = h + 1
                BY <1>1, <2>3, <2>4, <3>3 DEF Here
            <4>2. Len(i[h + 1]) \in Nat
                BY <3>5
            <4> QED BY <1>1, <2>3, <3>3, <3>7, <4>1, <4>2 DEF Past
        <3>9. InputLeft'
            <4>1. Len(t) <= Len(i) /\ Len(t[1]) <= Len(i[h + 1])
                <5>1. Len(i[h + 1]) \in Nat
                    BY <3>5
                <5> QED BY <3>3, <3>4, <3>7, <5>1
            <4>2. \A n \in DOMAIN t[1] : t[1][n] = i[h + 1][0 + n]
                BY <3>3, <3>7
            <4> QED BY <1>1, <2>3, <3>3, <3>6, <3>8, <4>1, <4>2 DEF InputLeft
        <3>10. \A b \in DOMAIN inp : \A n \in DOMAIN inp[b] : WasRead(b, n)' <=> WasRead(b, n)
            <4> SUFFICES ASSUME NEW b \in DOMAIN i, NEW n \in DOMAIN i[b] PROVE WasRead(b, n)' <=> WasRead(b, n)
                BY <2>3
            <4>1. WasRead(b, n) <=> b < h \/ (b = h /\ n <= Len(i[h]))
                BY <1>1, <2>5, <3>3 DEF WasRead
            <4>2. WasRead(b, n)' <=> b < h + 1 \/ (b = h + 1 /\ n <= 0)
                BY <3>1, <3>8 DEF WasRead
            <4>3. n \in Nat /\ n >= 1 /\ n <= Len(i[b]) /\ b \in Nat
                OBVIOUS
            <4>4. (b < h \/ (b = h /\ n <= Len(i[h]))) <=> (b < h + 1 \/ (b = h + 1 /\ n <= 0))
                BY <3>5, <4>3
            <4> QED BY <4>1, <4>2, <4>4, Zenon
        <3>11. TmpWasRead'
            <4> SUFFICES ASSUME NEW u \in DOMAIN Tmp.keys
                         PROVE  \E b \in DOMAIN inp : \E n \in DOMAIN inp[b] :
                                   WasRead(b, n)' /\ IsKey(inp[b][n]) /\ SameKey(inp[b][n], Tmp.keys[u])
                BY <1>1, <3>1 DEF TmpWasRead, Tmp
            <4>1. \E b \in DOMAIN inp : \E n \in DOMAIN inp[b] :
                      WasRead(b, n) /\ IsKey(inp[b][n]) /\ SameKey(inp[b][n], Tmp.keys[u])
                BY <1>1, <3>1, Zenon DEF TmpWasRead
            <4> QED BY <3>10, <4>1, Zenon
        <3>12. LastWasRead'
            <4>1. ASSUME NEW m \in DOMAIN i[h + 1] PROVE ~PrimaryOf(i[h + 1], m, 1)
                <5>1. ~(m < 1)
                    BY <3>5
                <5> QED BY <5>1, Zenon DEF PrimaryOf
            <4>2. Past' + 1 = 1 /\ Here' = h + 1 /\ inp' = i
                BY <1>1, <2>3, <3>8
            <4> QED BY <4>1, <4>2 DEF LastWasRead
        <3>13. Brought'
            <4>1. \A b \in DOMAIN inp : \A n \in DOMAIN inp[b] : WasRead(b, n)' => WasRead(b, n)
                BY <3>10, Zenon
            <4>2. \A u : KeyAhead(u)' /\ \A m : Ahead(u, m)'
                BY <3>1, Zenon DEF KeyAhead, Ahead
            <4> QED BY <1>1, <1>5, <3>1, <4>1, <4>2, BroughtQuiet
        <3>14. RingsHad'
            <4> SUFFICES ASSUME NEW r \in Rings, NEW name \in RingNames(r) PROVE IsSub(name) \/ name \in had[r]
                BY <1>1, <3>1 DEF RingsHad, RingNames
            <4> QED BY <1>1, <3>1, Zenon DEF RingsHad, KeyAhead
        <3>15. Written'
            BY <3>1 DEF Written
        <3> QED BY <1>3, <3>9, <3>11, <3>12, <3>13, <3>14, <3>15, Zenon DEF Sent
    <2>7. CASE LoadOver(~errors, rings[to]) /\ (in = <<>> \/ errors \/ ~(Len(in) > 1))
        <3>1. /\ rings' = [rings EXCEPT ![to] = rings[to]] /\ at' = <<1, 1>> /\ pc' \in {"import", "clean"}
              /\ pc' = "import" => ~errors
            BY <2>1, <2>7 DEF LoadOver
        <3>2. rings' = rings /\ pc' = "import" /\ ~errors
            BY <1>1, <1>5, <3>1 DEF TypeOK, Underway
        <3>3. Underway
            BY <1>1, <2>1, <3>2 DEF Underway
        <3>4. \A b \in DOMAIN inp : \A n \in DOMAIN inp[b] : WasRead(b, n)
            <4> SUFFICES ASSUME NEW b \in DOMAIN i, NEW n \in DOMAIN i[b] PROVE WasRead(b, n)
                BY <2>3
            <4>1. s # <<>> /\ Len(s) <= Len(i) /\ ~(Len(s) > 1)
                <5>1. i # <<>>
                    OBVIOUS
                <5> QED BY <1>1, <2>2, <2>3, <2>7, <3>2, <3>3, <5>1 DEF InputLeft
            <4>2. Len(s) = 1 /\ Len(i) \in Nat
                <5>1. Len(s) \in Nat /\ Len(s) # 0 /\ Len(i) \in Nat
                    BY <4>1
                <5>2. \A z \in Nat : z # 0 /\ ~(z > 1) => z = 1
                    OBVIOUS
                <5> QED BY <4>1, <5>1, <5>2, Zenon
            <4>3. h = Len(i)
                BY <2>4, <4>2
            <4>4. b \in Nat /\ b <= h /\ n <= Len(i[b])
                BY <4>3
            <4>5. b < h \/ (b = h /\ n <= Len(i[h]))
                BY <4>2, <4>3, <4>4
            <4> QED BY <2>5, <4>1, <4>5 DEF WasRead
        <3>5. Tmp.keys \in Seq(Keys)
            BY <1>1 DEF TypeOK, AllRings, RingType, Tmp
        <3>6. \A t \in DOMAIN Tmp.keys : KeyAhead(t)' /\ \A m : Ahead(t, m)'
            <4>1. \A t \in DOMAIN Tmp.keys : t >= 1
                BY <3>5
            <4>2. at'[1] = 1
                BY <3>1
            <4> QED BY <3>2, <4>1, <4>2 DEF KeyAhead, Ahead
        <3>7. Brought'
            BY <1>1, <1>5, <3>2, <3>3, <3>4, <3>6, BroughtQuiet
        <3>8. RingsHad'
            <4> SUFFICES ASSUME NEW r \in Rings, NEW name \in RingNames(r) PROVE IsSub(name) \/ name \in had[r]
                BY <1>1, <3>2 DEF RingsHad, RingNames
            <4> QED BY <1>1, <3>3, Zenon DEF RingsHad, KeyAhead
        <3>9. Written' /\ InputLeft' /\ TmpWasRead' /\ LastWasRead'
            BY <3>2 DEF Written, InputLeft, TmpWasRead, LastWasRead
        <3> QED BY <1>3, <3>7, <3>8, <3>9, Zenon DEF Sent
    <2> QED BY <1>2, <2>6, <2>7
<1> QED BY <1>4, <1>5

\* A ring of the program, and its keys by their names.
LEMMA RingOfFacts ==
    ASSUME NEW key, NEW other
    PROVE  /\ RingOf(key) \in Rings
           /\ SameKey(key, other) => RingOf(key) = RingOf(other) /\ key.name = other.name
           /\ (key.sec \in BOOLEAN /\ other.sec \in BOOLEAN /\ RingOf(key) = RingOf(other) /\ key.name = other.name)
                 => SameKey(key, other)
BY DEF RingOf, Rings, SameKey

\* The names of a ring.
LEMMA RingNamesFacts ==
    ASSUME NEW r, NEW name
    PROVE  name \in RingNames(r) <=> \E n \in DOMAIN rings[r].keys : rings[r].keys[n].name = name
BY Zenon DEF RingNames

LEMMA RingNamesLater ==
    ASSUME NEW r, NEW name
    PROVE  name \in RingNames(r)' <=> \E n \in DOMAIN rings'[r].keys : rings'[r].keys[n].name = name
BY Zenon DEF RingNames

\* Names and pointers of the rings stay, so what is in a ring stays there.
LEMMA BroughtStays ==
    ASSUME \A r \in Rings : Preserves(rings[r], rings'[r]), NEW p, NEW name
    PROVE  /\ p.name \in RingNames(RingOf(p)) => KeyBrought(p)'
           /\ Reaches("KBX", RingOf(p), rings[RingOf(p)], name) => SubkeyBrought(p, name)'
<1>1. PICK r \in Rings : r = RingOf(p)
    BY RingOfFacts
<1>2. Preserves(rings[r], rings'[r])
    BY <1>1
<1>3. ASSUME p.name \in RingNames(r) PROVE KeyBrought(p)'
    <2>1. PICK n \in DOMAIN rings[r].keys : rings[r].keys[n].name = p.name
        BY <1>3, RingNamesFacts
    <2>2. n \in DOMAIN rings'[r].keys /\ rings'[r].keys[n].name = p.name
        BY <1>2, <2>1, Zenon DEF Preserves
    <2>3. p.name \in RingNames(r)'
        BY <2>2, RingNamesLater
    <2> QED BY <1>1, <2>3 DEF KeyBrought
<1>4. ASSUME Reaches("KBX", r, rings[r], name) PROVE SubkeyBrought(p, name)'
    <2>1. PICK ring : ring = rings[r]
        OBVIOUS
    <2>2. PICK g : g = rings'[r]
        OBVIOUS
    <2>3. Reaches("KBX", r, g, name)
        BY <1>2, <1>4, <2>1, <2>2, PreservesFacts
    <2> QED BY <1>1, <2>2, <2>3 DEF SubkeyBrought
<1> QED BY <1>1, <1>3, <1>4

\* One key of the temporary store: it is in the ring now, or was before.
LEMMA SentImportKey == ASSUME IInv, Sent, ImportKey PROVE Sent'
<1>0. /\ TypeOK /\ Imported /\ Brought /\ RingsHad /\ pc = "import" /\ at[1] <= Len(Tmp.keys)
      /\ UNCHANGED <<fmt, op, errors, inp, had>>
    BY Zenon DEF IInv, Sent, ImportKey, still
<1>1. pc' \in {"import", "sub", "undefined"}
    BY <1>0 DEF ImportKey, Undefined
<1>2. Operates' /\ ImportSaved'
    BY <1>1 DEF Operates, ImportSaved
<1>3. CASE ~Underway'
    BY <1>2, <1>3, SentIdle
<1>4. CASE Underway'
    <2>1. /\ at[1] \in DOMAIN Tmp.keys /\ at[1] \in Nat /\ at[2] = 1 /\ op = "import"
          /\ Importing \in Keys /\ Tmp \in RingType /\ Tmp.keys \in Seq(Keys)
        <3>1. pc \in {"import", "sub"}
            BY <1>0
        <3> QED BY <1>0, <3>1, ImportingFacts DEF Imported
    <2>2. Underway /\ pc' # "undefined"
        BY <1>0, <1>4, <2>1 DEF Underway
    <2>3. PICK a \in DOMAIN Tmp.keys : a = at[1] /\ a \in Nat
        BY <2>1
    <2>4. PICK k \in Keys : k = Importing /\ k = Tmp.keys[a]
        BY <2>1, <2>3 DEF Importing
    <2>5. PICK d \in Rings : d = Dest /\ d = RingOf(k)
        BY <2>4 DEF Rings, Dest, RingOf
    <2>6. d \in AllRings /\ d # "tmp"
        BY DEF AllRings, Rings
    <2>7. PICK ring \in RingType : ring = rings[d] /\ Len(ring.keys) <= ring.vsize
        BY <1>0, <2>6 DEF TypeOK
    <2>8. \A t \in DOMAIN Tmp.keys : t \in Nat /\ Tmp.keys[t].sec \in BOOLEAN /\ (KeyAhead(t) <=> t >= a)
        <3>1. \A t \in DOMAIN Tmp.keys : t \in Nat /\ Tmp.keys[t] \in Keys
            BY <2>1
        <3>2. \A t \in DOMAIN Tmp.keys : KeyAhead(t) <=> t >= a
            BY <1>0, <2>3 DEF KeyAhead
        <3> QED BY <3>1, <3>2 DEF Keys
    <2>9. \A t \in DOMAIN Tmp.keys : \A m : Ahead(t, m) <=> t >= a
        BY <1>0, <2>3 DEF Ahead
    <2>10. \A r \in Rings : \A name \in RingNames(r) :
            \/ IsSub(name) \/ name \in had[r]
            \/ \E t \in DOMAIN Tmp.keys : t < a /\ Tmp.keys[t].name = name /\ RingOf(Tmp.keys[t]) = r
        <3> SUFFICES ASSUME NEW r \in Rings, NEW name \in RingNames(r), ~IsSub(name), name \notin had[r]
                     PROVE  \E t \in DOMAIN Tmp.keys : t < a /\ Tmp.keys[t].name = name /\ RingOf(Tmp.keys[t]) = r
            OBVIOUS
        <3>1. PICK t \in DOMAIN Tmp.keys : ~KeyAhead(t) /\ Tmp.keys[t].name = name /\ RingOf(Tmp.keys[t]) = r
            BY <1>0, <2>2, Zenon DEF RingsHad
        <3>2. t < a
            <4>1. t \in Nat /\ ~(t >= a)
                BY <2>8, <3>1
            <4> QED BY <2>3, <4>1
        <3> QED BY <3>1, <3>2
    <2>11. \/ /\ rnp_key_store_get_key_by_grip(ring, k.name) # 0
              /\ at' = <<at[1] + 1, 1>> /\ rings' = rings /\ pc' = "import"
           \/ /\ pc' = "sub" /\ at' = at
              /\ \E g \in rnp_key_store_add_key(ring, k) : rings' = [rings EXCEPT ![d] = g]
        BY <1>0, <2>2, <2>4, <2>5, <2>7, Zenon DEF ImportKey, Undefined
    <2>12. CASE /\ rnp_key_store_get_key_by_grip(ring, k.name) # 0
                /\ at' = <<at[1] + 1, 1>> /\ rings' = rings /\ pc' = "import"
        <3>1. k.name \in RingNames(d)
            <4>1. \E n \in DOMAIN ring.keys : ring.keys[n].name = k.name
                BY <2>12, GripFacts, Zenon
            <4> QED BY <2>7, <4>1, RingNamesFacts
        <3>2. Tmp' = Tmp /\ \A r \in Rings : Preserves(rings[r], rings'[r])
            BY <2>12, SamePreserves DEF Tmp
        <3>3. at'[1] = a + 1
            BY <2>3, <2>12
        <3>4. \A t \in DOMAIN Tmp.keys : t > a => KeyAhead(t)' /\ \A m : Ahead(t, m)'
            <4>1. \A t \in DOMAIN Tmp.keys : t > a => t >= a + 1
                BY <2>3, <2>8
            <4> QED BY <2>12, <3>3, <4>1 DEF KeyAhead, Ahead
        <3>5. ASSUME NEW p, KeyBrought(p) PROVE KeyBrought(p)'
            <4>1. CASE p.name \in RingNames(RingOf(p))
                BY <3>2, <4>1, BroughtStays
            <4>2. ASSUME NEW t \in DOMAIN Tmp.keys, KeyAhead(t), SameKey(Tmp.keys[t], p) PROVE KeyBrought(p)'
                <5>1. CASE t > a
                    BY <3>2, <3>4, <4>2, <5>1 DEF KeyBrought
                <5>2. CASE t = a
                    <6>1. p.name \in RingNames(RingOf(p))
                        BY <2>4, <2>5, <3>1, <4>2, <5>2, RingOfFacts
                    <6> QED BY <3>2, <6>1, BroughtStays
                <5>3. t > a \/ t = a
                    BY <2>3, <2>8, <4>2
                <5> QED BY <5>1, <5>2, <5>3
            <4> QED BY <3>5, <4>1, <4>2, Zenon DEF KeyBrought
        <3>6. ASSUME NEW p, NEW name, ~IsSub(p.name), p.name \notin had[RingOf(p)], SubkeyBrought(p, name)
              PROVE  SubkeyBrought(p, name)'
            <4>1. CASE Reaches("KBX", RingOf(p), rings[RingOf(p)], name)
                BY <3>2, <4>1, BroughtStays
            <4>2. ASSUME NEW t \in DOMAIN Tmp.keys, SameKey(Tmp.keys[t], p), FirstOf(t), NEW m \in DOMAIN Tmp.keys[t].subs,
                         Ahead(t, m), Tmp.keys[Tmp.keys[t].subs[m].idx].name = name
                  PROVE  SubkeyBrought(p, name)'
                <5>1. CASE t > a
                    <6>1. FirstOf(t)'
                        BY <3>2, <4>2 DEF FirstOf
                    <6> QED BY <3>2, <3>4, <4>2, <5>1, <6>1 DEF SubkeyBrought
                <5>2. CASE t = a
                    <6>1. p.name \in RingNames(d) /\ RingOf(p) = d /\ RingOf(Tmp.keys[t]) = d
                        BY <2>4, <2>5, <3>1, <4>2, <5>2, RingOfFacts
                    <6>2. PICK u \in DOMAIN Tmp.keys : u < a /\ Tmp.keys[u].name = p.name /\ RingOf(Tmp.keys[u]) = d
                        BY <2>10, <3>6, <6>1
                    <6>3. SameKey(Tmp.keys[u], Tmp.keys[t])
                        <7>1. Tmp.keys[u].name = Tmp.keys[t].name
                            BY <4>2, <6>2 DEF SameKey
                        <7> QED BY <2>8, <6>1, <6>2, <7>1, RingOfFacts
                    <6> QED BY <4>2, <5>2, <6>2, <6>3, Zenon DEF FirstOf
                <5>3. t > a \/ t = a
                    <6>1. t >= a /\ t \in Nat
                        BY <2>8, <2>9, <4>2
                    <6> QED BY <2>3, <6>1
                <5> QED BY <5>1, <5>2, <5>3
            <4> QED BY <3>6, <4>1, <4>2, Zenon DEF SubkeyBrought
        <3>7. Brought'
            <4>1. \A b, n : WasRead(b, n)
                BY <1>0, Zenon DEF WasRead
            <4> QED BY <1>0, <1>4, <2>2, <3>5, <3>6, <4>1, BroughtStep
        <3>8. RingsHad'
            <4> SUFFICES ASSUME NEW r \in Rings, NEW name \in RingNames(r)
                         PROVE  \/ IsSub(name) \/ name \in had[r]
                                \/ \E t \in DOMAIN Tmp.keys : /\ ~KeyAhead(t)' /\ Tmp.keys[t].name = name
                                                              /\ RingOf(Tmp.keys[t]) = r
                BY <1>0, <2>12, <3>2 DEF RingsHad, RingNames
            <4>1. \A t \in DOMAIN Tmp.keys : t < a => ~KeyAhead(t)'
                <5>1. \A t \in DOMAIN Tmp.keys : t < a => ~(t >= a + 1)
                    BY <2>3, <2>8
                <5> QED BY <2>12, <3>3, <5>1 DEF KeyAhead
            <4> QED BY <2>10, <4>1, Zenon
        <3>9. InputLeft' /\ TmpWasRead' /\ LastWasRead' /\ Written'
            BY <2>12 DEF InputLeft, TmpWasRead, LastWasRead, Written
        <3> QED BY <1>2, <3>7, <3>8, <3>9, Zenon DEF Sent
    <2>13. CASE /\ pc' = "sub" /\ at' = at
                /\ \E g \in rnp_key_store_add_key(ring, k) : rings' = [rings EXCEPT ![d] = g]
        <3>1. PICK g \in rnp_key_store_add_key(ring, k) : rings' = [rings EXCEPT ![d] = g]
            BY <2>13
        <3>2. Grown(ring, g, k)
            BY <2>7, AddFacts, Zenon
        <3>3. \A r \in Rings : Preserves(rings[r], rings'[r])
            <4>1. Preserves(ring, g)
                BY <3>2, GrownPreserves
            <4> QED BY <1>0, <2>6, <2>7, <3>1, <4>1, OnePreserves
        <3>4. Tmp' = Tmp /\ rings'[d] = g /\ \A r \in Rings : r # d => rings'[r] = rings[r]
            <4>1. "tmp" \in AllRings /\ \A r \in Rings : r \in AllRings
                BY DEF AllRings
            <4> QED BY <1>0, <2>6, <3>1, <4>1 DEF TypeOK, Tmp
        <3>5. \A n \in DOMAIN g.keys : g.keys[n] = k \/ (n \in DOMAIN ring.keys /\ g.keys[n] = ring.keys[n])
            <4>1. /\ DOMAIN g.keys = 1 .. Len(ring.keys) + 1 /\ g.keys[Len(ring.keys) + 1] = k
                  /\ \A n \in 1 .. Len(ring.keys) : g.keys[n] = ring.keys[n]
                BY <3>2, Zenon DEF Grown
            <4>2. DOMAIN ring.keys = 1 .. Len(ring.keys) /\ Len(ring.keys) \in Nat
                BY DEF RingType
            <4> QED BY <4>1, <4>2
        <3>6. k.name \in RingNames(d)'
            <4>1. \E n \in DOMAIN g.keys : g.keys[n].name = k.name
                <5>1. DOMAIN g.keys = 1 .. Len(ring.keys) + 1 /\ g.keys[Len(ring.keys) + 1] = k
                    BY <3>2, Zenon DEF Grown
                <5>2. Len(ring.keys) + 1 \in DOMAIN g.keys
                    BY <5>1 DEF RingType
                <5> QED BY <5>1, <5>2, Zenon
            <4> QED BY <3>4, <4>1, RingNamesLater
        <3>7. at'[1] = a /\ at'[2] = 1
            BY <2>1, <2>3, <2>13
        <3>8. \A t \in DOMAIN Tmp.keys : t > a => KeyAhead(t)'
            BY <2>13, <3>7 DEF KeyAhead
        <3>9. \A t \in DOMAIN Tmp.keys : \A m \in DOMAIN Tmp.keys[t].subs : t >= a => Ahead(t, m)'
            <4> SUFFICES ASSUME NEW t \in DOMAIN Tmp.keys, NEW m \in DOMAIN Tmp.keys[t].subs, t >= a PROVE Ahead(t, m)'
                OBVIOUS
            <4>1. Tmp.keys[t].subs \in Seq(Pointers)
                <5>1. Tmp.keys[t] \in Keys
                    BY <2>1
                <5> QED BY <5>1 DEF Keys
            <4>2. m >= 1
                BY <4>1
            <4>3. t > a \/ t = a
                BY <2>3, <2>8
            <4> QED BY <2>13, <3>7, <4>2, <4>3 DEF Ahead
        <3>10. ASSUME NEW p, KeyBrought(p) PROVE KeyBrought(p)'
            <4>1. CASE p.name \in RingNames(RingOf(p))
                BY <3>3, <4>1, BroughtStays
            <4>2. ASSUME NEW t \in DOMAIN Tmp.keys, KeyAhead(t), SameKey(Tmp.keys[t], p) PROVE KeyBrought(p)'
                <5>1. CASE t > a
                    BY <3>4, <3>8, <4>2, <5>1 DEF KeyBrought
                <5>2. CASE t = a
                    <6>1. p.name = k.name /\ RingOf(p) = d
                        BY <2>4, <2>5, <4>2, <5>2, RingOfFacts
                    <6> QED BY <3>6, <6>1 DEF KeyBrought
                <5>3. t > a \/ t = a
                    BY <2>3, <2>8, <4>2
                <5> QED BY <5>1, <5>2, <5>3
            <4> QED BY <3>10, <4>1, <4>2, Zenon DEF KeyBrought
        <3>11. ASSUME NEW p, NEW name, SubkeyBrought(p, name) PROVE SubkeyBrought(p, name)'
            <4>1. CASE Reaches("KBX", RingOf(p), rings[RingOf(p)], name)
                BY <3>3, <4>1, BroughtStays
            <4>2. ASSUME NEW t \in DOMAIN Tmp.keys, SameKey(Tmp.keys[t], p), FirstOf(t), NEW m \in DOMAIN Tmp.keys[t].subs,
                         Ahead(t, m), Tmp.keys[Tmp.keys[t].subs[m].idx].name = name
                  PROVE  SubkeyBrought(p, name)'
                <5>1. FirstOf(t)' /\ Ahead(t, m)'
                    <6>1. t >= a
                        BY <2>9, <4>2
                    <6>2. Ahead(t, m)'
                        BY <3>9, <6>1
                    <6>3. FirstOf(t)'
                        BY <3>4, <4>2 DEF FirstOf
                    <6> QED BY <6>2, <6>3
                <5> QED BY <3>4, <4>2, <5>1 DEF SubkeyBrought
            <4> QED BY <3>11, <4>1, <4>2, Zenon DEF SubkeyBrought
        <3>12. Brought'
            <4>1. \A b, n : WasRead(b, n)
                BY <1>0, Zenon DEF WasRead
            <4> QED BY <1>0, <1>4, <2>2, <3>10, <3>11, <4>1, BroughtStep
        <3>13. RingsHad'
            <4> SUFFICES ASSUME NEW r \in Rings, NEW name, name \in RingNames(r)'
                         PROVE  \/ IsSub(name) \/ name \in had[r]
                                \/ \E t \in DOMAIN Tmp.keys : /\ ~KeyAhead(t)' /\ Tmp.keys[t].name = name
                                                              /\ RingOf(Tmp.keys[t]) = r
                BY <1>0, <3>4 DEF RingsHad
            <4>1. \A t \in DOMAIN Tmp.keys : t <= a => ~KeyAhead(t)'
                <5>1. \A t \in DOMAIN Tmp.keys : t <= a => ~(t > a)
                    BY <2>3, <2>8
                <5> QED BY <2>13, <3>7, <5>1 DEF KeyAhead
            <4>2. CASE name \in RingNames(r)
                <5>1. \A t \in DOMAIN Tmp.keys : t < a => t <= a
                    BY <2>3, <2>8
                <5> QED BY <2>10, <4>1, <4>2, <5>1, Zenon
            <4>3. CASE name \notin RingNames(r)
                <5>1. PICK n \in DOMAIN rings'[r].keys : rings'[r].keys[n].name = name
                    BY RingNamesLater
                <5>2. r = d
                    BY <3>4, <4>3, <5>1, RingNamesFacts
                <5>3. name = k.name
                    <6>1. n \in DOMAIN g.keys /\ g.keys[n].name = name
                        BY <3>4, <5>1, <5>2
                    <6>2. ~\E l \in DOMAIN ring.keys : ring.keys[l].name = name
                        BY <2>7, <4>3, <5>2, RingNamesFacts
                    <6> QED BY <3>5, <6>1, <6>2
                <5>4. ~KeyAhead(a)'
                    BY <2>3, <4>1
                <5> QED BY <2>4, <2>5, <5>2, <5>3, <5>4, Zenon
            <4> QED BY <4>2, <4>3
        <3>14. InputLeft' /\ TmpWasRead' /\ LastWasRead' /\ Written'
            BY <2>13 DEF InputLeft, TmpWasRead, LastWasRead, Written
        <3> QED BY <1>2, <3>12, <3>13, <3>14, Zenon DEF Sent
    <2> QED BY <2>11, <2>12, <2>13
<1> QED BY <1>3, <1>4

\* A subkey: it is reached from its primary key now.
LEMMA SentImportSubkey == ASSUME IInv, Sent, ImportSubkey PROVE Sent'
<1>0. /\ TypeOK /\ Control /\ Imported /\ Linked /\ Brought /\ RingsHad /\ pc = "sub" /\ at[2] <= Len(Importing.subs)
      /\ UNCHANGED <<fmt, op, errors, inp, had>>
    BY Zenon DEF IInv, Sent, ImportSubkey, still
<1>1. pc' \in {"sub", "undefined"}
    BY <1>0, Zenon DEF ImportSubkey, Undefined
<1>2. Operates' /\ ImportSaved'
    BY <1>1 DEF Operates, ImportSaved
<1>3. CASE pc' = "undefined"
    <2>1. ~Underway'
        BY <1>3 DEF Underway
    <2> QED BY <1>2, <2>1, SentIdle
<1>4. CASE pc' = "sub"
    <2>1. Underway /\ Underway' /\ op = "import"
        BY <1>0, <1>4 DEF Underway, Control
    <2>2. Tmp.keys \in Seq(Keys) /\ at[1] \in DOMAIN Tmp.keys /\ at[2] \in Nat
        BY <1>0 DEF TypeOK, RingType, AllRings, Tmp, Imported
    <2>3. PICK a \in DOMAIN Tmp.keys : a = at[1]
        BY <2>2
    <2>4. PICK c \in Nat : c = at[2]
        BY <2>2
    <2>5. at'[1] = a /\ at'[2] = c + 1
        <3>1. at' = <<at[1], at[2] + 1>>
            BY <1>4, Zenon DEF ImportSubkey, Undefined
        <3> QED BY <2>3, <2>4, <3>1
    <2>6. \A r \in Rings : Preserves(rings[r], rings'[r])
        BY <1>4, SubkeyFacts
    <2>7. PICK sub : /\ IsSub(sub) /\ Tmp.keys[Importing.subs[at[2]].idx].name = sub
                     /\ Reaches("KBX", Dest, rings'[Dest], sub)
                     /\ \A r \in Rings : \A n \in DOMAIN rings'[r].keys :
                           \/ rings'[r].keys[n].name = sub
                           \/ \E l \in DOMAIN rings[r].keys : rings[r].keys[l].name = rings'[r].keys[n].name
        BY <1>4, SubkeyFacts
    <2>8. /\ DOMAIN Tmp'.keys = DOMAIN Tmp.keys
          /\ \A t \in DOMAIN Tmp.keys :
                /\ SameKey(Tmp'.keys[t], Tmp.keys[t])
                /\ DOMAIN Tmp'.keys[t].subs = DOMAIN Tmp.keys[t].subs
                /\ \A m \in DOMAIN Tmp.keys[t].subs :
                      t # at[1] \/ m # at[2] => Tmp'.keys[t].subs[m] = Tmp.keys[t].subs[m]
        BY <1>4, SubkeyFacts
    <2>9. PICK k : k = Tmp.keys[a] /\ k = Importing
        BY <2>3 DEF Importing
    <2>10. RingOf(k) = Dest
        BY <2>9 DEF RingOf, Dest
    <2>11. \A t : KeyAhead(t)' <=> KeyAhead(t)
        BY <1>0, <1>4, <2>3, <2>5 DEF KeyAhead
    <2>12. \A t \in DOMAIN Tmp.keys : \A m \in DOMAIN Tmp.keys[t].subs :
              Ahead(t, m) => Ahead(t, m)' \/ (t = a /\ m = c)
        <3> SUFFICES ASSUME NEW t \in DOMAIN Tmp.keys, NEW m \in DOMAIN Tmp.keys[t].subs, Ahead(t, m), m # c \/ t # a
                     PROVE  Ahead(t, m)'
            OBVIOUS
        <3>1. m \in Nat
            <4>1. Tmp.keys[t] \in Keys
                BY <2>2
            <4>2. Tmp.keys[t].subs \in Seq(Pointers)
                BY <4>1 DEF Keys
            <4> QED BY <4>2
        <3>2. t > a \/ (t = a /\ m >= c)
            BY <1>0, <2>3, <2>4 DEF Ahead
        <3>3. t > a \/ (t = a /\ m >= c + 1)
            BY <3>1, <3>2
        <3> QED BY <1>4, <2>5, <3>3 DEF Ahead
    <2>13. ASSUME NEW t \in DOMAIN Tmp.keys, FirstOf(t) PROVE FirstOf(t)'
        <3> SUFFICES ASSUME NEW u \in DOMAIN Tmp.keys, u < t PROVE ~SameKey(Tmp'.keys[u], Tmp'.keys[t])
            BY <2>8 DEF FirstOf
        <3>1. ~SameKey(Tmp.keys[u], Tmp.keys[t])
            BY <2>13, Zenon DEF FirstOf
        <3>2. SameKey(Tmp'.keys[u], Tmp.keys[u]) /\ SameKey(Tmp'.keys[t], Tmp.keys[t])
            BY <2>8, Zenon
        <3> QED BY <3>1, <3>2 DEF SameKey
    <2>14. ASSUME NEW p, NEW t \in DOMAIN Tmp.keys, SameKey(Tmp.keys[t], p)
           PROVE  t \in DOMAIN Tmp'.keys /\ SameKey(Tmp'.keys[t], p)
        <3>1. t \in DOMAIN Tmp'.keys /\ SameKey(Tmp'.keys[t], Tmp.keys[t])
            BY <2>8, Zenon
        <3> QED BY <2>14, <3>1 DEF SameKey
    <2>15. ASSUME NEW p, KeyBrought(p) PROVE KeyBrought(p)'
        <3>1. CASE p.name \in RingNames(RingOf(p))
            BY <2>6, <3>1, BroughtStays
        <3>2. ASSUME NEW t \in DOMAIN Tmp.keys, KeyAhead(t), SameKey(Tmp.keys[t], p) PROVE KeyBrought(p)'
            <4>1. t \in DOMAIN Tmp'.keys /\ KeyAhead(t)' /\ SameKey(Tmp'.keys[t], p)
                BY <2>11, <2>14, <3>2
            <4> QED BY <4>1 DEF KeyBrought
        <3> QED BY <2>15, <3>1, <3>2, Zenon DEF KeyBrought
    <2>16. ASSUME NEW p, NEW name, SubkeyBrought(p, name) PROVE SubkeyBrought(p, name)'
        <3>1. CASE Reaches("KBX", RingOf(p), rings[RingOf(p)], name)
            BY <2>6, <3>1, BroughtStays
        <3>2. ASSUME NEW t \in DOMAIN Tmp.keys, SameKey(Tmp.keys[t], p), FirstOf(t), NEW m \in DOMAIN Tmp.keys[t].subs,
                     Ahead(t, m), Tmp.keys[Tmp.keys[t].subs[m].idx].name = name
              PROVE  SubkeyBrought(p, name)'
            <4>1. CASE t = a /\ m = c
                <5>1. name = sub
                    BY <2>3, <2>4, <2>7, <3>2, <4>1 DEF Importing
                <5>2. RingOf(p) = Dest
                    <6>1. SameKey(k, p)
                        BY <2>9, <3>2, <4>1
                    <6> QED BY <2>10, <6>1, RingOfFacts
                <5> QED BY <2>7, <5>1, <5>2 DEF SubkeyBrought
            <4>2. CASE ~(t = a /\ m = c)
                <5>1. Ahead(t, m)' /\ FirstOf(t)'
                    BY <2>12, <2>13, <3>2, <4>2
                <5>2. t \in DOMAIN Tmp'.keys /\ SameKey(Tmp'.keys[t], p) /\ m \in DOMAIN Tmp'.keys[t].subs
                    BY <2>8, <2>14, <3>2
                <5>3. PICK i : i = Tmp.keys[t].subs[m].idx /\ i = Tmp'.keys[t].subs[m].idx
                    BY <2>3, <2>4, <2>8, <3>2, <4>2
                <5>4. i \in DOMAIN Tmp.keys
                    BY <1>0, <3>2, <5>3, Zenon DEF Linked, TmpLinked, Within
                <5>5. Tmp'.keys[i].name = name
                    <6>1. SameKey(Tmp'.keys[i], Tmp.keys[i])
                        BY <2>8, <5>4, Zenon
                    <6> QED BY <3>2, <5>3, <6>1 DEF SameKey
                <5>6. Tmp'.keys[Tmp'.keys[t].subs[m].idx].name = name
                    BY <5>3, <5>5
                <5> QED BY <5>1, <5>2, <5>6 DEF SubkeyBrought
            <4> QED BY <4>1, <4>2
        <3> QED BY <2>16, <3>1, <3>2, Zenon DEF SubkeyBrought
    <2>17. Brought'
        <3>1. \A b, n : WasRead(b, n)
            BY <1>0, Zenon DEF WasRead
        <3> QED BY <1>0, <2>1, <2>15, <2>16, <3>1, BroughtStep
    <2>18. RingsHad'
        <3> SUFFICES ASSUME NEW r \in Rings, NEW name, name \in RingNames(r)', ~IsSub(name), name \notin had[r]
                     PROVE  \E t \in DOMAIN Tmp'.keys : /\ ~KeyAhead(t)' /\ Tmp'.keys[t].name = name
                                                        /\ RingOf(Tmp'.keys[t]) = r
            BY <1>0 DEF RingsHad
        <3>1. PICK n \in DOMAIN rings'[r].keys : rings'[r].keys[n].name = name
            BY RingNamesLater
        <3>2. name \in RingNames(r)
            <4>1. \E l \in DOMAIN rings[r].keys : rings[r].keys[l].name = name
                BY <2>7, <3>1
            <4> QED BY <4>1, RingNamesFacts
        <3>3. PICK t \in DOMAIN Tmp.keys : ~KeyAhead(t) /\ Tmp.keys[t].name = name /\ RingOf(Tmp.keys[t]) = r
            BY <1>0, <2>1, <3>2, Zenon DEF RingsHad
        <3>4. t \in DOMAIN Tmp'.keys /\ SameKey(Tmp'.keys[t], Tmp.keys[t]) /\ ~KeyAhead(t)'
            BY <2>8, <2>11, <3>3, Zenon
        <3>5. Tmp'.keys[t].name = name /\ RingOf(Tmp'.keys[t]) = r
            BY <3>3, <3>4, RingOfFacts
        <3> QED BY <3>4, <3>5
    <2>19. InputLeft' /\ TmpWasRead' /\ LastWasRead' /\ Written'
        BY <1>4 DEF InputLeft, TmpWasRead, LastWasRead, Written
    <2> QED BY <1>2, <2>17, <2>18, <2>19, Zenon DEF Sent
<1> QED BY <1>1, <1>3, <1>4

\* The subkeys of a key are done.
LEMMA SentSubkeysDone == ASSUME IInv, Sent, SubkeysDone PROVE Sent'
<1>0. /\ TypeOK /\ Control /\ Imported /\ Brought /\ RingsHad /\ pc = "sub" /\ at[2] > Len(Importing.subs)
      /\ at' = <<at[1] + 1, 1>> /\ pc' = "import" /\ UNCHANGED <<fmt, op, inp, had, rings>>
    BY Zenon DEF IInv, Sent, SubkeysDone, still
<1>1. Underway /\ Underway' /\ Tmp' = Tmp
    BY <1>0 DEF Underway, Control, Tmp
<1>2. Tmp.keys \in Seq(Keys) /\ at[1] \in DOMAIN Tmp.keys /\ at[2] \in Nat
    BY <1>0 DEF TypeOK, RingType, AllRings, Tmp, Imported
<1>3. PICK a \in DOMAIN Tmp.keys : a = at[1] /\ a \in Nat /\ at'[1] = a + 1
    BY <1>0, <1>2
<1>4. \A t \in DOMAIN Tmp.keys : t \in Nat
    BY <1>2
<1>5. \A t \in DOMAIN Tmp.keys : KeyAhead(t)' <=> KeyAhead(t)
    <2>1. \A t \in DOMAIN Tmp.keys : t >= a + 1 <=> t > a
        BY <1>3, <1>4
    <2> QED BY <1>0, <1>3, <2>1 DEF KeyAhead
<1>6. ASSUME NEW t \in DOMAIN Tmp.keys, NEW m \in DOMAIN Tmp.keys[t].subs, Ahead(t, m) PROVE Ahead(t, m)'
    <2>1. PICK s \in Seq(Pointers) : s = Tmp.keys[t].subs
        <3>1. Tmp.keys[t] \in Keys
            BY <1>2
        <3> QED BY <3>1 DEF Keys
    <2>2. m \in Nat /\ m <= Len(s) /\ Len(s) \in Nat
        BY <2>1
    <2>3. ~(t = a /\ m >= at[2])
        BY <1>0, <1>2, <1>3, <2>1, <2>2 DEF Importing
    <2>4. t > a
        BY <1>0, <1>3, <1>6, <2>3 DEF Ahead
    <2>5. t >= a + 1
        BY <1>3, <1>4, <2>4
    <2> QED BY <1>0, <1>3, <2>5 DEF Ahead
<1>7. Brought'
    <2>1. \A b, n : WasRead(b, n)
        BY <1>0, Zenon DEF WasRead
    <2> QED BY <1>0, <1>1, <1>5, <1>6, <2>1, BroughtQuiet
<1>8. RingsHad'
    <2> SUFFICES ASSUME NEW r \in Rings, NEW name \in RingNames(r)
                 PROVE  \/ IsSub(name) \/ name \in had[r]
                        \/ \E t \in DOMAIN Tmp.keys : ~KeyAhead(t)' /\ Tmp.keys[t].name = name /\ RingOf(Tmp.keys[t]) = r
        BY <1>0, <1>1 DEF RingsHad, RingNames
    <2>1. \/ IsSub(name) \/ name \in had[r]
          \/ \E t \in DOMAIN Tmp.keys : ~KeyAhead(t) /\ Tmp.keys[t].name = name /\ RingOf(Tmp.keys[t]) = r
        BY <1>0, <1>1, Zenon DEF RingsHad
    <2> QED BY <1>5, <2>1, Zenon
<1>9. Operates' /\ ImportSaved' /\ InputLeft' /\ TmpWasRead' /\ LastWasRead' /\ Written'
    BY <1>0 DEF Operates, ImportSaved, InputLeft, TmpWasRead, LastWasRead, Written
<1> QED BY <1>7, <1>8, <1>9, Zenon DEF Sent

\* All keys of the temporary store are imported; the secret ring is saved first.
LEMMA SentImportDone == ASSUME IInv, Sent, ImportDone PROVE Sent'
<1>0. /\ TypeOK /\ Control /\ Brought /\ pc = "import" /\ at[1] > Len(Tmp.keys)
      /\ pc' = "save" /\ to' = "sec" /\ UNCHANGED <<fmt, op, inp, had, rings>>
    BY Zenon DEF IInv, Sent, ImportDone
<1>1. Underway /\ Underway'
    BY <1>0 DEF Underway, Control
<1>2. Tmp.keys \in Seq(Keys) /\ at[1] \in Nat
    BY <1>0 DEF TypeOK, RingType, AllRings, Tmp
<1>3. \A t \in DOMAIN Tmp.keys : ~(t >= at[1])
    BY <1>0, <1>2
<1>4. \A t \in DOMAIN Tmp.keys : ~KeyAhead(t) /\ \A m : ~Ahead(t, m)
    BY <1>0, <1>3 DEF KeyAhead, Ahead
<1>5. Brought'
    <2>1. \A b, n : WasRead(b, n)
        BY <1>0, Zenon DEF WasRead
    <2> QED BY <1>0, <1>1, <1>4, <2>1, BroughtQuiet
<1>6. Operates' /\ ImportSaved' /\ InputLeft' /\ TmpWasRead' /\ LastWasRead' /\ RingsHad' /\ Written'
    BY <1>0 DEF Operates, ImportSaved, InputLeft, TmpWasRead, LastWasRead, RingsHad, Written
<1> QED BY <1>5, <1>6, Zenon DEF Sent

\* Files that have all that a save reaches have the keys of the file that is imported.
LEMMA BroughtSaved ==
    ASSUME TypeOK, Underway, Brought, pc = "temp", NEW s,
           \A r \in Rings : \A name \in Names(inp) : Reaches(fmt, r, rings[r], name) => name \in Names(s[r].blobs),
           NEW b \in DOMAIN inp, NEW n \in DOMAIN inp[b], IsKey(inp[b][n])
    PROVE  \/ inp[b][n].name \in Names(s[RingOf(inp[b][n])].blobs)
           \/ /\ fmt = "KBX" /\ IsSub(inp[b][n].name)
              /\ \A m \in DOMAIN inp[b] : PrimaryOf(inp[b], m, n) =>
                    PassedOver(b, m) \/ inp[b][m].sec # inp[b][n].sec
<1>1. PICK p : p = inp[b][n]
    OBVIOUS
<1>2. PICK r \in Rings : r = RingOf(p)
    BY RingOfFacts
<1>3. p.name \in Names(inp)
    BY <1>1, NamesFacts
<1>4. fmt \in {"GPG", "KBX"}
    BY KeyStoreAssumption DEF TypeOK
<1>5. PacketBrought(b, n)
    BY Zenon DEF Brought, WasRead
<1>6. \A t : ~KeyAhead(t) /\ \A m : ~Ahead(t, m)
    BY Zenon DEF KeyAhead, Ahead
<1>7. PICK i \in DOMAIN rings[r].keys : rings[r].keys[i].name = p.name
    <2>1. KeyBrought(p)
        BY <1>1, <1>5, Zenon DEF PacketBrought
    <2>2. p.name \in RingNames(r)
        BY <1>2, <1>6, <2>1, Zenon DEF KeyBrought
    <2> QED BY <2>2, RingNamesFacts
<1>8. ASSUME Reaches(fmt, r, rings[r], p.name) PROVE inp[b][n].name \in Names(s[RingOf(inp[b][n])].blobs)
    BY <1>1, <1>2, <1>3, <1>8
<1>9. CASE fmt = "GPG" \/ ~IsSub(p.name)
    <2>1. Reaches(fmt, r, rings[r], p.name)
        BY <1>7, <1>9, Zenon DEF Reaches
    <2> QED BY <1>8, <2>1
<1>10. CASE fmt = "KBX" /\ IsSub(p.name)
    <2> SUFFICES ASSUME NEW m \in DOMAIN inp[b], PrimaryOf(inp[b], m, n), ~PassedOver(b, m), inp[b][m].sec = inp[b][n].sec
                 PROVE  Reaches(fmt, r, rings[r], p.name)
        BY <1>1, <1>8, <1>10
    <2>1. PICK q : q = inp[b][m]
        OBVIOUS
    <2>2. SubkeyBrought(q, p.name)
        BY <1>1, <1>5, <1>10, <2>1, Zenon DEF PacketBrought
    <2>3. Reaches("KBX", RingOf(q), rings[RingOf(q)], p.name)
        BY <1>6, <2>2, Zenon DEF SubkeyBrought
    <2>4. RingOf(q) = r
        BY <1>1, <1>2, <2>1 DEF RingOf
    <2> QED BY <1>10, <2>3, <2>4
<1> QED BY <1>4, <1>9, <1>10

\* The image has what a save of the ring reaches.
LEMMA SentSave == ASSUME IInv, Sent, Save PROVE Sent'
<1>0. /\ TypeOK /\ Control /\ Brought /\ Written /\ pc = "save"
      /\ UNCHANGED <<fmt, rings, to, inp, had, torn, file, at>>
    BY DEF IInv, Sent, Save, OpenTemp
<1>1. /\ pc' \in {"undefined", "temp", "clean", "ready"} /\ (pc' = "clean" => result' = FALSE)
      /\ pc' = "temp" => op' = op
    BY DEF Save, Undefined, Ends
<1>2. Operates' /\ ImportSaved'
    BY <1>1 DEF Operates, ImportSaved
<1>3. CASE ~Underway'
    BY <1>2, <1>3, SentIdle
<1>4. CASE Underway'
    <2>1. pc' = "temp" /\ Underway
        BY <1>0, <1>1, <1>4 DEF Underway
    <2>2. Brought'
        <3>1. \A t : ~KeyAhead(t) /\ \A m : ~Ahead(t, m)
            BY <1>0, Zenon DEF KeyAhead, Ahead
        <3>2. \A b, n : WasRead(b, n)
            BY <1>0, Zenon DEF WasRead
        <3> QED BY <1>0, <1>4, <2>1, <3>1, <3>2, BroughtQuiet
    <2>3. \A name : Reaches(fmt, to, rings[to], name) => name \in Names(img')
        BY <2>1, ImageFacts
    <2>4. Written'
        <3>1. (to = "pub" /\ ~torn) =>
              \A name \in Names(inp) : Reaches(fmt, "sec", rings["sec"], name) => name \in Names(file["sec"].blobs)
            BY <1>0, <2>1, Zenon DEF Written
        <3> QED BY <1>0, <2>3, <3>1 DEF Written
    <2>5. InputLeft' /\ TmpWasRead' /\ LastWasRead' /\ RingsHad'
        BY <2>1 DEF InputLeft, TmpWasRead, LastWasRead, RingsHad
    <2> QED BY <1>2, <2>2, <2>4, <2>5, Zenon DEF Sent
<1> QED BY <1>3, <1>4

\* The image is in the file now, unless its end was lost; with the public ring the
\* import is over.
LEMMA SentWrite == ASSUME IInv, Sent, pgp_mem_writefile PROVE Sent'
<1>0. /\ TypeOK /\ Control /\ Brought /\ Written /\ pc = "temp" /\ to \in Rings
      /\ UNCHANGED <<fmt, rings, inp, had, at>>
    BY DEF IInv, Sent, pgp_mem_writefile, Control
<1>1. \/ /\ (Replace(img) /\ torn' = torn) \/ torn' = TRUE
         /\ \/ to = "sec" /\ pc' = "save" /\ to' = "pub" /\ op' = op
            \/ to # "sec" /\ Ends(TRUE)
      \/ Ends(FALSE)
    BY Zenon DEF pgp_mem_writefile
<1>2. pc' \in {"save", "clean", "ready"} /\ Operates'
    BY <1>1 DEF Ends, Operates
<1>3. CASE op # "import"
    <2>1. pc' # "clean" /\ op' # "import"
        BY <1>1, <1>3 DEF Ends
    <2>2. ~Underway' /\ ImportSaved'
        BY <2>1 DEF Underway, ImportSaved
    <2> QED BY <1>2, <2>2, SentIdle
<1>4. CASE op = "import"
    <2>1. Underway
        BY <1>0, <1>4 DEF Underway
    <2>2. CASE Ends(FALSE)
        <3>1. ~Underway' /\ ImportSaved'
            BY <1>4, <2>2 DEF Underway, ImportSaved, Ends
        <3> QED BY <1>2, <3>1, SentIdle
    <2>3. CASE to = "sec" /\ pc' = "save" /\ to' = "pub" /\ op' = op
        <3>1. Underway'
            BY <2>1, <2>3 DEF Underway
        <3>2. Brought'
            <4>1. \A t : ~KeyAhead(t) /\ \A m : ~Ahead(t, m)
                BY <1>0, Zenon DEF KeyAhead, Ahead
            <4>2. \A b, n : WasRead(b, n)
                BY <1>0, Zenon DEF WasRead
            <4> QED BY <1>0, <2>1, <3>1, <4>1, <4>2, BroughtQuiet
        <3>3. ASSUME ~torn', NEW name \in Names(inp), Reaches(fmt, "sec", rings["sec"], name)
              PROVE  name \in Names(file'["sec"].blobs)
            <4>1. file'["sec"].blobs = img
                <5>1. Replace(img)
                    BY <1>1, <2>3, <3>3 DEF Ends
                <5> QED BY <1>0, <2>3, <5>1 DEF Replace, TypeOK
            <4>2. name \in Names(img)
                BY <1>0, <2>1, <2>3, <3>3, Zenon DEF Written
            <4> QED BY <4>1, <4>2
        <3>4. Written'
            BY <1>0, <2>3, <3>3 DEF Written
        <3>5. ImportSaved' /\ InputLeft' /\ TmpWasRead' /\ LastWasRead' /\ RingsHad'
            BY <2>3 DEF ImportSaved, InputLeft, TmpWasRead, LastWasRead, RingsHad
        <3> QED BY <1>2, <3>2, <3>4, <3>5, Zenon DEF Sent
    <2>4. CASE to # "sec" /\ Ends(TRUE)
        <3>1. pc' = "clean" /\ ~Underway' /\ to = "pub"
            BY <1>0, <1>4, <2>4 DEF Underway, Ends, Rings
        <3>2. ASSUME ~torn' PROVE ImportSaved'
            <4>1. Replace(img) /\ torn' = torn
                BY <1>1, <2>4, <3>2 DEF Ends
            <4>2. ~torn /\ file'["pub"].blobs = img /\ file'["sec"] = file["sec"]
                BY <1>0, <3>1, <3>2, <4>1 DEF Replace, TypeOK, Rings
            <4>3. ASSUME NEW r \in Rings, NEW name \in Names(inp), Reaches(fmt, r, rings[r], name)
                  PROVE  name \in Names(file'[r].blobs)
                <5>1. CASE r = "pub"
                    <6>1. name \in Names(img)
                        BY <1>0, <2>1, <3>1, <4>3, <5>1, Zenon DEF Written
                    <6> QED BY <4>2, <5>1, <6>1
                <5>2. CASE r = "sec"
                    <6>1. name \in Names(file["sec"].blobs)
                        BY <1>0, <2>1, <3>1, <4>2, <4>3, <5>2, Zenon DEF Written
                    <6> QED BY <4>2, <5>2, <6>1
                <5> QED BY <5>1, <5>2 DEF Rings
            <4>4. PICK s : s = file'
                OBVIOUS
            <4>5. \A r \in Rings : \A name \in Names(inp) : Reaches(fmt, r, rings[r], name) => name \in Names(s[r].blobs)
                BY <4>3, <4>4
            <4>6. ASSUME NEW b \in DOMAIN inp, NEW n \in DOMAIN inp[b], IsKey(inp[b][n])
                  PROVE  \/ inp[b][n].name \in Names(s[RingOf(inp[b][n])].blobs)
                         \/ /\ fmt = "KBX" /\ IsSub(inp[b][n].name)
                            /\ \A m \in DOMAIN inp[b] : PrimaryOf(inp[b], m, n) =>
                                  PassedOver(b, m) \/ inp[b][m].sec # inp[b][n].sec
                BY <1>0, <2>1, <4>5, <4>6, BroughtSaved
            <4>7. \A b, n : PassedOver(b, n)' <=> PassedOver(b, n)
                BY <1>0, SameInput
            <4>8. inp' = inp /\ fmt' = fmt /\ file' = s
                BY <1>0, <4>4
            <4> QED BY <4>6, <4>7, <4>8 DEF ImportSaved
        <3>3. ImportSaved'
            BY <3>2 DEF ImportSaved
        <3> QED BY <1>2, <3>1, <3>3, SentIdle
    <2> QED BY <1>1, <2>2, <2>3, <2>4
<1> QED BY <1>3, <1>4

\* The keys are generated: no import is under way.
LEMMA SentGenerate == ASSUME Sent, rnp_generate_key \/ AddGenerated PROVE Sent'
<1>1. pc' \in {"generate", "save", "undefined"} /\ op' = "generate"
    BY DEF Sent, Operates, rnp_generate_key, AddGenerated, Begins, Undefined
<1>2. ~Underway' /\ Operates' /\ ImportSaved'
    BY <1>1 DEF Underway, Operates, ImportSaved
<1> QED BY <1>2, SentIdle

\* The temporary store is emptied; the files are as they were.
LEMMA SentClean == ASSUME Sent, RemoveImported \/ rnp_key_store_free PROVE Sent'
<1>1. CASE RemoveImported
    <2>1. /\ pc = "clean" /\ pc' \in {"clean", "undefined"}
          /\ UNCHANGED <<fmt, file, inp, had, result, torn>> /\ ImportSaved
        BY <1>1 DEF RemoveImported, Undefined, still, Sent
    <2>2. ~Underway' /\ Operates'
        BY <2>1 DEF Underway, Operates
    <2>3. \A b, n : PassedOver(b, n)' <=> PassedOver(b, n)
        BY <2>1, SameInput
    <2>4. ImportSaved'
        BY <2>1, <2>3 DEF ImportSaved
    <2> QED BY <2>2, <2>4, SentIdle
<1>2. CASE rnp_key_store_free
    <2>1. pc' \in {"ready", "undefined"}
        BY <1>2 DEF rnp_key_store_free
    <2>2. ~Underway' /\ Operates' /\ ImportSaved'
        BY <2>1 DEF Underway, Operates, ImportSaved
    <2> QED BY <2>2, SentIdle
<1> QED BY <1>1, <1>2

\* A process starts, stops, or follows a stale pointer.
LEMMA SentProcess == ASSUME Start \/ Stops \/ find_suitable_subkey PROVE Sent'
<1>1. pc' \in {"off", "ready", "load", "undefined"} /\ (pc' = "load" => op' = "load")
    BY DEF Start, Stops, find_suitable_subkey, Undefined, Open
<1>2. ~Underway' /\ Operates' /\ ImportSaved'
    BY <1>1 DEF Underway, Operates, ImportSaved
<1> QED BY <1>2, SentIdle

\* Nothing happens.
LEMMA SentStutter == ASSUME Sent, UNCHANGED vars PROVE Sent'
<1>1. UNCHANGED <<fmt, file, rings, pc, op, in, to, cb, errors, at, img, result, inp, had, torn>>
    BY DEF vars
<1>2. (Underway' <=> Underway) /\ Here' = Here /\ Past' = Past /\ Tmp' = Tmp
    BY <1>1 DEF Underway, Here, Past, Tmp
<1>3. /\ \A t : (KeyAhead(t)' <=> KeyAhead(t)) /\ (FirstOf(t)' <=> FirstOf(t)) /\ \A m : Ahead(t, m)' <=> Ahead(t, m)
      /\ \A b, n : (WasRead(b, n)' <=> WasRead(b, n)) /\ (CameBefore(b, n)' <=> CameBefore(b, n))
      /\ \A r : RingNames(r)' = RingNames(r)
    BY <1>1, <1>2, SameInput DEF KeyAhead, FirstOf, Ahead, WasRead, RingNames
<1>4. \A b, n : PassedOver(b, n)' <=> PassedOver(b, n)
    BY <1>1, SameInput
<1>5. /\ \A p : KeyBrought(p)' <=> KeyBrought(p)
      /\ \A p, name : SubkeyBrought(p, name)' <=> SubkeyBrought(p, name)
    BY <1>1, <1>2, <1>3, Zenon DEF KeyBrought, SubkeyBrought
<1>6. \A b, n : PacketBrought(b, n)' <=> PacketBrought(b, n)
    BY <1>1, <1>4, <1>5, Zenon DEF PacketBrought
<1>7. Brought' /\ RingsHad' /\ TmpWasRead'
    BY <1>1, <1>2, <1>3, <1>6, Zenon DEF Sent, Brought, RingsHad, TmpWasRead
<1>8. InputLeft' /\ Written' /\ Operates' /\ ImportSaved'
    BY <1>1, <1>2, <1>4, Zenon DEF Sent, InputLeft, Written, Operates, ImportSaved
<1>9. LastWasRead'
    BY <1>1, <1>2, <1>3, Zenon DEF Sent, LastWasRead
<1> QED BY <1>7, <1>8, <1>9, Zenon DEF Sent

\* No import is under way at first.
LEMMA SentInit == Init => Sent
<1> SUFFICES ASSUME Init PROVE Sent
    OBVIOUS
<1>1. pc = "off"
    BY Zenon DEF Init
<1>2. ~Underway
    BY <1>1 DEF Underway
<1> QED BY <1>1, <1>2 DEF Sent, Operates, InputLeft, TmpWasRead, LastWasRead, Brought, RingsHad, Written, ImportSaved

\* Every step takes the keys that are imported nearer to the files.
LEMMA SentNext == IInv /\ Sent /\ [Next]_vars => Sent'
<1> SUFFICES ASSUME IInv, Sent, [Next]_vars PROVE Sent'
    OBVIOUS
<1>1. CASE cb_keyring_parse \/ OtherPacket \/ EndOfBlob
    BY <1>1, SentKey, SentOther, SentEndOfBlob
<1>2. CASE rnp_import_key \/ ImportKey \/ ImportSubkey \/ SubkeysDone \/ ImportDone
    BY <1>2, SentImport, SentImportKey, SentImportSubkey, SentSubkeysDone, SentImportDone
<1>3. CASE RemoveImported \/ rnp_key_store_free \/ rnp_generate_key \/ AddGenerated
    BY <1>3, SentClean, SentGenerate
<1>4. CASE Save \/ pgp_mem_writefile
    BY <1>4, SentSave, SentWrite
<1>5. CASE Start \/ find_suitable_subkey \/ Exit \/ Crash
    BY <1>5, SentProcess DEF Exit, Crash
<1>6. CASE UNCHANGED vars
    BY <1>6, SentStutter
<1> QED BY <1>1, <1>2, <1>3, <1>4, <1>5, <1>6, Zenon DEF Next, Over

\* ImportSaved: when rnp_import_key returns success, every key of the imported file is
\* in a ring file, for every content of the imported file and of the rings, in both
\* formats, unless a file lost its end; in a KBX file the subkeys are missing that
\* came with a primary key the ring had, with one that came before in the file, or
\* with one of the other kind, since the writer follows the pointers of primary keys.
THEOREM ImportIsSaved == Spec => []ImportSaved
<1>1. Init => IInv /\ Sent
    BY InitStep, SentInit
<1>2. IInv /\ Sent /\ [Next]_vars => (IInv /\ Sent)'
    BY NextStep, SentNext
<1>3. IInv /\ Sent => ImportSaved
    BY DEF Sent
<1> QED BY <1>1, <1>2, <1>3, PTL DEF Spec

-----------------------------------------------------------------------------
(***************************************************************************)
(* One secret key: the properties of KeyProtection, for every set of       *)
(* passwords.                                                              *)
(*                                                                         *)
(* The five invariants are inductive only together: writing the packet     *)
(* keeps the secret because MayProtect keeps locked keys out, decrypting   *)
(* one into a copy gives the secret because the packet holds it, and a     *)
(* packet is decrypted at all because its serialisation is the one that    *)
(* key->format names.                                                      *)
(***************************************************************************)

\* The conjunction that is inductive.
KeyIInv == KeyTypeOK /\ SecretKept /\ LockedForgets /\ FlagsMatchPacket /\ OpensAsTold

\* A key that was just generated and saved satisfies all of it.
LEMMA InitKeyIInv == KeyInit => KeyIInv
<1> SUFFICES ASSUME KeyInit PROVE KeyIInv
    OBVIOUS
<1> USE DEF KeyInit
<1>1. packet \in KeyPackets /\ packet.mat = "secret" /\ packet.enc = Clear
      /\ packet.fam = Family(store)
    BY DEF KeyPackets, Family
<1>2. KeyTypeOK
    BY <1>1 DEF KeyTypeOK, Usages, KeyFormats
<1>3. SecretKept /\ LockedForgets /\ OpensAsTold
    BY <1>1 DEF SecretKept, LockedForgets, OpensAsTold
<1>4. FlagsMatchPacket
    BY <1>1 DEF FlagsMatchPacket, Family
<1> QED BY <1>2, <1>3, <1>4 DEF KeyIInv

\* What is written is a packet, encrypted with the given password unless the
\* usage says otherwise.
LEMMA PacketOfFacts ==
    ASSUME NEW m \in {"secret", "freed"}, NEW u \in Usages, NEW f \in KeyFormats,
           NEW pw \in Passwords \cup {Clear}
    PROVE  /\ PacketOf(m, u, f, pw) \in KeyPackets
           /\ PacketOf(m, u, f, pw).mat = m
           /\ PacketOf(m, u, f, pw).fam = Family(f)
           /\ PacketOf(m, u, f, pw).enc = IF u = "none" THEN Clear ELSE pw
    BY DEF PacketOf, KeyPackets, Family

\* pgp_key_unlock gives back the numbers of the packet.
LEMMA KeyUnlockStep ==
    ASSUME KeyIInv, NEW pw \in Passwords, pgp_key_unlock(pw) PROVE KeyIInv'
<1> USE DEF pgp_key_unlock, diskVars, KeyIInv
<1>1. KeyTypeOK'
    BY ZenonT(60) DEF KeyTypeOK, KeyPackets
<1>2. (SecretKept /\ LockedForgets)'
    BY DEF SecretKept, LockedForgets, KeyTypeOK
<1>3. (FlagsMatchPacket /\ OpensAsTold)'
    BY DEF FlagsMatchPacket, OpensAsTold
<1> QED BY <1>1, <1>2, <1>3

\* pgp_key_lock: the packet still has the numbers that are freed.
LEMMA KeyLockStep == KeyIInv /\ pgp_key_lock => KeyIInv'
<1> SUFFICES ASSUME KeyIInv, pgp_key_lock PROVE KeyIInv'
    OBVIOUS
<1> USE DEF pgp_key_lock, FreeSecret, diskVars, KeyIInv
<1>1. KeyTypeOK'
    BY DEF KeyTypeOK
<1>2. (SecretKept /\ LockedForgets)'
    BY DEF SecretKept, LockedForgets, KeyTypeOK
<1>3. (FlagsMatchPacket /\ OpensAsTold)'
    BY DEF FlagsMatchPacket, OpensAsTold
<1> QED BY <1>1, <1>2, <1>3

\* pgp_key_protect_password: a key that may be protected is unlocked and has its
\* numbers.
LEMMA KeyProtectStep ==
    ASSUME KeyIInv, NEW f \in KeyFormats, NEW pw \in Passwords, NEW ok \in BOOLEAN,
           pgp_key_protect_password(f, pw, ok)
    PROVE  KeyIInv'
<1> USE DEF KeyIInv
<1>1. CASE ~MayProtect
    BY <1>1 DEF pgp_key_protect_password, MayProtect, memVars, diskVars, KeyTypeOK, SecretKept,
                LockedForgets, FlagsMatchPacket, OpensAsTold
<1>2. CASE MayProtect /\ ~ok
    BY <1>2 DEF pgp_key_protect_password, write_key_to_rawpacket, MayProtect, diskVars, KeyTypeOK,
                Usages, SecretKept, LockedForgets, FlagsMatchPacket, OpensAsTold
<1>3. CASE MayProtect /\ ok
  <2>1. /\ UNCHANGED <<locked, mpis, diskVars>> /\ ~locked /\ usage' = "hash"
        /\ packet' = PacketOf(mpis, "hash", f, pw) /\ format' = f /\ is_protected' = TRUE
        /\ owner' = pw /\ given' = pw
    BY <1>3 DEF pgp_key_protect_password, write_key_to_rawpacket, MayProtect, FormatAfterProtect
  <2>2. /\ packet' \in KeyPackets /\ packet'.mat = mpis
        /\ packet'.fam = Family(f) /\ packet'.enc = pw
    BY <2>1, PacketOfFacts DEF KeyTypeOK, Usages
  <2>3. KeyTypeOK'
    BY <2>1, <2>2 DEF KeyTypeOK, diskVars, Usages
  <2>4. (SecretKept /\ LockedForgets /\ OpensAsTold)'
    BY <2>1, <2>2 DEF SecretKept, LockedForgets, OpensAsTold, diskVars
  <2>5. FlagsMatchPacket'
    BY <2>1, <2>2, ProtectionAssumption DEF FlagsMatchPacket
  <2> QED BY <2>3, <2>4, <2>5
<1> QED BY <1>1, <1>2, <1>3

\* pgp_key_unprotect: the numbers come from memory, or from the packet when the
\* key is locked.
LEMMA KeyUnprotectStep ==
    ASSUME KeyIInv, NEW pw \in Passwords, NEW ok \in BOOLEAN, pgp_key_unprotect(pw, ok)
    PROVE  KeyIInv'
<1> USE DEF KeyIInv
<1>0. given' = pw /\ UNCHANGED <<locked, mpis, format, diskVars>>
    BY DEF pgp_key_unprotect
<1>1. CASE UNCHANGED <<usage, packet, is_protected, owner>>
    BY <1>0, <1>1 DEF diskVars, KeyTypeOK, SecretKept, LockedForgets, FlagsMatchPacket, OpensAsTold
<1>2. CASE ~UNCHANGED <<usage, packet, is_protected, owner>>
  <2>1. PICK m \in {"secret"} :
            /\ write_key_to_rawpacket(m, "none", format, Clear, ok)
            /\ is_protected /\ is_protected' = ~ok
            /\ owner' = IF ok THEN Clear ELSE owner
            /\ usage' \in {usage, "none"}
    BY <1>2 DEF pgp_key_unprotect, ProtectedAfterUnprotect, SecretKept
  <2>2. CASE ok
    <3>1. /\ packet' \in KeyPackets /\ packet'.mat = "secret"
          /\ packet'.fam = Family(format) /\ packet'.enc = Clear
      BY <2>1, <2>2, PacketOfFacts DEF write_key_to_rawpacket, KeyTypeOK, Usages
    <3>2. KeyTypeOK'
      BY <1>0, <2>1, <2>2, <3>1 DEF KeyTypeOK, diskVars, Usages
    <3>3. (SecretKept /\ LockedForgets /\ OpensAsTold)'
      BY <1>0, <2>1, <2>2, <3>1 DEF SecretKept, LockedForgets, OpensAsTold, diskVars
    <3>4. FlagsMatchPacket'
      BY <1>0, <2>1, <2>2, <3>1 DEF FlagsMatchPacket
    <3> QED BY <3>2, <3>3, <3>4
  <2>3. CASE ~ok
    BY <1>0, <2>1, <2>3 DEF write_key_to_rawpacket, diskVars, KeyTypeOK, Usages, SecretKept,
                            LockedForgets, FlagsMatchPacket, OpensAsTold
  <2> QED BY <2>2, <2>3
<1> QED BY <1>1, <1>2

\* Saving copies the packet.
LEMMA KeySaveStep == KeyIInv /\ rnp_key_store_write_to_file => KeyIInv'
    BY DEF KeyIInv, rnp_key_store_write_to_file, memVars, KeyTypeOK, SecretKept, LockedForgets,
           FlagsMatchPacket, OpensAsTold

\* Loading sets the flags from the packet.
LEMMA KeyLoadStep == KeyIInv /\ rnp_key_store_load_from_file => KeyIInv'
<1> SUFFICES ASSUME KeyIInv, rnp_key_store_load_from_file PROVE KeyIInv'
    OBVIOUS
<1> USE DEF KeyIInv
<1>0. /\ LoadedFrom(disk) /\ owner' = diskOwner /\ given' = Clear /\ UNCHANGED diskVars
      /\ disk \in KeyPackets /\ disk.mat = "secret" /\ disk.enc = diskOwner
    BY DEF rnp_key_store_load_from_file, KeyTypeOK, SecretKept, OpensAsTold
<1>1. KeyTypeOK'
    BY <1>0 DEF LoadedFrom, KeyTypeOK, KeyFormats, Usages, diskVars
<1>2. (SecretKept /\ LockedForgets /\ OpensAsTold)'
    BY <1>0 DEF LoadedFrom, SecretKept, LockedForgets, OpensAsTold, diskVars
<1>3. FlagsMatchPacket'
    BY <1>0 DEF LoadedFrom, FlagsMatchPacket, Family, KeyPackets
<1> QED BY <1>1, <1>2, <1>3

\* Every step keeps the invariant.
LEMMA NextKeyIInv == KeyIInv /\ [KeyNext]_keyVars => KeyIInv'
<1> SUFFICES ASSUME KeyIInv, [KeyNext]_keyVars PROVE KeyIInv'
    OBVIOUS
<1>1. ASSUME NEW pw \in Passwords, pgp_key_unlock(pw) PROVE KeyIInv'
    BY <1>1, KeyUnlockStep
<1>2. CASE pgp_key_lock
    BY <1>2, KeyLockStep
<1>3. ASSUME NEW f \in {format, store}, NEW pw \in Passwords, NEW ok \in BOOLEAN,
             pgp_key_protect_password(f, pw, ok) \/ pgp_key_protect(f, pw, ok)
      PROVE  KeyIInv'
  <2>1. f \in KeyFormats /\ pgp_key_protect_password(f, pw, ok)
    BY <1>3 DEF KeyIInv, KeyTypeOK, pgp_key_protect
  <2> QED BY <2>1, KeyProtectStep
<1>4. ASSUME NEW pw \in Passwords, NEW ok \in BOOLEAN, pgp_key_unprotect(pw, ok) PROVE KeyIInv'
    BY <1>4, KeyUnprotectStep
<1>5. CASE rnp_key_store_write_to_file
    BY <1>5, KeySaveStep
<1>6. CASE rnp_key_store_load_from_file
    BY <1>6, KeyLoadStep
<1>7. CASE UNCHANGED keyVars
    BY <1>7 DEF keyVars, memVars, diskVars, KeyIInv, KeyTypeOK, SecretKept, LockedForgets,
                FlagsMatchPacket, OpensAsTold
<1> QED BY <1>1, <1>2, <1>3, <1>4, <1>5, <1>6, <1>7 DEF KeyNext

\* The inductive invariant holds in every reachable state.
THEOREM KeyInvariance == KeySpec => []KeyIInv
    BY InitKeyIInv, NextKeyIInv, PTL DEF KeySpec

\* Every variable keeps its type, whatever operations fail or are refused.
THEOREM KeyTypeCorrect == KeySpec => []KeyTypeOK
<1>1. KeyIInv => KeyTypeOK
    BY DEF KeyIInv
<1> QED BY <1>1, KeyInvariance, PTL

\* No sequence of lock, unlock, protect, unprotect, save and load, with any of
\* them failing, loses the secret numbers.
THEOREM SecretIsKept == KeySpec => []SecretKept
<1>1. KeyIInv => SecretKept
    BY DEF KeyIInv
<1> QED BY <1>1, KeyInvariance, PTL

\* A locked key has no secret number in memory.
THEOREM LockedHasForgotten == KeySpec => []LockedForgets
<1>1. KeyIInv => LockedForgets
    BY DEF KeyIInv
<1> QED BY <1>1, KeyInvariance, PTL

\* is_protected and format always describe the packet.
THEOREM FlagsMatch == KeySpec => []FlagsMatchPacket
<1>1. KeyIInv => FlagsMatchPacket
    BY DEF KeyIInv
<1> QED BY <1>1, KeyInvariance, PTL

\* The packet in memory and the one in the file open with the password that
\* the owner was told of.
THEOREM PacketOpensAsTold == KeySpec => []OpensAsTold
<1>1. KeyIInv => OpensAsTold
    BY DEF KeyIInv
<1> QED BY <1>1, KeyInvariance, PTL

\* The flags of a key, its numbers in memory and its packets agree.
THEOREM KeyIsAsTold == KeySpec => []KeyAsTold
<1>1. LockedForgets /\ FlagsMatchPacket /\ OpensAsTold => KeyAsTold
    BY DEF KeyAsTold
<1> QED BY <1>1, LockedHasForgotten, FlagsMatch, PacketOpensAsTold, PTL

\* pgp_key_unlock and pgp_key_unprotect give up the secret of a locked key, or
\* its protection, only for the password of its packet.
THEOREM PasswordIsNeeded == KeySpec => NeedsPassword
<1> DEFINE Guarded == (given' # Clear /\ locked /\ packet.enc # Clear
                         /\ (~locked' \/ packet'.enc = Clear)) => given' = packet.enc
<1>1. KeyIInv /\ [KeyNext]_keyVars => [Guarded]_keyVars
  <2> SUFFICES ASSUME KeyIInv, KeyNext, given' # Clear, locked, packet.enc # Clear,
                      ~locked' \/ packet'.enc = Clear
               PROVE  given' = packet.enc
      OBVIOUS
  <2>1. ASSUME NEW pw \in Passwords, pgp_key_unlock(pw) PROVE given' = packet.enc
      BY <2>1 DEF pgp_key_unlock, pgp_decrypt_seckey
  <2>2. ASSUME NEW pw \in Passwords, NEW ok \in BOOLEAN, pgp_key_unprotect(pw, ok)
        PROVE  given' = packet.enc
      BY <2>2 DEF pgp_key_unprotect, pgp_decrypt_seckey
  <2>3. ASSUME NEW f \in {format, store}, NEW pw \in Passwords, NEW ok \in BOOLEAN,
               pgp_key_protect_password(f, pw, ok) \/ pgp_key_protect(f, pw, ok)
        PROVE  FALSE
      BY <2>3 DEF pgp_key_protect, pgp_key_protect_password, MayProtect, memVars
  <2> QED BY <2>1, <2>2, <2>3 DEF KeyNext, pgp_key_lock, rnp_key_store_write_to_file,
                                  rnp_key_store_load_from_file
<1>2. KeySpec => [][Guarded]_keyVars
    BY <1>1, KeyInvariance, PTL DEF KeySpec
<1> QED BY <1>2 DEF NeedsPassword
=============================================================================
