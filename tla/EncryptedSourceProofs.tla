------------------------ MODULE EncryptedSourceProofs ------------------------
(***************************************************************************)
(* Proofs about the decrypting source of EncryptedSource, for messages and *)
(* caches of every size.                                                   *)
(*                                                                         *)
(* ReleaseIsSound is not inductive.  IInv adds where the bytes of a call   *)
(* that runs are (Calls), that only a signed source goes on after an error *)
(* (Phases), that the cipher and the hash are never ahead of the body and  *)
(* that the code passed only for an unaltered message (Decoder), and that  *)
(* up to an error the bytes handed out, in the caller's buffer and in the  *)
(* cache are, in this order, the bytes that left the cipher (InPlace).     *)
(*                                                                         *)
(* The argument: everything a call of encrypted_src_read can come back     *)
(* with satisfies Outcome (ReadOutcome); CodeSound is the heart of it, a   *)
(* code that matches behind undamaged bytes means that the message is      *)
(* whole and nothing was appended.  A step of src_read or src_peek then    *)
(* moves bytes without changing their order (StreamGrows, SplitFacts).     *)
(***************************************************************************)
EXTENDS EncryptedSource, SequenceTheorems, TLAPS

\* The bytes from offset a to offset b are b - a, in their order.
LEMMA BytesFacts ==
    ASSUME NEW a \in Int, NEW b \in Int, a <= b
    PROVE  /\ Bytes(a, b) \in Seq(Int) /\ Len(Bytes(a, b)) = b - a
           /\ DOMAIN Bytes(a, b) = 1 .. b - a
           /\ \A i \in 1 .. b - a : Bytes(a, b)[i] = a + i - 1
    BY DEF Bytes

\* What the cipher makes of the bytes from offset a to offset b at position p:
\* each is the byte at the position of the cipher or garbage, and none is an
\* altered one; if one is itself, the cipher is at the right place.
LEMMA DecryptFacts ==
    ASSUME NEW a \in Int, NEW b \in Int, a <= b, NEW p \in Int, damaged \in Int, damaged >= -1
    PROVE  /\ Decrypt(Bytes(a, b), p) \in Seq(Int) /\ Len(Decrypt(Bytes(a, b), p)) = b - a
           /\ \A i \in 1 .. b - a : /\ Decrypt(Bytes(a, b), p)[i] \in {p + i - 1, Garbage}
                                    /\ Decrypt(Bytes(a, b), p)[i] # damaged
                                    /\ Decrypt(Bytes(a, b), p)[i] # Garbage
                                          => Decrypt(Bytes(a, b), p)[i] = a + i - 1
<1> DEFINE s == Bytes(a, b)
<1> DEFINE t == Decrypt(s, p)
<1>1. s \in Seq(Int) /\ Len(s) = b - a /\ DOMAIN s = 1 .. b - a /\ \A i \in 1 .. b - a : s[i] = a + i - 1
    BY BytesFacts
<1> HIDE DEF s
<1>2. t = [i \in 1 .. b - a |-> IF s[i] = p + i - 1 /\ s[i] # damaged THEN s[i] ELSE Garbage]
    BY <1>1 DEF Decrypt
<1> HIDE DEF t
<1>3. \A i \in 1 .. b - a : t[i] = IF s[i] = p + i - 1 /\ s[i] # damaged THEN s[i] ELSE Garbage
    BY <1>2
<1>4. t \in Seq(Int) /\ Len(t) = b - a
    BY <1>1, <1>2, <1>3 DEF Garbage
<1>5. \A i \in 1 .. b - a : /\ t[i] \in {p + i - 1, Garbage} /\ t[i] # damaged
                            /\ t[i] # Garbage => t[i] = a + i - 1
    BY <1>1, <1>3 DEF Garbage
<1> QED BY <1>4, <1>5 DEF t, s

\* A call of encrypted_src_read for len bytes came back with x.
Outcome(x, len) ==
    /\ x.ret \in -1 .. len /\ x.data \in Seq(Int)
    /\ Len(x.data) = IF x.ret < 0 THEN 0 ELSE x.ret
    /\ x.upos \in upos .. total /\ x.dpos \in 0 .. total + MdcSize /\ x.hashed \in Seq(Int)
    /\ x.ret > 0 => ~ended
    /\ \A i \in 1 .. Len(x.data) : x.data[i] \in {dpos + i - 1, Garbage}
    /\ (x.ret >= 0 /\ has_mdc) => x.hashed = hashed \o x.data
    /\ (x.ret >= 0 /\ ~x.ended) => x.upos = upos + x.ret /\ x.dpos = dpos + x.ret
    /\ \A i \in DOMAIN x.hashed : x.hashed[i] # damaged
    /\ x.ended => has_mdc /\ total - x.upos < MdcSize
    /\ ~x.ended => ~ended /\ x.dpos <= x.upos /\ Len(x.hashed) <= x.upos
    /\ (total <= n + MdcSize /\ has_mdc) => Len(x.hashed) <= n
    /\ x.valid => x.ended /\ Intact /\ x.hashed = Bytes(0, n)

\* Its results that are flags; an error of the body's source is not forgotten.
Flags(x) ==
    /\ x.ended \in BOOLEAN /\ x.valid \in BOOLEAN /\ x.iofail \in BOOLEAN
    /\ iofail => x.iofail

\* What the invariant says of the decoder before a call.
Before ==
    /\ n \in Nat /\ total \in Nat /\ upos \in 0 .. total /\ dpos \in 0 .. total + MdcSize
    /\ MdcSize \in Nat /\ MdcSize > 0 /\ hashed \in Seq(Int)
    /\ damaged \in Int /\ (damaged = NoByte \/ damaged \in 0 .. total - 1)
    /\ Decoder
    /\ (total <= n + MdcSize /\ has_mdc) => Len(hashed) <= n

LEMMA BeforeFacts == IInv => Before
<1> SUFFICES ASSUME IInv PROVE Before
    OBVIOUS
<1>1. /\ {CacheSize, MdcSize, Header} \subseteq Nat \ {0} /\ {MaxPlain, MaxExtra, MaxRetry} \subseteq Nat
    BY EncryptedAssumption
<1>2. n \in Nat /\ total \in Nat /\ upos \in 0 .. total /\ dpos \in 0 .. total + MdcSize
    BY <1>1 DEF IInv, TypeOK
<1>3. hashed \in Seq(Int) /\ damaged \in Int /\ (damaged = NoByte \/ damaged \in 0 .. total - 1)
    BY <1>2 DEF IInv, BytesOK, NoByte
<1> QED BY <1>1, <1>2, <1>3 DEF Before, IInv

\* The detection code passes only if the message is unaltered.
LEMMA CodeSound ==
    ASSUME Before, has_mdc, NEW a \in Int, NEW p \in Int, a <= total,
           NEW h \in Seq(Int), \A i \in DOMAIN h : h[i] # damaged,
           MdcMatches(Decrypt(Bytes(a, total), p), h)
    PROVE  Intact /\ h = Bytes(0, n)
<1>0. PICK code : code = Decrypt(Bytes(a, total), p)
    OBVIOUS
<1>1. /\ n \in Nat /\ total \in Nat /\ MdcSize \in Nat /\ MdcSize > 0
      /\ damaged \in Int /\ damaged >= -1 /\ (damaged = -1 \/ damaged \in 0 .. total - 1)
    BY DEF Before, NoByte
<1>2. /\ code \in Seq(Int) /\ Len(code) = total - a
      /\ \A i \in 1 .. total - a : code[i] # damaged
      /\ \A i \in 1 .. total - a : code[i] # Garbage => code[i] = a + i - 1
    <2>1. total \in Int
        BY <1>1
    <2>2. /\ code \in Seq(Int) /\ Len(code) = total - a
          /\ \A i \in 1 .. total - a : code[i] \in {p + i - 1, Garbage} /\ code[i] # damaged
          /\ \A i \in 1 .. total - a : code[i] # Garbage => code[i] = a + i - 1
        <3>1. PICK b \in Int : b = total
            BY <2>1
        <3>2. a <= b /\ damaged \in Int /\ damaged >= -1
            BY <1>1, <3>1
        <3>3. /\ Decrypt(Bytes(a, b), p) \in Seq(Int) /\ Len(Decrypt(Bytes(a, b), p)) = b - a
              /\ \A i \in 1 .. b - a : /\ Decrypt(Bytes(a, b), p)[i] \in {p + i - 1, Garbage}
                                       /\ Decrypt(Bytes(a, b), p)[i] # damaged
                                       /\ Decrypt(Bytes(a, b), p)[i] # Garbage
                                             => Decrypt(Bytes(a, b), p)[i] = a + i - 1
            BY <3>2, DecryptFacts, ZenonT(60)
        <3> QED BY <1>0, <3>1, <3>3, Zenon
    <2> QED BY <2>2, Zenon
<1>3. code = Bytes(n, n + MdcSize) /\ h = Bytes(0, n)
    BY <1>0 DEF MdcMatches
<1>4. PICK b \in Int : b = n + MdcSize
    BY <1>1
<1>5. Len(Bytes(n, b)) = b - n /\ \A i \in 1 .. b - n : Bytes(n, b)[i] = n + i - 1
    <2>1. n \in Int /\ n <= b
        BY <1>1, <1>4
    <2> QED BY <2>1, BytesFacts, Zenon
<1>6. DOMAIN Bytes(0, n) = 1 .. n /\ \A i \in 1 .. n : Bytes(0, n)[i] = i - 1
    <2>1. 0 \in Int /\ n \in Int /\ 0 <= n /\ n - 0 = n
        BY <1>1
    <2>2. DOMAIN Bytes(0, n) = 1 .. n - 0 /\ \A i \in 1 .. n - 0 : Bytes(0, n)[i] = 0 + i - 1
        BY <2>1, BytesFacts, Zenon
    <2> QED BY <2>1, <2>2
<1>7. total - a = MdcSize /\ \A i \in 1 .. MdcSize : code[i] = n + i - 1
    <2>1. code = Bytes(n, b) /\ b - n = MdcSize
        BY <1>1, <1>3, <1>4
    <2> QED BY <1>2, <1>5, <2>1
<1>8. a = n
    <2>1. code[1] = n /\ 1 \in 1 .. total - a
        BY <1>1, <1>7
    <2>2. n # Garbage
        BY <1>1 DEF Garbage
    <2> QED BY <1>1, <1>2, <2>1, <2>2
<1>9. total = n + MdcSize
    BY <1>1, <1>7, <1>8
<1>10. \A i \in 1 .. MdcSize : damaged # n + i - 1
    BY <1>2, <1>7
<1>11. \A i \in 1 .. n : damaged # i - 1
    BY <1>3, <1>6
<1>12. damaged = -1
    <2>1. ASSUME damaged \in 0 .. n - 1 PROVE FALSE
        <3>1. damaged + 1 \in 1 .. n
            BY <1>1, <2>1
        <3> QED BY <1>1, <1>11, <3>1
    <2>2. ASSUME damaged \in n .. n + MdcSize - 1 PROVE FALSE
        <3>1. damaged - n + 1 \in 1 .. MdcSize /\ damaged = n + (damaged - n + 1) - 1
            BY <1>1, <2>2
        <3> QED BY <1>1, <1>10, <3>1
    <2> QED BY <1>1, <1>9, <2>1, <2>2
<1> QED BY <1>3, <1>9, <1>12 DEF Intact, NoByte, size

\* How much is read and peeked at, and where the code begins.
LEMMA Positions ==
    ASSUME Before, NEW len \in Nat, NEW read, read = Least(len, total - upos),
           NEW after, after = upos + read, NEW peeked, peeked = Least(MdcSize, total - after)
    PROVE  /\ read \in 0 .. len /\ after \in upos .. total /\ after - upos = read
           /\ peeked \in 0 .. MdcSize /\ after + peeked <= total
           /\ peeked < MdcSize => after + peeked = total
           /\ read + peeked <= total - upos
    BY DEF Before, Least

\* encrypted_src_read fails before it decrypts anything, or is at the end.
LEMMA NothingRead ==
    ASSUME Before, NEW len \in Nat, NEW x, NEW u \in upos .. total,
           x.ret \in {-1, 0}, x.data = <<>>, x.upos = u, x.dpos = dpos, x.ended = ended,
           x.hashed = hashed, x.valid = mdc_validated, x.ret = 0 => u = upos
    PROVE  Outcome(x, len)
<1>1. /\ upos \in Nat /\ total \in Nat /\ dpos \in Nat /\ MdcSize \in Nat /\ hashed \in Seq(Int)
      /\ upos <= u /\ u <= total /\ dpos <= total + MdcSize /\ u \in Nat
    BY DEF Before
<1>2. /\ ended => has_mdc /\ total - upos < MdcSize
      /\ ~ended => dpos <= upos /\ Len(hashed) <= upos
      /\ \A i \in DOMAIN hashed : hashed[i] # damaged
      /\ mdc_validated => ended /\ Intact /\ hashed = Bytes(0, n)
    BY DEF Before, Decoder
<1>3. /\ x.ret \in -1 .. len /\ x.data \in Seq(Int) /\ Len(x.data) = IF x.ret < 0 THEN 0 ELSE x.ret
      /\ x.upos \in upos .. total /\ x.dpos \in 0 .. total + MdcSize /\ x.hashed \in Seq(Int)
      /\ ~(x.ret > 0) /\ Len(x.data) = 0
    BY <1>1
<1>4. x.hashed = hashed \o x.data
    BY <1>1
<1>5. ended => total - u < MdcSize
    BY <1>1, <1>2
<1>6. ~ended => dpos <= u /\ Len(hashed) <= u
    BY <1>1, <1>2
<1>7. x.ret >= 0 => x.upos = upos + x.ret /\ x.dpos = dpos + x.ret
    BY <1>1
<1>8. \A i \in 1 .. Len(x.data) : x.data[i] \in {dpos + i - 1, Garbage}
    BY <1>3
<1>9. total <= n + MdcSize /\ has_mdc => Len(hashed) <= n
    BY DEF Before
<1>10. /\ x.ended => has_mdc /\ total - x.upos < MdcSize
       /\ ~x.ended => ~ended /\ x.dpos <= x.upos /\ Len(x.hashed) <= x.upos
       /\ x.valid => x.ended /\ Intact /\ x.hashed = Bytes(0, n)
    BY <1>2, <1>5, <1>6, Zenon
<1> QED BY <1>2, <1>3, <1>4, <1>7, <1>8, <1>9, <1>10, Zenon DEF Outcome

\* Two sequences of bytes one after the other.
LEMMA ConcatFacts ==
    ASSUME NEW s \in Seq(Int), NEW t \in Seq(Int)
    PROVE  /\ s \o t \in Seq(Int) /\ Len(s \o t) = Len(s) + Len(t)
           /\ \A i \in 1 .. Len(s) + Len(t) : (s \o t)[i] = IF i <= Len(s) THEN s[i] ELSE t[i - Len(s)]
    OBVIOUS

\* What is decrypted up to offset e, and the hash over it.
LEMMA PlainFacts ==
    ASSUME Before, NEW e \in Int, upos <= e
    PROVE  \E plain \in Seq(Int) :
             /\ plain = Decrypt(Bytes(upos, e), dpos) /\ Len(plain) = e - upos
             /\ \A i \in 1 .. Len(plain) : plain[i] \in {dpos + i - 1, Garbage}
             /\ hashed \o plain \in Seq(Int) /\ Len(hashed \o plain) = Len(hashed) + (e - upos)
             /\ \A i \in DOMAIN (hashed \o plain) : (hashed \o plain)[i] # damaged
<1>1. /\ upos \in Int /\ dpos \in Int /\ hashed \in Seq(Int) /\ damaged \in Int /\ damaged >= -1
      /\ \A i \in DOMAIN hashed : hashed[i] # damaged
    BY DEF Before, Decoder, NoByte
<1>2. PICK plain : plain = Decrypt(Bytes(upos, e), dpos)
    OBVIOUS
<1>3. /\ plain \in Seq(Int) /\ Len(plain) = e - upos
      /\ \A i \in 1 .. e - upos : plain[i] \in {dpos + i - 1, Garbage} /\ plain[i] # damaged
    <2>1. /\ Decrypt(Bytes(upos, e), dpos) \in Seq(Int) /\ Len(Decrypt(Bytes(upos, e), dpos)) = e - upos
          /\ \A i \in 1 .. e - upos : /\ Decrypt(Bytes(upos, e), dpos)[i] \in {dpos + i - 1, Garbage}
                                      /\ Decrypt(Bytes(upos, e), dpos)[i] # damaged
        <3>1. PICK a \in Int : a = upos
            BY <1>1
        <3>2. PICK p \in Int : p = dpos
            BY <1>1
        <3>3. a <= e /\ damaged \in Int /\ damaged >= -1
            BY <1>1, <3>1
        <3>4. /\ Decrypt(Bytes(a, e), p) \in Seq(Int) /\ Len(Decrypt(Bytes(a, e), p)) = e - a
              /\ \A i \in 1 .. e - a : /\ Decrypt(Bytes(a, e), p)[i] \in {p + i - 1, Garbage}
                                       /\ Decrypt(Bytes(a, e), p)[i] # damaged
            BY <3>3, DecryptFacts, ZenonT(60)
        <3> QED BY <3>1, <3>2, <3>4, Zenon
    <2> QED BY <1>2, <2>1, Zenon
<1>4. PICK h : h = hashed \o plain
    OBVIOUS
<1>5. /\ h \in Seq(Int) /\ Len(h) = Len(hashed) + (e - upos) /\ DOMAIN h = 1 .. Len(hashed) + (e - upos)
      /\ \A i \in 1 .. Len(hashed) + (e - upos) :
            h[i] = IF i <= Len(hashed) THEN hashed[i] ELSE plain[i - Len(hashed)]
    <2>1. /\ h \in Seq(Int) /\ Len(h) = Len(hashed) + Len(plain)
          /\ \A i \in 1 .. Len(hashed) + Len(plain) :
                h[i] = IF i <= Len(hashed) THEN hashed[i] ELSE plain[i - Len(hashed)]
        BY <1>1, <1>3, <1>4, ConcatFacts, Zenon
    <2> QED BY <1>3, <2>1
<1>6. \A i \in DOMAIN h : h[i] # damaged
    <2> SUFFICES ASSUME NEW i \in 1 .. Len(hashed) + (e - upos) PROVE h[i] # damaged
        BY <1>5
    <2>1. Len(hashed) \in Nat /\ DOMAIN hashed = 1 .. Len(hashed)
        BY <1>1
    <2>2. CASE i <= Len(hashed)
        <3>1. i \in DOMAIN hashed
            BY <1>1, <2>1, <2>2
        <3> QED BY <1>1, <1>5, <2>2, <3>1, Zenon
    <2>3. CASE ~(i <= Len(hashed))
        <3>1. i - Len(hashed) \in 1 .. e - upos
            BY <1>1, <2>1, <2>3
        <3> QED BY <1>3, <1>5, <2>3, <3>1, Zenon
    <2> QED BY <2>2, <2>3
<1> QED BY <1>2, <1>3, <1>4, <1>5, <1>6, Zenon

\* Bytes go through the cipher, and through the hash if there is one.
LEMMA PlainRead ==
    ASSUME Before, ~ended, NEW len \in Nat, NEW read \in 1 .. len, upos + read <= total,
           has_mdc => upos + read + MdcSize <= total, NEW x,
           x.ret = read, x.data = Decrypt(Bytes(upos, upos + read), dpos), x.upos = upos + read,
           x.dpos = dpos + read, x.ended = ended,
           x.hashed = (IF has_mdc THEN hashed \o x.data ELSE hashed), x.valid = mdc_validated
    PROVE  Outcome(x, len)
<1>1. /\ upos \in Nat /\ total \in Nat /\ dpos \in Nat /\ MdcSize \in Nat /\ hashed \in Seq(Int) /\ n \in Nat
      /\ dpos <= upos /\ Len(hashed) <= upos /\ Len(hashed) \in Nat /\ read \in Nat
      /\ \A i \in DOMAIN hashed : hashed[i] # damaged
      /\ ~mdc_validated
    BY DEF Before, Decoder
<1>2. PICK e \in Int : e = upos + read
    BY <1>1
<1>3. PICK plain \in Seq(Int) :
         /\ plain = Decrypt(Bytes(upos, e), dpos) /\ Len(plain) = e - upos
         /\ \A i \in 1 .. Len(plain) : plain[i] \in {dpos + i - 1, Garbage}
         /\ hashed \o plain \in Seq(Int) /\ Len(hashed \o plain) = Len(hashed) + (e - upos)
         /\ \A i \in DOMAIN (hashed \o plain) : (hashed \o plain)[i] # damaged
    <2>1. upos <= e
        BY <1>1, <1>2
    <2> QED BY <2>1, PlainFacts, Zenon
<1>4. x.data = plain /\ Len(plain) = read
    BY <1>1, <1>2, <1>3
<1>5. /\ x.hashed \in Seq(Int)
      /\ \A i \in DOMAIN x.hashed : x.hashed[i] # damaged
      /\ has_mdc => x.hashed = hashed \o x.data
    BY <1>1, <1>3, <1>4, Zenon
<1>6. Len(x.hashed) = (IF has_mdc THEN Len(hashed) + (e - upos) ELSE Len(hashed))
    BY <1>3, <1>4, Zenon
<1>7. /\ Len(x.hashed) <= upos + read
      /\ total <= n + MdcSize /\ has_mdc => Len(x.hashed) <= n
    <2>1. Len(x.hashed) <= e
        BY <1>1, <1>2, <1>6
    <2> QED BY <1>1, <1>2, <2>1
<1>8. /\ x.ret \in -1 .. len /\ x.data \in Seq(Int) /\ Len(x.data) = (IF x.ret < 0 THEN 0 ELSE x.ret)
      /\ x.upos \in upos .. total /\ x.dpos \in 0 .. total + MdcSize
      /\ x.upos = upos + x.ret /\ x.dpos = dpos + x.ret /\ x.dpos <= x.upos /\ Len(x.hashed) <= x.upos
    BY <1>1, <1>3, <1>4, <1>7
<1>9. \A i \in 1 .. Len(x.data) : x.data[i] \in {dpos + i - 1, Garbage}
    BY <1>3, <1>4
<1>10. ~x.ended /\ ~x.valid
    BY <1>1, Zenon
<1> QED BY <1>5, <1>7, <1>8, <1>9, <1>10, Zenon DEF Outcome

\* The detection code is read and checked.
LEMMA CodeRead ==
    ASSUME Before, ~ended, has_mdc, NEW len \in Nat, NEW read \in 1 .. len, NEW e \in Int,
           upos <= e, e < upos + read, upos + read <= total, e + MdcSize = total,
           NEW plain, plain = Decrypt(Bytes(upos, e), dpos), NEW x,
           \/ /\ x.ret = Len(plain) /\ x.data = plain
              /\ x.valid => MdcMatches(Decrypt(Bytes(e, total), dpos + Len(plain)), hashed \o plain)
           \/ x.ret = -1 /\ x.data = <<>> /\ ~x.valid,
           x.upos = upos + read, x.dpos = dpos + Len(plain) + MdcSize, x.ended,
           x.hashed = hashed \o plain
    PROVE  Outcome(x, len)
<1>1. /\ upos \in Nat /\ total \in Nat /\ dpos \in Nat /\ MdcSize \in Nat /\ hashed \in Seq(Int) /\ n \in Nat
      /\ dpos <= upos /\ Len(hashed) <= upos /\ Len(hashed) \in Nat /\ MdcSize > 0
    BY DEF Before, Decoder
<1>2. /\ plain \in Seq(Int) /\ Len(plain) = e - upos
      /\ \A i \in 1 .. Len(plain) : plain[i] \in {dpos + i - 1, Garbage}
      /\ hashed \o plain \in Seq(Int) /\ Len(hashed \o plain) = Len(hashed) + (e - upos)
      /\ \A i \in DOMAIN (hashed \o plain) : (hashed \o plain)[i] # damaged
    BY PlainFacts, Zenon
<1>3. /\ x.hashed \in Seq(Int) /\ Len(x.hashed) = Len(hashed) + (e - upos)
      /\ \A i \in DOMAIN x.hashed : x.hashed[i] # damaged
    BY <1>2, Zenon
<1>4. /\ x.upos \in upos .. total /\ x.dpos \in 0 .. total + MdcSize /\ total - x.upos < MdcSize
      /\ total <= n + MdcSize => Len(x.hashed) <= n
      /\ Len(plain) \in 0 .. len
    BY <1>1, <1>2, <1>3, SMTT(60)
<1>5. CASE /\ x.ret = Len(plain) /\ x.data = plain
           /\ x.valid => MdcMatches(Decrypt(Bytes(e, total), dpos + Len(plain)), hashed \o plain)
    <2>1. /\ x.ret \in -1 .. len /\ x.data \in Seq(Int) /\ Len(x.data) = (IF x.ret < 0 THEN 0 ELSE x.ret)
          /\ \A i \in 1 .. Len(x.data) : x.data[i] \in {dpos + i - 1, Garbage}
          /\ x.hashed = hashed \o x.data
        BY <1>2, <1>4, <1>5
    <2>2. ASSUME x.valid PROVE Intact /\ x.hashed = Bytes(0, n)
        <3>1. PICK p \in Int : p = dpos + Len(plain)
            BY <1>1, <1>4
        <3>2. PICK h \in Seq(Int) : h = hashed \o plain
            BY <1>2
        <3>3. \A i \in DOMAIN h : h[i] # damaged
            BY <1>2, <3>2
        <3>4. MdcMatches(Decrypt(Bytes(e, total), p), h)
            BY <1>5, <2>2, <3>1, <3>2, Zenon
        <3>5. e <= total
            BY <1>1
        <3> QED BY <3>2, <3>3, <3>4, <3>5, CodeSound, Zenon
    <2> QED BY <1>3, <1>4, <2>1, <2>2, Zenon DEF Outcome
<1>6. CASE x.ret = -1 /\ x.data = <<>> /\ ~x.valid
    <2>1. /\ x.ret \in -1 .. len /\ x.data \in Seq(Int) /\ Len(x.data) = (IF x.ret < 0 THEN 0 ELSE x.ret)
          /\ \A i \in 1 .. Len(x.data) : x.data[i] \in {dpos + i - 1, Garbage}
          /\ ~(x.ret >= 0) /\ ~(x.ret > 0)
        BY <1>6
    <2> QED BY <1>3, <1>4, <1>6, <2>1, Zenon DEF Outcome
<1> QED BY <1>5, <1>6

\* What encrypted_src_read can come back with.
LEMMA ReadOutcome ==
    ASSUME IInv, NEW len \in Nat, NEW x \in encrypted_src_read(len)
    PROVE  Outcome(x, len) /\ Flags(x)
<1> DEFINE read   == Least(len, total - upos)
           after  == upos + read
           peeked == Least(MdcSize, total - after)
           sub    == MdcSub(peeked)
           all    == Decrypt(Bytes(upos, after), dpos)
           plain  == Decrypt(Bytes(upos, after - sub), dpos)
           code   == Decrypt(Bytes(after - sub, after + peeked), dpos + Len(plain))
           valid  == MdcMatches(code, hashed \o plain)
           fail   == [ret |-> -1, data |-> <<>>, upos |-> upos, dpos |-> dpos, ended |-> ended,
                      hashed |-> hashed, valid |-> mdc_validated, iofail |-> TRUE]
           lost   == [fail EXCEPT !.upos = after]
           none   == [fail EXCEPT !.ret = 0, !.iofail = iofail]
           some   == [lost EXCEPT !.ret = read, !.data = all, !.dpos = dpos + read, !.iofail = iofail,
                                  !.hashed = IF has_mdc THEN hashed \o all ELSE hashed]
           short  == [lost EXCEPT !.iofail = iofail]
           last   == [ret    |-> IF valid THEN Len(plain) ELSE -1,
                      data   |-> IF valid THEN plain ELSE <<>>,
                      upos   |-> after, dpos |-> dpos + Len(plain) + MdcSize, ended |-> TRUE,
                      hashed |-> hashed \o plain, valid |-> mdc_validated \/ valid, iofail |-> iofail]
           answer == IF read = 0 THEN none
                     ELSE IF ~has_mdc \/ ~CodeReached(peeked) THEN some
                     ELSE IF NoRoom(peeked, read) THEN short
                     ELSE last
<1>1. x \in {fail, lost, answer}
    BY Zenon DEF encrypted_src_read
<1>2. Before
    BY BeforeFacts
<1>3. ended \in BOOLEAN /\ mdc_validated \in BOOLEAN /\ iofail \in BOOLEAN /\ has_mdc \in BOOLEAN
    BY Zenon DEF IInv, TypeOK
<1>4. /\ read \in 0 .. len /\ after \in upos .. total /\ after - upos = read
      /\ peeked \in 0 .. MdcSize /\ after + peeked <= total
      /\ peeked < MdcSize => after + peeked = total
      /\ read + peeked <= total - upos
    BY <1>2, Positions
<1>5. /\ upos \in Nat /\ total \in Nat /\ dpos \in Nat /\ MdcSize \in Nat /\ upos <= total /\ MdcSize > 0
      /\ ended => has_mdc /\ total - upos < MdcSize
    BY <1>2 DEF Before, Decoder
<1> HIDE DEF read, peeked, all, plain, code, valid
<1>6. CASE x = fail
    <2>1. /\ x.ret = -1 /\ x.data = <<>> /\ x.upos = upos /\ x.dpos = dpos /\ x.ended = ended
          /\ x.hashed = hashed /\ x.valid = mdc_validated /\ x.iofail = TRUE
        BY <1>6, Zenon
    <2>2. upos \in upos .. total
        BY <1>5
    <2>3. Flags(x)
        BY <1>3, <2>1, Zenon DEF Flags
    <2> QED BY <1>2, <2>1, <2>2, <2>3, NothingRead
<1>7. CASE x = lost
    <2>1. /\ x.ret = -1 /\ x.data = <<>> /\ x.upos = after /\ x.dpos = dpos /\ x.ended = ended
          /\ x.hashed = hashed /\ x.valid = mdc_validated /\ x.iofail = TRUE
        BY <1>7
    <2>3. Flags(x)
        BY <1>3, <2>1, Zenon DEF Flags
    <2> QED BY <1>2, <1>4, <2>1, <2>3, NothingRead
<1>8. CASE x = answer /\ read = 0
    <2>1. /\ x.ret = 0 /\ x.data = <<>> /\ x.upos = upos /\ x.dpos = dpos /\ x.ended = ended
          /\ x.hashed = hashed /\ x.valid = mdc_validated /\ x.iofail = iofail
        BY <1>8
    <2>2. upos \in upos .. total
        BY <1>5
    <2>3. Flags(x)
        BY <1>3, <2>1, Zenon DEF Flags
    <2> QED BY <1>2, <2>1, <2>2, <2>3, NothingRead
<1>9. CASE x = answer /\ read # 0 /\ (~has_mdc \/ ~CodeReached(peeked))
    <2>1. x = some
        BY <1>9, Zenon
    <2>2. /\ x.ret = read /\ x.data = all /\ x.upos = upos + read /\ x.dpos = dpos + read /\ x.ended = ended
          /\ x.hashed = (IF has_mdc THEN hashed \o all ELSE hashed)
          /\ x.valid = mdc_validated /\ x.iofail = iofail
        BY <2>1
    <2>3. Flags(x)
        BY <1>3, <2>2, Zenon DEF Flags
    <2>4. has_mdc => upos + read + MdcSize <= total
        BY <1>4, <1>5, <1>9 DEF CodeReached
    <2>5. ~ended
        <3> SUFFICES ASSUME ended PROVE FALSE
            OBVIOUS
        <3>1. total - upos < MdcSize /\ upos + read + MdcSize <= total
            BY <1>5, <2>4, Zenon
        <3> QED BY <1>4, <1>5, <3>1
    <2>6. read \in 1 .. len /\ upos + read <= total
        BY <1>4, <1>5, <1>9, SMTT(60)
    <2>7. x.data = Decrypt(Bytes(upos, upos + read), dpos)
        BY <2>2 DEF all
    <2>8. x.hashed = (IF has_mdc THEN hashed \o x.data ELSE hashed)
        BY <2>2, Zenon
    <2> QED BY <1>2, <2>2, <2>3, <2>4, <2>5, <2>6, <2>7, <2>8, PlainRead
<1>10. CASE x = answer /\ read # 0 /\ ~(~has_mdc \/ ~CodeReached(peeked)) /\ NoRoom(peeked, read)
    <2>1. x = short
        BY <1>10, Zenon
    <2>2. /\ x.ret = -1 /\ x.data = <<>> /\ x.upos = after /\ x.dpos = dpos /\ x.ended = ended
          /\ x.hashed = hashed /\ x.valid = mdc_validated /\ x.iofail = iofail
        BY <2>1
    <2>3. Flags(x)
        BY <1>3, <2>2, Zenon DEF Flags
    <2> QED BY <1>2, <1>4, <2>2, <2>3, NothingRead
<1>11. CASE x = answer /\ read # 0 /\ ~(~has_mdc \/ ~CodeReached(peeked)) /\ ~NoRoom(peeked, read)
    <2>1. x = last
        BY <1>11, Zenon
    <2>2. /\ x.ret = (IF valid THEN Len(plain) ELSE -1) /\ x.data = (IF valid THEN plain ELSE <<>>)
          /\ x.upos = upos + read /\ x.dpos = dpos + Len(plain) + MdcSize
          /\ x.hashed = hashed \o plain
        BY <2>1, Zenon
    <2>3. x.ended = TRUE /\ x.iofail = iofail /\ x.valid = (mdc_validated \/ valid)
        BY <2>1, Zenon
    <2>4. Flags(x)
        <3>1. (mdc_validated \/ valid) \in BOOLEAN
            OBVIOUS
        <3> QED BY <1>3, <2>3, <3>1, Zenon DEF Flags
    <2>5. has_mdc /\ peeked < MdcSize /\ peeked + read >= MdcSize /\ read \in 1 .. len
        <3>1. has_mdc /\ CodeReached(peeked) /\ ~NoRoom(peeked, read) /\ read # 0
            BY <1>11, Zenon
        <3>2. peeked < MdcSize /\ peeked + read >= MdcSize /\ read \in 1 .. len
            <4>1. read \in 0 .. len /\ peeked \in 0 .. MdcSize /\ MdcSize \in Nat
                BY <1>4, <1>5, Zenon
            <4> QED BY <3>1, <4>1 DEF CodeReached, NoRoom
        <3> QED BY <3>1, <3>2, Zenon
    <2>6. ~ended
        BY <1>4, <1>5, <2>5
    <2>7. PICK e \in Int : e = after - sub
        BY <1>4, <1>5 DEF MdcSub
    <2>8. /\ upos <= e /\ e < upos + read /\ upos + read <= total /\ e + MdcSize = total
        BY <1>4, <1>5, <2>5, <2>7 DEF MdcSub
    <2>9. after + peeked = total
        BY <1>4, <2>5
    <2>10. /\ plain = Decrypt(Bytes(upos, e), dpos)
           /\ code = Decrypt(Bytes(e, total), dpos + Len(plain))
        BY <2>7, <2>9, Zenon DEF plain, code
    <2>11. ~mdc_validated
        BY <1>2, <2>6 DEF Before, Decoder
    <2>12. \/ /\ x.ret = Len(plain) /\ x.data = plain
              /\ x.valid => MdcMatches(Decrypt(Bytes(e, total), dpos + Len(plain)), hashed \o plain)
           \/ x.ret = -1 /\ x.data = <<>> /\ ~x.valid
        BY <2>2, <2>3, <2>10, <2>11, Zenon DEF valid
    <2>13. x.ended
        BY <2>3
    <2>14. Outcome(x, len)
        BY <1>2, <2>2, <2>5, <2>6, <2>8, <2>10, <2>12, <2>13, CodeRead
    <2> QED BY <2>4, <2>14
<1> QED BY <1>1, <1>6, <1>7, <1>8, <1>9, <1>10, <1>11, Zenon

-----------------------------------------------------------------------------
\* The theorems of the library, for sequences of bytes.
LEMMA Assoc ==
    ASSUME NEW s \in Seq(Int), NEW t \in Seq(Int), NEW u \in Seq(Int)
    PROVE  (s \o t) \o u = s \o (t \o u)
    BY ConcatAssociative

LEMMA NoBytes ==
    ASSUME NEW s \in Seq(Int)
    PROVE  s \o <<>> = s /\ <<>> \o s = s
    BY ConcatEmptySeq

LEMMA SameBytes ==
    ASSUME NEW s \in Seq(Int), NEW t \in Seq(Int), Len(s) = Len(t), \A i \in 1 .. Len(s) : s[i] = t[i]
    PROVE  s = t
    OBVIOUS

\* A sequence is its first k bytes and the ones behind them.
LEMMA SplitFacts ==
    ASSUME NEW s \in Seq(Int), NEW t \in Seq(Int), NEW k \in Nat, k <= Len(t)
    PROVE  /\ SubSeq(t, 1, k) \in Seq(Int) /\ SubSeq(t, k + 1, Len(t)) \in Seq(Int)
           /\ Len(SubSeq(t, 1, k)) = k /\ Len(SubSeq(t, k + 1, Len(t))) = Len(t) - k
           /\ (s \o SubSeq(t, 1, k)) \o SubSeq(t, k + 1, Len(t)) = s \o t
<1> DEFINE a == SubSeq(t, 1, k)
           b == SubSeq(t, k + 1, Len(t))
<1>1. a \in Seq(Int) /\ Len(a) = k
    OBVIOUS
<1>2. b \in Seq(Int) /\ Len(b) = Len(t) - k
    OBVIOUS
<1>3. a \o b = t
    <2>1. 1 \in 1 .. Len(t) + 1 /\ k \in 1 - 1 .. Len(t) /\ Len(t) \in k .. Len(t)
        OBVIOUS
    <2>2. a \o b = SubSeq(t, 1, Len(t))
        BY <2>1, ConcatAdjacentSubSeq, Zenon
    <2> QED BY <2>2, SubSeqFull, Zenon
<1> HIDE DEF a, b
<1>4. (s \o a) \o b = s \o (a \o b)
    BY <1>1, <1>2, Assoc, ZenonT(60)
<1>5. (s \o a) \o b = s \o t
    BY <1>3, <1>4, Zenon
<1> QED BY <1>1, <1>2, <1>5 DEF a, b

\* The parts of a stream, put together one way or the other.
LEMMA StreamFacts ==
    ASSUME NEW g \in Seq(Int), NEW o \in Seq(Int), NEW c \in Seq(Int), NEW d \in Seq(Int)
    PROVE  /\ ((g \o o) \o c) \o d = (g \o o) \o (c \o d)
           /\ (g \o o) \o d = g \o (o \o d)
           /\ g \o <<>> = g
           /\ (g \o o) \o c \in Seq(Int) /\ Len((g \o o) \o c) = Len(g) + Len(o) + Len(c)
<1>1. PICK u \in Seq(Int) : u = g \o o
    BY ConcatFacts, Zenon
<1>2. (u \o c) \o d = u \o (c \o d) /\ u \o c \in Seq(Int) /\ Len(u \o c) = Len(u) + Len(c)
    BY Assoc, ConcatFacts, ZenonT(60)
<1>3. Len(g \o o) = Len(g) + Len(o)
    BY ConcatFacts, Zenon
<1>4. (g \o o) \o d = g \o (o \o d)
    BY Assoc, ZenonT(60)
<1>5. g \o <<>> = g
    BY NoBytes
<1> QED BY <1>1, <1>2, <1>3, <1>4, <1>5, Zenon

-----------------------------------------------------------------------------
\* The types of the state, one by one.
LEMMA Types ==
    ASSUME IInv
    PROVE  /\ n \in Nat /\ Header <= n /\ total \in Nat /\ upos \in Nat /\ size \in Nat /\ n <= size
           /\ cache \in Seq(Int) /\ out \in Seq(Int) /\ got \in Seq(Int) /\ hashed \in Seq(Int)
           /\ Len(cache) \in 0 .. CacheSize /\ Len(out) \in 0 .. CacheSize /\ Len(got) \in Nat
           /\ readb = Len(got) /\ want \in 0 .. CacheSize /\ ret \in -1 .. CacheSize
           /\ CacheSize \in Nat /\ Header \in Nat /\ Header > 0 /\ MdcSize \in Nat /\ 2 * Header < CacheSize
<1>1. /\ CacheSize \in Nat /\ Header \in Nat /\ Header > 0 /\ MdcSize \in Nat /\ 2 * Header < CacheSize
      /\ MaxPlain \in Nat /\ MaxExtra \in Nat
    BY EncryptedAssumption
<1>2. n \in Nat /\ Header <= n /\ total \in Nat /\ upos \in Nat
    BY <1>1 DEF IInv, TypeOK
<1>3. cache \in Seq(Int) /\ out \in Seq(Int) /\ got \in Seq(Int) /\ hashed \in Seq(Int)
    BY Zenon DEF IInv, BytesOK
<1>4. /\ Len(cache) \in 0 .. CacheSize /\ Len(out) \in 0 .. CacheSize
      /\ readb = Len(got) /\ want \in 0 .. CacheSize /\ ret \in -1 .. CacheSize
    BY DEF IInv, TypeOK
<1>5. size \in Nat /\ n <= size
    BY <1>1, <1>2 DEF size
<1>6. Len(got) \in Nat
    BY <1>3
<1> QED BY <1>1, <1>2, <1>3, <1>4, <1>5, <1>6

\* The message does not change.
LEMMA SameMessage ==
    ASSUME UNCHANGED msgVars
    PROVE  /\ n' = n /\ total' = total /\ damaged' = damaged /\ known' = known /\ has_mdc' = has_mdc
           /\ consumer' = consumer /\ size' = size /\ (Intact)' = Intact
    BY Zenon DEF msgVars, size, Intact

\* A step that does not read the body leaves the decoder as it is.
LEMMA DecoderStays ==
    ASSUME IInv, UNCHANGED msgVars, UNCHANGED decVars
    PROVE  /\ (Decoder)' /\ (total <= n + MdcSize /\ has_mdc => Len(hashed) <= n)'
           /\ upos' = upos /\ dpos' = dpos /\ ended' = ended /\ hashed' = hashed /\ mdc_validated' = mdc_validated
<1>1. upos' = upos /\ dpos' = dpos /\ ended' = ended /\ hashed' = hashed /\ mdc_validated' = mdc_validated
    BY Zenon DEF decVars
<1>2. /\ n' = n /\ total' = total /\ damaged' = damaged /\ has_mdc' = has_mdc
      /\ (Intact)' = Intact
    BY SameMessage, Zenon
<1>3. (Decoder)'
    BY <1>1, <1>2, Zenon DEF IInv, Decoder, Bytes
<1> QED BY <1>1, <1>2, <1>3, Zenon DEF IInv

\* After a call of encrypted_src_read the decoder is in order.
LEMMA DecoderMoves ==
    ASSUME IInv, NEW len \in Nat, NEW x, Outcome(x, len), Took(x), UNCHANGED msgVars
    PROVE  (Decoder)' /\ (total <= n + MdcSize /\ has_mdc => Len(hashed) <= n)'
<1>1. /\ upos' = x.upos /\ dpos' = x.dpos /\ ended' = x.ended /\ hashed' = x.hashed
      /\ mdc_validated' = x.valid
    BY Zenon DEF Took
<1>2. /\ n' = n /\ total' = total /\ damaged' = damaged /\ has_mdc' = has_mdc
      /\ (Intact)' = Intact
    BY SameMessage, Zenon
<1>3. /\ \A i \in DOMAIN x.hashed : x.hashed[i] # damaged
      /\ x.ended => has_mdc /\ total - x.upos < MdcSize
      /\ ~x.ended => ~ended /\ x.dpos <= x.upos /\ Len(x.hashed) <= x.upos
      /\ (total <= n + MdcSize /\ has_mdc) => Len(x.hashed) <= n
      /\ x.valid => x.ended /\ Intact /\ x.hashed = Bytes(0, n)
    BY Zenon DEF Outcome
<1>4. (Decoder)'
    BY <1>1, <1>2, <1>3, Zenon DEF Decoder, Bytes
<1> QED BY <1>1, <1>2, <1>3, <1>4, Zenon

\* Data that were read go behind the ones that are there already.
LEMMA StreamGrows ==
    ASSUME IInv, Running, NEW len \in Nat, NEW x, Outcome(x, len), x.ret >= 0,
           NEW s, s = Stream \o x.data
    PROVE  /\ has_mdc => x.hashed = s
           /\ ~x.ended => Len(s) = x.upos /\ x.dpos = x.upos
           /\ \A i \in DOMAIN s : s[i] \in {i - 1, Garbage}
<1>1. PICK a \in Seq(Int) : a = Stream
    BY Types, StreamFacts, Zenon DEF Stream
<1>2. PICK d \in Seq(Int) : d = x.data
    BY Zenon DEF Outcome
<1>3. /\ s \in Seq(Int) /\ Len(s) = Len(a) + Len(d) /\ s = a \o d
      /\ \A i \in 1 .. Len(a) + Len(d) : s[i] = IF i <= Len(a) THEN a[i] ELSE d[i - Len(a)]
    BY <1>1, <1>2, ConcatFacts, Zenon
<1>4. /\ ~ended => Len(a) = upos /\ dpos = upos
      /\ \A i \in DOMAIN a : a[i] \in {i - 1, Garbage}
    BY <1>1, Zenon DEF IInv, InPlace
<1>5. has_mdc => hashed = a
    BY <1>1, Zenon DEF IInv, ReleasedIsHashed, Stream
<1>6. /\ x.ret > 0 => ~ended
      /\ \A i \in 1 .. Len(d) : d[i] \in {dpos + i - 1, Garbage}
      /\ (x.ret >= 0 /\ has_mdc) => x.hashed = hashed \o d
      /\ (x.ret >= 0 /\ ~x.ended) => x.upos = upos + x.ret /\ x.dpos = dpos + x.ret
      /\ ~x.ended => ~ended
    BY <1>2, Zenon DEF Outcome
<1>7. x.ret \in Int /\ Len(d) = x.ret
    BY <1>2 DEF Outcome
<1>8. has_mdc => x.hashed = s
    BY <1>3, <1>5, <1>6, Zenon
<1>9. ASSUME ~x.ended PROVE Len(s) = x.upos /\ x.dpos = x.upos
    <2>1. /\ Len(a) = upos /\ dpos = upos /\ x.upos = upos + x.ret /\ x.dpos = dpos + x.ret
          /\ Len(s) = Len(a) + Len(d)
        BY <1>3, <1>4, <1>6, <1>9, Zenon
    <2> QED BY <1>7, <2>1
<1>10. ASSUME NEW i \in DOMAIN s PROVE s[i] \in {i - 1, Garbage}
    <2>0. i \in 1 .. Len(a) + Len(d) /\ Len(a) \in Nat /\ Len(d) \in Nat
        BY <1>3, <1>10
    <2>1. CASE i <= Len(a)
        <3>1. s[i] = a[i] /\ i \in DOMAIN a
            BY <1>3, <2>0, <2>1
        <3> QED BY <1>4, <3>1, Zenon
    <2>2. CASE ~(i <= Len(a))
        <3>1. s[i] = d[i - Len(a)]
            BY <1>3, <2>0, <2>2, Zenon
        <3>2. i - Len(a) \in 1 .. Len(d) /\ x.ret > 0
            BY <1>7, <2>0, <2>2
        <3>3. Len(a) = upos /\ dpos = upos
            BY <1>4, <1>6, <3>2, Zenon
        <3>4. d[i - Len(a)] \in {dpos + (i - Len(a)) - 1, Garbage}
            BY <1>6, <3>2, Zenon
        <3>5. dpos + (i - Len(a)) - 1 = i - 1
            BY <2>0, <3>3
        <3> QED BY <3>1, <3>4, <3>5, Zenon
    <2> QED BY <2>1, <2>2
<1> QED BY <1>8, <1>9, <1>10, Zenon

-----------------------------------------------------------------------------
\* The type invariant after a step, from the types of what the step changes.
LEMMA TypeStep ==
    ASSUME IInv, UNCHANGED msgVars,
           upos' \in 0 .. total, dpos' \in 0 .. total + MdcSize, hashed' \in Seq(Int),
           ended' \in BOOLEAN, mdc_validated' \in BOOLEAN, iofail' \in BOOLEAN,
           eof' \in BOOLEAN, ra' \in BOOLEAN, failed' \in BOOLEAN,
           cache' \in Seq(Int), out' \in Seq(Int), got' \in Seq(Int),
           Len(cache') \in 0 .. CacheSize, Len(out') \in 0 .. CacheSize,
           readb' = Len(got'), want' \in 0 .. CacheSize, ret' \in -1 .. CacheSize,
           op' \in {"idle", "read", "peek"}, phase' \in {"reading", "stopped", "finished"},
           retries' \in 0 .. MaxRetry, result' \in {"none", "success", "bad_state"}
    PROVE  (TypeOK)' /\ (BytesOK)'
<1>1. /\ n' = n /\ total' = total /\ damaged' = damaged /\ known' = known /\ has_mdc' = has_mdc
      /\ consumer' = consumer
    BY SameMessage, Zenon
<1>2. /\ n \in Header .. MaxPlain /\ total \in 0 .. n + MdcSize + MaxExtra
      /\ known \in BOOLEAN /\ has_mdc \in BOOLEAN
      /\ damaged \in {NoByte} \cup 0 .. total - 1
      /\ consumer \in {"literal", "compressed", "signed"}
    BY Zenon DEF IInv, TypeOK, BytesOK
<1>3. ({ended, mdc_validated, eof, ra, failed, iofail, known, has_mdc} \subseteq BOOLEAN)'
    BY <1>1, <1>2, Zenon
<1>4. (TypeOK)'
    BY <1>1, <1>2, <1>3, Zenon DEF TypeOK
<1>5. (BytesOK)'
    BY <1>1, <1>2, Zenon DEF BytesOK, NoByte
<1> QED BY <1>4, <1>5

\* The types of what a step leaves alone.
LEMMA Booleans ==
    ASSUME IInv
    PROVE  /\ upos \in 0 .. total /\ dpos \in 0 .. total + MdcSize
           /\ ended \in BOOLEAN /\ mdc_validated \in BOOLEAN /\ iofail \in BOOLEAN /\ known \in BOOLEAN
           /\ eof \in BOOLEAN /\ ra \in BOOLEAN /\ failed \in BOOLEAN /\ has_mdc \in BOOLEAN
           /\ op \in {"idle", "read", "peek"} /\ phase \in {"reading", "stopped", "finished"}
           /\ retries \in 0 .. MaxRetry /\ result \in {"none", "success", "bad_state"}
    BY Zenon DEF IInv, TypeOK

\* A request is clipped to what is left, and is not empty before the end.
LEMMA Requested ==
    ASSUME IInv, NEW len \in 1 .. CacheSize
    PROVE  /\ ClippedRead(len) \in 0 .. CacheSize /\ ClippedRead(len) <= len
           /\ ~eof => ClippedRead(len) > 0
           /\ known => readb + ClippedRead(len) <= size
           /\ (~Clipped(len)) \in BOOLEAN
<1>1. /\ size \in Nat /\ readb \in Nat /\ CacheSize \in Nat
      /\ known => readb <= size /\ (readb = size => eof)
    BY Types DEF IInv, Calls
<1>2. CASE Clipped(len)
    BY <1>1, <1>2 DEF ClippedRead, Clipped
<1>3. CASE ~Clipped(len)
    BY <1>1, <1>3 DEF ClippedRead, Clipped
<1> QED BY <1>2, <1>3

\* The consumer looks at the bytes that come next.
LEMMA PeekIInv ==
    ASSUME IInv, ConsumerPeeks PROVE IInv'
<1>1. PICK len \in 1 .. Header + 1 : src_peek(len)
    BY Zenon DEF ConsumerPeeks
<1>2. len \in 1 .. CacheSize
    <2>1. Header \in Nat /\ Header > 0 /\ CacheSize \in Nat /\ 2 * Header < CacheSize
        BY Types
    <2> QED BY <2>1
<1>3. PICK l : l = ClippedRead(len)
    OBVIOUS
<1>4. l \in 0 .. CacheSize /\ (~Clipped(len)) \in BOOLEAN
    BY <1>2, <1>3, Requested, Zenon
<1>5. /\ op = "idle" /\ want' = l /\ ra' = ~Clipped(len)
      /\ \/ (eof \/ Len(cache) >= l) /\ ret' = (IF eof THEN 0 ELSE l) /\ UNCHANGED op
         \/ ~eof /\ Len(cache) < l /\ op' = "peek" /\ UNCHANGED ret
      /\ UNCHANGED msgVars /\ UNCHANGED decVars /\ cache' = cache /\ readb' = readb /\ eof' = eof /\ out' = out
      /\ got' = got /\ phase' = phase /\ failed' = failed /\ retries' = retries /\ result' = result
      /\ iofail' = iofail
    BY <1>1, <1>3, Zenon DEF src_peek, srcVars, conVars
<1>6. ret >= 0 /\ phase = "reading" /\ ret \in -1 .. CacheSize
    BY Types, SMTT(60) DEF ConsumerPeeks, Starved
<1>7. /\ ret' \in 0 .. CacheSize /\ ret' >= 0 /\ ret' \in -1 .. CacheSize
      /\ op' \in {"idle", "peek"} /\ (op' = "peek" => Len(cache) < l)
    <2>1. CacheSize \in Nat
        BY Types
    <2> QED BY <1>4, <1>5, <1>6, <2>1
<1>8. /\ (Decoder)' /\ (total <= n + MdcSize /\ has_mdc => Len(hashed) <= n)'
      /\ upos' = upos /\ dpos' = dpos /\ ended' = ended /\ hashed' = hashed /\ mdc_validated' = mdc_validated
    BY <1>5, DecoderStays, Zenon
<1>9. op' \in {"idle", "read", "peek"}
    BY <1>7
<1>10. (TypeOK)' /\ (BytesOK)'
    <2>1. ra' \in BOOLEAN /\ want' \in 0 .. CacheSize
        BY <1>4, <1>5, Zenon
    <2>2. readb' = Len(got')
        BY <1>5, Types, Zenon
    <2> QED BY <1>5, <1>7, <1>8, <1>9, <2>1, <2>2, Types, Booleans, TypeStep, Zenon
<1>11. known' = known /\ size' = size /\ has_mdc' = has_mdc
    BY <1>5, SameMessage, Zenon
<1>12. (Calls)'
    <2>1. out = <<>> /\ (known => readb <= size) /\ (known /\ readb = size => eof)
        BY <1>5, Zenon DEF IInv, Calls
    <2>2. op' # "read"
        BY <1>7
    <2> QED BY <1>5, <1>7, <1>11, <2>1, <2>2, Zenon DEF Calls
<1>13. (Phases)'
    <2>1. ~(ret' < 0) /\ ~failed /\ result # "success"
        BY <1>6, <1>7 DEF IInv, Phases
    <2> QED BY <1>5, <1>6, <2>1, Zenon DEF Phases
<1>14. Running /\ Stream' = Stream
    <2>1. ~failed
        BY <1>6, Zenon DEF IInv, Phases
    <2> QED BY <1>5, <1>6, <2>1, Zenon DEF Running, Stream
<1>15. (InPlace)' /\ (ReleasedIsHashed)'
    BY <1>8, <1>11, <1>14, Zenon DEF IInv, InPlace, ReleasedIsHashed, Stream
<1> QED BY <1>8, <1>10, <1>12, <1>13, <1>15, Zenon DEF IInv

\* src_read is entered: the bytes it hands out or keeps for its loop are the
\* first ones of the cache.
LEMMA ReadMoves ==
    ASSUME IInv, NEW len \in 1 .. CacheSize, src_read(len), NEW l, l = ClippedRead(len)
    PROVE  /\ cache' \in Seq(Int) /\ out' \in Seq(Int) /\ got' \in Seq(Int)
           /\ Len(cache') \in 0 .. CacheSize /\ Len(out') \in 0 .. CacheSize /\ readb' = Len(got')
           /\ ret' \in -1 .. CacheSize /\ (ret >= 0 => ret' >= 0) /\ eof' \in BOOLEAN
           /\ op' \in {"idle", "read"}
           /\ op' # "read" => out' = <<>>
           /\ op' = "read" => cache' = <<>> /\ Len(out') < l /\ (known => readb' + l <= size)
           /\ known => readb' <= size
           /\ (known /\ readb' = size) => eof'
           /\ Running => (got' \o out') \o cache' = (got \o out) \o cache
           /\ op' = "read" \/ eof \/ Len(got') = Len(got) + l
           /\ op' = "read" => got' = got /\ eof' = eof
           /\ (~eof /\ eof') => readb' = size
<1>4. l \in 0 .. CacheSize /\ (~Clipped(len)) \in BOOLEAN /\ (~eof => l > 0) /\ (known => readb + l <= size)
    BY Requested, Zenon
<1>5. /\ op = "idle" /\ want' = l /\ ra' = ~Clipped(len)
      /\ \/ eof /\ ReadReturns(<<>>, cache, TRUE)
         \/ /\ ~eof /\ Len(cache) >= l
            /\ ReadReturns(SubSeq(cache, 1, l), SubSeq(cache, l + 1, Len(cache)), FALSE)
         \/ /\ ~eof /\ Len(cache) < l
            /\ op' = "read" /\ out' = cache /\ cache' = <<>>
            /\ ret' = ret /\ got' = got /\ readb' = readb /\ eof' = eof
      /\ UNCHANGED msgVars /\ UNCHANGED decVars
      /\ phase' = phase /\ failed' = failed /\ result' = result /\ iofail' = iofail
    BY Zenon DEF src_read
<1>6. /\ size \in Nat /\ CacheSize \in Nat /\ cache \in Seq(Int) /\ got \in Seq(Int) /\ out \in Seq(Int)
      /\ readb = Len(got) /\ Len(cache) \in 0 .. CacheSize /\ Len(got) \in Nat /\ ret \in -1 .. CacheSize
    BY Types, Zenon
<1>9. out = <<>> /\ (known => readb <= size) /\ (known /\ readb = size => eof)
    BY <1>5, Zenon DEF IInv, Calls
<1>11. CASE eof /\ ReadReturns(<<>>, cache, TRUE)
    <2>1. /\ op' = "idle" /\ out' = <<>> /\ ret' = Len(<<>>) /\ got' = got \o <<>> /\ cache' = cache
          /\ readb' = readb + Len(<<>>) /\ eof' = TRUE
        BY <1>11, Zenon DEF ReadReturns
    <2>2. got' = got /\ ret' = 0 /\ readb' = readb
        BY <1>6, <2>1, NoBytes
    <2>3. ret' \in -1 .. CacheSize /\ ret' >= 0 /\ out' \in Seq(Int) /\ Len(out') \in 0 .. CacheSize
        BY <1>6, <2>1, <2>2
    <2>4. op' \in {"idle", "read"} /\ ~(op' = "read")
        BY <2>1
    <2> QED BY <1>6, <1>9, <1>11, <2>1, <2>2, <2>3, <2>4, Zenon
<1>12. CASE /\ ~eof /\ Len(cache) >= l
            /\ ReadReturns(SubSeq(cache, 1, l), SubSeq(cache, l + 1, Len(cache)), FALSE)
    <2>1. PICK a : a = SubSeq(cache, 1, l)
        OBVIOUS
    <2>2. PICK b : b = SubSeq(cache, l + 1, Len(cache))
        OBVIOUS
    <2>3. /\ op' = "idle" /\ out' = <<>> /\ ret' = Len(a) /\ got' = got \o a /\ cache' = b
          /\ readb' = readb + Len(a)
        BY <1>12, <2>1, <2>2, Zenon DEF ReadReturns
    <2>4. eof' = (known /\ readb + Len(a) = size)
        BY <1>12, <2>1 DEF ReadReturns
    <2>5. l \in Nat /\ l <= Len(cache)
        BY <1>4, <1>6, <1>12
    <2>6. /\ a \in Seq(Int) /\ b \in Seq(Int) /\ Len(a) = l /\ Len(b) = Len(cache) - l
          /\ (got \o a) \o b = got \o cache
        <3>1. /\ SubSeq(cache, 1, l) \in Seq(Int) /\ SubSeq(cache, l + 1, Len(cache)) \in Seq(Int)
              /\ Len(SubSeq(cache, 1, l)) = l /\ Len(SubSeq(cache, l + 1, Len(cache))) = Len(cache) - l
              /\ (got \o SubSeq(cache, 1, l)) \o SubSeq(cache, l + 1, Len(cache)) = got \o cache
            BY <1>6, <2>5, SplitFacts, ZenonT(60)
        <3> QED BY <2>1, <2>2, <3>1, Zenon
    <2>7. got' \in Seq(Int) /\ Len(got') = Len(got) + l
        BY <1>6, <2>3, <2>6, ConcatFacts, Zenon
    <2>8. got' \o <<>> = got' /\ got \o <<>> = got
        BY <1>6, <2>7, NoBytes
    <2>9. (got' \o out') \o cache' = (got \o out) \o cache
        BY <1>9, <2>3, <2>6, <2>8, Zenon
    <2>10. /\ Len(cache') \in 0 .. CacheSize /\ readb' = Len(got') /\ ret' \in -1 .. CacheSize /\ ret' >= 0
        <3>1. readb' = Len(got')
            BY <1>6, <2>3, <2>6, <2>7, Zenon
        <3>2. ret' = l /\ Len(cache') = Len(cache) - l /\ Len(cache) \in 0 .. CacheSize /\ CacheSize \in Nat
            BY <1>6, <2>3, <2>6, Zenon
        <3>3. l \in 0 .. CacheSize
            BY <1>4, Zenon
        <3> QED BY <2>5, <3>1, <3>2, <3>3
    <2>11. known => readb' <= size
        BY <1>4, <2>3, <2>6, Zenon
    <2>12. eof' \in BOOLEAN /\ (known /\ readb' = size => eof') /\ (eof' => readb' = size)
        BY <2>3, <2>4, Zenon
    <2>13. out' \in Seq(Int) /\ Len(out') \in 0 .. CacheSize
        BY <1>6, <2>3
    <2>14. op' \in {"idle", "read"} /\ ~(op' = "read")
        BY <2>3
    <2> QED BY <2>3, <2>6, <2>7, <2>9, <2>10, <2>11, <2>12, <2>13, <2>14, Zenon
<1>13. CASE /\ ~eof /\ Len(cache) < l
            /\ op' = "read" /\ out' = cache /\ cache' = <<>>
            /\ ret' = ret /\ got' = got /\ readb' = readb /\ eof' = eof
    <2>1. (got' \o out') \o cache' = (got \o out) \o cache
        <3>1. got \o <<>> = got
            BY <1>6, NoBytes
        <3>2. (got \o cache) \o <<>> = got \o cache
            <4>1. got \o cache \in Seq(Int)
                BY <1>6, ConcatFacts, Zenon
            <4> QED BY <4>1, NoBytes
        <3> QED BY <1>9, <1>13, <3>1, <3>2, Zenon
    <2>2. cache' \in Seq(Int) /\ Len(cache') \in 0 .. CacheSize
        BY <1>6, <1>13
    <2>3. eof' \in BOOLEAN
        BY <1>13, Booleans, Zenon
    <2>4. op' \in {"idle", "read"}
        BY <1>13
    <2> QED BY <1>4, <1>6, <1>9, <1>13, <2>1, <2>2, <2>3, <2>4, Zenon
<1> QED BY <1>5, <1>11, <1>12, <1>13, Zenon

\* src_read is entered by a consumer that goes on, or by a signed source after
\* an error.
LEMMA ReadIInv ==
    ASSUME IInv, NEW len \in 1 .. CacheSize, src_read(len), retries' \in 0 .. MaxRetry,
           (phase = "reading" /\ ret >= 0 /\ ~eof) \/ (phase = "stopped" /\ failed)
    PROVE  IInv'
<1>3. PICK l : l = ClippedRead(len)
    OBVIOUS
<1>4. l \in 0 .. CacheSize /\ (~Clipped(len)) \in BOOLEAN /\ (~eof => l > 0) /\ (known => readb + l <= size)
    BY <1>3, Requested, Zenon
<1>5. /\ op = "idle" /\ want' = l /\ ra' = ~Clipped(len)
      /\ \/ eof /\ ReadReturns(<<>>, cache, TRUE)
         \/ /\ ~eof /\ Len(cache) >= l
            /\ ReadReturns(SubSeq(cache, 1, l), SubSeq(cache, l + 1, Len(cache)), FALSE)
         \/ /\ ~eof /\ Len(cache) < l
            /\ op' = "read" /\ out' = cache /\ cache' = <<>>
            /\ ret' = ret /\ got' = got /\ readb' = readb /\ eof' = eof
      /\ UNCHANGED msgVars /\ UNCHANGED decVars
      /\ phase' = phase /\ failed' = failed /\ result' = result /\ iofail' = iofail
    BY <1>3, Zenon DEF src_read
<1>6. /\ size \in Nat /\ CacheSize \in Nat /\ cache \in Seq(Int) /\ got \in Seq(Int) /\ out \in Seq(Int)
      /\ readb = Len(got) /\ Len(cache) \in 0 .. CacheSize /\ Len(got) \in Nat /\ ret \in -1 .. CacheSize
    BY Types, Zenon
<1>7. /\ (Decoder)' /\ (total <= n + MdcSize /\ has_mdc => Len(hashed) <= n)'
      /\ upos' = upos /\ dpos' = dpos /\ ended' = ended /\ hashed' = hashed /\ mdc_validated' = mdc_validated
    BY <1>5, DecoderStays, Zenon
<1>8. known' = known /\ size' = size /\ has_mdc' = has_mdc
    BY <1>5, SameMessage, Zenon
<1>9. out = <<>> /\ (known => readb <= size) /\ (known /\ readb = size => eof)
    BY <1>5, Zenon DEF IInv, Calls
<1>10. /\ cache' \in Seq(Int) /\ out' \in Seq(Int) /\ got' \in Seq(Int)
       /\ Len(cache') \in 0 .. CacheSize /\ Len(out') \in 0 .. CacheSize /\ readb' = Len(got')
       /\ ret' \in -1 .. CacheSize /\ (ret >= 0 => ret' >= 0) /\ eof' \in BOOLEAN
       /\ op' \in {"idle", "read"}
       /\ op' # "read" => out' = <<>>
       /\ op' = "read" => cache' = <<>> /\ Len(out') < l /\ (known => readb' + l <= size)
       /\ known => readb' <= size
       /\ (known /\ readb' = size) => eof'
       /\ Running => (got' \o out') \o cache' = (got \o out) \o cache
    BY <1>3, ReadMoves, Zenon
<1>11. (TypeOK)' /\ (BytesOK)'
    <2>1. ra' \in BOOLEAN /\ want' \in 0 .. CacheSize
        BY <1>4, <1>5, Zenon
    <2>2. op' \in {"idle", "read", "peek"}
        BY <1>10
    <2>3. hashed' \in Seq(Int)
        BY <1>7, Types, Zenon
    <2> QED BY <1>5, <1>7, <1>10, <2>1, <2>2, <2>3, Booleans, TypeStep, Zenon
<1>12. (Calls)'
    <2>1. op' # "peek"
        BY <1>10
    <2> QED BY <1>5, <1>8, <1>10, <2>1, Zenon DEF Calls
<1>13. (Phases)'
    <2>1. /\ phase = "reading" => ~failed
          /\ result = "success" => phase = "finished"
        BY Zenon DEF IInv, Phases
    <2>2. failed \/ (ret' >= 0 /\ phase = "reading")
        BY <1>10, Zenon
    <2>3. failed \/ (~(ret' < 0) /\ phase = "reading")
        BY <1>10, <2>2
    <2>4. phase # "finished"
        OBVIOUS
    <2> QED BY <1>5, <2>1, <2>3, <2>4, Zenon DEF Phases
<1>14. (InPlace)' /\ (ReleasedIsHashed)'
    <2>1. CASE failed
        BY <1>5, <2>1, Zenon DEF InPlace, ReleasedIsHashed, Running
    <2>2. CASE ~failed
        <3>1. Running
            BY <2>2, Zenon DEF Running
        <3>2. Stream' = Stream /\ (got' \o out') \o cache' = (got \o out) \o cache
            BY <1>10, <3>1, Zenon DEF Stream
        <3> QED BY <1>7, <1>8, <3>1, <3>2, Zenon DEF IInv, InPlace, ReleasedIsHashed, Stream
    <2> QED BY <2>1, <2>2
<1> QED BY <1>7, <1>11, <1>12, <1>13, <1>14, Zenon DEF IInv

\* What a call of encrypted_src_read leaves, as far as types go.
LEMMA TookTypes ==
    ASSUME IInv, NEW len \in Nat, NEW x, Outcome(x, len), Flags(x), Took(x)
    PROVE  /\ upos' \in 0 .. total /\ dpos' \in 0 .. total + MdcSize /\ hashed' \in Seq(Int)
           /\ ended' \in BOOLEAN /\ mdc_validated' \in BOOLEAN /\ iofail' \in BOOLEAN
           /\ upos' = x.upos /\ dpos' = x.dpos /\ ended' = x.ended /\ hashed' = x.hashed
           /\ x.ret \in -1 .. len /\ x.data \in Seq(Int) /\ Len(x.data) = (IF x.ret < 0 THEN 0 ELSE x.ret)
<1>1. /\ upos' = x.upos /\ dpos' = x.dpos /\ ended' = x.ended /\ hashed' = x.hashed
      /\ mdc_validated' = x.valid /\ iofail' = x.iofail
    BY Zenon DEF Took
<1>2. /\ x.upos \in upos .. total /\ x.dpos \in 0 .. total + MdcSize /\ x.hashed \in Seq(Int)
      /\ x.ret \in -1 .. len /\ x.data \in Seq(Int) /\ Len(x.data) = (IF x.ret < 0 THEN 0 ELSE x.ret)
    BY Zenon DEF Outcome
<1>3. x.upos \in 0 .. total
    <2>1. upos \in Nat /\ total \in Nat
        BY Types
    <2> QED BY <1>2, <2>1
<1> QED BY <1>1, <1>2, <1>3, Zenon DEF Flags

\* One iteration of the loop of src_read: what was read goes behind the data
\* that are there, into the caller's buffer or into the cache.
LEMMA ReadLoopMoves ==
    ASSUME IInv, op = "read", NEW left, left = want - Len(out),
           NEW len, len = IF left > CacheSize \/ ~ra THEN left ELSE CacheSize,
           NEW x \in encrypted_src_read(len), Took(x),
           \/ x.ret < 0 /\ Fails /\ cache' = cache
           \/ Ended(x.ret) /\ ReadReturns(out, <<>>, TRUE)
           \/ /\ x.ret >= 0 /\ ~Ended(x.ret) /\ x.ret < left
              /\ out' = out \o x.data
              /\ op' = op /\ ret' = ret /\ got' = got /\ cache' = cache /\ readb' = readb /\ eof' = eof
           \/ /\ x.ret >= left
              /\ ReadReturns(out \o SubSeq(x.data, 1, left), Rest(x.data, left), FALSE)
    PROVE  /\ cache' \in Seq(Int) /\ out' \in Seq(Int) /\ got' \in Seq(Int)
           /\ Len(cache') \in 0 .. CacheSize /\ Len(out') \in 0 .. CacheSize /\ readb' = Len(got')
           /\ ret' \in -1 .. CacheSize /\ eof' \in BOOLEAN /\ op' \in {"idle", "read"}
           /\ op' # "read" => out' = <<>>
           /\ op' = "read" => cache' = <<>> /\ Len(out') < want /\ readb' = readb /\ ret' = ret
           /\ known => readb' <= size
           /\ (known /\ readb' = size) => eof'
           /\ (ret' >= 0 /\ ret >= 0) => x.ret >= 0 /\ (got' \o out') \o cache' = Stream \o x.data
           /\ op' = "read" => got' = got /\ eof' = eof
           /\ (op' = "idle" /\ ret' >= 0) =>
                 \/ x.ret = 0 /\ Len(got') = Len(got) + Len(out)
                 \/ Len(got') = Len(got) + want /\ (eof' => readb' = size)
<1>5. /\ size \in Nat /\ CacheSize \in Nat /\ got \in Seq(Int) /\ out \in Seq(Int)
      /\ readb = Len(got) /\ Len(got) \in Nat /\ want \in 0 .. CacheSize /\ Len(out) \in 0 .. CacheSize
      /\ ret \in -1 .. CacheSize
    BY Types, Zenon
<1>6. /\ cache = <<>> /\ Len(out) < want /\ (known => readb + want <= size)
      /\ (known => readb <= size) /\ (known /\ readb = size => eof)
    BY Zenon DEF IInv, Calls
<1>7. left \in 1 .. CacheSize /\ len \in Nat /\ len <= CacheSize
    BY <1>5, <1>6
<1>8. Outcome(x, len) /\ Flags(x)
    BY <1>7, ReadOutcome, Zenon
<1>9. /\ upos' \in 0 .. total /\ dpos' \in 0 .. total + MdcSize /\ hashed' \in Seq(Int)
      /\ ended' \in BOOLEAN /\ mdc_validated' \in BOOLEAN /\ iofail' \in BOOLEAN
      /\ upos' = x.upos /\ dpos' = x.dpos /\ ended' = x.ended /\ hashed' = x.hashed
      /\ x.ret \in -1 .. len /\ x.data \in Seq(Int) /\ Len(x.data) = (IF x.ret < 0 THEN 0 ELSE x.ret)
    BY <1>7, <1>8, TookTypes, Zenon
<1>12. PICK s \in Seq(Int) : s = got \o out
    BY <1>5, ConcatFacts, Zenon
<1>13. Stream = s
    <2>1. s \o <<>> = s
        BY NoBytes
    <2> QED BY <1>6, <1>12, <2>1, Zenon DEF Stream
<1>14. PICK d \in Seq(Int) : d = x.data
    BY <1>9, Zenon
<1>21. CASE x.ret < 0 /\ Fails /\ cache' = cache
    <2>1. op' = "idle" /\ out' = <<>> /\ ret' = -1 /\ readb' = readb /\ eof' = eof /\ got' = got
        BY <1>21, Zenon DEF Fails
    <2>2. ~(ret' >= 0) /\ ret' \in -1 .. CacheSize /\ out' \in Seq(Int) /\ Len(out') \in 0 .. CacheSize
        BY <1>5, <2>1
    <2>3. op' \in {"idle", "read"} /\ ~(op' = "read") /\ eof' \in BOOLEAN
        BY <2>1, Booleans, Zenon
    <2>4. cache' \in Seq(Int) /\ Len(cache') \in 0 .. CacheSize
        BY <1>5, <1>6, <1>21
    <2> QED BY <1>5, <1>6, <2>1, <2>2, <2>3, <2>4, Zenon
<1>22. CASE Ended(x.ret) /\ ReadReturns(out, <<>>, TRUE)
    <2>1. /\ op' = "idle" /\ out' = <<>> /\ ret' = Len(out) /\ got' = got \o out /\ cache' = <<>>
          /\ readb' = readb + Len(out) /\ eof' = TRUE /\ x.ret = 0
        BY <1>22, Zenon DEF ReadReturns, Ended
    <2>2. /\ got' \in Seq(Int) /\ Len(got') = Len(got) + Len(out) /\ got' = s
        BY <1>5, <1>12, <2>1, ConcatFacts, Zenon
    <2>3. x.data = <<>>
        BY <1>9, <2>1
    <2>4. (got' \o out') \o cache' = Stream \o x.data
        <3>1. s \o <<>> = s
            BY NoBytes
        <3> QED BY <1>13, <2>1, <2>2, <2>3, <3>1, Zenon
    <2>5. /\ readb' = Len(got') /\ ret' \in -1 .. CacheSize /\ x.ret >= 0
          /\ out' \in Seq(Int) /\ cache' \in Seq(Int)
          /\ Len(cache') \in 0 .. CacheSize /\ Len(out') \in 0 .. CacheSize
        BY <1>5, <2>1, <2>2
    <2>6. known => readb' <= size
        <3>1. known => readb + want <= size
            BY <1>6, Zenon
        <3> QED BY <1>5, <1>6, <2>1, <3>1
    <2>7. op' \in {"idle", "read"} /\ ~(op' = "read") /\ eof' \in BOOLEAN
        BY <2>1, Zenon
    <2> QED BY <2>1, <2>2, <2>4, <2>5, <2>6, <2>7, Zenon
<1>23. CASE /\ x.ret >= 0 /\ ~Ended(x.ret) /\ x.ret < left
            /\ out' = out \o x.data
            /\ op' = op /\ ret' = ret /\ got' = got /\ cache' = cache /\ readb' = readb /\ eof' = eof
    <2>1. out' \in Seq(Int) /\ Len(out') = Len(out) + Len(x.data)
        <3>1. out \o d \in Seq(Int) /\ Len(out \o d) = Len(out) + Len(d)
            BY <1>5, ConcatFacts, Zenon
        <3> QED BY <1>14, <1>23, <3>1, Zenon
    <2>2. Len(out') < want /\ Len(out') \in 0 .. CacheSize
        <3>1. x.ret \in -1 .. len /\ Len(x.data) = (IF x.ret < 0 THEN 0 ELSE x.ret)
            BY <1>9, Zenon
        <3>2. x.ret \in Int /\ Len(x.data) = x.ret /\ x.ret >= 0 /\ x.ret < left
            BY <1>7, <1>23, <3>1
        <3>3. want \in 0 .. CacheSize /\ Len(out) \in 0 .. CacheSize /\ CacheSize \in Nat
            BY <1>5, Zenon
        <3>4. Len(out') = Len(out) + Len(x.data)
            BY <2>1, Zenon
        <3> QED BY <3>2, <3>3, <3>4
    <2>3. (got' \o out') \o cache' = Stream \o x.data
        <3>1. (got \o out) \o x.data = got \o (out \o x.data)
            <4>1. (got \o out) \o d = got \o (out \o d)
                BY <1>5, Assoc, ZenonT(60)
            <4> QED BY <1>14, <4>1, Zenon
        <3>2. PICK o \in Seq(Int) : o = out \o x.data
            BY <1>23, <2>1, Zenon
        <3>3. PICK g \in Seq(Int) : g = got \o o
            BY <1>5, ConcatFacts, Zenon
        <3>4. g \o <<>> = g
            BY NoBytes
        <3> QED BY <1>6, <1>12, <1>13, <1>23, <3>1, <3>2, <3>3, <3>4, Zenon
    <2>4. op' \in {"idle", "read"} /\ eof' \in BOOLEAN /\ op' = "read" /\ ~(op' = "idle")
        <3>1. op' = "read"
            BY <1>23, Zenon
        <3>2. ~(op' = "idle")
            BY <3>1
        <3> QED BY <1>23, <3>1, <3>2, Booleans, Zenon
    <2>5. cache' \in Seq(Int) /\ Len(cache') \in 0 .. CacheSize
        BY <1>5, <1>6, <1>23
    <2> QED BY <1>5, <1>6, <1>23, <2>1, <2>2, <2>3, <2>4, <2>5, Zenon
<1>24. CASE /\ x.ret >= left
            /\ ReadReturns(out \o SubSeq(x.data, 1, left), Rest(x.data, left), FALSE)
    <2>1. PICK a : a = SubSeq(x.data, 1, left)
        OBVIOUS
    <2>2. PICK b : b = SubSeq(x.data, left + 1, Len(x.data))
        OBVIOUS
    <2>3. left \in Nat /\ left <= Len(x.data) /\ x.ret >= 0 /\ Len(x.data) <= CacheSize
        BY <1>5, <1>7, <1>9, <1>24, SMTT(60)
    <2>4. /\ a \in Seq(Int) /\ b \in Seq(Int) /\ Len(a) = left /\ Len(b) = Len(x.data) - left
          /\ (s \o a) \o b = s \o x.data
        <3>1. a = SubSeq(d, 1, left) /\ b = SubSeq(d, left + 1, Len(d)) /\ left <= Len(d)
            BY <1>14, <2>1, <2>2, <2>3, Zenon
        <3>2. /\ SubSeq(d, 1, left) \in Seq(Int) /\ SubSeq(d, left + 1, Len(d)) \in Seq(Int)
              /\ Len(SubSeq(d, 1, left)) = left /\ Len(SubSeq(d, left + 1, Len(d))) = Len(d) - left
              /\ (s \o SubSeq(d, 1, left)) \o SubSeq(d, left + 1, Len(d)) = s \o d
            <4>1. s \in Seq(Int) /\ d \in Seq(Int) /\ left \in Nat /\ left <= Len(d)
                BY <2>3, <3>1, Zenon
            <4> QED BY ONLY <4>1, SplitFacts, Zenon
        <3> QED BY <1>14, <3>1, <3>2, Zenon
    <2>5. PICK o \in Seq(Int) : o = out \o a
        BY <1>5, <2>4, ConcatFacts, Zenon
    <2>6. Len(o) = Len(out) + Len(a)
        BY <1>5, <2>4, <2>5, ConcatFacts, Zenon
    <2>7. Len(o) = want
        BY <1>5, <2>4, <2>6
    <2>8. /\ op' = "idle" /\ out' = <<>> /\ ret' = Len(o) /\ got' = got \o o /\ cache' = b
          /\ readb' = readb + Len(o)
        BY <1>24, <2>1, <2>2, <2>5, Zenon DEF ReadReturns, Rest
    <2>9. eof' = (known /\ readb + Len(o) = size)
        BY <1>24, <2>1, <2>5 DEF ReadReturns
    <2>10. got' \in Seq(Int) /\ Len(got') = Len(got) + Len(o)
        BY <1>5, <2>8, ConcatFacts, Zenon
    <2>11. (got' \o out') \o cache' = Stream \o x.data
        <3>1. (got \o out) \o a = got \o (out \o a)
            <4>1. a \in Seq(Int) /\ got \in Seq(Int) /\ out \in Seq(Int)
                BY <1>5, <2>4, Zenon
            <4> QED BY <4>1, Assoc, ZenonT(60)
        <3>2. got' \o <<>> = got'
            BY <2>10, NoBytes
        <3> QED BY <1>12, <1>13, <2>4, <2>5, <2>8, <3>1, <3>2, Zenon
    <2>12. /\ readb' = Len(got') /\ ret' \in -1 .. CacheSize /\ out' \in Seq(Int)
           /\ Len(cache') \in 0 .. CacheSize /\ Len(out') \in 0 .. CacheSize
        <3>1. Len(cache') = Len(x.data) - left /\ Len(x.data) <= CacheSize /\ left <= Len(x.data)
            BY <2>3, <2>4, <2>8, Zenon
        <3>2. /\ Len(x.data) \in Nat /\ left \in Nat /\ want \in 0 .. CacheSize /\ CacheSize \in Nat
            BY <1>5, <1>9, <2>3
        <3>3. readb' = Len(got')
            BY <1>5, <2>8, <2>10, Zenon
        <3>4. ret' = want /\ out' = <<>>
            BY <2>7, <2>8, Zenon
        <3> QED BY <3>1, <3>2, <3>3, <3>4
    <2>13. known => readb' <= size
        BY <1>6, <2>7, <2>8, Zenon
    <2>14. eof' \in BOOLEAN /\ (known /\ readb' = size => eof') /\ (eof' => readb' = size)
        BY <2>8, <2>9, Zenon
    <2>15. op' \in {"idle", "read"} /\ ~(op' = "read")
        BY <2>8
    <2> QED BY <2>3, <2>4, <2>7, <2>8, <2>10, <2>11, <2>12, <2>13, <2>14, <2>15, Zenon
<1> QED BY <1>21, <1>22, <1>23, <1>24, Zenon

\* One iteration of the loop of src_read.
LEMMA ReadLoopIInv ==
    ASSUME IInv, src_read_loop PROVE IInv'
<1>1. PICK left : left = want - Len(out)
    OBVIOUS
<1>2. PICK len : len = IF left > CacheSize \/ ~ra THEN left ELSE CacheSize
    OBVIOUS
<1>3. PICK x \in encrypted_src_read(len) :
        /\ Took(x)
        /\ \/ x.ret < 0 /\ Fails /\ cache' = cache
           \/ Ended(x.ret) /\ ReadReturns(out, <<>>, TRUE)
           \/ /\ x.ret >= 0 /\ ~Ended(x.ret) /\ x.ret < left
              /\ out' = out \o x.data
              /\ op' = op /\ ret' = ret /\ got' = got /\ cache' = cache /\ readb' = readb /\ eof' = eof
           \/ /\ x.ret >= left
              /\ ReadReturns(out \o SubSeq(x.data, 1, left), Rest(x.data, left), FALSE)
    BY <1>1, <1>2, Zenon DEF src_read_loop, srcVars
<1>4. /\ op = "read" /\ UNCHANGED msgVars /\ want' = want /\ ra' = ra /\ phase' = phase
      /\ failed' = failed /\ retries' = retries /\ result' = result
    BY Zenon DEF src_read_loop
<1>5. /\ size \in Nat /\ CacheSize \in Nat /\ got \in Seq(Int) /\ out \in Seq(Int)
      /\ readb = Len(got) /\ Len(got) \in Nat /\ want \in 0 .. CacheSize /\ Len(out) \in 0 .. CacheSize
      /\ ret \in -1 .. CacheSize
    BY Types, Zenon
<1>6. /\ cache = <<>> /\ Len(out) < want /\ (known => readb + want <= size)
      /\ (known => readb <= size) /\ (known /\ readb = size => eof)
    BY <1>4, Zenon DEF IInv, Calls
<1>7. left \in 1 .. CacheSize /\ len \in Nat /\ len <= CacheSize
    BY <1>1, <1>2, <1>5, <1>6
<1>8. Outcome(x, len) /\ Flags(x)
    BY <1>7, ReadOutcome, Zenon
<1>9. /\ upos' \in 0 .. total /\ dpos' \in 0 .. total + MdcSize /\ hashed' \in Seq(Int)
      /\ ended' \in BOOLEAN /\ mdc_validated' \in BOOLEAN /\ iofail' \in BOOLEAN
      /\ upos' = x.upos /\ dpos' = x.dpos /\ ended' = x.ended /\ hashed' = x.hashed
      /\ x.ret \in -1 .. len /\ x.data \in Seq(Int) /\ Len(x.data) = (IF x.ret < 0 THEN 0 ELSE x.ret)
    BY <1>3, <1>7, <1>8, TookTypes, Zenon
<1>10. (Decoder)' /\ (total <= n + MdcSize /\ has_mdc => Len(hashed) <= n)'
    BY <1>3, <1>4, <1>7, <1>8, DecoderMoves, Zenon
<1>11. known' = known /\ size' = size /\ has_mdc' = has_mdc
    BY <1>4, SameMessage, Zenon
<1>14. /\ cache' \in Seq(Int) /\ out' \in Seq(Int) /\ got' \in Seq(Int)
       /\ Len(cache') \in 0 .. CacheSize /\ Len(out') \in 0 .. CacheSize /\ readb' = Len(got')
       /\ ret' \in -1 .. CacheSize /\ eof' \in BOOLEAN /\ op' \in {"idle", "read"}
       /\ op' # "read" => out' = <<>>
       /\ op' = "read" => cache' = <<>> /\ Len(out') < want /\ readb' = readb /\ ret' = ret
       /\ known => readb' <= size
       /\ (known /\ readb' = size) => eof'
       /\ (ret' >= 0 /\ ret >= 0) => x.ret >= 0 /\ (got' \o out') \o cache' = Stream \o x.data
    BY <1>1, <1>2, <1>3, <1>4, ReadLoopMoves, Zenon
<1>15. (TypeOK)' /\ (BytesOK)'
    <2>1. op' \in {"idle", "read", "peek"}
        BY <1>14
    <2> QED BY <1>4, <1>5, <1>9, <1>14, <2>1, Booleans, TypeStep, Zenon
<1>16. (Calls)'
    <2>1. op' # "peek"
        BY <1>14
    <2> QED BY <1>4, <1>6, <1>11, <1>14, <2>1, Zenon DEF Calls
<1>17. (ret < 0 => failed) /\ (phase # "reading" => failed)
    <2>1. op # "idle"
        BY <1>4
    <2> QED BY <2>1, Zenon DEF IInv, Phases
<1>18. (Phases)'
    <2>1. /\ phase = "reading" => ~failed
          /\ result = "success" => phase = "finished" /\ (has_mdc => mdc_validated)
        BY Zenon DEF IInv, Phases
    <2>2. op' = "idle" \/ (op' = "read" /\ ret' = ret)
        BY <1>14, Zenon
    <2>3. phase # "finished"
        <3>1. op # "idle"
            BY <1>4
        <3> QED BY <3>1, Zenon DEF IInv, Phases
    <2> QED BY <1>4, <1>11, <1>17, <2>1, <2>2, <2>3, Zenon DEF Phases
<1>19. (InPlace)' /\ (ReleasedIsHashed)'
    <2>1. SUFFICES ASSUME ret' >= 0, ~failed' PROVE (InPlace)' /\ (ReleasedIsHashed)'
        BY Zenon DEF InPlace, ReleasedIsHashed, Running
    <2>2. Running
        BY <1>4, <1>5, <1>17, <2>1 DEF Running
    <2>3. ret >= 0
        BY <2>2 DEF Running
    <2>4. PICK t : t = Stream \o x.data
        OBVIOUS
    <2>5. x.ret >= 0 /\ (got' \o out') \o cache' = t
        BY <1>14, <2>1, <2>3, <2>4, Zenon
    <2>6. /\ has_mdc => x.hashed = t
          /\ ~x.ended => Len(t) = x.upos /\ x.dpos = x.upos
          /\ \A i \in DOMAIN t : t[i] \in {i - 1, Garbage}
        BY <1>7, <1>8, <2>2, <2>4, <2>5, StreamGrows, Zenon
    <2> QED BY <1>9, <1>11, <2>5, <2>6, Zenon DEF InPlace, ReleasedIsHashed, Stream, Garbage
<1> QED BY <1>10, <1>15, <1>16, <1>18, <1>19, Zenon DEF IInv

\* One iteration of the loop of src_peek.
LEMMA PeekLoopIInv ==
    ASSUME IInv, src_peek_loop PROVE IInv'
<1>1. PICK len : len = IF ra THEN CacheSize - Len(cache) ELSE want - Len(cache)
    OBVIOUS
<1>2. PICK x \in encrypted_src_read(len) :
        /\ Took(x)
        /\ cache' = cache \o x.data
        /\ \/ x.ret <= 0 /\ op' = "idle" /\ ret' = (IF x.ret = 0 THEN Len(cache) ELSE -1)
           \/ x.ret > 0 /\ Len(cache') >= want /\ op' = "idle" /\ ret' = want
           \/ x.ret > 0 /\ Len(cache') < want /\ op' = op /\ ret' = ret
    BY <1>1, Zenon DEF src_peek_loop
<1>3. /\ op = "peek" /\ UNCHANGED msgVars /\ readb' = readb /\ eof' = eof /\ want' = want /\ ra' = ra
      /\ out' = out /\ got' = got /\ phase' = phase /\ failed' = failed /\ retries' = retries
      /\ result' = result
    BY Zenon DEF src_peek_loop, conVars
<1>4. /\ size \in Nat /\ CacheSize \in Nat /\ got \in Seq(Int) /\ out \in Seq(Int) /\ cache \in Seq(Int)
      /\ readb = Len(got) /\ Len(got) \in Nat /\ want \in 0 .. CacheSize /\ Len(out) \in 0 .. CacheSize
      /\ ret \in -1 .. CacheSize /\ Len(cache) \in 0 .. CacheSize
    BY Types, Zenon
<1>5. /\ out = <<>> /\ Len(cache) < want
      /\ (known => readb <= size) /\ (known /\ readb = size => eof)
    <2>1. op # "read"
        BY <1>3
    <2> QED BY <1>3, <2>1, Zenon DEF IInv, Calls
<1>6. len \in Nat /\ len <= CacheSize - Len(cache)
    BY <1>1, <1>4, <1>5
<1>7. Outcome(x, len) /\ Flags(x)
    BY <1>6, ReadOutcome, Zenon
<1>8. /\ upos' \in 0 .. total /\ dpos' \in 0 .. total + MdcSize /\ hashed' \in Seq(Int)
      /\ ended' \in BOOLEAN /\ mdc_validated' \in BOOLEAN /\ iofail' \in BOOLEAN
      /\ upos' = x.upos /\ dpos' = x.dpos /\ ended' = x.ended /\ hashed' = x.hashed
      /\ x.ret \in -1 .. len /\ x.data \in Seq(Int) /\ Len(x.data) = (IF x.ret < 0 THEN 0 ELSE x.ret)
    BY <1>2, <1>6, <1>7, TookTypes, Zenon
<1>9. (Decoder)' /\ (total <= n + MdcSize /\ has_mdc => Len(hashed) <= n)'
    BY <1>2, <1>3, <1>6, <1>7, DecoderMoves, Zenon
<1>10. known' = known /\ size' = size /\ has_mdc' = has_mdc
    BY <1>3, SameMessage, Zenon
<1>11. PICK d \in Seq(Int) : d = x.data
    BY <1>8, Zenon
<1>12. cache' \in Seq(Int) /\ Len(cache') = Len(cache) + Len(d)
    <2>1. cache \o d \in Seq(Int) /\ Len(cache \o d) = Len(cache) + Len(d)
        BY <1>4, ConcatFacts, Zenon
    <2> QED BY <1>2, <1>11, <2>1, Zenon
<1>13. Len(d) \in 0 .. len /\ Len(cache') \in 0 .. CacheSize
    <2>1. x.ret \in -1 .. len /\ Len(d) = (IF x.ret < 0 THEN 0 ELSE x.ret)
        BY <1>8, <1>11, Zenon
    <2>2. Len(d) \in 0 .. len
        BY <1>6, <2>1
    <2> QED BY <1>4, <1>6, <1>12, <2>2
<1>14. /\ ret' \in -1 .. CacheSize /\ op' \in {"idle", "read", "peek"} /\ op' # "read"
       /\ (op' = "peek" => Len(cache') < want)
       /\ op' = "idle" \/ ret' = ret
       /\ ret' >= 0 => x.ret >= 0
    <2>1. x.ret \in -1 .. len /\ len \in Nat
        BY <1>6, <1>8, Zenon
    <2>2. want \in 0 .. CacheSize /\ ret \in -1 .. CacheSize /\ Len(cache) \in 0 .. CacheSize /\ CacheSize \in Nat
        BY <1>4, Zenon
    <2>3. CASE x.ret <= 0 /\ op' = "idle" /\ ret' = (IF x.ret = 0 THEN Len(cache) ELSE -1)
        BY <2>1, <2>2, <2>3
    <2>4. CASE x.ret > 0 /\ Len(cache') >= want /\ op' = "idle" /\ ret' = want
        BY <2>1, <2>2, <2>4
    <2>5. CASE x.ret > 0 /\ Len(cache') < want /\ op' = op /\ ret' = ret
        <3>1. op' = "peek" /\ op' # "read" /\ op' \in {"idle", "read", "peek"}
            BY <1>3, <2>5
        <3>2. x.ret >= 0
            BY <2>1, <2>5
        <3> QED BY <2>2, <2>5, <3>1, <3>2, Zenon
    <2> QED BY <1>2, <2>3, <2>4, <2>5, Zenon
<1>15. (TypeOK)' /\ (BytesOK)'
    BY <1>3, <1>4, <1>8, <1>12, <1>13, <1>14, Booleans, TypeStep, Zenon
<1>16. (Calls)'
    BY <1>3, <1>5, <1>10, <1>14, Zenon DEF Calls
<1>17. (ret < 0 => failed) /\ (phase # "reading" => failed) /\ phase # "finished"
    <2>1. op # "idle"
        BY <1>3
    <2> QED BY <2>1, Zenon DEF IInv, Phases
<1>18. (Phases)'
    <2>1. /\ phase = "reading" => ~failed
          /\ result = "success" => phase = "finished"
        BY Zenon DEF IInv, Phases
    <2> QED BY <1>3, <1>14, <1>17, <2>1, Zenon DEF Phases
<1>19. (InPlace)' /\ (ReleasedIsHashed)'
    <2>1. SUFFICES ASSUME ret' >= 0, ~failed' PROVE (InPlace)' /\ (ReleasedIsHashed)'
        BY Zenon DEF InPlace, ReleasedIsHashed, Running
    <2>2. Running
        BY <1>3, <1>4, <1>17, <2>1 DEF Running
    <2>3. x.ret >= 0
        BY <1>14, <2>1, Zenon
    <2>4. PICK t : t = Stream \o x.data
        OBVIOUS
    <2>5. (got' \o out') \o cache' = t
        <3>1. ((got \o out) \o cache) \o d = (got \o out) \o (cache \o d)
            <4>1. PICK u \in Seq(Int) : u = got \o out
                BY <1>4, ConcatFacts, Zenon
            <4>2. (u \o cache) \o d = u \o (cache \o d)
                BY <1>4, Assoc, Zenon
            <4> QED BY <4>1, <4>2, Zenon
        <3> QED BY <1>2, <1>3, <1>11, <2>4, <3>1, Zenon DEF Stream
    <2>6. /\ has_mdc => x.hashed = t
          /\ ~x.ended => Len(t) = x.upos /\ x.dpos = x.upos
          /\ \A i \in DOMAIN t : t[i] \in {i - 1, Garbage}
        BY <1>6, <1>7, <2>2, <2>3, <2>4, StreamGrows, Zenon
    <2> QED BY <1>8, <1>10, <2>5, <2>6, Zenon DEF InPlace, ReleasedIsHashed, Stream, Garbage
<1> QED BY <1>9, <1>15, <1>16, <1>18, <1>19, Zenon DEF IInv

\* The consumer reads on while it is not satisfied.
LEMMA ConsumerReadsIInv ==
    ASSUME IInv, ConsumerReads, UNCHANGED retries PROVE IInv'
<1>1. PICK len \in Requests : src_read(len)
    BY Zenon DEF ConsumerReads
<1>2. phase = "reading" /\ ret >= 0 /\ ~eof
    <2>1. phase = "reading" /\ ~(ret < 0) /\ ~eof
        BY Zenon DEF ConsumerReads, Starved, Satisfied
    <2>2. ret \in -1 .. CacheSize /\ CacheSize \in Nat
        BY Types
    <2> QED BY <2>1, <2>2
<1>3. len \in 1 .. CacheSize
    <2>1. /\ CacheSize \in Nat /\ Header \in Nat /\ Header > 0 /\ 2 * Header < CacheSize
          /\ Len(got) \in Nat /\ n \in Nat
        BY Types
    <2>2. CASE InHeader
        <3>1. len = Header - Len(got) /\ Len(got) < Header
            BY <1>1, <2>2 DEF Requests, InHeader
        <3> QED BY <2>1, <3>1
    <2>3. CASE ~InHeader /\ consumer = "literal"
        <3>1. len \in 1 .. Least(CacheSize, Missing)
            BY <1>1, <2>3 DEF Requests
        <3> QED BY <2>1, <3>1 DEF Least, Missing
    <2>4. CASE ~InHeader /\ consumer = "compressed"
        <3>1. len = Chunk
            BY <1>1, <2>4 DEF Requests
        <3> QED BY <2>1, <3>1 DEF Chunk
    <2>5. CASE ~InHeader /\ consumer # "literal" /\ consumer # "compressed"
        <3>1. len = CacheSize
            BY <1>1, <2>5 DEF Requests
        <3> QED BY <2>1, <3>1
    <2> QED BY <2>2, <2>3, <2>4, <2>5
<1>4. retries' \in 0 .. MaxRetry
    BY Booleans, Zenon
<1> QED BY <1>1, <1>2, <1>3, <1>4, ReadIInv, Zenon

\* A signed source looks for signatures after an error.
LEMMA SignedReadsOnIInv ==
    ASSUME IInv, SignedReadsOn PROVE IInv'
<1>1. phase = "stopped" /\ failed /\ retries < MaxRetry /\ retries' = retries + 1 /\ src_read(CacheSize)
    BY Zenon DEF SignedReadsOn
<1>2. CacheSize \in 1 .. CacheSize
    BY Types, SMTT(60)
<1>3. retries' \in 0 .. MaxRetry
    <2>1. retries \in 0 .. MaxRetry /\ MaxRetry \in Nat
        BY Booleans, EncryptedAssumption
    <2> QED BY <1>1, <2>1
<1> QED BY <1>1, <1>2, <1>3, ReadIInv, Zenon

\* The consumer stops, because of an error or with all it wants.
LEMMA ConsumerStopsIInv ==
    ASSUME IInv, ConsumerStops PROVE IInv'
<1>1. /\ op = "idle" /\ phase = "reading" /\ phase' = "stopped" /\ failed' = Starved
      /\ UNCHANGED msgVars /\ UNCHANGED decVars /\ cache' = cache /\ readb' = readb /\ eof' = eof
      /\ op' = op /\ want' = want /\ ra' = ra /\ out' = out /\ ret' = ret
      /\ got' = got /\ retries' = retries /\ result' = result /\ iofail' = iofail
    BY Zenon DEF ConsumerStops, srcVars, callVars
<1>2. /\ (Decoder)' /\ (total <= n + MdcSize /\ has_mdc => Len(hashed) <= n)'
      /\ upos' = upos /\ dpos' = dpos /\ ended' = ended /\ hashed' = hashed /\ mdc_validated' = mdc_validated
    BY <1>1, DecoderStays, Zenon
<1>3. known' = known /\ size' = size /\ has_mdc' = has_mdc
    BY <1>1, SameMessage, Zenon
<1>4. failed' \in BOOLEAN /\ phase' \in {"reading", "stopped", "finished"} /\ readb' = Len(got')
    <2>1. Starved \in BOOLEAN
        BY DEF Starved
    <2> QED BY <1>1, <2>1, Types, Zenon
<1>5. (TypeOK)' /\ (BytesOK)'
    BY <1>1, <1>2, <1>4, Types, Booleans, TypeStep, Zenon
<1>6. (Calls)'
    BY <1>1, <1>3, Zenon DEF IInv, Calls
<1>7. phase' # "reading" /\ phase' # "finished" /\ result # "success"
    BY <1>1 DEF IInv, Phases
<1>8. ret < 0 => failed'
    BY <1>1, Zenon DEF Starved
<1>9. (Phases)'
    BY <1>1, <1>7, <1>8, Zenon DEF Phases
<1>10. ~failed
    BY <1>1, Zenon DEF IInv, Phases
<1>11. (InPlace)' /\ (ReleasedIsHashed)'
    BY <1>1, <1>2, <1>3, <1>10, Zenon DEF IInv, InPlace, ReleasedIsHashed, Running, Stream, Garbage
<1> QED BY <1>2, <1>5, <1>6, <1>9, <1>11, Zenon DEF IInv

\* encrypted_src_finish tells success only if the code was validated.
LEMMA FinishIInv ==
    ASSUME IInv, encrypted_src_finish PROVE IInv'
<1>1. /\ op = "idle" /\ phase = "stopped" /\ phase' = "finished"
      /\ result' = (IF has_mdc /\ ~mdc_validated THEN "bad_state" ELSE "success")
      /\ UNCHANGED msgVars /\ UNCHANGED decVars /\ cache' = cache /\ readb' = readb /\ eof' = eof
      /\ op' = op /\ want' = want /\ ra' = ra /\ out' = out /\ ret' = ret
      /\ got' = got /\ failed' = failed /\ retries' = retries /\ iofail' = iofail
    BY Zenon DEF encrypted_src_finish, srcVars, callVars
<1>2. /\ (Decoder)' /\ (total <= n + MdcSize /\ has_mdc => Len(hashed) <= n)'
      /\ upos' = upos /\ dpos' = dpos /\ ended' = ended /\ hashed' = hashed /\ mdc_validated' = mdc_validated
    BY <1>1, DecoderStays, Zenon
<1>3. known' = known /\ size' = size /\ has_mdc' = has_mdc
    BY <1>1, SameMessage, Zenon
<1>4. /\ phase' \in {"reading", "stopped", "finished"} /\ readb' = Len(got')
      /\ result' \in {"none", "success", "bad_state"}
    BY <1>1, Types, Zenon
<1>5. (TypeOK)' /\ (BytesOK)'
    BY <1>1, <1>2, <1>4, Types, Booleans, TypeStep, Zenon
<1>6. (Calls)'
    BY <1>1, <1>3, Zenon DEF IInv, Calls
<1>7. phase' # "reading" /\ phase # "reading"
    BY <1>1
<1>8. result' = "success" => (has_mdc => mdc_validated)
    <2>1. "bad_state" # "success"
        OBVIOUS
    <2> QED BY <1>1, <2>1, Zenon
<1>9. (Phases)'
    <2>1. ret < 0 /\ ~failed => phase = "reading"
        BY Zenon DEF IInv, Phases
    <2> QED BY <1>1, <1>2, <1>3, <1>7, <1>8, <2>1, Zenon DEF Phases
<1>10. (InPlace)' /\ (ReleasedIsHashed)'
    BY <1>1, <1>2, <1>3, Zenon DEF IInv, InPlace, ReleasedIsHashed, Running, Stream, Garbage
<1> QED BY <1>2, <1>5, <1>6, <1>9, <1>10, Zenon DEF IInv

-----------------------------------------------------------------------------
\* A new source satisfies the invariant.
LEMMA InitIInv == Init => IInv
<1> SUFFICES ASSUME Init PROVE IInv
    OBVIOUS
<1>1. /\ CacheSize \in Nat /\ Header \in Nat /\ Header > 0 /\ MdcSize \in Nat /\ MdcSize > 0
      /\ MaxPlain \in Nat /\ MaxExtra \in Nat /\ MaxRetry \in Nat
    BY EncryptedAssumption
<1>2. /\ n \in Header .. MaxPlain /\ total \in 0 .. n + MdcSize + MaxExtra /\ has_mdc \in BOOLEAN
      /\ known \in BOOLEAN /\ consumer \in {"literal", "compressed", "signed"}
      /\ damaged \in {NoByte} \cup 0 .. total - 1
      /\ upos = 0 /\ dpos = 0 /\ ended = FALSE /\ hashed = <<>> /\ mdc_validated = FALSE
      /\ cache = <<>> /\ readb = 0 /\ eof = FALSE
      /\ op = "idle" /\ want = 0 /\ ra = TRUE /\ out = <<>> /\ ret = 0
      /\ got = <<>> /\ phase = "reading" /\ failed = FALSE /\ retries = 0 /\ result = "none"
      /\ iofail = FALSE
    BY Zenon DEF Init
<1>3. n \in Nat /\ total \in Nat /\ n > 0
    BY <1>1, <1>2
<1>4. TypeOK
    <2>1. {ended, mdc_validated, eof, ra, failed, iofail, known, has_mdc} \subseteq BOOLEAN
        BY <1>2, Zenon
    <2>2. /\ upos \in 0 .. total /\ dpos \in 0 .. total + MdcSize
          /\ Len(cache) \in 0 .. CacheSize /\ Len(out) \in 0 .. CacheSize
          /\ readb = Len(got) /\ want \in 0 .. CacheSize /\ ret \in -1 .. CacheSize
          /\ op \in {"idle", "read", "peek"} /\ phase \in {"reading", "stopped", "finished"}
          /\ retries \in 0 .. MaxRetry /\ result \in {"none", "success", "bad_state"}
        BY <1>1, <1>2, <1>3
    <2> QED BY <1>2, <2>1, <2>2, Zenon DEF TypeOK
<1>5. BytesOK
    BY <1>2 DEF BytesOK
<1>6. Calls /\ Phases
    <2>1. size > 0 /\ size \in Nat
        BY <1>1, <1>3 DEF size
    <2>2. readb <= size /\ readb # size /\ op # "read" /\ op # "peek" /\ phase # "finished"
          /\ result # "success" /\ ~(ret < 0)
        BY <1>2, <2>1
    <2> QED BY <1>2, <2>2, Zenon DEF Calls, Phases
<1>7. Stream = <<>>
    <2>1. <<>> \in Seq(Int)
        OBVIOUS
    <2>2. <<>> \o <<>> = <<>>
        BY <2>1, NoBytes
    <2> QED BY <1>2, <2>2, Zenon DEF Stream
<1>8. Decoder /\ InPlace /\ ReleasedIsHashed
    <2>1. Len(<<>>) = 0 /\ DOMAIN <<>> = {}
        OBVIOUS
    <2>2. dpos <= upos /\ Len(hashed) <= upos /\ Len(Stream) = upos /\ dpos = upos
        BY <1>2, <1>7, <2>1
    <2>3. \A i \in DOMAIN <<>> : FALSE
        BY <2>1
    <2>4. Decoder
        BY <1>2, <2>2, <2>3, Zenon DEF Decoder
    <2>5. InPlace
        BY <1>7, <2>2, <2>3, Zenon DEF InPlace
    <2>6. ReleasedIsHashed
        BY <1>2, <1>7, Zenon DEF ReleasedIsHashed, Stream
    <2> QED BY <2>4, <2>5, <2>6
<1>9. Len(hashed) <= n
    BY <1>2, <1>3
<1> QED BY <1>4, <1>5, <1>6, <1>8, <1>9, Zenon DEF IInv

\* The invariant speaks of nothing but vars.
LEMMA StutterIInv ==
    ASSUME IInv, UNCHANGED vars PROVE IInv'
<1>1. /\ n' = n /\ total' = total /\ damaged' = damaged /\ known' = known /\ has_mdc' = has_mdc
      /\ consumer' = consumer /\ upos' = upos /\ dpos' = dpos /\ ended' = ended /\ hashed' = hashed
      /\ mdc_validated' = mdc_validated /\ cache' = cache /\ readb' = readb /\ eof' = eof
      /\ op' = op /\ want' = want /\ ra' = ra /\ out' = out /\ ret' = ret
      /\ got' = got /\ phase' = phase /\ failed' = failed /\ retries' = retries /\ result' = result
      /\ iofail' = iofail
    BY Zenon DEF vars, msgVars, decVars, srcVars, callVars, conVars
<1>2. (TypeOK)' /\ (BytesOK)'
    BY <1>1, Zenon DEF IInv, TypeOK, BytesOK, NoByte
<1>3. (Calls)' /\ (Phases)'
    BY <1>1, Zenon DEF IInv, Calls, Phases, size
<1>4. (Decoder)'
    BY <1>1, Zenon DEF IInv, Decoder, Intact, NoByte, size, Bytes
<1>5. (InPlace)' /\ (ReleasedIsHashed)'
    BY <1>1, Zenon DEF IInv, InPlace, ReleasedIsHashed, Running, Stream, Garbage
<1> QED BY <1>1, <1>2, <1>3, <1>4, <1>5, Zenon DEF IInv

\* The invariant holds in every state, whatever the consumer asks for, however
\* long the message is and wherever the body's source fails.
THEOREM Invariant == Spec => []IInv
<1>1. ASSUME IInv, [Next]_vars PROVE IInv'
    <2>1. CASE ConsumerPeeks BY <1>1, <2>1, PeekIInv
    <2>2. CASE ConsumerReads /\ UNCHANGED retries BY <1>1, <2>2, ConsumerReadsIInv
    <2>3. CASE src_read_loop BY <1>1, <2>3, ReadLoopIInv
    <2>4. CASE src_peek_loop BY <1>1, <2>4, PeekLoopIInv
    <2>5. CASE ConsumerStops BY <1>1, <2>5, ConsumerStopsIInv
    <2>6. CASE SignedReadsOn BY <1>1, <2>6, SignedReadsOnIInv
    <2>7. CASE encrypted_src_finish BY <1>1, <2>7, FinishIInv
    <2>8. CASE UNCHANGED vars BY <1>1, <2>8, StutterIInv
    <2> QED BY <1>1, <2>1, <2>2, <2>3, <2>4, <2>5, <2>6, <2>7, <2>8, Zenon DEF Next
<1> QED BY InitIInv, <1>1, PTL DEF Spec

\* Every variable keeps its type: positions stay within the body, the cache and
\* the caller's buffer within their size, src->readb counts what was handed out.
THEOREM TypeCorrect == Spec => []TypeOK
<1>1. IInv => TypeOK
    BY Zenon DEF IInv
<1> QED BY Invariant, <1>1, PTL

\* What the decrypting source releases is what the detection code is computed
\* over, in its order and without the code itself, and encrypted_src_finish
\* reports success for an integrity protected message only if it is complete,
\* unaltered, hashed to the last byte and was read without an error in front of
\* its consumer: for messages of every length and requests of every size.
THEOREM ReleaseSound == Spec => []ReleaseIsSound
<1>1. IInv => ReleaseIsSound
    <2> SUFFICES ASSUME IInv PROVE ReleaseIsSound
        OBVIOUS
    <2>0. got \in Seq(Int) /\ out \in Seq(Int) /\ cache \in Seq(Int) /\ Len(got) \in Nat /\ n \in Nat
        BY Types, Zenon
    <2>1. PICK r \in Seq(Int) : r = got \o out
        BY <2>0, ConcatFacts, Zenon
    <2>2. PICK s \in Seq(Int) : s = Stream
        BY <2>0, <2>1, ConcatFacts, Zenon DEF Stream
    <2>3. Len(s) >= Len(got) /\ \A i \in 1 .. Len(got) : i \in DOMAIN s /\ s[i] = got[i]
        <3>1. /\ Len(r) = Len(got) + Len(out)
              /\ \A i \in 1 .. Len(got) + Len(out) : r[i] = IF i <= Len(got) THEN got[i] ELSE out[i - Len(got)]
            BY <2>0, <2>1, ConcatFacts, Zenon
        <3>2. /\ Len(s) = Len(r) + Len(cache)
              /\ \A i \in 1 .. Len(r) + Len(cache) : s[i] = IF i <= Len(r) THEN r[i] ELSE cache[i - Len(r)]
            BY <2>0, <2>1, <2>2, ConcatFacts, Zenon DEF Stream
        <3>3. Len(out) \in Nat /\ Len(cache) \in Nat /\ DOMAIN s = 1 .. Len(s)
            BY <2>0
        <3>4. Len(s) >= Len(got)
            BY <2>0, <3>1, <3>2, <3>3
        <3>5. ASSUME NEW i \in 1 .. Len(got) PROVE i \in DOMAIN s /\ s[i] = got[i]
            <4>1. /\ i \in DOMAIN s /\ i <= Len(got) /\ i <= Len(r)
                  /\ i \in 1 .. Len(got) + Len(out) /\ i \in 1 .. Len(r) + Len(cache)
                <5>1. Len(r) = Len(got) + Len(out) /\ Len(s) = Len(r) + Len(cache)
                    BY <3>1, <3>2, Zenon
                <5>2. Len(got) \in Nat /\ Len(out) \in Nat /\ Len(cache) \in Nat
                    BY <2>0, <3>3, Zenon
                <5>3. PICK g \in Nat : g = Len(got)
                    BY <5>2, Zenon
                <5>4. PICK o \in Nat : o = Len(out)
                    BY <5>2, Zenon
                <5>5. PICK c \in Nat : c = Len(cache)
                    BY <5>2, Zenon
                <5>6. i \in 1 .. g /\ Len(r) = g + o /\ Len(s) = g + o + c
                    BY <3>5, <5>1, <5>3, <5>4, <5>5, Zenon
                <5>7. i <= g /\ i <= g + o /\ i \in 1 .. g + o /\ i \in 1 .. g + o + c
                    BY <5>6
                <5> QED BY <3>3, <5>1, <5>3, <5>4, <5>5, <5>6, <5>7, Zenon
            <4> QED BY <3>1, <3>2, <4>1, Zenon
        <3> QED BY <3>4, <3>5, Zenon
    <2>4. OnlyPlaintext
        <3>1. ASSUME Running, NEW i \in 1 .. Len(got) PROVE got[i] \in {i - 1, Garbage}
            BY <2>2, <2>3, <3>1, Zenon DEF IInv, InPlace
        <3> QED BY <3>1, Zenon DEF OnlyPlaintext, IInv
    <2>5. FinishIsSound
        <3> SUFFICES ASSUME result = "success", has_mdc
                     PROVE  Intact /\ hashed = Bytes(0, n) /\ (~failed => got = Bytes(0, Len(got)))
            BY Zenon DEF FinishIsSound
        <3>1. Intact /\ hashed = Bytes(0, n) /\ phase = "finished"
            BY Zenon DEF IInv, Phases, Decoder
        <3>2. ASSUME ~failed PROVE got = Bytes(0, Len(got))
            <4>1. ret >= 0
                <5>1. phase # "reading"
                    BY <3>1
                <5>2. ~(ret < 0)
                    BY <3>2, <5>1, Zenon DEF IInv, Phases
                <5>3. ret \in -1 .. CacheSize /\ CacheSize \in Nat
                    BY Types
                <5> QED BY <5>2, <5>3
            <4>2. s = Bytes(0, n)
                BY <2>2, <3>1, <3>2, <4>1, Zenon DEF IInv, ReleasedIsHashed, Running, Stream
            <4>3. /\ Len(Bytes(0, n)) = n - 0 /\ \A i \in 1 .. n - 0 : Bytes(0, n)[i] = 0 + i - 1
                <5>1. 0 \in Int /\ n \in Int /\ 0 <= n
                    BY <2>0
                <5> QED BY <5>1, BytesFacts, Zenon
            <4>4. PICK m \in Int : m = Len(got)
                BY <2>0
            <4>5. /\ Bytes(0, m) \in Seq(Int) /\ Len(Bytes(0, m)) = m - 0
                  /\ \A i \in 1 .. m - 0 : Bytes(0, m)[i] = 0 + i - 1
                <5>1. 0 \in Int /\ 0 <= m
                    BY <2>0, <4>4
                <5> QED BY <5>1, BytesFacts, Zenon
            <4>6. PICK b \in Seq(Int) : b = Bytes(0, m)
                BY <4>5, Zenon
            <4>7. Len(b) = m /\ \A i \in 1 .. m : b[i] = i - 1
                BY <4>5, <4>6
            <4>8. n >= m /\ \A i \in 1 .. m : s[i] = i - 1
                BY <2>0, <2>3, <4>2, <4>3, <4>4
            <4>9. \A i \in 1 .. m : got[i] = b[i]
                BY <2>3, <4>4, <4>7, <4>8
            <4>10. got = b
                <5>1. Len(got) = Len(b) /\ \A i \in 1 .. Len(got) : got[i] = b[i]
                    BY <4>4, <4>7, <4>9, Zenon
                <5> QED BY <2>0, <5>1, SameBytes, Zenon
            <4> QED BY <4>4, <4>6, <4>10, Zenon
        <3> QED BY <3>1, <3>2, Zenon
    <2> QED BY <2>4, <2>5, Zenon DEF ReleaseIsSound, IInv
<1> QED BY Invariant, <1>1, PTL

-----------------------------------------------------------------------------
(***************************************************************************)
(* MostAccepted.  The invariant is Smooth, on top of IInv: as long as the  *)
(* message is Readable, every read finds the code whole.  ReadAnswers says *)
(* what encrypted_src_read comes back with then; WholeAfter is the heart   *)
(* of it, reads end at multiples of the size of the cache (Aligned), so    *)
(* that one which ends within the code gives the body a length that is     *)
(* Unlucky for all but a literal source, and that source asks for no more  *)
(* than the plaintext (Asked).  SatisfiedIsComplete: a consumer that stops *)
(* at the last byte of the plaintext has had the code checked, a literal   *)
(* one because of the length again, a compressed one because a header and  *)
(* whole chunks never add up to a full cache (NotAligned).                 *)
(***************************************************************************)
\* Division with remainder.
LEMMA Division ==
    ASSUME NEW a \in Nat, NEW c \in Nat \ {0}
    PROVE  a = c * (a \div c) + (a % c) /\ a % c \in 0 .. c - 1 /\ a \div c \in Nat
    OBVIOUS

LEMMA Multiples ==
    ASSUME NEW c \in Nat \ {0}, NEW j \in Int, NEW k \in Int, j < k
    PROVE  c * j + c <= c * k
<1>1. c * k = c * j + c * (k - j)
    OBVIOUS
<1>2. k - j >= 1
    OBVIOUS
<1>3. \A m \in Nat : m >= 1 => c * m >= c
    OBVIOUS
<1> QED BY <1>1, <1>2, <1>3

LEMMA Remainder ==
    ASSUME NEW c \in Nat \ {0}, NEW q \in Nat, NEW r \in 0 .. c - 1
    PROVE  (c * q + r) % c = r
<1>1. PICK a \in Nat : a = c * q + r
    OBVIOUS
<1>2. PICK d \in Nat : d = a \div c
    BY Division
<1>3. PICK m \in 0 .. c - 1 : m = a % c
    BY Division
<1>4. c * q + r = c * d + m
    BY <1>1, <1>2, <1>3, Division
<1>5. ~(d < q) /\ ~(q < d)
    BY <1>4, Multiples
<1>6. d = q
    BY <1>5
<1> QED BY <1>1, <1>3, <1>4, <1>6

\* The sizes: a chunk is half of the cache, and longer than the header.
LEMMA Sizes ==
    /\ CacheSize \in Nat \ {0} /\ MdcSize \in Nat \ {0} /\ Header \in Nat \ {0} /\ Chunk \in Nat \ {0}
    /\ CacheSize = 2 * Chunk /\ Header < Chunk /\ 2 * MdcSize < CacheSize
<1>1. /\ CacheSize \in Nat \ {0} /\ MdcSize \in Nat \ {0} /\ Header \in Nat \ {0}
      /\ CacheSize % 2 = 0 /\ 2 * Header < CacheSize /\ 2 * MdcSize < CacheSize
    BY EncryptedAssumption
<1>2. CacheSize = 2 * (CacheSize \div 2) /\ CacheSize \div 2 \in Nat
    BY <1>1
<1> QED BY <1>1, <1>2 DEF Chunk

\* The bytes that left the cipher are the ones handed out, the ones in the
\* caller's buffer and the ones in the cache.
LEMMA StreamLength ==
    ASSUME IInv
    PROVE  /\ Stream \in Seq(Int) /\ Len(Stream) \in Nat
           /\ Len(Stream) = Len(got) + Len(out) + Len(cache)
<1>1. got \in Seq(Int) /\ out \in Seq(Int) /\ cache \in Seq(Int)
    BY Types, Zenon
<1>2. (got \o out) \o cache \in Seq(Int) /\ Len((got \o out) \o cache) = Len(got) + Len(out) + Len(cache)
    <2>1. got \o out \in Seq(Int) /\ Len(got \o out) = Len(got) + Len(out)
        BY <1>1, ConcatFacts, Zenon
    <2>2. PICK r \in Seq(Int) : r = got \o out
        BY <2>1
    <2>3. r \o cache \in Seq(Int) /\ Len(r \o cache) = Len(r) + Len(cache)
        BY <1>1, ConcatFacts, Zenon
    <2> QED BY <2>1, <2>2, <2>3, Zenon
<1>3. Stream \in Seq(Int) /\ Len(Stream) = Len(got) + Len(out) + Len(cache)
    BY <1>2, Zenon DEF Stream
<1> QED BY <1>3

\* How far an unaltered message was read.
LEMMA Reached ==
    ASSUME IInv, Intact, Running, CodeIsWhole
    PROVE  /\ n \in Nat /\ total \in Nat /\ upos \in 0 .. total /\ size = total
           /\ total = (IF has_mdc THEN n + MdcSize ELSE n)
           /\ ~ended => Len(Stream) = upos /\ dpos = upos
           /\ Len(Stream) <= n /\ (ended => has_mdc /\ Len(Stream) = n)
<1>1. n \in Nat /\ total \in Nat /\ upos \in 0 .. total
    BY Types, Booleans, Zenon
<1>2. size = total /\ total = (IF has_mdc THEN n + MdcSize ELSE n)
    BY <1>1, Sizes DEF Intact, size
<1>3. ~ended => Len(Stream) = upos /\ dpos = upos
    BY Zenon DEF IInv, InPlace
<1>4. ended => has_mdc /\ Len(Stream) = n
    BY Zenon DEF IInv, Decoder, CodeIsWhole
<1>5. ~ended => (has_mdc => upos + MdcSize <= total)
    BY Zenon DEF CodeIsWhole
<1>6. Len(Stream) <= n
    <2>1. CASE ended
        BY <1>1, <1>4, <2>1
    <2>2. CASE ~ended
        <3>1. upos <= n
            BY <1>1, <1>2, <1>5, <2>2, Sizes
        <3> QED BY <1>3, <2>2, <3>1, Zenon
    <2> QED BY <2>1, <2>2
<1> QED BY <1>1, <1>2, <1>3, <1>4, <1>6, Zenon

\* Nothing is decrypted that comes out as garbage if nothing was altered and
\* the cipher is in step.
LEMMA DecryptsAll ==
    ASSUME NEW a \in Int, NEW b \in Int, a <= b, damaged = NoByte, 0 <= a
    PROVE  Decrypt(Bytes(a, b), a) = Bytes(a, b)
<1> DEFINE s == Bytes(a, b)
<1>1. s \in Seq(Int) /\ DOMAIN s = 1 .. b - a /\ \A i \in 1 .. b - a : s[i] = a + i - 1
    BY BytesFacts
<1> HIDE DEF s
<1>2. \A i \in 1 .. b - a : s[i] = a + i - 1 /\ s[i] # damaged
    BY <1>1 DEF NoByte
<1>3. Decrypt(s, a) = [i \in 1 .. b - a |-> s[i]]
    BY <1>1, <1>2 DEF Decrypt
<1>4. s = [i \in 1 .. b - a |-> s[i]]
    BY <1>1
<1> QED BY <1>3, <1>4 DEF s

\* The bytes from offset a to offset b and the ones from b to c.
LEMMA BytesJoin ==
    ASSUME NEW b \in Nat, NEW c \in Nat, b <= c
    PROVE  Bytes(0, b) \o Bytes(b, c) = Bytes(0, c)
<1>1. /\ Bytes(0, b) \in Seq(Int) /\ Len(Bytes(0, b)) = b /\ \A i \in 1 .. b : Bytes(0, b)[i] = i - 1
      /\ Bytes(b, c) \in Seq(Int) /\ Len(Bytes(b, c)) = c - b /\ \A i \in 1 .. c - b : Bytes(b, c)[i] = b + i - 1
      /\ Bytes(0, c) \in Seq(Int) /\ Len(Bytes(0, c)) = c /\ \A i \in 1 .. c : Bytes(0, c)[i] = i - 1
    BY BytesFacts
<1>2. PICK s \in Seq(Int) : s = Bytes(0, b)
    BY <1>1
<1>3. PICK t \in Seq(Int) : t = Bytes(b, c)
    BY <1>1
<1>4. PICK u \in Seq(Int) : u = Bytes(0, c)
    BY <1>1
<1>5. /\ Len(s) = b /\ Len(t) = c - b /\ Len(u) = c
      /\ \A i \in 1 .. b : s[i] = i - 1
      /\ \A i \in 1 .. c - b : t[i] = b + i - 1
      /\ \A i \in 1 .. c : u[i] = i - 1
    BY <1>1, <1>2, <1>3, <1>4, Zenon
<1>6. /\ s \o t \in Seq(Int) /\ Len(s \o t) = c
      /\ \A i \in 1 .. c : (s \o t)[i] = IF i <= b THEN s[i] ELSE t[i - b]
    <2>1. /\ s \o t \in Seq(Int) /\ Len(s \o t) = Len(s) + Len(t)
          /\ \A i \in 1 .. Len(s) + Len(t) : (s \o t)[i] = IF i <= Len(s) THEN s[i] ELSE t[i - Len(s)]
        BY ConcatFacts, Zenon
    <2>2. Len(s) + Len(t) = c
        BY <1>5
    <2> QED BY <1>5, <2>1, <2>2, Zenon
<1>7. ASSUME NEW i \in 1 .. c PROVE (s \o t)[i] = u[i]
    <2>1. CASE i <= b
        <3>1. i \in 1 .. b
            BY <2>1
        <3> QED BY <1>5, <1>6, <2>1, <3>1, Zenon
    <2>2. CASE ~(i <= b)
        <3>1. i - b \in 1 .. c - b /\ b + (i - b) - 1 = i - 1
            BY <2>2
        <3>2. (s \o t)[i] = t[i - b] /\ t[i - b] = b + (i - b) - 1 /\ u[i] = i - 1
            BY <1>5, <1>6, <2>2, <3>1, Zenon
        <3> QED BY <3>1, <3>2, Zenon
    <2> QED BY <2>1, <2>2
<1>8. s \o t = u
    BY <1>5, <1>6, <1>7, SameBytes
<1> QED BY <1>2, <1>3, <1>4, <1>8, Zenon

\* What encrypted_src_read comes back with for an unaltered message: it is at
\* the end of the body; the code is still ahead of what was read; or the code
\* was reached and is right.
Answered(x, len) ==
    /\ \A i \in 1 .. Len(x.data) : x.data[i] = upos + i - 1
    /\ \/ /\ upos = total /\ x.ret = 0 /\ x.upos = upos /\ x.ended = ended /\ x.valid = mdc_validated
          /\ has_mdc => ended
       \/ /\ ~ended /\ ~x.ended /\ x.ret > 0 /\ x.upos = upos + x.ret
          /\ x.ret = len \/ x.upos = total
          /\ has_mdc => x.upos + MdcSize <= total
       \/ /\ ~ended /\ has_mdc /\ x.ended /\ x.valid /\ x.ret = n - upos /\ x.ret >= 0
          /\ x.upos = total \/ x.upos = upos + len

LEMMA ReadAnswers ==
    ASSUME IInv, Intact, Running, InOrder, CodeIsWhole, ended => upos = total,
           NEW len \in Nat, len > 0, NEW x \in encrypted_src_read(len), ~x.iofail
    PROVE  Answered(x, len)
<1> DEFINE read   == Least(len, total - upos)
           after  == upos + read
           peeked == Least(MdcSize, total - after)
           sub    == MdcSub(peeked)
           all    == Decrypt(Bytes(upos, after), dpos)
           plain  == Decrypt(Bytes(upos, after - sub), dpos)
           code   == Decrypt(Bytes(after - sub, after + peeked), dpos + Len(plain))
           valid  == MdcMatches(code, hashed \o plain)
           fail   == [ret |-> -1, data |-> <<>>, upos |-> upos, dpos |-> dpos, ended |-> ended,
                      hashed |-> hashed, valid |-> mdc_validated, iofail |-> TRUE]
           lost   == [fail EXCEPT !.upos = after]
           none   == [fail EXCEPT !.ret = 0, !.iofail = iofail]
           some   == [lost EXCEPT !.ret = read, !.data = all, !.dpos = dpos + read, !.iofail = iofail,
                                  !.hashed = IF has_mdc THEN hashed \o all ELSE hashed]
           short  == [lost EXCEPT !.iofail = iofail]
           last   == [ret    |-> IF valid THEN Len(plain) ELSE -1,
                      data   |-> IF valid THEN plain ELSE <<>>,
                      upos   |-> after, dpos |-> dpos + Len(plain) + MdcSize, ended |-> TRUE,
                      hashed |-> hashed \o plain, valid |-> mdc_validated \/ valid, iofail |-> iofail]
           answer == IF read = 0 THEN none
                     ELSE IF ~has_mdc \/ ~CodeReached(peeked) THEN some
                     ELSE IF NoRoom(peeked, read) THEN short
                     ELSE last
<1>1. x = answer
    <2>1. x \in {fail, lost, answer}
        BY Zenon DEF encrypted_src_read
    <2>2. fail.iofail /\ lost.iofail
        OBVIOUS
    <2> QED BY <2>1, <2>2, Zenon
<1>2. /\ n \in Nat /\ total \in Nat /\ upos \in 0 .. total /\ MdcSize \in Nat \ {0}
      /\ total = (IF has_mdc THEN n + MdcSize ELSE n) /\ damaged = NoByte
      /\ ~ended => Len(Stream) = upos /\ dpos = upos /\ (has_mdc => upos + MdcSize <= total)
    <2>1. damaged = NoByte
        BY DEF Intact
    <2>2. ~ended => (has_mdc => upos + MdcSize <= total)
        BY Zenon DEF CodeIsWhole
    <2> QED BY <2>1, <2>2, Reached, Sizes, Zenon
<1>3. /\ read \in 0 .. len /\ after \in upos .. total /\ after - upos = read
      /\ peeked \in 0 .. MdcSize /\ after + peeked <= total
      /\ peeked < MdcSize => after + peeked = total
      /\ read + peeked <= total - upos
    BY BeforeFacts, Positions
<1>4. (read = 0 => upos = total) /\ (read = len \/ after = total)
    BY <1>2 DEF Least
<1> HIDE DEF read, peeked, all, plain, code, valid
<1>5. CASE read = 0
    <2>1. x.ret = 0 /\ x.data = <<>> /\ x.upos = upos /\ x.ended = ended /\ x.valid = mdc_validated
        BY <1>1, <1>5
    <2>2. has_mdc => ended
        BY <1>2, <1>4, <1>5
    <2>3. \A i \in 1 .. Len(x.data) : x.data[i] = upos + i - 1
        BY <2>1
    <2> QED BY <1>4, <1>5, <2>1, <2>2, <2>3, Zenon DEF Answered
<1>6. ASSUME read # 0 PROVE ~ended /\ dpos = upos /\ Len(Stream) = upos /\ read > 0
    <2>1. upos # total
        BY <1>2, <1>3, <1>6
    <2> QED BY <1>2, <1>3, <1>6, <2>1
<1>7. CASE read # 0 /\ (~has_mdc \/ ~CodeReached(peeked))
    <2>1. x = some
        BY <1>1, <1>7, Zenon
    <2>2. x.ret = read /\ x.data = all /\ x.upos = after /\ x.ended = ended
        BY <2>1
    <2>3. all = Bytes(upos, after)
        <3>1. PICK a \in Int : a = upos
            BY <1>2
        <3>2. PICK b \in Int : b = after
            BY <1>2, <1>3
        <3>3. a <= b /\ 0 <= a
            BY <1>2, <1>3, <3>1, <3>2
        <3>4. Decrypt(Bytes(a, b), a) = Bytes(a, b)
            BY <1>2, <3>3, DecryptsAll, Zenon
        <3> QED BY <1>6, <1>7, <3>1, <3>2, <3>4, Zenon DEF all
    <2>4. \A i \in 1 .. Len(x.data) : x.data[i] = upos + i - 1
        <3>1. upos \in Int /\ after \in Int /\ upos <= after
            BY <1>2, <1>3
        <3>2. PICK a \in Int : a = upos
            BY <3>1
        <3>3. PICK b \in Int : b = after
            BY <3>1
        <3>4. Len(Bytes(a, b)) = b - a /\ \A i \in 1 .. b - a : Bytes(a, b)[i] = a + i - 1
            BY <3>1, <3>2, <3>3, BytesFacts, Zenon
        <3>5. x.data = Bytes(a, b)
            BY <2>2, <2>3, <3>2, <3>3, Zenon
        <3> QED BY <3>2, <3>4, <3>5, Zenon
    <2>5. has_mdc => after + MdcSize <= total
        BY <1>2, <1>3, <1>7 DEF CodeReached
    <2>6. ~ended /\ ~x.ended /\ x.ret > 0 /\ x.upos = upos + x.ret
        BY <1>6, <1>7, <2>2
    <2> QED BY <1>4, <2>2, <2>4, <2>5, <2>6, Zenon DEF Answered
<1>8. CASE read # 0 /\ has_mdc /\ CodeReached(peeked)
    <2>1. after + peeked = total /\ ~NoRoom(peeked, read)
        <3>1. ~ended /\ has_mdc /\ peeked < MdcSize
            BY <1>6, <1>8 DEF CodeReached
        <3>2. after + peeked = total /\ upos + MdcSize <= total
            BY <1>2, <1>3, <3>1, Zenon
        <3> QED BY <1>2, <1>3, <3>2 DEF NoRoom
    <2>2. x = last
        BY <1>1, <1>8, <2>1, Zenon
    <2>3. /\ x.ret = (IF valid THEN Len(plain) ELSE -1) /\ x.data = (IF valid THEN plain ELSE <<>>)
          /\ x.upos = after
        BY <2>2, Zenon
    <2>4. x.ended = TRUE /\ x.valid = (mdc_validated \/ valid)
        BY <2>2, Zenon
    <2>5. after - sub = n /\ total = n + MdcSize /\ upos <= n /\ upos \in Nat
        BY <1>2, <1>3, <1>6, <1>8, <2>1 DEF MdcSub
    <2>6. plain = Bytes(upos, n) /\ Len(plain) = n - upos /\ (\A i \in 1 .. n - upos : plain[i] = upos + i - 1)
        <3>1. PICK a \in Int : a = upos
            BY <2>5
        <3>2. PICK b \in Int : b = n
            BY <1>2
        <3>3. a <= b /\ 0 <= a
            BY <2>5, <3>1, <3>2
        <3>4. Decrypt(Bytes(a, b), a) = Bytes(a, b)
            BY <1>2, <3>3, DecryptsAll, Zenon
        <3>5. Len(Bytes(a, b)) = b - a /\ \A i \in 1 .. b - a : Bytes(a, b)[i] = a + i - 1
            BY <3>3, BytesFacts, Zenon
        <3>6. plain = Bytes(a, b)
            BY <1>6, <1>8, <2>5, <3>1, <3>2, <3>4, Zenon DEF plain
        <3> QED BY <3>1, <3>2, <3>5, <3>6, Zenon
    <2>7. code = Bytes(n, n + MdcSize)
        <3>1. PICK a \in Int : a = n
            BY <1>2
        <3>2. PICK b \in Int : b = n + MdcSize
            BY <1>2
        <3>3. a <= b /\ 0 <= a
            BY <1>2, <3>1, <3>2
        <3>4. Decrypt(Bytes(a, b), a) = Bytes(a, b)
            BY <1>2, <3>3, DecryptsAll, Zenon
        <3>5. dpos + Len(plain) = n
            BY <1>2, <1>6, <1>8, <2>5, <2>6
        <3> QED BY <2>1, <2>5, <3>1, <3>2, <3>4, <3>5, Zenon DEF code
    <2>8. hashed \o plain = Bytes(0, n)
        <3>1. hashed = Bytes(0, upos)
            <4>1. hashed = Stream
                BY <1>8, Zenon DEF IInv, ReleasedIsHashed, Stream
            <4>2. PICK s \in Seq(Int) : s = Stream
                BY StreamLength
            <4>3. Len(s) = upos /\ \A i \in 1 .. Len(s) : s[i] = i - 1
                BY <1>6, <1>8, <4>2 DEF InOrder
            <4>4. PICK b \in Nat : b = upos
                BY <2>5
            <4>5. PICK t \in Seq(Int) : t = Bytes(0, b)
                <5>1. 0 \in Int /\ b \in Int /\ 0 <= b
                    BY <4>4
                <5> QED BY <5>1, BytesFacts, Zenon
            <4>6. Len(t) = b /\ \A i \in 1 .. b : t[i] = i - 1
                <5>1. 0 \in Int /\ b \in Int /\ 0 <= b
                    BY <4>4
                <5>2. Len(Bytes(0, b)) = b - 0 /\ \A i \in 1 .. b - 0 : Bytes(0, b)[i] = 0 + i - 1
                    BY <5>1, BytesFacts, Zenon
                <5> QED BY <4>5, <5>2
            <4>7. Len(s) = Len(t) /\ \A i \in 1 .. Len(s) : s[i] = t[i]
                BY <4>3, <4>4, <4>6
            <4>8. s = t
                BY <4>7, SameBytes, Zenon
            <4> QED BY <4>1, <4>2, <4>4, <4>5, <4>8, Zenon
        <3>2. Bytes(0, upos) \o Bytes(upos, n) = Bytes(0, n)
            BY <1>2, <2>5, BytesJoin, Zenon
        <3> QED BY <2>6, <3>1, <3>2, Zenon
    <2>9. valid
        BY <2>7, <2>8, Zenon DEF valid, MdcMatches
    <2>10. /\ x.ret = n - upos /\ x.ret >= 0 /\ x.upos = after /\ x.ended /\ x.valid
           /\ \A i \in 1 .. Len(x.data) : x.data[i] = upos + i - 1
        <3>1. x.ret = Len(plain) /\ x.data = plain /\ x.upos = after /\ x.ended /\ x.valid
            BY <2>3, <2>4, <2>9, Zenon
        <3>2. n - upos >= 0
            BY <1>2, <2>5
        <3> QED BY <2>6, <3>1, <3>2, Zenon
    <2> QED BY <1>4, <1>6, <1>8, <2>10, Zenon DEF Answered
<1> QED BY <1>5, <1>7, <1>8, Zenon

\* What was read of an unaltered message continues what there is.
LEMMA OrderGrows ==
    ASSUME IInv, Intact, Running, InOrder, CodeIsWhole, NEW len \in Nat, NEW x, Outcome(x, len),
           Answered(x, len), NEW s, s = Stream \o x.data
    PROVE  /\ s \in Seq(Int) /\ Len(s) = Len(Stream) + x.ret /\ x.ret \in 0 .. len
           /\ \A i \in DOMAIN s : s[i] = i - 1
<1>1. PICK a \in Seq(Int) : a = Stream
    BY StreamLength
<1>2. PICK d \in Seq(Int) : d = x.data
    BY Zenon DEF Outcome
<1>3. /\ s \in Seq(Int) /\ Len(s) = Len(a) + Len(d)
      /\ \A i \in 1 .. Len(a) + Len(d) : s[i] = IF i <= Len(a) THEN a[i] ELSE d[i - Len(a)]
    BY <1>1, <1>2, ConcatFacts, Zenon
<1>4. x.ret \in 0 .. len /\ Len(d) = x.ret
    <2>1. x.ret \in -1 .. len /\ Len(d) = IF x.ret < 0 THEN 0 ELSE x.ret
        BY <1>2, Zenon DEF Outcome
    <2>2. x.ret = 0 \/ x.ret > 0 \/ x.ret >= 0
        BY Zenon DEF Answered
    <2> QED BY <2>1, <2>2
<1>5. /\ \A i \in 1 .. Len(d) : d[i] = upos + i - 1
      /\ \A i \in DOMAIN a : a[i] = i - 1
    BY <1>1, <1>2, Zenon DEF Answered, InOrder
<1>6. ASSUME NEW i \in DOMAIN s PROVE s[i] = i - 1
    <2>1. i \in 1 .. Len(a) + Len(d) /\ Len(a) \in Nat /\ Len(d) \in Nat
        BY <1>3, <1>6
    <2>2. CASE i <= Len(a)
        <3>1. s[i] = a[i]
            BY <1>3, <2>1, <2>2, Zenon
        <3>2. i \in DOMAIN a
            BY <2>1, <2>2
        <3> QED BY <1>5, <3>1, <3>2, Zenon
    <2>3. CASE ~(i <= Len(a))
        <3>1. s[i] = d[i - Len(a)]
            BY <1>3, <2>1, <2>3, Zenon
        <3>2. i - Len(a) \in 1 .. Len(d) /\ x.ret > 0
            BY <1>4, <2>1, <2>3
        <3>3. ~ended
            BY <3>2, Zenon DEF Outcome
        <3>4. Len(a) = upos /\ upos \in Nat
            BY <1>1, <3>3, Reached
        <3>5. d[i - Len(a)] = upos + (i - Len(a)) - 1
            BY <1>5, <3>2, Zenon
        <3>6. upos + (i - Len(a)) - 1 = i - 1
            BY <2>1, <3>4
        <3> QED BY <3>1, <3>5, <3>6, Zenon
    <2> QED BY <2>2, <2>3
<1> QED BY <1>1, <1>3, <1>4, <1>6, Zenon

\* The next multiple of the size of the cache.
LEMMA NextAligned ==
    ASSUME total \in Nat, NEW q \in Nat, CacheSize * q + CacheSize <= total
    PROVE  Aligned(CacheSize * q + CacheSize)
<1>1. \A c \in Nat \ {0}, k \in Nat : c * k + c = c * (k + 1) /\ k + 1 <= c * (k + 1)
    OBVIOUS
<1>2. PICK p \in Nat : p = q + 1
    OBVIOUS
<1>3. CacheSize * q + CacheSize = CacheSize * p /\ p <= CacheSize * p
    BY <1>1, <1>2, Sizes
<1>4. p \in 0 .. total
    <2>1. CacheSize * q + CacheSize \in Nat
        BY Sizes
    <2> QED BY <1>3, <2>1
<1> QED BY <1>3, <1>4, Zenon DEF Aligned

\* The remainder of a body whose code begins within a full cache.
LEMMA WithinCode ==
    ASSUME total \in Nat, NEW q \in Nat, NEW r \in 0 .. MdcSize, total = CacheSize * q + r
    PROVE  total % CacheSize = r
<1>1. r \in 0 .. CacheSize - 1 /\ CacheSize \in Nat \ {0}
    BY Sizes
<1>2. (CacheSize * q + r) % CacheSize = r
    BY <1>1, Remainder, Zenon
<1> QED BY <1>2

\* After a read of an unaltered message all of the code is still ahead, or it
\* was right; bytes of it are left only for a literal source.
LEMMA WholeAfter ==
    ASSUME IInv, Intact, ~Unlucky, Running, CodeIsWhole, NEW len \in Nat, len > 0, NEW x,
           Outcome(x, len), Answered(x, len),
           ~ended => upos = total \/ len = CacheSize \/ len = total - upos
    PROVE  /\ ~x.ended => Aligned(x.upos) /\ (has_mdc => x.upos + MdcSize <= total)
           /\ x.ended => /\ x.valid /\ Len(Stream) + x.ret = n
                         /\ x.upos = total \/ (consumer = "literal" /\ CacheSize <= x.upos)
<1>1. /\ n \in Nat /\ total \in Nat /\ upos \in 0 .. total /\ MdcSize \in Nat \ {0} /\ CacheSize \in Nat \ {0}
      /\ total = (IF has_mdc THEN n + MdcSize ELSE n)
      /\ ~ended => Len(Stream) = upos
      /\ Len(Stream) \in Nat
    BY Reached, Sizes, StreamLength, Zenon
<1>2. x.ret \in -1 .. len /\ x.upos \in upos .. total
    BY Zenon DEF Outcome
<1>3. CASE upos = total /\ x.ret = 0 /\ x.upos = upos /\ x.ended = ended /\ x.valid = mdc_validated
    <2>1. Len(Stream) + x.ret = Len(Stream)
        BY <1>1, <1>3
    <2> QED BY <1>3, <2>1, Zenon DEF CodeIsWhole
<1>4. ASSUME ~ended, upos # total PROVE \E q \in 0 .. total : upos = CacheSize * q
    BY <1>4, Zenon DEF CodeIsWhole, Aligned
<1>5. CASE /\ ~ended /\ ~x.ended /\ x.ret > 0 /\ x.upos = upos + x.ret
           /\ x.ret = len \/ x.upos = total
           /\ has_mdc => x.upos + MdcSize <= total
    <2>1. upos # total
        BY <1>1, <1>2, <1>5
    <2>2. CASE x.upos = total
        BY <1>5, <2>2, Zenon DEF Aligned
    <2>3. CASE x.upos # total
        <3>1. x.ret = len /\ len = CacheSize
            <4>1. x.ret = len
                BY <1>5, <2>3, Zenon
            <4>2. len # total - upos
                BY <1>1, <1>5, <2>3, <4>1
            <4> QED BY <1>5, <2>1, <4>1, <4>2, Zenon
        <3>2. PICK q \in 0 .. total : upos = CacheSize * q
            BY <1>4, <1>5, <2>1, Zenon
        <3>3. x.upos = CacheSize * q + CacheSize /\ CacheSize * q + CacheSize <= total /\ q \in Nat
            BY <1>1, <1>2, <1>5, <3>1, <3>2
        <3>4. Aligned(CacheSize * q + CacheSize)
            BY <1>1, <3>3, NextAligned, Zenon
        <3> QED BY <1>5, <3>3, <3>4, Zenon
    <2> QED BY <2>2, <2>3
<1>6. CASE /\ ~ended /\ has_mdc /\ x.ended /\ x.valid /\ x.ret = n - upos /\ x.ret >= 0
           /\ x.upos = total \/ x.upos = upos + len
    <2>1. Len(Stream) + x.ret = n /\ upos # total
        BY <1>1, <1>6
    <2>2. CASE x.upos = total
        BY <1>6, <2>1, <2>2, Zenon
    <2>3. CASE x.upos # total
        <3>1. x.upos = upos + CacheSize
            <4>1. x.upos = upos + len
                BY <1>6, <2>3, Zenon
            <4>2. len # total - upos
                BY <1>1, <2>3, <4>1
            <4>3. len = CacheSize
                BY <1>6, <2>1, <4>2, Zenon
            <4> QED BY <4>1, <4>3, Zenon
        <3>2. PICK q \in 0 .. total : upos = CacheSize * q
            BY <1>4, <1>6, <2>1, Zenon
        <3>3. PICK p \in Nat : p = q + 1
            BY <1>1
        <3>4. x.upos = CacheSize * p
            <4>1. \A c \in Nat \ {0}, k \in Nat : c * k + c = c * (k + 1)
                OBVIOUS
            <4>2. q \in Nat
                BY <1>1
            <4> QED BY <1>1, <3>1, <3>2, <3>3, <4>1, <4>2, Zenon
        <3>5. PICK r \in Int : r = total - x.upos
            BY <1>1, <1>2
        <3>6. r \in 1 .. MdcSize - 1 /\ CacheSize <= x.upos
            <4>1. total - x.upos < MdcSize
                BY <1>6, Zenon DEF Outcome
            <4> QED BY <1>1, <1>2, <2>3, <3>1, <3>5, <4>1
        <3>7. r \in 0 .. MdcSize /\ total = CacheSize * p + r
            <4>1. total = x.upos + r
                BY <1>1, <1>2, <3>5
            <4> QED BY <1>1, <3>4, <3>6, <4>1
        <3>8. total % CacheSize = r
            BY <1>1, <3>7, WithinCode, Zenon
        <3>9. consumer = "literal"
            BY <1>6, <3>6, <3>8, Zenon DEF Unlucky
        <3> QED BY <1>6, <2>1, <3>6, <3>9, Zenon
    <2> QED BY <2>2, <2>3
<1> QED BY <1>3, <1>5, <1>6, Zenon DEF Answered

\* The message was as readable before a step.
LEMMA ReadableBefore ==
    ASSUME UNCHANGED msgVars, iofail => iofail', Readable'
    PROVE  Readable
<1>1. /\ total' = total /\ has_mdc' = has_mdc /\ consumer' = consumer /\ (Intact)' = Intact
    BY SameMessage, Zenon
<1> QED BY <1>1, Zenon DEF Readable, Unlucky

\* A step that does not read the body and moves no bytes.
LEMMA StillWhole ==
    ASSUME InOrder, CodeIsWhole, UNCHANGED msgVars, UNCHANGED decVars, Stream' = Stream
    PROVE  (InOrder)' /\ (CodeIsWhole)'
<1>1. upos' = upos /\ ended' = ended /\ mdc_validated' = mdc_validated
    BY Zenon DEF decVars
<1>2. n' = n /\ total' = total /\ has_mdc' = has_mdc /\ consumer' = consumer
    BY SameMessage, Zenon
<1>3. (InOrder)'
    BY Zenon DEF InOrder
<1>4. (CodeIsWhole)'
    BY <1>1, <1>2, Zenon DEF CodeIsWhole, Aligned
<1> QED BY <1>3, <1>4

\* Before anything is read, a cache that does not hold the header and one byte
\* is empty or holds the whole message.
LEMMA ShortCache ==
    ASSUME IInv, Intact, Running, CodeIsWhole, got = <<>>, out = <<>>, Len(cache) <= Header
    PROVE  cache = <<>> \/ upos = total
<1>1. /\ n \in Nat /\ total \in Nat /\ upos \in 0 .. total
      /\ total = (IF has_mdc THEN n + MdcSize ELSE n)
      /\ ~ended => Len(Stream) = upos
      /\ ended => has_mdc /\ Len(Stream) = n
    BY Reached, Zenon
<1>2. cache \in Seq(Int) /\ Len(cache) \in Nat /\ Len(Stream) = Len(cache) /\ Header <= n
    <2>1. cache \in Seq(Int) /\ Len(<<>>) = 0 /\ Header <= n
        BY Types
    <2>2. Len(cache) \in Nat
        BY <2>1
    <2>3. Len(Stream) = Len(got) + Len(out) + Len(cache)
        BY StreamLength
    <2> QED BY <2>1, <2>2, <2>3
<1>3. CASE ended
    <2>1. n <= Header
        BY <1>1, <1>2, <1>3
    <2>2. total < CacheSize
        BY <1>1, <1>2, <2>1, Sizes
    <2>3. ~(CacheSize <= upos)
        BY <1>1, <2>2, Sizes
    <2> QED BY <1>3, <2>3, Zenon DEF CodeIsWhole
<1>4. CASE ~ended
    <2>1. Aligned(upos)
        BY <1>4, Zenon DEF CodeIsWhole
    <2>2. CASE upos = total
        BY <2>2
    <2>3. ASSUME NEW q \in 0 .. total, upos = CacheSize * q PROVE cache = <<>>
        <3>1. upos < CacheSize
            BY <1>1, <1>2, <1>4, Sizes
        <3>2. \A c \in Nat \ {0}, k \in Nat : k > 0 => c * k >= c
            OBVIOUS
        <3>3. q \in Nat
            BY <1>1
        <3>4. q = 0
            <4>1. ~(q > 0)
                BY <1>1, <2>3, <3>1, <3>2, <3>3, Sizes
            <4> QED BY <3>3, <4>1
        <3>5. upos = 0
            BY <2>3, <3>4, Sizes
        <3> QED BY <1>1, <1>2, <1>4, <3>5
    <2> QED BY <2>1, <2>2, <2>3, Zenon DEF Aligned
<1> QED BY <1>3, <1>4

\* The consumer looks at the bytes that come next.
LEMMA PeekSmooth ==
    ASSUME IInv, Readable, Undisturbed, ConsumerPeeks PROVE Undisturbed'
<1>1. PICK len \in 1 .. Header + 1 : src_peek(len)
    BY Zenon DEF ConsumerPeeks
<1>2. len \in 1 .. CacheSize
    BY Sizes
<1>3. PICK l : l = ClippedRead(len)
    OBVIOUS
<1>4. l \in 0 .. CacheSize /\ l <= len
    BY <1>2, <1>3, Requested, Zenon
<1>5. /\ op = "idle" /\ want' = l /\ ra' = ~Clipped(len)
      /\ \/ (eof \/ Len(cache) >= l) /\ ret' = (IF eof THEN 0 ELSE l) /\ UNCHANGED op
         \/ ~eof /\ Len(cache) < l /\ op' = "peek" /\ UNCHANGED ret
      /\ UNCHANGED msgVars /\ UNCHANGED decVars /\ cache' = cache /\ readb' = readb /\ eof' = eof /\ out' = out
      /\ got' = got /\ phase' = phase /\ failed' = failed /\ retries' = retries /\ result' = result
      /\ iofail' = iofail
    BY <1>1, <1>3, Zenon DEF src_peek, srcVars, conVars
<1>6. phase = "reading" /\ got = <<>> /\ out = <<>> /\ readb = 0
    <2>1. phase = "reading" /\ got = <<>>
        BY Zenon DEF ConsumerPeeks
    <2>2. op # "read"
        BY <1>5
    <2>3. out = <<>>
        BY <2>2, Zenon DEF IInv, Calls
    <2>4. readb = Len(got)
        BY Types, Zenon
    <2> QED BY <2>1, <2>3, <2>4
<1>7. Running /\ InOrder /\ CodeIsWhole /\ InChunks /\ Complete /\ Intact
    BY Zenon DEF Undisturbed, Readable
<1>8. (Running)'
    <2>1. ret' >= 0
        BY <1>4, <1>5, <1>7 DEF Running
    <2> QED BY <1>5, <1>7, <2>1, Zenon DEF Running
<1>9. Stream' = Stream
    BY <1>5, Zenon DEF Stream
<1>10. (InOrder)' /\ (CodeIsWhole)'
    BY <1>5, <1>7, <1>9, StillWhole, Zenon
<1>11. /\ n' = n /\ total' = total /\ has_mdc' = has_mdc /\ consumer' = consumer /\ size' = size
       /\ upos' = upos /\ ended' = ended
    BY <1>5, SameMessage, Zenon DEF decVars
<1>12. op' # "read"
    BY <1>5
<1>13. (Asked)'
    <2> SUFFICES ASSUME op' = "peek"
                 PROVE  /\ got = <<>> /\ l <= Header + 1 /\ (Clipped(len) => l = size)
                        /\ cache = <<>> \/ upos = total
        BY <1>5, <1>11, <1>12, Zenon DEF Asked
    <2>1. l <= Header + 1
        BY <1>4, Sizes
    <2>2. Clipped(len) => l = size
        <3>1. size \in Nat
            BY Types
        <3> QED BY <1>3, <1>6, <3>1 DEF ClippedRead
    <2>3. Len(cache) < l
        BY <1>5
    <2>4. Len(cache) <= Header
        <3>1. Len(cache) \in 0 .. CacheSize
            BY Types, Zenon
        <3> QED BY <1>4, <2>1, <2>3, <3>1, Sizes
    <2>5. cache = <<>> \/ upos = total
        BY <1>6, <1>7, <2>4, ShortCache, Zenon
    <2> QED BY <1>6, <2>1, <2>2, <2>5, Zenon
<1>14. (InChunks)'
    BY <1>5, <1>7, <1>11, <1>12, Zenon DEF InChunks, Chunk
<1>15. (Complete)'
    BY <1>5, <1>7, <1>11, Zenon DEF Complete
<1> QED BY <1>8, <1>10, <1>13, <1>14, <1>15, Zenon DEF Undisturbed

\* What a consumer asks for.
LEMMA RequestFacts ==
    ASSUME IInv, NEW len \in Requests, ~Satisfied
    PROVE  /\ len \in 1 .. CacheSize
           /\ consumer = "literal" => len <= Missing
           /\ consumer = "compressed" => len = IF InHeader THEN Header - Len(got) ELSE Chunk
<1>1. Len(got) \in Nat /\ n \in Nat /\ Header <= n
    BY Types, Zenon
<1>2. CASE InHeader
    <2>1. len = Header - Len(got) /\ Len(got) < Header
        BY <1>2 DEF Requests, InHeader
    <2>2. len \in 1 .. CacheSize /\ len <= Missing
        BY <1>1, <2>1, Sizes DEF Missing
    <2> QED BY <1>2, <2>1, <2>2, Zenon
<1>3. CASE ~InHeader /\ consumer = "literal"
    <2>1. len \in 1 .. Least(CacheSize, Missing)
        BY <1>3 DEF Requests
    <2>2. len \in 1 .. CacheSize /\ len <= Missing
        BY <1>1, <2>1, Sizes DEF Least, Missing
    <2>3. consumer # "compressed"
        BY <1>3
    <2> QED BY <2>2, <2>3, Zenon
<1>4. CASE ~InHeader /\ consumer = "compressed"
    <2>1. len = Chunk
        BY <1>4 DEF Requests
    <2>2. len \in 1 .. CacheSize
        BY <2>1, Sizes
    <2>3. consumer # "literal"
        BY <1>4
    <2> QED BY <1>4, <2>1, <2>2, <2>3, Zenon
<1>5. CASE ~InHeader /\ consumer # "literal" /\ consumer # "compressed"
    <2>1. len = CacheSize
        BY <1>5 DEF Requests
    <2>2. len \in 1 .. CacheSize
        BY <2>1, Sizes
    <2> QED BY <1>5, <2>2, Zenon
<1> QED BY <1>2, <1>3, <1>4, <1>5, Zenon

\* A compressed source that got what it asked for has read the header and whole
\* chunks.
LEMMA ChunksGrow ==
    ASSUME NEW k \in Nat, NEW g \in Nat, NEW w, NEW h,
           g = 0 \/ \E i \in 0 .. k : g = Header + Chunk * i,
           w = (IF g = 0 THEN Header ELSE Chunk), h = g + w, h <= k
    PROVE  \E i \in 0 .. k : h = Header + Chunk * i
<1>1. CASE g = 0
    <2>1. h = Header + Chunk * 0 /\ 0 \in 0 .. k
        BY <1>1, Sizes
    <2> QED BY <2>1
<1>2. CASE g # 0
    <2>1. PICK i \in 0 .. k : g = Header + Chunk * i
        BY <1>2
    <2>2. \A c \in Nat \ {0}, j \in Nat : c * j + c = c * (j + 1) /\ j + 1 <= c * (j + 1)
        OBVIOUS
    <2>3. PICK p \in Nat : p = i + 1
        OBVIOUS
    <2>4. Chunk * i + Chunk = Chunk * p /\ p <= Chunk * p /\ Chunk * i \in Nat
        BY <2>2, <2>3, Sizes
    <2>5. h = Header + Chunk * p
        BY <1>2, <2>1, <2>4, Sizes
    <2>6. p \in 0 .. k
        BY <2>3, <2>4, <2>5, Sizes
    <2> QED BY <2>5, <2>6
<1> QED BY <1>1, <1>2

\* The end that src_read sees from the size of the body: all was read, and it
\* has no code.
LEMMA EndOfBody ==
    ASSUME IInv, Intact, NEW g \in Nat, g = size, g <= n
    PROVE  g = n /\ ~has_mdc
<1>1. n \in Nat
    BY Types
<1> QED BY <1>1, Sizes DEF size

\* The consumer reads on while it is not satisfied.
LEMMA ReadSmooth ==
    ASSUME IInv, Readable, Undisturbed, ConsumerReads PROVE Undisturbed'
<1>1. PICK len \in Requests : src_read(len)
    BY Zenon DEF ConsumerReads
<1>2. phase = "reading" /\ ~eof /\ ~Satisfied
    BY Zenon DEF ConsumerReads, Satisfied
<1>3. /\ len \in 1 .. CacheSize
      /\ consumer = "literal" => len <= Missing
      /\ consumer = "compressed" => len = IF InHeader THEN Header - Len(got) ELSE Chunk
    BY <1>2, RequestFacts, Zenon
<1>4. PICK l : l = ClippedRead(len)
    OBVIOUS
<1>5. l \in 0 .. CacheSize /\ l <= len
    BY <1>3, <1>4, Requested, Zenon
<1>6. /\ cache' \in Seq(Int) /\ out' \in Seq(Int) /\ got' \in Seq(Int)
      /\ readb' = Len(got') /\ (ret >= 0 => ret' >= 0)
      /\ op' \in {"idle", "read"}
      /\ Running => (got' \o out') \o cache' = (got \o out) \o cache
      /\ op' = "read" \/ eof \/ Len(got') = Len(got) + l
      /\ op' = "read" => got' = got /\ eof' = eof
      /\ (~eof /\ eof') => readb' = size
    BY <1>1, <1>3, <1>4, ReadMoves, Zenon
<1>7. /\ want' = l /\ ra' = ~Clipped(len) /\ UNCHANGED msgVars /\ UNCHANGED decVars
      /\ phase' = phase /\ failed' = failed /\ result' = result /\ iofail' = iofail
    BY <1>1, <1>4, Zenon DEF src_read
<1>8. Running /\ InOrder /\ CodeIsWhole /\ InChunks /\ Complete /\ Intact
    BY Zenon DEF Undisturbed, Readable
<1>9. (Running)'
    BY <1>6, <1>7, <1>8, Zenon DEF Running
<1>10. Stream' = Stream
    BY <1>6, <1>8, Zenon DEF Stream
<1>11. (InOrder)' /\ (CodeIsWhole)'
    BY <1>7, <1>8, <1>10, StillWhole, Zenon
<1>12. /\ n' = n /\ total' = total /\ has_mdc' = has_mdc /\ consumer' = consumer /\ size' = size
       /\ upos' = upos /\ ended' = ended
    BY <1>7, SameMessage, Zenon DEF decVars
<1>13. /\ n \in Nat /\ total \in Nat /\ size = total /\ upos \in 0 .. total
       /\ ~ended => Len(Stream) = upos
       /\ Len(Stream) <= n /\ Len(Stream) \in Nat
       /\ Len(got) \in Nat /\ readb = Len(got) /\ Header <= n
    BY <1>8, Reached, StreamLength, Types, Zenon
<1>14. Len(got') \in Nat /\ Len(got') <= Len(Stream)
    <2>1. Len(got') \in Nat /\ Len(out') \in Nat /\ Len(cache') \in Nat
        BY <1>6
    <2>2. PICK g \in Seq(Int) : g = got'
        BY <1>6
    <2>3. PICK o \in Seq(Int) : o = out'
        BY <1>6
    <2>4. PICK c \in Seq(Int) : c = cache'
        BY <1>6
    <2>5. PICK r \in Seq(Int) : r = g \o o
        BY ConcatFacts, Zenon
    <2>6. Len(r) = Len(g) + Len(o) /\ Len(r \o c) = Len(r) + Len(c)
        BY <2>5, ConcatFacts, Zenon
    <2>7. Stream = r \o c
        BY <1>6, <1>8, <2>2, <2>3, <2>4, <2>5, Zenon DEF Stream
    <2>8. Len(g) \in Nat /\ Len(o) \in Nat /\ Len(c) \in Nat /\ Len(Stream) = Len(g) + Len(o) + Len(c)
        BY <2>6, <2>7
    <2> QED BY <2>1, <2>2, <2>8
<1>15. Clipped(len) => l = size - readb
    BY <1>4 DEF ClippedRead
<1>16. op' # "peek"
    BY <1>6
<1>17. (Asked)'
    <2> SUFFICES ASSUME op' = "read"
                 PROVE  (Clipped(len) => Len(got) + l = size) /\ (consumer = "literal" => l <= n - Len(got))
        BY <1>6, <1>7, <1>12, <1>16, Zenon DEF Asked, Missing
    <2>1. Clipped(len) => Len(got) + l = size
        BY <1>13, <1>15
    <2>2. consumer = "literal" => l <= n - Len(got)
        BY <1>3, <1>5, <1>13 DEF Missing
    <2> QED BY <2>1, <2>2
<1>18. (InChunks)'
    <2> SUFFICES ASSUME consumer = "compressed", has_mdc, ~ended
                 PROVE  /\ got' = <<>> \/ \E i \in 0 .. n : Len(got') = Header + Chunk * i
                        /\ (op' = "read" /\ ~Clipped(len)) => l = IF got' = <<>> THEN Header ELSE Chunk
        BY <1>7, <1>12, Zenon DEF InChunks, Chunk
    <2>1. got = <<>> \/ \E i \in 0 .. n : Len(got) = Header + Chunk * i
        BY <1>8, Zenon DEF InChunks
    <2>2. (got = <<>> <=> Len(got) = 0) /\ (Len(got) = 0 \/ Header <= Len(got))
        <3>1. got = <<>> <=> Len(got) = 0
            <4>1. got \in Seq(Int)
                BY Types
            <4> QED BY <4>1
        <3>2. \A i \in 0 .. n : Chunk * i >= 0
            BY <1>13, Sizes
        <3> QED BY <1>13, <2>1, <3>1, <3>2, Sizes
    <2>3. len = IF got = <<>> THEN Header ELSE Chunk
        BY <1>3, <1>13, <2>2, Sizes DEF InHeader
    <2>4. ~Clipped(len) => l = len
        BY <1>4 DEF ClippedRead
    <2>5. CASE op' = "read"
        BY <1>6, <2>1, <2>3, <2>4, <2>5, Zenon
    <2>6. CASE op' # "read"
        <3>1. Len(got') = Len(got) + l
            BY <1>2, <1>6, <2>6, Zenon
        <3>2. ~Clipped(len)
            <4> SUFFICES ASSUME Clipped(len) PROVE FALSE
                OBVIOUS
            <4>1. Len(got') = total
                BY <1>13, <1>15, <3>1
            <4>2. Len(Stream) = upos /\ upos + MdcSize <= total
                BY <1>8, <1>13, Zenon DEF CodeIsWhole
            <4> QED BY <1>13, <1>14, <4>1, <4>2, Sizes
        <3>3. l = (IF Len(got) = 0 THEN Header ELSE Chunk)
            BY <2>2, <2>3, <2>4, <3>2, Zenon
        <3>4. Len(got') <= n
            BY <1>13, <1>14
        <3>5. Len(got) = 0 \/ \E i \in 0 .. n : Len(got) = Header + Chunk * i
            BY <2>1, <2>2, Zenon
        <3>6. \E i \in 0 .. n : Len(got') = Header + Chunk * i
            <4>1. PICK k \in Nat : k = n
                BY <1>13, Zenon
            <4>2. PICK g \in Nat : g = Len(got)
                BY <1>13, Zenon
            <4>3. PICK h : h = Len(got')
                OBVIOUS
            <4>4. /\ g = 0 \/ \E i \in 0 .. k : g = Header + Chunk * i
                  /\ l = (IF g = 0 THEN Header ELSE Chunk) /\ h = g + l /\ h <= k
                BY <3>1, <3>3, <3>4, <3>5, <4>1, <4>2, <4>3, Zenon
            <4>5. \E i \in 0 .. k : h = Header + Chunk * i
                BY <4>4, ChunksGrow, SMTT(60)
            <4> QED BY <4>1, <4>3, <4>5, Zenon
        <3> QED BY <2>6, <3>6, Zenon
    <2> QED BY <2>5, <2>6
<1>19. (Complete)'
    <2>1. phase' = "reading"
        BY <1>2, <1>7
    <2>2. phase' # "finished"
        BY <2>1
    <2>3. ASSUME eof' PROVE Len(got') = n /\ ~has_mdc
        <3>1. Len(got') = size
            BY <1>2, <1>6, <2>3, Zenon
        <3>2. Len(got') <= n
            BY <1>13, <1>14
        <3> QED BY <1>8, <1>14, <3>1, <3>2, EndOfBody, Zenon
    <2> QED BY <1>12, <2>1, <2>2, <2>3, Zenon DEF Complete
<1> QED BY <1>9, <1>11, <1>17, <1>18, <1>19, Zenon DEF Undisturbed

\* After a call of encrypted_src_read that found the message in order.
LEMMA AnswerStep ==
    ASSUME IInv, Readable, Undisturbed, NEW len \in Nat, len > 0, NEW x \in encrypted_src_read(len),
           Took(x), ~iofail', UNCHANGED msgVars, ended => upos = total,
           ~ended => upos = total \/ len = CacheSize \/ len = total - upos,
           Stream' = Stream \o x.data
    PROVE  /\ Answered(x, len) /\ Outcome(x, len) /\ x.ret \in 0 .. len
           /\ (InOrder)' /\ (CodeIsWhole)' /\ Len(Stream') = Len(Stream) + x.ret
           /\ upos' = x.upos /\ ended' = x.ended /\ (ended => ended')
<1>1. Running /\ InOrder /\ CodeIsWhole /\ Intact /\ ~Unlucky
    BY Zenon DEF Undisturbed, Readable
<1>2. upos' = x.upos /\ ended' = x.ended /\ mdc_validated' = x.valid /\ ~x.iofail
    BY Zenon DEF Took
<1>3. Outcome(x, len)
    BY ReadOutcome, Zenon
<1>4. Answered(x, len)
    BY <1>1, <1>2, ReadAnswers, Zenon
<1>5. PICK s : s = Stream \o x.data
    OBVIOUS
<1>6. /\ s \in Seq(Int) /\ Len(s) = Len(Stream) + x.ret /\ x.ret \in 0 .. len
      /\ \A i \in DOMAIN s : s[i] = i - 1
    BY <1>1, <1>3, <1>4, <1>5, OrderGrows, Zenon
<1>7. /\ ~x.ended => Aligned(x.upos) /\ (has_mdc => x.upos + MdcSize <= total)
      /\ x.ended => /\ x.valid /\ Len(Stream) + x.ret = n
                    /\ x.upos = total \/ (consumer = "literal" /\ CacheSize <= x.upos)
    BY <1>1, <1>3, <1>4, WholeAfter, Zenon
<1>8. n' = n /\ total' = total /\ has_mdc' = has_mdc /\ consumer' = consumer
    BY SameMessage, Zenon
<1>9. Stream' = s
    BY <1>5, Zenon
<1>10. (InOrder)' /\ Len(Stream') = Len(Stream) + x.ret
    BY <1>6, <1>9, Zenon DEF InOrder
<1>11. (CodeIsWhole)'
    BY <1>2, <1>7, <1>8, <1>10, Zenon DEF CodeIsWhole, Aligned
<1>12. ended => x.ended
    BY <1>4, Zenon DEF Answered
<1> QED BY <1>2, <1>3, <1>4, <1>6, <1>10, <1>11, <1>12, Zenon

\* One iteration of the loop of src_read.
LEMMA ReadLoopSmooth ==
    ASSUME IInv, Readable, Undisturbed, src_read_loop, ~iofail' PROVE Undisturbed'
<1>1. PICK left : left = want - Len(out)
    OBVIOUS
<1>2. PICK len : len = IF left > CacheSize \/ ~ra THEN left ELSE CacheSize
    OBVIOUS
<1>3. PICK x \in encrypted_src_read(len) :
        /\ Took(x)
        /\ \/ x.ret < 0 /\ Fails /\ cache' = cache
           \/ Ended(x.ret) /\ ReadReturns(out, <<>>, TRUE)
           \/ /\ x.ret >= 0 /\ ~Ended(x.ret) /\ x.ret < left
              /\ out' = out \o x.data
              /\ op' = op /\ ret' = ret /\ got' = got /\ cache' = cache /\ readb' = readb /\ eof' = eof
           \/ /\ x.ret >= left
              /\ ReadReturns(out \o SubSeq(x.data, 1, left), Rest(x.data, left), FALSE)
    BY <1>1, <1>2, Zenon DEF src_read_loop, srcVars
<1>4. /\ op = "read" /\ UNCHANGED msgVars /\ want' = want /\ ra' = ra /\ phase' = phase
      /\ failed' = failed /\ result' = result
    BY Zenon DEF src_read_loop
<1>5. Running /\ CodeIsWhole /\ Asked /\ InChunks /\ Complete /\ Intact
    BY Zenon DEF Undisturbed, Readable
<1>6. /\ n \in Nat /\ total \in Nat /\ upos \in 0 .. total /\ size = total
      /\ total = (IF has_mdc THEN n + MdcSize ELSE n)
      /\ ~ended => Len(Stream) = upos
      /\ Len(Stream) <= n /\ (ended => has_mdc /\ Len(Stream) = n)
    BY <1>5, Reached, Zenon
<1>7. /\ cache = <<>> /\ Len(out) < want /\ readb = Len(got) /\ Len(got) \in Nat /\ Len(out) \in Nat
      /\ want \in 0 .. CacheSize /\ Len(Stream) = Len(got) + Len(out) /\ CacheSize \in Nat
    <2>1. cache = <<>> /\ Len(out) < want
        BY <1>4, Zenon DEF IInv, Calls
    <2>2. readb = Len(got) /\ Len(got) \in Nat /\ Len(out) \in 0 .. CacheSize /\ want \in 0 .. CacheSize
        BY Types, Zenon
    <2>3. Len(Stream) = Len(got) + Len(out) + Len(cache)
        BY StreamLength
    <2> QED BY <2>1, <2>2, <2>3, Sizes
<1>8. left \in 1 .. CacheSize /\ len \in Nat /\ len > 0 /\ (ra => len = CacheSize) /\ (~ra => len = left)
    BY <1>1, <1>2, <1>7
<1>9. ended => upos = total
    <2> SUFFICES ASSUME ended, consumer = "literal" PROVE FALSE
        BY <1>5, Zenon DEF CodeIsWhole
    <2>1. want <= n - Len(got)
        BY <1>4, <1>5, Zenon DEF Asked, Missing
    <2> QED BY <1>6, <1>7, <2>1
<1>10. ~ra => Len(got) + want = total
    BY <1>4, <1>5, <1>6, <1>7, Zenon DEF Asked
<1>11. ~ended => upos = total \/ len = CacheSize \/ len = total - upos
    <2> SUFFICES ASSUME ~ended, ~ra PROVE len = total - upos
        BY <1>8, Zenon
    <2>1. len = want - Len(out) /\ Len(got) + want = total /\ upos = Len(got) + Len(out)
        BY <1>1, <1>6, <1>7, <1>8, <1>10, Zenon
    <2>2. want \in Nat
        BY <1>7
    <2> QED BY <1>7, <2>1, <2>2
<1>12. /\ cache' \in Seq(Int) /\ out' \in Seq(Int) /\ got' \in Seq(Int)
       /\ readb' = Len(got') /\ ret' \in -1 .. CacheSize /\ op' \in {"idle", "read"}
       /\ (ret' >= 0 /\ ret >= 0) => x.ret >= 0 /\ (got' \o out') \o cache' = Stream \o x.data
       /\ op' = "read" => got' = got /\ eof' = eof /\ ret' = ret
       /\ (op' = "idle" /\ ret' >= 0) =>
             \/ x.ret = 0 /\ Len(got') = Len(got) + Len(out)
             \/ Len(got') = Len(got) + want /\ (eof' => readb' = size)
    BY <1>1, <1>2, <1>3, <1>4, ReadLoopMoves, Zenon
<1>13. ret' >= 0
    <2>1. Answered(x, len)
        <3>1. ~x.iofail /\ InOrder
            BY <1>3, Zenon DEF Took, Undisturbed
        <3> QED BY <1>5, <1>8, <1>9, <3>1, ReadAnswers, Zenon
    <2>2. ~(x.ret < 0)
        <3>1. x.ret = 0 \/ x.ret > 0 \/ x.ret >= 0
            BY <2>1, Zenon DEF Answered
        <3>2. x.ret \in -1 .. len
            BY <1>8, ReadOutcome, Zenon DEF Outcome
        <3> QED BY <1>8, <3>1, <3>2
    <2>3. op' = "read" => ret' >= 0
        BY <1>5, <1>12, Zenon DEF Running
    <2>4. CASE Ended(x.ret) /\ ReadReturns(out, <<>>, TRUE)
        <3>1. ret' = Len(out)
            BY <2>4, Zenon DEF ReadReturns
        <3> QED BY <1>7, <3>1
    <2>5. CASE /\ x.ret >= 0 /\ ~Ended(x.ret) /\ x.ret < left
               /\ out' = out \o x.data
               /\ op' = op /\ ret' = ret /\ got' = got /\ cache' = cache /\ readb' = readb /\ eof' = eof
        BY <1>4, <2>3, <2>5, Zenon
    <2>6. CASE /\ x.ret >= left
               /\ ReadReturns(out \o SubSeq(x.data, 1, left), Rest(x.data, left), FALSE)
        <3>1. PICK o : o = out \o SubSeq(x.data, 1, left)
            OBVIOUS
        <3>2. ret' = Len(o)
            BY <2>6, <3>1, Zenon DEF ReadReturns
        <3>3. o \in Seq(Int)
            <4>1. PICK d \in Seq(Int) : d = x.data
                BY <1>8, ReadOutcome, Zenon DEF Outcome
            <4>2. left <= Len(d)
                <5>1. Len(d) = IF x.ret < 0 THEN 0 ELSE x.ret
                    BY <1>8, <4>1, ReadOutcome, Zenon DEF Outcome
                <5> QED BY <2>2, <2>6, <5>1, Zenon
            <4>3. PICK a \in Seq(Int) : a = SubSeq(d, 1, left)
                <5>1. \A t \in Seq(Int), k \in Nat : k <= Len(t) => SubSeq(t, 1, k) \in Seq(Int)
                    OBVIOUS
                <5>2. left \in Nat
                    BY <1>8
                <5> QED BY <4>2, <5>1, <5>2, Zenon
            <4>4. out \in Seq(Int)
                BY Types
            <4>5. out \o a \in Seq(Int)
                BY <4>4, ConcatFacts, Zenon
            <4> QED BY <3>1, <4>1, <4>3, <4>5, Zenon
        <3> QED BY <3>2, <3>3
    <2> QED BY <1>3, <2>2, <2>4, <2>5, <2>6, Zenon
<1>14. Stream' = Stream \o x.data
    BY <1>5, <1>12, <1>13, Zenon DEF Stream, Running
<1>15. /\ Answered(x, len) /\ Outcome(x, len) /\ x.ret \in 0 .. len
       /\ (InOrder)' /\ (CodeIsWhole)' /\ Len(Stream') = Len(Stream) + x.ret
       /\ upos' = x.upos /\ ended' = x.ended /\ (ended => ended')
    BY <1>3, <1>4, <1>8, <1>9, <1>11, <1>14, AnswerStep, Zenon
<1>16. n' = n /\ total' = total /\ has_mdc' = has_mdc /\ consumer' = consumer /\ size' = size
    BY <1>4, SameMessage, Zenon
<1>17. (Running)'
    BY <1>4, <1>5, <1>13, Zenon DEF Running
<1>18. /\ Len(got') \in Nat /\ Len(got') <= Len(Stream')
       /\ ~ended' => Len(Stream') = upos' /\ (has_mdc => upos' + MdcSize <= total)
       /\ Len(Stream') <= n /\ upos' \in Nat
    <2>1. IInv'
        BY ReadLoopIInv
    <2>2. /\ Len(got') \in Nat /\ Len(Stream') \in Nat /\ upos' \in Nat
          /\ Len(Stream') = Len(got') + Len(out') + Len(cache')
        <3>1. Len(got') \in Nat /\ Len(out') \in Nat /\ Len(cache') \in Nat
            BY <1>12
        <3>2. PICK g \in Seq(Int) : g = got'
            BY <1>12
        <3>3. PICK o \in Seq(Int) : o = out'
            BY <1>12
        <3>4. PICK c \in Seq(Int) : c = cache'
            BY <1>12
        <3>5. PICK r \in Seq(Int) : r = g \o o
            BY ConcatFacts, Zenon
        <3>6. Len(r) = Len(g) + Len(o) /\ Len(r \o c) = Len(r) + Len(c)
            BY <3>5, ConcatFacts, Zenon
        <3>7. Stream' = r \o c
            BY <3>2, <3>3, <3>4, <3>5, Zenon DEF Stream
        <3>8. upos' \in Nat
            <4>1. x.upos \in upos .. total
                BY <1>15, Zenon DEF Outcome
            <4> QED BY <1>6, <1>15, <4>1
        <3> QED BY <3>1, <3>2, <3>3, <3>4, <3>6, <3>7, <3>8
    <2>3. ~ended' => Len(Stream') = upos' /\ (has_mdc => upos' + MdcSize <= total)
        BY <1>15, <1>16, <1>17, <2>1, Zenon DEF IInv, InPlace, CodeIsWhole
    <2>4. Len(Stream') <= n
        <3>1. CASE ended'
            <4>1. Len(Stream') = n
                BY <1>15, <1>16, <3>1, Zenon DEF CodeIsWhole
            <4> QED BY <1>6, <4>1
        <3>2. CASE ~ended'
            <4>1. upos' <= total
                <5>1. x.upos \in upos .. total
                    BY <1>15, Zenon DEF Outcome
                <5> QED BY <1>6, <1>15, <5>1
            <4>2. Len(Stream') = upos' /\ (has_mdc => upos' + MdcSize <= total)
                BY <2>3, <3>2, Zenon
            <4>3. PICK u \in Nat : u = upos'
                BY <2>2
            <4>4. Len(Stream') = u /\ (has_mdc => u + MdcSize <= total) /\ u <= total
                BY <4>1, <4>2, <4>3, Zenon
            <4>5. total = (IF has_mdc THEN n + MdcSize ELSE n) /\ n \in Nat /\ total \in Nat
                BY <1>6, Zenon
            <4>6. u <= n
                BY <4>4, <4>5, Sizes
            <4> QED BY <4>4, <4>6, Zenon
        <3> QED BY <3>1, <3>2
    <2>5. Len(got') <= Len(Stream')
        <3>1. Len(out') \in Nat /\ Len(cache') \in Nat
            BY <1>12
        <3> QED BY <2>2, <3>1
    <2> QED BY <2>2, <2>3, <2>4, <2>5, Zenon
<1>19. op' # "peek"
    BY <1>12
<1>20. (Asked)'
    <2>1. op' = "read" => readb' = readb
        BY <1>7, <1>12, Zenon
    <2> QED BY <1>4, <1>5, <1>12, <1>16, <1>19, <2>1, Zenon DEF Asked, Missing
<1>21. (InChunks)'
    <2> SUFFICES ASSUME consumer = "compressed", has_mdc, ~ended'
                 PROVE  /\ got' = <<>> \/ \E i \in 0 .. n : Len(got') = Header + Chunk * i
                        /\ (op' = "read" /\ ra) => want = IF got' = <<>> THEN Header ELSE Chunk
        BY <1>4, <1>16, Zenon DEF InChunks, Chunk
    <2>1. ~ended
        BY <1>15, Zenon
    <2>2. /\ got = <<>> \/ \E i \in 0 .. n : Len(got) = Header + Chunk * i
          /\ ra => want = IF got = <<>> THEN Header ELSE Chunk
        BY <1>4, <1>5, <2>1, Zenon DEF InChunks
    <2>3. CASE op' = "read"
        BY <1>12, <2>2, <2>3, Zenon
    <2>4. CASE op' # "read"
        <3>1. op' = "idle"
            BY <1>12, <2>4
        <3>2. x.ret # 0
            <4> SUFFICES ASSUME x.ret = 0 PROVE FALSE
                OBVIOUS
            <4>1. ~(x.ret > 0)
                BY <1>15
            <4> QED BY <1>15, <2>1, <4>1, Zenon DEF Answered
        <3>3. Len(got') = Len(got) + want
            BY <1>12, <1>13, <3>1, <3>2, Zenon
        <3>4. ra
            <4> SUFFICES ASSUME ~ra PROVE FALSE
                OBVIOUS
            <4>1. Len(got') = total
                BY <1>10, <3>3, Zenon
            <4>2. Len(Stream') = upos' /\ upos' + MdcSize <= total
                BY <1>18, Zenon
            <4> QED BY <1>6, <1>18, <4>1, <4>2, Sizes
        <3>5. got = <<>> <=> Len(got) = 0
            <4>1. got \in Seq(Int)
                BY Types
            <4> QED BY <4>1
        <3>6. Len(got') <= n
            BY <1>6, <1>18
        <3>7. \E i \in 0 .. n : Len(got') = Header + Chunk * i
            <4>1. PICK k \in Nat : k = n
                BY <1>6, Zenon
            <4>2. PICK g \in Nat : g = Len(got)
                BY <1>7, Zenon
            <4>3. PICK h : h = Len(got')
                OBVIOUS
            <4>4. PICK w : w = want
                OBVIOUS
            <4>5. /\ g = 0 \/ \E i \in 0 .. k : g = Header + Chunk * i
                  /\ w = (IF g = 0 THEN Header ELSE Chunk) /\ h = g + w /\ h <= k
                BY <2>2, <3>3, <3>4, <3>5, <3>6, <4>1, <4>2, <4>3, <4>4, Zenon
            <4>6. \E i \in 0 .. k : h = Header + Chunk * i
                BY <4>5, ChunksGrow, SMTT(60)
            <4> QED BY <4>1, <4>3, <4>6, Zenon
        <3> QED BY <2>4, <3>7, Zenon
    <2> QED BY <2>3, <2>4
<1>22. phase = "reading"
    <2>1. op # "idle"
        BY <1>4
    <2> QED BY <1>5, <2>1, Zenon DEF IInv, Phases, Running
<1>23. (Complete)'
    <2>1. phase' = "reading" /\ phase' # "finished"
        BY <1>4, <1>22
    <2>2. ASSUME eof' PROVE Len(got') = n /\ (has_mdc => ended')
        <3>1. CASE op' = "read"
            BY <1>5, <1>12, <1>15, <2>2, <3>1, Zenon DEF Complete
        <3>2. CASE op' # "read" /\ x.ret = 0 /\ Len(got') = Len(got) + Len(out)
            <4>1. ~(x.ret > 0)
                BY <1>15, <3>2
            <4>2. \/ upos = total /\ x.ended = ended /\ (has_mdc => ended)
                  \/ has_mdc /\ x.ended /\ x.ret = n - upos /\ ~ended
                BY <1>15, <4>1, Zenon DEF Answered
            <4>3. has_mdc => ended'
                BY <1>15, <4>2, Zenon
            <4>4. Len(got') = n
                BY <1>6, <1>7, <3>2, <4>2
            <4> QED BY <4>3, <4>4
        <3>3. CASE op' # "read" /\ (eof' => readb' = size)
            <4>1. Len(got') = size /\ Len(got') <= n
                BY <1>6, <1>12, <1>18, <2>2, <3>3
            <4>2. PICK g \in Nat : g = Len(got')
                BY <1>18
            <4>3. g = n /\ ~has_mdc
                BY <1>5, <4>1, <4>2, EndOfBody, Zenon
            <4> QED BY <4>2, <4>3, Zenon
        <3>4. op' = "read" \/ op' = "idle"
            BY <1>12
        <3> QED BY <1>12, <1>13, <3>1, <3>2, <3>3, <3>4, Zenon
    <2> QED BY <1>16, <2>1, <2>2, Zenon DEF Complete
<1> QED BY <1>15, <1>17, <1>20, <1>21, <1>23, Zenon DEF Undisturbed

\* One iteration of the loop of src_peek.
LEMMA PeekLoopSmooth ==
    ASSUME IInv, Readable, Undisturbed, src_peek_loop, ~iofail' PROVE Undisturbed'
<1>1. PICK len : len = IF ra THEN CacheSize - Len(cache) ELSE want - Len(cache)
    OBVIOUS
<1>2. PICK x \in encrypted_src_read(len) :
        /\ Took(x)
        /\ cache' = cache \o x.data
        /\ \/ x.ret <= 0 /\ op' = "idle" /\ ret' = (IF x.ret = 0 THEN Len(cache) ELSE -1)
           \/ x.ret > 0 /\ Len(cache') >= want /\ op' = "idle" /\ ret' = want
           \/ x.ret > 0 /\ Len(cache') < want /\ op' = op /\ ret' = ret
    BY <1>1, Zenon DEF src_peek_loop
<1>3. /\ op = "peek" /\ UNCHANGED msgVars /\ readb' = readb /\ eof' = eof /\ want' = want /\ ra' = ra
      /\ out' = out /\ got' = got /\ phase' = phase /\ failed' = failed
      /\ result' = result
    BY Zenon DEF src_peek_loop, conVars
<1>4. Running /\ CodeIsWhole /\ Asked /\ InChunks /\ Complete /\ Intact
    BY Zenon DEF Undisturbed, Readable
<1>5. /\ n \in Nat /\ total \in Nat /\ upos \in 0 .. total /\ size = total
      /\ total = (IF has_mdc THEN n + MdcSize ELSE n)
      /\ ~ended => Len(Stream) = upos
      /\ ended => has_mdc /\ Len(Stream) = n
    BY <1>4, Reached, Zenon
<1>6. /\ got = <<>> /\ want <= Header + 1 /\ (~ra => want = size)
      /\ cache = <<>> \/ upos = total
    BY <1>3, <1>4, Zenon DEF Asked
<1>7. /\ out = <<>> /\ Len(cache) < want /\ cache \in Seq(Int) /\ Len(cache) \in Nat /\ want \in Nat
      /\ Len(Stream) = Len(cache) /\ n > 0
    <2>1. op # "read"
        BY <1>3
    <2>2. out = <<>> /\ Len(cache) < want
        BY <1>3, <2>1, Zenon DEF IInv, Calls
    <2>3. cache \in Seq(Int) /\ want \in 0 .. CacheSize /\ Len(cache) \in 0 .. CacheSize /\ Header <= n
        BY Types, Zenon
    <2>4. Len(Stream) = Len(got) + Len(out) + Len(cache)
        BY StreamLength
    <2>5. Len(<<>>) = 0
        OBVIOUS
    <2>6. Len(got) = 0 /\ Len(out) = 0
        BY <1>6, <2>2, <2>5, Zenon
    <2> QED BY <1>5, <2>2, <2>3, <2>4, <2>6, Sizes
<1>8. len \in Nat /\ len > 0
    BY <1>1, <1>6, <1>7, Sizes
<1>9. ended => upos = total
    <2> SUFFICES ASSUME ended, cache = <<>> PROVE FALSE
        BY <1>6, Zenon
    <2>1. Len(cache) = 0
        OBVIOUS
    <2> QED BY <1>5, <1>7, <2>1
<1>10. (~ended /\ upos # total) => upos = 0 /\ Len(cache) = 0 /\ (len = CacheSize \/ len = total - upos)
    <2> SUFFICES ASSUME ~ended, upos # total
                 PROVE  upos = 0 /\ Len(cache) = 0 /\ (len = CacheSize \/ len = total - upos)
        OBVIOUS
    <2>1. Len(cache) = 0
        BY <1>6
    <2>2. upos = 0
        BY <1>5, <1>7, <2>1
    <2>3. CASE ra
        BY <1>1, <2>1, <2>2, <2>3, Sizes
    <2>4. CASE ~ra
        <3>1. len = want - Len(cache) /\ want = total
            BY <1>1, <1>5, <1>6, <2>4, Zenon
        <3> QED BY <1>5, <2>1, <2>2, <3>1
    <2> QED BY <2>3, <2>4
<1>11. Stream' = Stream \o x.data
    <2>1. PICK d \in Seq(Int) : d = x.data
        BY <1>8, ReadOutcome, Zenon DEF Outcome
    <2>2. PICK r \in Seq(Int) : r = got \o out
        <3>1. got \in Seq(Int) /\ out \in Seq(Int)
            BY Types, Zenon
        <3> QED BY <3>1, ConcatFacts, Zenon
    <2>3. (r \o cache) \o d = r \o (cache \o d)
        BY <1>7, Assoc, Zenon
    <2> QED BY <1>2, <1>3, <2>1, <2>2, <2>3, Zenon DEF Stream
<1>12. /\ Answered(x, len) /\ Outcome(x, len) /\ x.ret \in 0 .. len
       /\ (InOrder)' /\ (CodeIsWhole)' /\ Len(Stream') = Len(Stream) + x.ret
       /\ upos' = x.upos /\ ended' = x.ended /\ (ended => ended')
    BY <1>2, <1>3, <1>8, <1>9, <1>10, <1>11, AnswerStep, Zenon
<1>13. n' = n /\ total' = total /\ has_mdc' = has_mdc /\ consumer' = consumer /\ size' = size
    BY <1>3, SameMessage, Zenon
<1>14. (Running)'
    <2>1. ret' >= 0
        <3>1. ret >= 0
            BY <1>4, Zenon DEF Running
        <3> QED BY <1>2, <1>7, <1>8, <1>12, <3>1
    <2> QED BY <1>3, <1>4, <2>1, Zenon DEF Running
<1>15. op' # "read"
    BY <1>2, <1>3
<1>16. (Asked)'
    <2> SUFFICES ASSUME op' = "peek" PROVE upos' = total
        BY <1>3, <1>6, <1>13, <1>15, Zenon DEF Asked
    <2>1. op' # "idle"
        OBVIOUS
    <2>2. x.ret > 0 /\ Len(cache') < want
        BY <1>2, <2>1, Zenon
    <2>3. Len(cache') = Len(cache) + x.ret
        <3>1. PICK d \in Seq(Int) : d = x.data
            BY <1>12, Zenon DEF Outcome
        <3>2. Len(cache \o d) = Len(cache) + Len(d)
            BY <1>7, ConcatFacts, Zenon
        <3>3. Len(d) = IF x.ret < 0 THEN 0 ELSE x.ret
            BY <1>12, <3>1, Zenon DEF Outcome
        <3>4. Len(d) = x.ret
            BY <1>12, <3>3
        <3> QED BY <1>2, <3>1, <3>2, <3>4, Zenon
    <2>4. ~ended
        BY <1>12, <2>2, Zenon DEF Outcome
    <2>5. x.upos \in upos .. total
        BY <1>12, Zenon DEF Outcome
    <2>6. CASE upos = total
        BY <1>5, <1>12, <2>5, <2>6
    <2>7. CASE upos # total
        <3>1. upos = 0 /\ Len(cache) = 0 /\ (len = CacheSize \/ len = total)
            BY <1>5, <1>10, <2>4, <2>7
        <3>2. x.ret < want /\ x.ret < CacheSize /\ x.ret <= Header
            BY <1>6, <1>7, <1>12, <2>2, <2>3, <3>1, Sizes
        <3>3. ASSUME x.upos = upos + x.ret, x.ret = len PROVE x.upos = total
            <4>1. len # CacheSize
                BY <3>2, <3>3, Sizes
            <4>2. len = total
                BY <3>1, <4>1, Zenon
            <4> QED BY <1>5, <3>1, <3>3, <4>2
        <3>4. CASE x.upos = total
            BY <1>12, <3>4, Zenon
        <3>5. CASE has_mdc /\ x.ret = n - upos /\ x.upos = upos + len /\ x.upos # total
            <4>1. upos + len = len
                BY <1>8, <3>1
            <4>2. len # total
                BY <3>5, <4>1, Zenon
            <4>3. len = CacheSize /\ x.upos = CacheSize
                BY <3>1, <3>5, <4>1, <4>2, Zenon
            <4>4. n - upos = n /\ total = n + MdcSize /\ x.upos <= total
                BY <1>5, <2>5, <3>1, <3>5
            <4>5. x.ret = n /\ CacheSize <= n + MdcSize
                BY <3>5, <4>3, <4>4, Zenon
            <4> QED BY <1>5, <3>2, <4>5, Sizes
        <3>6. x.ret # 0
            BY <2>2, <1>12
        <3> QED BY <1>12, <2>4, <3>3, <3>4, <3>5, <3>6, Zenon DEF Answered
    <2> QED BY <2>6, <2>7
<1>17. (InChunks)'
    BY <1>3, <1>4, <1>12, <1>13, <1>15, Zenon DEF InChunks, Chunk
<1>18. (Complete)'
    BY <1>3, <1>4, <1>12, <1>13, Zenon DEF Complete
<1> QED BY <1>12, <1>14, <1>16, <1>17, <1>18, Zenon DEF Undisturbed

\* The header and whole chunks do not fill a cache several times.
LEMMA NotAligned ==
    ASSUME NEW i \in Nat, NEW q \in Nat
    PROVE  Header + Chunk * i # CacheSize * q
<1> SUFFICES ASSUME Header + Chunk * i = CacheSize * q PROVE FALSE
    OBVIOUS
<1>1. PICK c \in Nat \ {0} : c = Chunk
    BY Sizes
<1>2. PICK k \in Nat : k = 2 * q
    OBVIOUS
<1>3. CacheSize * q = c * k
    BY <1>1, <1>2, Sizes
<1>4. Header + c * i = c * k /\ Header \in Nat \ {0} /\ Header < c
    BY <1>1, <1>3, Sizes
<1>5. CASE i < k
    <2>1. c * i + c <= c * k
        BY <1>5, Multiples
    <2>2. c * i \in Nat
        OBVIOUS
    <2> QED BY <1>4, <2>1, <2>2
<1>6. CASE k <= i
    <2>1. c * k <= c * i
        <3>1. CASE k = i
            BY <3>1
        <3>2. CASE k < i
            <4>1. c * k + c <= c * i
                BY <3>2, Multiples
            <4>2. c * k \in Nat /\ c * i \in Nat
                OBVIOUS
            <4> QED BY <4>1, <4>2
        <3> QED BY <1>6, <3>1, <3>2
    <2>2. c * i \in Nat
        OBVIOUS
    <2> QED BY <1>4, <2>1, <2>2
<1> QED BY <1>5, <1>6

\* A consumer that has all of the plaintext, or has seen the end of the data,
\* has made the code be checked.
LEMMA SatisfiedIsComplete ==
    ASSUME IInv, Readable, Undisturbed, Satisfied
    PROVE  Len(got) = n /\ (has_mdc => ended)
<1>1. Running /\ CodeIsWhole /\ InChunks /\ Complete /\ Intact /\ ~Unlucky
    BY Zenon DEF Undisturbed, Readable
<1>2. CASE eof
    BY <1>1, <1>2, Zenon DEF Complete
<1>3. CASE consumer # "signed" /\ Missing <= 0
    <2>1. /\ n \in Nat /\ total \in Nat /\ upos \in 0 .. total
          /\ total = (IF has_mdc THEN n + MdcSize ELSE n)
          /\ ~ended => Len(Stream) = upos
          /\ Len(Stream) <= n
        BY <1>1, Reached, Zenon
    <2>2. Len(got) \in Nat /\ Len(got) <= Len(Stream) /\ Len(Stream) \in Nat /\ Header <= n
        <3>1. Len(got) \in Nat /\ Len(out) \in 0 .. CacheSize /\ Len(cache) \in 0 .. CacheSize /\ Header <= n
            BY Types, Zenon
        <3>2. Len(Stream) = Len(got) + Len(out) + Len(cache)
            BY StreamLength
        <3> QED BY <3>1, <3>2, Sizes
    <2>3. Len(got) = n /\ Len(Stream) = n
        BY <1>3, <2>1, <2>2 DEF Missing
    <2>4. ASSUME has_mdc, ~ended PROVE FALSE
        <3>1. upos = n /\ total = n + MdcSize
            BY <2>1, <2>3, <2>4, Zenon
        <3>2. upos # total
            BY <2>1, <3>1, Sizes
        <3>3. PICK q \in 0 .. total : upos = CacheSize * q
            BY <1>1, <2>4, <3>2, Zenon DEF CodeIsWhole, Aligned
        <3>4. q \in Nat /\ MdcSize \in 0 .. MdcSize /\ total = CacheSize * q + MdcSize
            BY <2>1, <3>1, <3>3, Sizes
        <3>5. total % CacheSize = MdcSize
            BY <2>1, <3>4, WithinCode, Zenon
        <3>6. consumer # "literal"
            BY <1>1, <2>4, <3>5, Zenon DEF Unlucky
        <3>7. consumer = "compressed"
            <4>1. consumer \in {"literal", "compressed", "signed"}
                BY Zenon DEF IInv, BytesOK
            <4> QED BY <1>3, <3>6, <4>1
        <3>8. got = <<>> \/ \E i \in 0 .. n : Len(got) = Header + Chunk * i
            BY <1>1, <2>4, <3>7, Zenon DEF InChunks
        <3>9. got # <<>>
            <4>1. Len(got) # 0
                BY <2>2, <2>3, Sizes
            <4>2. Len(<<>>) = 0
                OBVIOUS
            <4> QED BY <4>1, <4>2, Zenon
        <3>10. PICK i \in 0 .. n : Len(got) = Header + Chunk * i
            BY <3>8, <3>9, Zenon
        <3>11. i \in Nat
            BY <2>1
        <3>12. Header + Chunk * i # CacheSize * q
            BY <3>4, <3>11, NotAligned, Zenon
        <3> QED BY <2>3, <3>1, <3>3, <3>10, <3>12, Zenon
    <2> QED BY <2>3, <2>4
<1> QED BY <1>2, <1>3, Zenon DEF Satisfied

\* No read of an unaltered message fails, and its end does not come too early.
LEMMA NotStarved ==
    ASSUME IInv, Undisturbed PROVE ~Starved
<1>1. n \in Nat /\ Header <= n /\ Len(got) \in Nat /\ Header \in Nat
    BY Types, Zenon
<1>2. ret >= 0 /\ ret \in -1 .. CacheSize
    BY Types, Zenon DEF Undisturbed, Running
<1>3. ~(ret < 0)
    BY <1>2, Sizes
<1>4. eof => ~InHeader /\ ~(Missing > 0)
    <2>1. eof => Len(got) = n
        BY Zenon DEF Undisturbed, Complete
    <2> QED BY <1>1, <2>1 DEF InHeader, Missing
<1> QED BY <1>3, <1>4, Zenon DEF Starved

\* The consumer stops.
LEMMA StopsSmooth ==
    ASSUME IInv, Readable, Undisturbed, ConsumerStops PROVE Undisturbed'
<1>1. /\ op = "idle" /\ phase' = "stopped" /\ failed' = Starved
      /\ UNCHANGED msgVars /\ UNCHANGED decVars /\ cache' = cache /\ readb' = readb /\ eof' = eof
      /\ op' = op /\ want' = want /\ ra' = ra /\ out' = out /\ ret' = ret /\ got' = got
    BY Zenon DEF ConsumerStops, srcVars, callVars
<1>2. ~Starved
    BY NotStarved
<1>3. Len(got) = n /\ (has_mdc => ended)
    BY <1>2, SatisfiedIsComplete, Zenon DEF ConsumerStops
<1>4. Running /\ InOrder /\ CodeIsWhole /\ InChunks
    BY Zenon DEF Undisturbed
<1>5. (Running)'
    BY <1>1, <1>2, <1>4, Zenon DEF Running
<1>6. Stream' = Stream
    BY <1>1, Zenon DEF Stream
<1>7. (InOrder)' /\ (CodeIsWhole)'
    BY <1>1, <1>4, <1>6, StillWhole, Zenon
<1>8. n' = n /\ has_mdc' = has_mdc /\ consumer' = consumer /\ ended' = ended
    BY <1>1, SameMessage, Zenon DEF decVars
<1>9. op' # "read" /\ op' # "peek" /\ phase' # "finished"
    BY <1>1
<1>10. (Asked)'
    BY <1>9, Zenon DEF Asked
<1>11. (InChunks)'
    BY <1>1, <1>4, <1>8, <1>9, Zenon DEF InChunks, Chunk
<1>12. (Complete)'
    BY <1>1, <1>3, <1>8, <1>9, Zenon DEF Complete
<1> QED BY <1>5, <1>7, <1>10, <1>11, <1>12, Zenon DEF Undisturbed

\* encrypted_src_finish finds the code validated.
LEMMA FinishSmooth ==
    ASSUME IInv, Readable, Undisturbed, encrypted_src_finish PROVE Undisturbed'
<1>1. /\ op = "idle" /\ phase = "stopped" /\ phase' = "finished"
      /\ result' = (IF has_mdc /\ ~mdc_validated THEN "bad_state" ELSE "success")
      /\ UNCHANGED msgVars /\ UNCHANGED decVars /\ cache' = cache /\ readb' = readb /\ eof' = eof
      /\ op' = op /\ want' = want /\ ra' = ra /\ out' = out /\ ret' = ret
      /\ got' = got /\ failed' = failed
    BY Zenon DEF encrypted_src_finish, srcVars, callVars
<1>2. Running /\ InOrder /\ CodeIsWhole /\ InChunks /\ Complete
    BY Zenon DEF Undisturbed
<1>3. phase # "reading"
    BY <1>1
<1>4. Len(got) = n /\ (has_mdc => ended)
    BY <1>2, <1>3, Zenon DEF Complete
<1>5. result' = "success"
    BY <1>1, <1>2, <1>4, Zenon DEF CodeIsWhole
<1>6. Stream' = Stream /\ (Running)'
    BY <1>1, <1>2, Zenon DEF Stream, Running
<1>7. (InOrder)' /\ (CodeIsWhole)'
    BY <1>1, <1>2, <1>6, StillWhole, Zenon
<1>8. n' = n /\ has_mdc' = has_mdc /\ consumer' = consumer /\ ended' = ended
    BY <1>1, SameMessage, Zenon DEF decVars
<1>9. op' # "read" /\ op' # "peek"
    BY <1>1
<1>10. (Asked)'
    BY <1>9, Zenon DEF Asked
<1>11. (InChunks)'
    BY <1>1, <1>2, <1>8, <1>9, Zenon DEF InChunks, Chunk
<1>12. (Complete)'
    BY <1>1, <1>4, <1>5, <1>8, Zenon DEF Complete
<1> QED BY <1>6, <1>7, <1>10, <1>11, <1>12, Zenon DEF Undisturbed

\* A new source has read nothing.
LEMMA InitSmooth == Init => Smooth
<1> SUFFICES ASSUME Init, Readable PROVE Undisturbed
    BY Zenon DEF Smooth
<1>1. /\ upos = 0 /\ ended = FALSE /\ cache = <<>> /\ eof = FALSE
      /\ op = "idle" /\ out = <<>> /\ ret = 0
      /\ got = <<>> /\ phase = "reading" /\ failed = FALSE
    BY Zenon DEF Init
<1>2. n \in Nat /\ total \in Nat /\ total = (IF has_mdc THEN n + MdcSize ELSE n)
    <2>1. n \in Header .. MaxPlain /\ MaxPlain \in Nat
        BY EncryptedAssumption DEF Init
    <2>2. n \in Nat
        BY <2>1, Sizes
    <2> QED BY <2>2, Sizes DEF Readable, Intact, size
<1>3. Stream = <<>>
    <2>1. <<>> \in Seq(Int)
        OBVIOUS
    <2>2. <<>> \o <<>> = <<>>
        BY <2>1, NoBytes
    <2> QED BY <1>1, <2>2, Zenon DEF Stream
<1>4. Running /\ InOrder
    <2>1. \A i \in DOMAIN <<>> : FALSE
        OBVIOUS
    <2>2. ret >= 0
        BY <1>1
    <2> QED BY <1>1, <1>3, <2>1, <2>2, Zenon DEF Running, InOrder
<1>5. CodeIsWhole
    <2>1. 0 \in 0 .. total /\ 0 = CacheSize * 0
        BY <1>2, Sizes
    <2>2. Aligned(upos)
        BY <1>1, <2>1, Zenon DEF Aligned
    <2>3. has_mdc => upos + MdcSize <= total
        BY <1>1, <1>2, Sizes
    <2> QED BY <1>1, <2>2, <2>3, Zenon DEF CodeIsWhole
<1>6. Asked /\ InChunks /\ Complete
    <2>1. op # "read" /\ op # "peek" /\ phase # "finished"
        BY <1>1
    <2> QED BY <1>1, <2>1, Zenon DEF Asked, InChunks, Complete
<1> QED BY <1>4, <1>5, <1>6, Zenon DEF Undisturbed

LEMMA StutterSmooth ==
    ASSUME Undisturbed, UNCHANGED vars PROVE Undisturbed'
<1>1. /\ UNCHANGED msgVars /\ UNCHANGED decVars /\ cache' = cache /\ readb' = readb /\ eof' = eof
      /\ op' = op /\ want' = want /\ ra' = ra /\ out' = out /\ ret' = ret
      /\ got' = got /\ phase' = phase /\ failed' = failed /\ result' = result
    BY Zenon DEF vars, srcVars, callVars, conVars
<1>2. /\ n' = n /\ total' = total /\ has_mdc' = has_mdc /\ consumer' = consumer /\ size' = size
      /\ upos' = upos /\ ended' = ended
    BY <1>1, SameMessage, Zenon DEF decVars
<1>3. Stream' = Stream
    BY <1>1, Zenon DEF Stream
<1>4. (InOrder)' /\ (CodeIsWhole)'
    BY <1>1, <1>3, StillWhole, Zenon DEF Undisturbed
<1>5. (Running)' /\ (Asked)' /\ (Complete)'
    BY <1>1, <1>2, Zenon DEF Undisturbed, Running, Asked, Missing, Complete
<1>6. (InChunks)'
    BY <1>1, <1>2, Zenon DEF Undisturbed, InChunks, Chunk
<1> QED BY <1>4, <1>5, <1>6, Zenon DEF Undisturbed

\* An unaltered message of a length that is not unlucky is read without an
\* error for as long as its body can be read, whatever is asked for.
THEOREM ReadsSmoothly == Spec => []Smooth
<1>1. ASSUME IInv, Smooth, [Next]_vars PROVE Smooth'
    <2> SUFFICES ASSUME Readable' PROVE Undisturbed'
        BY Zenon DEF Smooth
    <2>1. ~iofail'
        BY Zenon DEF Readable
    <2>2. ASSUME UNCHANGED msgVars, iofail => iofail' PROVE Readable /\ Undisturbed
        BY <1>1, <2>2, ReadableBefore, Zenon DEF Smooth
    <2>3. CASE ConsumerPeeks
        <3>1. UNCHANGED msgVars /\ iofail' = iofail
            BY <2>3, Zenon DEF ConsumerPeeks, src_peek
        <3> QED BY <1>1, <2>2, <2>3, <3>1, PeekSmooth, Zenon
    <2>4. CASE ConsumerReads
        <3>1. UNCHANGED msgVars /\ iofail' = iofail
            BY <2>4, Zenon DEF ConsumerReads, src_read
        <3> QED BY <1>1, <2>2, <2>4, <3>1, ReadSmooth, Zenon
    <2>5. CASE src_read_loop
        <3>1. UNCHANGED msgVars
            BY <2>5, Zenon DEF src_read_loop
        <3>2. iofail => iofail'
            <4>1. PICK len : \E y \in encrypted_src_read(len) : Took(y) /\ len \in Nat
                <5>1. PICK k : k = IF want - Len(out) > CacheSize \/ ~ra THEN want - Len(out) ELSE CacheSize
                    OBVIOUS
                <5>2. \E y \in encrypted_src_read(k) : Took(y)
                    BY <2>5, <5>1, Zenon DEF src_read_loop
                <5>3. k \in Nat
                    <6>1. Len(out) < want /\ Len(out) \in 0 .. CacheSize /\ want \in 0 .. CacheSize
                        BY <1>1, <2>5, Types, Zenon DEF src_read_loop, IInv, Calls
                    <6> QED BY <5>1, <6>1, Sizes
                <5> QED BY <5>2, <5>3, Zenon
            <4>2. PICK y \in encrypted_src_read(len) : Took(y) /\ len \in Nat
                BY <4>1, Zenon
            <4>3. iofail' = y.iofail /\ (iofail => y.iofail)
                BY <1>1, <4>2, ReadOutcome, Zenon DEF Took, Flags
            <4> QED BY <4>3, Zenon
        <3> QED BY <1>1, <2>1, <2>2, <2>5, <3>1, <3>2, ReadLoopSmooth, Zenon
    <2>6. CASE src_peek_loop
        <3>1. UNCHANGED msgVars
            BY <2>6, Zenon DEF src_peek_loop
        <3>2. iofail => iofail'
            <4>1. PICK len : \E y \in encrypted_src_read(len) : Took(y) /\ len \in Nat
                <5>1. PICK k : k = IF ra THEN CacheSize - Len(cache) ELSE want - Len(cache)
                    OBVIOUS
                <5>2. \E y \in encrypted_src_read(k) : Took(y)
                    BY <2>6, <5>1, Zenon DEF src_peek_loop
                <5>3. k \in Nat
                    <6>1. Len(cache) < want /\ Len(cache) \in 0 .. CacheSize /\ want \in 0 .. CacheSize
                        BY <1>1, <2>6, Types, Zenon DEF src_peek_loop, IInv, Calls
                    <6> QED BY <5>1, <6>1, Sizes
                <5> QED BY <5>2, <5>3, Zenon
            <4>2. PICK y \in encrypted_src_read(len) : Took(y) /\ len \in Nat
                BY <4>1, Zenon
            <4>3. iofail' = y.iofail /\ (iofail => y.iofail)
                BY <1>1, <4>2, ReadOutcome, Zenon DEF Took, Flags
            <4> QED BY <4>3, Zenon
        <3> QED BY <1>1, <2>1, <2>2, <2>6, <3>1, <3>2, PeekLoopSmooth, Zenon
    <2>7. CASE ConsumerStops
        <3>1. UNCHANGED msgVars /\ iofail' = iofail
            BY <2>7, Zenon DEF ConsumerStops
        <3> QED BY <1>1, <2>2, <2>7, <3>1, StopsSmooth, Zenon
    <2>8. CASE SignedReadsOn
        <3>1. UNCHANGED msgVars /\ iofail' = iofail /\ failed
            BY <2>8, Zenon DEF SignedReadsOn, src_read
        <3> QED BY <2>2, <3>1, Zenon DEF Undisturbed, Running
    <2>9. CASE encrypted_src_finish
        <3>1. UNCHANGED msgVars /\ iofail' = iofail
            BY <2>9, Zenon DEF encrypted_src_finish
        <3> QED BY <1>1, <2>2, <2>9, <3>1, FinishSmooth, Zenon
    <2>10. CASE UNCHANGED vars
        <3>1. UNCHANGED msgVars /\ iofail' = iofail
            BY <2>10, Zenon DEF vars
        <3> QED BY <2>2, <2>10, <3>1, StutterSmooth, Zenon
    <2> QED BY <1>1, <2>3, <2>4, <2>5, <2>6, <2>7, <2>8, <2>9, <2>10, Zenon DEF Next
<1> QED BY InitSmooth, Invariant, <1>1, PTL DEF Spec

\* The two ways of joining three runs of bytes.
EitherWay(a, b, c) == (a \o b) \o c = a \o (b \o c)

\* Joining runs of bytes is associative, with the equation behind a name so that
\* a proof can cite it without rewriting it.
LEMMA GroupsEither ==
    ASSUME NEW a \in Seq(Int), NEW b \in Seq(Int), NEW c \in Seq(Int)
    PROVE  EitherWay(a, b, c)
BY Assoc DEF EitherWay

\* An unaltered message is accepted with all of its plaintext, whatever its
\* consumer asks for and however the reads fall into the cache, unless the body's
\* source fails or the length of the body leaves a remainder by the size of the
\* cache that puts the end of a full cache just before the detection code or
\* into it: for messages and caches of every size.
THEOREM MostAreAccepted == Spec => []MostAccepted
<1>1. IInv /\ Smooth => MostAccepted
    <2> SUFFICES ASSUME IInv, Smooth, phase = "finished", Readable PROVE Accepted
        BY Zenon DEF MostAccepted, Readable
    <2>1. Undisturbed
        BY Zenon DEF Smooth
    <2>2. phase # "reading"
        OBVIOUS
    <2>3. result = "success" /\ ~failed /\ Len(got) = n
        BY <2>1, <2>2, Zenon DEF Undisturbed, Running, Complete
    <2>4. got = Bytes(0, n)
        <3>1. got \in Seq(Int) /\ out \in Seq(Int) /\ cache \in Seq(Int) /\ n \in Nat
            BY Types, Zenon
        <3>2. PICK t \in Seq(Int) : t = Bytes(0, n)
            <4>1. 0 \in Int /\ n \in Int /\ 0 <= n
                BY <3>1
            <4> QED BY <4>1, BytesFacts, Zenon
        <3>3. Len(t) = n /\ \A i \in 1 .. n : t[i] = i - 1
            <4>1. 0 \in Int /\ n \in Int /\ 0 <= n
                BY <3>1
            <4>2. Len(Bytes(0, n)) = n - 0 /\ \A i \in 1 .. n - 0 : Bytes(0, n)[i] = 0 + i - 1
                BY <4>1, BytesFacts, Zenon
            <4> QED BY <3>1, <3>2, <4>2
        <3>4. PICK r \in Seq(Int) : r = out \o cache
            BY <3>1, ConcatFacts, Zenon
        <3>5. Stream = got \o r
            <4>1. EitherWay(got, out, cache)
                BY <3>1, GroupsEither, Zenon
            <4> QED BY <3>4, <4>1, Zenon DEF Stream, EitherWay
        <3>6. /\ Len(got \o r) = Len(got) + Len(r) /\ got \o r \in Seq(Int)
              /\ \A i \in 1 .. Len(got) + Len(r) : (got \o r)[i] = IF i <= Len(got) THEN got[i] ELSE r[i - Len(got)]
            BY <3>1, ConcatFacts, Zenon
        <3>7. \A i \in DOMAIN (got \o r) : (got \o r)[i] = i - 1
            BY <2>1, <3>5, Zenon DEF Undisturbed, InOrder
        <3>8. ASSUME NEW i \in 1 .. Len(got) PROVE got[i] = t[i]
            <4>1. Len(got) \in Nat /\ Len(r) \in Nat
                BY <3>1
            <4>2. i \in 1 .. Len(got) + Len(r) /\ i <= Len(got) /\ i \in DOMAIN (got \o r)
                BY <3>6, <4>1
            <4>3. got[i] = i - 1
                BY <3>6, <3>7, <4>2, Zenon
            <4> QED BY <2>3, <3>3, <4>3, Zenon
        <3>9. Len(got) = Len(t)
            BY <2>3, <3>3, Zenon
        <3>10. got = t
            BY <3>1, <3>8, <3>9, SameBytes, Zenon
        <3> QED BY <3>2, <3>10, Zenon
    <2> QED BY <2>3, <2>4, Zenon DEF Accepted
<1> QED BY Invariant, ReadsSmoothly, <1>1, PTL
=============================================================================
