---------------------------- MODULE MCStreamWrite ----------------------------
(* Small stacks of destinations, and packets of every kind and size.       *)
EXTENDS StreamWrite

MCRecipients ==
    {[who |-> "alice", known |-> TRUE, usable |-> TRUE, alg |-> "RSA"], [who |-> "bob", known |-> TRUE, usable |-> TRUE, alg |-> "RSA-E"],
     [who |-> "carol", known |-> TRUE, usable |-> FALSE, alg |-> "DSA"]}

Mpi(bits) == [bits |-> bits, exact |-> TRUE]
Mpi2(a, b) == <<Mpi(a), Mpi(b)>>
MpiLists == {Mpi2(a, b) : a \in {1, 8, 2048}, b \in {9, 512}} \cup {Mpi2(0, 8), Mpi2(16385, 8), <<[bits |-> 7, exact |-> FALSE], Mpi(8)>>}

SkPackets == [kind : {"sk"}, version : {4, 5}, spec : {"simple", "salted", "iterated", "other"}, key : {0, 1, 33, 34}]
PkPackets == [kind : {"pk"}, version : {2, 3}, alg : Writable \cup {"DSA"}, mpis : MpiLists, wrapped : {48, 49}]
OnePass == [kind : {"onepass"}, version : {3, 4}]
PkLen(p) == 10 + FoldLeft(LAMBDA n, m : n + 2 + MpiBytes(m), 0, SubSeq(p.mpis, 1, PkMpis(p.alg))) + IF p.alg = "ECDH" THEN 1 + p.wrapped ELSE 0
SkLen(p) == 4 + p.key + SaltLen(p.spec)

Sub(type, critical, len, value) == [type |-> type, critical |-> critical, len |-> len, fits |-> TRUE, value |-> value]
HashedAreas == {<<>>, <<Sub("creation", FALSE, 4, 1)>>, <<Sub("creation", FALSE, 4, 1), Sub("expiration", FALSE, 4, 2)>>,
                <<Sub("unknown", TRUE, 3, 0)>>, <<Sub("notation", FALSE, 9000, 0)>>, <<Sub("flags", FALSE, 0, 0)>>, <<Sub("unknown", FALSE, 191, 0)>>}
UnhashedAreas == {<<>>, <<Sub("none", FALSE, -1, 0), Sub("issuer", FALSE, 8, 4)>>, <<Sub("creation", FALSE, 4, 3)>>, <<Sub("issuer", FALSE, 8, 4), Sub("expiration", FALSE, 4, 5)>>}
SigPackets ==
    UNION {{[kind |-> "sig", version |-> v, fixed |-> 5, time |-> 9, alg |-> alg, mpis |-> ms, hashed |-> h, unhashed |-> u,
             hashedlen |-> AreaLen(h) - cut, unhashedlen |-> AreaLen(u)] :
              v \in {3, 4}, alg \in {"RSA", "DSA", "ElGamal"}, ms \in {Mpi2(8, 9), Mpi2(2048, 2048), Mpi2(0, 8)},
              u \in UnhashedAreas, cut \in IF h = <<>> THEN {0} ELSE {0, 1}} : h \in HashedAreas}
SigLen(p) ==
    (IF p.version = 4 THEN 8 + p.hashedlen + p.unhashedlen ELSE 17) + 2
      + FoldLeft(LAMBDA n, m : n + 2 + MpiBytes(m), 0, SubSeq(p.mpis, 1, SigMpis(p.alg)))

\* lens: the lengths that are announced, other than the right one.
Base(p, len, written) == p @@ [natural |-> len, written |-> written]
GoodMpis(p) == \A i \in 1 .. PkMpis(p.alg) : p.mpis[i].exact /\ p.mpis[i].bits \in 1 .. PGP_MPINT_BITS
MCForms == {-1, 0, 2}
MCGiven ==
    {Base(p, SkLen(p), p.version = 4 /\ p.spec # "other" /\ p.key # 34) : p \in SkPackets}
      \cup {Base(p, PkLen(p), p.version = 3 /\ p.alg \in Writable /\ GoodMpis(p) /\ p.wrapped <= 48) : p \in PkPackets}
      \cup {Base(p, 13, p.version = 3) : p \in OnePass}
      \cup {Base(p, SigLen(p), FALSE) : p \in SigPackets}
=============================================================================
