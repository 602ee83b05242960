------------------------------ MODULE MCG10Keys ------------------------------
(* Keys with numbers of which the highest bit is set, and one with a number *)
(* that is its own name.  Another program has saved an ElGamal key without  *)
(* protection, or a protected DSA key.                                      *)
EXTENDS G10Keys

RsaKey == [id |-> "r", alg |-> "rsa", pub |-> [n |-> <<200, 1>>, e |-> <<1>>],
           sec |-> [d |-> <<2>>, p |-> <<3>>, q |-> <<129>>, u |-> <<5>>]]
OddKey == [RsaKey EXCEPT !.id = "o", !.pub = [n |-> <<201>>, e |-> <<101>>]]
DsaKey == [id |-> "d", alg |-> "dsa",
           pub |-> [p |-> <<11>>, q |-> <<12>>, g |-> <<13>>, y |-> <<133>>],
           sec |-> [x |-> <<14>>]]
ElgKey == [id |-> "l", alg |-> "elg", pub |-> [p |-> <<21>>, g |-> <<22>>, y |-> <<133>>],
           sec |-> [x |-> <<24>>]]
MCKeys == {RsaKey, OddKey, DsaKey, ElgKey}
MCDirectories == {<<"l", 0>> :> g10_write_seckey(ElgKey, NoPassword, 9),
                  <<"d", 0>> :> g10_write_seckey(DsaKey, "p", 9)}
=============================================================================
