------------------------------ MODULE MCOutgoing ------------------------------
EXTENDS Outgoing
\* Keys of every kind that is written; numbers of 3 bytes, one that is too long.
Key(alg) == [alg |-> alg, version |-> 4, usage |-> 0, spec |-> "none", n |-> 3, curve |-> TRUE, secret |-> TRUE]
Algs == {"RSA", "RSA_SIGN_ONLY", "DSA", "ECDSA", "EDDSA", "SM2", "ECDH", "ELGAMAL"}
Doc(name, pieces) == [len |-> FoldLeft(LAMBDA a, n : a + n, 0, pieces), name |-> name, pieces |-> pieces]
Do(name, key, doc, armor, clear) == [name |-> name, key |-> key, doc |-> doc, armor |-> armor, clear |-> clear, compress |-> FALSE, hash |-> 32]
Text == Doc(1, <<3>>)

Signing == {Do(n, Key("RSA"), Text, a, FALSE) : n \in {"sign_file", "sign_buf", "sign_detached", "sign_memory_detached"}, a \in BOOLEAN}
             \cup {Do(n, Key("RSA"), Text, FALSE, TRUE) : n \in {"sign_file", "sign_buf"}}
             \cup {Do("sign_memory_detached", Key(alg), Text, FALSE, FALSE) : alg \in Algs \ {"RSA"}}
             \cup {Do("sign_detached", k, Text, FALSE, FALSE) :
                     k \in {[Key("RSA") EXCEPT !.secret = FALSE], Key("DSA"), [Key("ECDSA") EXCEPT !.curve = FALSE]}}
Encrypting == {Do("encrypt_buf", k, Text, FALSE, FALSE) : k \in {Key(alg) : alg \in Algs} \cup {[Key("RSA") EXCEPT !.n = 9000]}}
             \cup {Do(n, Key("RSA"), d, TRUE, FALSE) : n \in {"encrypt_file", "encrypt_buf"}, d \in {Text, Doc(300, <<3>>)}}
             \cup {[Do("encrypt_buf", Key("RSA"), d, FALSE, FALSE) EXCEPT !.compress = TRUE] : d \in {Text, Doc(0, <<40>>), Doc(0, <<0>>)}}
             \cup {Do("encrypt_file", Key("RSA"), d, FALSE, FALSE) :
                     d \in {Doc(0, <<64>>), Doc(0, <<171>>), Doc(2, <<100>>), Doc(300, <<100>>), Doc(0, <<9, 5, 40, 90>>),
                            [Doc(0, <<30, 1>>) EXCEPT !.len = 64], [Doc(300, <<30>>) EXCEPT !.len = 64],
                            Doc(0, <<200, 7, 0>>), Doc(0, <<313>>), Doc(0, <<314, 9>>), Doc(5, <<600>>)}}
Generated == {Key(alg) : alg \in {"RSA", "DSA", "ECDSA", "EDDSA", "SM2", "ECDH"}}
Protected == {[Key("DSA") EXCEPT !.usage = u, !.spec = s] : u \in {254, 255}, s \in {"simple", "salted", "iterated", "other"}}
MCOps ==
    Signing \cup Encrypting
      \cup {Do(n, k, Text, FALSE, FALSE) : n \in {"generate_primary", "generate_subkey"}, k \in Generated}
      \cup {Do("key_to_rawpacket", k, Text, FALSE, FALSE) : k \in Protected \cup {Key(alg) : alg \in Algs}}
      \cup {Do("export_key", Key("RSA"), Text, TRUE, FALSE)}
      \cup {Do("export_public_key", Key("RSA"), Text, a, FALSE) : a \in BOOLEAN}
=============================================================================
