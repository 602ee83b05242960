---------------------------- MODULE MCKeyStore ----------------------------
EXTENDS KeyStore
K(n) == KeyPacket(n, FALSE)
S(n) == KeyPacket(n, TRUE)
MCFresh == <<"N", "n">>
U == Packet("uid")
G == Packet("sig")
H == Packet("half")
MCFiles == {<<>>, <<<<K("A"), U, K("a")>>>>, <<<<K("B")>>, <<Packet("x509")>>>>, <<<<K("A"), G, H, Packet("odd"), K("B"), G>>>>}
MCImports == {<<<<K("A"), G, H, K("b")>>>>, <<<<S("B"), K("B"), K("b")>>>>, <<<<S("C"), S("c")>>, <<K("C"), K("c")>>, <<K("C"), K("b")>>>>, <<<<K("c"), H, Packet("stop")>>>>}
=============================================================================
