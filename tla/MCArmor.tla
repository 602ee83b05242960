------------------------------- MODULE MCArmor -------------------------------
(* Data and texts for TLC: lengths around the quanta of base64, the lines and *)
(* the blocks; texts with every order of dashes, blanks and ends of line.      *)
EXTENDS Armor

A(type, data) == [kind |-> "armor", type |-> type, data |-> data]
Long(n, end) == [i \in 1 .. n |-> 26] \o end
Texts == SeqOf({26, Dash, SP, CR, LF}, 3)
           \cup {<<26, SP, SP, LF, 26>>, <<26, 26, 26, SP>>, <<LF, SP, CR, LF, Dash>>, <<26, 26, SP, SP, LF, Dash>>}
           \cup {Long(14, <<>>), Long(14, <<26, SP, LF>>), Long(13, <<SP, 26, LF>>), Long(13, <<SP, LF, 26>>),
                 Long(13, <<CR, LF, Dash>>), Long(12, <<SP, SP, SP, LF>>), Long(28, <<Dash>>), Long(13, <<CR>>)}
MCDocs ==
    {A("MESSAGE", SubSeq(<<77, 0, 255, 3, 128, 65, 254, 1, 19, 0, 34>>, 1, n)) : n \in {0, 1, 2, 3, 5, 6, 9, 10, 11}}
      \cup {A("key", <<1, 2, 3, 4>>), A("PUBLIC KEY BLOCK", <<9>>)}
      \cup {[kind |-> "clear", type |-> "SIGNED MESSAGE", data |-> t] : t \in Texts}
\* Damage: data that end in each way, and a text with an escaped dash.
MCFragile == {x \in MCDocs : (x.kind = "armor" /\ Len(x.data) \in {1, 5, 6}) \/ x.data \in {<<Dash>>, <<26, LF>>}}
MCSig == <<200, 100>>
=============================================================================
