------------------------------ MODULE RingFile ------------------------------
(***************************************************************************)
(* What saving a key ring promises: the file of a ring is replaced in one  *)
(* step by the image that was to be saved, or it stays what it was,        *)
(* whenever the program fails or crashes.  The one exception is an error   *)
(* that shows only when the file is closed: part of the image is lost.     *)
(***************************************************************************)
EXTENDS Sequences

CONSTANTS
    Nothing,   \* no save is under way
    Torn(_)    \* what may be left of the image of a save that was not written to its end

VARIABLES
    file,      \* the files of the rings
    want       \* the save under way: its ring and the image, or Nothing
vars == <<file, want>>

Init == want = Nothing

Begin == want = Nothing /\ want' # Nothing /\ UNCHANGED file
Commit(image) ==
    /\ want # Nothing /\ want' = Nothing
    /\ file' = [file EXCEPT ![want.ring] = image]
Abort == want # Nothing /\ want' = Nothing /\ UNCHANGED file

Next == Begin \/ (want # Nothing /\ \E image \in {want.image} \cup Torn(want) : Commit(image)) \/ Abort

Spec == Init /\ [][Next]_vars
=============================================================================
