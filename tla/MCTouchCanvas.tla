--------------------------- MODULE MCTouchCanvas ---------------------------
(* TouchCanvas with two fingers and one circle; points near both borders and *)
(* one that lies outside the default size; sizes to change and change back.  *)
EXTENDS TouchCanvas
MCIds    == {0, 1}
MCPoints == {0, 4}
MCSizes  == {0, 4, 6}
=============================================================================
