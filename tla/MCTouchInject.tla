--------------------------- MODULE MCTouchInject ---------------------------
(* TouchInject with one slot more on the panel than is forwarded, and       *)
(* batches that end inside a packet.                                        *)
EXTENDS TouchInject
MCPanelSlots == 0 .. NSlot
=============================================================================
