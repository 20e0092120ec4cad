---------------------------- MODULE MCTouchDraw -----------------------------
(* TouchDraw with one slot more on the panel than the program knows, batches*)
(* that end inside a packet, and squares that cover a part of a circle.     *)
EXTENDS TouchDraw
MCPanelSlots == 0 .. NSlot
MCSpots      == {{1}, {PanelW - 1}}
=============================================================================
