----------------------------- MODULE TouchDraw ------------------------------
(***************************************************************************)
(* The loop of src/src/touchdraw.c, once it has taken the panel over: it   *)
(* reads the panel's evdev node as touchinj.c does (the same batches, the  *)
(* same decoding of slots) and draws a circle under every finger into the  *)
(* framebuffer that is being scanned out, anew after every batch that      *)
(* holds a SYN_REPORT.  When nothing is touched it draws a square every    *)
(* second, to show that what it writes reaches the display.                *)
(*                                                                         *)
(* The panel and the reading are those of TouchReader; the framebuffer has *)
(* one dimension.                                                          *)
(***************************************************************************)
EXTENDS TouchReader

CONSTANTS
  R,       \* the radius of a circle (55)
  Spots    \* where the square is drawn

ASSUME DrawAssumption == R \in Nat /\ \A q \in Spots : q \subseteq 0 .. PanelW - 1

VARIABLE map   \* the framebuffer

drawVars == <<panel, reader, map>>

Pixels == 0 .. PanelW - 1
Bands  == [px \in Pixels |-> "band"]

DrawInit == ReaderInit /\ map = Bands

Place(x) == (x * PanelW) \div (AxMax + 1)
Disc(p)  == (p - R .. p + R) \cap Pixels

\* Faulty variant: the circles are drawn over the old ones.
RedrawnOver ==
  [px \in Pixels |-> IF \E s \in Slots : slots[s].on /\ px \in Disc(Place(slots[s].x))
                     THEN "circle" ELSE map[px]]

(* The bands everywhere, and the circles of the slots that are on. *)
Redrawn ==
  [px \in Pixels |-> IF \E s \in Slots : slots[s].on /\ px \in Disc(Place(slots[s].x))
                     THEN "circle" ELSE "band"]

Take   == ReadBatch /\ UNCHANGED map
Decode == HandleEvent /\ UNCHANGED map

Draw ==
  /\ pc = "batch" /\ batch = <<>>
  /\ pc' = "wait"
  /\ map' = IF syn THEN Redrawn ELSE map
  /\ UNCHANGED <<panel, batch, syn, cur, slots>>

(* select() timed out and another second has begun. *)
SelfTest ==
  /\ pc = "wait" /\ queue = <<>>
  /\ \E q \in Spots : map' = [px \in Pixels |-> IF px \in q THEN "square" ELSE map[px]]
  /\ UNCHANGED <<panel, reader>>

Stop == pc = "wait" /\ pc' = "done" /\ UNCHANGED <<panel, batch, syn, cur, slots, map>>

Feel     == Reports /\ UNCHANGED map
DrawNext == Feel \/ Take \/ Decode \/ Draw \/ SelfTest \/ Stop

DrawSpec     == DrawInit /\ [][DrawNext]_drawVars
FairDrawSpec == DrawSpec /\ WF_drawVars(Take) /\ WF_drawVars(Decode) /\ WF_drawVars(Draw)

-----------------------------------------------------------------------------
(* Properties.                                                               *)

(* The picture shows the fingers on the panel, a circle under each and bands *)
(* elsewhere; only where the self-test draws may a square hide either, until *)
(* the next packet.                                                          *)
TruePicture ==
  LET under == UNION {Disc(Place(finger[s])) : s \in {t \in Slots : finger[t] # NoTouch}}
  IN  \A px \in Pixels : \/ map[px] = IF px \in under THEN "circle" ELSE "band"
                         \/ map[px] = "square" /\ px \in UNION Spots

(* Once everything the panel reported has been handled, the picture is true, *)
(* however packets were cut into batches; unless events were lost, a slot    *)
(* past NSlot was used, or the panel had been touched before the start.      *)
DrawnWhenHandled == queue = <<>> /\ batch = <<>> /\ pc = "wait" /\ ~strayed => TruePicture

(* When the panel comes to rest, the picture becomes true and stays so,      *)
(* unless the program's time is up.                                          *)
PictureSettles == <>[](TruePicture \/ strayed \/ pc = "done")
=============================================================================
