-------------------------- MODULE TouchDrawProofs --------------------------
(* The theorem about TouchDraw, for any panel, number of slots, sizes of    *)
(* batches and of the kernel's queue, radius and squares.  The program      *)
(* reads as touchinj does: the lemmas about the reading are those of        *)
(* TouchInjectProofs, of which nothing else is used.                        *)
EXTENDS TouchDraw, TouchInjectProofs

(* The picture shows what the program has seen, but where a square may be.  *)
Circled(px) == \E s \in Slots : slots[s].on /\ px \in Disc(Place(slots[s].x))
Shown == \A px \in Pixels : \/ map[px] = IF Circled(px) THEN "circle" ELSE "band"
                            \/ map[px] = "square" /\ px \in UNION Spots

DrawInv == ReaderInv /\ (~strayed => Shown \/ Waiting)

LEMMA InitDrawInv == DrawInit => DrawInv
<1> SUFFICES ASSUME DrawInit PROVE DrawInv
  OBVIOUS
<1>1. ReaderInit /\ map = Bands
  BY DEF DrawInit
<1>2. \A s \in Slots : ~slots[s].on
  BY <1>1 DEF ReaderInit
<1>3. \A px \in Pixels : map[px] = "band"
  BY <1>1 DEF Bands
<1>4. Shown
  BY <1>2, <1>3 DEF Shown, Circled
<1>5. QED
  BY <1>1, <1>4, InitReader DEF DrawInv

LEMMA DrawStep == DrawInv /\ Draw => DrawInv'
<1> SUFFICES ASSUME DrawInv, Draw PROVE DrawInv'
  OBVIOUS
<1>1. /\ UNCHANGED <<panel, batch, cur, syn, slots, queue, strayed>> /\ batch = <<>>
      /\ pc' = "wait" /\ map' = IF syn THEN Redrawn ELSE map
  BY DEF Draw, panel
<1>2. ReaderInv'
  BY <1>1, OtherReader DEF DrawInv, ReaderInv, ReaderType
<1>3. \A px : Circled(px)' <=> Circled(px)
  BY <1>1 DEF Circled
<1>4. CASE syn
  <2>1. \A px \in Pixels : map'[px] = IF Circled(px) THEN "circle" ELSE "band"
    BY <1>1, <1>4 DEF Redrawn, Circled
  <2>2. Shown'
    BY <1>3, <2>1 DEF Shown
  <2>3. QED
    BY <1>2, <2>2 DEF DrawInv
<1>5. CASE ~syn
  <2>1. map' = map
    BY <1>1, <1>5
  <2>2. Shown' <=> Shown
    BY <1>3, <2>1 DEF Shown
  <2>3. QED
    BY <1>1, <1>2, <1>5, <2>2 DEF DrawInv, Waiting
<1>6. QED
  BY <1>4, <1>5

LEMMA StepDrawInv == DrawInv /\ [DrawNext]_drawVars => DrawInv'
<1> SUFFICES ASSUME DrawInv, [DrawNext]_drawVars PROVE DrawInv'
  OBVIOUS
<1>1. CASE Feel \/ Take \/ Decode
  BY <1>1, ReportsReader, ReadReader, HandleReader
     DEF DrawInv, Feel, Take, Decode
<1>2. CASE SelfTest
  <2>1. UNCHANGED <<panel, pc, batch, syn, cur, slots, queue, strayed>>
    BY <1>2 DEF SelfTest, panel, reader
  <2>2. ReaderInv'
    BY <2>1, OtherReader DEF DrawInv, ReaderInv, ReaderType
  <2>3. \A px \in Pixels : \/ map'[px] = map[px]
                           \/ map'[px] = "square" /\ px \in UNION Spots
    BY <1>2 DEF SelfTest
  <2>4. Shown => Shown'
    BY <2>1, <2>3 DEF Shown, Circled
  <2>5. QED
    BY <2>1, <2>2, <2>4 DEF DrawInv, Waiting
<1>3. CASE Stop \/ UNCHANGED drawVars
  <2>1. /\ UNCHANGED <<panel, batch, cur, syn, slots, map>>
        /\ pc' = pc \/ (pc = "wait" /\ pc' = "done")
    BY <1>3 DEF Stop, drawVars, panel, reader
  <2>2. ReaderInv'
    BY <2>1, OtherReader DEF DrawInv, ReaderInv, ReaderType
  <2>3. QED
    BY <2>1, <2>2 DEF DrawInv, Shown, Circled, Waiting, panel
<1>4. QED
  BY <1>1, <1>2, <1>3, DrawStep DEF DrawNext

(* Once all that the panel reported is handled, the picture is exactly the  *)
(* fingers wherever the self-test does not draw, and where it does a square *)
(* is all that can hide them; for any cut into batches.  Runs in which      *)
(* events were lost, a slot past NSlot was used, or the panel was touched   *)
(* before the start are excepted ("strayed").                               *)
THEOREM FingersDrawn == DrawSpec => []DrawnWhenHandled
<1>1. DrawInv => DrawnWhenHandled
  <2> SUFFICES ASSUME DrawInv, queue = <<>>, batch = <<>>, pc = "wait", ~strayed
               PROVE  TruePicture
    BY DEF DrawnWhenHandled
  <2>1. Shown
    BY DEF DrawInv, Waiting
  <2> DEFINE under == UNION {Disc(Place(finger[s])) :
                               s \in {t \in Slots : finger[t] # NoTouch}}
  <2>2. ASSUME NEW px PROVE Circled(px) <=> px \in under
    <3>1. ASSUME NEW s \in Slots
          PROVE  slots[s].on /\ px \in Disc(Place(slots[s].x))
                   <=> finger[s] # NoTouch /\ px \in Disc(Place(finger[s]))
      BY SlotsRight DEF DrawInv
    <3>2. px \in under <=> \E s \in Slots : /\ finger[s] # NoTouch
                                            /\ px \in Disc(Place(finger[s]))
      OBVIOUS
    <3>3. QED
      BY <3>1, <3>2 DEF Circled
  <2> HIDE DEF under
  <2>3. QED
    BY <2>1, <2>2 DEF Shown, TruePicture, under
<1>2. QED
  BY InitDrawInv, StepDrawInv, <1>1, PTL DEF DrawSpec
=============================================================================
