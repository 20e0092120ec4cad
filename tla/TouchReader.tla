---------------------------- MODULE TouchReader ----------------------------
(***************************************************************************)
(* The touch panel, the kernel's queue for its evdev node, and a program   *)
(* that reads the node, as src/src/touchinj.c and src/src/touchdraw.c both *)
(* do.  The panel reports in packets closed by SYN_REPORT and sends only   *)
(* what changed; the program reads up to Batch events at once, wherever    *)
(* packets end, and acts after each batch that holds a SYN_REPORT.         *)
(*                                                                         *)
(* One axis stands for the two, which are treated alike.                   *)
(***************************************************************************)
EXTENDS Integers, Sequences

CONSTANTS
  NSlot,       \* touch points the program keeps (10)
  PanelSlots,  \* slots the panel reports
  AxMax,       \* the largest raw coordinate
  PanelW,      \* the panel's extent in pixels
  Batch,       \* events read at once (64)
  MaxQueue,    \* events the kernel keeps for a reader
  MaxPackets,  \* packets of a behaviour
  NoTouch

Slots == 0 .. NSlot - 1
Raw   == 0 .. AxMax

ASSUME ParametersAssumption ==
  /\ NSlot \in Nat \ {0} /\ AxMax \in Nat /\ PanelW \in Nat \ {0}
  /\ Batch \in Nat \ {0} /\ MaxQueue \in Nat /\ MaxPackets \in Nat \ {0}
ASSUME SlotsAssumption == Slots \subseteq PanelSlots /\ PanelSlots \subseteq Nat
ASSUME NoTouchAssumption == NoTouch \notin Int

VARIABLES
  finger,   \* the panel: where a finger is in each slot
  kslot,    \* the slot the kernel last reported an event of
  kpos,     \* the coordinate the kernel last reported in each slot
  queue,    \* events the program has not read; whole packets
  packets,  \* packets so far; one before the node was opened counts
  strayed,  \* the program cannot know the panel's state any more (history variable)
  pc,       \* "wait" in select, "read", "batch" (handling events), "done"
  batch,    \* events read and not yet handled
  syn, cur, \* the locals of main()
  slots     \* slots[]: on, was and the coordinate

panel  == <<finger, kslot, kpos, queue, packets, strayed>>
reader == <<pc, batch, syn, cur, slots>>

Event == [type : {"slot", "id", "x", "syn", "dropped"}, v : Int]
Slot  == [on : BOOLEAN, was : BOOLEAN, x : Int]

ReaderType ==
  /\ queue \in Seq(Event) /\ batch \in Seq(Event) /\ packets \in 0 .. MaxPackets
  /\ kpos \in [PanelSlots -> Raw]
  /\ pc \in {"wait", "read", "batch", "done"} /\ syn \in BOOLEAN
  /\ cur \in Slots /\ slots \in [Slots -> Slot]

-----------------------------------------------------------------------------
(* The panel and the kernel's event queue. *)
Ev(type, v) == [type |-> type, v |-> v]

(* A finger may already be down when the node is opened, in any slot; and the*)
(* panel does not send again the coordinate it last sent for a slot.         *)
ReaderInit ==
  /\ kslot \in PanelSlots
  /\ \E x \in Raw, down \in BOOLEAN :
       /\ kpos = [s \in PanelSlots |-> IF s = kslot THEN x ELSE 0]
       /\ finger = [s \in PanelSlots |-> IF s = kslot /\ down THEN x ELSE NoTouch]
  /\ strayed = (kslot # 0 \/ \E s \in PanelSlots : finger[s] # NoTouch \/ kpos[s] # 0)
  /\ queue = <<>> /\ packets = IF strayed THEN 1 ELSE 0
  /\ pc = "wait" /\ batch = <<>> /\ syn = FALSE /\ cur = 0
  /\ slots = [s \in Slots |-> [on |-> FALSE, was |-> FALSE, x |-> 0]]

If(cond, seq) == IF cond THEN seq ELSE <<>>

(* A full queue loses everything but the end of the newest packet. *)
Enqueue(p) ==
  IF Len(queue) + Len(p) <= MaxQueue
  THEN queue' = queue \o p /\ UNCHANGED strayed
  ELSE /\ \E k \in 1 .. Len(p) : queue' = <<Ev("dropped", 0)>> \o SubSeq(p, k, Len(p))
       /\ strayed' = TRUE

Packet(s, id, x) ==
  /\ packets < MaxPackets
  /\ packets' = packets + 1
  /\ kslot' = s /\ kpos' = [kpos EXCEPT ![s] = x]
  /\ IF s \in Slots
     THEN Enqueue(If(s # kslot, <<Ev("slot", s)>>) \o id
                  \o If(x # kpos[s], <<Ev("x", x)>>) \o <<Ev("syn", 0)>>)
     ELSE /\ queue' = queue \o If(s # kslot, <<Ev("slot", s)>>) \o id
                      \o If(x # kpos[s], <<Ev("x", x)>>) \o <<Ev("syn", 0)>>
          /\ strayed' = TRUE
  /\ UNCHANGED reader

(* A new contact; it may take over the slot of one that is down. *)
Press(s, x) == Packet(s, <<Ev("id", packets)>>, x) /\ finger' = [finger EXCEPT ![s] = x]
Move(s, x)  == /\ finger[s] \notin {x, NoTouch} /\ Packet(s, <<>>, x)
               /\ finger' = [finger EXCEPT ![s] = x]
Lift(s)     == /\ finger[s] # NoTouch /\ Packet(s, <<Ev("id", -1)>>, kpos[s])
               /\ finger' = [finger EXCEPT ![s] = NoTouch]

Reports == \E s \in PanelSlots : Lift(s) \/ \E x \in Raw : Press(s, x) \/ Move(s, x)

-----------------------------------------------------------------------------
(* The program. *)
ReadBatch ==
  LET n == IF Len(queue) < Batch THEN Len(queue) ELSE Batch IN
  /\ pc \in {"wait", "read"} /\ queue # <<>>
  /\ batch' = SubSeq(queue, 1, n) /\ queue' = SubSeq(queue, n + 1, Len(queue))
  /\ syn' = FALSE /\ pc' = "batch"
  /\ UNCHANGED <<finger, kslot, kpos, packets, strayed, cur, slots>>

\* Faulty variant: the first tracking id, 0, is taken for a lift.
PressedPositive(e) == e.v > 0

Pressed(e) == e.v >= 0

\* Faulty variant: the loop is left at the first SYN_REPORT of the batch.
RestOfPacket(e) == IF e.type = "syn" THEN <<>> ELSE Tail(batch)

Rest(e) == Tail(batch)

(* One event of the batch.  SYN_DROPPED is ignored, and so is a slot past    *)
(* NSlot: what follows is credited to the slot before.                       *)
HandleEvent ==
  LET e == Head(batch) IN
  /\ pc = "batch" /\ batch # <<>>
  /\ batch' = Rest(e)
  /\ syn' = (syn \/ e.type = "syn")
  /\ cur' = IF e.type = "slot" /\ e.v \in Slots THEN e.v ELSE cur
  /\ slots' = IF e.type = "id" THEN [slots EXCEPT ![cur].on = Pressed(e)]
              ELSE IF e.type = "x" THEN [slots EXCEPT ![cur].x = e.v] ELSE slots
  /\ UNCHANGED <<panel, pc>>
=============================================================================
