------------------------- MODULE TouchInjectProofs -------------------------
(* Theorems about TouchInject, for any number of slots, any panel and any   *)
(* sizes of batches and of the kernel's queue; and, first, the lemmas about *)
(* the panel and the reading of its events, which TouchDrawProofs uses too. *)
EXTENDS TouchInject, TLAPS

-----------------------------------------------------------------------------
(* Types of the panel and the reader.                                       *)

(* The panel's packets are sequences of events, and so is what is left of   *)
(* them in the queue.                                                       *)
LEMMA EventTyped == ASSUME NEW v \in Int
                    PROVE  /\ Ev("slot", v) \in Event /\ Ev("x", v) \in Event
                           /\ Ev("id", v) \in Event
                           /\ Ev("syn", v) \in Event /\ Ev("dropped", v) \in Event
BY DEF Ev, Event

LEMMA EventFields == \A type, v : Ev(type, v).type = type /\ Ev(type, v).v = v
BY DEF Ev

LEMMA EnqueueTyped ==
  ASSUME ReaderType, NEW p \in Seq(Event), Enqueue(p) PROVE queue' \in Seq(Event)
<1>1. CASE queue' = queue \o p
  BY <1>1 DEF ReaderType
<1>2. CASE \E k \in 1 .. Len(p) : queue' = <<Ev("dropped", 0)>> \o SubSeq(p, k, Len(p))
  <2>1. PICK k \in 1 .. Len(p) : queue' = <<Ev("dropped", 0)>> \o SubSeq(p, k, Len(p))
    BY <1>2
  <2>2. SubSeq(p, k, Len(p)) \in Seq(Event)
    OBVIOUS
  <2>3. <<Ev("dropped", 0)>> \in Seq(Event)
    BY EventTyped
  <2>4. QED
    BY <2>1, <2>2, <2>3
<1>3. QED
  BY <1>1, <1>2 DEF Enqueue

LEMMA PacketTyped ==
  ASSUME ReaderType, NEW s \in PanelSlots, NEW id \in Seq(Event), NEW x \in Raw, Packet(s, id, x)
  PROVE  /\ queue' \in Seq(Event) /\ packets' \in 0 .. MaxPackets /\ kpos' \in [PanelSlots -> Raw]
         /\ UNCHANGED reader
<1> DEFINE p == If(s # kslot, <<Ev("slot", s)>>) \o id
                  \o If(x # kpos[s], <<Ev("x", x)>>) \o <<Ev("syn", 0)>>
<1>1. /\ If(s # kslot, <<Ev("slot", s)>>) \in Seq(Event)
      /\ If(x # kpos[s], <<Ev("x", x)>>) \in Seq(Event)
      /\ <<Ev("syn", 0)>> \in Seq(Event)
  BY EventTyped, SlotsAssumption, ParametersAssumption DEF If, Raw
<1>2. p \in Seq(Event)
  BY <1>1
<1>3. CASE s \in Slots
  <2>1. Enqueue(p)
    BY <1>3 DEF Packet
  <2>2. queue' \in Seq(Event)
    BY <1>2, <2>1, EnqueueTyped
  <2>3. QED
    BY <2>2, ParametersAssumption DEF Packet, ReaderType
<1>4. CASE s \notin Slots
  <2>1. queue' = ((queue \o If(s # kslot, <<Ev("slot", s)>>)) \o id)
                   \o If(x # kpos[s], <<Ev("x", x)>>) \o <<Ev("syn", 0)>>
    BY <1>4 DEF Packet
  <2>2. queue' \in Seq(Event)
    BY <1>1, <2>1 DEF ReaderType
  <2>3. QED
    BY <2>2, ParametersAssumption DEF Packet, ReaderType
<1>5. QED
  BY <1>3, <1>4

LEMMA ReportsTyped == ReaderType /\ Reports => ReaderType'
<1> SUFFICES ASSUME ReaderType, Reports PROVE ReaderType'
  OBVIOUS
<1>1. PICK s \in PanelSlots : Lift(s) \/ \E x \in Raw : Press(s, x) \/ Move(s, x)
  BY DEF Reports
<1>2. \E id \in Seq(Event), x \in Raw : Packet(s, id, x)
  <2>1. ASSUME NEW x \in Raw, Press(s, x) PROVE \E id \in Seq(Event), y \in Raw : Packet(s, id, y)
    <3>1. <<Ev("id", packets)>> \in Seq(Event)
      BY EventTyped, ParametersAssumption DEF ReaderType
    <3>2. QED
      BY <2>1, <3>1 DEF Press
  <2>2. ASSUME NEW x \in Raw, Move(s, x) PROVE \E id \in Seq(Event), y \in Raw : Packet(s, id, y)
    <3>1. <<>> \in Seq(Event)
      OBVIOUS
    <3>2. QED
      BY <2>2, <3>1 DEF Move
  <2>3. CASE Lift(s)
    <3>1. <<Ev("id", -1)>> \in Seq(Event) /\ kpos[s] \in Raw
      BY EventTyped DEF ReaderType
    <3>2. QED
      BY <2>3, <3>1 DEF Lift
  <2>4. QED
    BY <1>1, <2>1, <2>2, <2>3
<1>3. /\ queue' \in Seq(Event) /\ packets' \in 0 .. MaxPackets /\ kpos' \in [PanelSlots -> Raw]
      /\ UNCHANGED reader
  BY <1>2, PacketTyped
<1>4. QED
  BY <1>3 DEF ReaderType, reader

LEMMA ReadTyped == ReaderType /\ ReadBatch => ReaderType'
<1> SUFFICES ASSUME ReaderType, ReadBatch PROVE ReaderType'
  OBVIOUS
<1> DEFINE n == IF Len(queue) < Batch THEN Len(queue) ELSE Batch
<1>1. n \in 0 .. Len(queue)
  BY ParametersAssumption DEF ReaderType
<1>2. batch' = SubSeq(queue, 1, n) /\ queue' = SubSeq(queue, n + 1, Len(queue))
  BY DEF ReadBatch
<1>3. batch' \in Seq(Event) /\ queue' \in Seq(Event)
  BY <1>1, <1>2 DEF ReaderType
<1>4. QED
  BY <1>3 DEF ReaderType, ReadBatch

LEMMA HandleTyped ==
  ReaderType /\ HandleEvent => ReaderType' /\ \A s \in Slots : slots'[s].was = slots[s].was
<1> SUFFICES ASSUME ReaderType, HandleEvent
             PROVE  ReaderType' /\ \A s \in Slots : slots'[s].was = slots[s].was
  OBVIOUS
<1> DEFINE e == Head(batch)
<1>0. batch \in Seq(Event) /\ batch # <<>> /\ batch' = Tail(batch)
  BY DEF ReaderType, HandleEvent, Rest
<1>1. batch' \in Seq(Event) /\ e \in Event /\ e.v \in Int
  <2>1. batch' \in Seq(Event) /\ e \in Event
    BY <1>0
  <2>2. QED
    BY <2>1 DEF Event
<1>2. cur' \in Slots
  BY DEF ReaderType, HandleEvent
<1>3. slots' \in [Slots -> Slot] /\ \A s \in Slots : slots'[s].was = slots[s].was
  <2>1. CASE e.type = "id"
    <3>1. slots' = [slots EXCEPT ![cur].on = e.v >= 0] /\ (e.v >= 0) \in BOOLEAN
      BY <1>1, <2>1 DEF HandleEvent, Pressed
    <3>2. QED
      BY <3>1 DEF ReaderType, Slot
  <2>2. CASE e.type = "x"
    <3>1. slots' = [slots EXCEPT ![cur].x = e.v]
      BY <2>2 DEF HandleEvent
    <3>2. QED
      BY <1>1, <3>1 DEF ReaderType, Slot
  <2>3. CASE e.type \notin {"id", "x"}
    BY <2>3 DEF ReaderType, HandleEvent
  <2>4. QED
    BY <2>1, <2>2, <2>3
<1>4. syn' \in BOOLEAN /\ UNCHANGED <<panel, pc>>
  BY DEF ReaderType, HandleEvent
<1>5. QED
  BY <1>1, <1>2, <1>3, <1>4 DEF ReaderType, panel

-----------------------------------------------------------------------------
(* Views of the panel.                                                      *)

(* What the program has made of the events it has handled; the state of the *)
(* panel that it is to arrive at; and what the next event does to a view.   *)
View == [cur : Slots, on : SUBSET Slots, x : [Slots -> Int]]
Seen == [cur |-> cur, on |-> {s \in Slots : slots[s].on}, x |-> [s \in Slots |-> slots[s].x]]
Real == [cur |-> kslot, on |-> {s \in Slots : finger[s] # NoTouch},
         x |-> [s \in Slots |-> kpos[s]]]

Apply(a, e) ==
  [cur |-> IF e.type = "slot" THEN e.v ELSE a.cur,
   on  |-> IF e.type # "id" THEN a.on ELSE IF e.v >= 0 THEN a.on \cup {a.cur} ELSE a.on \ {a.cur},
   x   |-> IF e.type = "x" THEN [a.x EXCEPT ![a.cur] = e.v] ELSE a.x]

(* The events of q, handled one after the other, lead from view a to b.     *)
Path(h, q)     == \A i \in 1 .. Len(q) : h[i] = Apply(h[i - 1], q[i])
Leads(a, q, b) == \E h \in [0 .. Len(q) -> View] : h[0] = a /\ h[Len(q)] = b /\ Path(h, q)

LEMMA LeadsNothing == \A a, b \in View : Leads(a, <<>>, b) <=> a = b
<1> SUFFICES ASSUME NEW a \in View, NEW b \in View PROVE Leads(a, <<>>, b) <=> a = b
  OBVIOUS
<1>1. Leads(a, <<>>, b) => a = b
  BY DEF Leads
<1>2. ASSUME a = b PROVE Leads(a, <<>>, b)
  <2> DEFINE h == [i \in 0 .. 0 |-> a]
  <2>1. h \in [0 .. Len(<<>>) -> View] /\ h[0] = a /\ h[Len(<<>>)] = b /\ Path(h, <<>>)
    BY <1>2 DEF Path
  <2>2. QED
    BY <2>1, Zenon DEF Leads
<1>3. QED
  BY <1>1, <1>2

LEMMA LeadsOne ==
  ASSUME NEW a \in View, NEW e \in Event, e.type = "slot" => e.v \in Slots
  PROVE  Apply(a, e) \in View /\ Leads(a, <<e>>, Apply(a, e))
<1>1. Apply(a, e) \in View
  BY DEF Apply, View, Event
<1>2. DEFINE h == [i \in 0 .. 1 |-> IF i = 0 THEN a ELSE Apply(a, e)]
<1>3. h \in [0 .. 1 -> View] /\ h[0] = a /\ h[1] = Apply(a, e)
  BY <1>1
<1>4. Len(<<e>>) = 1 /\ <<e>>[1] = e
  OBVIOUS
<1> HIDE DEF h
<1>5. Path(h, <<e>>)
  BY <1>3, <1>4 DEF Path
<1>6. QED
  BY <1>1, <1>3, <1>4, <1>5 DEF Leads

LEMMA LeadsBoth ==
  ASSUME NEW q \in Seq(Event), NEW r \in Seq(Event),
         NEW a, NEW b, NEW c, Leads(a, q, b), Leads(b, r, c)
  PROVE  Leads(a, q \o r, c)
<1>1. PICK g \in [0 .. Len(q) -> View] : g[0] = a /\ g[Len(q)] = b /\ Path(g, q)
  BY DEF Leads
<1>2. PICK h \in [0 .. Len(r) -> View] : h[0] = b /\ h[Len(r)] = c /\ Path(h, r)
  BY DEF Leads
<1> DEFINE f == [i \in 0 .. Len(q \o r) |-> IF i <= Len(q) THEN g[i] ELSE h[i - Len(q)]]
<1>3. /\ Len(q) \in Nat /\ Len(r) \in Nat /\ Len(q \o r) = Len(q) + Len(r)
      /\ \A i \in 1 .. Len(q \o r) : (q \o r)[i] = IF i <= Len(q) THEN q[i] ELSE r[i - Len(q)]
  OBVIOUS
<1>4. f \in [0 .. Len(q \o r) -> View] /\ f[0] = a /\ f[Len(q \o r)] = c
  <2>1. ASSUME NEW i \in 0 .. Len(q \o r) PROVE f[i] \in View
    <3>1. i <= Len(q) => i \in 0 .. Len(q)
      BY <1>3
    <3>2. ~(i <= Len(q)) => i - Len(q) \in 0 .. Len(r)
      BY <1>3
    <3>3. QED
      BY <1>1, <1>2, <3>1, <3>2
  <2>2. f[0] = a
    BY <1>1, <1>3
  <2>3. f[Len(q \o r)] = c
    <3>1. CASE Len(r) = 0
      BY <1>1, <1>2, <1>3, <3>1
    <3>2. CASE Len(r) # 0
      <4>1. Len(q \o r) \in 0 .. Len(q \o r) /\ ~(Len(q \o r) <= Len(q))
        BY <1>3, <3>2
      <4>2. Len(q \o r) - Len(q) = Len(r)
        BY <1>3
      <4>3. QED
        BY <1>2, <4>1, <4>2
    <3>3. QED
      BY <3>1, <3>2
  <2>4. QED
    BY <2>1, <2>2, <2>3
<1>5. ASSUME NEW i \in 1 .. Len(q \o r) PROVE f[i] = Apply(f[i - 1], (q \o r)[i])
  <2>1. CASE i <= Len(q)
    BY <1>1, <1>3, <2>1 DEF Path
  <2>2. CASE i > Len(q)
    <3> DEFINE j == i - Len(q)
    <3>1. j \in 1 .. Len(r) /\ h[j] = Apply(h[j - 1], r[j])
      BY <1>2, <1>3, <2>2 DEF Path
    <3>2. f[i] = h[j] /\ (q \o r)[i] = r[j]
      BY <1>3, <2>2
    <3>3. f[i - 1] = h[j - 1]
      <4>1. CASE i - 1 = Len(q)
        <5>1. i - 1 \in 0 .. Len(q \o r) /\ i - 1 <= Len(q) /\ j - 1 = 0
          BY <1>3, <4>1
        <5>2. QED
          BY <1>1, <1>2, <4>1, <5>1
      <4>2. CASE i - 1 # Len(q)
        <5>1. i - 1 \in 0 .. Len(q \o r) /\ ~(i - 1 <= Len(q)) /\ (i - 1) - Len(q) = j - 1
          BY <1>3, <2>2, <4>2
        <5>2. QED
          BY <5>1
      <4>3. QED
        BY <4>1, <4>2
    <3>4. QED
      BY <3>1, <3>2, <3>3, Zenon
  <2>3. QED
    BY <1>3, <2>1, <2>2
<1> HIDE DEF f
<1>6. QED
  BY <1>4, <1>5, Zenon DEF Leads, Path

LEMMA LeadsSplit ==
  ASSUME NEW q \in Seq(Event), NEW n \in 0 .. Len(q), NEW a, NEW c, Leads(a, q, c)
  PROVE  \E b \in View : Leads(a, SubSeq(q, 1, n), b) /\ Leads(b, SubSeq(q, n + 1, Len(q)), c)
<1>1. PICK h \in [0 .. Len(q) -> View] : h[0] = a /\ h[Len(q)] = c /\ Path(h, q)
  BY DEF Leads
<1> DEFINE p == SubSeq(q, 1, n)
           r == SubSeq(q, n + 1, Len(q))
           f == [i \in 0 .. n |-> h[i]]
           g == [i \in 0 .. Len(q) - n |-> h[n + i]]
<1>2. /\ Len(p) = n /\ \A i \in 1 .. n : p[i] = q[i]
      /\ Len(r) = Len(q) - n /\ \A i \in 1 .. Len(q) - n : r[i] = q[n + i]
  OBVIOUS
<1>3. f \in [0 .. n -> View] /\ f[0] = a /\ f[n] = h[n] /\ h[n] \in View
  BY <1>1
<1>4. g \in [0 .. Len(q) - n -> View] /\ g[0] = h[n] /\ g[Len(q) - n] = c
  BY <1>1
<1>5. \A i \in 1 .. n : f[i] = Apply(f[i - 1], q[i])
  BY <1>1 DEF Path
<1>6. \A i \in 1 .. Len(q) - n : g[i] = Apply(g[i - 1], q[n + i])
  <2> TAKE i \in 1 .. Len(q) - n
  <2>1. n + i \in 1 .. Len(q) /\ h[n + i] = Apply(h[(n + i) - 1], q[n + i])
    BY <1>1 DEF Path
  <2>2. g[i] = h[n + i] /\ g[i - 1] = h[(n + i) - 1]
    OBVIOUS
  <2>3. QED
    BY <2>1, <2>2, Zenon
<1> HIDE DEF p, r, f, g
<1>7. Leads(a, p, h[n])
  BY <1>2, <1>3, <1>5 DEF Leads, Path
<1>8. Leads(h[n], r, c)
  <2>1. Path(g, r)
    BY <1>2, <1>6 DEF Path
  <2>2. QED
    BY <1>2, <1>4, <2>1 DEF Leads
<1>9. QED
  BY <1>3, <1>7, <1>8 DEF p, r

LEMMA LeadsRest ==
  ASSUME NEW q \in Seq(Event), q # <<>>, NEW a, NEW c, Leads(a, q, c)
  PROVE  Apply(a, Head(q)) \in View /\ Leads(Apply(a, Head(q)), Tail(q), c)
<1>1. PICK h \in [0 .. Len(q) -> View] : h[0] = a /\ h[Len(q)] = c /\ Path(h, q)
  BY DEF Leads
<1> DEFINE g == [i \in 0 .. Len(q) - 1 |-> h[i + 1]]
<1>2. /\ Len(q) \in Nat \ {0} /\ Head(q) = q[1] /\ Len(Tail(q)) = Len(q) - 1
      /\ \A i \in 1 .. Len(q) - 1 : Tail(q)[i] = q[i + 1]
  OBVIOUS
<1>3. h[1] = Apply(a, Head(q)) /\ h[1] \in View
  BY <1>1, <1>2 DEF Path
<1>4. g \in [0 .. Len(q) - 1 -> View] /\ g[0] = h[1] /\ g[Len(q) - 1] = c
  BY <1>1, <1>2
<1>5. \A i \in 1 .. Len(q) - 1 : g[i] = Apply(g[i - 1], q[i + 1])
  <2> TAKE i \in 1 .. Len(q) - 1
  <2>1. i + 1 \in 1 .. Len(q) /\ h[i + 1] = Apply(h[i], q[i + 1])
    BY <1>1, <1>2 DEF Path
  <2>2. g[i] = h[i + 1] /\ g[i - 1] = h[i]
    BY <1>2
  <2>3. QED
    BY <2>1, <2>2, Zenon
<1> HIDE DEF g
<1>6. QED
  BY <1>2, <1>3, <1>4, <1>5 DEF Leads, Path
-----------------------------------------------------------------------------
(* The invariant of the reading.                                            *)

(* Only whole packets are pending, apart from the beginning of the first.   *)
Ends(q) == q # <<>> => q[Len(q)].type = "syn"

FingerInv == /\ finger \in [PanelSlots -> Raw \cup {NoTouch}] /\ kslot \in PanelSlots
             /\ \A s \in PanelSlots : finger[s] # NoTouch => finger[s] = kpos[s]

(* As long as the program can know the panel's state, handling what is      *)
(* pending leads to it.                                                     *)
PendingInv ==
  ~strayed => /\ kslot \in Slots
              /\ \E m \in View : Leads(Seen, batch, m) /\ Leads(m, queue, Real)
              /\ Ends(queue) /\ (queue = <<>> => Ends(batch))

ReaderInv == ReaderType /\ FingerInv /\ (pc # "batch" => batch = <<>>) /\ PendingInv

(* Something is to come that makes the program act on what it has seen.     *)
Waiting == (pc = "batch" /\ syn) \/ batch # <<>> \/ queue # <<>>

LEMMA EndsWith ==
  ASSUME NEW q \in Seq(Event), NEW r \in Seq(Event), r # <<>>, Ends(r)
  PROVE  q \o r \in Seq(Event) /\ q \o r # <<>> /\ Ends(q \o r)
<1>1. /\ Len(q) \in Nat /\ Len(r) \in Nat \ {0} /\ Len(q \o r) = Len(q) + Len(r)
      /\ \A i \in 1 .. Len(q \o r) : (q \o r)[i] = IF i <= Len(q) THEN q[i] ELSE r[i - Len(q)]
  OBVIOUS
<1>2. (q \o r)[Len(q \o r)] = r[Len(r)]
  <2>1. /\ Len(q \o r) \in 1 .. Len(q \o r) /\ ~(Len(q \o r) <= Len(q))
        /\ Len(q \o r) - Len(q) = Len(r)
    BY <1>1
  <2>2. QED
    BY <1>1, <2>1
<1>3. QED
  BY <1>1, <1>2 DEF Ends

LEMMA ViewsTyped == ReaderType /\ FingerInv => Seen \in View /\ (kslot \in Slots => Real \in View)
<1> SUFFICES ASSUME ReaderType, FingerInv PROVE Seen \in View /\ (kslot \in Slots => Real \in View)
  OBVIOUS
<1>1. Seen \in View
  BY DEF Seen, View, ReaderType, Slot
<1>2. kslot \in Slots => Real \in View
  BY SlotsAssumption, ParametersAssumption DEF Real, View, ReaderType, Raw
<1>3. QED
  BY <1>1, <1>2

LEMMA InitReader == ReaderInit => ReaderInv
<1> SUFFICES ASSUME ReaderInit PROVE ReaderInv
  OBVIOUS
<1>1. ReaderType
  <2>1. 0 \in Slots /\ packets \in 0 .. MaxPackets /\ kpos \in [PanelSlots -> Raw]
    BY ParametersAssumption DEF Slots, ReaderInit, Raw
  <2>2. slots \in [Slots -> Slot]
    BY DEF ReaderInit, Slot
  <2>3. queue \in Seq(Event) /\ batch \in Seq(Event) /\ syn \in BOOLEAN /\ cur \in Slots
    <3>1. <<>> \in Seq(Event) /\ FALSE \in BOOLEAN
      OBVIOUS
    <3>2. queue = <<>> /\ batch = <<>> /\ syn = FALSE /\ cur = 0
      BY DEF ReaderInit
    <3>3. QED
      BY <2>1, <3>1, <3>2
  <2>4. pc \in {"wait", "read", "batch", "done"}
    BY DEF ReaderInit
  <2>5. QED
    BY <2>1, <2>2, <2>3, <2>4 DEF ReaderType
<1>2. FingerInv
  BY ParametersAssumption, NoTouchAssumption DEF FingerInv, ReaderInit, Raw
<1>3. ASSUME ~strayed PROVE kslot = 0 /\ \A s \in Slots : finger[s] = NoTouch /\ kpos[s] = 0
  BY <1>3, SlotsAssumption DEF ReaderInit
<1>4. kslot = 0 => kslot \in Slots
  BY ParametersAssumption DEF Slots
<1>5. ASSUME ~strayed PROVE \E m \in View : Leads(Seen, batch, m) /\ Leads(m, queue, Real)
  <2>1. Seen = Real
    <3>1. cur = kslot
      BY <1>3, <1>5 DEF ReaderInit
    <3>2. \A s \in Slots : ~slots[s].on /\ slots[s].x = 0
      BY DEF ReaderInit
    <3>3. {s \in Slots : slots[s].on} = {s \in Slots : finger[s] # NoTouch}
      BY <1>3, <1>5, <3>2
    <3>4. [s \in Slots |-> slots[s].x] = [s \in Slots |-> kpos[s]]
      BY <1>3, <1>5, <3>2
    <3>5. QED
      BY <3>1, <3>3, <3>4 DEF Seen, Real
  <2>2. Real \in View
    BY <1>1, <1>2, <1>3, <1>4, <1>5, ViewsTyped
  <2>3. batch = <<>> /\ queue = <<>>
    BY DEF ReaderInit
  <2>4. QED
    BY <2>1, <2>2, <2>3, LeadsNothing
<1>6. Ends(queue) /\ Ends(batch)
  BY DEF ReaderInit, Ends
<1>7. QED
  BY <1>1, <1>2, <1>3, <1>4, <1>5, <1>6 DEF ReaderInit, ReaderInv, PendingInv

(* What a packet appends to the queue leads from the panel's old state to   *)
(* its new one; id is what it says about the contact.                       *)
LEMMA PacketStep ==
  ASSUME ReaderInv, NEW s \in PanelSlots, NEW id \in Seq(Event), NEW x \in Raw, Packet(s, id, x),
         FingerInv', ReaderType', ~strayed',
         s \in Slots => Leads([cur |-> s, on |-> Real.on, x |-> Real.x], id,
                              [cur |-> s, on |-> Real'.on, x |-> Real.x])
  PROVE  PendingInv' /\ queue' # <<>>
<1> DEFINE A == If(s # kslot, <<Ev("slot", s)>>)
           X == If(x # kpos[s], <<Ev("x", x)>>)
           S == <<Ev("syn", 0)>>
           p == A \o id \o X \o S
           a1 == [cur |-> s, on |-> Real.on, x |-> Real.x]
           a2 == [cur |-> s, on |-> Real'.on, x |-> Real.x]
<1>1. /\ s \in Slots /\ ~strayed /\ queue' = queue \o p /\ kslot' = s
      /\ kpos' = [kpos EXCEPT ![s] = x] /\ UNCHANGED reader
  BY DEF Packet, Enqueue
<1>2. /\ Ev("slot", s) \in Event /\ Ev("x", x) \in Event /\ Ev("syn", 0) \in Event
      /\ A \in Seq(Event) /\ X \in Seq(Event) /\ S \in Seq(Event)
  BY EventTyped, SlotsAssumption, ParametersAssumption DEF If, Raw
<1>3. Real \in View /\ Real' \in View /\ Seen' = Seen
  <2>1. kslot \in Slots
    BY <1>1 DEF ReaderInv, PendingInv
  <2>2. Real \in View
    BY <2>1, ViewsTyped DEF ReaderInv
  <2>3. Real' \in View
    BY <1>1, SlotsAssumption, ParametersAssumption DEF Real, View, ReaderType, Raw
  <2>4. QED
    BY <1>1, <2>2, <2>3 DEF Seen, reader
<1>4. a1 \in View /\ a2 \in View
  BY <1>1, <1>3 DEF View
<1>5. Leads(Real, A, a1)
  <2>1. CASE s = kslot
    <3>1. A = <<>> /\ a1 = Real
      BY <2>1 DEF If, Real
    <3>2. QED
      BY <1>3, <3>1, LeadsNothing
  <2>2. CASE s # kslot
    <3>1. A = <<Ev("slot", s)>> /\ a1 = Apply(Real, Ev("slot", s))
      BY <2>2 DEF If, Apply, Ev
    <3>2. Ev("slot", s).v \in Slots
      BY <1>1 DEF Ev
    <3>3. QED
      BY <1>2, <1>3, <3>1, <3>2, LeadsOne
  <2>3. QED
    BY <2>1, <2>2
<1>6. Leads(a2, X, Real')
  <2>1. Real'.cur = s /\ Real'.x = [Real.x EXCEPT ![s] = x] /\ Real.x[s] = kpos[s]
    BY <1>1, SlotsAssumption DEF Real, ReaderInv, ReaderType
  <2>2. CASE x = kpos[s]
    <3>1. X = <<>>
      BY <2>2 DEF If
    <3>2. a2 = Real'
      BY <1>3, <2>1, <2>2 DEF View, Real
    <3>3. QED
      BY <1>3, <3>1, <3>2, LeadsNothing
  <2>3. CASE x # kpos[s]
    <3>1. X = <<Ev("x", x)>>
      BY <2>3 DEF If
    <3>2. Real' = Apply(a2, Ev("x", x))
      BY <2>1 DEF Apply, Ev, Real
    <3>3. Ev("x", x).type = "x"
      BY DEF Ev
    <3>4. QED
      BY <1>2, <1>4, <3>1, <3>2, <3>3, LeadsOne
  <2>4. QED
    BY <2>2, <2>3
<1>7. Leads(Real', S, Real')
  <2>1. Real' = Apply(Real', Ev("syn", 0)) /\ Ev("syn", 0).type = "syn"
    BY DEF Apply, Ev, Real
  <2>2. QED
    BY <1>2, <1>3, <2>1, LeadsOne
<1>8. S # <<>> /\ Ends(S) /\ Leads(a1, id, a2)
  BY <1>1 DEF Ends, Ev
<1> DEFINE AI == A \o id
           AX == AI \o X
<1> HIDE DEF A, X, S, a1, a2
<1>9. AI \in Seq(Event) /\ Leads(Real, AI, a2)
  BY <1>2, <1>5, <1>8, LeadsBoth
<1> HIDE DEF AI
<1>10. AX \in Seq(Event) /\ Leads(Real, AX, Real')
  BY <1>2, <1>6, <1>9, LeadsBoth
<1> HIDE DEF AX
<1>11. p = AX \o S
  BY DEF AX, AI
<1> HIDE DEF p
<1>12. p \in Seq(Event) /\ Leads(Real, p, Real') /\ p # <<>> /\ Ends(p)
  BY <1>2, <1>7, <1>8, <1>10, <1>11, LeadsBoth, EndsWith
<1>13. queue \in Seq(Event) /\ queue' # <<>> /\ Ends(queue')
  BY <1>1, <1>12, EndsWith DEF ReaderInv, ReaderType
<1>14. \E m \in View : Leads(Seen', batch', m) /\ Leads(m, queue', Real')
  <2>1. PICK m \in View : Leads(Seen, batch, m) /\ Leads(m, queue, Real)
    BY <1>1 DEF ReaderInv, PendingInv
  <2>2. Leads(m, queue \o p, Real')
    BY <1>12, <1>13, <2>1, LeadsBoth
  <2>3. QED
    BY <1>1, <1>3, <2>1, <2>2 DEF reader
<1>15. QED
  BY <1>1, <1>13, <1>14 DEF PendingInv, Ends
LEMMA FingerStep == ReaderType /\ FingerInv /\ Reports => FingerInv'
<1> SUFFICES ASSUME ReaderType, FingerInv, Reports PROVE FingerInv'
  OBVIOUS
<1>1. PICK s \in PanelSlots : Lift(s) \/ \E x \in Raw : Press(s, x) \/ Move(s, x)
  BY DEF Reports
<1>2. CASE Lift(s)
  BY <1>2 DEF Lift, Packet, FingerInv, ReaderType
<1>3. ASSUME NEW x \in Raw, Press(s, x) \/ Move(s, x) PROVE FingerInv'
  BY <1>3 DEF Press, Move, Packet, FingerInv, ReaderType
<1>4. QED
  BY <1>1, <1>2, <1>3

LEMMA ReportsPending ==
  ASSUME ReaderInv, Reports, ~strayed' PROVE PendingInv' /\ queue' # <<>>
<1>0. ReaderType' /\ FingerInv'
  BY ReportsTyped, FingerStep DEF ReaderInv
<1>1. PICK s \in PanelSlots : Lift(s) \/ \E x \in Raw : Press(s, x) \/ Move(s, x)
  BY DEF Reports
<1> DEFINE a1 == [cur |-> s, on |-> Real.on, x |-> Real.x]
           a2 == [cur |-> s, on |-> Real'.on, x |-> Real.x]
<1>2. ASSUME ~strayed, s \in Slots
      PROVE  a1 \in View /\ finger \in [PanelSlots -> Raw \cup {NoTouch}]
  <2>1. kslot \in Slots
    BY <1>2 DEF ReaderInv, PendingInv
  <2>2. Real \in View
    BY <2>1, ViewsTyped DEF ReaderInv
  <2>3. QED
    BY <1>2, <2>2 DEF View, ReaderInv, FingerInv
<1>3. ASSUME NEW id \in Seq(Event), NEW y \in Raw, Packet(s, id, y)
      PROVE  s \in Slots /\ ~strayed
  BY <1>3 DEF Packet, Enqueue
<1>4. ASSUME NEW x \in Raw, Press(s, x) PROVE PendingInv' /\ queue' # <<>>
  <2> DEFINE id == <<Ev("id", packets)>>
  <2>1. /\ Ev("id", packets) \in Event /\ id \in Seq(Event)
        /\ Ev("id", packets).type = "id" /\ Ev("id", packets).v >= 0
    <3>1. packets \in Int /\ packets >= 0
      BY ParametersAssumption DEF ReaderInv, ReaderType
    <3>2. Ev("id", packets) \in Event
      BY <3>1, EventTyped
    <3>3. QED
      BY <3>1, <3>2, EventFields
  <2>2. Packet(s, id, x) /\ finger' = [finger EXCEPT ![s] = x]
    BY <1>4 DEF Press
  <2>3. s \in Slots /\ ~strayed
    BY <1>3, <2>1, <2>2
  <2>4. Real'.on = Real.on \cup {s}
    BY <1>2, <2>2, <2>3, SlotsAssumption, NoTouchAssumption DEF Real, Raw
  <2>5. a2 = Apply(a1, Ev("id", packets))
    BY <2>1, <2>4 DEF Apply
  <2> HIDE DEF a1, a2
  <2>6. Leads(a1, id, a2)
    BY <1>2, <2>1, <2>3, <2>5, LeadsOne
  <2> HIDE DEF id
  <2>7. QED
    BY <2>1, <2>2, <2>6, <1>0, PacketStep DEF a1, a2
<1>5. ASSUME NEW x \in Raw, Move(s, x) PROVE PendingInv' /\ queue' # <<>>
  <2>1. <<>> \in Seq(Event) /\ Packet(s, <<>>, x) /\ finger[s] # NoTouch
        /\ finger' = [finger EXCEPT ![s] = x]
    BY <1>5 DEF Move
  <2>2. s \in Slots /\ ~strayed
    BY <1>3, <2>1
  <2>3. Real'.on = Real.on
    BY <1>2, <2>1, <2>2, SlotsAssumption, NoTouchAssumption DEF Real, Raw
  <2>4. Leads(a1, <<>>, a2)
    BY <1>2, <2>2, <2>3, LeadsNothing
  <2>5. QED
    BY <2>1, <2>4, <1>0, PacketStep
<1>6. CASE Lift(s)
  <2> DEFINE id == <<Ev("id", -1)>>
  <2>1. /\ Ev("id", -1) \in Event /\ id \in Seq(Event) /\ kpos[s] \in Raw
        /\ Ev("id", -1).type = "id" /\ ~(Ev("id", -1).v >= 0)
    <3>1. Ev("id", -1) \in Event
      BY EventTyped
    <3>2. Ev("id", -1).type = "id" /\ Ev("id", -1).v = -1
      BY EventFields
    <3>3. QED
      BY <3>1, <3>2 DEF ReaderInv, ReaderType
  <2>2. Packet(s, id, kpos[s]) /\ finger' = [finger EXCEPT ![s] = NoTouch]
    BY <1>6 DEF Lift
  <2>3. s \in Slots /\ ~strayed
    BY <1>3, <2>1, <2>2
  <2>4. Real'.on = Real.on \ {s}
    BY <1>2, <2>2, <2>3, SlotsAssumption DEF Real
  <2>5. a2 = Apply(a1, Ev("id", -1))
    BY <2>1, <2>4 DEF Apply
  <2> HIDE DEF a1, a2
  <2>6. Leads(a1, id, a2)
    BY <1>2, <2>1, <2>3, <2>5, LeadsOne
  <2> HIDE DEF id
  <2>7. QED
    BY <2>1, <2>2, <2>6, <1>0, PacketStep DEF a1, a2
<1>7. QED
  BY <1>1, <1>4, <1>5, <1>6

LEMMA ReportsReader == ReaderInv /\ Reports => ReaderInv' /\ (~strayed' => Waiting')
<1> SUFFICES ASSUME ReaderInv, Reports PROVE ReaderInv' /\ (~strayed' => Waiting')
  OBVIOUS
<1>1. ReaderType' /\ FingerInv'
  BY ReportsTyped, FingerStep DEF ReaderInv
<1>2. pc' # "batch" => batch' = <<>>
  BY DEF Reports, Lift, Press, Move, Packet, reader, ReaderInv
<1>3. QED
  BY <1>1, <1>2, ReportsPending DEF ReaderInv, PendingInv, Waiting

LEMMA CutEnds ==
  ASSUME NEW q \in Seq(Event), NEW n \in 1 .. Len(q), Ends(q)
  PROVE  /\ SubSeq(q, 1, n) # <<>> /\ Ends(SubSeq(q, n + 1, Len(q)))
         /\ SubSeq(q, n + 1, Len(q)) = <<>> => Ends(SubSeq(q, 1, n))
<1> DEFINE p == SubSeq(q, 1, n)
           r == SubSeq(q, n + 1, Len(q))
<1>1. /\ Len(q) \in Nat /\ Len(p) = n /\ p[n] = q[n]
      /\ Len(r) = Len(q) - n /\ \A i \in 1 .. Len(q) - n : r[i] = q[n + i]
  OBVIOUS
<1> HIDE DEF p, r
<1>2. p # <<>> /\ q # <<>>
  BY <1>1
<1>3. q[Len(q)].type = "syn"
  BY <1>2 DEF Ends
<1>4. ASSUME r # <<>> PROVE r[Len(r)] = q[Len(q)]
  <2>1. r = <<>> <=> Len(r) = 0
    <3>1. r \in Seq(Event)
      BY DEF r
    <3>2. QED
      BY <3>1
  <2>2. Len(r) \in 1 .. Len(q) - n /\ n + Len(r) = Len(q)
    BY <1>1, <1>4, <2>1
  <2>3. r[Len(r)] = q[n + Len(r)]
    BY <1>1, <2>2
  <2>4. QED
    BY <2>2, <2>3
<1>5. ASSUME r = <<>> PROVE p[Len(p)] = q[Len(q)]
  <2>1. Len(q) - n = 0
    BY <1>1, <1>5
  <2>2. n = Len(q)
    BY <1>1, <2>1
  <2>3. QED
    BY <1>1, <2>2
<1>6. QED
  BY <1>2, <1>3, <1>4, <1>5 DEF Ends, p, r

LEMMA ReadPending == ASSUME ReaderInv, ReadBatch, ~strayed' PROVE PendingInv' /\ batch' # <<>>
<1> DEFINE n == IF Len(queue) < Batch THEN Len(queue) ELSE Batch
<1>1. queue \in Seq(Event) /\ n \in 1 .. Len(queue)
  BY ParametersAssumption DEF ReaderInv, ReaderType, ReadBatch
<1>2. /\ batch' = SubSeq(queue, 1, n) /\ queue' = SubSeq(queue, n + 1, Len(queue))
      /\ batch = <<>> /\ ~strayed /\ kslot' = kslot /\ Seen' = Seen /\ Real' = Real
  BY DEF ReadBatch, ReaderInv, Seen, Real
<1> HIDE DEF n
<1>3. \E m \in View : Leads(Seen', batch', m) /\ Leads(m, queue', Real')
  <2>1. PICK m \in View : Leads(Seen, batch, m) /\ Leads(m, queue, Real)
    BY <1>2 DEF ReaderInv, PendingInv
  <2>2. m = Seen
    BY <1>2, <2>1, LeadsNothing, ViewsTyped DEF ReaderInv
  <2>3. QED
    BY <1>1, <1>2, <2>1, <2>2, LeadsSplit
<1>4. batch' # <<>> /\ Ends(queue') /\ (queue' = <<>> => Ends(batch'))
  BY <1>1, <1>2, CutEnds DEF ReaderInv, PendingInv
<1>5. QED
  BY <1>2, <1>3, <1>4 DEF ReaderInv, PendingInv

LEMMA ReadReader == ReaderInv /\ ReadBatch => ReaderInv' /\ (~strayed' => Waiting')
<1> SUFFICES ASSUME ReaderInv, ReadBatch PROVE ReaderInv' /\ (~strayed' => Waiting')
  OBVIOUS
<1>1. ReaderType' /\ FingerInv' /\ pc' = "batch"
  BY ReadTyped DEF ReaderInv, ReadBatch, FingerInv
<1>2. QED
  BY <1>1, ReadPending DEF ReaderInv, PendingInv, Waiting

LEMMA TailEnds ==
  ASSUME NEW q \in Seq(Event), q # <<>>
  PROVE  /\ Tail(q) # <<>> => Tail(q)[Len(Tail(q))] = q[Len(q)]
         /\ Tail(q) = <<>> => Head(q) = q[Len(q)]
<1> DEFINE r == Tail(q)
<1>1. /\ r \in Seq(Event) /\ Len(q) \in Nat \ {0} /\ Head(q) = q[1] /\ Len(r) = Len(q) - 1
      /\ \A i \in 1 .. Len(q) - 1 : r[i] = q[i + 1]
  OBVIOUS
<1> HIDE DEF r
<1>2. ASSUME r # <<>> PROVE r[Len(r)] = q[Len(q)]
  <2>1. Len(r) \in 1 .. Len(q) - 1 /\ Len(r) + 1 = Len(q)
    BY <1>1, <1>2
  <2>2. QED
    BY <1>1, <2>1
<1>3. ASSUME r = <<>> PROVE Len(q) = 1
  BY <1>1, <1>3
<1>4. QED
  BY <1>1, <1>2, <1>3 DEF r

(* The program handles an event as a view does.                             *)
LEMMA HandlePending == ASSUME ReaderInv, HandleEvent, ~strayed' PROVE PendingInv' /\ Waiting'
<1> DEFINE e == Head(batch)
<1>1. /\ batch \in Seq(Event) /\ batch # <<>> /\ batch' = Tail(batch) /\ queue' = queue
      /\ pc = "batch" /\ pc' = "batch" /\ syn' = (syn \/ e.type = "syn")
      /\ kslot' = kslot /\ ~strayed /\ Real' = Real
  BY DEF HandleEvent, Rest, panel, ReaderInv, ReaderType, Real
<1>2. PICK m \in View : Leads(Seen, batch, m) /\ Leads(m, queue, Real)
  BY <1>1 DEF ReaderInv, PendingInv
<1>3. Apply(Seen, e) \in View /\ Leads(Apply(Seen, e), batch', m)
  BY <1>1, <1>2, LeadsRest
<1>4. e \in Event /\ e.v \in Int
  <2>1. e \in Event
    BY <1>1
  <2>2. QED
    BY <2>1 DEF Event
<1>5. Seen' = Apply(Seen, e)
  <2> DEFINE on == {s \in Slots : slots[s].on}
  <2>0. cur \in Slots /\ slots \in [Slots -> Slot]
    BY DEF ReaderInv, ReaderType
  <2>1. cur' = IF e.type = "slot" THEN e.v ELSE cur
    <3>1. e.type = "slot" => e.v \in Slots
      BY <1>3 DEF Apply, View
    <3>2. QED
      BY <3>1 DEF HandleEvent
  <2>2. CASE e.type = "id"
    <3>1. slots' = [slots EXCEPT ![cur].on = e.v >= 0]
      BY <2>2 DEF HandleEvent, Pressed
    <3>2. \A s \in Slots : slots'[s].x = slots[s].x /\ (s # cur => slots'[s].on = slots[s].on)
      BY <2>0, <3>1 DEF Slot
    <3>3. slots'[cur].on = (e.v >= 0)
      BY <2>0, <3>1 DEF Slot
    <3>4. {s \in Slots : slots'[s].on} = IF e.v >= 0 THEN on \cup {cur} ELSE on \ {cur}
      BY <2>0, <3>2, <3>3
    <3>5. QED
      BY <2>1, <2>2, <3>2, <3>4 DEF Seen, Apply
  <2>3. CASE e.type = "x"
    <3>1. slots' = [slots EXCEPT ![cur].x = e.v]
      BY <2>3 DEF HandleEvent
    <3>2. \A s \in Slots : /\ slots'[s].on = slots[s].on
                           /\ slots'[s].x = IF s = cur THEN e.v ELSE slots[s].x
      BY <2>0, <3>1 DEF Slot
    <3>3. {s \in Slots : slots'[s].on} = on
      BY <3>2
    <3>4. [s \in Slots |-> slots'[s].x] = [[s \in Slots |-> slots[s].x] EXCEPT ![cur] = e.v]
      BY <2>0, <3>2
    <3>5. QED
      BY <2>1, <2>3, <3>3, <3>4 DEF Seen, Apply
  <2>4. CASE e.type \notin {"id", "x"}
    <3>1. slots' = slots
      BY <2>4 DEF HandleEvent
    <3>2. QED
      BY <2>1, <2>4, <3>1 DEF Seen, Apply
  <2>5. QED
    BY <2>2, <2>3, <2>4
<1>6. Ends(queue) /\ (queue = <<>> => Ends(batch)) /\ kslot \in Slots
  BY <1>1 DEF ReaderInv, PendingInv
<1>7. /\ batch' # <<>> => batch'[Len(batch')] = batch[Len(batch)]
      /\ batch' = <<>> => e = batch[Len(batch)]
  BY <1>1, TailEnds
<1>8. batch' = <<>> /\ queue' = <<>> => syn'
  BY <1>1, <1>6, <1>7 DEF Ends
<1>9. QED
  BY <1>1, <1>2, <1>3, <1>5, <1>6, <1>7, <1>8 DEF PendingInv, Ends, Waiting

LEMMA HandleReader == ReaderInv /\ HandleEvent => ReaderInv' /\ (~strayed' => Waiting')
<1> SUFFICES ASSUME ReaderInv, HandleEvent PROVE ReaderInv' /\ (~strayed' => Waiting')
  OBVIOUS
<1>1. ReaderType' /\ FingerInv' /\ pc' = "batch"
  BY HandleTyped DEF ReaderInv, HandleEvent, FingerInv, panel
<1>2. QED
  BY <1>1, HandlePending DEF ReaderInv, PendingInv

(* Acting on a batch, or waiting, the program sees neither more nor less.   *)
LEMMA OtherReader ==
  ASSUME ReaderInv, UNCHANGED <<panel, batch, cur>>, pc' # "batch" => batch = <<>>,
         pc' \in {"wait", "read", "batch", "done"}, syn' \in BOOLEAN, slots' \in [Slots -> Slot],
         \A s \in Slots : slots'[s].on = slots[s].on /\ slots'[s].x = slots[s].x
  PROVE  ReaderInv'
<1>1. ReaderType' /\ FingerInv'
  BY DEF ReaderInv, ReaderType, FingerInv, panel
<1>2. Seen' = Seen /\ Real' = Real
  BY DEF Seen, Real, panel
<1>3. PendingInv'
  BY <1>2 DEF ReaderInv, PendingInv, Ends, panel
<1>4. QED
  BY <1>1, <1>3 DEF ReaderInv

(* When nothing is pending, slots[] is right about the fingers.             *)
LEMMA SlotsRight ==
  ASSUME ReaderInv, queue = <<>>, batch = <<>>, ~strayed, NEW s \in Slots
  PROVE  /\ slots[s].on <=> finger[s] # NoTouch
         /\ finger[s] # NoTouch => slots[s].x = finger[s]
<1>1. Seen = Real
  <2>1. PICK m \in View : Leads(Seen, batch, m) /\ Leads(m, queue, Real)
    BY DEF ReaderInv, PendingInv
  <2>2. Seen \in View /\ Real \in View
    BY ViewsTyped DEF ReaderInv, PendingInv
  <2>3. QED
    BY <2>1, <2>2, LeadsNothing
<1>2. slots[s].on <=> finger[s] # NoTouch
  <2>1. Seen.on = Real.on
    BY <1>1
  <2>2. QED
    BY <2>1 DEF Seen, Real
<1>3. slots[s].x = kpos[s]
  <2>1. Seen.x[s] = Real.x[s]
    BY <1>1
  <2>2. QED
    BY <2>1 DEF Seen, Real
<1>4. finger[s] # NoTouch => finger[s] = kpos[s]
  BY SlotsAssumption DEF ReaderInv, FingerInv
<1>5. QED
  BY <1>2, <1>3, <1>4

-----------------------------------------------------------------------------
(* touchinj.                                                                *)

(* What is sent lies on the panel, whatever the raw coordinate is: also one *)
(* past the maximum that the node announced.                                *)
LEMMA ScaleInPanel == ASSUME NEW x \in Int PROVE Scale(x) \in 0 .. PanelW - 1
<1> DEFINE c == (x * PanelW) \div (AxMax + 1)
<1>1. c \in Int
  BY ParametersAssumption
<1>2. Scale(x) = IF c < 0 THEN 0 ELSE IF c >= PanelW THEN PanelW - 1 ELSE c
  BY DEF Scale
<1> HIDE DEF c
<1>3. QED
  BY <1>1, <1>2, ParametersAssumption

(* A slot was on exactly when kwin has been told that its point is down.    *)
Agree == \A s \in Slots : slots[s].was = (told[s] # NoTouch)

(* kwin has been told what the program has seen.                            *)
Informed == \A s \in Slots : told[s] = IF slots[s].on THEN Scale(slots[s].x) ELSE NoTouch

IInv == /\ ReaderInv /\ Agree /\ told \in [Slots -> 0 .. PanelW - 1 \cup {NoTouch}]
        /\ ~strayed => Informed \/ Waiting

LEMMA InitIInv == Init => IInv
<1> SUFFICES ASSUME Init PROVE IInv
  OBVIOUS
<1>1. ReaderInv
  BY InitReader DEF Init
<1>2. /\ \A s \in Slots : slots[s] = [on |-> FALSE, was |-> FALSE, x |-> 0]
      /\ told = [s \in Slots |-> NoTouch]
  BY DEF Init, ReaderInit
<1>3. \A s \in Slots : ~slots[s].on /\ slots[s].was = FALSE /\ told[s] = NoTouch
  BY <1>2
<1>4. Agree /\ Informed /\ told \in [Slots -> 0 .. PanelW - 1 \cup {NoTouch}]
  BY <1>2, <1>3 DEF Agree, Informed
<1>5. QED
  BY <1>1, <1>4 DEF IInv

LEMMA ReadingStep == IInv /\ (Touch \/ Read \/ Handle) => IInv'
<1> SUFFICES ASSUME IInv, Touch \/ Read \/ Handle PROVE IInv'
  OBVIOUS
<1>1. ReaderInv' /\ (~strayed' => Waiting')
  BY ReportsReader, ReadReader, HandleReader DEF IInv, Touch, Read, Handle
<1>2. \A s \in Slots : slots'[s].was = slots[s].was
  <2>1. CASE Touch
    BY <2>1 DEF Touch, Reports, Lift, Press, Move, Packet, reader
  <2>2. CASE Read
    BY <2>2 DEF Read, ReadBatch
  <2>3. CASE Handle
    BY <2>3, HandleTyped DEF Handle, IInv, ReaderInv
  <2>4. QED
    BY <2>1, <2>2, <2>3
<1>3. told' = told
  BY DEF Touch, Read, Handle, kwin
<1>4. QED
  BY <1>1, <1>2, <1>3 DEF IInv, Agree

(* A request presses exactly the points that are up.                        *)
LEMMA RequestsLegal == IInv => /\ DOMAIN Requests \subseteq Slots
                              /\ Stream!Legal(Requests)
                              /\ \A s \in DOMAIN Requests : Requests[s] \in Stream!Request
<1> SUFFICES ASSUME IInv
             PROVE  /\ DOMAIN Requests \subseteq Slots /\ Stream!Legal(Requests)
                    /\ \A s \in DOMAIN Requests : Requests[s] \in Stream!Request
  OBVIOUS
<1>1. \A s \in DOMAIN Requests : /\ s \in Slots /\ slots[s].x \in Int
                                 /\ (Requests[s].req = "down") = ~slots[s].was
                                 /\ Requests[s].at = Scale(slots[s].x)
                                 /\ Requests[s].req \in {"down", "motion", "up"}
  BY DEF Requests, IInv, ReaderInv, ReaderType, Slot
<1>2. Stream!Legal(Requests)
  BY <1>1 DEF Stream!Legal, IInv, Agree
<1>3. \A s \in DOMAIN Requests : Requests[s] \in Stream!Request
  BY <1>1, ScaleInPanel DEF Requests, Stream!Request
<1>4. QED
  BY <1>1, <1>2, <1>3

LEMMA FlushTells ==
  ASSUME IInv, Flush, syn
  PROVE  /\ told' \in [Slots -> 0 .. PanelW - 1 \cup {NoTouch}]
         /\ \A s \in Slots : slots[s].on = (told'[s] # NoTouch)
<1>1. CASE DOMAIN Requests = {}
  <2>1. told' = told /\ \A s \in Slots : ~slots[s].on /\ ~slots[s].was
    BY <1>1 DEF Flush, Requests, kwin
  <2>2. \A s \in Slots : told[s] = NoTouch
    BY <2>1 DEF IInv, Agree
  <2>3. \A s \in Slots : slots[s].on = (told'[s] # NoTouch)
    <3> TAKE s \in Slots
    <3>1. slots[s].on \in BOOLEAN /\ ~slots[s].on /\ told'[s] = NoTouch
      BY <2>1, <2>2 DEF IInv, ReaderInv, ReaderType, Slot
    <3>2. QED
      BY <3>1
  <2>4. QED
    BY <2>1, <2>3 DEF IInv, ReaderInv, ReaderType
<1>2. CASE DOMAIN Requests # {}
  <2>1. told' = Stream!After(Requests)
    BY <1>2 DEF Flush, Stream!Send
  <2>2. \A s \in Slots : told'[s] = IF ~slots[s].on /\ ~slots[s].was THEN told[s]
                                   ELSE IF slots[s].on THEN Scale(slots[s].x) ELSE NoTouch
    BY <2>1 DEF Stream!After, Requests, IInv, ReaderInv, ReaderType, Slot
  <2>3. \A s \in Slots : Scale(slots[s].x) \in 0 .. PanelW - 1
    BY ScaleInPanel DEF IInv, ReaderInv, ReaderType, Slot
  <2>4. \A s \in Slots : told'[s] \in 0 .. PanelW - 1 \cup {NoTouch}
    BY <2>2, <2>3 DEF IInv, ReaderInv, ReaderType
  <2>5. told' \in [Slots -> 0 .. PanelW - 1 \cup {NoTouch}]
    BY <2>1, <2>4 DEF Stream!After
  <2>6. \A s \in Slots : slots[s].on = (told'[s] # NoTouch)
    BY <2>2, <2>3, NoTouchAssumption, ParametersAssumption
       DEF IInv, ReaderInv, ReaderType, Agree, Slot
  <2>7. QED
    BY <2>5, <2>6
<1>3. QED
  BY <1>1, <1>2

(* A batch that held a SYN_REPORT leaves kwin informed.                     *)
LEMMA FlushInforms == IInv /\ Flush /\ syn => Informed'
<1> SUFFICES ASSUME IInv, Flush, syn, NEW s \in Slots
             PROVE  told'[s] = IF slots'[s].on THEN Scale(slots'[s].x) ELSE NoTouch
  BY DEF Informed
<1>1. /\ slots[s] \in Slot /\ slots'[s].on = slots[s].on /\ slots'[s].x = slots[s].x
      /\ slots[s].was = (told[s] # NoTouch)
  BY DEF Flush, Settle, IInv, ReaderInv, ReaderType, Agree, Slot
<1>2. CASE DOMAIN Requests = {}
  BY <1>1, <1>2 DEF Flush, Requests, Slot, kwin
<1>3. CASE DOMAIN Requests # {}
  <2>1. told' = Stream!After(Requests)
    BY <1>3 DEF Flush, Stream!Send
  <2>2. told'[s] = IF ~slots[s].on /\ ~slots[s].was THEN told[s]
                   ELSE IF slots[s].on THEN Scale(slots[s].x) ELSE NoTouch
    BY <1>1, <2>1 DEF Stream!After, Requests, Slot
  <2>3. QED
    BY <1>1, <2>2 DEF Slot
<1>4. QED
  BY <1>2, <1>3

LEMMA FlushStep == IInv /\ Flush => IInv'
<1> SUFFICES ASSUME IInv, Flush PROVE IInv'
  OBVIOUS
<1>1. /\ slots \in [Slots -> Slot] /\ slots' \in [Slots -> Slot]
      /\ \A s \in Slots : slots'[s].on = slots[s].on /\ slots'[s].x = slots[s].x
  <2>1. slots \in [Slots -> Slot] /\ (slots' = slots \/ slots' = Settle)
    BY DEF Flush, IInv, ReaderInv, ReaderType
  <2>2. CASE slots' = slots
    BY <2>1, <2>2
  <2>3. CASE slots' = Settle
    BY <2>1, <2>3 DEF Settle, Slot
  <2>4. QED
    BY <2>1, <2>2, <2>3
<1>2. /\ UNCHANGED <<panel, batch, cur, syn, queue, strayed>> /\ batch = <<>> /\ pc' = "wait"
      /\ syn \in BOOLEAN
  BY DEF Flush, panel, IInv, ReaderInv, ReaderType
<1>3. ReaderInv'
  BY <1>1, <1>2, OtherReader DEF IInv
<1>4. CASE ~syn
  <2>1. UNCHANGED <<slots, told>>
    BY <1>4 DEF Flush, kwin
  <2>2. QED
    BY <1>2, <1>3, <1>4, <2>1 DEF IInv, Agree, Informed, Waiting
<1>5. CASE syn
  <2>1. \A s \in Slots : slots'[s].was = slots[s].on
    BY <1>1, <1>5 DEF Flush, Settle, Slot
  <2>2. QED
    BY <1>3, <1>5, <2>1, FlushTells, FlushInforms DEF IInv, Agree
<1>6. QED
  BY <1>2, <1>4, <1>5

LEMMA StepIInv == IInv /\ [Next]_vars => IInv'
<1> SUFFICES ASSUME IInv, [Next]_vars PROVE IInv'
  OBVIOUS
<1>1. CASE Wakeup \/ Exit \/ UNCHANGED vars
  <2>1. /\ UNCHANGED <<panel, batch, cur, syn, slots, told>> /\ (pc' = pc \/ batch = <<>>)
        /\ pc' # pc => pc # "batch" /\ pc' \in {"read", "done"}
    BY <1>1 DEF Wakeup, Exit, vars, reader, kwin, IInv, ReaderInv
  <2>2. ReaderInv'
    BY <2>1, OtherReader DEF IInv, ReaderInv, ReaderType
  <2>3. QED
    BY <2>1, <2>2 DEF IInv, Agree, Informed, Waiting, panel
<1>2. QED
  BY <1>1, ReadingStep, FlushStep DEF Next

(* The variables of the program keep their types: `cur` is always an index  *)
(* into slots[], and every coordinate sent lies on the panel.               *)
THEOREM TypeCorrect == Spec => []TypeOK
<1>1. IInv => TypeOK
  BY DEF IInv, ReaderInv, TypeOK
<1>2. QED
  BY InitIInv, StepIInv, <1>1, PTL DEF Spec

(* Every frame kwin is sent is legal, for any number of slots and however   *)
(* the reports are cut into batches, lost, or credited to a wrong slot.     *)
THEOREM StreamIsLegal == Spec => LegalStream
<1>1. Init => Stream!Init
  BY DEF Init, Stream!Init
<1>2. IInv /\ [Next]_vars => [Stream!Next]_<<told, frame>>
  <2> SUFFICES ASSUME IInv, [Next]_vars PROVE [Stream!Next]_<<told, frame>>
    OBVIOUS
  <2>1. CASE Flush
    <3>1. CASE syn /\ DOMAIN Requests # {}
      <4>1. Stream!Send(Requests)
        BY <2>1, <3>1 DEF Flush
      <4>2. Requests \in Stream!Frames
        <5>1. DOMAIN Requests \in (SUBSET Slots) \ {{}}
          <6>1. DOMAIN Requests \in SUBSET Slots
            BY RequestsLegal
          <6>2. DOMAIN Requests # {}
            BY <3>1
          <6>3. QED
            BY <6>1, <6>2
        <5>2. Requests \in [DOMAIN Requests -> Stream!Request]
          BY RequestsLegal DEF Requests
        <5>3. QED
          BY <5>1, <5>2 DEF Stream!Frames
      <4>3. QED
        BY <4>1, <4>2, RequestsLegal DEF Stream!Next
    <3>2. CASE ~(syn /\ DOMAIN Requests # {})
      BY <2>1, <3>2 DEF Flush, kwin
    <3>3. QED
      BY <3>1, <3>2
  <2>2. CASE Touch
    BY <2>2 DEF Touch, kwin
  <2>3. CASE Wakeup \/ Read \/ Handle \/ Exit \/ UNCHANGED vars
    BY <2>3 DEF Wakeup, Read, Handle, Exit, vars, kwin
  <2>4. QED
    BY <2>1, <2>2, <2>3 DEF Next
<1>3. QED
  BY InitIInv, StepIInv, <1>1, <1>2, PTL DEF Spec, LegalStream, Stream!Spec

(* No finger is lost: once all that the panel reported is handled, kwin     *)
(* knows every finger that is down and where it is, for any cut into        *)
(* batches; unless the kernel dropped events or the panel did what the      *)
(* program cannot know of.                                                  *)
THEOREM FingersKnown == Spec => []NoFingerLost
<1>1. IInv => NoFingerLost
  <2> SUFFICES ASSUME IInv, queue = <<>>, batch = <<>>, pc \in {"wait", "read"}, ~strayed,
                      NEW s \in Slots
               PROVE  told[s] = IF finger[s] = NoTouch THEN NoTouch ELSE Scale(finger[s])
    BY DEF NoFingerLost, Caught
  <2>1. told[s] = IF slots[s].on THEN Scale(slots[s].x) ELSE NoTouch
    BY DEF IInv, Waiting, Informed
  <2>2. /\ slots[s].on <=> finger[s] # NoTouch
        /\ finger[s] # NoTouch => slots[s].x = finger[s]
    BY SlotsRight DEF IInv
  <2>3. slots[s].on \in BOOLEAN
    BY DEF IInv, ReaderInv, ReaderType, Slot
  <2>4. QED
    BY <2>1, <2>2, <2>3
<1>2. QED
  BY InitIInv, StepIInv, <1>1, PTL DEF Spec
=============================================================================
