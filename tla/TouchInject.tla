---------------------------- MODULE TouchInject ----------------------------
(***************************************************************************)
(* src/src/touchinj.c: reads the multi-touch events of the panel's evdev   *)
(* node (module TouchReader) and forwards them to kwin as fake-input       *)
(* requests, one frame per batch that holds a SYN_REPORT.                  *)
(***************************************************************************)
EXTENDS TouchReader

VARIABLES
  told,     \* the touch points as kwin has been told
  frame     \* the last frame sent to kwin

kwin == <<told, frame>>
vars == <<panel, reader, kwin>>

Stream == INSTANCE TouchStream WITH Ids <- Slots, Points <- 0 .. PanelW - 1

TypeOK == ReaderType /\ told \in [Slots -> 0 .. PanelW - 1 \cup {NoTouch}]

Init == ReaderInit /\ told = [s \in Slots |-> NoTouch] /\ frame = <<>>

-----------------------------------------------------------------------------
\* Faulty variant: the largest coordinate lies outside the panel.
ScaleUnclamped(x) == (x * PanelW) \div AxMax

(* Pixels from raw coordinates, clamped to the panel. *)
Scale(x) ==
  LET c == (x * PanelW) \div (AxMax + 1)
  IN  IF c < 0 THEN 0 ELSE IF c >= PanelW THEN PanelW - 1 ELSE c

(* kwin may wake the select: the program then reads the panel's node, which  *)
(* blocks until there is an event.                                           *)
Wakeup == pc = "wait" /\ pc' = "read" /\ UNCHANGED <<panel, batch, syn, cur, slots, kwin>>

Touch  == Reports /\ UNCHANGED kwin
Read   == ReadBatch /\ UNCHANGED kwin
Handle == HandleEvent /\ UNCHANGED kwin

(* flush_touches(): one request for every slot that is or was on. *)
Requests ==
  [s \in {t \in Slots : slots[t].on \/ slots[t].was} |->
     [req |-> IF ~slots[s].was THEN "down" ELSE IF slots[s].on THEN "motion" ELSE "up",
      at  |-> Scale(slots[s].x)]]

\* Faulty variant: `was` follows only the touches that are on.
SettleOnlyOn == [s \in Slots |-> [slots[s] EXCEPT !.was = slots[s].was \/ slots[s].on]]

Settle == [s \in Slots |-> [slots[s] EXCEPT !.was = slots[s].on]]

Flush ==
  /\ pc = "batch" /\ batch = <<>>
  /\ pc' = "wait"
  /\ IF syn THEN slots' = Settle ELSE UNCHANGED slots
  /\ IF syn /\ DOMAIN Requests # {} THEN Stream!Send(Requests) ELSE UNCHANGED kwin
  /\ UNCHANGED <<panel, batch, syn, cur>>

(* The time given on the command line is up; checked between batches only. *)
Exit == pc = "wait" /\ pc' = "done" /\ UNCHANGED <<panel, batch, syn, cur, slots, kwin>>

Next == Touch \/ Wakeup \/ Read \/ Handle \/ Flush \/ Exit

(* The program runs whenever it has something to do. *)
Fairness == WF_vars(Read) /\ WF_vars(Handle) /\ WF_vars(Flush)
Spec     == Init /\ [][Next]_vars
FairSpec == Spec /\ Fairness

-----------------------------------------------------------------------------
(* Properties.                                                               *)

(* However packets are cut into batches, and whatever SYN_DROPPED and        *)
(* unknown slots do to the bookkeeping, kwin is sent legal frames: no point  *)
(* is pressed twice, none is moved or lifted that is not down.               *)
LegalStream == Stream!Spec

(* Once everything the panel reported has been handled, kwin knows exactly   *)
(* the fingers that are on the panel and where they are, whatever batches    *)
(* the reports were read in; unless events were lost, a slot past NSlot was  *)
(* used, or the panel had been touched before the node was opened.           *)
Caught ==
  \A s \in Slots : told[s] = IF finger[s] = NoTouch THEN NoTouch ELSE Scale(finger[s])

NoFingerLost == queue = <<>> /\ batch = <<>> /\ pc \in {"wait", "read"} /\ ~strayed => Caught

(* When the panel comes to rest, kwin gets to know its last state, unless    *)
(* the program's time is up.                                                 *)
CatchesUp == <>[](Caught \/ strayed \/ pc = "done")
=============================================================================
