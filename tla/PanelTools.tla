----------------------------- MODULE PanelTools -----------------------------
(***************************************************************************)
(* The programs of src/src that drive the panel without a compositor:      *)
(* drmatomic.c and touchdraw.c take it over and show a picture of theirs,  *)
(* half by half; stageprobe.c, atombisect.c, replicate.c and rawprobe.c    *)
(* only ask the kernel which atomic requests it would accept.  Several may *)
(* be started at once, and beside a compositor; the kernel has one DRM     *)
(* master.                                                                 *)
(*                                                                         *)
(* A request is a set of <<object, property, value>>, one value each.  The *)
(* rectangles of a plane are "left", "right" or "full"; "shifted" ones     *)
(* carry the fixed-point shift where the kernel takes pixels.              *)
(***************************************************************************)
EXTENDS Integers, Sequences, FiniteSetsExt

CONSTANTS
  Procs,      \* processes, each of which runs one tool
  MayRun,     \* the tools a process may be started with
  Devices,    \* devices, see Device
  MaxOther,   \* planes a takeover can turn off (32)
  None

Takeovers == {"drmatomic", "touchdraw"}
Probes    == {"stageprobe", "atombisect", "replicate", "rawprobe"}
CONN == 67

(* planes, crtcs: what the kernel lists, in order; usable[pl]: the crtcs of  *)
(* possible_crtcs, {} where the DPU leaves the mask empty; cursors: planes   *)
(* of that type; output: a connected DSI connector with modes was found;     *)
(* encoder: the crtc bound to it, or 0; named: what the plane's property     *)
(* called "FB" is, or "none"; fbProps: the ones that can be set; frames:     *)
(* what a compositor may show there, the crtc of every plane that is on.     *)
Device(d) ==
  /\ d.encoder \in {0} \cup {d.crtcs[i] : i \in DOMAIN d.crtcs} /\ d.crtcs # <<>>
  /\ d.output \in BOOLEAN /\ d.named \in {"none", "17", "34"} /\ d.fbProps \subseteq {"17", "34"}
  /\ d.planes \in Seq(Nat \ {CONN}) /\ \A i, k \in DOMAIN d.planes : d.planes[i] = d.planes[k] => i = k
  /\ \A f \in d.frames :
       /\ Cardinality(DOMAIN f) <= MaxOther /\ DOMAIN f \subseteq {d.planes[i] : i \in DOMAIN d.planes}
       /\ \A pl \in DOMAIN f : d.usable[pl] = {} \/ f[pl] \in d.usable[pl]
  /\ \A i \in DOMAIN d.planes : d.usable[d.planes[i]] \subseteq {d.crtcs[k] : k \in DOMAIN d.crtcs}
ASSUME DevicesAssumption == \A d \in Devices : Device(d)
ASSUME ProcsAssumption   ==
  /\ MayRun \in [Procs -> SUBSET (Takeovers \cup Probes)] /\ MaxOther \in Nat
  /\ None \notin Procs \cup {"composer"} /\ "composer" \notin Procs

VARIABLES
  dev,      \* the device
  master,   \* the DRM master: a process, "composer" or None
  disp,     \* what each plane scans out: fb (its owner), crtc, src, dst
  lit,      \* the crtcs that have a mode
  run       \* the processes

vars == <<dev, master, disp, lit, run>>

Planes  == {dev.planes[i] : i \in DOMAIN dev.planes}
Crtcs   == {dev.crtcs[i] : i \in DOMAIN dev.crtcs}
Dark    == [fb |-> None, crtc |-> 0, src |-> None, dst |-> None]
Idle    == [tool |-> None, pc |-> "idle", cap |-> FALSE, crtc |-> 0, halves |-> <<0, 0>>,
            others |-> {}, step |-> 0, tested |-> None, gated |-> FALSE, code |-> 0]

-----------------------------------------------------------------------------
(* Requests. *)
Set(o, n, v) == {<<o, n, v>>}
Nothing      == {}
Active(c)    == Set(c, "ACTIVE", 1)
Mode(c)      == Active(c) \cup Set(c, "MODE_ID", "mode")
Output(c)    == Set(CONN, "CRTC_ID", c)
Bare(pl, prop, p, c)       == Set(pl, prop, p) \cup Set(pl, "CRTC_ID", c)
Shows(pl, prop, p, c, src, dst) ==
  Bare(pl, prop, p, c) \cup Set(pl, "SRC", src) \cup Set(pl, "DST", dst)
Off(pls, prop) == UNION {Bare(pl, prop, None, 0) : pl \in pls}

\* Faulty variant: a half that is lit is turned off with the others.
TakeoverOffAll(p, r, prop) ==
  LET unlit == {i \in {1, 2} : r.halves[i] \notin r.others}
  IN  Output(r.crtc) \cup Mode(r.crtc) \cup Off(r.others, prop)
        \cup UNION {Shows(r.halves[i], prop, p, r.crtc, "left", "left") : i \in unlit}

(* drmatomic.c, touchdraw.c: both halves, and every other plane off. *)
Takeover(p, r, prop) ==
  Output(r.crtc) \cup Mode(r.crtc)
    \cup Shows(r.halves[1], prop, p, r.crtc, "left", "left")
    \cup Shows(r.halves[2], prop, p, r.crtc, "right", "right")
    \cup Off(r.others \ {r.halves[1], r.halves[2]}, prop)

(* find_prop() falls back to a table when the object lists no such property. *)
FbListed == IF dev.named = "none" THEN "17" ELSE dev.named

(* The property found, and the vendor's if it is another one.                *)
FbProps == IF FbListed = "34" THEN <<"34">> ELSE <<FbListed, "34">>

(* stageprobe.c S1 to S8, cumulative. *)
Stages(p, r) ==
  LET c  == r.crtc
      s3 == Active(c) \cup Output(c) \cup Mode(c)
      s4 == s3 \cup Shows(161, "17", p, c, "left", "shifted")
  IN  << Active(c), Active(c) \cup Output(c), s3, s4,
         s4 \cup Shows(157, "17", p, c, "right", "shifted"),
         s3 \cup Shows(161, "17", p, c, "full", "shifted"),
         s3 \cup Bare(161, "17", p, c),
         s3 \cup Shows(97, "17", p, c, "full", "shifted") >>

(* atombisect.c 1a to 7b; the connector is given a mode as well. *)
Bisect(p, r) ==
  LET c  == r.crtc
      cm == Set(CONN, "MODE_ID", "mode")
      s3 == Mode(c) \cup cm \cup Output(c)
  IN  << Nothing, Active(c), Mode(c), Mode(c) \cup cm, s3,
         s3 \cup Set(161, "17", p), s3 \cup Bare(161, "17", p, c),
         s3 \cup Shows(161, "17", p, c, "full", "full"),
         s3 \cup Shows(161, "17", p, c, "left", "left") \cup Shows(157, "17", p, c, "right", "right"),
         s3 \cup Bare(161, "34", p, c), cm \cup Output(c), Set(c, "ACTIVE", 0) >>

(* replicate.c V1 to V6: base() and its variants.  Where both halves are the *)
(* same plane the left one, added last, stands.                              *)
Variants(p, r) ==
  LET c     == r.crtc
      left  == Shows(r.halves[1], "17", p, c, "left", "left")
      right == IF r.halves[1] = r.halves[2] THEN Nothing
               ELSE Shows(r.halves[2], "17", p, c, "right", "right")
      link  == Set(CONN, "LINK", 0) \cup Output(c)
      base  == left \cup right \cup link \cup Mode(c) \cup Set(c, "VRR", 0)
  IN  << base,
         (r.others \X {"ACTIVE", "MODE_ID"} \X {0}) \cup base,
         Set(CONN, "MODE_ID", "mode") \cup base,
         left \cup link \cup Mode(c),
         Set(CONN, "DPMS", 0) \cup base,
         ({r.halves[1], r.halves[2]} \X {"IN_FENCE_FD"} \X {-1}) \cup base >>

(* rawprobe.c Z and A to V: one or two properties each, 999999 and "prop" do *)
(* not exist; the objects are piano's.                                       *)
Raws(p, r) ==
  << Nothing, Active(206), Set(206, "prop", 1), Set(206, "VRR", 0), Set(206, "core_clk", 100),
     Set(CONN, "DPMS", 0), Output(206), Set(161, "zpos", 1), Set(161, "SRC", None), Set(161, "17", None),
     Set(206, "ACTIVE", 0), Set(999999, "ACTIVE", 1),
     Set(CONN, "MODE_ID", "mode"), Set(206, "MODE_ID", "mode"), Set(206, "MODE_ID", 0),
     Output(206) \cup Set(CONN, "MODE_ID", "mode"), Mode(206),
     Set(157, "17", None), Set(157, "CRTC_ID", 206), Set(157, "SRC", None), Set(157, "DST", None),
     Set(157, "DAMAGE", 0) >>

Requests(p) ==
  LET r == run[p] IN
  CASE r.tool \in Takeovers    -> [i \in DOMAIN FbProps |-> Takeover(p, r, FbProps[i])]
    [] r.tool = "stageprobe"   -> Stages(p, r)
    [] r.tool = "atombisect"   -> Bisect(p, r)
    [] r.tool = "replicate"    -> Variants(p, r)
    [] r.tool = "rawprobe"     -> Raws(p, r)

-----------------------------------------------------------------------------
(* The kernel.  It gates atomic requests on the master and the client's      *)
(* ATOMIC capability, refuses those that make no sense, and what it does not *)
(* the driver may.                                                           *)
Gate(p) == master = p /\ run[p].cap

Sensible(r) ==
  \A k \in r :
    /\ k[1] \in Planes \cup Crtcs \cup {CONN} /\ k[2] # "prop"
    /\ ~(k[1] = CONN /\ k[2] = "MODE_ID")
    /\ k[2] \in {"17", "34"} => k[2] \in dev.fbProps
    /\ k[2] = "DST" => k[3] # "shifted"
    /\ k[1] \in Planes /\ k[2] = "CRTC_ID" =>
         k[3] \in Crtcs \cup {0} /\ (dev.usable[k[1]] = {} \/ k[3] \in dev.usable[k[1]] \cup {0})

Answers(p, r) == IF ~Gate(p) THEN {"gate"} ELSE IF ~Sensible(r) THEN {"request"}
                 ELSE {"ok", "driver"}

Given(r, pl, n, old) ==
  LET asked == {k \in r : k[1] = pl /\ k[2] = n}
  IN  IF asked = {} THEN old ELSE (CHOOSE k \in asked : TRUE)[3]

Applied(r) ==
  [pl \in Planes |->
     [fb   |-> Given(r, pl, "34", Given(r, pl, "17", disp[pl].fb)),
      crtc |-> Given(r, pl, "CRTC_ID", disp[pl].crtc),
      src  |-> Given(r, pl, "SRC", disp[pl].src), dst |-> Given(r, pl, "DST", disp[pl].dst)]]

(* A closed file takes its framebuffers and the master with it; the crtc may *)
(* go dark with the picture.                                                 *)
Closed(p) == [pl \in Planes |-> IF disp[pl].fb = p THEN Dark ELSE disp[pl]]

Release(p) == /\ master' = IF master = p THEN None ELSE master
              /\ disp' = Closed(p)
              /\ lit' \in IF Closed(p) = disp THEN {lit} ELSE {lit, {}}
              /\ UNCHANGED dev

(* The compositor: comes when there is no master, shows what it likes, and   *)
(* leaves the display as it is or dark.                                      *)
Acquire == master = None /\ master' = "composer" /\ UNCHANGED <<dev, disp, lit, run>>

Flip ==
  /\ master = "composer"
  /\ \E f \in dev.frames :
       /\ disp' = [pl \in Planes |-> IF pl \in DOMAIN f
                                     THEN [Dark EXCEPT !.fb = "composer", !.crtc = f[pl]] ELSE Dark]
       /\ lit' = {f[pl] : pl \in DOMAIN f}
  /\ UNCHANGED <<dev, master, run>>

Leave == /\ master = "composer" /\ master' = None
         /\ \/ UNCHANGED <<disp, lit>>
            \/ disp' = Closed("composer") /\ lit' \in {lit, {}}
         /\ UNCHANGED <<dev, run>>

-----------------------------------------------------------------------------
(* The tools. *)
Goes(p, r)    == run' = [run EXCEPT ![p] = r]
Quits(p, why) == /\ Goes(p, [Idle EXCEPT !.pc = "done", !.code = why])
                 /\ Release(p)
Quiet         == UNCHANGED <<dev, master, disp, lit>>

(* The first to open the card is its master, and SetMaster fails for the     *)
(* others; two of the probes go on without.                                  *)
Open(p, t) ==
  /\ run[p].pc = "idle"
  /\ IF master # None /\ t \notin {"replicate", "rawprobe"}
     THEN Quits(p, 3)
     ELSE /\ Goes(p, [run[p] EXCEPT !.tool = t, !.pc = "caps"])
          /\ master' = IF master = None THEN p ELSE master
          /\ UNCHANGED <<dev, disp, lit>>

\* Faulty variant: the result of SET_CLIENT_CAP is not looked at.
SetCapsUnchecked(p) ==
  /\ run[p].pc = "caps"
  /\ \E ok \in BOOLEAN : Goes(p, [run[p] EXCEPT !.cap = ok, !.pc = "find"]) /\ Quiet

(* atombisect never asks for the capability, replicate and rawprobe do not   *)
(* look at the answer.                                                       *)
SetCaps(p) ==
  /\ run[p].pc = "caps"
  /\ IF run[p].tool = "atombisect" THEN Goes(p, [run[p] EXCEPT !.pc = "find"]) /\ Quiet
     ELSE \E ok \in BOOLEAN :
            IF ~ok /\ run[p].tool \in Takeovers \cup {"stageprobe"} THEN Quits(p, 5)
            ELSE Goes(p, [run[p] EXCEPT !.cap = ok, !.pc = "find"]) /\ Quiet

Listed(pl)    == pl \in Planes
Usable(pl, c) == dev.usable[pl] = {} \/ c \in dev.usable[pl]

(* The planes a tool chooses from, by their places in the kernel's list. *)
UsableOn(c) == {i \in DOMAIN dev.planes : Usable(dev.planes[i], c)}
Second(S)   == IF S = {Min(S)} THEN Min(S) ELSE Min(S \ {Min(S)})
FirstTwo(S) == IF S = {} THEN <<0, 0>> ELSE <<dev.planes[Min(S)], dev.planes[Second(S)]>>
NoPanel     == ~dev.output \/ dev.encoder \notin lit

(* 161 and 157 if there are, else the first two planes that are not cursors. *)
HalvesOn(c) ==
  IF Listed(157) /\ Listed(161) THEN <<161, 157>>
  ELSE FirstTwo({i \in UsableOn(c) : dev.planes[i] \notin dev.cursors})

(* The planes that scan something out, of any crtc; as many as there is room for. *)
OthersOn(c) ==
  LET shown == {i \in UsableOn(c) : disp[dev.planes[i]].fb # None}
  IN  {dev.planes[i] : i \in {k \in shown : Cardinality({j \in shown : j < k}) < MaxOther}}

FoundTakeover(p) ==
  LET c == dev.encoder
      h == HalvesOn(c)
  IN  IF NoPanel \/ h[1] = h[2] THEN Quits(p, 7)
      ELSE /\ Goes(p, [run[p] EXCEPT !.pc = "fb", !.crtc = c, !.halves = h, !.others = OthersOn(c)])
           /\ Quiet

FoundStage(p) ==
  IF NoPanel THEN Quits(p, 6)
  ELSE Goes(p, [run[p] EXCEPT !.pc = "fb", !.crtc = dev.encoder]) /\ Quiet

(* 206 if there is such a crtc, else the last one that has a mode. *)
FoundBisect(p) ==
  LET on == {i \in DOMAIN dev.crtcs : dev.crtcs[i] \in lit}
      c  == IF 206 \in Crtcs \/ on = {} THEN 206 ELSE dev.crtcs[Max(on)]
  IN  IF ~dev.output THEN Quits(p, 3) ELSE Goes(p, [run[p] EXCEPT !.pc = "fb", !.crtc = c]) /\ Quiet

(* The bound crtc or the first; the first two planes whose mask has its bit. *)
FoundReplica(p) ==
  LET c    == IF dev.encoder # 0 THEN dev.encoder ELSE dev.crtcs[1]
      able == {i \in DOMAIN dev.planes : c \in dev.usable[dev.planes[i]]}
  IN  IF ~dev.output THEN Quits(p, 3)
      ELSE Goes(p, [run[p] EXCEPT !.pc = "fb", !.crtc = c, !.halves = FirstTwo(able),
                      !.others = Crtcs \ {c}]) /\ Quiet

Find(p) ==
  /\ run[p].pc = "find"
  /\ \/ run[p].tool \in Takeovers /\ FoundTakeover(p)
     \/ run[p].tool = "stageprobe" /\ FoundStage(p)
     \/ run[p].tool = "atombisect" /\ FoundBisect(p)
     \/ run[p].tool = "replicate" /\ FoundReplica(p)
     \/ run[p].tool = "rawprobe" /\ Goes(p, [run[p] EXCEPT !.pc = "fb"]) /\ Quiet

(* The framebuffer, its mapping and the mode's blob; any of them may fail.   *)
(* (rawprobe only makes a blob, and goes on without it.)                     *)
FbFails(p) == run[p].pc = "fb" /\ run[p].tool # "rawprobe" /\ Quits(p, 10)

FbMade(p)  == run[p].pc = "fb" /\ Goes(p, [run[p] EXCEPT !.pc = "test", !.step = 1]) /\ Quiet

MakeFb(p)  == FbMade(p) \/ FbFails(p)

\* Faulty variant: the loop does not count.
NextStepStuck(r) == r.step

NextStep(r) == r.step + 1

\* Faulty variant: a probe's request is not TEST_ONLY.
TestCommits(p) ==
  /\ run[p].pc = "test" /\ run[p].step <= Len(Requests(p))
  /\ \E a \in Answers(p, Requests(p)[run[p].step]) :
       /\ Goes(p, [run[p] EXCEPT !.gated = (a = "gate"), !.step = NextStep(run[p])])
       /\ disp' = IF a = "ok" THEN Applied(Requests(p)[run[p].step]) ELSE disp
  /\ UNCHANGED <<dev, master, lit>>

(* One TEST_ONLY request.  A takeover stops at the first that is accepted.   *)
Test(p) ==
  LET r == run[p] IN
  /\ r.pc = "test" /\ r.step <= Len(Requests(p))
  /\ LET req == Requests(p)[r.step] IN
     \E a \in Answers(p, req) :
       Goes(p, [r EXCEPT !.gated = (a = "gate"), !.step = NextStep(r),
                         !.tested = IF r.tool \in Takeovers /\ a = "ok" THEN req ELSE @,
                         !.pc     = IF r.tool \in Takeovers /\ a = "ok" THEN "commit" ELSE @])
  /\ Quiet

TestsEnd(p) == /\ run[p].pc = "test" /\ run[p].step > Len(Requests(p))
               /\ Quits(p, IF run[p].tool \in Takeovers THEN 17 ELSE 0)

(* What was tested is committed, and may still fail.                         *)
Commit(p) ==
  /\ run[p].pc = "commit"
  /\ \/ "ok" \in Answers(p, run[p].tested) /\ Goes(p, [run[p] EXCEPT !.pc = "show"])
        /\ disp' = Applied(run[p].tested) /\ UNCHANGED <<dev, master, lit>>
     \/ Quits(p, 18)

(* The time is up.  (What touchdraw does meanwhile is in module TouchDraw.)  *)
Done(p) == run[p].pc = "show" /\ Quits(p, 0)

(* Any of them may be killed. *)
Kill(p) == run[p].pc \notin {"idle", "done"} /\ Quits(p, 137)

-----------------------------------------------------------------------------
Init ==
  /\ dev \in Devices /\ master = None /\ lit = {}
  /\ disp = [pl \in {dev.planes[i] : i \in DOMAIN dev.planes} |-> Dark]
  /\ run = [p \in Procs |-> Idle]

Step(p) == SetCaps(p) \/ Find(p) \/ MakeFb(p) \/ Test(p) \/ TestsEnd(p) \/ Commit(p) \/ Done(p)
Next == \/ Acquire \/ Flip \/ Leave
        \/ \E p \in Procs : Step(p) \/ Kill(p) \/ \E t \in MayRun[p] : Open(p, t)

Spec     == Init /\ [][Next]_vars
FairSpec == Spec /\ \A p \in Procs : WF_vars(Step(p))

-----------------------------------------------------------------------------
(* Properties.                                                               *)

(* While a takeover shows its picture, both halves of the panel scan it out, *)
(* each its own half, and no other plane of the crtc covers it, whatever the *)
(* compositor left lit and whichever tools are started meanwhile.            *)
HalvesShown ==
  \A p \in Procs : run[p].pc = "show" =>
    /\ \A i \in {1, 2} : LET part == <<"left", "right">>[i] IN
         disp[run[p].halves[i]] = [fb |-> p, crtc |-> run[p].crtc, src |-> part, dst |-> part]
    /\ \A pl \in Planes \ {run[p].halves[1], run[p].halves[2]} :
         disp[pl].fb # None => disp[pl].crtc # run[p].crtc

(* A takeover or stageprobe is never refused for want of the master or the   *)
(* capability: "the kernel gates every atomic ioctl on file_priv->atomic"    *)
(* (drmatomic.c:20), so it makes sure of both before it asks anything.       *)
GatesPassed ==
  \A p \in Procs : run[p].tool \in Takeovers \cup {"stageprobe"} => ~run[p].gated

(* The display is changed by the compositor, by a takeover committing what   *)
(* the kernel has accepted as a test, and otherwise only loses the picture   *)
(* of a tool that ends: no probe disturbs what another program shows.        *)
Tested ==
  [][disp' # disp =>
       \/ master = "composer"
       \/ \E p \in Procs : master = p /\ run[p].pc = "commit" /\ disp' = Applied(run[p].tested)
       \/ \E p \in Procs : run'[p].pc = "done" /\ disp' = Closed(p)]_vars

(* Every tool ends and gives the panel back.                                 *)
PanelReturned == \A p \in Procs : master = p ~> master # p

(* atombisect.c:1-2: "find exactly which object/property combo the kernel    *)
(* rejects with EINVAL": what it is refused is refused for what it asks.     *)
BisectBlamesRequest ==
  \A p \in Procs : run[p].tool = "atombisect" => ~run[p].gated
=============================================================================
