-------------------------- MODULE PanelToolsProofs --------------------------
(* Theorems about PanelTools, for any processes, devices and tools started   *)
(* in any order beside the compositor.                                       *)
EXTENDS PanelTools, TLAPS, FiniteSetTheorems

Fields  == {"tool", "pc", "cap", "crtc", "halves", "others", "step", "tested", "gated", "code"}
Careful == Takeovers \cup {"stageprobe"}

Shape == DOMAIN run = Procs /\ \A p \in Procs : DOMAIN run[p] = Fields

(* A careful tool holds the master from the open on and the capability from  *)
(* SET_CLIENT_CAP on, until it ends.                                         *)
Holds(p) ==
  /\ run[p].pc = "idle" => ~run[p].gated
  /\ run[p].tool \in Careful =>
    /\ ~run[p].gated
    /\ run[p].pc \notin {"idle", "done"} => master = p
    /\ run[p].pc \notin {"idle", "done", "caps"} => run[p].cap

GateInv == Shape /\ \A p \in Procs : Holds(p)

LEMMA Initially == Init => GateInv
BY DEF Init, GateInv, Shape, Holds, Idle, Fields

(* What becomes of a process that does not take the step.                    *)
LEMMA Elsewhere ==
  ASSUME GateInv, NEW p \in Procs, NEW q \in Procs, q # p, NEW r, Goes(p, r),
         \/ master' = master
         \/ master = None
         \/ master = p
  PROVE  Holds(q)'
BY ProcsAssumption DEF GateInv, Shape, Holds, Goes

LEMMA QuitKeeps ==
  ASSUME GateInv, NEW p \in Procs, NEW why, Quits(p, why)
  PROVE  GateInv'
<1>1. run' = [run EXCEPT ![p] = [Idle EXCEPT !.pc = "done", !.code = why]]
  BY DEF Quits, Goes
<1>2. Holds(p)'
  BY <1>1 DEF Holds, Idle, GateInv, Shape
<1>3. \A q \in Procs : q # p => Holds(q)'
  BY Elsewhere DEF Quits, Release
<1>4. Shape'
  BY <1>1 DEF GateInv, Shape, Idle, Fields
<1>5. QED
  BY <1>2, <1>3, <1>4 DEF GateInv

LEMMA CompositorKeeps ==
  ASSUME GateInv, Acquire \/ Flip \/ Leave PROVE GateInv'
BY ProcsAssumption DEF GateInv, Shape, Holds, Acquire, Flip, Leave

(* A step that goes on with the same tool and leaves the display alone.      *)
LEMMA GoingOn ==
  ASSUME GateInv, NEW p \in Procs, NEW r, Goes(p, r), DOMAIN r = Fields, master' = master,
         r.tool = run[p].tool, r.pc # "idle",
         r.tool \in Careful => /\ ~r.gated /\ run[p].pc \notin {"idle", "done"}
                               /\ r.pc \notin {"idle", "done", "caps"} => r.cap
  PROVE  GateInv'
<1>1. run' = [run EXCEPT ![p] = r]
  BY DEF Goes
<1>2. Holds(p)'
  BY <1>1 DEF Holds, GateInv, Shape
<1>3. \A q \in Procs : q # p => Holds(q)'
  BY Elsewhere
<1>4. Shape'
  BY <1>1 DEF GateInv, Shape
<1>5. QED
  BY <1>2, <1>3, <1>4 DEF GateInv

LEMMA OpenKeeps ==
  ASSUME GateInv, NEW p \in Procs, NEW t \in MayRun[p], Open(p, t) PROVE GateInv'
<1>1. CASE Quits(p, 3)
  BY <1>1, QuitKeeps
<1>2. CASE /\ Goes(p, [run[p] EXCEPT !.tool = t, !.pc = "caps"])
           /\ master' = (IF master = None THEN p ELSE master)
           /\ master = None \/ t \in {"replicate", "rawprobe"}
           /\ run[p].pc = "idle"
  <2>1. run' = [run EXCEPT ![p] = [run[p] EXCEPT !.tool = t, !.pc = "caps"]]
    BY <1>2 DEF Goes
  <2>2. ~run[p].gated
    BY <1>2 DEF GateInv, Holds
  <2>3. Holds(p)'
    BY <1>2, <2>1, <2>2 DEF Holds, GateInv, Shape, Fields, Careful, Takeovers
  <2>4. \A q \in Procs : q # p => Holds(q)'
    BY <1>2, Elsewhere
  <2>5. Shape'
    BY <2>1 DEF GateInv, Shape, Fields
  <2>6. QED
    BY <2>3, <2>4, <2>5 DEF GateInv
<1>3. QED
  BY <1>1, <1>2 DEF Open

LEMMA CapsKeep == ASSUME GateInv, NEW p \in Procs, SetCaps(p) PROVE GateInv'
<1>1. CASE \E why : Quits(p, why)
  BY <1>1, QuitKeeps
<1>2. CASE run[p].tool = "atombisect" /\ Goes(p, [run[p] EXCEPT !.pc = "find"]) /\ Quiet
  BY <1>2, GoingOn DEF Quiet, GateInv, Shape, Fields, Careful, Takeovers
<1>3. ASSUME NEW ok \in BOOLEAN, ~(~ok /\ run[p].tool \in Careful), run[p].pc = "caps",
             Goes(p, [run[p] EXCEPT !.cap = ok, !.pc = "find"]) /\ Quiet
      PROVE  GateInv'
  <2> DEFINE r == [run[p] EXCEPT !.cap = ok, !.pc = "find"]
  <2>1. DOMAIN r = Fields /\ r.tool = run[p].tool /\ r.pc = "find" /\ r.cap = ok
        /\ r.gated = run[p].gated
    BY DEF GateInv, Shape, Fields
  <2>2. r.tool \in Careful => ~r.gated /\ r.cap
    BY <1>3, <2>1 DEF GateInv, Holds
  <2>3. Goes(p, r) /\ master' = master
    BY <1>3 DEF Quiet
  <2> HIDE DEF r
  <2>4. QED
    BY <1>3, <2>1, <2>2, <2>3, GoingOn
<1>4. QED
  BY <1>1, <1>2, <1>3, Zenon DEF SetCaps, Careful

(* A step past SET_CLIENT_CAP that keeps the tool, the capability and the    *)
(* last answer.                                                              *)
LEMMA Forward ==
  ASSUME GateInv, NEW p \in Procs, NEW r, Goes(p, r), master' = master, DOMAIN r = Fields,
         r.tool = run[p].tool, r.cap = run[p].cap, r.gated = run[p].gated,
         run[p].pc \in {"find", "fb", "commit"}, r.pc \in {"fb", "test", "show"}
  PROVE  GateInv'
<1>1. r.tool \in Careful => ~r.gated /\ r.cap
  BY DEF GateInv, Holds
<1>2. QED
  BY <1>1, GoingOn

LEMMA FindKeeps == ASSUME GateInv, NEW p \in Procs, Find(p) PROVE GateInv'
<1>1. CASE \E why : Quits(p, why)
  BY <1>1, QuitKeeps
<1>2. ASSUME NEW c, NEW h, NEW o,
             Goes(p, [run[p] EXCEPT !.pc = "fb", !.crtc = c, !.halves = h, !.others = o]), Quiet
      PROVE  GateInv'
  <2> DEFINE r == [run[p] EXCEPT !.pc = "fb", !.crtc = c, !.halves = h, !.others = o]
  <2>1. DOMAIN r = Fields /\ r.tool = run[p].tool /\ r.pc = "fb" /\ r.cap = run[p].cap
        /\ r.gated = run[p].gated /\ run[p].pc = "find"
    BY DEF Find, GateInv, Shape, Fields
  <2>2. Goes(p, r) /\ master' = master
    BY <1>2 DEF Quiet
  <2> HIDE DEF r
  <2>3. QED
    BY <2>1, <2>2, Forward
<1>3. ASSUME NEW c, Goes(p, [run[p] EXCEPT !.pc = "fb", !.crtc = c]), Quiet PROVE GateInv'
  <2> DEFINE r == [run[p] EXCEPT !.pc = "fb", !.crtc = c]
  <2>1. DOMAIN r = Fields /\ r.tool = run[p].tool /\ r.pc = "fb" /\ r.cap = run[p].cap
        /\ r.gated = run[p].gated /\ run[p].pc = "find"
    BY DEF Find, GateInv, Shape, Fields
  <2>2. Goes(p, r) /\ master' = master
    BY <1>3 DEF Quiet
  <2> HIDE DEF r
  <2>3. QED
    BY <2>1, <2>2, Forward
<1>4. CASE Goes(p, [run[p] EXCEPT !.pc = "fb"]) /\ Quiet
  <2> DEFINE r == [run[p] EXCEPT !.pc = "fb"]
  <2>1. DOMAIN r = Fields /\ r.tool = run[p].tool /\ r.pc = "fb" /\ r.cap = run[p].cap
        /\ r.gated = run[p].gated /\ run[p].pc = "find"
    BY DEF Find, GateInv, Shape, Fields
  <2>2. Goes(p, r) /\ master' = master
    BY <1>4 DEF Quiet
  <2> HIDE DEF r
  <2>3. QED
    BY <2>1, <2>2, Forward
<1>5. CASE FoundTakeover(p)
  BY <1>1, <1>2, <1>5, Zenon DEF FoundTakeover
<1>6. CASE FoundStage(p) \/ FoundBisect(p)
  BY <1>1, <1>3, <1>6, Zenon DEF FoundStage, FoundBisect
<1>7. CASE FoundReplica(p)
  BY <1>1, <1>2, <1>7, Zenon DEF FoundReplica
<1>8. QED
  BY <1>4, <1>5, <1>6, <1>7, Zenon DEF Find

LEMMA MakeFbKeeps == ASSUME GateInv, NEW p \in Procs, MakeFb(p) PROVE GateInv'
<1>1. CASE FbFails(p)
  BY <1>1, QuitKeeps DEF FbFails
<1>2. CASE FbMade(p)
  <2> DEFINE r == [run[p] EXCEPT !.pc = "test", !.step = 1]
  <2>1. DOMAIN r = Fields /\ r.tool = run[p].tool /\ r.pc = "test" /\ r.cap = run[p].cap
        /\ r.gated = run[p].gated /\ run[p].pc = "fb"
    BY <1>2 DEF FbMade, GateInv, Shape, Fields
  <2>2. Goes(p, r) /\ master' = master
    BY <1>2 DEF FbMade, Quiet
  <2> HIDE DEF r
  <2>3. QED
    BY <2>1, <2>2, Forward
<1>3. QED
  BY <1>1, <1>2 DEF MakeFb

(* A careful tool passes the gate, so the answer is never "gate".            *)
LEMMA TestKeeps == ASSUME GateInv, NEW p \in Procs, Test(p) PROVE GateInv'
<1>1. run[p].tool \in Careful => ~run[p].gated /\ run[p].cap /\ Gate(p)
  BY DEF Test, GateInv, Holds, Gate
<1> PICK req, a, t :
      /\ a \in Answers(p, req)
      /\ Goes(p, [run[p] EXCEPT !.gated = (a = "gate"), !.step = NextStep(run[p]), !.tested = t,
                                !.pc = IF run[p].tool \in Takeovers /\ a = "ok" THEN "commit" ELSE @])
  BY Zenon DEF Test
<1> DEFINE r == [run[p] EXCEPT !.gated = (a = "gate"), !.step = NextStep(run[p]), !.tested = t,
                   !.pc = IF run[p].tool \in Takeovers /\ a = "ok" THEN "commit" ELSE @]
<1>2. DOMAIN r = Fields /\ r.tool = run[p].tool /\ r.pc \in {"test", "commit"}
      /\ r.cap = run[p].cap /\ (r.gated <=> a = "gate")
  BY DEF Test, GateInv, Shape, Fields
<1>3. run[p].tool \in Careful => a # "gate"
  BY <1>1 DEF Answers
<1>4. Goes(p, r) /\ master' = master
  BY DEF Test, Quiet
<1> HIDE DEF r
<1>5. QED
  BY <1>1, <1>2, <1>3, <1>4, GoingOn DEF Test

LEMMA CommitKeeps == ASSUME GateInv, NEW p \in Procs, Commit(p) PROVE GateInv'
<1>1. CASE Quits(p, 18)
  BY <1>1, QuitKeeps
<1>2. CASE Goes(p, [run[p] EXCEPT !.pc = "show"]) /\ UNCHANGED master
  <2> DEFINE r == [run[p] EXCEPT !.pc = "show"]
  <2>1. DOMAIN r = Fields /\ r.tool = run[p].tool /\ r.pc = "show" /\ r.cap = run[p].cap
        /\ r.gated = run[p].gated /\ run[p].pc = "commit"
    BY DEF Commit, GateInv, Shape, Fields
  <2>2. Goes(p, r) /\ master' = master
    BY <1>2
  <2> HIDE DEF r
  <2>3. QED
    BY <2>1, <2>2, Forward
<1>3. QED
  BY <1>1, <1>2 DEF Commit

LEMMA ProcessKeeps ==
  ASSUME GateInv, NEW p \in Procs, Step(p) \/ Kill(p) \/ \E t \in MayRun[p] : Open(p, t)
  PROVE  GateInv'
<1>1. CASE TestsEnd(p) \/ Done(p) \/ Kill(p)
  BY <1>1, QuitKeeps DEF TestsEnd, Done, Kill
<1>2. CASE SetCaps(p)
  BY <1>2, CapsKeep
<1>3. CASE Find(p)
  BY <1>3, FindKeeps
<1>4. CASE MakeFb(p)
  BY <1>4, MakeFbKeeps
<1>5. CASE Test(p)
  BY <1>5, TestKeeps
<1>6. CASE Commit(p)
  BY <1>6, CommitKeeps
<1>7. CASE \E t \in MayRun[p] : Open(p, t)
  BY <1>7, OpenKeeps
<1>8. QED
  BY <1>1, <1>2, <1>3, <1>4, <1>5, <1>6, <1>7, Zenon DEF Step

LEMMA Invariant == Spec => []GateInv
<1>1. GateInv /\ UNCHANGED vars => GateInv'
  BY DEF GateInv, Shape, Holds, vars
<1>2. GateInv /\ [Next]_vars => GateInv'
  BY <1>1, ProcessKeeps, CompositorKeeps, Zenon DEF Next
<1>3. QED
  BY Initially, <1>2, PTL DEF Spec

(* No takeover and no stageprobe is ever refused for want of the master or   *)
(* the ATOMIC capability, whoever else is started when (drmatomic.c:82-101). *)
THEOREM CarefulToolsPass == Spec => []GatesPassed
<1>1. GateInv => GatesPassed
  BY DEF GateInv, Holds, GatesPassed, Careful, Shape
<1>2. QED
  BY Invariant, <1>1, PTL

(* What is on the display changes only by the compositor, by a takeover that *)
(* commits, as master, what it has tested, and by a tool that ends and takes *)
(* its picture away: no probe disturbs what others show.                     *)
THEOREM ProbesDisturbNothing == Spec => Tested
<1> DEFINE Allowed ==
      disp' # disp =>
        \/ master = "composer"
        \/ \E p \in Procs : master = p /\ run[p].pc = "commit" /\ disp' = Applied(run[p].tested)
        \/ \E p \in Procs : run'[p].pc = "done" /\ disp' = Closed(p)
<1>1. ASSUME GateInv, NEW p \in Procs, NEW why, Quits(p, why)
      PROVE  run'[p].pc = "done" /\ disp' = Closed(p)
  BY <1>1 DEF Quits, Goes, Release, GateInv, Shape, Idle
<1>2. ASSUME GateInv, NEW p \in Procs,
             Step(p) \/ Kill(p) \/ \E t \in MayRun[p] : Open(p, t), disp' # disp
      PROVE  \/ master = p /\ run[p].pc = "commit" /\ disp' = Applied(run[p].tested)
             \/ run'[p].pc = "done" /\ disp' = Closed(p)
  <2>1. CASE SetCaps(p)
    BY <1>1, <1>2, <2>1 DEF SetCaps, Quiet
  <2>2. CASE Find(p)
    BY <1>1, <1>2, <2>2, Zenon DEF Find, FoundTakeover, FoundStage, FoundBisect, FoundReplica, Quiet
  <2>3. CASE MakeFb(p) \/ TestsEnd(p) \/ Done(p) \/ Kill(p)
    BY <1>1, <1>2, <2>3, Zenon DEF MakeFb, FbMade, FbFails, TestsEnd, Done, Kill, Quiet
  <2>4. CASE Test(p)
    BY <1>2, <2>4, Zenon DEF Test, Quiet
  <2>5. CASE Commit(p)
    <3>1. ASSUME NEW r, "ok" \in Answers(p, r) PROVE Gate(p)
      BY <3>1 DEF Answers
    <3>2. QED
      BY <1>1, <1>2, <2>5, <3>1, Zenon DEF Commit, Gate
  <2>6. CASE \E t \in MayRun[p] : Open(p, t)
    BY <1>1, <1>2, <2>6 DEF Open
  <2>7. QED
    BY <1>2, <2>1, <2>2, <2>3, <2>4, <2>5, <2>6, Zenon DEF Step
<1>3. GateInv /\ [Next]_vars => [Allowed]_vars
  <2>1. CASE Acquire \/ Flip \/ Leave
    BY <2>1 DEF Acquire, Flip, Leave
  <2>2. QED
    BY <1>2, <2>1, Zenon DEF Next
<1>4. Spec => [][Allowed]_vars
  BY Invariant, <1>3, PTL DEF Spec
<1>5. QED
  BY <1>4 DEF Tested

-----------------------------------------------------------------------------
(* What a takeover asks for, setting by setting.                             *)
LEMMA Settings ==
  ASSUME NEW p, NEW r, NEW prop, NEW k, k \in Takeover(p, r, prop)
  PROVE  \/ k = <<CONN, "CRTC_ID", r.crtc>>
         \/ k = <<r.crtc, "ACTIVE", 1>> \/ k = <<r.crtc, "MODE_ID", "mode">>
         \/ \E i \in {1, 2} :
              \/ k = <<r.halves[i], prop, p>> \/ k = <<r.halves[i], "CRTC_ID", r.crtc>>
              \/ k = <<r.halves[i], "SRC", <<"left", "right">>[i]>>
              \/ k = <<r.halves[i], "DST", <<"left", "right">>[i]>>
         \/ \E pl \in r.others \ {r.halves[1], r.halves[2]} :
              k = <<pl, prop, None>> \/ k = <<pl, "CRTC_ID", 0>>
BY DEF Takeover, Output, Mode, Active, Shows, Bare, Off, Set

LEMMA Granted ==
  ASSUME NEW r, NEW pl, NEW n, NEW v, NEW old, <<pl, n, v>> \in r,
         \A k \in r : k[1] = pl /\ k[2] = n => k = <<pl, n, v>>
  PROVE  Given(r, pl, n, old) = v
<1>1. {k \in r : k[1] = pl /\ k[2] = n} = {<<pl, n, v>>}
  OBVIOUS
<1>2. QED
  BY <1>1 DEF Given

LEMMA NotGranted ==
  ASSUME NEW r, NEW pl, NEW n, NEW old, \A k \in r : ~(k[1] = pl /\ k[2] = n)
  PROVE  Given(r, pl, n, old) = old
<1>1. {k \in r : k[1] = pl /\ k[2] = n} = {}
  OBVIOUS
<1>2. QED
  BY <1>1 DEF Given

Picked(r) == /\ r.halves[1] \in Planes /\ r.halves[2] \in Planes
             /\ r.halves[1] # r.halves[2]

LEMMA HalfApplied ==
  ASSUME dev \in Devices, NEW p, NEW r, Picked(r), NEW prop \in {"17", "34"}, NEW i \in {1, 2}
  PROVE  Applied(Takeover(p, r, prop))[r.halves[i]] =
           [fb |-> p, crtc |-> r.crtc, src |-> <<"left", "right">>[i], dst |-> <<"left", "right">>[i]]
<1> DEFINE h == r.halves[i]
           part == <<"left", "right">>[i]
           req == Takeover(p, r, prop)
<1>0. h \in Planes /\ h # CONN
  BY DevicesAssumption DEF Picked, Planes, Device, CONN
<1>1. <<h, prop, p>> \in req /\ <<h, "CRTC_ID", r.crtc>> \in req
      /\ <<h, "SRC", part>> \in req /\ <<h, "DST", part>> \in req
  BY DEF Takeover, Shows, Bare, Set
<1>2. \A k \in req : k[1] = h =>
        \/ k = <<r.crtc, "ACTIVE", 1>> \/ k = <<r.crtc, "MODE_ID", "mode">>
        \/ k = <<h, prop, p>> \/ k = <<h, "CRTC_ID", r.crtc>>
        \/ k = <<h, "SRC", part>> \/ k = <<h, "DST", part>>
  BY <1>0, Settings DEF Picked
<1> HIDE DEF h, part, req
<1>3. Given(req, h, "CRTC_ID", disp[h].crtc) = r.crtc
  BY <1>1, <1>2, Granted
<1>4. Given(req, h, "SRC", disp[h].src) = part /\ Given(req, h, "DST", disp[h].dst) = part
  BY <1>1, <1>2, Granted
<1>5. Given(req, h, "34", Given(req, h, "17", disp[h].fb)) = p
  <2>1. CASE prop = "17"
    BY <1>1, <1>2, <2>1, Granted, NotGranted
  <2>2. CASE prop = "34"
    BY <1>1, <1>2, <2>2, Granted
  <2>3. QED
    BY <2>1, <2>2
<1>6. QED
  BY <1>0, <1>3, <1>4, <1>5 DEF Applied, h, part, req

LEMMA OtherApplied ==
  ASSUME dev \in Devices, NEW p, NEW r, NEW prop \in {"17", "34"},
         NEW pl \in Planes \ {r.halves[1], r.halves[2]}
  PROVE  Applied(Takeover(p, r, prop))[pl].fb = IF pl \in r.others THEN None ELSE disp[pl].fb
<1> DEFINE req == Takeover(p, r, prop)
<1>0. pl # CONN
  BY DevicesAssumption DEF Planes, Device, CONN
<1>1. \A k \in req : k[1] = pl =>
        \/ k = <<r.crtc, "ACTIVE", 1>> \/ k = <<r.crtc, "MODE_ID", "mode">>
        \/ pl \in r.others /\ (k = <<pl, prop, None>> \/ k = <<pl, "CRTC_ID", 0>>)
  BY <1>0, Settings
<1>2. pl \in r.others => <<pl, prop, None>> \in req
  BY DEF Takeover, Off, Bare, Set
<1>3. Applied(req)[pl].fb = Given(req, pl, "34", Given(req, pl, "17", disp[pl].fb))
  BY DEF Applied
<1> HIDE DEF req
<1>4. CASE pl \in r.others /\ prop = "17"
  BY <1>1, <1>2, <1>3, <1>4, Granted, NotGranted DEF req
<1>5. CASE pl \in r.others /\ prop = "34"
  BY <1>1, <1>2, <1>3, <1>5, Granted DEF req
<1>6. CASE pl \notin r.others
  BY <1>1, <1>3, <1>6, NotGranted DEF req
<1>7. QED
  BY <1>4, <1>5, <1>6

LEMMA OtherCrtc ==
  ASSUME dev \in Devices, NEW p, NEW r, NEW prop \in {"17", "34"},
         NEW pl \in Planes \ {r.halves[1], r.halves[2]}, pl \notin r.others
  PROVE  Applied(Takeover(p, r, prop))[pl].crtc = disp[pl].crtc
<1> DEFINE req == Takeover(p, r, prop)
<1>0. pl # CONN
  BY DevicesAssumption DEF Planes, Device, CONN
<1>1. \A k \in req : ~(k[1] = pl /\ k[2] = "CRTC_ID")
  BY <1>0, Settings
<1>2. QED
  BY <1>1, NotGranted DEF Applied

-----------------------------------------------------------------------------
(* What a takeover finds.                                                    *)
LEMMA Least ==
  ASSUME NEW T \in SUBSET Nat, T # {}
  PROVE  \E n \in T : \A m \in T : n <= m
<1> DEFINE R == StrictSubsetOrdering(Nat)
           F == FiniteSubsetsOf(Nat)
           G == {0 .. n : n \in T}
<1>1. IsWellFoundedOn(R, F)
  BY FS_StrictSubsetOrderingWellFounded
<1>2. G \subseteq F
  <2>1. \A n \in T : 0 .. n \in SUBSET Nat /\ IsFiniteSet(0 .. n)
    BY FS_Interval
  <2>2. QED
    BY <2>1 DEF FiniteSubsetsOf
<1>3. G # {}
  OBVIOUS
<1>4. PICK x \in G : \A y \in G : <<y, x>> \notin R
  <2> HIDE DEF R, F, G
  <2>1. QED
    BY <1>1, <1>2, <1>3, WFMin
<1>5. PICK n \in T : x = 0 .. n
  BY <1>4
<1>6. ASSUME NEW m \in T, ~(n <= m) PROVE FALSE
  <2>1. 0 .. m \in G /\ 0 .. m \subseteq 0 .. n /\ 0 .. m # 0 .. n
    BY <1>6
  <2>2. <<0 .. m, 0 .. n>> \in R
    BY <2>1 DEF StrictSubsetOrdering
  <2>3. QED
    BY <1>4, <1>5, <2>1, <2>2
<1>7. QED
  BY <1>6

LEMMA MinPicks == ASSUME NEW S \in SUBSET Nat, S # {} PROVE Min(S) \in S
BY Least DEF Min

LEMMA PlacesOfPlanes == ASSUME dev \in Devices PROVE DOMAIN dev.planes = 1 .. Len(dev.planes) /\ Len(dev.planes) \in Nat
BY DevicesAssumption DEF Device

LEMMA FirstTwoPicked ==
  ASSUME dev \in Devices, NEW S \in SUBSET DOMAIN dev.planes,
         FirstTwo(S)[1] # FirstTwo(S)[2]
  PROVE  FirstTwo(S)[1] \in Planes /\ FirstTwo(S)[2] \in Planes
<1>1. S # {}
  BY DEF FirstTwo
<1>2. S \in SUBSET Nat
  BY PlacesOfPlanes
<1>3. Min(S) \in S /\ Second(S) \in S
  BY <1>1, <1>2, MinPicks DEF Second
<1>4. QED
  BY <1>1, <1>3 DEF FirstTwo, Planes

LEMMA HalvesPicked ==
  ASSUME dev \in Devices, NEW c, HalvesOn(c)[1] # HalvesOn(c)[2]
  PROVE  HalvesOn(c)[1] \in Planes /\ HalvesOn(c)[2] \in Planes
<1> DEFINE S == {i \in UsableOn(c) : dev.planes[i] \notin dev.cursors}
<1>1. S \in SUBSET DOMAIN dev.planes
  BY DEF UsableOn
<1>2. CASE HalvesOn(c) = FirstTwo(S)
  BY <1>1, <1>2, FirstTwoPicked
<1>3. CASE Listed(157) /\ Listed(161) /\ HalvesOn(c) = <<161, 157>>
  BY <1>3 DEF Listed
<1>4. QED
  BY <1>2, <1>3, Zenon DEF HalvesOn

Bright == {pl \in Planes : disp[pl].fb # None}

LEMMA PlanesFinite == ASSUME dev \in Devices PROVE IsFiniteSet(Planes)
<1>1. IsFiniteSet(DOMAIN dev.planes)
  BY PlacesOfPlanes, FS_Interval
<1>2. dev.planes \in Surjection(DOMAIN dev.planes, Planes)
  BY DevicesAssumption DEF Device, Planes, Surjection
<1>3. QED
  BY <1>1, <1>2, FS_Surjection

(* There is room for every plane that is lit.                                *)
LEMMA OthersFound ==
  ASSUME dev \in Devices, NEW c, Cardinality(Bright) <= MaxOther,
         NEW pl \in Bright, Usable(pl, c)
  PROVE  pl \in OthersOn(c)
<1> DEFINE shown == {i \in UsableOn(c) : disp[dev.planes[i]].fb # None}
<1>1. /\ shown \subseteq DOMAIN dev.planes /\ DOMAIN dev.planes \subseteq Nat
      /\ IsFiniteSet(DOMAIN dev.planes)
  <2>1. DOMAIN dev.planes \subseteq Nat
    BY PlacesOfPlanes
  <2>2. IsFiniteSet(DOMAIN dev.planes)
    BY PlacesOfPlanes, FS_Interval
  <2>3. QED
    BY <2>1, <2>2 DEF UsableOn
<1>2. IsFiniteSet(shown) /\ IsFiniteSet(Bright)
  BY <1>1, FS_Subset, PlanesFinite DEF Bright
<1>3. Cardinality(shown) <= Cardinality(Bright)
  <2> DEFINE place == [i \in shown |-> dev.planes[i]]
  <2>1. place \in Injection(shown, Bright)
    BY <1>1, DevicesAssumption DEF Device, Injection, IsInjective, Bright, Planes, UsableOn
  <2> HIDE DEF place, shown
  <2>2. QED
    BY <1>2, <2>1, FS_Injection
<1>4. Cardinality(shown) \in Nat /\ Cardinality(Bright) \in Nat /\ MaxOther \in Nat
  <2> HIDE DEF shown
  <2>1. QED
    BY <1>2, FS_CardinalityType, ProcsAssumption
<1>5. PICK k \in DOMAIN dev.planes : pl = dev.planes[k]
  BY DEF Bright, Planes
<1>6. k \in shown
  BY <1>5 DEF UsableOn, Bright
<1>7. Cardinality({j \in shown : j < k}) < MaxOther
  <2> DEFINE before == {j \in shown : j < k}
  <2>1. before \subseteq shown \ {k} /\ IsFiniteSet(shown \ {k})
    BY <1>1, <1>2, <1>5, FS_RemoveElement
  <2>2. Cardinality(shown \ {k}) = Cardinality(shown) - 1
    BY <1>2, <1>6, FS_RemoveElement
  <2>3. Cardinality(before) <= Cardinality(shown \ {k}) /\ Cardinality(before) \in Nat
    BY <2>1, FS_Subset, FS_CardinalityType
  <2> HIDE DEF before, shown
  <2>4. QED
    BY <1>3, <1>4, <2>2, <2>3 DEF before
<1>8. QED
  BY <1>5, <1>6, <1>7 DEF OthersOn

-----------------------------------------------------------------------------
(* The invariant: who lit a plane, and how far each takeover has come.       *)
Composed == {pl \in Planes : disp[pl].fb = "composer"}

Lights(pl) ==
  \/ disp[pl].fb = None
  \/ disp[pl].fb = "composer" /\ Usable(pl, disp[pl].crtc)
  \/ disp[pl].fb \in Procs /\ run[disp[pl].fb].pc = "show"

Counted(p) == \A pl \in Bright : Usable(pl, run[p].crtc) => pl \in run[p].others

Accepted(p) == /\ Sensible(run[p].tested)
               /\ \E prop \in {"17", "34"} : run[p].tested = Takeover(p, run[p], prop)

Shown(p) ==
  /\ \A i \in {1, 2} : LET part == <<"left", "right">>[i] IN
       disp[run[p].halves[i]] = [fb |-> p, crtc |-> run[p].crtc, src |-> part, dst |-> part]
  /\ \A pl \in Planes \ {run[p].halves[1], run[p].halves[2]} :
       disp[pl].fb # None => disp[pl].crtc # run[p].crtc

Takes(p) ==
  /\ run[p].pc \in {"commit", "show"} => run[p].tool \in Takeovers
  /\ run[p].tool \in Takeovers /\ run[p].pc \in {"fb", "test", "commit", "show"} => Picked(run[p])
  /\ run[p].tool \in Takeovers /\ run[p].pc \in {"fb", "test", "commit"} => Counted(p)
  /\ run[p].pc = "test" => run[p].step \in Nat \ {0}
  /\ run[p].pc = "commit" => Accepted(p)
  /\ run[p].pc = "show" => Shown(p)

PictureInv ==
  /\ dev \in Devices
  /\ Cardinality(Composed) <= MaxOther
  /\ \A pl \in Planes : Lights(pl)
  /\ \A p \in Procs : Takes(p)

LEMMA PictureInitially == Init => PictureInv
<1> SUFFICES ASSUME Init PROVE PictureInv
  OBVIOUS
<1>1. dev \in Devices /\ MaxOther \in Nat /\ \A pl \in Planes : disp[pl] = Dark
  BY ProcsAssumption DEF Init, Planes
<1>2. Composed = {}
  BY <1>1, ProcsAssumption DEF Composed, Dark
<1>3. \A p \in Procs : Takes(p)
  BY DEF Init, Idle, Takes
<1>4. QED
  BY <1>1, <1>2, <1>3, FS_EmptySet DEF PictureInv, Lights, Dark

(* A process keeps what is known of it while it waits and only others'      *)
(* pictures go dark.                                                         *)
LEMMA TakesStays ==
  ASSUME PictureInv, NEW q \in Procs, run'[q] = run[q], dev' = dev,
         \A pl \in Planes : disp'[pl] = disp[pl] \/ (disp[pl].fb # q /\ disp'[pl] = Dark)
  PROVE  Takes(q)'
<1>1. Takes(q) /\ Planes' = Planes
  BY DEF PictureInv, Planes
<1>2. Picked(run[q]) => Picked(run[q])'
  BY <1>1 DEF Picked
<1>3. Counted(q) => Counted(q)'
  BY <1>1 DEF Counted, Bright, Dark, Usable
<1>4. Accepted(q) => Accepted(q)'
  BY <1>1 DEF Accepted, Sensible, Crtcs, Takeover
<1>5. Picked(run[q]) /\ Shown(q) => Shown(q)'
  BY <1>1 DEF Shown, Picked, Dark
<1>6. QED
  BY <1>1, <1>2, <1>3, <1>4, <1>5 DEF Takes

(* Whoever is not the master is not in the middle of a takeover.             *)
LEMMA TakesNothing ==
  ASSUME GateInv, PictureInv, NEW q \in Procs, master # q, run'[q] = run[q]
  PROVE  Takes(q)'
BY DEF GateInv, Holds, PictureInv, Takes, Careful

LEMMA FewerComposed ==
  ASSUME PictureInv, dev' = dev, Composed' \subseteq Composed
  PROVE  Cardinality(Composed') <= MaxOther
<1>1. IsFiniteSet(Composed)
  BY PlanesFinite, FS_Subset DEF Composed, PictureInv
<1>2. /\ Cardinality(Composed') <= Cardinality(Composed) /\ Cardinality(Composed') \in Nat
      /\ Cardinality(Composed) \in Nat
  BY <1>1, FS_Subset, FS_CardinalityType
<1>3. QED
  BY <1>2, ProcsAssumption DEF PictureInv

LEMMA QuitPictures ==
  ASSUME GateInv, PictureInv, NEW p \in Procs, NEW why, Quits(p, why)
  PROVE  PictureInv'
<1>1. /\ dev' = dev /\ disp' = Closed(p) /\ Planes' = Planes
      /\ run' = [run EXCEPT ![p] = [Idle EXCEPT !.pc = "done", !.code = why]]
  BY DEF Quits, Goes, Release, Planes
<1>2. \A pl \in Planes : disp'[pl] = IF disp[pl].fb = p THEN Dark ELSE disp[pl]
  BY <1>1 DEF Closed
<1>3. Cardinality(Composed') <= MaxOther
  BY <1>1, <1>2, FewerComposed, ProcsAssumption DEF Composed, Dark
<1>4. \A pl \in Planes : Lights(pl)'
  BY <1>1, <1>2 DEF PictureInv, Lights, Dark, Usable, GateInv, Shape
<1>5. Takes(p)'
  BY <1>1 DEF Takes, Idle, GateInv, Shape
<1>6. \A q \in Procs : q # p => Takes(q)'
  BY <1>1, <1>2, TakesStays DEF GateInv, Shape
<1>7. QED
  BY <1>1, <1>3, <1>4, <1>5, <1>6 DEF PictureInv

LEMMA ComposerPictures ==
  ASSUME GateInv, PictureInv, Acquire \/ Flip \/ Leave PROVE PictureInv'
<1>0. dev' = dev /\ run' = run /\ Planes' = Planes
  BY DEF Acquire, Flip, Leave, Planes
<1>1. CASE UNCHANGED disp
  <2>1. Cardinality(Composed') <= MaxOther
    BY <1>0, <1>1, FewerComposed DEF Composed
  <2>2. \A pl \in Planes : Lights(pl)'
    BY <1>0, <1>1 DEF PictureInv, Lights, Usable
  <2>3. \A p \in Procs : Takes(p)'
    BY <1>0, <1>1, TakesStays
  <2>4. QED
    BY <1>0, <2>1, <2>2, <2>3 DEF PictureInv
<1>2. CASE master = "composer" /\ disp' # disp
  <2>1. \A p \in Procs : Takes(p)'
    BY <1>0, <1>2, TakesNothing, ProcsAssumption
  <2>2. CASE Flip
    <3>1. PICK f \in dev.frames :
            disp' = [pl \in Planes |-> IF pl \in DOMAIN f
                                      THEN [Dark EXCEPT !.fb = "composer", !.crtc = f[pl]] ELSE Dark]
      BY <2>2 DEF Flip
    <3>2. Device(dev) /\ dev \in Devices
      BY DevicesAssumption DEF PictureInv
    <3>3. DOMAIN f \subseteq Planes /\ Cardinality(DOMAIN f) <= MaxOther
          /\ \A pl \in DOMAIN f : Usable(pl, f[pl])
      BY <3>1, <3>2 DEF Device, Planes, Usable
    <3>4. Composed' \subseteq DOMAIN f
      BY <1>0, <3>1 , ProcsAssumption DEF Composed, Dark
    <3>5. Cardinality(Composed') <= MaxOther
      <4>1. IsFiniteSet(DOMAIN f)
        BY <3>2, <3>3, PlanesFinite, FS_Subset
      <4>2. /\ Cardinality(Composed') <= Cardinality(DOMAIN f) /\ Cardinality(Composed') \in Nat
            /\ Cardinality(DOMAIN f) \in Nat
        BY <3>4, <4>1, FS_Subset, FS_CardinalityType
      <4>3. QED
        BY <3>3, <4>2, ProcsAssumption
    <3>6. \A pl \in Planes : Lights(pl)'
      BY <1>0, <3>1, <3>3 DEF Lights, Dark, Usable
    <3>7. QED
      BY <1>0, <2>1, <3>2, <3>5, <3>6 DEF PictureInv
  <2>3. CASE Leave
    <3>1. \A pl \in Planes : disp'[pl] = IF disp[pl].fb = "composer" THEN Dark ELSE disp[pl]
      BY <1>2, <2>3 DEF Leave, Closed
    <3>2. Cardinality(Composed') <= MaxOther
      BY <1>0, <3>1, FewerComposed DEF Composed, Dark
    <3>3. \A pl \in Planes : Lights(pl)'
      BY <1>0, <3>1 DEF PictureInv, Lights, Dark, Usable
    <3>4. QED
      BY <1>0, <2>1, <3>2, <3>3 DEF PictureInv
  <2>4. QED
    BY <1>2, <2>2, <2>3 DEF Acquire
<1>3. QED
  BY <1>1, <1>2 DEF Acquire, Flip, Leave

(* A step of a tool that shows nothing yet, and leaves the display alone.    *)
LEMMA MovePictures ==
  ASSUME GateInv, PictureInv, NEW p \in Procs, NEW r, Goes(p, r), UNCHANGED <<dev, disp>>,
         run[p].pc # "show", Takes(p)'
  PROVE  PictureInv'
<1>1. Planes' = Planes /\ \A q \in Procs : q # p => run'[q] = run[q]
  BY DEF Planes, Goes, GateInv, Shape
<1>2. Cardinality(Composed') <= MaxOther
  BY <1>1, FewerComposed DEF Composed
<1>3. \A pl \in Planes : Lights(pl)'
  BY <1>1 DEF PictureInv, Lights, Usable
<1>4. \A q \in Procs : q # p => Takes(q)'
  BY <1>1, TakesStays
<1>5. QED
  BY <1>1, <1>2, <1>3, <1>4 DEF PictureInv

LEMMA OpenPictures ==
  ASSUME GateInv, PictureInv, NEW p \in Procs, NEW t \in MayRun[p], Open(p, t) PROVE PictureInv'
<1>1. CASE Quits(p, 3)
  BY <1>1, QuitPictures
<1>2. CASE Goes(p, [run[p] EXCEPT !.tool = t, !.pc = "caps"]) /\ UNCHANGED <<dev, disp>>
  <2>1. Takes(p)'
    BY <1>2 DEF Goes, Takes, GateInv, Shape, Fields
  <2>2. run[p].pc # "show"
    BY DEF Open
  <2>3. QED
    BY <1>2, <2>1, <2>2, MovePictures
<1>3. QED
  BY <1>1, <1>2 DEF Open

LEMMA CapsPictures == ASSUME GateInv, PictureInv, NEW p \in Procs, SetCaps(p) PROVE PictureInv'
<1>1. CASE \E why : Quits(p, why)
  BY <1>1, QuitPictures
<1>2. ASSUME NEW r, Goes(p, r), r.pc = "find", Quiet PROVE PictureInv'
  <2>1. Takes(p)'
    BY <1>2 DEF Goes, Takes, GateInv, Shape
  <2>2. QED
    BY <1>2, <2>1, MovePictures DEF SetCaps, Quiet
<1>3. CASE Goes(p, [run[p] EXCEPT !.pc = "find"]) /\ Quiet
  <2>1. [run[p] EXCEPT !.pc = "find"].pc = "find"
    BY DEF GateInv, Shape, Fields
  <2>2. QED
    BY <1>2, <1>3, <2>1
<1>4. ASSUME NEW ok \in BOOLEAN, Goes(p, [run[p] EXCEPT !.cap = ok, !.pc = "find"]) /\ Quiet
      PROVE  PictureInv'
  <2>1. [run[p] EXCEPT !.cap = ok, !.pc = "find"].pc = "find"
    BY DEF GateInv, Shape, Fields
  <2>2. QED
    BY <1>2, <1>4, <2>1
<1>5. QED
  BY <1>1, <1>3, <1>4, Zenon DEF SetCaps

(* A takeover that looks for planes sees the compositor's pictures only.     *)
LEMMA OnlyComposed ==
  ASSUME GateInv, PictureInv, NEW p \in Procs, run[p].pc = "find", run[p].tool \in Takeovers
  PROVE  Bright = Composed
<1>1. master = p
  BY DEF GateInv, Holds, Careful
<1>2. ASSUME NEW pl \in Planes, disp[pl].fb \in Procs PROVE FALSE
  <2>1. run[disp[pl].fb].pc = "show" /\ Takes(disp[pl].fb) /\ Holds(disp[pl].fb)
    BY <1>2, ProcsAssumption DEF PictureInv, Lights, GateInv
  <2>2. QED
    BY <1>1, <2>1 DEF Takes, Holds, Careful
<1>3. QED
  BY <1>2, ProcsAssumption DEF Bright, Composed, PictureInv, Lights

LEMMA FindPictures == ASSUME GateInv, PictureInv, NEW p \in Procs, Find(p) PROVE PictureInv'
<1>0. run[p].pc = "find"
  BY DEF Find
<1>1. CASE \E why : Quits(p, why)
  BY <1>1, QuitPictures
<1>2. ASSUME NEW r, Goes(p, r), DOMAIN r = Fields, r.tool = run[p].tool, r.pc = "fb",
             run[p].tool \notin Takeovers, Quiet
      PROVE  PictureInv'
  <2>1. Takes(p)'
    BY <1>2 DEF Goes, Takes, GateInv, Shape
  <2>2. QED
    BY <1>0, <1>2, <2>1, MovePictures DEF Quiet
<1>3. CASE run[p].tool \in Takeovers /\ FoundTakeover(p)
  <2> DEFINE c == dev.encoder
             h == HalvesOn(c)
             r == [run[p] EXCEPT !.pc = "fb", !.crtc = c, !.halves = h, !.others = OthersOn(c)]
  <2>1. CASE h[1] # h[2] /\ Goes(p, r) /\ Quiet
    <3>1. /\ r.pc = "fb" /\ r.crtc = c /\ r.halves = h /\ r.others = OthersOn(c)
          /\ r.tool = run[p].tool
      BY DEF GateInv, Shape, Fields
    <3>2. run'[p] = r /\ dev' = dev /\ disp' = disp /\ Planes' = Planes
      BY <2>1 DEF Goes, Quiet, GateInv, Shape, Planes
    <3>3. h[1] \in Planes /\ h[2] \in Planes
      BY <2>1, HalvesPicked DEF PictureInv
    <3>4. \A pl \in Bright : Usable(pl, c) => pl \in OthersOn(c)
      BY <1>0, <1>3, OnlyComposed, OthersFound DEF PictureInv
    <3> HIDE DEF r, h, c
    <3>5. Counted(p)'
      BY <3>1, <3>2, <3>4 DEF Counted, Bright, Usable
    <3>6. Takes(p)'
      BY <2>1, <3>1, <3>2, <3>3, <3>5 DEF Takes, Picked
    <3>7. QED
      BY <1>0, <2>1, <3>2, <3>6, MovePictures
  <2>2. QED
    BY <1>1, <1>3, <2>1, Zenon DEF FoundTakeover
<1>4. ASSUME NEW c, Goes(p, [run[p] EXCEPT !.pc = "fb", !.crtc = c]), Quiet,
             run[p].tool \notin Takeovers
      PROVE  PictureInv'
  <2> DEFINE r == [run[p] EXCEPT !.pc = "fb", !.crtc = c]
  <2>1. DOMAIN r = Fields /\ r.tool = run[p].tool /\ r.pc = "fb"
    BY DEF GateInv, Shape, Fields
  <2>2. Goes(p, r) /\ Quiet
    BY <1>4
  <2> HIDE DEF r
  <2>3. QED
    BY <1>2, <1>4, <2>1, <2>2
<1>5. ASSUME NEW c, NEW h, NEW o, Quiet, run[p].tool \notin Takeovers,
             Goes(p, [run[p] EXCEPT !.pc = "fb", !.crtc = c, !.halves = h, !.others = o])
      PROVE  PictureInv'
  <2> DEFINE r == [run[p] EXCEPT !.pc = "fb", !.crtc = c, !.halves = h, !.others = o]
  <2>1. DOMAIN r = Fields /\ r.tool = run[p].tool /\ r.pc = "fb"
    BY DEF GateInv, Shape, Fields
  <2>2. Goes(p, r) /\ Quiet
    BY <1>5
  <2> HIDE DEF r
  <2>3. QED
    BY <1>2, <1>5, <2>1, <2>2
<1>6. CASE run[p].tool \notin Takeovers /\ Goes(p, [run[p] EXCEPT !.pc = "fb"]) /\ Quiet
  <2> DEFINE r == [run[p] EXCEPT !.pc = "fb"]
  <2>1. DOMAIN r = Fields /\ r.tool = run[p].tool /\ r.pc = "fb"
    BY DEF GateInv, Shape, Fields
  <2>2. Goes(p, r) /\ Quiet
    BY <1>6
  <2> HIDE DEF r
  <2>3. QED
    BY <1>2, <1>6, <2>1, <2>2
<1>7. CASE run[p].tool \notin Takeovers /\ (FoundStage(p) \/ FoundBisect(p))
  BY <1>1, <1>4, <1>7, Zenon DEF FoundStage, FoundBisect
<1>8. CASE run[p].tool \notin Takeovers /\ FoundReplica(p)
  BY <1>1, <1>5, <1>8, Zenon DEF FoundReplica
<1>9. QED
  <2>1. \A t \in {"stageprobe", "atombisect", "replicate", "rawprobe"} : t \notin Takeovers
    BY DEF Takeovers
  <2>2. QED
    BY <1>3, <1>6, <1>7, <1>8, <2>1 DEF Find

(* Later steps keep what was found.                                          *)
LEMMA TakesOn ==
  ASSUME GateInv, PictureInv, NEW p \in Procs, NEW r, Goes(p, r), UNCHANGED <<dev, disp>>,
         r.tool = run[p].tool, r.crtc = run[p].crtc, r.halves = run[p].halves,
         r.others = run[p].others, run[p].pc \in {"fb", "test"}, r.pc \in {"test", "commit"},
         r.pc = "test" => r.step \in Nat \ {0},
         r.pc = "commit" => r.tool \in Takeovers /\ Sensible(r.tested)
           /\ \E prop \in {"17", "34"} : r.tested = Takeover(p, run[p], prop)
  PROVE  PictureInv'
<1>1. run'[p] = r /\ Planes' = Planes /\ Takes(p)
  BY DEF Goes, GateInv, Shape, Planes, PictureInv
<1>2. Counted(p) => Counted(p)'
  BY <1>1 DEF Counted, Bright, Usable
<1>3. r.pc = "commit" => Accepted(p)'
  BY <1>1 DEF Accepted, Sensible, Crtcs, Takeover
<1>4. Takes(p)'
  BY <1>1, <1>2, <1>3 DEF Takes, Picked
<1>5. QED
  BY <1>4, MovePictures

LEMMA MakeFbPictures == ASSUME GateInv, PictureInv, NEW p \in Procs, MakeFb(p) PROVE PictureInv'
<1>1. CASE FbFails(p)
  BY <1>1, QuitPictures DEF FbFails
<1>2. CASE FbMade(p)
  <2> DEFINE r == [run[p] EXCEPT !.pc = "test", !.step = 1]
  <2>1. /\ r.tool = run[p].tool /\ r.crtc = run[p].crtc /\ r.halves = run[p].halves
        /\ r.others = run[p].others /\ r.pc = "test" /\ r.step = 1 /\ run[p].pc = "fb"
    BY <1>2 DEF FbMade, GateInv, Shape, Fields
  <2>2. Goes(p, r) /\ UNCHANGED <<dev, disp>>
    BY <1>2 DEF FbMade, Quiet
  <2> HIDE DEF r
  <2>3. QED
    BY <2>1, <2>2, TakesOn
<1>3. QED
  BY <1>1, <1>2 DEF MakeFb

LEMMA TestPictures == ASSUME GateInv, PictureInv, NEW p \in Procs, Test(p) PROVE PictureInv'
<1> DEFINE req == Requests(p)[run[p].step]
<1> PICK a \in Answers(p, req) :
      Goes(p, [run[p] EXCEPT !.gated = (a = "gate"), !.step = NextStep(run[p]),
                 !.tested = IF run[p].tool \in Takeovers /\ a = "ok" THEN req ELSE @,
                 !.pc     = IF run[p].tool \in Takeovers /\ a = "ok" THEN "commit" ELSE @])
  BY Zenon DEF Test
<1> DEFINE won == run[p].tool \in Takeovers /\ a = "ok"
           r == [run[p] EXCEPT !.gated = (a = "gate"), !.step = NextStep(run[p]),
                   !.tested = IF won THEN req ELSE @, !.pc = IF won THEN "commit" ELSE @]
<1>1. Goes(p, r) /\ UNCHANGED <<dev, disp>> /\ run[p].pc = "test"
  BY DEF Test, Quiet
<1>2. /\ r.tool = run[p].tool /\ r.crtc = run[p].crtc /\ r.halves = run[p].halves
      /\ r.others = run[p].others /\ r.pc = (IF won THEN "commit" ELSE "test")
      /\ (won => r.tested = req) /\ r.step = run[p].step + 1
  BY <1>1 DEF GateInv, Shape, Fields, NextStep
<1>3. won => Sensible(req)
  BY DEF Answers
<1>4. ASSUME won PROVE \E prop \in {"17", "34"} : req = Takeover(p, run[p], prop)
  <2>1. Requests(p) = [i \in DOMAIN FbProps |-> Takeover(p, run[p], FbProps[i])]
    BY <1>4 DEF Requests, Takeovers
  <2>2. FbProps \in {<<"34">>, <<"17", "34">>}
    BY DevicesAssumption DEF PictureInv, Device, FbProps, FbListed
  <2>3. Len(Requests(p)) = Len(FbProps) /\ DOMAIN FbProps = 1 .. Len(FbProps)
    BY <2>1, <2>2
  <2>4. run[p].step \in DOMAIN FbProps
    BY <1>1, <2>2, <2>3 DEF Test, PictureInv, Takes
  <2>5. FbProps[run[p].step] \in {"17", "34"}
    BY <2>2, <2>4
  <2>6. QED
    BY <2>1, <2>4, <2>5
<1>5. run[p].step \in Nat \ {0}
  BY <1>1 DEF PictureInv, Takes
<1> HIDE DEF r, won, req
<1>6. QED
  BY <1>1, <1>2, <1>3, <1>4, <1>5, TakesOn DEF won

(* The commit: the halves show the picture, whatever else was lit is off or  *)
(* belongs to another crtc.                                                  *)
LEMMA CommitPictures == ASSUME GateInv, PictureInv, NEW p \in Procs, Commit(p) PROVE PictureInv'
<1>1. CASE Quits(p, 18)
  BY <1>1, QuitPictures
<1>2. CASE /\ "ok" \in Answers(p, run[p].tested) /\ Goes(p, [run[p] EXCEPT !.pc = "show"])
           /\ disp' = Applied(run[p].tested) /\ UNCHANGED <<dev, master, lit>>
  <2>1. run[p].pc = "commit" /\ run[p].tool \in Takeovers /\ Picked(run[p]) /\ Counted(p)
        /\ Accepted(p) /\ dev \in Devices
    BY DEF Commit, PictureInv, Takes
  <2>2. PICK prop \in {"17", "34"} : run[p].tested = Takeover(p, run[p], prop)
    BY <2>1 DEF Accepted
  <2>3. master = p
    BY <1>2 DEF Answers, Gate
  <2>4. /\ run'[p].pc = "show" /\ run'[p].tool = run[p].tool /\ run'[p].crtc = run[p].crtc
        /\ run'[p].halves = run[p].halves /\ \A q \in Procs : q # p => run'[q] = run[q]
        /\ Planes' = Planes
    BY <1>2 DEF Goes, GateInv, Shape, Fields, Planes
  <2> DEFINE h == run[p].halves
             c == run[p].crtc
             Half(i) == [fb |-> p, crtc |-> c, src |-> <<"left", "right">>[i],
                         dst |-> <<"left", "right">>[i]]
  <2>5. disp'[h[1]] = Half(1) /\ disp'[h[2]] = Half(2)
    BY <1>2, <2>1, <2>2, HalfApplied
  <2>6. ASSUME NEW pl \in Planes \ {h[1], h[2]}, disp'[pl].fb # None
        PROVE  /\ disp'[pl].fb = disp[pl].fb /\ disp'[pl].crtc = disp[pl].crtc
               /\ pl \notin run[p].others
    BY <1>2, <2>1, <2>2, <2>6, OtherApplied, OtherCrtc
  <2>7. ASSUME NEW pl \in Planes \ {h[1], h[2]}, disp'[pl].fb # None
        PROVE  disp[pl].fb = "composer" /\ Usable(pl, disp[pl].crtc) /\ ~Usable(pl, c)
    <3>1. pl \in Bright /\ Lights(pl) /\ ~Usable(pl, c)
      BY <2>1, <2>6, <2>7 DEF Bright, Counted, PictureInv
    <3>2. ASSUME disp[pl].fb \in Procs, run[disp[pl].fb].pc = "show" PROVE FALSE
      <4>1. Takes(disp[pl].fb) /\ Holds(disp[pl].fb)
        BY <3>2 DEF PictureInv, GateInv
      <4>2. QED
        BY <2>1, <2>3, <3>2, <4>1 DEF Takes, Holds, Careful
    <3>3. QED
      BY <3>1, <3>2 DEF Lights, Bright
  <2>8. Takes(p)'
    <3>1. \A pl \in Planes \ {h[1], h[2]} : disp'[pl].fb # None => disp'[pl].crtc # c
      BY <2>6, <2>7
    <3>2. Shown(p)'
      BY <2>4, <2>5, <3>1 DEF Shown
    <3>3. Picked(run[p])'
      BY <2>1, <2>4 DEF Picked
    <3>4. QED
      BY <2>1, <2>4, <3>2, <3>3 DEF Takes
  <2>9. \A q \in Procs : q # p => Takes(q)'
    BY <2>3, <2>4, TakesNothing
  <2>10. \A pl \in Planes : Lights(pl)'
    <3>1. \A i \in {1, 2} : disp'[h[i]].fb = p
      BY <2>5
    <3>2. ASSUME NEW pl \in Planes \ {h[1], h[2]} PROVE Lights(pl)'
      BY <1>2, <2>6, <2>7 DEF Lights, Usable
    <3>3. QED
      BY <2>4, <3>1, <3>2 DEF Lights
  <2>11. Composed' \subseteq Composed
    BY <2>4, <2>5, <2>6, <2>7, ProcsAssumption DEF Composed
  <2>12. QED
    BY <1>2, <2>1, <2>4, <2>8, <2>9, <2>10, <2>11, FewerComposed DEF PictureInv
<1>3. QED
  BY <1>1, <1>2 DEF Commit

LEMMA Pictures == Spec => []PictureInv
<1>1. GateInv /\ PictureInv /\ [Next]_vars => PictureInv'
  <2> SUFFICES ASSUME GateInv, PictureInv, [Next]_vars PROVE PictureInv'
    OBVIOUS
  <2>1. CASE UNCHANGED vars
    <3>1. dev' = dev /\ disp' = disp /\ run' = run /\ Planes' = Planes
      BY <2>1 DEF vars, Planes
    <3>2. Cardinality(Composed') <= MaxOther /\ \A pl \in Planes : Lights(pl)'
      BY <3>1, FewerComposed DEF Composed, PictureInv, Lights, Usable
    <3>3. \A p \in Procs : Takes(p)'
      BY <3>1, TakesStays
    <3>4. QED
      BY <3>1, <3>2, <3>3 DEF PictureInv
  <2>2. ASSUME NEW p \in Procs, Step(p) \/ Kill(p) \/ \E t \in MayRun[p] : Open(p, t)
        PROVE  PictureInv'
    <3>1. CASE TestsEnd(p) \/ Done(p) \/ Kill(p)
      BY <3>1, QuitPictures DEF TestsEnd, Done, Kill
    <3>2. QED
      BY <2>2, <3>1, OpenPictures, CapsPictures, FindPictures, MakeFbPictures, TestPictures,
         CommitPictures DEF Step
  <2>3. QED
    BY <2>1, <2>2, ComposerPictures, Zenon DEF Next
<1>2. QED
  BY Invariant, PictureInitially, <1>1, PTL DEF Spec

(* For every device, whatever the compositor left lit and whichever tools    *)
(* are started beside it, a takeover that shows its picture shows both       *)
(* halves of it, each in its own place, and nothing covers them.             *)
THEOREM PictureWhole == Spec => []HalvesShown
<1>1. PictureInv => HalvesShown
  BY DEF PictureInv, Takes, Shown, HalvesShown
<1>2. QED
  BY Pictures, <1>1, PTL
=============================================================================
